-------------------------- MODULE MCActiveInstances --------------------------
(***************************************************************************)
(* Two versions of a design with the modules top, leaf, wrap and lane and  *)
(* the interface bus.  A leaf has a bus, and leaf16 has a loop "lanes"     *)
(* that counts down with a loop "taps" in it, each tap a lane; a wrap      *)
(* hands its bus and one of its own to a leaf.  In "two" leaf16 has lost   *)
(* iterations, a lane with another lane in a loop of it has taken the name *)
(* of the wrap, and leaf4, whose bus is not connected, has come.           *)
(***************************************************************************)
EXTENDS ActiveInstances, TLC

InstanceOf(p, m, rank, conn) ==
  p :> [kind |-> "instance", module |-> m, rank |-> rank, conn |-> conn]
PortAt(p, via, end) == p :> [kind |-> "port", via |-> via, end |-> end]
LoopAt(p, l, rank, entries) ==
  p :> [kind |-> "array", loop |-> l, rank |-> rank, entries |-> entries]
BlockAt(p, array) == p :> [kind |-> "block", array |-> array]

Bus8  == <<"top", "bus8">>
Bus16 == <<"top", "bus16">>
Leaf(p, rank, bus) ==
  InstanceOf(p, "leaf", rank, <<bus>>) @@ PortAt(p \o <<"b">>, <<bus>>, bus)

\* Iteration lanes[i] of a leaf, and the taps in it.
LanesAt(leaf, i, name, taps) ==
  LET lane == leaf \o <<name>>
      Tap(t) == lane \o <<t>>
  IN  BlockAt(lane, leaf \o <<"lanes">>)
      @@ LoopAt(lane \o <<"taps">>, "taps", i, [k \in DOMAIN taps |-> Tap(taps[k])])
      @@ [t \in {Tap(taps[k]) : k \in DOMAIN taps} |->
            [kind |-> "block", array |-> lane \o <<"taps">>]]
      @@ [t \in {Tap(taps[k]) \o <<"lane">> : k \in DOMAIN taps} |->
            [kind |-> "instance", module |-> "lane", conn |-> <<>>,
             rank |-> i + IF t = Tap("taps[0]") \o <<"lane">> THEN 0 ELSE 1]]

Top(rest) ==
  InstanceOf(<<"top">>, "top", 0, <<>>)
  @@ InstanceOf(Bus8, "bus", 1, <<>>) @@ InstanceOf(Bus16, "bus", 2, <<>>)
  @@ Leaf(<<"top", "leaf8">>, 3, Bus8)
  @@ rest

WrapBus == <<"top", "wrap", "bus">>
Wrap ==
  InstanceOf(<<"top", "wrap">>, "wrap", 5, <<Bus8>>)
  @@ PortAt(<<"top", "wrap", "b">>, <<Bus8>>, Bus8)
  @@ InstanceOf(WrapBus, "bus", 6, <<>>)
  @@ InstanceOf(<<"top", "wrap", "leaf">>, "leaf", 7, <<Bus8, WrapBus>>)
  @@ PortAt(<<"top", "wrap", "leaf", "b">>, <<<<"top", "wrap", "b">>, Bus8>>, Bus8)

Leaf16 == <<"top", "leaf16">>
DesignOne ==
  Top(Leaf(Leaf16, 4, Bus16)
               @@ LoopAt(Leaf16 \o <<"lanes">>, "lanes", 0,
                         <<Leaf16 \o <<"lanes[1]">>, Leaf16 \o <<"lanes[0]">>>>)
               @@ LanesAt(Leaf16, 10, "lanes[0]", <<"taps[0]">>)
               @@ LanesAt(Leaf16, 20, "lanes[1]", <<"taps[0]", "taps[1]">>)
               @@ Wrap)
Wrap0 == <<"top", "wrap", "more[0]">>
DesignTwo ==
  Top(Leaf(Leaf16, 4, Bus16)
               @@ LoopAt(Leaf16 \o <<"lanes">>, "lanes", 0,
                         <<Leaf16 \o <<"lanes[1]">>>>)
               @@ LanesAt(Leaf16, 20, "lanes[1]", <<"taps[1]">>)
               @@ InstanceOf(<<"top", "wrap">>, "lane", 5, <<>>)
               @@ LoopAt(<<"top", "wrap", "more">>, "more", 0, <<Wrap0>>)
               @@ BlockAt(Wrap0, <<"top", "wrap", "more">>)
               @@ InstanceOf(Wrap0 \o <<"lane">>, "lane", 6, <<>>)
               @@ InstanceOf(<<"top", "leaf4">>, "leaf", 8, <<>>)
               @@ PortAt(<<"top", "leaf4", "b">>, <<>>, None))

MCDesigns == [s \in {"one", "two"} |-> IF s = "one" THEN DesignOne ELSE DesignTwo]
MCModules == {"top", "bus", "leaf", "wrap", "lane"}
\* old.sv is another version of the lane, which a design need not be made of.
MCDeclares == [d \in Docs |-> CASE d = "top.sv"  -> {"top", "wrap"}
                             [] d = "leaf.sv" -> {"leaf", "lane", "bus"}
                             [] d = "old.sv"  -> {"lane"}]
MCReads == [d \in Docs |-> {d} \cup IF d = "top.sv" THEN {"leaf.sv"} ELSE {}]
=============================================================================

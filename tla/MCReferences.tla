---------------------------- MODULE MCReferences ----------------------------
(***************************************************************************)
(* Workspaces of four files.  In the first, modules a and c have instances *)
(* of b, one of them named like b's module, and connect its port to a      *)
(* signal of the same name, with and without parentheses.  In the second,  *)
(* a, b and d use a package, spelled out, imported and imported by name,   *)
(* and names of their own that are the same.  In the third, an interface   *)
(* and a package stand between a and another package, and b connects an    *)
(* instance of the interface to a port of the same name.                   *)
(***************************************************************************)
EXTENDS References, TLC

I(sort, unit, name, of) == [sort |-> sort, unit |-> unit, name |-> name, of |-> of]
Unit(sort, n) == I(sort, "", n, 0)
Member(n) == I("member", "", n, 0)
Value(n) == I("value", "", n, 0)
Use(n) == I("use", "", n, 0)
Refers(sort, u) == I(sort, u, "", 0)
Instance(u, n) == I("inst", u, n, 0)
Picks(u, n) == I("pick", u, n, 0)
Scoped(u, n) == I("scoped", u, n, 0)
Port(n, of) == I("port", "", n, of)
Short(n, of) == I("short", "", n, of)

B == <<Unit("module", "B"), Member("k"), Use("k")>>
Ports ==
  "a" :> {<<Unit("module", "A"), Member("k"), Instance("B", "i"), Short("k", 3)>>,
          <<Unit("module", "A"), Member("k"), Instance("B", "i"), Port("k", 3)>>}
  @@ "b" :> {B, <<Unit("module", "B0"), Member("k")>>}
  @@ "c" :> {<<Unit("module", "C"), Member("k"), Instance("B", "B"), Short("k", 3)>>}
  @@ "d" :> {<<Unit("module", "D"), Member("k"), Instance("C", "i"), Short("k", 3)>>}

Package ==
  "a" :> {<<Unit("module", "A"), Member("v"), Scoped("P", "k"), Scoped("P", "v")>>,
          <<Unit("module", "A"), Refers("import", "P"), Member("k"), Use("k"), Use("v")>>}
  @@ "b" :> {<<Unit("module", "B"), Refers("import", "P"), Picks("P", "k"), Use("k"), Use("v")>>}
  @@ "c" :> {<<Unit("package", "P"), Member("k"), Value("v")>>,
             <<Unit("package", "P"), Value("v")>>}
  @@ "d" :> {<<Unit("module", "D"), Picks("P", "v"), Use("v")>>}

Chain ==
  "a" :> {<<Unit("module", "A"), Refers("iport", "J"), Member("j"), Use("j")>>}
  @@ "b" :> {<<Unit("module", "B"), Instance("J", "j"), Instance("A", "i"), Short("j", 3)>>}
  @@ "c" :> {<<Unit("interface", "J"), Refers("import", "P"), Use("k")>>,
             <<Unit("interface", "J"), Scoped("P", "k"), Scoped("P", "k")>>}
  @@ "d" :> {<<Unit("package", "P"), Member("k")>>, <<Unit("package", "Q"), Member("k")>>}

\* d imports k by its name, and uses it
Picked ==
  "c" :> {<<Unit("package", "P"), Member("k")>>}
  @@ "d" :> {<<Unit("module", "D"), Picks("P", "k"), Use("k")>>}
  @@ "b" :> {<<Unit("module", "B"), Refers("import", "P"), Use("k")>>}
  @@ "a" :> {<<Unit("module", "A"), Scoped("P", "k"), Use("k")>>}

MCWorkspaces == {Ports, Package, Chain, Picked}
PickedOnly == {Picked}
=============================================================================

------------------------- MODULE MCIncludeFragments -------------------------
(***************************************************************************)
(* Three projects of three files.  In the first a and b are modules that   *)
(* include f or not, so that f has two views.  In the second b is itself a *)
(* fragment that includes f, and a includes b, so that an owner becomes a  *)
(* fragment when a is opened last.  In the third b and f are guarded and   *)
(* include each other.                                                     *)
(***************************************************************************)
EXTENDS IncludeFragments, TLC

Text(kind, inc, rev) == [kind |-> kind, inc |-> inc, rev |-> rev]

Shared ==
  "a" :> {Text("unit", {"f"}, 0), Text("unit", {}, 0)}
  @@ "b" :> {Text("unit", {"f"}, 0), Text("unit", {"f"}, 1)}
  @@ "f" :> {Text("body", {}, 0), Text("broken", {}, 0)}

Nested ==
  "a" :> {Text("unit", {"b"}, 0), Text("unit", {}, 0)}
  @@ "b" :> {Text("body", {"f"}, 0), Text("clean", {}, 0)}
  @@ "f" :> {Text("body", {}, 0), Text("unit", {}, 0)}

Guarded ==
  "a" :> {Text("unit", {"f"}, 0), Text("unit", {"b"}, 0)}
  @@ "b" :> {Text("body", {"f"}, 0)}
  @@ "f" :> {Text("body", {"b"}, 0)}

MCProjects == {Shared, Nested, Guarded}
=============================================================================

------------------------- MODULE MCProjectComponent -------------------------
(* A small instance: a build file with a top and an instance in it, a top file *)
(* with another top, and a command that generates the first top without it.    *)
EXTENDS ProjectComponent, TLC

CONSTANTS f, t, c, r1, r1x, r2

MCRoot == (r1 :> r1) @@ (r1x :> r1) @@ (r2 :> r2)
MCContents == (f :> {r1, r1x}) @@ (t :> {r2}) @@ (c :> {r1})
=============================================================================

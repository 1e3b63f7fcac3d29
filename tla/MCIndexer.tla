----------------------------- MODULE MCIndexer -----------------------------
(* Two files and two names.  The contents: a module a that refers to b, a    *)
(* header that defines macro a and includes one defining b, and a file of    *)
(* classes only.  The configurations: both files, once each, and the first   *)
(* file under two overlapping directories.                                   *)
EXTENDS Indexer, TLC
CONSTANTS p1, p2, a, b

File(s, cl, m, i, r) == [symbols |-> s, classes |-> cl, macros |-> m, included |-> i, refs |-> r]
ThreeContents == {File({a}, FALSE, {}, {}, {b}),
                  File({}, FALSE, {a}, {b}, {}),
                  File({}, TRUE, {b}, {}, {a})}
Once == p1 :> 1 @@ p2 :> 1
Overlapping == p1 :> 2 @@ p2 :> 0
BothConfigs == {Once, Overlapping}
=============================================================================

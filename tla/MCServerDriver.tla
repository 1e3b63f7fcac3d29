--------------------------- MODULE MCServerDriver ---------------------------
(* A module m that refers to a package p; both are in the build file.        *)
EXTENDS ServerDriver
CONSTANTS m, p
TwoFiles == {m, p}
PackageOnly == [u \in TwoFiles |-> IF u = m THEN {p} ELSE {}]
=============================================================================

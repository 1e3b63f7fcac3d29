-------------------------- MODULE MCDocumentEdits --------------------------
(***************************************************************************)
(* Texts of up to three characters out of a letter, a letter of two bytes  *)
(* and the end of a line; a change puts in up to one character.            *)
(***************************************************************************)
EXTENDS DocumentEdits, TLC

MCChars == {"a", "e", "n"}
MCWidth == "a" :> 1 @@ "e" :> 2 @@ "n" :> 1
MCTexts == BoundedSeq(MCChars, 3)
MCInserts == BoundedSeq(MCChars, 1)
=============================================================================

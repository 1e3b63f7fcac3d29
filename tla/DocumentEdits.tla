--------------------------- MODULE DocumentEdits ---------------------------
(* The text of an open document, as the editor has it and as the server      *)
(* follows it (SlangDoc::onChange, src/document/SlangDoc.cpp).               *)
(*                                                                           *)
(* The editor's text is a sequence of characters, each one UTF-16 unit, and  *)
(* its positions count units.  The server's is a sequence of UTF-8 bytes     *)
(* that ends in a zero, and it counts bytes.                                 *)
EXTENDS Integers, Sequences, FiniteSets, SequencesExt

CONSTANTS
  Chars, Newline,
  Width,          \* the number of bytes of each character
  Texts,          \* texts that the editor may have
  Inserts,        \* texts that one change may put in
  MaxBatches      \* bound on notifications between two saves

ASSUME EditsAssumption ==
  /\ Newline \in Chars /\ Width \in [Chars -> 1..3] /\ Width[Newline] = 1
  /\ Texts \subseteq Seq(Chars) /\ Inserts \subseteq Texts
  /\ MaxBatches \in Nat

VARIABLES
  typed,       \* the editor's text
  buffer,      \* the bytes of m_buffer, or Unknown after an undefined access
  exact,       \* every position since the last full text was the same in bytes
  batches
editsVars == <<typed, buffer, exact, batches>>

----------------------------------------------------------------------------
(* Bytes, lines and positions                                                *)

Zero == <<"zero", 0>>
Unknown == <<>>
Encode(bytes, c) == bytes \o [j \in 1..Width[c] |-> <<c, j>>]
Bytes(tx) == FoldLeft(Encode, <<>>, tx)
BufferOf(tx) == Append(Bytes(tx), Zero)

Before(s, k) == SubSeq(s, 1, k)
After(s, k) == SubSeq(s, k + 1, Len(s))

\* The offsets at which lines start, for any text and its end of line, and the
\* one among them that has so many before it.
LineOffsets(s, newline) == {0} \cup {i \in DOMAIN s : s[i] = newline}
StartOf(offsets, line) == CHOOSE k \in offsets : Cardinality({j \in offsets : j < k}) = line

\* The position of an offset in the editor's text.
PositionAt(tx, k) ==
  LET starts == LineOffsets(Before(tx, k), Newline)
  IN  [line |-> Cardinality(starts) - 1, character |-> k - Max(starts)]

----------------------------------------------------------------------------
(* What the editor sends                                                     *)

\* A change of the editor: the characters between two offsets are replaced, or
\* all of them.
Changes(tx) ==
  {c \in [whole : BOOLEAN, from : 0..Len(tx), to : 0..Len(tx), text : Inserts] :
     IF c.whole THEN c.from = 0 /\ c.to = Len(tx) ELSE c.from <= c.to}
Edited(tx, c) == Before(tx, c.from) \o c.text \o After(tx, c.to)

\* The event that it sends for the change.
Event(tx, c) == [whole |-> c.whole, text |-> Bytes(c.text),
                 start |-> PositionAt(tx, c.from), end |-> PositionAt(tx, c.to)]

\* A position means the same offset in bytes.
Exact(tx, c) ==
  c.whole \/ \A k \in {c.from, c.to} : LET units == PositionAt(tx, k).character
                                      IN  Len(Bytes(SubSeq(tx, k - units + 1, k))) = units

----------------------------------------------------------------------------
(* SlangDoc::onChange                                                        *)

InBounds(offsets, range) ==
  range.start.line < Cardinality(offsets) /\ range.end.line < Cardinality(offsets)
Offset(offsets, position) == StartOf(offsets, position.line) + position.character
EnsureTerminated(b) == IF b = <<>> \/ b[Len(b)] # Zero THEN Append(b, Zero) ELSE b

\* The first change builds the buffer out of the old text.
Splice(b, first, second, new) == EnsureTerminated(Before(b, first) \o new \o After(b, second))
\* Later ones work in the buffer.
Rework(b, first, second, new) ==
  LET erased == IF second > first THEN Before(b, first) \o After(b, second) ELSE b
  IN  Before(erased, first) \o new \o After(erased, first)

\* The state of the loop: the text, the buffer so far, and what went wrong.
\* Only a whole text does not look at what is there.
Apply(s, e, offsets) ==
  IF s.error # "none" THEN s
  ELSE IF e.whole THEN [s EXCEPT !.text = EnsureTerminated(e.text), !.first = FALSE]
  ELSE IF s.text = Unknown THEN [s EXCEPT !.error = "undefined"]
  ELSE IF ~InBounds(offsets, e) THEN [s EXCEPT !.error = "exception"]
  ELSE LET first == Offset(offsets, e.start)
           second == Offset(offsets, e.end)
       IN  IF first > Len(s.text) \/ second > Len(s.text) THEN [s EXCEPT !.error = "undefined"]
           ELSE [s EXCEPT !.first = FALSE,
                          !.text = IF s.first THEN Splice(@, first, second, e.text)
                                   ELSE Rework(@, first, second, e.text)]
ApplyNext(s, e) == Apply(s, e, LineOffsets(s.text, <<Newline, 1>>))

Started(b) == [text |-> b, first |-> TRUE, error |-> "none"]
Result(b, s) ==
  IF s.error = "none" THEN s.text ELSE IF s.error = "exception" THEN b ELSE Unknown

\* (wrong: the lines stay those of the text before the notification)
OnChangeAtOnce(b, events) ==
  LET lines == LineOffsets(b, <<Newline, 1>>)
  IN  Result(b, FoldLeft(LAMBDA s, e : Apply(s, e, lines), Started(b), events))

OnChange(b, events) == Result(b, FoldLeft(ApplyNext, Started(b), events))

\* (wrong: only the size is compared)
SavedBytesBySize(b, text) == IF Len(b) = Len(text) + 1 THEN b ELSE Append(text, Zero)

\* textMatches, and openDocument with the text that came with the save
SavedBytes(b, text) == IF b = Append(text, Zero) THEN b ELSE Append(text, Zero)

----------------------------------------------------------------------------

EditsInit ==
  /\ typed \in Texts
  /\ buffer = BufferOf(typed)
  /\ exact = TRUE
  /\ batches = 0

\* A notification: where a change fails, the later ones are lost too.
ChangeText(changes) ==
  LET texts == [i \in 0..Len(changes) |->
                  FoldLeft(Edited, typed, Before(changes, i))]
  IN  /\ batches < MaxBatches
      /\ texts[Len(changes)] \in Texts
      /\ typed' = texts[Len(changes)]
      /\ buffer' = OnChange(buffer, [i \in DOMAIN changes |-> Event(texts[i-1], changes[i])])
      /\ exact' = /\ exact \/ changes[1].whole
                  /\ \A i \in DOMAIN changes : Exact(texts[i-1], changes[i])
      /\ batches' = batches + 1

SaveText ==
  /\ buffer' = SavedBytes(buffer, Bytes(typed))
  /\ exact' = TRUE
  /\ batches' = 0
  /\ UNCHANGED typed

EditsNext ==
  \/ \E c \in Changes(typed) : ChangeText(<<c>>)
  \/ \E c \in Changes(typed) : \E d \in Changes(Edited(typed, c)) : ChangeText(<<c, d>>)
  \/ SaveText

EditsSpec == EditsInit /\ [][EditsNext]_editsVars

----------------------------------------------------------------------------
(* Properties                                                                *)

(* As long as the columns of the positions are the same in bytes and units,  *)
(* the server has the editor's text, whatever the changes of a notification  *)
(* do to each other's lines (src/document/SlangDoc.cpp:211); and what got    *)
(* out of step is repaired by the next save (src/SlangServer.cpp:926).       *)
ExactChangesAreFollowed == exact => buffer = BufferOf(typed)

(* No change of a conforming editor reads out of bounds or throws, even when *)
(* its columns are others in bytes: no line is lost, and none gets shorter   *)
(* than the editor's (src/document/SlangDoc.cpp:242 throws for a line that   *)
(* is not there, and nothing checks the columns).                            *)
EditsStayInBounds ==
  /\ buffer # Unknown
  /\ \A c \in Changes(typed) : ApplyNext(Started(buffer), Event(typed, c)).error = "none"

(* "If the server omits the position encoding in its initialize result the   *)
(* encoding defaults to the string value `utf-16`" (LspTypes.h:81, and the   *)
(* server omits it): the server has the editor's text after every change.    *)
Utf16PositionsAreFollowed == buffer = BufferOf(typed)
=============================================================================

SPECIFICATION EditsSpec
CONSTANTS
  Chars <- MCChars
  Newline = "n"
  Width <- MCWidth
  Texts <- MCTexts
  Inserts <- MCInserts
  MaxBatches = 2
INVARIANTS
  ExactChangesAreFollowed EditsStayInBounds

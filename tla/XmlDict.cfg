SPECIFICATION Spec
CONSTANTS
  a = a  b = b  id = id
  TextKey = TextKey  TailKey = TailKey  CommentKey = CommentKey
  Names <- MCNames
  Attributes <- MCAttributes
  Forced <- MCForced
  ProcessComments = TRUE
  BufferSize = 1
  MaxRun = 2
  MaxParts = 6
  MaxDepth = 3
INVARIANTS WordsAreKept UnparseReverses

\* Two Splits take turns on a rayon worker, each also inside a call of its own.
CONSTANTS
  MaxLen = 3
  Splits = {1, 2}
  Patterns <- MCPatterns
  PatternOf <- WordsAndLetters
  First <- MCFirst
  Chars = {0, 1}
  Texts <- MCTexts
  Buffers <- MCTexts
  Margins <- WholeBuffer
  MinPrefix = 1
  ParallelLen = 1
  Nests <- SamePairs
  MaxDepth = 2
SPECIFICATION Spec
INVARIANTS Fresh Owned Tiled

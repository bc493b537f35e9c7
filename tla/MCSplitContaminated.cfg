\* Two Splits run inside each other on a rayon worker.
CONSTANTS
  MaxLen = 3
  Splits = {1, 2}
  Patterns <- MCPatterns
  PatternOf <- WordsAndLetters
  First <- MCFirst
  Chars = {0, 1}
  Texts <- MCTexts
  Buffers <- MCTexts
  Margins <- WholeBuffer
  MinPrefix = 1
  ParallelLen = 1
  Nests <- EveryPair
  MaxDepth = 2
SPECIFICATION Spec
INVARIANT Owned

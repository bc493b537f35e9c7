\* One Split whose pattern looks ahead of its matches.
CONSTANTS
  MaxLen = 5
  Splits = {1}
  Patterns <- MCPatterns
  PatternOf <- LlamaAndLetters
  First <- MCFirst
  Chars = {0, 1}
  Texts <- MCTexts
  Buffers <- MCTexts
  Margins <- WholeBuffer
  MinPrefix = 2
  ParallelLen = 2
  Nests = {}
  MaxDepth = 1
SPECIFICATION Spec
INVARIANT Fresh

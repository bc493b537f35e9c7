\* Collisions, updates in place, clears and entries that do not fit.
CONSTANTS
  Keys <- MCKeys
  Entries <- MCEntries
  RawHash <- MCRawHash
  Size = 4
  MaxLen = 2
  Wrap = 9
  MaxUpdates = 1
  None = None
SPECIFICATION Spec
INVARIANTS InBounds ProbesEnd
PROPERTY IsMap

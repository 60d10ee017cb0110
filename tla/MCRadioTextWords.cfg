CONSTANTS
  Texts <- MCTexts
  Width <- MCWidth
  MaxBytes = 17
  MaxChunks = 4
  Base = 3
  MaxFragments = 5
SPECIFICATION Spec
INVARIANT WordBoundary

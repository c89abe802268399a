SPECIFICATION FramerSpec
CONSTANTS
  MaxMsg = 6
  MaxChunk = 2
  MaxBytes = 8
INVARIANTS MessagesAreExact VerdictIsRight

\* Every stream of up to seven symbols, in every division into chunks of up to three
CONSTANTS
  Symbols <- DigitsAndOthers
  Value <- ThreeDigits
  MaxLen = 12
  MaxStream = 7
  MaxChunk = 3
  None = None
SPECIFICATION Spec
INVARIANTS
  TypeOK
  ChunksDoNotMatter
  TruncationNoticed
CHECK_DEADLOCK FALSE

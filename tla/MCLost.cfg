\* Instructions up to the end of the buffer.
SPECIFICATION Spec
CONSTANTS
  Label = {}
  NoLabel = NoLabel
  vaddr <- MCvaddr
  BufSize = 8
  DataSizes = {}
  Spaces = {}
  Blanks = {}
  MaxBytes <- MCMaxBytes
  MaxText = 12
  MaxData = 0
INVARIANTS
  NoByteLost

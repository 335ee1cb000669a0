\* One .byte.
SPECIFICATION Spec
CONSTANTS
  Label = {}
  NoLabel = NoLabel
  vaddr <- MCvaddr
  BufSize = 8
  DataSizes = {1}
  Spaces = {}
  Blanks = {}
  MaxBytes <- MCMaxBytes
  MaxText = 8
  MaxData = 0
INVARIANTS
  LinesAligned

\* Data directives and strings at every offset of a buffer of 8 bytes.
SPECIFICATION Spec
CONSTANTS
  Label = {}
  NoLabel = NoLabel
  vaddr <- MCvaddr
  BufSize = 8
  DataSizes = {1, 8}
  Spaces = {4}
  Blanks = {0, 1}
  MaxBytes <- MCMaxBytes
  MaxText = 13
  MaxData = 1
INVARIANTS
  PosIsOffset

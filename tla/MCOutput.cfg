\* Data of every size, strings and holes behind a text that may spill.
SPECIFICATION OutSpec
CONSTANTS
  Label = {_start}
  NoLabel = NoLabel
  start_label = _start
  vaddr <- MCvaddr
  BufSize = 8
  DataSizes = {2}
  Spaces = {4}
  Blanks = {}
  MaxBytes <- MCMaxBytes
  MaxText = 12
  MaxData = 4
  EhdrSize = 2
  PhdrSize = 1
  PageSize = 8
  OldSizes = {0, 30}
INVARIANTS
  WideDataAligned
  ZeroMeansLoaded

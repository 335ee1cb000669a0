\* A label referenced before it is defined.
SPECIFICATION Spec
CONSTANTS
  Label = {L1}
  NoLabel = NoLabel
  vaddr <- MCvaddr
  BufSize = 12
  DataSizes = {}
  Spaces = {}
  Blanks = {}
  MaxBytes <- MCMaxBytes
  MaxText = 8
  MaxData = 0
INVARIANTS
  UnassignedMeansWaiting

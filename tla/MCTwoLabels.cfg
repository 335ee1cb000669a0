\* Two labels, defined from both sections and referenced from a text of up to
\* four instructions over a buffer of three: holes, spills and lost bytes.
SPECIFICATION Spec
CONSTANTS
  Label = {L1, L2}
  NoLabel = NoLabel
  vaddr <- MCvaddr
  BufSize = 12
  DataSizes = {}
  Spaces = {8}
  Blanks = {}
  MaxBytes <- MCMaxBytes
  MaxText = 16
  MaxData = 0
SYMMETRY Symmetry
INVARIANTS
  FixesAreRight
  PendingIffWaiting
PROPERTIES
  ImplementsListing

\* One label, referenced from both sections, and text that spills twice over a
\* buffer of two instructions.
SPECIFICATION Spec
CONSTANTS
  Label = {L1}
  NoLabel = NoLabel
  vaddr <- MCvaddr
  BufSize = 8
  DataSizes = {}
  Spaces = {8}
  Blanks = {}
  MaxBytes <- MCMaxBytes
  MaxText = 20
  MaxData = 4
INVARIANTS
  TypeOK
  PatchesInBuffer
  FixesAreRight
  PendingIffWaiting
PROPERTIES
  NothingMoves
  ImplementsListing

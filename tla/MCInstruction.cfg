\* Every operation, with its label known early or late, and every register.
SPECIFICATION MCSpec
CONSTANTS
  Regs <- MCRegs
  Imms <- MCImms
  Offsets <- MCOffsets
  Texts <- MCTexts
INVARIANTS
  TypeOK
  OperationRecovered
  RegistersRecovered
  ImmediateRecovered
  DisplacementRecovered
  RegistersRead

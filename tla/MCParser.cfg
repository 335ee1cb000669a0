\* Sixteen lines with every edit, alone and behind nine openings.
SPECIFICATION Spec
CONSTANTS
  Register = {"x1"}
  Name = {"n"}
  Number = {"-1", "7", "300", "5000"}
  Value <- MCValue
  SpaceLimit = 5000
  MaxLine = 24
  Inputs <- MCInputs
INVARIANTS
  Understood
  LineReported
  ReadsStayInside
PROPERTIES
  Terminates

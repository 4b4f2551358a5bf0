SPECIFICATION Spec
CONSTANTS
  Controllers = {a, b}
  Nobody = nobody
  a = a
  b = b
  Commands <- NoCommands
  MaxContracts = 2
INVARIANTS OwnExecutionCompletes
SYMMETRY Symmetry
CHECK_DEADLOCK FALSE

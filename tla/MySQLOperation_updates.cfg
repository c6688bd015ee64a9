SPECIFICATION Spec
CONSTANTS
  p1 = p1
  p2 = p2
  Procs <- MCProcs
  Sessions <- MCSessions
  Stmts = 2
  MaxCalls = 2
  Faults <- NetworkFaults
INVARIANTS TypeOK SuccessIsDurable RolledBackIsUndone
PROPERTY DurableOnlyDuringCall
SYMMETRY Symmetry

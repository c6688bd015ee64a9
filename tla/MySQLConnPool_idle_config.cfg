SPECIFICATION Spec
CONSTANTS
  c1 = c1
  c2 = c2
  Monitor = monitor
  Callers <- MCCallers
  Untimed <- MCUntimed
  PoolSize = 2
  MaxVersion = 2
  Faults <- NoFaults
INVARIANT IdleConfigCurrent

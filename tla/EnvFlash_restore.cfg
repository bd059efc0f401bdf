SPECIFICATION Spec
CONSTANTS
  Envs = {d, e1, e2}
  Default = d
  None = None
  Bits = {0, 1, 2}
  UpData = TRUE
  Faults = {"restore"}
INVARIANT ValidBackup

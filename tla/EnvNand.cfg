SPECIFICATION Spec
CONSTANTS
  Envs = {d, e1, e2}
  Default = d
  None = None
  FlagMod = 5
INVARIANTS
  TypeOK
  PowerFailSafe
  InUseIsChosen
PROPERTIES
  ImplementsEnvStore

SPECIFICATION Spec
CONSTANTS
  Tokens = {t1, t2, t3, t4}
  Requests = {r1, r2}
  Lifetime = 2
  MaxClock = 3
  None = None
SYMMETRY Interchangeable
INVARIANTS
  TypeOK
  RotatedOnce
  OneActivePerLogin
  RotationWhole
  KnownTokensStored
PROPERTIES
  ImplementsSessions

SPECIFICATION Spec
CONSTANTS
  Users = {u1, u2}
  None = None
  Browsers = {b1}
  Requests = {q1, q2}
  ABSOLUTE = 5
  IDLE = 2
  REFRESH_AFTER = 1
  FREE_ATTEMPTS = 1
  BASE_LOCK = 1
  MAX_LOCK = 1
  MaxExtra = 1
INVARIANTS TypeOK SessionWindow AdminRemains
SYMMETRY MCSymmetry

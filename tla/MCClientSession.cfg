\* Two logins one after the other, two calls at a time, one rotation to spare.
CONSTANTS
  Families = {f1, f2}
  Tokens = {t1, t2, t3}
  Calls = {c1, c2}
  None = None
SPECIFICATION Spec
INVARIANTS NeverReusesToken
PROPERTIES OnlySignInStartsSession OnlyDeadSessionsExpire ProfileFollowsSession
SYMMETRY CallsAlike
CHECK_DEADLOCK FALSE

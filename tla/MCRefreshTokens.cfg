CONSTANTS
  Users = {u1}
  Families = {f1, f2}
  Tokens = {t1, t2, t3}
  Requests = {r1, r2}
  None = None
SPECIFICATION FairSpec
INVARIANTS OneLiveToken DeletedHasNoTokens
PROPERTIES EndedStaysEnded LogoutMissesOnlyRotated KeepsPromise EveryRequestAnswered

\* An accepted message, while the session of another one fails.
SPECIFICATION Spec
CONSTANTS
  Tasks = {t1, t2}
  MaxSockets = 2
  MaxText = 2
INVARIANT NoTextLost
CHECK_DEADLOCK FALSE

CONSTANTS
  Families = {f1, f2}
  Tokens = {t1, t2}
  Calls = {c1}
  None = None
SPECIFICATION Spec
PROPERTY StaleCallNeverRotates
CHECK_DEADLOCK FALSE

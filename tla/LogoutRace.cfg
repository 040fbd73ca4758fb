\* A logout that overlaps a refresh of the same login.
CONSTANTS
  Users = {u1}
  Families = {f1}
  Tokens = {t1, t2}
  Requests = {r1, r2}
  None = None
SPECIFICATION Spec
PROPERTY LogoutEndsFamily

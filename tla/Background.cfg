\* What the AppState listener is there for, which an opening it overtakes undoes.
SPECIFICATION Spec
CONSTANTS
  Tasks = {t1, t2}
  MaxSockets = 2
  MaxText = 2
INVARIANT MicOffInBackground
CHECK_DEADLOCK FALSE

CONSTANTS
  Families = {f1}
  Tokens = {t1, t2}
  Calls = {c1, c2}
  None = None
  FailuresBeforeOffline = 2
  Panels = {p1, p2}
  Loops = {l1, l2}
  LastUnit = 1
  MaxRestarts = 1
  NoLoop = NoLoop
  NoPanel = NoPanel
  Codes = {"x", "y", "z"}
  MaxXp = 3
  XpPerLevel = 2
  MaxVisibleToasts = 1
  NoStats = NoStats
  NoModal = NoModal
SPECIFICATION ProgressSpec
INVARIANT ProgressTypeOK
PROPERTIES EveryCallEnds OfflineOnEvidence GateFollowsServer PlaybackGoesOn EveryToastHasItsTurn
CHECK_DEADLOCK FALSE

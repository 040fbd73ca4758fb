\* Two modules of two structures drilled twice (the last only begun), one card, two
\* requests; and two sentences, one card, two requests at once of three, three local days.
CONSTANTS
  N = 2
  Keys = {k1, k2}
  Cap = 2
  Cards = {a1}
  Calls = {c1, c2}
  None = None
  Sentences = {k1, k2}
  StudyCards = {f1}
  LastTaught = 2
  Requests = {c1, c2}
  Rules <- MCRules
  MaxArrivals = 3
  MaxClock = 3
  MaxGrade = 1
  NoDay = NoDay
  NoRow = NoRow
SPECIFICATION LearnerSpec
INVARIANTS MidwayThroughOne CloseIsEarned LearningTypeOK XpIsEarned StreakIsRun RowsAgree
PROPERTY KeepsPath
SYMMETRY Alike
CHECK_DEADLOCK FALSE

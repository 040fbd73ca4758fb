\* Two teardowns or openings at a time, two sockets, two messages.
SPECIFICATION FairSpec
CONSTANTS
  Tasks = {t1, t2}
  MaxSockets = 2
  MaxText = 2
INVARIANTS TypeOK QuietInBackground NothingHeldWithoutSession SentOnceInOrder
PROPERTY ConnectingEnds
CHECK_DEADLOCK FALSE

\* One turn, one visit of the screen, two conversations.
CONSTANTS
  Turns = {n1}
  ChatTasks = {o1}
  MaxVisits = 1
  MaxConversations = 2
SPECIFICATION ChatSpec
INVARIANT NotResent
CHECK_DEADLOCK FALSE

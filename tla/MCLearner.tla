------------------------------- MODULE MCLearner -------------------------------
(***************************************************************************)
(* One learner on the backend: the module path of a planet with authored   *)
(* modules, and the records of a planet with one that is not.  The two     *)
(* share no row and run one at a time: a behaviour chooses first.          *)
(***************************************************************************)
EXTENDS MCModuleGate, LearningRecords

VARIABLE half

\* A badge for each kind of count, low enough that a few activities earn it.
MCRules ==
  {[metric |-> "sentences_mastered", threshold |-> 2,  reward |-> 10],
   [metric |-> "longest_streak",     threshold |-> 2,  reward |-> 15],
   [metric |-> "xp",                 threshold |-> 12, reward |-> 20]}

LearnerInit == half \in {"path", "records"} /\ Init /\ LearningInit

\* Bound: the last module is begun, not drilled to the end.  Those before it have
\* every race there is; what it adds is a module that opened after another.
LastOnlyBegun == \A k, l \in Keys : k # l => productions[N][k] + productions[N][l] < Cap

\* Bound: a card is made before the first request, and deleted while one holds what it
\* read of it.  At any other time the metric is stale at once, and nothing else follows.
InTheWay == \E r \in Requests : At(r, "review") \/ At(r, "graduates")
DeckInTime ==
  /\ arrivals' > 0 => \A k \in StudyCards : span[k] # "unmade"
  /\ Owned \ Owned' # {} => InTheWay

\* Bound: the clock moves while an activity is about to read it, the time zone while one
\* holds what it read.  Nothing else looks at either, so a move at any other time might as
\* well wait until then.
TimeInTime ==
  /\ clock' # clock => \E r \in Requests : At(r, "clock")
  /\ zone' # zone => \E r \in Requests : At(r, "touch") \/ At(r, "stats")

LearnerNext ==
  \/ half = "path"    /\ Next         /\ LastOnlyBegun' /\ UNCHANGED << learningVars, half >>
  \/ half = "records" /\ LearningNext /\ DeckInTime /\ TimeInTime /\ UNCHANGED << vars, half >>

learnerVars == << vars, learningVars, half >>

LearnerSpec == LearnerInit /\ [][LearnerNext]_learnerVars
================================================================================

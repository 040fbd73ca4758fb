------------------------------- MODULE MCProgress ------------------------------
(***************************************************************************)
(* What must go on: the components of the app whose promises are about     *)
(* what comes in the end, run one at a time as in MCScreens.  No symmetry, *)
(* which TLC's liveness checking does not support.                         *)
(***************************************************************************)
EXTENDS ClientSession, Reachability, StoryPlayer, Celebrations

VARIABLE part

Parts == {"client", "reach", "story", "celebration"}

\* Where a component may start in several ways, one that stands still takes one.
Takes(p, now, starts) == part = p \/ now = CHOOSE s \in starts : TRUE

ProgressInit ==
  /\ part \in Parts
  /\ Init
  /\ ReachInit       /\ Takes("reach", healthy, {TRUE})
  /\ StoryInit
  /\ CelebrationInit /\ Takes("celebration", << xp, earned >>, (0 .. MaxXp) \X SUBSET Codes)

Rest ==
  /\ part # "client"      => UNCHANGED vars
  /\ part # "reach"       => UNCHANGED reachVars
  /\ part # "story"       => UNCHANGED storyVars
  /\ part # "celebration" => UNCHANGED celebrationVars
  /\ UNCHANGED part

ProgressNext ==
  \/ part = "client"      /\ Next            /\ Rest
  \/ part = "reach"       /\ ReachNext       /\ Rest
  \/ part = "story"       /\ StoryNext       /\ Rest
  \/ part = "celebration" /\ CelebrationNext /\ Rest

progressVars == << part, vars, reachVars, storyVars, celebrationVars >>

\* The fairness of each component, as its module states it: the steps of the
\* others do not touch its variables.
ProgressSpec ==
  /\ ProgressInit /\ [][ProgressNext]_progressVars
  /\ \A c \in Calls : /\ WF_vars(Progress(c) /\ Rest)
                      /\ WF_vars(RefreshProgress(c) /\ Rest)
  /\ WF_reachVars(PingAnswers /\ Rest) /\ WF_reachVars(PollFires /\ Rest)
  /\ \A p \in Panels : WF_storyVars(RestartFires(p) /\ Rest)
  /\ \A l \in Loops : WF_storyVars((ClipArrives(l) \/ ClipEnds(l) \/ LoopGoesOn(l)) /\ Rest)
  /\ \A c \in Codes : WF_celebrationVars(ToastTimerFires(c) /\ Rest)
  /\ WF_celebrationVars(ModalTimerFires /\ Rest)
  /\ WF_celebrationVars(ModalCloses(TRUE) /\ Rest)

\* Every variable of the component that runs keeps its type.
ProgressTypeOK ==
  CASE part = "client"      -> TypeOK
    [] part = "reach"       -> ReachTypeOK
    [] part = "story"       -> StoryTypeOK
    [] part = "celebration" -> CelebrationTypeOK
=============================================================================

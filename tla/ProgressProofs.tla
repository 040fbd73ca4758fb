---------------------------- MODULE ProgressProofs -----------------------------
(***************************************************************************)
(* What holds of the offline screen for every number of failures before    *)
(* it, of the story player for any panels, loops and sentences, of the     *)
(* celebrations for any achievements, XP and limits, and of the client     *)
(* session beside them.                                                    *)
(***************************************************************************)
EXTENDS MCProgress, ClientSessionProofs, FiniteSetTheorems, SequenceTheorems, TLAPS

(***************************************************************************)
(* The offline screen: the inductive invariant                             *)
(***************************************************************************)

\* The monitor never counts a probe that was not missed, since a retry forgets its
\* count and not what happened; and a gate that is offline remembers it was.
CountsOnlyMissed == failures <= missed
OfflineIsStuck   == reach = "offline" => stuckOffline

ReachInv == ReachTypeOK /\ CountsOnlyMissed /\ OfflineIsStuck

LEMMA CountedBound ==
  ASSUME NEW n \in 0 .. FailuresBeforeOffline
  PROVE  /\ Counted(n + 1) \in 0 .. FailuresBeforeOffline
         /\ \A m \in 0 .. n : Counted(m + 1) <= Counted(n + 1)
PROOF
  BY OneFailureAtLeast DEF Counted

LEMMA ReachBegins ==
  ReachInit => ReachInv
PROOF
  <1> SUFFICES ASSUME ReachInit PROVE ReachInv
    OBVIOUS
  <1>1. failures = 0 /\ missed = 0 /\ 0 \in 0 .. FailuresBeforeOffline
    BY OneFailureAtLeast DEF ReachInit
  <1>2. ReachTypeOK
    BY <1>1 DEF ReachInit, ReachTypeOK
  <1>3. CountsOnlyMissed /\ OfflineIsStuck
    BY <1>1 DEF ReachInit, CountsOnlyMissed, OfflineIsStuck
  <1> QED
    BY <1>2, <1>3 DEF ReachInv

LEMMA PingInv ==
  ReachInv /\ PingAnswers => ReachInv'
PROOF
  <1> SUFFICES ASSUME ReachInv, PingAnswers PROVE ReachInv'
    OBVIOUS
  <1>1. PICK f, m : /\ f = failures /\ m = missed
                    /\ f \in 0 .. FailuresBeforeOffline /\ m \in 0 .. FailuresBeforeOffline
                    /\ f <= m
    BY DEF ReachInv, ReachTypeOK, CountsOnlyMissed
  <1>2. /\ Counted(f + 1) \in 0 .. FailuresBeforeOffline
        /\ Counted(m + 1) \in 0 .. FailuresBeforeOffline
        /\ Counted(f + 1) <= Counted(m + 1)
    <2>1. f \in 0 .. m
      BY <1>1, OneFailureAtLeast
    <2> QED
      BY <1>1, <2>1, CountedBound
  <1>3. /\ failures' = IF healthy THEN 0 ELSE Counted(f + 1)
        /\ missed' = IF healthy THEN 0 ELSE Counted(m + 1)
    BY <1>1 DEF PingAnswers, NextFailures
  <1>4. /\ failures' \in 0 .. FailuresBeforeOffline
        /\ missed' \in 0 .. FailuresBeforeOffline
        /\ failures' <= missed'
    BY <1>2, <1>3, OneFailureAtLeast
  <1>5. /\ healthy' = healthy /\ mounted' = mounted /\ inFlight' = FALSE
        /\ poll' \in {"slow", "fast"}
        /\ reach' \in {"online", "offline", reach}
        /\ stuckOffline' = (reach' = "offline" \/ (stuckOffline /\ reach' # "online"))
    BY DEF PingAnswers, NextPoll, ShowStatus
  <1> QED
    BY <1>4, <1>5 DEF ReachInv, ReachTypeOK, CountsOnlyMissed, OfflineIsStuck

LEMMA ReachStep ==
  ReachInv /\ [ReachNext]_reachVars => ReachInv'
PROOF
  <1> SUFFICES ASSUME ReachInv, [ReachNext]_reachVars PROVE ReachInv'
    OBVIOUS
  <1> USE DEF ReachInv, ReachTypeOK, CountsOnlyMissed, OfflineIsStuck
  <1>1. CASE PingAnswers
    BY <1>1, PingInv
  <1>2. CASE PollFires
    BY <1>2 DEF PollFires, CheckHealth
  <1>3. CASE OnAppStateActive
    BY <1>3 DEF OnAppStateActive, CheckHealth
  <1>4. CASE RetryProbe
    BY <1>4, OneFailureAtLeast DEF RetryProbe, ShowStatus, CheckHealth
  <1>5. CASE DisposeGate
    BY <1>5 DEF DisposeGate
  <1>6. CASE MountGate
    <2>1. failures' = 0 /\ missed' = 0 /\ 0 \in 0 .. FailuresBeforeOffline
      BY <1>6, OneFailureAtLeast DEF MountGate
    <2>2. ReachTypeOK'
      BY <1>6, <2>1 DEF MountGate
    <2>3. CountsOnlyMissed' /\ OfflineIsStuck'
      BY <1>6, <2>1 DEF MountGate
    <2> QED
      BY <2>2, <2>3
  <1>7. CASE NetworkChanges
    BY <1>7 DEF NetworkChanges
  <1>8. CASE UNCHANGED reachVars
    BY <1>8 DEF reachVars
  <1> QED
    BY <1>1, <1>2, <1>3, <1>4, <1>5, <1>6, <1>7, <1>8 DEF ReachNext

LEMMA ReachInvariance ==
  ReachSpec => []ReachInv
PROOF
  <1> USE ReachBegins, ReachStep
  <1> QED
    BY PTL DEF ReachSpec

(***************************************************************************)
(* The offline screen: the theorems                                        *)
(***************************************************************************)

\* Type correctness of the monitor and the gate it drives.
THEOREM ReachTyped == ReachSpec => []ReachTypeOK
PROOF
  <1>1. ReachInv => ReachTypeOK
    BY DEF ReachInv
  <1> QED
    BY <1>1, ReachInvariance, PTL

\* What one step of the monitor does to the offline screen.
EvidenceStep ==
  /\ ~ShowsOffline /\ ShowsOffline' => missed' >= FailuresBeforeOffline
  /\ ShowsOffline /\ ~ShowsOffline' /\ mounted' => healthy /\ reach' = "online"

LEMMA StepEvidence ==
  ReachInv /\ [ReachNext]_reachVars => EvidenceStep
PROOF
  <1> SUFFICES ASSUME ReachInv, [ReachNext]_reachVars PROVE EvidenceStep
    OBVIOUS
  <1> USE DEF EvidenceStep, ShowsOffline
  <1>1. CASE PingAnswers
    <2>1. failures' <= missed' /\ failures' \in Nat /\ missed' \in Nat
      BY <1>1, PingInv DEF ReachInv, ReachTypeOK, CountsOnlyMissed
    <2>2. /\ mounted /\ mounted'
          /\ stuckOffline' = (reach' = "offline" \/ (stuckOffline /\ reach' # "online"))
      BY <1>1 DEF PingAnswers, ShowStatus
    <2>3. CASE healthy
      BY <1>1, <2>3 DEF PingAnswers, ShowStatus
    <2>4. CASE ~healthy /\ failures' >= FailuresBeforeOffline
      <3>1. reach' = "offline"
        BY <1>1, <2>4 DEF PingAnswers, ShowStatus
      <3> QED
        BY <2>1, <2>2, <2>4, <3>1, OneFailureAtLeast
    <2>5. CASE ~healthy /\ ~(failures' >= FailuresBeforeOffline)
      <3>1. reach' = reach
        BY <1>1, <2>5 DEF PingAnswers, ShowStatus
      <3> QED
        BY <2>2, <3>1
    <2> QED
      BY <2>3, <2>4, <2>5
  <1>2. CASE PollFires
    BY <1>2 DEF PollFires
  <1>3. CASE OnAppStateActive
    BY <1>3 DEF OnAppStateActive
  <1>4. CASE RetryProbe
    BY <1>4 DEF RetryProbe, ShowStatus, ReachInv, OfflineIsStuck
  <1>5. CASE DisposeGate
    BY <1>5 DEF DisposeGate
  <1>6. CASE MountGate
    BY <1>6 DEF MountGate
  <1>7. CASE NetworkChanges
    BY <1>7 DEF NetworkChanges
  <1>8. CASE UNCHANGED reachVars
    BY <1>8 DEF reachVars
  <1> QED
    BY <1>1, <1>2, <1>3, <1>4, <1>5, <1>6, <1>7, <1>8 DEF ReachNext

\* The offline screen comes up on as many misses in a row as the code asks for, and
\* only a success takes it away, whatever that number is.
THEOREM OfflineNeedsEvidence == ReachSpec => OfflineOnEvidence
PROOF
  <1>1. ReachInv /\ [ReachNext]_reachVars => EvidenceStep
    BY StepEvidence
  <1> QED
    BY <1>1, ReachInvariance, PTL DEF ReachSpec, OfflineOnEvidence, EvidenceStep

(***************************************************************************)
(* The story player: the inductive invariant                               *)
(***************************************************************************)

\* A panel not opened yet plays nothing, and no timer will make it.
UnseenIsSilent == open \notin unseen /\ \A p \in unseen : ~playing[p] /\ restart[p] = 0

\* Behind a pause button there is a loop, not cancelled, that will take it back.
PauseHasALoop ==
  \A p \in Panels : open = p /\ playing[p] => Running(p) # {} /\ ~cancelRef[p]

StoryInv == StoryTypeOK /\ UnseenIsSilent /\ PauseHasALoop

Reading == [panel : Panels, at : Units, clip : {"loading", "sounding", "over"}]

LEMMA StoryNumbers == LastUnit \in Nat /\ MaxRestarts \in Nat \ {0} /\ 0 \in Units
BY StoryBounds DEF Units

\* A loop that runs is none of the loops that do not.
LEMMA ReadingIsALoop == \A r \in Reading : r # NoLoop
BY NothingRuns DEF Reading, Units

\* What stopping the sound leaves of the loops: each runs on, on its panel.
LEMMA StoppedRuns ==
  ASSUME StoryTypeOK
  PROVE  /\ Stopped \in [Loops -> Reading \cup {NoLoop}]
         /\ \A l \in Loops : /\ Stopped[l] # NoLoop <=> loop[l] # NoLoop
                             /\ loop[l] # NoLoop => /\ Stopped[l].panel = loop[l].panel
                                                     /\ Stopped[l].at = loop[l].at
<1>1. loop \in [Loops -> Reading \cup {NoLoop}]
  BY DEF StoryTypeOK, Reading
<1>2. ASSUME NEW l \in Loops, loop[l] # NoLoop
      PROVE  /\ [loop[l] EXCEPT !.clip = "over"] \in Reading
             /\ [loop[l] EXCEPT !.clip = "over"].panel = loop[l].panel
             /\ [loop[l] EXCEPT !.clip = "over"].at = loop[l].at
  BY <1>1, <1>2 DEF Reading
<1> QED
  BY <1>1, <1>2, ReadingIsALoop DEF Stopped

\* A loop speaks: it runs, on its panel, and no other loop is touched.
LEMMA SpeakRuns ==
  ASSUME StoryTypeOK, NEW l \in Loops, NEW p \in Panels, NEW i \in Units, Speak(l, p, i)
  PROVE  /\ loop' \in [Loops -> Reading \cup {NoLoop}]
         /\ loop'[l] # NoLoop /\ loop'[l].panel = p /\ loop'[l].at = i
         /\ \A m \in Loops : m # l => loop'[m] = Stopped[m]
<1> DEFINE r == [panel |-> p, at |-> i, clip |-> "loading"]
<1>1. r \in Reading /\ r.panel = p /\ r.at = i
  BY DEF Reading
<1>2. loop' = [Stopped EXCEPT ![l] = r]
  BY DEF Speak
<1>3. Stopped \in [Loops -> Reading \cup {NoLoop}]
  BY StoppedRuns
<1> HIDE DEF r
<1> QED
  BY <1>1, <1>2, <1>3, ReadingIsALoop

\* Pausing, seeking and leaving keep the loops that run.
LEMMA CancelRuns ==
  ASSUME StoryTypeOK, NEW p \in Panels, Cancel(p)
  PROVE  /\ loop' \in [Loops -> Reading \cup {NoLoop}]
         /\ cancelRef' \in [Panels -> BOOLEAN]
         /\ \A q \in Panels : q # p => cancelRef'[q] = cancelRef[q]
         /\ \A q \in Panels : Running(q) # {} => Running(q)' # {}
         /\ told' \subseteq Loops
<1>1. /\ loop' = Stopped /\ cancelRef' = [cancelRef EXCEPT ![p] = TRUE]
      /\ told' = told \cup Running(p)
  BY DEF Cancel, TellLoops
<1>2. cancelRef \in [Panels -> BOOLEAN] /\ told \subseteq Loops
  BY DEF StoryTypeOK
<1> QED
  BY <1>1, <1>2, StoppedRuns DEF Running

\* Starting to play: what it leaves, and a loop behind the button.
LEMMA PlayRuns ==
  ASSUME StoryTypeOK, NEW p \in Panels, NEW rendered \in BOOLEAN, Play(p, rendered)
  PROVE  /\ playing' \in [Panels -> BOOLEAN] /\ playingRef' \in [Panels -> BOOLEAN]
         /\ cancelRef' \in [Panels -> BOOLEAN]
         /\ loop' \in [Loops -> Reading \cup {NoLoop}]
         /\ \A q \in Panels : q # p => playing'[q] = playing[q] /\ cancelRef'[q] = cancelRef[q]
         /\ \A q \in Panels : Running(q) # {} => Running(q)' # {}
         /\ \/ UNCHANGED << playing, cancelRef, loop >>
            \/ ~cancelRef'[p] /\ Running(p)' # {}
         /\ strayed' \subseteq Panels
<1>a. strayed' \subseteq Panels
  BY DEF Play, StoryTypeOK
<1>0. /\ playing \in [Panels -> BOOLEAN] /\ playingRef \in [Panels -> BOOLEAN]
      /\ cancelRef \in [Panels -> BOOLEAN] /\ indexRef \in [Panels -> Units]
      /\ loop \in [Loops -> Reading \cup {NoLoop}]
  BY DEF StoryTypeOK, Reading
<1>1. CASE UNCHANGED << playing, playingRef, cancelRef, loop, strayed >>
  BY <1>0, <1>1, <1>a DEF Running
<1>2. ASSUME NEW l \in Loops, loop[l] = NoLoop, Speak(l, p, indexRef[p]),
             playingRef' = [playingRef EXCEPT ![p] = TRUE],
             cancelRef' = [cancelRef EXCEPT ![p] = FALSE],
             playing' = [playing EXCEPT ![p] = TRUE]
      PROVE  /\ playing' \in [Panels -> BOOLEAN] /\ playingRef' \in [Panels -> BOOLEAN]
             /\ cancelRef' \in [Panels -> BOOLEAN]
             /\ loop' \in [Loops -> Reading \cup {NoLoop}]
             /\ \A q \in Panels : /\ q # p => playing'[q] = playing[q]
                                  /\ q # p => cancelRef'[q] = cancelRef[q]
             /\ \A q \in Panels : Running(q) # {} => Running(q)' # {}
             /\ ~cancelRef'[p] /\ Running(p)' # {}
  <2>1. /\ loop' \in [Loops -> Reading \cup {NoLoop}]
        /\ loop'[l] # NoLoop /\ loop'[l].panel = p
        /\ \A m \in Loops : m # l => loop'[m] = Stopped[m]
    BY <1>0, <1>2, SpeakRuns
  <2>2. \A m \in Loops : /\ Stopped[m] # NoLoop <=> loop[m] # NoLoop
                         /\ loop[m] # NoLoop => Stopped[m].panel = loop[m].panel
    BY StoppedRuns
  <2>3. Running(p)' # {}
    BY <2>1 DEF Running
  <2>4. ASSUME NEW q \in Panels, Running(q) # {} PROVE Running(q)' # {}
    <3>1. PICK m \in Loops : loop[m] # NoLoop /\ loop[m].panel = q
      BY <2>4 DEF Running
    <3>2. m # l
      BY <3>1, <1>2
    <3>3. loop'[m] # NoLoop /\ loop'[m].panel = q
      BY <3>1, <3>2, <2>1, <2>2
    <3> QED
      BY <3>3 DEF Running
  <2> QED
    BY <1>0, <1>2, <2>1, <2>3, <2>4
<1>3. CASE MayPlay(p, rendered)
  <2>1. PICK l \in Loops : /\ loop[l] = NoLoop /\ Speak(l, p, indexRef[p])
                           /\ playingRef' = [playingRef EXCEPT ![p] = TRUE]
                           /\ cancelRef' = [cancelRef EXCEPT ![p] = FALSE]
                           /\ playing' = [playing EXCEPT ![p] = TRUE]
    BY <1>3 DEF Play
  <2> QED
    BY <2>1, <1>2, <1>a
<1> QED
  BY <1>1, <1>3 DEF Play

LEMMA StoryBegins == StoryInit => StoryInv
<1> SUFFICES ASSUME StoryInit PROVE StoryInv
  OBVIOUS
<1>1. StoryTypeOK
  BY StoryNumbers DEF StoryInit, StoryTypeOK
<1>2. UnseenIsSilent /\ PauseHasALoop
  BY NothingRuns DEF StoryInit, UnseenIsSilent, PauseHasALoop
<1> QED
  BY <1>1, <1>2 DEF StoryInv

LEMMA OpenPanelInv ==
  ASSUME StoryInv, NEW p \in Panels, OpenPanel(p)
  PROVE  StoryInv'
<1>1. StoryTypeOK /\ UnseenIsSilent /\ PauseHasALoop
  BY DEF StoryInv
<1>2. /\ p \in unseen /\ unseen' = unseen \ {p} /\ open' = p
      /\ UNCHANGED << playing, playingRef, restart, strayed >>
  BY DEF OpenPanel
<1>3. indexRef' \in [Panels -> Units]
  BY <1>1 DEF OpenPanel, StoryTypeOK
<1>4. /\ cancelRef' \in [Panels -> BOOLEAN] /\ loop' \in [Loops -> Reading \cup {NoLoop}]
      /\ told' \subseteq Loops
  <2>1. CASE open = NoPanel
    BY <2>1, <1>1 DEF OpenPanel, StoryTypeOK, Reading
  <2>2. CASE open # NoPanel
    <3>1. open \in Panels /\ Cancel(open)
      BY <2>2, <1>1 DEF OpenPanel, StoryTypeOK
    <3> QED
      BY <3>1, <1>1, CancelRuns
  <2> QED
    BY <2>1, <2>2
<1>5. StoryTypeOK'
  BY <1>1, <1>2, <1>3, <1>4 DEF StoryTypeOK, Reading
<1>6. UnseenIsSilent' /\ PauseHasALoop'
  BY <1>1, <1>2 DEF UnseenIsSilent, PauseHasALoop
<1> QED
  BY <1>5, <1>6 DEF StoryInv

LEMMA LeaveScreenInv ==
  ASSUME StoryInv, NEW p \in Panels, LeaveScreenOf(p)
  PROVE  StoryInv'
<1>1. StoryTypeOK /\ UnseenIsSilent /\ PauseHasALoop
  BY DEF StoryInv
<1>2. /\ open' = NoPanel /\ Cancel(p)
      /\ UNCHANGED << unseen, indexRef, playing, playingRef, restart, strayed >>
  BY DEF LeaveScreenOf
<1>3. /\ cancelRef' \in [Panels -> BOOLEAN] /\ loop' \in [Loops -> Reading \cup {NoLoop}]
      /\ told' \subseteq Loops
  BY <1>1, <1>2, CancelRuns
<1>4. StoryTypeOK'
  BY <1>1, <1>2, <1>3 DEF StoryTypeOK, Reading
<1>5. UnseenIsSilent'
  BY <1>1, <1>2, NothingRuns DEF UnseenIsSilent, StoryTypeOK
<1>6. PauseHasALoop'
  BY <1>2, NothingRuns DEF PauseHasALoop
<1> QED
  BY <1>4, <1>5, <1>6 DEF StoryInv

LEMMA TogglePlayInv ==
  ASSUME StoryInv, NEW p \in Panels, TogglePlay(p)
  PROVE  StoryInv'
<1>1. StoryTypeOK /\ UnseenIsSilent /\ PauseHasALoop
  BY DEF StoryInv
<1>2. open = p /\ UNCHANGED << open, unseen, indexRef, restart >>
  BY DEF TogglePlay
<1>3. p \notin unseen
  BY <1>1, <1>2 DEF UnseenIsSilent
<1>4. CASE playing[p]
  <2>1. /\ Cancel(p) /\ playing' = [playing EXCEPT ![p] = FALSE]
        /\ playingRef' = [playingRef EXCEPT ![p] = FALSE] /\ UNCHANGED strayed
    BY <1>4 DEF TogglePlay
  <2>2. /\ cancelRef' \in [Panels -> BOOLEAN] /\ loop' \in [Loops -> Reading \cup {NoLoop}]
        /\ told' \subseteq Loops
    BY <1>1, <2>1, CancelRuns
  <2>3. StoryTypeOK'
    BY <1>1, <1>2, <2>1, <2>2 DEF StoryTypeOK, Reading
  <2>4. UnseenIsSilent'
    BY <1>1, <1>2, <1>3, <2>1 DEF UnseenIsSilent, StoryTypeOK
  <2>5. PauseHasALoop'
    BY <1>1, <1>2, <2>1 DEF PauseHasALoop, StoryTypeOK
  <2> QED
    BY <2>3, <2>4, <2>5 DEF StoryInv
<1>5. CASE ~playing[p]
  <2>1. Play(p, FALSE) /\ UNCHANGED told
    BY <1>5 DEF TogglePlay
  <2>2. /\ playing' \in [Panels -> BOOLEAN] /\ playingRef' \in [Panels -> BOOLEAN]
        /\ cancelRef' \in [Panels -> BOOLEAN]
        /\ loop' \in [Loops -> Reading \cup {NoLoop}]
        /\ \A q \in Panels : q # p => playing'[q] = playing[q] /\ cancelRef'[q] = cancelRef[q]
        /\ \/ UNCHANGED << playing, cancelRef, loop >>
           \/ ~cancelRef'[p] /\ Running(p)' # {}
        /\ strayed' \subseteq Panels
    BY <1>1, <2>1, PlayRuns
  <2>3. StoryTypeOK'
    BY <1>1, <1>2, <2>1, <2>2 DEF StoryTypeOK, Reading
  <2>4. UnseenIsSilent'
    BY <1>1, <1>2, <1>3, <2>2 DEF UnseenIsSilent, StoryTypeOK
  <2>5. PauseHasALoop'
    BY <1>1, <1>2, <1>5, <2>2 DEF PauseHasALoop
  <2> QED
    BY <2>3, <2>4, <2>5 DEF StoryInv
<1> QED
  BY <1>4, <1>5

LEMMA SeekToInv ==
  ASSUME StoryInv, NEW p \in Panels, NEW i \in Units, SeekTo(p, i)
  PROVE  StoryInv'
<1>1. StoryTypeOK /\ UnseenIsSilent /\ PauseHasALoop
  BY DEF StoryInv
<1>2. /\ open = p /\ UNCHANGED << open, unseen, strayed >> /\ Cancel(p)
      /\ playing' = [playing EXCEPT ![p] = FALSE]
      /\ playingRef' = [playingRef EXCEPT ![p] = FALSE]
      /\ indexRef' = [indexRef EXCEPT ![p] = i]
  BY DEF SeekTo
<1>3. /\ cancelRef' \in [Panels -> BOOLEAN] /\ loop' \in [Loops -> Reading \cup {NoLoop}]
      /\ told' \subseteq Loops
  BY <1>1, <1>2, CancelRuns
<1>4. /\ restart' \in [Panels -> 0 .. MaxRestarts]
      /\ \A q \in Panels : q # p => restart'[q] = restart[q]
  <2>1. CASE playing[p]
    <3>1. restart[p] + 1 \in 0 .. MaxRestarts
      BY <2>1, <1>1, StoryNumbers DEF SeekTo, StoryTypeOK
    <3> QED
      BY <2>1, <3>1, <1>1 DEF SeekTo, StoryTypeOK
  <2>2. CASE ~playing[p]
    BY <2>2, <1>1 DEF SeekTo, StoryTypeOK
  <2> QED
    BY <2>1, <2>2
<1>5. StoryTypeOK'
  BY <1>1, <1>2, <1>3, <1>4 DEF StoryTypeOK, Reading
<1>6. UnseenIsSilent'
  BY <1>1, <1>2, <1>4 DEF UnseenIsSilent, StoryTypeOK
<1>7. PauseHasALoop'
  BY <1>1, <1>2 DEF PauseHasALoop, StoryTypeOK
<1> QED
  BY <1>5, <1>6, <1>7 DEF StoryInv

LEMMA RestartInv ==
  ASSUME StoryInv, NEW p \in Panels, RestartFires(p)
  PROVE  StoryInv'
<1>1. StoryTypeOK /\ UnseenIsSilent /\ PauseHasALoop
  BY DEF StoryInv
<1>2. /\ restart[p] > 0 /\ restart' = [restart EXCEPT ![p] = restart[p] - 1]
      /\ Play(p, TRUE) /\ UNCHANGED << open, unseen, indexRef, told >>
  BY DEF RestartFires
<1>3. p \notin unseen
  BY <1>1, <1>2 DEF UnseenIsSilent
<1>4. restart[p] - 1 \in 0 .. MaxRestarts
  BY <1>1, <1>2, StoryNumbers DEF StoryTypeOK
<1>5. restart' \in [Panels -> 0 .. MaxRestarts] /\ \A q \in Panels : q # p => restart'[q] = restart[q]
  BY <1>1, <1>2, <1>4 DEF StoryTypeOK
<1>6. /\ playing' \in [Panels -> BOOLEAN] /\ playingRef' \in [Panels -> BOOLEAN]
      /\ cancelRef' \in [Panels -> BOOLEAN]
      /\ loop' \in [Loops -> Reading \cup {NoLoop}]
      /\ \A q \in Panels : q # p => playing'[q] = playing[q] /\ cancelRef'[q] = cancelRef[q]
      /\ \A q \in Panels : Running(q) # {} => Running(q)' # {}
      /\ \/ UNCHANGED << playing, cancelRef, loop >>
         \/ ~cancelRef'[p] /\ Running(p)' # {}
      /\ strayed' \subseteq Panels
  BY <1>1, <1>2, PlayRuns
<1>7. StoryTypeOK'
  BY <1>1, <1>2, <1>5, <1>6 DEF StoryTypeOK, Reading
<1>8. UnseenIsSilent'
  BY <1>1, <1>2, <1>3, <1>5, <1>6 DEF UnseenIsSilent, StoryTypeOK
<1>9. PauseHasALoop'
  <2> SUFFICES ASSUME NEW q \in Panels, open = q, playing'[q]
               PROVE  Running(q)' # {} /\ ~cancelRef'[q]
    BY <1>2 DEF PauseHasALoop
  <2>1. CASE q # p
    BY <2>1, <1>1, <1>6 DEF PauseHasALoop
  <2>2. CASE q = p
    BY <2>2, <1>1, <1>6 DEF PauseHasALoop
  <2> QED
    BY <2>1, <2>2
<1> QED
  BY <1>7, <1>8, <1>9 DEF StoryInv

LEMMA ClipInv ==
  ASSUME StoryInv, NEW l \in Loops, ClipArrives(l) \/ ClipEnds(l)
  PROVE  StoryInv'
<1>1. StoryTypeOK /\ UnseenIsSilent /\ PauseHasALoop
  BY DEF StoryInv
<1>2. UNCHANGED << open, unseen, indexRef, playing, playingRef, cancelRef, restart, told, strayed >>
  BY DEF ClipArrives, ClipEnds
<1>3. PICK clip \in {"sounding", "over"} : loop' = [loop EXCEPT ![l].clip = clip]
  BY DEF ClipArrives, ClipEnds
<1>4. loop \in [Loops -> Reading \cup {NoLoop}] /\ loop[l] # NoLoop
  BY <1>1 DEF StoryTypeOK, Reading, ClipArrives, ClipEnds
<1> DEFINE r == [loop[l] EXCEPT !.clip = clip]
<1>5. r \in Reading /\ r.panel = loop[l].panel
  BY <1>4 DEF Reading
<1>6. loop' = [loop EXCEPT ![l] = r]
  BY <1>3
<1> HIDE DEF r
<1>7. loop' \in [Loops -> Reading \cup {NoLoop}]
  BY <1>4, <1>5, <1>6
<1>8. \A m \in Loops : loop[m] # NoLoop => loop'[m] # NoLoop /\ loop'[m].panel = loop[m].panel
  BY <1>4, <1>5, <1>6, ReadingIsALoop
<1>9. StoryTypeOK'
  BY <1>1, <1>2, <1>7 DEF StoryTypeOK, Reading
<1>10. UnseenIsSilent' /\ PauseHasALoop'
  BY <1>1, <1>2, <1>8 DEF UnseenIsSilent, PauseHasALoop, Running
<1> QED
  BY <1>9, <1>10 DEF StoryInv

LEMMA LoopInv ==
  ASSUME StoryInv, NEW l \in Loops, LoopGoesOn(l)
  PROVE  StoryInv'
<1> DEFINE p == loop[l].panel
           i == loop[l].at
<1>1. StoryTypeOK /\ UnseenIsSilent /\ PauseHasALoop
  BY DEF StoryInv
<1>2. loop[l] # NoLoop /\ UNCHANGED << open, unseen, cancelRef, restart >>
  BY DEF LoopGoesOn
<1>3. loop \in [Loops -> Reading \cup {NoLoop}]
  BY <1>1 DEF StoryTypeOK, Reading
<1>4. p \in Panels /\ i \in Units
  BY <1>2, <1>3 DEF Reading
<1>5. CASE i < LastUnit /\ ~cancelRef[p]
  <2>1. /\ indexRef' = [indexRef EXCEPT ![p] = i + 1] /\ Speak(l, p, i + 1)
        /\ UNCHANGED << playing, playingRef, told, strayed >>
    BY <1>5 DEF LoopGoesOn
  <2>2. i + 1 \in Units
    BY <1>4, <1>5, StoryNumbers DEF Units
  <2> HIDE DEF p, i
  <2>3. /\ loop' \in [Loops -> Reading \cup {NoLoop}]
        /\ loop'[l] # NoLoop /\ loop'[l].panel = p
        /\ \A m \in Loops : m # l => loop'[m] = Stopped[m]
    BY <1>1, <1>4, <2>1, <2>2, SpeakRuns
  <2>4. StoryTypeOK'
    BY <1>1, <1>2, <1>4, <2>1, <2>2, <2>3 DEF StoryTypeOK, Reading
  <2>5. \A m \in Loops : /\ Stopped[m] # NoLoop <=> loop[m] # NoLoop
                         /\ loop[m] # NoLoop => Stopped[m].panel = loop[m].panel
    BY <1>1, StoppedRuns
  <2>6. \A m \in Loops : loop[m] # NoLoop => loop'[m] # NoLoop /\ loop'[m].panel = loop[m].panel
    BY <2>3, <2>5 DEF p
  <2>7. UnseenIsSilent' /\ PauseHasALoop'
    BY <1>1, <1>2, <2>1, <2>6 DEF UnseenIsSilent, PauseHasALoop, Running
  <2> QED
    BY <2>4, <2>7 DEF StoryInv
<1>6. CASE ~(i < LastUnit /\ ~cancelRef[p])
  <2>1. /\ loop' = [loop EXCEPT ![l] = NoLoop]
        /\ playingRef' = [playingRef EXCEPT ![p] = FALSE]
        /\ playing' = IF cancelRef[p] THEN playing ELSE [playing EXCEPT ![p] = FALSE]
        /\ UNCHANGED indexRef
        /\ told' = told \ {l}
        /\ strayed' = IF Running(p) = {l} THEN strayed \ {p} ELSE strayed
    BY <1>6 DEF LoopGoesOn
  <2> HIDE DEF i
  <2>2. StoryTypeOK'
    BY <1>1, <1>2, <1>3, <1>4, <2>1 DEF StoryTypeOK, Reading
  <2>3. UnseenIsSilent'
    BY <1>1, <1>2, <1>4, <2>1 DEF UnseenIsSilent, StoryTypeOK
  <2>4. PauseHasALoop'
    <3> SUFFICES ASSUME NEW q \in Panels, open = q, playing'[q]
                 PROVE  Running(q)' # {} /\ ~cancelRef'[q]
      BY <1>2 DEF PauseHasALoop
    <3>1. playing[q]
      BY <1>1, <1>4, <2>1 DEF StoryTypeOK
    <3>2. Running(q) # {} /\ ~cancelRef[q]
      BY <3>1, <1>1 DEF PauseHasALoop
    <3>3. q # p
      BY <3>2, <1>1, <1>4, <2>1 DEF StoryTypeOK
    <3>4. PICK m \in Loops : loop[m] # NoLoop /\ loop[m].panel = q
      BY <3>2 DEF Running
    <3>5. m # l
      BY <3>3, <3>4
    <3>6. loop'[m] = loop[m]
      BY <3>5, <2>1, <1>3
    <3> QED
      BY <3>2, <3>4, <3>6, <1>2 DEF Running
  <2> QED
    BY <2>2, <2>3, <2>4 DEF StoryInv
<1> QED
  BY <1>5, <1>6

LEMMA StoryStep == StoryInv /\ [StoryNext]_storyVars => StoryInv'
<1> SUFFICES ASSUME StoryInv, [StoryNext]_storyVars PROVE StoryInv'
  OBVIOUS
<1>1. CASE \E p \in Panels : OpenPanel(p)
  BY <1>1, OpenPanelInv
<1>2. CASE \E p \in Panels : LeaveScreenOf(p)
  BY <1>2, LeaveScreenInv
<1>3. CASE \E p \in Panels : TogglePlay(p)
  BY <1>3, TogglePlayInv
<1>4. CASE \E p \in Panels, i \in Units : SeekTo(p, i)
  BY <1>4, SeekToInv
<1>5. CASE \E p \in Panels : RestartFires(p)
  BY <1>5, RestartInv
<1>6. CASE \E l \in Loops : ClipArrives(l) \/ ClipEnds(l)
  BY <1>6, ClipInv
<1>7. CASE \E l \in Loops : LoopGoesOn(l)
  BY <1>7, LoopInv
<1>8. CASE UNCHANGED storyVars
  BY <1>8 DEF storyVars, StoryInv, StoryTypeOK, UnseenIsSilent, PauseHasALoop, Running
<1> QED
  BY <1>1, <1>2, <1>3, <1>4, <1>5, <1>6, <1>7, <1>8 DEF StoryNext

LEMMA StoryInvariance == StorySpec => []StoryInv
<1> QED
  BY StoryBegins, StoryStep, PTL DEF StorySpec

\* Every variable of the story player keeps its type, for any panels, loops and
\* sentences.
THEOREM StoryTyped == StorySpec => []StoryTypeOK
<1>1. StoryInv => StoryTypeOK
  BY DEF StoryInv
<1> QED
  BY <1>1, StoryInvariance, PTL

(***************************************************************************)
(* The story player: one loop speaks                                       *)
(***************************************************************************)

On(l, p) == loop[l] # NoLoop /\ loop[l].panel = p

\* Only loops that run have been told to stop.
ToldRun == \A l \in told : l \in Loops /\ loop[l] # NoLoop

\* A panel not opened yet has had no loop at all.
UnseenIsEmpty ==
  \A p \in unseen : ~playingRef[p] /\ p \notin strayed /\ \A l \in Loops : ~On(l, p)

\* Not strayed, a panel has at most one loop not told to stop: it speaks from the
\* sentence shown, the button and both references agree with it.
Spoken(p) ==
  /\ playingRef[p] = playing[p]
  /\ playing[p] => \E l \in Loops : On(l, p) /\ l \notin told
  /\ \A l \in Loops : On(l, p) /\ l \notin told => playing[p] /\ loop[l].at = indexRef[p]
  /\ \A l, k \in Loops : On(l, p) /\ On(k, p) /\ l \notin told /\ k \notin told => l = k
  /\ \A l \in Loops : On(l, p) /\ l \in told => cancelRef[p]

Speaks ==
  ToldRun /\ UnseenIsEmpty /\ \A p \in Panels : open = p /\ p \notin strayed => Spoken(p)

\* The same loops on p, each at its sentence and told or not as before.
SameOn(p) ==
  \A l \in Loops : /\ On(l, p)' <=> On(l, p)
                   /\ On(l, p) => /\ loop'[l].at = loop[l].at
                                  /\ l \in told' <=> l \in told

LEMMA SpokenStays ==
  ASSUME NEW p \in Panels, SameOn(p), Spoken(p), playing'[p] = playing[p],
         playingRef'[p] = playingRef[p], cancelRef'[p] = cancelRef[p],
         indexRef'[p] = indexRef[p]
  PROVE  Spoken(p)'
BY DEF SameOn, Spoken

\* A panel without loops, its button and reference at rest, is spoken.
LEMMA SilentIsSpoken ==
  ASSUME NEW p \in Panels, ~playing[p]', ~playingRef[p]', StoryTypeOK',
         \A l \in Loops : On(l, p)' => l \in told' /\ cancelRef[p]'
  PROVE  Spoken(p)'
BY DEF Spoken, StoryTypeOK

\* Stopping the sound changes nothing of this; what Cancel does to the loops.
LEMMA CancelTells ==
  ASSUME StoryTypeOK, NEW p \in Panels, Cancel(p)
  PROVE  /\ \A l \in Loops : On(l, p)' => l \in told' /\ cancelRef[p]'
         /\ \A q \in Panels : q # p => SameOn(q)
         /\ \A q \in Panels, l \in Loops : On(l, q)' => On(l, q)
         /\ ToldRun => ToldRun'
<1>1. /\ loop' = Stopped /\ cancelRef' = [cancelRef EXCEPT ![p] = TRUE]
      /\ told' = told \cup Running(p)
  BY DEF Cancel, TellLoops
<1>2. cancelRef'[p]
  BY <1>1 DEF StoryTypeOK
<1>3. \A l \in Loops : /\ loop'[l] # NoLoop <=> loop[l] # NoLoop
                       /\ loop[l] # NoLoop => /\ loop'[l].panel = loop[l].panel
                                              /\ loop'[l].at = loop[l].at
  BY <1>1, StoppedRuns
<1>4. \A q \in Panels, l \in Loops : On(l, q)' <=> On(l, q)
  BY <1>3 DEF On
<1>5. \A l \in Loops : l \in told' <=> l \in told \/ On(l, p)
  BY <1>1 DEF Running, On
<1>6. \A q \in Panels : q # p => SameOn(q)
  BY <1>3, <1>4, <1>5 DEF SameOn, On
<1>7. ASSUME ToldRun PROVE ToldRun'
  <2> SUFFICES ASSUME NEW l \in told' PROVE l \in Loops /\ loop'[l] # NoLoop
    BY DEF ToldRun
  <2>1. l \in told \/ l \in Running(p)
    BY <1>1
  <2>2. l \in Loops /\ loop[l] # NoLoop
    BY <2>1, <1>7 DEF ToldRun, Running
  <2> QED
    BY <2>2, <1>3
<1> QED
  BY <1>2, <1>4, <1>5, <1>6, <1>7

\* Playing again: on the other panels nothing changes; on its own either nothing
\* does, or a loop told to stop had not looked, or the one new loop speaks.
LEMMA PlaySpeaks ==
  ASSUME StoryInv, StoryTypeOK', ToldRun, NEW p \in Panels, NEW rendered \in BOOLEAN,
         Play(p, rendered), UNCHANGED << indexRef, told >>
  PROVE  /\ \A q \in Panels : q # p => /\ SameOn(q) /\ playing'[q] = playing[q]
                                       /\ playingRef'[q] = playingRef[q]
                                       /\ cancelRef'[q] = cancelRef[q]
                                       /\ q \in strayed' <=> q \in strayed
         /\ ToldRun'
         /\ p \notin strayed' => p \notin strayed /\ (Spoken(p) => Spoken(p)')
<1>0. /\ StoryTypeOK /\ playing \in [Panels -> BOOLEAN] /\ playingRef \in [Panels -> BOOLEAN]
      /\ cancelRef \in [Panels -> BOOLEAN] /\ indexRef \in [Panels -> Units]
      /\ loop \in [Loops -> Reading \cup {NoLoop}]
  BY DEF StoryInv, StoryTypeOK, Reading
<1>1. CASE UNCHANGED << playing, playingRef, cancelRef, loop, strayed >>
  <2>1. \A q \in Panels : SameOn(q)
    BY <1>1 DEF SameOn, On
  <2>2. Spoken(p) => Spoken(p)'
    BY <1>1, <2>1, SpokenStays
  <2> QED
    BY <1>1, <2>1, <2>2 DEF ToldRun
<1>2. CASE MayPlay(p, rendered)
  <2>1. PICK l \in Loops : /\ loop[l] = NoLoop /\ Speak(l, p, indexRef[p])
                           /\ playingRef' = [playingRef EXCEPT ![p] = TRUE]
                           /\ cancelRef' = [cancelRef EXCEPT ![p] = FALSE]
                           /\ playing' = [playing EXCEPT ![p] = TRUE]
                           /\ strayed' = IF told \cap Running(p) = {} THEN strayed
                                         ELSE strayed \cup {p}
    BY <1>2 DEF Play
  <2>2. /\ loop'[l] # NoLoop /\ loop'[l].panel = p /\ loop'[l].at = indexRef[p]
        /\ \A m \in Loops : m # l => loop'[m] = Stopped[m]
    BY <1>0, <2>1, SpeakRuns
  <2>3. \A m \in Loops : /\ Stopped[m] # NoLoop <=> loop[m] # NoLoop
                         /\ loop[m] # NoLoop => /\ Stopped[m].panel = loop[m].panel
                                                /\ Stopped[m].at = loop[m].at
    BY <1>0, StoppedRuns
  <2>4. \A q \in Panels : q # p => SameOn(q)
    BY <2>1, <2>2, <2>3 DEF SameOn, On
  <2>5. \A m \in Loops : On(m, p)' <=> On(m, p) \/ m = l
    BY <2>1, <2>2, <2>3 DEF On
  <2>6. l \notin told
    BY <2>1 DEF ToldRun
  <2>7. ToldRun'
    BY <2>2, <2>3 DEF ToldRun
  <2>8. ASSUME p \notin strayed', Spoken(p) PROVE Spoken(p)'
    <3>1. told \cap Running(p) = {}
      BY <2>1, <2>8
    <3>2. ~playing[p]
      BY <1>2, <2>8 DEF MayPlay, Spoken
    <3>3. \A m \in Loops : ~On(m, p)
      BY <3>1, <3>2, <2>8 DEF Spoken, Running, On
    <3>4. \A m \in Loops : On(m, p)' <=> m = l
      BY <3>3, <2>5
    <3>5. playing'[p] = TRUE /\ playingRef'[p] = TRUE
      BY <1>0, <2>1
    <3> QED
      BY <3>4, <3>5, <2>2, <2>6 DEF Spoken
  <2> QED
    BY <1>0, <2>1, <2>4, <2>7, <2>8
<1> QED
  BY <1>1, <1>2 DEF Play

LEMMA SpeaksBegins == StoryInit => Speaks
BY DEF StoryInit, Speaks, ToldRun, UnseenIsEmpty, On, Spoken

LEMMA OpenPanelSpeaks ==
  ASSUME StoryInv, StoryInv', Speaks, NEW p \in Panels, OpenPanel(p)
  PROVE  Speaks'
<1>1. /\ p \in unseen /\ unseen' = unseen \ {p} /\ open' = p
      /\ UNCHANGED << playing, playingRef, restart, strayed >>
  BY DEF OpenPanel
<1>2. open \in Panels \cup {NoPanel} /\ open # p /\ unseen \subseteq Panels /\ ~playing[p]
  BY <1>1 DEF StoryInv, StoryTypeOK, UnseenIsSilent
<1>3. ToldRun' /\ \A q \in Panels, l \in Loops : On(l, q)' => On(l, q)
  <2>1. CASE open = NoPanel
    BY <2>1 DEF OpenPanel, On, Speaks, ToldRun
  <2>2. CASE open # NoPanel
    <3>1. open \in Panels /\ Cancel(open)
      BY <2>2, <1>2 DEF OpenPanel
    <3> QED
      BY <3>1, CancelTells DEF StoryInv, Speaks
  <2> QED
    BY <2>1, <2>2
<1>4. \A l \in Loops : ~On(l, p)'
  BY <1>1, <1>3 DEF Speaks, UnseenIsEmpty
<1>5. Spoken(p)'
  BY <1>1, <1>2, <1>4, SilentIsSpoken DEF Speaks, UnseenIsEmpty, StoryInv
<1>6. UnseenIsEmpty'
  BY <1>1, <1>2, <1>3 DEF Speaks, UnseenIsEmpty
<1> QED
  BY <1>1, <1>3, <1>5, <1>6 DEF Speaks

\* Leaving the screen, pausing and seeking, which all cancel.
LEMMA CancelSpeaks ==
  ASSUME StoryInv, StoryInv', Speaks, NEW p \in Panels, open = p, Cancel(p),
         UNCHANGED << unseen, strayed >>,
         \/ open' = NoPanel /\ UNCHANGED << playing, playingRef >>
         \/ /\ open' = p /\ playing' = [playing EXCEPT ![p] = FALSE]
            /\ playingRef' = [playingRef EXCEPT ![p] = FALSE]
  PROVE  Speaks'
<1>1. /\ \A l \in Loops : On(l, p)' => l \in told' /\ cancelRef[p]'
      /\ \A q \in Panels, l \in Loops : On(l, q)' => On(l, q)
      /\ ToldRun'
  BY CancelTells DEF StoryInv, Speaks
<1>2. unseen \subseteq Panels /\ p \notin unseen
  BY DEF StoryInv, StoryTypeOK, UnseenIsSilent
<1>3. UnseenIsEmpty'
  BY <1>1, <1>2 DEF Speaks, UnseenIsEmpty, StoryInv, StoryTypeOK
<1>4. CASE open' = NoPanel
  BY <1>1, <1>3, <1>4, NothingRuns DEF Speaks
<1>5. CASE /\ open' = p /\ playing' = [playing EXCEPT ![p] = FALSE]
           /\ playingRef' = [playingRef EXCEPT ![p] = FALSE]
  <2>1. ~playing'[p] /\ ~playingRef'[p]
    BY <1>5 DEF StoryInv, StoryTypeOK
  <2>2. Spoken(p)'
    BY <2>1, <1>1, SilentIsSpoken DEF StoryInv
  <2> QED
    BY <1>1, <1>3, <1>5, <2>2 DEF Speaks
<1> QED
  BY <1>4, <1>5

\* The button and the timer, which play.
LEMMA PlayAgainSpeaks ==
  ASSUME StoryInv, StoryInv', Speaks, NEW p \in Panels, p \notin unseen,
         NEW rendered \in BOOLEAN, Play(p, rendered),
         UNCHANGED << open, unseen, indexRef, told >>
  PROVE  Speaks'
<1>1. /\ \A q \in Panels : q # p => /\ SameOn(q) /\ playing'[q] = playing[q]
                                    /\ playingRef'[q] = playingRef[q]
                                    /\ cancelRef'[q] = cancelRef[q]
                                    /\ q \in strayed' <=> q \in strayed
      /\ ToldRun'
      /\ p \notin strayed' => p \notin strayed /\ (Spoken(p) => Spoken(p)')
  BY PlaySpeaks DEF StoryInv, Speaks
<1>2. UnseenIsEmpty'
  BY <1>1 DEF Speaks, UnseenIsEmpty, SameOn, StoryInv, StoryTypeOK
<1>3. ASSUME NEW q \in Panels, open = q, q \notin strayed' PROVE Spoken(q)'
  BY <1>1, <1>3, SpokenStays DEF Speaks
<1> QED
  BY <1>1, <1>2, <1>3 DEF Speaks

LEMMA ClipSpeaks ==
  ASSUME StoryInv, Speaks, NEW l \in Loops, ClipArrives(l) \/ ClipEnds(l)
  PROVE  Speaks'
<1>1. UNCHANGED << open, unseen, indexRef, playing, playingRef, cancelRef, restart, told, strayed >>
  BY DEF ClipArrives, ClipEnds
<1>2. PICK clip \in {"sounding", "over"} : loop' = [loop EXCEPT ![l].clip = clip]
  BY DEF ClipArrives, ClipEnds
<1>3. loop \in [Loops -> Reading \cup {NoLoop}] /\ loop[l] # NoLoop
  BY DEF StoryInv, StoryTypeOK, Reading, ClipArrives, ClipEnds
<1> DEFINE r == [loop[l] EXCEPT !.clip = clip]
<1>4. r \in Reading /\ r.panel = loop[l].panel /\ r.at = loop[l].at
  BY <1>3 DEF Reading
<1>5. loop' = [loop EXCEPT ![l] = r]
  BY <1>2
<1> HIDE DEF r
<1>6. \A m \in Loops : /\ loop'[m] # NoLoop <=> loop[m] # NoLoop
                       /\ loop'[m].panel = loop[m].panel /\ loop'[m].at = loop[m].at
  BY <1>3, <1>4, <1>5, ReadingIsALoop
<1>7. \A q \in Panels : SameOn(q)
  BY <1>1, <1>6 DEF SameOn, On
<1>8. ToldRun'
  BY <1>1, <1>6 DEF Speaks, ToldRun
<1>9. UnseenIsEmpty'
  BY <1>1, <1>7 DEF Speaks, UnseenIsEmpty, SameOn, StoryInv, StoryTypeOK
<1>10. \A q \in Panels : Spoken(q) => Spoken(q)'
  BY <1>1, <1>7, SpokenStays
<1> QED
  BY <1>1, <1>8, <1>9, <1>10 DEF Speaks

LEMMA LoopSpeaks ==
  ASSUME StoryInv, StoryInv', Speaks, NEW l \in Loops, LoopGoesOn(l)
  PROVE  Speaks'
<1>1. loop[l] # NoLoop /\ UNCHANGED << open, unseen, cancelRef, restart >>
  BY DEF LoopGoesOn
<1>2. loop \in [Loops -> Reading \cup {NoLoop}] /\ StoryTypeOK
  BY DEF StoryInv, StoryTypeOK, Reading
<1>3. PICK p \in Panels, i \in Units : p = loop[l].panel /\ i = loop[l].at
  BY <1>1, <1>2 DEF Reading
<1>4. On(l, p) /\ p \notin unseen
  BY <1>1, <1>3 DEF On, Speaks, UnseenIsEmpty
<1>5. CASE i < LastUnit /\ ~cancelRef[p]
  <2>1. /\ indexRef' = [indexRef EXCEPT ![p] = i + 1] /\ Speak(l, p, i + 1)
        /\ UNCHANGED << playing, playingRef, told, strayed >>
    BY <1>3, <1>5 DEF LoopGoesOn
  <2>2. i + 1 \in Units
    BY <1>3, <1>5, StoryNumbers DEF Units
  <2>3. /\ loop'[l] # NoLoop /\ loop'[l].panel = p /\ loop'[l].at = i + 1
        /\ \A m \in Loops : m # l => loop'[m] = Stopped[m]
    BY <1>2, <1>3, <2>1, <2>2, SpeakRuns
  <2>4. \A m \in Loops : /\ Stopped[m] # NoLoop <=> loop[m] # NoLoop
                         /\ loop[m] # NoLoop => /\ Stopped[m].panel = loop[m].panel
                                                /\ Stopped[m].at = loop[m].at
    BY <1>2, StoppedRuns
  <2>5. \A q \in Panels, m \in Loops : On(m, q)' <=> On(m, q)
    BY <2>3, <2>4, <1>1, <1>3 DEF On
  <2>6. \A q \in Panels : q # p => SameOn(q)
    BY <2>1, <2>3, <2>4, <2>5, <1>1, <1>3 DEF SameOn, On
  <2>7. ToldRun'
    BY <2>1, <2>3, <2>4 DEF Speaks, ToldRun
  <2>8. UnseenIsEmpty'
    BY <1>1, <2>1, <2>5 DEF Speaks, UnseenIsEmpty, StoryInv, StoryTypeOK
  <2>9. ASSUME NEW q \in Panels, open = q, q \notin strayed PROVE Spoken(q)'
    <3>1. Spoken(q)
      BY <2>9 DEF Speaks
    <3>2. CASE q # p
      BY <3>1, <3>2, <1>1, <1>2, <2>1, <2>6, SpokenStays DEF StoryTypeOK
    <3>3. CASE q = p
      <4>1. l \notin told /\ playing[p]
        BY <3>1, <3>3, <1>4, <1>5 DEF Spoken
      <4>2. \A m \in Loops : On(m, p)' /\ m \notin told' => m = l
        BY <3>1, <3>3, <4>1, <1>4, <2>1, <2>5, <1>3 DEF Spoken
      <4>3. indexRef'[p] = i + 1
        BY <1>2, <1>3, <2>1 DEF StoryTypeOK
      <4>4. \A m \in Loops : On(m, p)' => m \notin told'
        BY <3>1, <3>3, <1>5, <2>1, <2>5, <1>3 DEF Spoken
      <4> QED
        BY <3>1, <3>3, <4>1, <4>2, <4>3, <4>4, <1>4, <1>3, <2>1, <2>3, <2>5 DEF Spoken
    <3> QED
      BY <3>2, <3>3
  <2> QED
    BY <1>1, <2>1, <2>7, <2>8, <2>9 DEF Speaks
<1>6. CASE ~(i < LastUnit /\ ~cancelRef[p])
  <2>1. /\ loop' = [loop EXCEPT ![l] = NoLoop]
        /\ playingRef' = [playingRef EXCEPT ![p] = FALSE]
        /\ playing' = IF cancelRef[p] THEN playing ELSE [playing EXCEPT ![p] = FALSE]
        /\ UNCHANGED indexRef
        /\ told' = told \ {l}
        /\ strayed' = IF Running(p) = {l} THEN strayed \ {p} ELSE strayed
    BY <1>3, <1>6 DEF LoopGoesOn
  <2>2. loop'[l] = NoLoop /\ \A m \in Loops : m # l => loop'[m] = loop[m]
    BY <1>2, <2>1
  <2>3. \A q \in Panels, m \in Loops : On(m, q)' <=> On(m, q) /\ m # l
    BY <2>2 DEF On
  <2>4. \A q \in Panels : q # p => SameOn(q)
    BY <2>1, <2>2, <2>3, <1>3 DEF SameOn, On
  <2>5. ToldRun'
    BY <2>1, <2>2 DEF Speaks, ToldRun
  <2>6. UnseenIsEmpty'
    BY <1>1, <1>3, <1>4, <2>1, <2>3 DEF Speaks, UnseenIsEmpty, StoryInv, StoryTypeOK
  <2>7. ASSUME NEW q \in Panels, open = q, q \notin strayed' PROVE Spoken(q)'
    <3>1. CASE q # p
      <4>1. q \notin strayed /\ Spoken(q)
        BY <3>1, <2>1, <2>7 DEF Speaks
      <4>2. /\ playing'[q] = playing[q] /\ playingRef'[q] = playingRef[q]
            /\ cancelRef'[q] = cancelRef[q] /\ indexRef'[q] = indexRef[q]
        BY <3>1, <1>1, <1>2, <1>3, <2>1 DEF StoryTypeOK
      <4> QED
        BY <3>1, <4>1, <4>2, <2>4, SpokenStays
    <3>2. CASE q = p
      <4>1. ~playingRef'[p]
        BY <1>2, <1>3, <2>1 DEF StoryTypeOK
      <4>2. ~playing'[p]
        BY <3>2, <2>7, <1>2, <1>3, <2>1 DEF StoryInv, PauseHasALoop, StoryTypeOK
      <4>3. ASSUME NEW m \in Loops, On(m, p)' PROVE m \in told' /\ cancelRef'[p]
        <5>1. On(m, p) /\ m # l
          BY <4>3, <1>3, <2>3
        <5>2. p \notin strayed
          BY <5>1, <3>2, <2>1, <2>7 DEF Running, On
        <5>3. Spoken(p)
          BY <5>2, <3>2, <2>7, <1>3 DEF Speaks
        <5>4. cancelRef[p]
          <6>1. CASE l \in told
            BY <6>1, <5>3, <1>4 DEF Spoken
          <6>2. CASE l \notin told
            BY <6>2, <5>1, <5>3, <1>4, <3>2 DEF Spoken
          <6> QED
            BY <6>1, <6>2
        <5>5. ~playing[p]
          BY <5>4, <3>2, <2>7 DEF StoryInv, PauseHasALoop
        <5> QED
          BY <5>1, <5>3, <5>4, <5>5, <1>1, <2>1 DEF Spoken
      <4> QED
        BY <3>2, <4>1, <4>2, <4>3, SilentIsSpoken DEF StoryInv
    <3> QED
      BY <3>1, <3>2
  <2> QED
    BY <1>1, <2>5, <2>6, <2>7 DEF Speaks
<1> QED
  BY <1>5, <1>6

LEMMA SpeaksStep == StoryInv /\ StoryInv' /\ Speaks /\ [StoryNext]_storyVars => Speaks'
<1> SUFFICES ASSUME StoryInv, StoryInv', Speaks, [StoryNext]_storyVars PROVE Speaks'
  OBVIOUS
<1>1. CASE \E p \in Panels : OpenPanel(p)
  BY <1>1, OpenPanelSpeaks
<1>2. ASSUME NEW p \in Panels, LeaveScreenOf(p) PROVE Speaks'
  BY <1>2, CancelSpeaks DEF LeaveScreenOf
<1>3. ASSUME NEW p \in Panels, TogglePlay(p) PROVE Speaks'
  <2>1. p \notin unseen /\ open = p
    BY <1>3 DEF TogglePlay, StoryInv, UnseenIsSilent
  <2>2. CASE playing[p]
    BY <1>3, <2>1, <2>2, CancelSpeaks DEF TogglePlay
  <2>3. CASE ~playing[p]
    BY <1>3, <2>1, <2>3, PlayAgainSpeaks DEF TogglePlay
  <2> QED
    BY <2>2, <2>3
<1>4. ASSUME NEW p \in Panels, NEW i \in Units, SeekTo(p, i) PROVE Speaks'
  BY <1>4, CancelSpeaks DEF SeekTo
<1>5. ASSUME NEW p \in Panels, RestartFires(p) PROVE Speaks'
  <2>1. p \notin unseen
    BY <1>5 DEF RestartFires, StoryInv, StoryTypeOK, UnseenIsSilent
  <2> QED
    BY <1>5, <2>1, PlayAgainSpeaks DEF RestartFires
<1>6. CASE \E l \in Loops : ClipArrives(l) \/ ClipEnds(l)
  BY <1>6, ClipSpeaks
<1>7. CASE \E l \in Loops : LoopGoesOn(l)
  BY <1>7, LoopSpeaks
<1>8. CASE UNCHANGED storyVars
  BY <1>8 DEF storyVars, Speaks, ToldRun, UnseenIsEmpty, Spoken, On
<1> QED
  BY <1>1, <1>2, <1>3, <1>4, <1>5, <1>6, <1>7, <1>8 DEF StoryNext

\* The safety half of PlaybackGoesOn: on screen, and unless it was played again before a
\* loop told to stop had looked, exactly one loop speaks while the button offers to
\* pause, from the sentence shown, and none else; for any panels, loops and sentences.
THEOREM OneLoopAtATime == StorySpec => []OneLoopSpeaks
<1>1. ASSUME Speaks PROVE OneLoopSpeaks
  <2> SUFFICES ASSUME NEW p \in Panels, Spoken(p)
               PROVE  LET live == Running(p) \ told IN
                        /\ playing[p] <=> live # {}
                        /\ \A l \in live : loop[l].at = indexRef[p] /\ \A k \in live : k = l
                        /\ Running(p) \cap told # {} => cancelRef[p]
    BY <1>1 DEF Speaks, OneLoopSpeaks
  <2>1. \A l : l \in Running(p) <=> l \in Loops /\ On(l, p)
    BY DEF Running, On
  <2> QED
    BY <2>1 DEF Spoken
<1> QED
  BY <1>1, SpeaksBegins, SpeaksStep, StoryInvariance, PTL DEF StorySpec

(***************************************************************************)
(* The celebrations: the inductive invariant                               *)
(***************************************************************************)

AllDifferent(list) == \A i, j \in DOMAIN list : list[i] = list[j] => i = j

\* On screen or waiting, a code is there once, and the device has stored it.
ToastsOnce == AllDifferent(visible \o queue) /\ ToSet(visible \o queue) \subseteq seenCodes

\* A code waits only while the screen is full.
NoneWaitsForRoom == queue # << >> => Len(visible) = MaxVisibleToasts

ToastedIsSeen == \A c \in Codes : toasted[c] <= 1 /\ (toasted[c] = 0 \/ c \in seenCodes)

CelebrationInv == CelebrationTypeOK /\ ToastsOnce /\ NoneWaitsForRoom /\ ToastedIsSeen

(***************************************************************************)
(* Lists of toasts                                                         *)
(***************************************************************************)

LEMMA BoundsOfCelebrations ==
  MaxXp \in Nat /\ MaxVisibleToasts \in Nat \ {0} /\ XpPerLevel \in Nat \ {0}
BY CelebrationBounds

LEMMA LevelsGrow ==
  ASSUME NEW n \in 0 .. MaxXp
  PROVE  LevelFromXp(n) \in 1 .. LevelFromXp(MaxXp)
<1> DEFINE k == XpPerLevel
           low == n \div k
           high == MaxXp \div k
<1>1. n \in Nat /\ MaxXp \in Nat /\ k \in Nat \ {0} /\ n <= MaxXp
  BY BoundsOfCelebrations
<1> HIDE DEF k
<1>2. low \in Nat /\ high \in Nat
  BY <1>1
<1>3. k * low <= n /\ MaxXp < k * (high + 1)
  BY <1>1
<1> HIDE DEF low, high
<1>4. k * low < k * (high + 1)
  BY <1>1, <1>2, <1>3
<1>5. low <= high
  BY <1>1, <1>2, <1>4
<1> QED
  BY <1>2, <1>5 DEF LevelFromXp, low, high, k

\* What two lists hold, one after the other.
LEMMA OneAfterTheOther ==
  ASSUME NEW S, NEW s \in Seq(S), NEW t \in Seq(S)
  PROVE  /\ ToSet(s \o t) = ToSet(s) \cup ToSet(t)
         /\ AllDifferent(s \o t)
              <=> AllDifferent(s) /\ AllDifferent(t) /\ ToSet(s) \cap ToSet(t) = {}
<1> DEFINE m == Len(s)
           n == Len(t)
           st == s \o t
<1>1. /\ m \in Nat /\ DOMAIN s = 1 .. m
      /\ n \in Nat /\ DOMAIN t = 1 .. n
  BY LenProperties
<1>2. /\ st \in Seq(S) /\ Len(st) = m + n
      /\ \A i \in 1 .. m + n : st[i] = IF i <= m THEN s[i] ELSE t[i - m]
  BY ConcatProperties
<1>3. DOMAIN st = 1 .. m + n
  BY <1>2, LenProperties
<1> HIDE DEF m, n, st
<1>4. \A i \in 1 .. m : i \in 1 .. m + n /\ st[i] = s[i]
  BY <1>1, <1>2
<1>5. \A j \in 1 .. n : m + j \in 1 .. m + n /\ st[m + j] = t[j]
  BY <1>1, <1>2
<1>6. \A i \in 1 .. m + n : i \in 1 .. m \/ \E j \in 1 .. n : i = m + j
  <2> SUFFICES ASSUME NEW i \in 1 .. m + n, i \notin 1 .. m
               PROVE  \E j \in 1 .. n : i = m + j
    OBVIOUS
  <2>1. i - m \in 1 .. n /\ i = m + (i - m)
    BY <1>1
  <2> QED
    BY <2>1
<1>7. ToSet(st) = ToSet(s) \cup ToSet(t)
  <2>1. ASSUME NEW e \in ToSet(st) PROVE e \in ToSet(s) \cup ToSet(t)
    <3>1. PICK i \in 1 .. m + n : st[i] = e
      BY <1>3 DEF ToSet
    <3>2. CASE i \in 1 .. m
      BY <1>1, <1>4, <3>1, <3>2 DEF ToSet
    <3>3. CASE \E j \in 1 .. n : i = m + j
      BY <1>1, <1>5, <3>1, <3>3 DEF ToSet
    <3> QED
      BY <1>6, <3>2, <3>3
  <2>2. ASSUME NEW e \in ToSet(s) PROVE e \in ToSet(st)
    BY <1>1, <1>3, <1>4 DEF ToSet
  <2>3. ASSUME NEW e \in ToSet(t) PROVE e \in ToSet(st)
    BY <1>1, <1>3, <1>5 DEF ToSet
  <2> QED
    BY <2>1, <2>2, <2>3
<1>8. ASSUME AllDifferent(st)
      PROVE  AllDifferent(s) /\ AllDifferent(t) /\ ToSet(s) \cap ToSet(t) = {}
  <2>1. \A i, j \in 1 .. m + n : st[i] = st[j] => i = j
    BY <1>3, <1>8 DEF AllDifferent
  <2>2. AllDifferent(s)
    BY <2>1, <1>1, <1>4 DEF AllDifferent
  <2>3. AllDifferent(t)
    <3> SUFFICES ASSUME NEW i \in 1 .. n, NEW j \in 1 .. n, t[i] = t[j] PROVE i = j
      BY <1>1 DEF AllDifferent
    <3>1. m + i = m + j
      BY <2>1, <1>5
    <3> QED
      BY <3>1, <1>1
  <2>4. ASSUME NEW e \in ToSet(s), e \in ToSet(t) PROVE FALSE
    <3>1. PICK i \in 1 .. m : s[i] = e
      BY <1>1 DEF ToSet
    <3>2. PICK j \in 1 .. n : t[j] = e
      BY <2>4, <1>1 DEF ToSet
    <3>3. i = m + j
      BY <2>1, <3>1, <3>2, <1>4, <1>5
    <3> QED
      BY <3>3, <1>1
  <2> QED
    BY <2>2, <2>3, <2>4
<1>9. ASSUME AllDifferent(s), AllDifferent(t), ToSet(s) \cap ToSet(t) = {}
      PROVE  AllDifferent(st)
  <2> SUFFICES ASSUME NEW i \in 1 .. m + n, NEW j \in 1 .. m + n, st[i] = st[j]
               PROVE  i = j
    BY <1>3 DEF AllDifferent
  <2>1. /\ \A p \in 1 .. m : s[p] \in ToSet(s)
        /\ \A p \in 1 .. n : t[p] \in ToSet(t)
    BY <1>1 DEF ToSet
  <2>2. CASE i \in 1 .. m /\ j \in 1 .. m
    BY <2>2, <1>1, <1>4, <1>9 DEF AllDifferent
  <2>3. ASSUME NEW p \in 1 .. n, NEW q \in 1 .. n, i = m + p, j = m + q
        PROVE  i = j
    <3>1. p = q
      BY <2>3, <1>1, <1>5, <1>9 DEF AllDifferent
    <3> QED
      BY <3>1, <2>3
  <2>4. ASSUME i \in 1 .. m, NEW q \in 1 .. n, j = m + q
        PROVE  FALSE
    BY <2>1, <2>4, <1>4, <1>5, <1>9
  <2>5. ASSUME j \in 1 .. m, NEW q \in 1 .. n, i = m + q
        PROVE  FALSE
    BY <2>1, <2>5, <1>4, <1>5, <1>9
  <2> QED
    BY <1>6, <2>2, <2>3, <2>4, <2>5
<1> QED
  BY <1>7, <1>8, <1>9 DEF st

\* A list without one of its places.
LEMMA OneTakenOut ==
  ASSUME NEW S, NEW list \in Seq(S), NEW k \in 1 .. Len(list)
  PROVE  /\ RemoveAt(list, k) \in Seq(S)
         /\ Len(RemoveAt(list, k)) = Len(list) - 1
         /\ ToSet(RemoveAt(list, k)) \subseteq ToSet(list)
         /\ AllDifferent(list) => AllDifferent(RemoveAt(list, k))
<1> DEFINE n == Len(list)
           new == RemoveAt(list, k)
           one == SubSeq(list, 1, k - 1)
           two == SubSeq(list, k + 1, n)
           back == [i \in 1 .. n - 1 |-> IF i < k THEN i ELSE i + 1]
<1>1. n \in Nat /\ DOMAIN list = 1 .. n /\ k \in 1 .. n /\ \A i \in 1 .. n : list[i] \in S
  BY LenProperties
<1> HIDE DEF n
<1>2. one \in Seq(S) /\ Len(one) = k - 1 /\ \A i \in 1 .. k - 1 : one[i] = list[i]
  <2>1. k - 1 \in Int /\ 1 \in Int /\ \A i \in 1 .. k - 1 : list[i] \in S
    BY <1>1
  <2>2. /\ one \in Seq(S)
        /\ Len(one) = IF 1 <= k - 1 THEN (k - 1) - 1 + 1 ELSE 0
        /\ \A i \in 1 .. (k - 1) - 1 + 1 : one[i] = list[1 + i - 1]
    BY <2>1, SubSeqProperties
  <2> HIDE DEF one
  <2> QED
    BY <2>2, <1>1
<1>3. two \in Seq(S) /\ Len(two) = n - k /\ \A i \in 1 .. n - k : two[i] = list[k + i]
  <2>1. k + 1 \in Int /\ n \in Int /\ \A i \in k + 1 .. n : list[i] \in S
    BY <1>1
  <2>2. /\ two \in Seq(S)
        /\ Len(two) = IF k + 1 <= n THEN n - (k + 1) + 1 ELSE 0
        /\ \A i \in 1 .. n - (k + 1) + 1 : two[i] = list[(k + 1) + i - 1]
    BY <2>1, SubSeqProperties
  <2> HIDE DEF two
  <2>3. Len(two) = n - k
    BY <2>2, <1>1
  <2>4. n - (k + 1) + 1 = n - k /\ \A i \in 1 .. n - k : (k + 1) + i - 1 = k + i
    BY <1>1
  <2>5. \A i \in 1 .. n - k : two[i] = list[k + i]
    BY <2>2, <2>4
  <2> QED
    BY <2>2, <2>3, <2>5
<1>4. new = one \o two
  BY DEF RemoveAt, n
<1> HIDE DEF one, two, new
<1>5. /\ new \in Seq(S) /\ Len(new) = Len(one) + Len(two)
      /\ \A i \in 1 .. Len(one) + Len(two) :
           new[i] = IF i <= Len(one) THEN one[i] ELSE two[i - Len(one)]
  BY <1>2, <1>3, <1>4, ConcatProperties
<1>6. Len(new) = n - 1
  BY <1>1, <1>2, <1>3, <1>5
<1>7. DOMAIN new = 1 .. n - 1
  BY <1>5, <1>6, LenProperties
<1>8. \A i \in 1 .. n - 1 : back[i] \in 1 .. n /\ new[i] = list[back[i]]
  BY <1>1, <1>2, <1>3, <1>5
<1>9. \A i, j \in 1 .. n - 1 : back[i] = back[j] => i = j
  BY <1>1
<1> HIDE DEF back
<1>10. ToSet(new) \subseteq ToSet(list)
  BY <1>1, <1>7, <1>8 DEF ToSet
<1>11. ASSUME AllDifferent(list) PROVE AllDifferent(new)
  <2> SUFFICES ASSUME NEW i \in 1 .. n - 1, NEW j \in 1 .. n - 1, new[i] = new[j]
               PROVE  i = j
    BY <1>7 DEF AllDifferent
  <2>1. back[i] = back[j]
    BY <1>1, <1>8, <1>11 DEF AllDifferent
  <2> QED
    BY <2>1, <1>9
<1> QED
  BY <1>5, <1>6, <1>10, <1>11 DEF n, new

\* Filling the screen moves the front of the queue and loses nothing, and leaves a
\* queue only when there is no room.
LEMMA FillMoves ==
  ASSUME NEW S, NEW shown \in Seq(S), NEW waiting \in Seq(S), Len(shown) <= MaxVisibleToasts
  PROVE  LET filled == Fill(shown, waiting)
         IN  /\ filled[1] \in Seq(S) /\ filled[2] \in Seq(S)
             /\ filled[1] \o filled[2] = shown \o waiting
             /\ Len(filled[1]) <= MaxVisibleToasts
             /\ filled[2] # << >> => Len(filled[1]) = MaxVisibleToasts
<1> DEFINE room == IF MaxVisibleToasts > Len(shown) THEN MaxVisibleToasts - Len(shown) ELSE 0
           n == Len(waiting)
           taken == IF room < n THEN room ELSE n
           front == SubSeq(waiting, 1, taken)
           rest == SubSeq(waiting, taken + 1, n)
<1>1. Len(shown) \in Nat /\ n \in Nat /\ MaxVisibleToasts \in Nat
      /\ \A i \in 1 .. n : waiting[i] \in S
  BY LenProperties, BoundsOfCelebrations
<1>2. room = MaxVisibleToasts - Len(shown) /\ room \in Nat
  BY <1>1
<1>3. taken \in 0 .. n /\ taken <= room /\ (taken < n => taken = room)
  BY <1>1, <1>2
<1>4. Fill(shown, waiting) = << shown \o front, rest >>
  BY DEF Fill
<1> HIDE DEF room, n, taken
<1>5. front \in Seq(S) /\ Len(front) = taken
  <2>1. 1 \in Int /\ taken \in Int /\ \A i \in 1 .. taken : waiting[i] \in S
    BY <1>1, <1>3
  <2>2. front \in Seq(S) /\ Len(front) = IF 1 <= taken THEN taken - 1 + 1 ELSE 0
    BY <2>1, SubSeqProperties
  <2> HIDE DEF front
  <2> QED
    BY <2>2, <1>1, <1>3
<1>6. rest \in Seq(S) /\ Len(rest) = n - taken
  <2>1. taken + 1 \in Int /\ n \in Int /\ \A i \in taken + 1 .. n : waiting[i] \in S
    BY <1>1, <1>3
  <2>2. rest \in Seq(S) /\ Len(rest) = IF taken + 1 <= n THEN n - (taken + 1) + 1 ELSE 0
    BY <2>1, SubSeqProperties
  <2> HIDE DEF rest
  <2> QED
    BY <2>2, <1>1, <1>3
<1>7. front \o rest = waiting
  <2>1. 1 \in 1 .. n + 1 /\ taken \in 1 - 1 .. n /\ n \in taken .. n
    BY <1>1, <1>3
  <2>2. SubSeq(waiting, 1, taken) \o SubSeq(waiting, taken + 1, n) = SubSeq(waiting, 1, n)
    BY <2>1, ConcatAdjacentSubSeq DEF n
  <2>3. SubSeq(waiting, 1, n) = waiting
    BY SubSeqFull DEF n
  <2> QED
    BY <2>2, <2>3
<1> HIDE DEF front, rest
<1>8. (shown \o front) \o rest = shown \o waiting
  <2>1. (shown \o front) \o rest = shown \o (front \o rest)
    BY <1>5, <1>6, ConcatAssociative
  <2> QED
    BY <2>1, <1>7
<1>9. shown \o front \in Seq(S) /\ Len(shown \o front) = Len(shown) + taken
  BY <1>5, ConcatProperties
<1>10. Len(shown \o front) <= MaxVisibleToasts
  BY <1>1, <1>2, <1>3, <1>9
<1>11. ASSUME rest # << >> PROVE Len(shown \o front) = MaxVisibleToasts
  <2>1. Len(rest) # 0
    BY <1>6, <1>11, EmptySeq
  <2> QED
    BY <2>1, <1>1, <1>2, <1>3, <1>6, <1>9
<1>12. Fill(shown, waiting)[1] = shown \o front /\ Fill(shown, waiting)[2] = rest
  BY <1>4
<1> QED
  BY <1>6, <1>8, <1>9, <1>10, <1>11, <1>12

(***************************************************************************)
(* The celebrations: what each step does                                   *)
(***************************************************************************)

Answers == [xp : 0 .. MaxXp, earned : SUBSET Codes]
Modals == [level : 1 .. LevelFromXp(MaxXp), timer : BOOLEAN, fading : BOOLEAN]

\* What is known of the server and the device; of the toasts.
LearnerTypes ==
  /\ xp \in 0 .. MaxXp /\ earned \in SUBSET Codes /\ stats \in Answers \cup {NoStats}
  /\ lastLevel \in 0 .. LevelFromXp(MaxXp) /\ seenCodes \in SUBSET Codes
  /\ onScreen \in BOOLEAN /\ modal \in Modals \cup {NoModal}

ToastTypes ==
  /\ visible \in Seq(Codes) /\ Len(visible) <= MaxVisibleToasts /\ queue \in Seq(Codes)
  /\ toasted \in [Codes -> Nat]

ToastsOK == ToastTypes /\ ToastsOnce /\ NoneWaitsForRoom /\ ToastedIsSeen

LEMMA CelebrationParts == CelebrationInv <=> LearnerTypes /\ ToastsOK
BY DEF CelebrationInv, CelebrationTypeOK, LearnerTypes, ToastTypes, ToastsOK,
       Answers, Modals

LEMMA PartsNext ==
  ASSUME LearnerTypes', ToastsOK'
  PROVE  CelebrationInv'
BY DEF CelebrationInv, CelebrationTypeOK, LearnerTypes, ToastTypes, ToastsOK,
       Answers, Modals

\* Toasts that nobody touches stay as they were.
LEMMA ToastsStay ==
  ASSUME ToastsOK, UNCHANGED << visible, queue, toasted, seenCodes >>
  PROVE  ToastsOK'
BY DEF ToastsOK, ToastTypes, ToastsOnce, NoneWaitsForRoom, ToastedIsSeen

LEMMA NoToastsAreFine ==
  /\ << >> \in Seq(Codes) /\ Len(<< >>) = 0
  /\ ToSet(<< >> \o << >>) = {} /\ AllDifferent(<< >> \o << >>)
<1>1. << >> \in Seq(Codes) /\ Len(<< >>) = 0
  BY EmptySeq
<1>2. << >> \o << >> \in Seq(Codes) /\ Len(<< >> \o << >>) = 0
  BY <1>1, ConcatProperties
<1>3. DOMAIN (<< >> \o << >>) = {}
  BY <1>2, LenProperties
<1> QED
  BY <1>1, <1>3 DEF ToSet, AllDifferent

LEMMA ToastsLeftBehind ==
  ASSUME ToastsOK, visible' = << >>, queue' = << >>, UNCHANGED << seenCodes, toasted >>
  PROVE  ToastsOK'
<1>1. ToastTypes' /\ NoneWaitsForRoom'
  BY NoToastsAreFine, BoundsOfCelebrations DEF ToastsOK, ToastTypes, NoneWaitsForRoom
<1>2. ToastsOnce'
  BY NoToastsAreFine DEF ToastsOnce
<1>3. ToastedIsSeen'
  BY DEF ToastsOK, ToastedIsSeen
<1> QED
  BY <1>1, <1>2, <1>3 DEF ToastsOK

\* Any order of some codes holds each once.
LEMMA OrdersHoldOnce ==
  ASSUME NEW S \in SUBSET Codes, NEW order \in SetToAllKPermutations(S)
  PROVE  order \in Seq(Codes) /\ AllDifferent(order) /\ ToSet(order) \subseteq S
<1>1. PICK T \in SUBSET S : order \in SetToSeqs(T)
  BY DEF SetToAllKPermutations
<1>2. IsFiniteSet(T) /\ T \subseteq Codes
  BY <1>1, CelebrationBounds, FS_Subset
<1>3. PICK n \in Nat : n = Cardinality(T)
  BY <1>2, FS_CardinalityType
<1>4. /\ order \in [1 .. n -> T]
      /\ \A i, j \in 1 .. n : i # j => order[i] # order[j]
  BY <1>1, <1>3 DEF SetToSeqs
<1>5. order \in Seq(T)
  BY <1>3, <1>4
<1>6. order \in Seq(Codes)
  BY <1>2, <1>5, SeqMonotonic
<1> QED
  BY <1>1, <1>4, <1>6 DEF AllDifferent, ToSet

\* New codes are put up or wait, after those there are.
LEMMA NewToasts ==
  ASSUME LearnerTypes, ToastsOK, NEW s \in Answers, DecideCelebration(s)
  PROVE  ToastsOK'
<1> DEFINE new == NewCodes(s)
<1>1. new \in SUBSET Codes /\ new \cap seenCodes = {} /\ seenCodes' = seenCodes \cup new
  BY DEF NewCodes, Answers, DecideCelebration
<1> HIDE DEF new
<1>2. CASE UNCHANGED << visible, queue, toasted >>
  BY <1>1, <1>2 DEF ToastsOK, ToastTypes, ToastsOnce, NoneWaitsForRoom, ToastedIsSeen
<1>3. ASSUME NEW order \in SetToAllKPermutations(new), PushToasts(order),
             toasted' = [c \in Codes |-> IF c \in new THEN toasted[c] + 1 ELSE toasted[c]]
      PROVE  ToastsOK'
  <2> DEFINE waiting == queue \o order
             filled == Fill(visible, waiting)
             all == visible \o queue
  <2>1. visible \in Seq(Codes) /\ queue \in Seq(Codes) /\ Len(visible) <= MaxVisibleToasts
        /\ AllDifferent(all) /\ ToSet(all) \subseteq seenCodes
    BY DEF ToastsOK, ToastTypes, ToastsOnce
  <2>2. order \in Seq(Codes) /\ AllDifferent(order) /\ ToSet(order) \subseteq new
    BY <1>1, OrdersHoldOnce
  <2>3. visible' = filled[1] /\ queue' = filled[2]
    BY <1>3 DEF PushToasts
  <2>4. waiting \in Seq(Codes) /\ all \in Seq(Codes)
    BY <2>1, <2>2, ConcatProperties
  <2>5. visible \o waiting = all \o order
    BY <2>1, <2>2, ConcatAssociative
  <2> HIDE DEF waiting
  <2>6. /\ filled[1] \in Seq(Codes) /\ filled[2] \in Seq(Codes)
        /\ filled[1] \o filled[2] = visible \o waiting
        /\ Len(filled[1]) <= MaxVisibleToasts
        /\ filled[2] # << >> => Len(filled[1]) = MaxVisibleToasts
    BY <2>1, <2>4, FillMoves
  <2> HIDE DEF filled
  <2>7. /\ visible' \in Seq(Codes) /\ queue' \in Seq(Codes)
        /\ visible' \o queue' = all \o order
        /\ Len(visible') <= MaxVisibleToasts
        /\ queue' # << >> => Len(visible') = MaxVisibleToasts
    BY <2>3, <2>5, <2>6
  <2> HIDE DEF all
  <2>8. /\ ToSet(all \o order) = ToSet(all) \cup ToSet(order)
        /\ AllDifferent(all \o order)
             <=> AllDifferent(all) /\ AllDifferent(order) /\ ToSet(all) \cap ToSet(order) = {}
    BY <2>2, <2>4, OneAfterTheOther
  <2>9. ToSet(all) \cap ToSet(order) = {}
    BY <2>1, <2>2, <1>1
  <2>10. ToastsOnce'
    <3>1. AllDifferent(visible' \o queue')
      BY <2>1, <2>2, <2>7, <2>8, <2>9
    <3>2. ToSet(visible' \o queue') \subseteq seenCodes'
      BY <2>1, <2>2, <2>7, <2>8, <1>1
    <3> QED
      BY <3>1, <3>2 DEF ToastsOnce
  <2>11. ToastedIsSeen' /\ toasted' \in [Codes -> Nat]
    BY <1>1, <1>3 DEF ToastsOK, ToastedIsSeen, ToastTypes
  <2> QED
    BY <2>7, <2>10, <2>11 DEF ToastsOK, ToastTypes, NoneWaitsForRoom
<1> QED
  BY <1>2, <1>3 DEF DecideCelebration, new

\* One goes and the next takes its place.
LEMMA ToastGoes ==
  ASSUME ToastsOK, NEW c \in Codes, ToastTimerFires(c)
  PROVE  ToastsOK'
<1> DEFINE k == CHOOSE i \in DOMAIN visible : visible[i] = c
           left == Dismissed(c)
           filled == Fill(left, queue)
<1>1. visible \in Seq(Codes) /\ queue \in Seq(Codes) /\ Len(visible) <= MaxVisibleToasts
      /\ AllDifferent(visible \o queue) /\ ToSet(visible \o queue) \subseteq seenCodes
      /\ DOMAIN visible = 1 .. Len(visible) /\ Len(visible) \in Nat
  BY LenProperties DEF ToastsOK, ToastTypes, ToastsOnce
<1>2. k \in 1 .. Len(visible)
  BY <1>1 DEF ToastTimerFires, Contains
<1>3. left = RemoveAt(visible, k)
  BY DEF Dismissed
<1> HIDE DEF k, left
<1>4. /\ left \in Seq(Codes) /\ Len(left) = Len(visible) - 1
      /\ ToSet(left) \subseteq ToSet(visible)
      /\ AllDifferent(visible) => AllDifferent(left)
  BY <1>1, <1>2, <1>3, OneTakenOut
<1>5. Len(left) <= MaxVisibleToasts
  BY <1>1, <1>4, BoundsOfCelebrations
<1>6. /\ ToSet(visible \o queue) = ToSet(visible) \cup ToSet(queue)
      /\ AllDifferent(visible) /\ AllDifferent(queue) /\ ToSet(visible) \cap ToSet(queue) = {}
  BY <1>1, OneAfterTheOther
<1>7. /\ ToSet(left \o queue) = ToSet(left) \cup ToSet(queue)
      /\ AllDifferent(left \o queue)
           <=> AllDifferent(left) /\ AllDifferent(queue) /\ ToSet(left) \cap ToSet(queue) = {}
  BY <1>1, <1>4, OneAfterTheOther
<1>8. AllDifferent(left \o queue) /\ ToSet(left \o queue) \subseteq seenCodes
  BY <1>1, <1>4, <1>6, <1>7
<1>9. /\ filled[1] \in Seq(Codes) /\ filled[2] \in Seq(Codes)
      /\ filled[1] \o filled[2] = left \o queue
      /\ Len(filled[1]) <= MaxVisibleToasts
      /\ filled[2] # << >> => Len(filled[1]) = MaxVisibleToasts
  BY <1>1, <1>4, <1>5, FillMoves
<1>10. visible' = filled[1] /\ queue' = filled[2] /\ UNCHANGED << seenCodes, toasted >>
  BY DEF ToastTimerFires, PullNextToast, deviceVars, left
<1> HIDE DEF filled
<1>11. ToastTypes' /\ NoneWaitsForRoom'
  BY <1>9, <1>10 DEF ToastsOK, ToastTypes, NoneWaitsForRoom
<1>12. ToastsOnce'
  BY <1>8, <1>9, <1>10 DEF ToastsOnce
<1>13. ToastedIsSeen'
  BY <1>10 DEF ToastsOK, ToastedIsSeen
<1> QED
  BY <1>11, <1>12, <1>13 DEF ToastsOK

LEMMA CelebrationBegins ==
  CelebrationInit => CelebrationInv
<1> SUFFICES ASSUME CelebrationInit PROVE CelebrationInv
  OBVIOUS
<1>1. 0 \in 0 .. MaxXp /\ 0 \in 0 .. LevelFromXp(MaxXp) /\ {} \in SUBSET Codes
  <2>1. 0 \in 0 .. MaxXp /\ MaxXp \in 0 .. MaxXp
    BY BoundsOfCelebrations
  <2>2. LevelFromXp(MaxXp) \in 1 .. LevelFromXp(MaxXp)
    BY <2>1, LevelsGrow
  <2>3. LevelFromXp(0) \in 1 .. LevelFromXp(MaxXp)
    BY <2>1, LevelsGrow
  <2>4. LevelFromXp(MaxXp) \in Nat
    BY BoundsOfCelebrations DEF LevelFromXp
  <2> HIDE DEF LevelFromXp
  <2>5. 0 \in 0 .. LevelFromXp(MaxXp)
    BY <2>4
  <2> QED
    BY <2>1, <2>5
<1>2. LearnerTypes
  BY <1>1 DEF CelebrationInit, LearnerTypes
<1>4. ToastsOK
  <2>1. visible = << >> /\ queue = << >> /\ seenCodes = {} /\ toasted = [c \in Codes |-> 0]
    BY DEF CelebrationInit
  <2>2. ToastTypes /\ NoneWaitsForRoom /\ ToastedIsSeen
    BY <2>1, NoToastsAreFine, BoundsOfCelebrations
       DEF ToastTypes, NoneWaitsForRoom, ToastedIsSeen
  <2>3. ToastsOnce
    BY <2>1, NoToastsAreFine DEF ToastsOnce
  <2> QED
    BY <2>2, <2>3 DEF ToastsOK
<1> QED
  BY <1>2, <1>4, CelebrationParts

\* An answer is looked at: when it arrives, or when the celebrations come back to it.
LEMMA DecidedInv ==
  ASSUME CelebrationInv, NEW s \in Answers, DecideCelebration(s), UNCHANGED << xp, earned >>,
         stats' = s, onScreen' \in BOOLEAN
  PROVE  CelebrationInv'
<1>1. LearnerTypes /\ ToastsOK
  BY CelebrationParts
<1>2. s.xp \in 0 .. MaxXp /\ s.earned \in SUBSET Codes
  BY DEF Answers
<1>3. ToastsOK'
  BY <1>1, NewToasts
<1>4. PICK level \in 1 .. LevelFromXp(MaxXp) : level = LevelFromXp(s.xp)
  BY <1>2, LevelsGrow
<1>5. PICK high \in Nat : high = LevelFromXp(MaxXp)
  BY BoundsOfCelebrations DEF LevelFromXp
<1>6. level \in 1 .. high /\ level \in 0 .. high
  BY <1>4, <1>5
<1>7. LevelUp(level) \in Modals
  BY <1>1, <1>4 DEF LevelUp, LearnerTypes, Modals
<1>8. /\ lastLevel' = level /\ seenCodes' = seenCodes \cup NewCodes(s)
      /\ modal' \in {LevelUp(level), modal}
  BY <1>4 DEF DecideCelebration
<1>9. seenCodes' \in SUBSET Codes
  BY <1>1, <1>2, <1>8 DEF LearnerTypes, NewCodes
<1>10. LearnerTypes'
  BY <1>1, <1>5, <1>6, <1>7, <1>8, <1>9 DEF LearnerTypes
<1> QED
  BY <1>3, <1>10, PartsNext

LEMMA StatsArriveInv ==
  ASSUME CelebrationInv, StatsArrive
  PROVE  CelebrationInv'
<1> DEFINE s == [xp |-> xp, earned |-> earned]
<1>1. LearnerTypes /\ ToastsOK
  BY CelebrationParts
<1>2. s \in Answers
  BY <1>1 DEF LearnerTypes, Answers
<1>3. /\ stats' = s /\ UNCHANGED << xp, earned, onScreen >>
      /\ IF onScreen THEN DecideCelebration(s) ELSE UNCHANGED << deviceVars, rootVars, toasted >>
  BY DEF StatsArrive
<1> HIDE DEF s
<1>4. CASE onScreen
  BY <1>1, <1>2, <1>3, <1>4, DecidedInv DEF LearnerTypes
<1>5. CASE ~onScreen
  <2>1. UNCHANGED << lastLevel, seenCodes, modal, visible, queue, toasted >>
    BY <1>3, <1>5 DEF deviceVars, rootVars
  <2>2. LearnerTypes'
    BY <1>1, <1>2, <1>3, <2>1 DEF LearnerTypes
  <2>3. ToastsOK'
    BY <1>1, <2>1, ToastsStay
  <2> QED
    BY <2>2, <2>3, PartsNext
<1> QED
  BY <1>4, <1>5

LEMMA ToastTimerInv ==
  ASSUME CelebrationInv, NEW c \in Codes, ToastTimerFires(c)
  PROVE  CelebrationInv'
<1>1. LearnerTypes /\ ToastsOK
  BY CelebrationParts
<1>2. ToastsOK'
  BY <1>1, ToastGoes
<1>3. LearnerTypes'
  BY <1>1 DEF ToastTimerFires, deviceVars, LearnerTypes
<1> QED
  BY <1>2, <1>3, PartsNext

LEMMA ModalInv ==
  ASSUME CelebrationInv, NEW m \in Modals \cup {NoModal}, Modal(m)
  PROVE  CelebrationInv'
<1>1. LearnerTypes /\ ToastsOK
  BY CelebrationParts
<1>2. LearnerTypes'
  BY <1>1 DEF Modal, deviceVars, LearnerTypes
<1>4. ToastsOK'
  BY <1>1, ToastsStay DEF Modal, deviceVars
<1> QED
  BY <1>2, <1>4, PartsNext

LEMMA OfflineScreenInv ==
  ASSUME CelebrationInv, OfflineScreenComes \/ OfflineScreenGoes
  PROVE  CelebrationInv'
<1>1. LearnerTypes /\ ToastsOK
  BY CelebrationParts
<1>2. UNCHANGED << xp, earned, stats >> /\ onScreen' \in BOOLEAN
  BY DEF OfflineScreenComes, OfflineScreenGoes
<1>3. CASE OfflineScreenComes
  <2>1. modal' = NoModal /\ visible' = << >> /\ queue' = << >>
        /\ UNCHANGED << lastLevel, seenCodes, toasted >>
    BY <1>3 DEF OfflineScreenComes, Unmounted, deviceVars
  <2>2. LearnerTypes'
    BY <1>1, <1>2, <2>1 DEF LearnerTypes
  <2>3. ToastsOK'
    BY <1>1, <2>1, ToastsLeftBehind
  <2> QED
    BY <2>2, <2>3, PartsNext
<1>4. CASE OfflineScreenGoes /\ stats = NoStats
  <2>1. UNCHANGED << lastLevel, seenCodes, modal, visible, queue, toasted >>
    BY <1>4 DEF OfflineScreenGoes, deviceVars, rootVars
  <2>2. LearnerTypes'
    BY <1>1, <1>2, <2>1 DEF LearnerTypes
  <2>3. ToastsOK'
    BY <1>1, <2>1, ToastsStay
  <2> QED
    BY <2>2, <2>3, PartsNext
<1>5. CASE OfflineScreenGoes /\ stats # NoStats
  <2>1. PICK s \in Answers : s = stats
    BY <1>1, <1>5 DEF LearnerTypes
  <2>2. DecideCelebration(s) /\ stats' = s
    BY <1>2, <1>5, <2>1 DEF OfflineScreenGoes
  <2> QED
    BY <1>2, <2>2, DecidedInv
<1> QED
  BY <1>3, <1>4, <1>5

LEMMA LeaveInv ==
  ASSUME CelebrationInv, NEW again \in BOOLEAN, Leave(again)
  PROVE  CelebrationInv'
<1>1. LearnerTypes /\ ToastsOK
  BY CelebrationParts
<1>2. LearnerTypes'
  BY <1>1 DEF Leave, Unmounted, deviceVars, LearnerTypes
<1>3. ToastsOK'
  BY <1>1, ToastsLeftBehind DEF Leave, Unmounted, deviceVars
<1> QED
  BY <1>2, <1>3, PartsNext

LEMMA EarnInv ==
  ASSUME CelebrationInv, NEW n \in 0 .. MaxXp, NEW codes \in SUBSET Codes, Earn(n, codes)
  PROVE  CelebrationInv'
<1>1. LearnerTypes /\ ToastsOK
  BY CelebrationParts
<1>2. xp' \in 0 .. MaxXp /\ earned' \in SUBSET Codes
  BY <1>1, BoundsOfCelebrations DEF Earn, LearnerTypes
<1>3. LearnerTypes'
  BY <1>1, <1>2 DEF Earn, deviceVars, rootVars, LearnerTypes
<1>5. ToastsOK'
  BY <1>1, ToastsStay DEF Earn, deviceVars, rootVars
<1> QED
  BY <1>3, <1>5, PartsNext

LEMMA CelebrationStep ==
  CelebrationInv /\ [CelebrationNext]_celebrationVars => CelebrationInv'
<1> SUFFICES ASSUME CelebrationInv, [CelebrationNext]_celebrationVars PROVE CelebrationInv'
  OBVIOUS
<1>1. LearnerTypes /\ ToastsOK
  BY CelebrationParts
<1>2. ASSUME modal # NoModal
      PROVE  /\ [modal EXCEPT !.fading = TRUE] \in Modals
             /\ [modal EXCEPT !.timer = FALSE, !.fading = TRUE] \in Modals
  BY <1>1, <1>2 DEF LearnerTypes, Modals
<1>3. CASE StatsArrive
  BY <1>3, StatsArriveInv
<1>4. CASE \E c \in Codes : ToastTimerFires(c)
  BY <1>4, ToastTimerInv
<1>5. CASE TapContinueOnModal
  BY <1>2, <1>5, ModalInv DEF TapContinueOnModal
<1>6. CASE ModalTimerFires
  BY <1>2, <1>6, ModalInv DEF ModalTimerFires
<1>7. CASE \E faded \in BOOLEAN : ModalCloses(faded)
  BY <1>7, ModalInv DEF ModalCloses
<1>8. CASE OfflineScreenComes \/ OfflineScreenGoes
  BY <1>8, OfflineScreenInv
<1>10. CASE \E again \in BOOLEAN : Leave(again)
  BY <1>10, LeaveInv
<1>11. CASE \E n \in 0 .. MaxXp, codes \in SUBSET Codes : Earn(n, codes)
  BY <1>11, EarnInv
<1>12. CASE UNCHANGED celebrationVars
  <2>1. LearnerTypes'
    BY <1>1, <1>12 DEF celebrationVars, deviceVars, rootVars, LearnerTypes
  <2>3. ToastsOK'
    BY <1>1, <1>12, ToastsStay DEF celebrationVars, deviceVars, rootVars
  <2> QED
    BY <2>1, <2>3, PartsNext
<1> QED
  BY <1>3, <1>4, <1>5, <1>6, <1>7, <1>8, <1>10, <1>11, <1>12 DEF CelebrationNext

LEMMA CelebrationInvariance == CelebrationSpec => []CelebrationInv
<1> QED
  BY CelebrationBegins, CelebrationStep, PTL DEF CelebrationSpec

\* Every variable of the celebrations keeps its type, for any achievements, XP and
\* limits.
THEOREM CelebrationTyped == CelebrationSpec => []CelebrationTypeOK
<1>1. CelebrationInv => CelebrationTypeOK
  BY DEF CelebrationInv
<1> QED
  BY <1>1, CelebrationInvariance, PTL

\* The safety half of EveryToastHasItsTurn: an achievement is put up once at most,
\* over refetches, restarts, sign-ins and offline screens.
THEOREM CelebratedOnceAtMost == CelebrationSpec => [](\A c \in Codes : toasted[c] <= 1)
<1>1. CelebrationInv => \A c \in Codes : toasted[c] <= 1
  BY DEF CelebrationInv, ToastedIsSeen
<1> QED
  BY <1>1, CelebrationInvariance, PTL

\* No toast is on screen twice or both on screen and waiting, so that the one whose
\* timer is up is the one that goes; and none waits while the screen has room.
THEOREM ToastsShareTheScreen == CelebrationSpec => [](ToastsOnce /\ NoneWaitsForRoom)
<1>1. CelebrationInv => ToastsOnce /\ NoneWaitsForRoom
  BY DEF CelebrationInv
<1> QED
  BY <1>1, CelebrationInvariance, PTL

(***************************************************************************)
(* The components side by side                                             *)
(***************************************************************************)

\* The step of one component leaves the variables of the others as they are.
LEMMA OneGoesOn ==
  [ProgressNext]_progressVars =>
    /\ [Next]_vars /\ [ReachNext]_reachVars
    /\ [StoryNext]_storyVars /\ [CelebrationNext]_celebrationVars
    /\ UNCHANGED part
<1>1. ASSUME Rest, part = "client", Next
      PROVE  /\ [Next]_vars /\ UNCHANGED << reachVars, storyVars, celebrationVars, part >>
  BY <1>1 DEF Rest
<1>2. ASSUME Rest, part = "reach", ReachNext
      PROVE  /\ [ReachNext]_reachVars /\ UNCHANGED << vars, storyVars, celebrationVars, part >>
  BY <1>2 DEF Rest
<1>3. ASSUME Rest, part = "story", StoryNext
      PROVE  /\ [StoryNext]_storyVars /\ UNCHANGED << vars, reachVars, celebrationVars, part >>
  BY <1>3 DEF Rest
<1>4. ASSUME Rest, part = "celebration", CelebrationNext
      PROVE  /\ [CelebrationNext]_celebrationVars
             /\ UNCHANGED << vars, reachVars, storyVars, part >>
  BY <1>4 DEF Rest
<1>5. ASSUME UNCHANGED progressVars
      PROVE  UNCHANGED << vars, reachVars, storyVars, celebrationVars, part >>
  BY <1>5 DEF progressVars
<1> QED
  BY <1>1, <1>2, <1>3, <1>4, <1>5 DEF ProgressNext

\* Every component of the app keeps its types while it runs beside the others, so for
\* every instance of the constants and not only for the one the run takes.
THEOREM ProgressTyped == ProgressSpec => []ProgressTypeOK
<1> DEFINE Side == part \in Parts /\ IInv /\ ReachInv /\ StoryInv /\ CelebrationInv
<1>1. ProgressInit => Side
  BY InitInv, ReachBegins, StoryBegins, CelebrationBegins DEF ProgressInit
<1>2. Side /\ [ProgressNext]_progressVars => Side'
  BY OneGoesOn, NextInv, ReachStep, StoryStep, CelebrationStep
<1>3. Side => ProgressTypeOK
  BY DEF ProgressTypeOK, Parts, IInv, ReachInv, StoryInv, CelebrationInv
<1> QED
  BY <1>1, <1>2, <1>3, PTL DEF ProgressSpec

\* The offline screen still goes by its evidence when the others run beside it.
THEOREM EvidenceBesideOthers == ProgressSpec => OfflineOnEvidence
<1>1. ProgressInit => ReachInv
  BY ReachBegins DEF ProgressInit
<1>2. ReachInv /\ [ProgressNext]_progressVars => ReachInv' /\ [EvidenceStep]_reachVars
  BY OneGoesOn, ReachStep, StepEvidence
<1> QED
  BY <1>1, <1>2, PTL DEF ProgressSpec, OfflineOnEvidence, EvidenceStep
================================================================================

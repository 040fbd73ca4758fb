----------------------------- MODULE Celebrations -----------------------------
(***************************************************************************)
(* What the app makes of a fresh answer of /api/gamification/stats: the    *)
(* level-up modal and the achievement toasts.  mobile/src/gamification/    *)
(* celebrate.ts, mobile/src/components/{GamificationCelebration,           *)
(* LevelUpModal}.tsx, onScreen by mobile/App.tsx.                           *)
(*                                                                         *)
(* The component is onScreen while somebody is signed in, inside the        *)
(* connectivity gate: the offline screen unmounts it and its state goes,   *)
(* while the cache keeps the answer and the device keeps what was          *)
(* celebrated.  The amounts shown, the header's bar, its badges and the    *)
(* chime are left out.                                                     *)
(***************************************************************************)
EXTENDS Naturals, FiniteSets, Sequences, SequencesExt

CONSTANTS
  Codes,            (* Codes of the achievements.                             *)
  MaxXp,            (* XP of the learner, at most.                            *)
  XpPerLevel,
  MaxVisibleToasts,
  NoStats, NoModal

ASSUME CelebrationBounds ==
  /\ IsFiniteSet(Codes) /\ MaxXp \in Nat
  /\ {XpPerLevel, MaxVisibleToasts} \subseteq Nat \ {0}

VARIABLES
  xp, earned,       (* Server: the learner's XP, the achievements earned.     *)
  stats,            (* The answer last fetched.                               *)
  lastLevel, seenCodes,                         (* On the device; level 0: none yet. *)
  onScreen,         (* The celebrations are mounted.                           *)
  modal,            (* The level-up modal: its level, timer and fade.         *)
  visible, queue,   (* Toasts.                                                *)
  toasted           (* History: how often each code was put up.               *)

deviceVars == << lastLevel, seenCodes >>
rootVars == << modal, visible, queue >>
celebrationVars == << xp, earned, stats, deviceVars, onScreen, rootVars, toasted >>

LevelFromXp(n) == n \div XpPerLevel + 1

CelebrationInit ==
  /\ xp \in 0 .. MaxXp /\ earned \in SUBSET Codes /\ stats = NoStats
  /\ lastLevel = 0 /\ seenCodes = {}
  /\ onScreen = TRUE /\ modal = NoModal /\ visible = << >> /\ queue = << >>
  /\ toasted = [c \in Codes |-> 0]

(***************************************************************************)
(* Toasts                                                                  *)
(***************************************************************************)

\* First in, first out; what finds no room waits.
Fill(shown, waiting) ==
  LET room == IF MaxVisibleToasts > Len(shown) THEN MaxVisibleToasts - Len(shown) ELSE 0
      taken == IF room < Len(waiting) THEN room ELSE Len(waiting)
  IN  << shown \o SubSeq(waiting, 1, taken), SubSeq(waiting, taken + 1, Len(waiting)) >>

PushToasts(incoming) ==
  LET filled == Fill(visible, queue \o incoming)
  IN  visible' = filled[1] /\ queue' = filled[2]

\* The one whose timer is up goes; the next in the queue takes its place.  A code is
\* on screen once.
Dismissed(c) == RemoveAt(visible, CHOOSE i \in DOMAIN visible : visible[i] = c)
LeaveQueue(c) == visible' = Dismissed(c) /\ UNCHANGED queue
PullNextToast(c) ==
  LET filled == Fill(Dismissed(c), queue)
  IN  visible' = filled[1] /\ queue' = filled[2]

ToastTimerFires(c) ==
  /\ Contains(visible, c)
  /\ PullNextToast(c)
  /\ UNCHANGED << xp, earned, stats, deviceVars, onScreen, modal, toasted >>

(***************************************************************************)
(* The level-up modal                                                      *)
(***************************************************************************)

\* Its own timer was set when it came up: a later level-up changes what it says.
LevelUp(level) ==
  IF modal = NoModal THEN [level |-> level, timer |-> TRUE, fading |-> FALSE]
  ELSE [modal EXCEPT !.level = level]

Modal(m) ==
  /\ modal' = m
  /\ UNCHANGED << xp, earned, stats, deviceVars, onScreen, visible, queue, toasted >>

TapContinueOnModal == modal # NoModal /\ ~modal.fading /\ Modal([modal EXCEPT !.fading = TRUE])
ModalTimerFires ==
  modal # NoModal /\ modal.timer /\ Modal([modal EXCEPT !.timer = FALSE, !.fading = TRUE])
\* The fade is over, or the back button closes at once.
ModalCloses(faded) == modal # NoModal /\ (faded => modal.fading) /\ Modal(NoModal)

(***************************************************************************)
(* The effect on [data]                                                    *)
(***************************************************************************)

NewCodes(s) == s.earned \ seenCodes

\* Everything is stored before anything is shown; the first sight shows nothing.
DecideCelebration(s) ==
  LET firstSight == lastLevel = 0
      level == LevelFromXp(s.xp)
  IN  /\ lastLevel' = level
      /\ seenCodes' = seenCodes \cup NewCodes(s)
      /\ modal' = IF ~firstSight /\ level > lastLevel THEN LevelUp(level) ELSE modal
      /\ IF firstSight THEN UNCHANGED << visible, queue, toasted >>
         ELSE /\ \E order \in SetToAllKPermutations(NewCodes(s)) :
                   Len(order) = Cardinality(NewCodes(s)) /\ PushToasts(order)
              /\ toasted' = [c \in Codes |-> IF c \in NewCodes(s) THEN toasted[c] + 1
                                             ELSE toasted[c]]

StatsArrive ==
  LET s == [xp |-> xp, earned |-> earned] IN
  /\ s # stats
  /\ stats' = s
  /\ IF onScreen THEN DecideCelebration(s)
     ELSE UNCHANGED << deviceVars, rootVars, toasted >>
  /\ UNCHANGED << xp, earned, onScreen >>

(***************************************************************************)
(* Mounting                                                                *)
(***************************************************************************)

Unmounted == modal' = NoModal /\ visible' = << >> /\ queue' = << >>

\* The offline screen takes the place of everything in the gate.
OfflineScreenComes ==
  /\ onScreen /\ onScreen' = FALSE
  /\ Unmounted
  /\ UNCHANGED << xp, earned, stats, deviceVars, toasted >>

\* Back online the effect runs on whatever answer the cache holds.
OfflineScreenGoes ==
  /\ ~onScreen /\ onScreen' = TRUE
  /\ IF stats = NoStats THEN UNCHANGED << deviceVars, rootVars, toasted >>
     ELSE DecideCelebration(stats)
  /\ UNCHANGED << xp, earned, stats >>

\* Signing out unmounts everything and empties the cache; a restart takes the offline
\* screen away too.
Leave(restart) ==
  /\ stats' = NoStats /\ onScreen' = (onScreen \/ restart)
  /\ Unmounted
  /\ UNCHANGED << xp, earned, deviceVars, toasted >>

Earn(n, codes) ==
  /\ n + Cardinality(codes) > 0 /\ xp + n <= MaxXp
  /\ xp' = xp + n /\ earned' = earned \cup codes
  /\ UNCHANGED << stats, deviceVars, onScreen, rootVars, toasted >>

CelebrationNext ==
  \/ StatsArrive
  \/ \E c \in Codes : ToastTimerFires(c)
  \/ TapContinueOnModal
  \/ ModalTimerFires
  \/ \E faded \in BOOLEAN : ModalCloses(faded)
  \/ OfflineScreenComes
  \/ OfflineScreenGoes
  \/ \E restart \in BOOLEAN : Leave(restart)
  \/ \E n \in 0 .. MaxXp, codes \in SUBSET Codes : Earn(n, codes)

\* Timers fire.
CelebrationFairness ==
  /\ \A c \in Codes : WF_celebrationVars(ToastTimerFires(c))
  /\ WF_celebrationVars(ModalTimerFires) /\ WF_celebrationVars(ModalCloses(TRUE))

CelebrationSpec == CelebrationInit /\ [][CelebrationNext]_celebrationVars /\ CelebrationFairness

CelebrationTypeOK ==
  /\ xp \in 0 .. MaxXp /\ earned \subseteq Codes
  /\ stats = NoStats \/ stats \in [xp : 0 .. MaxXp, earned : SUBSET Codes]
  /\ lastLevel \in 0 .. LevelFromXp(MaxXp) /\ seenCodes \subseteq Codes
  /\ onScreen \in BOOLEAN
  /\ modal = NoModal \/ modal \in [level : 1 .. LevelFromXp(MaxXp), timer : BOOLEAN, fading : BOOLEAN]
  /\ visible \in Seq(Codes) /\ Len(visible) <= MaxVisibleToasts /\ queue \in Seq(Codes)
  /\ toasted \in [Codes -> Nat]

(***************************************************************************)
(* Properties                                                              *)
(***************************************************************************)

\* An achievement is put up once at most, over refetches, restarts, sign-ins and offline
\* screens; and however many come at once, each that waits is shown, unless the screen is
\* left or taken away first.
EveryToastHasItsTurn ==
  /\ [](\A c \in Codes : toasted[c] <= 1)
  /\ \A c \in Codes : Contains(queue, c) ~> (Contains(visible, c) \/ ~onScreen \/ stats = NoStats)
=============================================================================

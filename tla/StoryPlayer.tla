------------------------------ MODULE StoryPlayer ------------------------------
(***************************************************************************)
(* Listening to a planet's story: StoryPanel of                            *)
(* mobile/src/screens/AudioScreen.tsx over the one SpeechPlayer of         *)
(* mobile/src/voice/ttsPlayer.ts.                                          *)
(*                                                                         *)
(* A playback loop speaks one sentence after another.  speak() first stops *)
(* the clips that sound, then fetches its own: a clip being fetched cannot *)
(* be stopped and sounds when it arrives.  A loop resumes from speak()     *)
(* some time after its clip is over, whichever way it ended, and only then *)
(* looks at cancelRef.  Positions are sentences; seconds are left out.     *)
(***************************************************************************)
EXTENDS Naturals

CONSTANTS
  Panels,           (* Mounts of the panel, one for each planet opened.       *)
  Loops,            (* Playback loops running at once, at most.               *)
  LastUnit,         (* Sentences are 0 .. LastUnit.                           *)
  MaxRestarts,      (* Restart timers set at once, at most.                   *)
  NoLoop,           (* A loop not running.                                    *)
  NoPanel           (* No panel on screen.                                    *)

ASSUME StoryBounds == LastUnit \in Nat /\ MaxRestarts \in Nat \ {0}
ASSUME NothingRuns ==
  /\ NoPanel \notin Panels
  /\ NoLoop \notin [panel : Panels, at : 0 .. LastUnit, clip : {"loading", "sounding", "over"}]

VARIABLES
  open,             (* The panel on screen.                                   *)
  unseen,           (* Panels not opened yet.                                 *)
  indexRef, playing, playingRef, cancelRef,     (* Per panel.                 *)
  restart,          (* Per panel: timers of 60 ms set by a seek.              *)
  loop,             (* Per loop: its panel, sentence and clip.                *)
  told,             (* History: loops running that were told to stop.         *)
  strayed           (* History: panels played again before such a loop had    *)
                    (* looked, until their loops are over.                    *)

storyVars == << open, unseen, indexRef, playing, playingRef, cancelRef, restart, loop,
                told, strayed >>

Units == 0 .. LastUnit

Running(p) == {l \in Loops : loop[l] # NoLoop /\ loop[l].panel = p}

StoryInit ==
  /\ open = NoPanel /\ unseen = Panels
  /\ indexRef = [p \in Panels |-> 0]
  /\ playing = [p \in Panels |-> FALSE]
  /\ playingRef = [p \in Panels |-> FALSE] /\ cancelRef = [p \in Panels |-> FALSE]
  /\ restart = [p \in Panels |-> 0]
  /\ loop = [l \in Loops |-> NoLoop]
  /\ told = {} /\ strayed = {}

\* SpeechPlayer.stop: clips that sound are over, clips on their way are not.
Stopped ==
  [l \in Loops |-> IF loop[l] # NoLoop /\ loop[l].clip = "sounding"
                   THEN [loop[l] EXCEPT !.clip = "over"] ELSE loop[l]]

\* speak, up to the fetch of the clip.
Speak(l, p, i) ==
  loop' = [Stopped EXCEPT ![l] = [panel |-> p, at |-> i, clip |-> "loading"]]

\* play() is guarded by the ref.  A guard on the state would see the value of the
\* render its callback was made in.
MayPlayByState(p, rendered) == ~rendered
MayPlay(p, rendered) == ~playingRef[p]

Play(p, rendered) ==
  IF MayPlay(p, rendered)
  THEN \E l \in Loops :
         /\ loop[l] = NoLoop
         /\ playingRef' = [playingRef EXCEPT ![p] = TRUE]
         /\ cancelRef' = [cancelRef EXCEPT ![p] = FALSE]
         /\ playing' = [playing EXCEPT ![p] = TRUE]
         /\ Speak(l, p, indexRef[p])
         /\ strayed' = IF told \cap Running(p) = {} THEN strayed ELSE strayed \cup {p}
  ELSE UNCHANGED << playing, playingRef, cancelRef, loop, strayed >>

\* What pausing, seeking and leaving have in common.
TellLoops(p) == told' = told \cup Running(p) /\ loop' = Stopped
Cancel(p) == cancelRef' = [cancelRef EXCEPT ![p] = TRUE] /\ TellLoops(p)

(***************************************************************************)
(* The learner                                                             *)
(***************************************************************************)

\* A planet is chosen: the panel before it unmounts, the new one starts where the
\* learner stopped the last time.
OpenPanel(p) ==
  /\ p \in unseen
  /\ unseen' = unseen \ {p}
  /\ open' = p
  /\ \E i \in Units : indexRef' = [indexRef EXCEPT ![p] = i]
  /\ IF open = NoPanel THEN UNCHANGED << cancelRef, loop, told >> ELSE Cancel(open)
  /\ UNCHANGED << playing, playingRef, restart, strayed >>

LeaveScreenOf(p) ==
  /\ open = p
  /\ open' = NoPanel
  /\ Cancel(p)
  /\ UNCHANGED << unseen, indexRef, playing, playingRef, restart, strayed >>

TogglePlay(p) ==
  /\ open = p
  /\ IF playing[p]
     THEN /\ Cancel(p)
          /\ playing' = [playing EXCEPT ![p] = FALSE]
          /\ playingRef' = [playingRef EXCEPT ![p] = FALSE]
          /\ UNCHANGED strayed
     ELSE Play(p, FALSE) /\ UNCHANGED told
  /\ UNCHANGED << open, unseen, indexRef, restart >>

SeekTo(p, i) ==
  /\ open = p
  /\ playing[p] => restart[p] < MaxRestarts
  /\ Cancel(p)
  /\ playing' = [playing EXCEPT ![p] = FALSE]
  /\ playingRef' = [playingRef EXCEPT ![p] = FALSE]
  /\ indexRef' = [indexRef EXCEPT ![p] = i]
  /\ restart' = IF playing[p] THEN [restart EXCEPT ![p] = @ + 1] ELSE restart
  /\ UNCHANGED << open, unseen, strayed >>

(***************************************************************************)
(* Timers, clips and loops                                                 *)
(***************************************************************************)

\* The callback was made while playing was true.  Nothing clears the timer.
RestartFires(p) ==
  /\ restart[p] > 0
  /\ restart' = [restart EXCEPT ![p] = @ - 1]
  /\ Play(p, TRUE)
  /\ UNCHANGED << open, unseen, indexRef, told >>

ClipArrives(l) ==
  /\ loop[l] # NoLoop /\ loop[l].clip = "loading"
  /\ \E clip \in {"sounding", "over"} : loop' = [loop EXCEPT ![l].clip = clip]
  /\ UNCHANGED << open, unseen, indexRef, playing, playingRef, cancelRef, restart, told,
                  strayed >>

ClipEnds(l) ==
  /\ loop[l] # NoLoop /\ loop[l].clip = "sounding"
  /\ loop' = [loop EXCEPT ![l].clip = "over"]
  /\ UNCHANGED << open, unseen, indexRef, playing, playingRef, cancelRef, restart, told,
                  strayed >>

LoopGoesOn(l) ==
  /\ loop[l] # NoLoop /\ loop[l].clip = "over"
  /\ LET p == loop[l].panel IN
       IF loop[l].at < LastUnit /\ ~cancelRef[p]
       THEN /\ indexRef' = [indexRef EXCEPT ![p] = loop[l].at + 1]
            /\ Speak(l, p, loop[l].at + 1)
            /\ UNCHANGED << playing, playingRef, told, strayed >>
       ELSE /\ loop' = [loop EXCEPT ![l] = NoLoop]
            /\ told' = told \ {l}
            /\ strayed' = IF Running(p) = {l} THEN strayed \ {p} ELSE strayed
            /\ playingRef' = [playingRef EXCEPT ![p] = FALSE]
            /\ playing' = IF cancelRef[p] THEN playing ELSE [playing EXCEPT ![p] = FALSE]
            /\ UNCHANGED indexRef
  /\ UNCHANGED << open, unseen, cancelRef, restart >>

StoryNext ==
  \/ \E p \in Panels : OpenPanel(p)
  \/ \E p \in Panels : LeaveScreenOf(p)
  \/ \E p \in Panels : TogglePlay(p)
  \/ \E p \in Panels, i \in Units : SeekTo(p, i)
  \/ \E p \in Panels : RestartFires(p)
  \/ \E l \in Loops : ClipArrives(l)
  \/ \E l \in Loops : ClipEnds(l)
  \/ \E l \in Loops : LoopGoesOn(l)

\* Clips arrive or fail, end or are given up by their own timer, and timers fire.
StoryFairness ==
  /\ \A p \in Panels : WF_storyVars(RestartFires(p))
  /\ \A l \in Loops : WF_storyVars(ClipArrives(l) \/ ClipEnds(l) \/ LoopGoesOn(l))

StorySpec == StoryInit /\ [][StoryNext]_storyVars /\ StoryFairness

StoryTypeOK ==
  /\ open \in Panels \cup {NoPanel} /\ unseen \subseteq Panels
  /\ indexRef \in [Panels -> Units] /\ restart \in [Panels -> 0 .. MaxRestarts]
  /\ playing \in [Panels -> BOOLEAN]
  /\ playingRef \in [Panels -> BOOLEAN] /\ cancelRef \in [Panels -> BOOLEAN]
  /\ loop \in [Loops -> [panel : Panels, at : Units, clip : {"loading", "sounding", "over"}]
                        \cup {NoLoop}]
  /\ told \subseteq Loops /\ strayed \subseteq Panels

(***************************************************************************)
(* Properties                                                              *)
(***************************************************************************)

\* What the learner hears is what is shown: while the panel offers to pause exactly one
\* loop speaks for it, from the sentence it shows, and else none; a loop told to stop
\* finds its cancelRef set.  Except where a pause or a seek was followed by play before
\* the loop it stopped had looked (strayed): that one then plays on beside the new one.
OneLoopSpeaks ==
  \A p \in Panels :
    open = p /\ p \notin strayed =>
      LET live == Running(p) \ told IN
        /\ playing[p] <=> live # {}
        /\ \A l \in live : loop[l].at = indexRef[p] /\ \A k \in live : k = l
        /\ Running(p) \cap told # {} => cancelRef[p]

\* Playback neither sticks nor stops for good: the pause button goes back to play when
\* the story has been spoken to its end, whichever clips fail; after a seek while playing
\* the story plays on, unless the learner leaves; and what plays is what is shown.
PlaybackGoesOn ==
  /\ []OneLoopSpeaks
  /\ \A p \in Panels :
       /\ (open = p /\ playing[p]) ~> (open # p \/ ~playing[p])
       /\ (open = p /\ restart[p] > 0) ~> (open # p \/ playing[p])
=============================================================================

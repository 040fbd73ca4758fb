------------------------------ MODULE LessonChat ------------------------------
(***************************************************************************)
(* The chat screen around the live conversation: when it opens a session,  *)
(* which conversation of the backend the session is kept in, and how the   *)
(* turns of the transcript get there.  mobile/src/screens/ChatScreen.tsx   *)
(* over what mobile/src/voice/useVoiceConversation.ts returns.             *)
(*                                                                         *)
(* What the screen started goes on when the screen is gone: a conversation *)
(* being created, a session being opened.  Each such task belongs to the   *)
(* visit that started it, and so do its refs.  A turn is a message of the  *)
(* transcript; its id is never used again.                                 *)
(***************************************************************************)
EXTENDS Naturals, FiniteSets

CONSTANTS
  Turns,            (* Messages said or typed.                                *)
  ChatTasks,        (* Starts, drafts and corrections under way at a time.    *)
  MaxVisits,        (* How often the screen is mounted.                       *)
  MaxConversations  (* How many conversations the backend creates.            *)

ASSUME LessonChatBounds == {MaxVisits, MaxConversations} \subseteq Nat

VARIABLES
  visit, here,      (* The screen's mounts so far; it is mounted.             *)
  primerSeen, primer,                 (* On the device; the primer is shown.  *)
  page,             (* "talk" or "history", its list or one of its entries.   *)
  draft,            (* The composer holds a draft.                            *)
  status, withMic,  (* Of the voice hook of this visit.                       *)
  live,             (* Visits whose session is open: its handlers are there.  *)
  stopping,         (* Visits with a stop that awaits the recorder.           *)
  transcript,       (* What has become of each turn.                          *)
  conversation,     (* conversationIdRef of each visit; 0: none.              *)
  conversations,    (* Created so far.                                        *)
  marked,           (* persistedMessagesRef.                                  *)
  saves,            (* Turns on their way, each to a conversation.            *)
  calledBack,       (* The save whose callbacks are still to be called.       *)
  kept,             (* Server: how often a turn is in a conversation.         *)
  doubtful,         (* History: turns stored by a call that seemed to fail.   *)
  task              (* What each task awaits, why, and of which visit.        *)

screenVars == << visit, here, primerSeen, primer, page, draft >>
voiceVars == << status, withMic, live, stopping, transcript >>
savingVars == << marked, saves, calledBack, kept, doubtful >>
chatVars == << screenVars, voiceVars, conversation, conversations, savingVars, task >>

Conversations == 1 .. MaxConversations
Pages == {"talk", "history"}
NoTask == [awaits |-> "nothing", why |-> "none", visit |-> 0]
NoSave == << "none", 0 >>
InVisit(v) == here /\ v = visit
OfThisVisit(t) == InVisit(task[t].visit)

\* 'connected' is a session without the microphone.
LiveActive == status = "connecting" \/ (status = "up" /\ withMic)
GlobeActive == LiveActive \/ status = "up"

(***************************************************************************)
(* The voice hook                                                          *)
(***************************************************************************)

\* The session's handlers stay until the recorder has stopped.
VoiceStop == status' = "idle" /\ stopping' = stopping \cup {visit} /\ UNCHANGED live

\* Stops that overlap are over with the last of them.
TeardownEnds(v) ==
  /\ v \in stopping
  /\ stopping' = stopping \ {v} /\ live' = live \ {v}
  /\ UNCHANGED << screenVars, status, withMic, transcript, conversation, conversations,
                  savingVars, task >>

\* openSession stops what there is before anything else, and awaits that stop itself.
OpenSession(t, why, v) ==
  /\ task' = [task EXCEPT ![t] = [awaits |-> "stop", why |-> why, visit |-> v]]
  /\ status' = IF InVisit(v) THEN "idle" ELSE status
  /\ UNCHANGED << withMic, live, stopping, transcript >>

Cleared == [n \in Turns |-> IF transcript[n] = "unsaid" THEN "unsaid" ELSE "gone"]

SessionStopped(t) ==
  /\ task[t].awaits = "stop"
  /\ live' = live \ {task[t].visit}
  /\ task' = [task EXCEPT ![t].awaits = "session"]
  /\ IF OfThisVisit(t)
     THEN transcript' = Cleared /\ status' = "connecting" /\ withMic' = (task[t].why = "start")
     ELSE UNCHANGED << transcript, status, withMic >>
  /\ UNCHANGED << screenVars, stopping, conversation, conversations, savingVars >>

\* A typed message shows in the transcript once its session is being opened.
TypesOut(n) == transcript[n] = "unsaid" /\ transcript' = [transcript EXCEPT ![n] = "final"]

\* The socket opens, whatever has happened since it was asked for.
SessionComesUp(t, n) ==
  /\ task[t].awaits = "session"
  /\ live' = live \cup {task[t].visit}
  /\ task' = [task EXCEPT ![t] = NoTask]
  /\ IF OfThisVisit(t)
     THEN /\ status' = "up"
          /\ IF task[t].why = "draft" THEN TypesOut(n) ELSE UNCHANGED transcript
     ELSE UNCHANGED << status, transcript >>
  /\ UNCHANGED << screenVars, withMic, stopping, conversation, conversations, savingVars >>

\* The microphone or the client secret is refused; a typed message goes back.
SessionFails(t) ==
  /\ task[t].awaits = "session"
  /\ task' = [task EXCEPT ![t] = NoTask]
  /\ IF OfThisVisit(t)
     THEN status' = "error" /\ draft' = (draft \/ task[t].why = "draft")
     ELSE UNCHANGED << status, draft >>
  /\ UNCHANGED << visit, here, primerSeen, primer, page, withMic, live, stopping,
                  transcript, conversation, conversations, savingVars >>

\* The socket dies or is closed; what held the microphone is then stopped.
SessionEnds(v) ==
  /\ v \in live
  /\ live' = live \ {v} /\ stopping' = stopping \cup {v}
  /\ status' \in IF InVisit(v) THEN {"error"} \cup ({status} \cap {"idle"}) ELSE {status}
  /\ UNCHANGED << screenVars, withMic, transcript, conversation, conversations, savingVars,
                  task >>

\* The deltas of a turn, and the event that completes it; until the handlers are gone
\* an event of a session being stopped shows that session again.
TurnGrows(n) ==
  /\ here /\ visit \in live
  /\ \/ transcript[n] = "unsaid" /\ transcript' = [transcript EXCEPT ![n] = "partial"]
     \/ transcript[n] = "partial" /\ transcript' = [transcript EXCEPT ![n] = "final"]
  /\ status' \in {status, "up"}
  /\ UNCHANGED << screenVars, withMic, live, stopping, conversation, conversations, savingVars,
                  task >>

(***************************************************************************)
(* The conversation of the backend                                         *)
(***************************************************************************)

\* What follows ensureConversation: the session, the typed message, the correction.
AfterConversation(t, why, v, n) ==
  CASE why = "start" -> OpenSession(t, why, v)
    [] why = "draft" ->
         IF v \notin live /\ (~InVisit(v) \/ status \in {"idle", "error"})
         THEN OpenSession(t, why, v)
         ELSE /\ IF InVisit(v) THEN TypesOut(n) ELSE UNCHANGED transcript
              /\ task' = [task EXCEPT ![t] = NoTask]
              /\ UNCHANGED << status, withMic, live, stopping >>
    [] why = "correction" -> task' = [task EXCEPT ![t] = NoTask] /\ UNCHANGED voiceVars

\* ensureConversation: nothing says that one is being created already.
EnsureConversation(t, why, v, n) ==
  /\ task[t] = NoTask
  /\ IF conversation[v] # 0 THEN AfterConversation(t, why, v, n)
     ELSE /\ task' = [task EXCEPT ![t] =
                        [awaits |-> "conversation", why |-> why, visit |-> v]]
          /\ UNCHANGED voiceVars

ConversationCreated(t, n) ==
  /\ task[t].awaits = "conversation"
  /\ conversations < MaxConversations
  /\ conversations' = conversations + 1
  /\ conversation' = [conversation EXCEPT ![task[t].visit] = conversations']
  /\ AfterConversation(t, task[t].why, task[t].visit, n)
  /\ UNCHANGED << screenVars, savingVars >>

\* Offline: the voice still works, nothing is kept.
ConversationFails(t, n) ==
  /\ task[t].awaits = "conversation"
  /\ AfterConversation(t, task[t].why, task[t].visit, n)
  /\ UNCHANGED << screenVars, conversation, conversations, savingVars >>

(***************************************************************************)
(* The transcript                                                          *)
(***************************************************************************)

Unsaved == {n \in Turns : transcript[n] = "final" /\ n \notin marked}

\* The effect after a render.  A turn is marked before its call is made; only the
\* last call has its callbacks called (useMutation).
MarkedOnSuccess(new) == marked
MarkedBefore(new) == marked \cup new

PersistTurns ==
  /\ here /\ conversation[visit] # 0 /\ Unsaved # {}
  /\ marked' = MarkedBefore(Unsaved)
  /\ saves' = saves \cup Unsaved \X {conversation[visit]}
  /\ calledBack' \in Unsaved \X {conversation[visit]}
  /\ UNCHANGED << screenVars, voiceVars, conversation, conversations, kept, doubtful, task >>

SaveArrives(s) ==
  /\ s \in saves
  /\ saves' = saves \ {s}
  /\ kept' = [kept EXCEPT ![s] = @ + 1]
  /\ calledBack' = IF s = calledBack THEN NoSave ELSE calledBack
  /\ UNCHANGED << screenVars, voiceVars, conversation, conversations, marked, doubtful, task >>

\* The call fails: before the backend stored the turn, or after.
SaveFails(s, stored) ==
  /\ s \in saves
  /\ s[1] \in doubtful => ~stored
  /\ saves' = saves \ {s}
  /\ kept' = IF stored THEN [kept EXCEPT ![s] = @ + 1] ELSE kept
  /\ doubtful' = IF stored THEN doubtful \cup {s[1]} ELSE doubtful
  /\ marked' = IF s = calledBack THEN marked \ {s[1]} ELSE marked
  /\ calledBack' = IF s = calledBack THEN NoSave ELSE calledBack
  /\ UNCHANGED << screenVars, voiceVars, conversation, conversations, task >>

(***************************************************************************)
(* The screen                                                              *)
(***************************************************************************)

\* The first start explains why the microphone is needed.
StartConversation(t, n) ==
  IF primerSeen THEN EnsureConversation(t, "start", visit, n) /\ UNCHANGED primer
  ELSE primer' = TRUE /\ UNCHANGED << voiceVars, task >>

\* Coming to a lesson starts it, on every mount with lessonPlanetId set.
Enter(t, toLesson) ==
  /\ ~here /\ visit < MaxVisits
  /\ here' = TRUE /\ visit' = visit + 1
  /\ page' = "talk" /\ draft' = FALSE
  /\ status' = "idle" /\ withMic' = TRUE
  /\ marked' = {} /\ calledBack' = NoSave
  /\ IF ~toLesson THEN primer' = FALSE /\ UNCHANGED task
     ELSE IF ~primerSeen THEN primer' = TRUE /\ UNCHANGED task
     ELSE /\ primer' = FALSE
          /\ task[t] = NoTask
          /\ task' = [task EXCEPT ![t] =
                        [awaits |-> "conversation", why |-> "start", visit |-> visit']]
  /\ UNCHANGED << primerSeen, live, stopping, transcript, conversation, conversations, saves,
                  kept, doubtful >>

\* Unmounting stops what is open; tool calls go on until the recorder has stopped.
LeaveChat ==
  /\ here /\ here' = FALSE
  /\ VoiceStop /\ primer' = FALSE /\ transcript' = Cleared
  /\ calledBack' = NoSave /\ marked' = {}
  /\ UNCHANGED << visit, primerSeen, page, draft, withMic, conversation, conversations,
                  saves, kept, doubtful, task >>

\* The app leaves the foreground.
Backgrounded ==
  /\ here /\ status # "idle"
  /\ VoiceStop
  /\ UNCHANGED << screenVars, withMic, transcript, conversation, conversations, savingVars,
                  task >>

Talking == here /\ page = "talk" /\ ~primer

\* The globe and the button of the composer; the latter is there without a draft.
OnOrbPress(t, n) ==
  /\ Talking
  /\ IF GlobeActive THEN VoiceStop /\ UNCHANGED << primer, task, withMic, transcript >>
     ELSE StartConversation(t, n)
  /\ UNCHANGED << visit, here, primerSeen, page, draft, conversation, conversations,
                  savingVars >>

\* In a session with the microphone on this only interrupts the tutor.
OnMicPress(t, n) ==
  /\ Talking /\ ~draft /\ ~(LiveActive /\ withMic)
  /\ StartConversation(t, n)
  /\ UNCHANGED << visit, here, primerSeen, page, draft, conversation, conversations,
                  savingVars >>

NewConversation ==
  /\ Talking
  /\ VoiceStop /\ marked' = {} /\ conversation' = [conversation EXCEPT ![visit] = 0]
  /\ UNCHANGED << screenVars, withMic, transcript, conversations, saves, calledBack, kept,
                  doubtful, task >>

AnswerPrimer(t, accepted, n) ==
  /\ here /\ primer
  /\ primerSeen' = TRUE /\ primer' = FALSE
  /\ IF accepted THEN EnsureConversation(t, "start", visit, n) ELSE UNCHANGED << voiceVars, task >>
  /\ UNCHANGED << visit, here, page, draft, conversation, conversations, savingVars >>

TypeDraft ==
  /\ Talking /\ ~draft /\ draft' = TRUE
  /\ UNCHANGED << visit, here, primerSeen, primer, page, voiceVars, conversation,
                  conversations, savingVars, task >>

SendDraft(t, n) ==
  /\ Talking /\ draft /\ draft' = FALSE
  /\ EnsureConversation(t, "draft", visit, n)
  /\ UNCHANGED << visit, here, primerSeen, primer, page, conversation, conversations,
                  savingVars >>

\* A tool call of the tutor.  A correction needs the conversation; the other calls touch
\* nothing of the chat.
OnToolCall(t, v, n) ==
  /\ v \in live
  /\ EnsureConversation(t, "correction", v, n)
  /\ UNCHANGED << screenVars, conversation, conversations, savingVars >>

\* The history takes the place of the globe and the composer.
Turn(to) ==
  /\ here /\ ~primer /\ page # to
  /\ page' = to
  /\ UNCHANGED << visit, here, primerSeen, primer, draft, voiceVars, conversation,
                  conversations, savingVars, task >>

ChatInit ==
  /\ visit = 0 /\ here = FALSE /\ primerSeen \in BOOLEAN /\ primer = FALSE
  /\ page = "talk" /\ draft = FALSE
  /\ status = "idle" /\ withMic = TRUE /\ live = {} /\ transcript = [n \in Turns |-> "unsaid"]
  /\ stopping = {}
  /\ conversation = [v \in 1 .. MaxVisits |-> 0] /\ conversations = 0
  /\ marked = {} /\ saves = {} /\ calledBack = NoSave
  /\ kept = [s \in Turns \X Conversations |-> 0] /\ doubtful = {}
  /\ task = [t \in ChatTasks |-> NoTask]

ChatNext ==
  \/ \E t \in ChatTasks :
       \/ SessionStopped(t) \/ SessionFails(t)
       \/ \E toLesson \in BOOLEAN : Enter(t, toLesson)
       \/ \E n \in Turns :
            \/ SessionComesUp(t, n) \/ ConversationCreated(t, n) \/ ConversationFails(t, n)
            \/ OnOrbPress(t, n) \/ OnMicPress(t, n)
            \/ \E accepted \in BOOLEAN : AnswerPrimer(t, accepted, n)
            \/ SendDraft(t, n)
            \/ \E v \in 1 .. MaxVisits : OnToolCall(t, v, n)
  \/ \E v \in 1 .. MaxVisits : SessionEnds(v) \/ TeardownEnds(v)
  \/ \E n \in Turns : TurnGrows(n)
  \/ PersistTurns
  \/ \E s \in saves : SaveArrives(s) \/ \E stored \in BOOLEAN : SaveFails(s, stored)
  \/ LeaveChat \/ Backgrounded \/ NewConversation \/ TypeDraft
  \/ \E to \in Pages : Turn(to)

ChatSpec == ChatInit /\ [][ChatNext]_chatVars

ChatTypeOK ==
  /\ visit \in 0 .. MaxVisits /\ {here, primerSeen, primer, draft, withMic} \subseteq BOOLEAN
  /\ page \in Pages
  /\ status \in {"idle", "connecting", "up", "error"}
  /\ live \cup stopping \subseteq 1 .. MaxVisits
  /\ transcript \in [Turns -> {"unsaid", "partial", "final", "gone"}]
  /\ conversations \in 0 .. MaxConversations
  /\ conversation \in [1 .. MaxVisits -> 0 .. conversations]
  /\ marked \cup doubtful \subseteq Turns /\ saves \subseteq Turns \X Conversations
  /\ calledBack \in saves \cup {NoSave}
  /\ kept \in [Turns \X Conversations -> Nat]
  /\ task \in [ChatTasks -> [awaits : {"nothing", "conversation", "stop", "session"},
                             why : {"none", "start", "draft", "correction"},
                             visit : 0 .. MaxVisits]]

(***************************************************************************)
(* Properties                                                              *)
(***************************************************************************)

\* "Marked before the call so the effect cannot fire twice for the same line, and
\* released again if the write fails": over renders, failures, new conversations and
\* visits, no conversation holds a turn twice, unless a call that seemed to fail had
\* stored it.
KeptOncePerConversation ==
  \A s \in Turns \X Conversations : kept[s] <= 1 \/ s[1] \in doubtful

\* "The persisted-message bookkeeping resets here without old turns being re-sent", says
\* newConversation: a turn is kept in one conversation only.
NotResent ==
  \A n \in Turns : Cardinality({c \in Conversations : kept[<< n, c >>] > 0}) <= 1
=============================================================================

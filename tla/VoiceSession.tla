----------------------------- MODULE VoiceSession ------------------------------
(***************************************************************************)
(* The live conversation of the mobile app                                 *)
(* (mobile/src/voice/useVoiceConversation.ts): the recorder, the Realtime  *)
(* socket, the status the screen shows, and the messages typed meanwhile.  *)
(*                                                                         *)
(* JavaScript runs one turn at a time; an action is a turn, from an event  *)
(* or the end of an await to the next await on something outside.  Awaiting*)
(* playback being cleared is no such thing: it resolves in the same turn.  *)
(* Teardowns and openings are the asynchronous functions in progress; each *)
(* works on whatever the refs hold when its turn comes.                    *)
(***************************************************************************)
EXTENDS Naturals, Sequences

CONSTANTS
  Tasks,            (* Teardowns and openings that can be in progress.       *)
  MaxSockets,       (* How many sockets are opened, one after another.       *)
  MaxText           (* How many messages the learner types.                  *)

ASSUME BoundsAssumption == MaxText \in Nat /\ MaxSockets \in Nat
ASSUME StartIsNoTask    == "start" \notin Tasks

VARIABLES
  status,           (* statusRef.                                            *)
  ws,               (* wsRef: a socket, or 0.                                *)
  socket,           (* What has become of each socket.                       *)
  active,           (* realtimeAudioPlayer.sessionActive.                    *)
  withMic,          (* recordEnabledRef.                                     *)
  mic,              (* The microphone is recording.                          *)
  queue,            (* Recorder calls in progress: "start", or the teardown  *)
                    (* whose stopRecording it is.                            *)
  pc,               (* The await each task stands at.                        *)
  goal,             (* "stop", or the session an opening is to open.         *)
  text,             (* The message whose sendText awaits an opening.         *)
  pending,          (* pendingTextsRef.                                      *)
  foreground,       (* AppState is 'active'.                                 *)
  \* History
  typed,            (* The messages typed: 1..typed.                         *)
  sent,             (* Those sent, in order.                                 *)
  accepted,         (* Those whose sendText returned true.                   *)
  overtaken,        (* Openings during which another session, a stop or the  *)
                    (* background was asked for.                             *)
  raced             (* One of those went on to connect all the same, or a    *)
                    (* session came up while it was torn down.               *)

resources == << ws, socket, active, withMic, mic, queue >>
tasks     == << pc, goal, text >>
texts     == << pending, typed, sent, accepted >>
races     == << overtaken, raced >>
vars      == << status, resources, tasks, texts, foreground, races >>

Sockets   == 1..MaxSockets
Live(s)   == socket[s] \in {"opening", "open", "up"}
IsOpen(s) == socket[s] \in {"open", "up"}
HasOpen   == \E s \in Sockets : s = ws /\ IsOpen(s)
Openings  == {t \in Tasks : pc[t] # "idle" /\ goal[t] # "stop"}

\* What the status goes back to when nobody speaks.
Resting == IF withMic THEN "listening" ELSE "connected"

(***************************************************************************)
(* Tearing down                                                            *)
(***************************************************************************)

\* teardownSession, up to its await of stopRecording.
Teardown(t, g) ==
  /\ pc[t] = "idle"
  /\ pc'     = [pc   EXCEPT ![t] = "stopping"]
  /\ goal'   = [goal EXCEPT ![t] = g]
  /\ queue'  = Append(queue, t)
  /\ active' = FALSE
  /\ overtaken' = overtaken \cup Openings \cup IF foreground THEN {} ELSE {t}
  /\ UNCHANGED << ws, withMic, mic, raced >>

StopInternal(t, g) == status' = "idle" /\ Teardown(t, g)

\* stop: the globe, a new conversation, leaving the screen.
Stop(t) ==
  /\ StopInternal(t, "stop")
  /\ UNCHANGED << socket, text, texts, foreground >>

\* The AppState listener.
NeverStops        == FALSE
StopsInBackground == status # "idle"

Background ==
  /\ foreground
  /\ foreground' = FALSE
  /\ IF StopsInBackground
       THEN \E t \in Tasks : StopInternal(t, "stop") /\ UNCHANGED << socket, text, texts >>
       ELSE /\ overtaken' = overtaken \cup Openings
            /\ UNCHANGED << status, resources, tasks, texts, raced >>

Foreground ==
  /\ ~ foreground
  /\ foreground' = TRUE
  /\ UNCHANGED << status, resources, tasks, texts, races >>

(***************************************************************************)
(* Opening a session                                                       *)
(***************************************************************************)

\* start: openSession(true) begins by stopping whatever there is.  The screen
\* awaits its conversation first, so this can come in any state.
Start(t) ==
  /\ StopInternal(t, "talk")
  /\ UNCHANGED << socket, text, texts, foreground >>

EndTask(t) ==
  /\ pc'   = [pc   EXCEPT ![t] = "idle"]
  /\ text' = [text EXCEPT ![t] = 0]
  /\ goal' = [goal EXCEPT ![t] = "stop"]
  /\ overtaken' = overtaken \ {t}

\* The rest of sendText once its openSession returns, the status being st.
AnswersNothing(t, st) == accepted' = accepted \cup {text[t]} /\ UNCHANGED pending
Answer(t, st) ==
  IF text[t] # 0 /\ st = "error"
    THEN pending' = << >> /\ UNCHANGED accepted
    ELSE accepted' = (accepted \cup {text[t]}) \ {0} /\ UNCHANGED pending

Connecting(t) ==
  /\ status' = "connecting"
  /\ raced' = (raced \/ t \in overtaken)
  /\ UNCHANGED << goal, text, overtaken >>

\* stopRecording resolves; the teardown closes the socket it finds, and the
\* opening that called it, if any, goes on.
ForgetSocket == ws' = 0 /\ UNCHANGED socket
CloseSocket ==
  /\ socket' = [s \in Sockets |-> IF s = ws THEN "closed" ELSE socket[s]]
  /\ ws' = 0

StopRecorded(t) ==
  /\ queue # << >> /\ Head(queue) = t
  /\ queue' = Tail(queue)
  /\ mic' = FALSE
  /\ CloseSocket
  /\ \/ goal[t] = "stop" /\ EndTask(t) /\ UNCHANGED << status, withMic, raced >>
     \/ /\ goal[t] = "talk"
        /\ pc' = [pc EXCEPT ![t] = "permission"]
        /\ withMic' = TRUE
        /\ UNCHANGED << status, goal, text, races >>
     \/ /\ goal[t] = "type"
        /\ pc' = [pc EXCEPT ![t] = "secret"]
        /\ withMic' = FALSE
        /\ Connecting(t)
  /\ UNCHANGED << active, texts, foreground >>

Permission(t) ==
  /\ pc[t] = "permission"
  /\ \/ /\ pc' = [pc EXCEPT ![t] = "secret"]
        /\ Connecting(t)
     \/ EndTask(t) /\ status' = "error" /\ UNCHANGED raced
  /\ UNCHANGED << resources, texts, foreground >>

\* The client secret arrives: the session is "committed", whatever has
\* happened since it was asked for.
SecretArrives(t, s) ==
  /\ pc[t] = "secret"
  /\ \A r \in Sockets : socket[r] = "none" <=> r >= s
  /\ active' = TRUE
  /\ ws' = s
  /\ socket' = [socket EXCEPT ![s] = "opening"]
  /\ raced' = (raced \/ t \in overtaken)
  /\ Answer(t, status)
  /\ EndTask(t)
  /\ UNCHANGED << status, withMic, mic, queue, typed, sent, foreground >>

SecretFails(t) ==
  /\ pc[t] = "secret"
  /\ status' = "error"
  /\ Answer(t, "error")
  /\ EndTask(t)
  /\ UNCHANGED << resources, typed, sent, foreground, raced >>

\* A 401 signs the learner out: the screen goes, with the messages it held,
\* and stops what it had.
SecretDenied(t) ==
  /\ pc[t] = "secret"
  /\ status' = "idle"
  /\ pc'   = [pc   EXCEPT ![t] = "stopping"]
  /\ goal' = [goal EXCEPT ![t] = "stop"]
  /\ text' = [text EXCEPT ![t] = 0]
  /\ queue' = Append(queue, t)
  /\ active' = FALSE
  /\ overtaken' = (overtaken \cup Openings) \ {t}
  /\ pending' = << >> /\ accepted' = {}
  /\ UNCHANGED << ws, socket, withMic, mic, typed, sent, foreground, raced >>

(***************************************************************************)
(* The recorder                                                            *)
(***************************************************************************)

\* startRecording, called by session.updated, resolves or fails; the recorder
\* takes its calls in order.
RecordingStarts ==
  /\ queue # << >> /\ Head(queue) = "start"
  /\ queue' = Tail(queue)
  /\ mic' = TRUE
  /\ UNCHANGED << status, ws, socket, active, withMic, tasks, texts, foreground, races >>

RecordingFails ==
  /\ queue # << >> /\ Head(queue) = "start"
  /\ queue' = Tail(queue)
  /\ active' = FALSE
  /\ status' = "error"
  /\ UNCHANGED << ws, socket, withMic, mic, tasks, texts, foreground, races >>

(***************************************************************************)
(* The socket's events; any socket still has its handlers until teardown   *)
(* closes it, the one wsRef holds or not                                   *)
(***************************************************************************)

\* onopen sends what was typed meanwhile, in order.
StillPending == UNCHANGED pending
Flushed      == pending' = << >>

SocketOpens(s) ==
  /\ socket[s] = "opening"
  /\ socket' = [socket EXCEPT ![s] = "open"]
  /\ sent' = sent \o pending
  /\ Flushed
  /\ UNCHANGED << status, ws, active, withMic, mic, queue, tasks, typed, accepted,
                  foreground, races >>

\* session.updated: the microphone comes up with the session.
SessionUpdated(s) ==
  /\ socket[s] = "open"
  /\ socket' = [socket EXCEPT ![s] = "up"]
  /\ status' = Resting
  /\ queue' = IF withMic THEN Append(queue, "start") ELSE queue
  /\ raced' = (raced \/ \E t \in Tasks : pc[t] = "stopping")
  /\ UNCHANGED << ws, active, withMic, mic, tasks, texts, foreground, overtaken >>

\* response.output_audio.delta.
TutorSpeaks(s) ==
  /\ socket[s] = "up"
  /\ status' = "speaking"
  /\ UNCHANGED << resources, tasks, texts, foreground, races >>

\* response.output_audio.done; or speech_started, or interrupt.
TutorPauses(s) ==
  /\ socket[s] = "up"
  /\ status' = Resting
  /\ UNCHANGED << resources, tasks, texts, foreground, races >>

\* An error event: the end of a session that has not started yet.
ErrorEvent(s) ==
  /\ IsOpen(s)
  /\ status = "connecting"
  /\ active' = FALSE
  /\ CloseSocket
  /\ status' = "error"
  /\ UNCHANGED << withMic, mic, queue, tasks, texts, foreground, races >>

\* onerror and onclose, which come together; or onclose alone, which leaves an
\* idle screen alone.
StatusKept == {status}
Ended      == IF status = "idle" THEN {"idle", "error"} ELSE {"error"}

SocketDies(t, s) ==
  /\ Live(s)
  /\ socket' = [socket EXCEPT ![s] = "closed"]
  /\ status' \in Ended
  /\ Teardown(t, "stop")
  /\ UNCHANGED << text, texts, foreground >>

(***************************************************************************)
(* sendText                                                                *)
(***************************************************************************)

\* Into the open session, interrupting the tutor.
SendNow ==
  /\ typed < MaxText
  /\ HasOpen
  /\ typed' = typed + 1
  /\ sent' = Append(sent, typed + 1)
  /\ accepted' = accepted \cup {typed + 1}
  /\ status' = IF status = "speaking" THEN Resting ELSE status
  /\ UNCHANGED << resources, tasks, pending, foreground, races >>

\* Kept for the session that is coming up...
SendLater ==
  /\ typed < MaxText
  /\ ~ HasOpen
  /\ status \notin {"idle", "error"}
  /\ typed' = typed + 1
  /\ pending' = Append(pending, typed + 1)
  /\ accepted' = accepted \cup {typed + 1}
  /\ UNCHANGED << status, resources, tasks, sent, foreground, races >>

\* ... or for one opened for it, without the microphone.
SendFirst(t) ==
  /\ typed < MaxText
  /\ ~ HasOpen
  /\ status \in {"idle", "error"}
  /\ typed' = typed + 1
  /\ pending' = Append(pending, typed + 1)
  /\ StopInternal(t, "type")
  /\ text' = [text EXCEPT ![t] = typed + 1]
  /\ UNCHANGED << socket, sent, accepted, foreground >>

(***************************************************************************)
(* The specification                                                       *)
(***************************************************************************)

Init ==
  /\ status = "idle"
  /\ ws = 0 /\ socket = [s \in Sockets |-> "none"]
  /\ active = FALSE /\ withMic = TRUE /\ mic = FALSE /\ queue = << >>
  /\ pc = [t \in Tasks |-> "idle"]
  /\ goal = [t \in Tasks |-> "stop"]
  /\ text = [t \in Tasks |-> 0]
  /\ pending = << >> /\ typed = 0 /\ sent = << >> /\ accepted = {}
  /\ foreground = TRUE
  /\ overtaken = {} /\ raced = FALSE

Asked == Background \/ Foreground \/ SendNow \/ SendLater
           \/ \E t \in Tasks : Stop(t) \/ Start(t) \/ SendFirst(t)

Recorder == RecordingStarts \/ RecordingFails \/ \E t \in Tasks : StopRecorded(t)

Opening(t) ==
  \/ Permission(t) \/ SecretFails(t) \/ SecretDenied(t)
  \/ \E s \in Sockets : SecretArrives(t, s)

ComesUp(s) ==
  \/ SocketOpens(s) \/ SessionUpdated(s) \/ ErrorEvent(s)
  \/ \E t \in Tasks : SocketDies(t, s)

Next ==
  \/ Asked \/ Recorder
  \/ \E t \in Tasks : Opening(t)
  \/ \E s \in Sockets : ComesUp(s) \/ TutorSpeaks(s) \/ TutorPauses(s)

Spec == Init /\ [][Next]_vars

\* The recorder, the backend (the 60 seconds of doFetch), the dialog and the
\* Realtime service answer; a socket opens or dies, and says what became of
\* the session it was asked for.
FairSpec ==
  /\ Spec /\ WF_vars(Recorder)
  /\ \A t \in Tasks : WF_vars(Opening(t))
  /\ \A s \in Sockets : WF_vars(ComesUp(s))

(***************************************************************************)
(* Properties                                                              *)
(***************************************************************************)

Statuses == {"idle", "connecting", "listening", "speaking", "error", "connected"}

TypeOK ==
  /\ status \in Statuses
  /\ ws \in 0..MaxSockets
  /\ socket \in [Sockets -> {"none", "opening", "open", "up", "closed"}]
  /\ active \in BOOLEAN /\ withMic \in BOOLEAN /\ mic \in BOOLEAN
  /\ queue \in Seq(Tasks \cup {"start"})
  /\ pc \in [Tasks -> {"idle", "stopping", "permission", "secret"}]
  /\ goal \in [Tasks -> {"stop", "talk", "type"}]
  /\ text \in [Tasks -> 0..MaxText]
  /\ pending \in Seq(1..MaxText) /\ sent \in Seq(1..MaxText)
  /\ typed \in 0..MaxText /\ accepted \subseteq 1..MaxText
  /\ foreground \in BOOLEAN /\ overtaken \subseteq Tasks /\ raced \in BOOLEAN

Settled == queue = << >> /\ \A t \in Tasks : pc[t] = "idle"

\* Once the app has left the foreground and everything has settled, the
\* microphone is off and no socket is open, unless an opening was overtaken.
QuietInBackground ==
  ~ foreground /\ Settled /\ ~ raced => ~ mic /\ \A s \in Sockets : ~ Live(s)

\* With no session, nothing of one is held: no recorder, no muted chime, no
\* socket out of reach; unless an opening was overtaken.
NothingHeldWithoutSession ==
  ws = 0 /\ Settled /\ ~ raced
    => ~ mic /\ ~ active /\ \A s \in Sockets : ~ Live(s)

\* What is sent is sent once, in the order it was typed, however many sessions
\* come and go before one is up.
SentOnceInOrder == \A i, j \in 1..Len(sent) : i < j => sent[i] < sent[j]

\* The screen does not hang in 'connecting'; unless an opening was overtaken,
\* whose socket a teardown can close with nobody to tell.
ConnectingEnds == status = "connecting" ~> status # "connecting" \/ raced

\* "without this the microphone keeps streaming the learner's room to OpenAI
\* after they switch apps or lock the phone" (the AppState listener): when
\* everything has settled in the background, the microphone is off.
MicOffInBackground == ~ foreground /\ Settled => ~ mic

\* "An array, not a single slot, so rapid consecutive sends can't lose one"
\* (pendingTextsRef): an accepted message is sent or will be.
NoTextLost ==
  \A n \in accepted :
    \/ \E i \in 1..Len(sent) : sent[i] = n
    \/ \E i \in 1..Len(pending) : pending[i] = n
================================================================================

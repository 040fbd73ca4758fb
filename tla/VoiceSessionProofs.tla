-------------------------- MODULE VoiceSessionProofs ---------------------------
(***************************************************************************)
(* What VoiceSession promises whatever the number of tasks, sockets and    *)
(* messages: proofs for TLAPS.                                             *)
(*                                                                         *)
(* The recorder's queue orders the teardowns, and an opening that nothing  *)
(* has overtaken is the last to have joined it: when its teardown is over  *)
(* no other is left, nothing is held, and what comes up then is its own.   *)
(***************************************************************************)
EXTENDS VoiceSession, SequenceTheorems, TLAPS

Stopping == {t \in Tasks : pc[t] = "stopping"}
Sure     == Openings \ overtaken
InQueue(x) == \E i \in 1..Len(queue) : queue[i] = x

\* Each task has the await and the goal its step left it with.
TasksOK ==
  \A t \in Tasks :
    /\ pc[t] = "idle" => goal[t] = "stop" /\ text[t] = 0
    /\ pc[t] = "permission" => goal[t] = "talk"
    /\ pc[t] = "secret" => goal[t] # "stop"

\* The teardowns under way are the tasks in the recorder's queue, each once.
QueueOK ==
  /\ \A t \in Tasks : t \in Stopping <=> InQueue(t)
  /\ \A i, j \in 1..Len(queue) : queue[i] = queue[j] /\ queue[i] \in Tasks => i = j

\* An opening not overtaken is the only one; the app is in the foreground and no
\* teardown began after its own; past its own, none is left.
SureOK ==
  \A u \in Sure :
    /\ foreground
    /\ \A v \in Sure : v = u
    /\ \A i, j \in 1..Len(queue) : queue[i] = u /\ i < j => queue[j] = "start"
    /\ pc[u] # "stopping" => Stopping = {}
    /\ pc[u] # "stopping" /\ ~ raced => ws = 0
    /\ pc[u] = "secret" => status # "idle"

\* What is held, as long as no opening overtaken has connected.
OneSession == \A s \in Sockets : Live(s) => s = ws
StartsFirst ==
  \A i, j \in 1..Len(queue) : queue[i] \in Tasks /\ i < j => queue[j] # "start"
NotUpYet == status = "connecting" => Stopping = {} /\ \A s \in Sockets : socket[s] # "up"
MicIsSessions ==
  Stopping = {} /\ (mic \/ InQueue("start")) => \E s \in Sockets : s = ws /\ socket[s] = "up"
ActiveIsSessions == active => ws # 0 /\ Stopping = {}
IdleIsQuiet == Stopping = {} /\ (status = "idle" \/ ~ foreground) => ws = 0

HeldOK ==
  OneSession /\ StartsFirst /\ NotUpYet /\ MicIsSessions /\ ActiveIsSessions /\ IdleIsQuiet

\* The texts: those sent, then those pending, in the order typed; none is pending
\* while the session can take it.
Increasing(q) == \A i, j \in 1..Len(q) : i < j => q[i] < q[j]
TextsOK ==
  /\ Increasing(sent) /\ Increasing(pending)
  /\ \A i \in 1..Len(sent), j \in 1..Len(pending) : sent[i] < pending[j]
  /\ \A i \in 1..Len(sent) : sent[i] <= typed
  /\ \A i \in 1..Len(pending) : pending[i] <= typed
  /\ HasOpen => pending = << >>

IInv == TypeOK /\ TasksOK /\ QueueOK /\ SureOK /\ (~ raced => HeldOK) /\ TextsOK

(***************************************************************************)
(* Types                                                                   *)
(***************************************************************************)

LEMMA TeardownType ==
  ASSUME TypeOK, NEW t \in Tasks, NEW g \in {"stop", "talk", "type"}, Teardown(t, g)
  PROVE  /\ pc' \in [Tasks -> {"idle", "stopping", "permission", "secret"}]
         /\ goal' \in [Tasks -> {"stop", "talk", "type"}]
         /\ queue' \in Seq(Tasks \cup {"start"})
         /\ overtaken' \subseteq Tasks
PROOF
  BY DEF TypeOK, Teardown, Openings

LEMMA EndTaskType ==
  ASSUME TypeOK, NEW t \in Tasks, EndTask(t)
  PROVE  /\ pc' \in [Tasks -> {"idle", "stopping", "permission", "secret"}]
         /\ goal' \in [Tasks -> {"stop", "talk", "type"}]
         /\ text' \in [Tasks -> 0..MaxText]
         /\ overtaken' \subseteq Tasks
PROOF
  BY BoundsAssumption DEF TypeOK, EndTask

LEMMA AnswerType ==
  ASSUME TypeOK, NEW t \in Tasks, NEW st, Answer(t, st)
  PROVE  pending' \in Seq(1..MaxText) /\ accepted' \subseteq 1..MaxText
PROOF
  <1>1. text[t] \in 0..MaxText /\ accepted \subseteq 1..MaxText /\ pending \in Seq(1..MaxText)
    BY DEF TypeOK
  <1>2. (accepted \cup {text[t]}) \ {0} \subseteq 1..MaxText
    <2>1. text[t] \in (1..MaxText) \cup {0}
      BY <1>1, BoundsAssumption
    <2> QED
      BY <1>1, <2>1
  <1>3. << >> \in Seq(1..MaxText)
    OBVIOUS
  <1>4. \/ pending' = << >> /\ accepted' = accepted
        \/ accepted' = (accepted \cup {text[t]}) \ {0} /\ pending' = pending
    BY DEF Answer
  <1> QED
    BY <1>1, <1>2, <1>3, <1>4

LEMMA CloseSocketType ==
  ASSUME TypeOK, CloseSocket
  PROVE  /\ ws' \in 0..MaxSockets
         /\ socket' \in [Sockets -> {"none", "opening", "open", "up", "closed"}]
PROOF
  BY BoundsAssumption DEF TypeOK, CloseSocket

\* A head that leaves the recorder's queue leaves a queue.
LEMMA TailType ==
  ASSUME TypeOK, queue # << >>
  PROVE  Tail(queue) \in Seq(Tasks \cup {"start"})
PROOF
  BY HeadTailProperties DEF TypeOK

LEMMA TypeStep ==
  ASSUME TypeOK, [Next]_vars
  PROVE  TypeOK'
PROOF
  <1>0. MaxText \in Nat /\ MaxSockets \in Nat
    BY BoundsAssumption
  <1>1. ASSUME NEW t \in Tasks, Stop(t)
        PROVE  TypeOK'
    BY <1>1, TeardownType DEF Stop, StopInternal, Teardown, TypeOK, texts, Statuses
  <1>2. CASE Background
    <2>1. ASSUME NEW t \in Tasks, StopInternal(t, "stop"), UNCHANGED << socket, text, texts >>,
                 foreground' = FALSE
          PROVE  TypeOK'
      BY <2>1, TeardownType DEF StopInternal, Teardown, TypeOK, texts, Statuses
    <2>2. ASSUME overtaken' = overtaken \cup Openings, foreground' = FALSE,
                 UNCHANGED << status, resources, tasks, texts, raced >>
          PROVE  TypeOK'
      BY <2>2 DEF TypeOK, texts, tasks, resources, Openings
    <2> QED
      BY <1>2, <2>1, <2>2 DEF Background
  <1>3. CASE Foreground
    BY <1>3 DEF Foreground, TypeOK, texts, tasks, resources, races
  <1>4. ASSUME NEW t \in Tasks, Start(t)
        PROVE  TypeOK'
    BY <1>4, TeardownType DEF Start, StopInternal, Teardown, TypeOK, texts, Statuses
  <1>5. ASSUME NEW t \in Tasks, StopRecorded(t)
        PROVE  TypeOK'
    <2>1. /\ queue' \in Seq(Tasks \cup {"start"}) /\ mic' = FALSE
          /\ ws' \in 0..MaxSockets
          /\ socket' \in [Sockets -> {"none", "opening", "open", "up", "closed"}]
      BY <1>5, TailType, CloseSocketType DEF StopRecorded
    <2>2. CASE goal[t] = "stop" /\ EndTask(t) /\ UNCHANGED << status, withMic, raced >>
      BY <1>5, <2>1, <2>2, EndTaskType DEF StopRecorded, TypeOK, texts
    <2>3. CASE goal[t] = "talk" /\ pc' = [pc EXCEPT ![t] = "permission"] /\ withMic' = TRUE
               /\ UNCHANGED << status, goal, text, races >>
      BY <1>5, <2>1, <2>3 DEF StopRecorded, TypeOK, texts, races
    <2>4. CASE goal[t] = "type" /\ pc' = [pc EXCEPT ![t] = "secret"] /\ withMic' = FALSE
               /\ Connecting(t)
      BY <1>5, <2>1, <2>4 DEF StopRecorded, TypeOK, texts, Connecting, Statuses
    <2> QED
      BY <1>5, <2>2, <2>3, <2>4 DEF StopRecorded
  <1>6. ASSUME NEW t \in Tasks, Permission(t)
        PROVE  TypeOK'
    <2>1. CASE pc' = [pc EXCEPT ![t] = "secret"] /\ Connecting(t)
      BY <1>6, <2>1 DEF Permission, TypeOK, texts, resources, Connecting, Statuses
    <2>2. CASE EndTask(t) /\ status' = "error" /\ UNCHANGED raced
      BY <1>6, <2>2, EndTaskType DEF Permission, TypeOK, texts, resources, Statuses
    <2> QED
      BY <1>6, <2>1, <2>2 DEF Permission
  <1>7. ASSUME NEW t \in Tasks, NEW s \in Sockets, SecretArrives(t, s)
        PROVE  TypeOK'
    <2>1. EndTask(t) /\ Answer(t, status)
      BY <1>7 DEF SecretArrives
    <2> QED
      BY <1>0, <1>7, <2>1, EndTaskType, AnswerType DEF SecretArrives, TypeOK, Sockets
  <1>8. ASSUME NEW t \in Tasks, SecretFails(t)
        PROVE  TypeOK'
    <2>1. EndTask(t) /\ Answer(t, "error")
      BY <1>8 DEF SecretFails
    <2> QED
      BY <1>8, <2>1, EndTaskType, AnswerType DEF SecretFails, TypeOK, resources, Statuses
  <1>9. ASSUME NEW t \in Tasks, SecretDenied(t)
        PROVE  TypeOK'
    <2>1. pending' \in Seq(1..MaxText) /\ accepted' \subseteq 1..MaxText
      BY <1>9 DEF SecretDenied
    <2>2. text' \in [Tasks -> 0..MaxText]
      BY <1>0, <1>9 DEF SecretDenied, TypeOK
    <2>3. overtaken' \subseteq Tasks
      BY <1>9 DEF SecretDenied, TypeOK, Openings
    <2>4. queue' \in Seq(Tasks \cup {"start"})
      BY <1>9, AppendProperties DEF SecretDenied, TypeOK
    <2> QED
      BY <1>9, <2>1, <2>2, <2>3, <2>4 DEF SecretDenied, TypeOK, Statuses
  <1>10. CASE RecordingStarts \/ RecordingFails
    BY <1>10, TailType DEF RecordingStarts, RecordingFails, TypeOK, tasks, texts, races, Statuses
  <1>11. ASSUME NEW s \in Sockets, SocketOpens(s)
         PROVE  TypeOK'
    BY <1>11 DEF SocketOpens, Flushed, TypeOK, tasks, races
  <1>12. ASSUME NEW s \in Sockets, SessionUpdated(s)
         PROVE  TypeOK'
    BY <1>12 DEF SessionUpdated, TypeOK, tasks, texts, Resting, Statuses
  <1>13. ASSUME NEW s \in Sockets, TutorSpeaks(s) \/ TutorPauses(s)
         PROVE  TypeOK'
    BY <1>13 DEF TutorSpeaks, TutorPauses, TypeOK, resources, tasks, texts, races, Resting,
                 Statuses
  <1>14. ASSUME NEW s \in Sockets, ErrorEvent(s)
         PROVE  TypeOK'
    <2>1. CloseSocket
      BY <1>14 DEF ErrorEvent
    <2> QED
      BY <1>14, <2>1, CloseSocketType DEF ErrorEvent, TypeOK, tasks, texts, races, Statuses
  <1>15. ASSUME NEW t \in Tasks, NEW s \in Sockets, SocketDies(t, s)
         PROVE  TypeOK'
    <2>1. Teardown(t, "stop") /\ status' \in Statuses
      BY <1>15 DEF SocketDies, Ended, Statuses
    <2> QED
      BY <1>15, <2>1, TeardownType DEF SocketDies, Teardown, TypeOK, texts
  <1>16. CASE SendNow
    BY <1>0, <1>16 DEF SendNow, TypeOK, resources, tasks, races, Resting, Statuses
  <1>17. CASE SendLater
    BY <1>0, <1>17 DEF SendLater, TypeOK, resources, tasks, races
  <1>18. ASSUME NEW t \in Tasks, SendFirst(t)
         PROVE  TypeOK'
    <2>1. Teardown(t, "type") /\ status' \in Statuses
      BY <1>18 DEF SendFirst, StopInternal, Statuses
    <2>2. typed + 1 \in 1..MaxText
      BY <1>0, <1>18 DEF SendFirst, TypeOK
    <2>3. pending' \in Seq(1..MaxText) /\ typed' \in 0..MaxText
      BY <1>18, <2>2 DEF SendFirst, TypeOK
    <2>4. text' \in [Tasks -> 0..MaxText]
      BY <1>18, <2>2 DEF SendFirst, TypeOK
    <2> QED
      BY <1>18, <2>1, <2>3, <2>4, TeardownType DEF SendFirst, Teardown, TypeOK
  <1>19. CASE UNCHANGED vars
    BY <1>19 DEF vars, TypeOK, resources, tasks, texts, races
  <1> QED
    BY <1>1, <1>2, <1>3, <1>4, <1>5, <1>6, <1>7, <1>8, <1>9, <1>10, <1>11, <1>12, <1>13, <1>14,
       <1>15, <1>16, <1>17, <1>18, <1>19 DEF Next, Asked, Recorder, Opening, ComesUp

(***************************************************************************)
(* The recorder's queue                                                    *)
(***************************************************************************)

\* A call that joins the queue is its last.
LEMMA Appended ==
  ASSUME TypeOK, NEW x \in Tasks \cup {"start"}, queue' = Append(queue, x)
  PROVE  /\ Len(queue) \in Nat
         /\ Len(queue') = Len(queue) + 1
         /\ queue'[Len(queue) + 1] = x
         /\ \A i \in 1..Len(queue) : queue'[i] = queue[i]
PROOF
  <1>1. queue \in Seq(Tasks \cup {"start"})
    BY DEF TypeOK
  <1> QED
    BY <1>1, AppendProperties

\* When the first leaves it, the others move up.
LEMMA Popped ==
  ASSUME TypeOK, queue # << >>, queue' = Tail(queue)
  PROVE  /\ Len(queue) \in Nat \ {0}
         /\ Head(queue) = queue[1]
         /\ Len(queue') = Len(queue) - 1
         /\ \A i \in 1..Len(queue') : queue'[i] = queue[i + 1]
PROOF
  <1>1. queue \in Seq(Tasks \cup {"start"})
    BY DEF TypeOK
  <1>2. Len(queue) \in Nat /\ Len(queue) # 0
    BY <1>1, EmptySeq, LenProperties
  <1> QED
    BY <1>1, <1>2, HeadTailProperties

\* The teardown at its head leaves the queue and the awaits of stopRecording together.
LEMMA HeadStops ==
  ASSUME TypeOK, QueueOK, NEW t \in Tasks, queue # << >>, Head(queue) = t, queue' = Tail(queue)
  PROVE  /\ pc[t] = "stopping"
         /\ \A x : InQueue(x)' <=> InQueue(x) /\ x # t
PROOF
  <1> DEFINE n == Len(queue)
  <1>1. /\ n \in Nat \ {0} /\ queue[1] = t /\ Len(queue') = n - 1
        /\ \A i \in 1..(n - 1) : queue'[i] = queue[i + 1]
    BY Popped
  <1>2. InQueue(t)
    BY <1>1 DEF InQueue
  <1>3. \A i \in 1..n : i # 1 => queue[i] # t
    BY <1>1 DEF QueueOK
  <1>4. pc[t] = "stopping"
    BY <1>2 DEF QueueOK, Stopping
  <1>5. ASSUME NEW x, InQueue(x)'
        PROVE  InQueue(x) /\ x # t
    <2>1. PICK i \in 1..(n - 1) : queue[i + 1] = x
      BY <1>1, <1>5 DEF InQueue
    <2> QED
      BY <1>1, <1>3, <2>1 DEF InQueue
  <1>6. ASSUME NEW x, InQueue(x), x # t
        PROVE  InQueue(x)'
    <2>1. PICK i \in 1..n : queue[i] = x
      BY <1>6 DEF InQueue
    <2>2. i - 1 \in 1..(n - 1) /\ queue'[i - 1] = x
      BY <1>1, <1>6, <2>1
    <2> QED
      BY <1>1, <2>2 DEF InQueue
  <1> QED
    BY <1>4, <1>5, <1>6

\* A teardown that begins joins the queue and those that await stopRecording.
LEMMA JoinsQueue ==
  ASSUME TypeOK, QueueOK, NEW t \in Tasks, pc[t] # "stopping",
         pc' = [pc EXCEPT ![t] = "stopping"], queue' = Append(queue, t)
  PROVE  /\ QueueOK'
         /\ Stopping' = Stopping \cup {t}
         /\ \A x : InQueue(x)' <=> InQueue(x) \/ x = t
PROOF
  <1> DEFINE n == Len(queue)
  <1>1. /\ n \in Nat /\ Len(queue') = n + 1 /\ queue'[n + 1] = t
        /\ \A i \in 1..n : queue'[i] = queue[i]
    BY Appended
  <1>2. \A i \in 1..n : queue[i] # t
    BY DEF QueueOK, InQueue, Stopping
  <1>3. Stopping' = Stopping \cup {t}
    BY DEF Stopping, TypeOK
  <1>4. ASSUME NEW x
        PROVE  InQueue(x)' <=> InQueue(x) \/ x = t
    BY <1>1 DEF InQueue
  <1>5. \A i, j \in 1..Len(queue') : queue'[i] = queue'[j] /\ queue'[i] \in Tasks => i = j
    BY <1>1, <1>2 DEF QueueOK
  <1>6. \A x \in Tasks : x \in Stopping' <=> InQueue(x)'
    BY <1>3, <1>4 DEF QueueOK
  <1> QED
    BY <1>3, <1>4, <1>5, <1>6 DEF QueueOK

\* A call of startRecording leaves the teardowns where they are.
LEMMA StartJoins ==
  ASSUME TypeOK, QueueOK, queue' = Append(queue, "start"), UNCHANGED pc
  PROVE  QueueOK' /\ Stopping' = Stopping
PROOF
  <1> DEFINE n == Len(queue)
  <1>1. /\ n \in Nat /\ Len(queue') = n + 1 /\ queue'[n + 1] = "start"
        /\ \A i \in 1..n : queue'[i] = queue[i]
    BY Appended
  <1>2. Stopping' = Stopping
    BY DEF Stopping
  <1>3. ASSUME NEW x \in Tasks
        PROVE  InQueue(x)' <=> InQueue(x)
    BY <1>1, StartIsNoTask DEF InQueue
  <1>4. \A i, j \in 1..Len(queue') : queue'[i] = queue'[j] /\ queue'[i] \in Tasks => i = j
    BY <1>1, StartIsNoTask DEF QueueOK
  <1> QED
    BY <1>2, <1>3, <1>4 DEF QueueOK

LEMMA StartLeaves ==
  ASSUME TypeOK, QueueOK, queue # << >>, Head(queue) = "start", queue' = Tail(queue), UNCHANGED pc
  PROVE  /\ QueueOK'
         /\ Stopping' = Stopping
         /\ InQueue("start")
         /\ \A x : InQueue(x)' => InQueue(x)
PROOF
  <1> DEFINE n == Len(queue)
  <1>1. /\ n \in Nat \ {0} /\ queue[1] = "start" /\ Len(queue') = n - 1
        /\ \A i \in 1..(n - 1) : queue'[i] = queue[i + 1]
    BY Popped
  <1>2. Stopping' = Stopping
    BY DEF Stopping
  <1>3. ASSUME NEW x, InQueue(x)'
        PROVE  InQueue(x)
    <2>1. PICK i \in 1..(n - 1) : queue[i + 1] = x
      BY <1>1, <1>3 DEF InQueue
    <2> QED
      BY <1>1, <2>1 DEF InQueue
  <1>4. ASSUME NEW x \in Tasks, InQueue(x)
        PROVE  InQueue(x)'
    <2>1. PICK i \in 1..n : queue[i] = x
      BY <1>4 DEF InQueue
    <2>2. i - 1 \in 1..(n - 1) /\ queue'[i - 1] = x
      BY <1>1, <2>1, StartIsNoTask
    <2> QED
      BY <1>1, <2>2 DEF InQueue
  <1>5. ASSUME NEW i \in 1..(n - 1), NEW j \in 1..(n - 1), queue'[i] = queue'[j], queue'[i] \in Tasks
        PROVE  i = j
    <2>1. i + 1 \in 1..n /\ j + 1 \in 1..n /\ queue[i + 1] = queue[j + 1] /\ queue[i + 1] \in Tasks
      BY <1>1, <1>5
    <2>2. i + 1 = j + 1
      BY <2>1 DEF QueueOK
    <2> QED
      BY <2>2
  <1>6. InQueue("start")
    BY <1>1 DEF InQueue
  <1>7. QueueOK'
    BY <1>1, <1>2, <1>3, <1>4, <1>5 DEF QueueOK
  <1> QED
    BY <1>2, <1>3, <1>6, <1>7

(***************************************************************************)
(* Teardowns and openings                                                  *)
(***************************************************************************)

\* What the recorder's queue, the teardowns and the openings come to.
Flow == TasksOK /\ QueueOK /\ SureOK

\* A teardown overtakes every opening: if one begins with it, it is the only one that
\* nothing has overtaken.
LEMMA TeardownFlow ==
  ASSUME TypeOK, TypeOK', Flow, NEW t \in Tasks, NEW g \in {"stop", "talk", "type"},
         Teardown(t, g), foreground' = foreground \/ g = "stop",
         \A x \in Tasks : x # t => text'[x] = text[x]
  PROVE  /\ Flow'
         /\ Stopping' = Stopping \cup {t}
         /\ \A x : InQueue(x)' <=> InQueue(x) \/ x = t
PROOF
  <1> USE DEF Flow
  <1>1. /\ QueueOK' /\ Stopping' = Stopping \cup {t}
        /\ \A x : InQueue(x)' <=> InQueue(x) \/ x = t
    BY JoinsQueue DEF Teardown
  <1>2. TasksOK'
    BY DEF Teardown, TasksOK, TypeOK
  <1>3. ASSUME NEW u \in Sure'
        PROVE  u = t /\ foreground /\ g # "stop"
    <2>1. u \in Tasks /\ pc'[u] # "idle" /\ goal'[u] # "stop" /\ u \notin overtaken'
      BY <1>3 DEF Sure, Openings
    <2>2. u = t
      BY <2>1 DEF Teardown, Openings, TypeOK
    <2> QED
      BY <2>1, <2>2 DEF Teardown, TypeOK
  <1>4. pc'[t] = "stopping" /\ ~ InQueue(t)
    BY DEF Teardown, TypeOK, QueueOK, Stopping
  <1>5. \A i, j \in 1..Len(queue') : queue'[i] = t /\ i < j => queue'[j] = "start"
    <2>1. /\ Len(queue) \in Nat /\ Len(queue') = Len(queue) + 1
          /\ \A i \in 1..Len(queue) : queue'[i] = queue[i]
      BY Appended DEF Teardown
    <2> QED
      BY <1>4, <2>1 DEF InQueue
  <1>6. SureOK'
    BY <1>3, <1>4, <1>5 DEF SureOK
  <1> QED
    BY <1>1, <1>2, <1>6

\* A step that leaves the tasks and the queue alone, overtakes openings if any, and
\* neither makes the screen idle nor opens a session.
LEMMA QuietFlow ==
  ASSUME TypeOK, Flow, UNCHANGED << queue, pc, goal, text >>, overtaken \subseteq overtaken',
         foreground' \/ foreground' = foreground \/ Sure' = {},
         raced => raced', ws' = ws \/ ws' = 0, status' = "idle" => status = "idle"
  PROVE  Flow'
PROOF
  <1>1. Stopping' = Stopping /\ Openings' = Openings
    BY DEF Stopping, Openings
  <1>2. Sure' \subseteq Sure
    BY <1>1 DEF Sure
  <1>3. TasksOK' /\ QueueOK'
    BY <1>1 DEF Flow, TasksOK, QueueOK, InQueue
  <1>4. SureOK'
    BY <1>1, <1>2 DEF Flow, SureOK
  <1> QED
    BY <1>3, <1>4 DEF Flow

\* A task past its own teardown ends, or goes on to the next await.
LEMMA PastFlow ==
  ASSUME TypeOK, TypeOK', Flow, NEW t \in Tasks, pc[t] \in {"permission", "secret"},
         \/ EndTask(t) /\ (status' = status \/ status' # "idle")
         \/ /\ pc[t] = "permission" /\ pc' = [pc EXCEPT ![t] = "secret"]
            /\ status' # "idle" /\ UNCHANGED << goal, text, overtaken >>,
         UNCHANGED << queue, foreground >>, raced => raced',
         ws' = ws \/ raced' \/ (t \notin overtaken /\ EndTask(t))
  PROVE  Flow' /\ Stopping' = Stopping
PROOF
  <1> USE DEF Flow
  <1>1. Stopping' = Stopping
    BY DEF Stopping, EndTask, TypeOK
  <1>2. TasksOK'
    <2>1. CASE EndTask(t)
      BY <2>1 DEF TasksOK, EndTask, TypeOK
    <2>2. CASE pc[t] = "permission" /\ pc' = [pc EXCEPT ![t] = "secret"] /\ UNCHANGED << goal, text >>
      BY <2>2 DEF TasksOK, TypeOK
    <2> QED
      BY <2>1, <2>2
  <1>3. QueueOK'
    BY <1>1 DEF QueueOK, InQueue
  <1>4. t \in Openings
    BY DEF Openings, TasksOK
  <1>5. ASSUME NEW u \in Sure'
        PROVE  /\ u \in Sure
               /\ EndTask(t) => u # t /\ pc'[u] = pc[u]
               /\ pc'[u] # "stopping" => pc[u] # "stopping"
               /\ pc'[u] = "secret" /\ pc[u] # "secret" => status' # "idle"
    BY <1>5 DEF Sure, Openings, EndTask, TypeOK
  <1>6. ASSUME NEW u \in Sure'
        PROVE  /\ foreground'
               /\ \A v \in Sure' : v = u
               /\ \A i, j \in 1..Len(queue') : queue'[i] = u /\ i < j => queue'[j] = "start"
               /\ pc'[u] # "stopping" => Stopping' = {}
    BY <1>1, <1>5, <1>6 DEF SureOK
  <1>7. ASSUME NEW u \in Sure', pc'[u] # "stopping", ~ raced'
        PROVE  ws' = 0
    <2>1. ws = 0
      BY <1>5, <1>7 DEF SureOK
    <2>2. ~ (t \notin overtaken /\ EndTask(t))
      BY <1>4, <1>5, <1>7 DEF SureOK, Sure
    <2> QED
      BY <1>7, <2>1, <2>2
  <1>8. ASSUME NEW u \in Sure', pc'[u] = "secret"
        PROVE  status' # "idle"
    BY <1>5, <1>8 DEF SureOK
  <1>9. SureOK'
    BY <1>6, <1>7, <1>8 DEF SureOK
  <1> QED
    BY <1>1, <1>2, <1>3, <1>9

\* A teardown whose stopRecording is over ends, or its opening goes on: the one that
\* nothing has overtaken finds no other teardown in the queue.
LEMMA StopRecordedFlow ==
  ASSUME TypeOK, TypeOK', Flow, NEW t \in Tasks, StopRecorded(t)
  PROVE  /\ Flow'
         /\ Stopping' = Stopping \ {t} /\ t \in Stopping
         /\ \A x : InQueue(x)' <=> InQueue(x) /\ x # t
         /\ t \in Sure => Stopping' = {}
PROOF
  <1> USE DEF Flow
  <1>1. /\ queue # << >> /\ Head(queue) = t /\ queue' = Tail(queue)
        /\ ws' = 0 /\ UNCHANGED foreground
        /\ \/ goal[t] = "stop" /\ EndTask(t) /\ UNCHANGED << status, raced >>
           \/ goal[t] = "talk" /\ pc' = [pc EXCEPT ![t] = "permission"]
              /\ UNCHANGED << status, goal, text, races >>
           \/ goal[t] = "type" /\ pc' = [pc EXCEPT ![t] = "secret"] /\ Connecting(t)
    BY DEF StopRecorded, CloseSocket
  <1>2. pc[t] = "stopping" /\ \A x : InQueue(x)' <=> InQueue(x) /\ x # t
    BY <1>1, HeadStops
  <1>3. /\ Len(queue) \in Nat \ {0} /\ queue[1] = t /\ Len(queue') = Len(queue) - 1
        /\ \A i \in 1..Len(queue') : queue'[i] = queue[i + 1]
    BY <1>1, Popped
  <1>4. Stopping' = Stopping \ {t} /\ t \in Stopping
    BY <1>1, <1>2 DEF Stopping, EndTask, Connecting, TypeOK
  <1>5. TasksOK'
    BY <1>1, <1>2 DEF TasksOK, EndTask, Connecting, TypeOK
  <1>6. ASSUME NEW i \in 1..Len(queue'), NEW j \in 1..Len(queue'), queue'[i] = queue'[j],
               queue'[i] \in Tasks
        PROVE  i = j
    <2>1. i + 1 \in 1..Len(queue) /\ j + 1 \in 1..Len(queue)
          /\ queue[i + 1] = queue[j + 1] /\ queue[i + 1] \in Tasks
      BY <1>3, <1>6
    <2>2. i + 1 = j + 1
      BY <2>1 DEF QueueOK
    <2> QED
      BY <2>2
  <1>7. QueueOK'
    BY <1>2, <1>4, <1>6 DEF QueueOK
  <1>8. Sure' \subseteq Sure /\ \A u \in Sure' : u # t => pc'[u] = pc[u]
    <2>1. CASE goal[t] = "stop" /\ EndTask(t)
      BY <2>1 DEF Sure, Openings, EndTask, TypeOK
    <2>2. CASE pc' \in {[pc EXCEPT ![t] = "permission"], [pc EXCEPT ![t] = "secret"]}
               /\ UNCHANGED << goal, overtaken >>
      BY <1>2, <2>2 DEF Sure, Openings, TypeOK
    <2> QED
      BY <1>1, <2>1, <2>2 DEF Connecting, races
  <1>9. t \in Sure => Stopping' = {}
    <2>1. SUFFICES ASSUME t \in Sure, NEW u \in Stopping'
                   PROVE  FALSE
      OBVIOUS
    <2>2. u \in Tasks /\ u # t /\ InQueue(u)
      BY <1>4 DEF QueueOK, Stopping
    <2>3. PICK j \in 1..Len(queue) : queue[j] = u
      BY <2>2 DEF InQueue
    <2>4. queue[j] = "start"
      BY <1>3, <2>1, <2>2, <2>3 DEF SureOK
    <2> QED
      BY <2>2, <2>3, <2>4, StartIsNoTask
  <1>10. ASSUME NEW u \in Sure'
         PROVE  /\ foreground'
                /\ \A v \in Sure' : v = u
                /\ pc'[u] # "stopping" => Stopping' = {}
    <2>1. foreground' /\ \A v \in Sure' : v = u
      BY <1>1, <1>8, <1>10 DEF SureOK
    <2>2. u = t \/ pc[u] = "stopping"
      BY <1>4, <1>8, <1>10 DEF SureOK
    <2> QED
      BY <1>8, <1>9, <1>10, <2>1, <2>2
  <1>11. ASSUME NEW u \in Sure', NEW i \in 1..Len(queue'), NEW j \in 1..Len(queue'),
                queue'[i] = u, i < j
         PROVE  queue'[j] = "start"
    <2>1. i + 1 \in 1..Len(queue) /\ j + 1 \in 1..Len(queue) /\ i + 1 < j + 1
          /\ queue[i + 1] = u /\ queue'[j] = queue[j + 1]
      BY <1>3, <1>11
    <2> QED
      BY <1>8, <2>1 DEF SureOK
  <1>12. ASSUME NEW u \in Sure', pc'[u] = "secret"
         PROVE  status' # "idle"
    <2>1. u = t \/ pc[u] = "stopping"
      BY <1>4, <1>8, <1>12 DEF SureOK
    <2> QED
      BY <1>1, <1>2, <1>8, <1>12, <2>1 DEF EndTask, Connecting, TypeOK
  <1>13. SureOK'
    BY <1>1, <1>10, <1>11, <1>12 DEF SureOK
  <1> QED
    BY <1>2, <1>4, <1>5, <1>7, <1>9, <1>13

\* A call of startRecording that joins the queue or leaves it.
LEMMA StartFlow ==
  ASSUME TypeOK, Flow, UNCHANGED << pc, goal, text, overtaken, foreground, ws >>,
         \/ queue' = Append(queue, "start")
         \/ queue # << >> /\ Head(queue) = "start" /\ queue' = Tail(queue),
         raced => raced', status' = status \/ status' # "idle"
  PROVE  Flow' /\ Stopping' = Stopping
PROOF
  <1> USE DEF Flow
  <1>1. QueueOK' /\ Stopping' = Stopping
    BY StartJoins, StartLeaves
  <1>2. Sure' = Sure
    BY DEF Sure, Openings
  <1>3. ASSUME NEW u \in Sure, NEW i \in 1..Len(queue'), NEW j \in 1..Len(queue'),
               queue'[i] = u, i < j
        PROVE  queue'[j] = "start"
    <2>1. u \in Tasks
      BY DEF Sure, Openings
    <2>2. CASE queue' = Append(queue, "start")
      <3>1. /\ Len(queue) \in Nat /\ Len(queue') = Len(queue) + 1
            /\ queue'[Len(queue) + 1] = "start"
            /\ \A k \in 1..Len(queue) : queue'[k] = queue[k]
        BY <2>2, Appended
      <3> QED
        BY <1>3, <3>1 DEF SureOK
    <2>3. CASE queue # << >> /\ Head(queue) = "start" /\ queue' = Tail(queue)
      <3>1. /\ Len(queue) \in Nat \ {0} /\ Len(queue') = Len(queue) - 1
            /\ \A k \in 1..Len(queue') : queue'[k] = queue[k + 1]
        BY <2>3, Popped
      <3>2. i + 1 \in 1..Len(queue) /\ j + 1 \in 1..Len(queue) /\ i + 1 < j + 1
            /\ queue[i + 1] = u /\ queue'[j] = queue[j + 1]
        BY <1>3, <3>1
      <3> QED
        BY <3>2 DEF SureOK
    <2> QED
      BY <2>2, <2>3
  <1>4. SureOK'
    BY <1>1, <1>2, <1>3 DEF SureOK
  <1> QED
    BY <1>1, <1>4 DEF TasksOK

\* A 401 overtakes every opening and tears down what the screen had.
LEMMA DeniedFlow ==
  ASSUME TypeOK, TypeOK', Flow, NEW t \in Tasks, SecretDenied(t)
  PROVE  /\ Flow'
         /\ Stopping' = Stopping \cup {t}
         /\ \A x : InQueue(x)' <=> InQueue(x) \/ x = t
PROOF
  <1>1. /\ QueueOK' /\ Stopping' = Stopping \cup {t}
        /\ \A x : InQueue(x)' <=> InQueue(x) \/ x = t
    BY JoinsQueue DEF SecretDenied, Flow
  <1>2. TasksOK'
    BY DEF SecretDenied, Flow, TasksOK, TypeOK
  <1>3. Sure' = {}
    BY DEF SecretDenied, Sure, Openings, TypeOK
  <1> QED
    BY <1>1, <1>2, <1>3 DEF Flow, SureOK

\* An opening that goes on to connect without having been overtaken.
LEMMA SureOpens ==
  ASSUME TypeOK, Flow, NEW t \in Tasks, pc[t] \in {"permission", "secret"}, t \notin overtaken, ~ raced
  PROVE  /\ foreground /\ Stopping = {} /\ ws = 0
         /\ pc[t] = "secret" => status # "idle"
PROOF
  <1>1. t \in Sure
    BY DEF Flow, TasksOK, Sure, Openings
  <1> QED
    BY <1>1 DEF Flow, SureOK

(***************************************************************************)
(* What is held                                                            *)
(***************************************************************************)

\* No more is held when a teardown begins, and nothing is asked of the state until it
\* is over.
LEMMA TeardownHeld ==
  ASSUME TypeOK, TypeOK', HeldOK, NEW t \in Tasks,
         Stopping' = Stopping \cup {t}, queue' = Append(queue, t),
         active' = FALSE, ws' = ws, status' # "connecting",
         \A s \in Sockets : socket'[s] \in {socket[s], "closed"}
  PROVE  HeldOK'
PROOF
  <1>1. Stopping' # {}
    OBVIOUS
  <1>2. /\ Len(queue) \in Nat /\ Len(queue') = Len(queue) + 1 /\ queue'[Len(queue) + 1] = t
        /\ \A i \in 1..Len(queue) : queue'[i] = queue[i]
    BY Appended
  <1>3. StartsFirst'
    BY <1>2, StartIsNoTask DEF HeldOK, StartsFirst
  <1>4. OneSession'
    BY DEF HeldOK, OneSession, Live
  <1> QED
    BY <1>1, <1>3, <1>4 DEF HeldOK, NotUpYet, MicIsSessions, ActiveIsSessions, IdleIsQuiet

\* A step that touches neither the session, the recorder nor the teardowns.
LEMMA QuietHeld ==
  ASSUME TypeOK, HeldOK, UNCHANGED << ws, socket, active, mic, queue >>, Stopping' = Stopping,
         \/ status' \in {status, "error"}
         \/ Stopping = {} /\ status' = "connecting" /\ ws = 0
         \/ status' \notin {"connecting", "idle"},
         foreground' \/ UNCHANGED foreground \/ status = "idle"
  PROVE  HeldOK'
PROOF
  <1>1. OneSession' /\ StartsFirst' /\ MicIsSessions' /\ ActiveIsSessions'
    BY DEF HeldOK, OneSession, Live, StartsFirst, MicIsSessions, ActiveIsSessions, InQueue
  <1>2. NotUpYet'
    <2>1. CASE ws = 0
      <3>1. \A s \in Sockets : ~ Live(s)
        BY <2>1 DEF HeldOK, OneSession, Sockets
      <3> QED
        BY <3>1 DEF HeldOK, NotUpYet, Live
    <2>2. CASE ws # 0
      BY <2>2 DEF HeldOK, NotUpYet
    <2> QED
      BY <2>1, <2>2
  <1>3. IdleIsQuiet'
    BY DEF HeldOK, IdleIsQuiet, TypeOK
  <1> QED
    BY <1>1, <1>2, <1>3 DEF HeldOK

LEMMA StopRecordedHeld ==
  ASSUME TypeOK, TypeOK', Flow, HeldOK, NEW t \in Tasks, StopRecorded(t), ~ raced'
  PROVE  HeldOK'
PROOF
  <1>1. /\ Stopping' = Stopping \ {t} /\ t \in Stopping
        /\ \A x : InQueue(x)' <=> InQueue(x) /\ x # t
        /\ t \in Sure => Stopping' = {}
    BY StopRecordedFlow
  <1>2. /\ queue # << >> /\ Head(queue) = t /\ queue' = Tail(queue)
        /\ mic' = FALSE /\ active' = active /\ ws' = 0
        /\ socket' = [s \in Sockets |-> IF s = ws THEN "closed" ELSE socket[s]]
        /\ foreground' = foreground
    BY DEF StopRecorded, CloseSocket
  <1>3. /\ Len(queue) \in Nat \ {0} /\ queue[1] = t /\ Len(queue') = Len(queue) - 1
        /\ \A i \in 1..Len(queue') : queue'[i] = queue[i + 1]
    BY <1>2, Popped
  <1>4. \A s \in Sockets : socket'[s] \notin {"opening", "open", "up"}
    BY <1>2 DEF HeldOK, OneSession, Live
  <1>5. OneSession'
    BY <1>4 DEF OneSession, Live
  <1>6. ASSUME NEW i \in 1..Len(queue'), NEW j \in 1..Len(queue'), queue'[i] \in Tasks, i < j
        PROVE  queue'[j] # "start"
    <2>1. i + 1 \in 1..Len(queue) /\ j + 1 \in 1..Len(queue) /\ i + 1 < j + 1
          /\ queue[i + 1] \in Tasks /\ queue'[j] = queue[j + 1]
      BY <1>3, <1>6
    <2> QED
      BY <2>1 DEF HeldOK, StartsFirst
  <1>7. StartsFirst'
    BY <1>6 DEF StartsFirst
  <1>8. \A j \in 1..Len(queue) : queue[j] # "start"
    BY <1>3, StartIsNoTask DEF HeldOK, StartsFirst
  <1>9. MicIsSessions'
    BY <1>1, <1>2, <1>8 DEF MicIsSessions, InQueue
  <1>10. ActiveIsSessions'
    BY <1>1, <1>2 DEF HeldOK, ActiveIsSessions
  <1>11. IdleIsQuiet'
    BY <1>2 DEF IdleIsQuiet
  <1>12. status' = "connecting" => Stopping' = {}
    <2>1. CASE status' = status
      BY <1>1, <2>1 DEF HeldOK, NotUpYet
    <2>2. CASE goal[t] = "type" /\ Connecting(t)
      BY <1>1, <2>2 DEF Connecting, Sure, Openings, Stopping
    <2> QED
      BY <2>1, <2>2 DEF StopRecorded
  <1>13. NotUpYet'
    BY <1>4, <1>12 DEF NotUpYet
  <1> QED
    BY <1>5, <1>7, <1>9, <1>10, <1>11, <1>13 DEF HeldOK

\* The client secret opens the only session there is.
LEMMA SecretArrivesHeld ==
  ASSUME TypeOK, TypeOK', Flow, HeldOK, NEW t \in Tasks, NEW s \in Sockets, SecretArrives(t, s),
         ~ raced'
  PROVE  HeldOK'
PROOF
  <1>1. /\ pc[t] = "secret" /\ ws' = s /\ socket' = [socket EXCEPT ![s] = "opening"]
        /\ ~ raced /\ t \notin overtaken /\ EndTask(t)
        /\ UNCHANGED << status, mic, queue, foreground >>
    BY DEF SecretArrives
  <1>2. foreground /\ Stopping = {} /\ ws = 0 /\ status # "idle"
    BY <1>1, SureOpens
  <1>3. Stopping' = {}
    BY <1>1, <1>2 DEF Stopping, EndTask, TypeOK
  <1>4. \A r \in Sockets : ~ Live(r)
    BY <1>2 DEF HeldOK, OneSession, Sockets
  <1>5. ~ mic /\ ~ InQueue("start")
    BY <1>2 DEF HeldOK, MicIsSessions, Sockets
  <1>6. OneSession'
    BY <1>1, <1>4 DEF OneSession, Live, TypeOK
  <1>7. StartsFirst'
    BY <1>1 DEF HeldOK, StartsFirst
  <1>8. NotUpYet'
    BY <1>1, <1>3, <1>4 DEF NotUpYet, Live, TypeOK
  <1>9. MicIsSessions'
    BY <1>1, <1>5 DEF MicIsSessions, InQueue
  <1>10. ActiveIsSessions'
    BY <1>1, <1>3 DEF ActiveIsSessions, Sockets
  <1>11. IdleIsQuiet'
    BY <1>1, <1>2 DEF IdleIsQuiet
  <1> QED
    BY <1>6, <1>7, <1>8, <1>9, <1>10, <1>11 DEF HeldOK

LEMMA RecorderHeld ==
  ASSUME TypeOK, TypeOK', Flow, HeldOK, RecordingStarts \/ RecordingFails
  PROVE  HeldOK'
PROOF
  <1>1. /\ queue # << >> /\ Head(queue) = "start" /\ queue' = Tail(queue)
        /\ \/ mic' = TRUE /\ active' = active /\ status' = status
           \/ mic' = mic /\ active' = FALSE /\ status' = "error"
        /\ UNCHANGED << ws, socket, pc, foreground >>
    BY DEF RecordingStarts, RecordingFails, tasks
  <1>2. /\ Stopping' = Stopping /\ InQueue("start")
        /\ \A x : InQueue(x)' => InQueue(x)
    BY <1>1, StartLeaves DEF Flow
  <1>3. /\ Len(queue) \in Nat \ {0} /\ Len(queue') = Len(queue) - 1
        /\ \A i \in 1..Len(queue') : queue'[i] = queue[i + 1]
    BY <1>1, Popped
  <1>4. ASSUME NEW i \in 1..Len(queue'), NEW j \in 1..Len(queue'), queue'[i] \in Tasks, i < j
        PROVE  queue'[j] # "start"
    <2>1. i + 1 \in 1..Len(queue) /\ j + 1 \in 1..Len(queue) /\ i + 1 < j + 1
          /\ queue[i + 1] \in Tasks /\ queue'[j] = queue[j + 1]
      BY <1>3, <1>4
    <2> QED
      BY <2>1 DEF HeldOK, StartsFirst
  <1>5. StartsFirst'
    BY <1>4 DEF StartsFirst
  <1>6. OneSession' /\ NotUpYet' /\ ActiveIsSessions' /\ IdleIsQuiet'
    BY <1>1, <1>2 DEF HeldOK, OneSession, Live, NotUpYet, ActiveIsSessions, IdleIsQuiet
  <1>7. MicIsSessions'
    BY <1>1, <1>2 DEF HeldOK, MicIsSessions
  <1> QED
    BY <1>5, <1>6, <1>7 DEF HeldOK

LEMMA SessionUpdatedHeld ==
  ASSUME TypeOK, TypeOK', Flow, HeldOK, NEW s \in Sockets, SessionUpdated(s), ~ raced'
  PROVE  HeldOK'
PROOF
  <1>1. /\ socket[s] = "open" /\ socket' = [socket EXCEPT ![s] = "up"]
        /\ status' \in {"listening", "connected"}
        /\ queue' \in {queue, Append(queue, "start")}
        /\ Stopping = {} /\ Stopping' = {}
        /\ UNCHANGED << ws, active, mic, foreground >>
    BY DEF SessionUpdated, Resting, Stopping, tasks
  <1>2. s = ws
    BY <1>1 DEF HeldOK, OneSession, Live
  <1>3. OneSession'
    BY <1>1, <1>2 DEF HeldOK, OneSession, Live, TypeOK
  <1>4. ~ \E i \in 1..Len(queue) : queue[i] \in Tasks
    BY <1>1 DEF Flow, QueueOK, InQueue
  <1>5. StartsFirst'
    <2>1. CASE queue' = queue
      BY <2>1 DEF HeldOK, StartsFirst
    <2>2. CASE queue' = Append(queue, "start")
      <3>1. /\ Len(queue) \in Nat /\ Len(queue') = Len(queue) + 1
            /\ queue'[Len(queue) + 1] = "start"
            /\ \A i \in 1..Len(queue) : queue'[i] = queue[i]
        BY <2>2, Appended
      <3> QED
        BY <1>4, <3>1, StartIsNoTask DEF StartsFirst
    <2> QED
      BY <1>1, <2>1, <2>2
  <1>6. MicIsSessions'
    BY <1>1, <1>2 DEF MicIsSessions, TypeOK
  <1>7. NotUpYet' /\ ActiveIsSessions' /\ IdleIsQuiet'
    BY <1>1 DEF HeldOK, NotUpYet, ActiveIsSessions, IdleIsQuiet
  <1> QED
    BY <1>3, <1>5, <1>6, <1>7 DEF HeldOK

\* A session that ends before it has started held no microphone.
LEMMA ErrorEventHeld ==
  ASSUME TypeOK, TypeOK', HeldOK, NEW s \in Sockets, ErrorEvent(s)
  PROVE  HeldOK'
PROOF
  <1>1. /\ status = "connecting" /\ status' = "error" /\ active' = FALSE /\ ws' = 0
        /\ socket' = [r \in Sockets |-> IF r = ws THEN "closed" ELSE socket[r]]
        /\ UNCHANGED << mic, queue, pc >>
    BY DEF ErrorEvent, CloseSocket, tasks
  <1>2. Stopping' = Stopping
    BY <1>1 DEF Stopping
  <1>3. \A r \in Sockets : socket[r] # "up"
    BY <1>1 DEF HeldOK, NotUpYet
  <1>4. ~ (Stopping = {} /\ (mic \/ InQueue("start")))
    BY <1>3 DEF HeldOK, MicIsSessions
  <1>5. OneSession'
    BY <1>1 DEF HeldOK, OneSession, Live
  <1>6. StartsFirst' /\ MicIsSessions'
    BY <1>1, <1>2, <1>4 DEF HeldOK, StartsFirst, MicIsSessions, InQueue
  <1> QED
    BY <1>1, <1>5, <1>6 DEF HeldOK, NotUpYet, ActiveIsSessions, IdleIsQuiet

(***************************************************************************)
(* The messages                                                            *)
(***************************************************************************)

\* A message joins those pending: the newest.
LEMMA PendingGrows ==
  ASSUME TypeOK, TextsOK, typed' = typed + 1, typed + 1 \in 1..MaxText,
         pending' = Append(pending, typed + 1), sent' = sent, ~ HasOpen'
  PROVE  TextsOK'
PROOF
  <1> DEFINE n == Len(pending)
  <1>1. pending \in Seq(1..MaxText) /\ sent \in Seq(1..MaxText) /\ typed \in Nat
    BY BoundsAssumption DEF TypeOK
  <1>2. /\ n \in Nat /\ Len(pending') = n + 1 /\ pending'[n + 1] = typed + 1
        /\ \A i \in 1..n : pending'[i] = pending[i]
    BY <1>1, AppendProperties
  <1>3. /\ \A i \in 1..n : pending[i] \in Nat /\ pending[i] <= typed
        /\ \A i \in 1..Len(sent) : sent[i] \in Nat /\ sent[i] <= typed
    BY <1>1, ElementOfSeq, BoundsAssumption DEF TextsOK
  <1>4. Increasing(pending')
    BY <1>1, <1>2, <1>3 DEF TextsOK, Increasing
  <1>5. \A i \in 1..Len(sent), j \in 1..Len(pending') : sent[i] < pending'[j]
    BY <1>1, <1>2, <1>3 DEF TextsOK
  <1>6. \A i \in 1..Len(pending') : pending'[i] <= typed + 1
    BY <1>1, <1>2, <1>3
  <1>7. \A i \in 1..Len(sent) : sent[i] <= typed + 1
    BY <1>1, <1>3
  <1> QED
    BY <1>4, <1>5, <1>6, <1>7 DEF TextsOK

\* A message goes straight into the session when none is pending.
LEMMA SentGrows ==
  ASSUME TypeOK, TextsOK, typed' = typed + 1, typed + 1 \in 1..MaxText,
         sent' = Append(sent, typed + 1), pending = << >>, pending' = << >>
  PROVE  TextsOK'
PROOF
  <1> DEFINE n == Len(sent)
  <1>1. sent \in Seq(1..MaxText) /\ typed \in Nat
    BY BoundsAssumption DEF TypeOK
  <1>2. /\ n \in Nat /\ Len(sent') = n + 1 /\ sent'[n + 1] = typed + 1
        /\ \A i \in 1..n : sent'[i] = sent[i]
    BY <1>1, AppendProperties
  <1>3. ASSUME NEW i \in 1..n
        PROVE  sent[i] \in Nat /\ sent[i] <= typed
    <2>1. sent[i] \in 1..MaxText
      BY <1>1, ElementOfSeq
    <2> QED
      BY <2>1, BoundsAssumption DEF TextsOK
  <1>4. Increasing(sent')
    <2>1. ASSUME NEW i \in 1..(n + 1), NEW j \in 1..(n + 1), i < j
          PROVE  sent'[i] < sent'[j]
      <3>1. i \in 1..n /\ sent'[i] = sent[i]
        BY <1>2, <2>1
      <3>2. CASE j = n + 1
        BY <1>1, <1>2, <1>3, <3>1, <3>2
      <3>3. CASE j \in 1..n
        BY <1>2, <2>1, <3>1, <3>3 DEF TextsOK, Increasing
      <3> QED
        BY <1>2, <3>2, <3>3
    <2> QED
      BY <1>2, <2>1 DEF Increasing
  <1>5. \A i \in 1..Len(sent') : sent'[i] <= typed + 1
    BY <1>1, <1>2, <1>3
  <1>6. Len(pending') = 0
    OBVIOUS
  <1>7. Increasing(pending')
    BY <1>6 DEF Increasing
  <1> QED
    BY <1>4, <1>5, <1>6, <1>7 DEF TextsOK

\* The socket opens: what is pending follows what was sent.
LEMMA PendingSent ==
  ASSUME TypeOK, TextsOK, typed' = typed, sent' = sent \o pending, pending' = << >>
  PROVE  TextsOK'
PROOF
  <1> DEFINE n == Len(sent)
             m == Len(pending)
  <1>1. pending \in Seq(1..MaxText) /\ sent \in Seq(1..MaxText) /\ typed \in Nat
    BY BoundsAssumption DEF TypeOK
  <1>2. /\ n \in Nat /\ m \in Nat /\ Len(sent') = n + m
        /\ \A i \in 1..(n + m) : sent'[i] = IF i <= n THEN sent[i] ELSE pending[i - n]
    BY <1>1, ConcatProperties, LenProperties
  <1>3. /\ \A i \in 1..n : sent[i] \in Nat /\ sent[i] <= typed
        /\ \A i \in 1..m : pending[i] \in Nat /\ pending[i] <= typed
    BY <1>1, ElementOfSeq, BoundsAssumption DEF TextsOK
  <1>4. ASSUME NEW i \in 1..(n + m), NEW j \in 1..(n + m), i < j
        PROVE  sent'[i] < sent'[j]
    <2>1. CASE j <= n
      BY <1>2, <1>4, <2>1 DEF TextsOK, Increasing
    <2>2. CASE i <= n /\ ~ (j <= n)
      <3>1. j - n \in 1..m /\ i \in 1..n
        BY <1>2, <2>2
      <3> QED
        BY <1>2, <2>2, <3>1 DEF TextsOK
    <2>3. CASE ~ (i <= n)
      <3>1. i - n \in 1..m /\ j - n \in 1..m /\ i - n < j - n /\ ~ (j <= n)
        BY <1>2, <1>4, <2>3
      <3> QED
        BY <1>2, <2>3, <3>1 DEF TextsOK, Increasing
    <2> QED
      BY <1>2, <1>4, <2>1, <2>2, <2>3
  <1>5. Increasing(sent')
    BY <1>2, <1>4 DEF Increasing
  <1>6. ASSUME NEW i \in 1..(n + m)
        PROVE  sent'[i] <= typed
    <2>1. CASE i <= n
      BY <1>2, <1>3, <2>1
    <2>2. CASE ~ (i <= n)
      <3>1. i - n \in 1..m
        BY <1>2, <2>2
      <3> QED
        BY <1>2, <1>3, <2>2, <3>1
    <2> QED
      BY <2>1, <2>2
  <1>7. Len(pending') = 0
    OBVIOUS
  <1>8. Increasing(pending')
    BY <1>7 DEF Increasing
  <1> QED
    BY <1>2, <1>5, <1>6, <1>7, <1>8 DEF TextsOK

\* Nothing is sent, and what is pending stays or is forgotten.
LEMMA TextsKept ==
  ASSUME TextsOK, UNCHANGED << typed, sent >>,
         pending' = << >> \/ (pending' = pending /\ (HasOpen' => HasOpen))
  PROVE  TextsOK'
PROOF
  <1>1. CASE pending' = << >>
    <2>1. Len(pending') = 0
      BY <1>1
    <2> QED
      BY <1>1, <2>1 DEF TextsOK, Increasing
  <1>2. CASE pending' = pending /\ (HasOpen' => HasOpen)
    BY <1>2 DEF TextsOK
  <1> QED
    BY <1>1, <1>2

LEMMA TextsStep ==
  ASSUME TypeOK, TypeOK', TextsOK, [Next]_vars
  PROVE  TextsOK'
PROOF
  <1>0. MaxText \in Nat /\ typed \in 0..MaxText
    BY BoundsAssumption DEF TypeOK
  <1>1. ASSUME UNCHANGED texts, UNCHANGED ws \/ ws' = 0,
               \A s \in Sockets : socket'[s] \in {"open", "up"} => socket[s] \in {"open", "up"}
        PROVE  TextsOK'
    <2>1. HasOpen' => HasOpen
      BY <1>1 DEF HasOpen, IsOpen, Sockets
    <2> QED
      BY <1>1, <2>1, TextsKept DEF texts
  <1>2. ASSUME NEW t \in Tasks, Stop(t) \/ Start(t)
        PROVE  TextsOK'
    BY <1>1, <1>2 DEF Stop, Start, StopInternal, Teardown
  <1>3. CASE Background \/ Foreground
    BY <1>1, <1>3 DEF Background, Foreground, StopInternal, Teardown, resources
  <1>4. ASSUME NEW t \in Tasks, StopRecorded(t)
        PROVE  TextsOK'
    BY <1>1, <1>4 DEF StopRecorded, CloseSocket
  <1>5. ASSUME NEW t \in Tasks, Permission(t)
        PROVE  TextsOK'
    BY <1>1, <1>5 DEF Permission, resources
  <1>6. ASSUME NEW t \in Tasks, NEW s \in Sockets, SecretArrives(t, s)
        PROVE  TextsOK'
    <2>1. ~ HasOpen'
      BY <1>6 DEF SecretArrives, HasOpen, IsOpen, TypeOK
    <2> QED
      BY <1>6, <2>1, TextsKept DEF SecretArrives, Answer
  <1>7. ASSUME NEW t \in Tasks, SecretFails(t)
        PROVE  TextsOK'
    <2>1. HasOpen' => HasOpen
      BY <1>7 DEF SecretFails, HasOpen, IsOpen, resources
    <2> QED
      BY <1>7, <2>1, TextsKept DEF SecretFails, Answer
  <1>8. ASSUME NEW t \in Tasks, SecretDenied(t)
        PROVE  TextsOK'
    BY <1>8, TextsKept DEF SecretDenied
  <1>9. CASE Recorder /\ ~ \E t \in Tasks : StopRecorded(t)
    BY <1>1, <1>9 DEF Recorder, RecordingStarts, RecordingFails
  <1>10. ASSUME NEW s \in Sockets, SocketOpens(s)
         PROVE  TextsOK'
    BY <1>10, PendingSent DEF SocketOpens, Flushed
  <1>11. ASSUME NEW s \in Sockets, SessionUpdated(s)
         PROVE  TextsOK'
    BY <1>1, <1>11 DEF SessionUpdated, TypeOK
  <1>12. ASSUME NEW s \in Sockets, TutorSpeaks(s) \/ TutorPauses(s) \/ ErrorEvent(s)
         PROVE  TextsOK'
    BY <1>1, <1>12 DEF TutorSpeaks, TutorPauses, ErrorEvent, CloseSocket, resources
  <1>13. ASSUME NEW t \in Tasks, NEW s \in Sockets, SocketDies(t, s)
         PROVE  TextsOK'
    BY <1>1, <1>13 DEF SocketDies, Teardown, TypeOK
  <1>14. CASE SendNow
    BY <1>0, <1>14, SentGrows DEF SendNow, TextsOK
  <1>15. CASE SendLater
    <2>1. ~ HasOpen'
      BY <1>15 DEF SendLater, HasOpen, IsOpen, resources
    <2> QED
      BY <1>0, <1>15, <2>1, PendingGrows DEF SendLater
  <1>16. ASSUME NEW t \in Tasks, SendFirst(t)
         PROVE  TextsOK'
    <2>1. ~ HasOpen'
      BY <1>16 DEF SendFirst, StopInternal, Teardown, HasOpen, IsOpen
    <2> QED
      BY <1>0, <1>16, <2>1, PendingGrows DEF SendFirst
  <1>17. CASE UNCHANGED vars
    BY <1>1, <1>17 DEF vars, resources
  <1> QED
    BY <1>2, <1>3, <1>4, <1>5, <1>6, <1>7, <1>8, <1>9, <1>10, <1>11, <1>12, <1>13, <1>14, <1>15,
       <1>16, <1>17 DEF Next, Asked, Recorder, Opening, ComesUp

(***************************************************************************)
(* The invariant                                                           *)
(***************************************************************************)

LEMMA RacedStays ==
  ASSUME [Next]_vars, raced
  PROVE  raced'
PROOF
  BY DEF Next, vars, Asked, Recorder, Opening, ComesUp, Background, Foreground, SendNow,
     SendLater,
         Stop, Start, SendFirst, RecordingStarts, RecordingFails, StopRecorded, Permission,
         SecretFails, SecretDenied, SecretArrives, SocketOpens, SessionUpdated, ErrorEvent,
         SocketDies, TutorSpeaks, TutorPauses, StopInternal, Teardown, Connecting, races

\* Every step keeps the order of the teardowns, and with it what is held.
LEMMA FlowHeldStep ==
  ASSUME TypeOK, TypeOK', Flow, ~ raced => HeldOK, [Next]_vars
  PROVE  Flow' /\ (~ raced' => HeldOK')
PROOF
  <1>0. raced => raced'
    BY RacedStays
  <1>1. SUFFICES ASSUME raced' \/ HeldOK
                 PROVE  Flow' /\ (~ raced' => HeldOK')
    BY <1>0
  <1>2. ASSUME NEW t \in Tasks, NEW g \in {"stop", "talk", "type"}, Teardown(t, g),
               foreground' = foreground \/ g = "stop",
               \A x \in Tasks : x # t => text'[x] = text[x],
               status' # "connecting", \A s \in Sockets : socket'[s] \in {socket[s], "closed"}
        PROVE  Flow' /\ (~ raced' => HeldOK')
    <2>1. Flow' /\ Stopping' = Stopping \cup {t}
      BY <1>2, TeardownFlow
    <2> QED
      BY <1>0, <1>1, <1>2, <2>1, TeardownHeld DEF Teardown
  <1>3. ASSUME NEW t \in Tasks, Stop(t) \/ Start(t) \/ SendFirst(t)
        PROVE  Flow' /\ (~ raced' => HeldOK')
    <2>1. PICK g \in {"stop", "talk", "type"} : StopInternal(t, g)
      BY <1>3 DEF Stop, Start, SendFirst
    <2>2. /\ foreground' = foreground /\ socket' = socket
          /\ \A x \in Tasks : x # t => text'[x] = text[x]
      BY <1>3 DEF Stop, Start, SendFirst, TypeOK
    <2> QED
      BY <1>2, <2>1, <2>2 DEF StopInternal
  <1>4. CASE Background
    <2>1. ASSUME NEW t \in Tasks, StopInternal(t, "stop"), UNCHANGED << socket, text, texts >>
          PROVE  Flow' /\ (~ raced' => HeldOK')
      BY <1>2, <2>1 DEF StopInternal
    <2>2. CASE /\ status = "idle" /\ overtaken' = overtaken \cup Openings
               /\ UNCHANGED << status, resources, tasks, texts, raced >>
      <3>1. Stopping' = Stopping /\ Sure' = {} /\ overtaken \subseteq overtaken'
        BY <2>2 DEF Stopping, Sure, Openings, tasks
      <3>2. Flow'
        BY <2>2, <3>1, QuietFlow DEF tasks, resources
      <3>3. ~ raced' => HeldOK'
        BY <1>1, <2>2, <3>1, QuietHeld DEF tasks, resources
      <3> QED
        BY <3>2, <3>3
    <2> QED
      BY <1>4, <2>1, <2>2 DEF Background, StopsInBackground
  <1>5. ASSUME UNCHANGED << pc, goal, text, overtaken, raced, ws, socket, active, mic, queue >>,
               foreground' \/ UNCHANGED foreground,
               status' \in {status, "error", "speaking", "listening", "connected"}
        PROVE  Flow' /\ (~ raced' => HeldOK')
    <2>1. Stopping' = Stopping
      BY <1>5 DEF Stopping
    <2>2. Flow'
      BY <1>5, QuietFlow
    <2>3. ~ raced' => HeldOK'
      BY <1>1, <1>5, <2>1, QuietHeld
    <2> QED
      BY <2>2, <2>3
  <1>6. CASE Foreground \/ SendNow \/ SendLater \/ UNCHANGED vars
    BY <1>5, <1>6 DEF Foreground, SendNow, SendLater, vars, resources, tasks, races, Resting
  <1>7. ASSUME NEW s \in Sockets, TutorSpeaks(s) \/ TutorPauses(s)
        PROVE  Flow' /\ (~ raced' => HeldOK')
    BY <1>5, <1>7 DEF TutorSpeaks, TutorPauses, resources, tasks, races, Resting
  <1>8. ASSUME NEW t \in Tasks, StopRecorded(t)
        PROVE  Flow' /\ (~ raced' => HeldOK')
    BY <1>1, <1>8, StopRecordedFlow, StopRecordedHeld
  <1>9. ASSUME NEW t \in Tasks, Permission(t)
        PROVE  Flow' /\ (~ raced' => HeldOK')
    <2>1. /\ pc[t] = "permission" /\ status' \in {"connecting", "error"}
          /\ UNCHANGED << ws, socket, active, mic, queue, foreground >>
          /\ \/ EndTask(t) /\ status' = "error" /\ UNCHANGED raced
             \/ /\ pc' = [pc EXCEPT ![t] = "secret"] /\ status' = "connecting"
                /\ raced' = (raced \/ t \in overtaken) /\ UNCHANGED << goal, text, overtaken >>
      BY <1>9 DEF Permission, Connecting, resources
    <2>2. Flow' /\ Stopping' = Stopping
      BY <1>0, <2>1, PastFlow
    <2>3. ~ raced' /\ status' = "connecting" => Stopping = {} /\ ws = 0
      BY <2>1, SureOpens
    <2>4. ~ raced' => HeldOK'
      BY <1>1, <2>1, <2>2, <2>3, QuietHeld
    <2> QED
      BY <2>2, <2>4
  <1>10. ASSUME NEW t \in Tasks, NEW s \in Sockets, SecretArrives(t, s)
        PROVE  Flow' /\ (~ raced' => HeldOK')
    <2>1. Flow'
      BY <1>0, <1>10, PastFlow DEF SecretArrives
    <2>2. ~ raced' => HeldOK'
      BY <1>1, <1>10, SecretArrivesHeld
    <2> QED
      BY <2>1, <2>2
  <1>11. ASSUME NEW t \in Tasks, SecretFails(t)
         PROVE  Flow' /\ (~ raced' => HeldOK')
    <2>1. /\ pc[t] = "secret" /\ EndTask(t) /\ status' = "error"
          /\ UNCHANGED << ws, socket, active, mic, queue, foreground, raced >>
      BY <1>11 DEF SecretFails, resources
    <2>2. Flow' /\ Stopping' = Stopping
      BY <1>0, <2>1, PastFlow
    <2>3. ~ raced' => HeldOK'
      BY <1>1, <2>1, <2>2, QuietHeld
    <2> QED
      BY <2>2, <2>3
  <1>12. ASSUME NEW t \in Tasks, SecretDenied(t)
         PROVE  Flow' /\ (~ raced' => HeldOK')
    <2>1. Flow' /\ Stopping' = Stopping \cup {t}
      BY <1>12, DeniedFlow
    <2>2. ~ raced' => HeldOK'
      BY <1>1, <1>12, <2>1, TeardownHeld DEF SecretDenied
    <2> QED
      BY <2>1, <2>2
  <1>13. CASE RecordingStarts \/ RecordingFails
    <2>1. /\ queue # << >> /\ Head(queue) = "start" /\ queue' = Tail(queue)
          /\ status' = status \/ status' = "error"
          /\ UNCHANGED << pc, goal, text, overtaken, raced, foreground, ws >>
      BY <1>13 DEF RecordingStarts, RecordingFails, tasks, races
    <2>2. Flow'
      BY <2>1, StartFlow
    <2>3. ~ raced' => HeldOK'
      BY <1>1, <1>13, RecorderHeld
    <2> QED
      BY <2>2, <2>3
  <1>14. ASSUME NEW s \in Sockets, SocketOpens(s)
         PROVE  Flow' /\ (~ raced' => HeldOK')
    <2>1. /\ socket[s] = "opening" /\ socket' = [socket EXCEPT ![s] = "open"]
          /\ UNCHANGED << status, ws, active, mic, queue, pc, goal, text, overtaken, raced,
                          foreground >>
      BY <1>14 DEF SocketOpens, tasks, races
    <2>2. Flow'
      BY <2>1, QuietFlow
    <2>3. Stopping' = Stopping
      BY <2>1 DEF Stopping
    <2>4. ASSUME ~ raced'
          PROVE  HeldOK'
      <3>1. OneSession'
        BY <1>1, <2>1, <2>4 DEF HeldOK, OneSession, Live, TypeOK
      <3>2. NotUpYet' /\ MicIsSessions'
        BY <1>1, <2>1, <2>3, <2>4 DEF HeldOK, NotUpYet, MicIsSessions, InQueue, TypeOK
      <3>3. StartsFirst' /\ ActiveIsSessions' /\ IdleIsQuiet'
        BY <1>1, <2>1, <2>3, <2>4 DEF HeldOK, StartsFirst, ActiveIsSessions, IdleIsQuiet
      <3> QED
        BY <3>1, <3>2, <3>3 DEF HeldOK
    <2> QED
      BY <2>2, <2>4
  <1>15. ASSUME NEW s \in Sockets, SessionUpdated(s)
         PROVE  Flow' /\ (~ raced' => HeldOK')
    <2>1. /\ status' \in {"listening", "connected"}
          /\ queue' \in {queue, Append(queue, "start")}
          /\ UNCHANGED << pc, goal, text, overtaken, foreground, ws >>
      BY <1>15 DEF SessionUpdated, Resting, tasks
    <2>2. Flow'
      BY <1>0, <2>1, QuietFlow, StartFlow
    <2>3. ~ raced' => HeldOK'
      BY <1>1, <1>15, SessionUpdatedHeld
    <2> QED
      BY <2>2, <2>3
  <1>16. ASSUME NEW s \in Sockets, ErrorEvent(s)
         PROVE  Flow' /\ (~ raced' => HeldOK')
    <2>1. Flow'
      BY <1>16, QuietFlow DEF ErrorEvent, CloseSocket, tasks, races
    <2>2. ~ raced' => HeldOK'
      BY <1>1, <1>16, ErrorEventHeld
    <2> QED
      BY <2>1, <2>2
  <1>17. ASSUME NEW t \in Tasks, NEW s \in Sockets, SocketDies(t, s)
         PROVE  Flow' /\ (~ raced' => HeldOK')
    <2>1. /\ Teardown(t, "stop") /\ status' # "connecting" /\ UNCHANGED << text, foreground >>
          /\ \A r \in Sockets : socket'[r] \in {socket[r], "closed"}
      BY <1>17 DEF SocketDies, Ended, TypeOK
    <2> QED
      BY <1>2, <2>1
  <1> QED
    BY <1>3, <1>4, <1>6, <1>7, <1>8, <1>9, <1>10, <1>11, <1>12, <1>13, <1>14, <1>15, <1>16, <1>17
       DEF Next, Asked, Recorder, Opening, ComesUp

LEMMA InvInit ==
  ASSUME Init
  PROVE  IInv
PROOF
  <1>1. TypeOK
    <2>1. << >> \in Seq(Tasks \cup {"start"}) /\ << >> \in Seq(1..MaxText)
      OBVIOUS
    <2>2. 0 \in 0..MaxSockets /\ 0 \in 0..MaxText
      BY BoundsAssumption
    <2>3. /\ queue \in Seq(Tasks \cup {"start"})
          /\ pending \in Seq(1..MaxText) /\ sent \in Seq(1..MaxText)
      BY <2>1 DEF Init
    <2> QED
      BY <2>2, <2>3 DEF Init, TypeOK, Statuses
  <1>2. Stopping = {} /\ Openings = {} /\ Len(queue) = 0 /\ Len(sent) = 0 /\ Len(pending) = 0
    BY DEF Init, Stopping, Openings
  <1>3. TasksOK /\ QueueOK /\ SureOK
    BY <1>2 DEF Init, TasksOK, QueueOK, SureOK, InQueue, Sure
  <1>4. HeldOK
    BY <1>2 DEF Init, HeldOK, OneSession, Live, StartsFirst, NotUpYet, MicIsSessions, InQueue,
                ActiveIsSessions, IdleIsQuiet
  <1>5. TextsOK
    BY <1>2 DEF Init, TextsOK, Increasing
  <1> QED
    BY <1>1, <1>3, <1>4, <1>5 DEF IInv

LEMMA Invariance == Spec => []IInv
PROOF
  <1>1. Init => IInv
    BY InvInit
  <1>2. IInv /\ [Next]_vars => IInv'
    <2>1. SUFFICES ASSUME IInv, [Next]_vars
                   PROVE  IInv'
      OBVIOUS
    <2>2. TypeOK'
      BY <2>1, TypeStep DEF IInv
    <2>3. Flow' /\ (~ raced' => HeldOK')
      BY <2>1, <2>2, FlowHeldStep DEF IInv, Flow
    <2>4. TextsOK'
      BY <2>1, <2>2, TextsStep DEF IInv
    <2> QED
      BY <2>2, <2>3, <2>4 DEF IInv, Flow
  <1> QED
    BY <1>1, <1>2, PTL DEF Spec

(***************************************************************************)
(* The theorems                                                            *)
(***************************************************************************)

\* Every variable of the conversation keeps its type: no socket, task or message outside
\* the bounds is ever referred to (mobile/src/voice/useVoiceConversation.ts).
THEOREM VoiceTypeCorrect == Spec => []TypeOK
PROOF
  BY Invariance, PTL DEF IInv

\* Leaving the foreground leaves neither a recording microphone nor a live socket once
\* everything has settled, unless an opening was overtaken: the AppState listener stops
\* whatever the status tells it of (useVoiceConversation.ts).
THEOREM BackgroundIsQuiet == Spec => []QuietInBackground
PROOF
  <1>1. IInv => QuietInBackground
    <2>1. SUFFICES ASSUME IInv, ~ foreground, Settled, ~ raced
                   PROVE  ~ mic /\ \A s \in Sockets : ~ Live(s)
      BY DEF QuietInBackground
    <2>2. Stopping = {}
      BY <2>1 DEF Settled, Stopping
    <2>3. HeldOK
      BY <2>1 DEF IInv
    <2>4. ws = 0
      BY <2>1, <2>2, <2>3 DEF HeldOK, IdleIsQuiet
    <2> QED
      BY <2>2, <2>3, <2>4 DEF HeldOK, OneSession, MicIsSessions, Sockets
  <1> QED
    BY <1>1, Invariance, PTL

\* Whenever no session is held and everything has settled, nothing of one is: no
\* recording, no player session that mutes the chimes, no socket out of reach, unless an
\* opening was overtaken (teardownSession and the error paths of useVoiceConversation.ts).
THEOREM NoSessionNothingHeld == Spec => []NothingHeldWithoutSession
PROOF
  <1>1. IInv => NothingHeldWithoutSession
    <2>1. SUFFICES ASSUME IInv, ws = 0, Settled, ~ raced
                   PROVE  ~ mic /\ ~ active /\ \A s \in Sockets : ~ Live(s)
      BY DEF NothingHeldWithoutSession
    <2>2. Stopping = {}
      BY <2>1 DEF Settled, Stopping
    <2>3. HeldOK
      BY <2>1 DEF IInv
    <2> QED
      BY <2>1, <2>2, <2>3 DEF HeldOK, OneSession, MicIsSessions, ActiveIsSessions, Sockets
  <1> QED
    BY <1>1, Invariance, PTL

\* What is sent is sent once and in the order it was typed, through any number of
\* sessions opened for it, torn down and opened again (pendingTextsRef and sendText).
THEOREM SentInOrder == Spec => []SentOnceInOrder
PROOF
  <1>1. IInv => SentOnceInOrder
    BY DEF IInv, TextsOK, Increasing, SentOnceInOrder
  <1> QED
    BY <1>1, Invariance, PTL
================================================================================

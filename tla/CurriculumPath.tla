---------------------------- MODULE CurriculumPath ----------------------------
(***************************************************************************)
(* What a planet's modules promise the learner: "conversation -> module    *)
(* flashcards -> next module unlocks" (backend/src/services/curriculum.rs).*)
(* Only the first unfinished module is open; its conversation closes once, *)
(* its flashcards finish it, and nothing finished ever opens again.        *)
(***************************************************************************)
EXTENDS Naturals

CONSTANT N          (* How many modules the planet has.                      *)

VARIABLES
  finished,         (* The modules that are over.                            *)
  talked            (* Those whose conversation is, their flashcards are not.*)

path == << finished, talked >>

Start == finished = {} /\ talked = {}

Open(m) == m \notin finished /\ \A j \in 1..N : j < m => j \in finished

\* The conversation closes; flashcards are left to review.
Talk(m) ==
  /\ Open(m) /\ m \notin talked
  /\ talked' = talked \cup {m}
  /\ UNCHANGED finished

\* The flashcards are cleared, or the conversation left none.
Finish(m) ==
  /\ Open(m)
  /\ finished' = finished \cup {m}
  /\ talked' = talked \ {m}

Promise == Start /\ [][\E m \in 1..N : Talk(m) \/ Finish(m)]_path
===============================================================================

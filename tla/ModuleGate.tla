------------------------------ MODULE ModuleGate -------------------------------
(***************************************************************************)
(* The gate between the modules of a planet, for one learner:              *)
(* backend/src/api/modules.rs and backend/src/repositories/modules.rs over *)
(* the state machine of backend/src/services/curriculum.rs, with the       *)
(* flashcard reviews of backend/src/api/flashcards.rs that close its second*)
(* half.                                                                   *)
(*                                                                         *)
(* Handlers run concurrently: the tutor's tool calls are not awaited one by*)
(* one, and the flashcard deck is another screen or another device.  Every *)
(* statement reads what is committed when it starts (PostgreSQL's READ     *)
(* COMMITTED); only record_production is one transaction, whose writes the *)
(* others see when it commits and whose row locks it holds until then.     *)
(***************************************************************************)
EXTENDS Naturals, FiniteSets

CONSTANTS
  N,                (* Modules of the planet, in curriculum order; 10.       *)
  Keys,             (* The structures each module drills.                    *)
  Cap,              (* REQUIRED_PRODUCTIONS; 3.                              *)
  Cards,            (* Flashcards that can exist at once.                    *)
  Calls,            (* Requests that can be in progress at once.             *)
  None

ASSUME NAssumption    == N \in Nat \ {0}
ASSUME CapAssumption  == Cap \in Nat \ {0}
ASSUME KeysAssumption == IsFiniteSet(Keys) /\ Keys # {}
ASSUME CardAssumption == IsFiniteSet(Cards)

Modules == 1..N

VARIABLES
  \* module_structure_progress: a missing row counts as zero
  productions,      (* Successful productions per module and structure.      *)
  \* user_module_progress
  conversation,     (* Modules whose conversation_done is set.               *)
  flashcards,       (* Modules whose flashcards_done is set.                 *)
  \* flashcards
  cardOf,           (* The lesson_id of each card, None if it does not exist.*)
  reviewed,         (* Cards with repetitions > 0.                           *)
  \* The requests in progress
  pc,               (* The step each comes to next.                          *)
  lesson, key,      (* What it is about.                                     *)
  number,           (* The last number it read and still uses.               *)
  closing,          (* "full": it closes, or will, the conversation; "empty":*)
                    (* the flashcards with it; "review": it is a card review.*)
  \* History
  mastered,         (* <<module, structure>>: the cap was committed once.    *)
  waived            (* Modules closed by complete_module, on the tutor's word*)

rows    == << productions, conversation, flashcards >>
deck    == << cardOf, reviewed >>
history == << mastered, waived >>
calls   == << pc, lesson, key, number, closing >>
vars    == << rows, deck, calls, history >>

(***************************************************************************)
(* services/curriculum.rs                                                  *)
(***************************************************************************)

\* ModuleProgress::completed.
EitherHalf(m) == m \in conversation \/ m \in flashcards
Completed(m)  == m \in conversation /\ m \in flashcards

EarlierCompleted(m) == \A j \in Modules : j < m => Completed(j)

\* module_states: previous_completed has been carried through every module.
ModuleState(m) ==
  IF ~ EarlierCompleted(m) THEN "locked"
  ELSE IF Completed(m) THEN "completed"
  ELSE IF m \in conversation THEN "flashcards_pending"
  ELSE "current"

AnyUnfinished(m) == ModuleState(m) # "completed"

\* current_module: the first one not yet completed, if any.
IsCurrentModule(m) ==
  /\ ModuleState(m) # "completed"
  /\ \A j \in Modules : j < m => ModuleState(j) = "completed"

CompletedCount == Cardinality({m \in Modules : ModuleState(m) = "completed"})

(***************************************************************************)
(* Requests                                                                *)
(***************************************************************************)

CardsOf(m)    == {k \in Cards : cardOf[k] = m}
ReviewedOf(m) == CardsOf(m) \cap reviewed

Smaller(a, b)   == IF a <= b THEN a ELSE b

\* Locks of the record_production transactions other than c's.
RowFree(c, m, k) ==
  \A d \in Calls \ {c} :
    pc[d] \in {"count", "was", "close", "cards", "commit"} => lesson[d] # m \/ key[d] # k

ProgressFree(c, m) ==
  \A d \in Calls \ {c} :
    pc[d] \in {"cards", "commit"} /\ closing[d] # "no" => lesson[d] # m

Goto(c, step) == pc' = [pc EXCEPT ![c] = step]

Done(c) ==
  /\ Goto(c, "idle")
  /\ lesson'  = [lesson  EXCEPT ![c] = None]
  /\ key'     = [key     EXCEPT ![c] = None]
  /\ number'  = [number  EXCEPT ![c] = 0]
  /\ closing' = [closing EXCEPT ![c] = "no"]

(***************************************************************************)
(* POST /modules/{lesson}/production                                       *)
(***************************************************************************)

\* The handler's check: only the current module takes productions.
Produce(c, m, k) ==
  /\ pc[c] = "idle" /\ IsCurrentModule(m)
  /\ Goto(c, "read")
  /\ lesson' = [lesson EXCEPT ![c] = m]
  /\ key'    = [key    EXCEPT ![c] = k]
  /\ UNCHANGED << rows, deck, number, closing, history >>

\* The transaction begins with the current count, read without a lock.
ReadProductions(c) ==
  /\ pc[c] = "read"
  /\ number' = [number EXCEPT ![c] = Smaller(productions[lesson[c]][key[c]] + 1, Cap)]
  /\ Goto(c, "write")
  /\ UNCHANGED << rows, deck, lesson, key, closing, history >>

\* The upsert locks the row; the count is written for this transaction only.
WriteProductions(c) ==
  /\ pc[c] = "write"
  /\ RowFree(c, lesson[c], key[c])
  /\ Goto(c, "count")
  /\ UNCHANGED << rows, deck, lesson, key, number, closing, history >>

\* productions.ge(cap), over what is committed and this transaction's own row.
KeysDone(c) ==
  {k \in Keys : (IF k = key[c] THEN number[c] ELSE productions[lesson[c]][k]) >= Cap}

OneShort(c) == Cardinality(KeysDone(c)) + 1 >= Cardinality(Keys)
AllDone(c)  == Cardinality(KeysDone(c)) >= Cardinality(Keys)

CountDone(c) ==
  /\ pc[c] = "count"
  /\ closing' = [closing EXCEPT ![c] = IF AllDone(c) THEN "full" ELSE "no"]
  /\ Goto(c, "was")
  /\ UNCHANGED << rows, deck, lesson, key, number, history >>

\* was_done, and with it just_closed.
ReadWasDone(c) ==
  /\ pc[c] = "was"
  /\ IF closing[c] = "full" /\ lesson[c] \notin conversation
       THEN Goto(c, "close") /\ UNCHANGED closing
       ELSE Goto(c, "commit") /\ closing' = [closing EXCEPT ![c] = "no"]
  /\ UNCHANGED << rows, deck, lesson, key, number, history >>

\* The upsert of conversation_done locks the module's row.
CloseConversation(c) ==
  /\ pc[c] = "close"
  /\ ProgressFree(c, lesson[c])
  /\ Goto(c, "cards")
  /\ UNCHANGED << rows, deck, lesson, key, number, closing, history >>

\* "a module whose conversation minted no cards has nothing to review"
CountCards(c) ==
  /\ pc[c] = "cards"
  /\ closing' = [closing EXCEPT ![c] = IF CardsOf(lesson[c]) = {} THEN "empty" ELSE "full"]
  /\ Goto(c, "commit")
  /\ UNCHANGED << rows, deck, lesson, key, number, history >>

CommitProduction(c) ==
  /\ pc[c] = "commit"
  /\ LET m == lesson[c]  k == key[c] IN
       /\ productions'  = [productions EXCEPT ![m][k] = number[c]]
       /\ conversation' = conversation \cup IF closing[c] = "no" THEN {} ELSE {m}
       /\ flashcards'   = flashcards \cup IF closing[c] = "empty" THEN {m} ELSE {}
       /\ mastered'     = mastered \cup IF number[c] = Cap THEN {<< m, k >>} ELSE {}
  /\ Done(c)
  /\ UNCHANGED << deck, waived >>

(***************************************************************************)
(* POST /modules/{lesson}/complete-conversation                            *)
(***************************************************************************)

\* The tutor's complete_module: the same check, whatever was produced.
Complete(c, m) ==
  /\ pc[c] = "idle" /\ IsCurrentModule(m)
  /\ Goto(c, "set")
  /\ lesson' = [lesson EXCEPT ![c] = m]
  /\ UNCHANGED << rows, deck, key, number, closing, history >>

SetConversation(c) ==
  /\ pc[c] = "set"
  /\ ProgressFree(c, lesson[c])
  /\ conversation' = conversation \cup {lesson[c]}
  /\ waived' = waived \cup {lesson[c]}
  /\ Goto(c, "total")
  /\ UNCHANGED << productions, flashcards, deck, lesson, key, number, closing, mastered >>

(***************************************************************************)
(* Flashcards                                                              *)
(***************************************************************************)

\* POST /flashcards: the tutor mints a card for the module it believes is open;
\* the handler takes any.
CreateCard(k, m) ==
  /\ cardOf[k] = None
  /\ cardOf' = [cardOf EXCEPT ![k] = m]
  /\ UNCHANGED << rows, reviewed, calls, history >>

DeleteCard(k) ==
  /\ cardOf[k] # None
  /\ cardOf' = [cardOf EXCEPT ![k] = None]
  /\ reviewed' = reviewed \ {k}
  /\ UNCHANGED << rows, calls, history >>

\* POST /flashcards/{id}/review: record_review, then the counts.
Review(c, k) ==
  /\ pc[c] = "idle" /\ cardOf[k] # None
  /\ reviewed' = reviewed \cup {k}
  /\ lesson' = [lesson EXCEPT ![c] = cardOf[k]]
  /\ Goto(c, "total")
  /\ closing' = [closing EXCEPT ![c] = "review"]
  /\ UNCHANGED << rows, cardOf, key, number, history >>

\* flashcard_counts: two statements.
CountTotal(c) ==
  /\ pc[c] = "total"
  /\ number' = [number EXCEPT ![c] = Cardinality(CardsOf(lesson[c]))]
  /\ Goto(c, "reviewed")
  /\ UNCHANGED << rows, deck, lesson, key, closing, history >>

\* The deck is cleared; only complete_conversation takes an empty one for that.
Cleared(c) ==
  /\ Cardinality(ReviewedOf(lesson[c])) >= number[c]
  /\ number[c] > 0 \/ closing[c] # "review"

CountReviewed(c) ==
  /\ pc[c] = "reviewed"
  /\ \/ Cleared(c) /\ Goto(c, "flag") /\ UNCHANGED << lesson, key, number, closing >>
     \/ ~ Cleared(c) /\ Done(c)
  /\ UNCHANGED << rows, deck, history >>

SetFlashcards(c) ==
  /\ pc[c] = "flag"
  /\ ProgressFree(c, lesson[c])
  /\ flashcards' = flashcards \cup {lesson[c]}
  /\ Done(c)
  /\ UNCHANGED << productions, conversation, deck, history >>

\* A statement fails, or TimeoutLayer drops a handler that stands between two
\* units of work: an open transaction is rolled back, what was committed stays.
Abort(c) ==
  /\ pc[c] # "idle"
  /\ Done(c)
  /\ UNCHANGED << rows, deck, history >>

(***************************************************************************)
(* The specification                                                       *)
(***************************************************************************)

Init ==
  /\ productions = [m \in Modules |-> [k \in Keys |-> 0]]
  /\ conversation = {} /\ flashcards = {}
  /\ cardOf = [k \in Cards |-> None] /\ reviewed = {}
  /\ pc      = [c \in Calls |-> "idle"]
  /\ lesson  = [c \in Calls |-> None]
  /\ key     = [c \in Calls |-> None]
  /\ number  = [c \in Calls |-> 0]
  /\ closing = [c \in Calls |-> "no"]
  /\ mastered = {} /\ waived = {}

Arrive(c) ==
  \/ \E m \in Modules : Complete(c, m) \/ \E k \in Keys : Produce(c, m, k)
  \/ \E k \in Cards : Review(c, k)

Handle(c) ==
  \/ ReadProductions(c) \/ WriteProductions(c) \/ CountDone(c) \/ ReadWasDone(c)
  \/ CloseConversation(c) \/ CountCards(c) \/ CommitProduction(c)
  \/ SetConversation(c) \/ CountTotal(c) \/ CountReviewed(c) \/ SetFlashcards(c)
  \/ Abort(c)

Next ==
  \/ \E c \in Calls : Arrive(c) \/ Handle(c)
  \/ \E k \in Cards : DeleteCard(k) \/ \E m \in Modules : CreateCard(k, m)

Spec == Init /\ [][Next]_vars

(***************************************************************************)
(* Properties                                                              *)
(***************************************************************************)

Steps == {"idle", "read", "write", "count", "was", "close", "cards", "commit",
          "set", "total", "reviewed", "flag"}

TypeOK ==
  /\ productions \in [Modules -> [Keys -> 0..Cap]]
  /\ conversation \subseteq Modules /\ flashcards \subseteq Modules
  /\ cardOf \in [Cards -> Modules \cup {None}] /\ reviewed \subseteq Cards
  /\ pc \in [Calls -> Steps]
  /\ lesson \in [Calls -> Modules \cup {None}]
  /\ key \in [Calls -> Keys \cup {None}]
  /\ number \in [Calls -> Nat]
  /\ closing \in [Calls -> {"no", "full", "empty", "review"}]
  /\ mastered \subseteq Modules \X Keys /\ waived \subseteq Modules

\* The plain count of finished rows (completed_counts_by_planet) is the number
\* of modules the state machine calls completed: "the two cannot disagree".
PlainCountAgrees ==
  Cardinality({m \in Modules : Completed(m)}) = CompletedCount

\* "a learner can never be mid-way through two modules at once, and can never
\* skip ahead" (curriculum.rs), however stale the check of a request was.
Begun(m) == m \in conversation \/ \E k \in Keys : productions[m][k] > 0

MidwayThroughOne ==
  \A m, n \in Modules : Begun(n) /\ m < n => Completed(m)

\* record_production closes a conversation only when every structure has
\* reached the cap; only the tutor's complete_module can do it sooner.
CloseIsEarned ==
  \A m \in conversation \ waived : \A k \in Keys : << m, k >> \in mastered

\* The modules implement the learner's path: one opens after the other, and
\* no late answer of the deck or the tutor takes the learner back.
Path == INSTANCE CurriculumPath
          WITH finished <- {m \in Modules : Completed(m)},
               talked <- {m \in conversation : m \notin flashcards}

KeepsPath == Path!Promise

\* "two concurrent calls cannot both see 'one short' and double-close (or never
\* close)" (record_production): with every structure at the cap and no call
\* left to close it, the conversation is closed.
NeverLeftOpen ==
  \A m \in Modules :
    (\A k \in Keys : productions[m][k] = Cap) /\ (\A c \in Calls : lesson[c] # m)
      => m \in conversation
================================================================================

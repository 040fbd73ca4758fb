--------------------------- MODULE ModuleGateProofs ----------------------------
(***************************************************************************)
(* What holds of ModuleGate for every number of modules, structures,       *)
(* flashcards and concurrent requests.                                     *)
(***************************************************************************)
EXTENDS ModuleGate, FiniteSetTheorems, TLAPS

(***************************************************************************)
(* The inductive invariant                                                 *)
(***************************************************************************)

InTransaction == {"read", "write", "count", "was", "close", "cards", "commit"}
Counted       == {"write", "count", "was", "close", "cards", "commit"}
Closers       == {"was", "close", "cards", "commit"}

\* A request that has passed its check is about a module whose predecessors
\* are over, and stays so; one that is to close a conversation has seen every
\* other structure at the cap and brings its own there.
CallOK(c) ==
  /\ pc[c] # "idle" => lesson[c] \in Modules
  /\ pc[c] \in InTransaction => key[c] \in Keys
  /\ pc[c] \in InTransaction \cup {"set"} => EarlierCompleted(lesson[c])
  /\ pc[c] \in Counted => number[c] \in 0..Cap
  /\ closing[c] \in {"full", "empty"} => pc[c] \in Closers
  /\ pc[c] \in {"close", "cards"} => closing[c] # "no"
  /\ closing[c] = "review" => pc[c] \in {"total", "reviewed", "flag"}
  /\ pc[c] \in Closers /\ closing[c] # "no"
       => \A k \in Keys : IF k = key[c] THEN number[c] = Cap
                                        ELSE << lesson[c], k >> \in mastered

\* What has begun has its predecessors behind it.
BegunOK == \A m \in Modules : Begun(m) => EarlierCompleted(m)

\* A count at the cap was committed, if not by the last commit.
MasteredOK ==
  \A m \in Modules : \A k \in Keys : productions[m][k] >= Cap => << m, k >> \in mastered

IInv ==
  /\ TypeOK
  /\ \A c \in Calls : CallOK(c)
  /\ BegunOK
  /\ MasteredOK
  /\ CloseIsEarned

(***************************************************************************)
(* Progress only grows                                                     *)
(***************************************************************************)

Grows ==
  /\ conversation \subseteq conversation'
  /\ flashcards \subseteq flashcards'
  /\ mastered \subseteq mastered'

\* No request clears a flag.
LEMMA ProgressGrows ==
  [Next]_vars => Grows
PROOF
  BY DEF Next, Arrive, Handle, vars, rows, deck, calls, history, Grows, Produce,
         ReadProductions, WriteProductions, CountDone, ReadWasDone, CloseConversation,
         CountCards, CommitProduction, Complete, SetConversation, CreateCard, DeleteCard,
         Review, CountTotal, CountReviewed, SetFlashcards, Abort

\* So what a request has checked of the earlier modules is never stale.
LEMMA EarlierStays ==
  ASSUME Grows, NEW m, EarlierCompleted(m)
  PROVE  EarlierCompleted(m)'
PROOF
  BY DEF Grows, EarlierCompleted, Completed

\* The current module is one whose predecessors are completed.
LEMMA CurrentHasEarlier ==
  ASSUME NEW m \in Modules, IsCurrentModule(m)
  PROVE  EarlierCompleted(m) /\ ~ Completed(m)
PROOF
  <1>1. \A j \in Modules : ModuleState(j) = "completed" => Completed(j)
    BY DEF ModuleState
  <1>2. EarlierCompleted(m)
    BY <1>1 DEF IsCurrentModule, EarlierCompleted
  <1> QED
    BY <1>2 DEF IsCurrentModule, ModuleState

\* done_count >= total: every structure is at the cap.
LEMMA AllDoneMeansEvery ==
  ASSUME NEW c, AllDone(c)
  PROVE  KeysDone(c) = Keys
PROOF
  <1>1. KeysDone(c) \in SUBSET Keys
    BY DEF KeysDone
  <1>2. /\ IsFiniteSet(KeysDone(c))
        /\ Cardinality(KeysDone(c)) <= Cardinality(Keys)
        /\ Cardinality(Keys) = Cardinality(KeysDone(c)) => Keys = KeysDone(c)
    BY <1>1, KeysAssumption, FS_Subset
  <1>3. Cardinality(Keys) \in Nat /\ Cardinality(KeysDone(c)) \in Nat
    BY <1>2, KeysAssumption, FS_CardinalityType
  <1> QED
    BY <1>2, <1>3 DEF AllDone

\* The counts of a deck are numbers.
LEMMA DeckCounts ==
  ASSUME NEW m
  PROVE  Cardinality(CardsOf(m)) \in Nat
PROOF
  <1>1. CardsOf(m) \in SUBSET Cards
    BY DEF CardsOf
  <1> QED
    BY <1>1, CardAssumption, FS_Subset, FS_CardinalityType

(***************************************************************************)
(* The invariant is inductive                                              *)
(***************************************************************************)

LEMMA InitInv ==
  Init => IInv
PROOF
  <1> SUFFICES ASSUME Init PROVE IInv
    OBVIOUS
  <1> USE CapAssumption
  <1>1. TypeOK
    BY DEF Init, TypeOK, Steps
  <1>2. \A c \in Calls : CallOK(c)
    BY DEF Init, CallOK, InTransaction, Counted, Closers
  <1>3. BegunOK /\ MasteredOK /\ CloseIsEarned
    BY DEF Init, BegunOK, Begun, MasteredOK, CloseIsEarned
  <1> QED
    BY <1>1, <1>2, <1>3 DEF IInv

LEMMA TypeStep ==
  ASSUME IInv, [Next]_vars
  PROVE  TypeOK'
PROOF
  <1> USE CapAssumption DEF IInv, TypeOK, CallOK, InTransaction, Counted, Closers, Steps
  <1>1. ASSUME NEW c \in Calls, NEW m \in Modules, NEW k \in Keys, Produce(c, m, k)
        PROVE  TypeOK'
    BY <1>1 DEF Produce, Goto, rows, deck, history
  <1>2. ASSUME NEW c \in Calls, ReadProductions(c)
        PROVE  TypeOK'
    <2>1. Smaller(productions[lesson[c]][key[c]] + 1, Cap) \in Nat
      BY <1>2 DEF ReadProductions, Smaller
    <2> QED
      BY <1>2, <2>1 DEF ReadProductions, Goto, rows, deck, history
  <1>3. ASSUME NEW c \in Calls,
               WriteProductions(c) \/ CountDone(c) \/ ReadWasDone(c)
                 \/ CloseConversation(c) \/ CountCards(c)
        PROVE  TypeOK'
    BY <1>3 DEF WriteProductions, CountDone, ReadWasDone, CloseConversation, CountCards,
                Goto, rows, deck, history
  <1>4. ASSUME NEW c \in Calls, CommitProduction(c)
        PROVE  TypeOK'
    <2>1. lesson[c] \in Modules /\ key[c] \in Keys /\ number[c] \in 0..Cap
      BY <1>4 DEF CommitProduction
    <2>2. productions' \in [Modules -> [Keys -> 0..Cap]]
      BY <1>4, <2>1 DEF CommitProduction
    <2>3. conversation' \subseteq Modules /\ flashcards' \subseteq Modules
      BY <1>4, <2>1 DEF CommitProduction
    <2>4. mastered' \subseteq Modules \X Keys
      BY <1>4, <2>1 DEF CommitProduction
    <2> QED
      BY <1>4, <2>2, <2>3, <2>4 DEF CommitProduction, Done, Goto, deck
  <1>5. ASSUME NEW c \in Calls, NEW m \in Modules, Complete(c, m)
        PROVE  TypeOK'
    BY <1>5 DEF Complete, Goto, rows, deck, history
  <1>6. ASSUME NEW c \in Calls, SetConversation(c) \/ SetFlashcards(c)
        PROVE  TypeOK'
    <2>1. lesson[c] \in Modules
      BY <1>6 DEF SetConversation, SetFlashcards
    <2>2. CASE SetConversation(c)
      BY <2>1, <2>2 DEF SetConversation, Goto, deck
    <2>3. CASE SetFlashcards(c)
      BY <2>1, <2>3 DEF SetFlashcards, Done, Goto, deck, history
    <2> QED
      BY <1>6, <2>2, <2>3
  <1>7. ASSUME NEW k \in Cards, DeleteCard(k) \/ \E m \in Modules : CreateCard(k, m)
        PROVE  TypeOK'
    BY <1>7 DEF CreateCard, DeleteCard, rows, calls, history
  <1>8. ASSUME NEW c \in Calls, NEW k \in Cards, Review(c, k)
        PROVE  TypeOK'
    BY <1>8 DEF Review, Goto, rows, history
  <1>9. ASSUME NEW c \in Calls, CountTotal(c) \/ CountReviewed(c)
        PROVE  TypeOK'
    <2>1. Cardinality(CardsOf(lesson[c])) \in Nat
      BY DeckCounts
    <2> QED
      BY <1>9, <2>1 DEF CountTotal, CountReviewed, Done, Goto, rows, deck, history
  <1>10. ASSUME NEW c \in Calls, Abort(c)
         PROVE  TypeOK'
    BY <1>10 DEF Abort, Done, Goto, rows, deck, history
  <1>11. CASE UNCHANGED vars
    BY <1>11 DEF vars, rows, deck, calls, history
  <1> HIDE DEF IInv, TypeOK
  <1>12. ASSUME NEW c \in Calls, Arrive(c)
         PROVE  TypeOK'
    BY <1>1, <1>5, <1>8, <1>12 DEF Arrive
  <1>13. ASSUME NEW c \in Calls, Handle(c)
         PROVE  TypeOK'
    BY <1>2, <1>3, <1>4, <1>6, <1>9, <1>10, <1>13 DEF Handle
  <1> QED
    BY <1>7, <1>11, <1>12, <1>13 DEF Next

\* A request that takes no step keeps what it has checked and counted.
LEMMA CallKept ==
  ASSUME NEW d \in Calls, CallOK(d), Grows,
         UNCHANGED << pc[d], lesson[d], key[d], number[d], closing[d] >>
  PROVE  CallOK(d)'
PROOF
  BY DEF CallOK, Grows, EarlierCompleted, Completed

\* A request that is over has nothing left to keep.
LEMMA DoneOK ==
  ASSUME TypeOK, NEW c \in Calls, Done(c)
  PROVE  CallOK(c)'
PROOF
  BY DEF TypeOK, Done, Goto, CallOK, InTransaction, Counted, Closers

LEMMA CallStep ==
  ASSUME IInv, [Next]_vars, NEW d \in Calls
  PROVE  CallOK(d)'
PROOF
  <1> USE DEF InTransaction, Counted, Closers
  <1>0. Grows /\ CallOK(d) /\ TypeOK
    BY ProgressGrows DEF IInv
  <1>1. ASSUME NEW m \in Modules, NEW k \in Keys, Produce(d, m, k)
        PROVE  CallOK(d)'
    <2>1. EarlierCompleted(m)
      BY <1>1, CurrentHasEarlier DEF Produce
    <2> QED
      BY <1>0, <1>1, <2>1 DEF Produce, Goto, CallOK, TypeOK, Grows, EarlierCompleted, Completed
  <1>2. ASSUME NEW m \in Modules, Complete(d, m)
        PROVE  CallOK(d)'
    <2>1. EarlierCompleted(m)
      BY <1>2, CurrentHasEarlier DEF Complete
    <2> QED
      BY <1>0, <1>2, <2>1 DEF Complete, Goto, CallOK, TypeOK, Grows, EarlierCompleted, Completed
  <1>3. CASE ReadProductions(d)
    <2>1. /\ lesson[d] \in Modules /\ key[d] \in Keys
          /\ productions[lesson[d]][key[d]] \in 0..Cap
      BY <1>0, <1>3 DEF ReadProductions, CallOK, TypeOK
    <2>2. Smaller(productions[lesson[d]][key[d]] + 1, Cap) \in 0..Cap
      BY <2>1, CapAssumption DEF Smaller
    <2> QED
      BY <1>0, <1>3, <2>2
         DEF ReadProductions, Goto, CallOK, TypeOK, Grows, EarlierCompleted, Completed
  <1>4. CASE WriteProductions(d) \/ CloseConversation(d)
    BY <1>0, <1>4 DEF WriteProductions, CloseConversation, Goto, CallOK, TypeOK, rows, deck,
                      history, Grows, EarlierCompleted, Completed
  <1>5. CASE CountDone(d)
    <2>1. lesson[d] \in Modules /\ key[d] \in Keys /\ number[d] \in 0..Cap
      BY <1>0, <1>5 DEF CountDone, CallOK
    <2>2. ASSUME AllDone(d), NEW k \in Keys
          PROVE  IF k = key[d] THEN number[d] = Cap ELSE << lesson[d], k >> \in mastered
      <3>1. k \in KeysDone(d)
        BY <2>2, AllDoneMeansEvery
      <3> QED
        BY <2>1, <3>1, CapAssumption DEF KeysDone, IInv, MasteredOK
    <2> QED
      BY <1>0, <1>5, <2>1, <2>2 DEF CountDone, Goto, CallOK, TypeOK, rows, deck, history,
                                    EarlierCompleted, Completed
  <1>6. CASE ReadWasDone(d) \/ CountCards(d)
    <2>1. UNCHANGED << lesson[d], key[d], number[d], history, rows >>
      BY <1>6 DEF ReadWasDone, CountCards
    <2>2. CASE ReadWasDone(d)
      <3>1. \/ pc'[d] = "close" /\ closing'[d] = closing[d] /\ closing[d] = "full"
            \/ pc'[d] = "commit" /\ closing'[d] = "no"
        BY <1>0, <2>2 DEF ReadWasDone, Goto, TypeOK
      <3>2. pc[d] = "was"
        BY <2>2 DEF ReadWasDone
      <3> QED
        BY <1>0, <2>1, <3>1, <3>2 DEF CallOK, rows, history, EarlierCompleted, Completed
    <2>3. CASE CountCards(d)
      <3>1. pc[d] = "cards" /\ pc'[d] = "commit" /\ closing'[d] \in {"full", "empty"}
        BY <1>0, <2>3 DEF CountCards, Goto, TypeOK
      <3> QED
        BY <1>0, <2>1, <3>1 DEF CallOK, rows, history, EarlierCompleted, Completed
    <2> QED
      BY <1>6, <2>2, <2>3
  <1>7. CASE CommitProduction(d) \/ SetFlashcards(d) \/ Abort(d)
    BY <1>0, <1>7, DoneOK DEF CommitProduction, SetFlashcards, Abort
  <1>8. CASE SetConversation(d)
    BY <1>0, <1>8 DEF SetConversation, Goto, CallOK, TypeOK
  <1>9. ASSUME NEW k \in Cards, Review(d, k)
        PROVE  CallOK(d)'
    BY <1>0, <1>9 DEF Review, Goto, CallOK, TypeOK
  <1>10. CASE CountTotal(d)
    BY <1>0, <1>10 DEF CountTotal, Goto, CallOK, TypeOK
  <1>11. CASE CountReviewed(d)
    BY <1>0, <1>11, DoneOK DEF CountReviewed, Goto, CallOK, TypeOK
  <1>12. ASSUME NEW c \in Calls \ {d}, Arrive(c) \/ Handle(c)
         PROVE  CallOK(d)'
    <2>1. UNCHANGED << pc[d], lesson[d], key[d], number[d], closing[d] >>
      BY <1>0, <1>12 DEF TypeOK, Arrive, Handle, Goto, Done, Produce, Complete, Review,
         ReadProductions, WriteProductions, CountDone, ReadWasDone, CloseConversation,
         CountCards, CommitProduction, SetConversation, CountTotal, CountReviewed,
         SetFlashcards, Abort
    <2> QED
      BY <1>0, <2>1, CallKept
  <1>13. ASSUME UNCHANGED calls
         PROVE  CallOK(d)'
    BY <1>0, <1>13, CallKept DEF calls
  <1>14. CASE Arrive(d) \/ Handle(d)
    BY <1>1, <1>2, <1>3, <1>4, <1>5, <1>6, <1>7, <1>8, <1>9, <1>10, <1>11, <1>14
       DEF Arrive, Handle
  <1> QED
    BY <1>12, <1>13, <1>14 DEF Next, vars, CreateCard, DeleteCard

\* Only three steps write to the rows of the curriculum.
LEMMA RowStep ==
  ASSUME [Next]_vars
  PROVE  \/ UNCHANGED << rows, history >>
         \/ \E c \in Calls : CommitProduction(c) \/ SetConversation(c) \/ SetFlashcards(c)
PROOF
  BY DEF Next, Arrive, Handle, vars, Produce, ReadProductions, WriteProductions, CountDone,
         ReadWasDone, CloseConversation, CountCards, Complete, CreateCard, DeleteCard,
         Review, CountTotal, CountReviewed, Abort

\* What a commit writes: a count for a module that is open or over.
LEMMA CommitRow ==
  ASSUME IInv, NEW c \in Calls, CommitProduction(c)
  PROVE  /\ lesson[c] \in Modules /\ key[c] \in Keys /\ number[c] \in 0..Cap
         /\ EarlierCompleted(lesson[c])
         /\ \A m \in Modules : \A k \in Keys :
              productions'[m][k] = IF m = lesson[c] /\ k = key[c]
                                     THEN number[c] ELSE productions[m][k]
PROOF
  <1>1. CallOK(c) /\ pc[c] = "commit" /\ TypeOK
    BY DEF IInv, CommitProduction
  <1>2. lesson[c] \in Modules /\ key[c] \in Keys /\ number[c] \in 0..Cap
    BY <1>1 DEF CallOK, InTransaction, Counted
  <1>3. EarlierCompleted(lesson[c])
    BY <1>1 DEF CallOK, InTransaction
  <1> QED
    BY <1>1, <1>2, <1>3 DEF CommitProduction, TypeOK

LEMMA BegunStep ==
  ASSUME IInv, [Next]_vars
  PROVE  BegunOK'
PROOF
  <1>0. Grows /\ TypeOK /\ BegunOK
    BY ProgressGrows DEF IInv
  <1> SUFFICES ASSUME NEW m \in Modules, Begun(m)'
               PROVE  EarlierCompleted(m)'
    BY DEF BegunOK
  <1>1. CASE Begun(m)
    BY <1>0, <1>1 DEF BegunOK, Grows, EarlierCompleted, Completed
  <1>2. ASSUME NEW c \in Calls, CommitProduction(c), ~ Begun(m)
        PROVE  EarlierCompleted(m)'
    <2>1. m = lesson[c]
      BY <1>0, <1>2, CommitRow DEF Begun, CommitProduction
    <2>2. EarlierCompleted(lesson[c])
      BY <1>2, CommitRow
    <2> QED
      BY <1>0, <2>1, <2>2 DEF Grows, EarlierCompleted, Completed
  <1>3. ASSUME NEW c \in Calls, SetConversation(c), ~ Begun(m)
        PROVE  EarlierCompleted(m)'
    <2>1. m = lesson[c]
      BY <1>0, <1>3 DEF Begun, SetConversation
    <2>2. EarlierCompleted(lesson[c])
      BY <1>3 DEF IInv, CallOK, SetConversation
    <2> QED
      BY <1>0, <2>1, <2>2 DEF Grows, EarlierCompleted, Completed
  <1>4. ASSUME NEW c \in Calls, SetFlashcards(c)
        PROVE  Begun(m)
    BY <1>4 DEF SetFlashcards, Begun
  <1>5. ASSUME UNCHANGED << rows, history >>
        PROVE  Begun(m)
    BY <1>5 DEF rows, Begun
  <1> QED
    BY <1>1, <1>2, <1>3, <1>4, <1>5, RowStep

LEMMA MasteredStep ==
  ASSUME IInv, [Next]_vars
  PROVE  MasteredOK'
PROOF
  <1>0. Grows /\ TypeOK /\ MasteredOK
    BY ProgressGrows DEF IInv
  <1> SUFFICES ASSUME NEW m \in Modules, NEW k \in Keys, productions'[m][k] >= Cap
               PROVE  << m, k >> \in mastered'
    BY DEF MasteredOK
  <1>1. CASE productions[m][k] >= Cap
    BY <1>0, <1>1 DEF MasteredOK, Grows
  <1>2. ASSUME NEW c \in Calls, CommitProduction(c), ~ productions[m][k] >= Cap
        PROVE  << m, k >> \in mastered'
    <2>1. m = lesson[c] /\ k = key[c] /\ number[c] >= Cap
      BY <1>2, CommitRow
    <2>2. number[c] = Cap
      BY <1>2, <2>1, CommitRow, CapAssumption
    <2> QED
      BY <1>2, <2>1, <2>2 DEF CommitProduction
  <1>3. ASSUME UNCHANGED productions
        PROVE  productions[m][k] >= Cap
    BY <1>3
  <1> QED
    BY <1>1, <1>2, <1>3, RowStep DEF rows, SetConversation, SetFlashcards

LEMMA EarnedStep ==
  ASSUME IInv, [Next]_vars
  PROVE  CloseIsEarned'
PROOF
  <1>0. Grows /\ TypeOK /\ CloseIsEarned
    BY ProgressGrows DEF IInv
  <1> SUFFICES ASSUME NEW m \in conversation' \ waived', NEW k \in Keys
               PROVE  << m, k >> \in mastered'
    BY DEF CloseIsEarned
  <1>1. ASSUME m \in conversation \ waived
        PROVE  << m, k >> \in mastered'
    BY <1>0, <1>1 DEF CloseIsEarned, Grows
  <1>2. ASSUME NEW c \in Calls, CommitProduction(c), m \notin conversation \ waived
        PROVE  << m, k >> \in mastered'
    <2>1. m = lesson[c] /\ closing[c] # "no"
      BY <1>2 DEF CommitProduction
    <2>2. CallOK(c) /\ pc[c] \in Closers
      BY <1>2 DEF IInv, CommitProduction, Closers
    <2>3. IF k = key[c] THEN number[c] = Cap ELSE << lesson[c], k >> \in mastered
      BY <2>1, <2>2 DEF CallOK
    <2> QED
      BY <1>0, <1>2, <2>1, <2>3 DEF CommitProduction
  <1>3. ASSUME NEW c \in Calls, SetConversation(c) \/ SetFlashcards(c)
        PROVE  m \in conversation \ waived
    BY <1>3 DEF SetConversation, SetFlashcards, history
  <1>4. ASSUME UNCHANGED << rows, history >>
        PROVE  m \in conversation \ waived
    BY <1>4 DEF rows, history
  <1> QED
    BY <1>1, <1>2, <1>3, <1>4, RowStep

LEMMA NextInv ==
  IInv /\ [Next]_vars => IInv'
PROOF
  <1> SUFFICES ASSUME IInv, [Next]_vars PROVE IInv'
    OBVIOUS
  <1>1. \A d \in Calls : CallOK(d)'
    BY CallStep
  <1> QED
    BY <1>1, TypeStep, BegunStep, MasteredStep, EarnedStep DEF IInv

(***************************************************************************)
(* Theorems                                                                *)
(***************************************************************************)

\* The inductive invariant holds of every execution of the handlers.
THEOREM Invariance == Spec => []IInv
PROOF
  BY InitInv, NextInv, PTL DEF Spec

\* The rows and the requests' state keep their types; no count passes the cap.
THEOREM TypeCorrect == Spec => []TypeOK
PROOF
  <1>1. IInv => TypeOK
    BY DEF IInv
  <1> QED
    BY <1>1, Invariance, PTL

\* record_production never closes a conversation that was not earned.
THEOREM ClosingIsEarned == Spec => []CloseIsEarned
PROOF
  <1>1. IInv => CloseIsEarned
    BY DEF IInv
  <1> QED
    BY <1>1, Invariance, PTL

\* No learner is mid-way through two modules, or ahead of an unfinished one,
\* whatever the requests in flight have checked before.
THEOREM OneModuleAtATime == Spec => []MidwayThroughOne
PROOF
  <1>1. IInv => MidwayThroughOne
    BY DEF IInv, BegunOK, MidwayThroughOne, EarlierCompleted
  <1> QED
    BY <1>1, Invariance, PTL

\* Counting the finished rows counts the modules the state machine completes.
THEOREM PlainCount == Spec => []PlainCountAgrees
PROOF
  <1>1. ASSUME IInv
        PROVE  PlainCountAgrees
    <2>1. \A m \in Modules : Completed(m) <=> ModuleState(m) = "completed"
      BY <1>1 DEF IInv, BegunOK, Begun, ModuleState, Completed
    <2>2. {m \in Modules : Completed(m)} = {m \in Modules : ModuleState(m) = "completed"}
      BY <2>1
    <2> QED
      BY <2>2 DEF PlainCountAgrees, CompletedCount
  <1> QED
    BY <1>1, Invariance, PTL

(***************************************************************************)
(* The learner's path                                                      *)
(***************************************************************************)

PathStep == [\E m \in 1..N : Path!Talk(m) \/ Path!Finish(m)]_(Path!path)

\* Flags raised for one module that is open, or over, move the learner on by a
\* step or not at all.
LEMMA RaisedFlags ==
  ASSUME TypeOK, NEW m \in Modules, EarlierCompleted(m),
         conversation' \in {conversation, conversation \cup {m}},
         flashcards' \in {flashcards, flashcards \cup {m}}
  PROVE  PathStep
PROOF
  <1> DEFINE finished == {j \in Modules : Completed(j)}
             talked   == {j \in conversation : j \notin flashcards}
  <1>1. CASE Completed(m)
    <2>1. conversation' = conversation /\ flashcards' = flashcards
      BY <1>1 DEF Completed
    <2> QED
      BY <2>1 DEF PathStep, Path!path, Completed
  <1>2. CASE ~ Completed(m)
    <2>1. Path!Open(m)
      BY <1>2 DEF Path!Open, EarlierCompleted, Modules
    <2>2. CASE Completed(m)'
      <3>1. finished' = finished \cup {m} /\ talked' = talked \ {m}
        BY <2>2 DEF Completed
      <3>2. Path!Finish(m)
        BY <2>1, <3>1 DEF Path!Finish
      <3> QED
        BY <3>2 DEF PathStep, Modules
    <2>3. CASE ~ Completed(m)' /\ m \in conversation' /\ m \notin conversation
      <3>1. finished' = finished /\ talked' = talked \cup {m} /\ m \notin talked
        BY <1>2, <2>3 DEF Completed
      <3>2. Path!Talk(m)
        BY <2>1, <3>1 DEF Path!Talk
      <3> QED
        BY <3>2 DEF PathStep, Modules
    <2>4. CASE ~ Completed(m)' /\ ~ (m \in conversation' /\ m \notin conversation)
      <3>1. finished' = finished /\ talked' = talked
        BY <1>2, <2>4 DEF Completed
      <3> QED
        BY <3>1 DEF PathStep, Path!path
    <2> QED
      BY <2>2, <2>3, <2>4
  <1> QED
    BY <1>1, <1>2

LEMMA StepKeepsPath ==
  ASSUME IInv, [Next]_vars
  PROVE  PathStep
PROOF
  <1>0. TypeOK /\ BegunOK
    BY DEF IInv
  <1>1. ASSUME UNCHANGED << rows, history >>
        PROVE  PathStep
    BY <1>1 DEF rows, PathStep, Path!path, Completed
  <1>2. ASSUME NEW c \in Calls, CommitProduction(c)
        PROVE  PathStep
    <2>1. PICK m \in Modules : m = lesson[c] /\ EarlierCompleted(m)
      BY <1>2, CommitRow
    <2>2. /\ conversation' \in {conversation, conversation \cup {m}}
          /\ flashcards' \in {flashcards, flashcards \cup {m}}
      BY <1>2, <2>1 DEF CommitProduction
    <2> QED
      BY <1>0, <2>1, <2>2, RaisedFlags
  <1>3. ASSUME NEW c \in Calls, SetConversation(c)
        PROVE  PathStep
    <2>1. PICK m \in Modules : m = lesson[c] /\ EarlierCompleted(m)
      BY <1>3 DEF SetConversation, IInv, CallOK
    <2>2. conversation' = conversation \cup {m} /\ flashcards' = flashcards
      BY <1>3, <2>1 DEF SetConversation
    <2> QED
      BY <1>0, <2>1, <2>2, RaisedFlags
  <1>4. ASSUME NEW c \in Calls, SetFlashcards(c)
        PROVE  PathStep
    <2>1. PICK m \in Modules : m = lesson[c]
      BY <1>4 DEF SetFlashcards, IInv, CallOK
    <2>2. conversation' = conversation /\ flashcards' = flashcards \cup {m}
      BY <1>4, <2>1 DEF SetFlashcards
    <2>3. CASE m \in conversation
      <3>1. EarlierCompleted(m)
        BY <1>0, <2>3 DEF BegunOK, Begun
      <3> QED
        BY <1>0, <2>2, <3>1, RaisedFlags
    <2>4. CASE m \notin conversation
      BY <2>2, <2>4 DEF PathStep, Path!path, Completed
    <2> QED
      BY <2>3, <2>4
  <1> QED
    BY <1>1, <1>2, <1>3, <1>4, RowStep

\* The handlers implement the learner's path: modules open one after the other,
\* each by its conversation and then its flashcards, and never the other way.
THEOREM Refinement == Spec => KeepsPath
PROOF
  <1>1. Init => Path!Start
    BY DEF Init, Path!Start, Completed
  <1>2. IInv /\ [Next]_vars => PathStep
    BY StepKeepsPath
  <1> QED
    BY <1>1, <1>2, Invariance, PTL DEF Spec, KeepsPath, Path!Promise, PathStep
================================================================================

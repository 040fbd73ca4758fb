------------------------- MODULE LearningRecordsProofs --------------------------
(***************************************************************************)
(* What LearningRecords promises whatever the planet, the deck, the badges *)
(* and the requests that run side by side: proofs for TLAPS.               *)
(*                                                                         *)
(* A row locked FOR UPDATE is the row as it stands until it is written, so *)
(* every write of XP, streak and metrics builds on the one before.  What   *)
(* is counted without a lock is exact as long as one request counts.       *)
(***************************************************************************)
EXTENDS LearningRecords, FiniteSetTheorems, TLAPS

NSentences == Cardinality(Sentences)
NCards     == Cardinality(StudyCards)

Shares     == (0..NCards) \X (0..NCards)
PlanetRows == [sentences : 0..NSentences, flashcards : Shares, judged : 0..MaxGrade]
StatsRows  == [xp : Nat, streak : Nat, longest : Nat, last : Nat \cup {NoDay}]
Seen       == [span : {"new", "short", "long"}, verified : BOOLEAN]
Ratings    == {"hard", "medium", "easy"}

Spans      == {"unmade", "new", "short", "long", "deleted"}
Path       == 1 .. LastTaught

Steps == {"idle", "upsert", "commit", "metric", "planet", "review", "count", "graduates", "clock",
          "touch", "stats", "close", "talk", "deck"}

RequestTypes ==
  [at : Steps, on : Sentences \cup StudyCards \cup Path \cup {NoRow},
   value : BOOLEAN \cup Ratings \cup {NoRow}, saw : BOOLEAN \cup Seen \cup {NoRow},
   metric : {"none", "sentences", "flashcards", "judged"}, count : Int, of : 0..NCards,
   due : Nat, now : 0..MaxClock, row : PlanetRows \cup StatsRows \cup {NoRow}]

\* What a request carries at each step.
StepOK(q) ==
  /\ q.at = "idle" => q = Idle
  /\ q.at \in {"upsert", "commit"} =>
       q.metric = "sentences" /\ q.on \in Sentences /\ q.value \in BOOLEAN /\ q.saw \in BOOLEAN
  /\ q.at = "commit" => q.count \in 0..NSentences
  /\ q.at \in {"metric", "planet"} =>
       /\ q.metric # "none"
       /\ q.metric = "sentences"  => q.count \in 0..NSentences
       /\ q.metric = "flashcards" => q.count \in 0..NCards
  /\ q.at = "review" =>
       q.on \in StudyCards /\ q.value \in Ratings /\ q.saw \in Seen
  /\ q.at \in {"review", "count"} => q.metric = "flashcards" /\ q.count = 0
  /\ q.at = "graduates" => q.metric = "flashcards"
  /\ q.at \in {"clock", "touch", "stats"} => q.metric \in {"none", "sentences"}
  /\ q.at \in {"close", "talk", "deck"} => q.metric = "sentences"
  /\ q.at \in {"talk", "deck"} => q.on \in Path

RequestsOK ==
  /\ request \in [Requests -> RequestTypes]
  /\ \A r \in Requests : StepOK(request[r])

RowsOK ==
  /\ learned \subseteq Sentences /\ verified \subseteq Owned /\ claimed \subseteq Owned
  /\ span \in [StudyCards -> Spans] /\ uncounted \in BOOLEAN
  /\ arrivals \in 0..MaxArrivals /\ corrections \in 0..arrivals
  /\ planet \in PlanetRows /\ stats \in StatsRows /\ stats.streak <= stats.longest
  /\ module \in [Path -> {"current", "talked", "completed"}]
  /\ badges \subseteq Rules /\ touched \in Nat
  /\ clock \in 0..MaxClock /\ zone \in {0, 1}
  /\ crossed \subseteq Sentences /\ graded \in 0..MaxGrade

\* A locked row is the row as it stands, and locked once.
LocksOK ==
  /\ \A r \in Requests : At(r, "planet") => request[r].row = planet
  /\ \A r \in Requests : At(r, "stats")  => request[r].row = stats
  /\ \A r, o \in Requests : At(r, "planet") /\ At(o, "planet") => r = o
  /\ \A r, o \in Requests : At(r, "stats") /\ At(o, "stats") => r = o
  /\ \A r, o \in Requests :
       At(r, "commit") /\ At(o, "commit") /\ request[r].on = request[o].on => r = o

\* A sentence mastered since a request first read that it was not is one that two marked.
CrossedOK ==
  \A r \in Requests :
    At(r, "upsert") \/ At(r, "commit") =>
      (request[r].on \in learned /\ request[r].saw # TRUE => request[r].on \in crossed)

Over == learned = Sentences => module[1] = "completed"
OnlyOne(kind) == \A r, o \in About(kind) : r = o

\* As long as the requests that count sentences came one by one.
CountsSentences(r) ==
  /\ At(r, "upsert") \/ At(r, "commit") =>
       /\ planet.sentences = Cardinality(learned) /\ Over
       /\ request[r].saw = (request[r].on \in learned)
  /\ At(r, "commit") =>
       /\ request[r].count = Cardinality(WithMark(r))
       /\ request[r].due = IF Newly(r) THEN 8 ELSE 0
  /\ At(r, "metric") \/ At(r, "planet") =>
       request[r].count = Cardinality(learned) /\ (request[r].due = 0 => Over)
  /\ At(r, "clock") \/ At(r, "touch") \/ At(r, "stats") =>
       request[r].count = Cardinality(learned) /\ planet.sentences = Cardinality(learned)
  /\ At(r, "close") \/ At(r, "talk") \/ At(r, "deck") => planet.sentences = Cardinality(learned)
  /\ (At(r, "talk") \/ At(r, "deck")) /\ request[r].on # 1 => module[1] = "completed"

SentencesOK ==
  "sentences" \notin mixed =>
    /\ OnlyOne("sentences")
    /\ Settled("sentences") => planet.sentences = Cardinality(learned) /\ Over
    /\ \A r \in About("sentences") : CountsSentences(r)

\* As long as the requests that count cards came one by one, and since a card was made or
\* deleted some request has counted.
Counted == planet.flashcards = << Cardinality(Graduated), Cardinality(Owned) >>

CountsCards(r) ==
  /\ At(r, "review") =>
       span[request[r].on] # "unmade" /\ (request[r].on \in Owned \/ uncounted)
  /\ At(r, "review") /\ request[r].on \in Owned =>
       request[r].saw.verified = (request[r].on \in verified)
  /\ At(r, "graduates") => uncounted \/ request[r].of = Cardinality(Owned)
  /\ At(r, "metric") \/ At(r, "planet") =>
       uncounted \/ (request[r].count = Cardinality(Graduated) /\ request[r].of = Cardinality(Owned))

CardsOK ==
  "flashcards" \notin mixed =>
    /\ OnlyOne("flashcards")
    /\ claimed \cap verified = {}
    /\ Settled("flashcards") => uncounted \/ Counted
    /\ \A r \in About("flashcards") : CountsCards(r)

DaysOK ==
  /\ active \subseteq 0..(MaxClock + 1)
  /\ stats.last = NoDay <=> active = {}
  /\ stats.last \in active \cup {NoDay}
  /\ active = {} => stats.streak = 0 /\ stats.longest = 0
  /\ wentBack \in BOOLEAN

\* The streak, without a maximum: no active day is after the last, no run is longer.
StreakOK ==
  ~ wentBack /\ active # {} =>
    /\ stats.streak = Run(stats.last)
    /\ \A d \in active : d <= stats.last /\ Run(d) <= stats.longest
    /\ stats.longest \in {Run(d) : d \in active}

IInv ==
  /\ RequestsOK /\ RowsOK /\ LocksOK /\ CrossedOK /\ SentencesOK /\ CardsOK /\ DaysOK
  /\ XpIsEarned /\ StreakOK /\ planet.judged = graded

(***************************************************************************)
(* The sum of rewards                                                      *)
(***************************************************************************)

Picked(s) == CHOOSE x \in s : TRUE

\* The sum of a set's rewards, from those of the sets with one rule less.
OneMore(f, s) == IF s = {} THEN 0 ELSE Picked(s).reward + f[s \ {Picked(s)}]
Sums(S, f)    == f = [s \in SUBSET S |-> OneMore(f, s)]

LEMMA Smallest ==
  ASSUME NEW T \in SUBSET Nat, T # {}
  PROVE  \E n \in T : \A m \in T : n <= m
PROOF
  <1>1. PICK n \in T : \A m \in T : << m, n >> \notin OpToRel(<, Nat)
    BY NatLessThanWellFounded, WFMin, Zenon
  <1>2. \A m \in T : ~ (m < n)
    BY <1>1 DEF OpToRel
  <1> QED
    BY <1>2

LEMMA PickedRule ==
  ASSUME NEW s \in SUBSET Rules
  PROVE  /\ IsFiniteSet(s) /\ Cardinality(s) \in Nat
         /\ Cardinality(s) = 0 <=> s = {}
         /\ \A x \in s : Cardinality(s \ {x}) = Cardinality(s) - 1 /\ x.reward \in Nat
         /\ s # {} => Picked(s) \in s
PROOF
  <1>1. IsFiniteSet(s)
    BY OfSomething, FS_Subset
  <1> QED
    BY <1>1, PaysNat, FS_CardinalityType, FS_EmptySet, FS_RemoveElement DEF Picked

\* Of the sets of rules with some property, one loses it with whichever rule it loses.
LEMMA Minimal ==
  ASSUME NEW W \in SUBSET (SUBSET Rules), W # {}
  PROVE  \E S \in W : \A x \in S : S \ {x} \notin W
PROOF
  <1> DEFINE Sizes == {Cardinality(S) : S \in W}
  <1>1. Sizes \in SUBSET Nat /\ Sizes # {}
    BY PickedRule
  <1>2. PICK n \in Sizes : \A m \in Sizes : n <= m
    BY <1>1, Smallest
  <1>3. PICK S \in W : Cardinality(S) = n
    OBVIOUS
  <1>4. ASSUME NEW x \in S, S \ {x} \in W
        PROVE  FALSE
    <2>1. Cardinality(S \ {x}) = n - 1 /\ n \in Nat
      BY <1>3, PickedRule
    <2> QED
      BY <1>2, <1>4, <2>1
  <1> QED
    BY <1>4

LEMMA SumsExist ==
  \E f \in [SUBSET Rules -> Nat] : Sums(Rules, f)
PROOF
  <1> DEFINE Upto(n, f) == \A s \in SUBSET Rules : Cardinality(s) <= n => f[s] = OneMore(f, s)
             Never == {n \in Nat : ~ \E f \in [SUBSET Rules -> Nat] : Upto(n, f)}
  <1>1. \A n \in Nat : \E f \in [SUBSET Rules -> Nat] : Upto(n, f)
    <2>1. SUFFICES ASSUME Never # {}
                   PROVE  FALSE
      OBVIOUS
    <2>2. PICK n \in Never : \A m \in Never : n <= m
      BY <2>1, Smallest
    <2>3. CASE n = 0
      <3> DEFINE z == [s \in SUBSET Rules |-> 0]
      <3>1. z \in [SUBSET Rules -> Nat]
        OBVIOUS
      <3>2. ASSUME NEW s \in SUBSET Rules, Cardinality(s) <= 0
            PROVE  z[s] = OneMore(z, s)
        <4>1. s = {}
          BY <3>2, PickedRule
        <4> QED
          BY <4>1 DEF OneMore
      <3>3. Upto(n, z)
        BY <2>3, <3>2
      <3> QED
        BY <2>2, <3>1, <3>3
    <2>4. CASE n # 0
      <3>1. n \in Nat
        OBVIOUS
      <3> HIDE DEF Never
      <3>2. n - 1 \in Nat /\ n - 1 \notin Never
        BY <2>2, <2>4, <3>1
      <3> USE DEF Never
      <3>3. n - 1 \in Nat /\ n - 1 \notin Never /\ n \in Nat
        BY <3>1, <3>2
      <3>4. PICK g \in [SUBSET Rules -> Nat] : Upto(n - 1, g)
        BY <3>3
      <3> DEFINE h == [s \in SUBSET Rules |-> IF Cardinality(s) <= n - 1 THEN g[s] ELSE OneMore(g, s)]
      <3>5. \A s \in SUBSET Rules : OneMore(g, s) \in Nat
        <4>1. SUFFICES ASSUME NEW s \in SUBSET Rules, s # {}
                       PROVE  Picked(s).reward + g[s \ {Picked(s)}] \in Nat
          BY DEF OneMore
        <4>2. Picked(s).reward \in Nat /\ s \ {Picked(s)} \in SUBSET Rules
          BY <4>1, PickedRule
        <4> QED
          BY <4>2
      <3>6. h \in [SUBSET Rules -> Nat]
        BY <3>5
      <3>7. ASSUME NEW s \in SUBSET Rules, Cardinality(s) <= n
            PROVE  h[s] = OneMore(g, s) /\ OneMore(g, s) = OneMore(h, s)
        <4>1. h[s] = OneMore(g, s)
          BY <3>4
        <4>2. ASSUME s # {}
              PROVE  h[s \ {Picked(s)}] = g[s \ {Picked(s)}]
          <5>1. /\ s \ {Picked(s)} \in SUBSET Rules /\ Cardinality(s) \in Nat
                /\ Cardinality(s \ {Picked(s)}) = Cardinality(s) - 1
            BY <4>2, PickedRule
          <5> QED
            BY <3>3, <3>7, <5>1
        <4> QED
          BY <4>1, <4>2 DEF OneMore
      <3>8. Upto(n, h)
        BY <3>7
      <3> QED
        BY <2>2, <3>6, <3>8
    <2> QED
      BY <2>3, <2>4
  <1>2. IsFiniteSet(Rules) /\ Cardinality(Rules) \in Nat
    BY OfSomething, FS_CardinalityType
  <1>3. PICK f \in [SUBSET Rules -> Nat] : Upto(Cardinality(Rules), f)
    BY <1>1, <1>2
  <1>4. \A s \in SUBSET Rules : f[s] = OneMore(f, s)
    BY <1>2, <1>3, FS_Subset
  <1>5. f = [s \in SUBSET Rules |-> OneMore(f, s)]
    BY <1>4
  <1> QED
    BY <1>5 DEF Sums

\* The sums over the subsets of a set are those over the subsets of all the rules.
LEMMA SumsAgree ==
  ASSUME NEW S \in SUBSET Rules, NEW f, Sums(Rules, f), NEW g, Sums(S, g)
  PROVE  \A s \in SUBSET S : g[s] = f[s]
PROOF
  <1> DEFINE Apart == {s \in SUBSET S : g[s] # f[s]}
  <1>1. SUFFICES ASSUME Apart # {}
                 PROVE  FALSE
    OBVIOUS
  <1>2. PICK s \in Apart : \A x \in s : s \ {x} \notin Apart
    BY <1>1, Minimal
  <1>3. s \in SUBSET S /\ s \in SUBSET Rules /\ g[s] = OneMore(g, s) /\ f[s] = OneMore(f, s)
    BY <1>2 DEF Sums
  <1>4. s # {} /\ s \ {Picked(s)} \in SUBSET S
    BY <1>2, <1>3 DEF OneMore
  <1>5. Picked(s) \in s
    BY <1>3, <1>4, PickedRule
  <1>6. g[s \ {Picked(s)}] = f[s \ {Picked(s)}]
    BY <1>2, <1>4, <1>5
  <1> QED
    BY <1>2, <1>3, <1>4, <1>6 DEF OneMore

LEMMA RewardStep ==
  ASSUME NEW S \in SUBSET Rules
  PROVE  /\ RewardOf(S) \in Nat
         /\ RewardOf(S) = IF S = {} THEN 0 ELSE Picked(S).reward + RewardOf(S \ {Picked(S)})
PROOF
  <1>1. PICK f \in [SUBSET Rules -> Nat] : Sums(Rules, f)
    BY SumsExist
  <1>2. ASSUME NEW T \in SUBSET Rules
        PROVE  RewardOf(T) = f[T]
    <2>1. RewardOf(T) = (CHOOSE g : Sums(T, g))[T]
      BY DEF RewardOf, MapThenSumSet, MapThenFoldSet, Sums, OneMore, Picked
    <2> DEFINE h == [s \in SUBSET T |-> f[s]]
    <2>2. \A s \in SUBSET T : h[s] = OneMore(h, s)
      <3>1. ASSUME NEW s \in SUBSET T
            PROVE  h[s] = OneMore(h, s)
        <4>1. s \in SUBSET Rules /\ f[s] = OneMore(f, s)
          BY <1>1 DEF Sums
        <4>2. s \ {Picked(s)} \in SUBSET T
          OBVIOUS
        <4> QED
          BY <4>1, <4>2 DEF OneMore
      <3> QED
        BY <3>1
    <2>3. Sums(T, h)
      <3>1. h = [s \in SUBSET T |-> OneMore(h, s)]
        BY <2>2
      <3> QED
        BY <3>1 DEF Sums
    <2>4. PICK g : g = (CHOOSE e : Sums(T, e)) /\ Sums(T, g)
      BY <2>3
    <2>5. T \in SUBSET T /\ g[T] = f[T]
      BY <1>1, <2>4, SumsAgree
    <2> QED
      BY <2>1, <2>4, <2>5
  <1>3. f[S] = OneMore(f, S)
    BY <1>1 DEF Sums
  <1>4. S \ {Picked(S)} \in SUBSET Rules
    OBVIOUS
  <1> QED
    BY <1>1, <1>2, <1>3, <1>4 DEF OneMore

\* Whichever rule is taken first, the sum is the same.
LEMMA RewardOfOne ==
  \A S \in SUBSET Rules : \A x \in S : RewardOf(S) = x.reward + RewardOf(S \ {x})
PROOF
  <1> DEFINE Wrong == {S \in SUBSET Rules : \E x \in S : RewardOf(S) # x.reward + RewardOf(S \ {x})}
  <1>1. SUFFICES ASSUME Wrong # {}
                 PROVE  FALSE
    OBVIOUS
  <1>2. PICK S \in Wrong : \A x \in S : S \ {x} \notin Wrong
    BY <1>1, Minimal
  <1>3. PICK x \in S : RewardOf(S) # x.reward + RewardOf(S \ {x})
    BY <1>2
  <1>4. PICK c : c = Picked(S)
    OBVIOUS
  <1>5. c \in S /\ RewardOf(S) = c.reward + RewardOf(S \ {c})
    BY <1>4, <1>3, PickedRule, RewardStep
  <1>6. x # c
    BY <1>3, <1>5
  <1>7. ASSUME NEW y \in S, NEW z \in S, z # y
        PROVE  RewardOf(S \ {y}) = z.reward + RewardOf((S \ {y}) \ {z})
    <2>1. S \ {y} \in SUBSET Rules /\ z \in S \ {y}
      BY <1>7
    <2>2. S \ {y} \notin Wrong
      BY <1>2
    <2> QED
      BY <2>1, <2>2
  <1>8. RewardOf(S \ {c}) = x.reward + RewardOf((S \ {c}) \ {x})
    BY <1>5, <1>6, <1>7
  <1>9. RewardOf(S \ {x}) = c.reward + RewardOf((S \ {x}) \ {c})
    BY <1>5, <1>6, <1>7
  <1>10. (S \ {x}) \ {c} = (S \ {c}) \ {x}
    OBVIOUS
  <1>11. /\ x.reward \in Nat /\ c.reward \in Nat
         /\ (S \ {c}) \ {x} \in SUBSET Rules
    BY <1>2, <1>5, PickedRule
  <1>12. RewardOf((S \ {c}) \ {x}) \in Nat
    BY <1>11, RewardStep
  <1>13. RewardOf(S \ {x}) = c.reward + RewardOf((S \ {c}) \ {x})
    BY <1>9, <1>10
  <1> QED
    BY <1>3, <1>5, <1>8, <1>11, <1>12, <1>13

\* The rewards of badges that have none in common add up.
LEMMA RewardsAdd ==
  ASSUME NEW A \in SUBSET Rules, NEW B \in SUBSET Rules, A \cap B = {}
  PROVE  RewardOf(A \cup B) = RewardOf(A) + RewardOf(B)
PROOF
  <1> DEFINE Wrong == {S \in SUBSET B : RewardOf(A \cup S) # RewardOf(A) + RewardOf(S)}
  <1>1. SUFFICES ASSUME Wrong # {}
                 PROVE  FALSE
    <2>1. B \in SUBSET B
      OBVIOUS
    <2> QED
      BY <2>1
  <1>2. PICK S \in Wrong : \A x \in S : S \ {x} \notin Wrong
    BY <1>1, Minimal
  <1>3. S \in SUBSET Rules /\ A \cup S \in SUBSET Rules
    BY <1>2
  <1>4. S # {}
    <2>1. SUFFICES ASSUME S = {}
                   PROVE  FALSE
      OBVIOUS
    <2>2. RewardOf(S) = 0 /\ A \cup S = A /\ RewardOf(A) \in Nat
      BY <2>1, <1>3, RewardStep
    <2> QED
      BY <1>2, <2>2
  <1>5. PICK x : x \in S
    BY <1>4
  <1>6. S \ {x} \in SUBSET B /\ S \ {x} \notin Wrong
    BY <1>2, <1>5
  <1>7. RewardOf(A \cup (S \ {x})) = RewardOf(A) + RewardOf(S \ {x})
    BY <1>6
  <1>8. (A \cup S) \ {x} = A \cup (S \ {x})
    BY <1>2, <1>5
  <1>9. /\ RewardOf(A \cup S) = x.reward + RewardOf((A \cup S) \ {x})
         /\ RewardOf(S) = x.reward + RewardOf(S \ {x})
    BY <1>3, <1>5, RewardOfOne
  <1>10. x.reward \in Nat /\ RewardOf(A) \in Nat /\ RewardOf(S \ {x}) \in Nat
    BY <1>3, <1>5, <1>6, PickedRule, RewardStep
  <1>11. RewardOf(A \cup S) # RewardOf(A) + RewardOf(S)
    BY <1>2
  <1> QED
    BY <1>7, <1>8, <1>9, <1>10, <1>11

(***************************************************************************)
(* What requests carry                                                     *)
(***************************************************************************)

LEMMA Sizes ==
  /\ NSentences \in Nat /\ NCards \in Nat
  /\ \A S \in SUBSET Sentences : Cardinality(S) \in 0..NSentences /\ (Cardinality(S) = NSentences => S = Sentences)
  /\ \A S \in SUBSET StudyCards : Cardinality(S) \in 0..NCards
PROOF
  <1>1. NSentences \in Nat /\ NCards \in Nat
    BY OfSomething, FS_CardinalityType DEF NSentences, NCards
  <1>2. ASSUME NEW S \in SUBSET Sentences
        PROVE  Cardinality(S) \in 0..NSentences /\ (Cardinality(S) = NSentences => S = Sentences)
    BY <1>1, OfSomething, FS_Subset, FS_CardinalityType DEF NSentences
  <1>3. ASSUME NEW S \in SUBSET StudyCards
        PROVE  Cardinality(S) \in 0..NCards
    BY <1>1, OfSomething, FS_Subset, FS_CardinalityType DEF NCards
  <1> QED
    BY <1>1, <1>2, <1>3

LEMMA IdleType ==
  Idle \in RequestTypes /\ StepOK(Idle)
PROOF
  BY BoundsNat, Sizes DEF Idle, RequestTypes, Steps, StepOK

LEMMA KeepingFields ==
  ASSUME RequestsOK, NEW r \in Requests, NEW step \in Steps
  PROVE  /\ Keeping(r, step) \in RequestTypes
         /\ Keeping(r, step).at = step
         /\ Keeping(r, step).metric = request[r].metric
         /\ Keeping(r, step).count = request[r].count
         /\ Keeping(r, step).due = request[r].due
         /\ Keeping(r, step).now = request[r].now
         /\ Keeping(r, step).of = request[r].of
PROOF
  <1>1. request[r] \in RequestTypes
    BY DEF RequestsOK
  <1> QED
    BY <1>1 DEF Keeping, RequestTypes

LEMMA AfterMetricFields ==
  ASSUME RequestsOK, NEW r \in Requests, At(r, "planet")
  PROVE  /\ AfterMetric(r) \in RequestTypes /\ StepOK(AfterMetric(r))
         /\ AfterMetric(r).at \in {"idle", "clock"}
         /\ request[r].due = 0 => AfterMetric(r) = Idle
         /\ request[r].due # 0 /\ request[r].metric = "sentences" =>
              /\ AfterMetric(r).at = "clock" /\ AfterMetric(r).metric = "sentences"
              /\ AfterMetric(r).count = request[r].count
         /\ request[r].metric # "sentences" => AfterMetric(r).metric = "none"
PROOF
  <1>1. request[r] \in RequestTypes /\ StepOK(request[r])
    BY DEF RequestsOK
  <1>2. CASE request[r].due = 0
    BY <1>2, IdleType DEF AfterMetric, Idle
  <1>3. CASE request[r].due # 0 /\ request[r].metric = "sentences"
    <2>1. AfterMetric(r) = Keeping(r, "clock")
      BY <1>3 DEF AfterMetric
    <2> QED
      BY <1>3, <2>1, KeepingFields DEF Steps, StepOK
  <1>4. CASE request[r].due # 0 /\ request[r].metric # "sentences"
    <2>1. AfterMetric(r) = [Idle EXCEPT !.at = "clock", !.due = request[r].due]
      BY <1>4 DEF AfterMetric
    <2>2. request[r].due \in Nat
      BY <1>1 DEF RequestTypes
    <2>3. /\ AfterMetric(r).at = "clock" /\ AfterMetric(r).metric = "none"
          /\ AfterMetric(r) \in RequestTypes
      <3>1. Idle \in RequestTypes /\ Idle.metric = "none" /\ Idle.now = 0
        BY IdleType DEF Idle
      <3>2. 0 \in 0..MaxClock /\ "clock" \in Steps
        BY BoundsNat DEF Steps
      <3> QED
        BY <2>1, <2>2, <3>1, <3>2 DEF RequestTypes
    <2> QED
      BY <1>4, <2>3 DEF StepOK
  <1> QED
    BY <1>2, <1>3, <1>4

LEMMA AfterTouchFields ==
  ASSUME RequestsOK, NEW r \in Requests, At(r, "touch") \/ At(r, "stats")
  PROVE  /\ AfterTouch(r) \in RequestTypes /\ StepOK(AfterTouch(r))
         /\ IF request[r].metric = "sentences" /\ request[r].count >= NSentences
              THEN AfterTouch(r).at = "close" /\ AfterTouch(r).metric = "sentences"
              ELSE AfterTouch(r) = Idle
PROOF
  <1>1. request[r] \in RequestTypes /\ StepOK(request[r])
    BY DEF RequestsOK
  <1>2. CASE request[r].metric = "sentences" /\ request[r].count >= NSentences
    <2>1. AfterTouch(r) = [Keeping(r, "close") EXCEPT !.now = 0, !.due = 0]
      BY <1>2 DEF AfterTouch, NSentences
    <2>2. Keeping(r, "close") \in RequestTypes /\ Keeping(r, "close").metric = "sentences"
          /\ Keeping(r, "close").at = "close"
      BY <1>2, KeepingFields DEF Steps
    <2>3. /\ AfterTouch(r).at = "close" /\ AfterTouch(r).metric = "sentences"
          /\ AfterTouch(r) \in RequestTypes
      <3>1. 0 \in 0..MaxClock /\ 0 \in Nat
        BY BoundsNat
      <3> QED
        BY <2>1, <2>2, <3>1 DEF RequestTypes
    <2> QED
      BY <1>2, <2>3 DEF StepOK
  <1>3. CASE ~ (request[r].metric = "sentences" /\ request[r].count >= NSentences)
    BY <1>3, IdleType DEF AfterTouch, NSentences
  <1> QED
    BY <1>2, <1>3

Others(r) == \A o \in Requests : o # r => request'[o] = request[o]

\* A step of one request leaves the others what they carry.
LEMMA CarriesOne ==
  ASSUME RequestsOK, NEW r \in Requests, NEW what \in RequestTypes, StepOK(what), Carries(r, what)
  PROVE  RequestsOK' /\ request'[r] = what /\ Others(r)
PROOF
  <1>1. /\ request' \in [Requests -> RequestTypes] /\ request'[r] = what
        /\ Others(r)
    BY DEF RequestsOK, Carries, Others
  <1>2. \A o \in Requests : StepOK(request'[o])
    BY <1>1 DEF RequestsOK, Others
  <1> QED
    BY <1>1, <1>2 DEF RequestsOK

LEMMA MasterSentenceGoes ==
  ASSUME RequestsOK, NEW r \in Requests, NEW s \in Sentences, NEW flag \in BOOLEAN,
         MasterSentence(r, s, flag)
  PROVE  /\ RequestsOK' /\ Others(r)
         /\ request'[r].at = "upsert" /\ request'[r].metric = "sentences"
         /\ request'[r].on = s /\ request'[r].saw = (s \in learned)
PROOF
  <1> DEFINE what == [Idle EXCEPT !.at = "upsert", !.on = s, !.value = flag,
                                  !.saw = s \in learned, !.metric = "sentences"]
  <1>1. /\ what.at = "upsert" /\ what.metric = "sentences" /\ what.on = s /\ what.value = flag
        /\ what.saw = (s \in learned)
    BY DEF Idle
  <1>2. what \in RequestTypes
    <2>1. /\ s \in Sentences \cup StudyCards \cup Path \cup {NoRow}
          /\ flag \in BOOLEAN \cup Ratings \cup {NoRow}
          /\ (s \in learned) \in BOOLEAN \cup Seen \cup {NoRow}
      OBVIOUS
    <2>2. "upsert" \in Steps
      BY DEF Steps
    <2> QED
      BY <2>1, <2>2, IdleType DEF RequestTypes
  <1>3. StepOK(what)
    BY <1>1 DEF StepOK
  <1> HIDE DEF what
  <1>4. Carries(r, what)
    BY DEF MasterSentence, what
  <1> QED
    BY <1>1, <1>2, <1>3, <1>4, CarriesOne

LEMMA ConfirmLiveGoes ==
  ASSUME RequestsOK, NEW r \in Requests, NEW k \in StudyCards, ConfirmLive(r, k)
  PROVE  /\ RequestsOK' /\ Others(r)
         /\ request'[r].at = "count" /\ request'[r].metric = "flashcards"
PROOF
  <1> DEFINE what == [Idle EXCEPT !.at = "count", !.metric = "flashcards"]
  <1>1. what.at = "count" /\ what.metric = "flashcards" /\ what.count = 0
    BY DEF Idle
  <1>2. what \in RequestTypes
    <2>1. "count" \in Steps
      BY DEF Steps
    <2> QED
      BY <2>1, IdleType DEF RequestTypes
  <1>3. StepOK(what)
    BY <1>1 DEF StepOK
  <1> HIDE DEF what
  <1>4. Carries(r, what)
    BY DEF ConfirmLive, what
  <1> QED
    BY <1>1, <1>2, <1>3, <1>4, CarriesOne

LEMMA ReviewCardGoes ==
  ASSUME RequestsOK, RowsOK, NEW r \in Requests, NEW k \in StudyCards, NEW rating \in Ratings,
         ReviewCard(r, k, rating)
  PROVE  /\ RequestsOK' /\ Others(r)
         /\ request'[r].at = "review" /\ request'[r].metric = "flashcards"
         /\ request'[r].on = k /\ request'[r].saw.verified = (k \in verified)
PROOF
  <1> DEFINE card == [span |-> span[k], verified |-> k \in verified]
             what == [Idle EXCEPT !.at = "review", !.on = k, !.value = rating, !.due = 2,
                                  !.metric = "flashcards", !.saw = card]
  <1>1. /\ what.at = "review" /\ what.metric = "flashcards" /\ what.on = k /\ what.value = rating
        /\ what.saw = card /\ what.count = 0
    BY DEF Idle
  <1>2. card \in Seen /\ card.verified = (k \in verified)
    BY DEF Seen, RowsOK, ReviewCard, Owned
  <1>3. what \in RequestTypes
    <2>1. /\ k \in Sentences \cup StudyCards \cup Path \cup {NoRow}
          /\ rating \in BOOLEAN \cup Ratings \cup {NoRow}
          /\ card \in BOOLEAN \cup Seen \cup {NoRow}
      BY <1>2
    <2>2. "review" \in Steps
      BY DEF Steps
    <2> HIDE DEF card
    <2> QED
      BY <2>1, <2>2, IdleType DEF RequestTypes
  <1>4. StepOK(what)
    BY <1>1, <1>2 DEF StepOK
  <1> HIDE DEF what
  <1>5. Carries(r, what)
    BY DEF ReviewCard, what
  <1> QED
    BY <1>1, <1>2, <1>3, <1>4, <1>5, CarriesOne

LEMMA BumpProgressGoes ==
  ASSUME RequestsOK, NEW r \in Requests, NEW delta \in {-1, 1}, BumpProgress(r, delta)
  PROVE  /\ RequestsOK' /\ Others(r)
         /\ request'[r].at = "metric" /\ request'[r].metric = "judged"
PROOF
  <1> DEFINE due  == IF delta > 0 THEN 1 ELSE 0
             what == [Idle EXCEPT !.at = "metric", !.metric = "judged", !.count = delta, !.due = due]
  <1>1. what.at = "metric" /\ what.metric = "judged"
    BY DEF Idle
  <1>2. what \in RequestTypes
    <2>1. "metric" \in Steps /\ delta \in Int /\ due \in Nat
      BY DEF Steps
    <2> HIDE DEF due
    <2> QED
      BY <2>1, IdleType DEF RequestTypes
  <1>3. StepOK(what)
    BY <1>1 DEF StepOK
  <1> HIDE DEF what
  <1>4. Carries(r, what)
    BY DEF BumpProgress, what
  <1> QED
    BY <1>1, <1>2, <1>3, <1>4, CarriesOne

LEMMA RecordCorrectionGoes ==
  ASSUME RequestsOK, NEW r \in Requests, RecordCorrection(r)
  PROVE  /\ RequestsOK' /\ Others(r)
         /\ request'[r].at = "clock" /\ request'[r].metric = "none"
PROOF
  <1> DEFINE what == [Idle EXCEPT !.at = "clock", !.due = 3]
  <1>1. what.at = "clock" /\ what.metric = "none"
    BY DEF Idle
  <1>2. what \in RequestTypes
    <2>1. "clock" \in Steps
      BY DEF Steps
    <2> QED
      BY <2>1, IdleType DEF RequestTypes
  <1>3. StepOK(what)
    BY <1>1 DEF StepOK
  <1> HIDE DEF what
  <1>4. Carries(r, what)
    BY DEF RecordCorrection, what
  <1> QED
    BY <1>1, <1>2, <1>3, <1>4, CarriesOne

LEMMA MarkSize ==
  ASSUME RequestsOK, RowsOK, NEW r \in Requests, At(r, "upsert") \/ At(r, "commit")
  PROVE  WithMark(r) \subseteq Sentences /\ Cardinality(WithMark(r)) \in 0..NSentences
PROOF
  <1>1. WithMark(r) \subseteq Sentences
    BY DEF RequestsOK, StepOK, At, WithMark, RowsOK
  <1> QED
    BY <1>1, Sizes

LEMMA UpsertAndCountGoes ==
  ASSUME RequestsOK, RowsOK, NEW r \in Requests, UpsertAndCount(r)
  PROVE  /\ RequestsOK' /\ Others(r)
         /\ request'[r].at = "commit" /\ request'[r].metric = "sentences"
         /\ request'[r].on = request[r].on /\ request'[r].value = request[r].value
         /\ request'[r].saw = request[r].saw
         /\ request'[r].count = Cardinality(WithMark(r))
         /\ request'[r].due = IF Newly(r) THEN 8 ELSE 0
PROOF
  <1> DEFINE due  == IF Newly(r) THEN 8 ELSE 0
             what == [request[r] EXCEPT !.at = "commit", !.count = Cardinality(WithMark(r)),
                                        !.due = due]
  <1>1. request[r] \in RequestTypes /\ StepOK(request[r]) /\ request[r].at = "upsert"
    BY DEF RequestsOK, UpsertAndCount, At
  <1>2. Cardinality(WithMark(r)) \in 0..NSentences /\ Cardinality(WithMark(r)) \in Int
    BY MarkSize DEF UpsertAndCount
  <1>3. due \in Nat /\ "commit" \in Steps
    BY DEF Steps
  <1>4. Carries(r, what)
    BY DEF UpsertAndCount
  <1>5. due = IF Newly(r) THEN 8 ELSE 0
    OBVIOUS
  <1> HIDE DEF due
  <1>6. what \in RequestTypes
    BY <1>1, <1>2, <1>3 DEF RequestTypes
  <1>7. /\ what.at = "commit" /\ what.count = Cardinality(WithMark(r)) /\ what.due = due
        /\ what.metric = request[r].metric /\ what.on = request[r].on
        /\ what.value = request[r].value /\ what.saw = request[r].saw
    BY <1>1 DEF RequestTypes
  <1> HIDE DEF what
  <1>8. StepOK(what)
    BY <1>1, <1>2, <1>7 DEF StepOK
  <1>9. request[r].metric = "sentences"
    BY <1>1 DEF StepOK
  <1> QED
    BY <1>6, <1>7, <1>8, <1>9, <1>4, <1>5, CarriesOne

LEMMA CommitMarkGoes ==
  ASSUME RequestsOK, NEW r \in Requests, CommitMark(r)
  PROVE  /\ RequestsOK' /\ Others(r)
         /\ request'[r].at = "metric" /\ request'[r].metric = "sentences"
         /\ request'[r].count = request[r].count /\ request'[r].due = request[r].due
PROOF
  <1>1. StepOK(request[r]) /\ request[r].at = "commit"
    BY DEF RequestsOK, CommitMark, At
  <1>2. /\ Keeping(r, "metric") \in RequestTypes
        /\ Keeping(r, "metric").at = "metric"
        /\ Keeping(r, "metric").metric = request[r].metric
        /\ Keeping(r, "metric").count = request[r].count
        /\ Keeping(r, "metric").due = request[r].due
    BY KeepingFields DEF Steps
  <1>3. StepOK(Keeping(r, "metric")) /\ request[r].metric = "sentences"
    BY <1>1, <1>2 DEF StepOK
  <1>4. Carries(r, Keeping(r, "metric"))
    BY DEF CommitMark
  <1> QED
    BY <1>2, <1>3, <1>4, CarriesOne

LEMMA RecordReviewGoes ==
  ASSUME RequestsOK, NEW r \in Requests, RecordReview(r)
  PROVE  /\ RequestsOK' /\ Others(r)
         /\ request'[r].at = "count" /\ request'[r].metric = "flashcards"
PROOF
  <1>1. StepOK(request[r]) /\ request[r].at = "review"
    BY DEF RequestsOK, RecordReview, At
  <1>2. /\ Keeping(r, "count") \in RequestTypes
        /\ Keeping(r, "count").at = "count"
        /\ Keeping(r, "count").metric = request[r].metric
        /\ Keeping(r, "count").count = request[r].count
    BY KeepingFields DEF Steps
  <1>3. StepOK(Keeping(r, "count")) /\ request[r].metric = "flashcards"
    BY <1>1, <1>2 DEF StepOK
  <1>4. Carries(r, Keeping(r, "count"))
    BY DEF RecordReview
  <1> QED
    BY <1>2, <1>3, <1>4, CarriesOne

LEMMA CountOwnedGoes ==
  ASSUME RequestsOK, NEW r \in Requests, CountOwned(r)
  PROVE  /\ RequestsOK' /\ Others(r) /\ request'[r].metric = "flashcards"
         /\ request'[r].at = IF Owned = {} THEN "metric" ELSE "graduates"
         /\ request'[r].count = 0 /\ request'[r].of = Cardinality(Owned)
PROOF
  <1> DEFINE step == IF Owned = {} THEN "metric" ELSE "graduates"
             what == [request[r] EXCEPT !.at = step, !.of = Cardinality(Owned)]
  <1>1. /\ request[r] \in RequestTypes /\ StepOK(request[r]) /\ request[r].at = "count"
        /\ Carries(r, what)
    BY DEF RequestsOK, CountOwned, At
  <1>2. Cardinality(Owned) \in 0..NCards /\ 0 \in 0..NCards
    <2>1. Owned \in SUBSET StudyCards
      BY DEF Owned
    <2> QED
      BY <2>1, Sizes
  <1>3. step \in Steps /\ step \in {"metric", "graduates"} /\ step = IF Owned = {} THEN "metric" ELSE "graduates"
    BY DEF Steps
  <1> HIDE DEF step
  <1>4. what \in RequestTypes
    BY <1>1, <1>2, <1>3 DEF RequestTypes
  <1>5. /\ what.at = step /\ what.of = Cardinality(Owned) /\ what.count = request[r].count
        /\ what.metric = request[r].metric
    BY <1>1 DEF RequestTypes
  <1> HIDE DEF what
  <1>6. StepOK(what) /\ request[r].metric = "flashcards" /\ request[r].count = 0
    BY <1>1, <1>2, <1>3, <1>5 DEF StepOK
  <1> QED
    BY <1>1, <1>3, <1>4, <1>5, <1>6, CarriesOne

LEMMA CountGraduatedGoes ==
  ASSUME RequestsOK, RowsOK, NEW r \in Requests, CountGraduated(r)
  PROVE  /\ RequestsOK' /\ Others(r)
         /\ request'[r].at = "metric" /\ request'[r].metric = "flashcards"
         /\ request'[r].count = Cardinality(Graduated) /\ request'[r].of = request[r].of
PROOF
  <1> DEFINE what == [request[r] EXCEPT !.at = "metric", !.count = Cardinality(Graduated)]
  <1>1. request[r] \in RequestTypes /\ StepOK(request[r]) /\ request[r].at = "graduates"
    BY DEF RequestsOK, CountGraduated, At
  <1>2. Cardinality(Graduated) \in 0..NCards /\ Cardinality(Graduated) \in Int /\ "metric" \in Steps
    <2>1. Graduated \in SUBSET StudyCards
      BY DEF Graduated, RowsOK, Owned
    <2> QED
      BY <2>1, Sizes DEF Steps
  <1>3. what \in RequestTypes
    BY <1>1, <1>2 DEF RequestTypes
  <1>4. /\ what.at = "metric" /\ what.count = Cardinality(Graduated) /\ what.of = request[r].of
        /\ what.metric = request[r].metric
    BY <1>1 DEF RequestTypes
  <1>5. Carries(r, what)
    BY DEF CountGraduated
  <1> HIDE DEF what
  <1>6. StepOK(what) /\ request[r].metric = "flashcards"
    BY <1>1, <1>2, <1>4 DEF StepOK
  <1> QED
    BY <1>3, <1>4, <1>5, <1>6, CarriesOne

LEMMA LockPlanetGoes ==
  ASSUME RequestsOK, RowsOK, NEW r \in Requests, LockPlanet(r)
  PROVE  /\ RequestsOK' /\ Others(r)
         /\ request'[r].at = "planet" /\ request'[r].row = planet
         /\ request'[r].metric = request[r].metric /\ request'[r].count = request[r].count
         /\ request'[r].due = request[r].due /\ request'[r].of = request[r].of
PROOF
  <1> DEFINE what == [request[r] EXCEPT !.at = "planet", !.row = planet]
  <1>1. request[r] \in RequestTypes /\ StepOK(request[r]) /\ request[r].at = "metric"
    BY DEF RequestsOK, LockPlanet, At
  <1>2. planet \in PlanetRows /\ "planet" \in Steps
    BY DEF RowsOK, Steps
  <1>3. what \in RequestTypes
    BY <1>1, <1>2 DEF RequestTypes
  <1>4. /\ what.at = "planet" /\ what.row = planet /\ what.metric = request[r].metric
        /\ what.count = request[r].count /\ what.due = request[r].due
        /\ what.of = request[r].of
    BY <1>1 DEF RequestTypes
  <1>5. Carries(r, what)
    BY DEF LockPlanet
  <1> HIDE DEF what
  <1>6. StepOK(what)
    BY <1>1, <1>4 DEF StepOK
  <1> QED
    BY <1>3, <1>4, <1>5, <1>6, CarriesOne

LEMMA ReadClockGoes ==
  ASSUME RequestsOK, RowsOK, NEW r \in Requests, ReadClock(r)
  PROVE  /\ RequestsOK' /\ Others(r)
         /\ request'[r].at = "touch" /\ request'[r].metric = request[r].metric
         /\ request'[r].count = request[r].count
PROOF
  <1> DEFINE what == [request[r] EXCEPT !.at = "touch", !.now = clock]
  <1>1. request[r] \in RequestTypes /\ StepOK(request[r]) /\ request[r].at = "clock"
    BY DEF RequestsOK, ReadClock, At
  <1>2. clock \in 0..MaxClock /\ "touch" \in Steps
    BY DEF RowsOK, Steps
  <1>3. what \in RequestTypes
    BY <1>1, <1>2 DEF RequestTypes
  <1>4. what.at = "touch" /\ what.metric = request[r].metric /\ what.count = request[r].count
    BY <1>1 DEF RequestTypes
  <1>5. Carries(r, what)
    BY DEF ReadClock
  <1> HIDE DEF what
  <1>6. StepOK(what)
    BY <1>1, <1>4 DEF StepOK
  <1> QED
    BY <1>3, <1>4, <1>5, <1>6, CarriesOne

LEMMA LockStatsGoes ==
  ASSUME RequestsOK, RowsOK, NEW r \in Requests, LockStats(r)
  PROVE  /\ RequestsOK' /\ Others(r)
         /\ request'[r].at = "stats" /\ request'[r].row = stats
         /\ request'[r].metric = request[r].metric /\ request'[r].count = request[r].count
PROOF
  <1> DEFINE what == [request[r] EXCEPT !.at = "stats", !.row = stats]
  <1>1. request[r] \in RequestTypes /\ StepOK(request[r]) /\ request[r].at = "touch"
    BY DEF RequestsOK, LockStats, At
  <1>2. stats \in StatsRows /\ "stats" \in Steps
    BY DEF RowsOK, Steps
  <1>3. what \in RequestTypes
    BY <1>1, <1>2 DEF RequestTypes
  <1>4. /\ what.at = "stats" /\ what.row = stats /\ what.metric = request[r].metric
        /\ what.count = request[r].count
    BY <1>1 DEF RequestTypes
  <1>5. Carries(r, what)
    BY DEF LockStats
  <1> HIDE DEF what
  <1>6. StepOK(what)
    BY <1>1, <1>4 DEF StepOK
  <1> QED
    BY <1>3, <1>4, <1>5, <1>6, CarriesOne

LEMMA WritePlanetGoes ==
  ASSUME RequestsOK, NEW r \in Requests, WritePlanet(r)
  PROVE  /\ RequestsOK' /\ Others(r)
         /\ request'[r].at \in {"idle", "clock"}
         /\ request[r].metric = "sentences" =>
              IF request[r].due = 0 THEN request'[r] = Idle
              ELSE /\ request'[r].at = "clock" /\ request'[r].metric = "sentences"
                   /\ request'[r].count = request[r].count
         /\ request[r].metric # "sentences" => request'[r].metric = "none"
PROOF
  <1>1. At(r, "planet") /\ Carries(r, AfterMetric(r)) /\ request[r] \in RequestTypes
    BY DEF WritePlanet, RequestsOK
  <1>2. /\ AfterMetric(r) \in RequestTypes /\ StepOK(AfterMetric(r))
        /\ AfterMetric(r).at \in {"idle", "clock"}
        /\ request[r].due = 0 => AfterMetric(r) = Idle
        /\ request[r].due # 0 /\ request[r].metric = "sentences" =>
             /\ AfterMetric(r).at = "clock" /\ AfterMetric(r).metric = "sentences"
             /\ AfterMetric(r).count = request[r].count
        /\ request[r].metric # "sentences" => AfterMetric(r).metric = "none"
    BY <1>1, AfterMetricFields
  <1>3. RequestsOK' /\ request'[r] = AfterMetric(r) /\ Others(r)
    BY <1>1, <1>2, CarriesOne
  <1> QED
    BY <1>2, <1>3

LEMMA AfterTouchGoes ==
  ASSUME RequestsOK, NEW r \in Requests, WriteStats(r) \/ TouchFails(r)
  PROVE  /\ RequestsOK' /\ Others(r)
         /\ IF request[r].metric = "sentences" /\ request[r].count >= NSentences
              THEN request'[r].at = "close" /\ request'[r].metric = "sentences"
              ELSE request'[r] = Idle
PROOF
  <1>1. (At(r, "touch") \/ At(r, "stats")) /\ Carries(r, AfterTouch(r))
    BY DEF WriteStats, TouchFails
  <1>2. /\ AfterTouch(r) \in RequestTypes /\ StepOK(AfterTouch(r))
        /\ IF request[r].metric = "sentences" /\ request[r].count >= NSentences
             THEN AfterTouch(r).at = "close" /\ AfterTouch(r).metric = "sentences"
             ELSE AfterTouch(r) = Idle
    BY <1>1, AfterTouchFields
  <1>3. RequestsOK' /\ request'[r] = AfterTouch(r) /\ Others(r)
    BY <1>1, <1>2, CarriesOne
  <1> QED
    BY <1>2, <1>3

LEMMA EndsGoes ==
  ASSUME RequestsOK, NEW r \in Requests, CloseDeck(r) \/ ReviewNothing(r) \/ DropRequest(r)
  PROVE  RequestsOK' /\ Others(r) /\ request'[r] = Idle
PROOF
  <1>1. Carries(r, Idle)
    BY DEF CloseDeck, ReviewNothing, DropRequest
  <1> QED
    BY <1>1, IdleType, CarriesOne

LEMMA ReadModuleGoes ==
  ASSUME RequestsOK, NEW r \in Requests, ReadModule(r)
  PROVE  /\ RequestsOK' /\ Others(r)
         /\ \/ request'[r] = Idle /\ Open = {}
            \/ /\ request'[r].at = "talk" /\ request'[r].metric = "sentences"
               /\ request'[r].on \in Path /\ IsCurrent(request'[r].on)
PROOF
  <1>1. request[r] \in RequestTypes /\ StepOK(request[r]) /\ request[r].at = "close"
    BY DEF RequestsOK, ReadModule, At
  <1>2. CASE Open = {} /\ Carries(r, Idle)
    BY <1>2, IdleType, CarriesOne
  <1>3. ASSUME NEW m \in Open, IsCurrent(m), Carries(r, [request[r] EXCEPT !.at = "talk", !.on = m])
        PROVE  /\ RequestsOK' /\ Others(r)
               /\ request'[r].at = "talk" /\ request'[r].metric = "sentences"
               /\ request'[r].on \in Path /\ IsCurrent(request'[r].on)
    <2> DEFINE what == [request[r] EXCEPT !.at = "talk", !.on = m]
    <2>1. "talk" \in Steps /\ m \in Path
      BY DEF Steps, Open, Path
    <2>2. what \in RequestTypes
      BY <1>1, <2>1 DEF RequestTypes
    <2>3. what.at = "talk" /\ what.on = m /\ what.metric = request[r].metric
      BY <1>1 DEF RequestTypes
    <2>4. Carries(r, what)
      BY <1>3
    <2> HIDE DEF what
    <2>5. StepOK(what) /\ request[r].metric = "sentences"
      BY <1>1, <2>1, <2>3 DEF StepOK
    <2> QED
      BY <1>3, <2>1, <2>2, <2>3, <2>4, <2>5, CarriesOne
  <1> QED
    BY <1>2, <1>3 DEF ReadModule

LEMMA CloseTalkGoes ==
  ASSUME RequestsOK, NEW r \in Requests, CloseTalk(r)
  PROVE  /\ RequestsOK' /\ Others(r)
         /\ request'[r].at = "deck" /\ request'[r].metric = "sentences"
         /\ request'[r].on = request[r].on
PROOF
  <1> DEFINE what == [request[r] EXCEPT !.at = "deck"]
  <1>1. request[r] \in RequestTypes /\ StepOK(request[r]) /\ request[r].at = "talk"
    BY DEF RequestsOK, CloseTalk, At
  <1>2. "deck" \in Steps
    BY DEF Steps
  <1>3. what \in RequestTypes
    BY <1>1, <1>2 DEF RequestTypes
  <1>4. what.at = "deck" /\ what.metric = request[r].metric /\ what.on = request[r].on
    BY <1>1 DEF RequestTypes
  <1>5. Carries(r, what)
    BY DEF CloseTalk
  <1> HIDE DEF what
  <1>6. StepOK(what) /\ request[r].metric = "sentences"
    BY <1>1, <1>4 DEF StepOK
  <1> QED
    BY <1>3, <1>4, <1>5, <1>6, CarriesOne

(***************************************************************************)
(* The rows                                                                *)
(***************************************************************************)

LEMMA MaxOfTwo ==
  ASSUME NEW a \in Int, NEW b \in Int
  PROVE  Max({a, b}) = IF a >= b THEN a ELSE b
PROOF
  <1>1. \E x \in {a, b} : \A y \in {a, b} : x >= y
    OBVIOUS
  <1>2. Max({a, b}) \in {a, b} /\ \A y \in {a, b} : Max({a, b}) >= y
    BY <1>1 DEF Max
  <1> QED
    BY <1>2

LEMMA MaxIs ==
  ASSUME NEW S \in SUBSET Int, NEW m \in S, \A y \in S : y <= m
  PROVE  Max(S) = m
PROOF
  <1>1. \E x \in S : \A y \in S : x >= y
    OBVIOUS
  <1>2. Max(S) \in S /\ \A y \in S : Max(S) >= y
    BY <1>1 DEF Max
  <1>3. Max(S) \in Int /\ m \in Int /\ Max(S) >= m /\ Max(S) <= m
    BY <1>2
  <1> QED
    BY <1>3

\* The planet's row is written from the row as it stands: one metric of it changes.
LEMMA PlanetWritten ==
  ASSUME RequestsOK, RowsOK, LocksOK, NEW r \in Requests, WritePlanet(r)
  PROVE  /\ planet' \in PlanetRows
         /\ planet'.sentences = IF request[r].metric = "sentences" THEN request[r].count
                                                                   ELSE planet.sentences
         /\ planet'.flashcards = IF request[r].metric = "flashcards"
                                   THEN << request[r].count, request[r].of >> ELSE planet.flashcards
         /\ planet'.judged = IF request[r].metric = "judged"
                               THEN Clamped(planet.judged + request[r].count) ELSE planet.judged
         /\ planet'.judged \in 0..MaxGrade
         /\ graded' = IF request[r].metric = "judged" THEN Clamped(graded + request[r].count)
                                                      ELSE graded
PROOF
  <1>1. /\ At(r, "planet") /\ request[r].row = planet
        /\ planet' = WithMetric(planet, request[r])
    BY DEF WritePlanet, LocksOK
  <1>2. /\ request[r] \in RequestTypes /\ StepOK(request[r]) /\ request[r].at = "planet"
    BY <1>1 DEF RequestsOK, At
  <1>3. /\ request[r].count \in Int
        /\ request[r].metric \in {"sentences", "flashcards", "judged"}
        /\ request[r].metric = "sentences"  => request[r].count \in 0..NSentences
        /\ request[r].metric = "flashcards" => << request[r].count, request[r].of >> \in Shares
    BY <1>2 DEF StepOK, RequestTypes, Shares
  <1>4. \A n \in Int : Clamped(n) \in 0..MaxGrade
    BY BoundsNat DEF Clamped
  <1>5. planet \in PlanetRows
    BY DEF RowsOK
  <1>6. planet.judged \in Int
    BY <1>5 DEF PlanetRows
  <1>7. CASE request[r].metric = "sentences"
    <2>1. planet' = [planet EXCEPT !.sentences = request[r].count]
      BY <1>1, <1>7 DEF WithMetric
    <2> QED
      BY <1>3, <1>5, <1>7, <2>1 DEF PlanetRows, WritePlanet
  <1>8. CASE request[r].metric = "flashcards"
    <2>1. planet' = [planet EXCEPT !.flashcards = << request[r].count, request[r].of >>]
      BY <1>1, <1>8 DEF WithMetric
    <2> QED
      BY <1>3, <1>5, <1>8, <2>1 DEF PlanetRows, WritePlanet
  <1>9. CASE request[r].metric = "judged"
    <2>1. Clamped(planet.judged + request[r].count) \in 0..MaxGrade
      BY <1>3, <1>4, <1>6
    <2>2. planet' = [planet EXCEPT !.judged = Clamped(planet.judged + request[r].count)]
      BY <1>1, <1>9 DEF WithMetric
    <2> QED
      BY <1>5, <1>9, <2>1, <2>2 DEF PlanetRows, WritePlanet
  <1> QED
    BY <1>3, <1>7, <1>8, <1>9

Today(r)  == LocalDate(request[r].now)
Earned(r) == EarnedRules(Touched(stats, request[r].due, Today(r)))

\* The activity is counted on the row of XP and streak as it stands.
LEMMA StatsWritten ==
  ASSUME RequestsOK, RowsOK, LocksOK, NEW r \in Requests, WriteStats(r)
  PROVE  /\ Today(r) \in 0..(MaxClock + 1)
         /\ NextStreak(stats, Today(r)) \in Nat
         /\ stats' \in StatsRows
         /\ stats'.last = Today(r)
         /\ stats'.streak = NextStreak(stats, Today(r))
         /\ stats'.longest = Max({stats.longest, NextStreak(stats, Today(r))})
         /\ stats'.streak <= stats'.longest
         /\ touched' = touched + request[r].due /\ request[r].due \in Nat
         /\ Earned(r) \in SUBSET Rules
         /\ stats'.xp = (stats.xp + request[r].due) + RewardOf(Earned(r) \ badges)
         /\ badges' = badges \cup Earned(r)
         /\ active' = active \cup {Today(r)}
         /\ wentBack' = (wentBack \/ (stats.last # NoDay /\ Today(r) < stats.last))
PROOF
  <1> DEFINE today == Today(r)
             row   == Touched(stats, request[r].due, today)
  <1>1. /\ At(r, "stats") /\ request[r].row = stats
        /\ stats' = [row EXCEPT !.xp = row.xp + RewardOf(NewBadges(row))]
        /\ badges' = badges \cup EarnedRules(row)
        /\ active' = active \cup {today}
        /\ wentBack' = (wentBack \/ (stats.last # NoDay /\ today < stats.last))
        /\ touched' = touched + request[r].due
    BY DEF WriteStats, LocksOK, Today
  <1>2. /\ request[r].now \in 0..MaxClock /\ request[r].due \in Nat /\ zone \in {0, 1}
        /\ MaxClock \in Nat
    BY BoundsNat DEF RequestsOK, RequestTypes, RowsOK
  <1>3. today \in 0..(MaxClock + 1)
    BY <1>2 DEF Today, LocalDate
  <1>4. /\ stats.xp \in Nat /\ stats.streak \in Nat /\ stats.longest \in Nat
        /\ stats.last \in Nat \cup {NoDay}
    BY DEF RowsOK, StatsRows
  <1> HIDE DEF today
  <1>5. NextStreak(stats, today) \in Nat
    <2>1. Max({stats.streak, 1}) \in Nat
      BY <1>4, MaxOfTwo
    <2> QED
      BY <1>4, <2>1 DEF NextStreak
  <1>6. Max({stats.longest, NextStreak(stats, today)}) \in Nat
        /\ NextStreak(stats, today) <= Max({stats.longest, NextStreak(stats, today)})
    BY <1>4, <1>5, MaxOfTwo
  <1>7. row = [xp |-> stats.xp + request[r].due, streak |-> NextStreak(stats, today),
               longest |-> Max({stats.longest, NextStreak(stats, today)}), last |-> today]
    BY DEF Touched
  <1> HIDE DEF row
  <1>8. EarnedRules(row) \in SUBSET Rules /\ NewBadges(row) = EarnedRules(row) \ badges
    BY DEF EarnedRules, NewBadges
  <1>9. RewardOf(NewBadges(row)) \in Nat
    BY <1>8, RewardStep
  <1>10. stats' = [xp |-> (stats.xp + request[r].due) + RewardOf(NewBadges(row)),
                   streak |-> NextStreak(stats, today),
                   longest |-> Max({stats.longest, NextStreak(stats, today)}), last |-> today]
    BY <1>1, <1>7
  <1>11. stats' \in StatsRows
    BY <1>2, <1>3, <1>4, <1>5, <1>6, <1>9, <1>10 DEF StatsRows
  <1>12. row = Touched(stats, request[r].due, Today(r))
    BY DEF row, today
  <1>13. /\ Earned(r) \in SUBSET Rules /\ badges' = badges \cup Earned(r)
         /\ stats'.xp = (stats.xp + request[r].due) + RewardOf(Earned(r) \ badges)
    BY <1>1, <1>8, <1>10, <1>12 DEF Earned
  <1>14. today = Today(r)
    BY DEF today
  <1> QED
    BY <1>1, <1>2, <1>3, <1>5, <1>6, <1>10, <1>11, <1>13, <1>14

\* A request that has just arrived, and what it leaves alone.
LEMMA ArrivesCounts ==
  ASSUME RowsOK, NEW r \in Requests, NEW kind, Arrives(r, kind)
  PROVE  arrivals' \in 0..MaxArrivals /\ arrivals' = arrivals + 1 /\ mixed \subseteq mixed'
PROOF
  BY BoundsNat DEF Arrives, RowsOK

\* Making or deleting a card touches the deck alone.
LEMMA DeckChanges ==
  ASSUME RowsOK, NEW k \in StudyCards, MakeFlashcard(k) \/ DeleteFlashcard(k)
  PROVE  /\ UNCHANGED << learned, corrections, planet, module, stats, badges, times, request >>
         /\ UNCHANGED << arrivals, mixed, crossed, regranted, touched, graded, active, wentBack >>
         /\ uncounted' = TRUE /\ span' \in [StudyCards -> Spans]
         /\ verified' \subseteq Owned' /\ claimed' \subseteq Owned'
         /\ claimed' \cap verified' = {} \/ claimed \cap verified # {}
         /\ \A o \in StudyCards : span[o] # "unmade" =>
              /\ span'[o] # "unmade"
              /\ o \in Owned' => o \in Owned /\ (o \in verified' <=> o \in verified)
PROOF
  <1>1. CASE MakeFlashcard(k)
    <2>1. /\ span \in [StudyCards -> Spans] /\ span[k] = "unmade"
          /\ span' = [span EXCEPT ![k] = "new"] /\ verified' = verified \cup {k}
          /\ claimed' = claimed /\ verified \subseteq Owned /\ claimed \subseteq Owned
      BY <1>1 DEF MakeFlashcard, RowsOK
    <2>2. Owned' = Owned \cup {k} /\ k \notin Owned
      BY <2>1 DEF Owned, Spans
    <2>3. span' \in [StudyCards -> Spans] /\ \A o \in StudyCards : o # k => span'[o] = span[o]
      BY <2>1 DEF Spans
    <2> QED
      BY <1>1, <2>1, <2>2, <2>3 DEF MakeFlashcard
  <1>2. CASE DeleteFlashcard(k)
    <2>1. /\ span \in [StudyCards -> Spans] /\ k \in Owned
          /\ span' = [span EXCEPT ![k] = "deleted"] /\ verified' = verified \ {k}
          /\ claimed' = claimed \ {k} /\ verified \subseteq Owned /\ claimed \subseteq Owned
      BY <1>2 DEF DeleteFlashcard, RowsOK
    <2>2. Owned' = Owned \ {k}
      BY <2>1 DEF Owned, Spans
    <2>3. /\ span' \in [StudyCards -> Spans] /\ span'[k] = "deleted"
          /\ \A o \in StudyCards : o # k => span'[o] = span[o]
      BY <2>1 DEF Spans
    <2> QED
      BY <1>2, <2>1, <2>2, <2>3 DEF DeleteFlashcard
  <1> QED
    BY <1>1, <1>2

LEMMA RowsStep ==
  ASSUME RequestsOK, RowsOK, LocksOK, [LearningNext]_learningVars
  PROVE  RequestsOK' /\ RowsOK'
PROOF
  <1>0. /\ MaxArrivals \in Nat /\ MaxClock \in Nat /\ arrivals \in 0..MaxArrivals
        /\ uncounted \in BOOLEAN
    BY BoundsNat DEF RowsOK
  <1>1. ASSUME UNCHANGED << tables, times, crossed, touched, graded, claimed >>,
               arrivals' \in {arrivals, arrivals + 1}, arrivals' \in 0..MaxArrivals,
               uncounted' \in BOOLEAN
        PROVE  RowsOK'
    BY <1>0, <1>1 DEF RowsOK, tables, times, Owned
  <1>2. ASSUME NEW r \in Requests, NEW s \in Sentences, NEW flag \in BOOLEAN, MasterSentence(r, s, flag)
        PROVE  RequestsOK' /\ RowsOK'
    BY <1>0, <1>1, <1>2, MasterSentenceGoes, ArrivesCounts DEF MasterSentence
  <1>3. ASSUME NEW r \in Requests, NEW k \in StudyCards, ConfirmLive(r, k)
        PROVE  RequestsOK' /\ RowsOK'
    <2>1. RequestsOK' /\ arrivals' \in 0..MaxArrivals /\ arrivals' = arrivals + 1
      BY <1>3, ConfirmLiveGoes, ArrivesCounts DEF ConfirmLive
    <2> QED
      BY <1>0, <1>3, <2>1 DEF ConfirmLive, RowsOK, times, Owned
  <1>4. ASSUME NEW r \in Requests, NEW k \in StudyCards, NEW rating \in Ratings, ReviewCard(r, k, rating)
        PROVE  RequestsOK' /\ RowsOK'
    BY <1>0, <1>1, <1>4, ReviewCardGoes, ArrivesCounts DEF ReviewCard
  <1>5. ASSUME NEW r \in Requests, NEW delta \in {-1, 1}, BumpProgress(r, delta)
        PROVE  RequestsOK' /\ RowsOK'
    BY <1>0, <1>1, <1>5, BumpProgressGoes, ArrivesCounts DEF BumpProgress
  <1>6. ASSUME NEW r \in Requests, RecordCorrection(r)
        PROVE  RequestsOK' /\ RowsOK'
    <2>1. RequestsOK' /\ arrivals' \in 0..MaxArrivals /\ arrivals' = arrivals + 1
      BY <1>6, RecordCorrectionGoes, ArrivesCounts DEF RecordCorrection
    <2> QED
      BY <1>0, <1>6, <2>1 DEF RecordCorrection, RowsOK, times, Owned
  <1>7. ASSUME NEW r \in Requests,
               \/ UpsertAndCount(r) \/ ReadModule(r) \/ CountGraduated(r) \/ ReviewNothing(r)
               \/ LockPlanet(r) \/ ReadClock(r) \/ LockStats(r)
        PROVE  RequestsOK' /\ RowsOK'
    <2>1. UNCHANGED << tables, times, records >>
      BY <1>7 DEF UpsertAndCount, ReadModule, CountGraduated, ReviewNothing, LockPlanet, ReadClock,
                  LockStats
    <2>2. RequestsOK'
      BY <1>7, UpsertAndCountGoes, ReadModuleGoes, CountGraduatedGoes, EndsGoes, LockPlanetGoes,
         ReadClockGoes, LockStatsGoes
    <2> QED
      BY <1>0, <1>1, <2>1, <2>2 DEF records
  <1>8. ASSUME NEW r \in Requests, CommitMark(r)
        PROVE  RequestsOK' /\ RowsOK'
    <2>1. RequestsOK'
      BY <1>8, CommitMarkGoes
    <2>2. request[r].on \in Sentences /\ WithMark(r) \subseteq Sentences
      BY <1>8, MarkSize DEF CommitMark, RequestsOK, StepOK, At
    <2> QED
      BY <1>8, <2>1, <2>2 DEF CommitMark, RowsOK, times, Owned
  <1>9. ASSUME NEW r \in Requests, CloseTalk(r) \/ CloseDeck(r)
        PROVE  RequestsOK' /\ RowsOK'
    <2>1. RequestsOK'
      BY <1>9, CloseTalkGoes, EndsGoes
    <2>2. module' \in [Path -> {"current", "talked", "completed"}]
      BY <1>9 DEF CloseTalk, CloseDeck, RowsOK
    <2> QED
      BY <1>9, <2>1, <2>2 DEF CloseTalk, CloseDeck, RowsOK, times, records, Owned
  <1>10. ASSUME NEW r \in Requests, RecordReview(r)
         PROVE  RequestsOK' /\ RowsOK'
    <2>1. RequestsOK'
      BY <1>10, RecordReviewGoes
    <2>2. /\ request[r].on \in Owned /\ request[r].on \in StudyCards /\ request[r].value \in Ratings
          /\ request[r].saw.span \in {"new", "short", "long"}
      BY <1>10 DEF RecordReview, RequestsOK, StepOK, At, Seen
    <2>3. NextSpans(request[r].value, request[r].saw.span) \subseteq {"short", "long"}
      BY <2>2 DEF NextSpans
    <2>4. span' \in [StudyCards -> Spans] /\ Owned' = Owned
      <3>1. span \in [StudyCards -> Spans]
        BY DEF RowsOK
      <3>2. PICK next \in {"short", "long"} : span' = [span EXCEPT ![request[r].on] = next]
        BY <1>10, <2>3 DEF RecordReview
      <3> QED
        BY <2>2, <3>1, <3>2 DEF Owned, Spans
    <2>5. verified' \subseteq Owned' /\ claimed' \subseteq Owned'
      BY <1>10, <2>2, <2>4 DEF RecordReview, RowsOK
    <2> QED
      BY <1>10, <2>1, <2>4, <2>5 DEF RecordReview, RowsOK, times
  <1>11. ASSUME NEW r \in Requests, WritePlanet(r)
         PROVE  RequestsOK' /\ RowsOK'
    <2>1. RequestsOK'
      BY <1>11, WritePlanetGoes
    <2>2. planet' \in PlanetRows /\ graded' \in 0..MaxGrade
      <3>1. \A n \in Int : Clamped(n) \in 0..MaxGrade
        BY BoundsNat DEF Clamped
      <3>2. request[r].count \in Int /\ graded \in Int
        BY DEF RequestsOK, RequestTypes, RowsOK
      <3>3. /\ planet' \in PlanetRows
            /\ graded' = IF request[r].metric = "judged" THEN Clamped(graded + request[r].count)
                                                         ELSE graded
        BY <1>11, PlanetWritten
      <3>4. graded \in 0..MaxGrade
        BY DEF RowsOK
      <3> QED
        BY <3>1, <3>2, <3>3, <3>4
    <2> QED
      BY <1>11, <2>1, <2>2 DEF WritePlanet, RowsOK, times, Owned
  <1>12. ASSUME NEW r \in Requests, WriteStats(r)
         PROVE  RequestsOK' /\ RowsOK'
    <2>1. RequestsOK'
      BY <1>12, AfterTouchGoes
    <2>2. /\ stats' \in StatsRows /\ stats'.streak <= stats'.longest
          /\ badges' = badges \cup Earned(r) /\ Earned(r) \in SUBSET Rules
          /\ touched' = touched + request[r].due /\ request[r].due \in Nat
      BY <1>12, StatsWritten
    <2> QED
      BY <1>12, <2>1, <2>2 DEF WriteStats, RowsOK, times, Owned
  <1>13. ASSUME NEW r \in Requests, TouchFails(r) \/ DropRequest(r)
         PROVE  RequestsOK' /\ RowsOK'
    <2>1. RequestsOK'
      BY <1>13, AfterTouchGoes, EndsGoes
    <2> QED
      BY <1>0, <1>1, <1>13, <2>1 DEF TouchFails, DropRequest, records
  <1>14. CASE Tick
    BY <1>0, <1>14 DEF Tick, RequestsOK, RowsOK, tables, records, Owned
  <1>15. ASSUME NEW z \in {0, 1}, SetTimezone(z)
         PROVE  RequestsOK' /\ RowsOK'
    BY <1>15 DEF SetTimezone, RequestsOK, RowsOK, tables, records, Owned
  <1>16. CASE UNCHANGED learningVars
    BY <1>16 DEF learningVars, RequestsOK, RowsOK, tables, times, records, Owned
  <1>17. ASSUME NEW r \in Requests, CountOwned(r)
         PROVE  RequestsOK' /\ RowsOK'
    <2>1. RequestsOK' /\ uncounted' \in BOOLEAN /\ UNCHANGED << tables, times >>
          /\ UNCHANGED << arrivals, crossed, touched, graded, claimed >>
      BY <1>17, CountOwnedGoes DEF CountOwned
    <2> QED
      BY <1>0, <1>1, <2>1
  <1>18. ASSUME NEW k \in StudyCards, MakeFlashcard(k) \/ DeleteFlashcard(k)
         PROVE  RequestsOK' /\ RowsOK'
    <2>1. /\ UNCHANGED << learned, corrections, planet, module, stats, badges, times, request >>
          /\ UNCHANGED << arrivals, crossed, touched, graded >>
          /\ uncounted' = TRUE /\ span' \in [StudyCards -> Spans]
          /\ verified' \subseteq Owned' /\ claimed' \subseteq Owned'
      BY <1>18, DeckChanges
    <2> QED
      BY <2>1 DEF RequestsOK, RowsOK, times
  <1> QED
    BY <1>2, <1>3, <1>4, <1>5, <1>6, <1>7, <1>8, <1>9, <1>10, <1>11, <1>12, <1>13, <1>14, <1>15,
       <1>16, <1>17, <1>18 DEF LearningNext, RequestArrives, RequestGoesOn, Ratings

\* A row is locked by one request at a time, and only that one writes it.
LEMMA LocksStep ==
  ASSUME RequestsOK, RowsOK, LocksOK, [LearningNext]_learningVars
  PROVE  LocksOK'
PROOF
  <1>1. ASSUME NEW r \in Requests, Others(r), UNCHANGED << planet, stats >>,
               request'[r].at \notin {"planet", "stats", "commit"}
        PROVE  LocksOK'
    BY <1>1 DEF LocksOK, Others, At
  <1>2. ASSUME NEW r \in Requests, RequestArrives(r)
        PROVE  LocksOK'
    <2>1. UNCHANGED << planet, stats >>
      BY <1>2 DEF RequestArrives, MasterSentence, ConfirmLive, ReviewCard, BumpProgress,
                  RecordCorrection, tables
    <2>2. Others(r) /\ request'[r].at \notin {"planet", "stats", "commit"}
      BY <1>2, MasterSentenceGoes, ConfirmLiveGoes, ReviewCardGoes, BumpProgressGoes,
         RecordCorrectionGoes DEF RequestArrives, Ratings
    <2> QED
      BY <1>1, <2>1, <2>2
  <1>3. ASSUME NEW r \in Requests, UpsertAndCount(r)
        PROVE  LocksOK'
    <2>1. /\ Others(r) /\ request'[r].at = "commit" /\ request'[r].on = request[r].on
          /\ UNCHANGED << planet, stats >>
          /\ \A o \in Requests : At(o, "commit") => request[o].on # request[r].on
      BY <1>3, UpsertAndCountGoes DEF UpsertAndCount, tables
    <2> QED
      BY <2>1 DEF LocksOK, Others, At
  <1>4. ASSUME NEW r \in Requests, LockPlanet(r)
        PROVE  LocksOK'
    <2>1. /\ Others(r) /\ request'[r].at = "planet" /\ request'[r].row = planet
          /\ UNCHANGED << planet, stats >>
          /\ \A o \in Requests : ~ At(o, "planet")
      BY <1>4, LockPlanetGoes DEF LockPlanet, tables, PlanetRowFree, NobodyAt
    <2> QED
      BY <2>1 DEF LocksOK, Others, At
  <1>5. ASSUME NEW r \in Requests, LockStats(r)
        PROVE  LocksOK'
    <2>1. /\ Others(r) /\ request'[r].at = "stats" /\ request'[r].row = stats
          /\ UNCHANGED << planet, stats >>
          /\ \A o \in Requests : ~ At(o, "stats")
      BY <1>5, LockStatsGoes DEF LockStats, tables, StatsRowFree, NobodyAt
    <2> QED
      BY <2>1 DEF LocksOK, Others, At
  <1>6. ASSUME NEW r \in Requests, WritePlanet(r)
        PROVE  LocksOK'
    <2>1. /\ Others(r) /\ request'[r].at \notin {"planet", "stats", "commit"}
          /\ At(r, "planet") /\ UNCHANGED stats
      BY <1>6, WritePlanetGoes DEF WritePlanet
    <2> QED
      BY <2>1 DEF LocksOK, Others, At
  <1>7. ASSUME NEW r \in Requests, WriteStats(r)
        PROVE  LocksOK'
    <2>1. /\ Others(r) /\ request'[r].at \notin {"planet", "stats", "commit"}
          /\ At(r, "stats") /\ UNCHANGED planet
      BY <1>7, AfterTouchGoes DEF WriteStats, Idle
    <2> QED
      BY <2>1 DEF LocksOK, Others, At
  <1>8. ASSUME NEW r \in Requests,
               \/ CommitMark(r) \/ ReadModule(r) \/ CloseTalk(r) \/ CloseDeck(r) \/ RecordReview(r)
               \/ ReviewNothing(r) \/ CountOwned(r) \/ CountGraduated(r) \/ ReadClock(r)
               \/ TouchFails(r) \/ DropRequest(r)
        PROVE  LocksOK'
    <2>1. UNCHANGED << planet, stats >>
      BY <1>8 DEF CommitMark, ReadModule, CloseTalk, CloseDeck, RecordReview, ReviewNothing,
                  CountOwned, CountGraduated, ReadClock, TouchFails, DropRequest, tables
    <2>2. Others(r) /\ request'[r].at \notin {"planet", "stats", "commit"}
      BY <1>8, CommitMarkGoes, ReadModuleGoes, CloseTalkGoes, EndsGoes, RecordReviewGoes,
         CountOwnedGoes, CountGraduatedGoes, ReadClockGoes, AfterTouchGoes DEF Idle
    <2> QED
      BY <1>1, <2>1, <2>2
  <1>9. CASE Tick \/ (\E z \in {0, 1} : SetTimezone(z)) \/ UNCHANGED learningVars
             \/ (\E k \in StudyCards : MakeFlashcard(k) \/ DeleteFlashcard(k))
    BY <1>9 DEF Tick, SetTimezone, MakeFlashcard, DeleteFlashcard, learningVars, tables, LocksOK, At
  <1> QED
    BY <1>2, <1>3, <1>4, <1>5, <1>6, <1>7, <1>8, <1>9 DEF LearningNext, RequestGoesOn

\* A sentence paid for twice was marked by two calls at once.
LEMMA CrossedStep ==
  ASSUME RequestsOK, RowsOK, LocksOK, CrossedOK, regranted \subseteq crossed,
         [LearningNext]_learningVars
  PROVE  CrossedOK' /\ regranted' \subseteq crossed'
PROOF
  <1>1. ASSUME NEW r \in Requests, Others(r), UNCHANGED << learned, crossed, regranted >>,
               request'[r].at \notin {"upsert", "commit"}
        PROVE  CrossedOK' /\ regranted' \subseteq crossed'
    BY <1>1 DEF CrossedOK, Others, At
  <1>2. ASSUME NEW r \in Requests, NEW s \in Sentences, NEW flag \in BOOLEAN, MasterSentence(r, s, flag)
        PROVE  CrossedOK' /\ regranted' \subseteq crossed'
    <2>1. /\ Others(r) /\ request'[r].on = s /\ request'[r].saw = (s \in learned)
          /\ UNCHANGED << learned, crossed, regranted >>
      BY <1>2, MasterSentenceGoes DEF MasterSentence, tables
    <2> QED
      BY <2>1 DEF CrossedOK, Others, At
  <1>3. ASSUME NEW r \in Requests, UpsertAndCount(r)
        PROVE  CrossedOK' /\ regranted' \subseteq crossed'
    <2>1. /\ Others(r) /\ request'[r].on = request[r].on /\ request'[r].saw = request[r].saw
          /\ At(r, "upsert") /\ UNCHANGED << learned, crossed, regranted >>
      BY <1>3, UpsertAndCountGoes DEF UpsertAndCount, tables, records
    <2> QED
      BY <2>1 DEF CrossedOK, Others, At
  <1>4. ASSUME NEW r \in Requests, CommitMark(r)
        PROVE  CrossedOK' /\ regranted' \subseteq crossed'
    <2> DEFINE s == request[r].on
    <2>1. /\ Others(r) /\ request'[r].at = "metric" /\ At(r, "commit")
          /\ learned' \subseteq learned \cup {s}
          /\ crossed' = crossed \cup
               {t \in {s} : \E o \in Requests \ {r} : At(o, "upsert") /\ request[o].on = t}
          /\ regranted' = regranted \cup {t \in {s} \cap learned : Newly(r)}
      BY <1>4, CommitMarkGoes DEF CommitMark, WithMark
    <2>2. s \in learned /\ Newly(r) => s \in crossed
      BY <2>1 DEF CrossedOK, Newly
    <2>3. ASSUME NEW o \in Requests, At(o, "upsert")' \/ At(o, "commit")',
                 request'[o].on \in learned', request'[o].saw # TRUE
          PROVE  request'[o].on \in crossed'
      <3>1. o # r /\ request'[o] = request[o]
        BY <2>1, <2>3 DEF Others, At
      <3>2. CASE request[o].on \in learned
        BY <2>1, <2>3, <3>1, <3>2 DEF CrossedOK, At
      <3>3. CASE request[o].on = s
        BY <2>1, <2>3, <3>1, <3>3 DEF LocksOK, At
      <3> QED
        BY <2>1, <2>3, <3>1, <3>2, <3>3
    <2> QED
      BY <2>1, <2>2, <2>3 DEF CrossedOK
  <1>5. ASSUME NEW r \in Requests,
               (RequestArrives(r) /\ learned' = learned /\ request'[r].at # "upsert")
               \/ (RequestGoesOn(r) /\ ~ UpsertAndCount(r) /\ ~ CommitMark(r))
        PROVE  CrossedOK' /\ regranted' \subseteq crossed'
    <2>1. CASE RequestArrives(r) /\ request'[r].at # "upsert"
      <3>1. UNCHANGED << learned, crossed, regranted >>
        BY <2>1 DEF RequestArrives, MasterSentence, ConfirmLive, ReviewCard, BumpProgress,
                    RecordCorrection, tables
      <3>2. Others(r) /\ request'[r].at \notin {"upsert", "commit"}
        BY <2>1, MasterSentenceGoes, ConfirmLiveGoes, ReviewCardGoes, BumpProgressGoes,
           RecordCorrectionGoes DEF RequestArrives, Ratings
      <3> QED
        BY <1>1, <3>1, <3>2
    <2>2. CASE RequestGoesOn(r) /\ ~ UpsertAndCount(r) /\ ~ CommitMark(r)
      <3>1. UNCHANGED << learned, crossed, regranted >>
        BY <2>2 DEF RequestGoesOn, ReadModule, CloseTalk, CloseDeck, RecordReview, ReviewNothing,
                    CountOwned, CountGraduated, LockPlanet, WritePlanet, ReadClock, LockStats,
                    WriteStats, TouchFails, DropRequest, tables, records
      <3>2. Others(r) /\ request'[r].at \notin {"upsert", "commit"}
        BY <2>2, ReadModuleGoes, CloseTalkGoes, EndsGoes, RecordReviewGoes, CountOwnedGoes,
           CountGraduatedGoes, LockPlanetGoes, WritePlanetGoes, ReadClockGoes, LockStatsGoes,
           AfterTouchGoes DEF RequestGoesOn, Idle
      <3> QED
        BY <1>1, <3>1, <3>2
    <2> QED
      BY <1>5, <2>1, <2>2
  <1>6. ASSUME NEW r \in Requests, RequestArrives(r)
        PROVE  CrossedOK' /\ regranted' \subseteq crossed'
    <2>1. ASSUME ~ \E s \in Sentences, flag \in BOOLEAN : MasterSentence(r, s, flag)
          PROVE  learned' = learned /\ request'[r].at # "upsert"
      <3>1. learned' = learned
        BY <1>6, <2>1 DEF RequestArrives, ConfirmLive, ReviewCard, BumpProgress, RecordCorrection,
                          tables
      <3> QED
        BY <1>6, <2>1, <3>1, ConfirmLiveGoes, ReviewCardGoes, BumpProgressGoes,
           RecordCorrectionGoes DEF RequestArrives, Ratings
    <2> QED
      BY <1>2, <1>5, <1>6, <2>1
  <1>7. CASE Tick \/ (\E z \in {0, 1} : SetTimezone(z)) \/ UNCHANGED learningVars
             \/ (\E k \in StudyCards : MakeFlashcard(k) \/ DeleteFlashcard(k))
    BY <1>7 DEF Tick, SetTimezone, MakeFlashcard, DeleteFlashcard, learningVars, tables, records,
                CrossedOK, At
  <1> QED
    BY <1>3, <1>4, <1>5, <1>6, <1>7 DEF LearningNext

(***************************************************************************)
(* What is computed from rows                                              *)
(***************************************************************************)

\* A request about something else, that writes no sentence, leaves the sentences counted.
LEMMA SentencesElsewhere ==
  ASSUME SentencesOK, NEW r \in Requests, Others(r), mixed \subseteq mixed',
         UNCHANGED << learned, module >>, planet'.sentences = planet.sentences,
         request[r].metric # "sentences", request'[r].metric # "sentences"
  PROVE  SentencesOK'
PROOF
  <1>1. About("sentences")' = About("sentences")
        /\ \A o \in About("sentences") : request'[o] = request[o]
    BY DEF About, Others
  <1>2. \A o \in About("sentences") : CountsSentences(o) => CountsSentences(o)'
    BY <1>1 DEF CountsSentences, At, Over, WithMark, Newly
  <1> QED
    BY <1>1, <1>2 DEF SentencesOK, OnlyOne, Settled, Over

\* The only request about sentences goes on, or ends.
LEMMA SentencesGoOn ==
  ASSUME SentencesOK, NEW r \in Requests, Others(r), mixed \subseteq mixed',
         request[r].metric = "sentences" \/ Settled("sentences") \/ "sentences" \in mixed',
         "sentences" \notin mixed' /\ (request[r].metric = "sentences" => CountsSentences(r)) =>
           IF request'[r].metric = "sentences" THEN CountsSentences(r)'
           ELSE planet'.sentences = Cardinality(learned') /\ Over'
  PROVE  SentencesOK'
PROOF
  <1>1. SUFFICES ASSUME "sentences" \notin mixed'
                 PROVE  /\ OnlyOne("sentences")'
                        /\ Settled("sentences")' =>
                             planet'.sentences = Cardinality(learned') /\ Over'
                        /\ \A o \in About("sentences")' : CountsSentences(o)'
    BY DEF SentencesOK
  <1>2. "sentences" \notin mixed
    BY <1>1
  <1>3. \A o \in Requests : o # r => request'[o].metric # "sentences"
    BY <1>1, <1>2 DEF SentencesOK, OnlyOne, Settled, About, Others
  <1>4. IF request'[r].metric = "sentences" THEN CountsSentences(r)'
        ELSE planet'.sentences = Cardinality(learned') /\ Over'
    BY <1>1, <1>2 DEF SentencesOK, About
  <1>5. \A o \in About("sentences")' : o = r /\ request'[r].metric = "sentences"
    BY <1>3 DEF About
  <1>6. OnlyOne("sentences")'
    BY <1>5 DEF OnlyOne
  <1>7. Settled("sentences")' => request'[r].metric # "sentences"
    BY DEF Settled, About
  <1> QED
    BY <1>4, <1>5, <1>6, <1>7

LEMMA SentencesStep ==
  ASSUME RequestsOK, RowsOK, LocksOK, SentencesOK, [LearningNext]_learningVars
  PROVE  SentencesOK'
PROOF
  <1>0. \A r \in Requests : request[r] \in RequestTypes /\ StepOK(request[r])
    BY DEF RequestsOK
  <1>1. ASSUME NEW r \in Requests, NEW s \in Sentences, NEW flag \in BOOLEAN, MasterSentence(r, s, flag)
        PROVE  SentencesOK'
    <2>1. /\ Others(r) /\ request'[r].at = "upsert" /\ request'[r].metric = "sentences"
          /\ request'[r].on = s /\ request'[r].saw = (s \in learned)
      BY <1>1, MasterSentenceGoes
    <2>2. /\ UNCHANGED << learned, planet, module >> /\ mixed \subseteq mixed'
          /\ Settled("sentences") \/ "sentences" \in mixed'
      BY <1>1 DEF MasterSentence, Arrives, Counting, tables
    <2>3. "sentences" \notin mixed' => CountsSentences(r)'
      BY <2>1, <2>2 DEF SentencesOK, CountsSentences, At, Over
    <2> QED
      BY <2>1, <2>2, <2>3, SentencesGoOn
  <1>2. ASSUME NEW r \in Requests, RequestArrives(r),
               ~ \E s \in Sentences, flag \in BOOLEAN : MasterSentence(r, s, flag)
        PROVE  SentencesOK'
    <2>1. Others(r) /\ request'[r].metric # "sentences"
      BY <1>2, ConfirmLiveGoes, ReviewCardGoes, BumpProgressGoes, RecordCorrectionGoes
         DEF RequestArrives, Ratings
    <2>2. /\ UNCHANGED << learned, planet, module >> /\ mixed \subseteq mixed'
          /\ At(r, "idle")
      BY <1>2 DEF RequestArrives, ConfirmLive, ReviewCard, BumpProgress, RecordCorrection,
         Arrives,
                  tables
    <2>3. request[r].metric # "sentences"
      BY <1>0, <2>2 DEF StepOK, At, Idle
    <2> QED
      BY <2>1, <2>2, <2>3, SentencesElsewhere
  <1>3. ASSUME NEW r \in Requests, UpsertAndCount(r)
        PROVE  SentencesOK'
    <2>1. /\ Others(r)
          /\ request'[r].at = "commit" /\ request'[r].metric = "sentences"
          /\ request'[r].on = request[r].on /\ request'[r].value = request[r].value
          /\ request'[r].saw = request[r].saw
          /\ request'[r].count = Cardinality(WithMark(r))
          /\ request'[r].due = IF Newly(r) THEN 8 ELSE 0
      BY <1>3, UpsertAndCountGoes
    <2>2. At(r, "upsert") /\ request[r].metric = "sentences"
          /\ UNCHANGED << learned, planet, module, mixed >>
      BY <1>0, <1>3 DEF UpsertAndCount, tables, records, StepOK, At
    <2>3. WithMark(r)' = WithMark(r) /\ Newly(r)' = Newly(r)
      BY <2>1, <2>2 DEF WithMark, Newly
    <2>4. CountsSentences(r) => CountsSentences(r)'
      BY <2>1, <2>2, <2>3 DEF CountsSentences, At, Over
    <2> QED
      BY <2>1, <2>2, <2>4, SentencesGoOn
  <1>4. ASSUME NEW r \in Requests, CommitMark(r)
        PROVE  SentencesOK'
    <2>1. /\ Others(r) /\ request'[r].at = "metric" /\ request'[r].metric = "sentences"
          /\ request'[r].count = request[r].count /\ request'[r].due = request[r].due
      BY <1>4, CommitMarkGoes
    <2>2. /\ At(r, "commit") /\ request[r].metric = "sentences" /\ request[r].on \in Sentences
          /\ request[r].value \in BOOLEAN
          /\ learned' = WithMark(r) /\ UNCHANGED << planet, module, mixed >>
      BY <1>0, <1>4 DEF CommitMark, StepOK, At
    <2>3. ASSUME CountsSentences(r), request[r].due = 0
          PROVE  Over'
      <3>1. ~ Newly(r) /\ Over /\ request[r].saw = (request[r].on \in learned)
        BY <2>2, <2>3 DEF CountsSentences
      <3>2. CASE request[r].value
        BY <2>2, <3>1, <3>2 DEF Newly, Over, WithMark
      <3>3. CASE ~ request[r].value
        BY <2>2, <3>3 DEF Over, WithMark
      <3> QED
        BY <3>2, <3>3
    <2>4. CountsSentences(r) => CountsSentences(r)'
      BY <2>1, <2>2, <2>3 DEF CountsSentences, At
    <2> QED
      BY <2>1, <2>2, <2>4, SentencesGoOn
  <1>5. ASSUME NEW r \in Requests, LockPlanet(r) \/ ReadClock(r) \/ LockStats(r)
        PROVE  SentencesOK'
    <2>1. /\ Others(r) /\ request'[r].metric = request[r].metric
          /\ request'[r].count = request[r].count
          /\ \/ request[r].at = "metric" /\ request'[r].at = "planet" /\ request'[r].due = request[r].due
             \/ request[r].at \in {"clock", "touch"} /\ request'[r].at \in {"touch", "stats"}
          /\ UNCHANGED << learned, planet, module, mixed >>
      BY <1>5, LockPlanetGoes, ReadClockGoes, LockStatsGoes
         DEF LockPlanet, ReadClock, LockStats, At, tables, records
    <2>2. CASE request[r].metric = "sentences"
      <3>1. CountsSentences(r) => CountsSentences(r)'
        BY <2>1 DEF CountsSentences, At, Over
      <3> QED
        BY <2>1, <2>2, <3>1, SentencesGoOn
    <2>3. CASE request[r].metric # "sentences"
      BY <2>1, <2>3, SentencesElsewhere
    <2> QED
      BY <2>2, <2>3
  <1>6. ASSUME NEW r \in Requests, WritePlanet(r)
        PROVE  SentencesOK'
    <2>1. /\ Others(r)
          /\ request'[r].at \in {"idle", "clock"}
          /\ request[r].metric = "sentences" =>
               IF request[r].due = 0 THEN request'[r] = Idle
               ELSE /\ request'[r].at = "clock" /\ request'[r].metric = "sentences"
                    /\ request'[r].count = request[r].count
          /\ request[r].metric # "sentences" => request'[r].metric = "none"
      BY <1>6, WritePlanetGoes
    <2>2. /\ At(r, "planet") /\ UNCHANGED << learned, module, mixed >>
          /\ planet'.sentences = IF request[r].metric = "sentences" THEN request[r].count
                                                                    ELSE planet.sentences
      BY <1>6, PlanetWritten DEF WritePlanet
    <2>3. CASE request[r].metric = "sentences"
      <3>1. CASE request[r].due = 0
        <4>1. request'[r].metric # "sentences"
          BY <2>1, <2>3, <3>1 DEF Idle
        <4>2. CountsSentences(r) => planet'.sentences = Cardinality(learned') /\ Over'
          BY <2>2, <2>3, <3>1 DEF CountsSentences, Over
        <4> QED
          BY <2>1, <2>2, <2>3, <4>1, <4>2, SentencesGoOn
      <3>2. CASE request[r].due # 0
        <4>1. CountsSentences(r) => CountsSentences(r)'
          BY <2>1, <2>2, <2>3, <3>2 DEF CountsSentences, At
        <4> QED
          BY <2>1, <2>2, <2>3, <3>2, <4>1, SentencesGoOn
      <3> QED
        BY <3>1, <3>2
    <2>4. CASE request[r].metric # "sentences"
      BY <2>1, <2>2, <2>4, SentencesElsewhere
    <2> QED
      BY <2>3, <2>4
  <1>7. ASSUME NEW r \in Requests, WriteStats(r) \/ TouchFails(r)
        PROVE  SentencesOK'
    <2>1. /\ Others(r)
          /\ IF request[r].metric = "sentences" /\ request[r].count >= NSentences
               THEN request'[r].at = "close" /\ request'[r].metric = "sentences"
               ELSE request'[r] = Idle
      BY <1>7, AfterTouchGoes
    <2>2. /\ At(r, "touch") \/ At(r, "stats")
          /\ UNCHANGED << learned, planet, module, mixed >>
      BY <1>7 DEF WriteStats, TouchFails, tables, records
    <2>3. CASE request[r].metric = "sentences"
      <3>1. CASE request[r].count >= NSentences
        <4>1. CountsSentences(r) => CountsSentences(r)'
          BY <2>1, <2>2, <2>3, <3>1 DEF CountsSentences, At
        <4> QED
          BY <2>1, <2>2, <2>3, <3>1, <4>1, SentencesGoOn
      <3>2. CASE ~ (request[r].count >= NSentences)
        <4>1. request'[r].metric # "sentences"
          BY <2>1, <3>2 DEF Idle
        <4>2. CountsSentences(r) => planet.sentences = Cardinality(learned) /\ learned # Sentences
          BY <2>2, <3>2, Sizes DEF CountsSentences, NSentences
        <4>3. CountsSentences(r) => planet'.sentences = Cardinality(learned') /\ Over'
          BY <2>2, <4>2 DEF Over
        <4> QED
          BY <2>1, <2>2, <2>3, <4>1, <4>3, SentencesGoOn
      <3> QED
        BY <3>1, <3>2
    <2>4. CASE request[r].metric # "sentences"
      <3>1. request'[r].metric # "sentences"
        BY <2>1, <2>4 DEF Idle
      <3> QED
        BY <2>1, <2>2, <2>4, <3>1, SentencesElsewhere
    <2> QED
      BY <2>3, <2>4
  <1>8. ASSUME NEW r \in Requests, ReadModule(r)
        PROVE  SentencesOK'
    <2>1. /\ Others(r)
          /\ \/ request'[r] = Idle /\ Open = {}
             \/ /\ request'[r].at = "talk" /\ request'[r].metric = "sentences"
                /\ request'[r].on \in Path /\ IsCurrent(request'[r].on)
      BY <1>8, ReadModuleGoes
    <2>2. At(r, "close") /\ UNCHANGED << learned, planet, module, mixed >>
      BY <1>8 DEF ReadModule, tables, records
    <2>3. request[r].metric = "sentences" /\ 1 \in Path
      BY <1>0, <2>2, BoundsNat DEF StepOK, At, Path
    <2>4. CASE request'[r] = Idle /\ Open = {}
      <3>1. request'[r].metric # "sentences" /\ module[1] = "completed"
        BY <2>3, <2>4 DEF Idle, Open, Path
      <3>2. CountsSentences(r) => planet'.sentences = Cardinality(learned') /\ Over'
        BY <2>2, <3>1 DEF CountsSentences, Over
      <3> QED
        BY <2>1, <2>2, <2>3, <3>1, <3>2, SentencesGoOn
    <2>5. CASE /\ request'[r].at = "talk" /\ request'[r].metric = "sentences"
               /\ request'[r].on \in Path /\ IsCurrent(request'[r].on)
      <3>1. request'[r].on # 1 => module[1] = "completed"
        BY <2>3, <2>5, BoundsNat DEF IsCurrent, Open, Path
      <3>2. CountsSentences(r) => CountsSentences(r)'
        BY <2>2, <2>5, <3>1 DEF CountsSentences, At
      <3> QED
        BY <2>1, <2>2, <2>3, <2>5, <3>2, SentencesGoOn
    <2> QED
      BY <2>1, <2>4, <2>5
  <1>12. ASSUME NEW r \in Requests, CloseTalk(r)
         PROVE  SentencesOK'
    <2>1. /\ Others(r) /\ request'[r].at = "deck" /\ request'[r].metric = "sentences"
          /\ request'[r].on = request[r].on
      BY <1>12, CloseTalkGoes
    <2>2. /\ At(r, "talk") /\ UNCHANGED << learned, planet, mixed >>
          /\ module' = [module EXCEPT ![request[r].on] = IF @ = "current" THEN "talked" ELSE @]
      BY <1>12 DEF CloseTalk, records
    <2>3. request[r].metric = "sentences" /\ module \in [Path -> {"current", "talked", "completed"}]
      BY <1>0, <2>2 DEF StepOK, At, RowsOK
    <2>4. 1 \in Path
      BY BoundsNat DEF Path
    <2>5. module[1] = "completed" => module'[1] = "completed"
      BY <2>2, <2>3, <2>4
    <2>6. CountsSentences(r) => CountsSentences(r)'
      BY <2>1, <2>2, <2>5 DEF CountsSentences, At
    <2> QED
      BY <2>1, <2>2, <2>3, <2>6, SentencesGoOn
  <1>13. ASSUME NEW r \in Requests, CloseDeck(r)
         PROVE  SentencesOK'
    <2>1. /\ Others(r) /\ request'[r] = Idle
      BY <1>13, EndsGoes
    <2>2. /\ At(r, "deck") /\ UNCHANGED << learned, planet, mixed >>
          /\ module' = [module EXCEPT ![request[r].on] = "completed"]
      BY <1>13 DEF CloseDeck, records
    <2>3. request[r].metric = "sentences" /\ module \in [Path -> {"current", "talked", "completed"}]
      BY <1>0, <2>2 DEF StepOK, At, RowsOK
    <2>4. 1 \in Path
      BY BoundsNat DEF Path
    <2>5. request[r].on = 1 \/ module[1] = "completed" => module'[1] = "completed"
      BY <2>2, <2>3, <2>4
    <2>6. CountsSentences(r) => planet'.sentences = Cardinality(learned') /\ Over'
      BY <2>2, <2>5 DEF CountsSentences, Over
    <2>7. request'[r].metric # "sentences"
      BY <2>1 DEF Idle
    <2> QED
      BY <2>1, <2>2, <2>3, <2>6, <2>7, SentencesGoOn
  <1>9. ASSUME NEW r \in Requests,
               RecordReview(r) \/ ReviewNothing(r) \/ CountOwned(r) \/ CountGraduated(r)
        PROVE  SentencesOK'
    <2>1. /\ Others(r) /\ request'[r].metric # "sentences"
          /\ At(r, "review") \/ At(r, "count") \/ At(r, "graduates")
          /\ UNCHANGED << learned, planet, module, mixed >>
      <3>1. CASE RecordReview(r)
        BY <3>1, RecordReviewGoes DEF RecordReview
      <3>2. CASE ReviewNothing(r)
        BY <3>2, EndsGoes DEF ReviewNothing, Idle, tables, records
      <3>3. CASE CountOwned(r)
        BY <3>3, CountOwnedGoes DEF CountOwned, tables
      <3>4. CASE CountGraduated(r)
        BY <3>4, CountGraduatedGoes DEF CountGraduated, tables, records
      <3> QED
        BY <1>9, <3>1, <3>2, <3>3, <3>4
    <2>2. request[r].metric # "sentences"
      BY <1>0, <2>1 DEF StepOK, At
    <2> QED
      BY <2>1, <2>2, SentencesElsewhere
  <1>10. ASSUME NEW r \in Requests, DropRequest(r)
         PROVE  SentencesOK'
    <2>1. /\ Others(r) /\ request'[r] = Idle /\ UNCHANGED << learned, planet, module >>
          /\ mixed' = mixed \cup ({request[r].metric} \cap Counting)
      BY <1>10, EndsGoes DEF DropRequest, tables
    <2>2. request'[r].metric # "sentences"
      BY <2>1 DEF Idle
    <2>3. CASE request[r].metric = "sentences"
      BY <2>1, <2>3 DEF SentencesOK, Counting
    <2>4. CASE request[r].metric # "sentences"
      BY <2>1, <2>2, <2>4, SentencesElsewhere
    <2> QED
      BY <2>3, <2>4
  <1>11. CASE Tick \/ (\E z \in {0, 1} : SetTimezone(z)) \/ UNCHANGED learningVars
              \/ (\E k \in StudyCards : MakeFlashcard(k) \/ DeleteFlashcard(k))
    <2>1. UNCHANGED << learned, planet, module, request, mixed >>
      BY <1>11 DEF Tick, SetTimezone, MakeFlashcard, DeleteFlashcard, learningVars, tables, records
    <2> QED
      BY <2>1 DEF SentencesOK, OnlyOne, Settled, About, CountsSentences, At, Over, WithMark, Newly
  <1> QED
    BY <1>1, <1>2, <1>3, <1>4, <1>5, <1>6, <1>7, <1>8, <1>9, <1>10, <1>11, <1>12, <1>13
       DEF LearningNext, RequestGoesOn

LEMMA CardsElsewhere ==
  ASSUME CardsOK, NEW r \in Requests, Others(r), mixed \subseteq mixed',
         UNCHANGED << span, verified, claimed, uncounted >>, planet'.flashcards = planet.flashcards,
         request[r].metric # "flashcards", request'[r].metric # "flashcards"
  PROVE  CardsOK'
PROOF
  <1>1. About("flashcards")' = About("flashcards")
        /\ \A o \in About("flashcards") : request'[o] = request[o]
    BY DEF About, Others
  <1>2. Graduated' = Graduated /\ Owned' = Owned
    BY DEF Graduated, Owned
  <1>3. \A o \in About("flashcards") : CountsCards(o) => CountsCards(o)'
    BY <1>1, <1>2 DEF CountsCards, At
  <1> QED
    BY <1>1, <1>2, <1>3 DEF CardsOK, OnlyOne, Settled, Counted

\* The only request about cards goes on, or ends.
LEMMA CardsGoOn ==
  ASSUME CardsOK, NEW r \in Requests, Others(r), mixed \subseteq mixed',
         request[r].metric = "flashcards" \/ Settled("flashcards") \/ "flashcards" \in mixed',
         "flashcards" \notin mixed' /\ claimed \cap verified = {}
             /\ (request[r].metric = "flashcards" => CountsCards(r)) =>
           /\ claimed' \cap verified' = {}
           /\ IF request'[r].metric = "flashcards" THEN CountsCards(r)'
              ELSE uncounted' \/ Counted'
  PROVE  CardsOK'
PROOF
  <1>1. SUFFICES ASSUME "flashcards" \notin mixed'
                 PROVE  /\ OnlyOne("flashcards")'
                        /\ claimed' \cap verified' = {}
                        /\ Settled("flashcards")' => uncounted' \/ Counted'
                        /\ \A o \in About("flashcards")' : CountsCards(o)'
    BY DEF CardsOK
  <1>2. "flashcards" \notin mixed
    BY <1>1
  <1>3. \A o \in Requests : o # r => request'[o].metric # "flashcards"
    BY <1>1, <1>2 DEF CardsOK, OnlyOne, Settled, About, Others
  <1>4. /\ claimed' \cap verified' = {}
        /\ IF request'[r].metric = "flashcards" THEN CountsCards(r)'
           ELSE uncounted' \/ Counted'
    BY <1>1, <1>2 DEF CardsOK, About
  <1>5. \A o \in About("flashcards")' : o = r /\ request'[r].metric = "flashcards"
    BY <1>3 DEF About
  <1>6. OnlyOne("flashcards")'
    BY <1>5 DEF OnlyOne
  <1>7. Settled("flashcards")' => request'[r].metric # "flashcards"
    BY DEF Settled, About
  <1> QED
    BY <1>4, <1>5, <1>6, <1>7

LEMMA CardsStep ==
  ASSUME RequestsOK, RowsOK, LocksOK, CardsOK, [LearningNext]_learningVars
  PROVE  CardsOK'
PROOF
  <1>0. \A r \in Requests : request[r] \in RequestTypes /\ StepOK(request[r])
    BY DEF RequestsOK
  <1>1. ASSUME NEW r \in Requests, NEW k \in StudyCards, NEW rating \in Ratings, ReviewCard(r, k, rating)
        PROVE  CardsOK'
    <2>1. /\ Others(r) /\ request'[r].at = "review" /\ request'[r].metric = "flashcards"
          /\ request'[r].on = k /\ request'[r].saw.verified = (k \in verified)
      BY <1>1, ReviewCardGoes
    <2>2. /\ UNCHANGED << verified, claimed, span >> /\ mixed \subseteq mixed'
          /\ Settled("flashcards") \/ "flashcards" \in mixed'
          /\ span[k] # "unmade" /\ k \in Owned'
      BY <1>1 DEF ReviewCard, Arrives, Counting, tables, Owned
    <2>3. CountsCards(r)'
      BY <2>1, <2>2 DEF CountsCards, At
    <2> QED
      BY <2>1, <2>2, <2>3, CardsGoOn
  <1>2. ASSUME NEW r \in Requests, NEW k \in StudyCards, ConfirmLive(r, k)
        PROVE  CardsOK'
    <2>1. /\ Others(r) /\ request'[r].at = "count" /\ request'[r].metric = "flashcards"
      BY <1>2, ConfirmLiveGoes
    <2>2. /\ mixed \subseteq mixed'
          /\ Settled("flashcards") \/ "flashcards" \in mixed'
          /\ verified' = verified \cup {k} /\ claimed' = claimed \ {k}
      BY <1>2 DEF ConfirmLive, Arrives, Counting
    <2>3. CountsCards(r)'
      BY <2>1 DEF CountsCards, At
    <2>4. claimed \cap verified = {} => claimed' \cap verified' = {}
      BY <2>2
    <2> QED
      BY <2>1, <2>2, <2>3, <2>4, CardsGoOn
  <1>3. ASSUME NEW r \in Requests,
               \/ \E s \in Sentences, flag \in BOOLEAN : MasterSentence(r, s, flag)
               \/ \E delta \in {-1, 1} : BumpProgress(r, delta)
               \/ RecordCorrection(r)
        PROVE  CardsOK'
    <2>1. Others(r) /\ request'[r].metric # "flashcards"
      BY <1>3, MasterSentenceGoes, BumpProgressGoes, RecordCorrectionGoes
    <2>2. /\ UNCHANGED << span, verified, claimed, uncounted, planet >> /\ mixed \subseteq mixed'
          /\ At(r, "idle")
      BY <1>3 DEF MasterSentence, BumpProgress, RecordCorrection, Arrives, tables
    <2>3. request[r].metric # "flashcards"
      BY <1>0, <2>2 DEF StepOK, At, Idle
    <2> QED
      BY <2>1, <2>2, <2>3, CardsElsewhere
  <1>4. ASSUME NEW r \in Requests, RecordReview(r)
        PROVE  CardsOK'
    <2> DEFINE k == request[r].on
    <2>1. /\ Others(r) /\ request'[r].at = "count" /\ request'[r].metric = "flashcards"
      BY <1>4, RecordReviewGoes
    <2>2. /\ At(r, "review") /\ k \in Owned /\ request[r].metric = "flashcards" /\ UNCHANGED mixed
          /\ verified' = IF StaysVerified(request[r].value, request[r].saw) THEN verified \cup {k}
                                                                            ELSE verified \ {k}
          /\ claimed' = IF request[r].value = "easy" THEN claimed \cup {k} ELSE claimed
      BY <1>0, <1>4 DEF RecordReview, StepOK, At
    <2>3. claimed \cap verified = {} /\ CountsCards(r) => claimed' \cap verified' = {}
      BY <2>2 DEF CountsCards, StaysVerified
    <2>4. CountsCards(r)'
      BY <2>1 DEF CountsCards, At
    <2> QED
      BY <2>1, <2>2, <2>3, <2>4, CardsGoOn
  <1>5. ASSUME NEW r \in Requests, CountGraduated(r)
        PROVE  CardsOK'
    <2>1. /\ Others(r) /\ request'[r].at = "metric" /\ request'[r].metric = "flashcards"
          /\ request'[r].count = Cardinality(Graduated) /\ request'[r].of = request[r].of
      BY <1>5, CountGraduatedGoes
    <2>2. /\ request[r].metric = "flashcards" /\ At(r, "graduates")
          /\ UNCHANGED << verified, claimed, span, uncounted, mixed >>
      BY <1>0, <1>5 DEF CountGraduated, StepOK, At, tables, records
    <2>3. Graduated' = Graduated /\ Owned' = Owned
      BY <2>2 DEF Graduated, Owned
    <2>4. CountsCards(r) => CountsCards(r)'
      BY <2>1, <2>2, <2>3 DEF CountsCards, At
    <2> QED
      BY <2>1, <2>2, <2>4, CardsGoOn
  <1>11. ASSUME NEW r \in Requests, CountOwned(r)
         PROVE  CardsOK'
    <2>1. /\ Others(r) /\ request'[r].metric = "flashcards"
          /\ request'[r].at = IF Owned = {} THEN "metric" ELSE "graduates"
          /\ request'[r].count = 0 /\ request'[r].of = Cardinality(Owned)
      BY <1>11, CountOwnedGoes
    <2>2. /\ request[r].metric = "flashcards" /\ UNCHANGED << verified, claimed, span, mixed >>
      BY <1>0, <1>11 DEF CountOwned, StepOK, At, tables
    <2>3. Graduated' = Graduated /\ Owned' = Owned
      BY <2>2 DEF Graduated, Owned
    <2>4. Owned = {} => Graduated = {} /\ Cardinality(Graduated) = 0
      BY FS_EmptySet DEF Graduated, RowsOK
    <2>5. CountsCards(r)'
      BY <2>1, <2>3, <2>4 DEF CountsCards, At
    <2> QED
      BY <2>1, <2>2, <2>5, CardsGoOn
  <1>12. ASSUME NEW r \in Requests, ReviewNothing(r)
         PROVE  CardsOK'
    <2>1. Others(r) /\ request'[r] = Idle
      BY <1>12, EndsGoes
    <2>2. /\ request[r].metric = "flashcards" /\ At(r, "review") /\ request[r].on \notin Owned
          /\ UNCHANGED << verified, claimed, span, planet, uncounted, mixed >>
      BY <1>0, <1>12 DEF ReviewNothing, StepOK, At, tables, records
    <2>3. request'[r].metric # "flashcards"
      BY <2>1 DEF Idle
    <2>4. CountsCards(r) => uncounted' \/ Counted'
      BY <2>2 DEF CountsCards, Counted
    <2> QED
      BY <2>1, <2>2, <2>3, <2>4, CardsGoOn
  <1>6. ASSUME NEW r \in Requests, LockPlanet(r) \/ ReadClock(r) \/ LockStats(r)
        PROVE  CardsOK'
    <2>1. /\ Others(r) /\ request'[r].metric = request[r].metric
          /\ request'[r].count = request[r].count
          /\ \/ /\ request[r].at = "metric" /\ request'[r].at = "planet"
                /\ request'[r].of = request[r].of
             \/ request[r].at \in {"clock", "touch"} /\ request'[r].at \in {"touch", "stats"}
          /\ UNCHANGED << verified, claimed, span, planet, uncounted, mixed >>
      BY <1>6, LockPlanetGoes, ReadClockGoes, LockStatsGoes
         DEF LockPlanet, ReadClock, LockStats, At, tables, records
    <2>2. CASE request[r].metric = "flashcards"
      <3>1. CountsCards(r) => CountsCards(r)'
        BY <2>1 DEF CountsCards, At, Graduated, Owned
      <3> QED
        BY <2>1, <2>2, <3>1, CardsGoOn
    <2>3. CASE request[r].metric # "flashcards"
      BY <2>1, <2>3, CardsElsewhere
    <2> QED
      BY <2>2, <2>3
  <1>7. ASSUME NEW r \in Requests, WritePlanet(r)
        PROVE  CardsOK'
    <2>1. /\ Others(r)
          /\ request[r].metric # "sentences" => request'[r].metric = "none"
          /\ request[r].metric = "sentences" =>
               request'[r] = Idle \/ request'[r].metric = "sentences"
      BY <1>7, WritePlanetGoes
    <2>2. /\ At(r, "planet") /\ UNCHANGED << verified, claimed, span, uncounted, mixed >>
          /\ planet'.flashcards = IF request[r].metric = "flashcards"
                                    THEN << request[r].count, request[r].of >> ELSE planet.flashcards
      BY <1>7, PlanetWritten DEF WritePlanet
    <2>3. request'[r].metric # "flashcards"
      BY <2>1 DEF Idle
    <2>4. CASE request[r].metric = "flashcards"
      <3>1. CountsCards(r) => uncounted' \/ Counted'
        BY <2>2, <2>4 DEF CountsCards, Counted, Graduated, Owned
      <3> QED
        BY <2>1, <2>2, <2>3, <2>4, <3>1, CardsGoOn
    <2>5. CASE request[r].metric # "flashcards"
      BY <2>1, <2>2, <2>3, <2>5, CardsElsewhere
    <2> QED
      BY <2>4, <2>5
  <1>8. ASSUME NEW r \in Requests,
               \/ UpsertAndCount(r) \/ CommitMark(r) \/ WriteStats(r) \/ TouchFails(r)
               \/ ReadModule(r) \/ CloseTalk(r) \/ CloseDeck(r)
        PROVE  CardsOK'
    <2>1. Others(r) /\ request'[r].metric # "flashcards"
      BY <1>8, UpsertAndCountGoes, CommitMarkGoes, AfterTouchGoes, ReadModuleGoes, CloseTalkGoes,
         EndsGoes DEF Idle
    <2>2. /\ request[r].at \in {"upsert", "commit", "touch", "stats", "close", "talk", "deck"}
          /\ UNCHANGED << verified, claimed, span, planet, uncounted, mixed >>
      BY <1>8 DEF UpsertAndCount, CommitMark, WriteStats, TouchFails, ReadModule, CloseTalk,
                  CloseDeck, At, tables, records
    <2>3. request[r].metric # "flashcards"
      BY <1>0, <2>2 DEF StepOK
    <2> QED
      BY <2>1, <2>2, <2>3, CardsElsewhere
  <1>9. ASSUME NEW r \in Requests, DropRequest(r)
        PROVE  CardsOK'
    <2>1. /\ Others(r) /\ request'[r] = Idle
          /\ UNCHANGED << verified, claimed, span, planet, uncounted >>
          /\ mixed' = mixed \cup ({request[r].metric} \cap Counting)
      BY <1>9, EndsGoes DEF DropRequest, tables
    <2>2. request'[r].metric # "flashcards"
      BY <2>1 DEF Idle
    <2>3. CASE request[r].metric = "flashcards"
      BY <2>1, <2>3 DEF CardsOK, Counting
    <2>4. CASE request[r].metric # "flashcards"
      BY <2>1, <2>2, <2>4, CardsElsewhere
    <2> QED
      BY <2>3, <2>4
  <1>10. CASE Tick \/ (\E z \in {0, 1} : SetTimezone(z)) \/ UNCHANGED learningVars
    <2>1. UNCHANGED << verified, claimed, span, planet, request, uncounted, mixed >>
      BY <1>10 DEF Tick, SetTimezone, learningVars, tables, records
    <2> QED
      BY <2>1 DEF CardsOK, OnlyOne, Settled, About, CountsCards, At, Graduated, Owned, Counted
  <1>13. ASSUME NEW k \in StudyCards, MakeFlashcard(k) \/ DeleteFlashcard(k)
         PROVE  CardsOK'
    <2>1. /\ UNCHANGED << planet, request, mixed >> /\ uncounted' = TRUE
          /\ claimed' \cap verified' = {} \/ claimed \cap verified # {}
          /\ \A o \in StudyCards : span[o] # "unmade" =>
               /\ span'[o] # "unmade"
               /\ o \in Owned' => o \in Owned /\ (o \in verified' <=> o \in verified)
      BY <1>13, DeckChanges
    <2>2. \A r \in Requests : At(r, "review") => request[r].on \in StudyCards
      BY <1>0 DEF StepOK, At
    <2>3. \A r \in Requests : CountsCards(r) => CountsCards(r)'
      BY <2>1, <2>2 DEF CountsCards, At
    <2>4. About("flashcards")' = About("flashcards") /\ About("flashcards") \subseteq Requests
      BY <2>1 DEF About
    <2> QED
      BY <2>1, <2>3, <2>4 DEF CardsOK, OnlyOne, Settled
  <1> QED
    BY <1>1, <1>2, <1>3, <1>4, <1>5, <1>6, <1>7, <1>8, <1>9, <1>10, <1>11, <1>12, <1>13
       DEF LearningNext, RequestArrives, RequestGoesOn, Ratings

(***************************************************************************)
(* XP and the streak                                                       *)
(***************************************************************************)

\* Only WriteStats and WritePlanet change what the stats and the grade say.
LEMMA OnlyWrites ==
  ASSUME [LearningNext]_learningVars
  PROVE  /\ \/ UNCHANGED << stats, badges, touched, active, wentBack >>
            \/ \E r \in Requests : WriteStats(r)
         /\ \/ planet'.judged = planet.judged /\ graded' = graded
            \/ \E r \in Requests : WritePlanet(r)
PROOF
  BY DEF LearningNext, RequestArrives, RequestGoesOn, MasterSentence, ConfirmLive, ReviewCard,
         BumpProgress, RecordCorrection, UpsertAndCount, CommitMark, ReadModule, CloseTalk,
         CloseDeck, RecordReview, ReviewNothing, CountOwned, CountGraduated, LockPlanet,
         WritePlanet, ReadClock, LockStats, WriteStats, TouchFails, DropRequest, MakeFlashcard,
         DeleteFlashcard, Tick, SetTimezone, learningVars, tables, times, records

LEMMA XpStep ==
  ASSUME RequestsOK, RowsOK, LocksOK, stats.xp = touched + RewardOf(badges),
         [LearningNext]_learningVars
  PROVE  stats'.xp = touched' + RewardOf(badges')
PROOF
  <1>1. CASE UNCHANGED << stats, badges, touched, active, wentBack >>
    BY <1>1
  <1>2. ASSUME NEW r \in Requests, WriteStats(r)
        PROVE  stats'.xp = touched' + RewardOf(badges')
    <2> DEFINE new == Earned(r) \ badges
    <2>1. /\ touched' = touched + request[r].due /\ request[r].due \in Nat
          /\ Earned(r) \in SUBSET Rules
          /\ stats'.xp = (stats.xp + request[r].due) + RewardOf(new)
          /\ badges' = badges \cup Earned(r)
      BY <1>2, StatsWritten
    <2>2. badges \in SUBSET Rules /\ new \in SUBSET Rules /\ badges \cap new = {}
          /\ badges' = badges \cup new
      BY <2>1 DEF RowsOK
    <2>3. RewardOf(badges') = RewardOf(badges) + RewardOf(new)
      BY <2>2, RewardsAdd
    <2>4. RewardOf(badges) \in Nat /\ RewardOf(new) \in Nat /\ touched \in Nat
      BY <2>2, RewardStep DEF RowsOK
    <2> HIDE DEF new
    <2> QED
      BY <2>1, <2>3, <2>4
  <1> QED
    BY <1>1, <1>2, OnlyWrites

LEMMA JudgedStep ==
  ASSUME RequestsOK, RowsOK, LocksOK, planet.judged = graded, [LearningNext]_learningVars
  PROVE  planet'.judged = graded'
PROOF
  <1>1. CASE planet'.judged = planet.judged /\ graded' = graded
    BY <1>1
  <1>2. ASSUME NEW r \in Requests, WritePlanet(r)
        PROVE  planet'.judged = graded'
    BY <1>2, PlanetWritten
  <1> QED
    BY <1>1, <1>2, OnlyWrites

LEMMA DaysStep ==
  ASSUME RequestsOK, RowsOK, LocksOK, DaysOK, [LearningNext]_learningVars
  PROVE  DaysOK'
PROOF
  <1>1. CASE UNCHANGED << stats, badges, touched, active, wentBack >>
    BY <1>1 DEF DaysOK
  <1>2. ASSUME NEW r \in Requests, WriteStats(r)
        PROVE  DaysOK'
    <2>1. /\ Today(r) \in 0..(MaxClock + 1) /\ stats'.last = Today(r)
          /\ active' = active \cup {Today(r)}
          /\ wentBack' = (wentBack \/ (stats.last # NoDay /\ Today(r) < stats.last))
      BY <1>2, StatsWritten
    <2>2. Today(r) # NoDay
      BY <2>1, NoDayIsNone, BoundsNat
    <2> QED
      BY <2>1, <2>2 DEF DaysOK
  <1> QED
    BY <1>1, <1>2, OnlyWrites

\* The run of days of a set that ends on one of them.
DaysUpTo(days, day) == {d \in days : d <= day /\ d .. day \subseteq days}
RunOf(days, day)    == Cardinality(DaysUpTo(days, day))

LEMMA RunOfOne ==
  ASSUME NEW days, IsFiniteSet(days), NEW day \in days, day \in Int
  PROVE  IsFiniteSet(DaysUpTo(days, day)) /\ RunOf(days, day) \in Nat /\ RunOf(days, day) >= 1
PROOF
  <1>1. DaysUpTo(days, day) \in SUBSET days
    BY DEF DaysUpTo
  <1>2. IsFiniteSet(DaysUpTo(days, day)) /\ RunOf(days, day) \in Nat
    BY <1>1, FS_Subset, FS_CardinalityType DEF RunOf
  <1>3. day \in DaysUpTo(days, day)
    BY DEF DaysUpTo
  <1>4. RunOf(days, day) # 0
    BY <1>2, <1>3, FS_EmptySet DEF RunOf
  <1> QED
    BY <1>2, <1>4

LEMMA DaysAreFinite ==
  ASSUME DaysOK
  PROVE  IsFiniteSet(active) /\ active \in SUBSET Int
PROOF
  <1> DEFINE days == 0..(MaxClock + 1)
  <1>1. active \in SUBSET days /\ days \in SUBSET Int
    BY BoundsNat DEF DaysOK
  <1>2. IsFiniteSet(days)
    BY BoundsNat, FS_Interval
  <1> HIDE DEF days
  <1>3. IsFiniteSet(active)
    BY <1>1, <1>2, FS_Subset
  <1> QED
    BY <1>1, <1>3

\* A day after the last one goes on with its run, or begins one; no other run changes.
LEMMA RunGoesOn ==
  ASSUME NEW days, IsFiniteSet(days), NEW last \in days, NEW today \in Int, today > last,
         \A d \in days : d \in Int /\ d <= last
  PROVE  /\ RunOf(days \cup {today}, today) = IF last + 1 = today THEN RunOf(days, last) + 1 ELSE 1
         /\ \A d \in days : RunOf(days \cup {today}, d) = RunOf(days, d)
PROOF
  <1> DEFINE more == days \cup {today}
  <1>0. \A d \in days : d \in Int /\ d < today
    OBVIOUS
  <1>1. ASSUME NEW d \in days
        PROVE  DaysUpTo(more, d) = DaysUpTo(days, d)
    <2>1. \A e \in Int : today \notin e .. d
      BY <1>0
    <2>2. \A e \in Int : e .. d \subseteq more <=> e .. d \subseteq days
      BY <2>1
    <2>3. \A e \in more : e <= d => e \in days
      BY <1>0
    <2> QED
      BY <1>0, <2>2, <2>3 DEF DaysUpTo
  <1>2. CASE last + 1 = today
    <2>1. \A e \in days : e .. today \subseteq more <=> e .. last \subseteq days
      <3>1. \A e \in days : e .. today = (e .. last) \cup {today} /\ today \notin e .. last
        BY <1>0, <1>2
      <3> QED
        BY <3>1
    <2>2. DaysUpTo(more, today) = DaysUpTo(days, last) \cup {today}
      <3>1. today \in DaysUpTo(more, today)
        BY <1>0 DEF DaysUpTo
      <3>2. \A e \in days : e \in DaysUpTo(more, today) <=> e \in DaysUpTo(days, last)
        BY <1>0, <2>1 DEF DaysUpTo
      <3> QED
        BY <3>1, <3>2 DEF DaysUpTo
    <2>3. today \notin DaysUpTo(days, last)
      BY <1>0 DEF DaysUpTo
    <2>4. IsFiniteSet(DaysUpTo(days, last))
      BY RunOfOne
    <2>5. Cardinality(DaysUpTo(days, last) \cup {today}) = Cardinality(DaysUpTo(days, last)) + 1
      BY <2>3, <2>4, FS_AddElement
    <2> QED
      BY <1>1, <1>2, <2>2, <2>5 DEF RunOf
  <1>3. CASE last + 1 # today
    <2>1. last + 1 < today /\ last + 1 \in Int /\ last + 1 \notin more
      BY <1>0, <1>3
    <2>2. \A e \in days : last + 1 \in e .. today
      BY <1>0, <2>1
    <2>3. \A e \in days : ~ (e .. today \subseteq more)
      BY <2>1, <2>2
    <2>4. today <= today /\ today .. today \subseteq more
      BY <1>0
    <2>5. DaysUpTo(more, today) = {today}
      BY <2>3, <2>4 DEF DaysUpTo
    <2>6. RunOf(more, today) = 1
      BY <2>5, FS_Singleton DEF RunOf
    <2> QED
      BY <1>1, <1>3, <2>6 DEF RunOf
  <1> QED
    BY <1>2, <1>3

LEMMA RunOfFirst ==
  ASSUME NEW today \in Int
  PROVE  RunOf({today}, today) = 1
PROOF
  <1>1. DaysUpTo({today}, today) = {today}
    BY DEF DaysUpTo
  <1> QED
    BY <1>1, FS_Singleton DEF RunOf

\* What an activity makes of the streak.
LEMMA StreakStep ==
  ASSUME RequestsOK, RowsOK, LocksOK, DaysOK, StreakOK, [LearningNext]_learningVars
  PROVE  StreakOK'
PROOF
  <1>1. CASE UNCHANGED << stats, badges, touched, active, wentBack >>
    BY <1>1 DEF StreakOK, Run
  <1>2. ASSUME NEW r \in Requests, WriteStats(r)
        PROVE  StreakOK'
    <2> DEFINE n == MaxClock + 1  today == Today(r)  streak == NextStreak(stats, today)
    <2>1. /\ today \in 0..n /\ stats'.last = today /\ streak \in Nat /\ stats'.streak = streak
          /\ stats'.longest = Max({stats.longest, streak})
          /\ active' = active \cup {today}
          /\ wentBack' = (wentBack \/ (stats.last # NoDay /\ today < stats.last))
      BY <1>2, StatsWritten
    <2>2. n \in Nat /\ today \in Int /\ today # NoDay
      BY <2>1, BoundsNat, NoDayIsNone
    <2>3. IsFiniteSet(active)
      BY DaysAreFinite
    <2>4. active \subseteq 0..n /\ (\A d \in active : d \in Int) /\ stats.streak \in Nat /\ stats.longest \in Nat
      BY DEF DaysOK, RowsOK, StatsRows
    <2>5. \A d : Run(d) = RunOf(active, d) /\ Run(d)' = RunOf(active', d)
      BY DEF Run, RunOf, DaysUpTo
    <2> HIDE DEF n, today
    <2>6. SUFFICES ASSUME ~ wentBack'
                   PROVE  /\ streak = RunOf(active', today)
                          /\ \A d \in active' : d <= today /\ RunOf(active', d) <= stats'.longest
                          /\ stats'.longest \in {RunOf(active', d) : d \in active'}
      BY <2>1, <2>5 DEF StreakOK
    <2>7. stats'.longest = IF stats.longest >= streak THEN stats.longest ELSE streak
      BY <2>1, <2>4, MaxOfTwo
    <2>8. CASE active = {}
      <3>1. stats.last = NoDay /\ stats.longest = 0 /\ active' = {today}
        BY <2>1, <2>8 DEF DaysOK
      <3>2. streak = 1
        BY <2>2, <3>1 DEF NextStreak
      <3>3. RunOf({today}, today) = 1
        BY <2>2, RunOfFirst
      <3> QED
        BY <2>2, <2>7, <3>1, <3>2, <3>3
    <2>9. CASE active # {}
      <3>0. stats.last \in active /\ stats.last # NoDay
        BY <2>9 DEF DaysOK
      <3>1. stats.last \in active /\ stats.last # NoDay /\ stats.last <= today /\ stats.last \in Int
        <4>1. ~ wentBack /\ ~ (stats.last # NoDay /\ today < stats.last)
          BY <2>1, <2>6
        <4>2. stats.last \in Int
          BY <2>2, <2>4, <3>0
        <4> QED
          BY <2>2, <3>0, <4>1, <4>2
      <3>2. /\ stats.streak = RunOf(active, stats.last)
            /\ \A d \in active : d <= stats.last /\ RunOf(active, d) <= stats.longest
            /\ stats.longest \in {RunOf(active, d) : d \in active}
        BY <2>1, <2>5, <2>6, <2>9 DEF StreakOK
      <3>3. \A d \in active : RunOf(active, d) \in Nat /\ RunOf(active, d) >= 1
        BY <2>3, <2>4, RunOfOne
      <3>4. CASE stats.last = today
        <4>1. active' = active
          BY <2>1, <3>1, <3>4
        <4>2. streak = stats.streak
          <5>1. Max({stats.streak, 1}) = stats.streak
            BY <3>1, <3>2, <3>3, MaxOfTwo
          <5> QED
            BY <2>2, <3>1, <3>4, <5>1 DEF NextStreak
        <4> HIDE DEF streak
        <4> QED
          BY <2>7, <3>1, <3>2, <3>3, <3>4, <4>1, <4>2
      <3>5. CASE stats.last # today
        <4>1. today > stats.last
          BY <2>2, <2>4, <3>1, <3>5
        <4>2. today \in Int /\ stats.last \in active /\ \A d \in active : d \in Int /\ d <= stats.last
          BY <2>1, <2>2, <2>4, <3>1, <3>2
        <4>3. /\ RunOf(active \cup {today}, today) =
                   IF stats.last + 1 = today THEN RunOf(active, stats.last) + 1 ELSE 1
              /\ \A d \in active : RunOf(active \cup {today}, d) = RunOf(active, d)
          BY <2>3, <4>2, <4>1, RunGoesOn
        <4>4. /\ RunOf(active', today) = IF stats.last + 1 = today THEN stats.streak + 1 ELSE 1
              /\ \A d \in active : RunOf(active', d) = RunOf(active, d)
          BY <2>1, <3>2, <4>3
        <4>5. streak = RunOf(active', today)
          BY <3>1, <3>5, <4>4 DEF NextStreak
        <4> HIDE DEF streak
        <4>6. \A d \in active' : d <= today
          <5>1. \A d \in active : d \in Int /\ d <= stats.last
            BY <2>2, <2>4, <3>2
          <5> QED
            BY <2>1, <2>2, <3>1, <4>1, <5>1
        <4>7. {RunOf(active', d) : d \in active'} = {RunOf(active, d) : d \in active} \cup {streak}
          BY <2>1, <4>4, <4>5
        <4> QED
          BY <2>1, <2>4, <2>7, <3>2, <3>3, <4>4, <4>5, <4>6, <4>7
      <3> QED
        BY <3>4, <3>5
    <2> QED
      BY <2>8, <2>9
  <1> QED
    BY <1>1, <1>2, OnlyWrites

(***************************************************************************)
(* The theorems                                                            *)
(***************************************************************************)

LEMMA LearningBegins ==
  ASSUME LearningInit
  PROVE  IInv
PROOF
  <1>1. NCards \in Nat /\ NSentences \in Nat /\ Cardinality({}) = 0
    BY Sizes, FS_EmptySet
  <1>2. Idle \in RequestTypes
    BY IdleType
  <1>3. RequestsOK
    BY <1>2 DEF LearningInit, RequestsOK, StepOK, Idle
  <1>4. RowsOK
    <2>1. planet \in PlanetRows /\ stats \in StatsRows
      BY <1>1, BoundsNat DEF LearningInit, PlanetRows, Shares, StatsRows
    <2>2. /\ span \in [StudyCards -> Spans]
          /\ module \in [Path -> {"current", "talked", "completed"}]
      BY DEF LearningInit, Spans, Path
    <2>3. /\ learned \subseteq Sentences /\ verified \subseteq Owned /\ claimed \subseteq Owned
          /\ badges \subseteq Rules /\ crossed \subseteq Sentences /\ uncounted \in BOOLEAN
      BY DEF LearningInit
    <2>4. /\ arrivals \in 0..MaxArrivals /\ corrections \in 0..arrivals /\ touched \in Nat
          /\ clock \in 0..MaxClock /\ zone \in {0, 1} /\ graded \in 0..MaxGrade
          /\ stats.streak <= stats.longest
      BY BoundsNat DEF LearningInit
    <2> QED
      BY <2>1, <2>2, <2>3, <2>4 DEF RowsOK
  <1>5. \A r \in Requests : request[r].at = "idle" /\ request[r].metric = "none"
    BY DEF LearningInit, Idle
  <1>6. LocksOK /\ CrossedOK
    BY <1>5 DEF LocksOK, CrossedOK, At
  <1>7. \A kind \in {"sentences", "flashcards"} : About(kind) = {} /\ OnlyOne(kind)
    BY <1>5 DEF About, OnlyOne
  <1>8. SentencesOK
    BY <1>1, <1>7, OfSomething DEF LearningInit, SentencesOK, Over
  <1>9. CardsOK
    <2>1. Graduated = {} /\ Owned = {}
      BY DEF LearningInit, Graduated, Owned
    <2>2. Counted
      BY <1>1, <2>1 DEF LearningInit, Counted
    <2> QED
      BY <1>7, <2>2 DEF LearningInit, CardsOK
  <1>10. DaysOK /\ StreakOK /\ planet.judged = graded
    BY DEF LearningInit, DaysOK, StreakOK
  <1>11. XpIsEarned
    <2>1. RewardOf({}) = 0
      BY RewardStep
    <2> QED
      BY <2>1 DEF LearningInit, XpIsEarned
  <1> QED
    BY <1>3, <1>4, <1>6, <1>8, <1>9, <1>10, <1>11 DEF IInv

LEMMA Invariance == LearningSpec => []IInv
PROOF
  <1>1. LearningInit => IInv
    BY LearningBegins
  <1>2. IInv /\ [LearningNext]_learningVars => IInv'
    <2> SUFFICES ASSUME IInv, [LearningNext]_learningVars
                 PROVE  IInv'
      OBVIOUS
    <2>1. /\ RequestsOK /\ RowsOK /\ LocksOK /\ CrossedOK /\ SentencesOK /\ CardsOK /\ DaysOK
          /\ stats.xp = touched + RewardOf(badges) /\ regranted \subseteq crossed
          /\ StreakOK /\ planet.judged = graded
      BY DEF IInv, XpIsEarned
    <2>2. RequestsOK' /\ RowsOK'
      BY <2>1, RowsStep
    <2>3. LocksOK'
      BY <2>1, LocksStep
    <2>4. CrossedOK' /\ regranted' \subseteq crossed'
      BY <2>1, CrossedStep
    <2>5. SentencesOK'
      BY <2>1, SentencesStep
    <2>6. CardsOK'
      BY <2>1, CardsStep
    <2>7. DaysOK' /\ StreakOK'
      BY <2>1, DaysStep, StreakStep
    <2>8. stats'.xp = touched' + RewardOf(badges')
      BY <2>1, XpStep
    <2>9. planet'.judged = graded'
      BY <2>1, JudgedStep
    <2>10. XpIsEarned'
      BY <2>4, <2>8 DEF XpIsEarned
    <2> QED
      BY <2>2, <2>3, <2>4, <2>5, <2>6, <2>7, <2>9, <2>10 DEF IInv
  <1> QED
    BY <1>1, <1>2, PTL DEF LearningSpec

\* Every row is one its columns allow, whatever requests run side by side: metrics within
\* what they count, a streak no longer than the longest, and nothing left of a request
\* that is over (mutate_progress, touch_activity_and_award_xp).
THEOREM RowsAreTyped == LearningSpec => []LearningTypeOK
PROOF
  <1>1. ASSUME IInv
        PROVE  LearningTypeOK
    <2>1. RequestsOK /\ RowsOK /\ DaysOK /\ regranted \subseteq crossed
      BY <1>1 DEF IInv, XpIsEarned
    <2>2. corrections \in 0..MaxArrivals
      BY <2>1, BoundsNat DEF RowsOK
    <2>3. stats.streak \in 0..stats.longest /\ stats.xp \in Nat
      BY <2>1 DEF RowsOK, StatsRows
    <2>4. \A r \in Requests : At(r, "idle") => request[r] = Idle
      BY <2>1 DEF RequestsOK, StepOK, At
    <2> QED
      BY <2>1, <2>2, <2>3, <2>4
         DEF LearningTypeOK, RowsOK, DaysOK, PlanetRows, Shares, Spans, Path, NSentences, NCards
  <1> QED
    BY <1>1, Invariance, PTL

\* The XP is what the counted activities earned and what the badges held pay, each once,
\* and no sentence pays as new twice but where two calls marked it at once: the stats row
\* is locked before it is read (touch_activity_and_award_xp), the mastered flag is not
\* (mark_sentence_mastered).
THEOREM XpIsNeverLost == LearningSpec => []XpIsEarned
PROOF
  <1>1. IInv => XpIsEarned
    BY DEF IInv
  <1> QED
    BY <1>1, Invariance, PTL

\* The streak is the run of days that ends on the last one and the longest the longest
\* there was, as long as no activity is counted for a day that was over (next_streak).
THEOREM StreakCountsDays == LearningSpec => []StreakIsRun
PROOF
  <1>1. ASSUME IInv
        PROVE  StreakIsRun
    <2>1. RowsOK /\ DaysOK /\ StreakOK
      BY <1>1 DEF IInv
    <2>2. SUFFICES ASSUME ~ wentBack, active # {}
                   PROVE  /\ stats.streak = Run(stats.last)
                          /\ stats.last = Max(active)
                          /\ stats.longest = Max({Run(d) : d \in active})
      BY DEF StreakIsRun
    <2>3. /\ stats.streak = Run(stats.last)
          /\ \A d \in active : d <= stats.last /\ Run(d) <= stats.longest
          /\ stats.longest \in {Run(d) : d \in active}
      BY <2>1, <2>2 DEF StreakOK
    <2>4. stats.last \in active
      BY <2>1, <2>2 DEF DaysOK
    <2>5. /\ IsFiniteSet(active) /\ active \in SUBSET Int /\ (\A d \in active : d \in Int)
          /\ stats.last = Max(active)
      BY <2>1, <2>3, <2>4, DaysAreFinite, MaxIs
    <2>6. \A d \in active : Run(d) \in Int
      <3>1. \A d : Run(d) = RunOf(active, d)
        BY DEF Run, RunOf, DaysUpTo
      <3> QED
        BY <2>5, <3>1, RunOfOne
    <2>7. {Run(d) : d \in active} \in SUBSET Int /\ \A y \in {Run(d) : d \in active} : y <= stats.longest
      BY <2>3, <2>6
    <2>8. stats.longest = Max({Run(d) : d \in active})
      BY <2>3, <2>7, MaxIs
    <2> QED
      BY <2>3, <2>5, <2>8
  <1> QED
    BY <1>1, Invariance, PTL

\* Once the requests about them are over, the metrics are the rows they count, the judged
\* one the sum of its bumps, no card claimed easy passes for re-tested, and the first module
\* is over with the last sentence (mark_sentence_mastered, record_review, mutate_progress);
\* of the flashcard metric since the last card was made or deleted, which count nothing.
THEOREM MetricsAreTheRows == LearningSpec => []RowsAgree
PROOF
  <1>1. ASSUME IInv
        PROVE  RowsAgree
    BY <1>1 DEF IInv, RowsAgree, SentencesAgree, CardsAgree, SentencesOK, CardsOK, Over, Counted
  <1> QED
    BY <1>1, Invariance, PTL
================================================================================

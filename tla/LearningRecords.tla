---------------------------- MODULE LearningRecords -----------------------------
(***************************************************************************)
(* What the backend keeps of one learner on one planet, and the handlers   *)
(* that change it side by side (the tutor's tool calls are not awaited):   *)
(* mastered sentences and the planet's metrics (api/planets.rs and         *)
(* repositories/planets.rs), flashcards and their schedule                 *)
(* (api/flashcards.rs), corrections (api/conversations.rs), and the XP,    *)
(* streak and badges each of them earns (services/gamification.rs).        *)
(*                                                                         *)
(* A handler is a chain of units of work.  What a unit reads under FOR     *)
(* UPDATE it locks until it commits; what it reads otherwise may be old by *)
(* the time it is used.  The planet's modules are those without authored   *)
(* chunks, taught from the sentence list; the cards are those made from    *)
(* corrections, which belong to no module.  ModuleGate has the others.     *)
(***************************************************************************)
EXTENDS Integers, FiniteSetsExt

CONSTANTS
  Sentences,        (* The planet's.                                         *)
  StudyCards,       (* The flashcards the learner can ever make there.       *)
  LastTaught,       (* Its modules taught from the sentences, 1 to this one. *)
  Requests,         (* Requests that can be in progress at once.             *)
  Rules,            (* badges: [metric, threshold, reward].                  *)
  MaxArrivals,      (* Bound: requests that ever arrive.                     *)
  MaxClock,         (* Bound: the half day the clock stops at.                  *)
  MaxGrade,         (* A judged metric's steps from 0 to 1.                  *)
  NoDay, NoRow

ASSUME OfSomething ==
  /\ IsFiniteSet(Sentences) /\ Sentences # {}
  /\ IsFiniteSet(StudyCards) /\ IsFiniteSet(Rules)
ASSUME BoundsNat ==
  MaxArrivals \in Nat /\ MaxClock \in Nat \ {0} /\ MaxGrade \in Nat /\ LastTaught \in Nat \ {0}
ASSUME NoDayIsNone == NoDay \notin Int
ASSUME PaysNat == \A b \in Rules : b.threshold \in Nat /\ b.reward \in Nat

VARIABLES
  learned,          (* user_sentence_progress: the sentences mastered.       *)
  span,             (* interval_days of each card: new, short or long (7 up); *)
                    (* or the card is not made yet, or deleted.               *)
  verified,         (* Cards with verified_live.                             *)
  corrections,      (* How many rows.                                        *)
  planet,           (* user_planet_progress, its fractions as counts.        *)
  module,           (* Each module: current, talked or completed.            *)
  stats,            (* user_stats.                                           *)
  badges,           (* user_badges: the rules whose badge is earned.         *)
  clock,            (* UTC, in half days from a midnight.                     *)
  zone,             (* utc_offset_minutes: 0, or half a day east.            *)
  request,          (* What each request in progress is at and carries.      *)
  \* History
  arrivals,         (* Requests so far.                                      *)
  mixed,            (* Counting requests of which two overlapped, or one was  *)
                    (* dropped half way.                                      *)
  crossed,          (* Sentences two calls marked at once.                   *)
  regranted,        (* Sentences paid for as new that were mastered already. *)
  touched,          (* XP of the activities counted, badges aside.           *)
  graded,           (* The judged metric, had its bumps come one by one.     *)
  claimed,          (* Cards rated easy and not re-tested since.             *)
  uncounted,        (* A card was made or deleted since the last count.      *)
  active,           (* Local days with an activity.                          *)
  wentBack          (* An activity was counted for a day before the last one.*)

tables  == << learned, span, verified, corrections, planet, module, stats, badges >>
times   == << clock, zone >>
records == << arrivals, mixed, crossed, regranted, touched, graded, claimed, uncounted,
              active, wentBack >>
learningVars == << tables, times, request, records >>

(***************************************************************************)
(* Requests                                                                *)
(***************************************************************************)

Idle == [at |-> "idle", on |-> NoRow, value |-> NoRow, saw |-> NoRow, metric |-> "none",
         count |-> 0, of |-> 0, due |-> 0, now |-> 0, row |-> NoRow]

\* The kinds of request that write a metric they counted from rows.
Counting == {"sentences", "flashcards"}

About(kind) == {r \in Requests : request[r].metric = kind}
Settled(kind) == About(kind) = {}

Carries(r, what) == request' = [request EXCEPT ![r] = what]

\* It goes on with nothing but its metric, the count for it and the XP it earns.
Keeping(r, step) == [request[r] EXCEPT !.at = step, !.on = NoRow, !.value = NoRow,
                                       !.saw = NoRow, !.row = NoRow]

At(r, step)      == request[r].at = step
NobodyAt(step)   == \A o \in Requests : ~ At(o, step)

\* A handler begins: it joins others of its kind, or has the rows to itself.
Arrives(r, kind) ==
  /\ At(r, "idle") /\ arrivals < MaxArrivals
  /\ arrivals' = arrivals + 1
  /\ mixed' = mixed \cup (IF Settled(kind) THEN {} ELSE {kind} \cap Counting)

\* Where a handler goes once its metric is written, and once its XP is.
AfterMetric(r) ==
  IF request[r].due = 0 THEN Idle
  ELSE IF request[r].metric = "sentences" THEN Keeping(r, "clock")
  ELSE [Idle EXCEPT !.at = "clock", !.due = request[r].due]

AfterTouch(r) ==
  IF request[r].metric = "sentences" /\ request[r].count >= Cardinality(Sentences)
    THEN [Keeping(r, "close") EXCEPT !.now = 0, !.due = 0] ELSE Idle

(***************************************************************************)
(* POST /planets/{id}/sentences/{id}/master                                *)
(***************************************************************************)

\* mark_sentence_mastered is one transaction; its first read takes no lock.
MasterSentence(r, s, flag) ==
  /\ Arrives(r, "sentences")
  /\ Carries(r, [Idle EXCEPT !.at = "upsert", !.on = s, !.value = flag,
                             !.saw = s \in learned, !.metric = "sentences"])
  /\ UNCHANGED << tables, times, crossed, regranted, touched, graded, claimed, uncounted,
                  active, wentBack >>

WithMark(r) == IF request[r].value THEN learned \cup {request[r].on}
                                   ELSE learned \ {request[r].on}

\* newly_mastered.
Newly(r) == request[r].value /\ request[r].saw # TRUE

\* The upsert locks the sentence's row; the count sees it and what is committed.
UpsertAndCount(r) ==
  /\ At(r, "upsert")
  /\ \A o \in Requests : At(o, "commit") => request[o].on # request[r].on
  /\ Carries(r, [request[r] EXCEPT !.at = "commit", !.count = Cardinality(WithMark(r)),
                                   !.due = IF Newly(r) THEN 8 ELSE 0])
  /\ UNCHANGED << tables, times, records >>

CommitMark(r) ==
  /\ At(r, "commit")
  /\ learned' = WithMark(r)
  /\ Carries(r, Keeping(r, "metric"))
  /\ LET s == request[r].on IN
       /\ crossed' = crossed \cup
            {t \in {s} : \E o \in Requests \ {r} : At(o, "upsert") /\ request[o].on = t}
       /\ regranted' = regranted \cup {t \in {s} \cap learned : Newly(r)}
  /\ UNCHANGED << span, verified, corrections, planet, module, stats, badges, times,
                  arrivals, mixed, touched, graded, claimed, uncounted, active, wentBack >>

\* current_module: the first that is not completed.
Open == {m \in 1 .. LastTaught : module[m] # "completed"}
IsCurrent(m) == m \in Open /\ \A o \in Open : m <= o

\* Mastering every sentence closes whichever module is current now.
ReadModule(r) ==
  /\ At(r, "close")
  /\ \/ \E m \in Open : IsCurrent(m) /\ Carries(r, [request[r] EXCEPT !.at = "talk", !.on = m])
     \/ Open = {} /\ Carries(r, Idle)
  /\ UNCHANGED << tables, times, records >>

CloseTalk(r) ==
  /\ At(r, "talk")
  /\ module' = [module EXCEPT ![request[r].on] = IF @ = "current" THEN "talked" ELSE @]
  /\ Carries(r, [request[r] EXCEPT !.at = "deck"])
  /\ UNCHANGED << learned, span, verified, corrections, planet, stats, badges, times,
                  records >>

\* No card belongs to it: its empty deck closes with it.
CloseDeck(r) ==
  /\ At(r, "deck")
  /\ module' = [module EXCEPT ![request[r].on] = "completed"]
  /\ Carries(r, Idle)
  /\ UNCHANGED << learned, span, verified, corrections, planet, stats, badges, times,
                  records >>

(***************************************************************************)
(* POST and DELETE /flashcards: no metric is counted again                 *)
(***************************************************************************)

Owned == {k \in StudyCards : span[k] \in {"new", "short", "long"}}

\* A new card is verified_live by default.
MakeFlashcard(k) ==
  /\ span[k] = "unmade"
  /\ span' = [span EXCEPT ![k] = "new"]
  /\ verified' = verified \cup {k}
  /\ uncounted' = TRUE
  /\ UNCHANGED << learned, corrections, planet, module, stats, badges, times, request,
                  arrivals, mixed, crossed, regranted, touched, graded, claimed, active,
                  wentBack >>

DeleteFlashcard(k) ==
  /\ k \in Owned
  /\ span' = [span EXCEPT ![k] = "deleted"]
  /\ verified' = verified \ {k}
  /\ claimed' = claimed \ {k}
  /\ uncounted' = TRUE
  /\ UNCHANGED << learned, corrections, planet, module, stats, badges, times, request,
                  arrivals, mixed, crossed, regranted, touched, graded, active, wentBack >>

(***************************************************************************)
(* POST /flashcards/{id}/review and /confirm-live-mastery                  *)
(***************************************************************************)

\* schedule(): how the interval can go on, by rating; the ease is at least 1.3.
NextSpans(rating, from) ==
  CASE from = "new"                        -> {IF rating = "easy" THEN "long" ELSE "short"}
    [] from = "short" /\ rating = "hard"   -> {"short"}
    [] from = "long"  /\ rating # "hard"   -> {"long"}
    [] OTHER                               -> {"short", "long"}

\* The card is read; the schedule is computed from what was read.
ReviewCard(r, k, rating) ==
  /\ k \in Owned /\ Arrives(r, "flashcards")
  /\ Carries(r, [Idle EXCEPT !.at = "review", !.on = k, !.value = rating, !.due = 2,
                             !.metric = "flashcards",
                             !.saw = [span |-> span[k], verified |-> k \in verified]])
  /\ UNCHANGED << tables, times, crossed, regranted, touched, graded, claimed, uncounted,
                  active, wentBack >>

\* "easy" is a self-report, and is not trusted until the tutor re-tests it.
StaysVerified(rating, card) == rating # "easy" /\ card.verified

RecordReview(r) ==
  /\ At(r, "review") /\ request[r].on \in Owned
  /\ LET k == request[r].on  rating == request[r].value  card == request[r].saw IN
       /\ \E next \in NextSpans(rating, card.span) : span' = [span EXCEPT ![k] = next]
       /\ verified' = IF StaysVerified(rating, card) THEN verified \cup {k}
                                                     ELSE verified \ {k}
       /\ claimed' = IF rating = "easy" THEN claimed \cup {k} ELSE claimed
  /\ Carries(r, Keeping(r, "count"))
  /\ UNCHANGED << learned, corrections, planet, module, stats, badges, times, arrivals,
                  mixed, crossed, regranted, touched, graded, uncounted, active, wentBack >>

\* The card was deleted since it was read: not found.
ReviewNothing(r) ==
  /\ At(r, "review") /\ request[r].on \notin Owned
  /\ Carries(r, Idle)
  /\ UNCHANGED << tables, times, records >>

ConfirmLive(r, k) ==
  /\ k \in Owned /\ Arrives(r, "flashcards")
  /\ verified' = verified \cup {k}
  /\ claimed' = claimed \ {k}
  /\ Carries(r, [Idle EXCEPT !.at = "count", !.metric = "flashcards"])
  /\ UNCHANGED << learned, span, corrections, planet, module, stats, badges, times,
                  crossed, regranted, touched, graded, uncounted, active, wentBack >>

\* flashcards_metric, of two reads: the learner's cards there, none of which is 0,
CountOwned(r) ==
  /\ At(r, "count")
  /\ Carries(r, [request[r] EXCEPT !.at = IF Owned = {} THEN "metric" ELSE "graduates",
                                   !.of = Cardinality(Owned)])
  /\ uncounted' = FALSE
  /\ UNCHANGED << tables, times, arrivals, mixed, crossed, regranted, touched, graded,
                  claimed, active, wentBack >>

\* and those of them re-confirmed live and scheduled a week out.
Graduated == {k \in verified : span[k] = "long"}

CountGraduated(r) ==
  /\ At(r, "graduates")
  /\ Carries(r, [request[r] EXCEPT !.at = "metric", !.count = Cardinality(Graduated)])
  /\ UNCHANGED << tables, times, records >>

(***************************************************************************)
(* mutate_progress: the planet's row, FOR UPDATE                           *)
(***************************************************************************)

AnyGrade(n) == n
Clamped(n) == IF n < 0 THEN 0 ELSE IF n > MaxGrade THEN MaxGrade ELSE n

\* POST /planets/{id}/progress: the tutor grades a turn, up or down.
BumpProgress(r, delta) ==
  /\ Arrives(r, "judged")
  /\ Carries(r, [Idle EXCEPT !.at = "metric", !.metric = "judged", !.count = delta,
                             !.due = IF delta > 0 THEN 1 ELSE 0])
  /\ UNCHANGED << tables, times, crossed, regranted, touched, graded, claimed, uncounted,
                  active, wentBack >>

NotLocked == TRUE

\* FOR UPDATE: one request at a time holds the row.
PlanetRowFree == NobodyAt("planet")

LockPlanet(r) ==
  /\ At(r, "metric")
  /\ PlanetRowFree
  /\ Carries(r, [request[r] EXCEPT !.at = "planet", !.row = planet])
  /\ UNCHANGED << tables, times, records >>

\* set_metric_absolute and bump_metric_delta; the whole row is written back.
WithMetric(row, q) ==
  [row EXCEPT ![q.metric] = CASE q.metric = "judged"     -> Clamped(row.judged + q.count)
                              [] q.metric = "flashcards" -> << q.count, q.of >>
                              [] q.metric = "sentences"  -> q.count]

WritePlanet(r) ==
  /\ At(r, "planet")
  /\ planet' = WithMetric(request[r].row, request[r])
  /\ graded' = IF request[r].metric = "judged" THEN Clamped(graded + request[r].count)
                                               ELSE graded
  /\ Carries(r, AfterMetric(r))
  /\ UNCHANGED << learned, span, verified, corrections, module, stats, badges, times,
                  arrivals, mixed, crossed, regranted, touched, claimed, uncounted, active,
                  wentBack >>

(***************************************************************************)
(* touch_activity_and_award_xp                                             *)
(***************************************************************************)

\* POST /conversations/{id}/corrections: nothing but the row before the XP.
RecordCorrection(r) ==
  /\ Arrives(r, "none")
  /\ corrections' = corrections + 1
  /\ Carries(r, [Idle EXCEPT !.at = "clock", !.due = 3])
  /\ UNCHANGED << learned, span, verified, planet, module, stats, badges, times, crossed,
                  regranted, touched, graded, claimed, uncounted, active, wentBack >>

\* The time is taken before the transaction begins.
ReadClock(r) ==
  /\ At(r, "clock")
  /\ Carries(r, [request[r] EXCEPT !.at = "touch", !.now = clock])
  /\ UNCHANGED << tables, times, records >>

StatsRowFree == NobodyAt("stats")

LockStats(r) ==
  /\ At(r, "touch")
  /\ StatsRowFree
  /\ Carries(r, [request[r] EXCEPT !.at = "stats", !.row = stats])
  /\ UNCHANGED << tables, times, records >>

\* local_date: the learner's own calendar.
LocalDate(now) == (now + zone) \div 2

CountsTwiceADay(row, today) ==
  IF row.last # NoDay /\ row.last + 1 >= today THEN row.streak + 1 ELSE 1

NextStreak(row, today) ==
  CASE row.last = today                            -> Max({row.streak, 1})
    [] row.last # NoDay /\ row.last + 1 = today    -> row.streak + 1
    [] OTHER                                       -> 1

\* write_stats, before any reward.
Touched(row, due, today) ==
  LET streak == NextStreak(row, today) IN
    [xp |-> row.xp + due, streak |-> streak, longest |-> Max({row.longest, streak}),
     last |-> today]

\* compute_metrics: what the rules can be about.
ValueOf(metric, row) ==
  CASE metric = "sentences_mastered" -> Cardinality(learned)
    [] metric = "cards_verified"     -> Cardinality(verified)
    [] metric = "corrections"        -> corrections
    [] metric = "longest_streak"     -> row.longest
    [] metric = "xp"                 -> row.xp

EarnedRules(row) == {b \in Rules : ValueOf(b.metric, row) >= b.threshold}

RewardOf(rules) == MapThenSumSet(LAMBDA b : b.reward, rules)

\* The inserts report the badges that are new: only those pay.
NewBadges(row) == EarnedRules(row) \ badges

WriteStats(r) ==
  /\ At(r, "stats")
  /\ LET today == LocalDate(request[r].now)
         row   == Touched(request[r].row, request[r].due, today)
     IN /\ stats' = [row EXCEPT !.xp = row.xp + RewardOf(NewBadges(row))]
        /\ badges' = badges \cup EarnedRules(row)
        /\ active' = active \cup {today}
        /\ wentBack' = (wentBack \/ (stats.last # NoDay /\ today < stats.last))
  /\ touched' = touched + request[r].due
  /\ Carries(r, AfterTouch(r))
  /\ UNCHANGED << learned, span, verified, corrections, planet, module, times, arrivals,
                  mixed, crossed, regranted, graded, claimed, uncounted >>

\* A failure is logged, and the handler goes on without the XP.
TouchFails(r) ==
  /\ At(r, "touch") \/ At(r, "stats")
  /\ Carries(r, AfterTouch(r))
  /\ UNCHANGED << tables, times, records >>

(***************************************************************************)
(* The rest of the system                                                  *)
(***************************************************************************)

\* A failing statement, which rolls the open unit back, or the request timeout between two.
DropRequest(r) ==
  /\ ~ At(r, "idle")
  /\ mixed' = mixed \cup ({request[r].metric} \cap Counting)
  /\ Carries(r, Idle)
  /\ UNCHANGED << tables, times, arrivals, crossed, regranted, touched, graded, claimed,
                  uncounted, active, wentBack >>

Tick ==
  /\ clock < MaxClock
  /\ clock' = clock + 1
  /\ UNCHANGED << tables, zone, request, records >>

\* PUT /auth/timezone: the app reports where the learner is.
SetTimezone(z) ==
  /\ zone # z
  /\ zone' = z
  /\ UNCHANGED << tables, clock, request, records >>

(***************************************************************************)
(* The specification                                                       *)
(***************************************************************************)

LearningInit ==
  /\ learned = {} /\ verified = {} /\ span = [k \in StudyCards |-> "unmade"]
  /\ corrections = 0
  /\ planet = [sentences |-> 0, flashcards |-> << 0, 0 >>, judged |-> 0]
  /\ module = [m \in 1 .. LastTaught |-> "current"]
  /\ stats = [xp |-> 0, streak |-> 0, longest |-> 0, last |-> NoDay]
  /\ badges = {}
  /\ clock = 1 /\ zone = 0                   \* noon of the first day
  /\ request = [r \in Requests |-> Idle]
  /\ arrivals = 0 /\ mixed = {} /\ crossed = {} /\ regranted = {} /\ touched = 0
  /\ graded = 0 /\ claimed = {} /\ uncounted = FALSE /\ active = {} /\ wentBack = FALSE

RequestArrives(r) ==
  \/ \E s \in Sentences, flag \in BOOLEAN : MasterSentence(r, s, flag)
  \/ \E k \in StudyCards : ConfirmLive(r, k)
  \/ \E k \in StudyCards, rating \in {"hard", "medium", "easy"} : ReviewCard(r, k, rating)
  \/ \E delta \in {-1, 1} : BumpProgress(r, delta)
  \/ RecordCorrection(r)

RequestGoesOn(r) ==
  \/ UpsertAndCount(r) \/ CommitMark(r) \/ ReadModule(r) \/ CloseTalk(r) \/ CloseDeck(r)
  \/ RecordReview(r) \/ ReviewNothing(r) \/ CountOwned(r) \/ CountGraduated(r)
  \/ LockPlanet(r) \/ WritePlanet(r)
  \/ ReadClock(r) \/ LockStats(r) \/ WriteStats(r) \/ TouchFails(r) \/ DropRequest(r)

LearningNext ==
  \/ \E r \in Requests : RequestArrives(r) \/ RequestGoesOn(r)
  \/ \E k \in StudyCards : MakeFlashcard(k) \/ DeleteFlashcard(k)
  \/ Tick
  \/ \E z \in {0, 1} : SetTimezone(z)

LearningSpec == LearningInit /\ [][LearningNext]_learningVars

(***************************************************************************)
(* Properties                                                              *)
(***************************************************************************)

LearningTypeOK ==
  /\ learned \subseteq Sentences /\ verified \cup claimed \subseteq Owned
  /\ span \in [StudyCards -> {"unmade", "new", "short", "long", "deleted"}]
  /\ corrections \in 0 .. MaxArrivals
  /\ planet \in [sentences : 0 .. Cardinality(Sentences),
                 flashcards : (0 .. Cardinality(StudyCards)) \X (0 .. Cardinality(StudyCards)),
                 judged : 0 .. MaxGrade]
  /\ module \in [1 .. LastTaught -> {"current", "talked", "completed"}]
  /\ stats.xp \in Nat /\ stats.streak \in 0 .. stats.longest
  /\ stats.last \in {NoDay} \cup active
  /\ badges \subseteq Rules
  /\ clock \in 0 .. MaxClock /\ zone \in {0, 1}
  /\ \A r \in Requests : At(r, "idle") => request[r] = Idle
  /\ regranted \cup crossed \subseteq Sentences /\ uncounted \in BOOLEAN

\* "serialize instead of lost-updating XP": the XP is what each counted activity
\* earned and what the badges held pay, each once (touch_activity_and_award_xp); and a
\* sentence pays again only if it was unlearned in between, unless two calls marked it
\* at once: the first read of mark_sentence_mastered holds no lock (planets.rs:276).
XpIsEarned ==
  /\ stats.xp = touched + RewardOf(badges)
  /\ regranted \subseteq crossed

\* The streak is the run of days in a row with an activity that ends on the last one,
\* and the longest is the longest there was, whatever order activities are written in
\* around midnight and wherever the learner travels, unless one was counted for a day
\* that was over: its clock was read before another's was written, or the zone changed.
Run(day) == Cardinality({d \in active : d <= day /\ d .. day \subseteq active})

StreakIsRun ==
  ~ wentBack /\ active # {} =>
    /\ stats.streak = Run(stats.last)
    /\ stats.last = Max(active)
    /\ stats.longest = Max({Run(d) : d \in active})

\* Once the requests about them are over, what is computed from rows agrees with them:
\* the sentence and flashcard metrics with the rows they count, the judged one with its
\* bumps, a card's flag with the tutor's last test, and the first module is over with the
\* last sentence.  Two requests that count the same rows may write in the wrong order, and
\* a dropped one may not write at all (mixed); any other may run beside them.  Making or
\* deleting a card counts nothing: until the next review or re-test the flashcard metric
\* is the one of before (uncounted).
SentencesAgree ==
  Settled("sentences") /\ "sentences" \notin mixed =>
    /\ planet.sentences = Cardinality(learned)
    /\ learned = Sentences => module[1] = "completed"

CardsAgree ==
  Settled("flashcards") /\ "flashcards" \notin mixed =>
    /\ claimed \cap verified = {}
    /\ uncounted \/ planet.flashcards = << Cardinality(Graduated), Cardinality(Owned) >>

RowsAgree == SentencesAgree /\ CardsAgree /\ planet.judged = graded
================================================================================

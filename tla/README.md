# A formal model of hupy

TLA+ modules, TLC configurations and TLAPS proofs for the parts of hupy (a Rust
backend over PostgreSQL, a React Native app) whose correctness depends on the
order in which things happen. Paths below are relative to the repository.

| Component | Module | Abstract specification | Checked in | Proved |
|---|---|---|---|---|
| Refresh tokens, login families | `RefreshTokens` | `SessionPromise` | `refresh_tokens` | all safety, refinement |
| Mobile API client and auth store | `ClientSession` | uses `SessionPromise` as its server | `client_session`, `progress` | all safety |
| Module path and its gate | `ModuleGate` | `CurriculumPath` | `learner` | all safety, refinement |
| Learning records, XP, flashcard schedule | `LearningRecords` | – | `learner` | all safety |
| Live voice conversation | `VoiceSession` | – | `voice_session` | all safety |
| Lesson chat around it | `LessonChat` | – | `screens` | types, `KeptOncePerConversation` |
| Secure store and boot | `SecureStore` | – | `screens` | all safety |
| Sign-in screens | `SignIn` | – | `screens` | all safety |
| Query cache | `QueryCache` | – | `screens` | all safety |
| Reachability of the backend | `Reachability` | – | `progress` | types, `OfflineOnEvidence` |
| Course choice | `CourseChoice` | – | `screens` | all safety |
| Journey screens, navigation | `Journey` | – | `screens` | all safety |
| Flashcard deck | `DeckSession` | – | `screens` | all safety |
| Story player | `StoryPlayer` | – | `progress` | types, `OneLoopSpeaks` |
| Celebrations | `Celebrations` | – | `progress` | types, shown once at most |
| Profile screen | `Profile` | – | `screens` | all safety |

Liveness is checked and not proved, and the six claims that runs refute have
nothing to prove (section 6 says what each proof is).

`PROJECT.json` lists every component, run, mapped definition, mutant, hazard,
finding and theorem.

## 1. Inventory

### Backend

**Refresh tokens** (`backend/src/repositories/refresh_tokens.rs`,
`backend/src/api/auth.rs`). State: the rows of `refresh_tokens` (user, family,
revoked, expiry) and `users`. Operations: register, login, Google and Apple
sign-in (issue a token of a new family), refresh (prune, then rotate), logout
(revoke the family), delete the account (cascade). Hard: every request is a
handful of statements at READ COMMITTED, interleaved with others; a rotation
must be single-use; reuse must end a login; an ended login must stay ended.

**Module path** (`backend/src/services/curriculum.rs`,
`backend/src/repositories/modules.rs`, `backend/src/api/modules.rs`,
`backend/src/api/flashcards.rs`). State: productions per structure,
`conversation_done` and `flashcards_done` per module, the module's flashcards.
Operations: a production, completing the conversation, creating, deleting,
reviewing a card. Hard: the tutor's tool calls run concurrently with one another
and with the deck; the check of the current module and the write are different
transactions; counts are taken without locks.

**Learning records**
(`backend/src/services/{planets,gamification,flashcards}.rs` and their
repositories and handlers). State: mastered sentences, intervals and live
verification of cards, a planet's metrics, XP, streak, badges. Operations:
master or unlearn a sentence (and with the last one close a module taught from
sentences), make, delete or review a card, confirm one live, bump a metric,
record a correction; most of them may earn XP. Hard: a handler is several units
of work; what one read, the next writes; only the planet's row and the stats row
are locked; the time of an activity is taken before the lock; the learner's day
moves with the time zone.

**Only read, or one statement at a time:** stories, text to speech and its
cache, rate limiters, minting of a voice session, Google and Apple verification,
lists of conversations, bootstrap and seeding (section 9).

### App

**API client and auth store** (`mobile/src/api/client.ts`,
`mobile/src/store/auth.ts`). State: the stored access and refresh token and
profile, one refresh in flight, the expiry report. Hard: calls, answers,
sign-outs and sign-ins in any order, lost answers, a kill of the app; a late
answer must not mix two sessions.

**Secure store and boot** (`mobile/src/storage.ts`, `mobile/App.tsx`). State: the
key in the Keychain, the encrypted file, what an older build left in the plain
store. Hard: kills between two native calls, a Keychain that outlives a
reinstall, a backup that brings the file without its key.

**Sign-in screens** (`mobile/src/screens/{Login,Register}Screen.tsx`). Hard: an
attempt outlives its screen; retries and lost answers leave families on the
server that the device never held.

**Query cache** (`mobile/src/api/hooks.ts`, `mobile/src/api/queryClient.ts`).
State: every query's data, its owner and age. Hard: each mutation lists by hand
what it makes stale, at a distance from the handlers that write it; keys do not
name the account.

**Reachability** (`mobile/src/api/connectivity.ts`, the gate in `App.tsx`). Hard:
polls, retries and foreground checks share one counter and one timer.

**Course choice** (`LanguageSelectScreen.tsx`, `LanguageSwitch.tsx`,
`ProfileScreen.tsx`, the store). State: four copies of the course. Hard: answers
with the whole user, out of order.

**Journey and navigation** (`HomeScreen.tsx`, `PlanetsHomeScreen.tsx`,
`PlanetsScreen.tsx`, `LessonsScreen.tsx`, `ChapterIntroScreen.tsx`,
`store/ui.ts`). Hard: two lists of different ages decide what a tap opens; a
planet's unlock is recognised from two successive lists and shown by an overlay
that lives and dies with the card it is drawn on.

**Flashcard deck, story player, celebrations, profile** (`FlashcardsScreen.tsx`,
`AudioScreen.tsx` over `voice/ttsPlayer.ts`, `gamification/*` and its
components, `ProfileScreen.tsx`). Hard: indices into lists that shrink, loops and
timers over shared refs, sheets that keep their state while calls are answered.

**Live voice conversation** (`mobile/src/voice/useVoiceConversation.ts`) and the
**lesson chat** that drives it (`mobile/src/screens/ChatScreen.tsx`). State:
status, socket, recorder, the muted chime, the queue of typed messages; the
conversation of the backend and the turns already saved. Hard: asynchronous
functions that share refs and are never cancelled; the microphone must not
outlive the session; turns are saved from an effect that runs at every render.

### How they interact

The app reaches the backend through `apiRequest`, which hides the refresh
(`ClientSession` over the promise that `RefreshTokens` implements). `SecureStore`
keeps what `ClientSession` stores; `SignIn` is how a session begins. `QueryCache`
stands between the endpoints and every screen: what `Journey`, `DeckSession` and
`Profile` read can be old, and their modules let it be. The tutor, an external
service on the other end of the voice session's socket, calls tools; `ChatScreen`
turns each into a REST call without waiting for the one before, and those are the
requests `ModuleGate` and `LearningRecords` interleave. A module's flags feed the
planets' status, which `Journey` shows; XP and badges feed `Celebrations`.

## 2. Modules

**`SessionPromise`** A login opens a session with a fresh token; a refresh replaces
it; a session that has ended has no token again. No table, lock or request.

**`RefreshTokens`** One variable per column (`status`, `owner`, `family`,
`expired`), the locks of rows, and per request a program counter, its input and
the snapshot of an UPDATE. A unit of work without a transaction is one action.
`rotate` is `RotateLock` (the row FOR UPDATE) then `RotateMint`, or `ReuseStart`
and `ReuseEnd` when the token was already revoked. An `UPDATE` is two actions:
the rows it chooses, then, once their locks are free, the rows it still finds
live; a row inserted meanwhile is missed, as READ COMMITTED has it. A deletion
locks the user, then cascades. `Abort` is a statement that fails or a server that
stops; the request timeout of `backend/src/lib.rs` ends a handler only between its
units of work. `DeadlockVictim` is what PostgreSQL does with a cycle of waits.

**`ClientSession`** JavaScript runs a turn at a time, so an action is a turn with
every continuation that the settling of its promise wakes (`Settle...` ends all
that joined the refresh). Its server state is that of `SessionPromise`, changed by
its actions. Every login is of an account of its own, so that mixing two shows.
An abandoned refresh can still reach the server (`OrphanArrives`); answers are
lost (`Lose`, `FailRefresh`), the app is killed (`Kill`). Two things end a session
that a 401 met (`Report`): the client's report, once a session, and the query
cache's, which signs out whatever has been reported.

**`CurriculumPath`** A planet's modules, one after the other: the first unfinished
one is open, its conversation is closed, its flashcards finish it.

**`ModuleGate`** One learner, one planet. `record_production` is one transaction
whose statements are actions of their own (`ReadProductions` to
`CommitProduction`): what it writes shows at the commit, its row locks hold
others back until then. The check of the current module is the action before it
(`Produce`), committed apart. `complete_conversation` and a card review are
chains of one-statement units that end in `flashcard_counts`, two statements, and
the flag. `Abort` rolls an open transaction back or leaves a chain half done.

**`LearningRecords`** One learner, one planet, every request a record of where it
is and what it carries from one unit of work to the next. `mark_sentence_mastered`
is a read without a lock (`MasterSentence`), the upsert that locks the sentence's
row with the counts after it (`UpsertAndCount`), and the commit. A metric is
counted in one unit and written in another (`LockPlanet`, `WritePlanet`: the row
FOR UPDATE, then written back whole). An activity reads the clock (`ReadClock`),
then locks the stats row, then writes XP, streak and badges; a failure there is
only logged (`TouchFails`). Fractions are counts, intervals are new, short (under
a week) or long, days are halves so that a time zone can be half a day off. Cards
are made and deleted (`MakeFlashcard`, `DeleteFlashcard`) by handlers that leave
the planet's flashcard metric as it is; the metric is a share, whose two numbers are
two reads (`CountOwned`, `CountGraduated`). The modules are those taught from
sentences: after the last sentence `ReadModule` reads the current one again, and
`CloseTalk` and `CloseDeck` close what it read, so a mark paid twice can close the
next. The cards are those made from corrections; `ModuleGate` has the others.

**`VoiceSession`** The refs of the hook, the recorder's calls in the order it takes
them, and the asynchronous functions in progress (`Tasks`), each at its await. A
task works on what the refs hold when its turn comes, as the closures do. `Start`
can come at any time because the screen awaits its conversation first. Assumed of
what is not in the repository: the recorder takes its calls in order; `onerror`
and `onclose` come in the same turn, so that their two teardowns are one; a 401
of the secret signs out, which takes the screen away.

**`LessonChat`** A visit of the chat screen, its refs, the tasks it started (a
conversation being created, a session being opened), which go on when it is gone.
A render saves every turn not yet marked (`PersistTurns`); the server may have kept
one whose answer failed. A stop awaits the recorder (`stopping`) and the handlers
stay until it has stopped: turns still come and the tutor's tools are still called
(`OnToolCall`), in the conversation of the visit that the session belongs to.

**`SecureStore`** `initSecureStorage` step by step, each step before a native call
that may fail or be the last: load the key, draw one, recreate the file, the
sentinel, the migration. `HandleMatchesKeychain` is what a later boot counts on.

**`SignIn`** A stack of forms, the attempts they started, the families alive on
the server and the one the device holds.

**`QueryCache`** Per key an owner and a version, its mark, the fetch that is out,
whether it is on screen. React Query is modelled from the calls made to it
(external in the map): it lets a fetch go on that is out when its key is
invalidated off screen or that is the key's first. What a call changes is the
backend's: `Writes` are the rows its handler writes, `Reads` those its endpoint is
answered from, and a key is touched when they meet (`Touches`). What a hook
invalidates is the hook's (`Invalidates`), and `Forgotten` is the difference, which
a lemma shows to be exactly that (`InvalidatedOrForgotten`).

**`Reachability`** The monitor's counter, timer and probe, and the gate. Status,
render and effect are one step.

**`CourseChoice`**, **`Journey`**, **`DeckSession`**, **`StoryPlayer`**,
**`Celebrations`**, **`Profile`** Each is a screen: its local state, what it has
asked, what has been answered, and a server whose state moves on meanwhile. An
action is a tap, an answer, a timer, or something that happened elsewhere.
`Journey` counts each planet in half modules, so that "as old as it may be" is any
earlier number; the server locks planets in its list and blocks within a planet,
the first of each being open whatever the list says. A planet's overlay plays each
time it is drawn anew (`plays`), and cards that swap redraw it. In `StoryPlayer` a
loop looks at `cancelRef` only when its clip is over, so that one told to stop may
still run when the next begins. `Celebrations` are mounted (`onScreen`) inside the
connectivity gate: the offline screen takes their state away, while the cache and
the device keep theirs. Every module's head says what it leaves out.

**MC modules.** `MCScreens` and `MCProgress` hold one instance of each component
of the app, `MCLearner` of the two that record what a learner does. These share
no variable, so a behaviour picks one and the others stand still: what holds of
each alone holds of them side by side, and the state space is a sum and not a
product. Components that do interact are composed in their own modules
(`ClientSession` with the server's promise, `SignIn` with store and server,
`LessonChat` with what the voice hook returns).

## 3. Runs

| Run | Shows | Bounds |
|---|---|---|
| `refresh_tokens` | single use, finality, deletion, what a logout may miss, the refinement, every request answered | one account, two logins, three tokens, two requests |
| `logout_race` | a logout misses the successor of a rotation under way (`LogoutEndsFamily` fails) | one login, two tokens, two requests |
| `client_session` | the single flight and the zombie guard: no token presented twice, no session but by sign-in, no expiry of a live session, the profile follows | two logins, three pairs, two calls |
| `stale_call` | an old session's 401 rotates the new account's token (`StaleCallNeverRotates` fails) | two logins, two pairs, one call |
| `learner` | one module at a time, closings are earned, the refinement; XP, badges, streak and metrics are what was earned | path: two modules of two structures (the last only begun), cap 2, one card, two requests; records: two sentences, two modules taught from them, one card made and deleted, two of three requests at once, three local days |
| `never_left_open` | two last productions leave the module open (`NeverLeftOpen` fails) | one module, two structures, two requests |
| `voice_session` | nothing outlives its session, texts once and in order, no hang in 'connecting' | two tasks, two sockets, two messages, fair |
| `mic_in_background` | an overtaken opening records in the background (`MicOffInBackground` fails) | as above |
| `text_lost` | a failure drops an accepted message (`NoTextLost` fails) | as above |
| `screens` | what a screen shows or opens is the account's, up to date and not locked; what is stored survives; what is sent is sent once | section 4 |
| `progress` | every call ends, the offline screen follows the server, playback goes on, every toast is shown | section 4 |
| `turns_resent` | a second conversation created while the old transcript is on screen is filled with the old turns (`NotResent` fails) | one turn, two conversations, one visit |

## 4. Bounds, and why they are enough

The races are between two actors: two requests (or two calls, two tasks) show
them, a third would wait on one of the two. Two logins let a late answer meet the
session after its own; two tokens of a login give a rotation, a third a rotation
and a new login, or two rotations. Two modules give "the next one opens", two
structures give "one short", a cap of two gives a lost increment and a full
count. Two sockets let a task close a session opened after it. When tokens or
logins run out the model takes no more logins or rotations; in `RefreshTokens`,
`BeyondBound` is the end of a request that needs one more.

`learner`: three requests, two at once (`MaxArrivals`), give two that cross and
one that shows what they left, or two sentences and a third activity. The clock
goes from a noon to the half day `MaxClock`, over which two time zones make
three local days, so that a streak grows, breaks and is set back. The clock moves while
an activity is about to read it, and the zone while one holds what it read
(`TimeInTime`): nothing else looks at either, so a move at another time might as
well wait. The card is made before the first request and deleted while one holds
what it read of it (`DeckInTime`): at any other time the metric is stale at once
and nothing else follows. Two modules taught from sentences (`LastTaught`) let a
mark paid twice close the second; that none may be left to close is in the proof
only. On the path the last module is only begun (`LastOnlyBegun`): the one
before it has every race there is.

`screens`: two accounts, two query keys and one change of each (`MaxVersion`):
stale is one behind; four store keys and two installations (`MaxInstalls`), two
boots at once; three cards, two reviews under way; three planets of two blocks
(`LastPlanet`, `BlocksEach`), so that a block has one before it and a focused view
(`Behind`, `Ahead`) leaves planets out, and two plays of an overlay
(`ManyPlays`), one more than is right; one turn, two conversations, two tasks, one visit
(`MaxVisits`); two sign-in attempts, two screens on the stack (`MaxStack`), two
families (`MaxFamilies`); one call at a time from the course picker and the
profile screen, each of which also overlaps with the other's answers through the
server's own changes. `progress`: one login of two pairs and two calls, two
misses before offline, two panels and two loops, two achievements of which one
fits on screen (`MaxVisibleToasts`). What these bounds leave out of the safety
properties is proved (section 6).

Properties with an exception say so in their text, and a history variable names
it. `OnlyDeadSessionsExpire` and `ProfileFollowsSession` except calls that
outlived their session (`Strays`); `QuietInBackground`,
`NothingHeldWithoutSession` and `ConnectingEnds` except openings that were
overtaken by a stop, another opening or the background and went on to connect, or
a session that came up during a teardown (`raced`); `NoSessionLeftBehind`,
`ShownIsKept` and `CopiesAgree` except overlapping calls and lost answers;
`RatedCardGivesWayToTheNext` except cards rated earlier under the list still shown
(`rated.before \subseteq DueDeck`);
`FreshShowsChanges` except what the hooks forget (`Forgotten`), what a call
changed whose answer was lost, and what a fetch has missed that the invalidation
lets go on (`excused`, until the key is read anew); `XpIsEarned` except
sentences two calls marked at once (`crossed`), `StreakIsRun` except activities
counted for a day that was over (`wentBack`), `RowsAgree` except two counting
requests at once or one dropped half way (`mixed`) and, for the flashcard metric,
the time from a card made or deleted to the next count (`uncounted`);
`OpensNothingLocked` except, for the lock of a planet and not for that of a block,
what a row of the planet screen opened (`byRow`); `OneCelebrationPerUnlock` except
overlays that went while they played (`redrawn`); `PlaybackGoesOn` except, for what
speaks, panels played again before a loop told to stop had looked (`strayed`, until
they are silent); `EveryToastHasItsTurn` except toasts that waited when the offline
screen, a sign-out or a restart took the queue away. The exceptions are behaviours
of the code: the violation runs, and TLC on each of these properties without its
exception, reach them; that of `RatedCardGivesWayToTheNext` takes four cards,
one more than the run has.

`CHECK_DEADLOCK FALSE` is said where the bounds let the system stop: no token,
login, socket, message, visit or request left to use, with nothing pending.

## 5. Fairness

- `RefreshTokens!Fairness`: a handler that can go on does (strong, because a row
  lock is taken from it and freed again, and PostgreSQL queues the waiters); a
  deadlock is broken, as PostgreSQL does after `deadlock_timeout`. Clients,
  expiry and aborts are not fair.
- `ClientSession!FairSpec`: the event loop runs what is due and `doFetch` aborts a
  request after its time, so a call and a refresh get some answer. The learner
  and the server's luck are not fair.
- `VoiceSession!FairSpec`: recorder calls return, the permission dialog and the
  secret's request end, a socket opens or dies and an opened one says what became
  of the session. The learner, the tutor and the app's state are not fair.
- `MCProgress!ProgressSpec` takes the fairness of its parts: that of
  `ClientSession`; of a probe, which the timeout of `pingHealth` ends, and of the
  poll's timer (`Reachability`); of the story's timers and loops, whose clips end
  or fail (`StoryPlayer`); of the timers of a toast and of the level-up modal
  (`Celebrations`). The learner, the server's health and what is achieved are not
  fair.
- `ModuleGate`, `LearningRecords` and the other screens have no liveness property:
  nothing obliges the tutor or the learner to go on.

## 6. Proofs

Every invariant, action property and refinement that a run checks is also a
theorem, for all values of the constants under the named assumptions of the
modules it extends. Eight modules hold the proofs. Each component has an inductive
invariant, a conjunction of named parts, a lemma per action or per group of
actions, and its theorems at the end. TLC checked the invariants on the runs'
instances before they were proved.

`RefreshTokensProofs` proves, for every set of accounts, logins, tokens and
requests, `TypeOK`, `OneLiveToken`, `DeletedHasNoTokens`, `EndedStaysEnded`,
`LogoutMissesOnlyRotated` and that `RefreshTokens` implements `SessionPromise`.
The only assumption is `NoneIsNobody`. `OneLiveToken` is not inductive by itself:
`RotateMint` inserts a live token on the strength of what `RotateLock` saw. The
inductive invariant `IInv` adds that the row a rotation has locked is still live
and locked by it (`LockedIsLive`), that rows name an open account (`RowsOK`), that
a request past its first step has its input (`InputOK`), and what an UPDATE
counts on of its snapshot (`EmptySnapshot`, `SnapshotFamily`). `StepShape` puts
every step into one of three shapes (rows are lost; a login opens a family; a
rotation replaces a live token by a new one), and each later lemma is a case
analysis of three, not of every action; the refinement maps the shapes to `End`,
`Open` and `Advance`.

`ModuleGateProofs` proves, for every number of modules, structures, cards and
requests and every cap, `TypeOK`, `CloseIsEarned`, `MidwayThroughOne`,
`PlainCountAgrees` and that `ModuleGate` implements `CurriculumPath`. The
assumptions are `NAssumption`, `CapAssumption`, `KeysAssumption` and
`CardAssumption`. The argument: flags are never cleared (`ProgressGrows`), so a
request's check that the earlier modules are over is never stale
(`EarlierStays`), though its check that its own module is unfinished may be;
hence `BegunOK`. `CloseIsEarned` needs what a transaction carries from its count
to its commit (`CallOK`) and that a count at the cap was committed once
(`MasteredOK`), because counts themselves can go down again.

`LearningRecordsProofs` proves `LearningTypeOK`, `XpIsEarned`, `StreakIsRun` and
`RowsAgree` for any sentences, cards, badges, requests and days (`OfSomething`,
`BoundsNat`, `NoDayIsNone`, `PaysNat`).
- XP: a locked row is the row as it stands (`LocksOK`), and a sentence mastered
  since a request read that it was not is one that two requests marked
  (`CrossedOK`). The badges' rewards are a recursive sum over a set; that such a
  function exists, and that adding a badge adds its reward whichever one the sum
  takes first, is shown by a smallest counterexample (`Minimal`), the one way to
  do induction over data here.
- Streak: `StreakIsRun` speaks of a maximum; `StreakOK` says the same without one
  (no active day is after the last, no run is longer than the longest), which a
  step can be shown to keep.
- Metrics: `SentencesOK` and `CardsOK` say what a lone counting request carries at
  each of its steps; they hold until two cross or one is dropped (`mixed`). A card
  made or deleted in between (`DeckChanges`) takes away what `CardsOK` says of the
  flashcard metric and leaves the rest (`uncounted`), until a request that began
  afterwards has counted both numbers.

`VoiceSessionProofs` proves `TypeOK`, `QuietInBackground`,
`NothingHeldWithoutSession` and `SentOnceInOrder` for any tasks, sockets and
messages (`BoundsAssumption`, `StartIsNoTask`). The recorder's queue orders the
teardowns (`QueueOK`), and an opening that nothing has overtaken is the last to
have joined it (`SureOK`): when its teardown is over no other is left, nothing is
held, and what comes up then is its own (`HeldOK`, until an overtaken opening
connects). The texts sent, then those pending, are in the order typed, and none
waits while the session can take it (`TextsOK`).

`ClientSessionProofs` proves `TypeOK`, `NeverReusesToken`,
`OnlySignInStartsSession`, `ProfileFollowsSession` and `OnlyDeadSessionsExpire`
for any sets of logins, tokens and calls (`NoneIsNothing`; `FailuresAreNoTokens`:
an outcome is not a token). That the client never presents a spent token rests on
`SingleFlight` (all who wait, wait for one refresh), on `AskedIsHeld` and
`HeldIsCurrent` (what is presented is what is stored, and that is the server's
current one unless an answer was lost), and `AnswerIsCurrent` for an answer on its
way. The zombie guard is a statement about steps: `DeviceShape` puts each into
those that keep the stored session, clear it, replace it by its own successor or
start one, and only a sign-in does the last. That only dead sessions expire needs
a second invariant, `ExpiryOK`: a token just brought or sent again has not lapsed,
so a call refused even then is one of a deleted account, and what has ended stays
ended (`ServerGoesOn`, `StaysDead`).

`AccountProofs`, what the device keeps of an account:
- `SecureStore`: `StoreTypeOK`, `NeverReusesStaleKey`, `HandleMatchesKeychain` and
  `CredentialsSurvive` for any supply of keys and any number of installations
  (`NoKeyIsNothing`, `InstalledOnce`). `RunOK` says what each step of a boot counts
  on (`OneBoot`: no other boot runs), `RekeyOK` what a re-key does, `FileIsFresh`
  that no file is older than its installation.
- `SignIn`: `SignInTypeOK` and `NoSessionLeftBehind` for any attempts, families and
  depth of the stack (`SignInFields`, `SignInBounds`, `NoAttemptIsNothing`). Only a
  granted attempt carries a family (`OnlyGrantedCarry`), and as long as none
  overlapped or was lost there is one attempt, and none once there is a session
  (`OneAtATime`).
- `Profile`: `ProfileTypeOK` and `ShownIsKept` for any number of calls
  (`NoCallIsNothing`): a call alone carries the server's user (`InStep`).
- `CourseChoice`: `CourseTypeOK` and `CopiesAgree` for any languages, courses and
  calls (`UnsetIsNothing`). `AskOK` says what the one call under way is about to
  make of the four copies, `PlanetsOK` of which course the list of planets is.
- `QueryCache`: `CacheTypeOK`, `FreshIsOwn` and `FreshShowsChanges`
  (`NobodyIsNothing`, `VersionsCount`, `KnownMutations`), for all twelve mutations
  and five keys. What a call changes and its hook neither invalidates nor is known
  to forget is nothing (`InvalidatedOrForgotten`, from the rows written and read).
  The invariant per key that is not `excused` (`KeyCurrent`): data not marked, and
  an answer on its way, are current or a mutation that changed the key has not
  reported back (`Pending`).

`ScreensProofs`, the way to a lesson and in it:
- `Journey`: `JourneyTypeOK`, `OneCelebrationPerUnlock` and `OpensNothingLocked`
  for a course of any length (`JourneyBounds`, `JourneyTabs`). What opened stays
  open (`StaysOpen`, `OpenForGood`), so a list may be old (`OpenIn`); the first
  unfinished planet is a minimum, which `WellFoundedInduction` gives. A celebrated
  planet is in the device's memory before it plays (`CelebratedIsSeen`), and an
  overlay that is wanted and not drawn has not played, unless it was taken away
  (`UndrawnHasNotPlayed`): so one drawn anew plays for the first time (`DrawsOnce`).
- `LessonChat`: `ChatTypeOK` and `KeptOncePerConversation` for any turns, tasks,
  visits and conversations (`LessonChatBounds`). A turn that the conversation of the
  screen (`OwnConversation`) has, or is being sent, is marked, and no save but one to this
  conversation can unmark it (`SentIsMarked`); a turn is not on its way to a
  conversation that has it (`OnItsWayOnce`); a conversation not created yet has
  nothing (`NothingAhead`).
- `DeckSession`: `DeckTypeOK` and `RatedCardGivesWayToTheNext` for any finite set
  of cards, any decks and any number of reviews (`EveryDeckHasCards`,
  `NoDeckIsNoDeck`, `CardsAreFinite`). The list shown is ordered as the server's
  list, whose reviewed cards come back at its end (`OrderOK`). While it is still
  listed the rated card parts the deck in two (`PartsDeck`); afterwards nothing new
  is there, and what came before it is ahead of what came after (`PartsRest`), so
  the index, which is the number of those before, points at the next one.
- The eight components of `MCScreens` side by side: each satisfies its own
  specification (`EachScreenAlone`), so its theorems hold of `ScreensSpec`
  (`ScreensKeepTheirInvariants`), and so does `TypeOK`.

`ProgressProofs`, the components with promises of progress:
- `Reachability`: `ReachTypeOK` and `OfflineOnEvidence` for any threshold
  (`OneFailureAtLeast`): the monitor's counter never exceeds the misses in a row.
- `StoryPlayer`: `StoryTypeOK` for any panels, loops and sentences (`StoryBounds`,
  `NothingRuns`), and the safety half of `PlaybackGoesOn`, `OneLoopSpeaks`. As long
  as the panel on screen offers to pause, a loop of its own runs that nothing has
  cancelled (`PauseHasALoop`); while it has not strayed that loop is the only one
  not told to stop, and those told find `cancelRef` set (`Speaks`). Both need that a
  panel not opened yet is silent (`UnseenIsSilent`, `UnseenIsEmpty`).
- `Celebrations`: `CelebrationTypeOK` for any achievements and limits
  (`CelebrationBounds`), and the safety half of `EveryToastHasItsTurn`: an
  achievement is put up once at most, because it is in the device's memory before
  it is shown (`ToastedIsSeen`). A code is on screen or waiting once
  (`ToastsOnce`), which is why taking out one by its code takes out no other, and
  none waits while there is room (`NoneWaitsForRoom`); a queue taken away by the
  offline screen leaves the memory of the device as it was (`ToastsLeftBehind`).
- The four components of `MCProgress` side by side keep `ProgressTypeOK` and
  `OfflineOnEvidence`.

Only model-checked is liveness, which is out of the prover's reach, as is
`ENABLED`: `EveryRequestAnswered`, `EveryCallEnds`, `ConnectingEnds`,
`GateFollowsServer` and the second halves of `PlaybackGoesOn` and
`EveryToastHasItsTurn`. The type invariants of `RefreshTokens`, `ClientSession` and
`ModuleGate` are proved and not checked again by a run. No module declares a
RECURSIVE operator.

## 7. Where the code and its docs disagree

1. A logout that overlaps a refresh leaves the refreshed session alive
   (`refresh_tokens.rs:172`, against its doc at 170-172).
2. A 401 to a call of an earlier session rotates the token of the account signed
   in since (`client.ts:95`, against the comment at 133-135).
3. Two concurrent last productions leave a conversation open
   (`modules.rs:263`, against the doc at 217-220).
4. An opening overtaken by the background brings the microphone up there
   (`useVoiceConversation.ts:797`, against the comment at 791-795).
5. The failure of one message's session drops the others that wait for it
   (`useVoiceConversation.ts:775`, against the comment at 183-186).
6. After "new conversation" the old turns are sent into the next one. The marks of
   what was saved go at once, the old transcript when the next session has stopped
   the recorder; a conversation created in between, by the next start or draft or by
   a tool call of the session being closed, is filled with the old turns
   (`ChatScreen.tsx:470`, against the comment at 464-467).

Each has a run. These stand behind the exceptions of properties that hold:

- `XpIsEarned`: two calls that mark one sentence at once both pay, because the first
  read of the transaction takes no lock (`repositories/planets.rs:276`, against the
  doc at 246-252).
- `StreakIsRun`: two activities around midnight can set the streak back, because the
  time is read before the lock (`services/gamification.rs:217`, against 220-224).
- `RowsAgree`: making or deleting a card changes how many there are and leaves the
  planet's flashcard metric (`repositories/flashcards.rs:201-256`; only a review and
  a live confirmation count it), which is the old one until the next of these.
- `FreshShowsChanges`: what the hooks leave out (`hooks.ts:140` on) of what their
  calls change. A review changes `planets` and `stories`, a new card `planets` and
  `gamification`; mastering a sentence, producing a structure and listening change
  `stories`; completing a conversation, a correction turned into a card, a live
  confirmation and a new conversation change `gamification` (the achievements'
  progress, `api/planets.rs:466-470`, 495; the unlocking of a story, 671-706). The
  screens catch up when the data ages.
- `OpensNothingLocked`: "Locked wins over everything" (`services/planets.rs:119`),
  but the first module of a locked planet is as open as any other's
  (`services/curriculum.rs:61-82`); the rows of the planet screen ask only the
  lesson's state (`PlanetsScreen.tsx:398`, 455-464) and open it, where the button
  under them asks the planet's (771, 790).
- `OneCelebrationPerUnlock`: "exactly one play per unlock"
  (`PlanetsHomeScreen.tsx:419`), but the overlay plays whenever it is drawn anew
  (40-82), and expanding its planet or the whole map while it plays swaps the card
  it is drawn on (475-503).
- `PlaybackGoesOn`: the comment at `AudioScreen.tsx:94-99` counts two loops at once
  among what the guard of `play` prevents; a play that follows a pause or a seek
  clears `cancelRef` before the loop told to stop has looked at it (100-119,
  138-155), and that loop plays on beside the new one.
- `EveryToastHasItsTurn`: "nothing is ever dropped" (`celebrate.ts:93-94`), but the
  toasts are mounted inside the connectivity gate (`App.tsx:130-136`): the offline
  screen takes away those that wait, whose codes are on the device as celebrated.
- `RatedCardGivesWayToTheNext`: a card rated earlier under the list still shown
  leaves with the one rated now, so that the index lands one too far
  (`FlashcardsScreen.tsx:121`, against 123-126).

## 8. Abstractions

Hashing, JWT contents, e-mail and password checks, prompts, transcripts and audio
are data that no property tells apart. Identifiers are model values; UUIDs and
random tokens are values never used before. Time is an action that may happen
(`Expire`, `AccessLapses`, `Tick`). Layout, wording and animation are left out of
the screens. Mapped source lines are listed per definition in `PROJECT.json`; the
definitions of PostgreSQL's locks, of the WebSocket, of the recorder, of React
Query and of native modules are marked external.

## 9. Not modelled, and what is left

- Stories, text to speech, voices, the achievements endpoint, summaries of
  planets: read-only, or one statement that inserts or does nothing.
- Rate limiters: a sliding window in one critical section; its refusals are inputs
  of `ClientSession`.
- Minting a voice session, Google and Apple verification: no state of their own;
  their answers are inputs of `VoiceSession`, `SignIn` and `RefreshTokens`.
- The header's bar, the XP that floats up from it, its badges and the chime: they
  show what `Celebrations` fetched and keep nothing.
- Presentational components, copy, bootstrap, migrations and seeding.

Left, in order: the tutor's tool calls inside `VoiceSession` (a call is answered on
the socket of the moment) and the mute windows of its echo gate;
`weak_structures` and the prompts built from the path; the position of a story
kept on the server; and, of what is modelled, the statements that the liveness
properties rest on (as `PauseHasALoop` is for the story) for `VoiceSession` and
`ClientSession`: that whatever is waited for has something under way that will
end.

-------------------------------- MODULE Journey --------------------------------
(***************************************************************************)
(* The way back into the course: the screens that offer a planet's blocks  *)
(* (Home, the journey overview, the planet, the list of all lessons), the  *)
(* chapter intro they lead to, and the ui store that routes between them.  *)
(*                                                                         *)
(* The planets' list and a planet's blocks are two queries, cached and     *)
(* refreshed apart.  The list is a variable; the blocks a screen holds are *)
(* those of any earlier moment, or have not arrived.  A planet's moment is *)
(* a number of half modules: every module is a conversation, then its      *)
(* cards, and the modules of one planet come strictly in order.  Planets   *)
(* come in order in the list's states only: a planet that the list locks   *)
(* has a first module as open as any other.                                *)
(* mobile/src/screens/{Home,PlanetsHome,Planets,Lessons,ChapterIntro}*,    *)
(* mobile/src/navigation/MainTabs.tsx, mobile/src/store/ui.ts.             *)
(***************************************************************************)
EXTENDS Integers, FiniteSets, FiniteSetsExt

CONSTANTS
  LastPlanet,       (* The course's planets are 1 .. LastPlanet.              *)
  BlocksEach,       (* Blocks of each planet.                                 *)
  Tabs,             (* The tabs the learner goes to.                          *)
  Behind, Ahead     (* How far the overview's focused view reaches.           *)

ASSUME JourneyBounds ==
  LastPlanet \in Nat \ {0} /\ BlocksEach \in Nat \ {0} /\ Behind \in Nat /\ Ahead \in Nat
ASSUME JourneyTabs == {"home", "planets", "chat", "flashcards"} \subseteq Tabs
                      /\ Tabs \cap {"intro", "overview", "planet"} = {}

VARIABLES
  done,             (* Server: half modules behind the learner, per planet.   *)
  listed,           (* The planets' list: every planet's state in it.         *)
  activeTab, selectedPlanetId, lessonIntro,     (* The ui store.              *)
  deckOpened,       (* The block whose cards the last tap opened.             *)
  local,            (* State of the screen that is mounted.                   *)
  seen,             (* celebratedUnlocks, on the device.                      *)
  plays,            (* History: how often each planet's overlay has come on.  *)
  redrawn,          (* History: planets whose overlay went while it played.   *)
  byRow             (* History: a row of the planet screen opened the block.  *)

journeyVars == << done, listed, activeTab, selectedPlanetId, lessonIntro, deckOpened,
                  local, seen, plays, redrawn, byRow >>

Planets == 1 .. LastPlanet
Blocks == Planets \X (1 .. BlocksEach)
NoPlanet == 0
NoBlock == << 0, 0 >>
Missing == -1
NoList == << >>
EachModule == 2 * BlocksEach      (* The half modules of a planet.            *)
ManyPlays == 2                    (* Plays are counted no further.            *)

(***************************************************************************)
(* What the server says of a moment                                        *)
(***************************************************************************)

BlockState(block, at) ==
  LET before == 2 * (block[2] - 1)
  IN  CASE at < before -> "locked"
        [] at = before -> "current"
        [] at = before + 1 -> "flashcards_pending"
        [] OTHER -> "completed"

AllDone(at) == at = EachModule

PlanetLocked(p) == p > 1 /\ ~AllDone(done[p - 1])

\* Of a finished planet, whether one of its skills is weak.
PlanetState(p, weak) ==
  CASE PlanetLocked(p) -> "locked"
    [] ~PlanetLocked(p) /\ AllDone(done[p]) -> IF weak THEN "review" ELSE "conquered"
    [] OTHER -> "in_progress"

(***************************************************************************)
(* What the screens make of their data                                     *)
(***************************************************************************)

ListLoaded == listed # NoList
LockedListed(p) == listed[p] = "locked"

\* The blocks a screen may hold of a planet: any earlier answer, or none yet.
Cached(p) == {Missing} \cup 0 .. done[p]

ActiveOf(list) ==
  LET open == {p \in Planets : list[p] \in {"in_progress", "review"}}
  IN  IF list = NoList THEN NoPlanet ELSE IF open = {} THEN 1 ELSE Min(open)
ActivePlanet == ActiveOf(listed)

\* The first block of a planet that is current or waits on its cards.
NextBlock(p, at) ==
  LET next == {b \in 1 .. BlocksEach :
                 at # Missing /\ BlockState(<< p, b >>, at) \in {"current", "flashcards_pending"}}
  IN  IF next = {} THEN NoBlock ELSE << p, Min(next) >>

\* Which rows can be tapped.
EveryRow(block, at) == at # Missing
Tappable(block, at) == at # Missing /\ BlockState(block, at) # "locked"

ScreenOf(tab, selected, intro) ==
  CASE intro # NoBlock -> "intro"
    [] intro = NoBlock /\ tab = "planets" -> IF selected = NoPlanet THEN "overview" ELSE "planet"
    [] OTHER -> tab
OnScreen == ScreenOf(activeTab, selectedPlanetId, lessonIntro)

(***************************************************************************)
(* The overview's effects                                                  *)
(***************************************************************************)

NewlyOpen(list, known) ==
  {p \in Planets : p >= 2 /\ list[p] # "locked" /\ p \notin known}

\* The ids are stored with the celebration, before it has played.
StoreNothing(known, new) == known
PersistCelebrated(known, new) == known \cup new

Bare == [screen |-> "bare"]
NewOverview ==
  [screen |-> "overview", card |-> NoPlanet, blocksOpen |-> TRUE, fullMap |-> FALSE,
   celebrating |-> NoPlanet]
NewCarousel(selected, list) ==
  [screen |-> "planet", page |-> IF list = NoList THEN 1 ELSE selected, busy |-> FALSE]

\* The planets drawn: a stretch around the active one, or all.
VisibleOf(overview, list) ==
  IF list = NoList THEN {}
  ELSE IF overview.fullMap THEN Planets
  ELSE {p \in Planets : p >= ActiveOf(list) - Behind /\ p <= ActiveOf(list) + Ahead}
Visible == VisibleOf(local, listed)

\* The overlay is drawn on its planet, as long as the planet is: on the card or on the
\* route, which are components of their own.
Nowhere == << NoPlanet, "nowhere" >>
Place(overview, list) ==
  LET p == overview.celebrating
  IN  IF p \notin VisibleOf(overview, list) THEN Nowhere
      ELSE << p, IF p = overview.card THEN "card" ELSE "route" >>
DrawnOn == IF local.screen = "overview" THEN Place(local, listed) ELSE Nowhere

\* The overlay plays from the start wherever it comes on, and one that goes before its
\* time leaves the planet celebrated.
Draws(overview, list) ==
  LET place == Place(overview, list)
      gone == DrawnOn # place /\ DrawnOn # Nowhere /\ DrawnOn[1] = overview.celebrating
  IN  /\ local' = overview
      /\ plays' = IF place \in {Nowhere, DrawnOn} THEN plays
                  ELSE [plays EXCEPT ![place[1]] = IF @ < ManyPlays THEN @ + 1 ELSE @]
      /\ redrawn' = IF gone THEN redrawn \cup {overview.celebrating} ELSE redrawn

\* The effects on [planets]: celebrate the lowest of the newly open planets, give the
\* card to the active planet if no planet has it.
AfterEffects(overview, list) ==
  IF list = NoList THEN Draws(overview, list) /\ UNCHANGED seen
  ELSE LET new == NewlyOpen(list, seen)
           card == IF overview.card = NoPlanet THEN ActiveOf(list) ELSE overview.card
       IN  /\ Draws([overview EXCEPT !.card = card,
                       !.celebrating = IF new = {} THEN @ ELSE Min(new)], list)
           /\ seen' = PersistCelebrated(seen, new)

\* A screen that comes on mounts anew; one that stays keeps its state.
Show(tab, selected, intro) ==
  LET new == ScreenOf(tab, selected, intro)
  IN  /\ activeTab' = tab /\ selectedPlanetId' = selected /\ lessonIntro' = intro
      /\ CASE new = OnScreen -> UNCHANGED << local, seen, plays, redrawn >>
           [] new # OnScreen /\ new = "overview" -> AfterEffects(NewOverview, listed)
           [] new # OnScreen /\ new = "planet" ->
                /\ local' = NewCarousel(selected, listed)
                /\ UNCHANGED << seen, plays, redrawn >>
           [] OTHER -> local' = Bare /\ UNCHANGED << seen, plays, redrawn >>
      /\ UNCHANGED << done, listed >>

\* Taps that open no block.
Goes(tab, selected, intro) ==
  Show(tab, selected, intro) /\ deckOpened' = NoBlock /\ byRow' = FALSE

SetTab(tab) == Goes(tab, selectedPlanetId, lessonIntro)

OpenPlanet(p) == Goes(activeTab, p, lessonIntro)

BeginLesson(block) == Show(activeTab, selectedPlanetId, block) /\ deckOpened' = NoBlock

ReviewModule(block) ==
  Show("flashcards", selectedPlanetId, lessonIntro) /\ deckOpened' = block

\* A module that waits on its cards goes to its deck, any other to its intro.
OpenBlock(block, at, row) ==
  /\ IF BlockState(block, at) = "flashcards_pending" THEN ReviewModule(block)
     ELSE BeginLesson(block)
  /\ byRow' = row

(***************************************************************************)
(* Home                                                                    *)
(***************************************************************************)

ContinueLearning ==
  /\ OnScreen = "home" /\ ActivePlanet # NoPlanet
  /\ \E at \in Cached(ActivePlanet) :
       LET next == NextBlock(ActivePlanet, at)
       IN  IF next # NoBlock THEN OpenBlock(next, at, FALSE) ELSE OpenPlanet(ActivePlanet)

SeeAll ==
  /\ OnScreen = "home" /\ ActivePlanet # NoPlanet
  /\ OpenPlanet(ActivePlanet)

\* Today's plan, Hupy Live, the streak and the bell.
HomeShortcut(tab) ==
  /\ OnScreen = "home" /\ tab \in {"flashcards", "audio", "chat", "profile"}
  /\ SetTab(tab)

\* Every screen but the intro has the tab bar.
TapTab(tab) == OnScreen # "intro" /\ SetTab(tab)

(***************************************************************************)
(* The journey overview                                                    *)
(***************************************************************************)

Overview(f) ==
  /\ OnScreen = "overview"
  /\ Draws(f, listed)
  /\ deckOpened' = NoBlock /\ byRow' = FALSE
  /\ UNCHANGED << done, listed, activeTab, selectedPlanetId, lessonIntro, seen >>

MoveCard(p) ==
  /\ OnScreen = "overview" /\ ListLoaded
  /\ p \in Visible /\ p # local.card /\ ~LockedListed(p)
  /\ Overview([local EXCEPT !.card = p, !.blocksOpen = TRUE])

ToggleBlocks ==
  /\ OnScreen = "overview" /\ ListLoaded /\ local.card \in Visible
  /\ Overview([local EXCEPT !.blocksOpen = ~@])

ToggleMap ==
  /\ OnScreen = "overview"
  /\ Overview([local EXCEPT !.fullMap = ~@])

\* The overlay's timer, which goes with it.
CelebrationDone ==
  /\ OnScreen = "overview" /\ DrawnOn # Nowhere
  /\ Overview([local EXCEPT !.celebrating = NoPlanet])

TapCardBlock(block) ==
  /\ OnScreen = "overview" /\ ListLoaded
  /\ block[1] = local.card /\ local.card \in Visible /\ local.blocksOpen
  /\ \E at \in Cached(block[1]) : Tappable(block, at) /\ OpenBlock(block, at, FALSE)

(***************************************************************************)
(* The planet                                                              *)
(***************************************************************************)

ClosePlanet ==
  /\ OnScreen = "planet"
  /\ Goes(activeTab, NoPlanet, lessonIntro)

Carousel(page, busy) ==
  /\ local' = [local EXCEPT !.page = page, !.busy = busy]
  /\ deckOpened' = NoBlock /\ byRow' = FALSE
  /\ UNCHANGED << done, listed, activeTab, selectedPlanetId, lessonIntro, seen, plays,
                  redrawn >>

\* The arrows are dead while the carousel still scrolls.
GoTo(p) ==
  /\ OnScreen = "planet" /\ ListLoaded
  /\ p \in {local.page - 1, local.page + 1} \cap Planets
  /\ ~local.busy
  /\ Carousel(p, TRUE)

\* Of a scroll by arrow or by hand, which ends wherever it is let go.
MomentumEnds(p) ==
  /\ OnScreen = "planet" /\ ListLoaded
  /\ Carousel(p, FALSE)

\* A row asks for the block's state alone, not for the planet's.
TapPlanetBlock(block) ==
  /\ OnScreen = "planet" /\ ListLoaded
  /\ block[1] = local.page
  /\ \E at \in Cached(block[1]) : Tappable(block, at) /\ OpenBlock(block, at, TRUE)

ContinueReady(p, at) ==
  /\ ~LockedListed(p) /\ at # Missing
  /\ NextBlock(p, at) # NoBlock \/ AllDone(at)

ContinueTarget(p, at) ==
  IF NextBlock(p, at) # NoBlock THEN NextBlock(p, at) ELSE << p, BlocksEach >>

TapContinue ==
  /\ OnScreen = "planet" /\ ListLoaded
  /\ \E at \in Cached(local.page) :
       /\ ContinueReady(local.page, at)
       /\ OpenBlock(ContinueTarget(local.page, at), at, FALSE)

(***************************************************************************)
(* All lessons, and the chapter intro                                      *)
(***************************************************************************)

TapListedLesson(block) ==
  /\ OnScreen = "lessons" /\ ListLoaded /\ ~LockedListed(block[1])
  /\ \E at \in Cached(block[1]) : Tappable(block, at) /\ OpenBlock(block, at, FALSE)

\* The intro has its controls once the planet's blocks are there.
ConfirmIntro ==
  /\ OnScreen = "intro"
  /\ Goes("chat", selectedPlanetId, NoBlock)

CancelIntro(tab) ==
  /\ OnScreen = "intro" /\ tab \in {activeTab, "flashcards"}
  /\ Goes(tab, selectedPlanetId, NoBlock)

(***************************************************************************)
(* The server and the queries                                              *)
(***************************************************************************)

\* A conversation is held, the last card is reviewed; a module without cards does both.
LearnerAdvances(p, n) ==
  /\ done[p] + n <= EachModule /\ (n = 2 => done[p] % 2 = 0)
  /\ done' = [done EXCEPT ![p] = @ + n]
  /\ UNCHANGED << listed, activeTab, selectedPlanetId, lessonIntro, deckOpened, local, seen,
                  plays, redrawn, byRow >>

\* The graded skills go up and down: each answer finds some of them weak.
ListArrives ==
  /\ \E weak \in [Planets -> BOOLEAN] : listed' = [p \in Planets |-> PlanetState(p, weak[p])]
  /\ CASE OnScreen = "overview" -> AfterEffects(local, listed')
       [] OnScreen = "planet" ->
            /\ local' = IF ListLoaded THEN local ELSE [local EXCEPT !.page = selectedPlanetId]
            /\ UNCHANGED << seen, plays, redrawn >>
       [] OTHER -> UNCHANGED << local, seen, plays, redrawn >>
  /\ UNCHANGED << done, activeTab, selectedPlanetId, lessonIntro, deckOpened, byRow >>

\* The app is started again: what is on the device survives.
ColdStart ==
  /\ listed' = NoList /\ local' = Bare
  /\ activeTab' = "home" /\ selectedPlanetId' = NoPlanet
  /\ lessonIntro' = NoBlock /\ deckOpened' = NoBlock /\ byRow' = FALSE
  /\ UNCHANGED << done, seen, plays, redrawn >>

JourneyInit ==
  /\ done \in [Planets -> 0 .. EachModule] /\ listed = NoList
  /\ activeTab = "home" /\ selectedPlanetId = NoPlanet
  /\ lessonIntro = NoBlock /\ deckOpened = NoBlock /\ local = Bare
  /\ seen = {} /\ plays = [p \in Planets |-> 0] /\ redrawn = {} /\ byRow = FALSE

JourneyNext ==
  \/ ContinueLearning
  \/ SeeAll
  \/ \E tab \in Tabs : HomeShortcut(tab)
  \/ \E tab \in Tabs : TapTab(tab)
  \/ \E p \in Planets : MoveCard(p)
  \/ ToggleBlocks
  \/ ToggleMap
  \/ CelebrationDone
  \/ \E block \in Blocks : TapCardBlock(block)
  \/ ClosePlanet
  \/ \E p \in Planets : GoTo(p)
  \/ \E p \in Planets : MomentumEnds(p)
  \/ \E block \in Blocks : TapPlanetBlock(block)
  \/ TapContinue
  \/ \E block \in Blocks : TapListedLesson(block)
  \/ ConfirmIntro
  \/ \E tab \in Tabs : CancelIntro(tab)
  \/ \E p \in Planets, n \in 1 .. 2 : LearnerAdvances(p, n)
  \/ ListArrives
  \/ ColdStart

JourneySpec == JourneyInit /\ [][JourneyNext]_journeyVars

JourneyTypeOK ==
  /\ done \in [Planets -> 0 .. EachModule]
  /\ listed \in {NoList} \cup [Planets -> {"locked", "in_progress", "review", "conquered"}]
  /\ activeTab \in Tabs /\ selectedPlanetId \in Planets \cup {NoPlanet}
  /\ {lessonIntro, deckOpened} \subseteq Blocks \cup {NoBlock}
  /\ local \in {Bare} \cup [screen : {"planet"}, page : Planets, busy : BOOLEAN]
       \cup [screen : {"overview"}, card : Planets \cup {NoPlanet}, blocksOpen : BOOLEAN,
             fullMap : BOOLEAN, celebrating : Planets \cup {NoPlanet}]
  /\ seen \subseteq Planets /\ plays \in [Planets -> 0 .. ManyPlays]
  /\ redrawn \subseteq Planets /\ byRow \in BOOLEAN

(***************************************************************************)
(* Properties                                                              *)
(***************************************************************************)

\* However old the list and the blocks on screen are, and however the learner came
\* there, no tap opens the intro of a block whose predecessor in its planet is not
\* finished, nor sends the learner to the cards of a module whose conversation is not
\* behind them; and no tap but one on a row of the planet screen, which shows the
\* locked planets' rows too, opens a block of a planet the server still holds locked.
OpensNothingLocked ==
  /\ lessonIntro # NoBlock =>
       /\ BlockState(lessonIntro, done[lessonIntro[1]]) # "locked"
       /\ PlanetLocked(lessonIntro[1]) => byRow
  /\ deckOpened # NoBlock =>
       /\ BlockState(deckOpened, done[deckOpened[1]]) \in {"flashcards_pending", "completed"}
       /\ PlanetLocked(deckOpened[1]) => byRow

\* A planet's unlock plays once at most, over restarts, re-mounts of the overview,
\* refetches of the list and planets that go to review and back, unless its overlay was
\* taken away while it played: then the planet stays celebrated and plays again.
OneCelebrationPerUnlock == \A p \in Planets : plays[p] <= 1 \/ p \in redrawn
=============================================================================

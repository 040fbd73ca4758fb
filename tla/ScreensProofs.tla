----------------------------- MODULE ScreensProofs -----------------------------
(***************************************************************************)
(* What holds of the way to a lesson and in it: of the journey screens for *)
(* a course of any length, any number of blocks per planet and any view,   *)
(* of the lesson chat for every set of turns and tasks and any number of   *)
(* visits and conversations, of the deck of flashcards for any cards and   *)
(* any number of reviews, and of these beside the account's components.    *)
(***************************************************************************)
EXTENDS MCScreens, AccountProofs, FiniteSetTheorems, SequenceTheorems,
        NaturalsInduction, WellFoundedInduction, TLAPS

(***************************************************************************)
(* The journey: the inductive invariant                                    *)
(***************************************************************************)

Overviews ==
  [screen : {"overview"}, card : Planets \cup {NoPlanet}, blocksOpen : BOOLEAN,
   fullMap : BOOLEAN, celebrating : Planets \cup {NoPlanet}]
Carousels == [screen : {"planet"}, page : Planets, busy : BOOLEAN]
Lists == {NoList} \cup [Planets -> {"locked", "in_progress", "review", "conquered"}]

\* The state of a screen is that of the screen which is on.
LocalIsOfScreen ==
  /\ OnScreen = "overview" => local \in Overviews
  /\ OnScreen = "planet" => local \in Carousels
  /\ OnScreen \notin {"overview", "planet"} => local = Bare

\* What a list shows open is open: lists are old, and planets are never locked again.
OpenIn(list) ==
  list # NoList => \A p \in Planets : list[p] # "locked" => ~PlanetLocked(p)
CardIsOpen ==
  local \in Overviews /\ local.card # NoPlanet => ~PlanetLocked(local.card)

\* What has been celebrated, or is, is on the device.
CelebratedIsSeen ==
  /\ \A p \in Planets : plays[p] = 0 \/ p \in seen
  /\ local \in Overviews /\ local.celebrating # NoPlanet => local.celebrating \in seen

\* An overlay that is wanted, is not drawn and was not taken away is yet to play.
UndrawnHasNotPlayed ==
  local \in Overviews /\ DrawnOn = Nowhere /\ local.celebrating # NoPlanet
    /\ local.celebrating \notin redrawn => plays[local.celebrating] = 0

JourneyInv == /\ JourneyTypeOK /\ LocalIsOfScreen
        /\ OpenIn(listed) /\ CardIsOpen
        /\ CelebratedIsSeen /\ UndrawnHasNotPlayed /\ OneCelebrationPerUnlock
        /\ OpensNothingLocked

(***************************************************************************)
(* Lemmas                                                                  *)
(***************************************************************************)

LEMMA MinIsMember ==
  ASSUME NEW S, S \subseteq Nat, S # {}
  PROVE  Min(S) \in S
PROOF
  <1>1. \E x \in S : \A y \in S : ~(<< y, x >> \in OpToRel(<, Nat))
    BY NatLessThanWellFounded, WFMin
  <1>2. PICK x \in S : \A y \in S : ~(<< y, x >> \in OpToRel(<, Nat))
    BY <1>1
  <1>3. ASSUME NEW y \in S PROVE x =< y
    <2>1. CASE y < x
      <3>1. << y, x >> \in OpToRel(<, Nat)
        BY <2>1 DEF OpToRel
      <3> QED
        BY <1>2, <3>1
    <2> QED
      BY <2>1
  <1>4. \E z \in S : \A y \in S : z =< y
    BY <1>3
  <1> QED
    BY <1>4 DEF Min

LEMMA ModulesAreCounted ==
  /\ EachModule \in Nat \ {0} /\ (0 .. EachModule) \subseteq Nat /\ BlocksEach \in Nat \ {0} /\ LastPlanet \in Nat \ {0}
  /\ 1 \in Planets /\ Planets \subseteq Nat \ {0}
PROOF
  BY JourneyBounds DEF EachModule, Planets

\* A planet's moments only go on, and what they have opened stays open.
LEMMA StaysOpen ==
  ASSUME NEW block \in Blocks, NEW at \in Nat, NEW later \in Nat, at <= later
  PROVE  /\ BlockState(block, at) # "locked" => BlockState(block, later) # "locked"
         /\ BlockState(block, at) \in {"flashcards_pending", "completed"}
              => BlockState(block, later) \in {"flashcards_pending", "completed"}
PROOF
  <1>1. PICK before \in Int : before = 2 * (block[2] - 1)
    BY JourneyBounds DEF Blocks, Planets
  <1>2. \A m : BlockState(block, m) = CASE m < before -> "locked"
                                        [] m = before -> "current"
                                        [] m = before + 1 -> "flashcards_pending"
                                        [] OTHER -> "completed"
    BY <1>1 DEF BlockState
  <1> QED
    BY <1>1, <1>2

LEMMA NoBlockIsNone ==
  NoBlock \notin Blocks /\ NoPlanet \notin Planets
PROOF
  BY DEF NoBlock, NoPlanet, Blocks, Planets

\* The block a button of the planet offers is one of its blocks, and open.
LEMMA NextIsOpen ==
  ASSUME NEW p \in Planets, NEW at, NextBlock(p, at) # NoBlock
  PROVE  /\ NextBlock(p, at) \in Blocks /\ NextBlock(p, at)[1] = p /\ at # Missing
         /\ BlockState(NextBlock(p, at), at) \in {"current", "flashcards_pending"}
PROOF
  <1> DEFINE next == {b \in 1 .. BlocksEach : at # Missing
                        /\ BlockState(<< p, b >>, at) \in {"current", "flashcards_pending"}}
  <1>1. next # {} /\ NextBlock(p, at) = << p, Min(next) >>
    BY DEF NextBlock
  <1>2. Min(next) \in next
    <2>1. next \subseteq Nat
      BY JourneyBounds
    <2> QED
      BY <1>1, <2>1, MinIsMember
  <1> QED
    BY <1>1, <1>2 DEF Blocks

LEMMA LastIsDone ==
  ASSUME NEW p \in Planets, NEW at \in Nat, AllDone(at)
  PROVE  << p, BlocksEach >> \in Blocks /\ BlockState(<< p, BlocksEach >>, at) = "completed"
PROOF
  <1>1. at = 2 * BlocksEach /\ BlocksEach \in Nat \ {0}
    BY JourneyBounds DEF AllDone, EachModule
  <1>2. BlockState(<< p, BlocksEach >>, at) = "completed"
    BY <1>1 DEF BlockState
  <1> QED
    BY <1>1, <1>2 DEF Blocks

\* The active planet of a list is one the server has open.
LEMMA ActiveIsOpen ==
  ASSUME NEW list \in Lists, OpenIn(list)
  PROVE  /\ ActiveOf(list) \in Planets \cup {NoPlanet}
         /\ ActiveOf(list) # NoPlanet => ~PlanetLocked(ActiveOf(list))
PROOF
  <1> DEFINE open == {p \in Planets : list[p] \in {"in_progress", "review"}}
  <1>1. open # {} => Min(open) \in open
    <2>1. open \subseteq Nat
      BY JourneyBounds DEF Planets
    <2> QED
      BY <2>1, MinIsMember
  <1>2. 1 \in Planets /\ ~PlanetLocked(1)
    BY ModulesAreCounted DEF PlanetLocked
  <1>3. CASE list = NoList
    BY <1>3 DEF ActiveOf
  <1>4. CASE list # NoList /\ open = {}
    BY <1>2, <1>4 DEF ActiveOf
  <1>5. CASE list # NoList /\ open # {}
    <2>1. ActiveOf(list) = Min(open)
      BY <1>5 DEF ActiveOf
    <2>2. PICK m \in Planets : m = Min(open) /\ list[m] \in {"in_progress", "review"}
      BY <1>1, <1>5
    <2>3. ~PlanetLocked(m)
      BY <1>5, <2>2 DEF OpenIn
    <2> QED
      BY <2>1, <2>2, <2>3
  <1> QED
    BY <1>3, <1>4, <1>5

\* What a planet has behind it opens the next one for good.
LEMMA OpenForGood ==
  ASSUME done \in [Planets -> 0 .. EachModule], NEW q \in Planets, NEW n \in Nat,
         done[q] + n <= EachModule, done' = [done EXCEPT ![q] = @ + n]
  PROVE  /\ done' \in [Planets -> 0 .. EachModule]
         /\ \A p \in Planets : done[p] <= done'[p]
         /\ \A p \in Planets : ~PlanetLocked(p) => ~PlanetLocked(p)'
PROOF
  <1>1. done' \in [Planets -> 0 .. EachModule] /\ \A p \in Planets : done[p] <= done'[p]
    BY ModulesAreCounted
  <1>2. ASSUME NEW p \in Planets, ~PlanetLocked(p) PROVE ~PlanetLocked(p)'
    <2>1. CASE p > 1
      <3>1. p - 1 \in Planets
        BY <2>1, ModulesAreCounted DEF Planets
      <3>2. done[p - 1] = EachModule
        BY <1>2, <2>1 DEF PlanetLocked, AllDone
      <3>3. done'[p - 1] = EachModule
        BY <1>1, <3>1, <3>2, ModulesAreCounted
      <3> QED
        BY <3>3 DEF PlanetLocked, AllDone
    <2>2. CASE ~(p > 1)
      BY <2>2 DEF PlanetLocked
    <2> QED
      BY <2>1, <2>2
  <1> QED
    BY <1>1, <1>2

(***************************************************************************)
(* Parts of steps                                                          *)
(***************************************************************************)

CelebrationsOK ==
  /\ seen \subseteq Planets /\ plays \in [Planets -> 0 .. ManyPlays] /\ redrawn \subseteq Planets
  /\ CelebratedIsSeen /\ UndrawnHasNotPlayed /\ OneCelebrationPerUnlock

LEMMA PlaceIsOfPlanet ==
  ASSUME NEW overview, NEW list
  PROVE  LET place == Place(overview, list)
         IN  \/ place = Nowhere
             \/ /\ overview.celebrating \in Planets /\ place # Nowhere
                /\ place[1] = overview.celebrating
PROOF
  <1>1. VisibleOf(overview, list) \subseteq Planets
    BY DEF VisibleOf
  <1>2. NoPlanet \notin Planets
    BY NoBlockIsNone
  <1> QED
    BY <1>1, <1>2 DEF Place, Nowhere

\* Drawing an overlay that was wanted before, or is of a planet that never played.
LEMMA DrawsOnce ==
  ASSUME NEW overview \in Overviews, NEW list, CelebrationsOK, Draws(overview, list),
         listed' = list, local \in Overviews \cup Carousels \cup {Bare},
         seen \subseteq seen', seen' \subseteq Planets,
         overview.celebrating # NoPlanet =>
           \/ local \in Overviews /\ local.celebrating = overview.celebrating
           \/ overview.celebrating \in seen' /\ plays[overview.celebrating] = 0
  PROVE  CelebrationsOK' /\ local' = overview
PROOF
  <1> DEFINE c == overview.celebrating
             place == Place(overview, list)
             goes == DrawnOn # place /\ DrawnOn # Nowhere /\ DrawnOn[1] = c
  <1>1. /\ local' = overview
        /\ plays' = IF place \in {Nowhere, DrawnOn} THEN plays
                    ELSE [plays EXCEPT ![place[1]] = IF @ < ManyPlays THEN @ + 1 ELSE @]
        /\ redrawn' = IF goes THEN redrawn \cup {c} ELSE redrawn
    BY DEF Draws
  <1>2. c \in Planets \cup {NoPlanet} /\ overview.screen = "overview"
    BY DEF Overviews
  <1>3. DrawnOn' = place
    BY <1>1, <1>2 DEF DrawnOn
  <1>4. place = Nowhere \/ (place # Nowhere /\ c \in Planets /\ place[1] = c)
    BY PlaceIsOfPlanet
  <1>5. DrawnOn = Nowhere \/ (local \in Overviews /\ local.celebrating \in Planets
                               /\ DrawnOn[1] = local.celebrating)
    <2>1. CASE local \in Overviews
      <3>1. DrawnOn = Place(local, listed)
        BY <2>1 DEF DrawnOn, Overviews
      <3> QED
        BY <2>1, <3>1, PlaceIsOfPlanet
    <2>2. CASE local \in Carousels \cup {Bare}
      BY <2>2 DEF DrawnOn, Carousels, Bare
    <2> QED
      BY <2>1, <2>2
  <1>6. /\ seen \subseteq Planets /\ plays \in [Planets -> 0 .. ManyPlays]
        /\ redrawn \subseteq Planets
        /\ CelebratedIsSeen /\ UndrawnHasNotPlayed /\ OneCelebrationPerUnlock
    BY DEF CelebrationsOK
  <1>7. c # NoPlanet => c \in seen'
    BY <1>6 DEF CelebratedIsSeen
  <1>8. redrawn' \subseteq Planets /\ redrawn \subseteq redrawn'
    <2>1. CASE goes
      BY <1>1, <1>2, <1>5, <1>6, <2>1, NoBlockIsNone DEF Nowhere
    <2>2. CASE ~goes
      BY <1>1, <1>6, <2>2
    <2> QED
      BY <2>1, <2>2
  <1> HIDE DEF c, place, goes
  <1>9. CASE place \in {Nowhere, DrawnOn}
    <2>1. plays' = plays
      BY <1>1, <1>9
    <2>2. CelebratedIsSeen'
      BY <1>1, <1>6, <1>7, <2>1 DEF CelebratedIsSeen, c
    <2>3. OneCelebrationPerUnlock'
      BY <1>6, <1>8, <2>1 DEF OneCelebrationPerUnlock
    <2>4. ASSUME place = Nowhere, c # NoPlanet, c \notin redrawn' PROVE plays[c] = 0
      <3>1. CASE local \in Overviews /\ local.celebrating = c
        <4>1. DrawnOn = Nowhere
          BY <1>1, <1>5, <2>4, <3>1 DEF goes
        <4>2. c \notin redrawn
          BY <1>8, <2>4
        <4> QED
          BY <1>6, <2>4, <3>1, <4>1, <4>2 DEF UndrawnHasNotPlayed
      <3>2. CASE ~(local \in Overviews /\ local.celebrating = c)
        BY <2>4, <3>2 DEF c
      <3> QED
        BY <3>1, <3>2
    <2>5. UndrawnHasNotPlayed'
      BY <1>1, <1>3, <2>1, <2>4 DEF UndrawnHasNotPlayed, c
    <2> QED
      BY <1>1, <1>6, <1>8, <2>1, <2>2, <2>3, <2>5 DEF CelebrationsOK
  <1>10. CASE place \notin {Nowhere, DrawnOn}
    <2>1. c \in Planets /\ place[1] = c /\ c # NoPlanet
      BY <1>4, <1>10, NoBlockIsNone
    <2>2. plays' = [plays EXCEPT ![c] = IF @ < ManyPlays THEN @ + 1 ELSE @]
      BY <1>1, <1>10, <2>1
    <2>3. plays' \in [Planets -> 0 .. ManyPlays]
      BY <1>6, <2>1, <2>2 DEF ManyPlays
    <2>4. plays[c] = 0 \/ c \in redrawn'
      <3>1. CASE local \in Overviews /\ local.celebrating = c /\ DrawnOn = Nowhere
        BY <1>6, <1>8, <2>1, <3>1 DEF UndrawnHasNotPlayed
      <3>2. CASE local \in Overviews /\ local.celebrating = c /\ DrawnOn # Nowhere
        <4>1. goes
          BY <1>5, <1>10, <3>2 DEF goes
        <4> QED
          BY <1>1, <4>1
      <3>3. CASE ~(local \in Overviews /\ local.celebrating = c)
        BY <2>1, <3>3 DEF c
      <3> QED
        BY <3>1, <3>2, <3>3
    <2>5. \A p \in Planets : p # c => plays'[p] = plays[p]
      BY <1>6, <2>2
    <2>6. plays'[c] = IF plays[c] < ManyPlays THEN plays[c] + 1 ELSE plays[c]
      BY <1>6, <2>1, <2>2
    <2>7. OneCelebrationPerUnlock'
      BY <1>6, <1>8, <2>4, <2>5, <2>6 DEF OneCelebrationPerUnlock, ManyPlays
    <2>8. CelebratedIsSeen'
      BY <1>1, <1>6, <1>7, <2>1, <2>5 DEF CelebratedIsSeen, c
    <2>9. UndrawnHasNotPlayed'
      BY <1>3, <1>10 DEF UndrawnHasNotPlayed
    <2> QED
      BY <1>1, <1>8, <2>3, <2>7, <2>8, <2>9 DEF CelebrationsOK
  <1> QED
    BY <1>9, <1>10

\* The overview's effects celebrate a planet that was not seen, and mark it seen; the
\* card goes to a planet that is open.
LEMMA EffectsCelebrateOnce ==
  ASSUME NEW overview \in Overviews, NEW list \in Lists, CelebrationsOK,
         AfterEffects(overview, list), listed' = list,
         local \in Overviews \cup Carousels \cup {Bare},
         overview.celebrating # NoPlanet =>
           local \in Overviews /\ local.celebrating = overview.celebrating,
         OpenIn(list), overview.card # NoPlanet => ~PlanetLocked(overview.card),
         done' = done
  PROVE  CelebrationsOK' /\ local' \in Overviews /\ CardIsOpen'
PROOF
  <1>0. seen \subseteq Planets /\ CelebratedIsSeen
    BY DEF CelebrationsOK
  <1>1. CASE list = NoList
    <2>1. Draws(overview, list) /\ seen' = seen
      BY <1>1 DEF AfterEffects
    <2>2. CelebrationsOK' /\ local' = overview
      BY <1>0, <2>1, DrawsOnce
    <2> QED
      BY <2>2 DEF CardIsOpen, PlanetLocked
  <1>2. CASE list # NoList
    <2>1. PICK new : new = NewlyOpen(list, seen)
      OBVIOUS
    <2>2. new \subseteq Planets /\ new \cap seen = {}
      BY <2>1 DEF NewlyOpen
    <2>3. PICK card : card = IF overview.card = NoPlanet THEN ActiveOf(list) ELSE overview.card
      OBVIOUS
    <2>4. card \in Planets \cup {NoPlanet} /\ (card # NoPlanet => ~PlanetLocked(card))
      BY <2>3, ActiveIsOpen DEF Overviews
    <2>5. new # {} => Min(new) \in new
      <3>1. new \subseteq Nat
        BY <2>2, JourneyBounds DEF Planets
      <3> QED
        BY <3>1, MinIsMember
    <2>6. PICK c : c = IF new = {} THEN overview.celebrating ELSE Min(new)
      OBVIOUS
    <2>7. c \in Planets \cup {NoPlanet}
      BY <2>2, <2>5, <2>6 DEF Overviews
    <2>8. PICK after : after = [overview EXCEPT !.card = card, !.celebrating = c]
      OBVIOUS
    <2>9. Draws(after, list) /\ seen' = seen \cup new
      BY <1>2, <2>1, <2>3, <2>6, <2>8 DEF AfterEffects, PersistCelebrated
    <2>10. after \in Overviews /\ after.celebrating = c /\ after.card = card
      BY <2>4, <2>7, <2>8 DEF Overviews
    <2>11. CASE new = {}
      <3>1. c = overview.celebrating
        BY <2>6, <2>11
      <3>2. CelebrationsOK' /\ local' = after
        BY <1>0, <2>9, <2>10, <2>11, <3>1, DrawsOnce
      <3> QED
        BY <2>4, <2>10, <3>2 DEF CardIsOpen, PlanetLocked
    <2>12. CASE new # {}
      <3>1. c \in new /\ plays[c] = 0
        BY <1>0, <2>2, <2>5, <2>6, <2>12 DEF CelebratedIsSeen
      <3>2. CelebrationsOK' /\ local' = after
        BY <1>0, <2>2, <2>9, <2>10, <3>1, DrawsOnce
      <3> QED
        BY <2>4, <2>10, <3>2 DEF CardIsOpen, PlanetLocked
    <2> QED
      BY <2>11, <2>12
  <1> QED
    BY <1>1, <1>2

JourneyScreenOK ==
  /\ activeTab \in Tabs /\ selectedPlanetId \in Planets \cup {NoPlanet}
  /\ lessonIntro \in Blocks \cup {NoBlock}
  /\ local \in {Bare} \cup Overviews \cup Carousels
  /\ LocalIsOfScreen /\ CardIsOpen

ServerOK == done \in [Planets -> 0 .. EachModule] /\ listed \in Lists /\ OpenIn(listed)

\* A screen that is no overview draws no overlay.
LEMMA NoOverviewNoOverlay ==
  ASSUME CelebrationsOK, UNCHANGED << seen, plays, redrawn >>, local' \in Carousels \cup {Bare}
  PROVE  CelebrationsOK' /\ CardIsOpen'
PROOF
  <1>1. local' \notin Overviews
    BY DEF Carousels, Overviews, Bare
  <1> QED
    BY <1>1 DEF CelebrationsOK, CelebratedIsSeen, UndrawnHasNotPlayed, OneCelebrationPerUnlock,
                CardIsOpen

\* What is drawn depends on the screen and the list alone.
LEMMA SameOverlay ==
  ASSUME CelebrationsOK, UNCHANGED << seen, plays, redrawn, local, listed >>
  PROVE  CelebrationsOK'
PROOF
  <1>1. DrawnOn' = DrawnOn
    BY DEF DrawnOn
  <1> QED
    BY <1>1 DEF CelebrationsOK, CelebratedIsSeen, UndrawnHasNotPlayed, OneCelebrationPerUnlock

\* Whatever screen comes on, it starts with a state of its kind.
LEMMA ShowKeeps ==
  ASSUME ServerOK, JourneyScreenOK, CelebrationsOK,
         NEW tab \in Tabs, NEW selected \in Planets \cup {NoPlanet},
         NEW intro \in Blocks \cup {NoBlock}, Show(tab, selected, intro)
  PROVE  /\ ServerOK' /\ JourneyScreenOK' /\ CelebrationsOK'
         /\ done' = done /\ lessonIntro' = intro
PROOF
  <1>1. /\ activeTab' = tab /\ selectedPlanetId' = selected /\ lessonIntro' = intro
        /\ UNCHANGED << done, listed >>
    BY DEF Show
  <1>2. PICK new : new = ScreenOf(tab, selected, intro)
    OBVIOUS
  <1>3. OnScreen' = new
    BY <1>1, <1>2 DEF OnScreen
  <1>4. ServerOK'
    BY <1>1 DEF ServerOK, OpenIn, PlanetLocked
  <1>5. /\ local' \in {Bare} \cup Overviews \cup Carousels
        /\ LocalIsOfScreen' /\ CardIsOpen' /\ CelebrationsOK'
    <2>1. CASE new = OnScreen
      <3>1. UNCHANGED << local, seen, plays, redrawn >>
        BY <1>2, <2>1 DEF Show
      <3>2. CelebrationsOK'
        BY <1>1, <3>1, SameOverlay
      <3> QED
        BY <1>1, <1>3, <2>1, <3>1, <3>2
        DEF JourneyScreenOK, LocalIsOfScreen, CardIsOpen, PlanetLocked
    <2>2. CASE new # OnScreen /\ new = "overview"
      <3>1. AfterEffects(NewOverview, listed)
        BY <1>2, <2>2 DEF Show
      <3>2. /\ NewOverview \in Overviews
            /\ NewOverview.celebrating = NoPlanet /\ NewOverview.card = NoPlanet
        BY DEF NewOverview, Overviews
      <3>3. CelebrationsOK' /\ local' \in Overviews /\ CardIsOpen'
        BY <1>1, <3>1, <3>2, EffectsCelebrateOnce DEF ServerOK, JourneyScreenOK
      <3> QED
        BY <1>3, <2>2, <3>3 DEF LocalIsOfScreen
    <2>3. CASE new # OnScreen /\ new = "planet"
      <3>1. local' = NewCarousel(selected, listed) /\ UNCHANGED << seen, plays, redrawn >>
        BY <1>2, <2>3 DEF Show
      <3>2. selected \in Planets
        BY <1>2, <2>3, JourneyTabs DEF ScreenOf
      <3>3. 1 \in Planets
        BY JourneyBounds DEF Planets
      <3>4. local' \in Carousels
        BY <3>1, <3>2, <3>3 DEF NewCarousel, Carousels
      <3> QED
        BY <1>3, <2>3, <3>1, <3>4, NoOverviewNoOverlay DEF LocalIsOfScreen
    <2>4. CASE new # OnScreen /\ new \notin {"overview", "planet"}
      <3>1. local' = Bare /\ UNCHANGED << seen, plays, redrawn >>
        BY <1>2, <2>4 DEF Show
      <3> QED
        BY <1>3, <2>4, <3>1, NoOverviewNoOverlay DEF LocalIsOfScreen
    <2> QED
      BY <2>1, <2>2, <2>3, <2>4
  <1> QED
    BY <1>1, <1>4, <1>5 DEF JourneyScreenOK

DeckOK == deckOpened \in Blocks \cup {NoBlock} /\ byRow \in BOOLEAN

LEMMA JourneyParts ==
  JourneyInv <=> ServerOK /\ JourneyScreenOK /\ CelebrationsOK /\ DeckOK /\ OpensNothingLocked
PROOF
  BY DEF JourneyInv, JourneyTypeOK, ServerOK, JourneyScreenOK, CelebrationsOK, DeckOK, Lists,
     Overviews, Carousels

LEMMA JourneyPartsNext ==
  JourneyInv' <=> ServerOK' /\ JourneyScreenOK' /\ CelebrationsOK' /\ DeckOK' /\ OpensNothingLocked'
PROOF
  BY DEF JourneyInv, JourneyTypeOK, ServerOK, JourneyScreenOK, CelebrationsOK, DeckOK, Lists,
     Overviews, Carousels

LEMMA NavigationKeeps ==
  ASSUME JourneyInv, NEW tab \in Tabs, NEW selected \in Planets \cup {NoPlanet},
         NEW intro \in Blocks \cup {NoBlock}, NEW opened \in Blocks \cup {NoBlock},
         NEW row \in BOOLEAN,
         Show(tab, selected, intro), deckOpened' = opened, byRow' = row,
         intro # NoBlock => /\ BlockState(intro, done[intro[1]]) # "locked"
                            /\ PlanetLocked(intro[1]) => row,
         opened # NoBlock =>
           /\ BlockState(opened, done[opened[1]]) \in {"flashcards_pending", "completed"}
           /\ PlanetLocked(opened[1]) => row
  PROVE  JourneyInv'
PROOF
  <1>1. /\ ServerOK' /\ JourneyScreenOK' /\ CelebrationsOK'
        /\ done' = done /\ lessonIntro' = intro
    BY JourneyParts, ShowKeeps
  <1>2. OpensNothingLocked'
    BY <1>1 DEF OpensNothingLocked, BlockState, PlanetLocked
  <1>3. DeckOK'
    BY DEF DeckOK
  <1> QED
    BY <1>1, <1>2, <1>3, JourneyPartsNext

\* Every screen but the intro shows no intro.
LEMMA IntroIsItsScreen ==
  ASSUME OnScreen # "intro"
  PROVE  lessonIntro = NoBlock
PROOF
  BY DEF OnScreen, ScreenOf

\* Going to a tab, opening or closing a planet: no block is opened.
LEMMA PlainNavigation ==
  ASSUME JourneyInv, NEW tab \in Tabs, NEW selected \in Planets \cup {NoPlanet},
         \/ Goes(tab, selected, lessonIntro) /\ OnScreen # "intro"
         \/ Goes(tab, selected, NoBlock)
  PROVE  JourneyInv'
PROOF
  <1>1. Show(tab, selected, NoBlock) /\ deckOpened' = NoBlock /\ byRow' = FALSE
    BY IntroIsItsScreen DEF Goes
  <1> QED
    BY <1>1, NavigationKeeps

\* A block that any earlier answer showed open is opened where the server has it open.
LEMMA OpeningKeeps ==
  ASSUME JourneyInv, OnScreen # "intro", NEW block \in Blocks, NEW at \in Cached(block[1]),
         at # Missing, BlockState(block, at) # "locked", NEW row \in BOOLEAN,
         PlanetLocked(block[1]) => row, OpenBlock(block, at, row)
  PROVE  JourneyInv'
PROOF
  <1>1. /\ done \in [Planets -> 0 .. EachModule] /\ activeTab \in Tabs
        /\ selectedPlanetId \in Planets \cup {NoPlanet} /\ lessonIntro = NoBlock
    BY IntroIsItsScreen DEF JourneyInv, JourneyTypeOK
  <1>2. block[1] \in Planets
    BY DEF Blocks
  <1>a. done[block[1]] \in 0 .. EachModule
    BY <1>1, <1>2
  <1>b. done[block[1]] \in Nat
    BY <1>a, ModulesAreCounted
  <1>3. done[block[1]] \in Nat /\ at \in Nat /\ at <= done[block[1]]
    BY <1>b DEF Cached
  <1>4. byRow' = row
    BY DEF OpenBlock
  <1>5. CASE BlockState(block, at) = "flashcards_pending"
    <2>1. BlockState(block, done[block[1]]) \in {"flashcards_pending", "completed"}
      BY <1>3, <1>5, StaysOpen
    <2>2. Show("flashcards", selectedPlanetId, NoBlock) /\ deckOpened' = block
      BY <1>1, <1>5 DEF OpenBlock, ReviewModule
    <2>3. "flashcards" \in Tabs
      BY JourneyTabs
    <2> QED
      BY <1>1, <1>4, <2>1, <2>2, <2>3, NavigationKeeps
  <1>6. CASE BlockState(block, at) # "flashcards_pending"
    <2>1. BlockState(block, done[block[1]]) # "locked"
      BY <1>3, StaysOpen
    <2>2. Show(activeTab, selectedPlanetId, block) /\ deckOpened' = NoBlock
      BY <1>6 DEF OpenBlock, BeginLesson
    <2> QED
      BY <1>1, <1>4, <2>1, <2>2, NavigationKeeps
  <1> QED
    BY <1>5, <1>6

\* What moves on the screen that is on, and opens nothing.
LEMMA LocalKeeps ==
  ASSUME JourneyInv, OnScreen # "intro",
         deckOpened' = NoBlock, byRow' = FALSE,
         UNCHANGED << done, listed, activeTab, selectedPlanetId, lessonIntro >>,
         OnScreen = "overview" => local' \in Overviews,
         OnScreen = "planet" => local' \in Carousels,
         OnScreen \in {"overview", "planet"},
         CardIsOpen', CelebrationsOK'
  PROVE  JourneyInv'
PROOF
  <1>1. OnScreen' = OnScreen
    BY DEF OnScreen
  <1>2. ServerOK'
    BY JourneyParts DEF ServerOK, OpenIn, PlanetLocked
  <1>3. DeckOK' /\ OpensNothingLocked'
    BY IntroIsItsScreen DEF DeckOK, OpensNothingLocked
  <1>4. JourneyScreenOK'
    BY <1>1, JourneyParts DEF JourneyScreenOK, LocalIsOfScreen
  <1> QED
    BY <1>2, <1>3, <1>4, JourneyPartsNext

\* What moves on the overview: its card only to an open planet, its overlay never to a
\* planet that was not wanted.
LEMMA OverviewKeeps ==
  ASSUME JourneyInv, NEW f \in Overviews, Overview(f),
         f.card # NoPlanet => ~PlanetLocked(f.card),
         f.celebrating \in {local.celebrating, NoPlanet}
  PROVE  JourneyInv'
PROOF
  <1>1. /\ OnScreen = "overview" /\ Draws(f, listed)
        /\ deckOpened' = NoBlock /\ byRow' = FALSE
        /\ UNCHANGED << done, listed, activeTab, selectedPlanetId, lessonIntro, seen >>
    BY DEF Overview
  <1>2. local \in Overviews /\ CelebrationsOK /\ seen \subseteq Planets
    BY <1>1, JourneyParts DEF JourneyInv, LocalIsOfScreen, CelebrationsOK
  <1>3. CelebrationsOK' /\ local' = f
    BY <1>1, <1>2, DrawsOnce
  <1>4. CardIsOpen'
    BY <1>1, <1>3 DEF CardIsOpen, PlanetLocked
  <1> QED
    BY <1>1, <1>3, <1>4, LocalKeeps

(***************************************************************************)
(* The steps                                                               *)
(***************************************************************************)

LEMMA JourneyBegins ==
  JourneyInit => JourneyInv
PROOF
  <1> SUFFICES ASSUME JourneyInit PROVE JourneyInv
    OBVIOUS
  <1>1. plays \in [Planets -> 0 .. ManyPlays] /\ \A p \in Planets : plays[p] = 0
    BY DEF JourneyInit, ManyPlays
  <1>2. JourneyTypeOK
    BY <1>1, JourneyTabs, NoBlockIsNone DEF JourneyInit, JourneyTypeOK
  <1>3. OnScreen = "home"
    BY DEF JourneyInit, OnScreen, ScreenOf
  <1>4. local = Bare /\ local \notin Overviews
    BY DEF JourneyInit, Bare, Overviews
  <1>5. LocalIsOfScreen /\ OpenIn(listed) /\ CardIsOpen /\ OpensNothingLocked
    BY <1>3, <1>4 DEF JourneyInit, LocalIsOfScreen, OpenIn, CardIsOpen, OpensNothingLocked
  <1>6. CelebratedIsSeen /\ UndrawnHasNotPlayed /\ OneCelebrationPerUnlock
    BY <1>1, <1>4 DEF CelebratedIsSeen, UndrawnHasNotPlayed, OneCelebrationPerUnlock
  <1> QED
    BY <1>2, <1>5, <1>6 DEF JourneyInv

\* Taps that go somewhere, from Home and from the tab bar.
LEMMA HomeSteps ==
  ASSUME JourneyInv,
         \/ ContinueLearning \/ SeeAll
         \/ \E tab \in Tabs : HomeShortcut(tab) \/ TapTab(tab)
  PROVE  JourneyInv'
PROOF
  <1>1. /\ selectedPlanetId \in Planets \cup {NoPlanet} /\ activeTab \in Tabs
        /\ ActivePlanet \in Planets \cup {NoPlanet}
        /\ ActivePlanet # NoPlanet => ~PlanetLocked(ActivePlanet)
    BY JourneyParts, ActiveIsOpen DEF JourneyInv, JourneyTypeOK, ServerOK, ActivePlanet
  <1>2. CASE ContinueLearning
    <2>1. ActivePlanet \in Planets /\ OnScreen # "intro" /\ ~PlanetLocked(ActivePlanet)
      BY <1>1, <1>2 DEF ContinueLearning
    <2>2. PICK at \in Cached(ActivePlanet) :
            IF NextBlock(ActivePlanet, at) # NoBlock
            THEN OpenBlock(NextBlock(ActivePlanet, at), at, FALSE) ELSE OpenPlanet(ActivePlanet)
      BY <1>2 DEF ContinueLearning
    <2>3. CASE NextBlock(ActivePlanet, at) # NoBlock
      <3>1. PICK block \in Blocks :
              /\ block = NextBlock(ActivePlanet, at) /\ block[1] = ActivePlanet /\ at # Missing
              /\ BlockState(block, at) \in {"current", "flashcards_pending"}
        BY <2>1, <2>3, NextIsOpen
      <3>2. OpenBlock(block, at, FALSE) /\ at \in Cached(block[1]) /\ ~PlanetLocked(block[1])
        BY <2>1, <2>2, <2>3, <3>1
      <3> QED
        BY <2>1, <3>1, <3>2, OpeningKeeps
    <2>4. CASE NextBlock(ActivePlanet, at) = NoBlock
      BY <1>1, <2>1, <2>2, <2>4, PlainNavigation DEF OpenPlanet
    <2> QED
      BY <2>3, <2>4
  <1>3. CASE SeeAll
    BY <1>1, <1>3, PlainNavigation DEF SeeAll, OpenPlanet
  <1>4. ASSUME NEW tab \in Tabs, HomeShortcut(tab) \/ TapTab(tab) PROVE JourneyInv'
    BY <1>1, <1>4, PlainNavigation DEF HomeShortcut, TapTab, SetTab
  <1> QED
    BY <1>2, <1>3, <1>4

LEMMA OverviewSteps ==
  ASSUME JourneyInv,
         \/ \E p \in Planets : MoveCard(p)
         \/ ToggleBlocks \/ ToggleMap \/ CelebrationDone
         \/ \E block \in Blocks : TapCardBlock(block)
  PROVE  JourneyInv'
PROOF
  <1>1. /\ OnScreen = "overview" => local \in Overviews
        /\ CardIsOpen /\ OpenIn(listed)
    BY DEF JourneyInv, LocalIsOfScreen
  <1>2. ASSUME NEW p \in Planets, MoveCard(p) PROVE JourneyInv'
    <2>1. PICK f : f = [local EXCEPT !.card = p, !.blocksOpen = TRUE]
      OBVIOUS
    <2>2. f \in Overviews /\ f.card = p /\ f.celebrating = local.celebrating
      BY <1>1, <1>2, <2>1 DEF MoveCard, Overviews
    <2>3. ~PlanetLocked(p)
      BY <1>1, <1>2 DEF MoveCard, OpenIn, ListLoaded, LockedListed
    <2>4. Overview(f)
      BY <1>2, <2>1 DEF MoveCard
    <2> QED
      BY <2>2, <2>3, <2>4, OverviewKeeps
  <1>3. CASE ToggleBlocks
    <2>1. PICK f : f = [local EXCEPT !.blocksOpen = ~@]
      OBVIOUS
    <2>2. Overview(f) /\ local \in Overviews
      BY <1>1, <1>3, <2>1 DEF ToggleBlocks
    <2>3. f \in Overviews /\ f.card = local.card /\ f.celebrating = local.celebrating
      BY <2>1, <2>2 DEF Overviews
    <2>4. f.card # NoPlanet => ~PlanetLocked(f.card)
      BY <1>1, <2>2, <2>3 DEF CardIsOpen
    <2> QED
      BY <2>2, <2>3, <2>4, OverviewKeeps
  <1>4. CASE ToggleMap
    <2>1. PICK f : f = [local EXCEPT !.fullMap = ~@]
      OBVIOUS
    <2>2. Overview(f) /\ local \in Overviews
      BY <1>1, <1>4, <2>1 DEF ToggleMap
    <2>3. f \in Overviews /\ f.card = local.card /\ f.celebrating = local.celebrating
      BY <2>1, <2>2 DEF Overviews
    <2>4. f.card # NoPlanet => ~PlanetLocked(f.card)
      BY <1>1, <2>2, <2>3 DEF CardIsOpen
    <2> QED
      BY <2>2, <2>3, <2>4, OverviewKeeps
  <1>5. CASE CelebrationDone
    <2>1. PICK f : f = [local EXCEPT !.celebrating = NoPlanet]
      OBVIOUS
    <2>2. Overview(f) /\ local \in Overviews
      BY <1>1, <1>5, <2>1 DEF CelebrationDone
    <2>3. f \in Overviews /\ f.card = local.card /\ f.celebrating = NoPlanet
      BY <2>1, <2>2 DEF Overviews
    <2>4. f.card # NoPlanet => ~PlanetLocked(f.card)
      BY <1>1, <2>2, <2>3 DEF CardIsOpen
    <2> QED
      BY <2>2, <2>3, <2>4, OverviewKeeps
  <1>6. ASSUME NEW block \in Blocks, TapCardBlock(block) PROVE JourneyInv'
    <2>1. /\ OnScreen = "overview" /\ block[1] = local.card /\ block[1] \in Planets
      BY <1>6 DEF TapCardBlock, Blocks
    <2>2. ~PlanetLocked(block[1])
      BY <1>1, <2>1, NoBlockIsNone DEF CardIsOpen
    <2>3. PICK at \in Cached(block[1]) : Tappable(block, at) /\ OpenBlock(block, at, FALSE)
      BY <1>6 DEF TapCardBlock
    <2> QED
      BY <2>1, <2>2, <2>3, OpeningKeeps DEF Tappable
  <1> QED
    BY <1>2, <1>3, <1>4, <1>5, <1>6

LEMMA PlanetSteps ==
  ASSUME JourneyInv,
         \/ ClosePlanet
         \/ \E p \in Planets : GoTo(p) \/ MomentumEnds(p)
         \/ \E block \in Blocks : TapPlanetBlock(block)
         \/ TapContinue
  PROVE  JourneyInv'
PROOF
  <1>1. /\ OnScreen = "planet" => local \in Carousels
        /\ activeTab \in Tabs /\ OpenIn(listed)
    BY DEF JourneyInv, LocalIsOfScreen, JourneyTypeOK
  <1>2. CASE ClosePlanet
    BY <1>1, <1>2, PlainNavigation DEF ClosePlanet
  <1>3. ASSUME NEW p \in Planets, GoTo(p) \/ MomentumEnds(p) PROVE JourneyInv'
    <2>1. PICK busy \in BOOLEAN : OnScreen = "planet" /\ Carousel(p, busy)
      BY <1>3 DEF GoTo, MomentumEnds
    <2>2. [local EXCEPT !.page = p, !.busy = busy] \in Carousels
      BY <1>1, <2>1 DEF Carousels
    <2>3. CelebrationsOK' /\ CardIsOpen'
      BY <2>1, <2>2, JourneyParts, NoOverviewNoOverlay DEF Carousel
    <2> QED
      BY <2>1, <2>2, <2>3, LocalKeeps DEF Carousel
  <1>4. ASSUME NEW block \in Blocks, TapPlanetBlock(block) PROVE JourneyInv'
    <2>1. PICK at \in Cached(block[1]) : Tappable(block, at) /\ OpenBlock(block, at, TRUE)
      BY <1>4 DEF TapPlanetBlock
    <2>2. OnScreen # "intro"
      BY <1>4 DEF TapPlanetBlock
    <2> QED
      BY <2>1, <2>2, OpeningKeeps DEF Tappable
  <1>5. CASE TapContinue
    <2>1. PICK p \in Planets : p = local.page
      BY <1>1, <1>5 DEF TapContinue, Carousels
    <2>2. PICK at \in Cached(p) :
            ContinueReady(p, at) /\ OpenBlock(ContinueTarget(p, at), at, FALSE)
      BY <1>5, <2>1 DEF TapContinue
    <2>3. at # Missing /\ OnScreen # "intro" /\ ~PlanetLocked(p)
      BY <1>1, <1>5, <2>2 DEF ContinueReady, TapContinue, OpenIn, ListLoaded, LockedListed
    <2>4. CASE NextBlock(p, at) # NoBlock
      <3>1. PICK block \in Blocks :
              /\ block = NextBlock(p, at) /\ block[1] = p
              /\ BlockState(block, at) \in {"current", "flashcards_pending"}
        BY <2>4, NextIsOpen
      <3>2. OpenBlock(block, at, FALSE)
        BY <2>2, <2>4, <3>1 DEF ContinueTarget
      <3> QED
        BY <2>2, <2>3, <3>1, <3>2, OpeningKeeps
    <2>5. CASE NextBlock(p, at) = NoBlock
      <3>1. AllDone(at) /\ OpenBlock(<< p, BlocksEach >>, at, FALSE)
        BY <2>2, <2>5 DEF ContinueReady, ContinueTarget
      <3>2. at \in Nat
        BY <3>1, ModulesAreCounted DEF AllDone
      <3>3. PICK block \in Blocks :
              /\ block = << p, BlocksEach >> /\ block[1] = p
              /\ BlockState(block, at) = "completed"
        BY <3>1, <3>2, LastIsDone
      <3> QED
        BY <2>2, <2>3, <3>1, <3>3, OpeningKeeps
    <2> QED
      BY <2>4, <2>5
  <1> QED
    BY <1>2, <1>3, <1>4, <1>5

LEMMA LessonSteps ==
  ASSUME JourneyInv,
         \/ \E block \in Blocks : TapListedLesson(block)
         \/ ConfirmIntro
         \/ \E tab \in Tabs : CancelIntro(tab)
  PROVE  JourneyInv'
PROOF
  <1>1. selectedPlanetId \in Planets \cup {NoPlanet} /\ "chat" \in Tabs /\ OpenIn(listed)
    BY JourneyTabs DEF JourneyInv, JourneyTypeOK
  <1>2. ASSUME NEW block \in Blocks, TapListedLesson(block) PROVE JourneyInv'
    <2>1. block[1] \in Planets /\ OnScreen # "intro" /\ ListLoaded /\ ~LockedListed(block[1])
      BY <1>2 DEF TapListedLesson, Blocks
    <2>2. ~PlanetLocked(block[1])
      BY <1>1, <2>1 DEF OpenIn, ListLoaded, LockedListed
    <2>3. PICK at \in Cached(block[1]) : Tappable(block, at) /\ OpenBlock(block, at, FALSE)
      BY <1>2 DEF TapListedLesson
    <2> QED
      BY <2>1, <2>2, <2>3, OpeningKeeps DEF Tappable
  <1>3. CASE ConfirmIntro
    BY <1>1, <1>3, PlainNavigation DEF ConfirmIntro
  <1>4. ASSUME NEW tab \in Tabs, CancelIntro(tab) PROVE JourneyInv'
    BY <1>1, <1>4, PlainNavigation DEF CancelIntro
  <1> QED
    BY <1>2, <1>3, <1>4

LEMMA AdvanceKeeps ==
  ASSUME JourneyInv, NEW q \in Planets, NEW n \in 1 .. 2, LearnerAdvances(q, n)
  PROVE  JourneyInv'
PROOF
  <1>1. /\ done \in [Planets -> 0 .. EachModule] /\ n \in Nat /\ done[q] + n <= EachModule
        /\ done' = [done EXCEPT ![q] = @ + n]
    BY DEF LearnerAdvances, JourneyInv, JourneyTypeOK
  <1>2. UNCHANGED << listed, activeTab, selectedPlanetId, lessonIntro, deckOpened, local, seen,
                     plays, redrawn, byRow >>
    BY DEF LearnerAdvances
  <1>3. /\ done' \in [Planets -> 0 .. EachModule]
        /\ \A p \in Planets : done[p] <= done'[p]
        /\ \A p \in Planets : ~PlanetLocked(p) => ~PlanetLocked(p)'
    BY <1>1, OpenForGood
  <1>4. ServerOK'
    BY <1>2, <1>3, JourneyParts DEF ServerOK, OpenIn
  <1>5. CardIsOpen'
    BY <1>2, <1>3 DEF JourneyInv, CardIsOpen, Overviews
  <1>6. JourneyScreenOK' /\ DeckOK'
    BY <1>2, <1>5, JourneyParts DEF JourneyScreenOK, LocalIsOfScreen, OnScreen, DeckOK
  <1>7. CelebrationsOK'
    BY <1>2, JourneyParts, SameOverlay
  <1>8. ASSUME NEW block \in Blocks
        PROVE  /\ BlockState(block, done[block[1]]) # "locked"
                    => BlockState(block, done[block[1]])' # "locked"
               /\ BlockState(block, done[block[1]]) \in {"flashcards_pending", "completed"}
                    => BlockState(block, done[block[1]])' \in {"flashcards_pending", "completed"}
               /\ PlanetLocked(block[1])' => PlanetLocked(block[1])
    <2>a. block[1] \in Planets
      BY DEF Blocks
    <2>b. done[block[1]] \in 0 .. EachModule /\ done'[block[1]] \in 0 .. EachModule
      BY <1>1, <1>3, <2>a
    <2>1. PICK at \in Nat : at = done[block[1]]
      BY <2>b, ModulesAreCounted
    <2>2. PICK later \in Nat : later = done'[block[1]]
      BY <2>b, ModulesAreCounted
    <2>3. at <= later
      BY <1>3, <2>1, <2>2 DEF Blocks
    <2>4. BlockState(block, done[block[1]])' = BlockState(block, later)
      BY <2>2 DEF BlockState
    <2>5. PlanetLocked(block[1])' => PlanetLocked(block[1])
      BY <1>3 DEF Blocks
    <2> QED
      BY <2>1, <2>3, <2>4, <2>5, StaysOpen
  <1>9. /\ lessonIntro \in Blocks \cup {NoBlock} /\ deckOpened \in Blocks \cup {NoBlock}
        /\ OpensNothingLocked
    BY DEF JourneyInv, JourneyTypeOK
  <1>10. ASSUME lessonIntro' # NoBlock
         PROVE  /\ BlockState(lessonIntro, done[lessonIntro[1]])' # "locked"
                /\ PlanetLocked(lessonIntro[1])' => byRow'
    <2>1. PICK block \in Blocks : block = lessonIntro
      BY <1>2, <1>9, <1>10
    <2>2. block = lessonIntro'
      BY <1>2, <2>1
    <2>3. /\ BlockState(block, done[block[1]]) # "locked"
          /\ PlanetLocked(block[1]) => byRow
      BY <1>2, <1>9, <1>10, <2>1 DEF OpensNothingLocked
    <2>4. /\ BlockState(block, done[block[1]])' # "locked"
          /\ PlanetLocked(block[1])' => byRow'
      BY <1>2, <1>8, <2>3
    <2> QED
      BY <2>2, <2>4 DEF BlockState, PlanetLocked
  <1>11. ASSUME deckOpened' # NoBlock
         PROVE  /\ BlockState(deckOpened, done[deckOpened[1]])'
                     \in {"flashcards_pending", "completed"}
                /\ PlanetLocked(deckOpened[1])' => byRow'
    <2>1. PICK block \in Blocks : block = deckOpened
      BY <1>2, <1>9, <1>11
    <2>2. block = deckOpened'
      BY <1>2, <2>1
    <2>3. /\ BlockState(block, done[block[1]]) \in {"flashcards_pending", "completed"}
          /\ PlanetLocked(block[1]) => byRow
      BY <1>2, <1>9, <1>11, <2>1 DEF OpensNothingLocked
    <2>4. /\ BlockState(block, done[block[1]])' \in {"flashcards_pending", "completed"}
          /\ PlanetLocked(block[1])' => byRow'
      BY <1>2, <1>8, <2>3
    <2> QED
      BY <2>2, <2>4 DEF BlockState, PlanetLocked
  <1>12. OpensNothingLocked'
    BY <1>10, <1>11 DEF OpensNothingLocked
  <1> QED
    BY <1>4, <1>6, <1>7, <1>12, JourneyPartsNext

LEMMA ListKeeps ==
  ASSUME JourneyInv, ListArrives
  PROVE  JourneyInv'
PROOF
  <1>1. PICK weak \in [Planets -> BOOLEAN] : listed' = [p \in Planets |-> PlanetState(p, weak[p])]
    BY DEF ListArrives
  <1>2. UNCHANGED << done, activeTab, selectedPlanetId, lessonIntro, deckOpened, byRow >>
    BY DEF ListArrives
  <1>3. PICK list : list = listed'
    OBVIOUS
  <1>4. list \in Lists /\ OpenIn(list)
    <2>1. \A p \in Planets : PlanetState(p, weak[p]) \in {"locked", "in_progress", "review", "conquered"}
      BY DEF PlanetState
    <2>2. \A p \in Planets : PlanetState(p, weak[p]) # "locked" => ~PlanetLocked(p)
      BY DEF PlanetState
    <2> QED
      BY <1>1, <1>3, <2>1, <2>2 DEF Lists, OpenIn
  <1>5. ServerOK'
    BY <1>2, <1>3, <1>4, JourneyParts DEF ServerOK, OpenIn, PlanetLocked
  <1>6. OnScreen' = OnScreen
    BY <1>2 DEF OnScreen
  <1>7. /\ local' \in {Bare} \cup Overviews \cup Carousels
        /\ LocalIsOfScreen' /\ CardIsOpen' /\ CelebrationsOK'
    <2>1. CASE OnScreen = "overview"
      <3>1. AfterEffects(local, list)
        BY <1>3, <2>1 DEF ListArrives
      <3>2. /\ local \in Overviews /\ CelebrationsOK
            /\ local.card # NoPlanet => ~PlanetLocked(local.card)
        BY <2>1, JourneyParts DEF JourneyInv, LocalIsOfScreen, CardIsOpen
      <3>3. CelebrationsOK' /\ local' \in Overviews /\ CardIsOpen'
        BY <1>2, <1>3, <1>4, <3>1, <3>2, EffectsCelebrateOnce
      <3> QED
        BY <1>6, <2>1, <3>3 DEF LocalIsOfScreen
    <2>2. CASE OnScreen = "planet"
      <3>1. /\ local' = IF ListLoaded THEN local ELSE [local EXCEPT !.page = selectedPlanetId]
            /\ UNCHANGED << seen, plays, redrawn >>
        BY <2>2 DEF ListArrives
      <3>2. local \in Carousels /\ CelebrationsOK
        BY <2>2, JourneyParts DEF JourneyInv, LocalIsOfScreen
      <3>3. selectedPlanetId \in Planets
        BY <2>2, JourneyTabs DEF OnScreen, ScreenOf, JourneyInv, JourneyTypeOK
      <3>4. local' \in Carousels
        BY <3>1, <3>2, <3>3 DEF Carousels
      <3> QED
        BY <1>6, <2>2, <3>1, <3>2, <3>4, NoOverviewNoOverlay DEF LocalIsOfScreen
    <2>3. CASE OnScreen \notin {"overview", "planet"}
      <3>1. UNCHANGED << local, seen, plays, redrawn >> /\ local = Bare
        BY <2>3 DEF ListArrives, JourneyInv, LocalIsOfScreen
      <3> QED
        BY <1>6, <2>3, <3>1, JourneyParts, NoOverviewNoOverlay DEF LocalIsOfScreen
    <2> QED
      BY <2>1, <2>2, <2>3
  <1>8. OpensNothingLocked'
    BY <1>2 DEF JourneyInv, OpensNothingLocked, BlockState, PlanetLocked
  <1>9. JourneyScreenOK' /\ DeckOK'
    BY <1>2, <1>7, JourneyParts DEF JourneyScreenOK, DeckOK
  <1> QED
    BY <1>5, <1>7, <1>8, <1>9, JourneyPartsNext

LEMMA ServerSteps ==
  ASSUME JourneyInv,
         \/ \E p \in Planets, n \in 1 .. 2 : LearnerAdvances(p, n)
         \/ ListArrives \/ ColdStart
         \/ UNCHANGED journeyVars
  PROVE  JourneyInv'
PROOF
  <1>1. ASSUME NEW p \in Planets, NEW n \in 1 .. 2, LearnerAdvances(p, n) PROVE JourneyInv'
    BY <1>1, AdvanceKeeps
  <1>2. CASE ListArrives
    BY <1>2, ListKeeps
  <1>3. CASE ColdStart
    <2>1. local' = Bare /\ UNCHANGED << done, seen, plays, redrawn >> /\ listed' = NoList
      BY <1>3 DEF ColdStart
    <2>2. OnScreen' = "home"
      BY <1>3 DEF ColdStart, OnScreen, ScreenOf
    <2>3. CelebrationsOK' /\ CardIsOpen'
      BY <2>1, JourneyParts, NoOverviewNoOverlay
    <2>4. ServerOK'
      BY <2>1, JourneyParts DEF ServerOK, Lists, OpenIn
    <2>5. JourneyScreenOK' /\ DeckOK' /\ OpensNothingLocked'
      BY <1>3, <2>2, <2>3, JourneyTabs
      DEF ColdStart, JourneyScreenOK, LocalIsOfScreen, DeckOK, OpensNothingLocked
    <2> QED
      BY <2>3, <2>4, <2>5, JourneyPartsNext
  <1>4. CASE UNCHANGED journeyVars
    <2>1. UNCHANGED << done, listed, activeTab, selectedPlanetId, lessonIntro, deckOpened, local,
                       seen, plays, redrawn, byRow >>
      BY <1>4 DEF journeyVars
    <2>2. CelebrationsOK'
      BY <2>1, JourneyParts, SameOverlay
    <2>3. ServerOK'
      BY <2>1, JourneyParts DEF ServerOK, OpenIn, PlanetLocked
    <2>4. JourneyScreenOK' /\ DeckOK'
      BY <2>1, JourneyParts
      DEF JourneyScreenOK, LocalIsOfScreen, OnScreen, CardIsOpen, PlanetLocked, DeckOK
    <2>5. OpensNothingLocked'
      BY <2>1 DEF JourneyInv, OpensNothingLocked, BlockState, PlanetLocked
    <2> QED
      BY <2>2, <2>3, <2>4, <2>5, JourneyPartsNext
  <1> QED
    BY <1>1, <1>2, <1>3, <1>4

(***************************************************************************)
(* The journey: the theorems                                               *)
(***************************************************************************)

LEMMA JourneyInvariance ==
  JourneySpec => []JourneyInv
PROOF
  <1>1. JourneyInit => JourneyInv
    BY JourneyBegins
  <1>2. ASSUME JourneyInv, [JourneyNext]_journeyVars PROVE JourneyInv'
    BY <1>2, HomeSteps, OverviewSteps, PlanetSteps, LessonSteps, ServerSteps DEF JourneyNext
  <1>3. JourneyInv /\ [JourneyNext]_journeyVars => JourneyInv'
    BY <1>2
  <1> QED
    BY <1>1, <1>3, PTL DEF JourneySpec

\* Every variable keeps its type, on every screen, for a course of any length.
THEOREM JourneyTyped ==
  JourneySpec => []JourneyTypeOK
PROOF
  BY JourneyInvariance, PTL DEF JourneyInv

\* A planet's unlock plays once at most, whatever is remounted, refetched or restarted,
\* unless its overlay went while it played: the ids are on the device before that.
THEOREM CelebratesOnce ==
  JourneySpec => []OneCelebrationPerUnlock
PROOF
  BY JourneyInvariance, PTL DEF JourneyInv

\* No tap, on a screen as old as it may be, opens a block before its turn in its planet,
\* and none but a row of the planet screen opens a block of a locked planet.
THEOREM NothingLockedOpens ==
  JourneySpec => []OpensNothingLocked
PROOF
  BY JourneyInvariance, PTL DEF JourneyInv

(***************************************************************************)
(* The chat: the inductive invariant                                       *)
(***************************************************************************)

TaskRecords == [awaits : {"nothing", "conversation", "stop", "session"},
                why : {"none", "start", "draft", "correction"}, visit : 0 .. MaxVisits]

ChatScreenOK ==
  /\ visit \in 0 .. MaxVisits /\ here \in BOOLEAN
  /\ primerSeen \in BOOLEAN /\ primer \in BOOLEAN /\ draft \in BOOLEAN
  /\ page \in Pages

VoiceOK ==
  /\ withMic \in BOOLEAN
  /\ status \in {"idle", "connecting", "up", "error"}
  /\ live \subseteq 1 .. visit /\ stopping \subseteq 1 .. visit
  /\ transcript \in [Turns -> {"unsaid", "partial", "final", "gone"}]
  /\ task \in [ChatTasks -> TaskRecords]

SavingOK ==
  /\ conversation \in [1 .. MaxVisits -> 0 .. conversations]
  /\ conversations \in 0 .. MaxConversations
  /\ marked \subseteq Turns /\ doubtful \subseteq Turns /\ saves \subseteq Turns \X Conversations
  /\ calledBack \in saves \cup {NoSave}
  /\ kept \in [Turns \X Conversations -> Nat]

\* A task under way belongs to a visit there was; a screen that is there is one.
TasksOK ==
  /\ \A t \in ChatTasks :
       task[t].awaits # "nothing" => task[t].visit \in 1 .. visit /\ task[t].why # "none"
  /\ here => visit \in 1 .. MaxVisits

\* The conversation of the screen that is there, if it has one; a visit to come has none.
OwnConversation == IF here THEN conversation[visit] ELSE 0

VisitsOK == \A v \in 1 .. MaxVisits : v > visit => conversation[v] = 0

\* A turn is not on its way to a conversation that has it.
OnItsWayOnce == \A s \in saves : kept[s] = 0 \/ s[1] \in doubtful

\* The current conversation has, or will have, only turns that are marked; and once it
\* has one, the only save that can unmark a turn is one to this conversation.
Sent(n) == << n, OwnConversation >> \in saves \/ kept[<< n, OwnConversation >>] > 0

SentIsMarked ==
  OwnConversation # 0 =>
    \A n \in Turns : Sent(n) /\ n \notin doubtful =>
      n \in marked /\ (calledBack = NoSave \/ calledBack[2] = OwnConversation)

\* A conversation not created yet has nothing.
NothingAhead ==
  \A n \in Turns, c \in Conversations :
    c > conversations => << n, c >> \notin saves /\ kept[<< n, c >>] = 0

KeepingOK == OnItsWayOnce /\ SentIsMarked /\ NothingAhead /\ KeptOncePerConversation

ChatInv == ChatScreenOK /\ VoiceOK /\ SavingOK /\ TasksOK /\ VisitsOK /\ KeepingOK

LEMMA ChatBegins == ChatInit => ChatInv
PROOF
  <1> SUFFICES ASSUME ChatInit PROVE ChatInv
    OBVIOUS
  <1>1. MaxVisits \in Nat /\ MaxConversations \in Nat
    BY LessonChatBounds
  <1>2. NoTask \in TaskRecords /\ NoTask.awaits = "nothing"
    BY <1>1 DEF NoTask, TaskRecords
  <1>3. \A s \in Turns \X Conversations : kept[s] = 0
    BY DEF ChatInit
  <1>4. ChatScreenOK
    <2>1. 0 \in 0 .. MaxVisits
      BY <1>1
    <2>2. visit = 0 /\ primerSeen \in BOOLEAN /\ page = "talk"
      BY DEF ChatInit
    <2>3. here = FALSE /\ primer = FALSE /\ draft = FALSE
      BY DEF ChatInit
    <2> QED
      BY <2>1, <2>2, <2>3, Zenon DEF ChatScreenOK, Pages
  <1>5. VoiceOK /\ TasksOK
    <2>1. task \in [ChatTasks -> TaskRecords] /\ TasksOK
      BY <1>2 DEF ChatInit, TasksOK
    <2> QED
      BY <2>1 DEF ChatInit, VoiceOK
  <1>6. SavingOK /\ VisitsOK
    BY <1>1 DEF ChatInit, SavingOK, VisitsOK
  <1>7. KeepingOK
    BY <1>3 DEF ChatInit, KeepingOK, OnItsWayOnce, SentIsMarked, NothingAhead,
                KeptOncePerConversation, OwnConversation
  <1> QED
    BY <1>4, <1>5, <1>6, <1>7 DEF ChatInv

(***************************************************************************)
(* What a step keeps of the types                                          *)
(***************************************************************************)

\* One task changes.
LEMMA TaskChanges ==
  ASSUME ChatScreenOK, VoiceOK, TasksOK, NEW t \in ChatTasks, NEW new \in TaskRecords,
         new.awaits # "nothing" => new.visit \in 1 .. visit /\ new.why # "none",
         task' = [task EXCEPT ![t] = new],
         UNCHANGED << here, visit >>
  PROVE  task' \in [ChatTasks -> TaskRecords] /\ TasksOK'
PROOF
  BY DEF VoiceOK, TasksOK

LEMMA NoTaskIsTask == NoTask \in TaskRecords /\ NoTask.awaits = "nothing"
PROOF
  <1>1. 0 \in 0 .. MaxVisits
    BY LessonChatBounds
  <1> QED
    BY <1>1 DEF NoTask, TaskRecords

LEMMA ClearedIsTyped ==
  ASSUME VoiceOK
  PROVE  Cleared \in [Turns -> {"unsaid", "partial", "final", "gone"}]
PROOF
  BY DEF VoiceOK, Cleared

LEMMA TypesOutKeeps ==
  ASSUME VoiceOK, NEW n \in Turns, TypesOut(n)
  PROVE  transcript' \in [Turns -> {"unsaid", "partial", "final", "gone"}]
PROOF
  BY DEF VoiceOK, TypesOut

LEMMA OpenSessionKeeps ==
  ASSUME ChatScreenOK, VoiceOK, TasksOK, NEW t \in ChatTasks, NEW v \in 1 .. visit,
         NEW why \in {"start", "draft", "correction"}, OpenSession(t, why, v),
         UNCHANGED << here, visit >>
  PROVE  VoiceOK' /\ TasksOK'
PROOF
  <1> DEFINE new == [awaits |-> "stop", why |-> why, visit |-> v]
  <1>1. /\ new \in TaskRecords /\ new.visit \in 1 .. visit /\ new.why # "none"
        /\ task' = [task EXCEPT ![t] = new]
    BY LessonChatBounds DEF TaskRecords, OpenSession, ChatScreenOK
  <1> HIDE DEF new
  <1>2. task' \in [ChatTasks -> TaskRecords] /\ TasksOK'
    BY <1>1, TaskChanges
  <1> QED
    BY <1>2 DEF OpenSession, VoiceOK

LEMMA AfterConversationKeeps ==
  ASSUME ChatScreenOK, VoiceOK, TasksOK, NEW t \in ChatTasks, NEW v \in 1 .. visit,
         NEW n \in Turns,
         NEW why \in {"start", "draft", "correction"}, AfterConversation(t, why, v, n),
         UNCHANGED << here, visit >>
  PROVE  VoiceOK' /\ TasksOK'
PROOF
  <1>1. CASE OpenSession(t, why, v)
    BY <1>1, OpenSessionKeeps
  <1>2. CASE ~ OpenSession(t, why, v)
    <2>1. /\ task' = [task EXCEPT ![t] = NoTask]
          /\ \/ TypesOut(n) /\ UNCHANGED << status, withMic, live, stopping >>
             \/ UNCHANGED << status, withMic, live, stopping, transcript >>
      BY <1>2 DEF AfterConversation, voiceVars
    <2>2. task' \in [ChatTasks -> TaskRecords] /\ TasksOK'
      BY <2>1, TaskChanges, NoTaskIsTask
    <2>3. /\ UNCHANGED << status, withMic, live, stopping >>
          /\ transcript' \in [Turns -> {"unsaid", "partial", "final", "gone"}]
      BY <2>1, TypesOutKeeps DEF VoiceOK
    <2> QED
      BY <2>2, <2>3 DEF VoiceOK
  <1> QED
    BY <1>1, <1>2

LEMMA EnsureConversationKeeps ==
  ASSUME ChatScreenOK, VoiceOK, TasksOK, NEW t \in ChatTasks, NEW n \in Turns,
         NEW v \in 1 .. visit, NEW why \in {"start", "draft", "correction"},
         EnsureConversation(t, why, v, n), UNCHANGED << here, visit >>
  PROVE  VoiceOK' /\ TasksOK'
PROOF
  <1>2. CASE conversation[v] # 0
    BY <1>2, AfterConversationKeeps DEF EnsureConversation
  <1>3. CASE conversation[v] = 0
    <2> DEFINE new == [awaits |-> "conversation", why |-> why, visit |-> v]
    <2>1. /\ new \in TaskRecords /\ new.visit \in 1 .. visit /\ new.why # "none"
          /\ task' = [task EXCEPT ![t] = new]
          /\ UNCHANGED voiceVars
      BY <1>3, LessonChatBounds DEF TaskRecords, EnsureConversation, ChatScreenOK
    <2> HIDE DEF new
    <2>2. task' \in [ChatTasks -> TaskRecords] /\ TasksOK'
      BY <2>1, TaskChanges
    <2> QED
      BY <2>1, <2>2 DEF VoiceOK, voiceVars
  <1> QED
    BY <1>2, <1>3

LEMMA StartConversationKeeps ==
  ASSUME ChatScreenOK, VoiceOK, TasksOK, NEW t \in ChatTasks, NEW n \in Turns, here,
         StartConversation(t, n), UNCHANGED << here, visit >>
  PROVE  VoiceOK' /\ TasksOK' /\ primer' \in BOOLEAN
PROOF
  <1>0. visit \in 1 .. visit
    BY LessonChatBounds DEF TasksOK
  <1>1. CASE primerSeen
    BY <1>0, <1>1, EnsureConversationKeeps DEF StartConversation, ChatScreenOK
  <1>2. CASE ~ primerSeen
    BY <1>2 DEF StartConversation, VoiceOK, TasksOK, voiceVars
  <1> QED
    BY <1>1, <1>2

LEMMA TypesStep ==
  ASSUME ChatScreenOK, VoiceOK, TasksOK, [ChatNext]_chatVars
  PROVE  ChatScreenOK' /\ VoiceOK' /\ TasksOK'
PROOF
  <1> DEFINE Typed == ChatScreenOK' /\ VoiceOK' /\ TasksOK'
  <1>0. /\ \A t \in ChatTasks : task[t] \in TaskRecords
        /\ \A t \in ChatTasks : task[t].awaits # "nothing" =>
             task[t].visit \in 1 .. visit /\ task[t].why \in {"start", "draft", "correction"}
        /\ here => visit \in 1 .. visit
    BY LessonChatBounds DEF VoiceOK, TasksOK, TaskRecords
  <1>1. ASSUME UNCHANGED screenVars, VoiceOK', TasksOK'
        PROVE  Typed
    BY <1>1 DEF screenVars, ChatScreenOK
  <1>2. ASSUME NEW t \in ChatTasks, SessionStopped(t)
        PROVE  Typed
    <2> DEFINE new == [task[t] EXCEPT !.awaits = "session"]
    <2>1. new \in TaskRecords /\ new.visit \in 1 .. visit /\ new.why # "none"
      BY <1>0, <1>2 DEF SessionStopped, TaskRecords
    <2>2. task' = [task EXCEPT ![t] = new] /\ UNCHANGED screenVars
      BY <1>2 DEF SessionStopped
    <2> HIDE DEF new
    <2>3. task' \in [ChatTasks -> TaskRecords] /\ TasksOK'
      BY <2>1, <2>2, TaskChanges DEF screenVars
    <2>4. /\ transcript' \in [Turns -> {"unsaid", "partial", "final", "gone"}]
          /\ withMic' \in BOOLEAN /\ status' \in {"idle", "connecting", "up", "error"}
          /\ live' \subseteq 1 .. visit /\ UNCHANGED << stopping, visit >>
      BY <1>2, ClearedIsTyped DEF SessionStopped, VoiceOK, screenVars
    <2> QED
      BY <1>1, <2>2, <2>3, <2>4 DEF VoiceOK
  <1>3. ASSUME NEW t \in ChatTasks, SessionFails(t)
        PROVE  Typed
    <2>1. task' = [task EXCEPT ![t] = NoTask] /\ UNCHANGED << here, visit >>
      BY <1>3 DEF SessionFails
    <2>2. task' \in [ChatTasks -> TaskRecords] /\ TasksOK'
      BY <2>1, TaskChanges, NoTaskIsTask
    <2>3. draft' \in BOOLEAN /\ status' \in {"idle", "connecting", "up", "error"}
      BY <1>3 DEF SessionFails, ChatScreenOK, VoiceOK
    <2> QED
      BY <1>3, <2>2, <2>3 DEF SessionFails, ChatScreenOK, VoiceOK
  <1>4. ASSUME NEW t \in ChatTasks, NEW toLesson \in BOOLEAN, Enter(t, toLesson)
        PROVE  Typed
    <2>1. visit' \in 1 .. MaxVisits /\ visit' \in 0 .. MaxVisits /\ visit' \in 1 .. visit'
          /\ 1 .. visit \subseteq 1 .. visit'
      BY <1>4, LessonChatBounds DEF Enter, ChatScreenOK
    <2>3. primer' \in BOOLEAN /\ here' = TRUE /\ page' = "talk" /\ draft' = FALSE
      BY <1>4 DEF Enter
    <2>4. status' = "idle" /\ withMic' = TRUE /\ UNCHANGED << primerSeen, live, stopping, transcript >>
      BY <1>4 DEF Enter
    <2> DEFINE new == [awaits |-> "conversation", why |-> "start", visit |-> visit']
    <2>5. new \in TaskRecords /\ new.visit \in 1 .. visit' /\ new.why # "none"
      BY <2>1 DEF TaskRecords
    <2>6. task' = task \/ task' = [task EXCEPT ![t] = new]
      BY <1>4 DEF Enter
    <2> HIDE DEF new
    <2>7. task' \in [ChatTasks -> TaskRecords] /\ TasksOK'
      BY <2>1, <2>3, <2>5, <2>6 DEF VoiceOK, TasksOK
    <2>8. ChatScreenOK'
      BY <2>1, <2>3, <2>4 DEF ChatScreenOK, Pages
    <2>9. VoiceOK'
      BY <2>1, <2>4, <2>7 DEF VoiceOK
    <2> QED
      BY <2>7, <2>8, <2>9
  <1>5. ASSUME NEW t \in ChatTasks, NEW n \in Turns, SessionComesUp(t, n)
        PROVE  Typed
    <2>1. task' = [task EXCEPT ![t] = NoTask] /\ UNCHANGED screenVars
      BY <1>5 DEF SessionComesUp
    <2>2. task' \in [ChatTasks -> TaskRecords] /\ TasksOK'
      BY <2>1, TaskChanges, NoTaskIsTask DEF screenVars
    <2>3. live' \subseteq 1 .. visit /\ status' \in {"idle", "connecting", "up", "error"}
          /\ UNCHANGED << withMic, stopping, visit >>
      BY <1>0, <1>5 DEF SessionComesUp, VoiceOK, screenVars
    <2>4. transcript' \in [Turns -> {"unsaid", "partial", "final", "gone"}]
      BY <1>5, TypesOutKeeps DEF SessionComesUp, VoiceOK
    <2> QED
      BY <1>1, <2>1, <2>2, <2>3, <2>4 DEF VoiceOK
  <1>6. ASSUME NEW t \in ChatTasks, NEW n \in Turns, ConversationCreated(t, n) \/ ConversationFails(t, n)
        PROVE  Typed
    <2>1. /\ AfterConversation(t, task[t].why, task[t].visit, n) /\ UNCHANGED screenVars
          /\ task[t].awaits # "nothing"
      BY <1>6 DEF ConversationCreated, ConversationFails
    <2>2. VoiceOK' /\ TasksOK'
      BY <1>0, <2>1, AfterConversationKeeps DEF screenVars
    <2> QED
      BY <1>1, <2>1, <2>2
  <1>7. ASSUME NEW t \in ChatTasks, NEW n \in Turns, OnOrbPress(t, n) \/ OnMicPress(t, n)
        PROVE  Typed
    <2>1. here /\ UNCHANGED << visit, here, primerSeen, page, draft >>
      BY <1>7 DEF OnOrbPress, OnMicPress, Talking
    <2>2. CASE StartConversation(t, n)
      BY <2>1, <2>2, StartConversationKeeps DEF ChatScreenOK
    <2>3. CASE VoiceStop /\ UNCHANGED << primer, task, withMic, transcript >>
      BY <1>0, <2>1, <2>3 DEF VoiceStop, ChatScreenOK, VoiceOK, TasksOK
    <2> QED
      BY <1>7, <2>2, <2>3 DEF OnOrbPress, OnMicPress
  <1>8. ASSUME NEW t \in ChatTasks, NEW n \in Turns, NEW accepted \in BOOLEAN,
               AnswerPrimer(t, accepted, n)
        PROVE  Typed
    <2>1. /\ here /\ primerSeen' = TRUE /\ primer' = FALSE
          /\ UNCHANGED << visit, here, page, draft >>
          /\ EnsureConversation(t, "start", visit, n) \/ UNCHANGED << voiceVars, task >>
      BY <1>8 DEF AnswerPrimer
    <2>2. VoiceOK' /\ TasksOK'
      BY <1>0, <2>1, EnsureConversationKeeps DEF VoiceOK, TasksOK, voiceVars
    <2> QED
      BY <2>1, <2>2 DEF ChatScreenOK
  <1>9. ASSUME NEW t \in ChatTasks, NEW n \in Turns, SendDraft(t, n)
        PROVE  Typed
    <2>1. /\ here /\ draft' = FALSE /\ EnsureConversation(t, "draft", visit, n)
          /\ UNCHANGED << visit, here, primerSeen, primer, page >>
      BY <1>9 DEF SendDraft, Talking
    <2> QED
      BY <1>0, <2>1, EnsureConversationKeeps DEF ChatScreenOK
  <1>10. ASSUME NEW t \in ChatTasks, NEW n \in Turns, NEW v \in 1 .. MaxVisits,
                OnToolCall(t, v, n)
         PROVE  Typed
    <2>1. /\ v \in 1 .. visit /\ EnsureConversation(t, "correction", v, n)
          /\ UNCHANGED screenVars
      BY <1>10 DEF OnToolCall, VoiceOK
    <2>2. VoiceOK' /\ TasksOK'
      BY <2>1, EnsureConversationKeeps DEF screenVars
    <2> QED
      BY <1>1, <2>1, <2>2
  <1>11. ASSUME NEW v \in 1 .. MaxVisits, SessionEnds(v) \/ TeardownEnds(v)
         PROVE  Typed
    <2>1. /\ live' \subseteq live /\ stopping' \subseteq stopping \cup live
          /\ UNCHANGED << screenVars, withMic, transcript, task >>
          /\ status' \in {status, "error", "idle"}
      BY <1>11 DEF SessionEnds, TeardownEnds
    <2>2. /\ live' \subseteq 1 .. visit /\ stopping' \subseteq 1 .. visit
          /\ status' \in {"idle", "connecting", "up", "error"}
      BY <2>1 DEF VoiceOK
    <2> QED
      BY <2>1, <2>2 DEF ChatScreenOK, VoiceOK, TasksOK, screenVars
  <1>12. ASSUME NEW n \in Turns, TurnGrows(n)
         PROVE  Typed
    <2>1. /\ UNCHANGED << screenVars, withMic, live, stopping, task >>
          /\ status' \in {status, "up"}
      BY <1>12 DEF TurnGrows
    <2>2. transcript' \in [Turns -> {"unsaid", "partial", "final", "gone"}]
      BY <1>12 DEF TurnGrows, VoiceOK
    <2> QED
      BY <2>1, <2>2 DEF ChatScreenOK, VoiceOK, TasksOK, screenVars
  <1>13. CASE \/ PersistTurns
              \/ \E s \in saves : SaveArrives(s) \/ \E landed \in BOOLEAN : SaveFails(s, landed)
              \/ UNCHANGED chatVars
    <2>1. UNCHANGED << screenVars, voiceVars, task >>
      BY <1>13 DEF PersistTurns, SaveArrives, SaveFails, chatVars
    <2> QED
      BY <2>1 DEF ChatScreenOK, VoiceOK, TasksOK, screenVars, voiceVars
  <1>14. CASE LeaveChat
    <2>1. /\ visit \in 1 .. visit /\ UNCHANGED << visit, primerSeen, page, draft, withMic, live, task >>
          /\ stopping' = stopping \cup {visit} /\ status' = "idle" /\ transcript' = Cleared
          /\ here' = FALSE /\ primer' = FALSE
      BY <1>0, <1>14 DEF LeaveChat, VoiceStop
    <2>2. ChatScreenOK' /\ TasksOK'
      BY <2>1 DEF ChatScreenOK, TasksOK
    <2>3. VoiceOK'
      BY <2>1, ClearedIsTyped DEF VoiceOK
    <2> QED
      BY <2>2, <2>3
  <1>15. CASE NewConversation \/ Backgrounded
    <2>1. /\ UNCHANGED << screenVars, withMic, transcript, live, task >> /\ visit \in 1 .. visit
          /\ status' = "idle" /\ stopping' = stopping \cup {visit}
      BY <1>0, <1>15 DEF NewConversation, Backgrounded, Talking, VoiceStop
    <2> QED
      BY <2>1 DEF ChatScreenOK, VoiceOK, TasksOK, screenVars
  <1>16. CASE TypeDraft \/ \E to \in Pages : Turn(to)
    <2>1. /\ UNCHANGED << visit, here, primerSeen, primer, task >>
          /\ UNCHANGED voiceVars
      BY <1>16 DEF TypeDraft, Turn
    <2>2. draft' \in {draft, TRUE} /\ page' \in {page} \cup Pages
      BY <1>16 DEF TypeDraft, Turn
    <2>3. ChatScreenOK'
      BY <2>1, <2>2 DEF ChatScreenOK
    <2> QED
      BY <2>1, <2>3 DEF VoiceOK, TasksOK, voiceVars
  <1> QED
    BY <1>2, <1>3, <1>4, <1>5, <1>6, <1>7, <1>8, <1>9, <1>10, <1>11, <1>12, <1>13, <1>14, <1>15,
       <1>16 DEF ChatNext

(***************************************************************************)
(* What a step keeps of the turns                                          *)
(***************************************************************************)

\* Steps that touch no save and leave the conversation, or leave it for none or a new one.
LEMMA QuietKeeping ==
  ASSUME SavingOK, KeepingOK, UNCHANGED << saves, kept, doubtful >>,
         conversations' \in {conversations, conversations + 1}, conversations' <= MaxConversations,
         conversation' \in [1 .. MaxVisits -> 0 .. conversations'],
         calledBack' \in {calledBack, NoSave}, marked' \subseteq Turns,
         \/ OwnConversation' = OwnConversation /\ UNCHANGED << marked, calledBack >>
         \/ OwnConversation' = 0
         \/ OwnConversation' = conversations' /\ conversations' = conversations + 1
  PROVE  SavingOK' /\ KeepingOK'
PROOF
  <1>0. conversations \in Nat /\ MaxConversations \in Nat
        /\ conversations' \in 0 .. MaxConversations
    BY LessonChatBounds DEF SavingOK
  <1>1. SavingOK'
    BY <1>0 DEF SavingOK
  <1>2. OnItsWayOnce' /\ KeptOncePerConversation'
    BY DEF KeepingOK, OnItsWayOnce, KeptOncePerConversation
  <1>3. NothingAhead'
    BY <1>0 DEF KeepingOK, NothingAhead, Conversations
  <1>4. SentIsMarked'
    <2>1. CASE OwnConversation' = OwnConversation /\ UNCHANGED << marked, calledBack >>
      BY <2>1 DEF KeepingOK, SentIsMarked, Sent
    <2>2. CASE OwnConversation' = 0
      BY <2>2 DEF SentIsMarked
    <2>3. CASE OwnConversation' = conversations' /\ conversations' = conversations + 1
      <3>1. OwnConversation' \in Conversations /\ OwnConversation' > conversations
        BY <1>0, <2>3 DEF Conversations
      <3>2. \A n \in Turns : ~ Sent(n)'
        BY <1>0, <3>1 DEF KeepingOK, NothingAhead, Sent
      <3> QED
        BY <3>2 DEF SentIsMarked
    <2> QED
      BY <2>1, <2>2, <2>3
  <1> QED
    BY <1>1, <1>2, <1>3, <1>4 DEF KeepingOK

LEMMA PersistKeeping ==
  ASSUME ChatScreenOK, TasksOK, SavingOK, KeepingOK, PersistTurns
  PROVE  SavingOK' /\ KeepingOK'
PROOF
  <1> DEFINE new == Unsaved \X {OwnConversation}
  <1>1. /\ OwnConversation # 0 /\ marked' = marked \cup Unsaved /\ saves' = saves \cup new
        /\ calledBack' \in new /\ UNCHANGED << conversation, conversations, kept, doubtful >>
        /\ UNCHANGED OwnConversation /\ here
    BY DEF PersistTurns, MarkedBefore, OwnConversation, screenVars
  <1>2. /\ Unsaved \subseteq Turns /\ \A n \in Unsaved : n \notin marked
    BY DEF Unsaved
  <1>3. OwnConversation \in Conversations /\ OwnConversation <= conversations
    BY <1>1, LessonChatBounds DEF SavingOK, TasksOK, Conversations, OwnConversation
  <1>4. \A s : s \in new <=> s \in Turns \X Conversations /\ s[1] \in Unsaved /\ s[2] = OwnConversation
    BY <1>2, <1>3
  <1> HIDE DEF new
  <1>5. SavingOK'
    BY <1>1, <1>2, <1>4 DEF SavingOK
  <1>6. \A n \in Unsaved : ~ Sent(n) \/ n \in doubtful
    BY <1>1, <1>2 DEF KeepingOK, SentIsMarked
  <1>7. OnItsWayOnce' /\ KeptOncePerConversation'
    <2>1. \A s \in new : kept[s] = 0 \/ s[1] \in doubtful
      <3>1. SUFFICES ASSUME NEW s \in new, s[1] \notin doubtful
                     PROVE  kept[s] = 0
        OBVIOUS
      <3>2. s = << s[1], OwnConversation >> /\ s[1] \in Unsaved /\ kept[s] \in Nat
        BY <1>4 DEF SavingOK
      <3> QED
        BY <1>6, <3>1, <3>2 DEF Sent
    <2> QED
      BY <1>1, <2>1 DEF KeepingOK, OnItsWayOnce, KeptOncePerConversation
  <1>8. NothingAhead'
    BY <1>1, <1>3, <1>4 DEF KeepingOK, NothingAhead, Conversations, SavingOK
  <1>9. SentIsMarked'
    <2>1. calledBack'[2] = OwnConversation
      BY <1>1, <1>4
    <2>2. ASSUME NEW n \in Turns, Sent(n)', n \notin doubtful
          PROVE  n \in marked'
      <3>1. Sent(n) \/ n \in Unsaved
        BY <1>1, <1>4, <2>2 DEF Sent
      <3> QED
        BY <1>1, <2>2, <3>1 DEF KeepingOK, SentIsMarked
    <2> QED
      BY <1>1, <2>1, <2>2 DEF SentIsMarked
  <1> QED
    BY <1>5, <1>7, <1>8, <1>9 DEF KeepingOK

\* A save ends: the turn is stored, or it is not, or it is and nobody knows.
LEMMA SaveEndsKeeping ==
  ASSUME ChatScreenOK, TasksOK, SavingOK, KeepingOK, NEW s \in saves, saves' = saves \ {s},
         UNCHANGED << OwnConversation, conversation, conversations >>,
         calledBack' = IF s = calledBack THEN NoSave ELSE calledBack,
         \/ SaveArrives(s)
         \/ \E landed \in BOOLEAN : SaveFails(s, landed)
  PROVE  SavingOK' /\ KeepingOK'
PROOF
  <1>0. s \in Turns \X Conversations /\ s[1] \in Turns /\ s[2] \in Conversations
        /\ s = << s[1], s[2] >> /\ kept[s] \in Nat
    BY DEF SavingOK
  <1>1. \/ /\ kept' = [kept EXCEPT ![s] = kept[s] + 1] /\ UNCHANGED << marked, doubtful >>
        \/ /\ kept' = [kept EXCEPT ![s] = kept[s] + 1] /\ doubtful' = doubtful \cup {s[1]}
           /\ marked' = IF s = calledBack THEN marked \ {s[1]} ELSE marked
        \/ /\ UNCHANGED << kept, doubtful >>
           /\ marked' = IF s = calledBack THEN marked \ {s[1]} ELSE marked
    BY DEF SaveArrives, SaveFails
  <1>2. SavingOK'
    <2>1. kept' \in [Turns \X Conversations -> Nat]
      BY <1>0, <1>1 DEF SavingOK
    <2>2. marked' \subseteq Turns /\ doubtful' \subseteq Turns
      BY <1>0, <1>1 DEF SavingOK
    <2> QED
      BY <2>1, <2>2 DEF SavingOK
  <1>3. \A r \in Turns \X Conversations : r # s => kept'[r] = kept[r]
    BY <1>1 DEF SavingOK
  <1>4. doubtful \subseteq doubtful'
    BY <1>1
  <1>5. OnItsWayOnce'
    <2>1. saves \subseteq Turns \X Conversations
      BY DEF SavingOK
    <2> QED
      BY <1>3, <1>4, <2>1 DEF KeepingOK, OnItsWayOnce
  <1>6. KeptOncePerConversation'
    <2>1. kept'[s] <= 1 \/ s[1] \in doubtful'
      <3>1. kept[s] = 0 \/ s[1] \in doubtful
        BY DEF KeepingOK, OnItsWayOnce
      <3>2. kept'[s] \in {kept[s], kept[s] + 1}
        BY <1>0, <1>1 DEF SavingOK
      <3> QED
        BY <1>0, <1>4, <3>1, <3>2
    <2> QED
      BY <1>3, <1>4, <2>1 DEF KeepingOK, KeptOncePerConversation
  <1>7. NothingAhead'
    <2>1. ~ (s[2] > conversations)
      BY <1>0 DEF KeepingOK, NothingAhead
    <2> QED
      BY <1>0, <1>3, <2>1 DEF KeepingOK, NothingAhead
  <1>8. SentIsMarked'
    <2>1. SUFFICES ASSUME OwnConversation # 0, NEW n \in Turns, Sent(n)', n \notin doubtful'
                   PROVE  n \in marked' /\ (calledBack' = NoSave \/ calledBack'[2] = OwnConversation)
      BY DEF SentIsMarked
    <2>2. << n, OwnConversation >> \in Turns \X Conversations
      BY <2>1, LessonChatBounds DEF SavingOK, TasksOK, Conversations, OwnConversation
    <2>3. Sent(n)
      BY <1>3, <2>1, <2>2 DEF Sent
    <2>4. n \in marked /\ (calledBack = NoSave \/ calledBack[2] = OwnConversation) /\ n \notin doubtful
      BY <1>4, <2>1, <2>3 DEF KeepingOK, SentIsMarked
    <2>5. n \in marked'
      <3>1. SUFFICES ASSUME s = calledBack, n = s[1], n \notin marked'
                     PROVE  FALSE
        BY <1>1, <2>4
      <3>2. s = << n, OwnConversation >>
        <4>1. s # NoSave
          BY <1>0 DEF NoSave, Conversations
        <4> QED
          BY <1>0, <2>4, <3>1, <4>1
      <3>3. kept[s] = 0
        BY <2>4, <3>1 DEF KeepingOK, OnItsWayOnce
      <3>4. UNCHANGED << kept, doubtful >>
        BY <1>1, <2>1, <2>4, <3>1
      <3> QED
        BY <2>1, <3>2, <3>3, <3>4 DEF Sent
    <2> QED
      BY <2>4, <2>5
  <1> QED
    BY <1>2, <1>5, <1>6, <1>7, <1>8 DEF KeepingOK

LEMMA KeepingStep ==
  ASSUME ChatScreenOK, VoiceOK, TasksOK, VisitsOK, SavingOK, KeepingOK, [ChatNext]_chatVars
  PROVE  SavingOK' /\ VisitsOK' /\ KeepingOK'
PROOF
  <1> DEFINE Kept == SavingOK' /\ VisitsOK' /\ KeepingOK'
  <1>0. /\ conversations \in Nat /\ conversations <= MaxConversations /\ marked \subseteq Turns
        /\ MaxConversations \in Nat /\ MaxVisits \in Nat /\ visit \in 0 .. MaxVisits
        /\ conversation \in [1 .. MaxVisits -> 0 .. conversations]
    BY LessonChatBounds DEF SavingOK, ChatScreenOK
  <1>1. CASE UNCHANGED << conversation, conversations, savingVars, visit, here >>
    <2>1. UNCHANGED OwnConversation /\ VisitsOK'
      BY <1>1 DEF OwnConversation, VisitsOK
    <2> QED
      BY <1>0, <1>1, <2>1, QuietKeeping DEF savingVars
  <1>2. CASE PersistTurns
    <2>1. VisitsOK'
      BY <1>2 DEF PersistTurns, VisitsOK, screenVars
    <2> QED
      BY <1>2, <2>1, PersistKeeping
  <1>3. ASSUME NEW s \in saves, SaveArrives(s) \/ \E landed \in BOOLEAN : SaveFails(s, landed)
        PROVE  Kept
    <2>1. UNCHANGED << conversation, conversations, visit, here >>
      BY <1>3 DEF SaveArrives, SaveFails, screenVars
    <2>2. UNCHANGED OwnConversation /\ VisitsOK'
      BY <2>1 DEF OwnConversation, VisitsOK
    <2> QED
      BY <1>3, <2>1, <2>2, SaveEndsKeeping DEF SaveArrives, SaveFails
  <1>4. ASSUME NEW t \in ChatTasks, NEW toLesson \in BOOLEAN, Enter(t, toLesson)
        PROVE  Kept
    <2>1. /\ visit' = visit + 1 /\ visit' \in 1 .. MaxVisits /\ visit' > visit /\ here'
          /\ UNCHANGED << conversation, conversations, saves, kept, doubtful >>
          /\ marked' = {} /\ calledBack' = NoSave
      BY <1>0, <1>4 DEF Enter
    <2>2. OwnConversation' = 0
      BY <2>1 DEF OwnConversation, VisitsOK
    <2>3. VisitsOK'
      BY <1>0, <2>1 DEF VisitsOK
    <2> QED
      BY <1>0, <2>1, <2>2, <2>3, QuietKeeping
  <1>5. CASE LeaveChat
    <2>1. /\ UNCHANGED << visit, conversation, conversations, saves, kept, doubtful >>
          /\ marked' = {} /\ calledBack' = NoSave /\ here' = FALSE
      BY <1>5 DEF LeaveChat
    <2>2. OwnConversation' = 0 /\ VisitsOK'
      BY <2>1 DEF OwnConversation, VisitsOK
    <2> QED
      BY <1>0, <2>1, <2>2, QuietKeeping
  <1>6. CASE NewConversation
    <2>1. /\ UNCHANGED << visit, here, conversations, saves, calledBack, kept, doubtful >>
          /\ marked' = {} /\ conversation' = [conversation EXCEPT ![visit] = 0] /\ here
      BY <1>6 DEF NewConversation, Talking, screenVars
    <2>2. visit \in 1 .. MaxVisits
      BY <2>1 DEF TasksOK
    <2>3. OwnConversation' = 0 /\ VisitsOK' /\ conversation' \in [1 .. MaxVisits -> 0 .. conversations]
      BY <1>0, <2>1, <2>2 DEF OwnConversation, VisitsOK
    <2> QED
      BY <1>0, <2>1, <2>3, QuietKeeping
  <1>7. ASSUME NEW t \in ChatTasks, NEW n \in Turns, ConversationCreated(t, n)
        PROVE  Kept
    <2>1. /\ conversations < MaxConversations /\ conversations' = conversations + 1
          /\ conversation' = [conversation EXCEPT ![task[t].visit] = conversations']
          /\ task[t].awaits = "conversation" /\ UNCHANGED << savingVars, visit, here >>
      BY <1>7 DEF ConversationCreated, screenVars
    <2>2. task[t].visit \in 1 .. visit /\ task[t].visit \in 1 .. MaxVisits
      BY <1>0, <2>1 DEF TasksOK
    <2>3. conversations' <= MaxConversations /\ conversations' \in 0 .. conversations'
          /\ 0 .. conversations \subseteq 0 .. conversations'
      BY <1>0, <2>1
    <2>4. conversation' \in [1 .. MaxVisits -> 0 .. conversations']
      BY <1>0, <2>1, <2>2, <2>3
    <2>5. VisitsOK'
      BY <1>0, <2>1, <2>2 DEF VisitsOK
    <2>6. OwnConversation' = OwnConversation \/ OwnConversation' = conversations'
      <3>1. here => visit \in 1 .. MaxVisits
        BY DEF TasksOK
      <3> QED
        BY <1>0, <2>1, <2>2, <3>1 DEF OwnConversation
    <2> QED
      BY <1>0, <2>1, <2>3, <2>4, <2>5, <2>6, QuietKeeping DEF savingVars
  <1> QED
    BY <1>1, <1>2, <1>3, <1>4, <1>5, <1>6, <1>7
       DEF ChatNext, SessionStopped, SessionFails, SessionComesUp, ConversationFails, OnOrbPress,
           OnMicPress, AnswerPrimer, SendDraft, OnToolCall, SessionEnds, TeardownEnds,
           Backgrounded, TurnGrows, TypeDraft, Turn, chatVars, screenVars

LEMMA ChatInvariance == ChatSpec => []ChatInv
PROOF
  <1>1. ChatInit => ChatInv
    BY ChatBegins
  <1>2. ChatInv /\ [ChatNext]_chatVars => ChatInv'
    BY TypesStep, KeepingStep DEF ChatInv
  <1> QED
    BY <1>1, <1>2, PTL DEF ChatSpec

\* The screen, the voice hook's state and the bookkeeping of the turns are always of their
\* kind, whatever a visit that is over still awaits (ChatScreen.tsx).
THEOREM ChatTyped == ChatSpec => []ChatTypeOK
PROOF
  <1>1. ChatInv => ChatTypeOK
    <2> SUFFICES ASSUME ChatInv PROVE ChatTypeOK
      OBVIOUS
    <2>1. 1 .. visit \subseteq 1 .. MaxVisits
      BY LessonChatBounds DEF ChatInv, ChatScreenOK
    <2>2. live \cup stopping \subseteq 1 .. MaxVisits
      BY <2>1 DEF ChatInv, VoiceOK
    <2> QED
      BY <2>2 DEF ChatInv, ChatTypeOK, ChatScreenOK, VoiceOK, SavingOK, TaskRecords
  <1> QED
    BY <1>1, ChatInvariance, PTL

\* However renders, failures, new conversations and visits follow on one another, no
\* conversation holds a turn twice unless a save that seemed to fail had stored it: a turn
\* is marked before it is sent and unmarked only by the save it is on its way with
\* (persistedMessagesRef).
THEOREM TurnsKeptOnce == ChatSpec => []KeptOncePerConversation
PROOF
  <1>1. ChatInv => KeptOncePerConversation
    BY DEF ChatInv, KeepingOK
  <1> QED
    BY <1>1, ChatInvariance, PTL

(***************************************************************************)
(* The deck: the inductive invariant                                       *)
(***************************************************************************)

OnceEach(list) == \A i, j \in DOMAIN list : list[i] = list[j] => i = j

DueNow == ToSet(dueOnServer)
StillListed == ToSet(dueListed)

\* What is listed and still due is in the server's order, ahead of what came since.
OrderOK ==
  /\ OnceEach(dueOnServer) /\ OnceEach(dueListed)
  /\ \A c \in StillListed \cap DueNow : \A d \in DueNow :
       (d \notin StillListed \/ Sooner(dueListed, c, d)) => Sooner(dueOnServer, c, d)

\* A card whose review has been served is not due.
ServedOK ==
  \A r \in Reviews : review[r] # NoReview /\ review[r].served => review[r].card \notin DueNow

\* While it is listed, the rated card parts the deck in two.
PartsDeck ==
  /\ refetch /\ rated.card \in DueDeck
  /\ rated.before = CardsBefore(rated.card) /\ rated.after = CardsAfter(rated.card)

\* Afterwards nothing has come, and what was before it is ahead of what was after.
PartsRest ==
  /\ DueNow \subseteq StillListed
  /\ \A c, d \in DueDeck :
       /\ c \in rated.before /\ d \notin rated.before => Sooner(dueListed, c, d)
       /\ c \in rated.after /\ d \notin rated.before \cup rated.after
            => Sooner(dueListed, c, d)

RatedOK ==
  rated # Nothing =>
    /\ rated.card \notin DueNow
    /\ rated.before \cap rated.after = {}
    /\ rated.after # {} => Cardinality(rated.before) = index
    /\ rated.card \in StillListed => PartsDeck
    /\ rated.card \notin StillListed => PartsRest

DeckInv == DeckTypeOK /\ OrderOK /\ ServedOK /\ RatedOK

(***************************************************************************)
(* Lists in which a card is once                                           *)
(***************************************************************************)

\* Sooner is a strict order of the cards of a list, and a total one.
LEMMA SoonerIsOrder ==
  ASSUME NEW S, NEW list \in Seq(S), OnceEach(list), NEW c, NEW d
  PROVE  /\ Sooner(list, c, d) => c \in ToSet(list) /\ d \in ToSet(list) /\ c # d
         /\ Sooner(list, c, d) => ~ Sooner(list, d, c)
         /\ c \in ToSet(list) /\ d \in ToSet(list) /\ c # d
              => Sooner(list, c, d) \/ Sooner(list, d, c)
         /\ \A e : Sooner(list, c, d) /\ Sooner(list, d, e) => Sooner(list, c, e)
<1>1. DOMAIN list = 1 .. Len(list) /\ Len(list) \in Nat
  BY LenProperties
<1> QED
  BY <1>1 DEF Sooner, OnceEach, ToSet

\* A card put at the end comes after every other.
LEMMA AppendedComesLast ==
  ASSUME NEW S, NEW list \in Seq(S), OnceEach(list), NEW c \in S, c \notin ToSet(list)
  PROVE  /\ Append(list, c) \in Seq(S) /\ OnceEach(Append(list, c))
         /\ ToSet(Append(list, c)) = ToSet(list) \cup {c}
         /\ \A d, e : Sooner(Append(list, c), d, e)
                        <=> Sooner(list, d, e) \/ (d \in ToSet(list) /\ e = c)
<1> DEFINE new == Append(list, c)
           n == Len(list)
<1>1. n \in Nat /\ DOMAIN list = 1 .. n
  BY LenProperties
<1>2. /\ new \in Seq(S) /\ Len(new) = n + 1
      /\ \A i \in 1 .. n : new[i] = list[i]
      /\ new[n + 1] = c
  BY AppendProperties
<1>3. DOMAIN new = 1 .. n + 1
  BY <1>2, LenProperties
<1> HIDE DEF new, n
<1>4. \A i \in 1 .. n : list[i] # c
  BY <1>1 DEF ToSet
<1>5. \A i \in 1 .. n + 1 : i \in 1 .. n \/ i = n + 1
  BY <1>1
<1>6. 1 .. n \subseteq 1 .. n + 1 /\ n + 1 \in 1 .. n + 1 /\ \A i \in 1 .. n : i < n + 1
  BY <1>1
<1>7. OnceEach(new)
  BY <1>1, <1>2, <1>3, <1>4, <1>5 DEF OnceEach
<1>8. ToSet(new) = ToSet(list) \cup {c}
  BY <1>1, <1>2, <1>3, <1>5, <1>6 DEF ToSet
<1>9. ASSUME NEW d, NEW e
      PROVE  Sooner(new, d, e) <=> Sooner(list, d, e) \/ (d \in ToSet(list) /\ e = c)
  <2>1. ASSUME Sooner(new, d, e)
        PROVE  Sooner(list, d, e) \/ (d \in ToSet(list) /\ e = c)
    <3>1. PICK i, j \in 1 .. n + 1 : i < j /\ new[i] = d /\ new[j] = e
      BY <2>1, <1>3 DEF Sooner
    <3>2. i \in 1 .. n
      BY <3>1, <1>1, <1>5
    <3> QED
      <4>1. CASE j \in 1 .. n
        <5>1. i < j /\ list[i] = d /\ list[j] = e
          BY <3>1, <3>2, <4>1, <1>2
        <5> QED
          BY <5>1, <3>2, <4>1, <1>1 DEF Sooner
      <4>2. CASE j = n + 1
        BY <3>1, <3>2, <4>2, <1>1, <1>2 DEF ToSet
      <4> QED
        BY <4>1, <4>2, <1>5
  <2>2. ASSUME Sooner(list, d, e)
        PROVE  Sooner(new, d, e)
    BY <2>2, <1>1, <1>2, <1>3, <1>6 DEF Sooner
  <2>3. ASSUME d \in ToSet(list), e = c
        PROVE  Sooner(new, d, e)
    BY <2>3, <1>1, <1>2, <1>3, <1>6 DEF Sooner, ToSet
  <2> QED
    BY <2>1, <2>2, <2>3
<1> QED
  BY <1>2, <1>7, <1>8, <1>9 DEF new

\* A card taken out leaves the others as they were.
LEMMA WithoutKeepsOrder ==
  ASSUME NEW S, NEW list \in Seq(S), OnceEach(list), NEW c
  PROVE  /\ Without(list, c) \in Seq(S) /\ OnceEach(Without(list, c))
         /\ ToSet(Without(list, c)) = ToSet(list) \ {c}
         /\ \A d, e : Sooner(Without(list, c), d, e)
                        <=> Sooner(list, d, e) /\ d # c /\ e # c
<1> DEFINE n == Len(list)
<1>1. n \in Nat /\ DOMAIN list = 1 .. n /\ \A i \in 1 .. n : list[i] \in S
  BY LenProperties
<1>2. CASE c \notin ToSet(list)
  BY <1>2, SoonerIsOrder DEF Without
<1>3. CASE c \in ToSet(list)
  <2> DEFINE k == CHOOSE i \in DOMAIN list : list[i] = c
             new == RemoveAt(list, k)
             one == SubSeq(list, 1, k - 1)
             two == SubSeq(list, k + 1, n)
             back == [i \in 1 .. n - 1 |-> IF i < k THEN i ELSE i + 1]
  <2>1. k \in 1 .. n /\ list[k] = c
    BY <1>1, <1>3 DEF ToSet
  <2>2. Without(list, c) = new
    BY <1>3 DEF Without
  <2> HIDE DEF k, n
  <2>3. one \in Seq(S) /\ Len(one) = k - 1 /\ \A i \in 1 .. k - 1 : one[i] = list[i]
    <3>1. k - 1 \in Int /\ 1 \in Int /\ \A i \in 1 .. k - 1 : list[i] \in S
      BY <2>1, <1>1
    <3>2. /\ one \in Seq(S)
          /\ Len(one) = IF 1 <= k - 1 THEN (k - 1) - 1 + 1 ELSE 0
          /\ \A i \in 1 .. (k - 1) - 1 + 1 : one[i] = list[1 + i - 1]
      BY <3>1, SubSeqProperties
    <3> HIDE DEF one
    <3> QED
      BY <3>2, <2>1, <1>1
  <2>4. two \in Seq(S) /\ Len(two) = n - k /\ \A i \in 1 .. n - k : two[i] = list[k + i]
    <3>1. k + 1 \in Int /\ n \in Int /\ \A i \in k + 1 .. n : list[i] \in S
      BY <2>1, <1>1
    <3>2. /\ two \in Seq(S)
          /\ Len(two) = IF k + 1 <= n THEN n - (k + 1) + 1 ELSE 0
          /\ \A i \in 1 .. n - (k + 1) + 1 : two[i] = list[(k + 1) + i - 1]
      BY <3>1, SubSeqProperties
    <3> HIDE DEF two
    <3>3. Len(two) = n - k
      BY <3>2, <2>1, <1>1
    <3>4. n - (k + 1) + 1 = n - k /\ \A i \in 1 .. n - k : (k + 1) + i - 1 = k + i
      BY <2>1, <1>1
    <3>5. \A i \in 1 .. n - k : two[i] = list[k + i]
      BY <3>2, <3>4
    <3> QED
      BY <3>2, <3>3, <3>5
  <2>5. new = one \o two
    BY DEF RemoveAt, n
  <2> HIDE DEF one, two, new
  <2>6. new \in Seq(S) /\ Len(new) = n - 1
    <3>1. new \in Seq(S) /\ Len(new) = Len(one) + Len(two)
      BY <2>3, <2>4, <2>5, ConcatProperties
    <3> QED
      BY <3>1, <2>1, <1>1, <2>3, <2>4
  <2>7. DOMAIN new = 1 .. n - 1
    BY <2>6, LenProperties
  <2>8. \A i \in 1 .. n - 1 : back[i] \in 1 .. n /\ back[i] # k /\ new[i] = list[back[i]]
    <3>1. \A i \in 1 .. Len(one) + Len(two) :
            new[i] = IF i <= Len(one) THEN one[i] ELSE two[i - Len(one)]
      BY <2>3, <2>4, <2>5, ConcatProperties
    <3> QED
      BY <3>1, <2>1, <1>1, <2>3, <2>4
  <2>9. \A j \in 1 .. n : j # k => \E i \in 1 .. n - 1 : back[i] = j
    <3> SUFFICES ASSUME NEW j \in 1 .. n, j # k
                 PROVE  \E i \in 1 .. n - 1 : back[i] = j
      OBVIOUS
    <3>1. CASE j < k
      BY <3>1, <2>1, <1>1
    <3>2. CASE j > k
      <4>1. j - 1 \in 1 .. n - 1 /\ back[j - 1] = j
        BY <3>2, <2>1, <1>1
      <4> QED
        BY <4>1
    <3> QED
      BY <3>1, <3>2, <2>1, <1>1
  <2>10. \A i, j \in 1 .. n - 1 : (back[i] = back[j] => i = j) /\ (i < j <=> back[i] < back[j])
    BY <2>1, <1>1
  <2>11. \A j \in 1 .. n : list[j] = c <=> j = k
    BY <2>1, <1>1 DEF OnceEach
  <2> HIDE DEF back
  <2>12. OnceEach(new)
    <3> SUFFICES ASSUME NEW i \in 1 .. n - 1, NEW j \in 1 .. n - 1, new[i] = new[j]
                 PROVE  i = j
      BY <2>7 DEF OnceEach
    <3>1. /\ back[i] \in 1 .. n /\ new[i] = list[back[i]]
          /\ back[j] \in 1 .. n /\ new[j] = list[back[j]]
      BY <2>8
    <3>2. back[i] = back[j]
      BY <3>1, <1>1 DEF OnceEach
    <3> QED
      BY <3>2, <2>10
  <2>13. ToSet(new) = ToSet(list) \ {c}
    <3>1. ASSUME NEW d \in ToSet(new)
          PROVE  d \in ToSet(list) \ {c}
      BY <2>7, <2>8, <2>11, <1>1 DEF ToSet
    <3>2. ASSUME NEW d \in ToSet(list), d # c
          PROVE  d \in ToSet(new)
      <4>1. PICK j \in 1 .. n : list[j] = d
        BY <1>1 DEF ToSet
      <4>2. PICK i \in 1 .. n - 1 : back[i] = j
        BY <4>1, <3>2, <2>9, <2>11
      <4> QED
        BY <4>1, <4>2, <2>7, <2>8 DEF ToSet
    <3> QED
      BY <3>1, <3>2
  <2>14. ASSUME NEW d, NEW e
         PROVE  Sooner(new, d, e) <=> Sooner(list, d, e) /\ d # c /\ e # c
    <3>1. ASSUME Sooner(new, d, e)
          PROVE  Sooner(list, d, e) /\ d # c /\ e # c
      <4>1. PICK i, j \in 1 .. n - 1 : i < j /\ new[i] = d /\ new[j] = e
        BY <3>1, <2>7 DEF Sooner
      <4>2. /\ back[i] \in 1 .. n /\ back[j] \in 1 .. n /\ back[i] < back[j]
            /\ list[back[i]] = d /\ list[back[j]] = e /\ back[i] # k /\ back[j] # k
        <5>1. back[i] < back[j]
          BY <4>1, <2>10
        <5> QED
          BY <4>1, <5>1, <2>8
      <4> QED
        BY <4>2, <2>11, <1>1 DEF Sooner
    <3>2. ASSUME Sooner(list, d, e), d # c, e # c
          PROVE  Sooner(new, d, e)
      <4>1. PICK p, q \in 1 .. n : p < q /\ list[p] = d /\ list[q] = e
        BY <3>2, <1>1 DEF Sooner
      <4>2. PICK i \in 1 .. n - 1 : back[i] = p
        BY <4>1, <3>2, <2>9, <2>11
      <4>3. PICK j \in 1 .. n - 1 : back[j] = q
        BY <4>1, <3>2, <2>9, <2>11
      <4> QED
        BY <4>1, <4>2, <4>3, <2>7, <2>8, <2>10 DEF Sooner
    <3> QED
      BY <3>1, <3>2
  <2> QED
    BY <2>2, <2>6, <2>12, <2>13, <2>14
<1> QED
  BY <1>2, <1>3

\* A list the server can start from.
LEMMA PermutationsAreLists ==
  ASSUME NEW S, IsFiniteSet(S), NEW list \in SetToAllKPermutations(S)
  PROVE  list \in Seq(S) /\ OnceEach(list)
<1>1. PICK T \in SUBSET S : list \in SetToSeqs(T)
  BY DEF SetToAllKPermutations
<1>2. Cardinality(T) \in Nat
  BY FS_Subset, FS_CardinalityType
<1>3. PICK n \in Nat : n = Cardinality(T)
  BY <1>2
<1>4. /\ list \in [1 .. n -> T]
      /\ \A i, j \in 1 .. n : i # j => list[i] # list[j]
  BY <1>1, <1>3 DEF SetToSeqs
<1>5. list \in Seq(T)
  BY <1>3, <1>4
<1>6. list \in Seq(S)
  BY <1>5, SeqMonotonic
<1> QED
  BY <1>4, <1>6 DEF OnceEach

\* Of some cards of a list, one comes first.
LEMMA OneComesFirst ==
  ASSUME NEW S, NEW list \in Seq(S), OnceEach(list),
         NEW W \in SUBSET ToSet(list), W # {}
  PROVE  \E c \in W : \A d \in W : ~ Sooner(list, d, c)
<1>1. Len(list) \in Nat /\ DOMAIN list = 1 .. Len(list)
  BY LenProperties
<1> DEFINE At == {i \in 1 .. Len(list) : list[i] \in W}
<1>2. At \in SUBSET Nat /\ At # {}
  BY <1>1 DEF ToSet
<1>3. PICK i \in At : \A j \in At : i <= j
  <2>1. PICK i \in At : \A j \in At : << j, i >> \notin OpToRel(<, Nat)
    BY <1>2, NatLessThanWellFounded, WFMin
  <2>2. ASSUME NEW j \in At, j < i
        PROVE  FALSE
    <3>1. << j, i >> \in OpToRel(<, Nat)
      BY <2>2, <1>2 DEF OpToRel
    <3> QED
      BY <3>1, <2>1
  <2> QED
    BY <2>2, <1>2
<1>4. ASSUME NEW d \in W, Sooner(list, d, list[i])
      PROVE  FALSE
  <2>1. PICK p, q \in 1 .. Len(list) : p < q /\ list[p] = d /\ list[q] = list[i]
    BY <1>1, <1>4 DEF Sooner
  <2>2. q = i /\ p \in At
    BY <2>1, <1>1 DEF OnceEach
  <2> QED
    BY <2>1, <2>2, <1>1, <1>3
<1> QED
  BY <1>4

(***************************************************************************)
(* The screen and its calls                                                *)
(***************************************************************************)

ReviewRecords ==
  [card : DeckCards, served : BOOLEAN, attached : BOOLEAN, size : 0 .. Cardinality(DeckCards)]

\* What is on screen is some of the learner's cards.
LEMMA DecksAreFinite ==
  ASSUME DeckTypeOK
  PROVE  /\ DueDeck \subseteq DeckCards /\ IsFiniteSet(DueDeck)
         /\ DueDeck \subseteq StillListed
         /\ Cardinality(DeckCards) \in Nat /\ Cardinality(DueDeck) \in Nat
         /\ Cardinality(LearnedDeck) \in 0 .. Cardinality(DeckCards)
<1>1. ToSet(dueListed) \subseteq DeckCards
  BY LenProperties DEF DeckTypeOK, ToSet
<1>2. DueDeck \subseteq DeckCards /\ LearnedDeck \subseteq DeckCards
  BY <1>1 DEF DueDeck, LearnedDeck
<1>3. DueDeck \subseteq StillListed
  BY DEF DueDeck, StillListed
<1>4. IsFiniteSet(DeckCards)
  BY CardsAreFinite
<1>5. Cardinality(DeckCards) \in Nat
  BY <1>4, FS_CardinalityType
<1>6. IsFiniteSet(DueDeck)
  BY <1>2, <1>4, FS_Subset
<1>7. IsFiniteSet(LearnedDeck) /\ Cardinality(LearnedDeck) <= Cardinality(DeckCards)
  BY <1>2, <1>4, FS_Subset
<1>8. Cardinality(DueDeck) \in Nat /\ Cardinality(LearnedDeck) \in Nat
  BY <1>6, <1>7, FS_CardinalityType
<1>9. Cardinality(LearnedDeck) \in 0 .. Cardinality(DeckCards)
  BY <1>5, <1>7, <1>8
<1> QED
  BY <1>2, <1>3, <1>5, <1>6, <1>8, <1>9

\* A call whose buttons are gone is still the call it was.
LEMMA UnmountedIsReview ==
  ASSUME DeckTypeOK
  PROVE  /\ Unmounted \in [Reviews -> ReviewRecords \cup {NoReview}]
         /\ \A r \in Reviews : /\ review[r] = NoReview => Unmounted[r] = NoReview
                               /\ review[r] # NoReview
                                    => /\ Unmounted[r].card = review[r].card
                                       /\ Unmounted[r].served = review[r].served
<1>1. Cardinality(DeckCards) \in Nat
  BY DecksAreFinite
<1>2. ASSUME NEW r \in Reviews, review[r] # NoReview
      PROVE  /\ Unmounted[r] \in ReviewRecords
             /\ Unmounted[r].card = review[r].card
             /\ Unmounted[r].served = review[r].served
  <2>1. review[r] \in ReviewRecords
    BY <1>2 DEF DeckTypeOK, ReviewRecords
  <2>2. Unmounted[r] = [review[r] EXCEPT !.attached = FALSE, !.size = 0]
    BY <1>2 DEF Unmounted
  <2>3. 0 \in 0 .. Cardinality(DeckCards)
    BY <1>1
  <2> HIDE DEF Unmounted
  <2>4. Unmounted[r] \in ReviewRecords
    BY <2>1, <2>2, <2>3 DEF ReviewRecords
  <2>5. Unmounted[r].card = review[r].card /\ Unmounted[r].served = review[r].served
    BY <2>1, <2>2 DEF ReviewRecords
  <2> QED
    BY <2>4, <2>5
<1>3. ASSUME NEW r \in Reviews, review[r] = NoReview
      PROVE  Unmounted[r] = NoReview
  BY <1>3 DEF Unmounted
<1>4. Unmounted = [r \in Reviews |-> Unmounted[r]]
  BY DEF Unmounted
<1>5. \A r \in Reviews : Unmounted[r] \in ReviewRecords \cup {NoReview}
  BY <1>2, <1>3
<1> HIDE DEF Unmounted
<1>6. Unmounted \in [Reviews -> ReviewRecords \cup {NoReview}]
  BY <1>4, <1>5
<1> QED
  BY <1>2, <1>3, <1>6

\* The learner's own steps leave the lists alone, and the calls are what they were.
LearnerStep ==
  /\ UNCHANGED << dueOnServer, dueListed >>
  /\ review' \in {review, Unmounted}

LEMMA LearnerSteps ==
  (\E d \in Decks \cup {"all"} : OpenDeck(d)) \/ CloseDeck \/ ReopenTab
    \/ (\E learned \in BOOLEAN : ChooseTab(learned)) \/ FlipCard
  => LearnerStep
BY DEF OpenDeck, CloseDeck, ReopenTab, ChooseTab, FlipCard, LearnerStep

(***************************************************************************)
(* The deck: types                                                         *)
(***************************************************************************)

LEMMA DeckStartsTyped == DeckInit => DeckTypeOK
<1> SUFFICES ASSUME DeckInit PROVE DeckTypeOK
  OBVIOUS
<1>1. dueOnServer \in Seq(DeckCards)
  BY PermutationsAreLists, CardsAreFinite DEF DeckInit
<1>2. dueListed \in Seq(DeckCards)
  BY EmptySeq DEF DeckInit
<1>3. Cardinality(DeckCards) \in Nat
  BY CardsAreFinite, FS_CardinalityType
<1>4. index \in 0 .. Cardinality(DeckCards)
  BY <1>3 DEF DeckInit
<1> QED
  BY <1>1, <1>2, <1>4 DEF DeckInit, DeckTypeOK

LEMMA DeckTypeKept ==
  ASSUME DeckTypeOK, OrderOK, [DeckNext]_deckVars
  PROVE  DeckTypeOK'
<1> DEFINE n == Cardinality(DeckCards)
           Reviewing == [Reviews -> ReviewRecords \cup {NoReview}]
<1>1. n \in Nat /\ Cardinality(LearnedDeck) \in 0 .. n /\ DueDeck \subseteq DeckCards
  BY DecksAreFinite
<1>2. review \in Reviewing
  BY DEF DeckTypeOK, ReviewRecords
<1>3. ASSUME review' \in Reviewing, dueOnServer' \in Seq(DeckCards), dueListed' \in Seq(DeckCards),
             loaded' \in BOOLEAN, refetch' \in BOOLEAN, deck' \in Decks \cup {"all", NoDeck},
             index' \in 0 .. n, flipped' \in BOOLEAN, showLearned' \in BOOLEAN,
             rated' = Nothing \/ rated' \in [card : DeckCards, before : SUBSET DeckCards,
                                             after : SUBSET DeckCards]
      PROVE  DeckTypeOK'
  BY <1>3 DEF DeckTypeOK, ReviewRecords, Nothing
<1>4. ASSUME LearnerStep PROVE review' \in Reviewing
  BY <1>2, <1>4, UnmountedIsReview DEF LearnerStep
<1>5. 0 \in 0 .. n /\ index \in 0 .. n
  BY <1>1 DEF DeckTypeOK
<1> HIDE DEF Reviewing, n
<1>6. CASE \E d \in Decks \cup {"all"} : OpenDeck(d)
  BY <1>6, <1>3, <1>4, <1>5, LearnerSteps DEF OpenDeck, DeckTypeOK, n
<1>7. CASE CloseDeck
  BY <1>7, <1>3, <1>4, <1>5, LearnerSteps DEF CloseDeck, DeckTypeOK, n
<1>8. CASE ReopenTab
  BY <1>8, <1>3, <1>4, <1>5, LearnerSteps DEF ReopenTab, DeckTypeOK, n
<1>9. CASE \E learned \in BOOLEAN : ChooseTab(learned)
  BY <1>9, <1>3, <1>4, <1>5, LearnerSteps DEF ChooseTab, DeckTypeOK, n
<1>10. CASE FlipCard
  <2>1. review' \in Reviewing
    BY <1>10, <1>4, LearnerSteps
  <2> QED
    BY <1>10, <1>3, <2>1, <1>5 DEF FlipCard, DeckTypeOK, n, Nothing
<1>11. ASSUME NEW r \in Reviews, NEW c \in DeckCards, Rate(r, c)
       PROVE  DeckTypeOK'
  <2>1. [card |-> c, served |-> FALSE, attached |-> TRUE,
         size |-> IF ShowLearnedActive THEN Cardinality(LearnedDeck) ELSE 0] \in ReviewRecords
    BY <1>1, <1>5 DEF ReviewRecords, n
  <2>2. review' \in Reviewing
    BY <1>2, <1>11, <2>1 DEF Rate, Reviewing
  <2> QED
    BY <1>11, <1>3, <1>5, <2>2 DEF Rate, DeckTypeOK, n
<1>12. ASSUME NEW r \in Reviews, ServeReview(r)
       PROVE  DeckTypeOK'
  <2>1. review[r] \in ReviewRecords
    BY <1>2, <1>12 DEF ServeReview, Reviewing
  <2>2. [review[r] EXCEPT !.served = TRUE] \in ReviewRecords
    BY <2>1 DEF ReviewRecords
  <2>3. review' = [review EXCEPT ![r] = [review[r] EXCEPT !.served = TRUE]]
    BY <1>12 DEF ServeReview
  <2>4. review' \in Reviewing
    BY <1>2, <2>2, <2>3 DEF Reviewing
  <2>5. dueOnServer' \in Seq(DeckCards)
    BY <1>12, WithoutKeepsOrder DEF ServeReview, DeckTypeOK, OrderOK
  <2> QED
    BY <1>12, <1>3, <1>5, <2>4, <2>5 DEF ServeReview, DeckTypeOK, n, Nothing
<1>13. ASSUME NEW r \in Reviews, ReviewSucceeds(r)
       PROVE  DeckTypeOK'
  <2>1. review[r] \in ReviewRecords
    BY <1>2, <1>13 DEF ReviewSucceeds, Reviewing
  <2>2. review' \in Reviewing
    BY <1>2, <1>13 DEF ReviewSucceeds, Reviewing
  <2>3. NextIndex(review[r].size) \in 0 .. n
    <3>1. PICK size \in 0 .. n : size = review[r].size
      BY <2>1 DEF ReviewRecords, n
    <3>2. CASE size = 0
      BY <3>1, <3>2, <1>5 DEF NextIndex
    <3>3. CASE size # 0
      <4>1. (index + 1) % size \in 0 .. size - 1
        BY <3>3, <1>1, <1>5
      <4> QED
        BY <3>1, <3>3, <4>1, <1>1 DEF NextIndex, n
    <3> QED
      BY <3>2, <3>3
  <2>4. index' \in 0 .. n /\ flipped' \in BOOLEAN
    BY <1>13, <1>5, <2>3 DEF ReviewSucceeds, DeckTypeOK
  <2>5. rated' = Nothing \/ rated' \in [card : DeckCards, before : SUBSET DeckCards,
                                        after : SUBSET DeckCards]
    <3>1. review[r].card \in DeckCards
      BY <2>1 DEF ReviewRecords
    <3>2. CardsBefore(review[r].card) \subseteq DeckCards /\ CardsAfter(review[r].card) \subseteq DeckCards
      BY <1>1 DEF CardsBefore, CardsAfter
    <3> QED
      BY <1>13, <3>1, <3>2 DEF ReviewSucceeds, DeckTypeOK, Nothing
  <2> QED
    BY <1>13, <1>3, <2>2, <2>4, <2>5 DEF ReviewSucceeds, DeckTypeOK
<1>14. ASSUME NEW r \in Reviews, ReviewFails(r)
       PROVE  DeckTypeOK'
  <2>1. review' \in Reviewing
    BY <1>2, <1>14 DEF ReviewFails, Reviewing
  <2> QED
    BY <1>14, <1>3, <1>5, <2>1 DEF ReviewFails, DeckTypeOK, n, Nothing
<1>15. CASE CardsArrive
  <2>1. review' \in Reviewing
    BY <1>2, <1>15, UnmountedIsReview DEF CardsArrive, Reviewing
  <2> QED
    BY <1>15, <1>3, <1>5, <2>1 DEF CardsArrive, DeckTypeOK, n, Nothing
<1>16. ASSUME NEW c \in DeckCards, BecomesDue(c)
       PROVE  DeckTypeOK'
  <2>1. dueOnServer' \in Seq(DeckCards)
    BY <1>16, AppendProperties DEF BecomesDue, DeckTypeOK
  <2> QED
    BY <1>16, <1>2, <1>3, <1>5, <2>1 DEF BecomesDue, DeckTypeOK, n, Nothing
<1>17. CASE UNCHANGED deckVars
  BY <1>17, <1>2, <1>3, <1>5 DEF deckVars, DeckTypeOK, n, Nothing
<1> QED
  BY <1>6, <1>7, <1>8, <1>9, <1>10, <1>11, <1>12, <1>13, <1>14, <1>15, <1>16, <1>17 DEF DeckNext

(***************************************************************************)
(* The deck: order and reviews                                             *)
(***************************************************************************)

LEMMA OrderKept ==
  ASSUME DeckTypeOK, OrderOK, [DeckNext]_deckVars
  PROVE  OrderOK'
<1>1. ASSUME UNCHANGED << dueOnServer, dueListed >>
      PROVE  OrderOK'
  BY <1>1 DEF OrderOK, OnceEach, DueNow, StillListed, Sooner, ToSet
<1>2. ASSUME NEW r \in Reviews, ServeReview(r)
      PROVE  OrderOK'
  <2> DEFINE c == review[r].card
  <2>1. dueOnServer' = Without(dueOnServer, c) /\ dueListed' = dueListed
    BY <1>2 DEF ServeReview
  <2>2. OnceEach(dueOnServer')
    BY <2>1, WithoutKeepsOrder DEF DeckTypeOK, OrderOK
  <2>3. DueNow' = DueNow \ {c}
    BY <2>1, WithoutKeepsOrder DEF DeckTypeOK, OrderOK, DueNow
  <2>4. \A d, e : Sooner(dueOnServer', d, e) <=> Sooner(dueOnServer, d, e) /\ d # c /\ e # c
    BY <2>1, WithoutKeepsOrder DEF DeckTypeOK, OrderOK
  <2>5. OnceEach(dueListed') /\ StillListed' = StillListed
        /\ \A d, e : Sooner(dueListed', d, e) <=> Sooner(dueListed, d, e)
    BY <2>1 DEF OrderOK, StillListed
  <2> QED
    BY <2>2, <2>3, <2>4, <2>5 DEF OrderOK
<1>3. CASE CardsArrive
  <2>1. dueOnServer' = dueOnServer /\ dueListed' = dueOnServer
    BY <1>3 DEF CardsArrive
  <2> QED
    BY <2>1 DEF OrderOK, DueNow, StillListed
<1>4. ASSUME NEW c \in DeckCards, BecomesDue(c)
      PROVE  OrderOK'
  <2>1. dueOnServer' = Append(dueOnServer, c) /\ dueListed' = dueListed
        /\ c \notin DueNow /\ c \notin StillListed
    BY <1>4 DEF BecomesDue, DueNow, StillListed
  <2>2. OnceEach(dueOnServer') /\ DueNow' = DueNow \cup {c}
    BY <2>1, AppendedComesLast DEF DeckTypeOK, OrderOK, DueNow
  <2>3. \A d, e : Sooner(dueOnServer', d, e) <=> Sooner(dueOnServer, d, e) \/ (d \in DueNow /\ e = c)
    BY <2>1, AppendedComesLast DEF DeckTypeOK, OrderOK, DueNow
  <2>4. OnceEach(dueListed') /\ StillListed' = StillListed
        /\ \A d, e : Sooner(dueListed', d, e) <=> Sooner(dueListed, d, e)
    BY <2>1 DEF OrderOK, StillListed
  <2>5. \A d : ~ Sooner(dueListed, d, c)
    BY <2>1, SoonerIsOrder DEF DeckTypeOK, OrderOK, StillListed
  <2> QED
    BY <2>1, <2>2, <2>3, <2>4, <2>5 DEF OrderOK
<1>5. ASSUME NEW r \in Reviews, NEW c \in DeckCards, Rate(r, c)
      PROVE  OrderOK'
  BY <1>5, <1>1 DEF Rate
<1>6. ASSUME NEW r \in Reviews, ReviewSucceeds(r) \/ ReviewFails(r)
      PROVE  OrderOK'
  BY <1>6, <1>1 DEF ReviewSucceeds, ReviewFails
<1>7. CASE LearnerStep
  BY <1>7, <1>1 DEF LearnerStep
<1>8. CASE UNCHANGED deckVars
  BY <1>8, <1>1 DEF deckVars
<1> QED
  BY <1>2, <1>3, <1>4, <1>5, <1>6, <1>7, <1>8, LearnerSteps DEF DeckNext

LEMMA ServedKept ==
  ASSUME DeckTypeOK, OrderOK, ServedOK, [DeckNext]_deckVars
  PROVE  ServedOK'
<1>1. ASSUME DueNow' \subseteq DueNow, review' \in {review, Unmounted}
      PROVE  ServedOK'
  BY <1>1, UnmountedIsReview DEF ServedOK
<1>2. ASSUME NEW r \in Reviews, NEW c \in DeckCards, Rate(r, c)
      PROVE  ServedOK'
  <2>1. DueNow' = DueNow
    BY <1>2 DEF Rate, DueNow
  <2>2. \A s \in Reviews \ {r} : review'[s] = review[s]
    BY <1>2 DEF Rate, DeckTypeOK
  <2>3. review'[r].served = FALSE
    BY <1>2 DEF Rate, DeckTypeOK
  <2> QED
    BY <2>1, <2>2, <2>3 DEF ServedOK
<1>3. ASSUME NEW r \in Reviews, ServeReview(r)
      PROVE  ServedOK'
  <2>1. DueNow' = DueNow \ {review[r].card}
    BY <1>3, WithoutKeepsOrder DEF ServeReview, DeckTypeOK, OrderOK, DueNow
  <2>2. \A s \in Reviews \ {r} : review'[s] = review[s]
    BY <1>3 DEF ServeReview, DeckTypeOK
  <2>3. review'[r].card = review[r].card
    <3>1. review[r] \in ReviewRecords
      BY <1>3 DEF ServeReview, DeckTypeOK, ReviewRecords
    <3>2. review' = [review EXCEPT ![r] = [review[r] EXCEPT !.served = TRUE]]
      BY <1>3 DEF ServeReview
    <3>3. review'[r] = [review[r] EXCEPT !.served = TRUE]
      BY <3>2 DEF DeckTypeOK
    <3> QED
      BY <3>1, <3>3 DEF ReviewRecords
  <2> QED
    BY <2>1, <2>2, <2>3 DEF ServedOK
<1>4. ASSUME NEW r \in Reviews, ReviewSucceeds(r) \/ ReviewFails(r)
      PROVE  ServedOK'
  <2>1. DueNow' = DueNow
    BY <1>4 DEF ReviewSucceeds, ReviewFails, DueNow
  <2>2. review' = [review EXCEPT ![r] = NoReview]
    BY <1>4 DEF ReviewSucceeds, ReviewFails
  <2> QED
    BY <2>1, <2>2 DEF ServedOK, DeckTypeOK
<1>5. CASE CardsArrive
  BY <1>5, <1>1 DEF CardsArrive, DueNow
<1>6. ASSUME NEW c \in DeckCards, BecomesDue(c)
      PROVE  ServedOK'
  <2>1. DueNow' = DueNow \cup {c}
    BY <1>6, AppendedComesLast DEF BecomesDue, DeckTypeOK, OrderOK, DueNow
  <2>2. review' = review /\ \A r \in Reviews : review[r] # NoReview => review[r].card # c
    BY <1>6 DEF BecomesDue
  <2> QED
    BY <2>1, <2>2 DEF ServedOK
<1>7. CASE LearnerStep
  BY <1>7, <1>1 DEF LearnerStep, DueNow
<1>8. CASE UNCHANGED deckVars
  BY <1>8, <1>1 DEF deckVars, DueNow
<1> QED
  BY <1>2, <1>3, <1>4, <1>5, <1>6, <1>7, <1>8, LearnerSteps DEF DeckNext

(***************************************************************************)
(* The deck: the card rated                                                *)
(***************************************************************************)

\* While list, deck and index stay, so does what the rated card parts.
LEMMA RatedStays ==
  ASSUME RatedOK, UNCHANGED << dueListed, deck, index, rated >>,
         DueNow' \subseteq DueNow, refetch => refetch'
  PROVE  RatedOK'
<1>1. StillListed' = StillListed /\ DueDeck' = DueDeck
  BY DEF StillListed, DueDeck, InDeck
<1>2. \A c : CardsBefore(c)' = CardsBefore(c) /\ CardsAfter(c)' = CardsAfter(c)
  BY <1>1 DEF CardsBefore, CardsAfter
<1>3. PartsDeck => PartsDeck'
  BY <1>1, <1>2 DEF PartsDeck, CardsBefore, CardsAfter
<1>4. PartsRest => PartsRest'
  BY <1>1 DEF PartsRest
<1> QED
  BY <1>1, <1>3, <1>4 DEF RatedOK

\* A rating that succeeds over the card it rated: the index is the number of cards
\* before it, unless it is the last.
LEMMA RatedNow ==
  ASSUME DeckTypeOK, OrderOK, ServedOK, NEW r \in Reviews, ReviewSucceeds(r), rated' # Nothing,
         rated' # rated
  PROVE  RatedOK'
<1> DEFINE c == review[r].card
<1>1. /\ review[r] # NoReview /\ review[r].served /\ review[r].size = 0
      /\ ~ ShowLearnedActive /\ Shown = {c}
      /\ rated' = [card |-> c, before |-> CardsBefore(c), after |-> CardsAfter(c)]
      /\ index' = NextIndex(0)
  BY DEF ReviewSucceeds
<1>2. UNCHANGED << dueOnServer, dueListed, deck, index >> /\ refetch'
  BY <1>1 DEF ReviewSucceeds, NextIndex
<1> HIDE DEF c
<1>3. c \notin DueNow
  BY <1>1 DEF ServedOK, c
<1>4. c \in DueDeck /\ (index <= Cardinality(DueDeck) - 1 => Cardinality(CardsBefore(c)) = index)
      /\ (~ index <= Cardinality(DueDeck) - 1
            => Cardinality(CardsBefore(c)) = Cardinality(DueDeck) - 1)
  <2>1. c \in Shown
    BY <1>1
  <2> QED
    BY <1>1, <2>1 DEF Shown
<1>5. CardsBefore(c) \cap CardsAfter(c) = {} /\ c \notin CardsBefore(c) /\ c \notin CardsAfter(c)
  BY SoonerIsOrder DEF CardsBefore, CardsAfter, DeckTypeOK, OrderOK
<1>6. CardsBefore(c) \subseteq DueDeck /\ CardsAfter(c) \subseteq DueDeck
  BY DEF CardsBefore, CardsAfter
<1>7. ASSUME CardsAfter(c) # {}
      PROVE  Cardinality(CardsBefore(c)) = index
  <2>1. PICK d \in CardsAfter(c) : TRUE
    BY <1>7
  <2> DEFINE B == CardsBefore(c)
  <2>2. IsFiniteSet(DueDeck) /\ Cardinality(DueDeck) \in Nat /\ index \in Nat
    BY DecksAreFinite DEF DeckTypeOK
  <2>3. B \cup {c} \subseteq DueDeck /\ d \in DueDeck /\ d \notin B \cup {c}
    BY <2>1, <1>4, <1>5, <1>6
  <2>4. IsFiniteSet(B) /\ c \notin B
    BY <2>2, <1>5, <1>6, FS_Subset
  <2>5. Cardinality(B) \in Nat
    BY <2>4, FS_CardinalityType
  <2> HIDE DEF B
  <2>6. IsFiniteSet(B \cup {c}) /\ Cardinality(B \cup {c}) = Cardinality(B) + 1
    BY <2>4, FS_AddElement
  <2>7. Cardinality(B \cup {c}) <= Cardinality(DueDeck)
        /\ (Cardinality(DueDeck) = Cardinality(B \cup {c}) => DueDeck = B \cup {c})
    BY <2>2, <2>3, FS_Subset
  <2>8. Cardinality(B) # Cardinality(DueDeck) - 1
    BY <2>2, <2>3, <2>5, <2>6, <2>7
  <2> QED
    BY <1>4, <2>2, <2>8 DEF B
<1>8. StillListed' = StillListed /\ DueNow' = DueNow /\ DueDeck' = DueDeck
  BY <1>2 DEF StillListed, DueNow, DueDeck, InDeck
<1>9. rated'.card = c /\ rated'.before = CardsBefore(c) /\ rated'.after = CardsAfter(c)
  BY <1>1
<1>10. PartsDeck'
  BY <1>2, <1>4, <1>8, <1>9 DEF PartsDeck, CardsBefore, CardsAfter
<1>11. c \in StillListed
  BY <1>4, DecksAreFinite
<1> QED
  BY <1>2, <1>3, <1>5, <1>7, <1>8, <1>9, <1>10, <1>11 DEF RatedOK

\* The list comes without the rated card.
LEMMA RatedGoes ==
  ASSUME DeckTypeOK, OrderOK, RatedOK, CardsArrive, rated # Nothing, rated' = rated
  PROVE  RatedOK'
<1> DEFINE x == rated.card
           B == rated.before
           A == rated.after
<1>1. UNCHANGED << dueOnServer, deck, index, rated >> /\ dueListed' = dueOnServer
  BY DEF CardsArrive
<1>2. DueNow' = DueNow /\ StillListed' = DueNow
  BY <1>1 DEF DueNow, StillListed
<1>3. DueDeck' = {c \in DueNow : InDeck(c)} /\ DueDeck = {c \in StillListed : InDeck(c)}
  BY <1>1 DEF DueNow, StillListed, DueDeck, InDeck
<1>4. x \notin DueNow /\ x \notin StillListed'
  BY <1>2 DEF RatedOK
<1>5. \A c \in StillListed \cap DueNow, d \in DueNow :
        d \notin StillListed \/ Sooner(dueListed, c, d) => Sooner(dueOnServer, c, d)
  BY DEF OrderOK
<1> SUFFICES ASSUME NEW c \in DueDeck', NEW d \in DueDeck'
             PROVE  /\ c \in B /\ d \notin B => Sooner(dueOnServer, c, d)
                    /\ c \in A /\ d \notin B \cup A => Sooner(dueOnServer, c, d)
  <2>1. PartsRest'
    BY <1>1, <1>2 DEF PartsRest
  <2> QED
    BY <1>1, <1>2, <1>4, <2>1 DEF RatedOK
<1>6. c \in DueNow /\ d \in DueNow /\ InDeck(c) /\ InDeck(d)
  BY <1>3
<1>7. CASE x \in StillListed
  <2>1. x \in DueDeck /\ B = CardsBefore(x) /\ A = CardsAfter(x)
    BY <1>7 DEF RatedOK, PartsDeck
  <2>2. B \subseteq StillListed /\ A \subseteq StillListed
    BY <2>1, <1>3 DEF CardsBefore, CardsAfter
  <2>3. \A e \in DueDeck \ {x} : e \in B \cup A
    BY <2>1, <1>3, SoonerIsOrder DEF CardsBefore, CardsAfter, DeckTypeOK, OrderOK, StillListed
  <2>4. ASSUME c \in B, d \notin B
        PROVE  Sooner(dueOnServer, c, d)
    <3>1. CASE d \notin StillListed
      BY <3>1, <2>2, <2>4, <1>5, <1>6
    <3>2. CASE d \in StillListed
      <4>1. d \in A
        BY <3>2, <2>3, <2>4, <1>3, <1>4, <1>6
      <4>2. Sooner(dueListed, c, x) /\ Sooner(dueListed, x, d)
        BY <4>1, <2>1, <2>4 DEF CardsBefore, CardsAfter
      <4>3. Sooner(dueListed, c, d)
        BY <4>2, SoonerIsOrder DEF DeckTypeOK, OrderOK
      <4> QED
        BY <4>3, <2>2, <2>4, <1>5, <1>6
    <3> QED
      BY <3>1, <3>2
  <2>5. ASSUME c \in A, d \notin B \cup A
        PROVE  Sooner(dueOnServer, c, d)
    <3>1. d \notin StillListed
      BY <2>3, <2>5, <1>3, <1>4, <1>6
    <3> QED
      BY <3>1, <2>2, <2>5, <1>5, <1>6
  <2> QED
    BY <2>4, <2>5
<1>8. CASE x \notin StillListed
  <2>1. DueNow \subseteq StillListed
    BY <1>8 DEF RatedOK, PartsRest
  <2>2. c \in DueDeck /\ d \in DueDeck
    BY <2>1, <1>3, <1>6
  <2>3. /\ c \in B /\ d \notin B => Sooner(dueListed, c, d)
        /\ c \in A /\ d \notin B \cup A => Sooner(dueListed, c, d)
    BY <1>8, <2>2 DEF RatedOK, PartsRest
  <2> QED
    BY <2>1, <2>3, <1>5, <1>6
<1> QED
  BY <1>7, <1>8

\* A card becomes due while the rated one is still listed.
LEMMA RatedWaits ==
  ASSUME DeckTypeOK, OrderOK, RatedOK, NEW c \in DeckCards, BecomesDue(c), rated' # Nothing
  PROVE  RatedOK'
<1>1. UNCHANGED << dueListed, deck, index, rated >> /\ refetch' /\ c \notin StillListed
      /\ rated # Nothing /\ rated.card \in StillListed
  BY DEF BecomesDue, StillListed
<1>2. DueNow' = DueNow \cup {c}
  BY AppendedComesLast DEF BecomesDue, DeckTypeOK, OrderOK, DueNow
<1>3. StillListed' = StillListed /\ DueDeck' = DueDeck
  BY <1>1 DEF StillListed, DueDeck, InDeck
<1>4. PartsDeck'
  BY <1>1, <1>3 DEF RatedOK, PartsDeck, CardsBefore, CardsAfter
<1> QED
  BY <1>1, <1>2, <1>3, <1>4 DEF RatedOK

LEMMA RatedKept ==
  ASSUME DeckInv, [DeckNext]_deckVars
  PROVE  RatedOK'
<1> USE DEF DeckInv
<1>1. ASSUME rated' = Nothing PROVE RatedOK'
  BY <1>1 DEF RatedOK
<1>2. CASE \/ \E d \in Decks \cup {"all"} : OpenDeck(d)
           \/ CloseDeck
           \/ ReopenTab
           \/ \E learned \in BOOLEAN : ChooseTab(learned)
           \/ \E r \in Reviews, c \in DeckCards : Rate(r, c)
  BY <1>1, <1>2 DEF OpenDeck, CloseDeck, ReopenTab, ChooseTab, Rate
<1>3. CASE FlipCard
  BY <1>3, RatedStays DEF FlipCard, DueNow
<1>4. ASSUME NEW r \in Reviews, ServeReview(r)
      PROVE  RatedOK'
  <2>1. DueNow' \subseteq DueNow
    BY <1>4, WithoutKeepsOrder DEF ServeReview, DeckTypeOK, OrderOK, DueNow
  <2> QED
    BY <1>4, <2>1, RatedStays DEF ServeReview
<1>5. ASSUME NEW r \in Reviews, ReviewSucceeds(r)
      PROVE  RatedOK'
  <2>1. CASE rated' = rated /\ index' = index
    BY <1>5, <2>1, RatedStays DEF ReviewSucceeds, DueNow
  <2>2. CASE rated' # Nothing /\ rated' # rated
    BY <1>5, <2>2, RatedNow
  <2>3. CASE rated' # Nothing /\ index' # index
    <3>1. review[r].size = 0 /\ index' = NextIndex(review[r].size)
      BY <1>5, <2>3 DEF ReviewSucceeds
    <3> QED
      BY <3>1, <2>3 DEF NextIndex
  <2> QED
    BY <1>1, <2>1, <2>2, <2>3
<1>6. ASSUME NEW r \in Reviews, ReviewFails(r)
      PROVE  RatedOK'
  BY <1>6, RatedStays DEF ReviewFails, DueNow
<1>7. CASE CardsArrive
  <2>1. rated' = Nothing \/ rated' = rated
    BY <1>7 DEF CardsArrive
  <2> QED
    BY <1>1, <1>7, <2>1, RatedGoes
<1>8. ASSUME NEW c \in DeckCards, BecomesDue(c)
      PROVE  RatedOK'
  BY <1>1, <1>8, RatedWaits
<1>9. CASE UNCHANGED deckVars
  BY <1>9, RatedStays DEF deckVars, DueNow
<1> QED
  BY <1>2, <1>3, <1>4, <1>5, <1>6, <1>7, <1>8, <1>9 DEF DeckNext

(***************************************************************************)
(* The deck: theorems                                                      *)
(***************************************************************************)

LEMMA DeckInvariance == DeckSpec => []DeckInv
<1>1. DeckInit => DeckInv
  <2> SUFFICES ASSUME DeckInit PROVE DeckInv
    OBVIOUS
  <2>1. OnceEach(dueOnServer)
    BY PermutationsAreLists, CardsAreFinite DEF DeckInit
  <2>2. OnceEach(dueListed) /\ StillListed = {}
    BY DEF DeckInit, OnceEach, StillListed, ToSet
  <2> QED
    BY <2>1, <2>2, DeckStartsTyped DEF DeckInit, DeckInv, OrderOK, ServedOK, RatedOK
<1>2. DeckInv /\ [DeckNext]_deckVars => DeckInv'
  <2> SUFFICES ASSUME DeckInv, [DeckNext]_deckVars PROVE DeckInv'
    OBVIOUS
  <2>1. DeckTypeOK' /\ OrderOK'
    BY DeckTypeKept, OrderKept DEF DeckInv
  <2>2. ServedOK'
    BY ServedKept DEF DeckInv
  <2> QED
    BY <2>1, <2>2, RatedKept DEF DeckInv
<1> QED
  BY <1>1, <1>2, PTL DEF DeckSpec

\* The lists, the index and the reviews under way are always of their kind, for any cards
\* and decks and any number of reviews: the index never exceeds the cards there are
\* (FlashcardsScreen.tsx).
THEOREM DeckTyped == DeckSpec => []DeckTypeOK
<1>1. DeckInv => DeckTypeOK
  BY DEF DeckInv
<1> QED
  BY <1>1, DeckInvariance, PTL

\* Cards of the deck differ in how many come before them.
LEMMA PlacesDiffer ==
  ASSUME DeckTypeOK, OrderOK, NEW c \in DueDeck, NEW d \in DueDeck, Sooner(dueListed, c, d)
  PROVE  Cardinality(CardsBefore(c)) < Cardinality(CardsBefore(d))
<1>1. CardsBefore(c) \cup {c} \subseteq CardsBefore(d) /\ c \notin CardsBefore(c)
  BY SoonerIsOrder DEF CardsBefore, DeckTypeOK, OrderOK
<1>2. IsFiniteSet(CardsBefore(c)) /\ IsFiniteSet(CardsBefore(d))
  BY DecksAreFinite, FS_Subset DEF CardsBefore
<1>3. /\ IsFiniteSet(CardsBefore(c) \cup {c})
      /\ Cardinality(CardsBefore(c) \cup {c}) = Cardinality(CardsBefore(c)) + 1
  BY <1>1, <1>2, FS_AddElement
<1>4. Cardinality(CardsBefore(c) \cup {c}) <= Cardinality(CardsBefore(d))
  BY <1>1, <1>2, FS_Subset
<1>5. Cardinality(CardsBefore(c)) \in Nat /\ Cardinality(CardsBefore(d)) \in Nat
  BY <1>2, FS_CardinalityType
<1> QED
  BY <1>3, <1>4, <1>5

\* A rating that left the index where it was (next() in FlashcardsScreen.tsx) brings the
\* first card still due of those that came after the rated one, for any number of cards,
\* reviews and fetches, unless a card before it has gone with it.
THEOREM NextCardFollows == DeckSpec => []RatedCardGivesWayToTheNext
<1>1. DeckInv => RatedCardGivesWayToTheNext
  <2> DEFINE B == rated.before
             waiting == rated.after \cap DueDeck
  <2> SUFFICES ASSUME DeckInv, Settled, rated # Nothing, ~ ShowLearnedActive,
                      B \subseteq DueDeck, waiting # {}
               PROVE  \E c \in waiting : Shown = {c} /\ CardsBefore(c) \cap waiting = {}
    BY DEF RatedCardGivesWayToTheNext
  <2>1. DeckTypeOK /\ OrderOK /\ RatedOK /\ ~ refetch
    BY DEF DeckInv, Settled
  <2>2. /\ PartsRest /\ B \cap rated.after = {} /\ Cardinality(B) = index
    BY <2>1 DEF RatedOK, PartsDeck
  <2>3. dueListed \in Seq(DeckCards) /\ OnceEach(dueListed) /\ DueDeck \subseteq ToSet(dueListed)
    BY <2>1 DEF DeckTypeOK, OrderOK, DueDeck
  <2>4. PICK c \in waiting : \A d \in waiting : ~ Sooner(dueListed, d, c)
    BY <2>3, OneComesFirst
  <2>5. CardsBefore(c) \cap waiting = {}
    BY <2>4 DEF CardsBefore
  <2>6. CardsBefore(c) = B
    <3>1. ASSUME NEW d \in B
          PROVE  d \in CardsBefore(c)
      BY <2>2 DEF PartsRest, CardsBefore
    <3>2. ASSUME NEW d \in DueDeck, d \notin B
          PROVE  d \notin CardsBefore(c)
      <4>1. CASE d \in waiting
        BY <4>1, <2>5
      <4>2. CASE d \notin waiting
        <5>1. Sooner(dueListed, c, d)
          BY <3>2, <4>2, <2>2 DEF PartsRest
        <5> QED
          BY <5>1, <2>3, SoonerIsOrder DEF CardsBefore
      <4> QED
        BY <4>1, <4>2
    <3>3. CardsBefore(c) \subseteq DueDeck
      BY DEF CardsBefore
    <3> QED
      BY <3>1, <3>2, <3>3
  <2>7. index <= Cardinality(DueDeck) - 1
    <3>1. IsFiniteSet(DueDeck) /\ Cardinality(DueDeck) \in Nat
      BY <2>1, DecksAreFinite
    <3>2. IsFiniteSet(B) /\ c \notin B /\ B \cup {c} \subseteq DueDeck
      BY <3>1, <2>2, FS_Subset
    <3>3. Cardinality(B \cup {c}) = Cardinality(B) + 1
      BY <3>2, FS_AddElement
    <3>4. Cardinality(B \cup {c}) <= Cardinality(DueDeck)
      BY <3>1, <3>2, FS_Subset
    <3>5. Cardinality(B) \in Nat
      BY <3>2, FS_CardinalityType
    <3> QED
      BY <3>1, <3>3, <3>4, <3>5, <2>2
  <2>8. Shown = {d \in DueDeck : Cardinality(CardsBefore(d)) = index}
    BY <2>7 DEF Shown
  <2>9. ASSUME NEW d \in DueDeck, d # c
        PROVE  Cardinality(CardsBefore(d)) # index
    <3>1. Sooner(dueListed, c, d) \/ Sooner(dueListed, d, c)
      BY <2>3, <2>9, SoonerIsOrder
    <3>2. Cardinality(CardsBefore(c)) = index /\ index \in Nat
      BY <2>1, <2>2, <2>6 DEF DeckTypeOK
    <3>3. Cardinality(CardsBefore(d)) < index \/ index < Cardinality(CardsBefore(d))
      BY <3>1, <3>2, <2>1, PlacesDiffer
    <3>4. CardsBefore(d) \subseteq DueDeck
      BY DEF CardsBefore
    <3>5. Cardinality(CardsBefore(d)) \in Nat
      BY <3>4, <2>1, DecksAreFinite, FS_Subset, FS_CardinalityType
    <3> QED
      BY <3>2, <3>3, <3>5
  <2>10. Shown = {c}
    BY <2>2, <2>6, <2>8, <2>9
  <2> QED
    BY <2>5, <2>10
<1> QED
  BY <1>1, DeckInvariance, PTL

(***************************************************************************)
(* The screens side by side                                                *)
(***************************************************************************)

\* The step of one component leaves the variables of the others as they are.
LEMMA OneScreenGoesOn ==
  [ScreensNext]_screensVars =>
    /\ [CourseNext]_courseVars /\ [CacheNext]_cacheVars /\ [StoreNext]_storeVars
    /\ [DeckNext]_deckVars /\ [JourneyNext]_journeyVars /\ [ChatNext]_chatVars
    /\ [SignInNext]_signInVars /\ [ProfileNext]_profileVars
    /\ UNCHANGED part
<1> SUFFICES ASSUME [ScreensNext]_screensVars
             PROVE  /\ [CourseNext]_courseVars /\ [CacheNext]_cacheVars /\ [StoreNext]_storeVars
                    /\ [DeckNext]_deckVars /\ [JourneyNext]_journeyVars /\ [ChatNext]_chatVars
                    /\ [SignInNext]_signInVars /\ [ProfileNext]_profileVars
                    /\ UNCHANGED part
  OBVIOUS
<1>1. CASE UNCHANGED screensVars
  BY <1>1 DEF screensVars
<1>2. CASE ScreensNext
  <2>1. [CourseNext]_courseVars
    BY <1>2, ZenonT(30) DEF ScreensNext, Rest
  <2>2. [CacheNext]_cacheVars
    BY <1>2, ZenonT(30) DEF ScreensNext, Rest
  <2>3. [StoreNext]_storeVars
    BY <1>2, ZenonT(30) DEF ScreensNext, Rest
  <2>4. [DeckNext]_deckVars
    BY <1>2, ZenonT(30) DEF ScreensNext, Rest
  <2>5. [JourneyNext]_journeyVars
    BY <1>2, ZenonT(30) DEF ScreensNext, Rest
  <2>6. [ChatNext]_chatVars
    BY <1>2, ZenonT(30) DEF ScreensNext, Rest
  <2>7. [SignInNext]_signInVars
    BY <1>2, ZenonT(30) DEF ScreensNext, Rest
  <2>8. [ProfileNext]_profileVars
    BY <1>2, ZenonT(30) DEF ScreensNext, Rest
  <2>9. UNCHANGED part
    BY <1>2 DEF ScreensNext, Rest
  <2> QED
    BY <2>1, <2>2, <2>3, <2>4, <2>5, <2>6, <2>7, <2>8, <2>9
<1> QED
  BY <1>1, <1>2

\* Side by side each component behaves as it does alone, for every instance of the
\* constants: what is proved of each of the eight specifications holds of them all.
THEOREM EachScreenAlone ==
  ScreensSpec => /\ CourseSpec /\ CacheSpec /\ StoreSpec /\ DeckSpec
                 /\ JourneySpec /\ ChatSpec /\ SignInSpec /\ ProfileSpec
<1>1. ScreensInit => /\ CourseInit /\ CacheInit /\ StoreInit /\ DeckInit
                     /\ JourneyInit /\ ChatInit /\ SignInInit /\ ProfileInit
  BY DEF ScreensInit
<1> QED
  BY <1>1, OneScreenGoesOn, PTL
     DEF ScreensSpec, CourseSpec, CacheSpec, StoreSpec, DeckSpec, JourneySpec, ChatSpec,
         SignInSpec, ProfileSpec

\* Every variable of the component that runs keeps its type.
THEOREM ScreensTyped == ScreensSpec => []TypeOK
<1>1. ScreensInit => part \in Parts
  BY DEF ScreensInit
<1>2. part \in Parts /\ [ScreensNext]_screensVars => (part \in Parts)'
  BY OneScreenGoesOn
<1>3. /\ part \in Parts /\ CourseTypeOK /\ CacheTypeOK /\ StoreTypeOK /\ DeckTypeOK
      /\ JourneyTypeOK /\ ChatTypeOK /\ SignInTypeOK /\ ProfileTypeOK
      => TypeOK
  BY DEF Parts, TypeOK
<1>4. ScreensSpec => [](part \in Parts)
  BY <1>1, <1>2, PTL DEF ScreensSpec
<1> QED
  BY <1>3, <1>4, EachScreenAlone, CourseTyped, CacheTyped, StoreTyped, DeckTyped,
     JourneyTyped, ChatTyped, SignInTyped, ProfileTyped, PTL

\* And so of every invariant that is checked of them side by side.
THEOREM ScreensKeepTheirInvariants ==
  ScreensSpec =>
    []( /\ FreshIsOwn /\ FreshShowsChanges /\ NeverReusesStaleKey /\ CredentialsSurvive
        /\ CopiesAgree /\ RatedCardGivesWayToTheNext /\ OpensNothingLocked
        /\ OneCelebrationPerUnlock /\ KeptOncePerConversation /\ NoSessionLeftBehind
        /\ ShownIsKept )
<1> QED
  BY EachScreenAlone, OwnDataOnly, ChangesAreShown, NoStaleKey, SessionSurvives,
     CopiesStayTogether, NextCardFollows, NothingLockedOpens, CelebratesOnce,
     TurnsKeptOnce, NoneLeftBehind, ProfileIsTruthful, PTL
================================================================================

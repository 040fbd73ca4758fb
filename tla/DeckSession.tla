------------------------------ MODULE DeckSession ------------------------------
(***************************************************************************)
(* Studying a deck of flashcards: mobile/src/screens/FlashcardsScreen.tsx  *)
(* over GET /flashcards and POST /flashcards/{id}/review.                  *)
(*                                                                         *)
(* The screen shows one card of the deck at an index it keeps itself, and  *)
(* the deck shrinks under that index: a rated card leaves the due deck     *)
(* when the list is fetched again.  The server's order matters for the due *)
(* cards alone; which learned card the index points at is left open.       *)
(***************************************************************************)
EXTENDS Naturals, FiniteSets, Sequences, SequencesExt

CONSTANTS
  DeckCards,        (* The learner's cards.                                   *)
  Decks,            (* A planet's deck, the pending module's.                 *)
  CardsOf,          (* Per deck: its cards.                                   *)
  Reviews,          (* Identities of review calls: how many are out at once.  *)
  NoDeck,           (* The list of decks is on screen.                        *)
  NoReview          (* A review call not in use.                              *)

ASSUME EveryDeckHasCards == CardsOf \in [Decks -> (SUBSET DeckCards) \ {{}}]
ASSUME NoDeckIsNoDeck == NoDeck \notin Decks
ASSUME CardsAreFinite == IsFiniteSet(DeckCards)

VARIABLES
  dueOnServer,      (* Due cards, in order of next_review_at.                 *)
  dueListed,        (* The same in the list last fetched.                     *)
  loaded,           (* A list has arrived.                                    *)
  refetch,          (* A fetch of the list is out.                            *)
  deck,             (* activeDeckId.                                          *)
  index, flipped, showLearned,
  review,           (* Per review call: its progress.                         *)
  rated             (* History: the due card last rated, those around it.     *)

deckVars == << dueOnServer, dueListed, loaded, refetch, deck, index, flipped,
               showLearned, review, rated >>

Nothing == << >>

(***************************************************************************)
(* What is on screen                                                       *)
(***************************************************************************)

InDeck(c) == deck = "all" \/ (deck \in Decks /\ c \in CardsOf[deck])
DueDeck == {c \in ToSet(dueListed) : InDeck(c)}
LearnedDeck == {c \in DeckCards \ ToSet(dueListed) : InDeck(c)}

\* The deck keeps the order of the list.
Sooner(list, c, d) == \E i, j \in DOMAIN list : i < j /\ list[i] = c /\ list[j] = d
CardsBefore(c) == {d \in DueDeck : Sooner(dueListed, d, c)}
CardsAfter(c) == {d \in DueDeck : Sooner(dueListed, c, d)}

\* Opening a deck with nothing due falls back to the Learned tab.
ShowLearnedActive == showLearned \/ DueDeck = {}

Listed == IF ShowLearnedActive THEN LearnedDeck ELSE DueDeck

Shown ==
  LET last == Cardinality(DueDeck) - 1
      at   == IF index <= last THEN index ELSE last
  IN  IF ShowLearnedActive THEN LearnedDeck
      ELSE {c \in DueDeck : Cardinality(CardsBefore(c)) = at}

Screen ==
  CASE deck = NoDeck -> "decks"
    [] deck # NoDeck /\ ~loaded -> "loading"
    [] deck # NoDeck /\ loaded /\ Listed = {} -> "empty"
    [] OTHER -> "card"

\* Nothing is out: no review, no fetch of the list.
Settled == ~refetch /\ \A r \in Reviews : review[r] = NoReview

\* RatingButtons are mounted only over a flipped card; when they unmount, the calls
\* they made are out of reach of their callbacks.
Unmounted ==
  [r \in Reviews |-> IF review[r] = NoReview THEN NoReview
                     ELSE [review[r] EXCEPT !.attached = FALSE, !.size = 0]]

DeckInit ==
  /\ dueOnServer \in SetToAllKPermutations(DeckCards)
  /\ dueListed = << >> /\ loaded = FALSE /\ refetch = TRUE
  /\ deck \in {NoDeck, "all"} \cup Decks
  /\ index = 0 /\ flipped = FALSE /\ showLearned = FALSE
  /\ review = [r \in Reviews |-> NoReview] /\ rated = Nothing

(***************************************************************************)
(* The learner                                                             *)
(***************************************************************************)

\* The index, the side and the tab are the screen's own: they outlive the deck.
OpenDeck(d) ==
  /\ Screen = "decks"
  /\ deck' = d
  /\ rated' = Nothing
  /\ UNCHANGED << dueOnServer, dueListed, loaded, refetch, index, flipped, showLearned, review >>

CloseDeck ==
  /\ deck # NoDeck
  /\ deck' = NoDeck
  /\ review' = Unmounted
  /\ rated' = Nothing
  /\ UNCHANGED << dueOnServer, dueListed, loaded, refetch, index, flipped, showLearned >>

\* Another tab and back, on the deck the ui store still holds.
ReopenTab ==
  /\ index' = 0 /\ flipped' = FALSE /\ showLearned' = FALSE
  /\ review' = Unmounted /\ rated' = Nothing
  /\ UNCHANGED << dueOnServer, dueListed, loaded, refetch, deck >>

ChooseTab(learned) ==
  /\ Screen = "card"
  /\ IF learned THEN LearnedDeck # {} ELSE DueDeck # {}
  /\ showLearned' = learned /\ index' = 0 /\ flipped' = FALSE
  /\ review' = Unmounted /\ rated' = Nothing
  /\ UNCHANGED << dueOnServer, dueListed, loaded, refetch, deck >>

FlipCard ==
  /\ Screen = "card"
  /\ flipped' = ~flipped
  /\ review' = IF flipped THEN Unmounted ELSE review
  /\ UNCHANGED << dueOnServer, dueListed, loaded, refetch, deck, index, showLearned, rated >>

\* The buttons are disabled while their own call is out.  The call keeps the callback
\* of the moment it was made: next() in the due deck (size 0), which stays, or in a
\* Learned deck of a size.
Rate(r, c) ==
  /\ Screen = "card" /\ flipped /\ c \in Shown
  /\ review[r] = NoReview
  /\ \A s \in Reviews : review[s] # NoReview => ~review[s].attached
  /\ review' = [review EXCEPT ![r] =
       [card |-> c, served |-> FALSE, attached |-> TRUE,
        size |-> IF ShowLearnedActive THEN Cardinality(LearnedDeck) ELSE 0]]
  /\ rated' = Nothing
  /\ UNCHANGED << dueOnServer, dueListed, loaded, refetch, deck, index, flipped, showLearned >>

(***************************************************************************)
(* The calls                                                               *)
(***************************************************************************)

Without(list, c) ==
  IF c \in ToSet(list) THEN RemoveAt(list, CHOOSE i \in DOMAIN list : list[i] = c) ELSE list

\* Every rating schedules the card a day away or more.
ServeReview(r) ==
  /\ review[r] # NoReview /\ ~review[r].served
  /\ dueOnServer' = Without(dueOnServer, review[r].card)
  /\ review' = [review EXCEPT ![r].served = TRUE]
  /\ UNCHANGED << dueListed, loaded, refetch, deck, index, flipped, showLearned, rated >>

\* The learner asked for the next card: in the Learned deck the index moves on, in
\* the due deck the refetch takes the rated card from under it.
NextAlways(size) == IF size = 0 THEN index + 1 ELSE (index + 1) % size
NextIndex(size) == IF size = 0 THEN index ELSE (index + 1) % size

ReviewSucceeds(r) ==
  /\ review[r] # NoReview /\ review[r].served
  /\ review' = [review EXCEPT ![r] = NoReview]
  /\ refetch' = TRUE
  /\ IF review[r].attached
     THEN /\ flipped' = FALSE
          /\ index' = NextIndex(review[r].size)
          /\ rated' = IF review[r].size = 0 /\ ~ShowLearnedActive /\ Shown = {review[r].card}
                      THEN [card |-> review[r].card, before |-> CardsBefore(review[r].card),
                            after |-> CardsAfter(review[r].card)]
                      ELSE Nothing
     ELSE UNCHANGED << flipped, index, rated >>
  /\ UNCHANGED << dueOnServer, dueListed, loaded, deck, showLearned >>

ReviewFails(r) ==
  /\ review[r] # NoReview
  /\ review' = [review EXCEPT ![r] = NoReview]
  /\ UNCHANGED << dueOnServer, dueListed, loaded, refetch, deck, index, flipped, showLearned,
                  rated >>

\* The list arrives; a fetch a later mutation overtook was dropped and asked again.
\* A card that goes from the screen takes its buttons with it.
CardsArrive ==
  /\ refetch
  /\ refetch' = FALSE /\ loaded' = TRUE
  /\ dueListed' = dueOnServer
  /\ UNCHANGED << dueOnServer, deck, index, flipped, showLearned >>
  /\ review' = IF Screen' = "card" THEN review ELSE Unmounted
  /\ rated' = IF ShowLearnedActive' THEN Nothing ELSE rated

\* Its day comes, and the list is fetched again at some later focus.  A card rated
\* is away for a day, longer than any call.
BecomesDue(c) ==
  /\ c \notin ToSet(dueOnServer) \cup ToSet(dueListed)
  /\ \A r \in Reviews : review[r] # NoReview => review[r].card # c
  /\ dueOnServer' = Append(dueOnServer, c)
  /\ refetch' = TRUE
  /\ rated' = IF rated # Nothing /\ rated.card \in ToSet(dueListed) THEN rated ELSE Nothing
  /\ UNCHANGED << dueListed, loaded, deck, index, flipped, showLearned, review >>

DeckNext ==
  \/ \E d \in Decks \cup {"all"} : OpenDeck(d)
  \/ CloseDeck
  \/ ReopenTab
  \/ \E learned \in BOOLEAN : ChooseTab(learned)
  \/ FlipCard
  \/ \E r \in Reviews, c \in DeckCards : Rate(r, c)
  \/ \E r \in Reviews : ServeReview(r)
  \/ \E r \in Reviews : ReviewSucceeds(r)
  \/ \E r \in Reviews : ReviewFails(r)
  \/ CardsArrive
  \/ \E c \in DeckCards : BecomesDue(c)

DeckSpec == DeckInit /\ [][DeckNext]_deckVars

DeckTypeOK ==
  /\ dueOnServer \in Seq(DeckCards) /\ dueListed \in Seq(DeckCards)
  /\ loaded \in BOOLEAN /\ refetch \in BOOLEAN
  /\ deck \in Decks \cup {"all", NoDeck}
  /\ index \in 0 .. Cardinality(DeckCards)
  /\ flipped \in BOOLEAN /\ showLearned \in BOOLEAN
  /\ review \in [Reviews -> [card : DeckCards, served : BOOLEAN, attached : BOOLEAN,
                             size : 0 .. Cardinality(DeckCards)] \cup {NoReview}]
  /\ \/ rated = Nothing
     \/ rated \in [card : DeckCards, before : SUBSET DeckCards, after : SUBSET DeckCards]

(***************************************************************************)
(* Properties                                                              *)
(***************************************************************************)

\* "The refetch drops it and the current index already lands on the card that followed
\* it", says next(): once the list has been fetched again after a rating, the card on
\* screen is the first still due of those that came after the rated one, whatever other
\* calls, fetches and newly due cards did to the list; unless a card before it, rated
\* under the same list, has gone with it: that moves the rest up past the index.
RatedCardGivesWayToTheNext ==
  Settled /\ rated # Nothing /\ ~ShowLearnedActive /\ rated.before \subseteq DueDeck
  => LET waiting == rated.after \cap DueDeck
     IN  waiting # {} => \E c \in waiting : Shown = {c} /\ CardsBefore(c) \cap waiting = {}
=============================================================================

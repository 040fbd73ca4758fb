----------------------------- MODULE MCDeckSession -----------------------------
(***************************************************************************)
(* An instance of DeckSession for TLC: every planet's deck is PlanetCards, *)
(* and the other cards are only in the deck of all cards.                  *)
(***************************************************************************)
EXTENDS DeckSession
CONSTANT PlanetCards
MCCardsOf == [d \in Decks |-> PlanetCards]
=============================================================================

---------------------------- MODULE MCBlackjack ----------------------------
(***************************************************************************)
(* Small decks for Blackjack. TinyDeck has a blackjack, a bust and sums on *)
(* both sides of 17, and runs out within a round; AceDeck deals two aces   *)
(* to one hand.                                                            *)
(***************************************************************************)
EXTENDS Blackjack

Card(v, s) == [value |-> v, suit |-> s]

TinyDeck == {Card("ace", "hearts"), Card("king", "hearts"),
             Card("nine", "clubs"), Card("seven", "hearts")}

AceDeck == {Card("ace", "hearts"), Card("ace", "spades"), Card("five", "hearts"),
            Card("six", "clubs"), Card("king", "clubs"), Card("nine", "clubs")}
=============================================================================

-------------------------- MODULE BlackjackProofs --------------------------
(***************************************************************************)
(* The game of blackjack: the deck stays whole, a round is paid once and   *)
(* by the rules, cards are drawn by the rules, and the status line agrees  *)
(* with the money, for every deck of the thirteen ranks and every number   *)
(* of rounds.                                                              *)
(*                                                                         *)
(* The sums of cards are recursive functions. That they are natural        *)
(* numbers, and that two cards never make more than 21, is proved first;   *)
(* from there on a sum is just a number.                                   *)
(***************************************************************************)
EXTENDS Blackjack, Finiteness

(* The types of all variables, with the sequences that TypeOK only gives   *)
(* the range of.                                                           *)
InstType ==
  [firsthit : BOOLEAN, insured : BOOLEAN, over : BOOLEAN, forfeited : BOOLEAN,
   betReal : Nat, bet : Nat, rules : BOOLEAN, reveal : BOOLEAN,
   started : BOOLEAN, dealer : Seq(Deck), player : Seq(Deck),
   hand : SUBSET Deck, stash : SUBSET Deck]

TypeInv ==
  /\ balance \in Int
  /\ inst \in InstType
  /\ round \in [number : 0 .. MaxRounds, before : Int, stake : Nat, doubled : BOOLEAN]
  /\ pc \in {"idle", "deal", "play", "stand", "end"}
  /\ click \in Controls

(* Before the first round, and while the first four cards are dealt.       *)
DealInv ==
  /\ ~inst.started => pc \in {"idle", "end"} /\ inst.over /\ ~inst.reveal
  /\ pc = "deal" =>
       /\ ~inst.over /\ ~inst.reveal /\ ~inst.insured /\ ~inst.forfeited /\ ~round.doubled
       /\ Len(inst.player) < 2
       /\ Len(inst.dealer) \in {Len(inst.player), Len(inst.player) + 1}
       /\ Len(inst.dealer) <= 2

(* How the flags of a started round follow from its cards in each part of  *)
(* the frame: between the parts, over and reveal may be behind the cards,  *)
(* and the dealer draws (pc = "stand") only in a round that is still open. *)
OverInv ==
  inst.started =>
    /\ inst.over => isGameOver(inst) /\ inst.reveal
    /\ pc \in {"idle", "play"} /\ isGameOver(inst) => inst.over
    /\ pc \in {"deal", "stand"} => ~inst.over
    /\ inst.reveal \/ round.doubled => isGameOver(inst) \/ pc = "stand"
    /\ pc = "stand" => Sum(inst.player) < 21 /\ ~inst.forfeited

(* No hand is drawn to that should not be. A third card of the dealer says *)
(* that the player is not bust, so that never both are.                    *)
CardsInv ==
  /\ Len(inst.dealer) > 2 => Sum(Front(inst.dealer)) < 17 /\ Sum(inst.player) < 21
  /\ Len(inst.player) > 2 => Sum(Front(inst.player)) < 21
  /\ inst.started /\ pc # "deal" =>
       Len(inst.dealer) >= 2 /\ (~inst.reveal => Len(inst.dealer) = 2)

Stake == IF round.doubled THEN 2 * round.stake ELSE round.stake
Natural == Sum(inst.dealer) = 21 /\ Len(inst.dealer) = 2
Result == IF inst.forfeited THEN -1 ELSE Outcome(Sum(inst.player), Sum(inst.dealer))

(* The books of a round, paid or open, in every part of the frame.         *)
MoneyInv ==
  inst.started =>
    /\ ~inst.over => inst.bet = Stake
    /\ balance - round.before =
         (IF inst.over THEN Result * Stake ELSE -Stake)
         - (IF inst.insured THEN round.stake \div 2 ELSE 0)
         + (IF inst.insured /\ Natural THEN round.stake ELSE 0)

IInv == TypeInv /\ DeckWhole /\ DealInv /\ OverInv /\ CardsInv /\ MoneyInv

-----------------------------------------------------------------------------
(* The sums of cards                                                       *)

(* A rank is worth at most ten points, and an ace none to begin with.      *)
LEMMA WorthType ==
  \A v \in DOMAIN Worth : Worth[v] \in 0 .. 10 /\ (v = "ace" => Worth[v] = 0)
  BY DEF Worth

(* What the two functions of Sums are chosen for.                          *)
PlainOf(f, cards) ==
  f = [k \in 0 .. Len(cards) |-> IF k = 0 THEN 0 ELSE f[k - 1] + Worth[cards[k].value]]

UptoOf(f, plain, cards) ==
  f = [k \in 0 .. Len(cards) |->
        IF k = 0 THEN plain[Len(cards)]
        ELSE LET sum == f[k - 1]
             IN IF IsAce(cards[k]) THEN sum + AceWorth(sum) ELSE sum]

(* There is such a function: it can be built one card at a time.           *)
LEMMA PlainExists ==
  ASSUME NEW cards \in Seq(Deck)
  PROVE  \E f : f \in [0 .. Len(cards) -> Nat] /\ PlainOf(f, cards)
  <1> DEFINE n == Len(cards)
             step == [k \in 1 .. n |-> [v \in Nat |-> v + Worth[cards[k].value]]]
  <1>1. \A k \in 1 .. n : Worth[cards[k].value] \in Nat
    BY CardAssumption, WorthType
  <1>2. Recursion(Nat, 0, n, step)
    BY <1>1 DEF Recursion
  <1>3. PICK f : Solves(f, Nat, 0, n, step)
    <2> HIDE DEF n, step
    <2> QED
      BY <1>2, RecursionExists
  <1>4. f \in [0 .. n -> Nat] /\ f[0] = 0
    BY <1>3 DEF Solves
  <1>5. ASSUME NEW k \in 1 .. n PROVE f[k] = f[k - 1] + Worth[cards[k].value]
    <2>1. f[k] = step[k][f[k - 1]]
      BY <1>3 DEF Solves
    <2>2. f[k - 1] \in Nat
      BY <1>4
    <2> QED
      BY <2>1, <2>2
  <1>6. f = [k \in 0 .. n |-> IF k = 0 THEN 0 ELSE f[k - 1] + Worth[cards[k].value]]
    BY <1>4, <1>5
  <1> QED
    BY <1>4, <1>6 DEF PlainOf

(* The same for the function that adds the aces.                           *)
LEMMA UptoExists ==
  ASSUME NEW cards \in Seq(Deck), NEW plain \in [0 .. Len(cards) -> Nat]
  PROVE  \E f : f \in [0 .. Len(cards) -> Nat] /\ UptoOf(f, plain, cards)
  <1> DEFINE n == Len(cards)
             next(k, v) == IF IsAce(cards[k]) THEN v + AceWorth(v) ELSE v
             step == [k \in 1 .. n |-> [v \in Nat |-> next(k, v)]]
  <1>1. \A k \in 1 .. n, v \in Nat : next(k, v) \in Nat
    BY DEF AceWorth
  <1> HIDE DEF next
  <1>2. Recursion(Nat, plain[n], n, step)
    BY <1>1 DEF Recursion
  <1>3. PICK f : Solves(f, Nat, plain[n], n, step)
    <2> HIDE DEF n, step
    <2> QED
      BY <1>2, RecursionExists
  <1>4. f \in [0 .. n -> Nat] /\ f[0] = plain[n]
    BY <1>3 DEF Solves
  <1>5. ASSUME NEW k \in 1 .. n PROVE f[k] = next(k, f[k - 1])
    <2>1. f[k] = step[k][f[k - 1]]
      BY <1>3 DEF Solves
    <2>2. f[k - 1] \in Nat
      BY <1>4
    <2> QED
      BY <2>1, <2>2
  <1>6. f = [k \in 0 .. n |-> IF k = 0 THEN plain[n] ELSE next(k, f[k - 1])]
    BY <1>4, <1>5
  <1> QED
    BY <1>4, <1>6 DEF UptoOf, next

(* So Sums is the function its equation says, and there is only one.       *)
LEMMA SumsDef ==
  ASSUME NEW cards \in Seq(Deck)
  PROVE  \E plain \in [0 .. Len(cards) -> Nat] :
           /\ PlainOf(plain, cards)
           /\ Sums(cards) \in [0 .. Len(cards) -> Nat]
           /\ UptoOf(Sums(cards), plain, cards)
  <1> DEFINE plain == CHOOSE f : PlainOf(f, cards)
  <1>1. Sums(cards) = CHOOSE f : UptoOf(f, plain, cards)
    BY DEF Sums, UptoOf, PlainOf
  <1>2. PICK p : p \in [0 .. Len(cards) -> Nat] /\ PlainOf(p, cards)
    BY PlainExists
  <1>3. PlainOf(plain, cards)
    BY <1>2
  <1> HIDE DEF plain
  <1>4. plain = p
    <2>1. \A f : PlainOf(f, cards) =>
            /\ DOMAIN f = 0 .. Len(cards) /\ f = [k \in 0 .. Len(cards) |-> f[k]]
            /\ f[0] = 0
            /\ \A k \in 1 .. Len(cards) : f[k] = f[k - 1] + Worth[cards[k].value]
      BY DEF PlainOf
    <2>2. Len(cards) \in Nat
      OBVIOUS
    <2> QED
      BY <1>2, <1>3, <2>1, <2>2, RecursionUnique
  <1>5. PICK u : u \in [0 .. Len(cards) -> Nat] /\ UptoOf(u, plain, cards)
    BY <1>2, <1>4, UptoExists
  <1>6. UptoOf(Sums(cards), plain, cards)
    BY <1>1, <1>5
  <1>7. Sums(cards) = u
    <2>1. \A f : UptoOf(f, plain, cards) =>
            /\ DOMAIN f = 0 .. Len(cards) /\ f = [k \in 0 .. Len(cards) |-> f[k]]
            /\ f[0] = plain[Len(cards)]
            /\ \A k \in 1 .. Len(cards) :
                 f[k] = IF IsAce(cards[k]) THEN f[k - 1] + AceWorth(f[k - 1]) ELSE f[k - 1]
      BY DEF UptoOf
    <2>2. Len(cards) \in Nat
      OBVIOUS
    <2> DEFINE s == Sums(cards)
    <2>3. /\ DOMAIN u = 0 .. Len(cards) /\ u = [k \in 0 .. Len(cards) |-> u[k]]
          /\ u[0] = plain[Len(cards)]
          /\ \A k \in 1 .. Len(cards) :
                 u[k] = IF IsAce(cards[k]) THEN u[k - 1] + AceWorth(u[k - 1]) ELSE u[k - 1]
      BY <1>5, <2>1
    <2>4. /\ DOMAIN s = 0 .. Len(cards) /\ s = [k \in 0 .. Len(cards) |-> s[k]]
          /\ s[0] = plain[Len(cards)]
          /\ \A k \in 1 .. Len(cards) :
                 s[k] = IF IsAce(cards[k]) THEN s[k - 1] + AceWorth(s[k - 1]) ELSE s[k - 1]
      BY <1>6, <2>1
    <2> HIDE DEF s
    <2>5. \A k \in 1 .. Len(cards) : s[k - 1] = u[k - 1] => s[k] = u[k]
      BY <2>3, <2>4
    <2>6. s = u
      BY <2>2, <2>3, <2>4, <2>5, RecursionUnique
    <2> QED
      BY <2>6 DEF s
  <1> QED
    BY <1>2, <1>3, <1>4, <1>5, <1>6, <1>7

(* A sum of cards is a natural number.                                     *)
LEMMA SumType ==
  ASSUME NEW cards \in Seq(Deck)
  PROVE  Sum(cards) \in Nat
  BY SumsDef DEF Sum

(* Two cards never make more than 21.                                      *)
LEMMA SmallSum ==
  ASSUME NEW cards \in Seq(Deck), Len(cards) <= 2
  PROVE  Sum(cards) <= 21
  <1>1. PICK plain \in [0 .. Len(cards) -> Nat] :
           /\ PlainOf(plain, cards)
           /\ Sums(cards) \in [0 .. Len(cards) -> Nat]
           /\ UptoOf(Sums(cards), plain, cards)
    BY SumsDef
  <1> DEFINE w(k) == Worth[cards[k].value]
             a(k, v) == IF IsAce(cards[k]) THEN v + AceWorth(v) ELSE v
  <1>2. \A k \in 1 .. Len(cards) : w(k) \in 0 .. 10 /\ (IsAce(cards[k]) => w(k) = 0)
    BY CardAssumption, WorthType DEF IsAce
  <1>3. \A k \in 1 .. Len(cards) : plain[k] = plain[k - 1] + w(k)
    BY <1>1 DEF PlainOf
  <1>4. plain[0] = 0
    BY <1>1 DEF PlainOf
  <1>5. Sums(cards)[0] = plain[Len(cards)]
    BY <1>1 DEF UptoOf
  <1>6. \A k \in 1 .. Len(cards) : Sums(cards)[k] = a(k, Sums(cards)[k - 1])
    BY <1>1 DEF UptoOf
  <1> HIDE DEF w
  <1>7. CASE Len(cards) = 0
    BY <1>7, <1>4, <1>5 DEF Sum
  <1>8. CASE Len(cards) = 1
    <2>1. Sums(cards)[0] = w(1)
      BY <1>8, <1>2, <1>3, <1>4, <1>5
    <2> QED
      BY <1>8, <2>1, <1>2, <1>6 DEF Sum, AceWorth
  <1>9. CASE Len(cards) = 2
    <2>0. Sum(cards) = Sums(cards)[2]
      BY <1>9 DEF Sum
    <2>1. plain[1] = w(1)
      BY <1>9, <1>2, <1>3, <1>4
    <2>2. Sums(cards)[0] = w(1) + w(2)
      BY <1>9, <1>2, <1>3, <1>5, <2>1
    <2>3. Sums(cards)[1] = a(1, w(1) + w(2)) /\ Sums(cards)[2] = a(2, Sums(cards)[1])
      BY <1>9, <1>6, <2>2
    <2>4. /\ w(1) \in 0 .. 10 /\ (IsAce(cards[1]) => w(1) = 0)
          /\ w(2) \in 0 .. 10 /\ (IsAce(cards[2]) => w(2) = 0)
      BY <1>9, <1>2
    <2>5. CASE IsAce(cards[1])
      <3>1. Sums(cards)[1] = IF w(2) = 10 THEN 21 ELSE w(2) + 10
        BY <2>3, <2>4, <2>5 DEF AceWorth
      <3>2. Sums(cards)[1] \in 0 .. 21 /\ (w(2) = 0 => Sums(cards)[1] = 10)
        BY <3>1, <2>4
      <3>3. Sums(cards)[2] \in 0 .. 21
        BY <3>2, <2>3, <2>4 DEF AceWorth
      <3> QED
        BY ONLY <2>0, <3>3
    <2>6. CASE ~IsAce(cards[1])
      <3>1. Sums(cards)[1] = w(1) + w(2)
        BY <2>3, <2>6
      <3> QED
        BY <2>0, <3>1, <2>3, <2>4 DEF AceWorth
    <2> QED
      BY <2>5, <2>6
  <1> QED
    BY <1>7, <1>8, <1>9

-----------------------------------------------------------------------------
(* A hand with one more card, and the hand before it.                      *)
LEMMA AppendFront ==
  ASSUME NEW s \in Seq(Deck), NEW card \in Deck
  PROVE  /\ Append(s, card) \in Seq(Deck) /\ Len(Append(s, card)) = Len(s) + 1
         /\ Front(Append(s, card)) = s
  <1>1. Append(s, card) \in Seq(Deck) /\ Len(Append(s, card)) = Len(s) + 1
    OBVIOUS
  <1>2. Front(Append(s, card)) = SubSeq(Append(s, card), 1, Len(s))
    BY <1>1 DEF Front
  <1> QED
    BY <1>1, <1>2

(* drawCard: what it changes and what it leaves alone.                     *)
LEMMA DrawnFields ==
  ASSUME NEW g \in InstType, NEW card \in Drawable(g),
         NEW side \in {"dealer", "player"}, NEW d, d = Drawn(g, side, card)
  PROVE  /\ d \in InstType /\ card \in Deck
         /\ d.hand = Drawable(g) \ {card}
         /\ d.stash = (IF g.hand = {} THEN {} ELSE g.stash) \cup {card}
         /\ d.dealer = IF side = "dealer" THEN Append(g.dealer, card) ELSE g.dealer
         /\ d.player = IF side = "player" THEN Append(g.player, card) ELSE g.player
         /\ d.firsthit = g.firsthit /\ d.insured = g.insured /\ d.over = g.over
         /\ d.forfeited = g.forfeited /\ d.betReal = g.betReal /\ d.bet = g.bet
         /\ d.rules = g.rules /\ d.reveal = g.reveal /\ d.started = g.started
  <1>1. Drawable(g) \subseteq Deck
    BY DEF Drawable, InstType
  <1>2. Append(g.dealer, card) \in Seq(Deck) /\ Append(g.player, card) \in Seq(Deck)
    BY <1>1 DEF InstType
  <1>3. CASE side = "dealer"
    <2>1. d = [g EXCEPT !.hand = Drawable(g) \ {card},
                 !.stash = (IF g.hand = {} THEN {} ELSE g.stash) \cup {card},
                 !.dealer = Append(g.dealer, card)]
      BY <1>3 DEF Drawn
    <2>2. Drawable(g) \ {card} \in SUBSET Deck
          /\ (IF g.hand = {} THEN {} ELSE g.stash) \cup {card} \in SUBSET Deck
      BY <1>1 DEF InstType
    <2> DEFINE h == Drawable(g) \ {card}
               t == (IF g.hand = {} THEN {} ELSE g.stash) \cup {card}
    <2> HIDE DEF h, t
    <2>3. d \in InstType
      BY <1>2, <2>1, <2>2 DEF InstType, h, t
    <2>4. /\ d.hand = h /\ d.stash = t
          /\ d.dealer = IF side = "dealer" THEN Append(g.dealer, card) ELSE g.dealer
          /\ d.player = IF side = "player" THEN Append(g.player, card) ELSE g.player
      BY <1>3, <2>1 DEF InstType, h, t
    <2>5. /\ d.firsthit = g.firsthit /\ d.insured = g.insured /\ d.over = g.over
          /\ d.forfeited = g.forfeited /\ d.betReal = g.betReal /\ d.bet = g.bet
          /\ d.rules = g.rules /\ d.reveal = g.reveal /\ d.started = g.started
      BY <2>1 DEF InstType
    <2> QED
      BY <1>1, <2>3, <2>4, <2>5 DEF h, t
  <1>4. CASE side = "player"
    <2>1. d = [g EXCEPT !.hand = Drawable(g) \ {card},
                 !.stash = (IF g.hand = {} THEN {} ELSE g.stash) \cup {card},
                 !.player = Append(g.player, card)]
      BY <1>4 DEF Drawn
    <2>2. Drawable(g) \ {card} \in SUBSET Deck
          /\ (IF g.hand = {} THEN {} ELSE g.stash) \cup {card} \in SUBSET Deck
      BY <1>1 DEF InstType
    <2> DEFINE h == Drawable(g) \ {card}
               t == (IF g.hand = {} THEN {} ELSE g.stash) \cup {card}
    <2> HIDE DEF h, t
    <2>3. d \in InstType
      BY <1>2, <2>1, <2>2 DEF InstType, h, t
    <2>4. /\ d.hand = h /\ d.stash = t
          /\ d.dealer = IF side = "dealer" THEN Append(g.dealer, card) ELSE g.dealer
          /\ d.player = IF side = "player" THEN Append(g.player, card) ELSE g.player
      BY <1>4, <2>1 DEF InstType, h, t
    <2>5. /\ d.firsthit = g.firsthit /\ d.insured = g.insured /\ d.over = g.over
          /\ d.forfeited = g.forfeited /\ d.betReal = g.betReal /\ d.bet = g.bet
          /\ d.rules = g.rules /\ d.reveal = g.reveal /\ d.started = g.started
      BY <2>1 DEF InstType
    <2> QED
      BY <1>1, <2>3, <2>4, <2>5 DEF h, t
  <1> QED
    BY <1>3, <1>4

(* drawCard, with or without the reshuffle, keeps the deck whole.          *)
LEMMA DrawnDeck ==
  ASSUME NEW g \in InstType, NEW card \in Drawable(g), NEW d,
         d.hand = Drawable(g) \ {card},
         d.stash = (IF g.hand = {} THEN {} ELSE g.stash) \cup {card},
         g.hand \cup g.stash = Deck, g.hand \cap g.stash = {}
  PROVE  d.hand \cup d.stash = Deck /\ d.hand \cap d.stash = {}
  BY DEF Drawable

-----------------------------------------------------------------------------
(* The hands of an instance and their sums.                                *)
LEMMA SumsNat ==
  ASSUME NEW g \in InstType
  PROVE  /\ g.dealer \in Seq(Deck) /\ g.player \in Seq(Deck)
         /\ Sum(g.dealer) \in Nat /\ Sum(g.player) \in Nat
  BY SumType DEF InstType

(* When a control of the round is worked, the round is open, the dealer    *)
(* has two cards, and only the stake and the insurance have been paid.     *)
LEMMA PlayingFacts ==
  ASSUME IInv, Playing
  PROVE  /\ inst.started /\ ~inst.over /\ ~inst.reveal /\ ~inst.forfeited
         /\ ~round.doubled /\ Len(inst.dealer) = 2
         /\ Sum(inst.player) < 21 /\ Sum(inst.dealer) <= 21
         /\ inst.bet = round.stake
         /\ balance - round.before =
              (IF inst.insured THEN - (round.stake \div 2) ELSE 0)
              + (IF inst.insured /\ Natural THEN round.stake ELSE 0) - round.stake
  <1>1. pc = "play" /\ ~isGameOver(inst) /\ TypeInv
    BY DEF Playing, IInv
  <1>2. inst.started
    BY <1>1 DEF IInv, DealInv
  <1>3. ~inst.over /\ ~inst.reveal /\ ~round.doubled
    BY <1>1, <1>2 DEF IInv, OverInv
  <1>4. Sum(inst.player) \in Nat /\ Sum(inst.dealer) \in Nat
    BY <1>1, SumsNat DEF TypeInv
  <1>5. Sum(inst.player) < 21 /\ Sum(inst.dealer) <= 21 /\ ~inst.forfeited
    BY <1>1, <1>4 DEF isGameOver
  <1>6. Len(inst.dealer) = 2
    BY <1>1, <1>2, <1>3 DEF IInv, CardsInv
  <1>7. inst.bet = round.stake
    BY <1>2, <1>3 DEF IInv, MoneyInv, Stake
  <1>8. round.stake \in Nat /\ round.stake \div 2 \in Nat /\ balance \in Int /\ round.before \in Int
    BY <1>1 DEF TypeInv
  <1>9. balance - round.before =
              -round.stake
              - (IF inst.insured THEN round.stake \div 2 ELSE 0)
              + (IF inst.insured /\ Natural THEN round.stake ELSE 0)
    BY <1>2, <1>3 DEF IInv, MoneyInv, Stake
  <1>10. balance - round.before =
              (IF inst.insured THEN - (round.stake \div 2) ELSE 0)
              + (IF inst.insured /\ Natural THEN round.stake ELSE 0) - round.stake
    BY <1>8, <1>9
  <1> QED
    BY <1>2, <1>3, <1>5, <1>6, <1>7, <1>10

(* Hit is worked.                                                          *)
LEMMA HitStep ==
  ASSUME IInv, Hit
  PROVE  IInv'
  <1>1. PICK card \in Drawable(inst) :
          inst' = [Drawn(inst, "player", card) EXCEPT !.firsthit = FALSE]
    BY DEF Hit
  <1>2. /\ pc' = "end" /\ click' = "none" /\ balance' = balance /\ round' = round
        /\ TypeInv /\ Playing
    BY DEF Hit, IInv
  <1>3. inst \in InstType
    BY <1>2 DEF TypeInv
  <1> DEFINE d == Drawn(inst, "player", card)
  <1>4. /\ d \in InstType /\ card \in Deck
        /\ d.hand = Drawable(inst) \ {card}
        /\ d.stash = (IF inst.hand = {} THEN {} ELSE inst.stash) \cup {card}
        /\ d.dealer = inst.dealer /\ d.player = Append(inst.player, card)
        /\ d.insured = inst.insured /\ d.over = inst.over
        /\ d.forfeited = inst.forfeited /\ d.bet = inst.bet
        /\ d.reveal = inst.reveal /\ d.started = inst.started
    BY <1>3, DrawnFields
  <1> HIDE DEF d
  <1>5. inst' = [d EXCEPT !.firsthit = FALSE]
    BY <1>1 DEF d
  <1>6. inst' \in InstType
    BY <1>4, <1>5 DEF InstType
  <1>7. /\ inst'.hand = Drawable(inst) \ {card}
        /\ inst'.stash = (IF inst.hand = {} THEN {} ELSE inst.stash) \cup {card}
        /\ inst'.dealer = inst.dealer /\ inst'.player = Append(inst.player, card)
        /\ inst'.insured = inst.insured /\ inst'.over = inst.over
        /\ inst'.forfeited = inst.forfeited /\ inst'.bet = inst.bet
        /\ inst'.reveal = inst.reveal /\ inst'.started = inst.started
    BY <1>4, <1>5 DEF InstType
  <1>8. /\ inst.started /\ ~inst.over /\ ~inst.reveal /\ ~inst.forfeited
        /\ ~round.doubled /\ Len(inst.dealer) = 2
        /\ Sum(inst.player) < 21
    BY <1>2, PlayingFacts
  <1>9. Front(Append(inst.player, card)) = inst.player
    BY <1>3, <1>4, AppendFront, SumsNat
  <1>10. TypeInv'
    BY <1>2, <1>6 DEF TypeInv, Controls
  <1>11. DeckWhole'
    BY <1>3, <1>7, DrawnDeck DEF DeckWhole, IInv
  <1>12. DealInv'
    BY <1>2, <1>7, <1>8 DEF DealInv
  <1>13. OverInv'
    BY <1>2, <1>7, <1>8 DEF OverInv
  <1>14. CardsInv'
    BY <1>2, <1>7, <1>8, <1>9 DEF CardsInv
  <1>15. MoneyInv'
    BY <1>2, <1>7, <1>8 DEF MoneyInv, IInv, Stake, Result, Natural
  <1> QED
    BY <1>10, <1>11, <1>12, <1>13, <1>14, <1>15 DEF IInv

(* The first state.                                                        *)
LEMMA InitStep ==
  ASSUME Init
  PROVE  IInv
  <1>1. TypeInv
    <2>1. inst \in InstType
      BY DEF Init, InstType
    <2>2. round \in [number : 0 .. MaxRounds, before : Int, stake : Nat, doubled : BOOLEAN]
      BY DeckAssumption DEF Init
    <2> QED
      BY <2>1, <2>2, DeckAssumption DEF Init, TypeInv, Controls
  <1>2. DeckWhole /\ DealInv /\ OverInv /\ MoneyInv
    BY DEF Init, DeckWhole, DealInv, OverInv, MoneyInv
  <1>3. CardsInv
    BY DEF Init, CardsInv
  <1> QED
    BY <1>1, <1>2, <1>3 DEF IInv

(* New round.                                                              *)
LEMMA NewRoundStep ==
  ASSUME IInv, pc = "idle", NewRound
  PROVE  IInv'
  <1> DEFINE bet == IF balance < 0 /\ inst.bet > 5 THEN 5 ELSE inst.bet
  <1>1. TypeInv /\ inst \in InstType
    BY DEF IInv, TypeInv
  <1>2. bet \in Nat
    BY <1>1 DEF InstType
  <1>3. inst' = [inst EXCEPT !.bet = bet, !.rules = FALSE, !.started = TRUE,
                !.firsthit = TRUE, !.insured = FALSE, !.over = FALSE,
                !.reveal = FALSE, !.forfeited = FALSE,
                !.dealer = <<>>, !.player = <<>>]
    BY DEF NewRound
  <1>4. /\ round' = [number |-> round.number + 1, before |-> balance,
               stake |-> bet, doubled |-> FALSE]
        /\ balance' = balance - bet /\ round.number < MaxRounds
        /\ pc' = "deal" /\ click' = "none"
    BY DEF NewRound
  <1> HIDE DEF bet
  <1>5. <<>> \in Seq(Deck)
    OBVIOUS
  <1>6. inst' \in InstType
    BY <1>1, <1>2, <1>3, <1>5 DEF InstType
  <1>7. /\ inst'.bet = bet /\ inst'.started /\ ~inst'.insured /\ ~inst'.over
        /\ ~inst'.reveal /\ ~inst'.forfeited
        /\ inst'.dealer = <<>> /\ inst'.player = <<>>
        /\ inst'.hand = inst.hand /\ inst'.stash = inst.stash
    BY <1>1, <1>3 DEF InstType
  <1>8. /\ round'.before = balance /\ round'.stake = bet /\ ~round'.doubled
        /\ round'.number = round.number + 1
    BY <1>4
  <1>9. TypeInv'
    <2>1. balance \in Int /\ round.number \in 0 .. MaxRounds
      BY <1>1 DEF TypeInv
    <2>2. round' \in [number : 0 .. MaxRounds, before : Int, stake : Nat, doubled : BOOLEAN]
      BY <2>1, <1>2, <1>4, DeckAssumption
    <2> QED
      BY <2>1, <2>2, <1>2, <1>4, <1>6 DEF TypeInv, Controls
  <1>10. DeckWhole'
    BY <1>7 DEF DeckWhole, IInv
  <1>11. DealInv' /\ OverInv'
    BY <1>4, <1>7, <1>8 DEF DealInv, OverInv
  <1>12. CardsInv'
    BY <1>4, <1>7 DEF CardsInv
  <1>13. MoneyInv'
    <2>1. balance \in Int
      BY <1>1 DEF TypeInv
    <2> QED
      BY <2>1, <1>2, <1>4, <1>7, <1>8 DEF MoneyInv, Stake
  <1> QED
    BY <1>9, <1>10, <1>11, <1>12, <1>13 DEF IInv

(* A card of the first four is dealt.                                      *)
LEMMA DealStep ==
  ASSUME IInv, Deal
  PROVE  IInv'
  <1> DEFINE side == IF Len(inst.dealer) = Len(inst.player) THEN "dealer" ELSE "player"
  <1>1. PICK card \in Drawable(inst) : inst' = Drawn(inst, side, card)
    BY DEF Deal
  <1>2. /\ pc = "deal" /\ pc' = (IF Len(inst'.player) = 2 THEN "end" ELSE "deal")
        /\ click' = click /\ balance' = balance /\ round' = round /\ TypeInv
    BY DEF Deal, IInv
  <1>3. inst \in InstType
    BY <1>2 DEF TypeInv
  <1>4. side \in {"dealer", "player"}
    OBVIOUS
  <1>5. /\ inst' \in InstType /\ card \in Deck
        /\ inst'.hand = Drawable(inst) \ {card}
        /\ inst'.stash = (IF inst.hand = {} THEN {} ELSE inst.stash) \cup {card}
        /\ inst'.dealer = (IF side = "dealer" THEN Append(inst.dealer, card) ELSE inst.dealer)
        /\ inst'.player = (IF side = "player" THEN Append(inst.player, card) ELSE inst.player)
        /\ inst'.insured = inst.insured /\ inst'.over = inst.over
        /\ inst'.forfeited = inst.forfeited /\ inst'.bet = inst.bet
        /\ inst'.reveal = inst.reveal /\ inst'.started = inst.started
    <2> DEFINE d == Drawn(inst, side, card)
    <2> HIDE DEF side
    <2>1. /\ d \in InstType /\ card \in Deck
          /\ d.hand = Drawable(inst) \ {card}
          /\ d.stash = (IF inst.hand = {} THEN {} ELSE inst.stash) \cup {card}
          /\ d.dealer = (IF side = "dealer" THEN Append(inst.dealer, card) ELSE inst.dealer)
          /\ d.player = (IF side = "player" THEN Append(inst.player, card) ELSE inst.player)
          /\ d.insured = inst.insured /\ d.over = inst.over
          /\ d.forfeited = inst.forfeited /\ d.bet = inst.bet
          /\ d.reveal = inst.reveal /\ d.started = inst.started
      <3>1. CASE side = "dealer"
        BY <3>1, <1>3, DrawnFields
      <3>2. CASE side = "player"
        BY <3>2, <1>3, DrawnFields
      <3> QED
        BY <3>1, <3>2, <1>4
    <2>2. inst' = d
      BY <1>1
    <2> HIDE DEF d
    <2> QED
      BY <2>1, <2>2
  <1>6. /\ inst.started /\ ~inst.over /\ ~inst.reveal /\ ~inst.insured
        /\ ~inst.forfeited /\ ~round.doubled
        /\ Len(inst.player) < 2 /\ Len(inst.dealer) <= 2
        /\ Len(inst.dealer) \in {Len(inst.player), Len(inst.player) + 1}
    BY <1>2 DEF IInv, DealInv
  <1>7. /\ Len(Append(inst.dealer, card)) = Len(inst.dealer) + 1
        /\ Len(Append(inst.player, card)) = Len(inst.player) + 1
        /\ Len(inst.dealer) \in Nat /\ Len(inst.player) \in Nat
    BY <1>3, <1>5, AppendFront, SumsNat
  <1>8. /\ Len(inst'.player) <= 2 /\ Len(inst'.dealer) <= 2
        /\ Len(inst'.player) \in Nat /\ Len(inst'.dealer) \in Nat
        /\ Len(inst'.dealer) \in {Len(inst'.player), Len(inst'.player) + 1}
        /\ Len(inst'.player) <= Len(inst'.dealer)
    BY <1>5, <1>6, <1>7
  <1> HIDE DEF side
  <1>9. TypeInv'
    BY <1>2, <1>5 DEF TypeInv
  <1>10. DeckWhole'
    BY <1>3, <1>5, DrawnDeck DEF DeckWhole, IInv
  <1>11. DealInv'
    BY <1>2, <1>5, <1>6, <1>8 DEF DealInv
  <1>12. OverInv'
    BY <1>2, <1>5, <1>6 DEF OverInv
  <1>13. CardsInv'
    <2>1. pc' # "deal" => Len(inst'.dealer) = 2 /\ Len(inst'.dealer) >= 2
      <3>1. pc' # "deal" => Len(inst'.player) = 2
        BY <1>2
      <3>2. Len(inst'.player) = 2 /\ Len(inst'.player) <= Len(inst'.dealer)
              /\ Len(inst'.dealer) <= 2 => Len(inst'.dealer) = 2
        BY <1>8
      <3> QED
        BY <3>1, <3>2, <1>8
    <2>2. ~(Len(inst'.dealer) > 2) /\ ~(Len(inst'.player) > 2)
      BY <1>8
    <2> QED
      BY <2>1, <2>2 DEF CardsInv
  <1>14. MoneyInv'
    BY <1>2, <1>5, <1>6 DEF MoneyInv, IInv, Stake
  <1> QED
    BY <1>9, <1>10, <1>11, <1>12, <1>13, <1>14 DEF IInv

(* A frame begins.                                                         *)
LEMMA BeginFrameStep ==
  ASSUME IInv, pc = "idle", BeginFrame
  PROVE  IInv'
  <1>1. PICK control \in Controls :
          /\ inst' = [inst EXCEPT !.rules = IF control = "Rules" THEN ~@ ELSE @]
          /\ pc' = IF inst'.rules THEN "idle" ELSE IF inst.started THEN "play" ELSE "end"
          /\ click' = IF inst'.rules \/ control = "Rules" THEN "none" ELSE control
          /\ UNCHANGED <<balance, round>>
    BY DEF BeginFrame
  <1>2. TypeInv /\ inst \in InstType
    BY DEF IInv, TypeInv
  <1>3. inst' \in InstType
    <2>1. (IF control = "Rules" THEN ~inst.rules ELSE inst.rules) \in BOOLEAN
      BY <1>2 DEF InstType
    <2> QED
      BY <2>1, <1>1, <1>2 DEF InstType
  <1>4. /\ inst'.hand = inst.hand /\ inst'.stash = inst.stash
        /\ inst'.dealer = inst.dealer /\ inst'.player = inst.player
        /\ inst'.insured = inst.insured /\ inst'.over = inst.over
        /\ inst'.forfeited = inst.forfeited /\ inst'.bet = inst.bet
        /\ inst'.reveal = inst.reveal /\ inst'.started = inst.started
    BY <1>1, <1>2 DEF InstType
  <1>5. /\ balance' = balance /\ round' = round /\ pc' \in {"idle", "play", "end"}
        /\ click' \in Controls /\ (pc' = "play" => inst.started)
    BY <1>1 DEF Controls
  <1>6. TypeInv'
    BY <1>2, <1>3, <1>5 DEF TypeInv
  <1>7. DeckWhole'
    BY <1>4 DEF DeckWhole, IInv
  <1>8. DealInv'
    BY <1>1, <1>4, <1>5 DEF DealInv, IInv
  <1>9. OverInv'
    BY <1>4, <1>5 DEF OverInv, IInv, isGameOver
  <1>10. CardsInv'
    BY <1>4, <1>5 DEF CardsInv, IInv
  <1>11. MoneyInv'
    BY <1>4, <1>5 DEF MoneyInv, IInv, Stake, Result, Natural
  <1> QED
    BY <1>6, <1>7, <1>8, <1>9, <1>10, <1>11 DEF IInv

(* Stand is worked.                                                        *)
LEMMA StandClickStep ==
  ASSUME IInv, Stand
  PROVE  IInv'
  <1>1. TypeInv /\ inst \in InstType
    BY DEF IInv, TypeInv
  <1>2. /\ inst' = [inst EXCEPT !.firsthit = FALSE] /\ pc' = "stand" /\ click' = "none"
        /\ balance' = balance /\ round' = round /\ Playing
    BY DEF Stand
  <1>3. inst' \in InstType
    BY <1>1, <1>2 DEF InstType
  <1>4. /\ inst'.hand = inst.hand /\ inst'.stash = inst.stash
        /\ inst'.dealer = inst.dealer /\ inst'.player = inst.player
        /\ inst'.insured = inst.insured /\ inst'.over = inst.over
        /\ inst'.forfeited = inst.forfeited /\ inst'.bet = inst.bet
        /\ inst'.reveal = inst.reveal /\ inst'.started = inst.started
    BY <1>1, <1>2 DEF InstType
  <1>5. /\ inst.started /\ ~inst.over /\ ~inst.reveal /\ ~inst.forfeited
        /\ ~round.doubled /\ Len(inst.dealer) = 2 /\ Sum(inst.player) < 21
    BY <1>2, PlayingFacts
  <1>6. TypeInv'
    BY <1>1, <1>2, <1>3 DEF TypeInv, Controls
  <1>7. DeckWhole'
    BY <1>4 DEF DeckWhole, IInv
  <1>8. DealInv' /\ OverInv'
    BY <1>2, <1>4, <1>5 DEF DealInv, OverInv
  <1>9. CardsInv'
    BY <1>4, <1>5 DEF CardsInv, IInv
  <1>10. MoneyInv'
    BY <1>2, <1>4 DEF MoneyInv, IInv, Stake, Result, Natural
  <1> QED
    BY <1>6, <1>7, <1>8, <1>9, <1>10 DEF IInv

(* Double is worked.                                                       *)
LEMMA DoubleStep ==
  ASSUME IInv, Double
  PROVE  IInv'
  <1>1. PICK card \in Drawable(inst) :
          inst' = [Drawn(inst, "player", card) EXCEPT !.bet = 2 * @]
    BY DEF Double
  <1>2. /\ pc' = (IF isGameOver(inst') THEN "end" ELSE "stand") /\ click' = "none"
        /\ balance' = balance - inst.bet /\ round' = [round EXCEPT !.doubled = TRUE]
        /\ TypeInv /\ Playing
    BY DEF Double, IInv
  <1>3. /\ inst \in InstType /\ balance \in Int /\ inst.bet \in Nat
        /\ round \in [number : 0 .. MaxRounds, before : Int, stake : Nat, doubled : BOOLEAN]
    BY <1>2 DEF TypeInv, InstType
  <1> DEFINE d == Drawn(inst, "player", card)
  <1>4. /\ d \in InstType /\ card \in Deck
        /\ d.hand = Drawable(inst) \ {card}
        /\ d.stash = (IF inst.hand = {} THEN {} ELSE inst.stash) \cup {card}
        /\ d.dealer = inst.dealer /\ d.player = Append(inst.player, card)
        /\ d.insured = inst.insured /\ d.over = inst.over
        /\ d.forfeited = inst.forfeited /\ d.bet = inst.bet
        /\ d.reveal = inst.reveal /\ d.started = inst.started
    BY <1>3, DrawnFields
  <1> HIDE DEF d
  <1>5. inst' = [d EXCEPT !.bet = 2 * inst.bet]
    BY <1>1, <1>4 DEF d, InstType
  <1>6. inst' \in InstType
    <2>1. 2 * inst.bet \in Nat
      BY <1>3
    <2> QED
      BY <2>1, <1>4, <1>5 DEF InstType
  <1>7. /\ inst'.hand = Drawable(inst) \ {card}
        /\ inst'.stash = (IF inst.hand = {} THEN {} ELSE inst.stash) \cup {card}
        /\ inst'.dealer = inst.dealer /\ inst'.player = Append(inst.player, card)
        /\ inst'.insured = inst.insured /\ inst'.over = inst.over
        /\ inst'.forfeited = inst.forfeited /\ inst'.bet = 2 * inst.bet
        /\ inst'.reveal = inst.reveal /\ inst'.started = inst.started
    BY <1>4, <1>5 DEF InstType
  <1>8. /\ inst.started /\ ~inst.over /\ ~inst.reveal /\ ~inst.forfeited
        /\ ~round.doubled /\ Len(inst.dealer) = 2
        /\ Sum(inst.player) < 21 /\ Sum(inst.dealer) <= 21
        /\ inst.bet = round.stake
        /\ balance - round.before =
              (IF inst.insured THEN - (round.stake \div 2) ELSE 0)
              + (IF inst.insured /\ Natural THEN round.stake ELSE 0) - round.stake
    BY <1>2, PlayingFacts
  <1>9. Front(Append(inst.player, card)) = inst.player
    BY <1>3, <1>4, AppendFront, SumsNat
  <1>10. /\ round'.doubled /\ round'.stake = round.stake /\ round'.before = round.before
         /\ round' \in [number : 0 .. MaxRounds, before : Int, stake : Nat, doubled : BOOLEAN]
    BY <1>2, <1>3
  <1>11. TypeInv'
    BY <1>2, <1>3, <1>6, <1>10 DEF TypeInv, Controls
  <1>12. DeckWhole'
    BY <1>3, <1>7, DrawnDeck DEF DeckWhole, IInv
  <1>13. DealInv'
    BY <1>2, <1>7, <1>8 DEF DealInv
  <1>14. pc' = "stand" => Sum(inst'.player) < 21
    <2>1. Sum(inst'.player) \in Nat
      BY <1>6, SumsNat
    <2> QED
      BY <2>1, <1>2 DEF isGameOver
  <1>15. OverInv'
    BY <1>2, <1>7, <1>8, <1>14 DEF OverInv
  <1>16. CardsInv'
    BY <1>2, <1>7, <1>8, <1>9 DEF CardsInv
  <1>17. MoneyInv'
    <2>1. inst'.bet = Stake'
      BY <1>7, <1>8, <1>10 DEF Stake
    <2>2. Natural' = Natural
      BY <1>7 DEF Natural
    <2>3. round.stake \div 2 \in Int /\ round.stake \in Int /\ round.before \in Int
      BY <1>3
    <2>4. balance' - round.before =
              -(2 * round.stake) - (IF inst.insured THEN round.stake \div 2 ELSE 0)
              + (IF inst.insured /\ Natural THEN round.stake ELSE 0)
      BY <2>3, <1>2, <1>3, <1>8
    <2>5. Stake' = 2 * round.stake
      BY <1>10 DEF Stake
    <2> QED
      BY <2>1, <2>2, <2>4, <2>5, <1>7, <1>8, <1>10 DEF MoneyInv
  <1> QED
    BY <1>11, <1>12, <1>13, <1>15, <1>16, <1>17 DEF IInv

(* Insurance is worked.                                                    *)
LEMMA InsuranceStep ==
  ASSUME IInv, Insurance
  PROVE  IInv'
  <1>1. /\ TypeInv /\ inst \in InstType /\ balance \in Int /\ inst.bet \in Nat
        /\ round \in [number : 0 .. MaxRounds, before : Int, stake : Nat, doubled : BOOLEAN]
    BY DEF IInv, TypeInv, InstType
  <1> DEFINE back == IF Refund(inst) THEN inst.bet ELSE 0
             shown == inst.reveal \/ Refund(inst)
  <1>2. /\ balance' = balance - inst.bet \div 2 + back
        /\ inst' = [inst EXCEPT !.insured = TRUE, !.reveal = shown]
        /\ pc' = "end" /\ click' = "none" /\ round' = round /\ Playing /\ ~inst.insured
    BY DEF Insurance, Offered
  <1>3. shown \in BOOLEAN /\ back \in Nat
    BY <1>1 DEF InstType
  <1>4. inst' \in InstType
    <2> HIDE DEF shown, back
    <2> QED
      BY <1>1, <1>2, <1>3 DEF InstType
  <1>5. /\ inst'.hand = inst.hand /\ inst'.stash = inst.stash
        /\ inst'.dealer = inst.dealer /\ inst'.player = inst.player
        /\ inst'.insured /\ inst'.over = inst.over
        /\ inst'.forfeited = inst.forfeited /\ inst'.bet = inst.bet
        /\ inst'.reveal = shown /\ inst'.started = inst.started
    <2> HIDE DEF shown, back
    <2> QED
      BY <1>1, <1>2 DEF InstType
  <1>6. /\ inst.started /\ ~inst.over /\ ~inst.reveal /\ ~inst.forfeited
        /\ ~round.doubled /\ Len(inst.dealer) = 2 /\ inst.bet = round.stake
    BY <1>2, PlayingFacts
  <1>7. balance - round.before = -round.stake
    <2>1. balance - round.before =
              (IF inst.insured THEN - (round.stake \div 2) ELSE 0)
              + (IF inst.insured /\ Natural THEN round.stake ELSE 0) - round.stake
      BY <1>2, PlayingFacts
    <2> QED
      BY <2>1, <1>1, <1>2
  <1>8. inst'.reveal <=> Sum(inst.dealer) = 21
    BY <1>5, <1>6 DEF Refund
  <1>9. TypeInv'
    <2>1. balance - inst.bet \div 2 + back \in Int
      <3> HIDE DEF back
      <3> QED
        BY <1>1, <1>3
    <2> QED
      BY <2>1, <1>1, <1>2, <1>4 DEF TypeInv, Controls
  <1>10. DeckWhole'
    BY <1>5 DEF DeckWhole, IInv
  <1>11. DealInv'
    BY <1>2, <1>5, <1>6 DEF DealInv
  <1>12. OverInv'
    <2>1. inst'.reveal => isGameOver(inst')
      BY <1>5, <1>8 DEF isGameOver
    <2> QED
      BY <2>1, <1>2, <1>5, <1>6 DEF OverInv
  <1>13. CardsInv'
    BY <1>5, <1>6 DEF CardsInv, IInv
  <1>14. MoneyInv'
    <2>1. Natural' <=> Refund(inst)
      BY <1>5, <1>6 DEF Natural, Refund
    <2>2. Stake' = round.stake /\ round'.stake = round.stake /\ round'.before = round.before
      BY <1>2, <1>6 DEF Stake
    <2>3. round.stake \div 2 \in Int /\ round.stake \in Int /\ round.before \in Int
      BY <1>1
    <2>4. balance' - round.before =
             -round.stake - round.stake \div 2 + (IF Natural' THEN round.stake ELSE 0)
      BY <2>1, <2>3, <1>1, <1>2, <1>6, <1>7
    <2> QED
      BY <2>2, <2>4, <1>5, <1>6 DEF MoneyInv
  <1> QED
    BY <1>9, <1>10, <1>11, <1>12, <1>13, <1>14 DEF IInv

(* No control of the round is worked.                                      *)
LEMMA NoPlayStep ==
  ASSUME IInv, NoPlay
  PROVE  IInv'
  <1>1. TypeInv
    BY DEF IInv
  <1>2. /\ pc = "play" /\ pc' = "end" /\ click' \in Controls
        /\ balance' = balance /\ inst' = inst /\ round' = round
    BY DEF NoPlay, Controls
  <1>3. TypeInv'
    BY <1>1, <1>2 DEF TypeInv
  <1>4. DeckWhole' /\ DealInv'
    BY <1>2 DEF DeckWhole, DealInv, IInv
  <1>5. OverInv'
    BY <1>2 DEF OverInv, IInv
  <1>6. CardsInv'
    BY <1>2 DEF CardsInv, IInv
  <1>7. MoneyInv'
    BY <1>2 DEF MoneyInv, IInv, Stake, Result, Natural
  <1> QED
    BY <1>3, <1>4, <1>5, <1>6, <1>7 DEF IInv

(* The dealer draws, or stops.                                             *)
LEMMA StandStepStep ==
  ASSUME IInv, StandStep
  PROVE  IInv'
  <1> DEFINE g == [inst EXCEPT !.reveal = TRUE]
  <1>1. /\ TypeInv /\ inst \in InstType /\ pc = "stand" /\ inst.started
        /\ round \in [number : 0 .. MaxRounds, before : Int, stake : Nat, doubled : BOOLEAN]
    BY DEF IInv, TypeInv, StandStep, DealInv
  <1>2. balance' = balance /\ click' = click /\ round' = round
    BY DEF StandStep
  <1>3. /\ g \in InstType /\ g.hand = inst.hand /\ g.stash = inst.stash
        /\ g.dealer = inst.dealer /\ g.player = inst.player
        /\ g.insured = inst.insured /\ g.over = inst.over
        /\ g.forfeited = inst.forfeited /\ g.bet = inst.bet
        /\ g.reveal /\ g.started = inst.started
    BY <1>1 DEF InstType
  <1>4. \/ /\ DealerHits(g) /\ pc' = "stand"
           /\ \E card \in Drawable(g) : inst' = Drawn(g, "dealer", card)
        \/ ~DealerHits(g) /\ inst' = g /\ pc' = "end"
    BY DEF StandStep
  <1> HIDE DEF g
  <1>5. ~inst.over /\ ~inst.forfeited /\ Sum(inst.player) < 21
    BY <1>1 DEF IInv, OverInv
  <1>6. /\ Sum(inst.dealer) \in Nat /\ Sum(inst.player) \in Nat
        /\ inst.dealer \in Seq(Deck) /\ inst.player \in Seq(Deck)
    BY <1>1, SumsNat
  <1>7. ASSUME DealerHits(g), pc' = "stand",
               NEW card \in Drawable(g), inst' = Drawn(g, "dealer", card)
        PROVE  IInv'
    <2>1. /\ inst' \in InstType /\ card \in Deck
          /\ inst'.hand = Drawable(g) \ {card}
          /\ inst'.stash = (IF g.hand = {} THEN {} ELSE g.stash) \cup {card}
          /\ inst'.dealer = Append(g.dealer, card) /\ inst'.player = g.player
          /\ inst'.insured = g.insured /\ inst'.over = g.over
          /\ inst'.forfeited = g.forfeited /\ inst'.bet = g.bet
          /\ inst'.reveal = g.reveal /\ inst'.started = g.started
      <3> DEFINE d == Drawn(g, "dealer", card)
      <3>1. /\ d \in InstType /\ card \in Deck
            /\ d.hand = Drawable(g) \ {card}
            /\ d.stash = (IF g.hand = {} THEN {} ELSE g.stash) \cup {card}
            /\ d.dealer = Append(g.dealer, card) /\ d.player = g.player
            /\ d.insured = g.insured /\ d.over = g.over
            /\ d.forfeited = g.forfeited /\ d.bet = g.bet
            /\ d.reveal = g.reveal /\ d.started = g.started
        <4>1. g \in InstType /\ card \in Drawable(g) /\ "dealer" \in {"dealer", "player"}
          BY <1>3, <1>7
        <4> QED
          BY ONLY <4>1, DrawnFields DEF d
      <3>2. inst' = d
        BY <1>7
      <3> HIDE DEF d
      <3> QED
        BY <3>1, <3>2
    <2>2. Sum(inst.dealer) < 17
      BY <1>3, <1>7 DEF DealerHits
    <2>3. /\ Front(Append(inst.dealer, card)) = inst.dealer
          /\ Len(Append(inst.dealer, card)) = Len(inst.dealer) + 1
      BY <1>6, <2>1, AppendFront
    <2>4. TypeInv'
      BY <1>1, <1>2, <1>7, <2>1 DEF TypeInv
    <2>5. DeckWhole'
      <3>1. g.hand \cup g.stash = Deck /\ g.hand \cap g.stash = {}
        BY <1>3 DEF IInv, DeckWhole
      <3> QED
        BY <3>1, <1>3, <2>1, DrawnDeck DEF DeckWhole
    <2>6. DealInv' /\ OverInv'
      BY <1>1, <1>3, <1>5, <1>7, <2>1 DEF DealInv, OverInv
    <2>7. CardsInv'
      BY <1>1, <1>3, <1>5, <2>1, <2>2, <2>3 DEF CardsInv, IInv
    <2>8. MoneyInv'
      <3>1. Natural => FALSE
        BY <2>2, <1>6 DEF Natural
      <3>2. inst.insured => ~Natural'
        <4>2. inst'.dealer = Append(inst.dealer, card)
          BY <1>3, <2>1
        <4>3. Len(inst.dealer) >= 2
          BY <1>1 DEF IInv, CardsInv
        <4> QED
          BY <4>2, <4>3, <2>3 DEF Natural
      <3> QED
        BY <3>1, <3>2, <1>1, <1>2, <1>3, <1>5, <2>1 DEF MoneyInv, IInv, Stake
    <2> QED
      BY <2>4, <2>5, <2>6, <2>7, <2>8 DEF IInv
  <1>8. ASSUME ~DealerHits(g), inst' = g, pc' = "end"
        PROVE  IInv'
    <2>1. TypeInv'
      BY <1>1, <1>2, <1>3, <1>8 DEF TypeInv
    <2>2. DeckWhole'
      BY <1>3, <1>8 DEF IInv, DeckWhole
    <2>3. DealInv'
      BY <1>1, <1>3, <1>8 DEF DealInv
    <2>4. isGameOver(inst')
      <3>1. Sum(inst.dealer) >= 17
        BY <1>3, <1>6, <1>8 DEF DealerHits
      <3> QED
        BY <3>1, <1>3, <1>8 DEF isGameOver
    <2>5. OverInv'
      BY <2>4, <1>3, <1>5, <1>8 DEF OverInv
    <2>6. CardsInv'
      BY <1>1, <1>3, <1>8 DEF CardsInv, IInv
    <2>7. MoneyInv'
      BY <1>2, <1>3, <1>5, <1>8 DEF MoneyInv, IInv, Stake, Natural
    <2> QED
      BY <2>1, <2>2, <2>3, <2>5, <2>6, <2>7 DEF IInv
  <1> QED
    BY <1>4, <1>7, <1>8

(* The slider gives a bet that is a natural number.                        *)
LEMMA SliderType ==
  ASSUME balance \in Int, NEW value \in Int, NEW v \in Slider(value)
  PROVE  v \in Nat
  <1> DEFINE high == IF balance < 10 THEN 10 ELSE balance
             clamp(x) == IF x < 5 THEN 5 ELSE IF x > high THEN high ELSE x
  <1>1. high \in Int /\ high >= 10
    OBVIOUS
  <1>2. \A x \in Int : clamp(x) \in Nat
    BY <1>1
  <1>3. v \in {clamp(5 * k) : k \in 0 .. high \div 5 + 1} \/ v = clamp(value)
    BY DEF Slider
  <1> HIDE DEF clamp
  <1>4. CASE v \in {clamp(5 * k) : k \in 0 .. high \div 5 + 1}
    <2>1. PICK k \in 0 .. high \div 5 + 1 : v = clamp(5 * k)
      BY <1>4
    <2>2. 5 * k \in Int
      OBVIOUS
    <2> QED
      BY <1>2, <2>1, <2>2
  <1> QED
    BY <1>2, <1>3, <1>4

(* What Forfeit and the slider change.                                     *)
LEMMA BetsFields ==
  ASSUME TypeInv, NEW g \in BetsOf(Forfeited(inst))
  PROVE  /\ g \in InstType
         /\ g.hand = inst.hand /\ g.stash = inst.stash
         /\ g.dealer = inst.dealer /\ g.player = inst.player
         /\ g.insured = inst.insured /\ g.over = inst.over
         /\ g.reveal = inst.reveal /\ g.started = inst.started
         /\ g.forfeited <=> inst.forfeited \/ (click = "Forfeit" /\ ~isGameOver(inst))
         /\ ~inst.over => g.bet = inst.bet
  <1> DEFINE f == Forfeited(inst)
             lost == inst.forfeited \/ (click = "Forfeit" /\ ~isGameOver(inst))
  <1>1. inst \in InstType /\ balance \in Int
    BY DEF TypeInv
  <1>2. lost \in BOOLEAN
    OBVIOUS
  <1>3. f = [inst EXCEPT !.forfeited = lost]
    BY <1>1 DEF Forfeited, InstType
  <1> HIDE DEF f, lost
  <1>4. f \in InstType
    BY <1>1, <1>2, <1>3 DEF InstType
  <1>5. /\ f.hand = inst.hand /\ f.stash = inst.stash
        /\ f.dealer = inst.dealer /\ f.player = inst.player
        /\ f.insured = inst.insured /\ f.over = inst.over
        /\ f.reveal = inst.reveal /\ f.started = inst.started
        /\ f.forfeited = lost /\ f.bet = inst.bet
    BY <1>1, <1>3 DEF InstType
  <1>6. CASE g = f
    BY <1>4, <1>5, <1>6 DEF lost
  <1>7. ASSUME NEW v \in Slider(f.betReal),
               g = [f EXCEPT !.betReal = v, !.bet = IF f.over THEN v ELSE @]
        PROVE  /\ g \in InstType
               /\ g.hand = f.hand /\ g.stash = f.stash
               /\ g.dealer = f.dealer /\ g.player = f.player
               /\ g.insured = f.insured /\ g.over = f.over
               /\ g.reveal = f.reveal /\ g.started = f.started
               /\ g.forfeited = f.forfeited /\ (~f.over => g.bet = f.bet)
    <2>1. v \in Nat
      <3>1. f.betReal \in Int
        BY <1>4 DEF InstType
      <3> QED
        BY <1>1, <3>1, SliderType
    <2> DEFINE b == IF f.over THEN v ELSE f.bet
    <2>2. b \in Nat
      BY <2>1, <1>4 DEF InstType
    <2>3. g = [f EXCEPT !.betReal = v, !.bet = b]
      BY <1>4, <1>7 DEF InstType
    <2>4. ~f.over => b = f.bet
      OBVIOUS
    <2> HIDE DEF b
    <2>5. g \in InstType
      BY <1>4, <2>1, <2>2, <2>3 DEF InstType
    <2> QED
      BY <1>4, <2>3, <2>4, <2>5 DEF InstType
  <1>8. g = f \/ \E v \in Slider(f.betReal) :
                   g = [f EXCEPT !.betReal = v, !.bet = IF f.over THEN v ELSE @]
    BY DEF BetsOf, f
  <1>9. CASE g # f
    <2>1. PICK v \in Slider(f.betReal) :
            g = [f EXCEPT !.betReal = v, !.bet = IF f.over THEN v ELSE @]
      BY <1>8, <1>9
    <2> QED
      BY <1>5, <1>7, <2>1 DEF lost
  <1> QED
    BY <1>6, <1>9

(* The order in which whoWon looks at the sums does not matter, as long as *)
(* not both hands are bust.                                                *)
LEMMA WinnerByRule ==
  ASSUME NEW g \in InstType, Sum(g.player) >= 21 => Sum(g.dealer) <= 21
  PROVE  whoWon(g) = IF g.forfeited THEN -1 ELSE Outcome(Sum(g.player), Sum(g.dealer))
  <1>1. Sum(g.player) \in Nat /\ Sum(g.dealer) \in Nat
    BY SumsNat
  <1> QED
    BY <1>1 DEF whoWon, Outcome

(* Never are both hands bust.                                              *)
LEMMA NotBothBust ==
  ASSUME IInv
  PROVE  Sum(inst.player) >= 21 => Sum(inst.dealer) <= 21
  <1>1. inst \in InstType
    BY DEF IInv, TypeInv
  <1>2. /\ inst.dealer \in Seq(Deck)
        /\ Sum(inst.player) \in Nat /\ Sum(inst.dealer) \in Nat
    BY <1>1, SumsNat
  <1>3. CASE Len(inst.dealer) <= 2
    BY <1>2, <1>3, SmallSum
  <1>4. CASE Len(inst.dealer) > 2
    BY <1>2, <1>4 DEF IInv, CardsInv
  <1> QED
    BY <1>2, <1>3, <1>4

(* The end of a frame: Forfeit, the slider, and the payment.               *)
LEMMA EndFrameStep ==
  ASSUME IInv, EndFrame
  PROVE  IInv'
  <1>1. /\ TypeInv /\ inst \in InstType /\ balance \in Int
        /\ round \in [number : 0 .. MaxRounds, before : Int, stake : Nat, doubled : BOOLEAN]
    BY DEF IInv, TypeInv
  <1>2. /\ pc = "end" /\ pc' = "idle" /\ click' = "none" /\ round' = round
    BY DEF EndFrame
  <1>3. PICK g \in BetsOf(Forfeited(inst)) :
          IF g.started
          THEN balance' = balance + Payout(Shown(g)) /\ inst' = Over(Shown(g))
          ELSE balance' = balance /\ inst' = g
    BY DEF EndFrame
  <1>4. /\ g \in InstType
        /\ g.hand = inst.hand /\ g.stash = inst.stash
        /\ g.dealer = inst.dealer /\ g.player = inst.player
        /\ g.insured = inst.insured /\ g.over = inst.over
        /\ g.reveal = inst.reveal /\ g.started = inst.started
        /\ g.forfeited <=> inst.forfeited \/ (click = "Forfeit" /\ ~isGameOver(inst))
        /\ ~inst.over => g.bet = inst.bet
    BY <1>1, BetsFields
  <1>5. CASE ~g.started
    <2>1. balance' = balance /\ inst' = g
      BY <1>3, <1>5
    <2>2. ~inst.started /\ inst.over /\ ~inst.reveal
      BY <1>4, <1>5 DEF IInv, DealInv
    <2>3. TypeInv'
      BY <1>1, <1>2, <1>4, <2>1 DEF TypeInv, Controls
    <2>4. DeckWhole' /\ DealInv' /\ OverInv' /\ MoneyInv'
      BY <1>2, <1>4, <2>1, <2>2 DEF IInv, DeckWhole, DealInv, OverInv, MoneyInv
    <2>5. CardsInv'
      BY <1>2, <1>4, <2>1, <2>2 DEF IInv, CardsInv
    <2> QED
      BY <2>3, <2>4, <2>5 DEF IInv
  <1>6. CASE g.started
    <2> DEFINE shown == g.reveal \/ Sum(g.dealer) > 21 \/ Sum(g.player) >= 21 \/ g.forfeited
               h == Shown(g)
               over == g.over \/ isGameOver(h)
    <2>1. shown \in BOOLEAN /\ h = [g EXCEPT !.reveal = shown]
      BY <1>4 DEF Shown, InstType
    <2>2. /\ h \in InstType /\ h.hand = g.hand /\ h.stash = g.stash
          /\ h.dealer = g.dealer /\ h.player = g.player
          /\ h.insured = g.insured /\ h.over = g.over
          /\ h.reveal = shown /\ h.started = g.started
          /\ h.forfeited = g.forfeited /\ h.bet = g.bet
      <3> HIDE DEF shown, h
      <3> QED
        BY <2>1, <1>4 DEF InstType
    <2>3. inst' = [h EXCEPT !.over = over] /\ over \in BOOLEAN
      BY <1>3, <1>6, <2>2 DEF Over, InstType
    <2>4. balance' = balance + Payout(h)
      BY <1>3, <1>6
    <2>5. isGameOver(h) => shown
      <3> HIDE DEF h
      <3> QED
        BY <2>2 DEF isGameOver
    <2>6. /\ isGameOver(inst) => isGameOver(h)
          /\ shown => inst.reveal \/ isGameOver(h)
      <3>1. Sum(g.dealer) \in Nat /\ Sum(g.player) \in Nat
        BY <1>4, SumsNat
      <3> HIDE DEF h
      <3> QED
        BY <1>4, <2>2, <3>1 DEF isGameOver
    <2> HIDE DEF h, over
    <2>7. inst' \in InstType
      BY <2>2, <2>3 DEF InstType
    <2>8. /\ inst'.hand = inst.hand /\ inst'.stash = inst.stash
          /\ inst'.dealer = inst.dealer /\ inst'.player = inst.player
          /\ inst'.insured = inst.insured /\ inst'.over = over
          /\ inst'.reveal = shown /\ inst'.started
          /\ inst'.forfeited = g.forfeited /\ inst'.bet = g.bet
      <3> HIDE DEF shown
      <3> QED
        BY <1>4, <1>6, <2>2, <2>3 DEF InstType
    <2>9. isGameOver(inst') <=> isGameOver(h)
      BY <1>4, <2>2, <2>8 DEF isGameOver
    <2>10. whoWon(h) = IF g.forfeited THEN -1
                      ELSE Outcome(Sum(inst.player), Sum(inst.dealer))
      BY <1>4, <2>2, NotBothBust, WinnerByRule
    <2>11. Result' = whoWon(h) /\ whoWon(h) \in {-1, 0, 1}
      BY <2>8, <2>10 DEF Result, Outcome
    <2>12. inst.over => isGameOver(inst) /\ inst.reveal
      BY <1>4, <1>6 DEF IInv, OverInv
    <2>13. over <=> isGameOver(h)
      BY <1>4, <2>6, <2>12 DEF over
    <2>14. TypeInv'
      <3>1. inst.over \/ inst.bet \in Nat
        BY <1>1 DEF InstType
      <3>2. Payout(h) \in Int
        <4>1. h.bet \in Nat
          BY <2>2 DEF InstType
        <4> QED
          BY <4>1, <2>11 DEF Payout
      <3> QED
        BY <3>2, <1>1, <1>2, <2>4, <2>7 DEF TypeInv, Controls
    <2>15. DeckWhole' /\ DealInv'
      BY <1>2, <2>8 DEF IInv, DeckWhole, DealInv
    <2>16. OverInv'
      <3>1. inst.reveal \/ round.doubled => isGameOver(inst)
        BY <1>2, <1>4, <1>6 DEF IInv, OverInv
      <3> QED
        BY <3>1, <1>2, <2>5, <2>6, <2>8, <2>9, <2>13 DEF OverInv
    <2>17. CardsInv'
      BY <1>2, <1>4, <1>6, <2>8 DEF IInv, CardsInv
    <2>18. MoneyInv'
      <3>1. Stake' = Stake /\ Natural' = Natural /\ Stake \in Nat /\ round'.stake = round.stake
            /\ round'.before = round.before /\ round.before \in Int /\ round.stake \in Nat
            /\ round.stake \div 2 \in Int
        BY <1>1, <1>2, <2>8 DEF Stake, Natural
      <3>2. /\ ~inst.over => g.bet = Stake
            /\ balance - round.before =
                 (IF inst.over THEN Result * Stake ELSE -Stake)
                 - (IF inst.insured THEN round.stake \div 2 ELSE 0)
                 + (IF inst.insured /\ Natural THEN round.stake ELSE 0)
        BY <1>4, <1>6 DEF IInv, MoneyInv
      <3>3. CASE inst.over
        <4>1. over /\ Payout(h) = 0
          BY <3>3, <1>4, <2>2 DEF over, Payout
        <4>2. Result' = Result
          BY <3>3, <1>4, <2>8, <2>12 DEF Result
        <4>3. balance' = balance
          BY <4>1, <2>4, <1>1
        <4> QED
          BY <4>1, <4>2, <4>3, <3>1, <3>2, <3>3, <2>8 DEF MoneyInv
      <3>4. CASE ~inst.over /\ ~over
        <4>1. Payout(h) = 0
          BY <3>4, <2>13 DEF Payout
        <4>2. balance' = balance
          BY <4>1, <2>4, <1>1
        <4> QED
          BY <4>2, <3>1, <3>2, <3>4, <2>8 DEF MoneyInv
      <3>5. CASE ~inst.over /\ over
        <4>1. Payout(h) = (1 + Result') * Stake
          BY <3>2, <3>5, <1>4, <2>2, <2>11, <2>13 DEF Payout
        <4>2. balance' - round.before =
                 Result' * Stake
                 - (IF inst.insured THEN round.stake \div 2 ELSE 0)
                 + (IF inst.insured /\ Natural THEN round.stake ELSE 0)
          <5>1. Payout(h) = Stake + Result' * Stake /\ Result' * Stake \in Int
            <6>1. Result' \in {-1, 0, 1}
              BY <2>11
            <6> QED
              BY <4>1, <6>1, <3>1
          <5> QED
            BY <5>1, <3>1, <3>2, <3>5, <2>4, <1>1
        <4> QED
          BY <4>2, <3>1, <3>5, <2>8 DEF MoneyInv
      <3> QED
        BY <3>3, <3>4, <3>5
    <2> QED
      BY <2>14, <2>15, <2>16, <2>17, <2>18 DEF IInv
  <1> QED
    BY <1>5, <1>6

(* Every step keeps the inductive invariant.                               *)
LEMMA NextStep ==
  ASSUME IInv, [Next]_vars
  PROVE  IInv'
  <1>1. CASE pc = "idle" /\ NewRound
    BY <1>1, NewRoundStep
  <1>2. CASE pc = "idle" /\ BeginFrame
    BY <1>2, BeginFrameStep
  <1>3. CASE Deal
    BY <1>3, DealStep
  <1>4. CASE Hit
    BY <1>4, HitStep
  <1>5. CASE Stand
    BY <1>5, StandClickStep
  <1>6. CASE Double
    BY <1>6, DoubleStep
  <1>7. CASE Insurance
    BY <1>7, InsuranceStep
  <1>8. CASE NoPlay
    BY <1>8, NoPlayStep
  <1>9. CASE StandStep
    BY <1>9, StandStepStep
  <1>10. CASE EndFrame
    BY <1>10, EndFrameStep
  <1>11. CASE UNCHANGED vars
    <2>1. /\ balance' = balance /\ inst' = inst /\ pc' = pc /\ click' = click
          /\ round' = round
      BY <1>11 DEF vars
    <2>2. TypeInv' /\ DeckWhole' /\ DealInv' /\ OverInv' /\ CardsInv'
      BY <2>1 DEF IInv, TypeInv, DeckWhole, DealInv, OverInv, CardsInv
    <2>3. MoneyInv'
      BY <2>1 DEF IInv, MoneyInv, Stake, Result, Natural
    <2> QED
      BY <2>2, <2>3 DEF IInv
  <1> QED
    BY <1>1, <1>2, <1>3, <1>4, <1>5, <1>6, <1>7, <1>8, <1>9, <1>10, <1>11
    DEF Next, CallTask, Step

(* The inductive invariant holds in every state.                           *)
THEOREM InvAlways == Spec => []IInv
  <1>1. Init => IInv
    BY InitStep
  <1>2. IInv /\ [Next]_vars => IInv'
    BY NextStep
  <1> QED
    BY <1>1, <1>2, PTL DEF Spec

-----------------------------------------------------------------------------
(* Between frames the table is in order: its pieces are of their kind, no  *)
(* card is lost or doubled by drawCard and its reshuffle, and the flag     *)
(* that stops all payment is set exactly in a round that is over.          *)
THEOREM TableAlways == Spec => []TableOK
  <1>1. ASSUME IInv PROVE TableOK
    <2>1. TypeInv /\ inst \in InstType
      BY <1>1 DEF IInv, TypeInv
    <2>2. TypeOK
      <3>1. Range(inst.dealer) \cup Range(inst.player) \subseteq Deck
        <4>1. inst.dealer \in Seq(Deck) /\ inst.player \in Seq(Deck)
          BY <2>1, SumsNat
        <4> QED
          BY <4>1 DEF Range
      <3>2. /\ inst.bet \in Nat /\ inst.betReal \in Nat
            /\ {inst.firsthit, inst.insured, inst.over, inst.forfeited, inst.rules,
                inst.reveal, inst.started} \subseteq BOOLEAN
        BY <2>1 DEF InstType
      <3> QED
        BY <2>1, <3>1, <3>2 DEF TypeOK, TypeInv
    <2>3. OverIsOver
      BY <1>1 DEF IInv, OverInv, OverIsOver, BetweenFrames
    <2> QED
      BY <1>1, <2>2, <2>3 DEF TableOK, IInv
  <1> QED
    BY <1>1, InvAlways, PTL

(* A round that is over has been paid once and by the rules, for every     *)
(* deck, every order of the cards and every run of clicks.                 *)
THEOREM RoundPaysAlways == Spec => []RoundPays
  <1>1. ASSUME IInv PROVE RoundPays
    <2>1. SUFFICES ASSUME BetweenFrames PROVE RoundPays
      BY DEF RoundPays
    <2>2. balance - round.before =
            (IF inst.over THEN Result * Stake ELSE -Stake)
            - (IF inst.insured THEN round.stake \div 2 ELSE 0)
            + (IF inst.insured /\ Natural THEN round.stake ELSE 0)
      BY <1>1, <2>1 DEF IInv, MoneyInv, BetweenFrames
    <2> QED
      BY <2>2 DEF RoundPays, Result, Stake, Natural
  <1> QED
    BY <1>1, InvAlways, PTL

(* The dealer draws to seventeen and not beyond, and the player not after  *)
(* 21.                                                                     *)
THEOREM DrawsAlways == Spec => []DrawsByRule
  <1>1. ASSUME IInv PROVE DrawsByRule
    <2>1. SUFFICES ASSUME BetweenFrames PROVE DrawsByRule
      BY DEF DrawsByRule
    <2>2. inst \in InstType
      BY <1>1 DEF IInv, TypeInv
    <2>3. Sum(inst.player) \in Nat /\ Sum(inst.dealer) \in Nat
      BY <2>2, SumsNat
    <2>4. inst.reveal => isGameOver(inst) /\ inst.over
      BY <1>1, <2>1 DEF IInv, OverInv, BetweenFrames
    <2>5. isGameOver(inst) =>
            inst.forfeited \/ Sum(inst.player) >= 21 \/ Sum(inst.dealer) >= 17
      BY <2>3 DEF isGameOver
    <2>6. /\ Len(inst.dealer) > 2 => Sum(Front(inst.dealer)) < 17
          /\ Len(inst.player) > 2 => Sum(Front(inst.player)) < 21
      BY <1>1 DEF IInv, CardsInv
    <2> QED
      BY <2>4, <2>5, <2>6 DEF DrawsByRule
  <1> QED
    BY <1>1, InvAlways, PTL

(* The status line, which orders the same questions in another way, agrees *)
(* with the money.                                                         *)
THEOREM StatusAlways == Spec => []StatusTellsPayout
  <1>1. ASSUME IInv PROVE StatusTellsPayout
    <2>1. SUFFICES ASSUME BetweenFrames PROVE StatusTellsPayout
      BY DEF StatusTellsPayout
    <2>2. inst \in InstType
      BY <1>1 DEF IInv, TypeInv
    <2>3. Sum(inst.player) \in Nat /\ Sum(inst.dealer) \in Nat
      BY <2>2, SumsNat
    <2>4. /\ inst.over <=> isGameOver(inst)
          /\ inst.reveal <=> isGameOver(inst)
      BY <1>1, <2>1 DEF IInv, OverInv, BetweenFrames
    <2>5. inst.forfeited => isGameOver(inst)
      BY DEF isGameOver
    <2> DEFINE s == determineStatus(inst)
               p == Sum(inst.player)
               d == Sum(inst.dealer)
    <2>6. CASE inst.forfeited
      <3>1. s = "Player forfeited" /\ whoWon(inst) = -1 /\ inst.over
        BY <2>4, <2>5, <2>6 DEF determineStatus, whoWon
      <3> QED
        BY <3>1 DEF StatusTellsPayout
    <2>7. CASE ~inst.forfeited /\ ~inst.reveal
      <3>1. s = "Awaiting action" /\ ~inst.over
        BY <2>4, <2>7 DEF determineStatus
      <3> QED
        BY <3>1 DEF StatusTellsPayout
    <2>8. CASE ~inst.forfeited /\ inst.reveal
      <3>1. inst.over /\ isGameOver(inst)
        BY <2>4, <2>8
      <3>2. CASE p = d
        <4>1. s = "Draw" /\ whoWon(inst) = 0
          BY <2>8, <3>2 DEF determineStatus, whoWon
        <4> QED
          BY <3>1, <4>1 DEF StatusTellsPayout
      <3>3. CASE p # d /\ whoWon(inst) = 1
        <4>1. s \in {"Player win", "Player blackjack", "Dealer bust"}
          BY <2>3, <2>8, <3>1, <3>3 DEF determineStatus, whoWon
        <4> QED
          BY <3>1, <3>3, <4>1 DEF StatusTellsPayout
      <3>4. CASE p # d /\ whoWon(inst) = -1
        <4>1. s \in {"Dealer win", "Dealer blackjack", "Player bust"}
          BY <2>3, <2>8, <3>1, <3>4 DEF determineStatus, whoWon
        <4> QED
          BY <3>1, <3>4, <4>1 DEF StatusTellsPayout
      <3> QED
        BY <2>8, <3>2, <3>3, <3>4 DEF whoWon
    <2> QED
      BY <2>6, <2>7, <2>8
  <1> QED
    BY <1>1, InvAlways, PTL
====

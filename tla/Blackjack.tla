----------------------------- MODULE Blackjack -----------------------------
(***************************************************************************)
(* The game of src/fs/user/blackjack.um. The task's function is called     *)
(* once per frame; a frame is a run of steps from pc = "idle" back to it,  *)
(* one per part of the function, and one more per card that is drawn. The  *)
(* pointer can work at most one control in a frame (click), and a control  *)
(* that is not shown or takes no input does nothing; click is cleared by   *)
(* the part of the frame that has looked at it.                            *)
(*                                                                         *)
(* The order of the shuffled cards is hidden until they are drawn, so hand *)
(* is a set and a draw takes any of it.                                    *)
(***************************************************************************)
EXTENDS Integers, SequencesExt

CONSTANTS
  Deck,         \* cards: [value, suit]
  InitBalance,  \* 1000 in the code
  MaxRounds     \* bound: rounds that are begun

ASSUME DeckAssumption == Deck # {} /\ InitBalance \in Int /\ MaxRounds \in Nat

VARIABLES
  balance,      \* dollars, of all tables
  inst,         \* the BlackjackInstance
  pc, click,    \* the part of the frame, the control that is worked
  round         \* ghost: number, balance before, bet and doubling of the round

vars == <<balance, inst, pc, click, round>>

Controls == {"Rules", "Hit", "Stand", "Double", "Insurance", "Forfeit", "Bet", "none"}

-----------------------------------------------------------------------------
(* getValues                                                               *)

IsAce(card) == card.value = "ace"

Worth == [ace |-> 0, two |-> 2, three |-> 3, four |-> 4, five |-> 5, six |-> 6,
          seven |-> 7, eight |-> 8, nine |-> 9, ten |-> 10, jack |-> 10,
          queen |-> 10, king |-> 10]

ASSUME CardAssumption == \A card \in Deck : card.value \in DOMAIN Worth

(* What an ace adds to the other cards and the aces before it.             *)
AceWorth(sum) ==
  IF sum = 10 THEN 11 ELSE IF sum + 10 <= 21 THEN 10 ELSE 1

(* The sum after the first k aces and all other cards have been counted.   *)
Sums(cards) ==
  LET plain[k \in 0 .. Len(cards)] ==
        IF k = 0 THEN 0 ELSE plain[k - 1] + Worth[cards[k].value]
      upto[k \in 0 .. Len(cards)] ==
        IF k = 0 THEN plain[Len(cards)]
        ELSE LET sum == upto[k - 1]
             IN IF IsAce(cards[k]) THEN sum + AceWorth(sum) ELSE sum
  IN upto

Sum(cards) == Sums(cards)[Len(cards)]

-----------------------------------------------------------------------------
(* Cards and rounds                                                        *)

(* Mutation: the drawn card stays in the hand.                             *)
DrawnKept(g, side, card) ==
  [g EXCEPT !.hand = IF @ = {} THEN g.stash ELSE @,
            !.stash = (IF g.hand = {} THEN {} ELSE @) \cup {card},
            ![side] = Append(@, card)]

(* drawCard: an empty hand is first filled with the stash, which holds the *)
(* cards on the table too.                                                 *)
Drawable(g) == IF g.hand = {} THEN g.stash ELSE g.hand
Drawn(g, side, card) ==
  [g EXCEPT !.hand = Drawable(g) \ {card},
            !.stash = (IF g.hand = {} THEN {} ELSE @) \cup {card},
            ![side] = Append(@, card)]

isGameOver(g) ==
  \/ g.forfeited
  \/ Sum(g.player) >= 21
  \/ Sum(g.dealer) > 21
  \/ g.reveal /\ Sum(g.dealer) >= 17

(* Mutation: the player's 21 is looked at before the draw.                 *)
whoWonEarly(g) ==
  LET p == Sum(g.player)  d == Sum(g.dealer) IN
  CASE g.forfeited -> -1
    [] ~g.forfeited /\ p = 21 -> 1
    [] ~g.forfeited /\ p # 21 /\ p = d -> 0
    [] OTHER -> IF p > 21 \/ (d <= 21 /\ d > p) THEN -1 ELSE 1

whoWon(g) ==
  LET p == Sum(g.player)  d == Sum(g.dealer) IN
  IF g.forfeited THEN -1
  ELSE IF p = d THEN 0
  ELSE IF p > 21 THEN -1
  ELSE IF d > 21 THEN 1
  ELSE IF p = 21 THEN 1
  ELSE IF d = 21 THEN -1
  ELSE IF p > d THEN 1 ELSE -1

(* Mutation: who has more is looked at before who is bust.                 *)
determineStatusMore(g) ==
  LET p == Sum(g.player)  d == Sum(g.dealer) IN
  IF g.forfeited THEN "Player forfeited"
  ELSE IF ~g.reveal THEN "Awaiting action"
  ELSE IF p = d THEN "Draw"
  ELSE IF p > d THEN "Player win" ELSE "Dealer win"

determineStatus(g) ==
  LET p == Sum(g.player)  d == Sum(g.dealer) IN
  IF g.forfeited THEN "Player forfeited"
  ELSE IF ~g.reveal THEN "Awaiting action"
  ELSE IF p = d THEN "Draw"
  ELSE IF p > 21 THEN "Player bust"
  ELSE IF d > 21 THEN "Dealer bust"
  ELSE IF p = 21 /\ Len(g.player) = 2 THEN "Player blackjack"
  ELSE IF d = 21 /\ Len(g.dealer) = 2 THEN "Dealer blackjack"
  ELSE IF isGameOver(g) /\ p > d THEN "Player win"
  ELSE IF isGameOver(g) /\ d > p THEN "Dealer win"
  ELSE "Awaiting action"

-----------------------------------------------------------------------------
Init ==
  /\ balance = InitBalance
  /\ inst = [firsthit |-> FALSE, insured |-> FALSE, over |-> TRUE,
             forfeited |-> FALSE, betReal |-> 0, bet |-> 0, rules |-> FALSE,
             reveal |-> FALSE, started |-> FALSE, dealer |-> <<>>,
             player |-> <<>>, hand |-> Deck, stash |-> {}]
  /\ pc = "idle" /\ click = "none"
  /\ round = [number |-> 0, before |-> InitBalance, stake |-> 0, doubled |-> FALSE]

(* New round: the table is cleared and the stake is taken.                 *)
NewRound ==
  LET bet == IF balance < 0 /\ inst.bet > 5 THEN 5 ELSE inst.bet IN
  /\ round.number < MaxRounds
  /\ balance' = balance - bet
  /\ inst' = [inst EXCEPT !.bet = bet, !.rules = FALSE, !.started = TRUE,
                !.firsthit = TRUE, !.insured = FALSE, !.over = FALSE,
                !.reveal = FALSE, !.forfeited = FALSE,
                !.dealer = <<>>, !.player = <<>>]
  /\ round' = [number |-> round.number + 1, before |-> balance,
               stake |-> bet, doubled |-> FALSE]
  /\ pc' = "deal" /\ click' = "none"

(* Two cards for each, in turn, the dealer first.                          *)
Deal ==
  /\ pc = "deal"
  /\ LET side == IF Len(inst.dealer) = Len(inst.player) THEN "dealer" ELSE "player"
     IN \E card \in Drawable(inst) : inst' = Drawn(inst, side, card)
  /\ pc' = IF Len(inst'.player) = 2 THEN "end" ELSE "deal"
  /\ UNCHANGED <<balance, click, round>>

(* A frame without a new round. While the rules are shown it ends at once. *)
BeginFrame ==
  \E control \in Controls :
    /\ inst' = [inst EXCEPT !.rules = IF control = "Rules" THEN ~@ ELSE @]
    /\ pc' = IF inst'.rules THEN "idle" ELSE IF inst.started THEN "play" ELSE "end"
    /\ click' = IF inst'.rules \/ control = "Rules" THEN "none" ELSE control
    /\ UNCHANGED <<balance, round>>

CallTask == pc = "idle" /\ (NewRound \/ BeginFrame)

Playing == pc = "play" /\ ~isGameOver(inst)

Hit ==
  /\ Playing /\ click = "Hit"
  /\ \E card \in Drawable(inst) :
       inst' = [Drawn(inst, "player", card) EXCEPT !.firsthit = FALSE]
  /\ pc' = "end"
  /\ click' = "none"
  /\ UNCHANGED <<balance, round>>

Stand ==
  /\ Playing /\ click = "Stand"
  /\ inst' = [inst EXCEPT !.firsthit = FALSE]
  /\ pc' = "stand"
  /\ click' = "none"
  /\ UNCHANGED <<balance, round>>

Double ==
  /\ Playing /\ click = "Double" /\ inst.firsthit
  /\ \E card \in Drawable(inst) :
       inst' = [Drawn(inst, "player", card) EXCEPT !.bet = 2 * @]
  /\ balance' = balance - inst.bet
  /\ round' = [round EXCEPT !.doubled = TRUE]
  /\ pc' = IF isGameOver(inst') THEN "end" ELSE "stand"
  /\ click' = "none"

(* A dealer's blackjack returns the bet, and shows itself.                 *)
Refund(g) == Sum(g.dealer) = 21

Offered == IsAce(inst.dealer[1]) /\ ~inst.insured

Insurance ==
  /\ Playing /\ click = "Insurance" /\ Offered
  /\ balance' = balance - inst.bet \div 2 + (IF Refund(inst) THEN inst.bet ELSE 0)
  /\ inst' = [inst EXCEPT !.insured = TRUE, !.reveal = @ \/ Refund(inst)]
  /\ pc' = "end"
  /\ click' = "none"
  /\ UNCHANGED round

NoPlay ==
  /\ pc = "play"
  /\ \/ isGameOver(inst)
     \/ click \notin {"Hit", "Stand", "Double", "Insurance"}
     \/ click = "Double" /\ ~inst.firsthit
     \/ click = "Insurance" /\ ~Offered
  /\ pc' = "end"
  /\ click' = IF click \in {"Forfeit", "Bet"} THEN click ELSE "none"
  /\ UNCHANGED <<balance, inst, round>>

(* Mutation: the dealer stops at sixteen.                                  *)
DealerHitsBelow16(g) == Sum(g.dealer) < 16

DealerHits(g) == Sum(g.dealer) < 17

(* One call of the recursive stand.                                        *)
StandStep ==
  /\ pc = "stand"
  /\ LET g == [inst EXCEPT !.reveal = TRUE] IN
     \/ /\ DealerHits(g)
        /\ \E card \in Drawable(g) : inst' = Drawn(g, "dealer", card)
        /\ pc' = "stand"
     \/ ~DealerHits(g) /\ inst' = g /\ pc' = "end"
  /\ UNCHANGED <<balance, click, round>>

Forfeited(g) == [g EXCEPT !.forfeited = @ \/ (click = "Forfeit" /\ ~isGameOver(g))]

(* The slider's range and its steps of five; it clamps what it finds.      *)
Slider(value) ==
  LET high == IF balance < 10 THEN 10 ELSE balance
      clamp(v) == IF v < 5 THEN 5 ELSE IF v > high THEN high ELSE v
  IN IF click = "Bet" THEN {clamp(5 * k) : k \in 0 .. high \div 5 + 1}
                      ELSE {clamp(value)}

(* The slider is shown before and after a round; it sets the bet when the  *)
(* round has been paid.                                                    *)
BetsOf(g) ==
  IF ~g.started \/ isGameOver(g)
  THEN {[g EXCEPT !.betReal = v, !.bet = IF g.over THEN v ELSE @] :
          v \in Slider(g.betReal)}
  ELSE {g}

(* shouldHideDealersCard                                                   *)
Shown(g) ==
  [g EXCEPT !.reveal = @ \/ Sum(g.dealer) > 21 \/ Sum(g.player) >= 21 \/ g.forfeited]

Over(g) == [g EXCEPT !.over = @ \/ isGameOver(g)]

Payout(g) == IF isGameOver(g) /\ ~g.over THEN (1 + whoWon(g)) * g.bet ELSE 0

(* The rest of the frame: Forfeit, the slider, and the bet paid when the   *)
(* round is over for the first time.                                       *)
EndFrame ==
  /\ pc = "end"
  /\ \E g \in BetsOf(Forfeited(inst)) :
       IF g.started
       THEN balance' = balance + Payout(Shown(g)) /\ inst' = Over(Shown(g))
       ELSE balance' = balance /\ inst' = g
  /\ pc' = "idle" /\ click' = "none"
  /\ UNCHANGED round

Step == \/ Deal \/ Hit \/ Stand \/ Double \/ Insurance \/ NoPlay \/ StandStep
        \/ EndFrame

Next == CallTask \/ Step

Spec == Init /\ [][Next]_vars

-----------------------------------------------------------------------------
(* Properties                                                              *)

BetweenFrames == pc = "idle" /\ inst.started

(* The bet is not below zero and the pieces of the game are of their kind. *)
TypeOK ==
  /\ balance \in Int
  /\ inst.bet \in Nat /\ inst.betReal \in Nat
  /\ {inst.firsthit, inst.insured, inst.over, inst.forfeited, inst.rules,
      inst.reveal, inst.started} \subseteq BOOLEAN
  /\ Range(inst.dealer) \cup Range(inst.player) \subseteq Deck
  /\ pc \in {"idle", "deal", "play", "stand", "end"}
  /\ click \in Controls /\ round.number \in 0 .. MaxRounds

(* No card is lost or doubled in the deck, however rounds and reshuffles   *)
(* follow each other.                                                      *)
DeckWhole == inst.hand \cup inst.stash = Deck /\ inst.hand \cap inst.stash = {}

(* Between two frames a round is marked as over exactly when it is.        *)
OverIsOver == BetweenFrames => (inst.over <=> isGameOver(inst))

(* The table is in order between any two clicks: its pieces are of their   *)
(* kind, the deck is whole, and the flag that stops all payment says what  *)
(* the cards say. drawCard, its reshuffle and New round must keep this.    *)
TableOK == TypeOK /\ DeckWhole /\ OverIsOver

(* What the cards say of the round, read from the rules: a sum over 21     *)
(* loses, the higher sum wins, equal sums are a draw.                      *)
Outcome(p, d) ==
  IF p > 21 THEN -1 ELSE IF d > 21 \/ p > d THEN 1 ELSE IF p = d THEN 0 ELSE -1

(* A round that is over has been paid once and by the rules: a won bet,    *)
(* doubled or not, comes back twice, a drawn one once, a lost one not; the *)
(* insurance costs half the bet and returns the bet if the dealer had a    *)
(* blackjack. A bust player is never paid, and nothing is paid early.      *)
RoundPays ==
  BetweenFrames =>
    LET bet == IF round.doubled THEN 2 * round.stake ELSE round.stake
        natural == Sum(inst.dealer) = 21 /\ Len(inst.dealer) = 2
        result == IF inst.forfeited THEN -1
                  ELSE Outcome(Sum(inst.player), Sum(inst.dealer))
    IN balance - round.before =
         (IF inst.over THEN result * bet ELSE -bet)
         - (IF inst.insured THEN round.stake \div 2 ELSE 0)
         + (IF inst.insured /\ natural THEN round.stake ELSE 0)

(* The dealer draws to seventeen and not beyond, the player never draws    *)
(* after 21: once the dealer's cards are shown the round is over, with     *)
(* seventeen or more unless the player was bust, had 21 or forfeited, and  *)
(* no one held such a hand before the last card.                           *)
DrawsByRule ==
  BetweenFrames =>
    /\ inst.reveal =>
         /\ inst.over
         /\ inst.forfeited \/ Sum(inst.player) >= 21 \/ Sum(inst.dealer) >= 17
    /\ Len(inst.dealer) > 2 => Sum(Front(inst.dealer)) < 17
    /\ Len(inst.player) > 2 => Sum(Front(inst.player)) < 21

(* The status line and the money agree.                                    *)
StatusTellsPayout ==
  BetweenFrames =>
    LET status == determineStatus(inst) IN
    CASE status \in {"Player win", "Player blackjack", "Dealer bust"} ->
           inst.over /\ whoWon(inst) = 1
      [] status = "Draw" -> inst.over /\ whoWon(inst) = 0
      [] status = "Awaiting action" -> ~inst.over
      [] OTHER -> inst.over /\ whoWon(inst) = -1

(* The rules shown by the game: "the ace is worth 11 or 10 unless it would *)
(* make the sum go over 21".                                               *)
AceUnlessOver21 ==
  \A cards \in {inst.player, inst.dealer} :
    Sum(cards) > 21 =>
      \A k \in DOMAIN cards :
        IsAce(cards[k]) => Sums(cards)[k] - Sums(cards)[k - 1] = 1
=============================================================================

---------------------------- MODULE PokerRoom ----------------------------
(***************************************************************************)
(* The Texas hold'em table: the members of PokerRoom and of its            *)
(* PokerPlayers, and the methods that change them                          *)
(* (Poker/src/core/PokerRoom.cpp, PokerPlayer.cpp).                        *)
(*                                                                         *)
(* A table t is a record with one field per member; each method is an      *)
(* operator from the table it finds to the table it leaves.  A method of   *)
(* the code runs to completion and may go through several of its states    *)
(* (the fall-through calls of ProcessGameState); so does the operator.     *)
(*                                                                         *)
(* (Mutated forms carry an underscore in their names, see module Pot.)     *)
(*                                                                         *)
(* Seats are indices into m_PlayerList.  Players are seated in the order   *)
(* in which they arrived and are never unseated, so the players with       *)
(* indices seated .. arrived-1 are the queue m_Observers.                  *)
(*                                                                         *)
(* Left out, because no decision reads them back: the roles (RoleState is  *)
(* reset before SetDealer looks for the old dealer), m_BetStartIndex,      *)
(* m_NotifyBetIndex, m_EventQueue, and the identity of the cards, of which *)
(* the number of common cards and the order of the hands (rank) remain.    *)
(* The one message kept is the announcement of a hand's result.            *)
(***************************************************************************)
EXTENDS Pot

CONSTANTS
  SmallBet, GreatBet,   \* the blinds (100 and 200)
  BuyIn,                \* a new player's money (5000)
  ActionTimeout         \* PLAYER_ACTION_TIMEOUT (30 seconds)

ASSUME PokerRoomAssumption ==
  /\ SmallBet \in Chips \ {0}
  /\ GreatBet \in Chips \ {0}
  /\ BuyIn \in Chips
  /\ ActionTimeout \in Nat \ {0}

PokerRoomState ==
  {"Init", "Start", "BlinderBet", "HandCard", "HandBet", "ThreeCards", "ThreeBet",
   "RollCard", "RollBet", "RiverCard", "RiverBet", "PotCalculation", "CheckPlayer"}

CardState == {"Play", "Bet", "Raise", "AllIn", "Fold"}

(* The states in which a hand waits for a player, in the order of play. *)
BetStates == {"HandBet", "ThreeBet", "RollBet", "RiverBet"}

(* m_Pot == nullptr. *)
NoPot == -1
(* No S2C_GameResultNtf was sent by the handler that just ran. *)
NoResult == [sent |-> FALSE]

Result == {NoResult} \cup
          [sent : {TRUE}, pots : Seq(PotRecord), contenders : SUBSET Seat,
           showCards : BOOLEAN]

(* Tables in one of the given states. *)
TableIn(states) ==
  [seated : 0 .. MaxPlayerNumber, arrived : 0 .. MaxPlayerNumber,
   state : states, inProgress : BOOLEAN,
   dealer : Seat \cup {-1}, small : Seat \cup {-1}, great : Seat \cup {-1},
   betIndex : Seat \cup {-1}, betNum : Chips, waiting : BOOLEAN,
   timer : 0 .. (ActionTimeout - 1), board : 0 .. 5, pot : Chips \cup {NoPot},
   card : [Seat -> CardState], bet : [Seat -> Chips], total : [Seat -> Chips],
   money : [Seat -> Chips], result : Result]

(* A table between two handlers. *)
Table == TableIn({"Init", "Start"} \cup BetStates)

(* The table a PokerRoom is constructed with, its creator still to join. *)
NewTable ==
  [seated |-> 0, arrived |-> 0, state |-> "Init", inProgress |-> FALSE,
   dealer |-> -1, small |-> -1, great |-> -1, betIndex |-> -1, betNum |-> 0,
   waiting |-> FALSE, timer |-> 0, board |-> 0, pot |-> NoPot,
   card  |-> [s \in Seat |-> "Play"],
   bet   |-> [s \in Seat |-> 0],
   total |-> [s \in Seat |-> 0],
   money |-> [s \in Seat |-> BuyIn],
   result |-> NoResult]

Seated(t) == 0 .. (t.seated - 1)
OnTable(t) == {s \in Seated(t) : t.card[s] # "Fold"}
Active(t) == {s \in Seated(t) : t.card[s] \notin {"Fold", "AllIn"}}
AtMostOne(S) == \A a, b \in S : a = b

After_SamePlayer(t, i) == i

(* The index after i, around the table. *)
After(t, i) == (i + 1) % t.seated

SetState(t, s) ==
  IF t.state = s THEN t ELSE [t EXCEPT !.state = s, !.betNum = 0]

-----------------------------------------------------------------------------
(* PokerPlayer: what an action of the player in seat s does to its chips.  *)

(* n chips go from the player to the pot; m_BetNumber becomes n. *)
Stake(t, s, n) ==
  [t EXCEPT !.bet[s] = n,
            !.total[s] = Plus(@, n),
            !.money[s] = Minus(@, n),
            !.pot = Plus(@, n)]

Check(t, s) == [t EXCEPT !.card[s] = "Bet"]
Call(t, s, n) == [Stake(t, s, n) EXCEPT !.card[s] = "Bet"]
Fold(t, s) == [t EXCEPT !.card[s] = "Fold"]

AllIn_MoneyFirst(t, s) == [Stake(t, s, t.money[s]) EXCEPT !.card[s] = "AllIn",
                                                         !.total[s] = t.total[s]]

AllIn(t, s) == [Stake(t, s, t.money[s]) EXCEPT !.card[s] = "AllIn"]
Raise(t, s, n) == [Stake(t, s, n) EXCEPT !.card[s] = "Raise"]

(* A forced bet: all in when it is not covered. *)
Bet(t, s, n) ==
  IF n < t.money[s]
    THEN [Stake(t, s, n) EXCEPT !.card[s] = "Bet"]
    ELSE AllIn(t, s)
-----------------------------------------------------------------------------
(* Turns.                                                                  *)

RoundOver_Unmatched(t) ==
  \/ AtMostOne(Active(t))
  \/ \A s \in Active(t) : t.card[s] # "Play"

RoundOver_Unasked(t) ==
  \/ AtMostOne(Active(t))
  \/ \A s \in Active(t) : t.bet[s] = t.betNum

RoundOver_LastActiveAsked(t) ==
  \A s \in Active(t) : t.bet[s] = t.betNum /\ t.card[s] # "Play"

(* What CheckTurn computes as roundOver. *)
RoundOver(t) ==
  \/ AtMostOne(Active(t))
  \/ \A s \in Active(t) : t.bet[s] = t.betNum /\ t.card[s] # "Play"

(* How many seats the scan of CheckTurn passes before it reaches s. *)
Steps(t, s) == IF s >= t.betIndex THEN s - t.betIndex ELSE s - t.betIndex + t.seated

NextToAct_AllInToo(t) ==
  CHOOSE s \in OnTable(t) : \A o \in OnTable(t) : Steps(t, s) =< Steps(t, o)

(* The first seat from m_BetIndex on that is neither folded nor all in. *)
NextToAct(t) ==
  CHOOSE s \in Active(t) : \A o \in Active(t) : Steps(t, s) =< Steps(t, o)

(* The state machine pauses: NotifyBet, and the clock starts. *)
AwaitAction(t) ==
  [t EXCEPT !.betIndex = NextToAct(t), !.waiting = TRUE, !.timer = 0]
-----------------------------------------------------------------------------
(* The end of a hand.                                                      *)

(* Observers take the free seats. *)
AddObserverPlayer(t) ==
  [t EXCEPT !.seated = Least(t.arrived, MaxPlayerNumber)]

ResetForNewRound_KeepBoard(t) ==
  [t EXCEPT !.bet   = [s \in Seat |-> IF s \in Seated(t) THEN 0 ELSE @[s]],
            !.total = [s \in Seat |-> IF s \in Seated(t) THEN 0 ELSE @[s]],
            !.card  = [s \in Seat |-> IF s \in Seated(t) THEN "Play" ELSE @[s]],
            !.inProgress = FALSE,
            !.pot = NoPot]

(* Every seated player is reset; so are the common cards and the pot. *)
ResetForNewRound(t) ==
  [t EXCEPT !.bet   = [s \in Seat |-> IF s \in Seated(t) THEN 0 ELSE @[s]],
            !.total = [s \in Seat |-> IF s \in Seated(t) THEN 0 ELSE @[s]],
            !.card  = [s \in Seat |-> IF s \in Seated(t) THEN "Play" ELSE @[s]],
            !.board = 0,
            !.inProgress = FALSE,
            !.pot = NoPot]

(* case CheckPlayer of ProcessGameState. *)
CheckPlayer(t) ==
  SetState(ResetForNewRound(AddObserverPlayer(SetState(t, "CheckPlayer"))), "Start")

NormalPlayers_FoldedToo(t) == {s \in Seated(t) : t.card[s] # "AllIn"}

(* CollectCalculatePlayers. *)
NormalPlayers(t) == {s \in Seated(t) : t.card[s] \in {"Play", "Bet", "Raise"}}
AllInPlayers(t) == {s \in Seated(t) : t.card[s] = "AllIn"}

(* case PotCalculation: divide the pot, announce the result, end the hand. *)
PotCalculation(t, rank) ==
  LET c   == SetState(t, "PotCalculation")
      d   == Dispatch(NormalPlayers(c), AllInPlayers(c), c.total, c.pot, rank)
      ntf == [sent |-> TRUE, pots |-> d.pots, contenders |-> OnTable(c),
              showCards |-> c.board = 5 /\ ~AtMostOne(OnTable(c))]
  IN  CheckPlayer([c EXCEPT !.money = [s \in Seat |-> Plus(@[s], d.paid[s])],
                            !.pot = 0,
                            !.result = ntf])

-----------------------------------------------------------------------------
(* The streets.                                                            *)

(***************************************************************************)
(* CheckTurn: the hand ends when one player is left on the table, moves on *)
(* when the betting round is over, and otherwise waits for the next player.*)
(* moved is the table SetState(m_State + 1); ProcessGameState() leads to.  *)
(***************************************************************************)
CheckTurn(t, rank, moved) ==
  LET c == [t EXCEPT !.waiting = FALSE]
  IN  CASE AtMostOne(OnTable(c)) -> PotCalculation(c, rank)
        [] ~AtMostOne(OnTable(c)) /\ RoundOver(c) -> moved
        [] OTHER -> AwaitAction(c)

ResetPlayerBetState_AllInToo(t) ==
  [t EXCEPT !.card = [s \in Seat |-> IF s \in OnTable(t) THEN "Play" ELSE @[s]],
            !.bet  = [s \in Seat |-> IF s \in Seated(t) THEN 0 ELSE @[s]]]

(* cases ThreeBet, RollBet and RiverBet up to CheckTurn. *)
ResetPlayerBetState(t) ==
  [t EXCEPT !.card = [s \in Seat |-> IF s \in Active(t) THEN "Play" ELSE @[s]],
            !.bet  = [s \in Seat |-> IF s \in Seated(t) THEN 0 ELSE @[s]]]

OpenBetting(t, s) ==
  LET c == SetState(t, s)
  IN  ResetPlayerBetState([c EXCEPT !.betIndex = After(c, c.dealer)])

(* Common cards are dealt and announced, then the next betting opens. *)
DealCommon(t, s, n) == [SetState(t, s) EXCEPT !.board = @ + n]

RiverCard(t, rank) ==
  LET c == OpenBetting(DealCommon(t, "RiverCard", 1), "RiverBet")
  IN  CheckTurn(c, rank, PotCalculation(c, rank))
RollCard(t, rank) ==
  LET c == OpenBetting(DealCommon(t, "RollCard", 1), "RollBet")
  IN  CheckTurn(c, rank, RiverCard(c, rank))
ThreeCards(t, rank) ==
  LET c == OpenBetting(DealCommon(t, "ThreeCards", 3), "ThreeBet")
  IN  CheckTurn(c, rank, RollCard(c, rank))
HandBet(t, rank) ==
  LET b == SetState(t, "HandBet")
      c == [b EXCEPT !.betIndex = After(b, b.great)]
  IN  CheckTurn(c, rank, ThreeCards(c, rank))

ContinueFrom_SkipRiver(t, rank) ==
  CASE t.state = "HandBet"  -> CheckTurn(t, rank, ThreeCards(t, rank))
    [] t.state = "ThreeBet" -> CheckTurn(t, rank, RollCard(t, rank))
    [] t.state = "RollBet"  -> CheckTurn(t, rank, PotCalculation(t, rank))

ContinueFrom_SkipRoll(t, rank) ==
  CASE t.state = "HandBet"  -> CheckTurn(t, rank, ThreeCards(t, rank))
    [] t.state = "ThreeBet" -> CheckTurn(t, rank, RiverCard(t, rank))
    [] t.state = "RollBet"  -> CheckTurn(t, rank, RiverCard(t, rank))
    [] t.state = "RiverBet" -> CheckTurn(t, rank, PotCalculation(t, rank))

(* CheckTurn as it continues from the state the hand is in. *)
ContinueFrom(t, rank) ==
  CASE t.state = "HandBet"  -> CheckTurn(t, rank, ThreeCards(t, rank))
    [] t.state = "ThreeBet" -> CheckTurn(t, rank, RollCard(t, rank))
    [] t.state = "RollBet"  -> CheckTurn(t, rank, RiverCard(t, rank))
    [] t.state = "RiverBet" -> CheckTurn(t, rank, PotCalculation(t, rank))

(* case BlinderBet; HandCard deals the private cards and changes no more. *)
BlinderBet(t, rank) ==
  LET c == SetState(t, "BlinderBet")
      b == Bet(Bet(c, c.small, SmallBet), c.great, GreatBet)
  IN  HandBet(SetState([b EXCEPT !.betNum = GreatBet], "HandCard"), rank)

(***************************************************************************)
(* SetDealer.  The roles are all reset to Player before the old dealer is  *)
(* looked for, so none is ever found and the search yields index -1.       *)
(***************************************************************************)
OldDealer == -1

SetDealer(t) ==
  LET dealer == (OldDealer + 1) % t.seated
  IN  [t EXCEPT !.dealer = dealer,
                !.small = IF t.seated = 2 THEN dealer ELSE (dealer + 1) % t.seated,
                !.great = IF t.seated = 2 THEN (dealer + 1) % t.seated
                                          ELSE (dealer + 2) % t.seated]
-----------------------------------------------------------------------------
(* The methods called from outside the class.                              *)

(* A handler starts with nothing sent. *)
Quiet(t) == [t EXCEPT !.result = NoResult]

OnAddPlayer(t) == [Quiet(t) EXCEPT !.arrived = @ + 1]

SetProgress(t) == [Quiet(t) EXCEPT !.inProgress = TRUE]

StartNewGame_EarlyMark(t, rank) ==
  LET c == [CheckPlayer([Quiet(t) EXCEPT !.inProgress = TRUE]) EXCEPT !.pot = 0]
  IN  IF c.seated < 2
        THEN SetState([c EXCEPT !.inProgress = FALSE], "Start")
        ELSE BlinderBet(SetDealer(c), rank)

(* StartNewGame; CheckPlayer always leaves the room in Start. *)
StartNewGame(t, rank) ==
  LET c == [CheckPlayer(Quiet(t)) EXCEPT !.inProgress = TRUE, !.pot = 0]
  IN  IF c.seated < 2
        THEN SetState([c EXCEPT !.inProgress = FALSE], "Start")
        ELSE BlinderBet(SetDealer(c), rank)

(* After the player at m_BetIndex acted: a raise reopens the betting. *)
OnPlayerAction(t, rank) ==
  LET actor  == t.betIndex
      raised == [t EXCEPT
                   !.betNum = t.bet[actor],
                   !.card = [s \in Seat |->
                               CASE s = actor -> "Bet"
                                 [] s # actor /\ s \in Active(t) -> "Play"
                                 [] OTHER -> @[s]]]
      heard  == IF t.card[actor] = "Raise" THEN raised ELSE t
  IN  ContinueFrom([heard EXCEPT !.waiting = FALSE, !.timer = 0,
                                 !.betIndex = After(t, actor)], rank)

OnUpdate_Restart(t, ts, rank) ==
  CASE ~(t.state \in BetStates /\ t.waiting) -> Quiet(t)
    [] t.state \in BetStates /\ t.waiting /\ ts < ActionTimeout ->
         [Quiet(t) EXCEPT !.timer = ts]
    [] OTHER -> OnPlayerAction(Fold(Quiet(t), t.betIndex), rank)

OnUpdate_NoFold(t, ts, rank) ==
  CASE ~(t.state \in BetStates /\ t.waiting) -> Quiet(t)
    [] t.state \in BetStates /\ t.waiting /\ t.timer + ts < ActionTimeout ->
         [Quiet(t) EXCEPT !.timer = @ + ts]
    [] OTHER -> OnPlayerAction(Quiet(t), rank)

(* The clock of the player to act; when it runs out the player folds.      *)
(* The elapsed time is not stored then: OnPlayerAction resets it.          *)
OnUpdate(t, ts, rank) ==
  CASE ~(t.state \in BetStates /\ t.waiting) -> Quiet(t)
    [] t.state \in BetStates /\ t.waiting /\ t.timer + ts < ActionTimeout ->
         [Quiet(t) EXCEPT !.timer = @ + ts]
    [] OTHER -> OnPlayerAction(Fold(Quiet(t), t.betIndex), rank)
-----------------------------------------------------------------------------
(* The tables found between two handlers (module PokerRoomProofs proves    *)
(* that every handler leaves one of them).                                 *)

(* The common cards that are out when the room is in state s. *)
CardsOut(s) == CASE s = "ThreeBet" -> 3
                 [] s = "RollBet"  -> 4
                 [] s = "RiverBet" -> 5
                 [] OTHER -> 0

(* A hand is announced with a winner to be, and compared on a full board. *)
ProperResult(t) ==
  t.result.sent =>
    /\ t.result.contenders # {}
    /\ ~AtMostOne(t.result.contenders) => t.result.showCards

(* No hand is on.  There is a pot only if the last start failed for want   *)
(* of players, and then no player was ever to act at this table.           *)
Rests(t) ==
  /\ t \in TableIn({"Init", "Start"})
  /\ ~t.waiting
  /\ t.board = 0
  /\ t.seated =< t.arrived
  /\ t.betIndex # -1 => t.pot = NoPot /\ t.betIndex \in Seated(t) /\ t.seated > 1
  /\ ProperResult(t)

(* A hand is on and waits in state s for one of two or more players. *)
Waits(t, s) ==
  /\ t \in TableIn({s})
  /\ t.waiting
  /\ t.board = CardsOut(s)
  /\ t.seated =< t.arrived
  /\ t.pot # NoPot /\ t.inProgress
  /\ t.betIndex \in Active(t)
  /\ ~AtMostOne(Active(t))
  /\ \A p \in Seated(t) : t.card[p] # "Raise"
  /\ t.result = NoResult

(* The stakes of a hand that is on are in the pot, and nobody staked who   *)
(* is not seated; between hands there are none.                            *)
Staked(t) ==
  /\ t.pot # NoPot
  /\ t.pot = SumOf(t.total) % ChipMod
  /\ \A s \in Seat \ Seated(t) : t.total[s] = 0 /\ t.bet[s] = 0
Unstaked(t) ==
  /\ t.pot \in {NoPot, 0}
  /\ \A s \in Seat : t.total[s] = 0 /\ t.bet[s] = 0
InBalance(t) == IF t.state \in BetStates THEN Staked(t) ELSE Unstaked(t)

(* The chips of a table, and what the result just announced dropped of     *)
(* them at most.                                                           *)
Worth(t) == SumOf(t.money) + (IF t.pot = NoPot THEN 0 ELSE t.pot)
DroppedAtMost(t) == IF t.result.sent THEN DroppedOf(t.result.pots) ELSE 0

(* The players who keep a betting round from being over. *)
Owing(t) == {s \in Active(t) : t.card[s] = "Play" \/ t.bet[s] # t.betNum}
=============================================================================

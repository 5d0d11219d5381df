---------------------------- MODULE HoldemGame ----------------------------
(***************************************************************************)
(* One poker room and the module that drives it: TexasHoldemModule takes   *)
(* the room over when its players are ready, starts a hand when their      *)
(* clients have answered, feeds it the actions of its players and the      *)
(* passing of time, and releases it when the hand is over                  *)
(* (Poker/src/core/TexasHoldemModule.cpp driving PokerRoom.cpp).           *)
(*                                                                         *)
(* Handlers and updates all run on the main loop's thread, one after the   *)
(* other, so each is one step.  Their order is free.                       *)
(***************************************************************************)
EXTENDS PokerRoom

CONSTANTS
  TickLength,      \* the ts an update passes to the room
  RaiseAmounts,    \* amounts players raise to
  Rankings,        \* how the hands may compare: functions from Seat to Nat
  \* bounds of the exploration
  MaxHands,        \* hands started
  MaxActs,         \* player actions in one hand
  MaxRaises        \* raises in one hand

ASSUME HoldemGameAssumption ==
  /\ TickLength \in Nat
  /\ RaiseAmounts \subseteq Chips
  /\ Rankings \subseteq [Seat -> Nat]
  /\ MaxHands \in Nat /\ MaxActs \in Nat /\ MaxRaises \in Nat

VARIABLES
  room,      \* the PokerRoom, a table of module PokerRoom
  active,    \* the room is in m_ActiveGames
  sync,      \* its m_Sync: the ClientReady barrier is armed
  alive,     \* the process has not crashed
  owed,      \* history: seats yet to answer the last raise of this betting
  hands, acts, raises   \* counters for the bounds

vars == <<room, active, sync, alive, owed, hands, acts, raises>>
counters == <<hands, acts, raises>>

(* Bytes of PlayerActionType; "Other" is any byte the switch has no case for. *)
ActionType == {"Fold", "Check", "Call", "Raise", "AllIn", "Other"}
-----------------------------------------------------------------------------
(* A room is created together with its creator's seat in it. *)
Init ==
  /\ room = OnAddPlayer(NewTable)
  /\ active = FALSE /\ sync = FALSE /\ alive = TRUE
  /\ owed = {}
  /\ hands = 0 /\ acts = 0 /\ raises = 0

(* OnJoinRoomReq: refused during a game and when IsFull. *)
Join ==
  /\ alive
  /\ ~room.inProgress
  /\ room.arrived < MaxPlayerNumber - 1
  /\ room' = OnAddPlayer(room)
  /\ UNCHANGED <<active, sync, alive, owed, counters>>

(* TakeOverGame, when OnUpdate finds all players of an idle room ready. *)
TakeOverGame ==
  /\ alive
  /\ ~room.inProgress /\ ~active
  /\ room' = SetProgress(room)
  /\ active' = TRUE /\ sync' = TRUE
  /\ UNCHANGED <<alive, owed, counters>>

(* The last client of the room answered: the barrier calls StartNewGame. *)
StartNewGameOnSync ==
  /\ alive
  /\ sync
  /\ hands < MaxHands
  /\ room' \in {StartNewGame(room, rank) : rank \in Rankings}
  /\ sync' = FALSE
  /\ owed' = IF room'.waiting THEN Active(room') ELSE {}
  /\ hands' = hands + 1 /\ acts' = 0 /\ raises' = 0
  /\ UNCHANGED <<active, alive>>

(* What the player's own object does with the action. *)
PlayerDoes(t, s, act, amount) ==
  CASE act = "Fold"  -> Fold(t, s)
    [] act = "Check" -> Check(t, s)
    [] act = "Call"  -> Call(t, s, t.betNum)
    [] act = "Raise" -> Raise(t, s, amount)
    [] act = "AllIn" -> AllIn(t, s)
    [] act = "Other" -> t

(* The seats that still owe an answer once s has done act. *)
OwedAfter(s, act) ==
  IF ~room'.waiting
    THEN {}
    ELSE Active(room') \cap
           (CASE room'.state # room.state -> Seat
              [] room'.state = room.state /\ act = "Raise" -> Seat \ {s}
              [] room'.state = room.state /\ act = "Other" -> owed
              [] OTHER -> owed \ {s})

(***************************************************************************)
(* OnPlayerActionReq from the client whose player sits at m_BetIndex; from *)
(* anyone else it is refused.  It asks neither whether the room waits for  *)
(* an action nor whether there is a pot, which it reads: without one the   *)
(* process dies.                                                           *)
(***************************************************************************)
OnPlayerActionReq(act, amount) ==
  /\ alive
  /\ active
  /\ room.betIndex \in Seated(room)
  /\ act = "Raise" => raises < MaxRaises
  /\ acts < MaxActs
  /\ IF room.pot = NoPot
       THEN /\ alive' = FALSE
            /\ UNCHANGED <<room, owed, counters>>
       ELSE /\ LET acted == PlayerDoes(Quiet(room), room.betIndex, act, amount)
               IN  room' \in {OnPlayerAction(acted, rank) : rank \in Rankings}
            /\ owed' = OwedAfter(room.betIndex, act)
            /\ acts' = acts + 1
            /\ raises' = IF act = "Raise" THEN raises + 1 ELSE raises
            /\ UNCHANGED <<alive, hands>>
  /\ UNCHANGED <<active, sync>>

(* The second half of OnUpdate: drive the room, release it after its hand. *)
Update ==
  /\ alive
  /\ active
  /\ room' \in {OnUpdate(room, TickLength, rank) : rank \in Rankings}
  /\ active' = ~(room'.state = "Start" /\ ~room'.inProgress)
  /\ owed' = IF room'.betIndex = room.betIndex /\ room'.state = room.state
               THEN owed
               ELSE OwedAfter(room.betIndex, "Fold")
  /\ UNCHANGED <<sync, alive, counters>>

PlayerAction ==
  \/ \E act \in ActionType \ {"Raise"} : OnPlayerActionReq(act, 0)
  \/ \E amount \in RaiseAmounts : OnPlayerActionReq("Raise", amount)

Next == Join \/ TakeOverGame \/ StartNewGameOnSync \/ PlayerAction \/ Update

Spec == Init /\ [][Next]_vars
-----------------------------------------------------------------------------
(* The type invariant.                                                     *)

(* Between handlers the table holds values of the types of its members; in *)
(* particular the room never rests in a state that only a handler passes   *)
(* through (PokerRoom.h:9-25), and no timer reaches the timeout.           *)
TypeOK ==
  /\ room \in Table
  /\ active \in BOOLEAN /\ sync \in BOOLEAN /\ alive \in BOOLEAN
  /\ owed \subseteq Seat
  /\ hands \in Nat /\ acts \in Nat /\ raises \in Nat
-----------------------------------------------------------------------------
(* Safety.                                                                 *)

InHand == room.state \in BetStates

(* A hand never stalls: whenever the room is in a betting state it waits   *)
(* for a seated player who can still act, and one more player can; it      *)
(* waits in no other state (CheckTurn, PokerRoom.cpp:434-476).             *)
NoStall ==
  /\ InHand <=> room.waiting
  /\ InHand => room.betIndex \in Active(room) /\ ~AtMostOne(Active(room))

(* The room under play stays under the module's control, with a pot, and   *)
(* nobody re-arms its start: the barrier is armed only between takeover    *)
(* and start (the assertion of Room.cpp:88 holds at every takeover), and   *)
(* no player joins a table in play (LobbyModule.cpp:102).                  *)
Custody ==
  /\ room.inProgress => active
  /\ sync => room.inProgress /\ ~InHand
  /\ InHand => room.inProgress /\ ~sync /\ room.pot # NoPot

(* The pot is at any time what the players have staked in this hand, also  *)
(* those who folded, and nobody keeps a stake without a pot                *)
(* (PokerPlayer.cpp:49-72, 122-139; Pot::Dispatch divides by these totals).*)
PotIsSumOfStakes ==
  IF room.pot = NoPot
    THEN \A s \in Seat : room.total[s] = 0 /\ room.bet[s] = 0
    ELSE room.pot = SumOf(room.total) % ChipMod

(* A hand is decided by cards only when all five common cards are out, and *)
(* somebody is there to win it: the refund of Dispatch (Pot.cpp:60-67) is  *)
(* never needed, and no hand is compared before it was calculated          *)
(* (PokerPlayer::Calculate returns early, PokerPlayer.cpp:86-89).          *)
ShowdownOnFullBoard ==
  room.result.sent =>
    /\ room.result.contenders # {}
    /\ ~AtMostOne(room.result.contenders) => room.result.showCards
-----------------------------------------------------------------------------
(* Why they hold: the inductive invariant.  Besides the shape of a table   *)
(* between two handlers it says who answers for what, a seat that has yet  *)
(* to answer is one that keeps the betting round open; and that the stakes *)
(* of the seats are in the pot.                                            *)
Playable ==
  /\ active \in BOOLEAN /\ sync \in BOOLEAN /\ alive \in BOOLEAN
  /\ hands \in Nat /\ acts \in Nat /\ raises \in Nat
  /\ Rests(room) \/ \E s \in BetStates : Waits(room, s)
  /\ room.inProgress => active
  /\ sync => room.inProgress /\ Rests(room)
  /\ owed \subseteq (IF room.waiting THEN Owing(room) ELSE {})

IInv == Playable /\ InBalance(room)
-----------------------------------------------------------------------------
(* What a step may never do.                                               *)

(* The player who acts, or is timed out, in a step that continues a hand. *)
Actor == room.betIndex
SameHand == InHand /\ InHand' /\ hands' = hands

(* Chips are neither created nor destroyed: money and pot together change  *)
(* only when a pot is divided, and then by the remainders that the integer *)
(* division of Dispatch drops (Pot.cpp:111, 120), less than one chip for   *)
(* every winner of every pot.                                              *)
ChipsConserved ==
  [][(Worth(room) - Worth(room')) % ChipMod \in 0 .. DroppedAtMost(room')]_vars

(* Folding and going all in are final for the hand: such a player is never *)
(* brought back into the betting by a raise or a new street, and pays      *)
(* nothing more (ResetPlayerBetState, PokerRoom.cpp:127-134; 485-493).     *)
OutStaysOut ==
  [][SameHand => \A s \in Seated(room) \ Active(room) :
                   /\ room'.card[s] = room.card[s]
                   /\ room'.money[s] = room.money[s]]_vars

(* Only the player whose turn it is puts chips into the pot, and a player  *)
(* who folded before the end of a hand is paid nothing at its end          *)
(* (CollectCalculatePlayers, PokerRoom.cpp:320-346).                       *)
NobodyElsesMoney ==
  [][InHand => \A s \in Seated(room) \ {Actor} :
                 room'.money[s] # room.money[s] =>
                   room'.result.sent /\ room.card[s] # "Fold"]_vars

(* A round of betting ends in this step with two players left in it: the   *)
(* next one opens, or there is a showdown although two others could act.   *)
RoundEnds ==
  /\ InHand
  /\ IF InHand' THEN room'.state # room.state
                ELSE ~AtMostOne(Active(room) \ {Actor})

(* It ends only when every one of them has answered the last raise of the  *)
(* round, or had a turn if there was none, and the hand only in the last   *)
(* round: nobody is passed over and no street is played unasked (the card  *)
(* states Play and Bet of PokerRoom.cpp:443-453, 485-493).                 *)
RoundEndsAnswered ==
  [][RoundEnds => owed \subseteq {Actor} /\ (InHand' \/ room.state = "RiverBet")]_vars

(* ... and then all of them have put the same amount in front of them      *)
(* (PokerRoom.cpp:448).                                                    *)
RoundEndsEven ==
  [][RoundEnds => \A s \in Active(room) \ {Actor} : room.bet[s] = room.betNum]_vars

(* A player who acted waits for another, or for the next street: the turn  *)
(* never comes back at once (PokerRoom.cpp:461-468, 495).                  *)
TurnPasses ==
  [][acts' = acts + 1 /\ SameHand /\ room'.state = room.state =>
       room'.betIndex # Actor]_vars
-----------------------------------------------------------------------------
(* Refinement.                                                             *)

RoundNumber(s) == CASE s = "HandBet"  -> 1
                    [] s = "ThreeBet" -> 2
                    [] s = "RollBet"  -> 3
                    [] s = "RiverBet" -> 4
                    [] OTHER -> 0

Flow == INSTANCE HandFlow WITH
          round <- RoundNumber(room.state),
          turn  <- IF room.waiting THEN room.betIndex ELSE -1,
          board <- room.board

(* The table keeps the promises of HandFlow: rounds in order, each with    *)
(* its common cards, none left over from the hand before                   *)
(* (ProcessGameState and CheckTurn, PokerRoom.cpp:230-309, 434-498).       *)
FlowSpec == Flow!Spec
-----------------------------------------------------------------------------
(* What assertions and comments of the code say.                           *)

(* "Invalid pot when player has to bet" (the assertion of                  *)
(* PokerPlayer.cpp:124): no player is ever made to act while the room has  *)
(* no pot.  The process dies exactly when one is.                          *)
BettorHasPot == alive

(* m_BetNumber is the "number each round" (PokerPlayer.h:62) and           *)
(* m_TotalBetNumber the number of the game: in the first round of a hand,  *)
(* they are the same.                                                      *)
BetNumberIsTheRounds ==
  room.state = "HandBet" => \A s \in Seated(room) : room.bet[s] = room.total[s]

(* A player who has less than is asked for does not pay it: "ask player to *)
(* add money" (PokerPlayer.cpp:29-36, and Bet, 125-138, which goes all     *)
(* in): so money grows only by winning, never by paying.                   *)
PaymentsAreCovered ==
  [][\A s \in Seat : room'.money[s] > room.money[s] => room'.result.sent]_vars
=============================================================================

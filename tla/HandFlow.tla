----------------------------- MODULE HandFlow -----------------------------
(***************************************************************************)
(* What a table promises its players about the course of a hand: betting   *)
(* rounds come one at a time and in order, each with its number of common  *)
(* cards on the table, and each turn is that of a player.  How a round     *)
(* comes to its end is not said here.                                      *)
(***************************************************************************)
EXTENDS Integers

CONSTANT Seat

VARIABLES
  round,   \* 0 between hands, then 1 .. 4: before the flop, flop, turn, river
  turn,    \* the seat to act, NoTurn between hands
  board    \* common cards on the table

vars == <<round, turn, board>>

NoTurn == -1

(* Common cards on the table in each round. *)
CardsIn(r) == CASE r \in {0, 1} -> 0
                [] r \in 2 .. 4 -> r + 1

Init == round = 0 /\ turn = NoTurn /\ board = 0

(* The table is idle; the cards of a hand, if there was one, are gone. *)
EndHand == round' = 0 /\ turn' = NoTurn /\ board' = 0

(* A hand starts; blinds that put the players all in may end it at once. *)
StartHand ==
  /\ round = 0
  /\ round' = 1
  /\ turn' \in Seat
  /\ board' = CardsIn(1)

(* The turn passes to somebody else in the same round. *)
PassTurn ==
  /\ round # 0
  /\ turn' \in Seat \ {turn}
  /\ UNCHANGED <<round, board>>

(* The round is over and the next one begins. *)
NextRound ==
  /\ round \in 1 .. 3
  /\ round' = round + 1
  /\ turn' \in Seat
  /\ board' = CardsIn(round + 1)

Next == StartHand \/ PassTurn \/ NextRound \/ EndHand

Spec == Init /\ [][Next]_vars
=============================================================================

---------------------------- MODULE HoldemLoop ----------------------------
(***************************************************************************)
(* The game under the server's main loop (TempServer/src/Server/core/      *)
(* Application.cpp): the loop updates every module in every turn, whatever *)
(* its clients do.  frame, a history variable, alternates with the updates *)
(* of the room, so that fairness can speak of updates that change nothing. *)
(***************************************************************************)
EXTENDS HoldemGame

VARIABLE frame

loopVars == <<vars, frame>>

LoopInit == Init /\ frame = FALSE

(* One turn of the loop, as far as this room is concerned. *)
LoopUpdate == Update /\ frame' = ~frame

LoopNext ==
  \/ LoopUpdate
  \/ (Join \/ TakeOverGame \/ StartNewGameOnSync \/ PlayerAction) /\ UNCHANGED frame

(***************************************************************************)
(* Only LoopUpdate changes frame, and it is enabled when the process lives *)
(* and the room is under the module's control: this is weak fairness of    *)
(* the updates.  Nothing is assumed of the players.                        *)
(***************************************************************************)
LoopSpec ==
  /\ LoopInit
  /\ [][LoopNext]_loopVars
  /\ WF_frame(alive /\ active /\ frame' = ~frame)
-----------------------------------------------------------------------------
(* Nobody can hold the table for ever: the turn of a player who does not   *)
(* act is taken away by the timeout (PokerRoom.cpp:408-426).               *)
TurnResolved ==
  \A s \in Seat :
    (room.waiting /\ room.betIndex = s) ~> ~(room.waiting /\ room.betIndex = s)

(* When the players stop acting altogether, the timeouts alone bring the   *)
(* hand to its end and the room back to the lobby, unless a late action    *)
(* kills the process first (TexasHoldemModule.cpp:85-90, 148).             *)
SilentHandEnds ==
  \/ []<><<acts' > acts>>_acts
  \/ InHand ~> (~alive \/ ~active)
=============================================================================

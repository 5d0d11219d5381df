--------------------------- MODULE MCHoldemGame ---------------------------
(* HoldemGame on small tables, as its runs explore it. *)
EXTENDS HoldemGame, FiniteSetsExt

(***************************************************************************)
(* Every way the hands of the players can compare: who is best, who is     *)
(* next, who ties.  Strengths are numbered without gaps; the last seat is  *)
(* never taken, because a room is full one player short of its maximum.    *)
(***************************************************************************)
AllRankings ==
  {r \in [Seat -> 0 .. (MaxPlayerNumber - 2)] :
     /\ r[MaxPlayerNumber - 1] = 0
     /\ \A s \in Seat : r[s] = 0 \/ \E o \in Seat : r[o] = r[s] - 1}

(* One seat holds the best hand, or two do, or all tie; the rest is level. *)
(* Enough where the division of the pot is not the subject.                *)
LevelRankings == {r \in AllRankings : \A s \in Seat : r[s] =< 1}

(* Seat 1 wins alone, seat 0 and 1 tie, all tie. *)
FewRankings ==
  {r \in LevelRankings : r[1] = 1 /\ (MaxPlayerNumber > 3 => r[2] = 0)}
    \cup {[s \in Seat |-> 0]}
=============================================================================

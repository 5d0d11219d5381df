---------------------------- MODULE PotDivision ----------------------------
(***************************************************************************)
(* Pot::Dispatch on every showdown of a small table: who folded, who is    *)
(* all in, what each staked in the hand and how the hands compare are      *)
(* arbitrary, the pot holds what was staked.                               *)
(*                                                                         *)
(* Dispatch treats seats alike, so the seats are numbered by falling stake.*)
(***************************************************************************)
EXTENDS Pot, FiniteSetsExt

CONSTANTS
  MaxStake,   \* what a player can have staked at most,
  Stakes,     \* and what the players of these showdowns have
  Rankings    \* how the hands may compare

ASSUME PotDivisionAssumption ==
  /\ MaxStake \in Nat
  /\ MaxStake * MaxPlayerNumber < ChipMod
  /\ Stakes \subseteq 0 .. MaxStake
  /\ Rankings \subseteq [Seat -> Nat]

VARIABLES
  role,      \* "Fold", "AllIn", or "Normal" for Play, Bet and Raise
  total,     \* m_TotalBetNumber
  rank,
  divided    \* what Dispatch returned and paid; NotYet before

vars == <<role, total, rank, divided>>

NotYet == [pots |-> << >>, paid |-> << >>]

Normals == {s \in Seat : role[s] = "Normal"}
AllIns == {s \in Seat : role[s] = "AllIn"}
Contenders == Normals \cup AllIns

Init ==
  /\ role \in [Seat -> {"Fold", "AllIn", "Normal"}]
  /\ total \in {f \in [Seat -> Stakes] : \A s, o \in Seat : s < o => f[s] >= f[o]}
  /\ rank \in Rankings
  /\ divided = NotYet

Divide ==
  /\ divided = NotYet
  /\ divided' = Dispatch(Normals, AllIns, total, SumOf(total), rank)
  /\ UNCHANGED <<role, total, rank>>

Spec == Init /\ [][Divide]_vars

Done == divided # NotYet
-----------------------------------------------------------------------------
(* What the all-in players ask for.                                        *)

(* The players in the side pot of a besides a. *)
Above(a, normals, stakes) == {o \in normals : stakes[o] > stakes[a]}

Owed(a, normals, stakes) == Cardinality(Above(a, normals, stakes)) * stakes[a]

(* The side pots of some all-in players, as a column to add up. *)
Due(some, normals, stakes) ==
  [a \in Seat |-> IF a \in some THEN Owed(a, normals, stakes) ELSE 0]

(* From five seats on this can be more than was staked: two players all in *)
(* with 4 each ask three with 5 each for 24 chips of 23.                   *)
SidesAsk == SumOf(Due(AllIns, Normals, total))
-----------------------------------------------------------------------------
(* The pots together are the pot, and all of it is paid out again, to      *)
(* players who did not fold, but for the remainders of the divisions among *)
(* tied winners (Pot.cpp:111, 120); so the last player left, all in or     *)
(* not, takes all of it (Pot.cpp:62-66).                                   *)
WholePotDivided ==
  Done /\ Contenders # {} =>
    /\ Amounts(divided.pots) = SumOf(total)
    /\ \A s \in Seat \ Contenders : divided.paid[s] = 0
    /\ SumOf(total) - SumOf(divided.paid) \in 0 .. DroppedOf(divided.pots)

(* The better hand of o beats c for everything c plays for. *)
Outplays(o, c) == rank[o] > rank[c]

(* A player is paid nothing who is beaten by one that is not all in and    *)
(* has staked more - or as much, if neither is all in (Pot.cpp:86-95).     *)
OutplayedGetNothing ==
  Done =>
    \A c \in Contenders, o \in Normals :
      /\ Outplays(o, c)
      /\ total[o] > total[c] \/ (c \in Normals /\ total[o] = total[c])
      => divided.paid[c] = 0

(* Unless the side pots ask for the whole pot, what they leave is played   *)
(* for by all contenders, and whoever none of them beats has a full share  *)
(* of it, all in or not (Pot.cpp:104-116): then, and only then, the best   *)
(* hand is sure not to go away with nothing.                               *)
BestHandIsPaid ==
  Done /\ Contenders # {} /\ SidesAsk < SumOf(total) =>
    LET main == divided.pots[1]
        best == {c \in Contenders : \A o \in Contenders : ~Outplays(o, c)}
    IN  /\ main.amount = SumOf(total) - SidesAsk
        /\ main.winners = best
        /\ \A c \in best : divided.paid[c] >= main.amount \div Cardinality(best)

(* The pots after the main pot are one all-in player's each and hold what  *)
(* that player asks of the others in it; but if together they ask for more *)
(* than the pot, there is no main pot and the last of them is what is left *)
(* (Pot.cpp:96): nobody is asked for more than was staked, and no other    *)
(* side pot is cut.                                                        *)
OnlyTheLastIsCut ==
  Done /\ Contenders # {} =>
    LET main == IF SidesAsk < SumOf(total) THEN 1 ELSE 0
    IN  \A i \in main + 1 .. Len(divided.pots) :
          LET p == divided.pots[i]
          IN  \E a \in AllIns :
                /\ p.players \cap AllIns = {a}
                /\ \/ p.amount = total[a] * Cardinality(p.players \ {a})
                   \/ /\ SidesAsk > SumOf(total) /\ i = Len(divided.pots)
                      /\ p.amount \in 1 .. total[a] * Cardinality(p.players \ {a}) - 1
-----------------------------------------------------------------------------
(* What comments of the code say.                                          *)

(* "Only players who staked more than the all-in player, or as much, take  *)
(* part in the side pot" (Pot.cpp:90): so nobody wins against a better     *)
(* hand of such a player.                                                  *)
EqualStakeTakesPart ==
  Done =>
    \A c \in AllIns, o \in Normals :
      Outplays(o, c) /\ total[o] >= total[c] => divided.paid[c] = 0

(* "Only the money beyond the all-in is counted" in a side pot             *)
(* (Pot.cpp:92).                                                           *)
SidePotIsTheExcess ==
  Done =>
    \A i \in DOMAIN divided.pots \ {1} :
      LET p == divided.pots[i]
          beyond(a, o) == total[o] - total[a]
      IN  \A a \in p.players \cap AllIns :
            p.amount = MapThenSumSet(LAMBDA o : beyond(a, o), p.players \ {a})
=============================================================================

------------------------------- MODULE Pot -------------------------------
(***************************************************************************)
(* The pot of one hand: chip arithmetic and Pot::Dispatch, the division of *)
(* the pot into a main pot and side pots among the players who have not    *)
(* folded (Poker/src/logic/Pot.cpp).                                       *)
(*                                                                         *)
(* Chips are uint64_t in the code; ChipMod stands for 2^64 and every sum   *)
(* and difference wraps as it does there.                                  *)
(*                                                                         *)
(* The cards are abstracted to their order: rank[s] is the strength of the *)
(* best five-card hand of seat s, larger is better, equal is a tie.        *)
(*                                                                         *)
(* Operators whose name ends in an underscore and a word are mutated forms *)
(* of the definition that follows them: plausible bugs, used to see that   *)
(* the properties can fail.                                                *)
(***************************************************************************)
EXTENDS Integers, FiniteSets, Sequences

CONSTANTS
  MaxPlayerNumber,   \* m_GameConfig.m_MaxPlayerNumber: seats at the table
  ChipMod            \* the width of a chip counter (2^64 in the code)

ASSUME PotAssumption ==
  /\ MaxPlayerNumber \in Nat \ {0}
  /\ ChipMod \in Nat \ {0}

(* An index into m_PlayerList. *)
Seat == 0 .. (MaxPlayerNumber - 1)
Chips == 0 .. (ChipMod - 1)

Plus(a, b) == (a + b) % ChipMod
Minus(a, b) == (a - b) % ChipMod
Least(a, b) == IF a < b THEN a ELSE b

PotRecord == [players : SUBSET Seat, amount : Chips, winners : (SUBSET Seat) \ {{}},
              rewards : Chips]

CalWinner_Inverted(players, rank) ==
  {w \in players : \A p \in players : rank[p] >= rank[w]}

(* Utils::CalWinner: everyone whose hand nobody in players beats. *)
CalWinner(players, rank) ==
  {w \in players : \A p \in players : rank[p] =< rank[w]}

PotOf_Undivided(players, amount, rank) ==
  [players |-> players, amount |-> amount, winners |-> CalWinner(players, rank),
   rewards |-> amount]

(* An entry of sidePots together with what is paid for it. *)
PotOf(players, amount, rank) ==
  LET winners == CalWinner(players, rank)
  IN  [players |-> players, amount |-> amount, winners |-> winners,
       rewards |-> amount \div Cardinality(winners)]

(* AddMoney(rewards) for every winner of one pot. *)
PayTo(paid, pot) ==
  [s \in Seat |-> IF s \in pot.winners THEN Plus(paid[s], pot.rewards) ELSE paid[s]]

SideAmount_OwnStake(others, stake, left) == Least(((others + 1) * stake) % ChipMod, left)

(* What a side pot holds: the all-in player's total from each of the       *)
(* others in it, and never more than is left of the pot.                   *)
SideAmount(others, stake, left) == Least((others * stake) % ChipMod, left)

LeftAfter_Forgotten(left, amount) == left

(* currentPotValue -= sidePotAmount. *)
LeftAfter(left, amount) == Minus(left, amount)

(***************************************************************************)
(* One turn of the loop over allInPlayers, which are sorted by total.  The *)
(* side pot of all-in player a is contested by a and by the players who    *)
(* are not all in and have a strictly greater total.                       *)
(***************************************************************************)
TakeSidePot(p, normals, total, rank) ==
  LET a      == CHOOSE x \in p.todo : \A y \in p.todo : total[x] =< total[y]
      above  == {o \in normals : total[o] > total[a]}
      amount == SideAmount(Cardinality(above), total[a], p.left)
      side   == PotOf({a} \cup above, amount, rank)
  IN  CASE p.todo = {} -> p
        [] p.todo # {} /\ amount = 0 -> [p EXCEPT !.todo = @ \ {a}]
        [] OTHER -> [p EXCEPT !.todo = @ \ {a},
                              !.left = LeftAfter(@, amount),
                              !.pots = Append(@, side),
                              !.paid = PayTo(@, side)]

(* The whole loop.  Players all in with equal totals take their turns in   *)
(* an arbitrary order; their side pots are alike, unless one is cut to     *)
(* what is left: PotDivision has every order of their hands.               *)
SidePots(normals, allIns, total, pot, rank) ==
  LET after[n \in 0 .. MaxPlayerNumber] ==
        IF n = 0
          THEN [todo |-> allIns, left |-> pot, pots |-> << >>,
                paid |-> [s \in Seat |-> 0]]
          ELSE TakeSidePot(after[n - 1], normals, total, rank)
  IN  after[MaxPlayerNumber]

MainPlayers_NotAllIn(normals, allIns) == IF normals = {} THEN allIns ELSE normals

(* mainPotParticipants: everyone who has not folded, all in or not. *)
MainPlayers(normals, allIns) == normals \cup allIns

Nobody(normals, allIns) == normals \cup allIns = {}

(***************************************************************************)
(* Pot::Dispatch: what every seat is paid, and the pots announced, main    *)
(* pot first.  With nobody left every player gets the total back.          *)
(***************************************************************************)
Dispatch(normals, allIns, total, pot, rank) ==
  LET sides == SidePots(normals, allIns, total, pot, rank)
      main  == PotOf(MainPlayers(normals, allIns), sides.left, rank)
  IN  CASE Nobody(normals, allIns) -> [pots |-> << >>, paid |-> total]
        [] ~Nobody(normals, allIns) /\ sides.left = 0 ->
             [pots |-> sides.pots, paid |-> sides.paid]
        [] OTHER -> [pots |-> <<main>> \o sides.pots,
                     paid |-> PayTo(sides.paid, main)]
-----------------------------------------------------------------------------
(* Sums, to say what becomes of the chips.  (Recursive functions, so that  *)
(* proofs can follow them.)                                                *)

(* f[0] + ... + f[n - 1]. *)
SumTo(f, n) ==
  LET upTo[k \in 0 .. n] == IF k = 0 THEN 0 ELSE upTo[k - 1] + f[k - 1]
  IN  upTo[n]

(* What the seats have together. *)
SumOf(f) == SumTo(f, MaxPlayerNumber)

(* What the pots of a hand hold together. *)
Amounts(pots) == SumTo([k \in 0 .. Len(pots) - 1 |-> pots[k + 1].amount], Len(pots))

(* What their divisions among the winners may drop: less than one chip for *)
(* every winner.                                                           *)
DroppedOf(pots) ==
  SumTo([k \in 0 .. Len(pots) - 1 |-> Cardinality(pots[k + 1].winners) - 1], Len(pots))
=============================================================================

----------------------------- MODULE MCShowdown -----------------------------
(***************************************************************************)
(* What a showdown computes: PokerPlayer::Calculate on many deals, and     *)
(* Pot::Dispatch on many tables.  A behaviour is one call of either, the   *)
(* other's part has been done for an empty table or waits for the cards.   *)
(***************************************************************************)
EXTENDS PotDivision, HandRanking

(* One seat is best and the others are of two kinds, or all are of two. *)
SomeRankings ==
  [Seat -> {0, 1}]
    \cup {r \in [Seat -> 0 .. 2] : /\ Cardinality({s \in Seat : r[s] = 2}) = 1
                                  /\ {0, 1} \subseteq {r[s] : s \in Seat}}

(* Two all in with 3 ask three with 4 each for the whole pot; two all in   *)
(* with 4 ask three with 5 each for one chip more than there is.           *)
SomeStakes == {0, 3, 4, 5}

(* Two cards that none of the five common cards below is. *)
OtherTwo == <<[point |-> 6, type |-> 3], [point |-> 8, type |-> 4]>>

(* Points that repeat, in any order: of types that differ where they are   *)
(* the same.                                                               *)
Repeated == {s \in [1 .. 5 -> {1, 2, 7, 13}] : \A p \in {1, 2, 7, 13} : Times(s, p) <= 4}
OfOtherTypes(s) ==
  [i \in 1 .. 5 |-> [point |-> s[i], type |-> Cardinality({j \in 1 .. i : s[j] = s[i]})]]

(* Different points, in any order: straights and their like, of one type   *)
(* or with one card of another.                                            *)
PointSets == {1 .. 5, 4 .. 8, 9 .. 13, {1, 10, 11, 12, 13}, {1, 9, 10, 11, 12},
            {1, 2, 11, 12, 13}, {1, 3, 6, 10, 12}, {2, 3, 4, 5, 7}}
InAnyOrder(C) == {s \in [1 .. 5 -> C] : \A i, j \in 1 .. 5 : i # j => s[i] # s[j]}
Different == UNION {InAnyOrder(C) : C \in PointSets}
OfTypes(s, last) == [i \in 1 .. 5 |-> [point |-> s[i], type |-> IF i = 5 THEN last ELSE 1]]

FiveInAnyOrder ==
  {<<OtherTwo, OfOtherTypes(s)>> : s \in Repeated}
    \cup {<<OtherTwo, OfTypes(s, last)>> : s \in Different, last \in {1, 2}}

(* Seven cards out of a pack. *)
Pack(points, types) == [point : points, type : types]
Rising(C) ==
  LET Below(c) == {o \in C : o.point < c.point \/ (o.point = c.point /\ o.type < c.type)}
  IN  [i \in 1 .. Cardinality(C) |-> CHOOSE c \in C : Cardinality(Below(c)) = i - 1]
SevenOf(pack) ==
  {<<SubSeq(Rising(C), 1, 2), SubSeq(Rising(C), 3, 7)>> :
     C \in {D \in SUBSET pack : Cardinality(D) = 7}}

Sevens == SevenOf(Pack({1, 7, 13}, 1 .. 4)) \cup SevenOf(Pack({2, 3, 4, 5, 6, 9}, {1, 2}))

SmallDeals == FiveInAnyOrder \cup Sevens
-----------------------------------------------------------------------------
NothingStaked ==
  /\ role = [s \in Seat |-> "Fold"] /\ total = [s \in Seat |-> 0] /\ rank = [s \in Seat |-> 0]
  /\ divided = Dispatch(Normals, AllIns, total, SumOf(total), rank)

NothingDealt == handCards = << >> /\ commonCards = << >> /\ maxCards = NoCards

ShowdownInit ==
  \/ Init /\ NothingDealt
  \/ RankingInit /\ NothingStaked

ShowdownNext ==
  \/ Divide /\ UNCHANGED rankingVars
  \/ Calculate /\ UNCHANGED vars

ShowdownSpec == ShowdownInit /\ [][ShowdownNext]_<<vars, rankingVars>>
=============================================================================

-------------------------------- MODULE Card --------------------------------
(***************************************************************************)
(* How five cards are ranked and compared (Card.cpp) and how a player      *)
(* keeps the best five of seven (PokerPlayer::Calculate).                  *)
(*                                                                         *)
(* A card is a record [type, point], with type 0 (Cover) and point 0 when  *)
(* it could not be parsed.  The order of the cards is kept: some of the    *)
(* code depends on it.                                                     *)
(***************************************************************************)
EXTENDS Naturals, Sequences, FiniteSets, SequencesExt

(* CardLevel *)
None == 0
High == 1
Pair == 2
Two_Pairs == 3
Sites == 4
Straight == 5
Flush == 6
Full_House == 7
Bomb == 8
Straight_Flush == 9
Royal_Flush == 10

Unset == 255      \* what the loops start with: uint8_t(255)

PointsOf(cards) == {cards[i].point : i \in DOMAIN cards}
TypesOf(cards) == {cards[i].type : i \in DOMAIN cards}

(* The elements of a std::set are written from the back of sortedCards. *)
Falling(S) ==
  [i \in 1 .. Cardinality(S) |-> CHOOSE p \in S : Cardinality({q \in S : q > p}) = i - 1]

(* Outside of straights the ace counts 14. *)
Strength(point) == IF point = 1 THEN 14 ELSE point
Strengths(cards) == [i \in DOMAIN cards |-> Strength(cards[i].point)]
Times(points, p) == Cardinality({i \in DOMAIN points : points[i] = p})

(* A loop over five cards. *)
InTurn(Op(_, _), start, s) == Op(Op(Op(Op(Op(start, s[1]), s[2]), s[3]), s[4]), s[5])

(* The two smallest points: the second is the one that was the smallest    *)
(* before, or else, if the smallest came first, the next larger one.       *)
Smaller(acc, c) ==
  IF c.point < acc.min THEN [min |-> c.point, second |-> acc.min] ELSE acc

Smallest(cards) ==
  LET scan == InTurn(Smaller, [min |-> Unset, second |-> Unset], cards)
      others == PointsOf(cards) \ {scan.min}
  IN  IF scan.second = Unset /\ others # {}
        THEN [scan EXCEPT !.second = CHOOSE p \in others : \A o \in others : p <= o]
        ELSE scan

(* For five different points: whether they are a straight, and in order.   *)
AceOnTop(cards) ==
  LET smallest == Smallest(cards)
  IN  smallest.min = 1 /\ 2 \notin PointsOf(cards) /\ smallest.second = 10

IsStraight(cards) ==
  LET smallest == Smallest(cards)
      record == IF AceOnTop(cards) THEN (PointsOf(cards) \ {1}) \cup {14} ELSE PointsOf(cards)
      min == IF AceOnTop(cards) THEN smallest.second ELSE smallest.min
      res == \A i \in 0 .. 4 : min + i \in record
  IN  [res |-> res, sortedCards |-> Falling(IF res THEN min .. min + 4 ELSE record)]

Paired(acc, p) ==
  IF p \in acc.record THEN [record |-> acc.record \ {p}, pair |-> p]
  ELSE [acc EXCEPT !.record = @ \cup {p}]

SortPair(cards) ==
  LET scan == InTurn(Paired, [record |-> {}, pair |-> Unset], Strengths(cards))
  IN  [level |-> Pair, sortedCards |-> <<scan.pair, scan.pair>> \o Falling(scan.record)]

(* Three different points: the first one seen twice is the pair; seen a    *)
(* third time it makes Sites, another one seen twice makes Two_Pairs.      *)
SeenTwice(acc, p) ==
  IF p \notin acc.records THEN [acc EXCEPT !.records = @ \cup {p}]
  ELSE IF acc.pair = Unset THEN [acc EXCEPT !.pair = p]
  ELSE IF p = acc.pair
    THEN [acc EXCEPT !.level = Sites, !.records = @ \ {p}]
    ELSE [acc EXCEPT !.level = Two_Pairs, !.pair2 = p, !.records = @ \ {p, acc.pair}]

SortSitesTwoPair(cards) ==
  LET scan == InTurn(SeenTwice,
                     [records |-> {}, pair |-> Unset, pair2 |-> Unset, level |-> None],
                     Strengths(cards))
      pairs == Falling({scan.pair, scan.pair2})
  IN  [level |-> scan.level,
       sortedCards |-> IF scan.level = Sites
                         THEN <<scan.pair, scan.pair, scan.pair>> \o Falling(scan.records)
                         ELSE <<pairs[1], pairs[1], pairs[2], pairs[2]>> \o Falling(scan.records)]

(* Points held three or four times come first, the rest last. *)
SortBombFullHouse(cards) ==
  LET points == Strengths(cards)
      often == CHOOSE p \in ToSet(points) : Times(points, p) > 2
      max == Times(points, often)
      rest == CHOOSE p \in ToSet(points) : p # often
  IN  [level |-> IF max = 4 THEN Bomb ELSE Full_House,
       sortedCards |-> [i \in 1 .. 5 |-> IF i <= max THEN often ELSE rest]]

(* Five different points.  A straight of several types gets no level.      *)
LevelOfDifferent_ColorFirst(straight, sameColor) ==
  IF sameColor THEN Flush ELSE IF straight.res THEN None ELSE High

LevelOfDifferent(straight, sameColor) ==
  IF straight.res
    THEN IF ~sameColor THEN None
         ELSE IF straight.sortedCards[1] = 14 THEN Royal_Flush ELSE Straight_Flush
    ELSE IF sameColor THEN Flush ELSE High

CalCardID(cards) ==
  LET different == Cardinality(PointsOf(cards))
      sameColor == Cardinality(TypesOf(cards)) = 1
  IN  CASE different = 5 ->
             LET straight == IsStraight(cards)
             IN  [level |-> LevelOfDifferent(straight, sameColor),
                  sortedCards |-> straight.sortedCards]
        [] different = 4 -> SortPair(cards)
        [] different = 3 -> SortSitesTwoPair(cards)
        [] different = 2 -> SortBombFullHouse(cards)
        [] OTHER -> [level |-> None, sortedCards |-> <<0, 0, 0, 0, 0>>]

(* 0: equal, 1: the first is greater, 2: the second is greater. *)
CompareTwoSets(first, second) ==
  LET differ == {i \in 1 .. 5 : first.sortedCards[i] # second.sortedCards[i]}
      i == CHOOSE j \in differ : \A k \in differ : j <= k
  IN  IF first.level # second.level THEN (IF first.level > second.level THEN 1 ELSE 2)
      ELSE IF differ = {} THEN 0
      ELSE IF first.sortedCards[i] > second.sortedCards[i] THEN 1 ELSE 2

Without(cards, i, j) == RemoveAt(RemoveAt(cards, j), i)

(* PokerPlayer::Calculate, when all the common cards are there: the loops  *)
(* over the two cards left out, i the first of them.                       *)
NoCards == [level |-> None, sortedCards |-> <<>>]

Better_Swapped(max, tem) == IF CompareTwoSets(max, tem) = 1 THEN tem ELSE max
Better(max, tem) == IF CompareTwoSets(max, tem) = 2 THEN tem ELSE max

LeavingOut(totalCards, max, i, j) ==
  LET tem == CalCardID(Without(totalCards, i, j))
  IN  IF i >= j THEN max
      ELSE IF i = 1 /\ j = 2 THEN tem
      ELSE Better(max, tem)

OneToSeven(Op(_, _), start) == Op(Op(Op(Op(Op(Op(Op(start, 1), 2), 3), 4), 5), 6), 7)

BestOf(totalCards) ==
  OneToSeven(LAMBDA outer, i :
               OneToSeven(LAMBDA max, j : LeavingOut(totalCards, max, i, j), outer),
             NoCards)
=============================================================================

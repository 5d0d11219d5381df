---------------------------- MODULE HandRanking ----------------------------
(***************************************************************************)
(* PokerPlayer::Calculate on every deal of a small set, against the rules  *)
(* of the game: the categories that CardLevel names (Card.h:13-23), within *)
(* a category the points held most often first, the higher first.          *)
(***************************************************************************)
EXTENDS Card

CONSTANT Deals   \* pairs of two cards in the hand and the common cards, in order

(* Cards of the pack, none of them twice. *)
LegalCards == [type : 1 .. 4, point : 1 .. 13]
Distinct(cards) == \A i, j \in DOMAIN cards : cards[i] = cards[j] => i = j

ASSUME HandRankingAssumption ==
  \A deal \in Deals :
    /\ deal[1] \in Seq(LegalCards) /\ Len(deal[1]) = 2
    /\ deal[2] \in Seq(LegalCards) /\ Len(deal[2]) <= 5
    /\ Distinct(deal[1] \o deal[2])

VARIABLES
  handCards,     \* m_HandCards
  commonCards,   \* m_CommonCards
  maxCards       \* m_MaxCards

rankingVars == <<handCards, commonCards, maxCards>>

RankingInit ==
  /\ \E deal \in Deals : handCards = deal[1] /\ commonCards = deal[2]
  /\ maxCards = NoCards

(* With fewer common cards Calculate returns early. *)
Calculate ==
  /\ Len(commonCards) = 5
  /\ maxCards' = BestOf(handCards \o commonCards)
  /\ UNCHANGED <<handCards, commonCards>>

RankingSpec == RankingInit /\ [][Calculate]_rankingVars
-----------------------------------------------------------------------------
(* The rules. *)
RulePoint(p) == IF p = 1 THEN 14 ELSE p
RulePoints(cards) == [i \in DOMAIN cards |-> RulePoint(cards[i].point)]

RunsUp(points) == \E low \in 1 .. 10 : points = low .. low + 4
InARow(cards) ==
  Cardinality(PointsOf(cards)) = 5
  /\ (RunsUp(PointsOf(cards)) \/ RunsUp({RulePoint(p) : p \in PointsOf(cards)}))

OneType(cards) == Cardinality(TypesOf(cards)) = 1
Held(cards, n) ==
  LET points == RulePoints(cards)
  IN  {p \in ToSet(points) : Times(points, p) = n}

RuleLevel(cards) ==
  CASE InARow(cards) /\ OneType(cards) /\ {1, 13} \subseteq PointsOf(cards) -> Royal_Flush
    [] InARow(cards) /\ OneType(cards) /\ ~({1, 13} \subseteq PointsOf(cards)) -> Straight_Flush
    [] ~InARow(cards) /\ OneType(cards) -> Flush
    [] InARow(cards) /\ ~OneType(cards) -> Straight
    [] Held(cards, 4) # {} -> Bomb
    [] Held(cards, 3) # {} /\ Held(cards, 2) # {} -> Full_House
    [] Held(cards, 3) # {} /\ Held(cards, 2) = {} -> Sites
    [] Cardinality(Held(cards, 2)) = 2 -> Two_Pairs
    [] Cardinality(Held(cards, 2)) = 1 /\ Held(cards, 3) = {} -> Pair
    [] OTHER -> High

(* Each point has its places behind those of the points that come before.  *)
ComesBefore(points, a, b) ==
  \/ Times(points, a) > Times(points, b)
  \/ Times(points, a) = Times(points, b) /\ a > b

RuleOrder(cards) ==
  LET points == RulePoints(cards)
      Before(p) == Cardinality({i \in DOMAIN points : ComesBefore(points, points[i], p)})
  IN  [i \in 1 .. 5 |-> CHOOSE p \in ToSet(points) :
                         Before(p) < i /\ i <= Before(p) + Times(points, p)]

(* Where the code departs from them: straights of several types and        *)
(* straights up to the ace; and an ace among five different points.        *)
LevelDeparts(cards) == InARow(cards) /\ (~OneType(cards) \/ {1, 13} \subseteq PointsOf(cards))
OrderDeparts(cards) == 1 \in PointsOf(cards) /\ Cardinality(PointsOf(cards)) = 5

ByTheRules(cards) == [level |-> RuleLevel(cards), sortedCards |-> RuleOrder(cards)]
-----------------------------------------------------------------------------
(* In whatever order five cards come they get the level of the rules, and  *)
(* the points that decide between hands of one level are compared in the   *)
(* order of the rules; the exceptions are those named above (Card.cpp:     *)
(* 61-71, 88-94, 97-176, 296-343).                                         *)
FiveByTheRules ==
  Len(commonCards) = 5 /\ ~LevelDeparts(commonCards) =>
    LET id == CalCardID(commonCards)
    IN  /\ id.level = RuleLevel(commonCards)
        /\ ~OrderDeparts(commonCards) => id.sortedCards = RuleOrder(commonCards)

(* Of seven cards a player keeps the best five by the rules, if none of    *)
(* the choices is one of the exceptions (PokerPlayer.cpp:97-119).          *)
BestByTheRules ==
  LET fives == {Without(handCards \o commonCards, out[1], out[2]) :
                  out \in {o \in (1 .. 7) \X (1 .. 7) : o[1] < o[2]}}
  IN  maxCards # NoCards /\ (\A cards \in fives : ~LevelDeparts(cards) /\ ~OrderDeparts(cards)) =>
        /\ maxCards \in {ByTheRules(cards) : cards \in fives}
        /\ \A cards \in fives : CompareTwoSets(ByTheRules(cards), maxCards) # 1

(* Card.h:18: five in a row have the level "Straight": a player who can    *)
(* make them has at least that.                                            *)
StraightHasLevel ==
  maxCards # NoCards /\ InARow(commonCards) => maxCards.level >= Straight

(* Card.h:13: ten to ace of one type are a "Royal_Flush", and if these are *)
(* the common cards every player has it.                                   *)
RoyalFlushInAnyOrder ==
  /\ maxCards # NoCards
  /\ OneType(commonCards) /\ PointsOf(commonCards) = {1, 10, 11, 12, 13}
  => maxCards.level = Royal_Flush
=============================================================================

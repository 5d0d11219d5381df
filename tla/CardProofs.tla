----------------------------- MODULE CardProofs -----------------------------
(***************************************************************************)
(* Proofs about modules HandRanking (with Card) and Deck, the two halves   *)
(* of Card.cpp.                                                            *)
(*                                                                         *)
(* Ranking: the points of five cards are named a .. e, and everything the  *)
(* rules say of them is arithmetic of how often each is there (Count) and  *)
(* how many places lie before it (Ahead).  Each sorting function is then   *)
(* shown to fill the places the rules give, whatever the order of the      *)
(* cards, and the loops of Calculate to keep the best of the choices they  *)
(* have been through.                                                      *)
(*                                                                         *)
(* Deck: with a pack description that makes different cards of different   *)
(* numbers, as TempServer/pokerParse.yaml does, no two cards of a hand     *)
(* look alike, however often and however badly the random numbers repeat;  *)
(* if it makes legal cards, they are what the ranking assumes.             *)
(***************************************************************************)
EXTENDS HandRanking, Deck, Integers, FiniteSetTheorems, TLAPS

(* 1 if a holds *)
Bit(a) == IF a THEN 1 ELSE 0

(* How many of five places a set holds. *)
LEMMA CardFive ==
  ASSUME NEW S \in SUBSET (1 .. 5)
  PROVE  /\ IsFiniteSet(S)
         /\ Cardinality(S) = Bit(1 \in S) + Bit(2 \in S) + Bit(3 \in S) + Bit(4 \in S) + Bit(5 \in S)
<1> DEFINE T(n) == S \cap (1 .. n)
           Grows(n) == /\ IsFiniteSet(T(n)) /\ Cardinality(T(n)) \in Nat
                       /\ Cardinality(T(n)) = Cardinality(T(n - 1)) + Bit(n \in S)
<1>0. IsFiniteSet(T(0)) /\ Cardinality(T(0)) = 0
  <2>1. T(0) = {}
    OBVIOUS
  <2> QED
    BY <2>1, FS_EmptySet
<1>1. \A n \in 1 .. 5 : IsFiniteSet(T(n - 1)) => Grows(n)
  <2> SUFFICES ASSUME NEW n \in 1 .. 5, IsFiniteSet(T(n - 1)) PROVE Grows(n)
    OBVIOUS
  <2>1. CASE n \in S
    <3>1. T(n) = T(n - 1) \cup {n} /\ n \notin T(n - 1)
      BY <2>1
    <3> HIDE DEF T
    <3>2. IsFiniteSet(T(n - 1) \cup {n}) /\ Cardinality(T(n - 1) \cup {n}) = Cardinality(T(n - 1)) + 1
      BY <3>1, FS_AddElement
    <3> QED
      BY <2>1, <3>1, <3>2, FS_CardinalityType DEF Bit
  <2>2. CASE n \notin S
    <3>1. T(n) = T(n - 1)
      BY <2>2
    <3> HIDE DEF T
    <3>2. Cardinality(T(n)) \in Nat
      BY <3>1, FS_CardinalityType
    <3> QED
      BY <2>2, <3>1, <3>2 DEF Bit
  <2> QED
    BY <2>1, <2>2
<1>2. Grows(1) /\ Grows(2) /\ Grows(3) /\ Grows(4) /\ Grows(5)
  <2> HIDE DEF T
  <2>1. Grows(1)
    BY <1>0, <1>1
  <2>2. Grows(2)
    BY <2>1, <1>1
  <2>3. Grows(3)
    BY <2>2, <1>1
  <2>4. Grows(4)
    BY <2>3, <1>1
  <2> QED
    BY <2>1, <2>2, <2>3, <2>4, <1>1
<1>3. T(5) = S
  OBVIOUS
<1> HIDE DEF T
<1> QED
  BY <1>0, <1>2, <1>3 DEF Bit

(* One more element, or the same set. *)
LEMMA OneMore ==
  ASSUME NEW S, NEW x, IsFiniteSet(S)
  PROVE  /\ IsFiniteSet(S \cup {x}) /\ Cardinality(S) \in Nat
         /\ Cardinality(S \cup {x}) = Cardinality(S) + Bit(x \notin S)
<1>1. CASE x \in S
  <2>1. S \cup {x} = S
    BY <1>1
  <2>2. Cardinality(S) \in Nat
    BY FS_CardinalityType
  <2>3. Bit(x \notin S) = 0 /\ Cardinality(S) + 0 = Cardinality(S)
    BY <1>1, <2>2 DEF Bit
  <2> QED
    BY <2>1, <2>2, <2>3, Zenon
<1>2. CASE x \notin S
  BY <1>2, FS_AddElement, FS_CardinalityType DEF Bit
<1> QED
  BY <1>1, <1>2

(* How many different things five are. *)
Distribution(a, b, c, d, e) ==
  1 + Bit(b # a) + Bit(c \notin {a, b}) + Bit(d \notin {a, b, c}) + Bit(e \notin {a, b, c, d})

LEMMA DifferentFive ==
  ASSUME NEW a, NEW b, NEW c, NEW d, NEW e
  PROVE  /\ IsFiniteSet({a, b, c, d, e})
         /\ Cardinality({a, b, c, d, e}) = Distribution(a, b, c, d, e)
<1>1. IsFiniteSet({a}) /\ Cardinality({a}) = 1
  BY FS_Singleton
<1>2. IsFiniteSet({a, b}) /\ Cardinality({a, b}) = 1 + Bit(b \notin {a})
  <2>1. {a} \cup {b} = {a, b}
    OBVIOUS
  <2> QED
    BY <1>1, <2>1, OneMore
<1>3. IsFiniteSet({a, b, c}) /\ Cardinality({a, b, c}) = Cardinality({a, b}) + Bit(c \notin {a, b})
  <2>1. {a, b} \cup {c} = {a, b, c}
    OBVIOUS
  <2> QED
    BY <1>2, <2>1, OneMore
<1>4. /\ IsFiniteSet({a, b, c, d})
      /\ Cardinality({a, b, c, d}) = Cardinality({a, b, c}) + Bit(d \notin {a, b, c})
  <2>1. {a, b, c} \cup {d} = {a, b, c, d}
    OBVIOUS
  <2> QED
    BY <1>3, <2>1, OneMore
<1>5. /\ IsFiniteSet({a, b, c, d, e})
      /\ Cardinality({a, b, c, d, e}) = Cardinality({a, b, c, d}) + Bit(e \notin {a, b, c, d})
  <2>1. {a, b, c, d} \cup {e} = {a, b, c, d, e}
    OBVIOUS
  <2> QED
    BY <1>4, <2>1, OneMore
<1>6. Bit(b \notin {a}) = Bit(b # a)
  BY DEF Bit
<1> QED
  BY <1>2, <1>3, <1>4, <1>5, <1>6 DEF Distribution

(* Five points, the ace counting 1 or 14. *)
Points(a, b, c, d, e) ==
  a \in 1 .. 14 /\ b \in 1 .. 14 /\ c \in 1 .. 14 /\ d \in 1 .. 14 /\ e \in 1 .. 14

(* Of five points: how often one is among them, which comes first by the   *)
(* rules, and how many places are before one.                              *)
Count(a, b, c, d, e, x) == Bit(a = x) + Bit(b = x) + Bit(c = x) + Bit(d = x) + Bit(e = x)
First(a, b, c, d, e, x, y) ==
  \/ Count(a, b, c, d, e, x) > Count(a, b, c, d, e, y)
  \/ Count(a, b, c, d, e, x) = Count(a, b, c, d, e, y) /\ x > y
Ahead(a, b, c, d, e, x) ==
  Bit(First(a, b, c, d, e, a, x)) + Bit(First(a, b, c, d, e, b, x)) + Bit(First(a, b, c, d, e, c, x))
    + Bit(First(a, b, c, d, e, d, x)) + Bit(First(a, b, c, d, e, e, x))

(* A hand of five as the rules take it. *)
Five(hand) == hand \in Seq(LegalCards) /\ Len(hand) = 5 /\ Distinct(hand)

(* Its points, as naturals and as a set; and how often each is there. *)
LEMMA FivePoints ==
  ASSUME NEW hand, Five(hand)
  PROVE  LET v == RulePoints(hand)
         IN  /\ DOMAIN hand = 1 .. 5 /\ DOMAIN v = 1 .. 5
             /\ \A i \in 1 .. 5 : /\ hand[i] \in LegalCards /\ hand[i].point \in 1 .. 13
                                  /\ v[i] = IF hand[i].point = 1 THEN 14 ELSE hand[i].point
                                  /\ v[i] \in 2 .. 14 /\ v[i] \in Nat
             /\ Strengths(hand) = v
             /\ ToSet(v) = {v[1], v[2], v[3], v[4], v[5]}
<1> DEFINE v == RulePoints(hand)
<1>1. DOMAIN hand = 1 .. 5
  BY DEF Five
<1>2. \A i \in 1 .. 5 : hand[i] \in LegalCards
  BY <1>1 DEF Five
<1>3. v = [i \in 1 .. 5 |-> RulePoint(hand[i].point)]
  BY <1>1 DEF RulePoints
<1>4. Strengths(hand) = v
  BY <1>1 DEF RulePoints, RulePoint, Strengths, Strength
<1>5. DOMAIN v = 1 .. 5 /\ \A i \in 1 .. 5 : v[i] = RulePoint(hand[i].point)
  BY <1>3
<1> HIDE DEF v
<1>6. ASSUME NEW i \in 1 .. 5
      PROVE  /\ hand[i].point \in 1 .. 13 /\ v[i] = IF hand[i].point = 1 THEN 14 ELSE hand[i].point
             /\ v[i] \in 2 .. 14 /\ v[i] \in Nat
  <2>1. hand[i].point \in 1 .. 13
    BY <1>2 DEF LegalCards
  <2>2. v[i] = IF hand[i].point = 1 THEN 14 ELSE hand[i].point
    BY <1>5 DEF RulePoint
  <2> DEFINE p == hand[i].point
  <2> HIDE DEF p
  <2>3. p \in 1 .. 13 /\ v[i] = IF p = 1 THEN 14 ELSE p
    BY <2>1, <2>2 DEF p
  <2>4. v[i] \in 2 .. 14 /\ v[i] \in Nat
    BY <2>3
  <2> QED
    BY <2>1, <2>2, <2>4
<1>7. ToSet(v) = {v[1], v[2], v[3], v[4], v[5]}
  <2>1. ToSet(v) = {v[i] : i \in 1 .. 5}
    BY <1>5 DEF ToSet
  <2>2. 1 .. 5 = {1, 2, 3, 4, 5}
    OBVIOUS
  <2> QED
    BY <2>1, <2>2, Zenon
<1> QED
  BY <1>1, <1>2, <1>4, <1>5, <1>6, <1>7 DEF v

(* How often a point is there, and how many places are before it. *)
LEMMA TimesOfFive ==
  ASSUME NEW v, DOMAIN v = 1 .. 5
  PROVE  \A x : Times(v, x) = Count(v[1], v[2], v[3], v[4], v[5], x)
<1> SUFFICES ASSUME NEW x PROVE Times(v, x) = Count(v[1], v[2], v[3], v[4], v[5], x)
  OBVIOUS
<1> DEFINE S == {i \in 1 .. 5 : v[i] = x}
<1>1. Times(v, x) = Cardinality(S)
  BY DEF Times
<1>2. S \in SUBSET (1 .. 5)
  OBVIOUS
<1>3. \A i \in 1 .. 5 : i \in S <=> v[i] = x
  OBVIOUS
<1> HIDE DEF S
<1>4. Cardinality(S) = Bit(1 \in S) + Bit(2 \in S) + Bit(3 \in S) + Bit(4 \in S) + Bit(5 \in S)
  BY <1>2, CardFive
<1>5. /\ Bit(1 \in S) = Bit(v[1] = x) /\ Bit(2 \in S) = Bit(v[2] = x) /\ Bit(3 \in S) = Bit(v[3] = x)
      /\ Bit(4 \in S) = Bit(v[4] = x) /\ Bit(5 \in S) = Bit(v[5] = x)
  BY <1>3 DEF Bit
<1> QED
  BY <1>1, <1>4, <1>5 DEF Count

LEMMA BeforeOfFive ==
  ASSUME NEW v, DOMAIN v = 1 .. 5, NEW x
  PROVE  Cardinality({i \in 1 .. 5 : ComesBefore(v, v[i], x)}) = Ahead(v[1], v[2], v[3], v[4], v[5], x)
<1> DEFINE S == {i \in 1 .. 5 : ComesBefore(v, v[i], x)}
           F(y) == First(v[1], v[2], v[3], v[4], v[5], y, x)
<1>1. \A y : ComesBefore(v, y, x) <=> F(y)
  BY TimesOfFive DEF ComesBefore, First
<1>2. S \in SUBSET (1 .. 5)
  OBVIOUS
<1>3. \A i \in 1 .. 5 : i \in S <=> ComesBefore(v, v[i], x)
  OBVIOUS
<1> HIDE DEF S
<1>4. Cardinality(S) = Bit(1 \in S) + Bit(2 \in S) + Bit(3 \in S) + Bit(4 \in S) + Bit(5 \in S)
  BY <1>2, CardFive
<1> HIDE DEF F
<1>5. /\ 1 \in S <=> F(v[1])
      /\ 2 \in S <=> F(v[2])
      /\ 3 \in S <=> F(v[3])
      /\ 4 \in S <=> F(v[4])
      /\ 5 \in S <=> F(v[5])
  BY <1>1, <1>3
<1>6. Cardinality(S) = Bit(F(v[1])) + Bit(F(v[2])) + Bit(F(v[3])) + Bit(F(v[4])) + Bit(F(v[5]))
  BY <1>4, <1>5 DEF Bit
<1> QED
  BY <1>6 DEF Ahead, F, S

(* The place of a point in the order of the rules. *)
LEMMA RuleOrderAt ==
  ASSUME NEW hand, Five(hand), NEW i \in 1 .. 5, NEW x \in ToSet(RulePoints(hand))
  PROVE  LET v == RulePoints(hand)
             before == Ahead(v[1], v[2], v[3], v[4], v[5], x)
         IN  before < i /\ i <= before + Count(v[1], v[2], v[3], v[4], v[5], x)
             => RuleOrder(hand)[i] = x
<1> DEFINE v == RulePoints(hand)
           P(y) == /\ Cardinality({j \in DOMAIN v : ComesBefore(v, v[j], y)}) < i
                   /\ i <= Cardinality({j \in DOMAIN v : ComesBefore(v, v[j], y)}) + Times(v, y)
<1>1. RuleOrder(hand)[i] = CHOOSE y \in ToSet(v) : P(y)
  BY DEF RuleOrder
<1>2. /\ DOMAIN v = 1 .. 5 /\ ToSet(v) = {v[1], v[2], v[3], v[4], v[5]}
      /\ v[1] \in Nat /\ v[2] \in Nat /\ v[3] \in Nat /\ v[4] \in Nat /\ v[5] \in Nat
  BY FivePoints
<1> HIDE DEF v
<1>3. PICK a \in Nat, b \in Nat, c \in Nat, d \in Nat, e \in Nat :
        a = v[1] /\ b = v[2] /\ c = v[3] /\ d = v[4] /\ e = v[5]
  BY <1>2
<1> DEFINE A(y) == Ahead(a, b, c, d, e, y)
           C(y) == Count(a, b, c, d, e, y)
<1>4. \A y : P(y) <=> (A(y) < i /\ i <= A(y) + C(y))
  BY <1>2, <1>3, TimesOfFive, BeforeOfFive
<1> HIDE DEF P
<1>5. SUFFICES ASSUME A(x) < i, i <= A(x) + C(x) PROVE RuleOrder(hand)[i] = x
  BY <1>3 DEF v
<1>6. x \in ToSet(v) /\ P(x)
  BY <1>4, <1>5 DEF v
<1>7. ToSet(v) = {a, b, c, d, e}
  BY <1>2, <1>3
<1>8. ASSUME NEW y \in ToSet(v), P(y) PROVE y = x
  <2>1. A(y) < i /\ i <= A(y) + C(y)
    BY <1>4, <1>8
  <2>2. x \in {a, b, c, d, e} /\ y \in {a, b, c, d, e}
    BY <1>6, <1>7
  <2> QED
    BY ONLY <1>5, <2>1, <2>2, a \in Nat, b \in Nat, c \in Nat, d \in Nat, e \in Nat, i \in 1 .. 5
    DEF Ahead, First, Count, Bit
<1> QED
  BY <1>1, <1>6, <1>8

(* The points that are there once, and how many of them are above one.     *)
Once(a, b, c, d, e) == {x \in {a, b, c, d, e} : Count(a, b, c, d, e, x) = 1}
Above(a, b, c, d, e, x) ==
  Bit(Count(a, b, c, d, e, a) = 1 /\ a > x) + Bit(Count(a, b, c, d, e, b) = 1 /\ b > x)
    + Bit(Count(a, b, c, d, e, c) = 1 /\ c > x) + Bit(Count(a, b, c, d, e, d) = 1 /\ d > x)
    + Bit(Count(a, b, c, d, e, e) = 1 /\ e > x)

(* A set of them has as many elements as places. *)
LEMMA CardOnce ==
  ASSUME NEW a, NEW b, NEW c, NEW d, NEW e, NEW Q \in SUBSET Once(a, b, c, d, e)
  PROVE  Cardinality(Q) = Bit(a \in Q) + Bit(b \in Q) + Bit(c \in Q) + Bit(d \in Q) + Bit(e \in Q)
<1>1. \A x \in Q : x \in {a, b, c, d, e} /\ Count(a, b, c, d, e, x) = 1
  BY DEF Once
<1>2. ASSUME NEW T \in SUBSET Q, IsFiniteSet(T), NEW x, x \in Q => x \notin T
      PROVE  /\ IsFiniteSet(T \cup (Q \cap {x}))
             /\ Cardinality(T) \in Nat
             /\ Cardinality(T \cup (Q \cap {x})) = Cardinality(T) + Bit(x \in Q)
  <2>1. CASE x \in Q
    <3>1. T \cup (Q \cap {x}) = T \cup {x}
      BY <2>1
    <3>2. Bit(x \notin T) = Bit(x \in Q)
      BY <1>2, <2>1 DEF Bit
    <3> QED
      BY <1>2, <3>1, <3>2, OneMore
  <2>2. CASE x \notin Q
    <3>1. T \cup (Q \cap {x}) = T
      BY <2>2
    <3>2. Cardinality(T) \in Nat
      BY <1>2, FS_CardinalityType
    <3>3. Bit(x \in Q) = 0 /\ Cardinality(T) + 0 = Cardinality(T)
      BY <2>2, <3>2 DEF Bit
    <3> QED
      BY <1>2, <3>1, <3>2, <3>3, Zenon
  <2> QED
    BY <2>1, <2>2
<1>3. /\ b \in Q => b # a
      /\ c \in Q => c \notin {a, b}
      /\ d \in Q => d \notin {a, b, c}
      /\ e \in Q => e \notin {a, b, c, d}
  BY <1>1 DEF Count, Bit
<1>4. IsFiniteSet(Q \cap {a}) /\ Cardinality(Q \cap {a}) = Bit(a \in Q)
  <2>1. IsFiniteSet({}) /\ Cardinality({}) = 0
    BY FS_EmptySet
  <2>2. {} \cup (Q \cap {a}) = Q \cap {a}
    OBVIOUS
  <2> QED
    <3>1. {} \in SUBSET Q /\ a \notin {}
      OBVIOUS
    <3>2. Cardinality({} \cup (Q \cap {a})) = 0 + Bit(a \in Q) /\ IsFiniteSet({} \cup (Q \cap {a}))
      BY <1>2, <2>1, <3>1
    <3>3. Bit(a \in Q) \in Nat
      BY DEF Bit
    <3> QED
      BY <2>2, <3>2, <3>3
<1>5. IsFiniteSet(Q \cap {a, b}) /\ Cardinality(Q \cap {a, b}) = Bit(a \in Q) + Bit(b \in Q)
  <2>1. (Q \cap {a}) \cup (Q \cap {b}) = Q \cap {a, b}
    OBVIOUS
  <2>2. Q \cap {a} \in SUBSET Q /\ (b \in Q => b \notin Q \cap {a})
    BY <1>3
  <2> QED
    BY <1>2, <1>4, <2>1, <2>2
<1>6. /\ IsFiniteSet(Q \cap {a, b, c})
      /\ Cardinality(Q \cap {a, b, c}) = Bit(a \in Q) + Bit(b \in Q) + Bit(c \in Q)
  <2>1. (Q \cap {a, b}) \cup (Q \cap {c}) = Q \cap {a, b, c}
    OBVIOUS
  <2>2. Q \cap {a, b} \in SUBSET Q /\ (c \in Q => c \notin Q \cap {a, b})
    BY <1>3
  <2> QED
    BY <1>2, <1>5, <2>1, <2>2
<1>7. /\ IsFiniteSet(Q \cap {a, b, c, d})
      /\ Cardinality(Q \cap {a, b, c, d}) = Bit(a \in Q) + Bit(b \in Q) + Bit(c \in Q) + Bit(d \in Q)
  <2>1. (Q \cap {a, b, c}) \cup (Q \cap {d}) = Q \cap {a, b, c, d}
    OBVIOUS
  <2>2. Q \cap {a, b, c} \in SUBSET Q /\ (d \in Q => d \notin Q \cap {a, b, c})
    BY <1>3
  <2> QED
    BY <1>2, <1>6, <2>1, <2>2
<1>8. (Q \cap {a, b, c, d}) \cup (Q \cap {e}) = Q
  BY <1>1
<1>9. Q \cap {a, b, c, d} \in SUBSET Q /\ (e \in Q => e \notin Q \cap {a, b, c, d})
  BY <1>3
<1> QED
  BY <1>2, <1>7, <1>8, <1>9

(* The points that are there once, from the highest down. *)
LEMMA FallingOnce ==
  ASSUME NEW a, NEW b, NEW c, NEW d, NEW e, Points(a, b, c, d, e)
  PROVE  LET O == Once(a, b, c, d, e)
             n == Bit(a \in O) + Bit(b \in O) + Bit(c \in O) + Bit(d \in O) + Bit(e \in O)
         IN  /\ Cardinality(O) = n /\ Falling(O) \in Seq(O) /\ Len(Falling(O)) = n
             /\ \A k \in 1 .. n : Falling(O)[k] \in O /\ Above(a, b, c, d, e, Falling(O)[k]) = k - 1
<1> DEFINE O == Once(a, b, c, d, e)
           n == Bit(a \in O) + Bit(b \in O) + Bit(c \in O) + Bit(d \in O) + Bit(e \in O)
<1>1. Cardinality(O) = n
  BY CardOnce
<1>2. ASSUME NEW x PROVE Cardinality({q \in O : q > x}) = Above(a, b, c, d, e, x)
  <2> DEFINE Q == {q \in O : q > x}
  <2>1. Q \in SUBSET Once(a, b, c, d, e)
    OBVIOUS
  <2>2. Cardinality(Q) = Bit(a \in Q) + Bit(b \in Q) + Bit(c \in Q) + Bit(d \in Q) + Bit(e \in Q)
    <3> HIDE DEF Q
    <3> QED
      BY <2>1, CardOnce
  <2>3. /\ a \in Q <=> Count(a, b, c, d, e, a) = 1 /\ a > x
        /\ b \in Q <=> Count(a, b, c, d, e, b) = 1 /\ b > x
        /\ c \in Q <=> Count(a, b, c, d, e, c) = 1 /\ c > x
        /\ d \in Q <=> Count(a, b, c, d, e, d) = 1 /\ d > x
        /\ e \in Q <=> Count(a, b, c, d, e, e) = 1 /\ e > x
    BY DEF Once
  <2> HIDE DEF Q
  <2>4. Cardinality(Q) = Above(a, b, c, d, e, x)
    BY <2>2, <2>3 DEF Above, Bit
  <2> QED
    BY <2>4 DEF Q
<1>3. n \in Nat
  BY DEF Bit
<1> HIDE DEF n
<1>4. ASSUME NEW k \in 1 .. n
      PROVE  Falling(O)[k] \in O /\ Above(a, b, c, d, e, Falling(O)[k]) = k - 1
  <2>1. Falling(O)[k] = CHOOSE p \in O : Cardinality({q \in O : q > p}) = k - 1
    BY <1>1, <1>3 DEF Falling
  <2>2. \E p \in O : Above(a, b, c, d, e, p) = k - 1
    <3>1. \/ Count(a, b, c, d, e, a) = 1 /\ Above(a, b, c, d, e, a) = k - 1
          \/ Count(a, b, c, d, e, b) = 1 /\ Above(a, b, c, d, e, b) = k - 1
          \/ Count(a, b, c, d, e, c) = 1 /\ Above(a, b, c, d, e, c) = k - 1
          \/ Count(a, b, c, d, e, d) = 1 /\ Above(a, b, c, d, e, d) = k - 1
          \/ Count(a, b, c, d, e, e) = 1 /\ Above(a, b, c, d, e, e) = k - 1
      BY DEF n, Once, Above, Count, Bit, Points
    <3> QED
      BY <3>1 DEF Once
  <2> QED
    BY <1>2, <2>1, <2>2
<1>5. Falling(O) \in Seq(O) /\ Len(Falling(O)) = n
  <2> DEFINE f == Falling(O)
             g(k) == CHOOSE p \in O : Cardinality({q \in O : q > p}) = k - 1
  <2>1. f = [k \in 1 .. n |-> f[k]]
    <3>1. f = [k \in 1 .. n |-> g(k)]
      BY <1>1, Zenon DEF Falling
    <3> HIDE DEF f, g
    <3> QED
      BY <3>1
  <2>2. \A k \in 1 .. n : f[k] \in O
    BY <1>4
  <2> HIDE DEF f
  <2>3. [k \in 1 .. n |-> f[k]] \in Seq(O) /\ Len([k \in 1 .. n |-> f[k]]) = n
    BY <1>3, <2>2
  <2> QED
    BY <2>1, <2>3, Zenon DEF f
<1> QED
  BY <1>1, <1>4, <1>5 DEF n

(* What SortPair's loop leaves: the points that are there once, and the    *)
(* one that is there twice.                                                *)
PairScan(a, b, c, d, e) == InTurn(Paired, [record |-> {}, pair |-> Unset], <<a, b, c, d, e>>)

LEMMA PairLoop ==
  ASSUME NEW a, NEW b, NEW c, NEW d, NEW e, Points(a, b, c, d, e),
         Distribution(a, b, c, d, e) = 4
  PROVE  LET scan == PairScan(a, b, c, d, e)
         IN  /\ scan.record = Once(a, b, c, d, e)
             /\ scan.pair \in {a, b, c, d, e} /\ Count(a, b, c, d, e, scan.pair) = 2
<1> DEFINE s0 == [record |-> {}, pair |-> Unset]
           s1 == Paired(s0, a)
           s2 == Paired(s1, b)
           s3 == Paired(s2, c)
           s4 == Paired(s3, d)
           s5 == Paired(s4, e)
<1>0. PairScan(a, b, c, d, e) = s5
  BY DEF PairScan, InTurn
<1>1. s1 = [record |-> {a}, pair |-> 255]
  BY DEF Paired, Unset
<1> DEFINE r2 == IF b = a THEN {} ELSE {a, b}
           p2 == IF b = a THEN b ELSE 255
<1> HIDE DEF s1
<1>2. s2 = [record |-> r2, pair |-> p2]
  BY <1>1 DEF Paired
<1> DEFINE r3 == IF c \in r2 THEN r2 \ {c} ELSE r2 \cup {c}
           p3 == IF c \in r2 THEN c ELSE p2
<1> HIDE DEF s2, r2, p2
<1>3. s3 = [record |-> r3, pair |-> p3]
  BY <1>2 DEF Paired
<1> DEFINE r4 == IF d \in r3 THEN r3 \ {d} ELSE r3 \cup {d}
           p4 == IF d \in r3 THEN d ELSE p3
<1> HIDE DEF s3, r3, p3
<1>4. s4 = [record |-> r4, pair |-> p4]
  BY <1>3 DEF Paired
<1> DEFINE r5 == IF e \in r4 THEN r4 \ {e} ELSE r4 \cup {e}
           p5 == IF e \in r4 THEN e ELSE p4
<1> HIDE DEF s4, r4, p4
<1>5. s5 = [record |-> r5, pair |-> p5]
  BY <1>4 DEF Paired
<1> HIDE DEF s5
<1>6. r5 = Once(a, b, c, d, e)
  BY DEF Once, r2, r3, r4, Points, Count, Bit, Distribution
<1>7. p5 \in {a, b, c, d, e} /\ Count(a, b, c, d, e, p5) = 2
  BY DEF r2, r3, r4, p2, p3, p4, Points, Count, Bit, Distribution
<1> QED
  BY <1>0, <1>5, <1>6, <1>7

(* The points of a hand, by name. *)
LEMMA FiveValues ==
  ASSUME NEW hand, Five(hand)
  PROVE  \E a, b, c, d, e :
           /\ Points(a, b, c, d, e)
           /\ Strengths(hand) = <<a, b, c, d, e>> /\ RulePoints(hand) = <<a, b, c, d, e>>
           /\ ToSet(RulePoints(hand)) = {a, b, c, d, e}
           /\ Cardinality(PointsOf(hand)) = Distribution(a, b, c, d, e)
           /\ \A x : Times(RulePoints(hand), x) = Count(a, b, c, d, e, x)
<1> DEFINE v == RulePoints(hand)
           u(i) == hand[i].point
<1>1. /\ DOMAIN hand = 1 .. 5 /\ DOMAIN v = 1 .. 5 /\ Strengths(hand) = v
      /\ ToSet(v) = {v[1], v[2], v[3], v[4], v[5]}
      /\ \A i \in 1 .. 5 : u(i) \in 1 .. 13 /\ v[i] = (IF u(i) = 1 THEN 14 ELSE u(i)) /\ v[i] \in 2 .. 14
  BY FivePoints
<1>2. v = <<v[1], v[2], v[3], v[4], v[5]>>
  <2> HIDE DEF v
  <2>1. v = [i \in 1 .. 5 |-> v[i]]
    <3>1. v = [i \in DOMAIN v |-> v[i]]
      BY DEF v, RulePoints
    <3> QED
      BY <1>1, <3>1
  <2> QED
    BY <2>1
<1>3. PointsOf(hand) = {u(1), u(2), u(3), u(4), u(5)}
  <2>1. PointsOf(hand) = {u(i) : i \in 1 .. 5}
    BY <1>1 DEF PointsOf
  <2>2. 1 .. 5 = {1, 2, 3, 4, 5}
    OBVIOUS
  <2> QED
    BY <2>1, <2>2, Zenon
<1>4. \A x : Times(v, x) = Count(v[1], v[2], v[3], v[4], v[5], x)
  BY <1>1, TimesOfFive
<1> HIDE DEF v, u
<1>5. \A i, j \in 1 .. 5 : u(i) = u(j) <=> v[i] = v[j]
  BY <1>1
<1>6. Cardinality(PointsOf(hand)) = Distribution(v[1], v[2], v[3], v[4], v[5])
  <2>1. Cardinality({u(1), u(2), u(3), u(4), u(5)}) = Distribution(u(1), u(2), u(3), u(4), u(5))
    BY DifferentFive
  <2>2. Distribution(u(1), u(2), u(3), u(4), u(5)) = Distribution(v[1], v[2], v[3], v[4], v[5])
    BY <1>5 DEF Distribution, Bit
  <2> QED
    BY <1>3, <2>1, <2>2
<1>7. Points(v[1], v[2], v[3], v[4], v[5])
  BY <1>1 DEF Points
<1>8. v = RulePoints(hand)
  BY DEF v
<1> DEFINE Named(a, b, c, d, e) ==
             /\ Points(a, b, c, d, e)
             /\ Strengths(hand) = <<a, b, c, d, e>> /\ RulePoints(hand) = <<a, b, c, d, e>>
             /\ ToSet(RulePoints(hand)) = {a, b, c, d, e}
             /\ Cardinality(PointsOf(hand)) = Distribution(a, b, c, d, e)
             /\ \A x : Times(RulePoints(hand), x) = Count(a, b, c, d, e, x)
<1>9. Named(v[1], v[2], v[3], v[4], v[5])
  BY <1>1, <1>2, <1>4, <1>6, <1>7, <1>8, Zenon
<1> HIDE DEF Named
<1>10. \E a, b, c, d, e : Named(a, b, c, d, e)
  BY <1>9, Zenon
<1> QED
  BY <1>10 DEF Named

(* Cards of one type have different points. *)
LEMMA OneTypeDiffers ==
  ASSUME NEW hand, Five(hand), OneType(hand)
  PROVE  Cardinality(PointsOf(hand)) = 5
<1> DEFINE u(i) == hand[i].point
           w(i) == hand[i].type
<1>1. /\ DOMAIN hand = 1 .. 5
      /\ \A i \in 1 .. 5 : hand[i] \in LegalCards
  BY FivePoints
<1>2. \A i, j \in 1 .. 5 : w(i) = w(j)
  <2>1. PICK t : TypesOf(hand) = {t}
    <3>1. IsFiniteSet(TypesOf(hand))
      <4>1. TypesOf(hand) \in SUBSET (1 .. 5)
        BY <1>1 DEF TypesOf, LegalCards
      <4> QED
        BY <4>1, CardFive
    <3> QED
      BY <3>1, FS_Singleton DEF OneType
  <2> QED
    BY <1>1, <2>1 DEF TypesOf
<1>3. \A i, j \in 1 .. 5 : u(i) = u(j) => i = j
  <2> SUFFICES ASSUME NEW i \in 1 .. 5, NEW j \in 1 .. 5, u(i) = u(j) PROVE i = j
    OBVIOUS
  <2>1. hand[i] = hand[j]
    BY <1>1, <1>2 DEF LegalCards
  <2> QED
    BY <1>1, <2>1 DEF Five, Distinct
<1>4. PointsOf(hand) = {u(1), u(2), u(3), u(4), u(5)}
  <2>1. PointsOf(hand) = {u(i) : i \in 1 .. 5}
    BY <1>1 DEF PointsOf
  <2>2. 1 .. 5 = {1, 2, 3, 4, 5}
    OBVIOUS
  <2> QED
    BY <2>1, <2>2, Zenon
<1> HIDE DEF u
<1>5. Cardinality({u(1), u(2), u(3), u(4), u(5)}) = Distribution(u(1), u(2), u(3), u(4), u(5))
  BY DifferentFive
<1>6. /\ u(2) # u(1) /\ u(3) \notin {u(1), u(2)} /\ u(4) \notin {u(1), u(2), u(3)}
      /\ u(5) \notin {u(1), u(2), u(3), u(4)}
  BY <1>3
<1> QED
  BY <1>4, <1>5, <1>6 DEF Distribution, Bit

(* A hand with a point twice: neither a straight nor of one type.          *)
LEMMA RuleLevelOfRepeated ==
  ASSUME NEW hand, Five(hand), Cardinality(PointsOf(hand)) # 5
  PROVE  LET four == Held(hand, 4)
             three == Held(hand, 3)
             two == Held(hand, 2)
         IN  /\ ~LevelDeparts(hand) /\ ~OrderDeparts(hand)
             /\ four # {} /\ three = {} /\ two = {} => RuleLevel(hand) = Bomb
             /\ four = {} /\ three # {} /\ two # {} /\ Cardinality(two) # 2 => RuleLevel(hand) = Full_House
             /\ four = {} /\ three # {} /\ two = {} => RuleLevel(hand) = Sites
             /\ four = {} /\ three = {} /\ Cardinality(two) = 2 => RuleLevel(hand) = Two_Pairs
             /\ four = {} /\ three = {} /\ Cardinality(two) = 1 => RuleLevel(hand) = Pair
<1> DEFINE four == Held(hand, 4)
           three == Held(hand, 3)
           two == Held(hand, 2)
<1>1. ~InARow(hand) /\ ~OneType(hand)
  BY OneTypeDiffers DEF InARow
<1>2. two = {} => Cardinality(two) = 0
  BY FS_EmptySet
<1>3. RuleLevel(hand) =
        CASE four # {} -> Bomb
          [] three # {} /\ two # {} -> Full_House
          [] three # {} /\ two = {} -> Sites
          [] Cardinality(two) = 2 -> Two_Pairs
          [] Cardinality(two) = 1 /\ three = {} -> Pair
          [] OTHER -> High
  BY <1>1 DEF RuleLevel
<1>4. ~LevelDeparts(hand) /\ ~OrderDeparts(hand)
  BY <1>1 DEF LevelDeparts, OrderDeparts
<1> HIDE DEF four, three, two
<1> QED
  BY <1>2, <1>3, <1>4 DEF four, three, two

(* The order of the rules, place by place. *)
LEMMA RuleOrderIs ==
  ASSUME NEW hand, Five(hand), NEW a, NEW b, NEW c, NEW d, NEW e, RulePoints(hand) = <<a, b, c, d, e>>,
         NEW s \in Seq({a, b, c, d, e}), Len(s) = 5,
         \A i \in 1 .. 5 :
           LET before == Ahead(a, b, c, d, e, s[i])
           IN  before < i /\ i <= before + Count(a, b, c, d, e, s[i])
  PROVE  s = RuleOrder(hand)
<1> DEFINE v == RulePoints(hand)
           S == {a, b, c, d, e}
<1>0. v[1] = a /\ v[2] = b /\ v[3] = c /\ v[4] = d /\ v[5] = e
  OBVIOUS
<1>1. ToSet(v) = S
  BY <1>0, FivePoints
<1>2. ASSUME NEW i \in 1 .. 5
      PROVE  RuleOrder(hand)[i] = s[i]
  <2>1. s[i] \in ToSet(v)
    <3> HIDE DEF S, v
    <3> QED
      BY <1>1 DEF S
  <2> QED
    BY <1>0, <2>1, RuleOrderAt
<1>3. RuleOrder(hand) = [i \in 1 .. 5 |-> RuleOrder(hand)[i]]
  BY DEF RuleOrder
<1>4. s = [i \in 1 .. 5 |-> s[i]]
  OBVIOUS
<1> QED
  BY <1>2, <1>3, <1>4

(* Points in their places, and behind them those that are there once.      *)
Placed(a, b, c, d, e, r) ==
  /\ r \in Seq({a, b, c, d, e})
  /\ \A i \in 1 .. Len(r) : /\ Ahead(a, b, c, d, e, r[i]) < i
                            /\ i <= Ahead(a, b, c, d, e, r[i]) + Count(a, b, c, d, e, r[i])
  /\ Len(r) + Cardinality(Once(a, b, c, d, e)) = 5
  /\ \A x \in Once(a, b, c, d, e) : Ahead(a, b, c, d, e, x) = Len(r) + Above(a, b, c, d, e, x)

LEMMA OrderBehind ==
  ASSUME NEW hand, Five(hand), NEW a, NEW b, NEW c, NEW d, NEW e, Points(a, b, c, d, e),
         RulePoints(hand) = <<a, b, c, d, e>>, NEW r, Placed(a, b, c, d, e, r)
  PROVE  r \o Falling(Once(a, b, c, d, e)) = RuleOrder(hand)
<1> DEFINE O == Once(a, b, c, d, e)
           S == {a, b, c, d, e}
           f == Falling(O)
           s == r \o f
           n == Cardinality(O)
<1>1. /\ f \in Seq(O) /\ Len(f) = n
      /\ \A k \in 1 .. n : f[k] \in O /\ Above(a, b, c, d, e, f[k]) = k - 1
  BY FallingOnce
<1>2. Len(r) + n = 5 /\ n \in Nat
  <2>1. n = Bit(a \in O) + Bit(b \in O) + Bit(c \in O) + Bit(d \in O) + Bit(e \in O)
    BY CardOnce
  <2>2. n \in Nat
    BY <2>1 DEF Bit
  <2> QED
    BY <2>2 DEF Placed
<1>3. O \subseteq S /\ r \in Seq(S)
  BY DEF Once, Placed
<1>4. \A x \in O : Count(a, b, c, d, e, x) = 1
  BY DEF Once
<1>5. \A x \in O : Ahead(a, b, c, d, e, x) = Len(r) + Above(a, b, c, d, e, x)
  BY DEF Placed
<1>6. \A i \in 1 .. Len(r) : /\ Ahead(a, b, c, d, e, r[i]) < i
                            /\ i <= Ahead(a, b, c, d, e, r[i]) + Count(a, b, c, d, e, r[i])
  BY DEF Placed
<1> HIDE DEF n, f, O, S
<1>7. f \in Seq(S)
  BY ONLY <1>1, <1>3
<1>8. /\ s \in Seq(S) /\ Len(s) = Len(r) + Len(f)
      /\ \A i \in 1 .. Len(r) : s[i] = r[i]
      /\ \A k \in 1 .. Len(f) : s[k + Len(r)] = f[k]
  BY ONLY <1>3, <1>7
<1>9. Len(r) \in Nat
  BY ONLY <1>3
<1> HIDE DEF s
<1>10. ASSUME NEW i \in 1 .. 5
       PROVE  /\ Ahead(a, b, c, d, e, s[i]) < i
              /\ i <= Ahead(a, b, c, d, e, s[i]) + Count(a, b, c, d, e, s[i])
  <2>1. CASE i <= Len(r)
    BY <1>6, <1>8, <1>9, <2>1
  <2>2. CASE i > Len(r)
    <3>1. PICK k \in 1 .. n : i = k + Len(r)
      <4>1. i - Len(r) \in 1 .. n /\ i = (i - Len(r)) + Len(r)
        BY ONLY <1>2, <1>9, <2>2, i \in 1 .. 5
      <4> QED
        BY <4>1
    <3>2. s[i] = f[k] /\ f[k] \in O /\ Above(a, b, c, d, e, f[k]) = k - 1
      BY <1>1, <1>8, <3>1
    <3> QED
      BY <1>2, <1>4, <1>5, <1>9, <3>1, <3>2
  <2> QED
    BY <1>9, <2>1, <2>2
<1>11. Len(s) = 5
  BY <1>1, <1>2, <1>8
<1> QED
  BY <1>8, <1>10, <1>11, RuleOrderIs DEF s, f, O, S

(* One pair. *)
LEMMA PairByRules ==
  ASSUME NEW hand, Five(hand), Cardinality(PointsOf(hand)) = 4
  PROVE  SortPair(hand) = ByTheRules(hand)
<1>1. PICK a, b, c, d, e :
        /\ Points(a, b, c, d, e)
        /\ Strengths(hand) = <<a, b, c, d, e>> /\ RulePoints(hand) = <<a, b, c, d, e>>
        /\ ToSet(RulePoints(hand)) = {a, b, c, d, e}
        /\ Cardinality(PointsOf(hand)) = Distribution(a, b, c, d, e)
        /\ \A x : Times(RulePoints(hand), x) = Count(a, b, c, d, e, x)
  BY FiveValues
<1> DEFINE scan == PairScan(a, b, c, d, e)
           O == Once(a, b, c, d, e)
           p == scan.pair
           r == <<p, p>>
<1>2. Distribution(a, b, c, d, e) = 4
  BY <1>1
<1>3. scan.record = O /\ p \in {a, b, c, d, e} /\ Count(a, b, c, d, e, p) = 2
  BY <1>1, <1>2, PairLoop
<1>4. SortPair(hand) = [level |-> Pair, sortedCards |-> r \o Falling(O)]
  BY <1>1, <1>3 DEF SortPair, PairScan
<1> HIDE DEF scan
<1>5. Cardinality(O) = 3
  <2>1. Bit(a \in O) + Bit(b \in O) + Bit(c \in O) + Bit(d \in O) + Bit(e \in O) = 3
    BY <1>1, <1>2 DEF Points, Once, Count, Bit, Distribution
  <2> QED
    BY <2>1, CardOnce
<1>6. Ahead(a, b, c, d, e, p) = 0
  BY <1>1, <1>2, <1>3 DEF Points, Ahead, First, Count, Bit, Distribution
<1>7. \A x \in O : Ahead(a, b, c, d, e, x) = 2 + Above(a, b, c, d, e, x)
  BY <1>1, <1>2 DEF Points, Once, Ahead, First, Above, Count, Bit, Distribution
<1>8. r \in Seq({a, b, c, d, e}) /\ Len(r) = 2 /\ r[1] = p /\ r[2] = p
  BY <1>3
<1>9. \A i \in 1 .. Len(r) : /\ Ahead(a, b, c, d, e, r[i]) < i
                            /\ i <= Ahead(a, b, c, d, e, r[i]) + Count(a, b, c, d, e, r[i])
  <2> HIDE DEF r
  <2> QED
    BY <1>3, <1>6, <1>8
<1>10. r \o Falling(O) = RuleOrder(hand)
  <2> HIDE DEF r
  <2>1. Placed(a, b, c, d, e, r)
    BY <1>5, <1>7, <1>8, <1>9 DEF Placed
  <2> QED
    BY <1>1, <2>1, OrderBehind
<1>11. RuleLevel(hand) = Pair
  <2>1. \A n : Held(hand, n) = {x \in {a, b, c, d, e} : Count(a, b, c, d, e, x) = n}
    BY <1>1 DEF Held
  <2>2. Held(hand, 4) = {} /\ Held(hand, 3) = {} /\ Held(hand, 2) = {p}
    BY <1>1, <1>2, <1>3, <2>1 DEF Points, Count, Bit, Distribution
  <2>3. Cardinality(Held(hand, 2)) = 1
    BY <2>2, FS_Singleton
  <2> QED
    BY <2>2, <2>3, RuleLevelOfRepeated
<1> QED
  BY <1>4, <1>10, <1>11 DEF ByTheRules

(* What SortSitesTwoPair's loop leaves. *)
SitesScan(a, b, c, d, e) ==
  InTurn(SeenTwice, [records |-> {}, pair |-> Unset, pair2 |-> Unset, level |-> None], <<a, b, c, d, e>>)

LEMMA SitesLoop ==
  ASSUME NEW a, NEW b, NEW c, NEW d, NEW e, Points(a, b, c, d, e),
         Distribution(a, b, c, d, e) = 3
  PROVE  LET scan == SitesScan(a, b, c, d, e)
             C(x) == Count(a, b, c, d, e, x)
         IN  /\ scan.records = Once(a, b, c, d, e) /\ scan.pair \in {a, b, c, d, e}
             /\ scan.level \in {Sites, Two_Pairs}
             /\ scan.level = Sites => C(scan.pair) = 3
             /\ scan.level = Two_Pairs =>
                  /\ scan.pair2 \in {a, b, c, d, e} /\ scan.pair2 # scan.pair
                  /\ C(scan.pair) = 2 /\ C(scan.pair2) = 2
<1> DEFINE State(r, p, q, l) == [records |-> r, pair |-> p, pair2 |-> q, level |-> l]
           R(r, p, x) == IF x \notin r THEN r \cup {x}
                         ELSE IF p = 255 THEN r ELSE IF x = p THEN r \ {x} ELSE r \ {x, p}
           P(r, p, x) == IF x \in r /\ p = 255 THEN x ELSE p
           Q(r, p, q, x) == IF x \in r /\ p # 255 /\ x # p THEN x ELSE q
           L(r, p, l, x) == IF x \in r /\ p # 255 THEN (IF x = p THEN 4 ELSE 3) ELSE l
<1>0. ASSUME NEW r, NEW p, NEW q, NEW l, NEW x
      PROVE  SeenTwice(State(r, p, q, l), x) = State(R(r, p, x), P(r, p, x), Q(r, p, q, x), L(r, p, l, x))
  BY DEF SeenTwice, Unset, Sites, Two_Pairs
<1> DEFINE r1 == {a}
           p1 == 255
           q1 == 255
           l1 == 0
           s1 == SeenTwice(State({}, 255, 255, 0), a)
           r2 == R(r1, p1, b)
           p2 == P(r1, p1, b)
           q2 == Q(r1, p1, q1, b)
           l2 == L(r1, p1, l1, b)
           s2 == SeenTwice(s1, b)
           r3 == R(r2, p2, c)
           p3 == P(r2, p2, c)
           q3 == Q(r2, p2, q2, c)
           l3 == L(r2, p2, l2, c)
           s3 == SeenTwice(s2, c)
           r4 == R(r3, p3, d)
           p4 == P(r3, p3, d)
           q4 == Q(r3, p3, q3, d)
           l4 == L(r3, p3, l3, d)
           s4 == SeenTwice(s3, d)
           r5 == R(r4, p4, e)
           p5 == P(r4, p4, e)
           q5 == Q(r4, p4, q4, e)
           l5 == L(r4, p4, l4, e)
           s5 == SeenTwice(s4, e)
<1>1. s1 = State(r1, p1, q1, l1)
  BY <1>0
<1> HIDE DEF State, s1, s2, s3, s4, s5, R, P, Q, L
<1>2. SitesScan(a, b, c, d, e) = s5
  BY DEF SitesScan, InTurn, Unset, None, State, s1, s2, s3, s4, s5
<1>3. s2 = State(r2, p2, q2, l2)
  BY <1>0, <1>1 DEF s2
<1>4. s3 = State(r3, p3, q3, l3)
  BY <1>0, <1>3 DEF s3
<1>5. s4 = State(r4, p4, q4, l4)
  BY <1>0, <1>4 DEF s4
<1>6. s5 = State(r5, p5, q5, l5)
  BY <1>0, <1>5 DEF s5
<1>7. r5 = Once(a, b, c, d, e)
  BY DEF R, P, Once, Points, Count, Bit, Distribution
<1>8. /\ r1 = {a} /\ p1 = 255 /\ q1 = 255 /\ l1 = 0
      /\ r2 = R(r1, p1, b) /\ p2 = P(r1, p1, b) /\ q2 = Q(r1, p1, q1, b) /\ l2 = L(r1, p1, l1, b)
      /\ r3 = R(r2, p2, c) /\ p3 = P(r2, p2, c) /\ q3 = Q(r2, p2, q2, c) /\ l3 = L(r2, p2, l2, c)
      /\ r4 = R(r3, p3, d) /\ p4 = P(r3, p3, d) /\ q4 = Q(r3, p3, q3, d) /\ l4 = L(r3, p3, l3, d)
      /\ r5 = R(r4, p4, e) /\ p5 = P(r4, p4, e) /\ q5 = Q(r4, p4, q4, e) /\ l5 = L(r4, p4, l4, e)
  OBVIOUS
<1> HIDE DEF r1, r2, r3, r4, r5, p1, p2, p3, p4, p5, q1, q2, q3, q4, q5, l1, l2, l3, l4, l5
<1> DEFINE Kept(y, r, p, x) ==
             IF x \notin r THEN y \in r \/ y = x
             ELSE IF p = 255 THEN y \in r ELSE y \in r /\ y # x /\ y # p
           In(y) == /\ y \in r1 <=> y = a
                    /\ y \in r2 <=> Kept(y, r1, p1, b)
                    /\ y \in r3 <=> Kept(y, r2, p2, c)
                    /\ y \in r4 <=> Kept(y, r3, p3, d)
<1>9. ASSUME NEW y PROVE In(y)
  <2>1. \A r, p, x : y \in R(r, p, x) <=> Kept(y, r, p, x)
    BY DEF R
  <2>2. y \in r1 <=> y = a
    BY <1>8
  <2> HIDE DEF Kept
  <2> QED
    BY ONLY <1>8, <2>1, <2>2
<1>10. In(a) /\ In(b) /\ In(c) /\ In(d) /\ In(e)
  BY <1>9
<1>11. /\ p5 \in {a, b, c, d, e} /\ l5 \in {3, 4}
       /\ l5 = 4 => Count(a, b, c, d, e, p5) = 3
  BY ONLY <1>8, <1>10, Points(a, b, c, d, e), Distribution(a, b, c, d, e) = 3
     DEF P, L, Points, Count, Bit, Distribution
<1>12. l5 = 3 => /\ q5 \in {a, b, c, d, e} /\ q5 # p5
                 /\ Count(a, b, c, d, e, p5) = 2 /\ Count(a, b, c, d, e, q5) = 2
  BY ONLY <1>8, <1>10, Points(a, b, c, d, e), Distribution(a, b, c, d, e) = 3
     DEF P, Q, L, Points, Count, Bit, Distribution
<1> DEFINE scan == SitesScan(a, b, c, d, e)
<1>13. scan.records = r5 /\ scan.pair = p5 /\ scan.pair2 = q5 /\ scan.level = l5
  BY ONLY <1>2, <1>6 DEF State
<1> QED
  BY ONLY <1>7, <1>11, <1>12, <1>13 DEF Sites, Two_Pairs

(* The higher of two points, and the lower. *)
LEMMA FallingTwo ==
  ASSUME NEW p \in Nat, NEW q \in Nat, p # q
  PROVE  /\ Falling({p, q})[1] = IF p > q THEN p ELSE q
         /\ Falling({p, q})[2] = IF p > q THEN q ELSE p
<1> DEFINE S == {p, q}
           R(x) == Cardinality({y \in S : y > x})
           hi == IF p > q THEN p ELSE q
           lo == IF p > q THEN q ELSE p
<1>1. Cardinality(S) = 2
  <2>1. IsFiniteSet({p}) /\ Cardinality({p}) = 1
    BY FS_Singleton
  <2>2. S = {p} \cup {q} /\ Bit(q \notin {p}) = 1
    BY DEF Bit
  <2> QED
    BY <2>1, <2>2, OneMore
<1>2. R(hi) = 0
  <2>1. {y \in S : y > hi} = {}
    OBVIOUS
  <2> QED
    BY <2>1, FS_EmptySet
<1>3. R(lo) = 1
  <2>1. {y \in S : y > lo} = {hi}
    OBVIOUS
  <2> QED
    BY <2>1, FS_Singleton
<1>4. S = {hi, lo}
  OBVIOUS
<1>5. \A k \in 1 .. 2 : Falling(S)[k] = CHOOSE x \in S : R(x) = k - 1
  BY <1>1 DEF Falling
<1> HIDE DEF S, R, hi, lo
<1>6. Falling(S)[1] = CHOOSE x \in S : R(x) = 0
  BY <1>5
<1>7. Falling(S)[2] = CHOOSE x \in S : R(x) = 1
  BY <1>5
<1>8. Falling(S)[1] = hi
  BY <1>2, <1>3, <1>4, <1>6
<1>9. Falling(S)[2] = lo
  BY <1>2, <1>3, <1>4, <1>7
<1> QED
  BY <1>8, <1>9 DEF S, hi, lo

(* Three of a point, or two pairs. *)
LEMMA SitesTwoPairByRules ==
  ASSUME NEW hand, Five(hand), Cardinality(PointsOf(hand)) = 3
  PROVE  SortSitesTwoPair(hand) = ByTheRules(hand)
<1>1. PICK a, b, c, d, e :
        /\ Points(a, b, c, d, e)
        /\ Strengths(hand) = <<a, b, c, d, e>> /\ RulePoints(hand) = <<a, b, c, d, e>>
        /\ ToSet(RulePoints(hand)) = {a, b, c, d, e}
        /\ Cardinality(PointsOf(hand)) = Distribution(a, b, c, d, e)
        /\ \A x : Times(RulePoints(hand), x) = Count(a, b, c, d, e, x)
  BY FiveValues
<1> DEFINE scan == SitesScan(a, b, c, d, e)
           O == Once(a, b, c, d, e)
           p == scan.pair
           q == scan.pair2
<1>2. Distribution(a, b, c, d, e) = 3
  BY <1>1
<1>3. /\ scan.records = O /\ p \in {a, b, c, d, e} /\ scan.level \in {Sites, Two_Pairs}
      /\ scan.level = Sites => Count(a, b, c, d, e, p) = 3
      /\ scan.level = Two_Pairs =>
           /\ q \in {a, b, c, d, e} /\ q # p
           /\ Count(a, b, c, d, e, p) = 2 /\ Count(a, b, c, d, e, q) = 2
  BY <1>1, <1>2, SitesLoop
<1>4. \A n : Held(hand, n) = {x \in {a, b, c, d, e} : Count(a, b, c, d, e, x) = n}
  BY <1>1 DEF Held
<1>5. Cardinality(O) = Bit(a \in O) + Bit(b \in O) + Bit(c \in O) + Bit(d \in O) + Bit(e \in O)
  BY CardOnce
<1>6. CASE scan.level = Sites
  <2> DEFINE r == <<p, p, p>>
  <2>1. SortSitesTwoPair(hand) = [level |-> Sites, sortedCards |-> r \o Falling(O)]
    BY <1>1, <1>3, <1>6 DEF SortSitesTwoPair, SitesScan
  <2> HIDE DEF scan
  <2>2. Count(a, b, c, d, e, p) = 3
    BY <1>3, <1>6
  <2>3. Cardinality(O) = 2
    <3>1. Bit(a \in O) + Bit(b \in O) + Bit(c \in O) + Bit(d \in O) + Bit(e \in O) = 2
      BY <1>1, <1>2, <1>3, <2>2 DEF Points, Once, Count, Bit, Distribution
    <3> QED
      BY <3>1, <1>5
  <2>4. Ahead(a, b, c, d, e, p) = 0
    BY <1>1, <1>2, <1>3, <2>2 DEF Points, Ahead, First, Count, Bit, Distribution
  <2>5. \A x \in O : Ahead(a, b, c, d, e, x) = 3 + Above(a, b, c, d, e, x)
    BY <1>1, <1>2, <1>3, <2>2 DEF Points, Once, Ahead, First, Above, Count, Bit, Distribution
  <2>6. r \in Seq({a, b, c, d, e}) /\ Len(r) = 3 /\ r[1] = p /\ r[2] = p /\ r[3] = p
    BY <1>3
  <2>7. r \o Falling(O) = RuleOrder(hand)
    <3> HIDE DEF r
    <3>1. Placed(a, b, c, d, e, r)
      BY <2>2, <2>3, <2>4, <2>5, <2>6 DEF Placed
    <3> QED
      BY <1>1, <3>1, OrderBehind
  <2>8. RuleLevel(hand) = Sites
    <3>1. Held(hand, 4) = {} /\ p \in Held(hand, 3) /\ Held(hand, 2) = {}
      BY <1>1, <1>2, <1>3, <1>4, <2>2 DEF Points, Count, Bit, Distribution
    <3>2. Held(hand, 3) # {}
      BY <3>1
    <3> QED
      BY <3>1, <3>2, RuleLevelOfRepeated
  <2> QED
    BY <2>1, <2>7, <2>8 DEF ByTheRules
<1>7. CASE scan.level = Two_Pairs
  <2> DEFINE hi == IF p > q THEN p ELSE q
             lo == IF p > q THEN q ELSE p
             r == <<hi, hi, lo, lo>>
  <2>1. /\ q \in {a, b, c, d, e} /\ q # p
        /\ Count(a, b, c, d, e, p) = 2 /\ Count(a, b, c, d, e, q) = 2
    BY <1>3, <1>7
  <2>2. SortSitesTwoPair(hand) = [level |-> Two_Pairs, sortedCards |-> r \o Falling(O)]
    <3>1. p \in Nat /\ q \in Nat
      BY <1>1, <1>3, <2>1 DEF Points
    <3>2. Falling({p, q})[1] = hi /\ Falling({p, q})[2] = lo
      BY <2>1, <3>1, FallingTwo
    <3>3. SortSitesTwoPair(hand) =
            [level |-> Two_Pairs,
             sortedCards |-> <<Falling({p, q})[1], Falling({p, q})[1],
                               Falling({p, q})[2], Falling({p, q})[2]>> \o Falling(O)]
      <4>1. SortSitesTwoPair(hand) =
              [level |-> scan.level,
               sortedCards |->
                 IF scan.level = Sites THEN <<p, p, p>> \o Falling(scan.records)
                 ELSE <<Falling({p, q})[1], Falling({p, q})[1],
                        Falling({p, q})[2], Falling({p, q})[2]>> \o Falling(scan.records)]
        BY <1>1, Zenon DEF SortSitesTwoPair, SitesScan
      <4>2. scan.level # Sites
        BY <1>7 DEF Sites, Two_Pairs
      <4> HIDE DEF scan
      <4> QED
        BY <1>3, <1>7, <4>1, <4>2
    <3> QED
      BY <3>2, <3>3
  <2> HIDE DEF scan
  <2>3. Cardinality(O) = 1
    <3>1. Bit(a \in O) + Bit(b \in O) + Bit(c \in O) + Bit(d \in O) + Bit(e \in O) = 1
      BY <1>1, <1>2, <1>3, <2>1 DEF Points, Once, Count, Bit, Distribution
    <3> QED
      BY <3>1, <1>5
  <2>4. /\ hi \in {a, b, c, d, e} /\ lo \in {a, b, c, d, e} /\ hi > lo
        /\ Count(a, b, c, d, e, hi) = 2 /\ Count(a, b, c, d, e, lo) = 2
    BY <1>1, <1>3, <2>1 DEF Points
  <2>5. Held(hand, 2) = {p} \cup {q} /\ Held(hand, 4) = {} /\ Held(hand, 3) = {}
    BY <1>1, <1>2, <1>3, <1>4, <2>1 DEF Points, Count, Bit, Distribution
  <2> HIDE DEF hi, lo
  <2>6. Ahead(a, b, c, d, e, hi) = 0 /\ Ahead(a, b, c, d, e, lo) = 2
    BY <1>1, <1>2, <2>4 DEF Points, Ahead, First, Count, Bit, Distribution
  <2>7. \A x \in O : Ahead(a, b, c, d, e, x) = 4 + Above(a, b, c, d, e, x)
    BY <1>1, <1>2, <2>4 DEF Points, Once, Ahead, First, Above, Count, Bit, Distribution
  <2>8. r \in Seq({a, b, c, d, e}) /\ Len(r) = 4 /\ r[1] = hi /\ r[2] = hi /\ r[3] = lo /\ r[4] = lo
    BY <2>4
  <2>9. r \o Falling(O) = RuleOrder(hand)
    <3> HIDE DEF r
    <3>1. Placed(a, b, c, d, e, r)
      BY <2>3, <2>4, <2>6, <2>7, <2>8 DEF Placed
    <3> QED
      BY <1>1, <3>1, OrderBehind
  <2>10. RuleLevel(hand) = Two_Pairs
    <3>1. Cardinality(Held(hand, 2)) = 2
      <4>1. IsFiniteSet({p}) /\ Cardinality({p}) = 1
        BY FS_Singleton
      <4>2. Bit(q \notin {p}) = 1
        BY <2>1 DEF Bit
      <4>3. Cardinality({p} \cup {q}) = Cardinality({p}) + Bit(q \notin {p})
        BY <4>1, OneMore
      <4> QED
        BY <2>5, <4>1, <4>2, <4>3
    <3> QED
      BY <2>5, <3>1, RuleLevelOfRepeated
  <2> QED
    BY <2>2, <2>9, <2>10 DEF ByTheRules
<1> QED
  BY <1>3, <1>6, <1>7

(* Four of a point, or three and two. *)
LEMMA BombFullHouseByRules ==
  ASSUME NEW hand, Five(hand), Cardinality(PointsOf(hand)) = 2
  PROVE  SortBombFullHouse(hand) = ByTheRules(hand)
<1>1. PICK a, b, c, d, e :
        /\ Points(a, b, c, d, e)
        /\ Strengths(hand) = <<a, b, c, d, e>> /\ RulePoints(hand) = <<a, b, c, d, e>>
        /\ ToSet(RulePoints(hand)) = {a, b, c, d, e}
        /\ Cardinality(PointsOf(hand)) = Distribution(a, b, c, d, e)
        /\ \A x : Times(RulePoints(hand), x) = Count(a, b, c, d, e, x)
  BY FiveValues
<1> DEFINE S == {a, b, c, d, e}
           C(x) == Count(a, b, c, d, e, x)
           often == CHOOSE x \in S : C(x) > 2
           rest == CHOOSE x \in S : x # often
           s == [i \in 1 .. 5 |-> IF i <= C(often) THEN often ELSE rest]
<1>2. Distribution(a, b, c, d, e) = 2
  BY <1>1
<1>3. SortBombFullHouse(hand) = [level |-> IF C(often) = 4 THEN Bomb ELSE Full_House, sortedCards |-> s]
  <2> DEFINE v == Strengths(hand)
             o == CHOOSE x \in ToSet(v) : Times(v, x) > 2
             r == CHOOSE x \in ToSet(v) : x # o
             Ranked(m, x, y) == [level |-> IF m = 4 THEN Bomb ELSE Full_House,
                                 sortedCards |-> [i \in 1 .. 5 |-> IF i <= m THEN x ELSE y]]
  <2>1. SortBombFullHouse(hand) = Ranked(Times(v, o), o, r)
    BY Zenon DEF SortBombFullHouse
  <2>2. ToSet(v) = S /\ \A x : Times(v, x) = C(x)
    BY <1>1
  <2> HIDE DEF v, S, C
  <2>3. o = often
    BY <2>2
  <2> HIDE DEF o
  <2>4. r = rest
    BY <2>2, <2>3
  <2> HIDE DEF r, Ranked, often, rest
  <2>5. SortBombFullHouse(hand) = Ranked(C(often), often, rest)
    BY <2>1, <2>2, <2>3, <2>4
  <2> QED
    BY <2>5, Zenon DEF Ranked
<1>4. often \in S /\ C(often) > 2
  <2>1. \E x \in S : C(x) > 2
    <3>1. C(a) > 2 \/ C(b) > 2 \/ C(c) > 2
      BY <1>1, <1>2 DEF Points, Count, Bit, Distribution
    <3> QED
      BY <3>1
  <2> HIDE DEF S, C
  <2> QED
    BY <2>1
<1> HIDE DEF often
<1>5. rest \in S /\ rest # often
  <2>1. \E x \in S : x # often
    BY <1>1, <1>2, <1>4 DEF Points, Count, Bit, Distribution
  <2> HIDE DEF S
  <2> QED
    BY <2>1
<1> HIDE DEF rest
<1>6. /\ C(often) \in {3, 4} /\ C(rest) = 5 - C(often) /\ \A x \in S : x = often \/ x = rest
      /\ Ahead(a, b, c, d, e, often) = 0 /\ Ahead(a, b, c, d, e, rest) = C(often)
  BY <1>1, <1>2, <1>4, <1>5 DEF Points, Ahead, First, Count, Bit, Distribution
<1>7. s = RuleOrder(hand)
  <2>1. s \in Seq(S) /\ Len(s) = 5
    <3> HIDE DEF S, C
    <3> QED
      BY <1>4, <1>5
  <2>2. ASSUME NEW i \in 1 .. 5
        PROVE  /\ Ahead(a, b, c, d, e, s[i]) < i
               /\ i <= Ahead(a, b, c, d, e, s[i]) + Count(a, b, c, d, e, s[i])
    BY <1>6
  <2> HIDE DEF s
  <2> QED
    BY <1>1, <2>1, <2>2, RuleOrderIs
<1>8. RuleLevel(hand) = IF C(often) = 4 THEN Bomb ELSE Full_House
  <2>1. \A n : Held(hand, n) = {x \in S : C(x) = n}
    BY <1>1 DEF Held
  <2> HIDE DEF C
  <2>2. CASE C(often) = 4
    <3>1. often \in Held(hand, 4) /\ Held(hand, 3) = {} /\ Held(hand, 2) = {}
      BY <1>4, <1>6, <2>1, <2>2
    <3>2. Held(hand, 4) # {}
      BY <3>1
    <3> QED
      BY <2>2, <3>1, <3>2, RuleLevelOfRepeated
  <2>3. CASE C(often) = 3
    <3>1. often \in Held(hand, 3) /\ Held(hand, 4) = {} /\ Held(hand, 2) = {rest}
      BY <1>4, <1>5, <1>6, <2>1, <2>3
    <3>2. Held(hand, 3) # {} /\ Held(hand, 2) # {} /\ Cardinality(Held(hand, 2)) = 1
      BY <3>1, FS_Singleton
    <3> QED
      BY <2>3, <3>1, <3>2, RuleLevelOfRepeated
  <2> QED
    BY <1>6, <2>2, <2>3
<1> QED
  BY <1>3, <1>7, <1>8 DEF ByTheRules

(* The loop of IsStraight finds the smallest point. *)
LEMMA SmallestPoint ==
  ASSUME NEW hand, Five(hand)
  PROVE  /\ Smallest(hand).min \in PointsOf(hand)
         /\ \A x \in PointsOf(hand) : Smallest(hand).min <= x
<1> DEFINE scan == InTurn(Smaller, [min |-> Unset, second |-> Unset], hand)
           u(i) == hand[i].point
           s1 == Smaller([min |-> 255, second |-> 255], hand[1])
           s2 == Smaller(s1, hand[2])
           s3 == Smaller(s2, hand[3])
           s4 == Smaller(s3, hand[4])
           s5 == Smaller(s4, hand[5])
<1>1. /\ DOMAIN hand = 1 .. 5
      /\ u(1) \in 1 .. 13 /\ u(2) \in 1 .. 13 /\ u(3) \in 1 .. 13 /\ u(4) \in 1 .. 13 /\ u(5) \in 1 .. 13
  BY FivePoints
<1>2. PointsOf(hand) = {u(1), u(2), u(3), u(4), u(5)}
  <2>1. PointsOf(hand) = {u(i) : i \in 1 .. 5}
    BY <1>1 DEF PointsOf
  <2>2. 1 .. 5 = {1, 2, 3, 4, 5}
    OBVIOUS
  <2> QED
    BY <2>1, <2>2, Zenon
<1>3. scan = s5
  BY Zenon DEF InTurn, Unset
<1>4. \A acc, c : Smaller(acc, c).min = IF c.point < acc.min THEN c.point ELSE acc.min
  BY DEF Smaller
<1>5. Smallest(hand).min = scan.min
  <2> DEFINE others == PointsOf(hand) \ {scan.min}
             o == CHOOSE x \in others : \A y \in others : x <= y
  <2>1. Smallest(hand) = IF scan.second = Unset /\ others # {} THEN [scan EXCEPT !.second = o] ELSE scan
    BY Zenon DEF Smallest
  <2>2. \E m, n : scan = [min |-> m, second |-> n]
    <3>1. \A acc, c : (\E m, n : acc = [min |-> m, second |-> n])
                       => \E m, n : Smaller(acc, c) = [min |-> m, second |-> n]
      BY DEF Smaller
    <3>2. \E m, n : s1 = [min |-> m, second |-> n]
      BY DEF Smaller
    <3> HIDE DEF s1
    <3>3. \E m, n : s2 = [min |-> m, second |-> n]
      BY <3>1, <3>2
    <3> HIDE DEF s2
    <3>4. \E m, n : s3 = [min |-> m, second |-> n]
      BY <3>1, <3>3
    <3> HIDE DEF s3
    <3>5. \E m, n : s4 = [min |-> m, second |-> n]
      BY <3>1, <3>4
    <3> HIDE DEF s4
    <3>6. \E m, n : s5 = [min |-> m, second |-> n]
      BY <3>1, <3>5
    <3> HIDE DEF s5, scan
    <3> QED
      BY <1>3, <3>6
  <2> HIDE DEF scan, others, o
  <2> QED
    BY <2>1, <2>2
<1> DEFINE m1 == s1.min
           m2 == s2.min
           m3 == s3.min
           m4 == s4.min
           m5 == s5.min
<1>6. /\ m1 = (IF u(1) < 255 THEN u(1) ELSE 255) /\ m2 = (IF u(2) < m1 THEN u(2) ELSE m1)
      /\ m3 = (IF u(3) < m2 THEN u(3) ELSE m2) /\ m4 = (IF u(4) < m3 THEN u(4) ELSE m3)
      /\ m5 = (IF u(5) < m4 THEN u(5) ELSE m4)
  <2> HIDE DEF s1, s2, s3, s4
  <2>1. m1 = (IF u(1) < 255 THEN u(1) ELSE 255)
    BY <1>4 DEF s1
  <2>2. m2 = (IF u(2) < m1 THEN u(2) ELSE m1)
    BY <1>4 DEF s2
  <2>3. m3 = (IF u(3) < m2 THEN u(3) ELSE m2)
    BY <1>4 DEF s3
  <2>4. m4 = (IF u(4) < m3 THEN u(4) ELSE m3)
    BY <1>4 DEF s4
  <2>5. m5 = (IF u(5) < m4 THEN u(5) ELSE m4)
    BY <1>4
  <2> QED
    BY <2>1, <2>2, <2>3, <2>4, <2>5
<1>7. Smallest(hand).min = m5
  BY <1>3, <1>5
<1> HIDE DEF m1, m2, m3, m4, m5, u
<1> QED
  BY ONLY <1>1, <1>2, <1>6, <1>7

(* Five different points: in a row they are all the points of the row.     *)
LEMMA DifferentPoints ==
  ASSUME NEW hand, Five(hand), Cardinality(PointsOf(hand)) = 5
  PROVE  \E a, b, c, d, e \in 1 .. 13 :
           PointsOf(hand) = {a, b, c, d, e} /\ Distribution(a, b, c, d, e) = 5
<1> DEFINE u(i) == hand[i].point
<1>1. /\ DOMAIN hand = 1 .. 5
      /\ u(1) \in 1 .. 13 /\ u(2) \in 1 .. 13 /\ u(3) \in 1 .. 13 /\ u(4) \in 1 .. 13 /\ u(5) \in 1 .. 13
  BY FivePoints
<1>2. PointsOf(hand) = {u(1), u(2), u(3), u(4), u(5)}
  <2>1. PointsOf(hand) = {u(i) : i \in 1 .. 5}
    BY <1>1 DEF PointsOf
  <2>2. 1 .. 5 = {1, 2, 3, 4, 5}
    OBVIOUS
  <2> QED
    BY <2>1, <2>2, Zenon
<1> HIDE DEF u
<1>3. Cardinality({u(1), u(2), u(3), u(4), u(5)}) = Distribution(u(1), u(2), u(3), u(4), u(5))
  BY DifferentFive
<1> QED
  BY <1>1, <1>2, <1>3

LEMMA RunFills ==
  ASSUME NEW hand, Five(hand), Cardinality(PointsOf(hand)) = 5, NEW low \in 1 .. 10,
         \A i \in 0 .. 4 : low + i \in PointsOf(hand)
  PROVE  PointsOf(hand) = low .. low + 4
<1>1. PICK a \in 1 .. 13, b \in 1 .. 13, c \in 1 .. 13, d \in 1 .. 13, e \in 1 .. 13 :
        PointsOf(hand) = {a, b, c, d, e} /\ Distribution(a, b, c, d, e) = 5
  BY DifferentPoints
<1>2. /\ low \in {a, b, c, d, e} /\ low + 1 \in {a, b, c, d, e} /\ low + 2 \in {a, b, c, d, e}
      /\ low + 3 \in {a, b, c, d, e} /\ low + 4 \in {a, b, c, d, e}
  BY <1>1
<1>3. \A x \in {a, b, c, d, e} : low <= x /\ x <= low + 4
  BY <1>1, <1>2 DEF Distribution, Bit
<1>4. \A x \in low .. low + 4 : x \in {low, low + 1, low + 2, low + 3, low + 4}
  OBVIOUS
<1>5. {a, b, c, d, e} = low .. low + 4
  BY <1>2, <1>3, <1>4
<1> QED
  BY <1>1, <1>5

(* What a straight is, by the smallest point. *)
LEMMA RowByRules ==
  ASSUME NEW hand, Five(hand), Cardinality(PointsOf(hand)) = 5, NEW m \in PointsOf(hand),
         \A x \in PointsOf(hand) : m <= x
  PROVE  LET P == PointsOf(hand)
         IN  /\ P \subseteq 1 .. 13
             /\ InARow(hand) /\ ~({1, 13} \subseteq P) => m \in 1 .. 9 /\ P = m .. m + 4
             /\ (\A i \in 0 .. 4 : m + i \in P) => InARow(hand) /\ P = m .. m + 4
             /\ 1 \in P /\ 10 \in P /\ 11 \in P /\ 12 \in P /\ 13 \in P => InARow(hand)
<1> DEFINE P == PointsOf(hand)
           R == {RulePoint(p) : p \in P}
<1>1. PICK a \in 1 .. 13, b \in 1 .. 13, c \in 1 .. 13, d \in 1 .. 13, e \in 1 .. 13 :
        P = {a, b, c, d, e} /\ Distribution(a, b, c, d, e) = 5
  BY DifferentPoints
<1>2. InARow(hand) <=> RunsUp(P) \/ RunsUp(R)
  BY DEF InARow
<1>3. \A x : x \in R <=> (x = 14 /\ 1 \in P) \/ (x \in P /\ x # 1)
  <2>1. P \subseteq 1 .. 13
    BY <1>1
  <2> QED
    BY <2>1 DEF RulePoint
<1> HIDE DEF R
<1>4. ASSUME NEW low \in 1 .. 10, P = low .. low + 4
      PROVE  m = low /\ low \in 1 .. 9
  <2>1. low \in P /\ low + 4 \in P /\ P \subseteq 1 .. 13
    <3>1. low \in low .. low + 4 /\ low + 4 \in low .. low + 4
      OBVIOUS
    <3>2. P \subseteq 1 .. 13
      BY <1>1
    <3> HIDE DEF P
    <3> QED
      BY <1>4, <3>1, <3>2
  <2>2. m >= low /\ m <= low /\ low + 4 <= 13 /\ m \in Nat
    BY <1>4, <2>1
  <2> QED
    BY <2>2
<1>5. ASSUME InARow(hand), ~({1, 13} \subseteq P)
      PROVE  m \in 1 .. 9 /\ P = m .. m + 4
  <2>1. ASSUME NEW low \in 1 .. 10, R = low .. low + 4 PROVE P = low .. low + 4
    <3>1. CASE 1 \in P
      <4>1. 14 \in low .. low + 4
        BY <1>3, <2>1, <3>1
      <4>2. 13 \in low .. low + 4
        BY <4>1
      <4>3. 13 \in P
        BY <1>3, <2>1, <4>2
      <4> QED
        BY <1>5, <3>1, <4>3
    <3>2. CASE 1 \notin P
      <4>1. \A x : x \in R <=> x \in P
        BY <1>3, <3>2
      <4> QED
        BY <2>1, <4>1
    <3> QED
      BY <3>1, <3>2
  <2>2. PICK low \in 1 .. 10 : P = low .. low + 4
    BY <1>2, <1>5, <2>1 DEF RunsUp
  <2>3. m = low /\ low \in 1 .. 9
    BY <1>4, <2>2
  <2> QED
    BY <2>2, <2>3
<1>6. ASSUME \A i \in 0 .. 4 : m + i \in P
      PROVE  InARow(hand) /\ P = m .. m + 4
  <2>1. m \in 1 .. 10
    BY <1>1, <1>6
  <2>2. P = m .. m + 4
    BY <1>6, <2>1, RunFills
  <2> QED
    BY <1>2, <2>1, <2>2 DEF RunsUp
<1>7. ASSUME 1 \in P, 10 \in P, 11 \in P, 12 \in P, 13 \in P
      PROVE  InARow(hand)
  <2>1. \A x \in P : x \in {1, 10, 11, 12, 13}
    BY <1>1, <1>7 DEF Distribution, Bit
  <2>2. \A x : x \in R <=> x \in 10 .. 14
    BY <1>3, <1>7, <2>1
  <2>3. R = 10 .. 10 + 4
    BY <2>2
  <2> QED
    BY <1>2, <2>3 DEF RunsUp
<1> QED
  BY <1>1, <1>5, <1>6, <1>7

(* The first of the points from the highest down is one of them. *)
LEMMA FirstFalling ==
  ASSUME NEW S, Cardinality(S) = 5, NEW h \in S, \A x \in S : ~(x > h)
  PROVE  Falling(S)[1] \in S
<1> DEFINE Q(p) == {q \in S : q > p}
<1>1. Falling(S)[1] = CHOOSE p \in S : Cardinality(Q(p)) = 1 - 1
  <2> DEFINE g(k) == CHOOSE p \in S : Cardinality(Q(p)) = k - 1
  <2>1. Falling(S) = [k \in 1 .. Cardinality(S) |-> g(k)]
    BY Zenon DEF Falling
  <2> HIDE DEF g
  <2>2. Falling(S)[1] = g(1)
    BY <2>1
  <2> QED
    BY <2>2, Zenon DEF g
<1>2. Q(h) = {}
  OBVIOUS
<1>3. Cardinality(Q(h)) = 1 - 1
  BY <1>2, FS_EmptySet
<1> HIDE DEF Q
<1> QED
  BY <1>1, <1>3

(* Five different points, with the straights left out that CalCardID gives *)
(* another level than the rules.                                           *)
LEMMA LevelOfDifferentByRules ==
  ASSUME NEW hand, Five(hand), Cardinality(PointsOf(hand)) = 5, ~LevelDeparts(hand)
  PROVE  LevelOfDifferent(IsStraight(hand), OneType(hand)) = RuleLevel(hand)
<1> DEFINE P == PointsOf(hand)
           m == Smallest(hand).min
           top == AceOnTop(hand)
           second == Smallest(hand).second
           record == IF top THEN (P \ {1}) \cup {14} ELSE P
           min == IF top THEN second ELSE m
           res == \A i \in 0 .. 4 : min + i \in record
           sorted == Falling(IF res THEN min .. min + 4 ELSE record)
<1>1. m \in P /\ \A x \in P : m <= x
  BY SmallestPoint
<1>2. /\ P \subseteq 1 .. 13
      /\ InARow(hand) /\ ~({1, 13} \subseteq P) => m \in 1 .. 9 /\ P = m .. m + 4
      /\ (\A i \in 0 .. 4 : m + i \in P) => InARow(hand) /\ P = m .. m + 4
      /\ 1 \in P /\ 10 \in P /\ 11 \in P /\ 12 \in P /\ 13 \in P => InARow(hand)
  BY <1>1, RowByRules
<1>3. IsStraight(hand) = [res |-> res, sortedCards |-> sorted]
  BY Zenon DEF IsStraight
<1>4. top <=> m = 1 /\ 2 \notin P /\ second = 10
  BY DEF AceOnTop
<1> HIDE DEF P, m, top, second
<1>5. LevelOfDifferent(IsStraight(hand), OneType(hand)) =
        IF res
          THEN IF ~OneType(hand) THEN None
               ELSE IF sorted[1] = 14 THEN Royal_Flush ELSE Straight_Flush
          ELSE IF OneType(hand) THEN Flush ELSE High
  <2>1. IsStraight(hand).res = res /\ IsStraight(hand).sortedCards = sorted
    BY <1>3
  <2> HIDE DEF res, sorted
  <2> QED
    BY <2>1 DEF LevelOfDifferent
<1>6. CASE InARow(hand)
  <2>1. OneType(hand) /\ ~({1, 13} \subseteq P)
    BY <1>6 DEF LevelDeparts, P
  <2>2. m \in 1 .. 9 /\ P = m .. m + 4
    BY <1>2, <1>6, <2>1
  <2>3. ~top
    BY <1>4, <2>2
  <2>4. res
    BY <2>2, <2>3
  <2>5. sorted = Falling(P)
    <3> HIDE DEF res
    <3> QED
      BY <2>2, <2>3, <2>4
  <2>6. Falling(P)[1] \in P
    <3>1. m + 4 \in P /\ \A x \in P : ~(x > m + 4)
      BY <2>2
    <3>2. Cardinality(P) = 5
      BY DEF P
    <3> QED
      BY <3>1, <3>2, FirstFalling
  <2>7. sorted[1] # 14
    <3>1. 14 \notin P
      BY <1>2
    <3> QED
      BY <2>5, <2>6, <3>1
  <2>8. RuleLevel(hand) = Straight_Flush
    <3> DEFINE ends == {1, 13} \subseteq PointsOf(hand)
    <3>1. ~ends
      BY <2>1 DEF P
    <3>2. RuleLevel(hand) =
            CASE InARow(hand) /\ OneType(hand) /\ ends -> Royal_Flush
              [] InARow(hand) /\ OneType(hand) /\ ~ends -> Straight_Flush
              [] OTHER -> High
      BY <1>6, <2>1 DEF RuleLevel
    <3> HIDE DEF ends
    <3> QED
      BY <1>6, <2>1, <3>1, <3>2
  <2> QED
    BY <1>5, <2>1, <2>4, <2>7, <2>8
<1>7. CASE ~InARow(hand)
  <2>1. ~res
    <3>1. CASE top
      <4>1. m = 1 /\ second = 10 /\ 1 \in P
        BY <1>1, <1>4, <3>1
      <4>2. SUFFICES ASSUME res PROVE FALSE
        OBVIOUS
      <4>3. min = 10 /\ record = (P \ {1}) \cup {14}
        BY <3>1, <4>1
      <4>4. 10 + 0 \in record /\ 10 + 1 \in record /\ 10 + 2 \in record /\ 10 + 3 \in record
        BY <4>2, <4>3
      <4>5. 10 \in P /\ 11 \in P /\ 12 \in P /\ 13 \in P
        BY <4>3, <4>4
      <4> QED
        BY <1>2, <1>7, <4>1, <4>5
    <3>2. CASE ~top
      BY <1>2, <1>7, <3>2
    <3> QED
      BY <3>1, <3>2
  <2>2. RuleLevel(hand) = IF OneType(hand) THEN Flush ELSE High
    <3>1. PICK a, b, c, d, e :
            /\ Points(a, b, c, d, e)
            /\ ToSet(RulePoints(hand)) = {a, b, c, d, e}
            /\ Cardinality(PointsOf(hand)) = Distribution(a, b, c, d, e)
            /\ \A x : Times(RulePoints(hand), x) = Count(a, b, c, d, e, x)
      BY FiveValues
    <3>2. \A x \in {a, b, c, d, e} : Count(a, b, c, d, e, x) = 1
      BY <3>1 DEF Points, Count, Bit, Distribution
    <3>3. Held(hand, 4) = {} /\ Held(hand, 3) = {} /\ Held(hand, 2) = {}
      BY <3>1, <3>2 DEF Held
    <3>4. Cardinality(Held(hand, 2)) = 0
      BY <3>3, FS_EmptySet
    <3> QED
      BY <1>7, <3>3, <3>4 DEF RuleLevel
  <2> HIDE DEF res
  <2> QED
    BY <1>5, <2>1, <2>2
<1> QED
  BY <1>6, <1>7

(* Five different points without an ace are in the order of the rules. *)
LEMMA OrderOfDifferentByRules ==
  ASSUME NEW hand, Five(hand), Cardinality(PointsOf(hand)) = 5, 1 \notin PointsOf(hand)
  PROVE  IsStraight(hand).sortedCards = RuleOrder(hand)
<1> DEFINE P == PointsOf(hand)
           m == Smallest(hand).min
           top == AceOnTop(hand)
           second == Smallest(hand).second
           record == IF top THEN (P \ {1}) \cup {14} ELSE P
           min == IF top THEN second ELSE m
           res == \A i \in 0 .. 4 : min + i \in record
           sorted == Falling(IF res THEN min .. min + 4 ELSE record)
<1>1. m \in P /\ \A x \in P : m <= x
  BY SmallestPoint
<1>2. (\A i \in 0 .. 4 : m + i \in P) => P = m .. m + 4
  BY <1>1, RowByRules
<1>3. IsStraight(hand) = [res |-> res, sortedCards |-> sorted]
  BY Zenon DEF IsStraight
<1>4. ~top
  BY <1>1 DEF AceOnTop
<1>5. PICK a, b, c, d, e :
        /\ Points(a, b, c, d, e)
        /\ Strengths(hand) = <<a, b, c, d, e>> /\ RulePoints(hand) = <<a, b, c, d, e>>
        /\ Cardinality(PointsOf(hand)) = Distribution(a, b, c, d, e)
  BY FiveValues
<1> DEFINE O == Once(a, b, c, d, e)
           r == <<>>
<1>6. Distribution(a, b, c, d, e) = 5
  BY <1>5
<1>7. O = {a, b, c, d, e}
  BY <1>5, <1>6 DEF Once, Points, Count, Bit, Distribution
<1>8. P = {a, b, c, d, e}
  <2>1. /\ DOMAIN hand = 1 .. 5
        /\ \A i \in 1 .. 5 : RulePoints(hand)[i] = IF hand[i].point = 1 THEN 14 ELSE hand[i].point
        /\ ToSet(RulePoints(hand)) = {RulePoints(hand)[1], RulePoints(hand)[2], RulePoints(hand)[3],
                                      RulePoints(hand)[4], RulePoints(hand)[5]}
    BY FivePoints
  <2>2. \A i \in 1 .. 5 : hand[i].point # 1
    BY <2>1 DEF PointsOf
  <2>3. \A i \in 1 .. 5 : hand[i].point = RulePoints(hand)[i]
    BY <2>1, <2>2
  <2>4. P = {RulePoints(hand)[i] : i \in 1 .. 5}
    BY <2>1, <2>3 DEF PointsOf
  <2>5. 1 .. 5 = {1, 2, 3, 4, 5}
    OBVIOUS
  <2>6. P = {RulePoints(hand)[1], RulePoints(hand)[2], RulePoints(hand)[3],
             RulePoints(hand)[4], RulePoints(hand)[5]}
    BY <2>4, <2>5, Zenon
  <2> HIDE DEF P
  <2> QED
    BY <1>5, <2>6
<1> HIDE DEF P, m, top, second
<1>9. sorted = Falling(P)
  BY <1>2, <1>4
<1>10. Placed(a, b, c, d, e, r)
  <2>1. r \in Seq({a, b, c, d, e}) /\ Len(r) = 0
    OBVIOUS
  <2>2. Cardinality(O) = 5
    BY <1>7, <1>8 DEF P
  <2>3. \A x \in O : Ahead(a, b, c, d, e, x) = 0 + Above(a, b, c, d, e, x)
    BY <1>5, <1>6, <1>7 DEF Points, Ahead, First, Above, Count, Bit, Distribution
  <2> HIDE DEF r
  <2> QED
    BY <2>1, <2>2, <2>3 DEF Placed
<1>11. r \o Falling(O) = RuleOrder(hand)
  <2> HIDE DEF r
  <2> QED
    BY <1>5, <1>10, OrderBehind
<1>12. Falling(O) \in Seq(O)
  BY <1>5, FallingOnce
<1>13. r \o Falling(O) = Falling(O)
  <2> DEFINE f == Falling(O)
  <2>1. f \in Seq(O)
    BY <1>12
  <2> HIDE DEF f, O
  <2> QED
    BY <2>1 DEF f
<1> HIDE DEF r, O
<1> QED
  BY <1>3, <1>7, <1>8, <1>9, <1>11, <1>13

(* There are only four cards of a point. *)
LEMMA HowManyPoints ==
  ASSUME NEW hand, Five(hand)
  PROVE  Cardinality(PointsOf(hand)) \in 2 .. 5
<1> DEFINE P == PointsOf(hand)
           t(i) == hand[i].type
<1>1. /\ DOMAIN hand = 1 .. 5
      /\ \A i \in 1 .. 5 : hand[i] \in LegalCards
  BY FivePoints
<1>2. PICK a, b, c, d, e : Cardinality(P) = Distribution(a, b, c, d, e)
  BY FiveValues
<1>3. Cardinality(P) \in 1 .. 5
  BY <1>2 DEF Distribution, Bit
<1>4. Cardinality(P) # 1
  <2> SUFFICES ASSUME Cardinality(P) = 1 PROVE FALSE
    OBVIOUS
  <2>1. IsFiniteSet(P)
    <3>1. P = {hand[i].point : i \in 1 .. 5}
      BY <1>1 DEF PointsOf
    <3>2. 1 .. 5 = {1, 2, 3, 4, 5}
      OBVIOUS
    <3>3. P = {hand[1].point, hand[2].point, hand[3].point, hand[4].point, hand[5].point}
      BY <3>1, <3>2, Zenon
    <3>4. IsFiniteSet({hand[1].point, hand[2].point, hand[3].point, hand[4].point, hand[5].point})
      BY DifferentFive
    <3> QED
      BY <3>3, <3>4, Zenon
  <2>2. PICK p : P = {p}
    BY <2>1, FS_Singleton
  <2>3. \A i \in 1 .. 5 : hand[i].point = p
    BY <1>1, <2>2 DEF PointsOf
  <2>4. \A i, j \in 1 .. 5 : t(i) = t(j) => i = j
    <3> SUFFICES ASSUME NEW i \in 1 .. 5, NEW j \in 1 .. 5, t(i) = t(j) PROVE i = j
      OBVIOUS
    <3>1. hand[i] = hand[j]
      BY <1>1, <2>3 DEF LegalCards
    <3> QED
      BY <1>1, <3>1 DEF Five, Distinct
  <2>5. t(1) \in 1 .. 4 /\ t(2) \in 1 .. 4 /\ t(3) \in 1 .. 4 /\ t(4) \in 1 .. 4 /\ t(5) \in 1 .. 4
    BY <1>1 DEF LegalCards
  <2> HIDE DEF t
  <2>6. /\ t(1) # t(2) /\ t(1) # t(3) /\ t(1) # t(4) /\ t(1) # t(5) /\ t(2) # t(3)
        /\ t(2) # t(4) /\ t(2) # t(5) /\ t(3) # t(4) /\ t(3) # t(5) /\ t(4) # t(5)
    BY <2>4
  <2> QED
    BY ONLY <2>5, <2>6
<1> QED
  BY <1>3, <1>4

(* What CalCardID gives five cards is what the rules give them.            *)
LEMMA FiveByRules ==
  ASSUME NEW hand, Five(hand), ~LevelDeparts(hand)
  PROVE  /\ CalCardID(hand).level = RuleLevel(hand)
         /\ ~OrderDeparts(hand) => CalCardID(hand).sortedCards = RuleOrder(hand)
         /\ ~OrderDeparts(hand) => CalCardID(hand) = ByTheRules(hand)
<1> DEFINE n == Cardinality(PointsOf(hand))
           straight == IsStraight(hand)
           five == [level |-> LevelOfDifferent(straight, OneType(hand)),
                    sortedCards |-> straight.sortedCards]
<1>1. n \in 2 .. 5
  BY HowManyPoints
<1>2. CalCardID(hand) =
        CASE n = 5 -> five
          [] n = 4 -> SortPair(hand)
          [] n = 3 -> SortSitesTwoPair(hand)
          [] n = 2 -> SortBombFullHouse(hand)
          [] OTHER -> [level |-> None, sortedCards |-> <<0, 0, 0, 0, 0>>]
  BY Zenon DEF CalCardID, OneType
<1>3. ByTheRules(hand).level = RuleLevel(hand) /\ ByTheRules(hand).sortedCards = RuleOrder(hand)
  BY DEF ByTheRules
<1>4. CASE n = 5
  <2>1. LevelOfDifferent(straight, OneType(hand)) = RuleLevel(hand)
    BY <1>4, LevelOfDifferentByRules
  <2>2. ~OrderDeparts(hand) => straight.sortedCards = RuleOrder(hand)
    BY <1>4, OrderOfDifferentByRules DEF OrderDeparts
  <2> HIDE DEF straight
  <2>3. CalCardID(hand) = five
    <3> HIDE DEF five, n
    <3> QED
      BY <1>2, <1>4
  <2> QED
    BY <2>1, <2>2, <2>3 DEF ByTheRules
<1>5. CASE n = 4
  <2>1. SortPair(hand) = ByTheRules(hand)
    BY <1>5, PairByRules
  <2> HIDE DEF five, n
  <2> QED
    BY <1>2, <1>3, <1>5, <2>1
<1>6. CASE n = 3
  <2>1. SortSitesTwoPair(hand) = ByTheRules(hand)
    BY <1>6, SitesTwoPairByRules
  <2> HIDE DEF five, n
  <2> QED
    BY <1>2, <1>3, <1>6, <2>1
<1>7. CASE n = 2
  <2>1. SortBombFullHouse(hand) = ByTheRules(hand)
    BY <1>7, BombFullHouseByRules
  <2> HIDE DEF five, n
  <2> QED
    BY <1>2, <1>3, <1>7, <2>1
<1> QED
  BY <1>1, <1>4, <1>5, <1>6, <1>7

(* The places of a hand of the rules are its points. *)
LEMMA PlacesFilled ==
  ASSUME NEW a, NEW b, NEW c, NEW d, NEW e, Points(a, b, c, d, e), NEW i \in 1 .. 5
  PROVE  \E x \in {a, b, c, d, e} :
           Ahead(a, b, c, d, e, x) < i /\ i <= Ahead(a, b, c, d, e, x) + Count(a, b, c, d, e, x)
<1> DEFINE In(x) == Ahead(a, b, c, d, e, x) < i /\ i <= Ahead(a, b, c, d, e, x) + Count(a, b, c, d, e, x)
<1>1. In(a) \/ In(b) \/ In(c) \/ In(d) \/ In(e)
  BY DEF Points, Ahead, First, Count, Bit
<1> HIDE DEF In
<1> QED
  BY <1>1 DEF In

(* What is compared: a level and five points, the first that differs       *)
(* deciding.                                                               *)
Id(x) ==
  /\ x.level \in Nat
  /\ x.sortedCards[1] \in Nat /\ x.sortedCards[2] \in Nat /\ x.sortedCards[3] \in Nat
  /\ x.sortedCards[4] \in Nat /\ x.sortedCards[5] \in Nat

LaterGreater(s, t) == s[4] > t[4] \/ (s[4] = t[4] /\ s[5] > t[5])
PlacesGreater(s, t) ==
  \/ s[1] > t[1]
  \/ s[1] = t[1] /\ (s[2] > t[2] \/ (s[2] = t[2] /\ (s[3] > t[3] \/ (s[3] = t[3] /\ LaterGreater(s, t)))))
Greater(x, y) ==
  x.level > y.level \/ (x.level = y.level /\ PlacesGreater(x.sortedCards, y.sortedCards))

LEMMA CompareIs ==
  ASSUME NEW x, NEW y, Id(x), Id(y)
  PROVE  /\ CompareTwoSets(x, y) = 1 <=> Greater(x, y)
         /\ CompareTwoSets(x, y) = 2 <=> Greater(y, x)
<1> DEFINE s == x.sortedCards
           t == y.sortedCards
           differ == {i \in 1 .. 5 : s[i] # t[i]}
           i == CHOOSE j \in differ : \A k \in differ : j <= k
<1>1. CompareTwoSets(x, y) =
        IF x.level # y.level THEN (IF x.level > y.level THEN 1 ELSE 2)
        ELSE IF differ = {} THEN 0
        ELSE IF s[i] > t[i] THEN 1 ELSE 2
  BY Zenon DEF CompareTwoSets
<1>2. /\ s[1] \in Nat /\ s[2] \in Nat /\ s[3] \in Nat /\ s[4] \in Nat /\ s[5] \in Nat
      /\ t[1] \in Nat /\ t[2] \in Nat /\ t[3] \in Nat /\ t[4] \in Nat /\ t[5] \in Nat
      /\ x.level \in Nat /\ y.level \in Nat
  BY DEF Id
<1> HIDE DEF s, t
<1>3. \A j \in 1 .. 5 : j \in differ <=> s[j] # t[j]
  OBVIOUS
<1>4. differ \subseteq 1 .. 5
  OBVIOUS
<1> HIDE DEF differ
<1>5. differ = {} => /\ ~PlacesGreater(s, t)
                     /\ ~PlacesGreater(t, s)
  BY <1>2, <1>3 DEF PlacesGreater, LaterGreater
<1>6. ASSUME differ # {}
      PROVE  (s[i] > t[i] <=> PlacesGreater(s, t)) /\ (~(s[i] > t[i]) <=> PlacesGreater(t, s))
  <2>1. i \in differ /\ \A k \in differ : i <= k
    <3>1. \E j \in differ : \A k \in differ : j <= k
      <4> DEFINE L(j) == j \in differ /\ \A k \in differ : j <= k
      <4>1. 1 \in differ => L(1)
        BY <1>4
      <4>2. 2 \in differ => 1 \in differ \/ L(2)
        BY <1>4
      <4>3. 3 \in differ => 1 \in differ \/ 2 \in differ \/ L(3)
        BY <1>4
      <4>4. 4 \in differ => 1 \in differ \/ 2 \in differ \/ 3 \in differ \/ L(4)
        BY <1>4
      <4>5. 5 \in differ => 1 \in differ \/ 2 \in differ \/ 3 \in differ \/ 4 \in differ \/ L(5)
        BY <1>4
      <4>6. 1 \in differ \/ 2 \in differ \/ 3 \in differ \/ 4 \in differ \/ 5 \in differ
        <5>1. PICK j : j \in differ
          BY <1>6
        <5>2. j \in 1 .. 5
          BY <1>4, <5>1
        <5>3. j = 1 \/ j = 2 \/ j = 3 \/ j = 4 \/ j = 5
          BY <5>2
        <5> QED
          BY <5>1, <5>3
      <4> HIDE DEF L
      <4>7. \E j : L(j)
        BY <4>1, <4>2, <4>3, <4>4, <4>5, <4>6
      <4> QED
        BY <4>7 DEF L
    <3> QED
      BY <3>1
  <2> HIDE DEF i
  <2>2. i \in 1 .. 5 /\ s[i] # t[i] /\ \A k \in 1 .. 5 : k < i => s[k] = t[k]
    BY <1>3, <1>4, <2>1
  <2>3. CASE i = 1
    BY <1>2, <2>2, <2>3 DEF PlacesGreater, LaterGreater
  <2>4. CASE i = 2
    BY <1>2, <2>2, <2>4 DEF PlacesGreater, LaterGreater
  <2>5. CASE i = 3
    BY <1>2, <2>2, <2>5 DEF PlacesGreater, LaterGreater
  <2>6. CASE i = 4
    BY <1>2, <2>2, <2>6 DEF PlacesGreater, LaterGreater
  <2>7. CASE i = 5
    BY <1>2, <2>2, <2>7 DEF PlacesGreater, LaterGreater
  <2> QED
    BY <2>2, <2>3, <2>4, <2>5, <2>6, <2>7
<1> HIDE DEF i
<1> QED
  BY <1>1, <1>2, <1>5, <1>6 DEF Greater, s, t

(* The greater is greater than what the other is greater than, and is not  *)
(* beaten by it.                                                           *)
LEMMA GreaterIsOrder ==
  ASSUME NEW x, NEW y, NEW z, Id(x), Id(y), Id(z)
  PROVE  /\ ~Greater(x, x)
         /\ Greater(x, y) => ~Greater(y, x)
         /\ ~Greater(x, y) /\ Greater(z, y) => ~Greater(x, z)
  BY DEF Id, Greater, PlacesGreater, LaterGreater

(* What the rules give five cards can be compared. *)
LEMMA RulesId ==
  ASSUME NEW hand, Five(hand)
  PROVE  Id(ByTheRules(hand))
<1>1. PICK a, b, c, d, e :
        /\ Points(a, b, c, d, e)
        /\ RulePoints(hand) = <<a, b, c, d, e>>
        /\ ToSet(RulePoints(hand)) = {a, b, c, d, e}
  BY FiveValues
<1>2. ASSUME NEW i \in 1 .. 5
      PROVE  RuleOrder(hand)[i] \in Nat
  <2> DEFINE v == RulePoints(hand)
  <2>1. PICK x \in {a, b, c, d, e} :
          Ahead(a, b, c, d, e, x) < i /\ i <= Ahead(a, b, c, d, e, x) + Count(a, b, c, d, e, x)
    BY <1>1, PlacesFilled
  <2>2. v[1] = a /\ v[2] = b /\ v[3] = c /\ v[4] = d /\ v[5] = e /\ x \in ToSet(v)
    BY <1>1, <2>1
  <2>3. RuleOrder(hand)[i] = x
    BY <2>1, <2>2, RuleOrderAt
  <2> QED
    BY <1>1, <2>1, <2>3 DEF Points
<1>3. RuleLevel(hand) \in Nat
  BY DEF RuleLevel, High, Pair, Two_Pairs, Sites, Straight, Flush, Full_House, Bomb, Straight_Flush, Royal_Flush
<1>4. ByTheRules(hand).level = RuleLevel(hand) /\ ByTheRules(hand).sortedCards = RuleOrder(hand)
  BY DEF ByTheRules
<1> QED
  BY <1>2, <1>3, <1>4 DEF Id

(* A sequence without one of its elements. *)
LEMMA OneOut ==
  ASSUME NEW S, NEW s \in Seq(S), NEW i \in 1 .. Len(s)
  PROVE  /\ RemoveAt(s, i) \in Seq(S)
         /\ Len(RemoveAt(s, i)) = Len(s) - 1
         /\ \A k \in 1 .. Len(s) - 1 : RemoveAt(s, i)[k] = s[IF k < i THEN k ELSE k + 1]
<1> DEFINE n == Len(s)
           front == SubSeq(s, 1, i - 1)
           back == SubSeq(s, i + 1, n)
<1>1. RemoveAt(s, i) = front \o back
  BY DEF RemoveAt
<1>2. n \in Nat /\ i \in 1 .. n
  OBVIOUS
<1>3. front \in Seq(S) /\ Len(front) = i - 1 /\ \A k \in 1 .. i - 1 : front[k] = s[k]
  BY <1>2
<1>4. back \in Seq(S) /\ Len(back) = n - i /\ \A k \in 1 .. n - i : back[k] = s[k + i]
  BY <1>2
<1> HIDE DEF n, front, back
<1>5. /\ front \o back \in Seq(S) /\ Len(front \o back) = Len(front) + Len(back)
      /\ \A k \in 1 .. Len(front) : (front \o back)[k] = front[k]
      /\ \A k \in 1 .. Len(back) : (front \o back)[k + Len(front)] = back[k]
  <2>1. front \in Seq(S) /\ back \in Seq(S)
    BY <1>3, <1>4
  <2> QED
    BY ONLY <2>1
<1>6. ASSUME NEW k \in 1 .. n - 1
      PROVE  (front \o back)[k] = s[IF k < i THEN k ELSE k + 1]
  <2>1. CASE k < i
    BY <1>2, <1>3, <1>5, <2>1
  <2>2. CASE ~(k < i)
    <3>1. k - (i - 1) \in 1 .. n - i /\ k = (k - (i - 1)) + (i - 1) /\ (k - (i - 1)) + i = k + 1
      BY <1>2, <2>2
    <3>2. (front \o back)[k] = back[k - (i - 1)]
      BY <1>3, <1>4, <1>5, <3>1
    <3> QED
      BY <1>4, <2>2, <3>1, <3>2
  <2> QED
    BY <2>1, <2>2
<1> QED
  BY <1>1, <1>2, <1>3, <1>4, <1>5, <1>6 DEF n

(* Of different cards the others are different. *)
LEMMA OneOutDistinct ==
  ASSUME NEW s \in Seq(LegalCards), Distinct(s), NEW i \in 1 .. Len(s)
  PROVE  /\ RemoveAt(s, i) \in Seq(LegalCards) /\ Len(RemoveAt(s, i)) = Len(s) - 1
         /\ Distinct(RemoveAt(s, i))
<1> DEFINE S == LegalCards
           r == RemoveAt(s, i)
           n == Len(s)
<1> HIDE DEF S
<1>1. /\ r \in Seq(S) /\ Len(r) = n - 1
      /\ \A k \in 1 .. n - 1 : r[k] = s[IF k < i THEN k ELSE k + 1]
  BY OneOut DEF S
<1>2. n \in Nat /\ DOMAIN s = 1 .. n /\ DOMAIN r = 1 .. n - 1
  BY <1>1
<1> HIDE DEF r, n
<1>3. ASSUME NEW k \in 1 .. n - 1, NEW l \in 1 .. n - 1, r[k] = r[l] PROVE k = l
  <2> DEFINE kk == IF k < i THEN k ELSE k + 1
             ll == IF l < i THEN l ELSE l + 1
  <2>1. kk \in 1 .. n /\ ll \in 1 .. n /\ (kk = ll => k = l)
    BY <1>2 DEF n
  <2>2. s[kk] = s[ll]
    BY <1>1, <1>3
  <2> HIDE DEF kk, ll
  <2> QED
    BY <1>2, <2>1, <2>2 DEF Distinct
<1> QED
  BY <1>1, <1>2, <1>3 DEF Distinct, S, r, n

(* Seven cards in a deal, and five of them. *)
Seven(deal) == deal \in Seq(LegalCards) /\ Len(deal) = 7 /\ Distinct(deal)
PairsOut == {o \in (1 .. 7) \X (1 .. 7) : o[1] < o[2]}

LEMMA WithoutIsFive ==
  ASSUME NEW seven, Seven(seven), NEW i \in 1 .. 7, NEW j \in 1 .. 7, i < j
  PROVE  Five(Without(seven, i, j))
<1> DEFINE six == RemoveAt(seven, j)
<1>1. six \in Seq(LegalCards) /\ Len(six) = 6 /\ Distinct(six)
  <2>1. /\ seven \in Seq(LegalCards) /\ Distinct(seven) /\ j \in 1 .. Len(seven)
        /\ Len(seven) - 1 = 6
    BY DEF Seven
  <2>2. /\ RemoveAt(seven, j) \in Seq(LegalCards) /\ Len(RemoveAt(seven, j)) = Len(seven) - 1
        /\ Distinct(RemoveAt(seven, j))
    BY <2>1, OneOutDistinct, Zenon
  <2> QED
    BY <2>1, <2>2
<1>2. i \in 1 .. 6
  OBVIOUS
<1> HIDE DEF six
<1>3. RemoveAt(six, i) \in Seq(LegalCards) /\ Len(RemoveAt(six, i)) = 5 /\ Distinct(RemoveAt(six, i))
  <2>1. i \in 1 .. Len(six) /\ Len(six) - 1 = 5
    BY <1>1, <1>2
  <2>2. /\ RemoveAt(six, i) \in Seq(LegalCards) /\ Len(RemoveAt(six, i)) = Len(six) - 1
        /\ Distinct(RemoveAt(six, i))
    BY <1>1, <2>1, OneOutDistinct, Zenon
  <2> QED
    BY <2>1, <2>2
<1>4. Without(seven, i, j) = RemoveAt(six, i)
  BY Zenon DEF Without, six
<1> QED
  BY <1>3, <1>4 DEF Five

(* A row of the loops of Calculate, and all of them. *)
Row(seven, outer, i) == OneToSeven(LAMBDA max, j : LeavingOut(seven, max, i, j), outer)

LEMMA RowIs ==
  ASSUME NEW seven, NEW outer, NEW i
  PROVE  Row(seven, outer, i) =
           LET m1 == LeavingOut(seven, outer, i, 1)
               m2 == LeavingOut(seven, m1, i, 2)
               m3 == LeavingOut(seven, m2, i, 3)
               m4 == LeavingOut(seven, m3, i, 4)
               m5 == LeavingOut(seven, m4, i, 5)
               m6 == LeavingOut(seven, m5, i, 6)
           IN  LeavingOut(seven, m6, i, 7)
  BY Zenon DEF Row, OneToSeven

LEMMA BestOfIs ==
  ASSUME NEW seven
  PROVE  BestOf(seven) =
           LET m1 == Row(seven, NoCards, 1)
               m2 == Row(seven, m1, 2)
               m3 == Row(seven, m2, 3)
               m4 == Row(seven, m3, 4)
               m5 == Row(seven, m4, 5)
               m6 == Row(seven, m5, 6)
           IN  Row(seven, m6, 7)
<1>1. BestOf(seven) = OneToSeven(LAMBDA outer, i : Row(seven, outer, i), NoCards)
  BY Zenon DEF BestOf, Row
<1> QED
  BY <1>1, Zenon DEF OneToSeven

(* What the loops keep: the best of the choices they have been through.    *)
Made(seven, o) == CalCardID(Without(seven, o[1], o[2]))
Comparable(seven) == \A o \in PairsOut : Id(Made(seven, o))
Done(i, j) == {o \in PairsOut : o[1] < i \/ (o[1] = i /\ o[2] <= j)}
Kept(seven, max, D) == \E o \in D : max = Made(seven, o) /\ \A q \in D : ~Greater(Made(seven, q), max)
Upto(seven, max, i, j) == IF i = 1 /\ j < 2 THEN max = NoCards ELSE Kept(seven, max, Done(i, j))

LEMMA LoopStep ==
  ASSUME NEW seven, Comparable(seven), NEW max, NEW i \in 1 .. 7, NEW j \in 1 .. 7,
         Upto(seven, max, i, j - 1)
  PROVE  Upto(seven, LeavingOut(seven, max, i, j), i, j)
<1> DEFINE o == <<i, j>>
           tem == Made(seven, o)
           C == PairsOut
           old == Done(i, j - 1)
           new == Done(i, j)
<1>1. LeavingOut(seven, max, i, j) =
        IF i >= j THEN max ELSE IF i = 1 /\ j = 2 THEN tem ELSE Better(max, tem)
  BY DEF LeavingOut, Made
<1>2. \A c \in C : /\ c \in old <=> c[1] < i \/ (c[1] = i /\ c[2] <= j - 1)
                   /\ c \in new <=> c[1] < i \/ (c[1] = i /\ c[2] <= j)
                   /\ c[1] \in 1 .. 7 /\ c[2] \in 1 .. 7 /\ c[1] < c[2] /\ c = <<c[1], c[2]>>
  BY DEF Done, PairsOut
<1>3. old \subseteq C /\ new \subseteq C
  BY DEF Done
<1>4. CASE i >= j
  <2>1. \A c \in C : c \in old <=> c \in new
    BY <1>2, <1>4
  <2>2. old = new
    BY <1>3, <2>1
  <2>3. (i = 1 /\ j < 2) <=> (i = 1 /\ j - 1 < 2)
    BY <1>4
  <2> HIDE DEF old, new, C
  <2>4. LeavingOut(seven, max, i, j) = max
    BY <1>1, <1>4
  <2>5. Upto(seven, max, i, j)
    BY <2>2, <2>3 DEF Upto, old, new
  <2> QED
    BY <2>4, <2>5
<1>5. CASE i = 1 /\ j = 2
  <2>1. o \in C
    BY <1>5 DEF PairsOut
  <2>2. \A c \in C : c \in new <=> c = o
    BY <1>2, <1>5
  <2>3. Id(tem)
    BY <2>1 DEF Comparable
  <2> HIDE DEF new, C, tem
  <2>4. ~Greater(tem, tem)
    BY <2>3, GreaterIsOrder
  <2>5. Kept(seven, tem, new)
    BY <1>3, <2>1, <2>2, <2>4 DEF Kept, tem
  <2>6. LeavingOut(seven, max, i, j) = tem
    BY <1>1, <1>5
  <2> QED
    BY <1>5, <2>5, <2>6 DEF Upto, new
<1>6. CASE i < j /\ ~(i = 1 /\ j = 2)
  <2>1. o \in C
    BY <1>6 DEF PairsOut
  <2>2. \A c \in C : c \in new <=> c \in old \/ c = o
    BY <1>2, <1>6
  <2>3. Kept(seven, max, old)
    <3>1. ~(i = 1 /\ j - 1 < 2)
      BY <1>6
    <3> QED
      BY <3>1 DEF Upto
  <2>4. ~(i = 1 /\ j < 2)
    BY <1>6
  <2> HIDE DEF old, new, C
  <2>5. PICK best \in old : max = Made(seven, best) /\ \A c \in old : ~Greater(Made(seven, c), max)
    BY <2>3 DEF Kept
  <2>6. \A c \in C : Id(Made(seven, c))
    BY DEF Comparable, C
  <2>7. Id(max) /\ Id(tem)
    BY <1>3, <2>1, <2>5, <2>6 DEF tem
  <2>8. tem = Made(seven, o)
    BY DEF tem
  <2> HIDE DEF tem, o
  <2>9. Better(max, tem) = IF Greater(tem, max) THEN tem ELSE max
    BY <2>7, CompareIs DEF Better
  <2>10. LeavingOut(seven, max, i, j) = Better(max, tem)
    BY <1>1, <1>6
  <2>11. Kept(seven, Better(max, tem), new)
    <3>1. CASE Greater(tem, max)
      <4>1. \A c \in old : ~Greater(Made(seven, c), tem)
        <5> SUFFICES ASSUME NEW c \in old PROVE ~Greater(Made(seven, c), tem)
          OBVIOUS
        <5> DEFINE x == Made(seven, c)
        <5>1. Id(x) /\ ~Greater(x, max)
          BY <1>3, <2>5, <2>6
        <5> HIDE DEF x
        <5>2. ~Greater(x, tem)
          BY <2>7, <3>1, <5>1, GreaterIsOrder
        <5> QED
          BY <5>2 DEF x
      <4>2. ~Greater(tem, tem)
        BY <2>7, GreaterIsOrder
      <4>3. \A c \in new : ~Greater(Made(seven, c), tem)
        BY <1>3, <2>2, <2>8, <4>1, <4>2
      <4>4. o \in new
        BY <2>1, <2>2
      <4> QED
        BY <2>8, <2>9, <3>1, <4>3, <4>4 DEF Kept
    <3>2. CASE ~Greater(tem, max)
      <4>1. \A c \in new : ~Greater(Made(seven, c), max)
        BY <1>3, <2>2, <2>5, <2>8, <3>2
      <4>2. best \in new
        BY <1>3, <2>2, <2>5
      <4> QED
        BY <2>5, <2>9, <3>2, <4>1, <4>2 DEF Kept
    <3> QED
      BY <3>1, <3>2
  <2> QED
    BY <2>4, <2>10, <2>11 DEF Upto, new
<1> QED
  BY <1>4, <1>5, <1>6

LEMMA RowStep ==
  ASSUME NEW seven, Comparable(seven), NEW outer, NEW i \in 1 .. 7, Upto(seven, outer, i, 0)
  PROVE  Upto(seven, Row(seven, outer, i), i, 7)
<1> DEFINE m1 == LeavingOut(seven, outer, i, 1)
           m2 == LeavingOut(seven, m1, i, 2)
           m3 == LeavingOut(seven, m2, i, 3)
           m4 == LeavingOut(seven, m3, i, 4)
           m5 == LeavingOut(seven, m4, i, 5)
           m6 == LeavingOut(seven, m5, i, 6)
           m7 == LeavingOut(seven, m6, i, 7)
<1>0. Row(seven, outer, i) = m7
  BY RowIs
<1>a. \A max : \A j \in 1 .. 7 : Upto(seven, max, i, j - 1) => Upto(seven, LeavingOut(seven, max, i, j), i, j)
  BY LoopStep
<1>b. 1 - 1 = 0 /\ 2 - 1 = 1 /\ 3 - 1 = 2 /\ 4 - 1 = 3 /\ 5 - 1 = 4 /\ 6 - 1 = 5 /\ 7 - 1 = 6
  OBVIOUS
<1>1. Upto(seven, m1, i, 1)
  BY <1>a, <1>b
<1> HIDE DEF m1
<1>2. Upto(seven, m2, i, 2)
  BY <1>1, <1>a, <1>b
<1> HIDE DEF m2
<1>3. Upto(seven, m3, i, 3)
  BY <1>2, <1>a, <1>b
<1> HIDE DEF m3
<1>4. Upto(seven, m4, i, 4)
  BY <1>3, <1>a, <1>b
<1> HIDE DEF m4
<1>5. Upto(seven, m5, i, 5)
  BY <1>4, <1>a, <1>b
<1> HIDE DEF m5
<1>6. Upto(seven, m6, i, 6)
  BY <1>5, <1>a, <1>b
<1> HIDE DEF m6
<1>7. Upto(seven, m7, i, 7)
  BY <1>6, <1>a, <1>b
<1> HIDE DEF m7
<1> QED
  BY <1>0, <1>7

(* The first row begins with no cards, each other where the one before     *)
(* ended.                                                                  *)
LEMMA NextRow ==
  ASSUME NEW seven, NEW max, NEW i \in 1 .. 6, Upto(seven, max, i, 7)
  PROVE  Upto(seven, max, i + 1, 0)
<1> DEFINE C == PairsOut
           old == Done(i, 7)
           new == Done(i + 1, 0)
<1>1. \A c \in C : /\ c \in old <=> c[1] < i \/ (c[1] = i /\ c[2] <= 7)
                   /\ c \in new <=> c[1] < i + 1 \/ (c[1] = i + 1 /\ c[2] <= 0)
                   /\ c[1] \in 1 .. 7 /\ c[2] \in 1 .. 7
  BY DEF Done, PairsOut
<1>2. old \subseteq C /\ new \subseteq C
  BY DEF Done
<1>3. \A c \in C : c \in old <=> c \in new
  BY <1>1
<1>4. old = new
  BY <1>2, <1>3
<1>5. ~(i = 1 /\ 7 < 2) /\ ~(i + 1 = 1 /\ 0 < 2)
  OBVIOUS
<1> HIDE DEF old, new
<1> QED
  BY <1>4, <1>5 DEF Upto, old, new

(* In the end the best of all the choices is kept. *)
LEMMA BestIsKept ==
  ASSUME NEW seven, Comparable(seven)
  PROVE  Kept(seven, BestOf(seven), PairsOut)
<1> DEFINE m1 == Row(seven, NoCards, 1)
           m2 == Row(seven, m1, 2)
           m3 == Row(seven, m2, 3)
           m4 == Row(seven, m3, 4)
           m5 == Row(seven, m4, 5)
           m6 == Row(seven, m5, 6)
           m7 == Row(seven, m6, 7)
<1>0. BestOf(seven) = m7
  BY BestOfIs
<1>a. \A outer : \A i \in 1 .. 7 : Upto(seven, outer, i, 0) => Upto(seven, Row(seven, outer, i), i, 7)
  BY RowStep
<1>b. \A max : \A i \in 1 .. 6 : Upto(seven, max, i, 7) => Upto(seven, max, i + 1, 0)
  BY NextRow
<1>c. 1 + 1 = 2 /\ 2 + 1 = 3 /\ 3 + 1 = 4 /\ 4 + 1 = 5 /\ 5 + 1 = 6 /\ 6 + 1 = 7
  OBVIOUS
<1>1. Upto(seven, m1, 2, 0)
  <2>1. Upto(seven, NoCards, 1, 0)
    BY DEF Upto
  <2> QED
    BY <2>1, <1>a, <1>b, <1>c
<1> HIDE DEF m1
<1>2. Upto(seven, m2, 3, 0)
  BY <1>1, <1>a, <1>b, <1>c
<1> HIDE DEF m2
<1>3. Upto(seven, m3, 4, 0)
  BY <1>2, <1>a, <1>b, <1>c
<1> HIDE DEF m3
<1>4. Upto(seven, m4, 5, 0)
  BY <1>3, <1>a, <1>b, <1>c
<1> HIDE DEF m4
<1>5. Upto(seven, m5, 6, 0)
  BY <1>4, <1>a, <1>b, <1>c
<1> HIDE DEF m5
<1>6. Upto(seven, m6, 7, 0)
  BY <1>5, <1>a, <1>b, <1>c
<1> HIDE DEF m6
<1>7. Upto(seven, m7, 7, 7)
  BY <1>6, <1>a
<1>8. Done(7, 7) = PairsOut
  BY DEF Done, PairsOut
<1>9. Kept(seven, m7, Done(7, 7))
  BY <1>7 DEF Upto
<1> HIDE DEF m7
<1> QED
  BY <1>0, <1>8, <1>9

(* Five different points from the highest down are five points. *)
LEMMA FallingFive ==
  ASSUME NEW a, NEW b, NEW c, NEW d, NEW e, Points(a, b, c, d, e), Distribution(a, b, c, d, e) = 5,
         NEW k \in 1 .. 5
  PROVE  Falling({a, b, c, d, e})[k] \in Nat
<1> DEFINE O == Once(a, b, c, d, e)
           n == Bit(a \in O) + Bit(b \in O) + Bit(c \in O) + Bit(d \in O) + Bit(e \in O)
<1>1. O = {a, b, c, d, e}
  BY DEF Once, Points, Count, Bit, Distribution
<1>2. n = 5
  BY <1>1 DEF Bit
<1>3. \A i \in 1 .. n : Falling(O)[i] \in O
  BY FallingOnce
<1> HIDE DEF n, O
<1>4. Falling(O)[k] \in O
  BY <1>2, <1>3
<1>5. \A x \in O : x \in Nat
  BY <1>1 DEF Points
<1> QED
  BY <1>1, <1>4, <1>5

LEMMA StraightPlaces ==
  ASSUME NEW hand, Five(hand), Cardinality(PointsOf(hand)) = 5, NEW k \in 1 .. 5
  PROVE  IsStraight(hand).sortedCards[k] \in Nat
<1> DEFINE P == PointsOf(hand)
           m == Smallest(hand).min
           top == AceOnTop(hand)
           second == Smallest(hand).second
           record == IF top THEN (P \ {1}) \cup {14} ELSE P
           min == IF top THEN second ELSE m
           res == \A i \in 0 .. 4 : min + i \in record
           sorted == Falling(IF res THEN min .. min + 4 ELSE record)
<1>1. m \in P
  BY SmallestPoint
<1>2. PICK a \in 1 .. 13, b \in 1 .. 13, c \in 1 .. 13, d \in 1 .. 13, e \in 1 .. 13 :
        P = {a, b, c, d, e} /\ Distribution(a, b, c, d, e) = 5
  BY DifferentPoints
<1>3. IsStraight(hand) = [res |-> res, sortedCards |-> sorted]
  BY Zenon DEF IsStraight
<1>4. top <=> m = 1 /\ 2 \notin P /\ second = 10
  BY DEF AceOnTop
<1>5. P \subseteq 1 .. 13
  BY <1>2
<1> HIDE DEF P, m, top, second
<1>6. ASSUME res PROVE Falling(min .. min + 4)[k] \in Nat
  <2>1. min \in 1 .. 10
    <3>1. CASE top
      BY <1>4, <3>1
    <3>2. CASE ~top
      <4>1. m \in 1 .. 13
        BY <1>1, <1>5
      <4>2. m + 4 \in P
        BY <1>6, <3>2
      <4>3. m + 4 <= 13
        BY <1>5, <4>1, <4>2
      <4> QED
        BY <3>2, <4>1, <4>3
    <3> QED
      BY <3>1, <3>2
  <2> HIDE DEF min
  <2>2. min .. min + 4 = {min, min + 1, min + 2, min + 3, min + 4}
    BY <2>1
  <2>3. /\ Points(min, min + 1, min + 2, min + 3, min + 4)
        /\ Distribution(min, min + 1, min + 2, min + 3, min + 4) = 5
    BY <2>1 DEF Points, Distribution, Bit
  <2>4. Falling({min, min + 1, min + 2, min + 3, min + 4})[k] \in Nat
    BY <2>3, FallingFive
  <2> QED
    BY <2>2, <2>4
<1>7. Falling(record)[k] \in Nat
  <2>1. CASE ~top
    <3>1. Points(a, b, c, d, e) /\ Distribution(a, b, c, d, e) = 5
      BY <1>2 DEF Points
    <3>2. Falling({a, b, c, d, e})[k] \in Nat
      BY <3>1, FallingFive
    <3> QED
      BY <1>2, <2>1, <3>2
  <2>2. CASE top
    <3> DEFINE High14(x) == IF x = 1 THEN 14 ELSE x
               aa == High14(a)
               bb == High14(b)
               cc == High14(c)
               dd == High14(d)
               ee == High14(e)
    <3>1. 1 \in {a, b, c, d, e}
      BY <1>1, <1>2, <1>4, <2>2
    <3>2. Points(aa, bb, cc, dd, ee)
      BY DEF Points
    <3>3. Distribution(aa, bb, cc, dd, ee) = 5
      BY <1>2 DEF Distribution, Bit
    <3>4. \A x : x \in ({a, b, c, d, e} \ {1}) \cup {14} <=> x \in {aa, bb, cc, dd, ee}
      BY <3>1
    <3> HIDE DEF aa, bb, cc, dd, ee
    <3>5. Falling({aa, bb, cc, dd, ee})[k] \in Nat
      BY <3>2, <3>3, FallingFive
    <3>6. record = {aa, bb, cc, dd, ee}
      BY <1>2, <2>2, <3>4
    <3> HIDE DEF record
    <3> QED
      BY <3>5, <3>6
  <2> QED
    BY <2>1, <2>2
<1>8. sorted[k] \in Nat
  <2> HIDE DEF res, record, min
  <2> QED
    BY <1>6, <1>7
<1> HIDE DEF sorted, res
<1> QED
  BY <1>3, <1>8

(* What CalCardID gives any five cards can be compared. *)
LEMMA CodeId ==
  ASSUME NEW hand, Five(hand)
  PROVE  Id(CalCardID(hand))
<1> DEFINE n == Cardinality(PointsOf(hand))
<1>1. CASE n = 5
  <2> DEFINE straight == IsStraight(hand)
             level == LevelOfDifferent(straight, OneType(hand))
  <2>1. CalCardID(hand) = [level |-> level, sortedCards |-> straight.sortedCards]
    <3> DEFINE five == [level |-> level, sortedCards |-> straight.sortedCards]
    <3>1. CalCardID(hand) =
            CASE n = 5 -> five
              [] n = 4 -> SortPair(hand)
              [] n = 3 -> SortSitesTwoPair(hand)
              [] n = 2 -> SortBombFullHouse(hand)
              [] OTHER -> [level |-> None, sortedCards |-> <<0, 0, 0, 0, 0>>]
      BY Zenon DEF CalCardID, OneType
    <3> HIDE DEF five, n
    <3>2. CalCardID(hand) = five
      BY <1>1, <3>1
    <3> QED
      BY <3>2 DEF five
  <2>2. level \in Nat
    BY DEF LevelOfDifferent, None, High, Flush, Royal_Flush, Straight_Flush
  <2>3. /\ straight.sortedCards[1] \in Nat /\ straight.sortedCards[2] \in Nat
        /\ straight.sortedCards[3] \in Nat /\ straight.sortedCards[4] \in Nat
        /\ straight.sortedCards[5] \in Nat
    BY <1>1, StraightPlaces
  <2> HIDE DEF level, straight
  <2> QED
    BY <2>1, <2>2, <2>3 DEF Id
<1>2. CASE n # 5
  <2>1. ~LevelDeparts(hand) /\ ~OrderDeparts(hand)
    BY <1>2 DEF LevelDeparts, OrderDeparts, InARow
  <2>2. CalCardID(hand) = ByTheRules(hand)
    BY <2>1, FiveByRules
  <2> QED
    BY <2>2, RulesId
<1> QED
  BY <1>1, <1>2

(* Card.cpp:346-370 orders all the hands there are, whatever the levels    *)
(* and orders it is given: no hand is greater than itself, of two hands    *)
(* one is greater or both are equal, whichever is asked about first, and   *)
(* what is at least as good as a hand is at least as good as what that     *)
(* hand is at least as good as.  The ranks of the players at a showdown    *)
(* (HoldemGame, PotDivision) are such an order.                            *)
THEOREM HandsAreOrdered ==
  ASSUME NEW x, NEW y, NEW z, Five(x), Five(y), Five(z)
  PROVE  LET Compare(a, b) == CompareTwoSets(CalCardID(a), CalCardID(b))
         IN  /\ Compare(x, x) = 0
             /\ Compare(x, y) \in {0, 1, 2}
             /\ Compare(x, y) = 1 <=> Compare(y, x) = 2
             /\ Compare(x, y) # 2 /\ Compare(y, z) # 2 => Compare(x, z) # 2
<1> DEFINE a == CalCardID(x)
           b == CalCardID(y)
           c == CalCardID(z)
<1>1. Id(a) /\ Id(b) /\ Id(c)
  BY CodeId
<1>2. \A p, q : CompareTwoSets(p, q) \in {0, 1, 2}
  BY DEF CompareTwoSets
<1> HIDE DEF a, b, c
<1>3. /\ CompareTwoSets(a, a) = 1 <=> Greater(a, a)
      /\ CompareTwoSets(a, a) = 2 <=> Greater(a, a)
      /\ CompareTwoSets(a, b) = 1 <=> Greater(a, b)
      /\ CompareTwoSets(b, a) = 2 <=> Greater(a, b)
      /\ CompareTwoSets(a, b) = 2 <=> Greater(b, a)
      /\ CompareTwoSets(b, c) = 2 <=> Greater(c, b)
      /\ CompareTwoSets(a, c) = 2 <=> Greater(c, a)
  BY <1>1, CompareIs
<1>4. ~Greater(a, a) /\ (~Greater(b, a) /\ ~Greater(c, b) => ~Greater(c, a))
  BY ONLY <1>1 DEF Id, Greater, PlacesGreater, LaterGreater
<1> QED
  BY <1>2, <1>3, <1>4 DEF a, b, c

(* Two cards and up to five, all different, and what was calculated of     *)
(* them.                                                                   *)
DealtOut ==
  /\ handCards \in Seq(LegalCards) /\ Len(handCards) = 2
  /\ commonCards \in Seq(LegalCards) /\ Len(commonCards) <= 5
  /\ Distinct(handCards \o commonCards)
Calculated ==
  \/ maxCards = NoCards
  \/ Len(commonCards) = 5 /\ maxCards = BestOf(handCards \o commonCards)
Ranked == DealtOut /\ Calculated

LEMMA RankedInit == RankingInit => Ranked
<1> SUFFICES ASSUME RankingInit PROVE Ranked
  OBVIOUS
<1>1. PICK deal \in Deals : handCards = deal[1] /\ commonCards = deal[2]
  BY DEF RankingInit
<1> QED
  BY <1>1, HandRankingAssumption DEF RankingInit, Ranked, DealtOut, Calculated

LEMMA RankedNext == Ranked /\ [Calculate]_rankingVars => Ranked'
<1> SUFFICES ASSUME Ranked, [Calculate]_rankingVars PROVE Ranked'
  OBVIOUS
<1>1. CASE Calculate
  BY <1>1 DEF Calculate, Ranked, DealtOut, Calculated
<1>2. CASE UNCHANGED rankingVars
  BY <1>2 DEF rankingVars, Ranked, DealtOut, Calculated
<1> QED
  BY <1>1, <1>2

(* The cards of a deal, and the common ones by themselves. *)
LEMMA DealtCards ==
  ASSUME DealtOut, Len(commonCards) = 5
  PROVE  Seven(handCards \o commonCards) /\ Five(commonCards)
<1> DEFINE S == LegalCards
           h == handCards
           c == commonCards
<1>1. h \in Seq(S) /\ c \in Seq(S) /\ Len(h) = 2 /\ Len(c) = 5
  BY DEF DealtOut
<1> HIDE DEF S
<1>2. /\ h \o c \in Seq(S) /\ Len(h \o c) = 7
      /\ \A k \in 1 .. 5 : (h \o c)[k + 2] = c[k]
  <2>1. h \in Seq(S) /\ c \in Seq(S)
    BY <1>1
  <2> HIDE DEF h, c
  <2>2. /\ h \o c \in Seq(S) /\ Len(h \o c) = Len(h) + Len(c)
        /\ \A k \in 1 .. Len(c) : (h \o c)[k + Len(h)] = c[k]
    BY ONLY <2>1
  <2> QED
    BY <1>1, <2>2
<1>3. Distinct(h \o c)
  BY DEF DealtOut
<1>4. DOMAIN c = 1 .. 5 /\ DOMAIN (h \o c) = 1 .. 7
  BY <1>1, <1>2
<1> HIDE DEF h, c
<1>5. ASSUME NEW i \in 1 .. 5, NEW j \in 1 .. 5, c[i] = c[j] PROVE i = j
  <2>1. i + 2 \in 1 .. 7 /\ j + 2 \in 1 .. 7 /\ (h \o c)[i + 2] = (h \o c)[j + 2]
    <3>1. (h \o c)[i + 2] = c[i] /\ (h \o c)[j + 2] = c[j]
      BY <1>2
    <3> QED
      BY <1>5, <3>1
  <2>2. i + 2 = j + 2
    BY <1>3, <1>4, <2>1 DEF Distinct
  <2> QED
    BY <2>2
<1>6. Distinct(c)
  BY <1>4, <1>5 DEF Distinct
<1> QED
  BY <1>1, <1>2, <1>3, <1>6 DEF Seven, Five, S, h, c

(* In whatever order five different cards come they get the level of the   *)
(* rules, and their points in the order of the rules, but for the straights*)
(* and the aces that LevelDeparts and OrderDeparts name                    *)
(* (Card.cpp:61-71, 88-94, 97-176, 296-343).                               *)
THEOREM FiveByTheRulesEver == RankingSpec => []FiveByTheRules
<1>1. RankingInit => Ranked
  BY RankedInit
<1>2. Ranked /\ [Calculate]_rankingVars => Ranked'
  BY RankedNext
<1>3. Ranked => FiveByTheRules
  <2> SUFFICES ASSUME Ranked, Len(commonCards) = 5, ~LevelDeparts(commonCards)
               PROVE  LET id == CalCardID(commonCards)
                      IN  /\ id.level = RuleLevel(commonCards)
                          /\ ~OrderDeparts(commonCards) => id.sortedCards = RuleOrder(commonCards)
    BY DEF FiveByTheRules
  <2>1. Five(commonCards)
    BY DealtCards DEF Ranked
  <2> QED
    BY <2>1, FiveByRules
<1> QED
  BY <1>1, <1>2, <1>3, PTL DEF RankingSpec

(* Of seven different cards a player keeps five that no other five of them *)
(* beat by the rules, if none of the choices is one of those straights or  *)
(* has one of those aces (PokerPlayer.cpp:97-119, Card.cpp:15-53).         *)
THEOREM BestByTheRulesEver == RankingSpec => []BestByTheRules
<1>1. RankingInit => Ranked
  BY RankedInit
<1>2. Ranked /\ [Calculate]_rankingVars => Ranked'
  BY RankedNext
<1>3. Ranked => BestByTheRules
  <2> DEFINE seven == handCards \o commonCards
             fives == {Without(seven, out[1], out[2]) : out \in PairsOut}
  <2> SUFFICES ASSUME Ranked, maxCards # NoCards,
                      \A hand \in fives : ~LevelDeparts(hand) /\ ~OrderDeparts(hand)
               PROVE  /\ maxCards \in {ByTheRules(hand) : hand \in fives}
                      /\ \A hand \in fives : CompareTwoSets(ByTheRules(hand), maxCards) # 1
    BY Zenon DEF BestByTheRules, PairsOut
  <2>1. Len(commonCards) = 5 /\ maxCards = BestOf(seven)
    BY DEF Ranked, Calculated
  <2>2. Seven(seven)
    BY <2>1, DealtCards DEF Ranked
  <2> HIDE DEF seven
  <2>3. ASSUME NEW o \in PairsOut
        PROVE  Made(seven, o) = ByTheRules(Without(seven, o[1], o[2])) /\ Id(Made(seven, o))
    <3> DEFINE hand == Without(seven, o[1], o[2])
    <3>1. o[1] \in 1 .. 7 /\ o[2] \in 1 .. 7 /\ o[1] < o[2]
      BY DEF PairsOut
    <3>2. Five(hand)
      BY <2>2, <3>1, WithoutIsFive
    <3>3. hand \in fives
      OBVIOUS
    <3>4. ~LevelDeparts(hand) /\ ~OrderDeparts(hand)
      BY <3>3
    <3>5. Made(seven, o) = CalCardID(hand)
      BY DEF Made
    <3> HIDE DEF hand, fives
    <3> QED
      BY <3>2, <3>4, <3>5, FiveByRules, RulesId DEF hand
  <2>4. PICK best \in PairsOut :
          maxCards = Made(seven, best) /\ \A o \in PairsOut : ~Greater(Made(seven, o), maxCards)
    <3>1. Kept(seven, BestOf(seven), PairsOut)
      BY <2>3, BestIsKept DEF Comparable
    <3> QED
      BY <2>1, <3>1 DEF Kept
  <2>5. maxCards \in {ByTheRules(hand) : hand \in fives}
    BY <2>3, <2>4
  <2>6. ASSUME NEW hand \in fives PROVE CompareTwoSets(ByTheRules(hand), maxCards) # 1
    <3>1. PICK o \in PairsOut : hand = Without(seven, o[1], o[2])
      BY <2>6
    <3>2. ByTheRules(hand) = Made(seven, o)
      BY <2>3, <3>1
    <3>3. Id(Made(seven, o)) /\ Id(maxCards) /\ ~Greater(Made(seven, o), maxCards)
      BY <2>3, <2>4
    <3> QED
      BY <3>2, <3>3, CompareIs
  <2> QED
    BY <2>5, <2>6
<1> QED
  BY <1>1, <1>2, <1>3, PTL DEF RankingSpec
(* Of seven different cards a player keeps five that CompareTwoSets finds  *)
(* no other five of them greater than: whatever the cards, straights and   *)
(* aces too (PokerPlayer.cpp:97-119).                                      *)
KeepsGreatest ==
  LET made == {CalCardID(Without(handCards \o commonCards, o[1], o[2])) : o \in PairsOut}
  IN  maxCards # NoCards =>
        maxCards \in made /\ \A id \in made : CompareTwoSets(id, maxCards) # 1

THEOREM KeepsGreatestEver == RankingSpec => []KeepsGreatest
<1>1. RankingInit => Ranked
  BY RankedInit
<1>2. Ranked /\ [Calculate]_rankingVars => Ranked'
  BY RankedNext
<1>3. Ranked => KeepsGreatest
  <2> DEFINE seven == handCards \o commonCards
             made == {CalCardID(Without(seven, o[1], o[2])) : o \in PairsOut}
  <2> SUFFICES ASSUME Ranked, maxCards # NoCards
               PROVE  maxCards \in made /\ \A id \in made : CompareTwoSets(id, maxCards) # 1
    BY Zenon DEF KeepsGreatest
  <2>1. Len(commonCards) = 5 /\ maxCards = BestOf(seven)
    BY DEF Ranked, Calculated
  <2>2. Seven(seven)
    BY <2>1, DealtCards DEF Ranked
  <2> HIDE DEF seven
  <2>3. ASSUME NEW o \in PairsOut PROVE Id(Made(seven, o))
    <3>1. o[1] \in 1 .. 7 /\ o[2] \in 1 .. 7 /\ o[1] < o[2]
      BY DEF PairsOut
    <3>2. Five(Without(seven, o[1], o[2]))
      BY <2>2, <3>1, WithoutIsFive
    <3> QED
      BY <3>2, CodeId DEF Made
  <2>4. PICK best \in PairsOut :
          maxCards = Made(seven, best) /\ \A o \in PairsOut : ~Greater(Made(seven, o), maxCards)
    <3>1. Kept(seven, BestOf(seven), PairsOut)
      BY <2>3, BestIsKept DEF Comparable
    <3> QED
      BY <2>1, <3>1 DEF Kept
  <2>5. maxCards \in made
    BY <2>4 DEF Made
  <2>6. ASSUME NEW id \in made PROVE CompareTwoSets(id, maxCards) # 1
    <3>1. PICK o \in PairsOut : id = Made(seven, o)
      BY <2>6 DEF Made
    <3>2. Id(Made(seven, o)) /\ Id(maxCards) /\ ~Greater(Made(seven, o), maxCards)
      BY <2>3, <2>4
    <3> QED
      BY <3>1, <3>2, CompareIs
  <2> QED
    BY <2>5, <2>6
<1> QED
  BY <1>1, <1>2, <1>3, PTL DEF RankingSpec

(* Card.cpp:303-318: every straight of several types, unless it is ten to  *)
(* ace, is left without a level, which ranks it below a high card.         *)
THEOREM StraightsHaveNoLevel ==
  ASSUME NEW hand, Five(hand), InARow(hand), ~OneType(hand), ~({1, 13} \subseteq PointsOf(hand))
  PROVE  CalCardID(hand).level = None
<1> DEFINE P == PointsOf(hand)
           m == Smallest(hand).min
           top == AceOnTop(hand)
           straight == IsStraight(hand)
<1>1. Cardinality(P) = 5
  BY DEF InARow
<1>2. m \in P /\ \A x \in P : m <= x
  BY SmallestPoint
<1>3. m \in 1 .. 9 /\ P = m .. m + 4
  BY <1>1, <1>2, RowByRules
<1>4. ~top
  BY <1>3 DEF AceOnTop
<1>5. straight.res
  <2> DEFINE min == IF top THEN Smallest(hand).second ELSE m
             record == IF top THEN (P \ {1}) \cup {14} ELSE P
  <2>1. straight.res = \A i \in 0 .. 4 : min + i \in record
    BY DEF IsStraight
  <2>2. min = m /\ record = P
    BY <1>4
  <2>3. \A i \in 0 .. 4 : m + i \in P
    BY <1>3
  <2> HIDE DEF straight, min, record, P, m
  <2> QED
    BY <2>1, <2>2, <2>3
<1>6. CalCardID(hand).level = LevelOfDifferent(straight, OneType(hand))
  <2>1. CalCardID(hand) =
          CASE Cardinality(P) = 5 -> [level |-> LevelOfDifferent(straight, OneType(hand)),
                                      sortedCards |-> straight.sortedCards]
            [] Cardinality(P) = 4 -> SortPair(hand)
            [] Cardinality(P) = 3 -> SortSitesTwoPair(hand)
            [] Cardinality(P) = 2 -> SortBombFullHouse(hand)
            [] OTHER -> [level |-> None, sortedCards |-> <<0, 0, 0, 0, 0>>]
    BY Zenon DEF CalCardID, OneType
  <2> HIDE DEF straight, P
  <2> QED
    BY <1>1, <2>1
<1> HIDE DEF straight
<1> QED
  BY <1>5, <1>6 DEF LevelOfDifferent

-----------------------------------------------------------------------------
Holds(i, card) == ConfigFile[i].min <= card /\ card <= ConfigFile[i].max

(* What the description must be like: it is read, no two ranges have one   *)
(* type, and every number that is drawn lies in exactly one.               *)
SoundFile ==
  /\ AssertsCompiled /\ ConfigFile # <<>>
  /\ \A i \in DOMAIN ConfigFile : ConfigFile[i].type # Cover
  /\ \A i, j \in DOMAIN ConfigFile : ConfigFile[i].type = ConfigFile[j].type => i = j
  /\ \A card \in 0 .. CardNum - 2 :
       \E i \in DOMAIN ConfigFile :
         Holds(i, card) /\ \A j \in DOMAIN ConfigFile : Holds(j, card) => j = i

(* What every step keeps: the cards drawn are the looks of the numbers     *)
(* drawn, none of them the pack's last.                                    *)
Looks ==
  /\ config = ConfigFile /\ rand \in Nat
  /\ generated \subseteq 0 .. CardNum - 2
  /\ cards \in Seq([type : Nat, point : Int])
  /\ \A i \in DOMAIN cards : \E card \in generated : cards[i] = ParseCard(card)
  /\ NoTwoAlike

(* A number's look: the type of its range and its place in it. *)
LEMMA Look ==
  ASSUME SoundFile, config = ConfigFile, NEW card \in 0 .. CardNum - 2
  PROVE  \E i \in DOMAIN ConfigFile :
           /\ Holds(i, card)
           /\ ParseCard(card) = [type |-> ConfigFile[i].type, point |-> card - ConfigFile[i].min + 1]
<1> DEFINE holds == {i \in DOMAIN config : config[i].min <= card /\ card <= config[i].max}
<1>1. PICK i \in DOMAIN ConfigFile :
        Holds(i, card) /\ \A j \in DOMAIN ConfigFile : Holds(j, card) => j = i
  BY DEF SoundFile
<1>2. holds = {i}
  BY <1>1 DEF Holds
<1>3. i <= i
  BY <1>1, DeckAssumption
<1>4. (CHOOSE l \in holds : \A j \in holds : j <= l) = i
  <2> HIDE DEF holds
  <2> QED
    BY <1>2, <1>3
<1> QED
  BY <1>1, <1>2, <1>4 DEF ParseCard

(* Different numbers look different, and like a card. *)
LEMMA LooksDiffer ==
  ASSUME SoundFile, config = ConfigFile, NEW a \in 0 .. CardNum - 2, NEW b \in 0 .. CardNum - 2
  PROVE  /\ ParseCard(a) \in [type : Nat, point : Int] /\ ParseCard(a).type # Cover
         /\ ParseCard(a) = ParseCard(b) => a = b
<1>1. PICK i \in DOMAIN ConfigFile :
        ParseCard(a) = [type |-> ConfigFile[i].type, point |-> a - ConfigFile[i].min + 1]
  BY Look
<1>2. PICK j \in DOMAIN ConfigFile :
        ParseCard(b) = [type |-> ConfigFile[j].type, point |-> b - ConfigFile[j].min + 1]
  BY Look
<1>3. /\ ConfigFile[i].type \in Nat /\ ConfigFile[i].min \in Nat /\ ConfigFile[i].type # Cover
      /\ ConfigFile[j].min \in Nat
  <2> DEFINE R == [min : Nat, max : Nat, type : Nat]
  <2>1. ConfigFile \in Seq(R)
    BY DeckAssumption
  <2> HIDE DEF R
  <2>2. ConfigFile[i] \in R /\ ConfigFile[j] \in R
    BY <2>1
  <2> QED
    BY <2>2 DEF SoundFile, R
<1>4. ASSUME ParseCard(a) = ParseCard(b) PROVE a = b
  <2>1. ConfigFile[i].type = ConfigFile[j].type
        /\ a - ConfigFile[i].min + 1 = b - ConfigFile[j].min + 1
    BY <1>1, <1>2, <1>4
  <2>2. i = j
    BY <2>1 DEF SoundFile
  <2> QED
    BY <2>1, <2>2, <1>3
<1> QED
  BY <1>1, <1>3, <1>4

(* An empty hand out of a full pack. *)
LEMMA LooksInit == SoundFile /\ Init => Looks
<1> SUFFICES ASSUME SoundFile, Init PROVE Looks
  OBVIOUS
<1>1. config = ConfigFile
  BY DEF SoundFile, Init, GenParseConfig
<1>2. rand \in Nat
  BY DeckAssumption DEF Init
<1>3. generated = {} /\ cards = <<>> /\ DOMAIN <<>> = {}
  BY DEF Init
<1> QED
  BY <1>1, <1>2, <1>3 DEF Looks, NoTwoAlike

(* The number of a draw was not drawn before in this hand. *)
LEMMA LooksDraw ==
  ASSUME SoundFile, Looks, GenerateOneCard
  PROVE  Looks'
<1> DEFINE card == RandomInt(0, CardNum - 1)
<1>1. card \in 0 .. CardNum - 2
  <2> DEFINE k == CardNum - 1
  <2>1. k \in Nat \ {0} /\ CardNum - 2 = k - 1
    BY DeckAssumption
  <2> HIDE DEF k
  <2>2. rand % k \in 0 .. k - 1
    BY <2>1 DEF Looks
  <2>3. k - 0 = k
    BY <2>1
  <2>4. rand % (k - 0) = rand % k
    BY <2>3, Zenon
  <2> DEFINE m == rand % k
  <2>5. m \in Nat
    BY <2>1, <2>2
  <2> HIDE DEF m
  <2>6. 0 + m = m
    BY <2>5
  <2>7. RandomInt(0, CardNum - 1) = m
    BY <2>4, <2>6, Zenon DEF RandomInt, m, k
  <2> QED
    BY <2>1, <2>2, <2>7, Zenon DEF m, k
<1>2. Cardinality(generated) # CardNum
  <2>1. CardNum \in Nat /\ CardNum - 2 \in Nat /\ CardNum - 2 - 0 + 1 = CardNum - 1 /\ CardNum - 1 < CardNum
    BY DeckAssumption
  <2>2. IsFiniteSet(0 .. CardNum - 2) /\ Cardinality(0 .. CardNum - 2) = CardNum - 1
    BY <2>1, FS_Interval
  <2>3. Cardinality(generated) <= CardNum - 1 /\ Cardinality(generated) \in Nat
    BY <2>2, FS_Subset, FS_CardinalityType DEF Looks
  <2> QED
    BY <2>1, <2>3
<1>3. card \notin generated /\ Take(card) /\ rand' = rand /\ config' = config
  BY <1>2 DEF GenerateOneCard
<1> HIDE DEF card
<1> DEFINE look == ParseCard(card)
           n == Len(cards)
<1>4. generated' = generated \cup {card} /\ cards' = Append(cards, look)
  BY <1>3 DEF Take
<1>5. look \in [type : Nat, point : Int] /\ look.type # Cover
  BY <1>1, LooksDiffer DEF Looks
<1>6. \A i \in DOMAIN cards : cards[i] # look
  <2> SUFFICES ASSUME NEW i \in DOMAIN cards PROVE cards[i] # look
    OBVIOUS
  <2>1. PICK old \in generated : cards[i] = ParseCard(old)
    BY DEF Looks
  <2>2. old \in 0 .. CardNum - 2 /\ old # card /\ config = ConfigFile
    BY <1>3 DEF Looks
  <2>3. ParseCard(old) = ParseCard(card) => old = card
    BY <1>1, <2>2, LooksDiffer
  <2> QED
    BY <2>1, <2>2, <2>3
<1> HIDE DEF look
<1>7. /\ n \in Nat /\ DOMAIN cards = 1 .. n /\ DOMAIN cards' = 1 .. n + 1
      /\ cards'[n + 1] = look /\ \A i \in 1 .. n : cards'[i] = cards[i]
      /\ cards' \in Seq([type : Nat, point : Int])
  BY <1>4, <1>5 DEF Looks
<1> HIDE DEF n
<1>8. \A i \in 1 .. n + 1 : i \in 1 .. n \/ i = n + 1
  BY <1>7
<1>9. \A c : ParseCard(c)' = ParseCard(c)
  BY <1>3 DEF ParseCard
<1>10. \A i \in DOMAIN cards' : \E c \in generated' : cards'[i] = ParseCard(c)'
  <2>1. look = ParseCard(card) /\ card \in generated'
    BY <1>4 DEF look
  <2> QED
    BY <1>4, <1>7, <1>8, <1>9, <2>1 DEF Looks
<1>11. NoTwoAlike'
  <2> SUFFICES ASSUME NEW i \in 1 .. n + 1, NEW j \in 1 .. n + 1
               PROVE  cards'[i].type # Cover /\ (cards'[i] = cards'[j] => i = j)
    BY <1>7 DEF NoTwoAlike
  <2> QED
    BY <1>5, <1>6, <1>7, <1>8 DEF Looks, NoTwoAlike
<1> QED
  BY <1>1, <1>3, <1>4, <1>7, <1>10, <1>11 DEF Looks

(* A new hand, a new second, and nothing. *)
LEMMA LooksNext ==
  ASSUME SoundFile, Looks, [Next]_vars
  PROVE  Looks'
<1>1. CASE GenerateOneCard
  BY <1>1, LooksDraw
<1>2. CASE Shuffle
  BY <1>2 DEF Shuffle, Looks, NoTwoAlike
<1>3. CASE \E r \in Rands : NextSecond(r)
  <2>1. rand' \in Nat /\ UNCHANGED <<generated, cards, config>>
    BY <1>3, DeckAssumption DEF NextSecond
  <2>2. \A c : ParseCard(c)' = ParseCard(c)
    BY <2>1 DEF ParseCard
  <2> QED
    BY <2>1, <2>2 DEF Looks, NoTwoAlike
<1>4. CASE UNCHANGED vars
  <2>1. UNCHANGED <<rand, generated, cards, config>>
    BY <1>4 DEF vars
  <2>2. \A c : ParseCard(c)' = ParseCard(c)
    BY <2>1 DEF ParseCard
  <2> QED
    BY <2>1, <2>2 DEF Looks, NoTwoAlike
<1> QED
  BY <1>1, <1>2, <1>3, <1>4 DEF Next

(* No two cards of a hand look alike, and each is a card, whatever pack    *)
(* the file describes soundly and whatever rand() gives                    *)
(* (Card.cpp:252-256, 269-293).                                            *)
THEOREM NoTwoAlikeEver ==
  ASSUME SoundFile
  PROVE  Spec => []NoTwoAlike
<1>1. Init => Looks
  BY LooksInit
<1>2. Looks /\ [Next]_vars => Looks'
  BY LooksNext
<1>3. Looks => NoTwoAlike
  BY DEF Looks
<1> QED
  BY <1>1, <1>2, <1>3, PTL DEF Spec

(* A description whose numbers make cards of the four types, up to 13 of   *)
(* each.                                                                   *)
LegalFile ==
  \A card \in 0 .. CardNum - 2 : \A i \in DOMAIN ConfigFile :
    Holds(i, card) => ConfigFile[i].type \in 1 .. 4 /\ card - ConfigFile[i].min + 1 <= 13

LegalDeal == cards \in Seq(LegalCards) /\ Distinct(cards)

(* The cards of a hand are of the kind that the ranking assumes: legal     *)
(* ones, none twice (Card.cpp:241-265, 284-294).                           *)
THEOREM DealsAreLegal ==
  ASSUME SoundFile, LegalFile
  PROVE  Spec => []LegalDeal
<1>1. Init => Looks
  BY LooksInit
<1>2. Looks /\ [Next]_vars => Looks'
  BY LooksNext
<1>3. Looks => LegalDeal
  <2> SUFFICES ASSUME Looks PROVE LegalDeal
    OBVIOUS
  <2>1. ASSUME NEW k \in DOMAIN cards PROVE cards[k] \in LegalCards
    <3>1. PICK card \in generated : cards[k] = ParseCard(card)
      BY DEF Looks
    <3>2. card \in 0 .. CardNum - 2 /\ config = ConfigFile
      BY DEF Looks
    <3>3. PICK i \in DOMAIN ConfigFile :
            /\ Holds(i, card)
            /\ ParseCard(card) = [type |-> ConfigFile[i].type, point |-> card - ConfigFile[i].min + 1]
      BY <3>2, Look
    <3>4. /\ ConfigFile[i].type \in 1 .. 4 /\ card - ConfigFile[i].min + 1 <= 13
          /\ ConfigFile[i].min <= card
      BY <3>2, <3>3 DEF LegalFile, Holds
    <3>5. ConfigFile[i].min \in Nat
      <4> DEFINE R == [min : Nat, max : Nat, type : Nat]
      <4>1. ConfigFile \in Seq(R)
        BY DeckAssumption
      <4> HIDE DEF R
      <4>2. ConfigFile[i] \in R
        BY <4>1
      <4> QED
        BY <4>2 DEF R
    <3> DEFINE min == ConfigFile[i].min
    <3>6. min \in Nat /\ card \in Nat /\ min <= card /\ card - min + 1 <= 13
      BY <3>2, <3>4, <3>5, DeckAssumption
    <3> HIDE DEF min
    <3>7. card - min + 1 \in 1 .. 13
      BY ONLY <3>6
    <3> QED
      BY <3>1, <3>3, <3>4, <3>7 DEF LegalCards, min
  <2>2. cards \in Seq(LegalCards)
    <3> DEFINE R == [type : Nat, point : Int]
               S == LegalCards
    <3>1. cards \in Seq(R)
      BY DEF Looks
    <3> HIDE DEF R, S
    <3>2. Len(cards) \in Nat /\ cards = [k \in 1 .. Len(cards) |-> cards[k]] /\ DOMAIN cards = 1 .. Len(cards)
      BY <3>1
    <3>3. [k \in 1 .. Len(cards) |-> cards[k]] \in Seq(S)
      BY <2>1, <3>2 DEF S
    <3> QED
      BY <3>2, <3>3, Zenon DEF S
  <2>3. Distinct(cards)
    BY DEF Looks, NoTwoAlike, Distinct
  <2> QED
    BY <2>2, <2>3 DEF LegalDeal
<1> QED
  BY <1>1, <1>2, <1>3, PTL DEF Spec
=============================================================================

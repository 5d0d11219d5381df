----------------------------- MODULE PotProofs -----------------------------
(***************************************************************************)
(* What chip arithmetic and Dispatch return, for every number of seats and *)
(* every width of the counters: proofs about module Pot.                   *)
(*                                                                         *)
(* First sums, then what kind of thing each operator returns, then what    *)
(* becomes of the chips of a pot (DispatchWhole), and last sums of         *)
(* counters that may wrap.                                                 *)
(*                                                                         *)
(* Inductions are over a least counterexample, found by WFMin.             *)
(***************************************************************************)
EXTENDS Pot, FiniteSetTheorems, WellFoundedInduction, TLAPS

(* A set of numbers that is not empty has a least element. *)
LEMMA LeastNumber ==
  ASSUME NEW T \in SUBSET Nat, T # {}
  PROVE  \E x \in T : \A y \in T : x =< y
<1>1. IsWellFoundedOn(OpToRel(<, Nat), Nat)
  BY NatLessThanWellFounded
<1>2. PICK x \in T : \A y \in T : ~ (<<y, x>> \in OpToRel(<, Nat))
  BY <1>1, WFMin
<1>3. \A y \in T : ~ (y < x)
  <2> SUFFICES ASSUME NEW y \in T, y < x PROVE FALSE
    OBVIOUS
  <2>1. <<y, x>> \in Nat \X Nat /\ <<y, x>>[1] = y /\ <<y, x>>[2] = x
    OBVIOUS
  <2>2. <<y, x>> \in OpToRel(<, Nat)
    BY <2>1, Zenon DEF OpToRel
  <2> QED
    BY <1>2, <2>2
<1> QED
  BY <1>3

(* What SumTo computes: nothing at first, then one more value at a time.   *)
LEMMA SumToStep ==
  ASSUME NEW f
  PROVE  /\ SumTo(f, 0) = 0
         /\ \A n \in Nat : SumTo(f, n + 1) = SumTo(f, n) + f[n]
<1> DEFINE Is(g, m) == g = [k \in 0 .. m |-> IF k = 0 THEN 0 ELSE g[k - 1] + f[k - 1]]
           Bad == {m \in Nat : ~ \E g : Is(g, m)}
<1>1. Bad = {}
  <2> SUFFICES ASSUME Bad # {} PROVE FALSE
    OBVIOUS
  <2>1. PICK m \in Bad : \A k \in Bad : m =< k
    BY LeastNumber
  <2>2. CASE m = 0
    <3>1. Is([n \in 0 .. 0 |-> 0], 0)
      OBVIOUS
    <3> QED
      BY <2>1, <2>2, <3>1
  <2>3. CASE m # 0
    <3>0. m \in Nat /\ m - 1 \in Nat
      BY <2>1, <2>3
    <3>1. m - 1 \in Nat /\ m - 1 \notin Bad
      <4> HIDE DEF Bad
      <4> QED
        BY <2>1, <3>0
    <3>2. PICK g : Is(g, m - 1)
      BY <3>1
    <3> DEFINE h == [n \in 0 .. m |-> IF n = m THEN g[m - 1] + f[m - 1] ELSE g[n]]
    <3>3. \A n \in 0 .. m : h[n] = IF n = 0 THEN 0 ELSE h[n - 1] + f[n - 1]
      <4> TAKE n \in 0 .. m
      <4>1. CASE n = m
        BY <3>0, <2>3, <4>1
      <4>2. CASE n # m
        <5>1. n \in 0 .. (m - 1) /\ h[n] = g[n]
          BY <3>0, <4>2
        <5>2. g[n] = IF n = 0 THEN 0 ELSE g[n - 1] + f[n - 1]
          BY <3>2, <5>1
        <5>3. n # 0 => h[n - 1] = g[n - 1]
          BY <3>0, <5>1
        <5> QED
          BY <5>1, <5>2, <5>3
      <4> QED
        BY <4>1, <4>2
    <3>4. Is(h, m)
      BY <3>3
    <3> QED
      BY <2>1, <3>4
  <2> QED
    BY <2>2, <2>3
<1> DEFINE G(m) == CHOOSE g : Is(g, m)
<1>2. \A m \in Nat : Is(G(m), m)
  BY <1>1
<1>3. \A m \in Nat : SumTo(f, m) = G(m)[m]
  BY DEF SumTo
<1> HIDE DEF G
<1>4. \A m \in Nat : \A k \in 0 .. m : G(m)[k] = IF k = 0 THEN 0 ELSE G(m)[k - 1] + f[k - 1]
  <2> TAKE m \in Nat
  <2>1. Is(G(m), m)
    BY <1>2
  <2> QED
    BY <2>1
<1>5. ASSUME NEW n \in Nat
      PROVE  G(n + 1)[n] = G(n)[n]
  <2> DEFINE Differ == {k \in Nat : k =< n /\ G(n + 1)[k] # G(n)[k]}
  <2>1. Differ = {}
    <3> SUFFICES ASSUME Differ # {} PROVE FALSE
      OBVIOUS
    <3>1. PICK k \in Differ : \A j \in Differ : k =< j
      BY LeastNumber
    <3>2. k \in 0 .. n /\ k \in 0 .. n + 1 /\ G(n + 1)[k] # G(n)[k]
      BY <3>1
    <3>3. k # 0
      BY <1>4, <3>2
    <3>4. k - 1 \in Nat /\ k - 1 =< n /\ k - 1 \notin Differ
      BY <3>1, <3>2, <3>3
    <3>5. G(n + 1)[k - 1] = G(n)[k - 1]
      BY <3>4
    <3>6. /\ G(n + 1)[k] = G(n + 1)[k - 1] + f[k - 1]
          /\ G(n)[k] = G(n)[k - 1] + f[k - 1]
      BY <1>4, <3>2, <3>3
    <3> QED
      BY <3>2, <3>5, <3>6
  <2> QED
    BY <2>1
<1>6. SumTo(f, 0) = 0
  BY <1>3, <1>4
<1>7. ASSUME NEW n \in Nat
      PROVE  SumTo(f, n + 1) = SumTo(f, n) + f[n]
  <2>1. n + 1 \in Nat /\ n + 1 \in 0 .. n + 1 /\ n + 1 # 0 /\ (n + 1) - 1 = n
    OBVIOUS
  <2>2. G(n + 1)[n + 1] = G(n + 1)[n] + f[n]
    BY <1>4, <2>1
  <2> QED
    BY <1>3, <1>5, <2>1, <2>2
<1> QED
  BY <1>6, <1>7

(* Induction up to n, for the members of a set. *)
LEMMA UpTo ==
  ASSUME NEW n \in Nat, NEW S, 0 \in S, \A k \in 0 .. n - 1 : k \in S => k + 1 \in S
  PROVE  n \in S
<1> DEFINE Out == {k \in Nat : k =< n /\ k \notin S}
<1>1. Out = {}
  <2> SUFFICES ASSUME Out # {} PROVE FALSE
    OBVIOUS
  <2>1. PICK k \in Out : \A j \in Out : k =< j
    BY LeastNumber
  <2>2. k \in Nat /\ k =< n /\ k \notin S /\ k # 0
    BY <2>1
  <2>3. k - 1 \in 0 .. n - 1 /\ k - 1 \notin Out
    BY <2>1, <2>2
  <2>4. k - 1 \in S
    BY <2>3
  <2> QED
    BY <2>2, <2>3, <2>4
<1> QED
  BY <1>1

(* Sums of integers are integers, of naturals naturals.                    *)
LEMMA SumToType ==
  ASSUME NEW n \in Nat, NEW f
  PROVE  /\ (\A k \in 0 .. n - 1 : f[k] \in Int) => SumTo(f, n) \in Int
         /\ (\A k \in 0 .. n - 1 : f[k] \in Nat) => SumTo(f, n) \in Nat
<1>1. ASSUME \A k \in 0 .. n - 1 : f[k] \in Int
      PROVE  SumTo(f, n) \in Int
  <2> DEFINE S == {k \in 0 .. n : SumTo(f, k) \in Int}
  <2>1. 0 \in S
    BY SumToStep
  <2>2. ASSUME NEW k \in 0 .. n - 1, k \in S PROVE k + 1 \in S
    BY <1>1, <2>2, SumToStep
  <2> HIDE DEF S
  <2>3. n \in S
    BY <2>1, <2>2, UpTo
  <2> QED
    BY <2>3 DEF S
<1>2. ASSUME \A k \in 0 .. n - 1 : f[k] \in Nat
      PROVE  SumTo(f, n) \in Nat
  <2> DEFINE S == {k \in 0 .. n : SumTo(f, k) \in Nat}
  <2>1. 0 \in S
    BY SumToStep
  <2>2. ASSUME NEW k \in 0 .. n - 1, k \in S PROVE k + 1 \in S
    BY <1>2, <2>2, SumToStep
  <2> HIDE DEF S
  <2>3. n \in S
    BY <2>1, <2>2, UpTo
  <2> QED
    BY <2>3 DEF S
<1> QED
  BY <1>1, <1>2

(* The sum of two columns is the sum of their sums.                        *)
LEMMA SumToPlus ==
  ASSUME NEW n \in Nat, NEW f, NEW g, NEW h,
         \A k \in 0 .. n - 1 : f[k] \in Int /\ g[k] \in Int /\ h[k] = f[k] + g[k]
  PROVE  SumTo(h, n) = SumTo(f, n) + SumTo(g, n)
<1> DEFINE S == {k \in 0 .. n : SumTo(f, k) \in Int /\ SumTo(g, k) \in Int
                                 /\ SumTo(h, k) = SumTo(f, k) + SumTo(g, k)}
<1>1. 0 \in S
  BY SumToStep
<1>2. ASSUME NEW k \in 0 .. n - 1, k \in S PROVE k + 1 \in S
  <2>1. /\ SumTo(f, k + 1) = SumTo(f, k) + f[k]
        /\ SumTo(g, k + 1) = SumTo(g, k) + g[k]
        /\ SumTo(h, k + 1) = SumTo(h, k) + h[k]
    BY SumToStep
  <2>2. f[k] \in Int /\ g[k] \in Int /\ h[k] = f[k] + g[k]
    OBVIOUS
  <2>3. SumTo(f, k) \in Int /\ SumTo(g, k) \in Int /\ SumTo(h, k) = SumTo(f, k) + SumTo(g, k)
    BY <1>2
  <2> QED
    BY <2>1, <2>2, <2>3
<1> HIDE DEF S
<1>3. n \in S
  BY <1>1, <1>2, UpTo
<1> QED
  BY <1>3 DEF S

(* The sum of nothing but zeros, and of zeros and one more value.          *)
LEMMA SumToSingle ==
  ASSUME NEW n \in Nat, NEW f, NEW i \in Nat, f[i] \in Int,
         \A k \in 0 .. n - 1 : k # i => f[k] = 0
  PROVE  SumTo(f, n) = IF i < n THEN f[i] ELSE 0
<1> DEFINE S == {k \in 0 .. n : SumTo(f, k) = IF i < k THEN f[i] ELSE 0}
<1>1. 0 \in S
  BY SumToStep
<1>2. ASSUME NEW k \in 0 .. n - 1, k \in S PROVE k + 1 \in S
  <2>1. SumTo(f, k + 1) = SumTo(f, k) + f[k]
    BY SumToStep
  <2>2. SumTo(f, k) = IF i < k THEN f[i] ELSE 0
    BY <1>2
  <2>3. k # i => f[k] = 0
    OBVIOUS
  <2> QED
    BY <2>1, <2>2, <2>3
<1> HIDE DEF S
<1>3. n \in S
  BY <1>1, <1>2, UpTo
<1> QED
  BY <1>3 DEF S

(* ... and of no value at all.                                             *)
LEMMA SumToZero ==
  ASSUME NEW n \in Nat, NEW f, \A k \in 0 .. n - 1 : f[k] = 0
  PROVE  SumTo(f, n) = 0
<1> DEFINE S == {k \in 0 .. n : SumTo(f, k) = 0}
<1>1. 0 \in S
  BY SumToStep
<1>2. ASSUME NEW k \in 0 .. n - 1, k \in S PROVE k + 1 \in S
  BY <1>2, SumToStep
<1> HIDE DEF S
<1>3. n \in S
  BY <1>1, <1>2, UpTo
<1> QED
  BY <1>3 DEF S

(* Equal columns have equal sums.                                          *)
LEMMA SumToEqual ==
  ASSUME NEW n \in Nat, NEW f, NEW g, \A k \in 0 .. n - 1 : f[k] = g[k]
  PROVE  SumTo(f, n) = SumTo(g, n)
<1> DEFINE S == {k \in 0 .. n : SumTo(f, k) = SumTo(g, k)}
<1>1. 0 \in S
  BY SumToStep
<1>2. ASSUME NEW k \in 0 .. n - 1, k \in S PROVE k + 1 \in S
  <2>1. SumTo(f, k + 1) = SumTo(f, k) + f[k] /\ SumTo(g, k + 1) = SumTo(g, k) + g[k]
    BY SumToStep
  <2> QED
    BY <1>2, <2>1
<1> HIDE DEF S
<1>3. n \in S
  BY <1>1, <1>2, UpTo
<1> QED
  BY <1>3 DEF S

(* One value among naturals is no more than their sum.                     *)
LEMMA SumToAtLeast ==
  ASSUME NEW n \in Nat, NEW f, \A k \in 0 .. n - 1 : f[k] \in Nat, NEW i \in 0 .. n - 1
  PROVE  f[i] =< SumTo(f, n)
<1> DEFINE S == {k \in 0 .. n : SumTo(f, k) \in Nat /\ (i < k => f[i] =< SumTo(f, k))}
<1>1. 0 \in S
  BY SumToStep
<1>2. ASSUME NEW k \in 0 .. n - 1, k \in S PROVE k + 1 \in S
  <2>1. SumTo(f, k + 1) = SumTo(f, k) + f[k]
    BY SumToStep
  <2>2. SumTo(f, k) \in Nat /\ (i < k => f[i] =< SumTo(f, k)) /\ f[k] \in Nat /\ f[i] \in Nat
    BY <1>2
  <2> QED
    BY <2>1, <2>2
<1> HIDE DEF S
<1>3. n \in S
  BY <1>1, <1>2, UpTo
<1> QED
  BY <1>3 DEF S

(* A value put before a column.                                            *)
LEMMA SumToBefore ==
  ASSUME NEW n \in Nat, NEW f, NEW g, g[0] \in Int,
         \A k \in 0 .. n - 1 : f[k] \in Int /\ g[k + 1] = f[k]
  PROVE  SumTo(g, n + 1) = g[0] + SumTo(f, n)
<1> DEFINE S == {k \in 0 .. n : SumTo(f, k) \in Int /\ SumTo(g, k + 1) = g[0] + SumTo(f, k)}
<1>1. 0 \in S
  <2>1. SumTo(g, 0 + 1) = SumTo(g, 0) + g[0]
    BY SumToStep
  <2> QED
    BY <2>1, SumToStep
<1>2. ASSUME NEW k \in 0 .. n - 1, k \in S PROVE k + 1 \in S
  <2>1. SumTo(f, k + 1) = SumTo(f, k) + f[k]
    BY SumToStep
  <2>2. SumTo(g, (k + 1) + 1) = SumTo(g, k + 1) + g[k + 1]
    BY SumToStep
  <2>3. f[k] \in Int /\ g[k + 1] = f[k]
    OBVIOUS
  <2>4. SumTo(f, k) \in Int /\ SumTo(g, k + 1) = g[0] + SumTo(f, k)
    BY <1>2
  <2> QED
    BY <2>1, <2>2, <2>3, <2>4
<1> HIDE DEF S
<1>3. n \in S
  BY <1>1, <1>2, UpTo
<1> QED
  BY <1>3 DEF S

(* One share more.                                                         *)
LEMMA OneMoreShare ==
  ASSUME NEW c \in Int, NEW r \in Int PROVE (c + 1) * r = c * r + r
  OBVIOUS

(* The same value for each of some, zero for the others.                   *)
LEMMA SumToShares ==
  ASSUME NEW n \in Nat, NEW W \in SUBSET (0 .. n - 1), NEW r \in Nat, NEW f,
         \A k \in 0 .. n - 1 : f[k] = IF k \in W THEN r ELSE 0
  PROVE  SumTo(f, n) = Cardinality(W) * r
<1> DEFINE Among(k) == W \cap (0 .. k - 1)
           S == {k \in 0 .. n : SumTo(f, k) = Cardinality(Among(k)) * r}
<1>1. \A k \in Nat : IsFiniteSet(Among(k)) /\ Cardinality(Among(k)) \in Nat
  <2> TAKE k \in Nat
  <2>1. IsFiniteSet(0 .. k - 1)
    BY FS_Interval
  <2> QED
    BY <2>1, FS_Subset, FS_CardinalityType
<1>2. 0 \in S
  <2>1. Among(0) = {}
    OBVIOUS
  <2> QED
    BY <2>1, SumToStep, FS_EmptySet
<1>3. ASSUME NEW k \in 0 .. n - 1, k \in S PROVE k + 1 \in S
  <2>1. SumTo(f, k + 1) = SumTo(f, k) + f[k]
    BY SumToStep
  <2>2. SumTo(f, k) = Cardinality(Among(k)) * r
    BY <1>3
  <2>3. Cardinality(Among(k)) \in Nat
    <3> HIDE DEF Among
    <3>1. k \in Nat
      OBVIOUS
    <3> QED
      BY <1>1, <3>1
  <2>4. CASE k \in W
    <3>1. Among(k + 1) = Among(k) \cup {k} /\ k \notin Among(k)
      BY <2>4
    <3> HIDE DEF Among
    <3>2. Cardinality(Among(k + 1)) = Cardinality(Among(k)) + 1
      BY <1>1, <3>1, FS_AddElement
    <3>3. (Cardinality(Among(k)) + 1) * r = Cardinality(Among(k)) * r + r
      BY <2>3, OneMoreShare
    <3> QED
      BY <2>1, <2>2, <2>3, <2>4, <3>2, <3>3
  <2>5. CASE k \notin W
    <3>1. Among(k + 1) = Among(k)
      BY <2>5
    <3> HIDE DEF Among
    <3>2. Cardinality(Among(k)) * r \in Int
      BY <2>3
    <3> QED
      BY <2>1, <2>2, <2>5, <3>1, <3>2
  <2> QED
    BY <2>4, <2>5
<1>4. Among(n) = W
  OBVIOUS
<1> HIDE DEF S, Among
<1>5. n \in S
  BY <1>2, <1>3, UpTo
<1> QED
  BY <1>4, <1>5 DEF S

(* Wrapping arithmetic stays within a counter. *)
LEMMA WrapType == \A a \in Int : a % ChipMod \in Chips
  BY PotAssumption DEF Chips

(* Chips are added and taken within a counter (uint64_t).                  *)
LEMMA PlusMinusType ==
  ASSUME NEW a \in Chips, NEW b \in Chips
  PROVE  Plus(a, b) \in Chips /\ Minus(a, b) \in Chips
  BY WrapType DEF Plus, Minus, Chips

(* An empty stack is a counter value.                                      *)
LEMMA ZeroIsChips == 0 \in Chips
  BY PotAssumption DEF Chips

(* A showdown always has a winner. *)
THEOREM SomebodyWins ==
  ASSUME NEW players \in SUBSET Seat, players # {}, NEW rank \in [Seat -> Nat]
  PROVE  CalWinner(players, rank) # {}
<1> DEFINE Unbeaten(S) == {w \in S : \A p \in S : rank[p] =< rank[w]}
           Bad == {n \in Nat : \E S \in SUBSET Seat :
                     /\ S # {} /\ Unbeaten(S) = {} /\ \A s \in S : s =< n}
<1>1. Bad = {}
  <2> SUFFICES ASSUME Bad # {} PROVE FALSE
    OBVIOUS
  <2>1. PICK n \in Bad : \A m \in Bad : n =< m
    BY LeastNumber
  <2>2. PICK S \in SUBSET Seat : S # {} /\ Unbeaten(S) = {} /\ \A s \in S : s =< n
    BY <2>1
  <2> DEFINE T == S \ {n}
  <2>n. n \in Nat /\ \A s \in S : s \in Nat
    BY <2>1 DEF Seat
  <2>3. CASE T = {}
    <3>1. S = {n}
      BY <2>2, <2>3
    <3>2. n \in Unbeaten(S)
      BY <3>1, <2>n
    <3> QED
      BY <2>2, <3>2
  <2>4. CASE T # {}
    <3>1. n - 1 \in Nat /\ \A s \in T : s =< n - 1
      <4>1. \A s \in T : s \in Nat /\ s =< n /\ s # n
        BY <2>2, <2>n
      <4> HIDE DEF T
      <4> QED
        BY <4>1, <2>4, <2>n
    <3>2. Unbeaten(T) # {}
      <4>1. n - 1 \notin Bad
        BY <2>1, <3>1
      <4> QED
        BY <2>4, <3>1, <4>1
    <3>3. PICK w \in T : \A p \in T : rank[p] =< rank[w]
      BY <3>2
    <3>4. CASE n \notin S
      BY <2>2, <3>3, <3>4
    <3>5. CASE n \in S
      <4>1. n \in Seat /\ w \in Seat /\ rank[n] \in Nat /\ rank[w] \in Nat
        BY <3>5
      <4>2. CASE rank[n] =< rank[w]
        BY <2>2, <3>3, <4>2
      <4>3. CASE rank[w] < rank[n]
        <5>1. \A p \in S : rank[p] =< rank[n]
          BY <3>3, <4>1, <4>3
        <5> QED
          BY <2>2, <3>5, <5>1
      <4> QED
        BY <4>1, <4>2, <4>3
    <3> QED
      BY <3>4, <3>5
  <2> QED
    BY <2>3, <2>4
<1>2. \A s \in players : s =< MaxPlayerNumber
  BY PotAssumption DEF Seat
<1>3. Unbeaten(players) # {}
  BY <1>1, <1>2, PotAssumption
<1> QED
  BY <1>3 DEF CalWinner

(* A table has finitely many seats.                                        *)
LEMMA SeatsFinite == ASSUME NEW S \in SUBSET Seat PROVE IsFiniteSet(S)
<1>1. IsFiniteSet(Seat)
  BY FS_Interval, PotAssumption DEF Seat
<1> QED
  BY <1>1, FS_Subset

(* One pot is well formed, and its reward is never more than its amount. *)
LEMMA PotOfType ==
  ASSUME NEW players \in SUBSET Seat, players # {}, NEW amount \in Chips,
         NEW rank \in [Seat -> Nat]
  PROVE  /\ PotOf(players, amount, rank) \in PotRecord
         /\ PotOf(players, amount, rank).rewards =< amount
<1> DEFINE winners == CalWinner(players, rank)
<1>1. winners \in SUBSET Seat /\ winners # {}
  BY SomebodyWins DEF CalWinner
<1>2. Cardinality(winners) \in Nat \ {0}
  BY <1>1, SeatsFinite, FS_CardinalityType, FS_EmptySet
<1> HIDE DEF winners
<1>3. amount \div Cardinality(winners) \in 0 .. amount
  BY <1>2 DEF Chips
<1>4. amount \div Cardinality(winners) \in Chips
  BY <1>3, PotAssumption DEF Chips
<1>5. PotOf(players, amount, rank) =
        [players |-> players, amount |-> amount, winners |-> winners,
         rewards |-> amount \div Cardinality(winners)]
  BY DEF PotOf, winners
<1> QED
  BY <1>1, <1>3, <1>4, <1>5 DEF PotRecord

(* AddMoney for the winners keeps every payout a counter value.            *)
LEMMA PayToType ==
  ASSUME NEW paid \in [Seat -> Chips], NEW pot \in PotRecord
  PROVE  PayTo(paid, pot) \in [Seat -> Chips]
<1>1. \A s \in Seat : Plus(paid[s], pot.rewards) \in Chips
  BY PlusMinusType DEF PotRecord
<1> QED
  BY <1>1 DEF PayTo

(* What the loop over the all-in players carries from turn to turn. *)
Sides == [todo : SUBSET Seat, left : Chips, pots : Seq(PotRecord),
          paid : [Seat -> Chips]]

(* Some all-in player has the smallest total. *)
LEMMA LeastTotal ==
  ASSUME NEW todo \in SUBSET Seat, todo # {}, NEW total \in [Seat -> Chips]
  PROVE  \E x \in todo : \A y \in todo : total[x] =< total[y]
<1> DEFINE Totals == {total[x] : x \in todo}
<1>1. Totals \in SUBSET Nat /\ Totals # {}
  BY DEF Chips
<1>2. PICK m \in Totals : \A y \in Totals : m =< y
  BY <1>1, LeastNumber
<1> QED
  BY <1>2

(* One side pot keeps the account of the loop well formed. *)
LEMMA TakeSidePotType ==
  ASSUME NEW p \in Sides, NEW normals \in SUBSET Seat,
         NEW total \in [Seat -> Chips], NEW rank \in [Seat -> Nat]
  PROVE  TakeSidePot(p, normals, total, rank) \in Sides
<1> DEFINE a      == CHOOSE x \in p.todo : \A y \in p.todo : total[x] =< total[y]
           above  == {o \in normals : total[o] > total[a]}
           amount == SideAmount(Cardinality(above), total[a], p.left)
           side   == PotOf({a} \cup above, amount, rank)
<1>1. CASE p.todo = {}
  BY <1>1 DEF TakeSidePot
<1>2. CASE p.todo # {}
  <2>1. a \in p.todo
    <3>1. p.todo \in SUBSET Seat
      BY DEF Sides
    <3> QED
      BY <1>2, <3>1, LeastTotal
  <2>2. a \in Seat /\ total[a] \in Chips
    BY <2>1 DEF Sides
  <2>3. above \in SUBSET Seat
    OBVIOUS
  <2> HIDE DEF a
  <2>4. Cardinality(above) \in Nat
    BY <2>3, SeatsFinite, FS_CardinalityType
  <2>5. (Cardinality(above) * total[a]) % ChipMod \in Chips
    <3>1. Cardinality(above) * total[a] \in Int
      <4> HIDE DEF above
      <4> QED
        BY <2>2, <2>4 DEF Chips
    <3> QED
      BY <3>1, WrapType
  <2>6. amount \in Chips
    BY <2>5 DEF SideAmount, Least, Sides
  <2>7. side \in PotRecord
    BY <2>2, <2>3, <2>6, PotOfType
  <2>8. LeftAfter(p.left, amount) \in Chips
    BY <2>6, PlusMinusType DEF LeftAfter, Sides
  <2>9. PayTo(p.paid, side) \in [Seat -> Chips]
    BY <2>7, PayToType DEF Sides
  <2>10. TakeSidePot(p, normals, total, rank) =
           IF amount = 0 THEN [p EXCEPT !.todo = @ \ {a}]
           ELSE [p EXCEPT !.todo = @ \ {a}, !.left = LeftAfter(@, amount),
                          !.pots = Append(@, side), !.paid = PayTo(@, side)]
    BY <1>2 DEF TakeSidePot, a
  <2> HIDE DEF amount, side
  <2>11. [p EXCEPT !.todo = @ \ {a}] \in Sides
    BY DEF Sides
  <2>12. Append(p.pots, side) \in Seq(PotRecord)
    BY <2>7 DEF Sides
  <2>13. [p EXCEPT !.todo = @ \ {a}, !.left = LeftAfter(@, amount),
                   !.pots = Append(@, side), !.paid = PayTo(@, side)] \in Sides
    BY <2>8, <2>9, <2>12 DEF Sides
  <2> QED
    BY <2>10, <2>11, <2>13
<1> QED
  BY <1>1, <1>2

(* Where each turn of the loop leads from one set of accounts to the next, *)
(* the loop ends in the last of them, whatever the number of seats.        *)
LEMMA SidePotsReach ==
  ASSUME NEW normals, NEW allIns, NEW total, NEW pot, NEW rank, NEW Good,
         [todo |-> allIns, left |-> pot, pots |-> << >>,
          paid |-> [s \in Seat |-> 0]] \in Good[0],
         \A n \in 0 .. MaxPlayerNumber - 1 :
           \A p \in Good[n] : TakeSidePot(p, normals, total, rank) \in Good[n + 1]
  PROVE  SidePots(normals, allIns, total, pot, rank) \in Good[MaxPlayerNumber]
<1> DEFINE first == [todo |-> allIns, left |-> pot, pots |-> << >>,
                     paid |-> [s \in Seat |-> 0]]
           Turn(p) == TakeSidePot(p, normals, total, rank)
           Is(f, m) == f = [n \in 0 .. m |-> IF n = 0 THEN first ELSE Turn(f[n - 1])]
<1>1. first \in Good[0]
  OBVIOUS
<1>2. \A n \in 0 .. MaxPlayerNumber - 1 : \A p \in Good[n] : Turn(p) \in Good[n + 1]
  OBVIOUS
<1> HIDE DEF first, Turn
<1> DEFINE Bad == {m \in Nat : ~ \E f : Is(f, m)}
<1>3. Bad = {}
  <2> SUFFICES ASSUME Bad # {} PROVE FALSE
    OBVIOUS
  <2>1. PICK m \in Bad : \A k \in Bad : m =< k
    BY LeastNumber
  <2>2. CASE m = 0
    <3>1. Is([n \in 0 .. 0 |-> first], 0)
      OBVIOUS
    <3> QED
      BY <2>1, <2>2, <3>1
  <2>3. CASE m # 0
    <3>0. m \in Nat /\ m - 1 \in Nat
      BY <2>1, <2>3
    <3>1. m - 1 \in Nat /\ m - 1 \notin Bad
      <4> HIDE DEF Bad
      <4> QED
        BY <2>1, <3>0
    <3>2. PICK g : Is(g, m - 1)
      BY <3>1
    <3> DEFINE f == [n \in 0 .. m |-> IF n = m THEN Turn(g[m - 1]) ELSE g[n]]
    <3>3. \A n \in 0 .. m : f[n] = IF n = 0 THEN first ELSE Turn(f[n - 1])
      <4> TAKE n \in 0 .. m
      <4>1. CASE n = m
        BY <2>1, <2>3, <4>1
      <4>2. CASE n # m
        <5>1. n \in 0 .. (m - 1) /\ f[n] = g[n]
          BY <2>1, <4>2
        <5>2. g[n] = IF n = 0 THEN first ELSE Turn(g[n - 1])
          BY <3>2, <5>1
        <5>3. n # 0 => f[n - 1] = g[n - 1]
          BY <2>1, <5>1
        <5> QED
          BY <5>1, <5>2, <5>3
      <4> QED
        BY <4>1, <4>2
    <3>4. Is(f, m)
      BY <3>3
    <3> QED
      BY <2>1, <3>4
  <2> QED
    BY <2>2, <2>3
<1>4. ASSUME NEW f, Is(f, MaxPlayerNumber)
      PROVE  f[MaxPlayerNumber] \in Good[MaxPlayerNumber]
  <2> DEFINE Wrong == {n \in Nat : n =< MaxPlayerNumber /\ f[n] \notin Good[n]}
  <2>1. Wrong = {}
    <3> SUFFICES ASSUME Wrong # {} PROVE FALSE
      OBVIOUS
    <3>1. PICK n \in Wrong : \A k \in Wrong : n =< k
      BY LeastNumber
    <3>2. n \in 0 .. MaxPlayerNumber /\ f[n] \notin Good[n]
      BY <3>1
    <3>3. f[n] = IF n = 0 THEN first ELSE Turn(f[n - 1])
      BY <1>4, <3>2
    <3>4. CASE n = 0
      BY <1>1, <3>2, <3>3, <3>4
    <3>5. CASE n # 0
      <4>1. n - 1 \in Nat /\ n - 1 =< MaxPlayerNumber /\ n - 1 \notin Wrong
        BY <3>1, <3>2, <3>5, PotAssumption
      <4>2. f[n - 1] \in Good[n - 1] /\ n - 1 \in 0 .. MaxPlayerNumber - 1 /\ (n - 1) + 1 = n
        BY <3>2, <4>1, PotAssumption
      <4>3. Turn(f[n - 1]) \in Good[n]
        BY <1>2, <4>2
      <4> QED
        BY <3>2, <3>3, <3>5, <4>3
    <3> QED
      BY <3>4, <3>5
  <2> QED
    BY <2>1, PotAssumption
<1>5. PICK f : Is(f, MaxPlayerNumber)
  BY <1>3, PotAssumption
<1>6. Is(CHOOSE g : Is(g, MaxPlayerNumber), MaxPlayerNumber)
  BY <1>5
<1>7. SidePots(normals, allIns, total, pot, rank) =
        (CHOOSE g : Is(g, MaxPlayerNumber))[MaxPlayerNumber]
  BY DEF SidePots, first, Turn
<1> QED
  BY <1>4, <1>6, <1>7

(* What every turn of the loop keeps is true after the loop.               *)
LEMMA SidePotsKeep ==
  ASSUME NEW normals, NEW allIns, NEW total, NEW pot, NEW rank, NEW Good,
         [todo |-> allIns, left |-> pot, pots |-> << >>,
          paid |-> [s \in Seat |-> 0]] \in Good,
         \A p \in Good : TakeSidePot(p, normals, total, rank) \in Good
  PROVE  SidePots(normals, allIns, total, pot, rank) \in Good
<1> DEFINE Always == [n \in 0 .. MaxPlayerNumber |-> Good]
           first == [todo |-> allIns, left |-> pot, pots |-> << >>, paid |-> [s \in Seat |-> 0]]
<1>1. first \in Good
  OBVIOUS
<1>2. MaxPlayerNumber \in Nat
  BY PotAssumption
<1> HIDE DEF first
<1>3. first \in Always[0]
  BY <1>1, <1>2
<1>4. \A n \in 0 .. MaxPlayerNumber - 1 :
        \A p \in Always[n] : TakeSidePot(p, normals, total, rank) \in Always[n + 1]
  BY <1>2
<1>5. Always[MaxPlayerNumber] = Good
  BY <1>2
<1> HIDE DEF Always
<1> QED
  BY <1>3, <1>4, <1>5, SidePotsReach DEF first

(* So the whole loop keeps its account well formed. *)
LEMMA SidePotsType ==
  ASSUME NEW normals \in SUBSET Seat, NEW allIns \in SUBSET Seat,
         NEW total \in [Seat -> Chips], NEW pot \in Chips, NEW rank \in [Seat -> Nat]
  PROVE  SidePots(normals, allIns, total, pot, rank) \in Sides
<1>1. [todo |-> allIns, left |-> pot, pots |-> << >>, paid |-> [s \in Seat |-> 0]] \in Sides
  BY ZeroIsChips DEF Sides
<1> QED
  BY <1>1, TakeSidePotType, SidePotsKeep

(* Accounts in which only some seats have been paid. *)
SidesWithin(allowed) ==
  {p \in Sides : p.todo \subseteq allowed /\ \A s \in Seat \ allowed : p.paid[s] = 0}

(* A pot pays none but its players. *)
LEMMA PotPaysPlayers ==
  ASSUME NEW players, NEW amount, NEW rank, NEW paid,
         NEW s \in Seat \ players
  PROVE  PayTo(paid, PotOf(players, amount, rank))[s] = paid[s]
<1>1. PotOf(players, amount, rank).winners \subseteq players
  BY DEF PotOf, CalWinner
<1> HIDE DEF PotOf
<1> QED
  BY <1>1 DEF PayTo

(* One side pot pays none but the players who have not folded. *)
LEMMA TakeSidePotPays ==
  ASSUME NEW normals \in SUBSET Seat, NEW allIns \in SUBSET Seat,
         NEW total \in [Seat -> Chips], NEW rank \in [Seat -> Nat],
         NEW p \in SidesWithin(normals \cup allIns)
  PROVE  TakeSidePot(p, normals, total, rank) \in SidesWithin(normals \cup allIns)
<1> DEFINE a      == CHOOSE x \in p.todo : \A y \in p.todo : total[x] =< total[y]
           above  == {o \in normals : total[o] > total[a]}
           amount == SideAmount(Cardinality(above), total[a], p.left)
           side   == PotOf({a} \cup above, amount, rank)
           u      == TakeSidePot(p, normals, total, rank)
<1>1. p \in Sides /\ u \in Sides
  BY TakeSidePotType DEF SidesWithin
<1>2. CASE p.todo = {}
  BY <1>2 DEF TakeSidePot
<1>3. CASE p.todo # {} /\ amount = 0
  <2>1. u = [p EXCEPT !.todo = @ \ {a}]
    BY <1>3 DEF TakeSidePot
  <2> HIDE DEF a
  <2>2. u.todo \subseteq p.todo /\ u.paid = p.paid
    BY <1>1, <2>1 DEF Sides
  <2> QED
    BY <1>1, <2>2 DEF SidesWithin
<1>4. CASE p.todo # {} /\ amount # 0
  <2>1. a \in p.todo
    <3>1. p.todo \in SUBSET Seat
      BY <1>1 DEF Sides
    <3> QED
      BY <1>4, <3>1, LeastTotal
  <2>2. {a} \cup above \subseteq normals \cup allIns
    BY <2>1 DEF SidesWithin
  <2>3. \A s \in Seat \ (normals \cup allIns) : PayTo(p.paid, side)[s] = p.paid[s]
    BY <2>2, PotPaysPlayers
  <2>4. u = [p EXCEPT !.todo = @ \ {a}, !.left = LeftAfter(@, amount),
                      !.pots = Append(@, side), !.paid = PayTo(@, side)]
    BY <1>4 DEF TakeSidePot
  <2> HIDE DEF a, amount, side, above
  <2>5. u.todo \subseteq p.todo /\ u.paid = PayTo(p.paid, side)
    BY <1>1, <2>4 DEF Sides
  <2> QED
    BY <1>1, <2>3, <2>5 DEF SidesWithin
<1> QED
  BY <1>2, <1>3, <1>4

(* A player who folded, who is in neither set, is paid nothing, whatever   *)
(* the others staked and however their hands compare (Pot::Dispatch).      *)
THEOREM DispatchPaysStayers ==
  ASSUME NEW normals \in SUBSET Seat, NEW allIns \in SUBSET Seat,
         ~Nobody(normals, allIns),
         NEW total \in [Seat -> Chips], NEW pot \in Chips, NEW rank \in [Seat -> Nat]
  PROVE  \A s \in Seat \ (normals \cup allIns) :
           Dispatch(normals, allIns, total, pot, rank).paid[s] = 0
<1> SUFFICES ASSUME NEW s \in Seat \ (normals \cup allIns)
             PROVE  Dispatch(normals, allIns, total, pot, rank).paid[s] = 0
  OBVIOUS
<1> DEFINE sides == SidePots(normals, allIns, total, pot, rank)
           main  == PotOf(MainPlayers(normals, allIns), sides.left, rank)
<1>1. [todo |-> allIns, left |-> pot, pots |-> << >>, paid |-> [x \in Seat |-> 0]]
        \in SidesWithin(normals \cup allIns)
  BY ZeroIsChips DEF Sides, SidesWithin
<1>2. sides \in SidesWithin(normals \cup allIns)
  BY <1>1, TakeSidePotPays, SidePotsKeep
<1>3. sides.paid[s] = 0
  BY <1>2 DEF SidesWithin
<1>4. PayTo(sides.paid, main)[s] = sides.paid[s]
  BY PotPaysPlayers DEF MainPlayers
<1> HIDE DEF sides
<1>5. ~Nobody(normals, allIns)
  OBVIOUS
<1>6. Dispatch(normals, allIns, total, pot, rank).paid \in {sides.paid, PayTo(sides.paid, main)}
  <2> HIDE DEF main
  <2> QED
    BY <1>5 DEF Dispatch, sides, main
<1> QED
  BY <1>3, <1>4, <1>6

(* Dispatch pays every seat a number of chips and announces proper pots. *)
THEOREM DispatchType ==
  ASSUME NEW normals \in SUBSET Seat, NEW allIns \in SUBSET Seat,
         NEW total \in [Seat -> Chips], NEW pot \in Chips, NEW rank \in [Seat -> Nat]
  PROVE  /\ Dispatch(normals, allIns, total, pot, rank).pots \in Seq(PotRecord)
         /\ Dispatch(normals, allIns, total, pot, rank).paid \in [Seat -> Chips]
<1> DEFINE sides == SidePots(normals, allIns, total, pot, rank)
           main  == PotOf(MainPlayers(normals, allIns), sides.left, rank)
<1>1. sides \in Sides
  BY SidePotsType
<1> HIDE DEF sides
<1>2. CASE Nobody(normals, allIns)
  <2>1. Dispatch(normals, allIns, total, pot, rank) = [pots |-> << >>, paid |-> total]
    BY <1>2 DEF Dispatch
  <2> QED
    BY <2>1
<1>3. CASE ~Nobody(normals, allIns)
  <2>1. MainPlayers(normals, allIns) \in SUBSET Seat
        /\ MainPlayers(normals, allIns) # {}
    BY <1>3 DEF MainPlayers, Nobody
  <2>2. main \in PotRecord
    BY <1>1, <2>1, PotOfType DEF Sides
  <2>3. PayTo(sides.paid, main) \in [Seat -> Chips]
    BY <1>1, <2>2, PayToType DEF Sides
  <2>4. Dispatch(normals, allIns, total, pot, rank) =
          IF sides.left = 0 THEN [pots |-> sides.pots, paid |-> sides.paid]
          ELSE [pots |-> <<main>> \o sides.pots, paid |-> PayTo(sides.paid, main)]
    BY <1>3 DEF Dispatch, sides
  <2> HIDE DEF main
  <2>5. sides.pots \in Seq(PotRecord) /\ sides.paid \in [Seat -> Chips]
    BY <1>1 DEF Sides
  <2>6. <<main>> \o sides.pots \in Seq(PotRecord)
    BY <2>2, <2>5
  <2> QED
    BY <2>3, <2>4, <2>5, <2>6
<1> QED
  BY <1>2, <1>3
-----------------------------------------------------------------------------
(* What becomes of the chips of a pot.                                     *)

(* The winners of a pot are some seats, at least one. *)
LEMMA WinnersCounted ==
  ASSUME NEW p \in PotRecord
  PROVE  /\ p.winners \in SUBSET Seat /\ p.amount \in Nat /\ p.rewards \in Nat
         /\ Cardinality(p.winners) \in Nat \ {0}
<1>1. p.winners \in SUBSET Seat /\ p.winners # {} /\ p.amount \in Nat /\ p.rewards \in Nat
  BY DEF PotRecord, Chips
<1> QED
  BY <1>1, SeatsFinite, FS_CardinalityType, FS_EmptySet

(* What announced pots hold and may drop are numbers; a pot more counts    *)
(* with its amount, and may drop less than one chip for every winner.      *)
LEMMA PotsOneMore ==
  ASSUME NEW pots \in Seq(PotRecord), NEW p \in PotRecord
  PROVE  /\ Amounts(pots) \in Nat /\ DroppedOf(pots) \in Nat
         /\ Amounts(Append(pots, p)) = Amounts(pots) + p.amount
         /\ Amounts(<<p>> \o pots) = Amounts(pots) + p.amount
         /\ DroppedOf(Append(pots, p)) = DroppedOf(pots) + Cardinality(p.winners) - 1
         /\ DroppedOf(<<p>> \o pots) = DroppedOf(pots) + Cardinality(p.winners) - 1
<1> DEFINE n  == Len(pots)
           Held(q)    == [k \in 0 .. Len(q) - 1 |-> q[k + 1].amount]
           Drops(q)   == [k \in 0 .. Len(q) - 1 |-> Cardinality(q[k + 1].winners) - 1]
           longer == Append(pots, p)
           topped == <<p>> \o pots
<1>1. n \in Nat /\ \A k \in 0 .. n - 1 : pots[k + 1] \in PotRecord
  OBVIOUS
<1>2. Len(longer) = n + 1 /\ Len(topped) = n + 1
  OBVIOUS
<1>3. /\ longer[n + 1] = p /\ \A k \in 0 .. n - 1 : longer[k + 1] = pots[k + 1]
      /\ topped[1] = p /\ \A k \in 0 .. n - 1 : topped[(k + 1) + 1] = pots[k + 1]
  OBVIOUS
<1> HIDE DEF n, longer, topped
<1>4. /\ \A k \in 0 .. n - 1 : Held(pots)[k] \in Nat /\ Drops(pots)[k] \in Nat
      /\ p.amount \in Nat /\ Cardinality(p.winners) - 1 \in Nat
  <2>1. \A q \in PotRecord : q.amount \in Nat /\ Cardinality(q.winners) - 1 \in Nat
    BY WinnersCounted
  <2> QED
    BY <1>1, <2>1 DEF n
<1>5. /\ \A k \in 0 .. n - 1 : Held(longer)[k] = Held(pots)[k] /\ Held(topped)[k + 1] = Held(pots)[k]
      /\ Held(longer)[n] = p.amount /\ Held(topped)[0] = p.amount
  BY <1>1, <1>2, <1>3 DEF n
<1>6. /\ \A k \in 0 .. n - 1 : Drops(longer)[k] = Drops(pots)[k] /\ Drops(topped)[k + 1] = Drops(pots)[k]
      /\ Drops(longer)[n] = Cardinality(p.winners) - 1 /\ Drops(topped)[0] = Cardinality(p.winners) - 1
  BY <1>1, <1>2, <1>3 DEF n
<1>7. /\ Amounts(pots) = SumTo(Held(pots), n) /\ DroppedOf(pots) = SumTo(Drops(pots), n)
      /\ Amounts(longer) = SumTo(Held(longer), n + 1) /\ DroppedOf(longer) = SumTo(Drops(longer), n + 1)
      /\ Amounts(topped) = SumTo(Held(topped), n + 1) /\ DroppedOf(topped) = SumTo(Drops(topped), n + 1)
  BY <1>2 DEF Amounts, DroppedOf, n
<1> HIDE DEF Held, Drops
<1>8. SumTo(Held(pots), n) \in Nat /\ SumTo(Drops(pots), n) \in Nat
  BY <1>1, <1>4, SumToType
<1>9. SumTo(Held(longer), n + 1) = SumTo(Held(pots), n) + p.amount
  <2>1. SumTo(Held(longer), n) = SumTo(Held(pots), n)
    BY <1>1, <1>5, SumToEqual
  <2> QED
    BY <1>1, <1>5, <2>1, SumToStep
<1>10. SumTo(Drops(longer), n + 1) = SumTo(Drops(pots), n) + (Cardinality(p.winners) - 1)
  <2>1. SumTo(Drops(longer), n) = SumTo(Drops(pots), n)
    BY <1>1, <1>6, SumToEqual
  <2> QED
    BY <1>1, <1>6, <2>1, SumToStep
<1>11. SumTo(Held(topped), n + 1) = p.amount + SumTo(Held(pots), n)
  <2>1. Held(topped)[0] \in Int
    BY <1>4, <1>5
  <2>2. \A k \in 0 .. n - 1 : Held(pots)[k] \in Int /\ Held(topped)[k + 1] = Held(pots)[k]
    BY <1>4, <1>5
  <2>3. SumTo(Held(topped), n + 1) = Held(topped)[0] + SumTo(Held(pots), n)
    BY <1>1, <2>1, <2>2, SumToBefore
  <2> QED
    BY <1>5, <2>3
<1>12. SumTo(Drops(topped), n + 1) = (Cardinality(p.winners) - 1) + SumTo(Drops(pots), n)
  <2>1. Drops(topped)[0] \in Int
    BY <1>4, <1>6
  <2>2. \A k \in 0 .. n - 1 : Drops(pots)[k] \in Int /\ Drops(topped)[k + 1] = Drops(pots)[k]
    BY <1>4, <1>6
  <2>3. SumTo(Drops(topped), n + 1) = Drops(topped)[0] + SumTo(Drops(pots), n)
    BY <1>1, <2>1, <2>2, SumToBefore
  <2> QED
    BY <1>6, <2>3
<1>13. Cardinality(p.winners) \in Nat
  BY WinnersCounted
<1> QED
  BY <1>4, <1>7, <1>8, <1>9, <1>10, <1>11, <1>12, <1>13 DEF longer, topped

(* What announced pots may drop is not negative. *)
LEMMA DroppedType ==
  ASSUME NEW pots \in Seq(PotRecord) PROVE DroppedOf(pots) \in Nat
<1> DEFINE Drops == [k \in 0 .. Len(pots) - 1 |-> Cardinality(pots[k + 1].winners) - 1]
<1>1. Len(pots) \in Nat /\ \A k \in 0 .. Len(pots) - 1 : pots[k + 1] \in PotRecord
  OBVIOUS
<1>2. \A q \in PotRecord : Cardinality(q.winners) - 1 \in Nat
  BY WinnersCounted
<1>3. \A k \in 0 .. Len(pots) - 1 : Drops[k] \in Nat
  BY <1>1, <1>2
<1>4. DroppedOf(pots) = SumTo(Drops, Len(pots))
  BY DEF DroppedOf
<1> HIDE DEF Drops
<1> QED
  BY <1>1, <1>3, <1>4, SumToType

(* Division with remainder. *)
LEMMA Remainder ==
  ASSUME NEW a \in Nat, NEW c \in Nat \ {0}
  PROVE  a = c * (a \div c) + (a % c) /\ a % c \in 0 .. c - 1
<1>1. a \in Int /\ c \in Int /\ c > 0
  OBVIOUS
<1>2. a = c * (a \div c) + (a % c)
  BY <1>1, Z3
<1>3. a % c \in 0 .. c - 1
  OBVIOUS
<1> QED
  BY <1>2, <1>3

(* Of a pot all but a remainder smaller than the number of winners is      *)
(* paid.                                                                   *)
LEMMA PotOfDivides ==
  ASSUME NEW players \in SUBSET Seat, players # {}, NEW amount \in Chips,
         NEW rank \in [Seat -> Nat]
  PROVE  LET p == PotOf(players, amount, rank)
         IN  /\ p.amount = amount
             /\ \E lost \in 0 .. Cardinality(p.winners) - 1 :
                  amount = Cardinality(p.winners) * p.rewards + lost
<1> DEFINE p == PotOf(players, amount, rank)
<1>1. p.amount = amount /\ p.rewards = amount \div Cardinality(p.winners)
  BY DEF PotOf
<1>2. Cardinality(p.winners) \in Nat \ {0}
  BY PotOfType, WinnersCounted
<1> HIDE DEF p
<1>3. amount = Cardinality(p.winners) * p.rewards + (amount % Cardinality(p.winners))
      /\ amount % Cardinality(p.winners) \in 0 .. Cardinality(p.winners) - 1
  <2>1. amount \in Nat
    BY DEF Chips
  <2>2. /\ amount = Cardinality(p.winners) * (amount \div Cardinality(p.winners))
                     + (amount % Cardinality(p.winners))
        /\ amount % Cardinality(p.winners) \in 0 .. Cardinality(p.winners) - 1
    BY <1>2, <2>1, Remainder, Zenon
  <2> QED
    BY <1>1, <2>2
<1> QED
  BY <1>1, <1>3 DEF p

(* Paying one pot adds just its rewards, as long as no counter overflows.  *)
LEMMA PayToAdds ==
  ASSUME NEW paid \in [Seat -> Chips], NEW p \in PotRecord,
         SumOf(paid) + Cardinality(p.winners) * p.rewards < ChipMod
  PROVE  SumOf(PayTo(paid, p)) = SumOf(paid) + Cardinality(p.winners) * p.rewards
<1> DEFINE shares == [s \in Seat |-> IF s \in p.winners THEN p.rewards ELSE 0]
           c      == Cardinality(p.winners)
<1>1. /\ p.winners \in SUBSET (0 .. MaxPlayerNumber - 1) /\ p.rewards \in Nat /\ c \in Nat \ {0}
      /\ MaxPlayerNumber \in Nat /\ Seat = 0 .. MaxPlayerNumber - 1
  BY WinnersCounted, PotAssumption DEF Seat
<1>2. SumTo(shares, MaxPlayerNumber) = c * p.rewards
  BY <1>1, SumToShares
<1>3. \A s \in Seat : paid[s] \in Nat /\ paid[s] =< SumOf(paid)
  <2>1. \A s \in 0 .. MaxPlayerNumber - 1 : paid[s] \in Nat
    BY <1>1 DEF Chips
  <2> QED
    BY <1>1, <2>1, SumToAtLeast DEF SumOf
<1>4. SumOf(paid) \in Nat
  BY <1>1, <1>3, SumToType DEF SumOf
<1>5. p.rewards =< c * p.rewards /\ c * p.rewards \in Nat
  <2>1. c - 1 \in Nat /\ (c - 1) * p.rewards \in Nat
    BY <1>1
  <2>2. ((c - 1) + 1) * p.rewards = (c - 1) * p.rewards + p.rewards
    BY <1>1, <2>1, OneMoreShare
  <2>3. (c - 1) + 1 = c
    BY <1>1
  <2> QED
    BY <1>1, <2>1, <2>2, <2>3
<1>6. \A s \in Seat : PayTo(paid, p)[s] = paid[s] + shares[s]
  <2> SUFFICES ASSUME NEW s \in Seat PROVE PayTo(paid, p)[s] = paid[s] + shares[s]
    OBVIOUS
  <2>1. CASE s \in p.winners
    <3>1. paid[s] + p.rewards \in 0 .. ChipMod - 1
      <4> HIDE DEF c
      <4> QED
        BY <1>1, <1>3, <1>4, <1>5, PotAssumption DEF c
    <3>2. Plus(paid[s], p.rewards) = paid[s] + p.rewards
      BY <3>1, PotAssumption DEF Plus
    <3> QED
      BY <2>1, <3>2 DEF PayTo
  <2>2. CASE s \notin p.winners
    BY <1>3, <2>2 DEF PayTo
  <2> QED
    BY <2>1, <2>2
<1>7. \A s \in Seat : shares[s] \in Nat
  BY <1>1
<1> HIDE DEF shares, c
<1>8. SumTo(PayTo(paid, p), MaxPlayerNumber)
        = SumTo(paid, MaxPlayerNumber) + SumTo(shares, MaxPlayerNumber)
  <2>1. \A s \in 0 .. MaxPlayerNumber - 1 :
          paid[s] \in Int /\ shares[s] \in Int /\ PayTo(paid, p)[s] = paid[s] + shares[s]
    BY <1>1, <1>3, <1>6, <1>7
  <2> QED
    BY <1>1, <2>1, SumToPlus
<1> QED
  BY <1>2, <1>8 DEF SumOf, c

(* Accounts of the loop that add up: what is left and what the side pots   *)
(* hold is the pot, and what is left, was paid and was dropped is the pot. *)
Audited(pot) ==
  {p \in Sides : /\ Amounts(p.pots) + p.left = pot
                 /\ \E lost \in 0 .. DroppedOf(p.pots) : SumOf(p.paid) + p.left + lost = pot}

(* What the seats have together is a number. *)
LEMMA SumOfType ==
  ASSUME NEW f \in [Seat -> Chips] PROVE SumOf(f) \in Nat
<1>1. MaxPlayerNumber \in Nat /\ \A s \in 0 .. MaxPlayerNumber - 1 : f[s] \in Nat
  BY PotAssumption DEF Seat, Chips
<1> QED
  BY <1>1, SumToType DEF SumOf

(* A pot of amount n taken from what is left, divided and paid.            *)
LEMMA PotIsTaken ==
  ASSUME NEW pot \in Chips, NEW p \in Audited(pot), NEW amount \in 0 .. p.left,
         NEW players \in SUBSET Seat, players # {}, NEW rank \in [Seat -> Nat]
  PROVE  LET side == PotOf(players, amount, rank)
         IN  /\ side \in PotRecord
             /\ side.amount = amount
             /\ \E lost \in 0 .. DroppedOf(p.pots) + Cardinality(side.winners) - 1 :
                  SumOf(PayTo(p.paid, side)) + (p.left - amount) + lost = pot
<1> DEFINE side == PotOf(players, amount, rank)
           paidOut == Cardinality(side.winners) * side.rewards
<1>1. p.left \in Nat /\ p.left < ChipMod /\ amount \in Chips /\ pot \in Nat /\ pot < ChipMod
      /\ p.pots \in Seq(PotRecord) /\ p.paid \in [Seat -> Chips]
  BY PotAssumption DEF Audited, Sides, Chips
<1>2. side \in PotRecord
  BY <1>1, PotOfType
<1>3. /\ side.amount = amount
      /\ \E lost \in 0 .. Cardinality(side.winners) - 1 : amount = paidOut + lost
  BY <1>1, PotOfDivides
<1>4. Cardinality(side.winners) \in Nat \ {0} /\ side.rewards \in Nat
  BY <1>2, WinnersCounted
<1> HIDE DEF side
<1>5. paidOut \in Nat
  BY <1>4
<1>6. PICK rest \in 0 .. Cardinality(side.winners) - 1 : amount = paidOut + rest
  BY <1>3
<1>7. DroppedOf(p.pots) \in Nat
  BY <1>1, <1>2, PotsOneMore
<1>8. PICK lost \in 0 .. DroppedOf(p.pots) : SumOf(p.paid) + p.left + lost = pot
  BY DEF Audited
<1>9. SumOf(p.paid) \in Nat
  BY <1>1, SumOfType
<1>10. SumOf(PayTo(p.paid, side)) = SumOf(p.paid) + paidOut
  <2>1. SumOf(p.paid) + paidOut < ChipMod
    <3> HIDE DEF paidOut
    <3> QED
      BY <1>1, <1>4, <1>5, <1>6, <1>7, <1>8, <1>9, PotAssumption
  <2> QED
    BY <1>1, <1>2, <2>1, PayToAdds
<1> HIDE DEF paidOut
<1>11. lost + rest \in 0 .. DroppedOf(p.pots) + Cardinality(side.winners) - 1
  BY <1>4, <1>6, <1>7, <1>8
<1>12. SumOf(PayTo(p.paid, side)) + (p.left - amount) + (lost + rest) = pot
  BY <1>1, <1>5, <1>6, <1>7, <1>8, <1>9, <1>10, <1>4
<1> QED
  BY <1>2, <1>3, <1>11, <1>12 DEF side

(* One side pot keeps the account adding up. *)
LEMMA TakeSidePotAudited ==
  ASSUME NEW pot \in Chips, NEW p \in Audited(pot), NEW normals \in SUBSET Seat,
         NEW total \in [Seat -> Chips], NEW rank \in [Seat -> Nat]
  PROVE  TakeSidePot(p, normals, total, rank) \in Audited(pot)
<1> DEFINE a      == CHOOSE x \in p.todo : \A y \in p.todo : total[x] =< total[y]
           above  == {o \in normals : total[o] > total[a]}
           amount == SideAmount(Cardinality(above), total[a], p.left)
           side   == PotOf({a} \cup above, amount, rank)
           u      == TakeSidePot(p, normals, total, rank)
<1>1. p \in Sides /\ u \in Sides
  BY TakeSidePotType DEF Audited
<1>2. CASE p.todo = {}
  BY <1>2 DEF TakeSidePot
<1>3. CASE p.todo # {} /\ amount = 0
  <2>1. u = [p EXCEPT !.todo = @ \ {a}]
    BY <1>3 DEF TakeSidePot
  <2> HIDE DEF a, u
  <2>2. u.left = p.left /\ u.pots = p.pots /\ u.paid = p.paid
    BY <1>1, <2>1 DEF Sides
  <2> QED
    BY <1>1, <2>2 DEF Audited, u
<1>4. CASE p.todo # {} /\ amount # 0
  <2>1. a \in p.todo
    <3>1. p.todo \in SUBSET Seat
      BY <1>1 DEF Sides
    <3> QED
      BY <1>4, <3>1, LeastTotal
  <2>2. a \in Seat /\ total[a] \in Chips /\ {a} \cup above \in SUBSET Seat
    BY <1>1, <2>1 DEF Sides
  <2>3. u = [p EXCEPT !.todo = @ \ {a}, !.left = LeftAfter(@, amount),
                      !.pots = Append(@, side), !.paid = PayTo(@, side)]
    BY <1>4 DEF TakeSidePot
  <2> HIDE DEF a
  <2>4. amount \in 0 .. p.left /\ p.left \in Chips
    <3>1. above \in SUBSET Seat
      OBVIOUS
    <3>2. Cardinality(above) \in Nat
      BY <3>1, SeatsFinite, FS_CardinalityType
    <3>3. Cardinality(above) * total[a] \in Int
      <4> HIDE DEF above
      <4> QED
        BY <2>2, <3>2 DEF Chips
    <3>4. (Cardinality(above) * total[a]) % ChipMod \in Chips
      BY <3>3, WrapType
    <3>5. p.left \in Chips
      BY <1>1 DEF Sides
    <3> HIDE DEF above
    <3> QED
      BY <3>4, <3>5 DEF SideAmount, Least, Chips
  <2> HIDE DEF amount, above
  <2>5. /\ side \in PotRecord
        /\ side.amount = amount
        /\ \E lost \in 0 .. DroppedOf(p.pots) + Cardinality(side.winners) - 1 :
             SumOf(PayTo(p.paid, side)) + (p.left - amount) + lost = pot
    BY <2>2, <2>4, PotIsTaken
  <2> HIDE DEF side, u
  <2>6. LeftAfter(p.left, amount) = p.left - amount
    BY <2>4, PotAssumption DEF LeftAfter, Minus, Chips
  <2>7. u.left = p.left - amount /\ u.pots = Append(p.pots, side) /\ u.paid = PayTo(p.paid, side)
    BY <1>1, <2>3, <2>6 DEF Sides
  <2>8. /\ Amounts(Append(p.pots, side)) = Amounts(p.pots) + side.amount
        /\ DroppedOf(Append(p.pots, side)) = DroppedOf(p.pots) + Cardinality(side.winners) - 1
        /\ Amounts(p.pots) \in Nat
    BY <1>1, <2>5, PotsOneMore DEF Sides
  <2>9. Amounts(u.pots) + u.left = pot
    BY <2>4, <2>5, <2>7, <2>8 DEF Audited, Chips
  <2>10. \E lost \in 0 .. DroppedOf(u.pots) : SumOf(u.paid) + u.left + lost = pot
    BY <2>5, <2>7, <2>8
  <2> QED
    BY <1>1, <2>9, <2>10 DEF Audited, u
<1> QED
  BY <1>2, <1>3, <1>4

(* Nothing announced holds nothing. *)
LEMMA NoPots == Amounts(<< >>) = 0 /\ DroppedOf(<< >>) = 0
<1>1. Len(<< >>) = 0
  OBVIOUS
<1> QED
  BY <1>1, SumToStep DEF Amounts, DroppedOf

(* The account the loop starts with adds up. *)
LEMMA FirstIsAudited ==
  ASSUME NEW allIns \in SUBSET Seat, NEW pot \in Chips
  PROVE  [todo |-> allIns, left |-> pot, pots |-> << >>, paid |-> [s \in Seat |-> 0]]
           \in Audited(pot)
<1> DEFINE first == [todo |-> allIns, left |-> pot, pots |-> << >>, paid |-> [s \in Seat |-> 0]]
<1>1. first \in Sides
  BY ZeroIsChips DEF Sides
<1>2. SumOf([s \in Seat |-> 0]) = 0
  <2>1. MaxPlayerNumber \in Nat
        /\ \A s \in 0 .. MaxPlayerNumber - 1 : [x \in Seat |-> 0][s] = 0
    BY PotAssumption DEF Seat
  <2> QED
    BY <2>1, SumToZero DEF SumOf
<1>3. pot \in Nat
  BY DEF Chips
<1>4. /\ Amounts(first.pots) + first.left = pot
      /\ SumOf(first.paid) + first.left + 0 = pot
      /\ 0 \in 0 .. DroppedOf(first.pots)
  BY <1>2, <1>3, NoPots
<1> QED
  BY <1>1, <1>4 DEF Audited

(* Dispatch divides the whole pot and nothing but the pot: the amounts of  *)
(* the pots it announces add up to it, and what is paid is the pot but for *)
(* what the division among the winners of each announced pot may drop      *)
(* (Pot.cpp:90-130).                                                       *)
THEOREM DispatchWhole ==
  ASSUME NEW normals \in SUBSET Seat, NEW allIns \in SUBSET Seat,
         ~Nobody(normals, allIns),
         NEW total \in [Seat -> Chips], NEW pot \in Chips, NEW rank \in [Seat -> Nat]
  PROVE  LET d == Dispatch(normals, allIns, total, pot, rank)
         IN  /\ Amounts(d.pots) = pot
             /\ pot - SumOf(d.paid) \in 0 .. DroppedOf(d.pots)
<1> DEFINE first == [todo |-> allIns, left |-> pot, pots |-> << >>, paid |-> [s \in Seat |-> 0]]
           sides == SidePots(normals, allIns, total, pot, rank)
           main  == PotOf(MainPlayers(normals, allIns), sides.left, rank)
           d     == Dispatch(normals, allIns, total, pot, rank)
<1>1. first \in Audited(pot)
  BY FirstIsAudited
<1>2. sides \in Audited(pot)
  BY <1>1, TakeSidePotAudited, SidePotsKeep
<1>3. d = IF sides.left = 0 THEN [pots |-> sides.pots, paid |-> sides.paid]
          ELSE [pots |-> <<main>> \o sides.pots, paid |-> PayTo(sides.paid, main)]
  BY DEF Dispatch
<1> HIDE DEF sides, first
<1>4. sides.left \in Nat /\ sides.pots \in Seq(PotRecord) /\ sides.paid \in [Seat -> Chips]
      /\ pot \in Nat
  BY <1>2 DEF Audited, Sides, Chips
<1>5. MainPlayers(normals, allIns) \in SUBSET Seat /\ MainPlayers(normals, allIns) # {}
  BY DEF MainPlayers, Nobody
<1>6. /\ main \in PotRecord
      /\ main.amount = sides.left
      /\ \E lost \in 0 .. DroppedOf(sides.pots) + Cardinality(main.winners) - 1 :
           SumOf(PayTo(sides.paid, main)) + (sides.left - sides.left) + lost = pot
  <2>1. sides.left \in 0 .. sides.left
    BY <1>4
  <2> QED
    BY <1>2, <1>5, <2>1, PotIsTaken
<1> HIDE DEF main, d
<1>7. SumOf(sides.paid) \in Nat /\ SumOf(PayTo(sides.paid, main)) \in Nat
  BY <1>4, <1>6, PayToType, SumOfType
<1>8. /\ Amounts(sides.pots) \in Nat /\ DroppedOf(sides.pots) \in Nat
      /\ Amounts(<<main>> \o sides.pots) = Amounts(sides.pots) + main.amount
      /\ DroppedOf(<<main>> \o sides.pots) = DroppedOf(sides.pots) + Cardinality(main.winners) - 1
      /\ Cardinality(main.winners) \in Nat
  BY <1>4, <1>6, PotsOneMore, WinnersCounted
<1>9. Amounts(sides.pots) + sides.left = pot
      /\ \E lost \in 0 .. DroppedOf(sides.pots) : SumOf(sides.paid) + sides.left + lost = pot
  BY <1>2 DEF Audited
<1>10. CASE sides.left = 0
  <2>1. d.pots = sides.pots /\ d.paid = sides.paid
    BY <1>3, <1>10
  <2>2. Amounts(d.pots) = pot
    BY <1>8, <1>9, <1>10, <2>1
  <2>3. pot - SumOf(d.paid) \in 0 .. DroppedOf(d.pots)
    BY <1>4, <1>7, <1>8, <1>9, <1>10, <2>1
  <2> QED
    BY <2>2, <2>3 DEF d
<1>11. CASE sides.left # 0
  <2>1. d.pots = <<main>> \o sides.pots /\ d.paid = PayTo(sides.paid, main)
    BY <1>3, <1>11
  <2>2. Amounts(d.pots) = pot
    BY <1>4, <1>6, <1>8, <1>9, <2>1
  <2>3. pot - SumOf(d.paid) \in 0 .. DroppedOf(d.pots)
    BY <1>4, <1>6, <1>7, <1>8, <2>1
  <2> QED
    BY <2>2, <2>3 DEF d
<1> QED
  BY <1>10, <1>11
-----------------------------------------------------------------------------
(* Sums of counters that may wrap.                                         *)

(* Two numbers a chip counter cannot tell apart. *)
Same(a, b) == a % ChipMod = b % ChipMod

(* A number is what the counter shows of it and some whole turns.          *)
LEMMA Turns ==
  ASSUME NEW a \in Int
  PROVE  /\ a % ChipMod \in 0 .. ChipMod - 1
         /\ \E k \in Int : a = k * ChipMod + (a % ChipMod)
         /\ \A k \in Int, r \in 0 .. ChipMod - 1 : a = k * ChipMod + r => a % ChipMod = r
<1>1. PICK m \in Nat \ {0} : m = ChipMod
  BY PotAssumption
<1>2. a % m \in 0 .. m - 1
  OBVIOUS
<1>3. a = m * (a \div m) + (a % m) /\ a \div m \in Int
  <2>1. m \in Int /\ m > 0
    OBVIOUS
  <2>2. a = m * (a \div m) + (a % m)
    BY <2>1, Z3
  <2>3. a \div m \in Int
    BY <2>1
  <2> QED
    BY <2>2, <2>3
<1>4. ASSUME NEW k \in Int, NEW r \in 0 .. m - 1, a = k * m + r PROVE a % m = r
  <2>1. m \in Int /\ m > 0 /\ r \in Int /\ 0 =< r /\ r < m
    OBVIOUS
  <2> QED
    BY <1>4, <2>1
<1>5. \A j \in Int : m * j = j * m
  OBVIOUS
<1>6. \E k \in Int : a = k * m + (a % m)
  BY <1>3, <1>5
<1> QED
  BY <1>1, <1>2, <1>4, <1>6

(* Two numbers are the same to a counter when they are whole turns apart.  *)
LEMMA SameIs ==
  ASSUME NEW a \in Int, NEW b \in Int
  PROVE  Same(a, b) <=> \E k \in Int : a = b + k * ChipMod
<1>0. PICK m \in Int : m = ChipMod
  BY PotAssumption
<1>1. PICK i \in Int : a = i * m + (a % m)
  BY <1>0, Turns
<1>2. PICK j \in Int : b = j * m + (b % m)
  BY <1>0, Turns
<1>3. a % m \in 0 .. m - 1 /\ b % m \in 0 .. m - 1
  BY <1>0, Turns
<1>4. ASSUME a % m = b % m PROVE \E k \in Int : a = b + k * m
  <2>1. a = b + (i - j) * m /\ i - j \in Int
    <3>1. PICK r \in Int : r = a % m
      BY <1>3
    <3>2. a = i * m + r /\ b = j * m + r
      BY <1>1, <1>2, <1>4, <3>1
    <3> QED
      BY <3>2
  <2> QED
    BY <2>1
<1>5. ASSUME NEW k \in Int, a = b + k * m PROVE a % m = b % m
  <2>1. PICK r \in 0 .. m - 1 : r = b % m
    BY <1>3
  <2>2. a = (j + k) * m + r /\ j + k \in Int
    BY <1>2, <1>5, <2>1
  <2> QED
    BY <1>0, <2>1, <2>2, Turns
<1> QED
  BY <1>0, <1>4, <1>5 DEF Same

(* Counting on from the same, and back, gives the same.                    *)
LEMMA SameAdds ==
  ASSUME NEW a \in Int, NEW b \in Int, NEW c \in Int, NEW d \in Int, Same(a, b), Same(c, d)
  PROVE  Same(a + c, b + d) /\ Same(a - c, b - d)
<1>0. PICK m \in Int : m = ChipMod
  BY PotAssumption
<1>1. PICK i \in Int : a = b + i * m
  BY <1>0, SameIs
<1>2. PICK j \in Int : c = d + j * m
  BY <1>0, SameIs
<1>3. a + c = (b + d) + (i + j) * m /\ a - c = (b - d) + (i - j) * m
  BY <1>1, <1>2
<1>4. i + j \in Int /\ i - j \in Int /\ a + c \in Int /\ b + d \in Int /\ a - c \in Int /\ b - d \in Int
  OBVIOUS
<1> QED
  BY <1>0, <1>3, <1>4, SameIs

(* ... and from one to the other nothing is missing.                       *)
LEMMA NothingMissing ==
  ASSUME NEW a \in Int, NEW b \in Int, Same(a, b)
  PROVE  (a - b) % ChipMod = 0
<1>0. PICK m \in Nat \ {0} : m = ChipMod
  BY PotAssumption
<1>1. Same(a - b, b - b)
  BY SameAdds DEF Same
<1>2. b - b = 0 /\ 0 % m = 0
  OBVIOUS
<1> QED
  BY <1>0, <1>1, <1>2 DEF Same

(* What Plus and Minus keep is the same as the true sum and difference.    *)
LEMMA WrapIsSame ==
  ASSUME NEW a \in Int
  PROVE  /\ a % ChipMod \in Int /\ Same(a % ChipMod, a) /\ Same(a, a)
         /\ a \in Chips => a % ChipMod = a
<1>1. PICK m \in Nat \ {0} : m = ChipMod
  BY PotAssumption
<1>2. a % m \in 0 .. m - 1
  OBVIOUS
<1>3. \A r \in 0 .. m - 1 : r % m = r
  OBVIOUS
<1> QED
  BY <1>1, <1>2, <1>3 DEF Same, Chips

(* A counter never shows more than a number that is not negative.          *)
LEMMA ShowsNoMore ==
  ASSUME NEW a \in Int, NEW d \in Nat, NEW b \in 0 .. d, Same(a, b)
  PROVE  a % ChipMod \in 0 .. d
<1>1. PICK m \in Nat \ {0} : m = ChipMod
  BY PotAssumption
<1>2. b \in Nat /\ b % m \in 0 .. m - 1
  OBVIOUS
<1>3. b % m =< b
  <2>1. CASE b < m
    <3>1. b % m = b
      BY <1>2, <2>1
    <3> QED
      BY <1>2, <3>1
  <2>2. CASE ~(b < m)
    BY <1>2, <2>2
  <2> QED
    BY <2>1, <2>2
<1> QED
  BY <1>1, <1>2, <1>3 DEF Same

(* Columns whose values are the same have sums that are the same.          *)
LEMMA SumToSame ==
  ASSUME NEW n \in Nat, NEW f, NEW g,
         \A k \in 0 .. n - 1 : f[k] \in Int /\ g[k] \in Int /\ Same(f[k], g[k])
  PROVE  Same(SumTo(f, n), SumTo(g, n))
<1> DEFINE S == {k \in 0 .. n : SumTo(f, k) \in Int /\ SumTo(g, k) \in Int
                                 /\ Same(SumTo(f, k), SumTo(g, k))}
<1>1. 0 \in S
  BY SumToStep DEF Same
<1>2. ASSUME NEW k \in 0 .. n - 1, k \in S PROVE k + 1 \in S
  <2>1. SumTo(f, k + 1) = SumTo(f, k) + f[k] /\ SumTo(g, k + 1) = SumTo(g, k) + g[k]
    BY SumToStep
  <2>2. f[k] \in Int /\ g[k] \in Int /\ Same(f[k], g[k])
    OBVIOUS
  <2>3. SumTo(f, k) \in Int /\ SumTo(g, k) \in Int /\ Same(SumTo(f, k), SumTo(g, k))
    BY <1>2
  <2>4. Same(SumTo(f, k) + f[k], SumTo(g, k) + g[k])
    BY <2>2, <2>3, SameAdds
  <2> QED
    BY <2>1, <2>2, <2>3, <2>4
<1> HIDE DEF S
<1>3. n \in S
  BY <1>1, <1>2, UpTo
<1> QED
  BY <1>3 DEF S

(* What the seats have together, after every one of them was given some.   *)
LEMMA SumOfGiven ==
  ASSUME NEW f \in [Seat -> Chips], NEW g \in [Seat -> Chips], NEW h,
         \A s \in Seat : h[s] \in Int /\ Same(g[s], f[s] + h[s])
  PROVE  SumOf(h) \in Int /\ Same(SumOf(g), SumOf(f) + SumOf(h))
<1> DEFINE e == [s \in Seat |-> f[s] + h[s]]
<1>1. MaxPlayerNumber \in Nat /\ Seat = 0 .. MaxPlayerNumber - 1
  BY PotAssumption DEF Seat
<1>2. \A s \in Seat : f[s] \in Int /\ g[s] \in Int /\ h[s] \in Int
  BY DEF Chips
<1>3. \A s \in Seat : e[s] \in Int /\ e[s] = f[s] + h[s] /\ Same(g[s], e[s])
  BY <1>2
<1> HIDE DEF e
<1>4. SumTo(e, MaxPlayerNumber) = SumTo(f, MaxPlayerNumber) + SumTo(h, MaxPlayerNumber)
  BY <1>1, <1>2, <1>3, SumToPlus
<1>5. Same(SumTo(g, MaxPlayerNumber), SumTo(e, MaxPlayerNumber))
  BY <1>1, <1>2, <1>3, SumToSame
<1>6. SumTo(h, MaxPlayerNumber) \in Int
  BY <1>1, <1>2, SumToType
<1> QED
  BY <1>4, <1>5, <1>6 DEF SumOf

(* ... and after one of them was.                                          *)
LEMMA SumOfOneGiven ==
  ASSUME NEW f \in [Seat -> Chips], NEW g \in [Seat -> Chips], NEW i \in Seat, NEW n \in Int,
         Same(g[i], f[i] + n), \A s \in Seat \ {i} : g[s] = f[s]
  PROVE  Same(SumOf(g), SumOf(f) + n)
<1> DEFINE h == [s \in Seat |-> IF s = i THEN n ELSE 0]
<1>1. MaxPlayerNumber \in Nat /\ Seat = 0 .. MaxPlayerNumber - 1
  BY PotAssumption DEF Seat
<1>2. \A s \in Seat : h[s] \in Int /\ Same(g[s], f[s] + h[s])
  <2> SUFFICES ASSUME NEW s \in Seat PROVE h[s] \in Int /\ Same(g[s], f[s] + h[s])
    OBVIOUS
  <2>1. CASE s = i
    BY <2>1
  <2>2. CASE s # i
    <3>1. f[s] \in Int
      BY DEF Chips
    <3>2. f[s] + h[s] = f[s] /\ g[s] = f[s]
      BY <2>2, <3>1
    <3> QED
      BY <2>2, <3>2 DEF Same
  <2> QED
    BY <2>1, <2>2
<1>3. SumTo(h, MaxPlayerNumber) = n
  <2>1. i \in Nat /\ i < MaxPlayerNumber /\ h[i] = n
    BY <1>1
  <2>2. \A s \in 0 .. MaxPlayerNumber - 1 : s # i => h[s] = 0
    BY <1>1
  <2> HIDE DEF h
  <2> QED
    BY <1>1, <2>1, <2>2, SumToSingle
<1> HIDE DEF h
<1> QED
  BY <1>2, <1>3, SumOfGiven DEF SumOf
=============================================================================

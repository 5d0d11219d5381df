------------------------- MODULE PotDivisionProofs -------------------------
(***************************************************************************)
(* Pot::Dispatch at every table: what PotDivision says of a showdown, for  *)
(* every number of seats and every stake, whether the all-in players ask   *)
(* for less than the pot or for more.                                      *)
(*                                                                         *)
(* The loop over the all-in players is followed by SidePotsKeep: each      *)
(* theorem names the set of accounts one turn cannot leave.                *)
(***************************************************************************)
EXTENDS PotDivision, PotProofs

(* The cast of a showdown does not change, and only Dispatch divides. *)
Showdown ==
  /\ role \in [Seat -> {"Fold", "AllIn", "Normal"}]
  /\ total \in [Seat -> 0 .. MaxStake]
  /\ rank \in [Seat -> Nat]
  /\ divided \in {NotYet, Dispatch(Normals, AllIns, total, SumOf(total), rank)}

(* A sum of n values is no more than n times the largest. *)
LEMMA SumToAtMost ==
  ASSUME NEW n \in Nat, NEW m \in Nat, NEW f, \A k \in 0 .. n - 1 : f[k] \in 0 .. m
  PROVE  SumTo(f, n) \in 0 .. n * m
<1> DEFINE S == {k \in 0 .. n : SumTo(f, k) \in 0 .. k * m}
<1>1. 0 \in S
  BY SumToStep
<1>2. ASSUME NEW k \in 0 .. n - 1, k \in S PROVE k + 1 \in S
  <2>1. SumTo(f, k + 1) = SumTo(f, k) + f[k]
    BY SumToStep
  <2>2. (k + 1) * m = k * m + m /\ k * m \in Int
    BY OneMoreShare
  <2>3. SumTo(f, k) \in 0 .. k * m /\ f[k] \in 0 .. m
    BY <1>2
  <2>4. SumTo(f, k + 1) \in 0 .. (k + 1) * m
    <3> DEFINE x == k * m
               y == (k + 1) * m
    <3> HIDE DEF x, y
    <3>1. y = x + m /\ x \in Int /\ SumTo(f, k) \in 0 .. x
      BY <2>2, <2>3 DEF x, y
    <3>2. SumTo(f, k + 1) \in 0 .. y
      BY <2>1, <2>3, <3>1
    <3> QED
      BY <3>2 DEF y
  <2> QED
    BY <2>4
<1> HIDE DEF S
<1>3. n \in S
  BY <1>1, <1>2, UpTo
<1> QED
  BY <1>3 DEF S

(* The stakes of a showdown, and all of them together, fit a counter. *)
LEMMA StakesFit ==
  ASSUME NEW f \in [Seat -> 0 .. MaxStake]
  PROVE  f \in [Seat -> Chips] /\ SumOf(f) \in Chips
<1>1. MaxPlayerNumber \in Nat \ {0} /\ MaxStake \in Nat /\ ChipMod \in Nat
      /\ MaxStake * MaxPlayerNumber < ChipMod
  BY PotAssumption, PotDivisionAssumption
<1>2. SumTo(f, MaxPlayerNumber) \in 0 .. MaxPlayerNumber * MaxStake
  <2>1. \A k \in 0 .. MaxPlayerNumber - 1 : f[k] \in 0 .. MaxStake
    BY DEF Seat
  <2> QED
    BY <1>1, <2>1, SumToAtMost
<1>3. MaxPlayerNumber * MaxStake = MaxStake * MaxPlayerNumber
      /\ MaxStake * MaxPlayerNumber \in Nat /\ MaxStake =< MaxStake * MaxPlayerNumber
  BY <1>1, Z3
<1> DEFINE most == MaxStake * MaxPlayerNumber
<1> HIDE DEF most
<1>4. most \in Nat /\ most < ChipMod /\ MaxStake =< most
      /\ SumTo(f, MaxPlayerNumber) \in 0 .. most
  BY <1>1, <1>2, <1>3 DEF most
<1>5. \A s \in Seat : f[s] \in Chips
  BY <1>1, <1>4 DEF Chips
<1> QED
  BY <1>1, <1>4, <1>5 DEF Chips, SumOf

LEMMA ShowdownKept == Spec => []Showdown
<1>1. Init => Showdown
  BY PotDivisionAssumption DEF Init, Showdown
<1>2. Showdown /\ [Divide]_vars => Showdown'
  <2> SUFFICES ASSUME Showdown, [Divide]_vars PROVE Showdown'
    OBVIOUS
  <2>1. CASE Divide
    BY <2>1 DEF Divide, Showdown, Normals, AllIns
  <2>2. CASE UNCHANGED vars
    BY <2>2 DEF vars, Showdown, Normals, AllIns
  <2> QED
    BY <2>1, <2>2
<1> QED
  BY <1>1, <1>2, PTL DEF Spec

(* What a showdown hands to Dispatch. *)
LEMMA ShowdownIs ==
  ASSUME Showdown
  PROVE  /\ Normals \in SUBSET Seat /\ AllIns \in SUBSET Seat /\ Normals \cap AllIns = {}
         /\ total \in [Seat -> Chips] /\ SumOf(total) \in Chips /\ rank \in [Seat -> Nat]
         /\ Nobody(Normals, AllIns) <=> Contenders = {}
         /\ Done => divided = Dispatch(Normals, AllIns, total, SumOf(total), rank)
<1>1. total \in [Seat -> 0 .. MaxStake]
  BY DEF Showdown
<1>2. total \in [Seat -> Chips] /\ SumOf(total) \in Chips
  BY <1>1, StakesFit
<1> QED
  BY <1>2 DEF Showdown, Normals, AllIns, Nobody, Contenders, Done

(* The pots hold the whole pot, and it is paid out, but for remainders, to *)
(* players who did not fold, at every showdown (Pot::Dispatch).            *)
THEOREM WholePot == Spec => []WholePotDivided
<1>1. Showdown => WholePotDivided
  <2> SUFFICES ASSUME Showdown, Done, Contenders # {}
               PROVE  /\ Amounts(divided.pots) = SumOf(total)
                      /\ \A s \in Seat \ Contenders : divided.paid[s] = 0
                      /\ SumOf(total) - SumOf(divided.paid) \in 0 .. DroppedOf(divided.pots)
    BY DEF WholePotDivided
  <2>1. /\ Normals \in SUBSET Seat /\ AllIns \in SUBSET Seat /\ ~Nobody(Normals, AllIns)
        /\ total \in [Seat -> Chips] /\ SumOf(total) \in Chips /\ rank \in [Seat -> Nat]
        /\ divided = Dispatch(Normals, AllIns, total, SumOf(total), rank)
    BY ShowdownIs
  <2>2. /\ Amounts(divided.pots) = SumOf(total)
        /\ SumOf(total) - SumOf(divided.paid) \in 0 .. DroppedOf(divided.pots)
    BY <2>1, DispatchWhole
  <2>3. \A s \in Seat \ (Normals \cup AllIns) : divided.paid[s] = 0
    BY <2>1, DispatchPaysStayers
  <2> QED
    BY <2>2, <2>3 DEF Contenders
<1> QED
  BY <1>1, ShowdownKept, PTL
-----------------------------------------------------------------------------
(* One turn of the loop over the all-in players (Pot.cpp:86-116), spelled  *)
(* out: nothing is left to do, or some all-in player's turn it is.         *)
Asked(a, normals, stakes, left) ==
  SideAmount(Cardinality(Above(a, normals, stakes)), stakes[a], left)

SideOf(a, normals, stakes, left, ranks) ==
  PotOf({a} \cup Above(a, normals, stakes), Asked(a, normals, stakes, left), ranks)

TurnTaken(p, u, a, normals, stakes, ranks) ==
  /\ u.todo = p.todo \ {a}
  /\ Asked(a, normals, stakes, p.left) \in 0 .. p.left
  /\ u.left = p.left - Asked(a, normals, stakes, p.left)
  /\ Asked(a, normals, stakes, p.left) = 0 => u.pots = p.pots /\ u.paid = p.paid
  /\ Asked(a, normals, stakes, p.left) # 0 =>
       /\ u.pots = Append(p.pots, SideOf(a, normals, stakes, p.left, ranks))
       /\ u.paid = PayTo(p.paid, SideOf(a, normals, stakes, p.left, ranks))

LEMMA OneTurn ==
  ASSUME NEW p \in Sides, p.todo # {}, NEW normals \in SUBSET Seat,
         NEW stakes \in [Seat -> Chips], NEW ranks \in [Seat -> Nat]
  PROVE  \E a \in p.todo :
           TurnTaken(p, TakeSidePot(p, normals, stakes, ranks), a, normals, stakes, ranks)
<1> DEFINE a      == CHOOSE x \in p.todo : \A y \in p.todo : stakes[x] =< stakes[y]
           amount == Asked(a, normals, stakes, p.left)
           side   == SideOf(a, normals, stakes, p.left, ranks)
           u      == TakeSidePot(p, normals, stakes, ranks)
<1>1. a \in p.todo
  <2>1. p.todo \in SUBSET Seat
    BY DEF Sides
  <2> QED
    BY <2>1, LeastTotal
<1>2. u = IF amount = 0 THEN [p EXCEPT !.todo = @ \ {a}]
          ELSE [p EXCEPT !.todo = @ \ {a}, !.left = LeftAfter(@, amount),
                         !.pots = Append(@, side), !.paid = PayTo(@, side)]
  BY DEF TakeSidePot, SideOf, Asked, Above
<1> HIDE DEF a, u
<1>3. amount \in 0 .. p.left /\ p.left \in Chips
  <2>1. Above(a, normals, stakes) \in SUBSET Seat
    BY DEF Above
  <2>2. Cardinality(Above(a, normals, stakes)) \in Nat
    BY <2>1, SeatsFinite, FS_CardinalityType
  <2>3. a \in Seat /\ stakes[a] \in Int
    BY <1>1 DEF Sides, Chips
  <2>4. Cardinality(Above(a, normals, stakes)) * stakes[a] \in Int
    BY <2>2, <2>3
  <2>5. (Cardinality(Above(a, normals, stakes)) * stakes[a]) % ChipMod \in Chips
    BY <2>4, WrapType
  <2>6. p.left \in Chips
    BY DEF Sides
  <2> QED
    BY <2>5, <2>6 DEF Asked, SideAmount, Least, Chips
<1> HIDE DEF amount, side
<1>4. LeftAfter(p.left, amount) = p.left - amount
  BY <1>3, PotAssumption DEF LeftAfter, Minus, Chips
<1>5. amount = 0 => p.left - amount = p.left
  BY <1>3 DEF Chips
<1>6. /\ u.todo = p.todo \ {a}
      /\ u.left = p.left - amount
      /\ amount = 0 => u.pots = p.pots /\ u.paid = p.paid
      /\ amount # 0 => u.pots = Append(p.pots, side) /\ u.paid = PayTo(p.paid, side)
  BY <1>2, <1>4, <1>5 DEF Sides
<1>7. TurnTaken(p, u, a, normals, stakes, ranks)
  BY <1>3, <1>6 DEF TurnTaken, amount, side
<1> QED
  BY <1>1, <1>7 DEF u
-----------------------------------------------------------------------------
(* Who cannot win.                                                         *)

(* A pot pays nothing to a player whom another player of it beats. *)
LEMMA BeatenInPot ==
  ASSUME NEW players \in SUBSET Seat, NEW amount, NEW ranks \in [Seat -> Nat], NEW paid,
         NEW c \in Seat, c \in players => \E o \in players : ranks[o] > ranks[c]
  PROVE  PayTo(paid, PotOf(players, amount, ranks))[c] = paid[c]
<1>1. c \notin PotOf(players, amount, ranks).winners
  <2>1. ASSUME NEW o \in players, ranks[o] > ranks[c], c \in players PROVE ~(ranks[o] =< ranks[c])
    <3>1. ranks[o] \in Nat /\ ranks[c] \in Nat
      OBVIOUS
    <3> QED
      BY <2>1, <3>1
  <2> QED
    BY <2>1 DEF PotOf, CalWinner
<1> HIDE DEF PotOf
<1> QED
  BY <1>1 DEF PayTo

(* Accounts in which c has been paid nothing. *)
Unpaid(allIns, c) == {p \in Sides : p.todo \subseteq allIns /\ p.paid[c] = 0}

(* No pot pays who is outplayed. *)
NothingForOutplayed(normals, allIns, stakes, pot, ranks) ==
  \A c \in normals \cup allIns, o \in normals :
    /\ ranks[o] > ranks[c]
    /\ stakes[o] > stakes[c] \/ (c \in normals /\ stakes[o] = stakes[c])
    => Dispatch(normals, allIns, stakes, pot, ranks).paid[c] = 0

(* Where o, who is not all in, beats c and has staked more - or as much    *)
(* and c is not all in either -, no pot pays c: o takes part in each side  *)
(* pot of c, and in the main pot (Pot.cpp:86-116).                         *)
THEOREM OutplayedIsUnpaid ==
  ASSUME NEW normals \in SUBSET Seat, NEW allIns \in SUBSET Seat, normals \cap allIns = {},
         NEW stakes \in [Seat -> Chips], NEW pot \in Chips, NEW ranks \in [Seat -> Nat]
  PROVE  NothingForOutplayed(normals, allIns, stakes, pot, ranks)
<1> SUFFICES ASSUME NEW c \in normals \cup allIns, NEW o \in normals, ranks[o] > ranks[c],
                    stakes[o] > stakes[c] \/ (c \in normals /\ stakes[o] = stakes[c])
             PROVE  Dispatch(normals, allIns, stakes, pot, ranks).paid[c] = 0
  BY DEF NothingForOutplayed
<1> DEFINE sides == SidePots(normals, allIns, stakes, pot, ranks)
           main  == PotOf(MainPlayers(normals, allIns), sides.left, ranks)
<1>0. c \in Seat /\ o \in Seat /\ \A s \in Seat : stakes[s] \in Int
  BY DEF Chips
<1>1. [todo |-> allIns, left |-> pot, pots |-> << >>, paid |-> [x \in Seat |-> 0]]
        \in Unpaid(allIns, c)
  BY <1>0, ZeroIsChips DEF Sides, Unpaid
<1>2. ASSUME NEW p \in Unpaid(allIns, c)
      PROVE  TakeSidePot(p, normals, stakes, ranks) \in Unpaid(allIns, c)
  <2> DEFINE u == TakeSidePot(p, normals, stakes, ranks)
  <2>1. p \in Sides /\ p.todo \subseteq allIns /\ p.paid[c] = 0 /\ u \in Sides
    BY TakeSidePotType DEF Unpaid
  <2>2. CASE p.todo = {}
    BY <2>2 DEF TakeSidePot
  <2>3. CASE p.todo # {}
    <3>1. PICK a \in p.todo : TurnTaken(p, u, a, normals, stakes, ranks)
      BY <2>1, <2>3, OneTurn
    <3> DEFINE players == {a} \cup Above(a, normals, stakes)
    <3>2. players \in SUBSET Seat
      BY <2>1 DEF Above, Sides
    <3>3. c \in players => \E x \in players : ranks[x] > ranks[c]
      BY <1>0, <2>1 DEF Above
    <3> DEFINE amount == Asked(a, normals, stakes, p.left)
    <3>4. SideOf(a, normals, stakes, p.left, ranks) = PotOf(players, amount, ranks)
      BY DEF SideOf
    <3> HIDE DEF players, amount
    <3>5. PayTo(p.paid, SideOf(a, normals, stakes, p.left, ranks))[c] = p.paid[c]
      <4>1. PayTo(p.paid, PotOf(players, amount, ranks))[c] = p.paid[c]
        <5>1. c \in Seat /\ ranks \in [Seat -> Nat]
          BY <1>0
        <5> QED
          BY ONLY <3>2, <3>3, <5>1, BeatenInPot
      <4> QED
        BY <3>4, <4>1
    <3> HIDE DEF u
    <3> QED
      BY <2>1, <3>1, <3>5 DEF TurnTaken, Unpaid, u
  <2> QED
    BY <2>2, <2>3
<1>3. sides \in Unpaid(allIns, c)
  BY <1>1, <1>2, SidePotsKeep
<1> HIDE DEF sides
<1>4. PayTo(sides.paid, main)[c] = 0
  <2>1. MainPlayers(normals, allIns) \in SUBSET Seat
        /\ o \in MainPlayers(normals, allIns)
    BY DEF MainPlayers
  <2>2. PayTo(sides.paid, main)[c] = sides.paid[c]
    BY <1>0, <2>1, BeatenInPot
  <2> QED
    BY <1>3, <2>2 DEF Unpaid
<1>5. ~Nobody(normals, allIns)
  BY DEF Nobody
<1>6. Dispatch(normals, allIns, stakes, pot, ranks).paid \in {sides.paid, PayTo(sides.paid, main)}
  <2> HIDE DEF main
  <2> QED
    BY <1>5 DEF Dispatch, sides, main
<1> QED
  BY <1>3, <1>4, <1>6 DEF Unpaid

(* So at every showdown. *)
THEOREM TheOutplayed == Spec => []OutplayedGetNothing
<1>1. Showdown => OutplayedGetNothing
  <2> SUFFICES ASSUME Showdown, Done, NEW c \in Contenders, NEW o \in Normals, Outplays(o, c),
                      total[o] > total[c] \/ (c \in Normals /\ total[o] = total[c])
               PROVE  divided.paid[c] = 0
    BY DEF OutplayedGetNothing
  <2> HIDE DEF Normals, AllIns
  <2>1. /\ Normals \in SUBSET Seat /\ AllIns \in SUBSET Seat /\ Normals \cap AllIns = {}
        /\ total \in [Seat -> Chips] /\ SumOf(total) \in Chips /\ rank \in [Seat -> Nat]
        /\ divided = Dispatch(Normals, AllIns, total, SumOf(total), rank)
    BY ShowdownIs
  <2>2. /\ c \in Normals \cup AllIns /\ o \in Normals /\ rank[o] > rank[c]
        /\ total[o] > total[c] \/ (c \in Normals /\ total[o] = total[c])
    BY DEF Contenders, Outplays
  <2>3. NothingForOutplayed(Normals, AllIns, total, SumOf(total), rank)
    BY <2>1, OutplayedIsUnpaid
  <2> QED
    BY <2>1, <2>2, <2>3 DEF NothingForOutplayed
<1> QED
  BY <1>1, ShowdownKept, PTL
-----------------------------------------------------------------------------
(* What the all-in players ask for.                                        *)

LEMMA OwedType ==
  ASSUME NEW normals \in SUBSET Seat, NEW stakes \in [Seat -> Chips], NEW a \in Seat
  PROVE  Cardinality(Above(a, normals, stakes)) \in Nat /\ Owed(a, normals, stakes) \in Nat
<1>1. Above(a, normals, stakes) \in SUBSET Seat
  BY DEF Above
<1>2. Cardinality(Above(a, normals, stakes)) \in Nat
  BY <1>1, SeatsFinite, FS_CardinalityType
<1>3. stakes[a] \in Nat
  BY DEF Chips
<1>4. \A x, y \in Nat : x * y \in Nat
  OBVIOUS
<1> QED
  BY <1>2, <1>3, <1>4 DEF Owed

(* Two groups ask for what each of them asks for. *)
LEMMA DueAdds ==
  ASSUME NEW normals \in SUBSET Seat, NEW stakes \in [Seat -> Chips],
         NEW X \in SUBSET Seat, NEW Y \in SUBSET Seat, X \cap Y = {}
  PROVE  /\ SumOf(Due(X, normals, stakes)) \in Nat /\ SumOf(Due(Y, normals, stakes)) \in Nat
         /\ SumOf(Due(X \cup Y, normals, stakes)) =
              SumOf(Due(X, normals, stakes)) + SumOf(Due(Y, normals, stakes))
<1> DEFINE f == Due(X, normals, stakes)
           g == Due(Y, normals, stakes)
           h == Due(X \cup Y, normals, stakes)
<1>1. MaxPlayerNumber \in Nat
  BY PotAssumption
<1>2. \A k \in 0 .. MaxPlayerNumber - 1 : f[k] \in Nat /\ g[k] \in Nat /\ h[k] = f[k] + g[k]
  BY OwedType DEF Due, Seat
<1> HIDE DEF f, g, h
<1>3. SumTo(f, MaxPlayerNumber) \in Nat /\ SumTo(g, MaxPlayerNumber) \in Nat
  BY <1>1, <1>2, SumToType
<1>4. SumTo(h, MaxPlayerNumber) = SumTo(f, MaxPlayerNumber) + SumTo(g, MaxPlayerNumber)
  <2>1. \A k \in 0 .. MaxPlayerNumber - 1 : f[k] \in Int /\ g[k] \in Int /\ h[k] = f[k] + g[k]
    BY <1>2
  <2> QED
    BY <1>1, <2>1, SumToPlus
<1> QED
  BY <1>3, <1>4 DEF SumOf, f, g, h

(* One player asks for one side pot. *)
LEMMA DueOfOne ==
  ASSUME NEW normals \in SUBSET Seat, NEW stakes \in [Seat -> Chips], NEW a \in Seat
  PROVE  SumOf(Due({a}, normals, stakes)) = Owed(a, normals, stakes)
<1> DEFINE f == Due({a}, normals, stakes)
<1>1. MaxPlayerNumber \in Nat /\ a \in Nat /\ a < MaxPlayerNumber
  BY PotAssumption DEF Seat
<1>2. f[a] = Owed(a, normals, stakes) /\ f[a] \in Int
  BY OwedType DEF Due
<1>3. \A k \in 0 .. MaxPlayerNumber - 1 : k # a => f[k] = 0
  BY DEF Due, Seat
<1> HIDE DEF f
<1>4. SumTo(f, MaxPlayerNumber) = IF a < MaxPlayerNumber THEN f[a] ELSE 0
  BY <1>1, <1>2, <1>3, SumToSingle
<1> QED
  BY <1>1, <1>2, <1>4 DEF SumOf, f

LEMMA DueOfNone ==
  ASSUME NEW normals \in SUBSET Seat, NEW stakes \in [Seat -> Chips]
  PROVE  SumOf(Due({}, normals, stakes)) = 0
<1>1. MaxPlayerNumber \in Nat
      /\ \A k \in 0 .. MaxPlayerNumber - 1 : Due({}, normals, stakes)[k] = 0
  BY PotAssumption DEF Due, Seat
<1> QED
  BY <1>1, SumToZero DEF SumOf

(* A side pot that holds what its all-in player asks for, and one that     *)
(* holds less.                                                             *)
IsSide(q, allIns, normals, stakes) ==
  \E a \in allIns : /\ q.players = {a} \cup Above(a, normals, stakes)
                    /\ q.amount = Owed(a, normals, stakes)

IsCut(q, allIns, normals, stakes) ==
  \E a \in allIns : /\ q.players = {a} \cup Above(a, normals, stakes)
                    /\ q.amount \in 1 .. Owed(a, normals, stakes) - 1

(* Accounts in which the players who had their turn asked for no more than *)
(* the pot and got it; and those in which they asked for more.             *)
GotAll(p, asked, allIns, normals, stakes, pot) ==
  /\ p.left + asked = pot
  /\ \A i \in DOMAIN p.pots : IsSide(p.pots[i], allIns, normals, stakes)

RanOut(p, asked, allIns, normals, stakes, pot) ==
  /\ p.left = 0 /\ asked > pot
  /\ \A i \in DOMAIN p.pots :
       \/ IsSide(p.pots[i], allIns, normals, stakes)
       \/ i = Len(p.pots) /\ IsCut(p.pots[i], allIns, normals, stakes)

(* After n turns at least n players have had theirs, or all. *)
Taken(n, normals, allIns, stakes, pot) ==
  {p \in Sides :
     LET asked == SumOf(Due(allIns \ p.todo, normals, stakes))
     IN  /\ p.todo \subseteq allIns
         /\ p.todo = {} \/ Cardinality(p.todo) =< MaxPlayerNumber - n
         /\ \/ GotAll(p, asked, allIns, normals, stakes, pot)
            \/ RanOut(p, asked, allIns, normals, stakes, pot)}

(* A turn takes what its player asks for, or what is left if that is less  *)
(* (Pot.cpp:96).  What is asked for does not wrap.                         *)
LEMMA TurnTakes ==
  ASSUME NEW normals \in SUBSET Seat, NEW allIns \in SUBSET Seat,
         NEW stakes \in [Seat -> Chips], NEW pot \in Chips, NEW ranks \in [Seat -> Nat],
         \A a \in allIns : Owed(a, normals, stakes) < ChipMod,
         NEW n \in 0 .. MaxPlayerNumber - 1, NEW p \in Taken(n, normals, allIns, stakes, pot)
  PROVE  TakeSidePot(p, normals, stakes, ranks) \in Taken(n + 1, normals, allIns, stakes, pot)
<1> DEFINE u    == TakeSidePot(p, normals, stakes, ranks)
           D(X) == SumOf(Due(X, normals, stakes))
<1>1. /\ p \in Sides /\ u \in Sides /\ p.todo \subseteq allIns
      /\ p.todo = {} \/ Cardinality(p.todo) =< MaxPlayerNumber - n
      /\ \/ GotAll(p, D(allIns \ p.todo), allIns, normals, stakes, pot)
         \/ RanOut(p, D(allIns \ p.todo), allIns, normals, stakes, pot)
  BY TakeSidePotType DEF Taken
<1>2. CASE p.todo = {}
  <2>1. u = p
    BY <1>2 DEF TakeSidePot
  <2> QED
    BY <1>1, <1>2, <2>1 DEF Taken
<1>3. CASE p.todo # {}
  <2>1. PICK a \in p.todo : TurnTaken(p, u, a, normals, stakes, ranks)
    BY <1>1, <1>3, OneTurn
  <2> DEFINE done == allIns \ p.todo
             owed == Owed(a, normals, stakes)
             side == SideOf(a, normals, stakes, p.left, ranks)
             asked == Asked(a, normals, stakes, p.left)
  <2>2. /\ done \in SUBSET Seat /\ a \in Seat /\ a \in allIns /\ {a} \in SUBSET Seat
        /\ done \cap {a} = {} /\ allIns \ (p.todo \ {a}) = done \cup {a}
    BY <1>1, <2>1 DEF Sides
  <2>3. owed \in Nat /\ owed < ChipMod /\ p.left \in Nat /\ pot \in Nat /\ ChipMod \in Nat \ {0}
    <3>1. owed \in Nat
      BY <2>2, OwedType
    <3>2. owed < ChipMod
      BY <2>2
    <3>3. p.left \in Chips /\ pot \in Chips
      BY <1>1 DEF Sides
    <3> HIDE DEF owed
    <3> QED
      BY <3>1, <3>2, <3>3, PotAssumption DEF Chips
  <2>4. D(done) \in Nat /\ D(done \cup {a}) = D(done) + owed
    <3>1. \A X, Y \in SUBSET Seat :
            X \cap Y = {} => D(X) \in Nat /\ D(Y) \in Nat /\ D(X \cup Y) = D(X) + D(Y)
      BY DueAdds
    <3>2. D({a}) = owed
      BY <2>2, DueOfOne
    <3> HIDE DEF D, done, owed
    <3> QED
      BY <2>2, <3>1, <3>2
  <2>5. asked = Least(owed, p.left)
    <3>1. asked = Least(owed % ChipMod, p.left)
      BY DEF Asked, SideAmount, Owed
    <3> HIDE DEF asked, owed
    <3>2. owed % ChipMod = owed
      BY <2>3
    <3> QED
      BY <3>1, <3>2
  <2>6. /\ u.todo = p.todo \ {a} /\ u.left = p.left - asked
        /\ asked = 0 => u.pots = p.pots
        /\ asked # 0 => u.pots = Append(p.pots, side)
    BY <2>1 DEF TurnTaken
  <2>7. side.players = {a} \cup Above(a, normals, stakes) /\ side.amount = asked
    BY DEF SideOf, PotOf
  <2>8. p.pots \in Seq(PotRecord)
    BY <1>1 DEF Sides
  <2>9. u.todo = {} \/ Cardinality(u.todo) =< MaxPlayerNumber - (n + 1)
    <3>1. IsFiniteSet(p.todo)
      BY <1>1, SeatsFinite DEF Sides
    <3>2. Cardinality(p.todo) \in Nat /\ Cardinality(p.todo \ {a}) = Cardinality(p.todo) - 1
      BY <2>1, <3>1, FS_CardinalityType, FS_RemoveElement
    <3> HIDE DEF u
    <3> QED
      BY <1>1, <1>3, <2>6, <3>2, PotAssumption
  <2>10. D(allIns \ u.todo) = D(done) + owed
    <3> HIDE DEF u, D, done, owed
    <3> QED
      BY <2>2, <2>4, <2>6
  <2> HIDE DEF u, D, owed, side, asked
  <2>11. \/ GotAll(u, D(allIns \ u.todo), allIns, normals, stakes, pot)
         \/ RanOut(u, D(allIns \ u.todo), allIns, normals, stakes, pot)
    <3>1. CASE GotAll(p, D(done), allIns, normals, stakes, pot) /\ owed =< p.left
      <4>1. asked = owed
        BY <2>3, <2>5, <3>1 DEF Least
      <4>2. IsSide(side, allIns, normals, stakes)
        BY <2>2, <2>7, <4>1 DEF IsSide, owed
      <4>3. \A i \in DOMAIN u.pots : IsSide(u.pots[i], allIns, normals, stakes)
        <5>1. \A i \in DOMAIN Append(p.pots, side) :
                IsSide(Append(p.pots, side)[i], allIns, normals, stakes)
          BY <2>8, <3>1, <4>2 DEF GotAll
        <5> QED
          BY <2>6, <3>1, <5>1 DEF GotAll
      <4>4. u.left + (D(done) + owed) = pot
        BY <2>3, <2>4, <2>6, <3>1, <4>1 DEF GotAll
      <4> QED
        BY <2>10, <4>3, <4>4 DEF GotAll
    <3>2. CASE GotAll(p, D(done), allIns, normals, stakes, pot) /\ owed > p.left
      <4>1. asked = p.left /\ u.left = 0
        BY <2>3, <2>5, <2>6, <3>2 DEF Least
      <4>2. D(done) + owed > pot
        BY <2>3, <2>4, <3>2 DEF GotAll
      <4>3. asked # 0 => IsCut(side, allIns, normals, stakes)
        <5>1. asked # 0 => asked \in 1 .. owed - 1
          BY <2>3, <3>2, <4>1
        <5> QED
          BY <2>2, <2>7, <5>1 DEF IsCut, owed
      <4>4. \A i \in DOMAIN u.pots :
              \/ IsSide(u.pots[i], allIns, normals, stakes)
              \/ i = Len(u.pots) /\ IsCut(u.pots[i], allIns, normals, stakes)
        <5>1. CASE asked = 0
          BY <2>6, <3>2, <5>1 DEF GotAll
        <5>2. CASE asked # 0
          <6> DEFINE q == Append(p.pots, side)
          <6>1. /\ Len(q) = Len(p.pots) + 1 /\ q[Len(q)] = side
                /\ \A i \in DOMAIN q : i # Len(q) => i \in DOMAIN p.pots /\ q[i] = p.pots[i]
            BY <2>8
          <6>2. u.pots = q
            BY <2>6, <5>2
          <6> HIDE DEF q
          <6> QED
            BY <3>2, <4>3, <5>2, <6>1, <6>2 DEF GotAll
        <5> QED
          BY <5>1, <5>2
      <4> QED
        BY <2>10, <4>1, <4>2, <4>4 DEF RanOut
    <3>3. CASE RanOut(p, D(done), allIns, normals, stakes, pot)
      <4>1. asked = 0 /\ u.left = 0 /\ u.pots = p.pots
        BY <2>3, <2>5, <2>6, <3>3 DEF Least, RanOut
      <4>2. D(done) + owed > pot
        BY <2>3, <2>4, <3>3 DEF RanOut
      <4> QED
        BY <2>10, <3>3, <4>1, <4>2 DEF RanOut
    <3> QED
      BY <1>1, <2>3, <3>1, <3>2, <3>3
  <2>12. u.todo \subseteq allIns
    BY <1>1, <2>6
  <2> QED
    BY <1>1, <2>9, <2>11, <2>12 DEF Taken, D, u
<1> QED
  BY <1>2, <1>3

(* So when the loop is over every all-in player has had a turn.            *)
LEMMA LoopTakes ==
  ASSUME NEW normals \in SUBSET Seat, NEW allIns \in SUBSET Seat,
         NEW stakes \in [Seat -> Chips], NEW pot \in Chips, NEW ranks \in [Seat -> Nat],
         \A a \in allIns : Owed(a, normals, stakes) < ChipMod
  PROVE  LET sides == SidePots(normals, allIns, stakes, pot, ranks)
             asked == SumOf(Due(allIns, normals, stakes))
         IN  /\ sides \in Sides
             /\ \/ GotAll(sides, asked, allIns, normals, stakes, pot)
                \/ RanOut(sides, asked, allIns, normals, stakes, pot)
<1> DEFINE sides == SidePots(normals, allIns, stakes, pot, ranks)
           first == [todo |-> allIns, left |-> pot, pots |-> << >>, paid |-> [s \in Seat |-> 0]]
           Good == [n \in 0 .. MaxPlayerNumber |-> Taken(n, normals, allIns, stakes, pot)]
<1>0. MaxPlayerNumber \in Nat /\ pot \in Nat
  BY PotAssumption DEF Chips
<1>1. first \in Taken(0, normals, allIns, stakes, pot)
  <2>1. first \in Sides
    BY ZeroIsChips DEF Sides
  <2>2. SumOf(Due(allIns \ first.todo, normals, stakes)) = 0
    <3>1. allIns \ first.todo = {}
      OBVIOUS
    <3> QED
      BY <3>1, DueOfNone
  <2>3. Cardinality(allIns) =< MaxPlayerNumber - 0
    <3>1. IsFiniteSet(Seat) /\ Cardinality(Seat) = MaxPlayerNumber
      <4>1. /\ 0 \in Int /\ MaxPlayerNumber - 1 \in Int
            /\ (MaxPlayerNumber - 1) - 0 + 1 = MaxPlayerNumber /\ 0 =< MaxPlayerNumber - 1
        BY PotAssumption
      <4> QED
        BY <4>1, FS_Interval DEF Seat
    <3> QED
      BY <1>0, <3>1, FS_Subset, FS_CardinalityType
  <2>4. GotAll(first, 0, allIns, normals, stakes, pot)
    BY <1>0 DEF GotAll
  <2>5. first.todo \subseteq allIns /\ first.todo = allIns
    OBVIOUS
  <2> HIDE DEF first
  <2> QED
    BY <2>1, <2>2, <2>3, <2>4, <2>5 DEF Taken
<1>2. \A n \in 0 .. MaxPlayerNumber - 1 :
        \A p \in Taken(n, normals, allIns, stakes, pot) :
          TakeSidePot(p, normals, stakes, ranks) \in Taken(n + 1, normals, allIns, stakes, pot)
  BY TurnTakes
<1>3. first \in Good[0]
  <2> HIDE DEF first
  <2> QED
    BY <1>0, <1>1
<1>4. \A n \in 0 .. MaxPlayerNumber - 1 :
        \A p \in Good[n] : TakeSidePot(p, normals, stakes, ranks) \in Good[n + 1]
  <2> TAKE n \in 0 .. MaxPlayerNumber - 1
  <2>1. n \in 0 .. MaxPlayerNumber /\ n + 1 \in 0 .. MaxPlayerNumber
    BY <1>0
  <2>2. Good[n] = Taken(n, normals, allIns, stakes, pot)
        /\ Good[n + 1] = Taken(n + 1, normals, allIns, stakes, pot)
    BY <2>1
  <2> HIDE DEF Good
  <2> QED
    BY <1>2, <2>2
<1>5. Good[MaxPlayerNumber] = Taken(MaxPlayerNumber, normals, allIns, stakes, pot)
  BY <1>0
<1> HIDE DEF Good
<1>6. sides \in Taken(MaxPlayerNumber, normals, allIns, stakes, pot)
  <2>1. sides \in Good[MaxPlayerNumber]
    BY <1>3, <1>4, SidePotsReach
  <2> QED
    BY <1>5, <2>1
<1> HIDE DEF sides
<1>7. sides.todo = {}
  <2>1. sides.todo = {} \/ Cardinality(sides.todo) =< 0
    BY <1>0, <1>6 DEF Taken
  <2>2. IsFiniteSet(sides.todo)
    BY <1>6, SeatsFinite DEF Taken, Sides
  <2> QED
    BY <2>1, <2>2, FS_CardinalityType, FS_EmptySet
<1>8. allIns \ sides.todo = allIns
  BY <1>7
<1> QED
  BY <1>6, <1>8 DEF Taken, sides
-----------------------------------------------------------------------------
(* What Dispatch announces: unless the side pots ask for the whole pot,    *)
(* the first is the main pot, with what they leave, and its winners are    *)
(* paid their share in full; the others are one all-in player's each, and  *)
(* hold what that player asks for, but the last where they ask for more    *)
(* than the pot.                                                           *)
THEOREM WhatIsAnnounced ==
  ASSUME NEW normals \in SUBSET Seat, NEW allIns \in SUBSET Seat,
         ~Nobody(normals, allIns), NEW stakes \in [Seat -> Chips], NEW pot \in Chips,
         NEW ranks \in [Seat -> Nat],
         \A a \in allIns : Owed(a, normals, stakes) < ChipMod
  PROVE  LET d     == Dispatch(normals, allIns, stakes, pot, ranks)
             asked == SumOf(Due(allIns, normals, stakes))
             side  == IF asked < pot THEN 2 ELSE 1
             main  == d.pots[1]
         IN  /\ \A i \in side .. Len(d.pots) :
                  \/ IsSide(d.pots[i], allIns, normals, stakes)
                  \/ /\ asked > pot /\ i = Len(d.pots)
                     /\ IsCut(d.pots[i], allIns, normals, stakes)
             /\ asked < pot =>
                  /\ main.amount = pot - asked
                  /\ main.winners = CalWinner(normals \cup allIns, ranks)
                  /\ \A c \in main.winners :
                       d.paid[c] >= main.amount \div Cardinality(main.winners)
<1> DEFINE sides == SidePots(normals, allIns, stakes, pot, ranks)
           main  == PotOf(MainPlayers(normals, allIns), sides.left, ranks)
           d     == Dispatch(normals, allIns, stakes, pot, ranks)
           first == [todo |-> allIns, left |-> pot, pots |-> << >>, paid |-> [s \in Seat |-> 0]]
           asked == SumOf(Due(allIns, normals, stakes))
<1>0. pot \in Nat /\ ChipMod \in Nat \ {0} /\ pot < ChipMod
  BY PotAssumption DEF Chips
<1>1. /\ sides \in Sides
      /\ \/ GotAll(sides, asked, allIns, normals, stakes, pot)
         \/ RanOut(sides, asked, allIns, normals, stakes, pot)
  BY LoopTakes
<1>2. sides \in Audited(pot)
  <2>1. first \in Audited(pot)
    BY FirstIsAudited
  <2> QED
    BY <2>1, TakeSidePotAudited, SidePotsKeep
<1>3. d = IF sides.left = 0 THEN [pots |-> sides.pots, paid |-> sides.paid]
          ELSE [pots |-> <<main>> \o sides.pots, paid |-> PayTo(sides.paid, main)]
  BY DEF Dispatch
<1>4. asked \in Nat
  <2>1. {} \in SUBSET Seat /\ allIns \cap {} = {}
    OBVIOUS
  <2> QED
    BY <2>1, DueAdds
<1> HIDE DEF sides, first, asked
<1>5. /\ sides.left \in Nat /\ sides.left \in Chips /\ sides.pots \in Seq(PotRecord)
      /\ sides.paid \in [Seat -> Chips]
  BY <1>1 DEF Sides, Chips
<1>6. /\ asked < pot => sides.left = pot - asked /\ sides.left > 0
      /\ ~(asked < pot) => sides.left = 0
      /\ ~(asked > pot) => \A i \in DOMAIN sides.pots : IsSide(sides.pots[i], allIns, normals, stakes)
      /\ \A i \in DOMAIN sides.pots :
           \/ IsSide(sides.pots[i], allIns, normals, stakes)
           \/ i = Len(sides.pots) /\ IsCut(sides.pots[i], allIns, normals, stakes)
  <2>1. CASE GotAll(sides, asked, allIns, normals, stakes, pot)
    BY <1>0, <1>4, <1>5, <2>1 DEF GotAll
  <2>2. CASE RanOut(sides, asked, allIns, normals, stakes, pot)
    BY <1>0, <1>4, <1>5, <2>2 DEF RanOut
  <2> QED
    BY <1>1, <2>1, <2>2
<1>7. /\ MainPlayers(normals, allIns) \in SUBSET Seat
      /\ MainPlayers(normals, allIns) # {}
      /\ MainPlayers(normals, allIns) = normals \cup allIns
  BY DEF MainPlayers, Nobody
<1>8. /\ main \in PotRecord /\ main.rewards =< sides.left
      /\ main.amount = sides.left
      /\ main.winners = CalWinner(normals \cup allIns, ranks)
      /\ main.rewards = main.amount \div Cardinality(main.winners)
  <2>1. main \in PotRecord /\ main.rewards =< sides.left
    BY <1>5, <1>7, PotOfType
  <2> QED
    BY <1>7, <2>1 DEF PotOf
<1> HIDE DEF main, d
<1>9. CASE ~(asked < pot)
  <2>1. d.pots = sides.pots
    BY <1>3, <1>6, <1>9
  <2>2. \A i \in 1 .. Len(d.pots) :
          \/ IsSide(d.pots[i], allIns, normals, stakes)
          \/ asked > pot /\ i = Len(d.pots) /\ IsCut(d.pots[i], allIns, normals, stakes)
    BY <1>5, <1>6, <2>1
  <2> QED
    BY <1>9, <2>2 DEF d, asked
<1>10. CASE asked < pot
  <2>1. d.pots = <<main>> \o sides.pots /\ d.paid = PayTo(sides.paid, main)
    BY <1>3, <1>5, <1>6, <1>10
  <2>2. d.pots[1] = main /\ Len(d.pots) = Len(sides.pots) + 1
        /\ \A i \in 2 .. Len(d.pots) : i - 1 \in DOMAIN sides.pots /\ d.pots[i] = sides.pots[i - 1]
    <3>1. Len(<<main>>) = 1 /\ <<main>>[1] = main /\ <<main>> \in Seq(PotRecord)
      BY <1>8
    <3> QED
      BY <1>5, <2>1, <3>1
  <2>3. \A i \in 2 .. Len(d.pots) : IsSide(d.pots[i], allIns, normals, stakes)
    BY <1>0, <1>4, <1>6, <1>10, <2>2
  <2>4. ASSUME NEW c \in main.winners PROVE d.paid[c] >= main.rewards
    <3>1. c \in Seat
      BY <1>8 DEF PotRecord
    <3>2. d.paid[c] = Plus(sides.paid[c], main.rewards)
      BY <2>1, <2>4, <3>1 DEF PayTo
    <3>3. sides.paid[c] \in Nat /\ main.rewards \in Nat /\ SumOf(sides.paid) \in Nat
      BY <1>5, <1>8, <3>1, WinnersCounted, SumOfType DEF Chips
    <3>4. sides.paid[c] =< SumOf(sides.paid)
      <4>1. /\ MaxPlayerNumber \in Nat /\ c \in 0 .. MaxPlayerNumber - 1
            /\ \A k \in 0 .. MaxPlayerNumber - 1 : sides.paid[k] \in Nat
        BY <1>5, <3>1, PotAssumption DEF Seat, Chips
      <4> QED
        BY <4>1, SumToAtLeast DEF SumOf
    <3>5. DroppedOf(sides.pots) \in Nat
      BY <1>5, DroppedType
    <3>6. PICK lost \in 0 .. DroppedOf(sides.pots) : SumOf(sides.paid) + sides.left + lost = pot
      BY <1>2 DEF Audited
    <3>7. sides.paid[c] + main.rewards < ChipMod
      BY <1>0, <1>5, <1>8, <3>3, <3>4, <3>5, <3>6
    <3> QED
      BY <1>0, <3>2, <3>3, <3>7 DEF Plus
  <2>5. /\ d.pots[1].amount = pot - asked
        /\ d.pots[1].winners = CalWinner(normals \cup allIns, ranks)
        /\ \A c \in d.pots[1].winners :
             d.paid[c] >= d.pots[1].amount \div Cardinality(d.pots[1].winners)
    BY <1>6, <1>8, <1>10, <2>2, <2>4
  <2> QED
    BY <1>10, <2>3, <2>5 DEF d, asked
<1> QED
  BY <1>9, <1>10
-----------------------------------------------------------------------------
(* Nobody at a showdown asks for more than a counter holds.                *)
LEMMA OwedFits ==
  ASSUME NEW normals \in SUBSET Seat, NEW stakes \in [Seat -> 0 .. MaxStake], NEW a \in Seat
  PROVE  Owed(a, normals, stakes) < ChipMod
<1> DEFINE W == Above(a, normals, stakes)
           f == [o \in Seat |-> IF o \in W THEN stakes[a] ELSE 0]
<1>1. MaxPlayerNumber \in Nat /\ W \in SUBSET (0 .. MaxPlayerNumber - 1)
      /\ MaxStake \in Nat /\ stakes[a] \in 0 .. MaxStake /\ stakes[a] \in Nat
  <2>1. W \in SUBSET Seat
    BY DEF Above
  <2> HIDE DEF W
  <2> QED
    BY <2>1, PotAssumption, PotDivisionAssumption DEF Seat
<1>2. \A k \in 0 .. MaxPlayerNumber - 1 : f[k] = IF k \in W THEN stakes[a] ELSE 0
  BY DEF Seat
<1>3. f \in [Seat -> 0 .. MaxStake]
  BY <1>1
<1> HIDE DEF f
<1>4. SumTo(f, MaxPlayerNumber) = Cardinality(W) * stakes[a]
  <2> HIDE DEF W
  <2> QED
    BY <1>1, <1>2, SumToShares
<1>5. SumOf(f) < ChipMod
  BY <1>3, StakesFit, PotAssumption DEF Chips
<1> QED
  BY <1>4, <1>5 DEF Owed, SumOf

(* What a showdown announces.                                              *)
LEMMA ShowdownAnnounces ==
  ASSUME Showdown, Done, Contenders # {}
  PROVE  LET main == divided.pots[1]
             side == IF SidesAsk < SumOf(total) THEN 2 ELSE 1
         IN  /\ \A i \in side .. Len(divided.pots) :
                  \/ IsSide(divided.pots[i], AllIns, Normals, total)
                  \/ /\ SidesAsk > SumOf(total) /\ i = Len(divided.pots)
                     /\ IsCut(divided.pots[i], AllIns, Normals, total)
             /\ SidesAsk < SumOf(total) =>
                  /\ main.amount = SumOf(total) - SidesAsk
                  /\ main.winners = CalWinner(Contenders, rank)
                  /\ \A c \in main.winners :
                       divided.paid[c] >= main.amount \div Cardinality(main.winners)
<1> HIDE DEF Normals, AllIns
<1>1. /\ Normals \in SUBSET Seat /\ AllIns \in SUBSET Seat
      /\ ~Nobody(Normals, AllIns)
      /\ total \in [Seat -> Chips] /\ SumOf(total) \in Chips /\ rank \in [Seat -> Nat]
      /\ divided = Dispatch(Normals, AllIns, total, SumOf(total), rank)
  BY ShowdownIs
<1>2. \A a \in AllIns : Owed(a, Normals, total) < ChipMod
  BY <1>1, OwedFits DEF Showdown
<1> DEFINE d == Dispatch(Normals, AllIns, total, SumOf(total), rank)
           asked == SumOf(Due(AllIns, Normals, total))
           side == IF asked < SumOf(total) THEN 2 ELSE 1
<1>3. /\ \A i \in side .. Len(d.pots) :
           \/ IsSide(d.pots[i], AllIns, Normals, total)
           \/ /\ asked > SumOf(total) /\ i = Len(d.pots)
              /\ IsCut(d.pots[i], AllIns, Normals, total)
      /\ asked < SumOf(total) =>
           /\ d.pots[1].amount = SumOf(total) - asked
           /\ d.pots[1].winners = CalWinner(Normals \cup AllIns, rank)
           /\ \A c \in d.pots[1].winners :
                d.paid[c] >= d.pots[1].amount \div Cardinality(d.pots[1].winners)
  BY <1>1, <1>2, WhatIsAnnounced
<1>4. divided = d /\ SidesAsk = asked
  BY <1>1 DEF SidesAsk
<1> HIDE DEF d, asked
<1> QED
  BY <1>3, <1>4 DEF Contenders

(* At every showdown each pot after the main pot is one all-in player's    *)
(* and asks each other player in it for that player's total, no more and   *)
(* no less; only the last may hold less, if they ask for more than was     *)
(* staked, and then there is no main pot.                                  *)
THEOREM SidesAreCovered == Spec => []OnlyTheLastIsCut
<1>1. Showdown => OnlyTheLastIsCut
  <2> DEFINE main == IF SidesAsk < SumOf(total) THEN 1 ELSE 0
             worth(a, p) == total[a] * Cardinality(p.players \ {a})
  <2> SUFFICES ASSUME Showdown, Done, Contenders # {},
                      NEW i \in main + 1 .. Len(divided.pots)
               PROVE  \E a \in AllIns :
                        /\ divided.pots[i].players \cap AllIns = {a}
                        /\ \/ divided.pots[i].amount = worth(a, divided.pots[i])
                           \/ /\ SidesAsk > SumOf(total) /\ i = Len(divided.pots)
                              /\ divided.pots[i].amount \in 1 .. worth(a, divided.pots[i]) - 1
    BY DEF OnlyTheLastIsCut
  <2> HIDE DEF Normals, AllIns
  <2> DEFINE p == divided.pots[i]
  <2>1. /\ Normals \in SUBSET Seat /\ AllIns \in SUBSET Seat /\ Normals \cap AllIns = {}
        /\ total \in [Seat -> Chips]
    BY ShowdownIs
  <2>2. \/ IsSide(p, AllIns, Normals, total)
        \/ /\ SidesAsk > SumOf(total) /\ i = Len(divided.pots)
           /\ IsCut(p, AllIns, Normals, total)
    <3> DEFINE side == IF SidesAsk < SumOf(total) THEN 2 ELSE 1
    <3>1. side = main + 1
      OBVIOUS
    <3>2. \A k \in side .. Len(divided.pots) :
            \/ IsSide(divided.pots[k], AllIns, Normals, total)
            \/ /\ SidesAsk > SumOf(total) /\ k = Len(divided.pots)
               /\ IsCut(divided.pots[k], AllIns, Normals, total)
      BY ShowdownAnnounces
    <3> HIDE DEF side, main
    <3> QED
      BY <3>1, <3>2
  <2> HIDE DEF p
  <2>3. PICK a \in AllIns : /\ p.players = {a} \cup Above(a, Normals, total)
                            /\ \/ p.amount = Owed(a, Normals, total)
                               \/ /\ SidesAsk > SumOf(total) /\ i = Len(divided.pots)
                                  /\ p.amount \in 1 .. Owed(a, Normals, total) - 1
    BY <2>2 DEF IsSide, IsCut
  <2>4. p.players \cap AllIns = {a} /\ p.players \ {a} = Above(a, Normals, total)
    BY <2>1, <2>3 DEF Above
  <2>5. Owed(a, Normals, total) = worth(a, p)
    <3>1. Cardinality(Above(a, Normals, total)) \in Nat /\ total[a] \in Nat
      <4>1. a \in Seat /\ \A s \in Seat : total[s] \in Nat
        BY <2>1 DEF Chips
      <4> QED
        BY <2>1, <4>1, OwedType
    <3>2. \A x, y \in Nat : x * y = y * x
      OBVIOUS
    <3> QED
      BY <2>4, <3>1, <3>2 DEF Owed
  <2> HIDE DEF worth
  <2> QED
    BY <2>3, <2>4, <2>5 DEF p
<1> QED
  BY <1>1, ShowdownKept, PTL

(* Unless the side pots ask for the whole pot, the main pot holds what     *)
(* they leave and the best hand is not sent away with nothing.             *)
THEOREM BestHandPaid == Spec => []BestHandIsPaid
<1>1. Showdown => BestHandIsPaid
  <2> DEFINE best == {c \in Contenders : \A o \in Contenders : ~Outplays(o, c)}
  <2> SUFFICES ASSUME Showdown, Done, Contenders # {}, SidesAsk < SumOf(total)
               PROVE  /\ divided.pots[1].amount = SumOf(total) - SidesAsk
                      /\ divided.pots[1].winners = best
                      /\ \A c \in best :
                           divided.paid[c] >= divided.pots[1].amount \div Cardinality(best)
    BY DEF BestHandIsPaid
  <2> HIDE DEF Normals, AllIns
  <2>1. Contenders \in SUBSET Seat /\ rank \in [Seat -> Nat]
    BY ShowdownIs DEF Contenders
  <2>2. best = CalWinner(Contenders, rank)
    BY <2>1 DEF CalWinner, Outplays
  <2> HIDE DEF best
  <2>3. /\ divided.pots[1].amount = SumOf(total) - SidesAsk
        /\ divided.pots[1].winners = best
        /\ \A c \in best : divided.paid[c] >= divided.pots[1].amount \div Cardinality(best)
    BY <2>2, ShowdownAnnounces
  <2> QED
    BY <2>3
<1> QED
  BY <1>1, ShowdownKept, PTL
=============================================================================

-------------------------- MODULE HoldemGameProofs --------------------------
(***************************************************************************)
(* What is true of a room under play for every number of seats, every      *)
(* stack, blind and width of the chip counters, and every order of         *)
(* messages and updates: proofs about module HoldemGame and, before them,  *)
(* about the methods of the room, module PokerRoom.                        *)
(*                                                                         *)
(* The methods.  Between two calls a table rests (Rests) or a hand waits   *)
(* in it (Waits).  Inside a call, when CheckTurn is about to decide how    *)
(* the hand goes on, it is in play (Plays).  A method that plays on keeps  *)
(* the pot the sum of the stakes (CarriesOn); one that may end the hand    *)
(* leaves the chips of the table as they were, but for what the divisions  *)
(* of the pots drop (Settles).  The lemmas follow the code upwards: the    *)
(* end of a hand (PotCalculationEnds), the streets from the last to the    *)
(* first (RiverCardFollows, RollCardFollows, ThreeCardsFollow), the turn   *)
(* of a player (ActionIsHeard, HandGoesOn), the start (StartNewGameStarts) *)
(* and the clock (ClockTicks).                                             *)
(*                                                                         *)
(* The game.  Between two steps a table either rests, or waits for a       *)
(* player in a betting state, and the pot holds the stakes (IInv).  The    *)
(* steps of the game are then of four kinds (StepKinds), and each property *)
(* is a short argument about the kinds.                                    *)
(***************************************************************************)
EXTENDS HoldemGame, PotProofs

-----------------------------------------------------------------------------
(* The methods of the room.                                                *)

(* A hand is on, and CheckTurn is called in betting state s. *)
Plays(t, s) ==
  /\ t \in TableIn({s})
  /\ ~t.waiting
  /\ t.board = CardsOut(s)
  /\ t.seated =< t.arrived
  /\ t.pot # NoPot /\ t.inProgress
  /\ t.betIndex \in Seated(t) /\ t.seated > 1
  /\ OnTable(t) # {}
  /\ t.result = NoResult
  /\ \A p \in Seated(t) : t.card[p] # "Raise"

(* Nobody gets chips but at the end of a hand, and then nobody who folded. *)
PaysStayers(t, u) ==
  \A p \in Seat : u.money[p] # t.money[p] => u.result.sent /\ p \in OnTable(t)

(* A hand was on and is over. *)
Ended(t) ==
  /\ Rests(t)
  /\ t.state = "Start" /\ ~t.inProgress /\ t.pot = NoPot

(* The fields the account of a table is kept in. *)
SameChips(t, u) ==
  /\ u.seated = t.seated /\ u.money = t.money /\ u.pot = t.pot
  /\ u.total = t.total /\ u.bet = t.bet

(* The account is carried on: no chips come or go, and stakes that are in  *)
(* the pot stay there.                                                     *)
CarriesOn(t, u) ==
  /\ Worth(u) \in Int /\ Same(Worth(u), Worth(t))
  /\ Staked(t) => Staked(u)

(* ... or closed: at the end chips are gone only as remainders, and the    *)
(* table is in balance.                                                    *)
Audit(t, u) ==
  /\ (Worth(t) - Worth(u)) % ChipMod \in 0 .. DroppedAtMost(u)
  /\ InBalance(u)

(* The two things about chips that hold on every way through a handler.    *)
Settles(t, u) == PaysStayers(t, u) /\ (Staked(t) => Audit(t, u))

(* What a table is worth is a number; what is dropped at most is not       *)
(* negative, because announced pots have winners.                          *)
LEMMA WorthType ==
  ASSUME NEW S, NEW t \in TableIn(S)
  PROVE  Worth(t) \in Int /\ DroppedAtMost(t) \in Nat /\ SumOf(t.money) \in Nat
<1>1. t.money \in [Seat -> Chips] /\ t.pot \in Chips \cup {NoPot} /\ t.result \in Result
  BY DEF TableIn
<1>2. SumOf(t.money) \in Nat
  BY <1>1, SumOfType
<1>3. Worth(t) \in Int
  BY <1>1, <1>2 DEF Worth, Chips
<1>4. ASSUME t.result.sent PROVE t.result.pots \in Seq(PotRecord)
  <2>1. t.result # NoResult
    BY <1>4 DEF NoResult
  <2> QED
    BY <1>1, <2>1 DEF Result
<1>5. \A pots \in Seq(PotRecord) : DroppedOf(pots) \in Nat
  BY DroppedType
<1> QED
  BY <1>2, <1>3, <1>4, <1>5 DEF DroppedAtMost

(* Tables with the same chips have the same account. *)
LEMMA SameCarriesOn ==
  ASSUME NEW S, NEW t \in TableIn(S), NEW u, SameChips(t, u)
  PROVE  CarriesOn(t, u)
<1>1. Worth(u) = Worth(t) /\ (Staked(t) => Staked(u))
  BY DEF SameChips, Worth, Staked, Seated
<1> QED
  BY <1>1, WorthType DEF CarriesOn, Same

(* What is carried on can be carried on, and closed.                       *)
LEMMA CarriedOn ==
  ASSUME NEW t, NEW u, NEW v, Worth(t) \in Int, CarriesOn(t, u)
  PROVE  /\ CarriesOn(u, v) => CarriesOn(t, v)
         /\ Worth(v) \in Int /\ Audit(u, v) => Audit(t, v)
<1>1. CarriesOn(u, v) => CarriesOn(t, v)
  BY DEF CarriesOn, Same
<1>2. ASSUME Worth(v) \in Int, Audit(u, v) PROVE Audit(t, v)
  <2>1. Same(Worth(t), Worth(u)) /\ Same(Worth(v), Worth(v)) /\ Worth(u) \in Int
    BY DEF CarriesOn, Same
  <2>2. Same(Worth(t) - Worth(v), Worth(u) - Worth(v))
    BY <1>2, <2>1, SameAdds
  <2> QED
    BY <1>2, <2>2 DEF Audit, Same
<1> QED
  BY <1>1, <1>2

(* A table still in a hand is in balance when its stakes are in the pot,   *)
(* and nothing of them is missing.                                         *)
LEMMA StillStaked ==
  ASSUME NEW s \in BetStates, NEW t, NEW u \in TableIn({s}), Worth(t) \in Int, Staked(t),
         CarriesOn(t, u)
  PROVE  Audit(t, u)
<1>1. u.state \in BetStates
  BY DEF TableIn
<1>2. (Worth(t) - Worth(u)) % ChipMod = 0
  <2>1. Same(Worth(t), Worth(u)) /\ Worth(u) \in Int
    BY DEF CarriesOn, Same
  <2> QED
    BY <2>1, NothingMissing
<1>3. DroppedAtMost(u) \in Nat
  BY WorthType
<1> QED
  BY <1>1, <1>2, <1>3 DEF Audit, InBalance, CarriesOn

(* PokerRoom::SetState changes the state and clears the bet number.        *)
LEMMA SetStateType ==
  ASSUME NEW t \in TableIn(PokerRoomState), NEW s \in PokerRoomState
  PROVE  /\ SetState(t, s) \in TableIn({s})
         /\ SetState(t, s) = [t EXCEPT !.state = s, !.betNum = SetState(t, s).betNum]
  BY ZeroIsChips DEF SetState, TableIn

(* Chips put into a pot wrap within their counters and leave it a pot.     *)
LEMMA StakeType ==
  ASSUME NEW S, NEW t \in TableIn(S), NEW s \in Seat, NEW n \in Chips, t.pot # NoPot
  PROVE  /\ Stake(t, s, n) \in TableIn(S)
         /\ Stake(t, s, n).pot # NoPot
         /\ s \in Seated(t) => CarriesOn(t, Stake(t, s, n))
<1>1. t.pot \in Chips /\ t.total[s] \in Chips /\ t.money[s] \in Chips
  BY DEF TableIn
<1>2. Plus(t.pot, n) \in Chips /\ Plus(t.total[s], n) \in Chips /\ Minus(t.money[s], n) \in Chips
  BY <1>1, PlusMinusType
<1>3. -1 \notin Chips
  BY DEF Chips
<1> DEFINE u == Stake(t, s, n)
<1>4. u \in TableIn(S) /\ u.pot # NoPot
  BY <1>2, <1>3 DEF Stake, TableIn, NoPot
<1>5. /\ u.seated = t.seated /\ u.pot = (t.pot + n) % ChipMod
      /\ \A p \in Seat \ {s} : u.bet[p] = t.bet[p] /\ u.total[p] = t.total[p] /\ u.money[p] = t.money[p]
      /\ u.total[s] = (t.total[s] + n) % ChipMod /\ u.money[s] = (t.money[s] - n) % ChipMod
  BY DEF Stake, TableIn, Plus, Minus
<1> HIDE DEF u
<1>6. /\ t.total \in [Seat -> Chips] /\ u.total \in [Seat -> Chips]
      /\ t.money \in [Seat -> Chips] /\ u.money \in [Seat -> Chips]
  BY <1>4 DEF TableIn
<1>7. /\ t.pot \in Int /\ n \in Int /\ -n \in Int /\ t.total[s] \in Int /\ t.money[s] \in Int
      /\ t.pot + n \in Int /\ t.total[s] + n \in Int
      /\ t.money[s] - n \in Int /\ t.money[s] - n = t.money[s] + (-n)
  BY <1>1 DEF Chips
<1>8. Same(u.pot, t.pot + n) /\ Same(u.total[s], t.total[s] + n) /\ Same(u.money[s], t.money[s] + (-n))
  BY <1>5, <1>7, WrapIsSame
<1>9. Same(SumOf(u.total), SumOf(t.total) + n) /\ Same(SumOf(u.money), SumOf(t.money) + (-n))
  BY <1>5, <1>6, <1>7, <1>8, SumOfOneGiven
<1>10. /\ SumOf(t.total) \in Int /\ SumOf(u.total) \in Int
       /\ SumOf(t.money) \in Int /\ SumOf(u.money) \in Int
  BY <1>6, SumOfType
<1>11. Worth(u) \in Int /\ Same(Worth(u), Worth(t))
  <2>1. Worth(u) = SumOf(u.money) + u.pot /\ Worth(t) = SumOf(t.money) + t.pot
    BY <1>4 DEF Worth
  <2>2. u.pot \in Int
    BY <1>5, <1>7, WrapIsSame
  <2>3. SumOf(t.money) + (-n) \in Int
    BY <1>7, <1>10
  <2>4. Same(SumOf(u.money) + u.pot, (SumOf(t.money) + (-n)) + (t.pot + n))
    BY <1>7, <1>8, <1>9, <1>10, <2>2, <2>3, SameAdds
  <2>5. (SumOf(t.money) + (-n)) + (t.pot + n) = SumOf(t.money) + t.pot
    BY <1>7, <1>10
  <2> QED
    BY <1>10, <2>1, <2>2, <2>4, <2>5
<1>12. ASSUME s \in Seated(t), Staked(t) PROVE Staked(u)
  <2>1. t.pot = SumOf(t.total) % ChipMod
    BY <1>12 DEF Staked
  <2>2. Same(t.pot, SumOf(t.total))
    BY <1>10, <2>1, WrapIsSame
  <2>3. Same(t.pot + n, SumOf(t.total) + n)
    BY <1>7, <1>10, <2>2, SameAdds DEF Same
  <2>4. u.pot = SumOf(u.total) % ChipMod
    BY <1>5, <1>9, <2>3 DEF Same
  <2>5. \A p \in Seat \ Seated(u) : u.total[p] = 0 /\ u.bet[p] = 0
    BY <1>5, <1>12 DEF Staked, Seated
  <2> QED
    BY <1>4, <2>4, <2>5 DEF Staked
<1> QED
  BY <1>4, <1>11, <1>12 DEF u, CarriesOn

(* CheckTurn is never entered while the room waits for an action.          *)
LEMMA NotWaiting ==
  ASSUME NEW t, NEW s, Plays(t, s)
  PROVE  [t EXCEPT !.waiting = FALSE] = t
  BY DEF Plays, TableIn

(* The next index around the table is a seat: no modulus by zero.          *)
LEMMA AfterIs ==
  ASSUME NEW t, t.seated \in Nat \ {0}
  PROVE /\ \A i \in Seated(t) : After(t, i) = IF i + 1 = t.seated THEN 0 ELSE i + 1
        /\ \A i \in Seated(t) \cup {-1} : After(t, i) \in Seated(t)
<1>1. \A n \in Nat \ {0} : \A i \in 0 .. n - 1 : i + 1 # n => (i + 1) % n = i + 1
  OBVIOUS
<1>2. \A n \in Nat \ {0} : n % n = 0 /\ 0 % n = 0
  OBVIOUS
<1> QED
  BY <1>1, <1>2 DEF After, Seated

(* case CheckPlayer leaves a table at rest, with everybody at it in play.  *)
LEMMA CheckPlayerEnds ==
  ASSUME NEW t \in TableIn(PokerRoomState), ~t.waiting, t.seated =< t.arrived,
         t.betIndex \in Seated(t) \cup {-1}, t.betIndex # -1 => t.seated > 1,
         ProperResult(t)
  PROVE  /\ Rests(CheckPlayer(t))
         /\ CheckPlayer(t).state = "Start" /\ ~CheckPlayer(t).inProgress
         /\ CheckPlayer(t).pot = NoPot /\ CheckPlayer(t).result = t.result
         /\ CheckPlayer(t).money = t.money
         /\ \A p \in Seated(CheckPlayer(t)) : CheckPlayer(t).card[p] = "Play"
         /\ (\A p \in Seat \ Seated(t) : t.total[p] = 0 /\ t.bet[p] = 0) =>
              Unstaked(CheckPlayer(t))
<1> DEFINE a == SetState(t, "CheckPlayer")
           b == AddObserverPlayer(a)
           c == ResetForNewRound(b)
           u == SetState(c, "Start")
<1>0. MaxPlayerNumber \in Nat
  BY PotAssumption
<1>1. /\ a \in TableIn({"CheckPlayer"})
      /\ a = [t EXCEPT !.state = "CheckPlayer", !.betNum = a.betNum]
  BY SetStateType DEF PokerRoomState
<1>2. /\ ~a.waiting /\ a.seated = t.seated /\ a.arrived = t.arrived
      /\ a.betIndex = t.betIndex /\ a.result = t.result /\ a.money = t.money
      /\ a.total = t.total /\ a.bet = t.bet
  BY <1>1 DEF TableIn
<1>3. /\ a.seated \in Nat /\ a.arrived \in Nat /\ a.arrived =< MaxPlayerNumber
      /\ Least(a.arrived, MaxPlayerNumber) = a.arrived
  BY <1>0, <1>1 DEF TableIn, Least
<1>4. /\ b \in TableIn({"CheckPlayer"})
      /\ b = [a EXCEPT !.seated = a.arrived]
  BY <1>1, <1>3 DEF AddObserverPlayer, TableIn
<1>5. /\ c \in TableIn({"CheckPlayer"})
      /\ c.seated = a.arrived /\ c.arrived = a.arrived /\ ~c.waiting /\ c.board = 0
      /\ c.pot = NoPot /\ ~c.inProgress /\ c.betIndex = a.betIndex /\ c.result = a.result
      /\ c.money = a.money
      /\ \A p \in Seated(c) : c.card[p] = "Play"
      /\ \A p \in Seat : c.total[p] = (IF p \in Seated(c) THEN 0 ELSE a.total[p])
                         /\ c.bet[p] = (IF p \in Seated(c) THEN 0 ELSE a.bet[p])
  <2> DEFINE Zeroed(f, z) == [p \in Seat |-> IF p \in Seated(b) THEN z ELSE f[p]]
  <2>1. b.seated = a.arrived /\ b.arrived = a.arrived
    BY <1>4, <1>1 DEF TableIn
  <2>2. \A f \in [Seat -> Chips] : Zeroed(f, 0) \in [Seat -> Chips]
    BY ZeroIsChips
  <2>3. \A f \in [Seat -> CardState] : Zeroed(f, "Play") \in [Seat -> CardState]
    BY DEF CardState
  <2>4. b.bet \in [Seat -> Chips] /\ b.total \in [Seat -> Chips] /\ b.card \in [Seat -> CardState]
    BY <1>4 DEF TableIn
  <2>5. c = [b EXCEPT !.bet = Zeroed(b.bet, 0), !.total = Zeroed(b.total, 0),
                      !.card = Zeroed(b.card, "Play"), !.board = 0,
                      !.inProgress = FALSE, !.pot = NoPot]
    BY <1>4 DEF ResetForNewRound, TableIn
  <2>6. /\ Zeroed(b.bet, 0) \in [Seat -> Chips] /\ Zeroed(b.total, 0) \in [Seat -> Chips]
        /\ Zeroed(b.card, "Play") \in [Seat -> CardState]
    BY <2>2, <2>3, <2>4
  <2>7. \A p \in Seated(b) : Zeroed(b.card, "Play")[p] = "Play"
    BY <1>0, <1>3, <2>1 DEF Seated, Seat
  <2>z. \A f, z : \A p \in Seat : Zeroed(f, z)[p] = IF p \in Seated(b) THEN z ELSE f[p]
    OBVIOUS
  <2> HIDE DEF Zeroed, a, b, c
  <2>8. c \in TableIn({"CheckPlayer"})
    <3> DEFINE e == [b EXCEPT !.bet = Zeroed(b.bet, 0), !.total = Zeroed(b.total, 0),
                              !.card = Zeroed(b.card, "Play")]
    <3>0. b \in TableIn({"CheckPlayer"})
      BY <1>4
    <3>1. e \in TableIn({"CheckPlayer"})
      BY <3>0, <2>6 DEF TableIn
    <3> HIDE DEF e
    <3> DEFINE f == [e EXCEPT !.board = 0]
    <3>2. f \in TableIn({"CheckPlayer"})
      BY <3>1 DEF TableIn
    <3>3. c = [f EXCEPT !.inProgress = FALSE, !.pot = NoPot]
      BY <2>5 DEF e
    <3> HIDE DEF f
    <3> QED
      BY <3>2, <3>3 DEF TableIn, NoPot
  <2>9. /\ c.seated = b.seated /\ c.arrived = b.arrived /\ c.waiting = b.waiting /\ c.board = 0
        /\ c.pot = NoPot /\ ~c.inProgress /\ c.betIndex = b.betIndex /\ c.result = b.result
        /\ c.card = Zeroed(b.card, "Play") /\ c.money = b.money
        /\ c.total = Zeroed(b.total, 0) /\ c.bet = Zeroed(b.bet, 0)
    BY <1>4, <2>5 DEF TableIn
  <2>10. b.waiting = a.waiting /\ b.betIndex = a.betIndex /\ b.result = a.result
         /\ b.money = a.money /\ b.total = a.total /\ b.bet = a.bet
    BY <1>1, <1>4 DEF TableIn
  <2>11. Seated(b) = Seated(c)
    BY <2>9 DEF Seated
  <2>12. \A p \in Seat : c.total[p] = (IF p \in Seated(c) THEN 0 ELSE a.total[p])
                         /\ c.bet[p] = (IF p \in Seated(c) THEN 0 ELSE a.bet[p])
    BY <2>z, <2>9, <2>10, <2>11
  <2> QED
    BY <1>2, <2>1, <2>7, <2>8, <2>9, <2>10, <2>12 DEF Seated
<1>6. /\ u \in TableIn({"Start"})
      /\ u = [c EXCEPT !.state = "Start", !.betNum = u.betNum]
  <2>1. c \in TableIn(PokerRoomState) /\ "Start" \in PokerRoomState
    BY <1>5 DEF TableIn, PokerRoomState
  <2> QED
    BY <2>1, SetStateType
<1>7. /\ u.seated = a.arrived /\ u.arrived = a.arrived /\ ~u.waiting /\ u.board = 0
      /\ u.pot = NoPot /\ ~u.inProgress /\ u.betIndex = a.betIndex /\ u.result = a.result
      /\ u.card = c.card /\ u.state = "Start" /\ u.money = a.money
      /\ u.total = c.total /\ u.bet = c.bet
  <2> HIDE DEF a, b, c, u
  <2> QED
    BY <1>5, <1>6 DEF TableIn
<1>8. u.betIndex # -1 => u.betIndex \in Seated(u) /\ u.seated > 1
  BY <1>2, <1>3, <1>7 DEF Seated
<1>9. u = CheckPlayer(t)
  BY DEF CheckPlayer
<1>10. ProperResult(u)
  BY <1>2, <1>7 DEF ProperResult
<1>11. Rests(u)
  <2>1. u \in TableIn({"Init", "Start"})
    BY <1>6 DEF TableIn
  <2> QED
    BY <2>1, <1>3, <1>7, <1>8, <1>10 DEF Rests
<1>12. \A p \in Seated(u) : u.card[p] = "Play"
  BY <1>5, <1>7 DEF Seated
<1>13. ASSUME \A p \in Seat \ Seated(t) : t.total[p] = 0 /\ t.bet[p] = 0
       PROVE  Unstaked(u)
  <2>1. Seated(t) \subseteq Seated(c)
    BY <1>1, <1>2, <1>3, <1>5 DEF Seated
  <2> HIDE DEF a, c, u
  <2>2. \A p \in Seat : u.total[p] = 0 /\ u.bet[p] = 0
    BY <1>2, <1>5, <1>7, <1>13, <2>1
  <2> QED
    BY <1>7, <2>2 DEF Unstaked
<1> QED
  BY <1>2, <1>7, <1>9, <1>11, <1>12, <1>13

(* A hand that is decided ends, and somebody is announced to win it. *)
LEMMA PotCalculationEnds ==
  ASSUME NEW t \in TableIn(PokerRoomState), ~t.waiting, t.seated =< t.arrived,
         t.betIndex \in Seated(t), t.seated > 1, t.pot # NoPot, OnTable(t) # {},
         AtMostOne(OnTable(t)) \/ t.board = 5,
         NEW rank \in [Seat -> Nat]
  PROVE  /\ Ended(PotCalculation(t, rank)) /\ PotCalculation(t, rank).result.sent
         /\ Settles(t, PotCalculation(t, rank))
<1> DEFINE c   == SetState(t, "PotCalculation")
           d   == Dispatch(NormalPlayers(c), AllInPlayers(c), c.total, c.pot, rank)
           ntf == [sent |-> TRUE, pots |-> d.pots, contenders |-> OnTable(c),
                   showCards |-> c.board = 5 /\ ~AtMostOne(OnTable(c))]
           p   == [c EXCEPT !.money = [s \in Seat |-> Plus(@[s], d.paid[s])],
                            !.pot = 0, !.result = ntf]
<1>1. /\ c \in TableIn({"PotCalculation"})
      /\ c = [t EXCEPT !.state = "PotCalculation", !.betNum = c.betNum]
  BY SetStateType DEF PokerRoomState
<1>2. /\ ~c.waiting /\ c.seated = t.seated /\ c.arrived = t.arrived /\ c.card = t.card
      /\ c.betIndex = t.betIndex /\ c.pot = t.pot /\ c.board = t.board
      /\ c.money = t.money /\ c.total = t.total /\ c.bet = t.bet
  BY <1>1 DEF TableIn
<1>3. OnTable(c) = OnTable(t) /\ Seated(c) = Seated(t)
  BY <1>2 DEF OnTable, Seated
<1>4. Seated(c) \subseteq Seat
  BY <1>1, PotAssumption DEF Seated, Seat, TableIn
<1>5. /\ d.pots \in Seq(PotRecord) /\ d.paid \in [Seat -> Chips]
      /\ \A s \in Seat \ OnTable(t) : d.paid[s] = 0
      /\ c.pot - SumOf(d.paid) \in 0 .. DroppedOf(d.pots)
  <2>1. NormalPlayers(c) \in SUBSET Seat /\ AllInPlayers(c) \in SUBSET Seat
    BY <1>4 DEF NormalPlayers, AllInPlayers
  <2>2. c.total \in [Seat -> Chips] /\ c.pot \in Chips
    BY <1>1, <1>2 DEF TableIn
  <2>3. NormalPlayers(c) \cup AllInPlayers(c) = OnTable(c)
    BY <1>1, <1>4 DEF NormalPlayers, AllInPlayers, OnTable, TableIn, CardState
  <2>4. NormalPlayers(c) \cup AllInPlayers(c) # {}
    BY <1>3, <2>3
  <2>5. d.pots \in Seq(PotRecord) /\ d.paid \in [Seat -> Chips]
    BY <2>1, <2>2, DispatchType
  <2>6. \A s \in Seat \ (NormalPlayers(c) \cup AllInPlayers(c)) : d.paid[s] = 0
    <3>1. ~Nobody(NormalPlayers(c), AllInPlayers(c))
      BY <2>4 DEF Nobody
    <3> HIDE DEF c
    <3> QED
      BY <2>1, <2>2, <3>1, DispatchPaysStayers
  <2>7. c.pot - SumOf(d.paid) \in 0 .. DroppedOf(d.pots)
    <3>1. ~Nobody(NormalPlayers(c), AllInPlayers(c))
      BY <2>4 DEF Nobody
    <3> HIDE DEF c
    <3> QED
      BY <2>1, <2>2, <3>1, DispatchWhole
  <2> HIDE DEF d, c
  <2> QED
    BY <1>3, <2>3, <2>5, <2>6, <2>7
<1>6. ntf \in Result
  <2>1. OnTable(c) \in SUBSET Seat
    BY <1>4 DEF OnTable
  <2>2. (c.board = 5 /\ ~AtMostOne(OnTable(c))) \in BOOLEAN
    OBVIOUS
  <2> HIDE DEF d
  <2> QED
    BY <1>5, <2>1, <2>2 DEF Result
<1>7. [s \in Seat |-> Plus(c.money[s], d.paid[s])] \in [Seat -> Chips]
  <2>1. c.money \in [Seat -> Chips]
    BY <1>1 DEF TableIn
  <2> HIDE DEF c, d
  <2> QED
    BY <1>5, <2>1, PlusMinusType
<1>8. /\ p \in TableIn({"PotCalculation"}) /\ ~p.waiting /\ p.seated = t.seated
      /\ p.arrived = t.arrived /\ p.betIndex = t.betIndex /\ p.result = ntf
      /\ p.money = [s \in Seat |-> Plus(c.money[s], d.paid[s])]
      /\ p.total = t.total /\ p.bet = t.bet
  <2> HIDE DEF d, ntf
  <2>1. p = [c EXCEPT !.money = [s \in Seat |-> Plus(c.money[s], d.paid[s])],
                      !.pot = 0, !.result = ntf]
    BY <1>1 DEF TableIn
  <2> HIDE DEF c
  <2> QED
    BY <1>1, <1>2, <1>6, <1>7, <2>1, ZeroIsChips DEF TableIn
<1>9. ProperResult(p)
  <2> HIDE DEF p, c, d
  <2>1. ntf.contenders = OnTable(t)
    BY <1>3
  <2>2. CASE AtMostOne(OnTable(t))
    BY <1>8, <2>1, <2>2 DEF ProperResult
  <2>3. CASE ~AtMostOne(OnTable(t))
    <3>1. c.board = 5 /\ ~AtMostOne(OnTable(c))
      BY <1>2, <1>3, <2>3
    <3>2. ntf.showCards = TRUE
      BY <3>1
    <3> QED
      BY <1>8, <2>1, <3>2 DEF ProperResult
  <2> QED
    BY <2>2, <2>3
<1>10. p.betIndex \in Seated(p) /\ p.seated =< p.arrived /\ p.seated > 1
  BY <1>8 DEF Seated
<1>11. p \in TableIn(PokerRoomState)
  BY <1>8 DEF TableIn, PokerRoomState
<1>12. PotCalculation(t, rank) = CheckPlayer(p)
  BY DEF PotCalculation
<1>13. ASSUME NEW s \in Seat, p.money[s] # t.money[s] PROVE s \in OnTable(t)
  <2>1. t.money[s] \in Chips
    BY DEF TableIn
  <2>2. Plus(t.money[s], 0) = t.money[s]
    BY <2>1, PotAssumption DEF Plus, Chips
  <2> HIDE DEF p, c, d
  <2> QED
    BY <1>2, <1>5, <1>8, <1>13, <2>2
<1> HIDE DEF p
<1>14. CheckPlayer(p).money = p.money /\ CheckPlayer(p).result.sent
  BY <1>8, <1>9, <1>10, <1>11, CheckPlayerEnds
<1>15. PaysStayers(t, PotCalculation(t, rank))
  BY <1>12, <1>13, <1>14 DEF PaysStayers
<1>16. Ended(CheckPlayer(p)) /\ CheckPlayer(p).result = ntf
  BY <1>8, <1>9, <1>10, <1>11, CheckPlayerEnds DEF Ended
<1>17. ASSUME Staked(t) PROVE Audit(t, CheckPlayer(p))
  <2> DEFINE v == CheckPlayer(p)
  <2>1. v.pot = NoPot /\ v.money = p.money /\ v.result = ntf /\ v.state = "Start"
    BY <1>14, <1>16 DEF Ended
  <2>2. Unstaked(v)
    <3>1. \A s \in Seat \ Seated(p) : p.total[s] = 0 /\ p.bet[s] = 0
      BY <1>8, <1>17 DEF Staked, Seated
    <3> QED
      BY <1>8, <1>9, <1>10, <1>11, <3>1, CheckPlayerEnds
  <2>3. c.pot \in Nat /\ t.pot = c.pot /\ c.pot # NoPot
    BY <1>1, <1>2 DEF TableIn, Chips
  <2>4. t.money \in [Seat -> Chips] /\ p.money \in [Seat -> Chips]
    BY <1>8 DEF TableIn
  <2> HIDE DEF d, c, v
  <2>5. \A s \in Seat : d.paid[s] \in Int /\ Same(p.money[s], t.money[s] + d.paid[s])
    <3> SUFFICES ASSUME NEW s \in Seat
                 PROVE  d.paid[s] \in Int /\ Same(p.money[s], t.money[s] + d.paid[s])
      OBVIOUS
    <3>1. t.money[s] \in Int /\ d.paid[s] \in Int
      BY <1>5, <2>4 DEF Chips
    <3>2. p.money[s] = (t.money[s] + d.paid[s]) % ChipMod
      BY <1>2, <1>8 DEF Plus
    <3> QED
      BY <3>1, <3>2, WrapIsSame
  <2>6. SumOf(d.paid) \in Int /\ Same(SumOf(p.money), SumOf(t.money) + SumOf(d.paid))
    BY <2>4, <2>5, SumOfGiven
  <2>7. SumOf(t.money) \in Int /\ SumOf(p.money) \in Int
    BY <2>4, SumOfType
  <2>8. Worth(t) = SumOf(t.money) + c.pot /\ Worth(v) = SumOf(p.money)
    BY <2>1, <2>3, <2>7 DEF Worth
  <2>9. Same((SumOf(t.money) + c.pot) - SumOf(p.money), c.pot - SumOf(d.paid))
    <3>1. Same(SumOf(t.money) + c.pot, SumOf(t.money) + c.pot)
          /\ SumOf(t.money) + c.pot \in Int /\ SumOf(t.money) + SumOf(d.paid) \in Int
      BY <2>3, <2>6, <2>7 DEF Same
    <3>2. Same((SumOf(t.money) + c.pot) - SumOf(p.money),
               (SumOf(t.money) + c.pot) - (SumOf(t.money) + SumOf(d.paid)))
      BY <2>6, <2>7, <3>1, SameAdds
    <3>3. (SumOf(t.money) + c.pot) - (SumOf(t.money) + SumOf(d.paid)) = c.pot - SumOf(d.paid)
      BY <2>3, <2>6, <2>7
    <3> QED
      BY <3>2, <3>3
  <2>10. DroppedAtMost(v) = DroppedOf(d.pots) /\ DroppedOf(d.pots) \in Nat
    BY <1>5, <2>1, DroppedType DEF DroppedAtMost
  <2>11. (Worth(t) - Worth(v)) % ChipMod \in 0 .. DroppedAtMost(v)
    <3>1. (SumOf(t.money) + c.pot) - SumOf(p.money) \in Int
      BY <2>3, <2>7
    <3> QED
      BY <1>5, <2>8, <2>9, <2>10, <3>1, ShowsNoMore
  <2> QED
    BY <2>1, <2>2, <2>11 DEF Audit, InBalance, BetStates, v
<1> QED
  BY <1>8, <1>12, <1>14, <1>15, <1>16, <1>17 DEF Settles

(* The scan of CheckTurn finds the active player it reaches first. *)
LEMMA NextToActIn ==
  ASSUME NEW t, t.seated \in Nat, t.betIndex \in Seated(t), Active(t) # {}
  PROVE  /\ NextToAct(t) \in Active(t)
         /\ \A o \in Active(t) : Steps(t, NextToAct(t)) =< Steps(t, o)
<1> DEFINE Distances == {Steps(t, s) : s \in Active(t)}
<1>1. \A s \in Active(t) : Steps(t, s) \in Nat
  BY DEF Steps, Active, Seated
<1>2. Distances \in SUBSET Nat /\ Distances # {}
  BY <1>1
<1>3. PICK n \in Distances : \A m \in Distances : n =< m
  BY <1>2, LeastNumber
<1>4. \E s \in Active(t) : \A o \in Active(t) : Steps(t, s) =< Steps(t, o)
  BY <1>3
<1> QED
  BY <1>4 DEF NextToAct

(* The player who just acted is the last one the scan would come to. *)
LEMMA NotAgain ==
  ASSUME NEW t, t.seated \in Nat \ {0}, NEW i \in Seated(t), t.betIndex = After(t, i),
         ~AtMostOne(Active(t))
  PROVE  NextToAct(t) # i
<1>1. t.betIndex \in Seated(t) /\ t.betIndex = (IF i + 1 = t.seated THEN 0 ELSE i + 1)
  BY AfterIs
<1>2. Active(t) # {}
  BY DEF AtMostOne
<1>3. \A o \in Seated(t) \ {i} : Steps(t, o) < Steps(t, i)
  BY <1>1 DEF Steps, Seated
<1>4. PICK o \in Active(t) : o # i
  BY DEF AtMostOne
<1>5. o \in Seated(t) \ {i}
  BY <1>4 DEF Active
<1>6. SUFFICES ASSUME NextToAct(t) = i PROVE FALSE
  OBVIOUS
<1>7. Steps(t, i) =< Steps(t, o)
  BY <1>1, <1>2, <1>4, <1>6, NextToActIn
<1>8. Steps(t, i) \in Int /\ Steps(t, o) \in Int
  BY <1>1, <1>5 DEF Steps, Seated
<1> QED
  BY <1>3, <1>5, <1>7, <1>8

(* Active players are on the table. *)
LEMMA ActiveOnTable ==
  ASSUME NEW t
  PROVE  Active(t) \subseteq OnTable(t) /\ OnTable(t) \subseteq Seated(t)
  BY DEF Active, OnTable

(* With two active players there is somebody to wait for. *)
LEMMA AwaitActionWaits ==
  ASSUME NEW s \in PokerRoomState, NEW t, Plays(t, s), ~AtMostOne(Active(t))
  PROVE  /\ Waits(AwaitAction(t), s)
         /\ Active(AwaitAction(t)) = Active(t)
         /\ AwaitAction(t) = [t EXCEPT !.betIndex = NextToAct(t), !.waiting = TRUE, !.timer = 0]
         /\ AwaitAction(t).betIndex = NextToAct(t)
         /\ SameChips(t, AwaitAction(t))
<1> DEFINE i == NextToAct(t)
           u == AwaitAction(t)
<1>1. i \in Active(t)
  BY NextToActIn DEF Plays, TableIn, AtMostOne
<1>2. i \in Seat
  BY <1>1, PotAssumption DEF Active, Seated, Seat, Plays, TableIn
<1>3. u = [t EXCEPT !.betIndex = i, !.waiting = TRUE, !.timer = 0]
  BY DEF AwaitAction
<1>4. t \in TableIn({s}) /\ 0 \in 0 .. (ActionTimeout - 1)
  BY PokerRoomAssumption DEF Plays
<1> HIDE DEF i, u
<1>5. u \in TableIn({s})
  BY <1>2, <1>3, <1>4 DEF TableIn
<1>6. /\ u.seated = t.seated /\ u.card = t.card /\ u.betIndex = i /\ u.waiting
      /\ u.board = t.board /\ u.arrived = t.arrived /\ u.pot = t.pot
      /\ u.inProgress = t.inProgress /\ u.result = t.result
      /\ u.total = t.total /\ u.bet = t.bet /\ u.money = t.money
  BY <1>3, <1>4 DEF TableIn
<1>7. Active(u) = Active(t) /\ Seated(u) = Seated(t)
  BY <1>6 DEF Active, Seated
<1>8. Waits(u, s)
  BY <1>1, <1>5, <1>6, <1>7 DEF Waits, Plays
<1> QED
  BY <1>3, <1>6, <1>7, <1>8 DEF u, i, SameChips

(* Nobody has had a turn yet, or has put in the bet to call: the betting   *)
(* is not over while two players are in it.                                *)
AllOwing(t) == Active(t) \subseteq Owing(t)

(* ... so CheckTurn waits: it neither ends the hand nor moves on.          *)
LEMMA Undecided ==
  ASSUME NEW t, ~AtMostOne(Active(t)), AllOwing(t)
  PROVE  ~AtMostOne(OnTable(t)) /\ ~RoundOver(t)
  BY DEF AtMostOne, AllOwing, Owing, RoundOver, Active, OnTable

(* What a new street leaves alone: the players who are out of the betting. *)
LeavesOut(t, u) ==
  /\ u.seated = t.seated
  /\ \A p \in Seated(t) \ Active(t) : u.card[p] = t.card[p] /\ u.money[p] = t.money[p]

(* The fields that going to another state of a hand does not touch. *)
Keeps(t, u) ==
  /\ u.seated = t.seated /\ u.arrived = t.arrived /\ u.card = t.card /\ u.bet = t.bet
  /\ u.total = t.total /\ u.money = t.money /\ u.pot = t.pot
  /\ u.inProgress = t.inProgress /\ u.waiting = t.waiting /\ u.result = t.result

(* The states a hand goes through are states of the enumeration.           *)
LEMMA StatesOfPlay ==
  /\ BetStates \subseteq PokerRoomState
  /\ {"RiverCard", "RollCard", "ThreeCards", "PotCalculation"} \subseteq PokerRoomState
  BY DEF BetStates, PokerRoomState

(* A table in play is a table, and its seats are seats.                    *)
LEMMA PlaysType ==
  ASSUME NEW t, NEW s \in PokerRoomState, Plays(t, s)
  PROVE  /\ t \in TableIn({s}) /\ t \in TableIn(PokerRoomState)
         /\ t.seated \in Nat \ {0} /\ Seated(t) \subseteq Seat
<1>1. t \in TableIn({s})
  BY DEF Plays
<1>2. t \in TableIn(PokerRoomState)
  BY <1>1 DEF TableIn
<1>3. t.seated \in 0 .. MaxPlayerNumber /\ t.betIndex \in 0 .. t.seated - 1
  BY <1>1 DEF TableIn, Plays, Seated
<1> QED
  BY <1>1, <1>2, <1>3, PotAssumption DEF Seated, Seat

(* Dealing n more cards opens the next betting round, in which everybody   *)
(* who can act is to be asked.                                             *)
LEMMA Opened ==
  ASSUME NEW t, NEW from \in BetStates, NEW deal \in PokerRoomState, NEW to \in BetStates,
         NEW n \in Nat, CardsOut(from) + n = CardsOut(to), to # "HandBet",
         Plays(t, from)
  PROVE  LET u == OpenBetting(DealCommon(t, deal, n), to)
         IN  /\ Plays(u, to) /\ AllOwing(u)
             /\ Active(u) = Active(t) /\ OnTable(u) = OnTable(t)
             /\ LeavesOut(t, u) /\ u.money = t.money /\ CarriesOn(t, u)
<1> DEFINE a == SetState(t, deal)
           b == DealCommon(t, deal, n)
           c == SetState(b, to)
           d == [c EXCEPT !.betIndex = After(c, c.dealer)]
           u == ResetPlayerBetState(d)
<1>0. from \in PokerRoomState /\ to \in PokerRoomState
  BY StatesOfPlay
<1>1. t \in TableIn(PokerRoomState) /\ t.seated \in Nat \ {0} /\ Seated(t) \subseteq Seat
  BY <1>0, PlaysType
<1>2. a \in TableIn({deal}) /\ a = [t EXCEPT !.state = deal, !.betNum = a.betNum]
  BY <1>1, SetStateType
<1>3. t.board + n \in 0 .. 5 /\ t.board + n = CardsOut(to)
  BY DEF Plays, CardsOut, BetStates
<1>4. a.board = t.board
  BY <1>1, <1>2 DEF TableIn
<1>5. b \in TableIn(PokerRoomState) /\ b = [a EXCEPT !.board = t.board + n]
  <2>1. b = [a EXCEPT !.board = t.board + n]
    BY <1>4 DEF DealCommon
  <2>2. a \in TableIn(PokerRoomState)
    BY <1>2 DEF TableIn
  <2> HIDE DEF a, b
  <2> QED
    BY <1>3, <2>1, <2>2 DEF TableIn
<1>6. c \in TableIn({to}) /\ c = [b EXCEPT !.state = to, !.betNum = c.betNum]
  BY <1>0, <1>5, SetStateType
<1> HIDE DEF a, b, c
<1>7. Keeps(t, c) /\ c.board = CardsOut(to)
  <2>1. Keeps(t, a)
    BY <1>1, <1>2 DEF TableIn, Keeps
  <2>2. Keeps(a, b) /\ b.board = CardsOut(to)
    BY <1>2, <1>3, <1>5 DEF TableIn, Keeps
  <2>3. Keeps(b, c) /\ c.board = b.board
    BY <1>5, <1>6 DEF TableIn, Keeps
  <2> QED
    BY <2>1, <2>2, <2>3 DEF Keeps
<1>8. After(c, c.dealer) \in Seated(t)
  <2>1. c.seated = t.seated
    BY <1>7 DEF Keeps
  <2>2. c.dealer \in Int
    BY <1>6, PotAssumption DEF TableIn, Seat
  <2>3. PICK k \in Int : k = c.dealer + 1
    BY <2>2
  <2>4. PICK m \in Nat \ {0} : m = t.seated
    BY <1>1
  <2>5. k % m \in 0 .. m - 1
    OBVIOUS
  <2> QED
    BY <2>1, <2>3, <2>4, <2>5 DEF After, Seated
<1>9. d \in TableIn({to}) /\ d.betIndex \in Seated(t)
  BY <1>1, <1>6, <1>8 DEF TableIn
<1>10. Keeps(t, d) /\ d.board = CardsOut(to)
  BY <1>6, <1>7 DEF TableIn, Keeps
<1> HIDE DEF d
<1> DEFINE card == [s \in Seat |-> IF s \in Active(d) THEN "Play" ELSE d.card[s]]
           bet  == [s \in Seat |-> IF s \in Seated(d) THEN 0 ELSE d.bet[s]]
<1>11. card \in [Seat -> CardState] /\ bet \in [Seat -> Chips]
  <2>1. d.card \in [Seat -> CardState] /\ d.bet \in [Seat -> Chips]
    BY <1>9 DEF TableIn
  <2> QED
    BY <2>1, ZeroIsChips DEF CardState
<1>12. u = [d EXCEPT !.card = card, !.bet = bet]
  BY <1>9 DEF ResetPlayerBetState, TableIn
<1>13. Active(d) = Active(t) /\ Seated(d) = Seated(t)
  BY <1>10 DEF Active, Seated, Keeps
<1> HIDE DEF u
<1>14. /\ u \in TableIn({to}) /\ u.card = card /\ u.seated = t.seated
       /\ u.arrived = t.arrived /\ u.money = t.money /\ u.pot = t.pot /\ u.inProgress = t.inProgress
       /\ u.waiting = t.waiting /\ u.result = t.result /\ u.board = CardsOut(to)
       /\ u.betIndex \in Seated(t) /\ u.total = t.total /\ u.bet = bet
  <2> HIDE DEF card, bet
  <2>1. u \in TableIn({to})
    BY <1>9, <1>11, <1>12 DEF TableIn
  <2> QED
    BY <1>9, <1>10, <1>12, <2>1 DEF TableIn, Keeps
<1>15. /\ \A s \in Active(t) : u.card[s] = "Play"
       /\ \A s \in Seated(t) \ Active(t) : u.card[s] = t.card[s]
  BY <1>1, <1>10, <1>13, <1>14 DEF Active, Keeps
<1>16. Seated(u) = Seated(t)
  BY <1>14 DEF Seated
<1>22. \A s \in Seat \ Seated(t) : u.bet[s] = t.bet[s]
  BY <1>10, <1>13, <1>14 DEF Keeps
<1> HIDE DEF card, bet
<1>17. Active(u) = Active(t) /\ OnTable(u) = OnTable(t)
  BY <1>15, <1>16 DEF Active, OnTable
<1>18. AllOwing(u)
  BY <1>15, <1>17 DEF AllOwing, Owing
<1>19. LeavesOut(t, u)
  BY <1>14, <1>15 DEF LeavesOut
<1>20. \A p \in Seated(u) : u.card[p] # "Raise"
  BY <1>15, <1>16 DEF Plays
<1>21. Plays(u, to)
  BY <1>14, <1>16, <1>17, <1>20 DEF Plays
<1>23. CarriesOn(t, u)
  <2>1. Worth(u) = Worth(t) /\ Worth(t) \in Int
    BY <1>1, <1>14, WorthType DEF Worth
  <2>2. Staked(t) => Staked(u)
    BY <1>14, <1>16, <1>22 DEF Staked
  <2> QED
    BY <2>1, <2>2 DEF CarriesOn, Same
<1> QED
  BY <1>14, <1>17, <1>18, <1>19, <1>21, <1>23 DEF u, d, c, b, OpenBetting

(* CheckTurn without the reset of m_IsWaitingForPlayer, which is a no-op:  *)
(* the room is not waiting when it is called.                              *)
Turn(t, rank, moved) ==
  CASE AtMostOne(OnTable(t)) -> PotCalculation(t, rank)
    [] ~AtMostOne(OnTable(t)) /\ RoundOver(t) -> moved
    [] OTHER -> AwaitAction(t)

(* How a street turns out on which everybody is still to be asked: with    *)
(* fewer than two players to ask, the rest is dealt and the hand ends.     *)
NewRound(t, u, s) ==
  /\ Settles(t, u)
  /\ AtMostOne(Active(t)) => Ended(u)
  /\ ~AtMostOne(Active(t)) =>
       Waits(u, s) /\ AllOwing(u) /\ Active(u) = Active(t) /\ LeavesOut(t, u)

(* A hand ends well on every way from CheckTurn to PotCalculation.         *)
LEMMA PotCalculationAfterPlay ==
  ASSUME NEW s \in BetStates, NEW t, Plays(t, s), NEW rank \in [Seat -> Nat],
         AtMostOne(OnTable(t)) \/ s = "RiverBet"
  PROVE  Ended(PotCalculation(t, rank)) /\ Settles(t, PotCalculation(t, rank))
<1>1. s \in PokerRoomState /\ t \in TableIn(PokerRoomState)
  BY StatesOfPlay, PlaysType
<1>2. AtMostOne(OnTable(t)) \/ t.board = 5
  BY DEF Plays, CardsOut
<1> QED
  BY <1>1, <1>2, PotCalculationEnds DEF Plays

(* To wait for a player is to leave the chips where they are.              *)
LEMMA WaitingSettles ==
  ASSUME NEW s \in BetStates, NEW t \in TableIn({s}), NEW u, Waits(u, s), SameChips(t, u)
  PROVE  Staked(t) => Audit(t, u)
<1>1. u \in TableIn({s}) /\ Worth(t) \in Int
  BY WorthType DEF Waits
<1>2. CarriesOn(t, u)
  BY SameCarriesOn
<1> QED
  BY <1>1, <1>2, StillStaked

(* CheckTurn at the start of a round: it waits while two can act.          *)
LEMMA FirstTurn ==
  ASSUME NEW s \in BetStates, NEW t, Plays(t, s), AllOwing(t),
         NEW rank \in [Seat -> Nat], NEW moved,
         AtMostOne(Active(t)) => Ended(moved) /\ Settles(t, moved)
  PROVE  NewRound(t, Turn(t, rank, moved), s)
<1> DEFINE u == Turn(t, rank, moved)
<1>1. ASSUME AtMostOne(Active(t)) PROVE Ended(u) /\ Settles(t, u)
  <2>1. RoundOver(t)
    BY <1>1 DEF RoundOver
  <2>2. CASE AtMostOne(OnTable(t))
    BY <2>2, PotCalculationAfterPlay DEF Turn
  <2>3. CASE ~AtMostOne(OnTable(t))
    BY <1>1, <2>1, <2>3 DEF Turn
  <2> QED
    BY <2>2, <2>3
<1>2. ASSUME ~AtMostOne(Active(t))
      PROVE  /\ Waits(u, s) /\ AllOwing(u) /\ Active(u) = Active(t) /\ LeavesOut(t, u)
             /\ Settles(t, u)
  <2>1. u = AwaitAction(t)
    BY <1>2, Undecided DEF Turn
  <2>2. /\ Waits(u, s) /\ Active(u) = Active(t)
        /\ u = [t EXCEPT !.betIndex = NextToAct(t), !.waiting = TRUE, !.timer = 0]
        /\ SameChips(t, u)
    BY <1>2, <2>1, AwaitActionWaits, StatesOfPlay
  <2> HIDE DEF u
  <2>3. /\ u.card = t.card /\ u.bet = t.bet /\ u.betNum = t.betNum
        /\ u.seated = t.seated /\ u.money = t.money
    BY <2>2 DEF Plays, TableIn
  <2>4. AllOwing(u)
    BY <2>2, <2>3 DEF AllOwing, Owing
  <2>5. Staked(t) => Audit(t, u)
    BY <2>2, WaitingSettles DEF Plays
  <2> QED
    BY <2>2, <2>3, <2>4, <2>5 DEF LeavesOut, PaysStayers, Settles
<1> QED
  BY <1>1, <1>2 DEF NewRound

(* Common cards are dealt and the next round opens (cases ThreeCards,      *)
(* RollCard and RiverCard of ProcessGameState).                            *)
LEMMA StreetFollows ==
  ASSUME NEW from \in BetStates, NEW to \in BetStates, NEW t, Plays(t, from),
         NEW deal \in PokerRoomState, NEW n \in Nat,
         CardsOut(from) + n = CardsOut(to), to # "HandBet",
         NEW rank \in [Seat -> Nat], NEW moved,
         LET u == OpenBetting(DealCommon(t, deal, n), to)
         IN  AtMostOne(Active(u)) => Ended(moved) /\ Settles(u, moved)
  PROVE  NewRound(t, Turn(OpenBetting(DealCommon(t, deal, n), to), rank, moved), to)
<1> DEFINE u == OpenBetting(DealCommon(t, deal, n), to)
<1>1. /\ Plays(u, to) /\ AllOwing(u)
      /\ Active(u) = Active(t) /\ OnTable(u) = OnTable(t)
      /\ LeavesOut(t, u) /\ u.money = t.money /\ CarriesOn(t, u)
  BY Opened
<1>2. AtMostOne(Active(u)) => Ended(moved) /\ Settles(u, moved)
  OBVIOUS
<1> HIDE DEF u
<1>3. NewRound(u, Turn(u, rank, moved), to)
  BY <1>1, <1>2, FirstTurn
<1>4. Seated(u) = Seated(t)
  BY <1>1 DEF LeavesOut, Seated
<1>5. ASSUME NEW v, Settles(u, v), Waits(v, to) \/ Ended(v) PROVE Settles(t, v)
  <2>1. v \in TableIn({to}) \/ v \in TableIn({"Init", "Start"})
    BY <1>5 DEF Waits, Ended, Rests
  <2>2. Worth(t) \in Int /\ Worth(v) \in Int
    BY <2>1, WorthType DEF Plays
  <2>3. Staked(t) => Audit(t, v)
    BY <1>1, <1>5, <2>2, CarriedOn DEF Settles, CarriesOn
  <2> QED
    BY <1>1, <1>5, <2>3 DEF Settles, PaysStayers
<1>6. NewRound(t, Turn(u, rank, moved), to)
  BY <1>1, <1>3, <1>4, <1>5 DEF NewRound, LeavesOut
<1> QED
  BY <1>6 DEF u

(* The last street: RollBet is over.                                       *)
LEMMA RiverCardFollows ==
  ASSUME NEW t, Plays(t, "RollBet"), NEW rank \in [Seat -> Nat]
  PROVE  NewRound(t, RiverCard(t, rank), "RiverBet")
<1> DEFINE u == OpenBetting(DealCommon(t, "RiverCard", 1), "RiverBet")
<1>1. Plays(u, "RiverBet")
  BY Opened, StatesOfPlay DEF CardsOut, BetStates
<1>2. Ended(PotCalculation(u, rank)) /\ Settles(u, PotCalculation(u, rank))
  BY <1>1, PotCalculationAfterPlay DEF BetStates
<1>3. NewRound(t, Turn(u, rank, PotCalculation(u, rank)), "RiverBet")
  BY <1>2, StreetFollows, StatesOfPlay DEF CardsOut, BetStates
<1>4. RiverCard(t, rank) = Turn(u, rank, PotCalculation(u, rank))
  BY <1>1, NotWaiting DEF RiverCard, CheckTurn, Turn
<1> QED
  BY <1>3, <1>4

(* ThreeBet is over.                                                       *)
LEMMA RollCardFollows ==
  ASSUME NEW t, Plays(t, "ThreeBet"), NEW rank \in [Seat -> Nat]
  PROVE  NewRound(t, RollCard(t, rank), "RollBet")
<1> DEFINE u == OpenBetting(DealCommon(t, "RollCard", 1), "RollBet")
<1>1. Plays(u, "RollBet")
  BY Opened, StatesOfPlay DEF CardsOut, BetStates
<1>2. AtMostOne(Active(u)) => Ended(RiverCard(u, rank)) /\ Settles(u, RiverCard(u, rank))
  BY <1>1, RiverCardFollows DEF NewRound
<1>3. NewRound(t, Turn(u, rank, RiverCard(u, rank)), "RollBet")
  BY <1>2, StreetFollows, StatesOfPlay DEF CardsOut, BetStates
<1>4. RollCard(t, rank) = Turn(u, rank, RiverCard(u, rank))
  BY <1>1, NotWaiting DEF RollCard, CheckTurn, Turn
<1> QED
  BY <1>3, <1>4

(* HandBet is over.                                                        *)
LEMMA ThreeCardsFollow ==
  ASSUME NEW t, Plays(t, "HandBet"), NEW rank \in [Seat -> Nat]
  PROVE  NewRound(t, ThreeCards(t, rank), "ThreeBet")
<1> DEFINE u == OpenBetting(DealCommon(t, "ThreeCards", 3), "ThreeBet")
<1>1. Plays(u, "ThreeBet")
  BY Opened, StatesOfPlay DEF CardsOut, BetStates
<1>2. AtMostOne(Active(u)) => Ended(RollCard(u, rank)) /\ Settles(u, RollCard(u, rank))
  BY <1>1, RollCardFollows DEF NewRound
<1>3. NewRound(t, Turn(u, rank, RollCard(u, rank)), "ThreeBet")
  BY <1>2, StreetFollows, StatesOfPlay DEF CardsOut, BetStates
<1>4. ThreeCards(t, rank) = Turn(u, rank, RollCard(u, rank))
  BY <1>1, NotWaiting DEF ThreeCards, CheckTurn, Turn
<1> QED
  BY <1>3, <1>4

(* The betting round after the one in state s.                             *)
NextRound(s) == CASE s = "HandBet"  -> "ThreeBet"
                  [] s = "ThreeBet" -> "RollBet"
                  [] s = "RollBet"  -> "RiverBet"

(* How a hand goes on from a table c on which the player to ask next has   *)
(* been found but not asked: it ends, or the next round opens, or the      *)
(* round goes on.                                                          *)
RoundsOn(c, u, s) ==
  /\ ~RoundOver(c)
  /\ Waits(u, s)
  /\ u = [c EXCEPT !.betIndex = NextToAct(c), !.waiting = TRUE, !.timer = 0]
  /\ Staked(c) => Audit(c, u)

OpensNext(c, u, s) ==
  /\ RoundOver(c) /\ ~AtMostOne(Active(c))
  /\ s # "RiverBet"
  /\ Waits(u, NextRound(s)) /\ AllOwing(u) /\ Active(u) = Active(c) /\ LeavesOut(c, u)
  /\ Settles(c, u)

EndsHand(c, u, s) ==
  /\ Ended(u) /\ Settles(c, u)
  /\ ~AtMostOne(Active(c)) => RoundOver(c) /\ s = "RiverBet"

(* There is no fourth way (CheckTurn).                                     *)
LEMMA HandGoesOn ==
  ASSUME NEW s \in BetStates, NEW c, Plays(c, s), NEW rank \in [Seat -> Nat]
  PROVE  LET u == ContinueFrom(c, rank)
         IN  RoundsOn(c, u, s) \/ OpensNext(c, u, s) \/ EndsHand(c, u, s)
<1> DEFINE u == ContinueFrom(c, rank)
           moved == CASE s = "HandBet"  -> ThreeCards(c, rank)
                      [] s = "ThreeBet" -> RollCard(c, rank)
                      [] s = "RollBet"  -> RiverCard(c, rank)
                      [] s = "RiverBet" -> PotCalculation(c, rank)
<1>1. u = Turn(c, rank, moved)
  <2>1. c.state = s
    BY DEF Plays, TableIn
  <2>2. [c EXCEPT !.waiting = FALSE] = c
    BY NotWaiting
  <2>3. CASE s = "HandBet"
    BY <2>1, <2>2, <2>3 DEF ContinueFrom, CheckTurn, Turn
  <2>4. CASE s = "ThreeBet"
    BY <2>1, <2>2, <2>4 DEF ContinueFrom, CheckTurn, Turn
  <2>5. CASE s = "RollBet"
    BY <2>1, <2>2, <2>5 DEF ContinueFrom, CheckTurn, Turn
  <2>6. CASE s = "RiverBet"
    BY <2>1, <2>2, <2>6 DEF ContinueFrom, CheckTurn, Turn
  <2> QED
    BY <2>3, <2>4, <2>5, <2>6 DEF BetStates
<1>2. CASE AtMostOne(OnTable(c))
  <2>1. Ended(u) /\ Settles(c, u)
    BY <1>1, <1>2, PotCalculationAfterPlay DEF Turn
  <2>2. AtMostOne(Active(c))
    BY <1>2, ActiveOnTable DEF AtMostOne
  <2> QED
    BY <2>1, <2>2 DEF EndsHand
<1>3. CASE ~AtMostOne(OnTable(c)) /\ RoundOver(c)
  <2>1. u = moved
    BY <1>1, <1>3 DEF Turn
  <2>2. CASE s = "RiverBet"
    <3>1. Ended(moved) /\ Settles(c, moved)
      BY <2>2, PotCalculationAfterPlay
    <3> QED
      BY <1>3, <2>1, <2>2, <3>1 DEF EndsHand
  <2>3. CASE s # "RiverBet"
    <3>1. NewRound(c, moved, NextRound(s))
      BY <2>3, ThreeCardsFollow, RollCardFollows, RiverCardFollows DEF NextRound, BetStates
    <3>2. OpensNext(c, u, s) \/ EndsHand(c, u, s)
      <4> HIDE DEF moved, u
      <4> QED
        BY <1>3, <2>1, <2>3, <3>1 DEF NewRound, OpensNext, EndsHand
    <3> QED
      BY <3>2
  <2> QED
    BY <2>2, <2>3
<1>4. CASE ~AtMostOne(OnTable(c)) /\ ~RoundOver(c)
  <2>1. u = AwaitAction(c)
    BY <1>1, <1>4 DEF Turn
  <2>2. ~AtMostOne(Active(c))
    BY <1>4 DEF RoundOver
  <2>3. /\ Waits(u, s) /\ SameChips(c, u)
        /\ u = [c EXCEPT !.betIndex = NextToAct(c), !.waiting = TRUE, !.timer = 0]
    BY <2>1, <2>2, AwaitActionWaits, StatesOfPlay
  <2> HIDE DEF u
  <2>4. Staked(c) => Audit(c, u)
    BY <2>3, WaitingSettles DEF Plays
  <2>5. RoundsOn(c, u, s)
    BY <1>4, <2>3, <2>4 DEF RoundsOn
  <2> QED
    BY <2>5 DEF u
<1> QED
  BY <1>2, <1>3, <1>4

(* What the player to act does to the table a hand waits at: only the      *)
(* player's own state and chips, and the pot.                              *)
ActsAlone(t, a) ==
  /\ a \in TableIn({t.state})
  /\ a.seated = t.seated /\ a.arrived = t.arrived /\ a.board = t.board
  /\ a.inProgress = t.inProgress /\ a.waiting = t.waiting
  /\ a.betIndex = t.betIndex /\ a.betNum = t.betNum /\ a.result = t.result
  /\ a.pot # NoPot /\ CarriesOn(t, a)
  /\ \A p \in Seat \ {t.betIndex} :
       a.card[p] = t.card[p] /\ a.bet[p] = t.bet[p] /\ a.money[p] = t.money[p]

(* Each of the actions of PokerPlayer is of this kind, as is none at all.  *)
LEMMA ActionsAreAlone ==
  ASSUME NEW s \in BetStates, NEW t, Waits(t, s), NEW n \in Chips
  PROVE  /\ ActsAlone(t, t)
         /\ ActsAlone(t, Fold(t, t.betIndex))
         /\ ActsAlone(t, Check(t, t.betIndex))
         /\ ActsAlone(t, Call(t, t.betIndex, n))
         /\ ActsAlone(t, Raise(t, t.betIndex, n))
         /\ ActsAlone(t, AllIn(t, t.betIndex))
<1> DEFINE i == t.betIndex
<1>1. t \in TableIn({s}) /\ t.pot # NoPot /\ t.state = s
  BY DEF Waits, TableIn
<1>2. i \in Seat
  BY <1>1, PotAssumption DEF Waits, Active, Seated, Seat, TableIn
<1>3. ASSUME NEW u \in TableIn({s}), ActsAlone(t, u), NEW k \in CardState
      PROVE  ActsAlone(t, [u EXCEPT !.card[i] = k])
  <2> DEFINE v == [u EXCEPT !.card[i] = k]
  <2>1. v \in TableIn({s})
    BY <1>2, <1>3 DEF TableIn
  <2>2. /\ v.seated = u.seated /\ v.arrived = u.arrived /\ v.board = u.board
        /\ v.inProgress = u.inProgress /\ v.waiting = u.waiting
        /\ v.betIndex = u.betIndex /\ v.betNum = u.betNum /\ v.result = u.result
        /\ v.pot = u.pot /\ v.bet = u.bet /\ v.money = u.money /\ v.total = u.total
        /\ \A p \in Seat \ {i} : v.card[p] = u.card[p]
    BY <1>3 DEF TableIn
  <2> HIDE DEF v
  <2>3. CarriesOn(u, v)
    BY <1>3, <2>2, SameCarriesOn DEF SameChips
  <2>4. CarriesOn(t, v)
    BY <1>1, <1>3, <2>3, CarriedOn, WorthType DEF ActsAlone
  <2> QED
    BY <1>1, <1>3, <2>1, <2>2, <2>4 DEF ActsAlone, v
<1>4. ASSUME NEW m \in Chips
      PROVE  Stake(t, i, m) \in TableIn({s}) /\ ActsAlone(t, Stake(t, i, m))
  <2> DEFINE v == Stake(t, i, m)
  <2>1. v \in TableIn({s}) /\ v.pot # NoPot /\ CarriesOn(t, v)
    <3>1. i \in Seated(t)
      BY DEF Waits, Active
    <3> QED
      BY <1>1, <1>2, <1>4, <3>1, StakeType
  <2>2. /\ v.seated = t.seated /\ v.arrived = t.arrived /\ v.board = t.board
        /\ v.inProgress = t.inProgress /\ v.waiting = t.waiting
        /\ v.betIndex = t.betIndex /\ v.betNum = t.betNum /\ v.result = t.result
        /\ v.card = t.card
        /\ \A p \in Seat \ {i} : v.bet[p] = t.bet[p] /\ v.money[p] = t.money[p]
    BY <1>1 DEF TableIn, Stake
  <2> HIDE DEF v
  <2> QED
    BY <1>1, <2>1, <2>2 DEF ActsAlone, v
<1>5. ActsAlone(t, t)
  <2>1. CarriesOn(t, t)
    BY <1>1, SameCarriesOn DEF SameChips
  <2> QED
    BY <1>1, <2>1 DEF ActsAlone
<1>6. {"Fold", "Bet", "Raise", "AllIn"} \subseteq CardState
  BY DEF CardState
<1>7. t.money[i] \in Chips
  BY <1>1, <1>2 DEF TableIn
<1>8. ActsAlone(t, Fold(t, i)) /\ ActsAlone(t, Check(t, i))
  BY <1>1, <1>3, <1>5, <1>6 DEF Fold, Check
<1>9. ActsAlone(t, Call(t, i, n)) /\ ActsAlone(t, Raise(t, i, n))
  BY <1>3, <1>4, <1>6 DEF Call, Raise
<1>10. ActsAlone(t, AllIn(t, i))
  BY <1>3, <1>4, <1>6, <1>7 DEF AllIn
<1> QED
  BY <1>5, <1>8, <1>9, <1>10

(* The table CheckTurn is called with after the player to act left a: a    *)
(* raise puts every other active player back in play, nothing else does.   *)
Heard(t, a, c) ==
  /\ c.seated = t.seated
  /\ c.betIndex = After(t, t.betIndex)
  /\ \A p \in Seated(t) \ {t.betIndex} :
       /\ c.money[p] = t.money[p]
       /\ p \notin Active(t) => c.card[p] = t.card[p]
       /\ p \in Active(t) => p \in Active(c)
       /\ p \in Active(c) => p \in Active(t)
  /\ IF a.card[t.betIndex] = "Raise"
       THEN \A p \in Active(t) \ {t.betIndex} : c.card[p] = "Play"
       ELSE /\ c.betNum = t.betNum /\ c.card = a.card /\ c.bet = a.bet
            /\ \A p \in Seated(t) \ {t.betIndex} : c.card[p] = t.card[p] /\ c.bet[p] = t.bet[p]

(* OnPlayerAction clears the raise and calls CheckTurn on such a table.    *)
LEMMA ActionIsHeard ==
  ASSUME NEW s \in BetStates, NEW t, Waits(t, s), NEW a, ActsAlone(t, a),
         NEW rank \in [Seat -> Nat]
  PROVE  \E c : /\ Plays(c, s) /\ Heard(t, a, c) /\ CarriesOn(t, c)
                /\ OnPlayerAction(a, rank) = ContinueFrom(c, rank)
<1> DEFINE i == t.betIndex
           cards == [p \in Seat |->
                       CASE p = i -> "Bet"
                         [] p # i /\ p \in Active(a) -> "Play"
                         [] OTHER -> a.card[p]]
           raised == [a EXCEPT !.betNum = a.bet[i], !.card = cards]
           heard == IF a.card[i] = "Raise" THEN raised ELSE a
           c == [heard EXCEPT !.waiting = FALSE, !.timer = 0, !.betIndex = After(a, i)]
<1>1. /\ t \in TableIn({s}) /\ t.state = s /\ a \in TableIn({s}) /\ a.betIndex = i
      /\ a.seated = t.seated /\ a.seated \in 0 .. MaxPlayerNumber
  BY DEF Waits, TableIn, ActsAlone
<1>2. i \in Seated(t) /\ i \in Seat /\ Seated(t) \subseteq Seat
  BY <1>1, PotAssumption DEF Waits, Active, Seated, Seat, TableIn
<1>3. Seated(a) = Seated(t)
  BY <1>1 DEF Seated
<1>4. a.seated \in Nat \ {0}
  BY <1>1, <1>2 DEF Seated
<1>5. After(a, i) \in Seated(t) /\ After(a, i) = After(t, i)
  BY <1>1, <1>2, <1>3, <1>4, AfterIs DEF After
<1>6. PICK o \in Active(t) : o # i
  BY DEF Waits, AtMostOne
<1>7. \A p \in Seated(t) \ {i} : p \in Active(t) <=> p \in Active(a)
  BY <1>2, <1>3 DEF Active, ActsAlone
<1>8. cards \in [Seat -> CardState] /\ a.bet[i] \in Chips
  BY <1>1, <1>2 DEF CardState, TableIn
<1>9. heard \in TableIn({s}) /\ heard.seated = t.seated /\ heard.arrived = t.arrived
      /\ heard.board = t.board /\ heard.inProgress = t.inProgress /\ heard.pot # NoPot
      /\ heard.result = t.result /\ heard.money = a.money /\ heard.bet = a.bet
      /\ heard.total = a.total /\ heard.pot = a.pot
  <2> HIDE DEF cards
  <2>1. CASE a.card[i] = "Raise"
    <3>1. raised \in TableIn({s})
      BY <1>1, <1>8 DEF TableIn
    <3>2. /\ raised.seated = a.seated /\ raised.arrived = a.arrived
          /\ raised.board = a.board /\ raised.inProgress = a.inProgress /\ raised.pot = a.pot
          /\ raised.result = a.result /\ raised.money = a.money /\ raised.bet = a.bet
          /\ raised.total = a.total
      BY <1>1 DEF TableIn
    <3> HIDE DEF raised
    <3> QED
      BY <2>1, <3>1, <3>2 DEF ActsAlone
  <2>2. CASE a.card[i] # "Raise"
    BY <1>1, <2>2 DEF ActsAlone
  <2> QED
    BY <2>1, <2>2
<1>10. /\ a.card[i] = "Raise" => heard.card = cards
       /\ a.card[i] # "Raise" => heard.card = a.card /\ heard.betNum = t.betNum
  <2> HIDE DEF cards
  <2> QED
    BY <1>1 DEF TableIn, ActsAlone
<1> HIDE DEF heard
<1>11. 0 \in 0 .. (ActionTimeout - 1) /\ After(a, i) \in Seat
  BY <1>2, <1>5, PokerRoomAssumption
<1>12. c \in TableIn({s}) /\ c.betIndex = After(t, i) /\ ~c.waiting
       /\ c.seated = heard.seated /\ c.arrived = heard.arrived /\ c.board = heard.board
       /\ c.inProgress = heard.inProgress /\ c.pot = heard.pot /\ c.result = heard.result
       /\ c.money = heard.money /\ c.bet = heard.bet /\ c.card = heard.card
       /\ c.betNum = heard.betNum /\ c.total = heard.total
  <2>1. c \in TableIn({s})
    BY <1>9, <1>11 DEF TableIn
  <2> QED
    BY <1>5, <1>9, <2>1 DEF TableIn
<1>13. OnPlayerAction(a, rank) = ContinueFrom(c, rank)
  BY <1>1 DEF OnPlayerAction, heard
<1> HIDE DEF c
<1>14. Seated(c) = Seated(t)
  BY <1>9, <1>12 DEF Seated
<1>15. ASSUME NEW p \in Seated(t) \ {i}
       PROVE  /\ c.card[p] = IF a.card[i] = "Raise" /\ p \in Active(t) THEN "Play"
                                                                       ELSE t.card[p]
              /\ c.bet[p] = t.bet[p] /\ c.money[p] = t.money[p]
  <2>1. p \in Seat \ {i}
    BY <1>2
  <2>2. a.card[p] = t.card[p] /\ a.bet[p] = t.bet[p] /\ a.money[p] = t.money[p]
    BY <2>1 DEF ActsAlone
  <2>3. cards[p] = IF p \in Active(a) THEN "Play" ELSE a.card[p]
    BY <2>1
  <2> HIDE DEF cards
  <2> QED
    BY <1>7, <1>9, <1>10, <1>12, <2>2, <2>3
<1>16. c.card[i] # "Raise"
  BY <1>2, <1>10, <1>12
<1>17. \A p \in Seated(t) \ {i} : p \in Active(c) <=> p \in Active(t)
  BY <1>14, <1>15 DEF Active
<1>18. Heard(t, a, c)
  BY <1>9, <1>10, <1>12, <1>15, <1>17 DEF Heard, Active
<1>19. o \in Active(c)
  BY <1>6, <1>17 DEF Active
<1>20. \A p \in Seated(c) : c.card[p] # "Raise"
  BY <1>14, <1>15, <1>16 DEF Waits
<1>21. Plays(c, s)
  <2>1. OnTable(c) # {}
    BY <1>19, ActiveOnTable
  <2>2. c.seated > 1
    BY <1>1, <1>2, <1>6, <1>9, <1>12 DEF Active, Seated
  <2> QED
    BY <1>5, <1>9, <1>12, <1>14, <1>20, <2>1, <2>2 DEF Plays, Waits
<1>22. CarriesOn(t, c)
  <2>1. CarriesOn(a, c)
    BY <1>1, <1>9, <1>12, SameCarriesOn DEF SameChips
  <2> QED
    BY <1>1, <2>1, CarriedOn, WorthType DEF ActsAlone
<1> QED
  BY <1>13, <1>18, <1>21, <1>22

(* Nobody at the table has had a turn; who has paid a blind bet something. *)
Blinded(t) ==
  \A p \in Seated(t) : \/ t.card[p] \in {"Play", "AllIn"}
                       \/ t.card[p] = "Bet" /\ t.bet[p] # 0

(* The fields that paying a blind does not touch. *)
KeepsHand(t, u) ==
  /\ u.seated = t.seated /\ u.arrived = t.arrived /\ u.board = t.board
  /\ u.inProgress = t.inProgress /\ u.waiting = t.waiting /\ u.result = t.result
  /\ u.small = t.small /\ u.great = t.great

(* A forced bet keeps it so: PokerPlayer::Bet.                             *)
LEMMA BetBlind ==
  ASSUME NEW S, NEW t \in TableIn(S), t.pot # NoPot, Blinded(t),
         NEW b \in Seat, b \in Seated(t), NEW n \in Chips \ {0}
  PROVE  LET u == Bet(t, b, n)
         IN  /\ u \in TableIn(S) /\ u.pot # NoPot /\ Blinded(u) /\ KeepsHand(t, u)
             /\ CarriesOn(t, u)
<1>1. ASSUME NEW m \in Chips, NEW k \in {"Bet", "AllIn"}, k = "Bet" => m # 0
      PROVE  LET u == [Stake(t, b, m) EXCEPT !.card[b] = k]
             IN  u \in TableIn(S) /\ u.pot # NoPot /\ Blinded(u) /\ KeepsHand(t, u)
                 /\ CarriesOn(t, u)
  <2> DEFINE v == Stake(t, b, m)
             u == [v EXCEPT !.card[b] = k]
  <2>1. v \in TableIn(S) /\ v.pot # NoPot /\ CarriesOn(t, v)
    BY StakeType
  <2>2. /\ KeepsHand(t, v) /\ v.card = t.card /\ v.bet = [t.bet EXCEPT ![b] = m]
    BY DEF Stake, TableIn, KeepsHand
  <2> HIDE DEF v
  <2>3. /\ u \in TableIn(S) /\ u.pot # NoPot
    BY <2>1 DEF TableIn, CardState
  <2>4. KeepsHand(v, u) /\ u.card = [v.card EXCEPT ![b] = k] /\ u.bet = v.bet
        /\ SameChips(v, u)
    BY <2>1 DEF TableIn, KeepsHand, SameChips
  <2> HIDE DEF u
  <2>5. KeepsHand(t, u) /\ Seated(u) = Seated(t)
    BY <2>2, <2>4 DEF KeepsHand, Seated
  <2>6. /\ \A p \in Seat : u.card[p] = IF p = b THEN k ELSE t.card[p]
        /\ \A p \in Seat : u.bet[p] = IF p = b THEN m ELSE t.bet[p]
    BY <2>2, <2>4 DEF TableIn
  <2>7. Seated(t) \subseteq Seat
    BY PotAssumption DEF TableIn, Seated, Seat
  <2>8. Blinded(u)
    BY <1>1, <2>5, <2>6, <2>7 DEF Blinded
  <2>9. CarriesOn(t, u)
    BY <2>1, <2>4, SameCarriesOn, CarriedOn, WorthType
  <2> QED
    BY <2>3, <2>5, <2>8, <2>9 DEF u, v
<1>2. CASE n < t.money[b]
  BY <1>1, <1>2 DEF Bet
<1>3. CASE ~(n < t.money[b])
  <2>1. t.money[b] \in Chips
    BY DEF TableIn
  <2> QED
    BY <1>1, <1>3, <2>1 DEF Bet, AllIn
<1> QED
  BY <1>2, <1>3

(* When the blinds are in, the hand waits for the first player to act, or  *)
(* is over at once because at most one of the players has chips to play.   *)
LEMMA BlinderBetStarts ==
  ASSUME NEW t \in TableIn({"Start"}), ~t.waiting, t.board = 0, t.inProgress,
         t.seated =< t.arrived, t.seated > 1, t.pot # NoPot, t.result = NoResult,
         \A p \in Seated(t) : t.card[p] = "Play",
         t.small \in Seated(t), t.great \in Seated(t),
         NEW rank \in [Seat -> Nat]
  PROVE  LET u == BlinderBet(t, rank)
         IN  /\ Ended(u) \/ (Waits(u, "HandBet") /\ AllOwing(u))
             /\ Staked(t) => Audit(t, u)
<1> DEFINE c == SetState(t, "BlinderBet")
           d == Bet(c, c.small, SmallBet)
           e == Bet(d, c.great, GreatBet)
           f == [e EXCEPT !.betNum = GreatBet]
           g == SetState(f, "HandCard")
           h == SetState(g, "HandBet")
           i == [h EXCEPT !.betIndex = After(h, h.great)]
<1>0. {"Start", "BlinderBet", "HandCard", "HandBet"} \subseteq PokerRoomState
  BY DEF PokerRoomState
<1>1. c \in TableIn({"BlinderBet"}) /\ c = [t EXCEPT !.state = "BlinderBet", !.betNum = c.betNum]
  <2>1. t \in TableIn(PokerRoomState)
    BY <1>0 DEF TableIn
  <2> QED
    BY <1>0, <2>1, SetStateType
<1>2. KeepsHand(t, c) /\ c.pot = t.pot /\ c.card = t.card /\ SameChips(t, c)
  BY <1>1 DEF TableIn, KeepsHand, SameChips
<1> HIDE DEF c
<1>3. Seated(c) = Seated(t) /\ Blinded(c)
  BY <1>2 DEF KeepsHand, Seated, Blinded
<1>4. c.small \in Seat /\ c.great \in Seat /\ SmallBet \in Chips \ {0} /\ GreatBet \in Chips \ {0}
  BY <1>1, <1>2, PokerRoomAssumption, PotAssumption DEF KeepsHand, TableIn, Seated, Seat
<1>5. /\ d \in TableIn({"BlinderBet"}) /\ d.pot # NoPot /\ Blinded(d) /\ KeepsHand(c, d)
      /\ CarriesOn(c, d)
  <2>1. c.small \in Seated(c)
    BY <1>2, <1>3 DEF KeepsHand
  <2> QED
    BY <1>1, <1>2, <1>3, <1>4, <2>1, BetBlind
<1> HIDE DEF d
<1>6. /\ e \in TableIn({"BlinderBet"}) /\ e.pot # NoPot /\ Blinded(e) /\ KeepsHand(d, e)
      /\ CarriesOn(d, e)
  <2>1. c.great \in Seated(d)
    BY <1>2, <1>3, <1>5 DEF KeepsHand, Seated
  <2> QED
    BY <1>4, <1>5, <2>1, BetBlind
<1> HIDE DEF e
<1>7. /\ f \in TableIn({"BlinderBet"}) /\ f.pot = e.pot /\ f.card = e.card /\ f.bet = e.bet
      /\ KeepsHand(e, f) /\ SameChips(e, f)
  BY <1>4, <1>6 DEF TableIn, KeepsHand, SameChips
<1> HIDE DEF f
<1>8. f \in TableIn(PokerRoomState) /\ f.state = "BlinderBet"
  BY <1>0, <1>7 DEF TableIn
<1>9. g \in TableIn({"HandCard"}) /\ g = [f EXCEPT !.state = "HandCard", !.betNum = g.betNum]
  BY <1>0, <1>8, SetStateType
<1>10. g.betNum = 0 /\ g.pot = f.pot /\ g.card = f.card /\ g.bet = f.bet /\ KeepsHand(f, g)
       /\ SameChips(f, g)
  <2>1. g = [f EXCEPT !.state = "HandCard", !.betNum = 0]
    BY <1>8 DEF SetState
  <2> HIDE DEF g
  <2> QED
    BY <1>7, <2>1 DEF TableIn, KeepsHand, SameChips
<1> HIDE DEF g
<1>11. g \in TableIn(PokerRoomState) /\ g.state = "HandCard"
  BY <1>0, <1>9 DEF TableIn
<1>12. h \in TableIn({"HandBet"}) /\ h = [g EXCEPT !.state = "HandBet", !.betNum = h.betNum]
  BY <1>0, <1>11, SetStateType
<1>13. h.betNum = 0 /\ h.pot = g.pot /\ h.card = g.card /\ h.bet = g.bet /\ KeepsHand(g, h)
       /\ SameChips(g, h)
  <2>1. h = [g EXCEPT !.state = "HandBet", !.betNum = 0]
    BY <1>11 DEF SetState
  <2> HIDE DEF h
  <2> QED
    BY <1>9, <2>1 DEF TableIn, KeepsHand, SameChips
<1> HIDE DEF h
<1>14. KeepsHand(t, h)
  BY <1>2, <1>5, <1>6, <1>7, <1>10, <1>13 DEF KeepsHand
<1>15. Seated(h) = Seated(t) /\ Seated(e) = Seated(t)
  BY <1>2, <1>5, <1>6, <1>14 DEF KeepsHand, Seated
<1>16. After(h, h.great) \in Seated(t)
  <2>1. h.great \in Seated(h) /\ h.seated \in Nat \ {0}
    BY <1>12, <1>14, <1>15 DEF KeepsHand, TableIn
  <2> QED
    BY <1>15, <2>1, AfterIs
<1>17. Seated(t) \subseteq Seat
  BY PotAssumption DEF TableIn, Seated, Seat
<1>18. /\ i \in TableIn({"HandBet"}) /\ i.betIndex \in Seated(t)
       /\ i.betNum = 0 /\ i.pot = h.pot /\ i.card = h.card /\ i.bet = h.bet /\ KeepsHand(h, i)
       /\ SameChips(h, i)
  BY <1>12, <1>13, <1>16, <1>17 DEF TableIn, KeepsHand, SameChips
<1>19. BlinderBet(t, rank) = Turn(i, rank, ThreeCards(i, rank)) \/ i.waiting
  <2>1. BlinderBet(t, rank) = HandBet(g, rank)
    BY DEF BlinderBet, c, d, e, f, g
  <2>2. [i EXCEPT !.waiting = FALSE] = i \/ i.waiting
    BY <1>18 DEF TableIn
  <2>3. HandBet(g, rank) = CheckTurn(i, rank, ThreeCards(i, rank))
    BY DEF HandBet, h
  <2> HIDE DEF i
  <2> QED
    BY <2>1, <2>2, <2>3 DEF CheckTurn, Turn
<1> HIDE DEF i
<1>20. KeepsHand(t, i) /\ Seated(i) = Seated(t) /\ Blinded(i) /\ i.pot # NoPot
  BY <1>6, <1>7, <1>10, <1>13, <1>14, <1>15, <1>18 DEF KeepsHand, Seated, Blinded
<1>21. /\ OnTable(i) # {} /\ \A p \in Seated(i) : i.card[p] # "Raise"
  BY <1>18, <1>20 DEF Blinded, OnTable
<1>22. Plays(i, "HandBet")
  BY <1>18, <1>20, <1>21 DEF Plays, KeepsHand, CardsOut
<1>23. AllOwing(i)
  BY <1>18, <1>20 DEF Blinded, AllOwing, Owing, Active
<1>24. AtMostOne(Active(i)) => Ended(ThreeCards(i, rank)) /\ Settles(i, ThreeCards(i, rank))
  BY <1>22, ThreeCardsFollow DEF NewRound
<1>25. NewRound(i, Turn(i, rank, ThreeCards(i, rank)), "HandBet")
  BY <1>22, <1>23, <1>24, FirstTurn DEF BetStates
<1> DEFINE u == Turn(i, rank, ThreeCards(i, rank))
<1>26. BlinderBet(t, rank) = u
  BY <1>19, <1>22 DEF Plays
<1>27. CarriesOn(t, i)
  <2>1. SameChips(e, i)
    BY <1>7, <1>10, <1>13, <1>18 DEF SameChips
  <2>2. CarriesOn(t, c) /\ CarriesOn(e, i)
    BY <1>2, <1>6, <2>1, SameCarriesOn
  <2>3. Worth(t) \in Int
    BY WorthType
  <2>4. CarriesOn(t, d)
    BY <1>5, <2>2, <2>3, CarriedOn
  <2>5. CarriesOn(t, e)
    BY <1>6, <2>3, <2>4, CarriedOn
  <2> QED
    BY <2>2, <2>3, <2>5, CarriedOn
<1> HIDE DEF u
<1>28. ASSUME Staked(t) PROVE Audit(t, u)
  <2>1. Audit(i, u)
    BY <1>25, <1>27, <1>28 DEF u, NewRound, Settles, CarriesOn
  <2>2. u \in TableIn({"HandBet"}) \/ u \in TableIn({"Init", "Start"})
    BY <1>25 DEF u, NewRound, Waits, Ended, Rests
  <2>3. Worth(t) \in Int /\ Worth(u) \in Int
    BY <2>2, WorthType
  <2> QED
    BY <1>27, <2>1, <2>3, CarriedOn
<1>29. Ended(u) \/ (Waits(u, "HandBet") /\ AllOwing(u))
  BY <1>25 DEF NewRound, u
<1> QED
  BY <1>26, <1>28, <1>29

(* The roles go to players at the table (SetDealer).                       *)
LEMMA SetDealerType ==
  ASSUME NEW t \in TableIn({"Start"}), t.seated > 1
  PROVE  LET u == SetDealer(t)
         IN  /\ u \in TableIn({"Start"})
             /\ u.small \in Seated(t) /\ u.great \in Seated(t)
             /\ u = [t EXCEPT !.dealer = u.dealer, !.small = u.small, !.great = u.great]
<1> DEFINE u == SetDealer(t)
           dealer == (OldDealer + 1) % t.seated
           small == IF t.seated = 2 THEN dealer ELSE (dealer + 1) % t.seated
           great == IF t.seated = 2 THEN (dealer + 1) % t.seated ELSE (dealer + 2) % t.seated
<1>1. \A m \in Nat \ {0} : \A k \in Int : k % m \in 0 .. m - 1
  OBVIOUS
<1>2. PICK m \in Nat \ {0} : m = t.seated
  BY DEF TableIn
<1>3. dealer \in 0 .. m - 1 /\ (dealer + 1) % m \in 0 .. m - 1 /\ (dealer + 2) % m \in 0 .. m - 1
  <2>1. dealer \in 0 .. m - 1
    <3>1. OldDealer + 1 \in Int
      BY DEF OldDealer
    <3> QED
      BY <1>1, <1>2, <3>1
  <2> HIDE DEF dealer
  <2>2. dealer + 1 \in Int /\ dealer + 2 \in Int
    BY <2>1
  <2> QED
    BY <1>1, <2>1, <2>2
<1>4. small \in 0 .. m - 1 /\ great \in 0 .. m - 1
  BY <1>2, <1>3
<1>5. u = [t EXCEPT !.dealer = dealer, !.small = small, !.great = great]
  BY DEF SetDealer
<1>6. 0 .. m - 1 \subseteq Seat /\ Seated(t) = 0 .. m - 1
  BY <1>2, PotAssumption DEF TableIn, Seat, Seated
<1> HIDE DEF dealer, small, great, u
<1>7. u.dealer = dealer /\ u.small = small /\ u.great = great
  BY <1>5 DEF TableIn
<1>8. dealer \in Seat /\ small \in Seat /\ great \in Seat
  BY <1>3, <1>4, <1>6
<1>9. u \in TableIn({"Start"})
  BY <1>5, <1>8 DEF TableIn
<1> QED
  BY <1>4, <1>5, <1>6, <1>7, <1>9 DEF u

(* A start deals a hand that waits for its first player, or leaves the     *)
(* table at rest and free for another game.                                *)
LEMMA StartNewGameStarts ==
  ASSUME NEW t, Rests(t), NEW rank \in [Seat -> Nat]
  PROVE  LET u == StartNewGame(t, rank)
         IN  /\ (Rests(u) /\ ~u.inProgress) \/ (Waits(u, "HandBet") /\ AllOwing(u))
             /\ Unstaked(t) => Audit(t, u)
<1> DEFINE q == Quiet(t)
           r == CheckPlayer(q)
           c == [r EXCEPT !.inProgress = TRUE, !.pot = 0]
           d == SetDealer(c)
           n == [c EXCEPT !.inProgress = FALSE]
<1>1. t \in TableIn(PokerRoomState)
  BY DEF Rests, TableIn, PokerRoomState
<1>2. q \in TableIn(PokerRoomState) /\ q.result = NoResult
  BY <1>1 DEF Quiet, TableIn, Result
<1>3. /\ ~q.waiting /\ q.seated = t.seated /\ q.arrived = t.arrived /\ q.betIndex = t.betIndex
      /\ q.total = t.total /\ q.bet = t.bet /\ q.money = t.money
  BY <1>1 DEF Quiet, TableIn, Rests
<1>4. q.seated =< q.arrived /\ q.betIndex \in Seated(q) \cup {-1} /\ (q.betIndex # -1 => q.seated > 1)
  BY <1>3 DEF Rests, Seated
<1>5. ProperResult(q)
  BY <1>2 DEF ProperResult, NoResult
<1> HIDE DEF q
<1>6. /\ Rests(r) /\ r.state = "Start" /\ ~r.inProgress /\ r.pot = NoPot /\ r.result = NoResult
      /\ \A p \in Seated(r) : r.card[p] = "Play"
      /\ r.money = q.money
      /\ (\A p \in Seat \ Seated(q) : q.total[p] = 0 /\ q.bet[p] = 0) => Unstaked(r)
  BY <1>2, <1>3, <1>4, <1>5, CheckPlayerEnds
<1> HIDE DEF r
<1>7. r \in TableIn({"Start"})
  BY <1>6 DEF Rests, TableIn
<1>8. c \in TableIn({"Start"})
  BY <1>7, ZeroIsChips DEF TableIn
<1>9. /\ c.seated = r.seated /\ c.arrived = r.arrived /\ c.waiting = r.waiting
      /\ c.board = r.board /\ c.inProgress = TRUE /\ c.pot = 0 /\ c.card = r.card
      /\ c.betIndex = r.betIndex /\ c.result = r.result /\ c.state = "Start"
      /\ c.total = r.total /\ c.bet = r.bet /\ c.money = r.money
  BY <1>7, <1>8 DEF TableIn
<1>10. c.seated =< c.arrived /\ ~c.waiting /\ c.board = 0 /\ c.pot # NoPot
  BY <1>6, <1>9 DEF Rests, NoPot
<1>11. c.seated \in Nat
  <2> HIDE DEF c
  <2> QED
    BY <1>8, PotAssumption DEF TableIn
<1>14. ASSUME Unstaked(t)
       PROVE  Unstaked(c) /\ Staked(c) /\ CarriesOn(t, c)
  <2>1. Unstaked(r)
    BY <1>3, <1>6, <1>14 DEF Unstaked
  <2>2. t.money \in [Seat -> Chips] /\ c.money = t.money
    BY <1>1, <1>3, <1>6, <1>9 DEF TableIn
  <2> HIDE DEF c
  <2>3. Unstaked(c)
    BY <1>9, <2>1 DEF Unstaked
  <2>4. SumOf(c.total) = 0
    <3>1. MaxPlayerNumber \in Nat /\ \A p \in 0 .. MaxPlayerNumber - 1 : c.total[p] = 0
      BY <2>3, PotAssumption DEF Unstaked, Seat
    <3> QED
      BY <3>1, SumToZero DEF SumOf
  <2>5. Staked(c)
    BY <1>9, <1>10, <2>3, <2>4, ZeroIsChips, WrapIsSame DEF Staked, Unstaked
  <2>6. SumOf(t.money) \in Int
    BY <2>2, SumOfType
  <2>7. Worth(t) = SumOf(t.money) /\ Worth(c) = SumOf(t.money)
    BY <1>9, <1>14, <2>2, <2>6 DEF Worth, Unstaked
  <2> QED
    BY <2>3, <2>5, <2>6, <2>7 DEF CarriesOn, Same
<1>12. CASE c.seated < 2
  <2>1. StartNewGame(t, rank) = SetState(n, "Start")
    BY <1>12 DEF StartNewGame, c, r, q
  <2> HIDE DEF c
  <2>2. n \in TableIn({"Start"}) /\ n.state = "Start" /\ ~n.inProgress /\ ~n.waiting
        /\ n.board = 0 /\ n.seated = c.seated /\ n.arrived = c.arrived
        /\ n.betIndex = c.betIndex /\ n.result = c.result /\ SameChips(c, n)
    BY <1>8, <1>10 DEF TableIn, SameChips
  <2>3. SetState(n, "Start") = n
    BY <2>2 DEF SetState
  <2> HIDE DEF n
  <2>4. n.betIndex = -1
    <3>1. r.betIndex # -1 => r.seated > 1
      BY <1>6 DEF Rests
    <3> QED
      BY <1>9, <1>11, <1>12, <2>2, <3>1
  <2>5. ProperResult(n)
    BY <1>6, <1>9, <2>2 DEF ProperResult, NoResult
  <2>6. n \in TableIn({"Init", "Start"})
    BY <2>2 DEF TableIn
  <2>7. Rests(n)
    BY <1>10, <2>2, <2>4, <2>5, <2>6 DEF Rests
  <2>8. ASSUME Unstaked(t) PROVE Audit(t, n)
    <3>1. Worth(n) = Worth(c) /\ Unstaked(n)
      BY <1>14, <2>2, <2>8 DEF SameChips, Worth, Unstaked
    <3>2. Worth(t) \in Int /\ DroppedAtMost(n) \in Nat
      BY <1>1, <2>2, WorthType
    <3>3. Same(Worth(t), Worth(n)) /\ Worth(n) \in Int
      BY <1>14, <2>8, <3>1 DEF CarriesOn, Same
    <3>4. (Worth(t) - Worth(n)) % ChipMod = 0
      BY <3>2, <3>3, NothingMissing
    <3> QED
      BY <2>2, <3>1, <3>2, <3>4 DEF Audit, InBalance, BetStates
  <2> QED
    BY <2>1, <2>2, <2>3, <2>7, <2>8
<1>13. CASE ~(c.seated < 2)
  <2>1. StartNewGame(t, rank) = BlinderBet(d, rank)
    BY <1>13 DEF StartNewGame, c, r, q
  <2> HIDE DEF c
  <2>2. c.seated > 1
    BY <1>11, <1>13
  <2>3. /\ d \in TableIn({"Start"}) /\ d.small \in Seated(c) /\ d.great \in Seated(c)
        /\ d = [c EXCEPT !.dealer = d.dealer, !.small = d.small, !.great = d.great]
    BY <1>8, <2>2, SetDealerType
  <2> HIDE DEF d
  <2>4. /\ d.seated = c.seated /\ d.arrived = c.arrived /\ d.waiting = c.waiting
        /\ d.board = c.board /\ d.inProgress = c.inProgress /\ d.pot = c.pot
        /\ d.card = c.card /\ d.result = c.result /\ SameChips(c, d)
    BY <1>8, <2>3 DEF TableIn, SameChips
  <2>5. Seated(d) = Seated(c) /\ \A p \in Seated(d) : d.card[p] = "Play"
    BY <1>6, <1>9, <2>4 DEF Seated
  <2>6. LET u == BlinderBet(d, rank)
        IN  /\ Ended(u) \/ (Waits(u, "HandBet") /\ AllOwing(u))
            /\ Staked(d) => Audit(d, u)
    BY <1>6, <1>9, <1>10, <2>2, <2>3, <2>4, <2>5, BlinderBetStarts
  <2> DEFINE u == BlinderBet(d, rank)
  <2>7. u \in TableIn({"HandBet"}) \/ u \in TableIn({"Init", "Start"})
    BY <2>6 DEF Waits, Ended, Rests
  <2> HIDE DEF u
  <2>8. ASSUME Unstaked(t) PROVE Audit(t, u)
    <3>1. CarriesOn(c, d) /\ Worth(t) \in Int /\ Worth(u) \in Int
      BY <1>1, <1>8, <2>4, <2>7, SameCarriesOn, WorthType
    <3>2. CarriesOn(t, d) /\ Staked(d)
      BY <1>14, <2>8, <3>1, CarriedOn DEF CarriesOn
    <3>3. Audit(d, u)
      BY <2>6, <3>2 DEF u
    <3> QED
      BY <3>1, <3>2, <3>3, CarriedOn
  <2> QED
    BY <2>1, <2>6, <2>8 DEF Ended, u
<1> QED
  BY <1>12, <1>13

(* Between hands the account is only carried on.                           *)
LEMMA IdleSettles ==
  ASSUME NEW S, NEW t \in TableIn(S), NEW u \in TableIn({"Init", "Start"}),
         u.money = t.money, u.pot = t.pot, u.total = t.total, u.bet = t.bet, Unstaked(t)
  PROVE  Audit(t, u)
<1>1. Worth(u) = Worth(t) /\ Unstaked(u)
  BY DEF Worth, Unstaked
<1>2. Worth(t) \in Int /\ DroppedAtMost(u) \in Nat
  BY WorthType
<1>3. (Worth(t) - Worth(u)) % ChipMod = 0
  BY <1>1, <1>2, NothingMissing DEF Same
<1>4. u.state \notin BetStates
  BY DEF TableIn, BetStates
<1> QED
  BY <1>1, <1>2, <1>3, <1>4 DEF Audit, InBalance

(* A message or an update finds nothing left to announce.                  *)
LEMMA QuietRests ==
  ASSUME NEW t, Rests(t)
  PROVE  /\ Rests(Quiet(t)) /\ Quiet(t).pot = t.pot
         /\ Quiet(t).state = t.state /\ Quiet(t).inProgress = t.inProgress
         /\ Quiet(t).betIndex = t.betIndex
         /\ SameChips(t, Quiet(t)) /\ (Unstaked(t) => Audit(t, Quiet(t)))
<1> DEFINE u == Quiet(t)
<1>1. t \in TableIn({"Init", "Start"})
  BY DEF Rests
<1>2. u \in TableIn({"Init", "Start"}) /\ u = [t EXCEPT !.result = NoResult]
  BY <1>1 DEF Quiet, TableIn, Result
<1> HIDE DEF u
<1>3. /\ u.seated = t.seated /\ u.arrived = t.arrived /\ u.waiting = t.waiting
      /\ u.board = t.board /\ u.pot = t.pot /\ u.betIndex = t.betIndex
      /\ u.result = NoResult /\ u.state = t.state /\ u.inProgress = t.inProgress
      /\ SameChips(t, u)
  BY <1>1, <1>2 DEF TableIn, SameChips
<1>4. Seated(u) = Seated(t)
  BY <1>3 DEF Seated
<1>5. ProperResult(u)
  BY <1>3 DEF ProperResult, NoResult
<1>6. Unstaked(t) => Audit(t, u)
  BY <1>1, <1>2, <1>3, IdleSettles DEF SameChips
<1> QED
  BY <1>2, <1>3, <1>4, <1>5, <1>6 DEF Rests, u

(* ... and while a hand waits, nothing was announced.                      *)
LEMMA QuietWaits ==
  ASSUME NEW t, NEW s, Waits(t, s)
  PROVE  Quiet(t) = t
  BY DEF Waits, Quiet, TableIn

(* An update moves the clock, or folds the player it ran out for.          *)
LEMMA ClockTicks ==
  ASSUME NEW s \in BetStates, NEW t, Waits(t, s), NEW ts \in Nat, NEW rank \in [Seat -> Nat]
  PROVE  \/ /\ Waits(OnUpdate(t, ts, rank), s)
            /\ OnUpdate(t, ts, rank) = [t EXCEPT !.timer = OnUpdate(t, ts, rank).timer]
            /\ SameChips(t, OnUpdate(t, ts, rank))
         \/ OnUpdate(t, ts, rank) = OnPlayerAction(Fold(t, t.betIndex), rank)
<1> DEFINE u == [t EXCEPT !.timer = t.timer + ts]
<1>1. t \in TableIn({s}) /\ t.state = s /\ t.waiting /\ Quiet(t) = t
  BY QuietWaits DEF Waits, TableIn
<1>2. CASE t.timer + ts < ActionTimeout
  <2>1. OnUpdate(t, ts, rank) = u
    BY <1>1, <1>2 DEF OnUpdate
  <2>2. t.timer + ts \in 0 .. (ActionTimeout - 1)
    BY <1>1, <1>2, PokerRoomAssumption DEF TableIn
  <2>3. u \in TableIn({s}) /\ u.timer = t.timer + ts
    BY <1>1, <2>2 DEF TableIn
  <2>4. /\ u.seated = t.seated /\ u.arrived = t.arrived /\ u.waiting = t.waiting
        /\ u.board = t.board /\ u.pot = t.pot /\ u.betIndex = t.betIndex
        /\ u.result = t.result /\ u.inProgress = t.inProgress /\ u.card = t.card
        /\ SameChips(t, u)
    BY <1>1 DEF TableIn, SameChips
  <2>5. Seated(u) = Seated(t) /\ Active(u) = Active(t)
    BY <2>4 DEF Seated, Active
  <2> HIDE DEF u
  <2>6. Waits(u, s)
    BY <2>3, <2>4, <2>5 DEF Waits
  <2> QED
    BY <2>1, <2>3, <2>4, <2>6 DEF u
<1>3. CASE ~(t.timer + ts < ActionTimeout)
  BY <1>1, <1>3 DEF OnUpdate
<1> QED
  BY <1>2, <1>3

(* An update does nothing to a table at rest.                              *)
LEMMA RestingUpdate ==
  ASSUME NEW t, Rests(t), NEW ts, NEW rank
  PROVE  OnUpdate(t, ts, rank) = Quiet(t)
  BY DEF Rests, OnUpdate

(* Joining and taking a table over leave it at rest.                       *)
LEMMA JoinRests ==
  ASSUME NEW t, Rests(t), t.arrived < MaxPlayerNumber
  PROVE  /\ Rests(OnAddPlayer(t)) /\ OnAddPlayer(t).inProgress = t.inProgress
         /\ OnAddPlayer(t).pot = t.pot /\ OnAddPlayer(t).state = t.state
         /\ Unstaked(t) => Audit(t, OnAddPlayer(t))
<1> DEFINE q == Quiet(t)
           u == OnAddPlayer(t)
<1>1. Rests(q) /\ q.inProgress = t.inProgress /\ q.pot = t.pot /\ q.state = t.state
      /\ SameChips(t, q)
  BY QuietRests
<1>2. q.arrived = t.arrived
  BY DEF Quiet, Rests, TableIn
<1>3. q \in TableIn({"Init", "Start"}) /\ q.arrived + 1 \in 0 .. MaxPlayerNumber
  BY <1>1, <1>2, PotAssumption DEF Rests, TableIn
<1>4. u = [q EXCEPT !.arrived = q.arrived + 1]
  BY DEF OnAddPlayer
<1> HIDE DEF q, u
<1>5. u \in TableIn({"Init", "Start"})
  BY <1>3, <1>4 DEF TableIn
<1>6. /\ u.seated = q.seated /\ u.arrived = q.arrived + 1 /\ u.waiting = q.waiting
      /\ u.board = q.board /\ u.pot = q.pot /\ u.betIndex = q.betIndex
      /\ u.result = q.result /\ u.inProgress = q.inProgress /\ u.state = q.state
      /\ SameChips(q, u)
  BY <1>3, <1>4 DEF TableIn, SameChips
<1>7. Seated(u) = Seated(q)
  BY <1>6 DEF Seated
<1>8. q.seated \in Nat /\ q.arrived \in Nat
  BY <1>3 DEF TableIn
<1>9. Unstaked(t) => Audit(t, u)
  BY <1>1, <1>5, <1>6, IdleSettles DEF SameChips, Rests
<1> QED
  BY <1>1, <1>5, <1>6, <1>7, <1>8, <1>9 DEF Rests, ProperResult, u

(* SetProgress marks a table and leaves it at rest.                        *)
LEMMA ProgressRests ==
  ASSUME NEW t, Rests(t)
  PROVE  /\ Rests(SetProgress(t)) /\ SetProgress(t).inProgress
         /\ SetProgress(t).state = t.state
         /\ Unstaked(t) => Audit(t, SetProgress(t))
<1> DEFINE q == Quiet(t)
           u == SetProgress(t)
<1>1. Rests(q) /\ q.state = t.state /\ SameChips(t, q)
  BY QuietRests
<1>2. q \in TableIn({"Init", "Start"}) /\ u = [q EXCEPT !.inProgress = TRUE]
  BY <1>1 DEF Rests, SetProgress
<1> HIDE DEF q, u
<1>3. u \in TableIn({"Init", "Start"})
  BY <1>2 DEF TableIn
<1>4. /\ u.seated = q.seated /\ u.arrived = q.arrived /\ u.waiting = q.waiting
      /\ u.board = q.board /\ u.pot = q.pot /\ u.betIndex = q.betIndex
      /\ u.result = q.result /\ u.inProgress = TRUE /\ u.state = q.state
      /\ SameChips(q, u)
  BY <1>2 DEF TableIn, SameChips
<1>5. Seated(u) = Seated(q)
  BY <1>4 DEF Seated
<1>6. Unstaked(t) => Audit(t, u)
  BY <1>1, <1>3, <1>4, IdleSettles DEF SameChips, Rests
<1> QED
  BY <1>1, <1>3, <1>4, <1>5, <1>6 DEF Rests, ProperResult, u

(* A room is created at rest, with its creator in it.                      *)
LEMMA NewTableRests ==
  /\ Rests(OnAddPlayer(NewTable)) /\ ~OnAddPlayer(NewTable).inProgress
  /\ InBalance(OnAddPlayer(NewTable))
<1> DEFINE t == NewTable
<1>1. 0 \in 0 .. MaxPlayerNumber /\ 0 \in 0 .. (ActionTimeout - 1) /\ 0 \in Chips /\ BuyIn \in Chips
  BY PotAssumption, PokerRoomAssumption, ZeroIsChips
<1>2. t \in TableIn({"Init"})
  BY <1>1 DEF NewTable, TableIn, CardState, Result
<1>3. /\ t.betIndex = -1 /\ ~t.waiting /\ t.board = 0 /\ t.seated = 0 /\ t.arrived = 0
      /\ t.result = NoResult /\ ~t.inProgress
  BY DEF NewTable
<1>4. t \in TableIn({"Init", "Start"})
  BY <1>2 DEF TableIn
<1>5. Rests(t)
  BY <1>3, <1>4 DEF Rests, ProperResult, NoResult
<1>6. Unstaked(t)
  BY DEF NewTable, Unstaked
<1> QED
  BY <1>3, <1>5, <1>6, JoinRests, PotAssumption DEF Audit
-----------------------------------------------------------------------------
(* The game.                                                               *)

(* A table waits in a betting state and in no other. *)
LEMMA RestOrWait ==
  /\ \A t : Rests(t) => ~t.waiting /\ t.state \notin BetStates /\ t.board = 0
                        /\ ~(t.pot # NoPot /\ t.betIndex \in Seated(t))
  /\ \A t, s : s \in BetStates /\ Waits(t, s) =>
                 t.waiting /\ t.state = s /\ t.inProgress /\ ~Rests(t)
<1>1. ASSUME NEW t, Rests(t)
      PROVE  ~t.waiting /\ t.state \notin BetStates /\ t.board = 0
             /\ ~(t.pot # NoPot /\ t.betIndex \in Seated(t))
  <2>1. t.state \in {"Init", "Start"} /\ t.seated \in Nat
    BY <1>1 DEF Rests, TableIn
  <2>2. t.betIndex \in Seated(t) => t.betIndex # -1
    BY <2>1 DEF Seated
  <2> QED
    BY <1>1, <2>1, <2>2 DEF Rests, BetStates
<1>2. ASSUME NEW t, NEW s \in BetStates, Waits(t, s)
      PROVE  t.waiting /\ t.state = s /\ t.inProgress /\ ~Rests(t)
  BY <1>2 DEF Waits, Rests, TableIn
<1> QED
  BY <1>1, <1>2

(* The player to act in t does act, as a says, and the table is u after.   *)
TurnTaken(t, u, s, act, a, c) ==
  /\ Waits(t, s) /\ Plays(c, s) /\ Heard(t, a, c) /\ CarriesOn(t, c)
  /\ act = "Raise" <=> a.card[t.betIndex] = "Raise"
  /\ act = "Other" => a = t
  /\ RoundsOn(c, u, s) \/ OpensNext(c, u, s) \/ EndsHand(c, u, s)

(* OnPlayerAction after any action of the player to act is such a turn.    *)
LEMMA TurnIsTaken ==
  ASSUME NEW s \in BetStates, NEW t, Waits(t, s), NEW act \in ActionType,
         NEW amount \in Chips, NEW rank \in [Seat -> Nat]
  PROVE  LET a == PlayerDoes(t, t.betIndex, act, amount)
         IN  \E c : TurnTaken(t, OnPlayerAction(a, rank), s, act, a, c)
<1> DEFINE a == PlayerDoes(t, t.betIndex, act, amount)
           i == t.betIndex
<1>1. t \in TableIn({s}) /\ i \in Seated(t) /\ t.card[i] # "Raise"
  BY DEF Waits, Active
<1>2. i \in Seat /\ t.betNum \in Chips
  BY <1>1, PotAssumption DEF Seated, Seat, TableIn
<1>3. ActsAlone(t, a)
  BY <1>2, ActionsAreAlone DEF PlayerDoes, ActionType
<1>4. act = "Raise" <=> a.card[i] = "Raise"
  <2>1. ASSUME NEW k, NEW n PROVE [Stake(t, i, n) EXCEPT !.card[i] = k].card[i] = k
    BY <1>1, <1>2 DEF TableIn, Stake
  <2>2. ASSUME NEW k PROVE [t EXCEPT !.card[i] = k].card[i] = k
    BY <1>1, <1>2 DEF TableIn
  <2> QED
    BY <1>1, <2>1, <2>2 DEF PlayerDoes, ActionType, Fold, Check, Call, Raise, AllIn
<1>5. act = "Other" => a = t
  BY DEF PlayerDoes
<1> HIDE DEF a
<1>6. PICK c : /\ Plays(c, s) /\ Heard(t, a, c) /\ CarriesOn(t, c)
               /\ OnPlayerAction(a, rank) = ContinueFrom(c, rank)
  BY <1>3, ActionIsHeard
<1>7. LET u == OnPlayerAction(a, rank)
      IN  RoundsOn(c, u, s) \/ OpensNext(c, u, s) \/ EndsHand(c, u, s)
  BY <1>6, HandGoesOn
<1> QED
  BY <1>4, <1>5, <1>6, <1>7 DEF TurnTaken, a

(* No chips get lost in a turn, but for what the division of a pot drops.  *)
LEMMA TurnSettles ==
  ASSUME NEW s \in BetStates, NEW t, NEW u, NEW act, NEW a, NEW c,
         TurnTaken(t, u, s, act, a, c), Staked(t)
  PROVE  Audit(t, u)
<1>1. Staked(c) /\ CarriesOn(t, c)
  BY DEF TurnTaken, CarriesOn
<1>2. Audit(c, u)
  BY <1>1 DEF TurnTaken, RoundsOn, OpensNext, EndsHand, Settles
<1>3. \/ u \in TableIn({s}) \/ u \in TableIn({NextRound(s)}) \/ u \in TableIn({"Init", "Start"})
  BY DEF TurnTaken, RoundsOn, OpensNext, EndsHand, Waits, Ended, Rests
<1>4. t \in TableIn({s})
  BY DEF TurnTaken, Waits
<1>5. Worth(t) \in Int /\ Worth(u) \in Int
  BY <1>3, <1>4, WorthType
<1> QED
  BY <1>1, <1>2, <1>5, CarriedOn

(* The table after a turn, between two steps again. *)
LEMMA TurnLeaves ==
  ASSUME NEW s \in BetStates, NEW t, NEW u, NEW act, NEW a, NEW c,
         TurnTaken(t, u, s, act, a, c)
  PROVE  \/ /\ RoundsOn(c, u, s) /\ Waits(u, s) /\ u.state = t.state
            /\ u.betIndex # t.betIndex
            /\ u.card = c.card /\ u.bet = c.bet /\ u.money = c.money
            /\ u.betNum = c.betNum /\ u.seated = c.seated
         \/ /\ OpensNext(c, u, s) /\ Waits(u, NextRound(s)) /\ u.state = NextRound(s)
            /\ NextRound(s) \in BetStates /\ u.state # t.state
         \/ EndsHand(c, u, s) /\ Rests(u) /\ ~u.waiting /\ ~u.inProgress /\ u.state = "Start"
<1>1. t.state = s
  BY RestOrWait DEF TurnTaken
<1>2. CASE RoundsOn(c, u, s)
  <2>1. c \in TableIn({s}) /\ c.betIndex = After(t, t.betIndex) /\ c.seated = t.seated
    BY DEF TurnTaken, Plays, Heard
  <2>2. t.betIndex \in Seated(c) /\ c.seated \in Nat \ {0} /\ t.betIndex \in Seated(t)
    BY <2>1 DEF TurnTaken, Waits, Active, Plays, Seated, TableIn
  <2>3. c.betIndex = After(c, t.betIndex)
    BY <2>1 DEF After
  <2>4. ~AtMostOne(Active(c))
    BY <1>2 DEF RoundsOn, RoundOver
  <2>5. NextToAct(c) # t.betIndex
    BY <2>2, <2>3, <2>4, NotAgain
  <2>6. u.betIndex = NextToAct(c) /\ u.card = c.card /\ u.bet = c.bet /\ u.betNum = c.betNum
        /\ u.seated = c.seated /\ u.money = c.money /\ u.state = c.state
    BY <1>2, <2>1 DEF RoundsOn, TableIn
  <2> QED
    BY <1>1, <1>2, <2>5, <2>6, RestOrWait DEF RoundsOn
<1>3. CASE OpensNext(c, u, s)
  <2>1. NextRound(s) \in BetStates /\ NextRound(s) # s
    BY <1>3 DEF OpensNext, NextRound, BetStates
  <2> QED
    BY <1>1, <1>3, <2>1, RestOrWait DEF OpensNext
<1>4. CASE EndsHand(c, u, s)
  BY <1>4, RestOrWait DEF EndsHand, Ended
<1> QED
  BY <1>2, <1>3, <1>4 DEF TurnTaken

(* A step of the game is one of these. *)
Resting == Rests(room) /\ Rests(room')
Starting == Rests(room) /\ Waits(room', "HandBet")
Ticking == /\ \E s \in BetStates : Waits(room, s) /\ Waits(room', s)
           /\ room' = [room EXCEPT !.timer = room'.timer]
           /\ acts' = acts
Turning == \E s \in BetStates, act \in ActionType : \E a, c :
             TurnTaken(room, room', s, act, a, c)

(* Who owes an answer after a turn keeps the round open. *)
LEMMA OwedStillOwe ==
  ASSUME NEW s \in BetStates, NEW act \in ActionType, NEW a, NEW c,
         TurnTaken(room, room', s, act, a, c), owed \subseteq Owing(room),
         owed' = OwedAfter(room.betIndex, act)
  PROVE  owed' \subseteq (IF room'.waiting THEN Owing(room') ELSE {})
<1> DEFINE i == room.betIndex
<1>1. CASE EndsHand(c, room', s)
  <2>1. ~room'.waiting
    BY <1>1, RestOrWait DEF EndsHand, Ended
  <2> QED
    BY <2>1 DEF OwedAfter
<1>2. CASE OpensNext(c, room', s)
  BY <1>2 DEF OpensNext, AllOwing, OwedAfter, Waits
<1>3. CASE RoundsOn(c, room', s)
  <2>1. /\ Waits(room', s) /\ room'.state = room.state /\ room'.waiting
        /\ room'.card = c.card /\ room'.bet = c.bet
        /\ room'.betNum = c.betNum /\ room'.seated = c.seated
    <3>1. c \in TableIn({s}) /\ room.state = s
      BY RestOrWait DEF TurnTaken, Plays
    <3> QED
      BY <1>3, <3>1, RestOrWait DEF RoundsOn, TableIn
  <2>2. c.seated = room.seated
    BY DEF TurnTaken, Heard
  <2>3. Active(room') = Active(c) /\ Seated(c) = Seated(room)
    BY <2>1, <2>2 DEF Active, Seated
  <2>4. SUFFICES ASSUME NEW p \in owed' PROVE p \in Owing(room')
    BY <2>1
  <2>5. p \in Active(c) /\ p \in Seated(room)
    BY <2>3 DEF OwedAfter, Active
  <2>6. c.card[p] = "Play" \/ c.bet[p] # c.betNum
    <3>1. CASE act = "Raise"
      <4>1. p # i
        BY <2>1, <3>1 DEF OwedAfter, ActionType
      <4>2. p \in Active(room)
        BY <2>5, <4>1 DEF TurnTaken, Heard
      <4> QED
        BY <3>1, <4>1, <4>2 DEF TurnTaken, Heard
    <3>2. CASE act = "Other"
      <4>1. p \in owed
        BY <2>1, <3>2 DEF OwedAfter
      <4>2. a = room /\ c.betNum = room.betNum /\ c.card = a.card /\ c.bet = a.bet
        BY <3>2 DEF TurnTaken, Heard
      <4> QED
        BY <4>1, <4>2 DEF Owing
    <3>3. CASE act \notin {"Raise", "Other"}
      <4>1. p \in owed /\ p # i
        BY <2>1, <3>3 DEF OwedAfter
      <4>2. c.betNum = room.betNum /\ c.card[p] = room.card[p] /\ c.bet[p] = room.bet[p]
        BY <2>5, <3>3, <4>1 DEF TurnTaken, Heard
      <4> QED
        BY <4>1, <4>2 DEF Owing
    <3> QED
      BY <3>1, <3>2, <3>3
  <2> QED
    BY <2>1, <2>3, <2>5, <2>6 DEF Owing
<1> QED
  BY <1>1, <1>2, <1>3 DEF TurnTaken

(* What the invariant says of the room, by whether a hand is on. *)
LEMMA InvCases ==
  ASSUME IInv
  PROVE  \/ /\ Rests(room) /\ owed = {} /\ ~InHand
            /\ Unstaked(room)
         \/ /\ \E s \in BetStates : Waits(room, s)
            /\ InHand /\ room.waiting /\ room.inProgress /\ active /\ ~sync
            /\ owed \subseteq Owing(room) /\ Staked(room)
<1>1. CASE Rests(room)
  BY <1>1, RestOrWait DEF IInv, Playable, InHand, InBalance
<1>2. CASE \E s \in BetStates : Waits(room, s)
  BY <1>2, RestOrWait DEF IInv, Playable, InHand, InBalance
<1> QED
  BY <1>1, <1>2 DEF IInv, Playable

(* A step that leaves the room alone leaves its account in order.          *)
LEMMA StaysAudited ==
  ASSUME IInv PROVE Audit(room, room)
<1>1. CASE Rests(room) /\ Unstaked(room)
  BY <1>1, IdleSettles DEF Rests
<1>2. ASSUME NEW s \in BetStates, Waits(room, s), Staked(room) PROVE Audit(room, room)
  BY <1>2, WaitingSettles DEF Waits, SameChips
<1> QED
  BY <1>1, <1>2, InvCases

(* The invariant under each handler, and the kind of its step.             *)
(* OnJoinRoomReq.                                                          *)
LEMMA JoinStep ==
  ASSUME IInv, Join
  PROVE  IInv' /\ Resting /\ Audit(room, room')
<1>1. Rests(room) /\ owed = {} /\ ~sync /\ Unstaked(room)
  BY InvCases DEF Join, IInv, Playable
<1>2. room.arrived < MaxPlayerNumber
  BY <1>1, PotAssumption DEF Join, Rests, TableIn
<1>3. Rests(room') /\ room'.inProgress = room.inProgress /\ Audit(room, room')
  BY <1>1, <1>2, JoinRests DEF Join
<1> QED
  BY <1>1, <1>3 DEF Audit, IInv, Playable, Join, counters, Resting

(* TakeOverGame.                                                           *)
LEMMA TakeOverStep ==
  ASSUME IInv, TakeOverGame
  PROVE  IInv' /\ Resting /\ Audit(room, room')
<1>1. Rests(room) /\ owed = {} /\ Unstaked(room)
  BY InvCases DEF TakeOverGame
<1>2. Rests(room') /\ room'.inProgress /\ Audit(room, room')
  BY <1>1, ProgressRests DEF TakeOverGame
<1> QED
  BY <1>1, <1>2 DEF Audit, IInv, Playable, TakeOverGame, counters, Resting

(* StartNewGame, when the last client answered.                            *)
LEMMA StartStep ==
  ASSUME IInv, StartNewGameOnSync
  PROVE  IInv' /\ (Resting \/ Starting) /\ Audit(room, room')
<1>1. Rests(room) /\ room.inProgress /\ active
  BY DEF IInv, Playable, StartNewGameOnSync
<1>2. PICK rank \in Rankings : room' = StartNewGame(room, rank)
  BY DEF StartNewGameOnSync
<1>3. rank \in [Seat -> Nat]
  BY HoldemGameAssumption
<1>4. /\ \/ Rests(room') /\ ~room'.inProgress
         \/ Waits(room', "HandBet") /\ AllOwing(room')
      /\ Audit(room, room')
  BY <1>1, <1>2, <1>3, InvCases, RestOrWait, StartNewGameStarts
<1>5. owed' \subseteq (IF room'.waiting THEN Owing(room') ELSE {})
  BY <1>4, RestOrWait DEF StartNewGameOnSync, AllOwing
<1>6. Rests(room') \/ \E s \in BetStates : Waits(room', s)
  BY <1>4 DEF BetStates
<1>7. /\ active' \in BOOLEAN /\ sync' = FALSE /\ alive' \in BOOLEAN /\ active'
      /\ hands' \in Nat /\ acts' \in Nat /\ raises' \in Nat
  BY <1>1 DEF IInv, Playable, StartNewGameOnSync
<1> QED
  BY <1>1, <1>4, <1>5, <1>6, <1>7 DEF Audit, IInv, Playable, Resting, Starting

(* OnPlayerActionReq, also when it kills the process.                      *)
LEMMA ActionStep ==
  ASSUME IInv, NEW act \in ActionType, NEW amount \in Chips,
         OnPlayerActionReq(act, amount)
  PROVE  IInv' /\ (Resting \/ Ticking \/ Turning) /\ Audit(room, room')
<1>1. CASE room.pot = NoPot
  <2>1. /\ alive' = FALSE /\ room' = room /\ owed' = owed /\ active' = active /\ sync' = sync
        /\ hands' = hands /\ acts' = acts /\ raises' = raises
    BY <1>1 DEF OnPlayerActionReq, counters
  <2>2. Resting /\ Audit(room, room')
    BY <1>1, <2>1, InvCases, StaysAudited DEF Waits, Resting
  <2> QED
    BY <2>1, <2>2 DEF Audit, IInv, Playable
<1>2. CASE room.pot # NoPot
  <2>1. room.betIndex \in Seated(room)
    BY DEF OnPlayerActionReq
  <2>2. ~Rests(room)
    BY <1>2, <2>1, RestOrWait
  <2>3. PICK s \in BetStates : Waits(room, s)
    BY <2>2, InvCases
  <2>4. active /\ ~sync /\ owed \subseteq Owing(room) /\ Staked(room)
    BY <2>2, InvCases
  <2>5. Quiet(room) = room
    BY <2>3, QuietWaits
  <2> DEFINE a == PlayerDoes(room, room.betIndex, act, amount)
  <2>6. PICK rank \in Rankings : room' = OnPlayerAction(a, rank)
    BY <1>2, <2>5 DEF OnPlayerActionReq
  <2>7. rank \in [Seat -> Nat]
    BY HoldemGameAssumption
  <2>8. PICK c : TurnTaken(room, room', s, act, a, c)
    BY <2>3, <2>6, <2>7, TurnIsTaken
  <2> HIDE DEF a
  <2>9. owed' = OwedAfter(room.betIndex, act)
    BY <1>2 DEF OnPlayerActionReq
  <2>10. owed' \subseteq (IF room'.waiting THEN Owing(room') ELSE {})
    BY <2>4, <2>8, <2>9, OwedStillOwe
  <2>11. Rests(room') \/ \E r \in BetStates : Waits(room', r)
    BY <2>8, TurnLeaves
  <2>12. /\ active' = active /\ sync' = sync /\ alive' = alive
         /\ hands' = hands /\ acts' = acts + 1 /\ raises' \in Nat
    BY <1>2 DEF OnPlayerActionReq, IInv, Playable
  <2>13. Turning /\ Audit(room, room')
    BY <2>4, <2>8, TurnSettles DEF Turning
  <2> QED
    BY <2>4, <2>10, <2>11, <2>12, <2>13 DEF Audit, IInv, Playable
<1> QED
  BY <1>1, <1>2

(* OnUpdate, with the timeout and the release of the room.                 *)
LEMMA UpdateStep ==
  ASSUME IInv, Update
  PROVE  IInv' /\ (Resting \/ Ticking \/ Turning) /\ Audit(room, room')
<1>1. PICK rank \in Rankings : room' = OnUpdate(room, TickLength, rank)
  BY DEF Update
<1>2. rank \in [Seat -> Nat] /\ TickLength \in Nat
  BY HoldemGameAssumption
<1>3. /\ sync' = sync /\ alive' = alive /\ hands' = hands /\ acts' = acts /\ raises' = raises
      /\ active' = ~(room'.state = "Start" /\ ~room'.inProgress) /\ active
  BY DEF Update, counters
<1>4. /\ alive' \in BOOLEAN /\ sync' \in BOOLEAN /\ active' \in BOOLEAN
      /\ hands' \in Nat /\ acts' \in Nat /\ raises' \in Nat
  BY <1>3 DEF IInv, Playable
<1>5. CASE Rests(room)
  <2>1. /\ Rests(room') /\ room'.state = room.state /\ room'.inProgress = room.inProgress
        /\ room'.betIndex = room.betIndex /\ Audit(room, room')
    BY <1>1, <1>5, InvCases, RestOrWait, RestingUpdate, QuietRests
  <2>2. owed' = {}
    BY <1>5, <2>1, InvCases, RestOrWait DEF Update
  <2>3. room'.inProgress => active'
    BY <1>3
  <2>4. sync' => room'.inProgress
    BY <1>3, <2>1 DEF IInv, Playable
  <2> QED
    BY <1>4, <1>5, <2>1, <2>2, <2>3, <2>4 DEF Audit, IInv, Playable, Resting
<1>6. CASE ~Rests(room)
  <2>1. PICK s \in BetStates : Waits(room, s)
    BY <1>6, InvCases
  <2>2. ~sync /\ owed \subseteq Owing(room) /\ room.state = s /\ Staked(room)
    BY <1>6, <2>1, InvCases, RestOrWait
  <2>3. CASE /\ Waits(room', s)
             /\ room' = [room EXCEPT !.timer = room'.timer]
             /\ SameChips(room, room')
    <3>1. /\ room'.betIndex = room.betIndex /\ room'.state = room.state
          /\ room'.card = room.card /\ room'.bet = room.bet
          /\ room'.betNum = room.betNum /\ room'.seated = room.seated
      BY <2>1, <2>3 DEF Waits, TableIn
    <3>2. owed' = owed /\ Owing(room') = Owing(room)
      BY <3>1 DEF Update, Owing, Active, Seated
    <3>3. room'.waiting /\ room'.state \in BetStates
      BY <2>3, RestOrWait
    <3>4. active'
      BY <1>3, <3>3 DEF BetStates
    <3>5. Ticking
      BY <1>3, <2>1, <2>3 DEF Ticking
    <3>6. Audit(room, room')
      BY <2>1, <2>2, <2>3, WaitingSettles DEF Waits
    <3> QED
      BY <1>3, <1>4, <2>2, <2>3, <3>2, <3>3, <3>4, <3>5, <3>6 DEF Audit, IInv, Playable
  <2>4. CASE room' = OnPlayerAction(Fold(room, room.betIndex), rank)
    <3> DEFINE a == PlayerDoes(room, room.betIndex, "Fold", 0)
    <3>1. a = Fold(room, room.betIndex)
      BY DEF PlayerDoes
    <3>2. "Fold" \in ActionType /\ 0 \in Chips
      BY ZeroIsChips DEF ActionType
    <3>3. PICK c : TurnTaken(room, room', s, "Fold", a, c)
      BY <1>2, <2>1, <2>4, <3>1, <3>2, TurnIsTaken
    <3> HIDE DEF a
    <3>4. room'.betIndex # room.betIndex \/ room'.state # room.state
      BY <2>2, <3>3, TurnLeaves DEF BetStates
    <3>5. owed' = OwedAfter(room.betIndex, "Fold")
      BY <3>4 DEF Update
    <3>6. owed' \subseteq (IF room'.waiting THEN Owing(room') ELSE {})
      BY <2>2, <3>2, <3>3, <3>5, OwedStillOwe
    <3>7. \/ \E r \in BetStates : Waits(room', r) /\ room'.state = r
          \/ Rests(room') /\ ~room'.inProgress
      BY <3>3, TurnLeaves, RestOrWait
    <3>8. room'.inProgress => active'
      BY <1>3, <3>7 DEF BetStates
    <3>9. Turning /\ Audit(room, room')
      BY <2>2, <3>2, <3>3, TurnSettles DEF Turning
    <3> QED
      BY <1>3, <1>4, <2>2, <3>6, <3>7, <3>8, <3>9 DEF Audit, IInv, Playable
  <2> QED
    BY <1>1, <1>2, <2>1, <2>3, <2>4, ClockTicks
<1> QED
  BY <1>5, <1>6

(* A room is created at rest.                                              *)
LEMMA InvInit == Init => IInv
<1> SUFFICES ASSUME Init PROVE IInv
  OBVIOUS
<1>1. Rests(room) /\ ~room.inProgress /\ InBalance(room)
  BY NewTableRests DEF Init
<1> QED
  BY <1>1 DEF Init, IInv, Playable

(* Every step keeps the invariant and is of one of the four kinds.         *)
LEMMA InvStep ==
  ASSUME IInv, [Next]_vars
  PROVE  IInv' /\ (Resting \/ Starting \/ Ticking \/ Turning) /\ Audit(room, room')
<1>1. CASE Join
  BY <1>1, JoinStep
<1>2. CASE TakeOverGame
  BY <1>2, TakeOverStep
<1>3. CASE StartNewGameOnSync
  BY <1>3, StartStep
<1>4. CASE PlayerAction
  <2>1. CASE \E act \in ActionType \ {"Raise"} : OnPlayerActionReq(act, 0)
    BY <2>1, ActionStep, ZeroIsChips
  <2>2. CASE \E amount \in RaiseAmounts : OnPlayerActionReq("Raise", amount)
    <3>1. "Raise" \in ActionType /\ RaiseAmounts \subseteq Chips
      BY HoldemGameAssumption DEF ActionType
    <3> QED
      BY <2>2, <3>1, ActionStep
  <2> QED
    BY <1>4, <2>1, <2>2 DEF PlayerAction
<1>5. CASE Update
  BY <1>5, UpdateStep
<1>6. CASE UNCHANGED vars
  <2>1. room' = room /\ owed' = owed /\ active' = active /\ sync' = sync /\ alive' = alive
        /\ hands' = hands /\ acts' = acts /\ raises' = raises
    BY <1>6 DEF vars
  <2>2. IInv' /\ Audit(room, room')
    BY <2>1, StaysAudited DEF IInv, Playable
  <2>3. CASE Rests(room)
    BY <2>1, <2>2, <2>3 DEF Resting
  <2>4. CASE ~Rests(room)
    <3>1. PICK s \in BetStates : Waits(room, s)
      BY <2>4, InvCases
    <3>2. room = [room EXCEPT !.timer = room.timer]
      BY <3>1 DEF Waits, TableIn
    <3> QED
      BY <2>1, <2>2, <3>1, <3>2 DEF Ticking
  <2> QED
    BY <2>3, <2>4
<1> QED
  BY <1>1, <1>2, <1>3, <1>4, <1>5, <1>6 DEF Next

(* The invariant holds in every state: a room is at rest, or a hand waits  *)
(* in it for one of two or more players who can act, and whoever has yet   *)
(* to answer keeps the betting round open.                                 *)
THEOREM Invariant == Spec => []IInv
<1>1. IInv /\ [Next]_vars => IInv'
  BY InvStep
<1> QED
  BY <1>1, InvInit, PTL DEF Spec
-----------------------------------------------------------------------------
(* What the invariant says.                                                *)

(* Every member of the room holds a value of its type between two handlers,*)
(* and the room never rests in a state that only a handler passes through. *)
THEOREM TypeCorrect == Spec => []TypeOK
<1>1. IInv => TypeOK
  <2> SUFFICES ASSUME IInv PROVE TypeOK
    OBVIOUS
  <2>1. room \in Table
    BY DEF IInv, Playable, Rests, Waits, Table, TableIn, BetStates
  <2>2. owed \subseteq Seat
    <3>1. Seated(room) \subseteq Seat
      BY <2>1, PotAssumption DEF Table, TableIn, Seated, Seat
    <3>2. owed \subseteq Seated(room)
      BY DEF IInv, Playable, Owing, Active
    <3> QED
      BY <3>1, <3>2
  <2> QED
    BY <2>1, <2>2 DEF IInv, Playable, TypeOK
<1> QED
  BY <1>1, Invariant, PTL

(* No hand ever stalls, however many players fold, go all in or time out.  *)
THEOREM HandsNeverStall == Spec => []NoStall
<1>1. IInv => NoStall
  BY InvCases, RestOrWait DEF NoStall, Waits
<1> QED
  BY <1>1, Invariant, PTL

(* A hand in play is under the module's control and has its pot.           *)
THEOREM HandsAreInCustody == Spec => []Custody
<1>1. IInv => Custody
  BY InvCases, RestOrWait DEF Custody, Waits, IInv, Playable
<1> QED
  BY <1>1, Invariant, PTL

(* Whatever the seats and stacks, a hand that is compared is compared on   *)
(* five common cards, and every announced hand has somebody to win it.     *)
THEOREM ShowdownsAreProper == Spec => []ShowdownOnFullBoard
<1>1. ASSUME IInv PROVE ProperResult(room)
  <2>1. CASE Rests(room)
    BY <2>1 DEF Rests
  <2>2. CASE \E s \in BetStates : Waits(room, s)
    BY <2>2 DEF Waits, ProperResult, NoResult
  <2> QED
    BY <1>1, <2>1, <2>2 DEF IInv, Playable
<1>2. IInv => ShowdownOnFullBoard
  BY <1>1 DEF ProperResult, ShowdownOnFullBoard
<1> QED
  BY <1>2, Invariant, PTL

-----------------------------------------------------------------------------
(* What a step may never do.                                               *)

(* In a step of the game nobody who is out of the betting comes back.      *)
THEOREM FoldsAndAllInsAreFinal == Spec => OutStaysOut
<1>1. ASSUME IInv, [Next]_vars, SameHand, NEW p \in Seated(room) \ Active(room)
      PROVE  room'.card[p] = room.card[p] /\ room'.money[p] = room.money[p]
  <2>1. ~Rests(room) /\ ~Rests(room')
    BY <1>1, RestOrWait DEF SameHand, InHand
  <2>2. CASE Ticking
    BY <2>2 DEF Ticking, Waits, TableIn
  <2>3. CASE Turning
    <3>0. PICK s \in BetStates, act \in ActionType :
            \E a, c : TurnTaken(room, room', s, act, a, c)
      BY <2>3 DEF Turning
    <3>1. PICK a, c : TurnTaken(room, room', s, act, a, c)
      BY <3>0
    <3>2. p \in Seated(room) \ {room.betIndex}
      BY <1>1, <3>1 DEF TurnTaken, Waits
    <3>3. /\ c.card[p] = room.card[p] /\ c.money[p] = room.money[p]
          /\ p \notin Active(c) /\ Seated(c) = Seated(room)
      BY <1>1, <3>1, <3>2 DEF TurnTaken, Heard, Seated
    <3> QED
      BY <2>1, <3>1, <3>2, <3>3, TurnLeaves DEF OpensNext, LeavesOut
  <2> QED
    BY <1>1, <2>1, <2>2, <2>3, InvStep DEF Resting, Starting
<1>2. IInv /\ [Next]_vars =>
        [SameHand => \A s \in Seated(room) \ Active(room) :
                       /\ room'.card[s] = room.card[s]
                       /\ room'.money[s] = room.money[s]]_vars
  BY <1>1
<1> QED
  BY <1>2, Invariant, PTL DEF Spec, OutStaysOut

(* What a step that ends a round finds: everybody else has matched the bet *)
(* and nobody else is still to be asked.                                   *)
LEMMA RoundEndsSettled ==
  ASSUME IInv, [Next]_vars, RoundEnds
  PROVE  /\ \A p \in Active(room) \ {Actor} :
              room.bet[p] = room.betNum /\ p \notin Owing(room)
         /\ InHand' \/ room.state = "RiverBet"
<1>1. ~Rests(room)
  BY RestOrWait DEF RoundEnds, InHand
<1>2. ~Ticking
  <2>1. SUFFICES ASSUME Ticking PROVE FALSE
    OBVIOUS
  <2>2. InHand' /\ room'.state = room.state
    BY <2>1, RestOrWait DEF Ticking, InHand
  <2> QED
    BY <2>2 DEF RoundEnds
<1>3a. PICK s \in BetStates, act \in ActionType :
        \E a, c : TurnTaken(room, room', s, act, a, c)
  BY <1>1, <1>2, InvStep DEF Resting, Starting, Turning
<1>3. PICK a, c : TurnTaken(room, room', s, act, a, c)
  BY <1>3a
<1>4. room.state = s
  BY <1>3, RestOrWait DEF TurnTaken
<1>5. \A p \in Active(room) \ {Actor} : p \in Active(c)
  BY <1>3 DEF TurnTaken, Heard, Actor, Active
<1>6. RoundOver(c) /\ ~AtMostOne(Active(c)) /\ (InHand' \/ s = "RiverBet")
  <2>1. CASE OpensNext(c, room', s)
    BY <1>3, <2>1, TurnLeaves, RestOrWait DEF OpensNext, InHand, EndsHand, RoundsOn
  <2>2. CASE RoundsOn(c, room', s)
    <3>1. InHand' /\ room'.state = room.state
      BY <1>4, <2>2, RestOrWait DEF RoundsOn, InHand
    <3> QED
      BY <3>1 DEF RoundEnds
  <2>3. CASE EndsHand(c, room', s)
    <3>1. ~InHand'
      BY <2>3, RestOrWait DEF EndsHand, Ended, InHand
    <3>2. ~AtMostOne(Active(c))
      BY <1>5, <3>1 DEF RoundEnds, AtMostOne
    <3> QED
      BY <2>3, <3>2 DEF EndsHand
  <2> QED
    BY <1>3, <2>1, <2>2, <2>3 DEF TurnTaken
<1>7. ASSUME NEW p \in Active(room) \ {Actor}
      PROVE  room.bet[p] = room.betNum /\ p \notin Owing(room)
  <2>1. c.bet[p] = c.betNum /\ c.card[p] # "Play"
    BY <1>5, <1>6, <1>7 DEF RoundOver
  <2>2. a.card[room.betIndex] # "Raise"
    BY <1>3, <1>7, <2>1 DEF TurnTaken, Heard, Actor
  <2>3. c.betNum = room.betNum /\ c.card[p] = room.card[p] /\ c.bet[p] = room.bet[p]
    BY <1>3, <1>7, <2>2 DEF TurnTaken, Heard, Actor, Active
  <2> QED
    BY <2>1, <2>3 DEF Owing
<1> QED
  BY <1>4, <1>6, <1>7

(* Nobody is passed over, and no street is played unasked.                 *)
THEOREM EverybodyIsAsked == Spec => RoundEndsAnswered
<1>1. ASSUME IInv, [Next]_vars, RoundEnds
      PROVE  owed \subseteq {Actor} /\ (InHand' \/ room.state = "RiverBet")
  <2>1. owed \subseteq Owing(room)
    BY <1>1, InvCases
  <2>2. Owing(room) \subseteq Active(room)
    BY DEF Owing
  <2> QED
    BY <1>1, <2>1, <2>2, RoundEndsSettled
<1>2. IInv /\ [Next]_vars =>
        [RoundEnds => owed \subseteq {Actor} /\ (InHand' \/ room.state = "RiverBet")]_vars
  BY <1>1
<1> QED
  BY <1>2, Invariant, PTL DEF Spec, RoundEndsAnswered

(* ... and everybody has put the same amount in.                           *)
THEOREM BetsAreMatched == Spec => RoundEndsEven
<1>1. IInv /\ [Next]_vars =>
        [RoundEnds => \A s \in Active(room) \ {Actor} : room.bet[s] = room.betNum]_vars
  BY RoundEndsSettled
<1> QED
  BY <1>1, Invariant, PTL DEF Spec, RoundEndsEven

(* The turn never stays with the player who acted.                         *)
THEOREM TurnsPass == Spec => TurnPasses
<1>1. ASSUME IInv, [Next]_vars, acts' = acts + 1, SameHand, room'.state = room.state
      PROVE  room'.betIndex # Actor
  <2>1. ~Rests(room) /\ ~Rests(room')
    BY <1>1, RestOrWait DEF SameHand, InHand
  <2>2. acts' # acts
    BY <1>1 DEF IInv, Playable
  <2>3. Turning
    BY <1>1, <2>1, <2>2, InvStep DEF Resting, Starting, Ticking
  <2> QED
    BY <1>1, <2>1, <2>3, TurnLeaves DEF Turning, Actor
<1>2. IInv /\ [Next]_vars =>
        [acts' = acts + 1 /\ SameHand /\ room'.state = room.state =>
           room'.betIndex # Actor]_vars
  BY <1>1
<1> QED
  BY <1>2, Invariant, PTL DEF Spec, TurnPasses
-----------------------------------------------------------------------------
(* Money.                                                                  *)

(* Only the player whose turn it is pays, and at the end of a hand nobody  *)
(* who folded is paid (PokerPlayer::Bet to Raise, CollectCalculatePlayers, *)
(* Pot::Dispatch).                                                         *)
THEOREM OthersKeepTheirMoney == Spec => NobodyElsesMoney
<1>1. ASSUME IInv, [Next]_vars, InHand, NEW p \in Seated(room) \ {Actor},
             room'.money[p] # room.money[p]
      PROVE  room'.result.sent /\ room.card[p] # "Fold"
  <2>1. ~Rests(room)
    BY <1>1, RestOrWait DEF InHand
  <2>2. CASE Ticking
    <3>1. room'.money = room.money
      BY <2>2 DEF Ticking, Waits, TableIn
    <3> QED
      BY <1>1, <3>1
  <2>3. CASE Turning
    <3>0. PICK s \in BetStates, act \in ActionType :
            \E a, c : TurnTaken(room, room', s, act, a, c)
      BY <2>3 DEF Turning
    <3>1. PICK a, c : TurnTaken(room, room', s, act, a, c)
      BY <3>0
    <3>2. /\ c.money[p] = room.money[p] /\ p \in Seat
          /\ p \notin Active(room) => c.card[p] = room.card[p]
      <4>1. Seated(room) \subseteq Seat
        BY <3>1, PotAssumption DEF TurnTaken, Waits, TableIn, Seated, Seat
      <4> QED
        BY <1>1, <3>1, <4>1 DEF TurnTaken, Heard, Actor
    <3>3. CASE RoundsOn(c, room', s)
      <4>1. room'.money = c.money
        BY <3>1, <3>3 DEF RoundsOn, TurnTaken, Plays, TableIn
      <4> QED
        BY <1>1, <3>2, <4>1
    <3>4. CASE PaysStayers(c, room')
      <4>1. room'.result.sent /\ p \in OnTable(c)
        BY <1>1, <3>2, <3>4 DEF PaysStayers
      <4>2. c.card[p] # "Fold"
        BY <4>1 DEF OnTable
      <4> QED
        BY <3>2, <4>1, <4>2 DEF Active
    <3> QED
      BY <3>1, <3>3, <3>4 DEF TurnTaken, OpensNext, EndsHand, Settles
  <2> QED
    BY <1>1, <2>1, <2>2, <2>3, InvStep DEF Resting, Starting
<1>2. IInv /\ [Next]_vars =>
        [InHand => \A s \in Seated(room) \ {Actor} :
                     room'.money[s] # room.money[s] =>
                       room'.result.sent /\ room.card[s] # "Fold"]_vars
  BY <1>1
<1> QED
  BY <1>2, Invariant, PTL DEF Spec, NobodyElsesMoney

(* The pot is the sum of the stakes at every table, also for seats that    *)
(* folded, also when a counter wrapped; without a pot there are no stakes. *)
THEOREM PotHoldsTheStakes == Spec => []PotIsSumOfStakes
<1>1. ASSUME IInv PROVE PotIsSumOfStakes
  <2>1. CASE Staked(room)
    BY <2>1 DEF Staked, PotIsSumOfStakes
  <2>2. CASE Unstaked(room)
    <3>1. MaxPlayerNumber \in Nat /\ \A s \in 0 .. MaxPlayerNumber - 1 : room.total[s] = 0
      BY <2>2, PotAssumption DEF Unstaked, Seat
    <3>2. SumOf(room.total) = 0 /\ 0 % ChipMod = 0
      BY <3>1, SumToZero, ZeroIsChips, WrapIsSame DEF SumOf
    <3> QED
      BY <2>2, <3>2 DEF Unstaked, PotIsSumOfStakes
  <2> QED
    BY <1>1, <2>1, <2>2, InvCases
<1>2. IInv => PotIsSumOfStakes
  BY <1>1
<1> QED
  BY <1>2, Invariant, PTL

(* No step makes or loses a chip but for the remainders of a division that *)
(* it announces: the stakes, the pot, the side pots and what is paid for   *)
(* them balance for any number of players, stacks and hands (Pot::Dispatch,*)
(* PokerPlayer::Bet to Raise, ResetForNewRound).                           *)
THEOREM NoChipIsLost == Spec => ChipsConserved
<1>1. ASSUME IInv, [Next]_vars
      PROVE  (Worth(room) - Worth(room')) % ChipMod \in 0 .. DroppedAtMost(room')
  BY <1>1, InvStep DEF Audit
<1>2. IInv /\ [Next]_vars =>
        [(Worth(room) - Worth(room')) % ChipMod \in 0 .. DroppedAtMost(room')]_vars
  BY <1>1
<1> QED
  BY <1>2, Invariant, PTL DEF Spec, ChipsConserved
-----------------------------------------------------------------------------
(* The refinement.                                                         *)

(* Every table, of any size, keeps the promises of HandFlow.               *)
THEOREM KeepsFlow == Spec => FlowSpec
<1> DEFINE round(t) == RoundNumber(t.state)
           turn(t) == IF t.waiting THEN t.betIndex ELSE -1
<1>1. \A t : Rests(t) => round(t) = 0 /\ turn(t) = -1 /\ t.board = 0
  BY RestOrWait DEF RoundNumber, BetStates
<1>2. \A t, s : s \in BetStates /\ Waits(t, s) =>
        /\ round(t) = RoundNumber(s) /\ turn(t) = t.betIndex /\ turn(t) \in Seat
        /\ t.board = CardsOut(s)
  <2> SUFFICES ASSUME NEW t, NEW s \in BetStates, Waits(t, s)
               PROVE  /\ round(t) = RoundNumber(s) /\ turn(t) = t.betIndex /\ turn(t) \in Seat
                      /\ t.board = CardsOut(s)
    OBVIOUS
  <2>1. t.waiting /\ t.state = s
    BY RestOrWait
  <2>2. t.betIndex \in Seat
    BY PotAssumption DEF Waits, TableIn, Active, Seated, Seat
  <2> QED
    BY <2>1, <2>2 DEF Waits
<1>3. \A s \in BetStates : RoundNumber(s) \in 1 .. 4 /\ CardsOut(s) = Flow!CardsIn(RoundNumber(s))
  BY DEF BetStates, RoundNumber, CardsOut, Flow!CardsIn
<1>4. Init => Flow!Init
  <2> SUFFICES ASSUME Init PROVE Flow!Init
    OBVIOUS
  <2>1. Rests(room)
    BY InvInit, NewTableRests DEF Init
  <2> QED
    BY <1>1, <2>1 DEF Flow!Init, Flow!NoTurn
<1>5. ASSUME IInv, [Next]_vars PROVE [Flow!Next]_Flow!vars
  <2> HIDE DEF round, turn
  <2>1. CASE Resting
    BY <1>1, <2>1 DEF Resting, Flow!vars, round, turn
  <2>2. CASE Starting
    BY <1>1, <1>2, <2>2 DEF Starting, Flow!Next, Flow!StartHand, Flow!CardsIn, CardsOut,
                            BetStates, RoundNumber, round, turn
  <2>3. CASE Ticking
    BY <2>3 DEF Ticking, Flow!vars, Waits, TableIn
  <2>4. CASE Turning
    <3>0. PICK s \in BetStates, act \in ActionType :
            \E a, c : TurnTaken(room, room', s, act, a, c)
      BY <2>4 DEF Turning
    <3>1. PICK a, c : TurnTaken(room, room', s, act, a, c)
      BY <3>0
    <3>2. Waits(room, s)
      BY <3>1 DEF TurnTaken
    <3>3. CASE Waits(room', s) /\ room'.betIndex # room.betIndex
      <4>1. Flow!PassTurn
        BY <1>2, <1>3, <3>2, <3>3 DEF Flow!PassTurn, round, turn
      <4> QED
        BY <4>1 DEF Flow!Next
    <3>4. CASE s # "RiverBet" /\ Waits(room', NextRound(s)) /\ NextRound(s) \in BetStates
      <4>1. RoundNumber(s) \in 1 .. 3 /\ RoundNumber(NextRound(s)) = RoundNumber(s) + 1
        BY <3>4 DEF RoundNumber, NextRound, BetStates
      <4>2. Flow!NextRound
        BY <1>2, <1>3, <3>2, <3>4, <4>1 DEF Flow!NextRound, round, turn
      <4> QED
        BY <4>2 DEF Flow!Next
    <3>5. CASE Rests(room')
      BY <1>1, <3>5 DEF Flow!Next, Flow!EndHand, Flow!NoTurn, round, turn
    <3> QED
      BY <3>1, <3>3, <3>4, <3>5, TurnLeaves DEF OpensNext
  <2> QED
    BY <1>5, <2>1, <2>2, <2>3, <2>4, InvStep
<1>6. IInv /\ [Next]_vars => [Flow!Next]_Flow!vars
  BY <1>5
<1> QED
  BY <1>4, <1>6, Invariant, PTL DEF Spec, FlowSpec, Flow!Spec
=============================================================================

---------------------------- MODULE LobbyProofs ----------------------------
(***************************************************************************)
(* Proofs about module Lobby, for all clients, accounts, table sizes and   *)
(* numbers of rooms.                                                       *)
(*                                                                         *)
(* First the control of a room: what each handler leaves alone of members, *)
(* barrier and game, and from it the custody of rooms (IInv) and the       *)
(* refinement of ReadyBarrier.  Then the places at the tables, which a     *)
(* seat for an observer does not change: from those nobody has two, nobody *)
(* is left standing and nobody is lost to the directory (PlacesInv).       *)
(***************************************************************************)
EXTENDS Lobby, TLAPS, SequenceTheorems, FiniteSetTheorems

RoomOK(t) == t \in RoomObject /\ t.turn \in {0} \cup DOMAIN t.seats

(* What a method of a room leaves alone, and what control it has over it.  *)
SameMembers(s, t) == s.present = t.present /\ s.list = t.list /\ s.max = t.max
SameBarrier(s, t) == s.sync = t.sync /\ s.answered = t.answered
SameGame(s, t) == s.inProgress = t.inProgress /\ s.playing = t.playing
Over(t) == ~t.inProgress /\ ~t.playing

(* The first n of a sequence and the rest of it. *)
LEMMA Split ==
  ASSUME NEW S, NEW s \in Seq(S), NEW n \in 0 .. Len(s)
  PROVE  SubSeq(s, 1, n) \in Seq(S) /\ SubSeq(s, n + 1, Len(s)) \in Seq(S)
  BY SubSeqProperties

(* Seats for the observers change nothing but seats, observers and map. *)
LEMMA ObserversSitDown ==
  ASSUME NEW t, RoomOK(t)
  PROVE  LET s == AddObserverPlayer(t)
         IN  /\ RoomOK(s) /\ SameMembers(s, t) /\ SameBarrier(s, t) /\ SameGame(s, t)
             /\ s.turn = t.turn /\ s.ready = t.ready
<1> DEFINE free == IF Len(t.seats) < t.max THEN t.max - Len(t.seats) ELSE 0
           n == Min2(free, Len(t.observers))
           new == SubSeq(t.observers, 1, n)
           newIds == {AccountOf[p] : p \in SeqRange(new)}
           map == [k \in Key |-> IF k \in newIds
                                   THEN CHOOSE p \in SeqRange(new) : AccountOf[p] = k
                                   ELSE t.map[k]]
           seats == t.seats \o new
           observers == SubSeq(t.observers, n + 1, Len(t.observers))
<1>1. /\ t.seats \in Seq(Client) /\ t.observers \in Seq(Client) /\ t.max \in Nat
      /\ t.map \in [Key -> Client \cup {NoPlayer}]
  BY DEF RoomOK, RoomObject
<1>2. n \in 0 .. Len(t.observers)
  BY <1>1 DEF Min2
<1>3. new \in Seq(Client) /\ observers \in Seq(Client)
  BY <1>1, <1>2, Split
<1>4. seats \in Seq(Client) /\ DOMAIN t.seats \subseteq DOMAIN seats
  BY <1>1, <1>3
<1>5. map \in [Key -> Client \cup {NoPlayer}]
  <2> SUFFICES ASSUME NEW k \in Key, k \in newIds
               PROVE  (CHOOSE p \in SeqRange(new) : AccountOf[p] = k) \in Client
    BY <1>1
  <2>1. \E p \in SeqRange(new) : AccountOf[p] = k
    OBVIOUS
  <2>2. SeqRange(new) \subseteq Client
    BY <1>3 DEF SeqRange
  <2> QED
    BY <2>1, <2>2
<1> HIDE DEF free, n, new, newIds, map, seats, observers
<1>6. AddObserverPlayer(t) = [t EXCEPT !.seats = seats, !.observers = observers, !.map = map]
  BY DEF AddObserverPlayer, free, n, new, newIds, map, seats, observers
<1> QED
  BY <1>1, <1>3, <1>4, <1>5, <1>6 DEF RoomOK, RoomObject, SameMembers, SameBarrier, SameGame

(* The end of a hand. *)
LEMMA CheckPlayerEnds ==
  ASSUME NEW t, RoomOK(t)
  PROVE  LET s == CheckPlayer(t)
         IN  RoomOK(s) /\ SameMembers(s, t) /\ SameBarrier(s, t) /\ Over(s) /\ s.turn = t.turn
<1> DEFINE o == AddObserverPlayer(t)
<1>1. /\ RoomOK(o) /\ SameMembers(o, t) /\ SameBarrier(o, t) /\ o.turn = t.turn
  BY ObserversSitDown
<1> HIDE DEF o
<1>2. CheckPlayer(t) = [o EXCEPT !.ready = @ \ SeqRange(o.seats),
                                 !.inProgress = FALSE, !.playing = FALSE]
  BY DEF CheckPlayer, o
<1> QED
  BY <1>1, <1>2 DEF RoomOK, RoomObject, SameMembers, SameBarrier, Over

(* Betting goes on, or the hand is over. *)
LEMMA BettingsKeep ==
  ASSUME NEW t, RoomOK(t), NEW s \in Bettings(t)
  PROVE  RoomOK(s) /\ SameMembers(s, t) /\ SameBarrier(s, t) /\ (SameGame(s, t) \/ Over(s))
<1> DEFINE turns == {[t EXCEPT !.turn = i] : i \in DOMAIN t.seats}
<1>1. \A u \in turns : RoomOK(u) /\ SameMembers(u, t) /\ SameBarrier(u, t) /\ SameGame(u, t)
  <2> SUFFICES ASSUME NEW i \in DOMAIN t.seats, NEW u, u = [t EXCEPT !.turn = i]
               PROVE  RoomOK(u) /\ SameMembers(u, t) /\ SameBarrier(u, t) /\ SameGame(u, t)
    OBVIOUS
  <2>1. i \in Nat
    BY DEF RoomOK, RoomObject
  <2> QED
    BY <2>1 DEF RoomOK, RoomObject, SameMembers, SameBarrier, SameGame
<1>2. CASE s \in turns
  BY <1>1, <1>2
<1>3. CASE \E u \in turns : s = CheckPlayer(u)
  BY <1>1, <1>3, CheckPlayerEnds DEF SameMembers, SameBarrier
<1> QED
  BY <1>2, <1>3 DEF Bettings

(* A hand begins, or there are too few for one. *)
LEMMA HandsBegin ==
  ASSUME NEW t, RoomOK(t), NEW s \in StartNewGame(t)
  PROVE  RoomOK(s) /\ SameMembers(s, t) /\ SameBarrier(s, t) /\ s.playing = s.inProgress
<1> DEFINE o == CheckPlayer(t)
           u == [o EXCEPT !.inProgress = TRUE, !.playing = TRUE]
<1>1. RoomOK(o) /\ SameMembers(o, t) /\ SameBarrier(o, t) /\ Over(o)
  BY CheckPlayerEnds
<1>2. RoomOK(u) /\ SameMembers(u, t) /\ SameBarrier(u, t) /\ u.playing /\ u.inProgress
  <2> HIDE DEF o
  <2> QED
    BY <1>1 DEF RoomOK, RoomObject, SameMembers, SameBarrier
<1>3. CASE s = o
  BY <1>1, <1>3 DEF Over, RoomOK, RoomObject
<1>4. CASE s \in Bettings(u)
  <2>1. /\ RoomOK(s) /\ SameMembers(s, u) /\ SameBarrier(s, u)
        /\ SameGame(s, u) \/ Over(s)
    BY <1>2, <1>4, BettingsKeep
  <2> HIDE DEF u
  <2> QED
    BY <1>2, <2>1 DEF SameMembers, SameBarrier, SameGame, Over, RoomOK, RoomObject
<1> QED
  BY <1>3, <1>4 DEF StartNewGame
-----------------------------------------------------------------------------
(* What may happen to a room, t before and u after.                        *)

Rests(t, u) == u.present = t.present /\ SameBarrier(u, t) /\ SameGame(u, t)
Enters(t, u) ==
  /\ ~t.inProgress /\ SameBarrier(u, t) /\ SameGame(u, t)
  /\ \E c \in Client : u.present = t.present \cup {c}
Gathers(t, u) ==
  /\ ~t.inProgress /\ u.inProgress /\ ~u.playing
  /\ u.sync /\ u.answered = {} /\ u.present = t.present
Hears(t, u) ==
  /\ t.sync /\ u.sync /\ SameGame(u, t) /\ u.present = t.present
  /\ \E c \in t.present : u.answered = t.answered \cup {c}
  /\ ~(u.present \subseteq u.answered)
Begins(t, u) ==
  /\ t.sync /\ ~u.sync /\ u.playing = u.inProgress /\ u.present = t.present
  /\ \E c \in t.present : t.present \subseteq t.answered \cup {c}
Finishes(t, u) == t.playing /\ Over(u) /\ SameBarrier(u, t) /\ u.present = t.present
Loses(t, u) ==
  /\ SameBarrier(u, t) /\ SameGame(u, t)
  /\ \E c \in t.present : u.present = t.present \ {c}

Steps(t, u) ==
  \/ Rests(t, u) \/ Enters(t, u) \/ Gathers(t, u) \/ Hears(t, u)
  \/ Begins(t, u) \/ Finishes(t, u) \/ Loses(t, u)

(* The rooms that were not created yet. *)
Unborn ==
  /\ \A r \in Number : r >= nextRoomId => room[r] = NewRoom(0)
  /\ \A r \in rooms : r < nextRoomId
  /\ \A k \in RoomId : active[k] < nextRoomId

IInv == TypeOK /\ Unborn /\ Custody

(* Where fewer rooms are created than RoomID has values, ids are numbers.  *)
LEMMA IdsAreNumbers ==
  ASSUME MaxRooms < RoomIdMod, NEW r \in Number
  PROVE  IdOf(r) = r /\ r \in RoomId
  BY LobbyAssumption DEF IdOf, Number, RoomId

(* A new room. *)
LEMMA NewRoomOK ==
  ASSUME NEW max \in Nat
  PROVE  RoomOK(NewRoom(max)) /\ Over(NewRoom(max)) /\ ~NewRoom(max).sync
         /\ NewRoom(max).present = {} /\ NewRoom(max).answered = {}
  BY DEF RoomOK, RoomObject, NewRoom, Over

(* Somebody comes into a room. *)
LEMMA PlayerAdded ==
  ASSUME NEW t, RoomOK(t), NEW c \in Client
  PROVE  LET u == AddPlayer(t, c)
         IN  /\ RoomOK(u) /\ SameBarrier(u, t) /\ SameGame(u, t)
             /\ u.present = t.present \/ u.present = t.present \cup {c}
<1>1. CASE t.map[c] # NoPlayer
  BY <1>1 DEF AddPlayer, SameBarrier, SameGame
<1>2. CASE t.map[c] = NoPlayer
  <2> DEFINE map == [t.map EXCEPT ![c] = c]
             observers == Append(t.observers, c)
             u == AddPlayer(t, c)
  <2>1. observers \in Seq(Client)
    BY DEF RoomOK, RoomObject
  <2>2. c \in Key
    BY DEF Key
  <2>3. map \in [Key -> Client \cup {NoPlayer}]
    BY <2>2 DEF RoomOK, RoomObject
  <2>4. u = [t EXCEPT !.map = map, !.list = @ \cup {c}, !.present = @ \cup {c},
                      !.observers = observers]
    BY <1>2 DEF AddPlayer, RoomOK, RoomObject
  <2> HIDE DEF map, observers, u
  <2>5. /\ u.present = t.present \cup {c} /\ SameBarrier(u, t) /\ SameGame(u, t)
        /\ u.turn = t.turn /\ u.seats = t.seats
    BY <2>4 DEF RoomOK, RoomObject, SameBarrier, SameGame
  <2>6. u \in RoomObject
    BY <2>1, <2>3, <2>4 DEF RoomOK, RoomObject
  <2> QED
    BY <2>5, <2>6 DEF u, RoomOK
<1> QED
  BY <1>1, <1>2

(* Somebody leaves. *)
LEMMA PlayerRemoved ==
  ASSUME NEW t, RoomOK(t), NEW c \in Client
  PROVE  LET u == RemovePlayer(t, c)
         IN  /\ RoomOK(u) /\ SameBarrier(u, t) /\ SameGame(u, t)
             /\ u.present = t.present \/ \E d \in t.present : u.present = t.present \ {d}
<1>1. CASE t.map[c] = NoPlayer
  BY <1>1 DEF RemovePlayer, SameBarrier, SameGame
<1>2. CASE t.map[c] # NoPlayer
  <2>2. c \in Key
    BY DEF Key
  <2>3. [t.map EXCEPT ![c] = NoPlayer] \in [Key -> Client \cup {NoPlayer}]
    BY <2>2 DEF RoomOK, RoomObject
  <2>4. RemovePlayer(t, c) = [t EXCEPT !.present = @ \ {t.map[c]},
                                       !.map = [t.map EXCEPT ![c] = NoPlayer],
                                       !.list = {p \in @ : AccountOf[p] # c}]
    BY <1>2 DEF RemovePlayer, RoomOK, RoomObject
  <2> DEFINE map == [t.map EXCEPT ![c] = NoPlayer]
             u == RemovePlayer(t, c)
  <2> HIDE DEF map, u
  <2>5. /\ u.present = t.present \ {t.map[c]} /\ SameBarrier(u, t) /\ SameGame(u, t)
        /\ u.turn = t.turn /\ u.seats = t.seats /\ u \in RoomObject
    BY <2>3, <2>4 DEF map, u, RoomOK, RoomObject, SameBarrier, SameGame
  <2>6. u.present = t.present \/ \E d \in t.present : u.present = t.present \ {d}
    BY <2>5
  <2> QED
    BY <2>5, <2>6 DEF u, RoomOK
<1> QED
  BY <1>1, <1>2

(* A client of a room answers. *)
LEMMA AnswerCounts ==
  ASSUME NEW t, RoomOK(t), NEW c \in Client, NEW shut \in BOOLEAN
  PROVE  LET u == [Answer(t, c) EXCEPT !.sync = shut]
         IN  /\ RoomOK(u) /\ SameMembers(u, t) /\ SameGame(u, t)
             /\ u.sync = shut /\ u.answered = t.answered \cup {c}
  BY DEF Answer, RoomOK, RoomObject, SameMembers, SameGame

(* The barrier of a room is armed. *)
LEMMA TakingOver ==
  ASSUME NEW t, RoomOK(t)
  PROVE  LET u == TakeOverGame(t)
         IN  /\ RoomOK(u) /\ SameMembers(u, t) /\ u.playing = t.playing
             /\ u.inProgress /\ u.sync /\ u.answered = {}
  BY DEF TakeOverGame, StartSynchronizer, RoomOK, RoomObject, SameMembers

(* The rooms are proper. *)
LEMMA RoomsAreOK ==
  ASSUME TypeOK, NEW r \in Number
  PROVE  RoomOK(room[r])
  BY DEF TypeOK, RoomOK

(* Every room steps by itself: what that means for types. *)
LEMMA RoomsTyped ==
  ASSUME NEW f, f = [r \in Number |-> f[r]], \A r \in Number : RoomOK(f[r])
  PROVE  f \in [Number -> RoomObject] /\ \A r \in Number : f[r].turn \in {0} \cup DOMAIN f[r].seats
  BY DEF RoomOK
-----------------------------------------------------------------------------
(* The last answers. *)
LEMMA ReadyStep ==
  ASSUME TypeOK, NEW c \in Client, ClientReady(c)
  PROVE  /\ TypeOK'
         /\ MaxRooms < RoomIdMod =>
              /\ \A r \in Number : Steps(room[r], room'[r])
              /\ \A r \in Number : room'[r] # room[r] => r \in rooms
              /\ \A r \in Number : room'[r].inProgress => room[r].inProgress \/ room[r].sync
              /\ crash' # "NoRoom" \/ crash = "NoRoom"
<1> DEFINE heard == {r \in Number : Listens(r, c)}
           last == {r \in heard : Opens(room[r], c)}
           started == {IdOf(r) : r \in last}
<1>1. UNCHANGED <<rooms, playerToRoom, nextRoomId, active, gone>> /\ crash = "no"
  BY DEF ClientReady, Sends
<1>2. heard \subseteq rooms /\ \A r \in heard : room[r].sync /\ c \in room[r].present
  BY DEF Listens
<1>3. rooms \subseteq Number
  BY DEF TypeOK
<1>4. CASE ~(started \subseteq rooms)
  <2>1. crash' = "NoRoom" /\ room' = room
    BY <1>4 DEF ClientReady
  <2>2. ~(MaxRooms < RoomIdMod)
    BY <1>2, <1>4, IdsAreNumbers
  <2> QED
    BY <1>1, <2>1, <2>2 DEF TypeOK
<1>5. CASE started \subseteq rooms
  <2>1. PICK hand : /\ \A r \in started : hand[r] \in StartNewGame(room[r])
                    /\ room' = [r \in Number |->
                         LET t == IF r \in started THEN hand[r] ELSE room[r]
                         IN  IF r \in heard
                               THEN [Answer(t, c) EXCEPT !.sync = r \notin last]
                               ELSE t]
                    /\ crash' = crash
    BY <1>5 DEF ClientReady
  <2> DEFINE Now(r) == IF r \in started THEN hand[r] ELSE room[r]
  <2>2. ASSUME NEW r \in Number
        PROVE  /\ RoomOK(Now(r)) /\ SameMembers(Now(r), room[r]) /\ SameBarrier(Now(r), room[r])
               /\ r \in started => Now(r).playing = Now(r).inProgress
               /\ r \notin started => Now(r) = room[r]
    <3>1. CASE r \in started
      BY <3>1, <2>1, RoomsAreOK, HandsBegin
    <3>2. CASE r \notin started
      BY <3>2, RoomsAreOK DEF SameMembers, SameBarrier
    <3> QED
      BY <3>1, <3>2
  <2>3. ASSUME NEW r \in Number
        PROVE  IF r \in heard
                 THEN /\ RoomOK(room'[r]) /\ SameMembers(room'[r], Now(r)) /\ SameGame(room'[r], Now(r))
                      /\ room'[r].sync = (r \notin last)
                      /\ room'[r].answered = Now(r).answered \cup {c}
                 ELSE room'[r] = Now(r)
    <3>1. room'[r] = IF r \in heard THEN [Answer(Now(r), c) EXCEPT !.sync = r \notin last] ELSE Now(r)
      BY <2>1
    <3>2. CASE r \in heard
      <4> DEFINE t == Now(r)
                 shut == (r \notin last)
      <4>1. RoomOK(t) /\ shut \in BOOLEAN
        BY <2>2
      <4>2. room'[r] = [Answer(t, c) EXCEPT !.sync = shut]
        BY <3>1, <3>2
      <4> HIDE DEF t, shut
      <4>3. /\ RoomOK(room'[r]) /\ SameMembers(room'[r], t) /\ SameGame(room'[r], t)
            /\ room'[r].sync = shut /\ room'[r].answered = t.answered \cup {c}
        BY <4>1, <4>2, AnswerCounts
      <4> QED
        BY <4>3, <3>2 DEF t, shut
    <3> QED
      BY <3>1, <3>2
  <2>4. \A r \in Number : RoomOK(room'[r])
    BY <2>2, <2>3
  <2>5. TypeOK'
    <3>1. room' = [r \in Number |-> room'[r]]
      BY <2>1
    <3>2. room' \in [Number -> RoomObject] /\ \A r \in Number : room'[r].turn \in {0} \cup DOMAIN room'[r].seats
      BY <3>1, <2>4, RoomsTyped
    <3> QED
      BY <3>2, <1>1, <2>1 DEF TypeOK
  <2>6. ASSUME MaxRooms < RoomIdMod
        PROVE  started = last
    BY <2>6, IdsAreNumbers
  <2>7. ASSUME NEW r \in Number, MaxRooms < RoomIdMod
        PROVE  /\ Steps(room[r], room'[r])
               /\ room'[r] # room[r] => r \in rooms
               /\ room'[r].inProgress => room[r].inProgress \/ room[r].sync
    <3> HIDE DEF Now, last, heard, started
    <3>1. CASE r \in last
      <4>1. r \in started /\ r \in heard /\ Opens(room[r], c)
        BY <3>1, <2>6, <2>7 DEF last
      <4>2. /\ room'[r].present = room[r].present /\ ~room'[r].sync
            /\ room'[r].playing = room'[r].inProgress
        BY <3>1, <4>1, <2>2, <2>3 DEF SameMembers, SameGame
      <4>3. room[r].sync /\ c \in room[r].present /\ r \in rooms
        BY <4>1, <1>2 DEF heard
      <4>4. room[r].present \subseteq room[r].answered \cup {c}
        BY <4>1, RoomsAreOK DEF Opens, AllAnswered, Answer, RoomOK, RoomObject
      <4> QED
        BY <4>2, <4>3, <4>4 DEF Steps, Begins
    <3>2. CASE r \in heard /\ r \notin last
      <4>1. r \notin started
        BY <3>2, <2>6, <2>7
      <4>2. /\ room'[r].present = room[r].present /\ room'[r].sync /\ SameGame(room'[r], room[r])
            /\ room'[r].answered = room[r].answered \cup {c}
        BY <3>2, <4>1, <2>2, <2>3 DEF SameMembers, SameGame
      <4>3. room[r].sync /\ c \in room[r].present /\ r \in rooms
        BY <3>2, <1>2 DEF heard
      <4>4. ~(room[r].present \subseteq room[r].answered \cup {c})
        <5>1. ~Opens(room[r], c)
          BY <3>2 DEF last
        <5> QED
          BY <5>1, RoomsAreOK DEF Opens, AllAnswered, Answer, RoomOK, RoomObject
      <4> QED
        BY <4>2, <4>3, <4>4 DEF Steps, Hears, SameGame
    <3>3. CASE r \notin heard
      <4>1. r \notin started
        BY <3>3, <2>6, <2>7 DEF last
      <4>2. room'[r] = room[r]
        BY <3>3, <4>1, <2>2, <2>3
      <4> QED
        BY <4>2 DEF Steps, Rests, SameBarrier, SameGame
    <3> QED
      BY <3>1, <3>2, <3>3
  <2> QED
    BY <1>1, <2>1, <2>5, <2>7
<1> QED
  BY <1>4, <1>5
-----------------------------------------------------------------------------
(* A step of one room. *)
LEMMA OneRoomSteps ==
  ASSUME TypeOK, NEW q \in Number, NEW u, RoomOK(u), room' = [room EXCEPT ![q] = u]
  PROVE  /\ room' \in [Number -> RoomObject]
         /\ \A r \in Number : room'[r].turn \in {0} \cup DOMAIN room'[r].seats
         /\ room'[q] = u /\ \A r \in Number \ {q} : room'[r] = room[r]
<1>1. room'[q] = u /\ \A r \in Number \ {q} : room'[r] = room[r]
  BY DEF TypeOK
<1>2. \A r \in Number : RoomOK(room'[r])
  BY <1>1, RoomsAreOK
<1>3. room' \in [Number -> RoomObject]
  BY <1>2 DEF RoomOK, TypeOK
<1>4. room' \in [Number -> RoomObject] /\ \A r \in Number : room'[r].turn \in {0} \cup DOMAIN room'[r].seats
  BY <1>2, <1>3 DEF RoomOK
<1> QED
  BY <1>1, <1>4

(* What a step is to show, where no room changes hands. *)
LEMMA CustodyStays ==
  ASSUME IInv, active' = active,
         \A r \in Number : Steps(room[r], room'[r]),
         \A r \in Number : room'[r].inProgress => room[r].inProgress
  PROVE  Custody'
<1>1. ASSUME NEW r \in Number
      PROVE  /\ room'[r].sync => room'[r].inProgress /\ ~room'[r].playing
             /\ room'[r].playing => room'[r].inProgress
  <2>1. /\ room[r].sync => room[r].inProgress /\ ~room[r].playing
        /\ room[r].playing => room[r].inProgress
    BY DEF IInv, Custody
  <2>2. Steps(room[r], room'[r])
    OBVIOUS
  <2> QED
    BY <2>1, <2>2 DEF Steps, Rests, Enters, Gathers, Hears, Begins, Finishes, Loses,
       SameBarrier, SameGame, Over
<1> QED
  BY <1>1 DEF IInv, Custody, Managed

(* A room that is left alone. *)
LEMMA StandingStill == \A t : Steps(t, t)
  BY DEF Steps, Rests, SameBarrier, SameGame

(* Somebody opens a room. *)
LEMMA CreateStep ==
  ASSUME TypeOK, NEW c \in Client, NEW max \in MaxPlayers, OnCreateRoomReq(c, max)
  PROVE  TypeOK' /\ (IInv => Unborn' /\ Custody' /\ \A r \in Number : Steps(room[r], room'[r]))
<1> DEFINE u == AddPlayer(NewRoom(max), c)
           n == nextRoomId
<1>1. /\ n \in Number /\ nextRoomId' = n + 1 /\ room' = [room EXCEPT ![n] = u]
      /\ rooms' = rooms \cup {n} /\ playerToRoom' = [playerToRoom EXCEPT ![c] = n]
      /\ UNCHANGED <<active, gone, crash>>
  BY DEF OnCreateRoomReq
<1>2. max \in Nat
  BY LobbyAssumption
<1>3. /\ RoomOK(NewRoom(max)) /\ Over(NewRoom(max)) /\ ~NewRoom(max).sync
      /\ NewRoom(max).present = {} /\ NewRoom(max).answered = {}
  BY <1>2, NewRoomOK
<1>4. /\ RoomOK(u) /\ SameBarrier(u, NewRoom(max)) /\ SameGame(u, NewRoom(max))
      /\ u.present = {} \/ u.present = {c}
  BY <1>3, PlayerAdded
<1> HIDE DEF u
<1>5. /\ room' \in [Number -> RoomObject]
      /\ \A r \in Number : room'[r].turn \in {0} \cup DOMAIN room'[r].seats
      /\ room'[n] = u /\ \A r \in Number \ {n} : room'[r] = room[r]
  BY <1>1, <1>4, OneRoomSteps
<1>6. MaxRooms \in Nat
  BY LobbyAssumption
<1>7. TypeOK'
  <2>1. nextRoomId' \in 1 .. MaxRooms + 1
    BY <1>1, <1>6 DEF Number
  <2>2. playerToRoom' \in [Client -> {NoRoom} \cup Number] /\ rooms' \subseteq Number
    BY <1>1 DEF TypeOK
  <2> QED
    BY <1>1, <1>5, <2>1, <2>2 DEF TypeOK
<1>8. ASSUME IInv
      PROVE  Unborn' /\ Custody' /\ \A r \in Number : Steps(room[r], room'[r])
  <2>1. room[n] = NewRoom(0)
    BY <1>1, <1>8 DEF IInv, Unborn, Number
  <2>2. Over(room[n]) /\ ~room[n].sync /\ room[n].present = {} /\ room[n].answered = {}
    BY <2>1, NewRoomOK
  <2>3. Over(u) /\ ~u.sync /\ u.answered = {}
    BY <1>3, <1>4 DEF Over, SameBarrier, SameGame
  <2>4. RoomOK(room[n])
    BY <1>1, RoomsAreOK
  <2>5. SameBarrier(u, room[n]) /\ SameGame(u, room[n])
    BY <1>4, <2>2, <2>3, <2>4 DEF Over, SameBarrier, SameGame, RoomOK, RoomObject
  <2>6. Steps(room[n], u)
    BY <1>4, <2>2, <2>5 DEF Steps, Rests, Enters, Over
  <2>7. \A r \in Number : Steps(room[r], room'[r])
    BY <1>5, <2>6, StandingStill
  <2>8. Custody'
    BY <1>1, <1>5, <1>8, <2>3, <2>7, CustodyStays DEF Over
  <2>9. Unborn'
    <3>1. n \in Nat /\ \A r \in Number : r \in Nat
      BY <1>1 DEF Number
    <3>2. rooms \subseteq Number /\ active \in [RoomId -> {NoRoom} \cup Number]
      BY DEF TypeOK
    <3>3. \A r \in Number : r >= n + 1 => room'[r] = NewRoom(0)
      BY <1>5, <1>8, <3>1 DEF IInv, Unborn
    <3>4. \A r \in rooms \cup {n} : r < n + 1
      BY <1>8, <3>1, <3>2 DEF IInv, Unborn
    <3>5. \A k \in RoomId : active[k] < n + 1
      BY <1>8, <3>1, <3>2 DEF IInv, Unborn, NoRoom
    <3> QED
      BY <1>1, <3>3, <3>4, <3>5 DEF Unborn
  <2> QED
    BY <2>7, <2>8, <2>9
<1> QED
  BY <1>7, <1>8

(* What a step shows that creates no room and changes those there are. *)
LEMMA UnbornStays ==
  ASSUME TypeOK, Unborn, nextRoomId' = nextRoomId, rooms' \subseteq rooms, active' = active,
         \A r \in Number : room'[r] # room[r] => r \in rooms \/ \E k \in RoomId : active[k] = r
  PROVE  Unborn'
<1>1. MaxRooms \in Nat
  BY LobbyAssumption
<1>2. \A r \in Number : r >= nextRoomId => room'[r] = NewRoom(0)
  <2> SUFFICES ASSUME NEW r \in Number, r >= nextRoomId, room'[r] # room[r] PROVE FALSE
    BY DEF Unborn
  <2>1. nextRoomId \in Nat /\ r \in Nat
    BY <1>1 DEF TypeOK, Number
  <2> QED
    BY <2>1 DEF Unborn
<1> QED
  BY <1>2 DEF Unborn

(* A step of one room that keeps the process and the module's rooms.       *)
LEMMA OneRoomKeeps ==
  ASSUME TypeOK, NEW q \in Number, NEW u, RoomOK(u), room' = [room EXCEPT ![q] = u],
         Steps(room[q], u), u.inProgress => room[q].inProgress,
         nextRoomId' = nextRoomId, rooms' \subseteq rooms, active' = active,
         q \in rooms \/ \E k \in RoomId : active[k] = q
  PROVE  IInv => Unborn' /\ Custody' /\ \A r \in Number : Steps(room[r], room'[r])
<1> SUFFICES ASSUME IInv
             PROVE  Unborn' /\ Custody' /\ \A r \in Number : Steps(room[r], room'[r])
  OBVIOUS
<1>1. room'[q] = u /\ \A r \in Number \ {q} : room'[r] = room[r]
  BY DEF TypeOK
<1>2. \A r \in Number : Steps(room[r], room'[r])
  BY <1>1, StandingStill
<1>3. \A r \in Number : room'[r].inProgress => room[r].inProgress
  BY <1>1
<1>4. Unborn
  BY DEF IInv
<1>5. \A r \in Number : room'[r] # room[r] => r \in rooms \/ \E k \in RoomId : active[k] = r
  BY <1>1
<1>6. Unborn'
  BY <1>4, <1>5, UnbornStays
<1>7. Custody'
  BY <1>2, <1>3, CustodyStays
<1> QED
  BY <1>2, <1>6, <1>7

(* Somebody joins a room. *)
LEMMA JoinStep ==
  ASSUME TypeOK, NEW c \in Client, NEW id \in RoomId, OnJoinRoomReq(c, id)
  PROVE  TypeOK' /\ (IInv => Unborn' /\ Custody' /\ \A r \in Number : Steps(room[r], room'[r]))
<1> DEFINE u == AddPlayer(room[id], c)
<1>1. /\ id \in rooms /\ ~room[id].inProgress /\ room' = [room EXCEPT ![id] = u]
      /\ playerToRoom' = [playerToRoom EXCEPT ![c] = id]
      /\ UNCHANGED <<rooms, nextRoomId, active, gone, crash>>
  BY DEF OnJoinRoomReq
<1>2. id \in Number /\ RoomOK(room[id])
  BY <1>1, RoomsAreOK DEF TypeOK
<1>3. /\ RoomOK(u) /\ SameBarrier(u, room[id]) /\ SameGame(u, room[id])
      /\ u.present = room[id].present \/ u.present = room[id].present \cup {c}
  BY <1>2, PlayerAdded
<1> HIDE DEF u
<1>4. Steps(room[id], u) /\ (u.inProgress => room[id].inProgress)
  BY <1>1, <1>3 DEF Steps, Rests, Enters, SameGame
<1>5. /\ room' \in [Number -> RoomObject]
      /\ \A r \in Number : room'[r].turn \in {0} \cup DOMAIN room'[r].seats
  BY <1>1, <1>2, <1>3, OneRoomSteps
<1>6. TypeOK'
  BY <1>1, <1>2, <1>5 DEF TypeOK
<1> QED
  BY <1>1, <1>2, <1>3, <1>4, <1>6, OneRoomKeeps

(* Somebody is ready or is not. *)
LEMMA ReadyReqStep ==
  ASSUME TypeOK, NEW c \in Client, NEW isReady \in BOOLEAN, OnReadyReq(c, isReady)
  PROVE  TypeOK' /\ (IInv => Unborn' /\ Custody' /\ \A r \in Number : Steps(room[r], room'[r]))
<1> DEFINE q == playerToRoom[c]
           ready == IF isReady THEN room[q].ready \cup {room[q].map[c]}
                               ELSE room[q].ready \ {room[q].map[c]}
           u == [room[q] EXCEPT !.ready = ready]
<1>1. /\ q \in rooms /\ room[q].map[c] # NoPlayer
      /\ UNCHANGED <<rooms, playerToRoom, nextRoomId, active, gone, crash>>
  BY DEF OnReadyReq
<1>2. q \in Number /\ RoomOK(room[q])
  BY <1>1, RoomsAreOK DEF TypeOK
<1>3. room' = [room EXCEPT ![q] = u]
  BY <1>2 DEF OnReadyReq, TypeOK, RoomObject
<1>4. ready \subseteq Client
  BY <1>1, <1>2 DEF RoomOK, RoomObject, Key
<1> HIDE DEF ready
<1>5. /\ RoomOK(u) /\ SameBarrier(u, room[q]) /\ SameGame(u, room[q]) /\ u.present = room[q].present
  BY <1>2, <1>4 DEF RoomOK, RoomObject, SameBarrier, SameGame
<1> HIDE DEF u, q
<1>6. Steps(room[q], u) /\ (u.inProgress => room[q].inProgress)
  BY <1>5 DEF Steps, Rests, SameGame
<1>7. /\ room' \in [Number -> RoomObject]
      /\ \A r \in Number : room'[r].turn \in {0} \cup DOMAIN room'[r].seats
  BY <1>2, <1>3, <1>5, OneRoomSteps
<1>8. TypeOK'
  BY <1>1, <1>7 DEF TypeOK
<1> QED
  BY <1>1, <1>2, <1>3, <1>5, <1>6, <1>8, OneRoomKeeps

(* A player acts. *)
LEMMA ActionStep ==
  ASSUME TypeOK, NEW c \in Client, NEW q \in Number, OnPlayerActionReq(c, q)
  PROVE  TypeOK' /\ (IInv => Unborn' /\ Custody' /\ \A r \in Number : Steps(room[r], room'[r]))
<1>1. /\ \E k \in RoomId : active[k] = q
      /\ UNCHANGED <<rooms, playerToRoom, nextRoomId, active, gone>> /\ crash = "no"
  BY DEF OnPlayerActionReq, Sends
<1>2. RoomOK(room[q])
  BY RoomsAreOK
<1>3. CASE room[q].playing
  <2>1. PICK u \in Bettings(room[q]) : room' = [room EXCEPT ![q] = u]
    BY <1>3 DEF OnPlayerActionReq
  <2>2. crash' = crash
    BY <1>3 DEF OnPlayerActionReq
  <2>3. /\ RoomOK(u) /\ SameMembers(u, room[q]) /\ SameBarrier(u, room[q])
        /\ SameGame(u, room[q]) \/ Over(u)
    BY <1>2, BettingsKeep
  <2>4. Steps(room[q], u)
    BY <1>3, <2>3 DEF Steps, Rests, Finishes, SameMembers
  <2>5. u.inProgress => room[q].inProgress
    BY <2>3 DEF SameGame, Over
  <2>6. /\ room' \in [Number -> RoomObject]
        /\ \A r \in Number : room'[r].turn \in {0} \cup DOMAIN room'[r].seats
    BY <2>1, <2>3, OneRoomSteps
  <2>7. TypeOK'
    BY <1>1, <2>2, <2>6 DEF TypeOK
  <2> QED
    BY <1>1, <2>1, <2>3, <2>4, <2>5, <2>7, OneRoomKeeps
<1>4. CASE ~room[q].playing
  <2>1. crash' = "NoPot" /\ room' = room
    BY <1>4 DEF OnPlayerActionReq
  <2>2. TypeOK'
    BY <1>1, <2>1 DEF TypeOK
  <2>3. \A r \in Number : Steps(room[r], room'[r])
    BY <2>1, StandingStill
  <2> QED
    BY <1>1, <2>1, <2>2, <2>3 DEF IInv, Unborn, Custody, Managed
<1> QED
  BY <1>3, <1>4

(* A client is gone. *)
LEMMA DisconnectStep ==
  ASSUME TypeOK, NEW c \in Client, OnPlayerDisconnected(c)
  PROVE  TypeOK' /\ (IInv => Unborn' /\ Custody' /\ \A r \in Number : Steps(room[r], room'[r]))
<1> DEFINE q == playerToRoom[c]
           u == RemovePlayer(room[q], c)
<1>1. gone' = gone \cup {c} /\ UNCHANGED <<nextRoomId, active, crash>>
  BY DEF OnPlayerDisconnected
<1>2. CASE q \notin rooms
  <2>1. UNCHANGED <<room, rooms, playerToRoom>>
    BY <1>2 DEF OnPlayerDisconnected
  <2>2. TypeOK'
    BY <1>1, <2>1 DEF TypeOK
  <2>3. \A r \in Number : Steps(room[r], room'[r])
    BY <2>1, StandingStill
  <2> QED
    BY <1>1, <2>1, <2>2, <2>3 DEF IInv, Unborn, Custody, Managed
<1>3. CASE q \in rooms
  <2>1. /\ room' = [room EXCEPT ![q] = u] /\ playerToRoom' = [playerToRoom EXCEPT ![c] = NoRoom]
        /\ rooms' \subseteq rooms
    BY <1>3 DEF OnPlayerDisconnected
  <2>2. q \in Number /\ RoomOK(room[q])
    BY <1>3, RoomsAreOK DEF TypeOK
  <2>3. /\ RoomOK(u) /\ SameBarrier(u, room[q]) /\ SameGame(u, room[q])
        /\ u.present = room[q].present \/ \E d \in room[q].present : u.present = room[q].present \ {d}
    BY <2>2, PlayerRemoved
  <2> HIDE DEF u, q
  <2>4. Steps(room[q], u) /\ (u.inProgress => room[q].inProgress)
    BY <2>3 DEF Steps, Rests, Loses, SameGame
  <2>5. /\ room' \in [Number -> RoomObject]
        /\ \A r \in Number : room'[r].turn \in {0} \cup DOMAIN room'[r].seats
    BY <2>1, <2>2, <2>3, OneRoomSteps
  <2>6. TypeOK'
    BY <1>1, <2>1, <2>5 DEF TypeOK
  <2> QED
    BY <1>1, <1>3, <2>1, <2>2, <2>3, <2>4, <2>6, OneRoomKeeps
<1> QED
  BY <1>2, <1>3

(* The rooms that the module holds after it took some over. *)
LEMMA HeldRooms ==
  ASSUME IInv, MaxRooms < RoomIdMod, NEW taken \in SUBSET ReadyRooms
  PROVE  \A k \in RoomId : TakenOver(taken)[k] = IF k \in taken THEN k ELSE active[k]
<1>1. \A r \in taken : r \in Number /\ IdOf(r) = r
  BY IdsAreNumbers DEF IInv, TypeOK, ReadyRooms
<1> SUFFICES ASSUME NEW k \in RoomId
             PROVE  TakenOver(taken)[k] = IF k \in taken THEN k ELSE active[k]
  OBVIOUS
<1>2. \A r \in taken : IdOf(r) = k <=> r = k
  BY <1>1
<1>3. CASE k \in taken
  <2>1. (CHOOSE r \in taken : IdOf(r) = k) = k
    BY <1>2, <1>3
  <2> QED
    BY <1>2, <1>3, <2>1 DEF TakenOver
<1>4. CASE k \notin taken
  BY <1>2, <1>4 DEF TakenOver
<1> QED
  BY <1>3, <1>4

(* The module's update. *)
LEMMA UpdateStep ==
  ASSUME TypeOK, OnUpdate
  PROVE  /\ TypeOK'
         /\ IInv /\ MaxRooms < RoomIdMod =>
              Unborn' /\ Custody' /\ \A r \in Number : Steps(room[r], room'[r])
<1>1. crash = "no" /\ UNCHANGED <<rooms, playerToRoom, nextRoomId, gone, crash>>
  BY DEF OnUpdate
<1>2. PICK taken \in SUBSET ReadyRooms :
        LET now == TakenOver(taken)
            managed == {now[k] : k \in RoomId} \ {NoRoom}
            At(r) == IF r \in taken THEN TakeOverGame(room[r]) ELSE room[r]
        IN  \E after \in [managed -> UNION {Driven(At(r)) : r \in managed}] :
              /\ \A r \in managed : after[r] \in Driven(At(r))
              /\ room' = [r \in Number |-> IF r \in managed THEN after[r] ELSE room[r]]
              /\ active' = [k \in RoomId |->
                    IF now[k] # NoRoom /\ Released(room'[now[k]]) THEN NoRoom ELSE now[k]]
  BY DEF OnUpdate
<1> DEFINE now == TakenOver(taken)
           managed == {now[k] : k \in RoomId} \ {NoRoom}
           At(r) == IF r \in taken THEN TakeOverGame(room[r]) ELSE room[r]
<1>3. PICK after : /\ \A r \in managed : after[r] \in Driven(At(r))
                   /\ room' = [r \in Number |-> IF r \in managed THEN after[r] ELSE room[r]]
                   /\ active' = [k \in RoomId |->
                         IF now[k] # NoRoom /\ Released(room'[now[k]]) THEN NoRoom ELSE now[k]]
  BY <1>2
<1>4. taken \subseteq Number
  BY DEF TypeOK, ReadyRooms
<1>5. \A k \in RoomId : now[k] \in {NoRoom} \cup Number
  <2> SUFFICES ASSUME NEW k \in RoomId PROVE now[k] \in {NoRoom} \cup Number
    OBVIOUS
  <2>1. CASE \E r \in taken : IdOf(r) = k
    <3>1. (CHOOSE r \in taken : IdOf(r) = k) \in taken
      BY <2>1
    <3> QED
      BY <2>1, <3>1, <1>4 DEF TakenOver
  <2>2. CASE ~\E r \in taken : IdOf(r) = k
    BY <2>2 DEF TakenOver, TypeOK
  <2> QED
    BY <2>1, <2>2
<1> HIDE DEF now, managed
<1>6. ASSUME NEW r \in Number
      PROVE  /\ RoomOK(At(r)) /\ SameMembers(At(r), room[r]) /\ At(r).playing = room[r].playing
             /\ r \in taken => At(r).inProgress /\ At(r).sync /\ At(r).answered = {}
             /\ r \notin taken => At(r) = room[r]
  <2>1. RoomOK(room[r])
    BY RoomsAreOK
  <2>2. CASE r \in taken
    BY <2>1, <2>2, TakingOver
  <2>3. CASE r \notin taken
    BY <2>1, <2>3 DEF SameMembers
  <2> QED
    BY <2>2, <2>3
<1> HIDE DEF At
<1>7. ASSUME NEW t, RoomOK(t), NEW u \in Driven(t)
      PROVE  /\ RoomOK(u) /\ SameMembers(u, t)
             /\ \/ u = t
                \/ t.playing /\ SameBarrier(u, t) /\ (SameGame(u, t) \/ Over(u))
  <2>1. CASE u = t
    BY <1>7, <2>1 DEF SameMembers
  <2>2. CASE t.playing /\ u \in Bettings(t)
    BY <1>7, <2>2, BettingsKeep
  <2> QED
    BY <2>1, <2>2 DEF Driven
<1>8. ASSUME NEW r \in Number
      PROVE  /\ RoomOK(room'[r])
             /\ r \in managed => room'[r] \in Driven(At(r))
             /\ r \notin managed => room'[r] = room[r]
  BY <1>3, <1>6, <1>7, RoomsAreOK
<1>9. TypeOK'
  <2>1. room' \in [Number -> RoomObject] /\ \A r \in Number : room'[r].turn \in {0} \cup DOMAIN room'[r].seats
    BY <1>3, <1>8 DEF RoomOK
  <2>2. active' \in [RoomId -> {NoRoom} \cup Number]
    BY <1>3, <1>5
  <2> QED
    BY <1>1, <2>1, <2>2 DEF TypeOK
<1>10. ASSUME IInv, MaxRooms < RoomIdMod
       PROVE  Unborn' /\ Custody' /\ \A r \in Number : Steps(room[r], room'[r])
  <2>1. \A k \in RoomId : now[k] = IF k \in taken THEN k ELSE active[k]
    BY <1>10, HeldRooms DEF now
  <2>2. \A r \in Number : IdOf(r) = r /\ r \in RoomId /\ r # NoRoom
    BY <1>10, IdsAreNumbers DEF Number, NoRoom
  <2>3. \A k \in RoomId : active[k] # NoRoom => active[k] = k
    BY <1>10, <2>2 DEF IInv, Custody, TypeOK
  <2>4. \A r \in Number : r \in managed <=> r \in taken \/ active[r] = r
    BY <2>1, <2>2, <2>3 DEF managed
  <2>5. \A r \in taken : r \in rooms /\ ~room[r].inProgress
    BY DEF ReadyRooms
  <2>6. \A r \in Number : /\ room[r].inProgress => active[r] = r
                          /\ room[r].sync => room[r].inProgress /\ ~room[r].playing
                          /\ room[r].playing => room[r].inProgress
    BY <1>10, <2>2 DEF IInv, Custody, Managed
  <2>7. ASSUME NEW r \in Number
        PROVE  /\ Steps(room[r], room'[r])
               /\ room'[r].inProgress => r \in managed
               /\ room'[r].sync => room'[r].inProgress /\ ~room'[r].playing
               /\ room'[r].playing => room'[r].inProgress
    <3>1. CASE r \in taken
      <4>1. ~room[r].inProgress /\ ~At(r).playing /\ r \in managed
        BY <3>1, <2>4, <2>5, <2>6, <1>6, RoomsAreOK DEF RoomOK, RoomObject
      <4>2. room'[r] = At(r)
        BY <4>1, <1>6, <1>7, <1>8
      <4> QED
        BY <3>1, <4>1, <4>2, <1>6 DEF Steps, Gathers, SameMembers
    <3>2. CASE r \notin taken /\ r \in managed
      <4>1. /\ room'[r].present = room[r].present
            /\ \/ room'[r] = room[r]
               \/ room[r].playing /\ SameBarrier(room'[r], room[r])
                    /\ (SameGame(room'[r], room[r]) \/ Over(room'[r]))
        BY <3>2, <1>6, <1>7, <1>8 DEF SameMembers
      <4>2. Steps(room[r], room'[r])
        BY <4>1, StandingStill DEF Steps, Rests, Finishes
      <4> QED
        BY <3>2, <4>1, <4>2, <2>6 DEF SameBarrier, SameGame, Over
    <3>3. CASE r \notin managed
      BY <3>3, <1>8, <2>4, <2>6, StandingStill
    <3> QED
      BY <3>1, <3>2, <3>3
  <2>8. \A k \in RoomId : active'[k] # NoRoom => active'[k] = now[k] /\ now[k] = k /\ k \in Number
    BY <1>3, <1>5, <2>1, <2>3
  <2>9. \A r \in Number : room'[r].inProgress => active'[r] = r
    <3> SUFFICES ASSUME NEW r \in Number, room'[r].inProgress PROVE active'[r] = r
      OBVIOUS
    <3>1. r \in managed /\ r \in RoomId /\ r # NoRoom
      BY <2>2, <2>7
    <3>2. now[r] = r
      BY <3>1, <2>1, <2>4
    <3>3. ~Released(room'[r])
      BY DEF Released
    <3> QED
      BY <1>3, <3>1, <3>2, <3>3
  <2>10. Custody'
    BY <2>2, <2>7, <2>8, <2>9 DEF Custody, Managed
  <2>11. Unborn'
    <3>1. Unborn /\ nextRoomId \in Nat /\ \A r \in Number : r \in Nat
      BY <1>10, LobbyAssumption DEF IInv, TypeOK, Number
    <3>2. \A r \in Number : r \in managed => r < nextRoomId
      BY <2>2, <2>4, <2>5, <3>1 DEF Unborn
    <3>3. \A r \in Number : r >= nextRoomId => room'[r] = NewRoom(0)
      BY <1>8, <3>1, <3>2 DEF Unborn
    <3>4. \A k \in RoomId : active'[k] < nextRoomId
      <4> SUFFICES ASSUME NEW k \in RoomId PROVE active'[k] < nextRoomId
        OBVIOUS
      <4>1. CASE active'[k] = NoRoom
        BY <4>1, <1>10 DEF IInv, TypeOK, NoRoom
      <4>2. CASE active'[k] # NoRoom
        BY <4>2, <2>8, <3>2 DEF managed
      <4> QED
        BY <4>1, <4>2
    <3> QED
      BY <1>1, <3>1, <3>3, <3>4 DEF Unborn
  <2> QED
    BY <2>7, <2>10, <2>11
<1> QED
  BY <1>9, <1>10
-----------------------------------------------------------------------------
(* In the beginning no room was created. *)
LEMMA InvInit == Init => IInv /\ crash # "NoRoom"
<1> SUFFICES ASSUME Init PROVE IInv /\ crash # "NoRoom"
  OBVIOUS
<1>1. MaxRooms \in Nat /\ \A r \in Number : r \in Nat
  BY LobbyAssumption DEF Number
<1>2. \A r \in Number : room[r] = NewRoom(0)
  BY DEF Init
<1>3. RoomOK(NewRoom(0)) /\ Over(NewRoom(0)) /\ ~NewRoom(0).sync
  BY NewRoomOK
<1>4. room \in [Number -> RoomObject] /\ \A r \in Number : room[r].turn \in {0} \cup DOMAIN room[r].seats
  BY <1>3 DEF Init, RoomOK
<1>5. TypeOK
  BY <1>1, <1>4 DEF Init, TypeOK
<1>6. Unborn
  BY <1>2 DEF Init, Unborn, NoRoom
<1>7. Custody
  BY <1>2, <1>3 DEF Init, Custody, Over
<1> QED
  BY <1>5, <1>6, <1>7 DEF Init, IInv

(* Every action, and what it shows. *)
LEMMA NextSteps ==
  ASSUME TypeOK, Next
  PROVE  /\ TypeOK'
         /\ IInv /\ MaxRooms < RoomIdMod =>
              /\ Unborn' /\ Custody' /\ \A r \in Number : Steps(room[r], room'[r])
              /\ crash # "NoRoom" => crash' # "NoRoom"
<1>1. CASE \E c \in Client : \E max \in MaxPlayers : OnCreateRoomReq(c, max)
  BY <1>1, CreateStep DEF OnCreateRoomReq
<1>2. CASE \E c \in Client : \E id \in RoomId : OnJoinRoomReq(c, id)
  BY <1>2, JoinStep DEF OnJoinRoomReq
<1>3. CASE \E c \in Client : \E isReady \in BOOLEAN : OnReadyReq(c, isReady)
  BY <1>3, ReadyReqStep DEF OnReadyReq
<1>4. CASE \E c \in Client : \E r \in Number : OnPlayerActionReq(c, r)
  <2> PICK c \in Client, r \in Number : OnPlayerActionReq(c, r)
    BY <1>4
  <2>1. crash' = crash \/ crash' = "NoPot"
    BY DEF OnPlayerActionReq
  <2> QED
    BY <2>1, ActionStep
<1>5. CASE \E c \in Client : OnPlayerDisconnected(c)
  BY <1>5, DisconnectStep DEF OnPlayerDisconnected
<1>6. CASE OnUpdate
  BY <1>6, UpdateStep DEF OnUpdate
<1>7. CASE \E c \in Client : ClientReady(c)
  <2> PICK c \in Client : ClientReady(c)
    BY <1>7
  <2>1. UNCHANGED <<rooms, nextRoomId, active>>
    BY DEF ClientReady
  <2>2. ASSUME IInv, MaxRooms < RoomIdMod
        PROVE  /\ Unborn' /\ Custody' /\ \A r \in Number : Steps(room[r], room'[r])
               /\ crash # "NoRoom" => crash' # "NoRoom"
    <3>1. /\ \A r \in Number : Steps(room[r], room'[r])
          /\ \A r \in Number : room'[r] # room[r] => r \in rooms
          /\ \A r \in Number : room'[r].inProgress => room[r].inProgress \/ room[r].sync
          /\ crash' # "NoRoom" \/ crash = "NoRoom"
      BY <2>2, ReadyStep
    <3>2. \A r \in Number : room'[r].inProgress => room[r].inProgress
      BY <2>2, <3>1 DEF IInv, Custody
    <3>3. Custody'
      BY <2>1, <2>2, <3>1, <3>2, CustodyStays
    <3>4. Unborn'
      BY <2>1, <2>2, <3>1, UnbornStays DEF IInv
    <3> QED
      BY <3>1, <3>3, <3>4
  <2> QED
    BY <2>2, ReadyStep
<1> QED
  BY <1>1, <1>2, <1>3, <1>4, <1>5, <1>6, <1>7 DEF Next

(* The types hold whatever the ids do. *)
LEMMA TypeNext == TypeOK /\ [Next]_vars => TypeOK'
<1>1. CASE Next
  BY <1>1, NextSteps
<1>2. CASE UNCHANGED vars
  BY <1>2 DEF vars, TypeOK
<1> QED
  BY <1>1, <1>2

(* The rest needs ids that are numbers. *)
LEMMA InvNext ==
  ASSUME MaxRooms < RoomIdMod
  PROVE  IInv /\ crash # "NoRoom" /\ [Next]_vars =>
           /\ IInv' /\ crash' # "NoRoom"
           /\ \A r \in Number : Steps(room[r], room'[r])
<1>1. CASE Next
  BY <1>1, NextSteps DEF IInv
<1>2. CASE UNCHANGED vars
  BY <1>2, StandingStill DEF vars, IInv, TypeOK, Unborn, Custody, Managed
<1> QED
  BY <1>1, <1>2

(* Rooms, directories and players keep their types, and a turn is that of  *)
(* a seat, also when RoomID overflows.                                     *)
THEOREM TypeCorrect == Spec => []TypeOK
<1>1. Init => TypeOK
  BY InvInit DEF IInv
<1> QED
  BY <1>1, TypeNext, PTL DEF Spec

(* The inductive invariant. *)
LEMMA Invariant ==
  ASSUME MaxRooms < RoomIdMod
  PROVE  Spec => [](IInv /\ crash # "NoRoom")
<1>1. IInv /\ crash # "NoRoom" /\ [Next]_vars => (IInv /\ crash # "NoRoom")'
  BY InvNext
<1> QED
  BY <1>1, InvInit, PTL DEF Spec

(* As long as RoomID does not overflow, a room in progress is under the    *)
(* module's control and its barrier is armed only before the hand, for any *)
(* number of rooms and clients (TexasHoldemModule.cpp:30-53, 85-90).       *)
THEOREM CustodyKept ==
  ASSUME MaxRooms < RoomIdMod
  PROVE  Spec => []Custody
<1>1. IInv => Custody
  BY DEF IInv
<1> QED
  BY <1>1, Invariant, PTL
-----------------------------------------------------------------------------
(* What a room shows of itself to ReadyBarrier. *)
StageOf(t) == CASE t.sync -> "Gathering" [] t.playing -> "Playing" [] OTHER -> "Open"
HeardIn(t) == IF t.sync THEN t.answered ELSE {}

(* A room's step is one of the barrier's, seen from outside. *)
LEMMA StepsSeen ==
  ASSUME NEW t, NEW u, RoomOK(t), RoomOK(u), Steps(t, u),
         t.sync => t.inProgress /\ ~t.playing, t.playing => t.inProgress,
         u.sync => u.inProgress /\ ~u.playing
  PROVE  \/ /\ StageOf(t) = "Open" /\ StageOf(u) = "Open"
            /\ \E c \in Client : u.present = t.present \cup {c}
            /\ HeardIn(u) = HeardIn(t)
         \/ /\ StageOf(t) = "Open" /\ StageOf(u) = "Gathering"
            /\ u.present = t.present /\ HeardIn(u) = {}
         \/ /\ StageOf(t) = "Gathering" /\ StageOf(u) = "Gathering"
            /\ u.present = t.present
            /\ \E c \in t.present : HeardIn(u) = HeardIn(t) \cup {c}
         \/ /\ StageOf(t) = "Gathering" /\ StageOf(u) \in {"Playing", "Open"}
            /\ \E c \in t.present : t.present \subseteq HeardIn(t) \cup {c}
            /\ u.present = t.present /\ HeardIn(u) = {}
         \/ /\ StageOf(t) = "Playing" /\ StageOf(u) = "Open"
            /\ u.present = t.present /\ HeardIn(u) = HeardIn(t)
         \/ /\ StageOf(u) = StageOf(t) /\ HeardIn(u) = HeardIn(t)
            /\ \E c \in t.present : u.present = t.present \ {c}
         \/ /\ StageOf(u) = StageOf(t) /\ HeardIn(u) = HeardIn(t)
            /\ u.present = t.present
<1>1. t.sync \in BOOLEAN /\ t.playing \in BOOLEAN /\ u.sync \in BOOLEAN /\ u.playing \in BOOLEAN
  BY DEF RoomOK, RoomObject
<1>2. ASSUME NEW v \in {t, u}
      PROVE  /\ v.sync => StageOf(v) = "Gathering" /\ HeardIn(v) = v.answered
             /\ ~v.sync /\ v.playing => StageOf(v) = "Playing"
             /\ ~v.sync /\ ~v.playing => StageOf(v) = "Open"
             /\ ~v.sync => HeardIn(v) = {}
  BY <1>1 DEF StageOf, HeardIn
<1>3. CASE Rests(t, u)
  BY <1>1, <1>2, <1>3 DEF Rests, SameBarrier, SameGame
<1>4. CASE Enters(t, u)
  BY <1>1, <1>2, <1>4 DEF Enters, SameBarrier, SameGame
<1>5. CASE Gathers(t, u)
  BY <1>1, <1>2, <1>5 DEF Gathers
<1>6. CASE Hears(t, u)
  BY <1>1, <1>2, <1>6 DEF Hears
<1>7. CASE Begins(t, u)
  BY <1>1, <1>2, <1>7 DEF Begins
<1>8. CASE Finishes(t, u)
  BY <1>1, <1>2, <1>8 DEF Finishes, SameBarrier, Over
<1>9. CASE Loses(t, u)
  BY <1>1, <1>2, <1>9 DEF Loses, SameBarrier, SameGame
<1> QED
  BY <1>3, <1>4, <1>5, <1>6, <1>7, <1>8, <1>9 DEF Steps

(* As long as RoomID does not overflow, the rooms of any number of clients *)
(* are ReadyBarrier: no hand begins without an answer, given since the     *)
(* takeover, from every client still in the room (Room.cpp:73-93).         *)
THEOREM KeepsBarrier ==
  ASSUME MaxRooms < RoomIdMod
  PROVE  Spec => BarrierSpec
<1> DEFINE stage == [r \in Number |-> CASE room[r].sync -> "Gathering"
                                         [] room[r].playing -> "Playing"
                                         [] OTHER -> "Open"]
           members == [r \in Number |-> room[r].present]
           heard == [r \in Number |-> IF room[r].sync THEN room[r].answered ELSE {}]
<1>1. Init => Barrier!Init
  <2> SUFFICES ASSUME Init PROVE Barrier!Init
    OBVIOUS
  <2>1. \A r \in Number : ~room[r].sync /\ ~room[r].playing /\ room[r].present = {}
    BY NewRoomOK DEF Init, Over
  <2> QED
    BY <2>1 DEF Barrier!Init
<1>2. IInv /\ crash # "NoRoom" /\ (IInv /\ crash # "NoRoom")' /\ [Next]_vars
        => [Barrier!Next]_<<stage, members, heard>>
  <2> SUFFICES ASSUME IInv, crash # "NoRoom", IInv', [Next]_vars
               PROVE  Barrier!Next
    OBVIOUS
  <2> SUFFICES ASSUME NEW r \in Number
               PROVE  \/ Barrier!Enter(r) \/ Barrier!Gather(r) \/ Barrier!Hear(r) \/ Barrier!Begin(r)
                      \/ Barrier!Finish(r) \/ Barrier!Leave(r) \/ Barrier!Rest(r)
    BY DEF Barrier!Next
  <2> DEFINE t == room[r]
             u == room'[r]
  <2>1. /\ stage[r] = StageOf(t) /\ stage'[r] = StageOf(u)
        /\ members[r] = t.present /\ members'[r] = u.present
        /\ heard[r] = HeardIn(t) /\ heard'[r] = HeardIn(u)
    BY DEF StageOf, HeardIn
  <2>2. RoomOK(t) /\ RoomOK(u)
    BY DEF IInv, TypeOK, RoomOK
  <2>3. Steps(t, u)
    BY InvNext
  <2>4. /\ t.sync => t.inProgress /\ ~t.playing
        /\ t.playing => t.inProgress
        /\ u.sync => u.inProgress /\ ~u.playing
    BY DEF IInv, Custody
  <2> HIDE DEF t, u
  <2> QED
    BY <2>1, <2>2, <2>3, <2>4, StepsSeen
    DEF Barrier!Enter, Barrier!Gather, Barrier!Hear, Barrier!Begin, Barrier!Finish,
        Barrier!Leave, Barrier!Rest
<1> QED
  BY <1>1, <1>2, Invariant, PTL DEF Spec, BarrierSpec, Barrier!Spec
-----------------------------------------------------------------------------
(* Places at the table.  Seats first, then observers: sitting down changes *)
(* who has a seat, and leaves the places as they are.                      *)

Places(t) == t.seats \o t.observers

(* No account id is a client id. *)
AccountsApart == \A c \in Client : AccountOf[c] \notin Client

(* No account id is the id of another client. *)
AccountsOwn == \A c, d \in Client : AccountOf[c] = d => c = d

(* All of the room's places have, or can have, a seat. *)
Roomy(t) == t.max = 0 \/ Len(Places(t)) <= t.max
PlayedBySeats(t) == t.playing => t.observers = <<>>

(* Nobody listed is ready. *)
Unready(t) == t.max # 0 => t.ready \cap t.list = {}

(* A change of the table, the members of the room being the same. *)
Reseats(t, u) ==
  /\ RoomOK(u) /\ SameMembers(u, t) /\ Places(u) = Places(t)
  /\ Len(u.seats) <= u.max
  /\ \A k \in Key : \/ u.map[k] = t.map[k]
                    \/ \E p \in SeqRange(Places(t)) : AccountOf[p] = k /\ u.map[k] = p
  /\ u.playing => u.inProgress
  /\ Roomy(t) /\ PlayedBySeats(t) => PlayedBySeats(u)
  /\ Roomy(t) /\ t.inProgress /\ ~u.inProgress => Unready(u)

(* What holds of a room that may be changed that way. *)
Seemly(t) ==
  /\ RoomOK(t) /\ Len(t.seats) <= t.max
  /\ t.playing => t.inProgress
  /\ t.list \subseteq SeqRange(Places(t))

(* Who has a place in two sequences, one after the other. *)
LEMMA RangeOfBoth ==
  ASSUME NEW S, NEW a \in Seq(S), NEW b \in Seq(S)
  PROVE  SeqRange(a \o b) = SeqRange(a) \cup SeqRange(b)
<1>1. Range(a \o b) = Range(a) \cup Range(b)
  BY RangeConcatenation
<1>2. \A f : SeqRange(f) = Range(f)
  BY DEF SeqRange, Range
<1> QED
  BY <1>1, <1>2

(* Who comes last in the second of two sequences comes last in both.       *)
LEMMA LastOfBoth ==
  ASSUME NEW S, NEW a \in Seq(S), NEW b \in Seq(S), NEW c \in S
  PROVE  a \o Append(b, c) = Append(a \o b, c)
  OBVIOUS

(* Some of the second sequence go to the end of the first. *)
LEMMA CutInTwo ==
  ASSUME NEW S, NEW a \in Seq(S), NEW b \in Seq(S), NEW n \in 0 .. Len(b)
  PROVE  /\ (a \o SubSeq(b, 1, n)) \o SubSeq(b, n + 1, Len(b)) = a \o b
         /\ Len(a \o SubSeq(b, 1, n)) = Len(a) + n
         /\ n = Len(b) => SubSeq(b, n + 1, Len(b)) = <<>>
         /\ SeqRange(SubSeq(b, 1, n)) \subseteq SeqRange(a \o b)
<1> DEFINE c == SubSeq(b, 1, n)
           d == SubSeq(b, n + 1, Len(b))
<1>1. /\ c \in Seq(S) /\ Len(c) = n /\ \A i \in 1 .. n : c[i] = b[i]
      /\ d \in Seq(S) /\ Len(d) = Len(b) - n
  BY SubSeqProperties
<1>2. c \o d = b
  <2>1. SubSeq(b, 1, n) \o SubSeq(b, n + 1, Len(b)) = SubSeq(b, 1, Len(b))
    <3>1. 1 \in 1 .. Len(b) + 1 /\ n \in 1 - 1 .. Len(b) /\ Len(b) \in n .. Len(b)
      OBVIOUS
    <3> QED
      BY <3>1, ConcatAdjacentSubSeq
  <2> QED
    BY <2>1, SubSeqFull
<1> HIDE DEF c, d
<1>3. (a \o c) \o d = a \o b
  <2>1. (a \o c) \o d = a \o (c \o d)
    BY <1>1
  <2> QED
    BY <1>2, <2>1
<1>4. Len(a \o c) = Len(a) + n
  BY <1>1, ConcatProperties
<1>5. n = Len(b) => d = <<>>
  BY <1>1, EmptySeq
<1>6. SeqRange(c) \subseteq SeqRange(a \o b)
  <2>1. SeqRange(c \o d) = SeqRange(c) \cup SeqRange(d)
    BY <1>1, RangeOfBoth
  <2>2. SeqRange(a \o b) = SeqRange(a) \cup SeqRange(b)
    BY RangeOfBoth
  <2> QED
    BY <1>2, <2>1, <2>2
<1> QED
  BY <1>3, <1>4, <1>5, <1>6 DEF c, d

(* As many observers sit down as there are seats for. *)
LEMMA SeatsForObservers ==
  ASSUME NEW max \in Nat, NEW seats \in 0 .. max, NEW observers \in Nat
  PROVE  LET n == Min2(IF seats < max THEN max - seats ELSE 0, observers)
         IN  /\ n \in 0 .. observers /\ seats + n <= max
             /\ seats + observers <= max => n = observers
  BY DEF Min2

(* They have places as before, and are found where they sit. *)
LEMMA SeatsAreTaken ==
  ASSUME NEW t, RoomOK(t), Len(t.seats) <= t.max
  PROVE  LET s == AddObserverPlayer(t)
         IN  /\ Places(s) = Places(t) /\ Len(s.seats) <= s.max
             /\ Roomy(t) /\ t.max # 0 => s.observers = <<>>
             /\ \A k \in Key : \/ s.map[k] = t.map[k]
                               \/ \E p \in SeqRange(Places(t)) : AccountOf[p] = k /\ s.map[k] = p
<1> DEFINE free == IF Len(t.seats) < t.max THEN t.max - Len(t.seats) ELSE 0
           n == Min2(free, Len(t.observers))
           new == SubSeq(t.observers, 1, n)
           newIds == {AccountOf[p] : p \in SeqRange(new)}
           map == [k \in Key |-> IF k \in newIds
                                   THEN CHOOSE p \in SeqRange(new) : AccountOf[p] = k
                                   ELSE t.map[k]]
           seats == t.seats \o new
           observers == SubSeq(t.observers, n + 1, Len(t.observers))
<1>1. /\ t.seats \in Seq(Client) /\ t.observers \in Seq(Client) /\ t.max \in Nat
      /\ Len(t.seats) \in Nat /\ Len(t.observers) \in Nat
  BY DEF RoomOK, RoomObject
<1>2. /\ n \in 0 .. Len(t.observers)
      /\ Len(t.seats) + n <= t.max
      /\ Len(t.seats) + Len(t.observers) <= t.max => n = Len(t.observers)
  <2>1. Len(t.seats) \in 0 .. t.max
    BY <1>1
  <2> QED
    BY ONLY <1>1, <2>1, SeatsForObservers
<1> HIDE DEF free, n
<1>3. /\ seats \o observers = Places(t) /\ Len(seats) = Len(t.seats) + n
      /\ n = Len(t.observers) => observers = <<>>
      /\ SeqRange(new) \subseteq SeqRange(Places(t))
  <2>1. n \in 0 .. Len(t.observers)
    BY <1>2
  <2> QED
    BY <1>1, <2>1, CutInTwo DEF Places
<1>4. Len(Places(t)) = Len(t.seats) + Len(t.observers)
  BY <1>1, ConcatProperties DEF Places
<1>5. \A k \in Key : \/ map[k] = t.map[k]
                     \/ \E p \in SeqRange(Places(t)) : AccountOf[p] = k /\ map[k] = p
  <2> SUFFICES ASSUME NEW k \in Key, k \in newIds
               PROVE  \E p \in SeqRange(Places(t)) : AccountOf[p] = k /\ map[k] = p
    OBVIOUS
  <2>1. \E p \in SeqRange(new) : AccountOf[p] = k
    OBVIOUS
  <2> QED
    BY <2>1, <1>3
<1> HIDE DEF new, newIds, map, seats, observers
<1>6. AddObserverPlayer(t) = [t EXCEPT !.seats = seats, !.observers = observers, !.map = map]
  BY DEF AddObserverPlayer, free, n, new, newIds, map, seats, observers
<1> DEFINE s == AddObserverPlayer(t)
<1>7. s.seats = seats /\ s.observers = observers /\ s.map = map /\ s.max = t.max
  BY <1>6 DEF RoomOK, RoomObject
<1> HIDE DEF s
<1>8. Places(s) = Places(t)
  BY <1>3, <1>7 DEF Places
<1>9. Roomy(t) /\ t.max # 0 => s.observers = <<>>
  BY <1>2, <1>3, <1>4, <1>7 DEF Roomy
<1> QED
  BY <1>2, <1>3, <1>5, <1>7, <1>8, <1>9 DEF s

(* Who is listed has a place, and so a seat where nobody has to wait. *)
LEMMA HandEndsSeemly ==
  ASSUME NEW t, Seemly(t)
  PROVE  LET s == CheckPlayer(t)
         IN  /\ Reseats(t, s) /\ Over(s)
             /\ Roomy(t) /\ t.max # 0 => s.observers = <<>>
             /\ Roomy(t) => Unready(s)
<1> DEFINE o == AddObserverPlayer(t)
           s == CheckPlayer(t)
<1>1. /\ RoomOK(o) /\ SameMembers(o, t)
      /\ Places(o) = Places(t) /\ Len(o.seats) <= o.max
      /\ Roomy(t) /\ t.max # 0 => o.observers = <<>>
      /\ \A k \in Key : \/ o.map[k] = t.map[k]
                        \/ \E p \in SeqRange(Places(t)) : AccountOf[p] = k /\ o.map[k] = p
  BY ObserversSitDown, SeatsAreTaken DEF Seemly
<1> HIDE DEF o
<1>2. s = [o EXCEPT !.ready = @ \ SeqRange(o.seats), !.inProgress = FALSE, !.playing = FALSE]
  BY DEF CheckPlayer, o
<1>3. /\ s.ready = o.ready \ SeqRange(o.seats) /\ s.seats = o.seats /\ s.observers = o.observers
      /\ s.map = o.map
  BY <1>1, <1>2 DEF RoomOK, RoomObject
<1>4. RoomOK(s) /\ SameMembers(s, t) /\ Over(s)
  BY CheckPlayerEnds DEF Seemly
<1> HIDE DEF s
<1>5. Places(s) = Places(t) /\ Len(s.seats) <= s.max
  BY <1>1, <1>3, <1>4 DEF Places, SameMembers
<1>6. ASSUME Roomy(t) PROVE Unready(s)
  <2> SUFFICES ASSUME s.max # 0 PROVE s.ready \cap s.list = {}
    BY DEF Unready
  <2>1. o.observers = <<>>
    BY <1>1, <1>4, <1>6 DEF SameMembers
  <2>2. Places(o) = o.seats
    <3>1. o.seats \in Seq(Client)
      BY <1>1 DEF RoomOK, RoomObject
    <3> QED
      BY <2>1, <3>1, ConcatEmptySeq DEF Places
  <2>3. s.list \subseteq SeqRange(o.seats)
    BY <1>1, <1>4, <2>2 DEF Seemly, SameMembers
  <2> QED
    BY <1>3, <2>3
<1>7. Reseats(t, s)
  BY <1>1, <1>3, <1>4, <1>5, <1>6 DEF Reseats, Over, PlayedBySeats
<1> QED
  BY <1>1, <1>3, <1>4, <1>6, <1>7 DEF s

(* One change of the table after another, the control changed between. *)
LEMMA Twice ==
  ASSUME NEW t, NEW u, NEW v, NEW s, Reseats(t, u), Reseats(v, s),
         SameMembers(v, u), v.map = u.map, v.seats = u.seats, v.observers = u.observers,
         t.inProgress /\ ~s.inProgress => v.inProgress,
         Roomy(t) /\ PlayedBySeats(t) => PlayedBySeats(v)
  PROVE  Reseats(t, s)
<1>1. Places(v) = Places(t) /\ Places(s) = Places(t)
  BY DEF Reseats, Places
<1>2. SameMembers(s, t) /\ (Roomy(v) <=> Roomy(t))
  BY <1>1 DEF Reseats, SameMembers, Roomy
<1>3. ASSUME NEW k \in Key
      PROVE  \/ s.map[k] = t.map[k]
             \/ \E p \in SeqRange(Places(t)) : AccountOf[p] = k /\ s.map[k] = p
  BY <1>1 DEF Reseats
<1>4. /\ Roomy(t) /\ PlayedBySeats(t) => PlayedBySeats(s)
      /\ Roomy(t) /\ t.inProgress /\ ~s.inProgress => Unready(s)
  BY <1>2 DEF Reseats
<1> QED
  BY <1>1, <1>2, <1>3, <1>4 DEF Reseats

(* Nothing changes. *)
LEMMA SitsStill == \A t : Seemly(t) => Reseats(t, t)
  BY DEF Seemly, Reseats, SameMembers

(* What is read of a table stays, whatever else of the room changes. *)
LEMMA SameTable ==
  ASSUME NEW t, Seemly(t), NEW u, RoomOK(u), SameMembers(u, t),
         u.map = t.map, u.seats = t.seats, u.observers = t.observers,
         u.playing => u.inProgress
  PROVE  Seemly(u) /\ Places(u) = Places(t) /\ (Roomy(u) <=> Roomy(t))
  BY DEF Seemly, SameMembers, Places, Roomy

(* Betting goes on, or the hand is over. *)
LEMMA BettingsSeemly ==
  ASSUME NEW t, Seemly(t), NEW s \in Bettings(t)
  PROVE  Reseats(t, s)
<1> DEFINE turns == {[t EXCEPT !.turn = i] : i \in DOMAIN t.seats}
<1>1. ASSUME NEW u \in turns
      PROVE  /\ RoomOK(u) /\ SameMembers(u, t) /\ u.map = t.map /\ u.seats = t.seats
             /\ u.observers = t.observers /\ SameGame(u, t)
  <2> PICK i \in DOMAIN t.seats : u = [t EXCEPT !.turn = i]
    OBVIOUS
  <2>1. i \in Nat
    BY DEF Seemly, RoomOK, RoomObject
  <2> QED
    BY <2>1 DEF Seemly, RoomOK, RoomObject, SameMembers, SameGame
<1> HIDE DEF turns
<1>2. ASSUME NEW u \in turns
      PROVE  Seemly(u) /\ (PlayedBySeats(t) => PlayedBySeats(u))
  <2>1. u.playing => u.inProgress
    BY <1>1 DEF Seemly, SameGame
  <2> QED
    BY <1>1, <2>1, SameTable DEF SameGame, PlayedBySeats
<1>3. CASE s \in turns
  BY <1>1, <1>2, <1>3, SitsStill, Twice DEF SameGame
<1>4. CASE \E u \in turns : s = CheckPlayer(u)
  <2> PICK u \in turns : s = CheckPlayer(u)
    BY <1>4
  <2>1. Reseats(u, s)
    BY <1>2, HandEndsSeemly
  <2>2. Reseats(t, t)
    BY SitsStill
  <2> QED
    BY <1>1, <1>2, <2>1, <2>2, Twice DEF SameGame
<1> QED
  BY <1>3, <1>4 DEF Bettings, turns

(* A hand is played by seats: who has a place has one of them. *)
LEMMA HandsSeemly ==
  ASSUME NEW t, Seemly(t), NEW s \in StartNewGame(t)
  PROVE  Reseats(t, s)
<1> DEFINE o == CheckPlayer(t)
           u == [o EXCEPT !.inProgress = TRUE, !.playing = TRUE]
<1>1. Reseats(t, o) /\ Over(o) /\ (Roomy(t) /\ t.max # 0 => o.observers = <<>>)
  BY HandEndsSeemly
<1>2. CASE s = o
  BY <1>1, <1>2
<1>3. CASE s \in Bettings(u) /\ Len(o.seats) >= 2
  <2>1. /\ RoomOK(u) /\ SameMembers(u, o) /\ u.map = o.map /\ u.seats = o.seats
        /\ u.observers = o.observers /\ u.inProgress
    <3>1. RoomOK(o)
      BY <1>1 DEF Reseats
    <3> HIDE DEF o
    <3> QED
      BY <3>1 DEF RoomOK, RoomObject, SameMembers
  <2>2. t.max # 0
    <3>1. Len(o.seats) <= t.max
      BY <1>1 DEF Reseats, SameMembers
    <3> QED
      BY <1>3, <3>1
  <2> HIDE DEF u, o
  <2>3. Seemly(u)
    BY <1>1, <2>1 DEF Reseats, Seemly, SameMembers, Places
  <2>4. Reseats(u, s)
    BY <1>3, <2>3, BettingsSeemly
  <2>5. Roomy(t) => PlayedBySeats(u)
    BY <1>1, <2>1, <2>2 DEF PlayedBySeats
  <2> QED
    BY <1>1, <2>1, <2>4, <2>5, Twice
<1> QED
  BY <1>2, <1>3 DEF StartNewGame
-----------------------------------------------------------------------------
(* Who has a place in a room, who is listed there, and who finds himself   *)
(* there by his id.  Some of them, g, may be gone.                         *)

(* No more are let in than can have a seat, as long as nobody is taken off *)
(* the list who keeps his place.                                           *)
Fits(t) ==
  /\ Len(Places(t)) = Cardinality(t.list)
  /\ Roomy(t) /\ PlayedBySeats(t)

(* Who is found by his id is himself and, unless he is gone, a member. *)
Found(t, g) ==
  \A c \in Client : t.map[c] # NoPlayer =>
    /\ t.map[c] = c /\ c \in SeqRange(Places(t))
    /\ c \in g \/ (c \in t.present /\ c \in t.list)

OnePlace(t) ==
  /\ \A i, j \in DOMAIN Places(t) : Places(t)[i] = Places(t)[j] => i = j
  /\ t.present \subseteq SeqRange(Places(t))
  /\ t.list \subseteq SeqRange(Places(t))

WellSeated(t, g) ==
  /\ OnePlace(t)
  /\ Len(t.seats) <= t.max
  /\ t.playing => t.inProgress
  /\ \A c \in SeqRange(Places(t)) \ g : t.map[c] # NoPlayer
  /\ AccountsApart => Fits(t)
  /\ AccountsOwn => Found(t, g)

(* Places are taken by clients. *)
LEMMA PlacesAreClients ==
  ASSUME NEW t, RoomOK(t)
  PROVE  SeqRange(Places(t)) \subseteq Client
  BY ConcatProperties DEF RoomOK, RoomObject, Places, SeqRange

(* A room that is well seated is so after its table changes. *)
LEMMA ReseatsWell ==
  ASSUME NEW t, NEW g, RoomOK(t), WellSeated(t, g), NEW u, Reseats(t, u)
  PROVE  WellSeated(u, g)
<1>1. Places(u) = Places(t) /\ SameMembers(u, t)
  BY DEF Reseats
<1>2. OnePlace(u)
  BY <1>1 DEF WellSeated, OnePlace, SameMembers
<1>3. Len(u.seats) <= u.max /\ (u.playing => u.inProgress)
  BY DEF Reseats
<1>4. SeqRange(Places(t)) \subseteq Client
  BY PlacesAreClients
<1>5. \A c \in Client : c \in Key
  BY DEF Key
<1>6. \A c \in Client : \/ u.map[c] = t.map[c]
                        \/ \E p \in SeqRange(Places(t)) : AccountOf[p] = c /\ u.map[c] = p
  BY <1>5 DEF Reseats
<1>7. \A c \in SeqRange(Places(u)) \ g : u.map[c] # NoPlayer
  <2>1. NoPlayer \notin Client
    BY LobbyAssumption DEF NoPlayer
  <2> QED
    BY <1>1, <1>4, <1>6, <2>1 DEF WellSeated
<1>8. AccountsApart => Fits(u)
  <2>1. Roomy(u) <=> Roomy(t)
    BY <1>1 DEF Roomy, SameMembers
  <2> QED
    BY <1>1, <2>1 DEF WellSeated, Fits, SameMembers, Reseats
<1>9. AccountsOwn => Found(u, g)
  <2> SUFFICES ASSUME AccountsOwn, NEW c \in Client, u.map[c] # NoPlayer
               PROVE  /\ u.map[c] = c /\ c \in SeqRange(Places(u))
                      /\ c \in g \/ (c \in u.present /\ c \in u.list)
    BY DEF Found
  <2>1. Found(t, g)
    BY DEF WellSeated
  <2>2. CASE u.map[c] = t.map[c]
    BY <1>1, <2>1, <2>2 DEF Found, SameMembers
  <2>3. CASE \E p \in SeqRange(Places(t)) : AccountOf[p] = c /\ u.map[c] = p
    <3>1. u.map[c] = c /\ c \in SeqRange(Places(t))
      BY <1>4, <2>3 DEF AccountsOwn
    <3>2. c \notin g => t.map[c] # NoPlayer
      BY <3>1 DEF WellSeated
    <3> QED
      BY <1>1, <2>1, <3>1, <3>2 DEF Found, SameMembers
  <2> QED
    BY <1>6, <2>2, <2>3
<1> QED
  BY <1>2, <1>3, <1>7, <1>8, <1>9 DEF WellSeated

(* A well seated table may be changed that way.                            *)
LEMMA SeatedSeemly ==
  ASSUME NEW t, NEW g, RoomOK(t), WellSeated(t, g)
  PROVE  Seemly(t)
  BY DEF Seemly, WellSeated, OnePlace

(* A new room is empty. *)
LEMMA NewRoomWell ==
  ASSUME NEW max \in Nat, NEW g
  PROVE  /\ WellSeated(NewRoom(max), g) /\ Places(NewRoom(max)) = <<>>
         /\ NewRoom(max).list = {} /\ NewRoom(max).max = max
         /\ \A c \in Client : NewRoom(max).map[c] = NoPlayer
<1> DEFINE t == NewRoom(max)
<1>1. /\ t.max = max /\ t.list = {} /\ t.present = {} /\ t.seats = <<>> /\ t.observers = <<>>
      /\ ~t.playing /\ t.map = [k \in Key |-> NoPlayer]
  BY DEF NewRoom
<1> HIDE DEF t
<1>2. Places(t) = <<>>
  BY <1>1 DEF Places
<1>3. \A c \in Client : t.map[c] = NoPlayer
  BY <1>1 DEF Key
<1>4. SeqRange(Places(t)) = {} /\ Len(Places(t)) = 0 /\ Len(t.seats) = 0
  BY <1>1, <1>2 DEF SeqRange
<1>5. Fits(t)
  BY <1>1, <1>4, FS_EmptySet DEF Fits, Roomy, PlayedBySeats
<1>6. OnePlace(t)
  BY <1>1, <1>2, <1>4 DEF OnePlace
<1>7. Found(t, g)
  BY <1>3 DEF Found
<1>8. WellSeated(t, g)
  BY <1>1, <1>4, <1>5, <1>6, <1>7 DEF WellSeated
<1> QED
  BY <1>1, <1>2, <1>3, <1>8 DEF t

(* One more at the end of a sequence of different values. *)
LEMMA OneMorePlace ==
  ASSUME NEW S, NEW s \in Seq(S), NEW c \in S, c \notin SeqRange(s),
         \A i, j \in DOMAIN s : s[i] = s[j] => i = j
  PROVE  LET a == Append(s, c)
         IN  /\ Len(a) = Len(s) + 1 /\ SeqRange(a) = SeqRange(s) \cup {c}
             /\ \A i, j \in DOMAIN a : a[i] = a[j] => i = j
<1> DEFINE a == Append(s, c)
<1>1. /\ a \in Seq(S) /\ Len(a) = Len(s) + 1 /\ a[Len(s) + 1] = c
      /\ \A i \in 1 .. Len(s) : a[i] = s[i]
  BY AppendProperties
<1> HIDE DEF a
<1>2. /\ DOMAIN s = 1 .. Len(s) /\ DOMAIN a = 1 .. Len(s) + 1 /\ Len(s) \in Nat
  BY <1>1
<1>3. \A i \in 1 .. Len(s) : s[i] # c
  BY <1>2 DEF SeqRange
<1>4. \A i, j \in DOMAIN a : a[i] = a[j] => i = j
  <2> SUFFICES ASSUME NEW i \in DOMAIN a, NEW j \in DOMAIN a, a[i] = a[j] PROVE i = j
    OBVIOUS
  <2>1. i \in 1 .. Len(s) \/ i = Len(s) + 1
    BY <1>2
  <2>2. j \in 1 .. Len(s) \/ j = Len(s) + 1
    BY <1>2
  <2> QED
    BY <1>1, <1>2, <1>3, <2>1, <2>2
<1>5. SeqRange(a) = SeqRange(s) \cup {c}
  <2>1. \A i \in DOMAIN a : a[i] \in SeqRange(s) \cup {c}
    BY <1>1, <1>2 DEF SeqRange
  <2>2. c \in SeqRange(a)
    BY <1>1, <1>2 DEF SeqRange
  <2>3. \A i \in DOMAIN s : i \in DOMAIN a /\ a[i] = s[i]
    BY <1>1, <1>2
  <2> QED
    BY <2>1, <2>2, <2>3 DEF SeqRange
<1> QED
  BY <1>1, <1>4, <1>5 DEF a

(* Somebody comes in, who has no place there from before he was gone. *)
LEMMA AdmitsWell ==
  ASSUME NEW t, NEW g, RoomOK(t), WellSeated(t, g), NEW c \in Client,
         c \in g => c \notin SeqRange(Places(t)), ~t.playing,
         AccountsApart => t.max = 0 \/ Len(Places(t)) + 1 <= t.max
  PROVE  LET u == AddPlayer(t, c)
         IN  /\ WellSeated(u, g)
             /\ u.present = t.present \cup {c} \/ u = t
             /\ u.list = t.list \cup {c} \/ u = t
             /\ \A k \in Key \ {c} : u.map[k] = t.map[k]
             /\ AccountsOwn => u.map[c] = c /\ c \in u.present /\ c \in u.list
<1>1. c \in Key /\ NoPlayer \notin Client
  BY LobbyAssumption DEF Key, NoPlayer
<1>2. CASE t.map[c] # NoPlayer
  <2>1. AddPlayer(t, c) = t
    BY <1>2 DEF AddPlayer
  <2>2. AccountsOwn => t.map[c] = c /\ c \in t.present /\ c \in t.list
    BY <1>2 DEF WellSeated, Found
  <2> QED
    BY <2>1, <2>2
<1>3. CASE t.map[c] = NoPlayer
  <2> DEFINE u == AddPlayer(t, c)
             s == Places(t)
  <2>1. /\ u.map = [t.map EXCEPT ![c] = c] /\ u.list = t.list \cup {c}
        /\ u.present = t.present \cup {c} /\ u.observers = Append(t.observers, c)
        /\ u.seats = t.seats /\ u.max = t.max /\ u.playing = t.playing
    BY <1>3 DEF AddPlayer, RoomOK, RoomObject
  <2> HIDE DEF u
  <2>2. t.seats \in Seq(Client) /\ t.observers \in Seq(Client) /\ s \in Seq(Client)
    BY ConcatProperties DEF RoomOK, RoomObject, Places
  <2>3. Places(u) = Append(s, c)
    <3>1. t.seats \o Append(t.observers, c) = Append(t.seats \o t.observers, c)
      <4> DEFINE a == t.seats
                 b == t.observers
      <4>1. a \in Seq(Client) /\ b \in Seq(Client) /\ c \in Client
        BY <2>2
      <4> HIDE DEF a, b
      <4>2. a \o Append(b, c) = Append(a \o b, c)
        BY ONLY <4>1, LastOfBoth
      <4> QED
        BY <4>2 DEF a, b
    <3> QED
      BY <2>1, <3>1 DEF Places
  <2>4. c \notin SeqRange(s)
    BY <1>3 DEF WellSeated
  <2>5. /\ Len(Places(u)) = Len(s) + 1 /\ SeqRange(Places(u)) = SeqRange(s) \cup {c}
        /\ \A i, j \in DOMAIN Places(u) : Places(u)[i] = Places(u)[j] => i = j
    BY <2>2, <2>3, <2>4, OneMorePlace DEF WellSeated, OnePlace
  <2> HIDE DEF s
  <2>6. OnePlace(u)
    BY <2>1, <2>5 DEF WellSeated, OnePlace, s
  <2>7. u.map[c] = c /\ \A k \in Key \ {c} : u.map[k] = t.map[k]
    BY <1>1, <2>1 DEF RoomOK, RoomObject
  <2>8. \A d \in SeqRange(Places(u)) \ g : u.map[d] # NoPlayer
    <3>1. SeqRange(s) \subseteq Key
      BY <2>2 DEF SeqRange, Key
    <3> QED
      BY <1>1, <2>5, <2>7, <3>1 DEF WellSeated, s
  <2>9. AccountsApart => Fits(u)
    <3> SUFFICES ASSUME AccountsApart PROVE Fits(u)
      OBVIOUS
    <3>1. IsFiniteSet(t.list) /\ c \notin t.list
      <4>1. t.list \subseteq Client
        BY DEF RoomOK, RoomObject
      <4> QED
        BY <2>4, <4>1, LobbyAssumption, FS_Subset DEF WellSeated, OnePlace, s
    <3>2. Cardinality(u.list) = Cardinality(t.list) + 1
      BY <2>1, <3>1, FS_AddElement
    <3> QED
      BY <2>1, <2>5, <3>2 DEF WellSeated, Fits, Roomy, PlayedBySeats, s
  <2>10. AccountsOwn => Found(u, g)
    <3> SUFFICES ASSUME AccountsOwn, NEW d \in Client, u.map[d] # NoPlayer
                 PROVE  /\ u.map[d] = d /\ d \in SeqRange(Places(u))
                        /\ d \in g \/ (d \in u.present /\ d \in u.list)
      BY DEF Found
    <3>1. CASE d = c
      BY <3>1, <2>1, <2>5, <2>7
    <3>2. CASE d # c
      <4>1. u.map[d] = t.map[d]
        BY <3>2, <2>7 DEF Key
      <4> QED
        BY <4>1, <2>1, <2>5 DEF WellSeated, Found, s
    <3> QED
      BY <3>1, <3>2
  <2>11. WellSeated(u, g)
    BY <2>1, <2>6, <2>8, <2>9, <2>10 DEF WellSeated
  <2> QED
    BY <2>1, <2>7, <2>11 DEF u
<1> QED
  BY <1>2, <1>3

(* Somebody leaves and keeps his place. *)
LEMMA RemovesWell ==
  ASSUME NEW t, NEW g, RoomOK(t), WellSeated(t, g), NEW c \in Client
  PROVE  LET u == RemovePlayer(t, c)
         IN  /\ WellSeated(u, g \cup {c})
             /\ AccountsOwn => \A d \in Client \ {c} :
                  /\ u.map[d] = t.map[d]
                  /\ d \in t.present => d \in u.present
                  /\ d \in t.list => d \in u.list
<1>1. CASE t.map[c] = NoPlayer
  <2>1. RemovePlayer(t, c) = t
    BY <1>1 DEF RemovePlayer
  <2>2. WellSeated(t, g \cup {c})
    BY DEF WellSeated, Found
  <2> QED
    BY <2>1, <2>2
<1>2. CASE t.map[c] # NoPlayer
  <2> DEFINE u == RemovePlayer(t, c)
  <2>1. /\ u.map = [t.map EXCEPT ![c] = NoPlayer] /\ u.list = {p \in t.list : AccountOf[p] # c}
        /\ u.present = t.present \ {t.map[c]} /\ u.observers = t.observers
        /\ u.seats = t.seats /\ u.max = t.max /\ u.playing = t.playing /\ u.inProgress = t.inProgress
    BY <1>2 DEF RemovePlayer, RoomOK, RoomObject
  <2> HIDE DEF u
  <2>2. Places(u) = Places(t)
    BY <2>1 DEF Places
  <2>3. \A k \in Key \ {c} : u.map[k] = t.map[k]
    BY <2>1 DEF RoomOK, RoomObject
  <2>4. SeqRange(Places(t)) \subseteq Client /\ Client \subseteq Key
    BY PlacesAreClients DEF Key
  <2>5. OnePlace(u)
    BY <2>1, <2>2 DEF WellSeated, OnePlace
  <2>6. \A d \in SeqRange(Places(u)) \ (g \cup {c}) : u.map[d] # NoPlayer
    BY <2>2, <2>3, <2>4 DEF WellSeated
  <2>7. AccountsApart => Fits(u)
    <3> SUFFICES ASSUME AccountsApart PROVE Fits(u)
      OBVIOUS
    <3>1. u.list = t.list
      BY <2>1 DEF AccountsApart, RoomOK, RoomObject
    <3> QED
      BY <2>1, <2>2, <3>1 DEF WellSeated, Fits, Roomy, PlayedBySeats
  <2>8. ASSUME AccountsOwn
        PROVE  /\ \A d \in Client \ {c} : /\ u.map[d] = t.map[d]
                                          /\ d \in t.present => d \in u.present
                                          /\ d \in t.list => d \in u.list
               /\ Found(u, g \cup {c})
    <3>1. t.map[c] = c
      BY <1>2, <2>8 DEF WellSeated, Found
    <3>2. \A d \in Client \ {c} : AccountOf[d] # c
      BY <2>8 DEF AccountsOwn
    <3>3. u.map[c] = NoPlayer
      BY <2>1, <2>4 DEF RoomOK, RoomObject
    <3>4. \A d \in Client \ {c} : /\ u.map[d] = t.map[d]
                                  /\ d \in t.present => d \in u.present
                                  /\ d \in t.list => d \in u.list
      BY <2>1, <2>3, <2>4, <3>1, <3>2
    <3> QED
      BY <2>2, <2>8, <3>3, <3>4 DEF WellSeated, Found
  <2>9. WellSeated(u, g \cup {c})
    BY <2>1, <2>2, <2>5, <2>6, <2>7, <2>8 DEF WellSeated
  <2> QED
    BY <2>8, <2>9 DEF u
<1> QED
  BY <1>1, <1>2
-----------------------------------------------------------------------------
(* The rooms and the directory of the lobby.                               *)

(* Where the lobby sends a client, he finds himself. *)
Directed(c) ==
  LET r == playerToRoom[c]
  IN  r # NoRoom =>
        /\ r \in rooms /\ room[r].map[c] = c
        /\ c \in room[r].present /\ c \in room[r].list

(* The inductive invariant of the places. *)
PlacesInv ==
  /\ TypeOK
  /\ \A r \in Number : WellSeated(room[r], gone)
  /\ \A r \in rooms : r < nextRoomId
  /\ \A r \in Number : room[r].inProgress \/ room[r].present # {} => r < nextRoomId
  /\ AccountsOwn => \A c \in Client : Directed(c)

(* Who is no member any more has just gone. *)
LeavingOnly ==
  AccountsOwn =>
    \A r \in Number : \A c \in room[r].present \ room'[r].present : c \in gone' \ gone

(* A step that changes tables and nothing else of the lobby. *)
TablesMove ==
  /\ UNCHANGED <<rooms, playerToRoom, nextRoomId, gone>>
  /\ \A r \in Number : /\ Reseats(room[r], room'[r])
                       /\ room'[r].inProgress => room[r].inProgress \/ r \in rooms

(* The rooms may be changed so. *)
LEMMA RoomsAreSeemly ==
  ASSUME PlacesInv, NEW r \in Number
  PROVE  RoomOK(room[r]) /\ Seemly(room[r]) /\ Reseats(room[r], room[r])
  BY RoomsAreOK, SeatedSeemly, SitsStill DEF PlacesInv

(* What is not read of a table does not unseat anybody. *)
LEMMA SameTableReseats ==
  ASSUME NEW t, NEW v, NEW u, Reseats(t, v), RoomOK(u), SameMembers(u, v), SameGame(u, v),
         u.map = v.map, u.seats = v.seats, u.observers = v.observers, u.ready = v.ready
  PROVE  Reseats(t, u)
<1>1. Places(u) = Places(v)
  BY DEF Places
<1>2. SameMembers(u, t)
  BY DEF Reseats, SameMembers
<1> QED
  BY <1>1, <1>2 DEF Reseats, SameMembers, SameGame, PlayedBySeats, Unready

LEMMA ReadyReqMoves ==
  ASSUME PlacesInv, TypeOK', NEW c \in Client, NEW isReady \in BOOLEAN, OnReadyReq(c, isReady)
  PROVE  TablesMove
<1> DEFINE q == playerToRoom[c]
           ready == IF isReady THEN room[q].ready \cup {room[q].map[c]}
                               ELSE room[q].ready \ {room[q].map[c]}
           u == [room[q] EXCEPT !.ready = ready]
<1>1. q \in rooms /\ UNCHANGED <<rooms, playerToRoom, nextRoomId, active, gone, crash>>
  BY DEF OnReadyReq
<1>2. q \in Number /\ room \in [Number -> RoomObject]
  BY <1>1 DEF PlacesInv, TypeOK
<1>3. room' = [room EXCEPT ![q] = u]
  BY <1>2 DEF OnReadyReq, RoomObject
<1> HIDE DEF q, ready
<1>4. /\ room'[q] = u /\ \A r \in Number \ {q} : room'[r] = room[r]
  BY <1>2, <1>3
<1>5. /\ SameMembers(u, room[q]) /\ SameGame(u, room[q]) /\ u.map = room[q].map
      /\ u.seats = room[q].seats /\ u.observers = room[q].observers
  BY <1>2 DEF RoomObject, SameMembers, SameGame
<1>6. RoomOK(room'[q])
  BY <1>2 DEF TypeOK, RoomOK
<1> HIDE DEF u
<1>7. Seemly(room[q])
  BY <1>2, RoomsAreSeemly
<1>8. Reseats(room[q], room'[q])
  <2>1. Places(u) = Places(room[q]) /\ Len(u.seats) <= u.max /\ (u.playing => u.inProgress)
    BY <1>5, <1>7 DEF Places, Seemly, SameMembers, SameGame
  <2> QED
    BY <1>4, <1>5, <1>6, <2>1 DEF Reseats, SameGame, PlayedBySeats
<1>9. \A r \in Number : Reseats(room[r], room'[r])
  BY <1>4, <1>8, RoomsAreSeemly
<1>10. \A r \in Number : room'[r].inProgress => room[r].inProgress
  BY <1>4, <1>5 DEF SameGame
<1> QED
  BY <1>1, <1>9, <1>10 DEF TablesMove

LEMMA ActionMoves ==
  ASSUME PlacesInv, NEW c \in Client, NEW q \in Number, OnPlayerActionReq(c, q)
  PROVE  TablesMove
<1>1. UNCHANGED <<rooms, playerToRoom, nextRoomId, active, gone>>
  BY DEF OnPlayerActionReq
<1>2. CASE room[q].playing
  <2>1. PICK u \in Bettings(room[q]) : room' = [room EXCEPT ![q] = u]
    BY <1>2 DEF OnPlayerActionReq
  <2>2. room'[q] = u /\ \A r \in Number \ {q} : room'[r] = room[r]
    BY <2>1 DEF PlacesInv, TypeOK
  <2>3. Reseats(room[q], u)
    BY RoomsAreSeemly, BettingsSeemly
  <2>4. room[q].inProgress
    BY <1>2 DEF PlacesInv, WellSeated
  <2> QED
    BY <1>1, <2>2, <2>3, <2>4, RoomsAreSeemly DEF TablesMove
<1>3. CASE ~room[q].playing
  <2>1. room' = room
    BY <1>3 DEF OnPlayerActionReq
  <2> QED
    BY <1>1, <2>1, RoomsAreSeemly DEF TablesMove
<1> QED
  BY <1>2, <1>3

LEMMA AnswerMoves ==
  ASSUME PlacesInv, NEW c \in Client, ClientReady(c)
  PROVE  TablesMove
<1> DEFINE heard == {r \in Number : Listens(r, c)}
           last == {r \in heard : Opens(room[r], c)}
           started == {IdOf(r) : r \in last}
<1>1. UNCHANGED <<rooms, playerToRoom, nextRoomId, active, gone>>
  BY DEF ClientReady
<1>2. CASE ~(started \subseteq rooms)
  <2>1. room' = room
    BY <1>2 DEF ClientReady
  <2> QED
    BY <1>1, <2>1, RoomsAreSeemly DEF TablesMove
<1>3. CASE started \subseteq rooms
  <2>1. PICK hand : /\ \A r \in started : hand[r] \in StartNewGame(room[r])
                    /\ room' = [r \in Number |->
                         LET t == IF r \in started THEN hand[r] ELSE room[r]
                         IN  IF r \in heard
                               THEN [Answer(t, c) EXCEPT !.sync = r \notin last]
                               ELSE t]
    BY <1>3 DEF ClientReady
  <2> HIDE DEF heard, last, started
  <2> SUFFICES ASSUME NEW r \in Number
               PROVE  /\ Reseats(room[r], room'[r])
                      /\ room'[r].inProgress => room[r].inProgress \/ r \in rooms
    BY <1>1 DEF TablesMove
  <2> DEFINE t == IF r \in started THEN hand[r] ELSE room[r]
             shut == (r \notin last)
             u == [Answer(t, c) EXCEPT !.sync = shut]
  <2>2. Reseats(room[r], t) /\ (t.inProgress => room[r].inProgress \/ r \in rooms)
    <3>1. CASE r \in started
      BY <3>1, <1>3, <2>1, RoomsAreSeemly, HandsSeemly
    <3>2. CASE r \notin started
      BY <3>2, RoomsAreSeemly
    <3> QED
      BY <3>1, <3>2
  <2>3. room'[r] = IF r \in heard THEN u ELSE t
    BY <2>1
  <2>4. RoomOK(t) /\ shut \in BOOLEAN
    BY <2>2 DEF Reseats
  <2> HIDE DEF t, shut
  <2>5. /\ RoomOK(u) /\ SameMembers(u, t) /\ SameGame(u, t)
    BY <2>4, AnswerCounts
  <2>6. u.map = t.map /\ u.seats = t.seats /\ u.observers = t.observers /\ u.ready = t.ready
    BY <2>4 DEF Answer, RoomOK, RoomObject
  <2> HIDE DEF u
  <2>7. Reseats(room[r], u) /\ u.inProgress = t.inProgress
    BY <2>2, <2>5, <2>6, SameTableReseats DEF SameGame
  <2> QED
    BY <2>2, <2>3, <2>7
<1> QED
  BY <1>2, <1>3

LEMMA UpdateMoves ==
  ASSUME PlacesInv, OnUpdate
  PROVE  TablesMove
<1>1. UNCHANGED <<rooms, playerToRoom, nextRoomId, gone, crash>>
  BY DEF OnUpdate
<1>2. PICK taken \in SUBSET ReadyRooms :
        LET now == TakenOver(taken)
            managed == {now[k] : k \in RoomId} \ {NoRoom}
            At(r) == IF r \in taken THEN TakeOverGame(room[r]) ELSE room[r]
        IN  \E after \in [managed -> UNION {Driven(At(r)) : r \in managed}] :
              /\ \A r \in managed : after[r] \in Driven(At(r))
              /\ room' = [r \in Number |-> IF r \in managed THEN after[r] ELSE room[r]]
  BY DEF OnUpdate
<1> DEFINE now == TakenOver(taken)
           managed == {now[k] : k \in RoomId} \ {NoRoom}
           At(r) == IF r \in taken THEN TakeOverGame(room[r]) ELSE room[r]
<1>3. PICK after : /\ \A r \in managed : after[r] \in Driven(At(r))
                   /\ room' = [r \in Number |-> IF r \in managed THEN after[r] ELSE room[r]]
  BY <1>2
<1> HIDE DEF now, managed
<1> SUFFICES ASSUME NEW r \in Number
             PROVE  /\ Reseats(room[r], room'[r])
                    /\ room'[r].inProgress => room[r].inProgress \/ r \in rooms
  BY <1>1 DEF TablesMove
<1>4. RoomOK(room[r]) /\ Seemly(room[r]) /\ Reseats(room[r], room[r])
  BY RoomsAreSeemly
<1>5. r \in managed => room'[r] \in Driven(At(r))
  BY <1>3
<1>6. r \notin managed => room'[r] = room[r]
  BY <1>3
<1>7. CASE r \notin managed
  BY <1>4, <1>6, <1>7
<1>8. CASE r \in managed /\ r \notin taken
  <2>1. room'[r] \in Driven(room[r])
    BY <1>5, <1>8
  <2>2. CASE room'[r] = room[r]
    BY <1>4, <2>2
  <2>3. CASE room[r].playing /\ room'[r] \in Bettings(room[r])
    BY <1>4, <2>3, BettingsSeemly DEF Seemly
  <2> QED
    BY <2>1, <2>2, <2>3 DEF Driven
<1>9. CASE r \in managed /\ r \in taken
  <2> DEFINE u == TakeOverGame(room[r])
  <2>1. /\ RoomOK(u) /\ SameMembers(u, room[r]) /\ u.playing = room[r].playing /\ u.inProgress
    BY <1>4, TakingOver
  <2>2. u.map = room[r].map /\ u.seats = room[r].seats /\ u.observers = room[r].observers
    BY <1>4 DEF TakeOverGame, StartSynchronizer, RoomOK, RoomObject
  <2>3. r \in rooms /\ ~room[r].playing
    BY <1>4, <1>9 DEF ReadyRooms, Seemly
  <2>4. room'[r] = u
    BY <1>5, <1>9, <2>1, <2>3 DEF Driven
  <2> HIDE DEF u
  <2>5. Places(u) = Places(room[r])
    BY <2>2 DEF Places
  <2>6. Reseats(room[r], u)
    BY <1>4, <2>1, <2>2, <2>3, <2>5 DEF Reseats, PlayedBySeats, SameMembers
  <2> QED
    BY <2>3, <2>4, <2>6
<1> QED
  BY <1>7, <1>8, <1>9

(* Tables change, and everybody keeps his place and finds himself. *)
LEMMA TablesMoveKeeps ==
  ASSUME PlacesInv, TypeOK', TablesMove
  PROVE  PlacesInv' /\ LeavingOnly
<1>1. \A r \in Number : WellSeated(room'[r], gone')
  BY RoomsAreOK, ReseatsWell DEF PlacesInv, TablesMove
<1>2. /\ \A r \in rooms' : r < nextRoomId'
      /\ \A r \in Number : room'[r].inProgress \/ room'[r].present # {} => r < nextRoomId'
  BY DEF PlacesInv, TablesMove, Reseats, SameMembers
<1>3. ASSUME AccountsOwn, NEW c \in Client
      PROVE  Directed(c)'
  <2> DEFINE r == playerToRoom[c]
  <2> SUFFICES ASSUME r # NoRoom
               PROVE  /\ r \in rooms /\ room'[r].map[c] = c
                      /\ c \in room'[r].present /\ c \in room'[r].list
    BY DEF TablesMove, Directed
  <2>1. /\ r \in rooms /\ room[r].map[c] = c
        /\ c \in room[r].present /\ c \in room[r].list
    BY <1>3 DEF PlacesInv, Directed
  <2>2. r \in Number
    BY <2>1 DEF PlacesInv, TypeOK
  <2> HIDE DEF r
  <2>3. Reseats(room[r], room'[r]) /\ c \in Key
    BY <2>2 DEF TablesMove, Key
  <2>4. room'[r].map[c] = c
    <3>1. CASE room'[r].map[c] = room[r].map[c]
      BY <2>1, <3>1
    <3>2. CASE \E p \in SeqRange(Places(room[r])) : AccountOf[p] = c /\ room'[r].map[c] = p
      <4>1. SeqRange(Places(room[r])) \subseteq Client
        BY <2>2, RoomsAreSeemly, PlacesAreClients
      <4> QED
        BY <1>3, <3>2, <4>1 DEF AccountsOwn
    <3> QED
      BY <2>3, <3>1, <3>2 DEF Reseats
  <2> QED
    BY <2>1, <2>3, <2>4 DEF Reseats, SameMembers
<1>4. LeavingOnly
  BY DEF LeavingOnly, TablesMove, Reseats, SameMembers
<1> QED
  BY <1>1, <1>2, <1>3, <1>4 DEF PlacesInv

(* A room is opened for its first player. *)
LEMMA CreateKeeps ==
  ASSUME PlacesInv, TypeOK', NEW c \in Client, NEW max \in MaxPlayers, OnCreateRoomReq(c, max)
  PROVE  /\ PlacesInv' /\ LeavingOnly
         /\ \A r \in Number : room[r].inProgress => room'[r].inProgress
<1> DEFINE n == nextRoomId
           t == NewRoom(max)
           u == AddPlayer(t, c)
<1>1. /\ n \in Number /\ nextRoomId' = n + 1 /\ room' = [room EXCEPT ![n] = u]
      /\ rooms' = rooms \cup {n} /\ playerToRoom' = [playerToRoom EXCEPT ![c] = n]
      /\ gone' = gone
  BY DEF OnCreateRoomReq
<1>2. max \in Nat
  BY LobbyAssumption
<1>3. RoomOK(t) /\ ~t.playing
  BY <1>2, NewRoomOK DEF Over
<1>4. WellSeated(t, gone) /\ Places(t) = <<>> /\ t.list = {} /\ t.max = max
  BY <1>2, NewRoomWell
<1> HIDE DEF t
<1>5. Len(Places(t)) = 0 /\ SeqRange(Places(t)) = {}
  BY <1>4 DEF SeqRange
<1>6. t.max = 0 \/ Len(Places(t)) + 1 <= t.max
  BY <1>2, <1>4, <1>5
<1>7. /\ WellSeated(u, gone)
      /\ AccountsOwn => u.map[c] = c /\ c \in u.present /\ c \in u.list
  BY <1>3, <1>4, <1>5, <1>6, AdmitsWell
<1> HIDE DEF u
<1>8. room'[n] = u /\ \A r \in Number \ {n} : room'[r] = room[r]
  BY <1>1 DEF PlacesInv, TypeOK
<1>9. \A r \in Number : r \in Nat
  BY DEF Number
<1>10. ~room[n].inProgress /\ room[n].present = {}
  BY <1>1, <1>9 DEF PlacesInv
<1>11. \A r \in rooms' : r < nextRoomId'
  <2>1. \A r \in rooms : r < n /\ r \in Nat
    BY <1>9 DEF PlacesInv, TypeOK
  <2>2. n \in Nat
    BY <1>1, <1>9
  <2> QED
    BY <1>1, <2>1, <2>2
<1>12. \A r \in Number : room'[r].inProgress \/ room'[r].present # {} => r < nextRoomId'
  <2> SUFFICES ASSUME NEW r \in Number, room'[r].inProgress \/ room'[r].present # {}
               PROVE  r < n + 1
    BY <1>1
  <2>1. CASE r = n
    BY <2>1, <1>9
  <2>2. CASE r # n
    BY <2>2, <1>1, <1>8, <1>9 DEF PlacesInv
  <2> QED
    BY <2>1, <2>2
<1>13. ASSUME AccountsOwn, NEW d \in Client
       PROVE  Directed(d)'
  <2>1. CASE d = c
    BY <1>1, <1>7, <1>8, <1>13, <2>1 DEF Directed, PlacesInv, TypeOK
  <2>2. CASE d # c
    <3>1. playerToRoom'[d] = playerToRoom[d]
      BY <1>1, <2>2 DEF PlacesInv, TypeOK
    <3>2. playerToRoom[d] \in rooms => playerToRoom[d] \in Number \ {n}
      <4>1. rooms \subseteq Number /\ \A r \in rooms : r < n /\ r \in Nat
        BY <1>9 DEF PlacesInv, TypeOK
      <4> QED
        BY <4>1
    <3> QED
      BY <1>1, <1>8, <1>13, <3>1, <3>2 DEF Directed, PlacesInv
  <2> QED
    BY <2>1, <2>2
<1>14. \A r \in Number : WellSeated(room'[r], gone')
  BY <1>1, <1>7, <1>8 DEF PlacesInv
<1>15. PlacesInv'
  BY <1>11, <1>12, <1>13, <1>14 DEF PlacesInv
<1>16. LeavingOnly
  BY <1>8, <1>10 DEF LeavingOnly
<1> QED
  BY <1>8, <1>10, <1>15, <1>16

(* Somebody is let into a room that is not full. *)
LEMMA JoinKeeps ==
  ASSUME PlacesInv, TypeOK', NEW c \in Client, NEW id \in RoomId, OnJoinRoomReq(c, id)
  PROVE  /\ PlacesInv' /\ LeavingOnly
         /\ \A r \in Number : room[r].inProgress => room'[r].inProgress
<1> DEFINE t == room[id]
           u == AddPlayer(t, c)
<1>1. /\ id \in rooms /\ ~t.inProgress /\ ~IsFull(t) /\ room' = [room EXCEPT ![id] = u]
      /\ c \in gone => c \notin SeqRange(Places(t))
      /\ playerToRoom' = [playerToRoom EXCEPT ![c] = id]
      /\ UNCHANGED <<rooms, nextRoomId, gone>>
  BY DEF OnJoinRoomReq, Asks, Places
<1>2. id \in Number /\ RoomOK(t) /\ WellSeated(t, gone)
  BY <1>1, RoomsAreSeemly DEF PlacesInv, TypeOK
<1> HIDE DEF t
<1>3. ~t.playing
  BY <1>1, <1>2 DEF WellSeated
<1>4. AccountsApart => t.max = 0 \/ Len(Places(t)) + 1 <= t.max
  <2> SUFFICES ASSUME AccountsApart, t.max # 0 PROVE Len(Places(t)) + 1 <= t.max
    OBVIOUS
  <2>1. Len(Places(t)) = Cardinality(t.list)
    BY <1>2 DEF WellSeated, Fits
  <2>2. Cardinality(t.list) \in Nat
    <3>1. t.list \subseteq Client
      BY <1>2 DEF RoomOK, RoomObject
    <3> QED
      BY <3>1, LobbyAssumption, FS_Subset, FS_CardinalityType
  <2>3. ~(Cardinality(t.list) >= t.max - 1) /\ t.max \in Nat
    BY <1>1, <1>2 DEF IsFull, RoomOK, RoomObject
  <2> QED
    BY <2>1, <2>2, <2>3
<1>5. /\ WellSeated(u, gone)
      /\ u.present = t.present \cup {c} \/ u = t
      /\ u.list = t.list \cup {c} \/ u = t
      /\ \A k \in Key \ {c} : u.map[k] = t.map[k]
      /\ AccountsOwn => u.map[c] = c /\ c \in u.present /\ c \in u.list
  BY <1>1, <1>2, <1>3, <1>4, AdmitsWell
<1>6. SameGame(u, t)
  BY <1>2, PlayerAdded
<1> HIDE DEF u
<1>7. room'[id] = u /\ t = room[id] /\ \A r \in Number \ {id} : room'[r] = room[r]
  BY <1>1, <1>2 DEF PlacesInv, TypeOK, t
<1>8. ASSUME AccountsOwn, NEW d \in Client
      PROVE  Directed(d)'
  <2>1. CASE d = c
    BY <1>1, <1>5, <1>7, <1>8, <2>1 DEF Directed, PlacesInv, TypeOK
  <2>2. CASE d # c
    <3>1. playerToRoom'[d] = playerToRoom[d] /\ Directed(d) /\ rooms \subseteq Number
      BY <1>1, <1>8, <2>2 DEF PlacesInv, TypeOK
    <3>2. d \in Key \ {c}
      BY <2>2 DEF Key
    <3>3. CASE playerToRoom[d] = id
      BY <1>1, <1>5, <1>7, <3>1, <3>2, <3>3 DEF Directed
    <3>4. CASE playerToRoom[d] # id
      BY <1>1, <1>7, <3>1, <3>4 DEF Directed
    <3> QED
      BY <3>3, <3>4
  <2> QED
    BY <2>1, <2>2
<1>9. \A r \in Number : WellSeated(room'[r], gone')
  BY <1>1, <1>5, <1>7 DEF PlacesInv
<1>10. \A r \in Number : room'[r].inProgress <=> room[r].inProgress
  BY <1>6, <1>7 DEF SameGame
<1>11. \A r \in Number : room'[r].inProgress \/ room'[r].present # {} => r < nextRoomId'
  <2>1. id < nextRoomId
    BY <1>1 DEF PlacesInv
  <2> QED
    BY <1>1, <1>7, <1>10, <2>1 DEF PlacesInv
<1>12. PlacesInv'
  BY <1>1, <1>8, <1>9, <1>11 DEF PlacesInv
<1>13. LeavingOnly
  BY <1>5, <1>7 DEF LeavingOnly
<1> QED
  BY <1>10, <1>12, <1>13

(* Somebody is gone, and his room with him if he was its last. *)
LEMMA DisconnectKeeps ==
  ASSUME PlacesInv, TypeOK', NEW c \in Client, OnPlayerDisconnected(c)
  PROVE  /\ PlacesInv' /\ LeavingOnly
         /\ \A r \in Number : room[r].inProgress => room'[r].inProgress
<1> DEFINE q == playerToRoom[c]
           t == room[q]
           u == RemovePlayer(t, c)
<1>1. gone' = gone \cup {c} /\ nextRoomId' = nextRoomId
  BY DEF OnPlayerDisconnected
<1>2. \A r \in Number : WellSeated(room[r], gone')
  BY <1>1 DEF PlacesInv, WellSeated, Found
<1>3. CASE q \notin rooms
  <2>1. UNCHANGED <<room, rooms, playerToRoom>>
    BY <1>3 DEF OnPlayerDisconnected
  <2> QED
    BY <1>1, <1>2, <2>1 DEF PlacesInv, Directed, LeavingOnly
<1>4. CASE q \in rooms
  <2>1. /\ room' = [room EXCEPT ![q] = u] /\ playerToRoom' = [playerToRoom EXCEPT ![c] = NoRoom]
        /\ rooms' = IF u.list = {} THEN rooms \ {q} ELSE rooms
    BY <1>4 DEF OnPlayerDisconnected
  <2>2. q \in Number /\ RoomOK(t) /\ WellSeated(t, gone)
    BY <1>4, RoomsAreSeemly DEF PlacesInv, TypeOK
  <2> HIDE DEF q, t
  <2>3. /\ WellSeated(u, gone')
        /\ AccountsOwn => \A d \in Client \ {c} :
             /\ u.map[d] = t.map[d]
             /\ d \in t.present => d \in u.present
             /\ d \in t.list => d \in u.list
    BY <1>1, <2>2, RemovesWell
  <2>4. SameGame(u, t)
    BY <2>2, PlayerRemoved
  <2> HIDE DEF u
  <2>5. room'[q] = u /\ t = room[q] /\ \A r \in Number \ {q} : room'[r] = room[r]
    BY <2>1, <2>2 DEF PlacesInv, TypeOK, t
  <2>6. ASSUME AccountsOwn, NEW d \in Client
        PROVE  Directed(d)'
    <3>1. CASE d = c
      BY <2>1, <3>1 DEF Directed, PlacesInv, TypeOK
    <3>2. CASE d # c
      <4>1. playerToRoom'[d] = playerToRoom[d] /\ Directed(d) /\ rooms \subseteq Number
        BY <2>1, <2>6, <3>2 DEF PlacesInv, TypeOK
      <4>2. CASE playerToRoom[d] = q
        BY <2>1, <2>3, <2>5, <2>6, <3>2, <4>1, <4>2 DEF Directed
      <4>3. CASE playerToRoom[d] # q
        BY <2>1, <2>5, <4>1, <4>3 DEF Directed
      <4> QED
        BY <4>2, <4>3
    <3> QED
      BY <3>1, <3>2
  <2>7. \A r \in Number : WellSeated(room'[r], gone')
    BY <1>2, <2>3, <2>5
  <2>8. \A r \in Number : room'[r].inProgress <=> room[r].inProgress
    BY <2>4, <2>5 DEF SameGame
  <2>9. \A r \in Number : room'[r].inProgress \/ room'[r].present # {} => r < nextRoomId'
    <3>1. q < nextRoomId
      BY <1>4 DEF PlacesInv, q
    <3> QED
      BY <1>1, <2>5, <2>8, <3>1 DEF PlacesInv
  <2>10. PlacesInv'
    BY <1>1, <2>1, <2>6, <2>7, <2>9 DEF PlacesInv
  <2>11. LeavingOnly
    <3> SUFFICES ASSUME AccountsOwn, NEW r \in Number, NEW d \in room[r].present \ room'[r].present
                 PROVE  d \in gone' \ gone
      BY DEF LeavingOnly
    <3>1. r = q /\ d \in t.present /\ d \notin u.present
      BY <2>5
    <3>2. d \in Client
      BY <2>2, <3>1 DEF RoomOK, RoomObject
    <3>3. d = c
      BY <2>3, <3>1, <3>2
    <3> QED
      BY <1>1, <3>3 DEF OnPlayerDisconnected
  <2> QED
    BY <2>8, <2>10, <2>11
<1> QED
  BY <1>3, <1>4

(* What every step keeps, and how it may end a hand. *)
LEMMA PlacesNext ==
  ASSUME PlacesInv, [Next]_vars
  PROVE  /\ PlacesInv' /\ LeavingOnly
         /\ TablesMove \/ \A r \in Number : room[r].inProgress => room'[r].inProgress
<1>1. TypeOK'
  BY TypeNext DEF PlacesInv
<1>2. ASSUME TablesMove
      PROVE  PlacesInv' /\ LeavingOnly
  BY <1>1, <1>2, TablesMoveKeeps
<1>3. CASE \E c \in Client : \E max \in MaxPlayers : OnCreateRoomReq(c, max)
  BY <1>1, <1>3, CreateKeeps
<1>4. CASE \E c \in Client : \E id \in RoomId : OnJoinRoomReq(c, id)
  BY <1>1, <1>4, JoinKeeps
<1>5. CASE \E c \in Client : \E isReady \in BOOLEAN : OnReadyReq(c, isReady)
  BY <1>1, <1>2, <1>5, ReadyReqMoves
<1>6. CASE \E c \in Client : ClientReady(c)
  BY <1>2, <1>6, AnswerMoves
<1>7. CASE \E c \in Client : \E r \in Number : OnPlayerActionReq(c, r)
  BY <1>2, <1>7, ActionMoves
<1>8. CASE \E c \in Client : OnPlayerDisconnected(c)
  BY <1>1, <1>8, DisconnectKeeps
<1>9. CASE OnUpdate
  BY <1>2, <1>9, UpdateMoves
<1>10. CASE UNCHANGED vars
  BY <1>10 DEF vars, PlacesInv, TypeOK, Directed, LeavingOnly
<1> QED
  BY <1>3, <1>4, <1>5, <1>6, <1>7, <1>8, <1>9, <1>10 DEF Next

LEMMA PlacesInit == Init => PlacesInv
<1> SUFFICES ASSUME Init PROVE PlacesInv
  OBVIOUS
<1>1. TypeOK
  BY InvInit DEF IInv
<1>2. \A r \in Number : WellSeated(room[r], gone)
  BY NewRoomWell DEF Init
<1>3. \A r \in Number : ~room[r].inProgress /\ room[r].present = {}
  BY NewRoomOK DEF Init, Over
<1> QED
  BY <1>1, <1>2, <1>3 DEF Init, PlacesInv, Directed

LEMMA PlacesKept == Spec => []PlacesInv
<1>1. PlacesInv /\ [Next]_vars => PlacesInv'
  BY PlacesNext
<1> QED
  BY <1>1, PlacesInit, PTL DEF Spec

(* However clients come and go, nobody has two places in a room, and who   *)
(* is in it has one: for any account ids and any number of rooms           *)
(* (Room.cpp:8-29, PokerRoom.cpp:348-356).                                 *)
THEOREM OnePlaceEach == Spec => []OnePlayerPerClient
<1>1. PlacesInv => OnePlayerPerClient
  BY DEF PlacesInv, WellSeated, OnePlace, Places, OnePlayerPerClient
<1> QED
  BY <1>1, PlacesKept, PTL

(* As long as no client comes with another's id as its account, the room   *)
(* the lobby directs a client to exists and knows him under his id         *)
(* (LobbyModule.cpp:126-135, 171-187; Room.cpp:8-45).                      *)
THEOREM DirectoryStaysLive ==
  ASSUME AccountsOwn
  PROVE  Spec => []DirectoryIsLive
<1>1. PlacesInv => DirectoryIsLive
  BY DEF PlacesInv, Directed, DirectoryIsLive
<1> QED
  BY <1>1, PlacesKept, PTL

(* Where accounts are no client ids, nobody is left standing when a hand   *)
(* is played, for any sizes of tables: IsFull lets no more in than have    *)
(* seats (Room.h:29, PokerRoom.cpp:348-356).                               *)
THEOREM EverybodyHasASeat ==
  ASSUME AccountsApart
  PROVE  Spec => []EverybodySeated
<1>1. PlacesInv => EverybodySeated
  BY DEF PlacesInv, WellSeated, Fits, PlayedBySeats, EverybodySeated
<1> QED
  BY <1>1, PlacesKept, PTL

(* Where accounts are no client ids, nobody in a room is ready when its    *)
(* game ends, whoever came, left or said so during the hand                *)
(* (PokerRoom.cpp:343-401).                                                *)
THEOREM ReadinessIsFresh ==
  ASSUME AccountsApart
  PROVE  Spec => FreshReadiness
<1>1. ASSUME PlacesInv, [Next]_vars, NEW r \in Number,
             room[r].inProgress, ~room'[r].inProgress, room[r].max # 0
      PROVE  room'[r].ready \cap room'[r].list = {}
  <2>1. Reseats(room[r], room'[r])
    BY <1>1, PlacesNext DEF TablesMove
  <2>2. Roomy(room[r])
    BY <1>1 DEF PlacesInv, WellSeated, Fits
  <2> QED
    BY <1>1, <2>1, <2>2 DEF Reseats, Unready, SameMembers
<1>2. PlacesInv /\ [Next]_vars =>
        [\A r \in Number :
           room[r].inProgress /\ ~room'[r].inProgress /\ room[r].max # 0 =>
             room'[r].ready \cap room'[r].list = {}]_vars
  BY <1>1
<1> QED
  BY <1>2, PlacesKept, PTL DEF Spec, FreshReadiness

(* As long as RoomID does not overflow and no client comes with another's  *)
(* id as its account, a room is held up behind a shut barrier only by the  *)
(* leaving of the last client that had not answered (Room.cpp:73-85).      *)
THEOREM HeldUpByTheLeaving ==
  ASSUME MaxRooms < RoomIdMod, AccountsOwn
  PROVE  Spec => HeldUpByLeavingOnly
<1>1. ASSUME IInv, crash # "NoRoom", PlacesInv, [Next]_vars, NEW r \in Number,
             HeldUp(room'[r]), ~HeldUp(room[r])
      PROVE  room[r].sync /\ \E c \in gone' \ gone : c \notin room[r].answered
  <2> DEFINE t == room[r]
             u == room'[r]
  <2>1. u.sync /\ u.present # {} /\ u.present \subseteq u.answered
    BY <1>1 DEF HeldUp, AllAnswered
  <2>2. ~t.sync \/ t.present = {} \/ ~(t.present \subseteq t.answered)
    BY <1>1 DEF HeldUp, AllAnswered
  <2>3. /\ t.sync => t.inProgress /\ ~t.playing
        /\ t.sync \in BOOLEAN /\ u.sync \in BOOLEAN
    <3>1. RoomOK(t) /\ RoomOK(u)
      BY <1>1, InvNext DEF IInv, TypeOK, RoomOK
    <3> QED
      BY <1>1, <3>1 DEF IInv, Custody, RoomOK, RoomObject
  <2>4. Steps(t, u)
    BY <1>1, InvNext
  <2>5. \A c \in t.present \ u.present : c \in gone' \ gone
    BY <1>1, PlacesNext DEF LeavingOnly
  <2> HIDE DEF t, u
  <2>6. Loses(t, u)
    BY <2>1, <2>2, <2>3, <2>4 DEF Steps, Rests, Enters, Gathers, Hears, Begins, Finishes,
       SameBarrier, SameGame
  <2>7. t.sync /\ \E c \in t.present : c \notin t.answered /\ c \notin u.present
    BY <2>1, <2>2, <2>6 DEF Loses, SameBarrier
  <2> QED
    BY <2>5, <2>7 DEF t
<1>2. IInv /\ crash # "NoRoom" /\ PlacesInv /\ [Next]_vars =>
        [\A r \in Number : HeldUp(room'[r]) /\ ~HeldUp(room[r]) =>
           room[r].sync /\ \E c \in gone' \ gone : c \notin room[r].answered]_vars
  BY <1>1
<1> QED
  BY <1>2, Invariant, PlacesKept, PTL DEF Spec, HeldUpByLeavingOnly
=============================================================================

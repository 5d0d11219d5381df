------------------------------- MODULE Lobby -------------------------------
(***************************************************************************)
(* The lobby, its rooms and the module that plays in them: LobbyModule and *)
(* Room of the server library, TexasHoldemModule of the game.  Several     *)
(* rooms, clients that may be in more than one of them, clients that       *)
(* disconnect, and the barrier that waits for every client of a room       *)
(* before a hand begins.  Betting is left to module PokerRoom: here an     *)
(* action or a timeout passes the turn to some seat or ends the hand.      *)
(*                                                                         *)
(* Packets, updates and disconnects are handled on the main loop's thread, *)
(* one after the other (NetworkEngine.cpp:374-400), so each is one step.   *)
(***************************************************************************)
EXTENDS Integers, Sequences, FiniteSets

CONSTANTS
  Client,        \* client ids (m_NextClientId)
  AccountOf,     \* the account id each client sends: a PlayerID, as client ids are
  RoomIdMod,     \* the width of RoomID: 2^8 in the source
  MaxPlayers,    \* the bytes clients ask for as a table's size
  Late,          \* clients that may have a request queued when they disconnect
  MaxRooms       \* bound: rooms created

(* "PlayerID unique for every account" (Player.h:21). *)
ASSUME LobbyAssumption ==
  /\ Client \subseteq Nat \ {0} /\ IsFiniteSet(Client)
  /\ AccountOf \in [Client -> Nat]
  /\ \A c, d \in Client : AccountOf[c] = AccountOf[d] => c = d
  /\ RoomIdMod \in Nat \ {0} /\ MaxRooms \in Nat
  /\ MaxPlayers \subseteq Nat /\ Late \subseteq Client

VARIABLES
  room,          \* every Room object ever created, by number
  rooms,         \* the numbers in m_Rooms
  playerToRoom,  \* m_PlayerToRoom; NoRoom where a client is not in it
  nextRoomId,    \* m_NextRoomId
  active,        \* m_ActiveGames by RoomID; NoRoom where an id is not in it
  gone,          \* clients that disconnected
  crash          \* what killed the process, "no" while it lives

vars == <<room, rooms, playerToRoom, nextRoomId, active, gone, crash>>

NoRoom == 0
Number == 1 .. MaxRooms
RoomId == 0 .. RoomIdMod - 1

(* m_ID: the number a room was created with, cut to a RoomID. *)
IdOf(r) == r % RoomIdMod

SeqRange(s) == {s[i] : i \in DOMAIN s}
-----------------------------------------------------------------------------
(* One room.  A Player object is named by its client.                      *)

Key == Client \cup {AccountOf[c] : c \in Client}
NoPlayer == 0    \* clients count from 1 (NetworkEngine.cpp:17)

RoomObject ==
  [max : Nat,                    \* m_MaxPlayerNum
   list : SUBSET Client,         \* m_PlayerList of Room
   map : [Key -> Client \cup {NoPlayer}],   \* m_PlayerMap, by client id and by account id
   present : SUBSET Client,      \* the keys of m_ClientMap
   observers : Seq(Client),      \* m_Observers
   seats : Seq(Client),          \* m_PlayerList of PokerRoom
   ready : SUBSET Client,        \* players with m_Ready
   inProgress : BOOLEAN,         \* m_IsGameInProgress
   sync : BOOLEAN,               \* m_Sync
   answered : SUBSET Client,     \* m_SyncTask.syncMap
   playing : BOOLEAN,            \* there is a pot, the room is in a betting state
   turn : Nat]                   \* m_BetIndex + 1: stale when not playing

NewRoom(max) ==
  [max |-> max, list |-> {}, map |-> [k \in Key |-> NoPlayer], 
   present |-> {}, observers |-> <<>>, seats |-> <<>>, ready |-> {}, inProgress |-> FALSE, sync |-> FALSE,
   answered |-> {}, playing |-> FALSE, turn |-> 0]

AddPlayer_Again(t, c) ==
  [t EXCEPT !.map[c] = c, !.list = @ \cup {c}, !.present = @ \cup {c},
            !.observers = Append(@, c)]
AddPlayer_NoClientMap(t, c) ==
  [t EXCEPT !.map[c] = c, !.list = @ \cup {c}, !.observers = Append(@, c)]

AddPlayer(t, c) ==
  IF t.map[c] # NoPlayer
    THEN t
    ELSE [t EXCEPT !.map[c] = c,
                   !.list = @ \cup {c},
                   !.present = @ \cup {c},
                   !.observers = Append(@, c)]

(* The list is searched for the account id c, not for the client's player. *)
RemovePlayer(t, c) ==
  IF t.map[c] = NoPlayer
    THEN t
    ELSE [t EXCEPT !.present = @ \ {t.map[c]},
                   !.map[c] = NoPlayer,
                   !.list = {p \in @ : AccountOf[p] # c}]

(* GetPlayerByNetID finds a player object. *)
HasPlayer(t, c) == c \in t.present /\ t.map[c] # NoPlayer

AreAllPlayersReady(t) == t.list # {} /\ t.list \subseteq t.ready

IsFull_Never(t) == FALSE

(* An unsigned size against max - 1: a room for 0 players is never full. *)
IsFull(t) == t.max # 0 /\ Cardinality(t.list) >= t.max - 1

StartSynchronizer_KeepsAnswers(t) == [t EXCEPT !.sync = TRUE]

StartSynchronizer(t) == [t EXCEPT !.sync = TRUE, !.answered = {}]

Min2(a, b) == IF a <= b THEN a ELSE b

(* As many observers as there are free seats sit down, and are from now on *)
(* found by their account id, too.                                         *)
AddObserverPlayer(t) ==
  LET free == IF Len(t.seats) < t.max THEN t.max - Len(t.seats) ELSE 0
      n == Min2(free, Len(t.observers))
      new == SubSeq(t.observers, 1, n)
      newIds == {AccountOf[p] : p \in SeqRange(new)}
  IN  [t EXCEPT !.seats = @ \o new,
                !.observers = SubSeq(@, n + 1, Len(@)),
                !.map = [k \in Key |->
                           IF k \in newIds
                             THEN CHOOSE p \in SeqRange(new) : AccountOf[p] = k
                             ELSE @[k]]]

CheckPlayer_StaysReady(t) ==
  [AddObserverPlayer(t) EXCEPT !.inProgress = FALSE, !.playing = FALSE]

(* CheckPlayer: seats for the observers, everybody seated back to unready. *)
CheckPlayer(t) ==
  LET s == AddObserverPlayer(t)
  IN  [s EXCEPT !.ready = @ \ SeqRange(s.seats),
                !.inProgress = FALSE, !.playing = FALSE]

(* Where betting may stop: at some seat's turn, or with the hand over. *)
Bettings(t) ==
  LET turns == {[t EXCEPT !.turn = i] : i \in DOMAIN t.seats}
  IN  turns \cup {CheckPlayer(s) : s \in turns}

(* A hand needs two players; a room with fewer goes back to its start. *)
StartNewGame(t) ==
  LET s == CheckPlayer(t)
  IN  IF Len(s.seats) >= 2
        THEN Bettings([s EXCEPT !.inProgress = TRUE, !.playing = TRUE])
        ELSE {s}
-----------------------------------------------------------------------------
(* The lobby.                                                              *)

Init ==
  /\ room = [r \in Number |-> NewRoom(0)]
  /\ rooms = {}
  /\ playerToRoom = [c \in Client |-> NoRoom]
  /\ nextRoomId = 1
  /\ active = [k \in RoomId |-> NoRoom]
  /\ gone = {}
  /\ crash = "no"

(* A packet of the client is at hand: maybe one that was still queued when *)
(* the client disconnected, and is handled after its disconnect.           *)
Sends(c) == crash = "no"

(* So it may be for requests to create or to join a room.  Players are     *)
(* told apart by their clients; left out is therefore that a client which  *)
(* is gone comes as a second player to where its first one has a place.    *)
Asks(c, t) ==
  /\ Sends(c)
  /\ c \in gone => c \in Late /\ c \notin SeqRange(t.seats \o t.observers)

(* The creator's membership elsewhere is forgotten, not ended. *)
OnCreateRoomReq(c, max) ==
  /\ Asks(c, NewRoom(max))
  /\ nextRoomId \in Number
  /\ nextRoomId' = nextRoomId + 1
  /\ room' = [room EXCEPT ![nextRoomId] = AddPlayer(NewRoom(max), c)]
  /\ rooms' = rooms \cup {nextRoomId}
  /\ playerToRoom' = [playerToRoom EXCEPT ![c] = nextRoomId]
  /\ UNCHANGED <<active, gone, crash>>

(* The room is asked for by a RoomID: only numbers below RoomIdMod are found. *)
OnJoinRoomReq(c, id) ==
  /\ id \in rooms /\ Asks(c, room[id])
  /\ ~room[id].inProgress /\ ~IsFull(room[id])
  /\ room' = [room EXCEPT ![id] = AddPlayer(@, c)]
  /\ playerToRoom' = [playerToRoom EXCEPT ![c] = id]
  /\ UNCHANGED <<rooms, nextRoomId, active, gone, crash>>

(* The player found under the client id is made ready in its last room. *)
OnReadyReq(c, isReady) ==
  LET r == playerToRoom[c]
  IN  /\ Sends(c)
      /\ r \in rooms
      /\ room[r].map[c] # NoPlayer
      /\ room' = [room EXCEPT ![r].ready =
                    IF isReady THEN @ \cup {room[r].map[c]} ELSE @ \ {room[r].map[c]}]
      /\ UNCHANGED <<rooms, playerToRoom, nextRoomId, active, gone, crash>>

(* OnMessageNotify in one room. *)
Listens(r, c) == r \in rooms /\ room[r].sync /\ c \in room[r].present
Answer(t, c) == [t EXCEPT !.answered = @ \cup {c}]
AllAnswered(t) == t.present \subseteq t.answered

Opens_OnAny(t, c) == TRUE
Opens_BeforeCounting(t, c) == AllAnswered(t)

(* This answer is the last one. *)
Opens(t, c) == AllAnswered(Answer(t, c))

(***************************************************************************)
(* C2S_ClientReady has no handler, but every packet of the lobby is shown  *)
(* to every room: one answer counts in all the rooms of the client.  Each  *)
(* room where it was the last opens its barrier, whose function starts the *)
(* game of the room that GetRoom finds for the room's RoomID.              *)
(***************************************************************************)
ClientReady(c) ==
  LET heard == {r \in Number : Listens(r, c)}
      last == {r \in heard : Opens(room[r], c)}
      started == {IdOf(r) : r \in last}
  IN  /\ Sends(c)
      /\ heard # {}
      /\ IF started \subseteq rooms
            THEN /\ \E hand \in [started -> UNION {StartNewGame(room[r]) : r \in started}] :
                      /\ \A r \in started : hand[r] \in StartNewGame(room[r])
                      /\ room' = [r \in Number |->
                           LET t == IF r \in started THEN hand[r] ELSE room[r]
                           IN  IF r \in heard
                                 THEN [Answer(t, c) EXCEPT !.sync = r \notin last]
                                 ELSE t]
                 /\ UNCHANGED crash
            ELSE crash' = "NoRoom" /\ UNCHANGED room
      /\ UNCHANGED <<rooms, playerToRoom, nextRoomId, active, gone>>

(***************************************************************************)
(* The first active room that knows the client is taken for its room, and  *)
(* the order of m_ActiveGames is any.  Out of turn, nothing happens.  The  *)
(* pot is read whether there is one or not.                                *)
(***************************************************************************)
OnPlayerActionReq(c, r) ==
  LET t == room[r]
  IN  /\ Sends(c)
      /\ \E k \in RoomId : active[k] = r
      /\ r # NoRoom /\ HasPlayer(t, c)
      /\ t.turn \in DOMAIN t.seats /\ t.seats[t.turn] = c
      /\ IF t.playing
            THEN /\ \E s \in Bettings(t) : room' = [room EXCEPT ![r] = s]
                 /\ UNCHANGED crash
            ELSE crash' = "NoPot" /\ UNCHANGED room
      /\ UNCHANGED <<rooms, playerToRoom, nextRoomId, active, gone>>

(* Idle rooms whose players are all ready, one for each RoomID in no hand. *)
ReadyRooms ==
  {r \in rooms : /\ AreAllPlayersReady(room[r]) /\ ~room[r].inProgress
                 /\ active[IdOf(r)] = NoRoom}
TakenOver(taken) ==
  [k \in RoomId |-> IF \E r \in taken : IdOf(r) = k
                      THEN CHOOSE r \in taken : IdOf(r) = k
                      ELSE active[k]]
TakeOverGame_NotInProgress(t) == StartSynchronizer(t)

TakeOverGame(t) == StartSynchronizer([t EXCEPT !.inProgress = TRUE])

(* PokerRoom::OnUpdate: the turn may have timed out. *)
Driven(t) == {t} \cup (IF t.playing THEN Bettings(t) ELSE {})

Released(t) == ~t.playing /\ ~t.inProgress

(* OnUpdate: take over every room that can start, drive all that are taken *)
(* over, release those whose hand has ended.                               *)
OnUpdate ==
  /\ crash = "no"
  /\ \E taken \in SUBSET ReadyRooms :
       /\ \A r \in ReadyRooms : \E s \in taken : IdOf(s) = IdOf(r)
       /\ \A r, s \in taken : IdOf(r) = IdOf(s) => r = s
       /\ LET now == TakenOver(taken)
              managed == {now[k] : k \in RoomId} \ {NoRoom}
              At(r) == IF r \in taken THEN TakeOverGame(room[r]) ELSE room[r]
          IN  \E after \in [managed -> UNION {Driven(At(r)) : r \in managed}] :
                /\ \A r \in managed : after[r] \in Driven(At(r))
                /\ room' = [r \in Number |-> IF r \in managed THEN after[r] ELSE room[r]]
                /\ active' = [k \in RoomId |->
                      IF now[k] # NoRoom /\ Released(room'[now[k]]) THEN NoRoom ELSE now[k]]
  /\ UNCHANGED <<rooms, playerToRoom, nextRoomId, gone, crash>>

(* Only the last room of the client hears of it. *)
OnPlayerDisconnected(c) ==
  LET r == playerToRoom[c]
      t == RemovePlayer(room[r], c)
  IN  /\ crash = "no" /\ c \notin gone
      /\ gone' = gone \cup {c}
      /\ IF r \notin rooms
            THEN UNCHANGED <<room, rooms, playerToRoom>>
            ELSE /\ room' = [room EXCEPT ![r] = t]
                 /\ playerToRoom' = [playerToRoom EXCEPT ![c] = NoRoom]
                 /\ rooms' = IF t.list = {} THEN rooms \ {r} ELSE rooms
      /\ UNCHANGED <<nextRoomId, active, crash>>

Next ==
  \/ \E c \in Client :
       \/ \E max \in MaxPlayers : OnCreateRoomReq(c, max)
       \/ \E id \in RoomId : OnJoinRoomReq(c, id)
       \/ \E isReady \in BOOLEAN : OnReadyReq(c, isReady)
       \/ ClientReady(c)
       \/ \E r \in Number : OnPlayerActionReq(c, r)
       \/ OnPlayerDisconnected(c)
  \/ OnUpdate

Spec == Init /\ [][Next]_vars
-----------------------------------------------------------------------------
(* The values of the members' types; a turn is a seat or none. *)
TypeOK ==
  /\ room \in [Number -> RoomObject]
  /\ \A r \in Number : room[r].turn \in {0} \cup DOMAIN room[r].seats
  /\ rooms \subseteq Number
  /\ playerToRoom \in [Client -> {NoRoom} \cup Number]
  /\ nextRoomId \in 1 .. MaxRooms + 1
  /\ active \in [RoomId -> {NoRoom} \cup Number]
  /\ gone \subseteq Client
  /\ crash \in {"no", "NoPot", "NoRoom"}
-----------------------------------------------------------------------------
(* Safety.                                                                 *)

Managed(r) == active[IdOf(r)] = r

(* A room is in progress only under the control of the module, which holds *)
(* it under its own RoomID; its barrier is armed only between takeover and *)
(* hand: the assertion of Room.cpp:88 holds at every takeover, however     *)
(* rooms start, end and are erased beside each other                       *)
(* (TexasHoldemModule.cpp:30-53, 85-90).                                   *)
Custody ==
  /\ \A k \in RoomId : active[k] # NoRoom => IdOf(active[k]) = k
  /\ \A r \in Number :
       /\ room[r].inProgress => Managed(r)
       /\ room[r].sync => room[r].inProgress /\ ~room[r].playing
       /\ room[r].playing => room[r].inProgress

(* m_PlayerToRoom and the rooms agree: the room a client is directed to    *)
(* exists, has the client in it, and finds its own player under its id     *)
(* (LobbyModule.cpp:126-135, 171-187; Room.cpp:8-45).                      *)
DirectoryIsLive ==
  \A c \in Client : playerToRoom[c] # NoRoom =>
    /\ playerToRoom[c] \in rooms
    /\ c \in room[playerToRoom[c]].present
    /\ room[playerToRoom[c]].map[c] = c

(* Nobody sits twice at a table or sits and waits, and nobody is in the    *)
(* room unlisted: a client answers, readies and acts for one player        *)
(* (Room.cpp:8-29, PokerRoom.cpp:348-356).                                 *)
OnePlayerPerClient ==
  \A r \in Number :
    LET places == room[r].seats \o room[r].observers
    IN  /\ \A i, j \in DOMAIN places : places[i] = places[j] => i = j
        /\ room[r].present \subseteq SeqRange(places)
        /\ room[r].list \subseteq SeqRange(places)

(* Whoever the lobby lets into a room has a seat by the time a hand is     *)
(* played there: IsFull counts the players of Room, AddObserverPlayer the  *)
(* seats of PokerRoom (Room.h:29, PokerRoom.cpp:348-356).                  *)
EverybodySeated ==
  \A r \in Number : room[r].playing => room[r].observers = <<>>
-----------------------------------------------------------------------------
(* What a step may never do.                                               *)

(* Every client of the room has answered, and the barrier is still shut.   *)
HeldUp(t) == t.sync /\ t.present # {} /\ AllAnswered(t)

(* An answer never leaves the barrier of a room shut behind the last       *)
(* client: a room is held up only when the one who had not answered leaves *)
(* (Room.cpp:73-85 counts in OnMessageNotify alone).                       *)
HeldUpByLeavingOnly ==
  [][\A r \in Number : HeldUp(room'[r]) /\ ~HeldUp(room[r]) =>
       room[r].sync /\ \E c \in gone' \ gone : c \notin room[r].answered]_vars

(* Nobody is taken into a second hand on one word: when a room's game ends *)
(* nobody in it is ready any more, not even who said so during the hand,   *)
(* so that the next takeover waits for all of them (ResetForNewRound,      *)
(* PokerRoom.cpp:392-401, resets those who have a seat; in a room for 0    *)
(* players nobody has).                                                    *)
FreshReadiness ==
  [][\A r \in Number :
       room[r].inProgress /\ ~room'[r].inProgress /\ room[r].max # 0 =>
         room'[r].ready \cap room'[r].list = {}]_vars
-----------------------------------------------------------------------------
(* Refinement.                                                             *)

Barrier == INSTANCE ReadyBarrier WITH
             Table <- Number,
             stage <- [r \in Number |-> CASE room[r].sync -> "Gathering"
                                          [] room[r].playing -> "Playing"
                                          [] OTHER -> "Open"],
             members <- [r \in Number |-> room[r].present],
             heard <- [r \in Number |-> IF room[r].sync THEN room[r].answered ELSE {}]

(* The rooms keep the promise of ReadyBarrier: no hand begins without an   *)
(* answer, given since the takeover, from every client still in the room   *)
(* (Room.cpp:73-93, LobbyModule.cpp:49-56, 98-109).                        *)
BarrierSpec == Barrier!Spec
-----------------------------------------------------------------------------
(* Liveness.                                                               *)

(* The clients are not part of the server.  A client owes an answer that a *)
(* room waits for, and gives it at last.  The answer is possible whenever  *)
(* it is owed, and owed no more when it is given: this is weak fairness of *)
(* ClientReady(c) while AnswerOwed(c), in a form that is quick to check.   *)
AnswerOwed(c) ==
  crash = "no" /\ c \notin gone /\ \E r \in Number : Listens(r, c) /\ c \notin room[r].answered

FairSpec == Spec /\ \A c \in Client : []<>~AnswerOwed(c)

(* The barrier opens when every client answers once for each takeover,     *)
(* unless a player of the room leaves, before it or behind it              *)
(* (Room.cpp:73-93).                                                       *)
BarrierOpens ==
  \A r \in Number :
    room[r].sync ~>
      \/ ~room[r].sync
      \/ gone \cap SeqRange(room[r].seats \o room[r].observers) # {}
      \/ crash # "no"
-----------------------------------------------------------------------------
(* What comments and messages of the code say.                             *)

(* "spare 0 for invalid room ID" (Room.h:38): no game is played under it.  *)
RoomIdIsValid ==
  \A r \in Number : room[r].inProgress => IdOf(r) # 0

(* "PokerPlayer {} removed from PokerRoom {}." (PokerRoom.cpp:62): who has *)
(* left the room is not among the players the next hand is dealt to.       *)
RemovedHasNoSeat ==
  [][\A r \in Number :
       room'[r].playing /\ ~room[r].playing =>
         SeqRange(room'[r].seats) \subseteq room'[r].present]_vars

(* "Received player action from client {}, but it's not their turn."       *)
(* (TexasHoldemModule.cpp:118), is said only of clients whose turn it is   *)
(* nowhere: "It's player at {}'s turn" (PokerRoom.cpp:190).                *)
HasTurn(r, c) ==
  room[r].turn \in DOMAIN room[r].seats /\ room[r].seats[room[r].turn] = c
RefusedOutOfTurnOnly ==
  \A c \in Client, q, r \in Number :
    /\ Managed(q) /\ HasPlayer(room[q], c)
    /\ Managed(r) /\ room[r].playing /\ HasTurn(r, c)
    => HasTurn(q, c)
=============================================================================

# TempServer in TLA+

TempServer is a poker server in C++: a small engine (`src/TempServer`: main
loop, sockets and threads, lobby, rooms) and the game that runs on it
(`src/Poker`: table, players, pot, cards). This directory holds a model of its
core logic, checked with TLC, and proofs about that model, checked with TLAPS.

Paths below are relative to `src/Poker/src` (P) and
`src/TempServer/src/Server` (S).

## 1. Inventory

| Component | State | Operations | Talks to |
|---|---|---|---|
| Poker table: `PokerRoom`, `PokerPlayer` (P/core) | game state (13 values), bet index, bet number, blinds' and dealer's indices, action timer, common cards, pot; per player money, bet of the round, bet of the hand, card state | `OnAddPlayer`, `OnRemovePlayer`, `StartNewGame`, `OnPlayerAction`, `OnUpdate`, the state machine `ProcessGameState`/`CheckTurn` | pot (a call), clients (notifications), Texas hold'em module (called by it) |
| Pot (P/logic/Pot) | value of the pot, side pots | `Dispatch`, `CalWinner` | players (`AddMoney`), cards (order of hands) |
| Texas hold'em module (P/core) | `m_ActiveGames` | `TakeOverGame`, `OnPlayerActionReq`, `OnUpdate` | lobby (iterates over its rooms), room (barrier), table |
| Room, Player, ClientReady barrier (S/logic) | members, ready flags, `m_InProgress`, the barrier's set of clients and callback | join, leave, ready, `WaitForClientReady`, `OnClientReady` | lobby, Texas hold'em module (callback) |
| Lobby (S/core/LobbyModule) | rooms by id, room of each client | create, join, leave, ready, disconnect | rooms, network |
| Main loop (S/core/Application) | modules | update network, update modules with a time step, dispatch packets | everything, on one thread |
| Poker application (P/Poker) | module ids | routes packets and disconnects | modules |
| System module (S/core) | user names | login | - |
| Network engine (S/network) | `m_Clients`, packet queue, removal queue, one thread per client and one to accept | accept, receive, cut packets, remove, stop | main loop (queue), sockets |
| Byte streams (S/data) | buffer, positions | read, write | handlers |
| Cards, ranking, random numbers (P/logic/Card, S/Math) | dealt cards, generator | draw, `CalCardID`, `CompareTwoSets` | table, pot |

Vendored (spdlog, yaml-cpp, readerwriterqueue, premake), logging and build files
hold no logic of the system.

**How they interact.** Receive threads cut packets out of the sockets' streams
and put them into one queue. The main loop drains the queue, which calls the
handlers of the modules, and then updates each module. So all of the lobby, the
rooms and the game runs on one thread, one handler or update after the other;
only the network engine is concurrent. What makes the game hard is therefore
not races but *orders*: which handler runs between two updates, which state a
handler finds that some other one left, and how a single call of
`OnPlayerAction` may run through several states, up to the end of the hand and
the reset of the table.

**What is hard, and what correctness means.**

* *Betting rounds* (P/core/PokerRoom.cpp:434-498). Bets, raises that reopen the
  betting, folds, all-ins and timeouts reset card states and bet numbers on many
  paths. Right: nobody is passed over, a round ends only when all have matched
  the bet, the turn always goes to somebody who can act, streets come in order
  with their cards, and those who are out stay out.
* *Division of the pot* (P/logic/Pot.cpp:55-122). Who contests which side pot,
  with unsigned arithmetic. Right: the pots are the pot, beaten players get
  nothing, the best hand gets its share, nobody who folded is paid.
* *Takeover, start, release* (P/core/TexasHoldemModule.cpp). The module reads
  fields that the lobby, the barrier and the table write. Right: a hand under
  play is never released or taken over twice, and nobody acts without a pot.
* *The clock* (P/core/PokerRoom.cpp:408-426). Right: a silent player does not
  hold the table for ever.
* *Barrier and lobby* (S/logic/Room.cpp, S/core/LobbyModule.cpp): answers that
  come early, late or never; clients in several rooms; disconnects during a
  hand; room ids cut to eight bits.
* *Network*: queues used by more threads than they are made for, joins under a
  lock, short writes, chunks that cut packets.

`PROJECT.json` lists the hazards one by one, each at its line, with the
properties that watch it or the reason why none does.

## 2. The modules

| Module | What it models |
|---|---|
| `Pot` | chip arithmetic (`uint64_t`, wrapping at `ChipMod`) and `Pot::Dispatch` as operators |
| `PokerRoom` | the table as a record `t`, one field per member, and each method as an operator from the table it finds to the table it leaves |
| `HoldemGame` | one room under the Texas hold'em module: the state machine, its properties, the inductive invariant |
| `HandFlow` | abstract: what a table promises about the course of a hand |
| `HoldemLoop` | `HoldemGame` under the main loop: fairness and liveness |
| `PotDivision` | `Dispatch` applied once, to a showdown of any roles, stakes and hands |
| `Lobby` | several rooms, the lobby's maps, the ClientReady barrier, disconnects, the Texas hold'em module over all rooms |
| `ReadyBarrier` | abstract: no hand begins without an answer from everybody still at the table |
| `Network` | the threads of the network engine, its queues and its mutex |
| `Framing` | one connection's byte stream, cut into packets by the receive thread |
| `Channel` | abstract: a channel of messages, in order and each once |
| `Card` | hand ranking as operators: `CalCardID`, `CompareTwoSets`, the best five of seven |
| `HandRanking` | `Card` against a reference ranking written from the rules of poker |
| `Deck` | drawing without repetition from a generator that is reseeded at every try |
| `MC...` | what the runs enumerate: orders of hands, accounts, deals, packs |
| `...Proofs` | theorems about `Pot`, `PotDivision`, `HoldemGame` (with the methods of `PokerRoom`), `Lobby`, `Network`, `Framing`, `HandRanking` (with `Card`) and `Deck` |

How they build on each other: `Pot` <- `PokerRoom` <- `HoldemGame` <-
`HoldemLoop`, and `Pot` <- `PotDivision`; `Card` <- `HandRanking`. `HoldemGame`
implements `HandFlow`, `Lobby` implements `ReadyBarrier`, `Framing` implements
`Channel`.

`HoldemGame` and `Lobby` see the same room from two sides. `HoldemGame` has all
of the betting and lets the barrier open at any time; `Lobby` has the barrier,
the members and several rooms, and lets the betting pass the turn to any seat or
end the hand. Each allows more than the other says of the part it abstracts, up to
the assumptions below; that a player is removed from a room is only in `Lobby`. `Network` takes a packet as a unit,
which `Framing` cuts out of bytes; both end where the main loop hands a packet
to a module, which is where `Lobby` and `HoldemGame` begin.

### State and actions

**`HoldemGame`** has `room` (a table), `active` (the room is in `m_ActiveGames`),
`sync` (the barrier is armed), `alive` (the process is), `owed` (a history
variable: who has not answered the last raise) and counters for the bounds.

| Action | Code |
|---|---|
| `Join` | `LobbyModule::OnJoinRoomReq`, `PokerRoom::OnAddPlayer` |
| `TakeOverGame` | first half of `TexasHoldemModule::OnUpdate`, `TakeOverGame` |
| `StartNewGameOnSync` | the barrier's callback, `PokerRoom::StartNewGame` |
| `OnPlayerActionReq` | the same, with `PokerPlayer`'s action and `PokerRoom::OnPlayerAction` |
| `Update` | second half of `TexasHoldemModule::OnUpdate`, `PokerRoom::OnUpdate` |

**`Lobby`** has every `Room` object ever created (`room`), so that one which the
lobby has erased and the module still drives is kept, as the shared pointer
keeps it; the keys of `m_Rooms`, `m_PlayerToRoom`, `m_ActiveGames` by cut room
id, and which clients are gone. Its actions are the handlers:
`OnCreateRoomReq`, `OnJoinRoomReq`, `OnReadyReq`, `ClientReady` (a packet without
a handler of its own, shown to every room), `OnPlayerActionReq`,
`OnPlayerDisconnected` and the module's `OnUpdate`, which in one step takes over
every room that is ready, drives all that are taken over, and releases those
whose hand has ended, as the code does.

**`Network`** has a program counter for each thread (`main`, `acceptor`,
`thread`), the mutex, `m_Clients`, the `joinable` thread objects, the packet
queue with the tail each producer has read (`place`), the queue of removals, and
histories of what was enqueued, handled and told. A step is what a thread does
between two accesses to what others read or write: accepting is four steps
(accept, publish under the mutex, spawn, assign), failing is two, and a removal
is front, tell, lock, join-and-erase.

**`Framing`** keeps positions, not bytes: how many arrived, how far the cursor
is, the length expected next, and the packets cut. **`Deck`** has
the number that the generator gives in this second; a try that finds its card
drawn already changes nothing, so only the last try of a draw is a step.
**`Card`** has no state: `HandRanking` deals one set of cards and computes; a loop
over the cards is its body five times, one over the choices seven times seven.

The table's methods are pure operators because the code's are: they run to
completion on one thread and their whole effect is on the table. The recursion
of `ProcessGameState` through the streets is a chain of operators
(`ThreeCards`, `RollCard`, `RiverCard`, `PotCalculation`, each given to
`CheckTurn` as what to move on to), so that one `OnPlayerAction` can carry a
table from the flop to the next hand, as in the code.

### Abstractions

* **Cards.** Which cards are dealt is not modelled, only how many common cards
  are out; how the players' hands compare is a total preorder `rank` chosen
  anew at every showdown, so a step covers every deal. That `CompareTwoSets`
  gives such an order is a theorem (`HandsAreOrdered`). `HandRanking` takes legal
  cards, none twice; that the deck deals those is one too (`DealsAreLegal`).
* **Readiness** (in `HoldemGame`). When players are ready, and when the last
  client has answered the barrier, is left open: takeover and start may happen
  whenever their other conditions hold. That allows more behaviours than the
  code has, so what holds here holds there; the barrier itself is in `Lobby`.
  Takeover and update are two steps although one `OnUpdate` does both; handlers
  between them are again more behaviours.
* **A crash** (reading through a null pot) ends all steps: `alive`.
* **Left out, since no decision reads it back**: roles, `m_BetStartIndex`,
  `m_NotifyBetIndex`, notifications other than the result, names.
* **Assumption** `MaxPlayerNumber >= 1` in `HoldemGame`: with 0, `IsFull`
  compares with -1 converted to an unsigned number. `Lobby` has such rooms: they
  take everybody, seat nobody, and never reset anybody's readiness.
* **Players** (in `Lobby`) are named by their clients, one object for each client
  and room. A client that is gone may still have packets queued, and they are
  handled (`NetworkEngine.cpp:378-400` handles packets and then removals, 50
  packets a frame). `Late` says whose requests to create or to join a room may
  be among them; left out is the case in which such a client enters a room where
  its removed player still has a seat, which would be a second object of it.
* **Accounts** (in `Lobby`) are numbers the clients send; no two send the same
  ("PlayerID unique for every account", Player.h:21). Client ids are of the same
  type and key the same maps (Room.cpp:8-29, PokerRoom.cpp:353), so an account
  may also be a client id: the client's own in the run `Rooms`, nobody's in
  `OneRoom`, anybody's in the proofs, except where a theorem says otherwise.
* **The packet queue** (in `Network`) is what a single-producer queue is to many
  producers: the tail is read, and a step later the place is filled and the tail
  set. With one producer that is atomic to everybody. Every client's thread is
  one; `raced` remembers that two were between these steps at once, after which
  the queue may lose packets or hand out what is none. `std::queue` operations
  are atomic steps; what a race may do to one is undefined and not modelled.
* **Receive** (in `Network`) reports errors only where `ErrorsSeen` is TRUE. In
  the source it does not: it answers 0 to every error and to an orderly close
  (NetworkAPI.cpp:337-343), the thread goes on, and the branches for errors
  (NetworkEngine.cpp:193-224) with the removal behind them are never taken. They
  are modelled as they are written, and `Engine` checks them with `ErrorsSeen` =
  TRUE. The source has the behaviours among these in which nothing fails, so
  what `Engine` shows holds of it too; TLC confirms it with FALSE (33,195 states). `ResetUnnoticed` and
  `TwoTalkers` have FALSE. An orderly close is a client that sends no more.
* **StopServer** (in `Network`) may come between any two frames. In the source
  only `Shutdown` calls it, which comes after a loop without an end
  (Application.cpp:17-21): again more behaviours.

## 3. The runs

| Run | Question | Size |
|---|---|---|
| `HeadsUp` | two players, two hands with a join between, stacks of two great blinds, raises, all-ins, all orders of hands | 41,623 states |
| `ThreeSeats` | three players under the main loop, a whole hand of four rounds with one raise, timeouts between any two actions; the refinement and liveness of a hand | 79,483 states |
| `Showdown` | showdowns of five players: all roles, stakes of 0, 3, 4 and 5, 102 orders of hands; and five cards in every order, seven cards of two small packs | 2,785,080 states |
| `Rooms` | two rooms, two clients who may be in both and may leave; rooms erased while they are played in | 425,420 states |
| `OneRoom` | three clients in a room for 0, 2 or 4 players, with packets of clients that are gone; that the barrier opens | 166,676 states |
| `Engine` | two connections, both sending, both of which may fail, while the server accepts, handles frames, removes and stops | 388,069 states |
| `Chunks` | three messages, sound or with a wrong length, in chunks of every size | 218,531 states |
| `Hands` | hands of five cards out of six, with a generator that changes with the clock | 1,956 states |
| `FrozenClock`, `ActionWithoutPot`, `TwoTalkers`, `ResetUnnoticed` | what the code says of itself and does not do, see below | |

The passing runs check

* of the table: `TypeOK`, and the inductive invariant `IInv` of the proofs;
  `NoStall`: a hand waits for a seated player who can act, and two can;
  `Custody`: game in progress, module's control, barrier and pot agree;
  `PotIsSumOfStakes`: the pot is what the players have staked, folded ones too;
  `ShowdownOnFullBoard`: cards decide only with five common cards out;
  `ChipsConserved`: chips vanish only as the remainder of dividing a pot among
  those who tie; `OutStaysOut`, `NobodyElsesMoney`, `RoundEndsAnswered`,
  `RoundEndsEven`, `TurnPasses`: what one step may never do to the others at the
  table; `FlowSpec`: `HoldemGame` implements `HandFlow` (the round, the turn and
  the board are read off the room); `TurnResolved`, `SilentHandEnds`: liveness;
* of the pot: `WholePotDivided`, `OutplayedGetNothing`; `OnlyTheLastIsCut`: each
  side pot is what one all-in player asks of the others in it, and only where
  they together ask for more than the pot the last one is what is left of it;
  `BestHandIsPaid`: unless they ask for all of the pot, the best hands share what
  the side pots leave;
* of the rooms: `Custody`: a room in progress is under control, under its own id;
  a barrier is armed only between takeover and hand; `DirectoryIsLive`: the lobby's maps
  lead to rooms that still have the client; `OnePlayerPerClient`;
  `EverybodySeated`: while a hand is played nobody is left waiting as an observer;
  `FreshReadiness`: when a hand ends nobody listed in the room is still ready;
  `HeldUpByLeavingOnly`: a barrier that everybody present has answered stays
  shut only because the last one to wait for has left; `BarrierSpec`: `Lobby`
  implements `ReadyBarrier`; `BarrierOpens`: liveness;
* of the network: `LostOnlyInRaces`: packets are lost, handled twice or
  overtaken only after two threads have raced in the queue; `NoThreadOutlives`,
  `ReportedGoneOnce`; `FrameEnds`: liveness;
* of the streams: `ChannelSpec`: `Framing` implements `Channel` up to the first
  message that states a wrong length; `AllCut`: liveness;
* of the cards: `FiveByTheRules`, `BestByTheRules`, but for the exceptions that
  `HandRanking` names; `NoTwoAlike`; `HandIsDealt`: liveness.

`NoStall` and `ShowdownOnFullBoard` are also parts of `IInv`, so that both tables
check them: two players and three fail them in different ways. With two the
dealer is the small blind and a fold ends the hand; with three a hand goes on
past a fold or an all-in and the scan of `CheckTurn` has somebody to skip.

Each property has a mutant in `PROJECT.json`: a plausible bug in one mapped
definition under which TLC finds the property violated. The mutated forms stand
beside the definitions, with an underscore in their names.

**Bounds.** `MaxPlayerNumber` is one more than the players who can sit
(`IsFull` is one short). `HeadsUp` stacks of 4 with blinds of 1 and 2 are gone
in two bets, so blinds that are not covered, uneven all-ins and hands that are
over before anybody acts occur in the second hand; `ThreeSeats` stacks of 8
last for four rounds, and 10 actions are one of each of three players in the first
two rounds and of the two left over in the last two (a third player folds or is
all-in by then), or three rounds of three, or fewer with a raise that all answer again. One raise suffices
to reopen a round that others have answered; timeouts come between any two
actions (`ActionTimeout` = 2 updates). `ChipMod` = 32 holds all chips of a table,
and calls and raises that are not covered wrap within it as they do in the code.
`Showdown` has five players because below that the cap of a side pot by what is
left (Pot.cpp:96) never binds: three with 5 and two all in with 4 hold 23 chips
and are asked for 24, so the second side pot is cut and there is no main pot;
with 4 and 3 the side pots are the whole pot of 18. The players are numbered by
falling stake, since `Dispatch` treats seats alike. The hands are of at most
three kinds: one best and the others of two, or all of two, in any order.

Two rooms are needed for a client to be in both, and two clients for one to stay
when the other leaves; a third client is needed for a barrier to wait for one
more (`OneRoom`). `Rooms` has account ids that are client ids, since only then
does a disconnect remove anybody from the room's map (Room.cpp:19-29); `OneRoom`
has the ids that logins give. `Rooms` creates fewer rooms than `RoomIdMod`: the
properties are about rooms whose ids differ, and what happens when they do not is
in the last table below. `Engine` has two connections so that one may be accepted
while the other sends or fails, and both may enqueue, together or in turn; a
frame of one packet so that the cap of a frame shows, and two packets so that
their order does.
`Chunks` has messages of a header alone and of a header and one byte, chunks that
end anywhere in them or reach into the next, and three messages: a sound one, a
wrong one, and one behind it. `Showdown` also has every multiset of five points with
repetitions over four points, in every order, eight sets of different points in
every order, and packs of three points with four types and six points with two.
`Hands` is a pack of six cards, so that a draw meets every number of cards that
are still in it.

**Fairness.** `HoldemLoop` assumes weak fairness of `Update` alone:
`Application::Run` updates every module in every turn of its loop, whatever the
clients do. Nothing is assumed of the players, who may stop acting at any time.
The history variable `frame` alternates with the updates, so that the fairness
also forces those that change nothing. Under it every turn is taken or taken
away (`TurnResolved`), and a hand whose players have fallen silent ends and
gives the room back (`SilentHandEnds`). Both need updates that pass time; see
the first finding. `Lobby`'s fairness is of the clients, who are not part of the
server: each gives at last the answer that a barrier waits for. That is weak
fairness of `ClientReady` while an answer is owed; it is written as `[]<>~` of
owing, which TLC checks faster. Without it nothing opens a barrier, for the code
has no timeout there. `Network` assumes that each thread runs on. `Framing`
assumes that the thread runs and that the sockets deliver what was written.
`Deck` assumes of `rand()` that every number comes again, in some second, for a
draw that needs it: a draw ends with that, and with nothing less.

### What the code does against its own words

Four runs check a statement of a comment, a message or an assertion of which TLC
finds that it does not hold (`"findings"` quotes both sides):

| Run | Statement | What happens |
|---|---|---|
| `FrozenClock` | the update forces a player who takes too long to fold | the main loop passes 0 as the time step, the timer never moves |
| `ActionWithoutPot` | there is a pot when a player has to bet | the bet index survives the hand; an action before the room is released reads a null pot |
| `TwoTalkers` | only one thread enqueues (readerwriterqueue.h:30), so `NothingLost` | every connection's thread does; two take the same place, and a packet is lost |
| `ResetUnnoticed` | a connection that was reset is logged and removed | Receive answers errors with 0, and 0 is ignored |

The modules state more of what comments, messages and names of the code say. TLC
finds these violated when they take the place of the properties of a `.cfg`:

| Statement (module) | In | What happens |
|---|---|---|
| `BetNumberIsTheRounds` (`HoldemGame`): "number each round", PokerPlayer.h:62 | `HeadsUp.cfg` | a second payment in a round overwrites it |
| `PaymentsAreCovered` (`HoldemGame`): "Ask player to add money through net", PokerPlayer.cpp:31 | `HeadsUp.cfg` | call and raise subtract without a test, and the money wraps |
| `EqualStakeTakesPart` (`PotDivision`): Pot.cpp:90 | `Showdown.cfg` | the comparison is strict |
| `SidePotIsTheExcess` (`PotDivision`): Pot.cpp:92 | `Showdown.cfg` | a side pot counts the all-in amount for each of the others |
| `RoomIdIsValid` (`Lobby`): "spare 0 for invalid room ID", Room.h:38 | `Rooms.cfg`, `RoomIdMod = 2` | the id is cut to eight bits, and a game is played in room 0; its barrier's callback would look for it under 0, find no room and dereference that |
| `RemovedHasNoSeat` (`Lobby`): "removed from PokerRoom", PokerRoom.cpp:62 | `Rooms.cfg` | a removed player is still in the seats and is dealt into the next hand |
| `RefusedOutOfTurnOnly` (`Lobby`): "not their turn", TexasHoldemModule.cpp:118 | `Rooms.cfg` | the action goes to the first of the client's rooms |
| `DirectoryIsLive`, `HeldUpByLeavingOnly` (`Lobby`) | `Rooms.cfg`, `AccountOf <- SwappedAccounts` | a client's leaving takes the other one out of the room's map |
| `EverybodySeated`, `FreshReadiness` (`Lobby`) | `Rooms.cfg`, one room for 3, four clients | where accounts are client ids, whoever leaves makes room on the list and keeps the seat; in the end somebody finds none |
| `StraightHasLevel` (`HandRanking`): Card.h:18 | `Showdown.cfg` | a straight of several types gets no level |
| `RoyalFlushInAnyOrder` (`HandRanking`): Card.h:13 | `Showdown.cfg` | whether it is one depends on the order of the cards |
| `LastCardComesOut` (`Deck`): Card.cpp:248 | `Hands.cfg`, `Drawn = 6` | `rand() % (max - min)` never gives the last card |
| `PointsInRange` (`Deck`): "1~13", Card.cpp:289 | `Hands.cfg`, `CardNum = 52`, `Drawn = 1`, `Rands = {0, 39}`, `ConfigFile <- NoFile` | the default range of the spades is one too long |
| `CardsAreLegal` (`Deck`): "illegal card", Card.cpp:292 | `Hands.cfg`, `AssertsCompiled = FALSE` | the ranges are loaded inside an assertion |

Seen while modelling, without a statement: `SetDealer` resets the roles before it
looks for the old dealer, so the first seat always deals (PokerRoom.cpp:81-89).
`SetState` clears the bet number when the hand cards are dealt, so the blinds do
not open the betting, and calling costs nothing. An all-in above the bet does not
raise the bet number. All-in players contest the whole main pot beside their own
side pots.

## 4. The proofs

TLAPS checks, for every value of the constants that the named assumptions allow:

| Theorem | Statement |
|---|---|
| `HoldemGameProofs`: `Invariant` | `Spec => []IInv` |
| `TypeCorrect`, `HandsNeverStall`, `HandsAreInCustody`, `ShowdownsAreProper` | `Spec => []` of `TypeOK`, `NoStall`, `Custody`, `ShowdownOnFullBoard` |
| `PotHoldsTheStakes`, `NoChipIsLost` | `Spec => []PotIsSumOfStakes`, `Spec => ChipsConserved` |
| `FoldsAndAllInsAreFinal`, `EverybodyIsAsked`, `BetsAreMatched`, `TurnsPass`, `OthersKeepTheirMoney` | `Spec =>` `OutStaysOut`, `RoundEndsAnswered`, `RoundEndsEven`, `TurnPasses`, `NobodyElsesMoney` |
| `KeepsFlow` | `Spec => FlowSpec`, a refinement |
| `PotProofs`: `DispatchType`, `DispatchPaysStayers`, `SomebodyWins` | `Dispatch` returns counters and proper pots, pays nobody who folded, and never divides by zero winners |
| `DispatchWhole` | the pots hold the whole pot, and what is paid is the pot but for remainders |
| `PotDivisionProofs`: `WholePot`, `TheOutplayed` | `Spec => []WholePotDivided`, `Spec => []OutplayedGetNothing` |
| `OutplayedIsUnpaid`, `WhatIsAnnounced` | what `Dispatch` pays the outplayed, and which main pot and side pots it announces, for any pot |
| `SidesAreCovered`, `BestHandPaid` | `Spec => []OnlyTheLastIsCut`, `Spec => []BestHandIsPaid`, for tables of any size |
| `LobbyProofs`: `TypeCorrect` | `Spec => []TypeOK` |
| `CustodyKept` | `Spec => []Custody`, if fewer rooms are created than `RoomID` has values |
| `KeepsBarrier` | `Spec => BarrierSpec`, a refinement, on the same condition |
| `OnePlaceEach` | `Spec => []OnePlayerPerClient` |
| `DirectoryStaysLive` | `Spec => []DirectoryIsLive`, if no account is another client's id (`AccountsOwn`) |
| `EverybodyHasASeat`, `ReadinessIsFresh` | `Spec => []EverybodySeated`, `Spec => FreshReadiness`, if no account is a client id (`AccountsApart`) |
| `HeldUpByTheLeaving` | `Spec => HeldUpByLeavingOnly`, if `AccountsOwn` and fewer rooms are created than `RoomID` has values |
| `NetworkProofs`: `TypeCorrect`, `GoneIsToldOnce`, `StopWaitsForAll` | `Spec => []` of `TypeOK`, `ReportedGoneOnce`, `NoThreadOutlives` |
| `PacketsAreHandledOnce` | `Spec => []LostOnlyInRaces`, for any number of clients that send |
| `FramingProofs`: `TypeCorrect` | `Spec => []TypeOK` |
| `ImplementsChannel` | `Spec => ChannelSpec`, a refinement, whatever lengths are stated |
| `CardProofs`: `FiveByTheRulesEver`, `BestByTheRulesEver` | `RankingSpec => []FiveByTheRules`, `RankingSpec => []BestByTheRules`, for all deals of legal cards |
| `KeepsGreatestEver` | `RankingSpec => []KeepsGreatest`: without any exception, none of the 21 hands of five is greater than the one kept |
| `HandsAreOrdered` | `CompareTwoSets` is a total preorder of all hands of five, and answers alike for both orders of its arguments |
| `StraightsHaveNoLevel` | a straight of several types has level `None`, unless it is ten to ace |
| `NoTwoAlikeEver`, `DealsAreLegal` | `Spec => []NoTwoAlike`, if the ranges of the file are sound (`SoundFile`); `Spec => []LegalDeal`, if they also make only legal cards (`LegalFile`) |

**The assumptions.** At the table: at least one seat, a modulus of at least one,
blinds that are positive chip amounts, a timeout of at least one unit, amounts
that are chip amounts, orders that are functions to natural numbers. In the
others: sets and numbers of the kinds the constants stand for; of the deals, two
and up to five different cards of the pack. Conditions that
the code does not ensure are hypotheses of the theorem and not assumptions:
`MaxRooms < RoomIdMod`, `SoundFile`, `LegalFile` (both are true of
TempServer/pokerParse.yaml with 52 cards), `AccountsOwn`, `AccountsApart`;
the last table of section 3 says what happens without them.

**The argument for a table.** `NoStall` is not inductive: that a round goes on
after an action depends on what the table looks like otherwise. `IInv` says what
a table between two handlers looks like. Either it *rests* (`Rests`: nobody is
waited for, no common cards, a result that was announced is proper, and a bet
index left by an old hand comes without a pot - which is what confines actions
between hands to the crash), or a hand *waits* in it (`Waits`: the common cards
of its state are out, there is a pot, two or more players can act and one of them
is asked, and no raise is left unprocessed). And whoever still owes an answer to
the last raise (`owed`) keeps the round open (`Owing`), which ties the history
variable to the card states and bet numbers that `CheckTurn` reads. Its other
part, `InBalance`, is the audit: while players bet the pot is the sum of their
totals, and at other times they have nothing in one.

The first part of `HoldemGameProofs` follows the code upwards. A table inside a call at the moment
`CheckTurn` decides is *in play* (`Plays`). From there: the end of a hand leaves
it at rest (`PotCalculationEnds`); a street opens with everybody owing an
answer, and either waits or, with fewer than two to ask, goes through to the end
(`NewRound`, for the river first, then the turn, then the flop); a turn
(`ActionIsHeard`, `HandGoesOn`) waits for the next player, opens the next round,
or ends the hand, and the last two only if the round is over. On the way a
method either keeps the pot the sum of the stakes (`CarriesOn`) or ends the hand,
and then the chips at the table are those of before but for what the divisions
dropped (`Settles`). The second part has one lemma per action, which shows the invariant kept and the step to be of
one of four kinds (`Resting`, `Starting`, `Ticking`, `Turning`); the action
properties and the refinement are short arguments about these kinds.

**The argument for the pot.** Sums over seats and over pots are functions on
natural numbers (`SumTo`), and the loop over the all-in players is one too. What
such a function keeps is proved by a least counterexample, once for sums (`UpTo`)
and once for the loop (`SidePotsKeep`): each theorem names the set of accounts
that one turn of the loop does not leave. For `DispatchWhole` it is the accounts
that add up: what the side pots hold and what is left is the pot, and so is what
was paid, what is left and what the divisions dropped (`Audited`). The stakes at
a table may wrap, since calls that are not covered do, so there sums are compared
modulo `ChipMod` (`Same`). For `OutplayedIsUnpaid` it is the accounts in which
the beaten player has nothing yet. For `WhatIsAnnounced` it is those in which the loop
has taken just what the players before asked for, or has run out (`Taken`): after
a cut nothing is left, so that every later side pot is empty and is not
announced, and the one that was cut is the last. No one player can ask for more
than a counter holds (`OwedFits`), since stakes times seats do not.

**The argument for the places.** That nobody has two seats, that the directory is
live and that a hand finds all seated need one invariant, `PlacesInv`. The places
of a room are its seats followed by its observers (`Places`): sitting down moves
the line between them and no one's place, joining adds one at the end, and
nothing takes one away. Each place is of a different client and the room's lists
name only clients with a place (`OnePlace`). A
disconnect looks for the client's id among the accounts of the list
(Room.cpp:27); where accounts are no client ids it finds nobody, the list stays
as long as the places, and `IsFull`, which counts the list, keeps these within
the seats (`Fits`). The
steps are of two kinds: those that change tables and leave the directory alone
(`TablesMove`, each room `Reseats`), and creating, joining and disconnecting.

**The others.** In `LobbyProofs` `Custody` is inductive once it is known what
rooms that were not created yet look like (`Unborn`); the condition on the ids
makes `m_ActiveGames`, which is keyed by the cut id, a map of rooms. In
`NetworkProofs` what a thread is doing is tied to what it has published
(`AtWork`); `Reported` follows the news of a client's end from its thread through
the queue of removals to the modules; `Accounted` says that a thread not joined yet is one
that the stop still comes to; `InLine` says that, as long
as no two threads have raced, the places from head to tail hold packets, those of
each client in order and just the ones it has enqueued and not seen handled. In `FramingProofs` the buffer begins at the next message, as
long as none so far stated a wrong length (`AtTheNext`), so that the length read
there is that message's; `Prefix` carries along which messages are before the
first wrong one. In `CardProofs` the ranges of the deck make different cards of
different numbers, and a number that was drawn is refused.

**The argument for the ranking.** There is no induction in it, for a hand has five
cards and a deal seven: the loops of `Card` run over five things in turn
(`InTurn`), those of `Calculate` over seven (`OneToSeven`), and the proof goes
through them step by step. The five strengths get names (`FiveValues`). How
many different ones there are (`Distribution`), how often each is there (`Count`)
and how many places the rules put before it (`Ahead`) are sums of five bits, which
is what makes the rest arithmetic. The order of the rules is known place by place
(`RuleOrderIs`), and as points in their places followed by those that are there
once from the highest down (`OrderBehind`), which is what the sorting functions
build. So for each number of different points, `SortPair`, `SortSitesTwoPair` and
`SortBombFullHouse` give what the rules give for any order of the cards
(`PairByRules`, `SitesTwoPairByRules`, `BombFullHouseByRules`); with five
different points the loop finds the smallest (`SmallestPoint`), and a row is the
smallest and the four above (`RowByRules`). One point alone cannot be, since it
has four cards (`HowManyPoints`). `CompareTwoSets` looks for the first place that
differs, which is comparison in lexical order (`CompareIs`) and therefore an order
(`GreaterIsOrder`). The loops of `Calculate` keep the best of the choices they
have been through (`Upto`, `LoopStep`). The invariant `Ranked` of the module only
says that the cards are a deal and that what is kept was calculated of them.

**Only model-checked.** `TurnResolved`, `SilentHandEnds`, `BarrierOpens`,
`FrameEnds`, `AllCut` and `HandIsDealt` are liveness under
fairness, which the prover does not do. All the other properties of the passing runs
are stated by theorems. What the ranking gives a straight up to the ace, and in which
order it puts an ace among five different points, no theorem says: there it
departs from the rules, and with ten and ace by the order of the cards.

## 5. Not modelled, and the plan

The plan's modules are written. What may still come:

1. The composition of `HoldemGame` with the barrier of `Lobby` for one room, in
   place of the barrier that may open at any time.
2. Players who come back to a room that still seats them.

Not modelled, by component:

* *System module*: a login is compared with a constant and a name is kept for
  each client, on which nothing but the displayed name depends.
* *Byte streams*: how fields of a payload are coded. A read past the end of a
  payload throws and nothing catches it, so that the process ends: there is no
  state after it to speak of.
* *Poker application*: the table of handlers, the names it shows, and the test on
  the console, which nothing calls.
* *Network engine and sockets*: sending (`Send` stops at a short write and drops
  the rest of the message, which its callers do not notice), the set-up of sockets, name resolution, the
  handlers of raw packets, the role of a client, which the server does not use.
* *Main loop*: that the network update comes before the modules' updates in each
  turn. `Lobby` lets packets and updates alternate in any way, which is more.
* Logging, configuration parsing, build files and vendored code.

## 6. Running it

    tlc -config HeadsUp.cfg MCHoldemGame       # ActionWithoutPot
    tlc -config ThreeSeats.cfg MCHoldemLoop    # FrozenClock
    tlc -config Showdown.cfg MCShowdown
    tlc -config Rooms.cfg MCLobby              # OneRoom
    tlc -config Engine.cfg Network             # TwoTalkers, ResetUnnoticed
    tlc -config Chunks.cfg Framing
    tlc -config Hands.cfg MCDeck
    tlapm HoldemGameProofs.tla                 # and the other ...Proofs

`ThreeSeats`, `Rooms`, `Showdown` and `Engine` take one to two minutes each, the
others less.

------------------------------ MODULE Network ------------------------------
(***************************************************************************)
(* The threads of the network engine (TempServer/src/Server/network/       *)
(* NetworkEngine.cpp): one accepts connections, one per connection         *)
(* receives, and the main loop's thread handles packets, removes clients   *)
(* and stops the server.  They share m_Clients and the connections' thread *)
(* objects under m_ClientMutex, and the packet queue and the queue of      *)
(* clients to remove without it.                                           *)
(*                                                                         *)
(* A step is what a thread does between two accesses to what others read   *)
(* or write.  Cutting packets out of the received bytes is module Framing's*)
(* subject: here a receive brings one whole packet.                        *)
(*                                                                         *)
(* Receive answers 0 for "nothing there", for every error and for a peer   *)
(* that has closed in an orderly way (NetworkAPI.cpp:177-188, 337-343),    *)
(* and the thread goes on (NetworkEngine.cpp:187-191): so in the source no *)
(* connection is ever found to have failed.  The branches for errors       *)
(* (193-224) and the removal of clients that follows from them are written *)
(* all the same, and are modelled for a Receive that reports errors.  The  *)
(* source is Spec with ErrorsSeen = FALSE; what holds of all behaviours    *)
(* with TRUE holds of it too, as these include those without any failure.  *)
(***************************************************************************)
EXTENDS Integers, Sequences, FiniteSets

CONSTANTS
  Client,          \* the ids of the connections that will be made
  Talkers,         \* the clients that send packets
  MaxPerFrame,     \* MAX_PACKETS_PER_FRAME: 50 in the source
  ErrorsSeen,      \* whether Receive reports errors: never in the source
  MaxPackets       \* bound: packets from one client

ASSUME NetworkAssumption ==
  /\ Client \subseteq Nat \ {0} /\ IsFiniteSet(Client) /\ Talkers \subseteq Client
  /\ MaxPerFrame \in Nat \ {0} /\ MaxPackets \in Nat
  /\ ErrorsSeen \in BOOLEAN

VARIABLES
  main,          \* what the main thread does next
  current,       \* the client it is removing or closing; NoClient
  processed,     \* packets handled in this frame
  acceptor,      \* what the accepting thread does next
  newcomer,      \* the connection it holds; NoClient
  listening,     \* m_Listening
  lock,          \* m_ClientMutex is held (only the main thread holds it over steps)
  clients,       \* the keys of m_Clients
  joinable,      \* connections whose recvThread holds a thread
  live,          \* connections whose active is true
  thread,        \* what each receive thread does next
  place,         \* the tail each of them read for its enqueue
  peer,          \* connections that the other end has not reset
  slot, head, tail,    \* m_PacketQueue: its places, the first taken, the first free
  removals,      \* m_RemoveClients
  enqueued,      \* history: packets each client's thread has enqueued
  given,         \* history: packets of each client that were handled
  told,          \* history: disconnects reported of each client
  raced          \* history: two threads were in the queue's enqueue at once

mainVars == <<main, current, processed>>
acceptVars == <<acceptor, newcomer>>
shared == <<listening, lock, clients, joinable>>
recvVars == <<thread, live, place, peer>>
queue == <<slot, head, tail>>
history == <<enqueued, given, told, raced>>
vars == <<mainVars, acceptVars, shared, recvVars, queue, removals, history>>

NoClient == 0
-----------------------------------------------------------------------------
(* After StartServer: where it could not listen there is no accepting      *)
(* thread, and the main loop runs all the same.                            *)
Init ==
  /\ main = "frame" /\ current = NoClient /\ processed = 0
  /\ listening \in BOOLEAN
  /\ acceptor = IF listening THEN "accept" ELSE "done"
  /\ newcomer = NoClient
  /\ lock = FALSE
  /\ clients = {} /\ joinable = {}
  /\ live = {}
  /\ thread = [c \in Client |-> "none"]
  /\ place = [c \in Client |-> 0]
  /\ peer = Client
  /\ slot = <<>> /\ head = 1 /\ tail = 1
  /\ removals = <<>>
  /\ enqueued = [c \in Client |-> 0]
  /\ given = [c \in Client |-> <<>>]
  /\ told = [c \in Client |-> 0]
  /\ raced = FALSE
-----------------------------------------------------------------------------
(* The accepting thread.                                                   *)

Accept(c) ==
  /\ acceptor = "accept" /\ listening
  /\ thread[c] = "none" /\ \A d \in Client : d < c => thread[d] # "none"
  /\ newcomer' = c /\ acceptor' = "publish"
  /\ live' = live \cup {c}
  /\ UNCHANGED <<mainVars, shared, thread, place, peer, queue, removals, history>>

(* Under the mutex. *)
Publish ==
  /\ acceptor = "publish" /\ ~lock
  /\ clients' = clients \cup {newcomer}
  /\ acceptor' = "spawn"
  /\ UNCHANGED <<mainVars, newcomer, listening, lock, joinable, recvVars, queue, removals, history>>

(* The new thread runs before recvThread holds it. *)
Spawn ==
  /\ acceptor = "spawn"
  /\ thread' = [thread EXCEPT ![newcomer] = "loop"]
  /\ acceptor' = "assign"
  /\ UNCHANGED <<mainVars, newcomer, shared, live, place, peer, queue, removals, history>>

Assign ==
  /\ acceptor = "assign"
  /\ joinable' = joinable \cup {newcomer}
  /\ newcomer' = NoClient /\ acceptor' = "accept"
  /\ UNCHANGED <<mainVars, listening, lock, clients, recvVars, queue, removals, history>>

StopAccepting ==
  /\ acceptor = "accept" /\ ~listening
  /\ acceptor' = "done"
  /\ UNCHANGED <<mainVars, newcomer, shared, recvVars, queue, removals, history>>
-----------------------------------------------------------------------------
(* The receive thread of connection c.                                     *)

To(c, step) == thread' = [thread EXCEPT ![c] = step]

(* A packet is enqueued in two steps, as the queue does it: the tail is    *)
(* read, then the place there is filled and the tail set behind it.  The   *)
(* queue is made for one thread that enqueues, and nothing keeps a second  *)
(* one out between the two.                                                *)
Receive(c) ==
  /\ thread[c] = "loop" /\ c \in live /\ c \in peer
  /\ c \in Talkers /\ enqueued[c] < MaxPackets
  /\ place' = [place EXCEPT ![c] = tail]
  /\ To(c, "enqueue")
  /\ raced' = (raced \/ \E d \in Client \ {c} : thread[d] = "enqueue")
  /\ UNCHANGED <<mainVars, acceptVars, shared, live, peer, queue, removals, enqueued, given, told>>

PutAt(i, p) == [j \in DOMAIN slot \cup {i} |-> IF j = i THEN p ELSE slot[j]]

Enqueue(c) ==
  /\ thread[c] = "enqueue"
  /\ slot' = PutAt(place[c], [client |-> c, n |-> enqueued[c] + 1])
  /\ tail' = place[c] + 1
  /\ place' = [place EXCEPT ![c] = 0]
  /\ enqueued' = [enqueued EXCEPT ![c] = @ + 1]
  /\ To(c, "loop")
  /\ UNCHANGED <<mainVars, acceptVars, shared, live, peer, head, removals, given, told, raced>>

(* The other end resets the connection.  (One that closes it is to the     *)
(* server one that sends no more.)                                         *)
PeerResets(c) ==
  /\ thread[c] # "none" /\ c \in peer
  /\ peer' = peer \ {c}
  /\ UNCHANGED <<mainVars, acceptVars, shared, thread, live, place, queue, removals, history>>

(* The branches for errors: ECONNRESET, ENOTCONN, EPIPE: deactivate, then  *)
(* ask for the removal; any other error: the other way round.  Not reached *)
(* in the source, whose Receive reports none: the thread goes on, and that *)
(* is no step.                                                             *)
Fails(c) ==
  /\ ErrorsSeen
  /\ thread[c] = "loop" /\ c \in live /\ c \notin peer
  /\ \/ live' = live \ {c} /\ UNCHANGED removals /\ To(c, "push")
     \/ removals' = Append(removals, c) /\ UNCHANGED live /\ To(c, "deactivate")
  /\ UNCHANGED <<mainVars, acceptVars, shared, place, peer, queue, history>>

Push(c) ==
  /\ thread[c] = "push"
  /\ removals' = Append(removals, c)
  /\ To(c, "close")
  /\ UNCHANGED <<mainVars, acceptVars, shared, live, place, peer, queue, history>>

Deactivate(c) ==
  /\ thread[c] = "deactivate"
  /\ live' = live \ {c}
  /\ To(c, "close")
  /\ UNCHANGED <<mainVars, acceptVars, shared, place, peer, queue, removals, history>>

LoopEnds(c) ==
  /\ thread[c] = "loop" /\ c \notin live
  /\ To(c, "close")
  /\ UNCHANGED <<mainVars, acceptVars, shared, live, place, peer, queue, removals, history>>

Close(c) ==
  /\ thread[c] = "close"
  /\ To(c, "ended")
  /\ UNCHANGED <<mainVars, acceptVars, shared, live, place, peer, queue, removals, history>>
-----------------------------------------------------------------------------
(* The main thread: OnUpdate.                                              *)

(* One packet is handed to its module.  The handlers send, for which they  *)
(* take the mutex.                                                         *)
MayDispatch == main = "frame" /\ ~lock /\ processed < MaxPerFrame /\ head # tail

Dispatch_LeavesItThere ==
  /\ MayDispatch /\ head \in DOMAIN slot
  /\ given' = [given EXCEPT ![slot[head].client] = Append(@, slot[head].n)]
  /\ processed' = processed + 1
  /\ UNCHANGED <<main, current, acceptVars, shared, recvVars, queue, removals, enqueued, told, raced>>

Dispatch ==
  /\ MayDispatch /\ head \in DOMAIN slot
  /\ given' = [given EXCEPT ![slot[head].client] = Append(@, slot[head].n)]
  /\ head' = head + 1
  /\ slot' = [i \in DOMAIN slot \ {head} |-> slot[i]]
  /\ processed' = processed + 1
  /\ UNCHANGED <<main, current, acceptVars, shared, recvVars, tail, removals, enqueued, told, raced>>

(* Threads that raced may have set the tail back behind the head.  What is *)
(* dequeued then is undefined: here it is no client's packet, and the head *)
(* stays, where the ring of the queue would bring it round again.          *)
DispatchUndefined ==
  /\ MayDispatch /\ head \notin DOMAIN slot
  /\ processed' = processed + 1
  /\ UNCHANGED <<main, current, acceptVars, shared, recvVars, queue, removals, history>>

EndOfPackets ==
  /\ main = "frame"
  /\ processed = MaxPerFrame \/ head = tail
  /\ main' = "removals"
  /\ UNCHANGED <<current, processed, acceptVars, shared, recvVars, queue, removals, history>>

FrontRemoval_UnderMutex ==
  /\ main = "removals" /\ removals # <<>> /\ ~lock
  /\ current' = Head(removals)
  /\ lock' = TRUE
  /\ main' = "tell"
  /\ UNCHANGED <<processed, acceptVars, listening, clients, joinable, recvVars, queue, removals, history>>

FrontRemoval ==
  /\ main = "removals" /\ removals # <<>>
  /\ current' = Head(removals)
  /\ main' = "tell"
  /\ UNCHANGED <<processed, acceptVars, shared, recvVars, queue, removals, history>>

(* m_OnClientDisconnectedHandler: the modules hear of it, and send. *)
TellDisconnected ==
  /\ main = "tell" /\ ~lock
  /\ told' = [told EXCEPT ![current] = @ + 1]
  /\ main' = "remove"
  /\ UNCHANGED <<current, processed, acceptVars, shared, recvVars, queue, removals, enqueued, given, raced>>

LockToRemove ==
  /\ main = "remove" /\ ~lock
  /\ lock' = TRUE
  /\ main' = "join"
  /\ UNCHANGED <<current, processed, acceptVars, listening, clients, joinable, recvVars, queue, removals, history>>

(* join() returns when the thread has ended. *)
Joined(c) == c \in joinable => thread[c] = "ended"

JoinAndErase_NoPop ==
  /\ main = "join"
  /\ Joined(current)
  /\ joinable' = joinable \ {current}
  /\ clients' = clients \ {current}
  /\ lock' = FALSE
  /\ current' = NoClient /\ main' = "removals"
  /\ UNCHANGED <<processed, acceptVars, listening, recvVars, queue, removals, history>>

JoinAndErase ==
  /\ main = "join"
  /\ Joined(current)
  /\ joinable' = joinable \ {current}
  /\ clients' = clients \ {current}
  /\ lock' = FALSE
  /\ removals' = Tail(removals)
  /\ current' = NoClient /\ main' = "removals"
  /\ UNCHANGED <<processed, acceptVars, listening, recvVars, queue, history>>

EndOfFrame ==
  /\ main = "removals" /\ removals = <<>>
  /\ processed' = 0
  /\ main' = "frame"
  /\ UNCHANGED <<current, acceptVars, shared, recvVars, queue, removals, history>>
-----------------------------------------------------------------------------
(* The main thread: StopServer.  Its only caller is Shutdown, which comes  *)
(* after the endless loop of the frames (Application.cpp:17-21): in the    *)
(* source as it is it is never called.  Here it may come between any two   *)
(* frames, or not at all.                                                  *)

StopServer_WithoutListener ==
  /\ main = "frame" /\ processed = 0
  /\ listening' = FALSE
  /\ main' = "lockToStop"
  /\ UNCHANGED <<current, processed, acceptVars, lock, clients, joinable, recvVars, queue, removals, history>>

StopServer ==
  /\ main = "frame" /\ processed = 0
  /\ listening' = FALSE
  /\ main' = "joinAcceptor"
  /\ UNCHANGED <<current, processed, acceptVars, lock, clients, joinable, recvVars, queue, removals, history>>

JoinAcceptor ==
  /\ main = "joinAcceptor" /\ acceptor = "done"
  /\ main' = "lockToStop"
  /\ UNCHANGED <<current, processed, acceptVars, shared, recvVars, queue, removals, history>>

LockToStop ==
  /\ main = "lockToStop" /\ ~lock
  /\ lock' = TRUE
  /\ main' = "closeNext"
  /\ UNCHANGED <<current, processed, acceptVars, listening, clients, joinable, recvVars, queue, removals, history>>

CloseNext(c) ==
  /\ main = "closeNext" /\ c \in clients
  /\ live' = live \ {c}
  /\ current' = c /\ main' = "joinNext"
  /\ UNCHANGED <<processed, acceptVars, shared, thread, place, peer, queue, removals, history>>

JoinNext ==
  /\ main = "joinNext"
  /\ Joined(current)
  /\ joinable' = joinable \ {current}
  /\ clients' = clients \ {current}
  /\ current' = NoClient /\ main' = "closeNext"
  /\ UNCHANGED <<processed, acceptVars, listening, lock, recvVars, queue, removals, history>>

AllClosed ==
  /\ main = "closeNext" /\ clients = {}
  /\ lock' = FALSE
  /\ main' = "stopped"
  /\ UNCHANGED <<current, processed, acceptVars, listening, clients, joinable, recvVars, queue, removals, history>>

-----------------------------------------------------------------------------
(* What the threads do of themselves, and what the clients make them do. *)
AcceptorNext == Publish \/ Spawn \/ Assign \/ StopAccepting

ReceiverNext(c) ==
  Enqueue(c) \/ Fails(c) \/ Push(c) \/ Deactivate(c) \/ LoopEnds(c) \/ Close(c)

FrameNext ==
  \/ Dispatch \/ DispatchUndefined \/ EndOfPackets \/ FrontRemoval \/ TellDisconnected
  \/ LockToRemove \/ JoinAndErase \/ EndOfFrame

StopNext ==
  \/ JoinAcceptor \/ LockToStop \/ (\E c \in Client : CloseNext(c))
  \/ JoinNext \/ AllClosed

ClientNext(c) == Accept(c) \/ Receive(c) \/ PeerResets(c)

Next ==
  \/ AcceptorNext \/ FrameNext \/ StopServer \/ StopNext
  \/ \E c \in Client : ReceiverNext(c) \/ ClientNext(c)

Spec == Init /\ [][Next]_vars

(***************************************************************************)
(* Every thread runs: the operating system schedules them all, and the     *)
(* main loop calls OnUpdate again and again.  Clients need not come, send  *)
(* or go, and the server need not stop.                                    *)
(***************************************************************************)
FairSpec ==
  /\ Spec
  /\ WF_vars(AcceptorNext) /\ WF_vars(FrameNext) /\ WF_vars(StopNext)
  /\ \A c \in Client : WF_vars(ReceiverNext(c))
-----------------------------------------------------------------------------
(* The threads' steps and the shared state are of their kinds; the mutex   *)
(* is held over several steps only while the main thread joins.            *)
TypeOK ==
  /\ main \in {"frame", "removals", "tell", "remove", "join", "joinAcceptor",
               "lockToStop", "closeNext", "joinNext", "stopped"}
  /\ current \in {NoClient} \cup Client /\ processed \in 0 .. MaxPerFrame
  /\ acceptor \in {"accept", "publish", "spawn", "assign", "done"}
  /\ newcomer \in {NoClient} \cup Client
  /\ listening \in BOOLEAN
  /\ lock \in BOOLEAN /\ (lock <=> main \in {"join", "closeNext", "joinNext"})
  /\ clients \subseteq Client /\ joinable \subseteq Client
  /\ live \subseteq Client /\ peer \subseteq Client
  /\ thread \in [Client -> {"none", "loop", "enqueue", "push", "deactivate", "close", "ended"}]
  /\ removals \in Seq(Client)
  /\ told \in [Client -> Nat] /\ enqueued \in [Client -> Nat] /\ raced \in BOOLEAN

(* Every packet a thread enqueues is handled once, after those before it   *)
(* of the same client, or is still to be found in the queue.  The queue    *)
(* promises this if "there should only be one consumer thread and producer *)
(* thread" (readerwriterqueue.h:30); every connection's thread enqueues    *)
(* (NetworkEngine.cpp:314).                                                *)
NothingLost ==
  \A c \in Client :
    LET handled == Len(given[c])
    IN  /\ given[c] = [n \in 1 .. handled |-> n]
        /\ handled <= enqueued[c]
        /\ \A n \in handled + 1 .. enqueued[c] :
             \E i \in head .. tail - 1 : slot[i] = [client |-> c, n |-> n]

(* However many threads enqueue: as long as no two have been at it at the  *)
(* same time, their packets lie between each other but none is lost, none  *)
(* handled twice and none before an earlier one of its client              *)
(* (NetworkEngine.cpp:314, 383).                                           *)
LostOnlyInRaces == raced \/ NothingLost

(* When the server has stopped no thread runs and none was forgotten: a    *)
(* connection that is being accepted is waited for, too (StopServer joins  *)
(* the listener before it looks at m_Clients, NetworkEngine.cpp:77-92).    *)
(* Only a connection that failed and was removed before its recvThread was *)
(* assigned is no longer there to be joined (lines 145-151, 326-336).      *)
NoThreadOutlives ==
  main = "stopped" =>
    /\ acceptor = "done"
    /\ \A c \in Client : told[c] = 0 => c \notin joinable /\ thread[c] \in {"none", "ended"}

(* A client is reported gone at most once, and only one whose connection   *)
(* failed (NetworkEngine.cpp:202-223, 321-336, 400-404).                   *)
ReportedGoneOnce ==
  \A c \in Client : told[c] <= 1 /\ (told[c] = 1 => c \notin peer)
-----------------------------------------------------------------------------
(* Liveness.                                                               *)

(* Every frame comes to its end, and so does a stop, although the main     *)
(* thread joins receive threads, and waits for the accepting one, while    *)
(* these may want the mutex (NetworkEngine.cpp:67-93, 326-332).            *)
FrameEnds == main # "frame" ~> main \in {"frame", "stopped"}

(* "Client {} connection reset" (NetworkEngine.cpp:202-206): a connection  *)
(* whose other end is gone is noticed, and the modules hear of it.         *)
ResetIsNoticed ==
  \A c \in Client :
    c \notin peer /\ thread[c] = "loop" ~> told[c] = 1 \/ ~listening
=============================================================================

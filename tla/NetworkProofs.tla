--------------------------- MODULE NetworkProofs ---------------------------
(***************************************************************************)
(* Proofs about module Network, for any number of connections, packets and *)
(* packets per frame: the interleavings of the threads that the runs check *)
(* for a few.                                                              *)
(***************************************************************************)
EXTENDS Network, TLAPS, SequenceTheorems

(* Whom the threads are at work for. *)
AtWork ==
  /\ main \in {"tell", "remove", "join", "joinNext"} => current \in Client
  /\ acceptor \in {"publish", "spawn", "assign"} => newcomer \in Client
  /\ acceptor \in {"publish", "spawn"} => thread[newcomer] = "none"

Waiting(queued) == {queued[i] : i \in DOMAIN queued}

(* A client is in the queue of removals once, after its thread failed and  *)
(* until it is reported gone and removed; the main thread works at the     *)
(* first one in the queue.                                                 *)
Reported ==
  /\ \A i, j \in DOMAIN removals : removals[i] = removals[j] => i = j
  /\ main \in {"tell", "remove", "join"} => removals # <<>> /\ current = removals[1]
  /\ \A c \in Client : thread[c] \in {"none", "loop", "enqueue", "push"} =>
                         told[c] = 0 /\ c \notin Waiting(removals)
  /\ \A c \in Waiting(removals) :
       told[c] = IF main \in {"remove", "join"} /\ c = removals[1] THEN 1 ELSE 0
  /\ \A c \in Client : told[c] \in {0, 1}
  /\ \A c \in Client : c \in Waiting(removals) \/ told[c] = 1 \/ thread[c] \in {"push", "deactivate"}
                         => c \notin peer

(* Every thread that runs for a client not yet reported gone is one that a *)
(* stop of the server waits for.                                           *)
Accounted ==
  /\ \A c \in Client : told[c] = 0 /\ thread[c] \notin {"none", "ended"} =>
       c \in clients /\ (c \in joinable \/ (acceptor = "assign" /\ newcomer = c))
  /\ \A c \in joinable : c \in clients \/ told[c] # 0
  /\ acceptor \in {"spawn", "assign"} => newcomer \in clients \/ told[newcomer] # 0
  /\ main \in {"lockToStop", "closeNext", "joinNext", "stopped"} => acceptor = "done"
  /\ main = "stopped" => clients = {}

(* What lies in a place of the queue: a packet not handled yet.            *)
IsPacket(p) ==
  /\ p \in [client : Client, n : Nat]
  /\ p.n > Len(given[p.client]) /\ p.n <= enqueued[p.client]

(* While no two threads have been in enqueue at once: the one that is has  *)
(* read the tail as it still is; the places from head to tail hold packets *)
(* not handled yet, those of one client in order, and all of them.         *)
InLine ==
  /\ head \in Nat /\ tail \in Nat /\ head <= tail
  /\ DOMAIN place = Client /\ given \in [Client -> Seq(Nat)]
  /\ \A c \in Client : thread[c] = "enqueue" =>
       place[c] = tail /\ \A d \in Client : thread[d] = "enqueue" => d = c
  /\ \A i \in head .. tail - 1 : i \in DOMAIN slot /\ IsPacket(slot[i])
  /\ \A i, j \in head .. tail - 1 :
       i < j /\ slot[i].client = slot[j].client => slot[i].n < slot[j].n
  /\ NothingLost

(* One more in the queue of removals. *)
LEMMA Queued ==
  ASSUME NEW q \in Seq(Client), NEW c \in Client
  PROVE  /\ Append(q, c) \in Seq(Client) /\ Append(q, c) # <<>>
         /\ Waiting(Append(q, c)) = Waiting(q) \cup {c}
         /\ q # <<>> => Append(q, c)[1] = q[1]
         /\ (\A i, j \in DOMAIN q : q[i] = q[j] => i = j) /\ c \notin Waiting(q) =>
              \A i, j \in DOMAIN Append(q, c) : Append(q, c)[i] = Append(q, c)[j] => i = j
<1> DEFINE a == Append(q, c)
           n == Len(q)
<1>1. /\ a \in Seq(Client) /\ n \in Nat /\ DOMAIN q = 1 .. n /\ DOMAIN a = 1 .. n + 1
      /\ a[n + 1] = c /\ \A i \in 1 .. n : a[i] = q[i]
  OBVIOUS
<1>2. a # <<>>
  BY <1>1
<1> HIDE DEF a, n
<1>3. Waiting(a) = Waiting(q) \cup {c}
  <2>1. \A i \in 1 .. n + 1 : i \in 1 .. n \/ i = n + 1
    BY <1>1
  <2>2. n + 1 \in 1 .. n + 1 /\ 1 .. n \subseteq 1 .. n + 1
    BY <1>1
  <2> QED
    BY <1>1, <2>1, <2>2 DEF Waiting
<1>4. q # <<>> => a[1] = q[1]
  BY <1>1
<1>5. (\A i, j \in DOMAIN q : q[i] = q[j] => i = j) /\ c \notin Waiting(q) =>
        \A i, j \in DOMAIN a : a[i] = a[j] => i = j
  BY <1>1 DEF Waiting
<1> QED
  BY <1>1, <1>2, <1>3, <1>4, <1>5 DEF a

(* One less in it. *)
LEMMA Unqueued ==
  ASSUME NEW q \in Seq(Client), q # <<>>, \A i, j \in DOMAIN q : q[i] = q[j] => i = j
  PROVE  /\ Tail(q) \in Seq(Client) /\ Head(q) = q[1] /\ q[1] \in Client
         /\ Waiting(Tail(q)) = Waiting(q) \ {q[1]}
         /\ \A i, j \in DOMAIN Tail(q) : Tail(q)[i] = Tail(q)[j] => i = j
<1>1. /\ Tail(q) \in Seq(Client) /\ Len(Tail(q)) = Len(q) - 1
      /\ \A i \in 1 .. Len(Tail(q)) : Tail(q)[i] = q[i + 1]
  BY HeadTailProperties
<1>2. Len(q) \in Nat /\ Len(q) > 0 /\ DOMAIN q = 1 .. Len(q) /\ Head(q) = q[1] /\ q[1] \in Client
  OBVIOUS
<1>3. DOMAIN Tail(q) = 1 .. Len(q) - 1
  BY <1>1
<1>4. Waiting(Tail(q)) = Waiting(q) \ {q[1]}
  <2>1. ASSUME NEW c \in Waiting(Tail(q)) PROVE c \in Waiting(q) \ {q[1]}
    <3>1. PICK i \in 1 .. Len(q) - 1 : c = q[i + 1]
      BY <1>1, <1>3 DEF Waiting
    <3>2. i + 1 \in DOMAIN q /\ 1 \in DOMAIN q /\ i + 1 # 1
      BY <1>2
    <3> QED
      BY <3>1, <3>2 DEF Waiting
  <2>2. ASSUME NEW c \in Waiting(q) \ {q[1]} PROVE c \in Waiting(Tail(q))
    <3>1. PICK i \in DOMAIN q : c = q[i]
      BY DEF Waiting
    <3>2. i - 1 \in 1 .. Len(q) - 1 /\ (i - 1) + 1 = i
      BY <1>2, <3>1
    <3>3. Tail(q)[i - 1] = c
      BY <1>1, <3>1, <3>2
    <3> QED
      BY <1>3, <3>2, <3>3 DEF Waiting
  <2> QED
    BY <2>1, <2>2
<1>5. \A i, j \in DOMAIN Tail(q) : Tail(q)[i] = Tail(q)[j] => i = j
  <2> SUFFICES ASSUME NEW i \in 1 .. Len(q) - 1, NEW j \in 1 .. Len(q) - 1, q[i + 1] = q[j + 1]
               PROVE  i = j
    BY <1>1, <1>3
  <2>1. i + 1 \in DOMAIN q /\ j + 1 \in DOMAIN q
    BY <1>2
  <2> QED
    BY <2>1
<1> QED
  BY <1>1, <1>2, <1>4, <1>5
-----------------------------------------------------------------------------
(* The types, action by action. *)
LEMMA TypeNext ==
  ASSUME TypeOK, AtWork, Reported, [Next]_vars
  PROVE  TypeOK' /\ AtWork'
<1> USE DEF vars, mainVars, acceptVars, shared, recvVars, queue, history
<1>1. CASE Publish
  BY <1>1 DEF Publish, TypeOK, AtWork
<1>2. CASE Spawn
  BY <1>2 DEF Spawn, TypeOK, AtWork
<1>3. CASE Assign
  BY <1>3 DEF Assign, TypeOK, AtWork
<1>4. CASE StopAccepting
  BY <1>4 DEF StopAccepting, TypeOK, AtWork
<1>5. CASE Dispatch
  BY <1>5, NetworkAssumption DEF Dispatch, MayDispatch, TypeOK, AtWork
<1>6. CASE EndOfPackets
  BY <1>6 DEF EndOfPackets, TypeOK, AtWork
<1>7. CASE FrontRemoval
  BY <1>7, HeadTailProperties DEF FrontRemoval, TypeOK, AtWork
<1>8. CASE TellDisconnected
  BY <1>8 DEF TellDisconnected, TypeOK, AtWork
<1>9. CASE LockToRemove
  BY <1>9 DEF LockToRemove, TypeOK, AtWork
<1>10. CASE JoinAndErase
  <2>1. lock' = FALSE /\ main' = "removals"
    BY <1>10 DEF JoinAndErase
  <2>2. removals' \in Seq(Client)
    <3>1. removals # <<>>
      BY <1>10 DEF JoinAndErase, Reported
    <3> QED
      BY <1>10, <3>1, HeadTailProperties DEF JoinAndErase, TypeOK
  <2>3. AtWork'
    BY <1>10 DEF JoinAndErase, AtWork
  <2> QED
    BY <1>10, <2>1, <2>2, <2>3 DEF JoinAndErase, TypeOK
<1>11. CASE EndOfFrame
  BY <1>11, NetworkAssumption DEF EndOfFrame, TypeOK, AtWork
<1>12. CASE StopServer
  BY <1>12 DEF StopServer, TypeOK, AtWork
<1>13. CASE JoinAcceptor
  BY <1>13 DEF JoinAcceptor, TypeOK, AtWork
<1>14. CASE LockToStop
  BY <1>14 DEF LockToStop, TypeOK, AtWork
<1>15. CASE JoinNext
  BY <1>15 DEF JoinNext, TypeOK, AtWork
<1>16. CASE AllClosed
  BY <1>16 DEF AllClosed, TypeOK, AtWork
<1>17. CASE \E c \in Client : CloseNext(c)
  BY <1>17 DEF CloseNext, To, TypeOK, AtWork
<1>18. CASE \E c \in Client : Enqueue(c)
  BY <1>18 DEF Enqueue, To, TypeOK, AtWork
<1>19. CASE \E c \in Client : Fails(c)
  <2>1. removals' \in Seq(Client) /\ live' \subseteq Client
    BY <1>19, Queued DEF Fails, TypeOK
  <2>2. AtWork'
    BY <1>19 DEF Fails, To, AtWork, TypeOK
  <2>3. thread' \in [Client -> {"none", "loop", "enqueue", "push", "deactivate", "close", "ended"}]
    BY <1>19 DEF Fails, To, TypeOK
  <2>4. UNCHANGED <<main, current, processed, acceptor, newcomer, listening, lock, clients, joinable, peer,
                   enqueued, told, raced>>
    BY <1>19 DEF Fails
  <2> QED
    BY <2>1, <2>2, <2>3, <2>4 DEF TypeOK
<1>20. CASE \E c \in Client : Push(c)
  BY <1>20 DEF Push, To, TypeOK, AtWork
<1>21. CASE \E c \in Client : Deactivate(c)
  BY <1>21 DEF Deactivate, To, TypeOK, AtWork
<1>22. CASE \E c \in Client : LoopEnds(c)
  BY <1>22 DEF LoopEnds, To, TypeOK, AtWork
<1>23. CASE \E c \in Client : Close(c)
  BY <1>23 DEF Close, To, TypeOK, AtWork
<1>24. CASE \E c \in Client : Accept(c)
  BY <1>24 DEF Accept, To, TypeOK, AtWork
<1>25. CASE \E c \in Client : Receive(c)
  BY <1>25 DEF Receive, To, TypeOK, AtWork
<1>26. CASE \E c \in Client : PeerResets(c)
  BY <1>26 DEF PeerResets, To, TypeOK, AtWork
<1>27. CASE UNCHANGED vars
  BY <1>27 DEF TypeOK, AtWork
<1>28. CASE DispatchUndefined
  BY <1>28, NetworkAssumption DEF DispatchUndefined, MayDispatch, TypeOK, AtWork
<1> QED
  BY <1>1, <1>2, <1>3, <1>4, <1>5, <1>6, <1>7, <1>8, <1>9, <1>10, <1>11, <1>12, <1>13,
     <1>14, <1>15, <1>16, <1>17, <1>18, <1>19, <1>20, <1>21, <1>22, <1>23, <1>24, <1>25,
     <1>26, <1>27, <1>28
  DEF Next, AcceptorNext, FrameNext, StopNext, ReceiverNext, ClientNext

(* Disconnects are reported of those who failed, once. *)
LEMMA ReportedNext ==
  ASSUME TypeOK, AtWork, Reported, [Next]_vars
  PROVE  Reported'
<1> USE DEF vars, mainVars, acceptVars, shared, recvVars, queue, history
<1>1. CASE Publish
  BY <1>1 DEF Publish, TypeOK, AtWork, Reported
<1>2. CASE Spawn
  BY <1>2 DEF Spawn, TypeOK, AtWork, Reported
<1>3. CASE Assign
  BY <1>3 DEF Assign, TypeOK, AtWork, Reported
<1>4. CASE StopAccepting
  BY <1>4 DEF StopAccepting, TypeOK, AtWork, Reported
<1>5. CASE Dispatch
  BY <1>5 DEF Dispatch, MayDispatch, TypeOK, AtWork, Reported
<1>6. CASE EndOfPackets
  BY <1>6 DEF EndOfPackets, TypeOK, AtWork, Reported
<1>7. CASE FrontRemoval
  BY <1>7 DEF FrontRemoval, TypeOK, AtWork, Reported
<1>8. CASE TellDisconnected
  <2>1. /\ main = "tell" /\ main' = "remove" /\ told' = [told EXCEPT ![current] = @ + 1]
        /\ UNCHANGED <<current, thread, peer, removals>>
    BY <1>8 DEF TellDisconnected
  <2>2. removals # <<>> /\ current = removals[1] /\ current \in Client
    BY <2>1 DEF Reported, AtWork
  <2>3. current \in Waiting(removals)
    BY <2>2 DEF Waiting, TypeOK
  <2>4. told[current] = 0
    BY <2>1, <2>3 DEF Reported
  <2>5. told'[current] = 1 /\ \A c \in Client \ {current} : told'[c] = told[c]
    BY <2>1, <2>2, <2>4 DEF TypeOK
  <2>6. Waiting(removals) \subseteq Client
    BY DEF Waiting, TypeOK
  <2> QED
    BY <2>1, <2>2, <2>3, <2>5, <2>6 DEF Reported
<1>9. CASE LockToRemove
  BY <1>9 DEF LockToRemove, TypeOK, AtWork, Reported
<1>10. CASE JoinAndErase
  <2>1. /\ main = "join" /\ main' = "removals" /\ removals' = Tail(removals)
        /\ UNCHANGED <<told, thread, peer>>
    BY <1>10 DEF JoinAndErase
  <2>2. /\ removals \in Seq(Client) /\ removals # <<>>
        /\ \A i, j \in DOMAIN removals : removals[i] = removals[j] => i = j
    BY <2>1 DEF Reported, TypeOK
  <2>3. /\ Waiting(removals') = Waiting(removals) \ {removals[1]}
        /\ \A i, j \in DOMAIN removals' : removals'[i] = removals'[j] => i = j
        /\ removals[1] \in Client /\ removals[1] \in Waiting(removals)
    <3>1. /\ Waiting(Tail(removals)) = Waiting(removals) \ {removals[1]}
          /\ \A i, j \in DOMAIN Tail(removals) : Tail(removals)[i] = Tail(removals)[j] => i = j
          /\ removals[1] \in Client
      BY <2>2, Unqueued
    <3>2. 1 \in DOMAIN removals
      BY <2>2
    <3>3. removals[1] \in Waiting(removals)
      BY <3>2 DEF Waiting
    <3> QED
      BY <2>1, <3>1, <3>3
  <2>4. told[removals[1]] = 1
    BY <2>1, <2>3 DEF Reported
  <2> QED
    BY <2>1, <2>3, <2>4 DEF Reported
<1>11. CASE EndOfFrame
  BY <1>11 DEF EndOfFrame, TypeOK, AtWork, Reported
<1>12. CASE StopServer
  BY <1>12 DEF StopServer, TypeOK, AtWork, Reported
<1>13. CASE JoinAcceptor
  BY <1>13 DEF JoinAcceptor, TypeOK, AtWork, Reported
<1>14. CASE LockToStop
  BY <1>14 DEF LockToStop, TypeOK, AtWork, Reported
<1>15. CASE JoinNext
  BY <1>15 DEF JoinNext, TypeOK, AtWork, Reported
<1>16. CASE AllClosed
  BY <1>16 DEF AllClosed, TypeOK, AtWork, Reported
<1>17. CASE \E c \in Client : CloseNext(c)
  BY <1>17 DEF CloseNext, To, TypeOK, AtWork, Reported
<1>18. CASE \E c \in Client : Enqueue(c)
  BY <1>18 DEF Enqueue, To, TypeOK, AtWork, Reported
<1>19. CASE \E c \in Client : Fails(c)
  <2> PICK d \in Client : Fails(d)
    BY <1>19
  <2>1. thread[d] = "loop" /\ d \notin peer /\ UNCHANGED <<main, current, told, peer>>
    BY DEF Fails
  <2>2. removals \in Seq(Client) /\ d \notin Waiting(removals) /\ told[d] = 0
    BY <2>1 DEF Reported, TypeOK
  <2>3. CASE removals' = removals /\ thread' = [thread EXCEPT ![d] = "push"]
    <3>1. thread'[d] = "push" /\ \A c \in Client \ {d} : thread'[c] = thread[c]
      BY <2>3 DEF TypeOK
    <3> QED
      BY <2>1, <2>2, <2>3, <3>1 DEF Reported
  <2>4. CASE removals' = Append(removals, d) /\ thread' = [thread EXCEPT ![d] = "deactivate"]
    <3>1. /\ Waiting(removals') = Waiting(removals) \cup {d} /\ removals' # <<>>
          /\ removals # <<>> => removals'[1] = removals[1]
          /\ \A i, j \in DOMAIN removals' : removals'[i] = removals'[j] => i = j
      BY <2>2, <2>4, Queued DEF Reported
    <3>2. thread'[d] = "deactivate" /\ \A c \in Client \ {d} : thread'[c] = thread[c]
      BY <2>4 DEF TypeOK
    <3>3. main \in {"remove", "join"} => removals # <<>> /\ removals[1] \in Waiting(removals)
      BY <2>2 DEF Reported, Waiting
    <3> QED
      BY <2>1, <2>2, <3>1, <3>2, <3>3 DEF Reported
  <2> QED
    BY <2>3, <2>4 DEF Fails, To
<1>20. CASE \E c \in Client : Push(c)
  <2> PICK d \in Client : Push(d)
    BY <1>20
  <2>1. /\ thread[d] = "push" /\ removals' = Append(removals, d)
        /\ thread' = [thread EXCEPT ![d] = "close"]
        /\ UNCHANGED <<main, current, told, peer>>
    BY DEF Push, To
  <2>2. removals \in Seq(Client) /\ d \notin Waiting(removals) /\ told[d] = 0 /\ d \notin peer
    BY <2>1 DEF Reported, TypeOK
  <2>3. /\ Waiting(removals') = Waiting(removals) \cup {d} /\ removals' # <<>>
        /\ removals # <<>> => removals'[1] = removals[1]
        /\ \A i, j \in DOMAIN removals' : removals'[i] = removals'[j] => i = j
    BY <2>1, <2>2, Queued DEF Reported
  <2>4. thread'[d] = "close" /\ \A c \in Client \ {d} : thread'[c] = thread[c]
    BY <2>1 DEF TypeOK
  <2>5. main \in {"remove", "join"} => removals # <<>> /\ removals[1] \in Waiting(removals)
    BY <2>2 DEF Reported, Waiting
  <2> QED
    BY <2>1, <2>2, <2>3, <2>4, <2>5 DEF Reported
<1>21. CASE \E c \in Client : Deactivate(c)
  BY <1>21 DEF Deactivate, To, TypeOK, AtWork, Reported
<1>22. CASE \E c \in Client : LoopEnds(c)
  BY <1>22 DEF LoopEnds, To, TypeOK, AtWork, Reported
<1>23. CASE \E c \in Client : Close(c)
  BY <1>23 DEF Close, To, TypeOK, AtWork, Reported
<1>24. CASE \E c \in Client : Accept(c)
  BY <1>24 DEF Accept, To, TypeOK, AtWork, Reported
<1>25. CASE \E c \in Client : Receive(c)
  BY <1>25 DEF Receive, To, TypeOK, AtWork, Reported
<1>26. CASE \E c \in Client : PeerResets(c)
  BY <1>26 DEF PeerResets, To, TypeOK, AtWork, Reported
<1>27. CASE UNCHANGED vars
  BY <1>27 DEF TypeOK, AtWork, Reported
<1>28. CASE DispatchUndefined
  BY <1>28 DEF DispatchUndefined, MayDispatch, TypeOK, AtWork, Reported
<1> QED
  BY <1>1, <1>2, <1>3, <1>4, <1>5, <1>6, <1>7, <1>8, <1>9, <1>10, <1>11, <1>12, <1>13,
     <1>14, <1>15, <1>16, <1>17, <1>18, <1>19, <1>20, <1>21, <1>22, <1>23, <1>24, <1>25,
     <1>26, <1>27, <1>28
  DEF Next, AcceptorNext, FrameNext, StopNext, ReceiverNext, ClientNext

(* No thread is lost sight of. *)
LEMMA AccountedNext ==
  ASSUME TypeOK, AtWork, Reported, Accounted, [Next]_vars
  PROVE  Accounted'
<1> USE DEF vars, mainVars, acceptVars, shared, recvVars, queue, history
<1>1. CASE Publish
  BY <1>1 DEF Publish, TypeOK, AtWork, Accounted, Joined
<1>2. CASE Spawn
  BY <1>2 DEF Spawn, TypeOK, AtWork, Accounted, Joined
<1>3. CASE Assign
  <2>1. /\ acceptor = "assign" /\ acceptor' = "accept" /\ joinable' = joinable \cup {newcomer}
        /\ UNCHANGED <<main, removals, thread, clients, told>>
    BY <1>3 DEF Assign
  <2>2. newcomer \in clients \/ told[newcomer] # 0
    BY <2>1 DEF Accounted
  <2> QED
    BY <2>1, <2>2 DEF Accounted
<1>4. CASE StopAccepting
  BY <1>4 DEF StopAccepting, TypeOK, AtWork, Accounted, Joined
<1>5. CASE Dispatch
  BY <1>5 DEF Dispatch, MayDispatch, TypeOK, AtWork, Accounted, Joined
<1>6. CASE EndOfPackets
  BY <1>6 DEF EndOfPackets, TypeOK, AtWork, Accounted, Joined
<1>7. CASE FrontRemoval
  BY <1>7 DEF FrontRemoval, TypeOK, AtWork, Accounted, Joined
<1>8. CASE TellDisconnected
  BY <1>8 DEF TellDisconnected, TypeOK, AtWork, Accounted, Joined
<1>9. CASE LockToRemove
  BY <1>9 DEF LockToRemove, TypeOK, AtWork, Accounted, Joined
<1>10. CASE JoinAndErase
  <2>1. main = "join" /\ main' = "removals" /\ Joined(current)
        /\ joinable' = joinable \ {current} /\ clients' = clients \ {current}
        /\ UNCHANGED <<acceptor, newcomer, thread, told>>
    BY <1>10 DEF JoinAndErase
  <2>2. told[current] = 1
    <3>1. removals # <<>> /\ current = removals[1]
      BY <2>1 DEF Reported
    <3>2. 1 \in DOMAIN removals
      BY <3>1 DEF TypeOK
    <3> QED
      BY <2>1, <3>1, <3>2 DEF Reported, Waiting
  <2> QED
    BY <2>1, <2>2 DEF TypeOK, AtWork, Accounted
<1>11. CASE EndOfFrame
  BY <1>11 DEF EndOfFrame, TypeOK, AtWork, Accounted, Joined
<1>12. CASE StopServer
  BY <1>12 DEF StopServer, TypeOK, AtWork, Accounted, Joined
<1>13. CASE JoinAcceptor
  BY <1>13 DEF JoinAcceptor, TypeOK, AtWork, Accounted, Joined
<1>14. CASE LockToStop
  BY <1>14 DEF LockToStop, TypeOK, AtWork, Accounted, Joined
<1>15. CASE JoinNext
  BY <1>15 DEF JoinNext, TypeOK, AtWork, Accounted, Joined
<1>16. CASE AllClosed
  BY <1>16 DEF AllClosed, TypeOK, AtWork, Accounted, Joined
<1>17. CASE \E c \in Client : CloseNext(c)
  BY <1>17 DEF CloseNext, To, TypeOK, AtWork, Accounted, Joined
<1>18. CASE \E c \in Client : Enqueue(c)
  BY <1>18 DEF Enqueue, To, TypeOK, AtWork, Accounted, Joined
<1>19. CASE \E c \in Client : Fails(c)
  BY <1>19 DEF Fails, To, TypeOK, AtWork, Accounted, Joined
<1>20. CASE \E c \in Client : Push(c)
  BY <1>20 DEF Push, To, TypeOK, AtWork, Accounted
<1>21. CASE \E c \in Client : Deactivate(c)
  BY <1>21 DEF Deactivate, To, TypeOK, AtWork, Accounted, Joined
<1>22. CASE \E c \in Client : LoopEnds(c)
  BY <1>22 DEF LoopEnds, To, TypeOK, AtWork, Accounted, Joined
<1>23. CASE \E c \in Client : Close(c)
  BY <1>23 DEF Close, To, TypeOK, AtWork, Accounted, Joined
<1>24. CASE \E c \in Client : Accept(c)
  <2>1. /\ acceptor = "accept" /\ acceptor' = "publish"
        /\ UNCHANGED <<main, removals, thread, clients, joinable, told>>
    BY <1>24 DEF Accept
  <2> QED
    BY <2>1 DEF Accounted
<1>25. CASE \E c \in Client : Receive(c)
  BY <1>25 DEF Receive, To, TypeOK, AtWork, Accounted, Joined
<1>26. CASE \E c \in Client : PeerResets(c)
  BY <1>26 DEF PeerResets, To, TypeOK, AtWork, Accounted, Joined
<1>27. CASE UNCHANGED vars
  BY <1>27 DEF TypeOK, AtWork, Accounted, Joined
<1>28. CASE DispatchUndefined
  BY <1>28 DEF DispatchUndefined, MayDispatch, TypeOK, AtWork, Accounted, Joined
<1> QED
  BY <1>1, <1>2, <1>3, <1>4, <1>5, <1>6, <1>7, <1>8, <1>9, <1>10, <1>11, <1>12, <1>13,
     <1>14, <1>15, <1>16, <1>17, <1>18, <1>19, <1>20, <1>21, <1>22, <1>23, <1>24, <1>25,
     <1>26, <1>27, <1>28
  DEF Next, AcceptorNext, FrameNext, StopNext, ReceiverNext, ClientNext

(* The head of the queue is the next packet of its client.                 *)
LEMMA HeadIsNext ==
  ASSUME TypeOK, InLine, head # tail
  PROVE  LET c == slot[head].client
         IN  c \in Client /\ head \in head .. tail - 1 /\ slot[head].n = Len(given[c]) + 1
<1> DEFINE c == slot[head].client
           m == slot[head].n
           k == Len(given[c])
<1>1. head \in head .. tail - 1 /\ head \in Nat /\ tail \in Nat
  BY DEF InLine
<1>2. c \in Client /\ m \in Nat /\ m > k /\ m <= enqueued[c]
  BY <1>1 DEF InLine, IsPacket
<1>3. k \in Nat /\ enqueued[c] \in Nat
  BY <1>2 DEF InLine, TypeOK
<1>4. k + 1 \in k + 1 .. enqueued[c]
  <2> HIDE DEF k, m
  <2> QED
    BY <1>2, <1>3
<1>5. PICK i \in head .. tail - 1 : slot[i] = [client |-> c, n |-> k + 1]
  BY <1>2, <1>4 DEF InLine, NothingLost
<1>6. CASE i # head
  <2>1. head < i
    BY <1>1, <1>6
  <2>2. slot[i].client = c /\ slot[i].n = k + 1
    BY <1>5
  <2>3. m < k + 1
    BY <1>1, <2>1, <2>2 DEF InLine
  <2> HIDE DEF m, k
  <2> QED
    BY <1>2, <1>3, <2>3
<1>7. CASE i = head
  <2>1. slot[i].n = k + 1
    <3> HIDE DEF c, k
    <3> QED
      BY <1>5
  <2> QED
    BY <1>1, <1>2, <1>7, <2>1
<1> QED
  BY <1>1, <1>2, <1>6, <1>7

(* Handling it keeps the rest in line. *)
LEMMA DispatchInLine ==
  ASSUME TypeOK, InLine, Dispatch
  PROVE  InLine'
<1> DEFINE c == slot[head].client
           k == Len(given[c])
<1>1. /\ head # tail /\ head' = head + 1 /\ tail' = tail /\ thread' = thread /\ place' = place
      /\ enqueued' = enqueued /\ slot' = [i \in DOMAIN slot \ {head} |-> slot[i]]
      /\ given' = [given EXCEPT ![c] = Append(@, slot[head].n)]
  BY DEF Dispatch, MayDispatch, recvVars
<1>2. c \in Client /\ head \in head .. tail - 1 /\ slot[head].n = k + 1
  BY <1>1, HeadIsNext
<1>3. head \in Nat /\ tail \in Nat /\ head <= tail /\ given \in [Client -> Seq(Nat)]
      /\ enqueued \in [Client -> Nat]
  BY DEF InLine, TypeOK
<1>4. k \in Nat /\ given[c] \in Seq(Nat) /\ given[c] = [n \in 1 .. k |-> n] /\ k < enqueued[c]
      /\ enqueued[c] \in Nat
  <2>1. k \in Nat /\ given[c] \in Seq(Nat) /\ enqueued[c] \in Nat
    BY <1>2, <1>3
  <2>2. given[c] = [n \in 1 .. k |-> n]
    BY <1>2 DEF InLine, NothingLost
  <2>3. k + 1 <= enqueued[c]
    BY <1>2 DEF InLine, IsPacket
  <2> HIDE DEF k
  <2> QED
    BY <2>1, <2>2, <2>3
<1>5. /\ given'[c] = Append(given[c], k + 1) /\ \A d \in Client \ {c} : given'[d] = given[d]
      /\ given' \in [Client -> Seq(Nat)]
  <2>1. Append(given[c], k + 1) \in Seq(Nat)
    BY <1>4
  <2> HIDE DEF c, k
  <2> QED
    BY <1>1, <1>2, <1>3, <2>1
<1>6. Len(given'[c]) = k + 1 /\ given'[c] = [n \in 1 .. k + 1 |-> n]
  BY <1>4, <1>5
<1> HIDE DEF c, k
<1>7. \A i \in head + 1 .. tail - 1 :
        /\ i \in head .. tail - 1 /\ i \in DOMAIN slot' /\ slot'[i] = slot[i] /\ head < i
  <2> SUFFICES ASSUME NEW i \in head + 1 .. tail - 1
               PROVE  /\ i \in head .. tail - 1 /\ i \in DOMAIN slot' /\ slot'[i] = slot[i]
                      /\ head < i
    OBVIOUS
  <2>1. i \in head .. tail - 1 /\ i # head /\ head < i
    BY <1>3
  <2>2. i \in DOMAIN slot
    BY <2>1 DEF InLine
  <2> QED
    BY <1>1, <2>1, <2>2
<1>8. ASSUME NEW i \in head + 1 .. tail - 1 PROVE i \in DOMAIN slot' /\ IsPacket(slot[i])'
  <2>1. i \in head .. tail - 1 /\ i \in DOMAIN slot' /\ slot'[i] = slot[i] /\ head < i
    BY <1>7
  <2>2. IsPacket(slot[i])
    BY <2>1 DEF InLine
  <2>3. slot[i].client = c => slot[i].n > k + 1
    <3>1. slot[i].client = c => slot[head].n < slot[i].n
      BY <1>2, <2>1 DEF InLine, c
    <3>2. slot[i].n \in Nat
      BY <2>2 DEF IsPacket
    <3> QED
      BY <1>2, <1>4, <3>1, <3>2
  <2>4. slot[i].client # c => given'[slot[i].client] = given[slot[i].client]
    BY <1>5, <2>2 DEF IsPacket
  <2>5. slot[i].n > Len(given'[slot[i].client])
    BY <1>6, <2>2, <2>3, <2>4 DEF IsPacket
  <2> QED
    BY <1>1, <2>1, <2>2, <2>5 DEF IsPacket
<1>9. \A i, j \in head + 1 .. tail - 1 :
        i < j /\ slot'[i].client = slot'[j].client => slot'[i].n < slot'[j].n
  BY <1>7 DEF InLine
<1>10. ASSUME NEW d \in Client
       PROVE  /\ given'[d] = [n \in 1 .. Len(given'[d]) |-> n]
              /\ Len(given'[d]) <= enqueued[d]
              /\ \A n \in Len(given'[d]) + 1 .. enqueued[d] :
                   \E i \in head + 1 .. tail - 1 : slot'[i] = [client |-> d, n |-> n]
  <2>1. /\ given[d] = [n \in 1 .. Len(given[d]) |-> n]
        /\ Len(given[d]) <= enqueued[d]
        /\ \A n \in Len(given[d]) + 1 .. enqueued[d] :
             \E i \in head .. tail - 1 : slot[i] = [client |-> d, n |-> n]
    BY DEF InLine, NothingLost
  <2>2. ASSUME NEW n \in Len(given'[d]) + 1 .. enqueued[d]
        PROVE  \E i \in head + 1 .. tail - 1 : slot'[i] = [client |-> d, n |-> n]
    <3>1. Len(given[d]) \in Nat /\ enqueued[d] \in Nat
      BY <1>3
    <3>2. n \in Len(given[d]) + 1 .. enqueued[d] /\ (d = c => n # k + 1)
      <4>1. CASE d = c
        <5>1. n \in (k + 1) + 1 .. enqueued[d] /\ Len(given[d]) = k
          BY <1>6, <4>1 DEF k
        <5> QED
          BY <1>4, <3>1, <5>1
      <4>2. CASE d # c
        BY <1>5, <4>2
      <4> QED
        BY <4>1, <4>2
    <3>3. PICK i \in head .. tail - 1 : slot[i] = [client |-> d, n |-> n]
      BY <2>1, <3>2
    <3>4. i # head
      BY <1>2, <3>2, <3>3 DEF c
    <3>5. i \in head + 1 .. tail - 1
      BY <1>3, <3>4
    <3> QED
      BY <1>7, <3>3, <3>5
  <2>3. CASE d = c
    BY <1>4, <1>6, <2>2, <2>3
  <2>4. CASE d # c
    BY <1>5, <2>1, <2>2, <2>4
  <2> QED
    BY <2>3, <2>4
<1>11. NothingLost'
  BY <1>1, <1>10 DEF NothingLost
<1>12. head' \in Nat /\ tail' \in Nat /\ head' <= tail'
  BY <1>1, <1>2, <1>3
<1>13. /\ DOMAIN place' = Client
       /\ \A d \in Client : thread'[d] = "enqueue" =>
            place'[d] = tail' /\ \A e \in Client : thread'[e] = "enqueue" => e = d
  BY <1>1 DEF InLine
<1> QED
  BY <1>1, <1>5, <1>8, <1>9, <1>11, <1>12, <1>13 DEF InLine

(* A thread that enqueues alone puts its packet behind all others. *)
LEMMA EnqueueInLine ==
  ASSUME TypeOK, InLine, NEW c \in Client, Enqueue(c)
  PROVE  InLine'
<1> DEFINE p == [client |-> c, n |-> enqueued[c] + 1]
<1>1. /\ thread[c] = "enqueue" /\ place[c] = tail
      /\ \A d \in Client : thread[d] = "enqueue" => d = c
  BY DEF Enqueue, InLine
<1>2. /\ slot' = PutAt(tail, p) /\ tail' = tail + 1 /\ head' = head /\ given' = given
      /\ place' = [place EXCEPT ![c] = 0]
      /\ enqueued' = [enqueued EXCEPT ![c] = @ + 1]
      /\ thread' = [thread EXCEPT ![c] = "loop"]
  BY <1>1 DEF Enqueue, To
<1>3. /\ head \in Nat /\ tail \in Nat /\ head <= tail /\ DOMAIN place = Client
      /\ given \in [Client -> Seq(Nat)] /\ enqueued \in [Client -> Nat]
  BY DEF InLine, TypeOK
<1>4. /\ enqueued'[c] = enqueued[c] + 1 /\ \A d \in Client \ {c} : enqueued'[d] = enqueued[d]
      /\ \A d \in Client : enqueued[d] \in Nat /\ Len(given[d]) \in Nat
  BY <1>2, <1>3
<1>5. \A d \in Client : thread'[d] # "enqueue"
  BY <1>1, <1>2 DEF TypeOK
<1>6. /\ tail \in DOMAIN slot' /\ slot'[tail] = p
      /\ \A i \in head .. tail - 1 : i \in DOMAIN slot' /\ slot'[i] = slot[i]
  BY <1>2, <1>3 DEF PutAt, InLine
<1>7. \A i \in head .. tail : i = tail \/ i \in head .. tail - 1
  BY <1>3
<1>8. ASSUME NEW i \in head .. tail PROVE i \in DOMAIN slot' /\ IsPacket(slot[i])'
  <2>1. CASE i = tail
    <3>1. p \in [client : Client, n : Nat] /\ p.client = c /\ p.n = enqueued[c] + 1
      BY <1>4
    <3>2. Len(given[c]) <= enqueued[c]
      BY DEF InLine, NothingLost
    <3>3. p.n > Len(given'[c]) /\ p.n <= enqueued'[c]
      BY <1>2, <1>4, <3>1, <3>2
    <3>4. slot'[i] = p /\ i \in DOMAIN slot'
      BY <1>6, <2>1
    <3> HIDE DEF p
    <3> QED
      BY <3>1, <3>3, <3>4 DEF IsPacket
  <2>2. CASE i \in head .. tail - 1
    <3>1. i \in DOMAIN slot' /\ slot'[i] = slot[i] /\ IsPacket(slot[i])
      BY <1>6, <2>2 DEF InLine
    <3>2. slot[i].n <= enqueued'[slot[i].client]
      BY <1>4, <3>1 DEF IsPacket
    <3> QED
      BY <1>2, <3>1, <3>2 DEF IsPacket
  <2> QED
    BY <1>7, <2>1, <2>2
<1>9. ASSUME NEW i \in head .. tail, NEW j \in head .. tail, i < j,
             slot'[i].client = slot'[j].client
      PROVE  slot'[i].n < slot'[j].n
  <2>1. i \in head .. tail - 1
    BY <1>3, <1>9
  <2>2. CASE j = tail
    <3>1. slot'[i] = slot[i] /\ IsPacket(slot[i])
      BY <1>6, <2>1 DEF InLine
    <3>2. slot'[j] = p
      BY <1>6, <2>2
    <3>3. slot[i].client = c /\ slot'[j].n = enqueued[c] + 1
      BY <1>9, <3>1, <3>2
    <3> HIDE DEF p
    <3> QED
      BY <1>4, <3>1, <3>3 DEF IsPacket
  <2>3. CASE j \in head .. tail - 1
    BY <1>6, <1>9, <2>1, <2>3 DEF InLine
  <2> QED
    BY <1>7, <2>2, <2>3
<1>10. ASSUME NEW d \in Client
       PROVE  /\ given[d] = [n \in 1 .. Len(given[d]) |-> n]
              /\ Len(given[d]) <= enqueued'[d]
              /\ \A n \in Len(given[d]) + 1 .. enqueued'[d] :
                   \E i \in head .. tail : slot'[i] = [client |-> d, n |-> n]
  <2>1. /\ given[d] = [n \in 1 .. Len(given[d]) |-> n]
        /\ Len(given[d]) <= enqueued[d]
        /\ \A n \in Len(given[d]) + 1 .. enqueued[d] :
             \E i \in head .. tail - 1 : slot[i] = [client |-> d, n |-> n]
    BY DEF InLine, NothingLost
  <2>2. head .. tail - 1 \subseteq head .. tail /\ tail \in head .. tail
    BY <1>3
  <2>3. ASSUME NEW n \in Len(given[d]) + 1 .. enqueued'[d]
        PROVE  \E i \in head .. tail : slot'[i] = [client |-> d, n |-> n]
    <3>1. CASE n \in Len(given[d]) + 1 .. enqueued[d]
      BY <1>6, <2>1, <2>2, <3>1
    <3>2. CASE n \notin Len(given[d]) + 1 .. enqueued[d]
      <4>1. d = c /\ n = enqueued[c] + 1
        BY <1>4, <3>2
      <4> QED
        BY <1>6, <2>2, <4>1
    <3> QED
      BY <3>1, <3>2
  <2>4. Len(given[d]) <= enqueued'[d]
    BY <1>4, <2>1
  <2> QED
    BY <2>1, <2>3, <2>4
<1>11. tail' - 1 = tail /\ head' \in Nat /\ tail' \in Nat /\ head' <= tail'
  BY <1>2, <1>3
<1>12. NothingLost'
  BY <1>2, <1>10, <1>11 DEF NothingLost
<1>13. DOMAIN place' = Client
  BY <1>2, <1>3
<1> QED
  BY <1>2, <1>3, <1>5, <1>8, <1>9, <1>11, <1>12, <1>13 DEF InLine

(* Everything else leaves the queue, or a thread reads its tail. *)
LEMMA StillInLine ==
  ASSUME InLine, UNCHANGED <<place, slot, head, tail, enqueued, given>>,
         \A c \in Client : thread'[c] = "enqueue" => thread[c] = "enqueue"
  PROVE  InLine'
BY DEF InLine, IsPacket, NothingLost

LEMMA InLineNext ==
  ASSUME TypeOK, AtWork, raced \/ InLine, [Next]_vars
  PROVE  (raced \/ InLine)'
<1> USE DEF vars, mainVars, acceptVars, shared, recvVars, queue, history
<1> DEFINE Still == /\ UNCHANGED <<place, slot, head, tail, enqueued, given, raced>>
                    /\ \A c \in Client : thread'[c] = "enqueue" => thread[c] = "enqueue"
<1>0. ASSUME Still PROVE (raced \/ InLine)'
  BY <1>0, StillInLine
<1>1. CASE AcceptorNext
  <2>1. Still
    BY <1>1 DEF AcceptorNext, Publish, Spawn, Assign, StopAccepting, TypeOK
  <2> QED
    BY <1>0, <2>1
<1>2. CASE Dispatch
  <2>1. raced' = raced
    BY <1>2 DEF Dispatch
  <2> QED
    BY <1>2, <2>1, DispatchInLine
<1>3. CASE FrameNext /\ ~Dispatch
  <2>1. Still
    BY <1>3 DEF FrameNext, DispatchUndefined, EndOfPackets, FrontRemoval, TellDisconnected,
                LockToRemove, JoinAndErase, EndOfFrame
  <2> QED
    BY <1>0, <2>1
<1>4. CASE StopServer \/ StopNext
  <2>1. Still
    BY <1>4 DEF StopServer, StopNext, JoinAcceptor, LockToStop, CloseNext, JoinNext, AllClosed
  <2> QED
    BY <1>0, <2>1
<1>5. ASSUME NEW c \in Client, Enqueue(c) PROVE (raced \/ InLine)'
  <2>1. raced' = raced
    BY <1>5 DEF Enqueue
  <2> QED
    BY <1>5, <2>1, EnqueueInLine
<1>6. ASSUME NEW c \in Client, ReceiverNext(c), ~Enqueue(c) PROVE (raced \/ InLine)'
  <2>1. Still
    BY <1>6 DEF ReceiverNext, Fails, Push, Deactivate, LoopEnds, Close, To, TypeOK
  <2> QED
    BY <1>0, <2>1
<1>7. ASSUME NEW c \in Client, Receive(c) PROVE (raced \/ InLine)'
  <2>1. /\ place' = [place EXCEPT ![c] = tail] /\ thread' = [thread EXCEPT ![c] = "enqueue"]
        /\ raced' = (raced \/ \E d \in Client \ {c} : thread[d] = "enqueue")
        /\ UNCHANGED <<slot, head, tail, enqueued, given>>
    BY <1>7 DEF Receive, To
  <2> SUFFICES ASSUME ~raced' PROVE InLine'
    OBVIOUS
  <2>2. InLine /\ \A d \in Client \ {c} : thread[d] # "enqueue"
    BY <2>1
  <2>3. \A d \in Client \ {c} : thread'[d] # "enqueue"
    BY <2>1, <2>2 DEF TypeOK
  <2>4. place'[c] = tail /\ DOMAIN place' = Client
    BY <2>1, <2>2 DEF InLine
  <2> QED
    BY <2>1, <2>2, <2>3, <2>4 DEF InLine, IsPacket, NothingLost
<1>8. ASSUME NEW c \in Client, Accept(c) \/ PeerResets(c) PROVE (raced \/ InLine)'
  <2>1. Still
    BY <1>8 DEF Accept, PeerResets
  <2> QED
    BY <1>0, <2>1
<1>9. CASE UNCHANGED vars
  <2>1. Still
    BY <1>9
  <2> QED
    BY <1>0, <2>1
<1> HIDE DEF Still
<1> QED
  BY <1>1, <1>2, <1>3, <1>4, <1>5, <1>6, <1>7, <1>8, <1>9 DEF Next, ClientNext

-----------------------------------------------------------------------------
(* The engine starts with its types right. *)
LEMMA TypeInit == Init => TypeOK /\ AtWork
<1> SUFFICES ASSUME Init PROVE TypeOK /\ AtWork
  OBVIOUS
<1>1. lock = FALSE /\ main = "frame"
  BY DEF Init
<1>2. acceptor \in {"accept", "done"}
  BY DEF Init
<1>3. processed \in 0 .. MaxPerFrame
  BY NetworkAssumption DEF Init
<1>4. /\ current = NoClient /\ newcomer = NoClient /\ listening \in BOOLEAN
      /\ clients \subseteq Client /\ joinable \subseteq Client
      /\ live \subseteq Client /\ peer \subseteq Client /\ removals \in Seq(Client)
  BY DEF Init
<1>5. /\ thread \in [Client -> {"none", "loop", "enqueue", "push", "deactivate", "close", "ended"}]
      /\ told \in [Client -> Nat] /\ enqueued \in [Client -> Nat] /\ raced \in BOOLEAN
  BY DEF Init
<1> QED
  BY <1>1, <1>2, <1>3, <1>4, <1>5 DEF TypeOK, AtWork

(* Nobody has failed yet. *)
LEMMA ReportedInit == Init => Reported
  BY DEF Init, Reported, Waiting

(* There is no thread yet. *)
LEMMA AccountedInit == Init => Accounted
  BY DEF Init, Accounted

(* The types need the queue of removals: it is popped only when there is   *)
(* somebody in it.                                                         *)
LEMMA Invariant == Spec => [](TypeOK /\ AtWork /\ Reported)
<1>1. Init => TypeOK /\ AtWork /\ Reported
  BY TypeInit, ReportedInit
<1>2. TypeOK /\ AtWork /\ Reported /\ [Next]_vars => (TypeOK /\ AtWork /\ Reported)'
  BY TypeNext, ReportedNext
<1> QED
  BY <1>1, <1>2, PTL DEF Spec

(* The queue starts empty. *)
LEMMA InLineInit == Init => InLine
<1> SUFFICES ASSUME Init PROVE InLine
  OBVIOUS
<1>1. /\ head = 1 /\ tail = 1 /\ DOMAIN place = Client
      /\ \A c \in Client : given[c] = << >> /\ enqueued[c] = 0 /\ thread[c] = "none"
      /\ given \in [Client -> Seq(Nat)]
  BY DEF Init
<1>2. /\ 1 \in Nat /\ 1 <= 1 /\ 1 .. 1 - 1 = {} /\ Len(<< >>) = 0 /\ 0 + 1 .. 0 = {} /\ 0 <= 0
      /\ << >> = [n \in 1 .. 0 |-> n]
  OBVIOUS
<1>3. NothingLost
  BY <1>1, <1>2 DEF NothingLost
<1> QED
  BY <1>1, <1>2, <1>3 DEF InLine

(* The threads and what they share keep their types, and the mutex is held *)
(* exactly while the main thread joins receive threads                     *)
(* (NetworkEngine.cpp:82-92, 326-336).                                     *)
THEOREM TypeCorrect == Spec => []TypeOK
  BY Invariant, PTL

(* However receive threads fail and the main thread removes, a client is   *)
(* reported gone at most once and only if its connection failed            *)
(* (NetworkEngine.cpp:202-223, 321-336, 400-404).                          *)
THEOREM GoneIsToldOnce == Spec => []ReportedGoneOnce
<1>1. Reported => ReportedGoneOnce
  BY DEF Reported, ReportedGoneOnce
<1> QED
  BY <1>1, Invariant, PTL

(* A stop of the server waits for every thread but those of connections    *)
(* removed before, whenever it comes (NetworkEngine.cpp:67-93).            *)
THEOREM StopWaitsForAll == Spec => []NoThreadOutlives
<1>1. Init => Accounted
  BY AccountedInit
<1>2. TypeOK /\ AtWork /\ Reported /\ Accounted /\ [Next]_vars => Accounted'
  BY AccountedNext
<1>3. TypeOK /\ Accounted => NoThreadOutlives
  BY DEF TypeOK, Accounted, NoThreadOutlives
<1> QED
  BY <1>1, <1>2, <1>3, Invariant, PTL DEF Spec

(* However many clients talk: while no two of their threads have been in   *)
(* enqueue at once, every packet is handled once and after those before it *)
(* of its client, or is still in the queue (NetworkEngine.cpp:314, 383).   *)
THEOREM PacketsAreHandledOnce == Spec => []LostOnlyInRaces
<1>1. Init => raced \/ InLine
  BY InLineInit
<1>2. TypeOK /\ AtWork /\ (raced \/ InLine) /\ [Next]_vars => (raced \/ InLine)'
  BY InLineNext
<1>3. raced \/ InLine => LostOnlyInRaces
  BY DEF InLine, LostOnlyInRaces
<1> QED
  BY <1>1, <1>2, <1>3, Invariant, PTL DEF Spec
=============================================================================

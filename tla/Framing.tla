------------------------------ MODULE Framing ------------------------------
(***************************************************************************)
(* How packets are cut out of the bytes of a connection: HandleClient      *)
(* receives bytes in chunks of any size, ProcessClientBuffer cuts off      *)
(* [totalLength(4)][protocolID(2)][payload] as long as there is one        *)
(* (NetworkEngine.cpp:162-192, 277-319).                                   *)
(*                                                                         *)
(* Bytes are known by their offsets in the stream; of their values only    *)
(* the length of a message at its start is looked at.  The buffer holds    *)
(* the bytes from offset pos to offset received.                           *)
(***************************************************************************)
EXTENDS Integers, Sequences

CONSTANTS
  LengthSize,    \* sizeof(uint32_t)
  HeaderSize,    \* headerSize
  ChunkSize,     \* CHUNK_SIZE
  Sizes,         \* bytes a client's message may have
  WrongLengths,  \* lengths that a client may state of a message, besides its size
  Strays,        \* what may be read as a length elsewhere than at a start
  MaxMessages    \* bound: messages sent

ASSUME FramingAssumption ==
  /\ LengthSize \in Nat \ {0} /\ HeaderSize \in Nat /\ LengthSize <= HeaderSize
  /\ ChunkSize \in Nat \ {0} /\ MaxMessages \in Nat
  /\ Sizes \subseteq Nat /\ \A n \in Sizes : n >= HeaderSize
  /\ WrongLengths \subseteq Nat /\ Strays \subseteq Nat

VARIABLES
  sent,       \* the messages the client wrote
  written,    \* how many bytes that is
  received,   \* how many of them were received
  pos,        \* how many of these were erased from the buffer
  thread,     \* the receive thread: "receive", or "cut" in ProcessClientBuffer
  cut         \* the packets enqueued

vars == <<sent, written, received, pos, thread, cut>>

(* A message from offset at on, size bytes long, that states its length. *)
Message ==
  {m \in [at : Nat, size : Sizes, length : Nat] : m.length \in {m.size} \cup WrongLengths}
Packet == [at : Nat, size : Nat]
AsPacket(m) == [at |-> m.at, size |-> m.size]
Sound(m) == m.length = m.size

Init ==
  /\ sent = <<>> /\ written = 0
  /\ received = 0 /\ pos = 0
  /\ thread = "receive"
  /\ cut = <<>>

(* The client. *)
SendMessage(n, length) ==
  /\ Len(sent) < MaxMessages
  /\ sent' = Append(sent, [at |-> written, size |-> n, length |-> length])
  /\ written' = written + n
  /\ UNCHANGED <<received, pos, thread, cut>>

(* Some of the bytes under way. *)
Receive(n) ==
  /\ thread = "receive"
  /\ received + n <= written
  /\ received' = received + n
  /\ thread' = "cut"
  /\ UNCHANGED <<sent, written, pos, cut>>

Buffered == received - pos

(* What the first bytes of the buffer say, if it holds enough of them. *)
TotalPacketSizes ==
  LET here == {i \in DOMAIN sent : sent[i].at = pos}
  IN  IF here = {} THEN Strays ELSE {sent[i].length : i \in here}

CutPacket_Once(total) ==
  /\ thread = "cut" /\ Buffered >= LengthSize
  /\ Buffered >= total /\ total >= HeaderSize
  /\ cut' = Append(cut, [at |-> pos, size |-> total])
  /\ pos' = pos + total
  /\ thread' = "receive"
  /\ UNCHANGED <<sent, written, received>>

CutPacket_WithoutHeader(total) ==
  /\ thread = "cut" /\ Buffered >= LengthSize
  /\ Buffered >= total /\ total >= HeaderSize
  /\ cut' = Append(cut, [at |-> pos, size |-> total])
  /\ pos' = pos + total + HeaderSize
  /\ UNCHANGED <<sent, written, received, thread>>

CutPacket(total) ==
  /\ thread = "cut" /\ Buffered >= LengthSize
  /\ Buffered >= total /\ total >= HeaderSize
  /\ cut' = Append(cut, [at |-> pos, size |-> total])
  /\ pos' = pos + total
  /\ UNCHANGED <<sent, written, received, thread>>

(* A length shorter than the header: the whole buffer is given up. *)
DropBuffer(total) ==
  /\ thread = "cut" /\ Buffered >= LengthSize
  /\ Buffered >= total /\ total < HeaderSize
  /\ pos' = received
  /\ thread' = "receive"
  /\ UNCHANGED <<sent, written, received, cut>>

Incomplete(total) ==
  /\ thread = "cut"
  /\ Buffered < LengthSize \/ Buffered < total
  /\ thread' = "receive"
  /\ UNCHANGED <<sent, written, received, pos, cut>>

ProcessClientBuffer ==
  \E total \in TotalPacketSizes : CutPacket(total) \/ DropBuffer(total) \/ Incomplete(total)

ReceiveSome == \E n \in 1 .. ChunkSize : Receive(n)

Next ==
  \/ \E n \in Sizes : \E length \in {n} \cup WrongLengths : SendMessage(n, length)
  \/ ReceiveSome
  \/ ProcessClientBuffer

Spec == Init /\ [][Next]_vars

(* The thread keeps running, and the network delivers what was written.    *)
FairSpec == Spec /\ WF_vars(ReceiveSome) /\ WF_vars(ProcessClientBuffer)
-----------------------------------------------------------------------------
(* Offsets are in order; a packet never reaches behind what was received.  *)
TypeOK ==
  /\ sent \in Seq(Message) /\ cut \in Seq(Packet)
  /\ pos \in Nat /\ received \in Nat /\ written \in Nat
  /\ pos <= received /\ received <= written
  /\ thread \in {"receive", "cut"}

(* No message up to the i-th states a wrong length. *)
Unspoilt(i) == \A j \in DOMAIN sent : j <= i => Sound(sent[j])

(* The messages up to the first wrong one, and the packets that come of    *)
(* these, are a channel; what follows a wrong length may be anything.      *)
Connection == INSTANCE Channel WITH
                Message <- Packet,
                in <- [i \in {j \in DOMAIN sent : Unspoilt(j)} |-> AsPacket(sent[i])],
                out <- [i \in {j \in DOMAIN cut : Unspoilt(j)} |-> cut[i]]

(* The receive thread keeps the promise of Channel: whatever the chunks    *)
(* are, and whatever lengths are stated later, sound messages come out     *)
(* whole, each once and in order (NetworkEngine.cpp:162-192, 277-319).     *)
ChannelSpec == Connection!Spec

(* ... and every sound message comes out: no last bytes of one are left in *)
(* the buffer until the next one comes (the loop of NetworkEngine.cpp:280).*)
AllCut ==
  \A n \in 1 .. MaxMessages : Len(sent) = n /\ Unspoilt(n) ~> Len(cut) >= n
=============================================================================

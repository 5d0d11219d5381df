--------------------------- MODULE FramingProofs ---------------------------
(***************************************************************************)
(* Proofs about module Framing, for every chunk size, every set of message *)
(* sizes and any number of messages.                                       *)
(*                                                                         *)
(* The inductive invariant says where the messages lie in the stream, and  *)
(* where the buffer begins: as long as the messages up to the next one are *)
(* sound it begins at the start of that one, so that the length read there *)
(* is its length.                                                          *)
(***************************************************************************)
EXTENDS Framing, TLAPS

SoundIn(messages, n) == \A j \in 1 .. n : Sound(messages[j])

(* The messages lie one behind the other. *)
Ordered ==
  /\ \A i \in DOMAIN sent : sent[i].at + sent[i].size <= written
  /\ \A i, j \in DOMAIN sent : i < j => sent[i].at + sent[i].size <= sent[j].at

Adjacent ==
  /\ Len(sent) = 0 => written = 0
  /\ Len(sent) > 0 => sent[1].at = 0 /\ written = sent[Len(sent)].at + sent[Len(sent)].size
  /\ \A i \in DOMAIN sent : i + 1 \in DOMAIN sent => sent[i + 1].at = sent[i].at + sent[i].size

(* Where the buffer begins. *)
AtTheNext ==
  /\ Len(cut) < Len(sent) /\ SoundIn(sent, Len(cut) + 1) => pos = sent[Len(cut) + 1].at
  /\ Len(cut) = Len(sent) /\ SoundIn(sent, Len(cut)) => pos = written
  /\ SoundIn(sent, Len(sent)) => Len(cut) <= Len(sent)

(* The messages before the first wrong one come out as they were sent. *)
SoundAreCut ==
  \A i \in DOMAIN sent : SoundIn(sent, i) /\ i <= Len(cut) => cut[i] = AsPacket(sent[i])

IInv == TypeOK /\ Ordered /\ Adjacent /\ AtTheNext /\ SoundAreCut

(* The sizes are those of messages with a header. *)
LEMMA SizesArePositive == \A n \in Sizes : n \in Nat /\ n > 0 /\ n >= HeaderSize
  BY FramingAssumption

(* What a message is made of. *)
LEMMA MessageParts ==
  ASSUME NEW m \in Message
  PROVE  m.at \in Nat /\ m.size \in Sizes /\ m.size \in Nat /\ m.length \in Nat
  BY FramingAssumption DEF Message

(* The connection begins with nothing read, cut or expected. *)
LEMMA InvInit == Init => IInv
  BY FramingAssumption DEF Init, IInv, TypeOK, Ordered, Adjacent, AtTheNext, SoundAreCut,
     SoundIn, Sound, Message, Packet

(* Where the buffer holds the beginning of the next message, the length    *)
(* read is that message's.                                                 *)
LEMMA LengthRead ==
  ASSUME TypeOK, Ordered, NEW k \in DOMAIN sent, pos = sent[k].at,
         NEW total \in TotalPacketSizes
  PROVE  total = sent[k].length
<1> DEFINE here == {i \in DOMAIN sent : sent[i].at = pos}
<1>1. \A i \in DOMAIN sent : sent[i].at \in Nat /\ sent[i].size \in Nat /\ sent[i].size > 0
  BY MessageParts, SizesArePositive DEF TypeOK
<1>2. \A i \in here : i = k
  <2> SUFFICES ASSUME NEW i \in here, i # k PROVE FALSE
    OBVIOUS
  <2>1. i \in DOMAIN sent /\ sent[i].at = sent[k].at /\ DOMAIN sent \subseteq Nat
    BY DEF TypeOK
  <2>2. i < k \/ k < i
    BY <2>1
  <2> QED
    BY <1>1, <2>1, <2>2 DEF Ordered
<1>3. here = {k}
  BY <1>2
<1> QED
  BY <1>3 DEF TotalPacketSizes

(* A message is written. *)
LEMMA SendStep ==
  ASSUME IInv, NEW n \in Sizes, NEW length \in {n} \cup WrongLengths, SendMessage(n, length)
  PROVE  IInv'
<1> DEFINE m == [at |-> written, size |-> n, length |-> length]
<1>1. m \in Message /\ n \in Nat /\ n > 0
  BY SizesArePositive, FramingAssumption DEF IInv, TypeOK, Message
<1>2. /\ sent \in Seq(Message) /\ sent' = Append(sent, m) /\ sent' \in Seq(Message)
      /\ Len(sent') = Len(sent) + 1 /\ DOMAIN sent' = 1 .. Len(sent) + 1
      /\ Len(sent) \in Nat /\ DOMAIN sent = 1 .. Len(sent)
      /\ sent'[Len(sent) + 1] = m
      /\ \A i \in DOMAIN sent : sent'[i] = sent[i]
  BY <1>1 DEF IInv, TypeOK, SendMessage
<1>3. /\ written' = written + n /\ cut' = cut /\ pos' = pos
      /\ received' = received /\ thread' = thread
  BY DEF SendMessage
<1>4. \A i \in DOMAIN sent : sent[i].at \in Nat /\ sent[i].size \in Nat
  BY <1>2, MessageParts
<1>5. TypeOK'
  BY <1>1, <1>2, <1>3 DEF IInv, TypeOK
<1>6. Ordered'
  BY <1>1, <1>2, <1>3, <1>4 DEF IInv, TypeOK, Ordered
<1>7. Adjacent'
  BY <1>1, <1>2, <1>3, <1>4 DEF IInv, TypeOK, Adjacent
<1>8. \A i \in 0 .. Len(sent) : SoundIn(sent', i) <=> SoundIn(sent, i)
  BY <1>2 DEF SoundIn, Sound
<1>9. SoundIn(sent', Len(sent) + 1) => SoundIn(sent, Len(sent))
  BY <1>2 DEF SoundIn, Sound
<1>10. Len(cut) \in Nat
  BY DEF IInv, TypeOK
<1>11. AtTheNext'
  <2>1. Len(cut)' < Len(sent)' /\ SoundIn(sent', Len(cut) + 1) => pos' = sent'[Len(cut) + 1].at
    <3>1. CASE Len(cut) < Len(sent)
      BY <3>1, <1>2, <1>3, <1>8, <1>10 DEF IInv, AtTheNext
    <3>2. CASE Len(cut) = Len(sent)
      BY <3>2, <1>2, <1>3, <1>9, <1>10 DEF IInv, AtTheNext
    <3> QED
      BY <3>1, <3>2, <1>2, <1>3, <1>10
  <2>2. SoundIn(sent', Len(sent) + 1) => Len(cut) <= Len(sent)
    BY <1>9 DEF IInv, AtTheNext
  <2> QED
    BY <2>1, <2>2, <1>2, <1>3, <1>10 DEF AtTheNext
<1>12. SoundAreCut'
  <2> SUFFICES ASSUME NEW i \in DOMAIN sent', SoundIn(sent', i), i <= Len(cut)
               PROVE  cut[i] = AsPacket(sent'[i])
    BY <1>3 DEF SoundAreCut, SoundIn
  <2>1. i \in DOMAIN sent
    BY <1>2, <1>9, <1>10 DEF IInv, AtTheNext
  <2> QED
    BY <2>1, <1>2, <1>8 DEF IInv, SoundAreCut, SoundIn
<1> QED
  BY <1>5, <1>6, <1>7, <1>11, <1>12 DEF IInv

(* What is cut is the next message, if those up to it are sound. *)
LEMMA CutsTheNext ==
  ASSUME IInv, NEW total \in TotalPacketSizes, Buffered >= LengthSize, SoundIn(sent, Len(cut) + 1),
         Len(cut) < Len(sent)
  PROVE  total = sent[Len(cut) + 1].size
<1>1. Len(cut) + 1 \in DOMAIN sent
  BY DEF IInv, TypeOK
<1>2. pos = sent[Len(cut) + 1].at
  BY DEF IInv, AtTheNext
<1>3. total = sent[Len(cut) + 1].length
  BY <1>1, <1>2, LengthRead DEF IInv
<1> QED
  BY <1>1, <1>3 DEF SoundIn, Sound, IInv, TypeOK

(* With every message cut nothing is left in the buffer. *)
LEMMA NothingLeft ==
  ASSUME IInv, Buffered >= LengthSize, SoundIn(sent, Len(cut))
  PROVE  Len(cut) # Len(sent)
  BY FramingAssumption DEF IInv, TypeOK, AtTheNext, Buffered

(* What may be read as a length is a number. *)
LEMMA TotalIsNat ==
  ASSUME TypeOK, NEW total \in TotalPacketSizes
  PROVE  total \in Nat
  BY FramingAssumption, MessageParts DEF TypeOK, TotalPacketSizes

(* Cutting one message keeps the invariant: the cursor moves over exactly  *)
(* the bytes of it.                                                        *)
LEMMA CutStep ==
  ASSUME IInv, NEW total \in TotalPacketSizes, CutPacket(total)
  PROVE  IInv'
<1> DEFINE p == [at |-> pos, size |-> total]
<1>0. total \in Nat
  BY TotalIsNat DEF IInv
<1>1. /\ cut \in Seq(Packet) /\ p \in Packet /\ cut' = Append(cut, p) /\ cut' \in Seq(Packet)
      /\ Len(cut) \in Nat /\ Len(cut') = Len(cut) + 1
      /\ cut'[Len(cut) + 1] = p /\ \A i \in 1 .. Len(cut) : cut'[i] = cut[i]
  BY <1>0 DEF IInv, TypeOK, CutPacket, Packet
<1>2. /\ sent' = sent /\ written' = written /\ received' = received /\ thread' = thread
      /\ pos' = pos + total
  BY DEF CutPacket
<1>3. sent \in Seq(Message) /\ DOMAIN sent = 1 .. Len(sent) /\ Len(sent) \in Nat
  BY DEF IInv, TypeOK
<1>4. Buffered >= LengthSize /\ Buffered >= total
  BY DEF CutPacket
<1>5. TypeOK'
  BY <1>0, <1>1, <1>2, <1>4 DEF IInv, TypeOK, Buffered
<1>6. Ordered' /\ Adjacent'
  BY <1>2 DEF IInv, Ordered, Adjacent
<1>7. \A i : SoundIn(sent', i) <=> SoundIn(sent, i)
  BY <1>2 DEF SoundIn, Sound
<1>8. \A i \in Nat : SoundIn(sent, i + 1) => SoundIn(sent, i)
  BY DEF SoundIn
<1>9. Len(cut) < Len(sent) /\ SoundIn(sent, Len(cut) + 1) =>
        /\ total = sent[Len(cut) + 1].size
        /\ pos = sent[Len(cut) + 1].at
        /\ p = AsPacket(sent[Len(cut) + 1])
  BY <1>4, CutsTheNext DEF IInv, AtTheNext, AsPacket
<1>10. AtTheNext'
  <2>1. Len(cut) + 1 < Len(sent) /\ SoundIn(sent, Len(cut) + 2) => pos + total = sent[Len(cut) + 2].at
    <3> SUFFICES ASSUME Len(cut) + 1 < Len(sent), SoundIn(sent, Len(cut) + 2)
                 PROVE  pos + total = sent[Len(cut) + 2].at
      OBVIOUS
    <3>1. SoundIn(sent, Len(cut) + 1)
      BY <1>1 DEF SoundIn
    <3>2. Len(cut) + 1 \in DOMAIN sent /\ (Len(cut) + 1) + 1 \in DOMAIN sent
      BY <1>1, <1>3
    <3>3. sent[(Len(cut) + 1) + 1].at = sent[Len(cut) + 1].at + sent[Len(cut) + 1].size
      BY <3>2 DEF IInv, Adjacent
    <3>4. (Len(cut) + 1) + 1 = Len(cut) + 2
      BY <1>1
    <3> QED
      BY <3>1, <3>3, <3>4, <1>1, <1>9
  <2>2. Len(cut) + 1 = Len(sent) /\ SoundIn(sent, Len(cut) + 1) => pos + total = written
    BY <1>1, <1>3, <1>9 DEF IInv, Adjacent
  <2>3. SoundIn(sent, Len(sent)) => Len(cut) + 1 <= Len(sent)
    <3> SUFFICES ASSUME SoundIn(sent, Len(sent)) PROVE Len(cut) + 1 <= Len(sent)
      OBVIOUS
    <3>1. Len(cut) <= Len(sent)
      BY DEF IInv, AtTheNext
    <3>2. Len(cut) # Len(sent)
      BY <1>4, NothingLeft
    <3> QED
      BY <3>1, <3>2, <1>1, <1>3
  <2>4. (Len(cut) + 1) + 1 = Len(cut) + 2
    BY <1>1
  <2> QED
    BY <2>1, <2>2, <2>3, <2>4, <1>1, <1>2, <1>7 DEF AtTheNext
<1>11. SoundAreCut'
  <2> SUFFICES ASSUME NEW i \in DOMAIN sent, SoundIn(sent, i), i <= Len(cut) + 1
               PROVE  cut'[i] = AsPacket(sent[i])
    BY <1>1, <1>2, <1>7 DEF SoundAreCut, SoundIn, Sound
  <2>1. CASE i <= Len(cut)
    BY <2>1, <1>1, <1>3 DEF IInv, SoundAreCut, SoundIn
  <2>2. CASE i = Len(cut) + 1
    BY <2>2, <1>1, <1>3, <1>9
  <2> QED
    BY <2>1, <2>2, <1>1, <1>3
<1> QED
  BY <1>5, <1>6, <1>10, <1>11 DEF IInv

(* A buffer is given up only at a message that states less than a header. *)
LEMMA DropStep ==
  ASSUME IInv, NEW total \in TotalPacketSizes, DropBuffer(total)
  PROVE  IInv'
<1>0. total \in Nat /\ total < HeaderSize /\ Buffered >= LengthSize
  BY TotalIsNat DEF IInv, DropBuffer
<1>1. /\ sent' = sent /\ written' = written /\ received' = received /\ cut' = cut
      /\ pos' = received /\ thread' = "receive"
  BY DEF DropBuffer
<1>2. Len(cut) \in Nat /\ Len(sent) \in Nat /\ DOMAIN sent = 1 .. Len(sent)
  BY DEF IInv, TypeOK
<1>3. TypeOK' /\ Ordered' /\ Adjacent' /\ SoundAreCut'
  BY <1>1 DEF IInv, TypeOK, Ordered, Adjacent, SoundAreCut, Sound
<1>4. ~(Len(cut) < Len(sent) /\ SoundIn(sent, Len(cut) + 1))
  <2> SUFFICES ASSUME Len(cut) < Len(sent), SoundIn(sent, Len(cut) + 1) PROVE FALSE
    OBVIOUS
  <2>1. total = sent[Len(cut) + 1].size
    BY <1>0, CutsTheNext
  <2>2. sent[Len(cut) + 1].size \in Sizes
    BY <1>2, MessageParts DEF IInv, TypeOK
  <2> QED
    BY <1>0, <2>1, <2>2, FramingAssumption
<1>5. ~(Len(cut) = Len(sent) /\ SoundIn(sent, Len(cut)))
  BY <1>0, NothingLeft
<1>6. AtTheNext'
  BY <1>1, <1>4, <1>5 DEF IInv, AtTheNext, SoundIn, Sound
<1> QED
  BY <1>3, <1>6 DEF IInv

(* Bytes arrive, or the buffer does not hold a packet. *)
LEMMA QuietStep ==
  ASSUME IInv,
         \/ \E n \in 1 .. ChunkSize : Receive(n)
         \/ \E total \in TotalPacketSizes : Incomplete(total)
  PROVE  IInv'
<1>1. /\ sent' = sent /\ written' = written /\ cut' = cut /\ pos' = pos
      /\ received' \in Nat /\ received <= received' /\ received' <= written
      /\ thread' \in {"receive", "cut"}
  BY FramingAssumption DEF Receive, Incomplete, IInv, TypeOK
<1> QED
  BY <1>1 DEF IInv, TypeOK, Ordered, Adjacent, AtTheNext, SoundAreCut, SoundIn, Sound

(* Every step keeps it. *)
LEMMA InvNext == IInv /\ [Next]_vars => IInv'
<1> SUFFICES ASSUME IInv, [Next]_vars PROVE IInv'
  OBVIOUS
<1>1. CASE \E n \in Sizes : \E length \in {n} \cup WrongLengths : SendMessage(n, length)
  BY <1>1, SendStep
<1>2. CASE ReceiveSome
  BY <1>2, QuietStep DEF ReceiveSome
<1>3. CASE ProcessClientBuffer
  BY <1>3, CutStep, DropStep, QuietStep DEF ProcessClientBuffer
<1>4. CASE UNCHANGED vars
  BY <1>4 DEF vars, IInv, TypeOK, Ordered, Adjacent, AtTheNext, SoundAreCut, SoundIn, Sound
<1> QED
  BY <1>1, <1>2, <1>3, <1>4 DEF Next

(* So it always holds. *)
LEMMA Invariant == Spec => []IInv
  BY InvInit, InvNext, PTL DEF Spec

(* The buffer never reaches behind what was received, nor that behind what *)
(* was written (NetworkEngine.cpp:278-318).                                *)
THEOREM TypeCorrect == Spec => []TypeOK
<1>1. IInv => TypeOK
  BY DEF IInv
<1> QED
  BY <1>1, Invariant, PTL

-----------------------------------------------------------------------------
(* The channel of Connection. *)
In == [i \in {j \in DOMAIN sent : Unspoilt(j)} |-> AsPacket(sent[i])]
Out == [i \in {j \in DOMAIN cut : Unspoilt(j)} |-> cut[i]]

(* The first k messages are those before the first wrong one. *)
SoundUpTo(k) ==
  /\ k \in 0 .. Len(sent)
  /\ \A i \in DOMAIN sent : SoundIn(sent, i) <=> i <= k

Prefix == \E k \in Nat : SoundUpTo(k)

(* Nothing is sent at first. *)
LEMMA PrefixInit == Init => Prefix
<1>1. Init => SoundUpTo(0)
  BY DEF Init, SoundUpTo
<1> QED
  BY <1>1 DEF Prefix

(* How a message that is sent moves the first wrong one. *)
LEMMA PrefixSend ==
  ASSUME IInv, NEW n \in Sizes, NEW length \in {n} \cup WrongLengths, SendMessage(n, length),
         NEW k \in Nat, SoundUpTo(k)
  PROVE  /\ k = Len(sent) /\ length = n => SoundUpTo(k + 1)'
         /\ ~(k = Len(sent) /\ length = n) => SoundUpTo(k)'
<1> DEFINE m == [at |-> written, size |-> n, length |-> length]
           N == Len(sent)
<1>1. /\ sent' = Append(sent, m) /\ Len(sent') = N + 1 /\ N \in Nat
      /\ DOMAIN sent = 1 .. N /\ DOMAIN sent' = 1 .. N + 1
      /\ sent'[N + 1] = m /\ \A i \in 1 .. N : sent'[i] = sent[i]
  <2>1. sent \in Seq(Message)
    BY DEF IInv, TypeOK
  <2> QED
    BY <2>1 DEF SendMessage
<1>2. k \in 0 .. N /\ \A i \in 1 .. N : SoundIn(sent, i) <=> i <= k
  BY <1>1 DEF SoundUpTo
<1>0. N \in Nat
  BY <1>1
<1>3. \A i \in 1 .. N : SoundIn(sent', i) <=> SoundIn(sent, i)
  BY <1>1 DEF SoundIn, Sound
<1>4. SoundIn(sent, N) <=> k = N
  <2>1. CASE N = 0
    <3>1. SoundIn(sent, N)
      BY <2>1 DEF SoundIn
    <3> QED
      BY <3>1, <2>1, <1>2
  <2>2. CASE N \in 1 .. N
    <3> HIDE DEF N
    <3>1. SoundIn(sent, N) <=> N <= k
      BY <2>2, <1>2
    <3> QED
      BY <3>1, <1>2, <1>0
  <2>3. N = 0 \/ N \in 1 .. N
    <3> HIDE DEF N
    <3> QED
      BY <1>0
  <2> QED
    BY <2>1, <2>2, <2>3
<1>5. SoundIn(sent', N + 1) <=> SoundIn(sent, N) /\ length = n
  <2>1. Sound(sent'[N + 1]) <=> length = n
    BY <1>1 DEF Sound
  <2>2. \A j \in 1 .. N : Sound(sent'[j]) <=> Sound(sent[j])
    BY <1>1
  <2>3. \A j : j \in 1 .. N + 1 <=> j \in 1 .. N \/ j = N + 1
    BY <1>1
  <2> QED
    BY <2>1, <2>2, <2>3 DEF SoundIn
<1>6. CASE k = N /\ length = n
  <2>1. \A i \in 1 .. N + 1 : SoundIn(sent', i) <=> i <= k + 1
    BY <1>1, <1>2, <1>3, <1>4, <1>5, <1>6
  <2>2. SoundUpTo(k + 1)'
    BY <2>1, <1>1, <1>6 DEF SoundUpTo
  <2> QED
    BY <2>2, <1>6
<1>7. CASE ~(k = N /\ length = n)
  <2>1. \A i \in 1 .. N + 1 : SoundIn(sent', i) <=> i <= k
    <3> SUFFICES ASSUME NEW i \in 1 .. N + 1 PROVE SoundIn(sent', i) <=> i <= k
      OBVIOUS
    <3>1. CASE i \in 1 .. N
      BY <3>1, <1>2, <1>3
    <3>2. CASE i = N + 1
      <4>1. ~SoundIn(sent', i)
        BY <3>2, <1>4, <1>5, <1>7
      <4>2. ~(i <= k)
        <5> HIDE DEF N
        <5> QED
          BY <3>2, <1>0, <1>2
      <4> QED
        BY <4>1, <4>2
    <3> QED
      BY <3>1, <3>2, <1>1
  <2>2. SoundUpTo(k)'
    BY <2>1, <1>1, <1>2 DEF SoundUpTo
  <2> QED
    BY <2>2, <1>7
<1> QED
  BY <1>6, <1>7

(* Every step keeps that there is one. *)
LEMMA PrefixNext == IInv /\ Prefix /\ [Next]_vars => Prefix'
<1> SUFFICES ASSUME IInv, [Next]_vars, NEW k \in Nat, SoundUpTo(k) PROVE Prefix'
  BY DEF Prefix
<1>1. CASE \E n \in Sizes : \E length \in {n} \cup WrongLengths : SendMessage(n, length)
  <2> PICK n \in Sizes : \E length \in {n} \cup WrongLengths : SendMessage(n, length)
    BY <1>1
  <2> PICK length \in {n} \cup WrongLengths : SendMessage(n, length)
    OBVIOUS
  <2> QED
    BY PrefixSend DEF Prefix
<1>2. CASE ~(\E n \in Sizes : \E length \in {n} \cup WrongLengths : SendMessage(n, length))
  <2>1. sent' = sent
    BY <1>2 DEF Next, vars, ReceiveSome, Receive, ProcessClientBuffer, CutPacket, DropBuffer,
       Incomplete
  <2> QED
    BY <2>1 DEF Prefix, SoundUpTo, SoundIn, Sound
<1> QED
  BY <1>1, <1>2

Lesser(a, b) == IF a < b THEN a ELSE b

(* The lesser of two numbers. *)
LEMMA LesserIs ==
  ASSUME NEW a \in Nat, NEW b \in Nat
  PROVE  /\ Lesser(a, b) \in Nat
         /\ a <= b => Lesser(a, b) = a
         /\ b <= a => Lesser(a, b) = b
  BY DEF Lesser

(* What the channel is, in a state with k messages before a wrong one. *)
ChannelUpTo(k) ==
  /\ In = [i \in 1 .. k |-> AsPacket(sent[i])]
  /\ Out = [i \in 1 .. Lesser(Len(cut), k) |-> cut[i]]

LEMMA ChannelIs == \A k \in Nat : IInv /\ SoundUpTo(k) => ChannelUpTo(k)
<1> SUFFICES ASSUME IInv, NEW k \in Nat, SoundUpTo(k) PROVE ChannelUpTo(k)
  OBVIOUS
<1>1. /\ DOMAIN sent = 1 .. Len(sent) /\ Len(sent) \in Nat
      /\ DOMAIN cut = 1 .. Len(cut) /\ Len(cut) \in Nat
  BY DEF IInv, TypeOK
<1>2. k \in 0 .. Len(sent) /\ \A i \in 1 .. Len(sent) : SoundIn(sent, i) <=> i <= k
  BY <1>1 DEF SoundUpTo
<1>3. \A i \in 1 .. Len(sent) : Unspoilt(i) <=> SoundIn(sent, i)
  BY <1>1 DEF Unspoilt, SoundIn
<1>4. In = [i \in 1 .. k |-> AsPacket(sent[i])]
  <2>1. {j \in DOMAIN sent : Unspoilt(j)} = 1 .. k
    BY <1>1, <1>2, <1>3
  <2> QED
    BY <2>1 DEF In
<1>5. CASE k = Len(sent)
  <2>1. SoundIn(sent, Len(sent))
    BY <1>1, <1>2, <1>5 DEF SoundIn
  <2>2. Len(cut) <= k
    BY <2>1, <1>5 DEF IInv, AtTheNext
  <2>3. {j \in DOMAIN cut : Unspoilt(j)} = 1 .. Len(cut)
    BY <1>1, <1>5, <2>1 DEF Unspoilt, SoundIn
  <2>4. Lesser(Len(cut), k) = Len(cut)
    BY <2>2, <1>1, LesserIs
  <2> QED
    BY <2>3, <2>4, <1>4 DEF Out, ChannelUpTo
<1>6. CASE k < Len(sent)
  <2>1. k + 1 \in 1 .. Len(sent) /\ ~SoundIn(sent, k + 1)
    BY <1>1, <1>2, <1>6
  <2>2. \A i \in Nat : i > k => ~Unspoilt(i)
    <3> SUFFICES ASSUME NEW i \in Nat, i > k PROVE ~Unspoilt(i)
      OBVIOUS
    <3>1. PICK j \in 1 .. k + 1 : ~Sound(sent[j])
      BY <2>1 DEF SoundIn
    <3>2. j \in DOMAIN sent /\ j <= i
      BY <3>1, <2>1, <1>1
    <3> QED
      BY <3>1, <3>2 DEF Unspoilt
  <2>3. \A i \in 1 .. k : Unspoilt(i)
    BY <1>1, <1>2, <1>3
  <2>4. {j \in DOMAIN cut : Unspoilt(j)} = 1 .. Lesser(Len(cut), k)
    <3>1. CASE Len(cut) <= k
      <4>1. {j \in DOMAIN cut : Unspoilt(j)} = 1 .. Len(cut)
        BY <3>1, <1>1, <2>3
      <4> QED
        BY <4>1, <3>1, <1>1, LesserIs
    <3>2. CASE k <= Len(cut)
      <4>1. {j \in DOMAIN cut : Unspoilt(j)} = 1 .. k
        BY <3>2, <1>1, <2>2, <2>3
      <4> QED
        BY <4>1, <3>2, <1>1, LesserIs
    <3> QED
      BY <3>1, <3>2, <1>1
  <2> QED
    BY <2>4, <1>4 DEF Out, ChannelUpTo
<1>7. k = Len(sent) \/ k < Len(sent)
  <2>1. k \in 0 .. Len(sent)
    BY <1>2
  <2>2. Len(sent) \in Nat
    BY <1>1
  <2> QED
    BY <2>1, <2>2
<1> QED
  BY <1>5, <1>6, <1>7

(* The same of the next state. *)
LEMMA ChannelIsNext == \A k \in Nat : IInv' /\ SoundUpTo(k)' => ChannelUpTo(k)'
<1>1. (\A k \in Nat : IInv /\ SoundUpTo(k) => ChannelUpTo(k))'
  BY ChannelIs, PTL
<1> QED
  BY <1>1

(* Sending a message puts it into the channel if no wrong one is before it. *)
LEMMA SendPuts ==
  ASSUME IInv, IInv', Prefix, NEW n \in Sizes, NEW length \in {n} \cup WrongLengths,
         SendMessage(n, length)
  PROVE  \/ Connection!Put
         \/ UNCHANGED <<In, Out>>
<1> PICK k \in Nat : SoundUpTo(k)
  BY DEF Prefix
<1>1. cut' = cut
  BY DEF SendMessage
<1>2. /\ Len(sent) \in Nat /\ Len(cut) \in Nat /\ k \in 0 .. Len(sent)
      /\ \A i \in 1 .. Len(sent) : sent'[i] = sent[i] /\ sent[i] \in Message
      /\ Len(sent') = Len(sent) + 1 /\ sent'[Len(sent) + 1] \in Message
  <2>1. sent \in Seq(Message) /\ sent' \in Seq(Message) /\ cut \in Seq(Packet)
    BY DEF IInv, TypeOK
  <2> QED
    BY <2>1 DEF SoundUpTo, SendMessage
<1>3. /\ In = [i \in 1 .. k |-> AsPacket(sent[i])]
      /\ Out = [i \in 1 .. Lesser(Len(cut), k) |-> cut[i]]
  BY ChannelIs DEF ChannelUpTo
<1>4. \A i \in 1 .. Len(sent) : AsPacket(sent[i]) \in Packet /\ AsPacket(sent'[i]) = AsPacket(sent[i])
  BY <1>2, MessageParts DEF AsPacket, Packet
<1>5. AsPacket(sent'[Len(sent) + 1]) \in Packet
  BY <1>2, MessageParts DEF AsPacket, Packet
<1>6. CASE k = Len(sent) /\ length = n
  <2>1. SoundUpTo(k + 1)'
    BY <1>6, PrefixSend
  <2>2. /\ In' = [i \in 1 .. k + 1 |-> AsPacket(sent'[i])]
        /\ Out' = [i \in 1 .. Lesser(Len(cut), k + 1) |-> cut[i]]
    BY <2>1, <1>1, <1>2, ChannelIsNext DEF ChannelUpTo
  <2>3. SoundIn(sent, Len(sent))
    <3>1. CASE k = 0
      BY <3>1, <1>6 DEF SoundIn
    <3>2. CASE k \in DOMAIN sent
      BY <3>2, <1>6 DEF SoundUpTo
    <3> QED
      BY <3>1, <3>2, <1>2, <1>6 DEF IInv, TypeOK
  <2>4. Len(cut) <= k
    BY <2>3, <1>6 DEF IInv, AtTheNext
  <2>5. Lesser(Len(cut), k) = Len(cut) /\ Lesser(Len(cut), k + 1) = Len(cut)
    <3>1. k + 1 \in Nat /\ Len(cut) \in Nat /\ Len(cut) <= k + 1
      BY <2>4, <1>2
    <3> QED
      BY <3>1, <2>4, LesserIs
  <2>6. Out' = Out
    BY <2>5, <2>2, <1>3
  <2>7. /\ In \in Seq(Packet) /\ In' \in Seq(Packet)
        /\ Len(In) = k /\ Len(In') = k + 1 /\ \A i \in 1 .. k : In'[i] = In[i]
    <3>1. \A i \in 1 .. k : AsPacket(sent[i]) \in Packet /\ AsPacket(sent'[i]) = AsPacket(sent[i])
      BY <1>2, <1>4
    <3>2. AsPacket(sent'[k + 1]) \in Packet
      BY <1>5, <1>6
    <3>3. In \in Seq(Packet) /\ Len(In) = k
      BY <3>1, <1>3
    <3>4. \A i \in 1 .. k + 1 : AsPacket(sent'[i]) \in Packet
      BY <3>1, <3>2
    <3>5. In' \in Seq(Packet) /\ Len(In') = k + 1
      BY <3>4, <2>2
    <3>6. \A i \in 1 .. k : In'[i] = In[i]
      BY <3>1, <2>2, <1>3
    <3> QED
      BY <3>3, <3>5, <3>6
  <2>8. In' = Append(In, In'[Len(In')]) /\ In'[Len(In')] \in Packet
    BY <2>7
  <2> QED
    BY <2>6, <2>7, <2>8 DEF Connection!Put, In, Out
<1>7. CASE ~(k = Len(sent) /\ length = n)
  <2>1. SoundUpTo(k)'
    BY <1>7, PrefixSend
  <2>2. /\ In' = [i \in 1 .. k |-> AsPacket(sent'[i])]
        /\ Out' = [i \in 1 .. Lesser(Len(cut), k) |-> cut[i]]
    BY <2>1, <1>1, ChannelIsNext DEF ChannelUpTo
  <2>3. \A i \in 1 .. k : AsPacket(sent'[i]) = AsPacket(sent[i])
    BY <1>2, <1>4
  <2>4. In' = In /\ Out' = Out
    BY <2>2, <2>3, <1>3
  <2> QED
    BY <2>4
<1> QED
  BY <1>6, <1>7

(* Cutting a packet gets the next one out of it, or comes after a wrong one. *)
LEMMA CutGets ==
  ASSUME IInv, IInv', Prefix, NEW total \in TotalPacketSizes, CutPacket(total)
  PROVE  \/ Connection!Get
         \/ UNCHANGED <<In, Out>>
<1> PICK k \in Nat : SoundUpTo(k)
  BY DEF Prefix
<1> DEFINE p == [at |-> pos, size |-> total]
           c == Len(cut)
<1>1. sent' = sent /\ cut' = Append(cut, p) /\ Buffered >= LengthSize
  BY DEF CutPacket
<1>2. SoundUpTo(k)'
  BY <1>1 DEF SoundUpTo, SoundIn, Sound
<1>3. /\ cut \in Seq(Packet) /\ cut' \in Seq(Packet) /\ c \in Nat
      /\ Len(sent) \in Nat /\ DOMAIN sent = 1 .. Len(sent) /\ k \in 0 .. Len(sent)
  BY DEF IInv, TypeOK, SoundUpTo
<1>4. /\ Len(cut') = c + 1 /\ cut'[c + 1] = p
      /\ \A i \in 1 .. c : cut'[i] = cut[i]
  BY <1>1, <1>3
<1>5. /\ In = [i \in 1 .. k |-> AsPacket(sent[i])]
      /\ Out = [i \in 1 .. Lesser(c, k) |-> cut[i]]
  BY ChannelIs DEF ChannelUpTo
<1>6. /\ In' = [i \in 1 .. k |-> AsPacket(sent[i])]
      /\ Out' = [i \in 1 .. Lesser(c + 1, k) |-> cut'[i]]
  BY <1>1, <1>2, <1>4, ChannelIsNext DEF ChannelUpTo
<1>7. CASE c < k
  <2>1. c + 1 \in DOMAIN sent /\ c < Len(sent)
    BY <1>3, <1>7
  <2>2. SoundIn(sent, c + 1)
    BY <2>1, <1>3, <1>7 DEF SoundUpTo
  <2>3. p = AsPacket(sent[c + 1])
    BY <2>1, <2>2, <1>1, CutsTheNext DEF IInv, AtTheNext, AsPacket
  <2>4. Lesser(c, k) = c /\ Lesser(c + 1, k) = c + 1
    BY <1>3, <1>7, LesserIs
  <2>5. Out \in Seq(Packet) /\ Len(Out) = c
    BY <2>4, <1>3, <1>5
  <2>6. Len(In) = k /\ In[c + 1] = p
    BY <2>3, <1>3, <1>5, <1>7
  <2>7. Out' = Append(Out, p)
    BY <2>4, <2>5, <1>3, <1>4, <1>5, <1>6
  <2>8. In' = In
    BY <1>5, <1>6
  <2> QED
    BY <2>5, <2>6, <2>7, <2>8, <1>7 DEF Connection!Get, In, Out
<1>8. CASE k <= c
  <2>1. Lesser(c, k) = k /\ Lesser(c + 1, k) = k
    BY <1>3, <1>8, LesserIs
  <2>2. \A i \in 1 .. k : cut'[i] = cut[i]
    BY <1>3, <1>4, <1>8
  <2> QED
    BY <2>1, <2>2, <1>5, <1>6
<1> QED
  BY <1>3, <1>7, <1>8

(* The receive thread keeps the promise of a channel, for every chunk size *)
(* and any number of messages: those before the first one that states a    *)
(* wrong length come out whole, once and in order.                         *)
THEOREM ImplementsChannel == Spec => ChannelSpec
<1>1. Init => Connection!Init
  BY DEF Init, Connection!Init
<1>2. IInv /\ IInv' /\ Prefix /\ [Next]_vars => [Connection!Next]_<<In, Out>>
  <2> SUFFICES ASSUME IInv, IInv', Prefix, [Next]_vars PROVE [Connection!Next]_<<In, Out>>
    OBVIOUS
  <2>1. CASE \E n \in Sizes : \E length \in {n} \cup WrongLengths : SendMessage(n, length)
    BY <2>1, SendPuts DEF Connection!Next
  <2>2. CASE \E total \in TotalPacketSizes : CutPacket(total)
    BY <2>2, CutGets DEF Connection!Next
  <2>3. CASE \/ ReceiveSome \/ UNCHANGED vars
             \/ \E total \in TotalPacketSizes : DropBuffer(total) \/ Incomplete(total)
    <3>1. sent' = sent /\ cut' = cut
      BY <2>3 DEF ReceiveSome, Receive, DropBuffer, Incomplete, vars
    <3> QED
      BY <3>1 DEF In, Out, Unspoilt
  <2> QED
    BY <2>1, <2>2, <2>3 DEF Next, ProcessClientBuffer
<1>3. Spec => []Prefix
  BY PrefixInit, PrefixNext, Invariant, PTL DEF Spec
<1> QED
  BY <1>1, <1>2, <1>3, Invariant, PTL DEF Spec, ChannelSpec, Connection!Spec, In, Out
=============================================================================

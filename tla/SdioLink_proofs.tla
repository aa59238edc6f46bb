----------------------------- MODULE SdioLink_proofs -----------------------------
(* Theorems about SdioLink.                                                 *)
EXTENDS SdioLink, LinkLemmas

-----------------------------------------------------------------------------
(* The inductive invariant: the type invariant by owner of the variables,   *)
(* then the counts, one by one, and the lengths.                            *)

Interfaces == {"serial", "sta", "priv"}

SendersOK ==
    /\ hostSent \in [Queues -> Nat] /\ hostWriter \in [Queues -> {"idle", "count"}]
    /\ toSlave \in [Queues -> Seq(Packets)] /\ toSlaveSem \in Nat
    /\ \A q \in Queues : Len(toSlave[q]) <= ToSlaveSize

WriteOK ==
    /\ writeStarted \in BOOLEAN /\ writePc \in {"wait", "lock", "check", "write"}
    /\ hostTx \in Seq(Packets) /\ Len(hostTx) <= 1
    /\ hostTx # << >> <=> writePc # "wait"
    /\ retry \in 0..Retries /\ available \in Nat /\ txCount \in 0..(TxMod - 1)
    /\ writePc = "check" => retry > 0

ReadOK ==
    /\ busLock \in {"free", "read", "write"}
    /\ readPc \in {"open", "wait", "clear", "read", "hand"}
    /\ seenIntr \subseteq {"new", "start", "stop"}
    /\ seenLen \in 0..(RxMod - 1) /\ rxCount \in 0..(RxMod - 1) /\ lenFromSlave \in Nat

BufferOK ==
    /\ buffer \in [{0, 1} -> Seq(Packets)]
    /\ readIndex \in {-1, 0, 1} /\ writeIndex \in {0, 1}
    /\ readDataLen \in Nat /\ splitAt \in Nat /\ xferSem \in BOOLEAN

OutOK ==
    /\ fromSlave \in [Queues -> Seq(Packets)] /\ fromSlaveSem \in Nat
    /\ \A q \in Queues : Len(fromSlave[q]) <= FromSlaveSize
    /\ hostGot \in [Queues -> Seq(Nat)]
    /\ up \in BOOLEAN /\ rxStarting \in BOOLEAN /\ throttled \in BOOLEAN

HwOK ==
    /\ intr \subseteq {"new", "start", "stop"}
    /\ lenReg \in 0..(RxMod - 1) /\ tokenReg \in 0..(TxMod - 1)
    /\ sendQueue \in Seq(Packets) /\ onWire \in Seq(Packets) /\ received \in Seq(Packets)
    /\ finished \in Nat /\ emptyBufs \in Nat

InOK ==
    /\ sendSem \in Nat /\ opened \in BOOLEAN /\ hostResetSem \in BOOLEAN
    /\ slaveSent \in [Queues -> Nat]
    /\ writer \in [Writers -> Seq(Interfaces)]
    /\ \A t \in Writers : Len(writer[t]) <= 1

RecvOK ==
    /\ rxPc \in {"recv", "throttle", "sendStart", "put"}
    /\ rxHeld \in Seq(Packets) /\ Len(rxHeld) <= 1 /\ (rxHeld # << >> <=> rxPc # "recv")
    /\ rxQueue \in [Queues -> Seq(Packets)] /\ rxSem \in Nat
    /\ readerPc \in {"read", "throttle", "sendStop", "handle"}
    /\ slaveGot \in [Queues -> Seq(Nat)] /\ throttling \in BOOLEAN

Uncounted(w) == OneIf(w["serial"] = "count") + OneIf(w["others"] = "count")

ToSlaveCount == Waiting(toSlave) = toSlaveSem + Uncounted(hostWriter)
FromSlaveCount == Waiting(fromSlave) = fromSlaveSem
RxQueueCount == Waiting(rxQueue) = rxSem
SlotsCount ==
    sendSem + Held(writer) + Len(sendQueue) + Len(onWire) + finished = SendQueueSize
BufsCount ==
    emptyBufs + Len(received) + Len(rxHeld) + Waiting(rxQueue)
      + OneIf(readerPc # "read") = RxBuffers

\* The two length counters differ by what is offered; a length read before the
\* peripheral offered more says that there was nothing to read.
Lengths ==
    /\ (lenReg + RxMod - rxCount) % RxMod = Len(onWire)
    /\ readPc = "clear" => seenLen = lenReg \/ LengthSeen = 0
    /\ readPc = "read" => lenFromSlave = Len(onWire) /\ lenFromSlave > 0
    /\ lenFromSlave <= SendQueueSize

Buffers ==
    /\ readIndex # writeIndex
    /\ readIndex >= 0 => readDataLen = Len(buffer[readIndex])
    /\ splitAt > 0 => readIndex >= 0
    /\ readPc = "hand" => lenFromSlave = Len(buffer[writeIndex])

IInv ==
    /\ SendersOK /\ WriteOK /\ ReadOK /\ BufferOK /\ OutOK /\ HwOK /\ InOK /\ RecvOK
    /\ ToSlaveCount /\ FromSlaveCount /\ RxQueueCount /\ SlotsCount /\ BufsCount
    /\ CreditsTrue /\ Lengths /\ Buffers

LEMMA Sizes ==
  /\ ToSlaveSize \in Nat /\ FromSlaveSize \in Nat /\ SendQueueSize \in Nat
  /\ RxBuffers \in Nat /\ RxBuffers > 0 /\ Retries \in Nat /\ Retries > 0
  /\ TxMod \in Nat /\ RxBuffers < TxMod /\ RxMod \in Nat /\ SendQueueSize < RxMod
  BY SizesAssumption

-----------------------------------------------------------------------------
(* Packets, queues and counts.                                              *)

LEMMA QueueOfInQueues == ASSUME NEW i PROVE QueueOf(i) \in Queues
  BY DEF QueueOf, Queues

LEMMA PacketIsOne ==
  ASSUME NEW i \in Interfaces, NEW n \in Nat
  PROVE  Packet(i, n) \in Packets
  BY DEF Packet, Packets, Interfaces

LEMMA OneIfNat == ASSUME NEW c PROVE OneIf(c) \in 0..1
  BY DEF OneIf

LEMMA UncountedChange ==
  ASSUME NEW v \in [Queues -> {"idle", "count"}], NEW w \in [Queues -> {"idle", "count"}],
         NEW q \in Queues, v[q] = "count", w[q] = "idle",
         \A r \in Queues : r # q => v[r] = w[r]
  PROVE  Uncounted(v) = Uncounted(w) + 1
<1>1. CASE q = "serial"
  BY <1>1 DEF Uncounted, OneIf, Queues
<1>2. CASE q = "others"
  BY <1>2 DEF Uncounted, OneIf, Queues
<1> QED
  BY <1>1, <1>2 DEF Queues

LEMMA UncountedNat == ASSUME NEW w PROVE Uncounted(w) \in Nat
  BY DEF Uncounted, OneIf

LEMMA HeldChange ==
  ASSUME NEW v \in [Writers -> Seq(Interfaces)], NEW w \in [Writers -> Seq(Interfaces)],
         NEW t \in Writers, NEW d \in Int, Len(w[t]) = Len(v[t]) + d,
         \A u \in Writers : u # t => w[u] = v[u]
  PROVE  Held(w) = Held(v) + d
<1> DEFINE a == Len(v["serial"]) b == Len(v["sta"]) c == Len(v["reset"])
<1>1. a \in Nat /\ b \in Nat /\ c \in Nat
  BY EmptyFacts DEF Writers
<1>2. Held(v) = a + b + c
  BY Zenon DEF Held
<1> DEFINE x == Len(w["serial"]) y == Len(w["sta"]) z == Len(w["reset"])
<1>3. Held(w) = x + y + z
  BY Zenon DEF Held
<1>4. CASE t = "serial"
  <2>1. x = a + d /\ y = b /\ z = c
    BY <1>4 DEF Writers
  <2> HIDE DEF a, b, c, x, y, z
  <2> QED
    BY <1>1, <1>2, <1>3, <2>1
<1>5. CASE t = "sta"
  <2>1. x = a /\ y = b + d /\ z = c
    BY <1>5 DEF Writers
  <2> HIDE DEF a, b, c, x, y, z
  <2> QED
    BY <1>1, <1>2, <1>3, <2>1
<1>6. CASE t = "reset"
  <2>1. x = a /\ y = b /\ z = c + d
    BY <1>6 DEF Writers
  <2> HIDE DEF a, b, c, x, y, z
  <2> QED
    BY <1>1, <1>2, <1>3, <2>1
<1> QED
  BY <1>4, <1>5, <1>6 DEF Writers

LEMMA HeldNat == ASSUME NEW w \in [Writers -> Seq(Interfaces)] PROVE Held(w) \in Nat
<1> DEFINE a == Len(w["serial"]) b == Len(w["sta"]) c == Len(w["reset"])
<1>1. a \in Nat /\ b \in Nat /\ c \in Nat
  BY EmptyFacts DEF Writers
<1>2. Held(w) = a + b + c
  BY Zenon DEF Held
<1> HIDE DEF a, b, c
<1> QED
  BY <1>1, <1>2

\* One packet more, or less, in one of the queues.
LEMMA WaitingChange ==
  ASSUME NEW f \in [Queues -> Seq(Packets)], NEW g \in [Queues -> Seq(Packets)],
         NEW q \in Queues, NEW d \in Int, Len(g[q]) = Len(f[q]) + d,
         \A r \in Queues : r # q => g[r] = f[r]
  PROVE  Waiting(g) = Waiting(f) + d
<1>1. /\ Len(f["serial"]) \in Nat /\ Len(f["others"]) \in Nat
      /\ Len(g["serial"]) \in Nat /\ Len(g["others"]) \in Nat
  BY EmptyFacts DEF Queues
<1>2. /\ (Len(f["serial"]) + d) + Len(f["others"]) = Waiting(f) + d
      /\ Len(f["serial"]) + (Len(f["others"]) + d) = Waiting(f) + d
  <2>1. Len(f["serial"]) \in Int /\ Len(f["others"]) \in Int
    BY <1>1
  <2> QED
    BY <2>1, SumShift, Zenon DEF Waiting
<1>3. Waiting(g) = Len(g["serial"]) + Len(g["others"])
  BY Zenon DEF Waiting
<1>4. CASE q = "serial"
  <2>1. g["others"] = f["others"]
    BY <1>4 DEF Queues
  <2> QED
    BY <1>2, <1>3, <1>4, <2>1, Zenon
<1>5. CASE q = "others"
  <2>1. g["serial"] = f["serial"]
    BY <1>5 DEF Queues
  <2> QED
    BY <1>2, <1>3, <1>5, <2>1, Zenon
<1> QED
  BY <1>4, <1>5 DEF Queues

LEMMA WaitingFacts ==
  ASSUME NEW f \in [Queues -> Seq(Packets)]
  PROVE  /\ Waiting(f) \in Nat
         /\ \A q \in Queues : Len(f[q]) <= Waiting(f)
         /\ Waiting(f) > 0 => f[FirstQueue(f)] # << >>
<1>1. f["serial"] \in Seq(Packets) /\ f["others"] \in Seq(Packets)
  BY DEF Queues
<1>2. Len(f["serial"]) \in Nat /\ Len(f["others"]) \in Nat
  BY <1>1, EmptyFacts
<1>3. Waiting(f) \in Nat /\ \A q \in Queues : Len(f[q]) <= Waiting(f)
  BY <1>2 DEF Waiting, Queues
<1>4. ASSUME f[FirstQueue(f)] = << >> PROVE Waiting(f) = 0
  <2>1. f["serial"] = << >> /\ f["others"] = << >>
    BY <1>4, Zenon DEF FirstQueue
  <2> QED
    BY <1>1, <2>1, EmptyFacts DEF Waiting
<1> QED
  BY <1>3, <1>4

LEMMA PutFacts ==
  ASSUME NEW f \in [Queues -> Seq(Packets)], NEW p \in Packets
  PROVE  LET g == PutIn(f, p)
         IN  /\ g \in [Queues -> Seq(Packets)]
             /\ Waiting(g) = Waiting(f) + 1
             /\ \A size \in Nat :
                  Len(f[QueueOf(p.if)]) < size /\ (\A r \in Queues : Len(f[r]) <= size)
                    => \A r \in Queues : Len(g[r]) <= size
<1> DEFINE q == QueueOf(p.if)
           s == Append(f[q], p)
           g == [f EXCEPT ![q] = s]
<1>1. q \in Queues
  BY QueueOfInQueues
<1>2. g = PutIn(f, p)
  BY DEF PutIn
<1> HIDE DEF q
<1>3. s \in Seq(Packets) /\ Len(s) = Len(f[q]) + 1 /\ Len(f[q]) \in Nat
  BY <1>1, AppendFacts
<1> HIDE DEF s
<1>4. g \in [Queues -> Seq(Packets)] /\ g[q] = s /\ \A r \in Queues : r # q => g[r] = f[r]
  BY <1>1, <1>3
<1> HIDE DEF g
<1>5. 1 \in Int /\ Len(g[q]) = Len(f[q]) + 1
  BY <1>3, <1>4
<1>6. Waiting(g) = Waiting(f) + 1
  BY <1>1, <1>4, <1>5, WaitingChange, Zenon
<1>7. ASSUME NEW size \in Nat, Len(f[q]) < size, \A r \in Queues : Len(f[r]) <= size
      PROVE  \A r \in Queues : Len(g[r]) <= size
  <2>1. Len(g[q]) <= size
    BY <1>3, <1>4, <1>7
  <2> QED
    BY <1>4, <1>7, <2>1, Zenon
<1> QED
  BY <1>2, <1>4, <1>6, <1>7 DEF q

\* Who has counted a packet finds one in the queue it looks at.
LEMMA TakeFacts ==
  ASSUME NEW f \in [Queues -> Seq(Packets)], Waiting(f) > 0
  PROVE  LET q == FirstQueue(f)
             g == [f EXCEPT ![q] = Tail(f[q])]
         IN  /\ q \in Queues /\ Head(f[q]) \in Packets
             /\ g \in [Queues -> Seq(Packets)]
             /\ Waiting(g) = Waiting(f) - 1
             /\ \A r \in Queues : Len(g[r]) <= Len(f[r])
<1> DEFINE q == FirstQueue(f)
           s == Tail(f[q])
           g == [f EXCEPT ![q] = s]
<1>1. q \in Queues /\ f[q] # << >>
  BY WaitingFacts DEF FirstQueue, Queues
<1> HIDE DEF q
<1>2. /\ Head(f[q]) \in Packets /\ s \in Seq(Packets)
      /\ Len(s) = Len(f[q]) - 1 /\ Len(f[q]) \in Nat
  BY <1>1, TailFacts
<1> HIDE DEF s
<1>3. g \in [Queues -> Seq(Packets)] /\ g[q] = s /\ \A r \in Queues : r # q => g[r] = f[r]
  BY <1>1, <1>2
<1> HIDE DEF g
<1>4. -1 \in Int /\ Len(g[q]) = Len(f[q]) + (-1)
  BY <1>2, <1>3
<1>5. Waiting(g) = Waiting(f) + (-1)
  BY <1>1, <1>3, <1>4, WaitingChange, Zenon
<1>6. Waiting(g) = Waiting(f) - 1
  BY <1>5, WaitingFacts
<1>7. \A r \in Queues : Len(g[r]) <= Len(f[r])
  <2>1. Len(g[q]) <= Len(f[q])
    BY <1>2, <1>4
  <2>2. ASSUME NEW r \in Queues, r # q PROVE Len(g[r]) <= Len(f[r])
    <3>1. g[r] = f[r] /\ Len(f[r]) \in Nat
      BY <1>3, <2>2, EmptyFacts
    <3> QED
      BY <3>1
  <2> QED
    BY <2>1, <2>2, Zenon
<1> QED
  BY <1>1, <1>2, <1>3, <1>6, <1>7 DEF g, s, q

\* What a queue hands over is added to the numbers its receiver got.
LEMMA GotFacts ==
  ASSUME NEW g \in [Queues -> Seq(Nat)], NEW q \in Queues, NEW p \in Packets
  PROVE  [g EXCEPT ![q] = Append(@, p.n)] \in [Queues -> Seq(Nat)]
<1>1. p.n \in Nat
  BY DEF Packets
<1>2. Append(g[q], p.n) \in Seq(Nat)
  BY <1>1, AppendFacts
<1> QED
  BY <1>2

(* What a step leaves alone keeps each part.                                *)

LEMMA Frames ==
  /\ SendersOK /\ UNCHANGED <<hostSent, hostWriter, toSlave, toSlaveSem>> => SendersOK'
  /\ WriteOK /\ UNCHANGED <<writeStarted, writePc, hostTx, retry, available, txCount>>
       => WriteOK'
  /\ ReadOK /\ UNCHANGED <<busLock, readPc, seenIntr, seenLen, lenFromSlave, rxCount>>
       => ReadOK'
  /\ BufferOK
       /\ UNCHANGED <<buffer, readIndex, writeIndex, readDataLen, xferSem, splitAt>>
       => BufferOK'
  /\ OutOK
       /\ UNCHANGED <<fromSlave, fromSlaveSem, rxStarting, hostGot, up, throttled>>
       => OutOK'
  /\ HwOK
       /\ UNCHANGED <<intr, lenReg, sendQueue, onWire, finished, tokenReg, emptyBufs,
                      received>>
       => HwOK'
  /\ InOK /\ UNCHANGED <<opened, hostResetSem, slaveSent, writer, sendSem>> => InOK'
  /\ RecvOK
       /\ UNCHANGED <<rxPc, rxHeld, rxQueue, rxSem, readerPc, slaveGot, throttling>>
       => RecvOK'
  /\ ToSlaveCount /\ UNCHANGED <<toSlave, toSlaveSem, hostWriter>> => ToSlaveCount'
  /\ FromSlaveCount /\ UNCHANGED <<fromSlave, fromSlaveSem>> => FromSlaveCount'
  /\ RxQueueCount /\ UNCHANGED <<rxQueue, rxSem>> => RxQueueCount'
  /\ SlotsCount /\ UNCHANGED <<sendSem, writer, sendQueue, onWire, finished>> => SlotsCount'
  /\ BufsCount /\ UNCHANGED <<emptyBufs, received, rxHeld, rxQueue, readerPc>> => BufsCount'
  /\ CreditsTrue /\ UNCHANGED <<tokenReg, txCount, emptyBufs, available, writePc>>
       => CreditsTrue'
  /\ Lengths /\ UNCHANGED <<lenReg, rxCount, onWire, readPc, seenLen, lenFromSlave>>
       => Lengths'
  /\ Buffers
       /\ UNCHANGED <<readIndex, writeIndex, readDataLen, buffer, splitAt, readPc,
                      lenFromSlave>>
       => Buffers'
<1>1. SendersOK /\ UNCHANGED <<hostSent, hostWriter, toSlave, toSlaveSem>> => SendersOK'
  BY DEF SendersOK
<1>2. WriteOK /\ UNCHANGED <<writeStarted, writePc, hostTx, retry, available, txCount>>
        => WriteOK'
  BY DEF WriteOK
<1>3. ReadOK /\ UNCHANGED <<busLock, readPc, seenIntr, seenLen, lenFromSlave, rxCount>>
        => ReadOK'
  BY DEF ReadOK
<1>4. BufferOK
        /\ UNCHANGED <<buffer, readIndex, writeIndex, readDataLen, xferSem, splitAt>>
        => BufferOK'
  BY DEF BufferOK
<1>5. OutOK
        /\ UNCHANGED <<fromSlave, fromSlaveSem, rxStarting, hostGot, up, throttled>>
        => OutOK'
  BY DEF OutOK
<1>6. HwOK
        /\ UNCHANGED <<intr, lenReg, sendQueue, onWire, finished, tokenReg, emptyBufs,
                       received>>
        => HwOK'
  BY DEF HwOK
<1>7. InOK /\ UNCHANGED <<opened, hostResetSem, slaveSent, writer, sendSem>> => InOK'
  BY DEF InOK
<1>8. RecvOK
        /\ UNCHANGED <<rxPc, rxHeld, rxQueue, rxSem, readerPc, slaveGot, throttling>>
        => RecvOK'
  BY DEF RecvOK
<1>9. /\ ToSlaveCount /\ UNCHANGED <<toSlave, toSlaveSem, hostWriter>> => ToSlaveCount'
      /\ FromSlaveCount /\ UNCHANGED <<fromSlave, fromSlaveSem>> => FromSlaveCount'
      /\ RxQueueCount /\ UNCHANGED <<rxQueue, rxSem>> => RxQueueCount'
  BY Zenon DEF ToSlaveCount, FromSlaveCount, RxQueueCount, Waiting, Uncounted, OneIf
<1>10. SlotsCount /\ UNCHANGED <<sendSem, writer, sendQueue, onWire, finished>>
         => SlotsCount'
  BY Zenon DEF SlotsCount, Held
<1>11. BufsCount /\ UNCHANGED <<emptyBufs, received, rxHeld, rxQueue, readerPc>>
         => BufsCount'
  BY Zenon DEF BufsCount, Waiting, OneIf
<1>12. CreditsTrue /\ UNCHANGED <<tokenReg, txCount, emptyBufs, available, writePc>>
         => CreditsTrue'
  BY Zenon DEF CreditsTrue, TokensLeft, OneIf
<1>13. Lengths /\ UNCHANGED <<lenReg, rxCount, onWire, readPc, seenLen, lenFromSlave>>
         => Lengths'
  BY Zenon DEF Lengths, LengthSeen
<1>14. Buffers
         /\ UNCHANGED <<readIndex, writeIndex, readDataLen, buffer, splitAt, readPc,
                        lenFromSlave>>
         => Buffers'
  BY Zenon DEF Buffers
<1> QED
  BY <1>1, <1>2, <1>3, <1>4, <1>5, <1>6, <1>7, <1>8, <1>9, <1>10, <1>11, <1>12, <1>13,
     <1>14, Zenon

\* The driver's send queue holds at most as many packets as it has places.
LEMMA SlotsFacts ==
  ASSUME SlotsCount, InOK, HwOK
  PROVE  /\ Len(sendQueue) \in Nat /\ Len(onWire) \in Nat /\ Held(writer) \in Nat
         /\ sendSem \in Nat /\ finished \in Nat
         /\ Len(sendQueue) <= SendQueueSize /\ Len(onWire) <= SendQueueSize
<1>1. Len(sendQueue) \in Nat /\ Len(onWire) \in Nat /\ sendSem \in Nat /\ finished \in Nat
  BY EmptyFacts DEF HwOK, InOK
<1>2. Held(writer) \in Nat
  BY HeldNat DEF InOK
<1> QED
  BY <1>1, <1>2, Sizes DEF SlotsCount

LEMMA DoneKeepsSlots ==
  ASSUME SlotsCount, InOK, HwOK, finished' = finished - 1, sendSem' = sendSem + 1,
         Held(writer') = Held(writer), sendQueue' = sendQueue, onWire' = onWire
  PROVE  SlotsCount'
<1> DEFINE a == sendSem b == Held(writer) c == Len(sendQueue) d == Len(onWire) e == finished
<1>1. a \in Nat /\ b \in Nat /\ c \in Nat /\ d \in Nat /\ e \in Nat
  BY SlotsFacts
<1>2. a + b + c + d + e = SendQueueSize
  BY DEF SlotsCount
<1>3. sendSem' = a + 1 /\ finished' = e - 1 /\ Held(writer') = b
      /\ Len(sendQueue') = c /\ Len(onWire') = d
  OBVIOUS
<1> HIDE DEF a, b, c, d, e
<1>4. (a + 1) + b + c + d + (e - 1) = SendQueueSize
  BY <1>1, <1>2
<1> QED
  BY <1>3, <1>4, Zenon DEF SlotsCount

LEMMA BufsFacts ==
  ASSUME BufsCount, HwOK, RecvOK
  PROVE  /\ emptyBufs \in Nat /\ Len(received) \in Nat /\ Len(rxHeld) \in Nat
         /\ Waiting(rxQueue) \in Nat /\ OneIf(readerPc # "read") \in 0..1
         /\ emptyBufs + OneIf(readerPc # "read") <= RxBuffers
         /\ Len(rxHeld) + Waiting(rxQueue) <= RxBuffers
<1>1. /\ emptyBufs \in Nat /\ Len(received) \in Nat /\ Len(rxHeld) \in Nat
      /\ Waiting(rxQueue) \in Nat
  BY EmptyFacts, WaitingFacts DEF HwOK, RecvOK
<1>2. OneIf(readerPc # "read") \in 0..1
  BY OneIfNat
<1> QED
  BY <1>1, <1>2, Sizes DEF BufsCount

-----------------------------------------------------------------------------
(* The host's senders.                                                      *)

LEMMA HostSenderIInv ==
  ASSUME IInv,NEW q \in Queues,
         HostQueue(q) \/ HostCount(q)
  PROVE  IInv'
<1> USE Sizes DEF IInv, host, senders, writeTask, readTask, doubleBuf, hostOut,
        sendHw, recvHw, slaveIn, slaveOut
<1>1. CASE HostQueue(q)
  <2>1. Packet(IF q = "serial" THEN "serial" ELSE "sta", hostSent[q] + 1) \in Packets
    <3>1. (IF q = "serial" THEN "serial" ELSE "sta") \in Interfaces
      BY DEF Interfaces
    <3>2. hostSent[q] + 1 \in Nat
      BY DEF SendersOK
    <3> QED
      BY <3>1, <3>2, PacketIsOne, Zenon
  <2>2. /\ toSlave' = PutIn(toSlave, Packet(IF q = "serial" THEN "serial" ELSE "sta",
                                           hostSent[q] + 1))
        /\ Len(toSlave[q]) < ToSlaveSize
        /\ QueueOf(IF q = "serial" THEN "serial" ELSE "sta") = q
    BY <1>1 DEF HostQueue, QueueOf, Queues
  <2>3. /\ toSlave' \in [Queues -> Seq(Packets)]
        /\ Waiting(toSlave') = Waiting(toSlave) + 1
        /\ \A r \in Queues : Len(toSlave'[r]) <= ToSlaveSize
    BY <2>1, <2>2, PutFacts DEF SendersOK, Packet
  <2>4. /\ WriteOK' /\ ReadOK' /\ BufferOK' /\ OutOK' /\ HwOK' /\ InOK' /\ RecvOK'
        /\ FromSlaveCount' /\ RxQueueCount' /\ SlotsCount' /\ BufsCount' /\ CreditsTrue'
        /\ Lengths' /\ Buffers'
    BY <1>1, Frames DEF HostQueue
  <2>5. SendersOK'
    BY <1>1, <2>3 DEF HostQueue, SendersOK
  <2>6. ToSlaveCount'
    <3>1. Uncounted(hostWriter') = Uncounted(hostWriter) + 1
      <4>1. /\ hostWriter \in [Queues -> {"idle", "count"}]
            /\ hostWriter' \in [Queues -> {"idle", "count"}]
        BY <1>1 DEF HostQueue, SendersOK
      <4>2. /\ hostWriter'[q] = "count" /\ hostWriter[q] = "idle"
            /\ \A r \in Queues : r # q => hostWriter'[r] = hostWriter[r]
        BY <1>1, <4>1 DEF HostQueue
      <4> QED
        BY <4>1, <4>2, UncountedChange
    <3>2. toSlaveSem' = toSlaveSem /\ toSlaveSem \in Nat
      BY <1>1 DEF HostQueue, SendersOK
    <3> QED
      BY <2>3, <3>1, <3>2, UncountedNat DEF ToSlaveCount
  <2> QED
    BY <2>4, <2>5, <2>6 DEF IInv
<1>2. CASE HostCount(q)
  <2>1. /\ WriteOK' /\ ReadOK' /\ BufferOK' /\ OutOK' /\ HwOK' /\ InOK' /\ RecvOK'
        /\ FromSlaveCount' /\ RxQueueCount' /\ SlotsCount' /\ BufsCount' /\ CreditsTrue'
        /\ Lengths' /\ Buffers'
    BY <1>2, Frames DEF HostCount
  <2>2. SendersOK'
    BY <1>2 DEF HostCount, SendersOK
  <2>3. ToSlaveCount'
    <3>1. Uncounted(hostWriter) = Uncounted(hostWriter') + 1
      <4>1. /\ hostWriter \in [Queues -> {"idle", "count"}]
            /\ hostWriter' \in [Queues -> {"idle", "count"}]
        BY <1>2 DEF HostCount, SendersOK
      <4>2. /\ hostWriter[q] = "count" /\ hostWriter'[q] = "idle"
            /\ \A r \in Queues : r # q => hostWriter[r] = hostWriter'[r]
        BY <1>2, <4>1 DEF HostCount
      <4> QED
        BY <4>1, <4>2, UncountedChange
    <3>2. toSlaveSem' = toSlaveSem + 1 /\ toSlaveSem \in Nat /\ toSlave' = toSlave
      BY <1>2 DEF HostCount, SendersOK
    <3> QED
      BY <3>1, <3>2, UncountedNat DEF ToSlaveCount
  <2> QED
    BY <2>1, <2>2, <2>3 DEF IInv
<1> QED
  BY <1>1, <1>2

-----------------------------------------------------------------------------
(* sdio_write_task.                                                         *)

LEMMA WriteTaskIInv ==
  ASSUME IInv,WriteTake \/ WriteLock \/ UseKnownBuffer \/ ReadTokens
         \/ WriteBlock
  PROVE  IInv'
<1> USE Sizes DEF IInv, host, senders, writeTask, readTask, doubleBuf, hostOut,
        sendHw, recvHw, slaveIn, slaveOut
<1>1. CASE WriteTake
  <2>1. Waiting(toSlave) \in Nat /\ Waiting(toSlave) > 0
    BY <1>1, UncountedNat DEF WriteTake, SendersOK, ToSlaveCount
  <2>2. /\ FirstQueue(toSlave) \in Queues /\ Head(toSlave[FirstQueue(toSlave)]) \in Packets
        /\ toSlave' \in [Queues -> Seq(Packets)]
        /\ Waiting(toSlave') = Waiting(toSlave) - 1
        /\ \A r \in Queues : Len(toSlave'[r]) <= ToSlaveSize
    <3>1. toSlave' = [toSlave EXCEPT ![FirstQueue(toSlave)] =
                        Tail(toSlave[FirstQueue(toSlave)])]
      BY <1>1 DEF WriteTake
    <3>2. \A r \in Queues : Len(toSlave[r]) \in Nat /\ Len(toSlave'[r]) <= Len(toSlave[r])
      BY <2>1, <3>1, TakeFacts, EmptyFacts DEF SendersOK
    <3>3. \A r \in Queues : Len(toSlave'[r]) \in Nat
      BY <2>1, <3>1, TakeFacts, EmptyFacts DEF SendersOK
    <3>4. \A r \in Queues : Len(toSlave'[r]) <= ToSlaveSize
      BY <3>2, <3>3 DEF SendersOK
    <3> QED
      BY <2>1, <3>1, <3>4, TakeFacts DEF SendersOK
  <2>3. hostTx' \in Seq(Packets) /\ Len(hostTx') = 1 /\ hostTx' # << >>
    BY <1>1, <2>2, OneFacts DEF WriteTake
  <2>4. /\ ReadOK' /\ BufferOK' /\ OutOK' /\ HwOK' /\ InOK' /\ RecvOK'
        /\ FromSlaveCount' /\ RxQueueCount' /\ SlotsCount' /\ BufsCount' /\ Lengths'
        /\ Buffers'
    BY <1>1, Frames DEF WriteTake
  <2>5. SendersOK'
    BY <1>1, <2>2 DEF WriteTake, SendersOK
  <2>6. WriteOK'
    BY <1>1, <2>2, <2>3 DEF WriteTake, WriteOK
  <2>7. ToSlaveCount'
    <3> DEFINE u == Uncounted(hostWriter)
    <3>1. hostWriter' = hostWriter /\ toSlaveSem' = toSlaveSem - 1 /\ toSlaveSem \in Nat
      BY <1>1 DEF WriteTake, SendersOK
    <3>2. u \in Nat /\ Uncounted(hostWriter') = u
      BY <3>1, UncountedNat
    <3>3. Waiting(toSlave) = toSlaveSem + u
      BY Zenon DEF ToSlaveCount
    <3> HIDE DEF u
    <3>4. Waiting(toSlave') = (toSlaveSem - 1) + u
      BY <2>2, <3>1, <3>2, <3>3
    <3> QED
      BY <3>1, <3>2, <3>4, Zenon DEF ToSlaveCount
  <2>8. CreditsTrue'
    BY <1>1 DEF WriteTake, CreditsTrue, TokensLeft, OneIf
  <2> QED
    BY <2>4, <2>5, <2>6, <2>7, <2>8 DEF IInv
<1>2. CASE WriteLock
  <2>1. /\ SendersOK' /\ BufferOK' /\ OutOK' /\ HwOK' /\ InOK' /\ RecvOK'
        /\ ToSlaveCount' /\ FromSlaveCount' /\ RxQueueCount' /\ SlotsCount'
        /\ BufsCount' /\ Lengths' /\ Buffers'
    BY <1>2, Frames DEF WriteLock
  <2>2. WriteOK'
    BY <1>2 DEF WriteLock, WriteOK
  <2>3. ReadOK'
    BY <1>2 DEF WriteLock, ReadOK
  <2>4. CreditsTrue'
    BY <1>2 DEF WriteLock, CreditsTrue, TokensLeft, OneIf
  <2> QED
    BY <2>1, <2>2, <2>3, <2>4 DEF IInv
<1>3. CASE UseKnownBuffer
  <2>1. /\ SendersOK' /\ ReadOK' /\ BufferOK' /\ OutOK' /\ HwOK' /\ InOK' /\ RecvOK'
        /\ ToSlaveCount' /\ FromSlaveCount' /\ RxQueueCount' /\ SlotsCount'
        /\ BufsCount' /\ Lengths' /\ Buffers'
    BY <1>3, Frames DEF UseKnownBuffer
  <2>2. WriteOK'
    BY <1>3 DEF UseKnownBuffer, WriteOK
  <2>3. CreditsTrue'
    <3>1. emptyBufs \in Nat /\ available \in Nat
      BY DEF HwOK, WriteOK
    <3> QED
      BY <1>3, <3>1 DEF UseKnownBuffer, CreditsTrue, TokensLeft, OneIf
  <2> QED
    BY <2>1, <2>2, <2>3 DEF IInv
<1>4. CASE ReadTokens
  <2>1. /\ TokensLeft \in Nat /\ TokensLeft' = TokensLeft /\ TokensLeft = emptyBufs
        /\ emptyBufs' = emptyBufs
    BY <1>4 DEF ReadTokens, CreditsTrue, HwOK, TokensLeft
  <2>2. /\ SendersOK' /\ BufferOK' /\ OutOK' /\ HwOK' /\ InOK' /\ RecvOK'
        /\ ToSlaveCount' /\ FromSlaveCount' /\ RxQueueCount' /\ SlotsCount'
        /\ BufsCount' /\ Lengths' /\ Buffers'
    BY <1>4, Frames DEF ReadTokens
  <2>3. WriteOK'
    <3>1. CASE TokensLeft > 0
      BY <1>4, <2>1, <3>1 DEF ReadTokens, WriteOK
    <3>2. CASE ~(TokensLeft > 0)
      <4>1. retry > 0
        BY <1>4 DEF ReadTokens, WriteOK
      <4>2. /\ retry' = retry - 1 /\ available' = 0 /\ UNCHANGED <<writeStarted, txCount>>
            /\ writePc = "check" /\ retry \in 0..Retries
        BY <1>4, <3>2 DEF ReadTokens, WriteOK
      <4>3. CASE retry > 1
        BY <1>4, <3>2, <4>2, <4>3 DEF ReadTokens, WriteOK
      <4>4. CASE ~(retry > 1)
        <5>1. writePc' = "wait" /\ hostTx' = << >>
          BY <1>4, <3>2, <4>4 DEF ReadTokens
        <5>2. << >> \in Seq(Packets) /\ Len(<< >>) = 0
          OBVIOUS
        <5>3. retry' \in 0..Retries
          BY <4>1, <4>2
        <5> QED
          BY <4>2, <5>1, <5>2, <5>3 DEF WriteOK
      <4> QED
        BY <4>3, <4>4
    <3> QED
      BY <3>1, <3>2
  <2>4. ReadOK'
    BY <1>4 DEF ReadTokens, ReadOK
  <2>5. CreditsTrue'
    BY <1>4, <2>1 DEF ReadTokens, CreditsTrue, OneIf
  <2> QED
    BY <2>2, <2>3, <2>4, <2>5 DEF IInv
<1>5. CASE WriteBlock
  <2>1. /\ emptyBufs \in Nat /\ emptyBufs > 0 /\ emptyBufs' = emptyBufs - 1
        /\ TokensLeft = emptyBufs /\ available \in Nat /\ available + 1 <= emptyBufs
    BY <1>5 DEF WriteBlock, HwOK, CreditsTrue, WriteOK, OneIf
  <2>2. received' \in Seq(Packets) /\ Len(received') = Len(received) + 1
    <3>1. Len(hostTx) = 1 /\ hostTx \in Seq(Packets) /\ received \in Seq(Packets)
      <4>1. hostTx # << >> /\ Len(hostTx) <= 1 /\ hostTx \in Seq(Packets)
        BY <1>5 DEF WriteBlock, WriteOK
      <4> QED
        BY <4>1, OnlyFacts DEF HwOK
    <3>2. received' = received \o hostTx
      BY <1>5 DEF WriteBlock
    <3> QED
      BY <3>1, <3>2, JoinFacts
  <2>3. txCount' \in 0..(TxMod - 1) /\ TokensLeft' = TokensLeft - 1
    <3>1. tokenReg \in 0..(TxMod - 1) /\ txCount \in 0..(TxMod - 1) /\ 1 \in 0..(TxMod - 1)
      BY DEF HwOK, WriteOK
    <3>2. (tokenReg + TxMod - txCount) % TxMod = emptyBufs
      BY <2>1, Zenon DEF TokensLeft
    <3>3. txCount' = (txCount + 1) % TxMod /\ tokenReg' = tokenReg
      BY <1>5 DEF WriteBlock, CountWritten
    <3>4. emptyBufs \in Nat /\ 1 <= emptyBufs
      BY <2>1
    <3>5. /\ txCount' \in 0..(TxMod - 1)
          /\ (tokenReg + TxMod - txCount') % TxMod = emptyBufs - 1
      BY <3>1, <3>2, <3>3, <3>4, BehindMoves
    <3>6. TokensLeft' = emptyBufs - 1
      BY <3>3, <3>5, Zenon DEF TokensLeft
    <3> QED
      BY <2>1, <3>5, <3>6
  <2>4. /\ SendersOK' /\ BufferOK' /\ OutOK' /\ InOK' /\ RecvOK' /\ ToSlaveCount'
        /\ FromSlaveCount' /\ RxQueueCount' /\ SlotsCount' /\ Lengths' /\ Buffers'
    BY <1>5, Frames DEF WriteBlock
  <2>5. WriteOK'
    BY <1>5, <2>3 DEF WriteBlock, WriteOK
  <2>6. ReadOK'
    BY <1>5 DEF WriteBlock, ReadOK
  <2>7. HwOK'
    BY <1>5, <2>2 DEF WriteBlock, HwOK
  <2>8. BufsCount'
    <3>1. /\ emptyBufs' = emptyBufs - 1 /\ rxHeld' = rxHeld /\ rxQueue' = rxQueue
          /\ readerPc' = readerPc
      BY <1>5 DEF WriteBlock
    <3>2. OneIf(readerPc' # "read") = OneIf(readerPc # "read")
      BY <3>1, Zenon
    <3> QED
      BY <2>2, <3>1, <3>2, BufsFacts DEF BufsCount
  <2>9. CreditsTrue'
    BY <1>5, <2>1, <2>3 DEF WriteBlock, CreditsTrue, OneIf, WriteOK
  <2> QED
    BY <2>4, <2>5, <2>6, <2>7, <2>8, <2>9 DEF IInv
<1> QED
  BY <1>1, <1>2, <1>3, <1>4, <1>5

-----------------------------------------------------------------------------
(* sdio_read_task.                                                          *)

LEMMA ReadTaskIInv ==
  ASSUME IInv,OpenDataPath \/ ReadRegs \/ ClearIntr \/ ReadBlock
         \/ HandOver
  PROVE  IInv'
<1> USE Sizes DEF IInv, host, senders, writeTask, readTask, doubleBuf, hostOut,
        sendHw, recvHw, slaveIn, slaveOut
<1>1. CASE OpenDataPath
  <2>1. /\ SendersOK' /\ WriteOK' /\ BufferOK' /\ OutOK' /\ HwOK' /\ RecvOK'
        /\ ToSlaveCount' /\ FromSlaveCount' /\ RxQueueCount' /\ SlotsCount'
        /\ BufsCount' /\ CreditsTrue'
    BY <1>1, Frames DEF OpenDataPath
  <2>2. ReadOK'
    BY <1>1 DEF OpenDataPath, ReadOK
  <2>3. InOK'
    BY <1>1 DEF OpenDataPath, InOK
  <2>4. Lengths'
    BY <1>1 DEF OpenDataPath, Lengths, LengthSeen
  <2>5. Buffers'
    BY <1>1 DEF OpenDataPath, Buffers
  <2> QED
    BY <2>1, <2>2, <2>3, <2>4, <2>5 DEF IInv
<1>2. CASE ReadRegs
  <2>1. /\ SendersOK' /\ WriteOK' /\ BufferOK' /\ OutOK' /\ HwOK' /\ InOK' /\ RecvOK'
        /\ ToSlaveCount' /\ FromSlaveCount' /\ RxQueueCount' /\ SlotsCount'
        /\ BufsCount' /\ CreditsTrue'
    BY <1>2, Frames DEF ReadRegs
  <2>2. ReadOK'
    BY <1>2 DEF ReadRegs, ReadOK, HwOK
  <2>3. Lengths'
    BY <1>2 DEF ReadRegs, Lengths, LengthSeen
  <2>4. Buffers'
    BY <1>2 DEF ReadRegs, Buffers
  <2> QED
    BY <2>1, <2>2, <2>3, <2>4 DEF IInv
<1>3. CASE ClearIntr
  <2>1. LengthSeen \in Nat /\ LengthSeen' = LengthSeen
    <3>1. LengthSeen \in Nat
      <4>1. seenLen + RxMod - rxCount \in Int /\ RxMod \in Nat /\ RxMod > 0
        BY DEF ReadOK
      <4> QED
        BY <4>1 DEF LengthSeen
    <3>2. seenLen' = seenLen /\ rxCount' = rxCount
      BY <1>3 DEF ClearIntr
    <3> QED
      BY <3>1, <3>2, Zenon DEF LengthSeen
  <2>2. /\ LengthSeen > 0 => LengthSeen = Len(onWire)
        /\ Len(onWire) <= SendQueueSize
    <3>1. Len(onWire) <= SendQueueSize
      BY SlotsFacts
    <3>2. LengthSeen > 0 => seenLen = lenReg
      BY <1>3, <2>1 DEF ClearIntr, Lengths
    <3>3. seenLen = lenReg => LengthSeen = Len(onWire)
      BY Zenon DEF Lengths, LengthSeen
    <3> QED
      BY <3>1, <3>2, <3>3
  <2>3. /\ SendersOK' /\ WriteOK' /\ BufferOK' /\ InOK' /\ RecvOK' /\ ToSlaveCount'
        /\ FromSlaveCount' /\ RxQueueCount' /\ SlotsCount' /\ BufsCount' /\ CreditsTrue'
    BY <1>3, Frames DEF ClearIntr
  <2>4. ReadOK'
    BY <1>3, <2>1 DEF ClearIntr, ReadOK
  <2>5. OutOK'
    BY <1>3 DEF ClearIntr, OutOK, AfterThrottle
  <2>6. HwOK'
    BY <1>3 DEF ClearIntr, HwOK
  <2>7. Lengths'
    BY <1>3, <2>1, <2>2 DEF ClearIntr, Lengths, HwOK
  <2>8. Buffers'
    BY <1>3 DEF ClearIntr, Buffers
  <2> QED
    BY <2>3, <2>4, <2>5, <2>6, <2>7, <2>8 DEF IInv
<1>4. CASE ReadBlock
  <2>1. /\ buffer' = [buffer EXCEPT ![writeIndex] = onWire]
        /\ onWire' = << >> /\ finished' = finished + Len(onWire)
        /\ lenFromSlave = Len(onWire) /\ onWire \in Seq(Packets) /\ Len(onWire) \in Nat
    <3>1. lenFromSlave = Len(onWire) /\ onWire \in Seq(Packets) /\ Len(onWire) \in Nat
      BY <1>4 DEF ReadBlock, Lengths, HwOK
    <3>2. /\ SubSeq(onWire, 1, Len(onWire)) = onWire
          /\ SubSeq(onWire, Len(onWire) + 1, Len(onWire)) = << >>
      BY <3>1
    <3> QED
      BY <1>4, <3>1, <3>2 DEF ReadBlock
  <2>2. rxCount' \in 0..(RxMod - 1) /\ (lenReg' + RxMod - rxCount') % RxMod = 0
    <3> DEFINE k == Len(onWire)
    <3>1. lenReg \in 0..(RxMod - 1) /\ rxCount \in 0..(RxMod - 1) /\ k \in 0..(RxMod - 1)
      BY SlotsFacts DEF HwOK, ReadOK
    <3>2. (lenReg + RxMod - rxCount) % RxMod = k
      BY DEF Lengths
    <3>3. rxCount' = (rxCount + k) % RxMod /\ lenReg' = lenReg
      BY <1>4, <2>1 DEF ReadBlock, CountRead
    <3> HIDE DEF k
    <3>4. k <= k /\ k \in Nat /\ k - k = 0
      BY <3>1
    <3>5. rxCount' \in 0..(RxMod - 1) /\ (lenReg + RxMod - rxCount') % RxMod = k - k
      BY <3>1, <3>2, <3>3, <3>4, BehindMoves
    <3> QED
      BY <3>3, <3>4, <3>5, Zenon
  <2>3. /\ SendersOK' /\ WriteOK' /\ OutOK' /\ InOK' /\ RecvOK' /\ ToSlaveCount'
        /\ FromSlaveCount' /\ RxQueueCount' /\ BufsCount' /\ CreditsTrue'
    BY <1>4, Frames DEF ReadBlock
  <2>4. ReadOK'
    BY <1>4, <2>2 DEF ReadBlock, ReadOK
  <2>5. BufferOK'
    BY <1>4, <2>1 DEF ReadBlock, BufferOK
  <2>6. HwOK'
    BY <1>4, <2>1 DEF ReadBlock, HwOK
  <2>7. SlotsCount'
    <3>1. /\ sendSem' = sendSem /\ Held(writer') = Held(writer) /\ sendQueue' = sendQueue
          /\ Len(onWire') = 0
      BY <1>4, <2>1 DEF ReadBlock, Held
    <3> QED
      BY <2>1, <3>1, SlotsFacts DEF SlotsCount
  <2>8. Lengths'
    <3>1. /\ readPc' = "hand" /\ lenFromSlave' = lenFromSlave /\ lenReg' = lenReg
          /\ Len(onWire') = 0
      BY <1>4, <2>1 DEF ReadBlock
    <3>2. (lenReg' + RxMod - rxCount') % RxMod = Len(onWire')
      BY <2>2, <3>1, Zenon
    <3> QED
      BY <3>1, <3>2 DEF Lengths
  <2>9. Buffers'
    BY <1>4, <2>1 DEF ReadBlock, Buffers, BufferOK
  <2> QED
    BY <2>3, <2>4, <2>5, <2>6, <2>7, <2>8, <2>9 DEF IInv
<1>5. CASE HandOver
  <2>1. writeIndex \in {0, 1} /\ 1 - writeIndex \in {0, 1} /\ 1 - writeIndex # writeIndex
    BY DEF BufferOK
  <2>2. /\ SendersOK' /\ WriteOK' /\ OutOK' /\ HwOK' /\ InOK' /\ RecvOK'
        /\ ToSlaveCount' /\ FromSlaveCount' /\ RxQueueCount' /\ SlotsCount'
        /\ BufsCount' /\ CreditsTrue'
    BY <1>5, Frames DEF HandOver
  <2>3. ReadOK'
    BY <1>5 DEF HandOver, ReadOK
  <2>4. BufferOK'
    BY <1>5, <2>1 DEF HandOver, BufferOK, HandOverBuffer, ReadOK
  <2>5. Lengths'
    BY <1>5 DEF HandOver, Lengths, LengthSeen
  <2>6. Buffers'
    BY <1>5, <2>1 DEF HandOver, Buffers, HandOverBuffer, BufferOK
  <2> QED
    BY <2>2, <2>3, <2>4, <2>5, <2>6 DEF IInv
<1> QED
  BY <1>1, <1>2, <1>3, <1>4, <1>5

-----------------------------------------------------------------------------
(* sdio_data_to_rx_buf_task and sdio_process_rx_task.                       *)

LEMMA HostRxIInv ==
  ASSUME IInv,SplitTake \/ SplitPush \/ SplitDone \/ HostRxTask
         \/ StartWriteTask
  PROVE  IInv'
<1> USE Sizes DEF IInv, host, senders, writeTask, readTask, doubleBuf, hostOut,
        sendHw, recvHw, slaveIn, slaveOut
<1>1. CASE SplitTake
  <2>1. /\ SendersOK' /\ WriteOK' /\ ReadOK' /\ OutOK' /\ HwOK' /\ InOK' /\ RecvOK'
        /\ ToSlaveCount' /\ FromSlaveCount' /\ RxQueueCount' /\ SlotsCount'
        /\ BufsCount' /\ CreditsTrue' /\ Lengths'
    BY <1>1, Frames DEF SplitTake
  <2>2. BufferOK'
    BY <1>1 DEF SplitTake, BufferOK
  <2>3. Buffers'
    BY <1>1 DEF SplitTake, Buffers, BufferOK
  <2> QED
    BY <2>1, <2>2, <2>3 DEF IInv
<1>2. CASE SplitPush
  <2>1. buffer[readIndex][splitAt] \in Packets
    <3>1. /\ readIndex \in {0, 1} /\ splitAt \in 1..Len(buffer[readIndex])
      BY <1>2 DEF SplitPush, Buffers, BufferOK
    <3>2. buffer[readIndex] \in Seq(Packets)
      BY <3>1 DEF BufferOK
    <3> QED
      BY <3>1, <3>2
  <2>2. /\ fromSlave' \in [Queues -> Seq(Packets)]
        /\ Waiting(fromSlave') = Waiting(fromSlave) + 1
        /\ \A r \in Queues : Len(fromSlave'[r]) <= FromSlaveSize
    <3> DEFINE p == buffer[readIndex][splitAt]
    <3>1. fromSlave' = PutIn(fromSlave, p) /\ Len(fromSlave[QueueOf(p.if)]) < FromSlaveSize
      BY <1>2 DEF SplitPush
    <3>2. p \in Packets
      BY <2>1
    <3> HIDE DEF p
    <3> QED
      BY <3>1, <3>2, PutFacts DEF OutOK
  <2>3. /\ SendersOK' /\ WriteOK' /\ ReadOK' /\ HwOK' /\ InOK' /\ RecvOK'
        /\ ToSlaveCount' /\ RxQueueCount' /\ SlotsCount' /\ BufsCount' /\ CreditsTrue'
        /\ Lengths'
    BY <1>2, Frames DEF SplitPush
  <2>4. BufferOK'
    BY <1>2 DEF SplitPush, BufferOK
  <2>5. OutOK'
    BY <1>2, <2>2 DEF SplitPush, OutOK
  <2>6. FromSlaveCount'
    BY <1>2, <2>2 DEF SplitPush, FromSlaveCount
  <2>7. Buffers'
    BY <1>2 DEF SplitPush, Buffers, BufferOK
  <2> QED
    BY <2>3, <2>4, <2>5, <2>6, <2>7 DEF IInv
<1>3. CASE SplitDone
  <2>1. /\ SendersOK' /\ WriteOK' /\ ReadOK' /\ OutOK' /\ HwOK' /\ InOK' /\ RecvOK'
        /\ ToSlaveCount' /\ FromSlaveCount' /\ RxQueueCount' /\ SlotsCount'
        /\ BufsCount' /\ CreditsTrue' /\ Lengths'
    BY <1>3, Frames DEF SplitDone
  <2>2. BufferOK'
    BY <1>3 DEF SplitDone, BufferOK
  <2>3. Buffers'
    BY <1>3 DEF SplitDone, Buffers, BufferOK
  <2> QED
    BY <2>1, <2>2, <2>3 DEF IInv
<1>4. CASE HostRxTask
  <2>1. Waiting(fromSlave) \in Nat /\ Waiting(fromSlave) > 0
    BY <1>4 DEF HostRxTask, OutOK, FromSlaveCount
  <2>2. /\ FirstQueue(fromSlave) \in Queues
        /\ Head(fromSlave[FirstQueue(fromSlave)]) \in Packets
        /\ fromSlave' \in [Queues -> Seq(Packets)]
        /\ Waiting(fromSlave') = Waiting(fromSlave) - 1
        /\ \A r \in Queues : Len(fromSlave'[r]) <= FromSlaveSize
    <3>1. fromSlave' = [fromSlave EXCEPT ![FirstQueue(fromSlave)] =
                          Tail(fromSlave[FirstQueue(fromSlave)])]
      BY <1>4 DEF HostRxTask
    <3>2. \A r \in Queues : /\ Len(fromSlave[r]) \in Nat
                             /\ Len(fromSlave'[r]) <= Len(fromSlave[r])
      BY <2>1, <3>1, TakeFacts, EmptyFacts DEF OutOK
    <3>3. \A r \in Queues : Len(fromSlave'[r]) \in Nat
      BY <2>1, <3>1, TakeFacts, EmptyFacts DEF OutOK
    <3>4. \A r \in Queues : Len(fromSlave'[r]) <= FromSlaveSize
      BY <3>2, <3>3 DEF OutOK
    <3> QED
      BY <2>1, <3>1, <3>4, TakeFacts DEF OutOK
  <2>3. hostGot' \in [Queues -> Seq(Nat)]
    <3>1. hostGot' = [hostGot EXCEPT ![FirstQueue(fromSlave)] =
                        Append(@, Head(fromSlave[FirstQueue(fromSlave)]).n)]
      BY <1>4 DEF HostRxTask
    <3> QED
      BY <2>2, <3>1, GotFacts DEF OutOK
  <2>4. /\ SendersOK' /\ WriteOK' /\ ReadOK' /\ BufferOK' /\ HwOK' /\ InOK' /\ RecvOK'
        /\ ToSlaveCount' /\ RxQueueCount' /\ SlotsCount' /\ BufsCount' /\ CreditsTrue'
        /\ Lengths' /\ Buffers'
    BY <1>4, Frames DEF HostRxTask
  <2>5. OutOK'
    BY <1>4, <2>2, <2>3 DEF HostRxTask, OutOK
  <2>6. FromSlaveCount'
    <3>1. fromSlaveSem' = fromSlaveSem - 1
      BY <1>4 DEF HostRxTask
    <3> QED
      BY <2>1, <2>2, <3>1 DEF FromSlaveCount, OutOK
  <2> QED
    BY <2>4, <2>5, <2>6 DEF IInv
<1>5. CASE StartWriteTask
  <2>1. /\ SendersOK' /\ ReadOK' /\ BufferOK' /\ HwOK' /\ InOK' /\ RecvOK'
        /\ ToSlaveCount' /\ FromSlaveCount' /\ RxQueueCount' /\ SlotsCount'
        /\ BufsCount' /\ CreditsTrue' /\ Lengths' /\ Buffers'
    BY <1>5, Frames DEF StartWriteTask
  <2>2. WriteOK'
    BY <1>5 DEF StartWriteTask, WriteOK
  <2>3. OutOK'
    BY <1>5 DEF StartWriteTask, OutOK
  <2> QED
    BY <2>1, <2>2, <2>3 DEF IInv
<1> QED
  BY <1>1, <1>2, <1>3, <1>4, <1>5

-----------------------------------------------------------------------------
(* The co-processor's writers and the peripheral.                           *)

LEMMA SlaveWriterIInv ==
  ASSUME IInv,NEW t \in Writers, NEW i \in {"serial", "sta"},
         SlaveWrite(i) \/ SlaveStartup \/ SlaveQueue(t) \/ OfferStream \/ TxDone
  PROVE  IInv'
<1> USE Sizes DEF IInv, host, senders, writeTask, readTask, doubleBuf, hostOut,
        sendHw, recvHw, slaveIn, slaveOut
<1>1. CASE SlaveWrite(i)
  <2>1. /\ writer' = [writer EXCEPT ![i] = <<i>>] /\ writer[i] = << >>
        /\ writer' \in [Writers -> Seq(Interfaces)] /\ Len(writer'[i]) = 1
    <3>1. <<i>> \in Seq(Interfaces) /\ Len(<<i>>) = 1 /\ i \in Writers
      BY OneFacts DEF Interfaces, Writers
    <3>2. writer' = [writer EXCEPT ![i] = <<i>>] /\ writer[i] = << >>
      BY <1>1 DEF SlaveWrite, TakeSlot
    <3> QED
      BY <3>1, <3>2 DEF InOK
  <2>2. Held(writer') = Held(writer) + 1
    <3>1. i \in Writers /\ Len(writer[i]) = 0
      BY <2>1 DEF Writers
    <3>2. Len(writer'[i]) = Len(writer[i]) + 1 /\ 1 \in Int
      BY <2>1, <3>1
    <3>3. \A u \in Writers : u # i => writer'[u] = writer[u]
      BY <2>1 DEF InOK
    <3>4. writer \in [Writers -> Seq(Interfaces)] /\ writer' \in [Writers -> Seq(Interfaces)]
      BY <2>1 DEF InOK
    <3> QED
      BY <3>1, <3>2, <3>3, <3>4, HeldChange
  <2>3. /\ SendersOK' /\ WriteOK' /\ ReadOK' /\ BufferOK' /\ OutOK' /\ HwOK' /\ RecvOK'
        /\ ToSlaveCount' /\ FromSlaveCount' /\ RxQueueCount' /\ BufsCount'
        /\ CreditsTrue' /\ Lengths' /\ Buffers'
    BY <1>1, Frames DEF SlaveWrite, TakeSlot
  <2>4. InOK'
    <3>1. hostResetSem' \in BOOLEAN /\ opened' \in BOOLEAN
      BY <1>1 DEF SlaveWrite, TakeSlot, InOK
    <3>2. sendSem' \in Nat /\ slaveSent' \in [Queues -> Nat]
      BY <1>1 DEF SlaveWrite, TakeSlot, InOK
    <3>3. \A u \in Writers : Len(writer'[u]) <= 1
      BY <2>1 DEF InOK
    <3> QED
      BY <2>1, <3>1, <3>2, <3>3 DEF InOK
  <2>5. SlotsCount'
    <3>1. /\ sendSem' = sendSem - 1 /\ sendSem \in Nat
          /\ sendQueue' = sendQueue /\ onWire' = onWire /\ finished' = finished
      BY <1>1 DEF SlaveWrite, TakeSlot, InOK, host, sendHw
    <3> QED
      BY <2>2, <3>1, SlotsFacts DEF SlotsCount
  <2> QED
    BY <2>3, <2>4, <2>5 DEF IInv
<1>2. CASE SlaveStartup
  <2>1. /\ writer' = [writer EXCEPT !["reset"] = <<"priv">>] /\ writer["reset"] = << >>
        /\ writer' \in [Writers -> Seq(Interfaces)] /\ Len(writer'["reset"]) = 1
    <3>1. <<"priv">> \in Seq(Interfaces) /\ Len(<<"priv">>) = 1 /\ "reset" \in Writers
      BY OneFacts DEF Interfaces, Writers
    <3>2. writer' = [writer EXCEPT !["reset"] = <<"priv">>] /\ writer["reset"] = << >>
      BY <1>2 DEF SlaveStartup, TakeSlot
    <3> QED
      BY <3>1, <3>2 DEF InOK
  <2>2. Held(writer') = Held(writer) + 1
    <3>1. "reset" \in Writers /\ Len(writer["reset"]) = 0
      BY <2>1 DEF Writers
    <3>2. Len(writer'["reset"]) = Len(writer["reset"]) + 1 /\ 1 \in Int
      BY <2>1, <3>1
    <3>3. \A u \in Writers : u # "reset" => writer'[u] = writer[u]
      BY <2>1 DEF InOK
    <3>4. writer \in [Writers -> Seq(Interfaces)] /\ writer' \in [Writers -> Seq(Interfaces)]
      BY <2>1 DEF InOK
    <3> QED
      BY <3>1, <3>2, <3>3, <3>4, HeldChange
  <2>3. /\ SendersOK' /\ WriteOK' /\ ReadOK' /\ BufferOK' /\ OutOK' /\ HwOK' /\ RecvOK'
        /\ ToSlaveCount' /\ FromSlaveCount' /\ RxQueueCount' /\ BufsCount'
        /\ CreditsTrue' /\ Lengths' /\ Buffers'
    BY <1>2, Frames DEF SlaveStartup, TakeSlot
  <2>4. InOK'
    <3>1. hostResetSem' \in BOOLEAN /\ opened' \in BOOLEAN
      BY <1>2 DEF SlaveStartup, TakeSlot, InOK
    <3>2. sendSem' \in Nat /\ slaveSent' \in [Queues -> Nat]
      BY <1>2 DEF SlaveStartup, TakeSlot, InOK
    <3>3. \A u \in Writers : Len(writer'[u]) <= 1
      BY <2>1 DEF InOK
    <3> QED
      BY <2>1, <3>1, <3>2, <3>3 DEF InOK
  <2>5. SlotsCount'
    <3>1. /\ sendSem' = sendSem - 1 /\ sendSem \in Nat
          /\ sendQueue' = sendQueue /\ onWire' = onWire /\ finished' = finished
      BY <1>2 DEF SlaveStartup, TakeSlot, InOK, host, sendHw
    <3> QED
      BY <2>2, <3>1, SlotsFacts DEF SlotsCount
  <2> QED
    BY <2>3, <2>4, <2>5 DEF IInv
<1>3. CASE SlaveQueue(t)
  <2>1. /\ Len(writer[t]) = 1 /\ writer[t][1] \in Interfaces
        /\ QueueOf(writer[t][1]) \in Queues /\ slaveSent[QueueOf(writer[t][1])] \in Nat
    <3>1. writer[t] \in Seq(Interfaces) /\ writer[t] # << >> /\ Len(writer[t]) <= 1
      BY <1>3 DEF SlaveQueue, InOK
    <3>2. Len(writer[t]) = 1 /\ writer[t][1] \in Interfaces
      BY <3>1, OnlyFacts
    <3> QED
      BY <3>2, QueueOfInQueues DEF InOK
  <2>2. sendQueue' \in Seq(Packets) /\ Len(sendQueue') = Len(sendQueue) + 1
    <3> DEFINE p == Packet(writer[t][1], slaveSent[QueueOf(writer[t][1])] + 1)
    <3>1. p \in Packets
      BY <2>1, PacketIsOne
    <3>2. sendQueue' = Append(sendQueue, p)
      BY <1>3 DEF SlaveQueue
    <3> HIDE DEF p
    <3> QED
      BY <3>1, <3>2, AppendFacts DEF HwOK
  <2>3. /\ writer' = [writer EXCEPT ![t] = << >>]
        /\ writer' \in [Writers -> Seq(Interfaces)] /\ Len(writer'[t]) = 0
    <3>1. << >> \in Seq(Interfaces)
      OBVIOUS
    <3>2. writer' = [writer EXCEPT ![t] = << >>]
      BY <1>3 DEF SlaveQueue
    <3> QED
      BY <3>1, <3>2 DEF InOK
  <2>4. Held(writer') = Held(writer) + (-1)
    <3>1. Len(writer'[t]) = Len(writer[t]) + (-1) /\ -1 \in Int
      BY <2>1, <2>3
    <3>2. \A u \in Writers : u # t => writer'[u] = writer[u]
      BY <2>3 DEF InOK
    <3>3. writer \in [Writers -> Seq(Interfaces)] /\ writer' \in [Writers -> Seq(Interfaces)]
      BY <2>3 DEF InOK
    <3> QED
      BY <3>1, <3>2, <3>3, HeldChange
  <2>5. /\ SendersOK' /\ WriteOK' /\ ReadOK' /\ BufferOK' /\ OutOK' /\ RecvOK'
        /\ ToSlaveCount' /\ FromSlaveCount' /\ RxQueueCount' /\ BufsCount'
        /\ CreditsTrue' /\ Lengths' /\ Buffers'
    BY <1>3, Frames DEF SlaveQueue
  <2>6. HwOK'
    BY <1>3, <2>2 DEF SlaveQueue, HwOK
  <2>7. InOK'
    BY <1>3, <2>1, <2>3 DEF SlaveQueue, InOK
  <2>8. SlotsCount'
    <3>1. /\ sendSem' = sendSem /\ onWire' = onWire /\ finished' = finished
      BY <1>3 DEF SlaveQueue
    <3>2. /\ Held(writer) \in Nat /\ sendSem \in Nat /\ finished \in Nat
          /\ Len(sendQueue) \in Nat /\ Len(onWire) \in Nat
      BY SlotsFacts
    <3>3. Held(writer') = Held(writer) - 1
      BY <2>4, <3>2
    <3>4. Len(sendQueue') = Len(sendQueue) + 1 /\ Len(onWire') = Len(onWire)
      BY <2>2, <3>1
    <3> QED
      BY <3>1, <3>2, <3>3, <3>4 DEF SlotsCount
  <2> QED
    BY <2>5, <2>6, <2>7, <2>8 DEF IInv
<1>4. CASE OfferStream
  <2>1. /\ onWire' = sendQueue /\ sendQueue' = << >> /\ Len(onWire) = 0
        /\ sendQueue \in Seq(Packets) /\ << >> \in Seq(Packets) /\ Len(sendQueue') = 0
    BY <1>4 DEF OfferStream, HwOK
  <2>2. /\ lenReg' \in 0..(RxMod - 1)
        /\ (lenReg' + RxMod - rxCount') % RxMod = Len(onWire')
    <3> DEFINE k == Len(sendQueue)
    <3>1. lenReg \in 0..(RxMod - 1) /\ rxCount \in 0..(RxMod - 1) /\ k \in 0..(RxMod - 1)
      BY SlotsFacts DEF HwOK, ReadOK
    <3>2. (lenReg + RxMod - rxCount) % RxMod = 0
      BY <2>1, Zenon DEF Lengths
    <3>3. lenReg' = (lenReg + k) % RxMod /\ rxCount' = rxCount /\ Len(onWire') = k
      BY <1>4 DEF OfferStream
    <3> HIDE DEF k
    <3>4. lenReg' \in 0..(RxMod - 1) /\ (lenReg' + RxMod - rxCount) % RxMod = k
      <4>1. lenReg' = (lenReg + k) % RxMod
        BY <3>3
      <4> QED
        BY <3>1, <3>2, <4>1, AheadFromZero
    <3> QED
      BY <3>3, <3>4, Zenon
  <2>3. /\ SendersOK' /\ WriteOK' /\ ReadOK' /\ BufferOK' /\ OutOK' /\ InOK' /\ RecvOK'
        /\ ToSlaveCount' /\ FromSlaveCount' /\ RxQueueCount' /\ BufsCount'
        /\ CreditsTrue' /\ Buffers'
    BY <1>4, Frames DEF OfferStream
  <2>4. HwOK'
    BY <1>4, <2>1, <2>2 DEF OfferStream, HwOK
  <2>5. SlotsCount'
    <3>1. sendSem' = sendSem /\ finished' = finished /\ Held(writer') = Held(writer)
      BY <1>4 DEF OfferStream, Held
    <3> QED
      BY <2>1, <3>1, SlotsFacts DEF SlotsCount
  <2>6. Lengths'
    <3>1. /\ readPc' = readPc /\ lenFromSlave' = lenFromSlave /\ seenLen' = seenLen
          /\ rxCount' = rxCount
      BY <1>4 DEF OfferStream
    <3>2. readPc # "read"
      BY <2>1 DEF Lengths
    <3>3. seenLen = lenReg => LengthSeen = 0
      BY <2>1, Zenon DEF Lengths, LengthSeen
    <3>4. LengthSeen' = LengthSeen
      BY <3>1, Zenon DEF LengthSeen
    <3>5. readPc = "clear" => LengthSeen = 0
      BY <3>3, Zenon DEF Lengths
    <3>6. lenFromSlave <= SendQueueSize
      BY DEF Lengths
    <3> QED
      BY <2>2, <3>1, <3>2, <3>4, <3>5, <3>6, Zenon DEF Lengths
  <2> QED
    BY <2>3, <2>4, <2>5, <2>6 DEF IInv
<1>5. CASE TxDone
  <2>1. /\ SendersOK' /\ WriteOK' /\ ReadOK' /\ BufferOK' /\ OutOK' /\ RecvOK'
        /\ ToSlaveCount' /\ FromSlaveCount' /\ RxQueueCount' /\ BufsCount'
        /\ CreditsTrue' /\ Lengths' /\ Buffers'
    BY <1>5, Frames DEF TxDone
  <2>2. HwOK'
    BY <1>5 DEF TxDone, HwOK
  <2>3. InOK'
    BY <1>5 DEF TxDone, InOK
  <2>4. SlotsCount'
    <3>1. /\ finished' = finished - 1 /\ sendSem' = sendSem + 1
          /\ Held(writer') = Held(writer) /\ sendQueue' = sendQueue /\ onWire' = onWire
      BY <1>5 DEF TxDone, Held
    <3> QED
      BY <3>1, DoneKeepsSlots
  <2> QED
    BY <2>1, <2>2, <2>3, <2>4 DEF IInv
<1> QED
  BY <1>1, <1>2, <1>3, <1>4, <1>5, Zenon

-----------------------------------------------------------------------------
(* sdio_rx_task and recv_task.                                              *)

LEMMA SlaveRxIInv ==
  ASSUME IInv,RxTake \/ RxThrottle \/ SendStartThrottle \/ RxPut \/
         SlaveRead \/ ReadThrottle \/ SendStopThrottle \/ ReadDone
  PROVE  IInv'
<1> USE Sizes DEF IInv, host, senders, writeTask, readTask, doubleBuf, hostOut,
        sendHw, recvHw, slaveIn, slaveOut
<1>1. CASE RxTake
  <2>1. /\ received' \in Seq(Packets) /\ Len(received') = Len(received) - 1
        /\ rxHeld' \in Seq(Packets) /\ Len(rxHeld') = 1 /\ rxHeld' # << >> /\ Len(rxHeld) = 0
    <3>1. Head(received) \in Packets
      BY <1>1, TailFacts DEF RxTake, HwOK
    <3> QED
      BY <1>1, <3>1, TailFacts, OneFacts, EmptyFacts DEF RxTake, HwOK, RecvOK
  <2>2. /\ SendersOK' /\ WriteOK' /\ ReadOK' /\ BufferOK' /\ OutOK' /\ InOK'
        /\ ToSlaveCount' /\ FromSlaveCount' /\ RxQueueCount' /\ SlotsCount'
        /\ CreditsTrue' /\ Lengths' /\ Buffers'
    BY <1>1, Frames DEF RxTake
  <2>3. HwOK'
    BY <1>1, <2>1 DEF RxTake, HwOK
  <2>4. RecvOK'
    BY <1>1, <2>1 DEF RxTake, RecvOK
  <2>5. BufsCount'
    <3>1. emptyBufs' = emptyBufs /\ rxQueue' = rxQueue /\ readerPc' = readerPc
      BY <1>1 DEF RxTake
    <3> QED
      BY <2>1, <3>1, BufsFacts DEF BufsCount
  <2> QED
    BY <2>2, <2>3, <2>4, <2>5 DEF IInv
<1>2. CASE RxThrottle
  <2>1. /\ SendersOK' /\ WriteOK' /\ ReadOK' /\ BufferOK' /\ OutOK' /\ HwOK' /\ InOK'
        /\ ToSlaveCount' /\ FromSlaveCount' /\ RxQueueCount' /\ SlotsCount'
        /\ BufsCount' /\ CreditsTrue' /\ Lengths' /\ Buffers'
    BY <1>2, Frames DEF RxThrottle
  <2>2. RecvOK'
    BY <1>2 DEF RxThrottle, RecvOK
  <2> QED
    BY <2>1, <2>2 DEF IInv
<1>3. CASE SendStartThrottle
  <2>1. /\ SendersOK' /\ WriteOK' /\ ReadOK' /\ BufferOK' /\ OutOK' /\ InOK'
        /\ ToSlaveCount' /\ FromSlaveCount' /\ RxQueueCount' /\ SlotsCount'
        /\ BufsCount' /\ CreditsTrue' /\ Lengths' /\ Buffers'
    BY <1>3, Frames DEF SendStartThrottle
  <2>2. HwOK'
    BY <1>3 DEF SendStartThrottle, HwOK
  <2>3. RecvOK'
    BY <1>3 DEF SendStartThrottle, RecvOK
  <2> QED
    BY <2>1, <2>2, <2>3 DEF IInv
<1>4. CASE RxPut
  <2>1. rxHeld[1] \in Packets /\ Len(rxHeld) = 1
    <3>1. rxHeld \in Seq(Packets) /\ rxHeld # << >> /\ Len(rxHeld) <= 1
      BY <1>4 DEF RxPut, RecvOK
    <3> QED
      BY <3>1, OnlyFacts
  <2>2. /\ rxQueue' \in [Queues -> Seq(Packets)]
        /\ Waiting(rxQueue') = Waiting(rxQueue) + 1
    <3> DEFINE p == rxHeld[1]
    <3>1. rxQueue' = PutIn(rxQueue, p)
      BY <1>4 DEF RxPut
    <3>2. p \in Packets
      BY <2>1
    <3> HIDE DEF p
    <3> QED
      BY <3>1, <3>2, PutFacts DEF RecvOK
  <2>3. /\ SendersOK' /\ WriteOK' /\ ReadOK' /\ BufferOK' /\ OutOK' /\ HwOK' /\ InOK'
        /\ ToSlaveCount' /\ FromSlaveCount' /\ SlotsCount' /\ CreditsTrue' /\ Lengths'
        /\ Buffers'
    BY <1>4, Frames DEF RxPut
  <2>4. RecvOK'
    BY <1>4, <2>2 DEF RxPut, RecvOK
  <2>5. RxQueueCount'
    BY <1>4, <2>2 DEF RxPut, RxQueueCount, RecvOK
  <2>6. BufsCount'
    <3>1. emptyBufs' = emptyBufs /\ received' = received /\ readerPc' = readerPc
      BY <1>4 DEF RxPut
    <3>2. Len(rxHeld') = 0
      BY <1>4 DEF RxPut
    <3> QED
      BY <2>1, <2>2, <3>1, <3>2, BufsFacts DEF BufsCount
  <2> QED
    BY <2>3, <2>4, <2>5, <2>6 DEF IInv
<1>5. CASE SlaveRead
  <2>1. Waiting(rxQueue) \in Nat /\ Waiting(rxQueue) > 0
    BY <1>5 DEF SlaveRead, RecvOK, RxQueueCount
  <2>2. /\ FirstQueue(rxQueue) \in Queues /\ Head(rxQueue[FirstQueue(rxQueue)]) \in Packets
        /\ rxQueue' \in [Queues -> Seq(Packets)]
        /\ Waiting(rxQueue') = Waiting(rxQueue) - 1
    <3>1. rxQueue' = [rxQueue EXCEPT ![FirstQueue(rxQueue)] =
                        Tail(rxQueue[FirstQueue(rxQueue)])]
      BY <1>5 DEF SlaveRead
    <3> QED
      BY <2>1, <3>1, TakeFacts DEF RecvOK
  <2>3. slaveGot' \in [Queues -> Seq(Nat)]
    <3>1. slaveGot' = [slaveGot EXCEPT ![FirstQueue(rxQueue)] =
                         Append(@, Head(rxQueue[FirstQueue(rxQueue)]).n)]
      BY <1>5 DEF SlaveRead
    <3> QED
      BY <2>2, <3>1, GotFacts DEF RecvOK
  <2>4. /\ SendersOK' /\ WriteOK' /\ ReadOK' /\ BufferOK' /\ OutOK' /\ HwOK' /\ InOK'
        /\ ToSlaveCount' /\ FromSlaveCount' /\ SlotsCount' /\ CreditsTrue' /\ Lengths'
        /\ Buffers'
    BY <1>5, Frames DEF SlaveRead
  <2>5. RecvOK'
    BY <1>5, <2>2, <2>3 DEF SlaveRead, RecvOK
  <2>6. RxQueueCount'
    BY <1>5, <2>2 DEF SlaveRead, RxQueueCount, RecvOK
  <2>7. BufsCount'
    <3>1. emptyBufs' = emptyBufs /\ received' = received /\ rxHeld' = rxHeld
      BY <1>5 DEF SlaveRead
    <3>2. OneIf(readerPc # "read") = 0 /\ OneIf(readerPc' # "read") = 1
      BY <1>5 DEF SlaveRead, OneIf
    <3> QED
      BY <2>2, <3>1, <3>2, BufsFacts DEF BufsCount
  <2> QED
    BY <2>4, <2>5, <2>6, <2>7 DEF IInv
<1>6. CASE ReadThrottle
  <2>1. /\ SendersOK' /\ WriteOK' /\ ReadOK' /\ BufferOK' /\ OutOK' /\ HwOK' /\ InOK'
        /\ ToSlaveCount' /\ FromSlaveCount' /\ RxQueueCount' /\ SlotsCount'
        /\ CreditsTrue' /\ Lengths' /\ Buffers'
    BY <1>6, Frames DEF ReadThrottle
  <2>2. RecvOK'
    BY <1>6 DEF ReadThrottle, RecvOK
  <2>3. BufsCount'
    BY <1>6 DEF ReadThrottle, BufsCount, OneIf, Waiting
  <2> QED
    BY <2>1, <2>2, <2>3 DEF IInv
<1>7. CASE SendStopThrottle
  <2>1. /\ SendersOK' /\ WriteOK' /\ ReadOK' /\ BufferOK' /\ OutOK' /\ InOK'
        /\ ToSlaveCount' /\ FromSlaveCount' /\ RxQueueCount' /\ SlotsCount'
        /\ CreditsTrue' /\ Lengths' /\ Buffers'
    BY <1>7, Frames DEF SendStopThrottle
  <2>2. HwOK'
    BY <1>7 DEF SendStopThrottle, HwOK
  <2>3. RecvOK'
    BY <1>7 DEF SendStopThrottle, RecvOK
  <2>4. BufsCount'
    BY <1>7 DEF SendStopThrottle, BufsCount, OneIf, Waiting
  <2> QED
    BY <2>1, <2>2, <2>3, <2>4 DEF IInv
<1>8. CASE ReadDone
  <2>1. /\ emptyBufs' = emptyBufs + 1 /\ tokenReg' \in 0..(TxMod - 1)
        /\ TokensLeft' = emptyBufs + 1 /\ emptyBufs \in Nat
    <3>1. tokenReg \in 0..(TxMod - 1) /\ txCount \in 0..(TxMod - 1) /\ 1 \in 0..(TxMod - 1)
      BY DEF HwOK, WriteOK
    <3>2. OneIf(readerPc # "read") = 1
      BY <1>8 DEF ReadDone, OneIf
    <3>3. emptyBufs \in Nat /\ emptyBufs + 1 < TxMod
      BY <3>2, BufsFacts
    <3>4. (tokenReg + TxMod - txCount) % TxMod = emptyBufs
      BY Zenon DEF CreditsTrue, TokensLeft
    <3>5. /\ tokenReg' = (tokenReg + 1) % TxMod /\ txCount' = txCount
          /\ emptyBufs' = emptyBufs + 1
      BY <1>8 DEF ReadDone
    <3>6. /\ tokenReg' \in 0..(TxMod - 1)
          /\ (tokenReg' + TxMod - txCount) % TxMod = emptyBufs + 1
      BY <3>1, <3>3, <3>4, <3>5, AheadMoves
    <3> QED
      BY <3>3, <3>5, <3>6, Zenon DEF TokensLeft
  <2>2. /\ SendersOK' /\ WriteOK' /\ ReadOK' /\ BufferOK' /\ OutOK' /\ InOK'
        /\ ToSlaveCount' /\ FromSlaveCount' /\ RxQueueCount' /\ SlotsCount' /\ Lengths'
        /\ Buffers'
    BY <1>8, Frames DEF ReadDone
  <2>3. HwOK'
    BY <1>8, <2>1 DEF ReadDone, HwOK
  <2>4. RecvOK'
    BY <1>8 DEF ReadDone, RecvOK
  <2>5. BufsCount'
    <3>1. received' = received /\ rxHeld' = rxHeld /\ rxQueue' = rxQueue
      BY <1>8 DEF ReadDone
    <3>2. OneIf(readerPc # "read") = 1 /\ OneIf(readerPc' # "read") = 0
      BY <1>8 DEF ReadDone, OneIf
    <3>3. Waiting(rxQueue') = Waiting(rxQueue) /\ emptyBufs' = emptyBufs + 1
      BY <2>1, <3>1, Zenon
    <3> QED
      BY <3>1, <3>2, <3>3, BufsFacts DEF BufsCount
  <2>6. CreditsTrue'
    <3>1. available' = available /\ writePc' = writePc /\ available \in Nat
      BY <1>8 DEF ReadDone, WriteOK
    <3>2. OneIf(writePc = "write") \in 0..1
      BY OneIfNat
    <3> QED
      BY <2>1, <3>1, <3>2, BufsFacts DEF CreditsTrue
  <2> QED
    BY <2>2, <2>3, <2>4, <2>5, <2>6 DEF IInv
<1> QED
  BY <1>1, <1>2, <1>3, <1>4, <1>5, <1>6, <1>7, <1>8

-----------------------------------------------------------------------------
LEMMA InitIInv == Init => IInv
<1> SUFFICES ASSUME Init PROVE IInv
  OBVIOUS
<1> USE Sizes DEF Init
<1> DEFINE none == [q \in Queues |-> << >>]
<1>1. /\ << >> \in Seq(Packets) /\ << >> \in Seq(Interfaces) /\ << >> \in Seq(Nat)
      /\ Len(<< >>) = 0
  OBVIOUS
<1>2. /\ none \in [Queues -> Seq(Packets)] /\ \A q \in Queues : Len(none[q]) = 0
      /\ Waiting(none) = 0
  BY <1>1 DEF Waiting, Queues
<1>3. toSlave = none /\ fromSlave = none /\ rxQueue = none
  OBVIOUS
<1> HIDE DEF none
<1>0. /\ up \in BOOLEAN /\ writeStarted \in BOOLEAN /\ xferSem \in BOOLEAN
      /\ rxStarting \in BOOLEAN /\ throttled \in BOOLEAN /\ opened \in BOOLEAN
      /\ hostResetSem \in BOOLEAN /\ throttling \in BOOLEAN
  BY Zenon
<1>4. SendersOK
  BY <1>2, <1>3 DEF SendersOK
<1>5. WriteOK /\ ReadOK
  <2>1. /\ 0 \in 0..Retries /\ 0 \in 0..(TxMod - 1) /\ 0 \in 0..(RxMod - 1)
        /\ {} \subseteq {"new", "start", "stop"}
    OBVIOUS
  <2>2. WriteOK
    BY <1>0, <1>1, <2>1 DEF WriteOK
  <2>3. ReadOK
    BY <2>1 DEF ReadOK
  <2> QED
    BY <2>2, <2>3
<1>6. BufferOK
  BY <1>1 DEF BufferOK
<1>7. OutOK
  <2>1. fromSlave \in [Queues -> Seq(Packets)] /\ \A q \in Queues : Len(fromSlave[q]) = 0
    BY <1>2, <1>3, Zenon
  <2>2. hostGot \in [Queues -> Seq(Nat)]
    BY <1>1
  <2> QED
    BY <1>0, <2>1, <2>2 DEF OutOK
<1>8. RxBuffers \in 0..(TxMod - 1) /\ RxBuffers % TxMod = RxBuffers
  <2>1. RxBuffers \in 0..(TxMod - 1)
    OBVIOUS
  <2> QED
    BY <2>1, Remainder
<1>9. HwOK
  BY <1>1, <1>8 DEF HwOK
<1>10. InOK
  <2>1. slaveSent \in [Queues -> Nat]
    OBVIOUS
  <2>2. writer \in [Writers -> Seq(Interfaces)] /\ \A t \in Writers : Len(writer[t]) = 0
    BY <1>1 DEF Writers
  <2> QED
    BY <1>0, <2>1, <2>2 DEF InOK
<1>11. RecvOK
  <2>1. rxQueue \in [Queues -> Seq(Packets)]
    BY <1>2, <1>3, Zenon
  <2>2. slaveGot \in [Queues -> Seq(Nat)]
    BY <1>1
  <2>3. rxHeld \in Seq(Packets) /\ Len(rxHeld) = 0 /\ rxHeld = << >>
    BY <1>1
  <2> QED
    BY <1>0, <2>1, <2>2, <2>3 DEF RecvOK
<1>12. ToSlaveCount
  <2>1. Uncounted(hostWriter) = 0
    BY DEF Uncounted, OneIf, Queues
  <2> QED
    BY <1>2, <1>3, <2>1 DEF ToSlaveCount
<1>13. FromSlaveCount /\ RxQueueCount
  BY <1>2, <1>3 DEF FromSlaveCount, RxQueueCount
<1>14. SlotsCount
  <2>1. Held(writer) = 0
    BY <1>1 DEF Held, Writers
  <2> QED
    BY <1>1, <2>1 DEF SlotsCount
<1>15. BufsCount
  BY <1>1, <1>2, <1>3 DEF BufsCount, OneIf
<1>16. CreditsTrue
  <2>1. TokensLeft = RxBuffers
    <3>1. TxMod \in Nat /\ 0 \in 0..(TxMod - 1)
      BY <1>8
    <3>2. (RxBuffers + TxMod - 0) % TxMod = RxBuffers
      BY <1>8, <3>1, Distance
    <3>3. tokenReg = RxBuffers /\ txCount = 0
      BY <1>8
    <3> QED
      BY <3>2, <3>3, Zenon DEF TokensLeft
  <2> QED
    BY <2>1 DEF CreditsTrue, OneIf
<1>17. Lengths
  <2>1. 0 \in 0..(RxMod - 1)
    OBVIOUS
  <2>2. (0 + RxMod - 0) % RxMod = 0
    BY <2>1, Distance
  <2>3. (lenReg + RxMod - rxCount) % RxMod = Len(onWire)
    BY <1>1, <2>2, Zenon
  <2> QED
    BY <2>3 DEF Lengths
<1>18. Buffers
  BY DEF Buffers
<1> QED
  BY <1>4, <1>5, <1>6, <1>7, <1>9, <1>10, <1>11, <1>12, <1>13, <1>14, <1>15, <1>16,
     <1>17, <1>18 DEF IInv

LEMMA StepIInv == IInv /\ [Next]_vars => IInv'
<1> SUFFICES ASSUME IInv, [Next]_vars PROVE IInv'
  OBVIOUS
<1>1. CASE \E q \in Queues : HostQueue(q) \/ HostCount(q)
  BY <1>1, HostSenderIInv
<1>2. CASE WriteTask
  BY <1>2, WriteTaskIInv DEF WriteTask
<1>3. CASE ReadTask
  BY <1>3, ReadTaskIInv DEF ReadTask
<1>4. CASE SplitTask \/ ProcessRxTask
  BY <1>4, HostRxIInv DEF SplitTask, ProcessRxTask
<1>5. CASE \E interface \in {"serial", "sta"} : SlaveWrite(interface)
  <2>1. "reset" \in Writers
    BY DEF Writers
  <2> QED
    BY <1>5, <2>1, SlaveWriterIInv
<1>6. CASE SlaveStartup \/ (\E t \in Writers : SlaveQueue(t)) \/ OfferStream \/ TxDone
  <2>1. "reset" \in Writers /\ "serial" \in {"serial", "sta"}
    BY DEF Writers
  <2> QED
    BY <1>6, <2>1, SlaveWriterIInv
<1>7. CASE RxTask \/ RecvTask
  BY <1>7, SlaveRxIInv DEF RxTask, RecvTask
<1>8. CASE UNCHANGED vars
  BY <1>8, Frames DEF IInv, vars, host, senders, writeTask, readTask, doubleBuf, hostOut,
     sendHw, recvHw, slaveIn, slaveOut
<1> QED
  BY <1>1, <1>2, <1>3, <1>4, <1>5, <1>6, <1>7, <1>8 DEF Next

\* IInv holds in every reachable state of every instance.
THEOREM Inductive == Spec => []IInv
<1> QED
  BY InitIInv, StepIInv, PTL DEF Spec

\* The type invariant, with the capacities of the host's queues.
THEOREM TypeCorrect == Spec => []TypeOK
<1>1. IInv => TypeOK
  <2> SUFFICES ASSUME IInv PROVE TypeOK
    OBVIOUS
  <2>1. HostOK
    BY DEF IInv, SendersOK, WriteOK, ReadOK, BufferOK, OutOK, HostOK
  <2>2. SlaveOK
    BY DEF IInv, HwOK, InOK, RecvOK, SlaveOK, Writers, Interfaces
  <2> QED
    BY <2>1, <2>2 DEF TypeOK
<1> QED
  BY <1>1, Inductive, PTL

\* Every counting semaphore counts its packets, the driver's send queue never
\* overflows and no receive buffer of the co-processor is lost.
THEOREM CountsMatchHolds == Spec => []CountsMatch
<1>1. IInv => CountsMatch
  <2> SUFFICES ASSUME IInv PROVE CountsMatch
    OBVIOUS
  <2>1. Waiting(toSlave) = toSlaveSem + OneIf(hostWriter["serial"] = "count")
                                      + OneIf(hostWriter["others"] = "count")
    <3> DEFINE x == OneIf(hostWriter["serial"] = "count")
               y == OneIf(hostWriter["others"] = "count")
    <3>1. Waiting(toSlave) = toSlaveSem + (x + y)
      BY Zenon DEF IInv, ToSlaveCount, Uncounted
    <3>2. x \in 0..1 /\ y \in 0..1 /\ toSlaveSem \in Nat
      BY OneIfNat DEF IInv, SendersOK
    <3> HIDE DEF x, y
    <3>3. toSlaveSem + (x + y) = toSlaveSem + x + y
      BY <3>2
    <3> QED
      BY <3>1, <3>3, Zenon DEF x, y
  <2> QED
    BY <2>1, Zenon DEF IInv, FromSlaveCount, RxQueueCount, SlotsCount, BufsCount, CountsMatch
<1> QED
  BY <1>1, Inductive, PTL

\* The token counters wrap and the host remembers what it read, and still a packet
\* is written only if the co-processor has a buffer for it
\* (sdio_is_write_buffer_available, sdio_get_tx_buffer_num).
THEOREM CreditsTrueHolds == Spec => []CreditsTrue
<1>1. IInv => CreditsTrue
  BY DEF IInv
<1> QED
  BY <1>1, Inductive, PTL

\* The length the host computes is the length of the stream it is offered
\* (sdio_get_len_from_slave, sdio_read_task).
THEOREM LengthTrueHolds == Spec => []LengthTrue
<1>1. IInv => LengthTrue
  BY DEF IInv, Lengths, LengthTrue
<1> QED
  BY <1>1, Inductive, PTL

\* What the host computes from the two registers is true, for every size of buffers
\* and counters (sdio_get_tx_buffer_num, sdio_get_len_from_slave).
THEOREM CountersTrueHolds == Spec => []CountersTrue
<1>1. CreditsTrue /\ LengthTrue => CountersTrue
  BY DEF CountersTrue
<1> QED
  BY <1>1, CreditsTrueHolds, LengthTrueHolds, PTL

\* The task that reads and the task that takes streams apart never use the same
\* buffer (double_buf in sdio_read_task and sdio_data_to_rx_buf_task).
THEOREM BuffersSeparateHolds == Spec => []BuffersSeparate
<1>1. IInv => BuffersSeparate
  BY DEF IInv, Buffers, BuffersSeparate
<1> QED
  BY <1>1, Inductive, PTL

\* sdio_rx_queue is as large as the driver's pool, so that its put never waits.
THEOREM RxPutNeverWaitsHolds == Spec => []RxPutNeverWaits
<1>1. IInv => RxPutNeverWaits
  <2> SUFFICES ASSUME IInv, rxPc = "put"
               PROVE  Len(rxQueue[QueueOf(rxHeld[1].if)]) < RxBuffers
    BY DEF RxPutNeverWaits
  <2> DEFINE q == QueueOf(rxHeld[1].if)
  <2>1. Len(rxHeld) = 1
    <3>1. rxHeld \in Seq(Packets) /\ rxHeld # << >> /\ Len(rxHeld) <= 1
      BY DEF IInv, RecvOK
    <3> QED
      BY <3>1, EmptyFacts
  <2>2. q \in Queues
    BY QueueOfInQueues
  <2> HIDE DEF q
  <2>3. Len(rxQueue[q]) \in Nat /\ Len(rxQueue[q]) <= Waiting(rxQueue)
    BY <2>2, WaitingFacts, EmptyFacts DEF IInv, RecvOK
  <2>4. 1 + Waiting(rxQueue) <= RxBuffers /\ Waiting(rxQueue) \in Nat
    BY <2>1, BufsFacts DEF IInv
  <2> QED
    BY <2>3, <2>4, Sizes DEF q
<1> QED
  BY <1>1, Inductive, PTL

-----------------------------------------------------------------------------
(* The order of the packets: every stage of one direction joined, for each  *)
(* queue, carries the numbers above the one handed over last.               *)

Mine(q) == {i \in Interfaces : QueueOf(i) = q}
Sorted(queues) ==
    \A q \in Queues : \A i \in 1..Len(queues[q]) : queues[q][i].if \in Mine(q)

\* What is left of the stream that is taken apart, and the one just read.
NextSplit == IF splitAt = 0 THEN 1 ELSE splitAt
Unsplit ==
    IF readIndex < 0 THEN << >>
    ELSE SubSeq(buffer[readIndex], NextSplit, Len(buffer[readIndex]))
JustRead == IF readPc = "hand" THEN buffer[writeIndex] ELSE << >>
InStreams == Unsplit \o (JustRead \o (onWire \o sendQueue))

FromSlaveStages(q) == fromSlave[q] \o InStreams
FromSlaveOrder ==
    /\ Sorted(fromSlave)
    /\ \A q \in Queues :
          InOrder(FromSlaveStages(q), Mine(q), LastOf(hostGot[q]), slaveSent[q])

SlaveHolds(q) == rxQueue[q] \o (rxHeld \o received)
ToSlaveStages(q) == SlaveHolds(q) \o (hostTx \o toSlave[q])
ToSlaveOrder ==
    /\ Sorted(toSlave) /\ Sorted(rxQueue)
    /\ \A q \in Queues :
          InOrder(ToSlaveStages(q), Mine(q), LastOf(slaveGot[q]), hostSent[q])

LEMMA PacketsNumbered == Numbered(Packets)
  BY DEF Numbered, Packets

LEMMA FirstInQueues == ASSUME NEW f PROVE FirstQueue(f) \in Queues
  BY DEF FirstQueue, Queues

LEMMA MineFacts ==
  /\ \A i \in Interfaces : i \in Mine(QueueOf(i)) /\ QueueOf(i) \in Queues
  /\ \A i \in Interfaces : \A q \in Queues : q # QueueOf(i) => i \notin Mine(q)
  /\ \A q, i : i \in Mine(q) => i \in Interfaces /\ QueueOf(i) = q
  BY QueueOfInQueues DEF Mine, Interfaces

\* What PutIn does to each queue.
LEMMA PutEach ==
  ASSUME NEW f \in [Queues -> Seq(Packets)], NEW p \in Packets, Sorted(f)
  PROVE  /\ QueueOf(p.if) \in Queues /\ p.if \in Mine(QueueOf(p.if))
         /\ PutIn(f, p)[QueueOf(p.if)] = Append(f[QueueOf(p.if)], p)
         /\ \A q \in Queues : q # QueueOf(p.if)
              => PutIn(f, p)[q] = f[q] /\ p.if \notin Mine(q)
         /\ Sorted(PutIn(f, p))
<1> DEFINE r == QueueOf(p.if) s == Append(f[r], p) g == PutIn(f, p)
<1>1. p.if \in Interfaces
  BY DEF Packets, Interfaces
<1>2. /\ r \in Queues /\ p.if \in Mine(r)
      /\ \A q \in Queues : q # r => p.if \notin Mine(q)
  BY <1>1, MineFacts
<1>3. g[r] = s /\ \A q \in Queues : q # r => g[q] = f[q]
  BY <1>2 DEF PutIn
<1> HIDE DEF r, g
<1>4. /\ Len(f[r]) \in Nat /\ Len(s) = Len(f[r]) + 1 /\ s[Len(f[r]) + 1] = p
      /\ \A i \in 1..Len(f[r]) : s[i] = f[r][i]
  BY <1>2, AppendElements
<1>5. \A i \in 1..Len(s) : s[i].if \in Mine(r)
  <2>1. \A i \in 1..Len(f[r]) : f[r][i].if \in Mine(r)
    BY <1>2 DEF Sorted
  <2> HIDE DEF s
  <2> QED
    BY <1>2, <1>4, <2>1
<1>6. Sorted(g)
  BY <1>3, <1>5 DEF Sorted
<1> QED
  BY <1>2, <1>3, <1>6 DEF r, g

\* What taking the first packet of one queue does to each.
LEMMA TakeEach ==
  ASSUME NEW f \in [Queues -> Seq(Packets)], NEW r \in Queues, f[r] # << >>, Sorted(f),
         NEW g, g[r] = Tail(f[r]), \A q \in Queues : q # r => g[q] = f[q]
  PROVE  /\ Head(f[r]) \in Packets /\ Head(f[r]).if \in Mine(r)
         /\ \A q \in Queues : q # r => Head(f[r]).if \notin Mine(q)
         /\ Sorted(g)
<1> DEFINE s == f[r]
<1>1. /\ s \in Seq(Packets) /\ Len(s) \in Nat \ {0} /\ Len(Tail(s)) = Len(s) - 1
      /\ Head(s) = s[1] /\ Head(s) \in Packets
      /\ \A i \in 1..(Len(s) - 1) : Tail(s)[i] = s[i + 1]
  BY TailElements, TailFacts
<1>2. g[r] = Tail(s)
  OBVIOUS
<1>3. \A i \in 1..Len(s) : s[i].if \in Mine(r)
  BY DEF Sorted
<1> HIDE DEF s
<1>4. Head(s).if \in Mine(r)
  BY <1>1, <1>3
<1>5. \A q \in Queues : q # r => Head(s).if \notin Mine(q)
  BY <1>4, MineFacts
<1>6. \A i \in 1..Len(Tail(s)) : Tail(s)[i].if \in Mine(r)
  BY <1>1, <1>3
<1>7. Sorted(g)
  BY <1>2, <1>6 DEF Sorted
<1> QED
  BY <1>1, <1>2, <1>4, <1>5, <1>7 DEF s

-----------------------------------------------------------------------------
(* Towards the co-processor a packet that finds no buffer is dropped.       *)

LEMMA ToSlaveTyped ==
  ASSUME IInv
  PROVE  /\ toSlave \in [Queues -> Seq(Packets)] /\ rxQueue \in [Queues -> Seq(Packets)]
         /\ hostTx \in Seq(Packets) /\ rxHeld \in Seq(Packets) /\ received \in Seq(Packets)
         /\ rxHeld \o received \in Seq(Packets)
         /\ \A q \in Queues :
               /\ toSlave[q] \in Seq(Packets) /\ rxQueue[q] \in Seq(Packets)
               /\ SlaveHolds(q) \in Seq(Packets) /\ hostTx \o toSlave[q] \in Seq(Packets)
               /\ ToSlaveStages(q) \in Seq(Packets)
         /\ slaveGot \in [Queues -> Seq(Nat)] /\ hostSent \in [Queues -> Nat]
         /\ \A q \in Queues : LastOf(slaveGot[q]) \in Nat
<1>1. /\ toSlave \in [Queues -> Seq(Packets)] /\ rxQueue \in [Queues -> Seq(Packets)]
      /\ hostTx \in Seq(Packets) /\ rxHeld \in Seq(Packets) /\ received \in Seq(Packets)
      /\ slaveGot \in [Queues -> Seq(Nat)] /\ hostSent \in [Queues -> Nat]
  BY DEF IInv, SendersOK, WriteOK, HwOK, RecvOK
<1>2. rxHeld \o received \in Seq(Packets)
  BY <1>1, JoinFacts
<1>3. ASSUME NEW q \in Queues
      PROVE  /\ toSlave[q] \in Seq(Packets) /\ rxQueue[q] \in Seq(Packets)
             /\ SlaveHolds(q) \in Seq(Packets) /\ hostTx \o toSlave[q] \in Seq(Packets)
             /\ ToSlaveStages(q) \in Seq(Packets)
  <2>1. toSlave[q] \in Seq(Packets) /\ rxQueue[q] \in Seq(Packets)
    BY <1>1
  <2>2. SlaveHolds(q) \in Seq(Packets)
    BY <1>2, <2>1, JoinFacts DEF SlaveHolds
  <2>3. hostTx \o toSlave[q] \in Seq(Packets)
    BY <1>1, <2>1, JoinFacts
  <2> QED
    BY <2>1, <2>2, <2>3, JoinFacts DEF ToSlaveStages
<1>4. \A q \in Queues : LastOf(slaveGot[q]) \in Nat
  BY <1>1, LastFacts
<1> QED
  BY <1>1, <1>2, <1>3, <1>4

\* The packets move on and none is accepted or handed over.
LEMMA StillToSlave ==
  ASSUME ToSlaveOrder, \A q \in Queues : ToSlaveStages(q)' = ToSlaveStages(q),
         Sorted(toSlave)', Sorted(rxQueue)', UNCHANGED <<slaveGot, hostSent>>
  PROVE  ToSlaveOrder' /\ UNCHANGED ToSlaveLink!vars
<1>1. UNCHANGED ToSlaveLink!vars
  BY DEF ToSlaveLink!vars
<1> QED
  BY <1>1 DEF ToSlaveOrder

LEMMA SameToSlave ==
  ASSUME ToSlaveOrder,
         UNCHANGED <<toSlave, hostTx, received, rxHeld, rxQueue, slaveGot, hostSent>>
  PROVE  ToSlaveOrder' /\ UNCHANGED ToSlaveLink!vars
<1>1. \A q \in Queues : ToSlaveStages(q)' = ToSlaveStages(q)
  BY Zenon DEF ToSlaveStages, SlaveHolds
<1>2. Sorted(toSlave)' /\ Sorted(rxQueue)'
  BY Zenon DEF ToSlaveOrder, Sorted
<1> QED
  BY <1>1, <1>2, StillToSlave

LEMMA AcceptToSlave ==
  ASSUME IInv, ToSlaveOrder, NEW r \in Queues, HostQueue(r)
  PROVE  ToSlaveOrder' /\ ToSlaveLink!Next
<1> DEFINE p == Packet(IF r = "serial" THEN "serial" ELSE "sta", hostSent[r] + 1)
<1>1. /\ toSlave' = PutIn(toSlave, p) /\ hostSent' = [hostSent EXCEPT ![r] = @ + 1]
      /\ UNCHANGED <<hostTx, received, rxHeld, rxQueue, slaveGot>>
  BY DEF HostQueue, writeTask, recvHw, slaveOut
<1>2. hostSent \in [Queues -> Nat] /\ hostSent[r] \in Nat
  BY ToSlaveTyped
<1>3. p \in Packets /\ QueueOf(p.if) = r /\ p.n = hostSent[r] + 1
  <2> DEFINE interface == IF r = "serial" THEN "serial" ELSE "sta"
  <2>1. interface \in Interfaces /\ QueueOf(interface) = r /\ hostSent[r] + 1 \in Nat
    BY <1>2 DEF Interfaces, QueueOf, Queues
  <2> HIDE DEF interface
  <2>2. Packet(interface, hostSent[r] + 1) \in Packets
    BY <2>1, PacketIsOne
  <2>3. p = Packet(interface, hostSent[r] + 1)
    BY DEF interface
  <2> HIDE DEF p
  <2> QED
    BY <2>1, <2>2, <2>3 DEF Packet
<1> HIDE DEF p
<1>4. /\ p.if \in Mine(r) /\ toSlave'[r] = Append(toSlave[r], p)
      /\ \A q \in Queues : q # r => toSlave'[q] = toSlave[q]
      /\ Sorted(toSlave')
  <2> DEFINE f == toSlave
  <2>1. f \in [Queues -> Seq(Packets)] /\ Sorted(f)
    BY ToSlaveTyped DEF ToSlaveOrder
  <2> HIDE DEF f
  <2>2. /\ p.if \in Mine(r) /\ PutIn(f, p)[r] = Append(f[r], p)
        /\ \A q \in Queues : q # r => PutIn(f, p)[q] = f[q]
        /\ Sorted(PutIn(f, p))
    BY <1>3, <2>1, PutEach
  <2> QED
    BY <1>1, <2>2 DEF f
<1>5. /\ hostSent'[r] = hostSent[r] + 1
      /\ \A q \in Queues : q # r => hostSent'[q] = hostSent[q]
  BY <1>1, <1>2
<1>6. SlaveHolds(r)' = SlaveHolds(r) /\ \A q \in Queues : SlaveHolds(q)' = SlaveHolds(q)
  BY <1>1 DEF SlaveHolds
<1>7. ToSlaveStages(r)' = Append(ToSlaveStages(r), p)
  <2> DEFINE f == toSlave[r] s == SlaveHolds(r)
  <2>1. /\ f \in Seq(Packets) /\ s \in Seq(Packets) /\ hostTx \in Seq(Packets)
        /\ hostTx \o f \in Seq(Packets)
    BY ToSlaveTyped
  <2>2. ToSlaveStages(r)' = s \o (hostTx \o Append(f, p)) /\ ToSlaveStages(r) = s \o (hostTx \o f)
    BY <1>1, <1>4, <1>6 DEF ToSlaveStages
  <2> HIDE DEF f, s
  <2>3. hostTx \o Append(f, p) = Append(hostTx \o f, p)
    BY <1>3, <2>1, JoinAppend
  <2>4. s \o Append(hostTx \o f, p) = Append(s \o (hostTx \o f), p)
    BY <1>3, <2>1, JoinAppend
  <2> QED
    BY <2>2, <2>3, <2>4
<1>8. InOrder(ToSlaveStages(r)', Mine(r), LastOf(slaveGot[r]), hostSent'[r])
  <2>1. /\ ToSlaveStages(r) \in Seq(Packets) /\ LastOf(slaveGot[r]) \in Nat
        /\ InOrder(ToSlaveStages(r), Mine(r), LastOf(slaveGot[r]), hostSent[r])
    BY ToSlaveTyped DEF ToSlaveOrder
  <2> QED
    BY <1>2, <1>3, <1>4, <1>5, <1>7, <2>1, PacketsNumbered, Accepted
<1>9. \A q \in Queues : q # r => ToSlaveStages(q)' = ToSlaveStages(q)
  BY <1>1, <1>4, <1>6 DEF ToSlaveStages
<1>10. ToSlaveOrder'
  BY <1>1, <1>4, <1>5, <1>8, <1>9 DEF ToSlaveOrder, Sorted
<1>11. ToSlaveLink!Next
  BY <1>1 DEF ToSlaveLink!Next, ToSlaveLink!Accept
<1> QED
  BY <1>10, <1>11

\* spi_hd_write_task takes the first packet of a queue.
LEMMA TakeToSlave ==
  ASSUME IInv, ToSlaveOrder, WriteTake
  PROVE  ToSlaveOrder' /\ UNCHANGED ToSlaveLink!vars
<1>1. Waiting(toSlave) > 0
  <2>1. /\ toSlaveSem > 0 /\ toSlaveSem \in Nat
        /\ Waiting(toSlave) = toSlaveSem + Uncounted(hostWriter)
    BY DEF WriteTake, IInv, SendersOK, ToSlaveCount
  <2> QED
    BY <2>1, UncountedNat
<1>2. PICK r \in Queues : toSlave[r] # << >> /\ r = FirstQueue(toSlave)
  BY <1>1, ToSlaveTyped, WaitingFacts, FirstInQueues
<1> DEFINE p == Head(toSlave[r])
<1>3. /\ hostTx' = <<p>> /\ toSlave' = [toSlave EXCEPT ![r] = Tail(@)] /\ hostTx = << >>
      /\ UNCHANGED <<hostSent, received, rxHeld, rxQueue, slaveGot>>
  BY <1>2 DEF WriteTake, IInv, WriteOK, recvHw, slaveOut
<1>4. /\ p \in Packets /\ p.if \in Mine(r) /\ toSlave'[r] = Tail(toSlave[r])
      /\ \A q \in Queues : q # r => toSlave'[q] = toSlave[q] /\ p.if \notin Mine(q)
      /\ Sorted(toSlave')
  <2> DEFINE f == toSlave g == toSlave'
  <2>1. f \in [Queues -> Seq(Packets)] /\ Sorted(f) /\ f[r] # << >>
    BY <1>2, ToSlaveTyped DEF ToSlaveOrder
  <2>2. g[r] = Tail(f[r]) /\ \A q \in Queues : q # r => g[q] = f[q]
    BY <1>3, <2>1
  <2> HIDE DEF f, g
  <2>3. Head(f[r]).if \in Mine(r) /\ Sorted(g)
    BY <1>2, <2>1, <2>2, TakeEach
  <2>4. Head(f[r]) \in Packets
    <3>1. f[r] \in Seq(Packets) /\ f[r] # << >>
      BY <1>2, <2>1
    <3> QED
      BY <3>1, TailFacts
  <2>5. \A q \in Queues : q # r => Head(f[r]).if \notin Mine(q)
    BY <2>3, MineFacts
  <2> QED
    BY <2>2, <2>3, <2>4, <2>5 DEF f, g
<1> HIDE DEF p
<1>5. ASSUME NEW q \in Queues
      PROVE  InOrder(ToSlaveStages(q)', Mine(q), LastOf(slaveGot[q]), hostSent[q])
  <2> DEFINE f == toSlave[q] s == SlaveHolds(q)
  <2>1. /\ f \in Seq(Packets) /\ s \in Seq(Packets)
        /\ InOrder(s \o (hostTx \o f), Mine(q), LastOf(slaveGot[q]), hostSent[q])
    BY ToSlaveTyped DEF ToSlaveOrder, ToSlaveStages
  <2>2. ToSlaveStages(q)' = s \o (<<p>> \o toSlave'[q])
    BY <1>3 DEF ToSlaveStages, SlaveHolds
  <2>3. f # << >> => f = <<Head(f)>> \o Tail(f)
    <3> HIDE DEF f
    <3> QED
      BY <2>1, HeadMoves
  <2>4. hostTx \o f = f
    <3> HIDE DEF f
    <3> QED
      BY <1>3, <2>1, EmptyJoin
  <2>5. CASE q = r
    BY <1>2, <1>4, <2>1, <2>2, <2>3, <2>4, <2>5 DEF p
  <2>6. CASE q # r
    <3>1. toSlave'[q] = f /\ p.if \notin Mine(q)
      BY <1>4, <2>6
    <3>2. InOrder(s \o f, Mine(q), LastOf(slaveGot[q]), hostSent[q])
      BY <2>1, <2>4
    <3> HIDE DEF f, s
    <3>3. InOrder(s \o (<<p>> \o f), Mine(q), LastOf(slaveGot[q]), hostSent[q])
      BY <1>4, <2>1, <3>1, <3>2, ForeignInOrder
    <3> QED
      BY <2>2, <3>1, <3>3
  <2> QED
    BY <2>5, <2>6
<1> QED
  BY <1>3, <1>4, <1>5 DEF ToSlaveOrder, Sorted, ToSlaveLink!vars

\* The packet is dropped when no buffer is found, and given to the driver otherwise.
LEMMA WriteToSlave ==
  ASSUME IInv, ToSlaveOrder, ReadTokens \/ WriteBlock
  PROVE  ToSlaveOrder' /\ UNCHANGED ToSlaveLink!vars
<1>1. CASE ReadTokens /\ hostTx' # hostTx
  <2>1. hostTx' = << >> /\ UNCHANGED <<toSlave, received, rxHeld, rxQueue, slaveGot, hostSent>>
    BY <1>1 DEF ReadTokens, senders, recvHw, slaveOut
  <2>2. PICK p \in Packets : hostTx = <<p>>
    <3>1. hostTx # << >> /\ hostTx \in Seq(Packets) /\ Len(hostTx) <= 1
      BY <1>1, <2>1 DEF IInv, WriteOK
    <3>2. Len(hostTx) = 1 /\ hostTx[1] \in Packets
      BY <3>1, OnlyFacts
    <3> QED
      BY <3>1, <3>2
  <2>3. ASSUME NEW q \in Queues
        PROVE  InOrder(ToSlaveStages(q)', Mine(q), LastOf(slaveGot[q]), hostSent[q])
    <3> DEFINE f == toSlave[q] s == SlaveHolds(q)
    <3>1. /\ f \in Seq(Packets) /\ s \in Seq(Packets)
          /\ InOrder(s \o (<<p>> \o f), Mine(q), LastOf(slaveGot[q]), hostSent[q])
      BY <2>2, ToSlaveTyped DEF ToSlaveOrder, ToSlaveStages
    <3>2. ToSlaveStages(q)' = s \o (<< >> \o f)
      BY <2>1 DEF ToSlaveStages, SlaveHolds
    <3> HIDE DEF f, s
    <3>3. << >> \o f = f
      BY <3>1, EmptyJoin
    <3>4. InOrder(s \o f, Mine(q), LastOf(slaveGot[q]), hostSent[q])
      BY <2>2, <3>1, DroppedInOrder
    <3> QED
      BY <3>2, <3>3, <3>4
  <2> QED
    BY <2>1, <2>3 DEF ToSlaveOrder, Sorted, ToSlaveLink!vars
<1>2. CASE ReadTokens /\ hostTx' = hostTx
  BY <1>2, SameToSlave DEF ReadTokens, senders, recvHw, slaveOut
<1>3. CASE WriteBlock
  <2>1. /\ received' = received \o hostTx /\ hostTx' = << >>
        /\ UNCHANGED <<toSlave, rxHeld, rxQueue, slaveGot, hostSent>>
    BY <1>3 DEF WriteBlock, senders, slaveOut
  <2>2. ASSUME NEW q \in Queues PROVE ToSlaveStages(q)' = ToSlaveStages(q)
    <3> DEFINE f == toSlave[q] s == rxQueue[q] h == rxHeld \o received
    <3>1. /\ f \in Seq(Packets) /\ s \in Seq(Packets) /\ hostTx \in Seq(Packets)
          /\ rxHeld \in Seq(Packets) /\ received \in Seq(Packets) /\ h \in Seq(Packets)
          /\ s \o h \in Seq(Packets)
      BY ToSlaveTyped DEF SlaveHolds
    <3>2. /\ ToSlaveStages(q)' = (s \o (rxHeld \o (received \o hostTx))) \o (<< >> \o f)
          /\ ToSlaveStages(q) = (s \o h) \o (hostTx \o f)
      BY <2>1 DEF ToSlaveStages, SlaveHolds
    <3>3. h \o hostTx = rxHeld \o (received \o hostTx)
      BY <3>1
    <3> HIDE DEF f, s, h
    <3>4. (s \o h) \o hostTx = s \o (h \o hostTx)
      BY <3>1
    <3>5. ((s \o h) \o hostTx) \o f = (s \o h) \o (hostTx \o f)
      <4> DEFINE x == s \o h
      <4>1. x \in Seq(Packets)
        BY <3>1
      <4> HIDE DEF x
      <4>2. (x \o hostTx) \o f = x \o (hostTx \o f)
        BY <3>1, <4>1
      <4> QED
        BY <4>2 DEF x
    <3>6. << >> \o f = f
      BY <3>1, EmptyJoin
    <3> QED
      BY <3>2, <3>3, <3>4, <3>5, <3>6, Zenon
  <2>3. Sorted(toSlave)' /\ Sorted(rxQueue)'
    BY <2>1 DEF ToSlaveOrder, Sorted
  <2> QED
    BY <2>1, <2>2, <2>3, StillToSlave
<1> QED
  BY <1>1, <1>2, <1>3

\* spi_hd_rx_task.
LEMMA ReceiveToSlave ==
  ASSUME IInv, ToSlaveOrder, RxTake \/ RxPut
  PROVE  ToSlaveOrder' /\ UNCHANGED ToSlaveLink!vars
<1>1. CASE RxTake
  <2>1. /\ rxHeld = << >> /\ rxHeld' = <<Head(received)>> /\ received' = Tail(received)
        /\ received # << >> /\ UNCHANGED <<toSlave, hostTx, rxQueue, slaveGot, hostSent>>
    BY <1>1 DEF RxTake, IInv, RecvOK, host, senders, writeTask, slaveOut
  <2>2. rxHeld' \o received' = rxHeld \o received
    BY <2>1, ToSlaveTyped, HeadMoves, EmptyJoin
  <2>3. \A q \in Queues : ToSlaveStages(q)' = ToSlaveStages(q)
    BY <2>1, <2>2, Zenon DEF ToSlaveStages, SlaveHolds
  <2>4. Sorted(toSlave)' /\ Sorted(rxQueue)'
    BY <2>1 DEF ToSlaveOrder, Sorted
  <2> QED
    BY <2>1, <2>3, <2>4, StillToSlave
<1>2. CASE RxPut
  <2>1. PICK p \in Packets : rxHeld = <<p>>
    <3>1. rxHeld # << >> /\ rxHeld \in Seq(Packets) /\ Len(rxHeld) <= 1
      BY <1>2 DEF RxPut, IInv, RecvOK
    <3>2. Len(rxHeld) = 1 /\ rxHeld[1] \in Packets
      BY <3>1, OnlyFacts
    <3> QED
      BY <3>1, <3>2
  <2>2. /\ rxHeld' = << >> /\ rxQueue' = PutIn(rxQueue, p)
        /\ UNCHANGED <<toSlave, hostTx, received, slaveGot, hostSent>>
    BY <1>2, <2>1 DEF RxPut, host, senders, writeTask, recvHw
  <2>3. PICK r \in Queues :
           /\ p.if \in Mine(r) /\ rxQueue'[r] = Append(rxQueue[r], p)
           /\ \A q \in Queues : q # r => rxQueue'[q] = rxQueue[q] /\ p.if \notin Mine(q)
           /\ Sorted(rxQueue')
    <3> DEFINE f == rxQueue
    <3>1. f \in [Queues -> Seq(Packets)] /\ Sorted(f)
      BY ToSlaveTyped DEF ToSlaveOrder
    <3> HIDE DEF f
    <3>2. /\ QueueOf(p.if) \in Queues /\ p.if \in Mine(QueueOf(p.if))
          /\ PutIn(f, p)[QueueOf(p.if)] = Append(f[QueueOf(p.if)], p)
          /\ \A q \in Queues : q # QueueOf(p.if)
               => PutIn(f, p)[q] = f[q] /\ p.if \notin Mine(q)
          /\ Sorted(PutIn(f, p))
      BY <3>1, PutEach
    <3> QED
      BY <2>2, <3>2 DEF f
  <2>4. ASSUME NEW q \in Queues
        PROVE  InOrder(ToSlaveStages(q)', Mine(q), LastOf(slaveGot[q]), hostSent[q])
    <3> DEFINE s == rxQueue[q] t == hostTx \o toSlave[q] rest == received \o t
    <3>1. /\ s \in Seq(Packets) /\ t \in Seq(Packets) /\ received \in Seq(Packets)
          /\ rest \in Seq(Packets) /\ <<p>> \in Seq(Packets)
          /\ <<p>> \o received \in Seq(Packets)
          /\ << >> \o received = received
      <4>1. s \in Seq(Packets) /\ t \in Seq(Packets) /\ received \in Seq(Packets)
        BY ToSlaveTyped
      <4>2. <<p>> \in Seq(Packets)
        OBVIOUS
      <4> HIDE DEF t
      <4> QED
        BY <4>1, <4>2, JoinFacts, EmptyJoin
    <3>2. /\ InOrder((s \o (<<p>> \o received)) \o t, Mine(q), LastOf(slaveGot[q]),
                     hostSent[q])
          /\ ToSlaveStages(q)' = (rxQueue'[q] \o (<< >> \o received)) \o t
      BY <2>1, <2>2 DEF ToSlaveOrder, ToSlaveStages, SlaveHolds
    <3> HIDE DEF t
    <3>3. (s \o (<<p>> \o received)) \o t = s \o (<<p>> \o rest)
      <4> HIDE DEF s
      <4>1. (s \o (<<p>> \o received)) \o t = s \o ((<<p>> \o received) \o t)
        BY <3>1, JoinJoin
      <4>2. (<<p>> \o received) \o t = <<p>> \o rest
        BY <3>1, JoinJoin
      <4> QED
        BY <4>1, <4>2
    <3>4. CASE q = r
      <4>1. rxQueue'[q] = Append(s, p)
        BY <2>3, <3>4
      <4> HIDE DEF s, rest
      <4>2. Append(s, p) \o received = s \o (<<p>> \o received)
        BY <3>1, AppendJoin
      <4> QED
        BY <3>1, <3>2, <4>1, <4>2
    <3>5. CASE q # r
      <4>1. rxQueue'[q] = s /\ p.if \notin Mine(q)
        BY <2>3, <3>5
      <4>2. (s \o received) \o t = s \o rest
        <5> HIDE DEF s
        <5> QED
          BY <3>1, JoinJoin
      <4> HIDE DEF s, rest
      <4>3. InOrder(s \o rest, Mine(q), LastOf(slaveGot[q]), hostSent[q])
        BY <3>1, <3>2, <3>3, <4>1, ForeignInOrder
      <4> QED
        BY <3>1, <3>2, <4>1, <4>2, <4>3
    <3> QED
      BY <3>4, <3>5
  <2> QED
    BY <2>2, <2>3, <2>4 DEF ToSlaveOrder, Sorted, ToSlaveLink!vars
<1> QED
  BY <1>1, <1>2

\* recv_task reads the first packet of a queue.
LEMMA HandToSlave ==
  ASSUME IInv, ToSlaveOrder, SlaveRead
  PROVE  ToSlaveOrder' /\ ToSlaveLink!Next
<1>1. Waiting(rxQueue) > 0
  BY DEF IInv, RxQueueCount, RecvOK, SlaveRead
<1>2. PICK r \in Queues : rxQueue[r] # << >> /\ r = FirstQueue(rxQueue)
  BY <1>1, ToSlaveTyped, WaitingFacts, FirstInQueues
<1> DEFINE p == Head(rxQueue[r])
<1>3. /\ rxQueue' = [rxQueue EXCEPT ![r] = Tail(@)]
      /\ slaveGot' = [slaveGot EXCEPT ![r] = Append(@, p.n)]
      /\ UNCHANGED <<toSlave, hostTx, received, rxHeld, hostSent>>
  BY <1>2 DEF SlaveRead, host, senders, writeTask, recvHw
<1>4. /\ p.if \in Mine(r) /\ rxQueue'[r] = Tail(rxQueue[r])
      /\ \A q \in Queues : q # r => rxQueue'[q] = rxQueue[q]
      /\ Sorted(rxQueue')
  <2> DEFINE f == rxQueue g == rxQueue'
  <2>1. f \in [Queues -> Seq(Packets)] /\ Sorted(f) /\ f[r] # << >>
    BY <1>2, ToSlaveTyped DEF ToSlaveOrder
  <2>2. g[r] = Tail(f[r]) /\ \A q \in Queues : q # r => g[q] = f[q]
    BY <1>3, <2>1
  <2> HIDE DEF f, g
  <2>3. Head(f[r]).if \in Mine(r) /\ Sorted(g)
    BY <1>2, <2>1, <2>2, TakeEach
  <2> QED
    BY <2>2, <2>3 DEF f, g
<1> DEFINE s == rxQueue[r] h == rxHeld \o received t == hostTx \o toSlave[r] rest == h \o t
<1>5. /\ s \in Seq(Packets) /\ h \in Seq(Packets) /\ t \in Seq(Packets)
      /\ LastOf(slaveGot[r]) \in Nat /\ hostSent[r] \in Nat
      /\ s # << >> /\ Head(s).if \in Mine(r) /\ Head(s) = p
      /\ InOrder((s \o h) \o t, Mine(r), LastOf(slaveGot[r]), hostSent[r])
  BY <1>2, <1>4, ToSlaveTyped DEF ToSlaveOrder, ToSlaveStages, SlaveHolds
<1>6. \A q \in Queues : ToSlaveStages(q)' = (rxQueue'[q] \o h) \o (hostTx \o toSlave[q])
  BY <1>3 DEF ToSlaveStages, SlaveHolds
<1>7. /\ rest \in Seq(Packets) /\ (s \o h) \o t = s \o rest
      /\ Tail(s) \in Seq(Packets) /\ (Tail(s) \o h) \o t = Tail(s) \o rest
  <2> HIDE DEF s, h, t
  <2>1. rest \in Seq(Packets) /\ Tail(s) \in Seq(Packets)
    BY <1>5, JoinFacts, TailFacts
  <2>2. (s \o h) \o t = s \o rest
    BY <1>5
  <2>3. (Tail(s) \o h) \o t = Tail(s) \o rest
    BY <1>5, <2>1
  <2> QED
    BY <2>1, <2>2, <2>3
<1>8. /\ p.n \in (LastOf(slaveGot[r]) + 1)..hostSent[r]
      /\ InOrder(Tail(s) \o rest, Mine(r), p.n, hostSent[r])
  <2> HIDE DEF s, h, t, rest, p
  <2> QED
    BY <1>5, <1>7, PacketsNumbered, HandedOver
<1> HIDE DEF p
<1>9. /\ slaveGot'[r] = Append(slaveGot[r], p.n) /\ LastOf(slaveGot'[r]) = p.n
      /\ \A q \in Queues : q # r => slaveGot'[q] = slaveGot[q]
  <2>1. slaveGot \in [Queues -> Seq(Nat)] /\ p.n \in Nat
    BY <1>5, <1>8, ToSlaveTyped
  <2>2. /\ slaveGot'[r] = Append(slaveGot[r], p.n)
        /\ \A q \in Queues : q # r => slaveGot'[q] = slaveGot[q]
    BY <1>3, <2>1
  <2>3. slaveGot[r] \in Seq(Nat)
    BY <2>1
  <2> QED
    BY <2>1, <2>2, <2>3, LastFacts
<1>10. ToSlaveOrder'
  <2> SUFFICES ASSUME NEW q \in Queues
               PROVE  InOrder(ToSlaveStages(q)', Mine(q), LastOf(slaveGot'[q]), hostSent[q])
    BY <1>3, <1>4 DEF ToSlaveOrder, Sorted
  <2>1. CASE q = r
    <3>1. ToSlaveStages(q)' = Tail(s) \o rest
      BY <1>4, <1>6, <1>7, <2>1
    <3> QED
      BY <1>8, <1>9, <2>1, <3>1
  <2>2. CASE q # r
    BY <1>4, <1>6, <1>9, <2>2 DEF ToSlaveOrder, ToSlaveStages, SlaveHolds
  <2> QED
    BY <2>1, <2>2
<1>11. ToSlaveLink!Next
  <2>1. ToSlaveLink!Last(slaveGot[r]) = LastOf(slaveGot[r])
    BY DEF ToSlaveLink!Last, LastOf
  <2> QED
    BY <1>3, <1>8, <2>1 DEF ToSlaveLink!Next, ToSlaveLink!Deliver
<1> QED
  BY <1>10, <1>11

-----------------------------------------------------------------------------
(* Towards the host a stream is dropped while both buffers are in use.      *)

\* The rest of a stream, from packet k on.
LEMMA RestOfStream ==
  ASSUME NEW S, NEW s \in Seq(S)
  PROVE  /\ SubSeq(s, 1, Len(s)) = s
         /\ \A k \in 1..Len(s) :
               /\ s[k] \in S /\ SubSeq(s, k + 1, Len(s)) \in Seq(S)
               /\ SubSeq(s, k, Len(s)) = <<s[k]>> \o SubSeq(s, k + 1, Len(s))
         /\ \A k \in Nat \ {0} :
               /\ SubSeq(s, k, Len(s)) \in Seq(S)
               /\ k > Len(s) => SubSeq(s, k, Len(s)) = << >>
<1>1. SubSeq(s, 1, Len(s)) = s
  OBVIOUS
<1>2. ASSUME NEW k \in Nat \ {0}
      PROVE  /\ SubSeq(s, k, Len(s)) \in Seq(S)
             /\ k > Len(s) => SubSeq(s, k, Len(s)) = << >>
  OBVIOUS
<1>3. ASSUME NEW k \in 1..Len(s)
      PROVE  /\ s[k] \in S /\ SubSeq(s, k + 1, Len(s)) \in Seq(S)
             /\ SubSeq(s, k, Len(s)) = <<s[k]>> \o SubSeq(s, k + 1, Len(s))
  OBVIOUS
<1> QED
  BY <1>1, <1>2, <1>3

LEMMA FromSlaveTyped ==
  ASSUME IInv
  PROVE  /\ fromSlave \in [Queues -> Seq(Packets)] /\ buffer \in [{0, 1} -> Seq(Packets)]
         /\ onWire \in Seq(Packets) /\ sendQueue \in Seq(Packets)
         /\ onWire \o sendQueue \in Seq(Packets)
         /\ Unsplit \in Seq(Packets) /\ JustRead \in Seq(Packets)
         /\ JustRead \o (onWire \o sendQueue) \in Seq(Packets)
         /\ InStreams \in Seq(Packets)
         /\ \A q \in Queues :
               fromSlave[q] \in Seq(Packets) /\ FromSlaveStages(q) \in Seq(Packets)
         /\ hostGot \in [Queues -> Seq(Nat)] /\ slaveSent \in [Queues -> Nat]
         /\ \A q \in Queues : LastOf(hostGot[q]) \in Nat
<1>1. /\ fromSlave \in [Queues -> Seq(Packets)] /\ buffer \in [{0, 1} -> Seq(Packets)]
      /\ readIndex \in {-1, 0, 1} /\ writeIndex \in {0, 1} /\ splitAt \in Nat
      /\ onWire \in Seq(Packets) /\ sendQueue \in Seq(Packets)
      /\ hostGot \in [Queues -> Seq(Nat)] /\ slaveSent \in [Queues -> Nat]
  BY DEF IInv, BufferOK, OutOK, HwOK, InOK
<1>2. Unsplit \in Seq(Packets)
  <2>1. CASE readIndex < 0
    BY <2>1 DEF Unsplit
  <2>2. CASE ~(readIndex < 0)
    <3> DEFINE b == buffer[readIndex]
    <3>1. b \in Seq(Packets) /\ NextSplit \in Nat \ {0}
      BY <1>1, <2>2 DEF NextSplit
    <3>2. Unsplit = SubSeq(b, NextSplit, Len(b))
      BY <2>2 DEF Unsplit
    <3> HIDE DEF b
    <3> QED
      BY <3>1, <3>2, RestOfStream
  <2> QED
    BY <2>1, <2>2
<1>3. JustRead \in Seq(Packets)
  BY <1>1 DEF JustRead
<1>4. onWire \o sendQueue \in Seq(Packets)
  BY <1>1, JoinFacts
<1>5. JustRead \o (onWire \o sendQueue) \in Seq(Packets)
  BY <1>3, <1>4, JoinFacts
<1>6. InStreams \in Seq(Packets)
  BY <1>2, <1>5, JoinFacts DEF InStreams
<1>7. \A q \in Queues :
         fromSlave[q] \in Seq(Packets) /\ FromSlaveStages(q) \in Seq(Packets)
  BY <1>1, <1>6, JoinFacts DEF FromSlaveStages
<1>8. \A q \in Queues : LastOf(hostGot[q]) \in Nat
  BY <1>1, LastFacts
<1> QED
  BY <1>1, <1>2, <1>3, <1>4, <1>5, <1>6, <1>7, <1>8

\* The packets move on and none is accepted or handed over.
LEMMA StillFromSlave ==
  ASSUME FromSlaveOrder, InStreams' = InStreams, UNCHANGED <<fromSlave, hostGot, slaveSent>>
  PROVE  FromSlaveOrder' /\ UNCHANGED FromSlaveLink!vars
<1>1. UNCHANGED FromSlaveLink!vars
  BY DEF FromSlaveLink!vars
<1> QED
  BY <1>1, Zenon DEF FromSlaveOrder, FromSlaveStages, Sorted

LEMMA SameFromSlave ==
  ASSUME FromSlaveOrder,
         UNCHANGED <<fromSlave, hostGot, slaveSent, buffer, readIndex, writeIndex, splitAt,
                     onWire, sendQueue>>,
         readPc' = "hand" <=> readPc = "hand"
  PROVE  FromSlaveOrder' /\ UNCHANGED FromSlaveLink!vars
<1>1. Unsplit' = Unsplit /\ JustRead' = JustRead
  BY DEF Unsplit, NextSplit, JustRead
<1>2. InStreams' = InStreams
  BY <1>1 DEF InStreams
<1> QED
  BY <1>2, StillFromSlave

\* What is queued is offered, what is offered is read, what is read is handed over or
\* dropped, and a stream is taken apart from its first packet to its last.
LEMMA OfferFromSlave ==
  ASSUME IInv, FromSlaveOrder, OfferStream
  PROVE  FromSlaveOrder' /\ UNCHANGED FromSlaveLink!vars
<1>1. /\ onWire = << >> /\ onWire' = sendQueue /\ sendQueue' = << >>
      /\ UNCHANGED <<fromSlave, hostGot, slaveSent, readPc, buffer, readIndex, writeIndex,
                     splitAt>>
  BY DEF OfferStream, host, readTask, doubleBuf, hostOut, slaveIn
<1>2. Unsplit' = Unsplit /\ JustRead' = JustRead
  BY <1>1 DEF Unsplit, NextSplit, JustRead
<1>3. onWire' \o sendQueue' = onWire \o sendQueue
  <2>1. sendQueue \in Seq(Packets)
    BY FromSlaveTyped
  <2>2. sendQueue \o << >> = sendQueue /\ << >> \o sendQueue = sendQueue
    BY <2>1, EmptyJoin
  <2> QED
    BY <1>1, <2>2, Zenon
<1>4. InStreams' = InStreams
  BY <1>2, <1>3 DEF InStreams
<1> QED
  BY <1>1, <1>4, StillFromSlave

LEMMA ReadFromSlave ==
  ASSUME IInv, FromSlaveOrder, ReadBlock
  PROVE  FromSlaveOrder' /\ UNCHANGED FromSlaveLink!vars
<1>1. /\ readPc = "read" /\ readPc' = "hand"
      /\ UNCHANGED <<fromSlave, hostGot, slaveSent, sendQueue, readIndex, writeIndex, splitAt>>
  BY DEF ReadBlock, hostOut, slaveIn
<1>2. /\ onWire \in Seq(Packets) /\ sendQueue \in Seq(Packets)
      /\ buffer \in [{0, 1} -> Seq(Packets)]
      /\ readIndex \in {-1, 0, 1} /\ writeIndex \in {0, 1} /\ readIndex # writeIndex
      /\ lenFromSlave = Len(onWire)
  BY <1>1, FromSlaveTyped DEF IInv, BufferOK, Lengths, Buffers
<1>3. /\ buffer' = [buffer EXCEPT ![writeIndex] = SubSeq(onWire, 1, Len(onWire))]
      /\ onWire' = SubSeq(onWire, Len(onWire) + 1, Len(onWire))
  BY <1>2 DEF ReadBlock
<1>4. SubSeq(onWire, 1, Len(onWire)) = onWire /\ onWire' = << >>
  <2>1. Len(onWire) + 1 \in Nat \ {0} /\ Len(onWire) + 1 > Len(onWire)
    BY <1>2
  <2> QED
    BY <1>2, <1>3, <2>1, RestOfStream
<1>5. /\ buffer'[writeIndex] = onWire
      /\ readIndex >= 0 => buffer'[readIndex] = buffer[readIndex]
  BY <1>2, <1>3, <1>4
<1>6. Unsplit' = Unsplit
  BY <1>1, <1>2, <1>5 DEF Unsplit, NextSplit
<1>7. JustRead = << >> /\ JustRead' = onWire
  BY <1>1, <1>5 DEF JustRead
<1>8. << >> \o sendQueue = sendQueue /\ << >> \o (onWire \o sendQueue) = onWire \o sendQueue
  BY FromSlaveTyped, EmptyJoin
<1>9. InStreams' = InStreams
  <2>1. InStreams' = Unsplit \o (onWire \o (<< >> \o sendQueue))
    BY <1>1, <1>4, <1>6, <1>7, Zenon DEF InStreams
  <2>2. InStreams = Unsplit \o (<< >> \o (onWire \o sendQueue))
    BY <1>7, Zenon DEF InStreams
  <2> QED
    BY <1>8, <2>1, <2>2, Zenon
<1> QED
  BY <1>1, <1>9, StillFromSlave

LEMMA HandOverFromSlave ==
  ASSUME IInv, FromSlaveOrder, HandOver
  PROVE  FromSlaveOrder' /\ UNCHANGED FromSlaveLink!vars
<1> DEFINE rest == onWire \o sendQueue b == buffer[writeIndex]
<1>1. /\ readPc = "hand" /\ readPc' = "wait"
      /\ UNCHANGED <<fromSlave, hostGot, slaveSent, onWire, sendQueue, buffer, splitAt>>
  BY DEF HandOver, hostOut, sendHw, slaveIn
<1>2. /\ rest \in Seq(Packets) /\ b \in Seq(Packets) /\ writeIndex \in {0, 1}
      /\ splitAt > 0 => readIndex >= 0
      /\ splitAt \in Nat /\ readIndex \in {-1, 0, 1}
  BY FromSlaveTyped DEF IInv, BufferOK, Buffers
<1>3. JustRead = b /\ JustRead' = << >>
  BY <1>1 DEF JustRead
<1>4. << >> \o rest = rest /\ << >> \o (b \o rest) = b \o rest
  <2>1. rest \in Seq(Packets) /\ b \in Seq(Packets)
    BY <1>2
  <2> HIDE DEF rest, b
  <2> QED
    BY <2>1, EmptyJoin, JoinFacts
<1>5. rest' = rest
  BY <1>1
<1> HIDE DEF rest
<1>6. InStreams = Unsplit \o (b \o rest) /\ InStreams' = Unsplit' \o rest
  <2>1. InStreams' = Unsplit' \o (JustRead' \o rest')
    BY DEF InStreams, rest
  <2> QED
    BY <1>3, <1>4, <1>5, <2>1 DEF InStreams, rest
<1>7. CASE readIndex < 0
  <2>1. readIndex' = writeIndex
    BY <1>7 DEF HandOver, HandOverBuffer
  <2>2. Unsplit = << >> /\ Unsplit' = SubSeq(b, 1, Len(b))
    <3>1. splitAt' = 0 /\ ~(readIndex' < 0) /\ buffer'[readIndex'] = b
      BY <1>1, <1>2, <1>7, <2>1
    <3>2. NextSplit' = 1
      BY <3>1 DEF NextSplit
    <3> HIDE DEF b
    <3>3. Unsplit' = SubSeq(b, 1, Len(b))
      BY <3>1, <3>2, Zenon DEF Unsplit
    <3> QED
      BY <1>7, <3>3 DEF Unsplit
  <2>3. SubSeq(b, 1, Len(b)) = b
    <3> HIDE DEF b
    <3> QED
      BY <1>2, RestOfStream
  <2>4. InStreams' = InStreams
    BY <1>4, <1>6, <2>2, <2>3, Zenon
  <2> QED
    BY <1>1, <2>4, StillFromSlave
<1>8. CASE ~(readIndex < 0)
  <2>1. Unsplit' = Unsplit
    BY <1>1, <1>8 DEF HandOver, Unsplit, NextSplit
  <2>2. ASSUME NEW q \in Queues
        PROVE  InOrder(FromSlaveStages(q)', Mine(q), LastOf(hostGot[q]), slaveSent[q])
    <3> DEFINE f == fromSlave[q]
    <3>1. /\ f \in Seq(Packets) /\ Unsplit \in Seq(Packets)
          /\ InOrder(f \o (Unsplit \o (b \o rest)), Mine(q), LastOf(hostGot[q]), slaveSent[q])
      BY <1>6, FromSlaveTyped DEF FromSlaveOrder, FromSlaveStages
    <3>2. FromSlaveStages(q)' = f \o (Unsplit \o rest)
      BY <1>1, <1>6, <2>1 DEF FromSlaveStages
    <3> HIDE DEF f, b
    <3>3. f \o Unsplit \in Seq(Packets) /\ b \o rest \in Seq(Packets)
      BY <1>2, <3>1, JoinFacts
    <3>4. (f \o Unsplit) \o (b \o rest) = f \o (Unsplit \o (b \o rest))
      <4> DEFINE g == b \o rest
      <4>1. g \in Seq(Packets)
        BY <3>3
      <4> HIDE DEF g
      <4>2. (f \o Unsplit) \o g = f \o (Unsplit \o g)
        BY <3>1, <4>1
      <4> QED
        BY <4>2 DEF g
    <3>5. (f \o Unsplit) \o rest = f \o (Unsplit \o rest)
      BY <1>2, <3>1, JoinJoin
    <3> DEFINE s == f \o Unsplit
    <3> HIDE DEF s
    <3>6. InOrder(s \o (b \o rest), Mine(q), LastOf(hostGot[q]), slaveSent[q])
      BY <3>1, <3>4 DEF s
    <3>7. s \in Seq(Packets)
      BY <3>3 DEF s
    <3>8. InOrder(s \o rest, Mine(q), LastOf(hostGot[q]), slaveSent[q])
      BY <1>2, <3>6, <3>7, DroppedBlock
    <3> QED
      BY <3>2, <3>5, <3>8 DEF s
  <2> QED
    BY <1>1, <2>2 DEF FromSlaveOrder, Sorted, FromSlaveLink!vars
<1> QED
  BY <1>7, <1>8

\* sdio_data_to_rx_buf_task.
LEMMA SplitFromSlave ==
  ASSUME IInv, FromSlaveOrder, SplitTake \/ SplitDone
  PROVE  FromSlaveOrder' /\ UNCHANGED FromSlaveLink!vars
<1>1. /\ UNCHANGED <<fromSlave, hostGot, slaveSent, onWire, sendQueue, buffer, readPc,
                     writeIndex>>
  BY DEF SplitTake, SplitDone, readTask, hostOut, sendHw, slaveIn
<1>2. /\ buffer \in [{0, 1} -> Seq(Packets)] /\ readIndex \in {-1, 0, 1}
      /\ splitAt \in Nat /\ readDataLen \in Nat
      /\ splitAt > 0 => readIndex >= 0
      /\ readIndex >= 0 => readDataLen = Len(buffer[readIndex])
  BY DEF IInv, BufferOK, Buffers
<1>3. JustRead' = JustRead
  BY <1>1 DEF JustRead
<1>4. Unsplit' = Unsplit
  <2>1. CASE SplitTake
    BY <1>1, <1>2, <2>1 DEF SplitTake, Unsplit, NextSplit
  <2>2. CASE SplitDone
    <3>1. readIndex' = -1 /\ splitAt > readDataLen /\ splitAt > 0 /\ readIndex \in {0, 1}
      BY <1>2, <2>2 DEF SplitDone
    <3>2. Unsplit' = << >>
      BY <3>1 DEF Unsplit
    <3> DEFINE b == buffer[readIndex]
    <3>3. b \in Seq(Packets) /\ splitAt \in Nat \ {0} /\ splitAt > Len(b)
      BY <1>2, <3>1
    <3>4. Unsplit = SubSeq(b, splitAt, Len(b))
      <4>1. NextSplit = splitAt /\ ~(readIndex < 0)
        BY <1>2, <3>1 DEF NextSplit
      <4> QED
        BY <4>1, Zenon DEF Unsplit
    <3> HIDE DEF b
    <3>5. SubSeq(b, splitAt, Len(b)) = << >>
      BY <3>3, RestOfStream
    <3> QED
      BY <3>2, <3>4, <3>5
  <2> QED
    BY <2>1, <2>2
<1>5. InStreams' = InStreams
  BY <1>1, <1>3, <1>4 DEF InStreams
<1> QED
  BY <1>1, <1>5, StillFromSlave

LEMMA PushFromSlave ==
  ASSUME IInv, FromSlaveOrder, SplitPush
  PROVE  FromSlaveOrder' /\ UNCHANGED FromSlaveLink!vars
<1> DEFINE b == buffer[readIndex] p == b[splitAt] left == SubSeq(b, splitAt + 1, Len(b))
           rest == JustRead \o (onWire \o sendQueue)
<1>1. /\ splitAt \in 1..readDataLen /\ splitAt' = splitAt + 1
      /\ fromSlave' = PutIn(fromSlave, p)
      /\ UNCHANGED <<hostGot, slaveSent, onWire, sendQueue, buffer, readPc, writeIndex,
                     readIndex>>
  BY DEF SplitPush, readTask, sendHw, slaveIn
<1>2. /\ b \in Seq(Packets) /\ readIndex \in {0, 1} /\ splitAt \in 1..Len(b)
      /\ splitAt \in Nat
  BY <1>1 DEF IInv, BufferOK, Buffers
<1>3. rest \in Seq(Packets) /\ rest' = rest
  BY <1>1, FromSlaveTyped DEF JustRead
<1>4. /\ p \in Packets /\ left \in Seq(Packets)
      /\ SubSeq(b, splitAt, Len(b)) = <<p>> \o left
  <2> HIDE DEF b
  <2> QED
    BY <1>2, RestOfStream
<1>5. Unsplit = <<p>> \o left /\ Unsplit' = left
  <2>1. /\ NextSplit = splitAt /\ ~(readIndex < 0)
        /\ NextSplit' = splitAt + 1 /\ ~(readIndex' < 0) /\ buffer'[readIndex'] = b
    BY <1>1, <1>2 DEF NextSplit
  <2>2. Unsplit = SubSeq(b, splitAt, Len(b))
    BY <2>1, Zenon DEF Unsplit
  <2>3. Unsplit' = SubSeq(b, splitAt + 1, Len(b))
    BY <2>1, Zenon DEF Unsplit
  <2> QED
    BY <1>4, <2>2, <2>3, Zenon
<1> HIDE DEF p, left, rest, b
<1>6. InStreams = <<p>> \o (left \o rest) /\ InStreams' = left \o rest
  <2>1. InStreams = (<<p>> \o left) \o rest /\ InStreams' = left \o rest'
    BY <1>5 DEF InStreams, rest
  <2>2. <<p>> \in Seq(Packets)
    BY <1>4
  <2>3. (<<p>> \o left) \o rest = <<p>> \o (left \o rest)
    BY <1>3, <1>4, <2>2, JoinJoin
  <2> QED
    BY <1>3, <2>1, <2>3
<1> DEFINE t == left \o rest
<1>7. t \in Seq(Packets)
  BY <1>3, <1>4, JoinFacts
<1>8. InStreams = <<p>> \o t /\ InStreams' = t
  BY <1>6
<1> HIDE DEF t
<1>9. /\ fromSlave'[QueueOf(p.if)] = Append(fromSlave[QueueOf(p.if)], p)
      /\ \A q \in Queues : q # QueueOf(p.if)
           => fromSlave'[q] = fromSlave[q] /\ p.if \notin Mine(q)
      /\ Sorted(fromSlave')
  <2> DEFINE f == fromSlave
  <2>1. f \in [Queues -> Seq(Packets)] /\ Sorted(f)
    BY FromSlaveTyped DEF FromSlaveOrder
  <2> HIDE DEF f
  <2>2. /\ PutIn(f, p)[QueueOf(p.if)] = Append(f[QueueOf(p.if)], p)
        /\ \A q \in Queues : q # QueueOf(p.if)
             => PutIn(f, p)[q] = f[q] /\ p.if \notin Mine(q)
        /\ Sorted(PutIn(f, p))
    BY <1>4, <2>1, PutEach
  <2> QED
    BY <1>1, <2>2 DEF f
<1>10. ASSUME NEW q \in Queues
       PROVE  InOrder(FromSlaveStages(q)', Mine(q), LastOf(hostGot[q]), slaveSent[q])
  <2> DEFINE f == fromSlave[q]
  <2>1. /\ f \in Seq(Packets)
        /\ InOrder(f \o (<<p>> \o t), Mine(q), LastOf(hostGot[q]), slaveSent[q])
        /\ FromSlaveStages(q)' = fromSlave'[q] \o t
    BY <1>8, FromSlaveTyped DEF FromSlaveOrder, FromSlaveStages
  <2>2. CASE q = QueueOf(p.if)
    <3>1. fromSlave'[q] = Append(f, p)
      BY <1>9, <2>2
    <3> HIDE DEF f
    <3>2. Append(f, p) \o t = f \o (<<p>> \o t)
      BY <1>4, <1>7, <2>1, AppendJoin
    <3> QED
      BY <2>1, <3>1, <3>2
  <2>3. CASE q # QueueOf(p.if)
    <3>1. fromSlave'[q] = f /\ p.if \notin Mine(q)
      BY <1>9, <2>3
    <3> HIDE DEF f
    <3>2. InOrder(f \o t, Mine(q), LastOf(hostGot[q]), slaveSent[q])
      BY <1>4, <1>7, <2>1, <3>1, ForeignInOrder
    <3> QED
      BY <2>1, <3>1, <3>2
  <2> QED
    BY <2>2, <2>3
<1> QED
  BY <1>1, <1>9, <1>10 DEF FromSlaveOrder, Sorted, FromSlaveLink!vars

\* A packet gets its number when it is queued with the driver.
LEMMA QueueFromSlave ==
  ASSUME IInv, FromSlaveOrder, NEW t \in Writers, SlaveQueue(t)
  PROVE  FromSlaveOrder' /\ FromSlaveLink!Next
<1> DEFINE interface == writer[t][1] r == QueueOf(interface)
           p == Packet(interface, slaveSent[r] + 1)
<1>1. /\ writer[t] # << >>
      /\ sendQueue' = Append(sendQueue, p) /\ slaveSent' = [slaveSent EXCEPT ![r] = @ + 1]
      /\ UNCHANGED <<fromSlave, hostGot, onWire, buffer, readPc, writeIndex, readIndex,
                     splitAt>>
  BY DEF SlaveQueue, host, readTask, doubleBuf, hostOut
<1>2. interface \in Interfaces
  <2>1. writer[t] \in Seq(Interfaces) /\ Len(writer[t]) <= 1
    BY DEF IInv, InOK
  <2> QED
    BY <1>1, <2>1, OnlyFacts
<1> HIDE DEF interface
<1>3. /\ r \in Queues /\ interface \in Mine(r)
      /\ \A q \in Queues : q # r => interface \notin Mine(q)
  BY <1>2, MineFacts
<1>4. slaveSent \in [Queues -> Nat] /\ slaveSent[r] \in Nat
  BY <1>3, FromSlaveTyped
<1> HIDE DEF r
<1>5. p \in Packets /\ p.if = interface /\ p.n = slaveSent[r] + 1
  <2>1. slaveSent[r] + 1 \in Nat
    BY <1>4
  <2>2. p \in Packets
    BY <1>2, <2>1, PacketIsOne
  <2> QED
    BY <2>2 DEF Packet
<1> HIDE DEF p
<1>6. InStreams' = Append(InStreams, p)
  <2> DEFINE u == Unsplit j == JustRead
  <2>1. Unsplit' = u /\ JustRead' = j
    BY <1>1 DEF Unsplit, NextSplit, JustRead
  <2>2. /\ InStreams' = u \o (j \o (onWire \o Append(sendQueue, p)))
        /\ InStreams = u \o (j \o (onWire \o sendQueue))
    BY <1>1, <2>1 DEF InStreams
  <2>3. /\ u \in Seq(Packets) /\ j \in Seq(Packets) /\ onWire \in Seq(Packets)
        /\ sendQueue \in Seq(Packets) /\ onWire \o sendQueue \in Seq(Packets)
        /\ j \o (onWire \o sendQueue) \in Seq(Packets)
    BY FromSlaveTyped
  <2> HIDE DEF u, j
  <2>4. onWire \o Append(sendQueue, p) = Append(onWire \o sendQueue, p)
    BY <1>5, <2>3, JoinAppend
  <2>5. j \o Append(onWire \o sendQueue, p) = Append(j \o (onWire \o sendQueue), p)
    BY <1>5, <2>3, JoinAppend
  <2>6. u \o Append(j \o (onWire \o sendQueue), p)
          = Append(u \o (j \o (onWire \o sendQueue)), p)
    BY <1>5, <2>3, JoinAppend
  <2> QED
    BY <2>2, <2>4, <2>5, <2>6
<1>7. \A q \in Queues : FromSlaveStages(q)' = Append(FromSlaveStages(q), p)
  <2> SUFFICES ASSUME NEW q \in Queues
               PROVE  FromSlaveStages(q)' = Append(FromSlaveStages(q), p)
    OBVIOUS
  <2> DEFINE f == fromSlave[q]
  <2>1. f \in Seq(Packets) /\ InStreams \in Seq(Packets)
    BY FromSlaveTyped
  <2>2. FromSlaveStages(q)' = f \o Append(InStreams, p) /\ FromSlaveStages(q) = f \o InStreams
    BY <1>1, <1>6 DEF FromSlaveStages
  <2> HIDE DEF f
  <2> QED
    BY <1>5, <2>1, <2>2, JoinAppend
<1>8. /\ slaveSent'[r] = slaveSent[r] + 1
      /\ \A q \in Queues : q # r => slaveSent'[q] = slaveSent[q]
  BY <1>1, <1>3, <1>4
<1>9. ASSUME NEW q \in Queues
      PROVE  InOrder(FromSlaveStages(q)', Mine(q), LastOf(hostGot[q]), slaveSent'[q])
  <2>1. /\ FromSlaveStages(q) \in Seq(Packets) /\ LastOf(hostGot[q]) \in Nat
        /\ slaveSent[q] \in Nat
        /\ InOrder(FromSlaveStages(q), Mine(q), LastOf(hostGot[q]), slaveSent[q])
    BY <1>4, FromSlaveTyped DEF FromSlaveOrder
  <2>2. FromSlaveStages(q)' = Append(FromSlaveStages(q), p)
    BY <1>7
  <2>3. CASE q = r
    <3>1. p.if \in Mine(q) /\ p.n = slaveSent[q] + 1 /\ slaveSent'[q] = slaveSent[q] + 1
      BY <1>3, <1>5, <1>8, <2>3
    <3> QED
      BY <1>5, <2>1, <2>2, <3>1, PacketsNumbered, Accepted
  <2>4. CASE q # r
    <3>1. p.if \notin Mine(q) /\ slaveSent'[q] = slaveSent[q]
      BY <1>3, <1>5, <1>8, <2>4
    <3> QED
      BY <1>5, <2>1, <2>2, <3>1, PacketsNumbered, Accepted
  <2> QED
    BY <2>3, <2>4
<1>10. FromSlaveOrder'
  BY <1>1, <1>9 DEF FromSlaveOrder, Sorted
<1>11. FromSlaveLink!Next
  BY <1>1, <1>3 DEF FromSlaveLink!Next, FromSlaveLink!Accept
<1> QED
  BY <1>10, <1>11

\* sdio_process_rx_task takes the first packet of a queue.
LEMMA HandFromSlave ==
  ASSUME IInv, FromSlaveOrder, HostRxTask
  PROVE  FromSlaveOrder' /\ FromSlaveLink!Next
<1> DEFINE r == FirstQueue(fromSlave) p == Head(fromSlave[r])
<1>1. Waiting(fromSlave) > 0
  BY DEF IInv, FromSlaveCount, OutOK, HostRxTask
<1>2. /\ fromSlave' = [fromSlave EXCEPT ![r] = Tail(@)]
      /\ hostGot' = [hostGot EXCEPT ![r] = Append(@, p.n)]
      /\ UNCHANGED <<slaveSent, onWire, sendQueue, buffer, readPc, writeIndex, readIndex,
                     splitAt>>
  BY DEF HostRxTask, slaveIn, readTask, sendHw, doubleBuf
<1>3. r \in Queues /\ fromSlave[r] # << >>
  BY <1>1, FromSlaveTyped, WaitingFacts, FirstInQueues
<1> HIDE DEF r
<1>4. /\ p.if \in Mine(r) /\ fromSlave'[r] = Tail(fromSlave[r])
      /\ \A q \in Queues : q # r => fromSlave'[q] = fromSlave[q]
      /\ Sorted(fromSlave')
  <2> DEFINE f == fromSlave g == fromSlave'
  <2>1. f \in [Queues -> Seq(Packets)] /\ Sorted(f) /\ f[r] # << >>
    BY <1>3, FromSlaveTyped DEF FromSlaveOrder
  <2>2. g[r] = Tail(f[r]) /\ \A q \in Queues : q # r => g[q] = f[q]
    BY <1>2, <1>3, <2>1
  <2> HIDE DEF f, g
  <2>3. Head(f[r]).if \in Mine(r) /\ Sorted(g)
    BY <1>3, <2>1, <2>2, TakeEach
  <2> QED
    BY <2>2, <2>3 DEF f, g
<1>5. InStreams' = InStreams
  BY <1>2 DEF InStreams, Unsplit, NextSplit, JustRead
<1>6. /\ fromSlave[r] \in Seq(Packets) /\ InStreams \in Seq(Packets)
      /\ LastOf(hostGot[r]) \in Nat /\ slaveSent[r] \in Nat
      /\ InOrder(fromSlave[r] \o InStreams, Mine(r), LastOf(hostGot[r]), slaveSent[r])
  BY <1>3, FromSlaveTyped DEF FromSlaveOrder, FromSlaveStages
<1>7. /\ p.n \in (LastOf(hostGot[r]) + 1)..slaveSent[r]
      /\ InOrder(Tail(fromSlave[r]) \o InStreams, Mine(r), p.n, slaveSent[r])
  BY <1>3, <1>4, <1>6, PacketsNumbered, HandedOver
<1> HIDE DEF p
<1>8. /\ hostGot'[r] = Append(hostGot[r], p.n) /\ LastOf(hostGot'[r]) = p.n
      /\ \A q \in Queues : q # r => hostGot'[q] = hostGot[q]
  <2>1. hostGot \in [Queues -> Seq(Nat)] /\ p.n \in Nat
    BY <1>6, <1>7, FromSlaveTyped
  <2>2. /\ hostGot'[r] = Append(hostGot[r], p.n)
        /\ \A q \in Queues : q # r => hostGot'[q] = hostGot[q]
    BY <1>2, <1>3, <2>1
  <2>3. hostGot[r] \in Seq(Nat)
    BY <1>3, <2>1
  <2> QED
    BY <2>1, <2>2, <2>3, LastFacts
<1>9. FromSlaveOrder'
  <2> SUFFICES ASSUME NEW q \in Queues
               PROVE  InOrder(FromSlaveStages(q)', Mine(q), LastOf(hostGot'[q]), slaveSent[q])
    BY <1>2, <1>4 DEF FromSlaveOrder, Sorted
  <2>1. FromSlaveStages(q)' = fromSlave'[q] \o InStreams
    BY <1>5 DEF FromSlaveStages
  <2>2. CASE q = r
    BY <1>4, <1>7, <1>8, <2>1, <2>2
  <2>3. CASE q # r
    BY <1>4, <1>8, <2>1, <2>3 DEF FromSlaveOrder, FromSlaveStages
  <2> QED
    BY <2>2, <2>3
<1>10. FromSlaveLink!Next
  <2>1. FromSlaveLink!Last(hostGot[r]) = LastOf(hostGot[r])
    BY DEF FromSlaveLink!Last, LastOf
  <2> QED
    BY <1>2, <1>3, <1>7, <2>1 DEF FromSlaveLink!Next, FromSlaveLink!Deliver
<1> QED
  BY <1>9, <1>10

-----------------------------------------------------------------------------
LEMMA InitOrder ==
  Init => FromSlaveOrder /\ ToSlaveOrder /\ FromSlaveLink!Init /\ ToSlaveLink!Init
<1> SUFFICES ASSUME Init
             PROVE  FromSlaveOrder /\ ToSlaveOrder /\ FromSlaveLink!Init /\ ToSlaveLink!Init
  OBVIOUS
<1>1. FromSlaveLink!Init /\ ToSlaveLink!Init
  BY DEF Init, FromSlaveLink!Init, ToSlaveLink!Init
<1>2. /\ readIndex = -1 /\ readPc = "open" /\ onWire = << >> /\ sendQueue = << >>
      /\ hostTx = << >> /\ received = << >> /\ rxHeld = << >>
      /\ \A q \in Queues :
            /\ fromSlave[q] = << >> /\ toSlave[q] = << >> /\ rxQueue[q] = << >>
            /\ hostGot[q] = << >> /\ slaveGot[q] = << >>
            /\ hostSent[q] = 0 /\ slaveSent[q] = 0
  BY DEF Init
<1>3. << >> \o << >> = << >>
  <2>1. << >> \in Seq(Nat)
    OBVIOUS
  <2> QED
    BY <2>1, EmptyJoin
<1>4. Unsplit = << >> /\ JustRead = << >>
  BY <1>2 DEF Unsplit, JustRead
<1>5. \A q \in Queues : FromSlaveStages(q) = << >> /\ ToSlaveStages(q) = << >>
  BY <1>2, <1>3, <1>4, Zenon DEF FromSlaveStages, InStreams, ToSlaveStages, SlaveHolds
<1>6. LastOf(<< >>) = 0
  BY DEF LastOf
<1>7. \A ifs : InOrder(<< >>, ifs, 0, 0)
  BY DEF InOrder
<1>8. Sorted(fromSlave) /\ Sorted(toSlave) /\ Sorted(rxQueue)
  BY <1>2 DEF Sorted
<1>9. FromSlaveOrder
  BY <1>2, <1>5, <1>6, <1>7, <1>8 DEF FromSlaveOrder
<1>10. ToSlaveOrder
  BY <1>2, <1>5, <1>6, <1>7, <1>8 DEF ToSlaveOrder
<1> QED
  BY <1>1, <1>9, <1>10

LEMMA StepFromSlave ==
  ASSUME IInv, FromSlaveOrder, [Next]_vars
  PROVE  FromSlaveOrder' /\ [FromSlaveLink!Next]_FromSlaveLink!vars
<1> USE DEF host, senders, writeTask, readTask, doubleBuf, hostOut, sendHw, recvHw, slaveIn,
        slaveOut
<1>1. CASE \E q \in Queues : HostQueue(q) \/ HostCount(q)
  BY <1>1, SameFromSlave DEF HostQueue, HostCount
<1>2. CASE WriteTask
  BY <1>2, SameFromSlave DEF WriteTask, WriteTake, WriteLock, UseKnownBuffer, ReadTokens,
     WriteBlock
<1>3. CASE ReadTask
  <2>1. CASE OpenDataPath \/ ReadRegs \/ ClearIntr
    BY <2>1, SameFromSlave DEF OpenDataPath, ReadRegs, ClearIntr
  <2> QED
    BY <1>3, <2>1, ReadFromSlave, HandOverFromSlave DEF ReadTask
<1>4. CASE SplitTask
  BY <1>4, SplitFromSlave, PushFromSlave DEF SplitTask
<1>5. CASE ProcessRxTask
  <2>1. CASE StartWriteTask
    BY <2>1, SameFromSlave DEF StartWriteTask
  <2> QED
    BY <1>5, <2>1, HandFromSlave DEF ProcessRxTask
<1>6. CASE SlaveStartup \/ \E interface \in {"serial", "sta"} : SlaveWrite(interface)
  BY <1>6, SameFromSlave DEF SlaveStartup, SlaveWrite, TakeSlot
<1>7. CASE \E t \in Writers : SlaveQueue(t)
  BY <1>7, QueueFromSlave
<1>8. CASE OfferStream \/ TxDone
  <2>1. CASE TxDone
    BY <2>1, SameFromSlave DEF TxDone
  <2> QED
    BY <1>8, <2>1, OfferFromSlave
<1>9. CASE RxTask
  BY <1>9, SameFromSlave DEF RxTask, RxTake, RxThrottle, SendStartThrottle, RxPut
<1>10. CASE RecvTask
  BY <1>10, SameFromSlave DEF RecvTask, SlaveRead, ReadThrottle, SendStopThrottle, ReadDone
<1>11. CASE UNCHANGED vars
  BY <1>11, SameFromSlave DEF vars
<1> QED
  BY <1>1, <1>2, <1>3, <1>4, <1>5, <1>6, <1>7, <1>8, <1>9, <1>10, <1>11 DEF Next

LEMMA StepToSlave ==
  ASSUME IInv, ToSlaveOrder, [Next]_vars
  PROVE  ToSlaveOrder' /\ [ToSlaveLink!Next]_ToSlaveLink!vars
<1> USE DEF host, senders, writeTask, readTask, doubleBuf, hostOut, sendHw, recvHw, slaveIn,
        slaveOut
<1>1. CASE \E q \in Queues : HostQueue(q) \/ HostCount(q)
  <2>1. CASE \E q \in Queues : HostCount(q)
    BY <2>1, SameToSlave DEF HostCount
  <2> QED
    BY <1>1, <2>1, AcceptToSlave
<1>2. CASE WriteTask
  <2>1. CASE WriteLock \/ UseKnownBuffer
    BY <2>1, SameToSlave DEF WriteLock, UseKnownBuffer
  <2> QED
    BY <1>2, <2>1, TakeToSlave, WriteToSlave DEF WriteTask
<1>3. CASE ReadTask
  BY <1>3, SameToSlave DEF ReadTask, OpenDataPath, ReadRegs, ClearIntr, ReadBlock, HandOver
<1>4. CASE SplitTask
  BY <1>4, SameToSlave DEF SplitTask, SplitTake, SplitPush, SplitDone
<1>5. CASE ProcessRxTask
  BY <1>5, SameToSlave DEF ProcessRxTask, HostRxTask, StartWriteTask
<1>6. CASE SlaveStartup \/ \E interface \in {"serial", "sta"} : SlaveWrite(interface)
  BY <1>6, SameToSlave DEF SlaveStartup, SlaveWrite, TakeSlot
<1>7. CASE \E t \in Writers : SlaveQueue(t)
  BY <1>7, SameToSlave DEF SlaveQueue
<1>8. CASE OfferStream \/ TxDone
  BY <1>8, SameToSlave DEF OfferStream, TxDone
<1>9. CASE RxTask
  <2>1. CASE RxThrottle \/ SendStartThrottle
    BY <2>1, SameToSlave DEF RxThrottle, SendStartThrottle
  <2> QED
    BY <1>9, <2>1, ReceiveToSlave DEF RxTask
<1>10. CASE RecvTask
  <2>1. CASE ReadThrottle \/ SendStopThrottle \/ ReadDone
    BY <2>1, SameToSlave DEF ReadThrottle, SendStopThrottle, ReadDone
  <2> QED
    BY <1>10, <2>1, HandToSlave DEF RecvTask
<1>11. CASE UNCHANGED vars
  BY <1>11, SameToSlave DEF vars
<1> QED
  BY <1>1, <1>2, <1>3, <1>4, <1>5, <1>6, <1>7, <1>8, <1>9, <1>10, <1>11 DEF Next

\* The link implements OrderedLink in both directions: however the tasks of the two
\* sides and the peripheral interleave, and although packets are dropped when the
\* co-processor has no buffer and streams of them when both buffers are in use, what
\* arrives of a queue arrives in order and at most once (esp_hosted_tx to recv_task,
\* sdio_write to sdio_process_rx_task).
THEOREM LinkOrderedHolds == Spec => LinkOrdered
<1>1. IInv /\ FromSlaveOrder /\ ToSlaveOrder /\ [Next]_vars
        => /\ FromSlaveOrder' /\ ToSlaveOrder'
           /\ [FromSlaveLink!Next]_FromSlaveLink!vars /\ [ToSlaveLink!Next]_ToSlaveLink!vars
  BY StepFromSlave, StepToSlave
<1> QED
  BY <1>1, InitOrder, Inductive, PTL DEF Spec, LinkOrdered, FromSlaveLink!Spec,
     ToSlaveLink!Spec
=============================================================================

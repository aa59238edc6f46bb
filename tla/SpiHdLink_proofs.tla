----------------------------- MODULE SpiHdLink_proofs -----------------------------
(* Theorems about SpiHdLink.                                                *)
EXTENDS SpiHdLink, LinkLemmas

-----------------------------------------------------------------------------
(* The inductive invariant: the type invariant by owner of the variables,   *)
(* then the counts and the registers.                                       *)

SendersOK ==
    /\ hostSent \in [Queues -> Nat] /\ hostWriter \in [Queues -> {"idle", "count"}]
    /\ toSlave \in [Queues -> Seq(Packets)] /\ toSlaveSem \in Nat
    /\ \A q \in Queues : Len(toSlave[q]) <= ToSlaveSize

WriteOK ==
    /\ writeStarted \in BOOLEAN /\ writePc \in {"wait", "lock", "check", "write"}
    /\ hostTx \in Seq(Packets) /\ Len(hostTx) <= 1
    /\ hostTx # << >> <=> writePc # "wait"
    /\ retry \in 0..Retries /\ available \in Nat /\ txCount \in 0..(TxMod - 1)
    /\ writePc = "check" => retry > 0

\* What has been read is in the hands of spi_hd_push_data_to_queue, and nowhere else.
ReadOK ==
    /\ busLock \in {"free", "read", "write"}
    /\ readPc \in {"open", "wait", "lock", "cmd9", "read", "push"}
    /\ seenLen \in 0..(RxMod - 1) /\ rxCount \in 0..(RxMod - 1)
    /\ rxbuff \in Seq(Loads) /\ Len(rxbuff) <= 1 /\ (rxbuff # << >> => readPc = "push")

OutOK ==
    /\ fromSlave \in [Queues -> Seq(Packets)] /\ fromSlaveSem \in Nat
    /\ \A q \in Queues : Len(fromSlave[q]) <= FromSlaveSize
    /\ hostGot \in [Queues -> Seq(Nat)]
    /\ up \in BOOLEAN /\ rxStarting \in BOOLEAN /\ throttled \in BOOLEAN

SendOK ==
    /\ dr \in BOOLEAN /\ drSem \in Nat /\ txReg \in 0..(RxMod - 1)
    /\ txQueue \in Seq(Loads) /\ txLoaded \in Seq(Loads) /\ Len(txLoaded) <= 1
    /\ finished \in Nat

RecvOK ==
    /\ rxReg \in 0..(TxMod - 1) /\ rxFree \in Nat /\ rxLoaded \in BOOLEAN
    /\ received \in Seq(Packets)

InOK ==
    /\ slaveCtrl \in BOOLEAN /\ opened \in BOOLEAN /\ hostResetSem \in BOOLEAN
    /\ slaveSent \in [Queues -> Nat] /\ txSem \in Nat
    /\ writer \in [Writers -> Seq(Interfaces \cup Flow)]
    /\ \A t \in Writers : Len(writer[t]) <= 1

RxOK ==
    /\ rxPc \in {"open", "recv", "throttle", "flow", "put"}
    /\ rxHeld \in Seq(Packets) /\ Len(rxHeld) <= 1
    /\ rxHeld # << >> <=> rxPc \notin {"open", "recv"}
    /\ opened <=> rxPc # "open"

SlaveOutOK ==
    /\ rxQueue \in [Queues -> Seq(Packets)] /\ rxSem \in Nat
    /\ \A q \in Queues : Len(rxQueue[q]) <= QueueSize
    /\ readerPc \in {"read", "throttle", "flow", "handle"}
    /\ slaveGot \in [Queues -> Seq(Nat)]

FlowOK ==
    /\ throttling \in BOOLEAN /\ wifiFlow \in BOOLEAN /\ flowSem \in BOOLEAN
    /\ flowCmd \in Seq(Flow) /\ Len(flowCmd) <= 1

Uncounted(w) == OneIf(w["serial"] = "count") + OneIf(w["others"] = "count")

ToSlaveCount == Waiting(toSlave) = toSlaveSem + Uncounted(hostWriter)
FromSlaveCount == Waiting(fromSlave) = fromSlaveSem
RxQueueCount == Waiting(rxQueue) = rxSem

\* The registers count what is loaded from zero at both ends.
TxAhead == (txReg + RxMod - rxCount) % RxMod = Len(txLoaded)
RxAhead == BuffersLeft = OneIf(rxLoaded)
Known == available + OneIf(writePc = "write") <= OneIf(rxLoaded)
Bufs ==
    rxFree + OneIf(rxLoaded) + Len(received) + Len(rxHeld) + Waiting(rxQueue)
      + OneIf(readerPc # "read")
BufsCount == Bufs = IF opened THEN QueueSize ELSE 0

IInv ==
    /\ SendersOK /\ WriteOK /\ ReadOK /\ OutOK /\ SendOK /\ RecvOK /\ InOK /\ RxOK
    /\ SlaveOutOK /\ FlowOK
    /\ ToSlaveCount /\ FromSlaveCount /\ RxQueueCount
    /\ TxAhead /\ Announced /\ RxAhead /\ Known /\ BufsCount

LEMMA Sizes ==
  /\ ToSlaveSize \in Nat /\ FromSlaveSize \in Nat
  /\ QueueSize \in Nat /\ QueueSize > 0 /\ Retries \in Nat /\ Retries > 0
  /\ TxMod \in Nat /\ TxMod > 1 /\ RxMod \in Nat /\ RxMod > 1
<1>1. /\ ToSlaveSize \in Nat \ {0} /\ FromSlaveSize \in Nat \ {0} /\ QueueSize \in Nat \ {0}
      /\ Retries \in Nat \ {0} /\ TxMod \in Nat \ {0, 1} /\ RxMod \in Nat \ {0, 1}
  BY SizesAssumption
<1> QED
  BY <1>1

-----------------------------------------------------------------------------
(* Packets, queues and counts.                                              *)

LEMMA QueueOfInQueues == ASSUME NEW i PROVE QueueOf(i) \in Queues
  BY DEF QueueOf, Queues

LEMMA PacketIsOne ==
  ASSUME NEW n \in Nat
  PROVE  /\ \A i \in Interfaces : Packet(i, n) \in Packets
         /\ \A i \in Interfaces \cup Flow : Packet(i, n) \in Loads
  BY DEF Packet, Packets, Loads

LEMMA OneIfNat == ASSUME NEW c PROVE OneIf(c) \in 0..1
  BY DEF OneIf

LEMMA UncountedChange ==
  ASSUME NEW v \in [Queues -> {"idle", "count"}], NEW w \in [Queues -> {"idle", "count"}],
         NEW q \in Queues, v[q] = "count", w[q] = "idle",
         \A r \in Queues : r # q => v[r] = w[r]
  PROVE  Uncounted(v) = Uncounted(w) + 1
<1>1. CASE q = "serial"
  BY <1>1 DEF Uncounted, OneIf, Queues
<1>2. CASE q = "others"
  BY <1>2 DEF Uncounted, OneIf, Queues
<1> QED
  BY <1>1, <1>2 DEF Queues

LEMMA UncountedNat == ASSUME NEW w PROVE Uncounted(w) \in Nat
  BY DEF Uncounted, OneIf

LEMMA WaitingFacts ==
  ASSUME NEW f \in [Queues -> Seq(Packets)]
  PROVE  /\ Waiting(f) \in Nat
         /\ \A q \in Queues : Len(f[q]) \in Nat /\ Len(f[q]) <= Waiting(f)
         /\ Waiting(f) > 0 => FirstQueue(f) \in Queues /\ f[FirstQueue(f)] # << >>
<1>1. Queues = Lanes /\ Waiting(f) = Total(f)
  BY Zenon DEF Queues, Lanes, Waiting, Total
<1>2. /\ Total(f) \in Nat
      /\ \A q \in Lanes : Len(f[q]) \in Nat /\ Len(f[q]) <= Total(f)
      /\ Total(f) > 0 => f["serial"] # << >> \/ f["others"] # << >>
  BY <1>1, TotalFacts
<1>3. /\ FirstQueue(f) \in Queues
      /\ f["serial"] # << >> \/ f["others"] # << >> => f[FirstQueue(f)] # << >>
  BY Zenon DEF FirstQueue, Queues
<1> QED
  BY <1>1, <1>2, <1>3, Zenon

LEMMA PutFacts ==
  ASSUME NEW f \in [Queues -> Seq(Packets)], NEW p \in Packets
  PROVE  /\ PutIn(f, p) \in [Queues -> Seq(Packets)]
         /\ Waiting(PutIn(f, p)) = Waiting(f) + 1
         /\ \A size \in Nat :
              Len(f[QueueOf(p.if)]) < size /\ (\A r \in Queues : Len(f[r]) <= size)
                => \A r \in Queues : Len(PutIn(f, p)[r]) <= size
<1> DEFINE q == QueueOf(p.if)
           g == [f EXCEPT ![q] = Append(f[q], p)]
<1>1. q \in Queues /\ g = PutIn(f, p)
  BY QueueOfInQueues DEF PutIn
<1>2. Queues = Lanes /\ Waiting(f) = Total(f) /\ Waiting(g) = Total(g)
  BY Zenon DEF Queues, Lanes, Waiting, Total
<1> HIDE DEF q
<1>3. /\ g \in [Lanes -> Seq(Packets)] /\ Total(g) = Total(f) + 1
      /\ \A size \in Nat :
           Len(f[q]) < size /\ (\A r \in Lanes : Len(f[r]) <= size)
             => \A r \in Lanes : Len(g[r]) <= size
  <2>1. f \in [Lanes -> Seq(Packets)] /\ q \in Lanes
    BY <1>1, <1>2
  <2> QED
    BY <2>1, PutTotal
<1> HIDE DEF g
<1> QED
  BY <1>1, <1>2, <1>3, Zenon DEF q

\* Who has counted a packet finds one in the queue it looks at.
LEMMA TakeFacts ==
  ASSUME NEW f \in [Queues -> Seq(Packets)], Waiting(f) > 0, NEW g,
         g = [f EXCEPT ![FirstQueue(f)] = Tail(@)]
  PROVE  /\ FirstQueue(f) \in Queues /\ Head(f[FirstQueue(f)]) \in Packets
         /\ g \in [Queues -> Seq(Packets)]
         /\ Waiting(g) = Waiting(f) - 1
         /\ \A r \in Queues : /\ Len(f[r]) \in Nat /\ Len(g[r]) \in Nat
                              /\ Len(g[r]) <= Len(f[r])
<1> DEFINE q == FirstQueue(f)
<1>1. q \in Queues /\ f[q] # << >>
  BY WaitingFacts
<1>2. Queues = Lanes /\ Waiting(f) = Total(f) /\ Waiting(g) = Total(g)
  BY Zenon DEF Queues, Lanes, Waiting, Total
<1>3. g = [f EXCEPT ![q] = Tail(f[q])]
  OBVIOUS
<1> HIDE DEF q
<1>4. /\ Head(f[q]) \in Packets /\ g \in [Lanes -> Seq(Packets)]
      /\ Total(g) = Total(f) - 1 /\ \A r \in Lanes : Len(g[r]) <= Len(f[r])
  <2> DEFINE h == [f EXCEPT ![q] = Tail(f[q])]
  <2>1. f \in [Lanes -> Seq(Packets)] /\ q \in Lanes /\ f[q] # << >>
    BY <1>1, <1>2
  <2>2. /\ Head(f[q]) \in Packets /\ h \in [Lanes -> Seq(Packets)]
        /\ Total(h) = Total(f) - 1 /\ \A r \in Lanes : Len(h[r]) <= Len(f[r])
    BY <2>1, TakeTotal
  <2> HIDE DEF h
  <2>3. g = h
    BY <1>3 DEF h
  <2> QED
    BY <2>2, <2>3
<1>5. \A r \in Queues : Len(f[r]) \in Nat /\ Len(g[r]) \in Nat
  BY <1>2, <1>4, TotalFacts
<1> QED
  BY <1>1, <1>2, <1>4, <1>5, Zenon DEF q

LEMMA TakeBounded ==
  ASSUME NEW f \in [Queues -> Seq(Packets)], Waiting(f) > 0, NEW g,
         g = [f EXCEPT ![FirstQueue(f)] = Tail(@)],
         NEW size \in Nat, \A r \in Queues : Len(f[r]) <= size
  PROVE  \A r \in Queues : Len(g[r]) <= size
<1>1. \A r \in Queues : /\ Len(f[r]) \in Nat /\ Len(g[r]) \in Nat
                        /\ Len(g[r]) <= Len(f[r])
  BY TakeFacts
<1> QED
  BY <1>1

\* What a queue hands over is added to the numbers its receiver got.
LEMMA GotFacts ==
  ASSUME NEW g \in [Queues -> Seq(Nat)], NEW q \in Queues, NEW p \in Packets
  PROVE  [g EXCEPT ![q] = Append(@, p.n)] \in [Queues -> Seq(Nat)]
<1>1. p.n \in Nat
  BY DEF Packets
<1>2. Append(g[q], p.n) \in Seq(Nat)
  BY <1>1, AppendFacts
<1> QED
  BY <1>2

(* What a step leaves alone keeps each part.                                *)

LEMMA Frames ==
  /\ SendersOK /\ UNCHANGED <<hostSent, hostWriter, toSlave, toSlaveSem>> => SendersOK'
  /\ WriteOK
       /\ UNCHANGED <<writeStarted, writePc, hostTx, retry, available, txCount>>
       => WriteOK'
  /\ ReadOK /\ UNCHANGED <<busLock, readPc, seenLen, rxbuff, rxCount>> => ReadOK'
  /\ OutOK
       /\ UNCHANGED <<fromSlave, fromSlaveSem, hostGot, up, rxStarting, throttled>>
       => OutOK'
  /\ SendOK /\ UNCHANGED <<dr, drSem, txReg, txQueue, txLoaded, finished>> => SendOK'
  /\ RecvOK /\ UNCHANGED <<rxReg, rxFree, rxLoaded, received>> => RecvOK'
  /\ InOK /\ UNCHANGED <<slaveCtrl, opened, hostResetSem, slaveSent, txSem, writer>> => InOK'
  /\ RxOK /\ UNCHANGED <<rxPc, rxHeld, opened>> => RxOK'
  /\ SlaveOutOK /\ UNCHANGED <<rxQueue, rxSem, readerPc, slaveGot>> => SlaveOutOK'
  /\ FlowOK /\ UNCHANGED <<throttling, wifiFlow, flowSem, flowCmd>> => FlowOK'
  /\ ToSlaveCount /\ UNCHANGED <<toSlave, toSlaveSem, hostWriter>> => ToSlaveCount'
  /\ FromSlaveCount /\ UNCHANGED <<fromSlave, fromSlaveSem>> => FromSlaveCount'
  /\ RxQueueCount /\ UNCHANGED <<rxQueue, rxSem>> => RxQueueCount'
  /\ TxAhead /\ UNCHANGED <<txReg, rxCount, txLoaded>> => TxAhead'
  /\ Announced /\ UNCHANGED <<txLoaded, drSem, readPc, dr, seenLen, rxCount>> => Announced'
  /\ RxAhead /\ UNCHANGED <<rxReg, txCount, rxLoaded>> => RxAhead'
  /\ Known /\ UNCHANGED <<available, writePc, rxLoaded>> => Known'
  /\ BufsCount
       /\ UNCHANGED <<rxFree, rxLoaded, received, rxHeld, rxQueue, readerPc, opened>>
       => BufsCount'
<1>1. SendersOK /\ UNCHANGED <<hostSent, hostWriter, toSlave, toSlaveSem>> => SendersOK'
  BY Zenon DEF SendersOK
<1>2. WriteOK
        /\ UNCHANGED <<writeStarted, writePc, hostTx, retry, available, txCount>>
        => WriteOK'
  BY Zenon DEF WriteOK
<1>3. ReadOK /\ UNCHANGED <<busLock, readPc, seenLen, rxbuff, rxCount>> => ReadOK'
  BY Zenon DEF ReadOK
<1>4. OutOK
        /\ UNCHANGED <<fromSlave, fromSlaveSem, hostGot, up, rxStarting, throttled>>
        => OutOK'
  BY Zenon DEF OutOK
<1>5. SendOK /\ UNCHANGED <<dr, drSem, txReg, txQueue, txLoaded, finished>> => SendOK'
  BY Zenon DEF SendOK
<1>6. RecvOK /\ UNCHANGED <<rxReg, rxFree, rxLoaded, received>> => RecvOK'
  BY Zenon DEF RecvOK
<1>7. InOK
        /\ UNCHANGED <<slaveCtrl, opened, hostResetSem, slaveSent, txSem, writer>>
        => InOK'
  BY Zenon DEF InOK
<1>8. RxOK /\ UNCHANGED <<rxPc, rxHeld, opened>> => RxOK'
  BY DEF RxOK
<1>9. SlaveOutOK /\ UNCHANGED <<rxQueue, rxSem, readerPc, slaveGot>> => SlaveOutOK'
  BY Zenon DEF SlaveOutOK
<1>10. FlowOK /\ UNCHANGED <<throttling, wifiFlow, flowSem, flowCmd>> => FlowOK'
  BY Zenon DEF FlowOK
<1>11. ToSlaveCount /\ UNCHANGED <<toSlave, toSlaveSem, hostWriter>> => ToSlaveCount'
  BY Zenon DEF ToSlaveCount, Waiting, Uncounted, OneIf
<1>12. FromSlaveCount /\ UNCHANGED <<fromSlave, fromSlaveSem>> => FromSlaveCount'
  BY Zenon DEF FromSlaveCount, Waiting
<1>13. RxQueueCount /\ UNCHANGED <<rxQueue, rxSem>> => RxQueueCount'
  BY Zenon DEF RxQueueCount, Waiting
<1>14. TxAhead /\ UNCHANGED <<txReg, rxCount, txLoaded>> => TxAhead'
  BY Zenon DEF TxAhead
<1>15. Announced
        /\ UNCHANGED <<txLoaded, drSem, readPc, dr, seenLen, rxCount>>
        => Announced'
  BY DEF Announced, OneIf, SizeToXfer
<1>16. RxAhead /\ UNCHANGED <<rxReg, txCount, rxLoaded>> => RxAhead'
  BY DEF RxAhead, OneIf, BuffersLeft
<1>17. Known /\ UNCHANGED <<available, writePc, rxLoaded>> => Known'
  BY DEF Known, OneIf
<1>18. BufsCount
        /\ UNCHANGED <<rxFree, rxLoaded, received, rxHeld, rxQueue, readerPc, opened>>
        => BufsCount'
  <2> SUFFICES ASSUME BufsCount,
                      UNCHANGED <<rxFree, rxLoaded, received, rxHeld, rxQueue, readerPc,
                                  opened>>
               PROVE  BufsCount'
    OBVIOUS
  <2>1. Bufs' = Bufs
    BY DEF Bufs, OneIf, Waiting
  <2> QED
    BY <2>1, Zenon DEF BufsCount
<1> QED
  BY <1>1, <1>2, <1>3, <1>4, <1>5, <1>6, <1>7, <1>8, <1>9,
     <1>10, <1>11, <1>12, <1>13, <1>14, <1>15, <1>16, <1>17, <1>18, Zenon

LEMMA BufsFacts ==
  ASSUME RecvOK, RxOK, SlaveOutOK
  PROVE  /\ rxFree \in Nat /\ OneIf(rxLoaded) \in 0..1 /\ Len(received) \in Nat
         /\ Len(rxHeld) \in Nat /\ Waiting(rxQueue) \in Nat
         /\ OneIf(readerPc # "read") \in 0..1
<1>1. rxFree \in Nat /\ Len(received) \in Nat /\ Len(rxHeld) \in Nat
  BY EmptyFacts DEF RecvOK, RxOK
<1>2. Waiting(rxQueue) \in Nat
  BY WaitingFacts DEF SlaveOutOK
<1>3. OneIf(rxLoaded) \in 0..1 /\ OneIf(readerPc # "read") \in 0..1
  BY OneIfNat
<1> QED
  BY <1>1, <1>2, <1>3

\* The packets that hold a place in one direction.
LEMMA WriterFacts ==
  ASSUME InOK, NEW t \in Writers, NEW x \in Seq(Interfaces \cup Flow), Len(x) <= 1
  PROVE  LET w == [writer EXCEPT ![t] = x]
         IN  w \in [Writers -> Seq(Interfaces \cup Flow)] /\ \A u \in Writers : Len(w[u]) <= 1
  BY DEF InOK

-----------------------------------------------------------------------------
(* The host's senders.                                                      *)

LEMMA HostSenderIInv ==
  ASSUME IInv, NEW q \in Queues, HostQueue(q) \/ HostCount(q)
  PROVE  IInv'
<1> USE Sizes DEF IInv, host, senders, writeTask, readTask, hostOut, sendHw, recvHw,
        slaveIn, rxTask, slaveOut, flow
<1>1. CASE HostQueue(q)
  <2>1. Packet(IF q = "serial" THEN "serial" ELSE "sta", hostSent[q] + 1) \in Packets
    <3>1. (IF q = "serial" THEN "serial" ELSE "sta") \in Interfaces
      BY DEF Interfaces
    <3>2. hostSent[q] + 1 \in Nat
      BY DEF SendersOK
    <3> QED
      BY <3>1, <3>2, PacketIsOne, Zenon
  <2>2. /\ toSlave' = PutIn(toSlave, Packet(IF q = "serial" THEN "serial" ELSE "sta",
                                           hostSent[q] + 1))
        /\ Len(toSlave[q]) < ToSlaveSize
        /\ QueueOf(Packet(IF q = "serial" THEN "serial" ELSE "sta", hostSent[q] + 1).if) = q
    BY <1>1 DEF HostQueue, QueueOf, Queues, Packet
  <2>3. /\ toSlave' \in [Queues -> Seq(Packets)]
        /\ Waiting(toSlave') = Waiting(toSlave) + 1
        /\ \A r \in Queues : Len(toSlave'[r]) <= ToSlaveSize
    <3> DEFINE p == Packet(IF q = "serial" THEN "serial" ELSE "sta", hostSent[q] + 1)
    <3> HIDE DEF p
    <3>1. p \in Packets /\ toSlave' = PutIn(toSlave, p) /\ QueueOf(p.if) = q
      BY <2>1, <2>2 DEF p
    <3> QED
      BY <2>2, <3>1, PutFacts DEF SendersOK
  <2>4. /\ WriteOK' /\ ReadOK' /\ OutOK' /\ SendOK' /\ RecvOK' /\ InOK' /\ RxOK'
        /\ SlaveOutOK' /\ FlowOK' /\ FromSlaveCount' /\ RxQueueCount'
        /\ TxAhead' /\ Announced' /\ RxAhead' /\ Known' /\ BufsCount'
    BY <1>1, Frames DEF HostQueue
  <2>5. SendersOK'
    BY <1>1, <2>3 DEF HostQueue, SendersOK
  <2>6. ToSlaveCount'
    <3>1. Uncounted(hostWriter') = Uncounted(hostWriter) + 1
      <4>1. /\ hostWriter \in [Queues -> {"idle", "count"}]
            /\ hostWriter' \in [Queues -> {"idle", "count"}]
        BY <1>1 DEF HostQueue, SendersOK
      <4>2. /\ hostWriter'[q] = "count" /\ hostWriter[q] = "idle"
            /\ \A r \in Queues : r # q => hostWriter'[r] = hostWriter[r]
        BY <1>1, <4>1 DEF HostQueue
      <4> QED
        BY <4>1, <4>2, UncountedChange
    <3>2. toSlaveSem' = toSlaveSem /\ toSlaveSem \in Nat
      BY <1>1 DEF HostQueue, SendersOK
    <3> QED
      BY <2>3, <3>1, <3>2, UncountedNat DEF ToSlaveCount
  <2> QED
    BY <2>4, <2>5, <2>6 DEF IInv
<1>2. CASE HostCount(q)
  <2>1. /\ WriteOK' /\ ReadOK' /\ OutOK' /\ SendOK' /\ RecvOK' /\ InOK' /\ RxOK'
        /\ SlaveOutOK' /\ FlowOK' /\ FromSlaveCount' /\ RxQueueCount'
        /\ TxAhead' /\ Announced' /\ RxAhead' /\ Known' /\ BufsCount'
    BY <1>2, Frames DEF HostCount
  <2>2. SendersOK'
    BY <1>2 DEF HostCount, SendersOK
  <2>3. ToSlaveCount'
    <3>1. Uncounted(hostWriter) = Uncounted(hostWriter') + 1
      <4>1. /\ hostWriter \in [Queues -> {"idle", "count"}]
            /\ hostWriter' \in [Queues -> {"idle", "count"}]
        BY <1>2 DEF HostCount, SendersOK
      <4>2. /\ hostWriter[q] = "count" /\ hostWriter'[q] = "idle"
            /\ \A r \in Queues : r # q => hostWriter[r] = hostWriter'[r]
        BY <1>2, <4>1 DEF HostCount
      <4> QED
        BY <4>1, <4>2, UncountedChange
    <3>2. toSlaveSem' = toSlaveSem + 1 /\ toSlaveSem \in Nat /\ toSlave' = toSlave
      BY <1>2 DEF HostCount, SendersOK
    <3> QED
      BY <3>1, <3>2, UncountedNat DEF ToSlaveCount
  <2> QED
    BY <2>1, <2>2, <2>3 DEF IInv
<1> QED
  BY <1>1, <1>2

-----------------------------------------------------------------------------
(* spi_hd_write_task.                                                       *)

LEMMA WriteTaskIInv ==
  ASSUME IInv, WriteTake \/ WriteLock \/ FindBuffer \/ WriteDma
  PROVE  IInv'
<1> USE Sizes DEF IInv, host, senders, writeTask, readTask, hostOut, sendHw, recvHw,
        slaveIn, rxTask, slaveOut, flow
<1>1. CASE WriteTake
  <2>1. Waiting(toSlave) \in Nat /\ Waiting(toSlave) > 0
    BY <1>1, UncountedNat DEF WriteTake, SendersOK, ToSlaveCount
  <2>2. /\ toSlave \in [Queues -> Seq(Packets)]
        /\ toSlave' = [toSlave EXCEPT ![FirstQueue(toSlave)] = Tail(@)]
        /\ hostTx' = <<Head(toSlave[FirstQueue(toSlave)])>>
    BY <1>1 DEF WriteTake, SendersOK
  <2>3. /\ Head(toSlave[FirstQueue(toSlave)]) \in Packets
        /\ toSlave' \in [Queues -> Seq(Packets)]
        /\ Waiting(toSlave') = Waiting(toSlave) - 1
    BY <2>1, <2>2, TakeFacts
  <2>4. \A r \in Queues : Len(toSlave'[r]) <= ToSlaveSize
    BY <2>1, <2>2, TakeBounded DEF SendersOK
  <2>5. hostTx' \in Seq(Packets) /\ Len(hostTx') = 1 /\ hostTx' # << >>
    BY <2>2, <2>3, OneFacts
  <2>6. /\ ReadOK' /\ OutOK' /\ SendOK' /\ RecvOK' /\ InOK' /\ RxOK'
        /\ SlaveOutOK' /\ FlowOK' /\ FromSlaveCount' /\ RxQueueCount'
        /\ TxAhead' /\ Announced' /\ RxAhead' /\ BufsCount'
    BY <1>1, Frames DEF WriteTake
  <2>7. SendersOK'
    BY <1>1, <2>3, <2>4 DEF WriteTake, SendersOK
  <2>8. WriteOK'
    BY <1>1, <2>5 DEF WriteTake, WriteOK
  <2>9. ToSlaveCount'
    <3> DEFINE u == Uncounted(hostWriter)
    <3>1. hostWriter' = hostWriter /\ toSlaveSem' = toSlaveSem - 1 /\ toSlaveSem \in Nat
      BY <1>1 DEF WriteTake, SendersOK
    <3>2. u \in Nat /\ Uncounted(hostWriter') = u
      BY <3>1, UncountedNat
    <3>3. Waiting(toSlave) = toSlaveSem + u
      BY Zenon DEF ToSlaveCount
    <3> HIDE DEF u
    <3>4. Waiting(toSlave') = (toSlaveSem - 1) + u
      BY <2>3, <3>1, <3>2, <3>3
    <3> QED
      BY <3>1, <3>2, <3>4, Zenon DEF ToSlaveCount
  <2>10. Known'
    BY <1>1 DEF WriteTake, Known, OneIf
  <2> QED
    BY <2>6, <2>7, <2>8, <2>9, <2>10 DEF IInv
<1>2. CASE WriteLock
  <2>1. /\ SendersOK' /\ OutOK' /\ SendOK' /\ RecvOK' /\ InOK' /\ RxOK'
        /\ SlaveOutOK' /\ FlowOK' /\ ToSlaveCount' /\ FromSlaveCount'
        /\ RxQueueCount' /\ TxAhead' /\ Announced' /\ RxAhead' /\ BufsCount'
    BY <1>2, Frames DEF WriteLock
  <2>2. WriteOK'
    BY <1>2 DEF WriteLock, WriteOK
  <2>3. ReadOK'
    BY <1>2 DEF WriteLock, ReadOK
  <2>4. Known'
    BY <1>2 DEF WriteLock, Known, OneIf
  <2> QED
    BY <2>1, <2>2, <2>3, <2>4 DEF IInv
<1>3. CASE FindBuffer
  <2>1. available \in Nat /\ BuffersLeft \in 0..1 /\ BuffersLeft = OneIf(rxLoaded)
    BY OneIfNat DEF WriteOK, RxAhead
  <2>2. PICK known \in Nat :
          /\ known = IF available > 0 THEN available ELSE BuffersLeft
          /\ known <= OneIf(rxLoaded)
    <3>1. available <= OneIf(rxLoaded)
      BY <1>3, <2>1 DEF FindBuffer, Known, OneIf
    <3> QED
      BY <2>1, <3>1
  <2>3. /\ writePc = "check" /\ retry \in 1..Retries /\ hostTx \in Seq(Packets)
        /\ Len(hostTx) <= 1 /\ hostTx # << >>
        /\ UNCHANGED <<writeStarted, txCount, rxLoaded>>
    BY <1>3 DEF FindBuffer, WriteOK
  <2>4. \/ /\ known > 0 /\ available' = known - 1 /\ writePc' = "write"
           /\ UNCHANGED <<hostTx, retry, busLock>>
        \/ /\ known = 0 /\ retry' = retry - 1 /\ retry > 1
           /\ UNCHANGED <<writePc, hostTx, busLock, available>>
        \/ /\ known = 0 /\ retry' = retry - 1
           /\ writePc' = "wait" /\ hostTx' = << >> /\ busLock' = "free"
           /\ UNCHANGED available
    BY <1>3, <2>2 DEF FindBuffer
  <2>5. /\ SendersOK' /\ OutOK' /\ SendOK' /\ RecvOK' /\ InOK' /\ RxOK'
        /\ SlaveOutOK' /\ FlowOK' /\ ToSlaveCount' /\ FromSlaveCount'
        /\ RxQueueCount' /\ TxAhead' /\ Announced' /\ RxAhead' /\ BufsCount'
    BY <1>3, Frames DEF FindBuffer
  <2>6. WriteOK'
    <3>1. << >> \in Seq(Packets) /\ Len(<< >>) = 0
      OBVIOUS
    <3>2. known \in Nat /\ known - 1 \in Int /\ (known > 0 => known - 1 \in Nat)
      BY <2>2
    <3>3. retry - 1 \in 0..Retries /\ retry \in 0..Retries /\ retry > 0
      BY <2>3
    <3>4. retry > 1 => retry - 1 > 0
      BY <2>3
    <3>5. writeStarted' \in BOOLEAN /\ txCount' \in 0..(TxMod - 1) /\ available \in Nat
      BY <2>3 DEF WriteOK
    <3>6. CASE known > 0
      BY <2>3, <2>4, <3>2, <3>3, <3>5, <3>6 DEF WriteOK
    <3>7. CASE known = 0
      <4>1. /\ retry' \in 0..Retries /\ available' \in Nat
            /\ writeStarted' \in BOOLEAN /\ txCount' \in 0..(TxMod - 1)
        BY <2>4, <3>3, <3>5, <3>7
      <4>2. \/ /\ writePc' = "check" /\ hostTx' = hostTx /\ retry' > 0
            \/ writePc' = "wait" /\ hostTx' = << >>
        BY <2>3, <2>4, <3>4, <3>7
      <4>3. /\ hostTx' \in Seq(Packets) /\ Len(hostTx') <= 1
            /\ (hostTx' # << >> <=> writePc' # "wait")
        <5>1. CASE writePc' = "check" /\ hostTx' = hostTx
          BY <2>3, <5>1
        <5>2. CASE writePc' = "wait" /\ hostTx' = << >>
          <6>1. Len(hostTx') <= 1 /\ hostTx' \in Seq(Packets)
            BY <5>2, <3>1, <2>3
          <6> QED
            BY <5>2, <6>1, Zenon
        <5> QED
          BY <4>2, <5>1, <5>2
      <4>4. /\ writePc' \in {"wait", "lock", "check", "write"}
            /\ (writePc' = "check" => retry' > 0)
        BY <4>2
      <4> QED
        BY <4>1, <4>3, <4>4, Zenon DEF WriteOK
    <3> QED
      BY <2>2, <3>6, <3>7
  <2>7. ReadOK'
    BY <1>3, <2>4 DEF FindBuffer, ReadOK
  <2>8. Known'
    <3>1. CASE known > 0
      <4>1. available' = known - 1 /\ writePc' = "write" /\ rxLoaded' = rxLoaded
        BY <2>3, <2>4, <3>1
      <4>2. OneIf(writePc' = "write") = 1 /\ OneIf(rxLoaded') = OneIf(rxLoaded)
        BY <4>1 DEF OneIf
      <4>3. available' + OneIf(writePc' = "write") = known
        BY <2>2, <4>1, <4>2
      <4> QED
        BY <2>2, <4>2, <4>3 DEF Known
    <3>2. CASE known = 0
      <4>1. available = 0 /\ available' = 0 /\ writePc' # "write"
        BY <2>1, <2>2, <2>3, <2>4, <3>2
      <4> QED
        BY <4>1 DEF Known, OneIf
    <3> QED
      BY <3>1, <3>2
  <2> QED
    BY <2>5, <2>6, <2>7, <2>8 DEF IInv
<1>4. CASE WriteDma
  <2>1. received' \in Seq(Packets) /\ Len(received') = Len(received) + 1
    <3>1. Len(hostTx) = 1 /\ hostTx \in Seq(Packets) /\ received \in Seq(Packets)
      <4>1. hostTx # << >> /\ Len(hostTx) <= 1 /\ hostTx \in Seq(Packets)
        BY <1>4 DEF WriteDma, WriteOK
      <4> QED
        BY <4>1, OnlyFacts DEF RecvOK
    <3>2. received' = received \o hostTx
      BY <1>4 DEF WriteDma
    <3> QED
      BY <3>1, <3>2, JoinFacts
  <2>2. txCount' \in 0..(TxMod - 1) /\ BuffersLeft' = 0
    <3>1. rxReg \in 0..(TxMod - 1) /\ txCount \in 0..(TxMod - 1) /\ 1 \in 0..(TxMod - 1)
      BY DEF RecvOK, WriteOK
    <3>2. (rxReg + TxMod - txCount) % TxMod = 1
      BY <1>4 DEF WriteDma, RxAhead, BuffersLeft, OneIf
    <3>3. txCount' = (txCount + 1) % TxMod /\ rxReg' = rxReg
      BY <1>4 DEF WriteDma
    <3>4. 1 \in Nat /\ 1 <= 1 /\ 1 - 1 = 0
      OBVIOUS
    <3>5. /\ txCount' \in 0..(TxMod - 1)
          /\ (rxReg + TxMod - txCount') % TxMod = 1 - 1
      BY <3>1, <3>2, <3>3, <3>4, BehindMoves
    <3> QED
      BY <3>3, <3>4, <3>5, Zenon DEF BuffersLeft
  <2>3. /\ SendersOK' /\ OutOK' /\ SendOK' /\ InOK' /\ RxOK' /\ SlaveOutOK'
        /\ FlowOK' /\ ToSlaveCount' /\ FromSlaveCount' /\ RxQueueCount'
        /\ TxAhead' /\ Announced'
    BY <1>4, Frames DEF WriteDma
  <2>4. WriteOK'
    <3>1. << >> \in Seq(Packets) /\ Len(<< >>) = 0
      OBVIOUS
    <3> QED
      BY <1>4, <2>2, <3>1 DEF WriteDma, WriteOK
  <2>5. ReadOK'
    BY <1>4 DEF WriteDma, ReadOK
  <2>6. RecvOK'
    BY <1>4, <2>1 DEF WriteDma, RecvOK
  <2>7. RxAhead'
    BY <1>4, <2>2 DEF WriteDma, RxAhead, OneIf
  <2>8. Known'
    <3>1. available = 0
      BY <1>4 DEF WriteDma, Known, OneIf, WriteOK
    <3> QED
      BY <1>4, <3>1 DEF WriteDma, Known, OneIf
  <2>9. BufsCount'
    <3>1. OneIf(rxLoaded) = 1 /\ OneIf(rxLoaded') = 0
      BY <1>4 DEF WriteDma, OneIf
    <3>2. UNCHANGED <<rxFree, rxHeld, rxQueue, readerPc, opened>>
      BY <1>4 DEF WriteDma
    <3>3. UNCHANGED Waiting(rxQueue) /\ UNCHANGED OneIf(readerPc # "read")
      BY <3>2, Zenon
    <3>4. Bufs' = Bufs
      BY <2>1, <3>1, <3>2, <3>3, BufsFacts DEF Bufs
    <3>5. opened' = opened
      BY <3>2
    <3> QED
      BY <3>4, <3>5, Zenon DEF BufsCount
  <2> QED
    BY <2>3, <2>4, <2>5, <2>6, <2>7, <2>8, <2>9 DEF IInv
<1> QED
  BY <1>1, <1>2, <1>3, <1>4

-----------------------------------------------------------------------------
(* spi_hd_read_task.                                                        *)

LEMMA ReadTaskIInv ==
  ASSUME IInv, OpenDataPath \/ ReadTake \/ ReadReg \/ SendCmd9 \/ ReadDma
               \/ UpdateFlowCtrl \/ PushPacket
  PROVE  IInv'
<1> USE Sizes DEF IInv, host, senders, writeTask, readTask, hostOut, sendHw, recvHw,
        slaveIn, rxTask, slaveOut, flow
<1>1. CASE OpenDataPath
  <2>1. /\ SendersOK' /\ WriteOK' /\ OutOK' /\ SendOK' /\ RecvOK' /\ RxOK'
        /\ SlaveOutOK' /\ FlowOK' /\ ToSlaveCount' /\ FromSlaveCount'
        /\ RxQueueCount' /\ TxAhead' /\ RxAhead' /\ Known' /\ BufsCount'
    BY <1>1, Frames DEF OpenDataPath
  <2>2. ReadOK'
    BY <1>1 DEF OpenDataPath, ReadOK
  <2>3. InOK'
    BY <1>1 DEF OpenDataPath, InOK
  <2>4. Announced'
    BY <1>1 DEF OpenDataPath, Announced, OneIf
  <2> QED
    BY <2>1, <2>2, <2>3, <2>4 DEF IInv
<1>2. CASE ReadTake
  <2>1. /\ SendersOK' /\ WriteOK' /\ OutOK' /\ RecvOK' /\ InOK' /\ RxOK'
        /\ SlaveOutOK' /\ FlowOK' /\ ToSlaveCount' /\ FromSlaveCount'
        /\ RxQueueCount' /\ TxAhead' /\ RxAhead' /\ Known' /\ BufsCount'
    BY <1>2, Frames DEF ReadTake
  <2>2. ReadOK'
    BY <1>2 DEF ReadTake, ReadOK
  <2>3. SendOK'
    BY <1>2 DEF ReadTake, SendOK
  <2>4. Announced'
    <3>1. /\ drSem > 0 /\ readPc = "wait" /\ drSem' = drSem - 1 /\ readPc' = "lock"
          /\ UNCHANGED <<dr, txLoaded>> /\ drSem \in Nat /\ Len(txLoaded) \in Nat
          /\ Len(txLoaded) <= 1
      BY <1>2, EmptyFacts DEF ReadTake, SendOK
    <3>2. Len(txLoaded) = drSem /\ dr
      BY <3>1 DEF Announced, OneIf
    <3> QED
      BY <3>1, <3>2 DEF Announced, OneIf
  <2> QED
    BY <2>1, <2>2, <2>3, <2>4 DEF IInv
<1>3. CASE ReadReg
  <2>1. /\ SendersOK' /\ WriteOK' /\ OutOK' /\ SendOK' /\ RecvOK' /\ InOK'
        /\ RxOK' /\ SlaveOutOK' /\ FlowOK' /\ ToSlaveCount' /\ FromSlaveCount'
        /\ RxQueueCount' /\ TxAhead' /\ RxAhead' /\ Known' /\ BufsCount'
    BY <1>3, Frames DEF ReadReg
  <2>2. ReadOK'
    BY <1>3 DEF ReadReg, ReadOK, SendOK
  <2>3. Announced'
    <3>1. /\ readPc = "lock" /\ readPc' = "cmd9" /\ seenLen' = txReg
          /\ UNCHANGED <<dr, drSem, txLoaded, rxCount>>
      BY <1>3 DEF ReadReg
    <3>2. SizeToXfer' = Len(txLoaded)
      BY <3>1, Zenon DEF TxAhead, SizeToXfer
    <3> QED
      BY <3>1, <3>2 DEF Announced, OneIf
  <2> QED
    BY <2>1, <2>2, <2>3 DEF IInv
<1>4. CASE SendCmd9
  <2>1. /\ drSem = 0 /\ Len(txLoaded) = 1 /\ SizeToXfer = 1
    <3>1. /\ Len(txLoaded) = drSem + 1 /\ SizeToXfer = Len(txLoaded)
      BY <1>4 DEF SendCmd9, Announced, OneIf
    <3>2. drSem \in Nat /\ Len(txLoaded) <= 1
      BY DEF SendOK
    <3> QED
      BY <3>1, <3>2
  <2>2. /\ readPc' = "read" /\ dr' = FALSE
        /\ UNCHANGED <<busLock, seenLen, rxbuff, rxCount, drSem, txReg, txQueue, txLoaded,
                       finished>>
    BY <1>4, <2>1 DEF SendCmd9
  <2>3. /\ SendersOK' /\ WriteOK' /\ OutOK' /\ RecvOK' /\ InOK' /\ RxOK'
        /\ SlaveOutOK' /\ FlowOK' /\ ToSlaveCount' /\ FromSlaveCount'
        /\ RxQueueCount' /\ TxAhead' /\ RxAhead' /\ Known' /\ BufsCount'
    BY <1>4, Frames DEF SendCmd9
  <2>4. ReadOK'
    BY <1>4, <2>2 DEF SendCmd9, ReadOK
  <2>5. SendOK'
    BY <2>2 DEF SendOK
  <2>6. Announced'
    <3>1. SizeToXfer' = SizeToXfer
      BY <2>2, Zenon DEF SizeToXfer
    <3> QED
      BY <2>1, <2>2, <3>1 DEF Announced, OneIf
  <2> QED
    BY <2>3, <2>4, <2>5, <2>6 DEF IInv
<1>5. CASE ReadDma
  <2>1. /\ drSem = 0 /\ Len(txLoaded) = 1 /\ SizeToXfer = 1 /\ dr = FALSE
        /\ txLoaded \in Seq(Loads)
    <3>1. /\ Len(txLoaded) = drSem + 1 /\ SizeToXfer = Len(txLoaded)
          /\ (dr <=> drSem > 0)
      BY <1>5 DEF ReadDma, Announced, OneIf
    <3>2. drSem \in Nat /\ Len(txLoaded) <= 1 /\ dr \in BOOLEAN
      BY DEF SendOK
    <3> QED
      BY <3>1, <3>2 DEF SendOK
  <2>2. /\ rxbuff' = txLoaded /\ txLoaded' = << >> /\ finished' = finished + 1
        /\ rxCount' = (rxCount + 1) % RxMod /\ readPc' = "push" /\ busLock' = "free"
        /\ UNCHANGED <<seenLen, dr, drSem, txReg, txQueue>>
    BY <1>5, <2>1 DEF ReadDma, CountRead
  <2>3. /\ rxCount' \in 0..(RxMod - 1) /\ (txReg' + RxMod - rxCount') % RxMod = 0
    <3>1. /\ txReg \in 0..(RxMod - 1) /\ rxCount \in 0..(RxMod - 1) /\ 1 \in 0..(RxMod - 1)
          /\ RxMod \in Nat
      BY DEF SendOK, ReadOK
    <3>2. (txReg + RxMod - rxCount) % RxMod = 1
      BY <2>1 DEF TxAhead
    <3>3. 1 \in Nat /\ 1 <= 1 /\ 1 - 1 = 0
      OBVIOUS
    <3>4. rxCount' = (rxCount + 1) % RxMod
      BY <2>2
    <3>5. rxCount' \in 0..(RxMod - 1) /\ (txReg + RxMod - rxCount') % RxMod = 1 - 1
      BY <3>1, <3>2, <3>3, <3>4, BehindMoves
    <3> QED
      BY <2>2, <3>3, <3>5, Zenon
  <2>4. /\ SendersOK' /\ WriteOK' /\ OutOK' /\ RecvOK' /\ InOK' /\ RxOK'
        /\ SlaveOutOK' /\ FlowOK' /\ ToSlaveCount' /\ FromSlaveCount'
        /\ RxQueueCount' /\ RxAhead' /\ Known' /\ BufsCount'
    BY <1>5, Frames DEF ReadDma
  <2>5. ReadOK'
    <3>1. rxbuff' \in Seq(Loads) /\ Len(rxbuff') <= 1 /\ readPc' = "push"
      <4>1. rxbuff' = txLoaded /\ readPc' = "push"
        BY <2>2
      <4>2. txLoaded \in Seq(Loads) /\ Len(txLoaded) <= 1
        BY DEF SendOK
      <4> QED
        BY <4>1, <4>2, Zenon
    <3>2. seenLen' \in 0..(RxMod - 1) /\ busLock' = "free"
      BY <2>2 DEF ReadOK
    <3> QED
      BY <2>3, <3>1, <3>2, Zenon DEF ReadOK
  <2>6. SendOK'
    BY <2>1, <2>2 DEF SendOK
  <2>7. Announced'
    BY <2>1, <2>2 DEF Announced, OneIf
  <2>8. TxAhead'
    <3>1. Len(txLoaded') = 0
      BY <2>2
    <3> QED
      BY <2>3, <3>1, Zenon DEF TxAhead
  <2> QED
    BY <2>4, <2>5, <2>6, <2>7, <2>8 DEF IInv
<1>6. CASE UpdateFlowCtrl
  <2>1. << >> \in Seq(Loads) /\ Len(<< >>) = 0
    OBVIOUS
  <2>2. /\ SendersOK' /\ WriteOK' /\ SendOK' /\ RecvOK' /\ InOK' /\ RxOK'
        /\ SlaveOutOK' /\ FlowOK' /\ ToSlaveCount' /\ FromSlaveCount'
        /\ RxQueueCount' /\ TxAhead' /\ RxAhead' /\ Known' /\ BufsCount'
    BY <1>6, Frames DEF UpdateFlowCtrl
  <2>3. ReadOK'
    BY <1>6, <2>1 DEF UpdateFlowCtrl, ReadOK
  <2>4. OutOK'
    BY <1>6 DEF UpdateFlowCtrl, OutOK
  <2>5. Announced'
    BY <1>6 DEF UpdateFlowCtrl, Announced, OneIf
  <2> QED
    BY <2>2, <2>3, <2>4, <2>5 DEF IInv
<1>7. CASE PushPacket
  <2>1. << >> \in Seq(Loads) /\ Len(<< >>) = 0
    OBVIOUS
  <2>2. rxbuff[1] \in Packets
    <3>1. rxbuff[1] \in Loads /\ rxbuff[1].if \notin Flow
      BY <1>7, OnlyFacts DEF PushPacket, ReadOK
    <3> QED
      BY <3>1 DEF Loads, Packets
  <2>3. /\ fromSlave' \in [Queues -> Seq(Packets)]
        /\ Waiting(fromSlave') = Waiting(fromSlave) + 1
        /\ \A r \in Queues : Len(fromSlave'[r]) <= FromSlaveSize
    <3> DEFINE p == rxbuff[1]
    <3>1. fromSlave' = PutIn(fromSlave, p) /\ Len(fromSlave[QueueOf(p.if)]) < FromSlaveSize
      BY <1>7 DEF PushPacket
    <3>2. p \in Packets
      BY <2>2
    <3> HIDE DEF p
    <3> QED
      BY <3>1, <3>2, PutFacts DEF OutOK
  <2>4. /\ SendersOK' /\ WriteOK' /\ SendOK' /\ RecvOK' /\ InOK' /\ RxOK'
        /\ SlaveOutOK' /\ FlowOK' /\ ToSlaveCount' /\ RxQueueCount' /\ TxAhead'
        /\ RxAhead' /\ Known' /\ BufsCount'
    BY <1>7, Frames DEF PushPacket
  <2>5. ReadOK'
    BY <1>7, <2>1 DEF PushPacket, ReadOK
  <2>6. OutOK'
    BY <1>7, <2>3 DEF PushPacket, OutOK
  <2>7. Announced'
    BY <1>7 DEF PushPacket, Announced, OneIf
  <2>8. FromSlaveCount'
    BY <1>7, <2>3 DEF PushPacket, FromSlaveCount
  <2> QED
    BY <2>4, <2>5, <2>6, <2>7, <2>8 DEF IInv
<1> QED
  BY <1>1, <1>2, <1>3, <1>4, <1>5, <1>6, <1>7

-----------------------------------------------------------------------------
(* spi_hd_process_rx_task.                                                  *)

LEMMA HostRxIInv ==
  ASSUME IInv, HostRxTask \/ StartWriteTask
  PROVE  IInv'
<1> USE Sizes DEF IInv, host, senders, writeTask, readTask, hostOut, sendHw, recvHw,
        slaveIn, rxTask, slaveOut, flow
<1>1. CASE HostRxTask
  <2>1. Waiting(fromSlave) \in Nat /\ Waiting(fromSlave) > 0
    BY <1>1 DEF HostRxTask, OutOK, FromSlaveCount
  <2>2. /\ fromSlave \in [Queues -> Seq(Packets)]
        /\ fromSlave' = [fromSlave EXCEPT ![FirstQueue(fromSlave)] = Tail(@)]
        /\ hostGot' = [hostGot EXCEPT ![FirstQueue(fromSlave)] =
                         Append(@, Head(fromSlave[FirstQueue(fromSlave)]).n)]
    BY <1>1 DEF HostRxTask, OutOK
  <2>3. /\ FirstQueue(fromSlave) \in Queues
        /\ Head(fromSlave[FirstQueue(fromSlave)]) \in Packets
        /\ fromSlave' \in [Queues -> Seq(Packets)]
        /\ Waiting(fromSlave') = Waiting(fromSlave) - 1
    BY <2>1, <2>2, TakeFacts
  <2>4. \A r \in Queues : Len(fromSlave'[r]) <= FromSlaveSize
    BY <2>1, <2>2, TakeBounded DEF OutOK
  <2>5. hostGot' \in [Queues -> Seq(Nat)]
    BY <2>2, <2>3, GotFacts DEF OutOK
  <2>6. /\ SendersOK' /\ WriteOK' /\ ReadOK' /\ SendOK' /\ RecvOK' /\ InOK'
        /\ RxOK' /\ SlaveOutOK' /\ FlowOK' /\ ToSlaveCount' /\ RxQueueCount'
        /\ TxAhead' /\ Announced' /\ RxAhead' /\ Known' /\ BufsCount'
    BY <1>1, Frames DEF HostRxTask
  <2>7. OutOK'
    BY <1>1, <2>3, <2>4, <2>5 DEF HostRxTask, OutOK
  <2>8. FromSlaveCount'
    BY <1>1, <2>1, <2>3 DEF HostRxTask, FromSlaveCount, OutOK
  <2> QED
    BY <2>6, <2>7, <2>8 DEF IInv
<1>2. CASE StartWriteTask
  <2>1. /\ SendersOK' /\ ReadOK' /\ SendOK' /\ RecvOK' /\ InOK' /\ RxOK'
        /\ SlaveOutOK' /\ FlowOK' /\ ToSlaveCount' /\ FromSlaveCount'
        /\ RxQueueCount' /\ TxAhead' /\ Announced' /\ RxAhead' /\ Known'
        /\ BufsCount'
    BY <1>2, Frames DEF StartWriteTask
  <2>2. WriteOK'
    BY <1>2 DEF StartWriteTask, WriteOK
  <2>3. OutOK'
    BY <1>2 DEF StartWriteTask, OutOK
  <2> QED
    BY <2>1, <2>2, <2>3 DEF IInv
<1> QED
  BY <1>1, <1>2

-----------------------------------------------------------------------------
(* The SPI slave driver.                                                    *)

LEMMA DriverIInv ==
  ASSUME IInv, LoadTx \/ LoadRx \/ TxDone
  PROVE  IInv'
<1> USE Sizes DEF IInv, host, senders, writeTask, readTask, hostOut, sendHw, recvHw,
        slaveIn, rxTask, slaveOut, flow
<1>1. CASE LoadTx
  <2>1. /\ txLoaded = << >> /\ Len(txLoaded) = 0 /\ drSem = 0 /\ dr = FALSE
        /\ readPc \notin {"lock", "cmd9", "read"}
    <3>1. txLoaded = << >> /\ Len(txLoaded) = 0
      BY <1>1 DEF LoadTx
    <3>2. drSem \in Nat /\ dr \in BOOLEAN
      BY DEF SendOK
    <3> QED
      BY <3>1, <3>2 DEF Announced, OneIf
  <2>2. /\ txLoaded' = <<Head(txQueue)>> /\ txQueue' = Tail(txQueue) /\ txQueue # << >>
        /\ txReg' = (txReg + 1) % RxMod /\ dr' = TRUE /\ drSem' = 1
        /\ UNCHANGED <<finished, rxCount, readPc, seenLen>>
    BY <1>1, <2>1 DEF LoadTx
  <2>3. /\ txLoaded' \in Seq(Loads) /\ Len(txLoaded') = 1 /\ txQueue' \in Seq(Loads)
    <3>1. Head(txQueue) \in Loads /\ Tail(txQueue) \in Seq(Loads)
      BY <2>2, TailFacts DEF SendOK
    <3> QED
      BY <2>2, <3>1, OneFacts
  <2>4. /\ txReg' \in 0..(RxMod - 1) /\ (txReg' + RxMod - rxCount) % RxMod = 1
    <3>1. /\ txReg \in 0..(RxMod - 1) /\ rxCount \in 0..(RxMod - 1) /\ 1 \in 0..(RxMod - 1)
          /\ RxMod \in Nat
      BY DEF SendOK, ReadOK
    <3>2. (txReg + RxMod - rxCount) % RxMod = 0
      BY <2>1, Zenon DEF TxAhead
    <3>3. txReg' = (txReg + 1) % RxMod
      BY <2>2
    <3> QED
      BY <3>1, <3>2, <3>3, AheadFromZero
  <2>5. /\ SendersOK' /\ WriteOK' /\ ReadOK' /\ OutOK' /\ RecvOK' /\ InOK'
        /\ RxOK' /\ SlaveOutOK' /\ FlowOK' /\ ToSlaveCount' /\ FromSlaveCount'
        /\ RxQueueCount' /\ RxAhead' /\ Known' /\ BufsCount'
    BY <1>1, Frames DEF LoadTx
  <2>6. SendOK'
    BY <2>2, <2>3, <2>4 DEF SendOK
  <2>7. TxAhead'
    <3>1. rxCount' = rxCount
      BY <2>2
    <3> QED
      BY <2>3, <2>4, <3>1, Zenon DEF TxAhead
  <2>8. Announced'
    BY <2>1, <2>2, <2>3 DEF Announced, OneIf
  <2> QED
    BY <2>5, <2>6, <2>7, <2>8 DEF IInv
<1>2. CASE LoadRx
  <2>1. /\ rxLoaded = FALSE /\ rxLoaded' = TRUE /\ rxFree' = rxFree - 1 /\ rxFree > 0
        /\ rxReg' = (rxReg + 1) % TxMod
        /\ UNCHANGED <<received, txCount, rxHeld, rxQueue, readerPc, opened, available,
                       writePc>>
    BY <1>2 DEF LoadRx, RecvOK
  <2>2. /\ OneIf(rxLoaded) = 0 /\ OneIf(rxLoaded') = 1
    BY <2>1 DEF OneIf
  <2>3. /\ rxReg' \in 0..(TxMod - 1) /\ BuffersLeft' = 1
    <3>1. /\ rxReg \in 0..(TxMod - 1) /\ txCount \in 0..(TxMod - 1) /\ 1 \in 0..(TxMod - 1)
          /\ TxMod \in Nat
      BY DEF RecvOK, WriteOK
    <3>2. (rxReg + TxMod - txCount) % TxMod = 0
      BY <2>2, Zenon DEF RxAhead, BuffersLeft
    <3>3. rxReg' = (rxReg + 1) % TxMod /\ txCount' = txCount
      BY <2>1
    <3>4. rxReg' \in 0..(TxMod - 1) /\ (rxReg' + TxMod - txCount) % TxMod = 1
      BY <3>1, <3>2, <3>3, AheadFromZero
    <3> QED
      BY <3>3, <3>4, Zenon DEF BuffersLeft
  <2>4. /\ SendersOK' /\ WriteOK' /\ ReadOK' /\ OutOK' /\ SendOK' /\ InOK'
        /\ RxOK' /\ SlaveOutOK' /\ FlowOK' /\ ToSlaveCount' /\ FromSlaveCount'
        /\ RxQueueCount' /\ TxAhead' /\ Announced'
    BY <1>2, Frames DEF LoadRx
  <2>5. RecvOK'
    BY <2>1, <2>3 DEF RecvOK
  <2>6. RxAhead'
    BY <2>2, <2>3, Zenon DEF RxAhead
  <2>7. Known'
    BY <2>1, <2>2, OneIfNat DEF Known, WriteOK, OneIf
  <2>8. BufsCount'
    <3>1. /\ UNCHANGED Waiting(rxQueue) /\ UNCHANGED OneIf(readerPc # "read")
          /\ UNCHANGED <<Len(received), Len(rxHeld)>>
      BY <2>1, Zenon
    <3>2. Bufs' = Bufs
      BY <2>1, <2>2, <3>1, BufsFacts DEF Bufs
    <3>3. opened' = opened
      BY <2>1
    <3> QED
      BY <3>2, <3>3, Zenon DEF BufsCount
  <2> QED
    BY <2>4, <2>5, <2>6, <2>7, <2>8 DEF IInv
<1>3. CASE TxDone
  <2>1. /\ SendersOK' /\ WriteOK' /\ ReadOK' /\ OutOK' /\ RecvOK' /\ RxOK'
        /\ SlaveOutOK' /\ FlowOK' /\ ToSlaveCount' /\ FromSlaveCount'
        /\ RxQueueCount' /\ TxAhead' /\ Announced' /\ RxAhead' /\ Known'
        /\ BufsCount'
    BY <1>3, Frames DEF TxDone
  <2>2. SendOK'
    BY <1>3 DEF TxDone, SendOK
  <2>3. InOK'
    BY <1>3 DEF TxDone, InOK
  <2> QED
    BY <2>1, <2>2, <2>3 DEF IInv
<1> QED
  BY <1>1, <1>2, <1>3

-----------------------------------------------------------------------------
(* The co-processor's writers.                                              *)

LEMMA SlaveWriterIInv ==
  ASSUME IInv, NEW t \in Writers, NEW i \in {"serial", "sta"},
         SlaveWrite(i) \/ SlaveStartup \/ FlowWrite \/ FlowTake \/ SlaveQueue(t)
  PROVE  IInv'
<1> USE Sizes DEF IInv, host, senders, writeTask, readTask, hostOut, sendHw, recvHw,
        slaveIn, rxTask, slaveOut, flow
<1>1. CASE SlaveWrite(i)
  <2>1. /\ writer' = [writer EXCEPT ![i] = <<i>>] /\ txSem' = txSem - 1 /\ txSem > 0
        /\ UNCHANGED <<slaveCtrl, opened, slaveSent>> /\ hostResetSem' \in BOOLEAN
    BY <1>1 DEF SlaveWrite, TakePlace, InOK
  <2>2. i \in Interfaces \cup Flow
    BY DEF Interfaces
  <2>3. /\ SendersOK' /\ WriteOK' /\ ReadOK' /\ OutOK' /\ SendOK' /\ RecvOK'
        /\ RxOK' /\ SlaveOutOK' /\ FlowOK' /\ ToSlaveCount' /\ FromSlaveCount'
        /\ RxQueueCount' /\ TxAhead' /\ Announced' /\ RxAhead' /\ Known'
        /\ BufsCount'
    BY <1>1, Frames DEF SlaveWrite, TakePlace
  <2>4. InOK'
    <3>1. /\ writer' \in [Writers -> Seq(Interfaces \cup Flow)]
          /\ \A u \in Writers : Len(writer'[u]) <= 1
      <4>1. <<i>> \in Seq(Interfaces \cup Flow) /\ Len(<<i>>) = 1
        BY <2>2, OneFacts
      <4>2. i \in Writers /\ Len(<<i>>) <= 1
        BY <4>1 DEF Writers
      <4> QED
        BY <2>1, <4>1, <4>2, WriterFacts
    <3> QED
      BY <2>1, <3>1 DEF InOK
  <2> QED
    BY <2>3, <2>4 DEF IInv
<1>2. CASE SlaveStartup
  <2>1. /\ writer' = [writer EXCEPT !["reset"] = <<"priv">>] /\ txSem' = txSem - 1 /\ txSem > 0
        /\ UNCHANGED <<slaveCtrl, opened, slaveSent>> /\ hostResetSem' \in BOOLEAN
    BY <1>2 DEF SlaveStartup, TakePlace, InOK
  <2>2. "priv" \in Interfaces \cup Flow
    BY DEF Interfaces
  <2>3. /\ SendersOK' /\ WriteOK' /\ ReadOK' /\ OutOK' /\ SendOK' /\ RecvOK'
        /\ RxOK' /\ SlaveOutOK' /\ FlowOK' /\ ToSlaveCount' /\ FromSlaveCount'
        /\ RxQueueCount' /\ TxAhead' /\ Announced' /\ RxAhead' /\ Known'
        /\ BufsCount'
    BY <1>2, Frames DEF SlaveStartup, TakePlace
  <2>4. InOK'
    <3>1. /\ writer' \in [Writers -> Seq(Interfaces \cup Flow)]
          /\ \A u \in Writers : Len(writer'[u]) <= 1
      <4>1. <<"priv">> \in Seq(Interfaces \cup Flow) /\ Len(<<"priv">>) = 1
        BY <2>2, OneFacts
      <4>2. "reset" \in Writers /\ Len(<<"priv">>) <= 1
        BY <4>1 DEF Writers
      <4> QED
        BY <2>1, <4>1, <4>2, WriterFacts
    <3> QED
      BY <2>1, <3>1 DEF InOK
  <2> QED
    BY <2>3, <2>4 DEF IInv
<1>3. CASE FlowWrite
  <2>1. /\ writer' = [writer EXCEPT !["flow"] = <<flowCmd[1]>>] /\ txSem' = txSem - 1 /\ txSem > 0
        /\ UNCHANGED <<slaveCtrl, opened, slaveSent>> /\ hostResetSem' \in BOOLEAN
    BY <1>3 DEF FlowWrite, TakePlace, InOK
  <2>2. flowCmd[1] \in Interfaces \cup Flow
    BY <1>3, OnlyFacts DEF FlowWrite, FlowOK
  <2>3. /\ SendersOK' /\ WriteOK' /\ ReadOK' /\ OutOK' /\ SendOK' /\ RecvOK'
        /\ RxOK' /\ SlaveOutOK' /\ FlowOK' /\ ToSlaveCount' /\ FromSlaveCount'
        /\ RxQueueCount' /\ TxAhead' /\ Announced' /\ RxAhead' /\ Known'
        /\ BufsCount'
    BY <1>3, Frames DEF FlowWrite, TakePlace
  <2>4. InOK'
    <3>1. /\ writer' \in [Writers -> Seq(Interfaces \cup Flow)]
          /\ \A u \in Writers : Len(writer'[u]) <= 1
      <4>1. <<flowCmd[1]>> \in Seq(Interfaces \cup Flow) /\ Len(<<flowCmd[1]>>) = 1
        BY <2>2, OneFacts
      <4>2. "flow" \in Writers /\ Len(<<flowCmd[1]>>) <= 1
        BY <4>1 DEF Writers
      <4> QED
        BY <2>1, <4>1, <4>2, WriterFacts
    <3> QED
      BY <2>1, <3>1 DEF InOK
  <2> QED
    BY <2>3, <2>4 DEF IInv
<1>4. CASE FlowTake
  <2>1. /\ SendersOK' /\ WriteOK' /\ ReadOK' /\ OutOK' /\ SendOK' /\ RecvOK'
        /\ InOK' /\ RxOK' /\ SlaveOutOK' /\ ToSlaveCount' /\ FromSlaveCount'
        /\ RxQueueCount' /\ TxAhead' /\ Announced' /\ RxAhead' /\ Known'
        /\ BufsCount'
    BY <1>4, Frames DEF FlowTake
  <2>2. FlowOK'
    <3> DEFINE c == IF wifiFlow THEN "flowOn" ELSE "flowOff"
    <3>1. c \in Flow /\ flowCmd' = <<c>> /\ flowSem' = FALSE
          /\ UNCHANGED <<throttling, wifiFlow>>
      BY <1>4 DEF FlowTake, Flow
    <3> HIDE DEF c
    <3>2. <<c>> \in Seq(Flow) /\ Len(<<c>>) = 1
      BY <3>1, OneFacts
    <3>3. flowSem' \in BOOLEAN /\ throttling' \in BOOLEAN /\ wifiFlow' \in BOOLEAN
      BY <3>1 DEF FlowOK
    <3>4. flowCmd' \in Seq(Flow) /\ Len(flowCmd') <= 1
      BY <3>1, <3>2
    <3> QED
      BY <3>3, <3>4, Zenon DEF FlowOK
  <2> QED
    BY <2>1, <2>2 DEF IInv
<1>5. CASE SlaveQueue(t)
  <2>1. /\ writer[t] # << >> /\ writer[t][1] \in Interfaces \cup Flow
        /\ writer \in [Writers -> Seq(Interfaces \cup Flow)]
        /\ QueueOf(writer[t][1]) \in Queues
    <3>1. writer[t] \in Seq(Interfaces \cup Flow) /\ Len(writer[t]) <= 1
      BY DEF InOK
    <3>2. writer[t] # << >>
      BY <1>5 DEF SlaveQueue
    <3> QED
      BY <3>1, <3>2, OnlyFacts, QueueOfInQueues DEF InOK
  <2>2. /\ slaveSent' \in [Queues -> Nat]
        /\ \E p \in Loads : txQueue' = Append(txQueue, p)
    <3> DEFINE j == writer[t][1]
               q == QueueOf(j)
    <3>1. j \in Interfaces \cup Flow /\ q \in Queues
      BY <2>1
    <3>2. \/ txQueue' = Append(txQueue, Packet(j, 0)) /\ slaveSent' = slaveSent
          \/ /\ txQueue' = Append(txQueue, Packet(j, slaveSent[q] + 1))
             /\ slaveSent' = [slaveSent EXCEPT ![q] = @ + 1]
      BY <1>5 DEF SlaveQueue
    <3> HIDE DEF j, q
    <3>3. slaveSent \in [Queues -> Nat] /\ slaveSent[q] + 1 \in Nat /\ 0 \in Nat
      BY <3>1 DEF InOK
    <3>4. Packet(j, 0) \in Loads /\ Packet(j, slaveSent[q] + 1) \in Loads
      BY <3>1, <3>3, PacketIsOne, Zenon
    <3>5. [slaveSent EXCEPT ![q] = @ + 1] \in [Queues -> Nat]
      BY <3>1, <3>3
    <3> QED
      BY <3>2, <3>3, <3>4, <3>5, Zenon
  <2>3. /\ writer' = [writer EXCEPT ![t] = << >>] /\ flowCmd' \in {<< >>, flowCmd}
        /\ UNCHANGED <<dr, drSem, txReg, txLoaded, finished, slaveCtrl, opened,
                       hostResetSem, txSem, throttling, wifiFlow, flowSem>>
    BY <1>5 DEF SlaveQueue
  <2>4. /\ SendersOK' /\ WriteOK' /\ ReadOK' /\ OutOK' /\ RecvOK' /\ RxOK'
        /\ SlaveOutOK' /\ ToSlaveCount' /\ FromSlaveCount' /\ RxQueueCount'
        /\ TxAhead' /\ Announced' /\ RxAhead' /\ Known' /\ BufsCount'
    BY <1>5, Frames DEF SlaveQueue
  <2>5. SendOK'
    <3>1. txQueue' \in Seq(Loads)
      BY <2>2, AppendFacts DEF SendOK
    <3> QED
      BY <2>3, <3>1 DEF SendOK
  <2>6. InOK'
    <3>1. << >> \in Seq(Interfaces \cup Flow) /\ Len(<< >>) = 0
      OBVIOUS
    <3>2. Len(<< >>) <= 1
      BY <3>1
    <3>3. /\ writer' \in [Writers -> Seq(Interfaces \cup Flow)]
          /\ \A u \in Writers : Len(writer'[u]) <= 1
      BY <2>3, <3>1, <3>2, WriterFacts
    <3> QED
      BY <2>2, <2>3, <3>3 DEF InOK
  <2>7. FlowOK'
    <3>1. << >> \in Seq(Flow) /\ Len(<< >>) = 0
      OBVIOUS
    <3>2. flowSem' \in BOOLEAN /\ throttling' \in BOOLEAN /\ wifiFlow' \in BOOLEAN
      BY <2>3 DEF FlowOK
    <3>3. flowCmd' \in Seq(Flow) /\ Len(flowCmd') <= 1
      <4>1. flowCmd \in Seq(Flow) /\ Len(flowCmd) <= 1 /\ 0 <= 1
        BY DEF FlowOK
      <4> QED
        BY <2>3, <3>1, <4>1
    <3> QED
      BY <3>2, <3>3, Zenon DEF FlowOK
  <2> QED
    BY <2>4, <2>5, <2>6, <2>7 DEF IInv
<1> QED
  BY <1>1, <1>2, <1>3, <1>4, <1>5

-----------------------------------------------------------------------------
(* spi_hd_rx_task and recv_task.                                            *)

LEMMA SlaveRxIInv ==
  ASSUME IInv, SlaveOpen \/ RxTake \/ RxThrottle \/ RxFlow \/ RxPut
               \/ SlaveRead \/ ReadThrottle \/ ReadFlow \/ ReadDone
  PROVE  IInv'
<1> USE Sizes DEF IInv, host, senders, writeTask, readTask, hostOut, sendHw, recvHw,
        slaveIn, rxTask, slaveOut, flow
<1>1. CASE SlaveOpen
  <2>1. /\ SendersOK' /\ WriteOK' /\ ReadOK' /\ OutOK' /\ SendOK' /\ SlaveOutOK'
        /\ FlowOK' /\ ToSlaveCount' /\ FromSlaveCount' /\ RxQueueCount'
        /\ TxAhead' /\ Announced' /\ RxAhead' /\ Known'
    BY <1>1, Frames DEF SlaveOpen
  <2>2. RecvOK'
    BY <1>1 DEF SlaveOpen, RecvOK
  <2>3. InOK'
    BY <1>1 DEF SlaveOpen, InOK
  <2>4. RxOK'
    BY <1>1 DEF SlaveOpen, RxOK
  <2>5. BufsCount'
    <3>1. ~opened /\ opened' = TRUE /\ rxFree' = QueueSize
          /\ UNCHANGED <<rxLoaded, received, rxHeld, rxQueue, readerPc>>
      BY <1>1 DEF SlaveOpen, RxOK
    <3>2. /\ OneIf(rxLoaded) = 0 /\ Len(received) = 0 /\ Len(rxHeld) = 0
          /\ Waiting(rxQueue) = 0 /\ OneIf(readerPc # "read") = 0
      <4>1. Bufs = 0
        BY <3>1, Zenon DEF BufsCount
      <4> QED
        BY <4>1, BufsFacts DEF Bufs
    <3>3. /\ UNCHANGED Waiting(rxQueue) /\ UNCHANGED OneIf(readerPc # "read")
          /\ UNCHANGED <<Len(received), Len(rxHeld), OneIf(rxLoaded)>>
      BY <3>1, Zenon
    <3>4. Bufs' = QueueSize
      BY <3>1, <3>2, <3>3 DEF Bufs
    <3> QED
      BY <3>1, <3>4, Zenon DEF BufsCount
  <2> QED
    BY <2>1, <2>2, <2>3, <2>4, <2>5 DEF IInv
<1>2. CASE RxTake
  <2>1. /\ rxHeld' = <<Head(received)>> /\ received' = Tail(received) /\ received # << >>
        /\ rxPc = "recv" /\ rxPc' = "throttle"
        /\ UNCHANGED <<rxReg, rxFree, rxLoaded, opened, rxQueue, readerPc>>
    BY <1>2 DEF RxTake
  <2>2. /\ Head(received) \in Packets /\ received' \in Seq(Packets)
        /\ Len(received') = Len(received) - 1
    BY <2>1, TailFacts DEF RecvOK
  <2>3. rxHeld' \in Seq(Packets) /\ Len(rxHeld') = 1 /\ rxHeld' # << >>
    BY <2>1, <2>2, OneFacts
  <2>4. /\ SendersOK' /\ WriteOK' /\ ReadOK' /\ OutOK' /\ SendOK' /\ InOK'
        /\ SlaveOutOK' /\ FlowOK' /\ ToSlaveCount' /\ FromSlaveCount'
        /\ RxQueueCount' /\ TxAhead' /\ Announced' /\ RxAhead' /\ Known'
    BY <1>2, Frames DEF RxTake
  <2>5. RecvOK'
    BY <2>1, <2>2 DEF RecvOK
  <2>6. RxOK'
    BY <2>1, <2>3 DEF RxOK
  <2>7. BufsCount'
    <3>1. /\ UNCHANGED Waiting(rxQueue) /\ UNCHANGED OneIf(readerPc # "read")
          /\ UNCHANGED OneIf(rxLoaded)
      BY <2>1, Zenon
    <3>2. Len(rxHeld) = 0
      BY <2>1, EmptyFacts DEF RxOK
    <3>3. Bufs' = Bufs
      BY <2>1, <2>2, <2>3, <3>1, <3>2, BufsFacts DEF Bufs
    <3>4. opened' = opened
      BY <2>1
    <3> QED
      BY <3>3, <3>4, Zenon DEF BufsCount
  <2> QED
    BY <2>4, <2>5, <2>6, <2>7 DEF IInv
<1>3. CASE RxThrottle
  <2>1. /\ SendersOK' /\ WriteOK' /\ ReadOK' /\ OutOK' /\ SendOK' /\ RecvOK'
        /\ InOK' /\ SlaveOutOK' /\ ToSlaveCount' /\ FromSlaveCount'
        /\ RxQueueCount' /\ TxAhead' /\ Announced' /\ RxAhead' /\ Known'
        /\ BufsCount'
    BY <1>3, Frames DEF RxThrottle
  <2>2. RxOK'
    BY <1>3 DEF RxThrottle, RxOK
  <2>3. FlowOK'
    BY <1>3 DEF RxThrottle, FlowOK
  <2> QED
    BY <2>1, <2>2, <2>3 DEF IInv
<1>4. CASE RxFlow
  <2>1. /\ SendersOK' /\ WriteOK' /\ ReadOK' /\ OutOK' /\ SendOK' /\ RecvOK'
        /\ InOK' /\ SlaveOutOK' /\ ToSlaveCount' /\ FromSlaveCount'
        /\ RxQueueCount' /\ TxAhead' /\ Announced' /\ RxAhead' /\ Known'
        /\ BufsCount'
    BY <1>4, Frames DEF RxFlow, SetFlow
  <2>2. RxOK'
    BY <1>4 DEF RxFlow, RxOK
  <2>3. FlowOK'
    BY <1>4 DEF RxFlow, SetFlow, FlowOK
  <2> QED
    BY <2>1, <2>2, <2>3 DEF IInv
<1>5. CASE RxPut
  <2>1. rxHeld[1] \in Packets /\ Len(rxHeld) = 1
    <3>1. rxHeld \in Seq(Packets) /\ rxHeld # << >> /\ Len(rxHeld) <= 1
      BY <1>5 DEF RxPut, RxOK
    <3> QED
      BY <3>1, OnlyFacts
  <2>2. /\ rxQueue' \in [Queues -> Seq(Packets)]
        /\ Waiting(rxQueue') = Waiting(rxQueue) + 1
        /\ \A r \in Queues : Len(rxQueue'[r]) <= QueueSize
    <3> DEFINE p == rxHeld[1]
    <3>1. rxQueue' = PutIn(rxQueue, p) /\ Len(rxQueue[QueueOf(p.if)]) < QueueSize
      BY <1>5 DEF RxPut
    <3>2. p \in Packets
      BY <2>1
    <3> HIDE DEF p
    <3> QED
      BY <3>1, <3>2, PutFacts DEF SlaveOutOK
  <2>3. /\ rxHeld' = << >> /\ rxPc = "put" /\ rxPc' = "recv" /\ rxSem' = rxSem + 1
        /\ UNCHANGED <<rxFree, rxLoaded, received, opened, readerPc, slaveGot>>
    BY <1>5 DEF RxPut
  <2>4. /\ SendersOK' /\ WriteOK' /\ ReadOK' /\ OutOK' /\ SendOK' /\ RecvOK'
        /\ InOK' /\ FlowOK' /\ ToSlaveCount' /\ FromSlaveCount' /\ TxAhead'
        /\ Announced' /\ RxAhead' /\ Known'
    BY <1>5, Frames DEF RxPut
  <2>5. RxOK'
    <3>1. rxHeld' \in Seq(Packets) /\ Len(rxHeld') = 0
      BY <2>3
    <3> QED
      BY <2>3, <3>1 DEF RxOK
  <2>6. SlaveOutOK'
    BY <2>2, <2>3 DEF SlaveOutOK
  <2>7. RxQueueCount'
    BY <2>2, <2>3 DEF RxQueueCount, SlaveOutOK
  <2>8. BufsCount'
    <3>1. /\ UNCHANGED OneIf(readerPc # "read") /\ UNCHANGED <<OneIf(rxLoaded), Len(received)>>
      BY <2>3, Zenon
    <3>2. Len(rxHeld') = 0
      BY <2>3
    <3>3. rxFree' = rxFree /\ Len(rxHeld) = 1 /\ Waiting(rxQueue') = Waiting(rxQueue) + 1
      BY <2>1, <2>2, <2>3, Zenon
    <3>4. Bufs' = Bufs
      BY <3>1, <3>2, <3>3, BufsFacts DEF Bufs
    <3>5. opened' = opened
      BY <2>3
    <3> QED
      BY <3>4, <3>5, Zenon DEF BufsCount
  <2> QED
    BY <2>4, <2>5, <2>6, <2>7, <2>8 DEF IInv
<1>6. CASE SlaveRead
  <2>1. Waiting(rxQueue) \in Nat /\ Waiting(rxQueue) > 0
    BY <1>6 DEF SlaveRead, SlaveOutOK, RxQueueCount
  <2>2. /\ rxQueue \in [Queues -> Seq(Packets)]
        /\ rxQueue' = [rxQueue EXCEPT ![FirstQueue(rxQueue)] = Tail(@)]
        /\ slaveGot' = [slaveGot EXCEPT ![FirstQueue(rxQueue)] =
                          Append(@, Head(rxQueue[FirstQueue(rxQueue)]).n)]
    BY <1>6 DEF SlaveRead, SlaveOutOK
  <2>3. /\ FirstQueue(rxQueue) \in Queues /\ Head(rxQueue[FirstQueue(rxQueue)]) \in Packets
        /\ rxQueue' \in [Queues -> Seq(Packets)]
        /\ Waiting(rxQueue') = Waiting(rxQueue) - 1
    BY <2>1, <2>2, TakeFacts
  <2>4. \A r \in Queues : Len(rxQueue'[r]) <= QueueSize
    BY <2>1, <2>2, TakeBounded DEF SlaveOutOK
  <2>5. slaveGot' \in [Queues -> Seq(Nat)]
    BY <2>2, <2>3, GotFacts DEF SlaveOutOK
  <2>6. /\ SendersOK' /\ WriteOK' /\ ReadOK' /\ OutOK' /\ SendOK' /\ RecvOK'
        /\ InOK' /\ RxOK' /\ FlowOK' /\ ToSlaveCount' /\ FromSlaveCount'
        /\ TxAhead' /\ Announced' /\ RxAhead' /\ Known'
    BY <1>6, Frames DEF SlaveRead
  <2>7. SlaveOutOK'
    BY <1>6, <2>3, <2>4, <2>5 DEF SlaveRead, SlaveOutOK
  <2>8. RxQueueCount'
    BY <1>6, <2>1, <2>3 DEF SlaveRead, RxQueueCount, SlaveOutOK
  <2>9. BufsCount'
    <3>1. UNCHANGED <<rxFree, rxLoaded, received, rxHeld, opened>>
      BY <1>6 DEF SlaveRead
    <3>2. OneIf(readerPc # "read") = 0 /\ OneIf(readerPc' # "read") = 1
      BY <1>6 DEF SlaveRead, OneIf
    <3>3. UNCHANGED <<Len(received), Len(rxHeld), OneIf(rxLoaded)>>
      BY <3>1, Zenon
    <3>4. rxFree' = rxFree /\ opened' = opened /\ Waiting(rxQueue') = Waiting(rxQueue) - 1
      BY <2>3, <3>1, Zenon
    <3>5. Bufs' = Bufs
      BY <3>2, <3>3, <3>4, BufsFacts DEF Bufs
    <3> QED
      BY <3>4, <3>5, Zenon DEF BufsCount
  <2> QED
    BY <2>6, <2>7, <2>8, <2>9 DEF IInv
<1>7. CASE ReadThrottle
  <2>1. /\ SendersOK' /\ WriteOK' /\ ReadOK' /\ OutOK' /\ SendOK' /\ RecvOK'
        /\ InOK' /\ RxOK' /\ ToSlaveCount' /\ FromSlaveCount' /\ RxQueueCount'
        /\ TxAhead' /\ Announced' /\ RxAhead' /\ Known'
    BY <1>7, Frames DEF ReadThrottle
  <2>2. SlaveOutOK'
    BY <1>7 DEF ReadThrottle, SlaveOutOK
  <2>3. FlowOK'
    BY <1>7 DEF ReadThrottle, FlowOK
  <2>4. BufsCount'
    <3>1. UNCHANGED <<rxFree, rxLoaded, received, rxHeld, rxQueue, opened>>
      BY <1>7 DEF ReadThrottle
    <3>2. OneIf(readerPc # "read") = 1 /\ OneIf(readerPc' # "read") = 1
      BY <1>7 DEF ReadThrottle, OneIf
    <3>3. UNCHANGED <<Len(received), Len(rxHeld), OneIf(rxLoaded), Waiting(rxQueue)>>
      BY <3>1, Zenon
    <3>4. Bufs' = Bufs
      BY <3>1, <3>2, <3>3, BufsFacts DEF Bufs
    <3>5. opened' = opened
      BY <3>1
    <3> QED
      BY <3>4, <3>5, Zenon DEF BufsCount
  <2> QED
    BY <2>1, <2>2, <2>3, <2>4 DEF IInv
<1>8. CASE ReadFlow
  <2>1. /\ SendersOK' /\ WriteOK' /\ ReadOK' /\ OutOK' /\ SendOK' /\ RecvOK'
        /\ InOK' /\ RxOK' /\ ToSlaveCount' /\ FromSlaveCount' /\ RxQueueCount'
        /\ TxAhead' /\ Announced' /\ RxAhead' /\ Known'
    BY <1>8, Frames DEF ReadFlow, SetFlow
  <2>2. SlaveOutOK'
    BY <1>8 DEF ReadFlow, SlaveOutOK
  <2>3. FlowOK'
    BY <1>8 DEF ReadFlow, SetFlow, FlowOK
  <2>4. BufsCount'
    <3>1. UNCHANGED <<rxFree, rxLoaded, received, rxHeld, rxQueue, opened>>
      BY <1>8 DEF ReadFlow
    <3>2. OneIf(readerPc # "read") = 1 /\ OneIf(readerPc' # "read") = 1
      BY <1>8 DEF ReadFlow, OneIf
    <3>3. UNCHANGED <<Len(received), Len(rxHeld), OneIf(rxLoaded), Waiting(rxQueue)>>
      BY <3>1, Zenon
    <3>4. Bufs' = Bufs
      BY <3>1, <3>2, <3>3, BufsFacts DEF Bufs
    <3>5. opened' = opened
      BY <3>1
    <3> QED
      BY <3>4, <3>5, Zenon DEF BufsCount
  <2> QED
    BY <2>1, <2>2, <2>3, <2>4 DEF IInv
<1>9. CASE ReadDone
  <2>1. /\ SendersOK' /\ WriteOK' /\ ReadOK' /\ OutOK' /\ SendOK' /\ InOK'
        /\ RxOK' /\ FlowOK' /\ ToSlaveCount' /\ FromSlaveCount' /\ RxQueueCount'
        /\ TxAhead' /\ Announced' /\ RxAhead' /\ Known'
    BY <1>9, Frames DEF ReadDone
  <2>2. RecvOK'
    BY <1>9 DEF ReadDone, RecvOK
  <2>3. SlaveOutOK'
    BY <1>9 DEF ReadDone, SlaveOutOK
  <2>4. BufsCount'
    <3>1. /\ rxFree' = rxFree + 1
          /\ UNCHANGED <<rxLoaded, received, rxHeld, rxQueue, opened>>
      BY <1>9 DEF ReadDone
    <3>2. OneIf(readerPc # "read") = 1 /\ OneIf(readerPc' # "read") = 0
      BY <1>9 DEF ReadDone, OneIf
    <3>3. UNCHANGED <<Len(received), Len(rxHeld), OneIf(rxLoaded), Waiting(rxQueue)>>
      BY <3>1, Zenon
    <3>4. Bufs' = Bufs
      BY <3>1, <3>2, <3>3, BufsFacts DEF Bufs
    <3>5. opened' = opened
      BY <3>1
    <3> QED
      BY <3>4, <3>5, Zenon DEF BufsCount
  <2> QED
    BY <2>1, <2>2, <2>3, <2>4 DEF IInv
<1> QED
  BY <1>1, <1>2, <1>3, <1>4, <1>5, <1>6, <1>7, <1>8, <1>9

-----------------------------------------------------------------------------
LEMMA InitIInv == Init => IInv
<1> SUFFICES ASSUME Init PROVE IInv
  OBVIOUS
<1> DEFINE none == [q \in Queues |-> << >>]
<1>1. /\ << >> \in Seq(Packets) /\ << >> \in Seq(Loads) /\ << >> \in Seq(Flow)
      /\ << >> \in Seq(Nat) /\ << >> \in Seq(Interfaces \cup Flow) /\ Len(<< >>) = 0
  OBVIOUS
<1>2. /\ none \in [Queues -> Seq(Packets)] /\ \A q \in Queues : Len(none[q]) = 0
      /\ none \in [Queues -> Seq(Nat)] /\ Waiting(none) = 0
  BY <1>1 DEF Waiting, Queues
<1>3. /\ toSlave = none /\ fromSlave = none /\ rxQueue = none
      /\ hostGot = none /\ slaveGot = none
  BY DEF Init
<1> HIDE DEF none
<1>4. /\ 0 \in 0..(TxMod - 1) /\ 0 \in 0..(RxMod - 1) /\ 0 \in 0..Retries /\ 0 \in Nat
      /\ 0 <= ToSlaveSize /\ 0 <= FromSlaveSize /\ 0 <= QueueSize
  BY Sizes
<1>5. SendersOK
  <2>1. /\ hostSent \in [Queues -> Nat] /\ hostWriter \in [Queues -> {"idle", "count"}]
        /\ toSlaveSem = 0
    BY DEF Init
  <2> QED
    BY <1>2, <1>3, <1>4, <2>1 DEF SendersOK
<1>6. WriteOK
  <2>1. writeStarted \in BOOLEAN
    BY Zenon DEF Init
  <2>2. /\ writePc = "wait" /\ hostTx = << >> /\ retry = 0 /\ available = 0
        /\ txCount = 0
    BY DEF Init
  <2> QED
    BY <1>1, <1>4, <2>1, <2>2 DEF WriteOK
<1>7. ReadOK
  BY <1>1, <1>4 DEF Init, ReadOK
<1>8. OutOK
  <2>1. fromSlaveSem = 0
    BY DEF Init
  <2>2. up \in BOOLEAN /\ rxStarting \in BOOLEAN /\ throttled \in BOOLEAN
    BY Zenon DEF Init
  <2> QED
    BY <1>2, <1>3, <1>4, <2>1, <2>2 DEF OutOK
<1>9. SendOK
  <2>1. dr \in BOOLEAN
    BY Zenon DEF Init
  <2> QED
    BY <1>1, <1>4, <2>1 DEF Init, SendOK
<1>10. RecvOK
  <2>1. rxLoaded \in BOOLEAN
    BY Zenon DEF Init
  <2> QED
    BY <1>1, <1>4, <2>1 DEF Init, RecvOK
<1>11. InOK
  <2>1. slaveCtrl \in BOOLEAN /\ opened \in BOOLEAN /\ hostResetSem \in BOOLEAN
    BY Zenon DEF Init
  <2>2. slaveSent \in [Queues -> Nat] /\ txSem \in Nat
    BY Sizes DEF Init
  <2>3. /\ writer \in [Writers -> Seq(Interfaces \cup Flow)]
        /\ \A t \in Writers : Len(writer[t]) <= 1
    BY <1>1 DEF Init
  <2> QED
    BY <2>1, <2>2, <2>3, Zenon DEF InOK
<1>12. RxOK
  <2>1. rxPc = "open" /\ rxHeld = << >> /\ ~opened
    BY DEF Init
  <2> QED
    BY <1>1, <2>1 DEF RxOK
<1>13. SlaveOutOK
  <2>1. rxSem = 0 /\ readerPc = "read"
    BY DEF Init
  <2> QED
    BY <1>2, <1>3, <1>4, <2>1 DEF SlaveOutOK
<1>14. FlowOK
  <2>1. throttling \in BOOLEAN /\ wifiFlow \in BOOLEAN /\ flowSem \in BOOLEAN
    BY Zenon DEF Init
  <2>2. flowCmd = << >>
    BY DEF Init
  <2> QED
    BY <1>1, <2>1, <2>2 DEF FlowOK
<1>15. ToSlaveCount
  <2>1. Uncounted(hostWriter) = 0 /\ toSlaveSem = 0
    BY DEF Init, Uncounted, OneIf, Queues
  <2> QED
    BY <1>2, <1>3, <2>1 DEF ToSlaveCount
<1>16. FromSlaveCount /\ RxQueueCount
  <2>1. fromSlaveSem = 0 /\ rxSem = 0
    BY DEF Init
  <2> QED
    BY <1>2, <1>3, <2>1 DEF FromSlaveCount, RxQueueCount
<1>17. TxAhead
  <2>1. txReg = 0 /\ rxCount = 0 /\ Len(txLoaded) = 0
    BY DEF Init
  <2>2. (0 + RxMod - 0) % RxMod = 0
    BY <1>4, Sizes, Distance
  <2> QED
    BY <2>1, <2>2, Zenon DEF TxAhead
<1>18. Announced
  BY DEF Init, Announced, OneIf
<1>19. RxAhead
  <2>1. rxReg = 0 /\ txCount = 0 /\ OneIf(rxLoaded) = 0
    BY DEF Init, OneIf
  <2>2. (0 + TxMod - 0) % TxMod = 0
    BY <1>4, Sizes, Distance
  <2> QED
    BY <2>1, <2>2, Zenon DEF RxAhead, BuffersLeft
<1>20. Known
  BY DEF Init, Known, OneIf
<1>21. BufsCount
  <2>1. /\ rxFree = 0 /\ OneIf(rxLoaded) = 0 /\ Len(received) = 0 /\ Len(rxHeld) = 0
        /\ OneIf(readerPc # "read") = 0
    BY DEF Init, OneIf
  <2>2. Bufs = 0
    BY <1>2, <1>3, <2>1 DEF Bufs
  <2> QED
    BY <2>2 DEF BufsCount, Init
<1> QED
  BY <1>5, <1>6, <1>7, <1>8, <1>9, <1>10, <1>11, <1>12, <1>13, <1>14, <1>15, <1>16,
     <1>17, <1>18, <1>19, <1>20, <1>21, Zenon DEF IInv

LEMMA StepIInv == IInv /\ [Next]_vars => IInv'
<1> SUFFICES ASSUME IInv, [Next]_vars PROVE IInv'
  OBVIOUS
<1>0. "reset" \in Writers /\ "flow" \in Writers
      /\ "serial" \in {"serial", "sta"}
  BY DEF Writers
<1>1. CASE \E q \in Queues : HostQueue(q) \/ HostCount(q)
  BY <1>1, HostSenderIInv
<1>2. CASE WriteTask
  BY <1>2, WriteTaskIInv DEF WriteTask
<1>3. CASE ReadTask
  BY <1>3, ReadTaskIInv DEF ReadTask
<1>4. CASE ProcessRxTask
  BY <1>4, HostRxIInv DEF ProcessRxTask
<1>5. CASE LoadTx \/ LoadRx \/ TxDone
  BY <1>5, DriverIInv
<1>6. CASE \E interface \in {"serial", "sta"} : SlaveWrite(interface)
  BY <1>0, <1>6, SlaveWriterIInv
<1>7. CASE SlaveStartup \/ (\E t \in Writers \ {"flow"} : SlaveQueue(t)) \/ FlowTask
  BY <1>0, <1>7, SlaveWriterIInv DEF FlowTask
<1>8. CASE RxTask \/ RecvTask
  BY <1>8, SlaveRxIInv DEF RxTask, RecvTask
<1>9. CASE UNCHANGED vars
  BY <1>9, Frames DEF IInv, vars, host, senders, writeTask, readTask, hostOut, sendHw,
     recvHw, slaveIn, rxTask, slaveOut, flow
<1> QED
  BY <1>1, <1>2, <1>3, <1>4, <1>5, <1>6, <1>7, <1>8, <1>9 DEF Next

\* IInv holds in every reachable state of every instance.
THEOREM Inductive == Spec => []IInv
<1> QED
  BY InitIInv, StepIInv, PTL DEF Spec

\* The type invariant: the queues of both sides keep their capacities and what the
\* tasks hold agrees with where they are.
THEOREM TypeCorrect == Spec => []TypeOK
<1>1. IInv => TypeOK
  <2> SUFFICES ASSUME IInv PROVE TypeOK
    OBVIOUS
  <2>1. HostOK
    BY DEF IInv, SendersOK, WriteOK, ReadOK, OutOK, SendOK, HostOK
  <2>2. SlaveOK
    BY DEF IInv, SendOK, RecvOK, InOK, RxOK, SlaveOutOK, FlowOK, SlaveOK
  <2> QED
    BY <2>1, <2>2 DEF TypeOK
<1> QED
  BY <1>1, Inductive, PTL

\* A loaded packet is announced by exactly one edge of Data Ready and the host reads
\* exactly that packet (cb_tx_ready, cb_cmd9_recv, spi_hd_read_task); it writes only
\* into a loaded buffer and no receive buffer is lost (spi_hd_is_write_buffer_available,
\* spi_hd_rx_task, spi_hd_read_done), for every size of the registers.
THEOREM RegistersTrueHolds == Spec => []RegistersTrue
<1>1. IInv => RegistersTrue
  <2> SUFFICES ASSUME IInv PROVE Announced /\ CreditsTrue
    BY DEF RegistersTrue
  <2>1. opened => Bufs = QueueSize
    BY Zenon DEF IInv, BufsCount
  <2> QED
    BY <2>1, Zenon DEF IInv, RxAhead, Known, Bufs, CreditsTrue
<1> QED
  BY <1>1, Inductive, PTL


-----------------------------------------------------------------------------
(* What the host is told of throttling.  All packets on their way to it, in *)
(* the order in which it will see them.                                     *)

Command(on) == IF on THEN "flowOn" ELSE "flowOff"
ToHost == rxbuff \o (txLoaded \o txQueue)

Quiet(s) == \A i \in 1..Len(s) : s[i].if \notin Flow
Settles(s, on) ==
    \E i \in 1..Len(s) :
       /\ s[i].if = Command(on)
       /\ \A j \in 1..Len(s) : j > i => s[j].if \notin Flow

\* Packets of the flow control are those of flow_ctrl_task.
WritersKnown ==
    /\ writer["flow"] # << >> => flowCmd # << >> /\ writer["flow"][1] = flowCmd[1]
    /\ \A t \in Writers \ {"flow"} : writer[t] # << >> => writer[t][1] \in Interfaces

\* What is about to be sent is what was wanted last, or the semaphore is given again.
CommandTrue == flowCmd # << >> /\ ~flowSem => flowCmd[1] = Command(wifiFlow)

LastTold ==
    flowCmd = << >> /\ ~flowSem
      => Settles(ToHost, wifiFlow) \/ (Quiet(ToHost) /\ throttled = wifiFlow)

FlowInv == WritersKnown /\ CommandTrue /\ LastTold

LEMMA AppendFlow ==
  ASSUME NEW s \in Seq(Loads), NEW p \in Loads
  PROVE  /\ p.if \notin Flow /\ Quiet(s) => Quiet(Append(s, p))
         /\ \A on : p.if \notin Flow /\ Settles(s, on) => Settles(Append(s, p), on)
         /\ \A on : p.if = Command(on) => Settles(Append(s, p), on)
<1> DEFINE t == Append(s, p) k == Len(s)
<1>1. k \in Nat /\ Len(t) = k + 1 /\ t[k + 1] = p /\ \A i \in 1..k : t[i] = s[i]
  BY AppendElements
<1>2. \A i \in 1..(k + 1) : i \in 1..k \/ i = k + 1
  BY <1>1
<1>3. (1..k) \subseteq 1..(k + 1) /\ k + 1 \in 1..(k + 1)
  BY <1>1
<1> HIDE DEF t
<1>4. p.if \notin Flow /\ Quiet(s) => Quiet(t)
  BY <1>1, <1>2 DEF Quiet
<1>5. ASSUME NEW on, p.if \notin Flow, Settles(s, on) PROVE Settles(t, on)
  <2>1. PICK i \in 1..k : /\ s[i].if = Command(on)
                          /\ \A j \in 1..k : j > i => s[j].if \notin Flow
    BY <1>5 DEF Settles
  <2>2. i \in 1..(k + 1) /\ t[i].if = Command(on)
    BY <1>1, <1>3, <2>1
  <2>3. \A j \in 1..(k + 1) : j > i => t[j].if \notin Flow
    BY <1>1, <1>2, <1>5, <2>1
  <2> QED
    BY <1>1, <2>2, <2>3 DEF Settles
<1>6. ASSUME NEW on, p.if = Command(on) PROVE Settles(t, on)
  <2>1. t[k + 1].if = Command(on) /\ \A j \in 1..(k + 1) : j > k + 1 => t[j].if \notin Flow
    BY <1>1, <1>6
  <2> QED
    BY <1>1, <1>3, <2>1 DEF Settles
<1> QED
  BY <1>4, <1>5, <1>6, Zenon DEF t

LEMMA TailFlow ==
  ASSUME NEW s \in Seq(Loads), s # << >>
  PROVE  /\ Quiet(s) => Head(s).if \notin Flow /\ Quiet(Tail(s))
         /\ \A on : Settles(s, on)
                      => \/ Settles(Tail(s), on)
                         \/ Head(s).if = Command(on) /\ Quiet(Tail(s))
<1> DEFINE t == Tail(s) k == Len(s) - 1
<1>1. /\ k \in Nat /\ Len(s) = k + 1 /\ Len(t) = k /\ Head(s) = s[1]
      /\ \A i \in 1..k : t[i] = s[i + 1]
  BY TailElements
<1> HIDE DEF t, k
<1>2. 1 \in 1..(k + 1) /\ \A i \in 1..k : i + 1 \in 1..(k + 1)
  BY <1>1
<1>3. Quiet(s) => Head(s).if \notin Flow /\ Quiet(t)
  BY <1>1, <1>2 DEF Quiet
<1>4. ASSUME NEW on, Settles(s, on)
      PROVE  Settles(t, on) \/ (Head(s).if = Command(on) /\ Quiet(t))
  <2>1. PICK i \in 1..(k + 1) : /\ s[i].if = Command(on)
                                /\ \A j \in 1..(k + 1) : j > i => s[j].if \notin Flow
    BY <1>1, <1>4 DEF Settles
  <2>2. CASE i = 1
    <3>1. \A j \in 1..k : t[j].if \notin Flow
      BY <1>1, <1>2, <2>1, <2>2
    <3> QED
      BY <1>1, <2>1, <2>2, <3>1 DEF Quiet
  <2>3. CASE i # 1
    <3>1. i - 1 \in 1..k /\ (i - 1) + 1 = i
      BY <1>1, <2>3
    <3>2. t[i - 1] = s[i]
      BY <1>1, <3>1
    <3>3. \A j \in 1..k : j > i - 1 => t[j].if \notin Flow
      <4> SUFFICES ASSUME NEW j \in 1..k, j > i - 1 PROVE t[j].if \notin Flow
        OBVIOUS
      <4>1. j + 1 \in 1..(k + 1) /\ j + 1 > i /\ t[j] = s[j + 1]
        BY <1>1, <1>2
      <4> QED
        BY <2>1, <4>1
    <3> QED
      BY <1>1, <2>1, <3>1, <3>2, <3>3 DEF Settles
  <2> QED
    BY <2>2, <2>3
<1> QED
  BY <1>3, <1>4 DEF t

LEMMA FlowFrames ==
  /\ WritersKnown /\ UNCHANGED <<writer, flowCmd>> => WritersKnown'
  /\ CommandTrue /\ UNCHANGED <<flowCmd, flowSem, wifiFlow>> => CommandTrue'
  /\ LastTold /\ ToHost' = ToHost /\ UNCHANGED <<flowCmd, flowSem, wifiFlow, throttled>>
       => LastTold'
<1>1. WritersKnown /\ UNCHANGED <<writer, flowCmd>> => WritersKnown'
  BY Zenon DEF WritersKnown
<1>2. CommandTrue /\ UNCHANGED <<flowCmd, flowSem, wifiFlow>> => CommandTrue'
  BY DEF CommandTrue, Command
<1>3. LastTold /\ ToHost' = ToHost /\ UNCHANGED <<flowCmd, flowSem, wifiFlow, throttled>>
        => LastTold'
  BY DEF LastTold, Settles, Quiet, Command
<1> QED
  BY <1>1, <1>2, <1>3

LEMMA StagesTyped ==
  ASSUME IInv
  PROVE  /\ rxbuff \in Seq(Loads) /\ txLoaded \in Seq(Loads) /\ txQueue \in Seq(Loads)
         /\ txLoaded \o txQueue \in Seq(Loads) /\ ToHost \in Seq(Loads)
<1>1. rxbuff \in Seq(Loads) /\ txLoaded \in Seq(Loads) /\ txQueue \in Seq(Loads)
  BY DEF IInv, ReadOK, SendOK
<1>2. txLoaded \o txQueue \in Seq(Loads)
  BY <1>1, JoinFacts
<1> QED
  BY <1>1, <1>2, JoinFacts DEF ToHost

LEMMA StillFlowInv ==
  ASSUME FlowInv, UNCHANGED <<rxbuff, txLoaded, txQueue, throttled, wifiFlow, flowSem,
                              flowCmd, writer>>
  PROVE  FlowInv'
<1>1. ToHost' = ToHost
  BY DEF ToHost
<1> QED
  BY <1>1, FlowFrames DEF FlowInv

\* The host takes the first of them.
LEMMA HostTakesFlowInv ==
  ASSUME IInv, FlowInv, UpdateFlowCtrl \/ PushPacket
  PROVE  FlowInv'
<1> DEFINE p == rxbuff[1] rest == txLoaded \o txQueue
<1>1. /\ rxbuff # << >> /\ rxbuff' = << >>
      /\ UNCHANGED <<txLoaded, txQueue, wifiFlow, flowSem, flowCmd, writer>>
  BY DEF UpdateFlowCtrl, PushPacket, slaveIn, sendHw, flow
<1>2. /\ rxbuff \in Seq(Loads) /\ rest \in Seq(Loads) /\ ToHost \in Seq(Loads)
      /\ Len(rxbuff) <= 1 /\ wifiFlow \in BOOLEAN
  BY StagesTyped DEF IInv, ReadOK, FlowOK
<1>3. Head(rxbuff) = p /\ Tail(rxbuff) = << >>
  BY <1>1, <1>2
<1>4. ToHost # << >> /\ Head(ToHost) = p /\ ToHost' = Tail(ToHost)
  <2>1. /\ ToHost # << >> /\ Head(ToHost) = Head(rxbuff)
        /\ Tail(ToHost) = Tail(rxbuff) \o rest
    BY <1>1, <1>2, JoinTail DEF ToHost
  <2>2. ToHost' = << >> \o rest
    BY <1>1 DEF ToHost
  <2> QED
    BY <1>3, <2>1, <2>2
<1> HIDE DEF p, rest
<1>5. WritersKnown' /\ CommandTrue'
  BY <1>1, FlowFrames DEF FlowInv
<1>6. /\ Quiet(ToHost) => p.if \notin Flow /\ Quiet(ToHost')
      /\ \A on : Settles(ToHost, on)
                   => Settles(ToHost', on) \/ (p.if = Command(on) /\ Quiet(ToHost'))
  BY <1>2, <1>4, TailFlow
<1>7. LastTold'
  <2> SUFFICES ASSUME flowCmd = << >>, ~flowSem
               PROVE  Settles(ToHost', wifiFlow) \/ (Quiet(ToHost') /\ throttled' = wifiFlow)
    BY <1>1 DEF LastTold, Settles, Quiet, Command
  <2>1. Settles(ToHost, wifiFlow) \/ (Quiet(ToHost) /\ throttled = wifiFlow)
    BY DEF FlowInv, LastTold
  <2>2. CASE p.if \in Flow
    <3>1. throttled' = (p.if = "flowOn")
      BY <2>2 DEF UpdateFlowCtrl, PushPacket, p
    <3>2. Settles(ToHost, wifiFlow)
      BY <1>6, <2>1, <2>2
    <3>3. p.if = Command(wifiFlow) => throttled' = wifiFlow
      BY <1>2, <3>1 DEF Command
    <3> QED
      BY <1>6, <3>2, <3>3
  <2>3. CASE p.if \notin Flow
    <3>1. throttled' = throttled
      BY <2>3 DEF UpdateFlowCtrl, PushPacket, p
    <3>2. p.if # Command(wifiFlow)
      BY <2>3 DEF Command, Flow
    <3> QED
      BY <1>6, <2>1, <3>1, <3>2
  <2> QED
    BY <2>2, <2>3
<1> QED
  BY <1>5, <1>7 DEF FlowInv

\* Loading and reading leave them in order.
LEMMA MovesToHost ==
  ASSUME IInv, LoadTx \/ ReadDma
  PROVE  ToHost' = ToHost
<1>1. /\ rxbuff \in Seq(Loads) /\ txLoaded \in Seq(Loads) /\ txQueue \in Seq(Loads)
      /\ txLoaded \o txQueue \in Seq(Loads)
  BY StagesTyped
<1>2. CASE LoadTx
  <2>1. /\ txLoaded = << >> /\ txQueue # << >> /\ rxbuff' = rxbuff
        /\ txLoaded' = <<Head(txQueue)>> /\ txQueue' = Tail(txQueue)
    BY <1>2 DEF LoadTx, host, readTask
  <2>2. txLoaded' \o txQueue' = txLoaded \o txQueue
    BY <1>1, <2>1, HeadMoves, EmptyJoin
  <2> QED
    BY <2>1, <2>2, Zenon DEF ToHost
<1>3. CASE ReadDma
  <2>1. rxbuff = << >>
    BY <1>3 DEF IInv, ReadOK, ReadDma
  <2>2. rxbuff' = txLoaded /\ txLoaded' = << >> /\ txQueue' = txQueue
    BY <1>3 DEF ReadDma
  <2>3. ToHost = txLoaded \o txQueue
    BY <1>1, <2>1, EmptyJoin DEF ToHost
  <2>4. << >> \o txQueue = txQueue
    BY <1>1, EmptyJoin
  <2>5. ToHost' = txLoaded \o (<< >> \o txQueue)
    BY <2>2 DEF ToHost
  <2> QED
    BY <2>3, <2>4, <2>5, Zenon
<1> QED
  BY <1>2, <1>3

LEMMA MovesFlowInv ==
  ASSUME IInv, FlowInv, LoadTx \/ ReadDma
  PROVE  FlowInv'
<1>1. UNCHANGED <<throttled, wifiFlow, flowSem, flowCmd, writer>>
  BY DEF LoadTx, ReadDma, slaveIn, flow, host
<1> QED
  BY <1>1, MovesToHost, FlowFrames DEF FlowInv

\* A writer puts its packet behind them, with the next number of its queue.
LEMMA QueueToHost ==
  ASSUME IInv, NEW t \in Writers, SlaveQueue(t)
  PROVE  LET interface == writer[t][1]
         IN  /\ writer[t] # << >> /\ interface \in Interfaces \cup Flow
             /\ \E p \in Loads :
                  /\ p.if = interface /\ ToHost' = Append(ToHost, p)
                  /\ interface \in Flow => slaveSent' = slaveSent
                  /\ interface \notin Flow
                       => /\ p.n = slaveSent[QueueOf(interface)] + 1
                          /\ slaveSent' = [slaveSent EXCEPT ![QueueOf(interface)] = @ + 1]
<1> DEFINE interface == writer[t][1]
           n == IF interface \in Flow THEN 0 ELSE slaveSent[QueueOf(interface)] + 1
           p == Packet(interface, n)
<1>1. /\ writer[t] # << >> /\ txQueue' = Append(txQueue, p)
      /\ UNCHANGED <<rxbuff, txLoaded>>
      /\ interface \in Flow => slaveSent' = slaveSent
      /\ interface \notin Flow
           => slaveSent' = [slaveSent EXCEPT ![QueueOf(interface)] = @ + 1]
  BY DEF SlaveQueue, host, readTask
<1>2. /\ interface \in Interfaces \cup Flow /\ p \in Loads
      /\ p.if = interface /\ p.n = n
  <2>1. /\ writer \in [Writers -> Seq(Interfaces \cup Flow)] /\ Len(writer[t]) <= 1
        /\ slaveSent \in [Queues -> Nat]
    BY DEF IInv, InOK
  <2>2. interface \in Interfaces \cup Flow
    BY <1>1, <2>1, OnlyFacts
  <2>3. n \in Nat
    BY <2>1, QueueOfInQueues
  <2> HIDE DEF interface, n
  <2> QED
    BY <2>2, <2>3, PacketIsOne DEF Packet
<1>3. interface \notin Flow => p.n = slaveSent[QueueOf(interface)] + 1
  BY <1>2
<1> HIDE DEF p, n, interface
<1>4. ToHost' = Append(ToHost, p)
  <2>1. txLoaded' \o txQueue' = Append(txLoaded \o txQueue, p)
    BY <1>1, <1>2, StagesTyped, JoinAppend
  <2>2. rxbuff \o Append(txLoaded \o txQueue, p) = Append(ToHost, p)
    BY <1>2, StagesTyped, JoinAppend DEF ToHost
  <2>3. ToHost' = rxbuff \o (txLoaded' \o txQueue')
    BY <1>1 DEF ToHost
  <2> QED
    BY <2>1, <2>2, <2>3, Zenon
<1> QED
  BY <1>1, <1>2, <1>3, <1>4 DEF interface

LEMMA QueueFlowInv ==
  ASSUME IInv, FlowInv, NEW t \in Writers, SlaveQueue(t)
  PROVE  FlowInv'
<1> DEFINE interface == writer[t][1]
<1>1. /\ writer[t] # << >> /\ writer' = [writer EXCEPT ![t] = << >>]
      /\ flowCmd' = IF t = "flow" THEN << >> ELSE flowCmd
      /\ UNCHANGED <<throttled, wifiFlow, flowSem>>
  BY DEF SlaveQueue, host
<1>2. PICK p \in Loads : p.if = interface /\ ToHost' = Append(ToHost, p)
  BY QueueToHost
<1> HIDE DEF interface
<1>3. ToHost \in Seq(Loads) /\ Flow \cap Interfaces = {}
  BY StagesTyped DEF Flow, Interfaces
<1>4. WritersKnown'
  <2>1. /\ writer \in [Writers -> Seq(Interfaces \cup Flow)]
        /\ Writers = {"serial", "sta", "reset", "flow"}
    BY DEF IInv, InOK, Writers
  <2> QED
    BY <1>1, <2>1 DEF FlowInv, WritersKnown
<1>5. CASE t = "flow"
  <2>1. flowCmd # << >> /\ interface = flowCmd[1]
    BY <1>1, <1>5 DEF FlowInv, WritersKnown, interface
  <2>2. CommandTrue'
    BY <1>1, <1>5 DEF CommandTrue
  <2>3. ASSUME ~flowSem PROVE Settles(ToHost', wifiFlow)
    <3>1. p.if = Command(wifiFlow)
      BY <1>2, <2>1, <2>3 DEF FlowInv, CommandTrue
    <3> QED
      BY <1>2, <1>3, <3>1, AppendFlow
  <2>4. LastTold'
    BY <1>1, <2>3 DEF LastTold, Settles, Command
  <2> QED
    BY <1>4, <2>2, <2>4 DEF FlowInv
<1>6. CASE t # "flow"
  <2>1. interface \in Interfaces /\ flowCmd' = flowCmd
    BY <1>1, <1>6 DEF FlowInv, WritersKnown, Writers, interface
  <2>2. p.if \notin Flow
    BY <1>2, <1>3, <2>1
  <2>3. CommandTrue'
    BY <1>1, <2>1, FlowFrames DEF FlowInv
  <2>4. /\ Quiet(ToHost) => Quiet(ToHost')
        /\ Settles(ToHost, wifiFlow) => Settles(ToHost', wifiFlow)
    BY <1>2, <1>3, <2>2, AppendFlow
  <2>5. LastTold'
    BY <1>1, <2>1, <2>4 DEF FlowInv, LastTold, Settles, Quiet, Command
  <2> QED
    BY <1>4, <2>3, <2>5 DEF FlowInv
<1> QED
  BY <1>5, <1>6

\* A writer takes its place; flow_ctrl_task takes its semaphore.
LEMMA TakeFlowInv ==
  ASSUME IInv, FlowInv,
         \/ \E interface \in {"serial", "sta"} : SlaveWrite(interface)
         \/ SlaveStartup \/ FlowWrite \/ FlowTake
  PROVE  FlowInv'
<1>1. ToHost' = ToHost /\ UNCHANGED <<throttled, wifiFlow>>
  BY DEF SlaveWrite, SlaveStartup, FlowWrite, FlowTake, TakePlace, ToHost, host, readTask,
     sendHw
<1>2. /\ writer \in [Writers -> Seq(Interfaces \cup Flow)]
      /\ Writers = {"serial", "sta", "reset", "flow"} /\ {"serial", "sta", "priv"} = Interfaces
  BY DEF IInv, InOK, Writers, Interfaces
<1>3. CASE FlowTake
  <2>1. /\ flowCmd' = <<Command(wifiFlow)>> /\ flowCmd = << >> /\ writer' = writer
        /\ flowSem' = FALSE
    BY <1>3 DEF FlowTake, Command, slaveIn
  <2>2. WritersKnown'
    BY <2>1 DEF FlowInv, WritersKnown
  <2>3. flowCmd'[1] = Command(wifiFlow) /\ flowCmd' # << >>
    BY <2>1
  <2>4. CommandTrue' /\ LastTold'
    BY <1>1, <2>3 DEF CommandTrue, LastTold, Command
  <2> QED
    BY <2>2, <2>4 DEF FlowInv
<1>4. CASE ~FlowTake
  <2>1. PICK t \in Writers, i \in Interfaces \cup Flow :
           /\ TakePlace(t, i) /\ UNCHANGED flowCmd
           /\ t = "flow" => flowCmd # << >> /\ i = flowCmd[1]
           /\ t # "flow" => i \in Interfaces
    <3>1. CASE \E interface \in {"serial", "sta"} : SlaveWrite(interface)
      BY <1>2, <3>1 DEF SlaveWrite
    <3>2. CASE SlaveStartup
      BY <1>2, <3>2 DEF SlaveStartup
    <3>3. CASE FlowWrite
      <4>1. flowCmd[1] \in Flow
        BY <3>3, OnlyFacts DEF IInv, FlowOK, FlowWrite
      <4> QED
        BY <1>2, <3>3, <4>1 DEF FlowWrite
    <3> QED
      BY <1>4, <3>1, <3>2, <3>3
  <2>2. writer' = [writer EXCEPT ![t] = <<i>>] /\ flowSem' = flowSem
    BY <2>1 DEF TakePlace
  <2>3. writer'[t][1] = i /\ \A u \in Writers : u # t => writer'[u] = writer[u]
    BY <1>2, <2>2
  <2>4. WritersKnown'
    BY <1>2, <2>1, <2>3 DEF FlowInv, WritersKnown
  <2> QED
    BY <1>1, <2>1, <2>2, <2>4, FlowFrames DEF FlowInv
<1> QED
  BY <1>3, <1>4

\* Whoever changes what is wanted gives the semaphore.
LEMMA SetFlowInv ==
  ASSUME IInv, FlowInv, RxFlow \/ ReadFlow
  PROVE  FlowInv'
<1>1. flowSem' = TRUE /\ UNCHANGED <<writer, flowCmd>>
  BY DEF RxFlow, ReadFlow, SetFlow, slaveIn
<1>2. CommandTrue' /\ LastTold'
  BY <1>1 DEF CommandTrue, LastTold
<1> QED
  BY <1>1, <1>2, FlowFrames DEF FlowInv

LEMMA InitFlowInv == Init => FlowInv
<1> SUFFICES ASSUME Init PROVE FlowInv
  OBVIOUS
<1>1. /\ rxbuff = << >> /\ txLoaded = << >> /\ txQueue = << >> /\ flowCmd = << >>
      /\ throttled = wifiFlow /\ \A t \in Writers : writer[t] = << >>
  BY DEF Init
<1>2. Len(ToHost) = 0
  BY <1>1 DEF ToHost
<1>3. LastTold
  BY <1>1, <1>2 DEF LastTold, Quiet
<1> QED
  BY <1>1, <1>3 DEF FlowInv, WritersKnown, CommandTrue, Writers

LEMMA StepFlowInv == IInv /\ FlowInv /\ [Next]_vars => FlowInv'
<1> SUFFICES ASSUME IInv, FlowInv, [Next]_vars PROVE FlowInv'
  OBVIOUS
<1> USE DEF host, senders, writeTask, readTask, hostOut, sendHw, recvHw, slaveIn, rxTask,
        slaveOut, flow
<1>1. CASE \E q \in Queues : HostQueue(q) \/ HostCount(q)
  BY <1>1, StillFlowInv DEF HostQueue, HostCount
<1>2. CASE WriteTask
  BY <1>2, StillFlowInv DEF WriteTask, WriteTake, WriteLock, FindBuffer, WriteDma
<1>3. CASE ReadTask
  <2>1. CASE OpenDataPath \/ ReadTake \/ ReadReg \/ SendCmd9
    BY <2>1, StillFlowInv DEF OpenDataPath, ReadTake, ReadReg, SendCmd9
  <2> QED
    BY <1>3, <2>1, HostTakesFlowInv, MovesFlowInv DEF ReadTask
<1>4. CASE ProcessRxTask
  BY <1>4, StillFlowInv DEF ProcessRxTask, HostRxTask, StartWriteTask
<1>5. CASE LoadTx \/ LoadRx \/ TxDone
  <2>1. CASE LoadRx \/ TxDone
    BY <2>1, StillFlowInv DEF LoadRx, TxDone
  <2> QED
    BY <1>5, <2>1, MovesFlowInv
<1>6. CASE \E interface \in {"serial", "sta"} : SlaveWrite(interface)
  BY <1>6, TakeFlowInv
<1>7. CASE SlaveStartup \/ (\E t \in Writers \ {"flow"} : SlaveQueue(t)) \/ FlowTask
  <2>1. "reset" \in Writers /\ "flow" \in Writers
    BY DEF Writers
  <2> QED
    BY <1>7, <2>1, TakeFlowInv, QueueFlowInv DEF FlowTask
<1>8. CASE RxTask
  <2>1. CASE SlaveOpen \/ RxTake \/ RxThrottle \/ RxPut
    BY <2>1, StillFlowInv DEF SlaveOpen, RxTake, RxThrottle, RxPut
  <2> QED
    BY <1>8, <2>1, SetFlowInv DEF RxTask
<1>9. CASE RecvTask
  <2>1. CASE SlaveRead \/ ReadThrottle \/ ReadDone
    BY <2>1, StillFlowInv DEF SlaveRead, ReadThrottle, ReadDone
  <2> QED
    BY <1>9, <2>1, SetFlowInv DEF RecvTask
<1>10. CASE UNCHANGED vars
  BY <1>10, StillFlowInv DEF vars
<1> QED
  BY <1>1, <1>2, <1>3, <1>4, <1>5, <1>6, <1>7, <1>8, <1>9, <1>10 DEF Next

LEMMA FlowInvHolds == Spec => []FlowInv
<1> QED
  BY InitFlowInv, StepFlowInv, Inductive, PTL DEF Spec

\* When nothing is left to tell, the host does what the last writer of wifi_flow_ctrl
\* wanted (flow_ctrl_task, update_flow_ctrl): a binary semaphore given twice loses no
\* change, however the packets of the other tasks interleave.
THEOREM FlowToldHolds == Spec => []FlowTold
<1>1. IInv /\ FlowInv => FlowTold
  <2> SUFFICES ASSUME IInv, FlowInv, ~flowSem, flowCmd = << >>, throttled # wifiFlow,
                      NEW i \in 1..Len(ToHost), ToHost[i].if = Command(wifiFlow)
               PROVE  \/ \E k \in DOMAIN txQueue : OnItsWay(txQueue[k])
                      \/ \E k \in DOMAIN txLoaded : OnItsWay(txLoaded[k])
                      \/ \E k \in DOMAIN rxbuff : OnItsWay(rxbuff[k])
    BY Zenon DEF FlowTold, FlowInv, LastTold, Settles
  <2>1. Command(wifiFlow) \in Flow
    BY DEF Command, Flow
  <2> DEFINE rest == txLoaded \o txQueue
  <2>2. /\ rxbuff \in Seq(Loads) /\ txLoaded \in Seq(Loads) /\ txQueue \in Seq(Loads)
        /\ rest \in Seq(Loads) /\ ToHost = rxbuff \o rest
    BY StagesTyped DEF ToHost
  <2>3. \/ i \in DOMAIN rxbuff /\ ToHost[i] = rxbuff[i]
        \/ i - Len(rxbuff) \in 1..Len(rest) /\ ToHost[i] = rest[i - Len(rxbuff)]
    <3> HIDE DEF rest
    <3> QED
      BY <2>2
  <2>4. ASSUME NEW k \in 1..Len(rest)
        PROVE  \/ k \in DOMAIN txLoaded /\ rest[k] = txLoaded[k]
               \/ k - Len(txLoaded) \in DOMAIN txQueue
                    /\ rest[k] = txQueue[k - Len(txLoaded)]
    BY <2>2
  <2> QED
    BY <2>1, <2>3, <2>4 DEF OnItsWay
<1> QED
  BY <1>1, Inductive, FlowInvHolds, PTL

-----------------------------------------------------------------------------
(* The order of the packets: every stage of one direction joined, for each  *)
(* queue, carries the numbers above the one handed over last.               *)

Mine(q) == {i \in Interfaces : QueueOf(i) = q}
Sorted(queues) ==
    \A q \in Queues : \A i \in 1..Len(queues[q]) : queues[q][i].if \in Mine(q)

FromSlaveStages(q) == fromSlave[q] \o ToHost
FromSlaveOrder ==
    /\ Sorted(fromSlave)
    /\ \A q \in Queues :
          /\ InOrder(FromSlaveStages(q), Mine(q), LastOf(hostGot[q]), slaveSent[q])
          /\ Complete(FromSlaveStages(q), Mine(q), LastOf(hostGot[q]), slaveSent[q])

SlaveHolds(q) == rxQueue[q] \o (rxHeld \o received)
ToSlaveStages(q) == SlaveHolds(q) \o (hostTx \o toSlave[q])
ToSlaveOrder ==
    /\ Sorted(toSlave) /\ Sorted(rxQueue)
    /\ \A q \in Queues :
          InOrder(ToSlaveStages(q), Mine(q), LastOf(slaveGot[q]), hostSent[q])

LEMMA LoadsNumbered == Numbered(Loads) /\ Numbered(Packets)
  BY DEF Numbered, Loads, Packets

LEMMA PacketsAreLoads == Packets \subseteq Loads /\ Seq(Packets) \subseteq Seq(Loads)
<1>1. Packets \subseteq Loads
  BY DEF Packets, Loads
<1> QED
  BY <1>1

LEMMA MineFacts ==
  /\ \A i \in Interfaces : i \in Mine(QueueOf(i)) /\ QueueOf(i) \in Queues
  /\ \A i \in Interfaces : \A q \in Queues : q # QueueOf(i) => i \notin Mine(q)
  /\ \A i \in Flow : \A q : i \notin Mine(q)
  /\ \A q, i : i \in Mine(q) => i \in Interfaces /\ QueueOf(i) = q
  BY QueueOfInQueues DEF Mine, Flow, Interfaces

\* What PutIn does to each queue.
LEMMA PutEach ==
  ASSUME NEW f \in [Queues -> Seq(Packets)], NEW p \in Packets, Sorted(f)
  PROVE  /\ QueueOf(p.if) \in Queues /\ p.if \in Mine(QueueOf(p.if))
         /\ PutIn(f, p)[QueueOf(p.if)] = Append(f[QueueOf(p.if)], p)
         /\ \A q \in Queues : q # QueueOf(p.if)
              => PutIn(f, p)[q] = f[q] /\ p.if \notin Mine(q)
         /\ Sorted(PutIn(f, p))
<1> DEFINE r == QueueOf(p.if) s == Append(f[r], p) g == PutIn(f, p)
<1>1. p.if \in Interfaces
  BY DEF Packets
<1>2. /\ r \in Queues /\ p.if \in Mine(r)
      /\ \A q \in Queues : q # r => p.if \notin Mine(q)
  BY <1>1, MineFacts
<1>3. g[r] = s /\ \A q \in Queues : q # r => g[q] = f[q]
  BY <1>2 DEF PutIn
<1> HIDE DEF r, g
<1>4. /\ Len(f[r]) \in Nat /\ Len(s) = Len(f[r]) + 1 /\ s[Len(f[r]) + 1] = p
      /\ \A i \in 1..Len(f[r]) : s[i] = f[r][i]
  BY <1>2, AppendElements
<1>5. \A i \in 1..Len(s) : s[i].if \in Mine(r)
  <2>1. \A i \in 1..Len(f[r]) : f[r][i].if \in Mine(r)
    BY <1>2 DEF Sorted
  <2> HIDE DEF s
  <2> QED
    BY <1>2, <1>4, <2>1
<1>6. Sorted(g)
  BY <1>3, <1>5 DEF Sorted
<1> QED
  BY <1>2, <1>3, <1>6 DEF r, g

\* What taking the first packet of one queue does to each.
LEMMA TakeEach ==
  ASSUME NEW f \in [Queues -> Seq(Packets)], NEW r \in Queues, f[r] # << >>, Sorted(f),
         NEW g, g[r] = Tail(f[r]), \A q \in Queues : q # r => g[q] = f[q]
  PROVE  /\ Head(f[r]) \in Packets /\ Head(f[r]).if \in Mine(r)
         /\ \A q \in Queues : q # r => Head(f[r]).if \notin Mine(q)
         /\ Sorted(g)
<1> DEFINE s == f[r]
<1>1. /\ s \in Seq(Packets) /\ Len(s) \in Nat \ {0} /\ Len(Tail(s)) = Len(s) - 1
      /\ Head(s) = s[1] /\ Head(s) \in Packets
      /\ \A i \in 1..(Len(s) - 1) : Tail(s)[i] = s[i + 1]
  BY TailElements, TailFacts
<1>2. g[r] = Tail(s)
  OBVIOUS
<1>3. \A i \in 1..Len(s) : s[i].if \in Mine(r)
  BY DEF Sorted
<1> HIDE DEF s
<1>4. Head(s).if \in Mine(r)
  BY <1>1, <1>3
<1>5. \A q \in Queues : q # r => Head(s).if \notin Mine(q)
  BY <1>4, MineFacts
<1>6. \A i \in 1..Len(Tail(s)) : Tail(s)[i].if \in Mine(r)
  BY <1>1, <1>3
<1>7. Sorted(g)
  BY <1>2, <1>6 DEF Sorted
<1> QED
  BY <1>1, <1>2, <1>4, <1>5, <1>7 DEF s

-----------------------------------------------------------------------------
(* Towards the host no packet is lost.                                      *)

LEMMA FromSlaveTyped ==
  ASSUME IInv
  PROVE  /\ ToHost \in Seq(Loads) /\ fromSlave \in [Queues -> Seq(Packets)]
         /\ \A q \in Queues : fromSlave[q] \in Seq(Loads) /\ FromSlaveStages(q) \in Seq(Loads)
         /\ hostGot \in [Queues -> Seq(Nat)] /\ slaveSent \in [Queues -> Nat]
         /\ \A q \in Queues : LastOf(hostGot[q]) \in Nat
<1>1. /\ ToHost \in Seq(Loads) /\ fromSlave \in [Queues -> Seq(Packets)]
      /\ hostGot \in [Queues -> Seq(Nat)] /\ slaveSent \in [Queues -> Nat]
  BY StagesTyped DEF IInv, OutOK, InOK
<1>2. \A q \in Queues : fromSlave[q] \in Seq(Loads)
  BY <1>1, PacketsAreLoads
<1>3. \A q \in Queues : FromSlaveStages(q) \in Seq(Loads)
  BY <1>1, <1>2, JoinFacts DEF FromSlaveStages
<1>4. \A q \in Queues : LastOf(hostGot[q]) \in Nat
  BY <1>1, LastFacts
<1> QED
  BY <1>1, <1>2, <1>3, <1>4

LEMMA StillFromSlave ==
  ASSUME FromSlaveOrder, ToHost' = ToHost, UNCHANGED <<fromSlave, hostGot, slaveSent>>
  PROVE  FromSlaveOrder' /\ UNCHANGED FromSlaveLink!vars
<1>1. UNCHANGED FromSlaveLink!vars
  BY DEF FromSlaveLink!vars
<1> QED
  BY <1>1, Zenon DEF FromSlaveOrder, FromSlaveStages, Sorted

\* The packet that was read goes to its queue, or to update_flow_ctrl.
LEMMA PushFromSlave ==
  ASSUME IInv, FromSlaveOrder, UpdateFlowCtrl \/ PushPacket
  PROVE  FromSlaveOrder' /\ UNCHANGED FromSlaveLink!vars
<1> DEFINE p == rxbuff[1] rest == txLoaded \o txQueue
<1>1. /\ rxbuff # << >> /\ rxbuff' = << >>
      /\ UNCHANGED <<txLoaded, txQueue, hostGot, slaveSent>>
  BY DEF UpdateFlowCtrl, PushPacket, slaveIn, sendHw, hostOut
<1>2. /\ rxbuff \in Seq(Loads) /\ rest \in Seq(Loads) /\ Len(rxbuff) <= 1
  BY StagesTyped DEF IInv, ReadOK
<1>3. p \in Loads /\ rxbuff = <<p>>
  <2>1. Len(rxbuff) = 1 /\ p \in Loads
    BY <1>1, <1>2, OnlyFacts
  <2> QED
    BY <1>2, <2>1
<1>4. ToHost = <<p>> \o rest /\ ToHost' = rest
  <2>1. ToHost' = << >> \o rest
    BY <1>1 DEF ToHost
  <2> QED
    BY <1>2, <1>3, <2>1, EmptyJoin DEF ToHost
<1> HIDE DEF p, rest
<1>5. UNCHANGED FromSlaveLink!vars
  BY <1>1 DEF FromSlaveLink!vars
<1>6. \A q \in Queues :
         /\ fromSlave[q] \in Seq(Loads)
         /\ InOrder(fromSlave[q] \o (<<p>> \o rest), Mine(q), LastOf(hostGot[q]),
                    slaveSent[q])
         /\ Complete(fromSlave[q] \o (<<p>> \o rest), Mine(q), LastOf(hostGot[q]),
                     slaveSent[q])
  BY <1>4, FromSlaveTyped DEF FromSlaveOrder, FromSlaveStages
<1>7. ASSUME NEW q \in Queues, p.if \notin Mine(q)
      PROVE  /\ InOrder(fromSlave[q] \o rest, Mine(q), LastOf(hostGot[q]), slaveSent[q])
             /\ Complete(fromSlave[q] \o rest, Mine(q), LastOf(hostGot[q]), slaveSent[q])
  BY <1>2, <1>3, <1>6, <1>7, ForeignInOrder
<1>8. CASE UpdateFlowCtrl
  <2>1. p.if \in Flow /\ fromSlave' = fromSlave
    BY <1>8 DEF UpdateFlowCtrl, hostOut, p
  <2>2. \A q \in Queues : p.if \notin Mine(q)
    BY <2>1, MineFacts
  <2> QED
    BY <1>1, <1>4, <1>5, <1>7, <2>1, <2>2 DEF FromSlaveOrder, FromSlaveStages, Sorted
<1>9. CASE PushPacket
  <2>1. p.if \notin Flow /\ fromSlave' = PutIn(fromSlave, p)
    BY <1>9 DEF PushPacket, p
  <2>2. p \in Packets
    BY <1>3, <2>1 DEF Packets, Loads
  <2>3. /\ fromSlave'[QueueOf(p.if)] = Append(fromSlave[QueueOf(p.if)], p)
        /\ \A q \in Queues : q # QueueOf(p.if)
             => fromSlave'[q] = fromSlave[q] /\ p.if \notin Mine(q)
        /\ Sorted(fromSlave')
    BY <2>1, <2>2, FromSlaveTyped, PutEach DEF FromSlaveOrder
  <2>4. ASSUME NEW q \in Queues
        PROVE  /\ InOrder(fromSlave'[q] \o rest, Mine(q), LastOf(hostGot[q]), slaveSent[q])
               /\ Complete(fromSlave'[q] \o rest, Mine(q), LastOf(hostGot[q]), slaveSent[q])
    <3>1. CASE q = QueueOf(p.if)
      <4> DEFINE f == fromSlave[q]
      <4>1. f \in Seq(Loads) /\ fromSlave'[q] = Append(f, p)
        BY <1>6, <2>3, <3>1
      <4> HIDE DEF f
      <4>2. Append(f, p) \o rest = f \o (<<p>> \o rest)
        BY <1>2, <1>3, <4>1, AppendJoin
      <4> QED
        BY <1>6, <4>1, <4>2 DEF f
    <3>2. CASE q # QueueOf(p.if)
      BY <1>7, <2>3, <3>2
    <3> QED
      BY <3>1, <3>2
  <2> QED
    BY <1>1, <1>4, <1>5, <2>3, <2>4 DEF FromSlaveOrder, FromSlaveStages, Sorted
<1> QED
  BY <1>8, <1>9

LEMMA QueueFromSlave ==
  ASSUME IInv, FromSlaveOrder, NEW t \in Writers, writer[t] # << >>, SlaveQueue(t)
  PROVE  FromSlaveOrder' /\ [FromSlaveLink!Next]_FromSlaveLink!vars
<1> DEFINE interface == writer[t][1]
<1>1. PICK p \in Loads :
         /\ p.if = interface /\ ToHost' = Append(ToHost, p)
         /\ interface \in Flow => slaveSent' = slaveSent
         /\ interface \notin Flow
              => /\ p.n = slaveSent[QueueOf(interface)] + 1
                 /\ slaveSent' = [slaveSent EXCEPT ![QueueOf(interface)] = @ + 1]
  BY QueueToHost
<1>2. interface \in Interfaces \cup Flow
  BY QueueToHost
<1>3. UNCHANGED <<fromSlave, hostGot>>
  BY DEF SlaveQueue, host, hostOut
<1> HIDE DEF interface
<1>4. \A q \in Queues : FromSlaveStages(q)' = Append(FromSlaveStages(q), p)
  BY <1>1, <1>3, FromSlaveTyped, JoinAppend DEF FromSlaveStages
<1>5. ASSUME NEW q \in Queues, slaveSent'[q] = slaveSent[q], p.if \notin Mine(q)
      PROVE  /\ InOrder(FromSlaveStages(q)', Mine(q), LastOf(hostGot[q]), slaveSent'[q])
             /\ Complete(FromSlaveStages(q)', Mine(q), LastOf(hostGot[q]), slaveSent'[q])
  <2>1. /\ FromSlaveStages(q) \in Seq(Loads) /\ LastOf(hostGot[q]) \in Nat
        /\ slaveSent[q] \in Nat
        /\ InOrder(FromSlaveStages(q), Mine(q), LastOf(hostGot[q]), slaveSent[q])
        /\ Complete(FromSlaveStages(q), Mine(q), LastOf(hostGot[q]), slaveSent[q])
    BY FromSlaveTyped DEF FromSlaveOrder
  <2>2. FromSlaveStages(q)' = Append(FromSlaveStages(q), p)
    BY <1>4
  <2> QED
    BY <1>5, <2>1, <2>2, LoadsNumbered, Accepted
<1>6. CASE interface \in Flow
  <2>1. slaveSent' = slaveSent /\ \A q \in Queues : p.if \notin Mine(q)
    BY <1>1, <1>6, MineFacts
  <2>2. FromSlaveOrder'
    BY <1>3, <1>5, <2>1 DEF FromSlaveOrder, Sorted
  <2> QED
    BY <1>3, <2>1, <2>2 DEF FromSlaveLink!vars
<1>7. CASE interface \notin Flow
  <2>1. PICK r \in Queues :
           /\ p.if \in Mine(r) /\ \A q \in Queues : q # r => p.if \notin Mine(q)
           /\ slaveSent' = [slaveSent EXCEPT ![r] = @ + 1] /\ p.n = slaveSent[r] + 1
    BY <1>1, <1>2, <1>7, MineFacts
  <2>2. /\ FromSlaveStages(r) \in Seq(Loads) /\ LastOf(hostGot[r]) \in Nat
        /\ slaveSent \in [Queues -> Nat] /\ slaveSent[r] \in Nat
        /\ InOrder(FromSlaveStages(r), Mine(r), LastOf(hostGot[r]), slaveSent[r])
        /\ Complete(FromSlaveStages(r), Mine(r), LastOf(hostGot[r]), slaveSent[r])
    BY FromSlaveTyped DEF FromSlaveOrder
  <2>3. /\ slaveSent'[r] = slaveSent[r] + 1
        /\ \A q \in Queues : q # r => slaveSent'[q] = slaveSent[q]
    BY <2>1, <2>2
  <2>4. FromSlaveStages(r)' = Append(FromSlaveStages(r), p)
    BY <1>4
  <2>5. /\ InOrder(FromSlaveStages(r)', Mine(r), LastOf(hostGot[r]), slaveSent'[r])
        /\ Complete(FromSlaveStages(r)', Mine(r), LastOf(hostGot[r]), slaveSent'[r])
    BY <2>1, <2>2, <2>3, <2>4, LoadsNumbered, Accepted
  <2>6. FromSlaveOrder'
    BY <1>3, <1>5, <2>1, <2>3, <2>5 DEF FromSlaveOrder, Sorted
  <2>7. FromSlaveLink!Next
    BY <1>3, <2>1 DEF FromSlaveLink!Next, FromSlaveLink!Accept
  <2> QED
    BY <2>6, <2>7
<1> QED
  BY <1>6, <1>7

LEMMA HandFromSlave ==
  ASSUME IInv, FromSlaveOrder, HostRxTask
  PROVE  FromSlaveOrder' /\ FromSlaveLink!Next
<1> DEFINE r == FirstQueue(fromSlave) p == Head(fromSlave[r])
<1>1. Waiting(fromSlave) > 0
  BY DEF IInv, FromSlaveCount, OutOK, HostRxTask
<1>2. /\ fromSlave' = [fromSlave EXCEPT ![r] = Tail(@)]
      /\ hostGot' = [hostGot EXCEPT ![r] = Append(@, p.n)]
      /\ slaveSent' = slaveSent /\ UNCHANGED <<rxbuff, txLoaded, txQueue>>
  BY DEF HostRxTask, slaveIn, readTask, sendHw
<1>3. r \in Queues /\ fromSlave[r] # << >>
  BY <1>1, FromSlaveTyped, WaitingFacts
<1> HIDE DEF r
<1>4. /\ p.if \in Mine(r) /\ fromSlave'[r] = Tail(fromSlave[r])
      /\ \A q \in Queues : q # r => fromSlave'[q] = fromSlave[q]
      /\ Sorted(fromSlave')
  <2> DEFINE f == fromSlave g == fromSlave'
  <2>1. f \in [Queues -> Seq(Packets)] /\ Sorted(f) /\ f[r] # << >>
    BY <1>3, FromSlaveTyped DEF FromSlaveOrder
  <2>2. g[r] = Tail(f[r]) /\ \A q \in Queues : q # r => g[q] = f[q]
    BY <1>2, <1>3, <2>1
  <2> HIDE DEF f, g
  <2>3. Head(f[r]).if \in Mine(r) /\ Sorted(g)
    BY <1>3, <2>1, <2>2, TakeEach
  <2> QED
    BY <2>2, <2>3 DEF f, g
<1>5. ToHost' = ToHost
  BY <1>2 DEF ToHost
<1>6. /\ fromSlave[r] \in Seq(Loads) /\ ToHost \in Seq(Loads)
      /\ LastOf(hostGot[r]) \in Nat /\ slaveSent[r] \in Nat
      /\ InOrder(fromSlave[r] \o ToHost, Mine(r), LastOf(hostGot[r]), slaveSent[r])
      /\ Complete(fromSlave[r] \o ToHost, Mine(r), LastOf(hostGot[r]), slaveSent[r])
  BY <1>3, FromSlaveTyped DEF FromSlaveOrder, FromSlaveStages
<1>7. /\ p.n \in (LastOf(hostGot[r]) + 1)..slaveSent[r] /\ p.n = LastOf(hostGot[r]) + 1
      /\ InOrder(Tail(fromSlave[r]) \o ToHost, Mine(r), p.n, slaveSent[r])
      /\ Complete(Tail(fromSlave[r]) \o ToHost, Mine(r), p.n, slaveSent[r])
  BY <1>3, <1>4, <1>6, LoadsNumbered, HandedOver
<1> HIDE DEF p
<1>8. /\ hostGot'[r] = Append(hostGot[r], p.n) /\ LastOf(hostGot'[r]) = p.n
      /\ \A q \in Queues : q # r => hostGot'[q] = hostGot[q]
  <2>1. hostGot \in [Queues -> Seq(Nat)] /\ p.n \in Nat
    BY <1>6, <1>7, FromSlaveTyped
  <2>2. /\ hostGot'[r] = Append(hostGot[r], p.n)
        /\ \A q \in Queues : q # r => hostGot'[q] = hostGot[q]
    BY <1>2, <1>3, <2>1
  <2>3. hostGot[r] \in Seq(Nat)
    BY <1>3, <2>1
  <2> QED
    BY <2>1, <2>2, <2>3, LastFacts
<1>9. FromSlaveOrder'
  <2> SUFFICES ASSUME NEW q \in Queues
               PROVE  /\ InOrder(FromSlaveStages(q)', Mine(q), LastOf(hostGot'[q]),
                                 slaveSent[q])
                      /\ Complete(FromSlaveStages(q)', Mine(q), LastOf(hostGot'[q]),
                                  slaveSent[q])
    BY <1>2, <1>4 DEF FromSlaveOrder, Sorted
  <2>1. FromSlaveStages(q)' = fromSlave'[q] \o ToHost
    BY <1>5 DEF FromSlaveStages
  <2>2. CASE q = r
    BY <1>4, <1>7, <1>8, <2>1, <2>2
  <2>3. CASE q # r
    BY <1>4, <1>8, <2>1, <2>3 DEF FromSlaveOrder, FromSlaveStages
  <2> QED
    BY <2>2, <2>3
<1>10. FromSlaveLink!Next
  <2>1. FromSlaveLink!Last(hostGot[r]) = LastOf(hostGot[r])
    BY DEF FromSlaveLink!Last, LastOf
  <2> QED
    BY <1>2, <1>3, <1>7, <2>1 DEF FromSlaveLink!Next, FromSlaveLink!Deliver
<1> QED
  BY <1>9, <1>10

-----------------------------------------------------------------------------
(* Towards the co-processor a packet that finds no buffer is dropped.       *)

LEMMA ToSlaveTyped ==
  ASSUME IInv
  PROVE  /\ toSlave \in [Queues -> Seq(Packets)] /\ rxQueue \in [Queues -> Seq(Packets)]
         /\ hostTx \in Seq(Packets) /\ rxHeld \in Seq(Packets) /\ received \in Seq(Packets)
         /\ rxHeld \o received \in Seq(Packets)
         /\ \A q \in Queues :
               /\ toSlave[q] \in Seq(Packets) /\ rxQueue[q] \in Seq(Packets)
               /\ SlaveHolds(q) \in Seq(Packets) /\ hostTx \o toSlave[q] \in Seq(Packets)
               /\ ToSlaveStages(q) \in Seq(Packets)
         /\ slaveGot \in [Queues -> Seq(Nat)] /\ hostSent \in [Queues -> Nat]
         /\ \A q \in Queues : LastOf(slaveGot[q]) \in Nat
<1>1. /\ toSlave \in [Queues -> Seq(Packets)] /\ rxQueue \in [Queues -> Seq(Packets)]
      /\ hostTx \in Seq(Packets) /\ rxHeld \in Seq(Packets) /\ received \in Seq(Packets)
      /\ slaveGot \in [Queues -> Seq(Nat)] /\ hostSent \in [Queues -> Nat]
  BY DEF IInv, SendersOK, WriteOK, RecvOK, RxOK, SlaveOutOK
<1>2. rxHeld \o received \in Seq(Packets)
  BY <1>1, JoinFacts
<1>3. ASSUME NEW q \in Queues
      PROVE  /\ toSlave[q] \in Seq(Packets) /\ rxQueue[q] \in Seq(Packets)
             /\ SlaveHolds(q) \in Seq(Packets) /\ hostTx \o toSlave[q] \in Seq(Packets)
             /\ ToSlaveStages(q) \in Seq(Packets)
  <2>1. toSlave[q] \in Seq(Packets) /\ rxQueue[q] \in Seq(Packets)
    BY <1>1
  <2>2. SlaveHolds(q) \in Seq(Packets)
    BY <1>2, <2>1, JoinFacts DEF SlaveHolds
  <2>3. hostTx \o toSlave[q] \in Seq(Packets)
    BY <1>1, <2>1, JoinFacts
  <2> QED
    BY <2>1, <2>2, <2>3, JoinFacts DEF ToSlaveStages
<1>4. \A q \in Queues : LastOf(slaveGot[q]) \in Nat
  BY <1>1, LastFacts
<1> QED
  BY <1>1, <1>2, <1>3, <1>4

\* The packets move on and none is accepted or handed over.
LEMMA StillToSlave ==
  ASSUME ToSlaveOrder, \A q \in Queues : ToSlaveStages(q)' = ToSlaveStages(q),
         Sorted(toSlave)', Sorted(rxQueue)', UNCHANGED <<slaveGot, hostSent>>
  PROVE  ToSlaveOrder' /\ UNCHANGED ToSlaveLink!vars
<1>1. UNCHANGED ToSlaveLink!vars
  BY DEF ToSlaveLink!vars
<1> QED
  BY <1>1 DEF ToSlaveOrder

LEMMA SameToSlave ==
  ASSUME ToSlaveOrder,
         UNCHANGED <<toSlave, hostTx, received, rxHeld, rxQueue, slaveGot, hostSent>>
  PROVE  ToSlaveOrder' /\ UNCHANGED ToSlaveLink!vars
<1>1. \A q \in Queues : ToSlaveStages(q)' = ToSlaveStages(q)
  BY Zenon DEF ToSlaveStages, SlaveHolds
<1>2. Sorted(toSlave)' /\ Sorted(rxQueue)'
  BY Zenon DEF ToSlaveOrder, Sorted
<1> QED
  BY <1>1, <1>2, StillToSlave

LEMMA AcceptToSlave ==
  ASSUME IInv, ToSlaveOrder, NEW r \in Queues, HostQueue(r)
  PROVE  ToSlaveOrder' /\ ToSlaveLink!Next
<1> DEFINE p == Packet(IF r = "serial" THEN "serial" ELSE "sta", hostSent[r] + 1)
<1>1. /\ toSlave' = PutIn(toSlave, p) /\ hostSent' = [hostSent EXCEPT ![r] = @ + 1]
      /\ UNCHANGED <<hostTx, received, rxHeld, rxQueue, slaveGot>>
  BY DEF HostQueue, writeTask, recvHw, rxTask, slaveOut
<1>2. hostSent \in [Queues -> Nat] /\ hostSent[r] \in Nat
  BY ToSlaveTyped
<1>3. p \in Packets /\ QueueOf(p.if) = r /\ p.n = hostSent[r] + 1
  <2> DEFINE interface == IF r = "serial" THEN "serial" ELSE "sta"
  <2>1. interface \in Interfaces /\ QueueOf(interface) = r /\ hostSent[r] + 1 \in Nat
    BY <1>2 DEF Interfaces, QueueOf, Queues
  <2> HIDE DEF interface
  <2>2. Packet(interface, hostSent[r] + 1) \in Packets
    BY <2>1, PacketIsOne
  <2>3. p = Packet(interface, hostSent[r] + 1)
    BY DEF interface
  <2> HIDE DEF p
  <2> QED
    BY <2>1, <2>2, <2>3 DEF Packet
<1> HIDE DEF p
<1>4. /\ p.if \in Mine(r) /\ toSlave'[r] = Append(toSlave[r], p)
      /\ \A q \in Queues : q # r => toSlave'[q] = toSlave[q]
      /\ Sorted(toSlave')
  <2> DEFINE f == toSlave
  <2>1. f \in [Queues -> Seq(Packets)] /\ Sorted(f)
    BY ToSlaveTyped DEF ToSlaveOrder
  <2> HIDE DEF f
  <2>2. /\ p.if \in Mine(r) /\ PutIn(f, p)[r] = Append(f[r], p)
        /\ \A q \in Queues : q # r => PutIn(f, p)[q] = f[q]
        /\ Sorted(PutIn(f, p))
    BY <1>3, <2>1, PutEach
  <2> QED
    BY <1>1, <2>2 DEF f
<1>5. /\ hostSent'[r] = hostSent[r] + 1
      /\ \A q \in Queues : q # r => hostSent'[q] = hostSent[q]
  BY <1>1, <1>2
<1>6. SlaveHolds(r)' = SlaveHolds(r) /\ \A q \in Queues : SlaveHolds(q)' = SlaveHolds(q)
  BY <1>1 DEF SlaveHolds
<1>7. ToSlaveStages(r)' = Append(ToSlaveStages(r), p)
  <2> DEFINE f == toSlave[r] s == SlaveHolds(r)
  <2>1. /\ f \in Seq(Packets) /\ s \in Seq(Packets) /\ hostTx \in Seq(Packets)
        /\ hostTx \o f \in Seq(Packets)
    BY ToSlaveTyped
  <2>2. ToSlaveStages(r)' = s \o (hostTx \o Append(f, p)) /\ ToSlaveStages(r) = s \o (hostTx \o f)
    BY <1>1, <1>4, <1>6 DEF ToSlaveStages
  <2> HIDE DEF f, s
  <2>3. hostTx \o Append(f, p) = Append(hostTx \o f, p)
    BY <1>3, <2>1, JoinAppend
  <2>4. s \o Append(hostTx \o f, p) = Append(s \o (hostTx \o f), p)
    BY <1>3, <2>1, JoinAppend
  <2> QED
    BY <2>2, <2>3, <2>4
<1>8. InOrder(ToSlaveStages(r)', Mine(r), LastOf(slaveGot[r]), hostSent'[r])
  <2>1. /\ ToSlaveStages(r) \in Seq(Packets) /\ LastOf(slaveGot[r]) \in Nat
        /\ InOrder(ToSlaveStages(r), Mine(r), LastOf(slaveGot[r]), hostSent[r])
    BY ToSlaveTyped DEF ToSlaveOrder
  <2> QED
    BY <1>2, <1>3, <1>4, <1>5, <1>7, <2>1, LoadsNumbered, Accepted
<1>9. \A q \in Queues : q # r => ToSlaveStages(q)' = ToSlaveStages(q)
  BY <1>1, <1>4, <1>6 DEF ToSlaveStages
<1>10. ToSlaveOrder'
  BY <1>1, <1>4, <1>5, <1>8, <1>9 DEF ToSlaveOrder, Sorted
<1>11. ToSlaveLink!Next
  BY <1>1 DEF ToSlaveLink!Next, ToSlaveLink!Accept
<1> QED
  BY <1>10, <1>11

\* spi_hd_write_task takes the first packet of a queue.
LEMMA TakeToSlave ==
  ASSUME IInv, ToSlaveOrder, WriteTake
  PROVE  ToSlaveOrder' /\ UNCHANGED ToSlaveLink!vars
<1>1. Waiting(toSlave) > 0
  <2>1. /\ toSlaveSem > 0 /\ toSlaveSem \in Nat
        /\ Waiting(toSlave) = toSlaveSem + Uncounted(hostWriter)
    BY DEF WriteTake, IInv, SendersOK, ToSlaveCount
  <2> QED
    BY <2>1, UncountedNat
<1>2. PICK r \in Queues : toSlave[r] # << >> /\ r = FirstQueue(toSlave)
  BY <1>1, ToSlaveTyped, WaitingFacts
<1> DEFINE p == Head(toSlave[r])
<1>3. /\ hostTx' = <<p>> /\ toSlave' = [toSlave EXCEPT ![r] = Tail(@)] /\ hostTx = << >>
      /\ UNCHANGED <<hostSent, received, rxHeld, rxQueue, slaveGot>>
  BY <1>2 DEF WriteTake, IInv, WriteOK, recvHw, rxTask, slaveOut
<1>4. /\ p \in Packets /\ p.if \in Mine(r) /\ toSlave'[r] = Tail(toSlave[r])
      /\ \A q \in Queues : q # r => toSlave'[q] = toSlave[q] /\ p.if \notin Mine(q)
      /\ Sorted(toSlave')
  <2> DEFINE f == toSlave g == toSlave'
  <2>1. f \in [Queues -> Seq(Packets)] /\ Sorted(f) /\ f[r] # << >>
    BY <1>2, ToSlaveTyped DEF ToSlaveOrder
  <2>2. g[r] = Tail(f[r]) /\ \A q \in Queues : q # r => g[q] = f[q]
    BY <1>3, <2>1
  <2> HIDE DEF f, g
  <2>3. Head(f[r]).if \in Mine(r) /\ Sorted(g)
    BY <1>2, <2>1, <2>2, TakeEach
  <2>4. Head(f[r]) \in Packets
    <3>1. f[r] \in Seq(Packets) /\ f[r] # << >>
      BY <1>2, <2>1
    <3> QED
      BY <3>1, TailFacts
  <2>5. \A q \in Queues : q # r => Head(f[r]).if \notin Mine(q)
    BY <2>3, MineFacts
  <2> QED
    BY <2>2, <2>3, <2>4, <2>5 DEF f, g
<1> HIDE DEF p
<1>5. ASSUME NEW q \in Queues
      PROVE  InOrder(ToSlaveStages(q)', Mine(q), LastOf(slaveGot[q]), hostSent[q])
  <2> DEFINE f == toSlave[q] s == SlaveHolds(q)
  <2>1. /\ f \in Seq(Packets) /\ s \in Seq(Packets)
        /\ InOrder(s \o (hostTx \o f), Mine(q), LastOf(slaveGot[q]), hostSent[q])
    BY ToSlaveTyped DEF ToSlaveOrder, ToSlaveStages
  <2>2. ToSlaveStages(q)' = s \o (<<p>> \o toSlave'[q])
    BY <1>3 DEF ToSlaveStages, SlaveHolds
  <2>3. f # << >> => f = <<Head(f)>> \o Tail(f)
    <3> HIDE DEF f
    <3> QED
      BY <2>1, HeadMoves
  <2>4. hostTx \o f = f
    <3> HIDE DEF f
    <3> QED
      BY <1>3, <2>1, EmptyJoin
  <2>5. CASE q = r
    BY <1>2, <1>4, <2>1, <2>2, <2>3, <2>4, <2>5 DEF p
  <2>6. CASE q # r
    <3>1. toSlave'[q] = f /\ p.if \notin Mine(q)
      BY <1>4, <2>6
    <3>2. InOrder(s \o f, Mine(q), LastOf(slaveGot[q]), hostSent[q])
      BY <2>1, <2>4
    <3> HIDE DEF f, s
    <3>3. InOrder(s \o (<<p>> \o f), Mine(q), LastOf(slaveGot[q]), hostSent[q])
      BY <1>4, <2>1, <3>1, <3>2, ForeignInOrder
    <3> QED
      BY <2>2, <3>1, <3>3
  <2> QED
    BY <2>5, <2>6
<1> QED
  BY <1>3, <1>4, <1>5 DEF ToSlaveOrder, Sorted, ToSlaveLink!vars

\* The packet is dropped when no buffer is found, and given to the driver otherwise.
LEMMA WriteToSlave ==
  ASSUME IInv, ToSlaveOrder, FindBuffer \/ WriteDma
  PROVE  ToSlaveOrder' /\ UNCHANGED ToSlaveLink!vars
<1>1. CASE FindBuffer /\ hostTx' # hostTx
  <2>1. hostTx' = << >> /\ UNCHANGED <<toSlave, received, rxHeld, rxQueue, slaveGot, hostSent>>
    BY <1>1 DEF FindBuffer, senders, recvHw, rxTask, slaveOut
  <2>2. PICK p \in Packets : hostTx = <<p>>
    <3>1. hostTx # << >> /\ hostTx \in Seq(Packets) /\ Len(hostTx) <= 1
      BY <1>1, <2>1 DEF IInv, WriteOK
    <3>2. Len(hostTx) = 1 /\ hostTx[1] \in Packets
      BY <3>1, OnlyFacts
    <3> QED
      BY <3>1, <3>2
  <2>3. ASSUME NEW q \in Queues
        PROVE  InOrder(ToSlaveStages(q)', Mine(q), LastOf(slaveGot[q]), hostSent[q])
    <3> DEFINE f == toSlave[q] s == SlaveHolds(q)
    <3>1. /\ f \in Seq(Packets) /\ s \in Seq(Packets)
          /\ InOrder(s \o (<<p>> \o f), Mine(q), LastOf(slaveGot[q]), hostSent[q])
      BY <2>2, ToSlaveTyped DEF ToSlaveOrder, ToSlaveStages
    <3>2. ToSlaveStages(q)' = s \o (<< >> \o f)
      BY <2>1 DEF ToSlaveStages, SlaveHolds
    <3> HIDE DEF f, s
    <3>3. << >> \o f = f
      BY <3>1, EmptyJoin
    <3>4. InOrder(s \o f, Mine(q), LastOf(slaveGot[q]), hostSent[q])
      BY <2>2, <3>1, DroppedInOrder
    <3> QED
      BY <3>2, <3>3, <3>4
  <2> QED
    BY <2>1, <2>3 DEF ToSlaveOrder, Sorted, ToSlaveLink!vars
<1>2. CASE FindBuffer /\ hostTx' = hostTx
  BY <1>2, SameToSlave DEF FindBuffer, senders, recvHw, rxTask, slaveOut
<1>3. CASE WriteDma
  <2>1. /\ received' = received \o hostTx /\ hostTx' = << >>
        /\ UNCHANGED <<toSlave, rxHeld, rxQueue, slaveGot, hostSent>>
    BY <1>3 DEF WriteDma, senders, rxTask, slaveOut
  <2>2. ASSUME NEW q \in Queues PROVE ToSlaveStages(q)' = ToSlaveStages(q)
    <3> DEFINE f == toSlave[q] s == rxQueue[q] h == rxHeld \o received
    <3>1. /\ f \in Seq(Packets) /\ s \in Seq(Packets) /\ hostTx \in Seq(Packets)
          /\ rxHeld \in Seq(Packets) /\ received \in Seq(Packets) /\ h \in Seq(Packets)
          /\ s \o h \in Seq(Packets)
      BY ToSlaveTyped DEF SlaveHolds
    <3>2. /\ ToSlaveStages(q)' = (s \o (rxHeld \o (received \o hostTx))) \o (<< >> \o f)
          /\ ToSlaveStages(q) = (s \o h) \o (hostTx \o f)
      BY <2>1 DEF ToSlaveStages, SlaveHolds
    <3>3. h \o hostTx = rxHeld \o (received \o hostTx)
      BY <3>1
    <3> HIDE DEF f, s, h
    <3>4. (s \o h) \o hostTx = s \o (h \o hostTx)
      BY <3>1
    <3>5. ((s \o h) \o hostTx) \o f = (s \o h) \o (hostTx \o f)
      <4> DEFINE x == s \o h
      <4>1. x \in Seq(Packets)
        BY <3>1
      <4> HIDE DEF x
      <4>2. (x \o hostTx) \o f = x \o (hostTx \o f)
        BY <3>1, <4>1
      <4> QED
        BY <4>2 DEF x
    <3>6. << >> \o f = f
      BY <3>1, EmptyJoin
    <3> QED
      BY <3>2, <3>3, <3>4, <3>5, <3>6, Zenon
  <2>3. Sorted(toSlave)' /\ Sorted(rxQueue)'
    BY <2>1 DEF ToSlaveOrder, Sorted
  <2> QED
    BY <2>1, <2>2, <2>3, StillToSlave
<1> QED
  BY <1>1, <1>2, <1>3

\* spi_hd_rx_task.
LEMMA ReceiveToSlave ==
  ASSUME IInv, ToSlaveOrder, RxTake \/ RxPut
  PROVE  ToSlaveOrder' /\ UNCHANGED ToSlaveLink!vars
<1>1. CASE RxTake
  <2>1. /\ rxHeld = << >> /\ rxHeld' = <<Head(received)>> /\ received' = Tail(received)
        /\ received # << >> /\ UNCHANGED <<toSlave, hostTx, rxQueue, slaveGot, hostSent>>
    BY <1>1 DEF RxTake, IInv, RxOK, host, senders, writeTask, slaveOut
  <2>2. rxHeld' \o received' = rxHeld \o received
    BY <2>1, ToSlaveTyped, HeadMoves, EmptyJoin
  <2>3. \A q \in Queues : ToSlaveStages(q)' = ToSlaveStages(q)
    BY <2>1, <2>2, Zenon DEF ToSlaveStages, SlaveHolds
  <2>4. Sorted(toSlave)' /\ Sorted(rxQueue)'
    BY <2>1 DEF ToSlaveOrder, Sorted
  <2> QED
    BY <2>1, <2>3, <2>4, StillToSlave
<1>2. CASE RxPut
  <2>1. PICK p \in Packets : rxHeld = <<p>>
    <3>1. rxHeld # << >> /\ rxHeld \in Seq(Packets) /\ Len(rxHeld) <= 1
      BY <1>2 DEF RxPut, IInv, RxOK
    <3>2. Len(rxHeld) = 1 /\ rxHeld[1] \in Packets
      BY <3>1, OnlyFacts
    <3> QED
      BY <3>1, <3>2
  <2>2. /\ rxHeld' = << >> /\ rxQueue' = PutIn(rxQueue, p)
        /\ UNCHANGED <<toSlave, hostTx, received, slaveGot, hostSent>>
    BY <1>2, <2>1 DEF RxPut, host, senders, writeTask, recvHw
  <2>3. PICK r \in Queues :
           /\ p.if \in Mine(r) /\ rxQueue'[r] = Append(rxQueue[r], p)
           /\ \A q \in Queues : q # r => rxQueue'[q] = rxQueue[q] /\ p.if \notin Mine(q)
           /\ Sorted(rxQueue')
    <3> DEFINE f == rxQueue
    <3>1. f \in [Queues -> Seq(Packets)] /\ Sorted(f)
      BY ToSlaveTyped DEF ToSlaveOrder
    <3> HIDE DEF f
    <3>2. /\ QueueOf(p.if) \in Queues /\ p.if \in Mine(QueueOf(p.if))
          /\ PutIn(f, p)[QueueOf(p.if)] = Append(f[QueueOf(p.if)], p)
          /\ \A q \in Queues : q # QueueOf(p.if)
               => PutIn(f, p)[q] = f[q] /\ p.if \notin Mine(q)
          /\ Sorted(PutIn(f, p))
      BY <3>1, PutEach
    <3> QED
      BY <2>2, <3>2 DEF f
  <2>4. ASSUME NEW q \in Queues
        PROVE  InOrder(ToSlaveStages(q)', Mine(q), LastOf(slaveGot[q]), hostSent[q])
    <3> DEFINE s == rxQueue[q] t == hostTx \o toSlave[q] rest == received \o t
    <3>1. /\ s \in Seq(Packets) /\ t \in Seq(Packets) /\ received \in Seq(Packets)
          /\ rest \in Seq(Packets) /\ <<p>> \in Seq(Packets)
          /\ <<p>> \o received \in Seq(Packets)
          /\ << >> \o received = received
      <4>1. s \in Seq(Packets) /\ t \in Seq(Packets) /\ received \in Seq(Packets)
        BY ToSlaveTyped
      <4>2. <<p>> \in Seq(Packets)
        OBVIOUS
      <4> HIDE DEF t
      <4> QED
        BY <4>1, <4>2, JoinFacts, EmptyJoin
    <3>2. /\ InOrder((s \o (<<p>> \o received)) \o t, Mine(q), LastOf(slaveGot[q]),
                     hostSent[q])
          /\ ToSlaveStages(q)' = (rxQueue'[q] \o (<< >> \o received)) \o t
      BY <2>1, <2>2 DEF ToSlaveOrder, ToSlaveStages, SlaveHolds
    <3> HIDE DEF t
    <3>3. (s \o (<<p>> \o received)) \o t = s \o (<<p>> \o rest)
      <4> HIDE DEF s
      <4>1. (s \o (<<p>> \o received)) \o t = s \o ((<<p>> \o received) \o t)
        BY <3>1, JoinJoin
      <4>2. (<<p>> \o received) \o t = <<p>> \o rest
        BY <3>1, JoinJoin
      <4> QED
        BY <4>1, <4>2
    <3>4. CASE q = r
      <4>1. rxQueue'[q] = Append(s, p)
        BY <2>3, <3>4
      <4> HIDE DEF s, rest
      <4>2. Append(s, p) \o received = s \o (<<p>> \o received)
        BY <3>1, AppendJoin
      <4> QED
        BY <3>1, <3>2, <4>1, <4>2
    <3>5. CASE q # r
      <4>1. rxQueue'[q] = s /\ p.if \notin Mine(q)
        BY <2>3, <3>5
      <4>2. (s \o received) \o t = s \o rest
        <5> HIDE DEF s
        <5> QED
          BY <3>1, JoinJoin
      <4> HIDE DEF s, rest
      <4>3. InOrder(s \o rest, Mine(q), LastOf(slaveGot[q]), hostSent[q])
        BY <3>1, <3>2, <3>3, <4>1, ForeignInOrder
      <4> QED
        BY <3>1, <3>2, <4>1, <4>2, <4>3
    <3> QED
      BY <3>4, <3>5
  <2> QED
    BY <2>2, <2>3, <2>4 DEF ToSlaveOrder, Sorted, ToSlaveLink!vars
<1> QED
  BY <1>1, <1>2

\* recv_task reads the first packet of a queue.
LEMMA HandToSlave ==
  ASSUME IInv, ToSlaveOrder, SlaveRead
  PROVE  ToSlaveOrder' /\ ToSlaveLink!Next
<1>1. Waiting(rxQueue) > 0
  BY DEF IInv, RxQueueCount, SlaveOutOK, SlaveRead
<1>2. PICK r \in Queues : rxQueue[r] # << >> /\ r = FirstQueue(rxQueue)
  BY <1>1, ToSlaveTyped, WaitingFacts
<1> DEFINE p == Head(rxQueue[r])
<1>3. /\ rxQueue' = [rxQueue EXCEPT ![r] = Tail(@)]
      /\ slaveGot' = [slaveGot EXCEPT ![r] = Append(@, p.n)]
      /\ UNCHANGED <<toSlave, hostTx, received, rxHeld, hostSent>>
  BY <1>2 DEF SlaveRead, host, senders, writeTask, recvHw, rxTask
<1>4. /\ p.if \in Mine(r) /\ rxQueue'[r] = Tail(rxQueue[r])
      /\ \A q \in Queues : q # r => rxQueue'[q] = rxQueue[q]
      /\ Sorted(rxQueue')
  <2> DEFINE f == rxQueue g == rxQueue'
  <2>1. f \in [Queues -> Seq(Packets)] /\ Sorted(f) /\ f[r] # << >>
    BY <1>2, ToSlaveTyped DEF ToSlaveOrder
  <2>2. g[r] = Tail(f[r]) /\ \A q \in Queues : q # r => g[q] = f[q]
    BY <1>3, <2>1
  <2> HIDE DEF f, g
  <2>3. Head(f[r]).if \in Mine(r) /\ Sorted(g)
    BY <1>2, <2>1, <2>2, TakeEach
  <2> QED
    BY <2>2, <2>3 DEF f, g
<1> DEFINE s == rxQueue[r] h == rxHeld \o received t == hostTx \o toSlave[r] rest == h \o t
<1>5. /\ s \in Seq(Packets) /\ h \in Seq(Packets) /\ t \in Seq(Packets)
      /\ LastOf(slaveGot[r]) \in Nat /\ hostSent[r] \in Nat
      /\ s # << >> /\ Head(s).if \in Mine(r) /\ Head(s) = p
      /\ InOrder((s \o h) \o t, Mine(r), LastOf(slaveGot[r]), hostSent[r])
  BY <1>2, <1>4, ToSlaveTyped DEF ToSlaveOrder, ToSlaveStages, SlaveHolds
<1>6. \A q \in Queues : ToSlaveStages(q)' = (rxQueue'[q] \o h) \o (hostTx \o toSlave[q])
  BY <1>3 DEF ToSlaveStages, SlaveHolds
<1>7. /\ rest \in Seq(Packets) /\ (s \o h) \o t = s \o rest
      /\ Tail(s) \in Seq(Packets) /\ (Tail(s) \o h) \o t = Tail(s) \o rest
  <2> HIDE DEF s, h, t
  <2>1. rest \in Seq(Packets) /\ Tail(s) \in Seq(Packets)
    BY <1>5, JoinFacts, TailFacts
  <2>2. (s \o h) \o t = s \o rest
    BY <1>5
  <2>3. (Tail(s) \o h) \o t = Tail(s) \o rest
    BY <1>5, <2>1
  <2> QED
    BY <2>1, <2>2, <2>3
<1>8. /\ p.n \in (LastOf(slaveGot[r]) + 1)..hostSent[r]
      /\ InOrder(Tail(s) \o rest, Mine(r), p.n, hostSent[r])
  <2> HIDE DEF s, h, t, rest, p
  <2> QED
    BY <1>5, <1>7, LoadsNumbered, HandedOver
<1> HIDE DEF p
<1>9. /\ slaveGot'[r] = Append(slaveGot[r], p.n) /\ LastOf(slaveGot'[r]) = p.n
      /\ \A q \in Queues : q # r => slaveGot'[q] = slaveGot[q]
  <2>1. slaveGot \in [Queues -> Seq(Nat)] /\ p.n \in Nat
    BY <1>5, <1>8, ToSlaveTyped
  <2>2. /\ slaveGot'[r] = Append(slaveGot[r], p.n)
        /\ \A q \in Queues : q # r => slaveGot'[q] = slaveGot[q]
    BY <1>3, <2>1
  <2>3. slaveGot[r] \in Seq(Nat)
    BY <2>1
  <2> QED
    BY <2>1, <2>2, <2>3, LastFacts
<1>10. ToSlaveOrder'
  <2> SUFFICES ASSUME NEW q \in Queues
               PROVE  InOrder(ToSlaveStages(q)', Mine(q), LastOf(slaveGot'[q]), hostSent[q])
    BY <1>3, <1>4 DEF ToSlaveOrder, Sorted
  <2>1. CASE q = r
    <3>1. ToSlaveStages(q)' = Tail(s) \o rest
      BY <1>4, <1>6, <1>7, <2>1
    <3> QED
      BY <1>8, <1>9, <2>1, <3>1
  <2>2. CASE q # r
    BY <1>4, <1>6, <1>9, <2>2 DEF ToSlaveOrder, ToSlaveStages, SlaveHolds
  <2> QED
    BY <2>1, <2>2
<1>11. ToSlaveLink!Next
  <2>1. ToSlaveLink!Last(slaveGot[r]) = LastOf(slaveGot[r])
    BY DEF ToSlaveLink!Last, LastOf
  <2> QED
    BY <1>3, <1>8, <2>1 DEF ToSlaveLink!Next, ToSlaveLink!Deliver
<1> QED
  BY <1>10, <1>11

-----------------------------------------------------------------------------
LEMMA InitOrder ==
  Init => FromSlaveOrder /\ ToSlaveOrder /\ FromSlaveLink!Init /\ ToSlaveLink!Init
<1> SUFFICES ASSUME Init
             PROVE  FromSlaveOrder /\ ToSlaveOrder /\ FromSlaveLink!Init /\ ToSlaveLink!Init
  OBVIOUS
<1>1. FromSlaveLink!Init /\ ToSlaveLink!Init
  BY DEF Init, FromSlaveLink!Init, ToSlaveLink!Init
<1>2. /\ rxbuff = << >> /\ txLoaded = << >> /\ txQueue = << >> /\ hostTx = << >>
      /\ received = << >> /\ rxHeld = << >>
      /\ \A q \in Queues :
            /\ fromSlave[q] = << >> /\ toSlave[q] = << >> /\ rxQueue[q] = << >>
            /\ hostGot[q] = << >> /\ slaveGot[q] = << >>
            /\ hostSent[q] = 0 /\ slaveSent[q] = 0
  BY DEF Init
<1>3. << >> \o << >> = << >>
  <2>1. << >> \in Seq(Nat)
    OBVIOUS
  <2> QED
    BY <2>1, EmptyJoin
<1>4. \A q \in Queues : FromSlaveStages(q) = << >> /\ ToSlaveStages(q) = << >>
  BY <1>2, <1>3, Zenon DEF FromSlaveStages, ToHost, ToSlaveStages, SlaveHolds
<1>5. LastOf(<< >>) = 0
  BY DEF LastOf
<1>6. \A ifs : InOrder(<< >>, ifs, 0, 0) /\ Complete(<< >>, ifs, 0, 0)
  BY EmptyInOrder
<1>7. Sorted(fromSlave) /\ Sorted(toSlave) /\ Sorted(rxQueue)
  BY <1>2 DEF Sorted
<1>8. FromSlaveOrder
  BY <1>2, <1>4, <1>5, <1>6, <1>7 DEF FromSlaveOrder
<1>9. ToSlaveOrder
  BY <1>2, <1>4, <1>5, <1>6, <1>7 DEF ToSlaveOrder
<1> QED
  BY <1>1, <1>8, <1>9

LEMMA StepFromSlave ==
  ASSUME IInv, FromSlaveOrder, [Next]_vars
  PROVE  FromSlaveOrder' /\ [FromSlaveLink!Next]_FromSlaveLink!vars
<1> USE DEF host, senders, writeTask, readTask, hostOut, sendHw, recvHw, slaveIn, rxTask,
        slaveOut, flow
<1>1. CASE \E q \in Queues : HostQueue(q) \/ HostCount(q)
  BY <1>1, StillFromSlave DEF HostQueue, HostCount, ToHost
<1>2. CASE WriteTask
  BY <1>2, StillFromSlave DEF WriteTask, WriteTake, WriteLock, FindBuffer, WriteDma, ToHost
<1>3. CASE ReadTask
  <2>1. CASE OpenDataPath \/ ReadTake \/ ReadReg \/ SendCmd9
    BY <2>1, StillFromSlave DEF OpenDataPath, ReadTake, ReadReg, SendCmd9, ToHost
  <2>2. CASE ReadDma
    BY <2>2, MovesToHost, StillFromSlave DEF ReadDma
  <2> QED
    BY <1>3, <2>1, <2>2, PushFromSlave DEF ReadTask
<1>4. CASE ProcessRxTask
  <2>1. CASE StartWriteTask
    BY <2>1, StillFromSlave DEF StartWriteTask, ToHost
  <2> QED
    BY <1>4, <2>1, HandFromSlave DEF ProcessRxTask
<1>5. CASE LoadTx \/ LoadRx \/ TxDone
  <2>1. CASE LoadRx \/ TxDone
    BY <2>1, StillFromSlave DEF LoadRx, TxDone, ToHost
  <2>2. CASE LoadTx
    BY <2>2, MovesToHost, StillFromSlave DEF LoadTx
  <2> QED
    BY <1>5, <2>1, <2>2
<1>6. CASE \E interface \in {"serial", "sta"} : SlaveWrite(interface)
  BY <1>6, StillFromSlave DEF SlaveWrite, TakePlace, ToHost
<1>7. CASE SlaveStartup \/ (\E t \in Writers \ {"flow"} : SlaveQueue(t)) \/ FlowTask
  <2>1. CASE SlaveStartup \/ FlowTake \/ FlowWrite
    BY <2>1, StillFromSlave DEF SlaveStartup, FlowTake, FlowWrite, TakePlace, ToHost
  <2>2. ASSUME NEW t \in Writers, SlaveQueue(t)
        PROVE  FromSlaveOrder' /\ [FromSlaveLink!Next]_FromSlaveLink!vars
    <3>1. writer[t] # << >>
      BY <2>2 DEF SlaveQueue
    <3> QED
      BY <2>2, <3>1, QueueFromSlave
  <2>3. "reset" \in Writers /\ "flow" \in Writers
    BY DEF Writers
  <2> QED
    BY <1>7, <2>1, <2>2, <2>3 DEF FlowTask
<1>8. CASE RxTask
  BY <1>8, StillFromSlave DEF RxTask, SlaveOpen, RxTake, RxThrottle, RxFlow, RxPut, ToHost
<1>9. CASE RecvTask
  BY <1>9, StillFromSlave DEF RecvTask, SlaveRead, ReadThrottle, ReadFlow, ReadDone, ToHost
<1>10. CASE UNCHANGED vars
  BY <1>10, StillFromSlave DEF vars, ToHost
<1> QED
  BY <1>1, <1>2, <1>3, <1>4, <1>5, <1>6, <1>7, <1>8, <1>9, <1>10 DEF Next

LEMMA StepToSlave ==
  ASSUME IInv, ToSlaveOrder, [Next]_vars
  PROVE  ToSlaveOrder' /\ [ToSlaveLink!Next]_ToSlaveLink!vars
<1> USE DEF host, senders, writeTask, readTask, hostOut, sendHw, recvHw, slaveIn, rxTask,
        slaveOut, flow
<1>1. CASE \E q \in Queues : HostQueue(q) \/ HostCount(q)
  <2>1. CASE \E q \in Queues : HostCount(q)
    BY <2>1, SameToSlave DEF HostCount
  <2> QED
    BY <1>1, <2>1, AcceptToSlave
<1>2. CASE WriteTask
  <2>1. CASE WriteLock
    BY <2>1, SameToSlave DEF WriteLock
  <2> QED
    BY <1>2, <2>1, TakeToSlave, WriteToSlave DEF WriteTask
<1>3. CASE ReadTask
  BY <1>3, SameToSlave DEF ReadTask, OpenDataPath, ReadTake, ReadReg, SendCmd9, ReadDma,
     UpdateFlowCtrl, PushPacket
<1>4. CASE ProcessRxTask
  BY <1>4, SameToSlave DEF ProcessRxTask, HostRxTask, StartWriteTask
<1>5. CASE LoadTx \/ LoadRx \/ TxDone
  BY <1>5, SameToSlave DEF LoadTx, LoadRx, TxDone
<1>6. CASE \E interface \in {"serial", "sta"} : SlaveWrite(interface)
  BY <1>6, SameToSlave DEF SlaveWrite, TakePlace
<1>7. CASE SlaveStartup \/ (\E t \in Writers \ {"flow"} : SlaveQueue(t)) \/ FlowTask
  BY <1>7, SameToSlave DEF SlaveStartup, FlowTask, FlowTake, FlowWrite, TakePlace, SlaveQueue
<1>8. CASE RxTask
  <2>1. CASE SlaveOpen \/ RxThrottle \/ RxFlow
    BY <2>1, SameToSlave DEF SlaveOpen, RxThrottle, RxFlow
  <2> QED
    BY <1>8, <2>1, ReceiveToSlave DEF RxTask
<1>9. CASE RecvTask
  <2>1. CASE ReadThrottle \/ ReadFlow \/ ReadDone
    BY <2>1, SameToSlave DEF ReadThrottle, ReadFlow, ReadDone
  <2> QED
    BY <1>9, <2>1, HandToSlave DEF RecvTask
<1>10. CASE UNCHANGED vars
  BY <1>10, SameToSlave DEF vars
<1> QED
  BY <1>1, <1>2, <1>3, <1>4, <1>5, <1>6, <1>7, <1>8, <1>9, <1>10 DEF Next

\* The link implements OrderedLink in both directions: however the tasks of the two
\* sides and the driver interleave, the packets of a queue are handed over in the order
\* they were accepted, each at most once; towards the host none is lost (esp_hosted_tx
\* to recv_task, esp_spi_hd_write to spi_hd_process_rx_task).
THEOREM LinkOrderedHolds == Spec => LinkOrdered
<1>1. IInv /\ FromSlaveOrder /\ ToSlaveOrder /\ [Next]_vars
        => /\ FromSlaveOrder' /\ ToSlaveOrder'
           /\ [FromSlaveLink!Next]_FromSlaveLink!vars /\ [ToSlaveLink!Next]_ToSlaveLink!vars
  BY StepFromSlave, StepToSlave
<1> QED
  BY <1>1, InitOrder, Inductive, PTL DEF Spec, LinkOrdered, FromSlaveLink!Spec,
     ToSlaveLink!Spec
=============================================================================

---------------------------- MODULE UartLink_proofs ----------------------------
(* Theorems about UartLink.                                                 *)
EXTENDS UartLink, LinkLemmas

-----------------------------------------------------------------------------
(* The inductive invariant: the type invariant by owner of the variables,   *)
(* what the semaphores count, and what a reader holds.                      *)

Pieces == [packet : Packets, part : 0..PayloadUnits]

SendersOK ==
    /\ hostSent \in [Queues -> Nat] /\ hostWriter \in [Queues -> {"idle", "count"}]
    /\ toSlave \in [Queues -> Seq(Packets)] /\ toSlaveSem \in Nat
    /\ \A q \in Queues : Len(toSlave[q]) <= ToSlaveSize

WriteOK ==
    /\ writeStarted \in BOOLEAN /\ txNeeded \in BOOLEAN
    /\ hostTx \in Seq(Packets) /\ Len(hostTx) <= 1

OutOK ==
    /\ fromSlave \in [Queues -> Seq(Packets)] /\ fromSlaveSem \in Nat
    /\ \A q \in Queues : Len(fromSlave[q]) <= FromSlaveSize
    /\ up \in BOOLEAN /\ rxStarting \in BOOLEAN /\ hostGot \in [Queues -> Seq(Nat)]

WiresOK ==
    /\ line \in [Sides -> Seq(Pieces)] /\ ring \in [Sides -> Seq(Pieces)]
    /\ \A s \in Sides : Len(line[s]) <= DriverBuffer /\ Len(ring[s]) <= DriverBuffer
    /\ torn \in [Sides -> BOOLEAN]

\* A reader holds nothing between two packets, and only a whole packet is put into a
\* queue.
ReadersOK ==
    /\ readPc \in [Sides -> {"open", "header", "payload", "put"}] /\ readPc["host"] # "open"
    /\ frame \in [Sides -> Seq(Pieces)] /\ missing \in [Sides -> 0..DriverBuffer]
    /\ \A s \in Sides :
          /\ readPc[s] \in {"open", "header"} => frame[s] = << >>
          /\ readPc[s] = "put" => IsPacket(frame[s])

InOK ==
    /\ opened \in BOOLEAN /\ hostResetSem \in BOOLEAN
    /\ slaveSent \in [Queues -> Nat] /\ draining \subseteq Writers

SlaveOutOK ==
    /\ rxQueue \in [Queues -> Seq(Packets)] /\ rxSem \in Nat
    /\ \A q \in Queues : Len(rxQueue[q]) <= RxQueueSize
    /\ readerPc \in {"read", "handle"} /\ slaveGot \in [Queues -> Seq(Nat)]

FromSlaveCount == Waiting(fromSlave) = fromSlaveSem
RxQueueCount == Waiting(rxQueue) = rxSem

IInv ==
    /\ SendersOK /\ WriteOK /\ OutOK /\ WiresOK /\ ReadersOK /\ InOK /\ SlaveOutOK
    /\ FromSlaveCount /\ RxQueueCount

LEMMA Sizes ==
  /\ PayloadUnits \in Nat /\ PayloadUnits > 0 /\ ToSlaveSize \in Nat
  /\ FromSlaveSize \in Nat /\ RxQueueSize \in Nat
  /\ DriverBuffer \in Nat /\ PayloadUnits < DriverBuffer /\ Leftover \in 0..DriverBuffer
<1>1. /\ PayloadUnits \in Nat \ {0} /\ ToSlaveSize \in Nat \ {0}
      /\ FromSlaveSize \in Nat \ {0} /\ RxQueueSize \in Nat \ {0}
  BY SizesAssumption
<1> QED
  BY <1>1, SizesAssumption

-----------------------------------------------------------------------------
(* Packets, queues and counts.                                              *)

LEMMA QueueOfInQueues == ASSUME NEW i PROVE QueueOf(i) \in Queues
  BY DEF QueueOf, Queues

LEMMA PacketIsOne ==
  ASSUME NEW i \in {"serial", "sta", "priv"}, NEW n \in Nat
  PROVE  Packet(i, n) \in Packets /\ Packet(i, n).if = i /\ Packet(i, n).n = n
  BY DEF Packet, Packets

LEMMA WaitingFacts ==
  ASSUME NEW f \in [Queues -> Seq(Packets)]
  PROVE  /\ Waiting(f) \in Nat
         /\ \A q \in Queues : Len(f[q]) \in Nat /\ Len(f[q]) <= Waiting(f)
         /\ Waiting(f) > 0 => FirstQueue(f) \in Queues /\ f[FirstQueue(f)] # << >>
<1>1. Queues = Lanes /\ Waiting(f) = Total(f)
  BY Zenon DEF Queues, Lanes, Waiting, Total
<1>2. /\ Total(f) \in Nat
      /\ \A q \in Lanes : Len(f[q]) \in Nat /\ Len(f[q]) <= Total(f)
      /\ Total(f) > 0 => f["serial"] # << >> \/ f["others"] # << >>
  BY <1>1, TotalFacts
<1>3. /\ FirstQueue(f) \in Queues
      /\ f["serial"] # << >> \/ f["others"] # << >> => f[FirstQueue(f)] # << >>
  BY Zenon DEF FirstQueue, Queues
<1> QED
  BY <1>1, <1>2, <1>3, Zenon

LEMMA PutFacts ==
  ASSUME NEW f \in [Queues -> Seq(Packets)], NEW p \in Packets
  PROVE  /\ PutIn(f, p) \in [Queues -> Seq(Packets)]
         /\ Waiting(PutIn(f, p)) = Waiting(f) + 1
         /\ \A size \in Nat :
              Len(f[QueueOf(p.if)]) < size /\ (\A r \in Queues : Len(f[r]) <= size)
                => \A r \in Queues : Len(PutIn(f, p)[r]) <= size
<1> DEFINE q == QueueOf(p.if)
           g == [f EXCEPT ![q] = Append(f[q], p)]
<1>1. q \in Queues /\ g = PutIn(f, p)
  BY QueueOfInQueues DEF PutIn
<1>2. Queues = Lanes /\ Waiting(f) = Total(f) /\ Waiting(g) = Total(g)
  BY Zenon DEF Queues, Lanes, Waiting, Total
<1> HIDE DEF q
<1>3. /\ g \in [Lanes -> Seq(Packets)] /\ Total(g) = Total(f) + 1
      /\ \A size \in Nat :
           Len(f[q]) < size /\ (\A r \in Lanes : Len(f[r]) <= size)
             => \A r \in Lanes : Len(g[r]) <= size
  <2>1. f \in [Lanes -> Seq(Packets)] /\ q \in Lanes
    BY <1>1, <1>2
  <2> QED
    BY <2>1, PutTotal
<1> HIDE DEF g
<1> QED
  BY <1>1, <1>2, <1>3, Zenon DEF q

\* Who has counted a packet finds one in the queue it looks at.
LEMMA TakeFacts ==
  ASSUME NEW f \in [Queues -> Seq(Packets)], Waiting(f) > 0, NEW g,
         g = [f EXCEPT ![FirstQueue(f)] = Tail(@)]
  PROVE  /\ FirstQueue(f) \in Queues /\ Head(f[FirstQueue(f)]) \in Packets
         /\ g \in [Queues -> Seq(Packets)]
         /\ Waiting(g) = Waiting(f) - 1
         /\ \A r \in Queues : /\ Len(f[r]) \in Nat /\ Len(g[r]) \in Nat
                              /\ Len(g[r]) <= Len(f[r])
<1> DEFINE q == FirstQueue(f)
<1>1. q \in Queues /\ f[q] # << >>
  BY WaitingFacts
<1>2. Queues = Lanes /\ Waiting(f) = Total(f) /\ Waiting(g) = Total(g)
  BY Zenon DEF Queues, Lanes, Waiting, Total
<1>3. g = [f EXCEPT ![q] = Tail(f[q])]
  OBVIOUS
<1> HIDE DEF q
<1>4. /\ Head(f[q]) \in Packets /\ g \in [Lanes -> Seq(Packets)]
      /\ Total(g) = Total(f) - 1 /\ \A r \in Lanes : Len(g[r]) <= Len(f[r])
  <2> DEFINE h == [f EXCEPT ![q] = Tail(f[q])]
  <2>1. f \in [Lanes -> Seq(Packets)] /\ q \in Lanes /\ f[q] # << >>
    BY <1>1, <1>2
  <2>2. /\ Head(f[q]) \in Packets /\ h \in [Lanes -> Seq(Packets)]
        /\ Total(h) = Total(f) - 1 /\ \A r \in Lanes : Len(h[r]) <= Len(f[r])
    BY <2>1, TakeTotal
  <2> HIDE DEF h
  <2>3. g = h
    BY <1>3 DEF h
  <2> QED
    BY <2>2, <2>3
<1>5. \A r \in Queues : Len(f[r]) \in Nat /\ Len(g[r]) \in Nat
  BY <1>2, <1>4, TotalFacts
<1> QED
  BY <1>1, <1>2, <1>4, <1>5, Zenon DEF q

LEMMA TakeBounded ==
  ASSUME NEW f \in [Queues -> Seq(Packets)], Waiting(f) > 0, NEW g,
         g = [f EXCEPT ![FirstQueue(f)] = Tail(@)],
         NEW size \in Nat, \A r \in Queues : Len(f[r]) <= size
  PROVE  \A r \in Queues : Len(g[r]) <= size
<1>1. \A r \in Queues : /\ Len(f[r]) \in Nat /\ Len(g[r]) \in Nat
                        /\ Len(g[r]) <= Len(f[r])
  BY TakeFacts
<1> QED
  BY <1>1

\* What a queue hands over is added to the numbers its receiver got.
LEMMA GotFacts ==
  ASSUME NEW g \in [Queues -> Seq(Nat)], NEW q \in Queues, NEW p \in Packets
  PROVE  [g EXCEPT ![q] = Append(@, p.n)] \in [Queues -> Seq(Nat)]
<1>1. p.n \in Nat
  BY DEF Packets
<1>2. Append(g[q], p.n) \in Seq(Nat)
  BY <1>1, AppendFacts
<1> QED
  BY <1>2

LEMMA UnitsFacts ==
  ASSUME NEW p
  PROVE  /\ Len(Units(p)) = 1 + PayloadUnits
         /\ \A i \in 1..(1 + PayloadUnits) :
               Units(p)[i] = [packet |-> p, part |-> i - 1]
         /\ p \in Packets => Units(p) \in Seq(Pieces)
<1>1. 1 + PayloadUnits \in Nat
  BY Sizes
<1>2. /\ DOMAIN Units(p) = 1..(1 + PayloadUnits)
      /\ \A i \in 1..(1 + PayloadUnits) : Units(p)[i] = [packet |-> p, part |-> i - 1]
  BY DEF Units
<1>3. ASSUME p \in Packets PROVE Units(p) \in Seq(Pieces)
  <2>1. \A i \in 1..(1 + PayloadUnits) : [packet |-> p, part |-> i - 1] \in Pieces
    BY <1>3, Sizes DEF Pieces
  <2>2. Units(p) \in [1..(1 + PayloadUnits) -> Pieces]
    BY <2>1 DEF Units
  <2> QED
    BY <1>1, <2>2
<1>4. Len(Units(p)) = 1 + PayloadUnits
  <2>1. Units(p) \in [1..(1 + PayloadUnits) -> {[packet |-> p, part |-> i] : i \in Int}]
    BY Sizes DEF Units
  <2>2. Units(p) \in Seq({[packet |-> p, part |-> i] : i \in Int})
    BY <1>1, <2>1
  <2> QED
    BY <1>1, <1>2, <2>2
<1> QED
  BY <1>2, <1>3, <1>4

\* What has passed the check is a packet, its first unit the header.
LEMMA CheckedFacts ==
  ASSUME NEW f \in Seq(Pieces), IsPacket(f)
  PROVE  /\ f # << >> /\ f[1].packet \in Packets /\ f[1].part = 0
         /\ f = Units(f[1].packet) /\ Len(f) = 1 + PayloadUnits
<1>1. f # << >> /\ f = Units(f[1].packet)
  BY DEF IsPacket
<1>2. Len(f) = 1 + PayloadUnits
  BY <1>1, UnitsFacts, Zenon
<1>3. 1 \in 1..Len(f)
  BY <1>2, Sizes
<1>4. f[1] \in Pieces
  BY <1>3
<1>5. f[1].part = 0
  <2> DEFINE p == f[1].packet
  <2>1. Units(p)[1] = [packet |-> p, part |-> 1 - 1]
    BY <1>2, <1>3, UnitsFacts
  <2>2. f[1] = Units(p)[1]
    BY <1>1
  <2> HIDE DEF p
  <2> QED
    BY <2>1, <2>2
<1> QED
  BY <1>1, <1>2, <1>4, <1>5 DEF Pieces

(* What a step leaves alone keeps each part.                                *)

LEMMA Frames ==
  /\ SendersOK /\ UNCHANGED senders => SendersOK'
  /\ WriteOK /\ UNCHANGED writeTask => WriteOK'
  /\ OutOK /\ UNCHANGED hostOut => OutOK'
  /\ WiresOK /\ UNCHANGED wires => WiresOK'
  /\ ReadersOK /\ UNCHANGED readers => ReadersOK'
  /\ InOK /\ UNCHANGED slaveIn => InOK'
  /\ SlaveOutOK /\ UNCHANGED slaveOut => SlaveOutOK'
  /\ FromSlaveCount /\ UNCHANGED <<fromSlave, fromSlaveSem>> => FromSlaveCount'
  /\ RxQueueCount /\ UNCHANGED <<rxQueue, rxSem>> => RxQueueCount'
<1>1. SendersOK /\ UNCHANGED senders => SendersOK'
  BY Zenon DEF SendersOK, senders
<1>2. WriteOK /\ UNCHANGED writeTask => WriteOK'
  BY Zenon DEF WriteOK, writeTask
<1>3. OutOK /\ UNCHANGED hostOut => OutOK'
  BY Zenon DEF OutOK, hostOut
<1>4. WiresOK /\ UNCHANGED wires => WiresOK'
  BY Zenon DEF WiresOK, wires
<1>5. ReadersOK /\ UNCHANGED readers => ReadersOK'
  BY Zenon DEF ReadersOK, readers
<1>6. InOK /\ UNCHANGED slaveIn => InOK'
  BY Zenon DEF InOK, slaveIn
<1>7. SlaveOutOK /\ UNCHANGED slaveOut => SlaveOutOK'
  BY Zenon DEF SlaveOutOK, slaveOut
<1>8. FromSlaveCount /\ UNCHANGED <<fromSlave, fromSlaveSem>> => FromSlaveCount'
  BY Zenon DEF FromSlaveCount, Waiting
<1>9. RxQueueCount /\ UNCHANGED <<rxQueue, rxSem>> => RxQueueCount'
  BY Zenon DEF RxQueueCount, Waiting
<1> QED
  BY <1>1, <1>2, <1>3, <1>4, <1>5, <1>6, <1>7, <1>8, <1>9, Zenon

\* The driver takes a packet when it has room for all of it.
LEMMA SendTyped ==
  ASSUME WiresOK, NEW s \in Sides, NEW p \in Packets, HasRoom(s), Send(s, p),
         UNCHANGED <<ring, torn>>
  PROVE  WiresOK'
<1> DEFINE u == Units(p)
<1>1. u \in Seq(Pieces) /\ Len(u) = 1 + PayloadUnits
  BY UnitsFacts
<1>2. line[s] \in Seq(Pieces) /\ line' = [line EXCEPT ![s] = line[s] \o u]
  BY DEF WiresOK, Send
<1>3. Len(line[s]) + 1 + PayloadUnits <= DriverBuffer
  BY DEF HasRoom
<1> HIDE DEF u
<1>4. line[s] \o u \in Seq(Pieces) /\ Len(line[s] \o u) = Len(line[s]) + Len(u)
  BY <1>1, <1>2, JoinFacts
<1>5. Len(line[s] \o u) <= DriverBuffer
  <2> DEFINE k == Len(line[s])
  <2>1. k \in Nat /\ k + 1 + PayloadUnits <= DriverBuffer
    BY <1>2, <1>3, EmptyFacts
  <2>2. Len(line[s] \o u) = k + (1 + PayloadUnits)
    BY <1>1, <1>4
  <2> HIDE DEF k
  <2>3. k + (1 + PayloadUnits) <= DriverBuffer
    BY <2>1, Sizes
  <2> QED
    BY <2>2, <2>3
<1>6. line' \in [Sides -> Seq(Pieces)] /\ \A r \in Sides : Len(line'[r]) <= DriverBuffer
  BY <1>2, <1>4, <1>5 DEF WiresOK
<1> QED
  BY <1>6 DEF WiresOK

-----------------------------------------------------------------------------
(* The host's senders and its write task.                                   *)

LEMMA HostSenderIInv ==
  ASSUME IInv, NEW q \in Queues, HostQueue(q) \/ HostCount(q)
  PROVE  IInv'
<1>1. /\ WriteOK' /\ OutOK' /\ WiresOK' /\ ReadersOK' /\ InOK' /\ SlaveOutOK'
      /\ FromSlaveCount' /\ RxQueueCount'
  BY Frames DEF IInv, HostQueue, HostCount, hostOut, slaveOut
<1>2. CASE HostQueue(q)
  <2> DEFINE interface == IF q = "serial" THEN "serial" ELSE "sta"
             p == Packet(interface, hostSent[q] + 1)
  <2>1. /\ hostSent[q] + 1 \in Nat /\ interface \in {"serial", "sta", "priv"}
        /\ QueueOf(interface) = q
    BY DEF IInv, SendersOK, QueueOf, Queues
  <2>2. /\ toSlave' = PutIn(toSlave, p) /\ Len(toSlave[q]) < ToSlaveSize
        /\ toSlaveSem' = toSlaveSem
        /\ hostSent' = [hostSent EXCEPT ![q] = @ + 1]
        /\ hostWriter' = [hostWriter EXCEPT ![q] = "count"]
    BY <1>2 DEF HostQueue
  <2> HIDE DEF interface
  <2>3. p \in Packets /\ QueueOf(p.if) = q
    BY <2>1, PacketIsOne
  <2> HIDE DEF p
  <2>4. /\ toSlave' \in [Queues -> Seq(Packets)]
        /\ \A r \in Queues : Len(toSlave'[r]) <= ToSlaveSize
    BY <2>2, <2>3, PutFacts, Sizes DEF IInv, SendersOK
  <2>5. SendersOK'
    BY <2>1, <2>2, <2>4 DEF IInv, SendersOK
  <2> QED
    BY <1>1, <2>5 DEF IInv
<1>3. CASE HostCount(q)
  <2>1. SendersOK'
    BY <1>3 DEF HostCount, IInv, SendersOK
  <2> QED
    BY <1>1, <2>1 DEF IInv
<1> QED
  BY <1>2, <1>3

LEMMA WriteTaskIInv ==
  ASSUME IInv, WriteTake \/ WritePacket
  PROVE  IInv'
<1>1. /\ OutOK' /\ ReadersOK' /\ InOK' /\ SlaveOutOK' /\ FromSlaveCount' /\ RxQueueCount'
  BY Frames DEF IInv, WriteTake, WritePacket, hostOut, slaveOut
<1>2. CASE WriteTake
  <2>1. WiresOK'
    BY <1>2, Frames DEF IInv, WriteTake
  <2>2. toSlaveSem' \in Nat /\ UNCHANGED <<hostSent, hostWriter, writeStarted>>
    BY <1>2 DEF WriteTake, IInv, SendersOK
  <2>3. CASE Waiting(toSlave) = 0
    <3>1. toSlave' = toSlave /\ hostTx' = hostTx /\ txNeeded' = FALSE
      BY <1>2, <2>3 DEF WriteTake
    <3>2. SendersOK' /\ WriteOK'
      BY <2>2, <3>1 DEF IInv, SendersOK, WriteOK
    <3> QED
      BY <1>1, <2>1, <3>2 DEF IInv
  <2>4. CASE Waiting(toSlave) # 0
    <3> DEFINE q == FirstQueue(toSlave)
    <3>1. toSlave \in [Queues -> Seq(Packets)] /\ Waiting(toSlave) > 0
      <4>1. toSlave \in [Queues -> Seq(Packets)]
        BY DEF IInv, SendersOK
      <4> QED
        BY <2>4, <4>1, WaitingFacts
    <3>2. /\ toSlave' = [toSlave EXCEPT ![FirstQueue(toSlave)] = Tail(@)]
          /\ hostTx' = <<Head(toSlave[q])>> \/ hostTx' = << >>
          /\ txNeeded' = txNeeded
      BY <1>2, <2>4 DEF WriteTake
    <3>3. toSlave' \in [Queues -> Seq(Packets)] /\ Head(toSlave[q]) \in Packets
      BY <3>1, <3>2, TakeFacts
    <3>4. \A r \in Queues : Len(toSlave'[r]) <= ToSlaveSize
      <4>1. ToSlaveSize \in Nat /\ \A r \in Queues : Len(toSlave[r]) <= ToSlaveSize
        BY Sizes DEF IInv, SendersOK
      <4> QED
        BY <3>1, <3>2, <4>1, TakeBounded
    <3>5. SendersOK'
      BY <2>2, <3>3, <3>4 DEF IInv, SendersOK
    <3>6. hostTx' \in Seq(Packets) /\ Len(hostTx') <= 1
      <4>1. << >> \in Seq(Packets) /\ Len(<< >>) <= 1
        OBVIOUS
      <4>2. <<Head(toSlave[q])>> \in Seq(Packets) /\ Len(<<Head(toSlave[q])>>) = 1
        BY <3>3, OneFacts
      <4> HIDE DEF q
      <4>3. CASE hostTx' = <<Head(toSlave[q])>>
        BY <4>2, <4>3
      <4>4. CASE hostTx' = << >>
        BY <4>1, <4>4
      <4> QED
        BY <3>2, <4>3, <4>4, Zenon
    <3>7. WriteOK'
      BY <2>2, <3>2, <3>6 DEF IInv, WriteOK
    <3> QED
      BY <1>1, <2>1, <3>5, <3>7 DEF IInv
  <2> QED
    BY <2>3, <2>4
<1>3. CASE WritePacket
  <2>1. SendersOK'
    BY <1>3, Frames DEF IInv, WritePacket
  <2>2. hostTx # << >> /\ hostTx' = << >> /\ UNCHANGED <<writeStarted, txNeeded, ring, torn>>
    BY <1>3 DEF WritePacket
  <2>3. WriteOK'
    BY <2>2 DEF IInv, WriteOK
  <2>4. WiresOK'
    <3>1. hostTx[1] \in Packets
      BY <2>2, OnlyFacts DEF IInv, WriteOK
    <3>2. "slave" \in Sides /\ HasRoom("slave") /\ Send("slave", hostTx[1])
      BY <1>3 DEF WritePacket, Sides
    <3> QED
      BY <2>2, <3>1, <3>2, SendTyped DEF IInv
  <2> QED
    BY <1>1, <2>1, <2>3, <2>4 DEF IInv
<1> QED
  BY <1>2, <1>3

-----------------------------------------------------------------------------
(* The wires and the readers.                                               *)

LEMMA ArriveIInv ==
  ASSUME IInv, NEW s \in Sides, Arrive(s)
  PROVE  IInv'
<1>1. /\ SendersOK' /\ WriteOK' /\ OutOK' /\ ReadersOK' /\ InOK' /\ SlaveOutOK'
      /\ FromSlaveCount' /\ RxQueueCount'
  BY Frames DEF IInv, Arrive, hostOut, slaveOut
<1>2. /\ line[s] \in Seq(Pieces) /\ ring[s] \in Seq(Pieces) /\ line[s] # << >>
      /\ Len(line[s]) <= DriverBuffer /\ Len(ring[s]) <= DriverBuffer
  BY DEF IInv, WiresOK, Arrive
<1>3. /\ Head(line[s]) \in Pieces /\ Tail(line[s]) \in Seq(Pieces)
      /\ Len(Tail(line[s])) <= DriverBuffer
  <2>1. Len(Tail(line[s])) = Len(line[s]) - 1 /\ Len(line[s]) \in Nat
    BY <1>2, TailFacts, EmptyFacts
  <2> QED
    BY <1>2, <2>1, TailFacts, Sizes
<1>4. line' \in [Sides -> Seq(Pieces)] /\ \A r \in Sides : Len(line'[r]) <= DriverBuffer
  BY <1>3 DEF IInv, WiresOK, Arrive
<1>5. CASE Len(ring[s]) < DriverBuffer
  <2>1. /\ Append(ring[s], Head(line[s])) \in Seq(Pieces)
        /\ Len(Append(ring[s], Head(line[s]))) <= DriverBuffer
    BY <1>2, <1>3, <1>5, AppendFacts, Sizes
  <2>2. ring' = [ring EXCEPT ![s] = Append(ring[s], Head(line[s]))] /\ torn' = torn
    BY <1>5 DEF Arrive
  <2>3. ring' \in [Sides -> Seq(Pieces)] /\ \A r \in Sides : Len(ring'[r]) <= DriverBuffer
    BY <2>1, <2>2 DEF IInv, WiresOK
  <2>4. WiresOK'
    BY <1>4, <2>2, <2>3 DEF IInv, WiresOK
  <2> QED
    BY <1>1, <2>4 DEF IInv
<1>6. CASE ~(Len(ring[s]) < DriverBuffer)
  <2>1. torn' = [torn EXCEPT ![s] = TRUE] /\ ring' = ring
    BY <1>6 DEF Arrive
  <2>2. torn' \in [Sides -> BOOLEAN]
    BY <2>1 DEF IInv, WiresOK
  <2>3. WiresOK'
    BY <1>4, <2>1, <2>2 DEF IInv, WiresOK
  <2> QED
    BY <1>1, <2>3 DEF IInv
<1> QED
  BY <1>5, <1>6

\* The first unit leaves the driver's buffer.
LEMMA RingTail ==
  ASSUME WiresOK, NEW s \in Sides, ring[s] # << >>,
         ring' = [ring EXCEPT ![s] = Tail(@)], UNCHANGED <<line, torn>>
  PROVE  WiresOK' /\ Head(ring[s]) \in Pieces
<1>1. ring[s] \in Seq(Pieces) /\ Len(ring[s]) <= DriverBuffer
  BY DEF WiresOK
<1>2. /\ Head(ring[s]) \in Pieces /\ Tail(ring[s]) \in Seq(Pieces)
      /\ Len(Tail(ring[s])) <= DriverBuffer
  <2>1. Len(Tail(ring[s])) = Len(ring[s]) - 1 /\ Len(ring[s]) \in Nat
    BY <1>1, TailFacts, EmptyFacts
  <2> QED
    BY <1>1, <2>1, TailFacts, Sizes
<1>3. ring' \in [Sides -> Seq(Pieces)] /\ \A r \in Sides : Len(ring'[r]) <= DriverBuffer
  BY <1>2 DEF WiresOK
<1> QED
  BY <1>2, <1>3 DEF WiresOK

\* A reader goes on to pc and holds f, with m units still to come.
LEMMA ReaderMoves ==
  ASSUME ReadersOK, NEW s \in Sides, NEW pc \in {"header", "payload", "put"},
         NEW f \in Seq(Pieces), NEW m \in 0..DriverBuffer,
         pc = "header" => f = << >>, pc = "put" => IsPacket(f),
         readPc' = [readPc EXCEPT ![s] = pc], frame' = [frame EXCEPT ![s] = f],
         missing' = [missing EXCEPT ![s] = m]
  PROVE  ReadersOK'
<1>1. /\ readPc \in [Sides -> {"open", "header", "payload", "put"}] /\ readPc["host"] # "open"
      /\ frame \in [Sides -> Seq(Pieces)] /\ missing \in [Sides -> 0..DriverBuffer]
      /\ \A r \in Sides :
            /\ readPc[r] \in {"open", "header"} => frame[r] = << >>
            /\ readPc[r] = "put" => IsPacket(frame[r])
  BY Zenon DEF ReadersOK
<1>2. /\ readPc' \in [Sides -> {"open", "header", "payload", "put"}]
      /\ frame' \in [Sides -> Seq(Pieces)] /\ missing' \in [Sides -> 0..DriverBuffer]
  BY <1>1
<1>3. readPc'["host"] # "open"
  BY <1>1
<1>4. ASSUME NEW r \in Sides
      PROVE  /\ readPc'[r] \in {"open", "header"} => frame'[r] = << >>
             /\ readPc'[r] = "put" => IsPacket(frame'[r])
  <2>1. CASE r = s
    <3>1. readPc'[r] = pc /\ frame'[r] = f
      BY <1>1, <2>1
    <3> QED
      BY <3>1
  <2>2. CASE r # s
    <3>1. readPc'[r] = readPc[r] /\ frame'[r] = frame[r]
      BY <1>1, <2>2
    <3> QED
      BY <1>1, <3>1, Zenon
  <2> QED
    BY <2>1, <2>2
<1> QED
  BY <1>2, <1>3, <1>4, Zenon DEF ReadersOK

LEMMA ReaderIInv ==
  ASSUME IInv, NEW s \in Sides, Reader(s)
  PROVE  IInv'
<1>1. /\ SendersOK' /\ WriteOK' /\ OutOK' /\ InOK' /\ SlaveOutOK'
      /\ FromSlaveCount' /\ RxQueueCount'
  BY Frames DEF IInv, Reader, ReadHeader, ReadPayload, CheckPacket, hostOut, slaveOut
<1>2. CASE ReadHeader(s)
  <2>1. WiresOK' /\ Head(ring[s]) \in Pieces
    BY <1>2, RingTail DEF IInv, ReadHeader
  <2>2. PICK n \in Lengths(Head(ring[s])) :
           IF n < DriverBuffer
             THEN /\ frame' = [frame EXCEPT ![s] = <<Head(ring[s])>>]
                  /\ missing' = [missing EXCEPT ![s] = n]
                  /\ readPc' = [readPc EXCEPT ![s] = "payload"]
             ELSE UNCHANGED <<frame, missing, readPc>>
    BY <1>2 DEF ReadHeader
  <2>3. n \in 0..DriverBuffer
    BY Sizes DEF Lengths
  <2>4. <<Head(ring[s])>> \in Seq(Pieces)
    BY <2>1, OneFacts
  <2>5. ReadersOK'
    <3>1. CASE n < DriverBuffer
      <4>1. "payload" \in {"header", "payload", "put"} /\ ReadersOK
        BY DEF IInv
      <4> DEFINE f == <<Head(ring[s])>>
      <4>2. /\ frame' = [frame EXCEPT ![s] = f] /\ missing' = [missing EXCEPT ![s] = n]
            /\ readPc' = [readPc EXCEPT ![s] = "payload"]
        BY <2>2, <3>1
      <4> HIDE DEF f
      <4>3. f \in Seq(Pieces)
        BY <2>4 DEF f
      <4> QED
        BY <2>3, <4>1, <4>2, <4>3, ReaderMoves
    <3>2. CASE ~(n < DriverBuffer)
      <4>1. UNCHANGED <<frame, missing, readPc>>
        BY <2>2, <3>2
      <4> QED
        BY <4>1, Frames DEF IInv, readers
    <3> QED
      BY <3>1, <3>2
  <2> QED
    BY <1>1, <2>1, <2>5 DEF IInv
<1>3. CASE ReadPayload(s)
  <2>1. WiresOK' /\ Head(ring[s]) \in Pieces
    BY <1>3, RingTail DEF IInv, ReadPayload
  <2>2. /\ frame[s] \in Seq(Pieces) /\ missing[s] \in 0..DriverBuffer /\ missing[s] > 0
        /\ readPc[s] = "payload" /\ readPc' = readPc
        /\ frame' = [frame EXCEPT ![s] = Append(frame[s], Head(ring[s]))]
        /\ missing' = [missing EXCEPT ![s] = missing[s] - 1]
    BY <1>3 DEF IInv, ReadersOK, ReadPayload
  <2>3. Append(frame[s], Head(ring[s])) \in Seq(Pieces) /\ missing[s] - 1 \in 0..DriverBuffer
    BY <2>1, <2>2, AppendFacts, Sizes
  <2>4. ReadersOK'
    BY <2>2, <2>3 DEF IInv, ReadersOK
  <2> QED
    BY <1>1, <2>1, <2>4 DEF IInv
<1>4. CASE CheckPacket(s)
  <2>1. WiresOK'
    BY <1>4, Frames DEF IInv, CheckPacket
  <2>2. << >> \in Seq(Pieces) /\ missing' = missing
    BY <1>4 DEF CheckPacket
  <2>3. ReadersOK'
    <3>1. /\ frame \in [Sides -> Seq(Pieces)] /\ missing \in [Sides -> 0..DriverBuffer]
          /\ ReadersOK
      BY DEF IInv, ReadersOK
    <3>2. CASE IsPacket(frame[s])
      <4>1. readPc' = [readPc EXCEPT ![s] = "put"] /\ frame' = frame
        BY <1>4, <3>2 DEF CheckPacket
      <4> DEFINE f == frame[s] m == missing[s]
      <4>2. /\ f \in Seq(Pieces) /\ m \in 0..DriverBuffer /\ IsPacket(f)
            /\ frame' = [frame EXCEPT ![s] = f] /\ missing' = [missing EXCEPT ![s] = m]
        BY <2>2, <3>1, <3>2, <4>1
      <4> HIDE DEF f, m
      <4> QED
        BY <3>1, <4>1, <4>2, ReaderMoves
    <3>3. CASE ~IsPacket(frame[s])
      <4>1. readPc' = [readPc EXCEPT ![s] = "header"] /\ frame' = [frame EXCEPT ![s] = << >>]
        BY <1>4, <3>3 DEF CheckPacket
      <4> DEFINE m == missing[s]
      <4>2. m \in 0..DriverBuffer /\ missing' = [missing EXCEPT ![s] = m]
        BY <2>2, <3>1
      <4> HIDE DEF m
      <4> QED
        BY <2>2, <3>1, <4>1, <4>2, ReaderMoves
    <3> QED
      BY <3>2, <3>3
  <2> QED
    BY <1>1, <2>1, <2>3 DEF IInv
<1> QED
  BY <1>2, <1>3, <1>4 DEF Reader

\* The packet that was put into a queue leaves the reader's hands.
LEMMA NextPacketOK ==
  ASSUME ReadersOK, NEW s \in Sides, NextPacket(s), missing' = missing
  PROVE  ReadersOK'
<1>1. << >> \in Seq(Pieces)
  OBVIOUS
<1> QED
  BY <1>1 DEF ReadersOK, NextPacket

LEMMA PutIInv ==
  ASSUME IInv, HostPut \/ SlavePut
  PROVE  IInv'
<1>1. SendersOK' /\ WriteOK' /\ WiresOK' /\ InOK'
  BY Frames DEF IInv, HostPut, SlavePut
<1>2. "host" \in Sides /\ "slave" \in Sides
  BY DEF Sides
<1>3. CASE HostPut
  <2> DEFINE p == frame["host"][1].packet
  <2>1. ReadersOK'
    BY <1>2, <1>3, NextPacketOK DEF IInv, HostPut
  <2>2. SlaveOutOK' /\ RxQueueCount'
    BY <1>3, Frames DEF IInv, HostPut, slaveOut
  <2>3. p \in Packets
    BY <1>2, <1>3, CheckedFacts DEF IInv, ReadersOK, HostPut
  <2>4. /\ Len(fromSlave[QueueOf(p.if)]) < FromSlaveSize /\ fromSlave' = PutIn(fromSlave, p)
        /\ fromSlaveSem' = fromSlaveSem + 1 /\ UNCHANGED <<up, rxStarting, hostGot>>
    BY <1>3 DEF HostPut
  <2> HIDE DEF p
  <2>5. /\ fromSlave' \in [Queues -> Seq(Packets)]
        /\ Waiting(fromSlave') = Waiting(fromSlave) + 1
        /\ \A r \in Queues : Len(fromSlave'[r]) <= FromSlaveSize
    BY <2>3, <2>4, PutFacts, Sizes DEF IInv, OutOK
  <2>6. OutOK' /\ FromSlaveCount'
    BY <2>4, <2>5 DEF IInv, OutOK, FromSlaveCount
  <2> QED
    BY <1>1, <2>1, <2>2, <2>6 DEF IInv
<1>4. CASE SlavePut
  <2> DEFINE p == frame["slave"][1].packet
  <2>1. ReadersOK'
    BY <1>2, <1>4, NextPacketOK DEF IInv, SlavePut
  <2>2. OutOK' /\ FromSlaveCount'
    BY <1>4, Frames DEF IInv, SlavePut, hostOut
  <2>3. p \in Packets
    BY <1>2, <1>4, CheckedFacts DEF IInv, ReadersOK, SlavePut
  <2>4. /\ Len(rxQueue[QueueOf(p.if)]) < RxQueueSize /\ rxQueue' = PutIn(rxQueue, p)
        /\ rxSem' = rxSem + 1 /\ UNCHANGED <<readerPc, slaveGot>>
    BY <1>4 DEF SlavePut
  <2> HIDE DEF p
  <2>5. /\ rxQueue' \in [Queues -> Seq(Packets)]
        /\ Waiting(rxQueue') = Waiting(rxQueue) + 1
        /\ \A r \in Queues : Len(rxQueue'[r]) <= RxQueueSize
    BY <2>3, <2>4, PutFacts, Sizes DEF IInv, SlaveOutOK
  <2>6. SlaveOutOK' /\ RxQueueCount'
    BY <2>4, <2>5 DEF IInv, SlaveOutOK, RxQueueCount
  <2> QED
    BY <1>1, <2>1, <2>2, <2>6 DEF IInv
<1> QED
  BY <1>3, <1>4

-----------------------------------------------------------------------------
(* Handing over, the data path, and the co-processor's writers.             *)

LEMMA HandIInv ==
  ASSUME IInv, HostRxTask \/ SlaveRead
  PROVE  IInv'
<1>1. SendersOK' /\ WriteOK' /\ WiresOK' /\ ReadersOK' /\ InOK'
  BY Frames DEF IInv, HostRxTask, SlaveRead
<1>2. CASE HostRxTask
  <2> DEFINE q == FirstQueue(fromSlave)
  <2>1. SlaveOutOK' /\ RxQueueCount'
    BY <1>2, Frames DEF IInv, HostRxTask, slaveOut
  <2>2. fromSlave \in [Queues -> Seq(Packets)] /\ Waiting(fromSlave) > 0
    BY <1>2 DEF IInv, OutOK, FromSlaveCount, HostRxTask
  <2>3. /\ fromSlave' = [fromSlave EXCEPT ![FirstQueue(fromSlave)] = Tail(@)]
        /\ hostGot' = [hostGot EXCEPT ![q] = Append(@, Head(fromSlave[q]).n)]
        /\ fromSlaveSem' = fromSlaveSem - 1 /\ fromSlaveSem > 0
    BY <1>2 DEF HostRxTask
  <2>4. up' \in BOOLEAN /\ rxStarting' \in BOOLEAN
    BY <1>2, Zenon DEF HostRxTask
  <2>5. /\ q \in Queues /\ Head(fromSlave[q]) \in Packets
        /\ fromSlave' \in [Queues -> Seq(Packets)]
        /\ Waiting(fromSlave') = Waiting(fromSlave) - 1
    BY <2>2, <2>3, TakeFacts
  <2>6. \A r \in Queues : Len(fromSlave'[r]) <= FromSlaveSize
    <3>1. FromSlaveSize \in Nat /\ \A r \in Queues : Len(fromSlave[r]) <= FromSlaveSize
      BY Sizes DEF IInv, OutOK
    <3> QED
      BY <2>2, <2>3, <3>1, TakeBounded
  <2>7. hostGot' \in [Queues -> Seq(Nat)]
    <3> HIDE DEF q
    <3>1. hostGot \in [Queues -> Seq(Nat)]
      BY DEF IInv, OutOK
    <3> QED
      BY <2>3, <2>5, <3>1, GotFacts
  <2>8. fromSlaveSem' \in Nat
    BY <2>3 DEF IInv, OutOK
  <2>9. OutOK'
    BY <2>4, <2>5, <2>6, <2>7, <2>8, Zenon DEF OutOK
  <2>10. FromSlaveCount'
    BY <2>3, <2>5 DEF IInv, FromSlaveCount
  <2> QED
    BY <1>1, <2>1, <2>9, <2>10 DEF IInv
<1>3. CASE SlaveRead
  <2> DEFINE q == FirstQueue(rxQueue)
  <2>1. OutOK' /\ FromSlaveCount'
    BY <1>3, Frames DEF IInv, SlaveRead, hostOut
  <2>2. rxQueue \in [Queues -> Seq(Packets)] /\ Waiting(rxQueue) > 0
    BY <1>3 DEF IInv, SlaveOutOK, RxQueueCount, SlaveRead
  <2>3. /\ rxQueue' = [rxQueue EXCEPT ![FirstQueue(rxQueue)] = Tail(@)]
        /\ slaveGot' = [slaveGot EXCEPT ![q] = Append(@, Head(rxQueue[q]).n)]
        /\ rxSem' = rxSem - 1 /\ rxSem > 0 /\ readerPc' = "handle"
    BY <1>3 DEF SlaveRead
  <2>4. /\ q \in Queues /\ Head(rxQueue[q]) \in Packets
        /\ rxQueue' \in [Queues -> Seq(Packets)]
        /\ Waiting(rxQueue') = Waiting(rxQueue) - 1
    BY <2>2, <2>3, TakeFacts
  <2>5. \A r \in Queues : Len(rxQueue'[r]) <= RxQueueSize
    <3>1. RxQueueSize \in Nat /\ \A r \in Queues : Len(rxQueue[r]) <= RxQueueSize
      BY Sizes DEF IInv, SlaveOutOK
    <3> QED
      BY <2>2, <2>3, <3>1, TakeBounded
  <2>6. slaveGot' \in [Queues -> Seq(Nat)]
    <3> HIDE DEF q
    <3>1. slaveGot \in [Queues -> Seq(Nat)]
      BY DEF IInv, SlaveOutOK
    <3> QED
      BY <2>3, <2>4, <3>1, GotFacts
  <2>7. rxSem' \in Nat /\ readerPc' \in {"read", "handle"}
    BY <2>3 DEF IInv, SlaveOutOK
  <2>8. SlaveOutOK'
    BY <2>4, <2>5, <2>6, <2>7, Zenon DEF SlaveOutOK
  <2>9. RxQueueCount'
    BY <2>3, <2>4 DEF IInv, RxQueueCount
  <2> QED
    BY <1>1, <2>1, <2>8, <2>9 DEF IInv
<1> QED
  BY <1>2, <1>3

LEMMA OtherTasksIInv ==
  ASSUME IInv, StartWriteTask \/ OpenDataPath \/ SlaveHandle \/ (\E t \in Writers : Drained(t))
  PROVE  IInv'
<1>1. CASE StartWriteTask
  <2>1. /\ SendersOK' /\ WiresOK' /\ ReadersOK' /\ InOK' /\ SlaveOutOK'
        /\ FromSlaveCount' /\ RxQueueCount'
    BY <1>1, Frames DEF IInv, StartWriteTask, slaveOut
  <2>2. WriteOK' /\ OutOK'
    BY <1>1 DEF IInv, StartWriteTask, WriteOK, OutOK
  <2> QED
    BY <2>1, <2>2 DEF IInv
<1>2. CASE OpenDataPath
  <2>1. /\ SendersOK' /\ WriteOK' /\ OutOK' /\ WiresOK' /\ SlaveOutOK'
        /\ FromSlaveCount' /\ RxQueueCount'
    BY <1>2, Frames DEF IInv, OpenDataPath, slaveOut, hostOut
  <2>2. InOK'
    BY <1>2 DEF IInv, OpenDataPath, InOK
  <2>3. ReadersOK'
    BY <1>2 DEF IInv, OpenDataPath, ReadersOK, Sides
  <2> QED
    BY <2>1, <2>2, <2>3 DEF IInv
<1>3. CASE SlaveHandle
  <2>1. /\ SendersOK' /\ WriteOK' /\ OutOK' /\ WiresOK' /\ ReadersOK' /\ InOK'
        /\ FromSlaveCount' /\ RxQueueCount'
    BY <1>3, Frames DEF IInv, SlaveHandle, hostOut
  <2>2. SlaveOutOK'
    BY <1>3 DEF IInv, SlaveHandle, SlaveOutOK
  <2> QED
    BY <2>1, <2>2 DEF IInv
<1>4. CASE \E t \in Writers : Drained(t)
  <2>1. /\ SendersOK' /\ WriteOK' /\ OutOK' /\ WiresOK' /\ ReadersOK' /\ SlaveOutOK'
        /\ FromSlaveCount' /\ RxQueueCount'
    BY <1>4, Frames DEF IInv, Drained, hostOut, slaveOut
  <2>2. InOK'
    BY <1>4 DEF IInv, Drained, InOK
  <2> QED
    BY <2>1, <2>2 DEF IInv
<1> QED
  BY <1>1, <1>2, <1>3, <1>4

LEMMA WriteToHostIInv ==
  ASSUME IInv, NEW t \in Writers, NEW i \in {"serial", "sta", "priv"}, WriteToHost(t, i),
         hostResetSem' \in BOOLEAN
  PROVE  IInv'
<1>1. /\ SendersOK' /\ WriteOK' /\ OutOK' /\ ReadersOK' /\ SlaveOutOK'
      /\ FromSlaveCount' /\ RxQueueCount'
  BY Frames DEF IInv, WriteToHost, hostOut, slaveOut
<1> DEFINE q == QueueOf(i)
<1>2. q \in Queues /\ slaveSent \in [Queues -> Nat] /\ slaveSent[q] + 1 \in Nat
  BY QueueOfInQueues DEF IInv, InOK
<1>3. WiresOK'
  <2>1. Packet(i, slaveSent[q] + 1) \in Packets /\ "host" \in Sides
    BY <1>2, PacketIsOne DEF Sides
  <2>2. /\ HasRoom("host") /\ Send("host", Packet(i, slaveSent[q] + 1))
        /\ UNCHANGED <<ring, torn>>
    BY DEF WriteToHost
  <2> QED
    BY <2>1, <2>2, SendTyped DEF IInv
<1>4. InOK'
  BY <1>2 DEF IInv, InOK, WriteToHost
<1> QED
  BY <1>1, <1>3, <1>4 DEF IInv

-----------------------------------------------------------------------------
\* What the host may find in its driver's buffer when it starts.
LEMMA OldFacts ==
  ASSUME NEW n \in Nat
  PROVE  OldUnits(n) \in Seq(Pieces) /\ Len(OldUnits(n)) = n
<1>1. [packet |-> Old, part |-> 1] \in Pieces
  <2>1. Old \in Packets /\ 1 \in 0..PayloadUnits
    BY PacketIsOne, Sizes DEF Old
  <2> QED
    BY <2>1 DEF Pieces
<1> DEFINE unit == [packet |-> Old, part |-> 1]
<1> HIDE DEF unit
<1>2. [i \in 1..n |-> unit] \in Seq(Pieces) /\ Len([i \in 1..n |-> unit]) = n
  BY <1>1 DEF unit
<1> QED
  BY <1>2 DEF OldUnits, unit

LEMMA InitIInv == Init => IInv
<1> SUFFICES ASSUME Init PROVE IInv
  OBVIOUS
<1> DEFINE none == [q \in Queues |-> << >>] nothing == [s \in Sides |-> << >>]
<1>1. /\ << >> \in Seq(Packets) /\ << >> \in Seq(Pieces) /\ << >> \in Seq(Nat)
      /\ Len(<< >>) = 0
  OBVIOUS
<1>2. /\ none \in [Queues -> Seq(Packets)] /\ \A q \in Queues : Len(none[q]) = 0
      /\ none \in [Queues -> Seq(Nat)] /\ Waiting(none) = 0
      /\ nothing \in [Sides -> Seq(Pieces)]
      /\ \A s \in Sides : nothing[s] = << >> /\ Len(nothing[s]) = 0
  BY <1>1 DEF Waiting, Queues
<1>3. /\ toSlave = none /\ fromSlave = none /\ rxQueue = none
      /\ hostGot = none /\ slaveGot = none /\ line = nothing /\ frame = nothing
  BY DEF Init
<1> HIDE DEF none, nothing
<1>4. /\ 0 \in Nat /\ 0 \in 0..DriverBuffer /\ 0 <= DriverBuffer
      /\ 0 <= ToSlaveSize /\ 0 <= FromSlaveSize /\ 0 <= RxQueueSize
  BY Sizes
<1>5. SendersOK
  <2>1. /\ hostSent \in [Queues -> Nat] /\ hostWriter \in [Queues -> {"idle", "count"}]
        /\ toSlaveSem = 0
    BY DEF Init
  <2> QED
    BY <1>2, <1>3, <1>4, <2>1 DEF SendersOK
<1>6. WriteOK
  <2>1. writeStarted \in BOOLEAN /\ txNeeded \in BOOLEAN
    BY Zenon DEF Init
  <2>2. hostTx = << >>
    BY DEF Init
  <2> QED
    BY <1>1, <2>1, <2>2 DEF WriteOK
<1>7. OutOK
  <2>1. up \in BOOLEAN /\ rxStarting \in BOOLEAN
    BY Zenon DEF Init
  <2>2. fromSlaveSem = 0
    BY DEF Init
  <2> QED
    BY <1>2, <1>3, <1>4, <2>1, <2>2 DEF OutOK
<1>8. WiresOK
  <2>1. PICK n \in 0..Leftover :
           /\ ring = [s \in Sides |-> IF s = "host" THEN OldUnits(n) ELSE << >>]
           /\ torn = [s \in Sides |-> s = "host" /\ n > 0]
    BY DEF Init
  <2>2. torn \in [Sides -> BOOLEAN]
    <3>1. \A s \in Sides : (s = "host" /\ n > 0) \in BOOLEAN
      BY Zenon
    <3> QED
      BY <2>1, <3>1, Zenon
  <2>3. n \in Nat /\ n <= DriverBuffer
    BY Sizes
  <2>4. OldUnits(n) \in Seq(Pieces) /\ Len(OldUnits(n)) = n
    BY <2>3, OldFacts
  <2>5. /\ ring \in [Sides -> Seq(Pieces)]
        /\ \A s \in Sides : Len(ring[s]) <= DriverBuffer
    BY <1>1, <1>4, <2>1, <2>3, <2>4
  <2> QED
    BY <1>2, <1>3, <1>4, <2>2, <2>5 DEF WiresOK
<1>9. ReadersOK
  <2>1. /\ readPc = [s \in Sides |-> IF s = "host" THEN "header" ELSE "open"]
        /\ missing = [s \in Sides |-> 0]
    BY DEF Init
  <2>2. readPc \in [Sides -> {"open", "header"}] /\ readPc["host"] # "open"
    BY <2>1 DEF Sides
  <2>3. missing \in [Sides -> 0..DriverBuffer]
    BY <1>4, <2>1
  <2>4. \A s \in Sides : readPc[s] # "put" /\ frame[s] = << >>
    BY <1>2, <1>3, <2>2
  <2>5. readPc \in [Sides -> {"open", "header", "payload", "put"}]
    BY <2>2
  <2> QED
    BY <1>2, <1>3, <2>2, <2>3, <2>4, <2>5, Zenon DEF ReadersOK
<1>10. InOK
  <2>1. opened \in BOOLEAN /\ hostResetSem \in BOOLEAN
    BY Zenon DEF Init
  <2>2. slaveSent \in [Queues -> Nat] /\ draining \subseteq Writers
    BY DEF Init
  <2> QED
    BY <2>1, <2>2, Zenon DEF InOK
<1>11. SlaveOutOK
  <2>1. rxSem = 0 /\ readerPc = "read"
    BY DEF Init
  <2> QED
    BY <1>2, <1>3, <1>4, <2>1 DEF SlaveOutOK
<1>12. FromSlaveCount /\ RxQueueCount
  <2>1. fromSlaveSem = 0 /\ rxSem = 0
    BY DEF Init
  <2> QED
    BY <1>2, <1>3, <2>1 DEF FromSlaveCount, RxQueueCount
<1> QED
  BY <1>5, <1>6, <1>7, <1>8, <1>9, <1>10, <1>11, <1>12, Zenon DEF IInv

LEMMA StepIInv == IInv /\ [Next]_vars => IInv'
<1> SUFFICES ASSUME IInv, [Next]_vars PROVE IInv'
  OBVIOUS
<1>0. /\ "host" \in Sides /\ "slave" \in Sides
      /\ "rpc" \in Writers /\ "wifi" \in Writers /\ "reset" \in Writers
      /\ {"serial", "sta", "priv"} \subseteq {"serial", "sta", "priv"}
  BY DEF Sides, Writers
<1>1. CASE \E q \in Queues : HostQueue(q) \/ HostCount(q)
  BY <1>1, HostSenderIInv
<1>2. CASE WriteTask
  BY <1>2, WriteTaskIInv DEF WriteTask
<1>3. CASE ReadTask
  BY <1>0, <1>3, ReaderIInv, PutIInv DEF ReadTask
<1>4. CASE ProcessRxTask
  BY <1>4, HandIInv, OtherTasksIInv DEF ProcessRxTask
<1>5. CASE \E s \in Sides : Arrive(s)
  BY <1>5, ArriveIInv
<1>6. CASE RxTask
  BY <1>0, <1>6, ReaderIInv, PutIInv, OtherTasksIInv DEF RxTask
<1>7. CASE RecvTask
  BY <1>7, HandIInv, OtherTasksIInv DEF RecvTask
<1>8. ASSUME NEW t \in Writers, NEW i \in {"serial", "sta"}, SlaveWrite(t, i) PROVE IInv'
  <2>1. WriteToHost(t, i) /\ hostResetSem' = hostResetSem
    BY <1>8 DEF SlaveWrite
  <2>2. hostResetSem' \in BOOLEAN
    BY <2>1, Zenon DEF IInv, InOK
  <2> QED
    BY <2>1, <2>2, WriteToHostIInv
<1>9. CASE SlaveStartup
  <2>1. WriteToHost("reset", "priv") /\ hostResetSem' = FALSE
    BY <1>9 DEF SlaveStartup
  <2> QED
    BY <1>0, <2>1, WriteToHostIInv
<1>10. CASE \E t \in Writers : Drained(t)
  BY <1>10, OtherTasksIInv
<1>11. CASE UNCHANGED vars
  BY <1>11, Frames DEF IInv, vars, hostOut, slaveOut
<1> QED
  BY <1>0, <1>1, <1>2, <1>3, <1>4, <1>5, <1>6, <1>7, <1>8, <1>9, <1>10, <1>11 DEF Next

\* IInv holds in every reachable state of every instance.
THEOREM Inductive == Spec => []IInv
<1> QED
  BY InitIInv, StepIInv, PTL DEF Spec

\* The type invariant: the queues of both sides keep their capacities, and no driver's
\* buffer holds more than it has room for, whatever is lost and however a reader takes a
\* payload for a header (uart_write_bytes, push_to_rx_queue, uart_rx_task).
THEOREM TypeCorrect == Spec => []TypeOK
<1>1. IInv => TypeOK
  <2> SUFFICES ASSUME IInv PROVE TypeOK
    OBVIOUS
  <2>1. Streams = [Sides -> Seq(Pieces)]
    BY DEF Streams, Pieces
  <2>2. {up, writeStarted, txNeeded, rxStarting, opened, hostResetSem} \subseteq BOOLEAN
    BY Zenon DEF IInv, WriteOK, OutOK, InOK
  <2>3. torn \in [Sides -> BOOLEAN]
    BY DEF IInv, WiresOK
  <2> QED
    BY <2>1, <2>2, <2>3 DEF IInv, SendersOK, WriteOK, OutOK, WiresOK, ReadersOK, InOK,
       SlaveOutOK, TypeOK
<1> QED
  BY <1>1, Inductive, PTL

-----------------------------------------------------------------------------
(* In step: as long as nothing was missed, what a side has begun to read    *)
(* and what follows are whole packets.                                      *)

Unit == 1 + PayloadUnits
Whole(x) ==
    /\ Len(x) % Unit = 0
    /\ \A i \in 1..Len(x) : x[i].part = (i - 1) % Unit

StepOK(s) ==
    ~torn[s] => /\ Whole(Stream(s))
                /\ readPc[s] = "payload" => Len(frame[s]) + missing[s] = Unit
StepInv == \A s \in Sides : StepOK(s)

LEMMA UnitNat == Unit \in Nat /\ Unit > 0 /\ Unit = 1 + PayloadUnits
  BY Sizes DEF Unit

\* Another packet behind whole packets.
LEMMA WholeSent ==
  ASSUME NEW x \in Seq(Pieces), Whole(x), NEW p \in Packets
  PROVE  Whole(x \o Units(p))
<1> DEFINE u == Units(p) y == x \o u
<1>1. /\ u \in Seq(Pieces) /\ Len(u) = Unit
      /\ \A i \in 1..Unit : u[i].part = i - 1
  <2>1. \A i \in 1..Unit : u[i] = [packet |-> p, part |-> i - 1]
    BY UnitsFacts DEF Unit
  <2>2. \A i \in 1..Unit : u[i].part = i - 1
    <3> TAKE i \in 1..Unit
    <3>1. u[i] = [packet |-> p, part |-> i - 1]
      BY <2>1
    <3> HIDE DEF u
    <3> QED
      BY <3>1
  <2> QED
    BY <2>2, UnitsFacts, Zenon DEF Unit
<1> HIDE DEF u
<1>2. /\ Len(x) \in Nat /\ Len(y) = Len(x) + Unit
      /\ \A i \in 1..Len(x) : y[i] = x[i]
      /\ \A i \in 1..Unit : y[Len(x) + i] = u[i]
  <2>1. /\ Len(x) \in Nat /\ Len(u) \in Nat /\ Len(y) = Len(x) + Len(u)
        /\ \A i \in 1..Len(x) : y[i] = x[i]
        /\ \A i \in 1..Len(u) : y[Len(x) + i] = u[i]
    <3>1. u \in Seq(Pieces)
      BY <1>1
    <3> QED
      BY <3>1, JoinElements
  <2> QED
    BY <1>1, <2>1, Zenon
<1>3. Len(x) % Unit = 0 /\ \A i \in 1..Len(x) : x[i].part = (i - 1) % Unit
  BY DEF Whole
<1> DEFINE k == Len(x)
<1> HIDE DEF y, k
<1>4. k \in Nat /\ Unit \in Nat /\ Unit > 0 /\ k % Unit = 0
  BY <1>2, <1>3, UnitNat DEF k
<1>5. (k + Unit) % Unit = 0
  <2>1. 0 \in 0..(Unit - 1)
    BY <1>4
  <2> QED
    BY <1>4, <2>1, WholeTurns
<1>6. ASSUME NEW i \in 1..(k + Unit) PROVE y[i].part = (i - 1) % Unit
  <2>1. CASE i \in 1..k
    BY <1>2, <1>3, <2>1 DEF k
  <2>2. CASE i \notin 1..k
    <3> DEFINE j == i - k
    <3>1. j \in 1..Unit /\ j - 1 \in 0..(Unit - 1) /\ k + j = i /\ k + (j - 1) = i - 1
      BY <1>4, <2>2
    <3> HIDE DEF j
    <3>2. (k + (j - 1)) % Unit = j - 1
      BY <1>4, <3>1, WholeTurns
    <3>3. y[k + j] = u[j] /\ u[j].part = j - 1
      BY <1>1, <1>2, <3>1, Zenon DEF k
    <3> QED
      BY <3>1, <3>2, <3>3
  <2> QED
    BY <2>1, <2>2
<1>7. Len(y) = k + Unit
  BY <1>2 DEF k
<1>8. Whole(y)
  BY <1>5, <1>6, <1>7 DEF Whole
<1> QED
  BY <1>8 DEF y, u

\* Behind as many units as a packet has, whole packets begin.
LEMMA WholeRest ==
  ASSUME NEW f \in Seq(Pieces), NEW y \in Seq(Pieces)
  PROVE  Len(f) = Unit /\ Whole(f \o y) => Whole(y)
<1> DEFINE x == f \o y k == Len(y)
<1>0. /\ Len(f) \in Nat /\ Len(y) \in Nat /\ Len(x) = Len(f) + Len(y)
      /\ \A i \in 1..Len(f) : x[i] = f[i]
      /\ \A i \in 1..Len(y) : x[Len(f) + i] = y[i]
  BY JoinElements
<1> HAVE Len(f) = Unit /\ Whole(x)
<1>1. /\ k \in Nat /\ Len(x) = Unit + k
      /\ \A i \in 1..k : x[Unit + i] = y[i]
  BY <1>0, Zenon
<1>2. Len(x) % Unit = 0 /\ \A i \in 1..Len(x) : x[i].part = (i - 1) % Unit
  BY DEF Whole
<1> HIDE DEF x, k
<1>3. Unit \in Nat /\ Unit > 0 /\ 0 \in 0..(Unit - 1)
  BY UnitNat
<1>4. k % Unit = 0
  <2>1. (k + Unit) % Unit = k % Unit
    BY <1>1, <1>3, WholeTurns
  <2>2. k + Unit = Len(x)
    BY <1>1, <1>3
  <2> QED
    BY <1>2, <2>1, <2>2
<1>5. ASSUME NEW i \in 1..k PROVE y[i].part = (i - 1) % Unit
  <2>1. /\ Unit + i \in 1..Len(x) /\ (Unit + i) - 1 = (i - 1) + Unit /\ i - 1 \in Nat
    BY <1>1, <1>3
  <2>2. ((i - 1) + Unit) % Unit = (i - 1) % Unit
    BY <1>3, <2>1, WholeTurns
  <2>3. x[Unit + i].part = ((Unit + i) - 1) % Unit
    BY <1>2, <2>1
  <2>4. x[Unit + i] = y[i]
    BY <1>1
  <2> QED
    BY <2>1, <2>2, <2>3, <2>4
<1> QED
  BY <1>4, <1>5 DEF Whole, k

\* They begin with a header.
LEMMA WholeHead ==
  ASSUME NEW x \in Seq(Pieces), x # << >>, Whole(x)
  PROVE  Head(x).part = 0
<1>1. Len(x) \in Nat \ {0} /\ Head(x) = x[1] /\ 1 \in 1..Len(x)
  BY TailElements
<1>2. x[1].part = (1 - 1) % Unit
  BY <1>1 DEF Whole
<1>3. Unit \in Nat /\ Unit > 0 /\ 0 \in 0..(Unit - 1)
  BY UnitNat
<1>4. 0 % Unit = 0
  BY <1>3, WholeTurns
<1> QED
  BY <1>1, <1>2, <1>4

-----------------------------------------------------------------------------
(* How the stream of units changes: nothing is put into it but at its end,  *)
(* and only its front is put into a queue.                                  *)

\* What is left of x when some of it is dropped, or nothing.
LessOf(x, y) == \E a, f, b \in Seq(Pieces) : x = a \o (f \o b) /\ y = a \o b

LEMMA SameLess == ASSUME NEW x \in Seq(Pieces) PROVE LessOf(x, x)
<1>1. << >> \in Seq(Pieces)
  OBVIOUS
<1>2. << >> \o << >> = << >> /\ x \o << >> = x
  BY <1>1, EmptyJoin
<1>3. x = x \o (<< >> \o << >>) /\ x = x \o << >>
  BY <1>2
<1> QED
  BY <1>1, <1>3 DEF LessOf

LEMMA StreamTyped ==
  ASSUME IInv, NEW s \in Sides
  PROVE  /\ frame[s] \in Seq(Pieces) /\ ring[s] \in Seq(Pieces) /\ line[s] \in Seq(Pieces)
         /\ ring[s] \o line[s] \in Seq(Pieces) /\ frame[s] \o ring[s] \in Seq(Pieces)
         /\ Stream(s) \in Seq(Pieces)
         /\ Stream(s) = frame[s] \o (ring[s] \o line[s])
<1> DEFINE f == frame[s] r == ring[s] l == line[s]
<1>1. f \in Seq(Pieces) /\ r \in Seq(Pieces) /\ l \in Seq(Pieces)
  BY DEF IInv, ReadersOK, WiresOK
<1>2. Stream(s) = (f \o r) \o l
  BY DEF Stream
<1> HIDE DEF f, r, l
<1>3. r \o l \in Seq(Pieces) /\ f \o r \in Seq(Pieces)
  BY <1>1, JoinFacts
<1>4. (f \o r) \o l \in Seq(Pieces)
  BY <1>1, <1>3, JoinFacts
<1>5. (f \o r) \o l = f \o (r \o l)
  BY <1>1, JoinJoin
<1> QED
  BY <1>1, <1>2, <1>3, <1>4, <1>5 DEF f, r, l

LEMMA StillStream ==
  ASSUME NEW s, frame'[s] = frame[s], ring'[s] = ring[s], line'[s] = line[s]
  PROVE  Stream(s)' = Stream(s)
  BY DEF Stream

\* What arrives goes from the line to the driver's buffer, or is lost when it is full.
LEMMA ArriveStream ==
  ASSUME IInv, NEW s \in Sides, Arrive(s)
  PROVE  /\ \A r \in Sides : r # s => Stream(r)' = Stream(r) /\ torn'[r] = torn[r]
         /\ LessOf(Stream(s), Stream(s)')
         /\ torn'[s] \/ (Stream(s)' = Stream(s) /\ torn'[s] = torn[s])
<1>0. /\ line \in [Sides -> Seq(Pieces)] /\ ring \in [Sides -> Seq(Pieces)]
      /\ torn \in [Sides -> BOOLEAN]
  BY DEF IInv, WiresOK
<1>1. /\ line[s] # << >> /\ frame' = frame
      /\ line' = [line EXCEPT ![s] = Tail(@)]
  BY DEF Arrive, readers
<1>2. line'[s] = Tail(line[s]) /\ \A r \in Sides : r # s => line'[r] = line[r]
  BY <1>0, <1>1
<1> DEFINE f == frame[s] g == ring[s] l == line[s] h == Head(l) t == Tail(l)
<1>3. /\ f \in Seq(Pieces) /\ g \in Seq(Pieces) /\ l \in Seq(Pieces) /\ l # << >>
      /\ f \o g \in Seq(Pieces) /\ Stream(s) \in Seq(Pieces) /\ Stream(s) = (f \o g) \o l
  BY <1>1, StreamTyped DEF Stream
<1> HIDE DEF f, g, l
<1>4. h \in Pieces /\ t \in Seq(Pieces) /\ l = <<h>> \o t
  BY <1>3, TailFacts, HeadMoves
<1> HIDE DEF h, t
<1>5. CASE Len(ring[s]) < DriverBuffer
  <2>1. ring' = [ring EXCEPT ![s] = Append(@, Head(line[s]))] /\ torn' = torn
    BY <1>5 DEF Arrive
  <2>2. ring'[s] = Append(g, h) /\ \A r \in Sides : r # s => ring'[r] = ring[r]
    BY <1>0, <2>1 DEF g, h, l
  <2>3. Stream(s)' = (f \o Append(g, h)) \o t
    BY <1>1, <1>2, <2>2 DEF Stream, f, t, l
  <2>4. f \o Append(g, h) = Append(f \o g, h)
    BY <1>3, <1>4, JoinAppend
  <2> DEFINE x == f \o g
  <2>5. x \in Seq(Pieces)
    BY <1>3
  <2> HIDE DEF x
  <2>6. Append(x, h) \o t = x \o (<<h>> \o t)
    <3>1. h \in Pieces /\ t \in Seq(Pieces)
      BY <1>4
    <3> QED
      BY <2>5, <3>1, AppendJoin
  <2>7. Stream(s)' = Stream(s)
    BY <1>3, <1>4, <2>3, <2>4, <2>6 DEF x
  <2>8. \A r \in Sides : r # s => Stream(r)' = Stream(r) /\ torn'[r] = torn[r]
    BY <1>1, <1>2, <2>1, <2>2, StillStream
  <2> QED
    BY <1>3, <2>1, <2>7, <2>8, SameLess
<1>6. CASE ~(Len(ring[s]) < DriverBuffer)
  <2>1. torn' = [torn EXCEPT ![s] = TRUE] /\ ring' = ring
    BY <1>6 DEF Arrive
  <2>2. torn'[s] /\ \A r \in Sides : r # s => torn'[r] = torn[r]
    BY <1>0, <2>1, Zenon
  <2>3. Stream(s)' = (f \o g) \o t
    BY <1>1, <1>2, <2>1 DEF Stream, f, g, t, l
  <2>4. <<h>> \in Seq(Pieces)
    BY <1>4, OneFacts
  <2>5. LessOf(Stream(s), Stream(s)')
    <3>1. Stream(s) = (f \o g) \o (<<h>> \o t)
      BY <1>3, <1>4
    <3> QED
      BY <1>3, <1>4, <2>3, <2>4, <3>1, Zenon DEF LessOf
  <2>6. \A r \in Sides : r # s => Stream(r)' = Stream(r)
    BY <1>1, <1>2, <2>1, StillStream
  <2> QED
    BY <2>2, <2>5, <2>6, Zenon
<1> QED
  BY <1>5, <1>6

\* The reader takes a header: it is kept, or dropped when its length is too large.
LEMMA HeaderStream ==
  ASSUME IInv, NEW s \in Sides, ReadHeader(s)
  PROVE  /\ \A r \in Sides : r # s => /\ Stream(r)' = Stream(r)
                                      /\ frame'[r] = frame[r] /\ missing'[r] = missing[r]
                                      /\ readPc'[r] = readPc[r]
         /\ torn' = torn /\ LessOf(Stream(s), Stream(s)')
         /\ \E n \in Lengths(Head(ring[s])) :
               n < DriverBuffer
                 => /\ Stream(s)' = Stream(s) /\ Len(frame'[s]) = 1
                    /\ missing'[s] = n
         /\ Stream(s) # << >> /\ Head(Stream(s)) = Head(ring[s])
<1>0. /\ ring \in [Sides -> Seq(Pieces)] /\ frame \in [Sides -> Seq(Pieces)]
      /\ missing \in [Sides -> 0..DriverBuffer]
      /\ readPc \in [Sides -> {"open", "header", "payload", "put"}]
      /\ readPc[s] = "header" /\ frame[s] = << >>
  BY DEF IInv, WiresOK, ReadersOK, ReadHeader
<1>1. /\ ring[s] # << >> /\ UNCHANGED <<line, torn>>
      /\ ring' = [ring EXCEPT ![s] = Tail(@)]
  BY DEF ReadHeader
<1>2. ring'[s] = Tail(ring[s]) /\ \A r \in Sides : r # s => ring'[r] = ring[r]
  BY <1>0, <1>1
<1> DEFINE g == ring[s] l == line[s] h == Head(g) t == Tail(g)
<1>3. /\ g \in Seq(Pieces) /\ l \in Seq(Pieces) /\ g # << >>
      /\ Stream(s) \in Seq(Pieces) /\ Stream(s) = << >> \o (g \o l)
      /\ g \o l \in Seq(Pieces)
  BY <1>0, <1>1, StreamTyped
<1> HIDE DEF g, l
<1>4. /\ h \in Pieces /\ t \in Seq(Pieces) /\ g = <<h>> \o t /\ <<h>> \in Seq(Pieces)
      /\ Stream(s) = g \o l /\ t \o l \in Seq(Pieces)
  BY <1>3, TailFacts, HeadMoves, OneFacts, JoinFacts, EmptyJoin
<1>5. Stream(s) # << >> /\ Head(Stream(s)) = Head(g)
  BY <1>3, <1>4, JoinTail
<1> HIDE DEF h, t
<1>6. Stream(s) = <<h>> \o (t \o l)
  BY <1>3, <1>4, JoinJoin
<1>7. PICK n \in Lengths(Head(ring[s])) :
         IF n < DriverBuffer
           THEN /\ frame' = [frame EXCEPT ![s] = <<Head(ring[s])>>]
                /\ missing' = [missing EXCEPT ![s] = n]
                /\ readPc' = [readPc EXCEPT ![s] = "payload"]
           ELSE UNCHANGED <<frame, missing, readPc>>
  BY DEF ReadHeader
<1>8. CASE n < DriverBuffer
  <2>1. /\ frame'[s] = <<h>> /\ missing'[s] = n
        /\ \A r \in Sides : r # s => /\ frame'[r] = frame[r] /\ missing'[r] = missing[r]
                                     /\ readPc'[r] = readPc[r]
    BY <1>0, <1>7, <1>8 DEF h, g
  <2>2. Stream(s)' = (<<h>> \o t) \o l
    BY <1>1, <1>2, <2>1 DEF Stream, t, g, l
  <2>3. Stream(s)' = Stream(s)
    BY <1>4, <2>2
  <2>4. Len(frame'[s]) = 1
    BY <1>4, <2>1, OneFacts
  <2>5. \A r \in Sides : r # s => Stream(r)' = Stream(r)
    BY <1>1, <1>2, <2>1, StillStream
  <2> QED
    BY <1>1, <1>3, <1>5, <2>1, <2>3, <2>4, <2>5, SameLess DEF g
<1>9. CASE ~(n < DriverBuffer)
  <2>1. UNCHANGED <<frame, missing, readPc>>
    BY <1>7, <1>9
  <2>2. << >> \in Seq(Pieces) /\ << >> \o t = t
    BY <1>4, EmptyJoin
  <2>3. Stream(s)' = t \o l
    BY <1>0, <1>1, <1>2, <2>1, <2>2 DEF Stream, t, g, l
  <2>4. << >> \o (t \o l) = t \o l /\ << >> \o (<<h>> \o (t \o l)) = <<h>> \o (t \o l)
    <3>1. <<h>> \o (t \o l) \in Seq(Pieces)
      BY <1>4, JoinFacts
    <3> QED
      BY <1>4, <3>1, EmptyJoin
  <2>5. LessOf(Stream(s), Stream(s)')
    BY <1>4, <1>6, <2>2, <2>3, <2>4 DEF LessOf
  <2>6. \A r \in Sides : r # s => Stream(r)' = Stream(r)
    BY <1>1, <1>2, <2>1, StillStream
  <2> QED
    BY <1>1, <1>5, <1>9, <2>1, <2>5, <2>6 DEF g
<1> QED
  BY <1>8, <1>9

\* It takes a unit of the payload.
LEMMA PayloadStream ==
  ASSUME IInv, NEW s \in Sides, ReadPayload(s)
  PROVE  /\ \A r \in Sides : Stream(r)' = Stream(r)
         /\ \A r \in Sides : r # s => frame'[r] = frame[r] /\ missing'[r] = missing[r]
         /\ torn' = torn /\ readPc' = readPc
         /\ Len(frame[s]) \in Nat /\ missing[s] \in Nat
         /\ Len(frame'[s]) = Len(frame[s]) + 1 /\ missing'[s] = missing[s] - 1
<1>0. /\ ring \in [Sides -> Seq(Pieces)] /\ frame \in [Sides -> Seq(Pieces)]
      /\ missing \in [Sides -> 0..DriverBuffer]
  BY DEF IInv, WiresOK, ReadersOK
<1>1. /\ ring[s] # << >> /\ UNCHANGED <<line, torn, readPc>>
      /\ ring' = [ring EXCEPT ![s] = Tail(@)]
      /\ frame' = [frame EXCEPT ![s] = Append(@, Head(ring[s]))]
      /\ missing' = [missing EXCEPT ![s] = @ - 1]
  BY DEF ReadPayload
<1> DEFINE f == frame[s] g == ring[s] l == line[s] h == Head(g) t == Tail(g)
<1>2. /\ frame'[s] = Append(f, h) /\ ring'[s] = t /\ missing'[s] = missing[s] - 1
      /\ missing[s] \in Nat
      /\ \A r \in Sides : r # s => /\ frame'[r] = frame[r] /\ ring'[r] = ring[r]
                                   /\ missing'[r] = missing[r]
  BY <1>0, <1>1, Sizes
<1>3. /\ f \in Seq(Pieces) /\ g \in Seq(Pieces) /\ l \in Seq(Pieces) /\ g # << >>
      /\ Stream(s) = (f \o g) \o l
  BY <1>0, <1>1, StreamTyped DEF Stream
<1> HIDE DEF f, g, l
<1>4. h \in Pieces /\ t \in Seq(Pieces) /\ <<h>> \o t = g
  BY <1>3, TailFacts, HeadMoves
<1>5. Stream(s)' = (Append(f, h) \o t) \o l
  BY <1>1, <1>2 DEF Stream, l
<1> HIDE DEF h, t
<1>6. Append(f, h) \o t = f \o (<<h>> \o t)
  <2>1. h \in Pieces /\ t \in Seq(Pieces)
    BY <1>4
  <2> QED
    BY <1>3, <2>1, AppendJoin
<1>7. Stream(s)' = Stream(s)
  BY <1>3, <1>4, <1>5, <1>6, Zenon
<1>8. \A r \in Sides : r # s => Stream(r)' = Stream(r)
  BY <1>1, <1>2, StillStream
<1>9. Len(f) \in Nat /\ Len(frame'[s]) = Len(f) + 1
  BY <1>2, <1>3, <1>4, AppendFacts, EmptyFacts
<1> QED
  BY <1>1, <1>2, <1>7, <1>8, <1>9, Zenon DEF f

\* What has been read leaves the reader's hands, into a queue or not.
LEMMA NextStream ==
  ASSUME IInv, NEW s \in Sides, NextPacket(s), UNCHANGED wires
  PROVE  /\ \A r \in Sides : r # s => /\ Stream(r)' = Stream(r)
                                      /\ frame'[r] = frame[r] /\ readPc'[r] = readPc[r]
         /\ readPc'[s] = "header" /\ torn' = torn
         /\ frame[s] \in Seq(Pieces) /\ Stream(s)' \in Seq(Pieces)
         /\ Stream(s) = frame[s] \o Stream(s)'
<1>0. /\ frame \in [Sides -> Seq(Pieces)]
      /\ readPc \in [Sides -> {"open", "header", "payload", "put"}]
  BY DEF IInv, ReadersOK
<1>1. /\ frame' = [frame EXCEPT ![s] = << >>] /\ UNCHANGED <<line, ring, torn>>
      /\ readPc' = [readPc EXCEPT ![s] = "header"]
  BY DEF NextPacket, wires
<1>2. /\ frame'[s] = << >> /\ readPc'[s] = "header"
      /\ \A r \in Sides : r # s => frame'[r] = frame[r] /\ readPc'[r] = readPc[r]
  BY <1>0, <1>1
<1> DEFINE f == frame[s] g == ring[s] l == line[s]
<1>3. /\ f \in Seq(Pieces) /\ g \in Seq(Pieces) /\ l \in Seq(Pieces)
      /\ g \o l \in Seq(Pieces) /\ Stream(s) = f \o (g \o l)
  BY StreamTyped
<1>4. Stream(s)' = (<< >> \o g) \o l
  BY <1>1, <1>2 DEF Stream
<1> HIDE DEF f, g, l
<1>5. << >> \o g = g
  BY <1>3, EmptyJoin
<1>6. Stream(s)' = g \o l
  BY <1>4, <1>5
<1>7. \A r \in Sides : r # s => Stream(r)' = Stream(r)
  BY <1>1, <1>2, StillStream
<1> QED
  BY <1>1, <1>2, <1>3, <1>6, <1>7, Zenon DEF f

\* A packet is sent.
LEMMA SendStream ==
  ASSUME IInv, NEW s \in Sides, NEW p \in Packets, Send(s, p), UNCHANGED <<ring, frame>>
  PROVE  /\ \A r \in Sides : r # s => Stream(r)' = Stream(r)
         /\ Stream(s)' = Stream(s) \o Units(p)
<1>0. line \in [Sides -> Seq(Pieces)]
  BY DEF IInv, WiresOK
<1>1. line' = [line EXCEPT ![s] = @ \o Units(p)]
  BY DEF Send
<1> DEFINE u == Units(p) x == frame[s] \o ring[s] l == line[s]
<1>2. u \in Seq(Pieces) /\ x \in Seq(Pieces) /\ l \in Seq(Pieces) /\ Stream(s) = x \o l
  BY UnitsFacts, StreamTyped DEF Stream
<1>3. line'[s] = l \o u /\ \A r \in Sides : r # s => line'[r] = line[r]
  BY <1>0, <1>1
<1>4. Stream(s)' = x \o (l \o u)
  BY <1>3 DEF Stream
<1>5. \A r \in Sides : r # s => Stream(r)' = Stream(r)
  BY <1>3, StillStream
<1> HIDE DEF u, x, l
<1>6. (x \o l) \o u = x \o (l \o u)
  BY <1>2, JoinJoin
<1> QED
  BY <1>2, <1>4, <1>5, <1>6, Zenon DEF u

-----------------------------------------------------------------------------
(* Every step keeps the readers in step.                                    *)

LEMMA StillStep ==
  ASSUME NEW s, StepOK(s), Stream(s)' = Stream(s), torn'[s] = torn[s],
         readPc'[s] = readPc[s], frame'[s] = frame[s], missing'[s] = missing[s]
  PROVE  StepOK(s)'
<1>1. ~torn[s] => /\ Whole(Stream(s))
                  /\ readPc[s] = "payload" => Len(frame[s]) + missing[s] = Unit
  BY DEF StepOK
<1>2. ~torn'[s] => /\ Whole(Stream(s)')
                   /\ readPc'[s] = "payload" => Len(frame'[s]) + missing'[s] = Unit
  BY <1>1
<1>3. StepOK(s)' <=> (~torn'[s] => /\ Whole(Stream(s)')
                                   /\ readPc'[s] = "payload"
                                        => Len(frame'[s]) + missing'[s] = Unit)
  BY Zenon DEF StepOK, Whole, Stream, Unit
<1> QED
  BY <1>2, <1>3, Zenon

LEMMA StillStepInv ==
  ASSUME StepInv, UNCHANGED <<line, ring, torn, readPc, frame, missing>>
  PROVE  StepInv'
<1> SUFFICES ASSUME NEW s \in Sides PROVE StepOK(s)'
  BY DEF StepInv
<1>1. StepOK(s) /\ Stream(s)' = Stream(s)
  BY StillStream DEF StepInv
<1> QED
  BY <1>1, StillStep

LEMMA StepBy ==
  ASSUME NEW s, ~torn'[s] => Whole(Stream(s)'),
         ~torn'[s] /\ readPc'[s] = "payload" => Len(frame'[s]) + missing'[s] = Unit
  PROVE  StepOK(s)'
  BY Zenon DEF StepOK, Whole, Stream, Unit

LEMMA ArriveStep ==
  ASSUME IInv, StepInv, NEW s \in Sides, Arrive(s)
  PROVE  StepInv'
<1> SUFFICES ASSUME NEW r \in Sides PROVE StepOK(r)'
  BY DEF StepInv
<1>1. StepOK(r) /\ UNCHANGED <<readPc, frame, missing>>
  BY DEF StepInv, Arrive, readers
<1>2. CASE r # s
  BY <1>1, <1>2, ArriveStream, StillStep
<1>3. CASE r = s /\ torn'[s]
  BY <1>3, StepBy
<1>4. CASE r = s /\ Stream(s)' = Stream(s) /\ torn'[s] = torn[s]
  BY <1>1, <1>4, StillStep
<1> QED
  BY <1>2, <1>3, <1>4, ArriveStream

LEMMA ReaderStep ==
  ASSUME IInv, StepInv, NEW s \in Sides, Reader(s)
  PROVE  StepInv'
<1> SUFFICES ASSUME NEW r \in Sides PROVE StepOK(r)'
  BY DEF StepInv
<1>0. StepOK(r) /\ StepOK(s)
  BY DEF StepInv
<1>1. CASE ReadHeader(s)
  <2>1. CASE r # s
    <3>1. /\ Stream(r)' = Stream(r) /\ torn'[r] = torn[r] /\ readPc'[r] = readPc[r]
          /\ frame'[r] = frame[r] /\ missing'[r] = missing[r]
      BY <1>1, <2>1, HeaderStream
    <3> QED
      BY <1>0, <3>1, StillStep
  <2>2. CASE r = s
    <3>1. torn' = torn
      BY <1>1, HeaderStream
    <3>2. CASE torn[s]
      BY <2>2, <3>1, <3>2, StepBy
    <3>3. CASE ~torn[s]
      <4>1. Whole(Stream(s)) /\ Stream(s) \in Seq(Pieces)
        BY <1>0, <3>3, StreamTyped DEF StepOK
      <4>2. Stream(s) # << >> /\ Head(Stream(s)) = Head(ring[s])
        BY <1>1, HeaderStream
      <4>3. Lengths(Head(ring[s])) = {PayloadUnits}
        BY <4>1, <4>2, WholeHead DEF Lengths
      <4>4. PICK n \in Lengths(Head(ring[s])) :
               n < DriverBuffer
                 => /\ Stream(s)' = Stream(s) /\ Len(frame'[s]) = 1 /\ missing'[s] = n
        BY <1>1, HeaderStream
      <4>5. n = PayloadUnits /\ n < DriverBuffer
        BY <4>3, Sizes
      <4>6. /\ Stream(s)' = Stream(s)
            /\ Len(frame'[s]) + missing'[s] = 1 + PayloadUnits
        BY <4>4, <4>5
      <4> QED
        BY <2>2, <4>1, <4>6, StepBy DEF Unit
    <3> QED
      BY <3>2, <3>3
  <2> QED
    BY <2>1, <2>2
<1>2. CASE ReadPayload(s)
  <2>1. /\ Stream(r)' = Stream(r) /\ torn' = torn /\ readPc' = readPc
        /\ r # s => frame'[r] = frame[r] /\ missing'[r] = missing[r]
    BY <1>2, PayloadStream
  <2>2. CASE r # s
    BY <1>0, <2>1, <2>2, StillStep
  <2>3. CASE r = s
    <3>1. Len(frame'[s]) + missing'[s] = Len(frame[s]) + missing[s]
      <4>1. /\ Len(frame[s]) \in Nat /\ missing[s] \in Nat
            /\ Len(frame'[s]) = Len(frame[s]) + 1 /\ missing'[s] = missing[s] - 1
        BY <1>2, PayloadStream
      <4> DEFINE k == Len(frame[s]) m == missing[s]
      <4> HIDE DEF k, m
      <4>2. k \in Nat /\ m \in Nat /\ (k + 1) + (m - 1) = k + m
        BY <4>1 DEF k, m
      <4> QED
        BY <4>1, <4>2 DEF k, m
    <3>2. /\ ~torn[s] => Whole(Stream(s))
          /\ ~torn[s] /\ readPc[s] = "payload" => Len(frame[s]) + missing[s] = Unit
      BY <1>0 DEF StepOK
    <3> QED
      BY <2>1, <2>3, <3>1, <3>2, StepBy
  <2> QED
    BY <2>2, <2>3
<1>3. CASE CheckPacket(s)
  <2>1. UNCHANGED wires /\ missing' = missing /\ readPc[s] = "payload" /\ missing[s] = 0
    BY <1>3 DEF CheckPacket
  <2>2. CASE IsPacket(frame[s])
    <3>1. /\ UNCHANGED <<line, ring, frame, torn, missing>>
          /\ readPc' = [readPc EXCEPT ![s] = "put"]
      BY <1>3, <2>1, <2>2 DEF CheckPacket, wires
    <3>2. /\ Stream(r)' = Stream(r)
          /\ readPc \in [Sides -> {"open", "header", "payload", "put"}]
      BY <3>1, StillStream DEF IInv, ReadersOK
    <3>3. CASE r # s
      BY <1>0, <3>1, <3>2, <3>3, StillStep
    <3>4. CASE r = s
      <4>1. readPc'[s] = "put"
        BY <3>1, <3>2
      <4>2. ~torn[s] => Whole(Stream(s))
        BY <1>0 DEF StepOK
      <4> QED
        BY <3>1, <3>2, <3>4, <4>1, <4>2, StepBy
    <3> QED
      BY <3>3, <3>4
  <2>3. CASE ~IsPacket(frame[s])
    <3>1. NextPacket(s)
      BY <1>3, <2>3 DEF CheckPacket, NextPacket
    <3>2. CASE r # s
      BY <1>0, <2>1, <3>1, <3>2, NextStream, StillStep
    <3>3. CASE r = s
      <4>1. ~torn[s] => Whole(Stream(s)) /\ Len(frame[s]) + 0 = Unit
        BY <1>0, <2>1 DEF StepOK
      <4>2. Len(frame[s]) \in Nat
        BY StreamTyped, EmptyFacts
      <4>3. Len(frame[s]) + 0 = Len(frame[s])
        BY <4>2
      <4>4. /\ readPc'[s] = "header" /\ torn' = torn /\ frame[s] \in Seq(Pieces)
            /\ Stream(s)' \in Seq(Pieces) /\ Stream(s) = frame[s] \o Stream(s)'
        BY <2>1, <3>1, NextStream
      <4>5. ~torn[s] => Whole(Stream(s)')
        BY <4>1, <4>3, <4>4, WholeRest, Zenon
      <4> QED
        BY <3>3, <4>4, <4>5, StepBy
    <3> QED
      BY <3>2, <3>3
  <2> QED
    BY <2>2, <2>3
<1> QED
  BY <1>1, <1>2, <1>3 DEF Reader

LEMMA PutStep ==
  ASSUME IInv, StepInv, NEW s \in Sides, readPc[s] = "put", NextPacket(s), UNCHANGED wires,
         missing' = missing
  PROVE  StepInv'
<1> SUFFICES ASSUME NEW r \in Sides PROVE StepOK(r)'
  BY DEF StepInv
<1>0. StepOK(r)
  BY DEF StepInv
<1>1. CASE r # s
  BY <1>0, <1>1, NextStream, StillStep
<1>2. CASE r = s
  <2>1. IsPacket(frame[s])
    BY DEF IInv, ReadersOK
  <2>2. /\ readPc'[s] = "header" /\ torn' = torn /\ frame[s] \in Seq(Pieces)
        /\ Stream(s)' \in Seq(Pieces) /\ Stream(s) = frame[s] \o Stream(s)'
    BY NextStream
  <2>3. Len(frame[s]) = Unit
    BY <2>1, <2>2, CheckedFacts DEF Unit
  <2>4. ~torn[s] => Whole(Stream(s))
    BY <1>0, <1>2 DEF StepOK
  <2>5. ~torn[s] => Whole(Stream(s)')
    BY <2>2, <2>3, <2>4, WholeRest, Zenon
  <2> QED
    BY <1>2, <2>2, <2>5, StepBy
<1> QED
  BY <1>1, <1>2

LEMMA SendStep ==
  ASSUME IInv, StepInv, NEW s \in Sides, NEW p \in Packets, Send(s, p),
         UNCHANGED <<ring, torn, readPc, frame, missing>>
  PROVE  StepInv'
<1> SUFFICES ASSUME NEW r \in Sides PROVE StepOK(r)'
  BY DEF StepInv
<1>0. StepOK(r)
  BY DEF StepInv
<1>1. CASE r # s
  BY <1>0, <1>1, SendStream, StillStep
<1>2. CASE r = s
  <2>1. Stream(s)' = Stream(s) \o Units(p) /\ Stream(s) \in Seq(Pieces)
    BY SendStream, StreamTyped
  <2>2. /\ ~torn[s] => Whole(Stream(s))
        /\ ~torn[s] /\ readPc[s] = "payload" => Len(frame[s]) + missing[s] = Unit
    BY <1>0, <1>2 DEF StepOK
  <2>3. ~torn[s] => Whole(Stream(s) \o Units(p))
    BY <2>1, <2>2, WholeSent
  <2> QED
    BY <1>2, <2>1, <2>2, <2>3, StepBy
<1> QED
  BY <1>1, <1>2

LEMMA OpenStep ==
  ASSUME IInv, StepInv, OpenDataPath
  PROVE  StepInv'
<1> SUFFICES ASSUME NEW r \in Sides PROVE StepOK(r)'
  BY DEF StepInv
<1>1. /\ UNCHANGED <<line, ring, torn, frame, missing>>
      /\ readPc' = [readPc EXCEPT !["slave"] = "header"]
      /\ readPc \in [Sides -> {"open", "header", "payload", "put"}]
  BY DEF OpenDataPath, wires, IInv, ReadersOK
<1>2. StepOK(r) /\ Stream(r)' = Stream(r)
  BY <1>1, StillStream DEF StepInv
<1>3. CASE r = "slave"
  <2>1. readPc'[r] = "header" /\ (~torn[r] => Whole(Stream(r)))
    BY <1>1, <1>2, <1>3 DEF StepOK
  <2> QED
    BY <1>1, <1>2, <2>1, StepBy
<1>4. CASE r # "slave"
  BY <1>1, <1>2, <1>4, StillStep
<1> QED
  BY <1>3, <1>4

LEMMA InitStep == Init => StepInv
<1> SUFFICES ASSUME Init, NEW s \in Sides PROVE StepOK(s)
  BY DEF StepInv
<1>1. IInv
  BY InitIInv
<1>2. /\ line[s] = << >> /\ frame[s] = << >> /\ readPc[s] \in {"open", "header"}
      /\ readPc[s] # "payload"
  BY DEF Init
<1>3. PICK n \in 0..Leftover :
         /\ ring = [r \in Sides |-> IF r = "host" THEN OldUnits(n) ELSE << >>]
         /\ torn = [r \in Sides |-> r = "host" /\ n > 0]
  BY DEF Init
<1>4. ~torn[s] => s # "host" \/ n = 0
  <2>1. torn[s] <=> s = "host" /\ n > 0
    BY <1>3, Zenon
  <2>2. n = 0 \/ n > 0
    BY Sizes
  <2> QED
    BY <2>1, <2>2, Zenon
<1>5. ASSUME ~torn[s] PROVE ring[s] = << >>
  <2>1. CASE s # "host"
    BY <1>3, <2>1
  <2>2. CASE s = "host" /\ n = 0
    <3>1. ring[s] = OldUnits(n) /\ n \in Nat
      BY <1>3, <2>2
    <3>2. ring[s] \in Seq(Pieces) /\ Len(ring[s]) = 0
      BY <2>2, <3>1, OldFacts
    <3> QED
      BY <3>2, EmptyFacts
  <2> QED
    BY <1>4, <1>5, <2>1, <2>2
<1>6. ASSUME ~torn[s] PROVE Stream(s) = << >>
  <2>1. << >> \in Seq(Pieces)
    OBVIOUS
  <2>2. << >> \o << >> = << >>
    BY <2>1, EmptyJoin
  <2> QED
    BY <1>2, <1>5, <1>6, <2>2 DEF Stream
<1>7. Whole(<< >>)
  <2>1. 0 % Unit = 0
    <3>1. Unit \in Nat /\ Unit > 0 /\ 0 \in 0..(Unit - 1)
      BY UnitNat
    <3> QED
      BY <3>1, WholeTurns
  <2>2. Len(<< >>) = 0 /\ 1..0 = {}
    OBVIOUS
  <2> QED
    BY <2>1, <2>2 DEF Whole
<1> QED
  BY <1>2, <1>6, <1>7 DEF StepOK

LEMMA StepStepInv == IInv /\ StepInv /\ [Next]_vars => StepInv'
<1> SUFFICES ASSUME IInv, StepInv, [Next]_vars PROVE StepInv'
  OBVIOUS
<1>0. "host" \in Sides /\ "slave" \in Sides
  BY DEF Sides
<1>1. CASE \E q \in Queues : HostQueue(q) \/ HostCount(q)
  BY <1>1, StillStepInv DEF HostQueue, HostCount, wires, readers
<1>2. CASE WriteTask
  <2>1. CASE WriteTake
    BY <2>1, StillStepInv DEF WriteTake, wires, readers
  <2>2. CASE WritePacket
    <3>1. hostTx # << >> /\ hostTx \in Seq(Packets) /\ Len(hostTx) <= 1
      BY <2>2 DEF WritePacket, IInv, WriteOK
    <3>2. hostTx[1] \in Packets
      BY <3>1, OnlyFacts
    <3> QED
      BY <1>0, <2>2, <3>2, SendStep DEF WritePacket, readers
  <2> QED
    BY <1>2, <2>1, <2>2 DEF WriteTask
<1>3. CASE ReadTask
  <2>1. CASE HostPut
    BY <1>0, <2>1, PutStep DEF HostPut
  <2> QED
    BY <1>0, <1>3, <2>1, ReaderStep DEF ReadTask
<1>4. CASE ProcessRxTask
  BY <1>4, StillStepInv DEF ProcessRxTask, HostRxTask, StartWriteTask, wires, readers
<1>5. CASE \E s \in Sides : Arrive(s)
  BY <1>5, ArriveStep
<1>6. CASE RxTask
  <2>1. CASE SlavePut
    BY <1>0, <2>1, PutStep DEF SlavePut
  <2> QED
    BY <1>0, <1>6, <2>1, ReaderStep, OpenStep DEF RxTask
<1>7. CASE RecvTask
  BY <1>7, StillStepInv DEF RecvTask, SlaveRead, SlaveHandle, wires, readers
<1>8. ASSUME NEW t \in Writers, NEW i \in {"serial", "sta", "priv"}, WriteToHost(t, i)
      PROVE  StepInv'
  <2> DEFINE p == Packet(i, slaveSent[QueueOf(i)] + 1)
  <2>1. p \in Packets
    <3>1. slaveSent[QueueOf(i)] + 1 \in Nat
      BY QueueOfInQueues DEF IInv, InOK
    <3> QED
      BY <3>1, PacketIsOne
  <2>2. Send("host", p) /\ UNCHANGED <<ring, torn, readPc, frame, missing>>
    BY <1>8 DEF WriteToHost, readers
  <2> HIDE DEF p
  <2> QED
    BY <1>0, <2>1, <2>2, SendStep
<1>9. CASE SlaveWrite("rpc", "serial") \/ SlaveWrite("wifi", "sta") \/ SlaveStartup
  <2>1. "rpc" \in Writers /\ "wifi" \in Writers /\ "reset" \in Writers
    BY DEF Writers
  <2> QED
    BY <1>8, <1>9, <2>1 DEF SlaveWrite, SlaveStartup
<1>10. CASE \E t \in Writers : Drained(t)
  BY <1>10, StillStepInv DEF Drained, wires, readers
<1>11. CASE UNCHANGED vars
  BY <1>11, StillStepInv DEF vars, wires, readers
<1> QED
  BY <1>1, <1>2, <1>3, <1>4, <1>5, <1>6, <1>7, <1>9, <1>10, <1>11 DEF Next

LEMMA StepInvHolds == Spec => []StepInv
<1> QED
  BY InitStep, StepStepInv, Inductive, PTL DEF Spec

\* As long as nothing was missed the reader stays in step with the sender, though nothing
\* on the wire marks where a packet begins (h_uart_read_task, uart_rx_task): for every
\* length of a payload and every size of the drivers' buffers.
THEOREM InStepHolds == Spec => []InStep
<1>1. IInv /\ StepInv => InStep
  <2> SUFFICES ASSUME IInv, StepInv, NEW s \in Sides, ~torn[s]
               PROVE  /\ \A i \in 1..Len(Stream(s)) :
                            Stream(s)[i].part = (i - 1) % (1 + PayloadUnits)
                      /\ readPc[s] = "payload" => Len(frame[s]) + missing[s] = 1 + PayloadUnits
                      /\ readPc[s] = "put" => Len(frame[s]) = 1 + PayloadUnits
                      /\ readPc[s] \in {"open", "header"} => frame[s] = << >>
    BY DEF InStep
  <2>1. /\ Whole(Stream(s))
        /\ readPc[s] = "payload" => Len(frame[s]) + missing[s] = Unit
    BY DEF StepInv, StepOK
  <2>2. /\ frame[s] \in Seq(Pieces) /\ (readPc[s] = "put" => IsPacket(frame[s]))
        /\ readPc[s] \in {"open", "header"} => frame[s] = << >>
    BY DEF IInv, ReadersOK
  <2>3. readPc[s] = "put" => Len(frame[s]) = 1 + PayloadUnits
    BY <2>2, CheckedFacts
  <2> QED
    BY <2>1, <2>2, <2>3, Zenon DEF Whole, Unit
<1> QED
  BY <1>1, Inductive, StepInvHolds, PTL

-----------------------------------------------------------------------------
(* The order of the packets.  In a stream only headers can become packets;  *)
(* the stages of a direction joined, for each queue, carry headers and      *)
(* packets with numbers above the one handed over last.                     *)

Interfaces == {"serial", "sta", "priv"}
Mine(q) == {i \in Interfaces : QueueOf(i) = q}
Sorted(queues) ==
    \A q \in Queues : \A i \in 1..Len(queues[q]) : queues[q][i].if \in Mine(q)

Marked == [if : {"serial", "sta", "priv", "payload"}, n : Nat]
Mark(u) == [if |-> IF u.part = 0 THEN u.packet.if ELSE "payload", n |-> u.packet.n]
Marks(x) == [i \in 1..Len(x) |-> Mark(x[i])]

FromSlaveStages(q) == fromSlave[q] \o Marks(Stream("host"))
FromSlaveOrder ==
    /\ Sorted(fromSlave)
    /\ \A q \in Queues :
          InOrder(FromSlaveStages(q), Mine(q), LastOf(hostGot[q]), slaveSent[q])

ToSlaveStages(q) == rxQueue[q] \o (Marks(Stream("slave")) \o (hostTx \o toSlave[q]))
ToSlaveOrder ==
    /\ Sorted(toSlave) /\ Sorted(rxQueue)
    /\ \A q \in Queues :
          InOrder(ToSlaveStages(q), Mine(q), LastOf(slaveGot[q]), hostSent[q])

LEMMA MarkedNumbered == Numbered(Marked)
  BY DEF Numbered, Marked

LEMMA PacketsAreMarked == Packets \subseteq Marked /\ Seq(Packets) \subseteq Seq(Marked)
<1>1. Packets \subseteq Marked
  BY DEF Packets, Marked
<1> QED
  BY <1>1

LEMMA MineFacts ==
  /\ \A i \in Interfaces : i \in Mine(QueueOf(i)) /\ QueueOf(i) \in Queues
  /\ \A i \in Interfaces : \A q \in Queues : q # QueueOf(i) => i \notin Mine(q)
  /\ \A q : "payload" \notin Mine(q)
  /\ \A q, i : i \in Mine(q) => i \in Interfaces /\ QueueOf(i) = q
  BY QueueOfInQueues DEF Mine, Interfaces

LEMMA MarkIsMarked == ASSUME NEW u \in Pieces PROVE Mark(u) \in Marked
<1>1. u.packet.if \in {"serial", "sta", "priv"} /\ u.packet.n \in Nat
  BY DEF Pieces, Packets
<1>2. (IF u.part = 0 THEN u.packet.if ELSE "payload") \in {"serial", "sta", "priv", "payload"}
  BY <1>1
<1> QED
  BY <1>1, <1>2 DEF Mark, Marked

LEMMA MarksFacts ==
  ASSUME NEW x \in Seq(Pieces)
  PROVE  /\ Marks(x) \in Seq(Marked) /\ Len(Marks(x)) = Len(x) /\ Len(x) \in Nat
         /\ \A i \in 1..Len(x) : Marks(x)[i] = Mark(x[i])
<1>1. Len(x) \in Nat /\ \A i \in 1..Len(x) : x[i] \in Pieces
  OBVIOUS
<1>2. \A i \in 1..Len(x) : Mark(x[i]) \in Marked
  BY <1>1, MarkIsMarked
<1>3. Marks(x) \in [1..Len(x) -> Marked] /\ \A i \in 1..Len(x) : Marks(x)[i] = Mark(x[i])
  BY <1>2 DEF Marks
<1> DEFINE m == Marks(x) k == Len(x)
<1> HIDE DEF m, k
<1>4. m \in Seq(Marked) /\ Len(m) = k
  <2>1. k \in Nat /\ m \in [1..k -> Marked]
    BY <1>1, <1>3 DEF m, k
  <2> QED
    BY <2>1
<1> QED
  BY <1>1, <1>3, <1>4 DEF m, k

LEMMA MarksJoin ==
  ASSUME NEW x \in Seq(Pieces), NEW y \in Seq(Pieces)
  PROVE  Marks(x \o y) = Marks(x) \o Marks(y)
<1> DEFINE z == x \o y m == Marks(x) n == Marks(y) l == Marks(z) r == m \o n
<1>1. /\ z \in Seq(Pieces) /\ Len(x) \in Nat /\ Len(y) \in Nat /\ Len(z) = Len(x) + Len(y)
      /\ \A i \in 1..Len(x) : z[i] = x[i]
      /\ \A i \in 1..Len(y) : z[Len(x) + i] = y[i]
  BY JoinFacts, JoinElements
<1> HIDE DEF z
<1>2. /\ m \in Seq(Marked) /\ Len(m) = Len(x) /\ \A i \in 1..Len(x) : m[i] = Mark(x[i])
  BY MarksFacts
<1>3. /\ n \in Seq(Marked) /\ Len(n) = Len(y) /\ \A i \in 1..Len(y) : n[i] = Mark(y[i])
  BY MarksFacts
<1>4. /\ l \in Seq(Marked) /\ Len(l) = Len(z) /\ \A i \in 1..Len(z) : l[i] = Mark(z[i])
  <2>1. z \in Seq(Pieces)
    BY <1>1
  <2> QED
    BY <2>1, MarksFacts
<1> HIDE DEF m, n, l
<1>5. /\ r \in Seq(Marked) /\ Len(r) = Len(m) + Len(n)
      /\ \A i \in 1..Len(m) : r[i] = m[i]
      /\ \A i \in 1..Len(n) : r[Len(m) + i] = n[i]
  <2>1. m \in Seq(Marked) /\ n \in Seq(Marked)
    BY <1>2, <1>3
  <2> QED
    BY <2>1, JoinFacts, JoinElements
<1> HIDE DEF r
<1>6. Len(l) = Len(r)
  BY <1>1, <1>2, <1>3, <1>4, <1>5
<1>7. ASSUME NEW i \in 1..Len(l) PROVE l[i] = r[i]
  <2>1. l[i] = Mark(z[i]) /\ i \in 1..(Len(x) + Len(y))
    BY <1>1, <1>4
  <2>2. CASE i \in 1..Len(x)
    <3>1. z[i] = x[i] /\ m[i] = Mark(x[i]) /\ r[i] = m[i]
      BY <1>1, <1>2, <1>5, <2>2, Zenon
    <3> QED
      BY <2>1, <3>1
  <2>3. CASE i \notin 1..Len(x)
    <3> DEFINE j == i - Len(x)
    <3>1. j \in 1..Len(y) /\ Len(x) + j = i
      BY <1>1, <2>1, <2>3
    <3> HIDE DEF j
    <3>2. z[Len(x) + j] = y[j] /\ n[j] = Mark(y[j]) /\ r[Len(x) + j] = n[j]
      BY <1>1, <1>2, <1>3, <1>5, <3>1, Zenon
    <3> QED
      BY <2>1, <3>1, <3>2
  <2> QED
    BY <2>2, <2>3
<1>8. l = r
  BY <1>4, <1>5, <1>6, <1>7, SameElements, Zenon
<1> QED
  BY <1>8 DEF l, r, m, n, z

\* The units of a packet: its header, which stands for it, and payload.
LEMMA MarksUnits ==
  ASSUME NEW p \in Packets
  PROVE  \E f \in Seq(Marked) : /\ Marks(Units(p)) = <<p>> \o f
                                /\ \A i \in 1..Len(f) : f[i].if = "payload"
<1> DEFINE u == Units(p) m == Marks(u) f == Tail(m)
<1>1. /\ u \in Seq(Pieces) /\ Len(u) = 1 + PayloadUnits
      /\ \A i \in 1..(1 + PayloadUnits) : u[i] = [packet |-> p, part |-> i - 1]
  BY UnitsFacts
<1> HIDE DEF u
<1>2. /\ m \in Seq(Marked) /\ Len(m) = 1 + PayloadUnits
      /\ \A i \in 1..(1 + PayloadUnits) : m[i] = Mark(u[i])
  <2>1. m \in Seq(Marked) /\ Len(m) = Len(u) /\ \A i \in 1..Len(u) : m[i] = Mark(u[i])
    BY <1>1, MarksFacts
  <2> QED
    BY <1>1, <2>1, Zenon
<1> HIDE DEF m
<1>3. PayloadUnits \in Nat /\ 1 \in 1..(1 + PayloadUnits) /\ m # << >>
  <2>1. PayloadUnits \in Nat /\ 1 \in 1..(1 + PayloadUnits) /\ 1 + PayloadUnits # 0
    BY Sizes
  <2>2. m # << >>
    BY <1>2, <2>1, EmptyFacts
  <2> QED
    BY <2>1, <2>2
<1>4. m[1] = p
  <2>1. m[1] = Mark([packet |-> p, part |-> 1 - 1])
    BY <1>1, <1>2, <1>3, Zenon
  <2>2. Mark([packet |-> p, part |-> 1 - 1]) = [if |-> p.if, n |-> p.n]
    BY DEF Mark
  <2>3. p = [if |-> p.if, n |-> p.n]
    BY DEF Packets
  <2> QED
    BY <2>1, <2>2, <2>3
<1>5. /\ f \in Seq(Marked) /\ m = <<p>> \o f /\ Len(f) = PayloadUnits
      /\ \A i \in 1..PayloadUnits : f[i] = m[i + 1]
  <2>1. /\ Head(m) = m[1] /\ Len(f) = Len(m) - 1
        /\ \A i \in 1..(Len(m) - 1) : f[i] = m[i + 1]
    BY <1>2, <1>3, TailElements
  <2>2. Len(m) - 1 = PayloadUnits
    BY <1>2, <1>3
  <2>3. f \in Seq(Marked) /\ <<Head(m)>> \o f = m
    BY <1>2, <1>3, TailFacts, HeadMoves
  <2> QED
    BY <1>4, <2>1, <2>2, <2>3, Zenon
<1>6. ASSUME NEW i \in 1..Len(f) PROVE f[i].if = "payload"
  <2>1. /\ i \in 1..PayloadUnits /\ i + 1 \in 1..(1 + PayloadUnits)
        /\ (i + 1) - 1 = i /\ i # 0
    BY <1>3, <1>5, <1>6
  <2>2. f[i] = Mark(u[i + 1]) /\ u[i + 1] = [packet |-> p, part |-> (i + 1) - 1]
    BY <1>1, <1>2, <1>5, <2>1, Zenon
  <2>3. Mark([packet |-> p, part |-> i]).if = "payload"
    BY <2>1 DEF Mark
  <2> QED
    BY <2>1, <2>2, <2>3
<1> QED
  BY <1>5, <1>6 DEF m, u

-----------------------------------------------------------------------------
(* What happens to a stream, seen from the stages it is part of.            *)

\* Units that are lost leave the rest in order.
LEMMA LessMarks ==
  ASSUME NEW s \in Seq(Marked), NEW t \in Seq(Marked), NEW x, NEW y, LessOf(x, y),
         NEW ifs, NEW a, NEW b
  PROVE  InOrder(s \o (Marks(x) \o t), ifs, a, b) => InOrder(s \o (Marks(y) \o t), ifs, a, b)
<1>1. PICK c, f, d \in Seq(Pieces) : x = c \o (f \o d) /\ y = c \o d
  BY DEF LessOf
<1> DEFINE mc == Marks(c) mf == Marks(f) md == Marks(d)
<1>2. mc \in Seq(Marked) /\ mf \in Seq(Marked) /\ md \in Seq(Marked)
  BY MarksFacts
<1>3. Marks(x) = mc \o (mf \o md) /\ Marks(y) = mc \o md
  <2>1. f \o d \in Seq(Pieces)
    BY JoinFacts
  <2>2. Marks(c \o (f \o d)) = mc \o Marks(f \o d)
    BY <2>1, MarksJoin
  <2>3. Marks(f \o d) = mf \o md /\ Marks(c \o d) = mc \o md
    BY MarksJoin
  <2> QED
    BY <1>1, <2>2, <2>3
<1> HIDE DEF mc, mf, md
<1>4. InOrder(s \o ((mc \o (mf \o md)) \o t), ifs, a, b)
        => InOrder(s \o ((mc \o md) \o t), ifs, a, b)
  BY <1>2, LostInside
<1> QED
  BY <1>3, <1>4

\* A packet that has been read whole goes on without its payload's units.
LEMMA PutMarks ==
  ASSUME NEW s \in Seq(Marked), NEW t \in Seq(Marked), NEW y \in Seq(Pieces),
         NEW p \in Packets, NEW ifs, NEW a, NEW b
  PROVE  InOrder(s \o (Marks(Units(p) \o y) \o t), ifs, a, b)
           => /\ InOrder(Append(s, p) \o (Marks(y) \o t), ifs, a, b)
              /\ p.if \notin ifs => InOrder(s \o (Marks(y) \o t), ifs, a, b)
<1>1. PICK f \in Seq(Marked) : Marks(Units(p)) = <<p>> \o f
  BY MarksUnits
<1> DEFINE my == Marks(y)
<1>2. my \in Seq(Marked) /\ p \in Marked
  BY MarksFacts, PacketsAreMarked
<1>3. Marks(Units(p) \o y) = (<<p>> \o f) \o my
  <2>1. Units(p) \in Seq(Pieces)
    BY UnitsFacts
  <2>2. Marks(Units(p) \o y) = Marks(Units(p)) \o my
    BY <2>1, MarksJoin
  <2> QED
    BY <1>1, <2>2
<1> HIDE DEF my
<1>4. InOrder(s \o (((<<p>> \o f) \o my) \o t), ifs, a, b)
        => /\ InOrder(Append(s, p) \o (my \o t), ifs, a, b)
           /\ p.if \notin ifs => InOrder(s \o (my \o t), ifs, a, b)
  BY <1>2, LeftInside
<1> QED
  BY <1>3, <1>4 DEF my

\* A packet that is sent becomes units at the end of the stream.
LEMMA SendMarks ==
  ASSUME NEW s \in Seq(Marked), NEW t \in Seq(Marked), NEW x \in Seq(Pieces),
         NEW p \in Packets, NEW ifs, "payload" \notin ifs, NEW a, NEW b
  PROVE  InOrder((s \o Marks(x)) \o (<<p>> \o t), ifs, a, b)
           => InOrder(s \o (Marks(x \o Units(p)) \o t), ifs, a, b)
<1>1. PICK f \in Seq(Marked) : /\ Marks(Units(p)) = <<p>> \o f
                               /\ \A i \in 1..Len(f) : f[i].if = "payload"
  BY MarksUnits
<1> DEFINE mx == Marks(x)
<1>2. mx \in Seq(Marked) /\ p \in Marked
  BY MarksFacts, PacketsAreMarked
<1>3. Marks(x \o Units(p)) = mx \o (<<p>> \o f)
  <2>1. Units(p) \in Seq(Pieces)
    BY UnitsFacts
  <2>2. Marks(x \o Units(p)) = mx \o Marks(Units(p))
    BY <2>1, MarksJoin
  <2> QED
    BY <1>1, <2>2
<1> HIDE DEF mx
<1>4. \A i \in 1..Len(f) : f[i].if \notin ifs
  BY <1>1
<1>5. InOrder((s \o mx) \o (<<p>> \o t), ifs, a, b)
        => InOrder(s \o ((mx \o (<<p>> \o f)) \o t), ifs, a, b)
  <2>1. mx \in Seq(Marked) /\ p \in Marked
    BY <1>2
  <2> QED
    BY <1>4, <2>1, AddedInside
<1> QED
  BY <1>3, <1>5 DEF mx

-----------------------------------------------------------------------------
\* What PutIn does to each queue.
LEMMA PutEach ==
  ASSUME NEW f \in [Queues -> Seq(Packets)], NEW p \in Packets, Sorted(f)
  PROVE  /\ QueueOf(p.if) \in Queues /\ p.if \in Mine(QueueOf(p.if))
         /\ PutIn(f, p)[QueueOf(p.if)] = Append(f[QueueOf(p.if)], p)
         /\ \A q \in Queues : q # QueueOf(p.if)
              => PutIn(f, p)[q] = f[q] /\ p.if \notin Mine(q)
         /\ Sorted(PutIn(f, p))
<1> DEFINE r == QueueOf(p.if) s == Append(f[r], p) g == PutIn(f, p)
<1>1. p.if \in Interfaces
  BY DEF Packets, Interfaces
<1>2. /\ r \in Queues /\ p.if \in Mine(r)
      /\ \A q \in Queues : q # r => p.if \notin Mine(q)
  BY <1>1, MineFacts
<1>3. g[r] = s /\ \A q \in Queues : q # r => g[q] = f[q]
  BY <1>2 DEF PutIn
<1> HIDE DEF r, g
<1>4. /\ Len(f[r]) \in Nat /\ Len(s) = Len(f[r]) + 1 /\ s[Len(f[r]) + 1] = p
      /\ \A i \in 1..Len(f[r]) : s[i] = f[r][i]
  BY <1>2, AppendElements
<1>5. \A i \in 1..Len(s) : s[i].if \in Mine(r)
  <2>1. \A i \in 1..Len(f[r]) : f[r][i].if \in Mine(r)
    BY <1>2 DEF Sorted
  <2> HIDE DEF s
  <2> QED
    BY <1>2, <1>4, <2>1
<1>6. Sorted(g)
  BY <1>3, <1>5 DEF Sorted
<1> QED
  BY <1>2, <1>3, <1>6 DEF r, g

\* What taking the first packet of one queue does to each.
LEMMA TakeEach ==
  ASSUME NEW f \in [Queues -> Seq(Packets)], NEW r \in Queues, f[r] # << >>, Sorted(f),
         NEW g, g[r] = Tail(f[r]), \A q \in Queues : q # r => g[q] = f[q]
  PROVE  /\ Head(f[r]) \in Packets /\ Head(f[r]).if \in Mine(r)
         /\ \A q \in Queues : q # r => Head(f[r]).if \notin Mine(q)
         /\ Sorted(g)
<1> DEFINE s == f[r]
<1>1. /\ s \in Seq(Packets) /\ Len(s) \in Nat \ {0} /\ Len(Tail(s)) = Len(s) - 1
      /\ Head(s) = s[1] /\ Head(s) \in Packets
      /\ \A i \in 1..(Len(s) - 1) : Tail(s)[i] = s[i + 1]
  BY TailElements, TailFacts
<1>2. g[r] = Tail(s)
  OBVIOUS
<1>3. \A i \in 1..Len(s) : s[i].if \in Mine(r)
  BY DEF Sorted
<1> HIDE DEF s
<1>4. Head(s).if \in Mine(r)
  BY <1>1, <1>3
<1>5. \A q \in Queues : q # r => Head(s).if \notin Mine(q)
  BY <1>4, MineFacts
<1>6. \A i \in 1..Len(Tail(s)) : Tail(s)[i].if \in Mine(r)
  BY <1>1, <1>3
<1>7. Sorted(g)
  BY <1>2, <1>6 DEF Sorted
<1> QED
  BY <1>1, <1>2, <1>4, <1>5, <1>7 DEF s

-----------------------------------------------------------------------------
(* Towards the host.                                                        *)

LEMMA FromSlaveTyped ==
  ASSUME IInv
  PROVE  /\ Stream("host") \in Seq(Pieces) /\ Marks(Stream("host")) \in Seq(Marked)
         /\ fromSlave \in [Queues -> Seq(Packets)]
         /\ \A q \in Queues :
               fromSlave[q] \in Seq(Marked) /\ FromSlaveStages(q) \in Seq(Marked)
         /\ hostGot \in [Queues -> Seq(Nat)] /\ slaveSent \in [Queues -> Nat]
         /\ \A q \in Queues : LastOf(hostGot[q]) \in Nat
<1>1. /\ fromSlave \in [Queues -> Seq(Packets)]
      /\ hostGot \in [Queues -> Seq(Nat)] /\ slaveSent \in [Queues -> Nat]
  BY DEF IInv, OutOK, InOK
<1>2. Stream("host") \in Seq(Pieces)
  <2>1. "host" \in Sides
    BY DEF Sides
  <2> QED
    BY <2>1, StreamTyped
<1>3. Marks(Stream("host")) \in Seq(Marked)
  BY <1>2, MarksFacts
<1>4. \A q \in Queues : fromSlave[q] \in Seq(Marked)
  BY <1>1, PacketsAreMarked
<1>5. \A q \in Queues : FromSlaveStages(q) \in Seq(Marked)
  BY <1>3, <1>4, JoinFacts DEF FromSlaveStages
<1>6. \A q \in Queues : LastOf(hostGot[q]) \in Nat
  BY <1>1, LastFacts
<1> QED
  BY <1>1, <1>2, <1>3, <1>4, <1>5, <1>6

\* Units are lost, or nothing changes.
LEMMA LostFromSlave ==
  ASSUME IInv, FromSlaveOrder, LessOf(Stream("host"), Stream("host")'),
         UNCHANGED <<fromSlave, hostGot, slaveSent>>
  PROVE  FromSlaveOrder' /\ UNCHANGED FromSlaveLink!vars
<1> DEFINE x == Stream("host") y == Stream("host")' e == << >>
<1>1. UNCHANGED FromSlaveLink!vars
  BY DEF FromSlaveLink!vars
<1>2. LessOf(x, y)
  OBVIOUS
<1>3. x \in Seq(Pieces) /\ Marks(x) \in Seq(Marked)
  BY FromSlaveTyped
<1>4. \A q \in Queues :
         /\ FromSlaveStages(q) = fromSlave[q] \o Marks(x)
         /\ FromSlaveStages(q)' = fromSlave[q] \o Marks(y)
  BY Zenon DEF FromSlaveStages, Marks
<1> HIDE DEF x, y
<1>5. y \in Seq(Pieces) /\ Marks(y) \in Seq(Marked)
  <2>1. y \in Seq(Pieces)
    BY <1>2, JoinFacts DEF LessOf
  <2> QED
    BY <2>1, MarksFacts
<1>6. e \in Seq(Marked) /\ Marks(x) \o e = Marks(x) /\ Marks(y) \o e = Marks(y)
  <2>1. e \in Seq(Marked)
    OBVIOUS
  <2> QED
    BY <1>3, <1>5, <2>1, EmptyJoin
<1> HIDE DEF e
<1>7. ASSUME NEW q \in Queues
      PROVE  InOrder(FromSlaveStages(q)', Mine(q), LastOf(hostGot[q]), slaveSent[q])
  <2> DEFINE s == fromSlave[q]
  <2>1. s \in Seq(Marked)
    BY FromSlaveTyped
  <2>2. InOrder(s \o Marks(x), Mine(q), LastOf(hostGot[q]), slaveSent[q])
    BY <1>4 DEF FromSlaveOrder
  <2> HIDE DEF s
  <2>3. InOrder(s \o (Marks(x) \o e), Mine(q), LastOf(hostGot[q]), slaveSent[q])
          => InOrder(s \o (Marks(y) \o e), Mine(q), LastOf(hostGot[q]), slaveSent[q])
    BY <1>2, <1>6, <2>1, LessMarks
  <2>4. InOrder(s \o Marks(y), Mine(q), LastOf(hostGot[q]), slaveSent[q])
    BY <1>6, <2>2, <2>3, Zenon
  <2> QED
    BY <1>4, <2>4 DEF s
<1> QED
  BY <1>1, <1>7 DEF FromSlaveOrder, Sorted

LEMMA SameFromSlave ==
  ASSUME IInv, FromSlaveOrder, Stream("host")' = Stream("host"),
         UNCHANGED <<fromSlave, hostGot, slaveSent>>
  PROVE  FromSlaveOrder' /\ UNCHANGED FromSlaveLink!vars
<1>1. UNCHANGED FromSlaveLink!vars
  BY DEF FromSlaveLink!vars
<1>2. \A q \in Queues : FromSlaveStages(q)' = FromSlaveStages(q)
  BY Zenon DEF FromSlaveStages, Marks
<1> QED
  BY <1>1, <1>2 DEF FromSlaveOrder, Sorted

\* A task of the co-processor writes a packet.
LEMMA SendFromSlave ==
  ASSUME IInv, FromSlaveOrder, NEW t, NEW interface \in Interfaces,
         WriteToHost(t, interface)
  PROVE  FromSlaveOrder' /\ FromSlaveLink!Next
<1>1. PICK r \in Queues : r = QueueOf(interface)
  BY QueueOfInQueues
<1> DEFINE p == Packet(interface, slaveSent[r] + 1) x == Stream("host") e == << >>
<1>2. /\ Send("host", p) /\ slaveSent' = [slaveSent EXCEPT ![r] = @ + 1]
      /\ UNCHANGED <<ring, frame, fromSlave, hostGot>>
  BY <1>1 DEF WriteToHost, hostOut, readers
<1>3. slaveSent \in [Queues -> Nat] /\ slaveSent[r] \in Nat /\ slaveSent[r] + 1 \in Nat
  BY FromSlaveTyped
<1>4. /\ p \in Packets /\ p.n = slaveSent[r] + 1
      /\ p.if \in Mine(r) /\ \A q \in Queues : q # r => p.if \notin Mine(q)
  <2>1. p.if = interface /\ p.n = slaveSent[r] + 1
    BY DEF Packet
  <2>2. p \in Packets
    BY <1>3, PacketIsOne DEF Interfaces
  <2> HIDE DEF p
  <2> QED
    BY <1>1, <2>1, <2>2, MineFacts
<1> HIDE DEF p
<1>5. Stream("host")' = x \o Units(p)
  <2>1. "host" \in Sides
    BY DEF Sides
  <2> QED
    BY <1>2, <1>4, <2>1, SendStream
<1>6. x \in Seq(Pieces) /\ Marks(x) \in Seq(Marked) /\ p \in Marked
  BY <1>4, FromSlaveTyped, PacketsAreMarked
<1>7. /\ slaveSent'[r] = slaveSent[r] + 1
      /\ \A q \in Queues : q # r => slaveSent'[q] = slaveSent[q]
  BY <1>2, <1>3
<1>8. ASSUME NEW q \in Queues
      PROVE  InOrder(FromSlaveStages(q)', Mine(q), LastOf(hostGot[q]), slaveSent'[q])
  <2> DEFINE s == fromSlave[q] y == x \o Units(p) u == s \o Marks(x)
  <2>1. /\ s \in Seq(Marked) /\ LastOf(hostGot[q]) \in Nat /\ slaveSent[q] \in Nat
        /\ u \in Seq(Marked)
    BY FromSlaveTyped DEF FromSlaveStages
  <2>2. InOrder(u, Mine(q), LastOf(hostGot[q]), slaveSent[q])
    BY DEF FromSlaveOrder, FromSlaveStages
  <2>3. FromSlaveStages(q)' = s \o Marks(y)
    BY <1>2, <1>5, Zenon DEF FromSlaveStages, Marks
  <2>4. Marks(y) \in Seq(Marked)
    <3>1. Units(p) \in Seq(Pieces)
      BY <1>4, UnitsFacts
    <3>2. y \in Seq(Pieces)
      BY <1>6, <3>1, JoinFacts
    <3> HIDE DEF y
    <3> QED
      BY <3>2, MarksFacts
  <2> HIDE DEF x
  <2>5. InOrder(Append(u, p), Mine(q), LastOf(hostGot[q]), slaveSent'[q])
    <3> HIDE DEF u
    <3>1. CASE q = r
      <4>1. InOrder(Append(u, p), Mine(q), LastOf(hostGot[q]), slaveSent[q] + 1)
        BY <1>4, <1>6, <2>1, <2>2, <3>1, MarkedNumbered, Accepted
      <4> QED
        BY <1>7, <3>1, <4>1
    <3>2. CASE q # r
      <4>1. InOrder(Append(u, p), Mine(q), LastOf(hostGot[q]), slaveSent[q])
        BY <1>4, <1>6, <2>1, <2>2, <3>2, MarkedNumbered, Accepted
      <4> QED
        BY <1>7, <3>2, <4>1
    <3> QED
      BY <3>1, <3>2
  <2>6. e \in Seq(Marked)
    OBVIOUS
  <2>7. Append(u, p) = u \o (<<p>> \o e)
    <3>1. u \in Seq(Marked) /\ p \in Marked /\ <<p>> \in Seq(Marked)
      BY <1>6, <2>1
    <3>2. <<p>> \o e = <<p>>
      BY <3>1
    <3> HIDE DEF u, e
    <3>3. Append(u, p) = u \o <<p>>
      BY <3>1
    <3> QED
      BY <3>2, <3>3
  <2>8. Marks(y) \o e = Marks(y)
    <3> HIDE DEF y
    <3> QED
      BY <2>4
  <2> HIDE DEF s, e
  <2>9. InOrder((s \o Marks(x)) \o (<<p>> \o e), Mine(q), LastOf(hostGot[q]), slaveSent'[q])
          => InOrder(s \o (Marks(x \o Units(p)) \o e), Mine(q), LastOf(hostGot[q]),
                     slaveSent'[q])
    <3>1. "payload" \notin Mine(q)
      BY MineFacts
    <3>2. x \in Seq(Pieces) /\ s \in Seq(Marked)
      BY <1>6, <2>1
    <3> QED
      BY <1>4, <2>6, <3>1, <3>2, SendMarks
  <2> QED
    BY <2>3, <2>5, <2>7, <2>8, <2>9
<1>9. FromSlaveOrder'
  BY <1>2, <1>8 DEF FromSlaveOrder, Sorted
<1>10. FromSlaveLink!Next
  BY <1>2 DEF FromSlaveLink!Next, FromSlaveLink!Accept
<1> QED
  BY <1>9, <1>10

\* h_uart_read_task puts the packet it has read into its queue.
LEMMA PutFromSlave ==
  ASSUME IInv, FromSlaveOrder, HostPut
  PROVE  FromSlaveOrder' /\ UNCHANGED FromSlaveLink!vars
<1> DEFINE f == frame["host"] p == f[1].packet x == Stream("host") y == Stream("host")'
           e == << >>
<1>1. /\ fromSlave' = PutIn(fromSlave, p) /\ NextPacket("host") /\ UNCHANGED wires
      /\ hostGot' = hostGot /\ slaveSent' = slaveSent
  BY DEF HostPut, slaveIn
<1>2. f \in Seq(Pieces) /\ IsPacket(f)
  BY DEF HostPut, IInv, ReadersOK, Sides
<1>3. y \in Seq(Pieces) /\ x = f \o y
  <2>1. "host" \in Sides
    BY DEF Sides
  <2> QED
    BY <1>1, <2>1, NextStream
<1>4. p \in Packets /\ f = Units(p)
  <2> HIDE DEF f
  <2> QED
    BY <1>2, CheckedFacts
<1>5. \A q \in Queues :
         /\ FromSlaveStages(q) = fromSlave[q] \o Marks(x)
         /\ FromSlaveStages(q)' = fromSlave'[q] \o Marks(y)
  BY Zenon DEF FromSlaveStages, Marks
<1> HIDE DEF f, p, x, y
<1>6. /\ e \in Seq(Marked) /\ Marks(x) \o e = Marks(x) /\ Marks(y) \o e = Marks(y)
      /\ x = Units(p) \o y
  <2>1. e \in Seq(Marked)
    OBVIOUS
  <2>2. Marks(x) \in Seq(Marked) /\ Marks(y) \in Seq(Marked)
    BY <1>3, FromSlaveTyped, MarksFacts DEF x
  <2> QED
    BY <1>3, <1>4, <2>1, <2>2, EmptyJoin
<1> HIDE DEF e
<1>7. PICK r \in Queues :
         /\ fromSlave'[r] = Append(fromSlave[r], p)
         /\ \A q \in Queues : q # r => fromSlave'[q] = fromSlave[q] /\ p.if \notin Mine(q)
         /\ Sorted(fromSlave')
  <2> DEFINE g == fromSlave
  <2>1. g \in [Queues -> Seq(Packets)] /\ Sorted(g)
    BY FromSlaveTyped DEF FromSlaveOrder
  <2> HIDE DEF g
  <2>2. /\ QueueOf(p.if) \in Queues
        /\ PutIn(g, p)[QueueOf(p.if)] = Append(g[QueueOf(p.if)], p)
        /\ \A q \in Queues : q # QueueOf(p.if) => PutIn(g, p)[q] = g[q] /\ p.if \notin Mine(q)
        /\ Sorted(PutIn(g, p))
    BY <1>4, <2>1, PutEach
  <2> QED
    BY <1>1, <2>2 DEF g, p
<1>8. ASSUME NEW q \in Queues
      PROVE  InOrder(FromSlaveStages(q)', Mine(q), LastOf(hostGot[q]), slaveSent[q])
  <2> DEFINE s == fromSlave[q]
  <2>1. s \in Seq(Marked)
    BY FromSlaveTyped
  <2>2. InOrder(s \o Marks(x), Mine(q), LastOf(hostGot[q]), slaveSent[q])
    BY <1>5 DEF FromSlaveOrder
  <2> HIDE DEF s
  <2>3. InOrder(s \o (Marks(Units(p) \o y) \o e), Mine(q), LastOf(hostGot[q]), slaveSent[q])
          => /\ InOrder(Append(s, p) \o (Marks(y) \o e), Mine(q), LastOf(hostGot[q]),
                        slaveSent[q])
             /\ p.if \notin Mine(q)
                  => InOrder(s \o (Marks(y) \o e), Mine(q), LastOf(hostGot[q]), slaveSent[q])
    <3>1. y \in Seq(Pieces) /\ e \in Seq(Marked)
      BY <1>3, <1>6
    <3> QED
      BY <1>4, <2>1, <3>1, PutMarks
  <2>4. /\ InOrder(Append(s, p) \o Marks(y), Mine(q), LastOf(hostGot[q]), slaveSent[q])
        /\ p.if \notin Mine(q)
             => InOrder(s \o Marks(y), Mine(q), LastOf(hostGot[q]), slaveSent[q])
    BY <1>6, <2>2, <2>3, Zenon
  <2>5. fromSlave'[q] = Append(s, p) \/ (fromSlave'[q] = s /\ p.if \notin Mine(q))
    BY <1>7 DEF s
  <2> QED
    BY <1>5, <2>4, <2>5
<1> QED
  BY <1>1, <1>7, <1>8 DEF FromSlaveOrder, Sorted, FromSlaveLink!vars

LEMMA HandFromSlave ==
  ASSUME IInv, FromSlaveOrder, HostRxTask
  PROVE  FromSlaveOrder' /\ FromSlaveLink!Next
<1>1. Waiting(fromSlave) > 0
  BY DEF IInv, FromSlaveCount, OutOK, HostRxTask
<1>2. PICK r \in Queues : fromSlave[r] # << >> /\ r = FirstQueue(fromSlave)
  BY <1>1, FromSlaveTyped, WaitingFacts
<1> DEFINE p == Head(fromSlave[r]) t == Marks(Stream("host"))
<1>3. /\ fromSlave' = [fromSlave EXCEPT ![r] = Tail(@)]
      /\ hostGot' = [hostGot EXCEPT ![r] = Append(@, p.n)]
      /\ slaveSent' = slaveSent /\ UNCHANGED <<frame, ring, line>>
  BY <1>2 DEF HostRxTask, slaveIn, wires, readers
<1>4. /\ p.if \in Mine(r) /\ fromSlave'[r] = Tail(fromSlave[r])
      /\ \A q \in Queues : q # r => fromSlave'[q] = fromSlave[q]
      /\ Sorted(fromSlave')
  <2> DEFINE f == fromSlave g == fromSlave'
  <2>1. f \in [Queues -> Seq(Packets)] /\ Sorted(f) /\ f[r] # << >>
    BY <1>2, FromSlaveTyped DEF FromSlaveOrder
  <2>2. g[r] = Tail(f[r]) /\ \A q \in Queues : q # r => g[q] = f[q]
    BY <1>3, <2>1
  <2> HIDE DEF f, g
  <2>3. Head(f[r]).if \in Mine(r) /\ Sorted(g)
    BY <1>2, <2>1, <2>2, TakeEach
  <2> QED
    BY <2>2, <2>3 DEF f, g
<1>5. \A q \in Queues : FromSlaveStages(q) = fromSlave[q] \o t
                        /\ FromSlaveStages(q)' = fromSlave'[q] \o t
  <2>1. Stream("host")' = Stream("host")
    BY <1>3, StillStream
  <2> QED
    BY <2>1, Zenon DEF FromSlaveStages, Marks
<1>6. /\ fromSlave[r] \in Seq(Marked) /\ t \in Seq(Marked)
      /\ LastOf(hostGot[r]) \in Nat /\ slaveSent[r] \in Nat
  BY FromSlaveTyped
<1>7. InOrder(fromSlave[r] \o t, Mine(r), LastOf(hostGot[r]), slaveSent[r])
  BY <1>5 DEF FromSlaveOrder
<1>8. /\ p.n \in (LastOf(hostGot[r]) + 1)..slaveSent[r]
      /\ InOrder(Tail(fromSlave[r]) \o t, Mine(r), p.n, slaveSent[r])
  <2> DEFINE s == fromSlave[r]
  <2>1. s \in Seq(Marked) /\ s # << >> /\ Head(s).if \in Mine(r)
    BY <1>2, <1>4, <1>6
  <2>2. InOrder(s \o t, Mine(r), LastOf(hostGot[r]), slaveSent[r])
    BY <1>7
  <2> HIDE DEF s, t
  <2>3. /\ Head(s).n \in (LastOf(hostGot[r]) + 1)..slaveSent[r]
        /\ InOrder(Tail(s) \o t, Mine(r), Head(s).n, slaveSent[r])
    BY <1>6, <2>1, <2>2, MarkedNumbered, HandedOver
  <2> QED
    BY <2>3 DEF s
<1> HIDE DEF p, t
<1>9. /\ hostGot'[r] = Append(hostGot[r], p.n) /\ LastOf(hostGot'[r]) = p.n
      /\ \A q \in Queues : q # r => hostGot'[q] = hostGot[q]
  <2>1. hostGot \in [Queues -> Seq(Nat)] /\ p.n \in Nat
    BY <1>6, <1>8, FromSlaveTyped
  <2>2. /\ hostGot'[r] = Append(hostGot[r], p.n)
        /\ \A q \in Queues : q # r => hostGot'[q] = hostGot[q]
    BY <1>3, <2>1
  <2>3. hostGot[r] \in Seq(Nat)
    BY <2>1
  <2> QED
    BY <2>1, <2>2, <2>3, LastFacts
<1>10. FromSlaveOrder'
  <2> SUFFICES ASSUME NEW q \in Queues
               PROVE  InOrder(FromSlaveStages(q)', Mine(q), LastOf(hostGot'[q]), slaveSent[q])
    BY <1>3, <1>4 DEF FromSlaveOrder, Sorted
  <2>1. CASE q = r
    BY <1>4, <1>5, <1>8, <1>9, <2>1
  <2>2. CASE q # r
    <3>1. InOrder(FromSlaveStages(q), Mine(q), LastOf(hostGot[q]), slaveSent[q])
      BY DEF FromSlaveOrder
    <3> QED
      BY <1>4, <1>5, <1>9, <2>2, <3>1
  <2> QED
    BY <2>1, <2>2
<1>11. FromSlaveLink!Next
  <2>1. FromSlaveLink!Last(hostGot[r]) = LastOf(hostGot[r])
    BY DEF FromSlaveLink!Last, LastOf
  <2> QED
    BY <1>3, <1>8, <2>1 DEF FromSlaveLink!Next, FromSlaveLink!Deliver, p
<1> QED
  BY <1>10, <1>11

-----------------------------------------------------------------------------
(* Towards the co-processor.                                                *)

LEMMA ToSlaveTyped ==
  ASSUME IInv
  PROVE  /\ Stream("slave") \in Seq(Pieces) /\ Marks(Stream("slave")) \in Seq(Marked)
         /\ toSlave \in [Queues -> Seq(Packets)] /\ rxQueue \in [Queues -> Seq(Packets)]
         /\ hostTx \in Seq(Packets) /\ hostTx \in Seq(Marked) /\ Len(hostTx) <= 1
         /\ \A q \in Queues :
               /\ toSlave[q] \in Seq(Marked) /\ rxQueue[q] \in Seq(Marked)
               /\ hostTx \o toSlave[q] \in Seq(Marked)
               /\ Marks(Stream("slave")) \o (hostTx \o toSlave[q]) \in Seq(Marked)
               /\ ToSlaveStages(q) \in Seq(Marked)
         /\ slaveGot \in [Queues -> Seq(Nat)] /\ hostSent \in [Queues -> Nat]
         /\ \A q \in Queues : LastOf(slaveGot[q]) \in Nat
<1>1. /\ toSlave \in [Queues -> Seq(Packets)] /\ rxQueue \in [Queues -> Seq(Packets)]
      /\ hostTx \in Seq(Packets) /\ Len(hostTx) <= 1
      /\ slaveGot \in [Queues -> Seq(Nat)] /\ hostSent \in [Queues -> Nat]
  BY DEF IInv, SendersOK, WriteOK, SlaveOutOK
<1>2. Stream("slave") \in Seq(Pieces)
  <2>1. "slave" \in Sides
    BY DEF Sides
  <2> QED
    BY <2>1, StreamTyped
<1>3. Marks(Stream("slave")) \in Seq(Marked)
  BY <1>2, MarksFacts
<1>4. hostTx \in Seq(Marked)
  BY <1>1, PacketsAreMarked
<1>5. ASSUME NEW q \in Queues
      PROVE  /\ toSlave[q] \in Seq(Marked) /\ rxQueue[q] \in Seq(Marked)
             /\ hostTx \o toSlave[q] \in Seq(Marked)
             /\ Marks(Stream("slave")) \o (hostTx \o toSlave[q]) \in Seq(Marked)
             /\ ToSlaveStages(q) \in Seq(Marked)
  <2>1. toSlave[q] \in Seq(Marked) /\ rxQueue[q] \in Seq(Marked)
    BY <1>1, PacketsAreMarked
  <2>2. hostTx \o toSlave[q] \in Seq(Marked)
    BY <1>4, <2>1, JoinFacts
  <2>3. Marks(Stream("slave")) \o (hostTx \o toSlave[q]) \in Seq(Marked)
    BY <1>3, <2>2, JoinFacts
  <2> QED
    BY <2>1, <2>2, <2>3, JoinFacts DEF ToSlaveStages
<1>6. \A q \in Queues : LastOf(slaveGot[q]) \in Nat
  BY <1>1, LastFacts
<1> QED
  BY <1>1, <1>2, <1>3, <1>4, <1>5, <1>6

LEMMA LostToSlave ==
  ASSUME IInv, ToSlaveOrder, LessOf(Stream("slave"), Stream("slave")'),
         UNCHANGED <<toSlave, hostTx, rxQueue, slaveGot, hostSent>>
  PROVE  ToSlaveOrder' /\ UNCHANGED ToSlaveLink!vars
<1> DEFINE x == Stream("slave") y == Stream("slave")'
<1>1. UNCHANGED ToSlaveLink!vars
  BY DEF ToSlaveLink!vars
<1>2. LessOf(x, y)
  OBVIOUS
<1>3. \A q \in Queues :
         /\ ToSlaveStages(q) = rxQueue[q] \o (Marks(x) \o (hostTx \o toSlave[q]))
         /\ ToSlaveStages(q)' = rxQueue[q] \o (Marks(y) \o (hostTx \o toSlave[q]))
  BY Zenon DEF ToSlaveStages, Marks
<1> HIDE DEF x, y
<1>4. ASSUME NEW q \in Queues
      PROVE  InOrder(ToSlaveStages(q)', Mine(q), LastOf(slaveGot[q]), hostSent[q])
  <2> DEFINE s == rxQueue[q] t == hostTx \o toSlave[q]
  <2>1. s \in Seq(Marked) /\ t \in Seq(Marked)
    BY ToSlaveTyped
  <2>2. InOrder(s \o (Marks(x) \o t), Mine(q), LastOf(slaveGot[q]), hostSent[q])
    BY <1>3 DEF ToSlaveOrder
  <2> HIDE DEF s, t
  <2>3. InOrder(s \o (Marks(x) \o t), Mine(q), LastOf(slaveGot[q]), hostSent[q])
          => InOrder(s \o (Marks(y) \o t), Mine(q), LastOf(slaveGot[q]), hostSent[q])
    BY <1>2, <2>1, LessMarks
  <2>4. InOrder(s \o (Marks(y) \o t), Mine(q), LastOf(slaveGot[q]), hostSent[q])
    BY <2>2, <2>3, Zenon
  <2> QED
    BY <1>3, <2>4 DEF s, t
<1> QED
  BY <1>1, <1>4 DEF ToSlaveOrder, Sorted

LEMMA SameToSlave ==
  ASSUME IInv, ToSlaveOrder, Stream("slave")' = Stream("slave"),
         UNCHANGED <<toSlave, hostTx, rxQueue, slaveGot, hostSent>>
  PROVE  ToSlaveOrder' /\ UNCHANGED ToSlaveLink!vars
<1>1. UNCHANGED ToSlaveLink!vars
  BY DEF ToSlaveLink!vars
<1>2. \A q \in Queues : ToSlaveStages(q)' = ToSlaveStages(q)
  BY Zenon DEF ToSlaveStages, Marks
<1> QED
  BY <1>1, <1>2 DEF ToSlaveOrder, Sorted

LEMMA AcceptToSlave ==
  ASSUME IInv, ToSlaveOrder, NEW r \in Queues, HostQueue(r)
  PROVE  ToSlaveOrder' /\ ToSlaveLink!Next
<1> DEFINE p == Packet(IF r = "serial" THEN "serial" ELSE "sta", hostSent[r] + 1)
           m == Marks(Stream("slave"))
<1>1. /\ toSlave' = PutIn(toSlave, p) /\ hostSent' = [hostSent EXCEPT ![r] = @ + 1]
      /\ UNCHANGED <<hostTx, frame, ring, line, rxQueue, slaveGot>>
  BY DEF HostQueue, writeTask, wires, readers, slaveOut
<1>2. hostSent \in [Queues -> Nat] /\ hostSent[r] \in Nat
  BY ToSlaveTyped
<1>3. p \in Packets /\ QueueOf(p.if) = r /\ p.n = hostSent[r] + 1
  <2> DEFINE interface == IF r = "serial" THEN "serial" ELSE "sta"
  <2>1. interface \in {"serial", "sta", "priv"} /\ QueueOf(interface) = r
        /\ hostSent[r] + 1 \in Nat
    BY <1>2 DEF QueueOf, Queues
  <2> HIDE DEF interface
  <2>2. Packet(interface, hostSent[r] + 1) \in Packets
    BY <2>1, PacketIsOne
  <2>3. p = Packet(interface, hostSent[r] + 1)
    BY DEF interface
  <2> HIDE DEF p
  <2> QED
    BY <2>1, <2>2, <2>3 DEF Packet
<1> HIDE DEF p
<1>4. /\ p.if \in Mine(r) /\ toSlave'[r] = Append(toSlave[r], p)
      /\ \A q \in Queues : q # r => toSlave'[q] = toSlave[q]
      /\ Sorted(toSlave')
  <2> DEFINE f == toSlave
  <2>1. f \in [Queues -> Seq(Packets)] /\ Sorted(f)
    BY ToSlaveTyped DEF ToSlaveOrder
  <2> HIDE DEF f
  <2>2. /\ p.if \in Mine(r) /\ PutIn(f, p)[r] = Append(f[r], p)
        /\ \A q \in Queues : q # r => PutIn(f, p)[q] = f[q]
        /\ Sorted(PutIn(f, p))
    BY <1>3, <2>1, PutEach
  <2> QED
    BY <1>1, <2>2 DEF f
<1>5. /\ hostSent'[r] = hostSent[r] + 1
      /\ \A q \in Queues : q # r => hostSent'[q] = hostSent[q]
  BY <1>1, <1>2
<1>6. \A q \in Queues :
         /\ ToSlaveStages(q) = rxQueue[q] \o (m \o (hostTx \o toSlave[q]))
         /\ ToSlaveStages(q)' = rxQueue[q] \o (m \o (hostTx \o toSlave'[q]))
  <2>1. Stream("slave")' = Stream("slave")
    BY <1>1, StillStream
  <2> QED
    BY <1>1, <2>1, Zenon DEF ToSlaveStages, Marks
<1>7. p \in Marked
  BY <1>3, PacketsAreMarked
<1>8. ToSlaveStages(r)' = Append(ToSlaveStages(r), p)
  <2> DEFINE f == toSlave[r] s == rxQueue[r] g == hostTx \o f h == m \o g
  <2>1. /\ f \in Seq(Marked) /\ s \in Seq(Marked) /\ hostTx \in Seq(Marked)
        /\ m \in Seq(Marked) /\ g \in Seq(Marked) /\ h \in Seq(Marked)
    BY ToSlaveTyped
  <2>2. /\ ToSlaveStages(r)' = s \o (m \o (hostTx \o Append(f, p)))
        /\ ToSlaveStages(r) = s \o h
    BY <1>4, <1>6
  <2> HIDE DEF m, f, s
  <2>3. hostTx \o Append(f, p) = Append(g, p)
    BY <1>7, <2>1, JoinAppend
  <2> HIDE DEF g
  <2>4. m \o Append(g, p) = Append(h, p)
    BY <1>7, <2>1, JoinAppend
  <2> HIDE DEF h
  <2>5. s \o Append(h, p) = Append(s \o h, p)
    BY <1>7, <2>1, JoinAppend
  <2> QED
    BY <2>2, <2>3, <2>4, <2>5
<1> HIDE DEF m
<1>9. InOrder(ToSlaveStages(r)', Mine(r), LastOf(slaveGot[r]), hostSent'[r])
  <2>1. /\ ToSlaveStages(r) \in Seq(Marked) /\ LastOf(slaveGot[r]) \in Nat
        /\ InOrder(ToSlaveStages(r), Mine(r), LastOf(slaveGot[r]), hostSent[r])
    BY ToSlaveTyped DEF ToSlaveOrder
  <2> QED
    BY <1>2, <1>3, <1>4, <1>5, <1>7, <1>8, <2>1, MarkedNumbered, Accepted
<1>10. \A q \in Queues : q # r => ToSlaveStages(q)' = ToSlaveStages(q)
  BY <1>4, <1>6
<1>11. ToSlaveOrder'
  BY <1>1, <1>4, <1>5, <1>9, <1>10 DEF ToSlaveOrder, Sorted
<1>12. ToSlaveLink!Next
  BY <1>1 DEF ToSlaveLink!Next, ToSlaveLink!Accept
<1> QED
  BY <1>11, <1>12

\* h_uart_write_task takes the first packet of a queue, and sends it unless tx_needed
\* has been cleared.
LEMMA TakeToSlave ==
  ASSUME IInv, ToSlaveOrder, WriteTake
  PROVE  ToSlaveOrder' /\ UNCHANGED ToSlaveLink!vars
<1>1. CASE Waiting(toSlave) = 0
  <2>1. UNCHANGED <<toSlave, hostTx, rxQueue, slaveGot, hostSent, frame, ring, line>>
    BY <1>1 DEF WriteTake, wires, readers, slaveOut
  <2>2. Stream("slave")' = Stream("slave")
    BY <2>1, StillStream
  <2> QED
    BY <2>1, <2>2, SameToSlave
<1>2. CASE Waiting(toSlave) # 0
  <2>1. PICK r \in Queues : toSlave[r] # << >> /\ r = FirstQueue(toSlave)
    <3>1. toSlave \in [Queues -> Seq(Packets)]
      BY ToSlaveTyped
    <3>2. Waiting(toSlave) > 0
      BY <1>2, <3>1, WaitingFacts
    <3> QED
      BY <3>1, <3>2, WaitingFacts
  <2> DEFINE p == Head(toSlave[r]) m == Marks(Stream("slave"))
  <2>2. /\ toSlave' = [toSlave EXCEPT ![r] = Tail(@)] /\ hostTx = << >>
        /\ (hostTx' = <<p>> \/ hostTx' = << >>)
        /\ UNCHANGED <<hostSent, frame, ring, line, rxQueue, slaveGot>>
    BY <1>2, <2>1 DEF WriteTake, wires, readers, slaveOut
  <2>3. /\ p \in Packets /\ toSlave'[r] = Tail(toSlave[r])
        /\ \A q \in Queues : q # r => toSlave'[q] = toSlave[q] /\ p.if \notin Mine(q)
        /\ Sorted(toSlave')
    <3> DEFINE f == toSlave g == toSlave'
    <3>1. f \in [Queues -> Seq(Packets)] /\ Sorted(f) /\ f[r] # << >>
      BY <2>1, ToSlaveTyped DEF ToSlaveOrder
    <3>2. g[r] = Tail(f[r]) /\ \A q \in Queues : q # r => g[q] = f[q]
      BY <2>2, <3>1
    <3> HIDE DEF f, g
    <3>3. Head(f[r]).if \in Mine(r) /\ Sorted(g)
      BY <2>1, <3>1, <3>2, TakeEach
    <3>4. Head(f[r]) \in Packets
      <4>1. f[r] \in Seq(Packets) /\ f[r] # << >>
        BY <2>1, <3>1
      <4> QED
        BY <4>1, TailFacts
    <3>5. \A q \in Queues : q # r => Head(f[r]).if \notin Mine(q)
      BY <3>3, MineFacts
    <3> QED
      BY <3>2, <3>3, <3>4, <3>5 DEF f, g
  <2>4. \A q \in Queues :
           /\ ToSlaveStages(q) = rxQueue[q] \o (m \o (hostTx \o toSlave[q]))
           /\ ToSlaveStages(q)' = rxQueue[q] \o (m \o (hostTx' \o toSlave'[q]))
    <3>1. Stream("slave")' = Stream("slave")
      BY <2>2, StillStream
    <3> QED
      BY <2>2, <3>1, Zenon DEF ToSlaveStages, Marks
  <2>5. p \in Marked
    BY <2>3, PacketsAreMarked
  <2>6. ASSUME NEW q \in Queues
        PROVE  InOrder(ToSlaveStages(q)', Mine(q), LastOf(slaveGot[q]), hostSent[q])
    <3> DEFINE f == toSlave[q] l == rxQueue[q] s == l \o m g == toSlave'[q]
    <3>1. f \in Seq(Marked) /\ l \in Seq(Marked) /\ m \in Seq(Marked)
      BY ToSlaveTyped
    <3>2. g = f \/ (f # << >> /\ g = Tail(f))
      BY <2>1, <2>3
    <3> HIDE DEF p, m, f, l, g
    <3>3. s \in Seq(Marked) /\ g \in Seq(Marked)
      BY <3>1, <3>2, JoinFacts, TailFacts
    <3>4. hostTx \o f = f
      BY <2>2, <3>1, EmptyJoin
    <3>5. InOrder(s \o f, Mine(q), LastOf(slaveGot[q]), hostSent[q])
      <4>1. InOrder(l \o (m \o f), Mine(q), LastOf(slaveGot[q]), hostSent[q])
        BY <2>4, <3>4 DEF ToSlaveOrder, l, f
      <4>2. l \o (m \o f) = (l \o m) \o f
        BY <3>1, JoinJoin
      <4> QED
        BY <4>1, <4>2
    <3>6. f = <<p>> \o g \/ (g = f /\ p.if \notin Mine(q))
      <4>1. CASE q = r
        <5>1. f # << >> /\ Head(f) = p /\ g = Tail(f)
          BY <2>1, <2>3, <4>1 DEF f, g, p
        <5> QED
          BY <3>1, <5>1, HeadMoves
      <4>2. CASE q # r
        BY <2>3, <4>2 DEF f, g
      <4> QED
        BY <4>1, <4>2
    <3> HIDE DEF s
    <3>7. /\ InOrder(s \o (<<p>> \o g), Mine(q), LastOf(slaveGot[q]), hostSent[q])
          /\ InOrder(s \o g, Mine(q), LastOf(slaveGot[q]), hostSent[q])
      <4>1. CASE f = <<p>> \o g
        <5>1. InOrder(s \o (<<p>> \o g), Mine(q), LastOf(slaveGot[q]), hostSent[q])
          BY <3>5, <4>1
        <5>2. InOrder(s \o g, Mine(q), LastOf(slaveGot[q]), hostSent[q])
          BY <2>5, <3>3, <5>1, DroppedInOrder
        <5> QED
          BY <5>1, <5>2
      <4>2. CASE g = f /\ p.if \notin Mine(q)
        <5>1. InOrder(s \o g, Mine(q), LastOf(slaveGot[q]), hostSent[q])
          BY <3>5, <4>2
        <5>2. InOrder(s \o (<<p>> \o g), Mine(q), LastOf(slaveGot[q]), hostSent[q])
          BY <2>5, <3>3, <4>2, <5>1, ForeignInOrder
        <5> QED
          BY <5>1, <5>2
      <4> QED
        BY <3>6, <4>1, <4>2
    <3>8. << >> \o g = g
      BY <3>3, EmptyJoin
    <3>9. InOrder(s \o (hostTx' \o g), Mine(q), LastOf(slaveGot[q]), hostSent[q])
      BY <2>2, <3>7, <3>8 DEF p
    <3>10. s \o (hostTx' \o g) = l \o (m \o (hostTx' \o g))
      <4> DEFINE k == hostTx' \o g
      <4>1. k \in Seq(Marked)
        <5>1. <<p>> \in Seq(Marked) /\ << >> \in Seq(Marked)
          BY <2>5
        <5>2. hostTx' = <<p>> \/ hostTx' = << >>
          BY <2>2
        <5>3. hostTx' \in Seq(Marked)
          BY <5>1, <5>2, Zenon
        <5> QED
          BY <3>3, <5>3, JoinFacts
      <4> HIDE DEF k
      <4>2. s \o k = l \o (m \o k)
        BY <3>1, <4>1 DEF s
      <4> QED
        BY <4>2 DEF k
    <3> QED
      BY <2>4, <3>9, <3>10 DEF l, g
  <2> QED
    BY <2>2, <2>3, <2>6 DEF ToSlaveOrder, Sorted, ToSlaveLink!vars
<1> QED
  BY <1>1, <1>2

\* h_uart_write_packet gives the packet to the driver.
LEMMA SendToSlave ==
  ASSUME IInv, ToSlaveOrder, WritePacket
  PROVE  ToSlaveOrder' /\ UNCHANGED ToSlaveLink!vars
<1> DEFINE p == hostTx[1] x == Stream("slave")
<1>1. /\ hostTx' = << >> /\ Send("slave", p)
      /\ UNCHANGED <<toSlave, hostSent, ring, frame, rxQueue, slaveGot>>
  BY DEF WritePacket, senders, readers, slaveOut
<1>2. p \in Packets /\ hostTx = <<p>>
  <2>1. hostTx # << >> /\ hostTx \in Seq(Packets) /\ Len(hostTx) <= 1
    BY ToSlaveTyped DEF WritePacket
  <2>2. Len(hostTx) = 1 /\ p \in Packets
    BY <2>1, OnlyFacts
  <2> QED
    BY <2>1, <2>2
<1> HIDE DEF p
<1>3. Stream("slave")' = x \o Units(p)
  <2>1. "slave" \in Sides
    BY DEF Sides
  <2> QED
    BY <1>1, <1>2, <2>1, SendStream
<1>4. ASSUME NEW q \in Queues
      PROVE  InOrder(ToSlaveStages(q)', Mine(q), LastOf(slaveGot[q]), hostSent[q])
  <2> DEFINE s == rxQueue[q] t == toSlave[q] y == x \o Units(p) l == <<p>> \o t
  <2>1. /\ s \in Seq(Marked) /\ t \in Seq(Marked) /\ x \in Seq(Pieces)
        /\ Marks(x) \in Seq(Marked)
    BY ToSlaveTyped
  <2>2. InOrder(s \o (Marks(x) \o l), Mine(q), LastOf(slaveGot[q]), hostSent[q])
    BY <1>2 DEF ToSlaveOrder, ToSlaveStages
  <2>3. ToSlaveStages(q)' = s \o (Marks(y) \o (<< >> \o t))
    <3>1. Marks(Stream("slave"))' = Marks(y)
      BY <1>3, Zenon DEF Marks
    <3> QED
      BY <1>1, <3>1, Zenon DEF ToSlaveStages
  <2>4. l \in Seq(Marked)
    <3>1. <<p>> \in Seq(Marked)
      BY <1>2, PacketsAreMarked
    <3> HIDE DEF t
    <3> QED
      BY <2>1, <3>1, JoinFacts
  <2> HIDE DEF s, t, x
  <2>5. s \o (Marks(x) \o l) = (s \o Marks(x)) \o l
    <3> DEFINE m == Marks(x)
    <3> HIDE DEF m, l
    <3>1. m \in Seq(Marked) /\ s \in Seq(Marked)
      BY <2>1 DEF m
    <3>2. s \o (m \o l) = (s \o m) \o l
      BY <2>4, <3>1
    <3> QED
      BY <3>2 DEF m
  <2>6. InOrder((s \o Marks(x)) \o (<<p>> \o t), Mine(q), LastOf(slaveGot[q]), hostSent[q])
          => InOrder(s \o (Marks(x \o Units(p)) \o t), Mine(q), LastOf(slaveGot[q]), hostSent[q])
    <3>1. "payload" \notin Mine(q)
      BY MineFacts
    <3> QED
      BY <1>2, <2>1, <3>1, SendMarks
  <2>7. << >> \o t = t
    BY <2>1, EmptyJoin
  <2> QED
    BY <2>2, <2>3, <2>5, <2>6, <2>7
<1>5. Sorted(toSlave)' /\ Sorted(rxQueue)'
  BY <1>1 DEF ToSlaveOrder, Sorted
<1> QED
  BY <1>1, <1>4, <1>5 DEF ToSlaveOrder, ToSlaveLink!vars

\* uart_rx_task puts the packet it has read into its queue.
LEMMA PutToSlave ==
  ASSUME IInv, ToSlaveOrder, SlavePut
  PROVE  ToSlaveOrder' /\ UNCHANGED ToSlaveLink!vars
<1> DEFINE f == frame["slave"] p == f[1].packet x == Stream("slave") y == Stream("slave")'
<1>1. /\ rxQueue' = PutIn(rxQueue, p) /\ NextPacket("slave") /\ UNCHANGED wires
      /\ UNCHANGED <<toSlave, hostTx, slaveGot, hostSent>>
  BY DEF SlavePut, senders, writeTask
<1>2. f \in Seq(Pieces) /\ IsPacket(f)
  BY DEF SlavePut, IInv, ReadersOK, Sides
<1>3. y \in Seq(Pieces) /\ x = f \o y
  <2>1. "slave" \in Sides
    BY DEF Sides
  <2> QED
    BY <1>1, <2>1, NextStream
<1>4. p \in Packets /\ f = Units(p)
  <2> HIDE DEF f
  <2> QED
    BY <1>2, CheckedFacts
<1>5. \A q \in Queues :
         /\ ToSlaveStages(q) = rxQueue[q] \o (Marks(x) \o (hostTx \o toSlave[q]))
         /\ ToSlaveStages(q)' = rxQueue'[q] \o (Marks(y) \o (hostTx \o toSlave[q]))
  BY <1>1, Zenon DEF ToSlaveStages, Marks
<1> HIDE DEF f, p, x, y
<1>6. x = Units(p) \o y
  BY <1>3, <1>4
<1>7. PICK r \in Queues :
         /\ rxQueue'[r] = Append(rxQueue[r], p)
         /\ \A q \in Queues : q # r => rxQueue'[q] = rxQueue[q] /\ p.if \notin Mine(q)
         /\ Sorted(rxQueue')
  <2> DEFINE g == rxQueue
  <2>1. g \in [Queues -> Seq(Packets)] /\ Sorted(g)
    BY ToSlaveTyped DEF ToSlaveOrder
  <2> HIDE DEF g
  <2>2. /\ QueueOf(p.if) \in Queues
        /\ PutIn(g, p)[QueueOf(p.if)] = Append(g[QueueOf(p.if)], p)
        /\ \A q \in Queues : q # QueueOf(p.if) => PutIn(g, p)[q] = g[q] /\ p.if \notin Mine(q)
        /\ Sorted(PutIn(g, p))
    BY <1>4, <2>1, PutEach
  <2> QED
    BY <1>1, <2>2 DEF g, p
<1>8. ASSUME NEW q \in Queues
      PROVE  InOrder(ToSlaveStages(q)', Mine(q), LastOf(slaveGot[q]), hostSent[q])
  <2> DEFINE s == rxQueue[q] t == hostTx \o toSlave[q]
  <2>1. s \in Seq(Marked) /\ t \in Seq(Marked)
    BY ToSlaveTyped
  <2>2. InOrder(s \o (Marks(x) \o t), Mine(q), LastOf(slaveGot[q]), hostSent[q])
    BY <1>5 DEF ToSlaveOrder
  <2> HIDE DEF s, t
  <2>3. InOrder(s \o (Marks(Units(p) \o y) \o t), Mine(q), LastOf(slaveGot[q]), hostSent[q])
          => /\ InOrder(Append(s, p) \o (Marks(y) \o t), Mine(q), LastOf(slaveGot[q]),
                        hostSent[q])
             /\ p.if \notin Mine(q)
                  => InOrder(s \o (Marks(y) \o t), Mine(q), LastOf(slaveGot[q]), hostSent[q])
    BY <1>3, <1>4, <2>1, PutMarks
  <2>4. /\ InOrder(Append(s, p) \o (Marks(y) \o t), Mine(q), LastOf(slaveGot[q]), hostSent[q])
        /\ p.if \notin Mine(q)
             => InOrder(s \o (Marks(y) \o t), Mine(q), LastOf(slaveGot[q]), hostSent[q])
    BY <1>6, <2>2, <2>3, Zenon
  <2>5. rxQueue'[q] = Append(s, p) \/ (rxQueue'[q] = s /\ p.if \notin Mine(q))
    BY <1>7 DEF s
  <2> QED
    BY <1>5, <2>4, <2>5 DEF t
<1> QED
  BY <1>1, <1>7, <1>8 DEF ToSlaveOrder, Sorted, ToSlaveLink!vars

\* recv_task reads the first packet of a queue.
LEMMA HandToSlave ==
  ASSUME IInv, ToSlaveOrder, SlaveRead
  PROVE  ToSlaveOrder' /\ ToSlaveLink!Next
<1>1. Waiting(rxQueue) > 0
  BY DEF IInv, RxQueueCount, SlaveOutOK, SlaveRead
<1>2. PICK r \in Queues : rxQueue[r] # << >> /\ r = FirstQueue(rxQueue)
  BY <1>1, ToSlaveTyped, WaitingFacts
<1> DEFINE p == Head(rxQueue[r]) rest(q) == Marks(Stream("slave")) \o (hostTx \o toSlave[q])
<1>3. /\ rxQueue' = [rxQueue EXCEPT ![r] = Tail(@)]
      /\ slaveGot' = [slaveGot EXCEPT ![r] = Append(@, p.n)]
      /\ UNCHANGED <<toSlave, hostTx, frame, ring, line, hostSent>>
  BY <1>2 DEF SlaveRead, senders, writeTask, wires, readers
<1>4. /\ p.if \in Mine(r) /\ rxQueue'[r] = Tail(rxQueue[r])
      /\ \A q \in Queues : q # r => rxQueue'[q] = rxQueue[q]
      /\ Sorted(rxQueue')
  <2> DEFINE f == rxQueue g == rxQueue'
  <2>1. f \in [Queues -> Seq(Packets)] /\ Sorted(f) /\ f[r] # << >>
    BY <1>2, ToSlaveTyped DEF ToSlaveOrder
  <2>2. g[r] = Tail(f[r]) /\ \A q \in Queues : q # r => g[q] = f[q]
    BY <1>3, <2>1
  <2> HIDE DEF f, g
  <2>3. Head(f[r]).if \in Mine(r) /\ Sorted(g)
    BY <1>2, <2>1, <2>2, TakeEach
  <2> QED
    BY <2>2, <2>3 DEF f, g
<1>5. \A q \in Queues :
         /\ ToSlaveStages(q) = rxQueue[q] \o rest(q)
         /\ ToSlaveStages(q)' = rxQueue'[q] \o rest(q)
  <2>1. Stream("slave")' = Stream("slave")
    BY <1>3, StillStream
  <2> QED
    BY <1>3, <2>1, Zenon DEF ToSlaveStages, Marks
<1>6. /\ rxQueue[r] \in Seq(Marked) /\ rest(r) \in Seq(Marked)
      /\ LastOf(slaveGot[r]) \in Nat /\ hostSent[r] \in Nat
  BY ToSlaveTyped
<1>7. InOrder(rxQueue[r] \o rest(r), Mine(r), LastOf(slaveGot[r]), hostSent[r])
  BY <1>5 DEF ToSlaveOrder
<1> HIDE DEF rest
<1>8. /\ p.n \in (LastOf(slaveGot[r]) + 1)..hostSent[r]
      /\ InOrder(Tail(rxQueue[r]) \o rest(r), Mine(r), p.n, hostSent[r])
  <2> DEFINE s == rxQueue[r] t == rest(r)
  <2>1. s \in Seq(Marked) /\ s # << >> /\ Head(s).if \in Mine(r) /\ t \in Seq(Marked)
    BY <1>2, <1>4, <1>6
  <2>2. InOrder(s \o t, Mine(r), LastOf(slaveGot[r]), hostSent[r])
    BY <1>7
  <2> HIDE DEF s, t
  <2>3. /\ Head(s).n \in (LastOf(slaveGot[r]) + 1)..hostSent[r]
        /\ InOrder(Tail(s) \o t, Mine(r), Head(s).n, hostSent[r])
    BY <1>6, <2>1, <2>2, MarkedNumbered, HandedOver
  <2> QED
    BY <2>3 DEF s, t
<1> HIDE DEF p
<1>9. /\ slaveGot'[r] = Append(slaveGot[r], p.n) /\ LastOf(slaveGot'[r]) = p.n
      /\ \A q \in Queues : q # r => slaveGot'[q] = slaveGot[q]
  <2>1. slaveGot \in [Queues -> Seq(Nat)] /\ p.n \in Nat
    BY <1>6, <1>8, ToSlaveTyped
  <2>2. /\ slaveGot'[r] = Append(slaveGot[r], p.n)
        /\ \A q \in Queues : q # r => slaveGot'[q] = slaveGot[q]
    BY <1>3, <2>1
  <2>3. slaveGot[r] \in Seq(Nat)
    BY <2>1
  <2> QED
    BY <2>1, <2>2, <2>3, LastFacts
<1>10. ToSlaveOrder'
  <2> SUFFICES ASSUME NEW q \in Queues
               PROVE  InOrder(ToSlaveStages(q)', Mine(q), LastOf(slaveGot'[q]), hostSent[q])
    BY <1>3, <1>4 DEF ToSlaveOrder, Sorted
  <2>1. CASE q = r
    BY <1>4, <1>5, <1>8, <1>9, <2>1
  <2>2. CASE q # r
    <3>1. InOrder(ToSlaveStages(q), Mine(q), LastOf(slaveGot[q]), hostSent[q])
      BY DEF ToSlaveOrder
    <3> QED
      BY <1>4, <1>5, <1>9, <2>2, <3>1
  <2> QED
    BY <2>1, <2>2
<1>11. ToSlaveLink!Next
  <2>1. ToSlaveLink!Last(slaveGot[r]) = LastOf(slaveGot[r])
    BY DEF ToSlaveLink!Last, LastOf
  <2> QED
    BY <1>3, <1>8, <2>1 DEF ToSlaveLink!Next, ToSlaveLink!Deliver, p
<1> QED
  BY <1>10, <1>11

-----------------------------------------------------------------------------
\* What arrives and what is read leaves each stream as it is, or with less in it.
LEMMA MovesStreams ==
  ASSUME IInv, NEW s \in Sides, Arrive(s) \/ Reader(s)
  PROVE  \A r \in Sides : LessOf(Stream(r), Stream(r)')
<1>1. \A r \in Sides : Stream(r)' = Stream(r) => LessOf(Stream(r), Stream(r)')
  <2> TAKE r \in Sides
  <2>1. LessOf(Stream(r), Stream(r))
    BY StreamTyped, SameLess
  <2> DEFINE x == Stream(r) y == Stream(r)'
  <2> HIDE DEF x, y
  <2>2. LessOf(x, x)
    BY <2>1 DEF x
  <2>3. y = x => LessOf(x, y)
    BY <2>2, Zenon
  <2> QED
    BY <2>3 DEF x, y
<1>2. CASE Arrive(s)
  BY <1>1, <1>2, ArriveStream
<1>3. CASE ReadHeader(s)
  BY <1>1, <1>3, HeaderStream
<1>4. CASE ReadPayload(s)
  BY <1>1, <1>4, PayloadStream
<1>5. CASE CheckPacket(s)
  <2>1. CASE IsPacket(frame[s])
    <3>1. UNCHANGED <<frame, ring, line>>
      BY <1>5, <2>1 DEF CheckPacket, wires
    <3>2. \A r \in Sides : Stream(r)' = Stream(r)
      BY <3>1, StillStream
    <3> QED
      BY <1>1, <3>2
  <2>2. CASE ~IsPacket(frame[s])
    <3>1. NextPacket(s) /\ UNCHANGED wires
      BY <1>5, <2>2 DEF CheckPacket, NextPacket
    <3>2. /\ \A r \in Sides : r # s => Stream(r)' = Stream(r)
          /\ frame[s] \in Seq(Pieces) /\ Stream(s)' \in Seq(Pieces)
          /\ Stream(s) = frame[s] \o Stream(s)'
      BY <3>1, NextStream
    <3>3. LessOf(Stream(s), Stream(s)')
      <4> DEFINE x == Stream(s) y == Stream(s)' f == frame[s] e == << >>
      <4>1. x = f \o y /\ f \in Seq(Pieces) /\ y \in Seq(Pieces)
        BY <3>2
      <4> HIDE DEF x, y, f
      <4>2. f \o y \in Seq(Pieces) /\ e \in Seq(Pieces)
        BY <4>1, JoinFacts
      <4>3. x = e \o (f \o y) /\ y = e \o y
        <5> DEFINE z == f \o y
        <5> HIDE DEF z
        <5>1. e \o z = z /\ e \o y = y
          BY <4>1, <4>2, EmptyJoin DEF z
        <5> QED
          BY <4>1, <5>1 DEF z
      <4> HIDE DEF e
      <4>4. LessOf(x, y)
        BY <4>1, <4>2, <4>3, Zenon DEF LessOf
      <4> QED
        BY <4>4 DEF x, y
    <3> QED
      BY <1>1, <3>2, <3>3
  <2> QED
    BY <2>1, <2>2
<1> QED
  BY <1>2, <1>3, <1>4, <1>5 DEF Reader

LEMMA InitOrder ==
  Init => FromSlaveOrder /\ ToSlaveOrder /\ FromSlaveLink!Init /\ ToSlaveLink!Init
<1> SUFFICES ASSUME Init
             PROVE  FromSlaveOrder /\ ToSlaveOrder /\ FromSlaveLink!Init /\ ToSlaveLink!Init
  OBVIOUS
<1>1. FromSlaveLink!Init /\ ToSlaveLink!Init
  BY DEF Init, FromSlaveLink!Init, ToSlaveLink!Init
<1>2. /\ frame["host"] = << >> /\ line["host"] = << >> /\ hostTx = << >>
      /\ frame["slave"] = << >> /\ line["slave"] = << >> /\ ring["slave"] = << >>
      /\ \A q \in Queues :
            /\ fromSlave[q] = << >> /\ toSlave[q] = << >> /\ rxQueue[q] = << >>
            /\ hostGot[q] = << >> /\ slaveGot[q] = << >>
            /\ hostSent[q] = 0 /\ slaveSent[q] = 0
  BY DEF Init, Sides
<1>3. PICK n \in Nat : ring["host"] = OldUnits(n)
  <2>1. PICK n \in 0..Leftover :
           ring = [s \in Sides |-> IF s = "host" THEN OldUnits(n) ELSE << >>]
    BY DEF Init
  <2>2. n \in Nat /\ "host" \in Sides
    BY Sizes DEF Sides
  <2> QED
    BY <2>1, <2>2
<1> DEFINE e == << >> old == OldUnits(n)
<1>4. e \in Seq(Marked) /\ e \in Seq(Pieces) /\ old \in Seq(Pieces) /\ Len(old) = n
  BY OldFacts
<1>5. e \o e = e /\ e \o old = old /\ old \o e = old
  <2> HIDE DEF e, old
  <2>1. e = << >>
    BY DEF e
  <2> QED
    BY <1>4, <2>1, EmptyJoin
<1>6. Stream("host") = old /\ Stream("slave") = e
  BY <1>2, <1>3, <1>5, Zenon DEF Stream
<1>7. LastOf(e) = 0 /\ \A ifs : InOrder(e, ifs, 0, 0)
  BY EmptyInOrder DEF LastOf
<1>8. Marks(e) = e
  <2>1. Marks(e) \in Seq(Marked) /\ Len(Marks(e)) = 0
    BY <1>4, MarksFacts
  <2> QED
    BY <2>1, EmptyFacts
<1>9. ASSUME NEW ifs, "payload" \notin ifs PROVE InOrder(Marks(old), ifs, 0, 0)
  <2> DEFINE m == Marks(old)
  <2>1. /\ m \in Seq(Marked) /\ Len(m) = n
        /\ \A i \in 1..n : m[i] = Mark(old[i])
    BY <1>4, MarksFacts
  <2>2. \A i \in 1..n : Mark(old[i]).if = "payload"
    <3>1. \A i \in 1..n : old[i].part = 1
      BY DEF OldUnits
    <3> HIDE DEF old
    <3> QED
      BY <3>1 DEF Mark
  <2>3. \A i \in 1..Len(m) : m[i].if \notin ifs
    <3> HIDE DEF m, old
    <3> QED
      BY <1>9, <2>1, <2>2
  <2> HIDE DEF m, old
  <2>4. InOrder(e \o e, ifs, 0, 0)
    BY <1>5, <1>7
  <2> HIDE DEF e
  <2>5. InOrder(e \o (m \o e), ifs, 0, 0)
    BY <1>4, <2>1, <2>3, <2>4, ForeignBlock
  <2>6. e \o (m \o e) = m
    <3>1. m \o e = m /\ e \o m = m
      BY <2>1, EmptyJoin DEF e
    <3> QED
      BY <3>1
  <2> QED
    BY <2>5, <2>6 DEF m
<1>10. Sorted(fromSlave) /\ Sorted(toSlave) /\ Sorted(rxQueue)
  BY <1>2 DEF Sorted
<1>11. FromSlaveOrder
  <2>1. ASSUME NEW q \in Queues PROVE FromSlaveStages(q) = Marks(old)
    <3>1. Marks(old) \in Seq(Marked)
      BY <1>4, MarksFacts
    <3>2. FromSlaveStages(q) = e \o Marks(old)
      BY <1>2, <1>6 DEF FromSlaveStages
    <3> DEFINE m == Marks(old)
    <3> HIDE DEF m
    <3>3. e \o m = m
      BY <3>1, EmptyJoin DEF m
    <3> QED
      BY <3>2, <3>3 DEF m
  <2>2. \A q : "payload" \notin Mine(q)
    BY MineFacts
  <2> HIDE DEF old
  <2> QED
    BY <1>2, <1>7, <1>9, <1>10, <2>1, <2>2 DEF FromSlaveOrder
<1>12. ToSlaveOrder
  <2>1. ASSUME NEW q \in Queues PROVE ToSlaveStages(q) = e
    BY <1>2, <1>5, <1>6, <1>8, Zenon DEF ToSlaveStages
  <2> QED
    BY <1>2, <1>7, <1>10, <2>1 DEF ToSlaveOrder
<1> QED
  BY <1>1, <1>11, <1>12

LEMMA StepFromSlave ==
  ASSUME IInv, FromSlaveOrder, [Next]_vars
  PROVE  FromSlaveOrder' /\ [FromSlaveLink!Next]_FromSlaveLink!vars
<1>0. "host" \in Sides /\ "slave" \in Sides
  BY DEF Sides
<1>1. ASSUME UNCHANGED <<frame, ring, line, fromSlave, hostGot, slaveSent>>
      PROVE  FromSlaveOrder' /\ UNCHANGED FromSlaveLink!vars
  BY <1>1, StillStream, SameFromSlave
<1>2. ASSUME NEW s \in Sides, Arrive(s) \/ Reader(s)
      PROVE  FromSlaveOrder' /\ UNCHANGED FromSlaveLink!vars
  <2>1. UNCHANGED <<fromSlave, hostGot, slaveSent>>
    BY <1>2 DEF Arrive, Reader, ReadHeader, ReadPayload, CheckPacket, hostOut, slaveIn
  <2>2. LessOf(Stream("host"), Stream("host")')
    BY <1>0, <1>2, MovesStreams
  <2> QED
    BY <2>1, <2>2, LostFromSlave
<1>3. CASE \E q \in Queues : HostQueue(q) \/ HostCount(q)
  BY <1>1, <1>3 DEF HostQueue, HostCount, hostOut, wires, readers, slaveIn
<1>4. CASE WriteTask
  <2>1. CASE WriteTake
    BY <1>1, <2>1 DEF WriteTake, hostOut, wires, readers, slaveIn
  <2>2. CASE WritePacket
    <3>1. hostTx[1] \in Packets
      <4>1. hostTx # << >> /\ hostTx \in Seq(Packets) /\ Len(hostTx) <= 1
        BY <2>2 DEF WritePacket, IInv, WriteOK
      <4> QED
        BY <4>1, OnlyFacts
    <3>2. Stream("host")' = Stream("host")
      <4>1. Send("slave", hostTx[1]) /\ UNCHANGED <<ring, frame>> /\ "host" # "slave"
        BY <2>2 DEF WritePacket, readers
      <4> QED
        BY <1>0, <3>1, <4>1, SendStream
    <3>3. UNCHANGED <<fromSlave, hostGot, slaveSent>>
      BY <2>2 DEF WritePacket, hostOut, slaveIn
    <3> QED
      BY <3>2, <3>3, SameFromSlave
  <2> QED
    BY <1>4, <2>1, <2>2 DEF WriteTask
<1>5. CASE ReadTask
  BY <1>0, <1>2, <1>5, PutFromSlave DEF ReadTask
<1>6. CASE ProcessRxTask
  <2>1. CASE StartWriteTask
    BY <1>1, <2>1 DEF StartWriteTask, wires, readers, slaveIn
  <2> QED
    BY <1>6, <2>1, HandFromSlave DEF ProcessRxTask
<1>7. CASE \E s \in Sides : Arrive(s)
  BY <1>2, <1>7
<1>8. CASE RxTask
  <2>1. CASE OpenDataPath
    BY <1>1, <2>1 DEF OpenDataPath, hostOut, wires
  <2>2. CASE SlavePut
    <3>1. Stream("host")' = Stream("host")
      <4>1. NextPacket("slave") /\ UNCHANGED wires /\ "host" # "slave"
        BY <2>2 DEF SlavePut
      <4> QED
        BY <1>0, <4>1, NextStream
    <3>2. UNCHANGED <<fromSlave, hostGot, slaveSent>>
      BY <2>2 DEF SlavePut, hostOut, slaveIn
    <3> QED
      BY <3>1, <3>2, SameFromSlave
  <2> QED
    BY <1>0, <1>2, <1>8, <2>1, <2>2 DEF RxTask
<1>9. CASE RecvTask
  BY <1>1, <1>9 DEF RecvTask, SlaveRead, SlaveHandle, hostOut, wires, readers, slaveIn
<1>10. CASE SlaveWrite("rpc", "serial") \/ SlaveWrite("wifi", "sta") \/ SlaveStartup
  BY <1>10, SendFromSlave DEF SlaveWrite, SlaveStartup, Interfaces
<1>11. CASE \E t \in Writers : Drained(t)
  BY <1>1, <1>11 DEF Drained, hostOut, wires, readers
<1>12. CASE UNCHANGED vars
  BY <1>1, <1>12 DEF vars, hostOut, wires, readers, slaveIn
<1> QED
  BY <1>3, <1>4, <1>5, <1>6, <1>7, <1>8, <1>9, <1>10, <1>11, <1>12 DEF Next

LEMMA StepToSlave ==
  ASSUME IInv, ToSlaveOrder, [Next]_vars
  PROVE  ToSlaveOrder' /\ [ToSlaveLink!Next]_ToSlaveLink!vars
<1>0. "host" \in Sides /\ "slave" \in Sides
  BY DEF Sides
<1>1. ASSUME UNCHANGED <<frame, ring, line, toSlave, hostTx, rxQueue, slaveGot, hostSent>>
      PROVE  ToSlaveOrder' /\ UNCHANGED ToSlaveLink!vars
  BY <1>1, StillStream, SameToSlave
<1>2. ASSUME NEW s \in Sides, Arrive(s) \/ Reader(s)
      PROVE  ToSlaveOrder' /\ UNCHANGED ToSlaveLink!vars
  <2>1. UNCHANGED <<toSlave, hostTx, rxQueue, slaveGot, hostSent>>
    BY <1>2 DEF Arrive, Reader, ReadHeader, ReadPayload, CheckPacket, senders, writeTask,
       slaveOut
  <2>2. LessOf(Stream("slave"), Stream("slave")')
    BY <1>0, <1>2, MovesStreams
  <2> QED
    BY <2>1, <2>2, LostToSlave
<1>3. CASE \E q \in Queues : HostQueue(q) \/ HostCount(q)
  <2>1. CASE \E q \in Queues : HostCount(q)
    BY <1>1, <2>1 DEF HostCount, writeTask, wires, readers, slaveOut
  <2> QED
    BY <1>3, <2>1, AcceptToSlave
<1>4. CASE WriteTask
  BY <1>4, TakeToSlave, SendToSlave DEF WriteTask
<1>5. CASE ReadTask
  <2>1. CASE HostPut
    <3>1. Stream("slave")' = Stream("slave")
      <4>1. NextPacket("host") /\ UNCHANGED wires /\ "slave" # "host"
        BY <2>1 DEF HostPut
      <4> QED
        BY <1>0, <4>1, NextStream
    <3>2. UNCHANGED <<toSlave, hostTx, rxQueue, slaveGot, hostSent>>
      BY <2>1 DEF HostPut, senders, writeTask, slaveOut
    <3> QED
      BY <3>1, <3>2, SameToSlave
  <2> QED
    BY <1>0, <1>2, <1>5, <2>1 DEF ReadTask
<1>6. CASE ProcessRxTask
  BY <1>1, <1>6 DEF ProcessRxTask, HostRxTask, StartWriteTask, senders, writeTask, wires,
     readers, slaveOut
<1>7. CASE \E s \in Sides : Arrive(s)
  BY <1>2, <1>7
<1>8. CASE RxTask
  <2>1. CASE OpenDataPath
    BY <1>1, <2>1 DEF OpenDataPath, senders, writeTask, wires, slaveOut
  <2> QED
    BY <1>0, <1>2, <1>8, <2>1, PutToSlave DEF RxTask
<1>9. CASE RecvTask
  <2>1. CASE SlaveHandle
    BY <1>1, <2>1 DEF SlaveHandle, senders, writeTask, wires, readers
  <2> QED
    BY <1>9, <2>1, HandToSlave DEF RecvTask
<1>10. ASSUME NEW t \in Writers, NEW i \in {"serial", "sta", "priv"}, WriteToHost(t, i)
       PROVE  ToSlaveOrder' /\ UNCHANGED ToSlaveLink!vars
  <2> DEFINE p == Packet(i, slaveSent[QueueOf(i)] + 1)
  <2>1. p \in Packets
    <3>1. slaveSent[QueueOf(i)] + 1 \in Nat
      BY QueueOfInQueues DEF IInv, InOK
    <3> QED
      BY <3>1, PacketIsOne
  <2>2. Send("host", p) /\ UNCHANGED <<ring, frame, toSlave, hostTx, rxQueue, slaveGot, hostSent>>
    BY <1>10 DEF WriteToHost, senders, writeTask, readers, slaveOut
  <2> HIDE DEF p
  <2>3. Stream("slave")' = Stream("slave")
    <3>1. "slave" # "host"
      OBVIOUS
    <3> QED
      BY <1>0, <2>1, <2>2, <3>1, SendStream
  <2> QED
    BY <2>2, <2>3, SameToSlave
<1>11. CASE SlaveWrite("rpc", "serial") \/ SlaveWrite("wifi", "sta") \/ SlaveStartup
  <2>1. "rpc" \in Writers /\ "wifi" \in Writers /\ "reset" \in Writers
    BY DEF Writers
  <2> QED
    BY <1>10, <1>11, <2>1 DEF SlaveWrite, SlaveStartup
<1>12. CASE \E t \in Writers : Drained(t)
  BY <1>1, <1>12 DEF Drained, senders, writeTask, wires, readers, slaveOut
<1>13. CASE UNCHANGED vars
  BY <1>1, <1>13 DEF vars, senders, writeTask, wires, readers, slaveOut
<1> QED
  BY <1>3, <1>4, <1>5, <1>6, <1>7, <1>8, <1>9, <1>11, <1>12, <1>13 DEF Next

\* The link implements OrderedLink in both directions: whatever the drivers' buffers lose,
\* and wherever a reader takes a payload for a header, the packets of a queue that are
\* handed over are ones that were sent, in their order and each at most once
\* (esp_hosted_tx to recv_task, h_uart_write of the co-processor to
\* h_uart_process_rx_task).
THEOREM LinkOrderedHolds == Spec => LinkOrdered
<1>1. IInv /\ FromSlaveOrder /\ ToSlaveOrder /\ [Next]_vars
        => /\ FromSlaveOrder' /\ ToSlaveOrder'
           /\ [FromSlaveLink!Next]_FromSlaveLink!vars /\ [ToSlaveLink!Next]_ToSlaveLink!vars
  BY StepFromSlave, StepToSlave
<1> QED
  BY <1>1, InitOrder, Inductive, PTL DEF Spec, LinkOrdered, FromSlaveLink!Spec,
     ToSlaveLink!Spec
=============================================================================

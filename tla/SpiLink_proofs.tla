----------------------------- MODULE SpiLink_proofs -----------------------------
(* Theorems about SpiLink.                                                  *)
EXTENDS SpiLink, LinkLemmas

\* While the interrupt has missed no edge of CS, the handshake is up only with a
\* transaction set up, or with the interrupt that clears it still to come; and the
\* host holds on to what the pin told it: nobody but its own transfer ends that
\* transaction.
HandshakeTruthful ==
    /\ hostPc = "decide" => hsSeen
    /\ csMissed = 0 =>
          /\ hsPin => loaded # << >> \/ (csEdge /\ CsLow)
          /\ hostPc \in {"readDr", "decide"} /\ hsSeen => loaded # << >>
          /\ hostPc = "transfer" => loaded # << >> /\ (hsPin => csEdge)

\* The transaction the post-process task works on stays in the list until then.
ResultHeld == task["post"] # "idle" => results # << >>

Ready == HandshakeTruthful /\ ResultHeld

IInv == TypeOK /\ CountsMatch /\ Ready

-----------------------------------------------------------------------------
(* Packets and queues.                                                      *)

LEMMA QueueOfInQueues == ASSUME NEW i PROVE QueueOf(i) \in Queues
  BY DEF QueueOf, Queues

LEMMA PacketOnWire ==
  ASSUME NEW i \in {"serial", "sta", "priv"}, NEW n \in Nat
  PROVE  Packet(i, n) \in OnWire
  BY DEF Packet, OnWire

LEMMA DummyOnWire == ASSUME NEW t \in BOOLEAN PROVE Dummy(t) \in OnWire
  BY DEF Dummy, OnWire

\* What was put makes a queue that is not empty.
LEMMA AppendOne ==
  ASSUME NEW s \in Seq(OnWire), NEW p \in OnWire
  PROVE  /\ Append(s, p) \in Seq(OnWire) /\ Len(Append(s, p)) = Len(s) + 1
         /\ Append(s, p) # << >>
<1>1. Append(s, p) \in Seq(OnWire) /\ Len(Append(s, p)) = Len(s) + 1
  OBVIOUS
<1>2. Len(Append(s, p)) # Len(<< >>)
  BY <1>1
<1> QED
  BY <1>1, <1>2

LEMMA AddOne ==
  ASSUME NEW n \in Nat, NEW x \in Nat, NEW y \in Nat, NEW u \in Nat, NEW v \in Nat,
         u + v = x + y + 1
  PROVE  n + u + v = n + x + y + 1
  OBVIOUS

\* One packet more, or less, in one of the queues.
LEMMA WaitingChange ==
  ASSUME NEW f \in [Queues -> Seq(OnWire)], NEW g \in [Queues -> Seq(OnWire)],
         NEW q \in Queues, NEW d \in Int, Len(g[q]) = Len(f[q]) + d,
         \A r \in Queues : r # q => g[r] = f[r]
  PROVE  Waiting(g) = Waiting(f) + d
<1> DEFINE fs == f["serial"] fo == f["others"] gs == g["serial"] go == g["others"]
<1>1. fs \in Seq(OnWire) /\ fo \in Seq(OnWire) /\ gs \in Seq(OnWire) /\ go \in Seq(OnWire)
  BY DEF Queues
<1>2. Waiting(g) = Len(gs) + Len(go) /\ Waiting(f) = Len(fs) + Len(fo)
  BY Zenon DEF Waiting
<1>3. \/ Len(gs) = Len(fs) + d /\ go = fo
      \/ Len(go) = Len(fo) + d /\ gs = fs
  BY DEF Queues
<1> HIDE DEF fs, fo, gs, go
<1>4. Len(gs) + Len(go) = (Len(fs) + Len(fo)) + d
  <2> DEFINE m == Len(fs) n == Len(fo)
  <2>1. m \in Int /\ n \in Int
    BY <1>1
  <2>2. \/ Len(gs) = m + d /\ Len(go) = n
        \/ Len(gs) = m /\ Len(go) = n + d
    BY <1>3, Zenon
  <2> HIDE DEF m, n
  <2>3. Len(gs) + Len(go) = (m + n) + d
    <3>1. (m + d) + n = (m + n) + d /\ m + (n + d) = (m + n) + d
      BY <2>1, SumShift
    <3>2. CASE Len(gs) = m + d /\ Len(go) = n
      BY <3>1, <3>2, Zenon
    <3>3. CASE Len(gs) = m /\ Len(go) = n + d
      BY <3>1, <3>3, Zenon
    <3> QED
      BY <2>2, <3>2, <3>3, Zenon
  <2> QED
    BY <2>3 DEF m, n
<1> QED
  BY <1>2, <1>4, Zenon

\* A put that finds room adds one packet to the queues.
LEMMA PutFacts ==
  ASSUME NEW f \in [Queues -> Seq(OnWire)], NEW q \in Queues, NEW p \in OnWire,
         NEW size \in Nat, Len(f[q]) < size, \A r \in Queues : Len(f[r]) <= size
  PROVE  LET g == [f EXCEPT ![q] = Append(f[q], p)]
         IN  /\ g \in [Queues -> Seq(OnWire)]
             /\ Waiting(g) = Waiting(f) + 1
             /\ \A r \in Queues : Len(g[r]) <= size
<1> DEFINE s == Append(f[q], p)
           g == [f EXCEPT ![q] = s]
<1>1. s \in Seq(OnWire) /\ Len(s) = Len(f[q]) + 1 /\ Len(s) <= size
  OBVIOUS
<1> HIDE DEF s
<1>2. g \in [Queues -> Seq(OnWire)] /\ g[q] = s /\ \A r \in Queues : r # q => g[r] = f[r]
  BY <1>1
<1> HIDE DEF g
<1>3. 1 \in Int /\ Len(g[q]) = Len(f[q]) + 1
  BY <1>1, <1>2
<1>4. Waiting(g) = Waiting(f) + 1
  BY <1>2, <1>3, WaitingChange, Zenon
<1>5. \A r \in Queues : Len(g[r]) <= size
  BY <1>1, <1>2
<1> QED
  BY <1>2, <1>4, <1>5 DEF g, s

LEMMA WaitingFacts ==
  ASSUME NEW f \in [Queues -> Seq(OnWire)]
  PROVE  /\ Waiting(f) \in Nat
         /\ Waiting(f) > 0 => f[FirstQueue(f)] # << >>
<1> DEFINE a == f["serial"] b == f["others"]
<1>1. a \in Seq(OnWire) /\ b \in Seq(OnWire)
  BY DEF Queues
<1>2. Waiting(f) = Len(a) + Len(b)
  BY Zenon DEF Waiting
<1>3. f[FirstQueue(f)] = << >> => a = << >> /\ b = << >>
  BY Zenon DEF FirstQueue
<1> HIDE DEF a, b
<1>4. Len(a) + Len(b) \in Nat /\ (a = << >> /\ b = << >> => Len(a) + Len(b) = 0)
  BY <1>1
<1> QED
  BY <1>2, <1>3, <1>4

\* Who has counted a packet finds one in the queue it looks at.
LEMMA TakeFacts ==
  ASSUME NEW f \in [Queues -> Seq(OnWire)], Waiting(f) > 0,
         NEW size \in Nat, \A r \in Queues : Len(f[r]) <= size
  PROVE  LET q == FirstQueue(f)
             g == [f EXCEPT ![q] = Tail(f[q])]
         IN  /\ q \in Queues /\ Head(f[q]) \in OnWire
             /\ g \in [Queues -> Seq(OnWire)]
             /\ Waiting(g) = Waiting(f) - 1
             /\ \A r \in Queues : Len(g[r]) <= size
<1> DEFINE q == FirstQueue(f)
           s == Tail(f[q])
           g == [f EXCEPT ![q] = s]
<1>1. q \in Queues
  BY DEF FirstQueue, Queues
<1>2. f[q] # << >>
  BY WaitingFacts
<1> HIDE DEF q
<1>3. /\ Head(f[q]) \in OnWire /\ s \in Seq(OnWire)
      /\ Len(s) = Len(f[q]) - 1 /\ Len(s) <= size
  BY <1>1, <1>2
<1> HIDE DEF s
<1>4. g \in [Queues -> Seq(OnWire)] /\ g[q] = s /\ \A r \in Queues : r # q => g[r] = f[r]
  BY <1>1, <1>3
<1> HIDE DEF g
<1>5. -1 \in Int /\ Len(g[q]) = Len(f[q]) + (-1)
  BY <1>1, <1>3, <1>4
<1>6. Waiting(g) = Waiting(f) + (-1)
  BY <1>1, <1>4, <1>5, WaitingChange, Zenon
<1>7. Waiting(g) = Waiting(f) - 1
  BY <1>6, WaitingFacts
<1>8. \A r \in Queues : Len(g[r]) <= size
  BY <1>1, <1>3, <1>4
<1> QED
  BY <1>1, <1>3, <1>4, <1>7, <1>8 DEF g, s, q

\* The packets for the host that a task has put and not counted yet.
Uncounted ==
    (OneIf(task["serial"] # "idle") + OneIf(task["sta"] # "idle"))
      + OneIf(task["reset"] = "count")

LEMMA UncountedFacts ==
  ASSUME IInv
  PROVE  Uncounted \in Nat /\ Waiting(toHost) = spiTxSem + Uncounted
<1> DEFINE x == OneIf(task["serial"] # "idle") y == OneIf(task["sta"] # "idle")
           z == OneIf(task["reset"] = "count")
<1>1. x \in Nat /\ y \in Nat /\ z \in Nat /\ spiTxSem \in Nat
  BY DEF OneIf, IInv, TypeOK, SlaveOK
<1>2. Waiting(toHost) = spiTxSem + x + y + z
  BY Zenon DEF IInv, CountsMatch
<1>3. Uncounted = (x + y) + z
  BY Zenon DEF Uncounted
<1> HIDE DEF x, y, z
<1>4. (x + y) + z \in Nat /\ spiTxSem + x + y + z = spiTxSem + ((x + y) + z)
  BY <1>1
<1> QED
  BY <1>2, <1>3, <1>4, Zenon

TasksOK ==
    /\ task \in [Writers \cup {"reset", "post"} ->
                   SenderLabels \cup LoaderLabels \cup {"waitCs", "receive"}]
    /\ \A i \in Writers : task[i] \in SenderLabels
    /\ task["reset"] \in SenderLabels \cup LoaderLabels
    /\ task["post"] \in LoaderLabels \cup {"idle", "waitCs", "receive"}

LEMMA TaskStep ==
  ASSUME TasksOK, NEW t \in {"reset", "post"}, NEW l, task' = [task EXCEPT ![t] = l],
         t = "reset" => l \in SenderLabels \cup LoaderLabels,
         t = "post" => l \in LoaderLabels \cup {"idle", "waitCs", "receive"}
  PROVE  TasksOK'
<1>1. "idle" \in SenderLabels /\ "reset" \notin Writers /\ "post" \notin Writers
  BY DEF SenderLabels, Writers
<1>2. l \in SenderLabels \cup LoaderLabels \cup {"waitCs", "receive"}
  BY <1>1
<1> QED
  BY <1>1, <1>2 DEF TasksOK

LEMMA NextThrottlingBoolean ==
  ASSUME throttling \in BOOLEAN PROVE NextThrottling \in BOOLEAN
  BY DEF NextThrottling

(* What a step leaves alone keeps its type.                                 *)

LEMMA HostFrame == ASSUME HostOK, UNCHANGED host PROVE HostOK'
  BY DEF HostOK, host, hostIn, hostThread, hostOut

LEMMA SlaveFrame == ASSUME SlaveOK, UNCHANGED <<pins, slave>> PROVE SlaveOK'
  BY DEF SlaveOK, pins, cs, slave, slaveIn, slaveSpi, slaveOut

-----------------------------------------------------------------------------
LEMMA InitIInv == Init => IInv
<1> SUFFICES ASSUME Init PROVE IInv
  OBVIOUS
<1> USE SizesAssumption, BoundsAssumption DEF Init
<1>0. << >> \in Seq(OnWire) /\ Len(<< >>) = 0
  OBVIOUS
<1>1. Dummy(FALSE) \in OnWire
  BY DummyOnWire
<1> DEFINE empty == [q \in Queues |-> << >>]
<1>2. empty \in [Queues -> Seq(OnWire)] /\ \A q \in Queues : Len(empty[q]) = 0
  BY <1>0
<1>3. \A q \in Queues : 0 <= HostMax[q]
  OBVIOUS
<1>4. toSlave = empty /\ fromSlave = empty /\ toHost = empty /\ fromHost = empty
  OBVIOUS
<1> HIDE DEF empty
<1>5. HostOK
  <2>1. hostSent \in [Queues -> Nat] /\ \A q \in Queues : hostSent[q] <= HostMax[q]
    BY <1>3
  <2>2. /\ hostWriter \in [Queues -> {"idle", "count", "signal"}]
        /\ hostGot \in [Queues -> Seq(Nat)]
    OBVIOUS
  <2>3. \A q \in Queues : /\ Len(toSlave[q]) <= ToSlaveSize
                         /\ Len(fromSlave[q]) <= FromSlaveSize
    BY <1>2, <1>4
  <2>4. toSlave \in [Queues -> Seq(OnWire)] /\ fromSlave \in [Queues -> Seq(OnWire)]
    BY <1>2, <1>4
  <2>5. hostTx \in OnWire /\ hostRx \in OnWire
    BY <1>1
  <2>6. /\ {transReady, drLatch, dummyTx, dummyRx, throttled, hsSeen, drSeen} \subseteq BOOLEAN
        /\ toSlaveSem = 0 /\ fromSlaveSem = 0 /\ hostPc = "wait"
    OBVIOUS
  <2> QED
    BY <2>1, <2>2, <2>3, <2>4, <2>5, <2>6 DEF HostOK, Queues
<1>6. SlaveOK
  <2>1. slaveSent \in [Queues -> Nat] /\ slaveGot \in [Queues -> Seq(Nat)]
    OBVIOUS
  <2>2. buf \in [{"reset", "post"} -> OnWire]
    BY <1>1
  <2>3. \A q \in Queues : Len(toHost[q]) <= SpiTxSize /\ Len(fromHost[q]) <= SpiRxSize
    BY <1>2, <1>4
  <2>4. toHost \in [Queues -> Seq(OnWire)] /\ fromHost \in [Queues -> Seq(OnWire)]
    BY <1>2, <1>4
  <2>5. loaded \in Seq(OnWire) /\ Len(loaded) <= SpiQueueSize /\ results \in Seq(OnWire)
    BY <1>0
  <2>6. /\ task = [t \in (Writers \cup {"reset", "post"}) |-> "idle"]
        /\ spiTxSem = 0 /\ spiRxSem = 0 /\ startups \in 0..MaxStartups
    OBVIOUS
  <2>7. {hsPin, drPin, hsEdge, drEdge, csEdge, drFlag, csSem, throttling} \subseteq BOOLEAN
    <3>1. /\ hsPin = FALSE /\ drPin = FALSE /\ hsEdge = FALSE /\ drEdge = FALSE
          /\ csEdge = FALSE /\ drFlag = FALSE /\ csSem = FALSE /\ throttling = FALSE
      BY Zenon
    <3> HIDE DEF Init
    <3> QED
      BY <3>1
  <2>9. csMissed \in 0..MaxMissed
    OBVIOUS
  <2>8. TasksOK
    BY <2>6 DEF TasksOK, SenderLabels, LoaderLabels, Writers
  <2> HIDE DEF Init
  <2>10. spiTxSem \in Nat /\ spiRxSem \in Nat
    BY <2>6
  <2> QED
    BY <2>1, <2>2, <2>3, <2>4, <2>5, <2>6, <2>7, <2>8, <2>9, <2>10, Zenon DEF SlaveOK, TasksOK
<1>7. CountsMatch
  <2>1. Waiting(empty) = 0
    BY <1>2 DEF Waiting, Queues
  <2> QED
    BY <1>4, <2>1 DEF CountsMatch, OneIf, Queues, Writers
<1>8. Ready
  BY DEF Ready, HandshakeTruthful, ResultHeld, CsLow
<1> QED
  BY <1>5, <1>6, <1>7, <1>8 DEF IInv, TypeOK

-----------------------------------------------------------------------------
(* The senders of the host and its interrupts.                              *)

LEMMA WriterIInv ==
  ASSUME IInv, NEW q \in Queues,
         HostQueue(q) \/ HostCount(q) \/ HostSignal(q) \/ HsIsr \/ DrIsr \/ CsIsr
  PROVE  IInv'
<1> USE SizesAssumption, BoundsAssumption
    DEF IInv, TypeOK, host, hostIn, hostThread, hostOut, pins, cs,
        slave, slaveIn, slaveSpi, slaveOut
<1>1. CASE HostQueue(q)
  <2>1. Packet(IF q = "serial" THEN "serial" ELSE "sta", hostSent[q] + 1) \in OnWire
    BY PacketOnWire DEF HostOK
  <2>2. /\ toSlave' = [toSlave EXCEPT ![q] =
            Append(toSlave[q], Packet(IF q = "serial" THEN "serial" ELSE "sta", hostSent[q] + 1))]
        /\ Len(toSlave[q]) < ToSlaveSize
    BY <1>1 DEF HostQueue
  <2>3. /\ toSlave \in [Queues -> Seq(OnWire)] /\ ToSlaveSize \in Nat
        /\ \A r \in Queues : Len(toSlave[r]) <= ToSlaveSize
    BY DEF HostOK
  <2>4. /\ toSlave' \in [Queues -> Seq(OnWire)]
        /\ Waiting(toSlave') = Waiting(toSlave) + 1
        /\ \A r \in Queues : Len(toSlave'[r]) <= ToSlaveSize
    BY <2>1, <2>2, <2>3, PutFacts, Zenon
  <2>5. Waiting(toSlave) \in Nat
    BY WaitingFacts DEF HostOK
  <2>6. HostOK'
    <3>1. /\ UNCHANGED <<toSlaveSem, transReady, drLatch, dummyRx, throttled, dummyTx, hostPc,
                         hsSeen, drSeen, hostTx, hostRx, fromSlave, fromSlaveSem, hostGot>>
          /\ hostSent' = [hostSent EXCEPT ![q] = @ + 1] /\ hostSent[q] < HostMax[q]
          /\ hostWriter' = [hostWriter EXCEPT ![q] = "count"]
      BY <1>1 DEF HostQueue
    <3>2. /\ hostSent' \in [Queues -> Nat] /\ \A r \in Queues : hostSent'[r] <= HostMax[r]
          /\ hostWriter' \in [Queues -> {"idle", "count", "signal"}]
      BY <3>1 DEF HostOK
    <3>3. HostOK
      OBVIOUS
    <3> HIDE DEF IInv, TypeOK
    <3>4. /\ ({transReady, drLatch, dummyTx, dummyRx, throttled, hsSeen, drSeen} \subseteq BOOLEAN)'
          /\ hostRx' \in OnWire /\ hostTx' \in OnWire /\ toSlaveSem' \in Nat
      BY <3>1, <3>3 DEF HostOK
    <3>5. /\ hostPc' \in {"wait", "readDr", "decide", "transfer", "deassert", "receive", "put",
                         "end"}
          /\ fromSlave' \in [Queues -> Seq(OnWire)] /\ fromSlaveSem' \in Nat
          /\ \A r \in Queues : Len(fromSlave'[r]) <= FromSlaveSize
          /\ hostGot' \in [Queues -> Seq(Nat)]
      BY <3>1, <3>3 DEF HostOK
    <3> QED
      BY <2>4, <3>2, <3>4, <3>5, Zenon DEF HostOK
  <2>7. SlaveOK'
    BY <1>1, SlaveFrame DEF HostQueue
  <2>8. CountsMatch'
    <3> DEFINE x == OneIf(hostWriter["serial"] = "count")
               y == OneIf(hostWriter["others"] = "count")
               u == OneIf(hostWriter'["serial"] = "count")
               v == OneIf(hostWriter'["others"] = "count")
    <3>1. u + v = x + y + 1
      <4>1. /\ hostWriter \in [Queues -> {"idle", "count", "signal"}] /\ hostWriter[q] = "idle"
            /\ hostWriter' = [hostWriter EXCEPT ![q] = "count"]
        BY <1>1 DEF HostQueue, HostOK
      <4>2. CASE q = "serial"
        BY <4>1, <4>2 DEF OneIf, Queues
      <4>3. CASE q = "others"
        BY <4>1, <4>3 DEF OneIf, Queues
      <4> QED
        BY <4>2, <4>3 DEF Queues
    <3>2. Waiting(toSlave) = toSlaveSem + x + y
      BY Zenon DEF CountsMatch
    <3>3. x \in Nat /\ y \in Nat /\ u \in Nat /\ v \in Nat /\ toSlaveSem \in Nat
      BY DEF OneIf, HostOK
    <3>4. Waiting(toSlave') = Waiting(toSlave) + 1
      BY <2>4, Zenon
    <3> HIDE DEF x, y, u, v
    <3>5. Waiting(toSlave') = toSlaveSem + u + v
      <4>1. toSlaveSem + u + v = toSlaveSem + x + y + 1
        BY <3>1, <3>3, AddOne, SMT
      <4> QED
        BY <3>2, <3>4, <4>1, Zenon
    <3>6. Waiting(toSlave') = toSlaveSem' + OneIf(hostWriter'["serial"] = "count")
                                    + OneIf(hostWriter'["others"] = "count")
      BY <1>1, <3>5 DEF HostQueue, u, v
    <3> QED
      BY <1>1, <3>6 DEF HostQueue, CountsMatch
  <2>9. Ready'
    BY <1>1 DEF HostQueue, Ready, HandshakeTruthful, ResultHeld, CsLow
  <2> QED
    BY <2>6, <2>7, <2>8, <2>9
<1>2. CASE HostCount(q)
  <2>1. HostOK'
    BY <1>2 DEF HostCount, HostOK
  <2>2. SlaveOK'
    BY <1>2, SlaveFrame DEF HostCount
  <2>3. CountsMatch'
    <3> DEFINE x == OneIf(hostWriter["serial"] = "count")
               y == OneIf(hostWriter["others"] = "count")
               u == OneIf(hostWriter'["serial"] = "count")
               v == OneIf(hostWriter'["others"] = "count")
    <3>1. x + y = u + v + 1
      <4>1. /\ hostWriter \in [Queues -> {"idle", "count", "signal"}] /\ hostWriter[q] = "count"
            /\ hostWriter' = [hostWriter EXCEPT ![q] = "signal"]
        BY <1>2 DEF HostCount, HostOK
      <4>2. CASE q = "serial"
        BY <4>1, <4>2 DEF OneIf, Queues
      <4>3. CASE q = "others"
        BY <4>1, <4>3 DEF OneIf, Queues
      <4> QED
        BY <4>2, <4>3 DEF Queues
    <3>2. Waiting(toSlave) = toSlaveSem + x + y
      BY Zenon DEF CountsMatch
    <3>3. x \in Nat /\ y \in Nat /\ u \in Nat /\ v \in Nat /\ toSlaveSem \in Nat
      BY DEF OneIf, HostOK
    <3>4. toSlaveSem' = toSlaveSem + 1 /\ toSlave' = toSlave
      BY <1>2 DEF HostCount
    <3> HIDE DEF x, y, u, v
    <3>5. toSlaveSem + x + y = (toSlaveSem + 1) + u + v
      BY <3>1, <3>3, AddOne, SMT
    <3>6. Waiting(toSlave') = toSlaveSem' + OneIf(hostWriter'["serial"] = "count")
                                    + OneIf(hostWriter'["others"] = "count")
      BY <3>2, <3>4, <3>5, Zenon DEF u, v
    <3> QED
      BY <1>2, <3>6 DEF HostCount, CountsMatch
  <2>4. Ready'
    BY <1>2 DEF HostCount, Ready, HandshakeTruthful, ResultHeld, CsLow
  <2> QED
    BY <2>1, <2>2, <2>3, <2>4
<1>3. CASE HostSignal(q)
  <2>1. HostOK'
    BY <1>3 DEF HostSignal, HostOK
  <2>2. SlaveOK'
    BY <1>3, SlaveFrame DEF HostSignal
  <2>3. CountsMatch'
    BY <1>3 DEF HostSignal, CountsMatch, OneIf, HostOK, Queues
  <2>4. Ready'
    BY <1>3 DEF HostSignal, Ready, HandshakeTruthful, ResultHeld, CsLow
  <2> QED
    BY <2>1, <2>2, <2>3, <2>4
<1>4. CASE HsIsr
  <2>1. HostOK'
    BY <1>4 DEF HsIsr, HostOK
  <2>2. SlaveOK'
    BY <1>4 DEF HsIsr, SlaveOK, SenderLabels, LoaderLabels
  <2>3. CountsMatch'
    BY <1>4 DEF HsIsr, CountsMatch, OneIf
  <2>4. Ready'
    BY <1>4 DEF HsIsr, Ready, HandshakeTruthful, ResultHeld, CsLow
  <2> QED
    BY <2>1, <2>2, <2>3, <2>4
<1>5. CASE DrIsr
  <2>1. HostOK'
    BY <1>5 DEF DrIsr, HostOK
  <2>2. SlaveOK'
    BY <1>5 DEF DrIsr, SlaveOK, SenderLabels, LoaderLabels
  <2>3. CountsMatch'
    BY <1>5 DEF DrIsr, CountsMatch, OneIf
  <2>4. Ready'
    BY <1>5 DEF DrIsr, Ready, HandshakeTruthful, ResultHeld, CsLow
  <2> QED
    BY <2>1, <2>2, <2>3, <2>4
<1>6. CASE CsIsr
  <2>1. HostOK'
    BY <1>6, HostFrame DEF CsIsr
  <2>2. SlaveOK'
    BY <1>6 DEF CsIsr, SlaveOK, SenderLabels, LoaderLabels
  <2>3. CountsMatch'
    BY <1>6 DEF CsIsr, CountsMatch, OneIf
  <2>4. Ready'
    BY <1>6 DEF CsIsr, Ready, HandshakeTruthful, ResultHeld, CsLow
  <2> QED
    BY <2>1, <2>2, <2>3, <2>4
<1> QED
  BY <1>1, <1>2, <1>3, <1>4, <1>5, <1>6

-----------------------------------------------------------------------------
(* spi_transaction_task up to the transfer, and what follows it.            *)

LEMMA HostTaskIInv ==
  ASSUME IInv,
         HostWake \/ HostReadDr \/ HostSendPacket \/ HostSendDummy \/ HostIgnore \/
            DeassertCs \/ HostReceive \/ HostEnd
  PROVE  IInv'
<1> USE SizesAssumption, BoundsAssumption
    DEF IInv, TypeOK, host, hostIn, hostThread, hostOut, pins, cs,
        slave, slaveIn, slaveSpi, slaveOut
<1>1. CASE HostWake
  <2>1. HostOK'
    BY <1>1 DEF HostWake, HostOK, SlaveOK
  <2>2. SlaveOK'
    BY <1>1, SlaveFrame DEF HostWake
  <2>3. CountsMatch'
    BY <1>1 DEF HostWake, CountsMatch, OneIf
  <2>4. Ready'
    BY <1>1 DEF HostWake, Ready, HandshakeTruthful, ResultHeld, CsLow, HostOK
  <2> QED
    BY <2>1, <2>2, <2>3, <2>4
<1>2. CASE HostReadDr
  <2>1. HostOK'
    BY <1>2 DEF HostReadDr, HostOK, DataReadySeen, SlaveOK
  <2>2. SlaveOK'
    BY <1>2, SlaveFrame DEF HostReadDr
  <2>3. CountsMatch'
    BY <1>2 DEF HostReadDr, CountsMatch, OneIf
  <2>4. Ready'
    BY <1>2 DEF HostReadDr, Ready, HandshakeTruthful, ResultHeld, CsLow
  <2> QED
    BY <2>1, <2>2, <2>3, <2>4
<1>3. CASE HostSendPacket
  <2>1. Waiting(toSlave) \in Nat
    BY WaitingFacts DEF HostOK
  <2>2. Waiting(toSlave) > 0
    <3> DEFINE x == OneIf(hostWriter["serial"] = "count")
               y == OneIf(hostWriter["others"] = "count")
    <3>1. Waiting(toSlave) = toSlaveSem + x + y
      BY Zenon DEF CountsMatch
    <3>2. x \in Nat /\ y \in Nat
      BY DEF OneIf
    <3>3. toSlaveSem \in Nat /\ toSlaveSem > 0
      BY <1>3, <2>1 DEF HostSendPacket, HostOK
    <3> HIDE DEF x, y
    <3> QED
      BY <3>1, <3>2, <3>3
  <2>3. toSlave' = [toSlave EXCEPT ![FirstQueue(toSlave)] =
            Tail(toSlave[FirstQueue(toSlave)])]
    BY <1>3 DEF HostSendPacket
  <2>4. /\ toSlave \in [Queues -> Seq(OnWire)] /\ ToSlaveSize \in Nat
        /\ \A r \in Queues : Len(toSlave[r]) <= ToSlaveSize
    BY DEF HostOK
  <2>5. /\ FirstQueue(toSlave) \in Queues /\ Head(toSlave[FirstQueue(toSlave)]) \in OnWire
        /\ toSlave' \in [Queues -> Seq(OnWire)]
        /\ Waiting(toSlave') = Waiting(toSlave) - 1
        /\ \A r \in Queues : Len(toSlave'[r]) <= ToSlaveSize
    BY <2>2, <2>3, <2>4, TakeFacts, Zenon
  <2>6. hostTx' \in OnWire
    BY <1>3, <2>5 DEF HostSendPacket
  <2>7. HostOK'
    <3>1. /\ UNCHANGED <<hostSent, hostWriter, transReady, drLatch, dummyRx, throttled,
                         hsSeen, hostRx, fromSlave, fromSlaveSem, hostGot>>
          /\ dummyTx' = TRUE /\ drSeen' = FALSE /\ hostPc' = "transfer"
          /\ toSlaveSem' = toSlaveSem - 1 /\ toSlaveSem > 0
      BY <1>3 DEF HostSendPacket
    <3>2. toSlaveSem' \in Nat
      BY <3>1 DEF HostOK
    <3>3. HostOK
      OBVIOUS
    <3> HIDE DEF IInv, TypeOK
    <3>4. /\ ({transReady, drLatch, dummyTx, dummyRx, throttled, hsSeen, drSeen} \subseteq BOOLEAN)'
          /\ hostRx' \in OnWire
      BY <3>1, <3>3 DEF HostOK
    <3>5. /\ hostPc' \in {"wait", "readDr", "decide", "transfer", "deassert", "receive", "put",
                         "end"}
          /\ fromSlave' \in [Queues -> Seq(OnWire)] /\ fromSlaveSem' \in Nat
          /\ \A r \in Queues : Len(fromSlave'[r]) <= FromSlaveSize
          /\ hostGot' \in [Queues -> Seq(Nat)]
          /\ hostSent' \in [Queues -> Nat] /\ \A r \in Queues : hostSent'[r] <= HostMax[r]
          /\ hostWriter' \in [Queues -> {"idle", "count", "signal"}]
      BY <3>1, <3>3 DEF HostOK
    <3> QED
      BY <2>5, <2>6, <3>2, <3>4, <3>5, Zenon DEF HostOK
  <2>8. SlaveOK'
    <3>1. /\ UNCHANGED <<hsPin, drPin, hsEdge, drEdge, slave>> /\ csEdge' = TRUE
          /\ csEdge => csMissed < MaxMissed
          /\ csMissed' = (IF csEdge THEN csMissed + 1 ELSE csMissed)
      BY <1>3 DEF HostSendPacket, ChangeCs
    <3>2. csMissed' \in 0..MaxMissed
      BY <3>1 DEF SlaveOK
    <3>3. SlaveOK
      OBVIOUS
    <3> HIDE DEF IInv, TypeOK
    <3> QED
      BY <3>1, <3>2, <3>3 DEF SlaveOK
  <2>9. CountsMatch'
    BY <1>3, <2>1, <2>5 DEF HostSendPacket, CountsMatch, OneIf, HostOK
  <2>10. Ready'
    BY <1>3 DEF HostSendPacket, Ready, HandshakeTruthful, ResultHeld, CsLow, ChangeCs, SlaveOK
  <2> QED
    BY <2>7, <2>8, <2>9, <2>10
<1>4. CASE HostSendDummy
  <2>1. Dummy(FALSE) \in OnWire
    BY DummyOnWire
  <2>2. HostOK'
    BY <1>4, <2>1 DEF HostSendDummy, HostOK
  <2>3. SlaveOK'
    BY <1>4, <2>1 DEF HostSendDummy, SlaveOK, SenderLabels, LoaderLabels, ChangeCs
  <2>4. CountsMatch'
    BY <1>4 DEF HostSendDummy, CountsMatch, OneIf
  <2>5. Ready'
    BY <1>4 DEF HostSendDummy, Ready, HandshakeTruthful, ResultHeld, CsLow, ChangeCs, SlaveOK
  <2> QED
    BY <2>2, <2>3, <2>4, <2>5
<1>5. CASE HostIgnore
  <2>1. HostOK'
    BY <1>5 DEF HostIgnore, HostOK
  <2>2. SlaveOK'
    BY <1>5, SlaveFrame DEF HostIgnore
  <2>3. CountsMatch'
    BY <1>5 DEF HostIgnore, CountsMatch, OneIf
  <2>4. Ready'
    BY <1>5 DEF HostIgnore, Ready, HandshakeTruthful, ResultHeld, CsLow
  <2> QED
    BY <2>1, <2>2, <2>3, <2>4
<1>6. CASE DeassertCs
  <2>1. HostOK'
    BY <1>6 DEF DeassertCs, HostOK, ChangeCs
  <2>2. SlaveOK'
    BY <1>6 DEF DeassertCs, SlaveOK, SenderLabels, LoaderLabels, ChangeCs
  <2>3. CountsMatch'
    BY <1>6 DEF DeassertCs, CountsMatch, OneIf
  <2>4. Ready'
    BY <1>6 DEF DeassertCs, Ready, HandshakeTruthful, ResultHeld, CsLow, ChangeCs, SlaveOK
  <2> QED
    BY <2>1, <2>2, <2>3, <2>4
<1>7. CASE HostReceive
  <2>1. hostRx.throttle \in BOOLEAN
    BY DEF HostOK, OnWire
  <2>2. HostOK'
    BY <1>7, <2>1 DEF HostReceive, HostOK, IsDummy
  <2>3. SlaveOK'
    BY <1>7, SlaveFrame DEF HostReceive
  <2>4. CountsMatch'
    BY <1>7 DEF HostReceive, CountsMatch, OneIf
  <2>5. Ready'
    BY <1>7 DEF HostReceive, Ready, HandshakeTruthful, ResultHeld, CsLow
  <2> QED
    BY <2>2, <2>3, <2>4, <2>5
<1>8. CASE HostEnd
  <2>1. HostOK'
    BY <1>8 DEF HostEnd, HostOK
  <2>2. SlaveOK'
    BY <1>8, SlaveFrame DEF HostEnd
  <2>3. CountsMatch'
    BY <1>8 DEF HostEnd, CountsMatch, OneIf
  <2>4. Ready'
    BY <1>8 DEF HostEnd, Ready, HandshakeTruthful, ResultHeld, CsLow
  <2> QED
    BY <2>1, <2>2, <2>3, <2>4
<1> QED
  BY <1>1, <1>2, <1>3, <1>4, <1>5, <1>6, <1>7, <1>8

-----------------------------------------------------------------------------
(* The transfer, and what the host received.                                *)

LEMMA ReceiveIInv ==
  ASSUME IInv,
         Transfer \/ HostPut \/ HostRxTask
  PROVE  IInv'
<1> USE SizesAssumption, BoundsAssumption
    DEF IInv, TypeOK, host, hostIn, hostThread, hostOut, pins, cs,
        slave, slaveIn, slaveSpi, slaveOut
<1>1. CASE Transfer /\ loaded # << >>
  <2>1. loaded # << >>
    BY <1>1
  <2>2. /\ Head(loaded) \in OnWire
        /\ Tail(loaded) \in Seq(OnWire) /\ Len(Tail(loaded)) = Len(loaded) - 1
    BY <2>1, TailFacts DEF SlaveOK
  <2>3. /\ Append(results, hostTx) \in Seq(OnWire)
        /\ Append(results, hostTx) # << >>
    BY AppendOne DEF HostOK, SlaveOK
  <2>4. Dummy(FALSE) \in OnWire /\ Len(loaded) \in Nat
    BY DummyOnWire, EmptyFacts DEF SlaveOK
  <2>5. /\ loaded' = Tail(loaded) /\ results' = Append(results, hostTx)
        /\ hsPin' \in BOOLEAN /\ hsEdge' \in BOOLEAN
    BY <1>1, <2>1 DEF Transfer, RaiseHs, SlaveOK
  <2>6. Len(loaded') <= SpiQueueSize
    BY <2>2, <2>4, <2>5 DEF SlaveOK
  <2>7. HostOK'
    BY <1>1, <2>1, <2>2, <2>3, <2>4, <2>5, <2>6 DEF Transfer, HostOK
  <2>8. SlaveOK'
    BY <1>1, <2>1, <2>2, <2>3, <2>4, <2>5, <2>6 DEF Transfer, SlaveOK, SenderLabels,
       LoaderLabels
  <2>9. CountsMatch'
    BY <1>1 DEF Transfer, CountsMatch, OneIf
  <2>10. Ready'
    BY <1>1, <2>1, <2>3 DEF Transfer, Ready, HandshakeTruthful, ResultHeld, CsLow, RaiseHs
  <2> QED
    BY <2>7, <2>8, <2>9, <2>10
<1>4. CASE Transfer /\ loaded = << >>
  <2>1. Dummy(FALSE) \in OnWire
    BY DummyOnWire
  <2>2. HostOK'
    BY <1>4, <2>1 DEF Transfer, HostOK
  <2>3. SlaveOK'
    BY <1>4 DEF Transfer, SlaveOK, SenderLabels, LoaderLabels
  <2>4. CountsMatch'
    BY <1>4 DEF Transfer, CountsMatch, OneIf
  <2>5. Ready'
    BY <1>4 DEF Transfer, Ready, HandshakeTruthful, ResultHeld, CsLow
  <2> QED
    BY <2>2, <2>3, <2>4, <2>5
<1>2. CASE HostPut
  <2>1. QueueOf(hostRx.if) \in Queues /\ hostRx \in OnWire
    BY QueueOfInQueues DEF HostOK
  <2>2. /\ fromSlave' = [fromSlave EXCEPT ![QueueOf(hostRx.if)] =
            Append(fromSlave[QueueOf(hostRx.if)], hostRx)]
        /\ Len(fromSlave[QueueOf(hostRx.if)]) < FromSlaveSize
    BY <1>2 DEF HostPut
  <2>3. /\ fromSlave \in [Queues -> Seq(OnWire)] /\ FromSlaveSize \in Nat
        /\ \A r \in Queues : Len(fromSlave[r]) <= FromSlaveSize
    BY DEF HostOK
  <2>4. /\ fromSlave' \in [Queues -> Seq(OnWire)]
        /\ Waiting(fromSlave') = Waiting(fromSlave) + 1
        /\ \A r \in Queues : Len(fromSlave'[r]) <= FromSlaveSize
    BY <2>1, <2>2, <2>3, PutFacts, Zenon
  <2>5. Waiting(fromSlave) \in Nat
    BY WaitingFacts DEF HostOK
  <2>6. Dummy(FALSE) \in OnWire
    BY DummyOnWire
  <2>7. /\ fromSlaveSem' = fromSlaveSem + 1 /\ hostRx' = Dummy(FALSE) /\ hostPc' = "end"
        /\ UNCHANGED <<hostSent, hostWriter, toSlave, toSlaveSem, transReady, drLatch, dummyTx,
                       dummyRx, throttled, hsSeen, drSeen, hostTx, hostGot>>
    BY <1>2 DEF HostPut
  <2>8. fromSlaveSem' \in Nat
    BY <2>7 DEF HostOK
  <2>9. HostOK'
    BY <2>4, <2>6, <2>7, <2>8, Zenon DEF HostOK
  <2>10. SlaveOK'
    BY <1>2, SlaveFrame DEF HostPut
  <2>11. CountsMatch'
    BY <1>2, <2>4, <2>5 DEF HostPut, CountsMatch, OneIf
  <2>12. Ready'
    BY <1>2 DEF HostPut, Ready, HandshakeTruthful, ResultHeld, CsLow
  <2> QED
    BY <2>9, <2>10, <2>11, <2>12
<1>3. CASE HostRxTask
  <2>1. Waiting(fromSlave) \in Nat
    BY WaitingFacts DEF HostOK
  <2>2. Waiting(fromSlave) > 0
    BY <1>3, <2>1 DEF HostRxTask, CountsMatch, HostOK
  <2>3. fromSlave' = [fromSlave EXCEPT ![FirstQueue(fromSlave)] =
            Tail(fromSlave[FirstQueue(fromSlave)])]
    BY <1>3 DEF HostRxTask
  <2>4. /\ fromSlave \in [Queues -> Seq(OnWire)] /\ FromSlaveSize \in Nat
        /\ \A r \in Queues : Len(fromSlave[r]) <= FromSlaveSize
    BY DEF HostOK
  <2>5. /\ FirstQueue(fromSlave) \in Queues /\ Head(fromSlave[FirstQueue(fromSlave)]) \in OnWire
        /\ fromSlave' \in [Queues -> Seq(OnWire)]
        /\ Waiting(fromSlave') = Waiting(fromSlave) - 1
        /\ \A r \in Queues : Len(fromSlave'[r]) <= FromSlaveSize
    BY <2>2, <2>3, <2>4, TakeFacts, Zenon
  <2>6. hostGot' \in [Queues -> Seq(Nat)]
    <3>1. Head(fromSlave[FirstQueue(fromSlave)]).n \in Nat
      BY <2>5 DEF OnWire
    <3>2. hostGot' = [hostGot EXCEPT ![FirstQueue(fromSlave)] =
              Append(@, Head(fromSlave[FirstQueue(fromSlave)]).n)]
      BY <1>3 DEF HostRxTask
    <3> QED
      BY <2>5, <3>1, <3>2 DEF HostOK
  <2>7. fromSlaveSem' \in Nat /\ dummyRx' \in BOOLEAN
        /\ UNCHANGED <<hostSent, hostWriter, toSlave, toSlaveSem, transReady, drLatch, throttled,
                       dummyTx, hostPc, hsSeen, drSeen, hostTx, hostRx>>
    BY <1>3 DEF HostRxTask, HostOK
  <2>8. HostOK'
    BY <2>5, <2>6, <2>7 DEF HostOK
  <2>9. SlaveOK'
    BY <1>3, SlaveFrame DEF HostRxTask
  <2>10. CountsMatch'
    <3>1. /\ fromSlaveSem' = fromSlaveSem - 1
          /\ UNCHANGED <<toSlave, toSlaveSem, hostWriter, fromHost, spiRxSem, toHost,
                         spiTxSem, task>>
      BY <1>3 DEF HostRxTask
    <3>2. Waiting(fromSlave') = fromSlaveSem'
      BY <2>1, <2>5, <3>1 DEF CountsMatch
    <3> QED
      BY <3>1, <3>2, Zenon DEF CountsMatch, Waiting
  <2>11. Ready'
    BY <1>3 DEF HostRxTask, Ready, HandshakeTruthful, ResultHeld, CsLow
  <2> QED
    BY <2>8, <2>9, <2>10, <2>11
<1> QED
  BY <1>1, <1>2, <1>3, <1>4

-----------------------------------------------------------------------------
(* The writers of the co-processor put a packet.                            *)

\* The other semaphores are left alone.
LEMMA NewCounts ==
  ASSUME IInv, SlaveOK', Waiting(toHost') = spiTxSem' + Uncounted',
         UNCHANGED <<toSlave, toSlaveSem, hostWriter, fromSlave, fromSlaveSem, fromHost,
                     spiRxSem>>
  PROVE  CountsMatch'
<1>1. spiTxSem' \in Nat
  BY DEF SlaveOK
<1>2. (Waiting(toHost) = spiTxSem + OneIf(task["serial"] # "idle")
                                  + OneIf(task["sta"] # "idle")
                                  + OneIf(task["reset"] = "count"))'
  <2> DEFINE x == OneIf(task'["serial"] # "idle") y == OneIf(task'["sta"] # "idle")
             z == OneIf(task'["reset"] = "count")
  <2>1. x \in Nat /\ y \in Nat /\ z \in Nat
    BY DEF OneIf
  <2>2. Uncounted' = (x + y) + z
    BY Zenon DEF Uncounted
  <2> HIDE DEF x, y, z
  <2>3. spiTxSem' + x + y + z = spiTxSem' + ((x + y) + z)
    BY <1>1, <2>1
  <2>4. Waiting(toHost') = spiTxSem' + x + y + z
    BY <2>2, <2>3, Zenon
  <2> QED
    BY <2>4, Zenon DEF x, y, z, Waiting
<1> QED
  BY <1>2, Zenon DEF IInv, CountsMatch, Waiting

LEMMA SenderWriteIInv ==
  ASSUME IInv, NEW interface \in {"serial", "sta"},
         SlaveWrite(interface) \/ SlaveStartup
  PROVE  IInv'
<1> USE SizesAssumption, BoundsAssumption
    DEF IInv, TypeOK, host, hostIn, hostThread, hostOut, pins, cs,
        slave, slaveIn, slaveSpi, slaveOut
<1>1. CASE SlaveWrite(interface)
  <2>1. QueueOf(interface) \in Queues /\ NextThrottling \in BOOLEAN
    BY QueueOfInQueues, NextThrottlingBoolean DEF SlaveOK
  <2>2. Packet(interface, slaveSent[QueueOf(interface)] + 1) \in OnWire
    <3>1. slaveSent[QueueOf(interface)] + 1 \in Nat
      BY <2>1 DEF SlaveOK
    <3> QED
      BY <3>1, PacketOnWire
  <2>3. /\ toHost' = [toHost EXCEPT ![QueueOf(interface)] =
            Append(toHost[QueueOf(interface)],
                   Packet(interface, slaveSent[QueueOf(interface)] + 1))]
        /\ Len(toHost[QueueOf(interface)]) < SpiTxSize
    BY <1>1 DEF SlaveWrite, PutToHost
  <2>4. /\ toHost \in [Queues -> Seq(OnWire)] /\ SpiTxSize \in Nat
        /\ \A r \in Queues : Len(toHost[r]) <= SpiTxSize
    BY DEF SlaveOK
  <2>5. /\ toHost' \in [Queues -> Seq(OnWire)]
        /\ Waiting(toHost') = Waiting(toHost) + 1
        /\ \A r \in Queues : Len(toHost'[r]) <= SpiTxSize
    BY <2>1, <2>2, <2>3, <2>4, PutFacts, Zenon
  <2>6. Waiting(toHost) \in Nat
    BY WaitingFacts DEF SlaveOK
  <2>7. HostOK'
    BY <1>1, HostFrame DEF SlaveWrite
  <2>8. SlaveOK'
    <3>1. slaveSent' = [slaveSent EXCEPT ![QueueOf(interface)] = @ + 1]
      BY <1>1 DEF SlaveWrite, PutToHost
    <3>2. slaveSent' \in [Queues -> Nat]
      BY <2>1, <3>1 DEF SlaveOK
    <3>3. task' = [task EXCEPT ![interface] = "testDr"] /\ throttling' \in BOOLEAN
      BY <1>1, <2>1 DEF SlaveWrite, Goto
    <3>4. UNCHANGED <<pins, startups, buf, spiTxSem, drFlag, slaveSpi, slaveOut>>
      BY <1>1 DEF SlaveWrite
    <3> QED
      BY <2>5, <3>2, <3>3, <3>4 DEF SlaveOK, SenderLabels, LoaderLabels, Writers
  <2>9. CountsMatch'
    <3>1. Uncounted' = Uncounted + 1
      <4>1. /\ task' = [task EXCEPT ![interface] = "testDr"] /\ task[interface] = "idle"
            /\ task \in [Writers \cup {"reset", "post"} ->
                           SenderLabels \cup LoaderLabels \cup {"waitCs", "receive"}]
        BY <1>1 DEF SlaveWrite, Goto, SlaveOK
      <4>2. CASE interface = "serial"
        BY <4>1, <4>2 DEF Uncounted, OneIf, Writers
      <4>3. CASE interface = "sta"
        BY <4>1, <4>3 DEF Uncounted, OneIf, Writers
      <4> QED
        BY <4>2, <4>3
    <3>2. Uncounted \in Nat /\ Waiting(toHost) = spiTxSem + Uncounted /\ spiTxSem \in Nat
      BY UncountedFacts DEF SlaveOK
    <3>3. UNCHANGED <<toSlave, toSlaveSem, hostWriter, fromSlave, fromSlaveSem, fromHost,
                      spiRxSem, spiTxSem>>
      BY <1>1 DEF SlaveWrite
    <3>4. Waiting(toHost') = spiTxSem' + Uncounted'
      BY <2>5, <3>1, <3>2, <3>3
    <3> QED
      BY <2>8, <3>3, <3>4, NewCounts, Zenon
  <2>10. Ready'
    BY <1>1 DEF SlaveWrite, Ready, HandshakeTruthful, ResultHeld, CsLow, Goto, SlaveOK
  <2> QED
    BY <2>7, <2>8, <2>9, <2>10
<1>2. CASE SlaveStartup
  <2>1. QueueOf("priv") \in Queues
    BY QueueOfInQueues
  <2>2. Packet("priv", slaveSent[QueueOf("priv")] + 1) \in OnWire
    <3>1. slaveSent[QueueOf("priv")] + 1 \in Nat
      BY <2>1 DEF SlaveOK
    <3> QED
      BY <3>1, PacketOnWire
  <2>3. /\ toHost' = [toHost EXCEPT ![QueueOf("priv")] =
            Append(toHost[QueueOf("priv")], Packet("priv", slaveSent[QueueOf("priv")] + 1))]
        /\ Len(toHost[QueueOf("priv")]) < SpiTxSize
    BY <1>2 DEF SlaveStartup, PutToHost
  <2>4. /\ toHost \in [Queues -> Seq(OnWire)] /\ SpiTxSize \in Nat
        /\ \A r \in Queues : Len(toHost[r]) <= SpiTxSize
    BY DEF SlaveOK
  <2>5. /\ toHost' \in [Queues -> Seq(OnWire)]
        /\ Waiting(toHost') = Waiting(toHost) + 1
        /\ \A r \in Queues : Len(toHost'[r]) <= SpiTxSize
    BY <2>1, <2>2, <2>3, <2>4, PutFacts, Zenon
  <2>6. Waiting(toHost) \in Nat
    BY WaitingFacts DEF SlaveOK
  <2>7. slaveSent' \in [Queues -> Nat]
    <3>1. slaveSent' = [slaveSent EXCEPT ![QueueOf("priv")] = @ + 1]
      BY <1>2 DEF SlaveStartup, PutToHost
    <3> QED
      BY <2>1, <3>1 DEF SlaveOK
  <2>8. task' = [task EXCEPT !["reset"] = "count"] /\ startups' \in 0..MaxStartups
    BY <1>2 DEF SlaveStartup, Goto, SlaveOK
  <2>9. UNCHANGED <<pins, buf, spiTxSem, drFlag, slaveSpi, slaveOut, throttling>>
    BY <1>2 DEF SlaveStartup
  <2>10. HostOK'
    BY <1>2, HostFrame DEF SlaveStartup
  <2>11. SlaveOK'
    BY <2>5, <2>7, <2>8, <2>9 DEF SlaveOK, SenderLabels, LoaderLabels
  <2>12. CountsMatch'
    <3>1. Uncounted' = Uncounted + 1
      <4>1. task["reset"] = "idle"
        BY <1>2 DEF SlaveStartup
      <4>2. /\ OneIf(task["reset"] = "count") = 0 /\ OneIf(task'["reset"] = "count") = 1
            /\ task'["serial"] = task["serial"] /\ task'["sta"] = task["sta"]
        BY <2>8, <4>1 DEF OneIf, SlaveOK, Writers
      <4> QED
        BY <4>2 DEF Uncounted, OneIf
    <3>2. Uncounted \in Nat /\ Waiting(toHost) = spiTxSem + Uncounted /\ spiTxSem \in Nat
      BY UncountedFacts DEF SlaveOK
    <3>3. UNCHANGED <<toSlave, toSlaveSem, hostWriter, fromSlave, fromSlaveSem, fromHost,
                      spiRxSem, spiTxSem>>
      BY <1>2 DEF SlaveStartup
    <3>4. Waiting(toHost') = spiTxSem' + Uncounted'
      BY <2>5, <3>1, <3>2, <3>3
    <3> QED
      BY <2>11, <3>3, <3>4, NewCounts, Zenon
  <2>13. Ready'
    BY <1>2 DEF SlaveStartup, Ready, HandshakeTruthful, ResultHeld, CsLow, Goto, SlaveOK
  <2> QED
    BY <2>10, <2>11, <2>12, <2>13
<1> QED
  BY <1>1, <1>2

LEMMA SameUncounted ==
  ASSUME IInv, SlaveOK', Uncounted' = Uncounted, UNCHANGED <<spiTxSem, toHost>>,
         UNCHANGED <<toSlave, toSlaveSem, hostWriter, fromSlave, fromSlaveSem, fromHost,
                     spiRxSem>>
  PROVE  CountsMatch'
<1>1. Waiting(toHost') = spiTxSem' + Uncounted'
  <2>1. Waiting(toHost) = spiTxSem + Uncounted
    BY UncountedFacts
  <2> QED
    BY <2>1, Zenon
<1> QED
  BY <1>1, NewCounts

-----------------------------------------------------------------------------
(* They count the packet and raise DR.                                      *)

LEMMA SenderIInv ==
  ASSUME IInv, NEW t \in Writers \cup {"reset"},
         SlaveCount(t) \/ TestDr(t) \/ RaiseDr(t) \/ SetFlag(t)
  PROVE  IInv'
<1> USE SizesAssumption, BoundsAssumption
    DEF IInv, TypeOK, host, hostIn, hostThread, hostOut, pins, cs,
        slave, slaveIn, slaveSpi, slaveOut
<1>1. CASE SlaveCount(t)
  <2>1. HostOK'
    BY <1>1, HostFrame DEF SlaveCount
  <2>2. SlaveOK'
    BY <1>1 DEF SlaveCount, SlaveOK, SenderLabels, LoaderLabels, Goto, AfterDr
  <2>3. CountsMatch'
    <3>1. /\ task' = [task EXCEPT ![t] = IF t \in Writers THEN "idle" ELSE "testDr"]
          /\ task[t] = "count" /\ spiTxSem' = spiTxSem + 1
          /\ task \in [Writers \cup {"reset", "post"} ->
                         SenderLabels \cup LoaderLabels \cup {"waitCs", "receive"}]
          /\ UNCHANGED <<toHost, toSlave, toSlaveSem, hostWriter, fromSlave, fromSlaveSem,
                         fromHost, spiRxSem>>
      BY <1>1 DEF SlaveCount, Goto, SlaveOK
    <3>2. Uncounted \in Nat /\ Waiting(toHost) = spiTxSem + Uncounted /\ spiTxSem \in Nat
      BY UncountedFacts DEF SlaveOK
    <3>3. Uncounted = Uncounted' + 1 /\ Uncounted' \in Nat
      <4>1. CASE t = "serial"
        BY <3>1, <4>1 DEF Uncounted, OneIf, Writers
      <4>2. CASE t = "sta"
        BY <3>1, <4>2 DEF Uncounted, OneIf, Writers
      <4>3. CASE t = "reset"
        BY <3>1, <4>3 DEF Uncounted, OneIf, Writers
      <4> QED
        BY <4>1, <4>2, <4>3 DEF Writers
    <3>4. Waiting(toHost') = spiTxSem' + Uncounted'
      <4>1. Waiting(toHost') = Waiting(toHost)
        BY <3>1, Zenon
      <4> QED
        BY <3>1, <3>2, <3>3, <4>1
    <3> QED
      BY <2>2, <3>1, <3>4, NewCounts
  <2>4. Ready'
    BY <1>1 DEF SlaveCount, Ready, HandshakeTruthful, ResultHeld, CsLow, Goto, SlaveOK
  <2> QED
    BY <2>1, <2>2, <2>3, <2>4
<1>2. CASE TestDr(t)
  <2>1. HostOK'
    BY <1>2, HostFrame DEF TestDr
  <2>2. SlaveOK'
    BY <1>2 DEF TestDr, SlaveOK, SenderLabels, LoaderLabels, Goto, AfterDr
  <2>3. CountsMatch'
    <3>1. Uncounted' = Uncounted
      BY <1>2 DEF TestDr, Goto, AfterDr, SlaveOK, Uncounted, OneIf, Writers
    <3> QED
      BY <1>2, <2>2, <3>1, SameUncounted DEF TestDr
  <2>4. Ready'
    BY <1>2 DEF TestDr, Ready, HandshakeTruthful, ResultHeld, CsLow, Goto, SlaveOK
  <2> QED
    BY <2>1, <2>2, <2>3, <2>4
<1>3. CASE RaiseDr(t)
  <2>1. HostOK'
    BY <1>3, HostFrame DEF RaiseDr
  <2>2. SlaveOK'
    BY <1>3 DEF RaiseDr, SlaveOK, SenderLabels, LoaderLabels, Goto, AfterDr
  <2>3. CountsMatch'
    BY <1>3 DEF RaiseDr, CountsMatch, OneIf, Goto, AfterDr, SlaveOK
  <2>4. Ready'
    BY <1>3 DEF RaiseDr, Ready, HandshakeTruthful, ResultHeld, CsLow, Goto, SlaveOK
  <2> QED
    BY <2>1, <2>2, <2>3, <2>4
<1>4. CASE SetFlag(t)
  <2>1. HostOK'
    BY <1>4, HostFrame DEF SetFlag
  <2>2. SlaveOK'
    BY <1>4 DEF SetFlag, SlaveOK, SenderLabels, LoaderLabels, Goto, AfterDr
  <2>3. CountsMatch'
    <3>1. Uncounted' = Uncounted
      BY <1>4 DEF SetFlag, Goto, AfterDr, SlaveOK, Uncounted, OneIf, Writers
    <3> QED
      BY <1>4, <2>2, <3>1, SameUncounted DEF SetFlag
  <2>4. Ready'
    BY <1>4 DEF SetFlag, Ready, HandshakeTruthful, ResultHeld, CsLow, Goto, SlaveOK
  <2> QED
    BY <2>1, <2>2, <2>3, <2>4
<1> QED
  BY <1>1, <1>2, <1>3, <1>4

-----------------------------------------------------------------------------
(* The two loaders.                                                         *)

LEMMA LoaderIInv ==
  ASSUME IInv, NEW t \in {"reset", "post"},
         LoadPacket(t) \/ LoadNothing(t) \/ LowerDr(t) \/ ClearFlag(t) \/ LoadDummy(t) \/
            QueueTransaction(t)
  PROVE  IInv'
<1> USE SizesAssumption, BoundsAssumption
    DEF IInv, TypeOK, host, hostIn, hostThread, hostOut, pins, cs,
        slave, slaveIn, slaveSpi, slaveOut
<1>1. CASE LoadPacket(t)
  <2>1. Waiting(toHost) \in Nat
    BY WaitingFacts DEF SlaveOK
  <2>2. Waiting(toHost) > 0
    <3>1. spiTxSem \in Nat /\ spiTxSem > 0
      BY <1>1 DEF LoadPacket, SlaveOK
    <3> QED
      BY <3>1, UncountedFacts
  <2>3. toHost' = [toHost EXCEPT ![FirstQueue(toHost)] =
            Tail(toHost[FirstQueue(toHost)])]
    BY <1>1 DEF LoadPacket
  <2>4. /\ toHost \in [Queues -> Seq(OnWire)] /\ SpiTxSize \in Nat
        /\ \A r \in Queues : Len(toHost[r]) <= SpiTxSize
    BY DEF SlaveOK
  <2>5. /\ FirstQueue(toHost) \in Queues /\ Head(toHost[FirstQueue(toHost)]) \in OnWire
        /\ toHost' \in [Queues -> Seq(OnWire)]
        /\ Waiting(toHost') = Waiting(toHost) - 1
        /\ \A r \in Queues : Len(toHost'[r]) <= SpiTxSize
    BY <2>2, <2>3, <2>4, TakeFacts, Zenon
  <2>6. HostOK'
    BY <1>1, HostFrame DEF LoadPacket
  <2>7. SlaveOK'
    <3>1. /\ task' = [task EXCEPT ![t] = "queue"]
          /\ buf' = [buf EXCEPT ![t] = Head(toHost[FirstQueue(toHost)])]
          /\ spiTxSem' = spiTxSem - 1 /\ spiTxSem > 0
          /\ UNCHANGED <<pins, slaveSent, startups, drFlag, slaveSpi, slaveOut, throttling>>
      BY <1>1 DEF LoadPacket, Goto
    <3>2. TasksOK' /\ spiTxSem' \in Nat
      <4>1. "queue" \in LoaderLabels
        BY DEF LoaderLabels
      <4>2. TasksOK /\ spiTxSem' \in Nat
        BY <3>1 DEF SlaveOK, TasksOK
      <4>3. TasksOK'
        BY <3>1, <4>1, <4>2, TaskStep
      <4> QED
        BY <4>2, <4>3
    <3>3. buf' \in [{"reset", "post"} -> OnWire]
      BY <2>5, <3>1 DEF SlaveOK
    <3> HIDE DEF IInv, TypeOK
    <3>4. UNCHANGED <<hsPin, drPin, hsEdge, drEdge, csEdge, csMissed, drFlag, csSem,
                     throttling, slaveSent, startups, loaded, results, fromHost, spiRxSem,
                     slaveGot>>
      BY <3>1
    <3>5. SlaveOK /\ toHost' \in [Queues -> Seq(OnWire)]
          /\ \A r \in Queues : Len(toHost'[r]) <= SpiTxSize
      BY <2>5 DEF IInv, TypeOK
    <3> QED
      BY <3>2, <3>3, <3>4, <3>5, Zenon DEF SlaveOK, TasksOK
  <2>8. CountsMatch'
    <3>1. /\ UNCHANGED <<toSlave, toSlaveSem, hostWriter, fromSlave, fromSlaveSem,
                        fromHost, spiRxSem>>
          /\ spiTxSem' = spiTxSem - 1
      BY <1>1 DEF LoadPacket
    <3>2. Uncounted' = Uncounted
      BY <1>1 DEF LoadPacket, Goto, SlaveOK, Uncounted, OneIf, Writers
    <3>3. Uncounted \in Nat /\ Waiting(toHost) = spiTxSem + Uncounted /\ spiTxSem \in Nat
      BY UncountedFacts DEF SlaveOK
    <3>4. Waiting(toHost') = spiTxSem' + Uncounted'
      BY <2>5, <3>1, <3>2, <3>3
    <3> QED
      BY <2>7, <3>1, <3>4, NewCounts, Zenon
  <2>9. Ready'
    BY <1>1 DEF LoadPacket, Ready, HandshakeTruthful, ResultHeld, CsLow, Goto, SlaveOK
  <2> QED
    BY <2>6, <2>7, <2>8, <2>9
<1>2. CASE LoadNothing(t)
  <2>1. HostOK'
    BY <1>2, HostFrame DEF LoadNothing
  <2>2. SlaveOK'
    BY <1>2 DEF LoadNothing, SlaveOK, SenderLabels, LoaderLabels, Goto
  <2>3. CountsMatch'
    BY <1>2 DEF LoadNothing, CountsMatch, OneIf, Goto, SlaveOK
  <2>4. Ready'
    BY <1>2 DEF LoadNothing, Ready, HandshakeTruthful, ResultHeld, CsLow, Goto, SlaveOK
  <2> QED
    BY <2>1, <2>2, <2>3, <2>4
<1>3. CASE LowerDr(t)
  <2>1. HostOK'
    BY <1>3, HostFrame DEF LowerDr
  <2>2. SlaveOK'
    BY <1>3 DEF LowerDr, SlaveOK, SenderLabels, LoaderLabels, Goto
  <2>3. CountsMatch'
    BY <1>3 DEF LowerDr, CountsMatch, OneIf, Goto, SlaveOK
  <2>4. Ready'
    BY <1>3 DEF LowerDr, Ready, HandshakeTruthful, ResultHeld, CsLow, Goto, SlaveOK
  <2> QED
    BY <2>1, <2>2, <2>3, <2>4
<1>4. CASE ClearFlag(t)
  <2>1. HostOK'
    BY <1>4, HostFrame DEF ClearFlag
  <2>2. SlaveOK'
    BY <1>4 DEF ClearFlag, SlaveOK, SenderLabels, LoaderLabels, Goto
  <2>3. CountsMatch'
    BY <1>4 DEF ClearFlag, CountsMatch, OneIf, Goto, SlaveOK
  <2>4. Ready'
    BY <1>4 DEF ClearFlag, Ready, HandshakeTruthful, ResultHeld, CsLow, Goto, SlaveOK
  <2> QED
    BY <2>1, <2>2, <2>3, <2>4
<1>5. CASE LoadDummy(t)
  <2>1. NextThrottling \in BOOLEAN
    BY NextThrottlingBoolean DEF SlaveOK
  <2>2. Dummy(NextThrottling) \in OnWire
    BY <2>1, DummyOnWire
  <2>3. HostOK'
    BY <1>5, HostFrame DEF LoadDummy
  <2>4. SlaveOK'
    BY <1>5, <2>1, <2>2 DEF LoadDummy, SlaveOK, SenderLabels, LoaderLabels, Goto
  <2>5. CountsMatch'
    BY <1>5 DEF LoadDummy, CountsMatch, OneIf, Goto, SlaveOK
  <2>6. Ready'
    BY <1>5 DEF LoadDummy, Ready, HandshakeTruthful, ResultHeld, CsLow, Goto, SlaveOK
  <2> QED
    BY <2>3, <2>4, <2>5, <2>6
<1>6. CASE QueueTransaction(t)
  <2>1. Dummy(FALSE) \in OnWire /\ Len(loaded) \in Nat
    BY DummyOnWire, EmptyFacts DEF SlaveOK
  <2>2. /\ loaded' \in Seq(OnWire) /\ Len(loaded') = Len(loaded) + 1
        /\ loaded' # << >>
    BY <1>6, AppendOne DEF QueueTransaction, SlaveOK
  <2>3. Len(loaded') <= SpiQueueSize
    BY <1>6, <2>1, <2>2 DEF QueueTransaction, SlaveOK
  <2>4. hsPin' \in BOOLEAN /\ hsEdge' \in BOOLEAN
    BY <1>6 DEF QueueTransaction, RaiseHs, SlaveOK
  <2>5. HostOK'
    BY <1>6, HostFrame DEF QueueTransaction
  <2>6. SlaveOK'
    BY <1>6, <2>1, <2>2, <2>3, <2>4 DEF QueueTransaction, SlaveOK, SenderLabels,
       LoaderLabels, Goto
  <2>7. CountsMatch'
    BY <1>6 DEF QueueTransaction, CountsMatch, OneIf, Goto, SlaveOK
  <2>8. Ready'
    BY <1>6, <2>2 DEF QueueTransaction, Ready, HandshakeTruthful, ResultHeld, CsLow, Goto, RaiseHs,
       SlaveOK
  <2> QED
    BY <2>5, <2>6, <2>7, <2>8
<1> QED
  BY <1>1, <1>2, <1>3, <1>4, <1>5, <1>6

-----------------------------------------------------------------------------
(* The rest of spi_transaction_post_process_task, and recv_task.            *)

LEMMA PostIInv ==
  ASSUME IInv,
         PostGet \/ PostWaitCs \/ PostReceive \/ SlaveRead
  PROVE  IInv'
<1> USE SizesAssumption, BoundsAssumption
    DEF IInv, TypeOK, host, hostIn, hostThread, hostOut, pins, cs,
        slave, slaveIn, slaveSpi, slaveOut
<1>1. CASE PostGet
  <2>1. HostOK'
    BY <1>1, HostFrame DEF PostGet
  <2>2. SlaveOK'
    <3>1. /\ task' = [task EXCEPT !["post"] = "waitCs"]
          /\ UNCHANGED <<pins, slaveIn, buf, drFlag, slaveSpi, slaveOut, throttling>>
      BY <1>1 DEF PostGet, Goto
    <3>2. TasksOK'
      BY <3>1, TaskStep DEF SlaveOK, TasksOK
    <3> QED
      BY <3>1, <3>2 DEF SlaveOK, TasksOK
  <2>3. CountsMatch'
    BY <1>1 DEF PostGet, CountsMatch, OneIf, Goto, SlaveOK
  <2>4. Ready'
    BY <1>1 DEF PostGet, Ready, HandshakeTruthful, ResultHeld, CsLow, Goto, SlaveOK
  <2> QED
    BY <2>1, <2>2, <2>3, <2>4
<1>2. CASE PostWaitCs
  <2>1. HostOK'
    BY <1>2, HostFrame DEF PostWaitCs
  <2>2. SlaveOK'
    BY <1>2 DEF PostWaitCs, SlaveOK, SenderLabels, LoaderLabels, Goto
  <2>3. CountsMatch'
    BY <1>2 DEF PostWaitCs, CountsMatch, OneIf, Goto, SlaveOK
  <2>4. Ready'
    BY <1>2 DEF PostWaitCs, Ready, HandshakeTruthful, ResultHeld, CsLow, Goto, SlaveOK
  <2> QED
    BY <2>1, <2>2, <2>3, <2>4
<1>3. CASE PostReceive
  <2>1. results # << >>
    BY <1>3 DEF PostReceive, Ready, ResultHeld
  <2>2. Head(results) \in OnWire /\ Tail(results) \in Seq(OnWire)
    BY <2>1, TailFacts DEF SlaveOK
  <2>3. /\ fromHost' \in [Queues -> Seq(OnWire)] /\ spiRxSem' \in Nat
        /\ Waiting(fromHost') = spiRxSem'
        /\ \A r \in Queues : Len(fromHost'[r]) <= SpiRxSize
    <3>1. CASE IsDummy(Head(results))
      BY <1>3, <3>1 DEF PostReceive, SlaveOK, CountsMatch
    <3>2. CASE ~IsDummy(Head(results))
      <4>1. /\ fromHost' = [fromHost EXCEPT ![QueueOf(Head(results).if)] =
                  Append(fromHost[QueueOf(Head(results).if)], Head(results))]
            /\ Len(fromHost[QueueOf(Head(results).if)]) < SpiRxSize
            /\ spiRxSem' = spiRxSem + 1
        BY <1>3, <3>2 DEF PostReceive
      <4>2. /\ fromHost \in [Queues -> Seq(OnWire)] /\ SpiRxSize \in Nat
            /\ \A r \in Queues : Len(fromHost[r]) <= SpiRxSize
            /\ QueueOf(Head(results).if) \in Queues
        BY QueueOfInQueues DEF SlaveOK
      <4>3. /\ fromHost' \in [Queues -> Seq(OnWire)]
            /\ Waiting(fromHost') = Waiting(fromHost) + 1
            /\ \A r \in Queues : Len(fromHost'[r]) <= SpiRxSize
        BY <2>2, <4>1, <4>2, PutFacts, Zenon
      <4> QED
        <5>1. Waiting(fromHost) = spiRxSem /\ spiRxSem \in Nat
          BY DEF SlaveOK, CountsMatch
        <5> QED
          BY <4>1, <4>3, <5>1
    <3> QED
      BY <3>1, <3>2
  <2>4. HostOK'
    BY <1>3, HostFrame DEF PostReceive
  <2>5. SlaveOK'
    BY <1>3, <2>1, <2>2, <2>3 DEF PostReceive, SlaveOK, SenderLabels, LoaderLabels, Goto
  <2>6. CountsMatch'
    BY <1>3, <2>3 DEF PostReceive, CountsMatch, OneIf, Goto, SlaveOK
  <2>7. Ready'
    BY <1>3 DEF PostReceive, Ready, HandshakeTruthful, ResultHeld, CsLow, Goto, SlaveOK
  <2> QED
    BY <2>4, <2>5, <2>6, <2>7
<1>4. CASE SlaveRead
  <2>1. Waiting(fromHost) \in Nat
    BY WaitingFacts DEF SlaveOK
  <2>2. Waiting(fromHost) > 0
    BY <1>4, <2>1 DEF SlaveRead, CountsMatch, SlaveOK
  <2>3. fromHost' = [fromHost EXCEPT ![FirstQueue(fromHost)] =
            Tail(fromHost[FirstQueue(fromHost)])]
    BY <1>4 DEF SlaveRead
  <2>4. /\ fromHost \in [Queues -> Seq(OnWire)] /\ SpiRxSize \in Nat
        /\ \A r \in Queues : Len(fromHost[r]) <= SpiRxSize
    BY DEF SlaveOK
  <2>5. /\ FirstQueue(fromHost) \in Queues /\ Head(fromHost[FirstQueue(fromHost)]) \in OnWire
        /\ fromHost' \in [Queues -> Seq(OnWire)]
        /\ Waiting(fromHost') = Waiting(fromHost) - 1
        /\ \A r \in Queues : Len(fromHost'[r]) <= SpiRxSize
    BY <2>2, <2>3, <2>4, TakeFacts, Zenon
  <2>6. slaveGot' \in [Queues -> Seq(Nat)]
    <3>1. slaveGot \in [Queues -> Seq(Nat)]
      BY DEF SlaveOK
    <3>2. Head(fromHost[FirstQueue(fromHost)]).n \in Nat
      BY <2>5 DEF OnWire
    <3>3. slaveGot' = [slaveGot EXCEPT ![FirstQueue(fromHost)] =
              Append(@, Head(fromHost[FirstQueue(fromHost)]).n)]
      BY <1>4 DEF SlaveRead
    <3> QED
      BY <2>5, <3>1, <3>2, <3>3
  <2>7. HostOK'
    BY <1>4, HostFrame DEF SlaveRead
  <2>8. SlaveOK'
    <3>1. spiRxSem' \in Nat
      BY <1>4 DEF SlaveRead, SlaveOK
    <3>2. UNCHANGED <<pins, slaveIn, task, buf, drFlag, slaveSpi, throttling>>
      BY <1>4 DEF SlaveRead
    <3> QED
      BY <2>5, <2>6, <3>1, <3>2 DEF SlaveOK
  <2>9. CountsMatch'
    <3>1. /\ spiRxSem' = spiRxSem - 1
          /\ UNCHANGED <<toSlave, toSlaveSem, hostWriter, fromSlave, fromSlaveSem, toHost,
                         spiTxSem, task>>
      BY <1>4 DEF SlaveRead
    <3>2. Waiting(fromHost') = spiRxSem'
      BY <2>1, <2>5, <3>1 DEF CountsMatch
    <3> QED
      BY <3>1, <3>2, Zenon DEF CountsMatch, Waiting
  <2>10. Ready'
    BY <1>4 DEF SlaveRead, Ready, HandshakeTruthful, ResultHeld, CsLow
  <2> QED
    BY <2>7, <2>8, <2>9, <2>10
<1> QED
  BY <1>1, <1>2, <1>3, <1>4

-----------------------------------------------------------------------------
LEMMA StepIInv == IInv /\ [Next]_vars => IInv'
<1> SUFFICES ASSUME IInv, [Next]_vars PROVE IInv'
  OBVIOUS
<1>1. CASE \E q \in Queues : HostQueue(q) \/ HostCount(q) \/ HostSignal(q)
  BY <1>1, WriterIInv
<1>2. CASE HsIsr \/ DrIsr \/ CsIsr
  <2>1. "serial" \in Queues
    BY DEF Queues
  <2> QED
    BY <1>2, <2>1, WriterIInv
<1>3. CASE HostTask
  BY <1>3, HostTaskIInv, ReceiveIInv DEF HostTask
<1>4. CASE HostRxTask
  BY <1>4, ReceiveIInv
<1>5. CASE \E i \in Writers : WriterTask(i)
  BY <1>5, SenderWriteIInv, SenderIInv DEF WriterTask, Sender, Writers
<1>6. CASE ResetTask
  BY <1>6, SenderWriteIInv, SenderIInv, LoaderIInv DEF ResetTask, Sender, Loader
<1>7. CASE PostTask
  BY <1>7, LoaderIInv, PostIInv DEF PostTask, Loader
<1>8. CASE SlaveRead
  BY <1>8, PostIInv
<1>9. CASE UNCHANGED vars
  <2>1. UNCHANGED host /\ UNCHANGED <<pins, slave>>
    BY <1>9 DEF vars
  <2>2. HostOK' /\ SlaveOK'
    BY <2>1, HostFrame, SlaveFrame DEF IInv, TypeOK
  <2>3. CountsMatch' /\ Ready'
    BY <2>1 DEF IInv, CountsMatch, Ready, HandshakeTruthful, ResultHeld, CsLow, host, hostIn,
                hostThread, hostOut, pins, cs, slave, slaveIn, slaveSpi, slaveOut
  <2> QED
    BY <2>2, <2>3 DEF IInv, TypeOK
<1> QED
  BY <1>1, <1>2, <1>3, <1>4, <1>5, <1>6, <1>7, <1>8, <1>9 DEF Next

\* IInv holds in every reachable state of every instance.
THEOREM Inductive == Spec => []IInv
<1> QED
  BY InitIInv, StepIInv, PTL DEF Spec

\* The type invariant, with the capacities of every queue and of the SPI driver.
THEOREM TypeCorrect == Spec => []TypeOK
<1>1. IInv => TypeOK
  BY DEF IInv
<1> QED
  BY <1>1, Inductive, PTL

\* Whoever takes a counting semaphore finds a packet, and none is left uncounted
\* (esp_hosted_tx, process_spi_rx_buf, esp_spi_write, process_spi_rx).
THEOREM CountsMatchHolds == Spec => []CountsMatch
<1>1. IInv => CountsMatch
  BY DEF IInv
<1> QED
  BY <1>1, Inductive, PTL

\* However late the co-processor serves the edges of CS, the host starts a transfer
\* with none set up only after the interrupt has missed an edge
\* (check_and_execute_spi_transaction, gpio_disable_hs_isr_handler).
THEOREM EmptyTransferExplainedHolds == Spec => []EmptyTransferExplained
<1>1. IInv => EmptyTransferExplained
  BY DEF IInv, Ready, HandshakeTruthful, EmptyTransferExplained
<1> QED
  BY <1>1, Inductive, PTL

-----------------------------------------------------------------------------
(* The order of the packets: the stages of one direction, joined, carry for *)
(* each queue numbers between the one handed over last and the one accepted *)
(* last, in order; all of them, unless some have been lost.                 *)

Carried(whole, s, ifs, a, b) == InOrder(s, ifs, a, b) /\ (whole => Complete(s, ifs, a, b))

\* Nothing the host has sent is lost while no edge of CS was missed.
Whole == csMissed = 0

Interfaces == {"serial", "sta", "priv"}
Mine(q) == {i \in Interfaces : QueueOf(i) = q}
Sorted(queues) ==
    \A q \in Queues : \A i \in 1..Len(queues[q]) : queues[q][i].if \in Mine(q)

\* What the host has sent or received in the transfer under way, and the packet a
\* task of the co-processor is about to give to its SPI driver.
HostSends == IF hostPc = "transfer" THEN One(hostTx) ELSE << >>
HostHolds == IF hostPc \in {"deassert", "receive", "put"} THEN One(hostRx) ELSE << >>
Prepared ==
    IF task["reset"] = "queue" THEN One(buf["reset"])
    ELSE IF task["post"] = "queue" THEN One(buf["post"]) ELSE << >>

ToSlaveStages(q) == fromHost[q] ++ (results ++ (HostSends ++ toSlave[q]))
ToSlaveOrder ==
    /\ Sorted(fromHost) /\ Sorted(toSlave)
    /\ \A q \in Queues :
          Carried(Whole, ToSlaveStages(q), Mine(q), LastOf(slaveGot[q]), hostSent[q])
    /\ Whole => NothingSkipped

FromSlaveStages(q) == fromSlave[q] ++ (HostHolds ++ (loaded ++ (Prepared ++ toHost[q])))
FromSlaveOrder ==
    /\ Sorted(fromSlave) /\ Sorted(toHost)
    /\ \A q \in Queues :
          Carried(TRUE, FromSlaveStages(q), Mine(q), LastOf(hostGot[q]), slaveSent[q])

\* The host puts no dummy into its queues.
PutsPacket == hostPc = "put" => hostRx.if \in Interfaces

\* Until host_reset_task has handled the one startup event, nothing is with the SPI
\* driver and the post-process task has nothing to do.
BootAlone ==
    /\ startups = 0 => task["reset"] = "idle"
    /\ startups = 0 \/ task["reset"] # "idle"
          => loaded = << >> /\ results = << >> /\ task["post"] = "idle"

-----------------------------------------------------------------------------
(* What one step does to the packets of one queue.                          *)

LEMMA OnWireNumbered == Numbered(OnWire)
  BY DEF Numbered, OnWire

LEMMA MineFacts ==
  /\ \A i \in Interfaces : i \in Mine(QueueOf(i)) /\ QueueOf(i) \in Queues
  /\ \A i \in Interfaces : \A q \in Queues : q # QueueOf(i) => i \notin Mine(q)
  /\ \A q, i : i \in Mine(q) => i \in Interfaces /\ QueueOf(i) = q
  /\ \A q : "none" \notin Mine(q)
  BY QueueOfInQueues DEF Mine, Interfaces

\* A packet of another queue, or a dummy, comes or goes.
LEMMA ForeignCarried ==
  ASSUME NEW P, NEW s \in Seq(P), NEW t \in Seq(P), NEW p \in P,
         NEW ifs, p.if \notin ifs, NEW w, NEW a, NEW b
  PROVE  Carried(w, s ++ (One(p) ++ t), ifs, a, b) <=> Carried(w, s ++ t, ifs, a, b)
<1>1. /\ InOrder(s \o (<<p>> \o t), ifs, a, b) <=> InOrder(s \o t, ifs, a, b)
      /\ Complete(s \o (<<p>> \o t), ifs, a, b) <=> Complete(s \o t, ifs, a, b)
  BY ForeignInOrder
<1> QED
  BY <1>1, Zenon DEF Carried, ++, One

\* A packet is lost.
LEMMA LostCarried ==
  ASSUME NEW P, NEW s \in Seq(P), NEW t \in Seq(P), NEW p \in P,
         NEW ifs, NEW w, ~w, NEW a, NEW b,
         Carried(w, s ++ (One(p) ++ t), ifs, a, b)
  PROVE  Carried(w, s ++ t, ifs, a, b)
<1>1. InOrder(s \o (<<p>> \o t), ifs, a, b)
  BY DEF Carried, ++, One
<1>2. InOrder(s \o t, ifs, a, b)
  BY <1>1, DroppedInOrder
<1> QED
  BY <1>2 DEF Carried, ++

\* A packet is accepted behind the last stage.
LEMMA AcceptCarried ==
  ASSUME NEW P, Numbered(P), NEW s \in Seq(P), NEW x \in Seq(P), NEW p \in P,
         NEW ifs, p.if \in ifs, NEW w, NEW a \in Nat, NEW b \in Nat, p.n = b + 1,
         Carried(w, s ++ x, ifs, a, b)
  PROVE  Carried(w, s ++ Append(x, p), ifs, a, b + 1)
<1> DEFINE u == s ++ x
<1>1. u \in Seq(P) /\ InOrder(u, ifs, a, b) /\ (w => Complete(u, ifs, a, b))
  BY Joined DEF Carried
<1>2. s ++ Append(x, p) = Append(u, p)
  BY JoinedOne
<1> HIDE DEF u
<1>3. /\ InOrder(Append(u, p), ifs, a, b + 1)
      /\ Complete(u, ifs, a, b) => Complete(Append(u, p), ifs, a, b + 1)
  BY <1>1, Accepted
<1> QED
  BY <1>1, <1>2, <1>3 DEF Carried

\* The first packet is handed over.
LEMMA HandCarried ==
  ASSUME NEW P, Numbered(P), NEW s \in Seq(P), NEW t \in Seq(P), s # << >>, NEW ifs,
         Head(s).if \in ifs, NEW w, NEW a \in Nat, NEW b \in Nat,
         Carried(w, s ++ t, ifs, a, b)
  PROVE  /\ Head(s).n \in (a + 1)..b /\ Head(s).n \in Nat
         /\ w => Head(s).n = a + 1
         /\ Carried(w, Tail(s) ++ t, ifs, Head(s).n, b)
<1>1. InOrder(s \o t, ifs, a, b) /\ (w => Complete(s \o t, ifs, a, b))
  BY DEF Carried, ++
<1>2. /\ Head(s).n \in (a + 1)..b
      /\ InOrder(Tail(s) \o t, ifs, Head(s).n, b)
      /\ Complete(s \o t, ifs, a, b)
           => Head(s).n = a + 1 /\ Complete(Tail(s) \o t, ifs, Head(s).n, b)
  BY <1>1, HandedOver
<1>3. Head(s).n \in Nat
  BY <1>2
<1> QED
  BY <1>1, <1>2, <1>3 DEF Carried, ++

LEMMA OthersMine ==
  ASSUME NEW q, NEW r, q # r, NEW i \in Mine(r)
  PROVE  i \notin Mine(q)
  BY DEF Mine

LEMMA FirstInQueues == ASSUME NEW f PROVE FirstQueue(f) \in Queues
  BY DEF FirstQueue, Queues

LEMMA PutSorted ==
  ASSUME NEW f \in [Queues -> Seq(OnWire)], NEW g, NEW r \in Queues,
         NEW p \in OnWire, p.if \in Mine(r),
         g[r] = Append(f[r], p), \A o \in Queues : o # r => g[o] = f[o]
  PROVE  Sorted(f) => Sorted(g)
<1> DEFINE h == f[r] s == Append(h, p)
<1>1. h \in Seq(OnWire)
  OBVIOUS
<1>3. /\ Len(h) \in Nat /\ Len(s) = Len(h) + 1 /\ s[Len(h) + 1] = p
      /\ \A i \in 1..Len(h) : s[i] = h[i]
  <2> HIDE DEF h
  <2> QED
    BY <1>1, AppendElements
<1>4. ASSUME Sorted(f) PROVE \A i \in 1..Len(s) : s[i].if \in Mine(r)
  <2>1. \A i \in 1..Len(h) : h[i].if \in Mine(r)
    BY <1>4 DEF Sorted
  <2> HIDE DEF h, s
  <2> QED
    BY <1>3, <2>1
<1>5. g[r] = s
  OBVIOUS
<1> HIDE DEF s, h
<1>6. Sorted(f) => Sorted(g)
  BY <1>4, <1>5 DEF Sorted
<1> QED
  BY <1>6

LEMMA HeadMine ==
  ASSUME NEW f \in [Queues -> Seq(OnWire)], NEW r \in Queues, f[r] # << >>, Sorted(f)
  PROVE  Head(f[r]) \in OnWire /\ Head(f[r]).if \in Mine(r)
<1> DEFINE s == f[r]
<1>1. s \in Seq(OnWire) /\ s # << >>
  OBVIOUS
<1>2. \A i \in 1..Len(s) : s[i].if \in Mine(r)
  BY DEF Sorted
<1> HIDE DEF s
<1>3. Len(s) \in Nat \ {0} /\ Head(s) = s[1] /\ Head(s) \in OnWire
  BY <1>1, TailElements, TailFacts
<1>4. Head(s).if \in Mine(r)
  BY <1>2, <1>3
<1> QED
  BY <1>3, <1>4 DEF s

LEMMA TakeSorted ==
  ASSUME NEW f \in [Queues -> Seq(OnWire)], NEW g, NEW r \in Queues, f[r] # << >>,
         Sorted(f), g[r] = Tail(f[r]), \A o \in Queues : o # r => g[o] = f[o]
  PROVE  Sorted(g)
<1> DEFINE s == f[r]
<1>1. s \in Seq(OnWire) /\ s # << >> /\ g[r] = Tail(s)
  OBVIOUS
<1>2. \A i \in 1..Len(s) : s[i].if \in Mine(r)
  BY DEF Sorted
<1> HIDE DEF s
<1>3. /\ Len(s) \in Nat \ {0} /\ Len(Tail(s)) = Len(s) - 1
      /\ \A i \in 1..(Len(s) - 1) : Tail(s)[i] = s[i + 1]
  BY <1>1, TailElements
<1>4. \A i \in 1..Len(Tail(s)) : Tail(s)[i].if \in Mine(r)
  BY <1>2, <1>3
<1> QED
  BY <1>1, <1>4 DEF Sorted

\* The first packet of a queue goes into the stage in front of it.
LEMMA TakeLast ==
  ASSUME NEW f \in [Queues -> Seq(OnWire)], NEW g, NEW r \in Queues, f[r] # << >>,
         Sorted(f), g[r] = Tail(f[r]), \A o \in Queues : o # r => g[o] = f[o],
         NEW q \in Queues, NEW s \in Seq(OnWire), NEW w, NEW a, NEW b
  PROVE  Carried(w, s ++ (<< >> ++ f[q]), Mine(q), a, b)
           => Carried(w, s ++ (One(Head(f[r])) ++ g[q]), Mine(q), a, b)
<1>1. Head(f[r]) \in OnWire /\ Head(f[r]).if \in Mine(r)
  BY HeadMine
<1> DEFINE h == f[q] p == Head(f[r])
<1>2. h \in Seq(OnWire) /\ p \in OnWire
  BY <1>1
<1>3. q = r => h # << >> /\ g[q] = Tail(h) /\ p = Head(h)
  OBVIOUS
<1>4. q # r => g[q] = h
  OBVIOUS
<1>5. p.if \in Mine(r)
  BY <1>1
<1> HIDE DEF h, p
<1>6. << >> ++ h = h
  BY <1>2, JoinedEmpty
<1>7. CASE q = r
  <2>1. One(p) ++ g[q] = h
    BY <1>2, <1>3, <1>7, JoinedHead
  <2> QED
    BY <1>6, <2>1 DEF h, p
<1>8. CASE q # r
  <2>1. p.if \notin Mine(q)
    BY <1>5, <1>8, OthersMine
  <2>2. Carried(w, s ++ (One(p) ++ h), Mine(q), a, b) <=> Carried(w, s ++ h, Mine(q), a, b)
    BY <1>2, <2>1, ForeignCarried
  <2> QED
    BY <1>4, <1>6, <1>8, <2>2 DEF h, p
<1> QED
  BY <1>7, <1>8

\* A dummy comes, or goes.
LEMMA DummyCarried ==
  ASSUME NEW s \in Seq(OnWire), NEW t \in Seq(OnWire), NEW p \in OnWire,
         NEW ifs, p.if \notin ifs, NEW w, NEW a, NEW b
  PROVE  Carried(w, s ++ (One(p) ++ t), ifs, a, b) <=> Carried(w, s ++ (<< >> ++ t), ifs, a, b)
<1>1. << >> ++ t = t
  BY JoinedEmpty
<1>2. Carried(w, s ++ (One(p) ++ t), ifs, a, b) <=> Carried(w, s ++ t, ifs, a, b)
  BY ForeignCarried
<1> QED
  BY <1>1, <1>2

\* The packet in front of t is put into queue r; this is what it does to queue q.
LEMMA PutFirst ==
  ASSUME NEW q, NEW r, NEW p \in OnWire, p.if \in Mine(r),
         NEW h \in Seq(OnWire), NEW k, q = r => k = Append(h, p), q # r => k = h,
         NEW t \in Seq(OnWire), NEW w, NEW a, NEW b
  PROVE  Carried(w, h ++ (One(p) ++ t), Mine(q), a, b) => Carried(w, k ++ t, Mine(q), a, b)
<1>1. CASE q = r
  <2>1. Append(h, p) ++ t = h ++ (One(p) ++ t)
    BY JoinedOne
  <2> QED
    BY <1>1, <2>1
<1>2. CASE q # r
  <2>1. p.if \notin Mine(q)
    BY <1>2, OthersMine
  <2>2. Carried(w, h ++ (One(p) ++ t), Mine(q), a, b) <=> Carried(w, h ++ t, Mine(q), a, b)
    BY <2>1, ForeignCarried
  <2> QED
    BY <1>2, <2>2
<1> QED
  BY <1>1, <1>2

\* A packet is accepted behind the stages s, t and u.
LEMMA AcceptStep ==
  ASSUME NEW s \in Seq(OnWire), NEW t \in Seq(OnWire), NEW u \in Seq(OnWire),
         NEW x \in Seq(OnWire), NEW p \in OnWire,
         NEW ifs, p.if \in ifs, NEW w, NEW a \in Nat, NEW b \in Nat, p.n = b + 1,
         Carried(w, s ++ (t ++ (u ++ x)), ifs, a, b)
  PROVE  Carried(w, s ++ (t ++ (u ++ Append(x, p))), ifs, a, b + 1)
<1> DEFINE k == s ++ (t ++ u) y == Append(x, p)
<1>1. y \in Seq(OnWire) /\ k \in Seq(OnWire)
  BY AppendFacts, Joined
<1> HIDE DEF y
<1>2. s ++ (t ++ (u ++ x)) = k ++ x /\ s ++ (t ++ (u ++ y)) = k ++ y
  BY <1>1, BehindThree
<1> HIDE DEF k
<1>3. Carried(w, k ++ x, ifs, a, b)
  BY <1>2
<1>4. Carried(w, k ++ y, ifs, a, b + 1)
  BY <1>1, <1>3, OnWireNumbered, AcceptCarried DEF y
<1> QED
  BY <1>2, <1>4 DEF y

\* A task takes the first packet of a queue, behind the stages s and t.
LEMMA TakeStep ==
  ASSUME NEW s \in Seq(OnWire), NEW t \in Seq(OnWire),
         NEW f \in [Queues -> Seq(OnWire)], NEW g \in [Queues -> Seq(OnWire)],
         NEW r \in Queues, f[r] # << >>,
         Sorted(f), g[r] = Tail(f[r]), \A o \in Queues : o # r => g[o] = f[o],
         NEW q \in Queues, NEW w, NEW a, NEW b
  PROVE  Carried(w, s ++ (t ++ (<< >> ++ f[q])), Mine(q), a, b)
           => Carried(w, s ++ (t ++ (One(Head(f[r])) ++ g[q])), Mine(q), a, b)
<1> DEFINE k == s ++ t one == One(Head(f[r])) x == f[q] y == g[q] none == << >>
<1>1. k \in Seq(OnWire)
  BY Joined
<1>2. Head(f[r]) \in OnWire
  <2> DEFINE h == f[r]
  <2>1. h \in Seq(OnWire) /\ h # << >>
    OBVIOUS
  <2> HIDE DEF h
  <2>2. Head(h) \in OnWire
    BY <2>1, TailFacts
  <2> QED
    BY <2>2 DEF h
<1>3. one \in Seq(OnWire) /\ none \in Seq(OnWire) /\ x \in Seq(OnWire) /\ y \in Seq(OnWire)
  <2>1. one \in Seq(OnWire)
    BY <1>2 DEF One
  <2>2. none \in Seq(OnWire) /\ x \in Seq(OnWire) /\ y \in Seq(OnWire)
    OBVIOUS
  <2> QED
    BY <2>1, <2>2
<1>4. Carried(w, k ++ (none ++ x), Mine(q), a, b) => Carried(w, k ++ (one ++ y), Mine(q), a, b)
  <2> HIDE DEF k
  <2> QED
    BY <1>1, TakeLast
<1> HIDE DEF one, x, y, none
<1>5. /\ s ++ (t ++ (none ++ x)) = k ++ (none ++ x)
      /\ s ++ (t ++ (one ++ y)) = k ++ (one ++ y)
  BY <1>3, BehindTwo
<1>6. Carried(w, s ++ (t ++ (none ++ x)), Mine(q), a, b)
        => Carried(w, s ++ (t ++ (one ++ y)), Mine(q), a, b)
  BY <1>4, <1>5
<1> QED
  BY <1>6 DEF one, x, y, none

\* It makes a dummy instead.
LEMMA DummyStep ==
  ASSUME NEW s \in Seq(OnWire), NEW t \in Seq(OnWire), NEW x \in Seq(OnWire),
         NEW p \in OnWire, NEW ifs, p.if \notin ifs, NEW w, NEW a, NEW b
  PROVE  Carried(w, s ++ (t ++ (<< >> ++ x)), ifs, a, b)
           => Carried(w, s ++ (t ++ (One(p) ++ x)), ifs, a, b)
<1> DEFINE k == s ++ t one == One(p) none == << >>
<1>1. k \in Seq(OnWire) /\ one \in Seq(OnWire) /\ none \in Seq(OnWire)
  BY Joined, JoinedOne
<1>2. Carried(w, k ++ (one ++ x), ifs, a, b) <=> Carried(w, k ++ (none ++ x), ifs, a, b)
  <2> HIDE DEF k
  <2> QED
    BY <1>1, DummyCarried
<1> HIDE DEF one, none
<1>3. /\ s ++ (t ++ (none ++ x)) = k ++ (none ++ x)
      /\ s ++ (t ++ (one ++ x)) = k ++ (one ++ x)
  BY <1>1, BehindTwo
<1>4. Carried(w, s ++ (t ++ (none ++ x)), ifs, a, b)
        => Carried(w, s ++ (t ++ (one ++ x)), ifs, a, b)
  BY <1>2, <1>3
<1> QED
  BY <1>4 DEF one, none

\* What it holds is lost.
LEMMA LostStep ==
  ASSUME NEW s \in Seq(OnWire), NEW t \in Seq(OnWire), NEW x \in Seq(OnWire),
         NEW p \in OnWire, NEW ifs, NEW w, ~w, NEW a, NEW b,
         Carried(w, s ++ (t ++ (One(p) ++ x)), ifs, a, b)
  PROVE  Carried(w, s ++ (t ++ (<< >> ++ x)), ifs, a, b)
<1> DEFINE k == s ++ t one == One(p) none == << >>
<1>1. k \in Seq(OnWire) /\ one \in Seq(OnWire) /\ none \in Seq(OnWire)
  BY Joined, JoinedOne
<1>2. none ++ x = x
  BY JoinedEmpty
<1> HIDE DEF none
<1>3. /\ s ++ (t ++ (none ++ x)) = k ++ x
      /\ s ++ (t ++ (one ++ x)) = k ++ (one ++ x)
  <2> HIDE DEF one
  <2>1. s ++ (t ++ (none ++ x)) = k ++ (none ++ x) /\ s ++ (t ++ (one ++ x)) = k ++ (one ++ x)
    BY <1>1, BehindTwo
  <2> QED
    BY <1>2, <2>1
<1> HIDE DEF k
<1>4. Carried(w, k ++ x, ifs, a, b)
  BY <1>1, <1>3, LostCarried
<1> QED
  BY <1>3, <1>4 DEF none

\* One more packet behind a row in which none is missing.
LEMMA NextInRow ==
  ASSUME NEW g \in Seq(Nat), \A k \in 1..Len(g) : g[k] = k, NEW n \in Nat,
         n = LastOf(g) + 1
  PROVE  \A k \in 1..Len(Append(g, n)) : Append(g, n)[k] = k
<1>1. /\ Len(g) \in Nat /\ Len(Append(g, n)) = Len(g) + 1 /\ Append(g, n)[Len(g) + 1] = n
      /\ \A k \in 1..Len(g) : Append(g, n)[k] = g[k]
  BY AppendElements
<1>2. n = Len(g) + 1
  <2>1. CASE g = << >>
    BY <1>1, <2>1 DEF LastOf
  <2>2. CASE g # << >>
    <3>1. Len(g) \in 1..Len(g)
      BY <2>2
    <3> QED
      BY <2>2, <3>1 DEF LastOf
  <2> QED
    BY <2>1, <2>2
<1> QED
  BY <1>1, <1>2

\* What a task holds moves behind the packets of the stage in front of it.
LEMMA MoveStep ==
  ASSUME NEW s \in Seq(OnWire), NEW t \in Seq(OnWire), NEW x \in Seq(OnWire),
         NEW p \in OnWire
  PROVE  s ++ (Append(t, p) ++ (<< >> ++ x)) = s ++ (t ++ (One(p) ++ x))
<1>1. << >> ++ x = x
  BY JoinedEmpty
<1>2. Append(t, p) ++ x = t ++ (One(p) ++ x)
  BY JoinedOne
<1> QED
  BY <1>1, <1>2

\* Who takes a counting semaphore finds a packet in the queue it looks at.
LEMMA NotEmpty ==
  ASSUME NEW f \in [Queues -> Seq(OnWire)], NEW n \in Nat, n > 0, NEW m \in Nat,
         Waiting(f) = n + m
  PROVE  f[FirstQueue(f)] # << >> /\ FirstQueue(f) \in Queues
<1>1. Waiting(f) > 0
  OBVIOUS
<1> QED
  BY <1>1, WaitingFacts, FirstInQueues

LEMMA QueuesCounted ==
  ASSUME IInv
  PROVE  /\ toSlaveSem > 0 => toSlave[FirstQueue(toSlave)] # << >>
         /\ fromSlaveSem > 0 => fromSlave[FirstQueue(fromSlave)] # << >>
         /\ spiTxSem > 0 => toHost[FirstQueue(toHost)] # << >>
         /\ spiRxSem > 0 => fromHost[FirstQueue(fromHost)] # << >>
<1>1. /\ toSlave \in [Queues -> Seq(OnWire)] /\ toSlaveSem \in Nat
      /\ fromSlave \in [Queues -> Seq(OnWire)] /\ fromSlaveSem \in Nat
      /\ toHost \in [Queues -> Seq(OnWire)] /\ spiTxSem \in Nat
      /\ fromHost \in [Queues -> Seq(OnWire)] /\ spiRxSem \in Nat
  BY DEF IInv, TypeOK, HostOK, SlaveOK
<1> DEFINE a == OneIf(hostWriter["serial"] = "count") b == OneIf(hostWriter["others"] = "count")
<1>2. a \in Nat /\ b \in Nat
  BY DEF OneIf
<1>3. /\ Waiting(toSlave) = toSlaveSem + a + b
      /\ Waiting(fromSlave) = fromSlaveSem
      /\ Waiting(fromHost) = spiRxSem
  BY Zenon DEF IInv, CountsMatch
<1> HIDE DEF a, b
<1>4. /\ a + b \in Nat /\ 0 \in Nat
      /\ toSlaveSem + a + b = toSlaveSem + (a + b) /\ fromSlaveSem = fromSlaveSem + 0
      /\ spiRxSem = spiRxSem + 0
  BY <1>1, <1>2
<1>5. /\ Waiting(toSlave) = toSlaveSem + (a + b) /\ Waiting(fromSlave) = fromSlaveSem + 0
      /\ Waiting(fromHost) = spiRxSem + 0
  BY <1>3, <1>4, Zenon
<1>6. toSlaveSem > 0 => toSlave[FirstQueue(toSlave)] # << >>
  BY <1>1, <1>4, <1>5, NotEmpty
<1>7. fromSlaveSem > 0 => fromSlave[FirstQueue(fromSlave)] # << >>
  BY <1>1, <1>4, <1>5, NotEmpty
<1>8. spiTxSem > 0 => toHost[FirstQueue(toHost)] # << >>
  BY <1>1, UncountedFacts, NotEmpty
<1>9. spiRxSem > 0 => fromHost[FirstQueue(fromHost)] # << >>
  BY <1>1, <1>4, <1>5, NotEmpty
<1> QED
  BY <1>6, <1>7, <1>8, <1>9

-----------------------------------------------------------------------------
(* From the host to the co-processor.                                       *)

LEMMA ToSlaveTyped ==
  ASSUME IInv
  PROVE  /\ toSlave \in [Queues -> Seq(OnWire)] /\ fromHost \in [Queues -> Seq(OnWire)]
         /\ results \in Seq(OnWire) /\ HostSends \in Seq(OnWire) /\ hostTx \in OnWire
         /\ \A q \in Queues : toSlave[q] \in Seq(OnWire) /\ fromHost[q] \in Seq(OnWire)
         /\ slaveGot \in [Queues -> Seq(Nat)] /\ hostSent \in [Queues -> Nat]
         /\ \A q \in Queues : LastOf(slaveGot[q]) \in Nat /\ hostSent[q] \in Nat
<1>1. /\ toSlave \in [Queues -> Seq(OnWire)] /\ fromHost \in [Queues -> Seq(OnWire)]
      /\ results \in Seq(OnWire) /\ hostTx \in OnWire
      /\ slaveGot \in [Queues -> Seq(Nat)] /\ hostSent \in [Queues -> Nat]
  BY DEF IInv, TypeOK, HostOK, SlaveOK
<1>2. HostSends \in Seq(OnWire)
  BY <1>1, JoinedOne DEF HostSends
<1>3. \A q \in Queues : LastOf(slaveGot[q]) \in Nat
  BY <1>1, LastFacts
<1> QED
  BY <1>1, <1>2, <1>3

\* The order after a step that hands nothing over.
LEMMA OrderLater ==
  ASSUME ToSlaveOrder, Whole' => Whole, UNCHANGED slaveGot,
         Sorted(fromHost'), Sorted(toSlave'),
         \A q \in Queues :
            Carried(Whole, ToSlaveStages(q)', Mine(q), LastOf(slaveGot[q]), hostSent'[q])
  PROVE  ToSlaveOrder'
<1>1. Whole' => NothingSkipped'
  BY DEF ToSlaveOrder, NothingSkipped
<1>2. ASSUME NEW q \in Queues
      PROVE  Carried(Whole, ToSlaveStages(q), Mine(q), LastOf(slaveGot[q]), hostSent[q])'
  <2> DEFINE s == ToSlaveStages(q)' a == LastOf(slaveGot[q]) b == hostSent'[q] w == Whole
             v == Whole'
  <2>1. Carried(w, s, Mine(q), a, b) /\ LastOf(slaveGot'[q]) = a
    OBVIOUS
  <2>2. v => w
    OBVIOUS
  <2> HIDE DEF s, a, b, w, v
  <2>3. Carried(v, s, Mine(q), a, b)
    BY <2>1, <2>2, Zenon DEF Carried
  <2> QED
    BY <2>1, <2>3 DEF s, b, v
<1>3. Sorted(fromHost)' /\ Sorted(toSlave)'
  BY DEF Sorted
<1> QED
  BY <1>1, <1>2, <1>3, Zenon DEF ToSlaveOrder

LEMMA SameToSlave ==
  ASSUME ToSlaveOrder, Whole' => Whole,
         UNCHANGED <<toSlave, fromHost, results, slaveGot, hostSent>>,
         HostSends' = HostSends
  PROVE  ToSlaveOrder' /\ UNCHANGED ToSlaveLink!vars
<1>1. UNCHANGED ToSlaveLink!vars
  BY DEF ToSlaveLink!vars
<1>2. ASSUME NEW q \in Queues
      PROVE  Carried(Whole, ToSlaveStages(q)', Mine(q), LastOf(slaveGot[q]), hostSent'[q])
  <2>1. ToSlaveStages(q)' = ToSlaveStages(q) /\ hostSent' = hostSent
    BY DEF ToSlaveStages
  <2> QED
    BY <2>1 DEF ToSlaveOrder
<1>3. Sorted(fromHost') /\ Sorted(toSlave')
  BY DEF ToSlaveOrder
<1> QED
  BY <1>1, <1>2, <1>3, OrderLater

\* What a queue that is changed holds afterwards.
LEMMA PutQueue ==
  ASSUME NEW f \in [Queues -> Seq(OnWire)], NEW r \in Queues, NEW p \in OnWire,
         p.if \in Mine(r), Sorted(f), NEW g, g = [f EXCEPT ![r] = Append(@, p)]
  PROVE  /\ Sorted(g) /\ g[r] = Append(f[r], p) /\ \A o \in Queues : o # r => g[o] = f[o]
<1>1. g[r] = Append(f[r], p) /\ \A o \in Queues : o # r => g[o] = f[o]
  OBVIOUS
<1>2. Sorted(g)
  BY <1>1, PutSorted
<1> QED
  BY <1>1, <1>2

LEMMA TakeQueue ==
  ASSUME NEW f \in [Queues -> Seq(OnWire)], NEW r \in Queues, f[r] # << >>, Sorted(f),
         NEW g
  PROVE  g = [f EXCEPT ![r] = Tail(@)]
           => /\ Sorted(g) /\ g[r] = Tail(f[r]) /\ \A o \in Queues : o # r => g[o] = f[o]
              /\ Head(f[r]) \in OnWire /\ Head(f[r]).if \in Mine(r)
              /\ g \in [Queues -> Seq(OnWire)]
<1>1. ASSUME g = [f EXCEPT ![r] = Tail(@)]
      PROVE  g[r] = Tail(f[r]) /\ \A o \in Queues : o # r => g[o] = f[o]
  BY <1>1
<1>2. ASSUME g[r] = Tail(f[r]), \A o \in Queues : o # r => g[o] = f[o]
      PROVE  Sorted(g)
  BY <1>2, TakeSorted
<1>3. Head(f[r]) \in OnWire /\ Head(f[r]).if \in Mine(r)
  BY HeadMine
<1>4. ASSUME g = [f EXCEPT ![r] = Tail(@)] PROVE g \in [Queues -> Seq(OnWire)]
  <2> DEFINE t == Tail(f[r])
  <2>1. t \in Seq(OnWire)
    OBVIOUS
  <2>2. g = [f EXCEPT ![r] = t]
    BY <1>4
  <2> HIDE DEF t
  <2> QED
    BY <2>1, <2>2
<1> QED
  BY <1>1, <1>2, <1>3, <1>4, Zenon

\* esp_hosted_tx
LEMMA AcceptToSlave ==
  ASSUME IInv, ToSlaveOrder, Whole' => Whole, NEW r \in Queues, HostQueue(r)
  PROVE  ToSlaveOrder' /\ ToSlaveLink!Next
<1> DEFINE interface == IF r = "serial" THEN "serial" ELSE "sta"
           n == hostSent[r] + 1
           p == Packet(interface, n)
<1>1. /\ toSlave' = [toSlave EXCEPT ![r] = Append(@, p)]
      /\ hostSent' = [hostSent EXCEPT ![r] = n]
      /\ UNCHANGED <<fromHost, results, slaveGot, hostPc, hostTx>>
  BY DEF HostQueue, hostThread, slave, slaveSpi, slaveOut
<1>2. /\ toSlave \in [Queues -> Seq(OnWire)] /\ hostSent \in [Queues -> Nat]
      /\ Sorted(toSlave)
  BY ToSlaveTyped DEF ToSlaveOrder
<1>3. interface \in Mine(r) /\ interface \in {"serial", "sta", "priv"}
  BY DEF Mine, Interfaces, QueueOf, Queues
<1> HIDE DEF interface
<1>4. /\ hostSent'[r] = n /\ n = hostSent[r] + 1 /\ n \in Nat
      /\ \A q \in Queues : q # r => hostSent'[q] = hostSent[q]
  BY <1>1, <1>2
<1> HIDE DEF n
<1>5. p \in OnWire /\ p.if \in Mine(r) /\ p.n = n
  BY <1>3, <1>4, PacketOnWire DEF Packet
<1> HIDE DEF p
<1>6. /\ Sorted(toSlave') /\ toSlave'[r] = Append(toSlave[r], p)
      /\ \A q \in Queues : q # r => toSlave'[q] = toSlave[q]
  <2>1. toSlave' = [toSlave EXCEPT ![r] = Append(@, p)]
    BY <1>1
  <2> DEFINE g == toSlave'
  <2> HIDE DEF g
  <2>2. g = [toSlave EXCEPT ![r] = Append(@, p)]
    BY <2>1 DEF g
  <2>3. /\ Sorted(g) /\ g[r] = Append(toSlave[r], p)
        /\ \A q \in Queues : q # r => g[q] = toSlave[q]
    BY <1>2, <1>5, <2>2, PutQueue
  <2> QED
    BY <2>3 DEF g
<1>7. HostSends' = HostSends
  BY <1>1 DEF HostSends
<1>8. ASSUME NEW q \in Queues
      PROVE  Carried(Whole, ToSlaveStages(q)', Mine(q), LastOf(slaveGot[q]), hostSent'[q])
  <2>1. Carried(Whole, fromHost[q] ++ (results ++ (HostSends ++ toSlave[q])), Mine(q),
              LastOf(slaveGot[q]), hostSent[q])
    BY DEF ToSlaveOrder, ToSlaveStages
  <2>2. ToSlaveStages(q)' = fromHost[q] ++ (results ++ (HostSends ++ toSlave'[q]))
    BY <1>1, <1>7 DEF ToSlaveStages
  <2>3. CASE q # r
    BY <1>4, <1>6, <2>1, <2>2, <2>3
  <2>4. CASE q = r
    <3> DEFINE s == fromHost[q] t == results u == HostSends x == toSlave[q]
               a == LastOf(slaveGot[q]) b == hostSent[q]
    <3>1. /\ s \in Seq(OnWire) /\ t \in Seq(OnWire) /\ u \in Seq(OnWire)
          /\ x \in Seq(OnWire) /\ a \in Nat /\ b \in Nat
      BY ToSlaveTyped
    <3>2. p.if \in Mine(q) /\ p.n = b + 1 /\ p \in OnWire
      BY <1>4, <1>5, <2>4
    <3>3. Carried(Whole, s ++ (t ++ (u ++ x)), Mine(q), a, b)
      BY <2>1
    <3>4. ToSlaveStages(q)' = s ++ (t ++ (u ++ Append(x, p))) /\ hostSent'[q] = b + 1
      BY <1>4, <1>6, <2>2, <2>4
    <3> HIDE DEF s, t, u, x, a, b
    <3>5. Carried(Whole, s ++ (t ++ (u ++ Append(x, p))), Mine(q), a, b + 1)
      BY <3>1, <3>2, <3>3, AcceptStep
    <3> QED
      BY <3>4, <3>5 DEF a
  <2> QED
    BY <2>3, <2>4
<1>9. ToSlaveOrder'
  <2>1. Sorted(fromHost') /\ UNCHANGED slaveGot
    BY <1>1 DEF ToSlaveOrder
  <2> QED
    BY <1>6, <1>8, <2>1, OrderLater
<1>10. ToSlaveLink!Next
  BY <1>1 DEF ToSlaveLink!Next, ToSlaveLink!Accept, n
<1> QED
  BY <1>9, <1>10
\* get_next_tx_buffer of the host
LEMMA TakeToSlave ==
  ASSUME IInv, ToSlaveOrder, Whole' => Whole, HostSendPacket
  PROVE  ToSlaveOrder' /\ UNCHANGED ToSlaveLink!vars
<1> DEFINE r == FirstQueue(toSlave)
           p == Head(toSlave[r])
<1>1. /\ toSlave' = [toSlave EXCEPT ![r] = Tail(@)] /\ hostTx' = p
      /\ hostPc = "decide" /\ hostPc' = "transfer" /\ toSlaveSem > 0
      /\ UNCHANGED <<fromHost, results, slaveGot, hostSent>>
  BY DEF HostSendPacket, slave, slaveSpi, slaveOut
<1>2. toSlave \in [Queues -> Seq(OnWire)] /\ Sorted(toSlave)
  BY ToSlaveTyped DEF ToSlaveOrder
<1>3. r \in Queues /\ toSlave[r] # << >>
  BY <1>1, QueuesCounted, FirstInQueues
<1> HIDE DEF r
<1>4. /\ Sorted(toSlave') /\ toSlave'[r] = Tail(toSlave[r])
      /\ \A q \in Queues : q # r => toSlave'[q] = toSlave[q]
      /\ toSlave' \in [Queues -> Seq(OnWire)]
  <2> DEFINE g == toSlave'
  <2>1. g = [toSlave EXCEPT ![r] = Tail(@)]
    BY <1>1
  <2> HIDE DEF g
  <2>2. g = [toSlave EXCEPT ![r] = Tail(@)]
          => /\ Sorted(g) /\ g[r] = Tail(toSlave[r])
             /\ \A o \in Queues : o # r => g[o] = toSlave[o]
             /\ g \in [Queues -> Seq(OnWire)]
    BY <1>2, <1>3, TakeQueue
  <2> QED
    BY <2>1, <2>2, Zenon DEF g
<1>5. HostSends = << >> /\ HostSends' = One(p)
  BY <1>1 DEF HostSends
<1>6. ASSUME NEW q \in Queues
      PROVE  Carried(Whole, ToSlaveStages(q)', Mine(q), LastOf(slaveGot[q]), hostSent[q])
  <2> DEFINE s == fromHost[q] f == toSlave g == toSlave' a == LastOf(slaveGot[q])
             b == hostSent[q]
  <2>1. s \in Seq(OnWire) /\ results \in Seq(OnWire)
    BY ToSlaveTyped
  <2>2. Carried(Whole, s ++ (results ++ (<< >> ++ f[q])), Mine(q), a, b)
    BY <1>5 DEF ToSlaveOrder, ToSlaveStages
  <2>3. ToSlaveStages(q)' = s ++ (results ++ (One(Head(f[r])) ++ g[q]))
    BY <1>1, <1>5 DEF ToSlaveStages
  <2>4. /\ f \in [Queues -> Seq(OnWire)] /\ g \in [Queues -> Seq(OnWire)]
        /\ f[r] # << >> /\ Sorted(f) /\ g[r] = Tail(f[r])
        /\ \A o \in Queues : o # r => g[o] = f[o]
    BY <1>2, <1>3, <1>4
  <2> HIDE DEF s, f, g, a, b
  <2>5. Carried(Whole, s ++ (results ++ (One(Head(f[r])) ++ g[q])), Mine(q), a, b)
    BY <1>3, <2>1, <2>2, <2>4, TakeStep
  <2> QED
    BY <2>3, <2>5 DEF a, b
<1>7. ToSlaveOrder'
  <2>1. Sorted(fromHost') /\ UNCHANGED <<slaveGot, hostSent>>
    BY <1>1 DEF ToSlaveOrder
  <2> QED
    BY <1>4, <1>6, <2>1, OrderLater
<1> QED
  BY <1>1, <1>7 DEF ToSlaveLink!vars

\* The host sends a dummy, which belongs to no queue.
LEMMA DummyToSlave ==
  ASSUME IInv, ToSlaveOrder, Whole' => Whole, HostSendDummy
  PROVE  ToSlaveOrder' /\ UNCHANGED ToSlaveLink!vars
<1> DEFINE p == Dummy(FALSE)
<1>1. /\ hostTx' = p /\ hostPc = "decide" /\ hostPc' = "transfer"
      /\ UNCHANGED <<toSlave, fromHost, results, slaveGot, hostSent>>
  BY DEF HostSendDummy, hostIn, slave, slaveSpi, slaveOut
<1>2. p \in OnWire /\ \A q : p.if \notin Mine(q)
  BY DummyOnWire, MineFacts DEF Dummy
<1>3. HostSends = << >> /\ HostSends' = One(p)
  BY <1>1 DEF HostSends
<1> HIDE DEF p
<1>4. ASSUME NEW q \in Queues
      PROVE  Carried(Whole, ToSlaveStages(q)', Mine(q), LastOf(slaveGot[q]), hostSent[q])
  <2> DEFINE s == fromHost[q] x == toSlave[q] a == LastOf(slaveGot[q]) b == hostSent[q]
  <2>1. s \in Seq(OnWire) /\ results \in Seq(OnWire) /\ x \in Seq(OnWire)
    BY ToSlaveTyped
  <2>2. Carried(Whole, s ++ (results ++ (<< >> ++ x)), Mine(q), a, b)
    BY <1>3 DEF ToSlaveOrder, ToSlaveStages
  <2>3. ToSlaveStages(q)' = s ++ (results ++ (One(p) ++ x))
    BY <1>1, <1>3 DEF ToSlaveStages
  <2> HIDE DEF s, x, a, b
  <2>4. Carried(Whole, s ++ (results ++ (One(p) ++ x)), Mine(q), a, b)
    BY <1>2, <2>1, <2>2, DummyStep
  <2> QED
    BY <2>3, <2>4 DEF a, b
<1>5. ToSlaveOrder'
  <2>1. Sorted(fromHost') /\ Sorted(toSlave') /\ UNCHANGED <<slaveGot, hostSent>>
    BY <1>1 DEF ToSlaveOrder
  <2> QED
    BY <1>4, <2>1, OrderLater
<1> QED
  BY <1>1, <1>5 DEF ToSlaveLink!vars

\* The transfer: what the host sent is in the list of results, or, with nothing set
\* up, lost.
LEMMA TransferToSlave ==
  ASSUME IInv, ToSlaveOrder, Whole' => Whole, Transfer
  PROVE  ToSlaveOrder' /\ UNCHANGED ToSlaveLink!vars
<1>1. /\ hostPc = "transfer" /\ hostPc' = "deassert"
      /\ IF loaded = << >> THEN results' = results ELSE results' = Append(results, hostTx)
      /\ UNCHANGED <<toSlave, fromHost, slaveGot, hostSent>>
  BY DEF Transfer, hostIn, slaveOut
<1>2. loaded = << >> => ~Whole
  BY <1>1 DEF IInv, Ready, HandshakeTruthful, Whole
<1>3. HostSends = One(hostTx) /\ HostSends' = << >>
  BY <1>1 DEF HostSends
<1>4. ASSUME NEW q \in Queues
      PROVE  Carried(Whole, ToSlaveStages(q)', Mine(q), LastOf(slaveGot[q]), hostSent[q])
  <2> DEFINE s == fromHost[q] x == toSlave[q] p == hostTx t == results
             a == LastOf(slaveGot[q]) b == hostSent[q]
  <2>1. s \in Seq(OnWire) /\ t \in Seq(OnWire) /\ x \in Seq(OnWire) /\ p \in OnWire
    BY ToSlaveTyped
  <2>2. Carried(Whole, s ++ (t ++ (One(p) ++ x)), Mine(q), a, b)
    BY <1>3 DEF ToSlaveOrder, ToSlaveStages
  <2>3. CASE loaded # << >>
    <3>1. ToSlaveStages(q)' = s ++ (Append(t, p) ++ (<< >> ++ x))
      BY <1>1, <1>3, <2>3 DEF ToSlaveStages
    <3> HIDE DEF s, x, p, t, a, b
    <3>2. ToSlaveStages(q)' = s ++ (t ++ (One(p) ++ x))
      BY <2>1, <3>1, MoveStep
    <3> QED
      BY <2>2, <3>2 DEF a, b
  <2>4. CASE loaded = << >>
    <3>1. ToSlaveStages(q)' = s ++ (t ++ (<< >> ++ x))
      BY <1>1, <1>3, <2>4 DEF ToSlaveStages
    <3>2. ~Whole
      BY <1>2, <2>4
    <3> HIDE DEF s, x, p, t, a, b
    <3>3. Carried(Whole, s ++ (t ++ (<< >> ++ x)), Mine(q), a, b)
      BY <2>1, <2>2, <3>2, LostStep
    <3> QED
      BY <3>1, <3>3 DEF a, b
  <2> QED
    BY <2>3, <2>4
<1>5. ToSlaveOrder'
  <2>1. Sorted(fromHost') /\ Sorted(toSlave') /\ UNCHANGED <<slaveGot, hostSent>>
    BY <1>1 DEF ToSlaveOrder
  <2> QED
    BY <1>4, <2>1, OrderLater
<1> QED
  BY <1>1, <1>5 DEF ToSlaveLink!vars

\* process_spi_rx: the first result is put into its queue, a dummy is dropped.
LEMMA ReceiveToSlave ==
  ASSUME IInv, ToSlaveOrder, Whole' => Whole, PostReceive
  PROVE  ToSlaveOrder' /\ UNCHANGED ToSlaveLink!vars
<1> DEFINE p == Head(results) r == QueueOf(p.if)
<1>1. task["post"] = "receive"
  BY DEF PostReceive
<1>2. results # << >> /\ results \in Seq(OnWire)
  BY <1>1, ToSlaveTyped DEF IInv, Ready, ResultHeld
<1>3. /\ results' = Tail(results)
      /\ IF p.if = "none" THEN UNCHANGED fromHost
         ELSE fromHost' = [fromHost EXCEPT ![r] = Append(@, p)]
      /\ UNCHANGED <<toSlave, slaveGot, hostSent, hostPc, hostTx>>
  BY DEF PostReceive, IsDummy, host, hostIn, hostThread
<1>4. p \in OnWire /\ Tail(results) \in Seq(OnWire)
  BY <1>2, TailFacts
<1>5. HostSends' = HostSends /\ HostSends \in Seq(OnWire)
  BY <1>3, ToSlaveTyped DEF HostSends
<1>6. fromHost \in [Queues -> Seq(OnWire)] /\ Sorted(fromHost)
  BY ToSlaveTyped DEF ToSlaveOrder
<1> DEFINE y(q) == Tail(results) ++ (HostSends ++ toSlave[q])
<1>7. ASSUME NEW q \in Queues
      PROVE  /\ y(q) \in Seq(OnWire)
             /\ Carried(Whole, fromHost[q] ++ (One(p) ++ y(q)), Mine(q),
                        LastOf(slaveGot[q]), hostSent[q])
             /\ ToSlaveStages(q)' = fromHost'[q] ++ y(q)
  <2> DEFINE t == results l == Tail(results) w == HostSends ++ toSlave[q]
  <2>1. w \in Seq(OnWire)
    BY <1>5, ToSlaveTyped, Joined
  <2>2. t \in Seq(OnWire) /\ t # << >> /\ l \in Seq(OnWire)
    BY <1>2, <1>4
  <2>3. ToSlaveStages(q) = fromHost[q] ++ (t ++ w)
    BY DEF ToSlaveStages
  <2>4. ToSlaveStages(q)' = fromHost'[q] ++ y(q)
    BY <1>3, <1>5 DEF ToSlaveStages
  <2>5. l ++ w \in Seq(OnWire)
    <3> HIDE DEF l, w
    <3> QED
      BY <2>1, <2>2, Joined
  <2>6. t ++ w = One(Head(t)) ++ (Tail(t) ++ w)
    <3> HIDE DEF t, w
    <3> QED
      BY <2>1, <2>2, SplitFirst
  <2>7. Carried(Whole, ToSlaveStages(q), Mine(q), LastOf(slaveGot[q]), hostSent[q])
    BY DEF ToSlaveOrder
  <2>8. Carried(Whole, fromHost[q] ++ (One(p) ++ y(q)), Mine(q), LastOf(slaveGot[q]), hostSent[q])
    BY <2>3, <2>6, <2>7
  <2> QED
    BY <2>4, <2>5, <2>8
<1> HIDE DEF y
<1>8. CASE p.if = "none"
  <2>1. \A q : p.if \notin Mine(q)
    BY <1>8, MineFacts
  <2>2. fromHost' = fromHost
    BY <1>3, <1>8
  <2>3. ASSUME NEW q \in Queues
        PROVE  Carried(Whole, ToSlaveStages(q)', Mine(q), LastOf(slaveGot[q]), hostSent[q])
    <3> DEFINE s == fromHost[q] t == y(q) a == LastOf(slaveGot[q]) b == hostSent[q]
    <3>1. s \in Seq(OnWire) /\ t \in Seq(OnWire)
      BY <1>6, <1>7
    <3>2. Carried(Whole, s ++ (One(p) ++ t), Mine(q), a, b) /\ ToSlaveStages(q)' = s ++ t
      BY <1>7, <2>2
    <3> HIDE DEF s, t, a, b, p
    <3>3. Carried(Whole, s ++ t, Mine(q), a, b)
      BY <1>4, <2>1, <3>1, <3>2, ForeignCarried
    <3> QED
      BY <3>2, <3>3 DEF a, b
  <2>4. /\ Sorted(fromHost') /\ Sorted(toSlave')
        /\ UNCHANGED <<toSlave, slaveGot, hostSent, fromHost>>
    BY <1>3, <2>2 DEF ToSlaveOrder
  <2>5. ToSlaveOrder'
    BY <2>3, <2>4, OrderLater
  <2> QED
    BY <2>4, <2>5 DEF ToSlaveLink!vars
<1>9. CASE p.if # "none"
  <2>1. p.if \in Mine(r) /\ r \in Queues
    BY <1>4, <1>9, MineFacts DEF OnWire, Interfaces
  <2>2. fromHost' = [fromHost EXCEPT ![r] = Append(@, p)]
    BY <1>3, <1>9
  <2> HIDE DEF p, r
  <2>3. /\ Sorted(fromHost') /\ fromHost'[r] = Append(fromHost[r], p)
        /\ \A o \in Queues : o # r => fromHost'[o] = fromHost[o]
    <3> DEFINE g == fromHost'
    <3> HIDE DEF g
    <3>1. g = [fromHost EXCEPT ![r] = Append(@, p)]
      BY <2>2 DEF g
    <3>2. /\ Sorted(g) /\ g[r] = Append(fromHost[r], p)
          /\ \A o \in Queues : o # r => g[o] = fromHost[o]
      BY <1>4, <1>6, <2>1, <3>1, PutQueue
    <3> QED
      BY <3>2 DEF g
  <2>4. ASSUME NEW q \in Queues
        PROVE  Carried(Whole, ToSlaveStages(q)', Mine(q), LastOf(slaveGot[q]), hostSent[q])
    <3> DEFINE h == fromHost[q] k == fromHost'[q] t == y(q) a == LastOf(slaveGot[q])
               b == hostSent[q]
    <3>1. /\ h \in Seq(OnWire) /\ t \in Seq(OnWire)
          /\ q = r => k = Append(h, p)
          /\ q # r => k = h
      BY <1>6, <1>7, <2>3
    <3>2. Carried(Whole, h ++ (One(p) ++ t), Mine(q), a, b) /\ ToSlaveStages(q)' = k ++ t
      BY <1>7
    <3>3. p \in OnWire /\ p.if \in Mine(r)
      BY <1>4, <2>1
    <3> HIDE DEF h, k, t, a, b
    <3>4. Carried(Whole, k ++ t, Mine(q), a, b)
      BY <3>1, <3>2, <3>3, PutFirst
    <3> QED
      BY <3>2, <3>4 DEF a, b
  <2>5. Sorted(toSlave') /\ UNCHANGED <<toSlave, slaveGot, hostSent>>
    BY <1>3 DEF ToSlaveOrder
  <2>6. ToSlaveOrder'
    BY <2>3, <2>4, <2>5, OrderLater
  <2> QED
    BY <2>5, <2>6 DEF ToSlaveLink!vars
<1> QED
  BY <1>8, <1>9

\* esp_spi_read
LEMMA HandToSlave ==
  ASSUME IInv, ToSlaveOrder, Whole' => Whole, SlaveRead
  PROVE  ToSlaveOrder' /\ ToSlaveLink!Next
<1> DEFINE r == FirstQueue(fromHost)
           p == Head(fromHost[r])
           y(q) == results ++ (HostSends ++ toSlave[q])
<1>1. /\ fromHost' = [fromHost EXCEPT ![r] = Tail(@)] /\ spiRxSem > 0
      /\ slaveGot' = [slaveGot EXCEPT ![r] = Append(@, p.n)]
      /\ UNCHANGED <<toSlave, results, hostSent, hostPc, hostTx>>
  BY DEF SlaveRead, host, hostIn, hostThread, slaveSpi
<1>2. fromHost \in [Queues -> Seq(OnWire)] /\ Sorted(fromHost)
  BY ToSlaveTyped DEF ToSlaveOrder
<1>3. r \in Queues /\ fromHost[r] # << >>
  BY <1>1, QueuesCounted, FirstInQueues
<1>4. slaveGot \in [Queues -> Seq(Nat)] /\ hostSent \in [Queues -> Nat]
  BY ToSlaveTyped
<1> HIDE DEF r
<1>5. /\ Sorted(fromHost') /\ fromHost'[r] = Tail(fromHost[r]) /\ p \in OnWire
      /\ p.if \in Mine(r) /\ \A q \in Queues : q # r => fromHost'[q] = fromHost[q]
  <2> DEFINE g == fromHost'
  <2>1. g = [fromHost EXCEPT ![r] = Tail(@)]
    BY <1>1
  <2> HIDE DEF g
  <2>2. g = [fromHost EXCEPT ![r] = Tail(@)]
          => /\ Sorted(g) /\ g[r] = Tail(fromHost[r])
             /\ \A o \in Queues : o # r => g[o] = fromHost[o]
             /\ Head(fromHost[r]) \in OnWire /\ Head(fromHost[r]).if \in Mine(r)
    BY <1>2, <1>3, TakeQueue
  <2> QED
    BY <2>1, <2>2, Zenon DEF g
<1>6. HostSends' = HostSends /\ HostSends \in Seq(OnWire)
  BY <1>1, ToSlaveTyped DEF HostSends
<1>7. ASSUME NEW q \in Queues
      PROVE  /\ y(q) \in Seq(OnWire)
             /\ Carried(Whole, fromHost[q] ++ y(q), Mine(q), LastOf(slaveGot[q]), hostSent[q])
             /\ ToSlaveStages(q)' = fromHost'[q] ++ y(q)
  <2> DEFINE w == HostSends ++ toSlave[q]
  <2>1. w \in Seq(OnWire)
    BY <1>6, ToSlaveTyped, Joined
  <2>2. results ++ w \in Seq(OnWire)
    <3> HIDE DEF w
    <3> QED
      BY <2>1, ToSlaveTyped, Joined
  <2>3. ToSlaveStages(q)' = fromHost'[q] ++ y(q)
    BY <1>1, <1>6 DEF ToSlaveStages
  <2>4. Carried(Whole, ToSlaveStages(q), Mine(q), LastOf(slaveGot[q]), hostSent[q])
    BY DEF ToSlaveOrder
  <2> QED
    BY <2>2, <2>3, <2>4 DEF ToSlaveStages
<1> HIDE DEF y
<1>8. /\ p.n \in (LastOf(slaveGot[r]) + 1)..hostSent[r] /\ p.n \in Nat
      /\ Whole => p.n = LastOf(slaveGot[r]) + 1
      /\ Carried(Whole, Tail(fromHost[r]) ++ y(r), Mine(r), p.n, hostSent[r])
  <2> DEFINE s == fromHost[r] t == y(r) a == LastOf(slaveGot[r]) b == hostSent[r]
  <2>1. s \in Seq(OnWire) /\ t \in Seq(OnWire) /\ s # << >> /\ a \in Nat /\ b \in Nat
    BY <1>2, <1>3, <1>7, ToSlaveTyped
  <2>2. Carried(Whole, s ++ t, Mine(r), a, b) /\ Head(s).if \in Mine(r)
    BY <1>3, <1>5, <1>7
  <2> HIDE DEF s, t, a, b
  <2>3. /\ Head(s).n \in (a + 1)..b /\ Head(s).n \in Nat
        /\ Whole => Head(s).n = a + 1
        /\ Carried(Whole, Tail(s) ++ t, Mine(r), Head(s).n, b)
    BY <2>1, <2>2, OnWireNumbered, HandCarried
  <2> QED
    BY <2>3 DEF s, t, a, b
<1> DEFINE n == p.n
<1>9. n \in Nat /\ slaveGot' = [slaveGot EXCEPT ![r] = Append(@, n)]
  BY <1>1, <1>8
<1>10. \A q \in Queues : LastOf(slaveGot'[q]) = IF q = r THEN n ELSE LastOf(slaveGot[q])
  <2> HIDE DEF n
  <2>1. LastOf(Append(slaveGot[r], n)) = n
    <3>1. slaveGot[r] \in Seq(Nat)
      BY <1>3, <1>4
    <3> QED
      BY <1>9, <3>1, LastFacts
  <2>2. \A q \in Queues : slaveGot'[q] = IF q = r THEN Append(slaveGot[q], n) ELSE slaveGot[q]
    BY <1>4, <1>9
  <2> QED
    BY <2>1, <2>2
<1>11. ASSUME NEW q \in Queues
       PROVE  Carried(Whole, ToSlaveStages(q)', Mine(q), LastOf(slaveGot'[q]), hostSent[q])
  <2>1. CASE q = r
    <3>1. ToSlaveStages(q)' = Tail(fromHost[r]) ++ y(r) /\ LastOf(slaveGot'[q]) = p.n
      BY <1>5, <1>7, <1>10, <2>1
    <3> QED
      BY <1>8, <2>1, <3>1
  <2>2. CASE q # r
    <3>1. ToSlaveStages(q)' = fromHost[q] ++ y(q) /\ LastOf(slaveGot'[q]) = LastOf(slaveGot[q])
      BY <1>5, <1>7, <1>10, <2>2
    <3> QED
      BY <1>7, <3>1
  <2> QED
    BY <2>1, <2>2
<1>12. Whole' => NothingSkipped'
  <2> SUFFICES ASSUME Whole, NothingSkipped PROVE NothingSkipped'
    BY DEF ToSlaveOrder
  <2> DEFINE g == slaveGot[r]
  <2>1. g \in Seq(Nat) /\ \A k \in 1..Len(g) : g[k] = k
    BY <1>3, <1>4 DEF NothingSkipped
  <2>2. n = LastOf(g) + 1
    BY <1>8
  <2>3. slaveGot'[r] = Append(g, n) /\ \A q \in Queues : q # r => slaveGot'[q] = slaveGot[q]
    BY <1>3, <1>4, <1>9
  <2> HIDE DEF g, n
  <2>4. \A k \in 1..Len(Append(g, n)) : Append(g, n)[k] = k
    BY <1>9, <2>1, <2>2, NextInRow
  <2> QED
    BY <2>3, <2>4 DEF NothingSkipped
<1>14. ToSlaveOrder'
  <2>1. \A q \in Queues :
           Carried(Whole', ToSlaveStages(q)', Mine(q), LastOf(slaveGot'[q]), hostSent[q])
    BY <1>11, Zenon DEF Carried
  <2>2. Sorted(toSlave) /\ UNCHANGED <<toSlave, hostSent>>
    BY <1>1 DEF ToSlaveOrder
  <2> QED
    BY <1>5, <1>12, <2>1, <2>2 DEF ToSlaveOrder
<1>13. ToSlaveLink!Deliver(r)
  <2>1. ToSlaveLink!Last(slaveGot[r]) = LastOf(slaveGot[r])
    BY DEF ToSlaveLink!Last, LastOf
  <2> QED
    BY <1>1, <1>8, <2>1 DEF ToSlaveLink!Deliver
<1> QED
  BY <1>3, <1>13, <1>14 DEF ToSlaveLink!Next

\* A missed edge is never forgotten.
LEMMA WholeBefore == ASSUME IInv, [Next]_vars PROVE Whole' => Whole
<1>1. csMissed \in Nat
  BY BoundsAssumption DEF IInv, TypeOK, SlaveOK
<1>2. ASSUME UNCHANGED csMissed \/ ChangeCs PROVE Whole' => Whole
  BY <1>1, <1>2 DEF ChangeCs, Whole
<1> USE DEF hostIn, hostThread, hostOut, host, pins, cs, slaveIn, slaveSpi, slaveOut, slave
<1>3. CASE \E q \in Queues : HostQueue(q) \/ HostCount(q) \/ HostSignal(q)
  BY <1>2, <1>3 DEF HostQueue, HostCount, HostSignal
<1>4. CASE HsIsr \/ DrIsr \/ CsIsr \/ HostRxTask \/ SlaveRead
  BY <1>2, <1>4 DEF HsIsr, DrIsr, CsIsr, HostRxTask, SlaveRead
<1>5. CASE HostTask
  <2>1. CASE HostWake \/ HostReadDr \/ HostSendPacket \/ HostSendDummy \/ HostIgnore
    BY <1>2, <2>1 DEF HostWake, HostReadDr, HostSendPacket, HostSendDummy, HostIgnore
  <2>2. CASE Transfer \/ DeassertCs \/ HostReceive \/ HostPut \/ HostEnd
    BY <1>2, <2>2 DEF Transfer, DeassertCs, HostReceive, HostPut, HostEnd
  <2> QED
    BY <1>5, <2>1, <2>2 DEF HostTask
<1>6. ASSUME NEW t, Sender(t) \/ Loader(t) PROVE Whole' => Whole
  BY <1>2, <1>6 DEF Sender, SlaveCount, TestDr, RaiseDr, SetFlag, Loader, LoadPacket,
                    LoadNothing, LowerDr, ClearFlag, LoadDummy, QueueTransaction
<1>7. CASE SlaveStartup \/ \E i \in Writers : SlaveWrite(i)
  BY <1>2, <1>7 DEF SlaveStartup, SlaveWrite
<1>8. CASE PostGet \/ PostWaitCs \/ PostReceive \/ UNCHANGED vars
  BY <1>2, <1>8 DEF PostGet, PostWaitCs, PostReceive, vars
<1> QED
  BY <1>3, <1>4, <1>5, <1>6, <1>7, <1>8 DEF Next, WriterTask, ResetTask, PostTask

LEMMA StepToSlave ==
  ASSUME IInv, ToSlaveOrder, [Next]_vars
  PROVE  ToSlaveOrder' /\ [ToSlaveLink!Next]_ToSlaveLink!vars
<1>0. Whole' => Whole
  BY WholeBefore
<1>1. ASSUME UNCHANGED <<toSlave, fromHost, results, slaveGot, hostSent>>,
             \/ UNCHANGED <<hostPc, hostTx>>
             \/ hostPc # "transfer" /\ hostPc' # "transfer"
      PROVE  ToSlaveOrder' /\ UNCHANGED ToSlaveLink!vars
  BY <1>0, <1>1, SameToSlave DEF HostSends
<1> USE DEF hostIn, hostThread, hostOut, host, pins, cs, slaveIn, slaveSpi, slaveOut, slave
<1>2. CASE \E q \in Queues : HostQueue(q) \/ HostCount(q) \/ HostSignal(q)
  <2>1. CASE \E q \in Queues : HostCount(q) \/ HostSignal(q)
    BY <1>1, <2>1 DEF HostCount, HostSignal
  <2>2. ASSUME NEW q \in Queues, HostQueue(q) PROVE ToSlaveOrder' /\ ToSlaveLink!Next
    BY <1>0, <2>2, AcceptToSlave
  <2> QED
    BY <1>2, <2>1, <2>2
<1>3. CASE HsIsr \/ DrIsr \/ CsIsr
  BY <1>1, <1>3 DEF HsIsr, DrIsr, CsIsr
<1>4. CASE HostTask
  <2>1. CASE HostWake \/ HostReadDr \/ HostIgnore \/ DeassertCs
    BY <1>1, <2>1 DEF HostWake, HostReadDr, HostIgnore, DeassertCs
  <2>2. CASE HostReceive \/ HostPut \/ HostEnd
    BY <1>1, <2>2 DEF HostReceive, HostPut, HostEnd
  <2> QED
    BY <1>0, <1>4, <2>1, <2>2, TakeToSlave, DummyToSlave, TransferToSlave DEF HostTask
<1>5. CASE HostRxTask
  BY <1>1, <1>5 DEF HostRxTask
<1>6. CASE SlaveStartup \/ \E interface \in {"serial", "sta"} : SlaveWrite(interface)
  BY <1>1, <1>6 DEF SlaveStartup, SlaveWrite, PutToHost
<1>7. ASSUME NEW t, Sender(t) PROVE ToSlaveOrder' /\ UNCHANGED ToSlaveLink!vars
  BY <1>1, <1>7 DEF Sender, SlaveCount, TestDr, RaiseDr, SetFlag
<1>8. ASSUME NEW t, Loader(t) PROVE ToSlaveOrder' /\ UNCHANGED ToSlaveLink!vars
  BY <1>1, <1>8 DEF Loader, LoadPacket, LoadNothing, LowerDr, ClearFlag, LoadDummy,
                    QueueTransaction
<1>9. CASE PostGet \/ PostWaitCs
  BY <1>1, <1>9 DEF PostGet, PostWaitCs
<1>10. CASE UNCHANGED vars
  BY <1>1, <1>10 DEF vars
<1> QED
  BY <1>0, <1>2, <1>3, <1>4, <1>5, <1>6, <1>7, <1>8, <1>9, <1>10, ReceiveToSlave, HandToSlave
  DEF Next, WriterTask, Writers, ResetTask, PostTask

-----------------------------------------------------------------------------
(* From the co-processor to the host.                                       *)

LEMMA FromSlaveTyped ==
  ASSUME IInv
  PROVE  /\ fromSlave \in [Queues -> Seq(OnWire)] /\ toHost \in [Queues -> Seq(OnWire)]
         /\ loaded \in Seq(OnWire) /\ HostHolds \in Seq(OnWire) /\ Prepared \in Seq(OnWire)
         /\ hostRx \in OnWire /\ buf["reset"] \in OnWire /\ buf["post"] \in OnWire
         /\ \A q \in Queues : fromSlave[q] \in Seq(OnWire) /\ toHost[q] \in Seq(OnWire)
         /\ hostGot \in [Queues -> Seq(Nat)] /\ slaveSent \in [Queues -> Nat]
         /\ \A q \in Queues : LastOf(hostGot[q]) \in Nat /\ slaveSent[q] \in Nat
         /\ task \in [(Writers \cup {"reset", "post"}) ->
                        SenderLabels \cup LoaderLabels \cup {"waitCs", "receive"}]
<1>1. /\ fromSlave \in [Queues -> Seq(OnWire)] /\ toHost \in [Queues -> Seq(OnWire)]
      /\ loaded \in Seq(OnWire) /\ hostRx \in OnWire
      /\ buf \in [{"reset", "post"} -> OnWire]
      /\ hostGot \in [Queues -> Seq(Nat)] /\ slaveSent \in [Queues -> Nat]
      /\ task \in [(Writers \cup {"reset", "post"}) ->
                     SenderLabels \cup LoaderLabels \cup {"waitCs", "receive"}]
  BY DEF IInv, TypeOK, HostOK, SlaveOK
<1>2. buf["reset"] \in OnWire /\ buf["post"] \in OnWire
  BY <1>1
<1>3. \A p \in OnWire : One(p) \in Seq(OnWire)
  BY DEF One
<1>4. HostHolds \in Seq(OnWire)
  BY <1>1, <1>3 DEF HostHolds
<1>5. Prepared \in Seq(OnWire)
  BY <1>2, <1>3 DEF Prepared
<1>6. \A q \in Queues : LastOf(hostGot[q]) \in Nat
  BY <1>1, LastFacts
<1> QED
  BY <1>1, <1>2, <1>4, <1>5, <1>6

LEMMA SameFromSlave ==
  ASSUME FromSlaveOrder, UNCHANGED <<fromSlave, loaded, toHost, hostGot, slaveSent>>,
         HostHolds' = HostHolds, Prepared' = Prepared
  PROVE  FromSlaveOrder' /\ UNCHANGED FromSlaveLink!vars
<1>1. UNCHANGED FromSlaveLink!vars
  BY DEF FromSlaveLink!vars
<1>2. ASSUME NEW q \in Queues PROVE FromSlaveStages(q)' = FromSlaveStages(q)
  BY DEF FromSlaveStages
<1> QED
  BY <1>1, <1>2 DEF FromSlaveOrder, Sorted

\* A task that neither prepares a transaction nor gives one away.
LEMMA SamePrepared ==
  ASSUME IInv, NEW t \in (Writers \cup {"reset", "post"}), task[t] # "queue",
         NEW l, l # "queue", task' = [task EXCEPT ![t] = l], buf' = buf
  PROVE  Prepared' = Prepared
<1>1. \A u \in {"reset", "post"} : (task'[u] = "queue") = (task[u] = "queue")
  BY FromSlaveTyped DEF Writers
<1> QED
  BY <1>1 DEF Prepared

\* The tasks that load transactions do not meet.
LEMMA LoadsAlone ==
  ASSUME IInv, BootAlone, NEW t \in {"reset", "post"}
  PROVE  /\ task[t] = "queue" => Prepared = One(buf[t])
         /\ task[t] \in {"load", "dummy"} => Prepared = << >>
         /\ task[t] \in {"load", "dummy"} /\ task' = [task EXCEPT ![t] = "queue"]
              => Prepared' = One(buf'[t])
         /\ task[t] = "queue" /\ task' = [task EXCEPT
                                            ![t] = IF t = "reset" THEN "idle" ELSE "receive"]
              => Prepared' = << >>
<1>1. task["reset"] = "idle" \/ task["post"] = "idle"
  BY DEF BootAlone
<1>2. task \in [(Writers \cup {"reset", "post"}) ->
                  SenderLabels \cup LoaderLabels \cup {"waitCs", "receive"}]
  BY FromSlaveTyped
<1>3. CASE t = "reset"
  BY <1>1, <1>2, <1>3 DEF Prepared
<1>4. CASE t = "post"
  BY <1>1, <1>2, <1>4 DEF Prepared
<1> QED
  BY <1>3, <1>4

\* Stages regrouped around the one that changes.
LEMMA BehindHost ==
  ASSUME NEW s \in Seq(OnWire), NEW h \in Seq(OnWire), NEW l \in Seq(OnWire),
         NEW p \in Seq(OnWire), NEW x \in Seq(OnWire)
  PROVE  /\ s ++ (h ++ (l ++ (p ++ x))) = (s ++ h) ++ (l ++ (p ++ x))
         /\ s ++ h \in Seq(OnWire)
<1> DEFINE w == l ++ (p ++ x)
<1>1. p ++ x \in Seq(OnWire)
  BY Joined
<1>2. w \in Seq(OnWire)
  BY <1>1, Joined
<1> HIDE DEF w
<1>3. s ++ (h ++ w) = (s ++ h) ++ w /\ s ++ h \in Seq(OnWire)
  BY <1>2, JoinedTwice, Joined
<1> QED
  BY <1>3 DEF w

\* esp_spi_write and generate_startup_event put a packet into spi_tx_queue.
LEMMA AcceptFromSlave ==
  ASSUME IInv, FromSlaveOrder, NEW interface \in Interfaces, PutToHost(interface),
         UNCHANGED <<fromSlave, loaded, hostGot>>,
         HostHolds' = HostHolds, Prepared' = Prepared
  PROVE  FromSlaveOrder' /\ FromSlaveLink!Next
<1> DEFINE r == QueueOf(interface)
           n == slaveSent[r] + 1
           p == Packet(interface, n)
<1>1. /\ toHost' = [toHost EXCEPT ![r] = Append(@, p)]
      /\ slaveSent' = [slaveSent EXCEPT ![r] = n]
  BY DEF PutToHost
<1>2. toHost \in [Queues -> Seq(OnWire)] /\ slaveSent \in [Queues -> Nat] /\ Sorted(toHost)
  BY FromSlaveTyped DEF FromSlaveOrder
<1>3. interface \in Mine(r) /\ r \in Queues
  BY MineFacts
<1> HIDE DEF r
<1>4. /\ slaveSent'[r] = n /\ n = slaveSent[r] + 1 /\ n \in Nat
      /\ \A q \in Queues : q # r => slaveSent'[q] = slaveSent[q]
  BY <1>1, <1>2, <1>3
<1> HIDE DEF n
<1>5. p \in OnWire /\ p.if \in Mine(r) /\ p.n = n
  BY <1>3, <1>4, PacketOnWire DEF Packet, Interfaces
<1> HIDE DEF p
<1>6. /\ Sorted(toHost') /\ toHost'[r] = Append(toHost[r], p)
      /\ \A q \in Queues : q # r => toHost'[q] = toHost[q]
  <2> DEFINE g == toHost'
  <2>1. g = [toHost EXCEPT ![r] = Append(@, p)]
    BY <1>1
  <2> HIDE DEF g
  <2>2. /\ Sorted(g) /\ g[r] = Append(toHost[r], p)
        /\ \A q \in Queues : q # r => g[q] = toHost[q]
    BY <1>2, <1>3, <1>5, <2>1, PutQueue
  <2> QED
    BY <2>2 DEF g
<1>7. ASSUME NEW q \in Queues
      PROVE  Carried(TRUE, FromSlaveStages(q)', Mine(q), LastOf(hostGot[q]), slaveSent'[q])
  <2>1. Carried(TRUE, fromSlave[q] ++ (HostHolds ++ (loaded ++ (Prepared ++ toHost[q]))), Mine(q),
              LastOf(hostGot[q]), slaveSent[q])
    BY DEF FromSlaveOrder, FromSlaveStages
  <2>2. FromSlaveStages(q)'
          = fromSlave[q] ++ (HostHolds ++ (loaded ++ (Prepared ++ toHost'[q])))
    BY DEF FromSlaveStages
  <2>3. CASE q # r
    BY <1>4, <1>6, <2>1, <2>2, <2>3
  <2>4. CASE q = r
    <3> DEFINE s == fromSlave[q] h == HostHolds k == s ++ h t == loaded u == Prepared
               x == toHost[q] y == Append(x, p) a == LastOf(hostGot[q]) b == slaveSent[q]
    <3>1. /\ s \in Seq(OnWire) /\ h \in Seq(OnWire) /\ t \in Seq(OnWire)
          /\ u \in Seq(OnWire) /\ x \in Seq(OnWire) /\ a \in Nat /\ b \in Nat
      BY FromSlaveTyped
    <3>2. p.if \in Mine(q) /\ p.n = b + 1 /\ p \in OnWire
      BY <1>4, <1>5, <2>4
    <3>3. Carried(TRUE, s ++ (h ++ (t ++ (u ++ x))), Mine(q), a, b)
      BY <2>1
    <3>4. FromSlaveStages(q)' = s ++ (h ++ (t ++ (u ++ y))) /\ slaveSent'[q] = b + 1
      BY <1>4, <1>6, <2>2, <2>4
    <3> HIDE DEF s, h, t, u, x, a, b
    <3>5. y \in Seq(OnWire)
      BY <3>1, <3>2, AppendFacts
    <3> HIDE DEF y
    <3>6. /\ s ++ (h ++ (t ++ (u ++ x))) = k ++ (t ++ (u ++ x)) /\ k \in Seq(OnWire)
          /\ s ++ (h ++ (t ++ (u ++ y))) = k ++ (t ++ (u ++ y))
      BY <3>1, <3>5, BehindHost
    <3> HIDE DEF k
    <3>7. Carried(TRUE, k ++ (t ++ (u ++ x)), Mine(q), a, b)
      BY <3>3, <3>6
    <3>8. Carried(TRUE, k ++ (t ++ (u ++ y)), Mine(q), a, b + 1)
      BY <3>1, <3>2, <3>6, <3>7, AcceptStep DEF y
    <3> QED
      BY <3>4, <3>6, <3>8 DEF a
  <2> QED
    BY <2>3, <2>4
<1>8. FromSlaveOrder'
  BY <1>6, <1>7 DEF FromSlaveOrder, Sorted
<1>9. FromSlaveLink!Next
  BY <1>1, <1>3 DEF FromSlaveLink!Next, FromSlaveLink!Accept, n
<1> QED
  BY <1>8, <1>9

\* get_next_tx_buffer of the co-processor
LEMMA TakeFromSlave ==
  ASSUME IInv, BootAlone, FromSlaveOrder, NEW t \in {"reset", "post"}, LoadPacket(t)
  PROVE  FromSlaveOrder' /\ UNCHANGED FromSlaveLink!vars
<1> DEFINE r == FirstQueue(toHost)
           p == Head(toHost[r])
<1>1. /\ toHost' = [toHost EXCEPT ![r] = Tail(@)] /\ buf' = [buf EXCEPT ![t] = p]
      /\ task[t] = "load" /\ task' = [task EXCEPT ![t] = "queue"] /\ spiTxSem > 0
      /\ UNCHANGED <<fromSlave, loaded, hostGot, slaveSent, hostPc, hostRx>>
  BY DEF LoadPacket, Goto, host, hostThread, hostOut, slaveSpi
<1>2. toHost \in [Queues -> Seq(OnWire)] /\ Sorted(toHost)
  BY FromSlaveTyped DEF FromSlaveOrder
<1>3. r \in Queues /\ toHost[r] # << >>
  BY <1>1, QueuesCounted, FirstInQueues
<1>4. buf'[t] = p
  BY <1>1 DEF IInv, TypeOK, SlaveOK
<1> HIDE DEF r
<1>5. /\ Sorted(toHost') /\ toHost'[r] = Tail(toHost[r])
      /\ \A q \in Queues : q # r => toHost'[q] = toHost[q]
      /\ toHost' \in [Queues -> Seq(OnWire)]
  <2> DEFINE g == toHost'
  <2>1. g = [toHost EXCEPT ![r] = Tail(@)]
    BY <1>1
  <2> HIDE DEF g
  <2>2. g = [toHost EXCEPT ![r] = Tail(@)]
          => /\ Sorted(g) /\ g[r] = Tail(toHost[r])
             /\ \A o \in Queues : o # r => g[o] = toHost[o]
             /\ g \in [Queues -> Seq(OnWire)]
    BY <1>2, <1>3, TakeQueue
  <2> QED
    BY <2>1, <2>2, Zenon DEF g
<1>6. Prepared = << >> /\ Prepared' = One(p)
  BY <1>1, <1>4, LoadsAlone
<1>7. HostHolds' = HostHolds
  BY <1>1 DEF HostHolds
<1>8. ASSUME NEW q \in Queues
      PROVE  Carried(TRUE, FromSlaveStages(q)', Mine(q), LastOf(hostGot[q]), slaveSent[q])
  <2> DEFINE s == fromSlave[q] h == HostHolds k == s ++ h l == loaded f == toHost
             g == toHost' a == LastOf(hostGot[q]) b == slaveSent[q]
             none == << >> one == One(Head(f[r])) x == f[q] y == g[q]
  <2>1. s \in Seq(OnWire) /\ h \in Seq(OnWire) /\ l \in Seq(OnWire)
    BY FromSlaveTyped
  <2>2. x \in Seq(OnWire) /\ y \in Seq(OnWire) /\ none \in Seq(OnWire)
    BY <1>2, <1>5
  <2>3. one \in Seq(OnWire)
    <3>1. Head(toHost[r]) \in OnWire
      BY <1>2, <1>3, HeadMine
    <3> QED
      BY <3>1 DEF One
  <2>4. Carried(TRUE, s ++ (h ++ (l ++ (none ++ x))), Mine(q), a, b)
    BY <1>6 DEF FromSlaveOrder, FromSlaveStages
  <2>5. FromSlaveStages(q)' = s ++ (h ++ (l ++ (one ++ y)))
    BY <1>1, <1>6, <1>7 DEF FromSlaveStages
  <2>6. /\ f \in [Queues -> Seq(OnWire)] /\ g \in [Queues -> Seq(OnWire)]
        /\ f[r] # << >> /\ Sorted(f) /\ g[r] = Tail(f[r])
        /\ \A o \in Queues : o # r => g[o] = f[o]
    BY <1>2, <1>3, <1>5
  <2> HIDE DEF s, h, l, f, g, a, b
  <2>7. k \in Seq(OnWire)
    BY <2>1, Joined
  <2>8. Carried(TRUE, k ++ (l ++ (none ++ x)), Mine(q), a, b)
          => Carried(TRUE, k ++ (l ++ (one ++ y)), Mine(q), a, b)
    <3> HIDE DEF k
    <3> QED
      BY <1>3, <2>1, <2>6, <2>7, TakeStep
  <2> HIDE DEF none, one, x, y
  <2>9. /\ s ++ (h ++ (l ++ (none ++ x))) = k ++ (l ++ (none ++ x))
        /\ s ++ (h ++ (l ++ (one ++ y))) = k ++ (l ++ (one ++ y))
    BY <2>1, <2>2, <2>3, BehindHost
  <2>10. Carried(TRUE, s ++ (h ++ (l ++ (one ++ y))), Mine(q), a, b)
    BY <2>4, <2>8, <2>9
  <2> QED
    BY <2>5, <2>10 DEF a, b
<1>9. FromSlaveOrder'
  BY <1>1, <1>5, <1>8 DEF FromSlaveOrder, Sorted
<1> QED
  BY <1>1, <1>9 DEF FromSlaveLink!vars

\* The co-processor prepares a dummy, which belongs to no queue.
LEMMA DummyFromSlave ==
  ASSUME IInv, BootAlone, FromSlaveOrder, NEW t \in {"reset", "post"}, LoadDummy(t)
  PROVE  FromSlaveOrder' /\ UNCHANGED FromSlaveLink!vars
<1> DEFINE p == Dummy(NextThrottling)
<1>1. /\ buf' = [buf EXCEPT ![t] = p]
      /\ task[t] = "dummy" /\ task' = [task EXCEPT ![t] = "queue"]
      /\ UNCHANGED <<toHost, fromSlave, loaded, hostGot, slaveSent, hostPc, hostRx>>
  BY DEF LoadDummy, Goto, host, hostThread, hostOut, slaveIn, slaveSpi
<1>2. p \in OnWire /\ \A q : p.if \notin Mine(q)
  <2>1. NextThrottling \in BOOLEAN
    BY NextThrottlingBoolean DEF IInv, TypeOK, SlaveOK
  <2>2. p \in OnWire
    BY <2>1, DummyOnWire
  <2> QED
    BY <2>2, MineFacts DEF Dummy
<1>3. buf'[t] = p
  BY <1>1 DEF IInv, TypeOK, SlaveOK
<1> HIDE DEF p
<1>4. Prepared = << >> /\ Prepared' = One(p)
  BY <1>1, <1>3, LoadsAlone
<1>5. HostHolds' = HostHolds
  BY <1>1 DEF HostHolds
<1>6. ASSUME NEW q \in Queues
      PROVE  Carried(TRUE, FromSlaveStages(q)', Mine(q), LastOf(hostGot[q]), slaveSent[q])
  <2> DEFINE s == fromSlave[q] h == HostHolds k == s ++ h l == loaded x == toHost[q]
             a == LastOf(hostGot[q]) b == slaveSent[q] none == << >> one == One(p)
  <2>1. /\ s \in Seq(OnWire) /\ h \in Seq(OnWire) /\ l \in Seq(OnWire) /\ x \in Seq(OnWire)
        /\ none \in Seq(OnWire)
    BY FromSlaveTyped
  <2>2. one \in Seq(OnWire)
    BY <1>2 DEF One
  <2>3. Carried(TRUE, s ++ (h ++ (l ++ (none ++ x))), Mine(q), a, b)
    BY <1>4 DEF FromSlaveOrder, FromSlaveStages
  <2>4. FromSlaveStages(q)' = s ++ (h ++ (l ++ (one ++ x)))
    BY <1>1, <1>4, <1>5 DEF FromSlaveStages
  <2> HIDE DEF s, h, l, x, a, b
  <2>5. k \in Seq(OnWire)
    BY <2>1, Joined
  <2>6. Carried(TRUE, k ++ (l ++ (none ++ x)), Mine(q), a, b)
          => Carried(TRUE, k ++ (l ++ (one ++ x)), Mine(q), a, b)
    <3> HIDE DEF k
    <3> QED
      BY <1>2, <2>1, <2>5, DummyStep
  <2> HIDE DEF none, one
  <2>7. /\ s ++ (h ++ (l ++ (none ++ x))) = k ++ (l ++ (none ++ x))
        /\ s ++ (h ++ (l ++ (one ++ x))) = k ++ (l ++ (one ++ x))
    BY <2>1, <2>2, BehindHost
  <2>8. Carried(TRUE, s ++ (h ++ (l ++ (one ++ x))), Mine(q), a, b)
    BY <2>3, <2>6, <2>7
  <2> QED
    BY <2>4, <2>8 DEF a, b
<1>7. FromSlaveOrder'
  BY <1>1, <1>6 DEF FromSlaveOrder, Sorted
<1> QED
  BY <1>1, <1>7 DEF FromSlaveLink!vars

\* spi_slave_queue_trans: what was prepared is with the SPI driver.
LEMMA QueueFromSlave ==
  ASSUME IInv, BootAlone, FromSlaveOrder, NEW t \in {"reset", "post"}, QueueTransaction(t)
  PROVE  FromSlaveOrder' /\ UNCHANGED FromSlaveLink!vars
<1> DEFINE p == buf[t]
<1>1. /\ loaded' = Append(loaded, p) /\ task[t] = "queue"
      /\ task' = [task EXCEPT ![t] = IF t = "reset" THEN "idle" ELSE "receive"]
      /\ UNCHANGED <<toHost, fromSlave, hostGot, slaveSent, hostPc, hostRx>>
  BY DEF QueueTransaction, Goto, host, hostThread, hostOut, slaveIn
<1>2. Prepared = One(p) /\ Prepared' = << >>
  BY <1>1, LoadsAlone
<1>3. HostHolds' = HostHolds
  BY <1>1 DEF HostHolds
<1>4. ASSUME NEW q \in Queues PROVE FromSlaveStages(q)' = FromSlaveStages(q)
  <2> DEFINE s == fromSlave[q] h == HostHolds l == loaded x == toHost[q]
             m == Append(l, p) none == << >> one == One(p) k == s ++ h
  <2>1. /\ s \in Seq(OnWire) /\ h \in Seq(OnWire) /\ l \in Seq(OnWire) /\ x \in Seq(OnWire)
        /\ none \in Seq(OnWire) /\ p \in OnWire
    BY FromSlaveTyped
  <2>2. FromSlaveStages(q) = s ++ (h ++ (l ++ (one ++ x)))
    BY <1>2 DEF FromSlaveStages
  <2>3. FromSlaveStages(q)' = s ++ (h ++ (m ++ (none ++ x)))
    BY <1>1, <1>2, <1>3 DEF FromSlaveStages
  <2> HIDE DEF s, h, l, x, p
  <2>4. m \in Seq(OnWire) /\ one \in Seq(OnWire) /\ k \in Seq(OnWire)
    <3>1. m \in Seq(OnWire)
      BY <2>1, AppendFacts
    <3>2. one \in Seq(OnWire)
      BY <2>1 DEF One
    <3> QED
      BY <2>1, <3>1, <3>2, Joined
  <2>5. k ++ (m ++ (none ++ x)) = k ++ (l ++ (one ++ x))
    <3> HIDE DEF k
    <3> QED
      BY <2>1, <2>4, MoveStep
  <2> HIDE DEF m, one, none
  <2>6. /\ s ++ (h ++ (l ++ (one ++ x))) = k ++ (l ++ (one ++ x))
        /\ s ++ (h ++ (m ++ (none ++ x))) = k ++ (m ++ (none ++ x))
    BY <2>1, <2>4, BehindHost
  <2> QED
    BY <2>2, <2>3, <2>5, <2>6
<1>5. FromSlaveOrder'
  BY <1>1, <1>4 DEF FromSlaveOrder, Sorted
<1> QED
  BY <1>1, <1>5 DEF FromSlaveLink!vars
\* What lies behind the packet the host holds.
LEMMA BehindHeld ==
  ASSUME IInv, NEW q \in Queues
  PROVE  loaded ++ (Prepared ++ toHost[q]) \in Seq(OnWire)
<1> DEFINE w == Prepared ++ toHost[q]
<1>1. w \in Seq(OnWire)
  BY FromSlaveTyped, Joined
<1> HIDE DEF w
<1>2. loaded ++ w \in Seq(OnWire)
  BY <1>1, FromSlaveTyped, Joined
<1> QED
  BY <1>2 DEF w

\* The transfer: the host holds what the co-processor had to send, or nothing.
LEMMA TransferFromSlave ==
  ASSUME IInv, FromSlaveOrder, Transfer
  PROVE  FromSlaveOrder' /\ UNCHANGED FromSlaveLink!vars
<1>1. /\ hostPc = "transfer" /\ hostPc' = "deassert"
      /\ UNCHANGED <<fromSlave, toHost, hostGot, slaveSent, task, buf>>
  BY DEF Transfer, hostOut, slaveIn
<1>2. HostHolds = << >> /\ HostHolds' = One(hostRx') /\ Prepared' = Prepared
  BY <1>1 DEF HostHolds, Prepared
<1>3. CASE loaded # << >>
  <2>1. loaded' = Tail(loaded) /\ hostRx' = Head(loaded)
    BY <1>3 DEF Transfer
  <2>2. ASSUME NEW q \in Queues PROVE FromSlaveStages(q)' = FromSlaveStages(q)
    <3> DEFINE s == fromSlave[q] t == loaded x == toHost[q] w == Prepared ++ x
    <3>1. s \in Seq(OnWire) /\ t \in Seq(OnWire) /\ t # << >> /\ x \in Seq(OnWire)
      BY <1>3, FromSlaveTyped
    <3>2. FromSlaveStages(q) = s ++ (<< >> ++ (t ++ w))
      BY <1>2 DEF FromSlaveStages
    <3>3. FromSlaveStages(q)' = s ++ (One(Head(t)) ++ (Tail(t) ++ w))
      BY <1>1, <1>2, <2>1 DEF FromSlaveStages
    <3> HIDE DEF s, t, x
    <3>4. w \in Seq(OnWire)
      BY <3>1, FromSlaveTyped, Joined
    <3> HIDE DEF w
    <3> DEFINE y == t ++ w
    <3>5. y \in Seq(OnWire)
      BY <3>1, <3>4, Joined
    <3>6. y = One(Head(t)) ++ (Tail(t) ++ w)
      BY <3>1, <3>4, SplitFirst
    <3> HIDE DEF y
    <3>7. << >> ++ y = y
      BY <3>5, JoinedEmpty
    <3> QED
      BY <3>2, <3>3, <3>6, <3>7 DEF y
  <2>3. FromSlaveOrder'
    BY <1>1, <2>2 DEF FromSlaveOrder, Sorted
  <2> QED
    BY <1>1, <2>3 DEF FromSlaveLink!vars
<1>4. CASE loaded = << >>
  <2> DEFINE p == Dummy(FALSE)
  <2>1. loaded' = loaded /\ hostRx' = p
    BY <1>4 DEF Transfer
  <2>2. p \in OnWire /\ \A q : p.if \notin Mine(q)
    BY DummyOnWire, MineFacts DEF Dummy
  <2> HIDE DEF p
  <2>3. ASSUME NEW q \in Queues
        PROVE  Carried(TRUE, FromSlaveStages(q)', Mine(q), LastOf(hostGot[q]), slaveSent[q])
    <3> DEFINE s == fromSlave[q] w == loaded ++ (Prepared ++ toHost[q])
               a == LastOf(hostGot[q]) b == slaveSent[q]
    <3>1. s \in Seq(OnWire) /\ w \in Seq(OnWire)
      BY FromSlaveTyped, BehindHeld
    <3>2. Carried(TRUE, s ++ (<< >> ++ w), Mine(q), a, b)
      BY <1>2 DEF FromSlaveOrder, FromSlaveStages
    <3>3. FromSlaveStages(q)' = s ++ (One(p) ++ w)
      BY <1>1, <1>2, <2>1 DEF FromSlaveStages
    <3> HIDE DEF s, w, a, b
    <3>4. Carried(TRUE, s ++ (One(p) ++ w), Mine(q), a, b)
      BY <2>2, <3>1, <3>2, DummyCarried
    <3> QED
      BY <3>3, <3>4 DEF a, b
  <2>4. FromSlaveOrder'
    BY <1>1, <2>3 DEF FromSlaveOrder, Sorted
  <2> QED
    BY <1>1, <2>4 DEF FromSlaveLink!vars
<1> QED
  BY <1>3, <1>4

\* process_spi_rx_buf: a dummy is dropped.
LEMMA ReceiveFromSlave ==
  ASSUME IInv, FromSlaveOrder, HostReceive
  PROVE  FromSlaveOrder' /\ UNCHANGED FromSlaveLink!vars
<1>1. /\ hostPc = "receive"
      /\ IF hostRx.if = "none" THEN hostPc' = "end" ELSE hostPc' = "put"
      /\ UNCHANGED <<fromSlave, loaded, toHost, hostGot, slaveSent, task, buf, hostRx>>
  BY DEF HostReceive, IsDummy, hostOut, slave, slaveIn, slaveSpi
<1>2. Prepared' = Prepared /\ HostHolds = One(hostRx)
  BY <1>1 DEF Prepared, HostHolds
<1>3. CASE hostRx.if # "none"
  <2>1. HostHolds' = HostHolds
    BY <1>1, <1>3 DEF HostHolds
  <2> QED
    BY <1>1, <1>2, <2>1, SameFromSlave
<1>4. CASE hostRx.if = "none"
  <2>1. HostHolds' = << >>
    BY <1>1, <1>4 DEF HostHolds
  <2>2. ASSUME NEW q \in Queues
        PROVE  Carried(TRUE, FromSlaveStages(q)', Mine(q), LastOf(hostGot[q]), slaveSent[q])
    <3> DEFINE s == fromSlave[q] w == loaded ++ (Prepared ++ toHost[q]) p == hostRx
               a == LastOf(hostGot[q]) b == slaveSent[q]
    <3>1. s \in Seq(OnWire) /\ w \in Seq(OnWire) /\ p \in OnWire /\ p.if \notin Mine(q)
      BY <1>4, FromSlaveTyped, BehindHeld, MineFacts
    <3>2. Carried(TRUE, s ++ (One(p) ++ w), Mine(q), a, b)
      BY <1>2 DEF FromSlaveOrder, FromSlaveStages
    <3>3. FromSlaveStages(q)' = s ++ (<< >> ++ w)
      BY <1>1, <1>2, <2>1 DEF FromSlaveStages
    <3> HIDE DEF s, w, p, a, b
    <3>4. Carried(TRUE, s ++ (<< >> ++ w), Mine(q), a, b)
      BY <3>1, <3>2, DummyCarried
    <3> QED
      BY <3>3, <3>4 DEF a, b
  <2> QED
    BY <1>1, <2>2 DEF FromSlaveOrder, Sorted, FromSlaveLink!vars
<1> QED
  BY <1>3, <1>4

\* process_spi_rx_buf: a packet is put into its queue.
LEMMA PutFromSlave ==
  ASSUME IInv, PutsPacket, FromSlaveOrder, HostPut
  PROVE  FromSlaveOrder' /\ UNCHANGED FromSlaveLink!vars
<1> DEFINE p == hostRx r == QueueOf(p.if)
<1>1. /\ fromSlave' = [fromSlave EXCEPT ![r] = Append(@, p)]
      /\ hostPc = "put" /\ hostPc' = "end"
      /\ UNCHANGED <<loaded, toHost, hostGot, slaveSent, task, buf>>
  BY DEF HostPut, slave, slaveIn, slaveSpi
<1>2. HostHolds = One(p) /\ HostHolds' = << >> /\ Prepared' = Prepared
  BY <1>1 DEF HostHolds, Prepared
<1>3. fromSlave \in [Queues -> Seq(OnWire)] /\ Sorted(fromSlave) /\ p \in OnWire
  BY FromSlaveTyped DEF FromSlaveOrder
<1>4. p.if \in Mine(r) /\ r \in Queues
  BY <1>1, MineFacts DEF PutsPacket
<1> HIDE DEF p, r
<1>5. /\ Sorted(fromSlave') /\ fromSlave'[r] = Append(fromSlave[r], p)
      /\ \A o \in Queues : o # r => fromSlave'[o] = fromSlave[o]
  <2> DEFINE g == fromSlave'
  <2>1. g = [fromSlave EXCEPT ![r] = Append(@, p)]
    BY <1>1
  <2> HIDE DEF g
  <2>2. /\ Sorted(g) /\ g[r] = Append(fromSlave[r], p)
        /\ \A o \in Queues : o # r => g[o] = fromSlave[o]
    BY <1>3, <1>4, <2>1, PutQueue
  <2> QED
    BY <2>2 DEF g
<1>6. ASSUME NEW q \in Queues
      PROVE  Carried(TRUE, FromSlaveStages(q)', Mine(q), LastOf(hostGot[q]), slaveSent[q])
  <2> DEFINE h == fromSlave[q] k == fromSlave'[q] w == loaded ++ (Prepared ++ toHost[q])
             a == LastOf(hostGot[q]) b == slaveSent[q]
  <2>1. /\ h \in Seq(OnWire) /\ w \in Seq(OnWire)
        /\ q = r => k = Append(h, p)
        /\ q # r => k = h
    BY <1>3, <1>5, BehindHeld
  <2>2. Carried(TRUE, h ++ (One(p) ++ w), Mine(q), a, b)
    BY <1>2 DEF FromSlaveOrder, FromSlaveStages
  <2>3. FromSlaveStages(q)' = k ++ (<< >> ++ w)
    BY <1>1, <1>2 DEF FromSlaveStages
  <2>4. p \in OnWire /\ p.if \in Mine(r)
    BY <1>3, <1>4
  <2> HIDE DEF h, k, w, a, b
  <2>5. Carried(TRUE, k ++ w, Mine(q), a, b)
    BY <2>1, <2>2, <2>4, PutFirst
  <2>6. << >> ++ w = w
    BY <2>1, JoinedEmpty
  <2> QED
    BY <2>3, <2>5, <2>6 DEF a, b
<1>7. FromSlaveOrder'
  BY <1>1, <1>5, <1>6 DEF FromSlaveOrder, Sorted
<1> QED
  BY <1>1, <1>7 DEF FromSlaveLink!vars

\* spi_process_rx_task
LEMMA HandFromSlave ==
  ASSUME IInv, FromSlaveOrder, HostRxTask
  PROVE  FromSlaveOrder' /\ FromSlaveLink!Next
<1> DEFINE r == FirstQueue(fromSlave)
           p == Head(fromSlave[r])
           y(q) == HostHolds ++ (loaded ++ (Prepared ++ toHost[q]))
<1>1. /\ fromSlave' = [fromSlave EXCEPT ![r] = Tail(@)] /\ fromSlaveSem > 0
      /\ hostGot' = [hostGot EXCEPT ![r] = Append(@, p.n)]
      /\ UNCHANGED <<toHost, loaded, slaveSent, hostPc, hostRx, task, buf>>
  BY DEF HostRxTask, hostThread, slave, slaveIn, slaveSpi
<1>2. fromSlave \in [Queues -> Seq(OnWire)] /\ Sorted(fromSlave)
  BY FromSlaveTyped DEF FromSlaveOrder
<1>3. r \in Queues /\ fromSlave[r] # << >>
  BY <1>1, QueuesCounted, FirstInQueues
<1>4. hostGot \in [Queues -> Seq(Nat)] /\ slaveSent \in [Queues -> Nat]
  BY FromSlaveTyped
<1> HIDE DEF r
<1>5. /\ Sorted(fromSlave') /\ fromSlave'[r] = Tail(fromSlave[r]) /\ p \in OnWire
      /\ p.if \in Mine(r) /\ \A q \in Queues : q # r => fromSlave'[q] = fromSlave[q]
  <2> DEFINE g == fromSlave'
  <2>1. g = [fromSlave EXCEPT ![r] = Tail(@)]
    BY <1>1
  <2> HIDE DEF g
  <2>2. g = [fromSlave EXCEPT ![r] = Tail(@)]
          => /\ Sorted(g) /\ g[r] = Tail(fromSlave[r])
             /\ \A o \in Queues : o # r => g[o] = fromSlave[o]
             /\ Head(fromSlave[r]) \in OnWire /\ Head(fromSlave[r]).if \in Mine(r)
    BY <1>2, <1>3, TakeQueue
  <2> QED
    BY <2>1, <2>2, Zenon DEF g
<1>6. HostHolds' = HostHolds /\ Prepared' = Prepared
  BY <1>1 DEF HostHolds, Prepared
<1>7. ASSUME NEW q \in Queues
      PROVE  /\ y(q) \in Seq(OnWire)
             /\ Carried(TRUE, fromSlave[q] ++ y(q), Mine(q), LastOf(hostGot[q]), slaveSent[q])
             /\ FromSlaveStages(q)' = fromSlave'[q] ++ y(q)
  <2> DEFINE w == loaded ++ (Prepared ++ toHost[q])
  <2>1. w \in Seq(OnWire)
    BY BehindHeld
  <2>2. HostHolds ++ w \in Seq(OnWire)
    <3>1. HostHolds \in Seq(OnWire)
      BY FromSlaveTyped
    <3> HIDE DEF w
    <3> QED
      BY <2>1, <3>1, Joined
  <2>3. FromSlaveStages(q)' = fromSlave'[q] ++ y(q)
    BY <1>1, <1>6 DEF FromSlaveStages
  <2>4. Carried(TRUE, FromSlaveStages(q), Mine(q), LastOf(hostGot[q]), slaveSent[q])
    BY DEF FromSlaveOrder
  <2> QED
    BY <2>2, <2>3, <2>4 DEF FromSlaveStages
<1> HIDE DEF y
<1>8. /\ p.n \in (LastOf(hostGot[r]) + 1)..slaveSent[r] /\ p.n \in Nat
      /\ p.n = LastOf(hostGot[r]) + 1
      /\ Carried(TRUE, Tail(fromSlave[r]) ++ y(r), Mine(r), p.n, slaveSent[r])
  <2> DEFINE s == fromSlave[r] t == y(r) a == LastOf(hostGot[r]) b == slaveSent[r]
  <2>1. s \in Seq(OnWire) /\ t \in Seq(OnWire) /\ s # << >> /\ a \in Nat /\ b \in Nat
    BY <1>2, <1>3, <1>7, FromSlaveTyped
  <2>2. Carried(TRUE, s ++ t, Mine(r), a, b) /\ Head(s).if \in Mine(r)
    BY <1>3, <1>5, <1>7
  <2> HIDE DEF s, t, a, b
  <2>3. /\ Head(s).n \in (a + 1)..b /\ Head(s).n \in Nat
        /\ Head(s).n = a + 1
        /\ Carried(TRUE, Tail(s) ++ t, Mine(r), Head(s).n, b)
    BY <2>1, <2>2, OnWireNumbered, HandCarried
  <2> QED
    BY <2>3 DEF s, t, a, b
<1> DEFINE n == p.n
<1>9. n \in Nat /\ hostGot' = [hostGot EXCEPT ![r] = Append(@, n)]
  BY <1>1, <1>8
<1>10. \A q \in Queues : LastOf(hostGot'[q]) = IF q = r THEN n ELSE LastOf(hostGot[q])
  <2> HIDE DEF n
  <2>1. LastOf(Append(hostGot[r], n)) = n
    <3>1. hostGot[r] \in Seq(Nat)
      BY <1>3, <1>4
    <3> QED
      BY <1>9, <3>1, LastFacts
  <2>2. \A q \in Queues : hostGot'[q] = IF q = r THEN Append(hostGot[q], n) ELSE hostGot[q]
    BY <1>4, <1>9
  <2> QED
    BY <2>1, <2>2
<1>11. ASSUME NEW q \in Queues
       PROVE  Carried(TRUE, FromSlaveStages(q)', Mine(q), LastOf(hostGot'[q]), slaveSent[q])
  <2>1. CASE q = r
    <3>1. FromSlaveStages(q)' = Tail(fromSlave[r]) ++ y(r) /\ LastOf(hostGot'[q]) = p.n
      BY <1>5, <1>7, <1>10, <2>1
    <3> QED
      BY <1>8, <2>1, <3>1
  <2>2. CASE q # r
    <3>1. FromSlaveStages(q)' = fromSlave[q] ++ y(q) /\ LastOf(hostGot'[q]) = LastOf(hostGot[q])
      BY <1>5, <1>7, <1>10, <2>2
    <3> QED
      BY <1>7, <3>1
  <2> QED
    BY <2>1, <2>2
<1>12. FromSlaveOrder'
  BY <1>1, <1>5, <1>11 DEF FromSlaveOrder, Sorted
<1>13. FromSlaveLink!Deliver(r)
  <2>1. FromSlaveLink!Last(hostGot[r]) = LastOf(hostGot[r])
    BY DEF FromSlaveLink!Last, LastOf
  <2> QED
    BY <1>1, <1>8, <2>1 DEF FromSlaveLink!Deliver
<1> QED
  BY <1>3, <1>12, <1>13 DEF FromSlaveLink!Next
-----------------------------------------------------------------------------
(* What the order of the packets for the host rests on.                     *)

LEMMA StepPutsPacket ==
  ASSUME IInv, PutsPacket, [Next]_vars
  PROVE  PutsPacket'
<1>1. ASSUME hostPc' # "put" \/ UNCHANGED <<hostPc, hostRx>> PROVE PutsPacket'
  BY <1>1 DEF PutsPacket
<1> USE DEF hostIn, hostThread, hostOut, host
<1>2. CASE \E q \in Queues : HostQueue(q) \/ HostCount(q) \/ HostSignal(q)
  BY <1>1, <1>2 DEF HostQueue, HostCount, HostSignal
<1>3. CASE HsIsr \/ DrIsr \/ CsIsr
  BY <1>1, <1>3 DEF HsIsr, DrIsr, CsIsr
<1>4. CASE HostTask
  <2>1. CASE HostReceive
    <3>1. hostRx.if = "none" \/ hostRx.if \in Interfaces
      BY FromSlaveTyped DEF OnWire, Interfaces
    <3> QED
      BY <2>1, <3>1 DEF HostReceive, IsDummy, PutsPacket
  <2>2. CASE HostWake \/ HostReadDr \/ HostSendPacket \/ HostSendDummy \/ HostIgnore
    BY <1>1, <2>2 DEF HostWake, HostReadDr, HostSendPacket, HostSendDummy, HostIgnore
  <2>3. CASE Transfer \/ DeassertCs \/ HostPut \/ HostEnd
    BY <1>1, <2>3 DEF Transfer, DeassertCs, HostPut, HostEnd
  <2> QED
    BY <1>4, <2>1, <2>2, <2>3 DEF HostTask
<1>5. CASE HostRxTask
  BY <1>1, <1>5 DEF HostRxTask
<1>6. CASE \E i \in Writers : SlaveWrite(i)
  BY <1>1, <1>6 DEF SlaveWrite
<1>7. ASSUME NEW t, Sender(t) \/ Loader(t) PROVE PutsPacket'
  BY <1>1, <1>7 DEF Sender, SlaveCount, TestDr, RaiseDr, SetFlag, Loader, LoadPacket,
                    LoadNothing, LowerDr, ClearFlag, LoadDummy, QueueTransaction
<1>8. CASE SlaveStartup \/ PostGet \/ PostWaitCs \/ PostReceive \/ SlaveRead
  BY <1>1, <1>8 DEF SlaveStartup, PostGet, PostWaitCs, PostReceive, SlaveRead
<1>9. CASE UNCHANGED vars
  BY <1>1, <1>9 DEF vars
<1> QED
  BY <1>2, <1>3, <1>4, <1>5, <1>6, <1>7, <1>8, <1>9 DEF Next, WriterTask, ResetTask, PostTask

LEMMA StepBootAlone ==
  ASSUME MaxStartups <= 1, IInv, BootAlone, [Next]_vars
  PROVE  BootAlone'
<1>1. ASSUME UNCHANGED <<startups, loaded, results>>,
             task'["reset"] = task["reset"], task'["post"] = task["post"]
      PROVE  BootAlone'
  BY <1>1 DEF BootAlone
<1>2. task \in [(Writers \cup {"reset", "post"}) ->
                  SenderLabels \cup LoaderLabels \cup {"waitCs", "receive"}]
  BY FromSlaveTyped
<1>3. startups \in 0..MaxStartups /\ MaxStartups \in Nat
  BY BoundsAssumption DEF IInv, TypeOK, SlaveOK
<1>4. startups = 0 \/ task["reset"] # "idle"
        => loaded = << >> /\ results = << >> /\ task["post"] = "idle"
  BY DEF BootAlone
\* Steps of the host, of the writers, of recv_task and of the interrupts.
<1>5. ASSUME UNCHANGED <<task, startups, loaded, results>> PROVE BootAlone'
  BY <1>1, <1>5
<1>6. ASSUME NEW i \in Writers, NEW l, task' = [task EXCEPT ![i] = l],
             UNCHANGED <<startups, loaded, results>>
      PROVE  BootAlone'
  BY <1>1, <1>2, <1>6 DEF Writers
\* A step of host_reset_task, which is at work, that leaves the SPI driver alone.
<1>7. ASSUME NEW l, task["reset"] # "idle", task' = [task EXCEPT !["reset"] = l],
             UNCHANGED <<startups, loaded, results>>
      PROVE  BootAlone'
  BY <1>2, <1>4, <1>7 DEF BootAlone
\* A step of the post-process task, which has something to do.
<1>8. ASSUME NEW l, task["post"] # "idle" \/ results # << >>,
             task' = [task EXCEPT !["post"] = l], UNCHANGED startups
      PROVE  BootAlone'
  BY <1>2, <1>4, <1>8 DEF BootAlone
<1> USE DEF hostIn, hostThread, hostOut, host, pins, cs, slaveIn, slaveSpi, slaveOut, slave, Goto
<1>9. CASE \E q \in Queues : HostQueue(q) \/ HostCount(q) \/ HostSignal(q)
  BY <1>5, <1>9 DEF HostQueue, HostCount, HostSignal
<1>10. CASE HsIsr \/ DrIsr \/ CsIsr \/ HostRxTask \/ SlaveRead
  BY <1>5, <1>10 DEF HsIsr, DrIsr, CsIsr, HostRxTask, SlaveRead
<1>11. CASE HostTask
  <2>1. CASE Transfer
    <3>1. startups' = startups /\ task' = task
      BY <2>1 DEF Transfer
    <3>2. CASE loaded = << >>
      BY <1>1, <2>1, <3>1, <3>2 DEF Transfer
    <3>3. CASE loaded # << >>
      <4>1. startups # 0 /\ task["reset"] = "idle"
        BY <1>4, <3>3
      <4> QED
        BY <3>1, <4>1 DEF BootAlone
    <3> QED
      BY <3>2, <3>3
  <2>2. CASE HostWake \/ HostReadDr \/ HostSendPacket \/ HostSendDummy \/ HostIgnore
    BY <1>5, <2>2 DEF HostWake, HostReadDr, HostSendPacket, HostSendDummy, HostIgnore
  <2>3. CASE DeassertCs \/ HostReceive \/ HostPut \/ HostEnd
    BY <1>5, <2>3 DEF DeassertCs, HostReceive, HostPut, HostEnd
  <2> QED
    BY <1>11, <2>1, <2>2, <2>3 DEF HostTask
<1>12. CASE \E i \in Writers : WriterTask(i)
  <2>1. CASE \E i \in Writers : SlaveWrite(i)
    BY <1>6, <2>1 DEF SlaveWrite
  <2>2. CASE \E i \in Writers : Sender(i)
    BY <1>6, <2>2 DEF Sender, SlaveCount, TestDr, RaiseDr, SetFlag
  <2> QED
    BY <1>12, <2>1, <2>2 DEF WriterTask
<1>13. CASE SlaveStartup
  <2>1. /\ task["reset"] = "idle" /\ task' = [task EXCEPT !["reset"] = "count"]
        /\ startups' = startups + 1 /\ startups < MaxStartups
        /\ UNCHANGED <<loaded, results>>
    BY <1>13 DEF SlaveStartup
  <2>2. startups = 0 /\ startups' = 1
    BY <1>3, <2>1
  <2> QED
    BY <1>2, <1>4, <2>1, <2>2 DEF BootAlone
<1>14. CASE Sender("reset")
  BY <1>7, <1>14 DEF Sender, SlaveCount, TestDr, RaiseDr, SetFlag
<1>15. CASE Loader("reset")
  <2>1. CASE QueueTransaction("reset")
    <3>1. startups' = startups /\ task["reset"] = "queue"
          /\ task' = [task EXCEPT !["reset"] = "idle"]
      BY <2>1 DEF QueueTransaction
    <3>2. startups # 0 /\ task'["reset"] = "idle"
      BY <1>2, <3>1 DEF BootAlone
    <3> QED
      BY <3>1, <3>2 DEF BootAlone
  <2>2. CASE LoadPacket("reset") \/ LoadNothing("reset") \/ LowerDr("reset")
                \/ ClearFlag("reset") \/ LoadDummy("reset")
    BY <1>7, <2>2 DEF LoadPacket, LoadNothing, LowerDr, ClearFlag, LoadDummy
  <2> QED
    BY <1>15, <2>1, <2>2 DEF Loader
<1>16. CASE PostTask
  <2>1. CASE Loader("post")
    <3>1. CASE QueueTransaction("post")
      BY <1>8, <3>1 DEF QueueTransaction
    <3>2. CASE LoadPacket("post") \/ LoadNothing("post") \/ LowerDr("post")
                  \/ ClearFlag("post") \/ LoadDummy("post")
      BY <1>8, <3>2 DEF LoadPacket, LoadNothing, LowerDr, ClearFlag, LoadDummy
    <3> QED
      BY <2>1, <3>1, <3>2 DEF Loader
  <2>2. CASE PostGet \/ PostWaitCs \/ PostReceive
    BY <1>8, <2>2 DEF PostGet, PostWaitCs, PostReceive
  <2> QED
    BY <1>16, <2>1, <2>2 DEF PostTask
<1>17. CASE UNCHANGED vars
  BY <1>5, <1>17 DEF vars
<1> QED
  BY <1>9, <1>10, <1>11, <1>12, <1>13, <1>14, <1>15, <1>16, <1>17 DEF Next, ResetTask

LEMMA StepFromSlave ==
  ASSUME IInv, BootAlone, PutsPacket, FromSlaveOrder, [Next]_vars
  PROVE  FromSlaveOrder' /\ [FromSlaveLink!Next]_FromSlaveLink!vars
<1> DEFINE Kept == UNCHANGED <<fromSlave, loaded, toHost, hostGot, slaveSent>>
           Holding == {"deassert", "receive", "put"}
           Done == FromSlaveOrder' /\ UNCHANGED FromSlaveLink!vars
<1>1. ASSUME Kept, UNCHANGED <<task, buf>>,
             \/ UNCHANGED <<hostPc, hostRx>>
             \/ hostPc \notin Holding /\ hostPc' \notin Holding
             \/ hostPc \in Holding /\ hostPc' \in Holding /\ hostRx' = hostRx
      PROVE  Done
  <2>1. HostHolds' = HostHolds /\ Prepared' = Prepared
    BY <1>1 DEF HostHolds, Prepared
  <2> QED
    BY <1>1, <2>1, SameFromSlave
<1>2. ASSUME Kept, UNCHANGED <<hostPc, hostRx, buf>>,
             NEW t \in (Writers \cup {"reset", "post"}), task[t] # "queue",
             NEW l, l # "queue", task' = [task EXCEPT ![t] = l]
      PROVE  Done
  <2>1. HostHolds' = HostHolds /\ Prepared' = Prepared
    BY <1>2, SamePrepared DEF HostHolds
  <2> QED
    BY <1>2, <2>1, SameFromSlave
<1> HIDE DEF Done
<1> USE DEF hostIn, hostThread, hostOut, host, pins, cs, slaveIn, slaveSpi, slaveOut, slave, Goto
<1>3. CASE \E q \in Queues : HostQueue(q) \/ HostCount(q) \/ HostSignal(q)
  BY <1>1, <1>3 DEF HostQueue, HostCount, HostSignal, Done
<1>4. CASE HsIsr \/ DrIsr \/ CsIsr \/ SlaveRead
  BY <1>1, <1>4 DEF HsIsr, DrIsr, CsIsr, SlaveRead, Done
<1>5. CASE HostTask
  <2>1. CASE HostWake \/ HostReadDr \/ HostSendPacket \/ HostSendDummy \/ HostIgnore
    BY <1>1, <2>1 DEF HostWake, HostReadDr, HostSendPacket, HostSendDummy, HostIgnore, Done
  <2>2. CASE DeassertCs \/ HostEnd
    BY <1>1, <2>2 DEF DeassertCs, HostEnd, Done
  <2> QED
    BY <1>5, <2>1, <2>2, TransferFromSlave, ReceiveFromSlave, PutFromSlave DEF HostTask
<1>6. CASE SlaveStartup \/ \E interface \in {"serial", "sta"} : SlaveWrite(interface)
  <2>1. CASE SlaveStartup
    <3>1. /\ PutToHost("priv") /\ task' = [task EXCEPT !["reset"] = "count"]
          /\ task["reset"] = "idle" /\ UNCHANGED <<fromSlave, loaded, hostGot>>
          /\ UNCHANGED <<hostPc, hostRx, buf>>
      BY <2>1 DEF SlaveStartup
    <3>2. HostHolds' = HostHolds /\ Prepared' = Prepared /\ "priv" \in Interfaces
      BY <3>1, SamePrepared DEF HostHolds, Interfaces
    <3> QED
      BY <3>1, <3>2, AcceptFromSlave
  <2>2. ASSUME NEW interface \in {"serial", "sta"}, SlaveWrite(interface)
        PROVE  FromSlaveOrder' /\ FromSlaveLink!Next
    <3>1. /\ PutToHost(interface) /\ task' = [task EXCEPT ![interface] = "testDr"]
          /\ task[interface] = "idle" /\ UNCHANGED <<fromSlave, loaded, hostGot>>
          /\ UNCHANGED <<hostPc, hostRx, buf>>
      BY <2>2 DEF SlaveWrite
    <3>2. /\ interface \in Writers \cup {"reset", "post"} /\ interface # "reset"
          /\ interface # "post" /\ interface \in Interfaces
      BY DEF Writers, Interfaces
    <3>3. HostHolds' = HostHolds /\ Prepared' = Prepared
      BY <3>1, <3>2, SamePrepared DEF HostHolds
    <3> QED
      BY <3>1, <3>2, <3>3, AcceptFromSlave
  <2> QED
    BY <1>6, <2>1, <2>2
<1>7. ASSUME NEW t \in (Writers \cup {"reset", "post"}), Sender(t) PROVE Done
  <2>1. CASE SlaveCount(t) \/ RaiseDr(t)
    BY <1>2, <2>1 DEF SlaveCount, RaiseDr
  <2>2. CASE TestDr(t) \/ SetFlag(t)
    BY <1>2, <2>2 DEF TestDr, SetFlag, AfterDr
  <2> QED
    BY <1>7, <2>1, <2>2 DEF Sender
<1>8. ASSUME NEW t \in {"reset", "post"}, Loader(t) PROVE Done
  <2>1. CASE LoadNothing(t) \/ LowerDr(t) \/ ClearFlag(t)
    BY <1>2, <2>1 DEF LoadNothing, LowerDr, ClearFlag
  <2> QED
    BY <1>8, <2>1, TakeFromSlave, DummyFromSlave, QueueFromSlave DEF Loader, Done
<1>9. CASE PostGet \/ PostWaitCs \/ PostReceive
  BY <1>2, <1>9 DEF PostGet, PostWaitCs, PostReceive, Done
<1>10. CASE UNCHANGED vars
  BY <1>1, <1>10 DEF vars, Done
<1> QED
  BY <1>3, <1>4, <1>5, <1>6, <1>7, <1>8, <1>9, <1>10, HandFromSlave
  DEF Next, WriterTask, Writers, ResetTask, PostTask, Done

-----------------------------------------------------------------------------
LEMMA InitOrder ==
  Init => /\ ToSlaveOrder /\ FromSlaveOrder /\ PutsPacket /\ BootAlone
          /\ ToSlaveLink!Init /\ FromSlaveLink!Init
<1> SUFFICES ASSUME Init
             PROVE  /\ ToSlaveOrder /\ FromSlaveOrder /\ PutsPacket /\ BootAlone
                    /\ ToSlaveLink!Init /\ FromSlaveLink!Init
  OBVIOUS
<1>1. FromSlaveLink!Init /\ ToSlaveLink!Init
  BY DEF Init, FromSlaveLink!Init, ToSlaveLink!Init
<1>2. /\ hostPc = "wait" /\ loaded = << >> /\ results = << >>
      /\ task["reset"] = "idle" /\ task["post"] = "idle"
      /\ \A q \in Queues :
            /\ fromSlave[q] = << >> /\ toSlave[q] = << >>
            /\ fromHost[q] = << >> /\ toHost[q] = << >>
            /\ hostGot[q] = << >> /\ slaveGot[q] = << >>
            /\ hostSent[q] = 0 /\ slaveSent[q] = 0
  BY DEF Init
<1>3. << >> ++ << >> = << >>
  <2>1. << >> \in Seq(Nat)
    OBVIOUS
  <2> QED
    BY <2>1, JoinedEmpty
<1>4. HostSends = << >> /\ HostHolds = << >> /\ Prepared = << >>
  BY <1>2 DEF HostSends, HostHolds, Prepared
<1>5. \A q \in Queues : FromSlaveStages(q) = << >> /\ ToSlaveStages(q) = << >>
  BY <1>2, <1>3, <1>4, Zenon DEF FromSlaveStages, ToSlaveStages
<1>6. LastOf(<< >>) = 0
  BY DEF LastOf
<1>7. \A w, ifs : Carried(w, << >>, ifs, 0, 0)
  BY DEF Carried, InOrder, Complete
<1>8. Sorted(fromSlave) /\ Sorted(toSlave) /\ Sorted(fromHost) /\ Sorted(toHost)
  BY <1>2 DEF Sorted
<1>9. FromSlaveOrder
  BY <1>2, <1>5, <1>6, <1>7, <1>8 DEF FromSlaveOrder
<1>10. ToSlaveOrder
  BY <1>2, <1>5, <1>6, <1>7, <1>8 DEF ToSlaveOrder, NothingSkipped
<1>11. PutsPacket /\ BootAlone
  BY <1>2 DEF PutsPacket, BootAlone
<1> QED
  BY <1>1, <1>9, <1>10, <1>11

\* From the host to the co-processor the link implements OrderedLink, whatever the
\* number of startup events and however late the edges of CS are served: no packet is
\* repeated or overtaken between esp_hosted_tx and recv_task, and until the
\* interrupt has missed an edge of CS (gpio_disable_hs_isr_handler) none is lost.
THEOREM ToSlaveLinkHolds == Spec => ToSlaveLink!Spec /\ [](csMissed = 0 => NothingSkipped)
<1>1. IInv /\ ToSlaveOrder /\ [Next]_vars
        => ToSlaveOrder' /\ [ToSlaveLink!Next]_ToSlaveLink!vars
  BY StepToSlave
<1>2. ToSlaveOrder => (csMissed = 0 => NothingSkipped)
  BY DEF ToSlaveOrder, Whole
<1> QED
  BY <1>1, <1>2, InitOrder, Inductive, PTL DEF Spec, ToSlaveLink!Spec

\* With the one startup event of the boot, the link implements OrderedLink in both
\* directions, however its nine tasks and the interrupts interleave (esp_hosted_tx to
\* recv_task, esp_spi_write and generate_startup_event to spi_process_rx_task).  With
\* a second one, host_reset_task and the post-process task load transactions side by
\* side and the packets of one queue overtake each other.
THEOREM LinkOrderedHolds ==
  ASSUME MaxStartups <= 1
  PROVE  Spec => LinkOrdered
<1>1. IInv /\ BootAlone /\ PutsPacket /\ FromSlaveOrder /\ [Next]_vars
        => /\ BootAlone' /\ PutsPacket' /\ FromSlaveOrder'
           /\ [FromSlaveLink!Next]_FromSlaveLink!vars
  BY StepBootAlone, StepPutsPacket, StepFromSlave
<1>2. Spec => FromSlaveLink!Spec
  BY <1>1, InitOrder, Inductive, PTL DEF Spec, FromSlaveLink!Spec
<1> QED
  BY <1>2, ToSlaveLinkHolds, PTL DEF LinkOrdered
=============================================================================

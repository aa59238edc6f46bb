------------------------------- MODULE SpiLink -------------------------------
(***************************************************************************)
(* The full-duplex SPI link: the host's spi_drv.c, the co-processor's      *)
(* spi_slave_api.c and the four signals between them.                      *)
(*                                                                         *)
(* The co-processor always has a transaction queued with its SPI driver: a *)
(* packet for the host, or a dummy.  The handshake pin (HS) says that one  *)
(* is set up, the data-ready pin (DR) that packets wait.  The host starts a *)
(* transfer only when it sees HS, and both sides receive what the other    *)
(* had to send.  The driver is built with HS_DEASSERT_ON_CS, the default.  *)
(*                                                                         *)
(* A packet is its interface and its number in the queue it goes through.  *)
(* Of the three priority queues of each direction two are modelled.        *)
(*                                                                         *)
(* A definition whose name ends in _<Word> is the definition after it with *)
(* one mistake; Spec does not use it.                                      *)
(***************************************************************************)
EXTENDS Integers, Sequences

CONSTANTS
    HostMax,      \* BOUND: packets the host sends, by queue
    SlaveMax,     \* BOUND: packets the co-processor sends, startup events included, by queue
    MaxStartups,  \* BOUND: startup events, one at boot and one per wake-up
    SendEarly,    \* BOUND: whether packets are sent before the first startup event arrives
    MaxMissed,    \* BOUND: edges of CS the co-processor's interrupt misses
    ToSlaveSize,  \* TO_SLAVE_QUEUE_SIZE
    FromSlaveSize,\* FROM_SLAVE_QUEUE_SIZE
    SpiTxSize,    \* SPI_TX_QUEUE_SIZE of the co-processor
    SpiRxSize,    \* SPI_RX_QUEUE_SIZE of the co-processor
    SpiQueueSize, \* SPI_QUEUE_SIZE: transactions its SPI driver can hold
    ThrottleHigh, ThrottleLow   \* slv_cfg_g.throttle_*_threshold, in percent

Queues == {"serial", "others"}
QueueOf(interface) == IF interface = "serial" THEN "serial" ELSE "others"

\* Every interface of the co-processor has a task of its own that sends through it.
Writers == {"serial", "sta"}

ASSUME BoundsAssumption ==
    /\ HostMax \in [Queues -> Nat] /\ SlaveMax \in [Queues -> Nat]
    /\ MaxStartups \in Nat /\ SendEarly \in BOOLEAN /\ MaxMissed \in Nat

ASSUME SizesAssumption ==
    /\ {ToSlaveSize, FromSlaveSize, SpiTxSize, SpiRxSize, SpiQueueSize} \subseteq Nat \ {0}
    /\ ThrottleHigh \in 0..100 /\ ThrottleLow \in 0..100

VARIABLES
    \* host
    hostSent,     \* packets handed to esp_hosted_tx, by queue
    hostWriter,   \* where the task that sends through each queue is
    toSlave, toSlaveSem,        \* to_slave_queue, sem_to_slave_queue
    transReady,   \* spi_trans_ready_sem
    drLatch,      \* dr_isr_triggered
    dummyTx, dummyRx,           \* schedule_dummy_tx, schedule_dummy_rx
    throttled,    \* wifi_tx_throttling
    hostPc, hsSeen, drSeen, hostTx, hostRx,  \* spi_transaction_task and its locals
    fromSlave, fromSlaveSem,    \* from_slave_queue, sem_from_slave_queue
    hostGot,      \* packets the rx task has processed, by queue
    \* signals
    hsPin, drPin, hsEdge, drEdge,            \* levels, and interrupts not yet served
    csEdge,       \* the CS interrupt of the co-processor, not yet served
    csMissed,     \* history: how often CS changed again before it was served
    \* co-processor
    slaveSent,    \* packets written, by queue
    startups,
    task, buf,    \* where each task is, and the tx buffer it prepares
    toHost, spiTxSem,           \* spi_tx_queue, spi_tx_sem
    drFlag,       \* data_ready_flag
    loaded,       \* transactions with the SPI driver, the first one set up
    results,      \* finished transactions: what the host sent in each
    csSem,        \* wait_cs_deassert_sem
    fromHost, spiRxSem,         \* spi_rx_queue, spi_rx_sem
    slaveGot,     \* packets recv_task has read, by queue
    throttling    \* slv_state_g.current_throttling

hostIn == <<hostSent, hostWriter, toSlave, toSlaveSem>>
hostThread == <<dummyTx, hostPc, hsSeen, drSeen, hostTx, hostRx>>
hostOut == <<fromSlave, fromSlaveSem, hostGot>>
slaveIn == <<slaveSent, startups, toHost, spiTxSem>>
slaveSpi == <<loaded, results, csSem>>
slaveOut == <<fromHost, spiRxSem, slaveGot>>
host == <<hostIn, transReady, drLatch, dummyRx, throttled, hostThread, hostOut>>
slave == <<slaveIn, task, buf, drFlag, slaveSpi, slaveOut, throttling>>
cs == <<csEdge, csMissed>>
pins == <<hsPin, drPin, hsEdge, drEdge, cs>>
vars == <<host, pins, slave>>

Packet(interface, n) == [if |-> interface, n |-> n, throttle |-> FALSE]
\* The header of a dummy is the only one that carries throttle_cmd.
Dummy(throttle) == [if |-> "none", n |-> 0, throttle |-> throttle]
IsDummy(packet) == packet.if = "none"

\* The queue the get_next_tx_buffer and read functions take from.
FirstQueue(queues) == IF queues["serial"] # << >> THEN "serial" ELSE "others"

\* transport_drv_reconfigure waits for the startup event before anybody sends.
MaySend == SendEarly \/ hostGot["others"] # << >>

\* Raising a pin that is low interrupts the host.
RaiseHs == hsPin' = TRUE /\ hsEdge' = (hsEdge \/ ~hsPin)

Init ==
    /\ hostSent = [q \in Queues |-> 0]
    /\ hostWriter = [q \in Queues |-> "idle"]
    /\ toSlave = [q \in Queues |-> << >>] /\ toSlaveSem = 0
    \* hosted_create_semaphore gives it, bus_init_internal does not take it
    /\ transReady = TRUE
    /\ drLatch = FALSE /\ dummyTx = FALSE /\ dummyRx = FALSE /\ throttled = FALSE
    /\ hostPc = "wait" /\ hsSeen = FALSE /\ drSeen = FALSE
    /\ hostTx = Dummy(FALSE) /\ hostRx = Dummy(FALSE)
    /\ fromSlave = [q \in Queues |-> << >>] /\ fromSlaveSem = 0
    /\ hostGot = [q \in Queues |-> << >>]
    /\ hsPin = FALSE /\ drPin = FALSE /\ hsEdge = FALSE /\ drEdge = FALSE
    /\ csEdge = FALSE /\ csMissed = 0
    /\ slaveSent = [q \in Queues |-> 0] /\ startups = 0
    /\ task = [t \in Writers \cup {"reset", "post"} |-> "idle"]
    /\ buf = [t \in {"reset", "post"} |-> Dummy(FALSE)]
    /\ toHost = [q \in Queues |-> << >>] /\ spiTxSem = 0
    /\ drFlag = FALSE
    /\ loaded = << >> /\ results = << >> /\ csSem = FALSE
    /\ fromHost = [q \in Queues |-> << >>] /\ spiRxSem = 0
    /\ slaveGot = [q \in Queues |-> << >>] /\ throttling = FALSE

-----------------------------------------------------------------------------
(* The host's senders: esp_hosted_tx, and transport_drv_sta_tx before it.   *)

\* A station frame is dropped before it gets here while the link is throttled;
\* the put waits while the queue is full.
HostQueue(q) ==
    /\ MaySend /\ hostWriter[q] = "idle" /\ hostSent[q] < HostMax[q]
    /\ q = "others" => ~throttled
    /\ Len(toSlave[q]) < ToSlaveSize
    /\ hostSent' = [hostSent EXCEPT ![q] = @ + 1]
    /\ toSlave' = [toSlave EXCEPT
           ![q] = Append(@, Packet(IF q = "serial" THEN "serial" ELSE "sta", hostSent[q] + 1))]
    /\ hostWriter' = [hostWriter EXCEPT ![q] = "count"]
    /\ UNCHANGED <<toSlaveSem, transReady, drLatch, dummyRx, throttled, hostThread,
                   hostOut, pins, slave>>

HostCount(q) ==
    /\ hostWriter[q] = "count"
    /\ toSlaveSem' = toSlaveSem + 1
    /\ hostWriter' = [hostWriter EXCEPT ![q] = "signal"]
    /\ UNCHANGED <<hostSent, toSlave, transReady, drLatch, dummyRx, throttled,
                   hostThread, hostOut, pins, slave>>

HostSignal(q) ==
    /\ hostWriter[q] = "signal"
    /\ transReady' = TRUE
    /\ hostWriter' = [hostWriter EXCEPT ![q] = "idle"]
    /\ UNCHANGED <<hostSent, toSlave, toSlaveSem, drLatch, dummyRx, throttled,
                   hostThread, hostOut, pins, slave>>

-----------------------------------------------------------------------------
(* The host's interrupts.                                                   *)

HsIsr ==
    /\ hsEdge
    /\ hsEdge' = FALSE /\ transReady' = TRUE
    /\ UNCHANGED <<hostIn, drLatch, dummyRx, throttled, hostThread, hostOut,
                   hsPin, drPin, drEdge, cs, slave>>

DrIsr ==
    /\ drEdge
    /\ drEdge' = FALSE /\ transReady' = TRUE /\ drLatch' = TRUE
    /\ UNCHANGED <<hostIn, dummyRx, throttled, hostThread, hostOut,
                   hsPin, drPin, hsEdge, cs, slave>>

-----------------------------------------------------------------------------
(* spi_transaction_task and check_and_execute_spi_transaction.              *)

HostWake ==
    /\ hostPc = "wait" /\ transReady
    /\ transReady' = FALSE
    /\ hsSeen' = hsPin
    /\ hostPc' = "readDr"
    /\ UNCHANGED <<hostIn, drLatch, dummyTx, dummyRx, throttled, drSeen, hostTx,
                   hostRx, hostOut, pins, slave>>

DataReadySeen == drPin \/ drLatch

HostReadDr_IgnoresHs ==
    /\ hostPc = "readDr"
    /\ drSeen' = DataReadySeen
    /\ hostPc' = "decide"
    /\ UNCHANGED <<hostIn, transReady, drLatch, dummyTx, dummyRx, throttled, hsSeen,
                   hostTx, hostRx, hostOut, pins, slave>>
HostReadDr ==
    /\ hostPc = "readDr"
    /\ drSeen' = DataReadySeen
    /\ hostPc' = IF hsSeen THEN "decide" ELSE "end"
    /\ UNCHANGED <<hostIn, transReady, drLatch, dummyTx, dummyRx, throttled, hsSeen,
                   hostTx, hostRx, hostOut, pins, slave>>

\* An edge of CS interrupts the co-processor; with the interrupt of the edge before
\* still to be served, the two become one.
ChangeCs ==
    /\ csEdge => csMissed < MaxMissed
    /\ csMissed' = IF csEdge THEN csMissed + 1 ELSE csMissed
    /\ csEdge' = TRUE

\* get_next_tx_buffer finds a packet, which is always sent.
HostSendPacket ==
    /\ hostPc = "decide" /\ toSlaveSem > 0
    /\ LET q == FirstQueue(toSlave)
       IN /\ hostTx' = Head(toSlave[q])
          /\ toSlave' = [toSlave EXCEPT ![q] = Tail(@)]
    /\ toSlaveSem' = toSlaveSem - 1
    /\ dummyTx' = TRUE
    /\ ChangeCs
    /\ drSeen' = FALSE /\ hostPc' = "transfer"
    /\ UNCHANGED <<hostSent, hostWriter, transReady, drLatch, dummyRx, throttled,
                   hsSeen, hostRx, hostOut, hsPin, drPin, hsEdge, drEdge, slave>>

\* Nothing to send, but a reason to transfer.
HostSendDummy ==
    /\ hostPc = "decide" /\ toSlaveSem = 0
    /\ drSeen \/ dummyTx \/ dummyRx
    /\ hostTx' = Dummy(FALSE)
    /\ dummyTx' = FALSE
    /\ ChangeCs
    /\ drSeen' = FALSE /\ hostPc' = "transfer"
    /\ UNCHANGED <<hostIn, transReady, drLatch, dummyRx, throttled, hsSeen, hostRx,
                   hostOut, hsPin, drPin, hsEdge, drEdge, slave>>

HostIgnore ==
    /\ hostPc = "decide" /\ toSlaveSem = 0
    /\ ~(drSeen \/ dummyTx \/ dummyRx)
    /\ drSeen' = FALSE /\ hostPc' = "end"
    /\ UNCHANGED <<hostIn, transReady, drLatch, dummyTx, dummyRx, throttled, hsSeen,
                   hostTx, hostRx, hostOut, pins, slave>>

\* The bytes are exchanged.  The co-processor's SPI driver hands the finished
\* transaction over and sets up the next one it holds.  With none set up what
\* the host sends is lost and it receives nothing.
Transfer ==
    /\ hostPc = "transfer"
    /\ IF loaded = << >>
         THEN /\ hostRx' = Dummy(FALSE)
              /\ UNCHANGED <<loaded, results, hsPin, hsEdge>>
         ELSE /\ hostRx' = Head(loaded)
              /\ loaded' = Tail(loaded)
              /\ results' = Append(results, hostTx)
              /\ IF Tail(loaded) # << >> THEN RaiseHs ELSE UNCHANGED <<hsPin, hsEdge>>
    /\ hostTx' = Dummy(FALSE)
    /\ hostPc' = "deassert"
    /\ UNCHANGED <<hostIn, transReady, drLatch, dummyTx, dummyRx, throttled, hsSeen,
                   drSeen, hostOut, drPin, drEdge, cs, slaveIn, task, buf, drFlag, csSem,
                   slaveOut, throttling>>

DeassertCs ==
    /\ hostPc = "deassert"
    /\ ChangeCs
    /\ hostPc' = "receive"
    /\ UNCHANGED <<hostIn, transReady, drLatch, dummyTx, dummyRx, throttled, hsSeen,
                   drSeen, hostTx, hostRx, hostOut, hsPin, drPin, hsEdge, drEdge, slave>>

\* gpio_disable_hs_isr_handler looks at the level CS has when it runs: low, it
\* clears the handshake; high, it gives wait_cs_deassert_sem.
CsLow == hostPc \in {"transfer", "deassert"}
CsIsr ==
    /\ csEdge
    /\ csEdge' = FALSE
    /\ IF CsLow THEN hsPin' = FALSE /\ csSem' = csSem
                 ELSE hsPin' = hsPin /\ csSem' = TRUE
    /\ UNCHANGED <<host, drPin, hsEdge, drEdge, csMissed, slaveIn, task, buf, drFlag,
                   loaded, results, slaveOut, throttling>>

\* process_spi_rx_buf: a packet clears dr_isr_triggered, a dummy does not.
HostReceive ==
    /\ hostPc = "receive"
    /\ throttled' = hostRx.throttle
    /\ IF IsDummy(hostRx)
         THEN dummyRx' = FALSE /\ drLatch' = drLatch /\ hostPc' = "end"
         ELSE dummyRx' = dummyRx /\ drLatch' = FALSE /\ hostPc' = "put"
    /\ UNCHANGED <<hostIn, transReady, dummyTx, hsSeen, drSeen, hostTx, hostRx, hostOut,
                   pins, slave>>

\* The put into from_slave_queue waits while it is full.
HostPut ==
    /\ hostPc = "put"
    /\ LET q == QueueOf(hostRx.if)
       IN /\ Len(fromSlave[q]) < FromSlaveSize
          /\ fromSlave' = [fromSlave EXCEPT ![q] = Append(@, hostRx)]
    /\ fromSlaveSem' = fromSlaveSem + 1
    /\ hostRx' = Dummy(FALSE)
    /\ hostPc' = "end"
    /\ UNCHANGED <<hostIn, transReady, drLatch, dummyTx, dummyRx, throttled, hsSeen,
                   drSeen, hostTx, hostGot, pins, slave>>

\* The task signals itself when HS was low or another transfer is wanted.
HostEnd ==
    /\ hostPc = "end"
    /\ transReady' = (transReady \/ ~hsSeen \/ dummyTx \/ dummyRx)
    /\ hostPc' = "wait" /\ hsSeen' = FALSE /\ drSeen' = FALSE
    /\ UNCHANGED <<hostIn, drLatch, dummyTx, dummyRx, throttled, hostTx, hostRx, hostOut,
                   pins, slave>>

\* spi_process_rx_task: serial and network packets ask for one more transfer.
HostRxTask ==
    /\ fromSlaveSem > 0
    /\ fromSlaveSem' = fromSlaveSem - 1
    /\ LET q == FirstQueue(fromSlave)
       IN /\ fromSlave' = [fromSlave EXCEPT ![q] = Tail(@)]
          /\ hostGot' = [hostGot EXCEPT ![q] = Append(@, Head(fromSlave[q]).n)]
          /\ dummyRx' = (dummyRx \/ Head(fromSlave[q]).if # "priv")
    /\ UNCHANGED <<hostIn, transReady, drLatch, throttled, hostThread, pins, slave>>

-----------------------------------------------------------------------------
(* The co-processor's senders: the tasks that call esp_spi_write, each for  *)
(* its interface, and host_reset_task in generate_startup_event.            *)

Goto(t, label) == task' = [task EXCEPT ![t] = label]

\* find_wifi_tx_throttling_to_be_set
NextThrottling ==
    LET percent == (Len(fromHost["others"]) * 100) \div SpiRxSize
    IN IF ThrottleHigh = 0 THEN throttling
       ELSE IF percent < ThrottleLow THEN FALSE
       ELSE throttling \/ percent > ThrottleHigh

PutToHost(interface) ==
    LET q == QueueOf(interface)
    IN /\ Len(toHost[q]) < SpiTxSize
       /\ toHost' = [toHost EXCEPT ![q] = Append(@, Packet(interface, slaveSent[q] + 1))]
       /\ slaveSent' = [slaveSent EXCEPT ![q] = @ + 1]

SlaveWrite(interface) ==
    /\ MaySend /\ task[interface] = "idle"
    /\ slaveSent[QueueOf(interface)] < SlaveMax[QueueOf(interface)]
    /\ PutToHost(interface)
    /\ throttling' = NextThrottling
    /\ Goto(interface, "testDr")
    /\ UNCHANGED <<host, pins, startups, buf, spiTxSem, drFlag, slaveSpi, slaveOut>>

SlaveStartup ==
    /\ task["reset"] = "idle" /\ startups < MaxStartups
    /\ startups' = startups + 1
    /\ PutToHost("priv")
    /\ Goto("reset", "count")
    /\ UNCHANGED <<host, pins, buf, spiTxSem, drFlag, slaveSpi, slaveOut, throttling>>

\* esp_spi_write counts last, generate_startup_event before it raises DR.
SlaveCount(t) ==
    /\ task[t] = "count"
    /\ spiTxSem' = spiTxSem + 1
    /\ Goto(t, IF t \in Writers THEN "idle" ELSE "testDr")
    /\ UNCHANGED <<host, pins, slaveSent, startups, toHost, buf, drFlag, slaveSpi,
                   slaveOut, throttling>>

AfterDr_Loads(t) == "load"
AfterDr(t) == IF t \in Writers THEN "count" ELSE "load"

\* set_dataready_gpio: the test of data_ready_flag, the pin, the flag.
TestDr(t) ==
    /\ task[t] = "testDr"
    /\ Goto(t, IF drFlag THEN AfterDr(t) ELSE "raiseDr")
    /\ UNCHANGED <<host, pins, slaveIn, buf, drFlag, slaveSpi, slaveOut, throttling>>

RaiseDr(t) ==
    /\ task[t] = "raiseDr"
    /\ drPin' = TRUE /\ drEdge' = (drEdge \/ ~drPin)
    /\ Goto(t, "setFlag")
    /\ UNCHANGED <<host, hsPin, hsEdge, cs, slaveIn, buf, drFlag, slaveSpi, slaveOut,
                   throttling>>

SetFlag(t) ==
    /\ task[t] = "setFlag"
    /\ drFlag' = TRUE
    /\ Goto(t, AfterDr(t))
    /\ UNCHANGED <<host, pins, slaveIn, buf, slaveSpi, slaveOut, throttling>>

-----------------------------------------------------------------------------
(* queue_next_transaction, called by host_reset_task and by                 *)
(* spi_transaction_post_process_task.                                       *)

LoadPacket_Peeks(t) ==
    /\ task[t] = "load" /\ spiTxSem > 0
    /\ spiTxSem' = spiTxSem - 1
    /\ buf' = [buf EXCEPT ![t] = Head(toHost[FirstQueue(toHost)])]
    /\ Goto(t, "queue")
    /\ UNCHANGED <<host, pins, slaveSent, startups, toHost, drFlag, slaveSpi, slaveOut,
                   throttling>>
\* get_next_tx_buffer
LoadPacket(t) ==
    /\ task[t] = "load" /\ spiTxSem > 0
    /\ spiTxSem' = spiTxSem - 1
    /\ LET q == FirstQueue(toHost)
       IN /\ buf' = [buf EXCEPT ![t] = Head(toHost[q])]
          /\ toHost' = [toHost EXCEPT ![q] = Tail(@)]
    /\ Goto(t, "queue")
    /\ UNCHANGED <<host, pins, slaveSent, startups, drFlag, slaveSpi, slaveOut, throttling>>

\* No packet: reset_dataready_gpio, again the test, the pin and the flag ...
LoadNothing(t) ==
    /\ task[t] = "load" /\ spiTxSem = 0
    /\ Goto(t, IF drFlag THEN "lowerDr" ELSE "dummy")
    /\ UNCHANGED <<host, pins, slaveIn, buf, drFlag, slaveSpi, slaveOut, throttling>>

LowerDr(t) ==
    /\ task[t] = "lowerDr"
    /\ drPin' = FALSE
    /\ Goto(t, "clearFlag")
    /\ UNCHANGED <<host, hsPin, hsEdge, drEdge, cs, slaveIn, buf, drFlag, slaveSpi, slaveOut,
                   throttling>>

ClearFlag(t) ==
    /\ task[t] = "clearFlag"
    /\ drFlag' = FALSE
    /\ Goto(t, "dummy")
    /\ UNCHANGED <<host, pins, slaveIn, buf, slaveSpi, slaveOut, throttling>>

\* ... and a dummy that tells the host whether to hold its network packets.
LoadDummy(t) ==
    /\ task[t] = "dummy"
    /\ throttling' = NextThrottling
    /\ buf' = [buf EXCEPT ![t] = Dummy(NextThrottling)]
    /\ Goto(t, "queue")
    /\ UNCHANGED <<host, pins, slaveIn, drFlag, slaveSpi, slaveOut>>

\* spi_slave_queue_trans; an idle driver sets the transaction up at once and
\* spi_post_setup_cb raises the handshake.
QueueTransaction_HsForDataOnly(t) ==
    /\ task[t] = "queue"
    /\ Len(loaded) < SpiQueueSize
    /\ loaded' = Append(loaded, buf[t])
    /\ IF loaded = << >> /\ ~IsDummy(buf[t]) THEN RaiseHs ELSE UNCHANGED <<hsPin, hsEdge>>
    /\ buf' = [buf EXCEPT ![t] = Dummy(FALSE)]
    /\ Goto(t, IF t = "reset" THEN "idle" ELSE "receive")
    /\ UNCHANGED <<host, drPin, drEdge, cs, slaveIn, drFlag, results, csSem, slaveOut,
                   throttling>>
QueueTransaction(t) ==
    /\ task[t] = "queue"
    /\ Len(loaded) < SpiQueueSize
    /\ loaded' = Append(loaded, buf[t])
    /\ IF loaded = << >> THEN RaiseHs ELSE UNCHANGED <<hsPin, hsEdge>>
    /\ buf' = [buf EXCEPT ![t] = Dummy(FALSE)]
    /\ Goto(t, IF t = "reset" THEN "idle" ELSE "receive")
    /\ UNCHANGED <<host, drPin, drEdge, cs, slaveIn, drFlag, results, csSem, slaveOut,
                   throttling>>

-----------------------------------------------------------------------------
(* spi_transaction_post_process_task and recv_task.                         *)

\* spi_slave_get_trans_result; the transaction is freed after it is processed.
PostGet ==
    /\ task["post"] = "idle" /\ results # << >>
    /\ Goto("post", "waitCs")
    /\ UNCHANGED <<host, pins, slaveIn, buf, drFlag, slaveSpi, slaveOut, throttling>>

PostWaitCs ==
    /\ task["post"] = "waitCs" /\ csSem
    /\ csSem' = FALSE
    /\ Goto("post", "load")
    /\ UNCHANGED <<host, pins, slaveIn, buf, drFlag, loaded, results, slaveOut, throttling>>

PostReceive_CountsDummy ==
    /\ task["post"] = "receive"
    /\ results' = Tail(results)
    /\ LET packet == Head(results)
           q == QueueOf(packet.if)
       IN fromHost' = IF IsDummy(packet) THEN fromHost
                      ELSE [fromHost EXCEPT ![q] = Append(@, packet)]
    /\ spiRxSem' = spiRxSem + 1
    /\ Goto("post", "idle")
    /\ UNCHANGED <<host, pins, slaveIn, buf, drFlag, loaded, csSem, slaveGot, throttling>>
PostReceive ==
    /\ task["post"] = "receive"
    /\ results' = Tail(results)
    /\ LET packet == Head(results)
           q == QueueOf(packet.if)
       IN IF IsDummy(packet)
            THEN UNCHANGED <<fromHost, spiRxSem>>
            ELSE /\ Len(fromHost[q]) < SpiRxSize
                 /\ fromHost' = [fromHost EXCEPT ![q] = Append(@, packet)]
                 /\ spiRxSem' = spiRxSem + 1
    /\ Goto("post", "idle")
    /\ UNCHANGED <<host, pins, slaveIn, buf, drFlag, loaded, csSem, slaveGot, throttling>>

\* esp_spi_read, called by recv_task
SlaveRead ==
    /\ spiRxSem > 0
    /\ spiRxSem' = spiRxSem - 1
    /\ LET q == FirstQueue(fromHost)
       IN /\ fromHost' = [fromHost EXCEPT ![q] = Tail(@)]
          /\ slaveGot' = [slaveGot EXCEPT ![q] = Append(@, Head(fromHost[q]).n)]
    /\ UNCHANGED <<host, pins, slaveIn, task, buf, drFlag, slaveSpi, throttling>>

-----------------------------------------------------------------------------
HostTask ==
    \/ HostWake \/ HostReadDr \/ HostSendPacket \/ HostSendDummy \/ HostIgnore
    \/ Transfer \/ DeassertCs \/ HostReceive \/ HostPut \/ HostEnd

Sender(t) == SlaveCount(t) \/ TestDr(t) \/ RaiseDr(t) \/ SetFlag(t)

Loader(t) ==
    \/ LoadPacket(t) \/ LoadNothing(t) \/ LowerDr(t) \/ ClearFlag(t) \/ LoadDummy(t)
    \/ QueueTransaction(t)

WriterTask(i) == SlaveWrite(i) \/ Sender(i)
ResetTask == SlaveStartup \/ Sender("reset") \/ Loader("reset")
PostTask == PostGet \/ PostWaitCs \/ Loader("post") \/ PostReceive

Next ==
    \/ \E q \in Queues : HostQueue(q) \/ HostCount(q) \/ HostSignal(q)
    \/ HsIsr \/ DrIsr \/ CsIsr
    \/ HostTask \/ HostRxTask
    \/ \E i \in Writers : WriterTask(i)
    \/ ResetTask \/ PostTask \/ SlaveRead

Spec == Init /\ [][Next]_vars

\* Every task is scheduled and every interrupt is served; the first startup
\* event comes by itself when the co-processor boots.  Nobody has to send.
Fairness ==
    /\ \A q \in Queues : WF_vars(HostCount(q) \/ HostSignal(q))
    /\ WF_vars(HsIsr) /\ WF_vars(DrIsr) /\ WF_vars(CsIsr)
    /\ WF_vars(HostTask) /\ WF_vars(HostRxTask)
    /\ \A i \in Writers : WF_vars(Sender(i))
    /\ WF_vars(PostTask) /\ WF_vars(SlaveRead)
    /\ WF_vars(ResetTask)

FairSpec == Spec /\ Fairness

-----------------------------------------------------------------------------
(* Invariants.                                                              *)

OnWire == [if : {"none", "serial", "sta", "priv"}, n : Nat, throttle : BOOLEAN]
SenderLabels == {"idle", "count", "testDr", "raiseDr", "setFlag"}
LoaderLabels == {"load", "lowerDr", "clearFlag", "dummy", "queue"}

HostOK ==
    /\ hostSent \in [Queues -> Nat] /\ \A q \in Queues : hostSent[q] <= HostMax[q]
    /\ hostWriter \in [Queues -> {"idle", "count", "signal"}]
    /\ toSlave \in [Queues -> Seq(OnWire)]
    /\ \A q \in Queues : Len(toSlave[q]) <= ToSlaveSize
    /\ toSlaveSem \in Nat
    /\ {transReady, drLatch, dummyTx, dummyRx, throttled, hsSeen, drSeen} \subseteq BOOLEAN
    /\ hostPc \in {"wait", "readDr", "decide", "transfer", "deassert", "receive", "put",
                   "end"}
    /\ hostTx \in OnWire /\ hostRx \in OnWire
    /\ fromSlave \in [Queues -> Seq(OnWire)]
    /\ \A q \in Queues : Len(fromSlave[q]) <= FromSlaveSize
    /\ fromSlaveSem \in Nat
    /\ hostGot \in [Queues -> Seq(Nat)]

SlaveOK ==
    /\ {hsPin, drPin, hsEdge, drEdge, csEdge, drFlag, csSem, throttling} \subseteq BOOLEAN
    /\ csMissed \in 0..MaxMissed
    /\ slaveSent \in [Queues -> Nat] /\ startups \in 0..MaxStartups
    /\ task \in [Writers \cup {"reset", "post"} ->
                   SenderLabels \cup LoaderLabels \cup {"waitCs", "receive"}]
    /\ \A i \in Writers : task[i] \in SenderLabels
    /\ task["reset"] \in SenderLabels \cup LoaderLabels
    /\ task["post"] \in LoaderLabels \cup {"idle", "waitCs", "receive"}
    /\ buf \in [{"reset", "post"} -> OnWire]
    /\ toHost \in [Queues -> Seq(OnWire)] /\ fromHost \in [Queues -> Seq(OnWire)]
    /\ \A q \in Queues : Len(toHost[q]) <= SpiTxSize /\ Len(fromHost[q]) <= SpiRxSize
    /\ spiTxSem \in Nat /\ spiRxSem \in Nat
    /\ loaded \in Seq(OnWire) /\ Len(loaded) <= SpiQueueSize
    /\ results \in Seq(OnWire)
    /\ slaveGot \in [Queues -> Seq(Nat)]

\* Queues and the SPI driver keep their capacities (spi_slave_api.c:72, 761-771).
TypeOK == HostOK /\ SlaveOK

Waiting(queues) == Len(queues["serial"]) + Len(queues["others"])
OneIf(condition) == IF condition THEN 1 ELSE 0

\* Each counting semaphore counts the packets in its three queues, but for those
\* that a task has put and not counted yet: who takes one finds a packet, and none
\* stays behind uncounted.
CountsMatch ==
    /\ Waiting(toSlave) = toSlaveSem + OneIf(hostWriter["serial"] = "count")
                                     + OneIf(hostWriter["others"] = "count")
    /\ Waiting(fromSlave) = fromSlaveSem
    /\ Waiting(toHost) = spiTxSem + OneIf(task["serial"] # "idle")
                                  + OneIf(task["sta"] # "idle")
                                  + OneIf(task["reset"] = "count")
    /\ Waiting(fromHost) = spiRxSem

\* "Host must not start a transaction before ESP SPI peripheral is ready"
\* (docs/spi_full_duplex.md:76).  It starts one with nothing set up only after the
\* interrupt that clears the handshake has missed an edge of CS: whatever else
\* interleaves, a handshake the host has seen is never stale.
EmptyTransferExplained == csMissed = 0 /\ hostPc = "transfer" => loaded # << >>

(* Each direction keeps the promise of OrderedLink.                         *)

ToSlaveLink == INSTANCE OrderedLink
    WITH accepted <- hostSent, handed <- slaveGot, MayDrop <- TRUE

FromSlaveLink == INSTANCE OrderedLink
    WITH accepted <- slaveSent, handed <- hostGot, MayDrop <- FALSE

\* No packet of the host is missing between two that recv_task got.
NothingSkipped == \A q \in Queues : \A k \in 1..Len(slaveGot[q]) : slaveGot[q][k] = k

\* recv_task and the host's handlers get the packets of each priority queue in the
\* order in which they were accepted, none of them twice; the host gets every one,
\* and recv_task skips one only if an edge of CS was missed.  No interleaving of the
\* nine tasks and the interrupts of the two programs, and no latency, breaks it.
LinkOrdered == ToSlaveLink!Spec /\ FromSlaveLink!Spec /\ [](csMissed = 0 => NothingSkipped)

(* Temporal properties.                                                     *)

\* Every packet given to esp_hosted_tx reaches recv_task, unless an edge of CS was
\* missed.
EveryHostPacketArrives ==
    \A q \in Queues : \A n \in 1..HostMax[q] :
        hostSent[q] >= n ~> Len(slaveGot[q]) >= n \/ csMissed > 0

\* Every packet the co-processor writes reaches the host: DR tells it "that it
\* has data to send" (docs/spi_full_duplex.md:64).  A missed edge of CS is excused.
EverySlavePacketArrives ==
    \A q \in Queues : \A n \in 1..(SlaveMax[q] + MaxStartups) :
        slaveSent[q] >= n ~> Len(hostGot[q]) >= n \/ csMissed > 0
=============================================================================

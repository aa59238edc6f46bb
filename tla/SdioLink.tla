------------------------------ MODULE SdioLink ------------------------------
(***************************************************************************)
(* The SDIO link: the host's sdio_drv.c, the co-processor's                *)
(* sdio_slave_api.c and the SDIO slave peripheral between them.            *)
(*                                                                         *)
(* The host is the bus master.  Towards the co-processor it writes a       *)
(* packet when the token register says that a receive buffer is loaded.    *)
(* From the co-processor it reads, at an interrupt, as much as the length  *)
(* register grew by: several packets in one stream, which a task of its    *)
(* own takes apart while the next one is read (streaming mode, the         *)
(* default, with both registers read at once).                             *)
(*                                                                         *)
(* A packet is its interface and its number in the queue it goes through;  *)
(* it fits one receive buffer (buf_needed = 1) and counts one unit in the  *)
(* length register.  Of the three priority queues two are modelled.        *)
(*                                                                         *)
(* A definition whose name ends in _<Word> is the definition after it with *)
(* one mistake; Spec does not use it.                                      *)
(***************************************************************************)
EXTENDS Integers, Sequences

CONSTANTS
    HostMax,        \* BOUND: packets the host sends, by queue
    SlaveMax,       \* BOUND: packets the co-processor sends, by queue
    ToSlaveSize,    \* TO_SLAVE_QUEUE_SIZE
    FromSlaveSize,  \* FROM_SLAVE_QUEUE_SIZE
    SendQueueSize,  \* SDIO_DRIVER_TX_QUEUE_SIZE
    RxBuffers,      \* SDIO_NUM_RX_BUFFERS
    TxMod,          \* ESP_TX_BUFFER_MAX, where the token counters wrap
    RxMod,          \* ESP_RX_BYTE_MAX, where the length counters wrap
    Retries,        \* MAX_WRITE_BUF_RETRIES
    ThrottleHigh, ThrottleLow   \* slv_cfg_g.throttle_*_threshold, in percent

Queues == {"serial", "others"}
QueueOf(interface) == IF interface = "serial" THEN "serial" ELSE "others"

\* Tasks of the co-processor that send: each calls sdio_write itself, pserial_task
\* and the Wi-Fi task's receive callback (BYPASS_TX_PRIORITY_Q 1), and
\* host_reset_task generate_startup_event.
Writers == {"serial", "sta", "reset"}

ASSUME BoundsAssumption == HostMax \in [Queues -> Nat] /\ SlaveMax \in [Queues -> Nat]

\* 20 receive buffers against 4096 tokens; 20 packets of at most 1536 bytes
\* against 2^20 bytes.
ASSUME SizesAssumption ==
    /\ {ToSlaveSize, FromSlaveSize, SendQueueSize, RxBuffers, Retries} \subseteq Nat \ {0}
    /\ TxMod \in Nat /\ RxBuffers < TxMod
    /\ RxMod \in Nat /\ SendQueueSize < RxMod
    /\ ThrottleHigh \in 0..100 /\ ThrottleLow \in 0..100

VARIABLES
    \* host
    hostSent,     \* packets handed to esp_hosted_tx, by queue
    hostWriter,   \* where the task that sends through each queue is
    toSlave, toSlaveSem,        \* to_slave_queue, sem_to_slave_queue
    up,           \* the transport accepts packets (is_transport_tx_ready)
    writeStarted, \* sdio_start_write_thread
    writePc, hostTx, retry,     \* sdio_write_task, its packet, its retries left
    available,    \* buf_available, kept between calls
    txCount,      \* sdio_tx_buf_count
    busLock,      \* sdio_bus_lock: "free", "read" or "write"
    readPc, seenIntr, seenLen,  \* sdio_read_task, the registers it has read
    lenFromSlave, \* its len_from_slave
    rxCount,      \* sdio_rx_byte_count
    buffer, readIndex, writeIndex, readDataLen,  \* double_buf
    xferSem,      \* sem_double_buf_xfer_data
    splitAt,      \* the packet sdio_data_to_rx_buf_task pushes next; 0: it waits
    fromSlave, fromSlaveSem,    \* from_slave_queue, sem_from_slave_queue
    rxStarting,   \* sdio_process_rx_task has still to start the write task
    hostGot,      \* packets processed, by queue
    throttled,    \* wifi_tx_throttling
    \* SDIO slave peripheral and its driver
    intr,         \* interrupts raised for the host
    lenReg,       \* ESP_SLAVE_PACKET_LEN_REG
    sendQueue, onWire,          \* queued with the driver, offered to the host
    finished,     \* buffers sent and not yet collected
    tokenReg,     \* ESP_SLAVE_TOKEN_RDATA
    emptyBufs, received,        \* loaded receive buffers, filled ones
    \* co-processor
    opened,       \* datapath
    hostResetSem, \* host_reset_sem
    slaveSent,    \* packets written, by queue
    writer,       \* the packet for which a task holds a slot, by task
    sendSem,      \* sdio_send_queue_sem
    rxPc, rxHeld, \* sdio_rx_task and its packet
    rxQueue, rxSem,             \* sdio_rx_queue, sdio_rx_sem
    readerPc,     \* recv_task in sdio_read and after
    slaveGot,     \* packets recv_task has read, by queue
    throttling    \* slv_state_g.current_throttling

senders == <<hostSent, hostWriter, toSlave, toSlaveSem>>
writeTask == <<writeStarted, writePc, hostTx, retry, available, txCount>>
readTask == <<readPc, seenIntr, seenLen, lenFromSlave, rxCount>>
doubleBuf == <<buffer, readIndex, writeIndex, readDataLen, xferSem, splitAt>>
hostOut == <<fromSlave, fromSlaveSem, rxStarting, hostGot, up>>
host == <<senders, writeTask, busLock, readTask, doubleBuf, hostOut, throttled>>
sendHw == <<lenReg, sendQueue, onWire, finished>>
recvHw == <<tokenReg, emptyBufs, received>>
slaveIn == <<opened, hostResetSem, slaveSent, writer, sendSem>>
slaveOut == <<rxPc, rxHeld, rxQueue, rxSem, readerPc, slaveGot, throttling>>
vars == <<host, intr, sendHw, recvHw, slaveIn, slaveOut>>

Packet(interface, n) == [if |-> interface, n |-> n]
FirstQueue(queues) == IF queues["serial"] # << >> THEN "serial" ELSE "others"
PutIn(queues, p) == [queues EXCEPT ![QueueOf(p.if)] = Append(@, p)]

Init ==
    /\ hostSent = [q \in Queues |-> 0] /\ hostWriter = [q \in Queues |-> "idle"]
    /\ toSlave = [q \in Queues |-> << >>] /\ toSlaveSem = 0
    /\ up = FALSE /\ writeStarted = FALSE
    /\ writePc = "wait" /\ hostTx = << >> /\ retry = 0 /\ available = 0 /\ txCount = 0
    /\ busLock = "free"
    /\ readPc = "open" /\ seenIntr = {} /\ seenLen = 0
    /\ lenFromSlave = 0 /\ rxCount = 0
    /\ buffer = [i \in {0, 1} |-> << >>] /\ readIndex = -1 /\ writeIndex = 0
    /\ readDataLen = 0 /\ xferSem = FALSE /\ splitAt = 0
    /\ fromSlave = [q \in Queues |-> << >>] /\ fromSlaveSem = 0 /\ rxStarting = FALSE
    /\ hostGot = [q \in Queues |-> << >>] /\ throttled = FALSE
    /\ intr = {} /\ lenReg = 0 /\ sendQueue = << >> /\ onWire = << >> /\ finished = 0
    /\ tokenReg = RxBuffers % TxMod /\ emptyBufs = RxBuffers /\ received = << >>
    /\ opened = FALSE /\ hostResetSem = FALSE /\ slaveSent = [q \in Queues |-> 0]
    /\ writer = [t \in Writers |-> << >>] /\ sendSem = SendQueueSize
    /\ rxPc = "recv" /\ rxHeld = << >>
    /\ rxQueue = [q \in Queues |-> << >>] /\ rxSem = 0
    /\ readerPc = "read" /\ slaveGot = [q \in Queues |-> << >>] /\ throttling = FALSE

-----------------------------------------------------------------------------
(* The host's senders: esp_hosted_tx, and transport_drv_sta_tx before it.   *)

HostQueue(q) ==
    /\ hostWriter[q] = "idle" /\ hostSent[q] < HostMax[q]
    /\ up /\ (q = "others" => ~throttled)
    /\ Len(toSlave[q]) < ToSlaveSize
    /\ hostSent' = [hostSent EXCEPT ![q] = @ + 1]
    /\ toSlave' = PutIn(toSlave, Packet(IF q = "serial" THEN "serial" ELSE "sta",
                                        hostSent[q] + 1))
    /\ hostWriter' = [hostWriter EXCEPT ![q] = "count"]
    /\ UNCHANGED <<toSlaveSem, writeTask, busLock, readTask, doubleBuf, hostOut,
                   throttled, intr, sendHw, recvHw, slaveIn, slaveOut>>

HostCount(q) ==
    /\ hostWriter[q] = "count"
    /\ toSlaveSem' = toSlaveSem + 1
    /\ hostWriter' = [hostWriter EXCEPT ![q] = "idle"]
    /\ UNCHANGED <<hostSent, toSlave, writeTask, busLock, readTask, doubleBuf, hostOut,
                   throttled, intr, sendHw, recvHw, slaveIn, slaveOut>>

-----------------------------------------------------------------------------
(* sdio_write_task and sdio_is_write_buffer_available.                      *)

WriteTake ==
    /\ writePc = "wait" /\ writeStarted /\ toSlaveSem > 0
    /\ toSlaveSem' = toSlaveSem - 1
    /\ LET q == FirstQueue(toSlave)
       IN /\ hostTx' = <<Head(toSlave[q])>>
          /\ toSlave' = [toSlave EXCEPT ![q] = Tail(@)]
    /\ writePc' = "lock"
    /\ UNCHANGED <<hostSent, hostWriter, writeStarted, retry, available, txCount,
                   busLock, readTask, doubleBuf, hostOut, throttled, intr, sendHw,
                   recvHw, slaveIn, slaveOut>>

WriteLock ==
    /\ writePc = "lock" /\ busLock = "free"
    /\ busLock' = "write"
    /\ retry' = Retries
    /\ writePc' = "check"
    /\ UNCHANGED <<senders, writeStarted, hostTx, available, txCount, readTask,
                   doubleBuf, hostOut, throttled, intr, sendHw, recvHw, slaveIn,
                   slaveOut>>

\* The count of the last register read is used up before the next one.
UseKnownBuffer ==
    /\ writePc = "check" /\ available > 0
    /\ available' = available - 1
    /\ writePc' = "write"
    /\ UNCHANGED <<senders, writeStarted, hostTx, retry, txCount, busLock, readTask,
                   doubleBuf, hostOut, throttled, intr, sendHw, recvHw, slaveIn,
                   slaveOut>>

TokensLeft_NoWrap == IF tokenReg > txCount THEN tokenReg - txCount ELSE 0
\* sdio_get_tx_buffer_num: both counters wrap.
TokensLeft == (tokenReg + TxMod - txCount) % TxMod

\* No buffer known: read the register, and again until one is free or the
\* retries are used up; then the packet is dropped.
ReadTokens ==
    /\ writePc = "check" /\ available = 0
    /\ IF TokensLeft > 0
         THEN /\ available' = TokensLeft - 1
              /\ writePc' = "write"
              /\ UNCHANGED <<hostTx, retry, busLock>>
         ELSE /\ retry' = retry - 1
              /\ available' = 0
              /\ IF retry > 1
                   THEN UNCHANGED <<writePc, hostTx, busLock>>
                   ELSE writePc' = "wait" /\ hostTx' = << >> /\ busLock' = "free"
    /\ UNCHANGED <<senders, writeStarted, txCount, readTask, doubleBuf, hostOut,
                   throttled, intr, sendHw, recvHw, slaveIn, slaveOut>>

CountWritten == (txCount + 1) % TxMod

\* sdio_write_block: the peripheral stores the packet in a loaded buffer.
WriteBlock ==
    /\ writePc = "write" /\ emptyBufs > 0
    /\ emptyBufs' = emptyBufs - 1
    /\ received' = received \o hostTx
    /\ txCount' = CountWritten
    /\ hostTx' = << >>
    /\ busLock' = "free" /\ writePc' = "wait"
    /\ UNCHANGED <<senders, writeStarted, retry, available, readTask, doubleBuf,
                   hostOut, throttled, intr, sendHw, tokenReg, slaveIn, slaveOut>>

-----------------------------------------------------------------------------
(* sdio_read_task.                                                          *)

\* ESP_OPEN_DATA_PATH: event_cb and event_handler of the co-processor.
OpenDataPath ==
    /\ readPc = "open"
    /\ opened' = TRUE /\ hostResetSem' = TRUE
    /\ readPc' = "wait"
    /\ UNCHANGED <<senders, writeTask, busLock, seenIntr, seenLen, lenFromSlave,
                   rxCount, doubleBuf, hostOut, throttled, intr, sendHw, recvHw,
                   slaveSent, writer, sendSem, slaveOut>>

\* At an interrupt the bus is locked and both registers are read at once.
ReadRegs ==
    /\ readPc = "wait" /\ intr # {} /\ busLock = "free"
    /\ busLock' = "read"
    /\ seenIntr' = intr /\ seenLen' = lenReg
    /\ readPc' = "clear"
    /\ UNCHANGED <<senders, writeTask, lenFromSlave, rxCount, doubleBuf, hostOut,
                   throttled, intr, sendHw, recvHw, slaveIn, slaveOut>>

LengthSeen_NoWrap == IF seenLen > rxCount THEN seenLen - rxCount ELSE 0
\* sdio_get_len_from_slave
LengthSeen == (seenLen + RxMod - rxCount) % RxMod

AfterThrottle(interrupts) ==
    IF "stop" \in interrupts THEN FALSE ELSE throttled \/ "start" \in interrupts

\* Only the interrupts seen are cleared.
ClearIntr ==
    /\ readPc = "clear"
    /\ intr' = intr \ seenIntr
    /\ throttled' = AfterThrottle(seenIntr)
    /\ IF "new" \in seenIntr /\ LengthSeen > 0
         THEN readPc' = "read" /\ lenFromSlave' = LengthSeen /\ UNCHANGED busLock
         ELSE readPc' = "wait" /\ busLock' = "free" /\ UNCHANGED lenFromSlave
    /\ UNCHANGED <<senders, writeTask, seenIntr, seenLen, rxCount, doubleBuf, hostOut,
                   sendHw, recvHw, slaveIn, slaveOut>>

CountRead_NoWrap == rxCount + lenFromSlave
CountRead == (rxCount + lenFromSlave) % RxMod

\* sdio_read_block into the buffer of the write index; then the bus is let go.
\* The peripheral hands over what it offers and reports those buffers finished.
ReadBlock ==
    /\ readPc = "read"
    /\ LET n == IF lenFromSlave < Len(onWire) THEN lenFromSlave ELSE Len(onWire)
       IN /\ buffer' = [buffer EXCEPT ![writeIndex] = SubSeq(onWire, 1, n)]
          /\ onWire' = SubSeq(onWire, n + 1, Len(onWire))
          /\ finished' = finished + n
    /\ rxCount' = CountRead
    /\ busLock' = "free"
    /\ readPc' = "hand"
    /\ UNCHANGED <<senders, writeTask, seenIntr, seenLen, lenFromSlave, readIndex,
                   writeIndex, readDataLen, xferSem, splitAt, hostOut, throttled, intr,
                   lenReg, sendQueue, recvHw, slaveIn, slaveOut>>

HandOverBuffer_KeepsIndex ==
    /\ readIndex' = writeIndex /\ UNCHANGED writeIndex
    /\ readDataLen' = lenFromSlave
    /\ xferSem' = TRUE
HandOverBuffer ==
    /\ readIndex' = writeIndex /\ writeIndex' = 1 - writeIndex
    /\ readDataLen' = lenFromSlave
    /\ xferSem' = TRUE

\* Everything just read is dropped while the other buffer is still taken apart.
HandOver ==
    /\ readPc = "hand"
    /\ IF readIndex < 0
         THEN HandOverBuffer ELSE UNCHANGED <<readIndex, writeIndex, readDataLen, xferSem>>
    /\ readPc' = "wait"
    /\ UNCHANGED <<senders, writeTask, busLock, seenIntr, seenLen, lenFromSlave,
                   rxCount, buffer, splitAt, hostOut, throttled, intr, sendHw, recvHw,
                   slaveIn, slaveOut>>

-----------------------------------------------------------------------------
(* sdio_data_to_rx_buf_task and sdio_process_rx_task.                       *)

SplitTake ==
    /\ xferSem /\ splitAt = 0
    /\ xferSem' = FALSE
    /\ splitAt' = IF readIndex < 0 THEN 0 ELSE 1
    /\ UNCHANGED <<senders, writeTask, busLock, readTask, buffer, readIndex, writeIndex,
                   readDataLen, hostOut, throttled, intr, sendHw, recvHw, slaveIn,
                   slaveOut>>

\* The put waits while from_slave_queue is full.
SplitPush ==
    /\ splitAt \in 1..readDataLen
    /\ LET p == buffer[readIndex][splitAt]
       IN /\ Len(fromSlave[QueueOf(p.if)]) < FromSlaveSize
          /\ fromSlave' = PutIn(fromSlave, p)
    /\ fromSlaveSem' = fromSlaveSem + 1
    /\ splitAt' = splitAt + 1
    /\ UNCHANGED <<senders, writeTask, busLock, readTask, buffer, readIndex, writeIndex,
                   readDataLen, xferSem, rxStarting, hostGot, up, throttled, intr,
                   sendHw, recvHw, slaveIn, slaveOut>>

SplitDone ==
    /\ splitAt > readDataLen
    /\ readIndex' = -1
    /\ splitAt' = 0
    /\ UNCHANGED <<senders, writeTask, busLock, readTask, buffer, writeIndex,
                   readDataLen, xferSem, hostOut, throttled, intr, sendHw, recvHw,
                   slaveIn, slaveOut>>

HostRxTask_Peeks ==
    /\ fromSlaveSem > 0 /\ ~rxStarting
    /\ fromSlaveSem' = fromSlaveSem - 1
    /\ LET q == FirstQueue(fromSlave)
           p == Head(fromSlave[q])
       IN /\ hostGot' = [hostGot EXCEPT ![q] = Append(@, p.n)]
          /\ up' = (up \/ p.if = "priv")
          /\ rxStarting' = (p.if = "priv")
    /\ UNCHANGED <<fromSlave, senders, writeTask, busLock, readTask, doubleBuf,
                   throttled, intr, sendHw, recvHw, slaveIn, slaveOut>>
\* process_priv_communication lets the upper layers send; the write task is
\* started after it.
HostRxTask ==
    /\ fromSlaveSem > 0 /\ ~rxStarting
    /\ fromSlaveSem' = fromSlaveSem - 1
    /\ LET q == FirstQueue(fromSlave)
           p == Head(fromSlave[q])
       IN /\ fromSlave' = [fromSlave EXCEPT ![q] = Tail(@)]
          /\ hostGot' = [hostGot EXCEPT ![q] = Append(@, p.n)]
          /\ up' = (up \/ p.if = "priv")
          /\ rxStarting' = (p.if = "priv")
    /\ UNCHANGED <<senders, writeTask, busLock, readTask, doubleBuf, throttled, intr,
                   sendHw, recvHw, slaveIn, slaveOut>>

StartWriteTask ==
    /\ rxStarting
    /\ rxStarting' = FALSE /\ writeStarted' = TRUE
    /\ UNCHANGED <<senders, writePc, hostTx, retry, available, txCount, busLock,
                   readTask, doubleBuf, fromSlave, fromSlaveSem, hostGot, up, throttled,
                   intr, sendHw, recvHw, slaveIn, slaveOut>>

-----------------------------------------------------------------------------
(* The co-processor's writers: sdio_write, generate_startup_event.          *)

\* sdio_write refuses packets until the data path is open.
TakeSlot(t, interface) ==
    /\ writer[t] = << >> /\ sendSem > 0
    /\ sendSem' = sendSem - 1
    /\ writer' = [writer EXCEPT ![t] = <<interface>>]
    /\ UNCHANGED <<host, intr, sendHw, recvHw, opened, slaveSent, slaveOut>>

SlaveWrite(interface) ==
    /\ opened /\ slaveSent[QueueOf(interface)] < SlaveMax[QueueOf(interface)]
    /\ TakeSlot(interface, interface)
    /\ UNCHANGED hostResetSem

SlaveStartup ==
    /\ hostResetSem
    /\ hostResetSem' = FALSE
    /\ TakeSlot("reset", "priv")

\* sdio_slave_send_queue
SlaveQueue(t) ==
    /\ writer[t] # << >>
    /\ LET q == QueueOf(writer[t][1])
       IN /\ sendQueue' = Append(sendQueue, Packet(writer[t][1], slaveSent[q] + 1))
          /\ slaveSent' = [slaveSent EXCEPT ![q] = @ + 1]
    /\ writer' = [writer EXCEPT ![t] = << >>]
    /\ UNCHANGED <<host, intr, lenReg, onWire, finished, recvHw, opened, hostResetSem,
                   sendSem, slaveOut>>

\* The peripheral: when the host has read everything offered, all that is
\* queued is offered as one stream, the length register grows and the host is
\* interrupted.
OfferStream ==
    /\ onWire = << >> /\ sendQueue # << >>
    /\ onWire' = sendQueue /\ sendQueue' = << >>
    /\ lenReg' = (lenReg + Len(sendQueue)) % RxMod
    /\ intr' = intr \cup {"new"}
    /\ UNCHANGED <<host, finished, recvHw, slaveIn, slaveOut>>

\* sdio_tx_done_task
TxDone ==
    /\ finished > 0
    /\ finished' = finished - 1
    /\ sendSem' = sendSem + 1
    /\ UNCHANGED <<host, intr, lenReg, sendQueue, onWire, recvHw, opened, hostResetSem,
                   slaveSent, writer, slaveOut>>

-----------------------------------------------------------------------------
(* sdio_rx_task.                                                            *)

RxTake ==
    /\ rxPc = "recv" /\ received # << >>
    /\ rxHeld' = <<Head(received)>> /\ received' = Tail(received)
    /\ rxPc' = "throttle"
    /\ UNCHANGED <<host, intr, sendHw, tokenReg, emptyBufs, slaveIn, rxQueue, rxSem,
                   readerPc, slaveGot, throttling>>

LoadPercent == (Len(rxQueue["others"]) * 100) \div RxBuffers

\* start_rx_data_throttling_if_needed: the flag, then the interrupt.
RxThrottle ==
    /\ rxPc = "throttle"
    /\ IF ThrottleHigh > 0 /\ ~throttling /\ LoadPercent > ThrottleHigh
         THEN throttling' = TRUE /\ rxPc' = "sendStart"
         ELSE rxPc' = "put" /\ UNCHANGED throttling
    /\ UNCHANGED <<host, intr, sendHw, recvHw, slaveIn, rxHeld, rxQueue, rxSem,
                   readerPc, slaveGot>>

SendStartThrottle ==
    /\ rxPc = "sendStart"
    /\ intr' = intr \cup {"start"}
    /\ rxPc' = "put"
    /\ UNCHANGED <<host, sendHw, recvHw, slaveIn, rxHeld, rxQueue, rxSem, readerPc,
                   slaveGot, throttling>>

RxPut ==
    /\ rxPc = "put"
    /\ Len(rxQueue[QueueOf(rxHeld[1].if)]) < RxBuffers
    /\ rxQueue' = PutIn(rxQueue, rxHeld[1])
    /\ rxSem' = rxSem + 1
    /\ rxHeld' = << >> /\ rxPc' = "recv"
    /\ UNCHANGED <<host, intr, sendHw, recvHw, slaveIn, readerPc, slaveGot, throttling>>

-----------------------------------------------------------------------------
(* recv_task: sdio_read, the handling of the packet, sdio_read_done.        *)

SlaveRead ==
    /\ readerPc = "read" /\ rxSem > 0
    /\ rxSem' = rxSem - 1
    /\ LET q == FirstQueue(rxQueue)
       IN /\ rxQueue' = [rxQueue EXCEPT ![q] = Tail(@)]
          /\ slaveGot' = [slaveGot EXCEPT ![q] = Append(@, Head(rxQueue[q]).n)]
    /\ readerPc' = "throttle"
    /\ UNCHANGED <<host, intr, sendHw, recvHw, slaveIn, rxPc, rxHeld, throttling>>

\* stop_rx_data_throttling_if_needed
ReadThrottle ==
    /\ readerPc = "throttle"
    /\ IF throttling /\ LoadPercent < ThrottleLow
         THEN throttling' = FALSE /\ readerPc' = "sendStop"
         ELSE readerPc' = "handle" /\ UNCHANGED throttling
    /\ UNCHANGED <<host, intr, sendHw, recvHw, slaveIn, rxPc, rxHeld, rxQueue, rxSem,
                   slaveGot>>

SendStopThrottle ==
    /\ readerPc = "sendStop"
    /\ intr' = intr \cup {"stop"}
    /\ readerPc' = "handle"
    /\ UNCHANGED <<host, sendHw, recvHw, slaveIn, rxPc, rxHeld, rxQueue, rxSem,
                   slaveGot, throttling>>

ReadDone_Early ==
    /\ readerPc \in {"throttle", "handle"}
    /\ emptyBufs' = emptyBufs + 1 /\ tokenReg' = (tokenReg + 1) % TxMod
    /\ readerPc' = IF readerPc = "throttle" THEN "handle" ELSE "read"
    /\ UNCHANGED <<host, intr, sendHw, received, slaveIn, rxPc, rxHeld, rxQueue, rxSem,
                   slaveGot, throttling>>
\* The buffer is loaded again when the packet has been handled.
ReadDone ==
    /\ readerPc = "handle"
    /\ emptyBufs' = emptyBufs + 1 /\ tokenReg' = (tokenReg + 1) % TxMod
    /\ readerPc' = "read"
    /\ UNCHANGED <<host, intr, sendHw, received, slaveIn, rxPc, rxHeld, rxQueue, rxSem,
                   slaveGot, throttling>>

-----------------------------------------------------------------------------
WriteTask == WriteTake \/ WriteLock \/ UseKnownBuffer \/ ReadTokens \/ WriteBlock
ReadTask == OpenDataPath \/ ReadRegs \/ ClearIntr \/ ReadBlock \/ HandOver
SplitTask == SplitTake \/ SplitPush \/ SplitDone
ProcessRxTask == HostRxTask \/ StartWriteTask
RxTask == RxTake \/ RxThrottle \/ SendStartThrottle \/ RxPut
RecvTask == SlaveRead \/ ReadThrottle \/ SendStopThrottle \/ ReadDone

Next ==
    \/ \E q \in Queues : HostQueue(q) \/ HostCount(q)
    \/ WriteTask \/ ReadTask \/ SplitTask \/ ProcessRxTask
    \/ \E interface \in {"serial", "sta"} : SlaveWrite(interface)
    \/ SlaveStartup \/ \E t \in Writers : SlaveQueue(t)
    \/ OfferStream \/ TxDone
    \/ RxTask \/ RecvTask

Spec == Init /\ [][Next]_vars

\* Every task is scheduled and the peripheral works; nobody has to send.  The
\* traffic is finite, so that who waits for the bus lock gets it.
Fairness ==
    /\ \A q \in Queues : WF_vars(HostCount(q))
    /\ WF_vars(WriteTask) /\ WF_vars(ReadTask) /\ WF_vars(SplitTask)
    /\ WF_vars(ProcessRxTask)
    /\ WF_vars(SlaveStartup) /\ \A t \in Writers : WF_vars(SlaveQueue(t))
    /\ WF_vars(OfferStream) /\ WF_vars(TxDone) /\ WF_vars(RxTask) /\ WF_vars(RecvTask)

FairSpec == Spec /\ Fairness

-----------------------------------------------------------------------------
(* Invariants.                                                              *)

Packets == [if : {"serial", "sta", "priv"}, n : Nat]

HostOK ==
    /\ hostSent \in [Queues -> Nat] /\ hostWriter \in [Queues -> {"idle", "count"}]
    /\ toSlave \in [Queues -> Seq(Packets)] /\ toSlaveSem \in Nat
    /\ \A q \in Queues : Len(toSlave[q]) <= ToSlaveSize
    /\ {up, writeStarted, xferSem, rxStarting, throttled} \subseteq BOOLEAN
    /\ writePc \in {"wait", "lock", "check", "write"}
    /\ hostTx \in Seq(Packets) /\ Len(hostTx) <= 1
    /\ hostTx # << >> <=> writePc # "wait"
    /\ retry \in 0..Retries /\ available \in Nat /\ txCount \in 0..(TxMod - 1)
    /\ busLock \in {"free", "read", "write"}
    /\ readPc \in {"open", "wait", "clear", "read", "hand"}
    /\ seenIntr \subseteq {"new", "start", "stop"}
    /\ {seenLen, rxCount} \subseteq 0..(RxMod - 1) /\ lenFromSlave \in Nat
    /\ buffer \in [{0, 1} -> Seq(Packets)]
    /\ readIndex \in {-1, 0, 1} /\ writeIndex \in {0, 1}
    /\ readDataLen \in Nat /\ splitAt \in Nat
    /\ fromSlave \in [Queues -> Seq(Packets)] /\ fromSlaveSem \in Nat
    /\ \A q \in Queues : Len(fromSlave[q]) <= FromSlaveSize
    /\ hostGot \in [Queues -> Seq(Nat)]

SlaveOK ==
    /\ intr \subseteq {"new", "start", "stop"}
    /\ lenReg \in 0..(RxMod - 1) /\ tokenReg \in 0..(TxMod - 1)
    /\ sendQueue \in Seq(Packets) /\ onWire \in Seq(Packets) /\ received \in Seq(Packets)
    /\ finished \in Nat /\ emptyBufs \in Nat /\ sendSem \in Nat
    /\ {opened, hostResetSem, throttling} \subseteq BOOLEAN
    /\ slaveSent \in [Queues -> Nat]
    /\ writer \in [Writers -> Seq({"serial", "sta", "priv"})]
    /\ \A t \in Writers : Len(writer[t]) <= 1
    /\ rxPc \in {"recv", "throttle", "sendStart", "put"}
    /\ rxHeld \in Seq(Packets) /\ Len(rxHeld) <= 1 /\ (rxHeld # << >> <=> rxPc # "recv")
    /\ rxQueue \in [Queues -> Seq(Packets)] /\ rxSem \in Nat
    /\ readerPc \in {"read", "throttle", "sendStop", "handle"}
    /\ slaveGot \in [Queues -> Seq(Nat)]

\* The queues of the host keep their capacities (sdio_drv.c:1258-1264) and the
\* counters stay below their moduli.
TypeOK == HostOK /\ SlaveOK

Waiting(queues) == Len(queues["serial"]) + Len(queues["others"])
OneIf(condition) == IF condition THEN 1 ELSE 0
\* Slots taken and not yet filled.
Held(w) == Len(w["serial"]) + Len(w["sta"]) + Len(w["reset"])

\* Every counting semaphore counts what it stands for: no task takes one and finds
\* its queues empty, no packet stays behind uncounted, the driver's send queue
\* (send_queue_size) is never asked to hold more than it can, and no receive buffer
\* of the co-processor is lost: it is empty with the driver, filled, or with a task.
CountsMatch ==
    /\ Waiting(toSlave) = toSlaveSem + OneIf(hostWriter["serial"] = "count")
                                     + OneIf(hostWriter["others"] = "count")
    /\ Waiting(fromSlave) = fromSlaveSem
    /\ Waiting(rxQueue) = rxSem
    /\ sendSem + Held(writer) + Len(sendQueue) + Len(onWire) + finished = SendQueueSize
    /\ emptyBufs + Len(received) + Len(rxHeld) + Waiting(rxQueue)
         + OneIf(readerPc # "read") = RxBuffers

\* The host's idea of the empty buffers is never too high, though it remembers it,
\* computes it from two counters that wrap, and packets and buffers move while it
\* does: a packet is written only if a buffer is there for it.
CreditsTrue ==
    /\ TokensLeft = emptyBufs
    /\ available + OneIf(writePc = "write") <= emptyBufs

\* sdio_rx_queue never makes sdio_rx_task wait, so that it always comes to the next
\* filled buffer.
RxPutNeverWaits == rxPc = "put" => Len(rxQueue[QueueOf(rxHeld[1].if)]) < RxBuffers

\* What the host computes from the length register is exactly what the peripheral
\* offers, so that a stream is cut at packet boundaries; "the co-processor can send
\* at most (Tx queue size)" packets at once (docs/sdio.md:608).
LengthTrue ==
    /\ readPc = "read" => lenFromSlave = Len(onWire)
    /\ lenFromSlave <= SendQueueSize

\* Nothing but differences of counters that wrap tells the host how much it may write
\* and how much it is to read, and both are true at every moment they are used.
CountersTrue == CreditsTrue /\ LengthTrue

\* The two buffers belong to two tasks: the one that is read into is not the one
\* that is taken apart.
BuffersSeparate ==
    /\ readIndex # writeIndex
    /\ splitAt > 0 => readIndex >= 0 /\ readDataLen = Len(buffer[readIndex])

-----------------------------------------------------------------------------
(* Each direction keeps the promise of OrderedLink.                         *)

ToSlaveLink == INSTANCE OrderedLink
    WITH accepted <- hostSent, handed <- slaveGot, MayDrop <- TRUE

FromSlaveLink == INSTANCE OrderedLink
    WITH accepted <- slaveSent, handed <- hostGot, MayDrop <- TRUE

\* Packets of one queue reach recv_task and the host's handlers in the order they
\* were accepted, each at most once, although packets are dropped when the
\* co-processor has no buffer and streams of them when both buffers are in use.
LinkOrdered == ToSlaveLink!Spec /\ FromSlaveLink!Spec

(* Liveness.                                                                *)

Busy ==
    \/ Waiting(toSlave) > 0 \/ hostTx # << >> \/ received # << >> \/ rxHeld # << >>
    \/ Waiting(rxQueue) > 0 \/ readerPc # "read"
    \/ sendSem < SendQueueSize \/ readIndex >= 0 \/ Waiting(fromSlave) > 0

\* The link always drains: no packet is stuck in it in either direction and every
\* buffer and every place in the send queue is given back, although the two tasks
\* of the host share the bus lock, one of them holds it while it waits for a buffer
\* of the co-processor, and several puts wait for room.
LinkDrains == Busy ~> ~Busy
=============================================================================

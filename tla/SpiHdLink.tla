----------------------------- MODULE SpiHdLink -----------------------------
(***************************************************************************)
(* The half-duplex SPI link: the host's spi_hd_drv.c, the co-processor's   *)
(* spi_hd_slave_api.c and the SPI slave driver between them.               *)
(*                                                                         *)
(* The driver of the co-processor has one transaction loaded in each       *)
(* direction; the next one is loaded when the host is done with it.        *)
(* Loading counts up a register, RX_BUF_LEN for a buffer the host may      *)
(* write, TX_BUF_LEN for bytes it may read, and raises Data Ready in the   *)
(* second case.  The host is interrupted by the edge of that pin alone and *)
(* lowers it again with the command CMD9.  Throttling is told in packets   *)
(* of its own, which a task sends whose semaphore is binary.               *)
(*                                                                         *)
(* A packet is its interface and its number in the queue it goes through;  *)
(* it counts one unit of either register.  Of the three priority queues    *)
(* two are modelled.                                                       *)
(*                                                                         *)
(* A definition whose name ends in _<Word> is the definition after it with *)
(* one mistake; Spec does not use it.                                      *)
(***************************************************************************)
EXTENDS Integers, Sequences

CONSTANTS
    HostMax,       \* BOUND: packets the host sends, by queue
    SlaveMax,      \* BOUND: packets the co-processor sends, by queue
    ToSlaveSize,   \* H_SPI_HD_TX_QUEUE_SIZE
    FromSlaveSize, \* H_SPI_HD_RX_QUEUE_SIZE
    QueueSize,     \* SPI_HD_QUEUE_SIZE: receive buffers, places for sending
    TxMod,         \* 2^32, where the count of receive buffers wraps
    RxMod,         \* 2^24, where the count of bytes to read wraps
    Retries,       \* MAX_WRITE_BUF_RETRIES
    ThrottleHigh, ThrottleLow   \* slv_cfg_g.throttle_*_threshold, in percent

Queues == {"serial", "others"}
QueueOf(interface) == IF interface = "serial" THEN "serial" ELSE "others"
Flow == {"flowOn", "flowOff"}

ASSUME BoundsAssumption == HostMax \in [Queues -> Nat] /\ SlaveMax \in [Queues -> Nat]

ASSUME SizesAssumption ==
    /\ {ToSlaveSize, FromSlaveSize, QueueSize, Retries} \subseteq Nat \ {0}
    /\ {TxMod, RxMod} \subseteq Nat \ {0, 1}
    /\ ThrottleHigh \in 0..100 /\ ThrottleLow \in 0..100

VARIABLES
    \* host
    hostSent,     \* packets handed to esp_hosted_tx, by queue
    hostWriter,   \* where the task that sends through each queue is
    toSlave, toSlaveSem,        \* to_slave_queue, sem_to_slave_queue
    up,           \* the transport accepts packets (is_transport_tx_ready)
    writeStarted, \* spi_hd_start_write_thread
    writePc, hostTx, retry,     \* spi_hd_write_task, its packet, its retries left
    available,    \* buf_available, kept between calls
    txCount,      \* spi_hd_tx_buf_count
    busLock,      \* spi_hd_bus_lock: "free", "read" or "write"
    drSem,        \* spi_hd_data_ready_sem
    readPc, seenLen, rxbuff,    \* spi_hd_read_task, the register and data it has read
    rxCount,      \* spi_hd_rx_byte_count
    fromSlave, fromSlaveSem,    \* from_slave_queue, sem_from_slave_queue
    rxStarting,   \* spi_hd_process_rx_task has still to start the write task
    hostGot,      \* packets processed, by queue
    throttled,    \* wifi_tx_throttling
    \* SPI slave driver, its registers and the pin
    dr,           \* Data Ready
    txReg, rxReg, \* TX_BUF_LEN and RX_BUF_LEN (tx_ready_buf_size, rx_ready_buf_num)
    txQueue, txLoaded, finished,  \* packets queued, loaded, read and not collected
    rxFree, rxLoaded, received,   \* empty buffers queued, one loaded, filled ones
    \* co-processor
    slaveCtrl,    \* SLAVE_CTRL: the host has opened the data path
    opened,       \* datapath, and the state of the interface
    hostResetSem, \* host_reset_sem
    slaveSent,    \* packets written, by queue
    writer,       \* the packet for which a task holds a place, by task
    txSem,        \* mempool_tx_sem
    rxPc, rxHeld, \* spi_hd_rx_task and its packet
    rxQueue, rxSem,             \* spi_hd_rx_queue, spi_hd_rx_sem
    readerPc,     \* recv_task in esp_spi_hd_read and after
    slaveGot,     \* packets recv_task has read, by queue
    throttling,   \* slv_state_g.current_throttling
    wifiFlow,     \* wifi_flow_ctrl
    flowSem, flowCmd            \* flow_ctrl_sem, what flow_ctrl_task is about to send

senders == <<hostSent, hostWriter, toSlave, toSlaveSem>>
writeTask == <<writeStarted, writePc, hostTx, retry, available, txCount>>
readTask == <<readPc, seenLen, rxbuff, rxCount>>
hostOut == <<up, fromSlave, fromSlaveSem, rxStarting, hostGot>>
host == <<senders, writeTask, busLock, readTask, hostOut, throttled>>
sendHw == <<dr, drSem, txReg, txQueue, txLoaded, finished>>
recvHw == <<rxReg, rxFree, rxLoaded, received>>
slaveIn == <<slaveCtrl, opened, hostResetSem, slaveSent, writer, txSem>>
rxTask == <<rxPc, rxHeld>>
slaveOut == <<rxQueue, rxSem, readerPc, slaveGot>>
flow == <<throttling, wifiFlow, flowSem, flowCmd>>
vars == <<host, sendHw, recvHw, slaveIn, rxTask, slaveOut, flow>>

Packet(interface, n) == [if |-> interface, n |-> n]
FirstQueue(queues) == IF queues["serial"] # << >> THEN "serial" ELSE "others"
PutIn(queues, p) == [queues EXCEPT ![QueueOf(p.if)] = Append(@, p)]

\* Tasks of the co-processor that write: pserial_task and the Wi-Fi task's receive
\* callback call esp_spi_hd_write themselves (BYPASS_TX_PRIORITY_Q 1), beside
\* host_reset_task and flow_ctrl_task.
Writers == {"serial", "sta", "reset", "flow"}

Init ==
    /\ hostSent = [q \in Queues |-> 0] /\ hostWriter = [q \in Queues |-> "idle"]
    /\ toSlave = [q \in Queues |-> << >>] /\ toSlaveSem = 0
    /\ up = FALSE /\ writeStarted = FALSE
    /\ writePc = "wait" /\ hostTx = << >> /\ retry = 0 /\ available = 0 /\ txCount = 0
    /\ busLock = "free" /\ drSem = 0
    /\ readPc = "open" /\ seenLen = 0 /\ rxbuff = << >> /\ rxCount = 0
    /\ fromSlave = [q \in Queues |-> << >>] /\ fromSlaveSem = 0 /\ rxStarting = FALSE
    /\ hostGot = [q \in Queues |-> << >>] /\ throttled = FALSE
    /\ dr = FALSE /\ txReg = 0 /\ rxReg = 0
    /\ txQueue = << >> /\ txLoaded = << >> /\ finished = 0
    /\ rxFree = 0 /\ rxLoaded = FALSE /\ received = << >>
    /\ slaveCtrl = FALSE /\ opened = FALSE /\ hostResetSem = FALSE
    /\ slaveSent = [q \in Queues |-> 0]
    /\ writer = [t \in Writers |-> << >>] /\ txSem = QueueSize
    /\ rxPc = "open" /\ rxHeld = << >>
    /\ rxQueue = [q \in Queues |-> << >>] /\ rxSem = 0
    /\ readerPc = "read" /\ slaveGot = [q \in Queues |-> << >>]
    /\ throttling = FALSE /\ wifiFlow = FALSE /\ flowSem = FALSE /\ flowCmd = << >>

-----------------------------------------------------------------------------
(* The host's senders: esp_hosted_tx, and transport_drv_sta_tx before it.   *)

HostQueue(q) ==
    /\ hostWriter[q] = "idle" /\ hostSent[q] < HostMax[q]
    /\ up /\ (q = "others" => ~throttled)
    /\ Len(toSlave[q]) < ToSlaveSize
    /\ hostSent' = [hostSent EXCEPT ![q] = @ + 1]
    /\ toSlave' = PutIn(toSlave, Packet(IF q = "serial" THEN "serial" ELSE "sta",
                                        hostSent[q] + 1))
    /\ hostWriter' = [hostWriter EXCEPT ![q] = "count"]
    /\ UNCHANGED <<toSlaveSem, writeTask, busLock, readTask, hostOut, throttled, sendHw,
                   recvHw, slaveIn, rxTask, slaveOut, flow>>

HostCount(q) ==
    /\ hostWriter[q] = "count"
    /\ toSlaveSem' = toSlaveSem + 1
    /\ hostWriter' = [hostWriter EXCEPT ![q] = "idle"]
    /\ UNCHANGED <<hostSent, toSlave, writeTask, busLock, readTask, hostOut, throttled,
                   sendHw, recvHw, slaveIn, rxTask, slaveOut, flow>>

-----------------------------------------------------------------------------
(* spi_hd_write_task, spi_hd_write_packet and                               *)
(* spi_hd_is_write_buffer_available.                                        *)

WriteTake ==
    /\ writePc = "wait" /\ writeStarted /\ toSlaveSem > 0
    /\ toSlaveSem' = toSlaveSem - 1
    /\ LET q == FirstQueue(toSlave)
       IN /\ hostTx' = <<Head(toSlave[q])>>
          /\ toSlave' = [toSlave EXCEPT ![q] = Tail(@)]
    /\ writePc' = "lock"
    /\ UNCHANGED <<hostSent, hostWriter, writeStarted, retry, available, txCount, busLock,
                   readTask, hostOut, throttled, sendHw, recvHw, slaveIn, rxTask,
                   slaveOut, flow>>

WriteLock ==
    /\ writePc = "lock" /\ busLock = "free"
    /\ busLock' = "write"
    /\ retry' = Retries
    /\ writePc' = "check"
    /\ UNCHANGED <<senders, writeStarted, hostTx, available, txCount, readTask, hostOut,
                   throttled, sendHw, recvHw, slaveIn, rxTask, slaveOut, flow>>

\* spi_hd_get_tx_buffer_num
BuffersLeft == (rxReg + TxMod - txCount) % TxMod

\* The register is read only if no buffer is known, and then again and again, with
\* the bus locked, until one is free or the retries are used up.
FindBuffer ==
    /\ writePc = "check"
    /\ LET known == IF available > 0 THEN available ELSE BuffersLeft
       IN IF known > 0
            THEN /\ available' = known - 1
                 /\ writePc' = "write"
                 /\ UNCHANGED <<hostTx, retry, busLock>>
            ELSE /\ retry' = retry - 1
                 /\ IF retry > 1
                      THEN UNCHANGED <<writePc, hostTx, busLock>>
                      ELSE writePc' = "wait" /\ hostTx' = << >> /\ busLock' = "free"
                 /\ UNCHANGED available
    /\ UNCHANGED <<senders, writeStarted, txCount, readTask, hostOut, throttled, sendHw,
                   recvHw, slaveIn, rxTask, slaveOut, flow>>

\* _h_spi_hd_write_dma: the packet goes into the loaded buffer.
WriteDma ==
    /\ writePc = "write" /\ rxLoaded
    /\ rxLoaded' = FALSE
    /\ received' = received \o hostTx
    /\ txCount' = (txCount + 1) % TxMod
    /\ hostTx' = << >>
    /\ busLock' = "free" /\ writePc' = "wait"
    /\ UNCHANGED <<senders, writeStarted, retry, available, readTask, hostOut, throttled,
                   sendHw, rxReg, rxFree, slaveIn, rxTask, slaveOut, flow>>

-----------------------------------------------------------------------------
(* spi_hd_read_task and gpio_dr_isr_handler.                                *)

\* The interrupt is installed before the co-processor is told to begin.
OpenDataPath ==
    /\ readPc = "open"
    /\ slaveCtrl' = TRUE
    /\ readPc' = "wait"
    /\ UNCHANGED <<senders, writeTask, busLock, seenLen, rxbuff, rxCount, hostOut,
                   throttled, sendHw, recvHw, opened, hostResetSem, slaveSent, writer,
                   txSem, rxTask, slaveOut, flow>>

ReadTake ==
    /\ readPc = "wait" /\ drSem > 0
    /\ drSem' = drSem - 1
    /\ readPc' = "lock"
    /\ UNCHANGED <<senders, writeTask, busLock, seenLen, rxbuff, rxCount, hostOut,
                   throttled, dr, txReg, txQueue, txLoaded, finished, recvHw, slaveIn,
                   rxTask, slaveOut, flow>>

ReadReg ==
    /\ readPc = "lock" /\ busLock = "free"
    /\ busLock' = "read"
    /\ seenLen' = txReg
    /\ readPc' = "cmd9"
    /\ UNCHANGED <<senders, writeTask, rxbuff, rxCount, hostOut, throttled, sendHw, recvHw,
                   slaveIn, rxTask, slaveOut, flow>>

SizeToXfer_NoWrap == IF seenLen > rxCount THEN seenLen - rxCount ELSE 0
SizeToXfer == (seenLen + RxMod - rxCount) % RxMod

SendCmd9_Skipped ==
    /\ readPc = "cmd9"
    /\ IF SizeToXfer > 0
         THEN readPc' = "read" /\ UNCHANGED busLock
         ELSE readPc' = "wait" /\ busLock' = "free"
    /\ UNCHANGED <<senders, writeTask, seenLen, rxbuff, rxCount, hostOut, throttled,
                   sendHw, recvHw, slaveIn, rxTask, slaveOut, flow>>
\* cb_cmd9_recv lowers the pin at once.
SendCmd9 ==
    /\ readPc = "cmd9"
    /\ dr' = FALSE
    /\ IF SizeToXfer > 0
         THEN readPc' = "read" /\ UNCHANGED busLock
         ELSE readPc' = "wait" /\ busLock' = "free"
    /\ UNCHANGED <<senders, writeTask, seenLen, rxbuff, rxCount, hostOut, throttled,
                   drSem, txReg, txQueue, txLoaded, finished, recvHw, slaveIn, rxTask,
                   slaveOut, flow>>

CountRead_NoWrap == rxCount + SizeToXfer
CountRead == (rxCount + SizeToXfer) % RxMod

\* _h_spi_hd_read_dma
ReadDma ==
    /\ readPc = "read"
    /\ rxbuff' = txLoaded
    /\ txLoaded' = << >> /\ finished' = finished + Len(txLoaded)
    /\ rxCount' = CountRead
    /\ busLock' = "free"
    /\ readPc' = "push"
    /\ UNCHANGED <<senders, writeTask, seenLen, hostOut, throttled, dr, drSem, txReg,
                   txQueue, recvHw, slaveIn, rxTask, slaveOut, flow>>

\* spi_hd_push_data_to_queue: update_flow_ctrl takes what is for it.
UpdateFlowCtrl ==
    /\ readPc = "push" /\ rxbuff # << >> /\ rxbuff[1].if \in Flow
    /\ throttled' = (rxbuff[1].if = "flowOn")
    /\ rxbuff' = << >> /\ readPc' = "wait"
    /\ UNCHANGED <<senders, writeTask, busLock, seenLen, rxCount, hostOut, sendHw, recvHw,
                   slaveIn, rxTask, slaveOut, flow>>

PushPacket_Again ==
    /\ readPc = "push" /\ rxbuff # << >> /\ rxbuff[1].if \notin Flow
    /\ Len(fromSlave[QueueOf(rxbuff[1].if)]) < FromSlaveSize
    /\ fromSlave' = PutIn(fromSlave, rxbuff[1])
    /\ fromSlaveSem' = fromSlaveSem + 1
    /\ \/ rxbuff' = << >> /\ readPc' = "wait"
       \/ UNCHANGED <<rxbuff, readPc>>
    /\ UNCHANGED <<senders, writeTask, busLock, seenLen, rxCount, up, rxStarting, hostGot,
                   throttled, sendHw, recvHw, slaveIn, rxTask, slaveOut, flow>>
\* The put waits while from_slave_queue is full.
PushPacket ==
    /\ readPc = "push" /\ rxbuff # << >> /\ rxbuff[1].if \notin Flow
    /\ Len(fromSlave[QueueOf(rxbuff[1].if)]) < FromSlaveSize
    /\ fromSlave' = PutIn(fromSlave, rxbuff[1])
    /\ fromSlaveSem' = fromSlaveSem + 1
    /\ rxbuff' = << >> /\ readPc' = "wait"
    /\ UNCHANGED <<senders, writeTask, busLock, seenLen, rxCount, up, rxStarting, hostGot,
                   throttled, sendHw, recvHw, slaveIn, rxTask, slaveOut, flow>>

-----------------------------------------------------------------------------
(* spi_hd_process_rx_task.                                                  *)

HostRxTask ==
    /\ fromSlaveSem > 0 /\ ~rxStarting
    /\ fromSlaveSem' = fromSlaveSem - 1
    /\ LET q == FirstQueue(fromSlave)
           p == Head(fromSlave[q])
       IN /\ fromSlave' = [fromSlave EXCEPT ![q] = Tail(@)]
          /\ hostGot' = [hostGot EXCEPT ![q] = Append(@, p.n)]
          /\ up' = (up \/ p.if = "priv")
          /\ rxStarting' = (p.if = "priv")
    /\ UNCHANGED <<senders, writeTask, busLock, readTask, throttled, sendHw, recvHw,
                   slaveIn, rxTask, slaveOut, flow>>

StartWriteTask ==
    /\ rxStarting
    /\ rxStarting' = FALSE /\ writeStarted' = TRUE
    /\ UNCHANGED <<senders, writePc, hostTx, retry, available, txCount, busLock, readTask,
                   up, fromSlave, fromSlaveSem, hostGot, throttled, sendHw, recvHw,
                   slaveIn, rxTask, slaveOut, flow>>

-----------------------------------------------------------------------------
(* The SPI slave driver of the co-processor and its callbacks.              *)

\* cb_tx_ready; a rising edge of the pin interrupts the host.
LoadTx ==
    /\ txLoaded = << >> /\ txQueue # << >>
    /\ txLoaded' = <<Head(txQueue)>> /\ txQueue' = Tail(txQueue)
    /\ txReg' = (txReg + 1) % RxMod
    /\ dr' = TRUE
    /\ drSem' = drSem + (IF dr THEN 0 ELSE 1)
    /\ UNCHANGED <<host, finished, recvHw, slaveIn, rxTask, slaveOut, flow>>

\* cb_rx_ready
LoadRx ==
    /\ ~rxLoaded /\ rxFree > 0
    /\ rxLoaded' = TRUE /\ rxFree' = rxFree - 1
    /\ rxReg' = (rxReg + 1) % TxMod
    /\ UNCHANGED <<host, sendHw, received, slaveIn, rxTask, slaveOut, flow>>

-----------------------------------------------------------------------------
(* The co-processor's writers: esp_spi_hd_write, generate_startup_event and *)
(* flow_ctrl_task.                                                          *)

TakePlace(t, interface) ==
    /\ writer[t] = << >> /\ txSem > 0
    /\ txSem' = txSem - 1
    /\ writer' = [writer EXCEPT ![t] = <<interface>>]
    /\ UNCHANGED <<host, sendHw, recvHw, slaveCtrl, opened, slaveSent, rxTask, slaveOut,
                   throttling, wifiFlow, flowSem>>

\* Packets are refused until the data path is open.
SlaveWrite(interface) ==
    /\ opened /\ slaveSent[QueueOf(interface)] < SlaveMax[QueueOf(interface)]
    /\ TakePlace(interface, interface)
    /\ UNCHANGED <<hostResetSem, flowCmd>>

SlaveStartup ==
    /\ hostResetSem
    /\ hostResetSem' = FALSE
    /\ TakePlace("reset", "priv")
    /\ UNCHANGED flowCmd

\* The level is read after the semaphore is taken, however often it was given.
FlowTake ==
    /\ flowSem /\ flowCmd = << >>
    /\ flowSem' = FALSE
    /\ flowCmd' = <<IF wifiFlow THEN "flowOn" ELSE "flowOff">>
    /\ UNCHANGED <<host, sendHw, recvHw, slaveIn, rxTask, slaveOut, throttling, wifiFlow>>

FlowWrite ==
    /\ flowCmd # << >> /\ writer["flow"] = << >>
    /\ TakePlace("flow", flowCmd[1])
    /\ UNCHANGED <<hostResetSem, flowCmd>>

\* spi_slave_hd_queue_trans
SlaveQueue(t) ==
    /\ writer[t] # << >>
    /\ LET interface == writer[t][1]
           q == QueueOf(interface)
       IN IF interface \in Flow
            THEN txQueue' = Append(txQueue, Packet(interface, 0)) /\ UNCHANGED slaveSent
            ELSE /\ txQueue' = Append(txQueue, Packet(interface, slaveSent[q] + 1))
                 /\ slaveSent' = [slaveSent EXCEPT ![q] = @ + 1]
    /\ writer' = [writer EXCEPT ![t] = << >>]
    /\ flowCmd' = IF t = "flow" THEN << >> ELSE flowCmd
    /\ UNCHANGED <<host, dr, drSem, txReg, txLoaded, finished, recvHw, slaveCtrl, opened,
                   hostResetSem, txSem, rxTask, slaveOut, throttling, wifiFlow, flowSem>>

\* spi_hd_tx_done_task
TxDone ==
    /\ finished > 0
    /\ finished' = finished - 1
    /\ txSem' = txSem + 1
    /\ UNCHANGED <<host, dr, drSem, txReg, txQueue, txLoaded, recvHw, slaveCtrl, opened,
                   hostResetSem, slaveSent, writer, rxTask, slaveOut, flow>>

-----------------------------------------------------------------------------
(* The end of esp_spi_hd_init, and spi_hd_rx_task.                          *)

\* All receive buffers are queued before the data path is opened.
SlaveOpen ==
    /\ rxPc = "open" /\ slaveCtrl
    /\ rxFree' = QueueSize
    /\ opened' = TRUE /\ hostResetSem' = TRUE
    /\ rxPc' = "recv"
    /\ UNCHANGED <<host, sendHw, rxReg, rxLoaded, received, slaveCtrl, slaveSent, writer,
                   txSem, rxHeld, slaveOut, flow>>

RxTake ==
    /\ rxPc = "recv" /\ received # << >>
    /\ rxHeld' = <<Head(received)>> /\ received' = Tail(received)
    /\ rxPc' = "throttle"
    /\ UNCHANGED <<host, sendHw, rxReg, rxFree, rxLoaded, slaveIn, slaveOut, flow>>

LoadPercent == (Len(rxQueue["others"]) * 100) \div QueueSize

\* start_rx_data_throttling_if_needed: current_throttling, then wifi_flow_ctrl
\* and the semaphore.
RxThrottle ==
    /\ rxPc = "throttle"
    /\ IF ThrottleHigh > 0 /\ ~throttling /\ LoadPercent > ThrottleHigh
         THEN throttling' = TRUE /\ rxPc' = "flow"
         ELSE rxPc' = "put" /\ UNCHANGED throttling
    /\ UNCHANGED <<host, sendHw, recvHw, slaveIn, rxHeld, slaveOut, wifiFlow, flowSem,
                   flowCmd>>

SetFlow_NotWhileSending(on) ==
    /\ wifiFlow' = on
    /\ flowSem' = (flowSem \/ flowCmd = << >>)
    /\ UNCHANGED <<throttling, flowCmd>>
\* trigger_flow_ctrl
SetFlow(on) == wifiFlow' = on /\ flowSem' = TRUE /\ UNCHANGED <<throttling, flowCmd>>

RxFlow ==
    /\ rxPc = "flow"
    /\ SetFlow(TRUE)
    /\ rxPc' = "put"
    /\ UNCHANGED <<host, sendHw, recvHw, slaveIn, rxHeld, slaveOut>>

RxPut ==
    /\ rxPc = "put"
    /\ Len(rxQueue[QueueOf(rxHeld[1].if)]) < QueueSize
    /\ rxQueue' = PutIn(rxQueue, rxHeld[1])
    /\ rxSem' = rxSem + 1
    /\ rxHeld' = << >> /\ rxPc' = "recv"
    /\ UNCHANGED <<host, sendHw, recvHw, slaveIn, readerPc, slaveGot, flow>>

-----------------------------------------------------------------------------
(* recv_task: esp_spi_hd_read, the handling of the packet, spi_hd_read_done.*)

SlaveRead ==
    /\ readerPc = "read" /\ rxSem > 0
    /\ rxSem' = rxSem - 1
    /\ LET q == FirstQueue(rxQueue)
       IN /\ rxQueue' = [rxQueue EXCEPT ![q] = Tail(@)]
          /\ slaveGot' = [slaveGot EXCEPT ![q] = Append(@, Head(rxQueue[q]).n)]
    /\ readerPc' = "throttle"
    /\ UNCHANGED <<host, sendHw, recvHw, slaveIn, rxTask, flow>>

\* stop_rx_data_throttling_if_needed
ReadThrottle ==
    /\ readerPc = "throttle"
    /\ IF throttling /\ LoadPercent < ThrottleLow
         THEN throttling' = FALSE /\ readerPc' = "flow"
         ELSE readerPc' = "handle" /\ UNCHANGED throttling
    /\ UNCHANGED <<host, sendHw, recvHw, slaveIn, rxTask, rxQueue, rxSem, slaveGot,
                   wifiFlow, flowSem, flowCmd>>

ReadFlow ==
    /\ readerPc = "flow"
    /\ SetFlow(FALSE)
    /\ readerPc' = "handle"
    /\ UNCHANGED <<host, sendHw, recvHw, slaveIn, rxTask, rxQueue, rxSem, slaveGot>>

\* The buffer is queued again when the packet has been handled.
ReadDone ==
    /\ readerPc = "handle"
    /\ rxFree' = rxFree + 1
    /\ readerPc' = "read"
    /\ UNCHANGED <<host, sendHw, rxReg, rxLoaded, received, slaveIn, rxTask, rxQueue,
                   rxSem, slaveGot, flow>>

-----------------------------------------------------------------------------
WriteTask == WriteTake \/ WriteLock \/ FindBuffer \/ WriteDma
ReadTask ==
    \/ OpenDataPath \/ ReadTake \/ ReadReg \/ SendCmd9 \/ ReadDma
    \/ UpdateFlowCtrl \/ PushPacket
ProcessRxTask == HostRxTask \/ StartWriteTask
FlowTask == FlowTake \/ FlowWrite \/ SlaveQueue("flow")
RxTask == SlaveOpen \/ RxTake \/ RxThrottle \/ RxFlow \/ RxPut
RecvTask == SlaveRead \/ ReadThrottle \/ ReadFlow \/ ReadDone

Next ==
    \/ \E q \in Queues : HostQueue(q) \/ HostCount(q)
    \/ WriteTask \/ ReadTask \/ ProcessRxTask
    \/ LoadTx \/ LoadRx \/ TxDone
    \/ \E interface \in {"serial", "sta"} : SlaveWrite(interface)
    \/ SlaveStartup \/ \E t \in Writers \ {"flow"} : SlaveQueue(t)
    \/ FlowTask \/ RxTask \/ RecvTask

Spec == Init /\ [][Next]_vars

\* Every task is scheduled and the driver's interrupts are served; nobody has to
\* send.
Fairness ==
    /\ \A q \in Queues : WF_vars(HostCount(q))
    /\ WF_vars(WriteTask) /\ WF_vars(ReadTask) /\ WF_vars(ProcessRxTask)
    /\ WF_vars(LoadTx) /\ WF_vars(LoadRx) /\ WF_vars(TxDone)
    /\ WF_vars(SlaveStartup) /\ \A t \in Writers \ {"flow"} : WF_vars(SlaveQueue(t))
    /\ WF_vars(FlowTask) /\ WF_vars(RxTask) /\ WF_vars(RecvTask)

FairSpec == Spec /\ Fairness

-----------------------------------------------------------------------------
(* Invariants.                                                              *)

Interfaces == {"serial", "sta", "priv"}
Packets == [if : Interfaces, n : Nat]
Loads == [if : Interfaces \cup Flow, n : Nat]

HostOK ==
    /\ hostSent \in [Queues -> Nat] /\ hostWriter \in [Queues -> {"idle", "count"}]
    /\ toSlave \in [Queues -> Seq(Packets)] /\ toSlaveSem \in Nat
    /\ \A q \in Queues : Len(toSlave[q]) <= ToSlaveSize
    /\ {up, writeStarted, rxStarting, throttled} \subseteq BOOLEAN
    /\ writePc \in {"wait", "lock", "check", "write"}
    /\ hostTx \in Seq(Packets) /\ Len(hostTx) <= 1
    /\ hostTx # << >> <=> writePc # "wait"
    /\ retry \in 0..Retries /\ available \in Nat /\ txCount \in 0..(TxMod - 1)
    /\ busLock \in {"free", "read", "write"} /\ drSem \in Nat
    /\ readPc \in {"open", "wait", "lock", "cmd9", "read", "push"}
    /\ {seenLen, rxCount} \subseteq 0..(RxMod - 1)
    /\ rxbuff \in Seq(Loads) /\ Len(rxbuff) <= 1
    /\ fromSlave \in [Queues -> Seq(Packets)] /\ fromSlaveSem \in Nat
    /\ \A q \in Queues : Len(fromSlave[q]) <= FromSlaveSize
    /\ hostGot \in [Queues -> Seq(Nat)]

SlaveOK ==
    /\ {dr, rxLoaded} \subseteq BOOLEAN
    /\ txReg \in 0..(RxMod - 1) /\ rxReg \in 0..(TxMod - 1)
    /\ {txQueue, txLoaded} \subseteq Seq(Loads) /\ Len(txLoaded) <= 1
    /\ received \in Seq(Packets) /\ {finished, rxFree, txSem} \subseteq Nat
    /\ {slaveCtrl, opened, hostResetSem} \subseteq BOOLEAN
    /\ slaveSent \in [Queues -> Nat]
    /\ writer \in [Writers -> Seq(Interfaces \cup Flow)]
    /\ \A t \in Writers : Len(writer[t]) <= 1
    /\ rxPc \in {"open", "recv", "throttle", "flow", "put"}
    /\ rxHeld \in Seq(Packets) /\ Len(rxHeld) <= 1
    /\ rxHeld # << >> <=> rxPc \notin {"open", "recv"}
    /\ rxQueue \in [Queues -> Seq(Packets)] /\ rxSem \in Nat
    /\ \A q \in Queues : Len(rxQueue[q]) <= QueueSize
    /\ readerPc \in {"read", "throttle", "flow", "handle"}
    /\ slaveGot \in [Queues -> Seq(Nat)]
    /\ {throttling, wifiFlow, flowSem} \subseteq BOOLEAN
    /\ flowCmd \in Seq(Flow) /\ Len(flowCmd) <= 1

\* The queues of both sides keep their capacities, the registers stay below their
\* moduli.
TypeOK == HostOK /\ SlaveOK

Waiting(queues) == Len(queues["serial"]) + Len(queues["others"])
OneIf(condition) == IF condition THEN 1 ELSE 0

\* A loaded packet is announced by exactly one edge of Data Ready, so that the host
\* neither misses one nor is woken for nothing: the pin is low when a packet is
\* loaded, although the host lowers it only some time after it has read the register,
\* and what it computes from a register that wraps is that packet.
Announced ==
    /\ Len(txLoaded) = drSem + OneIf(readPc \in {"lock", "cmd9", "read"})
    /\ dr <=> drSem > 0 \/ readPc \in {"lock", "cmd9"}
    /\ readPc \in {"cmd9", "read"} => SizeToXfer = Len(txLoaded)

\* The host writes only into a loaded buffer, though it remembers how many there are
\* and computes it from counters that wrap; and no buffer is lost.
CreditsTrue ==
    /\ BuffersLeft = OneIf(rxLoaded)
    /\ available + OneIf(writePc = "write") <= OneIf(rxLoaded)
    /\ opened => rxFree + OneIf(rxLoaded) + Len(received) + Len(rxHeld) + Waiting(rxQueue)
                    + OneIf(readerPc # "read") = QueueSize

RegistersTrue == Announced /\ CreditsTrue

\* When flow_ctrl_task has nothing left to do and no packet of it is on its way, the
\* host does what the last writer of wifi_flow_ctrl wanted: a binary semaphore that
\* was given twice loses no change, and of two packets the later one counts.
OnItsWay(p) == p.if \in Flow
FlowTold ==
    \/ flowSem \/ flowCmd # << >>
    \/ \E i \in DOMAIN txQueue : OnItsWay(txQueue[i])
    \/ \E i \in DOMAIN txLoaded : OnItsWay(txLoaded[i])
    \/ \E i \in DOMAIN rxbuff : OnItsWay(rxbuff[i])
    \/ throttled = wifiFlow

-----------------------------------------------------------------------------
(* Each direction keeps the promise of OrderedLink.                         *)

ToSlaveLink == INSTANCE OrderedLink
    WITH accepted <- hostSent, handed <- slaveGot, MayDrop <- TRUE

FromSlaveLink == INSTANCE OrderedLink
    WITH accepted <- slaveSent, handed <- hostGot, MayDrop <- FALSE

\* Packets of one queue are handed over in the order they were accepted, each at most
\* once; towards the host none is lost, towards the co-processor those that found no
\* buffer.
LinkOrdered == ToSlaveLink!Spec /\ FromSlaveLink!Spec

(* Liveness.                                                                *)

Busy ==
    \/ Waiting(toSlave) > 0 \/ hostTx # << >> \/ received # << >> \/ rxHeld # << >>
    \/ Waiting(rxQueue) > 0 \/ readerPc # "read"
    \/ txSem < QueueSize \/ rxbuff # << >> \/ Waiting(fromSlave) > 0
    \/ flowSem \/ flowCmd # << >>

\* The link always drains: no packet is stuck in it in either direction, every buffer
\* and every place for sending is given back and every change of the throttling is
\* told, although the two tasks of the host share the bus lock, one holds it while it
\* waits for a buffer of the co-processor, and nothing but an edge wakes the other.
LinkDrains == Busy ~> ~Busy
=============================================================================

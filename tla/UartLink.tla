------------------------------ MODULE UartLink ------------------------------
(***************************************************************************)
(* The UART link: the host's uart_drv.c with uart_wrapper.c, the           *)
(* co-processor's uart_slave_api.c, and the UART drivers and the two wires *)
(* between them.                                                           *)
(*                                                                         *)
(* A packet travels as a header, which holds its length, and its payload;  *)
(* nothing on the wire marks where one begins.  There is no flow control   *)
(* (UART_HW_FLOWCTRL_DISABLE, USE_DATA_THROTTLING 0): when a receiver's    *)
(* driver buffer is full, what arrives is lost, and its reader takes part  *)
(* of a payload for a header.  A host that starts finds in its driver's    *)
(* buffer what the co-processor was sending to the host before.            *)
(*                                                                         *)
(* A unit is a header or a piece of a payload.  The checksum, on by        *)
(* default on both sides, is taken to tell every packet from everything    *)
(* else.  Of the three priority queues two are modelled.                   *)
(*                                                                         *)
(* A definition whose name ends in _<Word> is the definition after it with *)
(* one mistake; Spec does not use it.                                      *)
(***************************************************************************)
EXTENDS Integers, Sequences

CONSTANTS
    HostMax,       \* BOUND: packets the host sends, by queue
    SlaveMax,      \* BOUND: packets the co-processor sends, by queue
    PayloadUnits,  \* units of a payload
    DriverBuffer,  \* room of a UART driver's transmit and receive buffer, in units
    Leftover,      \* BOUND: units found in the host's receive buffer at its start
    ToSlaveSize,   \* H_UART_TX_QUEUE_SIZE
    FromSlaveSize, \* H_UART_RX_QUEUE_SIZE
    RxQueueSize    \* HOSTED_UART_RX_QUEUE_SIZE

Queues == {"serial", "others"}
Sides == {"host", "slave"}   \* who receives
Writers == {"rpc", "wifi", "reset"}

\* One packet fits a driver's buffer (BUFFER_SIZE, MAX_UART_BUFFER_SIZE).
ASSUME SizesAssumption ==
    /\ HostMax \in [Queues -> Nat] /\ SlaveMax \in [Queues -> Nat]
    /\ {PayloadUnits, ToSlaveSize, FromSlaveSize, RxQueueSize} \subseteq Nat \ {0}
    /\ DriverBuffer \in Nat /\ PayloadUnits < DriverBuffer
    /\ Leftover \in 0..DriverBuffer

VARIABLES
    hostSent,     \* packets handed to esp_hosted_tx, by queue
    hostWriter,   \* where the task that sends through each queue is
    toSlave, toSlaveSem,        \* to_slave_queue, sem_to_slave_queue
    up,           \* the transport accepts packets (is_transport_tx_ready)
    writeStarted, \* uart_start_write_thread
    txNeeded,     \* tx_needed of h_uart_write_task
    hostTx,       \* the packet it sends
    fromSlave, fromSlaveSem,    \* from_slave_queue, sem_from_slave_queue
    rxStarting,   \* h_uart_process_rx_task has still to start the write task
    hostGot,      \* packets processed, by queue
    \* wires and drivers, by the side that receives
    line,         \* the sender's transmit buffer and the wire
    ring,         \* the receiver's receive buffer
    torn,         \* history: the receiver missed part of what was sent
    \* h_uart_read_task of the host, uart_rx_task of the co-processor
    readPc, frame, missing,     \* what has been read, units still to be read
    \* co-processor
    opened,       \* datapath, and the state of the interface
    hostResetSem, \* host_reset_sem
    slaveSent,    \* packets written, by queue
    draining,     \* writers that wait for the line to become empty
    rxQueue, rxSem,             \* uart_rx_queue, uart_rx_sem
    readerPc,     \* recv_task in h_uart_read and after
    slaveGot      \* packets recv_task has read, by queue

senders == <<hostSent, hostWriter, toSlave, toSlaveSem>>
writeTask == <<writeStarted, txNeeded, hostTx>>
hostOut == <<up, fromSlave, fromSlaveSem, rxStarting, hostGot>>
wires == <<line, ring, torn>>
readers == <<readPc, frame, missing>>
slaveIn == <<opened, hostResetSem, slaveSent, draining>>
slaveOut == <<rxQueue, rxSem, readerPc, slaveGot>>
vars == <<senders, writeTask, hostOut, wires, readers, slaveIn, slaveOut>>

Packet(interface, n) == [if |-> interface, n |-> n]
QueueOf(interface) == IF interface = "serial" THEN "serial" ELSE "others"
FirstQueue(queues) == IF queues["serial"] # << >> THEN "serial" ELSE "others"
PutIn(queues, p) == [queues EXCEPT ![QueueOf(p.if)] = Append(@, p)]

\* What is sent for a packet: the header is part 0.
Units(p) == [i \in 1..(1 + PayloadUnits) |-> [packet |-> p, part |-> i - 1]]
IsPacket(units) == units # << >> /\ units = Units(units[1].packet)

Old == Packet("sta", 0)   \* a packet of before the start
OldUnits(n) == [i \in 1..n |-> [packet |-> Old, part |-> 1]]

Init ==
    /\ hostSent = [q \in Queues |-> 0] /\ hostWriter = [q \in Queues |-> "idle"]
    /\ toSlave = [q \in Queues |-> << >>] /\ toSlaveSem = 0
    /\ up = FALSE /\ writeStarted = FALSE /\ txNeeded = TRUE /\ hostTx = << >>
    /\ fromSlave = [q \in Queues |-> << >>] /\ fromSlaveSem = 0 /\ rxStarting = FALSE
    /\ hostGot = [q \in Queues |-> << >>]
    /\ line = [s \in Sides |-> << >>]
    /\ \E n \in 0..Leftover :
          /\ ring = [s \in Sides |-> IF s = "host" THEN OldUnits(n) ELSE << >>]
          /\ torn = [s \in Sides |-> s = "host" /\ n > 0]
    /\ readPc = [s \in Sides |-> IF s = "host" THEN "header" ELSE "open"]
    /\ frame = [s \in Sides |-> << >>] /\ missing = [s \in Sides |-> 0]
    /\ opened = FALSE /\ hostResetSem = FALSE
    /\ slaveSent = [q \in Queues |-> 0] /\ draining = {}
    /\ rxQueue = [q \in Queues |-> << >>] /\ rxSem = 0 /\ readerPc = "read"
    /\ slaveGot = [q \in Queues |-> << >>]

-----------------------------------------------------------------------------
(* The host: esp_hosted_tx and h_uart_write_task.                           *)

HostQueue(q) ==
    /\ hostWriter[q] = "idle" /\ hostSent[q] < HostMax[q] /\ up
    /\ Len(toSlave[q]) < ToSlaveSize
    /\ hostSent' = [hostSent EXCEPT ![q] = @ + 1]
    /\ toSlave' = PutIn(toSlave, Packet(IF q = "serial" THEN "serial" ELSE "sta",
                                        hostSent[q] + 1))
    /\ hostWriter' = [hostWriter EXCEPT ![q] = "count"]
    /\ UNCHANGED <<toSlaveSem, writeTask, hostOut, wires, readers, slaveIn, slaveOut>>

HostCount_Binary(q) ==
    /\ hostWriter[q] = "count"
    /\ toSlaveSem' = 1
    /\ hostWriter' = [hostWriter EXCEPT ![q] = "idle"]
    /\ UNCHANGED <<hostSent, toSlave, writeTask, hostOut, wires, readers, slaveIn, slaveOut>>
HostCount(q) ==
    /\ hostWriter[q] = "count"
    /\ toSlaveSem' = toSlaveSem + 1
    /\ hostWriter' = [hostWriter EXCEPT ![q] = "idle"]
    /\ UNCHANGED <<hostSent, toSlave, writeTask, hostOut, wires, readers, slaveIn, slaveOut>>

Waiting(queues) == Len(queues["serial"]) + Len(queues["others"])

\* A token without a packet clears tx_needed, which nothing sets again: every
\* later packet would be taken from its queue and dropped.
WriteTake ==
    /\ writeStarted /\ hostTx = << >> /\ toSlaveSem > 0
    /\ toSlaveSem' = toSlaveSem - 1
    /\ IF Waiting(toSlave) = 0
         THEN txNeeded' = FALSE /\ UNCHANGED <<toSlave, hostTx>>
         ELSE LET q == FirstQueue(toSlave)
              IN /\ toSlave' = [toSlave EXCEPT ![q] = Tail(@)]
                 /\ hostTx' = IF txNeeded THEN <<Head(toSlave[q])>> ELSE << >>
                 /\ UNCHANGED txNeeded
    /\ UNCHANGED <<hostSent, hostWriter, writeStarted, hostOut, wires, readers, slaveIn,
                   slaveOut>>

HasRoom(s) == Len(line[s]) + 1 + PayloadUnits <= DriverBuffer
Send(s, p) == line' = [line EXCEPT ![s] = @ \o Units(p)]

\* h_uart_write_packet: uart_write_bytes returns when the driver has it all.
WritePacket ==
    /\ hostTx # << >> /\ HasRoom("slave")
    /\ Send("slave", hostTx[1])
    /\ hostTx' = << >>
    /\ UNCHANGED <<senders, writeStarted, txNeeded, hostOut, ring, torn, readers, slaveIn,
                   slaveOut>>

-----------------------------------------------------------------------------
(* The wires and the receiving drivers.                                     *)

Arrive(s) ==
    /\ line[s] # << >>
    /\ line' = [line EXCEPT ![s] = Tail(@)]
    /\ IF Len(ring[s]) < DriverBuffer
         THEN ring' = [ring EXCEPT ![s] = Append(@, Head(line[s]))] /\ UNCHANGED torn
         ELSE torn' = [torn EXCEPT ![s] = TRUE] /\ UNCHANGED ring
    /\ UNCHANGED <<senders, writeTask, hostOut, readers, slaveIn, slaveOut>>

-----------------------------------------------------------------------------
(* h_uart_read_task and uart_rx_task, which read alike.                     *)

\* uart_rx_task opens the data path first (event_handler).
OpenDataPath ==
    /\ readPc["slave"] = "open"
    /\ opened' = TRUE /\ hostResetSem' = TRUE
    /\ readPc' = [readPc EXCEPT !["slave"] = "header"]
    /\ UNCHANGED <<senders, writeTask, hostOut, wires, frame, missing, slaveSent,
                   draining, slaveOut>>

Lengths_WithHeader(unit) ==
    IF unit.part = 0 THEN {PayloadUnits + 1} ELSE 0..DriverBuffer
\* The length in a header; in a piece of payload taken for a header, any.
Lengths(unit) == IF unit.part = 0 THEN {PayloadUnits} ELSE 0..DriverBuffer

\* A packet that would not fit the buffer is not read: the next header is.
ReadHeader(s) ==
    /\ readPc[s] = "header" /\ ring[s] # << >>
    /\ ring' = [ring EXCEPT ![s] = Tail(@)]
    /\ \E n \in Lengths(Head(ring[s])) :
          IF n < DriverBuffer
            THEN /\ frame' = [frame EXCEPT ![s] = <<Head(ring[s])>>]
                 /\ missing' = [missing EXCEPT ![s] = n]
                 /\ readPc' = [readPc EXCEPT ![s] = "payload"]
            ELSE UNCHANGED <<frame, missing, readPc>>
    /\ UNCHANGED <<senders, writeTask, hostOut, line, torn, slaveIn, slaveOut>>

\* uart_read_bytes waits for as many bytes as it is asked for, without a limit.
ReadPayload(s) ==
    /\ readPc[s] = "payload" /\ missing[s] > 0 /\ ring[s] # << >>
    /\ ring' = [ring EXCEPT ![s] = Tail(@)]
    /\ frame' = [frame EXCEPT ![s] = Append(@, Head(ring[s]))]
    /\ missing' = [missing EXCEPT ![s] = @ - 1]
    /\ UNCHANGED <<senders, writeTask, hostOut, line, torn, readPc, slaveIn, slaveOut>>

CheckPacket_Unchecked(s) ==
    /\ readPc[s] = "payload" /\ missing[s] = 0
    /\ readPc' = [readPc EXCEPT ![s] = "put"]
    /\ UNCHANGED <<senders, writeTask, hostOut, wires, frame, missing, slaveIn, slaveOut>>
\* is_valid_uart_rx_packet on the host.
CheckPacket(s) ==
    /\ readPc[s] = "payload" /\ missing[s] = 0
    /\ IF IsPacket(frame[s])
         THEN readPc' = [readPc EXCEPT ![s] = "put"] /\ UNCHANGED frame
         ELSE /\ readPc' = [readPc EXCEPT ![s] = "header"]
              /\ frame' = [frame EXCEPT ![s] = << >>]
    /\ UNCHANGED <<senders, writeTask, hostOut, wires, missing, slaveIn, slaveOut>>

NextPacket(s) ==
    /\ readPc' = [readPc EXCEPT ![s] = "header"]
    /\ frame' = [frame EXCEPT ![s] = << >>]

\* push_to_rx_queue; the put waits while the queue is full.
HostPut ==
    /\ readPc["host"] = "put"
    /\ LET p == frame["host"][1].packet
       IN /\ Len(fromSlave[QueueOf(p.if)]) < FromSlaveSize
          /\ fromSlave' = PutIn(fromSlave, p)
    /\ fromSlaveSem' = fromSlaveSem + 1
    /\ NextPacket("host")
    /\ UNCHANGED <<senders, writeTask, up, rxStarting, hostGot, wires, missing, slaveIn,
                   slaveOut>>

SlavePut_NoWait ==
    /\ readPc["slave"] = "put"
    /\ rxQueue' = PutIn(rxQueue, frame["slave"][1].packet)
    /\ rxSem' = rxSem + 1
    /\ NextPacket("slave")
    /\ UNCHANGED <<senders, writeTask, hostOut, wires, missing, slaveIn, readerPc, slaveGot>>
SlavePut ==
    /\ readPc["slave"] = "put"
    /\ LET p == frame["slave"][1].packet
       IN /\ Len(rxQueue[QueueOf(p.if)]) < RxQueueSize
          /\ rxQueue' = PutIn(rxQueue, p)
    /\ rxSem' = rxSem + 1
    /\ NextPacket("slave")
    /\ UNCHANGED <<senders, writeTask, hostOut, wires, missing, slaveIn, readerPc, slaveGot>>

-----------------------------------------------------------------------------
(* h_uart_process_rx_task.                                                  *)

\* process_priv_communication lets the upper layers send; the write task is
\* started after it.
HostRxTask ==
    /\ fromSlaveSem > 0 /\ ~rxStarting
    /\ fromSlaveSem' = fromSlaveSem - 1
    /\ LET q == FirstQueue(fromSlave)
           p == Head(fromSlave[q])
       IN /\ fromSlave' = [fromSlave EXCEPT ![q] = Tail(@)]
          /\ hostGot' = [hostGot EXCEPT ![q] = Append(@, p.n)]
          /\ up' = (up \/ p.if = "priv")
          /\ rxStarting' = (p.if = "priv")
    /\ UNCHANGED <<senders, writeTask, wires, readers, slaveIn, slaveOut>>

StartWriteTask ==
    /\ rxStarting
    /\ rxStarting' = FALSE /\ writeStarted' = TRUE
    /\ UNCHANGED <<senders, txNeeded, hostTx, up, fromSlave, fromSlaveSem, hostGot, wires,
                   readers, slaveIn, slaveOut>>

-----------------------------------------------------------------------------
(* The co-processor: process_tx_pkt and h_uart_write, called by the tasks   *)
(* that have something to send (BYPASS_TX_PRIORITY_Q), host_reset_task and  *)
(* generate_startup_event, recv_task.                                       *)

\* The driver's lock keeps a packet in one piece; the writer then waits until
\* everything is transmitted (uart_wait_tx_done).
WriteToHost(t, interface) ==
    /\ t \notin draining /\ HasRoom("host")
    /\ LET q == QueueOf(interface)
       IN /\ Send("host", Packet(interface, slaveSent[q] + 1))
          /\ slaveSent' = [slaveSent EXCEPT ![q] = @ + 1]
    /\ draining' = draining \cup {t}
    /\ UNCHANGED <<senders, writeTask, hostOut, ring, torn, readers, opened, slaveOut>>

\* Before the data path is open packets are refused.
SlaveWrite(t, interface) ==
    /\ opened /\ slaveSent[QueueOf(interface)] < SlaveMax[QueueOf(interface)]
    /\ WriteToHost(t, interface)
    /\ UNCHANGED hostResetSem

SlaveStartup ==
    /\ hostResetSem
    /\ hostResetSem' = FALSE
    /\ WriteToHost("reset", "priv")

Drained(t) ==
    /\ t \in draining /\ line["host"] = << >>
    /\ draining' = draining \ {t}
    /\ UNCHANGED <<senders, writeTask, hostOut, wires, readers, opened, hostResetSem,
                   slaveSent, slaveOut>>

SlaveRead ==
    /\ readerPc = "read" /\ opened /\ rxSem > 0
    /\ rxSem' = rxSem - 1
    /\ LET q == FirstQueue(rxQueue)
       IN /\ rxQueue' = [rxQueue EXCEPT ![q] = Tail(@)]
          /\ slaveGot' = [slaveGot EXCEPT ![q] = Append(@, Head(rxQueue[q]).n)]
    /\ readerPc' = "handle"
    /\ UNCHANGED <<senders, writeTask, hostOut, wires, readers, slaveIn>>

\* process_rx_pkt
SlaveHandle ==
    /\ readerPc = "handle"
    /\ readerPc' = "read"
    /\ UNCHANGED <<senders, writeTask, hostOut, wires, readers, slaveIn, rxQueue, rxSem,
                   slaveGot>>

-----------------------------------------------------------------------------
Reader(s) == ReadHeader(s) \/ ReadPayload(s) \/ CheckPacket(s)
ReadTask == Reader("host") \/ HostPut
RxTask == OpenDataPath \/ Reader("slave") \/ SlavePut
WriteTask == WriteTake \/ WritePacket
ProcessRxTask == HostRxTask \/ StartWriteTask
RecvTask == SlaveRead \/ SlaveHandle

Next ==
    \/ \E q \in Queues : HostQueue(q) \/ HostCount(q)
    \/ WriteTask \/ ReadTask \/ ProcessRxTask
    \/ \E s \in Sides : Arrive(s)
    \/ RxTask \/ RecvTask
    \/ SlaveWrite("rpc", "serial") \/ SlaveWrite("wifi", "sta") \/ SlaveStartup
    \/ \E t \in Writers : Drained(t)

Spec == Init /\ [][Next]_vars

\* Every task is scheduled and the wires carry; nobody has to send.
Fairness ==
    /\ \A q \in Queues : WF_vars(HostCount(q))
    /\ WF_vars(WriteTask) /\ WF_vars(ReadTask) /\ WF_vars(ProcessRxTask)
    /\ \A s \in Sides : WF_vars(Arrive(s))
    /\ WF_vars(RxTask) /\ WF_vars(RecvTask) /\ WF_vars(SlaveStartup)
    /\ \A t \in Writers : WF_vars(Drained(t))

FairSpec == Spec /\ Fairness

-----------------------------------------------------------------------------
(* Invariants.                                                              *)

Packets == [if : {"serial", "sta", "priv"}, n : Nat]
Streams == [Sides -> Seq([packet : Packets, part : 0..PayloadUnits])]

\* The queues of both sides and the drivers' buffers keep their capacities.
TypeOK ==
    /\ {hostSent, slaveSent} \subseteq [Queues -> Nat]
    /\ hostWriter \in [Queues -> {"idle", "count"}]
    /\ {toSlave, fromSlave, rxQueue} \subseteq [Queues -> Seq(Packets)]
    /\ {toSlaveSem, fromSlaveSem, rxSem} \subseteq Nat
    /\ \A q \in Queues :
          /\ Len(toSlave[q]) <= ToSlaveSize
          /\ Len(fromSlave[q]) <= FromSlaveSize
          /\ Len(rxQueue[q]) <= RxQueueSize
    /\ {up, writeStarted, txNeeded, rxStarting, opened, hostResetSem} \subseteq BOOLEAN
    /\ hostTx \in Seq(Packets) /\ Len(hostTx) <= 1
    /\ {hostGot, slaveGot} \subseteq [Queues -> Seq(Nat)]
    /\ {line, ring, frame} \subseteq Streams
    /\ \A s \in Sides : Len(line[s]) <= DriverBuffer /\ Len(ring[s]) <= DriverBuffer
    /\ torn \in [Sides -> BOOLEAN]
    /\ readPc \in [Sides -> {"open", "header", "payload", "put"}] /\ readPc["host"] # "open"
    /\ missing \in [Sides -> 0..DriverBuffer]
    /\ draining \subseteq Writers /\ readerPc \in {"read", "handle"}

\* What a side has read of a packet, has in its driver's buffer and is still sent.
Stream(s) == frame[s] \o ring[s] \o line[s]

\* As long as nothing was missed the reader is in step with the sender: what it has
\* begun to read and what follows are whole packets, and it knows how much of the
\* first one is missing.  Nothing on the wire tells it; it only counts.
InStep ==
    \A s \in Sides : ~torn[s] =>
        /\ \A i \in 1..Len(Stream(s)) :
              Stream(s)[i].part = (i - 1) % (1 + PayloadUnits)
        /\ readPc[s] = "payload" => Len(frame[s]) + missing[s] = 1 + PayloadUnits
        /\ readPc[s] = "put" => Len(frame[s]) = 1 + PayloadUnits
        /\ readPc[s] \in {"open", "header"} => frame[s] = << >>

-----------------------------------------------------------------------------
(* Each direction keeps the promise of OrderedLink.                         *)

ToSlaveLink == INSTANCE OrderedLink
    WITH accepted <- hostSent, handed <- slaveGot, MayDrop <- TRUE

FromSlaveLink == INSTANCE OrderedLink
    WITH accepted <- slaveSent, handed <- hostGot, MayDrop <- TRUE

\* Whatever is lost on the wires, and wherever a reader takes a payload for a header,
\* only packets that were sent are handed over, those of one queue in their order and
\* each at most once.
LinkOrdered == ToSlaveLink!Spec /\ FromSlaveLink!Spec

(* Liveness.                                                                *)

AllArrived ==
    \A q \in Queues : Len(slaveGot[q]) = hostSent[q] /\ Len(hostGot[q]) = slaveSent[q]

\* If no driver's buffer overflows and the host finds no leftover, every packet
\* arrives, in both directions.
EveryPacketArrives == [](\A s \in Sides : ~torn[s]) => []<>AllArrived
=============================================================================

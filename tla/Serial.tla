------------------------------- MODULE Serial -------------------------------
(***************************************************************************)
(* The serial path of RPC: how a request, which may be longer than a bus   *)
(* packet, gets from the host's rpc_tx thread to the co-processor's        *)
(* pserial_task, and how responses and events get back.                    *)
(*                                                                         *)
(* The bus between is a queue of packets in each direction: SpiLink shows  *)
(* that one priority queue loses, repeats and reorders nothing.  The unit  *)
(* of length is a full packet, a byte position is a fragment, and what is  *)
(* in a buffer is told by the fragments that were copied to it.  The host  *)
(* sends every packet with sequence number 0, so that the co-processor's   *)
(* comparison of sequence numbers never fails and is left out.             *)
(*                                                                         *)
(* A definition whose name ends in _<Word> is the definition after it with *)
(* one mistake; Spec does not use it.                                      *)
(***************************************************************************)
EXTENDS Integers, Sequences

CONSTANTS
    MaxRequests,  \* BOUND: requests the host writes
    MaxEvents,    \* BOUND: events the co-processor sends
    Frags,        \* packets of a message, by kind
    BufferSize,   \* sizeof r.data of the co-processor, in packets
    ReqQSize,     \* REQ_Q_MAX
    SerialQSize,  \* TO_SERIAL_INFT_QUEUE_SIZE
    ReadMax       \* maximum of readSemaphore: H_MAX_SYNC_ + H_MAX_ASYNC_RPC_REQUESTS

Kinds == {"req", "rsp", "evt"}

ASSUME BoundsAssumption == {MaxRequests, MaxEvents} \subseteq Nat

\* serial_ll_write refuses what is longer than the co-processor's buffer.
ASSUME SizesAssumption ==
    /\ {BufferSize, ReqQSize, SerialQSize, ReadMax} \subseteq Nat \ {0}
    /\ Frags \in [Kinds -> Nat \ {0}] /\ Frags["req"] <= BufferSize

VARIABLES
    \* host
    written,      \* requests given to serial_ll_write
    unsent,       \* fragments of the request being written that are left
    accumulated,  \* r of serial_ll_if.c
    hostPc, hostMsg,            \* serial_ll_rx_handler and its new_buf_handle
    serialQ,      \* serial_ll_hdl->queue
    readSem,      \* readSemaphore
    rxPc, rxMsg,  \* rpc_rx in serial_drv_read and the buffer it returns
    answers,      \* responses and events read
    eventsRead,
    \* packets on their way
    toSlave, toHost,
    \* co-processor
    r,            \* the only request buffer, with what its bytes hold
    recvPc, recvFrag, rem,      \* recv_task in process_serial_rx_pkt ...
    lenRead,      \* ... and r.len as it read it to add to it
    crowded,      \* HISTORY: it took a packet while the earlier request was in the buffer
    reqQ,         \* pserial_cfg->req_queue
    psPc, arg,    \* pserial_task and its arg
    handled,      \* requests given to rpc_req_handler
    replied,      \* responses it began to send
    reply,        \* fragments of the message being sent that are left
    events        \* events indicated to pserial_task

hostTx == <<written, unsent>>
hostRx == <<accumulated, hostPc, hostMsg>>
rpcRx == <<rxPc, rxMsg, answers, eventsRead>>
recvTask == <<recvPc, recvFrag, rem, lenRead, crowded>>
pserial == <<psPc, arg, handled, replied, reply>>
vars == <<hostTx, hostRx, serialQ, readSem, rpcRx, toSlave, toHost, r, recvTask, reqQ,
          pserial, events>>

Fragment(kind, n, i) == [kind |-> kind, n |-> n, i |-> i]
Whole(kind, n) == [i \in 1..Frags[kind] |-> Fragment(kind, n, i)]
IsLast(fragment) == fragment.i = Frags[fragment.kind]   \* no MORE_FRAGMENT flag
NoFragment == Fragment("req", 0, 0)
NoArg == [kind |-> "none", data |-> << >>]

Least(a, b) == IF a <= b THEN a ELSE b

Init ==
    /\ written = 0 /\ unsent = << >>
    /\ accumulated = << >> /\ hostPc = "idle" /\ hostMsg = << >>
    /\ serialQ = << >> /\ readSem = 0
    /\ rxPc = "wait" /\ rxMsg = << >> /\ answers = 0 /\ eventsRead = 0
    /\ toSlave = << >> /\ toHost = << >>
    /\ r = [valid |-> FALSE, len |-> 0, data |-> [i \in 1..BufferSize |-> NoFragment]]
    /\ recvPc = "idle" /\ recvFrag = NoFragment /\ rem = 0 /\ lenRead = 0
    /\ crowded = FALSE
    /\ reqQ = << >>
    /\ psPc = "idle" /\ arg = NoArg /\ handled = 0 /\ replied = 0 /\ reply = << >>
    /\ events = 0

-----------------------------------------------------------------------------
(* The host writes: serial_ll_write in the rpc_tx thread, for any number of *)
(* requests before the first is answered.                                   *)

HostWrite ==
    /\ unsent = << >> /\ written < MaxRequests
    /\ written' = written + 1
    /\ unsent' = Whole("req", written + 1)
    /\ UNCHANGED <<hostRx, serialQ, readSem, rpcRx, toSlave, toHost, r, recvTask, reqQ,
                   pserial, events>>

HostFragment ==
    /\ unsent # << >>
    /\ toSlave' = Append(toSlave, Head(unsent))
    /\ unsent' = Tail(unsent)
    /\ UNCHANGED <<written, hostRx, serialQ, readSem, rpcRx, toHost, r, recvTask, reqQ,
                   pserial, events>>

-----------------------------------------------------------------------------
(* The co-processor's recv_task: process_serial_rx_pkt.                     *)

Room_WholeBuffer == BufferSize
Room == BufferSize - r.len

\* The room in the buffer is computed before the wait for the buffer.
RecvTake ==
    /\ recvPc = "idle" /\ toSlave # << >>
    /\ recvFrag' = Head(toSlave) /\ toSlave' = Tail(toSlave)
    /\ rem' = Room
    /\ crowded' = (crowded \/ r.valid \/ psPc = "clearLen")
    /\ recvPc' = "copy"
    /\ UNCHANGED <<hostTx, hostRx, serialQ, readSem, rpcRx, toHost, r, lenRead, reqQ, pserial,
                   events>>

Copied == Least(1, rem)

\* It waits while the buffer holds a request that was not read.
RecvCopy ==
    /\ recvPc = "copy" /\ ~r.valid
    /\ r' = IF Copied = 0 THEN r ELSE [r EXCEPT !.data[r.len + 1] = recvFrag]
    /\ recvPc' = "load"
    /\ UNCHANGED <<hostTx, hostRx, serialQ, readSem, rpcRx, toSlave, toHost, recvFrag, rem,
                   lenRead, crowded, reqQ, pserial, events>>

\* r.len += ...: a read and a write, pserial_task may reset the length between them.
RecvLoad ==
    /\ recvPc = "load"
    /\ lenRead' = r.len
    /\ recvPc' = "grow"
    /\ UNCHANGED <<hostTx, hostRx, serialQ, readSem, rpcRx, toSlave, toHost, r, recvFrag, rem,
                   crowded, reqQ, pserial, events>>

RecvGrow ==
    /\ recvPc = "grow"
    /\ r' = [r EXCEPT !.len = lenRead + Copied]
    /\ recvPc' = IF IsLast(recvFrag) THEN "valid" ELSE "idle"
    /\ UNCHANGED <<hostTx, hostRx, serialQ, readSem, rpcRx, toSlave, toHost, recvFrag, rem,
                   lenRead, crowded, reqQ, pserial, events>>

RecvValid ==
    /\ recvPc = "valid"
    /\ r' = [r EXCEPT !.valid = TRUE]
    /\ recvPc' = "parse"
    /\ UNCHANGED <<hostTx, hostRx, serialQ, readSem, rpcRx, toSlave, toHost, recvFrag, rem,
                   lenRead, crowded, reqQ, pserial, events>>

\* parse_protobuf_req, protocomm_pserial_data_ready: a first copy of the request.
RecvParse ==
    /\ recvPc = "parse" /\ Len(reqQ) < ReqQSize
    /\ reqQ' = Append(reqQ, [kind |-> "req", data |-> SubSeq(r.data, 1, r.len)])
    /\ recvPc' = "idle"
    /\ UNCHANGED <<hostTx, hostRx, serialQ, readSem, rpcRx, toSlave, toHost, r, recvFrag,
                   rem, lenRead, crowded, pserial, events>>

\* send_event_data_to_host, by any task of the co-processor
SendEvent ==
    /\ events < MaxEvents /\ Len(reqQ) < ReqQSize
    /\ events' = events + 1
    /\ reqQ' = Append(reqQ, [kind |-> "evt", data |-> Whole("evt", events + 1)])
    /\ UNCHANGED <<hostTx, hostRx, serialQ, readSem, rpcRx, toSlave, toHost, r, recvTask,
                   pserial>>

-----------------------------------------------------------------------------
(* pserial_task.                                                            *)

PsTake ==
    /\ psPc = "idle" /\ reqQ # << >>
    /\ arg' = Head(reqQ) /\ reqQ' = Tail(reqQ)
    /\ psPc' = IF arg'.kind = "evt" THEN "event" ELSE "read"
    /\ UNCHANGED <<hostTx, hostRx, serialQ, readSem, rpcRx, toSlave, toHost, r, recvTask,
                   handled, replied, reply, events>>

\* serial_read_data copies the request once more, over the first copy ...
PsRead ==
    /\ psPc = "read"
    /\ LET len == Least(Len(arg.data), r.len)
       IN arg' = [arg EXCEPT !.data = SubSeq(IF r.valid THEN r.data ELSE arg.data, 1, len)]
    /\ psPc' = IF r.valid THEN "clearValid" ELSE "handle"
    /\ UNCHANGED <<hostTx, hostRx, serialQ, readSem, rpcRx, toSlave, toHost, r, recvTask,
                   reqQ, handled, replied, reply, events>>

\* ... and gives the buffer back, its valid flag before its length.
PsClearValid ==
    /\ psPc = "clearValid"
    /\ r' = [r EXCEPT !.valid = FALSE]
    /\ psPc' = "clearLen"
    /\ UNCHANGED <<hostTx, hostRx, serialQ, readSem, rpcRx, toSlave, toHost, recvTask, reqQ,
                   arg, handled, replied, reply, events>>

PsClearLen_Keeps ==
    /\ psPc = "clearLen"
    /\ psPc' = "handle"
    /\ UNCHANGED <<hostTx, hostRx, serialQ, readSem, rpcRx, toSlave, toHost, r, recvTask, reqQ,
                   arg, handled, replied, reply, events>>
PsClearLen ==
    /\ psPc = "clearLen"
    /\ r' = [r EXCEPT !.len = 0]
    /\ psPc' = "handle"
    /\ UNCHANGED <<hostTx, hostRx, serialQ, readSem, rpcRx, toSlave, toHost, recvTask, reqQ,
                   arg, handled, replied, reply, events>>

\* rpc_req_handler: a request of length 0, or that cannot be unpacked, gets no answer.
PsHandle ==
    /\ psPc = "handle"
    /\ handled' = handled + 1
    /\ IF \E n \in 1..MaxRequests : arg.data = Whole("req", n)
         THEN psPc' = "send" /\ replied' = replied + 1 /\ reply' = Whole("rsp", replied + 1)
         ELSE psPc' = "idle" /\ UNCHANGED <<replied, reply>>
    /\ arg' = NoArg
    /\ UNCHANGED <<hostTx, hostRx, serialQ, readSem, rpcRx, toSlave, toHost, r, recvTask, reqQ,
                   events>>

PsEvent ==
    /\ psPc = "event"
    /\ psPc' = "send" /\ reply' = arg.data
    /\ arg' = NoArg
    /\ UNCHANGED <<hostTx, hostRx, serialQ, readSem, rpcRx, toSlave, toHost, r, recvTask, reqQ,
                   handled, replied, events>>

\* serial_write_data, a packet at a time
PsSend ==
    /\ psPc = "send"
    /\ toHost' = Append(toHost, Head(reply))
    /\ reply' = Tail(reply)
    /\ psPc' = IF Tail(reply) = << >> THEN "idle" ELSE "send"
    /\ UNCHANGED <<hostTx, hostRx, serialQ, readSem, rpcRx, toSlave, r, recvTask, reqQ, arg,
                   handled, replied, events>>

-----------------------------------------------------------------------------
(* The host receives: serial_ll_rx_handler in the bus driver's rx task.     *)

HostTake_KeepsBuffer ==
    /\ hostPc = "idle" /\ toHost # << >>
    /\ toHost' = Tail(toHost)
    /\ accumulated' = Append(accumulated, Head(toHost))
    /\ IF IsLast(Head(toHost))
         THEN hostMsg' = accumulated' /\ hostPc' = "put"
         ELSE hostMsg' = hostMsg /\ hostPc' = hostPc
    /\ UNCHANGED <<hostTx, serialQ, readSem, rpcRx, toSlave, r, recvTask, reqQ, pserial, events>>
\* A packet is appended; the last one completes the message.
HostTake ==
    /\ hostPc = "idle" /\ toHost # << >>
    /\ toHost' = Tail(toHost)
    /\ LET message == Append(accumulated, Head(toHost))
       IN IF IsLast(Head(toHost))
            THEN accumulated' = << >> /\ hostMsg' = message /\ hostPc' = "put"
            ELSE accumulated' = message /\ UNCHANGED <<hostMsg, hostPc>>
    /\ UNCHANGED <<hostTx, serialQ, readSem, rpcRx, toSlave, r, recvTask, reqQ, pserial, events>>

HostPut ==
    /\ hostPc = "put" /\ Len(serialQ) < SerialQSize
    /\ serialQ' = Append(serialQ, hostMsg)
    /\ hostMsg' = << >> /\ hostPc' = "signal"
    /\ UNCHANGED <<hostTx, accumulated, readSem, rpcRx, toSlave, toHost, r, recvTask, reqQ,
                   pserial, events>>

PostRead_Binary == 1
PostRead == Least(readSem + 1, ReadMax)

\* rpc_rx_indication; a post at the maximum is lost
HostSignal ==
    /\ hostPc = "signal"
    /\ readSem' = PostRead
    /\ hostPc' = "idle"
    /\ UNCHANGED <<hostTx, accumulated, hostMsg, serialQ, rpcRx, toSlave, toHost, r, recvTask,
                   reqQ, pserial, events>>

-----------------------------------------------------------------------------
(* rpc_rx: serial_drv_read.                                                 *)

RxWait ==
    /\ rxPc = "wait" /\ readSem > 0
    /\ readSem' = readSem - 1
    /\ rxPc' = "read"
    /\ UNCHANGED <<hostTx, hostRx, serialQ, rxMsg, answers, eventsRead, toSlave, toHost, r,
                   recvTask, reqQ, pserial, events>>

\* serial_ll_read takes from the queue for as long as it is needed.
RxRead ==
    /\ rxPc = "read" /\ serialQ # << >>
    /\ rxMsg' = Head(serialQ) /\ serialQ' = Tail(serialQ)
    /\ rxPc' = "process"
    /\ UNCHANGED <<hostTx, hostRx, readSem, answers, eventsRead, toSlave, toHost, r, recvTask,
                   reqQ, pserial, events>>

\* process_rpc_rx_msg, which RpcCore models
RxProcess ==
    /\ rxPc = "process"
    /\ IF rxMsg[1].kind = "rsp"
         THEN answers' = answers + 1 /\ eventsRead' = eventsRead
         ELSE eventsRead' = eventsRead + 1 /\ answers' = answers
    /\ rxMsg' = << >> /\ rxPc' = "wait"
    /\ UNCHANGED <<hostTx, hostRx, serialQ, readSem, toSlave, toHost, r, recvTask, reqQ,
                   pserial, events>>

-----------------------------------------------------------------------------
RecvTask == RecvTake \/ RecvCopy \/ RecvLoad \/ RecvGrow \/ RecvValid \/ RecvParse
PserialTask ==
    PsTake \/ PsRead \/ PsClearValid \/ PsClearLen \/ PsHandle \/ PsEvent \/ PsSend
HostRxTask == HostTake \/ HostPut \/ HostSignal
RpcRx == RxWait \/ RxRead \/ RxProcess

Next ==
    HostWrite \/ HostFragment \/ RecvTask \/ SendEvent \/ PserialTask \/ HostRxTask \/ RpcRx

Spec == Init /\ [][Next]_vars

\* Every thread is scheduled; nobody has to call or to send an event.
FairSpec ==
    Spec /\ WF_vars(HostFragment) /\ WF_vars(RecvTask) /\ WF_vars(PserialTask)
         /\ WF_vars(HostRxTask) /\ WF_vars(RpcRx)

-----------------------------------------------------------------------------
(* Invariants.                                                              *)

FragmentType == [kind : Kinds, n : Nat, i : Nat]

HostTxOK ==
    /\ written \in 0..MaxRequests /\ unsent \in Seq(FragmentType)
    /\ toSlave \in Seq(FragmentType)

HostRxOK ==
    /\ toHost \in Seq(FragmentType)
    /\ accumulated \in Seq(FragmentType)
    /\ \A i \in DOMAIN accumulated : ~IsLast(accumulated[i])
    /\ hostPc \in {"idle", "put", "signal"} /\ hostMsg \in Seq(FragmentType)
    /\ serialQ \in Seq(Seq(FragmentType)) /\ Len(serialQ) <= SerialQSize
    /\ readSem \in 0..ReadMax
    /\ rxPc \in {"wait", "read", "process"} /\ rxMsg \in Seq(FragmentType)
    /\ answers \in Nat /\ eventsRead \in Nat

RecvOK ==
    /\ r \in [valid : BOOLEAN, len : 0..BufferSize, data : [1..BufferSize -> FragmentType]]
    /\ recvPc \in {"idle", "copy", "load", "grow", "valid", "parse"}
    /\ recvFrag \in FragmentType /\ {rem, lenRead} \subseteq 0..BufferSize
    /\ crowded \in BOOLEAN

ReqArg == [kind : {"req", "evt"}, data : Seq(FragmentType)]

PserialOK ==
    /\ reqQ \in Seq(ReqArg)
    /\ Len(reqQ) <= ReqQSize
    /\ psPc \in {"idle", "read", "clearValid", "clearLen", "handle", "event", "send"}
    /\ arg \in [kind : {"none", "req", "evt"}, data : Seq(FragmentType)]
    /\ {handled, replied} \subseteq Nat /\ reply \in Seq(FragmentType) /\ events \in 0..MaxEvents

\* Buffers and queues keep their sizes (esp_hosted_coprocessor.c:90,
\* protocomm_pserial.c:327, serial_ll_if.c:88), and the host's reassembly buffer,
\* which has none, never holds more than one message.
TypeOK == HostTxOK /\ HostRxOK /\ RecvOK /\ PserialOK

\* The copy never runs past the end of the buffer (esp_hosted_coprocessor.c:514),
\* although the room was computed earlier and pserial_task resets the length
\* between any two steps of recv_task.
NoOverrun ==
    /\ recvPc \in {"copy", "load"} => r.len + rem <= BufferSize
    /\ recvPc = "grow" => lenRead + rem <= BufferSize

\* However many requests are open, a request is damaged, lost or repeated only
\* once recv_task took a packet while the request before was in the buffer
\* (esp_hosted_coprocessor.c:490, 738): until then rpc_req_handler gets, byte
\* for byte, the next request the host wrote.
RequestIntact == psPc = "handle" => crowded \/ arg.data = Whole("req", handled + 1)

\* What rpc_rx gets is the next response or the next event that pserial_task
\* began to send, whole, whatever became of the requests.
MessageIntact ==
    rxPc = "process" =>
        \/ rxMsg = Whole("rsp", answers + 1)
        \/ rxMsg = Whole("evt", eventsRead + 1)

\* Messages come out of both ends of the path as they went in.
MessagesIntact == RequestIntact /\ MessageIntact

\* Every message in the serial queue has its token: no wakeup of rpc_rx is lost
\* and its dequeue does not block (serial_drv.c:219, serial_ll_if.c:30).
ReadTokens ==
    Len(serialQ) = readSem + (IF rxPc = "read" THEN 1 ELSE 0)
                           + (IF hostPc = "signal" THEN 1 ELSE 0)

(* Temporal properties.                                                     *)

\* Since the host and the tasks write no more than the bounds, the path comes to
\* rest, and then no message is stuck in a queue, in the shared buffer or behind
\* a lost token: every event and every response that was begun has reached
\* rpc_rx, and every request is answered, unless a packet was taken too early.
EveryMessageArrives ==
    <>[](/\ eventsRead = events /\ answers = replied
         /\ crowded \/ answers = written)
=============================================================================

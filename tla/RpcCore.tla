------------------------------- MODULE RpcCore -------------------------------
(***************************************************************************)
(* The host's RPC client, src/host/drivers/rpc/core/rpc_core.c.            *)
(*                                                                         *)
(* Application tasks call rpc_send_req and, when the request carries no    *)
(* callback, rpc_wait_and_parse_sync_resp.  Two threads serve them: rpc_tx *)
(* takes requests from rpc_tx_q and hands them to the serial interface,    *)
(* rpc_rx takes what the slave sends back and gives it to a callback or    *)
(* puts it in rpc_rx_q for a blocked caller.  The tables sync_rsp_table    *)
(* and async_rsp_table and the counter uid are shared without a lock.      *)
(*                                                                         *)
(* A request is one ctrl_cmd_t object: each member of Reqs is one call.    *)
(*                                                                         *)
(* A definition whose name ends in _<Word> is the definition after it with *)
(* one mistake; Spec does not use it.  It shows that a property can fail.  *)
(***************************************************************************)
EXTENDS Integers, Sequences, FiniteSets

CONSTANTS
    SyncReqs,    \* requests without rpc_rsp_cb
    AsyncReqs,   \* requests with rpc_rsp_cb
    NoReq,       \* stands for NULL where a request or a semaphore is expected
    NumTasks,    \* BOUND: tasks that may be inside a call at the same time
    MaxSync,     \* MAX_SYNC_RPC_TRANSACTIONS
    MaxAsync,    \* MAX_ASYNC_RPC_TRANSACTIONS
    TxQSize,     \* RPC_TX_QUEUE_SIZE
    RxQSize,     \* RPC_RX_QUEUE_SIZE
    TxSemMax,    \* maximum count of rpc_tx_sem
    UidMod,      \* 2^32 in the code: uid wraps and skips 0
    MayTimeout,  \* ENVIRONMENT: requests whose timeout may expire
    MayFail,     \* ENVIRONMENT: requests rpc_tx may fail to encode or send
    MayStarve,   \* ENVIRONMENT: requests for whose failure no response can be allocated
    MayDrop      \* ENVIRONMENT: requests the slave may leave unanswered

Reqs == SyncReqs \cup AsyncReqs

ASSUME RequestsAssumption ==
    /\ IsFiniteSet(SyncReqs) /\ IsFiniteSet(AsyncReqs)
    /\ SyncReqs \cap AsyncReqs = {}
    /\ NoReq \notin Reqs
    /\ MayTimeout \subseteq Reqs /\ MayFail \subseteq Reqs
    /\ MayStarve \subseteq Reqs /\ MayDrop \subseteq Reqs

ASSUME SizesAssumption ==
    /\ NumTasks \in Nat
    /\ MaxSync \in Nat \ {0} /\ MaxAsync \in Nat \ {0}
    /\ TxQSize \in Nat \ {0} /\ RxQSize \in Nat \ {0} /\ TxSemMax \in Nat
    /\ UidMod \in Nat /\ UidMod > 1

\* rpc_core_init gives rpc_tx_sem room for MAX_SYNC + MAX_ASYNC tokens (10) and
\* rpc_tx_q room for 5 requests.
ASSUME TxSemAssumption == TxQSize <= TxSemMax

VARIABLES
    ready,     \* rpc_lib_ctxt.state >= RPC_LIB_STATE_READY
    uid,       \* the global request counter
    pc,        \* where each call is
    reqUid,    \* app_req->uid (before StoreUid: the value of uid just loaded)
    slot,      \* index i of the loop over sync_rsp_table, kept across steps
    waitOn,    \* handle of the semaphore the caller blocks on
    sem,       \* app_req->rx_sem
    freed,     \* app_req was given back to the heap
    overlapped, \* history: a call was begun while another one was open
    result,    \* element of rpc_rx_q the call returned; NoElem for NULL
    syncTab,   \* sync_rsp_table
    asyncTab,  \* async_rsp_table
    timer,     \* the one-shot timer of an asynchronous request
    cbs,       \* outcomes rpc_rsp_cb was called with, in order
    txq, txsem, txpc, txreq, txslot,    \* rpc_tx_q, rpc_tx_sem, rpc_tx thread
    wire,      \* requests sent to the slave and not yet answered
    rxq, rxpc, rxmsg, rxslot, rxsem     \* rpc_rx_q, rpc_rx thread

numbering == <<uid, reqUid>>
callers == <<pc, slot, waitOn, freed, result, overlapped>>
tables == <<syncTab, asyncTab>>
callbacks == <<timer, cbs>>
txThread == <<txq, txsem, txpc, txreq, txslot>>
rxThread == <<rxpc, rxmsg, rxslot, rxsem>>
vars == <<ready, numbering, callers, sem, tables, callbacks, txThread, wire,
          rxq, rxThread>>

SyncSlots == 1..MaxSync
AsyncSlots == 1..MaxAsync
Uids == 1..(UidMod - 1)

EmptySync == [uid |-> 0, sem |-> NoReq]
EmptyAsync == [uid |-> 0, cb |-> NoReq, timer |-> NoReq]

\* A response structure: the uid it carries, the request it answers (known to
\* the reader of the model, not to the code) and whether the slave made it.
Elem == [uid : Uids \cup {0}, req : Reqs \cup {NoReq}, ok : BOOLEAN]
NoElem == [uid |-> 0, req |-> NoReq, ok |-> FALSE]

\* i is where a scan of a table from its first entry finds uid u.
IsFirst(tab, i, u) ==
    tab[i].uid = u /\ \A j \in DOMAIN tab : tab[j].uid = u => i <= j
Absent(tab, u) == \A i \in DOMAIN tab : tab[i].uid # u

\* hosted_post_semaphore: NULL is refused, a binary semaphore that is already
\* full stays full.  On a destroyed one the outcome is undefined; here the
\* token is lost.
PostSem(q) ==
    sem' = IF q # NoReq /\ sem[q] = "empty" THEN [sem EXCEPT ![q] = "full"] ELSE sem

GiveSem_Binary(n) == 1
\* hosted_post_semaphore on rpc_tx_sem: a post at the maximum count is lost.
GiveSem(n) == IF n < TxSemMax THEN n + 1 ELSE n

GoTo(r, label) == pc' = [pc EXCEPT ![r] = label]

OpenCalls == {r \in Reqs : pc[r] \notin {"idle", "done"}}

-----------------------------------------------------------------------------
(* rpc_core_init leaves both semaphores taken and the queues empty.        *)
Init ==
    /\ ready = FALSE /\ uid = 0
    /\ pc = [r \in Reqs |-> "idle"]
    /\ reqUid = [r \in Reqs |-> 0]
    /\ slot = [r \in Reqs |-> 0]
    /\ waitOn = [r \in Reqs |-> NoReq]
    /\ sem = [r \in Reqs |-> "none"]
    /\ freed = [r \in Reqs |-> FALSE] /\ overlapped = FALSE
    /\ result = [r \in Reqs |-> NoElem]
    /\ syncTab = [i \in SyncSlots |-> EmptySync]
    /\ asyncTab = [i \in AsyncSlots |-> EmptyAsync]
    /\ timer = [r \in Reqs |-> "off"]
    /\ cbs = [r \in Reqs |-> << >>]
    /\ txq = << >> /\ txsem = 0 /\ txpc = "idle" /\ txreq = NoReq /\ txslot = 0
    /\ wire = << >>
    /\ rxq = << >> /\ rxpc = "idle" /\ rxmsg = NoElem /\ rxslot = 0 /\ rxsem = NoReq

\* rpc_core_start, reached from transport_delayed_init.
RpcStart ==
    /\ ~ready
    /\ ready' = TRUE
    /\ UNCHANGED <<numbering, callers, sem, tables, callbacks, txThread, wire,
                   rxq, rxThread>>

-----------------------------------------------------------------------------
(* The calling task: rpc_send_req.                                          *)

NextUid_WrapsToZero(u) == (u + 1) % UidMod
NextUid(u) == IF u + 1 = UidMod THEN 1 ELSE u + 1

FreshSem_NotTaken == "full"
\* hosted_create_semaphore gives the semaphore once, set_sync_resp_sem takes it.
FreshSem == "empty"

\* uid++ is a load and a store that another task can come between.
LoadUid(r) ==
    /\ pc[r] = "idle"
    /\ Cardinality(OpenCalls) < NumTasks
    /\ reqUid' = [reqUid EXCEPT ![r] = uid]
    /\ overlapped' = (overlapped \/ OpenCalls # {})
    /\ GoTo(r, "loaded")
    /\ UNCHANGED <<ready, uid, slot, waitOn, freed, result, sem, tables,
                   callbacks, txThread, wire, rxq, rxThread>>

\* The store, app_req->uid = uid, and the creation of rx_sem.
StoreUid(r) ==
    /\ pc[r] = "loaded"
    /\ uid' = NextUid(reqUid[r])
    /\ reqUid' = [reqUid EXCEPT ![r] = NextUid(@)]
    /\ IF r \in SyncReqs
         THEN /\ sem' = [sem EXCEPT ![r] = FreshSem]
              /\ GoTo(r, "scan")
         ELSE /\ sem' = sem
              /\ GoTo(r, "enqueue")
    /\ UNCHANGED <<ready, slot, waitOn, freed, result, overlapped, tables, callbacks,
                   txThread, wire, rxq, rxThread>>

\* set_sync_resp_sem: the test of a slot and the write of it are two steps.
FindSlot(r) ==
    /\ pc[r] = "scan"
    /\ \E i \in SyncSlots :
          /\ IsFirst(syncTab, i, 0)
          /\ slot' = [slot EXCEPT ![r] = i]
    /\ GoTo(r, "fill")
    /\ UNCHANGED <<ready, numbering, waitOn, freed, result, overlapped, sem, tables,
                   callbacks, txThread, wire, rxq, rxThread>>

\* No slot is free: rpc_send_req destroys rx_sem, frees the request and fails.
RefuseCall(r) ==
    /\ pc[r] = "scan"
    /\ Absent(syncTab, 0)
    /\ sem' = [sem EXCEPT ![r] = "destroyed"]
    /\ freed' = [freed EXCEPT ![r] = TRUE]
    /\ GoTo(r, "done")
    /\ UNCHANGED <<ready, numbering, slot, waitOn, result, overlapped, tables, callbacks,
                   txThread, wire, rxq, rxThread>>

\* The uid and the semaphore of a slot are written one after the other.
FillUid(r) ==
    /\ pc[r] = "fill"
    /\ syncTab' = [syncTab EXCEPT ![slot[r]].uid = reqUid[r]]
    /\ GoTo(r, "fillsem")
    /\ UNCHANGED <<ready, numbering, slot, waitOn, freed, result, overlapped, sem,
                   asyncTab, callbacks, txThread, wire, rxq, rxThread>>

FillSem(r) ==
    /\ pc[r] = "fillsem"
    /\ syncTab' = [syncTab EXCEPT ![slot[r]].sem = r]
    /\ GoTo(r, "enqueue")
    /\ UNCHANGED <<ready, numbering, slot, waitOn, freed, result, overlapped, sem,
                   asyncTab, callbacks, txThread, wire, rxq, rxThread>>

\* hosted_queue_item with HOSTED_BLOCK_MAX: waits while rpc_tx_q is full.
Enqueue(r) ==
    /\ pc[r] = "enqueue"
    /\ Len(txq) < TxQSize
    /\ txq' = Append(txq, r)
    /\ GoTo(r, "post")
    /\ UNCHANGED <<ready, numbering, slot, waitOn, freed, result, overlapped, sem, tables,
                   callbacks, txsem, txpc, txreq, txslot, wire, rxq, rxThread>>

\* rpc_tx_ind.  An asynchronous call returns here.
PostTxSem(r) ==
    /\ pc[r] = "post"
    /\ txsem' = GiveSem(txsem)
    /\ GoTo(r, IF r \in SyncReqs THEN "lookup" ELSE "done")
    /\ UNCHANGED <<ready, numbering, slot, waitOn, freed, result, overlapped, sem, tables,
                   callbacks, txq, txpc, txreq, txslot, wire, rxq, rxThread>>

-----------------------------------------------------------------------------
(* The calling task: rpc_wait_and_parse_sync_resp, get_response and         *)
(* wait_for_sync_response.                                                  *)

FindMySlot(r) ==
    /\ pc[r] = "lookup"
    /\ \E i \in SyncSlots :
          /\ IsFirst(syncTab, i, reqUid[r])
          /\ slot' = [slot EXCEPT ![r] = i]
          /\ waitOn' = [waitOn EXCEPT ![r] = syncTab[i].sem]
    /\ GoTo(r, "wait")
    /\ UNCHANGED <<ready, numbering, freed, result, overlapped, sem, tables, callbacks,
                   txThread, wire, rxq, rxThread>>

\* The slot holds another uid by now: NULL is returned, the request is freed.
LoseSlot(r) ==
    /\ pc[r] = "lookup"
    /\ Absent(syncTab, reqUid[r])
    /\ freed' = [freed EXCEPT ![r] = TRUE]
    /\ GoTo(r, "done")
    /\ UNCHANGED <<ready, numbering, slot, waitOn, result, overlapped, sem, tables,
                   callbacks, txThread, wire, rxq, rxThread>>

TakeSem(r) ==
    /\ pc[r] = "wait" /\ waitOn[r] # NoReq
    /\ sem[waitOn[r]] = "full"
    /\ sem' = [sem EXCEPT ![waitOn[r]] = "empty"]
    /\ GoTo(r, "woken")
    /\ UNCHANGED <<ready, numbering, slot, waitOn, freed, result, overlapped, tables,
                   callbacks, txThread, wire, rxq, rxThread>>

\* RET_FAIL_TIMEOUT from hosted_get_semaphore, or RET_INVALID for NULL.
Expire(r) ==
    /\ pc[r] = "wait"
    /\ \/ r \in MayTimeout /\ sem[waitOn[r]] # "full"
       \/ waitOn[r] = NoReq
    /\ GoTo(r, "expired")
    /\ UNCHANGED <<ready, numbering, slot, waitOn, freed, result, overlapped, sem, tables,
                   callbacks, txThread, wire, rxq, rxThread>>

\* hosted_destroy_semaphore(sync_rsp_table[i].sem): the slot is read again, and
\* the assert in hosted_destroy_semaphore stops the host if it was cleared.
DestroySem(r) ==
    /\ pc[r] \in {"woken", "expired"}
    /\ LET q == syncTab[slot[r]].sem
       IN IF q = NoReq
            THEN sem' = sem /\ GoTo(r, "assert_failed")
            ELSE /\ sem' = [sem EXCEPT ![q] = "destroyed"]
                 /\ GoTo(r, IF pc[r] = "woken" THEN "clear" ELSE "giveup")
    /\ UNCHANGED <<ready, numbering, slot, waitOn, freed, result, overlapped, tables,
                   callbacks, txThread, wire, rxq, rxThread>>

ClearUid_OnlyIfWoken(r) ==
    /\ pc[r] \in {"clear", "giveup"}
    /\ syncTab' = IF pc[r] = "clear" THEN [syncTab EXCEPT ![slot[r]].uid = 0]
                                     ELSE syncTab
    /\ GoTo(r, IF pc[r] = "clear" THEN "erase" ELSE "forget")
    /\ UNCHANGED <<ready, numbering, slot, waitOn, freed, result, overlapped, sem,
                   asyncTab, callbacks, txThread, wire, rxq, rxThread>>
\* The slot is free from here on, although its semaphore is erased only next.
ClearUid(r) ==
    /\ pc[r] \in {"clear", "giveup"}
    /\ syncTab' = [syncTab EXCEPT ![slot[r]].uid = 0]
    /\ GoTo(r, IF pc[r] = "clear" THEN "erase" ELSE "forget")
    /\ UNCHANGED <<ready, numbering, slot, waitOn, freed, result, overlapped, sem,
                   asyncTab, callbacks, txThread, wire, rxq, rxThread>>

\* After a timeout the call returns NULL; after a response it fetches it.
ClearSem(r) ==
    /\ pc[r] \in {"erase", "forget"}
    /\ syncTab' = [syncTab EXCEPT ![slot[r]].sem = NoReq]
    /\ IF pc[r] = "erase"
         THEN freed' = freed /\ GoTo(r, "fetch")
         ELSE freed' = [freed EXCEPT ![r] = TRUE] /\ GoTo(r, "done")
    /\ UNCHANGED <<ready, numbering, slot, waitOn, result, overlapped, sem, asyncTab,
                   callbacks, txThread, wire, rxq, rxThread>>

FetchResponse_Peeks(r) ==
    /\ pc[r] = "fetch"
    /\ rxq # << >>
    /\ result' = [result EXCEPT ![r] = Head(rxq)]
    /\ freed' = [freed EXCEPT ![r] = TRUE]
    /\ GoTo(r, "done")
    /\ UNCHANGED <<ready, numbering, slot, waitOn, overlapped, sem, tables,
                   callbacks, txThread, wire, rxq, rxThread>>
\* get_response takes whatever element is first in rpc_rx_q.
FetchResponse(r) ==
    /\ pc[r] = "fetch"
    /\ rxq # << >>
    /\ result' = [result EXCEPT ![r] = Head(rxq)]
    /\ rxq' = Tail(rxq)
    /\ freed' = [freed EXCEPT ![r] = TRUE]
    /\ GoTo(r, "done")
    /\ UNCHANGED <<ready, numbering, slot, waitOn, overlapped, sem, tables,
                   callbacks, txThread, wire, rxThread>>

-----------------------------------------------------------------------------
(* rpc_tx_thread and process_rpc_tx_msg.                                    *)

TxTake ==
    /\ ready
    /\ txpc = "idle" /\ txsem > 0
    /\ txsem' = txsem - 1
    /\ txpc' = "dequeue"
    /\ UNCHANGED <<ready, numbering, callers, sem, tables, callbacks, txq, txreq,
                   txslot, wire, rxq, rxThread>>

TxDequeue ==
    /\ txpc = "dequeue" /\ txq # << >>
    /\ txreq' = Head(txq)
    /\ txq' = Tail(txq)
    /\ txpc' = "compose"
    /\ UNCHANGED <<ready, numbering, callers, sem, tables, callbacks, txsem, txslot,
                   wire, rxq, rxThread>>

\* compose_rpc_req, the packed size and the buffer.  A request freed by its
\* caller meanwhile may or may not still look like a request.
TxCompose ==
    /\ txpc = "compose"
    /\ txpc' = IF txreq \in AsyncReqs THEN "register" ELSE "send"
    /\ UNCHANGED <<ready, numbering, callers, sem, tables, callbacks, txq, txsem,
                   txreq, txslot, wire, rxq, rxThread>>

\* A callback is told an outcome, unless there is no memory for the response it is
\* told with.
Told(r, outcome) ==
    {[cbs EXCEPT ![r] = Append(@, outcome)]}
      \cup (IF r \in MayStarve THEN {cbs} ELSE {})

TellFailure_Silent(outcome) == cbs' = cbs /\ txpc' = "cleanup"
\* fail_req of an asynchronous request: the slot and the timer are left as they are.
TellFailure(outcome) ==
    /\ cbs' \in Told(txreq, outcome)
    /\ txpc' = "cleanup"

TxComposeFails ==
    /\ txpc = "compose"
    /\ txreq \in MayFail \/ freed[txreq]
    /\ IF txreq \in AsyncReqs THEN TellFailure("failed")
                              ELSE txpc' = "fail" /\ cbs' = cbs
    /\ UNCHANGED <<ready, numbering, callers, sem, tables, timer, txq, txsem,
                   txreq, txslot, wire, rxq, rxThread>>

\* The timer cannot be created: failure_status is still 0 at fail_req.
TxTimerFails ==
    /\ txpc = "register" /\ txreq \in MayFail
    /\ TellFailure("success")
    /\ UNCHANGED <<ready, numbering, callers, sem, tables, timer, txq, txsem,
                   txreq, txslot, wire, rxq, rxThread>>

AsyncUid_Global(q) == uid
AsyncUid(q) == reqUid[q]

\* The timer is started, then set_async_resp_callback takes the first free slot:
\* its uid is written first, the callback and the timer's handle after it.
TxRegister ==
    /\ txpc = "register"
    /\ timer' = [timer EXCEPT ![txreq] = "armed"]
    /\ \E i \in AsyncSlots :
          /\ IsFirst(asyncTab, i, 0)
          /\ txslot' = i
          /\ asyncTab' = [asyncTab EXCEPT ![i].uid = AsyncUid(txreq)]
    /\ txpc' = "setcb"
    /\ UNCHANGED <<ready, numbering, callers, sem, syncTab, cbs, txq, txsem, txreq,
                   wire, rxq, rxThread>>

TxSetCb ==
    /\ txpc = "setcb"
    /\ asyncTab' = [asyncTab EXCEPT ![txslot].cb = txreq, ![txslot].timer = txreq]
    /\ txpc' = "send"
    /\ UNCHANGED <<ready, numbering, callers, sem, syncTab, callbacks, txq, txsem,
                   txreq, txslot, wire, rxq, rxThread>>

\* No slot is free: the callback is told and the timer keeps running.
TxRefuse ==
    /\ txpc = "register"
    /\ Absent(asyncTab, 0)
    /\ timer' = [timer EXCEPT ![txreq] = "armed"]
    /\ TellFailure("failed")
    /\ UNCHANGED <<ready, numbering, callers, sem, tables, txq, txsem, txreq, txslot,
                   wire, rxq, rxThread>>

TxSend ==
    /\ txpc = "send"
    /\ wire' = Append(wire, [uid |-> reqUid[txreq], req |-> txreq, ok |-> TRUE])
    /\ txpc' = "cleanup"
    /\ UNCHANGED <<ready, numbering, callers, sem, tables, callbacks, txq, txsem,
                   txreq, txslot, rxq, rxThread>>

TxSendFails ==
    /\ txpc = "send" /\ txreq \in MayFail
    /\ IF txreq \in AsyncReqs THEN TellFailure("failed")
                              ELSE txpc' = "fail" /\ cbs' = cbs
    /\ UNCHANGED <<ready, numbering, callers, sem, tables, timer, txq, txsem,
                   txreq, txslot, wire, rxq, rxThread>>

\* fail_req of a synchronous request: a zeroed response, so uid 0, goes into
\* rpc_rx_q; the put waits while that queue is full.
TxPutFailure ==
    /\ txpc = "fail"
    /\ Len(rxq) < RxQSize
    /\ rxq' = Append(rxq, [uid |-> 0, req |-> txreq, ok |-> FALSE])
    /\ txpc' = "notify"
    /\ UNCHANGED <<ready, numbering, callers, sem, tables, callbacks, txq, txsem,
                   txreq, txslot, wire, rxThread>>

\* ... and the semaphore of the first slot whose uid equals the response's is
\* posted.  Uid 0 marks a slot that is not in use.
TxNotify ==
    /\ txpc = "notify"
    /\ \/ \E i \in SyncSlots : IsFirst(syncTab, i, 0) /\ PostSem(syncTab[i].sem)
       \/ Absent(syncTab, 0) /\ sem' = sem
    /\ txpc' = "cleanup"
    /\ UNCHANGED <<ready, numbering, callers, tables, callbacks, txq, txsem, txreq,
                   txslot, wire, rxq, rxThread>>

\* No memory is left for a failed response: nobody is told.
TxStarve ==
    /\ txpc = "fail" /\ txreq \in MayStarve
    /\ txpc' = "cleanup"
    /\ UNCHANGED <<ready, numbering, callers, sem, tables, callbacks, txq, txsem,
                   txreq, txslot, wire, rxq, rxThread>>

\* The application's free hook and RPC_FREE_BUFFS, both read from the request.
TxCleanup ==
    /\ txpc = "cleanup"
    /\ txpc' = "idle"
    /\ UNCHANGED <<ready, numbering, callers, sem, tables, callbacks, txq, txsem,
                   txreq, txslot, wire, rxq, rxThread>>

-----------------------------------------------------------------------------
(* The slave answers requests in the order they reach it and copies their   *)
(* uid; rpc_rx_thread and process_rpc_rx_msg.                               *)

\* A request or its answer that is lost, or that the slave cannot decode.
SlaveDrops ==
    /\ wire # << >> /\ Head(wire).req \in MayDrop
    /\ wire' = Tail(wire)
    /\ UNCHANGED <<ready, numbering, callers, sem, tables, callbacks, txThread,
                   rxq, rxThread>>

\* The answer arrives; is_async_resp_callback_available decides its path.
RxTake ==
    /\ ready
    /\ rxpc = "idle" /\ wire # << >>
    /\ rxmsg' = Head(wire)
    /\ wire' = Tail(wire)
    /\ \/ \E i \in AsyncSlots :
             /\ IsFirst(asyncTab, i, Head(wire).uid)
             /\ rxslot' = i /\ rxpc' = "callback"
       \/ Absent(asyncTab, Head(wire).uid) /\ rxslot' = 0 /\ rxpc' = "put"
    /\ UNCHANGED <<ready, numbering, callers, sem, tables, callbacks, txThread,
                   rxq, rxsem>>

\* A callback that was erased is NULL, and calling it stops the host.  The model
\* lets the other threads go on, which only adds behaviours.
RxCallback ==
    /\ rxpc = "callback"
    /\ LET q == asyncTab[rxslot].cb
       IN IF q = NoReq
            THEN cbs' = cbs /\ rxpc' = "crashed"
            ELSE cbs' = [cbs EXCEPT ![q] = Append(@, "response")] /\ rxpc' = "clear"
    /\ UNCHANGED <<ready, numbering, callers, sem, tables, timer, txThread, wire,
                   rxq, rxmsg, rxslot, rxsem>>

\* clear_async_resp_callback: the timer is stopped, the slot is free once its uid
\* is 0, and the callback is erased after that, whosever it is by then.
RxStopTimer ==
    /\ rxpc = "clear"
    /\ LET q == asyncTab[rxslot].timer
       IN timer' = IF q # NoReq /\ timer[q] = "armed"
                     THEN [timer EXCEPT ![q] = "stopped"] ELSE timer
    /\ asyncTab' = [asyncTab EXCEPT ![rxslot].timer = NoReq]
    /\ rxpc' = "release"
    /\ UNCHANGED <<ready, numbering, callers, sem, syncTab, cbs, txThread, wire,
                   rxq, rxmsg, rxslot, rxsem>>

RxClearUid ==
    /\ rxpc = "release"
    /\ asyncTab' = [asyncTab EXCEPT ![rxslot].uid = 0]
    /\ rxpc' = "erase"
    /\ UNCHANGED <<ready, numbering, callers, sem, syncTab, callbacks, txThread, wire,
                   rxq, rxmsg, rxslot, rxsem>>

RxClearCb ==
    /\ rxpc = "erase"
    /\ asyncTab' = [asyncTab EXCEPT ![rxslot].cb = NoReq]
    /\ rxpc' = "idle"
    /\ UNCHANGED <<ready, numbering, callers, sem, syncTab, callbacks, txThread, wire,
                   rxq, rxmsg, rxslot, rxsem>>

\* The put into rpc_rx_q waits while the queue is full.
RxPut ==
    /\ rxpc = "put"
    /\ Len(rxq) < RxQSize
    /\ rxq' = Append(rxq, rxmsg)
    /\ rxpc' = "find"
    /\ UNCHANGED <<ready, numbering, callers, sem, tables, callbacks, txThread,
                   wire, rxmsg, rxslot, rxsem>>

\* is_sync_resp_sem_available, and the handle post_sync_resp_sem reads.
RxFind ==
    /\ rxpc = "find"
    /\ \/ \E i \in SyncSlots :
             /\ IsFirst(syncTab, i, rxmsg.uid)
             /\ rxsem' = syncTab[i].sem /\ rxpc' = "post"
       \/ Absent(syncTab, rxmsg.uid) /\ rxsem' = NoReq /\ rxpc' = "idle"
    /\ UNCHANGED <<ready, numbering, callers, sem, tables, callbacks, txThread,
                   wire, rxq, rxmsg, rxslot>>

RxPost ==
    /\ rxpc = "post"
    /\ PostSem(rxsem)
    /\ rxpc' = "idle"
    /\ UNCHANGED <<ready, numbering, callers, tables, callbacks, txThread, wire,
                   rxq, rxmsg, rxslot, rxsem>>

\* rpc_async_timeout_handler, in the timer task.  The slot is not released.
TimerFires(r) ==
    /\ timer[r] = "armed" /\ r \in MayTimeout
    /\ cbs' \in Told(r, "timeout")
    /\ timer' = [timer EXCEPT ![r] = "fired"]
    /\ UNCHANGED <<ready, numbering, callers, sem, tables, txThread, wire, rxq,
                   rxThread>>

-----------------------------------------------------------------------------
\* What a task does once it has begun a call.
CallStep(r) ==
    \/ StoreUid(r) \/ FindSlot(r) \/ RefuseCall(r) \/ FillUid(r) \/ FillSem(r)
    \/ Enqueue(r) \/ PostTxSem(r) \/ FindMySlot(r) \/ LoseSlot(r) \/ TakeSem(r)
    \/ Expire(r) \/ DestroySem(r) \/ ClearUid(r) \/ ClearSem(r) \/ FetchResponse(r)

TxStep ==
    \/ TxTake \/ TxDequeue \/ TxCompose \/ TxComposeFails \/ TxTimerFails
    \/ TxRegister \/ TxSetCb \/ TxRefuse \/ TxSend \/ TxSendFails \/ TxPutFailure
    \/ TxStarve \/ TxNotify \/ TxCleanup

RxStep ==
    \/ RxTake \/ RxCallback \/ RxStopTimer \/ RxClearUid \/ RxClearCb
    \/ RxPut \/ RxFind \/ RxPost

Next ==
    \/ RpcStart
    \/ \E r \in Reqs : LoadUid(r) \/ CallStep(r) \/ TimerFires(r)
    \/ TxStep \/ RxStep \/ SlaveDrops

Spec == Init /\ [][Next]_vars

\* Tasks and threads are scheduled, timeouts expire, the slave answers or drops
\* what it was sent (RxTake and SlaveDrops consume the same queue) and the
\* transport comes up.  Nobody is obliged to make a call.
Fairness ==
    /\ WF_vars(RpcStart)
    /\ \A r \in Reqs : WF_vars(CallStep(r)) /\ WF_vars(TimerFires(r))
    /\ WF_vars(TxStep) /\ WF_vars(RxStep)

FairSpec == Spec /\ Fairness

-----------------------------------------------------------------------------
(* Invariants.                                                              *)

CallLabels == {"idle", "loaded", "scan", "fill", "fillsem", "enqueue", "post",
               "lookup", "wait", "woken", "expired", "clear", "giveup", "erase",
               "forget", "fetch", "done", "assert_failed"}
SemStates == {"none", "empty", "full", "destroyed"}
TxLabels == {"idle", "dequeue", "compose", "register", "setcb", "send", "fail",
             "notify", "cleanup"}
RxLabels == {"idle", "callback", "crashed", "clear", "release", "erase", "put", "find",
             "post"}
Outcomes == {"response", "failed", "success", "timeout"}
WireMsg == [uid : Uids, req : Reqs, ok : {TRUE}]

\* Labels at which a caller uses the table index it found.
HoldsSlot == {"fill", "fillsem", "wait", "woken", "expired", "clear", "giveup",
              "erase", "forget"}
\* Labels before the request has a uid of its own.
Unnumbered == {"idle", "loaded"}
SyncOnly == CallLabels \ {"idle", "loaded", "enqueue", "post", "done"}

CallersOK ==
    /\ uid \in Uids \cup {0}
    /\ pc \in [Reqs -> CallLabels]
    /\ reqUid \in [Reqs -> Uids \cup {0}]
    /\ slot \in [Reqs -> SyncSlots \cup {0}]
    /\ waitOn \in [Reqs -> SyncReqs \cup {NoReq}]
    /\ sem \in [Reqs -> SemStates]
    /\ freed \in [Reqs -> BOOLEAN] /\ overlapped \in BOOLEAN
    /\ result \in [Reqs -> Elem]
    /\ \A r \in Reqs :
          /\ pc[r] \in HoldsSlot => slot[r] \in SyncSlots
          /\ pc[r] \notin Unnumbered => reqUid[r] \in Uids
          /\ pc[r] \in SyncOnly => r \in SyncReqs

TablesOK ==
    /\ syncTab \in [SyncSlots -> [uid : Uids \cup {0}, sem : SyncReqs \cup {NoReq}]]
    /\ asyncTab \in [AsyncSlots -> [uid : Uids \cup {0}, cb : AsyncReqs \cup {NoReq},
                                    timer : AsyncReqs \cup {NoReq}]]
    /\ timer \in [Reqs -> {"off", "armed", "stopped", "fired"}]
    /\ cbs \in [Reqs -> Seq(Outcomes)]

TxOK ==
    /\ ready \in BOOLEAN
    /\ txq \in Seq(Reqs) /\ Len(txq) <= TxQSize
    /\ txsem \in 0..TxSemMax
    /\ txpc \in TxLabels
    /\ txreq \in Reqs \cup {NoReq}
    /\ txpc \notin {"idle", "dequeue"} => txreq \in Reqs
    /\ txslot \in AsyncSlots \cup {0}
    /\ txpc \in {"register", "setcb"} => txreq \in AsyncReqs
    /\ txpc = "setcb" => txslot \in AsyncSlots
    \* a request that was queued has its uid
    /\ \A i \in 1..Len(txq) : pc[txq[i]] \notin Unnumbered
    /\ txpc \notin {"idle", "dequeue"} => pc[txreq] \notin Unnumbered

RxOK ==
    /\ wire \in Seq(WireMsg)
    /\ rxq \in Seq(Elem) /\ Len(rxq) <= RxQSize
    /\ rxpc \in RxLabels
    /\ rxmsg \in Elem
    /\ rxslot \in AsyncSlots \cup {0}
    /\ rxsem \in SyncReqs \cup {NoReq}
    /\ rxpc \in {"callback", "clear", "release", "erase"} => rxslot \in AsyncSlots

\* Every queue keeps its capacity, every index used is in its table, every uid
\* in use is in 1..2^32-1 and so differs from the mark of a free slot
\* (rpc_core.c:40-42, 941-945), and each thread's registers fit its label.
TypeOK == CallersOK /\ TablesOK /\ TxOK /\ RxOK

\* Tasks between the put into rpc_tx_q and the post of rpc_tx_sem, and the
\* thread between the take of rpc_tx_sem and the dequeue.
Posting == {r \in Reqs : pc[r] = "post"}
TxTaken == IF txpc = "dequeue" THEN 1 ELSE 0

\* rpc_tx_sem counts rpc_tx_q exactly: every queued request has a token, a task
\* about to post one, or the thread that has just taken one (rpc_core.c:959-964
\* and 521-525).  So no post is lost at the maximum, rpc_tx never blocks in the
\* dequeue, and no request is left queued while rpc_tx sleeps.
TxAccounting == Len(txq) = txsem + Cardinality(Posting) + TxTaken

\* Callers that took a semaphore and have not fetched, semaphores posted and not
\* yet taken, and the threads between a put into rpc_rx_q and its post.
Woken == {r \in Reqs : pc[r] \in {"woken", "clear", "erase", "fetch"}}
FullSems == {r \in Reqs : sem[r] = "full"}
RxUnposted == IF rxpc \in {"find", "post"} THEN 1 ELSE 0
TxUnposted == IF txpc = "notify" THEN 1 ELSE 0

\* A caller that a post has woken, or will wake, finds an element in rpc_rx_q
\* whoever the element is for: get_response's dequeue (605) never blocks behind
\* a semaphore that was taken.  Holds with timeouts, failures and racing tasks.
WokenFindsElement ==
    Cardinality(Woken) + Cardinality(FullSems) + RxUnposted + TxUnposted <= Len(rxq)

\* uid is there "to link between requests and responses" (rpc_core.c:40): a call
\* that returns a response returns the one to its own request.  The code does not
\* keep it: get_response takes the first element whatever its uid (605).
ResponseMatchesRequest ==
    \A r \in SyncReqs : result[r] # NoElem => result[r].req = r

\* Some synchronous call has ended, or is about to end, without a response.
GaveUp ==
    \E r \in SyncReqs : \/ pc[r] \in {"expired", "giveup", "forget"}
                        \/ pc[r] = "done" /\ result[r] = NoElem

\* What is in rpc_rx_q answers a call that is still open, and what a call returned
\* answers that call.
ResponsesMatch ==
    /\ ResponseMatchesRequest
    /\ \A i \in DOMAIN rxq : rxq[i].req \in OpenCalls \cap SyncReqs

\* Only two things can leave a response in rpc_rx_q that nobody waits for, or give
\* a call the response to another one (605): calls that were open at the same time,
\* and a call that ended without its response.  Nothing else can: not failed
\* sends, lost answers, or asynchronous requests with their timeouts and answers
\* that come after them.
StrayResponseExplained == ResponsesMatch \/ overlapped \/ GaveUp

\* A response structure has one owner: it is on its way, in rpc_rx_q or with
\* the one caller that will free it (605-614).
Holders(q) ==
    {<<"wire", i>> : i \in {j \in DOMAIN wire : wire[j].req = q}}
      \cup {<<"rxq", i>> : i \in {j \in DOMAIN rxq : rxq[j].req = q}}
      \cup (IF rxpc \in {"callback", "put"} /\ rxmsg.req = q THEN {<<"rx", 0>>} ELSE {})
      \cup {<<"call", r>> : r \in {s \in SyncReqs : result[s].req = q}}
OneOwner == \A q \in Reqs : Cardinality(Holders(q)) <= 1

\* Every used slot of sync_rsp_table belongs to a call that is still open and
\* will clear it (803-804), so the table is empty when nobody is calling.
SlotsBelongToOpenCalls ==
    \A i \in SyncSlots : syncTab[i].uid # 0 =>
        \E r \in OpenCalls : slot[r] = i /\ reqUid[r] = syncTab[i].uid

(* Temporal properties.                                                     *)

\* rpc_rx has called an erased callback, or a caller has destroyed the semaphore of
\* a slot that another one had cleared.
Stopped == rxpc = "crashed" \/ \E r \in Reqs : pc[r] = "assert_failed"

\* rpc_tx waits for room for a failed response in rpc_rx_q (291).
TxBlocked == txpc = "fail" /\ Len(rxq) = RxQSize

\* "It will wait for rpc response or timeout for rpc response" (869-872): every
\* call that is begun returns.
EveryCallReturns == \A r \in SyncReqs : pc[r] # "idle" ~> pc[r] = "done"

\* Every asynchronous request a task has handed over is answered by a callback
\* (a response, a failure or the timeout, 120-220 and 890-895), if there is memory
\* to tell it with.
EveryAsyncAnswered == \A r \in AsyncReqs \ MayStarve : pc[r] = "done" ~> cbs[r] # << >>

\* No request is left without an end, although the answer, the timeout, the failed
\* send and the threads that block on each other's queues compete for it, and
\* although rpc_rx may block for ever behind answers nobody takes (397).  Two ends of
\* the whole client are excepted: the host stops, or rpc_tx blocks for ever behind
\* such answers.
EveryRequestEnds ==
    (EveryCallReturns /\ EveryAsyncAnswered) \/ <>Stopped \/ <>[]TxBlocked
=============================================================================

---------------------------- MODULE RpcCore_proofs ----------------------------
(* Theorems about RpcCore.                                                  *)
EXTENDS RpcCore, FiniteSetTheorems, TLAPS

USE DEF CallLabels, SemStates, TxLabels, RxLabels, Outcomes, HoldsSlot, Unnumbered,
        SyncOnly

LEMMA InitTypeOK == Init => TypeOK
<1> SUFFICES ASSUME Init PROVE TypeOK
  OBVIOUS
<1> USE RequestsAssumption, SizesAssumption DEF Init
<1>1. CallersOK
  BY DEF CallersOK, Elem, NoElem, Reqs, Uids
<1>2. TablesOK
  BY DEF TablesOK, EmptySync, EmptyAsync
<1>3. TxOK
  <2>1. txq \in Seq(Reqs) /\ Len(txq) = 0
    OBVIOUS
  <2>2. txsem \in 0..TxSemMax
    OBVIOUS
  <2>3. \A i \in 1..Len(txq) : reqUid[txq[i]] \in Uids
    BY <2>1
  <2>4. ready \in BOOLEAN
    OBVIOUS
  <2>5. txpc \in TxLabels /\ txpc = "idle" /\ txreq \in Reqs \cup {NoReq}
    OBVIOUS
  <2>6. Len(txq) <= TxQSize
    BY <2>1
  <2> QED
    BY <2>1, <2>2, <2>3, <2>4, <2>5, <2>6 DEF TxOK
<1>4. RxOK
  BY DEF RxOK, Elem, NoElem
<1> QED
  BY <1>1, <1>2, <1>3, <1>4 DEF TypeOK

-----------------------------------------------------------------------------
(* Each action preserves each part of TypeOK. *)
LEMMA AppendOutcome ==
  \A s \in Seq(Outcomes) : \A o \in Outcomes : Append(s, o) \in Seq(Outcomes)
  OBVIOUS

LEMMA ToldType ==
  ASSUME cbs \in [Reqs -> Seq(Outcomes)], NEW r, NEW o \in Outcomes, cbs' \in Told(r, o)
  PROVE  cbs' \in [Reqs -> Seq(Outcomes)]
<1>1. CASE cbs' = cbs
  BY <1>1
<1>2. CASE cbs' = [cbs EXCEPT ![r] = Append(cbs[r], o)]
  <2>1. CASE r \in Reqs
    BY <1>2, <2>1, AppendOutcome
  <2>2. CASE r \notin Reqs
    BY <1>2, <2>2
  <2> QED
    BY <2>1, <2>2
<1> QED
  BY <1>1, <1>2 DEF Told

\* Writing one field of an entry keeps the table a table.
SyncEntries == [uid : Uids \cup {0}, sem : SyncReqs \cup {NoReq}]
AsyncEntries == [uid : Uids \cup {0}, cb : AsyncReqs \cup {NoReq}, timer : AsyncReqs \cup {NoReq}]

LEMMA SyncFieldType ==
  ASSUME NEW t \in [SyncSlots -> SyncEntries], NEW i \in SyncSlots,
         NEW u \in Uids \cup {0}, NEW q \in SyncReqs \cup {NoReq}
  PROVE  /\ [t EXCEPT ![i].uid = u] \in [SyncSlots -> SyncEntries]
         /\ [t EXCEPT ![i].sem = q] \in [SyncSlots -> SyncEntries]
<1>1. t[i] \in SyncEntries
  OBVIOUS
<1>2. [t[i] EXCEPT !.uid = u] \in SyncEntries /\ [t[i] EXCEPT !.sem = q] \in SyncEntries
  BY <1>1 DEF SyncEntries
<1> QED
  BY <1>2

LEMMA AsyncFieldType ==
  ASSUME NEW t \in [AsyncSlots -> AsyncEntries], NEW i \in AsyncSlots,
         NEW u \in Uids \cup {0}, NEW q \in AsyncReqs \cup {NoReq}
  PROVE  /\ [t EXCEPT ![i].uid = u] \in [AsyncSlots -> AsyncEntries]
         /\ [t EXCEPT ![i].cb = q] \in [AsyncSlots -> AsyncEntries]
         /\ [t EXCEPT ![i].timer = q] \in [AsyncSlots -> AsyncEntries]
<1>1. t[i] \in AsyncEntries
  OBVIOUS
<1>2. /\ [t[i] EXCEPT !.uid = u] \in AsyncEntries
      /\ [t[i] EXCEPT !.cb = q] \in AsyncEntries
      /\ [t[i] EXCEPT !.timer = q] \in AsyncEntries
  BY <1>1 DEF AsyncEntries
<1> QED
  BY <1>2

LEMMA CallTypeOK ==
  ASSUME TypeOK, NEW r \in Reqs, LoadUid(r) \/ CallStep(r)
  PROVE  TypeOK'
<1> USE RequestsAssumption, SizesAssumption
    DEF TypeOK, GoTo, Reqs, numbering, callers, tables, callbacks, txThread, rxThread
<1>1. CASE LoadUid(r)
  <2>1. CallersOK'
    BY <1>1 DEF LoadUid, CallersOK
  <2>2. TablesOK'
    BY <1>1 DEF LoadUid, TablesOK
  <2>3. TxOK'
    BY <1>1 DEF LoadUid, TxOK
  <2>4. RxOK'
    BY <1>1 DEF LoadUid, RxOK
  <2> QED
    BY <2>1, <2>2, <2>3, <2>4 DEF TypeOK
<1>2. CASE StoreUid(r)
  <2>1. CallersOK'
    BY <1>2 DEF StoreUid, CallersOK, NextUid, FreshSem, Uids
  <2>2. TablesOK'
    BY <1>2 DEF StoreUid, TablesOK
  <2>3. TxOK'
    <3>1. \A q \in Reqs : pc[q] \notin Unnumbered => pc'[q] \notin Unnumbered
      BY <1>2 DEF StoreUid, CallersOK
    <3>2. UNCHANGED <<ready, txThread>>
      BY <1>2 DEF StoreUid
    <3> QED
      BY <3>1, <3>2 DEF TxOK, txThread
  <2>4. RxOK'
    BY <1>2 DEF StoreUid, RxOK
  <2> QED
    BY <2>1, <2>2, <2>3, <2>4 DEF TypeOK
<1>3. CASE FindSlot(r)
  <2>1. CallersOK'
    BY <1>3 DEF FindSlot, CallersOK
  <2>2. TablesOK'
    BY <1>3 DEF FindSlot, TablesOK
  <2>3. TxOK'
    BY <1>3 DEF FindSlot, TxOK
  <2>4. RxOK'
    BY <1>3 DEF FindSlot, RxOK
  <2> QED
    BY <2>1, <2>2, <2>3, <2>4 DEF TypeOK
<1>4. CASE RefuseCall(r)
  <2>1. CallersOK'
    BY <1>4 DEF RefuseCall, CallersOK
  <2>2. TablesOK'
    BY <1>4 DEF RefuseCall, TablesOK
  <2>3. TxOK'
    BY <1>4 DEF RefuseCall, TxOK
  <2>4. RxOK'
    BY <1>4 DEF RefuseCall, RxOK
  <2> QED
    BY <2>1, <2>2, <2>3, <2>4 DEF TypeOK
<1>5. CASE FillUid(r)
  <2>1. CallersOK'
    BY <1>5 DEF FillUid, CallersOK
  <2>2. TablesOK'
    <3>1. slot[r] \in SyncSlots /\ reqUid[r] \in Uids \cup {0}
      BY <1>5 DEF FillUid, CallersOK, HoldsSlot
    <3>2. syncTab' \in [SyncSlots -> SyncEntries]
      BY <1>5, <3>1, SyncFieldType DEF FillUid, TablesOK, SyncEntries
    <3> QED
      BY <1>5, <3>2 DEF FillUid, TablesOK, SyncEntries
  <2>3. TxOK'
    BY <1>5 DEF FillUid, TxOK
  <2>4. RxOK'
    BY <1>5 DEF FillUid, RxOK
  <2> QED
    BY <2>1, <2>2, <2>3, <2>4 DEF TypeOK
<1>6. CASE FillSem(r)
  <2>1. CallersOK'
    BY <1>6 DEF FillSem, CallersOK
  <2>2. TablesOK'
    <3>1. slot[r] \in SyncSlots /\ r \in SyncReqs \cup {NoReq}
      BY <1>6 DEF FillSem, CallersOK, HoldsSlot, SyncOnly, CallLabels
    <3>2. syncTab' \in [SyncSlots -> SyncEntries]
      BY <1>6, <3>1, SyncFieldType DEF FillSem, TablesOK, SyncEntries
    <3> QED
      BY <1>6, <3>2 DEF FillSem, TablesOK, SyncEntries
  <2>3. TxOK'
    BY <1>6 DEF FillSem, TxOK
  <2>4. RxOK'
    BY <1>6 DEF FillSem, RxOK
  <2> QED
    BY <2>1, <2>2, <2>3, <2>4 DEF TypeOK
<1>7. CASE Enqueue(r)
  <2>1. CallersOK'
    BY <1>7 DEF Enqueue, CallersOK
  <2>2. TablesOK'
    BY <1>7 DEF Enqueue, TablesOK
  <2>3. TxOK'
    BY <1>7 DEF Enqueue, TxOK, CallersOK
  <2>4. RxOK'
    BY <1>7 DEF Enqueue, RxOK
  <2> QED
    BY <2>1, <2>2, <2>3, <2>4 DEF TypeOK
<1>8. CASE PostTxSem(r)
  <2>1. CallersOK'
    BY <1>8 DEF PostTxSem, CallersOK
  <2>2. TablesOK'
    BY <1>8 DEF PostTxSem, TablesOK
  <2>3. TxOK'
    BY <1>8 DEF PostTxSem, GiveSem, TxOK
  <2>4. RxOK'
    BY <1>8 DEF PostTxSem, RxOK
  <2> QED
    BY <2>1, <2>2, <2>3, <2>4 DEF TypeOK
<1>9. CASE FindMySlot(r)
  <2>1. CallersOK'
    <3>1. reqUid[r] \in Uids /\ r \in SyncReqs
      BY <1>9 DEF FindMySlot, CallersOK, Unnumbered, SyncOnly, CallLabels
    <3>2. PICK i \in SyncSlots : /\ syncTab[i].uid = reqUid[r]
                                 /\ slot' = [slot EXCEPT ![r] = i]
                                 /\ waitOn' = [waitOn EXCEPT ![r] = syncTab[i].sem]
      BY <1>9 DEF FindMySlot, IsFirst
    <3>3. syncTab[i].sem \in SyncReqs \cup {NoReq}
      BY <3>1, <3>2 DEF TablesOK, Uids
    <3>4. /\ pc' = [pc EXCEPT ![r] = "wait"]
          /\ UNCHANGED <<uid, reqUid, sem, freed, result, overlapped>>
      BY <1>9 DEF FindMySlot
    <3> QED
      BY <3>1, <3>2, <3>3, <3>4 DEF CallersOK, CallLabels, HoldsSlot, Unnumbered, SyncOnly
  <2>2. TablesOK'
    BY <1>9 DEF FindMySlot, TablesOK
  <2>3. TxOK'
    BY <1>9 DEF FindMySlot, TxOK
  <2>4. RxOK'
    BY <1>9 DEF FindMySlot, RxOK
  <2> QED
    BY <2>1, <2>2, <2>3, <2>4 DEF TypeOK
<1>10. CASE LoseSlot(r)
  <2>1. CallersOK'
    BY <1>10 DEF LoseSlot, CallersOK
  <2>2. TablesOK'
    BY <1>10 DEF LoseSlot, TablesOK
  <2>3. TxOK'
    BY <1>10 DEF LoseSlot, TxOK
  <2>4. RxOK'
    BY <1>10 DEF LoseSlot, RxOK
  <2> QED
    BY <2>1, <2>2, <2>3, <2>4 DEF TypeOK
<1>11. CASE TakeSem(r)
  <2>1. CallersOK'
    BY <1>11 DEF TakeSem, CallersOK
  <2>2. TablesOK'
    BY <1>11 DEF TakeSem, TablesOK
  <2>3. TxOK'
    BY <1>11 DEF TakeSem, TxOK
  <2>4. RxOK'
    BY <1>11 DEF TakeSem, RxOK
  <2> QED
    BY <2>1, <2>2, <2>3, <2>4 DEF TypeOK
<1>12. CASE Expire(r)
  <2>1. CallersOK'
    BY <1>12 DEF Expire, CallersOK
  <2>2. TablesOK'
    BY <1>12 DEF Expire, TablesOK
  <2>3. TxOK'
    BY <1>12 DEF Expire, TxOK
  <2>4. RxOK'
    BY <1>12 DEF Expire, RxOK
  <2> QED
    BY <2>1, <2>2, <2>3, <2>4 DEF TypeOK
<1>13. CASE DestroySem(r)
  <2>1. CallersOK'
    BY <1>13 DEF DestroySem, CallersOK
  <2>2. TablesOK'
    BY <1>13 DEF DestroySem, TablesOK
  <2>3. TxOK'
    <3>1. \A q \in Reqs : pc[q] \notin Unnumbered => pc'[q] \notin Unnumbered
      BY <1>13 DEF DestroySem, CallersOK
    <3>2. UNCHANGED <<ready, txThread>>
      BY <1>13 DEF DestroySem
    <3> QED
      BY <3>1, <3>2 DEF TxOK, txThread
  <2>4. RxOK'
    BY <1>13 DEF DestroySem, RxOK
  <2> QED
    BY <2>1, <2>2, <2>3, <2>4 DEF TypeOK
<1>14. CASE ClearUid(r)
  <2>1. CallersOK'
    BY <1>14 DEF ClearUid, CallersOK
  <2>2. TablesOK'
    <3>1. slot[r] \in SyncSlots /\ 0 \in Uids \cup {0}
      BY <1>14 DEF ClearUid, CallersOK, HoldsSlot
    <3>2. syncTab' \in [SyncSlots -> SyncEntries]
      BY <1>14, <3>1, SyncFieldType DEF ClearUid, TablesOK, SyncEntries
    <3> QED
      BY <1>14, <3>2 DEF ClearUid, TablesOK, SyncEntries
  <2>3. TxOK'
    <3>1. \A q \in Reqs : pc[q] \notin Unnumbered => pc'[q] \notin Unnumbered
      BY <1>14 DEF ClearUid, CallersOK
    <3>2. UNCHANGED <<ready, txThread>>
      BY <1>14 DEF ClearUid
    <3> QED
      BY <3>1, <3>2 DEF TxOK, txThread
  <2>4. RxOK'
    BY <1>14 DEF ClearUid, RxOK
  <2> QED
    BY <2>1, <2>2, <2>3, <2>4 DEF TypeOK
<1>15. CASE ClearSem(r)
  <2>1. CallersOK'
    <3>1. pc' \in [Reqs -> CallLabels] /\ freed' \in [Reqs -> BOOLEAN]
      <4>1. CASE pc[r] = "erase"
        BY <1>15, <4>1 DEF ClearSem, CallersOK
      <4>2. CASE pc[r] = "forget"
        <5>1. pc' = [pc EXCEPT ![r] = "done"] /\ freed' = [freed EXCEPT ![r] = TRUE]
          BY <1>15, <4>2 DEF ClearSem
        <5>2. pc' \in [Reqs -> CallLabels]
          BY <5>1 DEF CallersOK
        <5>3. freed' \in [Reqs -> BOOLEAN]
          BY <5>1 DEF CallersOK
        <5> QED
          BY <5>2, <5>3
      <4> QED
        BY <1>15, <4>1, <4>2 DEF ClearSem
    <3>2. UNCHANGED <<uid, reqUid, slot, waitOn, sem, result, overlapped>>
      BY <1>15 DEF ClearSem, numbering
    <3>3. \A q \in Reqs : \/ pc'[q] = pc[q]
                          \/ q = r /\ pc[r] \in SyncOnly /\ pc'[r] \in {"fetch", "done"}
      BY <1>15 DEF ClearSem, CallersOK
    <3> QED
      BY <3>1, <3>2, <3>3 DEF CallersOK
  <2>2. TablesOK'
    <3>1. slot[r] \in SyncSlots /\ NoReq \in SyncReqs \cup {NoReq}
      BY <1>15 DEF ClearSem, CallersOK, HoldsSlot
    <3>2. syncTab' \in [SyncSlots -> SyncEntries]
      BY <1>15, <3>1, SyncFieldType DEF ClearSem, TablesOK, SyncEntries
    <3> QED
      BY <1>15, <3>2 DEF ClearSem, TablesOK, SyncEntries
  <2>3. TxOK'
    <3>1. \A q \in Reqs : pc[q] \notin Unnumbered => pc'[q] \notin Unnumbered
      BY <1>15 DEF ClearSem, CallersOK
    <3>2. UNCHANGED <<ready, txThread>>
      BY <1>15 DEF ClearSem
    <3> QED
      BY <3>1, <3>2 DEF TxOK, txThread
  <2>4. RxOK'
    BY <1>15 DEF ClearSem, RxOK
  <2> QED
    BY <2>1, <2>2, <2>3, <2>4 DEF TypeOK
<1>16. CASE FetchResponse(r)
  <2>1. CallersOK'
    BY <1>16 DEF FetchResponse, CallersOK, RxOK
  <2>2. TablesOK'
    BY <1>16 DEF FetchResponse, TablesOK
  <2>3. TxOK'
    BY <1>16 DEF FetchResponse, TxOK
  <2>4. RxOK'
    BY <1>16 DEF FetchResponse, RxOK
  <2> QED
    BY <2>1, <2>2, <2>3, <2>4 DEF TypeOK
<1> QED
  BY <1>1, <1>2, <1>3, <1>4, <1>5, <1>6, <1>7, <1>8, <1>9, <1>10, <1>11, <1>12, <1>13, <1>14,
     <1>15, <1>16 DEF CallStep

LEMMA TxTypeOK ==
  ASSUME TypeOK, TxStep
  PROVE  TypeOK'
<1> USE RequestsAssumption, SizesAssumption
    DEF TypeOK, GoTo, Reqs, numbering, callers, tables, callbacks, txThread, rxThread
<1>1. CASE TxTake
  <2>1. CallersOK'
    BY <1>1 DEF TxTake, CallersOK
  <2>2. TablesOK'
    BY <1>1 DEF TxTake, TablesOK
  <2>3. TxOK'
    BY <1>1 DEF TxTake, TxOK
  <2>4. RxOK'
    BY <1>1 DEF TxTake, RxOK
  <2> QED
    BY <2>1, <2>2, <2>3, <2>4 DEF TypeOK
<1>2. CASE TxDequeue
  <2>1. CallersOK'
    BY <1>2 DEF TxDequeue, CallersOK
  <2>2. TablesOK'
    BY <1>2 DEF TxDequeue, TablesOK
  <2>3. TxOK'
    BY <1>2 DEF TxDequeue, TxOK
  <2>4. RxOK'
    BY <1>2 DEF TxDequeue, RxOK
  <2> QED
    BY <2>1, <2>2, <2>3, <2>4 DEF TypeOK
<1>3. CASE TxCompose
  <2>1. CallersOK'
    BY <1>3 DEF TxCompose, CallersOK
  <2>2. TablesOK'
    BY <1>3 DEF TxCompose, TablesOK
  <2>3. TxOK'
    BY <1>3 DEF TxCompose, TxOK
  <2>4. RxOK'
    BY <1>3 DEF TxCompose, RxOK
  <2> QED
    BY <2>1, <2>2, <2>3, <2>4 DEF TypeOK
<1>4. CASE TxComposeFails
  <2>1. CallersOK'
    BY <1>4 DEF TxComposeFails, CallersOK
  <2>2. TablesOK'
    <3>1. CASE txreq \in AsyncReqs
      <4>0. cbs' \in Told(txreq, "failed")
        BY <1>4, <3>1 DEF TxComposeFails, TellFailure
      <4>1. cbs' \in [Reqs -> Seq(Outcomes)]
        BY <4>0, ToldType DEF TablesOK
      <4> QED
        BY <1>4, <4>1 DEF TxComposeFails, TablesOK, tables
    <3>2. CASE txreq \notin AsyncReqs
      BY <1>4, <3>2 DEF TxComposeFails, TablesOK, tables
    <3> QED
      BY <3>1, <3>2
  <2>3. TxOK'
    BY <1>4 DEF TxComposeFails, TxOK, TellFailure
  <2>4. RxOK'
    BY <1>4 DEF TxComposeFails, RxOK
  <2> QED
    BY <2>1, <2>2, <2>3, <2>4 DEF TypeOK
<1>5. CASE TxTimerFails
  <2>1. CallersOK'
    BY <1>5 DEF TxTimerFails, CallersOK
  <2>2. TablesOK'
    <3>1. cbs' \in [Reqs -> Seq(Outcomes)]
      <4>1. cbs' \in Told(txreq, "success")
        BY <1>5 DEF TxTimerFails, TellFailure
      <4> QED
        BY <4>1, ToldType DEF TablesOK
    <3> QED
      BY <1>5, <3>1 DEF TxTimerFails, TablesOK, tables, callbacks
  <2>3. TxOK'
    BY <1>5 DEF TxTimerFails, TxOK, TellFailure
  <2>4. RxOK'
    BY <1>5 DEF TxTimerFails, RxOK
  <2> QED
    BY <2>1, <2>2, <2>3, <2>4 DEF TypeOK
<1>6. CASE TxRegister
  <2>1. CallersOK'
    BY <1>6 DEF TxRegister, CallersOK
  <2>2. TablesOK'
    <3>1. reqUid[txreq] \in Uids \cup {0}
      BY <1>6 DEF TxRegister, TxOK, CallersOK
    <3>2. asyncTab' \in [AsyncSlots -> AsyncEntries]
      <4>1. PICK i \in AsyncSlots : asyncTab' = [asyncTab EXCEPT ![i].uid = reqUid[txreq]]
        BY <1>6 DEF TxRegister, AsyncUid
      <4>2. asyncTab \in [AsyncSlots -> AsyncEntries]
        BY DEF TablesOK, AsyncEntries
      <4>3. [asyncTab EXCEPT ![i].uid = reqUid[txreq]] \in [AsyncSlots -> AsyncEntries]
        BY <3>1, <4>2, AsyncFieldType
      <4> QED
        BY <4>1, <4>3
    <3>3. timer' \in [Reqs -> {"off", "armed", "stopped", "fired"}]
      BY <1>6 DEF TxRegister, TablesOK
    <3> QED
      BY <1>6, <3>2, <3>3 DEF TxRegister, TablesOK, AsyncEntries
  <2>3. TxOK'
    BY <1>6 DEF TxRegister, TxOK
  <2>4. RxOK'
    BY <1>6 DEF TxRegister, RxOK
  <2> QED
    BY <2>1, <2>2, <2>3, <2>4 DEF TypeOK
<1>7. CASE TxSetCb
  <2>1. CallersOK'
    BY <1>7 DEF TxSetCb, CallersOK
  <2>2. TablesOK'
    <3>1. txreq \in AsyncReqs \cup {NoReq} /\ txslot \in AsyncSlots
      BY <1>7 DEF TxSetCb, TxOK
    <3>2. [asyncTab EXCEPT ![txslot].cb = txreq] \in [AsyncSlots -> AsyncEntries]
      BY <3>1, AsyncFieldType DEF TablesOK, AsyncEntries
    <3> DEFINE t == [asyncTab EXCEPT ![txslot].cb = txreq]
    <3>3. asyncTab' = [t EXCEPT ![txslot].timer = txreq]
      BY <1>7 DEF TxSetCb
    <3> HIDE DEF t
    <3>4. asyncTab' \in [AsyncSlots -> AsyncEntries]
      BY <3>1, <3>2, <3>3, AsyncFieldType DEF t
    <3> QED
      BY <1>7, <3>4 DEF TxSetCb, TablesOK, AsyncEntries
  <2>3. TxOK'
    BY <1>7 DEF TxSetCb, TxOK
  <2>4. RxOK'
    BY <1>7 DEF TxSetCb, RxOK
  <2> QED
    BY <2>1, <2>2, <2>3, <2>4 DEF TypeOK
<1>8. CASE TxRefuse
  <2>1. CallersOK'
    BY <1>8 DEF TxRefuse, CallersOK
  <2>2. TablesOK'
    <3>1. cbs' \in [Reqs -> Seq(Outcomes)]
      <4>1. cbs' \in Told(txreq, "failed")
        BY <1>8 DEF TxRefuse, TellFailure
      <4> QED
        BY <4>1, ToldType DEF TablesOK
    <3> QED
      BY <1>8, <3>1 DEF TxRefuse, TablesOK, tables, callbacks
  <2>3. TxOK'
    BY <1>8 DEF TxRefuse, TxOK, TellFailure
  <2>4. RxOK'
    BY <1>8 DEF TxRefuse, RxOK
  <2> QED
    BY <2>1, <2>2, <2>3, <2>4 DEF TypeOK
<1>9. CASE TxSend
  <2>1. CallersOK'
    BY <1>9 DEF TxSend, CallersOK
  <2>2. TablesOK'
    BY <1>9 DEF TxSend, TablesOK
  <2>3. TxOK'
    BY <1>9 DEF TxSend, TxOK
  <2>4. RxOK'
    BY <1>9 DEF TxSend, RxOK, TxOK, CallersOK, WireMsg
  <2> QED
    BY <2>1, <2>2, <2>3, <2>4 DEF TypeOK
<1>10. CASE TxSendFails
  <2>1. CallersOK'
    BY <1>10 DEF TxSendFails, CallersOK
  <2>2. TablesOK'
    <3>1. CASE txreq \in AsyncReqs
      <4>0. cbs' \in Told(txreq, "failed")
        BY <1>10, <3>1 DEF TxSendFails, TellFailure
      <4>1. cbs' \in [Reqs -> Seq(Outcomes)]
        BY <4>0, ToldType DEF TablesOK
      <4> QED
        BY <1>10, <4>1 DEF TxSendFails, TablesOK, tables
    <3>2. CASE txreq \notin AsyncReqs
      BY <1>10, <3>2 DEF TxSendFails, TablesOK, tables
    <3> QED
      BY <3>1, <3>2
  <2>3. TxOK'
    BY <1>10 DEF TxSendFails, TxOK, TellFailure
  <2>4. RxOK'
    BY <1>10 DEF TxSendFails, RxOK
  <2> QED
    BY <2>1, <2>2, <2>3, <2>4 DEF TypeOK
<1>11. CASE TxPutFailure
  <2>1. CallersOK'
    BY <1>11 DEF TxPutFailure, CallersOK
  <2>2. TablesOK'
    BY <1>11 DEF TxPutFailure, TablesOK
  <2>3. TxOK'
    BY <1>11 DEF TxPutFailure, TxOK
  <2>4. RxOK'
    BY <1>11 DEF TxPutFailure, RxOK, TxOK, Elem
  <2> QED
    BY <2>1, <2>2, <2>3, <2>4 DEF TypeOK
<1>12. CASE TxNotify
  <2>1. CallersOK'
    BY <1>12 DEF TxNotify, CallersOK, PostSem
  <2>2. TablesOK'
    BY <1>12 DEF TxNotify, TablesOK
  <2>3. TxOK'
    BY <1>12 DEF TxNotify, TxOK
  <2>4. RxOK'
    BY <1>12 DEF TxNotify, RxOK
  <2> QED
    BY <2>1, <2>2, <2>3, <2>4 DEF TypeOK
<1>13. CASE TxStarve
  <2>1. CallersOK'
    BY <1>13 DEF TxStarve, CallersOK
  <2>2. TablesOK'
    BY <1>13 DEF TxStarve, TablesOK
  <2>3. TxOK'
    BY <1>13 DEF TxStarve, TxOK
  <2>4. RxOK'
    BY <1>13 DEF TxStarve, RxOK
  <2> QED
    BY <2>1, <2>2, <2>3, <2>4 DEF TypeOK
<1>14. CASE TxCleanup
  <2>1. CallersOK'
    BY <1>14 DEF TxCleanup, CallersOK
  <2>2. TablesOK'
    BY <1>14 DEF TxCleanup, TablesOK
  <2>3. TxOK'
    BY <1>14 DEF TxCleanup, TxOK
  <2>4. RxOK'
    BY <1>14 DEF TxCleanup, RxOK
  <2> QED
    BY <2>1, <2>2, <2>3, <2>4 DEF TypeOK
<1> QED
  BY <1>1, <1>2, <1>3, <1>4, <1>5, <1>6, <1>7, <1>8, <1>9, <1>10, <1>11, <1>12, <1>13, <1>14
  DEF TxStep

LEMMA RxTypeOK ==
  ASSUME TypeOK, RpcStart \/ SlaveDrops \/ RxStep
  PROVE  TypeOK'
<1> USE RequestsAssumption, SizesAssumption
    DEF TypeOK, GoTo, Reqs, numbering, callers, tables, callbacks, txThread, rxThread
<1>1. CASE RpcStart
  <2>1. CallersOK'
    BY <1>1 DEF RpcStart, CallersOK
  <2>2. TablesOK'
    BY <1>1 DEF RpcStart, TablesOK
  <2>3. TxOK'
    BY <1>1 DEF RpcStart, TxOK
  <2>4. RxOK'
    BY <1>1 DEF RpcStart, RxOK
  <2> QED
    BY <2>1, <2>2, <2>3, <2>4 DEF TypeOK
<1>2. CASE SlaveDrops
  <2>1. CallersOK'
    BY <1>2 DEF SlaveDrops, CallersOK
  <2>2. TablesOK'
    BY <1>2 DEF SlaveDrops, TablesOK
  <2>3. TxOK'
    BY <1>2 DEF SlaveDrops, TxOK
  <2>4. RxOK'
    BY <1>2 DEF SlaveDrops, RxOK
  <2> QED
    BY <2>1, <2>2, <2>3, <2>4 DEF TypeOK
<1>3. CASE RxTake
  <2>1. CallersOK'
    BY <1>3 DEF RxTake, CallersOK
  <2>2. TablesOK'
    BY <1>3 DEF RxTake, TablesOK
  <2>3. TxOK'
    BY <1>3 DEF RxTake, TxOK
  <2>4. RxOK'
    <3>1. Head(wire) \in WireMsg /\ Tail(wire) \in Seq(WireMsg)
      BY <1>3 DEF RxTake, RxOK
    <3>2. rxmsg' \in Elem
      BY <1>3, <3>1 DEF RxTake, WireMsg, Elem
    <3>3. /\ rxslot' \in AsyncSlots \cup {0}
          /\ rxpc' = "put" \/ (rxpc' = "callback" /\ rxslot' \in AsyncSlots)
      BY <1>3 DEF RxTake
    <3> QED
      BY <1>3, <3>1, <3>2, <3>3 DEF RxTake, RxOK
  <2> QED
    BY <2>1, <2>2, <2>3, <2>4 DEF TypeOK
<1>4. CASE RxCallback
  <2>1. CallersOK'
    BY <1>4 DEF RxCallback, CallersOK
  <2>2. TablesOK'
    <3>1. cbs' \in [Reqs -> Seq(Outcomes)]
      <4>1. CASE asyncTab[rxslot].cb = NoReq
        BY <1>4, <4>1 DEF RxCallback, TablesOK
      <4>2. CASE asyncTab[rxslot].cb # NoReq
        <5> DEFINE q == asyncTab[rxslot].cb
        <5>1. q \in AsyncReqs
          BY <1>4, <4>2 DEF RxCallback, TablesOK, RxOK
        <5>2. cbs' = [cbs EXCEPT ![q] = Append(@, "response")]
          BY <1>4, <4>2 DEF RxCallback
        <5> HIDE DEF q
        <5> QED
          BY <5>1, <5>2, AppendOutcome DEF TablesOK
      <4> QED
        BY <4>1, <4>2
    <3> QED
      BY <1>4, <3>1 DEF RxCallback, TablesOK, tables, callbacks
  <2>3. TxOK'
    BY <1>4 DEF RxCallback, TxOK
  <2>4. RxOK'
    BY <1>4 DEF RxCallback, RxOK
  <2> QED
    BY <2>1, <2>2, <2>3, <2>4 DEF TypeOK
<1>5. CASE RxStopTimer
  <2>1. CallersOK'
    BY <1>5 DEF RxStopTimer, CallersOK
  <2>2. TablesOK'
    <3>1. rxslot \in AsyncSlots /\ NoReq \in AsyncReqs \cup {NoReq}
      BY <1>5 DEF RxStopTimer, RxOK
    <3>2. asyncTab' \in [AsyncSlots -> AsyncEntries]
      BY <1>5, <3>1, AsyncFieldType DEF RxStopTimer, TablesOK, AsyncEntries
    <3>3. timer' \in [Reqs -> {"off", "armed", "stopped", "fired"}]
      BY <1>5 DEF RxStopTimer, TablesOK
    <3> QED
      BY <1>5, <3>2, <3>3 DEF RxStopTimer, TablesOK, AsyncEntries
  <2>3. TxOK'
    BY <1>5 DEF RxStopTimer, TxOK
  <2>4. RxOK'
    BY <1>5 DEF RxStopTimer, RxOK
  <2> QED
    BY <2>1, <2>2, <2>3, <2>4 DEF TypeOK
<1>6. CASE RxClearUid
  <2>1. CallersOK'
    BY <1>6 DEF RxClearUid, CallersOK
  <2>2. TablesOK'
    <3>1. rxslot \in AsyncSlots /\ 0 \in Uids \cup {0}
      BY <1>6 DEF RxClearUid, RxOK
    <3>2. asyncTab' \in [AsyncSlots -> AsyncEntries]
      BY <1>6, <3>1, AsyncFieldType DEF RxClearUid, TablesOK, AsyncEntries
    <3> QED
      BY <1>6, <3>2 DEF RxClearUid, TablesOK, AsyncEntries
  <2>3. TxOK'
    BY <1>6 DEF RxClearUid, TxOK
  <2>4. RxOK'
    BY <1>6 DEF RxClearUid, RxOK
  <2> QED
    BY <2>1, <2>2, <2>3, <2>4 DEF TypeOK
<1>7. CASE RxClearCb
  <2>1. CallersOK'
    BY <1>7 DEF RxClearCb, CallersOK
  <2>2. TablesOK'
    <3>1. rxslot \in AsyncSlots /\ NoReq \in AsyncReqs \cup {NoReq}
      BY <1>7 DEF RxClearCb, RxOK
    <3>2. asyncTab' \in [AsyncSlots -> AsyncEntries]
      BY <1>7, <3>1, AsyncFieldType DEF RxClearCb, TablesOK, AsyncEntries
    <3> QED
      BY <1>7, <3>2 DEF RxClearCb, TablesOK, AsyncEntries
  <2>3. TxOK'
    BY <1>7 DEF RxClearCb, TxOK
  <2>4. RxOK'
    BY <1>7 DEF RxClearCb, RxOK
  <2> QED
    BY <2>1, <2>2, <2>3, <2>4 DEF TypeOK
<1>8. CASE RxPut
  <2>1. CallersOK'
    BY <1>8 DEF RxPut, CallersOK
  <2>2. TablesOK'
    BY <1>8 DEF RxPut, TablesOK
  <2>3. TxOK'
    BY <1>8 DEF RxPut, TxOK
  <2>4. RxOK'
    BY <1>8 DEF RxPut, RxOK
  <2> QED
    BY <2>1, <2>2, <2>3, <2>4 DEF TypeOK
<1>9. CASE RxFind
  <2>1. CallersOK'
    BY <1>9 DEF RxFind, CallersOK
  <2>2. TablesOK'
    BY <1>9 DEF RxFind, TablesOK
  <2>3. TxOK'
    BY <1>9 DEF RxFind, TxOK
  <2>4. RxOK'
    BY <1>9 DEF RxFind, RxOK, TablesOK
  <2> QED
    BY <2>1, <2>2, <2>3, <2>4 DEF TypeOK
<1>10. CASE RxPost
  <2>1. CallersOK'
    BY <1>10 DEF RxPost, CallersOK, PostSem
  <2>2. TablesOK'
    BY <1>10 DEF RxPost, TablesOK
  <2>3. TxOK'
    BY <1>10 DEF RxPost, TxOK
  <2>4. RxOK'
    BY <1>10 DEF RxPost, RxOK
  <2> QED
    BY <2>1, <2>2, <2>3, <2>4 DEF TypeOK
<1> QED
  BY <1>1, <1>2, <1>3, <1>4, <1>5, <1>6, <1>7, <1>8, <1>9, <1>10 DEF RxStep

LEMMA TimerTypeOK ==
  ASSUME TypeOK, NEW r \in Reqs, TimerFires(r)
  PROVE  TypeOK'
<1> USE RequestsAssumption, SizesAssumption DEF TypeOK, Reqs
<1>1. CallersOK'
  BY DEF TimerFires, CallersOK, numbering, callers
<1>2. TablesOK'
  <2>1. cbs' \in [Reqs -> Seq(Outcomes)]
    BY ToldType DEF TimerFires, TablesOK
  <2> QED
    BY <2>1 DEF TimerFires, TablesOK, tables
<1>3. TxOK'
  BY DEF TimerFires, TxOK, callers, txThread
<1>4. RxOK'
  BY DEF TimerFires, RxOK, rxThread
<1> QED
  BY <1>1, <1>2, <1>3, <1>4

LEMMA StutterTypeOK == TypeOK /\ UNCHANGED vars => TypeOK'
  BY DEF TypeOK, CallersOK, TablesOK, TxOK, RxOK, vars, numbering, callers, tables,
         callbacks, txThread, rxThread

(***************************************************************************)
(* The type invariant: every table index, queue length, uid and register   *)
(* of rpc_core.c stays in range for any number of calls, tasks and slots.  *)
(***************************************************************************)
THEOREM TypeCorrect == Spec => []TypeOK
<1>1. Init => TypeOK
  BY InitTypeOK
<1>2. TypeOK /\ [Next]_vars => TypeOK'
  <2> SUFFICES ASSUME TypeOK, [Next]_vars PROVE TypeOK'
    OBVIOUS
  <2>1. CASE \E r \in Reqs : LoadUid(r) \/ CallStep(r)
    BY <2>1, CallTypeOK
  <2>2. CASE \E r \in Reqs : TimerFires(r)
    BY <2>2, TimerTypeOK
  <2>3. CASE TxStep
    BY <2>3, TxTypeOK
  <2>4. CASE RpcStart \/ SlaveDrops \/ RxStep
    BY <2>4, RxTypeOK
  <2>5. CASE UNCHANGED vars
    BY <2>5, StutterTypeOK
  <2> QED
    BY <2>1, <2>2, <2>3, <2>4, <2>5 DEF Next
<1> QED
  BY <1>1, <1>2, PTL DEF Spec

-----------------------------------------------------------------------------
(* Cardinalities of sets of requests. *)

LEMMA CardType ==
  ASSUME NEW T \in SUBSET Reqs
  PROVE  IsFiniteSet(T) /\ Cardinality(T) \in Nat
<1>1. IsFiniteSet(Reqs)
  BY RequestsAssumption, FS_Union DEF Reqs
<1> QED
  BY <1>1, FS_Subset, FS_CardinalityType

LEMMA CardAdd ==
  ASSUME NEW T \in SUBSET Reqs, NEW r \in Reqs, r \notin T
  PROVE  Cardinality(T \cup {r}) = Cardinality(T) + 1
  BY CardType, FS_AddElement

LEMMA CardRemove ==
  ASSUME NEW T \in SUBSET Reqs, NEW r \in T
  PROVE  Cardinality(T) >= 1 /\ Cardinality(T \ {r}) = Cardinality(T) - 1
<1>1. Cardinality(T \ {r}) = Cardinality(T) - 1
  BY CardType, FS_RemoveElement
<1> QED
  BY <1>1, CardType

LEMMA CardSubset ==
  ASSUME NEW T \in SUBSET Reqs, NEW U \in SUBSET T
  PROVE  Cardinality(U) <= Cardinality(T)
  BY CardType, FS_Subset

-----------------------------------------------------------------------------
(* rpc_tx_sem and rpc_tx_q. *)

LEMMA TxAccountingInit == Init => TxAccounting
<1> SUFFICES ASSUME Init PROVE TxAccounting
  OBVIOUS
<1>1. Posting = {}
  BY DEF Init, Posting
<1>2. Len(txq) = 0 /\ txsem = 0 /\ txpc = "idle"
  BY DEF Init
<1> QED
  BY <1>1, <1>2, FS_EmptySet DEF TxAccounting, TxTaken

\* A step that touches neither the queue, the semaphore nor who is posting.
LEMMA TxAccountingFrame ==
  ASSUME TxAccounting, Posting' = Posting, UNCHANGED <<txq, txsem>>,
         (txpc = "dequeue") <=> (txpc' = "dequeue")
  PROVE  TxAccounting'
  BY DEF TxAccounting, TxTaken

LEMMA TxAccountingStep ==
  ASSUME TypeOK, TxAccounting, [Next]_vars
  PROVE  TxAccounting'
<1> USE DEF txThread, callers
<1>0. /\ Posting \in SUBSET Reqs /\ Cardinality(Posting) \in Nat
      /\ pc \in [Reqs -> CallLabels]
      /\ txq \in Seq(Reqs) /\ Len(txq) \in Nat /\ Len(txq) <= TxQSize
      /\ txsem \in Nat
  BY CardType DEF Posting, TypeOK, CallersOK, TxOK
<1>1. ASSUME NEW r \in Reqs, Enqueue(r) PROVE TxAccounting'
  <2>1. r \notin Posting /\ Posting' = Posting \cup {r}
    BY <1>0, <1>1 DEF Enqueue, GoTo, Posting
  <2>2. Len(txq') = Len(txq) + 1 /\ UNCHANGED <<txsem, txpc>>
    BY <1>0, <1>1 DEF Enqueue
  <2> QED
    BY <1>0, <2>1, <2>2, CardAdd DEF TxAccounting, TxTaken
<1>2. ASSUME NEW r \in Reqs, PostTxSem(r) PROVE TxAccounting'
  <2>1. r \in Posting /\ Posting' = Posting \ {r}
    BY <1>0, <1>2 DEF PostTxSem, GoTo, Posting
  <2>2. Cardinality(Posting) >= 1 /\ Cardinality(Posting') = Cardinality(Posting) - 1
    BY <1>0, <2>1, CardRemove
  <2>3. txsem < TxSemMax
    BY <1>0, <2>2, TxSemAssumption, SizesAssumption DEF TxAccounting, TxTaken
  <2>4. txsem' = txsem + 1 /\ UNCHANGED <<txq, txpc>>
    BY <1>2, <2>3 DEF PostTxSem, GiveSem
  <2> QED
    BY <1>0, <2>2, <2>4 DEF TxAccounting, TxTaken
<1>3. ASSUME NEW r \in Reqs, LoadUid(r) \/ CallStep(r), ~Enqueue(r), ~PostTxSem(r)
      PROVE  TxAccounting'
  <2>1. Posting' = Posting
    BY <1>0, <1>3 DEF CallStep, LoadUid, StoreUid, FindSlot, RefuseCall, FillUid, FillSem,
       FindMySlot, LoseSlot, TakeSem, Expire, DestroySem, ClearUid, ClearSem, FetchResponse,
       GoTo, Posting
  <2>2. UNCHANGED <<txq, txsem, txpc>>
    BY <1>3 DEF CallStep, LoadUid, StoreUid, FindSlot, RefuseCall, FillUid, FillSem,
       FindMySlot, LoseSlot, TakeSem, Expire, DestroySem, ClearUid, ClearSem, FetchResponse
  <2> QED
    BY <2>1, <2>2, TxAccountingFrame
<1>4. CASE TxTake
  BY <1>0, <1>4 DEF TxTake, Posting, TxAccounting, TxTaken
<1>5. CASE TxDequeue
  <2>1. Len(txq') = Len(txq) - 1 /\ txpc = "dequeue" /\ txpc' = "compose"
    BY <1>0, <1>5 DEF TxDequeue
  <2>2. Posting' = Posting /\ txsem' = txsem
    BY <1>5 DEF TxDequeue, Posting
  <2> QED
    BY <1>0, <2>1, <2>2 DEF TxAccounting, TxTaken
<1>6. ASSUME TxStep, ~TxTake, ~TxDequeue PROVE TxAccounting'
  <2>1. UNCHANGED <<pc, txq, txsem>> /\ txpc # "dequeue" /\ txpc' # "dequeue"
    BY <1>6 DEF TxStep, TxCompose, TxComposeFails, TxTimerFails, TxRegister, TxSetCb, TxRefuse,
       TxSend, TxSendFails, TxPutFailure, TxNotify, TxStarve, TxCleanup,
       TellFailure
  <2> QED
    BY <2>1, TxAccountingFrame DEF Posting
<1>7. ASSUME RpcStart \/ SlaveDrops \/ RxStep \/ UNCHANGED vars
             \/ \E r \in Reqs : TimerFires(r)
      PROVE  TxAccounting'
  <2>1. UNCHANGED <<pc, txq, txsem, txpc>>
    BY <1>7 DEF RpcStart, SlaveDrops, RxStep, RxTake, RxCallback, RxStopTimer, RxClearUid,
       RxClearCb, RxPut,
       RxFind, RxPost, TimerFires, vars
  <2> QED
    BY <2>1, TxAccountingFrame DEF Posting
<1> QED
  BY <1>1, <1>2, <1>3, <1>4, <1>5, <1>6, <1>7 DEF Next

(***************************************************************************)
(* No wakeup of rpc_tx is lost and none is spurious, for any number of     *)
(* tasks, as long as rpc_tx_q is no longer than rpc_tx_sem can count.      *)
(***************************************************************************)
THEOREM TxAccountingHolds == Spec => []TxAccounting
<1>1. Init => TxAccounting
  BY TxAccountingInit
<1>2. TypeOK /\ TxAccounting /\ [Next]_vars => TxAccounting'
  BY TxAccountingStep
<1> QED
  BY <1>1, <1>2, TypeCorrect, PTL DEF Spec

-----------------------------------------------------------------------------
(* rpc_rx_q and the semaphores of the callers. *)

\* The part of the state WokenFindsElement speaks of, as numbers.
LEMMA WokenType ==
  ASSUME TypeOK
  PROVE  /\ Woken \in SUBSET Reqs /\ Cardinality(Woken) \in Nat
         /\ FullSems \in SUBSET Reqs /\ Cardinality(FullSems) \in Nat
         /\ RxUnposted \in {0, 1} /\ TxUnposted \in {0, 1}
         /\ rxq \in Seq(Elem) /\ Len(rxq) \in Nat
         /\ pc \in [Reqs -> CallLabels] /\ sem \in [Reqs -> SemStates]
         /\ waitOn \in [Reqs -> SyncReqs \cup {NoReq}]
  BY CardType DEF Woken, FullSems, RxUnposted, TxUnposted, TypeOK, CallersOK, RxOK

LEMMA WokenInit == Init => WokenFindsElement
<1> SUFFICES ASSUME Init PROVE WokenFindsElement
  OBVIOUS
<1>1. Woken = {} /\ FullSems = {}
  BY DEF Init, Woken, FullSems
<1>2. Len(rxq) = 0 /\ RxUnposted = 0 /\ TxUnposted = 0
  BY DEF Init, RxUnposted, TxUnposted
<1> QED
  BY <1>1, <1>2, FS_EmptySet DEF WokenFindsElement

\* A step that wakes nobody, posts nothing and leaves rpc_rx_q alone.
LEMMA WokenFrame ==
  ASSUME TypeOK, TypeOK', WokenFindsElement,
         Woken' \in SUBSET Woken, FullSems' \in SUBSET FullSems,
         RxUnposted' <= RxUnposted, TxUnposted' <= TxUnposted, rxq' = rxq
  PROVE  WokenFindsElement'
<1>1. Cardinality(Woken') <= Cardinality(Woken)
  BY WokenType, CardSubset
<1>2. Cardinality(FullSems') <= Cardinality(FullSems)
  BY WokenType, CardSubset
<1>3. /\ Cardinality(Woken') \in Nat /\ Cardinality(FullSems') \in Nat
      /\ RxUnposted' \in Nat /\ TxUnposted' \in Nat
  <2>1. Woken' \in SUBSET Reqs /\ FullSems' \in SUBSET Reqs
    BY WokenType
  <2> QED
    BY <2>1, CardType DEF RxUnposted, TxUnposted
<1> QED
  BY <1>1, <1>2, <1>3, WokenType DEF WokenFindsElement

\* A post fills at most one semaphore.
LEMMA PostFillsOne ==
  ASSUME TypeOK, NEW q \in Reqs \cup {NoReq}, PostSem(q)
  PROVE  /\ FullSems' \in SUBSET Reqs
         /\ Cardinality(FullSems') \in Nat
         /\ Cardinality(FullSems') <= Cardinality(FullSems) + 1
<1>1. CASE q # NoReq /\ sem[q] = "empty"
  <2>1. q \in Reqs /\ q \notin FullSems /\ FullSems' = FullSems \cup {q}
    BY <1>1, WokenType DEF PostSem, FullSems
  <2> QED
    BY <2>1, WokenType, CardAdd
<1>2. CASE ~(q # NoReq /\ sem[q] = "empty")
  <2>1. FullSems' = FullSems
    BY <1>2 DEF PostSem, FullSems
  <2> QED
    BY <2>1, WokenType
<1> QED
  BY <1>1, <1>2

LEMMA WokenCallStep ==
  ASSUME TypeOK, TypeOK', WokenFindsElement,
         NEW r \in Reqs, LoadUid(r) \/ CallStep(r)
  PROVE  WokenFindsElement'
<1> USE DEF GoTo, txThread, rxThread
<1>1. CASE TakeSem(r)
  <2> DEFINE q == waitOn[r]
  <2>1. q \in Reqs /\ q \in FullSems /\ FullSems' = FullSems \ {q}
    BY <1>1, WokenType DEF TakeSem, FullSems, TypeOK, CallersOK, Reqs
  <2>2. r \notin Woken /\ Woken' = Woken \cup {r}
    BY <1>1, WokenType DEF TakeSem, Woken
  <2>3. UNCHANGED <<rxq, RxUnposted, TxUnposted>>
    BY <1>1 DEF TakeSem, RxUnposted, TxUnposted
  <2>4. Cardinality(FullSems') = Cardinality(FullSems) - 1
    BY <2>1, WokenType, CardRemove
  <2>5. Cardinality(Woken') = Cardinality(Woken) + 1
    BY <2>2, WokenType, CardAdd
  <2> QED
    BY <2>3, <2>4, <2>5, WokenType DEF WokenFindsElement
<1>2. CASE FetchResponse(r)
  <2>1. r \in Woken /\ Woken' = Woken \ {r}
    BY <1>2, WokenType DEF FetchResponse, Woken
  <2>2. Len(rxq') = Len(rxq) - 1
    BY <1>2, WokenType DEF FetchResponse
  <2>3. UNCHANGED <<FullSems, RxUnposted, TxUnposted>>
    BY <1>2 DEF FetchResponse, FullSems, RxUnposted, TxUnposted
  <2>4. Cardinality(Woken') = Cardinality(Woken) - 1
    BY <2>1, WokenType, CardRemove
  <2> QED
    BY <2>2, <2>3, <2>4, WokenType DEF WokenFindsElement
<1>3. ASSUME ~TakeSem(r), ~FetchResponse(r) PROVE WokenFindsElement'
  <2>1. Woken' \in SUBSET Woken
    BY <1>3, WokenType DEF CallStep, LoadUid, StoreUid, FindSlot, RefuseCall, FillUid, FillSem,
       Enqueue, PostTxSem, FindMySlot, LoseSlot, Expire, DestroySem, ClearUid, ClearSem, Woken
  <2>2. FullSems' \in SUBSET FullSems
    BY <1>3, WokenType DEF CallStep, LoadUid, StoreUid, FreshSem, FindSlot, RefuseCall, FillUid,
       FillSem,
       Enqueue, PostTxSem, FindMySlot, LoseSlot, Expire, DestroySem, ClearUid, ClearSem, FullSems
  <2>3. UNCHANGED <<rxq, rxpc, txpc>>
    BY <1>3 DEF CallStep, LoadUid, StoreUid, FindSlot, RefuseCall, FillUid, FillSem,
       Enqueue, PostTxSem, FindMySlot, LoseSlot, Expire, DestroySem, ClearUid, ClearSem
  <2>4. RxUnposted' <= RxUnposted /\ TxUnposted' <= TxUnposted
    BY <2>3, WokenType DEF RxUnposted, TxUnposted
  <2> QED
    BY <2>1, <2>2, <2>3, <2>4, WokenFrame
<1> QED
  BY <1>1, <1>2, <1>3

LEMMA WokenThreadStep ==
  ASSUME TypeOK, TypeOK', WokenFindsElement, TxStep \/ RxStep
  PROVE  WokenFindsElement'
<1> USE DEF callers, txThread, rxThread
<1>1. Woken' = Woken
  BY DEF TxStep, TxTake, TxDequeue, TxCompose, TxComposeFails, TxTimerFails, TxRegister, TxSetCb,
     TxRefuse, TxSend, TxSendFails, TxPutFailure, TxNotify, TxStarve, TxCleanup, RxStep, RxTake,
     RxCallback,
     RxStopTimer, RxClearUid, RxClearCb, RxPut, RxFind, RxPost, Woken
<1>2. CASE TxPutFailure
  <2>1. Len(rxq') = Len(rxq) + 1
    BY <1>2, WokenType DEF TxPutFailure
  <2>2. TxUnposted = 0 /\ TxUnposted' = 1 /\ UNCHANGED <<FullSems, RxUnposted>>
    BY <1>2 DEF TxPutFailure, TxUnposted, RxUnposted, FullSems
  <2> QED
    BY <1>1, <2>1, <2>2, WokenType DEF WokenFindsElement
<1>3. CASE RxPut
  <2>1. Len(rxq') = Len(rxq) + 1
    BY <1>3, WokenType DEF RxPut
  <2>2. RxUnposted = 0 /\ RxUnposted' = 1 /\ UNCHANGED <<FullSems, TxUnposted>>
    BY <1>3 DEF RxPut, TxUnposted, RxUnposted, FullSems
  <2> QED
    BY <1>1, <2>1, <2>2, WokenType DEF WokenFindsElement
<1>4. CASE TxNotify
  <2>1. PICK q \in Reqs \cup {NoReq} : PostSem(q)
    BY <1>4 DEF TxNotify, PostSem, TypeOK, TablesOK, Reqs
  <2>2. TxUnposted = 1 /\ TxUnposted' = 0 /\ UNCHANGED <<rxq, RxUnposted>>
    BY <1>4 DEF TxNotify, TxUnposted, RxUnposted
  <2> QED
    BY <1>1, <2>1, <2>2, PostFillsOne, WokenType DEF WokenFindsElement
<1>5. CASE RxPost
  <2>1. PostSem(rxsem) /\ rxsem \in Reqs \cup {NoReq}
    BY <1>5 DEF RxPost, TypeOK, RxOK, Reqs
  <2>2. RxUnposted = 1 /\ RxUnposted' = 0 /\ UNCHANGED <<rxq, TxUnposted>>
    BY <1>5 DEF RxPost, TxUnposted, RxUnposted
  <2> QED
    BY <1>1, <2>1, <2>2, PostFillsOne, WokenType DEF WokenFindsElement
<1>6. ASSUME ~TxPutFailure, ~TxNotify, ~RxPut, ~RxPost PROVE WokenFindsElement'
  <2>1. UNCHANGED <<sem, rxq>>
    BY <1>6 DEF TxStep, TxTake, TxDequeue, TxCompose, TxComposeFails, TxTimerFails,
       TxRegister, TxSetCb, TxRefuse, TxSend, TxSendFails, TxStarve, TxCleanup, RxStep, RxTake,
       RxCallback, RxStopTimer, RxClearUid, RxClearCb,
       RxFind
  <2>2. RxUnposted' <= RxUnposted /\ TxUnposted' <= TxUnposted
    BY <1>6, WokenType DEF TxStep, TxTake, TxDequeue, TxCompose, TxComposeFails,
       TxTimerFails, TxRegister, TxSetCb, TxRefuse, TxSend, TxSendFails, TxStarve, TxCleanup,
       TellFailure, RxStep,
       RxTake, RxCallback, RxStopTimer, RxClearUid, RxClearCb, RxFind, RxUnposted, TxUnposted
  <2> QED
    BY <1>1, <2>1, <2>2, WokenFrame DEF FullSems
<1> QED
  BY <1>2, <1>3, <1>4, <1>5, <1>6

(***************************************************************************)
(* A caller that takes its semaphore never blocks on an empty rpc_rx_q,    *)
(* whatever times out, fails or races.                                     *)
(***************************************************************************)
THEOREM WokenFindsElementHolds == Spec => []WokenFindsElement
<1>1. Init => WokenFindsElement
  BY WokenInit
<1>2. TypeOK /\ TypeOK' /\ WokenFindsElement /\ [Next]_vars => WokenFindsElement'
  <2> SUFFICES ASSUME TypeOK, TypeOK', WokenFindsElement, [Next]_vars
               PROVE  WokenFindsElement'
    OBVIOUS
  <2>1. CASE \E r \in Reqs : LoadUid(r) \/ CallStep(r)
    BY <2>1, WokenCallStep
  <2>2. CASE TxStep \/ RxStep
    BY <2>2, WokenThreadStep
  <2>3. ASSUME RpcStart \/ SlaveDrops \/ UNCHANGED vars
               \/ \E r \in Reqs : TimerFires(r)
        PROVE  WokenFindsElement'
    <3>1. UNCHANGED <<pc, sem, rxq, rxpc, txpc>>
      BY <2>3 DEF RpcStart, SlaveDrops, TimerFires, vars, callers, txThread, rxThread
    <3> QED
      BY <3>1 DEF WokenFindsElement, Woken, FullSems, RxUnposted, TxUnposted
  <2> QED
    BY <2>1, <2>2, <2>3 DEF Next
<1> QED
  BY <1>1, <1>2, TypeCorrect, PTL DEF Spec

-----------------------------------------------------------------------------
(* A request and its response are in one place at a time. *)

\* Where a request, or the response to it, can be.
Building(q) == pc[q] \in {"idle", "loaded", "scan", "fill", "fillsem", "enqueue"}
Queued(q) == \E i \in DOMAIN txq : txq[i] = q
Composing(q) == txpc \in {"compose", "register", "setcb", "send", "fail"} /\ txreq = q
Carried(q, s) == \E i \in DOMAIN s : s[i].req = q
Received(q) == rxpc \in {"callback", "put"} /\ rxmsg.req = q
Returned(q) == \E r \in SyncReqs : result[r].req = q

\* It is in no two of these places ...
Exclusive(q) ==
    /\ Building(q) => ~(Queued(q) \/ Composing(q) \/ Carried(q, wire) \/ Received(q)
                          \/ Carried(q, rxq) \/ Returned(q))
    /\ Queued(q) => ~(Composing(q) \/ Carried(q, wire) \/ Received(q)
                        \/ Carried(q, rxq) \/ Returned(q))
    /\ Composing(q) => ~(Carried(q, wire) \/ Received(q) \/ Carried(q, rxq) \/ Returned(q))
    /\ Carried(q, wire) => ~(Received(q) \/ Carried(q, rxq) \/ Returned(q))
    /\ Received(q) => ~(Carried(q, rxq) \/ Returned(q))
    /\ Carried(q, rxq) => ~Returned(q)

\* ... and in none of them twice.
QueuedOnce(q) == \A i, j \in DOMAIN txq : txq[i] = q /\ txq[j] = q => i = j
CarriedOnce(q, s) == \A i, j \in DOMAIN s : s[i].req = q /\ s[j].req = q => i = j
ReturnedOnce(q) ==
    \A r, s \in SyncReqs : result[r].req = q /\ result[s].req = q => r = s

OnePlace(q) ==
    /\ Exclusive(q)
    /\ QueuedOnce(q) /\ CarriedOnce(q, wire) /\ CarriedOnce(q, rxq) /\ ReturnedOnce(q)
Places == \A q \in Reqs : OnePlace(q)

LEMMA PlacesInit == Init => Places
<1> SUFFICES ASSUME Init, NEW q \in Reqs PROVE OnePlace(q)
  BY DEF Places
<1>1. /\ txq = << >> /\ wire = << >> /\ rxq = << >> /\ rxpc = "idle" /\ txpc = "idle"
      /\ \A r \in Reqs : result[r].req = NoReq
  BY DEF Init, NoElem
<1>2. ~Queued(q) /\ ~Carried(q, wire) /\ ~Carried(q, rxq)
  BY <1>1 DEF Queued, Carried
<1>3. ~Composing(q) /\ ~Received(q)
  BY <1>1 DEF Composing, Received
<1>4. ~Returned(q)
  BY <1>1, RequestsAssumption DEF Returned, Reqs
<1>5. QueuedOnce(q) /\ CarriedOnce(q, wire) /\ CarriedOnce(q, rxq)
  BY <1>1 DEF QueuedOnce, CarriedOnce
<1>6. ReturnedOnce(q)
  BY <1>4 DEF Returned, ReturnedOnce
<1> QED
  BY <1>2, <1>3, <1>4, <1>5, <1>6 DEF OnePlace, Exclusive

\* What putting at the end of a queue, and taking its head, does to who is in it.
LEMMA CarriedAppend ==
  ASSUME NEW S, NEW s \in Seq(S), NEW e \in S, NEW q
  PROVE  /\ Carried(q, Append(s, e)) <=> (Carried(q, s) \/ e.req = q)
         /\ CarriedOnce(q, s) /\ ~(Carried(q, s) /\ e.req = q)
              => CarriedOnce(q, Append(s, e))
  BY DEF Carried, CarriedOnce

LEMMA CarriedTail ==
  ASSUME NEW S, NEW s \in Seq(S), s # << >>, NEW q
  PROVE  /\ Head(s) \in S
         /\ Carried(q, s) <=> (Head(s).req = q \/ Carried(q, Tail(s)))
         /\ CarriedOnce(q, s) => CarriedOnce(q, Tail(s))
         /\ CarriedOnce(q, s) => ~(Head(s).req = q /\ Carried(q, Tail(s)))
<1> DEFINE t == Tail(s)
<1>1. /\ Head(s) = s[1] /\ Head(s) \in S /\ t \in Seq(S)
      /\ Len(t) = Len(s) - 1 /\ Len(s) \in Nat /\ Len(s) >= 1
      /\ DOMAIN s = 1..Len(s) /\ DOMAIN t = 1..Len(t)
      /\ \A i \in 1..Len(t) : t[i] = s[i + 1]
  OBVIOUS
<1> HIDE DEF t
<1>2. \A i \in DOMAIN s : i = 1 \/ (i - 1 \in DOMAIN t /\ t[i - 1] = s[i])
  BY <1>1
<1>3. \A i \in DOMAIN t : i + 1 \in DOMAIN s /\ i + 1 # 1 /\ t[i] = s[i + 1]
  BY <1>1
<1>4. 1 \in DOMAIN s
  BY <1>1
<1>5. Carried(q, s) <=> (Head(s).req = q \/ Carried(q, t))
  <2>1. Carried(q, s) => (Head(s).req = q \/ Carried(q, t))
    <3> SUFFICES ASSUME NEW i \in DOMAIN s, s[i].req = q, s[1].req # q PROVE Carried(q, t)
      BY <1>1 DEF Carried
    <3>1. i - 1 \in DOMAIN t /\ t[i - 1].req = q
      BY <1>2
    <3> QED
      BY <3>1, Zenon DEF Carried
  <2>2. Head(s).req = q => Carried(q, s)
    BY <1>1, <1>4, Zenon DEF Carried
  <2>3. Carried(q, t) => Carried(q, s)
    <3> SUFFICES ASSUME NEW i \in DOMAIN t, t[i].req = q PROVE Carried(q, s)
      BY DEF Carried
    <3>1. i + 1 \in DOMAIN s /\ s[i + 1].req = q
      BY <1>3
    <3> QED
      BY <3>1, Zenon DEF Carried
  <2> QED
    BY <2>1, <2>2, <2>3
<1>6. CarriedOnce(q, s) => CarriedOnce(q, t)
  <2> SUFFICES ASSUME CarriedOnce(q, s), NEW i \in DOMAIN t, NEW j \in DOMAIN t,
                      t[i].req = q, t[j].req = q
               PROVE  i = j
    BY DEF CarriedOnce
  <2>1. i + 1 = j + 1
    BY <1>3 DEF CarriedOnce
  <2> QED
    BY <1>1, <2>1
<1>7. CarriedOnce(q, s) => ~(Head(s).req = q /\ Carried(q, t))
  BY <1>1, <1>3, <1>4 DEF CarriedOnce, Carried
<1> QED
  BY <1>1, <1>5, <1>6, <1>7 DEF t

LEMMA QueuedAppend ==
  ASSUME NEW q, NEW r \in Reqs, txq \in Seq(Reqs), txq' = Append(txq, r)
  PROVE  /\ Queued(q)' <=> (Queued(q) \/ r = q)
         /\ QueuedOnce(q) /\ ~(Queued(q) /\ r = q) => QueuedOnce(q)'
  BY DEF Queued, QueuedOnce

LEMMA QueuedTail ==
  ASSUME NEW q, txq \in Seq(Reqs), txq # << >>, txq' = Tail(txq)
  PROVE  /\ Queued(q) <=> (Head(txq) = q \/ Queued(q)')
         /\ QueuedOnce(q) => QueuedOnce(q)'
         /\ QueuedOnce(q) => ~(Head(txq) = q /\ Queued(q)')
<1>1. /\ Head(txq) = txq[1] /\ Len(txq') = Len(txq) - 1 /\ Len(txq) \in Nat /\ Len(txq) >= 1
      /\ DOMAIN txq = 1..Len(txq) /\ DOMAIN txq' = 1..Len(txq')
      /\ \A i \in 1..Len(txq') : txq'[i] = txq[i + 1]
  OBVIOUS
<1>2. \A i \in DOMAIN txq : i = 1 \/ (i - 1 \in DOMAIN txq' /\ txq'[i - 1] = txq[i])
  BY <1>1
<1>3. \A i \in DOMAIN txq' : i + 1 \in DOMAIN txq /\ i + 1 # 1 /\ txq'[i] = txq[i + 1]
  BY <1>1
<1>4. 1 \in DOMAIN txq
  BY <1>1
<1>5. Queued(q) <=> (Head(txq) = q \/ Queued(q)')
  BY <1>1, <1>2, <1>3, <1>4 DEF Queued
<1>6. QueuedOnce(q) => QueuedOnce(q)'
  <2> SUFFICES ASSUME QueuedOnce(q), NEW i \in DOMAIN txq', NEW j \in DOMAIN txq',
                      txq'[i] = q, txq'[j] = q
               PROVE  i = j
    BY DEF QueuedOnce
  <2>1. i + 1 = j + 1
    BY <1>3 DEF QueuedOnce
  <2> QED
    BY <1>1, <2>1
<1>7. QueuedOnce(q) => ~(Head(txq) = q /\ Queued(q)')
  BY <1>1, <1>3, <1>4 DEF QueuedOnce, Queued
<1> QED
  BY <1>5, <1>6, <1>7

\* A step that moves nothing: requests under construction may be given up.
LEMMA OnePlaceFrame ==
  ASSUME NEW q \in Reqs, OnePlace(q), Building(q)' => Building(q),
         Composing(q)' => Composing(q), Received(q)' => Received(q),
         UNCHANGED <<txq, wire, rxq, result>>
  PROVE  OnePlace(q)'
<1>1. /\ Queued(q)' <=> Queued(q)
      /\ Carried(q, wire)' <=> Carried(q, wire)
      /\ Carried(q, rxq)' <=> Carried(q, rxq)
      /\ Returned(q)' <=> Returned(q)
  BY DEF Queued, Carried, Returned
<1>2. /\ QueuedOnce(q)' <=> QueuedOnce(q)
      /\ CarriedOnce(q, wire)' <=> CarriedOnce(q, wire)
      /\ CarriedOnce(q, rxq)' <=> CarriedOnce(q, rxq)
      /\ ReturnedOnce(q)' <=> ReturnedOnce(q)
  BY DEF QueuedOnce, CarriedOnce, ReturnedOnce
<1> QED
  BY <1>1, <1>2, Zenon DEF OnePlace, Exclusive

LEMMA QueueTypes ==
  ASSUME TypeOK
  PROVE  /\ pc \in [Reqs -> CallLabels]
         /\ txq \in Seq(Reqs)
         /\ wire \in Seq(WireMsg) /\ rxq \in Seq(Elem)
         /\ rxmsg \in Elem /\ result \in [Reqs -> Elem]
         /\ txpc \notin {"idle", "dequeue"} => txreq \in Reqs
  BY DEF TypeOK, CallersOK, TxOK, RxOK

LEMMA PlacesCallStep ==
  ASSUME TypeOK, NEW q \in Reqs, OnePlace(q),
         NEW r \in Reqs, LoadUid(r) \/ CallStep(r)
  PROVE  OnePlace(q)'
<1> USE DEF GoTo, txThread, rxThread
<1>0. UNCHANGED <<txpc, txreq, rxpc, rxmsg, wire>>
  BY DEF CallStep, LoadUid, StoreUid, FindSlot, RefuseCall, FillUid, FillSem, Enqueue, PostTxSem,
     FindMySlot, LoseSlot, TakeSem, Expire, DestroySem, ClearUid, ClearSem, FetchResponse
<1>a. /\ Composing(q)' <=> Composing(q)
      /\ Received(q)' <=> Received(q)
      /\ Carried(q, wire)' <=> Carried(q, wire)
      /\ CarriedOnce(q, wire)' <=> CarriedOnce(q, wire)
  BY <1>0 DEF Composing, Received, Carried, CarriedOnce
<1>b. Building(q)' => Building(q)
  BY QueueTypes DEF Building, CallStep, LoadUid, StoreUid, FindSlot, RefuseCall, FillUid, FillSem,
     Enqueue, PostTxSem, FindMySlot, LoseSlot, TakeSem, Expire, DestroySem, ClearUid, ClearSem,
     FetchResponse
<1>1. CASE Enqueue(r)
  <2>1. r = q => Building(q) /\ ~Building(q)'
    BY <1>1, QueueTypes DEF Enqueue, Building
  <2>2. txq' = Append(txq, r) /\ txq \in Seq(Reqs)
    BY <1>1, QueueTypes DEF Enqueue
  <2>3. /\ Queued(q)' <=> (Queued(q) \/ r = q)
        /\ QueuedOnce(q) /\ ~(Queued(q) /\ r = q) => QueuedOnce(q)'
    BY <2>2, QueuedAppend
  <2>4. UNCHANGED <<rxq, result>>
    BY <1>1 DEF Enqueue, callers
  <2>5. /\ Carried(q, rxq)' <=> Carried(q, rxq)
        /\ CarriedOnce(q, rxq)' <=> CarriedOnce(q, rxq)
        /\ Returned(q)' <=> Returned(q)
        /\ ReturnedOnce(q)' <=> ReturnedOnce(q)
    BY <2>4 DEF Carried, CarriedOnce, Returned, ReturnedOnce
  <2> QED
    BY <1>a, <1>b, <2>1, <2>3, <2>5, Zenon DEF OnePlace, Exclusive
<1>2. CASE FetchResponse(r)
  <2> DEFINE e == Head(rxq)
  <2>1. /\ rxq \in Seq(Elem) /\ rxq # << >> /\ rxq' = Tail(rxq) /\ txq' = txq
        /\ result \in [Reqs -> Elem] /\ result' = [result EXCEPT ![r] = e]
    BY <1>2, QueueTypes DEF FetchResponse
  <2>2. /\ Carried(q, rxq) <=> (e.req = q \/ Carried(q, rxq)')
        /\ CarriedOnce(q, rxq) => CarriedOnce(q, rxq)'
        /\ CarriedOnce(q, rxq) => ~(e.req = q /\ Carried(q, rxq)')
    <3>1. /\ Carried(q, rxq)' <=> Carried(q, Tail(rxq))
          /\ CarriedOnce(q, rxq)' <=> CarriedOnce(q, Tail(rxq))
      BY <2>1 DEF Carried, CarriedOnce
    <3> QED
      BY <2>1, <3>1, CarriedTail
  <2> HIDE DEF e
  <2>3. Returned(q)' => (Returned(q) \/ e.req = q)
    BY <2>1 DEF Returned, Reqs
  <2>4. ReturnedOnce(q) /\ ~(Returned(q) /\ e.req = q) => ReturnedOnce(q)'
    BY <2>1 DEF Returned, ReturnedOnce, Reqs
  <2>5. /\ Queued(q)' <=> Queued(q)
        /\ QueuedOnce(q)' <=> QueuedOnce(q)
    BY <2>1 DEF Queued, QueuedOnce
  <2> QED
    BY <1>a, <1>b, <2>2, <2>3, <2>4, <2>5, Zenon DEF OnePlace, Exclusive
<1>3. ASSUME ~Enqueue(r), ~FetchResponse(r) PROVE OnePlace(q)'
  <2>1. UNCHANGED <<txq, rxq, result>>
    BY <1>3 DEF CallStep, LoadUid, StoreUid, FindSlot, RefuseCall, FillUid, FillSem, PostTxSem,
       FindMySlot, LoseSlot, TakeSem, Expire, DestroySem, ClearUid, ClearSem
  <2> QED
    BY <1>0, <1>a, <1>b, <2>1, OnePlaceFrame
<1> QED
  BY <1>1, <1>2, <1>3

LEMMA PlacesTxStep ==
  ASSUME TypeOK, NEW q \in Reqs, OnePlace(q), TxStep
  PROVE  OnePlace(q)'
<1> USE DEF callers, rxThread
<1>0. UNCHANGED <<pc, result, rxpc, rxmsg>>
  BY DEF TxStep, TxTake, TxDequeue, TxCompose, TxComposeFails, TxTimerFails, TxRegister, TxSetCb,
     TxRefuse, TxSend, TxSendFails, TxPutFailure, TxNotify, TxStarve, TxCleanup
<1>a. /\ Building(q)' <=> Building(q)
      /\ Received(q)' <=> Received(q)
      /\ Returned(q)' <=> Returned(q)
      /\ ReturnedOnce(q)' <=> ReturnedOnce(q)
  BY <1>0 DEF Building, Received, Returned, ReturnedOnce
<1>1. CASE TxDequeue
  <2>1. /\ txq \in Seq(Reqs) /\ txq # << >> /\ txq' = Tail(txq)
        /\ UNCHANGED <<wire, rxq>>
    BY <1>1, QueueTypes DEF TxDequeue
  <2>2. ~Composing(q) /\ (Composing(q)' <=> Head(txq) = q)
    BY <1>1 DEF TxDequeue, Composing
  <2>3. /\ Queued(q) <=> (Head(txq) = q \/ Queued(q)')
        /\ QueuedOnce(q) => QueuedOnce(q)'
        /\ QueuedOnce(q) => ~(Head(txq) = q /\ Queued(q)')
    BY <2>1, QueuedTail
  <2>4. /\ Carried(q, rxq)' <=> Carried(q, rxq)
        /\ CarriedOnce(q, rxq)' <=> CarriedOnce(q, rxq)
        /\ Carried(q, wire)' <=> Carried(q, wire)
        /\ CarriedOnce(q, wire)' <=> CarriedOnce(q, wire)
    BY <2>1 DEF Carried, CarriedOnce
  <2> QED
    BY <1>a, <2>2, <2>3, <2>4, Zenon DEF OnePlace, Exclusive
<1>2. CASE TxSend
  <2> DEFINE m == [uid |-> reqUid[txreq], req |-> txreq, ok |-> TRUE]
  <2>1. /\ wire \in Seq(WireMsg) /\ wire' = Append(wire, m)
        /\ UNCHANGED <<txq, rxq>>
    BY <1>2, QueueTypes DEF TxSend
  <2>2. m \in WireMsg /\ m.req = txreq
    BY <1>2 DEF TxSend, WireMsg, TypeOK, TxOK, CallersOK
  <2>3. (Composing(q) <=> m.req = q) /\ ~Composing(q)'
    BY <1>2, <2>2 DEF TxSend, Composing
  <2> HIDE DEF m
  <2>4. /\ Carried(q, wire)' <=> (Carried(q, wire) \/ m.req = q)
        /\ CarriedOnce(q, wire) /\ ~(Carried(q, wire) /\ m.req = q)
              => CarriedOnce(q, wire)'
    BY <2>1, <2>2, CarriedAppend DEF Carried, CarriedOnce
  <2>5. /\ Carried(q, rxq)' <=> Carried(q, rxq)
        /\ CarriedOnce(q, rxq)' <=> CarriedOnce(q, rxq)
        /\ Queued(q)' <=> Queued(q)
        /\ QueuedOnce(q)' <=> QueuedOnce(q)
    BY <2>1 DEF Carried, CarriedOnce, Queued, QueuedOnce
  <2> QED
    BY <1>a, <2>3, <2>4, <2>5, Zenon DEF OnePlace, Exclusive
<1>3. CASE TxPutFailure
  <2> DEFINE m == [uid |-> 0, req |-> txreq, ok |-> FALSE]
  <2>1. /\ rxq \in Seq(Elem) /\ rxq' = Append(rxq, m)
        /\ UNCHANGED <<txq, wire>>
    BY <1>3, QueueTypes DEF TxPutFailure
  <2>2. m \in Elem /\ m.req = txreq
    BY <1>3, QueueTypes DEF TxPutFailure, Elem
  <2>3. (Composing(q) <=> m.req = q) /\ ~Composing(q)'
    BY <1>3, <2>2 DEF TxPutFailure, Composing
  <2> HIDE DEF m
  <2>4. /\ Carried(q, rxq)' <=> (Carried(q, rxq) \/ m.req = q)
        /\ CarriedOnce(q, rxq) /\ ~(Carried(q, rxq) /\ m.req = q)
              => CarriedOnce(q, rxq)'
    BY <2>1, <2>2, CarriedAppend DEF Carried, CarriedOnce
  <2>5. /\ Carried(q, wire)' <=> Carried(q, wire)
        /\ CarriedOnce(q, wire)' <=> CarriedOnce(q, wire)
        /\ Queued(q)' <=> Queued(q)
        /\ QueuedOnce(q)' <=> QueuedOnce(q)
    BY <2>1 DEF Carried, CarriedOnce, Queued, QueuedOnce
  <2> QED
    BY <1>a, <2>3, <2>4, <2>5, Zenon DEF OnePlace, Exclusive
<1>4. ASSUME ~TxDequeue, ~TxSend, ~TxPutFailure PROVE OnePlace(q)'
  <2>1. UNCHANGED <<txq, wire, rxq>>
    BY <1>4 DEF TxStep, TxTake, TxCompose, TxComposeFails, TxTimerFails, TxRegister, TxSetCb,
       TxRefuse, TxSendFails, TxNotify, TxStarve, TxCleanup
  <2>2. Composing(q)' => Composing(q)
    BY <1>4 DEF TxStep, TxTake, TxCompose, TxComposeFails, TxTimerFails, TxRegister, TxSetCb,
       TxRefuse, TxSendFails, TxNotify, TxStarve, TxCleanup, TellFailure, Composing
  <2> QED
    BY <1>0, <1>a, <2>1, <2>2, OnePlaceFrame
<1> QED
  BY <1>1, <1>2, <1>3, <1>4

LEMMA PlacesRxStep ==
  ASSUME TypeOK, NEW q \in Reqs, OnePlace(q), RxStep \/ SlaveDrops
  PROVE  OnePlace(q)'
<1> USE DEF callers, txThread, rxThread
<1>0. UNCHANGED <<pc, result, txq, txpc, txreq>>
  BY DEF RxStep, RxTake, RxCallback, RxStopTimer, RxClearUid, RxClearCb, RxPut, RxFind, RxPost,
     SlaveDrops
<1>a. /\ Building(q)' <=> Building(q)
      /\ Queued(q)' <=> Queued(q)
      /\ QueuedOnce(q)' <=> QueuedOnce(q)
      /\ Composing(q)' <=> Composing(q)
      /\ Returned(q)' <=> Returned(q)
      /\ ReturnedOnce(q)' <=> ReturnedOnce(q)
  BY <1>0 DEF Building, Queued, QueuedOnce, Composing, Returned, ReturnedOnce
<1>1. CASE RxTake \/ SlaveDrops
  <2>1. wire \in Seq(WireMsg) /\ wire # << >> /\ wire' = Tail(wire) /\ rxq' = rxq
    BY <1>1, QueueTypes DEF RxTake, SlaveDrops
  <2>2. /\ Carried(q, wire) <=> (Head(wire).req = q \/ Carried(q, wire)')
        /\ CarriedOnce(q, wire) => CarriedOnce(q, wire)'
        /\ CarriedOnce(q, wire) => ~(Head(wire).req = q /\ Carried(q, wire)')
    <3>1. /\ Carried(q, wire)' <=> Carried(q, Tail(wire))
          /\ CarriedOnce(q, wire)' <=> CarriedOnce(q, Tail(wire))
      BY <2>1 DEF Carried, CarriedOnce
    <3> QED
      BY <2>1, <3>1, CarriedTail
  <2>3. Received(q)' => Received(q) \/ Head(wire).req = q
    BY <1>1 DEF RxTake, SlaveDrops, Received
  <2>4. /\ Carried(q, rxq)' <=> Carried(q, rxq)
        /\ CarriedOnce(q, rxq)' <=> CarriedOnce(q, rxq)
    BY <2>1 DEF Carried, CarriedOnce
  <2> QED
    BY <1>a, <2>2, <2>3, <2>4, Zenon DEF OnePlace, Exclusive
<1>2. CASE RxPut
  <2>1. /\ rxq \in Seq(Elem) /\ rxmsg \in Elem /\ rxq' = Append(rxq, rxmsg)
        /\ wire' = wire
    BY <1>2, QueueTypes DEF RxPut
  <2>2. (Received(q) <=> rxmsg.req = q) /\ ~Received(q)'
    BY <1>2 DEF RxPut, Received
  <2>3. /\ Carried(q, rxq)' <=> (Carried(q, rxq) \/ rxmsg.req = q)
        /\ CarriedOnce(q, rxq) /\ ~(Carried(q, rxq) /\ rxmsg.req = q)
              => CarriedOnce(q, rxq)'
    BY <2>1, CarriedAppend DEF Carried, CarriedOnce
  <2>4. /\ Carried(q, wire)' <=> Carried(q, wire)
        /\ CarriedOnce(q, wire)' <=> CarriedOnce(q, wire)
    BY <2>1 DEF Carried, CarriedOnce
  <2> QED
    BY <1>a, <2>2, <2>3, <2>4, Zenon DEF OnePlace, Exclusive
<1>3. CASE RxCallback \/ RxStopTimer \/ RxClearUid \/ RxClearCb \/ RxFind \/ RxPost
  <2>1. UNCHANGED <<wire, rxq>>
    BY <1>3 DEF RxCallback, RxStopTimer, RxClearUid, RxClearCb, RxFind, RxPost
  <2>2. Received(q)' => Received(q)
    BY <1>3 DEF RxCallback, RxStopTimer, RxClearUid, RxClearCb, RxFind, RxPost, Received
  <2> QED
    BY <1>0, <1>a, <2>1, <2>2, OnePlaceFrame
<1> QED
  BY <1>1, <1>2, <1>3 DEF RxStep

(***************************************************************************)
(* From rpc_send_req to the caller that frees the response, a request or   *)
(* its response is with the caller, in rpc_tx_q, with rpc_tx, on its way,  *)
(* with rpc_rx, in rpc_rx_q or returned, and never in two of these places  *)
(* or twice in one, for any number of tasks and whatever times out, fails  *)
(* or is dropped.                                                          *)
(***************************************************************************)
THEOREM PlacesHold == Spec => []Places
<1>1. Init => Places
  BY PlacesInit
<1>2. TypeOK /\ Places /\ [Next]_vars => Places'
  <2> SUFFICES ASSUME TypeOK, Places, [Next]_vars, NEW q \in Reqs PROVE OnePlace(q)'
    BY DEF Places
  <2>0. OnePlace(q)
    BY DEF Places
  <2>1. CASE \E r \in Reqs : LoadUid(r) \/ CallStep(r)
    BY <2>0, <2>1, PlacesCallStep
  <2>2. CASE TxStep
    BY <2>0, <2>2, PlacesTxStep
  <2>3. CASE RxStep \/ SlaveDrops
    BY <2>0, <2>3, PlacesRxStep
  <2>4. CASE RpcStart \/ UNCHANGED vars \/ \E r \in Reqs : TimerFires(r)
    <3>1. UNCHANGED <<pc, txq, txpc, txreq, wire, rxpc, rxmsg, rxq, result>>
      BY <2>4 DEF RpcStart, TimerFires, vars, callers, txThread, rxThread
    <3>2. /\ Building(q)' => Building(q)
          /\ Composing(q)' => Composing(q)
          /\ Received(q)' => Received(q)
      BY <3>1 DEF Building, Composing, Received
    <3> QED
      BY <2>0, <3>1, <3>2, OnePlaceFrame
  <2> QED
    BY <2>1, <2>2, <2>3, <2>4 DEF Next
<1> QED
  BY <1>1, <1>2, TypeCorrect, PTL DEF Spec

LEMMA HoldersUnique ==
  ASSUME NEW q \in Reqs, OnePlace(q), NEW a \in Holders(q), NEW b \in Holders(q)
  PROVE  a = b
<1> DEFINE IsWire(x) == \E i \in DOMAIN wire : wire[i].req = q /\ x = <<"wire", i>>
           IsRxq(x) == \E i \in DOMAIN rxq : rxq[i].req = q /\ x = <<"rxq", i>>
           IsRx(x) == Received(q) /\ x = <<"rx", 0>>
           IsCall(x) == \E r \in SyncReqs : result[r].req = q /\ x = <<"call", r>>
<1>1. \A x \in Holders(q) : IsWire(x) \/ IsRxq(x) \/ IsRx(x) \/ IsCall(x)
  BY DEF Holders, Received
<1>2. \A x : /\ IsWire(x) => Carried(q, wire)
             /\ IsRxq(x) => Carried(q, rxq)
             /\ IsRx(x) => Received(q)
             /\ IsCall(x) => Returned(q)
  BY DEF Carried, Returned
<1>3. IsWire(a) /\ IsWire(b) => a = b
  BY DEF OnePlace, CarriedOnce
<1>4. IsRxq(a) /\ IsRxq(b) => a = b
  BY DEF OnePlace, CarriedOnce
<1>5. IsRx(a) /\ IsRx(b) => a = b
  OBVIOUS
<1>6. IsCall(a) /\ IsCall(b) => a = b
  BY DEF OnePlace, ReturnedOnce
<1> HIDE DEF IsWire, IsRxq, IsRx, IsCall
<1> QED
  BY <1>1, <1>2, <1>3, <1>4, <1>5, <1>6, Zenon DEF OnePlace, Exclusive

(***************************************************************************)
(* No response structure of rpc_core.c has two owners, so none is freed    *)
(* twice, for any number of tasks and whatever times out, fails or is      *)
(* dropped.                                                                *)
(***************************************************************************)
THEOREM OneOwnerHolds == Spec => []OneOwner
<1>1. Places => OneOwner
  <2> SUFFICES ASSUME Places, NEW q \in Reqs PROVE Cardinality(Holders(q)) <= 1
    BY DEF OneOwner
  <2>1. CASE Holders(q) = {}
    BY <2>1, FS_EmptySet
  <2>2. ASSUME NEW a \in Holders(q) PROVE Cardinality(Holders(q)) <= 1
    <3>1. Holders(q) = {a}
      BY <2>2, HoldersUnique DEF Places
    <3> QED
      BY <3>1, FS_Singleton
  <2> QED
    BY <2>1, <2>2
<1> QED
  BY <1>1, PlacesHold, PTL

-----------------------------------------------------------------------------
(* No two calls open at the same time: the entries of sync_rsp_table. *)

\* Labels at which a synchronous call keeps an entry of sync_rsp_table.
SlotLabels == {"fillsem", "enqueue", "post", "lookup", "wait", "woken", "expired", "clear",
               "giveup", "erase", "forget"}

OneCall == \A r, s \in OpenCalls : r = s

\* The entry of a call: its uid goes in first and out first.
EntryOf(r) == [uid |-> IF pc[r] \in {"erase", "forget"} THEN 0 ELSE reqUid[r],
               sem |-> IF pc[r] = "fillsem" THEN NoReq ELSE r]

\* A call finds its own entry where it put it, and there is no other entry.
OwnSlot == \A r \in SyncReqs : pc[r] \in SlotLabels =>
    slot[r] \in SyncSlots /\ syncTab[slot[r]] = EntryOf(r)
OnlyOwnSlots == \A i \in SyncSlots :
    \/ syncTab[i] = EmptySync
    \/ \E r \in SyncReqs : pc[r] \in SlotLabels /\ slot[r] = i

SoloSlots == OneCall /\ OwnSlot /\ OnlyOwnSlots

LEMMA SoloSlotsInit == Init => SoloSlots
  BY DEF Init, SoloSlots, OneCall, OpenCalls, OwnSlot, OnlyOwnSlots, SlotLabels, Reqs

LEMMA SoloType ==
  ASSUME TypeOK
  PROVE  /\ pc \in [Reqs -> CallLabels] /\ reqUid \in [Reqs -> Uids \cup {0}]
         /\ slot \in [Reqs -> SyncSlots \cup {0}]
         /\ syncTab \in [SyncSlots -> [uid : Uids \cup {0}, sem : SyncReqs \cup {NoReq}]]
         /\ \A r \in Reqs : pc[r] \in HoldsSlot => slot[r] \in SyncSlots
         /\ \A r \in Reqs : pc[r] \notin Unnumbered => reqUid[r] \in Uids
         /\ \A r \in Reqs : pc[r] \in SyncOnly => r \in SyncReqs
  BY DEF TypeOK, CallersOK, TablesOK

\* While nobody keeps an entry, the table is empty.
LEMMA NoCallNoSlots ==
  ASSUME OnlyOwnSlots, \A s \in SyncReqs : pc[s] \notin SlotLabels
  PROVE  \A i \in SyncSlots : syncTab[i] = EmptySync
  BY Zenon DEF OnlyOwnSlots

\* A step that leaves the table, and who has an entry, alone.
LEMMA SoloSlotsFrame ==
  ASSUME OwnSlot, OnlyOwnSlots, UNCHANGED <<slot, syncTab, reqUid>>,
         \A s \in SyncReqs : pc'[s] \in SlotLabels <=> pc[s] \in SlotLabels,
         \A s \in SyncReqs : pc[s] \in SlotLabels => EntryOf(s)' = EntryOf(s)
  PROVE  OwnSlot' /\ OnlyOwnSlots'
<1>1. OwnSlot'
  BY Zenon DEF OwnSlot, SlotLabels
<1>2. OnlyOwnSlots'
  BY Zenon DEF OnlyOwnSlots, EmptySync, SlotLabels
<1> QED
  BY <1>1, <1>2

\* Before and after the step nobody keeps an entry.
LEMMA SoloSlotsEmpty ==
  ASSUME OnlyOwnSlots, syncTab' = syncTab,
         \A s \in SyncReqs : pc[s] \notin SlotLabels,
         \A s \in SyncReqs : pc'[s] \notin SlotLabels
  PROVE  OwnSlot' /\ OnlyOwnSlots'
<1>1. \A i \in SyncSlots : syncTab'[i] = EmptySync
  BY NoCallNoSlots
<1>2. OwnSlot'
  BY DEF OwnSlot, SlotLabels
<1>3. OnlyOwnSlots'
  BY <1>1, Zenon DEF OnlyOwnSlots, EmptySync
<1> QED
  BY <1>2, <1>3

LEMMA OneCallStep ==
  ASSUME ~overlapped', TypeOK, OneCall, NEW r \in Reqs, LoadUid(r) \/ CallStep(r)
  PROVE  OneCall' /\ (CallStep(r) => \A s \in Reqs : s # r => pc[s] \in {"idle", "done"})
<1> USE DEF GoTo
<1>0. pc \in [Reqs -> CallLabels]
  BY SoloType
<1>1. CASE LoadUid(r)
  <2>2. OpenCalls = {}
    BY <1>1 DEF LoadUid
  <2>3. \A s \in OpenCalls' : s = r
    BY <1>0, <1>1, <2>2 DEF LoadUid, OpenCalls
  <2>4. OneCall'
    BY <2>3, Zenon DEF OneCall
  <2>5. \A s \in Reqs : pc[s] \in {"idle", "done"}
    BY <2>2 DEF OpenCalls
  <2> QED
    BY <2>4, <2>5
<1>2. CASE CallStep(r)
  <2>1. r \in OpenCalls
    BY <1>2 DEF CallStep, StoreUid, FindSlot, RefuseCall, FillUid, FillSem, Enqueue, PostTxSem,
       FindMySlot, LoseSlot, TakeSem, Expire, DestroySem, ClearUid, ClearSem, FetchResponse,
       OpenCalls
  <2>2. \A s \in Reqs : s # r => pc'[s] = pc[s]
    BY <1>0, <1>2 DEF CallStep, StoreUid, FindSlot, RefuseCall, FillUid, FillSem, Enqueue,
       PostTxSem,
       FindMySlot, LoseSlot, TakeSem, Expire, DestroySem, ClearUid, ClearSem, FetchResponse
  <2>3. OpenCalls' \in SUBSET OpenCalls
    BY <2>1, <2>2 DEF OpenCalls
  <2>4. OneCall'
    BY <2>3, Zenon DEF OneCall
  <2>5. \A s \in Reqs : s # r => pc[s] \in {"idle", "done"}
    BY <2>1 DEF OneCall, OpenCalls
  <2> QED
    BY <2>4, <2>5
<1> QED
  BY <1>1, <1>2

LEMMA SoloSlotsCallStep ==
  ASSUME ~overlapped', TypeOK, SoloSlots, NEW r \in Reqs, LoadUid(r) \/ CallStep(r)
  PROVE  SoloSlots'
<1> USE DEF GoTo
<1>0. OneCall' /\ OwnSlot /\ OnlyOwnSlots
  BY OneCallStep DEF SoloSlots
<1>a. /\ pc \in [Reqs -> CallLabels] /\ slot \in [Reqs -> SyncSlots \cup {0}]
      /\ syncTab \in [SyncSlots -> [uid : Uids \cup {0}, sem : SyncReqs \cup {NoReq}]]
      /\ \A s \in Reqs : pc[s] \in SyncOnly => s \in SyncReqs
      /\ SyncReqs \subseteq Reqs
  BY SoloType DEF Reqs
<1>b. CallStep(r) => \A s \in SyncReqs : s # r => pc[s] \in {"idle", "done"}
  BY <1>a, OneCallStep DEF SoloSlots
<1>c. CallStep(r) => \A s \in SyncReqs : s # r => pc'[s] = pc[s]
  BY <1>a DEF CallStep, StoreUid, FindSlot, RefuseCall, FillUid, FillSem, Enqueue, PostTxSem,
     FindMySlot, LoseSlot, TakeSem, Expire, DestroySem, ClearUid, ClearSem, FetchResponse
<1>1. CASE LoadUid(r)
  <2>1. OpenCalls = {}
    BY <1>1 DEF LoadUid
  <2>2. \A s \in SyncReqs : pc[s] \notin SlotLabels
    BY <1>a, <2>1 DEF OpenCalls, SlotLabels
  <2>3. \A s \in SyncReqs : pc'[s] \notin SlotLabels
    BY <1>a, <1>1, <2>2 DEF LoadUid, SlotLabels
  <2>4. syncTab' = syncTab
    BY <1>1 DEF LoadUid, tables
  <2> QED
    BY <1>0, <2>2, <2>3, <2>4, SoloSlotsEmpty DEF SoloSlots
<1>2. CASE StoreUid(r) \/ FindSlot(r) \/ RefuseCall(r)
  <2>0. CallStep(r)
    BY <1>2 DEF CallStep
  <2>1. \A s \in SyncReqs : pc[s] \notin SlotLabels
    BY <1>2, <1>b, <2>0 DEF StoreUid, FindSlot, RefuseCall, SlotLabels
  <2>2. \A s \in SyncReqs : pc'[s] \notin SlotLabels
    <3>1. r \in SyncReqs => pc'[r] \in {"scan", "fill", "done"}
      BY <1>a, <1>2 DEF StoreUid, FindSlot, RefuseCall
    <3> QED
      BY <1>b, <1>c, <2>0, <3>1 DEF SlotLabels
  <2>3. syncTab' = syncTab
    BY <1>2 DEF StoreUid, FindSlot, RefuseCall, tables
  <2> QED
    BY <1>0, <2>1, <2>2, <2>3, SoloSlotsEmpty DEF SoloSlots
<1>3. CASE FillUid(r)
  <2>0. CallStep(r)
    BY <1>3 DEF CallStep
  <2>1. \A s \in SyncReqs : pc[s] \notin SlotLabels
    BY <1>3, <1>b, <2>0 DEF FillUid, SlotLabels
  <2>2. \A i \in SyncSlots : syncTab[i] = EmptySync
    BY <1>0, <2>1, NoCallNoSlots
  <2>3. r \in SyncReqs /\ slot[r] \in SyncSlots
    BY <1>3, SoloType DEF FillUid
  <2>4. /\ slot' = slot /\ reqUid' = reqUid /\ pc'[r] = "fillsem"
        /\ syncTab'[slot[r]] = [uid |-> reqUid[r], sem |-> NoReq]
        /\ \A i \in SyncSlots : i # slot[r] => syncTab'[i] = EmptySync
    BY <1>a, <1>3, <2>2, <2>3 DEF FillUid, numbering, EmptySync
  <2>5. \A s \in SyncReqs : pc'[s] \in SlotLabels => s = r
    BY <1>b, <1>c, <2>0 DEF SlotLabels
  <2>6. OwnSlot'
    BY <2>3, <2>4, <2>5 DEF OwnSlot, EntryOf
  <2>7. OnlyOwnSlots'
    <3> SUFFICES ASSUME NEW i \in SyncSlots, syncTab'[i] # EmptySync
                 PROVE  pc'[r] \in SlotLabels /\ slot'[r] = i
      BY <2>3 DEF OnlyOwnSlots, EmptySync, SlotLabels
    <3> QED
      BY <2>4 DEF SlotLabels
  <2> QED
    BY <1>0, <2>6, <2>7 DEF SoloSlots
<1>9. CASE FillSem(r)
  <2>0. CallStep(r)
    BY <1>9 DEF CallStep
  <2>1. r \in SyncReqs /\ slot[r] \in SyncSlots /\ pc[r] = "fillsem" /\ pc'[r] = "enqueue"
    BY <1>a, <1>9, SoloType DEF FillSem
  <2>2. syncTab[slot[r]] = [uid |-> reqUid[r], sem |-> NoReq]
    BY <1>0, <2>1 DEF OwnSlot, SlotLabels, EntryOf
  <2>3. /\ slot' = slot /\ reqUid' = reqUid
        /\ syncTab'[slot[r]] = [uid |-> reqUid[r], sem |-> r]
        /\ \A i \in SyncSlots : i # slot[r] => syncTab'[i] = syncTab[i]
    BY <1>a, <1>9, <2>1, <2>2 DEF FillSem, numbering
  <2>4. \A s \in SyncReqs : pc[s] \in SlotLabels <=> s = r
    BY <1>b, <2>0, <2>1 DEF SlotLabels
  <2>5. \A s \in SyncReqs : pc'[s] \in SlotLabels <=> s = r
    BY <1>b, <1>c, <2>0, <2>1 DEF SlotLabels
  <2>6. OwnSlot'
    BY <2>1, <2>3, <2>5 DEF OwnSlot, EntryOf
  <2>7. OnlyOwnSlots'
    <3> SUFFICES ASSUME NEW i \in SyncSlots, syncTab'[i] # EmptySync PROVE slot[r] = i
      BY <2>1, <2>3, <2>5 DEF OnlyOwnSlots, EmptySync, SlotLabels
    <3> QED
      BY <1>0, <2>3, <2>4 DEF OnlyOwnSlots
  <2> QED
    BY <1>0, <2>6, <2>7 DEF SoloSlots
<1>4. CASE Enqueue(r) \/ PostTxSem(r) \/ TakeSem(r) \/ Expire(r) \/ FetchResponse(r)
  <2>0. CallStep(r)
    BY <1>4 DEF CallStep
  <2>1. UNCHANGED <<slot, syncTab, reqUid>>
    BY <1>4 DEF Enqueue, PostTxSem, TakeSem, Expire, FetchResponse, tables, numbering
  <2>2. r \in SyncReqs => (pc'[r] \in SlotLabels <=> pc[r] \in SlotLabels)
    BY <1>a, <1>4 DEF Enqueue, PostTxSem, TakeSem, Expire, FetchResponse, SlotLabels
  <2>3. \A s \in SyncReqs : pc'[s] \in SlotLabels <=> pc[s] \in SlotLabels
    BY <1>c, <2>0, <2>2
  <2>4. \A s \in SyncReqs : pc[s] \in SlotLabels => EntryOf(s)' = EntryOf(s)
    <3>1. \A q \in {pc[r], pc'[r]} : q \notin {"fillsem", "erase", "forget"}
      BY <1>a, <1>4 DEF Enqueue, PostTxSem, TakeSem, Expire, FetchResponse
    <3> QED
      BY <1>c, <2>0, <2>1, <3>1 DEF EntryOf
  <2> QED
    BY <1>0, <2>1, <2>3, <2>4, SoloSlotsFrame DEF SoloSlots
<1>5. CASE FindMySlot(r)
  <2>0. CallStep(r)
    BY <1>5 DEF CallStep
  <2>1. r \in SyncReqs /\ pc[r] \in SlotLabels /\ reqUid[r] \in Uids
    BY <1>5, SoloType DEF FindMySlot, SlotLabels
  <2>2. PICK i \in SyncSlots : syncTab[i].uid = reqUid[r] /\ slot' = [slot EXCEPT ![r] = i]
    BY <1>5 DEF FindMySlot, IsFirst
  <2>3. syncTab[i] # EmptySync
    BY <2>1, <2>2 DEF EmptySync, Uids
  <2>4. PICK s \in SyncReqs : pc[s] \in SlotLabels /\ slot[s] = i
    BY <1>0, <2>3 DEF OnlyOwnSlots
  <2>5. s = r
    BY <1>b, <2>0, <2>4 DEF SlotLabels
  <2>6. slot' = slot
    BY <1>a, <2>2, <2>4, <2>5
  <2>7. UNCHANGED <<syncTab, reqUid>>
    BY <1>5 DEF FindMySlot, tables, numbering
  <2>8. pc'[r] \in SlotLabels
    BY <1>a, <1>5 DEF FindMySlot, SlotLabels
  <2>9. \A t \in SyncReqs : pc'[t] \in SlotLabels <=> pc[t] \in SlotLabels
    BY <1>c, <2>0, <2>1, <2>8
  <2>10. \A t \in SyncReqs : pc[t] \in SlotLabels => EntryOf(t)' = EntryOf(t)
    <3>1. pc[r] = "lookup" /\ pc'[r] = "wait"
      BY <1>a, <1>5 DEF FindMySlot
    <3> QED
      BY <1>c, <2>0, <2>7, <3>1 DEF EntryOf
  <2> QED
    BY <1>0, <2>6, <2>7, <2>9, <2>10, SoloSlotsFrame DEF SoloSlots
<1>6. CASE LoseSlot(r)
  <2>1. r \in SyncReqs /\ pc[r] \in SlotLabels
    BY <1>6, SoloType DEF LoseSlot, SlotLabels
  <2>2. slot[r] \in SyncSlots /\ syncTab[slot[r]] = EntryOf(r)
    BY <1>0, <2>1, Zenon DEF OwnSlot
  <2>3. syncTab[slot[r]].uid = reqUid[r]
    BY <1>6, <2>2 DEF LoseSlot, EntryOf
  <2> QED
    BY <1>a, <1>6, <2>2, <2>3 DEF LoseSlot, Absent
<1>7. CASE DestroySem(r)
  <2>0. CallStep(r)
    BY <1>7 DEF CallStep
  <2>1. r \in SyncReqs /\ pc[r] \in SlotLabels
    BY <1>7, SoloType DEF DestroySem, SlotLabels
  <2>a. syncTab[slot[r]] = EntryOf(r)
    BY <1>0, <2>1, Zenon DEF OwnSlot
  <2>2. syncTab[slot[r]].sem # NoReq
    BY <1>a, <1>7, <2>1, <2>a, RequestsAssumption DEF DestroySem, EntryOf
  <2>b. pc[r] \in {"woken", "expired"} /\ pc'[r] \in {"clear", "giveup"}
    BY <1>a, <1>7, <2>2 DEF DestroySem
  <2>3. pc'[r] \in SlotLabels
    BY <2>b DEF SlotLabels
  <2>4. UNCHANGED <<slot, syncTab, reqUid>>
    BY <1>7 DEF DestroySem, tables, numbering
  <2>5. \A t \in SyncReqs : pc'[t] \in SlotLabels <=> pc[t] \in SlotLabels
    BY <1>c, <2>0, <2>1, <2>3
  <2>6. \A t \in SyncReqs : pc[t] \in SlotLabels => EntryOf(t)' = EntryOf(t)
    BY <1>c, <2>0, <2>4, <2>b DEF EntryOf
  <2> QED
    BY <1>0, <2>4, <2>5, <2>6, SoloSlotsFrame DEF SoloSlots
<1>8. CASE ClearUid(r)
  <2>0. CallStep(r)
    BY <1>8 DEF CallStep
  <2>1. r \in SyncReqs /\ slot[r] \in SyncSlots /\ pc[r] \in {"clear", "giveup"}
        /\ pc'[r] \in {"erase", "forget"}
    BY <1>a, <1>8, SoloType DEF ClearUid
  <2>2. syncTab[slot[r]] = [uid |-> reqUid[r], sem |-> r]
    BY <1>0, <2>1 DEF OwnSlot, SlotLabels, EntryOf
  <2>3. /\ slot' = slot /\ reqUid' = reqUid
        /\ syncTab'[slot[r]] = [uid |-> 0, sem |-> r]
        /\ \A i \in SyncSlots : i # slot[r] => syncTab'[i] = syncTab[i]
    BY <1>a, <1>8, <2>1, <2>2 DEF ClearUid, numbering
  <2>4. \A s \in SyncReqs : pc[s] \in SlotLabels <=> s = r
    BY <1>b, <2>0, <2>1 DEF SlotLabels
  <2>5. \A s \in SyncReqs : pc'[s] \in SlotLabels <=> s = r
    BY <1>b, <1>c, <2>0, <2>1 DEF SlotLabels
  <2>6. OwnSlot'
    BY <2>1, <2>3, <2>5 DEF OwnSlot, EntryOf
  <2>7. OnlyOwnSlots'
    <3> SUFFICES ASSUME NEW i \in SyncSlots, syncTab'[i] # EmptySync PROVE slot[r] = i
      BY <2>1, <2>3, <2>5 DEF OnlyOwnSlots, EmptySync, SlotLabels
    <3> QED
      BY <1>0, <2>3, <2>4 DEF OnlyOwnSlots
  <2> QED
    BY <1>0, <2>6, <2>7 DEF SoloSlots
<1>10. CASE ClearSem(r)
  <2>0. CallStep(r)
    BY <1>10 DEF CallStep
  <2>1. r \in SyncReqs /\ slot[r] \in SyncSlots /\ pc[r] \in {"erase", "forget"}
        /\ pc'[r] \in {"fetch", "done"}
    BY <1>a, <1>10, SoloType DEF ClearSem
  <2>2. syncTab[slot[r]] = [uid |-> 0, sem |-> r]
    BY <1>0, <2>1, RequestsAssumption DEF OwnSlot, SlotLabels, EntryOf
  <2>3. \A s \in SyncReqs : pc[s] \in SlotLabels => s = r
    BY <1>b, <2>0 DEF SlotLabels
  <2>4. \A s \in SyncReqs : pc'[s] \notin SlotLabels
    BY <1>b, <1>c, <2>0, <2>1 DEF SlotLabels
  <2>5. syncTab' = [syncTab EXCEPT ![slot[r]].sem = NoReq]
    BY <1>10 DEF ClearSem
  <2>a. syncTab'[slot[r]] = EmptySync
    BY <1>a, <2>1, <2>2, <2>5 DEF EmptySync
  <2>b. \A i \in SyncSlots : i # slot[r] => syncTab'[i] = EmptySync
    BY <1>0, <1>a, <2>3, <2>5 DEF OnlyOwnSlots
  <2>6. \A i \in SyncSlots : syncTab'[i] = EmptySync
    BY <2>a, <2>b
  <2>7. OwnSlot'
    BY <2>4 DEF OwnSlot, SlotLabels
  <2>8. OnlyOwnSlots'
    BY <2>6, Zenon DEF OnlyOwnSlots, EmptySync
  <2> QED
    BY <1>0, <2>7, <2>8 DEF SoloSlots
<1> QED
  BY <1>1, <1>2, <1>3, <1>4, <1>5, <1>6, <1>7, <1>8, <1>9, <1>10 DEF CallStep

LEMMA OverlapStays ==
  ASSUME overlapped, [Next]_vars
  PROVE  overlapped'
  BY DEF Next, LoadUid, CallStep, StoreUid, FindSlot, RefuseCall, FillUid, FillSem, Enqueue,
     PostTxSem, FindMySlot, LoseSlot, TakeSem, Expire, DestroySem, ClearUid, ClearSem,
     FetchResponse, TxStep, TxTake, TxDequeue, TxCompose, TxComposeFails, TxTimerFails,
     TxRegister, TxSetCb, TxRefuse, TxSend, TxSendFails, TxPutFailure, TxNotify, TxStarve,
     TxCleanup, RxStep, RxTake, RxCallback, RxStopTimer, RxClearUid, RxClearCb, RxPut, RxFind,
     RxPost, SlaveDrops, RpcStart, TimerFires, vars, callers

LEMMA SoloSlotsStep ==
  ASSUME TypeOK, overlapped \/ SoloSlots, [Next]_vars
  PROVE  overlapped' \/ SoloSlots'
<1>1. overlapped => overlapped'
  BY OverlapStays
<1> SUFFICES ASSUME ~overlapped', SoloSlots PROVE SoloSlots'
  BY <1>1
<1>2. CASE \E r \in Reqs : LoadUid(r) \/ CallStep(r)
  BY <1>2, SoloSlotsCallStep
<1>3. ASSUME TxStep \/ RxStep \/ SlaveDrops \/ RpcStart \/ UNCHANGED vars
             \/ \E r \in Reqs : TimerFires(r)
      PROVE  SoloSlots'
  <2>1. UNCHANGED <<pc, slot, syncTab, reqUid>>
    BY <1>3 DEF TxStep, TxTake, TxDequeue, TxCompose, TxComposeFails, TxTimerFails,
       TxRegister, TxSetCb, TxRefuse, TxSend, TxSendFails, TxPutFailure, TxNotify, TxStarve,
       TxCleanup, RxStep, RxTake, RxCallback, RxStopTimer, RxClearUid, RxClearCb, RxPut,
       RxFind, RxPost, SlaveDrops, RpcStart, TimerFires, vars, callers, tables, numbering
  <2>2. OneCall'
    BY <2>1 DEF SoloSlots, OneCall, OpenCalls
  <2>3. \A t \in SyncReqs : EntryOf(t)' = EntryOf(t)
    BY <2>1 DEF EntryOf
  <2> QED
    BY <2>1, <2>2, <2>3, SoloSlotsFrame DEF SoloSlots
<1> QED
  BY <1>2, <1>3 DEF Next

\* A single task never has two calls open.
LEMMA OneTaskStep ==
  ASSUME NumTasks = 1, ~overlapped, [Next]_vars
  PROVE  ~overlapped'
<1>1. ASSUME NEW r \in Reqs, LoadUid(r) PROVE ~overlapped'
  <2>1. OpenCalls \in SUBSET Reqs
    BY DEF OpenCalls
  <2>2. OpenCalls = {}
    BY <1>1, <2>1, CardType, FS_EmptySet DEF LoadUid
  <2> QED
    BY <1>1, <2>2 DEF LoadUid
<1>2. ASSUME \A r \in Reqs : ~LoadUid(r) PROVE ~overlapped'
  BY <1>2 DEF Next, CallStep, StoreUid, FindSlot, RefuseCall, FillUid, FillSem, Enqueue,
     PostTxSem, FindMySlot, LoseSlot, TakeSem, Expire, DestroySem, ClearUid, ClearSem,
     FetchResponse, TxStep, TxTake, TxDequeue, TxCompose, TxComposeFails, TxTimerFails,
     TxRegister, TxSetCb, TxRefuse, TxSend, TxSendFails, TxPutFailure, TxNotify, TxStarve,
     TxCleanup, RxStep, RxTake, RxCallback, RxStopTimer, RxClearUid, RxClearCb, RxPut, RxFind,
     RxPost, SlaveDrops, RpcStart, TimerFires, vars, callers
<1> QED
  BY <1>1, <1>2

(***************************************************************************)
(* While one task at a time is inside a call, no entry of sync_rsp_table   *)
(* outlives its call, although the call may time out, fail or be refused.  *)
(* Tasks that race for the counter or for a free entry are outside the     *)
(* hypothesis: they can share a uid or overwrite an entry.                 *)
(***************************************************************************)
THEOREM SlotsBelongToOpenCallsHolds ==
  ASSUME NumTasks = 1
  PROVE  Spec => []SlotsBelongToOpenCalls
<1>1. Init => ~overlapped /\ SoloSlots
  BY SoloSlotsInit DEF Init
<1>2. TypeOK /\ ~overlapped /\ SoloSlots /\ [Next]_vars => ~overlapped' /\ SoloSlots'
  BY SoloSlotsStep, OneTaskStep
<1>3. TypeOK /\ SoloSlots => SlotsBelongToOpenCalls
  <2> SUFFICES ASSUME TypeOK, SoloSlots, NEW i \in SyncSlots, syncTab[i].uid # 0
               PROVE  \E r \in OpenCalls : slot[r] = i /\ reqUid[r] = syncTab[i].uid
    BY DEF SlotsBelongToOpenCalls
  <2>1. syncTab[i] # EmptySync
    BY DEF EmptySync
  <2>2. PICK r \in SyncReqs : pc[r] \in SlotLabels /\ slot[r] = i
    BY <2>1 DEF SoloSlots, OnlyOwnSlots
  <2>a. syncTab[i] = EntryOf(r)
    BY <2>2, Zenon DEF SoloSlots, OwnSlot
  <2>3. syncTab[i].uid = reqUid[r]
    BY <2>a DEF EntryOf
  <2>4. r \in OpenCalls
    BY <2>2 DEF OpenCalls, SlotLabels, Reqs
  <2> QED
    BY <2>2, <2>3, <2>4
<1> QED
  BY <1>1, <1>2, <1>3, TypeCorrect, PTL DEF Spec

-----------------------------------------------------------------------------
(* No two calls open at the same time, and none that ended without its     *)
(* response: who waits, and what comes in.                                 *)

\* The request or its response is with a thread or between threads.
Underway(r) ==
    \/ Queued(r) \/ Composing(r) \/ Carried(r, wire) \/ Received(r)
    \/ rxpc \in {"find", "post"} /\ rxmsg.req = r
    \/ txpc = "notify" /\ txreq = r

\* Until its response has been put and its semaphore posted, a call waits.
CallWaits(r) ==
    /\ Underway(r) => pc[r] \in {"post", "lookup", "wait"} /\ sem[r] = "empty"
    /\ Carried(r, rxq) => r \in OpenCalls
    /\ pc[r] \in {"scan", "fill", "fillsem", "enqueue"} => sem[r] = "empty"
    /\ pc[r] = "wait" => waitOn[r] = r
    /\ pc[r] \in {"clear", "erase"} => sem[r] # "empty"
    /\ pc[r] # "assert_failed"
CallsWait == \A r \in SyncReqs : CallWaits(r)

\* Nothing follows a synchronous request on its way.
SyncLast ==
    /\ \A i \in DOMAIN txq : txq[i] \in SyncReqs => i = Len(txq)
    /\ txpc \in {"compose", "register", "setcb", "send", "fail"} /\ txreq \in SyncReqs =>
         txq = << >>
    /\ \A i \in DOMAIN wire : wire[i].req \in SyncReqs =>
          /\ i = Len(wire) /\ txq = << >>
          /\ txpc \notin {"compose", "register", "setcb", "send", "fail"}

\* Only responses to synchronous requests reach rpc_rx_q.
SyncPath ==
    /\ rxpc \in {"put", "find", "post"} =>
          rxmsg.req \in SyncReqs /\ rxmsg.uid = reqUid[rxmsg.req]
    /\ rxpc = "post" => rxsem = rxmsg.req
    /\ rxpc \in {"find", "post"} => Carried(rxmsg.req, rxq)
    /\ \A i \in DOMAIN rxq : rxq[i].req \in SyncReqs
    /\ txpc \in {"fail", "notify"} => txreq \in SyncReqs
    /\ txpc = "notify" => Carried(txreq, rxq)
    /\ txpc = "notify" /\ rxpc \in {"find", "post"} => txreq # rxmsg.req

\* Every asynchronous request on its way has an entry in async_rsp_table.
Sent(u) == {q \in AsyncReqs : reqUid[q] = u
              /\ (Carried(q, wire) \/ (txpc \in {"setcb", "send"} /\ txreq = q))}
\* Labels at which rpc_rx has an entry it will release.
Answering == {"callback", "clear", "release"}
Registered(u) == {i \in AsyncSlots : asyncTab[i].uid = u
                    /\ ~(rxpc \in Answering /\ rxslot = i)}
AsyncKnown ==
    /\ \A i \in DOMAIN wire : wire[i].uid = reqUid[wire[i].req]
    /\ rxpc \in Answering => asyncTab[rxslot].uid # 0
    /\ \A u \in Uids : Cardinality(Sent(u)) <= Cardinality(Registered(u))

Solo == CallsWait /\ SyncLast /\ SyncPath /\ AsyncKnown

LEMMA SoloInit == Init => Solo
<1> SUFFICES ASSUME Init PROVE Solo
  OBVIOUS
<1>1. /\ txq = << >> /\ wire = << >> /\ rxq = << >> /\ rxpc = "idle" /\ txpc = "idle"
      /\ \A r \in Reqs : pc[r] = "idle"
      /\ \A r \in Reqs : reqUid[r] = 0
  BY DEF Init
<1>2. \A q : ~Queued(q) /\ ~Composing(q) /\ ~Received(q) /\ ~Carried(q, wire) /\ ~Carried(q, rxq)
  BY <1>1 DEF Queued, Composing, Received, Carried
<1>3. CallsWait
  <2> SUFFICES ASSUME NEW r \in SyncReqs PROVE CallWaits(r)
    BY DEF CallsWait
  <2>1. ~Underway(r) /\ ~Carried(r, rxq)
    BY <1>1, <1>2 DEF Underway
  <2>2. pc[r] = "idle"
    BY <1>1 DEF Reqs
  <2> QED
    BY <2>1, <2>2 DEF CallWaits
<1>4. SyncLast
  BY <1>1 DEF SyncLast
<1>5. SyncPath
  BY <1>1 DEF SyncPath, Reqs
<1>6. AsyncKnown
  <2>1. \A u \in Uids : Sent(u) = {}
    BY <1>1 DEF Sent, Uids, Reqs
  <2>2. \A u \in Uids : Registered(u) = {}
    BY DEF Init, Registered, EmptyAsync, Uids
  <2>3. \A u \in Uids : Cardinality(Sent(u)) = 0 /\ Cardinality(Registered(u)) = 0
    BY <2>1, <2>2, FS_EmptySet
  <2>4. \A u \in Uids : Cardinality(Sent(u)) <= Cardinality(Registered(u))
    BY <2>3
  <2>5. DOMAIN wire = {}
    BY <1>1
  <2> QED
    BY <1>1, <2>4, <2>5 DEF AsyncKnown, Answering
<1> QED
  BY <1>3, <1>4, <1>5, <1>6 DEF Solo

\* The type facts the steps below use.
LEMMA SoleType ==
  ASSUME TypeOK
  PROVE  /\ sem \in [Reqs -> SemStates] /\ waitOn \in [Reqs -> SyncReqs \cup {NoReq}]
         /\ result \in [Reqs -> Elem]
         /\ txpc \in TxLabels /\ rxpc \in RxLabels
         /\ rxsem \in SyncReqs \cup {NoReq}
         /\ asyncTab \in [AsyncSlots -> [uid : Uids \cup {0}, cb : AsyncReqs \cup {NoReq},
                                         timer : AsyncReqs \cup {NoReq}]]
         /\ rxpc \in {"callback", "clear", "release"} => rxslot \in AsyncSlots
  BY DEF TypeOK, CallersOK, TablesOK, TxOK, RxOK

\* The entry found for the uid of a call that waits is that call's own.
LEMMA EntryFound ==
  ASSUME TypeOK, SoloSlots, NEW r \in SyncReqs, pc[r] \in {"post", "lookup", "wait"},
         NEW i \in SyncSlots, syncTab[i].uid = reqUid[r]
  PROVE  slot[r] = i /\ syncTab[i].sem = r
<1>1. reqUid[r] # 0
  BY SoloType DEF Uids, Reqs, Unnumbered
<1>2. syncTab[i] # EmptySync
  BY <1>1 DEF EmptySync
<1>3. PICK t \in SyncReqs : pc[t] \in SlotLabels /\ slot[t] = i
  BY <1>2 DEF SoloSlots, OnlyOwnSlots
<1>4. t = r
  BY <1>3 DEF SoloSlots, OneCall, OpenCalls, SlotLabels, Reqs
<1>5. syncTab[i] = EntryOf(r)
  BY <1>3, <1>4, Zenon DEF SoloSlots, OwnSlot
<1> QED
  BY <1>3, <1>4, <1>5 DEF EntryOf

\* A post to a free entry wakes nobody.
LEMMA FreeEntry ==
  ASSUME TypeOK, SoloSlots, CallsWait, ~GaveUp, NEW i \in SyncSlots, syncTab[i].uid = 0
  PROVE  syncTab[i].sem = NoReq \/ sem[syncTab[i].sem] # "empty"
<1>1. CASE syncTab[i] = EmptySync
  BY <1>1 DEF EmptySync
<1>2. CASE syncTab[i] # EmptySync
  <2>1. PICK t \in SyncReqs : pc[t] \in SlotLabels /\ slot[t] = i
    BY <1>2 DEF SoloSlots, OnlyOwnSlots
  <2>2. syncTab[i] = EntryOf(t)
    BY <2>1, Zenon DEF SoloSlots, OwnSlot
  <2>3. reqUid[t] # 0
    BY <2>1, SoloType DEF Uids, Reqs, SlotLabels, Unnumbered
  <2>4. pc[t] \in {"erase", "forget"}
    BY <2>2, <2>3 DEF EntryOf
  <2>5. pc[t] = "erase" /\ syncTab[i].sem = t
    BY <2>2, <2>4 DEF GaveUp, EntryOf
  <2> QED
    BY <2>5 DEF CallsWait, CallWaits
<1> QED
  BY <1>1, <1>2

-----------------------------------------------------------------------------
(* CallsWait *)
LEMMA CallWaitsFrame ==
  ASSUME NEW r \in SyncReqs, CallWaits(r),
         pc'[r] = pc[r], sem'[r] = sem[r], waitOn'[r] = waitOn[r],
         Underway(r)' => Underway(r),
         Carried(r, rxq)' => Carried(r, rxq) \/ Underway(r)
  PROVE  CallWaits(r)'
<1>1. r \in OpenCalls' <=> r \in OpenCalls
  BY DEF OpenCalls
<1>2. Underway(r) => r \in OpenCalls
  BY DEF CallWaits, OpenCalls, Reqs
<1>3. Carried(r, rxq)' => r \in OpenCalls'
  BY <1>1, <1>2 DEF CallWaits
<1> QED
  BY <1>3 DEF CallWaits

\* Another call, or the caller itself, leaves the threads and the wire alone.
LEMMA UnderwayCall ==
  ASSUME TypeOK, NEW r \in SyncReqs, NEW s \in Reqs, LoadUid(s) \/ CallStep(s),
         ~(Enqueue(s) /\ r = s)
  PROVE  Underway(r)' <=> Underway(r)
<1> USE DEF GoTo, txThread, rxThread
<1>1. UNCHANGED <<txpc, txreq, rxpc, rxmsg, wire>>
  BY DEF CallStep, LoadUid, StoreUid, FindSlot, RefuseCall, FillUid, FillSem, Enqueue, PostTxSem,
     FindMySlot, LoseSlot, TakeSem, Expire, DestroySem, ClearUid, ClearSem, FetchResponse
<1>2. Queued(r)' <=> Queued(r)
  <2>1. CASE Enqueue(s)
    <3>1. txq \in Seq(Reqs) /\ txq' = Append(txq, s) /\ r # s
      BY <2>1, QueueTypes DEF Enqueue
    <3> QED
      BY <3>1, QueuedAppend
  <2>2. CASE ~Enqueue(s)
    <3>1. txq' = txq
      BY <2>2 DEF CallStep, LoadUid, StoreUid, FindSlot, RefuseCall, FillUid, FillSem, PostTxSem,
         FindMySlot, LoseSlot, TakeSem, Expire, DestroySem, ClearUid, ClearSem, FetchResponse
    <3> QED
      BY <3>1 DEF Queued
  <2> QED
    BY <2>1, <2>2
<1> QED
  BY <1>1, <1>2 DEF Underway, Composing, Carried, Received

LEMMA RxqCall ==
  ASSUME TypeOK, NEW q, NEW s \in Reqs, LoadUid(s) \/ CallStep(s)
  PROVE  Carried(q, rxq)' => Carried(q, rxq)
<1>1. CASE FetchResponse(s)
  <2>1. rxq \in Seq(Elem) /\ rxq # << >> /\ rxq' = Tail(rxq)
    BY <1>1, QueueTypes DEF FetchResponse
  <2>2. Carried(q, rxq)' <=> Carried(q, Tail(rxq))
    BY <2>1 DEF Carried
  <2> QED
    BY <2>1, <2>2, CarriedTail
<1>2. CASE ~FetchResponse(s)
  <2>1. rxq' = rxq
    BY <1>2 DEF CallStep, LoadUid, StoreUid, FindSlot, RefuseCall, FillUid, FillSem, Enqueue,
       PostTxSem, FindMySlot, LoseSlot, TakeSem, Expire, DestroySem, ClearUid, ClearSem
  <2> QED
    BY <2>1 DEF Carried
<1> QED
  BY <1>1, <1>2

\* What is at the head of rpc_rx_q is for the one call that is open.
LEMMA HeadIsMine ==
  ASSUME TypeOK, SoloSlots, CallsWait, SyncPath, NEW r \in SyncReqs, FetchResponse(r)
  PROVE  Head(rxq).req = r
<1>1. rxq \in Seq(Elem) /\ rxq # << >>
  BY QueueTypes DEF FetchResponse
<1>2. 1 \in DOMAIN rxq /\ Head(rxq) = rxq[1]
  BY <1>1
<1>3. rxq[1].req \in SyncReqs
  BY <1>2 DEF SyncPath
<1>4. Carried(rxq[1].req, rxq)
  BY <1>2, Zenon DEF Carried
<1>5. rxq[1].req \in OpenCalls
  BY <1>3, <1>4 DEF CallsWait, CallWaits
<1>6. r \in OpenCalls
  BY DEF FetchResponse, OpenCalls, Reqs
<1> QED
  BY <1>2, <1>5, <1>6 DEF SoloSlots, OneCall

LEMMA CallsWaitCallStep ==
  ASSUME ~GaveUp, ~GaveUp', TypeOK, Places, SoloSlots, CallsWait, SyncPath,
         NEW s \in Reqs, LoadUid(s) \/ CallStep(s)
  PROVE  CallsWait'
<1> SUFFICES ASSUME NEW r \in SyncReqs PROVE CallWaits(r)'
  BY DEF CallsWait
<1> USE DEF GoTo
<1>0. /\ pc \in [Reqs -> CallLabels] /\ sem \in [Reqs -> SemStates]
      /\ waitOn \in [Reqs -> SyncReqs \cup {NoReq}]
      /\ r \in Reqs /\ CallWaits(r) /\ OnePlace(r)
      /\ \A q \in Reqs : pc[q] \in SyncOnly => q \in SyncReqs
  BY SoloType, SoleType DEF Reqs, CallsWait, Places
<1>1. Carried(r, rxq)' => Carried(r, rxq)
  BY RxqCall
<1>2. CASE r # s
  <2>1. pc'[r] = pc[r] /\ waitOn'[r] = waitOn[r]
    BY <1>0, <1>2 DEF CallStep, LoadUid, StoreUid, FindSlot, RefuseCall, FillUid, FillSem, Enqueue,
       PostTxSem, FindMySlot, LoseSlot, TakeSem, Expire, DestroySem, ClearUid, ClearSem,
       FetchResponse
  <2>2. sem'[r] = sem[r]
    <3>1. CASE TakeSem(s)
      <4>1. waitOn[s] = s
        BY <1>0, <3>1 DEF TakeSem, CallsWait, CallWaits
      <4> QED
        BY <1>0, <1>2, <3>1, <4>1 DEF TakeSem
    <3>2. CASE DestroySem(s)
      <4>1. s \in SyncReqs /\ pc[s] \in SlotLabels
        BY <1>0, <3>2 DEF DestroySem, SlotLabels
      <4>2. syncTab[slot[s]] = EntryOf(s)
        BY <4>1, Zenon DEF SoloSlots, OwnSlot
      <4>3. syncTab[slot[s]].sem = s
        BY <3>2, <4>2 DEF DestroySem, EntryOf
      <4> QED
        BY <1>0, <1>2, <3>2, <4>3 DEF DestroySem
    <3>3. CASE ~TakeSem(s) /\ ~DestroySem(s)
      BY <1>0, <1>2, <3>3 DEF CallStep, LoadUid, StoreUid, FindSlot, RefuseCall, FillUid, FillSem,
         Enqueue, PostTxSem, FindMySlot, LoseSlot, Expire, ClearUid, ClearSem, FetchResponse
    <3> QED
      BY <3>1, <3>2, <3>3
  <2>3. Underway(r)' => Underway(r)
    BY <1>2, UnderwayCall
  <2> QED
    BY <1>0, <1>1, <2>1, <2>2, <2>3, CallWaitsFrame
<1>3. ASSUME r = s, ~Enqueue(r) PROVE CallWaits(r)'
  <2>0. LoadUid(r) \/ CallStep(r)
    BY <1>3
  <2>1. Underway(r)' <=> Underway(r)
    BY <1>3, UnderwayCall
  <2>2. CASE LoadUid(r) \/ StoreUid(r) \/ FindSlot(r) \/ RefuseCall(r) \/ FillUid(r)
             \/ FillSem(r)
    <3>1. ~Underway(r)
      BY <1>0, <2>2 DEF LoadUid, StoreUid, FindSlot, RefuseCall, FillUid, FillSem, CallWaits
    <3>2. ~Carried(r, rxq)
      BY <1>0, <2>2 DEF LoadUid, StoreUid, FindSlot, RefuseCall, FillUid, FillSem, OnePlace,
         Exclusive, Building
    <3>3. /\ pc'[r] \in {"loaded", "scan", "fill", "fillsem", "enqueue", "done"}
          /\ pc'[r] \in {"scan", "fill", "fillsem", "enqueue"} => sem'[r] = "empty"
      BY <1>0, <2>2 DEF LoadUid, StoreUid, FindSlot, RefuseCall, FillUid, FillSem, FreshSem,
         CallWaits
    <3> QED
      BY <1>1, <2>1, <3>1, <3>2, <3>3 DEF CallWaits
  <2>3. CASE PostTxSem(r)
    BY <1>0, <1>1, <2>1, <2>3 DEF PostTxSem, CallWaits, OpenCalls
  <2>4. CASE FindMySlot(r)
    <3>1. PICK i \in SyncSlots : /\ syncTab[i].uid = reqUid[r]
                                 /\ waitOn' = [waitOn EXCEPT ![r] = syncTab[i].sem]
      BY <2>4 DEF FindMySlot, IsFirst
    <3>2. pc[r] = "lookup" /\ pc'[r] = "wait" /\ sem' = sem
      BY <1>0, <2>4 DEF FindMySlot
    <3>3. syncTab[i].sem = r
      BY <3>1, <3>2, EntryFound
    <3>4. waitOn'[r] = r
      BY <1>0, <3>1, <3>3
    <3> QED
      BY <1>0, <1>1, <2>1, <3>2, <3>4 DEF CallWaits, OpenCalls
  <2>5. CASE LoseSlot(r)
    <3>1. pc[r] = "lookup" /\ pc[r] \in SlotLabels
      BY <2>5 DEF LoseSlot, SlotLabels
    <3>2. slot[r] \in SyncSlots /\ syncTab[slot[r]] = EntryOf(r)
      BY <3>1, Zenon DEF SoloSlots, OwnSlot
    <3>3. syncTab[slot[r]].uid = reqUid[r]
      BY <3>1, <3>2 DEF EntryOf
    <3> QED
      BY <2>5, <3>2, <3>3, SoloType DEF LoseSlot, Absent
  <2>6. CASE TakeSem(r)
    <3>1. waitOn[r] = r
      BY <1>0, <2>6 DEF TakeSem, CallWaits
    <3>2. ~Underway(r)
      BY <1>0, <2>6, <3>1 DEF TakeSem, CallWaits
    <3>3. pc'[r] = "woken" /\ pc[r] = "wait"
      BY <1>0, <2>6 DEF TakeSem
    <3> QED
      BY <1>0, <1>1, <2>1, <3>2, <3>3 DEF CallWaits, OpenCalls
  <2>7. CASE Expire(r)
    <3>1. pc'[r] = "expired"
      BY <1>0, <2>7 DEF Expire
    <3> QED
      BY <3>1 DEF GaveUp
  <2>8. CASE DestroySem(r)
    <3>1. pc[r] = "woken"
      BY <2>8 DEF DestroySem, GaveUp
    <3>2. syncTab[slot[r]] = EntryOf(r)
      BY <3>1, Zenon DEF SoloSlots, OwnSlot, SlotLabels
    <3>3. syncTab[slot[r]].sem = r /\ r # NoReq
      BY <3>1, <3>2, RequestsAssumption DEF EntryOf, Reqs
    <3>4. pc'[r] = "clear" /\ sem'[r] = "destroyed"
      BY <1>0, <2>8, <3>1, <3>3 DEF DestroySem
    <3>5. ~Underway(r)
      BY <1>0, <3>1 DEF CallWaits
    <3> QED
      BY <1>0, <1>1, <2>1, <3>1, <3>4, <3>5 DEF CallWaits, OpenCalls
  <2>9. CASE ClearUid(r) \/ ClearSem(r)
    <3>1. pc[r] \in {"clear", "erase"}
      BY <2>9 DEF ClearUid, ClearSem, GaveUp
    <3>2. pc'[r] \in {"erase", "fetch"} /\ sem' = sem
      BY <1>0, <2>9, <3>1 DEF ClearUid, ClearSem
    <3>3. ~Underway(r)
      BY <1>0, <3>1 DEF CallWaits
    <3> QED
      BY <1>0, <1>1, <2>1, <3>1, <3>2, <3>3 DEF CallWaits, OpenCalls
  <2>10. CASE FetchResponse(r)
    <3>1. Head(rxq).req = r
      BY <2>10, HeadIsMine
    <3>2. rxq \in Seq(Elem) /\ rxq # << >> /\ rxq' = Tail(rxq) /\ CarriedOnce(r, rxq)
      BY <1>0, <2>10, QueueTypes DEF FetchResponse, OnePlace
    <3>3. ~Carried(r, Tail(rxq))
      BY <3>1, <3>2, CarriedTail
    <3>4. ~Carried(r, rxq)'
      BY <3>2, <3>3 DEF Carried
    <3>5. ~Underway(r)
      BY <1>0, <2>10 DEF FetchResponse, CallWaits
    <3>6. pc'[r] = "done"
      BY <1>0, <2>10 DEF FetchResponse
    <3> QED
      BY <2>1, <3>4, <3>5, <3>6 DEF CallWaits
  <2> QED
    BY <1>3, <2>0, <2>2, <2>3, <2>4, <2>5, <2>6, <2>7, <2>8, <2>9, <2>10 DEF CallStep
<1>4. ASSUME r = s, Enqueue(r) PROVE CallWaits(r)'
  <2>1. pc[r] = "enqueue" /\ pc'[r] = "post" /\ sem' = sem
    BY <1>0, <1>4 DEF Enqueue
  <2> QED
    BY <1>0, <1>1, <2>1 DEF CallWaits, OpenCalls
<1> QED
  BY <1>2, <1>3, <1>4

LEMMA CallsWaitTxStep ==
  ASSUME ~GaveUp, TypeOK, SoloSlots, CallsWait, TxStep
  PROVE  CallsWait'
<1> SUFFICES ASSUME NEW r \in SyncReqs PROVE CallWaits(r)'
  BY DEF CallsWait
<1> USE DEF callers, txThread, rxThread
<1>0. CallWaits(r)
  BY DEF CallsWait
<1>1. UNCHANGED <<pc, waitOn, rxpc, rxmsg>>
  BY DEF TxStep, TxTake, TxDequeue, TxCompose, TxComposeFails, TxTimerFails, TxRegister, TxSetCb,
     TxRefuse, TxSend, TxSendFails, TxPutFailure, TxNotify, TxStarve, TxCleanup
<1>2. sem' = sem
  <2>1. CASE TxNotify
    <3>1. ASSUME NEW i \in SyncSlots, IsFirst(syncTab, i, 0), PostSem(syncTab[i].sem)
          PROVE  sem' = sem
      <4>1. syncTab[i].sem = NoReq \/ sem[syncTab[i].sem] # "empty"
        BY <3>1, FreeEntry DEF IsFirst
      <4> QED
        BY <3>1, <4>1 DEF PostSem
    <3> QED
      BY <2>1, <3>1 DEF TxNotify
  <2>2. CASE ~TxNotify
    BY <2>2 DEF TxStep, TxTake, TxDequeue, TxCompose, TxComposeFails, TxTimerFails, TxRegister,
       TxSetCb,
       TxRefuse, TxSend, TxSendFails, TxPutFailure, TxStarve, TxCleanup
  <2> QED
    BY <2>1, <2>2
<1>3. CASE TxDequeue
  <2>1. txq \in Seq(Reqs) /\ txq # << >> /\ txq' = Tail(txq) /\ txreq' = Head(txq)
        /\ UNCHANGED <<wire, rxq>> /\ txpc' = "compose"
    BY <1>3, QueueTypes DEF TxDequeue
  <2>2. Queued(r) <=> (Head(txq) = r \/ Queued(r)')
    BY <2>1, QueuedTail
  <2>3. Underway(r)' => Underway(r)
    BY <1>1, <2>1, <2>2 DEF Underway, Composing, Carried, Received
  <2>4. Carried(r, rxq)' => Carried(r, rxq)
    BY <2>1 DEF Carried
  <2> QED
    BY <1>0, <1>1, <1>2, <2>3, <2>4, CallWaitsFrame
<1>4. CASE TxSend
  <2> DEFINE m == [uid |-> reqUid[txreq], req |-> txreq, ok |-> TRUE]
  <2>1. wire \in Seq(WireMsg) /\ wire' = Append(wire, m) /\ m \in WireMsg /\ m.req = txreq
    BY <1>4, QueueTypes DEF TxSend, WireMsg, TypeOK, TxOK, CallersOK
  <2>2. UNCHANGED <<txq, rxq>> /\ txpc = "send" /\ txpc' = "cleanup"
    BY <1>4 DEF TxSend
  <2> HIDE DEF m
  <2>3. Carried(r, wire)' <=> Carried(r, Append(wire, m))
    BY <2>1 DEF Carried
  <2>4. Carried(r, wire)' => Carried(r, wire) \/ Composing(r)
    BY <2>1, <2>2, <2>3, CarriedAppend DEF Composing
  <2>5. /\ Queued(r)' => Queued(r)
        /\ ~Composing(r)'
        /\ Received(r)' <=> Received(r)
        /\ Carried(r, rxq)' => Carried(r, rxq)
    BY <1>1, <2>2 DEF Queued, Composing, Received, Carried
  <2>6. Underway(r)' => Underway(r)
    BY <1>1, <2>2, <2>4, <2>5 DEF Underway
  <2> QED
    BY <1>0, <1>1, <1>2, <2>5, <2>6, CallWaitsFrame
<1>5. CASE TxPutFailure
  <2> DEFINE m == [uid |-> 0, req |-> txreq, ok |-> FALSE]
  <2>1. rxq \in Seq(Elem) /\ rxq' = Append(rxq, m) /\ m \in Elem /\ m.req = txreq
    BY <1>5, QueueTypes DEF TxPutFailure, Elem
  <2>2. UNCHANGED <<txq, wire, txreq>> /\ txpc = "fail" /\ txpc' = "notify"
    BY <1>5 DEF TxPutFailure
  <2> HIDE DEF m
  <2>3. Carried(r, rxq)' <=> Carried(r, Append(rxq, m))
    BY <2>1 DEF Carried
  <2>4. Carried(r, rxq)' => Carried(r, rxq) \/ Composing(r)
    BY <2>1, <2>2, <2>3, CarriedAppend DEF Composing
  <2>5. /\ Queued(r)' => Queued(r)
        /\ ~Composing(r)'
        /\ Received(r)' <=> Received(r)
        /\ Carried(r, wire)' => Carried(r, wire)
        /\ txreq' = r => Composing(r)
    BY <1>1, <2>2 DEF Queued, Composing, Received, Carried
  <2>6. Underway(r)' => Underway(r)
    BY <1>1, <2>2, <2>5 DEF Underway
  <2> QED
    BY <1>0, <1>1, <1>2, <2>4, <2>6, CallWaitsFrame DEF Underway
<1>6. ASSUME ~TxDequeue, ~TxSend, ~TxPutFailure PROVE CallWaits(r)'
  <2>1. UNCHANGED <<txq, wire, rxq>>
    BY <1>6 DEF TxStep, TxTake, TxCompose, TxComposeFails, TxTimerFails, TxRegister, TxSetCb,
       TxRefuse, TxSendFails, TxNotify, TxStarve, TxCleanup
  <2>2. Composing(r)' => Composing(r)
    BY <1>6 DEF TxStep, TxTake, TxCompose, TxComposeFails, TxTimerFails, TxRegister, TxSetCb,
       TxRefuse, TxSendFails, TxNotify, TxStarve, TxCleanup, TellFailure, Composing
  <2>3. txpc' # "notify"
    BY <1>6 DEF TxStep, TxTake, TxCompose, TxComposeFails, TxTimerFails, TxRegister, TxSetCb,
       TxRefuse, TxSendFails, TxNotify, TxStarve, TxCleanup, TellFailure
  <2>4. /\ Queued(r)' => Queued(r)
        /\ Received(r)' => Received(r)
        /\ Carried(r, wire)' => Carried(r, wire)
        /\ Carried(r, rxq)' => Carried(r, rxq)
    BY <1>1, <2>1 DEF Queued, Received, Carried
  <2>5. Underway(r)' => Underway(r)
    BY <1>1, <2>2, <2>3, <2>4 DEF Underway
  <2> QED
    BY <1>0, <1>1, <1>2, <2>4, <2>5, CallWaitsFrame
<1> QED
  BY <1>3, <1>4, <1>5, <1>6

\* The response rpc_rx is working on is the one to the call that is open.
LEMMA MsgUnderway ==
  ASSUME TypeOK, CallsWait, SyncPath, rxpc \in {"put", "find", "post"}
  PROVE  /\ rxmsg.req \in SyncReqs /\ Underway(rxmsg.req)
         /\ pc[rxmsg.req] \in {"post", "lookup", "wait"} /\ sem[rxmsg.req] = "empty"
         /\ rxmsg.req \in OpenCalls
<1>1. rxmsg.req \in SyncReqs
  BY DEF SyncPath
<1>2. Underway(rxmsg.req)
  BY DEF Underway, Received
<1>3. pc[rxmsg.req] \in {"post", "lookup", "wait"} /\ sem[rxmsg.req] = "empty"
  BY <1>1, <1>2 DEF CallsWait, CallWaits
<1> QED
  BY <1>1, <1>2, <1>3 DEF OpenCalls, Reqs

LEMMA CallsWaitRxStep ==
  ASSUME TypeOK, Places, SoloSlots, CallsWait, SyncPath, RxStep \/ SlaveDrops
  PROVE  CallsWait'
<1> SUFFICES ASSUME NEW r \in SyncReqs PROVE CallWaits(r)'
  BY DEF CallsWait
<1> USE DEF callers, txThread, rxThread
<1>0. CallWaits(r) /\ OnePlace(r)
  BY DEF CallsWait, Places, Reqs
<1>1. UNCHANGED <<pc, waitOn, txq, txpc, txreq>>
  BY DEF RxStep, RxTake, RxCallback, RxStopTimer, RxClearUid, RxClearCb, RxPut, RxFind, RxPost,
     SlaveDrops
<1>2. /\ Queued(r)' <=> Queued(r)
      /\ Composing(r)' <=> Composing(r)
  BY <1>1 DEF Queued, Composing
<1>3. CASE RxTake \/ SlaveDrops
  <2>1. wire \in Seq(WireMsg) /\ wire # << >> /\ wire' = Tail(wire) /\ UNCHANGED <<sem, rxq>>
    BY <1>3, QueueTypes DEF RxTake, SlaveDrops
  <2>2. Carried(r, wire)' <=> Carried(r, Tail(wire))
    BY <2>1 DEF Carried
  <2>3. Carried(r, wire) <=> (Head(wire).req = r \/ Carried(r, Tail(wire)))
    BY <2>1, CarriedTail
  <2>4. Received(r)' => Received(r) \/ Head(wire).req = r
    BY <1>3 DEF RxTake, SlaveDrops, Received
  <2>5. rxpc' \in {"find", "post"} => UNCHANGED <<rxpc, rxmsg>>
    BY <1>3 DEF RxTake, SlaveDrops
  <2>6. Underway(r)' => Underway(r)
    BY <1>1, <1>2, <2>2, <2>3, <2>4, <2>5 DEF Underway
  <2>7. Carried(r, rxq)' => Carried(r, rxq)
    BY <2>1 DEF Carried
  <2> QED
    BY <1>0, <1>1, <2>1, <2>6, <2>7, CallWaitsFrame
<1>4. CASE RxPut
  <2>1. /\ rxq \in Seq(Elem) /\ rxmsg \in Elem /\ rxq' = Append(rxq, rxmsg)
        /\ UNCHANGED <<sem, wire, rxmsg>> /\ rxpc = "put" /\ rxpc' = "find"
    BY <1>4, QueueTypes DEF RxPut
  <2>2. Carried(r, rxq)' <=> Carried(r, Append(rxq, rxmsg))
    BY <2>1 DEF Carried
  <2>3. Carried(r, rxq)' => Carried(r, rxq) \/ Received(r)
    BY <2>1, <2>2, CarriedAppend DEF Received
  <2>4. Carried(r, wire)' <=> Carried(r, wire)
    BY <2>1 DEF Carried
  <2>5. ~Received(r)' /\ (rxmsg'.req = r => Received(r))
    BY <2>1 DEF Received
  <2>6. Underway(r)' => Underway(r)
    BY <1>1, <1>2, <2>4, <2>5 DEF Underway
  <2> QED
    BY <1>0, <1>1, <2>1, <2>3, <2>6, CallWaitsFrame DEF Underway
<1>5. CASE RxPost
  <2>1. rxpc = "post" /\ rxpc' = "idle" /\ PostSem(rxsem) /\ UNCHANGED <<wire, rxq, rxmsg>>
    BY <1>5 DEF RxPost
  <2>2. rxsem = rxmsg.req /\ rxsem \in SyncReqs /\ Carried(rxsem, rxq)
    BY <2>1 DEF SyncPath
  <2>3. /\ Carried(r, wire)' <=> Carried(r, wire)
        /\ Carried(r, rxq)' <=> Carried(r, rxq)
        /\ ~Received(r)'
    BY <2>1 DEF Carried, Received
  <2>4. Underway(r)' => Underway(r)
    BY <1>1, <1>2, <2>1, <2>3 DEF Underway
  <2>5. CASE r # rxsem
    <3>1. sem'[r] = sem[r]
      BY <2>1, <2>5, SoleType DEF PostSem
    <3> QED
      BY <1>0, <1>1, <2>3, <2>4, <3>1, CallWaitsFrame
  <2>6. CASE r = rxsem
    <3>1. /\ ~Queued(r) /\ ~Composing(r) /\ ~Carried(r, wire)
      BY <1>0, <2>2, <2>6 DEF OnePlace, Exclusive
    <3>2. ~(txpc = "notify" /\ txreq = r)
      BY <2>1, <2>2, <2>6 DEF SyncPath
    <3>3. ~Underway(r)'
      BY <1>1, <1>2, <2>1, <2>3, <3>1, <3>2 DEF Underway
    <3>4. pc[r] \in {"post", "lookup", "wait"}
      BY <2>1, <2>2, <2>6, MsgUnderway
    <3> QED
      BY <1>0, <1>1, <3>3, <3>4 DEF CallWaits, OpenCalls, Reqs
  <2> QED
    BY <2>5, <2>6
<1>6. CASE RxCallback \/ RxStopTimer \/ RxClearUid \/ RxClearCb \/ RxFind
  <2>1. UNCHANGED <<sem, wire, rxq, rxmsg>>
    BY <1>6 DEF RxCallback, RxStopTimer, RxClearUid, RxClearCb, RxFind
  <2>2. /\ Received(r)' => Received(r)
        /\ rxpc' \in {"find", "post"} => rxpc \in {"find", "post"}
    BY <1>6 DEF RxCallback, RxStopTimer, RxClearUid, RxClearCb, RxFind, Received
  <2>3. /\ Carried(r, wire)' <=> Carried(r, wire)
        /\ Carried(r, rxq)' <=> Carried(r, rxq)
    BY <2>1 DEF Carried
  <2>4. Underway(r)' => Underway(r)
    BY <1>1, <1>2, <2>1, <2>2, <2>3 DEF Underway
  <2> QED
    BY <1>0, <1>1, <2>1, <2>3, <2>4, CallWaitsFrame
<1> QED
  BY <1>3, <1>4, <1>5, <1>6 DEF RxStep

-----------------------------------------------------------------------------
(* SyncLast *)
\* When a call puts its request into rpc_tx_q, no synchronous one is underway.
LEMMA NoneUnderway ==
  ASSUME TypeOK, SoloSlots, CallsWait, NEW s \in Reqs, Enqueue(s), NEW r \in SyncReqs
  PROVE  ~Underway(r)
<1> SUFFICES ASSUME Underway(r) PROVE FALSE
  OBVIOUS
<1>1. pc[r] \in {"post", "lookup", "wait"}
  BY DEF CallsWait, CallWaits
<1>2. r = s
  BY <1>1 DEF Enqueue, SoloSlots, OneCall, OpenCalls, Reqs
<1> QED
  BY <1>1, <1>2 DEF Enqueue

LEMMA SyncLastFrame ==
  ASSUME SyncLast, UNCHANGED <<txq, wire>>,
         txpc' \in {"compose", "register", "setcb", "send", "fail"} =>
            txpc \in {"compose", "register", "setcb", "send", "fail"} /\ txreq' = txreq
  PROVE  SyncLast'
  BY DEF SyncLast

LEMMA SyncLastCallStep ==
  ASSUME TypeOK, SoloSlots, CallsWait, SyncLast, NEW s \in Reqs, LoadUid(s) \/ CallStep(s)
  PROVE  SyncLast'
<1> USE DEF txThread
<1>1. CASE Enqueue(s)
  <2>1. txq \in Seq(Reqs) /\ txq' = Append(txq, s) /\ UNCHANGED <<txpc, txreq, wire>>
    BY <1>1, QueueTypes DEF Enqueue
  <2>2. \A i \in DOMAIN txq : txq[i] \notin SyncReqs
    BY <1>1, NoneUnderway DEF Underway, Queued
  <2>3. ~(txpc \in {"compose", "register", "setcb", "send", "fail"} /\ txreq \in SyncReqs)
    BY <1>1, NoneUnderway DEF Underway, Composing
  <2>4. \A i \in DOMAIN wire : wire[i].req \notin SyncReqs
    BY <1>1, NoneUnderway DEF Underway, Carried
  <2>5. \A i \in DOMAIN txq' : (i \in DOMAIN txq /\ txq'[i] = txq[i]) \/ i = Len(txq')
    BY <2>1
  <2> QED
    BY <2>1, <2>2, <2>3, <2>4, <2>5 DEF SyncLast
<1>2. CASE ~Enqueue(s)
  <2>1. UNCHANGED <<txq, wire, txpc, txreq>>
    BY <1>2 DEF CallStep, LoadUid, StoreUid, FindSlot, RefuseCall, FillUid, FillSem, PostTxSem,
       FindMySlot, LoseSlot, TakeSem, Expire, DestroySem, ClearUid, ClearSem, FetchResponse
  <2> QED
    BY <2>1, SyncLastFrame
<1> QED
  BY <1>1, <1>2

LEMMA SyncLastTxStep ==
  ASSUME TypeOK, SyncLast, TxStep
  PROVE  SyncLast'
<1>1. CASE TxDequeue
  <2>1. /\ txq \in Seq(Reqs) /\ txq # << >> /\ txq' = Tail(txq) /\ txreq' = Head(txq)
        /\ wire' = wire
    BY <1>1, QueueTypes DEF TxDequeue
  <2>2. \A i \in DOMAIN wire : wire[i].req \notin SyncReqs
    BY <2>1 DEF SyncLast
  <2>3. Len(txq) \in Nat /\ Len(txq) >= 1 /\ Len(txq') = Len(txq) - 1 /\ Head(txq) = txq[1]
        /\ DOMAIN txq = 1..Len(txq) /\ DOMAIN txq' = 1..Len(txq')
        /\ \A i \in 1..Len(txq') : txq'[i] = txq[i + 1]
    BY <2>1
  <2>4. \A i \in DOMAIN txq' : txq'[i] \in SyncReqs => i = Len(txq')
    <3> SUFFICES ASSUME NEW i \in DOMAIN txq', txq'[i] \in SyncReqs PROVE i = Len(txq')
      OBVIOUS
    <3>1. i + 1 \in DOMAIN txq /\ txq[i + 1] \in SyncReqs
      BY <2>3
    <3>2. i + 1 = Len(txq)
      BY <3>1 DEF SyncLast
    <3> QED
      BY <2>3, <3>2
  <2>5. txreq' \in SyncReqs => txq' = << >>
    <3> SUFFICES ASSUME txq[1] \in SyncReqs PROVE txq' = << >>
      BY <2>1, <2>3
    <3>1. 1 = Len(txq)
      BY <2>3 DEF SyncLast
    <3> QED
      BY <2>1, <3>1
  <2> QED
    BY <2>1, <2>2, <2>4, <2>5 DEF SyncLast
<1>2. CASE TxSend
  <2> DEFINE m == [uid |-> reqUid[txreq], req |-> txreq, ok |-> TRUE]
  <2>1. wire \in Seq(WireMsg) /\ wire' = Append(wire, m) /\ m \in WireMsg /\ m.req = txreq
    BY <1>2, QueueTypes DEF TxSend, WireMsg, TypeOK, TxOK, CallersOK
  <2> HIDE DEF m
  <2>2. txpc = "send" /\ txpc' = "cleanup" /\ UNCHANGED <<txq, txreq>>
    BY <1>2 DEF TxSend
  <2>3. \A i \in DOMAIN wire : wire[i].req \notin SyncReqs
    BY <2>2 DEF SyncLast
  <2>4. \A i \in DOMAIN wire' :
           (i \in DOMAIN wire /\ wire'[i] = wire[i]) \/ (i = Len(wire') /\ wire'[i] = m)
    BY <2>1
  <2>5. \A i \in DOMAIN wire' : wire'[i].req \in SyncReqs => i = Len(wire') /\ txreq \in SyncReqs
    BY <2>1, <2>3, <2>4
  <2>6. txreq \in SyncReqs => txq = << >>
    BY <2>2 DEF SyncLast
  <2> QED
    BY <2>2, <2>5, <2>6 DEF SyncLast
<1>3. ASSUME ~TxDequeue, ~TxSend PROVE SyncLast'
  <2>1. UNCHANGED <<txq, wire>>
    BY <1>3 DEF TxStep, TxTake, TxCompose, TxComposeFails, TxTimerFails, TxRegister, TxSetCb,
       TxRefuse, TxSendFails, TxPutFailure, TxNotify, TxStarve, TxCleanup
  <2>2. txpc' \in {"compose", "register", "setcb", "send", "fail"} =>
            txpc \in {"compose", "register", "setcb", "send", "fail"} /\ txreq' = txreq
    BY <1>3 DEF TxStep, TxTake, TxCompose, TxComposeFails, TxTimerFails, TxRegister, TxSetCb,
       TxRefuse, TxSendFails, TxPutFailure, TxNotify, TxStarve, TxCleanup, TellFailure
  <2> QED
    BY <2>1, <2>2, SyncLastFrame
<1> QED
  BY <1>1, <1>2, <1>3

LEMMA SyncLastRxStep ==
  ASSUME TypeOK, SyncLast, RxStep \/ SlaveDrops
  PROVE  SyncLast'
<1> USE DEF txThread
<1>0. UNCHANGED <<txq, txpc, txreq>>
  BY DEF RxStep, RxTake, RxCallback, RxStopTimer, RxClearUid, RxClearCb, RxPut, RxFind, RxPost,
     SlaveDrops
<1>1. CASE RxTake \/ SlaveDrops
  <2>1. wire \in Seq(WireMsg) /\ wire # << >> /\ wire' = Tail(wire)
    BY <1>1, QueueTypes DEF RxTake, SlaveDrops
  <2>2. Len(wire) \in Nat /\ Len(wire) >= 1 /\ Len(wire') = Len(wire) - 1
        /\ DOMAIN wire = 1..Len(wire) /\ DOMAIN wire' = 1..Len(wire')
        /\ \A i \in 1..Len(wire') : wire'[i] = wire[i + 1]
    BY <2>1
  <2>3. ASSUME NEW i \in DOMAIN wire', wire'[i].req \in SyncReqs
        PROVE  /\ i = Len(wire') /\ txq = << >>
               /\ txpc \notin {"compose", "register", "setcb", "send", "fail"}
    <3>1. i + 1 \in DOMAIN wire /\ wire[i + 1].req \in SyncReqs
      BY <2>2, <2>3
    <3>2. /\ i + 1 = Len(wire) /\ txq = << >>
          /\ txpc \notin {"compose", "register", "setcb", "send", "fail"}
      BY <3>1 DEF SyncLast
    <3> QED
      BY <2>2, <3>2
  <2> QED
    BY <1>0, <2>3 DEF SyncLast
<1>2. CASE RxCallback \/ RxStopTimer \/ RxClearUid \/ RxClearCb \/ RxPut \/ RxFind \/ RxPost
  <2>1. wire' = wire
    BY <1>2 DEF RxCallback, RxStopTimer, RxClearUid, RxClearCb, RxPut, RxFind, RxPost
  <2> QED
    BY <1>0, <2>1, SyncLastFrame
<1> QED
  BY <1>1, <1>2 DEF RxStep

\* A step of a call numbers only a request that is still under construction.
LEMMA NumberingCall ==
  ASSUME TypeOK, NEW s \in Reqs, LoadUid(s) \/ CallStep(s), NEW q \in Reqs, ~Building(q)
  PROVE  reqUid'[q] = reqUid[q]
<1>1. reqUid \in [Reqs -> Uids \cup {0}]
  BY SoloType
<1>2. CASE LoadUid(s) \/ StoreUid(s)
  <2>1. q # s
    BY <1>2 DEF LoadUid, StoreUid, Building
  <2> QED
    BY <1>1, <1>2, <2>1 DEF LoadUid, StoreUid
<1>3. CASE ~LoadUid(s) /\ ~StoreUid(s)
  BY <1>3 DEF CallStep, FindSlot, RefuseCall, FillUid, FillSem, Enqueue, PostTxSem,
     FindMySlot, LoseSlot, TakeSem, Expire, DestroySem, ClearUid, ClearSem, FetchResponse, numbering
<1> QED
  BY <1>2, <1>3

LEMMA SyncPathCallStep ==
  ASSUME TypeOK, SoloSlots, CallsWait, SyncPath, NEW s \in Reqs, LoadUid(s) \/ CallStep(s)
  PROVE  SyncPath'
<1> USE DEF GoTo, txThread, rxThread
<1>1. UNCHANGED <<txpc, txreq, rxpc, rxmsg, rxsem>>
  BY DEF CallStep, LoadUid, StoreUid, FindSlot, RefuseCall, FillUid, FillSem, Enqueue, PostTxSem,
     FindMySlot, LoseSlot, TakeSem, Expire, DestroySem, ClearUid, ClearSem, FetchResponse
<1>2. rxpc \in {"put", "find", "post"} => reqUid'[rxmsg.req] = reqUid[rxmsg.req]
  <2> SUFFICES ASSUME rxpc \in {"put", "find", "post"}
               PROVE  reqUid'[rxmsg.req] = reqUid[rxmsg.req]
    OBVIOUS
  <2>1. rxmsg.req \in Reqs /\ ~Building(rxmsg.req)
    BY MsgUnderway DEF Building, Reqs
  <2> QED
    BY <2>1, NumberingCall
\* The call that fetches has no response underway any more.
<1>3. ASSUME FetchResponse(s) PROVE rxpc \notin {"find", "post"} /\ txpc # "notify"
  <2>1. pc[s] = "fetch" /\ s \in SyncReqs
    BY <1>3, SoloType DEF FetchResponse
  <2>2. \A r \in SyncReqs : pc[r] \in {"post", "lookup", "wait"} => FALSE
    BY <2>1 DEF SoloSlots, OneCall, OpenCalls, Reqs
  <2>3. rxpc \notin {"find", "post"}
    BY <2>2, MsgUnderway
  <2>4. txpc # "notify"
    BY <2>2 DEF SyncPath, CallsWait, CallWaits, Underway
  <2> QED
    BY <2>3, <2>4
<1>4. rxpc \in {"find", "post"} \/ txpc = "notify" => rxq' = rxq
  BY <1>3 DEF CallStep, LoadUid, StoreUid, FindSlot, RefuseCall, FillUid, FillSem, Enqueue,
     PostTxSem, FindMySlot, LoseSlot, TakeSem, Expire, DestroySem, ClearUid, ClearSem
<1>5. \A i \in DOMAIN rxq' : rxq'[i].req \in SyncReqs
  <2>1. CASE FetchResponse(s)
    <3>1. rxq \in Seq(Elem) /\ rxq # << >> /\ rxq' = Tail(rxq)
      BY <2>1, QueueTypes DEF FetchResponse
    <3>2. \A i \in DOMAIN rxq' : i + 1 \in DOMAIN rxq /\ rxq'[i] = rxq[i + 1]
      BY <3>1
    <3> QED
      BY <3>2 DEF SyncPath
  <2>2. CASE ~FetchResponse(s)
    <3>1. rxq' = rxq
      BY <2>2 DEF CallStep, LoadUid, StoreUid, FindSlot, RefuseCall, FillUid, FillSem, Enqueue,
         PostTxSem, FindMySlot, LoseSlot, TakeSem, Expire, DestroySem, ClearUid, ClearSem
    <3> QED
      BY <3>1 DEF SyncPath
  <2> QED
    BY <2>1, <2>2
<1>7. rxpc \in {"find", "post"} => (Carried(rxmsg.req, rxq)' <=> Carried(rxmsg.req, rxq))
  BY <1>1, <1>4 DEF Carried
<1>8. txpc = "notify" => (Carried(txreq, rxq)' <=> Carried(txreq, rxq))
  BY <1>1, <1>4 DEF Carried
<1> QED
  BY <1>1, <1>2, <1>5, <1>7, <1>8 DEF SyncPath

LEMMA SyncPathTxStep ==
  ASSUME TypeOK, Places, SyncPath, TxStep
  PROVE  SyncPath'
<1> USE DEF callers, rxThread
<1>1. UNCHANGED <<rxpc, rxmsg, rxsem, reqUid>>
  BY DEF TxStep, TxTake, TxDequeue, TxCompose, TxComposeFails, TxTimerFails, TxRegister, TxSetCb,
     TxRefuse, TxSend, TxSendFails, TxPutFailure, TxNotify, TxStarve, TxCleanup, numbering
<1>2. CASE TxPutFailure
  <2> DEFINE m == [uid |-> 0, req |-> txreq, ok |-> FALSE]
  <2>1. rxq \in Seq(Elem) /\ rxq' = Append(rxq, m) /\ m \in Elem /\ m.req = txreq
    BY <1>2, QueueTypes DEF TxPutFailure, Elem
  <2> HIDE DEF m
  <2>2. txreq' = txreq /\ txpc = "fail" /\ txpc' = "notify" /\ txreq \in SyncReqs /\ txreq \in Reqs
    BY <1>2 DEF TxPutFailure, SyncPath, Reqs
  <2>3. \A q : Carried(q, rxq') <=> (Carried(q, rxq) \/ m.req = q)
    BY <2>1, CarriedAppend
  <2>4. \A i \in DOMAIN rxq' : (i \in DOMAIN rxq /\ rxq'[i] = rxq[i]) \/ rxq'[i] = m
    BY <2>1
  <2>5. \A i \in DOMAIN rxq' : rxq'[i].req \in SyncReqs
    BY <2>1, <2>2, <2>4 DEF SyncPath
  <2>6. Carried(rxmsg.req, rxq)' <=> Carried(rxmsg.req, rxq')
    BY <1>1 DEF Carried
  <2>7. Carried(txreq, rxq)' <=> Carried(txreq, rxq')
    BY <2>2 DEF Carried
  <2>8. Composing(txreq) /\ OnePlace(txreq)
    BY <2>2 DEF Composing, Places
  <2>9. ~Carried(txreq, rxq)
    BY <2>8 DEF OnePlace, Exclusive
  <2>10. rxpc \in {"find", "post"} => txreq # rxmsg.req
    BY <2>9 DEF SyncPath
  <2> QED
    BY <1>1, <2>1, <2>2, <2>3, <2>5, <2>6, <2>7, <2>10 DEF SyncPath
<1>3. CASE ~TxPutFailure
  <2>1. rxq' = rxq /\ txpc' # "notify"
    BY <1>3 DEF TxStep, TxTake, TxDequeue, TxCompose, TxComposeFails, TxTimerFails,
       TxRegister, TxSetCb, TxRefuse, TxSend, TxSendFails, TxNotify, TxStarve, TxCleanup,
       TellFailure
  <2>2. txpc' = "fail" => txreq' \in SyncReqs
    <3> SUFFICES ASSUME txpc' = "fail" PROVE txreq' \in SyncReqs
      OBVIOUS
    <3>1. TxComposeFails \/ TxSendFails
      BY <1>3 DEF TxStep, TxTake, TxDequeue, TxCompose, TxTimerFails,
         TxRegister, TxSetCb, TxRefuse, TxSend, TxNotify, TxStarve, TxCleanup, TellFailure
    <3>2. txreq \in Reqs /\ txreq \notin AsyncReqs /\ txreq' = txreq
      BY <3>1, QueueTypes DEF TxComposeFails, TxSendFails, TellFailure
    <3> QED
      BY <3>2 DEF Reqs
  <2>3. Carried(rxmsg.req, rxq)' <=> Carried(rxmsg.req, rxq)
    BY <1>1, <2>1 DEF Carried
  <2> QED
    BY <1>1, <2>1, <2>2, <2>3 DEF SyncPath
<1> QED
  BY <1>2, <1>3

\* async_rsp_table is as long as a set of requests can be counted in.
LEMMA CardSlots ==
  ASSUME NEW T \in SUBSET AsyncSlots
  PROVE  IsFiniteSet(T) /\ Cardinality(T) \in Nat
<1>1. MaxAsync \in Nat
  BY SizesAssumption
<1>2. IsFiniteSet(AsyncSlots)
  BY <1>1, FS_Interval DEF AsyncSlots
<1> QED
  BY <1>2, FS_Subset, FS_CardinalityType

LEMMA KnownType ==
  ASSUME NEW u
  PROVE  /\ Sent(u) \in SUBSET Reqs /\ IsFiniteSet(Sent(u)) /\ Cardinality(Sent(u)) \in Nat
         /\ Registered(u) \in SUBSET AsyncSlots /\ IsFiniteSet(Registered(u))
         /\ Cardinality(Registered(u)) \in Nat
<1>1. Sent(u) \in SUBSET Reqs /\ Registered(u) \in SUBSET AsyncSlots
  BY DEF Sent, Registered, Reqs
<1> QED
  BY <1>1, CardType, CardSlots

\* An asynchronous request whose answer arrives is found in async_rsp_table.
LEMMA AnswerKnown ==
  ASSUME TypeOK, AsyncKnown, wire # << >>, Head(wire).req \in AsyncReqs
  PROVE  ~Absent(asyncTab, Head(wire).uid)
<1> DEFINE h == Head(wire)
           u == h.uid
<1>1. wire \in Seq(WireMsg) /\ h = wire[1] /\ 1 \in DOMAIN wire /\ h \in WireMsg
  BY QueueTypes
<1>2. u \in Uids /\ u = reqUid[h.req] /\ Carried(h.req, wire)
  BY <1>1 DEF AsyncKnown, WireMsg, Carried
<1>3. h.req \in Sent(u)
  BY <1>2 DEF Sent
<1>4. Cardinality(Sent(u)) >= 1
  BY <1>3, KnownType, CardRemove
<1>5. Cardinality(Registered(u)) >= 1
  BY <1>2, <1>4, KnownType DEF AsyncKnown
<1>6. Registered(u) # {}
  BY <1>5, FS_EmptySet
<1>7. PICK i \in AsyncSlots : asyncTab[i].uid = u
  BY <1>6 DEF Registered
<1>8. DOMAIN asyncTab = AsyncSlots
  BY SoleType
<1> QED
  BY <1>7, <1>8 DEF Absent

LEMMA SyncPathRxStep ==
  ASSUME TypeOK, Places, SoloSlots, CallsWait, SyncPath, AsyncKnown, RxStep \/ SlaveDrops
  PROVE  SyncPath'
<1> USE DEF callers, txThread, rxThread
<1>1. UNCHANGED <<txpc, txreq, reqUid>>
  BY DEF RxStep, RxTake, RxCallback, RxStopTimer, RxClearUid, RxClearCb, RxPut, RxFind, RxPost,
     SlaveDrops, numbering
<1>2. CASE RxTake
  <2>1. /\ wire # << >> /\ rxmsg' = Head(wire) /\ rxpc' \in {"callback", "put"} /\ rxq' = rxq
        /\ rxpc' = "put" => Absent(asyncTab, Head(wire).uid)
    BY <1>2 DEF RxTake
  <2>2. wire \in Seq(WireMsg) /\ Head(wire) = wire[1] /\ Head(wire) \in WireMsg /\ 1 \in DOMAIN wire
    BY <2>1, QueueTypes
  <2>3. Head(wire).req \in Reqs /\ Head(wire).uid = reqUid[Head(wire).req]
    BY <2>2 DEF AsyncKnown, WireMsg
  <2>4. rxpc' = "put" => Head(wire).req \in SyncReqs
    BY <2>1, <2>3, AnswerKnown DEF Reqs
  <2>5. Carried(txreq, rxq)' <=> Carried(txreq, rxq)
    BY <1>1, <2>1 DEF Carried
  <2> QED
    BY <1>1, <2>1, <2>3, <2>4, <2>5 DEF SyncPath
<1>3. CASE RxPut
  <2>1. rxq \in Seq(Elem) /\ rxmsg \in Elem /\ rxq' = Append(rxq, rxmsg) /\ rxmsg' = rxmsg
        /\ rxpc = "put" /\ rxpc' = "find"
    BY <1>3, QueueTypes DEF RxPut
  <2>2. rxmsg.req \in SyncReqs /\ rxmsg.uid = reqUid[rxmsg.req] /\ rxmsg.req \in Reqs
    BY <2>1 DEF SyncPath, Reqs
  <2>3. \A q : Carried(q, rxq') <=> (Carried(q, rxq) \/ rxmsg.req = q)
    BY <2>1, CarriedAppend
  <2>4. \A i \in DOMAIN rxq' : (i \in DOMAIN rxq /\ rxq'[i] = rxq[i]) \/ rxq'[i] = rxmsg
    BY <2>1
  <2>5. \A i \in DOMAIN rxq' : rxq'[i].req \in SyncReqs
    BY <2>2, <2>4 DEF SyncPath
  <2>6. Carried(rxmsg.req, rxq)' <=> Carried(rxmsg.req, rxq')
    BY <2>1 DEF Carried
  <2>7. Carried(txreq, rxq)' <=> Carried(txreq, rxq')
    BY <1>1 DEF Carried
  <2>8. Received(rxmsg.req) /\ OnePlace(rxmsg.req)
    BY <2>1, <2>2 DEF Received, Places
  <2>9. ~Carried(rxmsg.req, rxq)
    BY <2>8 DEF OnePlace, Exclusive
  <2>10. txpc = "notify" => txreq # rxmsg.req
    BY <2>9 DEF SyncPath
  <2> QED
    BY <1>1, <2>1, <2>2, <2>3, <2>5, <2>6, <2>7, <2>10 DEF SyncPath
<1>4. CASE RxFind
  <2>1. rxpc = "find" /\ UNCHANGED <<rxmsg, rxq>>
    BY <1>4 DEF RxFind
  <2>2. /\ rxmsg.req \in SyncReqs /\ rxmsg.req \in OpenCalls /\ rxmsg.uid = reqUid[rxmsg.req]
        /\ pc[rxmsg.req] \in {"post", "lookup", "wait"} /\ Carried(rxmsg.req, rxq)
    BY <2>1, MsgUnderway DEF SyncPath
  <2>3. rxpc' = "post" => rxsem' = rxmsg.req
    <3> SUFFICES ASSUME NEW i \in SyncSlots, IsFirst(syncTab, i, rxmsg.uid),
                        rxsem' = syncTab[i].sem
                 PROVE  rxsem' = rxmsg.req
      BY <1>4 DEF RxFind
    <3>1. syncTab[i].sem = rxmsg.req
      BY <2>2, EntryFound DEF IsFirst
    <3> QED
      BY <3>1
  <2>4. rxpc' \in {"post", "idle"}
    BY <1>4 DEF RxFind
  <2>5. /\ Carried(rxmsg.req, rxq)' <=> Carried(rxmsg.req, rxq)
        /\ Carried(txreq, rxq)' <=> Carried(txreq, rxq)
    BY <1>1, <2>1 DEF Carried
  <2> QED
    BY <1>1, <2>1, <2>2, <2>3, <2>4, <2>5 DEF SyncPath
<1>5. CASE RxCallback \/ RxStopTimer \/ RxClearUid \/ RxClearCb \/ RxPost
  <2>1. rxq' = rxq /\ rxpc' \in {"crashed", "clear", "release", "erase", "idle"}
    BY <1>5 DEF RxCallback, RxStopTimer, RxClearUid, RxClearCb, RxPost
  <2>2. Carried(txreq, rxq)' <=> Carried(txreq, rxq)
    BY <1>1, <2>1 DEF Carried
  <2> QED
    BY <1>1, <2>1, <2>2 DEF SyncPath
<1>6. CASE SlaveDrops
  <2>1. UNCHANGED <<rxpc, rxmsg, rxsem, rxq>>
    BY <1>6 DEF SlaveDrops
  <2>2. /\ Carried(rxmsg.req, rxq)' <=> Carried(rxmsg.req, rxq)
        /\ Carried(txreq, rxq)' <=> Carried(txreq, rxq)
    BY <1>1, <2>1 DEF Carried
  <2> QED
    BY <1>1, <2>1, <2>2 DEF SyncPath
<1> QED
  BY <1>2, <1>3, <1>4, <1>5, <1>6 DEF RxStep

\* What the count of the requests sent and of the entries may do together.
LEMMA KnownFrame ==
  ASSUME NEW u, Cardinality(Sent(u)) <= Cardinality(Registered(u)),
         Sent(u)' \in SUBSET Sent(u), Registered(u) \in SUBSET Registered(u)'
  PROVE  Cardinality(Sent(u)') <= Cardinality(Registered(u)')
<1> DEFINE S == Sent(u)'
           T == Registered(u)'
<1>1. T \in SUBSET AsyncSlots
  BY DEF Registered, AsyncSlots
<1>2. S \in SUBSET Sent(u) /\ Registered(u) \in SUBSET T
  OBVIOUS
<1>3. Sent(u) \in SUBSET Reqs /\ Cardinality(Sent(u)) \in Nat /\ Cardinality(Registered(u)) \in Nat
  BY KnownType
<1> HIDE DEF S, T
<1>4. S \in SUBSET Reqs
  BY <1>2, <1>3
<1>5. Cardinality(S) <= Cardinality(Sent(u)) /\ Cardinality(S) \in Nat
  BY <1>2, <1>3, <1>4, CardSubset, CardType
<1>6. IsFiniteSet(T) /\ Cardinality(T) \in Nat
  BY <1>1, CardSlots
<1>7. Cardinality(Registered(u)) <= Cardinality(T)
  BY <1>2, <1>6, FS_Subset
<1>8. Cardinality(S) <= Cardinality(T)
  BY <1>3, <1>5, <1>6, <1>7
<1> QED
  BY <1>8 DEF S, T

\* Both grow by one.
LEMMA KnownGrows ==
  ASSUME NEW u, Cardinality(Sent(u)) <= Cardinality(Registered(u)),
         NEW q \in Reqs, Sent(u)' \in SUBSET (Sent(u) \cup {q}),
         NEW i \in AsyncSlots, i \notin Registered(u),
         Registered(u)' = Registered(u) \cup {i}
  PROVE  Cardinality(Sent(u)') <= Cardinality(Registered(u)')
<1> DEFINE S == Sent(u)'
           T == Registered(u)'
           s == Sent(u)
           t == Registered(u)
<1>1. S \in SUBSET (s \cup {q}) /\ T = t \cup {i} /\ i \notin t
  OBVIOUS
<1>2. /\ s \in SUBSET Reqs /\ Cardinality(s) \in Nat /\ Cardinality(t) \in Nat
      /\ IsFiniteSet(t) /\ Cardinality(s) <= Cardinality(t)
  BY KnownType
<1> HIDE DEF S, T, s, t
<1>3. s \cup {q} \in SUBSET Reqs /\ S \in SUBSET Reqs
  BY <1>1, <1>2
<1>4. Cardinality(S) <= Cardinality(s \cup {q}) /\ Cardinality(S) \in Nat
  BY <1>1, <1>3, CardSubset, CardType
<1>5. Cardinality(s \cup {q}) <= Cardinality(s) + 1
  <2>1. CASE q \in s
    <3>1. s \cup {q} = s
      BY <2>1
    <3> QED
      BY <1>2, <3>1
  <2>2. CASE q \notin s
    BY <1>2, <2>2, CardAdd
  <2> QED
    BY <2>1, <2>2
<1>6. Cardinality(T) = Cardinality(t) + 1
  BY <1>1, <1>2, FS_AddElement
<1>7. Cardinality(s \cup {q}) \in Nat
  BY <1>3, CardType
<1>8. Cardinality(S) <= Cardinality(T)
  BY <1>2, <1>4, <1>5, <1>6, <1>7
<1> QED
  BY <1>8 DEF S, T

\* Both shrink by one.
LEMMA KnownShrinks ==
  ASSUME NEW u, Cardinality(Sent(u)) <= Cardinality(Registered(u)),
         NEW q \in Sent(u), Sent(u)' \in SUBSET (Sent(u) \ {q}),
         NEW i \in Registered(u), Registered(u)' = Registered(u) \ {i}
  PROVE  Cardinality(Sent(u)') <= Cardinality(Registered(u)')
<1> DEFINE S == Sent(u)'
           T == Registered(u)'
           s == Sent(u)
           t == Registered(u)
<1>1. S \in SUBSET (s \ {q}) /\ T = t \ {i} /\ q \in s /\ i \in t
  OBVIOUS
<1>2. /\ s \in SUBSET Reqs /\ Cardinality(s) \in Nat /\ Cardinality(t) \in Nat
      /\ IsFiniteSet(t) /\ Cardinality(s) <= Cardinality(t)
  BY KnownType
<1> HIDE DEF S, T, s, t
<1>3. s \ {q} \in SUBSET Reqs /\ S \in SUBSET Reqs
  BY <1>1, <1>2
<1>4. Cardinality(S) <= Cardinality(s \ {q}) /\ Cardinality(S) \in Nat
  BY <1>1, <1>3, CardSubset, CardType
<1>5. Cardinality(s \ {q}) = Cardinality(s) - 1
  BY <1>1, <1>2, CardRemove
<1>6. Cardinality(T) = Cardinality(t) - 1
  BY <1>1, <1>2, FS_RemoveElement
<1>8. Cardinality(S) <= Cardinality(T)
  BY <1>2, <1>4, <1>5, <1>6
<1> QED
  BY <1>8 DEF S, T

\* Nobody is left that could be without an entry.
LEMMA KnownNone ==
  ASSUME NEW u, Sent(u)' = {}
  PROVE  Cardinality(Sent(u)') <= Cardinality(Registered(u)')
<1> DEFINE T == Registered(u)'
<1>1. T \in SUBSET AsyncSlots
  BY DEF Registered, AsyncSlots
<1> HIDE DEF T
<1>2. Cardinality(T) \in Nat
  BY <1>1, CardSlots
<1>3. Cardinality({}) <= Cardinality(T)
  BY <1>2, FS_EmptySet
<1> QED
  BY <1>3 DEF T

LEMMA AsyncKnownCallStep ==
  ASSUME TypeOK, Places, AsyncKnown, NEW s \in Reqs, LoadUid(s) \/ CallStep(s)
  PROVE  AsyncKnown'
<1> USE DEF txThread, rxThread
<1>1. UNCHANGED <<txpc, txreq, wire, asyncTab, rxpc, rxslot>>
  BY DEF CallStep, LoadUid, StoreUid, FindSlot, RefuseCall, FillUid, FillSem, Enqueue, PostTxSem,
     FindMySlot, LoseSlot, TakeSem, Expire, DestroySem, ClearUid, ClearSem, FetchResponse, tables
<1>2. \A q \in Reqs :
        Carried(q, wire) \/ (txpc \in {"setcb", "send"} /\ txreq = q) => reqUid'[q] = reqUid[q]
  <2> SUFFICES ASSUME NEW q \in Reqs, Carried(q, wire) \/ (txpc \in {"setcb", "send"} /\ txreq = q)
               PROVE  reqUid'[q] = reqUid[q]
    OBVIOUS
  <2>1. ~Building(q)
    BY DEF Places, OnePlace, Exclusive, Composing
  <2> QED
    BY <2>1, NumberingCall
<1>3. \A i \in DOMAIN wire : wire[i].req \in Reqs /\ Carried(wire[i].req, wire)
  <2> SUFFICES ASSUME NEW i \in DOMAIN wire PROVE wire[i].req \in Reqs /\ Carried(wire[i].req, wire)
    OBVIOUS
  <2>1. wire[i] \in WireMsg
    BY QueueTypes
  <2> QED
    BY <2>1 DEF WireMsg, Carried
<1>4. \A i \in DOMAIN wire' : wire'[i].uid = reqUid'[wire'[i].req]
  BY <1>1, <1>2, <1>3 DEF AsyncKnown
<1>5. \A u : Registered(u)' = Registered(u)
  BY <1>1 DEF Registered
<1>6. \A u : Sent(u)' \in SUBSET Sent(u)
  BY <1>1, <1>2 DEF Sent, Carried, Reqs
<1>7. \A u \in Uids : Cardinality(Sent(u)') <= Cardinality(Registered(u)')
  BY <1>5, <1>6, KnownFrame DEF AsyncKnown
<1> QED
  BY <1>1, <1>4, <1>7 DEF AsyncKnown

LEMMA AsyncKnownTxStep ==
  ASSUME TypeOK, AsyncKnown, TxStep
  PROVE  AsyncKnown'
<1> USE DEF callers, rxThread
<1>1. UNCHANGED <<reqUid, rxpc, rxslot>>
  BY DEF TxStep, TxTake, TxDequeue, TxCompose, TxComposeFails, TxTimerFails, TxRegister, TxSetCb,
     TxRefuse, TxSend, TxSendFails, TxPutFailure, TxNotify, TxStarve, TxCleanup, numbering
<1>2. CASE TxRegister
  <2>1. PICK i \in AsyncSlots : /\ asyncTab[i].uid = 0
                                /\ asyncTab' = [asyncTab EXCEPT ![i].uid = reqUid[txreq]]
    BY <1>2 DEF TxRegister, IsFirst, AsyncUid
  <2> DEFINE v == reqUid[txreq]
  <2>2. txreq \in AsyncReqs /\ txreq \in Reqs /\ v \in Uids /\ v # 0
    BY <1>2 DEF TxRegister, TxSetCb, TypeOK, TxOK, CallersOK, Reqs, Uids
  <2>3. /\ asyncTab'[i].uid = v
        /\ \A j \in AsyncSlots : j # i => asyncTab'[j] = asyncTab[j]
    BY <2>1, SoleType
  <2>4. txpc = "register" /\ txpc' = "setcb" /\ UNCHANGED <<txreq, wire>>
    BY <1>2 DEF TxRegister
  <2> HIDE DEF v
  <2>5. rxpc \in Answering => rxslot # i /\ rxslot \in AsyncSlots
    BY <2>1, SoleType DEF AsyncKnown, Answering
  <2>6. rxpc' \in Answering => asyncTab'[rxslot'].uid # 0
    BY <1>1, <2>3, <2>5 DEF AsyncKnown
  <2>7. \A k \in DOMAIN wire' : wire'[k].uid = reqUid'[wire'[k].req]
    BY <1>1, <2>4 DEF AsyncKnown
  <2>8. ASSUME NEW u \in Uids PROVE Cardinality(Sent(u)') <= Cardinality(Registered(u)')
    <3>0. Cardinality(Sent(u)) <= Cardinality(Registered(u)) /\ u # 0
      BY DEF AsyncKnown, Uids
    <3>1. \A q : Carried(q, wire)' <=> Carried(q, wire)
      BY <2>4 DEF Carried
    <3>2. CASE u = v
      <4>1. Sent(u)' \in SUBSET (Sent(u) \cup {txreq})
        BY <1>1, <2>4, <3>1 DEF Sent
      <4>2. i \notin Registered(u)
        BY <2>1, <3>0 DEF Registered
      <4>3. Registered(u)' = Registered(u) \cup {i}
        BY <1>1, <2>3, <2>5, <3>2 DEF Registered, AsyncSlots
      <4> QED
        BY <2>2, <3>0, <4>1, <4>2, <4>3, KnownGrows
    <3>3. CASE u # v
      <4>1. Sent(u)' \in SUBSET Sent(u)
        BY <1>1, <2>4, <3>1, <3>3 DEF Sent, v
      <4>2. Registered(u) \in SUBSET Registered(u)'
        BY <1>1, <2>1, <2>3, <3>0 DEF Registered, AsyncSlots
      <4> QED
        BY <3>0, <4>1, <4>2, KnownFrame
    <3> QED
      BY <3>2, <3>3
  <2> QED
    BY <2>6, <2>7, <2>8 DEF AsyncKnown
<1>3. CASE TxSend
  <2> DEFINE m == [uid |-> reqUid[txreq], req |-> txreq, ok |-> TRUE]
  <2>1. /\ wire \in Seq(WireMsg) /\ wire' = Append(wire, m) /\ m \in WireMsg
        /\ m.req = txreq /\ m.uid = reqUid[txreq]
    BY <1>3, QueueTypes DEF TxSend, WireMsg, TypeOK, TxOK, CallersOK
  <2>2. txpc = "send" /\ txpc' = "cleanup" /\ UNCHANGED <<txreq, asyncTab>>
    BY <1>3 DEF TxSend, tables
  <2> HIDE DEF m
  <2>3. \A k \in DOMAIN wire' : (k \in DOMAIN wire /\ wire'[k] = wire[k]) \/ wire'[k] = m
    BY <2>1
  <2>4. \A k \in DOMAIN wire' : wire'[k].uid = reqUid'[wire'[k].req]
    BY <1>1, <2>1, <2>3 DEF AsyncKnown
  <2>5. \A q : Carried(q, wire') <=> (Carried(q, wire) \/ txreq = q)
    BY <2>1, CarriedAppend
  <2>6. \A q : Carried(q, wire)' <=> Carried(q, wire')
    BY DEF Carried
  <2>7. \A u : Sent(u)' \in SUBSET Sent(u)
    BY <1>1, <2>2, <2>5, <2>6 DEF Sent
  <2>8. \A u : Registered(u)' = Registered(u)
    BY <1>1, <2>2 DEF Registered
  <2>9. \A u \in Uids : Cardinality(Sent(u)') <= Cardinality(Registered(u)')
    BY <2>7, <2>8, KnownFrame DEF AsyncKnown
  <2> QED
    BY <1>1, <2>2, <2>4, <2>9 DEF AsyncKnown
<1>5. CASE TxSetCb
  <2>1. txpc = "setcb" /\ txpc' = "send" /\ UNCHANGED <<txreq, wire>>
    BY <1>5 DEF TxSetCb, txThread
  <2>2. \A j \in AsyncSlots : asyncTab'[j].uid = asyncTab[j].uid
    BY <1>5, SoleType DEF TxSetCb
  <2>3. \A u : Sent(u)' \in SUBSET Sent(u)
    BY <1>1, <2>1 DEF Sent, Carried
  <2>4. \A u : Registered(u)' = Registered(u)
    BY <1>1, <2>2 DEF Registered, AsyncSlots
  <2>5. \A u \in Uids : Cardinality(Sent(u)') <= Cardinality(Registered(u)')
    BY <2>3, <2>4, KnownFrame DEF AsyncKnown
  <2>6. rxpc' \in Answering => asyncTab'[rxslot'].uid # 0
    BY <1>1, <2>2, SoleType DEF AsyncKnown, Answering
  <2> QED
    BY <1>1, <2>1, <2>5, <2>6 DEF AsyncKnown
<1>4. CASE ~TxRegister /\ ~TxSetCb /\ ~TxSend
  <2>1. UNCHANGED <<wire, asyncTab>>
    BY <1>4 DEF TxStep, TxTake, TxDequeue, TxCompose, TxComposeFails, TxTimerFails,
       TxRefuse, TxSendFails, TxPutFailure, TxNotify, TxStarve, TxCleanup, tables
  <2>2. txpc' = "send" => txpc = "compose" /\ txreq' = txreq /\ txreq \notin AsyncReqs
    BY <1>4 DEF TxStep, TxTake, TxDequeue, TxCompose, TxComposeFails, TxTimerFails,
       TxRefuse, TxSendFails, TxPutFailure, TxNotify, TxStarve, TxCleanup, TellFailure
  <2>a. txpc' # "setcb"
    BY <1>4 DEF TxStep, TxTake, TxDequeue, TxCompose, TxComposeFails, TxTimerFails,
       TxRefuse, TxSendFails, TxPutFailure, TxNotify, TxStarve, TxCleanup, TellFailure
  <2>3. \A u : Sent(u)' \in SUBSET Sent(u)
    BY <1>1, <2>1, <2>2, <2>a DEF Sent, Carried
  <2>4. \A u : Registered(u)' = Registered(u)
    BY <1>1, <2>1 DEF Registered
  <2>5. \A u \in Uids : Cardinality(Sent(u)') <= Cardinality(Registered(u)')
    BY <2>3, <2>4, KnownFrame DEF AsyncKnown
  <2> QED
    BY <1>1, <2>1, <2>5 DEF AsyncKnown
<1> QED
  BY <1>2, <1>3, <1>4, <1>5

LEMMA AsyncKnownRxStep ==
  ASSUME TypeOK, Places, SyncLast, AsyncKnown, RxStep \/ SlaveDrops
  PROVE  AsyncKnown'
<1> USE DEF callers, txThread, rxThread
<1>1. UNCHANGED <<reqUid, txpc, txreq>>
  BY DEF RxStep, RxTake, RxCallback, RxStopTimer, RxClearUid, RxClearCb, RxPut, RxFind, RxPost,
     SlaveDrops, numbering
<1>2. CASE RxTake \/ SlaveDrops
  <2> DEFINE h == Head(wire)
  <2>1. /\ wire \in Seq(WireMsg) /\ wire # << >> /\ wire' = Tail(wire)
        /\ h \in WireMsg /\ h = wire[1] /\ 1 \in DOMAIN wire /\ asyncTab' = asyncTab
    BY <1>2, QueueTypes DEF RxTake, SlaveDrops, tables
  <2>2. \A k \in DOMAIN wire' : k + 1 \in DOMAIN wire /\ wire'[k] = wire[k + 1]
    BY <2>1
  <2>3. \A k \in DOMAIN wire' : wire'[k].uid = reqUid'[wire'[k].req]
    BY <1>1, <2>2 DEF AsyncKnown
  <2>4. \A q : Carried(q, wire) <=> (h.req = q \/ Carried(q, Tail(wire)))
    BY <2>1, CarriedTail
  <2>5. \A q : Carried(q, wire)' <=> Carried(q, Tail(wire))
    BY <2>1 DEF Carried
  <2>6. \A u : Sent(u)' \in SUBSET Sent(u)
    BY <1>1, <2>4, <2>5 DEF Sent
  <2>7. /\ h.uid \in Uids /\ h.uid # 0 /\ h.req \in Reqs
        /\ h.uid = reqUid[h.req] /\ Carried(h.req, wire)
    BY <2>1 DEF WireMsg, AsyncKnown, Uids, Carried
  <2>8. CASE rxpc' \in Answering /\ RxTake
    <3>1. PICK i \in AsyncSlots : asyncTab[i].uid = h.uid /\ rxslot' = i
      BY <2>8 DEF RxTake, IsFirst, Answering
    <3>2. rxpc = "idle" /\ rxpc' = "callback"
      BY <2>8 DEF RxTake, Answering
    <3> HIDE DEF h
    <3>3. ASSUME NEW u \in Uids PROVE Cardinality(Sent(u)') <= Cardinality(Registered(u)')
      <4>0. Cardinality(Sent(u)) <= Cardinality(Registered(u))
        BY DEF AsyncKnown
      <4>1. CASE u # h.uid
        <5>1. Registered(u) \in SUBSET Registered(u)'
          BY <2>1, <3>1, <3>2, <4>1 DEF Registered, AsyncSlots, Answering
        <5> QED
          BY <2>6, <4>0, <5>1, KnownFrame
      <4>2. CASE u = h.uid /\ h.req \in AsyncReqs
        <5>1. h.req \in Sent(u)
          BY <2>7, <4>2 DEF Sent
        <5>2. OnePlace(h.req)
          BY <2>7 DEF Places
        <5>3. ~Carried(h.req, Tail(wire))
          BY <2>1, <5>2, CarriedTail DEF OnePlace, h
        <5>4. ~(txpc \in {"setcb", "send"} /\ txreq = h.req)
          BY <2>7, <5>2 DEF OnePlace, Exclusive, Composing
        <5>5. h.req \notin Sent(u)'
          BY <1>1, <2>5, <5>3, <5>4 DEF Sent
        <5>6. Sent(u)' \in SUBSET (Sent(u) \ {h.req})
          BY <2>6, <5>5
        <5>7. i \in Registered(u) /\ Registered(u)' = Registered(u) \ {i}
          BY <2>1, <3>1, <3>2, <4>2 DEF Registered, AsyncSlots, Answering
        <5> QED
          BY <4>0, <5>1, <5>6, <5>7, KnownShrinks
      <4>3. CASE h.req \in SyncReqs
        <5>1. 1 = Len(wire) /\ txpc \notin {"setcb", "send"}
          BY <2>1, <4>3 DEF SyncLast
        <5>2. wire' = << >>
          BY <2>1, <5>1
        <5>3. Sent(u)' = {}
          BY <1>1, <5>1, <5>2 DEF Sent, Carried
        <5> QED
          BY <5>3, KnownNone
      <4> QED
        BY <2>7, <4>1, <4>2, <4>3 DEF Reqs
    <3>4. rxpc' \in Answering => asyncTab'[rxslot'].uid # 0
      BY <2>1, <2>7, <3>1
    <3> QED
      BY <2>3, <3>3, <3>4 DEF AsyncKnown
  <2>9. CASE ~(rxpc' \in Answering /\ RxTake)
    <3>1. RxTake => rxpc = "idle" /\ rxpc' = "put"
      BY <2>9 DEF RxTake, Answering
    <3>2. ~RxTake => UNCHANGED <<rxpc, rxslot>>
      BY <1>2 DEF SlaveDrops
    <3>3. \A u : Registered(u)' = Registered(u)
      BY <2>1, <3>1, <3>2 DEF Registered, Answering
    <3>4. \A u \in Uids : Cardinality(Sent(u)') <= Cardinality(Registered(u)')
      BY <2>6, <3>3, KnownFrame DEF AsyncKnown
    <3>5. rxpc' \in Answering => asyncTab'[rxslot'].uid # 0
      BY <2>1, <3>1, <3>2 DEF AsyncKnown, Answering
    <3> QED
      BY <2>3, <3>4, <3>5 DEF AsyncKnown
  <2> QED
    BY <2>8, <2>9
<1>3. CASE RxCallback \/ RxStopTimer \/ RxClearUid \/ RxClearCb \/ RxPut \/ RxFind \/ RxPost
  <2>1. wire' = wire
    BY <1>3 DEF RxCallback, RxStopTimer, RxClearUid, RxClearCb, RxPut, RxFind, RxPost
  <2>2. \A u : Sent(u)' \in SUBSET Sent(u)
    BY <1>1, <2>1 DEF Sent, Carried
  <2>3. \A u : Registered(u) \in SUBSET Registered(u)'
    <3>1. CASE RxClearUid
      <4>1. /\ rxpc = "release" /\ rxpc' = "erase" /\ rxslot \in AsyncSlots
            /\ \A j \in AsyncSlots : j # rxslot => asyncTab'[j] = asyncTab[j]
        BY <3>1, SoleType DEF RxClearUid
      <4> QED
        BY <4>1 DEF Registered, AsyncSlots, Answering
    <3>2. CASE ~RxClearUid
      <4>1. \A j \in AsyncSlots : asyncTab'[j].uid = asyncTab[j].uid
        BY <1>3, <3>2, SoleType DEF RxCallback, RxStopTimer, RxClearCb, RxPut, RxFind, RxPost,
           tables
      <4>2. rxslot' = rxslot /\ (rxpc' \in Answering => rxpc \in Answering)
        BY <1>3, <3>2 DEF RxCallback, RxStopTimer, RxClearCb, RxPut, RxFind, RxPost, Answering
      <4> QED
        BY <4>1, <4>2 DEF Registered, AsyncSlots
    <3> QED
      BY <3>1, <3>2
  <2>4. \A u \in Uids : Cardinality(Sent(u)') <= Cardinality(Registered(u)')
    BY <2>2, <2>3, KnownFrame DEF AsyncKnown
  <2>5. rxpc' \in Answering => asyncTab'[rxslot'].uid # 0
    <3> SUFFICES ASSUME rxpc' \in Answering PROVE asyncTab'[rxslot'].uid # 0
      OBVIOUS
    <3>1. ~RxClearUid /\ rxpc \in Answering /\ rxslot' = rxslot
      BY <1>3 DEF RxCallback, RxStopTimer, RxClearUid, RxClearCb, RxPut, RxFind, RxPost, Answering
    <3>2. rxslot \in AsyncSlots
      BY <3>1, SoleType DEF Answering
    <3>3. asyncTab'[rxslot].uid = asyncTab[rxslot].uid
      BY <1>3, <3>1, <3>2, SoleType DEF RxCallback, RxStopTimer, RxClearCb, RxPut, RxFind,
         RxPost, tables
    <3> QED
      BY <3>1, <3>3 DEF AsyncKnown
  <2> QED
    BY <1>1, <2>1, <2>4, <2>5 DEF AsyncKnown
<1> QED
  BY <1>2, <1>3 DEF RxStep

-----------------------------------------------------------------------------
(* The steps that move no request. *)
LEMMA SoloStutter ==
  ASSUME Solo, RpcStart \/ UNCHANGED vars \/ \E r \in Reqs : TimerFires(r)
  PROVE  Solo'
<1>1. UNCHANGED <<reqUid, pc, waitOn, sem, asyncTab, txq, txpc, txreq, wire, rxq,
                  rxpc, rxmsg, rxslot, rxsem>>
  BY DEF RpcStart, TimerFires, vars, numbering, callers, tables, txThread, rxThread
<1>2. \A q : /\ Queued(q)' <=> Queued(q)
             /\ Composing(q)' <=> Composing(q)
             /\ Received(q)' <=> Received(q)
             /\ Carried(q, wire)' <=> Carried(q, wire)
             /\ Carried(q, rxq)' <=> Carried(q, rxq)
  BY <1>1 DEF Queued, Composing, Received, Carried
<1>3. CallsWait'
  <2> SUFFICES ASSUME NEW r \in SyncReqs PROVE CallWaits(r)'
    BY DEF CallsWait
  <2>1. Underway(r)' <=> Underway(r)
    BY <1>1, <1>2 DEF Underway
  <2> QED
    BY <1>1, <1>2, <2>1, CallWaitsFrame DEF Solo, CallsWait
<1>4. SyncLast'
  BY <1>1, SyncLastFrame DEF Solo
<1>5. SyncPath'
  BY <1>1, <1>2 DEF Solo, SyncPath
<1>6. \A u : Sent(u)' = Sent(u) /\ Registered(u)' = Registered(u)
  BY <1>1, <1>2 DEF Sent, Registered
<1>7. \A u \in Uids : Cardinality(Sent(u)') <= Cardinality(Registered(u)')
  BY <1>6 DEF Solo, AsyncKnown
<1>8. AsyncKnown'
  BY <1>1, <1>7 DEF Solo, AsyncKnown
<1> QED
  BY <1>3, <1>4, <1>5, <1>8 DEF Solo

\* A call has no result before it is done.
NoResultYet == \A r \in Reqs : pc[r] # "done" => result[r] = NoElem

LEMMA NoResultYetStep ==
  ASSUME TypeOK, NoResultYet, [Next]_vars
  PROVE  NoResultYet'
<1>0. pc \in [Reqs -> CallLabels] /\ result \in [Reqs -> Elem]
  BY SoloType, SoleType
<1>1. ASSUME NEW s \in Reqs, FetchResponse(s) PROVE NoResultYet'
  BY <1>0, <1>1 DEF FetchResponse, GoTo, NoResultYet
<1>2. ASSUME NEW s \in Reqs, LoadUid(s) \/ CallStep(s), ~FetchResponse(s) PROVE NoResultYet'
  <2>1. result' = result /\ pc[s] # "done" /\ \A q \in Reqs : q # s => pc'[q] = pc[q]
    BY <1>0, <1>2 DEF LoadUid, CallStep, StoreUid, FindSlot, RefuseCall, FillUid, FillSem,
       Enqueue, PostTxSem, FindMySlot, LoseSlot, TakeSem, Expire, DestroySem, ClearUid,
       ClearSem, GoTo
  <2> QED
    BY <2>1 DEF NoResultYet
<1>3. CASE TxStep \/ RxStep \/ SlaveDrops \/ RpcStart \/ UNCHANGED vars
             \/ \E q \in Reqs : TimerFires(q)
  <2>1. UNCHANGED <<pc, result>>
    BY <1>3 DEF TxStep, TxTake, TxDequeue, TxCompose, TxComposeFails, TxTimerFails,
       TxRegister, TxSetCb, TxRefuse, TxSend, TxSendFails, TxPutFailure, TxNotify, TxStarve,
       TxCleanup, RxStep, RxTake, RxCallback, RxStopTimer, RxClearUid, RxClearCb, RxPut,
       RxFind, RxPost, SlaveDrops, RpcStart, TimerFires, vars, callers
  <2> QED
    BY <2>1 DEF NoResultYet
<1> QED
  BY <1>1, <1>2, <1>3 DEF Next

\* A call that ended without its response stays ended.
LEMMA GaveUpStays ==
  ASSUME TypeOK, SoloSlots, NoResultYet, GaveUp, [Next]_vars
  PROVE  GaveUp'
<1>1. PICK r \in SyncReqs : \/ pc[r] \in {"expired", "giveup", "forget"}
                            \/ pc[r] = "done" /\ result[r] = NoElem
  BY DEF GaveUp
<1>2. /\ pc \in [Reqs -> CallLabels] /\ result \in [Reqs -> Elem] /\ r \in Reqs
  BY SoloType, SoleType DEF Reqs
<1>3. CASE UNCHANGED <<pc, result>>
  BY <1>1, <1>3 DEF GaveUp
<1>4. ASSUME NEW s \in Reqs, LoadUid(s) \/ CallStep(s), s # r PROVE GaveUp'
  <2>1. pc'[r] = pc[r] /\ result'[r] = result[r]
    BY <1>2, <1>4 DEF LoadUid, CallStep, StoreUid, FindSlot, RefuseCall, FillUid, FillSem,
       Enqueue, PostTxSem, FindMySlot, LoseSlot, TakeSem, Expire, DestroySem, ClearUid,
       ClearSem, FetchResponse, GoTo
  <2> QED
    BY <1>1, <2>1 DEF GaveUp
<1>5. CASE LoadUid(r) \/ CallStep(r)
  <2>1. DestroySem(r) \/ ClearUid(r) \/ ClearSem(r)
    BY <1>1, <1>5 DEF LoadUid, CallStep, StoreUid, FindSlot, RefuseCall, FillUid, FillSem,
       Enqueue, PostTxSem, FindMySlot, LoseSlot, TakeSem, Expire, FetchResponse
  <2>2. CASE DestroySem(r)
    <3>1. pc[r] = "expired"
      BY <1>1, <2>2 DEF DestroySem
    <3>2. syncTab[slot[r]] = EntryOf(r)
      BY <3>1, Zenon DEF SoloSlots, OwnSlot, SlotLabels
    <3>3. syncTab[slot[r]].sem # NoReq
      BY <1>2, <3>1, <3>2, RequestsAssumption DEF EntryOf
    <3>4. pc'[r] = "giveup"
      BY <1>2, <2>2, <3>1, <3>3 DEF DestroySem, GoTo
    <3> QED
      BY <3>4 DEF GaveUp
  <2>3. CASE ClearUid(r)
    <3>1. pc'[r] = "forget"
      BY <1>1, <1>2, <2>3 DEF ClearUid, GoTo
    <3> QED
      BY <3>1 DEF GaveUp
  <2>4. CASE ClearSem(r)
    <3>1. pc[r] = "forget" /\ pc'[r] = "done" /\ result' = result
      BY <1>1, <1>2, <2>4 DEF ClearSem, GoTo
    <3>2. result[r] = NoElem
      BY <1>2, <3>1 DEF NoResultYet
    <3> QED
      BY <3>1, <3>2 DEF GaveUp
  <2> QED
    BY <2>1, <2>2, <2>3, <2>4
<1>6. CASE TxStep \/ RxStep \/ SlaveDrops \/ RpcStart \/ UNCHANGED vars
             \/ \E q \in Reqs : TimerFires(q)
  BY <1>3, <1>6 DEF TxStep, TxTake, TxDequeue, TxCompose, TxComposeFails, TxTimerFails,
     TxRegister, TxSetCb, TxRefuse, TxSend, TxSendFails, TxPutFailure, TxNotify, TxStarve,
     TxCleanup, RxStep, RxTake, RxCallback, RxStopTimer, RxClearUid, RxClearCb, RxPut, RxFind,
     RxPost, SlaveDrops, RpcStart, TimerFires, vars, callers
<1> QED
  BY <1>4, <1>5, <1>6 DEF Next

LEMMA SoloStep ==
  ASSUME ~GaveUp, ~GaveUp', TypeOK, Places, SoloSlots, Solo, [Next]_vars
  PROVE  Solo'
<1> USE DEF Solo
<1>1. CASE \E r \in Reqs : LoadUid(r) \/ CallStep(r)
  BY <1>1, CallsWaitCallStep, SyncLastCallStep, SyncPathCallStep, AsyncKnownCallStep
<1>2. CASE TxStep
  BY <1>2, CallsWaitTxStep, SyncLastTxStep, SyncPathTxStep, AsyncKnownTxStep
<1>3. CASE RxStep \/ SlaveDrops
  BY <1>3, CallsWaitRxStep, SyncLastRxStep, SyncPathRxStep, AsyncKnownRxStep
<1>4. CASE RpcStart \/ UNCHANGED vars \/ \E r \in Reqs : TimerFires(r)
  BY <1>4, SoloStutter
<1> QED
  BY <1>1, <1>2, <1>3, <1>4 DEF Next

\* What a call returned answers that call.
LEMMA ResultStep ==
  ASSUME TypeOK, SoloSlots, Solo, ResponseMatchesRequest, [Next]_vars
  PROVE  ResponseMatchesRequest'
<1>1. ASSUME NEW s \in Reqs, FetchResponse(s) PROVE ResponseMatchesRequest'
  <2>1. s \in SyncReqs
    BY <1>1, SoloType DEF FetchResponse
  <2>2. Head(rxq).req = s
    BY <1>1, <2>1, HeadIsMine DEF Solo
  <2>3. result' = [result EXCEPT ![s] = Head(rxq)] /\ result \in [Reqs -> Elem]
    BY <1>1, SoleType DEF FetchResponse
  <2> QED
    BY <2>1, <2>2, <2>3 DEF ResponseMatchesRequest, Reqs
<1>2. ASSUME \A s \in Reqs : ~FetchResponse(s) PROVE ResponseMatchesRequest'
  <2>1. result' = result
    BY <1>2 DEF Next, CallStep, LoadUid, StoreUid, FindSlot, RefuseCall, FillUid, FillSem,
       Enqueue, PostTxSem, FindMySlot, LoseSlot, TakeSem, Expire, DestroySem, ClearUid,
       ClearSem, TxStep, TxTake, TxDequeue, TxCompose, TxComposeFails, TxTimerFails,
       TxRegister, TxSetCb, TxRefuse, TxSend, TxSendFails, TxPutFailure, TxNotify, TxStarve,
       TxCleanup, RxStep, RxTake, RxCallback, RxStopTimer, RxClearUid, RxClearCb, RxPut,
       RxFind, RxPost, SlaveDrops, RpcStart, TimerFires, vars, callers
  <2> QED
    BY <2>1 DEF ResponseMatchesRequest
<1> QED
  BY <1>1, <1>2

\* The inductive invariant: as long as no two calls were open at once and none has
\* ended without its response, every response is where its call will find it.
StrayInv ==
    /\ Places /\ NoResultYet
    /\ overlapped \/ SoloSlots
    /\ overlapped \/ GaveUp \/ (Solo /\ ResponseMatchesRequest)

LEMMA StrayInvStep ==
  ASSUME TypeOK, StrayInv, Places', [Next]_vars
  PROVE  StrayInv'
<1>1. overlapped => overlapped'
  BY OverlapStays
<1>2. NoResultYet' /\ (overlapped' \/ SoloSlots')
  BY NoResultYetStep, SoloSlotsStep DEF StrayInv
<1>3. overlapped' \/ GaveUp' \/ (Solo' /\ ResponseMatchesRequest')
  <2> SUFFICES ASSUME ~overlapped', ~GaveUp' PROVE Solo' /\ ResponseMatchesRequest'
    OBVIOUS
  <2>1. ~overlapped /\ SoloSlots /\ ~GaveUp
    BY <1>1, GaveUpStays DEF StrayInv
  <2>2. Solo /\ ResponseMatchesRequest
    BY <2>1 DEF StrayInv
  <2> QED
    BY <2>1, <2>2, SoloStep, ResultStep DEF StrayInv
<1> QED
  BY <1>2, <1>3 DEF StrayInv

(***************************************************************************)
(* The only ways a response can be left in rpc_rx_q for nobody, or given   *)
(* to another call than its own, are two calls open at the same time and a *)
(* call that ended without its response: for any number of tasks, any      *)
(* sizes of the queues and tables, any wrap of uid, any timeouts, failures *)
(* and lost answers, and although get_response never looks at the uid.     *)
(***************************************************************************)
THEOREM StrayResponseExplainedHolds == Spec => []StrayResponseExplained
<1>1. Init => StrayInv
  BY PlacesInit, SoloSlotsInit, SoloInit
     DEF Init, StrayInv, NoResultYet, ResponseMatchesRequest, Reqs
<1>2. TypeOK /\ StrayInv /\ Places' /\ [Next]_vars => StrayInv'
  BY StrayInvStep
<1>3. TypeOK /\ StrayInv => StrayResponseExplained
  <2> SUFFICES ASSUME TypeOK, StrayInv, ~overlapped, ~GaveUp PROVE ResponsesMatch
    BY DEF StrayResponseExplained
  <2>1. SoloSlots /\ Solo /\ ResponseMatchesRequest
    BY DEF StrayInv
  <2>2. ASSUME NEW i \in DOMAIN rxq PROVE rxq[i].req \in OpenCalls \cap SyncReqs
    <3>1. rxq[i].req \in SyncReqs
      BY <2>1 DEF Solo, SyncPath
    <3>2. Carried(rxq[i].req, rxq)
      BY DEF Carried
    <3> QED
      BY <2>1, <3>1, <3>2 DEF Solo, CallsWait, CallWaits
  <2> QED
    BY <2>1, <2>2 DEF ResponsesMatch
<1> QED
  BY <1>1, <1>2, <1>3, TypeCorrect, PlacesHold, PTL DEF Spec
=============================================================================

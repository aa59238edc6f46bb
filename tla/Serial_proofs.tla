----------------------------- MODULE Serial_proofs -----------------------------
(* Theorems about Serial.                                                   *)
EXTENDS Serial, LinkLemmas

\* serial_write_data is entered with a message to send.
Sending ==
    /\ psPc = "send" => reply # << >>
    /\ psPc = "event" => arg.data # << >>
    /\ \A i \in 1..Len(reqQ) : reqQ[i].kind = "evt" => reqQ[i].data # << >>

IInv == TypeOK /\ NoOverrun /\ Sending

-----------------------------------------------------------------------------
(* Fragments and messages. *)

LEMMA FragmentInType ==
  ASSUME NEW kind \in Kinds, NEW n \in Nat, NEW i \in Nat
  PROVE  Fragment(kind, n, i) \in FragmentType
  BY DEF Fragment, FragmentType

LEMMA WholeInSeq ==
  ASSUME NEW kind \in Kinds, NEW n \in Nat
  PROVE  Whole(kind, n) \in Seq(FragmentType) /\ Whole(kind, n) # << >>
<1>1. Frags[kind] \in Nat \ {0}
  BY SizesAssumption
<1>2. \A i \in 1..Frags[kind] : Fragment(kind, n, i) \in FragmentType
  BY <1>1, FragmentInType
<1>3. Whole(kind, n) \in [1..Frags[kind] -> FragmentType]
  BY <1>2 DEF Whole
<1>4. Whole(kind, n) \in Seq(FragmentType) /\ Len(Whole(kind, n)) = Frags[kind]
  BY <1>1, <1>3
<1> QED
  BY <1>1, <1>4

LEMMA LeastInNat ==
  ASSUME NEW a \in Nat, NEW b \in Nat
  PROVE  Least(a, b) \in Nat /\ Least(a, b) <= a /\ Least(a, b) <= b
  BY DEF Least

LEMMA PrefixInSeq ==
  ASSUME NEW s \in Seq(FragmentType), NEW n \in Nat, n <= Len(s)
  PROVE  SubSeq(s, 1, n) \in Seq(FragmentType)
  OBVIOUS

LEMMA Appended ==
  ASSUME NEW S, NEW s \in Seq(S), NEW e \in S
  PROVE  /\ Append(s, e) \in Seq(S) /\ Len(Append(s, e)) = Len(s) + 1
         /\ Append(s, e) # << >>
         /\ \A i \in 1..(Len(s) + 1) :
                Append(s, e)[i] = IF i = Len(s) + 1 THEN e ELSE s[i]
<1>1. Append(s, e) \in Seq(S) /\ Len(Append(s, e)) = Len(s) + 1
  OBVIOUS
<1>2. \A i \in 1..(Len(s) + 1) : Append(s, e)[i] = IF i = Len(s) + 1 THEN e ELSE s[i]
  OBVIOUS
<1>3. Append(s, e) # << >>
  <2>1. Len(Append(s, e)) > 0
    BY <1>1
  <2>2. Len(<< >>) = 0
    OBVIOUS
  <2> QED
    BY <2>1, <2>2
<1> QED
  BY <1>1, <1>2, <1>3

LEMMA Taken ==
  ASSUME NEW S, NEW s \in Seq(S), s # << >>
  PROVE  /\ Head(s) \in S /\ Head(s) = s[1]
         /\ Tail(s) \in Seq(S) /\ Len(Tail(s)) = Len(s) - 1
         /\ \A i \in 1..Len(Tail(s)) : Tail(s)[i] = s[i + 1]
  OBVIOUS

LEMMA BufferInSeq ==
  ASSUME NEW data \in [1..BufferSize -> FragmentType]
  PROVE  data \in Seq(FragmentType) /\ Len(data) = BufferSize
  BY SizesAssumption

-----------------------------------------------------------------------------
LEMMA InitIInv == Init => IInv
<1> SUFFICES ASSUME Init PROVE IInv
  OBVIOUS
<1>1. NoFragment \in FragmentType
  BY FragmentInType DEF NoFragment, Kinds
<1>2. [i \in 1..BufferSize |-> NoFragment] \in [1..BufferSize -> FragmentType]
  BY <1>1
<1>3. HostTxOK /\ HostRxOK /\ PserialOK
  BY SizesAssumption, BoundsAssumption DEF Init, HostTxOK, HostRxOK, PserialOK, NoArg, ReqArg
<1>4. RecvOK
  <2>1. 0 \in 0..BufferSize /\ {rem, lenRead} \subseteq 0..BufferSize
    BY SizesAssumption DEF Init
  <2>2. r \in [valid : BOOLEAN, len : 0..BufferSize, data : [1..BufferSize -> FragmentType]]
    BY <1>2, <2>1 DEF Init
  <2> QED
    BY <1>1, <2>1, <2>2 DEF Init, RecvOK
<1> QED
  BY <1>3, <1>4, SizesAssumption DEF Init, IInv, TypeOK, NoOverrun, Sending

-----------------------------------------------------------------------------
(* Each action preserves each part of IInv. *)

\* serial_ll_write, and the senders of events.
LEMMA HostTxIInv ==
  ASSUME IInv, HostWrite \/ HostFragment \/ SendEvent
  PROVE  IInv'
<1> USE SizesAssumption, BoundsAssumption DEF hostTx, hostRx, rpcRx, recvTask, pserial, IInv, TypeOK
<1>1. CASE HostWrite
  <2>1. HostTxOK'
    BY <1>1, WholeInSeq DEF HostWrite, HostTxOK, Kinds
  <2>2. HostRxOK'
    BY <1>1 DEF HostWrite, HostRxOK
  <2>3. RecvOK'
    BY <1>1 DEF HostWrite, RecvOK
  <2>4. PserialOK'
    BY <1>1 DEF HostWrite, PserialOK
  <2>5. NoOverrun'
    BY <1>1 DEF HostWrite, NoOverrun, RecvOK
  <2>6. Sending'
    BY <1>1 DEF HostWrite, Sending, PserialOK
  <2> QED
    BY <2>1, <2>2, <2>3, <2>4, <2>5, <2>6
<1>2. CASE HostFragment
  <2>1. HostTxOK'
    BY <1>2 DEF HostFragment, HostTxOK
  <2>2. HostRxOK'
    BY <1>2 DEF HostFragment, HostRxOK
  <2>3. RecvOK'
    BY <1>2 DEF HostFragment, RecvOK
  <2>4. PserialOK'
    BY <1>2 DEF HostFragment, PserialOK
  <2>5. NoOverrun'
    BY <1>2 DEF HostFragment, NoOverrun, RecvOK
  <2>6. Sending'
    BY <1>2 DEF HostFragment, Sending, PserialOK
  <2> QED
    BY <2>1, <2>2, <2>3, <2>4, <2>5, <2>6
<1>3. CASE SendEvent
  <2>1. HostTxOK'
    BY <1>3 DEF SendEvent, HostTxOK
  <2>2. HostRxOK'
    BY <1>3 DEF SendEvent, HostRxOK
  <2>3. RecvOK'
    BY <1>3 DEF SendEvent, RecvOK
  <2>4. PserialOK'
    <3>1. events + 1 \in Nat /\ "evt" \in Kinds
      BY DEF PserialOK, Kinds
    <3>2. [kind |-> "evt", data |-> Whole("evt", events + 1)] \in ReqArg
      BY <3>1, WholeInSeq DEF ReqArg
    <3>3. reqQ' \in Seq(ReqArg) /\ Len(reqQ') <= ReqQSize
      BY <1>3, <3>2, Appended DEF SendEvent, PserialOK
    <3> QED
      BY <1>3, <3>3 DEF SendEvent, PserialOK
  <2>5. NoOverrun'
    BY <1>3 DEF SendEvent, NoOverrun, RecvOK
  <2>6. Sending'
    <3>1. [kind |-> "evt", data |-> Whole("evt", events + 1)] \in ReqArg
          /\ Whole("evt", events + 1) # << >>
      <4>1. events + 1 \in Nat /\ "evt" \in Kinds
        BY DEF PserialOK, Kinds
      <4> QED
        BY <4>1, WholeInSeq DEF ReqArg
    <3> QED
      BY <1>3, <3>1, Appended DEF SendEvent, Sending, PserialOK
  <2> QED
    BY <2>1, <2>2, <2>3, <2>4, <2>5, <2>6
<1> QED
  BY <1>1, <1>2, <1>3

\* recv_task.
LEMMA RecvIInv ==
  ASSUME IInv, RecvTask
  PROVE  IInv'
<1> USE SizesAssumption, BoundsAssumption DEF hostTx, hostRx, rpcRx, recvTask, pserial, IInv, TypeOK
<1>1. CASE RecvTake
  <2>1. HostTxOK'
    BY <1>1 DEF RecvTake, HostTxOK
  <2>2. HostRxOK'
    BY <1>1 DEF RecvTake, HostRxOK
  <2>3. RecvOK'
    <3>1. recvFrag' \in FragmentType
      BY <1>1, Taken DEF RecvTake, HostTxOK
    <3> QED
      BY <1>1, <3>1 DEF RecvTake, RecvOK, Room
  <2>4. PserialOK'
    BY <1>1 DEF RecvTake, PserialOK
  <2>5. NoOverrun'
    BY <1>1 DEF RecvTake, NoOverrun, RecvOK, Room
  <2>6. Sending'
    BY <1>1 DEF RecvTake, Sending, PserialOK
  <2> QED
    BY <2>1, <2>2, <2>3, <2>4, <2>5, <2>6
<1>2. CASE RecvCopy
  <2>1. HostTxOK'
    BY <1>2 DEF RecvCopy, HostTxOK
  <2>2. HostRxOK'
    BY <1>2 DEF RecvCopy, HostRxOK
  <2>3. RecvOK'
    BY <1>2 DEF RecvCopy, RecvOK, NoOverrun, Copied, Least
  <2>4. PserialOK'
    BY <1>2 DEF RecvCopy, PserialOK
  <2>5. NoOverrun'
    BY <1>2 DEF RecvCopy, NoOverrun, RecvOK, Copied
  <2>6. Sending'
    BY <1>2 DEF RecvCopy, Sending, PserialOK
  <2> QED
    BY <2>1, <2>2, <2>3, <2>4, <2>5, <2>6
<1>6. CASE RecvLoad
  <2>1. HostTxOK'
    BY <1>6 DEF RecvLoad, HostTxOK
  <2>2. HostRxOK'
    BY <1>6 DEF RecvLoad, HostRxOK
  <2>3. RecvOK'
    BY <1>6 DEF RecvLoad, RecvOK
  <2>4. PserialOK'
    BY <1>6 DEF RecvLoad, PserialOK
  <2>5. NoOverrun'
    BY <1>6 DEF RecvLoad, NoOverrun, RecvOK
  <2>6. Sending'
    BY <1>6 DEF RecvLoad, Sending, PserialOK
  <2> QED
    BY <2>1, <2>2, <2>3, <2>4, <2>5, <2>6
<1>3. CASE RecvGrow
  <2>1. HostTxOK'
    BY <1>3 DEF RecvGrow, HostTxOK
  <2>2. HostRxOK'
    BY <1>3 DEF RecvGrow, HostRxOK
  <2>3. RecvOK'
    <3>1. Copied \in Nat /\ Copied <= rem
      BY LeastInNat DEF RecvOK, Copied
    <3>2. lenRead + Copied \in 0..BufferSize
      BY <1>3, <3>1 DEF RecvGrow, RecvOK, NoOverrun
    <3> QED
      BY <1>3, <3>2 DEF RecvGrow, RecvOK
  <2>4. PserialOK'
    BY <1>3 DEF RecvGrow, PserialOK
  <2>5. NoOverrun'
    BY <1>3 DEF RecvGrow, NoOverrun, RecvOK, Copied
  <2>6. Sending'
    BY <1>3 DEF RecvGrow, Sending, PserialOK
  <2> QED
    BY <2>1, <2>2, <2>3, <2>4, <2>5, <2>6
<1>4. CASE RecvValid
  <2>1. HostTxOK'
    BY <1>4 DEF RecvValid, HostTxOK
  <2>2. HostRxOK'
    BY <1>4 DEF RecvValid, HostRxOK
  <2>3. RecvOK'
    BY <1>4 DEF RecvValid, RecvOK
  <2>4. PserialOK'
    BY <1>4 DEF RecvValid, PserialOK
  <2>5. NoOverrun'
    BY <1>4 DEF RecvValid, NoOverrun, RecvOK
  <2>6. Sending'
    BY <1>4 DEF RecvValid, Sending, PserialOK
  <2> QED
    BY <2>1, <2>2, <2>3, <2>4, <2>5, <2>6
<1>5. CASE RecvParse
  <2>1. HostTxOK'
    BY <1>5 DEF RecvParse, HostTxOK
  <2>2. HostRxOK'
    BY <1>5 DEF RecvParse, HostRxOK
  <2>3. RecvOK'
    BY <1>5 DEF RecvParse, RecvOK
  <2>4. PserialOK'
    <3>1. SubSeq(r.data, 1, r.len) \in Seq(FragmentType)
      BY PrefixInSeq, BufferInSeq DEF RecvOK
    <3>2. [kind |-> "req", data |-> SubSeq(r.data, 1, r.len)] \in ReqArg
      BY <3>1 DEF ReqArg
    <3>3. reqQ' \in Seq(ReqArg) /\ Len(reqQ') <= ReqQSize
      BY <1>5, <3>2, Appended DEF RecvParse, PserialOK
    <3> QED
      BY <1>5, <3>3 DEF RecvParse, PserialOK
  <2>5. NoOverrun'
    BY <1>5 DEF RecvParse, NoOverrun, RecvOK
  <2>6. Sending'
    <3>1. SubSeq(r.data, 1, r.len) \in Seq(FragmentType)
      BY PrefixInSeq, BufferInSeq DEF RecvOK
    <3>2. [kind |-> "req", data |-> SubSeq(r.data, 1, r.len)] \in ReqArg
      BY <3>1 DEF ReqArg
    <3> QED
      BY <1>5, <3>2, Appended DEF RecvParse, Sending, PserialOK
  <2> QED
    BY <2>1, <2>2, <2>3, <2>4, <2>5, <2>6
<1> QED
  BY <1>1, <1>2, <1>3, <1>4, <1>5, <1>6 DEF RecvTask

\* The answer to a request is a message.
LEMMA AnswerInSeq ==
  ASSUME PserialOK, PsHandle
  PROVE  /\ reply' \in Seq(FragmentType) /\ (psPc' = "send" => reply' # << >>)
         /\ replied' \in Nat
<1>1. replied + 1 \in Nat /\ "rsp" \in Kinds
  BY DEF PserialOK, Kinds
<1>2. Whole("rsp", replied + 1) \in Seq(FragmentType) /\ Whole("rsp", replied + 1) # << >>
  BY <1>1, WholeInSeq
<1>3. CASE \E n \in 1..MaxRequests : arg.data = Whole("req", n)
  BY <1>1, <1>2, <1>3 DEF PsHandle
<1>4. CASE ~\E n \in 1..MaxRequests : arg.data = Whole("req", n)
  BY <1>4 DEF PsHandle, PserialOK
<1> QED
  BY <1>3, <1>4

\* pserial_task.
LEMMA PserialIInv ==
  ASSUME IInv, PserialTask
  PROVE  IInv'
<1> USE SizesAssumption, BoundsAssumption DEF hostTx, hostRx, rpcRx, recvTask, pserial, IInv, TypeOK
<1>1. CASE PsTake
  <2>1. HostTxOK'
    BY <1>1 DEF PsTake, HostTxOK
  <2>2. HostRxOK'
    BY <1>1 DEF PsTake, HostRxOK
  <2>3. RecvOK'
    BY <1>1 DEF PsTake, RecvOK
  <2>4. PserialOK'
    <3>1. arg' \in ReqArg /\ reqQ' \in Seq(ReqArg) /\ Len(reqQ') <= ReqQSize
      BY <1>1, Taken DEF PsTake, PserialOK
    <3> QED
      BY <1>1, <3>1 DEF PsTake, PserialOK, ReqArg
  <2>5. NoOverrun'
    BY <1>1 DEF PsTake, NoOverrun, RecvOK
  <2>6. Sending'
    <3>1. \A i \in 1..Len(reqQ') : reqQ'[i] = reqQ[i + 1] /\ i + 1 \in 1..Len(reqQ)
      BY <1>1, Taken DEF PsTake, PserialOK
    <3>2. arg' = reqQ[1] /\ 1 \in 1..Len(reqQ)
      BY <1>1, Taken DEF PsTake, PserialOK
    <3> QED
      BY <1>1, <3>1, <3>2 DEF PsTake, Sending, PserialOK
  <2> QED
    BY <2>1, <2>2, <2>3, <2>4, <2>5, <2>6
<1>2. CASE PsRead
  <2>1. HostTxOK'
    BY <1>2 DEF PsRead, HostTxOK
  <2>2. HostRxOK'
    BY <1>2 DEF PsRead, HostRxOK
  <2>3. RecvOK'
    BY <1>2 DEF PsRead, RecvOK
  <2>4. PserialOK'
    <3>1. arg.data \in Seq(FragmentType) /\ r.len \in Nat /\ r.len <= BufferSize
      BY DEF PserialOK, RecvOK
    <3> DEFINE len == Least(Len(arg.data), r.len)
    <3>2. len \in Nat /\ len <= Len(arg.data) /\ len <= BufferSize
      <4>1. Len(arg.data) \in Nat
        BY <3>1
      <4>2. len \in Nat /\ len <= Len(arg.data) /\ len <= r.len
        BY <3>1, <4>1, LeastInNat
      <4> QED
        BY <3>1, <4>2, SizesAssumption
    <3>3. r.data \in Seq(FragmentType) /\ Len(r.data) = BufferSize
      BY BufferInSeq DEF RecvOK
    <3>4. SubSeq(r.data, 1, len) \in Seq(FragmentType)
      BY <3>2, <3>3, PrefixInSeq
    <3>5. SubSeq(arg.data, 1, len) \in Seq(FragmentType)
      BY <3>1, <3>2, PrefixInSeq
    <3>6. arg' = [arg EXCEPT !.data = SubSeq(IF r.valid THEN r.data ELSE arg.data, 1, len)]
      BY <1>2 DEF PsRead
    <3>7. SubSeq(IF r.valid THEN r.data ELSE arg.data, 1, len) \in Seq(FragmentType)
      BY <3>4, <3>5
    <3>8. arg' \in [kind : {"none", "req", "evt"}, data : Seq(FragmentType)]
      BY <3>6, <3>7 DEF PserialOK
    <3> QED
      BY <1>2, <3>8 DEF PsRead, PserialOK
  <2>5. NoOverrun'
    BY <1>2 DEF PsRead, NoOverrun, RecvOK
  <2>6. Sending'
    BY <1>2 DEF PsRead, Sending, PserialOK
  <2> QED
    BY <2>1, <2>2, <2>3, <2>4, <2>5, <2>6
<1>3. CASE PsClearValid
  <2>1. HostTxOK'
    BY <1>3 DEF PsClearValid, HostTxOK
  <2>2. HostRxOK'
    BY <1>3 DEF PsClearValid, HostRxOK
  <2>3. RecvOK'
    BY <1>3 DEF PsClearValid, RecvOK
  <2>4. PserialOK'
    BY <1>3 DEF PsClearValid, PserialOK
  <2>5. NoOverrun'
    BY <1>3 DEF PsClearValid, NoOverrun, RecvOK
  <2>6. Sending'
    BY <1>3 DEF PsClearValid, Sending, PserialOK
  <2> QED
    BY <2>1, <2>2, <2>3, <2>4, <2>5, <2>6
<1>4. CASE PsClearLen
  <2>1. HostTxOK'
    BY <1>4 DEF PsClearLen, HostTxOK
  <2>2. HostRxOK'
    BY <1>4 DEF PsClearLen, HostRxOK
  <2>3. RecvOK'
    <3>1. r' \in [valid : BOOLEAN, len : 0..BufferSize, data : [1..BufferSize -> FragmentType]]
      BY <1>4 DEF PsClearLen, RecvOK
    <3>2. UNCHANGED <<recvPc, recvFrag, rem, lenRead, crowded>>
      BY <1>4 DEF PsClearLen
    <3>3. RecvOK
      OBVIOUS
    <3> HIDE DEF IInv, TypeOK
    <3> QED
      BY <3>1, <3>2, <3>3 DEF RecvOK
  <2>4. PserialOK'
    BY <1>4 DEF PsClearLen, PserialOK
  <2>5. NoOverrun'
    BY <1>4 DEF PsClearLen, NoOverrun, RecvOK
  <2>6. Sending'
    BY <1>4 DEF PsClearLen, Sending, PserialOK
  <2> QED
    BY <2>1, <2>2, <2>3, <2>4, <2>5, <2>6
<1>5. CASE PsHandle
  <2>1. HostTxOK'
    BY <1>5 DEF PsHandle, HostTxOK
  <2>2. HostRxOK'
    BY <1>5 DEF PsHandle, HostRxOK
  <2>3. RecvOK'
    BY <1>5 DEF PsHandle, RecvOK
  <2>4. PserialOK'
    <3>1. reply' \in Seq(FragmentType)
      BY <1>5, AnswerInSeq DEF PserialOK
    <3>2. replied' \in Nat /\ handled' \in Nat
      BY <1>5, AnswerInSeq DEF PsHandle, PserialOK
    <3>3. arg' = NoArg /\ psPc' \in {"send", "idle"} /\ UNCHANGED <<reqQ, events>>
      BY <1>5 DEF PsHandle
    <3> QED
      BY <3>1, <3>2, <3>3 DEF PserialOK, NoArg
  <2>5. NoOverrun'
    BY <1>5 DEF PsHandle, NoOverrun, RecvOK
  <2>6. Sending'
    BY <1>5, AnswerInSeq DEF PsHandle, Sending
  <2> QED
    BY <2>1, <2>2, <2>3, <2>4, <2>5, <2>6
<1>6. CASE PsEvent
  <2>1. HostTxOK'
    BY <1>6 DEF PsEvent, HostTxOK
  <2>2. HostRxOK'
    BY <1>6 DEF PsEvent, HostRxOK
  <2>3. RecvOK'
    BY <1>6 DEF PsEvent, RecvOK
  <2>4. PserialOK'
    BY <1>6 DEF PsEvent, PserialOK, NoArg
  <2>5. NoOverrun'
    BY <1>6 DEF PsEvent, NoOverrun, RecvOK
  <2>6. Sending'
    BY <1>6 DEF PsEvent, Sending, PserialOK
  <2> QED
    BY <2>1, <2>2, <2>3, <2>4, <2>5, <2>6
<1>7. CASE PsSend
  <2>1. HostTxOK'
    BY <1>7 DEF PsSend, HostTxOK
  <2>2. HostRxOK'
    <3>1. toHost' \in Seq(FragmentType)
      BY <1>7, Taken, Appended DEF PsSend, Sending, PserialOK, HostRxOK
    <3> QED
      BY <1>7, <3>1 DEF PsSend, HostRxOK
  <2>3. RecvOK'
    BY <1>7 DEF PsSend, RecvOK
  <2>4. PserialOK'
    <3>1. reply' \in Seq(FragmentType)
      BY <1>7, Taken DEF PsSend, Sending, PserialOK
    <3> QED
      BY <1>7, <3>1 DEF PsSend, PserialOK
  <2>5. NoOverrun'
    BY <1>7 DEF PsSend, NoOverrun, RecvOK
  <2>6. Sending'
    BY <1>7 DEF PsSend, Sending, PserialOK
  <2> QED
    BY <2>1, <2>2, <2>3, <2>4, <2>5, <2>6
<1> QED
  BY <1>1, <1>2, <1>3, <1>4, <1>5, <1>6, <1>7 DEF PserialTask

\* The bus driver's rx task and rpc_rx.
LEMMA HostRxIInv ==
  ASSUME IInv, HostRxTask \/ RpcRx
  PROVE  IInv'
<1> USE SizesAssumption, BoundsAssumption DEF hostTx, hostRx, rpcRx, recvTask, pserial, IInv, TypeOK
<1>1. CASE HostTake
  <2>1. HostTxOK'
    BY <1>1 DEF HostTake, HostTxOK
  <2>2. HostRxOK'
    <3>1. Head(toHost) \in FragmentType /\ toHost' \in Seq(FragmentType)
      BY <1>1, Taken DEF HostTake, HostRxOK
    <3> DEFINE message == Append(accumulated, Head(toHost))
    <3>2. message \in Seq(FragmentType)
      BY <3>1, Appended DEF HostRxOK
    <3>3. CASE IsLast(Head(toHost))
      <4>1. accumulated' = << >> /\ hostMsg' = message /\ hostPc' = "put"
        BY <1>1, <3>3 DEF HostTake
      <4> QED
        BY <1>1, <3>1, <3>2, <4>1 DEF HostTake, HostRxOK
    <3>4. CASE ~IsLast(Head(toHost))
      <4>1. accumulated' = message /\ UNCHANGED <<hostMsg, hostPc>>
        BY <1>1, <3>4 DEF HostTake
      <4>2. \A i \in DOMAIN message : ~IsLast(message[i])
        <5>1. \A i \in DOMAIN accumulated : ~IsLast(accumulated[i])
          BY DEF HostRxOK
        <5>2. accumulated \in Seq(FragmentType)
          BY DEF HostRxOK
        <5>3. ASSUME NEW i \in 1..(Len(accumulated) + 1)
              PROVE  ~IsLast(message[i])
          <6>1. message[i] = IF i = Len(accumulated) + 1 THEN Head(toHost) ELSE accumulated[i]
            BY <3>1, <5>2, Appended
          <6>2. i # Len(accumulated) + 1 => i \in DOMAIN accumulated
            BY <5>2
          <6> HIDE DEF message
          <6> QED
            BY <3>4, <5>1, <6>1, <6>2, Zenon
        <5>4. DOMAIN message = 1..(Len(accumulated) + 1)
          BY <3>1, <5>2
        <5> QED
          BY <5>3, <5>4, Zenon
      <4> QED
        BY <1>1, <3>1, <3>2, <4>1, <4>2 DEF HostTake, HostRxOK
    <3> QED
      BY <3>3, <3>4
  <2>3. RecvOK'
    BY <1>1 DEF HostTake, RecvOK
  <2>4. PserialOK'
    BY <1>1 DEF HostTake, PserialOK
  <2>5. NoOverrun'
    BY <1>1 DEF HostTake, NoOverrun, RecvOK
  <2>6. Sending'
    BY <1>1 DEF HostTake, Sending, PserialOK
  <2> QED
    BY <2>1, <2>2, <2>3, <2>4, <2>5, <2>6
<1>2. CASE HostPut
  <2>1. HostTxOK'
    BY <1>2 DEF HostPut, HostTxOK
  <2>2. HostRxOK'
    BY <1>2 DEF HostPut, HostRxOK
  <2>3. RecvOK'
    BY <1>2 DEF HostPut, RecvOK
  <2>4. PserialOK'
    BY <1>2 DEF HostPut, PserialOK
  <2>5. NoOverrun'
    BY <1>2 DEF HostPut, NoOverrun, RecvOK
  <2>6. Sending'
    BY <1>2 DEF HostPut, Sending, PserialOK
  <2> QED
    BY <2>1, <2>2, <2>3, <2>4, <2>5, <2>6
<1>3. CASE HostSignal
  <2>1. HostTxOK'
    BY <1>3 DEF HostSignal, HostTxOK
  <2>2. HostRxOK'
    BY <1>3, LeastInNat DEF HostSignal, HostRxOK, PostRead, Least
  <2>3. RecvOK'
    BY <1>3 DEF HostSignal, RecvOK
  <2>4. PserialOK'
    BY <1>3 DEF HostSignal, PserialOK
  <2>5. NoOverrun'
    BY <1>3 DEF HostSignal, NoOverrun, RecvOK
  <2>6. Sending'
    BY <1>3 DEF HostSignal, Sending, PserialOK
  <2> QED
    BY <2>1, <2>2, <2>3, <2>4, <2>5, <2>6
<1>4. CASE RxWait
  <2>1. HostTxOK'
    BY <1>4 DEF RxWait, HostTxOK
  <2>2. HostRxOK'
    BY <1>4 DEF RxWait, HostRxOK
  <2>3. RecvOK'
    BY <1>4 DEF RxWait, RecvOK
  <2>4. PserialOK'
    BY <1>4 DEF RxWait, PserialOK
  <2>5. NoOverrun'
    BY <1>4 DEF RxWait, NoOverrun, RecvOK
  <2>6. Sending'
    BY <1>4 DEF RxWait, Sending, PserialOK
  <2> QED
    BY <2>1, <2>2, <2>3, <2>4, <2>5, <2>6
<1>5. CASE RxRead
  <2>1. HostTxOK'
    BY <1>5 DEF RxRead, HostTxOK
  <2>2. HostRxOK'
    BY <1>5 DEF RxRead, HostRxOK
  <2>3. RecvOK'
    BY <1>5 DEF RxRead, RecvOK
  <2>4. PserialOK'
    BY <1>5 DEF RxRead, PserialOK
  <2>5. NoOverrun'
    BY <1>5 DEF RxRead, NoOverrun, RecvOK
  <2>6. Sending'
    BY <1>5 DEF RxRead, Sending, PserialOK
  <2> QED
    BY <2>1, <2>2, <2>3, <2>4, <2>5, <2>6
<1>6. CASE RxProcess
  <2>1. HostTxOK'
    BY <1>6 DEF RxProcess, HostTxOK
  <2>2. HostRxOK'
    <3>1. UNCHANGED <<accumulated, hostPc, hostMsg, serialQ, readSem, toHost>>
      BY <1>6 DEF RxProcess
    <3>2. /\ rxMsg' = << >> /\ rxPc' = "wait"
          /\ answers' \in {answers, answers + 1} /\ eventsRead' \in {eventsRead, eventsRead + 1}
      BY <1>6 DEF RxProcess
    <3>3. rxMsg' \in Seq(FragmentType) /\ answers' \in Nat /\ eventsRead' \in Nat
      BY <3>2 DEF HostRxOK
    <3> QED
      BY <3>1, <3>2, <3>3 DEF HostRxOK
  <2>3. RecvOK'
    BY <1>6 DEF RxProcess, RecvOK
  <2>4. PserialOK'
    BY <1>6 DEF RxProcess, PserialOK
  <2>5. NoOverrun'
    BY <1>6 DEF RxProcess, NoOverrun, RecvOK
  <2>6. Sending'
    BY <1>6 DEF RxProcess, Sending, PserialOK
  <2> QED
    BY <2>1, <2>2, <2>3, <2>4, <2>5, <2>6
<1> QED
  BY <1>1, <1>2, <1>3, <1>4, <1>5, <1>6 DEF HostRxTask, RpcRx

LEMMA StutterIInv == IInv /\ UNCHANGED vars => IInv'
<1> SUFFICES ASSUME IInv, UNCHANGED vars PROVE IInv'
  OBVIOUS
<1> USE DEF vars, hostTx, hostRx, rpcRx, recvTask, pserial, IInv, TypeOK
<1>1. HostTxOK'
  BY DEF HostTxOK
<1>2. HostRxOK'
  BY DEF HostRxOK
<1>3. RecvOK'
  BY DEF RecvOK
<1>4. PserialOK'
  BY DEF PserialOK
<1>5. NoOverrun' /\ Sending'
  BY DEF NoOverrun, Sending
<1> QED
  BY <1>1, <1>2, <1>3, <1>4, <1>5

THEOREM Inductive == Spec => []IInv
<1>1. Init => IInv
  BY InitIInv
<1>2. IInv /\ [Next]_vars => IInv'
  BY HostTxIInv, RecvIInv, PserialIInv, HostRxIInv, StutterIInv DEF Next
<1> QED
  BY <1>1, <1>2, PTL DEF Spec

\* Every variable keeps its type: buffers and queues keep their sizes, for every
\* number and length of messages and every number of open requests.
THEOREM TypeCorrect == Spec => []TypeOK
<1>1. IInv => TypeOK
  BY DEF IInv
<1> QED
  BY <1>1, Inductive, PTL

\* process_serial_rx_pkt never copies past the end of r.data, with any number of
\* requests open at a time.
THEOREM NoOverrunHolds == Spec => []NoOverrun
<1>1. IInv => NoOverrun
  BY DEF IInv
<1> QED
  BY <1>1, Inductive, PTL

-----------------------------------------------------------------------------
(* readSemaphore and the serial queue. *)

LEMMA ReadTokensInit == Init => ReadTokens
  BY DEF Init, ReadTokens

\* rpc_rx gives the token of the message it put.
LEMMA SignalTokens ==
  ASSUME SerialQSize <= ReadMax, HostRxOK, ReadTokens, HostSignal
  PROVE  ReadTokens'
<1>1. {Len(serialQ), readSem, SerialQSize, ReadMax} \subseteq Nat /\ Len(serialQ) <= SerialQSize
  BY SizesAssumption DEF HostRxOK
<1>2. hostPc = "signal" /\ hostPc' = "idle"
  BY DEF HostSignal
<1>3. serialQ' = serialQ /\ rxPc' = rxPc
  BY DEF HostSignal, rpcRx
<1>4. readSem < ReadMax
  BY <1>1, <1>2 DEF ReadTokens
<1>5. readSem' = readSem + 1
  <2>1. readSem' = PostRead
    BY DEF HostSignal
  <2> QED
    BY <1>1, <1>4, <2>1 DEF PostRead, Least
<1> QED
  BY <1>1, <1>2, <1>3, <1>5 DEF ReadTokens

LEMMA ReadTokensStep ==
  ASSUME SerialQSize <= ReadMax, HostRxOK, ReadTokens, [Next]_vars
  PROVE  ReadTokens'
<1> USE SizesAssumption DEF ReadTokens, HostRxOK
<1>1. CASE HostTake
  BY <1>1 DEF HostTake, rpcRx
<1>2. CASE HostPut
  <2>1. Len(serialQ') = Len(serialQ) + 1
    BY <1>2, Appended DEF HostPut
  <2> QED
    BY <1>2, <2>1 DEF HostPut, rpcRx
<1>3. CASE HostSignal
  BY <1>3, SignalTokens
<1>4. CASE RxWait
  BY <1>4 DEF RxWait, hostRx
<1>5. CASE RxRead
  <2>1. Len(serialQ') = Len(serialQ) - 1
    BY <1>5, Taken DEF RxRead
  <2> QED
    BY <1>5, <2>1 DEF RxRead, hostRx
<1>6. CASE RxProcess
  BY <1>6 DEF RxProcess, hostRx
<1>7. CASE HostWrite \/ HostFragment \/ RecvTask \/ SendEvent \/ PserialTask \/ UNCHANGED vars
  <2>1. UNCHANGED <<serialQ, readSem, hostRx, rpcRx>>
    BY <1>7
    DEF HostWrite, HostFragment, RecvTask, RecvTake, RecvCopy, RecvLoad, RecvGrow, RecvValid,
        RecvParse, SendEvent, PserialTask, PsTake, PsRead, PsClearValid, PsClearLen,
        PsHandle, PsEvent, PsSend, vars
  <2> QED
    BY <2>1 DEF hostRx, rpcRx
<1> QED
  BY <1>1, <1>2, <1>3, <1>4, <1>5, <1>6, <1>7 DEF Next, HostRxTask, RpcRx

\* If the queue is no longer than readSemaphore can count, every message in it has
\* its token: rpc_rx is woken for each, and its dequeue does not block.
THEOREM ReadTokensHolds == SerialQSize <= ReadMax => (Spec => []ReadTokens)
<1> SUFFICES ASSUME SerialQSize <= ReadMax PROVE Spec => []ReadTokens
  OBVIOUS
<1>1. Init => ReadTokens
  BY ReadTokensInit
<1>2. HostRxOK /\ ReadTokens /\ [Next]_vars => ReadTokens'
  BY ReadTokensStep
<1>3. TypeOK => HostRxOK
  BY DEF TypeOK
<1> QED
  BY <1>1, <1>2, <1>3, TypeCorrect, PTL DEF Spec

-----------------------------------------------------------------------------
(* Until a packet is taken too early: where the requests are.               *)

\* Fragment g is the one the host writes after f.
After(f) ==
    IF f.i = Frags["req"] THEN Fragment("req", f.n + 1, 1) ELSE Fragment("req", f.n, f.i + 1)
Chain(f, s) == \A j \in 1..Len(s) : s[j] = After(IF j = 1 THEN f ELSE s[j - 1])
EndOf(f, s) == IF s = << >> THEN f ELSE s[Len(s)]

Taking == IF recvPc = "copy" THEN One(recvFrag) ELSE << >>
Flight == Taking ++ (toSlave ++ unsent)

\* The request that is in the buffer, or the next to get there.
Current == IF psPc = "handle" THEN handled + 2 ELSE handled + 1
\* The fragment that was copied last, when m of it are.
Prev(m) == IF m = 0 THEN Fragment("req", Current - 1, Frags["req"]) ELSE Fragment("req", Current, m)
Filled(m) == \A i \in 1..m : r.data[i] = Fragment("req", Current, i)
\* All that was written and is not copied is under way behind it.
Line(m) == Chain(Prev(m), Flight) /\ EndOf(Prev(m), Flight) = Fragment("req", written, Frags["req"])

NoneQueued == \A i \in 1..Len(reqQ) : reqQ[i].kind = "evt"
OneQueued ==
    \E i \in 1..Len(reqQ) :
       /\ reqQ[i] = [kind |-> "req", data |-> Whole("req", Current)]
       /\ \A j \in 1..Len(reqQ) : j # i => reqQ[j].kind = "evt"
PsElsewhere == psPc \in {"idle", "event", "send", "handle"}
PsHolds == arg.kind = "req" /\ arg.data = Whole("req", Current)

\* None, or some of its fragments are in the buffer.
Moving ==
    /\ ~r.valid /\ NoneQueued /\ PsElsewhere
    /\ IF recvPc \in {"load", "grow"}
         THEN /\ r.len < Frags["req"] /\ Line(r.len + 1) /\ Filled(r.len + 1)
              /\ recvFrag = Fragment("req", Current, r.len + 1)
         ELSE r.len <= Frags["req"] /\ Line(r.len) /\ Filled(r.len)
    /\ recvPc \in {"copy", "load", "grow"} => rem = BufferSize - r.len
    /\ recvPc = "grow" => lenRead = r.len
    /\ recvPc \in {"idle", "copy"} => r.len < Frags["req"]
    /\ recvPc = "valid" => r.len = Frags["req"]
    /\ recvPc # "parse"

\* The buffer holds all of it.
Arrived ==
    /\ Line(r.len) /\ r.valid /\ r.len = Frags["req"] /\ Filled(r.len)
    /\ \/ recvPc = "parse" /\ NoneQueued /\ PsElsewhere
       \/ recvPc = "idle" /\ OneQueued /\ PsElsewhere
       \/ recvPc = "idle" /\ NoneQueued /\ psPc \in {"read", "clearValid"} /\ PsHolds

\* pserial_task has its copy and gives the buffer back.
Released ==
    /\ Line(r.len) /\ recvPc = "idle" /\ ~r.valid /\ r.len = Frags["req"]
    /\ NoneQueued /\ psPc = "clearLen" /\ PsHolds

Handling == psPc = "handle" => arg.data = Whole("req", handled + 1)
Placed == (Moving \/ Arrived \/ Released) /\ Handling
RequestPlaced == crowded \/ Placed

LEMMA RequestSize == Frags["req"] \in Nat \ {0} /\ Frags["req"] <= BufferSize /\ BufferSize \in Nat
  BY SizesAssumption DEF Kinds

\* The first packet under way, and what is behind it.
LEMMA ChainFirst ==
  ASSUME NEW f \in FragmentType, NEW x \in FragmentType, NEW u \in Seq(FragmentType),
         Chain(f, One(x) ++ u)
  PROVE  x = After(f) /\ Chain(x, u) /\ EndOf(f, One(x) ++ u) = EndOf(x, u)
<1> DEFINE s == One(x) ++ u k == Len(u)
<1>1. /\ k \in Nat /\ Len(s) = k + 1 /\ s[1] = x
      /\ \A j \in 1..k : s[j + 1] = u[j]
  <2>1. One(x) \in Seq(FragmentType) /\ Len(One(x)) = 1 /\ One(x)[1] = x
    BY DEF One
  <2>2. /\ Len(One(x) \o u) = 1 + k /\ k \in Nat
        /\ \A i \in 1..1 : (One(x) \o u)[i] = One(x)[i]
        /\ \A i \in 1..k : (One(x) \o u)[1 + i] = u[i]
    <3>0. One(x) \in Seq(FragmentType) /\ u \in Seq(FragmentType)
      BY <2>1
    <3> HIDE DEF s, k
    <3>1. /\ Len(One(x)) \in Nat /\ Len(u) \in Nat
          /\ Len(One(x) \o u) = Len(One(x)) + Len(u)
          /\ \A i \in 1..Len(One(x)) : (One(x) \o u)[i] = One(x)[i]
          /\ \A i \in 1..Len(u) : (One(x) \o u)[Len(One(x)) + i] = u[i]
      BY <3>0, JoinElements
    <3> QED
      BY <2>1, <3>1 DEF k
  <2> QED
    BY <2>1, <2>2 DEF ++
<1>2. \A j \in 1..(k + 1) : s[j] = After(IF j = 1 THEN f ELSE s[j - 1])
  BY <1>1 DEF Chain
<1>3. s # << >> /\ (u = << >> <=> k = 0)
  <2>1. s \in Seq(FragmentType)
    BY Joined, JoinedOne
  <2> HIDE DEF s, k
  <2>2. (s = << >> <=> Len(s) = 0) /\ (u = << >> <=> Len(u) = 0)
    BY <2>1, EmptyFacts
  <2> QED
    BY <1>1, <2>2 DEF k
<1> HIDE DEF s, k
<1>4. x = After(f)
  <2>1. 1 \in 1..(k + 1)
    BY <1>1
  <2> QED
    BY <1>1, <1>2, <2>1
<1>5. Chain(x, u)
  <2>1. ASSUME NEW j \in 1..k PROVE u[j] = After(IF j = 1 THEN x ELSE u[j - 1])
    <3>1. j + 1 \in 1..(k + 1) /\ j + 1 # 1 /\ (j + 1) - 1 = j
      BY <1>1
    <3>2. u[j] = After(s[j])
      BY <1>1, <1>2, <3>1
    <3>3. CASE j = 1
      BY <1>1, <3>2, <3>3
    <3>4. CASE j # 1
      <4>1. j - 1 \in 1..k /\ (j - 1) + 1 = j
        BY <1>1, <3>4
      <4> QED
        BY <1>1, <3>2, <3>4, <4>1
    <3> QED
      BY <3>3, <3>4
  <2> QED
    BY <2>1 DEF Chain, k
<1>6. EndOf(f, s) = EndOf(x, u)
  <2>1. CASE k = 0
    BY <1>1, <1>3, <2>1 DEF EndOf
  <2>2. CASE k # 0
    <3>1. k \in 1..k
      BY <1>1, <2>2
    <3> QED
      BY <1>1, <1>3, <2>2, <3>1 DEF EndOf, k
  <2> QED
    BY <2>1, <2>2
<1> QED
  BY <1>4, <1>5, <1>6 DEF s

\* One more stretch behind the packets under way.
LEMMA ChainBehind ==
  ASSUME NEW f \in FragmentType, NEW s \in Seq(FragmentType), NEW w \in Seq(FragmentType),
         Chain(f, s), Chain(EndOf(f, s), w)
  PROVE  Chain(f, s ++ w) /\ EndOf(f, s ++ w) = EndOf(EndOf(f, s), w)
<1> DEFINE v == s ++ w k == Len(s) l == Len(w) e == EndOf(f, s)
<1>1. /\ k \in Nat /\ l \in Nat /\ Len(v) = k + l
      /\ \A i \in 1..k : v[i] = s[i]
      /\ \A i \in 1..l : v[k + i] = w[i]
  BY JoinElements DEF ++
<1>2. /\ \A j \in 1..k : s[j] = After(IF j = 1 THEN f ELSE s[j - 1])
      /\ \A j \in 1..l : w[j] = After(IF j = 1 THEN e ELSE w[j - 1])
  BY DEF Chain
<1>3. e = IF k = 0 THEN f ELSE s[k]
  BY EmptyFacts DEF EndOf
<1>4. v = << >> <=> k + l = 0
  <2>1. v \in Seq(FragmentType)
    BY Joined
  <2> HIDE DEF v, k, l
  <2> QED
    BY <1>1, <2>1, EmptyFacts
<1>5. w = << >> <=> l = 0
  BY EmptyFacts
<1>6. EndOf(e, w) = IF l = 0 THEN e ELSE w[l]
  BY <1>5 DEF EndOf
<1>7. EndOf(f, v) = IF k + l = 0 THEN f ELSE v[k + l]
  BY <1>1, <1>4 DEF EndOf
<1> HIDE DEF v, k, l, e
<1>8. Chain(f, v)
  <2>1. ASSUME NEW j \in 1..(k + l) PROVE v[j] = After(IF j = 1 THEN f ELSE v[j - 1])
    <3>1. CASE j \in 1..k
      <4>1. j # 1 => j - 1 \in 1..k
        BY <1>1, <3>1
      <4> QED
        BY <1>1, <1>2, <3>1, <4>1
    <3>2. CASE j = k + 1
      <4>1. 1 \in 1..l /\ j - 1 = k /\ (k # 0 => k \in 1..k)
        BY <1>1, <2>1, <3>2
      <4>2. v[j] = w[1] /\ w[1] = After(e)
        BY <1>1, <1>2, <3>2, <4>1
      <4>3. e = IF j = 1 THEN f ELSE v[j - 1]
        BY <1>1, <1>3, <3>2, <4>1
      <4> QED
        BY <4>2, <4>3
    <3>3. CASE j > k + 1
      <4>1. /\ j - k \in 1..l /\ k + (j - k) = j /\ j - k # 1
            /\ (j - k) - 1 \in 1..l /\ k + ((j - k) - 1) = j - 1 /\ j # 1
        BY <1>1, <2>1, <3>3
      <4>2. v[j] = w[j - k] /\ w[j - k] = After(w[(j - k) - 1]) /\ v[j - 1] = w[(j - k) - 1]
        BY <1>1, <1>2, <4>1
      <4> QED
        BY <4>1, <4>2
    <3> QED
      BY <1>1, <2>1, <3>1, <3>2, <3>3
  <2> QED
    BY <1>1, <2>1 DEF Chain
<1>9. EndOf(f, v) = EndOf(e, w)
  <2>1. CASE l = 0
    <3>1. k # 0 => k \in 1..k
      BY <1>1
    <3> QED
      BY <1>1, <1>3, <1>6, <1>7, <2>1, <3>1
  <2>2. CASE l # 0
    <3>1. l \in 1..l /\ k + l # 0
      BY <1>1, <2>2
    <3> QED
      BY <1>1, <1>6, <1>7, <2>2, <3>1
  <2> QED
    BY <2>1, <2>2
<1> QED
  BY <1>8, <1>9 DEF v, e

\* The fragments of a request follow those of the request before.
LEMMA ChainWhole ==
  ASSUME NEW n \in Nat, NEW f, f = Fragment("req", n, Frags["req"])
  PROVE  /\ Whole("req", n + 1) \in Seq(FragmentType)
         /\ Chain(f, Whole("req", n + 1))
         /\ EndOf(f, Whole("req", n + 1)) = Fragment("req", n + 1, Frags["req"])
<1> DEFINE k == Frags["req"] w == Whole("req", n + 1)
<1>1. k \in Nat \ {0}
  BY RequestSize
<1>2. w \in Seq(FragmentType) /\ w = [i \in 1..k |-> Fragment("req", n + 1, i)]
  BY WholeInSeq DEF Kinds, Whole
<1>3. Len(w) = k
  BY <1>1, <1>2
<1>4. \A j \in 1..k : w[j] = Fragment("req", n + 1, j)
  BY <1>2
<1>5. f.i = k /\ f.n = n
  BY DEF Fragment
<1> HIDE DEF w, k
<1>6. ASSUME NEW j \in 1..k PROVE w[j] = After(IF j = 1 THEN f ELSE w[j - 1])
  <2>1. CASE j = 1
    BY <1>4, <1>5, <2>1 DEF After, k
  <2>2. CASE j # 1
    <3>1. j - 1 \in 1..k /\ j - 1 # k /\ (j - 1) + 1 = j
      BY <1>1, <2>2
    <3>2. w[j - 1] = Fragment("req", n + 1, j - 1)
      BY <1>4, <3>1
    <3>3. w[j - 1].i = j - 1 /\ w[j - 1].n = n + 1
      BY <3>2 DEF Fragment
    <3>4. After(w[j - 1]) = Fragment("req", n + 1, j)
      BY <3>1, <3>3 DEF After, k
    <3> QED
      BY <1>4, <2>2, <3>4
  <2> QED
    BY <2>1, <2>2
<1>7. Chain(f, w)
  BY <1>3, <1>6 DEF Chain
<1>8. EndOf(f, w) = w[k]
  <2>1. w # << >>
    BY <1>1, <1>2, <1>3, EmptyFacts
  <2> QED
    BY <1>3, <2>1 DEF EndOf
<1>9. w[k] = Fragment("req", n + 1, k)
  BY <1>1, <1>4
<1> QED
  BY <1>2, <1>7, <1>8, <1>9 DEF w, k

\* What arrives at, and leaves, pserial_cfg->req_queue.
LEMMA ArgFacts == PserialOK => reqQ \in Seq(ReqArg) /\ Len(reqQ) \in Nat
  BY DEF PserialOK

LEMMA EventQueued ==
  ASSUME PserialOK, NEW a \in ReqArg, a.kind = "evt", reqQ' = Append(reqQ, a), Current' = Current
  PROVE  (NoneQueued => NoneQueued') /\ (OneQueued => OneQueued')
<1> DEFINE l == Len(reqQ)
<1>1. /\ l \in Nat /\ Len(reqQ') = l + 1 /\ reqQ'[l + 1] = a
      /\ \A i \in 1..l : reqQ'[i] = reqQ[i]
  BY ArgFacts, AppendElements
<1> HIDE DEF l
<1>2. NoneQueued => NoneQueued'
  BY <1>1 DEF NoneQueued, l
<1>3. ASSUME OneQueued PROVE OneQueued'
  <2>1. PICK i \in 1..l : /\ reqQ[i] = [kind |-> "req", data |-> Whole("req", Current)]
                          /\ \A j \in 1..l : j # i => reqQ[j].kind = "evt"
    BY <1>3 DEF OneQueued, l
  <2>2. i \in 1..(l + 1) /\ reqQ'[i] = [kind |-> "req", data |-> Whole("req", Current')]
    BY <1>1, <2>1
  <2>3. \A j \in 1..(l + 1) : j # i => reqQ'[j].kind = "evt"
    BY <1>1, <2>1
  <2> QED
    BY <1>1, <2>2, <2>3 DEF OneQueued
<1> QED
  BY <1>2, <1>3

LEMMA RequestQueued ==
  ASSUME PserialOK, NoneQueued, NEW a \in ReqArg, reqQ' = Append(reqQ, a), Current' = Current,
         a = [kind |-> "req", data |-> Whole("req", Current)]
  PROVE  OneQueued'
<1> DEFINE l == Len(reqQ)
<1>1. /\ l \in Nat /\ Len(reqQ') = l + 1 /\ reqQ'[l + 1] = a
      /\ \A i \in 1..l : reqQ'[i] = reqQ[i]
  BY ArgFacts, AppendElements
<1>2. \A i \in 1..l : reqQ[i].kind = "evt"
  BY DEF NoneQueued
<1> HIDE DEF l
<1>3. /\ l + 1 \in 1..(l + 1)
      /\ \A j \in 1..(l + 1) : j # l + 1 => reqQ'[j].kind = "evt"
  BY <1>1, <1>2
<1>4. reqQ'[l + 1] = [kind |-> "req", data |-> Whole("req", Current')]
  BY <1>1
<1> DEFINE d == l + 1
<1>5. /\ d \in 1..d /\ Len(reqQ') = d
      /\ reqQ'[d] = [kind |-> "req", data |-> Whole("req", Current')]
      /\ \A j \in 1..d : j # d => reqQ'[j].kind = "evt"
  BY <1>1, <1>3, <1>4
<1> HIDE DEF d
<1> QED
  BY <1>5, Zenon DEF OneQueued

LEMMA ArgTaken ==
  ASSUME PserialOK, reqQ # << >>, reqQ' = Tail(reqQ), Current' = Current
  PROVE  /\ Head(reqQ) \in ReqArg
         /\ NoneQueued => Head(reqQ).kind = "evt" /\ NoneQueued'
         /\ OneQueued => \/ Head(reqQ).kind = "evt" /\ OneQueued'
                         \/ /\ Head(reqQ) = [kind |-> "req", data |-> Whole("req", Current)]
                            /\ NoneQueued'
<1> DEFINE l == Len(reqQ)
<1>1. /\ l \in Nat \ {0} /\ Len(reqQ') = l - 1 /\ Head(reqQ) = reqQ[1] /\ Head(reqQ) \in ReqArg
      /\ \A i \in 1..(l - 1) : reqQ'[i] = reqQ[i + 1]
  BY ArgFacts, TailElements, TailFacts
<1> HIDE DEF l
<1>2. 1 \in 1..l /\ \A i \in 1..(l - 1) : i + 1 \in 1..l /\ i + 1 # 1
  BY <1>1
<1>3. NoneQueued => Head(reqQ).kind = "evt" /\ NoneQueued'
  BY <1>1, <1>2 DEF NoneQueued, l
<1>4. ASSUME OneQueued
      PROVE  \/ Head(reqQ).kind = "evt" /\ OneQueued'
             \/ /\ Head(reqQ) = [kind |-> "req", data |-> Whole("req", Current)]
                /\ NoneQueued'
  <2>1. PICK i \in 1..l : /\ reqQ[i] = [kind |-> "req", data |-> Whole("req", Current)]
                          /\ \A j \in 1..l : j # i => reqQ[j].kind = "evt"
    BY <1>4 DEF OneQueued, l
  <2>2. CASE i = 1
    <3>1. \A j \in 1..(l - 1) : reqQ'[j].kind = "evt"
      BY <1>1, <1>2, <2>1, <2>2
    <3>2. NoneQueued'
      BY <1>1, <3>1 DEF NoneQueued
    <3> QED
      BY <1>1, <2>1, <2>2, <3>2
  <2>3. CASE i # 1
    <3>1. i - 1 \in 1..(l - 1) /\ (i - 1) + 1 = i
      BY <1>1, <2>3
    <3>2. reqQ'[i - 1] = [kind |-> "req", data |-> Whole("req", Current')]
      BY <1>1, <2>1, <3>1
    <3>3. \A j \in 1..(l - 1) : j # i - 1 => j + 1 # i
      BY <1>1, <3>1
    <3>4. \A j \in 1..(l - 1) : j # i - 1 => reqQ'[j].kind = "evt"
      BY <1>1, <1>2, <2>1, <3>3
    <3>5. OneQueued'
      <4> DEFINE d == i - 1 u == l - 1
      <4>1. d \in 1..u /\ Len(reqQ') = u
        BY <1>1, <3>1
      <4>2. \A j \in 1..u : j # d => reqQ'[j].kind = "evt"
        BY <3>4
      <4>3. reqQ'[d] = [kind |-> "req", data |-> Whole("req", Current')]
        BY <3>2
      <4> HIDE DEF d, u
      <4> QED
        BY <4>1, <4>2, <4>3, Zenon DEF OneQueued
    <3>6. Head(reqQ).kind = "evt"
      BY <1>1, <1>2, <2>1, <2>3
    <3> QED
      BY <3>5, <3>6
  <2> QED
    BY <2>2, <2>3
<1> QED
  BY <1>1, <1>3, <1>4

-----------------------------------------------------------------------------
(* Every step keeps the request in its place.                               *)

LEMMA RequestTypes ==
  ASSUME TypeOK
  PROVE  /\ written \in Nat /\ handled \in Nat /\ unsent \in Seq(FragmentType)
         /\ toSlave \in Seq(FragmentType) /\ recvFrag \in FragmentType
         /\ r.len \in 0..BufferSize /\ r.len \in Nat /\ r.valid \in BOOLEAN
         /\ r.data \in [1..BufferSize -> FragmentType]
         /\ r = [valid |-> r.valid, len |-> r.len, data |-> r.data]
         /\ rem \in 0..BufferSize /\ lenRead \in 0..BufferSize
         /\ Current \in Nat \ {0}
         /\ \A m \in Nat : Prev(m) \in FragmentType
         /\ Taking \in Seq(FragmentType) /\ Flight \in Seq(FragmentType)
<1>1. /\ written \in Nat /\ handled \in Nat /\ unsent \in Seq(FragmentType)
      /\ toSlave \in Seq(FragmentType) /\ recvFrag \in FragmentType /\ rem \in 0..BufferSize
  BY BoundsAssumption DEF TypeOK, HostTxOK, RecvOK, PserialOK
<1>2. r \in [valid : BOOLEAN, len : 0..BufferSize, data : [1..BufferSize -> FragmentType]]
  BY DEF TypeOK, RecvOK
<1>3. /\ r.len \in 0..BufferSize /\ r.len \in Nat /\ r.valid \in BOOLEAN
      /\ r.data \in [1..BufferSize -> FragmentType]
      /\ r = [valid |-> r.valid, len |-> r.len, data |-> r.data]
  BY <1>2, RequestSize
<1>4. One(recvFrag) \in Seq(FragmentType) /\ << >> \in Seq(FragmentType)
  BY <1>1, JoinedOne
<1>5. Taking \in Seq(FragmentType)
  BY <1>4 DEF Taking
<1>6. toSlave ++ unsent \in Seq(FragmentType)
  BY <1>1, Joined
<1>7. Flight \in Seq(FragmentType)
  BY <1>5, <1>6, Joined DEF Flight
<1>8. lenRead \in 0..BufferSize
  BY DEF TypeOK, RecvOK
<1>9. Current \in Nat \ {0} /\ Current - 1 \in Nat
  BY <1>1 DEF Current
<1>10. \A m \in Nat : Prev(m) \in FragmentType
  BY <1>9, RequestSize, FragmentInType DEF Prev, Kinds
<1> QED
  BY <1>1, <1>3, <1>5, <1>7, <1>8, <1>9, <1>10

\* Steps that leave the requests, their number and pserial_task's hands alone.
LEMMA SameCurrent ==
  ASSUME UNCHANGED <<handled, psPc>>
  PROVE  Current' = Current /\ \A m : Prev(m)' = Prev(m)
  BY DEF Current, Prev

LEMMA SameLine ==
  ASSUME Current' = Current, Flight' = Flight, written' = written
  PROVE  \A m : Line(m)' <=> Line(m)
<1>1. \A m : Prev(m)' = Prev(m)
  BY DEF Prev
<1> QED
  BY <1>1 DEF Line, Chain, EndOf

\* Steps that move nothing but a fragment on its way.
LEMMA PlacedFrame ==
  ASSUME RequestPlaced, Flight' = Flight,
         UNCHANGED <<written, handled, recvPc, recvFrag, rem, lenRead, crowded, r, reqQ, psPc, arg>>
  PROVE  RequestPlaced'
<1>1. Current' = Current /\ (Handling' <=> Handling)
  BY DEF Current, Handling
<1>2. (NoneQueued' <=> NoneQueued) /\ (OneQueued' <=> OneQueued)
      /\ (PsElsewhere' <=> PsElsewhere) /\ (PsHolds' <=> PsHolds)
  BY <1>1 DEF NoneQueued, OneQueued, PsElsewhere, PsHolds
<1>3. \A m : (Line(m)' <=> Line(m)) /\ (Filled(m)' <=> Filled(m))
  BY <1>1, SameLine DEF Filled
<1>4. Moving' <=> Moving
  BY <1>1, <1>2, <1>3 DEF Moving
<1>5. (Arrived' <=> Arrived) /\ (Released' <=> Released)
  BY <1>2, <1>3 DEF Arrived, Released
<1> QED
  BY <1>1, <1>4, <1>5 DEF RequestPlaced, Placed

\* Steps of the other tasks, and those that pserial_task does with a message of its
\* own or with a request that it has.
LEMMA PlacedElsewhere ==
  ASSUME RequestPlaced, PsElsewhere, PsElsewhere', Current' = Current, Handling',
         UNCHANGED <<written, toSlave, unsent, recvPc, recvFrag, rem, lenRead, crowded, r, reqQ>>
  PROVE  RequestPlaced'
<1>1. (NoneQueued' <=> NoneQueued) /\ (OneQueued' <=> OneQueued) /\ Flight' = Flight
  BY DEF NoneQueued, OneQueued, Flight, Taking
<1>2. \A m : (Line(m)' <=> Line(m)) /\ (Filled(m)' <=> Filled(m))
  BY <1>1, SameLine DEF Filled
<1>3. Moving' <=> Moving
  BY <1>1, <1>2 DEF Moving
<1>4. psPc \notin {"read", "clearValid", "clearLen"}
  BY DEF PsElsewhere
<1>5. (Arrived => Arrived') /\ ~Released
  BY <1>1, <1>2, <1>4 DEF Arrived, Released
<1> QED
  BY <1>3, <1>5 DEF RequestPlaced, Placed

LEMMA HostFragmentPlaced ==
  ASSUME TypeOK, RequestPlaced, HostFragment
  PROVE  RequestPlaced'
<1> DEFINE u == unsent v == toSlave h == Head(unsent)
<1>1. /\ u \in Seq(FragmentType) /\ v \in Seq(FragmentType) /\ u # << >>
      /\ h \in FragmentType /\ h = Head(u)
  BY RequestTypes, TailFacts DEF HostFragment
<1>2. toSlave' = Append(v, h) /\ unsent' = Tail(u) /\ Taking' = Taking
  BY DEF HostFragment, recvTask, Taking
<1> HIDE DEF u, v, h
<1>3. Append(v, h) ++ Tail(u) = v ++ u
  BY <1>1, HeadOver
<1>5. Flight' = Flight
  BY <1>2, <1>3 DEF Flight, u, v
<1>6. UNCHANGED <<written, handled, recvPc, recvFrag, rem, lenRead, crowded, r, reqQ, psPc, arg>>
  BY DEF HostFragment, recvTask, pserial
<1> QED
  BY <1>5, <1>6, PlacedFrame

\* A request joins the ones that are under way.
LEMMA HostWriteLine ==
  ASSUME TypeOK, HostWrite, NEW m \in Nat, Line(m)
  PROVE  Line(m)'
<1>1. written \in Nat /\ Prev(m) \in FragmentType /\ Flight \in Seq(FragmentType)
  BY RequestTypes
<1>2. /\ unsent = << >> /\ written' = written + 1 /\ unsent' = Whole("req", written + 1)
      /\ UNCHANGED <<handled, toSlave, recvPc, recvFrag, psPc>>
  BY DEF HostWrite, recvTask, pserial
<1> DEFINE w == Whole("req", written + 1) f == Prev(m) s == Flight n == written + 1
<1>3. /\ w \in Seq(FragmentType) /\ Chain(EndOf(f, s), w)
      /\ EndOf(EndOf(f, s), w) = Fragment("req", n, Frags["req"])
  BY <1>1, ChainWhole DEF Line
<1>4. Flight' = s ++ w
  <2> DEFINE t == Taking v == toSlave
  <2>1. t \in Seq(FragmentType) /\ v \in Seq(FragmentType) /\ << >> \in Seq(FragmentType)
    BY RequestTypes
  <2>2. Flight = t ++ (v ++ << >>) /\ Flight' = t ++ (v ++ w)
    BY <1>2 DEF Flight, Taking
  <2> HIDE DEF t, v, w, s
  <2>3. v ++ << >> = v
    BY <2>1 DEF ++
  <2>4. t ++ (v ++ w) = (t ++ v) ++ w
    BY <1>3, <2>1, JoinedTwice
  <2> QED
    BY <2>2, <2>3, <2>4 DEF s
<1>5. f \in FragmentType /\ s \in Seq(FragmentType) /\ Chain(f, s)
  BY <1>1 DEF Line
<1>6. Prev(m)' = f /\ written' = n
  BY <1>2, SameCurrent
<1> HIDE DEF w, f, s, n
<1>7. Chain(f, s ++ w) /\ EndOf(f, s ++ w) = Fragment("req", n, Frags["req"])
  BY <1>3, <1>5, ChainBehind
<1> DEFINE x == s ++ w
<1>8. Chain(f, x)' <=> Chain(f', x')
  BY DEF Chain
<1>9. Line(m)' <=> /\ Chain(Prev(m)', Flight')
                  /\ EndOf(Prev(m)', Flight') = Fragment("req", written', Frags["req"])
  BY DEF Line, Chain, EndOf
<1> QED
  BY <1>4, <1>6, <1>7, <1>9

LEMMA HostWritePlaced ==
  ASSUME TypeOK, RequestPlaced, HostWrite
  PROVE  RequestPlaced'
<1>1. UNCHANGED <<handled, toSlave, recvPc, recvFrag, rem, lenRead, crowded, r, reqQ, psPc, arg>>
  BY DEF HostWrite, recvTask, pserial
<1>2. Current' = Current /\ (Handling' <=> Handling)
  BY <1>1 DEF Current, Handling
<1>3. (NoneQueued' <=> NoneQueued) /\ (OneQueued' <=> OneQueued)
      /\ (PsElsewhere' <=> PsElsewhere) /\ (PsHolds' <=> PsHolds)
  BY <1>1, <1>2 DEF NoneQueued, OneQueued, PsElsewhere, PsHolds
<1>4. r.len \in Nat /\ r.len + 1 \in Nat
  BY RequestTypes
<1>5. (Line(r.len) => Line(r.len)') /\ (Line(r.len + 1) => Line(r.len + 1)')
  <2> DEFINE a == r.len b == r.len + 1
  <2>1. (Line(a) => Line(a)') /\ (Line(b) => Line(b)')
    BY <1>4, <1>1, HostWriteLine
  <2> QED
    BY <2>1
<1>6. \A m : Filled(m)' <=> Filled(m)
  BY <1>1, <1>2 DEF Filled
<1>7. Moving => Moving'
  BY <1>1, <1>2, <1>3, <1>5, <1>6 DEF Moving
<1>8. (Arrived => Arrived') /\ (Released => Released')
  BY <1>1, <1>3, <1>5, <1>6 DEF Arrived, Released
<1> QED
  BY <1>1, <1>2, <1>7, <1>8 DEF RequestPlaced, Placed

\* A packet is taken: too early, or it belongs to the request that is next.
LEMMA RecvTakePlaced ==
  ASSUME TypeOK, RequestPlaced, RecvTake
  PROVE  RequestPlaced'
<1> DEFINE x == toSlave y == unsent h == Head(toSlave) l == Tail(toSlave)
<1>1. /\ x \in Seq(FragmentType) /\ y \in Seq(FragmentType) /\ x # << >>
      /\ h = Head(x) /\ l = Tail(x)
  BY RequestTypes DEF RecvTake
<1>2. /\ recvPc = "idle" /\ recvPc' = "copy" /\ recvFrag' = h /\ toSlave' = l
      /\ rem' = BufferSize - r.len /\ crowded' = (crowded \/ r.valid \/ psPc = "clearLen")
      /\ UNCHANGED <<written, handled, unsent, r, lenRead, reqQ, psPc, arg>>
  BY DEF RecvTake, Room, hostTx, pserial
<1>3. Flight = << >> ++ (x ++ y) /\ Flight' = One(h) ++ (l ++ y)
  BY <1>2 DEF Flight, Taking
<1> HIDE DEF x, y, h, l
<1>4. x ++ y = One(h) ++ (l ++ y)
  BY <1>1, SplitFirst
<1>5. << >> ++ (x ++ y) = x ++ y
  BY <1>1, Joined, JoinedEmpty
<1>7. Flight' = Flight
  BY <1>3, <1>4, <1>5
<1>8. CASE ~crowded'
  <2>1. Moving /\ Handling
    BY <1>2, <1>8 DEF RequestPlaced, Placed, Arrived, Released
  <2>2. Current' = Current /\ Handling'
    BY <1>2, <2>1 DEF Current, Handling
  <2>3. /\ NoneQueued' /\ PsElsewhere'
        /\ \A m : (Line(m)' <=> Line(m)) /\ (Filled(m)' <=> Filled(m))
    BY <1>2, <1>7, <2>1, <2>2, SameLine DEF Moving, NoneQueued, PsElsewhere, Filled
  <2>4. Moving'
    BY <1>2, <2>1, <2>3 DEF Moving
  <2> QED
    BY <2>2, <2>4 DEF RequestPlaced, Placed
<1> QED
  BY <1>8 DEF RequestPlaced

LEMMA RecvCopyPlaced ==
  ASSUME TypeOK, RequestPlaced, RecvCopy
  PROVE  RequestPlaced'
<1>0. PICK m \in Nat : m = r.len
  BY RequestTypes
<1> DEFINE d == r.data
<1>1. /\ recvPc = "copy" /\ recvPc' = "load"
      /\ r' = IF Copied = 0 THEN r ELSE [r EXCEPT !.data[r.len + 1] = recvFrag]
      /\ UNCHANGED <<written, handled, unsent, toSlave, recvFrag, rem, lenRead, crowded, reqQ,
                     psPc, arg>>
  BY DEF RecvCopy, hostTx, pserial
<1>2. CASE crowded
  BY <1>1, <1>2 DEF RequestPlaced
<1>3. CASE ~crowded
  <2>1. Moving /\ Handling
    BY <1>1, <1>3 DEF RequestPlaced, Placed, Arrived, Released
  <2>2. m \in Nat /\ m <= Frags["req"] /\ Line(m) /\ Filled(m) /\ rem = BufferSize - m
    BY <1>0, <1>1, <2>1, RequestTypes DEF Moving
  <2> DEFINE u == toSlave ++ unsent
  <2>3. u \in Seq(FragmentType) /\ recvFrag \in FragmentType
    BY RequestTypes, Joined
  <2>4. Flight = One(recvFrag) ++ u /\ Flight' = u
    <3>1. Flight = One(recvFrag) ++ u /\ Flight' = << >> ++ u
      BY <1>1 DEF Flight, Taking
    <3> HIDE DEF u
    <3> QED
      BY <2>3, <3>1, JoinedEmpty
  <2> HIDE DEF u
  <2>5. /\ recvFrag = After(Prev(m)) /\ Chain(recvFrag, u)
        /\ EndOf(recvFrag, u) = Fragment("req", written, Frags["req"])
    <3>1. Prev(m) \in FragmentType /\ Chain(Prev(m), One(recvFrag) ++ u)
          /\ EndOf(Prev(m), One(recvFrag) ++ u) = Fragment("req", written, Frags["req"])
      BY <2>2, <2>4, RequestTypes DEF Line
    <3> DEFINE f == Prev(m)
    <3> HIDE DEF f
    <3>2. /\ f \in FragmentType /\ Chain(f, One(recvFrag) ++ u)
          /\ EndOf(f, One(recvFrag) ++ u) = Fragment("req", written, Frags["req"])
      BY <3>1 DEF f
    <3>3. recvFrag = After(f) /\ Chain(recvFrag, u)
          /\ EndOf(recvFrag, u) = Fragment("req", written, Frags["req"])
      BY <2>3, <3>2, ChainFirst
    <3> QED
      BY <3>3 DEF f
  <2>6. m < Frags["req"]
    BY <1>0, <1>1, <2>1, <2>2 DEF Moving
  <2>7. recvFrag = Fragment("req", Current, m + 1)
    <3>1. Current \in Nat \ {0}
      BY RequestTypes
    <3>2. CASE m = 0
      <4>1. Prev(m).i = Frags["req"] /\ Prev(m).n = Current - 1 /\ (Current - 1) + 1 = Current
        BY <3>1, <3>2 DEF Prev, Fragment
      <4> QED
        BY <2>5, <3>2, <4>1 DEF After
    <3>3. CASE m # 0
      <4>1. Prev(m).i = m /\ Prev(m).n = Current
        BY <3>3 DEF Prev, Fragment
      <4> QED
        BY <2>2, <2>5, <2>6, <4>1, RequestSize DEF After
    <3> QED
      BY <3>2, <3>3
  <2>8. Current' = Current /\ Handling' /\ Prev(m + 1)' = recvFrag
    <3>1. Current' = Current /\ Handling'
      BY <1>1, <2>1 DEF Current, Handling
    <3>2. m + 1 # 0
      BY <2>2
    <3> QED
      BY <2>7, <3>1, <3>2 DEF Prev
  <2>9. Copied = 1
    BY <2>2, <2>6, RequestSize DEF Copied, Least
  <2>10. /\ r'.valid = r.valid /\ r'.len = m
         /\ \A i \in 1..BufferSize : r'.data[i] = IF i = m + 1 THEN recvFrag ELSE d[i]
    <3>1. r' = [r EXCEPT !.data[r.len + 1] = recvFrag]
      BY <1>1, <2>9
    <3>2. d \in [1..BufferSize -> FragmentType] /\ r = [valid |-> r.valid, len |-> m, data |-> d]
      BY <1>0, RequestTypes
    <3>3. r'.data = [d EXCEPT ![m + 1] = recvFrag] /\ r'.valid = r.valid /\ r'.len = m
      BY <1>0, <3>1, <3>2
    <3> DEFINE e == r'.data
    <3>4. e = [d EXCEPT ![m + 1] = recvFrag]
      BY <3>3
    <3> HIDE DEF d, e
    <3>5. \A i \in 1..BufferSize : e[i] = IF i = m + 1 THEN recvFrag ELSE d[i]
      BY <3>2, <3>4
    <3> QED
      BY <3>3, <3>5 DEF e
  <2>11. \A i \in 1..(m + 1) : r'.data[i] = Fragment("req", Current', i)
    <3>1. \A i \in 1..m : d[i] = Fragment("req", Current, i)
      BY <2>2 DEF Filled
    <3> HIDE DEF d
    <3>2. \A i \in 1..(m + 1) : i \in 1..BufferSize /\ (i = m + 1 \/ i \in 1..m)
      BY <2>2, <2>6, RequestSize
    <3> QED
      BY <2>7, <2>8, <2>10, <3>1, <3>2
  <2>12. NoneQueued' /\ PsElsewhere' /\ ~r'.valid
    BY <1>1, <2>1, <2>10 DEF Moving, NoneQueued, PsElsewhere
  <2>13. Line(r.len + 1)' /\ Filled(r.len + 1)'
    <3>1. Line(r.len + 1)' <=>
            /\ Chain(Prev(m + 1)', Flight')
            /\ EndOf(Prev(m + 1)', Flight') = Fragment("req", written', Frags["req"])
      BY <2>10 DEF Line, Chain, EndOf, Prev
    <3> QED
      BY <1>1, <2>4, <2>5, <2>8, <2>10, <2>11, <3>1 DEF Filled
  <2>14. /\ r'.len < Frags["req"] /\ recvFrag' = Fragment("req", Current', r'.len + 1)
         /\ rem' = BufferSize - r'.len
    BY <1>1, <2>2, <2>6, <2>7, <2>8, <2>10
  <2>15. Moving'
    BY <1>1, <2>12, <2>13, <2>14 DEF Moving
  <2> QED
    BY <2>8, <2>15 DEF RequestPlaced, Placed
<1> QED
  BY <1>2, <1>3

LEMMA RecvLoadPlaced ==
  ASSUME TypeOK, RequestPlaced, RecvLoad
  PROVE  RequestPlaced'
<1>1. /\ recvPc = "load" /\ recvPc' = "grow" /\ lenRead' = r.len
      /\ UNCHANGED <<written, handled, unsent, toSlave, recvFrag, rem, crowded, r, reqQ, psPc, arg>>
  BY DEF RecvLoad, hostTx, pserial
<1>2. CASE crowded
  BY <1>1, <1>2 DEF RequestPlaced
<1>3. CASE ~crowded
  <2>1. Moving /\ Handling
    BY <1>1, <1>3 DEF RequestPlaced, Placed, Arrived, Released
  <2>2. Current' = Current /\ Handling' /\ Flight' = Flight
    BY <1>1, <2>1 DEF Current, Handling, Flight, Taking
  <2>3. /\ NoneQueued' /\ PsElsewhere'
        /\ \A m : (Line(m)' <=> Line(m)) /\ (Filled(m)' <=> Filled(m))
    BY <1>1, <2>1, <2>2, SameLine DEF Moving, NoneQueued, PsElsewhere, Filled
  <2>4. Moving'
    BY <1>1, <2>1, <2>2, <2>3 DEF Moving
  <2> QED
    BY <2>2, <2>4 DEF RequestPlaced, Placed
<1> QED
  BY <1>2, <1>3

LEMMA RecvGrowPlaced ==
  ASSUME TypeOK, RequestPlaced, RecvGrow
  PROVE  RequestPlaced'
<1>0. PICK m \in Nat : m = r.len
  BY RequestTypes
<1>1. /\ recvPc = "grow" /\ r' = [r EXCEPT !.len = lenRead + Copied]
      /\ recvPc' = IF IsLast(recvFrag) THEN "valid" ELSE "idle"
      /\ UNCHANGED <<written, handled, unsent, toSlave, recvFrag, rem, lenRead, crowded, reqQ,
                     psPc, arg>>
  BY DEF RecvGrow, hostTx, pserial
<1>2. CASE crowded
  BY <1>1, <1>2 DEF RequestPlaced
<1>3. CASE ~crowded
  <2>1. Moving /\ Handling
    BY <1>1, <1>3 DEF RequestPlaced, Placed, Arrived, Released
  <2>2. /\ m \in Nat /\ m < Frags["req"] /\ Line(m + 1) /\ Filled(m + 1) /\ lenRead = m
        /\ rem = BufferSize - m /\ recvFrag = Fragment("req", Current, m + 1)
    BY <1>0, <1>1, <2>1, RequestTypes DEF Moving
  <2>3. Copied = 1
    BY <2>2, RequestSize DEF Copied, Least
  <2>4. r'.valid = r.valid /\ r'.data = r.data /\ r'.len = m + 1
    <3>1. r = [valid |-> r.valid, len |-> r.len, data |-> r.data]
      BY RequestTypes
    <3> QED
      BY <1>1, <2>2, <2>3, <3>1
  <2>5. IsLast(recvFrag) <=> m + 1 = Frags["req"]
    BY <2>2 DEF IsLast, Fragment
  <2>6. Current' = Current /\ Handling' /\ Flight' = Flight
    BY <1>1, <2>1 DEF Current, Handling, Flight, Taking
  <2>7. Line(r.len)' /\ Filled(r.len)'
    <3>1. Line(m + 1)'
      BY <1>1, <2>2, <2>6, SameLine
    <3>2. Line(r.len)' <=> Line(m + 1)'
      BY <2>4 DEF Line, Chain, EndOf, Prev
    <3> QED
      BY <1>1, <2>2, <2>4, <2>6, <3>1, <3>2 DEF Filled
  <2>8. NoneQueued' /\ PsElsewhere' /\ ~r'.valid
    BY <1>1, <2>1, <2>4 DEF Moving, NoneQueued, PsElsewhere
  <2>9. /\ r'.len <= Frags["req"]
        /\ recvPc' = "valid" => r'.len = Frags["req"]
        /\ recvPc' = "idle" => r'.len < Frags["req"]
        /\ recvPc' \in {"idle", "valid"}
    BY <1>1, <2>2, <2>4, <2>5, RequestSize
  <2>10. Moving'
    BY <2>7, <2>8, <2>9 DEF Moving
  <2> QED
    BY <2>6, <2>10 DEF RequestPlaced, Placed
<1> QED
  BY <1>2, <1>3

LEMMA RecvValidPlaced ==
  ASSUME TypeOK, RequestPlaced, RecvValid
  PROVE  RequestPlaced'
<1>1. /\ recvPc = "valid" /\ r' = [r EXCEPT !.valid = TRUE] /\ recvPc' = "parse"
      /\ UNCHANGED <<written, handled, unsent, toSlave, recvFrag, rem, lenRead, crowded, reqQ,
                     psPc, arg>>
  BY DEF RecvValid, hostTx, pserial
<1>2. CASE crowded
  BY <1>1, <1>2 DEF RequestPlaced
<1>3. CASE ~crowded
  <2>1. Moving /\ Handling
    BY <1>1, <1>3 DEF RequestPlaced, Placed, Arrived, Released
  <2>2. r.len = Frags["req"] /\ Line(r.len) /\ Filled(r.len)
    BY <1>1, <2>1 DEF Moving
  <2>3. r'.valid /\ r'.data = r.data /\ r'.len = r.len
    <3>1. r = [valid |-> r.valid, len |-> r.len, data |-> r.data]
      BY RequestTypes
    <3> QED
      BY <1>1, <3>1
  <2>4. Current' = Current /\ Handling' /\ Flight' = Flight
    BY <1>1, <2>1 DEF Current, Handling, Flight, Taking
  <2>5. Line(r.len)' /\ Filled(r.len)' /\ NoneQueued' /\ PsElsewhere'
    <3>1. Line(r.len)'
      BY <1>1, <2>2, <2>3, <2>4 DEF Line, Chain, EndOf, Prev
    <3> QED
      BY <1>1, <2>1, <2>2, <2>3, <2>4, <3>1 DEF Moving, NoneQueued, PsElsewhere, Filled
  <2>6. Arrived'
    BY <1>1, <2>2, <2>3, <2>5 DEF Arrived
  <2> QED
    BY <2>4, <2>6 DEF RequestPlaced, Placed
<1> QED
  BY <1>2, <1>3

\* The first m fragments of the buffer.
LEMMA PrefixWhole ==
  ASSUME NEW d \in [1..BufferSize -> FragmentType], NEW n \in Nat,
         \A i \in 1..Frags["req"] : d[i] = Fragment("req", n, i)
  PROVE  SubSeq(d, 1, Frags["req"]) = Whole("req", n)
<1> DEFINE k == Frags["req"]
<1>1. k \in Nat \ {0} /\ k <= BufferSize /\ BufferSize \in Nat
  BY RequestSize
<1>2. d \in Seq(FragmentType) /\ Len(d) = BufferSize
  BY BufferInSeq
<1>3. Whole("req", n) = [i \in 1..k |-> Fragment("req", n, i)]
  BY DEF Whole
<1> DEFINE w == Whole("req", n)
<1>4. \A i \in 1..k : w[i] = d[i]
  BY <1>3
<1>5. w \in Seq(FragmentType) /\ Len(w) = k
  <2>1. w \in Seq(FragmentType)
    BY WholeInSeq DEF Kinds
  <2> QED
    BY <1>1, <1>3, <2>1
<1> HIDE DEF k, w
<1> DEFINE p == SubSeq(d, 1, k)
<1>6. p \in Seq(FragmentType) /\ Len(p) = k /\ \A i \in 1..k : p[i] = d[i]
  BY <1>1, <1>2
<1> HIDE DEF p
<1>7. p = w
  BY <1>4, <1>5, <1>6, SameElements
<1> QED
  BY <1>7 DEF p, k, w

LEMMA RecvParsePlaced ==
  ASSUME TypeOK, RequestPlaced, RecvParse
  PROVE  RequestPlaced'
<1>1. /\ recvPc = "parse" /\ recvPc' = "idle"
      /\ reqQ' = Append(reqQ, [kind |-> "req", data |-> SubSeq(r.data, 1, r.len)])
      /\ UNCHANGED <<written, handled, unsent, toSlave, recvFrag, rem, lenRead, crowded, r,
                     psPc, arg>>
  BY DEF RecvParse, hostTx, pserial
<1>2. CASE crowded
  BY <1>1, <1>2 DEF RequestPlaced
<1>3. CASE ~crowded
  <2>1. Arrived /\ Handling
    BY <1>1, <1>3 DEF RequestPlaced, Placed, Moving, Released
  <2>2. r.len = Frags["req"] /\ Filled(r.len) /\ Line(r.len) /\ NoneQueued /\ PsElsewhere /\ r.valid
    BY <1>1, <2>1 DEF Arrived
  <2>3. SubSeq(r.data, 1, r.len) = Whole("req", Current)
    <3>1. \A i \in 1..Frags["req"] : r.data[i] = Fragment("req", Current, i)
      BY <2>2 DEF Filled
    <3>2. Current \in Nat
      BY RequestTypes
    <3> QED
      BY <2>2, <3>1, <3>2, RequestTypes, PrefixWhole
  <2>4. Current' = Current /\ Handling' /\ Flight' = Flight
    BY <1>1, <2>1 DEF Current, Handling, Flight, Taking
  <2>5. OneQueued'
    <3> DEFINE a == [kind |-> "req", data |-> Whole("req", Current)]
    <3>1. Whole("req", Current) \in Seq(FragmentType)
      BY RequestTypes, WholeInSeq DEF Kinds
    <3>2. a \in ReqArg
      BY <3>1 DEF ReqArg
    <3>3. reqQ' = Append(reqQ, a) /\ Current' = Current /\ PserialOK
      BY <1>1, <2>3, <2>4 DEF TypeOK
    <3>4. a = [kind |-> "req", data |-> Whole("req", Current)]
      OBVIOUS
    <3> HIDE DEF a
    <3> QED
      BY <2>2, <3>2, <3>3, <3>4, RequestQueued
  <2>6. Line(r.len)' /\ Filled(r.len)' /\ PsElsewhere'
    <3>1. Line(r.len)'
      BY <1>1, <2>2, <2>4 DEF Line, Chain, EndOf, Prev
    <3> QED
      BY <1>1, <2>2, <2>4, <3>1 DEF Filled, PsElsewhere
  <2>7. Arrived'
    BY <1>1, <2>2, <2>5, <2>6 DEF Arrived
  <2> QED
    BY <2>4, <2>7 DEF RequestPlaced, Placed
<1> QED
  BY <1>2, <1>3

LEMMA FunctionLength ==
  ASSUME NEW n \in Nat, NEW w \in Seq(FragmentType), DOMAIN w = 1..n
  PROVE  Len(w) = n
  OBVIOUS

LEMMA SendEventPlaced ==
  ASSUME TypeOK, RequestPlaced, SendEvent
  PROVE  RequestPlaced'
<1>1. /\ reqQ' = Append(reqQ, [kind |-> "evt", data |-> Whole("evt", events + 1)])
      /\ UNCHANGED <<written, handled, unsent, toSlave, recvPc, recvFrag, rem, lenRead, crowded, r,
                     psPc, arg>>
  BY DEF SendEvent, hostTx, recvTask, pserial
<1>2. Current' = Current /\ (Handling' <=> Handling) /\ Flight' = Flight
  BY <1>1 DEF Current, Handling, Flight, Taking
<1>3. (NoneQueued => NoneQueued') /\ (OneQueued => OneQueued')
  <2> DEFINE a == [kind |-> "evt", data |-> Whole("evt", events + 1)]
  <2>1. events + 1 \in Nat
    BY BoundsAssumption DEF TypeOK, PserialOK
  <2>2. Whole("evt", events + 1) \in Seq(FragmentType)
    BY <2>1, WholeInSeq DEF Kinds
  <2>3. a \in ReqArg /\ a.kind = "evt"
    BY <2>2 DEF ReqArg
  <2>4. reqQ' = Append(reqQ, a) /\ Current' = Current /\ PserialOK
    BY <1>1, <1>2 DEF TypeOK
  <2> HIDE DEF a
  <2> QED
    BY <2>3, <2>4, EventQueued
<1>4. (PsElsewhere' <=> PsElsewhere) /\ (PsHolds' <=> PsHolds)
  BY <1>1, <1>2 DEF PsElsewhere, PsHolds
<1>5. \A m : (Line(m)' <=> Line(m)) /\ (Filled(m)' <=> Filled(m))
  BY <1>1, <1>2, SameLine DEF Filled
<1>6. Moving => Moving'
  BY <1>1, <1>2, <1>3, <1>4, <1>5 DEF Moving
<1>7. (Arrived => Arrived') /\ (Released => Released')
  BY <1>1, <1>3, <1>4, <1>5 DEF Arrived, Released
<1> QED
  BY <1>1, <1>2, <1>6, <1>7 DEF RequestPlaced, Placed

LEMMA PsTakePlaced ==
  ASSUME TypeOK, RequestPlaced, PsTake
  PROVE  RequestPlaced'
<1>1. /\ psPc = "idle" /\ reqQ # << >> /\ reqQ' = Tail(reqQ) /\ arg' = Head(reqQ)
      /\ psPc' = IF arg'.kind = "evt" THEN "event" ELSE "read"
      /\ UNCHANGED <<written, handled, unsent, toSlave, recvPc, recvFrag, rem, lenRead, crowded, r>>
  BY DEF PsTake, hostTx, recvTask
<1>2. Current' = Current /\ Handling' /\ Flight' = Flight
  BY <1>1 DEF Current, Handling, Flight, Taking
<1>3. /\ NoneQueued => Head(reqQ).kind = "evt" /\ NoneQueued'
      /\ OneQueued => \/ Head(reqQ).kind = "evt" /\ OneQueued'
                      \/ /\ Head(reqQ) = [kind |-> "req", data |-> Whole("req", Current)]
                         /\ NoneQueued'
  BY <1>1, <1>2, ArgTaken DEF TypeOK
<1>4. Head(reqQ).kind = "evt" => PsElsewhere'
  BY <1>1 DEF PsElsewhere
<1>5. \A m : (Line(m)' <=> Line(m)) /\ (Filled(m)' <=> Filled(m))
  BY <1>1, <1>2, SameLine DEF Filled
<1>6. Moving => Moving'
  BY <1>1, <1>2, <1>3, <1>4, <1>5 DEF Moving
<1>7. ~Released
  BY <1>1 DEF Released
<1>8. ASSUME Arrived PROVE Arrived'
  <2>1. CASE recvPc = "parse" /\ NoneQueued
    BY <1>1, <1>3, <1>4, <1>5, <1>8, <2>1 DEF Arrived
  <2>2. CASE recvPc = "idle" /\ OneQueued /\ Head(reqQ).kind = "evt" /\ OneQueued'
    BY <1>1, <1>4, <1>5, <1>8, <2>2 DEF Arrived
  <2>3. CASE /\ recvPc = "idle" /\ OneQueued /\ NoneQueued'
             /\ Head(reqQ) = [kind |-> "req", data |-> Whole("req", Current)]
    <3>1. PsHolds' /\ psPc' = "read"
      BY <1>1, <1>2, <2>3 DEF PsHolds
    <3> QED
      BY <1>1, <1>5, <1>8, <2>3, <3>1 DEF Arrived
  <2>4. \/ recvPc = "parse" /\ NoneQueued
        \/ recvPc = "idle" /\ OneQueued
    <3>1. psPc = "idle" /\ Arrived
      BY <1>1, <1>8
    <3> QED
      BY <3>1 DEF Arrived
  <2> QED
    BY <1>3, <2>1, <2>2, <2>3, <2>4
<1> QED
  BY <1>1, <1>2, <1>6, <1>7, <1>8 DEF RequestPlaced, Placed

\* serial_read_data makes its copy while the buffer is valid, and so of the request.
LEMMA PsReadPlaced ==
  ASSUME TypeOK, RequestPlaced, PsRead
  PROVE  RequestPlaced'
<1>1. /\ psPc = "read"
      /\ arg' = [arg EXCEPT !.data = SubSeq(IF r.valid THEN r.data ELSE arg.data, 1,
                                            Least(Len(arg.data), r.len))]
      /\ psPc' = IF r.valid THEN "clearValid" ELSE "handle"
      /\ UNCHANGED <<written, handled, unsent, toSlave, recvPc, recvFrag, rem, lenRead, crowded, r,
                     reqQ>>
  BY DEF PsRead, hostTx, recvTask
<1>2. CASE crowded
  BY <1>1, <1>2 DEF RequestPlaced
<1>3. CASE ~crowded
  <2>1. Arrived
    BY <1>1, <1>3 DEF RequestPlaced, Placed, Moving, Released, PsElsewhere
  <2>2. /\ r.valid /\ r.len = Frags["req"] /\ Filled(r.len) /\ recvPc = "idle" /\ NoneQueued
        /\ PsHolds /\ Line(r.len)
    BY <1>1, <2>1 DEF Arrived, PsElsewhere
  <2>3. Least(Len(arg.data), r.len) = Frags["req"]
    <3>1. arg.data = [i \in 1..Frags["req"] |-> Fragment("req", Current, i)]
      BY <2>2 DEF PsHolds, Whole
    <3>2. Len(arg.data) = Frags["req"]
      <4> DEFINE w == arg.data
      <4>1. w \in Seq(FragmentType) /\ DOMAIN w = 1..Frags["req"]
        BY <3>1 DEF TypeOK, PserialOK
      <4> HIDE DEF w
      <4>2. Len(w) = Frags["req"]
        BY <4>1, RequestSize, FunctionLength
      <4> QED
        BY <4>2 DEF w
    <3> QED
      BY <2>2, <3>2, RequestSize DEF Least
  <2>4. SubSeq(r.data, 1, Frags["req"]) = Whole("req", Current)
    <3>1. \A i \in 1..Frags["req"] : r.data[i] = Fragment("req", Current, i)
      BY <2>2 DEF Filled
    <3>2. Current \in Nat
      BY RequestTypes
    <3> QED
      BY <3>1, <3>2, RequestTypes, PrefixWhole
  <2>5. Current' = Current /\ Handling' /\ Flight' = Flight /\ psPc' = "clearValid"
    BY <1>1, <2>2 DEF Current, Handling, Flight, Taking
  <2>6. PsHolds'
    <3>1. arg \in [kind : {"none", "req", "evt"}, data : Seq(FragmentType)]
      BY DEF TypeOK, PserialOK
    <3>2. arg' = [arg EXCEPT !.data = Whole("req", Current)]
      BY <1>1, <2>2, <2>3, <2>4
    <3>3. arg'.kind = arg.kind /\ arg'.data = Whole("req", Current)
      BY <3>1, <3>2
    <3> QED
      BY <2>2, <2>5, <3>3 DEF PsHolds
  <2>7. Line(r.len)' /\ Filled(r.len)' /\ NoneQueued'
    <3>1. Line(r.len)'
      BY <1>1, <2>2, <2>5 DEF Line, Chain, EndOf, Prev
    <3> QED
      BY <1>1, <2>2, <2>5, <3>1 DEF Filled, NoneQueued
  <2>8. Arrived'
    BY <1>1, <2>2, <2>5, <2>6, <2>7 DEF Arrived
  <2> QED
    BY <2>5, <2>8 DEF RequestPlaced, Placed
<1> QED
  BY <1>2, <1>3

LEMMA PsClearValidPlaced ==
  ASSUME TypeOK, RequestPlaced, PsClearValid
  PROVE  RequestPlaced'
<1>1. /\ psPc = "clearValid" /\ psPc' = "clearLen" /\ r' = [r EXCEPT !.valid = FALSE]
      /\ UNCHANGED <<written, handled, unsent, toSlave, recvPc, recvFrag, rem, lenRead, crowded,
                     reqQ, arg>>
  BY DEF PsClearValid, hostTx, recvTask
<1>2. CASE crowded
  BY <1>1, <1>2 DEF RequestPlaced
<1>3. CASE ~crowded
  <2>1. Arrived
    BY <1>1, <1>3 DEF RequestPlaced, Placed, Moving, Released, PsElsewhere
  <2>2. r.len = Frags["req"] /\ Line(r.len) /\ recvPc = "idle" /\ NoneQueued /\ PsHolds
    BY <1>1, <2>1 DEF Arrived, PsElsewhere
  <2>3. ~r'.valid /\ r'.len = r.len
    <3>1. r = [valid |-> r.valid, len |-> r.len, data |-> r.data]
      BY RequestTypes
    <3> QED
      BY <1>1, <3>1
  <2>4. Current' = Current /\ Handling' /\ Flight' = Flight
    BY <1>1 DEF Current, Handling, Flight, Taking
  <2>5. NoneQueued' /\ PsHolds' /\ Line(r.len)'
    <3>1. Line(r.len)'
      BY <1>1, <2>2, <2>3, <2>4 DEF Line, Chain, EndOf, Prev
    <3> QED
      BY <1>1, <2>2, <2>4, <3>1 DEF NoneQueued, PsHolds
  <2>6. Released'
    BY <1>1, <2>2, <2>3, <2>5 DEF Released
  <2> QED
    BY <2>4, <2>6 DEF RequestPlaced, Placed
<1> QED
  BY <1>2, <1>3

\* The buffer is the next request's from here on.
LEMMA PsClearLenPlaced ==
  ASSUME TypeOK, RequestPlaced, PsClearLen
  PROVE  RequestPlaced'
<1>1. /\ psPc = "clearLen" /\ psPc' = "handle" /\ r' = [r EXCEPT !.len = 0]
      /\ UNCHANGED <<written, handled, unsent, toSlave, recvPc, recvFrag, rem, lenRead, crowded,
                     reqQ, arg>>
  BY DEF PsClearLen, hostTx, recvTask
<1>2. CASE crowded
  BY <1>1, <1>2 DEF RequestPlaced
<1>3. CASE ~crowded
  <2>1. Released
    BY <1>1, <1>3 DEF RequestPlaced, Placed, Moving, Arrived, PsElsewhere
  <2>2. /\ ~r.valid /\ recvPc = "idle" /\ NoneQueued /\ PsHolds /\ Line(r.len)
        /\ r.len = Frags["req"]
    BY <2>1 DEF Released
  <2>3. r'.valid = r.valid /\ r'.len = 0
    <3>1. r = [valid |-> r.valid, len |-> r.len, data |-> r.data]
      BY RequestTypes
    <3> QED
      BY <1>1, <3>1
  <2>4. handled \in Nat /\ Current = handled + 1 /\ Current' = handled + 2 /\ Flight' = Flight
    BY <1>1, RequestTypes DEF Current, Flight, Taking
  <2>5. Prev(0)' = Prev(r.len)
    <3>1. Prev(r.len) = Fragment("req", handled + 1, Frags["req"])
      BY <2>2, <2>4, RequestSize DEF Prev
    <3>2. Prev(0)' = Fragment("req", (handled + 2) - 1, Frags["req"])
      BY <2>4 DEF Prev
    <3>3. (handled + 2) - 1 = handled + 1
      BY <2>4
    <3> QED
      BY <3>1, <3>2, <3>3
  <2>6. Line(r.len)'
    <3>1. Line(r.len)' <=>
            /\ Chain(Prev(0)', Flight')
            /\ EndOf(Prev(0)', Flight') = Fragment("req", written', Frags["req"])
      BY <2>3 DEF Line, Chain, EndOf, Prev
    <3> QED
      BY <1>1, <2>2, <2>4, <2>5, <3>1 DEF Line
  <2>7. Filled(r.len)' /\ NoneQueued' /\ PsElsewhere'
    BY <1>1, <2>2, <2>3 DEF Filled, NoneQueued, PsElsewhere
  <2>8. r'.len < Frags["req"] /\ r'.len <= Frags["req"] /\ ~r'.valid /\ recvPc' = "idle"
    BY <1>1, <2>2, <2>3, RequestSize
  <2>9. Moving'
    BY <2>6, <2>7, <2>8 DEF Moving
  <2>10. Handling'
    BY <1>1, <2>2, <2>4 DEF Handling, PsHolds
  <2> QED
    BY <2>9, <2>10 DEF RequestPlaced, Placed
<1> QED
  BY <1>2, <1>3

LEMMA PsHandlePlaced ==
  ASSUME TypeOK, RequestPlaced, PsHandle
  PROVE  RequestPlaced'
<1>1. /\ psPc = "handle" /\ handled' = handled + 1 /\ psPc' \in {"send", "idle"}
      /\ UNCHANGED <<written, unsent, toSlave, recvPc, recvFrag, rem, lenRead, crowded, r, reqQ>>
  BY DEF PsHandle, hostTx, recvTask
<1>2. Current' = Current /\ Handling' /\ PsElsewhere /\ PsElsewhere'
  <2>1. handled \in Nat
    BY RequestTypes
  <2>2. Current' = (handled + 1) + 1 /\ Current = handled + 2
    BY <1>1 DEF Current
  <2>3. (handled + 1) + 1 = handled + 2
    BY <2>1
  <2> QED
    BY <1>1, <2>2, <2>3 DEF Handling, PsElsewhere
<1> QED
  BY <1>1, <1>2, PlacedElsewhere

LEMMA PlacedInit == Init => RequestPlaced
<1> SUFFICES ASSUME Init PROVE RequestPlaced
  OBVIOUS
<1>1. Taking = << >> /\ toSlave = << >> /\ unsent = << >>
  BY DEF Init, Taking
<1>2. << >> \in Seq(FragmentType)
  OBVIOUS
<1>3. << >> ++ << >> = << >>
  BY <1>2, JoinedNone
<1>4. Flight = << >>
  BY <1>1, <1>3 DEF Flight
<1>5. Prev(0) = Fragment("req", 0, Frags["req"])
  BY DEF Init, Prev, Current
<1>6. Line(0)
  BY <1>4, <1>5 DEF Line, Chain, EndOf, Init
<1>7. Filled(0) /\ 0 < Frags["req"]
  BY RequestSize DEF Filled
<1>8. NoneQueued /\ PsElsewhere /\ Handling
  BY DEF Init, NoneQueued, PsElsewhere, Handling
<1>9. r.len = 0 /\ ~r.valid /\ recvPc = "idle"
  BY DEF Init
<1>10. Moving
  <2>1. Line(r.len) /\ Filled(r.len) /\ r.len < Frags["req"] /\ r.len <= Frags["req"]
    BY <1>6, <1>7, <1>9, RequestSize
  <2> QED
    BY <1>8, <1>9, <2>1 DEF Moving
<1> QED
  BY <1>8, <1>10 DEF RequestPlaced, Placed

LEMMA PlacedStep ==
  ASSUME TypeOK, RequestPlaced, [Next]_vars
  PROVE  RequestPlaced'
<1>1. CASE HostWrite \/ HostFragment
  BY <1>1, HostWritePlaced, HostFragmentPlaced
<1>2. CASE RecvTask
  BY <1>2, RecvTakePlaced, RecvCopyPlaced, RecvLoadPlaced, RecvGrowPlaced, RecvValidPlaced,
     RecvParsePlaced
  DEF RecvTask
<1>3. CASE SendEvent
  BY <1>3, SendEventPlaced
<1>4. CASE PsTake \/ PsRead \/ PsClearValid \/ PsClearLen \/ PsHandle
  BY <1>4, PsTakePlaced, PsReadPlaced, PsClearValidPlaced, PsClearLenPlaced, PsHandlePlaced
<1>5. CASE PsEvent \/ PsSend
  <2>1. /\ PsElsewhere /\ PsElsewhere' /\ Current' = Current /\ Handling'
        /\ UNCHANGED <<written, toSlave, unsent, recvPc, recvFrag, rem, lenRead, crowded, r, reqQ>>
    BY <1>5 DEF PsEvent, PsSend, PsElsewhere, Current, Handling, hostTx, recvTask
  <2> QED
    BY <2>1, PlacedElsewhere
<1>6. CASE HostRxTask \/ RpcRx \/ UNCHANGED vars
  <2>1. UNCHANGED <<written, unsent, toSlave, handled, recvPc, recvFrag, rem, lenRead, crowded, r,
                    reqQ, psPc, arg>>
    BY <1>6 DEF HostRxTask, HostTake, HostPut, HostSignal, RpcRx, RxWait, RxRead, RxProcess,
       vars, hostTx, recvTask, pserial
  <2>2. Flight' = Flight
    BY <2>1 DEF Flight, Taking
  <2> QED
    BY <2>1, <2>2, PlacedFrame
<1> QED
  BY <1>1, <1>2, <1>3, <1>4, <1>5, <1>6 DEF Next, PserialTask

-----------------------------------------------------------------------------
(* Responses and events: what is under way consists of whole messages.      *)

Message(x) == \E kind \in {"rsp", "evt"}, n \in Nat : x = Whole(kind, n)
Event(x) == \E n \in Nat : x = Whole("evt", n)
Follows(f, g) == IF IsLast(f) THEN g.i = 1 ELSE g = Fragment(f.kind, f.n, f.i + 1)
Messages(s) ==
    /\ s # << >> => s[1].i = 1 /\ IsLast(s[Len(s)])
    /\ \A j \in 1..Len(s) : s[j].kind \in {"rsp", "evt"}
    /\ \A j \in 1..(Len(s) - 1) : Follows(s[j], s[j + 1])

OneMessage(s) == \A j \in 1..Len(s) : IsLast(s[j]) <=> j = Len(s)

\* The fragments of messages that left rpc_req_handler and are not yet whole again.
Stream == accumulated ++ (toHost ++ reply)
Beginning(s) == \A j \in 1..Len(s) : s[j] = Fragment(s[1].kind, s[1].n, j)

StreamWhole ==
    /\ Messages(Stream) /\ Beginning(accumulated)
    /\ IF psPc = "send" THEN reply # << >> /\ OneMessage(reply) ELSE reply = << >>
HostWhole ==
    /\ hostPc = "put" => Message(hostMsg)
    /\ \A i \in 1..Len(serialQ) : Message(serialQ[i])
    /\ rxPc = "process" => Message(rxMsg)
ArgsWhole ==
    /\ psPc = "event" => Event(arg.data)
    /\ \A i \in 1..Len(reqQ) : reqQ[i].kind = "evt" => Event(reqQ[i].data)
WholeMessages == StreamWhole /\ HostWhole /\ ArgsWhole

-----------------------------------------------------------------------------
(* The numbers of the messages under way: the last fragment stands for its  *)
(* message.                                                                 *)

Marked == [if : Kinds \cup {"piece"}, n : Nat]
Mark(f) == [if |-> IF IsLast(f) THEN f.kind ELSE "piece", n |-> f.n]
MessageMark(x) == Mark(x[Len(x)])
ArgMark(a) == IF a.kind = "evt" THEN MessageMark(a.data) ELSE [if |-> "req", n |-> 0]

Image(g, s) == [i \in 1..Len(s) |-> g[s[i]]]
NonEmpty == Seq(FragmentType) \ {<< >>}
Args == {a \in ReqArg : a.kind = "evt" => a.data # << >>}
Marks(s) == Image([f \in FragmentType |-> Mark(f)], s)
MessageMarks(q) == Image([x \in NonEmpty |-> MessageMark(x)], q)
ArgMarks(q) == Image([a \in Args |-> ArgMark(a)], q)

\* The stages between serial_write_data and process_rpc_rx_msg, and the events
\* pserial_task has before it.
Processing == IF rxPc = "process" THEN One(MessageMark(rxMsg)) ELSE << >>
Putting == IF hostPc = "put" THEN One(MessageMark(hostMsg)) ELSE << >>
Replying == IF psPc = "send" THEN One(MessageMark(reply)) ELSE << >>
Indicated == IF psPc = "event" THEN One(MessageMark(arg.data)) ELSE << >>

Received == Processing ++ (MessageMarks(serialQ) ++ Putting)
Sent == Marks(toHost) ++ Replying
Outgoing == Received ++ Sent
EventsQueued == Indicated ++ ArgMarks(reqQ)

\* Above those that were read: every response up to the last request replied and
\* every event up to the last one sent, once and in order.
BothExact(o, e, a, b, c, d) ==
    Exact(o, {"rsp"}, a, b) /\ Exact(o ++ e, {"evt"}, c, d)
Numbers == BothExact(Outgoing, EventsQueued, answers, replied, eventsRead, events)

LEMMA ImageType ==
  ASSUME NEW S, NEW g, \A x \in S : g[x] \in Marked, NEW s \in Seq(S)
  PROVE  /\ Image(g, s) \in Seq(Marked) /\ Len(Image(g, s)) = Len(s) /\ Len(s) \in Nat
         /\ \A i \in 1..Len(s) : Image(g, s)[i] = g[s[i]]
<1> DEFINE m == Image(g, s) k == Len(s)
<1>1. k \in Nat /\ \A i \in 1..k : s[i] \in S
  OBVIOUS
<1>2. m \in [1..k -> Marked] /\ \A i \in 1..k : m[i] = g[s[i]]
  BY <1>1 DEF Image
<1> HIDE DEF m, k
<1>3. m \in Seq(Marked) /\ Len(m) = k
  BY <1>1, <1>2
<1> QED
  BY <1>1, <1>2, <1>3 DEF m, k

LEMMA ImageEmpty == \A g : Image(g, << >>) = << >>
<1> TAKE g
<1> DEFINE m == Image(g, << >>)
<1>1. m \in [1..0 -> Marked]
  BY DEF Image
<1> HIDE DEF m
<1>2. m \in Seq(Marked) /\ Len(m) = 0
  BY <1>1
<1> QED
  BY <1>2, EmptyFacts DEF m

LEMMA ImageAppend ==
  ASSUME NEW S, NEW g, \A x \in S : g[x] \in Marked, NEW s \in Seq(S), NEW p \in S
  PROVE  Image(g, Append(s, p)) = Append(Image(g, s), g[p])
<1> DEFINE t == Append(s, p) k == Len(s) m == Image(g, s) n == Image(g, t)
<1>1. /\ k \in Nat /\ t \in Seq(S) /\ Len(t) = k + 1 /\ t[k + 1] = p
      /\ \A i \in 1..k : t[i] = s[i]
  BY AppendFacts, AppendElements
<1> HIDE DEF t
<1>2. m \in Seq(Marked) /\ Len(m) = k /\ \A i \in 1..k : m[i] = g[s[i]]
  BY ImageType
<1>3. n \in Seq(Marked) /\ Len(n) = k + 1 /\ \A i \in 1..(k + 1) : n[i] = g[t[i]]
  <2>1. n \in Seq(Marked) /\ Len(n) = Len(t) /\ \A i \in 1..Len(t) : n[i] = g[t[i]]
    BY <1>1, ImageType
  <2> QED
    BY <1>1, <2>1
<1> DEFINE u == Append(m, g[p])
<1> HIDE DEF m, n, k
<1>4. g[p] \in Marked
  OBVIOUS
<1>5. /\ u \in Seq(Marked) /\ Len(u) = k + 1 /\ u[k + 1] = g[p]
      /\ \A i \in 1..k : u[i] = m[i]
  BY <1>2, <1>4, AppendFacts, AppendElements
<1> HIDE DEF u
<1>6. \A i \in 1..(k + 1) : n[i] = u[i]
  BY <1>1, <1>2, <1>3, <1>5
<1>7. n = u
  BY <1>3, <1>5, <1>6, SameElements
<1> QED
  BY <1>7 DEF n, u, m, t

LEMMA ImageTail ==
  ASSUME NEW S, NEW g, \A x \in S : g[x] \in Marked, NEW s \in Seq(S), s # << >>
  PROVE  /\ Image(g, s) # << >> /\ Head(Image(g, s)) = g[Head(s)]
         /\ Tail(Image(g, s)) = Image(g, Tail(s))
<1> DEFINE t == Tail(s) k == Len(s) m == Image(g, s) n == Image(g, t)
<1>1. /\ k \in Nat \ {0} /\ t \in Seq(S) /\ Len(t) = k - 1 /\ Head(s) = s[1]
      /\ \A i \in 1..(k - 1) : t[i] = s[i + 1]
  BY TailFacts, TailElements
<1> HIDE DEF t
<1>2. m \in Seq(Marked) /\ Len(m) = k /\ \A i \in 1..k : m[i] = g[s[i]]
  BY ImageType
<1>3. n \in Seq(Marked) /\ Len(n) = k - 1 /\ \A i \in 1..(k - 1) : n[i] = g[t[i]]
  <2>1. n \in Seq(Marked) /\ Len(n) = Len(t) /\ \A i \in 1..Len(t) : n[i] = g[t[i]]
    BY <1>1, ImageType
  <2> QED
    BY <1>1, <2>1
<1> DEFINE u == Tail(m)
<1> HIDE DEF m, n, k
<1>4. m # << >>
  BY <1>1, <1>2
<1>5. /\ u \in Seq(Marked) /\ Len(u) = k - 1 /\ Head(m) = m[1]
      /\ \A i \in 1..(k - 1) : u[i] = m[i + 1]
  BY <1>2, <1>4, TailFacts, TailElements
<1> HIDE DEF u
<1>6. \A i \in 1..(k - 1) : i + 1 \in 1..k
  BY <1>1
<1>7. \A i \in 1..(k - 1) : n[i] = u[i]
  <2> TAKE i \in 1..(k - 1)
  <2>1. t[i] = s[i + 1] /\ n[i] = g[t[i]] /\ u[i] = m[i + 1] /\ i + 1 \in 1..k
    BY <1>1, <1>3, <1>5, <1>6
  <2>2. m[i + 1] = g[s[i + 1]]
    BY <1>2, <2>1
  <2> QED
    BY <2>1, <2>2
<1>8. n = u
  <2>1. Len(n) = Len(u) /\ \A i \in 1..Len(n) : n[i] = u[i]
    BY <1>3, <1>5, <1>7
  <2> QED
    BY <1>3, <1>5, <2>1, SameElements
<1>9. 1 \in 1..k
  BY <1>1
<1> QED
  BY <1>1, <1>2, <1>4, <1>5, <1>8, <1>9 DEF n, u, m, t

LEMMA ImageFacts ==
  ASSUME NEW S, NEW g, \A x \in S : g[x] \in Marked, NEW s \in Seq(S)
  PROVE  /\ Image(g, s) \in Seq(Marked)
         /\ \A p \in S : Image(g, Append(s, p)) = Append(Image(g, s), g[p])
         /\ s # << >> => /\ Image(g, s) # << >> /\ Head(s) \in S /\ Head(Image(g, s)) = g[Head(s)]
                         /\ Tail(Image(g, s)) = Image(g, Tail(s))
<1>1. Image(g, s) \in Seq(Marked)
  BY ImageType
<1>2. ASSUME NEW p \in S PROVE Image(g, Append(s, p)) = Append(Image(g, s), g[p])
  BY ImageAppend
<1>3. ASSUME s # << >>
      PROVE  /\ Image(g, s) # << >> /\ Head(s) \in S /\ Head(Image(g, s)) = g[Head(s)]
             /\ Tail(Image(g, s)) = Image(g, Tail(s))
  BY <1>3, ImageTail, TailFacts
<1> QED
  BY <1>1, <1>2, <1>3

LEMMA MarkedNumbered == Numbered(Marked)
  BY DEF Numbered, Marked

LEMMA MarkType ==
  /\ \A f \in FragmentType : Mark(f) \in Marked
  /\ \A x \in NonEmpty : MessageMark(x) \in Marked
  /\ \A a \in Args : ArgMark(a) \in Marked
<1>1. ASSUME NEW f \in FragmentType PROVE Mark(f) \in Marked
  <2>1. f.kind \in Kinds /\ f.n \in Nat
    BY DEF FragmentType
  <2> QED
    BY <2>1 DEF Mark, Marked
<1>2. ASSUME NEW x \in NonEmpty PROVE MessageMark(x) \in Marked
  <2>1. x[Len(x)] \in FragmentType
    BY DEF NonEmpty
  <2> QED
    BY <1>1, <2>1 DEF MessageMark
<1>3. ASSUME NEW a \in Args PROVE ArgMark(a) \in Marked
  <2>1. CASE a.kind = "evt"
    <3>1. a.data \in NonEmpty
      BY <2>1 DEF Args, ReqArg, NonEmpty
    <3> QED
      BY <1>2, <2>1, <3>1 DEF ArgMark
  <2>2. CASE a.kind # "evt"
    BY <2>2 DEF ArgMark, Marked, Kinds
  <2> QED
    BY <2>1, <2>2
<1> QED
  BY <1>1, <1>2, <1>3

LEMMA MarksFacts ==
  ASSUME NEW s \in Seq(FragmentType)
  PROVE  /\ Marks(s) \in Seq(Marked)
         /\ \A p \in FragmentType : Marks(Append(s, p)) = Append(Marks(s), Mark(p))
         /\ s # << >> => /\ Marks(s) # << >> /\ Head(Marks(s)) = Mark(Head(s))
                         /\ Tail(Marks(s)) = Marks(Tail(s))
<1> DEFINE g == [f \in FragmentType |-> Mark(f)]
<1>1. (\A x \in FragmentType : g[x] \in Marked) /\ \A f \in FragmentType : g[f] = Mark(f)
  BY MarkType
<1>2. \A t : Marks(t) = Image(g, t)
  BY DEF Marks
<1> HIDE DEF g
<1>3. /\ Image(g, s) \in Seq(Marked)
      /\ \A p \in FragmentType : Image(g, Append(s, p)) = Append(Image(g, s), g[p])
      /\ s # << >> => /\ Image(g, s) # << >> /\ Head(s) \in FragmentType
                      /\ Head(Image(g, s)) = g[Head(s)]
                      /\ Tail(Image(g, s)) = Image(g, Tail(s))
  BY <1>1, ImageFacts
<1> QED
  BY <1>1, <1>2, <1>3

LEMMA MessageMarksFacts ==
  ASSUME NEW q \in Seq(NonEmpty)
  PROVE  /\ MessageMarks(q) \in Seq(Marked)
         /\ \A x \in NonEmpty : MessageMarks(Append(q, x)) = Append(MessageMarks(q), MessageMark(x))
         /\ q # << >> => /\ MessageMarks(q) # << >>
                         /\ Head(MessageMarks(q)) = MessageMark(Head(q))
                         /\ Tail(MessageMarks(q)) = MessageMarks(Tail(q))
<1> DEFINE g == [x \in NonEmpty |-> MessageMark(x)]
<1>1. (\A x \in NonEmpty : g[x] \in Marked) /\ \A x \in NonEmpty : g[x] = MessageMark(x)
  BY MarkType
<1>2. \A t : MessageMarks(t) = Image(g, t)
  BY DEF MessageMarks
<1> HIDE DEF g
<1>3. /\ Image(g, q) \in Seq(Marked)
      /\ \A p \in NonEmpty : Image(g, Append(q, p)) = Append(Image(g, q), g[p])
  BY <1>1, ImageFacts
<1>4. ASSUME q # << >>
      PROVE  /\ Image(g, q) # << >> /\ Head(q) \in NonEmpty
             /\ Head(Image(g, q)) = g[Head(q)]
             /\ Tail(Image(g, q)) = Image(g, Tail(q))
  BY <1>1, <1>4, ImageFacts
<1> QED
  BY <1>1, <1>2, <1>3, <1>4

LEMMA ArgMarksFacts ==
  ASSUME NEW q \in Seq(Args)
  PROVE  /\ ArgMarks(q) \in Seq(Marked)
         /\ \A a \in Args : ArgMarks(Append(q, a)) = Append(ArgMarks(q), ArgMark(a))
         /\ q # << >> => /\ ArgMarks(q) # << >>
                         /\ Head(ArgMarks(q)) = ArgMark(Head(q))
                         /\ Tail(ArgMarks(q)) = ArgMarks(Tail(q))
<1> DEFINE g == [a \in Args |-> ArgMark(a)]
<1>1. (\A x \in Args : g[x] \in Marked) /\ \A a \in Args : g[a] = ArgMark(a)
  BY MarkType
<1>2. \A t : ArgMarks(t) = Image(g, t)
  BY DEF ArgMarks
<1> HIDE DEF g
<1>3. /\ Image(g, q) \in Seq(Marked)
      /\ \A p \in Args : Image(g, Append(q, p)) = Append(Image(g, q), g[p])
      /\ q # << >> => /\ Image(g, q) # << >> /\ Head(q) \in Args
                      /\ Head(Image(g, q)) = g[Head(q)]
                      /\ Tail(Image(g, q)) = Image(g, Tail(q))
  BY <1>1, ImageFacts
<1> QED
  BY <1>1, <1>2, <1>3

LEMMA LastFragment ==
  ASSUME NEW kind \in Kinds, NEW n, NEW i
  PROVE  IsLast(Fragment(kind, n, i)) <=> i = Frags[kind]
  BY DEF IsLast, Fragment

LEMMA WholeFacts ==
  ASSUME NEW kind \in {"rsp", "evt"}, NEW n \in Nat
  PROVE  /\ kind \in Kinds /\ Frags[kind] \in Nat \ {0}
         /\ Whole(kind, n) \in Seq(FragmentType) /\ Whole(kind, n) \in NonEmpty
         /\ Whole(kind, n) # << >> /\ Len(Whole(kind, n)) = Frags[kind]
         /\ \A j \in 1..Frags[kind] : Whole(kind, n)[j] = Fragment(kind, n, j)
         /\ OneMessage(Whole(kind, n))
         /\ MessageMark(Whole(kind, n)) = [if |-> kind, n |-> n]
<1> DEFINE w == Whole(kind, n) l == Frags[kind]
<1>1. kind \in Kinds /\ l \in Nat \ {0}
  BY SizesAssumption DEF Kinds
<1>2. w \in Seq(FragmentType) /\ w # << >>
  BY <1>1, WholeInSeq
<1>3. w = [j \in 1..l |-> Fragment(kind, n, j)]
  BY DEF Whole
<1>4. \A j \in 1..l : w[j] = Fragment(kind, n, j)
  BY <1>3
<1>5. Len(w) = l
  <2>1. DOMAIN w = 1..l
    BY <1>3
  <2> HIDE DEF w, l
  <2> QED
    BY <1>1, <1>2, <2>1, FunctionLength
<1> HIDE DEF w, l
<1>6. \A j \in 1..l : IsLast(w[j]) <=> j = l
  BY <1>1, <1>4, LastFragment DEF l
<1>7. l \in 1..l
  BY <1>1
<1>8. IsLast(w[l]) /\ w[l].kind = kind /\ w[l].n = n
  <2>1. IsLast(w[l])
    BY <1>6, <1>7, Zenon
  <2>2. w[l] = Fragment(kind, n, l)
    BY <1>4, <1>7, Zenon
  <2> QED
    BY <2>1, <2>2 DEF Fragment
<1>9. MessageMark(w) = [if |-> kind, n |-> n]
  BY <1>5, <1>8 DEF MessageMark, Mark
<1>10. w \in NonEmpty
  BY <1>2 DEF NonEmpty
<1>11. OneMessage(w)
  BY <1>5, <1>6 DEF OneMessage
<1> QED
  BY <1>1, <1>2, <1>4, <1>5, <1>9, <1>10, <1>11, Zenon DEF w, l

LEMMA EmptyMessages == Messages(<< >>)
  BY DEF Messages

\* JoinElements for fragments, with names for the sequence and the lengths.
LEMMA JoinFragments ==
  ASSUME NEW s \in Seq(FragmentType), NEW w \in Seq(FragmentType), NEW u, u = s \o w,
         NEW k, k = Len(s), NEW l, l = Len(w)
  PROVE  /\ k \in Nat /\ Len(u) = k + l
         /\ \A i \in 1..k : u[i] = s[i]
         /\ \A i \in 1..l : u[k + i] = w[i]
<1>1. /\ Len(s) \in Nat /\ Len(s \o w) = Len(s) + Len(w)
      /\ \A i \in 1..Len(s) : (s \o w)[i] = s[i]
      /\ \A i \in 1..Len(w) : (s \o w)[Len(s) + i] = w[i]
  BY JoinElements
<1> QED
  BY <1>1, Zenon

\* A whole message goes behind whole messages.
LEMMA MessagesJoin ==
  ASSUME NEW s \in Seq(FragmentType), Messages(s), NEW kind \in {"rsp", "evt"}, NEW n \in Nat
  PROVE  Messages(s ++ Whole(kind, n))
<1> DEFINE w == Whole(kind, n) u == s \o w k == Len(s) l == Frags[kind]
<1>1. /\ l \in Nat \ {0} /\ w \in Seq(FragmentType) /\ Len(w) = l
      /\ \A j \in 1..l : w[j] = Fragment(kind, n, j) /\ (IsLast(w[j]) <=> j = l)
  <2>1. /\ l \in Nat \ {0} /\ w \in Seq(FragmentType) /\ Len(w) = l /\ OneMessage(w)
        /\ \A j \in 1..l : w[j] = Fragment(kind, n, j)
    BY WholeFacts
  <2> HIDE DEF w, l
  <2>2. \A j \in 1..l : IsLast(w[j]) <=> j = l
    BY <2>1 DEF OneMessage
  <2> QED
    BY <2>1, <2>2
<1> HIDE DEF w
<1>2. /\ k \in Nat /\ Len(u) = k + l
      /\ \A i \in 1..k : u[i] = s[i]
      /\ \A i \in 1..l : u[k + i] = w[i]
  <2>1. u = s \o w
    OBVIOUS
  <2>2. k = Len(s)
    OBVIOUS
  <2>3. w \in Seq(FragmentType)
    BY <1>1
  <2>4. l = Len(w)
    BY <1>1
  <2> HIDE DEF u, k, l
  <2> QED
    BY <2>1, <2>2, <2>3, <2>4, JoinFragments
<1>3. /\ s # << >> => s[1].i = 1 /\ IsLast(s[k])
      /\ \A j \in 1..k : s[j].kind \in {"rsp", "evt"}
      /\ \A j \in 1..(k - 1) : Follows(s[j], s[j + 1])
  BY DEF Messages
<1>4. s # << >> <=> k # 0
  BY EmptyFacts
<1> HIDE DEF u, k, l
<1>5. w[1].i = 1 /\ IsLast(w[l])
  <2>1. 1 \in 1..l /\ l \in 1..l
    BY <1>1
  <2>2. w[1] = Fragment(kind, n, 1) /\ IsLast(w[l])
    BY <1>1, <2>1, Zenon
  <2> QED
    BY <2>2 DEF Fragment
<1>6. u[1].i = 1 /\ IsLast(u[k + l])
  <2>1. IsLast(u[k + l])
    <3>1. l \in 1..l
      BY <1>1
    <3>2. u[k + l] = w[l]
      BY <1>2, <3>1
    <3> QED
      BY <1>5, <3>2
  <2>2. CASE k = 0
    <3>1. 1 \in 1..l /\ k + 1 = 1
      BY <1>1, <2>2
    <3>2. u[k + 1] = w[1]
      BY <1>2, <3>1
    <3> QED
      BY <1>5, <2>1, <3>1, <3>2
  <2>3. CASE k # 0
    <3>1. 1 \in 1..k
      BY <1>2, <2>3
    <3> QED
      BY <1>2, <1>3, <1>4, <2>1, <2>3, <3>1
  <2> QED
    BY <2>2, <2>3
<1>7. ASSUME NEW j \in 1..(k + l) PROVE u[j].kind \in {"rsp", "evt"}
  <2>1. CASE j \in 1..k
    BY <1>2, <1>3, <2>1
  <2>2. CASE j \notin 1..k
    <3>1. j - k \in 1..l /\ k + (j - k) = j
      BY <1>1, <1>2, <2>2
    <3>2. u[k + (j - k)] = w[j - k] /\ w[j - k] = Fragment(kind, n, j - k)
      BY <1>1, <1>2, <3>1
    <3> QED
      BY <3>1, <3>2 DEF Fragment
  <2> QED
    BY <2>1, <2>2
<1>8. ASSUME NEW j \in 1..((k + l) - 1) PROVE Follows(u[j], u[j + 1])
  <2>1. CASE j < k
    <3>1. j \in 1..(k - 1) /\ j \in 1..k /\ j + 1 \in 1..k
      BY <1>2, <2>1
    <3>2. u[j] = s[j] /\ u[j + 1] = s[j + 1] /\ Follows(s[j], s[j + 1])
      BY <1>2, <1>3, <3>1
    <3> QED
      BY <3>2
  <2>2. CASE j = k
    <3>1. k \in 1..k /\ k # 0 /\ 1 \in 1..l
      BY <1>1, <1>2, <2>2
    <3>2. u[j] = s[k] /\ u[j + 1] = w[1] /\ IsLast(s[k])
      BY <1>2, <1>3, <1>4, <2>2, <3>1
    <3> QED
      BY <1>5, <3>2 DEF Follows
  <2>3. CASE j > k
    <3> DEFINE d == j - k
    <3>1. d \in 1..l /\ d + 1 \in 1..l /\ k + d = j /\ k + (d + 1) = j + 1 /\ d # l
      BY <1>1, <1>2, <2>3
    <3> HIDE DEF d
    <3>2. u[j] = w[d] /\ u[j + 1] = w[d + 1]
      BY <1>2, <3>1
    <3>3. w[d] = Fragment(kind, n, d) /\ w[d + 1] = Fragment(kind, n, d + 1) /\ ~IsLast(w[d])
      BY <1>1, <3>1
    <3>4. w[d].kind = kind /\ w[d].n = n /\ w[d].i = d
      BY <3>3 DEF Fragment
    <3> QED
      BY <3>2, <3>3, <3>4 DEF Follows
  <2> QED
    BY <1>2, <2>1, <2>2, <2>3
<1>9. Messages(u)
  <2>1. u[1].i = 1 /\ IsLast(u[Len(u)])
    BY <1>2, <1>6
  <2>2. \A j \in 1..Len(u) : u[j].kind \in {"rsp", "evt"}
    <3> DEFINE q == k + l
    <3>1. \A j \in 1..q : u[j].kind \in {"rsp", "evt"}
      BY <1>7
    <3>2. Len(u) = q
      BY <1>2
    <3> HIDE DEF q
    <3> QED
      BY <3>1, <3>2
  <2>3. \A j \in 1..(Len(u) - 1) : Follows(u[j], u[j + 1])
    <3> DEFINE q == k + l
    <3>1. Len(u) = q
      BY <1>2
    <3>2. \A j \in 1..(q - 1) : Follows(u[j], u[j + 1])
      BY <1>8, Zenon
    <3> HIDE DEF q
    <3> QED
      BY <3>1, <3>2, Zenon
  <2> QED
    BY <2>1, <2>2, <2>3, Zenon DEF Messages
<1> QED
  BY <1>9 DEF u, w, ++

\* So do those behind the end of a message.
LEMMA MessagesBehind ==
  ASSUME NEW s \in Seq(FragmentType), NEW t \in Seq(FragmentType), Messages(s ++ t),
         s # << >>, IsLast(s[Len(s)])
  PROVE  Messages(t)
<1> DEFINE u == s \o t k == Len(s) l == Len(t)
<1>1. /\ k \in Nat /\ l \in Nat /\ Len(u) = k + l
      /\ \A i \in 1..k : u[i] = s[i]
      /\ \A i \in 1..l : u[k + i] = t[i]
  BY JoinElements
<1>2. /\ k # 0 /\ (t # << >> <=> l # 0)
      /\ u \in Seq(FragmentType) /\ (u # << >> <=> Len(u) # 0)
  BY EmptyFacts, JoinFacts
<1>3. /\ u # << >> => u[1].i = 1 /\ IsLast(u[Len(u)])
      /\ \A j \in 1..Len(u) : u[j].kind \in {"rsp", "evt"}
      /\ \A j \in 1..(Len(u) - 1) : Follows(u[j], u[j + 1])
  BY DEF Messages, ++
<1>4. IsLast(s[k])
  OBVIOUS
<1> HIDE DEF u, k, l
<1>5. ASSUME l # 0 PROVE t[1].i = 1 /\ IsLast(t[l])
  <2>1. k \in 1..k /\ 1 \in 1..l /\ l \in 1..l /\ k \in 1..(k + l - 1) /\ k + l # 0
    BY <1>1, <1>2, <1>5
  <2>2. u[k] = s[k] /\ u[k + 1] = t[1] /\ u[k + l] = t[l]
    BY <1>1, <2>1
  <2>3. Follows(s[k], t[1])
    BY <1>1, <1>3, <2>1, <2>2
  <2>4. t[1].i = 1
    BY <1>4, <2>3 DEF Follows
  <2> QED
    BY <1>1, <1>2, <1>3, <2>1, <2>2, <2>4
<1>6. ASSUME NEW j \in 1..l PROVE t[j].kind \in {"rsp", "evt"}
  <2>1. k + j \in 1..(k + l)
    BY <1>1
  <2> QED
    BY <1>1, <1>3, <2>1
<1>7. ASSUME NEW j \in 1..(l - 1) PROVE Follows(t[j], t[j + 1])
  <2>1. k + j \in 1..(k + l - 1) /\ (k + j) + 1 = k + (j + 1) /\ j \in 1..l /\ j + 1 \in 1..l
    BY <1>1
  <2>2. u[k + j] = t[j] /\ u[(k + j) + 1] = t[j + 1]
    BY <1>1, <2>1
  <2> QED
    BY <1>1, <1>3, <2>1, <2>2
<1> QED
  BY <1>2, <1>5, <1>6, <1>7 DEF Messages, l

\* The next fragment continues the message that was begun.
LEMMA NextFragment ==
  ASSUME NEW a \in Seq(FragmentType), NEW s \in Seq(FragmentType), s # << >>,
         Messages(a ++ s), Beginning(a), \A i \in DOMAIN a : ~IsLast(a[i])
  PROVE  /\ s[1] \in FragmentType /\ s[1].kind \in {"rsp", "evt"}
         /\ \A j \in 1..(Len(a) + 1) :
               Append(a, s[1])[j] = Fragment(s[1].kind, s[1].n, j)
<1> DEFINE u == a \o s k == Len(a) l == Len(s) h == s[1] m == Append(a, h)
<1>1. /\ k \in Nat /\ l \in Nat /\ Len(u) = k + l
      /\ \A i \in 1..k : u[i] = a[i]
      /\ \A i \in 1..l : u[k + i] = s[i]
  BY JoinElements
<1>2. /\ l # 0 /\ u \in Seq(FragmentType) /\ (u # << >> <=> Len(u) # 0)
  BY EmptyFacts, JoinFacts
<1>3. /\ u # << >> => u[1].i = 1 /\ IsLast(u[Len(u)])
      /\ \A j \in 1..Len(u) : u[j].kind \in {"rsp", "evt"}
      /\ \A j \in 1..(Len(u) - 1) : Follows(u[j], u[j + 1])
  BY DEF Messages, ++
<1>4. h \in FragmentType
  <2>1. 1 \in 1..l
    BY <1>1, <1>2
  <2> QED
    BY <2>1
<1>5. /\ \A i \in 1..k : m[i] = a[i]
      /\ m[k + 1] = h
  BY <1>4, AppendElements
<1>6. \A i \in 1..k : ~IsLast(a[i]) /\ a[i] = Fragment(a[1].kind, a[1].n, i)
  BY DEF Beginning
<1> HIDE DEF u, k, l, m, h
<1>7. 1 \in 1..l /\ k + 1 \in 1..(k + l) /\ k + l # 0
  BY <1>1, <1>2
<1>8. u[k + 1] = h /\ h.kind \in {"rsp", "evt"}
  <2>1. u[k + 1] = h
    BY <1>1, <1>7 DEF h
  <2> QED
    BY <1>1, <1>3, <1>7, <2>1
<1>9. h = Fragment(h.kind, h.n, h.i)
  BY <1>4 DEF FragmentType, Fragment
<1>10. CASE k = 0
  <2>1. h.i = 1
    BY <1>1, <1>2, <1>3, <1>7, <1>8, <1>10
  <2>2. \A j \in 1..(k + 1) : m[j] = Fragment(h.kind, h.n, j)
    BY <1>5, <1>9, <1>10, <2>1
  <2> QED
    BY <1>4, <1>8, <2>2 DEF h, k, m
<1>11. CASE k # 0
  <2>1. k \in 1..k /\ k \in 1..(k + l - 1)
    BY <1>1, <1>2, <1>11
  <2>2. /\ u[k] = a[k] /\ ~IsLast(a[k]) /\ a[k] = Fragment(a[1].kind, a[1].n, k)
        /\ Follows(u[k], u[k + 1])
    BY <1>1, <1>3, <1>6, <2>1
  <2>3. Follows(a[k], h)
    BY <1>8, <2>2
  <2>4. h = Fragment(a[k].kind, a[k].n, a[k].i + 1)
    BY <2>2, <2>3 DEF Follows
  <2>5. a[k].kind = a[1].kind /\ a[k].n = a[1].n /\ a[k].i = k
    BY <2>2 DEF Fragment
  <2>6. h = Fragment(a[1].kind, a[1].n, k + 1)
    BY <2>4, <2>5
  <2>7. h.kind = a[1].kind /\ h.n = a[1].n
    BY <2>6 DEF Fragment
  <2>8. \A j \in 1..(k + 1) : m[j] = Fragment(h.kind, h.n, j)
    <3> TAKE j \in 1..(k + 1)
    <3>1. CASE j = k + 1
      BY <1>5, <2>6, <2>7, <3>1
    <3>2. CASE j # k + 1
      <4>1. j \in 1..k
        BY <1>1, <3>2
      <4> QED
        BY <1>5, <1>6, <2>7, <4>1
    <3> QED
      BY <3>1, <3>2
  <2> QED
    BY <1>4, <1>8, <2>8 DEF h, k, m
<1> QED
  BY <1>10, <1>11
LEMMA MessageTypes ==
  ASSUME TypeOK
  PROVE  /\ accumulated \in Seq(FragmentType) /\ toHost \in Seq(FragmentType)
         /\ reply \in Seq(FragmentType) /\ hostMsg \in Seq(FragmentType)
         /\ rxMsg \in Seq(FragmentType) /\ arg.data \in Seq(FragmentType)
         /\ answers \in Nat /\ eventsRead \in Nat /\ replied \in Nat /\ events \in Nat
         /\ \A i \in DOMAIN accumulated : ~IsLast(accumulated[i])
         /\ toHost ++ reply \in Seq(FragmentType) /\ Stream \in Seq(FragmentType)
<1>1. /\ accumulated \in Seq(FragmentType) /\ toHost \in Seq(FragmentType)
      /\ reply \in Seq(FragmentType) /\ hostMsg \in Seq(FragmentType)
      /\ rxMsg \in Seq(FragmentType)
      /\ answers \in Nat /\ eventsRead \in Nat /\ replied \in Nat /\ events \in Nat
      /\ \A i \in DOMAIN accumulated : ~IsLast(accumulated[i])
  BY BoundsAssumption DEF TypeOK, HostRxOK, PserialOK
<1>2. arg.data \in Seq(FragmentType)
  BY DEF TypeOK, PserialOK
<1>3. toHost ++ reply \in Seq(FragmentType)
  BY <1>1, Joined
<1>4. Stream \in Seq(FragmentType)
  BY <1>1, <1>3, Joined DEF Stream
<1> QED
  BY <1>1, <1>2, <1>3, <1>4

\* The host's packets so far with the next one.
LEMMA NextMessage ==
  ASSUME TypeOK, WholeMessages, toHost # << >>
  PROVE  LET h == Head(toHost)
             m == Append(accumulated, h)
             y == Tail(toHost) ++ reply
         IN  /\ h \in FragmentType /\ h.kind \in {"rsp", "evt"} /\ h.n \in Nat
             /\ m \in Seq(FragmentType) /\ m # << >> /\ MessageMark(m) = Mark(h)
             /\ y \in Seq(FragmentType) /\ m ++ y = Stream
             /\ ~IsLast(h) => Beginning(m)
             /\ IsLast(h) => m = Whole(h.kind, h.n) /\ Messages(y)
<1> DEFINE a == accumulated t == toHost h == Head(t) m == Append(a, h)
           y == Tail(t) ++ reply s == t ++ reply k == Len(a)
<1>1. /\ a \in Seq(FragmentType) /\ t \in Seq(FragmentType) /\ reply \in Seq(FragmentType)
      /\ s \in Seq(FragmentType) /\ \A i \in DOMAIN a : ~IsLast(a[i])
  BY MessageTypes
<1>2. t # << >> /\ Messages(a ++ s) /\ Beginning(a)
  BY DEF WholeMessages, StreamWhole, Stream
<1> HIDE DEF a, t
<1>3. h \in FragmentType /\ Tail(t) \in Seq(FragmentType) /\ s = One(h) ++ y
  BY <1>1, <1>2, SplitFirst
<1>4. y \in Seq(FragmentType)
  BY <1>1, <1>3, Joined
<1>5. s # << >> /\ s[1] = h
  <2>1. s # << >> /\ Head(s) = h
    BY <1>1, <1>2, JoinTail DEF ++
  <2> QED
    BY <1>1, <2>1, TailElements
<1> HIDE DEF h, y, s
<1>6. m ++ y = a ++ s
  BY <1>1, <1>3, <1>4, JoinedOne
<1>7. /\ k \in Nat /\ m \in Seq(FragmentType) /\ Len(m) = k + 1 /\ m[k + 1] = h
      /\ m # << >>
  <2>1. /\ k \in Nat /\ m \in Seq(FragmentType) /\ Len(m) = k + 1 /\ m[k + 1] = h
    BY <1>1, <1>3, AppendFacts, AppendElements
  <2> HIDE DEF m, k
  <2> QED
    BY <2>1, EmptyFacts
<1>8. /\ h.kind \in {"rsp", "evt"}
      /\ \A j \in 1..(k + 1) : m[j] = Fragment(h.kind, h.n, j)
  BY <1>1, <1>2, <1>5, NextFragment
<1>9. h.n \in Nat
  BY <1>3 DEF FragmentType
<1>10. MessageMark(m) = Mark(h)
  BY <1>7 DEF MessageMark
<1>11. Messages(m ++ y)
  BY <1>2, <1>6
<1> HIDE DEF m, k
<1>12. Beginning(m)
  <2>1. 1 \in 1..(k + 1) /\ Len(m) = k + 1
    BY <1>7
  <2>2. m[1] = Fragment(h.kind, h.n, 1)
    BY <1>8, <2>1
  <2>3. m[1].kind = h.kind /\ m[1].n = h.n
    BY <2>2 DEF Fragment
  <2> QED
    BY <1>8, <2>1, <2>3 DEF Beginning
<1>13. ASSUME IsLast(h) PROVE m = Whole(h.kind, h.n) /\ Messages(y)
  <2>1. k + 1 = Frags[h.kind]
    <3>1. k + 1 \in 1..(k + 1)
      BY <1>7
    <3>2. h = Fragment(h.kind, h.n, k + 1)
      BY <1>7, <1>8, <3>1
    <3>3. h.i = k + 1
      BY <3>2 DEF Fragment
    <3> QED
      BY <1>13, <3>3 DEF IsLast
  <2> DEFINE w == Whole(h.kind, h.n)
  <2>2. /\ w \in Seq(FragmentType) /\ Len(w) = Frags[h.kind]
        /\ \A j \in 1..Frags[h.kind] : w[j] = Fragment(h.kind, h.n, j)
    BY <1>8, <1>9, WholeFacts
  <2> HIDE DEF w
  <2>3. Len(m) = Len(w) /\ \A j \in 1..Len(m) : m[j] = w[j]
    BY <1>7, <1>8, <2>1, <2>2
  <2>4. m = w
    BY <1>7, <2>2, <2>3, SameElements
  <2>5. IsLast(m[Len(m)])
    BY <1>7, <1>13
  <2>6. Messages(y)
    BY <1>4, <1>7, <1>11, <2>5, MessagesBehind
  <2> QED
    BY <2>4, <2>6 DEF w
<1> QED
  BY <1>2, <1>3, <1>4, <1>6, <1>7, <1>8, <1>9, <1>10, <1>12, <1>13
  DEF m, h, y, s, t, a, Stream

\* What is sent next.
LEMMA ReplySent ==
  ASSUME TypeOK, WholeMessages, PsSend
  PROVE  LET h == Head(reply)
         IN  /\ h \in FragmentType /\ Stream' = Stream
             /\ Tail(reply) # << >> => /\ ~IsLast(h) /\ OneMessage(Tail(reply))
                                       /\ MessageMark(Tail(reply)) = MessageMark(reply)
             /\ Tail(reply) = << >> => MessageMark(reply) = Mark(h)
<1> DEFINE a == accumulated t == toHost p == reply h == Head(p) q == Tail(p) k == Len(p)
<1>1. /\ a \in Seq(FragmentType) /\ t \in Seq(FragmentType) /\ p \in Seq(FragmentType)
  BY MessageTypes
<1>2. p # << >> /\ OneMessage(p)
  BY DEF WholeMessages, StreamWhole, PsSend
<1>3. /\ accumulated' = a /\ toHost' = Append(t, h) /\ reply' = q
  BY DEF PsSend, hostRx
<1> HIDE DEF a, t, p
<1>4. Append(t, h) ++ q = t ++ p
  BY <1>1, <1>2, HeadOver
<1>5. Stream' = Stream
  BY <1>3, <1>4 DEF Stream, a, t, p
<1>6. /\ h \in FragmentType /\ q \in Seq(FragmentType) /\ k \in Nat \ {0} /\ Len(q) = k - 1
      /\ h = p[1] /\ \A i \in 1..(k - 1) : q[i] = p[i + 1]
  BY <1>1, <1>2, TailFacts, TailElements
<1>7. \A j \in 1..k : IsLast(p[j]) <=> j = k
  BY <1>2 DEF OneMessage
<1>8. q = << >> <=> k = 1
  <2> HIDE DEF q, k
  <2>1. q = << >> <=> Len(q) = 0
    BY <1>6, EmptyFacts
  <2> QED
    BY <1>6, <2>1
<1>9. MessageMark(p) = Mark(p[k]) /\ MessageMark(q) = Mark(q[Len(q)])
  BY DEF MessageMark
<1> HIDE DEF h, q, k
<1>10. ASSUME q # << >>
       PROVE  ~IsLast(h) /\ OneMessage(q) /\ MessageMark(q) = MessageMark(p)
  <2>1. k - 1 \in 1..(k - 1) /\ 1 \in 1..k /\ 1 # k /\ (k - 1) + 1 = k
    BY <1>6, <1>8, <1>10
  <2>2. ~IsLast(h)
    BY <1>6, <1>7, <2>1
  <2>3. MessageMark(q) = MessageMark(p)
    <3>1. q[k - 1] = p[(k - 1) + 1]
      BY <1>6, <2>1
    <3> QED
      BY <1>6, <1>9, <2>1, <3>1
  <2>4. \A j \in 1..(k - 1) : IsLast(q[j]) <=> j = k - 1
    <3> TAKE j \in 1..(k - 1)
    <3>1. q[j] = p[j + 1] /\ j + 1 \in 1..k /\ (j + 1 = k <=> j = k - 1)
      BY <1>6
    <3>2. IsLast(p[j + 1]) <=> j + 1 = k
      BY <1>7, <3>1
    <3> QED
      BY <3>1, <3>2
  <2>5. OneMessage(q)
    <3> DEFINE l == k - 1
    <3>1. (\A j \in 1..l : IsLast(q[j]) <=> j = l) /\ Len(q) = l
      BY <1>6, <2>4
    <3> HIDE DEF l
    <3> QED
      BY <3>1 DEF OneMessage
  <2> QED
    BY <2>2, <2>3, <2>5
<1>11. ASSUME q = << >> PROVE MessageMark(p) = Mark(h)
  BY <1>6, <1>8, <1>9, <1>11
<1> QED
  BY <1>5, <1>6, <1>10, <1>11 DEF h, q, p
LEMMA EventMessage ==
  ASSUME NEW x, Event(x)
  PROVE  Message(x) /\ \E n \in Nat : x = Whole("evt", n)
  BY DEF Event, Message

LEMMA MessageFacts ==
  ASSUME NEW x, Message(x)
  PROVE  x \in NonEmpty
<1>1. PICK kind \in {"rsp", "evt"}, n \in Nat : x = Whole(kind, n)
  BY DEF Message
<1> QED
  BY <1>1, WholeFacts

-----------------------------------------------------------------------------
(* Every step leaves whole messages under way.                              *)

LEMMA WholeInit == Init => WholeMessages
<1> SUFFICES ASSUME Init PROVE WholeMessages
  OBVIOUS
<1>1. << >> \in Seq(FragmentType)
  OBVIOUS
<1>2. << >> ++ << >> = << >>
  BY <1>1, JoinedNone
<1>3. accumulated = << >> /\ toHost = << >> /\ reply = << >> /\ serialQ = << >> /\ reqQ = << >>
  BY DEF Init
<1>4. Stream = << >>
  BY <1>2, <1>3 DEF Stream
<1>5. Len(<< >>) = 0
  OBVIOUS
<1>6. StreamWhole
  BY <1>3, <1>4, <1>5, EmptyMessages DEF StreamWhole, Beginning, Init
<1>7. HostWhole /\ ArgsWhole
  BY <1>3, <1>5 DEF HostWhole, ArgsWhole, Init
<1> QED
  BY <1>6, <1>7 DEF WholeMessages

LEMMA StreamKept ==
  ASSUME StreamWhole, UNCHANGED <<accumulated, toHost, reply>>,
         psPc' = "send" <=> psPc = "send"
  PROVE  StreamWhole'
  BY DEF StreamWhole, Stream, Beginning, OneMessage

LEMMA HostKept ==
  ASSUME HostWhole, serialQ' = serialQ,
         hostPc' = "put" => hostPc = "put" /\ hostMsg' = hostMsg,
         rxPc' = "process" => rxPc = "process" /\ rxMsg' = rxMsg
  PROVE  HostWhole'
  BY DEF HostWhole

LEMMA ArgsKept ==
  ASSUME ArgsWhole, reqQ' = reqQ, psPc' = "event" => psPc = "event" /\ arg' = arg
  PROVE  ArgsWhole'
  BY DEF ArgsWhole

LEMMA WholeBegins ==
  ASSUME NEW kind \in {"rsp", "evt"}, NEW n \in Nat, NEW w, w = Whole(kind, n)
  PROVE  /\ w \in Seq(FragmentType) /\ w # << >> /\ OneMessage(w)
         /\ \A s \in Seq(FragmentType) : Messages(s) => Messages(s ++ w)
<1> DEFINE v == Whole(kind, n)
<1>1. v \in Seq(FragmentType) /\ v # << >> /\ OneMessage(v)
  BY WholeFacts
<1> HIDE DEF v
<1>2. w = v
  BY DEF v
<1>3. \A s \in Seq(FragmentType) : Messages(s) => Messages(s ++ w)
  BY MessagesJoin
<1> QED
  BY <1>1, <1>2, <1>3

\* pserial_task begins to send a message.
LEMMA StreamLonger ==
  ASSUME TypeOK, StreamWhole, psPc # "send", psPc' = "send",
         UNCHANGED <<accumulated, toHost>>,
         NEW kind \in {"rsp", "evt"}, NEW n \in Nat, reply' = Whole(kind, n)
  PROVE  StreamWhole'
<1> DEFINE a == accumulated t == toHost w == reply'
<1>1. a \in Seq(FragmentType) /\ t \in Seq(FragmentType)
  BY MessageTypes
<1>2. /\ w \in Seq(FragmentType) /\ w # << >> /\ OneMessage(w)
      /\ \A s \in Seq(FragmentType) : Messages(s) => Messages(s ++ w)
  BY WholeBegins, Zenon
<1>3. reply = << >> /\ Messages(Stream) /\ Beginning(accumulated)
  BY DEF StreamWhole
<1>4. Stream = a ++ (t ++ << >>) /\ Stream' = a ++ (t ++ w)
  BY <1>3 DEF Stream
<1> HIDE DEF a, t
<1>5. t ++ << >> = t
  BY <1>1 DEF ++
<1>6. a ++ (t ++ w) = (a ++ t) ++ w /\ a ++ t \in Seq(FragmentType)
  <2> HIDE DEF w
  <2> QED
    BY <1>1, <1>2, JoinedTwice, Joined
<1>7. Messages((a ++ t) ++ w)
  <2> DEFINE u == a ++ t
  <2>1. u \in Seq(FragmentType) /\ Messages(u)
    BY <1>3, <1>4, <1>5, <1>6
  <2> HIDE DEF u
  <2>2. Messages(u ++ w)
    BY <1>2, <2>1
  <2> QED
    BY <2>2 DEF u
<1>8. Messages(Stream')
  BY <1>4, <1>6, <1>7
<1>9. reply' # << >> /\ OneMessage(reply')
  BY <1>2
<1>10. Beginning(accumulated')
  BY <1>3
<1> QED
  BY <1>8, <1>9, <1>10 DEF StreamWhole

LEMMA HostTakeWhole ==
  ASSUME TypeOK, WholeMessages, HostTake
  PROVE  WholeMessages'
<1> DEFINE h == Head(toHost) m == Append(accumulated, h) y == Tail(toHost) ++ reply
<1>1. /\ h.kind \in {"rsp", "evt"} /\ h.n \in Nat /\ y \in Seq(FragmentType)
      /\ m ++ y = Stream
      /\ ~IsLast(h) => Beginning(m)
      /\ IsLast(h) => m = Whole(h.kind, h.n) /\ Messages(y)
  BY NextMessage DEF HostTake
<1>2. /\ toHost' = Tail(toHost) /\ hostPc = "idle"
      /\ IF IsLast(h) THEN accumulated' = << >> /\ hostMsg' = m /\ hostPc' = "put"
                      ELSE accumulated' = m /\ UNCHANGED <<hostMsg, hostPc>>
      /\ UNCHANGED <<reply, psPc, arg, reqQ, serialQ, rxPc, rxMsg>>
  BY DEF HostTake, pserial, rpcRx
<1>3. StreamWhole /\ HostWhole /\ ArgsWhole
  BY DEF WholeMessages
<1>4. Stream' = accumulated' ++ y
  BY <1>2 DEF Stream
<1> HIDE DEF m, y
<1>5. Messages(Stream') /\ Beginning(accumulated')
  <2>1. CASE IsLast(h)
    <3>1. Stream' = y
      BY <1>1, <1>2, <1>4, <2>1, JoinedEmpty
    <3>2. Beginning(<< >>)
      BY DEF Beginning
    <3> QED
      BY <1>1, <1>2, <2>1, <3>1, <3>2
  <2>2. CASE ~IsLast(h)
    <3>1. Stream' = Stream
      BY <1>1, <1>2, <1>4, <2>2
    <3> QED
      BY <1>1, <1>2, <1>3, <2>2, <3>1 DEF StreamWhole
  <2> QED
    BY <2>1, <2>2
<1>6. StreamWhole'
  <2>1. IF psPc' = "send" THEN reply' # << >> /\ OneMessage(reply') ELSE reply' = << >>
    BY <1>2, <1>3 DEF StreamWhole
  <2> QED
    BY <1>5, <2>1 DEF StreamWhole
<1>7. HostWhole'
  <2>1. hostPc' = "put" => Message(hostMsg')
    <3>1. CASE IsLast(h)
      BY <1>1, <1>2, <3>1 DEF Message
    <3>2. CASE ~IsLast(h)
      BY <1>2, <3>2
    <3> QED
      BY <3>1, <3>2
  <2> QED
    BY <1>2, <1>3, <2>1 DEF HostWhole
<1>8. ArgsWhole'
  BY <1>2, <1>3, ArgsKept
<1> QED
  BY <1>6, <1>7, <1>8 DEF WholeMessages
LEMMA HostPutWhole ==
  ASSUME TypeOK, WholeMessages, HostPut
  PROVE  WholeMessages'
<1>1. /\ serialQ' = Append(serialQ, hostMsg) /\ hostPc = "put" /\ hostPc' = "signal"
      /\ UNCHANGED <<accumulated, toHost, reply, psPc, arg, reqQ, rxPc, rxMsg>>
  BY DEF HostPut, pserial, rpcRx
<1>2. StreamWhole /\ HostWhole /\ ArgsWhole
  BY DEF WholeMessages
<1>3. HostWhole'
  <2> DEFINE q == serialQ x == hostMsg l == Len(q)
  <2>1. q \in Seq(Seq(FragmentType)) /\ x \in Seq(FragmentType)
    BY DEF TypeOK, HostRxOK
  <2>2. Message(x) /\ \A i \in 1..l : Message(q[i])
    BY <1>1, <1>2 DEF HostWhole
  <2> HIDE DEF q, x
  <2>3. /\ l \in Nat /\ Len(Append(q, x)) = l + 1 /\ Append(q, x)[l + 1] = x
        /\ \A i \in 1..l : Append(q, x)[i] = q[i]
    BY <2>1, AppendElements
  <2> DEFINE u == Append(q, x)
  <2> HIDE DEF u, l
  <2>4. \A i \in 1..(l + 1) : Message(u[i])
    <3> TAKE i \in 1..(l + 1)
    <3>1. CASE i = l + 1
      BY <2>2, <2>3, <3>1 DEF u
    <3>2. CASE i # l + 1
      <4>1. i \in 1..l
        BY <2>3, <3>2
      <4> QED
        BY <2>2, <2>3, <4>1 DEF u
    <3> QED
      BY <3>1, <3>2
  <2>5. \A i \in 1..Len(serialQ') : Message(serialQ'[i])
    BY <1>1, <2>3, <2>4 DEF u, q, x
  <2> QED
    BY <1>1, <1>2, <2>5 DEF HostWhole
<1>4. StreamWhole'
  BY <1>1, <1>2, StreamKept
<1>5. ArgsWhole'
  BY <1>1, <1>2, ArgsKept
<1> QED
  BY <1>3, <1>4, <1>5 DEF WholeMessages

LEMMA RxReadWhole ==
  ASSUME TypeOK, WholeMessages, RxRead
  PROVE  WholeMessages'
<1>1. /\ serialQ # << >> /\ rxMsg' = Head(serialQ) /\ serialQ' = Tail(serialQ)
      /\ UNCHANGED <<accumulated, toHost, reply, psPc, arg, reqQ, hostPc, hostMsg>>
  BY DEF RxRead, pserial, hostRx
<1>2. StreamWhole /\ HostWhole /\ ArgsWhole
  BY DEF WholeMessages
<1>3. HostWhole'
  <2> DEFINE q == serialQ l == Len(q) u == Tail(q)
  <2>1. q \in Seq(Seq(FragmentType)) /\ q # << >>
    BY <1>1 DEF TypeOK, HostRxOK
  <2>2. \A i \in 1..l : Message(q[i])
    BY <1>2 DEF HostWhole
  <2> HIDE DEF q
  <2>3. /\ l \in Nat \ {0} /\ Len(u) = l - 1 /\ Head(q) = q[1]
        /\ \A i \in 1..(l - 1) : u[i] = q[i + 1]
    BY <2>1, TailElements
  <2> HIDE DEF u, l
  <2>4. \A i \in 1..(l - 1) : Message(u[i])
    <3> TAKE i \in 1..(l - 1)
    <3>1. i + 1 \in 1..l /\ u[i] = q[i + 1]
      BY <2>3
    <3> QED
      BY <2>2, <3>1
  <2>5. Message(Head(q))
    <3>1. 1 \in 1..l
      BY <2>3
    <3> QED
      BY <2>2, <2>3, <3>1
  <2>6. \A i \in 1..Len(serialQ') : Message(serialQ'[i])
    BY <1>1, <2>3, <2>4 DEF u, q
  <2>7. Message(rxMsg')
    BY <1>1, <2>5 DEF q
  <2> QED
    BY <1>1, <1>2, <2>6, <2>7 DEF HostWhole
<1>4. StreamWhole'
  BY <1>1, <1>2, StreamKept
<1>5. ArgsWhole'
  BY <1>1, <1>2, ArgsKept
<1> QED
  BY <1>3, <1>4, <1>5 DEF WholeMessages

\* What arrives at pserial_cfg->req_queue.
LEMMA ArgQueuedWhole ==
  ASSUME TypeOK, ArgsWhole, NEW a \in ReqArg, a.kind = "evt" => Event(a.data),
         reqQ' = Append(reqQ, a), psPc' = psPc, arg' = arg
  PROVE  ArgsWhole'
<1> DEFINE q == reqQ l == Len(q) u == Append(q, a)
<1>1. q \in Seq(ReqArg)
  BY DEF TypeOK, PserialOK
<1>2. \A i \in 1..l : q[i].kind = "evt" => Event(q[i].data)
  BY DEF ArgsWhole
<1>3. reqQ' = u
  OBVIOUS
<1> HIDE DEF q
<1>4. /\ l \in Nat /\ Len(u) = l + 1 /\ u[l + 1] = a /\ \A i \in 1..l : u[i] = q[i]
  BY <1>1, AppendElements
<1> HIDE DEF u, l
<1>5. \A i \in 1..(l + 1) : u[i].kind = "evt" => Event(u[i].data)
  <2> TAKE i \in 1..(l + 1)
  <2>1. CASE i = l + 1
    BY <1>4, <2>1
  <2>2. CASE i # l + 1
    <3>1. i \in 1..l
      BY <1>4, <2>2
    <3> QED
      BY <1>2, <1>4, <3>1
  <2> QED
    BY <2>1, <2>2
<1>6. \A i \in 1..Len(reqQ') : reqQ'[i].kind = "evt" => Event(reqQ'[i].data)
  BY <1>3, <1>4, <1>5
<1> QED
  BY <1>6 DEF ArgsWhole

LEMMA PsTakeWhole ==
  ASSUME TypeOK, WholeMessages, PsTake
  PROVE  WholeMessages'
<1>1. /\ reqQ # << >> /\ arg' = Head(reqQ) /\ reqQ' = Tail(reqQ)
      /\ psPc = "idle" /\ psPc' = IF arg'.kind = "evt" THEN "event" ELSE "read"
      /\ UNCHANGED <<accumulated, toHost, reply, hostPc, hostMsg, serialQ, rxPc, rxMsg>>
  BY DEF PsTake, hostRx, rpcRx
<1>2. StreamWhole /\ HostWhole /\ ArgsWhole
  BY DEF WholeMessages
<1>3. ArgsWhole'
  <2> DEFINE q == reqQ l == Len(q) u == Tail(q)
  <2>1. q \in Seq(ReqArg) /\ q # << >>
    BY <1>1 DEF TypeOK, PserialOK
  <2>2. \A i \in 1..l : q[i].kind = "evt" => Event(q[i].data)
    BY <1>2 DEF ArgsWhole
  <2> HIDE DEF q
  <2>3. /\ l \in Nat \ {0} /\ Len(u) = l - 1 /\ Head(q) = q[1]
        /\ \A i \in 1..(l - 1) : u[i] = q[i + 1]
    BY <2>1, TailElements
  <2> HIDE DEF u, l
  <2>4. \A i \in 1..(l - 1) : u[i].kind = "evt" => Event(u[i].data)
    <3> TAKE i \in 1..(l - 1)
    <3>1. i + 1 \in 1..l /\ u[i] = q[i + 1]
      BY <2>3
    <3> QED
      BY <2>2, <3>1
  <2>5. Head(q).kind = "evt" => Event(Head(q).data)
    <3>1. 1 \in 1..l
      BY <2>3
    <3> QED
      BY <2>2, <2>3, <3>1
  <2>6. \A i \in 1..Len(reqQ') : reqQ'[i].kind = "evt" => Event(reqQ'[i].data)
    BY <1>1, <2>3, <2>4 DEF u, q
  <2>7. psPc' = "event" => Event(arg'.data)
    BY <1>1, <2>5 DEF q
  <2> QED
    BY <2>6, <2>7 DEF ArgsWhole
<1>4. StreamWhole'
  BY <1>1, <1>2, StreamKept
<1>5. HostWhole'
  BY <1>1, <1>2, HostKept
<1> QED
  BY <1>3, <1>4, <1>5 DEF WholeMessages
LEMMA ParsedArg ==
  ASSUME TypeOK
  PROVE  [kind |-> "req", data |-> SubSeq(r.data, 1, r.len)] \in ReqArg
<1>1. r.data \in [1..BufferSize -> FragmentType] /\ r.len \in Nat /\ r.len <= BufferSize
  BY RequestTypes, RequestSize
<1>2. r.data \in Seq(FragmentType) /\ Len(r.data) = BufferSize
  BY <1>1, BufferInSeq
<1>3. SubSeq(r.data, 1, r.len) \in Seq(FragmentType)
  BY <1>1, <1>2, PrefixInSeq
<1> QED
  BY <1>3 DEF ReqArg

LEMMA EventArg ==
  ASSUME TypeOK
  PROVE  /\ [kind |-> "evt", data |-> Whole("evt", events + 1)] \in ReqArg
         /\ Event(Whole("evt", events + 1)) /\ events + 1 \in Nat
<1>1. events + 1 \in Nat
  BY MessageTypes
<1>2. Whole("evt", events + 1) \in Seq(FragmentType)
  BY <1>1, WholeInSeq DEF Kinds
<1> QED
  BY <1>1, <1>2 DEF ReqArg, Event

LEMMA ArgsArriveWhole ==
  ASSUME TypeOK, WholeMessages, RecvParse \/ SendEvent
  PROVE  WholeMessages'
<1>1. StreamWhole /\ HostWhole /\ ArgsWhole
  BY DEF WholeMessages
<1>2. UNCHANGED <<accumulated, toHost, reply, psPc, arg, hostPc, hostMsg, serialQ, rxPc, rxMsg>>
  BY DEF RecvParse, SendEvent, hostRx, rpcRx, pserial
<1>3. ArgsWhole'
  <2>1. CASE RecvParse
    <3> DEFINE a == [kind |-> "req", data |-> SubSeq(r.data, 1, r.len)]
    <3>1. reqQ' = Append(reqQ, a) /\ a \in ReqArg /\ a.kind = "req"
      BY <2>1, ParsedArg DEF RecvParse
    <3> HIDE DEF a
    <3>2. a.kind = "evt" => Event(a.data)
      BY <3>1
    <3>3. psPc' = psPc /\ arg' = arg
      BY <1>2
    <3> QED
      BY <1>1, <3>1, <3>2, <3>3, ArgQueuedWhole
  <2>2. CASE SendEvent
    <3> DEFINE a == [kind |-> "evt", data |-> Whole("evt", events + 1)]
    <3>1. reqQ' = Append(reqQ, a) /\ a \in ReqArg /\ Event(a.data)
      BY <2>2, EventArg DEF SendEvent
    <3> HIDE DEF a
    <3>2. a.kind = "evt" => Event(a.data)
      BY <3>1
    <3>3. psPc' = psPc /\ arg' = arg
      BY <1>2
    <3> QED
      BY <1>1, <3>1, <3>2, <3>3, ArgQueuedWhole
  <2> QED
    BY <2>1, <2>2
<1>4. StreamWhole'
  BY <1>1, <1>2, StreamKept
<1>5. HostWhole'
  BY <1>1, <1>2, HostKept
<1> QED
  BY <1>3, <1>4, <1>5 DEF WholeMessages

\* A request that can be unpacked begins the next response.
LEMMA Answering ==
  ASSUME TypeOK, PsHandle, psPc' # "idle"
  PROVE  /\ psPc = "handle" /\ psPc' = "send" /\ replied' = replied + 1
         /\ replied + 1 \in Nat /\ reply' = Whole("rsp", replied + 1)
<1>1. psPc = "handle" /\ psPc' = "send" /\ replied' = replied + 1
      /\ reply' = Whole("rsp", replied + 1)
  BY DEF PsHandle
<1>2. replied \in Nat
  BY DEF TypeOK, PserialOK
<1> QED
  BY <1>1, <1>2

LEMMA ReplyBeginsWhole ==
  ASSUME TypeOK, WholeMessages, (PsHandle /\ psPc' # "idle") \/ PsEvent
  PROVE  WholeMessages'
<1>1. StreamWhole /\ HostWhole /\ ArgsWhole
  BY DEF WholeMessages
<1>2. /\ UNCHANGED <<accumulated, toHost, reqQ, hostPc, hostMsg, serialQ, rxPc, rxMsg>>
      /\ psPc # "send"
  BY DEF PsHandle, PsEvent, hostRx, rpcRx
<1>3. PICK kind \in {"rsp", "evt"}, n \in Nat : reply' = Whole(kind, n) /\ psPc' = "send"
  <2>1. CASE PsHandle /\ psPc' # "idle"
    BY <2>1, Answering
  <2>2. CASE PsEvent
    <3>1. psPc = "event" /\ psPc' = "send" /\ reply' = arg.data
      BY <2>2 DEF PsEvent
    <3>2. Event(arg.data)
      BY <1>1, <3>1 DEF ArgsWhole
    <3> QED
      BY <3>1, <3>2 DEF Event
  <2> QED
    BY <2>1, <2>2
<1>4. StreamWhole'
  <2>1. UNCHANGED <<accumulated, toHost>> /\ psPc' = "send" /\ reply' = Whole(kind, n)
    BY <1>2, <1>3
  <2> QED
    BY <1>1, <1>2, <2>1, StreamLonger
<1>5. HostWhole'
  BY <1>1, <1>2, HostKept
<1>6. ArgsWhole'
  BY <1>1, <1>2, <1>3, ArgsKept
<1> QED
  BY <1>4, <1>5, <1>6 DEF WholeMessages

LEMMA PsSendWhole ==
  ASSUME TypeOK, WholeMessages, PsSend
  PROVE  WholeMessages'
<1>1. StreamWhole /\ HostWhole /\ ArgsWhole
  BY DEF WholeMessages
<1>2. /\ UNCHANGED <<accumulated, reqQ, arg, hostPc, hostMsg, serialQ, rxPc, rxMsg>>
      /\ reply' = Tail(reply) /\ psPc' = IF Tail(reply) = << >> THEN "idle" ELSE "send"
  BY DEF PsSend, hostRx, rpcRx
<1>3. StreamWhole'
  <2>1. Stream' = Stream
        /\ (Tail(reply) # << >> => OneMessage(Tail(reply)))
    BY ReplySent
  <2>2. Messages(Stream') /\ Beginning(accumulated')
    BY <1>1, <1>2, <2>1 DEF StreamWhole
  <2>3. IF psPc' = "send" THEN reply' # << >> /\ OneMessage(reply') ELSE reply' = << >>
    BY <1>2, <2>1
  <2> QED
    BY <2>2, <2>3 DEF StreamWhole
<1>4. HostWhole'
  BY <1>1, <1>2, HostKept
<1>5. ArgsWhole'
  BY <1>1, <1>2, ArgsKept
<1> QED
  BY <1>3, <1>4, <1>5 DEF WholeMessages

\* Steps that move no message.
Elsewhere ==
    \/ HostWrite \/ HostFragment \/ RecvTake \/ RecvCopy \/ RecvGrow \/ RecvValid
    \/ RecvLoad \/ PsRead \/ PsClearValid \/ PsClearLen \/ (PsHandle /\ psPc' = "idle")
    \/ HostSignal \/ RxWait \/ UNCHANGED vars

LEMMA ElsewhereFacts ==
  ASSUME Elsewhere
  PROVE  /\ UNCHANGED <<accumulated, toHost, reply, hostMsg, serialQ, rxMsg, reqQ, answers,
                        eventsRead, replied, events>>
         /\ psPc' = "send" <=> psPc = "send"
         /\ hostPc' = "put" <=> hostPc = "put"
         /\ rxPc' = "process" <=> rxPc = "process"
         /\ psPc' = "event" <=> psPc = "event"
         /\ psPc' = "event" => arg' = arg
  BY DEF Elsewhere, HostWrite, HostFragment, RecvTake, RecvCopy, RecvLoad, RecvGrow, RecvValid,
     PsRead, PsClearValid, PsClearLen, PsHandle, HostSignal, RxWait, vars, hostTx, hostRx, rpcRx,
     recvTask, pserial

LEMMA WholeStep ==
  ASSUME TypeOK, WholeMessages, [Next]_vars
  PROVE  WholeMessages'
<1>1. StreamWhole /\ HostWhole /\ ArgsWhole
  BY DEF WholeMessages
<1>2. CASE Elsewhere
  <2>1. StreamWhole'
    BY <1>1, <1>2, ElsewhereFacts, StreamKept
  <2>2. HostWhole'
    BY <1>1, <1>2, ElsewhereFacts, HostKept
  <2>3. ArgsWhole'
    BY <1>1, <1>2, ElsewhereFacts, ArgsKept
  <2> QED
    BY <2>1, <2>2, <2>3 DEF WholeMessages
<1>3. CASE RxProcess
  <2>1. /\ rxPc' = "wait"
        /\ UNCHANGED <<accumulated, toHost, reply, psPc, arg, reqQ, hostPc, hostMsg, serialQ>>
    BY <1>3 DEF RxProcess, hostRx, pserial
  <2>2. StreamWhole'
    BY <1>1, <2>1, StreamKept
  <2>3. HostWhole'
    BY <1>1, <2>1, HostKept
  <2>4. ArgsWhole'
    BY <1>1, <2>1, ArgsKept
  <2> QED
    BY <2>2, <2>3, <2>4 DEF WholeMessages
<1>4. CASE HostTake \/ HostPut \/ RxRead
  BY <1>4, HostTakeWhole, HostPutWhole, RxReadWhole
<1>5. CASE RecvParse \/ SendEvent
  BY <1>5, ArgsArriveWhole
<1>6. CASE PsTake \/ PsEvent \/ PsSend
  BY <1>6, PsTakeWhole, ReplyBeginsWhole, PsSendWhole
<1>7. CASE PsHandle /\ psPc' # "idle"
  BY <1>7, ReplyBeginsWhole
<1>8. CASE PsHandle /\ psPc' = "idle"
  BY <1>2, <1>8 DEF Elsewhere
<1> QED
  BY <1>2, <1>3, <1>4, <1>5, <1>6, <1>7, <1>8
  DEF Next, RecvTask, PserialTask, HostRxTask, RpcRx, Elsewhere
-----------------------------------------------------------------------------
(* What the numbers allow, for any sequences of marks.                      *)

LEMMA JoinedNothing ==
  ASSUME NEW S, NEW s \in Seq(S)
  PROVE  s ++ << >> = s /\ << >> ++ s = s /\ << >> \in Seq(S)
  BY DEF ++

LEMMA OneElement ==
  ASSUME NEW S, NEW p \in S
  PROVE  /\ One(p) \in Seq(S) /\ One(p) # << >> /\ Head(One(p)) = p /\ Tail(One(p)) = << >>
         /\ \A s \in Seq(S) : s ++ One(p) = Append(s, p)
  BY DEF One, ++

LEMMA BothPiece ==
  ASSUME NEW k \in Seq(Marked), NEW y \in Seq(Marked), NEW e \in Seq(Marked),
         NEW p \in Marked, p.if \notin {"rsp", "evt"}, NEW a, NEW b, NEW c, NEW d
  PROVE  BothExact(k ++ (One(p) ++ y), e, a, b, c, d) <=> BothExact(k ++ y, e, a, b, c, d)
<1>1. p.if \notin {"rsp"} /\ p.if \notin {"evt"}
  OBVIOUS
<1>2. Exact(k ++ (One(p) ++ y), {"rsp"}, a, b) <=> Exact(k ++ y, {"rsp"}, a, b)
  BY <1>1, ForeignExact
<1>3. One(p) \in Seq(Marked) /\ y ++ e \in Seq(Marked)
  BY OneElement, Joined
<1>4. Exact(k ++ (One(p) ++ (y ++ e)), {"evt"}, c, d) <=> Exact(k ++ (y ++ e), {"evt"}, c, d)
  BY <1>1, <1>3, ForeignExact
<1> DEFINE o == One(p)
<1> HIDE DEF o
<1>5. o \in Seq(Marked)
  BY <1>3 DEF o
<1>6. k ++ (o ++ (y ++ e)) = (k ++ (o ++ y)) ++ e
  BY <1>5, BehindThree
<1>7. k ++ (y ++ e) = (k ++ y) ++ e
  BY JoinedTwice
<1> QED
  BY <1>2, <1>4, <1>6, <1>7 DEF BothExact, o

LEMMA BothAnswered ==
  ASSUME NEW o \in Seq(Marked), NEW e \in Seq(Marked), NEW p \in Marked, p.if = "rsp",
         NEW a \in Nat, NEW b \in Nat, NEW c, NEW d, p.n = b + 1,
         BothExact(o, e, a, b, c, d)
  PROVE  BothExact(Append(o, p), e, a, b + 1, c, d)
<1>1. Exact(o, {"rsp"}, a, b) /\ Exact(o ++ e, {"evt"}, c, d)
  BY DEF BothExact
<1>2. p.if \in {"rsp"} /\ p.if \notin {"evt"}
  OBVIOUS
<1>3. Exact(Append(o, p), {"rsp"}, a, b + 1)
  <2>1. InOrder(o, {"rsp"}, a, b) /\ Complete(o, {"rsp"}, a, b)
    BY <1>1 DEF Exact
  <2>2. InOrder(Append(o, p), {"rsp"}, a, b + 1) /\ Complete(Append(o, p), {"rsp"}, a, b + 1)
    BY <1>2, <2>1, MarkedNumbered, Accepted
  <2> QED
    BY <2>2 DEF Exact
<1>4. Append(o, p) ++ e = o ++ (One(p) ++ e)
  BY JoinedOne
<1>5. Exact(o ++ (One(p) ++ e), {"evt"}, c, d)
  BY <1>1, <1>2, ForeignExact
<1> QED
  BY <1>3, <1>4, <1>5 DEF BothExact

LEMMA BothEvent ==
  ASSUME NEW o \in Seq(Marked), NEW e \in Seq(Marked), NEW p \in Marked, p.if = "evt",
         NEW a, NEW b, NEW c, NEW d,
         BothExact(o, One(p) ++ e, a, b, c, d)
  PROVE  BothExact(Append(o, p), e, a, b, c, d)
<1>1. Exact(o, {"rsp"}, a, b) /\ Exact(o ++ (One(p) ++ e), {"evt"}, c, d)
  BY DEF BothExact
<1>2. p.if \notin {"rsp"}
  OBVIOUS
<1>3. Append(o, p) ++ e = o ++ (One(p) ++ e)
  BY JoinedOne
<1>4. Exact(Append(o, p), {"rsp"}, a, b)
  <2> DEFINE n == << >> q == One(p)
  <2>1. n \in Seq(Marked) /\ o ++ n = o
    BY JoinedNothing
  <2>2. q \in Seq(Marked) /\ q ++ n = q /\ o ++ q = Append(o, p)
    BY OneElement, JoinedNothing
  <2> HIDE DEF n
  <2>3. Exact(o ++ (q ++ n), {"rsp"}, a, b) <=> Exact(o ++ n, {"rsp"}, a, b)
    BY <1>2, <2>1, ForeignExact
  <2> HIDE DEF q
  <2> QED
    BY <1>1, <2>1, <2>2, <2>3
<1> QED
  BY <1>1, <1>3, <1>4 DEF BothExact

LEMMA BothRequest ==
  ASSUME NEW o \in Seq(Marked), NEW k \in Seq(Marked), NEW y \in Seq(Marked),
         NEW p \in Marked, p.if = "req", NEW a, NEW b, NEW c, NEW d
  PROVE  BothExact(o, k ++ (One(p) ++ y), a, b, c, d) <=> BothExact(o, k ++ y, a, b, c, d)
<1>1. p.if \notin {"evt"}
  OBVIOUS
<1> DEFINE q == One(p)
<1>2. q \in Seq(Marked) /\ o ++ k \in Seq(Marked)
  BY OneElement, Joined
<1>3. Exact((o ++ k) ++ (q ++ y), {"evt"}, c, d) <=> Exact((o ++ k) ++ y, {"evt"}, c, d)
  BY <1>1, <1>2, ForeignExact
<1> HIDE DEF q
<1>4. o ++ (k ++ (q ++ y)) = (o ++ k) ++ (q ++ y)
  BY <1>2, BehindTwo
<1>5. o ++ (k ++ y) = (o ++ k) ++ y
  BY JoinedTwice
<1> QED
  BY <1>3, <1>4, <1>5 DEF BothExact, q

LEMMA BothIndicated ==
  ASSUME NEW o \in Seq(Marked), NEW e \in Seq(Marked), NEW p \in Marked, p.if = "evt",
         NEW a, NEW b, NEW c \in Nat, NEW d \in Nat, p.n = d + 1,
         BothExact(o, e, a, b, c, d)
  PROVE  BothExact(o, Append(e, p), a, b, c, d + 1)
<1>1. Exact(o, {"rsp"}, a, b) /\ Exact(o ++ e, {"evt"}, c, d)
  BY DEF BothExact
<1>2. p.if \in {"evt"}
  OBVIOUS
<1>3. Exact(o ++ Append(e, p), {"evt"}, c, d + 1)
  BY <1>1, <1>2, MarkedNumbered, AcceptLast
<1> QED
  BY <1>1, <1>3 DEF BothExact

LEMMA BothHanded ==
  ASSUME NEW y \in Seq(Marked), NEW e \in Seq(Marked), NEW p \in Marked,
         NEW a \in Nat, NEW b \in Nat, NEW c \in Nat, NEW d \in Nat,
         BothExact(One(p) ++ y, e, a, b, c, d)
  PROVE  /\ p.if = "rsp" => p.n = a + 1 /\ BothExact(y, e, a + 1, b, c, d)
         /\ p.if = "evt" => p.n = c + 1 /\ BothExact(y, e, a, b, c + 1, d)
<1> DEFINE q == One(p) v == y ++ e
<1>1. q \in Seq(Marked) /\ q # << >> /\ Head(q) = p /\ Tail(q) = << >>
  BY OneElement
<1>2. v \in Seq(Marked)
  BY Joined
<1>3. /\ Exact(q ++ y, {"rsp"}, a, b) /\ Exact((q ++ y) ++ e, {"evt"}, c, d)
  BY DEF BothExact
<1> HIDE DEF q
<1>4. (q ++ y) ++ e = q ++ v
  BY <1>1, JoinedTwice
<1> HIDE DEF v
<1>5. << >> ++ y = y /\ << >> ++ v = v
  BY <1>2, JoinedNothing
<1>6. << >> \in Seq(Marked)
  OBVIOUS
<1>7. ASSUME p.if = "rsp" PROVE p.n = a + 1 /\ BothExact(y, e, a + 1, b, c, d)
  <2>1. Head(q).if \in {"rsp"} /\ p.if \notin {"evt"}
    BY <1>1, <1>7
  <2>2. Head(q).n = a + 1 /\ Exact(Tail(q) ++ y, {"rsp"}, Head(q).n, b)
    BY <1>1, <1>3, <2>1, MarkedNumbered, HandFirst
  <2>3. p.n = a + 1 /\ Exact(y, {"rsp"}, a + 1, b)
    BY <1>1, <1>5, <2>2
  <2>4. Exact(<< >> ++ (q ++ v), {"evt"}, c, d) <=> Exact(<< >> ++ v, {"evt"}, c, d)
    BY <1>2, <1>6, <2>1, ForeignExact DEF q
  <2>5. << >> ++ (q ++ v) = q ++ v
    BY <1>1, <1>2, Joined, JoinedNothing
  <2>6. Exact(v, {"evt"}, c, d)
    BY <1>3, <1>4, <1>5, <2>4, <2>5
  <2> QED
    BY <2>3, <2>6 DEF BothExact, v
<1>8. ASSUME p.if = "evt" PROVE p.n = c + 1 /\ BothExact(y, e, a, b, c + 1, d)
  <2>1. Head(q).if \in {"evt"} /\ p.if \notin {"rsp"}
    BY <1>1, <1>8
  <2>2. Exact(q ++ v, {"evt"}, c, d)
    BY <1>3, <1>4
  <2>3. Head(q).n = c + 1 /\ Exact(Tail(q) ++ v, {"evt"}, Head(q).n, d)
    BY <1>1, <1>2, <2>1, <2>2, MarkedNumbered, HandFirst
  <2>4. p.n = c + 1 /\ Exact(v, {"evt"}, c + 1, d)
    BY <1>1, <1>5, <2>3
  <2>5. Exact(<< >> ++ (q ++ y), {"rsp"}, a, b) <=> Exact(<< >> ++ y, {"rsp"}, a, b)
    BY <1>6, <2>1, ForeignExact DEF q
  <2>6. << >> ++ (q ++ y) = q ++ y
    BY <1>1, Joined, JoinedNothing
  <2>7. Exact(y, {"rsp"}, a, b)
    BY <1>3, <1>5, <2>5, <2>6
  <2> QED
    BY <2>4, <2>7 DEF BothExact, v
<1> QED
  BY <1>7, <1>8
-----------------------------------------------------------------------------
(* Every step keeps the numbers.                                            *)

LEMMA MarkedOne ==
  ASSUME NEW x \in NonEmpty
  PROVE  One(MessageMark(x)) \in Seq(Marked) /\ MessageMark(x) \in Marked
<1>1. MessageMark(x) \in Marked
  BY MarkType
<1> QED
  BY <1>1, OneElement

LEMMA StageTypes ==
  ASSUME TypeOK, WholeMessages
  PROVE  /\ serialQ \in Seq(NonEmpty) /\ reqQ \in Seq(Args)
         /\ hostPc = "put" => hostMsg \in NonEmpty
         /\ rxPc = "process" => rxMsg \in NonEmpty
         /\ psPc = "send" => reply \in NonEmpty
         /\ psPc = "event" => arg.data \in NonEmpty
<1>1. StreamWhole /\ HostWhole /\ ArgsWhole
  BY DEF WholeMessages
<1>2. serialQ \in Seq(NonEmpty)
  <2> DEFINE q == serialQ
  <2>1. q \in Seq(Seq(FragmentType)) /\ \A i \in 1..Len(q) : Message(q[i])
    BY <1>1 DEF TypeOK, HostRxOK, HostWhole
  <2> HIDE DEF q
  <2>2. \A i \in 1..Len(q) : q[i] \in NonEmpty
    BY <2>1, MessageFacts
  <2>3. q \in Seq(NonEmpty)
    BY <2>1, <2>2
  <2> QED
    BY <2>3 DEF q
<1>3. reqQ \in Seq(Args)
  <2> DEFINE q == reqQ
  <2>1. q \in Seq(ReqArg) /\ \A i \in 1..Len(q) : q[i].kind = "evt" => Event(q[i].data)
    BY <1>1 DEF TypeOK, PserialOK, ArgsWhole
  <2> HIDE DEF q
  <2>2. ASSUME NEW i \in 1..Len(q) PROVE q[i] \in Args
    <3>1. q[i] \in ReqArg
      BY <2>1
    <3>2. q[i].kind = "evt" => q[i].data # << >>
      <4>1. ASSUME q[i].kind = "evt" PROVE q[i].data \in NonEmpty
        BY <2>1, <4>1, EventMessage, MessageFacts
      <4> QED
        BY <4>1 DEF NonEmpty
    <3> QED
      BY <3>1, <3>2 DEF Args
  <2>3. q \in Seq(Args)
    BY <2>1, <2>2
  <2> QED
    BY <2>3 DEF q
<1>4. hostPc = "put" => hostMsg \in NonEmpty
  BY <1>1, MessageFacts DEF HostWhole
<1>5. rxPc = "process" => rxMsg \in NonEmpty
  BY <1>1, MessageFacts DEF HostWhole
<1>6. psPc = "event" => arg.data \in NonEmpty
  BY <1>1, MessageFacts, EventMessage DEF ArgsWhole
<1>7. psPc = "send" => reply \in NonEmpty
  BY <1>1, MessageTypes DEF StreamWhole, NonEmpty
<1> QED
  BY <1>2, <1>3, <1>4, <1>5, <1>6, <1>7

LEMMA Stages ==
  ASSUME TypeOK, WholeMessages
  PROVE  /\ Processing \in Seq(Marked) /\ MessageMarks(serialQ) \in Seq(Marked)
         /\ Putting \in Seq(Marked) /\ Marks(toHost) \in Seq(Marked)
         /\ Replying \in Seq(Marked) /\ Indicated \in Seq(Marked)
         /\ ArgMarks(reqQ) \in Seq(Marked) /\ Received \in Seq(Marked)
         /\ Sent \in Seq(Marked) /\ Outgoing \in Seq(Marked) /\ EventsQueued \in Seq(Marked)
<1>1. << >> \in Seq(Marked)
  OBVIOUS
<1>2. Processing \in Seq(Marked)
  BY <1>1, StageTypes, MarkedOne DEF Processing
<1>3. Putting \in Seq(Marked)
  BY <1>1, StageTypes, MarkedOne DEF Putting
<1>4. Replying \in Seq(Marked)
  BY <1>1, StageTypes, MarkedOne DEF Replying
<1>5. Indicated \in Seq(Marked)
  BY <1>1, StageTypes, MarkedOne DEF Indicated
<1>6. MessageMarks(serialQ) \in Seq(Marked)
  BY StageTypes, MessageMarksFacts
<1>7. ArgMarks(reqQ) \in Seq(Marked)
  BY StageTypes, ArgMarksFacts
<1>8. Marks(toHost) \in Seq(Marked)
  BY MessageTypes, MarksFacts
<1>9. MessageMarks(serialQ) ++ Putting \in Seq(Marked)
  BY <1>3, <1>6, Joined
<1>10. Received \in Seq(Marked)
  BY <1>2, <1>9, Joined DEF Received
<1>11. Sent \in Seq(Marked)
  BY <1>4, <1>8, Joined DEF Sent
<1>12. Outgoing \in Seq(Marked)
  BY <1>10, <1>11, Joined DEF Outgoing
<1>13. EventsQueued \in Seq(Marked)
  BY <1>5, <1>7, Joined DEF EventsQueued
<1> QED
  BY <1>2, <1>3, <1>4, <1>5, <1>6, <1>7, <1>8, <1>10, <1>11, <1>12, <1>13

LEMMA ReceivedKept ==
  ASSUME UNCHANGED <<serialQ, rxMsg>>, rxPc' = "process" <=> rxPc = "process",
         hostPc' = "put" <=> hostPc = "put", hostPc = "put" => hostMsg' = hostMsg
  PROVE  Received' = Received
<1>1. Putting' = Putting
  BY DEF Putting
<1>2. Processing' = Processing
  BY DEF Processing
<1> QED
  BY <1>1, <1>2 DEF Received

LEMMA SentKept ==
  ASSUME UNCHANGED <<toHost, reply>>, psPc' = "send" <=> psPc = "send"
  PROVE  Sent' = Sent
<1>1. Replying' = Replying
  BY DEF Replying
<1> QED
  BY <1>1 DEF Sent

LEMMA QueuedKept ==
  ASSUME reqQ' = reqQ, psPc' = "event" <=> psPc = "event", psPc = "event" => arg' = arg
  PROVE  EventsQueued' = EventsQueued
<1>1. Indicated' = Indicated
  BY DEF Indicated
<1> QED
  BY <1>1 DEF EventsQueued

LEMMA ElsewhereNumbers ==
  ASSUME Numbers, Elsewhere
  PROVE  Numbers'
<1>1. Received' = Received
  BY ElsewhereFacts, ReceivedKept
<1>2. Sent' = Sent
  BY ElsewhereFacts, SentKept
<1>3. EventsQueued' = EventsQueued
  BY ElsewhereFacts, QueuedKept
<1>4. UNCHANGED <<answers, replied, eventsRead, events>>
  BY ElsewhereFacts
<1> QED
  BY <1>1, <1>2, <1>3, <1>4 DEF Numbers, Outgoing

\* serial_ll_rx_handler takes a packet: the last one of a message stands for it.
LEMMA HostTakeNumbers ==
  ASSUME TypeOK, WholeMessages, Numbers, HostTake
  PROVE  Numbers'
<1> DEFINE h == Head(toHost) x == Append(accumulated, h) p == Mark(h)
           f == Processing q == MessageMarks(serialQ) m == Marks(toHost) n == Tail(m)
           s == Replying y == n ++ s e == EventsQueued k == f ++ (q ++ << >>)
<1>1. /\ toHost # << >> /\ toHost' = Tail(toHost) /\ hostPc = "idle"
      /\ IF IsLast(h) THEN accumulated' = << >> /\ hostMsg' = x /\ hostPc' = "put"
                      ELSE accumulated' = x /\ UNCHANGED <<hostMsg, hostPc>>
      /\ UNCHANGED <<reply, psPc, arg, reqQ, serialQ, rxPc, rxMsg, answers, eventsRead, replied,
                     events>>
  BY DEF HostTake, pserial, rpcRx
<1>2. h \in FragmentType /\ h.kind \in {"rsp", "evt"} /\ MessageMark(x) = p
  BY <1>1, NextMessage
<1>3. /\ f \in Seq(Marked) /\ q \in Seq(Marked) /\ m \in Seq(Marked) /\ s \in Seq(Marked)
      /\ e \in Seq(Marked)
  BY Stages
<1>4. p \in Marked
  BY <1>2, MarkType
<1>5. m # << >> /\ Head(m) = p /\ Marks(Tail(toHost)) = n
  BY <1>1, MessageTypes, MarksFacts
<1>6. Sent' = y
  <2>1. Replying' = s
    BY <1>1 DEF Replying
  <2> QED
    BY <1>1, <1>5, <2>1 DEF Sent
<1>7. Sent = m ++ s
  BY DEF Sent
<1>8. Processing' = f /\ MessageMarks(serialQ)' = q /\ Putting = << >>
  BY <1>1 DEF Processing, Putting
<1>9. Putting' = IF IsLast(h) THEN One(p) ELSE << >>
  BY <1>1, <1>2 DEF Putting
<1>10. Received = k
  BY <1>8 DEF Received
<1>11. Received' = f ++ (q ++ Putting')
  BY <1>8 DEF Received
<1>12. EventsQueued' = e
  BY <1>1, QueuedKept
<1>13. BothExact(k ++ (m ++ s), e, answers, replied, eventsRead, events)
  BY <1>7, <1>10 DEF Numbers, Outgoing
<1> HIDE DEF f, q, m, s, e
<1>14. n \in Seq(Marked) /\ m ++ s = One(p) ++ y
  BY <1>3, <1>5, SplitFirst
<1>15. y \in Seq(Marked) /\ q ++ << >> = q /\ k \in Seq(Marked)
  BY <1>3, <1>14, Joined, JoinedNothing
<1> HIDE DEF p, n
<1>16. CASE IsLast(h)
  <2>1. Received' = f ++ (q ++ One(p))
    BY <1>9, <1>11, <1>16
  <2>2. f ++ (q ++ One(p)) = Append(k, p)
    <3>1. q ++ One(p) = Append(q, p)
      BY <1>3, <1>4, OneElement
    <3>2. f ++ Append(q, p) = Append(f ++ q, p)
      BY <1>3, <1>4, JoinedOne
    <3> QED
      BY <1>15, <3>1, <3>2
  <2> HIDE DEF k, y
  <2>3. Append(k, p) ++ y = k ++ (One(p) ++ y)
    BY <1>4, <1>15, JoinedOne
  <2>4. Outgoing' = k ++ (m ++ s)
    BY <1>6, <1>14, <2>1, <2>2, <2>3 DEF Outgoing
  <2> QED
    BY <1>1, <1>12, <1>13, <2>4 DEF Numbers
<1>17. CASE ~IsLast(h)
  <2>1. Received' = k
    BY <1>9, <1>11, <1>17
  <2>2. Outgoing' = k ++ y
    BY <1>6, <2>1 DEF Outgoing
  <2>3. p.if \notin {"rsp", "evt"}
    BY <1>17 DEF p, Mark
  <2> HIDE DEF k, y
  <2>4. BothExact(k ++ (One(p) ++ y), e, answers, replied, eventsRead, events)
    BY <1>13, <1>14
  <2>5. BothExact(k ++ y, e, answers, replied, eventsRead, events)
    BY <1>3, <1>4, <1>15, <2>3, <2>4, BothPiece
  <2> QED
    BY <1>1, <1>12, <2>2, <2>5 DEF Numbers
<1> QED
  BY <1>16, <1>17
\* The steps that hand a message from stage to stage on the host.
LEMMA HostPutNumbers ==
  ASSUME TypeOK, WholeMessages, Numbers, HostPut
  PROVE  Numbers'
<1> DEFINE f == Processing q == MessageMarks(serialQ) p == MessageMark(hostMsg) n == << >>
<1>1. /\ hostPc = "put" /\ hostPc' = "signal" /\ serialQ' = Append(serialQ, hostMsg)
      /\ UNCHANGED <<toHost, reply, psPc, arg, reqQ, rxPc, rxMsg, answers, eventsRead, replied,
                     events>>
  BY DEF HostPut, pserial, rpcRx
<1>2. hostMsg \in NonEmpty /\ serialQ \in Seq(NonEmpty)
  BY <1>1, StageTypes
<1>3. f \in Seq(Marked) /\ q \in Seq(Marked) /\ p \in Marked
  BY <1>2, Stages, MarkType
<1>4. MessageMarks(serialQ') = Append(q, p)
  BY <1>1, <1>2, MessageMarksFacts
<1>5. Processing' = f /\ Putting' = n /\ Putting = One(p)
  BY <1>1 DEF Processing, Putting
<1>6. Received = f ++ (q ++ One(p)) /\ Received' = f ++ (Append(q, p) ++ n)
  BY <1>4, <1>5 DEF Received
<1> HIDE DEF f, q, p, n
<1>7. n \in Seq(Marked) /\ Append(q, p) ++ n = Append(q, p)
  <2>1. Append(q, p) \in Seq(Marked)
    BY <1>3, AppendFacts
  <2> QED
    BY <2>1, JoinedNothing DEF n
<1>8. q ++ One(p) = Append(q, p)
  BY <1>3, OneElement
<1>9. Received' = Received
  BY <1>6, <1>7, <1>8
<1>10. Sent' = Sent
  BY <1>1, SentKept
<1>11. EventsQueued' = EventsQueued
  BY <1>1, QueuedKept
<1> QED
  BY <1>1, <1>9, <1>10, <1>11 DEF Numbers, Outgoing

LEMMA RxReadNumbers ==
  ASSUME TypeOK, WholeMessages, Numbers, RxRead
  PROVE  Numbers'
<1> DEFINE q == MessageMarks(serialQ) u == Putting
<1>1. /\ rxPc = "read" /\ rxPc' = "process" /\ serialQ # << >> /\ serialQ' = Tail(serialQ)
      /\ rxMsg' = Head(serialQ)
      /\ UNCHANGED <<toHost, reply, psPc, arg, reqQ, hostPc, hostMsg, answers, eventsRead,
                     replied, events>>
  BY DEF RxRead, pserial, hostRx
<1>2. serialQ \in Seq(NonEmpty)
  BY StageTypes
<1>3. u \in Seq(Marked) /\ q \in Seq(Marked)
  BY Stages
<1>4. /\ q # << >> /\ Head(q) = MessageMark(Head(serialQ))
      /\ Tail(q) = MessageMarks(Tail(serialQ))
  BY <1>1, <1>2, MessageMarksFacts
<1>5. Processing = << >> /\ Processing' = One(Head(q)) /\ Putting' = u
  BY <1>1, <1>4 DEF Processing, Putting
<1>6. Received = << >> ++ (q ++ u) /\ Received' = One(Head(q)) ++ (Tail(q) ++ u)
  BY <1>1, <1>4, <1>5 DEF Received
<1> HIDE DEF q, u
<1>7. q ++ u = One(Head(q)) ++ (Tail(q) ++ u)
  BY <1>3, <1>4, SplitFirst
<1>8. << >> ++ (q ++ u) = q ++ u
  BY <1>3, Joined, JoinedNothing
<1>9. Received' = Received
  BY <1>6, <1>7, <1>8
<1>10. Sent' = Sent
  BY <1>1, SentKept
<1>11. EventsQueued' = EventsQueued
  BY <1>1, QueuedKept
<1> QED
  BY <1>1, <1>9, <1>10, <1>11 DEF Numbers, Outgoing

\* The message that rpc_rx processes is the next response or the next event.
LEMMA ProcessedNumber ==
  ASSUME TypeOK, WholeMessages, Numbers, rxPc = "process"
  PROVE  \E kind \in {"rsp", "evt"}, n \in Nat :
           /\ rxMsg = Whole(kind, n)
           /\ n = (IF kind = "rsp" THEN answers ELSE eventsRead) + 1
           /\ BothExact((MessageMarks(serialQ) ++ Putting) ++ Sent, EventsQueued,
                        IF kind = "rsp" THEN answers + 1 ELSE answers, replied,
                        IF kind = "rsp" THEN eventsRead ELSE eventsRead + 1, events)
<1>1. PICK kind \in {"rsp", "evt"}, n \in Nat : rxMsg = Whole(kind, n)
  BY DEF WholeMessages, HostWhole, Message
<1> DEFINE p == MessageMark(rxMsg) v == MessageMarks(serialQ) ++ Putting s == Sent
           e == EventsQueued y == v ++ s
<1>2. p = [if |-> kind, n |-> n]
  BY <1>1, WholeFacts
<1>3. p.if = kind /\ p.n = n /\ p \in Marked
  BY <1>2 DEF Marked, Kinds
<1>4. s \in Seq(Marked) /\ e \in Seq(Marked) /\ v \in Seq(Marked)
  BY Stages, Joined
<1>5. Received = One(p) ++ v
  BY DEF Received, Processing
<1>6. BothExact((One(p) ++ v) ++ s, e, answers, replied, eventsRead, events)
  BY <1>5 DEF Numbers, Outgoing
<1> HIDE DEF p, v, s, e
<1>7. One(p) \in Seq(Marked) /\ y \in Seq(Marked)
  BY <1>3, <1>4, OneElement, Joined
<1>8. One(p) ++ y = (One(p) ++ v) ++ s
  BY <1>4, <1>7, JoinedTwice
<1> HIDE DEF y
<1>9. BothExact(One(p) ++ y, e, answers, replied, eventsRead, events)
  BY <1>6, <1>8
<1>10. answers \in Nat /\ replied \in Nat /\ eventsRead \in Nat /\ events \in Nat
  BY MessageTypes
<1>11. /\ p.if = "rsp" => /\ p.n = answers + 1
                          /\ BothExact(y, e, answers + 1, replied, eventsRead, events)
       /\ p.if = "evt" => /\ p.n = eventsRead + 1
                          /\ BothExact(y, e, answers, replied, eventsRead + 1, events)
  BY <1>3, <1>4, <1>7, <1>9, <1>10, BothHanded
<1>12. CASE kind = "rsp"
  BY <1>1, <1>3, <1>11, <1>12 DEF y, v, s, e
<1>13. CASE kind = "evt"
  BY <1>1, <1>3, <1>11, <1>13 DEF y, v, s, e
<1> QED
  BY <1>1, <1>12, <1>13

LEMMA RxProcessNumbers ==
  ASSUME TypeOK, WholeMessages, Numbers, RxProcess
  PROVE  Numbers'
<1>1. /\ rxPc = "process" /\ rxPc' = "wait"
      /\ IF rxMsg[1].kind = "rsp"
           THEN answers' = answers + 1 /\ eventsRead' = eventsRead
           ELSE eventsRead' = eventsRead + 1 /\ answers' = answers
      /\ UNCHANGED <<toHost, reply, psPc, arg, reqQ, hostPc, hostMsg, serialQ, replied, events>>
  BY DEF RxProcess, pserial, hostRx
<1> DEFINE v == MessageMarks(serialQ) ++ Putting
<1>2. PICK kind \in {"rsp", "evt"}, n \in Nat :
           /\ rxMsg = Whole(kind, n)
           /\ BothExact(v ++ Sent, EventsQueued,
                        IF kind = "rsp" THEN answers + 1 ELSE answers, replied,
                        IF kind = "rsp" THEN eventsRead ELSE eventsRead + 1, events)
  BY <1>1, ProcessedNumber
<1>3. rxMsg[1].kind = kind
  <2>1. Frags[kind] \in Nat \ {0} /\ rxMsg = [i \in 1..Frags[kind] |-> Fragment(kind, n, i)]
    BY <1>2, WholeFacts DEF Whole
  <2>2. rxMsg[1] = Fragment(kind, n, 1)
    BY <2>1
  <2> QED
    BY <2>2 DEF Fragment
<1>4. /\ answers' = IF kind = "rsp" THEN answers + 1 ELSE answers
      /\ eventsRead' = IF kind = "rsp" THEN eventsRead ELSE eventsRead + 1
  BY <1>1, <1>3
<1>5. v \in Seq(Marked)
  BY Stages, Joined
<1>6. Processing' = << >> /\ MessageMarks(serialQ)' = MessageMarks(serialQ) /\ Putting' = Putting
  BY <1>1 DEF Processing, Putting
<1>7. Received' = << >> ++ v
  BY <1>6 DEF Received
<1> HIDE DEF v
<1>8. Received' = v
  BY <1>5, <1>7, JoinedNothing
<1>9. Sent' = Sent
  BY <1>1, SentKept
<1>10. EventsQueued' = EventsQueued
  BY <1>1, QueuedKept
<1>11. BothExact(v ++ Sent, EventsQueued, answers', replied, eventsRead', events)
  BY <1>2, <1>4
<1> QED
  BY <1>1, <1>8, <1>9, <1>10, <1>11 DEF Numbers, Outgoing
\* serial_write_data sends a packet: the last one stands for the message.
LEMMA PsSendNumbers ==
  ASSUME TypeOK, WholeMessages, Numbers, PsSend
  PROVE  Numbers'
<1> DEFINE h == Head(reply) p == Mark(h) m == Marks(toHost) k == Received e == EventsQueued
           s == One(MessageMark(reply)) n == << >>
<1>1. /\ psPc = "send" /\ toHost' = Append(toHost, h) /\ reply' = Tail(reply)
      /\ psPc' = IF Tail(reply) = << >> THEN "idle" ELSE "send"
      /\ UNCHANGED <<reqQ, arg, hostPc, hostMsg, serialQ, rxPc, rxMsg, answers, eventsRead,
                     replied, events>>
  BY DEF PsSend, hostRx, rpcRx
<1>2. /\ h \in FragmentType
      /\ Tail(reply) # << >> => ~IsLast(h) /\ MessageMark(Tail(reply)) = MessageMark(reply)
      /\ Tail(reply) = << >> => MessageMark(reply) = p
  BY ReplySent
<1>3. m \in Seq(Marked) /\ k \in Seq(Marked) /\ e \in Seq(Marked)
  BY Stages
<1>4. p \in Marked
  BY <1>2, MarkType
<1>5. Marks(Append(toHost, h)) = Append(m, p)
  BY <1>2, MessageTypes, MarksFacts
<1>6. Replying = s /\ Sent = m ++ s
  BY <1>1 DEF Replying, Sent
<1>7. s \in Seq(Marked)
  <2>1. Replying \in Seq(Marked)
    BY Stages
  <2> QED
    BY <1>6, <2>1
<1>8. Replying' = IF Tail(reply) = << >> THEN n ELSE One(MessageMark(Tail(reply)))
  BY <1>1 DEF Replying
<1>9. Sent' = Append(m, p) ++ Replying'
  BY <1>1, <1>5 DEF Sent
<1>10. BothExact(k ++ (m ++ s), e, answers, replied, eventsRead, events)
  BY <1>6 DEF Numbers, Outgoing
<1>11. Received' = k
  BY <1>1, ReceivedKept
<1>12. EventsQueued' = e
  BY <1>1, QueuedKept
<1> HIDE DEF p, m, k, e
<1>13. CASE Tail(reply) = << >>
  <2>1. s = One(p) /\ Sent' = Append(m, p) ++ n
    BY <1>2, <1>8, <1>9, <1>13
  <2> HIDE DEF n
  <2>2. Append(m, p) ++ n = Append(m, p)
    <3>1. Append(m, p) \in Seq(Marked)
      BY <1>3, <1>4, AppendFacts
    <3> QED
      BY <3>1, JoinedNothing DEF n
  <2>3. m ++ One(p) = Append(m, p)
    BY <1>3, <1>4, OneElement
  <2>4. Outgoing' = k ++ (m ++ s)
    BY <1>11, <2>1, <2>2, <2>3 DEF Outgoing
  <2> QED
    BY <1>1, <1>10, <1>12, <2>4 DEF Numbers
<1>14. CASE Tail(reply) # << >>
  <2>1. Sent' = Append(m, p) ++ s
    BY <1>2, <1>8, <1>9, <1>14
  <2>2. p.if \notin {"rsp", "evt"}
    BY <1>2, <1>14 DEF p, Mark
  <2> HIDE DEF s
  <2>3. Append(m, p) ++ s = m ++ (One(p) ++ s)
    BY <1>3, <1>4, <1>7, JoinedOne
  <2> DEFINE o == One(p) g == k ++ m
  <2>4. o \in Seq(Marked) /\ g \in Seq(Marked)
    BY <1>3, <1>4, OneElement, Joined
  <2>5. BothExact(g ++ (o ++ s), e, answers, replied, eventsRead, events)
          <=> BothExact(g ++ s, e, answers, replied, eventsRead, events)
    <3> HIDE DEF g
    <3> QED
      BY <1>3, <1>4, <1>7, <2>2, <2>4, BothPiece
  <2> HIDE DEF o
  <2>6. k ++ (m ++ (o ++ s)) = g ++ (o ++ s)
    BY <1>3, <1>7, <2>4, BehindTwo
  <2>7. k ++ (m ++ s) = g ++ s
    BY <1>3, <1>7, JoinedTwice
  <2>8. Outgoing' = g ++ (o ++ s)
    BY <1>11, <2>1, <2>3, <2>6 DEF Outgoing, o
  <2> HIDE DEF g
  <2>9. BothExact(Outgoing', e, answers, replied, eventsRead, events)
    BY <1>10, <2>5, <2>7, <2>8
  <2> QED
    BY <1>1, <1>12, <2>9 DEF Numbers
<1> QED
  BY <1>13, <1>14

\* pserial_task begins to send a message of mark p.
LEMMA SentLonger ==
  ASSUME TypeOK, WholeMessages, psPc # "send", psPc' = "send", reply' \in NonEmpty,
         UNCHANGED <<toHost, hostPc, hostMsg, serialQ, rxPc, rxMsg>>
  PROVE  Outgoing' = Append(Outgoing, MessageMark(reply'))
<1> DEFINE m == Marks(toHost) k == Received p == MessageMark(reply') n == << >>
<1>1. m \in Seq(Marked) /\ k \in Seq(Marked) /\ p \in Marked
  BY Stages, MarkType
<1>2. Sent = m ++ n /\ Sent' = m ++ One(p) /\ Received' = k
  <2>1. Replying = n /\ Replying' = One(p)
    BY DEF Replying
  <2>2. Received' = k
    BY ReceivedKept
  <2> QED
    BY <2>1, <2>2 DEF Sent
<1>3. Outgoing = k ++ (m ++ n) /\ Outgoing' = k ++ (m ++ One(p))
  BY <1>2 DEF Outgoing
<1> HIDE DEF m, k, p
<1>4. m ++ n = m
  BY <1>1, JoinedNothing
<1>5. m ++ One(p) = Append(m, p)
  BY <1>1, OneElement
<1>6. k ++ Append(m, p) = Append(k ++ m, p)
  BY <1>1, JoinedOne
<1> QED
  BY <1>3, <1>4, <1>5, <1>6 DEF p

LEMMA PsHandleNumbers ==
  ASSUME TypeOK, WholeMessages, Numbers, PsHandle, psPc' # "idle"
  PROVE  Numbers'
<1> DEFINE w == Whole("rsp", replied + 1) p == MessageMark(w) o == Outgoing e == EventsQueued
<1>1. /\ psPc = "handle" /\ psPc' = "send" /\ replied' = replied + 1
      /\ replied + 1 \in Nat /\ reply' = w
  BY Answering
<1>2. UNCHANGED <<toHost, reqQ, hostPc, hostMsg, serialQ, rxPc, rxMsg, answers, eventsRead,
                  events>>
  BY DEF PsHandle, hostRx, rpcRx
<1>3. w \in NonEmpty /\ p = [if |-> "rsp", n |-> replied + 1]
  BY <1>1, WholeFacts
<1>4. p.if = "rsp" /\ p.n = replied + 1 /\ p \in Marked
  BY <1>1, <1>3 DEF Marked, Kinds
<1>5. Outgoing' = Append(o, p)
  <2>1. reply' \in NonEmpty /\ psPc # "send"
    BY <1>1, <1>3
  <2> HIDE DEF w
  <2>2. Outgoing' = Append(Outgoing, MessageMark(reply'))
    BY <1>1, <1>2, <2>1, SentLonger
  <2> QED
    BY <1>1, <2>2
<1>6. EventsQueued' = e
  BY <1>1, <1>2, QueuedKept
<1>7. o \in Seq(Marked) /\ e \in Seq(Marked)
  BY Stages
<1>8. answers \in Nat /\ replied \in Nat
  BY MessageTypes
<1>9. BothExact(o, e, answers, replied, eventsRead, events)
  BY DEF Numbers
<1> HIDE DEF w, p, o, e
<1>10. BothExact(Append(o, p), e, answers, replied + 1, eventsRead, events)
  BY <1>4, <1>7, <1>8, <1>9, BothAnswered
<1> QED
  BY <1>1, <1>2, <1>5, <1>6, <1>10 DEF Numbers

LEMMA PsEventNumbers ==
  ASSUME TypeOK, WholeMessages, Numbers, PsEvent
  PROVE  Numbers'
<1> DEFINE w == arg.data p == MessageMark(w) o == Outgoing e == ArgMarks(reqQ)
<1>1. /\ psPc = "event" /\ psPc' = "send" /\ reply' = w
      /\ UNCHANGED <<toHost, reqQ, hostPc, hostMsg, serialQ, rxPc, rxMsg, answers, eventsRead,
                     replied, events>>
  BY DEF PsEvent, hostRx, rpcRx
<1>2. PICK n \in Nat : w = Whole("evt", n)
  BY <1>1 DEF WholeMessages, ArgsWhole, Event
<1>3. w \in NonEmpty /\ p = [if |-> "evt", n |-> n]
  BY <1>2, WholeFacts
<1>4. p.if = "evt" /\ p \in Marked
  BY <1>3, MarkType
<1>5. Outgoing' = Append(o, p)
  <2>1. reply' \in NonEmpty /\ psPc # "send"
    BY <1>1, <1>3
  <2> HIDE DEF w
  <2>2. Outgoing' = Append(Outgoing, MessageMark(reply'))
    BY <1>1, <2>1, SentLonger
  <2> QED
    BY <1>1, <2>2
<1>6. Indicated = One(p) /\ Indicated' = << >> /\ ArgMarks(reqQ)' = e
  BY <1>1 DEF Indicated
<1>7. EventsQueued = One(p) ++ e /\ EventsQueued' = << >> ++ e
  BY <1>6 DEF EventsQueued
<1>8. o \in Seq(Marked) /\ e \in Seq(Marked)
  BY Stages
<1>9. BothExact(o, One(p) ++ e, answers, replied, eventsRead, events)
  BY <1>7 DEF Numbers
<1> HIDE DEF w, p, o, e
<1>10. BothExact(Append(o, p), e, answers, replied, eventsRead, events)
  BY <1>4, <1>8, <1>9, BothEvent
<1>11. EventsQueued' = e
  BY <1>7, <1>8, JoinedNothing
<1> QED
  BY <1>1, <1>5, <1>10, <1>11 DEF Numbers

LEMMA PsTakeNumbers ==
  ASSUME TypeOK, WholeMessages, Numbers, PsTake
  PROVE  Numbers'
<1> DEFINE h == Head(reqQ) p == ArgMark(h) q == ArgMarks(reqQ) t == Tail(q) o == Outgoing n == << >>
<1>1. /\ reqQ # << >> /\ arg' = h /\ reqQ' = Tail(reqQ)
      /\ psPc = "idle" /\ psPc' = IF h.kind = "evt" THEN "event" ELSE "read"
      /\ UNCHANGED <<toHost, reply, hostPc, hostMsg, serialQ, rxPc, rxMsg, answers, eventsRead,
                     replied, events>>
  BY DEF PsTake, hostRx, rpcRx
<1>2. reqQ \in Seq(Args)
  BY StageTypes
<1>3. h \in Args /\ p \in Marked
  BY <1>1, <1>2, TailFacts, MarkType
<1>4. q \in Seq(Marked) /\ q # << >> /\ Head(q) = p /\ t = ArgMarks(Tail(reqQ))
  BY <1>1, <1>2, ArgMarksFacts
<1>5. Indicated = n /\ Indicated' = IF h.kind = "evt" THEN One(p) ELSE n
  BY <1>1 DEF Indicated, ArgMark
<1>6. EventsQueued = n ++ q /\ EventsQueued' = Indicated' ++ t
  BY <1>1, <1>4, <1>5 DEF EventsQueued
<1>7. o \in Seq(Marked)
  BY Stages
<1>8. Outgoing' = o
  <2>1. Received' = Received
    BY <1>1, ReceivedKept
  <2>2. Sent' = Sent
    BY <1>1, SentKept
  <2> QED
    BY <2>1, <2>2 DEF Outgoing
<1>9. BothExact(o, n ++ q, answers, replied, eventsRead, events)
  BY <1>6 DEF Numbers
<1> HIDE DEF p, q, o
<1>10. q = One(p) ++ t /\ t \in Seq(Marked)
  BY <1>4, TailFacts, JoinedHead
<1> HIDE DEF t, n
<1>11. n ++ q = q /\ n ++ t = t /\ n \in Seq(Marked)
  BY <1>4, <1>10, JoinedNothing DEF n
<1>12. CASE h.kind = "evt"
  <2>1. EventsQueued' = n ++ q
    BY <1>5, <1>6, <1>10, <1>11, <1>12
  <2> QED
    BY <1>1, <1>8, <1>9, <2>1 DEF Numbers
<1>13. CASE h.kind # "evt"
  <2>1. EventsQueued' = n ++ t
    BY <1>5, <1>6, <1>13
  <2>2. p.if = "req"
    BY <1>13 DEF p, ArgMark
  <2>3. BothExact(o, n ++ (One(p) ++ t), answers, replied, eventsRead, events)
    BY <1>9, <1>10
  <2>4. BothExact(o, n ++ t, answers, replied, eventsRead, events)
    BY <1>3, <1>7, <1>10, <1>11, <2>2, <2>3, BothRequest
  <2> QED
    BY <1>1, <1>8, <2>1, <2>4 DEF Numbers
<1> QED
  BY <1>12, <1>13

LEMMA ArgsArriveNumbers ==
  ASSUME TypeOK, WholeMessages, Numbers, RecvParse \/ SendEvent
  PROVE  Numbers'
<1> DEFINE q == ArgMarks(reqQ) i == Indicated o == Outgoing
<1>1. UNCHANGED <<toHost, reply, psPc, arg, hostPc, hostMsg, serialQ, rxPc, rxMsg, answers,
                  eventsRead, replied>>
  BY DEF RecvParse, SendEvent, hostRx, rpcRx, pserial
<1>2. reqQ \in Seq(Args)
  BY StageTypes
<1>3. q \in Seq(Marked) /\ i \in Seq(Marked) /\ o \in Seq(Marked)
  BY Stages
<1>4. Outgoing' = o
  <2>1. Received' = Received
    BY <1>1, ReceivedKept
  <2>2. Sent' = Sent
    BY <1>1, SentKept
  <2> QED
    BY <2>1, <2>2 DEF Outgoing
<1>5. Indicated' = i
  BY <1>1 DEF Indicated
<1>6. BothExact(o, i ++ q, answers, replied, eventsRead, events)
  BY DEF Numbers, EventsQueued
<1>7. ASSUME NEW a \in Args, reqQ' = Append(reqQ, a)
      PROVE  EventsQueued' = i ++ Append(q, ArgMark(a)) /\ ArgMark(a) \in Marked
  <2>1. ArgMarks(reqQ') = Append(q, ArgMark(a))
    BY <1>2, <1>7, ArgMarksFacts
  <2> QED
    BY <1>5, <2>1, MarkType DEF EventsQueued
<1> HIDE DEF q, i, o
<1>8. CASE RecvParse
  <2> DEFINE a == [kind |-> "req", data |-> SubSeq(r.data, 1, r.len)] p == ArgMark(a)
  <2>1. reqQ' = Append(reqQ, a) /\ a \in Args /\ a.kind = "req" /\ events' = events
    BY <1>8, ParsedArg DEF RecvParse, Args
  <2> HIDE DEF a
  <2>2. EventsQueued' = i ++ Append(q, p) /\ p \in Marked /\ p.if = "req"
    BY <1>7, <2>1 DEF ArgMark
  <2> HIDE DEF p
  <2> DEFINE n == << >>
  <2>3. n \in Seq(Marked) /\ q ++ n = q /\ One(p) ++ n = One(p)
    BY <1>3, <2>2, OneElement, JoinedNothing
  <2>4. Append(q, p) = q ++ One(p) /\ i ++ q \in Seq(Marked) /\ One(p) \in Seq(Marked)
    BY <1>3, <2>2, OneElement, Joined
  <2> HIDE DEF n
  <2> DEFINE u == i ++ q s == One(p)
  <2>5. i ++ (q ++ s) = u ++ s
    <3> HIDE DEF s
    <3>1. s \in Seq(Marked)
      BY <2>4 DEF s
    <3> QED
      BY <1>3, <3>1, JoinedTwice
  <2>6. u ++ n = u
    <3> HIDE DEF u
    <3>1. u \in Seq(Marked)
      BY <2>4 DEF u
    <3> QED
      BY <3>1, JoinedNothing DEF n
  <2> HIDE DEF u
  <2>7. u \in Seq(Marked) /\ BothExact(o, u ++ n, answers, replied, eventsRead, events)
    BY <1>6, <2>4, <2>6 DEF u
  <2>8. BothExact(o, u ++ (One(p) ++ n), answers, replied, eventsRead, events)
    BY <1>3, <2>2, <2>3, <2>7, BothRequest
  <2>9. EventsQueued' = u ++ (One(p) ++ n)
    BY <2>2, <2>3, <2>4, <2>5
  <2> QED
    BY <1>1, <1>4, <2>1, <2>8, <2>9 DEF Numbers
<1>9. CASE SendEvent
  <2> DEFINE a == [kind |-> "evt", data |-> Whole("evt", events + 1)] p == ArgMark(a)
  <2>1. reqQ' = Append(reqQ, a) /\ a \in ReqArg /\ events' = events + 1 /\ events + 1 \in Nat
    BY <1>9, EventArg DEF SendEvent
  <2>2. /\ Whole("evt", events + 1) # << >>
        /\ MessageMark(Whole("evt", events + 1)) = [if |-> "evt", n |-> events + 1]
    BY <2>1, WholeFacts
  <2>3. a \in Args /\ p = [if |-> "evt", n |-> events + 1]
    BY <2>1, <2>2 DEF Args, ArgMark
  <2> HIDE DEF a
  <2>4. EventsQueued' = i ++ Append(q, p) /\ p \in Marked /\ p.if = "evt" /\ p.n = events + 1
    BY <1>7, <2>1, <2>3
  <2> HIDE DEF p
  <2>5. i ++ Append(q, p) = Append(i ++ q, p) /\ i ++ q \in Seq(Marked)
    <3>1. p \in Marked
      BY <2>4
    <3>2. i ++ Append(q, p) = Append(i ++ q, p)
      BY <1>3, <3>1, JoinedOne
    <3>3. i ++ q \in Seq(Marked)
      BY <1>3, Joined
    <3> QED
      BY <3>2, <3>3
  <2> DEFINE u == i ++ q
  <2> HIDE DEF u
  <2>6. u \in Seq(Marked) /\ BothExact(o, u, answers, replied, eventsRead, events)
    BY <1>6, <2>5 DEF u
  <2>7. eventsRead \in Nat /\ events \in Nat
    BY MessageTypes
  <2>8. BothExact(o, Append(u, p), answers, replied, eventsRead, events + 1)
    BY <1>3, <2>4, <2>6, <2>7, BothIndicated
  <2>9. EventsQueued' = Append(u, p)
    BY <2>4, <2>5 DEF u
  <2> QED
    BY <1>1, <1>4, <2>1, <2>8, <2>9 DEF Numbers
<1> QED
  BY <1>8, <1>9

-----------------------------------------------------------------------------
(* With one request open at a time, messages arrive whole and in order.     *)

LEMMA NumbersInit == Init => Numbers
<1> SUFFICES ASSUME Init PROVE Numbers
  OBVIOUS
<1> DEFINE n == << >>
<1>1. n \in Seq(Marked) /\ n ++ n = n
  <2>1. n \in Seq(Marked)
    OBVIOUS
  <2> HIDE DEF n
  <2>2. n ++ << >> = n
    BY <2>1, JoinedNothing
  <2> QED
    BY <2>1, <2>2 DEF n
<1>2. \A g : Image(g, << >>) = << >>
  BY ImageEmpty
<1>3. MessageMarks(serialQ) = n /\ Marks(toHost) = n /\ ArgMarks(reqQ) = n
  BY <1>2 DEF Init, MessageMarks, Marks, ArgMarks
<1>4. Processing = n /\ Putting = n /\ Replying = n /\ Indicated = n
  BY DEF Init, Processing, Putting, Replying, Indicated
<1>5. answers = 0 /\ replied = 0 /\ eventsRead = 0 /\ events = 0
  BY DEF Init
<1>6. Exact(n, {"rsp"}, 0, 0) /\ Exact(n, {"evt"}, 0, 0)
  BY EmptyInOrder DEF Exact
<1> HIDE DEF n
<1>7. Received = n /\ Sent = n /\ EventsQueued = n
  BY <1>1, <1>3, <1>4 DEF Received, Sent, EventsQueued
<1>8. Outgoing = n
  BY <1>1, <1>7 DEF Outgoing
<1> QED
  BY <1>1, <1>5, <1>6, <1>7, <1>8 DEF Numbers, BothExact

LEMMA NumbersStep ==
  ASSUME TypeOK, WholeMessages, Numbers, [Next]_vars
  PROVE  Numbers'
<1>1. CASE Elsewhere
  BY <1>1, ElsewhereNumbers
<1>2. CASE HostTake \/ HostPut \/ RxRead \/ RxProcess
  BY <1>2, HostTakeNumbers, HostPutNumbers, RxReadNumbers, RxProcessNumbers
<1>3. CASE RecvParse \/ SendEvent
  BY <1>3, ArgsArriveNumbers
<1>4. CASE PsTake \/ PsEvent \/ PsSend
  BY <1>4, PsTakeNumbers, PsEventNumbers, PsSendNumbers
<1>5. CASE PsHandle /\ psPc' # "idle"
  BY <1>5, PsHandleNumbers
<1>6. CASE PsHandle /\ psPc' = "idle"
  BY <1>1, <1>6 DEF Elsewhere
<1> QED
  BY <1>1, <1>2, <1>3, <1>4, <1>5, <1>6
  DEF Next, RecvTask, PserialTask, HostRxTask, RpcRx, Elsewhere

Ordered == RequestPlaced /\ WholeMessages /\ Numbers

LEMMA OrderedStep ==
  ASSUME TypeOK, Ordered, [Next]_vars
  PROVE  Ordered'
<1>1. RequestPlaced /\ WholeMessages /\ Numbers
  BY DEF Ordered
<1>2. RequestPlaced'
  BY <1>1, PlacedStep
<1>3. WholeMessages'
  BY <1>1, WholeStep
<1>4. Numbers'
  BY <1>1, NumbersStep
<1> QED
  BY <1>2, <1>3, <1>4 DEF Ordered

LEMMA OrderedIntact ==
  ASSUME TypeOK, Ordered
  PROVE  MessagesIntact
<1>1. RequestIntact
  BY DEF Ordered, RequestPlaced, Placed, Handling, RequestIntact
<1>2. MessageIntact
  <2> SUFFICES ASSUME rxPc = "process"
               PROVE  rxMsg = Whole("rsp", answers + 1) \/ rxMsg = Whole("evt", eventsRead + 1)
    BY DEF MessageIntact
  <2>1. PICK kind \in {"rsp", "evt"}, n \in Nat :
           /\ rxMsg = Whole(kind, n)
           /\ n = (IF kind = "rsp" THEN answers ELSE eventsRead) + 1
    BY ProcessedNumber DEF Ordered
  <2> QED
    BY <2>1
<1> QED
  BY <1>1, <1>2 DEF MessagesIntact

\* However many requests the host has open: rpc_rx gets the responses and events
\* of the co-processor, and, until recv_task takes a packet while the request
\* before is still in the buffer, rpc_req_handler the requests the host wrote, each
\* whole, once and in its order (esp_hosted_coprocessor.c, protocomm_pserial.c,
\* serial_ll_if.c).
THEOREM MessagesIntactHolds == Spec => []MessagesIntact
<1>1. Init => Ordered
  BY PlacedInit, WholeInit, NumbersInit DEF Ordered
<1>2. IInv /\ Ordered /\ [Next]_vars => Ordered'
  BY OrderedStep DEF IInv
<1>3. IInv /\ Ordered => MessagesIntact
  BY OrderedIntact DEF IInv
<1> QED
  BY <1>1, <1>2, <1>3, Inductive, PTL DEF Spec
=============================================================================

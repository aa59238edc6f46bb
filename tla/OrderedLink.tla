----------------------------- MODULE OrderedLink -----------------------------
(***************************************************************************)
(* What a transport promises to the layer above it, in one direction: it   *)
(* accepts packets, and hands them over in the order of the queue they     *)
(* were put in, each at most once.  A transport that never drops hands     *)
(* over every one; one that may drop skips some.                           *)
(*                                                                         *)
(* SpiLink, SdioLink, SpiHdLink and UartLink implement it in both          *)
(* directions.                                                             *)
(***************************************************************************)
EXTENDS Integers, Sequences

CONSTANTS Queues,   \* the priority queues that keep an order
          MayDrop   \* whether the transport is allowed to skip packets

VARIABLES accepted, \* packets accepted so far, by queue: the last one's number
          handed    \* the packets handed over so far, by queue

vars == <<accepted, handed>>

Init ==
    /\ accepted = [q \in Queues |-> 0]
    /\ handed = [q \in Queues |-> << >>]

Accept(q) ==
    /\ accepted' = [accepted EXCEPT ![q] = @ + 1]
    /\ UNCHANGED handed

Last(packets) == IF packets = << >> THEN 0 ELSE packets[Len(packets)]

Deliver(q) ==
    /\ \E n \in (Last(handed[q]) + 1)..accepted[q] :
          /\ ~MayDrop => n = Last(handed[q]) + 1
          /\ handed' = [handed EXCEPT ![q] = Append(@, n)]
    /\ UNCHANGED accepted

Next == \E q \in Queues : Accept(q) \/ Deliver(q)

Spec == Init /\ [][Next]_vars
=============================================================================

------------------------------ MODULE MCSerial ------------------------------
(* Instances of Serial for TLC.                                             *)
EXTENDS Serial

CONSTANTS ReqFrags, RspFrags, EvtFrags

MCFrags ==
    [kind \in Kinds |-> CASE kind = "req" -> ReqFrags [] kind = "rsp" -> RspFrags
                          [] kind = "evt" -> EvtFrags]
=============================================================================

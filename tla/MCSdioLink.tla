----------------------------- MODULE MCSdioLink -----------------------------
(* Instances of SdioLink for TLC.                                           *)
EXTENDS SdioLink

CONSTANTS HostSerial, HostOthers, SlaveSerial, SlaveOthers

MCHostMax == [q \in Queues |-> IF q = "serial" THEN HostSerial ELSE HostOthers]
MCSlaveMax == [q \in Queues |-> IF q = "serial" THEN SlaveSerial ELSE SlaveOthers]
=============================================================================

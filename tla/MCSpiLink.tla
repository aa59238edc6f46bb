------------------------------ MODULE MCSpiLink ------------------------------
(* Instances of SpiLink for TLC.                                            *)
EXTENDS SpiLink

CONSTANTS HostSerial, HostOthers, SlaveSerial, SlaveOthers

MCHostMax == [q \in Queues |-> IF q = "serial" THEN HostSerial ELSE HostOthers]
MCSlaveMax == [q \in Queues |-> IF q = "serial" THEN SlaveSerial ELSE SlaveOthers]
=============================================================================

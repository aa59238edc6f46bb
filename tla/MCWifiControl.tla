---------------------------- MODULE MCWifiControl ----------------------------
(* Instances of WifiControl for TLC.                                        *)
EXTENDS WifiControl

CONSTANTS a, b
=============================================================================

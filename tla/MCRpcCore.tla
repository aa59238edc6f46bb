------------------------------ MODULE MCRpcCore ------------------------------
(* Instances of RpcCore for TLC.                                            *)
EXTENDS RpcCore, TLC

CONSTANTS s1, s2, s3, s4, a1, a2

\* Requests of one kind differ in nothing but the environment's bounds, so a
\* permutation that respects MayTimeout, MayFail and MayDrop is a symmetry.
SyncSymmetry == Permutations(SyncReqs)
=============================================================================

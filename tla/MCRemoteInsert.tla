------------------------------ MODULE MCRemoteInsert ------------------------------
(* Two messages, so that one is queued behind the acknowledgement of the     *)
(* other, and three deliveries, so that one of them is delivered twice.      *)
EXTENDS RemoteInsert, TLC

CONSTANTS i1, i2

MCIds == {i1, i2}
Symmetry == Permutations(MCIds)
=============================================================================

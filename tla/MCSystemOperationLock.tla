------------------------ MODULE MCSystemOperationLock ------------------------
(* Instances of SystemOperationLock for TLC.                               *)
EXTENDS SystemOperationLock, TLC

OperationSymmetry == Permutations(Operations)
=============================================================================

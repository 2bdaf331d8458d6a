---------------------------- MODULE MCIdempotency ----------------------------
(* Instances of Idempotency for TLC.                                       *)
EXTENDS Idempotency, TLC

RequestSymmetry == Permutations(Requests) \union Permutations(Payloads)
=============================================================================

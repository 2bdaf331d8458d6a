--------------------------- MODULE MCBalanceCache ---------------------------
(* Two submissions: of one request, of one request id with two payloads,   *)
(* and of two requests.                                                     *)
EXTENDS BalanceCache

CONSTANTS t1, t2, k1, k2, f1, f2

Submission(k, f) == [key |-> k, print |-> f]

MCUsages == {[t \in Tasks |-> Submission(k1, f1)],
             [t \in Tasks |-> IF t = t1 THEN Submission(k1, f1) ELSE Submission(k1, f2)],
             [t \in Tasks |-> IF t = t1 THEN Submission(k1, f1) ELSE Submission(k2, f2)]}
============================================================================

--------------------------- MODULE MCPaymentOrder ---------------------------
(* Instances of PaymentOrder for TLC.                                      *)
EXTENDS PaymentOrder, TLC

HandlerSymmetry == Permutations(Handlers)

\* Every statement may fail or lose its answer, every handler may stop
AllFaults == FaultPoints

\* The faults after which the code still leads a payment somewhere: not a read
\* error answered as success ("providers": the provider instance, "confirm" and
\* "already": the order), nor anything that leaves RECHARGING behind
RecoverableFaults ==
    FaultPoints \ {"providers", "confirm", "already", "lock", "fail", "crash"}
=============================================================================

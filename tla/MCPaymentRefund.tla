--------------------------- MODULE MCPaymentRefund --------------------------
(* Instances of PaymentRefund for TLC.                                     *)
EXTENDS PaymentRefund, TLC

RequestSymmetry == Permutations(Admins) \union Permutations(Handlers)

\* Every step of a refund may fail, and an admin request may stop anywhere
RefundFaults == {"execute", "marker", "deduct", "gateway", "rollback", "flag",
                 "restore", "markOk", "markFailed", "adminCrash"}

\* The same, but the REFUND_ROLLBACK_FAILED entry is written and read
\* reliably; fulfilment may fail to learn that it completed
MarkedFaults == (RefundFaults \ {"marker", "flag"}) \union {"complete"}
=============================================================================

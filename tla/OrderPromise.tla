---------------------------- MODULE OrderPromise ----------------------------
(***************************************************************************)
(* What a payment order promises, without a word about webhooks, rows and  *)
(* locks: the user pays, is credited once and only after paying, and the   *)
(* order is shown as completed only after the credit.                      *)
(***************************************************************************)
EXTENDS Naturals

VARIABLES
    paid,      \* the provider holds a payment of the right amount
    credited,  \* how often the order's value reached the user
    done       \* the order is shown as completed (or later refunded)

Init == paid = FALSE /\ credited = 0 /\ done = FALSE

Pay == /\ ~paid
       /\ paid' = TRUE
       /\ UNCHANGED <<credited, done>>

Credit == /\ paid /\ credited = 0
          /\ credited' = 1
          /\ UNCHANGED <<paid, done>>

Complete == /\ credited = 1 /\ ~done
            /\ done' = TRUE
            /\ UNCHANGED <<paid, credited>>

Next == Pay \/ Credit \/ Complete

Spec == Init /\ [][Next]_<<paid, credited, done>>
=============================================================================

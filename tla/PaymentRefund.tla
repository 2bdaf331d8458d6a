---------------------------- MODULE PaymentRefund ----------------------------
(***************************************************************************)
(* Refunds of a payment order, on top of its life in PaymentOrder: a user  *)
(* requests a refund, admins prepare and execute one.  ExecuteRefund locks *)
(* the row with REFUNDING, takes the credit back, asks the gateway for the *)
(* refund, and on an error gives the credit back and restores the status.  *)
(* The credit is the user's balance, or the days of the subscription.      *)
(***************************************************************************)
EXTENDS PaymentOrder, Integers

CONSTANTS
    Admins,      \* concurrent refund requests of the admin API
    Amount,      \* the order's amount (or subscription days), in units
    OpeningCredit \* the user's balance (or remaining days) before the order

ASSUME AmountAssumption == Amount \in Nat \ {0} /\ OpeningCredit \in Nat

VARIABLES
    wallet,      \* the user's balance, or days left of the subscription
    revoked,     \* the subscription row was deleted
    held,        \* what refunds of this order took from wallet, and kept
    accepted,    \* what the gateway agreed to give back: success, refunded or pending
    returned,    \* what it has really given back
    apc,         \* step of each admin request
    plan         \* the RefundPlan each admin request works on

refundVars == <<wallet, revoked, held, accepted, returned, apc, plan>>
allVars    == <<vars, refundVars>>
orderRest  == <<ledger, provider, handlers>>

Refundable == {"COMPLETED", "REFUND_REQUESTED", "REFUND_FAILED"}

\* read: order.Status in the plan; trade: order.PaymentTradeNo in the plan;
\* cut: BalanceToDeduct or SubDaysToDeduct
NoPlan == [amt |-> 0, read |-> "COMPLETED", cut |-> 0, trade |-> "none"]
Plans  == [amt : 0 .. Amount, read : Refundable, cut : 0 .. Amount, trade : TradeNos]

LockedSteps == {"deduct", "gateway", "rollback", "flag", "restore", "markOk", "markFailed"}
RefundSteps == {"idle", "execute"} \union LockedSteps

Move(a, s) == apc' = [apc EXCEPT ![a] = s] /\ UNCHANGED plan
Finish(a)  == apc' = [apc EXCEPT ![a] = "idle"] /\ plan' = [plan EXCEPT ![a] = NoPlan]

----------------------------------------------------------------------------
(* The order's own steps; a credit reaches the wallet                      *)

OrderStep == /\ Next
             /\ wallet' = wallet + Amount * (credits' - credits)
             /\ UNCHANGED <<revoked, held, accepted, returned, apc, plan>>

\* The user consumes balance, or a day of the subscription passes
Spend == /\ wallet > 0
         /\ wallet' = wallet - 1
         /\ UNCHANGED <<vars, revoked, held, accepted, returned, apc, plan>>

----------------------------------------------------------------------------
(* RequestRefund, PrepareRefund                                            *)

RequestRefund ==
    /\ OrderType = "balance" /\ status = "COMPLETED" /\ wallet >= Amount
    /\ SetStatus("REFUND_REQUESTED")
    /\ UNCHANGED <<orderRest, faults, refundVars>>

\* prepDeduct: BalanceToDeduct = min(refund, balance), nothing to deduct when
\* the balance is not positive; for a subscription all its days whatever the
\* refunded amount, nothing when no subscription is active (force)
PlannedCut(amt) ==
    IF wallet <= 0 THEN 0
    ELSE IF OrderType = "subscription" THEN Amount
    ELSE IF wallet < amt THEN wallet ELSE amt

\* Provider instances that do not allow refunds end here with an error
PrepareRefund(a) ==
    /\ apc[a] = "idle" /\ status \in Refundable
    /\ \E amt \in 1 .. Amount, deduct \in BOOLEAN :
          plan' = [plan EXCEPT ![a] =
                     [amt |-> amt, read |-> status, trade |-> tradeNo,
                      cut |-> IF deduct THEN PlannedCut(amt) ELSE 0]]
    /\ apc' = [apc EXCEPT ![a] = "execute"]
    /\ UNCHANGED <<vars, wallet, revoked, held, accepted, returned>>

----------------------------------------------------------------------------
(* ExecuteRefund                                                           *)

\* Mutant: the status the plan was made from is trusted
LockRefund_NoGuard(a) ==
    /\ apc[a] = "execute"
    /\ SetStatus("REFUNDING") /\ Move(a, "deduct") /\ NoFault
    /\ UNCHANGED <<orderRest, wallet, revoked, held, accepted, returned>>

LockRefund(a) ==
    /\ apc[a] = "execute"
    /\ \/ /\ status \in Refundable /\ SetStatus("REFUNDING")
          /\ \/ Move(a, "deduct") /\ NoFault
             \/ Finish(a) /\ Lost("execute")
       \/ status \notin Refundable /\ UNCHANGED row /\ Finish(a) /\ NoFault
       \/ UNCHANGED row /\ Finish(a) /\ Fault("execute")
    /\ UNCHANGED <<orderRest, wallet, revoked, held, accepted, returned>>

\* DeductBalance may overdraw.  ExtendSubscription(-days) revokes the
\* subscription instead when nothing would be left of it.
TakeBack(cut) ==
    /\ wallet'  = IF OrderType = "subscription" /\ wallet <= cut THEN 0 ELSE wallet - cut
    /\ revoked' = (revoked \/ (OrderType = "subscription" /\ wallet <= cut))
    /\ held'    = held + (wallet - wallet')

\* An expired or deleted subscription cannot be shortened
CanTakeBack == OrderType = "balance" \/ (wallet > 0 /\ ~revoked)

\* An earlier attempt took the credit and could not give it back
RollbackFailed == "REFUND_ROLLBACK_FAILED" \in audit

\* Mutant: a retry after a failed rollback deducts again
DeductCredit_IgnoresMarker(a) ==
    /\ apc[a] = "deduct"
    /\ IF plan[a].cut > 0 THEN TakeBack(plan[a].cut) ELSE UNCHANGED <<wallet, revoked, held>>
    /\ Move(a, "gateway") /\ NoFault
    /\ UNCHANGED <<row, orderRest, accepted, returned>>

\* A failed audit lookup counts as "no marker".  An error of the deduction
\* restores the status, and gives nothing back.
DeductCredit(a) ==
    /\ apc[a] = "deduct"
    /\ \/ /\ plan[a].cut = 0 /\ Move(a, "gateway") /\ NoFault
          /\ UNCHANGED <<wallet, revoked, held>>
       \/ /\ plan[a].cut > 0 /\ RollbackFailed /\ NoFault
          /\ plan' = [plan EXCEPT ![a].cut = 0] /\ apc' = [apc EXCEPT ![a] = "gateway"]
          /\ UNCHANGED <<wallet, revoked, held>>
       \/ /\ plan[a].cut > 0 /\ CanTakeBack /\ TakeBack(plan[a].cut)
          /\ \/ ~RollbackFailed /\ Move(a, "gateway") /\ NoFault
             \/ ~RollbackFailed /\ Move(a, "restore") /\ Lost("deduct")
             \/ RollbackFailed /\ Move(a, "gateway") /\ Fault("marker")
       \/ /\ plan[a].cut > 0 /\ ~RollbackFailed /\ Move(a, "restore")
          /\ \/ ~CanTakeBack /\ NoFault
             \/ Fault("deduct")
          /\ UNCHANGED <<wallet, revoked, held>>
    /\ UNCHANGED <<row, orderRest, accepted, returned>>

\* gwRefund: without a trade number the gateway is not asked at all.
\* validateRefundProviderResponse takes "pending" for an answer as good as
\* "success" and "refunded": the money then moves later, or never
GwRefund(a) ==
    /\ apc[a] = "gateway"
    /\ \/ /\ plan[a].trade = "none" /\ Move(a, "markOk") /\ NoFault
          /\ UNCHANGED <<accepted, returned>>
       \/ /\ plan[a].trade # "none" /\ accepted' = accepted + plan[a].amt
          /\ returned' \in {returned, returned + plan[a].amt}
          /\ \/ Move(a, "markOk") /\ NoFault
             \/ Move(a, "rollback") /\ Lost("gateway")
       \/ /\ plan[a].trade # "none" /\ UNCHANGED <<accepted, returned>>
          /\ Move(a, "rollback") /\ Fault("gateway")
    /\ UNCHANGED <<row, orderRest, wallet, revoked, held>>

\* The provider carries out what it accepted as pending.  Nothing obliges it to,
\* and no code of the repository asks for the outcome.
PendingSettles ==
    /\ returned < accepted
    /\ returned' = accepted
    /\ UNCHANGED <<vars, wallet, revoked, held, accepted, apc, plan>>

GiveBack(cut) == /\ wallet' = wallet + cut
                 /\ held' = held - cut

\* Mutant: the credit is not given back
RollbackRefund_Missing(a) ==
    /\ apc[a] = "rollback"
    /\ Move(a, "restore") /\ NoFault
    /\ UNCHANGED <<row, orderRest, wallet, revoked, held, accepted, returned>>

\* RollbackRefund: a revoked subscription cannot be extended again
RollbackRefund(a) ==
    /\ apc[a] = "rollback"
    /\ \/ /\ plan[a].cut = 0 /\ Move(a, "restore") /\ NoFault
          /\ UNCHANGED <<wallet, held>>
       \/ /\ plan[a].cut > 0 /\ ~revoked /\ GiveBack(plan[a].cut)
          /\ \/ Move(a, "restore") /\ NoFault
             \/ Move(a, "flag") /\ Lost("rollback")
       \/ /\ plan[a].cut > 0 /\ Move(a, "flag")
          /\ \/ revoked /\ NoFault
             \/ Fault("rollback")
          /\ UNCHANGED <<wallet, held>>
    /\ UNCHANGED <<row, orderRest, revoked, accepted, returned>>

\* writeAuditLog(REFUND_ROLLBACK_FAILED), whose own error is only logged
FlagRollback(a) ==
    /\ apc[a] = "flag"
    /\ \/ audit' = audit \union {"REFUND_ROLLBACK_FAILED"} /\ NoFault
       \/ UNCHANGED audit /\ Fault("flag")
    /\ Move(a, "markFailed")
    /\ UNCHANGED <<row, code, credits, rebates, provider, handlers, wallet, revoked, held, accepted, returned>>

\* The three final UPDATEs are unconditional.  RestoreStatus and
\* MarkRefundFailed ignore their error; MarkRefundOk reports it.
FinalUpdate(a, step, final) ==
    /\ apc[a] = step
    /\ \/ SetStatus(final) /\ NoFault
       \/ UNCHANGED row /\ Fault(step)
    /\ Finish(a)
    /\ UNCHANGED <<orderRest, wallet, revoked, held, accepted, returned>>

RestoreStatus(a) == FinalUpdate(a, "restore",
    IF plan[a].read = "REFUND_REQUESTED" THEN "REFUND_REQUESTED" ELSE "COMPLETED")

MarkRefundOk(a) == FinalUpdate(a, "markOk",
    IF plan[a].amt < Amount THEN "PARTIALLY_REFUNDED" ELSE "REFUNDED")

MarkRefundFailed(a) == FinalUpdate(a, "markFailed", "REFUND_FAILED")

AdminStops(a) ==
    /\ apc[a] # "idle"
    /\ Finish(a) /\ Fault("adminCrash")
    /\ UNCHANGED <<row, orderRest, wallet, revoked, held, accepted, returned>>

----------------------------------------------------------------------------

RefundInit == /\ Init
              /\ wallet = OpeningCredit /\ revoked = FALSE
              /\ held = 0 /\ accepted = 0 /\ returned = 0
              /\ apc = [a \in Admins |-> "idle"]
              /\ plan = [a \in Admins |-> NoPlan]

RefundNext ==
    \/ OrderStep \/ Spend \/ RequestRefund \/ PendingSettles
    \/ \E a \in Admins :
          \/ PrepareRefund(a) \/ LockRefund(a) \/ DeductCredit(a) \/ GwRefund(a)
          \/ RollbackRefund(a) \/ FlagRollback(a) \/ RestoreStatus(a)
          \/ MarkRefundOk(a) \/ MarkRefundFailed(a) \/ AdminStops(a)

RefundSpec == RefundInit /\ [][RefundNext]_allVars

----------------------------------------------------------------------------
(* Properties                                                              *)

\* The refund's variables hold the values the code allows; a plan never has a
\* negative or an oversized deduction.
RefundTypeOK ==
    /\ TypeOK
    /\ wallet \in Int /\ held \in Int /\ revoked \in BOOLEAN
    /\ accepted \in Nat /\ returned \in Nat
    /\ apc \in [Admins -> RefundSteps]
    /\ plan \in [Admins -> Plans]

Refunding == {a \in Admins : apc[a] \in LockedSteps}

\* ExecuteRefund's final UPDATEs carry no status guard; they are safe because
\* at most one request is past the lock, and the row stays REFUNDING until its
\* own final UPDATE, whatever webhooks, retries and other admins do.
OneRefunder == /\ \A a, b \in Refunding : a = b
               /\ Refunding # {} => status = "REFUNDING"

\* The gateway is never led to accept, nor gives back, more than the order's
\* amount in total.
RefundedAtMostOnce == accepted <= Amount /\ returned <= Amount

\* No request works on the order and the row is not left in REFUNDING
RefundAtRest == Refunding = {} /\ status # "REFUNDING"

\* Between refunds, money and status agree: an order shown as completed,
\* requested or failed kept the money and no refund of it is pending, an order
\* shown as refunded has a refund the gateway accepted (possibly as pending: the
\* status does not say that the money has moved), and a credit taken for a refund
\* that did not happen is on record as REFUND_ROLLBACK_FAILED.
RefundBooksBalance ==
    RefundAtRest =>
        /\ status \in Refundable => /\ accepted = 0 /\ returned = 0
                                    /\ held = 0 \/ RollbackFailed
        /\ status \in {"REFUNDED", "PARTIALLY_REFUNDED"} => accepted > 0

\* However often a refund is retried, the user's credit is taken once.
DeductedAtMostOnce == held <= Amount
=============================================================================

---------------------------- MODULE PaymentOrder ----------------------------
(***************************************************************************)
(* The life of one payment order, from the provider call of CreateOrder to *)
(* COMPLETED: webhook and query confirmation, cancellation, expiry,        *)
(* fulfilment (balance or subscription), affiliate rebate, admin retry.    *)
(*                                                                         *)
(* Every statement the code runs is keyed by the order's id, so one order  *)
(* row is the unit of interleaving.  Each database statement, transaction  *)
(* or provider call is one step; a request or a background cycle is a      *)
(* Handler that moves from step to step.  A statement that fails does so   *)
(* either before or after it took effect (a commit whose answer is lost),  *)
(* and a handler may stop anywhere (process crash, or a cancelled request  *)
(* context, after which every later statement of that request fails).      *)
(***************************************************************************)
EXTENDS Naturals, FiniteSets

CONSTANTS
    Handlers,       \* requests and background cycles that work at one time
    OrderType,      \* "balance" or "subscription"
    CreateTradeNo,  \* the trade number the provider's CreatePayment returns
    NotifyTradeNo,  \* the one its notifications and query answers carry
    HasInviter,     \* the user was invited: a rebate is due
    MaxFaults,      \* bound on injected faults
    FaultAt,        \* steps whose statement may fail without effect, or "crash"
    LostAt          \* steps whose effect may commit and its answer be lost

Statuses == {"PENDING", "PAID", "RECHARGING", "COMPLETED", "EXPIRED",
             "CANCELLED", "FAILED", "REFUND_REQUESTED", "REFUNDING",
             "PARTIALLY_REFUNDED", "REFUNDED", "REFUND_FAILED"}

\* psIsRefundStatus
RefundStatuses == {"REFUND_REQUESTED", "REFUNDING", "PARTIALLY_REFUNDED",
                   "REFUNDED", "REFUND_FAILED"}

\* "none": empty; "local": our own out_trade_no echoed back (Alipay, WeChat);
\* "upstream": the provider's number (Stripe, Airwallex, EasyPay)
TradeNos == {"none", "local", "upstream"}

\* The audit entries that the code reads back, or that a property is about.
\* (order_id, action) is unique, so the log of one order is a set of actions.
AuditActions == {"SUBSCRIPTION_ASSIGNED", "SUBSCRIPTION_SUCCESS",
                 "RECHARGE_SUCCESS", "AFFILIATE_REBATE_APPLIED",
                 "AFFILIATE_REBATE_SKIPPED", "PAYMENT_AFTER_EXPIRY",
                 "REFUND_ROLLBACK_FAILED"}

\* The steps between winning the RECHARGING row and leaving it
FulfilSteps == {"lookup", "create", "redeem", "assigned", "assign",
                "logAssigned", "rebate", "complete", "fail"}

Steps == {"idle", "query", "close", "cas", "persist", "confirm", "toPaid",
          "already", "reset", "load", "lock"} \union FulfilSteps

Kinds == {"none", "webhook", "verify", "cancel", "expire", "retry"}

\* What a notification says: the exact amount, a different amount, or that it
\* was verified by a provider or merchant other than the order's own
Notes == {"none", "exact", "short", "foreign"}

FaultPoints == Steps \union {"crash", "createPayment", "saveDetails", "markCreate", "providers"}

ASSUME OrderTypeAssumption == OrderType \in {"balance", "subscription"}
ASSUME TradeNoAssumption   == CreateTradeNo \in TradeNos /\ NotifyTradeNo \in {"none", "upstream"}
ASSUME InviterAssumption   == HasInviter \in BOOLEAN
ASSUME FaultAssumption     == MaxFaults \in Nat

VARIABLES
    status,    \* payment_orders.status
    paidAt,    \* payment_orders.paid_at is set
    tradeNo,   \* payment_orders.payment_trade_no
    fresh,     \* payment_orders.updated_at is within paymentGraceMinutes
    due,       \* payment_orders.expires_at has passed
    code,      \* the redeem code row PAY-<id>-<n>
    audit,     \* payment_audit_logs of the order
    credits,   \* how often the order's value reached the user
    rebates,   \* how often the inviter was paid for the order
    creator,   \* CreateOrder's own request, after the row was committed
    upstream,  \* the provider's view of the payment
    acked,     \* a webhook of this payment was answered 2xx
    pc,        \* step of each handler
    kind,      \* what each handler is
    note,      \* the notification each handler works on
    seen,      \* payment_trade_no as each handler read it
    faults     \* faults injected so far

row       == <<status, paidAt, tradeNo, fresh, due>>
ledger    == <<code, audit, credits, rebates>>
provider  == <<creator, upstream>>
handlers  == <<acked, pc, kind, note, seen>>
vars      == <<row, ledger, provider, handlers, faults>>

----------------------------------------------------------------------------
(* Steps, returns and faults                                               *)

Goto(h, s) == /\ pc' = [pc EXCEPT ![h] = s]
              /\ UNCHANGED <<acked, kind, note, seen>>

\* The webhook of the payment that returns no error is answered 2xx, and the
\* provider may stop delivering.
Ack(h) == acked' = (acked \/ (kind[h] = "webhook" /\ note[h] = "exact"))

Leave(h) == /\ pc'   = [pc EXCEPT ![h] = "idle"]
            /\ kind' = [kind EXCEPT ![h] = "none"]
            /\ note' = [note EXCEPT ![h] = "none"]
            /\ seen' = [seen EXCEPT ![h] = "none"]

ReturnNil(h) == Ack(h) /\ Leave(h)
ReturnErr(h) == UNCHANGED acked /\ Leave(h)

Start(h, k, n, s) == /\ pc[h] = "idle"
                     /\ pc'   = [pc EXCEPT ![h] = s]
                     /\ kind' = [kind EXCEPT ![h] = k]
                     /\ note' = [note EXCEPT ![h] = n]
                     /\ seen' = [seen EXCEPT ![h] = tradeNo]
                     /\ UNCHANGED acked

Inject   == faults < MaxFaults /\ faults' = faults + 1
Fault(s) == s \in FaultAt /\ Inject    \* an error, and no effect
Lost(s)  == s \in LostAt /\ Inject     \* the effect, and an error
NoFault  == UNCHANGED faults

\* UPDATE payment_orders SET status (updated_at has UpdateDefault(time.Now))
SetStatus(s) == /\ status' = s
                /\ fresh' = TRUE
                /\ UNCHANGED <<paidAt, tradeNo, due>>

----------------------------------------------------------------------------
(* CreateOrder after createOrderInTx committed the PENDING row             *)

CreatePayment ==
    /\ creator = "call"
    /\ \/ /\ upstream' = "open" /\ creator' = "save" /\ NoFault
       \/ /\ upstream' = "open" /\ creator' = "mark" /\ Lost("createPayment")
       \/ /\ UNCHANGED upstream /\ creator' = "mark" /\ Fault("createPayment")
    /\ UNCHANGED <<row, ledger, handlers>>

SaveDetails ==
    /\ creator = "save"
    /\ \/ /\ tradeNo' = IF CreateTradeNo = "none" THEN tradeNo ELSE CreateTradeNo
          /\ fresh' = TRUE
          /\ \/ creator' = "done" /\ NoFault
             \/ creator' = "mark" /\ Lost("saveDetails")
       \/ /\ creator' = "mark" /\ Fault("saveDetails")
          /\ UNCHANGED <<tradeNo, fresh>>
    /\ UNCHANGED <<status, paidAt, due, ledger, upstream, handlers>>

\* No status guard: whatever the row holds becomes FAILED; the error is ignored
MarkCreateFailed ==
    /\ creator = "mark"
    /\ creator' = "failed"
    /\ \/ SetStatus("FAILED") /\ NoFault
       \/ UNCHANGED row /\ Fault("markCreate")
    /\ UNCHANGED <<ledger, upstream, handlers>>

CreatorStops ==
    /\ creator \in {"call", "save", "mark"}
    /\ creator' = "failed"
    /\ Fault("crash")
    /\ UNCHANGED <<row, ledger, upstream, handlers>>

----------------------------------------------------------------------------
(* The provider and the clock                                              *)

\* The payment link is only in CreateOrder's answer, so the user pays after it
UserPays ==
    /\ creator = "done"
    /\ upstream = "open"
    /\ upstream' \in {"paid", "short"}
    /\ UNCHANGED <<row, ledger, creator, handlers, faults>>

OrderBecomesDue ==
    /\ ~due
    /\ due' = TRUE
    /\ UNCHANGED <<status, paidAt, tradeNo, fresh, ledger, provider, handlers, faults>>

GraceElapses ==
    /\ fresh /\ status = "EXPIRED"
    /\ fresh' = FALSE
    /\ UNCHANGED <<status, paidAt, tradeNo, due, ledger, provider, handlers, faults>>

\* The provider delivers its notification, again after a 2xx too.  A foreign
\* notification names the same out_trade_no under other merchant credentials.
ProviderNotifies(h) ==
    /\ \/ upstream = "paid"  /\ Start(h, "webhook", "exact", "confirm")
       \/ upstream = "short" /\ Start(h, "webhook", "short", "confirm")
       \/ Start(h, "webhook", "foreign", "confirm")
    /\ UNCHANGED <<row, ledger, provider, faults>>

\* GetWebhookProviders fails (an instance that cannot be read, is gone or is
\* ambiguous): WeChat's notification is refused, every other provider's is
\* answered 2xx, and the order is not touched
ProviderUnresolved ==
    /\ upstream \in {"paid", "short"}
    /\ Fault("providers")
    /\ acked' \in {acked, acked \/ upstream = "paid"}
    /\ UNCHANGED <<row, ledger, provider, pc, kind, note, seen>>

----------------------------------------------------------------------------
(* Entry points of payment_order_lifecycle.go                              *)

VerifyOrderByOutTradeNo(h) ==
    /\ status \in {"PENDING", "EXPIRED"}
    /\ Start(h, "verify", "none", "query")
    /\ UNCHANGED <<row, ledger, provider, faults>>

ReconcilePendingOrders(h) ==
    /\ status = "PENDING" /\ ~due
    /\ Start(h, "verify", "none", "query")
    /\ UNCHANGED <<row, ledger, provider, faults>>

CancelOrder(h) ==
    /\ status = "PENDING"
    /\ Start(h, "cancel", "none", "query")
    /\ UNCHANGED <<row, ledger, provider, faults>>

ExpireTimedOutOrders(h) ==
    /\ status = "PENDING" /\ due
    /\ Start(h, "expire", "none", "query")
    /\ UNCHANGED <<row, ledger, provider, faults>>

\* checkPaidWithOptions: no usable answer (query error, or an invalid amount
\* in the answer and in the one requery) counts as "not paid", and then the
\* upstream payment is not closed either
QueryOrder(h) ==
    /\ pc[h] = "query"
    /\ \/ /\ upstream \in {"paid", "short"}
          /\ pc'   = [pc EXCEPT ![h] = IF NotifyTradeNo \in {"none", seen[h]}
                                       THEN "confirm" ELSE "persist"]
          /\ note' = [note EXCEPT ![h] = IF upstream = "paid" THEN "exact" ELSE "short"]
          /\ NoFault /\ UNCHANGED <<acked, kind, seen>>
       \/ /\ upstream \notin {"paid", "short"} /\ NoFault
          /\ IF kind[h] = "verify" THEN ReturnNil(h) ELSE Goto(h, "close")
       \/ /\ Fault("query")
          /\ IF kind[h] = "verify" THEN ReturnNil(h) ELSE Goto(h, "cas")
    /\ UNCHANGED <<row, ledger, provider>>

\* CancelPayment: not every provider has it, and its error is ignored
CloseUpstream(h) ==
    /\ pc[h] = "close"
    /\ upstream' \in {upstream} \union (IF upstream = "open" THEN {"closed"} ELSE {})
    /\ Goto(h, "cas")
    /\ UNCHANGED <<row, ledger, creator, faults>>

\* Mutant: the status guard of the UPDATE is missing
CancelRow_NoGuard(h) ==
    /\ pc[h] = "cas"
    /\ SetStatus(IF kind[h] = "expire" THEN "EXPIRED" ELSE "CANCELLED")
    /\ ReturnNil(h) /\ NoFault
    /\ UNCHANGED <<ledger, provider>>

\* cancelCore's UPDATE ... WHERE status = PENDING
CancelRow(h) ==
    /\ pc[h] = "cas"
    /\ LET final == IF kind[h] = "expire" THEN "EXPIRED" ELSE "CANCELLED"
       IN  \/ /\ IF status = "PENDING" THEN SetStatus(final) ELSE UNCHANGED row
              /\ \/ ReturnNil(h) /\ NoFault
                 \/ ReturnErr(h) /\ Lost("cas")
           \/ UNCHANGED row /\ ReturnErr(h) /\ Fault("cas")
    /\ UNCHANGED <<ledger, provider>>

\* The unconditional UPDATE of payment_trade_no, whose error is only logged;
\* it refreshes updated_at, and so re-opens the grace window of an EXPIRED row
PersistTradeNo(h) ==
    /\ pc[h] = "persist"
    /\ \/ tradeNo' = NotifyTradeNo /\ fresh' = TRUE /\ NoFault
       \/ UNCHANGED <<tradeNo, fresh>> /\ Fault("persist")
    /\ Goto(h, "confirm")
    /\ UNCHANGED <<status, paidAt, due, ledger, provider>>

----------------------------------------------------------------------------
(* HandlePaymentNotification, confirmPayment, toPaid, alreadyProcessed     *)

\* Mutant: the paid amount is not compared with the order's
ConfirmPayment_NoAmountCheck(h) ==
    /\ pc[h] = "confirm"
    /\ \/ note[h] # "foreign" /\ Goto(h, "toPaid") /\ NoFault
       \/ note[h] = "foreign" /\ ReturnErr(h) /\ NoFault
    /\ UNCHANGED <<row, ledger, provider>>

\* A failed lookup in HandlePaymentNotification is an error; a failed Get in
\* confirmPayment is answered as success.
ConfirmPayment(h) ==
    /\ pc[h] = "confirm"
    /\ \/ note[h] = "exact" /\ Goto(h, "toPaid") /\ NoFault
       \/ note[h] # "exact" /\ ReturnErr(h) /\ NoFault
       \/ (ReturnErr(h) \/ ReturnNil(h)) /\ Fault("confirm")
    /\ UNCHANGED <<row, ledger, provider>>

\* Mutant: a payment for a cancelled order is not recovered
Payable_NotCancelled == status = "PENDING" \/ (status = "EXPIRED" /\ fresh)

\* The WHERE clause of toPaid
Payable == \/ status \in {"PENDING", "CANCELLED"}
           \/ status = "EXPIRED" /\ fresh

MarkPaid(h) == /\ status' = "PAID"
               /\ paidAt' = TRUE
               /\ tradeNo' = IF NotifyTradeNo = "none" /\ kind[h] # "webhook"
                             THEN seen[h] ELSE NotifyTradeNo
               /\ fresh' = TRUE
               /\ UNCHANGED due

ToPaid(h) ==
    /\ pc[h] = "toPaid"
    /\ \/ /\ Payable /\ MarkPaid(h)
          /\ \/ Goto(h, "load") /\ NoFault
             \/ ReturnErr(h) /\ Lost("toPaid")
       \/ ~Payable /\ UNCHANGED row /\ Goto(h, "already") /\ NoFault
       \/ UNCHANGED row /\ ReturnErr(h) /\ Fault("toPaid")
    /\ UNCHANGED <<ledger, provider>>

AlreadyProcessed(h) ==
    /\ pc[h] = "already"
    /\ \/ /\ NoFault
          /\ CASE status = "FAILED"                  -> Goto(h, "load")
               [] status \in {"PAID", "RECHARGING"} -> ReturnErr(h)
               [] OTHER                             -> ReturnNil(h)
          /\ audit' = audit \union
                      (IF status = "EXPIRED" THEN {"PAYMENT_AFTER_EXPIRY"} ELSE {})
       \/ ReturnNil(h) /\ Fault("already") /\ UNCHANGED audit
    /\ UNCHANGED <<row, code, credits, rebates, provider>>

----------------------------------------------------------------------------
(* executeFulfillment, ExecuteBalanceFulfillment,                          *)
(* ExecuteSubscriptionFulfillment                                          *)

LoadForFulfillment(h) ==
    /\ pc[h] = "load"
    /\ \/ status \in {"PAID", "FAILED"} /\ Goto(h, "lock") /\ NoFault
       \/ status = "COMPLETED" /\ ReturnNil(h) /\ NoFault
       \/ status \notin {"PAID", "FAILED", "COMPLETED"} /\ ReturnErr(h) /\ NoFault
       \/ ReturnErr(h) /\ Fault("load")
    /\ UNCHANGED <<row, ledger, provider>>

\* Mutant: the lock is taken whatever the row's status became meanwhile
LockForFulfillment_NoGuard(h) ==
    /\ pc[h] = "lock"
    /\ SetStatus("RECHARGING")
    /\ Goto(h, IF OrderType = "balance" THEN "lookup" ELSE "assigned") /\ NoFault
    /\ UNCHANGED <<ledger, provider>>

\* The compare-and-set on status is the fulfilment lock
LockForFulfillment(h) ==
    /\ pc[h] = "lock"
    /\ \/ /\ status \in {"PAID", "FAILED"} /\ SetStatus("RECHARGING")
          /\ \/ /\ Goto(h, IF OrderType = "balance" THEN "lookup" ELSE "assigned")
                /\ NoFault
             \/ ReturnErr(h) /\ Lost("lock")
       \/ /\ status \notin {"PAID", "FAILED"} /\ UNCHANGED row
          /\ ReturnNil(h) /\ NoFault
       \/ UNCHANGED row /\ ReturnErr(h) /\ Fault("lock")
    /\ UNCHANGED <<ledger, provider>>

\* resolveRedeemAction: a lookup error counts as "no code yet"
LookupCode(h) ==
    /\ pc[h] = "lookup"
    /\ \/ /\ NoFault
          /\ Goto(h, CASE code = "absent" -> "create"
                       [] code = "unused" -> "redeem"
                       [] code = "used"   -> "rebate")
       \/ Goto(h, "create") /\ Fault("lookup")
    /\ UNCHANGED <<row, ledger, provider>>

\* Mutant: creating a code replaces the existing row
CreateCode_Upsert(h) ==
    /\ pc[h] = "create"
    /\ code' = "unused" /\ Goto(h, "redeem") /\ NoFault
    /\ UNCHANGED <<row, audit, credits, rebates, provider>>

\* redeem_codes.code is unique: creating an existing code is an error
CreateCode(h) ==
    /\ pc[h] = "create"
    /\ \/ /\ code = "absent" /\ code' = "unused"
          /\ \/ Goto(h, "redeem") /\ NoFault
             \/ Goto(h, "fail") /\ Lost("create")
       \/ code # "absent" /\ UNCHANGED code /\ Goto(h, "fail") /\ NoFault
       \/ UNCHANGED code /\ Goto(h, "fail") /\ Fault("create")
    /\ UNCHANGED <<row, audit, credits, rebates, provider>>

\* Redeem's transaction: Use (WHERE status = 'unused') and UpdateBalance
UseCode == /\ code = "unused"
           /\ code' = "used"
           /\ credits' = credits + 1

\* Redeem: rate limit, distributed lock, reads, transaction and the re-read
\* after the commit, any of which may end it with an error
RedeemCode(h) ==
    /\ pc[h] = "redeem"
    /\ \/ /\ UseCode
          /\ \/ Goto(h, "rebate") /\ NoFault
             \/ Goto(h, "fail") /\ Lost("redeem")
       \/ /\ UNCHANGED <<code, credits>> /\ Goto(h, "fail")
          /\ \/ code # "unused" /\ NoFault
             \/ Fault("redeem")
    /\ UNCHANGED <<row, audit, rebates, provider>>

\* doSub: the group may be gone or inactive by now; a failed audit lookup counts
\* as "not assigned yet"
CheckAssigned(h) ==
    /\ pc[h] = "assigned"
    /\ \/ /\ NoFault
          /\ Goto(h, IF audit \intersect {"SUBSCRIPTION_ASSIGNED", "SUBSCRIPTION_SUCCESS"} # {}
                     THEN "rebate" ELSE "assign")
       \/ Goto(h, "fail") /\ NoFault
       \/ Goto(h, "assign") /\ Fault("assigned")
    /\ UNCHANGED <<row, ledger, provider>>

\* Mutant: an assignment error is logged and forgotten
AssignSubscription_IgnoresError(h) ==
    /\ pc[h] = "assign"
    /\ \/ credits' = credits + 1 /\ NoFault
       \/ UNCHANGED credits /\ Fault("assign")
    /\ Goto(h, "logAssigned")
    /\ UNCHANGED <<row, code, audit, rebates, provider>>

\* AssignOrExtendSubscription commits on its own; the re-read after it may fail
AssignSubscription(h) ==
    /\ pc[h] = "assign"
    /\ \/ /\ credits' = credits + 1
          /\ \/ Goto(h, "logAssigned") /\ NoFault
             \/ Goto(h, "fail") /\ Lost("assign")
       \/ UNCHANGED credits /\ Goto(h, "fail") /\ Fault("assign")
    /\ UNCHANGED <<row, code, audit, rebates, provider>>

\* writeAuditLog only logs its error
LogAssigned(h) ==
    /\ pc[h] = "logAssigned"
    /\ \/ audit' = audit \union {"SUBSCRIPTION_ASSIGNED"} /\ NoFault
       \/ UNCHANGED audit /\ Fault("logAssigned")
    /\ Goto(h, "rebate")
    /\ UNCHANGED <<row, code, credits, rebates, provider>>

\* Mutant: the rebate is accrued without looking for an earlier claim
ClaimRebate_NoClaim == /\ audit' = audit \union {"AFFILIATE_REBATE_APPLIED"}
                       /\ rebates' = rebates + 1

\* The transaction of applyAffiliateRebateForOrder: claim, accrue, relabel
ClaimRebate ==
    IF audit \intersect {"AFFILIATE_REBATE_APPLIED", "AFFILIATE_REBATE_SKIPPED"} # {}
    THEN UNCHANGED <<audit, rebates>>
    ELSE IF HasInviter
    THEN /\ audit' = audit \union {"AFFILIATE_REBATE_APPLIED"}
         /\ rebates' = rebates + 1
    ELSE /\ audit' = audit \union {"AFFILIATE_REBATE_SKIPPED"}
         /\ UNCHANGED rebates

ApplyAffiliateRebate(h) ==
    /\ pc[h] = "rebate"
    /\ \/ /\ ClaimRebate
          /\ \/ Goto(h, "complete") /\ NoFault
             \/ Goto(h, "fail") /\ Lost("rebate")
       \/ UNCHANGED <<audit, rebates>> /\ Goto(h, "fail") /\ Fault("rebate")
    /\ UNCHANGED <<row, code, credits, provider>>

SuccessAction == IF OrderType = "balance" THEN "RECHARGE_SUCCESS"
                                          ELSE "SUBSCRIPTION_SUCCESS"

\* markCompleted's guarded UPDATE; its row count, and an error of the audit entry
\* after it, are ignored
MarkCompleted(h) ==
    /\ pc[h] = "complete"
    /\ \/ /\ IF status = "RECHARGING" THEN SetStatus("COMPLETED") ELSE UNCHANGED row
          /\ \/ /\ audit' = audit \union {SuccessAction}
                /\ ReturnNil(h) /\ NoFault
             \/ UNCHANGED audit /\ ReturnNil(h) /\ Fault("complete")
             \/ UNCHANGED audit /\ Goto(h, "fail") /\ Lost("complete")
       \/ UNCHANGED <<row, audit>> /\ Goto(h, "fail") /\ Fault("complete")
    /\ UNCHANGED <<code, credits, rebates, provider>>

\* markFailed's guarded UPDATE; its error is only logged
MarkFailed(h) ==
    /\ pc[h] = "fail"
    /\ \/ /\ IF status = "RECHARGING" THEN SetStatus("FAILED") ELSE UNCHANGED row
          /\ NoFault
       \/ UNCHANGED row /\ Fault("fail")
    /\ ReturnErr(h)
    /\ UNCHANGED <<ledger, provider>>

----------------------------------------------------------------------------
(* Admin retry, and a handler that stops                                   *)

CanRetry == paidAt /\ status \in {"FAILED", "PAID"}

RetryFulfillment(h) ==
    /\ CanRetry
    /\ Start(h, "retry", "none", "reset")
    /\ UNCHANGED <<row, ledger, provider, faults>>

\* The row count of the reset is ignored: the order is loaded again anyway
ResetForRetry(h) ==
    /\ pc[h] = "reset"
    /\ \/ /\ IF status \in {"FAILED", "PAID"} THEN SetStatus("PAID") ELSE UNCHANGED row
          /\ \/ Goto(h, "load") /\ NoFault
             \/ ReturnErr(h) /\ Lost("reset")
       \/ UNCHANGED row /\ ReturnErr(h) /\ Fault("reset")
    /\ UNCHANGED <<ledger, provider>>

\* Process crash, or a cancelled request context
HandlerStops(h) ==
    /\ pc[h] # "idle"
    /\ ReturnErr(h) /\ Fault("crash")
    /\ UNCHANGED <<row, ledger, provider>>

----------------------------------------------------------------------------

Init == /\ status = "PENDING" /\ paidAt = FALSE /\ tradeNo = "none"
        /\ fresh = TRUE /\ due = FALSE
        /\ code = "absent" /\ audit = {} /\ credits = 0 /\ rebates = 0
        /\ creator = "call" /\ upstream = "none"
        /\ acked = FALSE
        /\ pc = [h \in Handlers |-> "idle"]
        /\ kind = [h \in Handlers |-> "none"]
        /\ note = [h \in Handlers |-> "none"]
        /\ seen = [h \in Handlers |-> "none"]
        /\ faults = 0

\* The steps a running handler takes by itself
HandlerStep(h) ==
    \/ QueryOrder(h) \/ CloseUpstream(h) \/ CancelRow(h) \/ PersistTradeNo(h)
    \/ ConfirmPayment(h) \/ ToPaid(h) \/ AlreadyProcessed(h)
    \/ LoadForFulfillment(h) \/ LockForFulfillment(h)
    \/ LookupCode(h) \/ CreateCode(h) \/ RedeemCode(h)
    \/ CheckAssigned(h) \/ AssignSubscription(h) \/ LogAssigned(h)
    \/ ApplyAffiliateRebate(h) \/ MarkCompleted(h) \/ MarkFailed(h)
    \/ ResetForRetry(h)

CreatorStep == CreatePayment \/ SaveDetails \/ MarkCreateFailed

Next ==
    \/ CreatorStep \/ CreatorStops
    \/ UserPays \/ OrderBecomesDue \/ GraceElapses \/ ProviderUnresolved
    \/ \E h \in Handlers :
          \/ ProviderNotifies(h) \/ VerifyOrderByOutTradeNo(h)
          \/ ReconcilePendingOrders(h) \/ CancelOrder(h)
          \/ ExpireTimedOutOrders(h) \/ RetryFulfillment(h)
          \/ HandlerStep(h) \/ HandlerStops(h)

Spec == Init /\ [][Next]_vars

----------------------------------------------------------------------------
(* Properties                                                              *)

\* The order's variables hold the values the schema and the code allow.
TypeOK ==
    /\ status \in Statuses
    /\ paidAt \in BOOLEAN /\ fresh \in BOOLEAN /\ due \in BOOLEAN
    /\ tradeNo \in TradeNos
    /\ code \in {"absent", "unused", "used"}
    /\ audit \subseteq AuditActions
    /\ credits \in Nat /\ rebates \in Nat
    /\ creator \in {"call", "save", "mark", "done", "failed"}
    /\ upstream \in {"none", "open", "paid", "short", "closed"}
    /\ acked \in BOOLEAN
    /\ pc \in [Handlers -> Steps]
    /\ kind \in [Handlers -> Kinds]
    /\ note \in [Handlers -> Notes]
    /\ seen \in [Handlers -> TradeNos]
    /\ faults \in 0 .. MaxFaults

\* The handlers between winning the RECHARGING row and leaving it
Fulfilling == {h \in Handlers : pc[h] \in FulfilSteps}

Fulfilled == {"COMPLETED"} \union RefundStatuses

\* The order keeps the promise of module OrderPromise (balance orders).
Promise == INSTANCE OrderPromise
           WITH paid <- upstream = "paid", credited <- credits, done <- status \in Fulfilled
PromiseKept == Promise!Spec

\* However many webhooks, queries and retries confirm the payment, and
\* wherever they fail or stop, its value reaches the user at most once
\* (doBalance, doSub).
CreditedAtMostOnce == credits <= 1

\* A subscription can be granted again: AssignOrExtendSubscription and its audit
\* entry are two transactions.  But no interleaving of webhooks, queries and
\* retries does it alone: every further grant costs a fault of its own (doSub).
GrantedOncePerFault == credits <= 1 + faults

\* An order shown as COMPLETED, or in any refund state, has been credited:
\* markCompleted is reached only after Redeem or AssignOrExtendSubscription.
CompletedIsCredited == status \in Fulfilled => credits > 0

\* Nothing is credited, and no rebate paid, unless the provider holds a
\* payment of the right amount for this order (confirmPayment's checks).
CreditedIsPaid == credits + rebates > 0 => upstream = "paid"

\* At most one handler at a time is inside the fulfilment of the order, and
\* only while the row says RECHARGING; the one exception is a handler on its
\* way to markFailed because the answer of its markCompleted was lost.
OneFulfiller ==
    /\ \A g, h \in Fulfilling : g = h
    /\ \A h \in Fulfilling : status = "RECHARGING" \/ (pc[h] = "fail" /\ status \in Fulfilled)

\* The inviter is paid at most once per order, and not before the user is
\* (applyAffiliateRebateForOrder, retried after any later failure).
RebatedAtMostOnce == rebates <= 1 /\ (rebates > 0 => credits > 0)

\* An order confirmed as paid is never again pending, cancelled or expired:
\* a cancel or an expiry that raced the payment does not overwrite it.
PaidNeverForgotten ==
    [][paidAt => paidAt' /\ status' \notin {"PENDING", "CANCELLED", "EXPIRED"}]_vars

\* markFailed "prevents overwriting a COMPLETED order when markCompleted failed
\* but fulfillment succeeded": COMPLETED is left only towards a refund.
CompletedIsFinal == [][(status \in Fulfilled) => (status' \in Fulfilled)]_vars

\* No handler holds, or is about to take, the fulfilment of the order
AtRest == \A h \in Handlers : pc[h] \notin FulfilSteps \union {"load", "lock", "reset"}

Recorded == "PAYMENT_AFTER_EXPIRY" \in audit

\* A payment whose webhook was answered 2xx is not lost: it is credited, on
\* record as paid after expiry, or in a status RetryFulfillment accepts.  (The
\* code also answers 2xx when it could not read the provider instance or the
\* order: the runs and the theorem that use this name those faults.)
AckedIsAccounted == acked /\ AtRest => credits > 0 \/ Recorded \/ CanRetry

\* "order was paid, fulfillment can be retried" (checkPaidWithOptions): a paid
\* order nobody works on is fulfilled or in a status RetryFulfillment accepts.
PaidCanBeRetried == paidAt /\ AtRest => status \in Fulfilled \/ CanRetry

----------------------------------------------------------------------------
(* Liveness                                                                *)

Redeliver == ~acked /\ upstream = "paid"
             /\ \E h \in Handlers : ProviderNotifies(h) /\ note'[h] = "exact"

\* A running request takes its next step, and the provider repeats an
\* unanswered notification (the server always has room for one more request,
\* hence strong fairness).  Nobody is obliged to pay, verify, cancel or retry.
Fairness == /\ WF_vars(CreatorStep)
            /\ \A h \in Handlers : WF_vars(HandlerStep(h))
            /\ SF_vars(Redeliver)

FairSpec == Spec /\ Fairness

\* A payment the provider holds is credited, put on record as paid after
\* expiry, or rests where only RetryFulfillment takes it further.
PaidIsSettled ==
    (upstream = "paid") ~>
        (\/ credits > 0
         \/ Recorded
         \/ AtRest /\ CanRetry /\ (acked \/ status = "PAID"))
=============================================================================

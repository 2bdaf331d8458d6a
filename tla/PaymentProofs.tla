--------------------------- MODULE PaymentProofs ---------------------------
(***************************************************************************)
(* Proofs about PaymentOrder for any number of handlers and faults, any    *)
(* trade numbers, and wherever faults may strike, and about PaymentRefund  *)
(* for any number of admin requests and amounts as well.  That one refund  *)
(* at a time is past the lock holds wherever faults strike; its books      *)
(* balance for balance orders when the few statements named in             *)
(* ReliableRefund are reliable.                                            *)
(***************************************************************************)
EXTENDS PaymentRefund, TLAPS

----------------------------------------------------------------------------
(* Orders: type correctness                                                *)

\* The Boolean variables, whose types are proved apart from the others
FlagsOK == paidAt \in BOOLEAN /\ fresh \in BOOLEAN /\ due \in BOOLEAN /\ acked \in BOOLEAN

\* All other variables
ValuesOK ==
    /\ status \in Statuses
    /\ tradeNo \in TradeNos
    /\ code \in {"absent", "unused", "used"}
    /\ audit \subseteq AuditActions
    /\ credits \in Nat /\ rebates \in Nat
    /\ creator \in {"call", "save", "mark", "done", "failed"}
    /\ upstream \in {"none", "open", "paid", "short", "closed"}
    /\ pc \in [Handlers -> Steps]
    /\ kind \in [Handlers -> Kinds]
    /\ note \in [Handlers -> Notes]
    /\ seen \in [Handlers -> TradeNos]
    /\ faults \in 0 .. MaxFaults

\* Together they are the type invariant.
LEMMA TypeParts == TypeOK <=> FlagsOK /\ ValuesOK
BY DEF TypeOK, FlagsOK, ValuesOK

\* The row createOrderInTx commits has the right type.
LEMMA InitType == Init => TypeOK
<1> SUFFICES ASSUME Init PROVE TypeOK
  OBVIOUS
<1>1. paidAt \in BOOLEAN /\ fresh \in BOOLEAN /\ due \in BOOLEAN /\ acked \in BOOLEAN
  BY Zenon DEF Init
<1>2. /\ pc \in [Handlers -> Steps]
      /\ kind \in [Handlers -> Kinds]
      /\ note \in [Handlers -> Notes]
      /\ seen \in [Handlers -> TradeNos]
  BY DEF Init, Steps, Kinds, Notes, TradeNos
<1>3. faults \in 0 .. MaxFaults
  BY FaultAssumption DEF Init
<1> QED BY <1>1, <1>2, <1>3 DEF Init, TypeOK, Statuses, TradeNos, AuditActions

\* A fault counter that is counted up stays within its bound.
LEMMA InjectType == ValuesOK /\ Inject => faults' \in 0 .. MaxFaults
BY FaultAssumption DEF ValuesOK, Inject

\* Creating, paying and the clock keep every variable in its type.
LEMMA EnvironmentType ==
    ASSUME TypeOK,
           CreatorStep \/ CreatorStops \/ UserPays \/ OrderBecomesDue \/ GraceElapses \/ ProviderUnresolved
    PROVE  TypeOK'
<1> USE InjectType, TradeNoAssumption DEF TypeOK, ValuesOK, row, ledger, provider, handlers, Fault, Lost, NoFault
<1>1. CASE CreatePayment
  BY <1>1 DEF CreatePayment
<1>2. CASE SaveDetails
  BY <1>2 DEF SaveDetails
<1>3. CASE MarkCreateFailed
  BY <1>3 DEF MarkCreateFailed, SetStatus, Statuses
<1>4. CASE CreatorStops
  BY <1>4 DEF CreatorStops
<1>5. CASE UserPays
  BY <1>5 DEF UserPays
<1>6. CASE OrderBecomesDue
  BY <1>6 DEF OrderBecomesDue
<1>7. CASE GraceElapses
  BY <1>7 DEF GraceElapses
<1>8. CASE ProviderUnresolved
  <2>1. acked' \in BOOLEAN
    BY <1>8, Zenon DEF ProviderUnresolved
  <2> QED BY <1>8, <2>1 DEF ProviderUnresolved
<1> QED BY <1>1, <1>2, <1>3, <1>4, <1>5, <1>6, <1>7, <1>8 DEF CreatorStep

\* Every entry point of a handler keeps every variable in its type.
LEMMA StartType ==
    ASSUME TypeOK, NEW h \in Handlers,
           \/ ProviderNotifies(h) \/ VerifyOrderByOutTradeNo(h)
           \/ ReconcilePendingOrders(h) \/ CancelOrder(h)
           \/ ExpireTimedOutOrders(h) \/ RetryFulfillment(h)
    PROVE  TypeOK'
<1> USE DEF TypeOK, row, ledger, provider, Start, Steps, Kinds, Notes
<1>1. CASE ProviderNotifies(h)
  BY <1>1 DEF ProviderNotifies
<1>2. CASE VerifyOrderByOutTradeNo(h) \/ ReconcilePendingOrders(h)
  BY <1>2 DEF VerifyOrderByOutTradeNo, ReconcilePendingOrders
<1>3. CASE CancelOrder(h) \/ ExpireTimedOutOrders(h) \/ RetryFulfillment(h)
  BY <1>3 DEF CancelOrder, ExpireTimedOutOrders, RetryFulfillment
<1> QED BY <1>1, <1>2, <1>3

\* Every step of a running handler keeps the Boolean variables Boolean.
LEMMA HandlerFlags ==
    ASSUME FlagsOK, NEW h \in Handlers, HandlerStep(h) \/ HandlerStops(h)
    PROVE  FlagsOK'
<1> USE DEF FlagsOK, row, Goto, ReturnNil, ReturnErr, Ack, Leave
<1>1. CASE QueryOrder(h)
  BY <1>1, Zenon DEF QueryOrder
<1>2. CASE CloseUpstream(h)
  BY <1>2, Zenon DEF CloseUpstream
<1>3. CASE CancelRow(h)
  BY <1>3, Zenon DEF CancelRow, SetStatus
<1>4. CASE PersistTradeNo(h)
  BY <1>4, Zenon DEF PersistTradeNo
<1>5. CASE ConfirmPayment(h)
  BY <1>5, Zenon DEF ConfirmPayment
<1>6. CASE ToPaid(h)
  BY <1>6, Zenon DEF ToPaid, MarkPaid
<1>7. CASE AlreadyProcessed(h)
  BY <1>7, Zenon DEF AlreadyProcessed
<1>8. CASE LoadForFulfillment(h)
  BY <1>8, Zenon DEF LoadForFulfillment
<1>9. CASE LockForFulfillment(h)
  BY <1>9, Zenon DEF LockForFulfillment, SetStatus
<1>10. CASE LookupCode(h)
  BY <1>10, Zenon DEF LookupCode
<1>11. CASE CreateCode(h)
  BY <1>11, Zenon DEF CreateCode
<1>12. CASE RedeemCode(h)
  BY <1>12, Zenon DEF RedeemCode
<1>13. CASE CheckAssigned(h)
  BY <1>13, Zenon DEF CheckAssigned
<1>14. CASE AssignSubscription(h)
  BY <1>14, Zenon DEF AssignSubscription
<1>15. CASE LogAssigned(h)
  BY <1>15, Zenon DEF LogAssigned
<1>16. CASE ApplyAffiliateRebate(h)
  BY <1>16, Zenon DEF ApplyAffiliateRebate
<1>17. CASE MarkCompleted(h)
  BY <1>17, Zenon DEF MarkCompleted, SetStatus
<1>18. CASE MarkFailed(h)
  BY <1>18, Zenon DEF MarkFailed, SetStatus
<1>19. CASE ResetForRetry(h)
  BY <1>19, Zenon DEF ResetForRetry, SetStatus
<1>20. CASE HandlerStops(h)
  BY <1>20, Zenon DEF HandlerStops
<1> QED BY <1>1, <1>2, <1>3, <1>4, <1>5, <1>6, <1>7, <1>8, <1>9, <1>10, <1>11, <1>12, <1>13, <1>14, <1>15, <1>16, <1>17, <1>18, <1>19, <1>20 DEF HandlerStep

\* Every step of a running handler keeps the other variables in their types.
LEMMA HandlerValues ==
    ASSUME ValuesOK, NEW h \in Handlers, HandlerStep(h) \/ HandlerStops(h)
    PROVE  ValuesOK'
<1> USE InjectType, TradeNoAssumption
    DEF ValuesOK, row, ledger, provider, Goto, ReturnNil, ReturnErr, Leave, Fault, Lost, NoFault, Steps, FulfilSteps,
        Kinds, Notes, TradeNos
<1>1. CASE QueryOrder(h)
  BY <1>1 DEF QueryOrder
<1>2. CASE CloseUpstream(h)
  BY <1>2 DEF CloseUpstream
<1>3. CASE CancelRow(h)
  BY <1>3 DEF CancelRow, SetStatus, Statuses
<1>4. CASE PersistTradeNo(h)
  BY <1>4 DEF PersistTradeNo
<1>5. CASE ConfirmPayment(h)
  BY <1>5 DEF ConfirmPayment
<1>6. CASE ToPaid(h)
  BY <1>6 DEF ToPaid, MarkPaid, Statuses
<1>7. CASE AlreadyProcessed(h)
  BY <1>7 DEF AlreadyProcessed, AuditActions
<1>8. CASE LoadForFulfillment(h)
  BY <1>8 DEF LoadForFulfillment
<1>9. CASE LockForFulfillment(h)
  BY <1>9 DEF LockForFulfillment, SetStatus, Statuses
<1>10. CASE LookupCode(h)
  BY <1>10 DEF LookupCode
<1>11. CASE CreateCode(h)
  BY <1>11 DEF CreateCode
<1>12. CASE RedeemCode(h)
  BY <1>12 DEF RedeemCode, UseCode
<1>13. CASE CheckAssigned(h)
  BY <1>13 DEF CheckAssigned
<1>14. CASE AssignSubscription(h)
  BY <1>14 DEF AssignSubscription
<1>15. CASE LogAssigned(h)
  BY <1>15 DEF LogAssigned, AuditActions
<1>16. CASE ApplyAffiliateRebate(h)
  <2>1. ASSUME ClaimRebate PROVE audit' \subseteq AuditActions /\ rebates' \in Nat
    <3>1. \/ audit' = audit /\ rebates' = rebates
          \/ audit' = audit \union {"AFFILIATE_REBATE_APPLIED"} /\ rebates' = rebates + 1
          \/ audit' = audit \union {"AFFILIATE_REBATE_SKIPPED"} /\ rebates' = rebates
      BY <2>1, Zenon DEF ClaimRebate
    <3>2. audit' \subseteq audit \union AuditActions
      BY <3>1, Zenon DEF AuditActions
    <3>3. rebates' \in Nat
      BY <3>1
    <3> QED BY <3>2, <3>3
  <2> QED BY <1>16, <2>1 DEF ApplyAffiliateRebate
<1>17. CASE MarkCompleted(h)
  <2>1. audit' \subseteq AuditActions
    BY <1>17 DEF MarkCompleted, SuccessAction, AuditActions
  <2>2. status' \in Statuses /\ tradeNo' \in TradeNos
    BY <1>17 DEF MarkCompleted, SetStatus, Statuses
  <2> QED BY <1>17, <2>1, <2>2 DEF MarkCompleted
<1>18. CASE MarkFailed(h)
  BY <1>18 DEF MarkFailed, SetStatus, Statuses
<1>19. CASE ResetForRetry(h)
  BY <1>19 DEF ResetForRetry, SetStatus, Statuses
<1>20. CASE HandlerStops(h)
  BY <1>20 DEF HandlerStops
<1> QED BY <1>1, <1>2, <1>3, <1>4, <1>5, <1>6, <1>7, <1>8, <1>9, <1>10, <1>11, <1>12, <1>13, <1>14, <1>15, <1>16, <1>17, <1>18, <1>19, <1>20 DEF HandlerStep

\* No step takes a variable out of its type.
LEMMA NextType == TypeOK /\ [Next]_vars => TypeOK'
<1> SUFFICES ASSUME TypeOK, [Next]_vars PROVE TypeOK'
  OBVIOUS
<1>1. CASE UNCHANGED vars
  BY <1>1 DEF TypeOK, vars, row, ledger, provider, handlers
<1>2. CASE Next
  <2>1. CASE CreatorStep \/ CreatorStops \/ UserPays \/ OrderBecomesDue \/ GraceElapses \/ ProviderUnresolved
    BY <2>1, EnvironmentType
  <2>2. ASSUME NEW h \in Handlers,
               \/ ProviderNotifies(h) \/ VerifyOrderByOutTradeNo(h)
               \/ ReconcilePendingOrders(h) \/ CancelOrder(h)
               \/ ExpireTimedOutOrders(h) \/ RetryFulfillment(h)
        PROVE  TypeOK'
    BY <2>2, StartType
  <2>3. ASSUME NEW h \in Handlers, HandlerStep(h) \/ HandlerStops(h)
        PROVE  TypeOK'
    <3>1. FlagsOK' /\ ValuesOK'
      BY <2>3, HandlerFlags, HandlerValues, TypeParts, Zenon
    <3> QED BY <3>1 DEF TypeOK, FlagsOK, ValuesOK
  <2> QED BY <1>2, <2>1, <2>2, <2>3, Zenon DEF Next
<1> QED BY <1>1, <1>2

\* The order's variables always hold values the schema and the code allow.
THEOREM TypeCorrect == Spec => []TypeOK
BY InitType, NextType, PTL DEF Spec
----------------------------------------------------------------------------
(* Orders: the inductive invariant                                         *)

\* The steps that only a confirmed payment leads to
PaidSteps == {"toPaid", "already", "reset", "load", "lock"} \union FulfilSteps

Unpaid == {"PENDING", "CANCELLED", "EXPIRED"}

\* The user pays only an order that CreateOrder answered, and a handler is past
\* confirmPayment, or carries an exact notification, only after the payment.
PaidFirst ==
    /\ upstream \in {"paid", "short"} => creator = "done"
    /\ \A h \in Handlers : note[h] = "exact" => upstream = "paid"
    /\ \A h \in Handlers : pc[h] \in PaidSteps => upstream = "paid"

\* paid_at and the status agree; FAILED without paid_at is a failed CreateOrder.
PaidStatus ==
    /\ paidAt = TRUE => upstream = "paid"
    /\ status \in Unpaid => paidAt = FALSE
    /\ status = "FAILED" => paidAt = TRUE \/ creator = "failed"
    /\ status \notin Unpaid \union {"FAILED"} => paidAt = TRUE

\* A balance order is credited when, and only when, its redeem code is used.
CodeIsCredit ==
    OrderType = "balance" =>
        /\ credits = IF code = "used" THEN 1 ELSE 0
        /\ \A h \in Handlers : pc[h] \notin {"assigned", "assign", "logAssigned"}

\* Whatever tells the code that the credit happened is right: the step a
\* handler is at, the audit entries, the status and the rebate.
CreditFirst ==
    /\ \A h \in Handlers : pc[h] \in {"logAssigned", "rebate", "complete"} => credits > 0
    /\ "SUBSCRIPTION_ASSIGNED" \in audit \/ "SUBSCRIPTION_SUCCESS" \in audit => credits > 0
    /\ code = "used" => credits > 0
    /\ CompletedIsCredited
    /\ credits > 0 => upstream = "paid"
    /\ rebates <= 1
    /\ rebates > 0 => credits > 0 /\ "AFFILIATE_REBATE_APPLIED" \in audit

IInv == PaidFirst /\ PaidStatus /\ OneFulfiller /\ CodeIsCredit /\ CreditFirst

----------------------------------------------------------------------------
(* Each part is inductive                                                  *)

\* No step gets ahead of the payment.
LEMMA PaidFirstStep ==
    ASSUME TypeOK, IInv, Next
    PROVE  PaidFirst'
<1> pc \in [Handlers -> Steps] /\ note \in [Handlers -> Notes]
  BY DEF TypeOK
<1> USE DEF IInv, PaidFirst, PaidSteps, FulfilSteps, row, ledger, provider, handlers, Goto, ReturnNil, ReturnErr,
            Leave
<1>1. CASE CreatePayment
  BY <1>1 DEF CreatePayment
<1>2. CASE UserPays
  BY <1>2 DEF UserPays
<1>3. CASE \/ SaveDetails \/ MarkCreateFailed \/ CreatorStops \/ OrderBecomesDue
          \/ GraceElapses \/ ProviderUnresolved
  BY <1>3 DEF SaveDetails, MarkCreateFailed, CreatorStops, OrderBecomesDue, GraceElapses, ProviderUnresolved, SetStatus
<1>4. ASSUME NEW h \in Handlers, ProviderNotifies(h) PROVE PaidFirst'
  BY <1>4 DEF ProviderNotifies, Start
<1>5. ASSUME NEW h \in Handlers, RetryFulfillment(h) PROVE PaidFirst'
  <2>1. paidAt = TRUE /\ UNCHANGED <<upstream, creator>>
    BY <1>5, Zenon DEF RetryFulfillment, CanRetry, TypeOK, provider
  <2>2. upstream = "paid"
    BY <2>1 DEF PaidStatus
  <2> QED BY <1>5, <2>1, <2>2 DEF RetryFulfillment, Start
<1>6. ASSUME NEW h \in Handlers, QueryOrder(h) PROVE PaidFirst'
  BY <1>6 DEF QueryOrder
<1>7. ASSUME NEW h \in Handlers, CloseUpstream(h) PROVE PaidFirst'
  BY <1>7 DEF CloseUpstream
<1>8. ASSUME NEW h \in Handlers, ConfirmPayment(h) PROVE PaidFirst'
  BY <1>8 DEF ConfirmPayment
<1>9. ASSUME NEW h \in Handlers,
             \/ LoadForFulfillment(h) \/ LockForFulfillment(h) \/ ToPaid(h)
             \/ AlreadyProcessed(h) \/ ResetForRetry(h)
      PROVE  PaidFirst'
  BY <1>9 DEF LoadForFulfillment, LockForFulfillment, ToPaid, AlreadyProcessed, ResetForRetry,
           SetStatus, MarkPaid, Payable
<1>10. ASSUME NEW h \in Handlers,
             \/ LookupCode(h) \/ CreateCode(h) \/ RedeemCode(h) \/ CheckAssigned(h)
             \/ AssignSubscription(h) \/ LogAssigned(h) \/ ApplyAffiliateRebate(h)
             \/ MarkCompleted(h) \/ MarkFailed(h)
      PROVE  PaidFirst'
  BY <1>10 DEF LookupCode, CreateCode, RedeemCode, CheckAssigned, AssignSubscription, LogAssigned,
           ApplyAffiliateRebate, MarkCompleted, MarkFailed, UseCode, ClaimRebate, SuccessAction,
           SetStatus
<1>11. ASSUME NEW h \in Handlers,
             \/ VerifyOrderByOutTradeNo(h) \/ ReconcilePendingOrders(h) \/ CancelOrder(h)
             \/ ExpireTimedOutOrders(h) \/ CancelRow(h) \/ PersistTradeNo(h)
             \/ HandlerStops(h)
      PROVE  PaidFirst'
  BY <1>11 DEF VerifyOrderByOutTradeNo, ReconcilePendingOrders, CancelOrder, ExpireTimedOutOrders,
           CancelRow, PersistTradeNo, HandlerStops, Start, SetStatus
<1> QED BY <1>1, <1>2, <1>3, <1>4, <1>5, <1>6, <1>7, <1>8, <1>9, <1>10, <1>11, Zenon
    DEF Next, CreatorStep, HandlerStep

\* Every step leaves paid_at and the status in agreement.
LEMMA PaidStatusStep ==
    ASSUME TypeOK, IInv, Next
    PROVE  PaidStatus'
<1> pc \in [Handlers -> Steps] /\ note \in [Handlers -> Notes]
  BY DEF TypeOK
<1> USE DEF IInv, PaidFirst, PaidSteps, FulfilSteps, PaidStatus, Unpaid, row, ledger, provider, handlers, Goto, ReturnNil, ReturnErr,
            Leave
<1>1. CASE MarkCreateFailed
  BY <1>1 DEF MarkCreateFailed, SetStatus
<1>2. CASE \/ CreatorStops \/ UserPays
  BY <1>2 DEF CreatorStops, UserPays
<1>3. CASE \/ CreatePayment \/ SaveDetails \/ OrderBecomesDue \/ GraceElapses \/ ProviderUnresolved
  BY <1>3 DEF CreatePayment, SaveDetails, OrderBecomesDue, GraceElapses, ProviderUnresolved
<1>4. ASSUME NEW h \in Handlers, CancelRow(h) PROVE PaidStatus'
  BY <1>4 DEF CancelRow, SetStatus
<1>5. ASSUME NEW h \in Handlers, ToPaid(h) PROVE PaidStatus'
  BY <1>5 DEF ToPaid, MarkPaid, Payable
<1>6. ASSUME NEW h \in Handlers, LockForFulfillment(h) PROVE PaidStatus'
  BY <1>6 DEF LockForFulfillment, SetStatus
<1>7. ASSUME NEW h \in Handlers, MarkCompleted(h) PROVE PaidStatus'
  BY <1>7 DEF MarkCompleted, SuccessAction, SetStatus
<1>8. ASSUME NEW h \in Handlers, MarkFailed(h) PROVE PaidStatus'
  BY <1>8 DEF MarkFailed, SetStatus
<1>9. ASSUME NEW h \in Handlers, ResetForRetry(h) PROVE PaidStatus'
  BY <1>9 DEF ResetForRetry, SetStatus
<1>10. ASSUME NEW h \in Handlers,
             \/ ProviderNotifies(h) \/ VerifyOrderByOutTradeNo(h)
             \/ ReconcilePendingOrders(h) \/ CancelOrder(h) \/ ExpireTimedOutOrders(h)
             \/ RetryFulfillment(h) \/ QueryOrder(h) \/ CloseUpstream(h)
             \/ PersistTradeNo(h) \/ ConfirmPayment(h) \/ AlreadyProcessed(h)
             \/ LoadForFulfillment(h) \/ LookupCode(h) \/ CreateCode(h) \/ RedeemCode(h)
             \/ CheckAssigned(h) \/ AssignSubscription(h) \/ LogAssigned(h)
             \/ ApplyAffiliateRebate(h) \/ HandlerStops(h)
      PROVE  PaidStatus'
  BY <1>10 DEF ProviderNotifies, VerifyOrderByOutTradeNo, ReconcilePendingOrders, CancelOrder,
           ExpireTimedOutOrders, RetryFulfillment, QueryOrder, CloseUpstream, PersistTradeNo,
           ConfirmPayment, AlreadyProcessed, LoadForFulfillment, LookupCode, CreateCode,
           RedeemCode, CheckAssigned, AssignSubscription, LogAssigned, ApplyAffiliateRebate,
           HandlerStops, Start, CanRetry, UseCode, ClaimRebate
<1> QED BY <1>1, <1>2, <1>3, <1>4, <1>5, <1>6, <1>7, <1>8, <1>9, <1>10, Zenon
    DEF Next, CreatorStep, HandlerStep

\* The RECHARGING row is won by one handler at a time.
LEMMA OneFulfillerStep ==
    ASSUME TypeOK, IInv, Next
    PROVE  OneFulfiller'
<1> pc \in [Handlers -> Steps] /\ note \in [Handlers -> Notes]
  BY DEF TypeOK
<1> USE DEF IInv, PaidFirst, PaidSteps, PaidStatus, Unpaid, OneFulfiller, Fulfilling, FulfilSteps,
            Fulfilled, RefundStatuses, row, ledger, provider, handlers, Goto, ReturnNil, ReturnErr,
            Leave
<1>1. CASE MarkCreateFailed
  BY <1>1 DEF MarkCreateFailed, SetStatus
<1>2. CASE \/ CreatePayment \/ SaveDetails \/ CreatorStops \/ UserPays \/ OrderBecomesDue
          \/ GraceElapses \/ ProviderUnresolved
  BY <1>2 DEF CreatePayment, SaveDetails, CreatorStops, UserPays, OrderBecomesDue, GraceElapses, ProviderUnresolved
<1>3. ASSUME NEW h \in Handlers, CancelRow(h) PROVE OneFulfiller'
  BY <1>3 DEF CancelRow, SetStatus
<1>4. ASSUME NEW h \in Handlers, ToPaid(h) PROVE OneFulfiller'
  BY <1>4 DEF ToPaid, MarkPaid, Payable
<1>5. ASSUME NEW h \in Handlers, LockForFulfillment(h) PROVE OneFulfiller'
  BY <1>5 DEF LockForFulfillment, SetStatus
<1>6. ASSUME NEW h \in Handlers, MarkCompleted(h) PROVE OneFulfiller'
  BY <1>6 DEF MarkCompleted, SuccessAction, SetStatus
<1>7. ASSUME NEW h \in Handlers, MarkFailed(h) PROVE OneFulfiller'
  BY <1>7 DEF MarkFailed, SetStatus
<1>8. ASSUME NEW h \in Handlers, ResetForRetry(h) PROVE OneFulfiller'
  BY <1>8 DEF ResetForRetry, SetStatus
<1>9. ASSUME NEW h \in Handlers,
             \/ LookupCode(h) \/ CreateCode(h) \/ RedeemCode(h) \/ CheckAssigned(h)
             \/ AssignSubscription(h) \/ LogAssigned(h) \/ ApplyAffiliateRebate(h)
      PROVE  OneFulfiller'
  BY <1>9 DEF LookupCode, CreateCode, RedeemCode, CheckAssigned, AssignSubscription, LogAssigned,
           ApplyAffiliateRebate, UseCode, ClaimRebate
<1>10. ASSUME NEW h \in Handlers,
             \/ ProviderNotifies(h) \/ VerifyOrderByOutTradeNo(h)
             \/ ReconcilePendingOrders(h) \/ CancelOrder(h) \/ ExpireTimedOutOrders(h)
             \/ RetryFulfillment(h) \/ QueryOrder(h) \/ CloseUpstream(h)
             \/ PersistTradeNo(h) \/ ConfirmPayment(h) \/ AlreadyProcessed(h)
             \/ LoadForFulfillment(h) \/ HandlerStops(h)
      PROVE  OneFulfiller'
  BY <1>10 DEF ProviderNotifies, VerifyOrderByOutTradeNo, ReconcilePendingOrders, CancelOrder,
           ExpireTimedOutOrders, RetryFulfillment, QueryOrder, CloseUpstream, PersistTradeNo,
           ConfirmPayment, AlreadyProcessed, LoadForFulfillment, HandlerStops, Start, CanRetry
<1> QED BY <1>1, <1>2, <1>3, <1>4, <1>5, <1>6, <1>7, <1>8, <1>9, <1>10, Zenon
    DEF Next, CreatorStep, HandlerStep

\* The credit of a balance order follows its redeem code.
LEMMA CodeIsCreditStep ==
    ASSUME TypeOK, IInv, Next
    PROVE  CodeIsCredit'
<1> pc \in [Handlers -> Steps] /\ note \in [Handlers -> Notes]
  BY DEF TypeOK
<1> credits \in Nat /\ code \in {"absent", "unused", "used"}
  BY DEF TypeOK
<1> USE DEF IInv, CodeIsCredit, row, ledger, provider, handlers, Goto, ReturnNil, ReturnErr,
            Leave
<1>1. CASE \/ CreatePayment \/ SaveDetails \/ MarkCreateFailed \/ CreatorStops \/ UserPays
          \/ OrderBecomesDue \/ GraceElapses \/ ProviderUnresolved
  BY <1>1 DEF CreatePayment, SaveDetails, MarkCreateFailed, CreatorStops, UserPays,
           OrderBecomesDue, GraceElapses, ProviderUnresolved, SetStatus
<1>2. ASSUME NEW h \in Handlers, LockForFulfillment(h) PROVE CodeIsCredit'
  BY <1>2 DEF LockForFulfillment, SetStatus
<1>3. ASSUME NEW h \in Handlers, LookupCode(h) PROVE CodeIsCredit'
  BY <1>3 DEF LookupCode
<1>4. ASSUME NEW h \in Handlers, CreateCode(h) PROVE CodeIsCredit'
  BY <1>4 DEF CreateCode
<1>5. ASSUME NEW h \in Handlers, RedeemCode(h) PROVE CodeIsCredit'
  BY <1>5 DEF RedeemCode, UseCode
<1>6. ASSUME NEW h \in Handlers,
             \/ CheckAssigned(h) \/ AssignSubscription(h) \/ LogAssigned(h)
      PROVE  CodeIsCredit'
  BY <1>6 DEF CheckAssigned, AssignSubscription, LogAssigned
<1>7. ASSUME NEW h \in Handlers,
             \/ ProviderNotifies(h) \/ VerifyOrderByOutTradeNo(h)
             \/ ReconcilePendingOrders(h) \/ CancelOrder(h) \/ ExpireTimedOutOrders(h)
             \/ RetryFulfillment(h) \/ QueryOrder(h) \/ CloseUpstream(h) \/ CancelRow(h)
             \/ PersistTradeNo(h) \/ ConfirmPayment(h) \/ ToPaid(h)
             \/ AlreadyProcessed(h) \/ LoadForFulfillment(h) \/ ApplyAffiliateRebate(h)
             \/ MarkCompleted(h) \/ MarkFailed(h) \/ ResetForRetry(h) \/ HandlerStops(h)
      PROVE  CodeIsCredit'
  BY <1>7 DEF ProviderNotifies, VerifyOrderByOutTradeNo, ReconcilePendingOrders, CancelOrder,
           ExpireTimedOutOrders, RetryFulfillment, QueryOrder, CloseUpstream, CancelRow,
           PersistTradeNo, ConfirmPayment, ToPaid, AlreadyProcessed, LoadForFulfillment,
           ApplyAffiliateRebate, MarkCompleted, MarkFailed, ResetForRetry, HandlerStops, Start,
           CanRetry, SetStatus, MarkPaid, Payable, ClaimRebate, SuccessAction
<1> QED BY <1>1, <1>2, <1>3, <1>4, <1>5, <1>6, <1>7, Zenon
    DEF Next, CreatorStep, HandlerStep

\* Nothing says credited before the credit.
LEMMA CreditFirstStep ==
    ASSUME TypeOK, IInv, Next
    PROVE  CreditFirst'
<1> pc \in [Handlers -> Steps] /\ note \in [Handlers -> Notes]
  BY DEF TypeOK
<1> credits \in Nat /\ rebates \in Nat /\ code \in {"absent", "unused", "used"}
  BY DEF TypeOK
<1> USE DEF IInv, CreditFirst, PaidFirst, PaidSteps, FulfilSteps, CompletedIsCredited, Fulfilled,
            RefundStatuses, row, ledger, provider, handlers, Goto, ReturnNil, ReturnErr,
            Leave
<1>1. CASE UserPays
  BY <1>1 DEF UserPays
<1>2. CASE MarkCreateFailed
  BY <1>2 DEF MarkCreateFailed, SetStatus
<1>3. CASE \/ CreatePayment \/ SaveDetails \/ CreatorStops \/ OrderBecomesDue
          \/ GraceElapses \/ ProviderUnresolved
  BY <1>3 DEF CreatePayment, SaveDetails, CreatorStops, OrderBecomesDue, GraceElapses, ProviderUnresolved
<1>4. ASSUME NEW h \in Handlers, CloseUpstream(h) PROVE CreditFirst'
  BY <1>4 DEF CloseUpstream
<1>5. ASSUME NEW h \in Handlers,
             \/ CancelRow(h) \/ ToPaid(h)
      PROVE  CreditFirst'
  BY <1>5 DEF CancelRow, ToPaid, SetStatus, MarkPaid, Payable
<1>6. ASSUME NEW h \in Handlers,
             \/ LockForFulfillment(h) \/ MarkFailed(h) \/ ResetForRetry(h)
      PROVE  CreditFirst'
  BY <1>6 DEF LockForFulfillment, MarkFailed, ResetForRetry, SetStatus
<1>7. ASSUME NEW h \in Handlers, AlreadyProcessed(h) PROVE CreditFirst'
  BY <1>7 DEF AlreadyProcessed
<1>8. ASSUME NEW h \in Handlers, LookupCode(h) PROVE CreditFirst'
  BY <1>8 DEF LookupCode
<1>9. ASSUME NEW h \in Handlers, CreateCode(h) PROVE CreditFirst'
  BY <1>9 DEF CreateCode
<1>10. ASSUME NEW h \in Handlers, RedeemCode(h) PROVE CreditFirst'
  BY <1>10 DEF RedeemCode, UseCode
<1>11. ASSUME NEW h \in Handlers, CheckAssigned(h) PROVE CreditFirst'
  BY <1>11 DEF CheckAssigned
<1>12. ASSUME NEW h \in Handlers, AssignSubscription(h) PROVE CreditFirst'
  BY <1>12 DEF AssignSubscription
<1>13. ASSUME NEW h \in Handlers, LogAssigned(h) PROVE CreditFirst'
  BY <1>13 DEF LogAssigned
<1>14. ASSUME NEW h \in Handlers, ApplyAffiliateRebate(h) PROVE CreditFirst'
  BY <1>14 DEF ApplyAffiliateRebate, ClaimRebate
<1>15. ASSUME NEW h \in Handlers, MarkCompleted(h) PROVE CreditFirst'
  BY <1>15 DEF MarkCompleted, SuccessAction, SetStatus
<1>16. ASSUME NEW h \in Handlers,
             \/ ProviderNotifies(h) \/ VerifyOrderByOutTradeNo(h)
             \/ ReconcilePendingOrders(h) \/ CancelOrder(h) \/ ExpireTimedOutOrders(h)
             \/ RetryFulfillment(h) \/ QueryOrder(h) \/ PersistTradeNo(h)
             \/ ConfirmPayment(h) \/ LoadForFulfillment(h) \/ HandlerStops(h)
      PROVE  CreditFirst'
  BY <1>16 DEF ProviderNotifies, VerifyOrderByOutTradeNo, ReconcilePendingOrders, CancelOrder,
           ExpireTimedOutOrders, RetryFulfillment, QueryOrder, PersistTradeNo, ConfirmPayment,
           LoadForFulfillment, HandlerStops, Start, CanRetry
<1> QED BY <1>1, <1>2, <1>3, <1>4, <1>5, <1>6, <1>7, <1>8, <1>9, <1>10, <1>11, <1>12, <1>13,
           <1>14, <1>15, <1>16, Zenon
    DEF Next, CreatorStep, HandlerStep

----------------------------------------------------------------------------
(* The theorems                                                            *)

\* The new order satisfies the invariant.
LEMMA InitInv == Init => IInv
<1> SUFFICES ASSUME Init PROVE IInv
  OBVIOUS
<1>1. PaidFirst
  BY DEF Init, PaidFirst, PaidSteps, FulfilSteps
<1>2. PaidStatus
  BY Zenon DEF Init, PaidStatus, Unpaid
<1>3. OneFulfiller
  BY DEF Init, OneFulfiller, Fulfilling, FulfilSteps
<1>4. CodeIsCredit /\ CreditFirst
  BY DEF Init, CodeIsCredit, CreditFirst, CompletedIsCredited, Fulfilled, RefundStatuses
<1> QED BY <1>1, <1>2, <1>3, <1>4 DEF IInv

\* A step that changes nothing keeps the invariant.
LEMMA StutterInv == IInv /\ UNCHANGED vars => IInv'
BY DEF IInv, PaidFirst, PaidStatus, OneFulfiller, Fulfilling, CodeIsCredit, CreditFirst,
       CompletedIsCredited, vars, row, ledger, provider, handlers

\* Every step keeps the invariant.
LEMMA NextInv == TypeOK /\ IInv /\ [Next]_vars => IInv'
<1> SUFFICES ASSUME TypeOK, IInv, [Next]_vars PROVE IInv'
  OBVIOUS
<1>1. CASE UNCHANGED vars
  BY <1>1, StutterInv
<1>2. CASE Next
  BY <1>2, PaidFirstStep, PaidStatusStep, OneFulfillerStep, CodeIsCreditStep, CreditFirstStep
  DEF IInv
<1> QED BY <1>1, <1>2

\* The inductive invariant holds in every reachable state.
THEOREM Invariance == Spec => []IInv
BY TypeCorrect, InitInv, NextInv, PTL DEF Spec

\* One handler at a time fulfils the order, and only while the row says
\* RECHARGING: the compare-and-set of ExecuteBalanceFulfillment and
\* ExecuteSubscriptionFulfillment is a lock.
THEOREM FulfilmentIsExclusive == Spec => []OneFulfiller
<1>1. IInv => OneFulfiller
  BY DEF IInv
<1> QED BY <1>1, Invariance, PTL

\* A balance order is credited at most once, whatever fails or stops and however
\* often webhooks, queries and retries confirm it (doBalance).
THEOREM BalanceCreditedAtMostOnce ==
    ASSUME OrderType = "balance"
    PROVE  Spec => []CreditedAtMostOnce
<1>1. IInv => CreditedAtMostOnce
  BY DEF IInv, CodeIsCredit, CreditedAtMostOnce
<1> QED BY <1>1, Invariance, PTL

\* An order shown as completed has been credited (markCompleted).
THEOREM CompletedOrdersAreCredited == Spec => []CompletedIsCredited
<1>1. IInv => CompletedIsCredited
  BY DEF IInv, CreditFirst
<1> QED BY <1>1, Invariance, PTL

\* Credit and rebate happen only for a payment of the right amount
\* (confirmPayment).
THEOREM CreditedOrdersArePaid == Spec => []CreditedIsPaid
<1>1. TypeOK /\ IInv => CreditedIsPaid
  BY DEF TypeOK, IInv, CreditFirst, CreditedIsPaid
<1> QED BY <1>1, TypeCorrect, Invariance, PTL

\* The inviter is paid at most once, and not before the user
\* (applyAffiliateRebateForOrder).
THEOREM RebateAtMostOnce == Spec => []RebatedAtMostOnce
<1>1. IInv => RebatedAtMostOnce
  BY DEF IInv, CreditFirst, RebatedAtMostOnce
<1> QED BY <1>1, Invariance, PTL

----------------------------------------------------------------------------
(* A subscription is granted again only at the price of a fault            *)

\* doSub finds an entry that says the subscription was assigned
Assigned == "SUBSCRIPTION_ASSIGNED" \in audit \/ "SUBSCRIPTION_SUCCESS" \in audit

\* Only balance orders use redeem codes.  A subscription order has had at most
\* one grant more than faults; none more while it is about to be granted again,
\* and none more when the audit log does not show the grant.
GrantsArePaidFor ==
    /\ \A h \in Handlers : pc[h] \in {"lookup", "create", "redeem"} => OrderType = "balance"
    /\ OrderType = "subscription" =>
          /\ credits <= 1 + faults
          /\ \A h \in Handlers : pc[h] = "assign" => credits <= faults
          /\ \/ \E h \in Handlers : pc[h] = "logAssigned"
             \/ Assigned
             \/ credits <= faults

\* A step that leaves credits and audit log alone, takes no fault back, and ends
\* neither an assignment nor starts one, keeps the account of the grants.
LEMMA GrantsKept ==
    ASSUME TypeOK, TypeOK', GrantsArePaidFor, NEW h \in Handlers,
           credits' = credits, audit \subseteq audit',
           faults' = faults \/ faults' = faults + 1,
           \A g \in Handlers \ {h} : pc'[g] = pc[g],
           pc[h] # "logAssigned",
           pc'[h] \in {"lookup", "create", "redeem"} => OrderType = "balance",
           pc'[h] # "assign"
    PROVE  GrantsArePaidFor'
<1> credits \in Nat /\ faults \in Nat
  BY FaultAssumption DEF TypeOK
<1>1. ASSUME OrderType = "subscription", NEW g \in Handlers, pc'[g] = "assign"
      PROVE  credits' <= faults'
  <2>1. pc[g] = "assign"
    BY <1>1
  <2> QED BY <1>1, <2>1 DEF GrantsArePaidFor
<1>2. ASSUME NEW g \in Handlers, pc[g] = "logAssigned"
      PROVE  pc'[g] = "logAssigned"
  BY <1>2
<1>3. Assigned => Assigned'
  BY DEF Assigned
<1>4. ASSUME NEW g \in Handlers, pc'[g] \in {"lookup", "create", "redeem"}
      PROVE  OrderType = "balance"
  BY <1>4 DEF GrantsArePaidFor
<1> QED BY <1>1, <1>2, <1>3, <1>4 DEF GrantsArePaidFor

\* Every step keeps the account of the grants.
LEMMA GrantsStep ==
    ASSUME TypeOK, TypeOK', IInv, GrantsArePaidFor, Next
    PROVE  GrantsArePaidFor'
<1> credits \in Nat /\ faults \in Nat /\ faults' \in Nat /\ pc \in [Handlers -> Steps]
  BY FaultAssumption DEF TypeOK
<1> OrderType \in {"balance", "subscription"}
  BY OrderTypeAssumption
<1> USE DEF row, ledger, provider, handlers, Goto, ReturnNil, ReturnErr, Leave, Start,
            Fault, Lost, Inject, NoFault
<1>1. CASE \/ CreatePayment \/ SaveDetails \/ MarkCreateFailed \/ CreatorStops \/ UserPays
          \/ OrderBecomesDue \/ GraceElapses \/ ProviderUnresolved
  BY <1>1 DEF CreatePayment, SaveDetails, MarkCreateFailed, CreatorStops, UserPays,
           OrderBecomesDue, GraceElapses, ProviderUnresolved, SetStatus, GrantsArePaidFor, Assigned
<1>2. ASSUME NEW h \in Handlers, 
             \/ ProviderNotifies(h) \/ VerifyOrderByOutTradeNo(h)
             \/ ReconcilePendingOrders(h) \/ CancelOrder(h) \/ ExpireTimedOutOrders(h)
             \/ RetryFulfillment(h)
      PROVE  GrantsArePaidFor'
  BY <1>2, GrantsKept DEF ProviderNotifies, VerifyOrderByOutTradeNo, ReconcilePendingOrders, CancelOrder,
           ExpireTimedOutOrders, RetryFulfillment
<1>3. ASSUME NEW h \in Handlers,
             \/ QueryOrder(h) \/ CloseUpstream(h) \/ CancelRow(h)
             \/ PersistTradeNo(h) \/ ConfirmPayment(h) \/ ToPaid(h)
             \/ AlreadyProcessed(h) \/ LoadForFulfillment(h) 
             \/ MarkFailed(h) \/ ResetForRetry(h)
      PROVE  GrantsArePaidFor'
  BY <1>3, GrantsKept DEF QueryOrder, CloseUpstream, CancelRow,
           PersistTradeNo, ConfirmPayment, ToPaid, AlreadyProcessed, LoadForFulfillment,
           MarkFailed, ResetForRetry, SetStatus
<1>4. ASSUME NEW h \in Handlers, LockForFulfillment(h) PROVE GrantsArePaidFor'
  BY <1>4, GrantsKept DEF LockForFulfillment
<1>5. ASSUME NEW h \in Handlers, LookupCode(h) \/ CreateCode(h) PROVE GrantsArePaidFor'
  <2>1. OrderType = "balance"
    BY <1>5 DEF LookupCode, CreateCode, GrantsArePaidFor
  <2> QED BY <2>1 DEF GrantsArePaidFor
<1>6. ASSUME NEW h \in Handlers, RedeemCode(h) PROVE GrantsArePaidFor'
  <2>1. OrderType = "balance"
    BY <1>6 DEF RedeemCode, GrantsArePaidFor
  <2> QED BY <2>1 DEF GrantsArePaidFor
<1>7. ASSUME NEW h \in Handlers, CheckAssigned(h) PROVE GrantsArePaidFor'
  <2>1. \A g \in Handlers : pc[g] # "logAssigned" /\ pc[g] # "assign"
    BY <1>7 DEF CheckAssigned, IInv, OneFulfiller, Fulfilling, FulfilSteps
  <2>2. pc'[h] # "assign" => GrantsArePaidFor'
    BY <1>7, GrantsKept DEF CheckAssigned
  <2>3. ASSUME pc'[h] = "assign" PROVE ~Assigned \/ faults' = faults + 1
    BY <1>7, <2>3 DEF CheckAssigned, Assigned
  <2>4. ASSUME pc'[h] = "assign", OrderType = "subscription" PROVE credits' <= faults'
    BY <1>7, <2>1, <2>3, <2>4 DEF CheckAssigned, GrantsArePaidFor
  <2>5. \A g \in Handlers : pc'[g] \notin {"lookup", "create", "redeem"} \/ pc'[g] = pc[g]
    BY <1>7 DEF CheckAssigned
  <2>6. \A g \in Handlers : pc'[g] \in {"lookup", "create", "redeem"} => OrderType = "balance"
    BY <2>5 DEF GrantsArePaidFor
  <2>7. \A g \in Handlers : pc'[g] = "assign" => g = h
    BY <1>7, <2>1 DEF CheckAssigned
  <2>8. \A c, f \in Nat : c <= f => c <= 1 + f
    OBVIOUS
  <2>9. ASSUME pc'[h] = "assign", OrderType = "subscription"
        PROVE  credits' <= 1 + faults' /\ credits' <= faults'
    <3>1. credits' \in Nat
      BY DEF TypeOK
    <3> QED BY <2>4, <2>8, <2>9, <3>1, Zenon
  <2> QED BY <2>2, <2>9, <2>6, <2>7 DEF GrantsArePaidFor
<1>8. ASSUME NEW h \in Handlers, AssignSubscription(h) PROVE GrantsArePaidFor'
  <2>1. \A g \in Handlers : pc[g] # "logAssigned" /\ (pc[g] = "assign" => g = h)
    BY <1>8 DEF AssignSubscription, IInv, OneFulfiller, Fulfilling, FulfilSteps
  <2>2. CASE OrderType = "balance"
    BY <1>8, <2>2 DEF AssignSubscription, GrantsArePaidFor
  <2>3. CASE OrderType = "subscription"
    BY <1>8, <2>1, <2>3 DEF AssignSubscription, GrantsArePaidFor, Assigned
  <2> QED BY <2>2, <2>3
<1>9. ASSUME NEW h \in Handlers, LogAssigned(h) PROVE GrantsArePaidFor'
  <2>1. \A g \in Handlers : pc[g] # "assign" /\ pc'[g] # "assign"
    BY <1>9 DEF LogAssigned, IInv, OneFulfiller, Fulfilling, FulfilSteps
  <2>2. Assigned' \/ faults' = faults + 1
    BY <1>9 DEF LogAssigned, Assigned
  <2>3. \A g \in Handlers : pc'[g] \notin {"lookup", "create", "redeem"} \/ pc'[g] = pc[g]
    BY <1>9 DEF LogAssigned
  <2>4. credits' = credits /\ (faults' = faults \/ faults' = faults + 1)
    BY <1>9 DEF LogAssigned
  <2>5. \A g \in Handlers : pc'[g] \in {"lookup", "create", "redeem"} => OrderType = "balance"
    BY <2>3 DEF GrantsArePaidFor
  <2>6. OrderType = "subscription" => credits <= 1 + faults
    BY DEF GrantsArePaidFor
  <2>7. ASSUME OrderType = "subscription"
        PROVE  credits' <= 1 + faults' /\ (Assigned' \/ credits' <= faults')
    <3>1. CASE faults' = faults
      <4>1. credits' <= 1 + faults'
        BY <2>4, <2>6, <2>7, <3>1
      <4>2. faults' # faults + 1
        BY <3>1
      <4> QED BY <2>2, <4>1, <4>2
    <3>2. CASE faults' = faults + 1
      BY <2>4, <2>6, <2>7, <3>2
    <3> QED BY <2>4, <3>1, <3>2
  <2> QED BY <2>1, <2>5, <2>7 DEF GrantsArePaidFor
<1>10. ASSUME NEW h \in Handlers, ApplyAffiliateRebate(h) PROVE GrantsArePaidFor'
  <2>1. audit \subseteq audit'
    BY <1>10 DEF ApplyAffiliateRebate, ClaimRebate
  <2> QED BY <1>10, <2>1, GrantsKept DEF ApplyAffiliateRebate
<1>11. ASSUME NEW h \in Handlers, MarkCompleted(h) PROVE GrantsArePaidFor'
  BY <1>11, GrantsKept DEF MarkCompleted
<1>12. ASSUME NEW h \in Handlers, HandlerStops(h) PROVE GrantsArePaidFor'
  <2>1. CASE pc[h] # "logAssigned"
    BY <1>12, <2>1, GrantsKept DEF HandlerStops
  <2>2. CASE pc[h] = "logAssigned"
    BY <1>12, <2>2 DEF HandlerStops, GrantsArePaidFor, Assigned
  <2> QED BY <2>1, <2>2
<1> QED BY <1>1, <1>2, <1>3, <1>4, <1>5, <1>6, <1>7, <1>8, <1>9, <1>10, <1>11, <1>12, Zenon
    DEF Next, CreatorStep, HandlerStep

\* No interleaving of webhooks, queries and retries grants the value of an order
\* twice by itself: every further grant costs a fault of its own (doSub).
THEOREM FurtherGrantsCostFaults == Spec => []GrantedOncePerFault
<1>1. Init => GrantsArePaidFor
  BY DEF Init, GrantsArePaidFor
<1>2. TypeOK /\ TypeOK' /\ IInv /\ GrantsArePaidFor /\ [Next]_vars => GrantsArePaidFor'
  <2>1. GrantsArePaidFor /\ UNCHANGED vars => GrantsArePaidFor'
    BY DEF vars, row, ledger, handlers, GrantsArePaidFor, Assigned
  <2> QED BY <2>1, GrantsStep
<1>3. TypeOK /\ IInv /\ GrantsArePaidFor => GrantedOncePerFault
  <2> SUFFICES ASSUME TypeOK, IInv, GrantsArePaidFor PROVE credits <= 1 + faults
    BY DEF GrantedOncePerFault
  <2>1. credits \in Nat /\ faults \in Nat
    BY FaultAssumption DEF TypeOK
  <2>2. OrderType = "balance" => credits <= 1
    BY DEF IInv, CodeIsCredit
  <2> QED BY <2>1, <2>2, OrderTypeAssumption DEF GrantsArePaidFor
<1> QED BY <1>1, <1>2, <1>3, TypeCorrect, Invariance, PTL DEF Spec

----------------------------------------------------------------------------
(* An answered payment is accounted for                                    *)

\* The faults after which nothing would lead an answered payment further do not
\* happen: a read error that handleNotify, confirmPayment or alreadyProcessed
\* answers as success, and what leaves the row in RECHARGING (the answer of the lock's
\* UPDATE lost, markFailed's UPDATE failing, a handler that stops).
RecoverableOnly == /\ FaultAt \intersect {"providers", "confirm", "already", "fail", "crash"} = {}
                   /\ "lock" \notin LostAt

\* Handlers that fulfil, or will, work on a paid order; a handler that found the
\* row not payable will not find it pending or cancelled; a RECHARGING row has
\* its handler; an answered payment is credited, on record, or paid; webhooks do
\* not query.
Accounted ==
    /\ \A h \in Handlers : pc[h] \in {"reset", "load", "lock"} \union FulfilSteps => paidAt = TRUE
    /\ \A h \in Handlers : pc[h] = "already" => status \notin {"PENDING", "CANCELLED"}
    /\ status = "RECHARGING" => \E h \in Handlers : pc[h] \in FulfilSteps
    /\ acked = TRUE => credits > 0 \/ Recorded \/ paidAt = TRUE
    /\ \A h \in Handlers : pc[h] \in {"query", "close", "cas"} => kind[h] # "webhook"

\* paid_at, once set, is never cleared.
LEMMA PaidAtStays ==
    ASSUME TypeOK, IInv, Next
    PROVE  paidAt = TRUE => paidAt' = TRUE
<1> USE DEF row
<1>1. CASE \/ CreatePayment \/ SaveDetails \/ MarkCreateFailed \/ CreatorStops \/ UserPays
          \/ OrderBecomesDue \/ GraceElapses \/ ProviderUnresolved
  BY <1>1 DEF CreatePayment, SaveDetails, MarkCreateFailed, CreatorStops, UserPays,
           OrderBecomesDue, GraceElapses, ProviderUnresolved, SetStatus
<1>2. ASSUME NEW h \in Handlers, ToPaid(h) PROVE paidAt = TRUE => paidAt' = TRUE
  BY <1>2 DEF ToPaid, MarkPaid, Payable
<1>3. ASSUME NEW h \in Handlers,
             \/ ProviderNotifies(h) \/ VerifyOrderByOutTradeNo(h)
             \/ ReconcilePendingOrders(h) \/ CancelOrder(h) \/ ExpireTimedOutOrders(h)
             \/ RetryFulfillment(h) \/ QueryOrder(h) \/ CloseUpstream(h) \/ CancelRow(h)
             \/ PersistTradeNo(h) \/ ConfirmPayment(h) \/ AlreadyProcessed(h)
             \/ LoadForFulfillment(h) \/ LockForFulfillment(h) \/ LookupCode(h)
             \/ CreateCode(h) \/ RedeemCode(h) \/ CheckAssigned(h)
             \/ AssignSubscription(h) \/ LogAssigned(h) \/ ApplyAffiliateRebate(h)
             \/ MarkCompleted(h) \/ MarkFailed(h) \/ ResetForRetry(h) \/ HandlerStops(h)
      PROVE  paidAt = TRUE => paidAt' = TRUE
  BY <1>3 DEF ProviderNotifies, VerifyOrderByOutTradeNo, ReconcilePendingOrders, CancelOrder,
           ExpireTimedOutOrders, RetryFulfillment, QueryOrder, CloseUpstream, CancelRow,
           PersistTradeNo, ConfirmPayment, AlreadyProcessed, LoadForFulfillment,
           LockForFulfillment, LookupCode, CreateCode, RedeemCode, CheckAssigned,
           AssignSubscription, LogAssigned, ApplyAffiliateRebate, MarkCompleted, MarkFailed,
           ResetForRetry, HandlerStops, Start, CanRetry, SetStatus, UseCode, ClaimRebate,
           SuccessAction
<1> QED BY <1>1, <1>2, <1>3, Zenon
    DEF Next, CreatorStep, HandlerStep

\* No step takes a credit or an audit entry back.
LEMMA LedgerGrows ==
    ASSUME Next
    PROVE  (credits' = credits \/ credits' = credits + 1) /\ audit \subseteq audit'
<1> USE DEF ledger
<1>1. CASE \/ CreatePayment \/ SaveDetails \/ MarkCreateFailed \/ CreatorStops \/ UserPays
           \/ OrderBecomesDue \/ GraceElapses \/ ProviderUnresolved
  BY <1>1 DEF CreatePayment, SaveDetails, MarkCreateFailed, CreatorStops, UserPays,
              OrderBecomesDue, GraceElapses, ProviderUnresolved
<1>2. ASSUME NEW h \in Handlers,
             \/ ProviderNotifies(h) \/ VerifyOrderByOutTradeNo(h)
             \/ ReconcilePendingOrders(h) \/ CancelOrder(h) \/ ExpireTimedOutOrders(h)
             \/ RetryFulfillment(h) \/ QueryOrder(h) \/ CloseUpstream(h) \/ CancelRow(h)
             \/ PersistTradeNo(h) \/ ConfirmPayment(h) \/ ToPaid(h) \/ AlreadyProcessed(h)
             \/ LoadForFulfillment(h) \/ LockForFulfillment(h) \/ LookupCode(h)
             \/ CreateCode(h) \/ RedeemCode(h) \/ CheckAssigned(h)
             \/ AssignSubscription(h) \/ LogAssigned(h)
             \/ MarkFailed(h) \/ ResetForRetry(h) \/ HandlerStops(h)
      PROVE  (credits' = credits \/ credits' = credits + 1) /\ audit \subseteq audit'
  BY <1>2 DEF ProviderNotifies, VerifyOrderByOutTradeNo, ReconcilePendingOrders,
       CancelOrder, ExpireTimedOutOrders, RetryFulfillment, QueryOrder, CloseUpstream,
       CancelRow, PersistTradeNo, ConfirmPayment, ToPaid, MarkPaid, AlreadyProcessed,
       LoadForFulfillment, LockForFulfillment, LookupCode, CreateCode, RedeemCode, UseCode,
       CheckAssigned, AssignSubscription, LogAssigned,
       MarkFailed, ResetForRetry, HandlerStops
<1>3. ASSUME NEW h \in Handlers, ApplyAffiliateRebate(h) \/ MarkCompleted(h)
      PROVE  credits' = credits /\ audit \subseteq audit'
  BY <1>3 DEF ApplyAffiliateRebate, ClaimRebate, MarkCompleted
<1> QED BY <1>1, <1>2, <1>3, Zenon DEF Next, CreatorStep, HandlerStep

\* A handler on its way to fulfilment holds a paid order, after every step.
LEMMA WorkIsPaidStep ==
    ASSUME TypeOK, IInv, Accounted, Next, NEW g \in Handlers,
           pc'[g] \in {"reset", "load", "lock"} \union FulfilSteps
    PROVE  paidAt' = TRUE
<1> pc \in [Handlers -> Steps]
  BY DEF TypeOK
<1> USE DEF FulfilSteps, row, ledger, provider, handlers, Goto, ReturnNil, ReturnErr, Leave, Start
<1>1. CASE pc[g] \in {"reset", "load", "lock"} \union FulfilSteps
  BY <1>1, PaidAtStays DEF Accounted
<1>2. CASE pc[g] \notin {"reset", "load", "lock"} \union FulfilSteps
  <2>1. \/ ToPaid(g) \/ AlreadyProcessed(g) \/ RetryFulfillment(g)
    <3>1. ~(\/ CreatePayment \/ SaveDetails \/ MarkCreateFailed \/ CreatorStops \/ UserPays
            \/ OrderBecomesDue \/ GraceElapses \/ ProviderUnresolved)
      BY <1>2 DEF CreatePayment, SaveDetails, MarkCreateFailed, CreatorStops, UserPays,
                  OrderBecomesDue, GraceElapses, ProviderUnresolved
    <3>2. ASSUME NEW h \in Handlers,
                 \/ ProviderNotifies(h) \/ VerifyOrderByOutTradeNo(h)
                 \/ ReconcilePendingOrders(h) \/ CancelOrder(h) \/ ExpireTimedOutOrders(h)
                 \/ QueryOrder(h) \/ CloseUpstream(h) \/ CancelRow(h)
                 \/ PersistTradeNo(h) \/ ConfirmPayment(h) \/ HandlerStops(h)
          PROVE  FALSE
      BY <1>2, <3>2 DEF ProviderNotifies, VerifyOrderByOutTradeNo, ReconcilePendingOrders,
           CancelOrder, ExpireTimedOutOrders, QueryOrder, CloseUpstream, CancelRow,
           PersistTradeNo, ConfirmPayment, HandlerStops
    <3>3. ASSUME NEW h \in Handlers,
                 \/ LoadForFulfillment(h) \/ LockForFulfillment(h) \/ LookupCode(h)
                 \/ CreateCode(h) \/ RedeemCode(h) \/ CheckAssigned(h)
                 \/ AssignSubscription(h) \/ LogAssigned(h) \/ ApplyAffiliateRebate(h)
                 \/ MarkCompleted(h) \/ MarkFailed(h) \/ ResetForRetry(h)
          PROVE  FALSE
      BY <1>2, <3>3 DEF LoadForFulfillment, LockForFulfillment, LookupCode, CreateCode,
           RedeemCode, CheckAssigned, AssignSubscription, LogAssigned, ApplyAffiliateRebate,
           MarkCompleted, MarkFailed, ResetForRetry
    <3>4. ASSUME NEW h \in Handlers, ToPaid(h) \/ AlreadyProcessed(h) \/ RetryFulfillment(h)
          PROVE  h = g
      BY <1>2, <3>4 DEF ToPaid, AlreadyProcessed, RetryFulfillment
    <3> QED BY <3>1, <3>2, <3>3, <3>4, Zenon DEF Next, CreatorStep, HandlerStep
  <2>2. CASE ToPaid(g)
    BY <1>2, <2>2 DEF ToPaid, MarkPaid
  <2>3. CASE AlreadyProcessed(g)
    <3>1. status = "FAILED" /\ paidAt' = paidAt
      BY <1>2, <2>3 DEF AlreadyProcessed
    <3>2. creator = "done"
      BY <2>3 DEF AlreadyProcessed, IInv, PaidFirst, PaidSteps
    <3> QED BY <3>1, <3>2 DEF IInv, PaidStatus
  <2>4. CASE RetryFulfillment(g)
    BY <2>4, Zenon DEF RetryFulfillment, CanRetry, TypeOK
  <2> QED BY <2>1, <2>2, <2>3, <2>4
<1> QED BY <1>1, <1>2

\* A row that was found not payable does not become pending or cancelled.
LEMMA NotPayableStep ==
    ASSUME TypeOK, IInv, Accounted, Next, NEW g \in Handlers, pc'[g] = "already"
    PROVE  status' \notin {"PENDING", "CANCELLED"}
<1> pc \in [Handlers -> Steps] /\ code \in {"absent", "unused", "used"}
  BY DEF TypeOK
<1> USE DEF row, ledger, provider, handlers, Goto, ReturnNil, ReturnErr, Leave, Start, SetStatus
<1>1. CASE pc[g] = "already"
  <2>1. status \notin {"PENDING", "CANCELLED"}
    BY <1>1 DEF Accounted
  <2>2. CASE \/ CreatePayment \/ SaveDetails \/ MarkCreateFailed \/ CreatorStops \/ UserPays
             \/ OrderBecomesDue \/ GraceElapses \/ ProviderUnresolved
    BY <2>1, <2>2 DEF CreatePayment, SaveDetails, MarkCreateFailed, CreatorStops, UserPays,
                      OrderBecomesDue, GraceElapses, ProviderUnresolved
  <2>3. ASSUME NEW h \in Handlers,
               \/ ProviderNotifies(h) \/ VerifyOrderByOutTradeNo(h)
               \/ ReconcilePendingOrders(h) \/ CancelOrder(h) \/ ExpireTimedOutOrders(h)
               \/ RetryFulfillment(h) \/ QueryOrder(h) \/ CloseUpstream(h) \/ CancelRow(h)
               \/ PersistTradeNo(h) \/ ConfirmPayment(h) \/ ToPaid(h) \/ AlreadyProcessed(h)
               \/ LoadForFulfillment(h) \/ LockForFulfillment(h) \/ LookupCode(h)
               \/ CreateCode(h) \/ RedeemCode(h) \/ CheckAssigned(h)
               \/ AssignSubscription(h) \/ LogAssigned(h) \/ ApplyAffiliateRebate(h)
               \/ MarkCompleted(h) \/ MarkFailed(h) \/ ResetForRetry(h) \/ HandlerStops(h)
        PROVE  status' \notin {"PENDING", "CANCELLED"}
    BY <2>1, <2>3 DEF ProviderNotifies, VerifyOrderByOutTradeNo, ReconcilePendingOrders,
           CancelOrder, ExpireTimedOutOrders, RetryFulfillment, QueryOrder, CloseUpstream,
           CancelRow, PersistTradeNo, ConfirmPayment, ToPaid, MarkPaid, AlreadyProcessed,
           LoadForFulfillment, LockForFulfillment, LookupCode, CreateCode, RedeemCode,
           CheckAssigned, AssignSubscription, LogAssigned, ApplyAffiliateRebate, MarkCompleted,
           MarkFailed, ResetForRetry, HandlerStops
  <2> QED BY <2>2, <2>3, Zenon DEF Next, CreatorStep, HandlerStep
<1>2. CASE pc[g] # "already"
  <2>1. ASSUME ToPaid(g) PROVE status' \notin {"PENDING", "CANCELLED"}
    BY <1>2, <2>1 DEF ToPaid, Payable
  <2>2. CASE \/ CreatePayment \/ SaveDetails \/ MarkCreateFailed \/ CreatorStops \/ UserPays
             \/ OrderBecomesDue \/ GraceElapses \/ ProviderUnresolved
    BY <1>2, <2>2 DEF CreatePayment, SaveDetails, MarkCreateFailed, CreatorStops, UserPays,
                      OrderBecomesDue, GraceElapses, ProviderUnresolved
  <2>3. ASSUME NEW h \in Handlers, ToPaid(h) PROVE h = g
    BY <1>2, <2>3 DEF ToPaid
  <2>4. ASSUME NEW h \in Handlers,
               \/ ProviderNotifies(h) \/ VerifyOrderByOutTradeNo(h)
               \/ ReconcilePendingOrders(h) \/ CancelOrder(h) \/ ExpireTimedOutOrders(h)
               \/ RetryFulfillment(h) \/ QueryOrder(h) \/ CloseUpstream(h) \/ CancelRow(h)
               \/ PersistTradeNo(h) \/ ConfirmPayment(h) \/ AlreadyProcessed(h)
               \/ LoadForFulfillment(h) \/ LockForFulfillment(h) \/ LookupCode(h)
               \/ CreateCode(h) \/ RedeemCode(h) \/ CheckAssigned(h)
               \/ AssignSubscription(h) \/ LogAssigned(h) \/ ApplyAffiliateRebate(h)
               \/ MarkCompleted(h) \/ MarkFailed(h) \/ ResetForRetry(h) \/ HandlerStops(h)
        PROVE  FALSE
    BY <1>2, <2>4 DEF ProviderNotifies, VerifyOrderByOutTradeNo, ReconcilePendingOrders,
           CancelOrder, ExpireTimedOutOrders, RetryFulfillment, QueryOrder, CloseUpstream,
           CancelRow, PersistTradeNo, ConfirmPayment, AlreadyProcessed,
           LoadForFulfillment, LockForFulfillment, LookupCode, CreateCode, RedeemCode,
           CheckAssigned, AssignSubscription, LogAssigned, ApplyAffiliateRebate, MarkCompleted,
           MarkFailed, ResetForRetry, HandlerStops
  <2> QED BY <2>1, <2>2, <2>3, <2>4, Zenon DEF Next, CreatorStep, HandlerStep
<1> QED BY <1>1, <1>2

\* A RECHARGING row keeps, or gets, a handler that will complete or fail it.
LEMMA HeldRowStep ==
    ASSUME RecoverableOnly, TypeOK, IInv, Accounted, Next, status' = "RECHARGING"
    PROVE  \E g \in Handlers : pc'[g] \in FulfilSteps
<1> pc \in [Handlers -> Steps]
  BY DEF TypeOK
<1> USE DEF FulfilSteps, row, ledger, provider, handlers, Goto, ReturnNil, ReturnErr, Leave, Start,
            SetStatus
<1>1. CASE \/ CreatePayment \/ SaveDetails \/ MarkCreateFailed \/ CreatorStops \/ UserPays
          \/ OrderBecomesDue \/ GraceElapses \/ ProviderUnresolved
  BY <1>1 DEF CreatePayment, SaveDetails, MarkCreateFailed, CreatorStops, UserPays,
              OrderBecomesDue, GraceElapses, ProviderUnresolved, Accounted
<1>2. ASSUME NEW h \in Handlers,
             \/ ProviderNotifies(h) \/ VerifyOrderByOutTradeNo(h)
             \/ ReconcilePendingOrders(h) \/ CancelOrder(h) \/ ExpireTimedOutOrders(h)
             \/ RetryFulfillment(h) \/ QueryOrder(h) \/ CloseUpstream(h) \/ CancelRow(h)
             \/ PersistTradeNo(h) \/ ConfirmPayment(h) \/ ToPaid(h) \/ AlreadyProcessed(h)
             \/ LoadForFulfillment(h) \/ ResetForRetry(h)
      PROVE  \E g \in Handlers : pc'[g] \in FulfilSteps
  <2>1. pc[h] \notin FulfilSteps /\ status = "RECHARGING" /\ \A g \in Handlers \ {h} : pc'[g] = pc[g]
    BY <1>2 DEF ProviderNotifies, VerifyOrderByOutTradeNo, ReconcilePendingOrders,
           CancelOrder, ExpireTimedOutOrders, RetryFulfillment, QueryOrder, CloseUpstream,
           CancelRow, PersistTradeNo, ConfirmPayment, ToPaid, MarkPaid, AlreadyProcessed,
           LoadForFulfillment, ResetForRetry
  <2>2. PICK g \in Handlers : pc[g] \in FulfilSteps
    BY <2>1, Zenon DEF Accounted
  <2> QED BY <2>1, <2>2
<1>3. ASSUME NEW h \in Handlers, LockForFulfillment(h)
      PROVE  \E g \in Handlers : pc'[g] \in FulfilSteps
  <2>1. CASE status = "RECHARGING"
    <3>1. PICK g \in Handlers : pc[g] \in FulfilSteps
      BY <2>1, Zenon DEF Accounted
    <3> QED BY <1>3, <3>1 DEF LockForFulfillment
  <2>2. CASE status # "RECHARGING"
    <3>1. pc'[h] \in FulfilSteps
      BY <1>3, <2>2 DEF LockForFulfillment, RecoverableOnly, Lost
    <3> QED BY <3>1
  <2> QED BY <2>1, <2>2
<1>4. ASSUME NEW h \in Handlers,
             \/ LookupCode(h) \/ CreateCode(h) \/ RedeemCode(h) \/ CheckAssigned(h)
             \/ AssignSubscription(h) \/ LogAssigned(h) \/ ApplyAffiliateRebate(h)
      PROVE  \E g \in Handlers : pc'[g] \in FulfilSteps
  <2>1. pc'[h] \in FulfilSteps
    <3>1. code \in {"absent", "unused", "used"}
      BY DEF TypeOK
    <3> QED BY <1>4, <3>1 DEF LookupCode, CreateCode, RedeemCode, CheckAssigned,
           AssignSubscription, LogAssigned, ApplyAffiliateRebate
  <2> QED BY <2>1
<1>5. ASSUME NEW h \in Handlers, MarkCompleted(h)
      PROVE  \E g \in Handlers : pc'[g] \in FulfilSteps
  <2>1. pc'[h] \in FulfilSteps
    BY <1>5 DEF MarkCompleted, IInv, OneFulfiller, Fulfilling
  <2> QED BY <2>1
<1>6. ASSUME NEW h \in Handlers, MarkFailed(h) \/ HandlerStops(h) PROVE FALSE
  BY <1>6 DEF MarkFailed, HandlerStops, RecoverableOnly, Fault
<1> QED BY <1>1, <1>2, <1>3, <1>4, <1>5, <1>6, Zenon DEF Next, CreatorStep, HandlerStep

\* A webhook is answered 2xx only for a payment that is credited, on record as
\* paid after expiry, or paid.
LEMMA AckedStep ==
    ASSUME RecoverableOnly, TypeOK, TypeOK', IInv, Accounted, Next, acked' = TRUE
    PROVE  credits' > 0 \/ Recorded' \/ paidAt' = TRUE
<1> DEFINE Fine == credits' > 0 \/ Recorded' \/ paidAt' = TRUE
<1> credits \in Nat /\ pc \in [Handlers -> Steps]
  BY DEF TypeOK
<1>1. credits > 0 \/ Recorded \/ paidAt = TRUE => Fine
  <2>1. paidAt = TRUE => paidAt' = TRUE
    BY PaidAtStays
  <2>2. (credits' = credits \/ credits' = credits + 1) /\ audit \subseteq audit'
    BY LedgerGrows
  <2>3. credits > 0 => credits' > 0
    BY <2>2
  <2> QED BY <2>1, <2>2, <2>3 DEF Recorded
<1>2. CASE acked = TRUE
  BY <1>1, <1>2 DEF Accounted
<1>3. CASE acked # TRUE
  <2>1. PICK h \in Handlers : /\ Ack(h)
                              /\ QueryOrder(h) \/ CancelRow(h) \/ ConfirmPayment(h)
                                 \/ AlreadyProcessed(h) \/ LoadForFulfillment(h)
                                 \/ LockForFulfillment(h) \/ MarkCompleted(h)
    <3>1. acked' # acked
      BY <1>3
    <3> HIDE <1>1, <1>3
    <3> USE DEF handlers, Goto, ReturnNil, ReturnErr, Start
    <3>2. CASE \/ CreatePayment \/ SaveDetails \/ MarkCreateFailed \/ CreatorStops \/ UserPays
               \/ OrderBecomesDue \/ GraceElapses \/ ProviderUnresolved
      BY <3>1, <3>2 DEF CreatePayment, SaveDetails, MarkCreateFailed, CreatorStops, UserPays,
                        OrderBecomesDue, GraceElapses, ProviderUnresolved, RecoverableOnly, Fault
    <3>3. ASSUME NEW h \in Handlers,
                 \/ ProviderNotifies(h) \/ VerifyOrderByOutTradeNo(h)
                 \/ ReconcilePendingOrders(h) \/ CancelOrder(h) \/ ExpireTimedOutOrders(h)
                 \/ RetryFulfillment(h) \/ CloseUpstream(h)
                 \/ PersistTradeNo(h) \/ ToPaid(h) \/ LookupCode(h)
                 \/ CreateCode(h) \/ RedeemCode(h) \/ CheckAssigned(h)
                 \/ AssignSubscription(h) \/ LogAssigned(h) \/ ApplyAffiliateRebate(h)
                 \/ MarkFailed(h) \/ ResetForRetry(h) \/ HandlerStops(h)
          PROVE  FALSE
      BY <3>1, <3>3, Zenon DEF ProviderNotifies, VerifyOrderByOutTradeNo, ReconcilePendingOrders,
           CancelOrder, ExpireTimedOutOrders, RetryFulfillment, CloseUpstream,
           PersistTradeNo, ToPaid, LookupCode, CreateCode, RedeemCode,
           CheckAssigned, AssignSubscription, LogAssigned, ApplyAffiliateRebate,
           MarkFailed, ResetForRetry, HandlerStops
    <3>4. ASSUME NEW h \in Handlers,
                 \/ QueryOrder(h) \/ CancelRow(h) \/ ConfirmPayment(h) \/ AlreadyProcessed(h)
                 \/ LoadForFulfillment(h) \/ LockForFulfillment(h) \/ MarkCompleted(h)
          PROVE  Ack(h)
      BY <3>1, <3>4, Zenon DEF QueryOrder, CancelRow, ConfirmPayment, AlreadyProcessed,
           LoadForFulfillment, LockForFulfillment, MarkCompleted
    <3> QED BY <3>2, <3>3, <3>4, Zenon DEF Next, CreatorStep, HandlerStep
  <2>2. kind[h] = "webhook"
    BY <1>3, <2>1, Zenon DEF Ack, TypeOK
  <2>3. ~QueryOrder(h) /\ ~CancelRow(h)
    BY <2>2 DEF Accounted, QueryOrder, CancelRow
  <2>4. ~ConfirmPayment(h)
    <3>1. acked' # acked
      BY <1>3
    <3> QED BY <3>1, Zenon DEF ConfirmPayment, RecoverableOnly, Fault, Goto, ReturnErr
  <2>5. CASE AlreadyProcessed(h)
    <3>1. /\ pc[h] = "already"
          /\ audit' = audit \union (IF status = "EXPIRED" THEN {"PAYMENT_AFTER_EXPIRY"} ELSE {})
          /\ UNCHANGED paidAt
      BY <2>5 DEF AlreadyProcessed, RecoverableOnly, Fault, row
    <3>2. status \notin {"PENDING", "CANCELLED"}
      BY <3>1 DEF Accounted
    <3>3. CASE status = "EXPIRED"
      BY <3>1, <3>3 DEF Recorded
    <3>4. CASE status # "EXPIRED"
      <4>1. creator = "done"
        BY <3>1 DEF IInv, PaidFirst, PaidSteps
      <4>2. paidAt = TRUE
        BY <3>2, <3>4, <4>1 DEF IInv, PaidStatus, Unpaid
      <4> QED BY <1>1, <4>2
    <3> QED BY <3>3, <3>4
  <2>6. CASE LoadForFulfillment(h) \/ LockForFulfillment(h) \/ MarkCompleted(h)
    <3>1. pc[h] \in {"reset", "load", "lock"} \union FulfilSteps
      BY <2>6 DEF LoadForFulfillment, LockForFulfillment, MarkCompleted, FulfilSteps
    <3> QED BY <1>1, <3>1 DEF Accounted
  <2> QED BY <2>1, <2>3, <2>4, <2>5, <2>6
<1> QED BY <1>2, <1>3

\* Only cancellation, expiry and verification ask the provider.
LEMMA QueryKindStep ==
    ASSUME TypeOK, Accounted, Next, NEW g \in Handlers, pc'[g] \in {"query", "close", "cas"}
    PROVE  kind'[g] # "webhook"
<1> pc \in [Handlers -> Steps] /\ kind \in [Handlers -> Kinds]
  BY DEF TypeOK
<1> USE DEF row, ledger, provider, handlers, Goto, ReturnNil, ReturnErr, Leave, Start, Accounted
<1>1. CASE \/ CreatePayment \/ SaveDetails \/ MarkCreateFailed \/ CreatorStops \/ UserPays
          \/ OrderBecomesDue \/ GraceElapses \/ ProviderUnresolved
  BY <1>1 DEF CreatePayment, SaveDetails, MarkCreateFailed, CreatorStops, UserPays,
              OrderBecomesDue, GraceElapses, ProviderUnresolved
<1>2. ASSUME NEW h \in Handlers,
             \/ ProviderNotifies(h) \/ VerifyOrderByOutTradeNo(h)
             \/ ReconcilePendingOrders(h) \/ CancelOrder(h) \/ ExpireTimedOutOrders(h)
             \/ RetryFulfillment(h)
      PROVE  kind'[g] # "webhook"
  BY <1>2 DEF ProviderNotifies, VerifyOrderByOutTradeNo, ReconcilePendingOrders,
           CancelOrder, ExpireTimedOutOrders, RetryFulfillment
<1>3. ASSUME NEW h \in Handlers,
             \/ QueryOrder(h) \/ CloseUpstream(h) \/ CancelRow(h)
             \/ PersistTradeNo(h) \/ ConfirmPayment(h) \/ ToPaid(h) \/ AlreadyProcessed(h)
             \/ LoadForFulfillment(h) \/ LockForFulfillment(h) \/ LookupCode(h)
             \/ CreateCode(h) \/ RedeemCode(h) \/ CheckAssigned(h)
             \/ AssignSubscription(h) \/ LogAssigned(h) \/ ApplyAffiliateRebate(h)
             \/ MarkCompleted(h) \/ MarkFailed(h) \/ ResetForRetry(h) \/ HandlerStops(h)
      PROVE  kind'[g] # "webhook"
  <2>1. code \in {"absent", "unused", "used"}
    BY DEF TypeOK
  <2> QED BY <1>3, <2>1 DEF QueryOrder, CloseUpstream,
           CancelRow, PersistTradeNo, ConfirmPayment, ToPaid, AlreadyProcessed,
           LoadForFulfillment, LockForFulfillment, LookupCode, CreateCode, RedeemCode,
           CheckAssigned, AssignSubscription, LogAssigned, ApplyAffiliateRebate, MarkCompleted,
           MarkFailed, ResetForRetry, HandlerStops
<1> QED BY <1>1, <1>2, <1>3, Zenon DEF Next, CreatorStep, HandlerStep

\* A payment whose webhook was answered 2xx is not lost, as long as the faults
\* are recoverable ones: once no handler works on the order it is credited, on
\* record as paid after expiry, or in a status RetryFulfillment accepts.
THEOREM AnsweredPaymentsAreAccounted ==
    ASSUME RecoverableOnly
    PROVE  Spec => []AckedIsAccounted
<1>1. Init => Accounted
  <2> SUFFICES ASSUME Init PROVE Accounted
    OBVIOUS
  <2>1. acked # TRUE
    BY DEF Init
  <2> QED BY <2>1 DEF Init, Accounted, FulfilSteps
<1>2. TypeOK /\ TypeOK' /\ IInv /\ Accounted /\ [Next]_vars => Accounted'
  <2>1. Accounted /\ UNCHANGED vars => Accounted'
    BY DEF vars, row, ledger, handlers, Accounted, Recorded
  <2>2. ASSUME TypeOK, TypeOK', IInv, Accounted, Next PROVE Accounted'
    <3>1. \A h \in Handlers : pc'[h] \in {"reset", "load", "lock"} \union FulfilSteps => paidAt' = TRUE
      BY <2>2, WorkIsPaidStep
    <3>2. \A h \in Handlers : pc'[h] = "already" => status' \notin {"PENDING", "CANCELLED"}
      BY <2>2, NotPayableStep
    <3>3. status' = "RECHARGING" => \E h \in Handlers : pc'[h] \in FulfilSteps
      BY <2>2, HeldRowStep
    <3>4. acked' = TRUE => credits' > 0 \/ Recorded' \/ paidAt' = TRUE
      BY <2>2, AckedStep
    <3>5. \A h \in Handlers : pc'[h] \in {"query", "close", "cas"} => kind'[h] # "webhook"
      BY <2>2, QueryKindStep
    <3> QED BY <3>1, <3>2, <3>3, <3>4, <3>5 DEF Accounted
  <2> QED BY <2>1, <2>2
<1>3. TypeOK /\ IInv /\ Accounted => AckedIsAccounted
  <2> SUFFICES ASSUME TypeOK, IInv, Accounted, acked = TRUE, AtRest,
                      ~(credits > 0), ~Recorded
               PROVE  CanRetry
    BY Zenon DEF AckedIsAccounted, TypeOK
  <2>1. paidAt = TRUE
    BY DEF Accounted
  <2>2. status \notin Unpaid
    BY <2>1 DEF IInv, PaidStatus
  <2>3. status # "RECHARGING"
    BY DEF Accounted, AtRest
  <2>4. status \notin Fulfilled
    BY DEF IInv, CreditFirst, CompletedIsCredited
  <2>5. status \in {"FAILED", "PAID"}
    BY <2>2, <2>3, <2>4 DEF TypeOK, Statuses, Unpaid, Fulfilled, RefundStatuses
  <2> QED BY <2>1, <2>5, Zenon DEF CanRetry
<1> QED BY <1>1, <1>2, <1>3, TypeCorrect, Invariance, PTL DEF Spec

----------------------------------------------------------------------------
(* What a step may never do, and refinement                                *)

\* A paid order is never again pending, cancelled or expired: neither
\* cancelCore nor the expiry job overwrites a payment they raced with.
THEOREM PaymentIsNeverForgotten == Spec => PaidNeverForgotten
<1>1. TypeOK /\ IInv /\ IInv' /\ [Next]_vars
      => [paidAt => paidAt' /\ status' \notin {"PENDING", "CANCELLED", "EXPIRED"}]_vars
  <2> SUFFICES ASSUME TypeOK, IInv, IInv', Next, paidAt = TRUE
               PROVE  paidAt' = TRUE /\ status' \notin {"PENDING", "CANCELLED", "EXPIRED"}
    BY Zenon DEF TypeOK
  <2>1. paidAt' = TRUE
    BY PaidAtStays
  <2> QED BY <2>1, Zenon DEF IInv, PaidStatus, Unpaid
<1> QED BY <1>1, TypeCorrect, Invariance, PTL DEF Spec, PaidNeverForgotten

\* A fulfilled order keeps its status: no late failure, cancellation or retry
\* of the order itself takes it back.
LEMMA FulfilledStays ==
    ASSUME TypeOK, IInv, Next
    PROVE  status \in Fulfilled => status' = status
<1> USE DEF IInv, PaidFirst, PaidStatus, Unpaid, PaidSteps, FulfilSteps, Fulfilled, RefundStatuses, row
<1>1. CASE MarkCreateFailed
  BY <1>1 DEF MarkCreateFailed, SetStatus
<1>2. CASE \/ CreatePayment \/ SaveDetails \/ CreatorStops \/ UserPays \/ OrderBecomesDue
          \/ GraceElapses \/ ProviderUnresolved
  BY <1>2 DEF CreatePayment, SaveDetails, CreatorStops, UserPays, OrderBecomesDue, GraceElapses, ProviderUnresolved
<1>3. ASSUME NEW h \in Handlers, CancelRow(h) PROVE status \in Fulfilled => status' = status
  BY <1>3 DEF CancelRow, SetStatus
<1>4. ASSUME NEW h \in Handlers, ToPaid(h) PROVE status \in Fulfilled => status' = status
  BY <1>4 DEF ToPaid, MarkPaid, Payable
<1>5. ASSUME NEW h \in Handlers, LockForFulfillment(h) PROVE status \in Fulfilled => status' = status
  BY <1>5 DEF LockForFulfillment, SetStatus
<1>6. ASSUME NEW h \in Handlers, MarkCompleted(h) PROVE status \in Fulfilled => status' = status
  BY <1>6 DEF MarkCompleted, SuccessAction, SetStatus
<1>7. ASSUME NEW h \in Handlers, MarkFailed(h) PROVE status \in Fulfilled => status' = status
  BY <1>7 DEF MarkFailed, SetStatus
<1>8. ASSUME NEW h \in Handlers, ResetForRetry(h) PROVE status \in Fulfilled => status' = status
  BY <1>8 DEF ResetForRetry, SetStatus
<1>9. ASSUME NEW h \in Handlers,
             \/ ProviderNotifies(h) \/ VerifyOrderByOutTradeNo(h)
             \/ ReconcilePendingOrders(h) \/ CancelOrder(h) \/ ExpireTimedOutOrders(h)
             \/ RetryFulfillment(h) \/ QueryOrder(h) \/ CloseUpstream(h)
             \/ PersistTradeNo(h) \/ ConfirmPayment(h) \/ AlreadyProcessed(h)
             \/ LoadForFulfillment(h) \/ LookupCode(h) \/ CreateCode(h) \/ RedeemCode(h)
             \/ CheckAssigned(h) \/ AssignSubscription(h) \/ LogAssigned(h)
             \/ ApplyAffiliateRebate(h) \/ HandlerStops(h)
      PROVE  status \in Fulfilled => status' = status
  BY <1>9 DEF ProviderNotifies, VerifyOrderByOutTradeNo, ReconcilePendingOrders, CancelOrder,
           ExpireTimedOutOrders, RetryFulfillment, QueryOrder, CloseUpstream, PersistTradeNo,
           ConfirmPayment, AlreadyProcessed, LoadForFulfillment, LookupCode, CreateCode,
           RedeemCode, CheckAssigned, AssignSubscription, LogAssigned, ApplyAffiliateRebate,
           HandlerStops, Start, CanRetry, UseCode, ClaimRebate
<1> QED BY <1>1, <1>2, <1>3, <1>4, <1>5, <1>6, <1>7, <1>8, <1>9, Zenon
    DEF Next, CreatorStep, HandlerStep

\* COMPLETED is left only towards a refund (markFailed's guard).
THEOREM CompletionIsFinal == Spec => CompletedIsFinal
<1>1. TypeOK /\ IInv /\ [Next]_vars => [(status \in Fulfilled) => (status' \in Fulfilled)]_vars
  BY FulfilledStays
<1> QED BY <1>1, TypeCorrect, Invariance, PTL DEF Spec, CompletedIsFinal

\* PaidView, credits and DoneView are what OrderPromise sees of the order.
PaidView == upstream = "paid"
DoneView == status \in Fulfilled

\* What a step may do to that view: nothing, a payment, a credit, a completion
ViewStutters  == UNCHANGED credits /\ (PaidView' <=> PaidView) /\ (DoneView' <=> DoneView)
ViewPays      == ~PaidView /\ PaidView' /\ UNCHANGED credits /\ (DoneView' <=> DoneView)
ViewCredits   == PaidView /\ credits = 0 /\ credits' = 1 /\ PaidView' /\ (DoneView' <=> DoneView)
ViewCompletes == credits = 1 /\ ~DoneView /\ DoneView' /\ UNCHANGED credits /\ (PaidView' <=> PaidView)
ViewStep      == ViewStutters \/ ViewPays \/ ViewCredits \/ ViewCompletes

\* Every step of a balance order changes that view as OrderPromise allows.
LEMMA BalanceViewStep ==
    ASSUME OrderType = "balance", TypeOK, IInv, Next
    PROVE  ViewStep
<1> credits \in Nat /\ code \in {"absent", "unused", "used"}
  BY DEF TypeOK
<1> USE DEF IInv, PaidFirst, PaidStatus, Unpaid, PaidSteps, FulfilSteps, CreditFirst, CodeIsCredit,
            Fulfilled, RefundStatuses, row, ledger, provider, ViewStep, ViewStutters, PaidView, DoneView
<1>1. CASE MarkCreateFailed
  BY <1>1 DEF MarkCreateFailed, SetStatus
<1>2. CASE UserPays
  BY <1>2 DEF UserPays, ViewPays
<1>3. CASE \/ CreatePayment \/ SaveDetails \/ CreatorStops \/ OrderBecomesDue
          \/ GraceElapses \/ ProviderUnresolved
  BY <1>3 DEF CreatePayment, SaveDetails, CreatorStops, OrderBecomesDue, GraceElapses, ProviderUnresolved
<1>4. ASSUME NEW h \in Handlers, CloseUpstream(h) PROVE ViewStep
  BY <1>4 DEF CloseUpstream
<1>5. ASSUME NEW h \in Handlers, CancelRow(h) PROVE ViewStep
  BY <1>5 DEF CancelRow, SetStatus
<1>6. ASSUME NEW h \in Handlers, ToPaid(h) PROVE ViewStep
  BY <1>6 DEF ToPaid, MarkPaid, Payable
<1>7. ASSUME NEW h \in Handlers, LockForFulfillment(h) PROVE ViewStep
  BY <1>7 DEF LockForFulfillment, SetStatus
<1>8. ASSUME NEW h \in Handlers, RedeemCode(h) PROVE ViewStep
  BY <1>8 DEF RedeemCode, UseCode, ViewCredits
<1>9. ASSUME NEW h \in Handlers, AssignSubscription(h) PROVE ViewStep
  BY <1>9 DEF AssignSubscription
<1>10. ASSUME NEW h \in Handlers, MarkCompleted(h) PROVE ViewStep
  BY <1>10 DEF MarkCompleted, SetStatus, ViewCompletes
<1>11. ASSUME NEW h \in Handlers, MarkFailed(h) PROVE ViewStep
  BY <1>11 DEF MarkFailed, SetStatus
<1>12. ASSUME NEW h \in Handlers, ResetForRetry(h) PROVE ViewStep
  BY <1>12 DEF ResetForRetry, SetStatus
<1>13. ASSUME NEW h \in Handlers,
             \/ ProviderNotifies(h) \/ VerifyOrderByOutTradeNo(h)
             \/ ReconcilePendingOrders(h) \/ CancelOrder(h) \/ ExpireTimedOutOrders(h)
             \/ RetryFulfillment(h) \/ QueryOrder(h) \/ PersistTradeNo(h)
             \/ ConfirmPayment(h) \/ AlreadyProcessed(h) \/ LoadForFulfillment(h)
             \/ LookupCode(h) \/ CreateCode(h) \/ CheckAssigned(h) \/ LogAssigned(h)
             \/ ApplyAffiliateRebate(h) \/ HandlerStops(h)
      PROVE  ViewStep
  BY <1>13 DEF ProviderNotifies, VerifyOrderByOutTradeNo, ReconcilePendingOrders, CancelOrder,
           ExpireTimedOutOrders, RetryFulfillment, QueryOrder, PersistTradeNo, ConfirmPayment,
           AlreadyProcessed, LoadForFulfillment, LookupCode, CreateCode, CheckAssigned,
           LogAssigned, ApplyAffiliateRebate, HandlerStops, Start, CanRetry, ClaimRebate
<1> QED BY <1>1, <1>2, <1>3, <1>4, <1>5, <1>6, <1>7, <1>8, <1>9, <1>10, <1>11, <1>12, <1>13, Zenon
    DEF Next, CreatorStep, HandlerStep

\* A balance order implements OrderPromise: the user is credited once, after
\* paying, and the order is shown as completed after the credit.
THEOREM BalanceOrderKeepsPromise ==
    ASSUME OrderType = "balance"
    PROVE  Spec => PromiseKept
<1>1. Init => Promise!Init
  BY DEF Init, Promise!Init, Fulfilled, RefundStatuses
<1>2. TypeOK /\ IInv /\ [Next]_vars
      => [Promise!Next]_<<upstream = "paid", credits, status \in Fulfilled>>
  <2> SUFFICES ASSUME TypeOK, IInv, [Next]_vars
               PROVE  [Promise!Next]_<<upstream = "paid", credits, status \in Fulfilled>>
    OBVIOUS
  <2>1. ViewStep
    <3>1. CASE UNCHANGED vars
      BY <3>1 DEF vars, row, ledger, provider, ViewStep, ViewStutters, PaidView, DoneView
    <3> QED BY <3>1, BalanceViewStep
  <2>2. ViewStutters => UNCHANGED <<upstream = "paid", credits, status \in Fulfilled>>
    BY DEF ViewStutters, PaidView, DoneView
  <2>3. ViewPays => Promise!Pay
    BY DEF ViewPays, Promise!Pay, PaidView, DoneView
  <2>4. ViewCredits => Promise!Credit
    BY DEF ViewCredits, Promise!Credit, PaidView, DoneView
  <2>5. ViewCompletes => Promise!Complete
    BY Zenon DEF ViewCompletes, Promise!Complete, PaidView, DoneView
  <2> QED BY <2>1, <2>2, <2>3, <2>4, <2>5, Zenon DEF ViewStep, Promise!Next
<1> QED BY <1>1, <1>2, TypeCorrect, Invariance, PTL DEF Spec, PromiseKept, Promise!Spec

----------------------------------------------------------------------------
(* Refunds: the inductive invariants                                       *)

\* A credit taken for a refund that did not happen is on record
Kept == held = 0 \/ RollbackFailed

\* The statements whose failure nothing in ExecuteRefund makes good: the audit
\* entry REFUND_ROLLBACK_FAILED and its lookup fail, or the answer of the
\* deduction or of the gateway's refund is lost.  The provider has its own
\* trade numbers, so the gateway is asked.
ReliableRefund ==
    /\ OrderType = "balance" /\ NotifyTradeNo = "upstream"
    /\ FaultAt \intersect {"marker", "flag"} = {}
    /\ LostAt \intersect {"deduct", "gateway"} = {}

\* A paid order has a trade number, and so has every plan made from one.
TradeNoIsKnown ==
    /\ paidAt = TRUE => tradeNo # "none"
    /\ \A a \in Admins : apc[a] # "idle" => plan[a].trade # "none" /\ plan[a].amt > 0

\* What the gateway agreed to give back and what the user was deducted, by status
StatusBooks ==
    /\ held \in 0 .. Amount /\ accepted \in 0 .. Amount /\ returned \in 0 .. accepted
    /\ status \notin Fulfilled => accepted = 0 /\ held = 0
    /\ status \in Refundable => accepted = 0 /\ Kept
    /\ status \in {"REFUNDED", "PARTIALLY_REFUNDED"} => accepted > 0

\* The same, by the step of the request that is past the lock
AdminBooks(a) ==
    /\ apc[a] \in LockedSteps \ {"markOk"} => accepted = 0
    /\ apc[a] = "markOk" => accepted > 0
    /\ apc[a] \in {"deduct", "restore"} => Kept
    /\ apc[a] \in {"gateway", "rollback"} => (plan[a].cut = 0 /\ Kept) \/ held = plan[a].cut
    /\ apc[a] = "markFailed" => RollbackFailed

RefundIInv == IInv /\ OneRefunder
BooksIInv  == TradeNoIsKnown /\ StatusBooks /\ \A a \in Admins : AdminBooks(a)

----------------------------------------------------------------------------
(* Refunds: type correctness                                               *)

\* What the refund's own variables hold
RefundValuesOK ==
    /\ wallet \in Int /\ held \in Int /\ accepted \in Nat /\ returned \in Nat
    /\ apc \in [Admins -> RefundSteps]
    /\ plan \in [Admins -> Plans]

\* Together with the order's they are the refund's type invariant.
LEMMA RefundTypeParts == RefundTypeOK <=> TypeOK /\ revoked \in BOOLEAN /\ RefundValuesOK
BY DEF RefundTypeOK, RefundValuesOK

\* The empty plan, and every plan prepDeduct makes, is a plan: it deducts
\* nothing negative, and no more than the amount.
LEMMA PlanType ==
    /\ NoPlan \in Plans
    /\ \A amt \in 1 .. Amount, r \in Refundable, t \in TradeNos, cut \in 0 .. Amount :
          [amt |-> amt, read |-> r, trade |-> t, cut |-> cut] \in Plans
    /\ wallet \in Int => \A amt \in 1 .. Amount : PlannedCut(amt) \in 0 .. Amount
<1>1. NoPlan \in Plans
  BY AmountAssumption DEF NoPlan, Plans, Refundable, TradeNos
<1>2. \A amt \in 1 .. Amount, r \in Refundable, t \in TradeNos, cut \in 0 .. Amount :
        [amt |-> amt, read |-> r, trade |-> t, cut |-> cut] \in Plans
  BY AmountAssumption DEF Plans
<1>3. wallet \in Int => \A amt \in 1 .. Amount : PlannedCut(amt) \in 0 .. Amount
  BY AmountAssumption DEF PlannedCut
<1> QED BY <1>1, <1>2, <1>3

\* The first state has the right type.
LEMMA RefundInitType == RefundInit => RefundTypeOK
<1> SUFFICES ASSUME RefundInit PROVE RefundTypeOK
  OBVIOUS
<1>1. TypeOK
  BY InitType DEF RefundInit
<1>2. revoked \in BOOLEAN
  BY Zenon DEF RefundInit
<1>3. RefundValuesOK
  BY PlanType, AmountAssumption DEF RefundInit, RefundValuesOK, RefundSteps
<1> QED BY <1>1, <1>2, <1>3, RefundTypeParts

\* The order's variables after a step of a refund: at most a status, the time
\* of the update, the marker and the fault count changed.
RefundFootprint ==
    /\ status' \in Statuses /\ UNCHANGED <<paidAt, tradeNo, due>>
    /\ fresh' = fresh \/ fresh' = TRUE
    /\ UNCHANGED <<code, credits, rebates, provider, handlers>>
    /\ audit' = audit \/ audit' = audit \union {"REFUND_ROLLBACK_FAILED"}
    /\ faults' = faults \/ Inject

\* A step of a refund changes no more than that of the order.
LEMMA AdminFootprint ==
    ASSUME TypeOK, NEW a \in Admins,
           \/ LockRefund(a) \/ DeductCredit(a) \/ GwRefund(a)
           \/ RollbackRefund(a) \/ FlagRollback(a) \/ RestoreStatus(a)
           \/ MarkRefundOk(a) \/ MarkRefundFailed(a) \/ AdminStops(a)
    PROVE  RefundFootprint
<1> status \in Statuses
  BY DEF TypeOK
<1> USE DEF RefundFootprint, row, orderRest, ledger, Fault, Lost, NoFault
<1>1. CASE LockRefund(a)
  BY <1>1 DEF LockRefund, SetStatus, Statuses
<1>2. CASE DeductCredit(a) \/ GwRefund(a)
  BY <1>2 DEF DeductCredit, GwRefund
<1>3. CASE RollbackRefund(a) \/ FlagRollback(a)
  BY <1>3 DEF RollbackRefund, FlagRollback
<1>4. CASE RestoreStatus(a) \/ MarkRefundOk(a) \/ MarkRefundFailed(a)
  BY <1>4 DEF RestoreStatus, MarkRefundOk, MarkRefundFailed, FinalUpdate, SetStatus, Statuses
<1>5. CASE AdminStops(a)
  BY <1>5 DEF AdminStops
<1> QED BY <1>1, <1>2, <1>3, <1>4, <1>5

\* Such a step keeps the order's variables in their types.
LEMMA FootprintType == TypeOK /\ RefundFootprint => TypeOK'
<1> SUFFICES ASSUME TypeOK, RefundFootprint PROVE TypeOK'
  OBVIOUS
<1>1. FlagsOK'
  BY Zenon DEF RefundFootprint, TypeOK, FlagsOK, handlers
<1>2. faults' \in 0 .. MaxFaults
  BY InjectType DEF RefundFootprint, TypeOK, ValuesOK
<1>3. audit' \subseteq AuditActions
  BY DEF RefundFootprint, TypeOK, AuditActions
<1>4. ValuesOK'
  BY <1>2, <1>3 DEF RefundFootprint, TypeOK, ValuesOK, provider, handlers
<1> QED BY <1>1, <1>4 DEF TypeOK, FlagsOK, ValuesOK

\* Every step of an admin request keeps the refund's variables in their types.
LEMMA AdminValues ==
    ASSUME RefundTypeOK, NEW a \in Admins,
           \/ PrepareRefund(a) \/ LockRefund(a) \/ DeductCredit(a) \/ GwRefund(a)
           \/ RollbackRefund(a) \/ FlagRollback(a) \/ RestoreStatus(a)
           \/ MarkRefundOk(a) \/ MarkRefundFailed(a) \/ AdminStops(a)
    PROVE  RefundValuesOK'
<1> RefundValuesOK
  BY RefundTypeParts
<1> Amount \in Nat
  BY AmountAssumption
<1> PICK p : p = plan[a]
  OBVIOUS
<1>p. /\ NoPlan \in Plans /\ p \in Plans
      /\ p.amt \in Nat /\ p.cut \in Nat
      /\ [p EXCEPT !.cut = 0] \in Plans
  BY PlanType DEF RefundValuesOK, Plans
<1> USE DEF RefundValuesOK, RefundSteps, LockedSteps, Move, Finish
<1>1. CASE PrepareRefund(a)
  <2>1. PICK amt \in 1 .. Amount, deduct \in BOOLEAN :
           plan' = [plan EXCEPT ![a] =
                     [amt |-> amt, read |-> status, trade |-> tradeNo,
                      cut |-> IF deduct THEN PlannedCut(amt) ELSE 0]]
    BY <1>1, Zenon DEF PrepareRefund
  <2>2. PICK cut \in 0 .. Amount : cut = IF deduct THEN PlannedCut(amt) ELSE 0
    BY PlanType
  <2>3. status \in Refundable /\ tradeNo \in TradeNos
    BY <1>1 DEF PrepareRefund, RefundTypeOK, TypeOK
  <2>4. plan' \in [Admins -> Plans]
    <3>1. [amt |-> amt, read |-> status, trade |-> tradeNo, cut |-> cut] \in Plans
      BY <2>3, PlanType
    <3> QED BY <2>1, <2>2, <3>1
  <2> QED BY <1>1, <2>4 DEF PrepareRefund
<1>2. CASE LockRefund(a)
  BY <1>2, <1>p DEF LockRefund
<1>3. CASE DeductCredit(a)
  <2>1. plan' = plan \/ plan' = [plan EXCEPT ![a].cut = 0]
    BY <1>3 DEF DeductCredit
  <2>2. plan' \in [Admins -> Plans]
    BY <2>1, <1>p
  <2>3. wallet' \in Int /\ held' \in Int
    BY <1>3, <1>p DEF DeductCredit, TakeBack
  <2> QED BY <1>3, <2>2, <2>3 DEF DeductCredit
<1>4. CASE GwRefund(a)
  BY <1>4, <1>p DEF GwRefund
<1>5. CASE RollbackRefund(a)
  BY <1>5, <1>p DEF RollbackRefund, GiveBack
<1>6. CASE FlagRollback(a)
  BY <1>6, <1>p DEF FlagRollback
<1>7. CASE RestoreStatus(a) \/ MarkRefundOk(a) \/ MarkRefundFailed(a)
  BY <1>7, <1>p DEF RestoreStatus, MarkRefundOk, MarkRefundFailed, FinalUpdate
<1>8. CASE AdminStops(a)
  BY <1>8, <1>p DEF AdminStops
<1> QED BY <1>1, <1>2, <1>3, <1>4, <1>5, <1>6, <1>7, <1>8

\* revoked stays Boolean, whoever steps.
LEMMA RevokedType ==
    ASSUME RefundTypeOK, RefundNext
    PROVE  revoked' \in BOOLEAN
<1> revoked \in BOOLEAN
  BY RefundTypeParts
<1> USE DEF refundVars
<1>1. CASE OrderStep \/ Spend \/ RequestRefund \/ PendingSettles
  BY <1>1, Zenon DEF OrderStep, Spend, RequestRefund, PendingSettles
<1>2. ASSUME NEW a \in Admins, DeductCredit(a) PROVE revoked' \in BOOLEAN
  BY <1>2, Zenon DEF DeductCredit, TakeBack
<1>3. ASSUME NEW a \in Admins,
             \/ PrepareRefund(a) \/ LockRefund(a) \/ GwRefund(a)
             \/ RollbackRefund(a) \/ FlagRollback(a) \/ RestoreStatus(a)
             \/ MarkRefundOk(a) \/ MarkRefundFailed(a) \/ AdminStops(a)
      PROVE  revoked' \in BOOLEAN
  BY <1>3, Zenon DEF PrepareRefund, LockRefund, GwRefund, RollbackRefund, FlagRollback,
           RestoreStatus, MarkRefundOk, MarkRefundFailed, FinalUpdate, AdminStops
<1> QED BY <1>1, <1>2, <1>3, Zenon DEF RefundNext

\* A request for a refund changes the status and nothing else of the order.
LEMMA RequestFootprint == TypeOK /\ RequestRefund => RefundFootprint
BY DEF RequestRefund, RefundFootprint, SetStatus, Statuses, orderRest, ledger

\* No step takes a variable out of its type.
LEMMA RefundNextType == RefundTypeOK /\ [RefundNext]_allVars => RefundTypeOK'
<1> SUFFICES ASSUME RefundTypeOK, [RefundNext]_allVars PROVE RefundTypeOK'
  OBVIOUS
<1>1. CASE UNCHANGED allVars
  BY <1>1 DEF RefundTypeOK, TypeOK, allVars, refundVars, vars, row, ledger, provider, handlers
<1>2. CASE RefundNext
  <2>1. revoked' \in BOOLEAN
    BY <1>2, RevokedType
  <2>2. TypeOK' /\ RefundValuesOK'
    <3>1. CASE OrderStep
      <4>1. TypeOK'
        BY <3>1, NextType, RefundTypeParts DEF OrderStep
      <4>2. wallet' \in Int
        <5>1. credits \in Int /\ credits' \in Int /\ wallet \in Int /\ Amount \in Int
          BY <4>1, AmountAssumption DEF TypeOK, RefundTypeOK
        <5>2. \A w, m, c, d \in Int : w + m * (d - c) \in Int
          OBVIOUS
        <5>3. wallet' = wallet + Amount * (credits' - credits)
          BY <3>1 DEF OrderStep
        <5> QED BY <5>1, <5>2, <5>3, Zenon
      <4> QED BY <3>1, <4>1, <4>2, RefundTypeParts DEF OrderStep, RefundValuesOK
    <3>2. CASE Spend
      BY <3>2 DEF Spend, RefundTypeOK, TypeOK, RefundValuesOK, vars, row, ledger, provider, handlers
    <3>6. CASE PendingSettles
      BY <3>6 DEF PendingSettles, RefundTypeOK, TypeOK, RefundValuesOK, vars, row, ledger, provider, handlers
    <3>3. CASE RequestRefund
      <4>1. TypeOK'
        BY <3>3, RequestFootprint, FootprintType, RefundTypeParts
      <4> QED BY <3>3, <4>1, RefundTypeParts DEF RequestRefund, RefundValuesOK, refundVars
    <3>4. ASSUME NEW a \in Admins, PrepareRefund(a) PROVE TypeOK' /\ RefundValuesOK'
      <4>1. TypeOK'
        BY <3>4 DEF PrepareRefund, RefundTypeOK, TypeOK, vars, row, ledger, provider, handlers
      <4> QED BY <3>4, <4>1, AdminValues
    <3>5. ASSUME NEW a \in Admins,
                 \/ LockRefund(a) \/ DeductCredit(a) \/ GwRefund(a)
                 \/ RollbackRefund(a) \/ FlagRollback(a) \/ RestoreStatus(a)
                 \/ MarkRefundOk(a) \/ MarkRefundFailed(a) \/ AdminStops(a)
          PROVE  TypeOK' /\ RefundValuesOK'
      BY <3>5, AdminFootprint, FootprintType, AdminValues, RefundTypeParts
    <3> QED BY <1>2, <3>1, <3>2, <3>3, <3>4, <3>5, <3>6, Zenon DEF RefundNext
  <2> QED BY <2>1, <2>2 DEF RefundTypeOK, RefundValuesOK
<1> QED BY <1>1, <1>2

\* Order and refund always hold values the code allows, and no plan deducts
\* less than nothing or more than the order's amount (prepDeduct).
THEOREM RefundTypeCorrect == RefundSpec => []RefundTypeOK
BY RefundInitType, RefundNextType, PTL DEF RefundSpec

----------------------------------------------------------------------------
(* One request at a time is past the lock                                  *)

\* A step of a refund that moves a fulfilled order among the fulfilled statuses
\* keeps what is shown above of the order.
LEMMA FootprintInv ==
    ASSUME TypeOK, IInv, RefundFootprint,
           status' = status \/ (status \in Fulfilled /\ status' \in Fulfilled)
    PROVE  IInv'
<1> USE DEF RefundFootprint, provider, handlers, IInv
<1>1. PaidFirst'
  BY DEF PaidFirst
<1>2. PaidStatus'
  BY DEF PaidStatus, Unpaid, Fulfilled, RefundStatuses
<1>3. OneFulfiller'
  BY DEF OneFulfiller, Fulfilling, Fulfilled, RefundStatuses
<1>4. CodeIsCredit'
  BY DEF CodeIsCredit
<1>5. CreditFirst'
  BY DEF CreditFirst, CompletedIsCredited
<1> QED BY <1>1, <1>2, <1>3, <1>4, <1>5

\* A request that is past the lock, and stays there, owns the row still.
LEMMA RefunderKept ==
    ASSUME OneRefunder, status' = status, NEW a \in Admins, apc[a] \in LockedSteps,
           \A b \in Admins \ {a} : apc'[b] = apc[b]
    PROVE  OneRefunder'
BY DEF OneRefunder, Refunding

\* A request that is not past the lock, and does not get there, disturbs nobody.
LEMMA OutsiderMoves ==
    ASSUME OneRefunder, status' = status, NEW a \in Admins, apc'[a] \notin LockedSteps,
           \A b \in Admins \ {a} : apc'[b] = apc[b]
    PROVE  OneRefunder'
BY DEF OneRefunder, Refunding

\* The owner's final UPDATE leaves nobody past the lock.
LEMMA RefunderLeaves ==
    ASSUME OneRefunder, NEW a \in Admins, apc[a] \in LockedSteps, apc'[a] \notin LockedSteps,
           \A b \in Admins \ {a} : apc'[b] = apc[b]
    PROVE  OneRefunder'
BY DEF OneRefunder, Refunding

\* Every step keeps the lock exclusive, and the invariant of the order.
LEMMA RefundIInvStep ==
    ASSUME RefundTypeOK, RefundIInv, RefundNext
    PROVE  RefundIInv'
<1> /\ TypeOK /\ IInv /\ OneRefunder
    /\ apc \in [Admins -> RefundSteps]
  BY DEF RefundTypeOK, RefundIInv
<1> USE DEF RefundIInv
<1>1. CASE OrderStep
  <2>1. IInv'
    BY <1>1, NextInv DEF OrderStep
  <2>2. status = "REFUNDING" => status' = status
    BY <1>1, FulfilledStays DEF OrderStep, Fulfilled, RefundStatuses
  <2> QED BY <1>1, <2>1, <2>2 DEF OrderStep, OneRefunder, Refunding
<1>2. CASE Spend
  BY <1>2, StutterInv DEF Spend, OneRefunder, Refunding, vars, row
<1>9. CASE PendingSettles
  BY <1>9, StutterInv DEF PendingSettles, OneRefunder, Refunding, vars, row
<1>3. CASE RequestRefund
  <2>1. IInv'
    BY <1>3, RequestFootprint, FootprintInv DEF RequestRefund, SetStatus, Fulfilled, RefundStatuses
  <2> QED BY <1>3, <2>1 DEF RequestRefund, refundVars, OneRefunder, Refunding
<1>4. ASSUME NEW a \in Admins, PrepareRefund(a) PROVE RefundIInv'
  <2>1. IInv' /\ status' = status
    BY <1>4, StutterInv DEF PrepareRefund, vars, row
  <2>2. OneRefunder'
    BY <1>4, <2>1, OutsiderMoves DEF PrepareRefund, LockedSteps
  <2> QED BY <2>1, <2>2
<1>5. ASSUME NEW a \in Admins, LockRefund(a) PROVE RefundIInv'
  <2>1. RefundFootprint
    BY <1>5, AdminFootprint
  <2>2. IInv'
    BY <1>5, <2>1, FootprintInv DEF LockRefund, SetStatus, Refundable, Fulfilled, RefundStatuses, row
  <2>3. CASE status \in Refundable /\ status' = "REFUNDING"
    <3>1. \A b \in Admins : apc[b] \notin LockedSteps
      BY <2>3 DEF OneRefunder, Refunding, Refundable
    <3>2. \A b \in Admins \ {a} : apc'[b] = apc[b]
      BY <1>5 DEF LockRefund, Move, Finish
    <3> QED BY <2>2, <2>3, <3>1, <3>2 DEF OneRefunder, Refunding
  <2>4. CASE status' = status /\ apc'[a] \notin LockedSteps
    BY <1>5, <2>2, <2>4, OutsiderMoves DEF LockRefund, Move, Finish
  <2> QED BY <1>5, <2>3, <2>4 DEF LockRefund, SetStatus, Finish, LockedSteps, row
<1>6. ASSUME NEW a \in Admins,
             DeductCredit(a) \/ GwRefund(a) \/ RollbackRefund(a) \/ FlagRollback(a)
      PROVE  RefundIInv'
  <2>1. RefundFootprint
    BY <1>6, AdminFootprint
  <2>2. status' = status /\ apc[a] \in LockedSteps /\ \A b \in Admins \ {a} : apc'[b] = apc[b]
    BY <1>6 DEF DeductCredit, GwRefund, RollbackRefund, FlagRollback, Move, row, LockedSteps
  <2>3. IInv' /\ OneRefunder'
    BY <2>1, <2>2, FootprintInv, RefunderKept
  <2> QED BY <2>3
<1>7. ASSUME NEW a \in Admins, RestoreStatus(a) \/ MarkRefundOk(a) \/ MarkRefundFailed(a)
      PROVE  RefundIInv'
  <2>1. RefundFootprint
    BY <1>7, AdminFootprint
  <2>2. /\ apc[a] \in LockedSteps /\ apc'[a] \notin LockedSteps
        /\ \A b \in Admins \ {a} : apc'[b] = apc[b]
    BY <1>7 DEF RestoreStatus, MarkRefundOk, MarkRefundFailed, FinalUpdate, Finish, LockedSteps
  <2>3. status = "REFUNDING"
    BY <2>2 DEF OneRefunder, Refunding
  <2>4. status' = status \/ status' \in Fulfilled
    BY <1>7 DEF RestoreStatus, MarkRefundOk, MarkRefundFailed, FinalUpdate, SetStatus, Fulfilled,
                RefundStatuses, row
  <2>5. status \in Fulfilled
    BY <2>3 DEF Fulfilled, RefundStatuses
  <2>6. IInv' /\ OneRefunder'
    BY <2>1, <2>2, <2>4, <2>5, FootprintInv, RefunderLeaves
  <2> QED BY <2>6
<1>8. ASSUME NEW a \in Admins, AdminStops(a) PROVE RefundIInv'
  <2>1. RefundFootprint
    BY <1>8, AdminFootprint
  <2>2. status' = status /\ apc'[a] \notin LockedSteps /\ \A b \in Admins \ {a} : apc'[b] = apc[b]
    BY <1>8 DEF AdminStops, Finish, LockedSteps, row
  <2>3. IInv' /\ OneRefunder'
    BY <2>1, <2>2, FootprintInv, OutsiderMoves
  <2> QED BY <2>3
<1> QED BY <1>1, <1>2, <1>3, <1>4, <1>5, <1>6, <1>7, <1>8, <1>9, Zenon DEF RefundNext

\* The order's own invariant survives its refunds, and the lock is exclusive.
THEOREM RefundInvariance == RefundSpec => []RefundIInv
<1>1. RefundInit => RefundIInv
  BY InitInv DEF RefundInit, RefundIInv, OneRefunder, Refunding, LockedSteps
<1>2. RefundTypeOK /\ RefundIInv /\ [RefundNext]_allVars => RefundIInv'
  <2>1. RefundIInv /\ UNCHANGED allVars => RefundIInv'
    BY StutterInv DEF RefundIInv, OneRefunder, Refunding, allVars, refundVars, vars, row
  <2> QED BY <2>1, RefundIInvStep
<1> QED BY <1>1, <1>2, RefundTypeCorrect, PTL DEF RefundSpec

\* At most one request is past ExecuteRefund's lock, and the row stays REFUNDING
\* until its own final UPDATE, wherever statements fail, answers are lost and
\* requests stop.
THEOREM RefundIsExclusive == RefundSpec => []OneRefunder
<1>1. RefundIInv => OneRefunder
  BY DEF RefundIInv
<1> QED BY <1>1, RefundInvariance, PTL

----------------------------------------------------------------------------
(* The books of a refund balance                                           *)

\* The order's own steps never enter a refund status.
LEMMA OrderStatusStep ==
    ASSUME Next
    PROVE  status' = status \/ status' \notin RefundStatuses
<1> USE DEF row, SetStatus, RefundStatuses
<1>1. CASE \/ CreatePayment \/ SaveDetails \/ MarkCreateFailed \/ CreatorStops \/ UserPays
          \/ OrderBecomesDue \/ GraceElapses \/ ProviderUnresolved
  BY <1>1 DEF CreatePayment, SaveDetails, MarkCreateFailed, CreatorStops, UserPays,
              OrderBecomesDue, GraceElapses, ProviderUnresolved
<1>2. ASSUME NEW h \in Handlers,
             \/ ProviderNotifies(h) \/ VerifyOrderByOutTradeNo(h)
             \/ ReconcilePendingOrders(h) \/ CancelOrder(h) \/ ExpireTimedOutOrders(h)
             \/ RetryFulfillment(h) \/ QueryOrder(h) \/ CloseUpstream(h) \/ CancelRow(h)
             \/ PersistTradeNo(h) \/ ConfirmPayment(h) \/ ToPaid(h) \/ AlreadyProcessed(h)
             \/ LoadForFulfillment(h) \/ LockForFulfillment(h) \/ LookupCode(h)
             \/ CreateCode(h) \/ RedeemCode(h) \/ CheckAssigned(h)
             \/ AssignSubscription(h) \/ LogAssigned(h) \/ ApplyAffiliateRebate(h)
             \/ MarkCompleted(h) \/ MarkFailed(h) \/ ResetForRetry(h) \/ HandlerStops(h)
      PROVE  status' = status \/ status' \notin RefundStatuses
  BY <1>2 DEF ProviderNotifies, VerifyOrderByOutTradeNo, ReconcilePendingOrders,
           CancelOrder, ExpireTimedOutOrders, RetryFulfillment, QueryOrder, CloseUpstream,
           CancelRow, PersistTradeNo, ConfirmPayment, ToPaid, MarkPaid, AlreadyProcessed,
           LoadForFulfillment, LockForFulfillment, LookupCode, CreateCode, RedeemCode,
           CheckAssigned, AssignSubscription, LogAssigned, ApplyAffiliateRebate, MarkCompleted,
           MarkFailed, ResetForRetry, HandlerStops
<1> QED BY <1>1, <1>2, Zenon DEF Next, CreatorStep, HandlerStep

\* A provider with its own trade numbers leaves one on every paid order.
LEMMA PaidTradeNoStep ==
    ASSUME NotifyTradeNo = "upstream", TypeOK, Next, paidAt = TRUE => tradeNo # "none"
    PROVE  paidAt' = TRUE => tradeNo' # "none"
<1> USE DEF row, SetStatus
<1>1. CASE \/ CreatePayment \/ SaveDetails \/ MarkCreateFailed \/ CreatorStops \/ UserPays
          \/ OrderBecomesDue \/ GraceElapses \/ ProviderUnresolved
  BY <1>1 DEF CreatePayment, SaveDetails, MarkCreateFailed, CreatorStops, UserPays,
              OrderBecomesDue, GraceElapses, ProviderUnresolved
<1>2. ASSUME NEW h \in Handlers, PersistTradeNo(h) \/ ToPaid(h)
      PROVE  paidAt' = TRUE => tradeNo' # "none"
  BY <1>2 DEF PersistTradeNo, ToPaid, MarkPaid
<1>3. ASSUME NEW h \in Handlers,
             \/ ProviderNotifies(h) \/ VerifyOrderByOutTradeNo(h)
             \/ ReconcilePendingOrders(h) \/ CancelOrder(h) \/ ExpireTimedOutOrders(h)
             \/ RetryFulfillment(h) \/ QueryOrder(h) \/ CloseUpstream(h) \/ CancelRow(h)
             \/ ConfirmPayment(h) \/ AlreadyProcessed(h)
             \/ LoadForFulfillment(h) \/ LockForFulfillment(h) \/ LookupCode(h)
             \/ CreateCode(h) \/ RedeemCode(h) \/ CheckAssigned(h)
             \/ AssignSubscription(h) \/ LogAssigned(h) \/ ApplyAffiliateRebate(h)
             \/ MarkCompleted(h) \/ MarkFailed(h) \/ ResetForRetry(h) \/ HandlerStops(h)
      PROVE  paidAt' = TRUE => tradeNo' # "none"
  BY <1>3 DEF ProviderNotifies, VerifyOrderByOutTradeNo, ReconcilePendingOrders,
           CancelOrder, ExpireTimedOutOrders, RetryFulfillment, QueryOrder, CloseUpstream,
           CancelRow, ConfirmPayment, AlreadyProcessed,
           LoadForFulfillment, LockForFulfillment, LookupCode, CreateCode, RedeemCode,
           CheckAssigned, AssignSubscription, LogAssigned, ApplyAffiliateRebate, MarkCompleted,
           MarkFailed, ResetForRetry, HandlerStops
<1> QED BY <1>1, <1>2, <1>3, Zenon DEF Next, CreatorStep, HandlerStep

\* Trade numbers and plans stay known.
LEMMA TradeNoIsKnownStep ==
    ASSUME ReliableRefund, RefundTypeOK, RefundIInv, TradeNoIsKnown, RefundNext
    PROVE  TradeNoIsKnown'
<1> /\ TypeOK /\ apc \in [Admins -> RefundSteps] /\ plan \in [Admins -> Plans]
  BY DEF RefundTypeOK
<1>1. CASE OrderStep
  <2>1. paidAt' = TRUE => tradeNo' # "none"
    BY <1>1, PaidTradeNoStep DEF OrderStep, ReliableRefund, TradeNoIsKnown
  <2> QED BY <1>1, <2>1 DEF OrderStep, TradeNoIsKnown
<1>2. CASE Spend \/ PendingSettles
  BY <1>2 DEF Spend, PendingSettles, TradeNoIsKnown, vars, row
<1>3. CASE RequestRefund
  BY <1>3 DEF RequestRefund, SetStatus, refundVars, TradeNoIsKnown
<1>4. ASSUME NEW a \in Admins, PrepareRefund(a) PROVE TradeNoIsKnown'
  <2>1. PICK amt \in 1 .. Amount, deduct \in BOOLEAN :
           plan' = [plan EXCEPT ![a] =
                     [amt |-> amt, read |-> status, trade |-> tradeNo,
                      cut |-> IF deduct THEN PlannedCut(amt) ELSE 0]]
    BY <1>4, Zenon DEF PrepareRefund
  <2>2. paidAt = TRUE
    BY <1>4 DEF PrepareRefund, RefundIInv, IInv, PaidStatus, Unpaid, Refundable
  <2>3. tradeNo # "none"
    BY <2>2 DEF TradeNoIsKnown
  <2>4. plan'[a].trade = tradeNo /\ plan'[a].amt = amt
    BY <2>1
  <2>5. amt > 0
    OBVIOUS
  <2>6. \A b \in Admins \ {a} : plan'[b] = plan[b] /\ apc'[b] = apc[b]
    BY <1>4, <2>1 DEF PrepareRefund
  <2>7. UNCHANGED <<paidAt, tradeNo>>
    BY <1>4 DEF PrepareRefund, vars, row
  <2> QED BY <2>3, <2>4, <2>5, <2>6, <2>7 DEF TradeNoIsKnown
<1>5. ASSUME NEW a \in Admins,
             \/ LockRefund(a) \/ DeductCredit(a) \/ GwRefund(a)
             \/ RollbackRefund(a) \/ FlagRollback(a) \/ RestoreStatus(a)
             \/ MarkRefundOk(a) \/ MarkRefundFailed(a) \/ AdminStops(a)
      PROVE  TradeNoIsKnown'
  <2>1. UNCHANGED <<paidAt, tradeNo>>
    BY <1>5, AdminFootprint DEF RefundFootprint
  <2>2. /\ apc[a] # "idle"
        /\ \A b \in Admins \ {a} : plan'[b] = plan[b] /\ apc'[b] = apc[b]
    BY <1>5 DEF LockRefund, DeductCredit, GwRefund, RollbackRefund, FlagRollback, RestoreStatus,
                MarkRefundOk, MarkRefundFailed, FinalUpdate, AdminStops, Move, Finish
  <2>3. \/ apc'[a] = "idle"
        \/ plan'[a].trade = plan[a].trade /\ plan'[a].amt = plan[a].amt
    <3>1. CASE DeductCredit(a)
      <4>1. plan[a] \in Plans
        OBVIOUS
      <4>2. plan' = plan \/ plan' = [plan EXCEPT ![a].cut = 0]
        BY <3>1 DEF DeductCredit, Move
      <4> QED BY <4>1, <4>2 DEF Plans
    <3>2. CASE ~DeductCredit(a)
      BY <1>5, <3>2 DEF LockRefund, GwRefund, RollbackRefund, FlagRollback, RestoreStatus,
                MarkRefundOk, MarkRefundFailed, FinalUpdate, AdminStops, Move, Finish
    <3> QED BY <3>1, <3>2
  <2> QED BY <2>1, <2>2, <2>3 DEF TradeNoIsKnown
<1> QED BY <1>1, <1>2, <1>3, <1>4, <1>5, Zenon DEF RefundNext

\* A request that is not past the lock has no books to keep.
LEMMA OutsideBooks ==
    ASSUME NEW b \in Admins, apc'[b] \notin LockedSteps
    PROVE  AdminBooks(b)'
BY DEF AdminBooks, LockedSteps

\* When the owner of the lock steps, its own books are the only ones.
LEMMA OwnerBooks ==
    ASSUME OneRefunder, NEW a \in Admins, apc[a] \in LockedSteps,
           \A b \in Admins \ {a} : apc'[b] = apc[b], AdminBooks(a)'
    PROVE  \A b \in Admins : AdminBooks(b)'
<1> SUFFICES ASSUME NEW b \in Admins, b # a PROVE AdminBooks(b)'
  OBVIOUS
<1>1. apc'[b] \notin LockedSteps
  BY DEF OneRefunder, Refunding
<1> QED BY <1>1, OutsideBooks

\* Every step keeps money and status in agreement.
LEMMA BooksStep ==
    ASSUME ReliableRefund, RefundTypeOK, RefundIInv, BooksIInv, RefundNext
    PROVE  StatusBooks' /\ \A a \in Admins : AdminBooks(a)'
<1> /\ TypeOK /\ IInv /\ OneRefunder
    /\ apc \in [Admins -> RefundSteps] /\ plan \in [Admins -> Plans]
    /\ TradeNoIsKnown /\ StatusBooks /\ \A a \in Admins : AdminBooks(a)
    /\ Amount \in Nat /\ held \in Int /\ accepted \in Nat /\ returned \in Nat /\ wallet \in Int
  BY AmountAssumption DEF RefundTypeOK, RefundIInv, BooksIInv
<1>p. \A a \in Admins : plan[a].cut \in 0 .. Amount /\ plan[a].amt \in 0 .. Amount
  BY DEF Plans
<1>1. CASE OrderStep
  <2>1. Kept => Kept'
    BY <1>1, LedgerGrows DEF OrderStep, Kept, RollbackFailed
  <2>2. RollbackFailed => RollbackFailed'
    BY <1>1, LedgerGrows DEF OrderStep, RollbackFailed
  <2>3. status \in Fulfilled => status' = status
    BY <1>1, FulfilledStays DEF OrderStep
  <2>4. status' = status \/ status' \notin RefundStatuses
    BY <1>1, OrderStatusStep DEF OrderStep
  <2>5. held = 0 => Kept'
    BY <1>1 DEF OrderStep, Kept
  <2>6. StatusBooks'
    BY <1>1, <2>1, <2>3, <2>4, <2>5 DEF OrderStep, StatusBooks, Refundable, Fulfilled, RefundStatuses
  <2>7. \A a \in Admins : AdminBooks(a)'
    BY <1>1, <2>1, <2>2 DEF OrderStep, AdminBooks
  <2> QED BY <2>6, <2>7
<1>2. CASE Spend
  BY <1>2 DEF Spend, vars, row, ledger, StatusBooks, AdminBooks, Kept, RollbackFailed
<1>12. CASE PendingSettles
  BY <1>12 DEF PendingSettles, vars, row, ledger, StatusBooks, AdminBooks, Kept, RollbackFailed
<1>3. CASE RequestRefund
  BY <1>3 DEF RequestRefund, SetStatus, refundVars, orderRest, ledger, StatusBooks, AdminBooks, Kept,
              RollbackFailed, Refundable, Fulfilled, RefundStatuses
<1>4. ASSUME NEW a \in Admins, PrepareRefund(a)
      PROVE  StatusBooks' /\ \A b \in Admins : AdminBooks(b)'
  <2>1. UNCHANGED <<status, audit, held, accepted, returned>> /\ apc'[a] = "execute"
    BY <1>4 DEF PrepareRefund, vars, row, ledger
  <2>2. \A b \in Admins \ {a} : plan'[b] = plan[b] /\ apc'[b] = apc[b]
    BY <1>4 DEF PrepareRefund
  <2>3. StatusBooks'
    BY <2>1 DEF StatusBooks, Kept, RollbackFailed
  <2>4. \A b \in Admins \ {a} : AdminBooks(b)'
    BY <2>1, <2>2 DEF AdminBooks, Kept, RollbackFailed
  <2>5. AdminBooks(a)'
    BY <2>1, OutsideBooks DEF LockedSteps
  <2> QED BY <2>3, <2>4, <2>5
<1>5. ASSUME NEW a \in Admins, LockRefund(a)
      PROVE  StatusBooks' /\ \A b \in Admins : AdminBooks(b)'
  <2>1. /\ UNCHANGED <<audit, held, accepted, returned>>
        /\ \A b \in Admins \ {a} : plan'[b] = plan[b] /\ apc'[b] = apc[b]
    BY <1>5 DEF LockRefund, orderRest, ledger, Move, Finish
  <2>2. \/ status \in Refundable /\ status' = "REFUNDING" /\ apc'[a] \in {"deduct", "idle"}
        \/ status' = status /\ apc'[a] = "idle"
    BY <1>5 DEF LockRefund, SetStatus, Move, Finish, row
  <2>3. StatusBooks'
    BY <2>1, <2>2 DEF StatusBooks, Kept, RollbackFailed, Refundable, Fulfilled, RefundStatuses
  <2>4. \A b \in Admins \ {a} : AdminBooks(b)'
    BY <2>1 DEF AdminBooks, Kept, RollbackFailed
  <2>5. AdminBooks(a)'
    BY <2>1, <2>2 DEF AdminBooks, StatusBooks, Kept, RollbackFailed, LockedSteps
  <2> QED BY <2>3, <2>4, <2>5
<1>6. ASSUME NEW a \in Admins, DeductCredit(a)
      PROVE  StatusBooks' /\ \A b \in Admins : AdminBooks(b)'
  <2>1. /\ UNCHANGED <<status, audit, accepted, returned>>
        /\ apc[a] = "deduct" /\ \A b \in Admins \ {a} : apc'[b] = apc[b]
    BY <1>6 DEF DeductCredit, row, orderRest, ledger, Move
  <2>2. accepted = 0 /\ Kept /\ status = "REFUNDING"
    BY <2>1 DEF AdminBooks, LockedSteps, OneRefunder, Refunding
  <2>3. \/ held' = held /\ apc'[a] = "restore"
        \/ held' = held /\ apc'[a] = "gateway" /\ plan'[a].cut = 0
        \/ /\ ~RollbackFailed /\ held' = held + plan[a].cut /\ apc'[a] = "gateway"
           /\ plan'[a].cut = plan[a].cut
    <3>1. TakeBack(plan[a].cut) => held' = held + plan[a].cut
      BY <1>p DEF TakeBack, ReliableRefund
    <3>2. plan[a] \in Plans
      OBVIOUS
    <3>3. /\ \/ apc'[a] = "restore" \/ apc'[a] = "gateway"
          /\ ~Lost("deduct") /\ ~Fault("marker")
      BY <1>6 DEF DeductCredit, Move, Lost, Fault, ReliableRefund
    <3>4. CASE plan[a].cut = 0
      BY <1>6, <1>p, <3>4 DEF DeductCredit, Move
    <3>5. CASE plan[a].cut > 0 /\ RollbackFailed
      BY <1>6, <3>2, <3>3, <3>5 DEF DeductCredit, Plans
    <3>6. CASE plan[a].cut > 0 /\ ~RollbackFailed
      BY <1>6, <3>1, <3>3, <3>6 DEF DeductCredit, Move
    <3> QED BY <1>p, <3>4, <3>5, <3>6
  <2>4. RollbackFailed' <=> RollbackFailed
    BY <2>1 DEF RollbackFailed
  <2>5. StatusBooks'
    <3>1. held' \in 0 .. Amount
      BY <1>p, <2>2, <2>3 DEF StatusBooks, Kept
    <3> QED BY <2>1, <2>2, <3>1 DEF StatusBooks, Refundable, Fulfilled, RefundStatuses
  <2>6. AdminBooks(a)'
    BY <1>p, <2>1, <2>2, <2>3, <2>4 DEF AdminBooks, Kept, LockedSteps
  <2> QED BY <2>1, <2>5, <2>6, OwnerBooks DEF LockedSteps
<1>7. ASSUME NEW a \in Admins, GwRefund(a)
      PROVE  StatusBooks' /\ \A b \in Admins : AdminBooks(b)'
  <2>1. /\ UNCHANGED <<status, audit, held, plan>>
        /\ apc[a] = "gateway" /\ \A b \in Admins \ {a} : apc'[b] = apc[b]
    BY <1>7 DEF GwRefund, row, orderRest, ledger, Move
  <2>2. accepted = 0 /\ status = "REFUNDING" /\ plan[a].trade # "none" /\ plan[a].amt > 0
    BY <2>1 DEF AdminBooks, LockedSteps, OneRefunder, Refunding, TradeNoIsKnown
  <2>3. \/ /\ accepted' = plan[a].amt /\ apc'[a] = "markOk"
           /\ returned' \in {returned, returned + plan[a].amt}
        \/ accepted' = accepted /\ returned' = returned /\ apc'[a] = "rollback"
    BY <1>7, <1>p, <2>2 DEF GwRefund, Move, Lost, ReliableRefund
  <2>4. StatusBooks'
    BY <1>p, <2>1, <2>2, <2>3 DEF StatusBooks, Refundable, Fulfilled, RefundStatuses
  <2>5. AdminBooks(a)'
    BY <1>p, <2>1, <2>2, <2>3 DEF AdminBooks, Kept, RollbackFailed, LockedSteps
  <2> QED BY <2>1, <2>4, <2>5, OwnerBooks DEF LockedSteps
<1>8. ASSUME NEW a \in Admins, RollbackRefund(a)
      PROVE  StatusBooks' /\ \A b \in Admins : AdminBooks(b)'
  <2>1. /\ UNCHANGED <<status, audit, accepted, returned, plan>>
        /\ apc[a] = "rollback" /\ \A b \in Admins \ {a} : apc'[b] = apc[b]
    BY <1>8 DEF RollbackRefund, row, orderRest, ledger, Move
  <2>2. accepted = 0 /\ status = "REFUNDING"
    BY <2>1 DEF AdminBooks, LockedSteps, OneRefunder, Refunding
  <2>3. (plan[a].cut = 0 /\ Kept) \/ held = plan[a].cut
    BY <2>1 DEF AdminBooks
  <2>4. \/ plan[a].cut = 0 /\ held' = held /\ apc'[a] = "restore"
        \/ plan[a].cut > 0 /\ held' = held - plan[a].cut /\ apc'[a] \in {"restore", "flag"}
        \/ held' = held /\ apc'[a] = "flag"
    BY <1>8 DEF RollbackRefund, GiveBack, Move
  <2>5. held' \in 0 .. Amount /\ (apc'[a] = "restore" => held' = 0 \/ RollbackFailed)
    BY <1>p, <2>3, <2>4 DEF StatusBooks, Kept
  <2>6. StatusBooks'
    BY <2>1, <2>2, <2>5 DEF StatusBooks, Refundable, Fulfilled, RefundStatuses
  <2>7. AdminBooks(a)'
    <3>1. apc'[a] \in {"restore", "flag"}
      BY <2>4
    <3> QED BY <2>1, <2>2, <2>5, <3>1 DEF AdminBooks, Kept, RollbackFailed
  <2> QED BY <2>1, <2>6, <2>7, OwnerBooks DEF LockedSteps
<1>9. ASSUME NEW a \in Admins, FlagRollback(a)
      PROVE  StatusBooks' /\ \A b \in Admins : AdminBooks(b)'
  <2>1. /\ UNCHANGED <<status, held, accepted, returned, plan>>
        /\ apc[a] = "flag" /\ apc'[a] = "markFailed" /\ \A b \in Admins \ {a} : apc'[b] = apc[b]
    BY <1>9 DEF FlagRollback, row, Move
  <2>2. accepted = 0 /\ status = "REFUNDING"
    BY <2>1 DEF AdminBooks, LockedSteps, OneRefunder, Refunding
  <2>3. RollbackFailed'
    BY <1>9 DEF FlagRollback, Fault, ReliableRefund, RollbackFailed
  <2>4. StatusBooks'
    BY <2>1, <2>2 DEF StatusBooks, Refundable, Fulfilled, RefundStatuses
  <2>5. AdminBooks(a)'
    BY <2>1, <2>2, <2>3 DEF AdminBooks
  <2> QED BY <2>1, <2>4, <2>5, OwnerBooks DEF LockedSteps
<1>10. ASSUME NEW a \in Admins, RestoreStatus(a) \/ MarkRefundOk(a) \/ MarkRefundFailed(a)
       PROVE  StatusBooks' /\ \A b \in Admins : AdminBooks(b)'
  <2>1. /\ UNCHANGED <<audit, held, accepted, returned>>
        /\ apc'[a] = "idle" /\ \A b \in Admins \ {a} : apc'[b] = apc[b]
        /\ apc[a] \in LockedSteps
    BY <1>10 DEF RestoreStatus, MarkRefundOk, MarkRefundFailed, FinalUpdate, orderRest, ledger, Finish,
                 LockedSteps
  <2>2. \/ status' = status
        \/ apc[a] = "restore" /\ status' \in {"REFUND_REQUESTED", "COMPLETED"}
        \/ apc[a] = "markOk" /\ status' \in {"REFUNDED", "PARTIALLY_REFUNDED"}
        \/ apc[a] = "markFailed" /\ status' = "REFUND_FAILED"
    BY <1>10 DEF RestoreStatus, MarkRefundOk, MarkRefundFailed, FinalUpdate, SetStatus, row
  <2>3. AdminBooks(a)
    OBVIOUS
  <2>4. Kept' <=> Kept
    BY <2>1 DEF Kept, RollbackFailed
  <2>5. StatusBooks'
    BY <2>1, <2>2, <2>3, <2>4 DEF StatusBooks, AdminBooks, Kept, LockedSteps, Refundable, Fulfilled,
                                  RefundStatuses
  <2>6. AdminBooks(a)'
    BY <2>1, OutsideBooks DEF LockedSteps
  <2> QED BY <2>1, <2>5, <2>6, OwnerBooks
<1>11. ASSUME NEW a \in Admins, AdminStops(a)
       PROVE  StatusBooks' /\ \A b \in Admins : AdminBooks(b)'
  <2>1. /\ UNCHANGED <<status, audit, held, accepted, returned>> /\ apc'[a] = "idle"
        /\ \A b \in Admins \ {a} : plan'[b] = plan[b] /\ apc'[b] = apc[b]
    BY <1>11 DEF AdminStops, row, orderRest, ledger, Finish
  <2>2. StatusBooks'
    BY <2>1 DEF StatusBooks, Kept, RollbackFailed
  <2>3. \A b \in Admins \ {a} : AdminBooks(b)'
    BY <2>1 DEF AdminBooks, Kept, RollbackFailed
  <2>4. AdminBooks(a)'
    BY <2>1, OutsideBooks DEF LockedSteps
  <2> QED BY <2>2, <2>3, <2>4
<1> QED BY <1>1, <1>2, <1>3, <1>4, <1>5, <1>6, <1>7, <1>8, <1>9, <1>10, <1>11, <1>12, Zenon DEF RefundNext

\* The books are kept in every reachable state.
THEOREM BooksInvariance ==
    ASSUME ReliableRefund
    PROVE  RefundSpec => []BooksIInv
<1>1. RefundInit => BooksIInv
  <2> SUFFICES ASSUME RefundInit PROVE BooksIInv
    OBVIOUS
  <2>1. paidAt # TRUE
    BY DEF RefundInit, Init
  <2>2. TradeNoIsKnown
    BY <2>1 DEF RefundInit, TradeNoIsKnown
  <2>3. StatusBooks
    BY AmountAssumption DEF RefundInit, Init, StatusBooks, Refundable
  <2>4. \A a \in Admins : AdminBooks(a)
    BY DEF RefundInit, AdminBooks, LockedSteps
  <2> QED BY <2>2, <2>3, <2>4 DEF BooksIInv
<1>2. RefundTypeOK /\ RefundIInv /\ BooksIInv /\ [RefundNext]_allVars => BooksIInv'
  <2>1. ASSUME BooksIInv, UNCHANGED allVars PROVE BooksIInv'
    <3>1. TradeNoIsKnown'
      BY <2>1 DEF BooksIInv, TradeNoIsKnown, allVars, refundVars, vars, row
    <3>2. StatusBooks' /\ \A a \in Admins : AdminBooks(a)'
      BY <2>1 DEF BooksIInv, StatusBooks, AdminBooks, Kept, RollbackFailed, allVars, refundVars, vars,
                  row, ledger
    <3> QED BY <3>1, <3>2 DEF BooksIInv
  <2>2. ASSUME RefundTypeOK, RefundIInv, BooksIInv, RefundNext PROVE BooksIInv'
    <3>1. TradeNoIsKnown'
      BY <2>2, TradeNoIsKnownStep DEF BooksIInv
    <3>2. StatusBooks' /\ \A a \in Admins : AdminBooks(a)'
      BY <2>2, BooksStep
    <3> QED BY <3>1, <3>2 DEF BooksIInv
  <2> QED BY <2>1, <2>2
<1> QED BY <1>1, <1>2, RefundTypeCorrect, RefundInvariance, PTL DEF RefundSpec

\* The gateway never accepts, nor gives back, more than the order's amount,
\* however often the refund is retried (gwRefund).
THEOREM GatewayRefundsAtMostOnce ==
    ASSUME ReliableRefund
    PROVE  RefundSpec => []RefundedAtMostOnce
<1>1. BooksIInv => RefundedAtMostOnce
  BY AmountAssumption DEF BooksIInv, StatusBooks, RefundedAtMostOnce
<1> QED BY <1>1, BooksInvariance, PTL

\* The user's credit is taken once, however often the refund is retried
\* (ExecuteRefund's look at REFUND_ROLLBACK_FAILED).
THEOREM CreditTakenAtMostOnce ==
    ASSUME ReliableRefund
    PROVE  RefundSpec => []DeductedAtMostOnce
<1>1. BooksIInv => DeductedAtMostOnce
  BY AmountAssumption DEF BooksIInv, StatusBooks, DeductedAtMostOnce
<1> QED BY <1>1, BooksInvariance, PTL

\* Between refunds money and status agree: what a completed order's refund
\* attempts took is given back or on record, and an order shown as refunded has
\* a refund the gateway accepted, at once or as pending (RestoreStatus, MarkRefundFailed, MarkRefundOk).
THEOREM RefundBooksAreBalanced ==
    ASSUME ReliableRefund
    PROVE  RefundSpec => []RefundBooksBalance
<1>1. BooksIInv => RefundBooksBalance
  BY DEF BooksIInv, StatusBooks, Kept, RefundBooksBalance
<1> QED BY <1>1, BooksInvariance, PTL
=============================================================================

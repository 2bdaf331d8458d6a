---------------------------- MODULE UsageBilling ----------------------------
(***************************************************************************)
(* How the usage of a forwarded request is charged: the handler submits a  *)
(* task to the bounded worker pool of the process, the task runs one       *)
(* database transaction that claims (request id, api key) and applies the  *)
(* cost, and a cleanup job moves old claims to an archive table.           *)
(*                                                                         *)
(* A task is one submission; several tasks may carry the same key (a       *)
(* repeated submission, or two upstream answers with one request id), with *)
(* the same fingerprint or another one.  A cost is one unit; the effects   *)
(* of a transaction (balance, subscription, quotas, outbox row) commit     *)
(* together and the balance stands for them.                               *)
(***************************************************************************)
EXTENDS Integers, Sequences, FiniteSets

CONSTANTS
    Tasks,                  \* usage records to bill
    Keys, Prints,           \* (request id, api key) pairs, request fingerprints
    Usages,                 \* which key and fingerprint each task may carry
    Policy,                 \* configured overflow policy
    Mandatory,              \* tasks of image requests
    InitialBalance,
    QueueSize,              \* capacity of the pool's queue
    MinWorkers, MaxWorkers, \* limits of the auto-scaler
    MaxFaults,              \* bound on injected faults
    NoTask, NoPrint

ASSUME UsageAssumption ==
    /\ Usages \subseteq [Tasks -> [key : Keys, print : Prints]]
    /\ IsFiniteSet(Tasks) /\ NoTask \notin Tasks /\ NoPrint \notin Prints
ASSUME PoolAssumption  ==
    /\ Mandatory \subseteq Tasks /\ Policy \in {"drop", "sample", "sync"}
    /\ QueueSize \in Nat \ {0}
    /\ MinWorkers \in Nat \ {0} /\ MaxWorkers \in Nat /\ MinWorkers <= MaxWorkers
ASSUME AmountAssumption == InitialBalance \in Nat /\ MaxFaults \in Nat

VARIABLES
    usage,      \* the key and the fingerprint each task carries
    stage,      \* step of each task
    place,      \* who runs it: a pool worker, or the caller
    result,     \* how it ended
    newBalance, \* UsageBillingApplyResult.NewBalance
    queue,      \* waiting tasks of the pool
    stopped,    \* the pool is stopped
    dedup,      \* committed rows of usage_billing_dedup: fingerprint by key
    archive,    \* rows of usage_billing_dedup_archive
    holder,     \* the open transaction that inserted the key's row
    charges,    \* tasks whose cost is committed
    balance,    \* users.balance
    faults      \* faults injected so far

pool   == <<queue, stopped>>
ledger == <<dedup, archive, holder, charges, balance>>
task   == <<stage, place, result, newBalance>>

billingVars == <<usage, task, pool, ledger, faults>>

Executing == {"claim", "compare", "archive", "charge", "applied", "enqueue"}
InTx      == {"claim", "compare", "archive", "charge"}
Stages    == {"idle", "check", "load", "decide", "run", "queued", "done"} \union Executing
Results   == {"none", "billed", "duplicate", "conflict", "failed", "dropped", "crashed"}

KeyOf(t)   == usage[t].key
PrintOf(t) == usage[t].print

Inject == faults < MaxFaults /\ faults' = faults + 1

Goto(t, s)   == stage' = [stage EXCEPT ![t] = s]
End(t, r)    == /\ Goto(t, "done")
                /\ place' = [place EXCEPT ![t] = "caller"]
                /\ result' = [result EXCEPT ![t] = r]
                /\ newBalance' = [newBalance EXCEPT ![t] = 0]
Free(t)      == [k \in Keys |-> IF holder[k] = t THEN NoTask ELSE holder[k]]
Running      == {t \in Tasks : place[t] = "worker" /\ stage[t] \in Executing}

----------------------------------------------------------------------------
(* The worker pool                                                         *)

\* Submit answered "dropped"; a mandatory task then runs in its caller
Dropped(t) ==
    /\ \/ t \notin Mandatory /\ End(t, "dropped")
       \/ t \in Mandatory /\ Goto(t, "claim") /\ UNCHANGED <<result, newBalance>>
          /\ place' = [place EXCEPT ![t] = "caller"]
    /\ UNCHANGED <<usage, pool, ledger, faults>>

\* Submit found room in the queue
Enqueue(t) ==
    /\ stage[t] = "run"
    /\ ~stopped /\ Len(queue) < QueueSize
    /\ queue' = Append(queue, t)
    /\ Goto(t, "queued")
    /\ UNCHANGED <<usage, place, result, newBalance, stopped, ledger, faults>>

\* The queue is full and the policy runs the task in the caller
Overflow(t) ==
    /\ stage[t] = "run"
    /\ ~stopped /\ Len(queue) = QueueSize
    /\ Policy \in {"sync", "sample"}
    /\ Goto(t, "claim")
    /\ place' = [place EXCEPT ![t] = "caller"]
    /\ UNCHANGED <<usage, result, newBalance, pool, ledger, faults>>

Drop(t) ==
    /\ stage[t] = "run"
    /\ stopped \/ (Len(queue) = QueueSize /\ Policy \in {"drop", "sample"})
    /\ Dropped(t)

\* A worker takes the oldest waiting task.  The auto-scaler keeps the number of
\* workers anywhere in MinWorkers..MaxWorkers
Start ==
    /\ queue # <<>>
    /\ Cardinality(Running) < MaxWorkers
    /\ Goto(Head(queue), "claim")
    /\ place' = [place EXCEPT ![Head(queue)] = "worker"]
    /\ queue' = Tail(queue)
    /\ UNCHANGED <<usage, result, newBalance, stopped, ledger, faults>>

\* Mutant: what waits is forgotten
Stop_Discards ==
    /\ ~stopped /\ stopped' = TRUE /\ queue' = <<>>
    /\ UNCHANGED <<usage, task, ledger, faults>>

\* StopAndWait: no task is taken any more, the waiting ones still run
Stop ==
    /\ ~stopped
    /\ stopped' = TRUE
    /\ UNCHANGED <<usage, task, queue, ledger, faults>>

----------------------------------------------------------------------------
(* Apply: one transaction                                                  *)

\* Compared with the row that is already there
Verdict(t, print) == IF print = PrintOf(t) THEN "duplicate" ELSE "conflict"

\* Mutant: an open insert of the same key counts as its claim
Claim_NoWait(t) ==
    LET k == KeyOf(t)
    IN  /\ stage[t] = "claim"
        /\ \/ /\ holder[k] # NoTask
              /\ End(t, Verdict(t, PrintOf(holder[k])))
              /\ UNCHANGED holder
           \/ /\ holder[k] = NoTask
              /\ Goto(t, IF dedup[k] # NoPrint THEN "compare" ELSE "archive")
              /\ holder' = [holder EXCEPT ![k] = IF dedup[k] # NoPrint THEN @ ELSE t]
              /\ UNCHANGED <<place, result, newBalance>>
        /\ UNCHANGED <<usage, pool, dedup, archive, charges, balance, faults>>

\* INSERT ... ON CONFLICT DO NOTHING waits for an open insert of the same key
Claim(t) ==
    LET k == KeyOf(t)
    IN  /\ stage[t] = "claim"
        /\ holder[k] = NoTask
        /\ \/ dedup[k] # NoPrint /\ Goto(t, "compare") /\ UNCHANGED holder
           \/ /\ dedup[k] = NoPrint
              /\ Goto(t, "archive")
              /\ holder' = [holder EXCEPT ![k] = t]
        /\ UNCHANGED <<usage, place, result, newBalance, pool, dedup, archive, charges, balance, faults>>

\* The claim is read in a second statement; the cleanup may have moved it
Compare(t) ==
    LET print == dedup[KeyOf(t)]
    IN  /\ stage[t] = "compare"
        /\ End(t, IF print = NoPrint THEN "failed" ELSE Verdict(t, print))
        /\ UNCHANGED <<usage, pool, ledger, faults>>

\* Mutant: a claim that was archived is forgotten
CheckArchive_Skipped(t) ==
    /\ stage[t] = "archive"
    /\ Goto(t, "charge")
    /\ UNCHANGED <<usage, place, result, newBalance, pool, ledger, faults>>

\* An archived claim ends the transaction, which rolls the insert back
CheckArchive(t) ==
    LET print == archive[KeyOf(t)]
    IN  /\ stage[t] = "archive"
        /\ \/ print = NoPrint /\ Goto(t, "charge") /\ UNCHANGED <<place, result, newBalance, holder>>
           \/ print # NoPrint /\ End(t, Verdict(t, print)) /\ holder' = Free(t)
        /\ UNCHANGED <<usage, pool, dedup, archive, charges, balance, faults>>

\* applyUsageBillingEffects and the commit; the balance may go below zero
Commit(t) ==
    /\ stage[t] = "charge"
    /\ dedup' = [dedup EXCEPT ![KeyOf(t)] = PrintOf(t)]
    /\ holder' = Free(t)
    /\ charges' = charges \union {t}
    /\ balance' = balance - 1
    /\ UNCHANGED <<usage, pool, archive>>

Apply(t) ==
    /\ Commit(t)
    /\ newBalance' = [newBalance EXCEPT ![t] = balance - 1]
    /\ Goto(t, "applied")
    /\ UNCHANGED <<place, result, faults>>

\* The commit's answer is lost: applyUsageBilling sees an error
LoseAnswer(t) ==
    /\ Commit(t)
    /\ Inject
    /\ End(t, "failed")

\* Mutant: the claim is committed before the effects
Fail_ClaimStays(t) ==
    /\ stage[t] \in InTx
    /\ Inject
    /\ End(t, "failed")
    /\ dedup' = [k \in Keys |-> IF holder[k] = t THEN PrintOf(t) ELSE dedup[k]]
    /\ holder' = Free(t)
    /\ UNCHANGED <<usage, pool, archive, charges, balance>>

\* A statement fails, a row is gone or the deadline passes: everything rolls back
Fail(t) ==
    /\ stage[t] \in InTx
    /\ Inject
    /\ End(t, "failed")
    /\ holder' = Free(t)
    /\ UNCHANGED <<usage, pool, dedup, archive, charges, balance>>

\* CleanupUsageBillingDedup moves a claim in one statement
Cleanup(k) ==
    /\ dedup[k] # NoPrint
    /\ archive' = [archive EXCEPT ![k] = IF @ = NoPrint THEN dedup[k] ELSE @]
    /\ dedup' = [dedup EXCEPT ![k] = NoPrint]
    /\ UNCHANGED <<usage, task, pool, holder, charges, balance, faults>>

----------------------------------------------------------------------------
(* The process                                                             *)

\* The process dies with everything it holds and is started again
Crash ==
    /\ Inject
    /\ stage' = [t \in Tasks |-> IF stage[t] = "idle" THEN "idle" ELSE "done"]
    /\ result' = [t \in Tasks |-> IF stage[t] \in {"idle", "done"} THEN result[t] ELSE "crashed"]
    /\ place' = [t \in Tasks |-> "caller"]
    /\ newBalance' = [t \in Tasks |-> 0]
    /\ queue' = <<>>
    /\ stopped' = FALSE
    /\ holder' = [k \in Keys |-> NoTask]
    /\ UNCHANGED <<usage, dedup, archive, charges, balance>>

BillingInit ==
    /\ usage \in Usages
    /\ stage = [t \in Tasks |-> "idle"]
    /\ place = [t \in Tasks |-> "caller"]
    /\ result = [t \in Tasks |-> "none"]
    /\ newBalance = [t \in Tasks |-> 0]
    /\ queue = <<>>
    /\ stopped = FALSE
    /\ dedup = [k \in Keys |-> NoPrint]
    /\ archive = [k \in Keys |-> NoPrint]
    /\ holder = [k \in Keys |-> NoTask]
    /\ charges = {}
    /\ balance = InitialBalance
    /\ faults = 0

Submit(t)  == Enqueue(t) \/ Overflow(t) \/ Drop(t)

----------------------------------------------------------------------------
(* Properties                                                              *)

\* Types, and the pool's queue within its capacity
BillingTypeOK ==
    /\ usage \in Usages
    /\ stage \in [Tasks -> Stages]
    /\ place \in [Tasks -> {"worker", "caller"}]
    /\ result \in [Tasks -> Results]
    /\ newBalance \in [Tasks -> Int]
    /\ queue \in Seq(Tasks) /\ Len(queue) <= QueueSize
    /\ stopped \in BOOLEAN
    /\ dedup \in [Keys -> Prints \union {NoPrint}]
    /\ archive \in [Keys -> Prints \union {NoPrint}]
    /\ holder \in [Keys -> Tasks \union {NoTask}]
    /\ charges \subseteq Tasks
    /\ balance \in Int
    /\ faults \in 0..MaxFaults

\* However often the usage of a request is submitted, whatever answer is lost
\* and whenever its claim is archived, it is charged once
BilledAtMostOnce ==
    \A t, u \in charges : KeyOf(t) = KeyOf(u) => t = u

Claims(k) == {dedup[k], archive[k]} \ {NoPrint}

\* A claim is on record exactly when its cost is: no failed or crashed attempt
\* leaves a claim that would block the charge, no charge is without its claim
ClaimedIffCharged ==
    \A k \in Keys : Claims(k) = {PrintOf(t) : t \in {u \in charges : KeyOf(u) = k}}

\* A task that was told "already billed" is right about that: the same usage
\* has been charged by another task
SkippedIsBilled ==
    \A t \in Tasks : result[t] = "duplicate" =>
        \E u \in charges : KeyOf(u) = KeyOf(t) /\ PrintOf(u) = PrintOf(t)

\* What the pool accepted is carried out, through resizing and after Stop: in
\* the end (a task is submitted once) none is left waiting or half-way; and the
\* usage of an image request is dropped by no overflow and no shutdown
AcceptedIsExecuted ==
    <>[](\A t \in Tasks : /\ stage[t] \notin {"queued"} \union Executing
                          /\ t \in Mandatory => result[t] # "dropped")
============================================================================

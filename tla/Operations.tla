----------------------------- MODULE Operations -----------------------------
(***************************************************************************)
(* The durable paid-message operation of                                   *)
(* crates/konsensus-api/src/handlers/messages/operations.rs: one row of    *)
(* the table outbox_operations, the programs that work on it (a POST that  *)
(* composes and pays, the recovery sweep, abandon, release, compaction),   *)
(* the wallet, the spend ledger of a paired client, and the tables         *)
(* messages and pending_deliveries that the paid commit fills.             *)
(*                                                                         *)
(* A process runs at most one program on an operation at a time: every     *)
(* program holds operation_lock.  A process is therefore one sequential    *)
(* actor, and two elements of Procs are two operating system processes     *)
(* that share the database.  A program is cut at every await: between two  *)
(* of its steps any other actor may step, and the program may die (crash   *)
(* of the process, or the HTTP request is dropped).                        *)
(*                                                                         *)
(* The row's version column is abstracted to the set "current" of the      *)
(* processes whose copy of the row still has the stored version: an update *)
(* WHERE version = ? succeeds for exactly these.                           *)
(***************************************************************************)
EXTENDS Naturals, FiniteSets, Functions

CONSTANTS
    Procs,      \* processes that share the database
    Execs,      \* execution ids: each claim takes an unused one
    Hashes,     \* payment hashes: each dispatch pays an unused one
    Callers,    \* who may post: a subset of {"owner", "client"}
    Fees,       \* whether the wallet reports fees: a subset of BOOLEAN
    MaxLate,    \* bound on updates still queued in the SQL worker
    None        \* SQL NULL / Rust None

ASSUME OperationsAssumption ==
    /\ None \notin Execs
    /\ None \notin Hashes
    /\ Callers \subseteq {"owner", "client"}
    /\ Fees \subseteq BOOLEAN
    /\ MaxLate \in Nat

VARIABLES
    row,        \* the stored outbox_operations row, None before the insert
    current,    \* processes whose copy has the stored version
    late,       \* updates of cancelled requests, still queued in the SQL worker
    proc,       \* program counter and locals of each process
    links,      \* per process: reservations its sweep listed in the ledger
    execs,      \* execution ids handed out
    wallet,     \* per hash: what the Lightning wallet knows
    payer,      \* per hash: the execution that dispatched it
    ledger,     \* per execution: its reservation in the client's grant
    msg,        \* the message row of this operation (by execution), or None
    pend,       \* its pending_deliveries row
    del,        \* progress of DELETE /messages/:id, used at most once
    flushing    \* the pending-delivery flusher is between mark and send

journal  == <<row, current, late>>
delivery == <<msg, pend, del, flushing>>
money    == <<wallet, payer, ledger>>
vars     == <<journal, proc, links, execs, money, delivery>>

-----------------------------------------------------------------------------
(* Data *)

States == {"prepared", "paying", "payment_unknown", "paid", "sent", "acked",
           "rejected_retryable", "failed_paid", "released", "abandoned"}

\* PaymentDetails: "proof" is a preimage of the hash, "fee" a known fee.
Details == [status : {"none", "pending", "failed", "settled"},
            hash : Hashes \cup {None}, proof : BOOLEAN, fee : BOOLEAN]
NoDetails == [status |-> "none", hash |-> None, proof |-> FALSE, fee |-> FALSE]

\* OutboxOperation with its Recovery blob, for one peer, one request, a
\* positive price and no admission payment.  A reservation is named by the
\* execution that made it; "resolutions" is budget_resolutions, with
\* actual_msat Some(0), Some(principal + fee) and None.
Rows == [state : States, caller : Callers, exec : Execs \cup {None},
         dispatched : BOOLEAN, hash : Hashes \cup {None},
         settlement : Details, settled : BOOLEAN, ready : BOOLEAN,
         draft : BOOLEAN, mid : Execs \cup {None},
         resv : Execs \cup {None},
         resolutions : [Execs -> {"none", "zero", "paid", "unknown"}],
         compacted : BOOLEAN, error : {"none", "incomplete", "other"}]

\* NULL is no row.
ASSUME NoRowAssumption == None \notin Rows

Prepared(c) ==
    [state |-> "prepared", caller |-> c, exec |-> None, dispatched |-> FALSE,
     hash |-> None, settlement |-> NoDetails, settled |-> FALSE,
     ready |-> FALSE, draft |-> FALSE, mid |-> None, resv |-> None,
     resolutions |-> [e \in Execs |-> "none"], compacted |-> FALSE,
     error |-> "none"]

AccountingPending(r) ==
    r.resv # None \/ \E e \in Execs : r.resolutions[e] # "none"

Labels == {"idle", "abandoned", "attach", "budget", "drain", "drained", "reopen",
           "reconcile", "apply", "retry", "paid", "resend", "sending", "fence",
           "claim", "reserve", "attach_debit", "draft", "keysend", "invoice",
           "poll", "unsent", "calling", "record", "await", "envelope",
           "materialize", "debit", "fail"}

\* task: what the process runs; pc: its next step; next: where a subroutine
\* (recover_budget, drain_resolutions) returns to; op: its copy of the row;
\* ex, pay: the execution and the hash of a paying worker; keysend: the hash is
\* paid by keysend; seen: the PaymentDetails last read; err: the result class.
ProcTypes ==
    [task : {"none", "compose", "sweep", "abandon", "release"}, pc : Labels,
     next : Labels, op : Rows \cup {None}, caller : Callers \cup {"none"},
     ex : Execs \cup {None}, pay : Hashes \cup {None}, keysend : BOOLEAN,
     seen : Details, err : {"ok", "unresolved", "proof", "other"}]
Idle ==
    [task |-> "none", pc |-> "idle", next |-> "idle", op |-> None,
     caller |-> "none", ex |-> None, pay |-> None, keysend |-> FALSE,
     seen |-> NoDetails, err |-> "ok"]

TypeOK ==
    /\ row \in Rows \cup {None}
    /\ current \subseteq Procs
    /\ late \subseteq [row : Rows, commit : BOOLEAN]
    /\ proc \in [Procs -> ProcTypes]
    /\ links \in [Procs -> SUBSET Execs]
    /\ execs \subseteq Execs
    /\ wallet \in [Hashes -> {"none", "transit", "inflight", "settled", "failed"}]
    /\ payer \in [Hashes -> Execs \cup {None}]
    /\ ledger \in [Execs -> {"none", "reserved", "released", "charged"}]
    /\ msg \in Execs \cup {None}
    /\ pend \in {"none", "queued", "sent", "backoff", "failed"}
    /\ del \in {"no", "half", "done"}
    /\ flushing \in BOOLEAN

-----------------------------------------------------------------------------
(* The external parties, as operations.rs uses them *)

\* What get_payment_status(h) may answer.  A payment the wallet has not
\* recorded (yet) is not found; a found one has its present status.
Answers(h) ==
    CASE wallet[h] = "inflight" -> {[NoDetails EXCEPT !.status = "pending", !.hash = h]}
      [] wallet[h] = "failed"   -> {[NoDetails EXCEPT !.status = "failed", !.hash = h]}
      [] wallet[h] = "settled"  -> [status : {"settled"}, hash : {h}, proof : BOOLEAN, fee : Fees]
      [] OTHER                  -> {}

\* try_resolve_spend_outcome: only a reservation still pending is resolved.
Resolved(e, actual) ==
    [ledger EXCEPT ![e] =
        CASE @ = "reserved" /\ actual = "zero" -> "released"
          [] @ = "reserved" /\ actual = "paid" -> "charged"
          [] OTHER -> @]

-----------------------------------------------------------------------------
(* Reading and writing the row *)

Goto(p, l) == proc' = [proc EXCEPT ![p].pc = l]

\* The program returns or fails; its copy of the row is gone.
Finish(p) ==
    /\ proc' = [proc EXCEPT ![p] = Idle]
    /\ current' = current \ {p}

\* A subroutine returns to the step "next", or ends the program.
Resumed(p) == IF proc[p].next = "idle" THEN Idle ELSE [proc[p] EXCEPT !.pc = proc[p].next]
Returns(p) ==
    IF proc[p].next = "idle" THEN Finish(p) ELSE Goto(p, proc[p].next) /\ UNCHANGED current

\* The UPDATE commits: every other copy of the row is now of an old version,
\* and so is every update still queued.  A paying worker keeps no copy: each of
\* its handlers loads the row again.
Commit(p, r, local) ==
    /\ row' = r
    /\ late' = {}
    /\ current' = IF local = Idle THEN {} ELSE {p}
    /\ proc' = [proc EXCEPT ![p] =
            IF local = Idle THEN Idle ELSE [local EXCEPT !.op = IF local.ex = None THEN r ELSE None]]

\* The request is dropped while its UPDATE waits in the SQL worker.
Cancelled(p, r, commit) ==
    /\ Cardinality(late) < MaxLate
    /\ late' = late \cup {[row |-> r, commit |-> commit]}
    /\ Finish(p)
    /\ UNCHANGED row

\* save() of a row just loaded in the same handler (Operation::load .. save).
\* A version conflict is a failure of the handler, which every caller models.
Update(p, r, local) == Commit(p, r, local) \/ Cancelled(p, r, FALSE)

\* Mutant: the UPDATE without AND version = ?.
Save_NoVersion(p, r, local) == Update(p, r, local)

\* save() of a copy taken in an earlier step: the version must still match.
\* Conflict ends the program (action Stop).
Save(p, r, local) == p \in current /\ Update(p, r, local)

\* materialize(): the row becomes paid, the message and its queue entry are
\* inserted, in one transaction that fails when the message row exists.
Materialize(p, r, local) ==
    LET paid == [r EXCEPT !.state = "paid"] IN
    /\ p \in current /\ row # None
    /\ msg # r.mid
    /\ \/ /\ Commit(p, paid, local)
          /\ msg' = r.mid
          /\ pend' = IF pend = "none" THEN "queued" ELSE pend
       \/ Cancelled(p, paid, TRUE) /\ UNCHANGED <<msg, pend>>
    /\ UNCHANGED <<del, flushing>>

\* A queued update reaches the database with the version it was written for.
LateCommit ==
    \E w \in late :
        /\ w.commit => msg # w.row.mid
        /\ row' = w.row
        /\ late' = {}
        /\ current' = {}
        /\ msg' = IF w.commit THEN w.row.mid ELSE msg
        /\ pend' = IF w.commit /\ pend = "none" THEN "queued" ELSE pend
        /\ UNCHANGED <<proc, links, execs, money, del, flushing>>

\* A program ends early: the process crashes, the request is dropped, or a
\* storage error or version conflict is returned with "?".
Stop(p) ==
    /\ proc[p].pc # "idle"
    /\ Finish(p)
    /\ UNCHANGED <<row, late, links, execs, money, delivery>>

-----------------------------------------------------------------------------
(* Budget resolutions *)

QueueResolution(r, e, actual) ==
    IF r.resolutions[e] \in {"none", "unknown"}
    THEN [r EXCEPT !.resolutions[e] = actual] ELSE r

QueueMessageResolution(r, actual) ==
    IF r.resv = None THEN r ELSE QueueResolution(r, r.resv, actual)

Actual(d) == IF d.fee THEN "paid" ELSE "unknown"

SettlementMatches(r) ==
    /\ r.settlement.status = "settled"
    /\ r.hash # None
    /\ r.settlement.hash = r.hash

\* Mutant: an unsettled payment is taken for none.
BudgetRow_Unsettled(r) ==
    QueueMessageResolution(r, IF SettlementMatches(r) THEN Actual(r.settlement) ELSE "zero")

\* The row recover_budget saves before it drains.
BudgetRow(r) ==
    CASE SettlementMatches(r) -> QueueMessageResolution(r, Actual(r.settlement))
      [] ~SettlementMatches(r) /\ (r.state = "released" \/ (~r.dispatched /\ ~r.ready))
            -> QueueMessageResolution(r, "zero")
      [] OTHER -> r

RecoverBudget(p) ==
    LET me == proc[p] IN
    /\ me.pc = "budget"
    /\ IF ~AccountingPending(me.op)
       THEN Returns(p) /\ UNCHANGED <<row, late>>
       ELSE IF BudgetRow(me.op) = me.op
            THEN Goto(p, "drain") /\ UNCHANGED journal
            ELSE Save(p, BudgetRow(me.op), [me EXCEPT !.pc = "drain"])
    /\ UNCHANGED <<links, execs, money, delivery>>

\* The ledger is resolved before the row forgets the resolutions.
Drainable(r) == {e \in Execs : r.resolutions[e] \in {"zero", "paid"}}

Drain(p) ==
    LET me == proc[p] IN
    /\ me.pc = "drain"
    /\ ledger' = [e \in Execs |-> IF e \in Drainable(me.op)
                                  THEN Resolved(e, me.op.resolutions[e])[e] ELSE ledger[e]]
    /\ IF Drainable(me.op) = {} THEN Returns(p) ELSE Goto(p, "drained") /\ UNCHANGED current
    /\ UNCHANGED <<row, late, links, execs, wallet, payer, delivery>>

DrainedRow(r) ==
    [r EXCEPT !.resv = IF @ \in Drainable(r) THEN None ELSE @,
              !.resolutions = [e \in Execs |-> IF e \in Drainable(r) THEN "none" ELSE @[e]]]

Drained(p) ==
    LET me == proc[p] IN
    /\ me.pc = "drained"
    /\ Save(p, DrainedRow(me.op), Resumed(p))
    /\ UNCHANGED <<links, execs, money, delivery>>

-----------------------------------------------------------------------------
(* Reconciling an operation that may have paid *)

\* Where reconcile returns to.  The sweep's second recover_budget, right after
\* it, finds what the first one left and is skipped.
Return(p) == IF proc[p].task = "compose" THEN "retry" ELSE "paid"
Back(p)   == [proc[p] EXCEPT !.pc = Return(p)]
Drains(p) == [proc[p] EXCEPT !.pc = "drain", !.next = Return(p)]

WithEvidence(r) == [r EXCEPT !.settled = @ \/ SettlementMatches(r)]
Unknown(r) == [r EXCEPT !.state = "payment_unknown"]

Unresolved(r) == r.state \in {"paying", "payment_unknown"}

ReconcileSkip(p) ==
    /\ proc[p].pc = "reconcile"
    /\ ~Unresolved(proc[p].op)
    /\ proc' = [proc EXCEPT ![p] = Back(p)]
    /\ UNCHANGED <<journal, links, execs, money, delivery>>

\* Nothing was dispatched: back to prepared, fencing the old execution, unless
\* an earlier settlement or hash says that this is no fresh attempt.
ReconcileUndispatched(p) ==
    LET r == WithEvidence(proc[p].op) IN
    /\ proc[p].pc = "reconcile"
    /\ Unresolved(r) /\ ~r.dispatched /\ ~r.ready
    /\ IF r.settled \/ r.hash # None
       THEN Save(p, Unknown(r), Back(p))
       ELSE Save(p, [QueueMessageResolution(r, "zero") EXCEPT
                        !.resv = None, !.exec = None, !.state = "prepared"], Drains(p))
    /\ UNCHANGED <<links, execs, money, delivery>>

\* The proof is on the row: only the paid commit is left.
ReconcileReady(p) ==
    LET r == WithEvidence(proc[p].op) IN
    /\ proc[p].pc = "reconcile"
    /\ Unresolved(r) /\ r.ready
    /\ Materialize(p, r, [proc[p] EXCEPT !.pc = "budget", !.next = Return(p)])
    /\ UNCHANGED <<links, execs, money>>

\* Dispatched without a proof: recorded terminal details, else ask the wallet.
Evidence(r) ==
    CASE r.settlement.status = "failed" \/ (r.settlement.status = "settled" /\ r.settlement.proof)
            -> {r.settlement}
      [] OTHER -> {NoDetails} \cup (IF r.hash = None THEN {} ELSE Answers(r.hash))

ReconcileLookup(p) ==
    LET r == WithEvidence(proc[p].op) IN
    /\ proc[p].pc = "reconcile"
    /\ Unresolved(r) /\ r.dispatched /\ ~r.ready
    /\ \E d \in Evidence(r) :
         proc' = [proc EXCEPT ![p].pc = "apply", ![p].seen = d]
    /\ UNCHANGED <<journal, links, execs, money, delivery>>

Identified(d, r) == d.hash # None /\ d.hash = r.hash

ApplyUnknown(p) ==
    LET d == proc[p].seen  r == WithEvidence(proc[p].op) IN
    /\ proc[p].pc = "apply"
    /\ \/ d.status \in {"none", "pending"}
       \/ ~Identified(d, r)
       \/ d.status = "failed" /\ r.settled
    /\ Save(p, [Unknown(r) EXCEPT !.error = IF d.status \in {"none", "pending"} THEN @ ELSE "other"],
            Back(p))
    /\ UNCHANGED <<links, execs, money, delivery>>

ApplyFailed(p) ==
    LET d == proc[p].seen  r == WithEvidence(proc[p].op) IN
    /\ proc[p].pc = "apply"
    /\ d.status = "failed" /\ Identified(d, r) /\ ~r.settled
    /\ Save(p, [QueueMessageResolution([r EXCEPT !.settlement = d], "zero") EXCEPT !.state = "released"],
            Drains(p))
    /\ UNCHANGED <<links, execs, money, delivery>>

SettledRow(r, d) ==
    QueueMessageResolution([r EXCEPT !.settled = TRUE, !.settlement = d], Actual(d))

ApplySettled(p) ==
    LET d == proc[p].seen  r == WithEvidence(proc[p].op) IN
    /\ proc[p].pc = "apply"
    /\ d.status = "settled" /\ Identified(d, r)
    /\ IF d.proof /\ r.draft
       THEN Materialize(p, [SettledRow(r, d) EXCEPT !.ready = TRUE], Drains(p))
       ELSE /\ Save(p, [Unknown(SettledRow(r, d)) EXCEPT !.error = "incomplete"], Drains(p))
            /\ UNCHANGED delivery
    /\ UNCHANGED <<links, execs, money>>

Reconcile(p) ==
    \/ ReconcileSkip(p) \/ ReconcileUndispatched(p) \/ ReconcileReady(p)
    \/ ReconcileLookup(p) \/ ApplyUnknown(p) \/ ApplyFailed(p) \/ ApplySettled(p)

-----------------------------------------------------------------------------
(* compose_locked up to the claim, abandon_operation *)

\* A paired client only continues an operation of its own.
MayContinue(c) == c = "client" => row.caller = "client"

\* A POST inserts the row, or loads what an earlier POST left.  An abandoned id
\* is refused, as is another client's: neither changes anything.
Compose(p, c) ==
    LET start == [Idle EXCEPT !.task = "compose", !.caller = c] IN
    /\ proc[p].pc = "idle"
    /\ \/ /\ row = None
          /\ Commit(p, Prepared(c), [start EXCEPT !.pc = "claim"])
       \/ /\ row # None
          /\ MayContinue(c) /\ row.state # "abandoned"
          /\ proc' = [proc EXCEPT ![p] = [start EXCEPT !.pc = "budget", !.next = "reopen", !.op = row]]
          /\ current' = current \cup {p}
          /\ UNCHANGED <<row, late>>
    /\ UNCHANGED <<links, execs, money, delivery>>

\* Rows that early builds closed as failed_paid although a proof may still come.
Reopen(p) ==
    LET me == proc[p] IN
    /\ me.pc = "reopen"
    /\ IF me.op.state = "failed_paid" /\ ~me.op.compacted /\ me.op.error = "incomplete"
       THEN Save(p, Unknown(me.op), [me EXCEPT !.pc = "reconcile"])
       ELSE Goto(p, "reconcile") /\ UNCHANGED journal
    /\ UNCHANGED <<links, execs, money, delivery>>

\* Mutant: a POST pays again while the first payment is unresolved.
Retry_PayUnknown(p) ==
    LET state == proc[p].op.state IN
    /\ proc[p].pc = "retry"
    /\ CASE state \in {"paid", "sent", "rejected_retryable"} -> Goto(p, "resend") /\ UNCHANGED current
         [] state \in {"prepared", "released", "payment_unknown"} -> Goto(p, "claim") /\ UNCHANGED current
         [] OTHER -> Finish(p)
    /\ UNCHANGED <<row, late, links, execs, money, delivery>>

Retry(p) ==
    LET state == proc[p].op.state IN
    /\ proc[p].pc = "retry"
    /\ CASE state \in {"paid", "sent", "rejected_retryable"} -> Goto(p, "resend") /\ UNCHANGED current
         [] state \in {"prepared", "released"} -> Goto(p, "claim") /\ UNCHANGED current
         [] OTHER -> Finish(p)
    /\ UNCHANGED <<row, late, links, execs, money, delivery>>

\* The claim fences every earlier execution of the operation.
ClaimedRow(r, e) ==
    [r EXCEPT !.state = "paying", !.exec = e, !.compacted = FALSE,
              !.dispatched = FALSE, !.hash = None, !.settlement = NoDetails,
              !.ready = FALSE, !.draft = FALSE, !.resv = None]

Claim(p) ==
    \E e \in Execs \ execs :
        /\ proc[p].pc = "claim"
        /\ Save(p, ClaimedRow(proc[p].op, e),
                [Idle EXCEPT !.pc = "reserve", !.ex = e, !.caller = proc[p].caller])
        /\ execs' = execs \cup {e}
        /\ UNCHANGED <<links, money, delivery>>

\* proven_unpaid also asks the peer's admission journal and the wallet about
\* admission hashes; their doubt makes its answer FALSE at any time.
ProvenUnpaid(r) ==
    /\ ~r.dispatched /\ ~r.ready /\ ~r.settled
    /\ r.settlement.status = "none" /\ r.hash = None

Abandon(p, c) ==
    LET start == [Idle EXCEPT !.task = "abandon", !.caller = c, !.op = row] IN
    /\ proc[p].pc = "idle"
    /\ \/ /\ row = None
          /\ row' = [Prepared(c) EXCEPT !.state = "abandoned"]
          /\ UNCHANGED <<current, late, proc>>
       \/ /\ row # None
          /\ MayContinue(c)
          /\ row.state \in {"prepared", "released"} /\ ProvenUnpaid(row)
          /\ proc' = [proc EXCEPT ![p] = [start EXCEPT !.pc = "budget", !.next = "fence"]]
          /\ current' = current \cup {p}
          /\ UNCHANGED <<row, late>>
    /\ UNCHANGED <<links, execs, money, delivery>>

\* After recover_budget: fence the id for good.
Fence(p) ==
    /\ proc[p].pc = "fence"
    /\ Save(p, [proc[p].op EXCEPT !.state = "abandoned", !.exec = None], Idle)
    /\ UNCHANGED <<links, execs, money, delivery>>

-----------------------------------------------------------------------------
(* The paying worker: compose_peer and the handlers of Operation *)

\* Operation::load: the row still belongs to this worker's execution.
Mine(p) == row # None /\ row.exec = proc[p].ex

\* The payment part of compose_peer ends with a result class; the debit is
\* resolved from it.
Ended(p, class) ==
    [Idle EXCEPT !.pc = "debit", !.ex = proc[p].ex, !.err = class, !.seen.fee = proc[p].seen.fee]
Ends(p, class) == proc' = [proc EXCEPT ![p] = Ended(p, class)]
Fails(p) == proc' = [proc EXCEPT ![p] = [Idle EXCEPT !.pc = "fail", !.ex = proc[p].ex]]

\* Reserve in the client's grant; the owner's own key is not metered.  Quotes,
\* caps and an exhausted grant refuse before that.
Reserve(p) ==
    /\ proc[p].pc = "reserve"
    /\ \/ /\ Goto(p, "attach_debit")
          /\ ledger' = IF proc[p].caller = "client"
                       THEN [ledger EXCEPT ![proc[p].ex] = "reserved"] ELSE ledger
       \/ Fails(p) /\ UNCHANGED ledger
    /\ UNCHANGED <<journal, links, execs, wallet, payer, delivery>>

AttachDebit(p) ==
    LET me == proc[p] IN
    /\ me.pc = "attach_debit"
    /\ \/ /\ Mine(p)
          /\ Update(p, [row EXCEPT !.resv = IF me.caller = "client" THEN me.ex ELSE None],
                    [me EXCEPT !.pc = "draft"])
          /\ UNCHANGED ledger
       \/ /\ Fails(p)
          /\ ledger' = Resolved(me.ex, "zero")
          /\ UNCHANGED journal
    /\ UNCHANGED <<links, execs, wallet, payer, delivery>>

\* Encrypt and keep the draft; then keysend when the peer's key is known, else
\* an invoice.
Draft(p) ==
    LET me == proc[p] IN
    /\ me.pc = "draft"
    /\ \/ \E way \in {"keysend", "invoice"} :
            /\ Mine(p)
            /\ Update(p, [row EXCEPT !.draft = TRUE, !.mid = me.ex], [me EXCEPT !.pc = way])
       \/ Ends(p, "other") /\ UNCHANGED journal
    /\ UNCHANGED <<links, execs, money, delivery>>

\* Operation::dispatch up to its save: the intent is durable before the wallet
\* is called.  A keysend's hash is not known before the wallet answers.
Dispatch(p) ==
    LET me == proc[p] IN
    /\ me.pc \in {"keysend", "invoice"}
    /\ \/ \E h \in {x \in Hashes : payer[x] = None} :
            /\ Mine(p) /\ ~row.dispatched
            /\ Update(p, [row EXCEPT !.dispatched = TRUE, !.settlement = NoDetails, !.state = "paying",
                                     !.hash = IF me.pc = "invoice" THEN h ELSE None],
                      [me EXCEPT !.pc = "poll", !.pay = h, !.keysend = me.pc = "keysend"])
            /\ payer' = [payer EXCEPT ![h] = me.ex]
       \/ /\ ~Mine(p) \/ row.dispatched
          /\ Ends(p, "unresolved") /\ UNCHANGED <<journal, payer>>
       \/ Ends(p, "other") /\ UNCHANGED <<journal, payer>>   \* offline, refused, storage
    /\ UNCHANGED <<links, execs, wallet, ledger, delivery>>

\* Debit::dispatch: the wallet is only polled while the reservation is pending
\* and the grant is live.  The wallet may refuse, or take the payment.
Authorized(p) == proc[p].caller = "client" => ledger[proc[p].ex] = "reserved"

PollWallet(p) ==
    LET me == proc[p] IN
    /\ me.pc = "poll"
    /\ \/ /\ Authorized(p)
          /\ wallet' = [wallet EXCEPT ![me.pay] = "transit"]
          /\ Goto(p, "calling")
       \/ /\ Authorized(p) /\ me.keysend        \* PaymentNotDispatched: fall back
          /\ proc' = [proc EXCEPT ![p].pc = "unsent", ![p].next = "invoice"]
          /\ UNCHANGED wallet
       \/ /\ proc' = [proc EXCEPT ![p].pc = "unsent", ![p].next = "debit"]
          /\ UNCHANGED wallet                   \* NotReady, disk_low, BudgetExceeded
    /\ UNCHANGED <<journal, links, execs, payer, ledger, delivery>>

\* Positive evidence of non-dispatch: withdraw the intent.  A refused keysend
\* falls back to an invoice in the same execution.
Unsent(p) ==
    LET me == proc[p] IN
    /\ me.pc = "unsent"
    /\ \/ /\ Mine(p)
          /\ Update(p, [row EXCEPT !.dispatched = FALSE, !.hash = None],
                    IF me.next = "invoice" THEN [me EXCEPT !.pc = "invoice", !.next = "idle", !.pay = None, !.keysend = FALSE]
                    ELSE Ended(p, "other"))
       \/ ~Mine(p) /\ Ends(p, "unresolved") /\ UNCHANGED journal
       \/ Ends(p, "other") /\ UNCHANGED journal
    /\ UNCHANGED <<links, execs, money, delivery>>

\* The wallet call returns details, or an error that proves nothing.  A keysend
\* may return before the backend knows the hash.
WalletReturns(p) ==
    LET me == proc[p]
        unnamed == {[d EXCEPT !.hash = None, !.proof = FALSE] : d \in Answers(me.pay)}
    IN
    /\ me.pc = "calling"
    /\ \/ \E d \in Answers(me.pay) \cup (IF me.keysend THEN unnamed ELSE {}) :
            proc' = [proc EXCEPT ![p].pc = "record", ![p].seen = d]
       \/ Ends(p, "unresolved")
    /\ UNCHANGED <<journal, links, execs, money, delivery>>

\* Operation::record, then what await_message_settlement does with the status.
Record(p) ==
    LET me == proc[p]
        d  == me.seen
        h  == IF d.hash = None THEN row.hash ELSE d.hash
        then == CASE d.status = "settled" -> [me EXCEPT !.pc = "envelope"]
                  [] d.status = "failed" -> Ended(p, "other")
                  [] d.hash = None -> Ended(p, "unresolved")
                  [] OTHER -> [me EXCEPT !.pc = "await"]
    IN
    /\ me.pc = "record"
    /\ \/ /\ Mine(p)
          /\ Update(p, [row EXCEPT !.hash = h, !.settlement = [d EXCEPT !.hash = h]], then)
       \/ Ends(p, "unresolved") /\ UNCHANGED journal
    /\ UNCHANGED <<links, execs, money, delivery>>

AwaitSettlement(p) ==
    LET me == proc[p] IN
    /\ me.pc = "await"
    /\ \/ \E d \in Answers(me.pay) : proc' = [proc EXCEPT ![p].pc = "record", ![p].seen = d]
       \/ Ends(p, "unresolved")                 \* timeout, or the status is unavailable
    /\ UNCHANGED <<journal, links, execs, money, delivery>>

\* Operation::settled_envelope: the proof is saved before the paid commit.
SettledEnvelope(p) ==
    LET me == proc[p]
        named == row.hash # None /\ row.hash = me.seen.hash /\ row.settlement.status = "settled"
    IN
    /\ me.pc = "envelope"
    /\ \/ /\ Mine(p) /\ me.seen.proof /\ row.draft /\ named
          /\ Update(p, [row EXCEPT !.ready = TRUE, !.settled = TRUE], [me EXCEPT !.pc = "materialize"])
       \/ ~Mine(p) /\ me.seen.proof /\ Ends(p, "unresolved") /\ UNCHANGED journal
       \/ Ends(p, "proof") /\ UNCHANGED journal  \* no usable proof, or storage
    /\ UNCHANGED <<links, execs, money, delivery>>

PaidCommit(p) ==
    /\ proc[p].pc = "materialize"
    /\ \/ Materialize(p, row, [Ended(p, "ok") EXCEPT !.pc = "resend"])
       \/ Ends(p, "proof") /\ UNCHANGED <<journal, delivery>>
    /\ UNCHANGED <<links, execs, money>>

\* The end of compose_peer: an unresolved payment stays reserved, a settled one
\* is charged when its fee is known, anything else never moved value.
DebitOutcome(p) ==
    LET me == proc[p] IN
    /\ me.pc = "debit"
    /\ ledger' = CASE me.err = "other" -> Resolved(me.ex, "zero")
                   [] me.err \in {"ok", "proof"} /\ me.seen.fee -> Resolved(me.ex, "paid")
                   [] OTHER -> ledger
    /\ IF me.err = "ok" THEN Finish(p) ELSE Fails(p) /\ UNCHANGED current
    /\ UNCHANGED <<row, late, links, execs, wallet, payer, delivery>>

\* Mutant: the error path ignores the dispatch intent.
Fail_Prepared(p) ==
    /\ proc[p].pc = "fail"
    /\ IF Mine(p) /\ row.state = "paying"
       THEN Update(p, [row EXCEPT !.error = "other", !.state = "prepared"], Idle)
       ELSE Finish(p) /\ UNCHANGED <<row, late>>
    /\ UNCHANGED <<links, execs, money, delivery>>

\* The error path of compose_locked.
Fail(p) ==
    /\ proc[p].pc = "fail"
    /\ IF Mine(p) /\ row.state = "paying"
       THEN \E proven \in {FALSE, ProvenUnpaid(row)} :
              Update(p, [row EXCEPT !.error = "other",
                                    !.state = CASE proven -> "released"
                                                [] ~proven /\ ~row.dispatched -> "prepared"
                                                [] OTHER -> "payment_unknown"], Idle)
       ELSE Finish(p) /\ UNCHANGED <<row, late>>
    /\ UNCHANGED <<links, execs, money, delivery>>

-----------------------------------------------------------------------------
(* Delivery: resend, the flusher, confirmations, DELETE /messages/:id *)

\* The operation row that a delivery statement of sqlite.rs updates, and with it
\* the version: WHERE message_id = ? AND state IN (..).  The processes in
\* "done" have no further use for their copy.
Touch(states, r, done) ==
    IF row # None /\ row.mid = msg /\ row.state \in states
    THEN row' = r /\ current' = {} /\ late' = {}
    ELSE current' = current \ done /\ UNCHANGED <<row, late>>

Deliverable == {"paid", "sent", "rejected_retryable"}

\* Time is not modelled: a backoff may have elapsed at any step.
MarkPendingSent(done) ==
    /\ msg # None
    /\ pend \in {"queued", "sent", "backoff"}
    /\ pend' = "sent"
    /\ Touch(Deliverable, [row EXCEPT !.state = IF @ = "rejected_retryable" THEN "paid" ELSE @],
             done)

\* Mutant: no state condition, so a late "sent" overwrites an ACK.
RecordOutboxSent_AnyState(done) == Touch(States, [row EXCEPT !.state = "sent"], done)

RecordOutboxSent(done) == Touch({"paid", "sent"}, [row EXCEPT !.state = "sent"], done)

ResendReturns(p, class) ==
    IF proc[p].ex = None THEN Finish(p) ELSE Ends(p, class) /\ UNCHANGED current

Resend(p) ==
    /\ proc[p].pc = "resend"
    /\ \/ /\ proc[p].ex # None => Mine(p)
          /\ MarkPendingSent({p})
          /\ Goto(p, "sending")
       \/ /\ ResendReturns(p, IF Mine(p) THEN "proof" ELSE "unresolved")
          /\ UNCHANGED <<row, late, pend>>
    /\ UNCHANGED <<links, execs, money, msg, del, flushing>>

\* transport.send, then record_outbox_sent when it succeeded.
Sending(p) ==
    /\ proc[p].pc = "sending"
    /\ \/ /\ RecordOutboxSent({p})
          /\ IF proc[p].ex = None THEN proc' = [proc EXCEPT ![p] = Idle] ELSE Ends(p, "ok")
       \/ ResendReturns(p, "ok") /\ UNCHANGED <<row, late>>
    /\ UNCHANGED <<links, execs, money, delivery>>

\* flush_peer takes no operation lock.
FlushMark ==
    /\ ~flushing
    /\ MarkPendingSent({})
    /\ flushing' = TRUE
    /\ UNCHANGED <<proc, links, execs, money, msg, del>>

FlushSend ==
    /\ flushing
    /\ flushing' = FALSE
    /\ RecordOutboxSent({}) \/ UNCHANGED journal
    /\ UNCHANGED <<proc, links, execs, money, msg, pend, del>>

\* Mutant: the row is updated outside the transaction, or never.
Acknowledge_QueueOnly ==
    /\ msg # None
    /\ pend \in {"sent", "backoff"}
    /\ pend' = "none"
    /\ UNCHANGED <<journal, proc, links, execs, money, msg, del, flushing>>

\* acknowledge_pending: the recipient's ACK consumes the queue entry.
Acknowledge ==
    /\ msg # None
    /\ pend \in {"sent", "backoff"}
    /\ pend' = "none"
    /\ Touch(Deliverable, [row EXCEPT !.state = "acked"], {})
    /\ UNCHANGED <<proc, links, execs, money, msg, del, flushing>>

Reject(terminal) ==
    /\ msg # None
    /\ pend = "sent"
    /\ pend' = IF terminal THEN "failed" ELSE "backoff"
    /\ Touch(Deliverable, [row EXCEPT !.state = IF terminal THEN "failed_paid" ELSE "rejected_retryable",
                                      !.error = "other"], {})
    /\ UNCHANGED <<proc, links, execs, money, msg, del, flushing>>

\* delete_message: two statements, no transaction.
DeleteMessage ==
    /\ \/ del = "no" /\ msg # None /\ del' = "half" /\ pend' = "none" /\ UNCHANGED msg
       \/ del = "half" /\ del' = "done" /\ msg' = None /\ pend' = "none"
    /\ UNCHANGED <<journal, proc, links, execs, money, flushing>>

-----------------------------------------------------------------------------
(* The sweep: reconcile_operations, release_failed_prepared, compaction *)

\* The reservations are listed before, and without, the operation lock.
ListLinks(p) ==
    /\ links' = [links EXCEPT ![p] = {e \in Execs : ledger[e] = "reserved"}]
    /\ UNCHANGED <<journal, proc, execs, money, delivery>>

Recoverable ==
    AccountingPending(row) \/ row.state \in {"paying", "payment_unknown", "paid", "sent", "rejected_retryable"}

Sweep(p) ==
    /\ proc[p].pc = "idle"
    /\ row # None
    /\ Recoverable \/ links[p] # {}
    /\ proc' = [proc EXCEPT ![p] =
            [Idle EXCEPT !.task = "sweep", !.op = row, !.next = "reconcile",
                         !.pc = IF row.state = "abandoned" THEN "abandoned" ELSE "attach"]]
    /\ current' = current \cup {p}
    /\ UNCHANGED <<row, late, links, execs, money, delivery>>

QueueAll(r, es) ==
    [r EXCEPT !.resolutions = [e \in Execs |->
        IF e \in es /\ @[e] \in {"none", "unknown"} THEN "zero" ELSE @[e]]]

\* An abandoned id: resolve linked debits that never reached the row.
SweepAbandoned(p) ==
    LET me == proc[p] IN
    /\ me.pc = "abandoned"
    /\ \/ /\ links[p] # {} /\ ProvenUnpaid(me.op)
          /\ Save(p, QueueAll(me.op, links[p]), [me EXCEPT !.pc = "drain", !.next = "idle"])
       \/ /\ proc' = [proc EXCEPT ![p].pc = "drain", ![p].next = "idle"]
          /\ UNCHANGED journal
    /\ UNCHANGED <<links, execs, money, delivery>>

\* A linked debit of a superseded execution, or of a compacted receipt, is
\* released; one of the live execution is attached.
AttachRecovered(p) ==
    LET me    == proc[p]
        r     == me.op
        fresh == {e \in links[p] : r.resolutions[e] = "none"}
        stale == {e \in fresh : r.compacted \/ (r.exec # None /\ r.exec # e)}
        mine  == fresh \ stale
    IN
    /\ me.pc = "attach"
    /\ \E v \in IF r.resv = None /\ mine # {} THEN mine ELSE {r.resv} :
         LET attached == [QueueAll(r, stale) EXCEPT !.resv = v] IN
         IF attached = r
         THEN Goto(p, "budget") /\ UNCHANGED journal
         ELSE Save(p, attached, [me EXCEPT !.pc = "budget"])
    /\ UNCHANGED <<links, execs, money, delivery>>

\* recover_paid: a paid operation whose envelope is gone fails closed; else it
\* is resent, unless the peer is offline or the resend is paced.
RecoverPaid(p) ==
    LET me == proc[p] IN
    /\ me.pc = "paid"
    /\ IF me.op.state # "paid" THEN Finish(p) /\ UNCHANGED <<row, late>>
       ELSE IF msg # me.op.mid THEN Save(p, [Unknown(me.op) EXCEPT !.error = "other"], Idle)
            ELSE (Goto(p, "resend") /\ UNCHANGED journal) \/ (Finish(p) /\ UNCHANGED <<row, late>>)
    /\ UNCHANGED <<links, execs, money, delivery>>

\* A failed compose left prepared: release it once it is proven unpaid.
ReleaseFailedPrepared(p) ==
    /\ proc[p].pc = "idle"
    /\ row # None
    /\ row.state = "prepared" /\ row.error # "none" /\ ProvenUnpaid(row)
    /\ Update(p, [row EXCEPT !.state = "released"],
              [Idle EXCEPT !.task = "release", !.pc = "budget", !.next = "idle"])
    /\ UNCHANGED <<links, execs, money, delivery>>

\* Thirty days after the last change (time is not modelled) the evidence of a
\* terminal row is dropped; its state, hash and settled amount stay.
CompactedRow(r) ==
    [r EXCEPT !.exec = None, !.dispatched = FALSE, !.settlement = NoDetails,
              !.ready = FALSE, !.draft = FALSE, !.compacted = TRUE]

Compact(p) ==
    /\ proc[p].pc = "idle"
    /\ links[p] = {}
    /\ row # None
    /\ row.state \in {"acked", "failed_paid", "released", "abandoned"}
    /\ ~AccountingPending(row) /\ ~row.compacted
    /\ Update(p, CompactedRow(row), Idle)
    /\ UNCHANGED <<links, execs, money, delivery>>

-----------------------------------------------------------------------------
(* The wallet and the specification *)

\* A request handed to the wallet may be recorded late, or be lost for good
\* (stay in transit); a recorded payment settles or fails, once.
WalletStep ==
    /\ \E h \in Hashes : \E s \in {"inflight", "settled", "failed"} :
         /\ wallet[h] = IF s = "inflight" THEN "transit" ELSE "inflight"
         /\ wallet' = [wallet EXCEPT ![h] = s]
    /\ UNCHANGED <<journal, proc, links, execs, payer, ledger, delivery>>

\* A row that an early build closed as failed_paid although its payment settled
\* (incomplete_settled_recovery).
LegacyRow(c, e, h) ==
    [Prepared(c) EXCEPT !.state = "failed_paid", !.exec = e, !.dispatched = TRUE, !.hash = h,
        !.settlement = [NoDetails EXCEPT !.status = "settled", !.hash = h],
        !.draft = TRUE, !.mid = e, !.error = "incomplete"]

Init ==
    /\ \/ /\ row = None
          /\ execs = {}
          /\ wallet = [h \in Hashes |-> "none"]
          /\ payer = [h \in Hashes |-> None]
       \/ \E c \in Callers, e \in Execs, g \in Hashes :
          /\ row = LegacyRow(c, e, g)
          /\ execs = {e}
          /\ wallet = [h \in Hashes |-> IF h = g THEN "settled" ELSE "none"]
          /\ payer = [h \in Hashes |-> IF h = g THEN e ELSE None]
    /\ current = {} /\ late = {}
    /\ proc = [p \in Procs |-> Idle]
    /\ links = [p \in Procs |-> {}]
    /\ ledger = [e \in Execs |-> "none"]
    /\ msg = None /\ pend = "none" /\ del = "no" /\ flushing = FALSE

Worker(p) ==
    \/ Claim(p) \/ Reserve(p) \/ AttachDebit(p) \/ Draft(p) \/ Dispatch(p)
    \/ PollWallet(p) \/ Unsent(p) \/ WalletReturns(p) \/ Record(p)
    \/ AwaitSettlement(p) \/ SettledEnvelope(p) \/ PaidCommit(p)
    \/ DebitOutcome(p) \/ Fail(p)

Budget(p) == RecoverBudget(p) \/ Drain(p) \/ Drained(p)

Request(p) == \E c \in Callers : Compose(p, c) \/ Abandon(p, c)

Recovery(p) ==
    \/ ListLinks(p) \/ Sweep(p) \/ SweepAbandoned(p) \/ AttachRecovered(p)
    \/ RecoverPaid(p) \/ ReleaseFailedPrepared(p) \/ Compact(p)

Deliver ==
    \/ FlushMark \/ FlushSend \/ Acknowledge \/ DeleteMessage
    \/ \E terminal \in BOOLEAN : Reject(terminal)

Next ==
    \/ \E p \in Procs :
        \/ Request(p) \/ Reopen(p) \/ Retry(p) \/ Fence(p)
        \/ Worker(p) \/ Budget(p) \/ Reconcile(p) \/ Recovery(p)
        \/ Resend(p) \/ Sending(p) \/ Stop(p)
    \/ LateCommit \/ WalletStep \/ Deliver

Spec == Init /\ [][Next]_vars

-----------------------------------------------------------------------------
(* Properties *)

\* A payment that reached the wallet and has not failed.
Live(h) == wallet[h] \in {"transit", "inflight", "settled"}

\* One operation never pays twice: over all retries, recoveries, crashes and
\* late writes at most one payment of it is under way or settled.
PaidOnce == \A g, h \in Hashes : Live(g) /\ Live(h) => g = h

\* A row that lets the next POST pay (prepared, released) or reports for good
\* that nothing was paid (abandoned) has no payment that may still settle.
UnpaidMeansUnpaid ==
    row # None /\ row.state \in {"prepared", "released", "abandoned"} => \A h \in Hashes : ~Live(h)

\* A row reported as paid names a payment that did settle.
PaidMeansSettled ==
    row # None /\ row.state \in {"paid", "sent", "acked", "rejected_retryable", "failed_paid"}
        => row.hash # None /\ wallet[row.hash] = "settled"

\* A client's reservation is given back only when no payment of its execution
\* may still settle, and charged only for a payment of it that settled.
BudgetFollowsPayment ==
    \A e \in Execs :
        /\ ledger[e] = "released" => ~\E h \in Hashes : payer[h] = e /\ Live(h)
        /\ ledger[e] = "charged" => \E h \in Hashes : payer[h] = e /\ wallet[h] = "settled"

\* Envelope, queue entry and paid row are one transaction, and so are their
\* later changes: what the queue may deliver has a deliverable row, and the
\* other way round until the message is deleted.
QueueMatchesRow ==
    LET queued == pend \in {"queued", "sent", "backoff"} IN
    /\ queued => row.mid = msg /\ row.state \in Deliverable
    /\ row # None /\ row.state \in Deliverable /\ del = "no" => row.mid = msg /\ queued

\* Settlement evidence is monotonic: once a row records the settlement of a
\* payment, no later write forgets it or names another payment, compaction and
\* writes of cancelled requests included.
EvidenceStays ==
    [][row # None /\ row.settled => row'.settled /\ row'.hash = row.hash]_row

\* An acknowledged operation and an abandoned id never become anything else.
TerminalStays ==
    [][row # None /\ row.state \in {"acked", "abandoned"} => row'.state = row.state]_row

====

---------------------------- MODULE OperationsInv ----------------------------
(***************************************************************************)
(* The inductive invariant behind PaidOnce, UnpaidMeansUnpaid,             *)
(* PaidMeansSettled and EvidenceStays, for any number of processes,        *)
(* executions, hashes and late writes.  It does not mention the operation  *)
(* lock, the spend ledger or the delivery queue: the version check, the    *)
(* execution id and the durable dispatch intent carry it alone.            *)
(***************************************************************************)
EXTENDS Operations

\* Programs that work on their copy of the row, and where their subroutines return.
Reading == {"abandoned", "attach", "budget", "drain", "drained", "reopen", "reconcile",
            "apply", "retry", "paid", "fence", "claim"}
Resumes == {"idle", "reopen", "reconcile", "retry", "paid", "fence"}

\* Locals of a program; one that reads its copy of the row is no paying worker.
Locals == {l \in ProcTypes : l.pc \in Reading => l.ex = None /\ l.next \in Resumes}

\* The type invariant with what makes it inductive: a program that reads its
\* copy of the row has one.
JournalType ==
    /\ row \in Rows \cup {None}
    /\ current \subseteq Procs
    /\ late \subseteq [row : Rows, commit : BOOLEAN]
    /\ proc \in [Procs -> Locals]
    /\ \A p \in Procs : proc[p].pc \in Reading => proc[p].op \in Rows
OtherType ==
    /\ links \in [Procs -> SUBSET Execs]
    /\ execs \subseteq Execs
    /\ wallet \in [Hashes -> {"none", "transit", "inflight", "settled", "failed"}]
    /\ payer \in [Hashes -> Execs \cup {None}]
    /\ ledger \in [Execs -> {"none", "reserved", "released", "charged"}]
    /\ msg \in Execs \cup {None}
    /\ pend \in {"none", "queued", "sent", "backoff", "failed"}
    /\ del \in {"no", "half", "done"}
    /\ flushing \in BOOLEAN
TypeInv == JournalType /\ OtherType

NoLive == \A h \in Hashes : ~Live(h)

\* The stored row and every write still queued for it.
AllRows == ({row} \cap Rows) \cup {w.row : w \in late}

\* Recorded details agree with the wallet; both outcomes are final.
Truth(d) == d.status \in {"failed", "settled"} /\ d.hash # None => wallet[d.hash] = d.status

Unpaid == {"prepared", "released", "abandoned"}
Closed == {"acked", "failed_paid", "released", "abandoned"}
Paid   == {"paid", "sent", "acked", "rejected_retryable", "failed_paid"}

\* A live payment is covered by the dispatch intent of the row, or by a receipt.
Covers(r, h) ==
    \/ r.dispatched /\ r.hash \in {h, None}
    \/ r.compacted /\ r.state \in {"acked", "failed_paid"}

Settled(r) == r.hash # None /\ wallet[r.hash] = "settled"

RowInv(r) ==
    /\ r.state \in Unpaid => NoLive
    /\ \A h \in Hashes : Live(h) => Covers(r, h)
    /\ Truth(r.settlement)
    /\ r.ready \/ r.settled \/ r.state \in Paid => Settled(r)
    /\ r.compacted => r.exec = None /\ ~r.ready /\ r.state \in Closed
    /\ r.exec \in execs \cup {None}

\* Between the dispatch intent and the wallet call the row belongs to the
\* worker; after the call it may have been superseded.
Asking   == {"poll", "unsent"}
Called   == {"calling", "record", "await", "envelope", "materialize"}
Working  == Asking \cup Called \cup {"reserve", "attach_debit", "draft", "keysend", "invoice", "debit", "fail"}

Owns(me, r) ==
    /\ me.pc \in Asking =>
        /\ r.exec = me.ex
        /\ r.dispatched
        /\ Unresolved(r)
        /\ r.hash \in {me.pay, None}
        /\ r.settlement.status = "none"
    /\ me.pc \in Called /\ r.exec = me.ex =>
        /\ r.dispatched
        /\ r.hash \in {me.pay, None}
        /\ \A h \in Hashes : Live(h) => h = me.pay

\* What the locals of a program say of the wallet.
Local(me) ==
    /\ me.pc = "idle" => me = Idle
    /\ me.pc \in Working => me.ex # None
    /\ me.ex # None => me.ex \in execs /\ me.task = "none" /\ me.pc \in Working \cup {"resend", "sending"}
    /\ me.pc \in Asking \cup Called => me.pay \in Hashes /\ payer[me.pay] # None
    /\ me.pc \in Asking => NoLive /\ wallet[me.pay] = "none"
    /\ me.pc \in {"record", "envelope"} =>
        /\ me.seen.hash \in {None, me.pay}
        /\ me.seen.status \in {"failed", "settled"} => wallet[me.pay] = me.seen.status
    /\ me.pc = "envelope" => me.seen.status = "settled"
    /\ "fence" \in {me.pc, me.next} => me.task = "abandon"

\* What a process whose copy is current knows of the row.
Copy(me, r) ==
    /\ me.ex = None => me.op = r
    /\ me.pc = "claim" => r.state \in {"prepared", "released"}
    /\ me.task = "abandon" => r.state \in {"prepared", "released"}
    /\ me.pc = "apply" => Truth(me.seen) /\ Unresolved(r) /\ r.dispatched
    /\ me.pc = "materialize" => r.ready

\* A write of r over the stored row loses no settlement evidence.
Keeps(r) == row \in Rows /\ row.settled => r.settled /\ r.hash = row.hash

FreshInv  == \A h \in Hashes : payer[h] = None => wallet[h] = "none"
EmptyInv  == row \in Rows \/ (NoLive /\ late = {} /\ execs = {})
RowsInv   == \A r \in AllRows : RowInv(r)
OwnsInv   == \A r \in AllRows : \A p \in Procs : Owns(proc[p], r)
LocalsInv == \A p \in Procs : Local(proc[p])
FenceInv  == \A p, q \in Procs : p # q /\ proc[p].ex # None => proc[p].ex # proc[q].ex
CopiesInv == \A p \in current : row \in Rows /\ Copy(proc[p], row)
LatesInv  == \A w \in late : Keeps(w.row)

\* The inductive invariant of the operation journal: what compose_locked, the
\* paying worker, reconcile and the late SQL writes keep true together.
Inv ==
    /\ PaidOnce
    /\ FreshInv /\ EmptyInv
    /\ RowsInv /\ OwnsInv
    /\ LocalsInv /\ FenceInv
    /\ CopiesInv /\ LatesInv
====

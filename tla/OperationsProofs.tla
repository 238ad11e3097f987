--------------------------- MODULE OperationsProofs ---------------------------
(***************************************************************************)
(* The safety of the operation journal for every number of processes,      *)
(* executions, payment hashes and late writes: Inv is inductive, and       *)
(* implies PaidOnce, UnpaidMeansUnpaid and PaidMeansSettled; each step     *)
(* that keeps it also keeps the settlement evidence (EvidenceStays).       *)
(* First the types, then what one step may do to the journal: the shapes   *)
(* of the steps (a program moves on, a write lands or is cancelled, a      *)
(* reader saves its copy) that keep Inv and the rows the handlers write,   *)
(* then one group of actions after the other.                              *)
(***************************************************************************)
EXTENDS OperationsInv, TLAPS

-----------------------------------------------------------------------------
(* Type correctness *)

LEMMA TypeInvTypeOK == TypeInv => TypeOK
BY Zenon DEF TypeInv, JournalType, OtherType, TypeOK, Locals

LEMMA IdleType == Idle \in ProcTypes /\ Idle \in Locals
BY Zenon DEF Idle, ProcTypes, Labels, NoDetails, Details, Locals, Reading

LEMMA PreparedType == ASSUME NEW c \in Callers PROVE Prepared(c) \in Rows
BY Zenon DEF Prepared, Rows, States, NoDetails, Details

LEMMA NoDetailsType == NoDetails \in Details
BY Zenon DEF NoDetails, Details

LEMMA AnswersType == ASSUME NEW h \in Hashes \cup {None} PROVE Answers(h) \subseteq Details
BY OperationsAssumption, Zenon DEF Answers, Details, NoDetails

LEMMA ResolvedType ==
    ASSUME OtherType, NEW e, NEW a
    PROVE  Resolved(e, a) \in [Execs -> {"none", "reserved", "released", "charged"}]
BY Zenon DEF OtherType, Resolved

LEMMA QueueType ==
    ASSUME NEW r \in Rows, NEW a \in {"zero", "paid", "unknown"}
    PROVE  /\ QueueMessageResolution(r, a) \in Rows
           /\ \A e \in Execs : QueueResolution(r, e, a) \in Rows
BY OperationsAssumption DEF QueueMessageResolution, QueueResolution, Rows

LEMMA ActualType == ASSUME NEW d PROVE Actual(d) \in {"zero", "paid", "unknown"}
BY Zenon DEF Actual

LEMMA BudgetRowType == ASSUME NEW r \in Rows PROVE BudgetRow(r) \in Rows
BY QueueType, ActualType, Zenon DEF BudgetRow

LEMMA DrainedRowType == ASSUME NEW r \in Rows PROVE DrainedRow(r) \in Rows
BY ZenonT(60) DEF DrainedRow, Rows

LEMMA QueueAllType == ASSUME NEW r \in Rows, NEW es PROVE QueueAll(r, es) \in Rows
BY Zenon DEF QueueAll, Rows

LEMMA WithEvidenceType == ASSUME NEW r \in Rows PROVE WithEvidence(r) \in Rows
BY ZenonT(60) DEF WithEvidence, Rows, SettlementMatches

-----------------------------------------------------------------------------
(* The journal and the programs *)

LEMMA StepType ==
    ASSUME JournalType, NEW p \in Procs, NEW local \in Locals,
           local.pc \in Reading => local.op \in Rows,
           proc' = [proc EXCEPT ![p] = local], current' \subseteq Procs, UNCHANGED <<row, late>>
    PROVE  JournalType'
BY Zenon DEF JournalType, Locals

LEMMA ReaderType ==
    ASSUME NEW me \in Locals, me.pc \in Reading, NEW l \in Reading, NEW n \in Resumes
    PROVE  /\ [me EXCEPT !.pc = l] \in Locals /\ [me EXCEPT !.pc = l].op = me.op
           /\ [me EXCEPT !.pc = l, !.next = n] \in Locals /\ [me EXCEPT !.pc = l, !.next = n].op = me.op
<1>1. l \in Labels /\ n \in Labels
  BY Zenon DEF Reading, Resumes, Labels
<1>2. me \in ProcTypes /\ me.ex = None /\ me.next \in Resumes
  BY Zenon DEF Locals
<1>3. [me EXCEPT !.pc = l] \in ProcTypes /\ [me EXCEPT !.pc = l, !.next = n] \in ProcTypes
  BY <1>1, <1>2, ZenonT(60) DEF ProcTypes
<1> QED
  BY <1>2, <1>3, ZenonT(60) DEF Locals, ProcTypes

LEMMA WorkerLabels ==
    {"reserve", "attach_debit", "draft", "keysend", "invoice", "poll", "unsent", "calling", "record",
     "await", "envelope", "materialize", "debit", "fail", "resend", "sending"} \subseteq Labels \ Reading
BY ZenonT(60) DEF Labels, Reading

LEMMA WorkerLocals ==
    ASSUME TypeInv, NEW p \in Procs
    PROVE  /\ \A l \in Labels \ Reading : [proc[p] EXCEPT !.pc = l] \in Locals
           /\ \A c \in {"ok", "unresolved", "proof", "other"} :
                 Ended(p, c) \in Locals /\ [Ended(p, c) EXCEPT !.pc = "resend"] \in Locals
           /\ \A c \in {"ok", "unresolved", "proof", "other"} :
                 Ends(p, c) /\ UNCHANGED journal => JournalType'
           /\ Fails(p) /\ current' \subseteq Procs /\ UNCHANGED <<row, late>> => JournalType'
           /\ \A l \in Labels \ Reading : Goto(p, l) /\ current' \subseteq Procs /\ UNCHANGED <<row, late>> => JournalType'
<1> DEFINE me == proc[p]
<1>0. me \in ProcTypes /\ me \in Locals
  BY Zenon DEF TypeInv, JournalType, Locals
<1>1. ASSUME NEW l \in Labels \ Reading PROVE [me EXCEPT !.pc = l] \in Locals /\ [me EXCEPT !.pc = l].pc = l
  BY <1>0, Zenon DEF Locals, ProcTypes
<1>2. ASSUME NEW c \in {"ok", "unresolved", "proof", "other"}
      PROVE  /\ Ended(p, c) \in Locals /\ Ended(p, c).pc = "debit"
             /\ [Ended(p, c) EXCEPT !.pc = "resend"] \in Locals
  <2> DEFINE d == [Idle.seen EXCEPT !.fee = me.seen.fee]
  <2>1. d \in Details
    BY <1>0, IdleType, Zenon DEF ProcTypes, Details
  <2>2. Ended(p, c) = [Idle EXCEPT !.pc = "debit", !.ex = me.ex, !.err = c, !.seen = d]
    BY Zenon DEF Ended
  <2> HIDE DEF d
  <2>3. Ended(p, c) \in ProcTypes /\ Ended(p, c).pc = "debit"
    <3> DEFINE l == [Idle EXCEPT !.pc = "debit", !.ex = me.ex]
    <3>1. "debit" \in Labels /\ me.ex \in Execs \cup {None}
      BY <1>0, WorkerLabels, Zenon DEF ProcTypes
    <3>2. l \in ProcTypes /\ l.pc = "debit"
      BY <3>1, IdleType, Zenon DEF ProcTypes
    <3> HIDE DEF l
    <3>3. [l EXCEPT !.err = c, !.seen = d] \in ProcTypes /\ [l EXCEPT !.err = c, !.seen = d].pc = "debit"
      BY <2>1, <3>2, ZenonT(60) DEF ProcTypes
    <3> QED
      BY <2>2, <3>3, Zenon DEF l
  <2>4. [Ended(p, c) EXCEPT !.pc = "resend"] \in ProcTypes /\ [Ended(p, c) EXCEPT !.pc = "resend"].pc = "resend"
    BY <2>3, WorkerLabels, Zenon DEF ProcTypes
  <2> QED
    BY <2>3, <2>4, ZenonT(60) DEF Locals, Reading
<1>3. ASSUME NEW c \in {"ok", "unresolved", "proof", "other"}, Ends(p, c), UNCHANGED journal PROVE JournalType'
  BY <1>2, <1>3, StepType, ZenonT(60) DEF Ends, Reading, TypeInv, JournalType, journal
<1>4. ASSUME Fails(p), current' \subseteq Procs, UNCHANGED <<row, late>> PROVE JournalType'
  <2> DEFINE f == [Idle EXCEPT !.pc = "fail", !.ex = me.ex]
  <2>1. f \in ProcTypes /\ f.pc = "fail"
    BY <1>0, IdleType, WorkerLabels, ZenonT(60) DEF ProcTypes
  <2>2. f \in Locals /\ f.pc \notin Reading
    BY <2>1, Zenon DEF Locals, Reading
  <2> QED
    BY <1>4, <2>2, StepType, Zenon DEF Fails, TypeInv
<1>5. ASSUME NEW l \in Labels \ Reading, Goto(p, l), current' \subseteq Procs, UNCHANGED <<row, late>> PROVE JournalType'
  <2>1. proc' = [proc EXCEPT ![p] = [me EXCEPT !.pc = l]]
    BY <1>5, Zenon DEF Goto, TypeInv, JournalType
  <2> QED
    BY <1>1, <1>5, <2>1, StepType, ZenonT(60) DEF TypeInv
<1> QED
  BY <1>1, <1>2, <1>3, <1>4, <1>5, Zenon

LEMMA LegacyRowType ==
    ASSUME NEW c \in Callers, NEW e \in Execs, NEW h \in Hashes PROVE LegacyRow(c, e, h) \in Rows
<1> DEFINE d == [NoDetails EXCEPT !.status = "settled", !.hash = h]
<1>1. d \in Details
  BY Zenon DEF Details, NoDetails
<1>2. "failed_paid" \in States
  BY Zenon DEF States
<1> DEFINE a == [Prepared(c) EXCEPT !.state = "failed_paid", !.exec = e, !.dispatched = TRUE, !.hash = h]
<1>3. a \in Rows
  <2>1. Prepared(c) \in Rows
    BY PreparedType, Zenon
  <2> QED
    BY <1>2, <2>1, Zenon DEF Rows
<1>4. LegacyRow(c, e, h) = [a EXCEPT !.settlement = d, !.draft = TRUE, !.mid = e, !.error = "incomplete"]
  BY Zenon DEF LegacyRow
<1> HIDE DEF a, d
<1> QED
  BY <1>1, <1>3, <1>4, ZenonT(60) DEF Rows

LEMMA InitType == Init => TypeInv
<1> SUFFICES ASSUME Init PROVE TypeInv
  BY Zenon
<1>1. JournalType
  BY IdleType, LegacyRowType, Zenon DEF Init, JournalType, Idle, Reading
<1>2. OtherType
  BY Zenon DEF Init, OtherType
<1> QED
  BY <1>1, <1>2, Zenon DEF TypeInv

LEMMA NextTypeInv == TypeInv /\ [Next]_vars => TypeInv'
<1>CommitType.
    ASSUME JournalType, NEW p \in Procs, NEW r \in Rows, NEW local \in Locals, Commit(p, r, local)
    PROVE  JournalType'
  <2> USE <1>CommitType
  <2>1. [local EXCEPT !.op = IF local.ex = None THEN r ELSE None] \in Locals
    BY Zenon DEF Locals, ProcTypes
  <2>2. proc' \in [Procs -> Locals]
    BY <2>1, IdleType, Zenon DEF JournalType, Commit
  <2>3. ASSUME NEW q \in Procs, proc'[q].pc \in Reading PROVE proc'[q].op \in Rows
    <3>1. CASE q = p /\ local # Idle
      BY <2>3, <3>1, Zenon DEF JournalType, Commit, Locals, ProcTypes
    <3>2. CASE q = p /\ local = Idle
      BY <2>3, <3>2, Zenon DEF JournalType, Commit, Idle, Reading
    <3>3. CASE q # p
      BY <2>3, <3>3, Zenon DEF JournalType, Commit
    <3> QED
      BY <3>1, <3>2, <3>3, Zenon
  <2> QED
    BY <2>2, <2>3, Zenon DEF JournalType, Commit

<1>FinishType.
    ASSUME JournalType, NEW p \in Procs, Finish(p), row' = row,
           late' \subseteq [row : Rows, commit : BOOLEAN]
    PROVE  JournalType'
  BY <1>FinishType, IdleType, Zenon DEF JournalType, Finish, Idle, Reading

<1>CancelledType.
    ASSUME JournalType, NEW p \in Procs, NEW r \in Rows, NEW c \in BOOLEAN, Cancelled(p, r, c)
    PROVE  JournalType'
  <2> USE <1>CancelledType
  <2>1. late' \subseteq [row : Rows, commit : BOOLEAN]
    BY DEF JournalType, Cancelled
  <2> QED
    BY <2>1, <1>FinishType, Zenon DEF Cancelled

<1>UpdateType.
    ASSUME JournalType, NEW p \in Procs, NEW r \in Rows, NEW local \in Locals,
           Update(p, r, local) \/ Save(p, r, local)
    PROVE  JournalType'
  BY <1>UpdateType, <1>CommitType, <1>CancelledType, Zenon DEF Update, Save

<1>OtherUnchanged.
    ASSUME OtherType, UNCHANGED <<links, execs, money, delivery>> PROVE OtherType'
  BY <1>OtherUnchanged, Zenon DEF OtherType, money, delivery

<1>MaterializeType.
    ASSUME TypeInv, NEW p \in Procs, NEW r \in Rows, NEW local \in Locals,
           Materialize(p, r, local), UNCHANGED <<links, execs, money>>
    PROVE  TypeInv'
  <2> USE <1>MaterializeType
  <2> DEFINE paid == [r EXCEPT !.state = "paid"]
  <2>1. paid \in Rows
    BY Zenon DEF Rows, States
  <2>2. JournalType'
    BY <2>1, <1>CommitType, <1>CancelledType, Zenon DEF Materialize, TypeInv
  <2>3. \/ msg' = r.mid /\ pend' \in {"queued", pend}
        \/ msg' = msg /\ pend' = pend
    BY Zenon DEF Materialize
  <2>4. r.mid \in Execs \cup {None}
    BY Zenon DEF Rows
  <2>5. msg' \in Execs \cup {None} /\ pend' \in {"none", "queued", "sent", "backoff", "failed"}
    BY <2>3, <2>4, Zenon DEF TypeInv, OtherType
  <2> QED
    BY <2>2, <2>5, Zenon DEF TypeInv, OtherType, Materialize, money

<1>BudgetType. ASSUME TypeInv, NEW p \in Procs, Budget(p) PROVE TypeInv'
  <2> USE <1>BudgetType
  <2> DEFINE me == proc[p]
  <2> USE DEF TypeInv
  <2>0. me \in Locals /\ (me.pc \in Reading => me.op \in Rows)
    BY Zenon DEF JournalType
  <2>1. ASSUME me.pc \in Reading
        PROVE  /\ Resumed(p) \in Locals
               /\ \A l \in {"drain", "drained"} : [me EXCEPT !.pc = l] \in Locals
    <3>1. me \in ProcTypes /\ me.ex = None /\ me.next \in Resumes
      BY <2>0, <2>1, Zenon DEF Locals
    <3>2. \A c \in Labels : [me EXCEPT !.pc = c] \in Locals
      BY <3>1, SMTT(60) DEF ProcTypes, Locals
    <3>3. {"drain", "drained"} \subseteq Labels /\ Resumes \subseteq Labels
      BY Zenon DEF Resumes, Labels
    <3> HIDE DEF me
    <3>4. Resumed(p) = IF me.next = "idle" THEN Idle ELSE [me EXCEPT !.pc = me.next]
      BY Zenon DEF Resumed, me
    <3> QED BY <3>1, <3>2, <3>3, <3>4, IdleType, SMTT(60)
  <2>2. ASSUME me.pc \in Reading, Returns(p), UNCHANGED <<row, late>> PROVE JournalType'
    <3>1. CASE me.next = "idle"
      BY <2>2, <3>1, <1>FinishType, Zenon DEF Returns, JournalType
    <3>2. CASE me.next # "idle"
      <4>1. proc' = [proc EXCEPT ![p] = Resumed(p)]
        BY <2>0, <2>2, <3>2, Zenon DEF Returns, Resumed, Goto, JournalType
      <4>2. Resumed(p).op \in Rows
        BY <2>0, <2>2, <3>2, Zenon DEF Resumed, Locals, ProcTypes
      <4> QED
        BY <2>1, <2>2, <3>2, <4>1, <4>2, StepType, Zenon DEF Returns, JournalType
    <3> QED
      BY <3>1, <3>2, Zenon
  <2>3. ASSUME me.pc \in Reading, NEW l \in {"drain", "drained"}, Goto(p, l), UNCHANGED journal
        PROVE  JournalType'
    <3>1. proc' = [proc EXCEPT ![p] = [me EXCEPT !.pc = l]] /\ [me EXCEPT !.pc = l].op \in Rows
      BY <2>0, <2>3, Zenon DEF Goto, JournalType, Locals, ProcTypes
    <3> QED
      BY <2>1, <2>3, <3>1, StepType, Zenon DEF JournalType, journal
  <2>4. CASE RecoverBudget(p)
    <3>0. me.pc \in Reading
      BY <2>4, Zenon DEF RecoverBudget, Reading
    <3>1. ASSUME Save(p, BudgetRow(me.op), [me EXCEPT !.pc = "drain"]) PROVE JournalType'
      BY <3>0, <3>1, <2>0, <2>1, <1>UpdateType, BudgetRowType, Zenon
    <3>2. OtherType'
      BY <2>4, <1>OtherUnchanged, Zenon DEF RecoverBudget
    <3>3. CASE ~AccountingPending(me.op)
      BY <2>4, <3>0, <3>2, <3>3, <2>2, Zenon DEF RecoverBudget
    <3>4. CASE AccountingPending(me.op) /\ BudgetRow(me.op) = me.op
      <4>1. Goto(p, "drain") /\ UNCHANGED journal
        BY <2>4, <3>4, Zenon DEF RecoverBudget
      <4> QED
        BY <3>0, <3>2, <4>1, <2>3, Zenon
    <3>5. CASE AccountingPending(me.op) /\ BudgetRow(me.op) # me.op
      BY <2>4, <3>1, <3>2, <3>5, Zenon DEF RecoverBudget
    <3> QED
      BY <3>2, <3>3, <3>4, <3>5, Zenon
  <2>5. CASE Drain(p)
    <3>0. me.pc \in Reading
      BY <2>5, Zenon DEF Drain, Reading
    <3>1. ledger' \in [Execs -> {"none", "reserved", "released", "charged"}]
      BY <2>5, ResolvedType DEF Drain, OtherType
    <3>2. JournalType'
      BY <2>5, <3>0, <2>2, <2>3, Zenon DEF Drain, journal
    <3> QED
      BY <2>5, <3>1, <3>2, ZenonT(60) DEF Drain, OtherType, delivery
  <2>6. CASE Drained(p)
    <3>0. me.pc \in Reading
      BY <2>6, Zenon DEF Drained, Reading
    <3> QED
      BY <2>6, <3>0, <2>0, <2>1, <1>UpdateType, DrainedRowType, <1>OtherUnchanged, Zenon DEF Drained
  <2> QED
    BY <2>4, <2>5, <2>6, Zenon DEF Budget

<1>ReconcileType. ASSUME TypeInv, NEW p \in Procs, Reconcile(p) PROVE TypeInv'
  <2> USE <1>ReconcileType
  <2> DEFINE me == proc[p]
             r == WithEvidence(me.op)
  <2> USE DEF TypeInv
  <2>0. me \in Locals /\ me.pc \in Reading /\ me.op \in Rows
    <3>1. me.pc \in {"reconcile", "apply"}
      BY ZenonT(60) DEF Reconcile, ReconcileSkip, ReconcileUndispatched, ReconcileReady, ReconcileLookup,
             ApplyUnknown, ApplyFailed, ApplySettled
    <3> QED
      BY <3>1, Zenon DEF JournalType, Reading
  <2>1. /\ Back(p) \in Locals /\ Back(p).op \in Rows
        /\ Drains(p) \in Locals
        /\ [me EXCEPT !.pc = "budget", !.next = Return(p)] \in Locals
    <3>1. Return(p) \in Reading /\ Return(p) \in Resumes /\ "drain" \in Reading /\ "budget" \in Reading
      BY Zenon DEF Return, Reading, Resumes
    <3> QED
      BY <2>0, <3>1, ReaderType, Zenon DEF Back, Drains
  <2>2. r \in Rows /\ me.seen \in Details
    BY <2>0, WithEvidenceType, Zenon DEF Locals, ProcTypes
  <2>3. CASE ReconcileSkip(p)
    BY <2>1, <2>3, StepType, <1>OtherUnchanged, Zenon DEF ReconcileSkip, JournalType, journal
  <2>4. CASE ReconcileUndispatched(p)
    <3>1. Unknown(r) \in Rows
      BY <2>2, Zenon DEF Unknown, Rows, States
    <3>2. [QueueMessageResolution(r, "zero") EXCEPT !.resv = None, !.exec = None, !.state = "prepared"] \in Rows
      <4>1. QueueMessageResolution(r, "zero") \in Rows
        BY <2>2, QueueType, Zenon
      <4> QED
        BY <4>1, ZenonT(60) DEF Rows, States
    <3> QED
      BY <2>1, <2>4, <3>1, <3>2, <1>UpdateType, <1>OtherUnchanged, Zenon DEF ReconcileUndispatched
  <2>5. CASE ReconcileReady(p)
    BY <2>1, <2>2, <2>5, <1>MaterializeType, Zenon DEF ReconcileReady
  <2>6. CASE ReconcileLookup(p)
    <3>1. PICK d \in Evidence(r) : proc' = [proc EXCEPT ![p].pc = "apply", ![p].seen = d]
      BY <2>6, ZenonT(60) DEF ReconcileLookup
    <3>2. d \in Details
      <4>1. r.settlement \in Details /\ r.hash \in Hashes \cup {None}
        BY <2>2, Zenon DEF Rows
      <4> QED
        BY <3>1, <4>1, AnswersType, NoDetailsType, Zenon DEF Evidence
    <3> DEFINE local == [me EXCEPT !.pc = "apply", !.seen = d]
    <3>3. local \in Locals /\ local.op \in Rows
      BY <2>0, <3>2, ZenonT(60) DEF Locals, ProcTypes, Reading, Labels
    <3>4. proc' = [proc EXCEPT ![p] = local]
      BY <2>0, <3>1, Zenon DEF JournalType
    <3> QED
      BY <2>6, <3>3, <3>4, StepType, <1>OtherUnchanged, Zenon DEF ReconcileLookup, JournalType, journal
  <2>7. CASE ApplyUnknown(p)
    <3> DEFINE s == [Unknown(r) EXCEPT !.error = IF me.seen.status \in {"none", "pending"} THEN @ ELSE "other"]
    <3>1. s \in Rows
      BY <2>2, ZenonT(60) DEF Unknown, Rows, States
    <3> QED
      BY <2>1, <2>7, <3>1, <1>UpdateType, <1>OtherUnchanged, Zenon DEF ApplyUnknown
  <2>8. CASE ApplyFailed(p)
    <3> DEFINE q == QueueMessageResolution([r EXCEPT !.settlement = me.seen], "zero")
    <3>1. [r EXCEPT !.settlement = me.seen] \in Rows
      BY <2>2, Zenon DEF Rows
    <3>2. q \in Rows
      BY <3>1, QueueType, Zenon
    <3>3. [q EXCEPT !.state = "released"] \in Rows
      BY <3>2, Zenon DEF Rows, States
    <3> QED
      BY <2>1, <2>8, <3>3, <1>UpdateType, <1>OtherUnchanged, Zenon DEF ApplyFailed
  <2>9. CASE ApplySettled(p)
    <3>1. [r EXCEPT !.settled = TRUE, !.settlement = me.seen] \in Rows
      BY <2>2, Zenon DEF Rows
    <3>2. SettledRow(r, me.seen) \in Rows
      BY <3>1, QueueType, ActualType, Zenon DEF SettledRow
    <3>3. /\ [SettledRow(r, me.seen) EXCEPT !.ready = TRUE] \in Rows
          /\ [Unknown(SettledRow(r, me.seen)) EXCEPT !.error = "incomplete"] \in Rows
      BY <3>2, ZenonT(60) DEF Rows, States, Unknown
    <3>4. CASE me.seen.proof /\ r.draft
      BY <2>1, <2>9, <3>3, <3>4, <1>MaterializeType, Zenon DEF ApplySettled
    <3>5. CASE ~(me.seen.proof /\ r.draft)
      BY <2>1, <2>9, <3>3, <3>5, <1>UpdateType, <1>OtherUnchanged, Zenon DEF ApplySettled
    <3> QED
      BY <3>4, <3>5, Zenon
  <2> QED
    BY <2>3, <2>4, <2>5, <2>6, <2>7, <2>8, <2>9, Zenon DEF Reconcile

<1>RequestType.
    ASSUME TypeInv, NEW p \in Procs, Request(p) \/ Reopen(p) \/ Retry(p) \/ Fence(p) PROVE TypeInv'
  <2> USE <1>RequestType
  <2> DEFINE me == proc[p]
  <2> USE DEF TypeInv
  <2>0. me \in Locals /\ (me.pc \in Reading => me.op \in Rows)
    BY Zenon DEF JournalType
  <2>1. ASSUME NEW c \in Callers, Compose(p, c) PROVE TypeInv'
    <3> DEFINE start == [Idle EXCEPT !.task = "compose", !.caller = c]
               new == [start EXCEPT !.pc = "claim"]
               old == [start EXCEPT !.pc = "budget", !.next = "reopen", !.op = row]
    <3>0. OtherType'
      BY <2>1, <1>OtherUnchanged, Zenon DEF Compose
    <3>1. CASE Commit(p, Prepared(c), new)
      <4>1. new \in Locals
        BY ZenonT(60) DEF Idle, Locals, ProcTypes, Labels, Reading, Resumes, NoDetails, Details
      <4> QED
        BY <3>0, <3>1, <4>1, <1>CommitType, PreparedType, Zenon
    <3>2. CASE /\ row # None /\ proc' = [proc EXCEPT ![p] = old]
               /\ current' = current \cup {p} /\ UNCHANGED <<row, late>>
      <4>0. row \in Rows
        BY <3>2, Zenon DEF JournalType
      <4>1. old \in Locals /\ old.op \in Rows
        <5>1. {"budget", "reopen"} \subseteq Labels
          BY Zenon DEF Labels
        <5>2. old \in ProcTypes /\ old.op = row /\ old.ex = Idle.ex /\ old.next = "reopen"
          BY <4>0, <5>1, IdleType, ZenonT(60) DEF ProcTypes
        <5>3. Idle.ex = None
          BY Zenon DEF Idle
        <5> HIDE DEF old
        <5> QED
          BY <4>0, <5>2, <5>3, Zenon DEF Locals, Resumes
      <4> QED
        BY <3>0, <3>2, <4>1, StepType, Zenon DEF JournalType
    <3> QED
      BY <2>1, <3>1, <3>2, Zenon DEF Compose
  <2>2. ASSUME NEW c \in Callers, Abandon(p, c) PROVE TypeInv'
    <3> DEFINE start == [Idle EXCEPT !.task = "abandon", !.caller = c, !.op = row]
               old == [start EXCEPT !.pc = "budget", !.next = "fence"]
    <3>0. OtherType'
      BY <2>2, <1>OtherUnchanged, Zenon DEF Abandon
    <3>1. CASE row' = [Prepared(c) EXCEPT !.state = "abandoned"] /\ UNCHANGED <<current, late, proc>>
      <4>1. row' \in Rows
        BY <3>1, PreparedType DEF Rows, States
      <4> QED
        BY <3>0, <3>1, <4>1, Zenon DEF JournalType
    <3>2. CASE /\ row # None /\ proc' = [proc EXCEPT ![p] = old]
               /\ current' = current \cup {p} /\ UNCHANGED <<row, late>>
      <4>0. row \in Rows
        BY <3>2, Zenon DEF JournalType
      <4>1. old \in Locals /\ old.op \in Rows
        <5>1. {"budget", "fence"} \subseteq Labels
          BY Zenon DEF Labels
        <5>2. old \in ProcTypes /\ old.op = row /\ old.ex = Idle.ex /\ old.next = "fence"
          BY <4>0, <5>1, IdleType, ZenonT(60) DEF ProcTypes
        <5>3. Idle.ex = None
          BY Zenon DEF Idle
        <5> HIDE DEF old
        <5> QED
          BY <4>0, <5>2, <5>3, Zenon DEF Locals, Resumes
      <4> QED
        BY <3>0, <3>2, <4>1, StepType, Zenon DEF JournalType
    <3> QED
      BY <2>2, <3>1, <3>2, Zenon DEF Abandon
  <2>3. ASSUME me.pc \in Reading, NEW l \in Reading, Goto(p, l), UNCHANGED <<row, late>>, current' \subseteq Procs
        PROVE  JournalType'
    <3>1. [me EXCEPT !.pc = l] \in Locals /\ [me EXCEPT !.pc = l].op \in Rows
      BY <2>0, <2>3, ReaderType, ZenonT(60) DEF Resumes
    <3>2. proc' = [proc EXCEPT ![p] = [me EXCEPT !.pc = l]]
      BY <2>3, Zenon DEF Goto, JournalType
    <3> QED
      BY <2>3, <3>1, <3>2, StepType, Zenon
  <2>4. CASE Reopen(p)
    <3>1. me.pc \in Reading /\ "reconcile" \in Reading
      BY <2>4, Zenon DEF Reopen, Reading
    <3>2. Unknown(me.op) \in Rows
      BY <2>0, <3>1, Zenon DEF Unknown, Rows, States
    <3>3. [me EXCEPT !.pc = "reconcile"] \in Locals
      BY <2>0, <3>1, ReaderType, ZenonT(60) DEF Resumes
    <3>4. OtherType'
      BY <2>4, <1>OtherUnchanged, Zenon DEF Reopen
    <3>5. CASE Save(p, Unknown(me.op), [me EXCEPT !.pc = "reconcile"])
      BY <3>2, <3>3, <3>4, <3>5, <1>UpdateType, Zenon
    <3>6. CASE Goto(p, "reconcile") /\ UNCHANGED journal
      BY <3>1, <3>4, <3>6, <2>3, Zenon DEF JournalType, journal
    <3> QED
      BY <2>4, <3>5, <3>6, Zenon DEF Reopen
  <2>5. CASE Retry(p)
    <3>1. me.pc \in Reading /\ "claim" \in Reading
      BY <2>5, Zenon DEF Retry, Reading
    <3>2. OtherType' /\ UNCHANGED <<row, late>>
      BY <2>5, <1>OtherUnchanged, Zenon DEF Retry
    <3>3. CASE Goto(p, "claim") /\ UNCHANGED current
      BY <3>1, <3>2, <3>3, <2>3, Zenon DEF JournalType
    <3>4. CASE Goto(p, "resend") /\ UNCHANGED current
      <4>1. [me EXCEPT !.pc = "resend"] \in Locals /\ [me EXCEPT !.pc = "resend"].pc \notin Reading
        BY <2>0 DEF Locals, ProcTypes, Labels, Reading
      <4>2. proc' = [proc EXCEPT ![p] = [me EXCEPT !.pc = "resend"]]
        BY <3>4, Zenon DEF Goto, JournalType
      <4> QED
        BY <3>2, <3>4, <4>1, <4>2, StepType, Zenon DEF JournalType
    <3>5. CASE Finish(p)
      BY <3>2, <3>5, <1>FinishType, Zenon DEF JournalType
    <3> QED
      BY <2>5, <3>3, <3>4, <3>5, Zenon DEF Retry
  <2>6. CASE Fence(p)
    <3>1. me.op \in Rows
      BY <2>0, <2>6, Zenon DEF Fence, Reading
    <3>2. [me.op EXCEPT !.state = "abandoned", !.exec = None] \in Rows
      BY <3>1, ZenonT(60) DEF Rows, States
    <3> QED
      BY <2>6, <3>2, IdleType, <1>UpdateType, <1>OtherUnchanged, Zenon DEF Fence
  <2> QED
    BY <2>1, <2>2, <2>4, <2>5, <2>6, Zenon DEF Request

<1>BeforeDispatchType.
    ASSUME TypeInv, NEW p \in Procs, Claim(p) \/ Reserve(p) \/ AttachDebit(p) \/ Draft(p) \/ Dispatch(p)
    PROVE  TypeInv'
  <2> USE <1>BeforeDispatchType
  <2> DEFINE me == proc[p]
  <2> USE DEF TypeInv
  <2>0. me \in Locals /\ me \in ProcTypes /\ (me.pc \in Reading => me.op \in Rows) /\ current \subseteq Procs
    BY ZenonT(60) DEF JournalType, Locals
  <2>1. CASE Claim(p)
    <3>1. PICK e \in Execs \ execs :
              /\ Save(p, ClaimedRow(me.op, e), [Idle EXCEPT !.pc = "reserve", !.ex = e, !.caller = me.caller])
              /\ execs' = execs \cup {e}
      BY <2>1, ZenonT(60) DEF Claim
    <3>2. ClaimedRow(me.op, e) \in Rows
      <4>1. me.op \in Rows /\ "paying" \in States
        BY <2>0, <2>1, ZenonT(60) DEF Claim, Reading, States
      <4> QED
        BY <4>1, NoDetailsType, ZenonT(60) DEF ClaimedRow, Rows
    <3>3. [Idle EXCEPT !.pc = "reserve", !.ex = e, !.caller = me.caller] \in Locals
      <4> DEFINE l == [Idle EXCEPT !.pc = "reserve", !.ex = e, !.caller = me.caller]
      <4>1. l \in ProcTypes /\ l.pc = "reserve"
        BY <2>0, IdleType, WorkerLabels, ZenonT(60) DEF ProcTypes
      <4> QED
        BY <4>1, Zenon DEF Locals, Reading
    <3>4. JournalType'
      BY <3>1, <3>2, <3>3, <1>UpdateType, Zenon
    <3> QED
      BY <2>1, <3>1, <3>4, ZenonT(60) DEF Claim, OtherType, money, delivery
  <2>2. CASE Reserve(p)
    <3>1. JournalType'
      BY <2>0, <2>2, WorkerLocals, ZenonT(60) DEF Reserve, Labels, Reading, journal
    <3>2. ledger' \in [Execs -> {"none", "reserved", "released", "charged"}]
      BY <2>2, ZenonT(60) DEF Reserve, OtherType
    <3> QED
      BY <2>2, <3>1, <3>2, ZenonT(60) DEF Reserve, OtherType, delivery
  <2>3. CASE AttachDebit(p)
    <3>1. ASSUME Mine(p), Update(p, [row EXCEPT !.resv = IF me.caller = "client" THEN me.ex ELSE None],
                                 [me EXCEPT !.pc = "draft"])
          PROVE  JournalType'
      <4>1. row \in Rows
        BY <3>1, Zenon DEF Mine, JournalType
      <4>2. [row EXCEPT !.resv = IF me.caller = "client" THEN me.ex ELSE None] \in Rows
        BY <2>0, <4>1, ZenonT(60) DEF Rows, ProcTypes
      <4>3. [me EXCEPT !.pc = "draft"] \in Locals
        BY WorkerLocals, ZenonT(60) DEF Labels, Reading
      <4> QED
        BY <3>1, <4>2, <4>3, <1>UpdateType, Zenon
    <3>2. ASSUME Fails(p), UNCHANGED journal PROVE JournalType'
      BY <2>0, <3>2, WorkerLocals, ZenonT(60) DEF journal
    <3>3. JournalType'
      BY <2>3, <3>1, <3>2, Zenon DEF AttachDebit
    <3>4. ledger' \in [Execs -> {"none", "reserved", "released", "charged"}]
      BY <2>3, ResolvedType DEF AttachDebit, OtherType
    <3> QED
      BY <2>3, <3>3, <3>4, Zenon DEF AttachDebit, OtherType, delivery
  <2>4. CASE Draft(p)
    <3>1. ASSUME NEW way \in {"keysend", "invoice"}, Mine(p),
                 Update(p, [row EXCEPT !.draft = TRUE, !.mid = me.ex], [me EXCEPT !.pc = way])
          PROVE  JournalType'
      <4>1. row \in Rows
        BY <3>1, Zenon DEF Mine, JournalType
      <4>2. [row EXCEPT !.draft = TRUE, !.mid = me.ex] \in Rows
        BY <2>0, <4>1, ZenonT(60) DEF Rows, ProcTypes
      <4>3. [me EXCEPT !.pc = way] \in Locals
        BY WorkerLocals, ZenonT(60) DEF Labels, Reading
      <4> QED
        BY <3>1, <4>2, <4>3, <1>UpdateType, Zenon
    <3>2. JournalType'
      BY <2>4, <3>1, WorkerLocals, Zenon DEF Draft
    <3> QED
      BY <2>4, <3>2, <1>OtherUnchanged, Zenon DEF Draft
  <2>5. CASE Dispatch(p)
    <3>1. ASSUME NEW h \in Hashes, Mine(p),
                 Update(p, [row EXCEPT !.dispatched = TRUE, !.settlement = NoDetails, !.state = "paying",
                                       !.hash = IF me.pc = "invoice" THEN h ELSE None],
                        [me EXCEPT !.pc = "poll", !.pay = h, !.keysend = me.pc = "keysend"])
          PROVE  JournalType'
      <4>1. row \in Rows
        BY <3>1, Zenon DEF Mine, JournalType
      <4>2. [row EXCEPT !.dispatched = TRUE, !.settlement = NoDetails, !.state = "paying",
                        !.hash = IF me.pc = "invoice" THEN h ELSE None] \in Rows
        BY <4>1, NoDetailsType, ZenonT(60) DEF Rows, States
      <4>3. [me EXCEPT !.pc = "poll", !.pay = h, !.keysend = me.pc = "keysend"] \in Locals
        <5> DEFINE l == [me EXCEPT !.pc = "poll", !.pay = h, !.keysend = me.pc = "keysend"]
        <5>1. (me.pc = "keysend") \in BOOLEAN
          BY Zenon
        <5>2. l \in ProcTypes /\ l.pc = "poll"
          BY <2>0, <5>1, WorkerLabels, ZenonT(60) DEF ProcTypes
        <5> QED
          BY <5>2, Zenon DEF Locals, Reading
      <4> QED
        BY <3>1, <4>2, <4>3, <1>UpdateType, Zenon
    <3>2. JournalType'
      BY <2>5, <3>1, WorkerLocals, Zenon DEF Dispatch
    <3>3. payer' \in [Hashes -> Execs \cup {None}]
      BY <2>0, <2>5, ZenonT(60) DEF Dispatch, OtherType, ProcTypes
    <3> QED
      BY <2>5, <3>2, <3>3, ZenonT(60) DEF Dispatch, OtherType, delivery
  <2> QED
    BY <2>1, <2>2, <2>3, <2>4, <2>5, Zenon

<1>SeenType.
    ASSUME JournalType, NEW p \in Procs, NEW l \in Labels \ Reading, NEW d \in Details,
           proc' = [proc EXCEPT ![p].pc = l, ![p].seen = d], UNCHANGED journal
    PROVE  JournalType'
  <2> USE <1>SeenType
  <2> DEFINE local == [proc[p] EXCEPT !.pc = l, !.seen = d]
  <2>0. proc[p] \in ProcTypes
    BY Zenon DEF JournalType, Locals
  <2>1. local \in ProcTypes /\ local.pc = l
    BY <2>0, ZenonT(60) DEF ProcTypes
  <2>2. local \in Locals /\ local.pc \notin Reading
    BY <2>1, ZenonT(60) DEF Locals
  <2>3. proc' = [proc EXCEPT ![p] = local]
    BY ZenonT(60) DEF JournalType
  <2> QED
    BY <2>2, <2>3, StepType, ZenonT(60) DEF JournalType, journal

<1>NextType.
    ASSUME JournalType, NEW p \in Procs, NEW n \in {"invoice", "debit"},
           proc' = [proc EXCEPT ![p].pc = "unsent", ![p].next = n], UNCHANGED journal
    PROVE  JournalType'
  <2> USE <1>NextType
  <2> DEFINE local == [proc[p] EXCEPT !.pc = "unsent", !.next = n]
  <2>0. proc[p] \in ProcTypes
    BY Zenon DEF JournalType, Locals
  <2>1. local \in ProcTypes /\ local.pc = "unsent"
    BY <2>0, WorkerLabels, ZenonT(60) DEF ProcTypes
  <2>2. local \in Locals /\ local.pc \notin Reading
    BY <2>1, WorkerLabels, Zenon DEF Locals
  <2>3. proc' = [proc EXCEPT ![p] = local]
    BY ZenonT(60) DEF JournalType
  <2> QED
    BY <2>2, <2>3, StepType, Zenon DEF JournalType, journal

<1>CallType.
    ASSUME TypeInv, NEW p \in Procs, PollWallet(p) \/ Unsent(p) \/ WalletReturns(p) \/ AwaitSettlement(p)
    PROVE  TypeInv'
  <2> USE <1>CallType
  <2> DEFINE me == proc[p]
  <2> USE DEF TypeInv
  <2>0. me \in Locals /\ me \in ProcTypes /\ current \subseteq Procs
    BY ZenonT(60) DEF JournalType, Locals
  <2>1. CASE PollWallet(p)
    <3>1. wallet' \in [Hashes -> {"none", "transit", "inflight", "settled", "failed"}]
      BY <2>1, ZenonT(60) DEF PollWallet, OtherType
    <3>2. CASE Goto(p, "calling")
      BY <2>0, <2>1, <3>1, <3>2, WorkerLocals, WorkerLabels, ZenonT(60) DEF PollWallet, OtherType, journal, delivery
    <3>3. ASSUME NEW n \in {"invoice", "debit"}, proc' = [proc EXCEPT ![p].pc = "unsent", ![p].next = n]
          PROVE  TypeInv'
      <4>1. JournalType'
        BY <2>1, <3>3, <1>NextType, ZenonT(60) DEF PollWallet
      <4> QED
        BY <2>1, <3>1, <4>1, ZenonT(60) DEF PollWallet, OtherType, journal, delivery
    <3> QED
      BY <2>1, <3>2, <3>3, ZenonT(60) DEF PollWallet
  <2>2. CASE Unsent(p)
    <3>1. ASSUME Mine(p) PROVE [row EXCEPT !.dispatched = FALSE, !.hash = None] \in Rows
      BY <3>1, ZenonT(60) DEF Mine, JournalType, Rows
    <3>2. [me EXCEPT !.pc = "invoice", !.next = "idle", !.pay = None, !.keysend = FALSE] \in Locals
      <4> DEFINE l == [me EXCEPT !.pc = "invoice", !.next = "idle", !.pay = None, !.keysend = FALSE]
      <4>0. "idle" \in Labels
        BY Zenon DEF Labels
      <4>1. l \in ProcTypes /\ l.pc = "invoice"
        BY <2>0, <4>0, WorkerLabels, ZenonT(60) DEF ProcTypes
      <4> QED
        BY <4>1, WorkerLabels, ZenonT(60) DEF Locals
    <3>3. Ended(p, "other") \in Locals
      BY WorkerLocals, ZenonT(60)
    <3>4. JournalType'
      BY <2>2, <3>1, <3>2, <3>3, <1>UpdateType, WorkerLocals, ZenonT(60) DEF Unsent
    <3> QED
      BY <2>2, <3>4, <1>OtherUnchanged, Zenon DEF Unsent
  <2>3. CASE WalletReturns(p)
    <3> DEFINE unnamed == {[d EXCEPT !.hash = None, !.proof = FALSE] : d \in Answers(me.pay)}
    <3>1. Answers(me.pay) \subseteq Details
      BY <2>0, AnswersType, ZenonT(60) DEF ProcTypes
    <3>2. unnamed \subseteq Details
      BY <3>1, ZenonT(60) DEF Details
    <3>3. JournalType'
      BY <2>3, <3>1, <3>2, <1>SeenType, WorkerLocals, WorkerLabels, ZenonT(60) DEF WalletReturns
    <3> QED
      BY <2>3, <3>3, <1>OtherUnchanged, ZenonT(60) DEF WalletReturns
  <2>4. CASE AwaitSettlement(p)
    <3>1. Answers(me.pay) \subseteq Details
      BY <2>0, AnswersType, Zenon DEF ProcTypes
    <3>2. JournalType'
      BY <2>4, <3>1, <1>SeenType, WorkerLocals, WorkerLabels, ZenonT(60) DEF AwaitSettlement
    <3> QED
      BY <2>4, <3>2, <1>OtherUnchanged, ZenonT(60) DEF AwaitSettlement
  <2> QED
    BY <2>1, <2>2, <2>3, <2>4, Zenon

<1>OutcomeType.
    ASSUME TypeInv, NEW p \in Procs,
           Record(p) \/ SettledEnvelope(p) \/ PaidCommit(p) \/ DebitOutcome(p) \/ Fail(p)
    PROVE  TypeInv'
  <2> USE <1>OutcomeType
  <2> DEFINE me == proc[p]
  <2> USE DEF TypeInv
  <2>0. me \in Locals /\ me \in ProcTypes /\ current \subseteq Procs /\ (row # None => row \in Rows)
    BY ZenonT(60) DEF JournalType, Locals
  <2>1. CASE Record(p)
    <3> DEFINE d == me.seen
               h == IF d.hash = None THEN row.hash ELSE d.hash
               r == [row EXCEPT !.hash = h, !.settlement = [d EXCEPT !.hash = h]]
    <3>1. ASSUME Mine(p) PROVE r \in Rows
      <4>1. row \in Rows /\ d \in Details
        BY <2>0, <3>1, Zenon DEF Mine, ProcTypes
      <4>2. h \in Hashes \cup {None} /\ [d EXCEPT !.hash = h] \in Details
        BY <4>1, Zenon DEF Rows, Details
      <4> QED
        BY <4>1, <4>2, ZenonT(60) DEF Rows
    <3>2. /\ [me EXCEPT !.pc = "envelope"] \in Locals /\ [me EXCEPT !.pc = "await"] \in Locals
          /\ Ended(p, "other") \in Locals /\ Ended(p, "unresolved") \in Locals
      BY WorkerLocals, WorkerLabels, Zenon
    <3>3. JournalType'
      BY <2>1, <3>1, <3>2, <1>UpdateType, WorkerLocals, Zenon DEF Record
    <3> QED
      BY <2>1, <3>3, <1>OtherUnchanged, ZenonT(60) DEF Record
  <2>2. CASE SettledEnvelope(p)
    <3>1. ASSUME Mine(p) PROVE [row EXCEPT !.ready = TRUE, !.settled = TRUE] \in Rows
      BY <2>0, <3>1, Zenon DEF Mine, Rows
    <3>2. [me EXCEPT !.pc = "materialize"] \in Locals
      BY WorkerLocals, WorkerLabels, Zenon
    <3>3. JournalType'
      BY <2>2, <3>1, <3>2, <1>UpdateType, WorkerLocals, Zenon DEF SettledEnvelope
    <3> QED
      BY <2>2, <3>3, <1>OtherUnchanged, Zenon DEF SettledEnvelope
  <2>3. CASE PaidCommit(p)
    <3>1. CASE Materialize(p, row, [Ended(p, "ok") EXCEPT !.pc = "resend"])
      <4>1. row \in Rows
        BY <2>0, <3>1, Zenon DEF Materialize
      <4>2. [Ended(p, "ok") EXCEPT !.pc = "resend"] \in Locals
        BY WorkerLocals, Zenon
      <4> QED
        BY <2>3, <3>1, <4>1, <4>2, <1>MaterializeType, Zenon DEF PaidCommit
    <3>2. CASE Ends(p, "proof") /\ UNCHANGED <<journal, delivery>>
      BY <2>3, <3>2, WorkerLocals, <1>OtherUnchanged, ZenonT(60) DEF PaidCommit
    <3> QED
      BY <2>3, <3>1, <3>2, Zenon DEF PaidCommit
  <2>4. CASE DebitOutcome(p)
    <3>1. ledger' \in [Execs -> {"none", "reserved", "released", "charged"}]
      BY <2>4, ResolvedType, Zenon DEF DebitOutcome, OtherType
    <3>2. JournalType'
      BY <2>0, <2>4, <1>FinishType, WorkerLocals, Zenon DEF DebitOutcome, JournalType
    <3> QED
      BY <2>4, <3>1, <3>2, Zenon DEF DebitOutcome, OtherType, delivery
  <2>5. CASE Fail(p)
    <3>1. ASSUME Mine(p), NEW s \in States PROVE [row EXCEPT !.error = "other", !.state = s] \in Rows
      BY <2>0, <3>1, ZenonT(60) DEF Mine, Rows
    <3>2. ASSUME Mine(p), NEW proven, Update(p, [row EXCEPT !.error = "other",
                                      !.state = CASE proven -> "released"
                                                  [] ~proven /\ ~row.dispatched -> "prepared"
                                                  [] OTHER -> "payment_unknown"], Idle)
          PROVE  JournalType'
      <4> DEFINE s == CASE proven -> "released"
                        [] ~proven /\ ~row.dispatched -> "prepared"
                        [] OTHER -> "payment_unknown"
      <4>1. s \in States
        BY Zenon DEF States
      <4>2. [row EXCEPT !.error = "other", !.state = s] \in Rows
        BY <3>1, <3>2, <4>1, ZenonT(60)
      <4> QED
        BY <3>2, <4>2, <1>UpdateType, IdleType, Zenon
    <3>3. JournalType'
      BY <2>5, <3>2, <1>FinishType, ZenonT(60) DEF Fail, JournalType
    <3> QED
      BY <2>5, <3>3, <1>OtherUnchanged, Zenon DEF Fail
  <2> QED
    BY <2>1, <2>2, <2>3, <2>4, <2>5, Zenon

<1>RecoveryType. ASSUME TypeInv, NEW p \in Procs, Recovery(p) PROVE TypeInv'
  <2> USE <1>RecoveryType
  <2> DEFINE me == proc[p]
  <2> USE DEF TypeInv
  <2>0. /\ me \in Locals /\ me \in ProcTypes /\ current \subseteq Procs
        /\ row # None => row \in Rows
        /\ me.pc \in Reading => me.op \in Rows
    BY Zenon DEF JournalType, Locals
  <2>1. {"drain", "budget", "resend"} \subseteq Labels /\ {"drain", "budget"} \subseteq Reading
    BY Zenon DEF Reading, Labels
  <2>2. CASE ListLinks(p)
    <3>1. links' \in [Procs -> SUBSET Execs]
      BY <2>2, Zenon DEF ListLinks, OtherType
    <3> QED
      BY <2>2, <3>1, Zenon DEF ListLinks, JournalType, OtherType, journal, money, delivery
  <2>3. CASE Sweep(p)
    <3> DEFINE local == [Idle EXCEPT !.task = "sweep", !.op = row, !.next = "reconcile",
                                     !.pc = IF row.state = "abandoned" THEN "abandoned" ELSE "attach"]
    <3>1. row \in Rows
      BY <2>0, <2>3, Zenon DEF Sweep
    <3>2. local \in Locals /\ local.op \in Rows
      BY <3>1, ZenonT(60) DEF Idle, Locals, ProcTypes, Labels, Reading, Resumes, NoDetails, Details
    <3>3. JournalType'
      BY <2>3, <3>2, StepType, Zenon DEF Sweep, JournalType
    <3> QED
      BY <2>3, <3>3, <1>OtherUnchanged, Zenon DEF Sweep
  <2>4. CASE SweepAbandoned(p)
    <3> DEFINE local == [me EXCEPT !.pc = "drain", !.next = "idle"]
    <3>1. me.pc \in Reading
      BY <2>4, Zenon DEF SweepAbandoned, Reading
    <3>2. local \in Locals /\ local.op \in Rows
      BY <2>0, <2>1, <3>1, ReaderType, Zenon DEF Resumes
    <3>3. QueueAll(me.op, links[p]) \in Rows
      BY <2>0, <3>1, QueueAllType, Zenon
    <3>4. CASE Save(p, QueueAll(me.op, links[p]), local)
      BY <2>4, <3>2, <3>3, <3>4, <1>UpdateType, <1>OtherUnchanged, Zenon DEF SweepAbandoned
    <3>5. CASE proc' = [proc EXCEPT ![p].pc = "drain", ![p].next = "idle"] /\ UNCHANGED journal
      <4>1. proc' = [proc EXCEPT ![p] = local]
        BY <3>5, ZenonT(60) DEF JournalType
      <4>2. JournalType'
        BY <3>2, <3>5, <4>1, StepType, Zenon DEF JournalType, journal
      <4> QED
        BY <2>4, <4>2, <1>OtherUnchanged, Zenon DEF SweepAbandoned
    <3> QED
      BY <2>4, <3>4, <3>5, Zenon DEF SweepAbandoned
  <2>5. CASE AttachRecovered(p)
    <3> DEFINE r == me.op
               fresh == {e \in links[p] : r.resolutions[e] = "none"}
               stale == {e \in fresh : r.compacted \/ (r.exec # None /\ r.exec # e)}
               mine == fresh \ stale
               local == [me EXCEPT !.pc = "budget"]
    <3>1. me.pc \in Reading /\ me.pc = "attach"
      BY <2>5, Zenon DEF AttachRecovered, Reading
    <3>2. local \in Locals /\ local.op \in Rows
      BY <2>0, <2>1, <3>1, ReaderType, ZenonT(60) DEF Resumes
    <3>3. PICK v \in IF r.resv = None /\ mine # {} THEN mine ELSE {r.resv} :
              LET attached == [QueueAll(r, stale) EXCEPT !.resv = v] IN
              IF attached = r
              THEN Goto(p, "budget") /\ UNCHANGED journal
              ELSE Save(p, attached, [me EXCEPT !.pc = "budget"])
      BY <2>5, ZenonT(60) DEF AttachRecovered
    <3>4. v \in Execs \cup {None}
      BY <2>0, <3>1, <3>3, Zenon DEF OtherType, Rows
    <3>5. [QueueAll(r, stale) EXCEPT !.resv = v] \in Rows
      <4>1. QueueAll(r, stale) \in Rows
        BY <2>0, <3>1, QueueAllType, Zenon
      <4> QED
        BY <3>4, <4>1, Zenon DEF Rows
    <3>6. CASE Goto(p, "budget") /\ UNCHANGED journal
      <4>1. proc' = [proc EXCEPT ![p] = local]
        BY <3>6, Zenon DEF Goto, JournalType
      <4>2. JournalType'
        BY <3>2, <3>6, <4>1, StepType, Zenon DEF JournalType, journal
      <4> QED
        BY <2>5, <4>2, <1>OtherUnchanged, Zenon DEF AttachRecovered
    <3>7. CASE Save(p, [QueueAll(r, stale) EXCEPT !.resv = v], local)
      BY <2>5, <3>2, <3>5, <3>7, <1>UpdateType, <1>OtherUnchanged, Zenon DEF AttachRecovered
    <3> QED
      BY <3>3, <3>6, <3>7, Zenon
  <2>6. CASE RecoverPaid(p)
    <3>1. me.op \in Rows
      BY <2>0, <2>6, Zenon DEF RecoverPaid, Reading
    <3>2. [Unknown(me.op) EXCEPT !.error = "other"] \in Rows
      BY <3>1, Zenon DEF Unknown, Rows, States
    <3>3. JournalType'
      BY <2>0, <2>6, <3>2, <1>UpdateType, IdleType, <1>FinishType, WorkerLocals, WorkerLabels, ZenonT(60)
         DEF RecoverPaid, JournalType, journal
    <3> QED
      BY <2>6, <3>3, <1>OtherUnchanged, Zenon DEF RecoverPaid
  <2>7. CASE ReleaseFailedPrepared(p)
    <3>1. [row EXCEPT !.state = "released"] \in Rows
      BY <2>0, <2>7, Zenon DEF ReleaseFailedPrepared, Rows, States
    <3>2. [Idle EXCEPT !.task = "release", !.pc = "budget", !.next = "idle"] \in Locals
      BY Zenon DEF Idle, Locals, ProcTypes, Labels, Reading, Resumes, NoDetails, Details
    <3> QED
      BY <2>7, <3>1, <3>2, <1>UpdateType, <1>OtherUnchanged, Zenon DEF ReleaseFailedPrepared
  <2>8. CASE Compact(p)
    <3>1. CompactedRow(row) \in Rows
      BY <2>0, <2>8, NoDetailsType, ZenonT(60) DEF Compact, CompactedRow, Rows
    <3> QED
      BY <2>8, <3>1, IdleType, <1>UpdateType, <1>OtherUnchanged, Zenon DEF Compact
  <2> QED
    BY <2>2, <2>3, <2>4, <2>5, <2>6, <2>7, <2>8, Zenon DEF Recovery

\* What a delivery statement does to the row.
<1>TouchType.
    ASSUME JournalType, NEW states, NEW r, NEW done, row \in Rows => r \in Rows, Touch(states, r, done)
    PROVE  row' \in Rows \cup {None} /\ current' \subseteq Procs /\ late' \subseteq [row : Rows, commit : BOOLEAN]
  BY <1>TouchType, Zenon DEF JournalType, Touch

<1>TouchedRows.
    ASSUME row \in Rows, NEW s \in States
    PROVE  [row EXCEPT !.state = s] \in Rows /\ [row EXCEPT !.state = s, !.error = "other"] \in Rows
  BY <1>TouchedRows, Zenon DEF Rows

\* Mark sent, record sent, acknowledge and reject only ever store a typed row.
<1>StatementTypes.
    ASSUME JournalType, NEW done
    PROVE  /\ MarkPendingSent(done) => /\ row' \in Rows \cup {None} /\ current' \subseteq Procs
                                       /\ late' \subseteq [row : Rows, commit : BOOLEAN]
                                       /\ pend' = "sent"
           /\ RecordOutboxSent(done) => /\ row' \in Rows \cup {None} /\ current' \subseteq Procs
                                        /\ late' \subseteq [row : Rows, commit : BOOLEAN]
  <2> USE <1>StatementTypes
  <2>1. ASSUME row \in Rows
        PROVE  /\ [row EXCEPT !.state = "sent"] \in Rows
               /\ [row EXCEPT !.state = IF @ = "rejected_retryable" THEN "paid" ELSE @] \in Rows
    BY <2>1 DEF Rows, States
  <2> QED
    BY <2>1, <1>TouchType, Zenon DEF MarkPendingSent, RecordOutboxSent

<1>ProcsType.
    ASSUME JournalType, NEW p \in Procs, NEW local \in Locals, local.pc \notin Reading,
           proc' = [proc EXCEPT ![p] = local],
           row' \in Rows \cup {None}, current' \subseteq Procs, late' \subseteq [row : Rows, commit : BOOLEAN]
    PROVE  JournalType'
  BY <1>ProcsType, Zenon DEF JournalType

<1>SendType. ASSUME TypeInv, NEW p \in Procs, Resend(p) \/ Sending(p) \/ Stop(p) PROVE TypeInv'
  <2> USE <1>SendType
  <2> DEFINE me == proc[p]
  <2> USE DEF TypeInv
  <2>0. /\ current \subseteq Procs /\ late \subseteq [row : Rows, commit : BOOLEAN] /\ row \in Rows \cup {None}
        /\ proc \in [Procs -> Locals]
    BY Zenon DEF JournalType
  <2>1. /\ Idle \in Locals /\ Idle.pc \notin Reading
        /\ [me EXCEPT !.pc = "sending"] \in Locals /\ [me EXCEPT !.pc = "sending"].pc \notin Reading
        /\ \A c \in {"ok", "unresolved", "proof"} : Ended(p, c) \in Locals /\ Ended(p, c).pc \notin Reading
    <3>1. Idle.pc \notin Reading
      BY Zenon DEF Idle, Reading
    <3>2. [me EXCEPT !.pc = "sending"] \in Locals /\ [me EXCEPT !.pc = "sending"].pc \notin Reading
      <4>1. [me EXCEPT !.pc = "sending"].pc = "sending"
        BY <2>0, Zenon DEF Locals, ProcTypes
      <4> QED
        BY <4>1, WorkerLocals, WorkerLabels, Zenon
    <3>3. ASSUME NEW c \in {"ok", "unresolved", "proof"} PROVE Ended(p, c) \in Locals /\ Ended(p, c).pc \notin Reading
      <4>1. Ended(p, c).pc = "debit"
        BY Zenon DEF Ended, Idle
      <4> QED
        BY <4>1, WorkerLocals, WorkerLabels, Zenon
    <3> QED
      BY <3>1, <3>2, <3>3, IdleType, Zenon
  <2>2. ASSUME NEW c \in {"ok", "unresolved", "proof"}, ResendReturns(p, c), UNCHANGED <<row, late>>
        PROVE  JournalType'
    BY <2>0, <2>1, <2>2, <1>ProcsType, <1>FinishType, Zenon DEF ResendReturns, Ends
  <2>3. CASE Resend(p)
    <3>1. CASE MarkPendingSent({p}) /\ Goto(p, "sending")
      <4>1. proc' = [proc EXCEPT ![p] = [me EXCEPT !.pc = "sending"]]
        BY <2>0, <3>1, Zenon DEF Goto
      <4>2. JournalType' /\ pend' = "sent"
        BY <2>1, <3>1, <4>1, <1>StatementTypes, <1>ProcsType, Zenon
      <4> QED
        BY <2>3, <4>2, Zenon DEF Resend, OtherType, money
    <3>2. CASE ResendReturns(p, IF Mine(p) THEN "proof" ELSE "unresolved") /\ UNCHANGED <<row, late, pend>>
      BY <2>2, <2>3, <3>2, Zenon DEF Resend, OtherType, money
    <3> QED
      BY <2>3, <3>1, <3>2, Zenon DEF Resend
  <2>4. CASE Sending(p)
    <3>1. JournalType'
      BY <2>0, <2>1, <2>2, <2>4, <1>StatementTypes, <1>ProcsType, Zenon DEF Sending, Ends
    <3> QED
      BY <2>4, <3>1, <1>OtherUnchanged, Zenon DEF Sending
  <2>5. CASE Stop(p)
    BY <2>0, <2>5, <1>FinishType, <1>OtherUnchanged, Zenon DEF Stop
  <2> QED
    BY <2>3, <2>4, <2>5, Zenon

<1>EnvironmentType. ASSUME TypeInv, LateCommit \/ WalletStep \/ Deliver PROVE TypeInv'
  <2> USE <1>EnvironmentType
  <2> USE DEF TypeInv
  <2>1. CASE LateCommit
    <3>1. PICK w \in late :
              /\ row' = w.row /\ late' = {} /\ current' = {}
              /\ msg' = IF w.commit THEN w.row.mid ELSE msg
              /\ pend' = IF w.commit /\ pend = "none" THEN "queued" ELSE pend
              /\ UNCHANGED <<proc, links, execs, money, del, flushing>>
      BY <2>1, Zenon DEF LateCommit
    <3>2. w.row \in Rows
      BY <3>1, Zenon DEF JournalType
    <3>3. JournalType'
      BY <3>1, <3>2, Zenon DEF JournalType
    <3>4. msg' \in Execs \cup {None} /\ pend' \in {"none", "queued", "sent", "backoff", "failed"}
      BY <3>1, <3>2, Zenon DEF Rows, OtherType
    <3> QED
      BY <3>1, <3>3, <3>4, Zenon DEF OtherType, money
  <2>2. CASE WalletStep
    <3>1. wallet' \in [Hashes -> {"none", "transit", "inflight", "settled", "failed"}]
      BY <2>2, Zenon DEF WalletStep, OtherType
    <3> QED
      BY <2>2, <3>1, Zenon DEF WalletStep, OtherType, JournalType, journal, delivery
  <2>3. ASSUME row' \in Rows \cup {None}, current' \subseteq Procs, late' \subseteq [row : Rows, commit : BOOLEAN],
               UNCHANGED proc
        PROVE  JournalType'
    BY <2>3, Zenon DEF JournalType
  <2>4. CASE FlushMark
    <3>1. JournalType' /\ pend' = "sent"
      BY <2>3, <2>4, <1>StatementTypes, Zenon DEF FlushMark
    <3> QED
      BY <2>4, <3>1, Zenon DEF FlushMark, OtherType, money
  <2>5. CASE FlushSend
    <3>1. JournalType'
      BY <2>3, <2>5, <1>StatementTypes, Zenon DEF FlushSend, JournalType, journal
    <3> QED
      BY <2>5, <3>1, Zenon DEF FlushSend, OtherType, money
  <2>6. CASE Acknowledge
    <3>1. JournalType'
      BY <2>3, <2>6, <1>TouchType, <1>TouchedRows, Zenon DEF Acknowledge, States
    <3> QED
      BY <2>6, <3>1, Zenon DEF Acknowledge, OtherType, money
  <2>7. CASE DeleteMessage
    BY <2>7, Zenon DEF DeleteMessage, OtherType, JournalType, journal, money
  <2>8. ASSUME NEW terminal \in BOOLEAN, Reject(terminal) PROVE TypeInv'
    <3> DEFINE s == IF terminal THEN "failed_paid" ELSE "rejected_retryable"
    <3>1. s \in States
      BY Zenon DEF States
    <3>2. JournalType'
      BY <2>3, <2>8, <3>1, <1>TouchType, <1>TouchedRows, Zenon DEF Reject
    <3> QED
      BY <2>8, <3>2, Zenon DEF Reject, OtherType, money
  <2> QED
    BY <2>1, <2>2, <2>4, <2>5, <2>6, <2>7, <2>8, Zenon DEF Deliver
<1> SUFFICES ASSUME TypeInv, [Next]_vars PROVE TypeInv'
  BY Zenon
<1>1. CASE UNCHANGED vars
  BY <1>1, Zenon DEF vars, journal, money, delivery, TypeInv, JournalType, OtherType
<1>2. ASSUME NEW p \in Procs, Worker(p) PROVE TypeInv'
  BY <1>2, <1>BeforeDispatchType, <1>CallType, <1>OutcomeType, Zenon DEF Worker
<1> QED
  BY <1>1, <1>2, <1>RequestType, <1>BudgetType, <1>ReconcileType, <1>RecoveryType, <1>SendType, <1>EnvironmentType, Zenon DEF Next

\* Every reachable state is well typed, for any number of processes, executions
\* and payments: save, materialize, record and the sweep only ever store rows
\* of OutboxOperation's shape, and a program that works on a loaded row has one.
THEOREM TypeCorrect == Spec => []TypeOK
<1>1. Spec => []TypeInv
  BY InitType, NextTypeInv, PTL DEF Spec
<1> QED
  BY <1>1, TypeInvTypeOK, PTL

-----------------------------------------------------------------------------
(* The steps that keep Inv *)

\* A step that leaves the wallet alone, and forgets no execution or payer,
\* keeps what is known of a given row and of given locals.
Grows ==
    /\ wallet' = wallet
    /\ execs \subseteq execs'
    /\ \A h \in Hashes : payer[h] # None => payer'[h] # None

LEMMA Frame ==
    ASSUME Grows \/ UNCHANGED <<wallet, payer, execs>>, NEW r, NEW p
    PROVE  /\ NoLive => NoLive'
           /\ PaidOnce => PaidOnce'
           /\ FreshInv => FreshInv'
           /\ RowInv(r) => RowInv(r)'
           /\ Owns(proc'[p], r) => Owns(proc[p], r)'
           /\ Local(proc'[p]) => Local(proc[p])'
           /\ Copy(proc'[p], r) => Copy(proc[p], r)'
<1>0. Grows
  BY Zenon DEF Grows
<1>1. (NoLive => NoLive') /\ (PaidOnce => PaidOnce') /\ (FreshInv => FreshInv')
  BY <1>0, Zenon DEF Grows, NoLive, PaidOnce, FreshInv, Live
<1>2. RowInv(r) => RowInv(r)'
  BY <1>0, <1>1, Zenon DEF Grows, RowInv, Covers, Truth, Settled, NoLive, Live
<1>3. Owns(proc'[p], r) => Owns(proc[p], r)'
  BY <1>0, Zenon DEF Grows, Owns, Live
<1>4. Local(proc'[p]) => Local(proc[p])'
  BY <1>0, <1>1, Zenon DEF Grows, Local, NoLive, Live
<1>5. Copy(proc'[p], r) => Copy(proc[p], r)'
  BY <1>0, Zenon DEF Grows, Copy, Truth
<1> QED
  BY <1>1, <1>2, <1>3, <1>4, <1>5, Zenon

LEMMA IdleFacts ==
    /\ Local(Idle)
    /\ \A r : Owns(Idle, r)
    /\ Idle.ex = None
BY Zenon DEF Idle, Local, Owns, Working, Asking, Called

\* A step that changes the locals of one process only.
LEMMA LocalStep ==
    ASSUME TypeInv, Inv, NEW p \in Procs, NEW me,
           proc' = [proc EXCEPT ![p] = me], UNCHANGED <<row, late, wallet, payer, execs>>,
           current' \subseteq current \cup {p}, me.ex \in {None, proc[p].ex},
           Local(me), \A r \in AllRows : Owns(me, r),
           p \in current' => row \in Rows /\ Copy(me, row)
    PROVE  Inv' /\ Keeps(row')
<1>0. proc \in [Procs -> Locals] /\ current \subseteq Procs
  BY Zenon DEF TypeInv, JournalType
<1>1. \A q \in Procs : proc'[q] = IF q = p THEN me ELSE proc[q]
  BY <1>0, Zenon
<1>2. AllRows' = AllRows
  BY Zenon DEF AllRows
<1>3. PaidOnce' /\ FreshInv' /\ EmptyInv' /\ LatesInv'
  BY Frame, Zenon DEF Inv, EmptyInv, LatesInv, Keeps
<1>4. RowsInv'
  BY <1>2, Frame, Zenon DEF Inv, RowsInv
<1>5. OwnsInv'
  <2> SUFFICES ASSUME NEW r \in AllRows, NEW q \in Procs PROVE Owns(proc[q], r)'
    BY <1>2, Zenon DEF OwnsInv
  <2>1. Owns(proc'[q], r)
    BY <1>1, Zenon DEF Inv, OwnsInv
  <2> QED
    BY <2>1, Frame, Zenon
<1>6. LocalsInv'
  <2> SUFFICES ASSUME NEW q \in Procs PROVE Local(proc[q])'
    BY Zenon DEF LocalsInv
  <2>1. Local(proc'[q])
    BY <1>1, Zenon DEF Inv, LocalsInv
  <2> QED
    BY <2>1, Frame, Zenon
<1>7. FenceInv'
  BY <1>1 DEF Inv, FenceInv
<1>8. CopiesInv'
  <2> SUFFICES ASSUME NEW q \in current' PROVE (row \in Rows)' /\ Copy(proc[q], row)'
    BY Zenon DEF CopiesInv
  <2>1. row \in Rows /\ q \in Procs /\ Copy(proc'[q], row)
    BY <1>0, <1>1, Zenon DEF Inv, CopiesInv
  <2>2. Copy(proc[q], row)'
    BY <2>1, Zenon DEF Copy, Truth
  <2> QED
    BY <2>1, <2>2, Zenon
<1>9. Keeps(row')
  BY Zenon DEF Keeps
<1> QED
  BY <1>3, <1>4, <1>5, <1>6, <1>7, <1>8, <1>9, Zenon DEF Inv

\* A write of the row, at once or from the queue of the SQL worker.
Stored(local, r) == IF local = Idle THEN Idle ELSE [local EXCEPT !.op = IF local.ex = None THEN r ELSE None]

LEMMA WriteStep ==
    ASSUME TypeInv, Inv, NEW p \in Procs, NEW r \in Rows, NEW local \in Locals, NEW c \in BOOLEAN,
           Commit(p, r, local) \/ (row \in Rows /\ Cancelled(p, r, c)),
           Grows \/ UNCHANGED <<wallet, payer, execs>>, RowInv(r) \/ RowInv(r)', \A q \in Procs \ {p} : Owns(proc[q], r), Keeps(r),
           Local(Stored(local, r)) \/ Local(Stored(local, r))', Owns(Stored(local, r), r),
           local # Idle => Copy(Stored(local, r), r),
           Stored(local, r).ex \in {None, proc[p].ex} \/ Stored(local, r).ex \notin execs
    PROVE  Inv' /\ Keeps(row')
<1>0. proc \in [Procs -> Locals] /\ current \subseteq Procs
  BY Zenon DEF TypeInv, JournalType
<1>w. wallet' = wallet
  BY Zenon DEF Grows
<1>r. RowInv(r)'
  BY Frame, Zenon
<1>1. CASE Commit(p, r, local)
  <2> DEFINE me == Stored(local, r)
  <2>1. \A q \in Procs : proc'[q] = IF q = p THEN me ELSE proc[q]
    BY <1>0, <1>1, Zenon DEF Commit, Stored
  <2> HIDE DEF me
  <2>2. row' = r /\ late' = {} /\ current' = (IF local = Idle THEN {} ELSE {p})
    BY <1>1, Zenon DEF Commit
  <2>3. AllRows' = {r}
    BY <2>2, Zenon DEF AllRows
  <2>4. PaidOnce' /\ FreshInv' /\ EmptyInv' /\ LatesInv'
    BY <2>2, Frame, Zenon DEF Inv, EmptyInv, LatesInv
  <2>5. RowsInv'
    BY <1>r, <2>3, Zenon DEF RowsInv
  <2>6. OwnsInv'
    <3> SUFFICES ASSUME NEW q \in Procs PROVE Owns(proc[q], r)'
      BY <2>3, Zenon DEF OwnsInv
    <3>1. Owns(proc'[q], r)
      BY <2>1, Zenon DEF me
    <3> QED
      BY <3>1, Frame, Zenon
  <2>7. LocalsInv'
    <3> SUFFICES ASSUME NEW q \in Procs PROVE Local(proc[q])'
      BY Zenon DEF LocalsInv
    <3>1. CASE Local(proc'[q])
      BY <3>1, Frame, Zenon
    <3>2. CASE q = p /\ Local(me)'
      BY <2>1, <3>2, Zenon DEF Local, me
    <3> QED
      BY <2>1, <3>1, <3>2, Zenon DEF Inv, LocalsInv, me
  <2>8. FenceInv'
    <3>1. \A q \in Procs : proc[q].ex # None => proc[q].ex \in execs
      BY Zenon DEF Inv, LocalsInv, Local
    <3> QED
      BY <2>1, <3>1, Zenon DEF Inv, FenceInv, me
  <2>9. CopiesInv'
    <3> SUFFICES ASSUME local # Idle PROVE (row \in Rows)' /\ Copy(proc[p], row)'
      BY <2>2, Zenon DEF CopiesInv
    <3>1. Copy(proc'[p], row')
      BY <2>1, <2>2, Zenon DEF me
    <3>2. Copy(proc[p], row)'
      BY <1>w, <3>1, Zenon DEF Copy, Truth
    <3> QED
      BY <2>2, <3>2, Zenon
  <2> QED
    BY <2>2, <2>4, <2>5, <2>6, <2>7, <2>8, <2>9, Zenon DEF Inv
<1>2. CASE row \in Rows /\ Cancelled(p, r, c)
  <2>1. \A q \in Procs : proc'[q] = IF q = p THEN Idle ELSE proc[q]
    BY <1>0, <1>2, Zenon DEF Cancelled, Finish
  <2>2. row' = row /\ late' = late \cup {[row |-> r, commit |-> c]} /\ current' = current \ {p}
    BY <1>2, Zenon DEF Cancelled, Finish
  <2>3. AllRows' \subseteq AllRows \cup {r}
    <3> SUFFICES ASSUME NEW s \in AllRows' PROVE s \in AllRows \cup {r}
      BY Zenon
    <3>1. CASE s = row /\ row \in Rows
      BY <3>1, Zenon DEF AllRows
    <3>2. ASSUME NEW w \in late', s = w.row PROVE s \in AllRows \cup {r}
      BY <2>2, <3>2 DEF AllRows
    <3> QED
      BY <2>2, <3>1, <3>2, Zenon DEF AllRows
  <2>4. PaidOnce' /\ FreshInv' /\ EmptyInv'
    BY <1>2, <2>2, Frame, Zenon DEF Inv, EmptyInv
  <2>5. LatesInv'
    <3> SUFFICES ASSUME NEW w \in late \cup {[row |-> r, commit |-> c]} PROVE Keeps(w.row)'
      BY <2>2, Zenon DEF LatesInv
    <3>1. Keeps(w.row)
      BY DEF Inv, LatesInv
    <3> QED
      BY <2>2, <3>1, Zenon DEF Keeps
  <2>6. RowsInv'
    BY <1>r, <2>3, Frame, Zenon DEF Inv, RowsInv
  <2>7. OwnsInv'
    <3> SUFFICES ASSUME NEW s \in AllRows \cup {r}, NEW q \in Procs PROVE Owns(proc[q], s)'
      BY <2>3, Zenon DEF OwnsInv
    <3>1. Owns(proc'[q], s)
      BY <2>1, IdleFacts, Zenon DEF Inv, OwnsInv
    <3> QED
      BY <3>1, Frame, Zenon
  <2>8. LocalsInv'
    <3> SUFFICES ASSUME NEW q \in Procs PROVE Local(proc[q])'
      BY Zenon DEF LocalsInv
    <3>1. Local(proc'[q])
      BY <2>1, IdleFacts, Zenon DEF Inv, LocalsInv
    <3> QED
      BY <3>1, Frame, Zenon
  <2>9. FenceInv'
    BY <2>1, IdleFacts, Zenon DEF Inv, FenceInv
  <2>10. CopiesInv'
    <3> SUFFICES ASSUME NEW q \in current \ {p} PROVE (row \in Rows)' /\ Copy(proc[q], row)'
      BY <2>2, Zenon DEF CopiesInv
    <3>1. row \in Rows /\ q \in Procs /\ Copy(proc'[q], row)
      BY <1>0, <2>1, Zenon DEF Inv, CopiesInv
    <3>2. Copy(proc[q], row)'
      BY <1>w, <2>2, <3>1, Zenon DEF Copy, Truth
    <3> QED
      BY <2>2, <3>1, <3>2, Zenon
  <2>11. Keeps(row')
    BY <2>2, Zenon DEF Keeps
  <2> QED
    BY <2>4, <2>5, <2>6, <2>7, <2>8, <2>9, <2>10, <2>11, Zenon DEF Inv
<1> QED
  BY <1>1, <1>2, Zenon

-----------------------------------------------------------------------------
(* Accounting and drafting leave alone what the invariant speaks of *)

SameCore(r, s) ==
    /\ s.state = r.state /\ s.exec = r.exec /\ s.dispatched = r.dispatched
    /\ s.hash = r.hash /\ s.settlement = r.settlement
    /\ s.settled = r.settled /\ s.ready = r.ready /\ s.compacted = r.compacted

LEMMA CoreKept ==
    ASSUME NEW r, NEW s, SameCore(r, s)
    PROVE  /\ RowInv(r) => RowInv(s)
           /\ \A me : Owns(me, r) => Owns(me, s)
           /\ Keeps(r) => Keeps(s)
<1>1. RowInv(r) => RowInv(s)
  BY Zenon DEF SameCore, RowInv, Covers, Settled
<1>2. \A me : Owns(me, r) => Owns(me, s)
  BY Zenon DEF SameCore, Owns, Unresolved
<1>3. Keeps(r) => Keeps(s)
  BY Zenon DEF SameCore, Keeps
<1> QED
  BY <1>1, <1>2, <1>3, Zenon

LEMMA QueueCore ==
    ASSUME NEW r \in Rows, NEW a
    PROVE  SameCore(r, QueueMessageResolution(r, a))
BY Zenon DEF SameCore, QueueMessageResolution, QueueResolution, Rows

LEMMA AccountingCore ==
    ASSUME NEW r \in Rows
    PROVE  /\ SameCore(r, r)
           /\ SameCore(r, BudgetRow(r))
           /\ SameCore(r, DrainedRow(r))
           /\ \A es : SameCore(r, QueueAll(r, es))
           /\ \A es, v : SameCore(r, [QueueAll(r, es) EXCEPT !.resv = v])
<1>1. SameCore(r, r)
  BY Zenon DEF SameCore
<1>2. SameCore(r, BudgetRow(r))
  BY <1>1, QueueCore, Zenon DEF BudgetRow
<1>3. SameCore(r, DrainedRow(r))
  BY Zenon DEF SameCore, DrainedRow, Rows
<1>4. ASSUME NEW es PROVE SameCore(r, QueueAll(r, es))
  BY Zenon DEF SameCore, QueueAll, Rows
<1>5. ASSUME NEW es, NEW v PROVE SameCore(r, [QueueAll(r, es) EXCEPT !.resv = v])
  BY QueueAllType, Zenon DEF SameCore, QueueAll, Rows
<1> QED
  BY <1>1, <1>2, <1>3, <1>4, <1>5, Zenon

-----------------------------------------------------------------------------
(* Programs that work on a copy of the row *)

\* What a program that goes on with the row r as its copy must know.
Resumable(me, r) ==
    /\ "fence" \in {me.pc, me.next} => me.task = "abandon"
    /\ me.pc = "claim" => r.state \in {"prepared", "released"}
    /\ me.task = "abandon" => r.state \in {"prepared", "released"}
    /\ me.pc = "apply" => Truth(me.seen) /\ Unresolved(r) /\ r.dispatched

LEMMA ReaderFacts ==
    ASSUME NEW me \in Locals, me.pc \in Reading \cup {"resend"}, me.ex = None, NEW r, Resumable(me, r)
    PROVE  /\ Local(me)
           /\ \A s : Owns(me, s)
           /\ me.op = r => Copy(me, r)
BY Zenon DEF Local, Owns, Copy, Resumable, Reading, Working, Asking, Called

\* The copy of a reader is the row when its version is current.
LEMMA CurrentCopy ==
    ASSUME TypeInv, Inv, NEW p \in current
    PROVE  /\ p \in Procs /\ row \in Rows /\ row \in AllRows /\ RowInv(row)
           /\ \A q \in Procs : Owns(proc[q], row)
           /\ Copy(proc[p], row)
           /\ Keeps(row)
           /\ proc[p].pc \in Reading => proc[p].ex = None /\ proc[p].op = row /\ proc[p] \in Locals
BY Zenon DEF TypeInv, JournalType, Inv, CopiesInv, RowsInv, OwnsInv, AllRows, Copy, Keeps, Locals

LEMMA ReaderSave ==
    ASSUME TypeInv, Inv, NEW p \in current, NEW r \in Rows, NEW local \in Locals, NEW c \in BOOLEAN,
           Commit(p, r, local) \/ Cancelled(p, r, c), UNCHANGED <<wallet, payer, execs>>,
           RowInv(r), \A q \in Procs \ {p} : Owns(proc[q], r), Keeps(r),
           local = Idle \/ (local.pc \in Reading \cup {"resend"} /\ local.ex = None /\ Resumable(local, r))
    PROVE  Inv' /\ Keeps(row')
<1> DEFINE me == Stored(local, r)
<1>0. p \in Procs /\ row \in Rows
  BY CurrentCopy, Zenon
<1>1. CASE local = Idle
  BY <1>0, <1>1, IdleFacts, WriteStep, Zenon DEF Stored
<1>2. CASE local # Idle
  <2>1. me = [local EXCEPT !.op = r]
    BY <1>2, Zenon DEF Stored
  <2>2. /\ me \in Locals /\ me.op = r /\ me.ex = None /\ me.pc \in Reading \cup {"resend"}
        /\ Resumable(me, r)
    BY <1>2, <2>1, Zenon DEF Locals, ProcTypes, Resumable
  <2> HIDE DEF me
  <2>3. Local(me) /\ Owns(me, r) /\ Copy(me, r)
    BY <2>2, ReaderFacts, Zenon
  <2> QED
    BY <1>0, <2>2, <2>3, WriteStep, Zenon DEF me
<1> QED
  BY <1>1, <1>2, Zenon

LEMMA ReaderStep ==
    ASSUME TypeInv, Inv, NEW p \in Procs, NEW me \in Locals,
           proc' = [proc EXCEPT ![p] = me], UNCHANGED <<row, late, wallet, payer, execs>>,
           current' \subseteq current \cup {p},
           me = Idle \/ (me.pc \in Reading \cup {"resend"} /\ me.ex = None),
           me # Idle /\ "fence" \in {me.pc, me.next} => me.task = "abandon",
           p \in current' => row \in Rows /\ me # Idle /\ me.op = row /\ Resumable(me, row)
    PROVE  Inv' /\ Keeps(row')
<1>1. CASE me = Idle
  BY <1>1, LocalStep, IdleFacts, Zenon
<1>2. CASE me # Idle
  <2>1. Local(me) /\ \A s : Owns(me, s)
    <3>1. me.pc # "idle"
      BY <1>2, Zenon DEF Reading
    <3> QED
      BY <1>2, <3>1, Zenon DEF Local, Owns, Reading, Working, Asking, Called
  <2>2. p \in current' => Copy(me, row)
    BY <1>2, ReaderFacts, Zenon
  <2> QED
    BY <1>2, <2>1, <2>2, LocalStep, Zenon
<1> QED
  BY <1>1, <1>2, Zenon

\* A reader that goes to another of its steps, and sets its return step or not.
Moved(me, m, l) ==
    /\ m \in Locals /\ m # Idle /\ m.pc = l /\ m.pc \in Reading /\ m.ex = None /\ m.op = me.op
    /\ "fence" \in {m.pc, m.next} => m.task = "abandon"

LEMMA Moves ==
    ASSUME TypeInv, Inv, NEW p \in Procs, proc[p].pc \in Reading, NEW l \in Reading \ {"claim", "apply"},
           NEW n \in Resumes, l = "fence" => proc[p].next = "fence", n = "fence" => proc[p].next = "fence"
    PROVE  /\ Moved(proc[p], [proc[p] EXCEPT !.pc = l], l)
           /\ Moved(proc[p], [proc[p] EXCEPT !.pc = l, !.next = n], l)
           /\ p \in current => \A r : r.state = row.state \/ proc[p].task # "abandon" =>
                                   /\ Resumable([proc[p] EXCEPT !.pc = l], r)
                                   /\ Resumable([proc[p] EXCEPT !.pc = l, !.next = n], r)
<1> DEFINE me == proc[p]
           m1 == [proc[p] EXCEPT !.pc = l]
           m2 == [proc[p] EXCEPT !.pc = l, !.next = n]
<1>1. me \in Locals /\ me \in ProcTypes /\ me.ex = None /\ ("fence" \in {me.pc, me.next} => me.task = "abandon")
  BY Zenon DEF TypeInv, JournalType, Inv, LocalsInv, Local, Locals
<1>2. /\ m1 \in Locals /\ m1.pc = l /\ m1.next = me.next /\ m1.ex = None /\ m1.op = me.op /\ m1.task = me.task
      /\ m2 \in Locals /\ m2.pc = l /\ m2.next = n /\ m2.ex = None /\ m2.op = me.op /\ m2.task = me.task
  BY <1>1, ReaderType, Zenon DEF ProcTypes
<1>3. Idle.pc \notin Reading
  BY Zenon DEF Idle, Reading
<1>4. Moved(me, m1, l) /\ Moved(me, m2, l)
  BY <1>1, <1>2, <1>3, Zenon DEF Moved
<1>5. ASSUME p \in current, NEW r, r.state = row.state \/ me.task # "abandon"
      PROVE  Resumable(m1, r) /\ Resumable(m2, r)
  <2>1. me.task = "abandon" => row.state \in {"prepared", "released"}
    BY <1>5, CurrentCopy, Zenon DEF Copy
  <2> QED
    BY <1>1, <1>2, <1>5, <2>1, Zenon DEF Resumable
<1> QED
  BY <1>4, <1>5, Zenon
-----------------------------------------------------------------------------
(* Rows that reconcile writes *)

LEMMA SettledIsLive ==
    ASSUME NEW r \in Rows, Settled(r)
    PROVE  ~NoLive /\ Live(r.hash) /\ r.hash \in Hashes
BY Zenon DEF Settled, NoLive, Live, Rows

LEMMA EvidenceRow ==
    ASSUME NEW r \in Rows, RowInv(r)
    PROVE  LET s == WithEvidence(r) IN
           /\ s \in Rows /\ RowInv(s)
           /\ \A me : Owns(me, r) => Owns(me, s)
           /\ Keeps(r) => Keeps(s)
           /\ s.state = r.state /\ s.exec = r.exec /\ s.dispatched = r.dispatched /\ s.hash = r.hash
           /\ s.settlement = r.settlement /\ s.ready = r.ready /\ s.compacted = r.compacted /\ s.draft = r.draft
<1> DEFINE s == WithEvidence(r)
<1>1. /\ s \in Rows /\ s.state = r.state /\ s.exec = r.exec /\ s.dispatched = r.dispatched /\ s.hash = r.hash
      /\ s.settlement = r.settlement /\ s.ready = r.ready /\ s.compacted = r.compacted /\ s.draft = r.draft
      /\ s.settled = (r.settled \/ SettlementMatches(r))
  <2>1. (r.settled \/ SettlementMatches(r)) \in BOOLEAN
    BY Zenon DEF Rows, SettlementMatches
  <2> QED
    BY <2>1, WithEvidenceType DEF WithEvidence, Rows
<1> HIDE DEF s
<1>2. SettlementMatches(r) => Settled(r)
  BY Zenon DEF SettlementMatches, Settled, RowInv, Truth
<1>3. RowInv(s)
  BY <1>1, <1>2, ZenonT(60) DEF RowInv, Covers, Settled
<1>4. \A me : Owns(me, r) => Owns(me, s)
  BY <1>1, Zenon DEF Owns, Unresolved
<1>5. Keeps(r) => Keeps(s)
  BY <1>1, Zenon DEF Keeps
<1> QED
  BY <1>1, <1>3, <1>4, <1>5, Zenon DEF s

\* An unresolved row that dispatched nothing has no live payment.
LEMMA UndispatchedNoLive ==
    ASSUME NEW r, RowInv(r), ~r.dispatched, Unresolved(r) \/ r.exec # None
    PROVE  NoLive
BY Zenon DEF RowInv, Covers, Unresolved, NoLive

\* Between intent and wallet call no payment is live, so nothing is settled.
LEMMA SettledOwns ==
    ASSUME TypeInv, Inv, NEW q \in Procs, NEW r, NEW s \in Rows, Settled(s), Owns(proc[q], r),
           s.exec = r.exec, s.dispatched = r.dispatched, s.hash = r.hash
    PROVE  Owns(proc[q], s)
<1>1. proc[q].pc \notin Asking
  BY SettledIsLive, Zenon DEF Inv, LocalsInv, Local
<1> QED
  BY <1>1, Zenon DEF Owns

\* A row that no worker is about to pay for.
LEMMA NobodyAsks ==
    ASSUME NEW me, NEW r, NEW s, Owns(me, r), ~Unresolved(r) \/ ~r.dispatched,
           s.exec = None \/ (s.exec = r.exec /\ s.dispatched = r.dispatched /\ s.hash = r.hash),
           me.pc \in Called => me.ex # None
    PROVE  Owns(me, s)
BY Zenon DEF Owns, Unresolved, Asking, Called

LEMMA CalledEx ==
    ASSUME Inv, NEW q \in Procs PROVE proc[q].pc \in Called => proc[q].ex # None
BY Zenon DEF Inv, LocalsInv, Local, Called, Working

LEMMA UnknownRow ==
    ASSUME NEW r \in Rows, NEW e \in {"none", "incomplete", "other"}, RowInv(r), ~r.compacted
    PROVE  LET s == [Unknown(r) EXCEPT !.error = e] IN
           /\ s \in Rows /\ RowInv(s) /\ (Keeps(r) => Keeps(s)) /\ Unknown(r) \in Rows /\ RowInv(Unknown(r))
           /\ (Keeps(r) => Keeps(Unknown(r)))
           /\ \A me : Owns(me, r) => Owns(me, s) /\ Owns(me, Unknown(r))
<1> DEFINE s == [Unknown(r) EXCEPT !.error = e]
           u == Unknown(r)
<1>1. "payment_unknown" \in States
  BY Zenon DEF States
<1>2. /\ u \in Rows /\ u.state = "payment_unknown" /\ u.exec = r.exec /\ u.dispatched = r.dispatched
      /\ u.hash = r.hash /\ u.settlement = r.settlement /\ u.ready = r.ready /\ u.settled = r.settled
      /\ u.compacted = r.compacted
  BY <1>1, Zenon DEF Unknown, Rows
<1>3. s \in Rows /\ SameCore(u, s)
  BY <1>2, Zenon DEF SameCore, Rows
<1> HIDE DEF s, u
<1>4. RowInv(u)
  BY <1>2, Zenon DEF RowInv, Covers, Settled, Unpaid, Paid
<1>5. \A me : Owns(me, r) => Owns(me, u)
  BY <1>2, Zenon DEF Owns, Unresolved
<1>6. Keeps(r) => Keeps(u)
  BY <1>2, Zenon DEF Keeps
<1> QED
  BY <1>2, <1>3, <1>4, <1>5, <1>6, CoreKept, Zenon DEF s, u

LEMMA PaidRow ==
    ASSUME NEW r \in Rows, RowInv(r), Settled(r), ~r.compacted
    PROVE  LET s == [r EXCEPT !.state = "paid"] IN
           /\ s \in Rows /\ RowInv(s) /\ Settled(s) /\ (Keeps(r) => Keeps(s))
           /\ s.exec = r.exec /\ s.dispatched = r.dispatched /\ s.hash = r.hash
           /\ s.ready = r.ready
<1> DEFINE s == [r EXCEPT !.state = "paid"]
<1>1. "paid" \in States
  BY Zenon DEF States
<1>2. /\ s \in Rows /\ s.state = "paid" /\ s.exec = r.exec /\ s.dispatched = r.dispatched
      /\ s.hash = r.hash /\ s.settlement = r.settlement /\ s.ready = r.ready /\ s.settled = r.settled
      /\ s.compacted = r.compacted
  BY <1>1, Zenon DEF Rows
<1> HIDE DEF s
<1>3. Settled(s)
  BY <1>2, Zenon DEF Settled
<1>4. RowInv(s)
  BY <1>2, <1>3, Zenon DEF RowInv, Covers, Unpaid
<1>5. Keeps(r) => Keeps(s)
  BY <1>2, Zenon DEF Keeps
<1> QED
  BY <1>2, <1>3, <1>4, <1>5, Zenon DEF s

\* The row of a payment found failed.
LEMMA ReleasedRow ==
    ASSUME NEW r \in Rows, NEW d \in Details, RowInv(r), Truth(d), d.status = "failed", Identified(d, r),
           ~r.settled, r.dispatched, Unresolved(r)
    PROVE  LET s == [QueueMessageResolution([r EXCEPT !.settlement = d], "zero") EXCEPT !.state = "released"] IN
           /\ s \in Rows /\ RowInv(s) /\ NoLive /\ (Keeps(r) => Keeps(s)) /\ s.state = "released"
           /\ s.exec = r.exec /\ s.dispatched = r.dispatched /\ s.hash = r.hash
           /\ wallet[r.hash] = "failed"
<1> DEFINE t == [r EXCEPT !.settlement = d]
           u == QueueMessageResolution(t, "zero")
           s == [u EXCEPT !.state = "released"]
<1>1. /\ t \in Rows /\ t.state = r.state /\ t.exec = r.exec /\ t.dispatched = r.dispatched
      /\ t.hash = r.hash /\ t.settlement = d /\ t.ready = r.ready /\ t.settled = r.settled
      /\ t.compacted = r.compacted
  BY ZenonT(60) DEF Rows
<1>2. u \in Rows /\ SameCore(t, u)
  BY <1>1, QueueType, QueueCore, Zenon
<1>3. "released" \in States
  BY Zenon DEF States
<1> HIDE DEF u
<1>4. /\ s \in Rows /\ s.state = "released" /\ s.exec = u.exec /\ s.dispatched = u.dispatched
      /\ s.hash = u.hash /\ s.settlement = u.settlement /\ s.ready = u.ready /\ s.settled = u.settled
      /\ s.compacted = u.compacted
  BY <1>2, <1>3, Zenon DEF Rows
<1> HIDE DEF s, t
<1>5. wallet[r.hash] = "failed"
  BY Zenon DEF Truth, Identified
<1>6. NoLive
  BY <1>5, Zenon DEF RowInv, Covers, NoLive, Live, Unresolved, Identified
<1>7. ~r.ready /\ ~Settled(r) /\ ~r.compacted
  BY <1>6, SettledIsLive, Zenon DEF RowInv, Unresolved, Closed
<1>8. RowInv(s)
  BY <1>1, <1>2, <1>4, <1>6, <1>7, Zenon DEF SameCore, RowInv, Covers, NoLive, Paid
<1>9. Keeps(r) => Keeps(s)
  BY <1>1, <1>2, <1>4, Zenon DEF SameCore, Keeps
<1> QED
  BY <1>1, <1>2, <1>4, <1>5, <1>6, <1>8, <1>9, ZenonT(60) DEF SameCore, s, t, u

\* What the wallet answers is what it holds.
LEMMA AnswersTruth ==
    ASSUME NEW h, NEW d \in Answers(h)
    PROVE  d.hash = h /\ (d.status \in {"failed", "settled"} => wallet[h] = d.status)
<1>1. CASE wallet[h] = "inflight"
  BY <1>1, Zenon DEF Answers, NoDetails
<1>2. CASE wallet[h] = "failed"
  BY <1>2, Zenon DEF Answers, NoDetails
<1>3. CASE wallet[h] = "settled"
  BY <1>3, Zenon DEF Answers
<1>4. wallet[h] \in {"inflight", "failed", "settled"}
  BY Zenon DEF Answers
<1> QED
  BY <1>1, <1>2, <1>3, <1>4, Zenon
\* A handler that loads the row and writes it in one step.
LEMMA LoadedRow ==
    ASSUME TypeInv, Inv, row # None
    PROVE  /\ row \in Rows /\ RowInv(row) /\ Keeps(row)
           /\ \A q \in Procs : Owns(proc[q], row)
BY Zenon DEF TypeInv, JournalType, Inv, RowsInv, OwnsInv, AllRows, Keeps
LEMMA NothingChanged ==
    ASSUME Inv, UNCHANGED <<row, current, late, proc, wallet, payer, execs>>
    PROVE  Inv' /\ Keeps(row')
<1>1. (PaidOnce /\ FreshInv /\ EmptyInv)'
  BY Zenon DEF Inv, PaidOnce, FreshInv, EmptyInv, NoLive, Live
<1>2. AllRows' = AllRows
  BY Zenon DEF AllRows
<1>3. RowsInv'
  BY <1>2, Frame, Zenon DEF Inv, RowsInv
<1>4. OwnsInv'
  BY <1>2, Zenon DEF Inv, OwnsInv, Owns, Live
<1>5. LocalsInv' /\ FenceInv'
  BY ZenonT(60) DEF Inv, LocalsInv, FenceInv, Local, NoLive, Live
<1>6. CopiesInv' /\ LatesInv' /\ Keeps(row')
  BY Zenon DEF Inv, CopiesInv, LatesInv, Copy, Truth, Keeps
<1> QED
  BY <1>1, <1>3, <1>4, <1>5, <1>6, Zenon DEF Inv

-----------------------------------------------------------------------------
(* recover_budget and reconcile *)

LEMMA BudgetInv == ASSUME TypeInv, Inv, NEW p \in Procs, Budget(p) PROVE Inv' /\ Keeps(row')
<1> DEFINE me == proc[p]
<1>0. /\ me.pc \in Reading /\ me \in Locals /\ me.next \in Resumes /\ proc \in [Procs -> Locals]
      /\ Idle \in Locals /\ me.op \in Rows
  <2>1. me.pc \in Reading
    BY Zenon DEF Budget, RecoverBudget, Drain, Drained, Reading
  <2> QED
    BY <2>1, IdleType, Zenon DEF TypeInv, JournalType, Locals
<1>1. me.next # "idle" => /\ Moved(me, Resumed(p), me.next) /\ Resumed(p) = [me EXCEPT !.pc = me.next]
                          /\ p \in current => \A r : r.state = row.state => Resumable(Resumed(p), r)
  BY <1>0, Moves, Zenon DEF Resumed, Resumes, Reading
<1>2. ASSUME Returns(p), UNCHANGED <<row, late, wallet, payer, execs>> PROVE Inv' /\ Keeps(row')
  <2>1. CASE me.next = "idle"
    BY <1>0, <1>2, <2>1, ReaderStep, Zenon DEF Returns, Finish
  <2>2. CASE me.next # "idle"
    <3>1. proc' = [proc EXCEPT ![p] = Resumed(p)] /\ current' = current
      BY <1>0, <1>1, <1>2, <2>2, Zenon DEF Returns, Goto
    <3>2. p \in current => row \in Rows /\ Resumed(p).op = row /\ Resumable(Resumed(p), row)
      BY <1>0, <1>1, <2>2, CurrentCopy, Zenon DEF Moved
    <3> QED
      BY <1>1, <1>2, <2>2, <3>1, <3>2, ReaderStep, Zenon DEF Moved
  <2> QED
    BY <2>1, <2>2, Zenon
<1>3. ASSUME NEW l \in {"drain", "drained"}, Goto(p, l), UNCHANGED <<journal, wallet, payer, execs>>
      PROVE  Inv' /\ Keeps(row')
  <2> DEFINE m == [me EXCEPT !.pc = l]
  <2>1. Moved(me, m, l) /\ (p \in current => Resumable(m, row))
    BY <1>0, Moves, Zenon DEF Reading
  <2>2. proc' = [proc EXCEPT ![p] = m]
    BY <1>0, <1>3, Zenon DEF Goto
  <2> HIDE DEF m
  <2>3. p \in current => row \in Rows /\ me.op = row
    BY <1>0, CurrentCopy, Zenon
  <2> QED
    BY <1>3, <2>1, <2>2, <2>3, ReaderStep, Zenon DEF Moved, journal
<1>4. ASSUME NEW r \in Rows, SameCore(row, r), NEW local \in Locals, Save(p, r, local),
             local = Idle \/ (Moved(me, local, local.pc) /\ Resumable(local, r)),
             UNCHANGED <<wallet, payer, execs>>
      PROVE  Inv' /\ Keeps(row')
  <2>1. p \in current
    BY <1>4, Zenon DEF Save
  <2>2. RowInv(r) /\ (\A q \in Procs : Owns(proc[q], r)) /\ Keeps(r)
    BY <1>4, <2>1, CurrentCopy, CoreKept, Zenon
  <2> QED
    BY <1>4, <2>1, <2>2, ReaderSave, Zenon DEF Save, Update, Moved
<1>5. CASE RecoverBudget(p)
  <2> DEFINE m == [me EXCEPT !.pc = "drain"]
  <2>1. CASE Save(p, BudgetRow(me.op), m)
    <3>1. p \in current
      BY <2>1, Zenon DEF Save
    <3>2. me.op = row /\ BudgetRow(row) \in Rows /\ SameCore(row, BudgetRow(row))
      BY <1>0, <3>1, CurrentCopy, BudgetRowType, AccountingCore, Zenon
    <3>3. Moved(me, m, "drain") /\ Resumable(m, BudgetRow(row)) /\ m.pc = "drain"
      <4>1. BudgetRow(row).state = row.state
        BY <3>2, Zenon DEF SameCore
      <4>2. Moved(me, m, "drain") /\ Resumable(m, BudgetRow(row))
        BY <1>0, <3>1, <4>1, Moves, ZenonT(60) DEF Reading
      <4> QED
        BY <4>2, Zenon DEF Moved
    <3> QED
      BY <1>4, <1>5, <2>1, <3>2, <3>3, Zenon DEF Moved, RecoverBudget, money
  <2>2. CASE Returns(p) /\ UNCHANGED <<row, late>>
    BY <1>2, <1>5, <2>2, Zenon DEF RecoverBudget, money
  <2>3. CASE Goto(p, "drain") /\ UNCHANGED journal
    BY <1>3, <1>5, <2>3, Zenon DEF RecoverBudget, money
  <2> QED
    BY <1>5, <2>1, <2>2, <2>3, Zenon DEF RecoverBudget
<1>6. CASE Drain(p)
  BY <1>2, <1>3, <1>6, Zenon DEF Drain, journal
<1>7. CASE Drained(p)
  <2>1. p \in current
    BY <1>7, Zenon DEF Drained, Save
  <2>2. me.op = row /\ DrainedRow(row) \in Rows /\ SameCore(row, DrainedRow(row))
    BY <1>0, <2>1, CurrentCopy, DrainedRowType, AccountingCore, Zenon
  <2>3. CASE me.next = "idle"
    BY <1>0, <1>4, <1>7, <2>2, <2>3, Zenon DEF Drained, Resumed, money
  <2>4. CASE me.next # "idle"
    <3>1. Moved(me, Resumed(p), Resumed(p).pc) /\ Resumable(Resumed(p), DrainedRow(row))
      BY <1>1, <2>1, <2>2, <2>4, Zenon DEF SameCore, Moved
    <3> QED
      BY <1>4, <1>7, <2>2, <3>1, Zenon DEF Drained, Moved, money
  <2> QED
    BY <2>3, <2>4, Zenon
<1> QED
  BY <1>5, <1>6, <1>7, Zenon DEF Budget
LEMMA ReconcileInv == \A p \in Procs : TypeInv /\ Inv /\ Reconcile(p) => Inv' /\ Keeps(row')
\* Materialize by a program that reads its copy.
<1>ReaderMaterialize.
    ASSUME TypeInv, Inv, NEW p \in current, NEW r \in Rows, NEW local \in Locals,
           Materialize(p, r, local), UNCHANGED <<wallet, payer, execs>>,
           RowInv(r), Settled(r), ~r.compacted, Keeps(r),
           r.exec = row.exec, r.dispatched = row.dispatched, r.hash = row.hash,
           local.pc \in Reading, local.ex = None, Resumable(local, [r EXCEPT !.state = "paid"])
    PROVE  Inv' /\ Keeps(row')
  <2> USE <1>ReaderMaterialize
  <2> DEFINE s == [r EXCEPT !.state = "paid"]
  <2>1. s \in Rows /\ RowInv(s) /\ Settled(s) /\ Keeps(s)
    BY PaidRow, Zenon
  <2>2. s.exec = row.exec /\ s.dispatched = row.dispatched /\ s.hash = row.hash
    BY PaidRow, Zenon
  <2>3. Commit(p, s, local) \/ Cancelled(p, s, TRUE)
    BY ZenonT(60) DEF Materialize
  <2> HIDE DEF s
  <2>4. \A q \in Procs : Owns(proc[q], s)
    BY <2>1, <2>2, SettledOwns, CurrentCopy, Zenon
  <2>5. Resumable(local, s)
    BY Zenon DEF s
  <2> QED
    BY <2>1, <2>3, <2>4, <2>5, ReaderSave, Zenon

\* The row of a payment found settled.
<1>SettledRowInv.
    ASSUME NEW r \in Rows, NEW d \in Details, RowInv(r), Truth(d), d.status = "settled", Identified(d, r)
    PROVE  LET s == SettledRow(r, d) IN
           /\ s \in Rows /\ RowInv(s) /\ Settled(s) /\ (Keeps(r) => Keeps(s))
           /\ s.exec = r.exec /\ s.dispatched = r.dispatched /\ s.hash = r.hash
           /\ s.state = r.state /\ s.compacted = r.compacted
  <2> USE <1>SettledRowInv
  <2> DEFINE t == [r EXCEPT !.settled = TRUE, !.settlement = d]
             s == SettledRow(r, d)
  <2>1. /\ t \in Rows /\ t.state = r.state /\ t.exec = r.exec /\ t.dispatched = r.dispatched
        /\ t.hash = r.hash /\ t.settlement = d /\ t.ready = r.ready /\ t.settled
        /\ t.compacted = r.compacted
    BY ZenonT(60) DEF Rows
  <2>2. s \in Rows /\ SameCore(t, s)
    BY <2>1, QueueType, ActualType, QueueCore, Zenon DEF SettledRow
  <2> HIDE DEF t, s
  <2>3. Settled(t)
    BY <2>1, Zenon DEF Settled, Truth, Identified
  <2>4. RowInv(t)
    BY <2>1, <2>3, Zenon DEF RowInv, Covers
  <2>5. Keeps(r) => Keeps(t)
    BY <2>1, Zenon DEF Keeps
  <2>6. RowInv(s) /\ (Keeps(t) => Keeps(s))
    BY <2>2, <2>4, CoreKept, Zenon
  <2>7. Settled(s)
    BY <2>2, <2>3, Zenon DEF Settled, SameCore
  <2> QED
    BY <2>1, <2>2, <2>5, <2>6, <2>7, ZenonT(60) DEF SameCore, s

<1>ReadyRow.
    ASSUME NEW r \in Rows, RowInv(r), Settled(r), ~r.compacted
    PROVE  LET s == [r EXCEPT !.ready = TRUE] IN
           /\ s \in Rows /\ RowInv(s) /\ Settled(s) /\ (Keeps(r) => Keeps(s))
           /\ s.exec = r.exec /\ s.dispatched = r.dispatched /\ s.hash = r.hash
           /\ s.state = r.state /\ s.compacted = r.compacted
  <2> USE <1>ReadyRow
  <2> DEFINE s == [r EXCEPT !.ready = TRUE]
  <2>1. /\ s \in Rows /\ s.state = r.state /\ s.exec = r.exec /\ s.dispatched = r.dispatched
        /\ s.hash = r.hash /\ s.settlement = r.settlement /\ s.settled = r.settled
        /\ s.compacted = r.compacted
    BY Zenon DEF Rows
  <2> HIDE DEF s
  <2>2. Settled(s)
    BY <2>1, Zenon DEF Settled
  <2> QED
    BY <2>1, <2>2, Zenon DEF RowInv, Covers, Keeps, s
<1> SUFFICES ASSUME TypeInv, Inv, NEW p \in Procs, Reconcile(p) PROVE Inv' /\ Keeps(row')
  BY Zenon
<1> DEFINE me == proc[p]
           r == WithEvidence(me.op)
           b == [me EXCEPT !.pc = Return(p)]
           dr == [me EXCEPT !.pc = "drain", !.next = Return(p)]
           bu == [me EXCEPT !.pc = "budget", !.next = Return(p)]
<1>0. me.pc \in {"reconcile", "apply"} /\ me.pc \in Reading /\ me \in Locals /\ proc \in [Procs -> Locals]
  <2>1. me.pc \in {"reconcile", "apply"}
    BY Zenon DEF Reconcile, ReconcileSkip, ReconcileUndispatched, ReconcileReady, ReconcileLookup,
           ApplyUnknown, ApplyFailed, ApplySettled
  <2> QED
    BY <2>1, Zenon DEF Reading, TypeInv, JournalType
<1>1. /\ Moved(me, b, Return(p)) /\ Moved(me, dr, "drain") /\ Moved(me, bu, "budget")
      /\ p \in current => \A s : s.state = row.state \/ me.task # "abandon" =>
              Resumable(b, s) /\ Resumable(dr, s) /\ Resumable(bu, s)
  <2>1. /\ Return(p) \in Reading \ {"claim", "apply"} /\ Return(p) \in Resumes /\ Return(p) # "fence"
        /\ "drain" \in Reading \ {"claim", "apply"} /\ "budget" \in Reading \ {"claim", "apply"}
    BY Zenon DEF Return, Reading, Resumes
  <2> QED
    BY <1>0, <2>1, Moves, Zenon
<1>2. Back(p) = b /\ Drains(p) = dr
  BY Zenon DEF Back, Drains
<1> HIDE DEF b, dr, bu
<1>3. ASSUME p \in current
      PROVE  /\ me.op = row /\ row \in Rows /\ me.ex = None
             /\ r \in Rows /\ RowInv(r) /\ Keeps(r)
             /\ \A q \in Procs : Owns(proc[q], r)
             /\ r.state = row.state /\ r.exec = row.exec /\ r.dispatched = row.dispatched /\ r.hash = row.hash
             /\ r.settlement = row.settlement /\ r.ready = row.ready /\ r.draft = row.draft
             /\ me.pc = "apply" => Truth(me.seen) /\ Unresolved(r) /\ r.dispatched
             /\ Unresolved(r) => ~r.compacted /\ me.task # "abandon"
  <2>1. me.op = row /\ row \in Rows /\ RowInv(row) /\ Keeps(row) /\ me.ex = None /\ Copy(me, row)
        /\ \A q \in Procs : Owns(proc[q], row)
    BY <1>0, <1>3, CurrentCopy, Zenon
  <2>2. /\ r \in Rows /\ RowInv(r) /\ Keeps(r) /\ \A q \in Procs : Owns(proc[q], r)
        /\ r.state = row.state /\ r.exec = row.exec /\ r.dispatched = row.dispatched /\ r.hash = row.hash
        /\ r.settlement = row.settlement /\ r.ready = row.ready /\ r.draft = row.draft
    BY <2>1, EvidenceRow, Zenon
  <2> HIDE DEF r
  <2>3. Unresolved(r) => ~r.compacted /\ me.task # "abandon"
    BY <2>1, <2>2, Zenon DEF RowInv, Unresolved, Closed, Copy
  <2> QED
    BY <2>1, <2>2, <2>3, Zenon DEF Copy, Unresolved
<1> HIDE DEF r
<1>4. CASE ReconcileSkip(p)
  <2>1. p \in current => row \in Rows /\ me.op = row /\ Resumable(b, row)
    BY <1>1, <1>3, Zenon
  <2> QED
    BY <1>1, <1>2, <1>4, <2>1, ReaderStep, Zenon DEF ReconcileSkip, Moved, journal, money
<1>5. CASE ReconcileUndispatched(p)
  <2> DEFINE z == QueueMessageResolution(r, "zero")
             s == [z EXCEPT !.resv = None, !.exec = None, !.state = "prepared"]
  <2>0. p \in current /\ Unresolved(r) /\ ~r.dispatched /\ ~r.ready /\ UNCHANGED <<wallet, payer, execs>>
    BY <1>5, Zenon DEF ReconcileUndispatched, Save, r, money
  <2>1. CASE Save(p, Unknown(r), b)
    <3>1. Unknown(r) \in Rows /\ RowInv(Unknown(r)) /\ Keeps(Unknown(r)) /\ \A q \in Procs : Owns(proc[q], Unknown(r))
      BY <1>3, <2>0, UnknownRow, Zenon
    <3>2. Resumable(b, Unknown(r))
      BY <1>1, <1>3, <2>0, Zenon
    <3> QED
      BY <1>1, <2>0, <2>1, <3>1, <3>2, ReaderSave, Zenon DEF Save, Update, Moved
  <2>2. CASE Save(p, s, dr) /\ ~r.settled /\ r.hash = None
    <3>1. z \in Rows /\ SameCore(r, z)
      BY <1>3, <2>0, QueueType, QueueCore, Zenon
    <3>2. "prepared" \in States
      BY Zenon DEF States
    <3> HIDE DEF z
    <3>3. /\ s \in Rows /\ s.state = "prepared" /\ s.exec = None /\ s.dispatched = z.dispatched
          /\ s.hash = z.hash /\ s.settlement = z.settlement /\ s.ready = z.ready /\ s.settled = z.settled
          /\ s.compacted = z.compacted
      BY <3>1, <3>2, ZenonT(60) DEF Rows
    <3> HIDE DEF s
    <3>4. NoLive
      BY <1>3, <2>0, UndispatchedNoLive, Zenon
    <3>5. RowInv(s)
      BY <1>3, <2>0, <2>2, <3>1, <3>3, <3>4, ZenonT(60) DEF SameCore, RowInv, NoLive, Paid
    <3>6. \A q \in Procs : Owns(proc[q], s)
      BY <1>3, <2>0, <3>3, NobodyAsks, CalledEx, Zenon
    <3>7. Keeps(s)
      BY <1>3, <2>0, <2>2, Zenon DEF Keeps
    <3>8. Resumable(dr, s)
      BY <1>1, <1>3, <2>0, Zenon
    <3> QED
      BY <1>1, <2>0, <2>2, <3>3, <3>5, <3>6, <3>7, <3>8, ReaderSave, Zenon DEF Save, Update, Moved
  <2> QED
    BY <1>2, <1>5, <2>1, <2>2, Zenon DEF ReconcileUndispatched, r
<1>6. CASE ReconcileReady(p)
  <2>1. /\ p \in current /\ Unresolved(r) /\ r.ready /\ UNCHANGED <<wallet, payer, execs>>
        /\ Materialize(p, r, bu)
    BY <1>6, Zenon DEF ReconcileReady, Materialize, r, bu, money
  <2>2. Settled(r)
    BY <1>3, <2>1, Zenon DEF RowInv
  <2>3. Resumable(bu, [r EXCEPT !.state = "paid"])
    BY <1>1, <1>3, <2>1, Zenon
  <2> QED
    BY <1>1, <1>3, <2>1, <2>2, <2>3, <1>ReaderMaterialize, Zenon DEF Moved
<1>7. CASE ReconcileLookup(p)
  <2>1. PICK d \in Evidence(r) : proc' = [proc EXCEPT ![p].pc = "apply", ![p].seen = d]
    BY <1>7, ZenonT(60) DEF ReconcileLookup, r
  <2> DEFINE m == [me EXCEPT !.pc = "apply", !.seen = d]
  <2>2. me.op \in Rows /\ r \in Rows
    BY <1>0, WithEvidenceType, Zenon DEF TypeInv, JournalType, r
  <2>3. d \in Details
    <3>1. r.settlement \in Details /\ r.hash \in Hashes \cup {None}
      BY <2>2, Zenon DEF Rows
    <3> QED
      BY <2>1, <3>1, AnswersType, NoDetailsType, Zenon DEF Evidence
  <2>4. /\ m \in Locals /\ m # Idle /\ m.pc = "apply" /\ m.pc \in Reading /\ m.ex = None /\ m.op = me.op
        /\ m.next = me.next /\ m.task = me.task /\ m.seen = d
    <3>1. "apply" \in Labels /\ "apply" \in Reading /\ Idle.pc # "apply"
      BY Zenon DEF Labels, Reading, Idle
    <3>2. me \in ProcTypes /\ me.ex = None /\ me.next \in Resumes
      BY <1>0, Zenon DEF Locals
    <3>3. /\ m \in ProcTypes /\ m.pc = "apply" /\ m.ex = None /\ m.op = me.op /\ m.next = me.next
          /\ m.task = me.task /\ m.seen = d
      BY <2>3, <3>1, <3>2, ZenonT(60) DEF ProcTypes
    <3> QED
      BY <3>1, <3>2, <3>3, Zenon DEF Locals
  <2>5. proc' = [proc EXCEPT ![p] = m]
    BY <1>0, <2>1, ZenonT(60)
  <2> HIDE DEF m
  <2>6. "fence" \in {m.pc, m.next} => m.task = "abandon"
    BY <1>0, <2>4, Zenon DEF Inv, LocalsInv, Local
  <2>7. ASSUME p \in current PROVE Resumable(m, row)
    <3>1. Truth(d)
      <4>1. Truth(r.settlement)
        BY <1>3, <2>7, Zenon DEF RowInv
      <4>2. Truth(NoDetails)
        BY Zenon DEF Truth, NoDetails
      <4>3. ASSUME d \in Answers(r.hash) PROVE Truth(d)
        BY <4>3, AnswersTruth, Zenon DEF Truth
      <4> QED
        BY <2>1, <4>1, <4>2, <4>3, Zenon DEF Evidence
    <3>2. Unresolved(row) /\ row.dispatched
      BY <1>3, <1>7, <2>7, Zenon DEF ReconcileLookup, Unresolved, r
    <3> QED
      BY <1>3, <2>4, <2>6, <2>7, <3>1, <3>2, CurrentCopy, ZenonT(60) DEF Resumable, Copy
  <2> QED
    BY <1>3, <1>7, <2>4, <2>5, <2>6, <2>7, ReaderStep, Zenon DEF ReconcileLookup, journal, money
<1>8. CASE ApplyUnknown(p)
  <2> DEFINE e == IF me.seen.status \in {"none", "pending"} THEN Unknown(r).error ELSE "other"
             s == [Unknown(r) EXCEPT !.error = e]
  <2>1. /\ p \in current /\ Unresolved(r) /\ UNCHANGED <<wallet, payer, execs>>
        /\ Save(p, s, b)
    BY <1>2, <1>3, <1>8, Zenon DEF ApplyUnknown, Save, r, money
  <2>2. e \in {"none", "incomplete", "other"}
    BY <1>3, <2>1, UnknownRow, ZenonT(60) DEF Rows
  <2> HIDE DEF e
  <2>3. s \in Rows /\ RowInv(s) /\ Keeps(s) /\ \A q \in Procs : Owns(proc[q], s)
    BY <1>3, <2>1, <2>2, UnknownRow, Zenon
  <2>4. Resumable(b, s)
    BY <1>1, <1>3, <2>1, Zenon
  <2> HIDE DEF s
  <2> QED
    BY <1>1, <2>1, <2>3, <2>4, ReaderSave, ZenonT(60) DEF Save, Update, Moved
<1>9. CASE ApplyFailed(p)
  <2> DEFINE s == [QueueMessageResolution([r EXCEPT !.settlement = me.seen], "zero") EXCEPT !.state = "released"]
  <2>1. /\ p \in current /\ Unresolved(r) /\ UNCHANGED <<wallet, payer, execs>>
        /\ Save(p, s, dr) /\ r.dispatched /\ Truth(me.seen)
        /\ me.seen.status = "failed" /\ Identified(me.seen, r) /\ ~r.settled
    BY <1>2, <1>3, <1>9, Zenon DEF ApplyFailed, Save, r, money
  <2>2. me.seen \in Details
    BY <1>0, Zenon DEF Locals, ProcTypes
  <2>3. /\ s \in Rows /\ RowInv(s) /\ NoLive /\ Keeps(s) /\ s.state = "released"
        /\ s.exec = r.exec /\ s.dispatched = r.dispatched /\ s.hash = r.hash /\ wallet[r.hash] = "failed"
    BY <1>3, <2>1, <2>2, ReleasedRow, ZenonT(60)
  <2> HIDE DEF s
  <2>4. ASSUME NEW q \in Procs PROVE Owns(proc[q], s)
    <3>1. proc[q].pc \in Asking => wallet[proc[q].pay] = "none"
      BY Zenon DEF Inv, LocalsInv, Local
    <3>2. proc[q].pc \notin Asking
      BY <1>3, <2>1, <2>3, <3>1, Zenon DEF Owns, Identified
    <3> QED
      BY <1>3, <2>1, <2>3, <3>2, Zenon DEF Owns
  <2>5. Resumable(dr, s)
    BY <1>1, <1>3, <2>1, Zenon
  <2> QED
    BY <1>1, <2>1, <2>3, <2>4, <2>5, ReaderSave, Zenon DEF Save, Update, Moved
<1>10. CASE ApplySettled(p)
  <2> DEFINE d == me.seen
             t == SettledRow(r, d)
             s == [t EXCEPT !.ready = TRUE]
             u == [Unknown(t) EXCEPT !.error = "incomplete"]
  <2>1. /\ me.pc = "apply" /\ d.status = "settled" /\ Identified(d, r) /\ UNCHANGED <<wallet, payer, execs>>
        /\ Materialize(p, s, dr) \/ Save(p, u, dr)
    BY <1>2, <1>10, Zenon DEF ApplySettled, r, money
  <2>2. p \in current
    BY <2>1, ZenonT(60) DEF Materialize, Save
  <2>3. d \in Details
    BY <1>0, Zenon DEF Locals, ProcTypes
  <2>4. Unresolved(r) /\ ~r.compacted /\ me.task # "abandon" /\ Truth(d)
    BY <1>3, <2>1, <2>2, Zenon
  <2>5. /\ t \in Rows /\ RowInv(t) /\ Settled(t) /\ Keeps(t) /\ ~t.compacted
        /\ t.exec = r.exec /\ t.dispatched = r.dispatched /\ t.hash = r.hash
    BY <1>3, <2>1, <2>2, <2>3, <2>4, <1>SettledRowInv, Zenon
  <2> HIDE DEF t
  <2>6. \A q \in Procs : Owns(proc[q], t)
    BY <1>3, <2>2, <2>5, SettledOwns, Zenon
  <2>7. CASE Materialize(p, s, dr)
    <3>1. /\ s \in Rows /\ RowInv(s) /\ Settled(s) /\ Keeps(s) /\ ~s.compacted
          /\ s.exec = row.exec /\ s.dispatched = row.dispatched /\ s.hash = row.hash
      BY <1>3, <2>2, <2>5, <1>ReadyRow, Zenon
    <3>2. Resumable(dr, [s EXCEPT !.state = "paid"])
      BY <1>1, <2>2, <2>4, Zenon
    <3> HIDE DEF s
    <3> QED
      BY <1>1, <2>1, <2>2, <2>7, <3>1, <3>2, <1>ReaderMaterialize, Zenon DEF Moved
  <2>8. CASE Save(p, u, dr)
    <3>1. u \in Rows /\ RowInv(u) /\ Keeps(u) /\ \A q \in Procs : Owns(proc[q], u)
      BY <2>5, <2>6, UnknownRow, Zenon
    <3>2. Resumable(dr, u)
      BY <1>1, <2>2, <2>4, Zenon
    <3> HIDE DEF u
    <3> QED
      BY <1>1, <2>1, <2>2, <2>8, <3>1, <3>2, ReaderSave, Zenon DEF Save, Update, Moved
  <2> QED
    BY <2>1, <2>7, <2>8, Zenon
<1> QED
  BY <1>4, <1>5, <1>6, <1>7, <1>8, <1>9, <1>10, Zenon DEF Reconcile

-----------------------------------------------------------------------------
(* compose_locked up to the claim, abandon_operation *)

\* Before the insert nothing was ever paid and no worker exists.
LEMMA NoRowYet ==
    ASSUME TypeInv, Inv, row = None
    PROVE  /\ NoLive /\ late = {} /\ current = {}
           /\ \A r, q : q \in Procs /\ r.exec = None => Owns(proc[q], r)
           /\ \A r : Keeps(r)
<1>1. NoLive /\ late = {} /\ execs = {} /\ current = {}
  BY NoRowAssumption, Zenon DEF Inv, EmptyInv, CopiesInv
<1>2. ASSUME NEW q \in Procs PROVE proc[q].pc \notin Asking \cup Called
  BY <1>1, Zenon DEF Inv, LocalsInv, Local, Working
<1> QED
  BY <1>1, <1>2, NoRowAssumption, Zenon DEF Owns, Keeps

LEMMA RequestInv == \A p \in Procs : TypeInv /\ Inv /\ Request(p) => Inv' /\ Keeps(row')
<1>PreparedInv.
    ASSUME NEW c \in Callers, NoLive
    PROVE  /\ Prepared(c) \in Rows /\ RowInv(Prepared(c)) /\ Prepared(c).exec = None
           /\ LET r == [Prepared(c) EXCEPT !.state = "abandoned"] IN r \in Rows /\ RowInv(r) /\ r.exec = None
  <2> USE <1>PreparedInv
  <2> DEFINE s == Prepared(c)
             r == [s EXCEPT !.state = "abandoned"]
  <2>0. s \in Rows /\ "abandoned" \in States
    BY PreparedType, Zenon DEF States
  <2>1. s.exec = None /\ s.settlement = NoDetails /\ ~s.settled /\ ~s.ready /\ ~s.compacted /\ s.state = "prepared"
    BY Zenon DEF Prepared
  <2> HIDE DEF s
  <2>2. /\ r \in Rows /\ r.state = "abandoned" /\ r.exec = None /\ r.settlement = NoDetails
        /\ ~r.settled /\ ~r.ready /\ ~r.compacted
    BY <2>0, <2>1, Zenon DEF Rows
  <2> HIDE DEF r
  <2>3. RowInv(s)
    BY <2>1 DEF RowInv, NoLive, Truth, NoDetails, Paid
  <2>4. RowInv(r)
    BY <2>2 DEF RowInv, NoLive, Truth, NoDetails, Paid
  <2> QED
    BY <2>0, <2>1, <2>2, <2>3, <2>4, Zenon DEF r, s
<1> SUFFICES ASSUME TypeInv, Inv, NEW p \in Procs, Request(p) PROVE Inv' /\ Keeps(row')
  BY Zenon
<1>0. proc \in [Procs -> Locals] /\ (row # None => row \in Rows) /\ current \subseteq Procs
  BY Zenon DEF TypeInv, JournalType
<1>1. ASSUME NEW c \in Callers, Compose(p, c) PROVE Inv' /\ Keeps(row')
  <2> DEFINE start == [Idle EXCEPT !.task = "compose", !.caller = c]
             new == [start EXCEPT !.pc = "claim"]
             old == [start EXCEPT !.pc = "budget", !.next = "reopen", !.op = row]
  <2>0. UNCHANGED <<wallet, payer, execs>>
    BY <1>1, Zenon DEF Compose, money
  <2>1. CASE row = None /\ Commit(p, Prepared(c), new)
    <3> DEFINE r == Prepared(c)
               me == Stored(new, r)
    <3>1. r.state = "prepared"
      BY Zenon DEF Prepared
    <3>2. /\ r \in Rows /\ RowInv(r) /\ Keeps(r) /\ \A q \in Procs : Owns(proc[q], r)
      BY <2>1, NoRowYet, <1>PreparedInv, Zenon
    <3>3. new.ex = None /\ new.pc = "claim" /\ new.next = "idle" /\ new.task = "compose"
      BY Zenon DEF Idle
    <3>4. new \in Locals /\ new # Idle
      BY ZenonT(60) DEF Idle, Locals, ProcTypes, Labels, Reading, Resumes, NoDetails, Details
    <3> HIDE DEF r, new
    <3>5. me = [new EXCEPT !.op = r]
      BY <3>3, <3>4, Zenon DEF Stored
    <3>6. me \in Locals /\ me.op = r /\ me.ex = None /\ me.pc = "claim" /\ me.next = "idle" /\ me.task = "compose"
      BY <3>2, <3>3, <3>4, <3>5, Zenon DEF Locals, ProcTypes
    <3> HIDE DEF me
    <3>7. Local(me) /\ Owns(me, r) /\ Copy(me, r)
      BY <3>1, <3>6, ReaderFacts, Zenon DEF Resumable, Reading
    <3> QED
      BY <2>0, <2>1, <3>2, <3>4, <3>6, <3>7, WriteStep, Zenon DEF me, r
  <2>2. CASE /\ row # None /\ proc' = [proc EXCEPT ![p] = old]
             /\ current' = current \cup {p} /\ UNCHANGED <<row, late>>
    <3>1. old \in Locals /\ old # Idle /\ old.ex = None /\ old.op = row /\ old.pc = "budget" /\ old.next = "reopen"
          /\ old.task = "compose"
      BY <1>0, <2>2, ZenonT(60) DEF Idle, Locals, ProcTypes, Labels, Reading, Resumes, NoDetails, Details
    <3> HIDE DEF old
    <3>2. old.pc \in Reading /\ Resumable(old, row)
      BY <3>1, Zenon DEF Reading, Resumable
    <3> QED
      BY <1>0, <2>0, <2>2, <3>1, <3>2, ReaderStep, Zenon
  <2> QED
    BY <1>1, <2>1, <2>2, Zenon DEF Compose
<1>2. ASSUME NEW c \in Callers, Abandon(p, c) PROVE Inv' /\ Keeps(row')
  <2> DEFINE start == [Idle EXCEPT !.task = "abandon", !.caller = c, !.op = row]
             old == [start EXCEPT !.pc = "budget", !.next = "fence"]
             r == [Prepared(c) EXCEPT !.state = "abandoned"]
  <2>0. UNCHANGED <<wallet, payer, execs>>
    BY <1>2, Zenon DEF Abandon, money
  <2>1. CASE row = None /\ row' = r /\ UNCHANGED <<current, late, proc>>
    <3>1. /\ r \in Rows /\ RowInv(r) /\ Keeps(r) /\ \A q \in Procs : Owns(proc[q], r)
      BY <2>1, NoRowYet, <1>PreparedInv, Zenon
    <3>2. proc[p] = Idle
      BY <1>2, Zenon DEF Abandon, Inv, LocalsInv, Local
    <3>3. Commit(p, r, Idle)
      BY <1>0, <2>1, <3>2, NoRowYet, Zenon DEF Commit
    <3>4. Local(Stored(Idle, r)) /\ Owns(Stored(Idle, r), r) /\ Stored(Idle, r).ex = None
      BY IdleFacts, Zenon DEF Stored
    <3> HIDE DEF r
    <3> QED
      BY <2>0, <3>1, <3>3, <3>4, IdleType, WriteStep, Zenon
  <2>2. CASE /\ row # None /\ row.state \in {"prepared", "released"} /\ proc' = [proc EXCEPT ![p] = old]
             /\ current' = current \cup {p} /\ UNCHANGED <<row, late>>
    <3>1. old \in Locals /\ old # Idle /\ old.ex = None /\ old.op = row /\ old.pc = "budget" /\ old.next = "fence"
          /\ old.task = "abandon"
      BY <1>0, <2>2, ZenonT(60) DEF Idle, Locals, ProcTypes, Labels, Reading, Resumes, NoDetails, Details
    <3> HIDE DEF old
    <3>2. old.pc \in Reading /\ Resumable(old, row)
      BY <2>2, <3>1, Zenon DEF Reading, Resumable
    <3> QED
      BY <1>0, <2>0, <2>2, <3>1, <3>2, ReaderStep, Zenon
  <2> QED
    BY <1>2, <2>1, <2>2, Zenon DEF Abandon
<1> QED
  BY <1>1, <1>2, Zenon DEF Request

LEMMA ContinueInv ==
    ASSUME TypeInv, Inv, NEW p \in Procs, Reopen(p) \/ Retry(p) \/ Fence(p) PROVE Inv' /\ Keeps(row')
<1> DEFINE me == proc[p]
<1>0. me.pc \in Reading /\ me \in Locals /\ proc \in [Procs -> Locals] /\ me.ex = None /\ Idle \in Locals
  <2>1. me.pc \in Reading
    BY Zenon DEF Reopen, Retry, Fence, Reading
  <2> QED
    BY <2>1, IdleType, Zenon DEF TypeInv, JournalType, Locals
<1>1. "fence" \in {me.pc, me.next} => me.task = "abandon"
  BY Zenon DEF Inv, LocalsInv, Local
<1>2. CASE Reopen(p)
  <2> DEFINE m == [me EXCEPT !.pc = "reconcile"]
  <2>0. UNCHANGED <<wallet, payer, execs>>
    BY <1>2, Zenon DEF Reopen, money
  <2>1. Moved(me, m, "reconcile") /\ (p \in current => \A r : r.state = row.state \/ me.task # "abandon" => Resumable(m, r))
    BY <1>0, Moves, ZenonT(60) DEF Reading, Resumes
  <2>2. CASE me.op.state = "failed_paid" /\ ~me.op.compacted /\ Save(p, Unknown(me.op), m)
    <3>1. p \in current
      BY <2>2, Zenon DEF Save
    <3>2. me.op = row /\ RowInv(row) /\ row \in Rows /\ Keeps(row) /\ me.task # "abandon"
          /\ \A q \in Procs : Owns(proc[q], row)
      BY <1>0, <2>2, <3>1, CurrentCopy, Zenon DEF Copy
    <3>3. Unknown(row) \in Rows /\ RowInv(Unknown(row)) /\ Keeps(Unknown(row)) /\ \A q \in Procs : Owns(proc[q], Unknown(row))
      BY <2>2, <3>2, UnknownRow, Zenon
    <3> HIDE DEF m
    <3> QED
      BY <2>0, <2>1, <2>2, <3>1, <3>2, <3>3, ReaderSave, Zenon DEF Save, Update, Moved
  <2>3. CASE Goto(p, "reconcile") /\ UNCHANGED journal
    <3>1. proc' = [proc EXCEPT ![p] = m]
      BY <1>0, <2>3, Zenon DEF Goto
    <3>2. p \in current => row \in Rows /\ me.op = row
      BY <1>0, CurrentCopy, Zenon
    <3> HIDE DEF m
    <3> QED
      BY <2>0, <2>1, <2>3, <3>1, <3>2, ReaderStep, Zenon DEF Moved, journal
  <2> QED
    BY <1>2, <2>2, <2>3, Zenon DEF Reopen
<1>3. CASE Retry(p)
  <2>0. UNCHANGED <<row, late, wallet, payer, execs>>
    BY <1>3, Zenon DEF Retry, money
  <2>1. ASSUME NEW l \in {"resend", "claim"}, Goto(p, l), UNCHANGED current,
               l = "claim" => me.op.state \in {"prepared", "released"}
        PROVE  Inv' /\ Keeps(row')
    <3> DEFINE m == [me EXCEPT !.pc = l]
    <3>1. m \in Locals /\ m.ex = None /\ m.op = me.op /\ m.next = me.next /\ m.task = me.task /\ m.pc = l
      <4>1. m \in Locals
        BY <1>0, ReaderType, WorkerLocals, WorkerLabels, Zenon DEF Reading, Resumes
      <4> QED
        BY <1>0, <4>1, Zenon DEF Locals, ProcTypes
    <3>2. m # Idle /\ m.pc \in Reading \cup {"resend"}
      BY <3>1 DEF Idle, Reading
    <3>3. proc' = [proc EXCEPT ![p] = m]
      BY <1>0, <2>1, Zenon DEF Goto
    <3> HIDE DEF m
    <3>4. p \in current => row \in Rows /\ me.op = row /\ Resumable(m, row)
      BY <1>0, <1>1, <2>1, <3>1, CurrentCopy, Zenon DEF Resumable, Copy
    <3> QED
      BY <1>1, <2>0, <2>1, <3>1, <3>2, <3>3, <3>4, ReaderStep, ZenonT(60)
  <2>2. CASE Finish(p)
    BY <1>0, <2>0, <2>2, ReaderStep, Zenon DEF Finish
  <2> QED
    BY <1>3, <2>1, <2>2, Zenon DEF Retry
<1>4. CASE Fence(p)
  <2> DEFINE s == [me.op EXCEPT !.state = "abandoned", !.exec = None]
  <2>1. p \in current /\ me.task = "abandon" /\ Save(p, s, Idle) /\ UNCHANGED <<wallet, payer, execs>>
    BY <1>1, <1>4, Zenon DEF Fence, Save, money
  <2>2. me.op = row /\ RowInv(row) /\ row \in Rows /\ Keeps(row) /\ row.state \in {"prepared", "released"}
        /\ \A q \in Procs : Owns(proc[q], row)
    BY <1>0, <2>1, CurrentCopy, Zenon DEF Copy
  <2>3. "abandoned" \in States
    BY Zenon DEF States
  <2>4. /\ s \in Rows /\ s.state = "abandoned" /\ s.exec = None /\ s.settlement = row.settlement /\ s.hash = row.hash
        /\ s.settled = row.settled /\ s.ready = row.ready /\ s.compacted = row.compacted
    BY <2>2, <2>3, ZenonT(60) DEF Rows
  <2> HIDE DEF s
  <2>5. NoLive
    BY <2>2, Zenon DEF RowInv, Unpaid
  <2>6. ~row.settled /\ ~row.ready
    BY <2>2, <2>5, SettledIsLive, Zenon DEF RowInv
  <2>7. RowInv(s)
    BY <2>2, <2>4, <2>5, <2>6, Zenon DEF RowInv, NoLive, Paid, Closed
  <2>8. \A q \in Procs : Owns(proc[q], s)
    BY <2>2, <2>4, NobodyAsks, CalledEx, Zenon DEF Unresolved
  <2>9. Keeps(s)
    BY <2>6, Zenon DEF Keeps
  <2> QED
    BY <1>0, <2>1, <2>4, <2>7, <2>8, <2>9, ReaderSave, ZenonT(60) DEF Save, Update
<1> QED
  BY <1>2, <1>3, <1>4, Zenon
-----------------------------------------------------------------------------
(* The sweep, release and compaction *)
LEMMA RecoverInv == \A p \in Procs : TypeInv /\ Inv /\ Recovery(p) => Inv' /\ Keeps(row')
<1>SweepInv.
    ASSUME TypeInv, Inv, NEW p \in Procs, Sweep(p) \/ SweepAbandoned(p) \/ AttachRecovered(p)
    PROVE  Inv' /\ Keeps(row')
  <2> USE <1>SweepInv
  <2> DEFINE me == proc[p]
  <2>0. proc \in [Procs -> Locals] /\ UNCHANGED <<wallet, payer, execs>>
    BY Zenon DEF TypeInv, JournalType, Sweep, SweepAbandoned, AttachRecovered, money
  <2>1. CASE Sweep(p)
    <3> DEFINE m == [Idle EXCEPT !.task = "sweep", !.op = row, !.next = "reconcile",
                                 !.pc = IF row.state = "abandoned" THEN "abandoned" ELSE "attach"]
    <3>1. row \in Rows
      BY <2>1, LoadedRow, Zenon DEF Sweep
    <3>2. m \in Locals /\ m # Idle /\ m.op = row /\ m.ex = None /\ m.next = "reconcile" /\ m.task = "sweep"
          /\ m.pc \in {"abandoned", "attach"}
      <4>1. {"abandoned", "attach", "reconcile"} \subseteq Labels
        BY Zenon DEF Labels
      <4>2. /\ m \in ProcTypes /\ m.op = row /\ m.next = "reconcile" /\ m.task = "sweep"
            /\ m.pc \in {"abandoned", "attach"} /\ m.ex = Idle.ex
        BY <3>1, <4>1, IdleType, ZenonT(60) DEF ProcTypes
      <4>3. Idle.ex = None /\ Idle.task = "none"
        BY Zenon DEF Idle
      <4> HIDE DEF m
      <4> QED
        BY <4>2, <4>3, Zenon DEF Locals, Resumes
    <3>3. proc' = [proc EXCEPT ![p] = m] /\ current' = current \cup {p} /\ UNCHANGED <<row, late>>
      BY <2>1, Zenon DEF Sweep
    <3> HIDE DEF m
    <3>4. m.pc \in Reading /\ Resumable(m, row)
      BY <3>2, Zenon DEF Reading, Resumable
    <3> QED
      BY <2>0, <3>1, <3>2, <3>3, <3>4, ReaderStep, Zenon
  <2>2. ASSUME me.pc \in Reading, NEW m, NEW l, Moved(me, m, l), p \in current => Resumable(m, row),
               proc' = [proc EXCEPT ![p] = m], UNCHANGED journal
        PROVE  Inv' /\ Keeps(row')
    <3>1. p \in current => row \in Rows /\ me.op = row
      BY <2>2, CurrentCopy, Zenon
    <3> QED
      BY <2>0, <2>2, <3>1, ReaderStep, ZenonT(60) DEF Moved, journal
  <2>3. ASSUME me.pc \in Reading, NEW m, NEW l, Moved(me, m, l), NEW r \in Rows, SameCore(row, r),
               Resumable(m, r), Save(p, r, m)
        PROVE  Inv' /\ Keeps(row')
    <3>1. p \in current
      BY <2>3, Zenon DEF Save
    <3>2. RowInv(r) /\ (\A q \in Procs : Owns(proc[q], r)) /\ Keeps(r)
      BY <2>3, <3>1, CurrentCopy, CoreKept, Zenon
    <3> QED
      BY <2>0, <2>3, <3>1, <3>2, ReaderSave, ZenonT(60) DEF Save, Update, Moved
  <2>4. CASE SweepAbandoned(p)
    <3> DEFINE m == [me EXCEPT !.pc = "drain", !.next = "idle"]
               r == QueueAll(me.op, links[p])
    <3>1. me.pc \in Reading
      BY <2>4, Zenon DEF SweepAbandoned, Reading
    <3>2. Moved(me, m, "drain") /\ (p \in current => \A s : s.state = row.state => Resumable(m, s))
      BY <3>1, Moves, ZenonT(60) DEF Reading, Resumes
    <3>3. CASE Save(p, r, m)
      <4>1. p \in current
        BY <3>3, Zenon DEF Save
      <4>2. r \in Rows /\ SameCore(row, r)
        BY <3>1, <4>1, CurrentCopy, QueueAllType, AccountingCore, Zenon
      <4>3. Resumable(m, r)
        BY <3>2, <4>1, <4>2, Zenon DEF SameCore
      <4> QED
        BY <2>3, <3>1, <3>2, <3>3, <4>2, <4>3, Zenon
    <3>4. CASE proc' = [proc EXCEPT ![p].pc = "drain", ![p].next = "idle"] /\ UNCHANGED journal
      <4>1. proc' = [proc EXCEPT ![p] = m]
        BY <2>0, <3>4, ZenonT(60)
      <4> QED
        BY <2>2, <3>1, <3>2, <3>4, <4>1, Zenon
    <3> QED
      BY <2>4, <3>3, <3>4, Zenon DEF SweepAbandoned
  <2>5. CASE AttachRecovered(p)
    <3> DEFINE r == me.op
               fresh == {e \in links[p] : r.resolutions[e] = "none"}
               stale == {e \in fresh : r.compacted \/ (r.exec # None /\ r.exec # e)}
               mine == fresh \ stale
               m == [me EXCEPT !.pc = "budget"]
    <3>1. me.pc \in Reading /\ me.op \in Rows /\ me.next \in Resumes
      <4>1. me.pc \in Reading
        BY <2>5, ZenonT(60) DEF AttachRecovered, Reading
      <4> QED
        BY <4>1, Zenon DEF TypeInv, JournalType, Locals
    <3>2. Moved(me, m, "budget") /\ (p \in current => \A s : s.state = row.state => Resumable(m, s))
      BY <3>1, Moves, ZenonT(60) DEF Reading
    <3>3. PICK v \in IF r.resv = None /\ mine # {} THEN mine ELSE {r.resv} :
              LET attached == [QueueAll(r, stale) EXCEPT !.resv = v] IN
              IF attached = r
              THEN Goto(p, "budget") /\ UNCHANGED journal
              ELSE Save(p, attached, [me EXCEPT !.pc = "budget"])
      BY <2>5, ZenonT(60) DEF AttachRecovered
    <3> DEFINE s == [QueueAll(r, stale) EXCEPT !.resv = v]
    <3>4. v \in Execs \cup {None}
      BY <3>1, <3>3, Zenon DEF TypeInv, OtherType, Rows
    <3>5. s \in Rows /\ SameCore(r, s)
      <4>1. QueueAll(r, stale) \in Rows
        BY <3>1, QueueAllType, Zenon
      <4>2. s \in Rows
        BY <3>4, <4>1, ZenonT(60) DEF Rows
      <4> QED
        BY <3>1, <4>2, AccountingCore, ZenonT(60)
    <3>6. CASE Goto(p, "budget") /\ UNCHANGED journal
      <4>1. proc' = [proc EXCEPT ![p] = m]
        BY <2>0, <3>6, Zenon DEF Goto
      <4> QED
        BY <2>2, <3>1, <3>2, <3>6, <4>1, ZenonT(60)
    <3>7. CASE Save(p, s, m)
      <4> HIDE DEF s, m
      <4>1. p \in current
        BY <3>7, Zenon DEF Save
      <4>2. SameCore(row, s)
        BY <3>1, <3>5, <4>1, CurrentCopy, Zenon
      <4>3. Resumable(m, s)
        BY <3>2, <4>1, <4>2, Zenon DEF SameCore
      <4> QED
        BY <2>3, <3>1, <3>2, <3>5, <3>7, <4>2, <4>3, Zenon
    <3> QED
      BY <3>3, <3>6, <3>7, Zenon
  <2> QED
    BY <2>1, <2>4, <2>5, Zenon

\* A handler that loads the row, writes it and ends or goes on as a reader.
<1>LoaderWrite.
    ASSUME TypeInv, Inv, NEW p \in Procs, row # None, NEW r \in Rows, NEW local \in Locals,
           Update(p, r, local), UNCHANGED <<wallet, payer, execs>>,
           RowInv(r), \A q \in Procs \ {p} : Owns(proc[q], r), Keeps(r),
           local = Idle \/ (local.pc \in Reading /\ local.ex = None /\ Resumable(local, r))
    PROVE  Inv' /\ Keeps(row')
  <2> USE <1>LoaderWrite
  <2> DEFINE me == Stored(local, r)
  <2>0. row \in Rows
    BY LoadedRow, Zenon
  <2>1. CASE local = Idle
    BY <2>0, <2>1, IdleFacts, WriteStep, Zenon DEF Stored, Update
  <2>2. CASE local # Idle
    <3>1. me = [local EXCEPT !.op = r]
      BY <2>2, Zenon DEF Stored
    <3>2. me \in Locals /\ me.op = r /\ me.ex = None /\ me.pc \in Reading /\ Resumable(me, r)
      BY <2>2, <3>1, Zenon DEF Locals, ProcTypes, Resumable
    <3> HIDE DEF me
    <3>3. Local(me) /\ Owns(me, r) /\ Copy(me, r)
      BY <3>2, ReaderFacts, Zenon
    <3> QED
      BY <2>0, <3>2, <3>3, WriteStep, Zenon DEF me, Update
  <2> QED
    BY <2>1, <2>2, Zenon

<1>CompactedInv.
    ASSUME NEW r \in Rows, RowInv(r), r.state \in Closed
    PROVE  LET s == CompactedRow(r) IN
           /\ s \in Rows /\ RowInv(s) /\ s.exec = None /\ (Keeps(r) => Keeps(s))
  <2> USE <1>CompactedInv
  <2> DEFINE s == CompactedRow(r)
  <2>1. /\ s \in Rows /\ s.state = r.state /\ s.exec = None /\ ~s.dispatched /\ s.hash = r.hash
        /\ s.settlement = NoDetails /\ ~s.ready /\ s.settled = r.settled /\ s.compacted
    BY NoDetailsType, ZenonT(60) DEF CompactedRow, Rows
  <2> HIDE DEF s
  <2>2. RowInv(s)
    <3>1. Truth(NoDetails)
      BY Zenon DEF Truth, NoDetails
    <3>2. r.state \in Unpaid \/ r.state \in {"acked", "failed_paid"}
      BY Zenon DEF Unpaid, Closed
    <3>3. \A h \in Hashes : Live(h) => Covers(s, h)
      BY <2>1, <3>2, Zenon DEF RowInv, Covers, NoLive
    <3>4. s.ready \/ s.settled \/ s.state \in Paid => Settled(s)
      BY <2>1, Zenon DEF RowInv, Settled
    <3> QED
      BY <2>1, <3>1, <3>3, <3>4, Zenon DEF RowInv
  <2>3. Keeps(r) => Keeps(s)
    BY <2>1, Zenon DEF Keeps
  <2> QED
    BY <2>1, <2>2, <2>3, Zenon DEF s
<1> SUFFICES ASSUME TypeInv, Inv, NEW p \in Procs, Recovery(p) PROVE Inv' /\ Keeps(row')
  BY Zenon
<1> DEFINE me == proc[p]
<1>0. proc \in [Procs -> Locals] /\ Idle \in Locals
  BY IdleType, Zenon DEF TypeInv, JournalType
<1>1. CASE ListLinks(p)
  BY <1>1, NothingChanged, Zenon DEF ListLinks, journal, money
<1>2. CASE RecoverPaid(p)
  <2> DEFINE m == [me EXCEPT !.pc = "resend"]
             s == [Unknown(me.op) EXCEPT !.error = "other"]
  <2>0. UNCHANGED <<wallet, payer, execs>> /\ me.pc = "paid" /\ me.pc \in Reading
    BY <1>2, Zenon DEF RecoverPaid, Reading, money
  <2>1. CASE me.op.state = "paid" /\ Save(p, s, Idle)
    <3>1. p \in current
      BY <2>1, Zenon DEF Save
    <3>2. me.op = row /\ row \in Rows /\ RowInv(row) /\ Keeps(row) /\ \A q \in Procs : Owns(proc[q], row)
      BY <2>0, <3>1, CurrentCopy, Zenon
    <3>3. ~row.compacted
      BY <2>1, <3>2, Zenon DEF RowInv, Closed
    <3>4. s \in Rows /\ RowInv(s) /\ Keeps(s) /\ \A q \in Procs : Owns(proc[q], s)
      BY <3>2, <3>3, UnknownRow, Zenon
    <3> HIDE DEF s
    <3> QED
      BY <1>0, <2>0, <2>1, <3>1, <3>4, ReaderSave, Zenon DEF Save, Update
  <2>2. CASE Goto(p, "resend") /\ UNCHANGED journal
    <3>1. m \in Locals /\ m.ex = None /\ m.op = me.op /\ m.next = me.next /\ m.task = me.task /\ m.pc = "resend"
      <4>1. m \in Locals /\ me.ex = None
        BY <1>0, <2>0, WorkerLocals, WorkerLabels, Zenon DEF Locals
      <4> QED
        BY <1>0, <4>1, Zenon DEF Locals, ProcTypes
    <3>2. m # Idle
      BY <3>1, Zenon DEF Idle
    <3>3. proc' = [proc EXCEPT ![p] = m]
      BY <1>0, <2>2, Zenon DEF Goto
    <3>4. "fence" \in {me.pc, me.next} => me.task = "abandon"
      BY ZenonT(60) DEF Inv, LocalsInv, Local
    <3> HIDE DEF m
    <3>5. p \in current => row \in Rows /\ me.op = row /\ Resumable(m, row)
      BY <2>0, <3>1, <3>4, CurrentCopy, ZenonT(60) DEF Resumable, Copy
    <3> QED
      BY <2>0, <2>2, <3>1, <3>2, <3>3, <3>4, <3>5, ReaderStep, ZenonT(60) DEF journal
  <2>3. CASE Finish(p) /\ UNCHANGED <<row, late>>
    BY <1>0, <2>0, <2>3, ReaderStep, ZenonT(60) DEF Finish
  <2> QED
    BY <1>2, <2>1, <2>2, <2>3, Zenon DEF RecoverPaid
<1>3. CASE ReleaseFailedPrepared(p)
  <2> DEFINE m == [Idle EXCEPT !.task = "release", !.pc = "budget", !.next = "idle"]
             s == [row EXCEPT !.state = "released"]
  <2>0. row # None /\ row.state = "prepared" /\ Update(p, s, m) /\ UNCHANGED <<wallet, payer, execs>>
    BY <1>3, Zenon DEF ReleaseFailedPrepared, money
  <2>1. row \in Rows /\ RowInv(row) /\ Keeps(row) /\ \A q \in Procs : Owns(proc[q], row)
    BY <2>0, LoadedRow, Zenon
  <2>2. m \in Locals /\ m.ex = None /\ m.pc = "budget" /\ m.next = "idle" /\ m.task = "release"
    BY ZenonT(60) DEF Idle, Locals, ProcTypes, Labels, Reading, Resumes, NoDetails, Details
  <2>3. "released" \in States
    BY Zenon DEF States
  <2>4. /\ s \in Rows /\ s.state = "released" /\ s.exec = row.exec /\ s.dispatched = row.dispatched
        /\ s.settlement = row.settlement /\ s.hash = row.hash
        /\ s.settled = row.settled /\ s.ready = row.ready /\ s.compacted = row.compacted
    BY <2>1, <2>3, Zenon DEF Rows
  <2> HIDE DEF m, s
  <2>5. RowInv(s)
    BY <2>0, <2>1, <2>4, Zenon DEF RowInv, Covers, Settled, NoLive, Unpaid, Paid, Closed
  <2>6. \A q \in Procs : Owns(proc[q], s)
    BY <2>0, <2>1, <2>4, NobodyAsks, CalledEx, Zenon DEF Unresolved
  <2>7. Keeps(s) /\ m.pc \in Reading /\ Resumable(m, s)
    BY <2>1, <2>2, <2>4, Zenon DEF Keeps, Reading, Resumable
  <2> QED
    BY <2>0, <2>2, <2>4, <2>5, <2>6, <2>7, <1>LoaderWrite, Zenon
<1>4. CASE Compact(p)
  <2>0. /\ row # None /\ row.state \in Closed /\ Update(p, CompactedRow(row), Idle)
        /\ UNCHANGED <<wallet, payer, execs>>
    BY <1>4, Zenon DEF Compact, Closed, money
  <2>1. row \in Rows /\ RowInv(row) /\ Keeps(row) /\ \A q \in Procs : Owns(proc[q], row)
    BY <2>0, LoadedRow, Zenon
  <2>2. CompactedRow(row) \in Rows /\ RowInv(CompactedRow(row)) /\ CompactedRow(row).exec = None /\ Keeps(CompactedRow(row))
    BY <2>0, <2>1, <1>CompactedInv, Zenon
  <2>3. ~Unresolved(row)
    BY <2>0, Zenon DEF Unresolved, Closed
  <2>4. \A q \in Procs : Owns(proc[q], CompactedRow(row))
    BY <2>1, <2>2, <2>3, NobodyAsks, CalledEx, Zenon
  <2> QED
    BY <1>0, <2>0, <2>2, <2>4, <1>LoaderWrite, Zenon
<1> QED
  BY <1>1, <1>2, <1>3, <1>4, <1>SweepInv, Zenon DEF Recovery

-----------------------------------------------------------------------------
(* The paying worker *)

\* Locals with which a worker goes on, outside the window of the wallet call.
Onward(me, m) ==
    /\ m \in Locals /\ m.ex = me.ex /\ m.task = me.task
    /\ m.next \in {me.next, "idle"}
    /\ m.pc \in {"attach_debit", "draft", "keysend", "invoice", "debit", "fail", "resend", "sending"}

LEMMA WorkerIs ==
    ASSUME TypeInv, Inv, NEW p \in Procs, proc[p].pc \in Working \/ proc[p].ex # None
    PROVE  /\ proc[p] \in Locals /\ proc[p] \in ProcTypes
           /\ proc[p].ex # None /\ proc[p].ex \in Execs /\ proc[p].ex \in execs
           /\ proc[p].task = "none" /\ proc[p].next # "fence"
           /\ Local(proc[p]) /\ \A r \in AllRows : Owns(proc[p], r)
           /\ row \in Rows /\ row # None
<1>1. /\ proc[p] \in Locals /\ proc[p] \in ProcTypes
      /\ Local(proc[p]) /\ \A r \in AllRows : Owns(proc[p], r)
  BY Zenon DEF TypeInv, JournalType, Inv, LocalsInv, OwnsInv, Locals
<1>2. proc[p].ex # None /\ proc[p].ex \in execs /\ proc[p].task = "none" /\ proc[p].next # "fence"
  BY <1>1, Zenon DEF Local
<1>3. proc[p].ex \in Execs
  BY <1>2, Zenon DEF TypeInv, OtherType
<1>4. row \in Rows /\ row # None
  BY <1>2, NoRowAssumption, Zenon DEF Inv, EmptyInv
<1> QED
  BY <1>1, <1>2, <1>3, <1>4, Zenon

LEMMA OnwardFacts ==
    ASSUME TypeInv, Inv, NEW p \in Procs, proc[p].ex # None, NEW m, Onward(proc[p], m)
    PROVE  Local(m) /\ (\A r : Owns(m, r)) /\ (\A r : Copy(m, r))
<1>1. m.ex # None /\ m.ex \in execs /\ m.task = "none" /\ m.next # "fence"
  BY WorkerIs, Zenon DEF Onward
<1>2. m.pc \notin Asking /\ m.pc \notin Called /\ m.pc \notin {"idle", "fence", "claim", "apply"}
  BY Zenon DEF Onward, Asking, Called
<1>3. m.pc \in Working \cup {"resend", "sending"}
  BY Zenon DEF Onward, Working
<1>4. Local(m)
  BY <1>1, <1>2, <1>3, Zenon DEF Local, Called
<1>5. (\A r : Owns(m, r)) /\ (\A r : Copy(m, r))
  BY <1>1, <1>2, Zenon DEF Owns, Copy, Called
<1> QED
  BY <1>4, <1>5, Zenon

LEMMA WorkerMoves ==
    ASSUME TypeInv, Inv, NEW p \in Procs, proc[p].ex # None, NEW m, Onward(proc[p], m),
           proc' = [proc EXCEPT ![p] = m], UNCHANGED <<row, late, wallet, payer, execs>>,
           current' \subseteq current
    PROVE  Inv' /\ Keeps(row')
<1>1. m.ex \in {None, proc[p].ex} /\ row \in Rows
  BY WorkerIs, Zenon DEF Onward
<1> QED
  BY <1>1, OnwardFacts, LocalStep, Zenon

\* The ways in which compose_peer and compose_locked leave the payment behind.
LEMMA WorkerEnds ==
    ASSUME TypeInv, Inv, NEW p \in Procs, proc[p].ex # None
    PROVE  /\ \A c \in {"ok", "unresolved", "proof", "other"} :
                /\ Onward(proc[p], Ended(p, c))
                /\ Onward(proc[p], [Ended(p, c) EXCEPT !.pc = "resend"])
           /\ Onward(proc[p], [Idle EXCEPT !.pc = "fail", !.ex = proc[p].ex])
           /\ \A l \in {"attach_debit", "draft", "keysend", "invoice", "sending"} :
                Onward(proc[p], [proc[p] EXCEPT !.pc = l])
<1> DEFINE me == proc[p]
           f == [Idle EXCEPT !.pc = "fail", !.ex = me.ex]
<1>0. me \in Locals /\ me \in ProcTypes /\ me.task = "none" /\ me.ex \in Execs
  BY WorkerIs, Zenon
<1>1. ASSUME NEW c \in {"ok", "unresolved", "proof", "other"}
      PROVE  Onward(me, Ended(p, c)) /\ Onward(me, [Ended(p, c) EXCEPT !.pc = "resend"])
  <2> DEFINE e == Ended(p, c)
             g == [e EXCEPT !.pc = "resend"]
  <2>1. e \in Locals /\ g \in Locals
    BY WorkerLocals, Zenon
  <2>2. e.pc = "debit" /\ e.ex = me.ex /\ e.task = "none" /\ e.next = "idle"
    BY IdleType, Zenon DEF Ended, ProcTypes, Idle
  <2>3. g.pc = "resend" /\ g.ex = e.ex /\ g.task = e.task /\ g.next = e.next
    BY <2>1, Zenon DEF Locals, ProcTypes
  <2> QED
    BY <1>0, <2>1, <2>2, <2>3, Zenon DEF Onward
<1>2. Onward(me, f)
  <2>1. f \in ProcTypes /\ f.pc = "fail" /\ f.ex = me.ex
    BY <1>0, IdleType, WorkerLabels, ZenonT(60) DEF ProcTypes
  <2>2. f.task = "none" /\ f.next = "idle"
    BY Zenon DEF Idle
  <2> QED
    BY <1>0, <2>1, <2>2, Zenon DEF Onward, Locals, Reading
<1>3. ASSUME NEW l \in {"attach_debit", "draft", "keysend", "invoice", "sending"}
      PROVE  Onward(me, [me EXCEPT !.pc = l])
  <2> DEFINE m == [me EXCEPT !.pc = l]
  <2>1. m \in Locals
    BY WorkerLocals, WorkerLabels, Zenon
  <2>2. m.pc = l /\ m.ex = me.ex /\ m.task = me.task /\ m.next = me.next
    BY <1>0, Zenon DEF ProcTypes
  <2> QED
    BY <2>1, <2>2, Zenon DEF Onward
<1> QED
  BY <1>1, <1>2, <1>3, Zenon

LEMMA WorkerStops ==
    ASSUME TypeInv, Inv, NEW p \in Procs, proc[p].ex # None,
           NEW c \in {"ok", "unresolved", "proof", "other"}, Ends(p, c), UNCHANGED <<journal, wallet, payer, execs>>
    PROVE  Inv' /\ Keeps(row')
BY WorkerEnds, WorkerMoves, Zenon DEF Ends, journal

\* What a worker that has called the wallet knows of a row that is still its own.
LEMMA CalledRow ==
    ASSUME TypeInv, Inv, NEW p \in Procs, proc[p].pc \in Called
    PROVE  /\ proc[p].ex # None /\ proc[p] \in Locals /\ proc[p] \in ProcTypes /\ row \in Rows
           /\ proc[p].pay \in Hashes /\ Local(proc[p]) /\ Owns(proc[p], row)
           /\ RowInv(row) /\ Keeps(row) /\ proc[p].task = "none" /\ proc[p].next # "fence"
           /\ Mine(p) => /\ row.exec = proc[p].ex /\ row.dispatched /\ ~row.compacted
                         /\ row.hash \in {proc[p].pay, None}
                         /\ \A h \in Hashes : Live(h) => h = proc[p].pay
<1>1. proc[p].pc \in Working
  BY Zenon DEF Working
<1>2. /\ proc[p].ex # None /\ proc[p] \in Locals /\ proc[p] \in ProcTypes /\ row \in Rows
      /\ Local(proc[p]) /\ Owns(proc[p], row)
      /\ RowInv(row) /\ Keeps(row) /\ proc[p].task = "none" /\ proc[p].next # "fence"
  BY <1>1, WorkerIs, LoadedRow, Zenon DEF AllRows
<1>3. proc[p].pay \in Hashes
  BY <1>2, Zenon DEF Local
<1>4. Mine(p) => ~row.compacted
  BY <1>2, Zenon DEF Mine, RowInv
<1> QED
  BY <1>2, <1>3, <1>4, Zenon DEF Mine, Owns

-----------------------------------------------------------------------------
(* The wallet *)

\* An outcome once reached stays.
LEMMA OutcomeStays ==
    ASSUME TypeInv, NEW h \in Hashes, NEW s, wallet' = [wallet EXCEPT ![h] = s],
           wallet[h] \notin {"failed", "settled"}
    PROVE  /\ \A g \in Hashes : wallet[g] \in {"failed", "settled"} => wallet'[g] = wallet[g]
           /\ \A g \in Hashes : g # h => wallet'[g] = wallet[g]
           /\ wallet'[h] = s
           /\ \A d \in Details : Truth(d) => Truth(d)'
           /\ \A r \in Rows : Settled(r) => Settled(r)'
<1>1. /\ \A g \in Hashes : wallet[g] \in {"failed", "settled"} => wallet'[g] = wallet[g]
      /\ \A g \in Hashes : g # h => wallet'[g] = wallet[g]
      /\ wallet'[h] = s
  BY Zenon DEF TypeInv, OtherType
<1>2. ASSUME NEW d \in Details, Truth(d) PROVE Truth(d)'
  BY <1>1, <1>2, Zenon DEF Truth, Details
<1>3. ASSUME NEW r \in Rows, Settled(r) PROVE Settled(r)'
  BY <1>1, <1>3, Zenon DEF Settled, Rows
<1> QED
  BY <1>1, <1>2, <1>3, Zenon

LEMMA RowsTyped ==
    ASSUME TypeInv
    PROVE  AllRows \subseteq Rows /\ \A r \in AllRows : r.settlement \in Details
BY DEF TypeInv, JournalType, AllRows, Rows

LEMMA WalletStepInv == ASSUME TypeInv, Inv, WalletStep PROVE Inv' /\ Keeps(row')
<1>1. PICK h \in Hashes, s \in {"inflight", "settled", "failed"} :
          /\ wallet[h] = IF s = "inflight" THEN "transit" ELSE "inflight"
          /\ wallet' = [wallet EXCEPT ![h] = s]
  BY Zenon DEF WalletStep
<1>2. UNCHANGED <<row, current, late, proc, execs, payer>>
  BY Zenon DEF WalletStep, journal
<1>3. /\ \A g \in Hashes : wallet[g] \in {"failed", "settled"} => wallet'[g] = wallet[g]
      /\ \A g \in Hashes : g # h => wallet'[g] = wallet[g]
      /\ wallet'[h] = s
      /\ \A d \in Details : Truth(d) => Truth(d)'
      /\ \A r \in Rows : Settled(r) => Settled(r)'
  BY <1>1, OutcomeStays, ZenonT(60)
<1>4. Live(h) /\ ~NoLive /\ \A g \in Hashes : Live(g)' => Live(g)
  BY <1>1, <1>3, Zenon DEF Live, NoLive
<1>5. AllRows' = AllRows /\ AllRows \subseteq Rows /\ \A r \in AllRows : r.settlement \in Details
  BY <1>2, RowsTyped, Zenon DEF AllRows
<1>6. PaidOnce' /\ FreshInv' /\ EmptyInv' /\ LatesInv' /\ FenceInv'
  <2>1. PaidOnce'
    BY <1>4, Zenon DEF Inv, PaidOnce
  <2>2. FreshInv'
    BY <1>1, <1>2, <1>3, Zenon DEF Inv, FreshInv
  <2> QED
    BY <1>2, <1>4, <2>1, <2>2, Zenon DEF Inv, EmptyInv, LatesInv, FenceInv, Keeps
<1>7. RowsInv'
  <2> SUFFICES ASSUME NEW r \in AllRows PROVE RowInv(r)'
    BY <1>5, Zenon DEF RowsInv
  <2>1. RowInv(r) /\ r \in Rows /\ r.settlement \in Details
    BY <1>5, Zenon DEF Inv, RowsInv
  <2>2. Truth(r.settlement)' /\ (r.ready \/ r.settled \/ r.state \in Paid => Settled(r)')
    BY <1>3, <2>1, ZenonT(60) DEF RowInv
  <2>3. r.state \notin Unpaid /\ \A g \in Hashes : Live(g)' => Covers(r, g)
    BY <1>4, <2>1, Zenon DEF RowInv
  <2> QED
    BY <1>2, <2>1, <2>2, <2>3, ZenonT(60) DEF RowInv, Covers
<1>8. OwnsInv'
  <2> SUFFICES ASSUME NEW r \in AllRows, NEW q \in Procs PROVE Owns(proc[q], r)'
    BY <1>5, Zenon DEF OwnsInv
  <2>1. Owns(proc[q], r)
    BY Zenon DEF Inv, OwnsInv
  <2> QED
    BY <1>2, <1>4, <2>1, Zenon DEF Owns
<1>9. LocalsInv'
  <2> SUFFICES ASSUME NEW q \in Procs PROVE Local(proc[q])'
    BY Zenon DEF LocalsInv
  <2>1. Local(proc[q])
    BY Zenon DEF Inv, LocalsInv
  <2>2. proc[q].pc \notin Asking
    BY <1>4, <2>1, Zenon DEF Local
  <2>3. proc[q].pc \in {"record", "envelope"} => proc[q].pay \in Hashes
    BY <2>1, Zenon DEF Local, Called
  <2> QED
    BY <1>2, <1>3, <2>1, <2>2, <2>3, ZenonT(60) DEF Local
<1>10. CopiesInv'
  <2> SUFFICES ASSUME NEW q \in current PROVE (row \in Rows)' /\ Copy(proc[q], row)'
    BY <1>2, Zenon DEF CopiesInv
  <2>1. row \in Rows /\ Copy(proc[q], row) /\ proc[q].seen \in Details
    BY Zenon DEF Inv, CopiesInv, TypeInv, JournalType, Locals, ProcTypes
  <2>2. Truth(proc[q].seen) => Truth(proc[q].seen)'
    BY <1>2, <1>3, <2>1, Zenon DEF Truth
  <2> QED
    BY <1>2, <2>1, <2>2, Zenon DEF Copy
<1> QED
  BY <1>2, <1>6, <1>7, <1>8, <1>9, <1>10, Zenon DEF Inv, Keeps

-----------------------------------------------------------------------------
(* Statements that change the row without a program's copy of it *)

\* Programs that go on, if at all, without their copy.
Detached(q) ==
    /\ Local(proc'[q]) /\ \A s : Owns(proc[q], s) => Owns(proc'[q], s)
    /\ proc'[q].ex \in {None, proc[q].ex}
    /\ q \in current' => proc'[q] = proc[q]

LEMMA StoreStep ==
    ASSUME TypeInv, Inv, NEW r \in Rows, row' = r, current' = {}, late' = {},
           UNCHANGED <<wallet, payer, execs>>, RowInv(r), Keeps(r),
           \A q \in Procs : Detached(q) /\ Owns(proc[q], r)
    PROVE  Inv' /\ Keeps(row')
<1>1. AllRows' = {r}
  BY Zenon DEF AllRows
<1>2. PaidOnce' /\ FreshInv' /\ EmptyInv' /\ LatesInv' /\ CopiesInv'
  BY Frame, Zenon DEF Inv, EmptyInv, LatesInv, CopiesInv
<1>3. RowsInv'
  BY <1>1, Frame, Zenon DEF RowsInv
<1>4. OwnsInv'
  <2> SUFFICES ASSUME NEW q \in Procs PROVE Owns(proc[q], r)'
    BY <1>1, Zenon DEF OwnsInv
  <2> QED
    BY Frame, Zenon DEF Detached
<1>5. LocalsInv'
  BY Frame, Zenon DEF LocalsInv, Detached
<1>6. FenceInv'
  BY Zenon DEF Inv, FenceInv, Detached
<1> QED
  BY <1>2, <1>3, <1>4, <1>5, <1>6, Zenon DEF Inv

LEMMA QuietStep ==
    ASSUME TypeInv, Inv, UNCHANGED <<row, late, wallet, payer, execs>>, current' \subseteq current,
           \A q \in Procs : Detached(q)
    PROVE  Inv' /\ Keeps(row')
<1>1. AllRows' = AllRows
  BY Zenon DEF AllRows
<1>2. PaidOnce' /\ FreshInv' /\ EmptyInv' /\ LatesInv' /\ Keeps(row')
  BY Frame, Zenon DEF Inv, EmptyInv, LatesInv, Keeps
<1>3. RowsInv'
  BY <1>1, Frame, Zenon DEF Inv, RowsInv
<1>4. OwnsInv'
  <2> SUFFICES ASSUME NEW r \in AllRows, NEW q \in Procs PROVE Owns(proc[q], r)'
    BY <1>1, Zenon DEF OwnsInv
  <2>1. Owns(proc'[q], r)
    BY Zenon DEF Inv, OwnsInv, Detached
  <2> QED
    BY <2>1, Frame, Zenon
<1>5. LocalsInv'
  BY Frame, Zenon DEF LocalsInv, Detached
<1>6. FenceInv'
  BY Zenon DEF Inv, FenceInv, Detached
<1>7. CopiesInv'
  <2> SUFFICES ASSUME NEW q \in current' PROVE (row \in Rows)' /\ Copy(proc[q], row)'
    BY Zenon DEF CopiesInv
  <2>1. row \in Rows /\ Copy(proc'[q], row)
    BY Zenon DEF Inv, CopiesInv, Detached, TypeInv, JournalType
  <2>2. Copy(proc[q], row)'
    BY <2>1, Zenon DEF Copy, Truth
  <2> QED
    BY <2>1, <2>2, Zenon
<1> QED
  BY <1>2, <1>3, <1>4, <1>5, <1>6, <1>7, Zenon DEF Inv

LEMMA StillThere ==
    ASSUME TypeInv, Inv
    PROVE  /\ \A q \in Procs : proc'[q] = proc[q] => Detached(q)
           /\ \A q \in Procs : proc'[q] = Idle /\ q \notin current' => Detached(q)
           /\ \A q \in Procs : proc[q].ex # None /\ q \notin current' /\ Onward(proc[q], proc'[q]) => Detached(q)
<1>1. ASSUME NEW q \in Procs, proc'[q] = proc[q] PROVE Detached(q)
  BY <1>1, Zenon DEF Inv, LocalsInv, Detached
<1>2. ASSUME NEW q \in Procs, proc'[q] = Idle, q \notin current' PROVE Detached(q)
  BY <1>2, IdleFacts, Zenon DEF Detached
<1>3. ASSUME NEW q \in Procs, proc[q].ex # None, q \notin current', Onward(proc[q], proc'[q]) PROVE Detached(q)
  BY <1>3, OnwardFacts, Zenon DEF Detached, Onward
<1> QED
  BY <1>1, <1>2, <1>3, Zenon

\* A delivery statement moves a settled row between the paid states.
LEMMA TouchStep ==
    ASSUME TypeInv, Inv, NEW states, states \subseteq Deliverable, NEW done, NEW s \in Paid,
           NEW e \in {"none", "incomplete", "other"}, NEW r,
           row \in Rows => r = [row EXCEPT !.state = s] \/ r = [row EXCEPT !.state = s, !.error = e],
           Touch(states, r, done), UNCHANGED <<wallet, payer, execs>>,
           \A q \in Procs : Detached(q)
    PROVE  Inv' /\ Keeps(row')
<1>1. CASE row # None /\ row.state \in states /\ row' = r /\ current' = {} /\ late' = {}
  <2>1. row \in Rows /\ RowInv(row) /\ Keeps(row) /\ \A q \in Procs : Owns(proc[q], row)
    BY <1>1, LoadedRow, Zenon
  <2>2. s \in States
    BY Zenon DEF Paid, States
  <2>3. /\ r \in Rows /\ r.state = s /\ r.exec = row.exec /\ r.dispatched = row.dispatched
        /\ r.hash = row.hash /\ r.settlement = row.settlement /\ r.ready = row.ready
        /\ r.settled = row.settled /\ r.compacted = row.compacted
    <3>1. CASE r = [row EXCEPT !.state = s]
      BY <2>1, <2>2, <3>1, Zenon DEF Rows
    <3>2. CASE r = [row EXCEPT !.state = s, !.error = e]
      BY <2>1, <2>2, <3>2, Zenon DEF Rows
    <3> QED
      BY <2>1, <3>1, <3>2, Zenon
  <2>4. Settled(row) /\ Settled(r) /\ ~row.compacted
    BY <1>1, <2>1, <2>3, Zenon DEF RowInv, Deliverable, Paid, Closed, Settled
  <2>5. RowInv(r)
    BY <2>1, <2>3, <2>4, Zenon DEF RowInv, Covers, Paid, Unpaid
  <2>6. Keeps(r)
    BY <2>3, Zenon DEF Keeps
  <2>7. \A q \in Procs : Owns(proc[q], r)
    BY <2>1, <2>3, <2>4, SettledOwns, Zenon
  <2> QED
    BY <1>1, <2>3, <2>5, <2>6, <2>7, StoreStep, Zenon
<1>2. CASE current' = current \ done /\ UNCHANGED <<row, late>>
  BY <1>2, QuietStep, Zenon
<1> QED
  BY <1>1, <1>2, Zenon DEF Touch

LEMMA MarkStep ==
    ASSUME TypeInv, Inv, NEW done, MarkPendingSent(done), UNCHANGED <<wallet, payer, execs>>,
           \A q \in Procs : Detached(q)
    PROVE  Inv' /\ Keeps(row')
<1> DEFINE r == [row EXCEPT !.state = IF @ = "rejected_retryable" THEN "paid" ELSE @]
           s == IF row.state = "rejected_retryable" THEN "paid" ELSE row.state
<1>1. Touch(Deliverable, r, done)
  BY Zenon DEF MarkPendingSent
<1>2. CASE row # None /\ row.state \in Deliverable
  <2>1. s \in Paid /\ r = [row EXCEPT !.state = s]
    BY <1>2, LoadedRow, Zenon DEF Deliverable, Paid, Rows
  <2> HIDE DEF r, s
  <2> QED
    BY <1>1, <2>1, TouchStep, Zenon
<1>3. CASE ~(row # None /\ row.state \in Deliverable)
  BY <1>1, <1>3, QuietStep, Zenon DEF Touch
<1> QED
  BY <1>2, <1>3, Zenon

LEMMA SentStep ==
    ASSUME TypeInv, Inv, NEW done, RecordOutboxSent(done), UNCHANGED <<wallet, payer, execs>>,
           \A q \in Procs : Detached(q)
    PROVE  Inv' /\ Keeps(row')
BY TouchStep, Zenon DEF RecordOutboxSent, Deliverable, Paid

LEMMA SendInv ==
    ASSUME TypeInv, Inv, NEW p \in Procs, Resend(p) \/ Sending(p) \/ Stop(p)
    PROVE  Inv' /\ Keeps(row')
<1> DEFINE me == proc[p]
<1>0. /\ UNCHANGED <<wallet, payer, execs>> /\ proc \in [Procs -> Locals] /\ me \in ProcTypes /\ Local(me)
  BY Zenon DEF Resend, Sending, Stop, money, TypeInv, JournalType, Locals, Inv, LocalsInv
<1>1. CASE Finish(p) /\ UNCHANGED <<row, late>>
  BY <1>0, <1>1, LocalStep, IdleFacts, Zenon DEF Finish
<1>2. ASSUME NEW c \in {"ok", "unresolved", "proof"}, ResendReturns(p, c), UNCHANGED <<row, late>>
      PROVE  Inv' /\ Keeps(row')
  <2>1. CASE me.ex # None /\ Ends(p, c) /\ UNCHANGED current
    BY <1>0, <1>2, <2>1, WorkerStops, Zenon DEF journal
  <2> QED
    BY <1>1, <1>2, <2>1, Zenon DEF ResendReturns
<1>3. \A q \in Procs \ {p} : proc'[q] = proc[q]
  BY <1>0, Zenon DEF Resend, Sending, Stop, Goto, Ends, Finish, ResendReturns
<1>4. CASE me.pc = "resend" /\ MarkPendingSent({p}) /\ Goto(p, "sending")
  <2> DEFINE m == [me EXCEPT !.pc = "sending"]
  <2>1. p \notin current'
    BY <1>4, Zenon DEF MarkPendingSent, Touch
  <2>2. proc'[p] = m
    BY <1>0, <1>4, Zenon DEF Goto
  <2>3. /\ m.pc = "sending" /\ m.ex = me.ex /\ m.task = me.task /\ m.next = me.next
    BY <1>0, Zenon DEF ProcTypes
  <2> HIDE DEF m
  <2>4. Local(m) /\ \A s : Owns(m, s)
    BY <1>0, <1>4, <2>3, Zenon DEF Local, Owns, Working, Asking, Called
  <2>5. Detached(p)
    BY <2>1, <2>2, <2>3, <2>4, Zenon DEF Detached
  <2> QED
    BY <1>0, <1>3, <1>4, <2>5, StillThere, MarkStep, Zenon
<1>5. CASE RecordOutboxSent({p}) /\ (IF me.ex = None THEN proc' = [proc EXCEPT ![p] = Idle] ELSE Ends(p, "ok"))
  <2>1. p \notin current'
    BY <1>5, Zenon DEF RecordOutboxSent, Touch
  <2>2. CASE me.ex = None
    <3>1. proc'[p] = Idle
      BY <1>0, <1>5, <2>2, Zenon
    <3> QED
      BY <1>0, <1>3, <1>5, <2>1, <3>1, StillThere, SentStep
  <2>3. CASE me.ex # None
    <3>1. proc'[p] = Ended(p, "ok")
      BY <1>0, <1>5, <2>3, Zenon DEF Ends
    <3>2. Onward(proc[p], proc'[p])
      BY <2>3, <3>1, WorkerEnds, Zenon
    <3> QED
      BY <1>0, <1>3, <1>5, <2>1, <2>3, <3>2, StillThere, SentStep
  <2> QED
    BY <2>2, <2>3, Zenon
<1>6. CASE Resend(p)
  BY <1>2, <1>4, <1>6, Zenon DEF Resend
<1>7. CASE Sending(p)
  BY <1>2, <1>5, <1>7, Zenon DEF Sending
<1>8. CASE Stop(p)
  BY <1>1, <1>8, Zenon DEF Stop
<1> QED
  BY <1>6, <1>7, <1>8, Zenon

\* A queued write of a dead request lands: it was checked when it was queued.
LEMMA LateCommitInv == ASSUME TypeInv, Inv, LateCommit PROVE Inv' /\ Keeps(row')
<1>1. PICK w \in late : row' = w.row /\ late' = {} /\ current' = {} /\ UNCHANGED <<proc, execs, money>>
  BY Zenon DEF LateCommit
<1>2. w.row \in Rows /\ w.row \in AllRows
  BY Zenon DEF TypeInv, JournalType, AllRows
<1>3. RowInv(w.row) /\ Keeps(w.row) /\ \A q \in Procs : Owns(proc[q], w.row)
  BY <1>2, Zenon DEF Inv, RowsInv, OwnsInv, LatesInv
<1>4. \A q \in Procs : Detached(q)
  BY <1>1, StillThere, Zenon
<1> QED
  BY <1>1, <1>2, <1>3, <1>4, StoreStep, Zenon DEF money

LEMMA DeliverInv == ASSUME TypeInv, Inv, Deliver PROVE Inv' /\ Keeps(row')
<1>0. UNCHANGED <<proc, wallet, payer, execs>>
  BY Zenon DEF Deliver, FlushMark, FlushSend, Acknowledge, DeleteMessage, Reject, money
<1>1. \A q \in Procs : Detached(q)
  BY <1>0, StillThere, Zenon
<1>2. CASE FlushMark
  BY <1>0, <1>1, <1>2, MarkStep, Zenon DEF FlushMark
<1>3. CASE FlushSend
  BY <1>0, <1>1, <1>3, SentStep, QuietStep, Zenon DEF FlushSend, journal
<1>4. CASE Acknowledge
  <2>1. "acked" \in Paid
    BY Zenon DEF Paid
  <2> QED
    BY <1>0, <1>1, <1>4, <2>1, TouchStep, Zenon DEF Acknowledge
<1>5. ASSUME NEW terminal \in BOOLEAN, Reject(terminal) PROVE Inv' /\ Keeps(row')
  <2> DEFINE s == IF terminal THEN "failed_paid" ELSE "rejected_retryable"
  <2>1. s \in Paid /\ Touch(Deliverable, [row EXCEPT !.state = s, !.error = "other"], {})
    BY <1>5, Zenon DEF Reject, Paid
  <2> HIDE DEF s
  <2> QED
    BY <1>0, <1>1, <2>1, TouchStep, Zenon
<1>6. CASE DeleteMessage
  BY <1>0, <1>1, <1>6, QuietStep, Zenon DEF DeleteMessage, journal
<1> QED
  BY <1>2, <1>3, <1>4, <1>5, <1>6, Zenon DEF Deliver

-----------------------------------------------------------------------------
(* The theorems *)

LEMMA LegacyRowInv ==
    ASSUME NEW c \in Callers, NEW e \in Execs, NEW h \in Hashes, execs = {e},
           wallet = [g \in Hashes |-> IF g = h THEN "settled" ELSE "none"]
    PROVE  RowInv(LegacyRow(c, e, h))
<1> DEFINE r == LegacyRow(c, e, h)
           d == [NoDetails EXCEPT !.status = "settled", !.hash = h]
<1>1. /\ r.state = "failed_paid" /\ r.exec = e /\ r.dispatched /\ r.hash = h /\ ~r.compacted
      /\ r.settlement = d
  BY Zenon DEF LegacyRow, Prepared
<1>2. d.hash = h /\ d.status = "settled"
  BY Zenon DEF NoDetails
<1> HIDE DEF r, d
<1>3. \A g \in Hashes : Live(g) => g = h
  BY Zenon DEF Live
<1>4. wallet[h] = "settled" /\ h # None
  BY OperationsAssumption, Zenon
<1>5. Truth(r.settlement) /\ Settled(r)
  BY <1>1, <1>2, <1>4, Zenon DEF Truth, Settled
<1>6. \A g \in Hashes : Live(g) => Covers(r, g)
  BY <1>1, <1>3, Zenon DEF Covers
<1>7. r.state \notin Unpaid
  BY <1>1, Zenon DEF Unpaid
<1> QED
  BY <1>1, <1>5, <1>6, <1>7, Zenon DEF RowInv, r

LEMMA InitInv == Init => Inv
<1> SUFFICES ASSUME Init PROVE Inv
  BY Zenon
<1>0. /\ \A p \in Procs : proc[p] = Idle
      /\ current = {} /\ late = {}
  BY Zenon DEF Init
<1>1. LocalsInv /\ FenceInv /\ CopiesInv /\ LatesInv /\ OwnsInv
  BY <1>0, IdleFacts, Zenon DEF LocalsInv, FenceInv, CopiesInv, LatesInv, OwnsInv
<1>2. CASE /\ row = None /\ execs = {} /\ wallet = [h \in Hashes |-> "none"]
  <2>1. NoLive
    BY <1>2, Zenon DEF NoLive, Live
  <2>2. AllRows = {}
    BY <1>0, <1>2, NoRowAssumption, Zenon DEF AllRows
  <2> QED
    BY <1>0, <1>1, <1>2, <2>1, <2>2, Zenon DEF Inv, PaidOnce, FreshInv, EmptyInv, RowsInv, NoLive
<1>3. ASSUME NEW c \in Callers, NEW e \in Execs, NEW g \in Hashes,
             row = LegacyRow(c, e, g), execs = {e},
             wallet = [h \in Hashes |-> IF h = g THEN "settled" ELSE "none"],
             payer = [h \in Hashes |-> IF h = g THEN e ELSE None]
      PROVE  Inv
  <2>1. row \in Rows /\ RowInv(row)
    BY <1>3, LegacyRowType, LegacyRowInv, Zenon
  <2>2. AllRows = {row}
    BY <1>0, <2>1, Zenon DEF AllRows
  <2>3. PaidOnce /\ FreshInv
    BY <1>3, OperationsAssumption, Zenon DEF PaidOnce, FreshInv, Live
  <2> QED
    BY <1>1, <2>1, <2>2, <2>3, Zenon DEF Inv, EmptyInv, RowsInv
<1> QED
  BY <1>2, <1>3, Zenon DEF Init

LEMMA WorkerInv == TypeInv /\ Inv => \A p \in Procs : Worker(p) => Inv' /\ Keeps(row')
\* A worker whose execution the row still names: the row is of no other worker.
<1>MineAlone.
    ASSUME TypeInv, Inv, NEW p \in Procs, proc[p].ex # None, Mine(p), NEW r, r.exec = row.exec
    PROVE  \A q \in Procs \ {p} : Owns(proc[q], r)
  <2> USE <1>MineAlone
  <2> SUFFICES ASSUME NEW q \in Procs \ {p} PROVE Owns(proc[q], r)
    BY Zenon
  <2>1. proc[q].ex # proc[p].ex /\ row.exec = proc[p].ex
    BY Zenon DEF Inv, FenceInv, Mine
  <2>2. Owns(proc[q], row)
    BY LoadedRow, Zenon DEF Mine
  <2> QED
    BY <2>1, <2>2, Zenon DEF Owns

<1>OwnerWrite.
    ASSUME TypeInv, Inv, NEW p \in Procs, proc[p].ex # None, NEW r \in Rows, NEW c \in BOOLEAN,
           NEW m \in Locals, m.ex = proc[p].ex, Commit(p, r, m) \/ Cancelled(p, r, c),
           Grows \/ UNCHANGED <<wallet, payer, execs>>, \A q \in Procs \ {p} : Owns(proc[q], r),
           RowInv(r), Keeps(r), Local(m) \/ Local(m)', Owns(m, r), Copy(m, r)
    PROVE  Inv' /\ Keeps(row')
  <2> USE <1>OwnerWrite
  <2> DEFINE s == Stored(m, r)
  <2>0. m # Idle /\ m.ex # None /\ m.pc # "idle"
    BY IdleFacts, Zenon DEF Local
  <2>1. s = [m EXCEPT !.op = None]
    BY <2>0, Zenon DEF Stored
  <2>2. /\ s.pc = m.pc /\ s.ex = m.ex /\ s.task = m.task /\ s.next = m.next
        /\ s.pay = m.pay /\ s.seen = m.seen
    BY <2>1, Zenon DEF Locals, ProcTypes
  <2> HIDE DEF s
  <2>3. Local(m) => Local(s)
    BY <2>0, <2>2, Zenon DEF Local
  <2>4. Local(m)' => Local(s)'
    BY <2>0, <2>2, Zenon DEF Local, NoLive, Live
  <2>5. Owns(s, r) /\ Copy(s, r)
    BY <2>0, <2>2, Zenon DEF Owns, Copy
  <2>6. Commit(p, r, m) \/ (row \in Rows /\ Cancelled(p, r, c))
    BY WorkerIs, Zenon
  <2> QED
    BY <2>2, <2>3, <2>4, <2>5, <2>6, WriteStep, Zenon DEF s

<1>WorkerWrite.
    ASSUME TypeInv, Inv, NEW p \in Procs, proc[p].ex # None, Mine(p), NEW r \in Rows, r.exec = row.exec,
           NEW m \in Locals, m.ex = proc[p].ex, Update(p, r, m),
           Grows \/ UNCHANGED <<wallet, payer, execs>>,
           RowInv(r), Keeps(r), Local(m) \/ Local(m)', Owns(m, r), Copy(m, r)
    PROVE  Inv' /\ Keeps(row')
  BY <1>WorkerWrite, <1>MineAlone, <1>OwnerWrite, Zenon DEF Update

<1>PreparingInv.
    ASSUME TypeInv, Inv, NEW p \in Procs, Reserve(p) \/ AttachDebit(p) \/ Draft(p) \/ DebitOutcome(p)
    PROVE  Inv' /\ Keeps(row')
  <2> USE <1>PreparingInv
  <2> DEFINE me == proc[p]
  <2>0. me.pc \in Working /\ me.ex # None /\ me \in ProcTypes /\ row \in Rows
    <3>1. me.pc \in Working
      BY Zenon DEF Reserve, AttachDebit, Draft, DebitOutcome, Working
    <3> QED
      BY <3>1, WorkerIs, Zenon
  <2>1. UNCHANGED <<wallet, payer, execs>>
    BY Zenon DEF Reserve, AttachDebit, Draft, DebitOutcome, money
  <2>2. proc \in [Procs -> Locals]
    BY Zenon DEF TypeInv, JournalType
  <2>3. ASSUME NEW m, Onward(me, m), proc' = [proc EXCEPT ![p] = m], UNCHANGED <<row, late>>, current' \subseteq current
        PROVE  Inv' /\ Keeps(row')
    BY <2>0, <2>1, <2>3, WorkerMoves, Zenon
  <2>4. ASSUME NEW r \in Rows, SameCore(row, r), NEW l \in {"draft", "keysend", "invoice"}, Mine(p),
               Update(p, r, [me EXCEPT !.pc = l])
        PROVE  Inv' /\ Keeps(row')
    <3> DEFINE m == [me EXCEPT !.pc = l]
    <3>1. Onward(me, m)
      BY <2>0, WorkerEnds, ZenonT(60)
    <3> HIDE DEF m
    <3>2. m \in Locals /\ m.ex = me.ex /\ Local(m) /\ Owns(m, r) /\ Copy(m, r)
      BY <2>0, <3>1, OnwardFacts, Zenon DEF Onward
    <3>3. RowInv(r) /\ Keeps(r) /\ r.exec = row.exec
      BY <2>4, LoadedRow, CoreKept, Zenon DEF Mine, SameCore
    <3> QED
      BY <2>0, <2>1, <2>4, <3>2, <3>3, <1>WorkerWrite, ZenonT(60) DEF m
  <2>5. CASE Reserve(p)
    <3>1. CASE Goto(p, "attach_debit")
      BY <2>0, <2>2, <2>3, <2>5, <3>1, WorkerEnds, ZenonT(60) DEF Reserve, Goto, journal
    <3>2. CASE Fails(p)
      BY <2>0, <2>2, <2>3, <2>5, <3>2, WorkerEnds, ZenonT(60) DEF Reserve, Fails, journal
    <3> QED
      BY <2>5, <3>1, <3>2, Zenon DEF Reserve
  <2>6. CASE AttachDebit(p)
    <3> DEFINE r == [row EXCEPT !.resv = IF me.caller = "client" THEN me.ex ELSE None]
    <3>1. r \in Rows /\ SameCore(row, r)
      BY <2>0 DEF Rows, ProcTypes, SameCore
    <3>2. CASE Mine(p) /\ Update(p, r, [me EXCEPT !.pc = "draft"])
      BY <2>4, <3>1, <3>2, Zenon
    <3>3. CASE Fails(p) /\ UNCHANGED journal
      BY <2>0, <2>3, <3>3, WorkerEnds, Zenon DEF Fails, journal
    <3> QED
      BY <2>6, <3>2, <3>3, Zenon DEF AttachDebit
  <2>7. CASE Draft(p)
    <3> DEFINE r == [row EXCEPT !.draft = TRUE, !.mid = me.ex]
    <3>1. r \in Rows /\ SameCore(row, r)
      BY <2>0, ZenonT(60) DEF Rows, ProcTypes, SameCore
    <3>2. ASSUME NEW way \in {"keysend", "invoice"}, Mine(p), Update(p, r, [me EXCEPT !.pc = way])
          PROVE  Inv' /\ Keeps(row')
      BY <2>4, <3>1, <3>2, Zenon
    <3>3. CASE Ends(p, "other") /\ UNCHANGED journal
      BY <2>0, <2>3, <3>3, WorkerEnds, Zenon DEF Ends, journal
    <3> QED
      BY <2>7, <3>2, <3>3, Zenon DEF Draft
  <2>8. CASE DebitOutcome(p)
    <3>1. CASE Finish(p)
      BY <2>1, <2>8, <3>1, LocalStep, IdleFacts, Zenon DEF DebitOutcome, Finish
    <3>2. CASE Fails(p) /\ UNCHANGED current
      BY <2>0, <2>3, <2>8, <3>2, WorkerEnds, ZenonT(60) DEF DebitOutcome, Fails
    <3> QED
      BY <2>8, <3>1, <3>2, Zenon DEF DebitOutcome
  <2> QED
    BY <2>5, <2>6, <2>7, <2>8, Zenon

\* A withdrawn intent: the wallet has not been called, so nothing is live.
<1>UnsentInv.
    ASSUME TypeInv, Inv, NEW p \in Procs, Unsent(p) PROVE Inv' /\ Keeps(row')
  <2> USE <1>UnsentInv
  <2> DEFINE me == proc[p]
             r == [row EXCEPT !.dispatched = FALSE, !.hash = None]
             i == [me EXCEPT !.pc = "invoice", !.next = "idle", !.pay = None, !.keysend = FALSE]
             m == IF me.next = "invoice" THEN i ELSE Ended(p, "other")
  <2>0. /\ me.ex # None /\ me \in ProcTypes /\ row \in Rows /\ UNCHANGED <<wallet, payer, execs>>
        /\ Local(me) /\ Owns(me, row) /\ me.pc = "unsent"
    <3>1. me.pc = "unsent" /\ UNCHANGED <<wallet, payer, execs>>
      BY Zenon DEF Unsent, money
    <3>2. me.pc \in Working
      BY <3>1, Zenon DEF Working, Asking
    <3> QED
      BY <3>1, <3>2, WorkerIs, Zenon DEF AllRows
  <2>1. NoLive /\ row.dispatched /\ Unresolved(row)
    BY <2>0, Zenon DEF Local, Owns, Asking
  <2>2. CASE Mine(p) /\ Update(p, r, m)
    <3>1. /\ r \in Rows /\ r.exec = row.exec /\ r.state = row.state /\ r.settlement = row.settlement
          /\ r.ready = row.ready /\ r.settled = row.settled /\ r.compacted = row.compacted
      BY <2>0, ZenonT(60) DEF Rows
    <3> HIDE DEF r
    <3>2. RowInv(row)
      BY LoadedRow, <2>2, Zenon DEF Mine
    <3>3. ~row.ready /\ ~row.settled /\ row.state \notin Paid
      BY <2>0, <2>1, <3>2, SettledIsLive, Zenon DEF RowInv
    <3>4. RowInv(r) /\ Keeps(r)
      BY <2>1, <3>1, <3>2, <3>3, Zenon DEF RowInv, NoLive, Keeps
    <3>5. Onward(me, i)
      <4>1. i \in ProcTypes /\ i.pc = "invoice" /\ i.next = "idle" /\ i.ex = me.ex /\ i.task = me.task
        <5>1. {"invoice", "idle"} \subseteq Labels
          BY Zenon DEF Labels
        <5> QED
          BY <2>0, <5>1, ZenonT(60) DEF ProcTypes
      <4> QED
        BY <4>1, Zenon DEF Onward, Locals, Reading
    <3>6. Onward(me, m)
      BY <2>0, <3>5, WorkerEnds, ZenonT(60)
    <3> HIDE DEF m
    <3>7. m \in Locals /\ m.ex = me.ex /\ Local(m) /\ Owns(m, r) /\ Copy(m, r)
      BY <2>0, <3>6, OnwardFacts, Zenon DEF Onward
    <3> QED
      BY <2>0, <2>2, <3>1, <3>4, <3>7, <1>WorkerWrite, Zenon
  <2>3. ASSUME NEW c \in {"unresolved", "other"}, Ends(p, c), UNCHANGED journal PROVE Inv' /\ Keeps(row')
    BY <2>0, <2>3, WorkerStops, Zenon
  <2> QED
    BY <2>2, <2>3, Zenon DEF Unsent

\* The wallet's answers are about the payment of this worker.
<1>AnswerInv.
    ASSUME TypeInv, Inv, NEW p \in Procs, WalletReturns(p) \/ AwaitSettlement(p)
    PROVE  Inv' /\ Keeps(row')
  <2> USE <1>AnswerInv
  <2> DEFINE me == proc[p]
             unnamed == {[d EXCEPT !.hash = None, !.proof = FALSE] : d \in Answers(me.pay)}
  <2>0. /\ me.pc \in {"calling", "await"}
        /\ UNCHANGED <<journal, wallet, payer, execs>>
    BY ZenonT(60) DEF WalletReturns, AwaitSettlement, money
  <2>1. /\ me.ex # None /\ me \in ProcTypes /\ row \in Rows /\ me.pay \in Hashes
        /\ Local(me) /\ \A r \in AllRows : Owns(me, r)
    <3>1. me.pc \in Working /\ me.pc \in Called
      BY <2>0, Zenon DEF Working, Called
    <3> QED
      BY <3>1, WorkerIs, Zenon DEF Local
  <2>2. ASSUME NEW d \in Answers(me.pay) \cup unnamed,
               proc' = [proc EXCEPT ![p].pc = "record", ![p].seen = d]
        PROVE  Inv' /\ Keeps(row')
    <3> DEFINE m == [me EXCEPT !.pc = "record", !.seen = d]
    <3>1. proc' = [proc EXCEPT ![p] = m]
      BY <2>2, ZenonT(60) DEF TypeInv, JournalType
    <3>2. /\ d.hash \in {None, me.pay}
          /\ d.status \in {"failed", "settled"} => wallet[me.pay] = d.status
      <4>1. CASE d \in Answers(me.pay)
        BY <4>1, AnswersTruth, ZenonT(60)
      <4>2. CASE d \in unnamed
        <5>1. PICK a \in Answers(me.pay) : d = [a EXCEPT !.hash = None, !.proof = FALSE]
          BY <4>2, ZenonT(60)
        <5>2. a \in Details
          BY <2>1, AnswersType, ZenonT(60)
        <5>3. d.hash = None /\ d.status = a.status
          BY <5>1, <5>2, ZenonT(60) DEF Details
        <5> QED
          BY <5>3, AnswersTruth, ZenonT(60)
      <4> QED
        BY <4>1, <4>2, ZenonT(60)
    <3>3. m.pc = "record" /\ m.seen = d /\ m.ex = me.ex /\ m.pay = me.pay /\ m.task = me.task /\ m.next = me.next
      BY <2>1, ZenonT(60) DEF ProcTypes
    <3> HIDE DEF m
    <3>4. Local(m)
      BY <2>0, <2>1, <3>2, <3>3, ZenonT(60) DEF Local, Working, Called, Asking
    <3>5. \A r \in AllRows : Owns(m, r)
      BY <2>0, <2>1, <3>3, ZenonT(60) DEF Owns, Called, Asking
    <3>6. Copy(m, row)
      BY <2>1, <3>3, WorkerIs, Zenon DEF Copy
    <3> QED
      BY <2>0, <2>1, <3>1, <3>3, <3>4, <3>5, <3>6, LocalStep, ZenonT(60) DEF journal
  <2>3. CASE Ends(p, "unresolved")
    BY <2>0, <2>1, <2>3, WorkerStops, Zenon
  <2> QED
    BY <2>2, <2>3, ZenonT(60) DEF WalletReturns, AwaitSettlement

\* It goes on with the same payment.
<1>CalledMoves.
    ASSUME TypeInv, Inv, NEW p \in Procs, proc[p].pc \in {"record", "envelope"}, NEW l \in {"await", "envelope", "materialize"},
           l # "await" => proc[p].seen.status = "settled",
           NEW r, r.exec = row.exec, r.dispatched, r.hash \in {proc[p].pay, None}, Mine(p),
           l = "materialize" => r.ready
    PROVE  LET m == [proc[p] EXCEPT !.pc = l] IN
           m \in Locals /\ m.ex = proc[p].ex /\ Local(m) /\ Owns(m, r) /\ Copy(m, r)
  <2> USE <1>CalledMoves
  <2> DEFINE me == proc[p]
             m == [me EXCEPT !.pc = l]
  <2>0. me.pc \in Called
    BY Zenon DEF Called
  <2>1. m \in Locals
    BY WorkerLocals, WorkerLabels, ZenonT(60)
  <2>2. m.pc = l /\ m.ex = me.ex /\ m.pay = me.pay /\ m.seen = me.seen /\ m.task = me.task /\ m.next = me.next
    BY <2>0, CalledRow, Zenon DEF ProcTypes
  <2> HIDE DEF m
  <2>3. Local(m)
    BY <2>0, <2>2, CalledRow DEF Local, Working, Called, Asking
  <2>4. Owns(m, r)
    BY <2>0, <2>2, CalledRow, Zenon DEF Owns, Called, Asking
  <2>5. Copy(m, r)
    BY <2>0, <2>2, CalledRow, Zenon DEF Copy
  <2> QED
    BY <2>1, <2>2, <2>3, <2>4, <2>5, Zenon DEF m

\* Operation::record stores what the wallet said, under the hash it named.
<1>RecordInv.
    ASSUME TypeInv, Inv, NEW p \in Procs, Record(p) PROVE Inv' /\ Keeps(row')
  <2> USE <1>RecordInv
  <2> DEFINE me == proc[p]
             d == me.seen
             h == IF d.hash = None THEN row.hash ELSE d.hash
             s == [d EXCEPT !.hash = h]
             r == [row EXCEPT !.hash = h, !.settlement = s]
             then == CASE d.status = "settled" -> [me EXCEPT !.pc = "envelope"]
                       [] d.status = "failed" -> Ended(p, "other")
                       [] d.hash = None -> Ended(p, "unresolved")
                       [] OTHER -> [me EXCEPT !.pc = "await"]
  <2>0. me.pc = "record" /\ me.pc \in Called /\ UNCHANGED <<wallet, payer, execs>>
    BY Zenon DEF Record, Called, money
  <2>1. /\ d.hash \in {None, me.pay}
        /\ d.status \in {"failed", "settled"} => wallet[me.pay] = d.status
    BY <2>0, CalledRow, Zenon DEF Local
  <2>2. CASE Mine(p) /\ Update(p, r, then)
    <3>1. h \in {me.pay, None} /\ (row.hash # None => h = row.hash)
      BY <2>0, <2>1, <2>2, CalledRow, Zenon
    <3>2. h \in Hashes \cup {None}
      BY <2>0, <3>1, CalledRow, Zenon
    <3> HIDE DEF h
    <3>3. s \in Details /\ s.hash = h /\ s.status = d.status
      BY <2>0, <3>2, CalledRow, Zenon DEF ProcTypes, Details
    <3> HIDE DEF s
    <3>4. /\ r \in Rows /\ r.exec = row.exec /\ r.state = row.state /\ r.settlement = s /\ r.hash = h
          /\ r.ready = row.ready /\ r.settled = row.settled /\ r.compacted = row.compacted
          /\ r.dispatched = row.dispatched
      BY <2>0, <3>2, <3>3, CalledRow, ZenonT(60) DEF Rows
    <3> HIDE DEF r
    <3>5. RowInv(row) /\ row.dispatched /\ ~row.compacted /\ \A g \in Hashes : Live(g) => g = me.pay
      BY <2>0, <2>2, CalledRow, Zenon
    <3>6. Truth(r.settlement)
      BY <2>1, <3>1, <3>3, <3>4, Zenon DEF Truth
    <3>7. r.ready \/ r.settled \/ r.state \in Paid => Settled(r)
      BY <3>1, <3>4, <3>5, Zenon DEF RowInv, Settled
    <3>8. RowInv(r)
      BY <3>1, <3>4, <3>5, <3>6, <3>7, Zenon DEF RowInv, Covers
    <3>9. Keeps(r)
      BY <3>1, <3>4, <3>5, Zenon DEF RowInv, Settled, Keeps
    <3>10. ASSUME NEW m \in Locals, m.ex = me.ex, Local(m), Owns(m, r), Copy(m, r), then = m
           PROVE  Inv' /\ Keeps(row')
      BY <2>0, <2>2, <3>4, <3>8, <3>9, <3>10, CalledRow, <1>WorkerWrite, Zenon
    <3>11. ASSUME NEW c \in {"other", "unresolved"}, then = Ended(p, c) PROVE Inv' /\ Keeps(row')
      <4>1. Onward(me, Ended(p, c)) /\ me.ex # None
        BY <2>0, CalledRow, WorkerEnds, Zenon
      <4> QED
        BY <3>10, <3>11, <4>1, OnwardFacts, Zenon DEF Onward
    <3>12. ASSUME NEW l \in {"await", "envelope"}, l = "envelope" => d.status = "settled", then = [me EXCEPT !.pc = l]
           PROVE  Inv' /\ Keeps(row')
      <4> DEFINE m == [me EXCEPT !.pc = l]
      <4>1. m \in Locals /\ m.ex = me.ex /\ Local(m) /\ Owns(m, r) /\ Copy(m, r)
        <5> HIDE DEF then
        <5> QED
          BY <2>0, <2>2, <3>1, <3>4, <3>5, <3>12, <1>CalledMoves, ZenonT(60)
      <4>2. then = m
        BY <3>12, Zenon
      <4> HIDE DEF m, then
      <4> QED
        BY <3>10, <4>1, <4>2, Zenon
    <3> QED
      BY <3>11, <3>12
  <2>3. CASE Ends(p, "unresolved") /\ UNCHANGED journal
    BY <2>0, <2>3, CalledRow, WorkerStops, Zenon
  <2> QED
    BY <2>2, <2>3, Zenon DEF Record

\* The proof is stored with the settlement it proves, and only then committed.
<1>EnvelopeInv.
    ASSUME TypeInv, Inv, NEW p \in Procs, SettledEnvelope(p) PROVE Inv' /\ Keeps(row')
  <2> USE <1>EnvelopeInv
  <2> DEFINE me == proc[p]
             r == [row EXCEPT !.ready = TRUE, !.settled = TRUE]
  <2>0. me.pc = "envelope" /\ me.pc \in Called /\ UNCHANGED <<wallet, payer, execs>>
    BY Zenon DEF SettledEnvelope, Called, money
  <2>1. CASE /\ Mine(p) /\ row.hash # None /\ row.hash = me.seen.hash
             /\ Update(p, r, [me EXCEPT !.pc = "materialize"])
    <3>1. row.hash = me.pay /\ wallet[row.hash] = "settled" /\ me.seen.status = "settled"
      BY <2>0, <2>1, CalledRow, Zenon DEF Local
    <3>2. /\ r \in Rows /\ r.exec = row.exec /\ r.state = row.state /\ r.settlement = row.settlement
          /\ r.hash = row.hash /\ r.ready /\ r.settled /\ r.compacted = row.compacted
          /\ r.dispatched = row.dispatched
      BY <2>0, CalledRow, ZenonT(60) DEF Rows
    <3> HIDE DEF r
    <3>3. RowInv(row) /\ row.dispatched /\ ~row.compacted
      BY <2>0, <2>1, CalledRow, Zenon
    <3>4. RowInv(r)
      BY <2>1, <3>1, <3>2, <3>3, Zenon DEF RowInv, Settled, Covers
    <3>5. Keeps(r)
      BY <3>2, Zenon DEF Keeps
    <3> DEFINE m == [me EXCEPT !.pc = "materialize"]
    <3>6. m \in Locals /\ m.ex = me.ex /\ Local(m) /\ Owns(m, r) /\ Copy(m, r)
      BY <2>0, <2>1, <3>1, <3>2, <3>3, <1>CalledMoves, ZenonT(60)
    <3> HIDE DEF m
    <3>7. me.ex # None
      BY <2>0, CalledRow, Zenon
    <3> QED
      BY <2>0, <2>1, <3>2, <3>4, <3>5, <3>6, <3>7, <1>WorkerWrite, ZenonT(60) DEF m
  <2>2. ASSUME NEW c \in {"unresolved", "proof"}, Ends(p, c), UNCHANGED journal PROVE Inv' /\ Keeps(row')
    BY <2>0, <2>2, CalledRow, WorkerStops, ZenonT(60)
  <2> QED
    BY <2>1, <2>2, Zenon DEF SettledEnvelope

<1>PaidCommitInv.
    ASSUME TypeInv, Inv, NEW p \in Procs, PaidCommit(p) PROVE Inv' /\ Keeps(row')
  <2> USE <1>PaidCommitInv
  <2> DEFINE me == proc[p]
             paid == [row EXCEPT !.state = "paid"]
             m == [Ended(p, "ok") EXCEPT !.pc = "resend"]
  <2>0. me.pc = "materialize" /\ me.pc \in Called /\ UNCHANGED <<wallet, payer, execs>>
    BY Zenon DEF PaidCommit, Called, money
  <2>1. CASE Materialize(p, row, m)
    <3>1. p \in current /\ (Commit(p, paid, m) \/ Cancelled(p, paid, TRUE))
      BY <2>1, Zenon DEF Materialize
    <3>2. row.ready /\ RowInv(row) /\ row \in Rows /\ Keeps(row) /\ \A q \in Procs : Owns(proc[q], row)
      BY <2>0, <3>1, CurrentCopy, Zenon DEF Copy
    <3>3. Settled(row) /\ ~row.compacted
      BY <3>2, Zenon DEF RowInv
    <3>4. /\ paid \in Rows /\ RowInv(paid) /\ Settled(paid) /\ Keeps(paid)
          /\ paid.exec = row.exec /\ paid.dispatched = row.dispatched /\ paid.hash = row.hash
      BY <3>2, <3>3, PaidRow, Zenon
    <3> HIDE DEF paid
    <3>5. \A q \in Procs \ {p} : Owns(proc[q], paid)
      BY <3>2, <3>4, SettledOwns, Zenon
    <3>6. me.ex # None
      BY <2>0, CalledRow, Zenon
    <3>7. Onward(me, m)
      BY <3>6, WorkerEnds, ZenonT(60)
    <3> HIDE DEF m
    <3>8. m \in Locals /\ m.ex = me.ex /\ Local(m) /\ Owns(m, paid) /\ Copy(m, paid)
      BY <3>6, <3>7, OnwardFacts, Zenon DEF Onward
    <3> QED
      BY <2>0, <3>1, <3>4, <3>5, <3>6, <3>8, <1>OwnerWrite, ZenonT(60)
  <2>2. CASE Ends(p, "proof") /\ UNCHANGED journal
    BY <2>0, <2>2, CalledRow, WorkerStops, Zenon
  <2> QED
    BY <2>1, <2>2, Zenon DEF PaidCommit

\* The error path: only an undispatched attempt goes back to an unpaid state.
<1>FailInv.
    ASSUME TypeInv, Inv, NEW p \in Procs, Fail(p) PROVE Inv' /\ Keeps(row')
  <2> USE <1>FailInv
  <2> DEFINE me == proc[p]
  <2>0. me.pc = "fail" /\ UNCHANGED <<wallet, payer, execs>>
    BY Zenon DEF Fail, money
  <2>1. me.ex # None /\ row \in Rows /\ RowInv(row) /\ Keeps(row)
    BY <2>0, WorkerIs, LoadedRow, Zenon DEF Working
  <2>2. ASSUME NEW s \in {"released", "prepared", "payment_unknown"}, Mine(p), row.state = "paying",
               s # "payment_unknown" => ~row.dispatched,
               Update(p, [row EXCEPT !.error = "other", !.state = s], Idle)
        PROVE  Inv' /\ Keeps(row')
    <3> DEFINE r == [row EXCEPT !.error = "other", !.state = s]
    <3>0. s \in States
      BY Zenon DEF States
    <3>1. /\ r \in Rows /\ r.exec = row.exec /\ r.state = s /\ r.settlement = row.settlement
          /\ r.hash = row.hash /\ r.ready = row.ready /\ r.settled = row.settled /\ r.compacted = row.compacted
          /\ r.dispatched = row.dispatched
      BY <2>1, <3>0, Zenon DEF Rows
    <3> HIDE DEF r
    <3>2. s # "payment_unknown" => NoLive
      BY <2>1, <2>2, UndispatchedNoLive, Zenon DEF Unresolved
    <3>3. ~row.compacted
      BY <2>1, <2>2, Zenon DEF Mine, RowInv
    <3>4. RowInv(r)
      BY <2>1, <3>1, <3>2, <3>3, Zenon DEF RowInv, Settled, Covers, Unpaid, Paid
    <3>5. Keeps(r)
      BY <2>1, <3>1, Zenon DEF Keeps
    <3>6. \A q \in Procs \ {p} : Owns(proc[q], r)
      BY <2>1, <2>2, <3>1, <1>MineAlone, Zenon
    <3> QED
      BY <2>0, <2>1, <2>2, <3>1, <3>4, <3>5, <3>6, IdleType, IdleFacts, WriteStep, Zenon DEF Update, Stored, r
  <2>3. ASSUME NEW proven \in {FALSE, ProvenUnpaid(row)}, Mine(p), row.state = "paying",
               Update(p, [row EXCEPT !.error = "other",
                                     !.state = CASE proven -> "released"
                                                 [] ~proven /\ ~row.dispatched -> "prepared"
                                                 [] OTHER -> "payment_unknown"], Idle)
        PROVE  Inv' /\ Keeps(row')
    <3> DEFINE s == CASE proven -> "released"
                      [] ~proven /\ ~row.dispatched -> "prepared"
                      [] OTHER -> "payment_unknown"
    <3>1. s \in {"released", "prepared", "payment_unknown"} /\ (s # "payment_unknown" => ~row.dispatched)
      BY <2>3, Zenon DEF ProvenUnpaid
    <3> HIDE DEF s
    <3> QED
      BY <2>2, <2>3, <3>1, Zenon DEF s
  <2>4. CASE Finish(p) /\ UNCHANGED <<row, late>>
    BY <2>0, <2>4, LocalStep, IdleFacts, Zenon DEF Finish
  <2> QED
    BY <2>3, <2>4, Zenon DEF Fail

\* The claim: the row allowed a payment, so none is live; the execution is new.
<1>ClaimInv.
    ASSUME TypeInv, Inv, NEW p \in Procs, Claim(p) PROVE Inv' /\ Keeps(row')
  <2> USE <1>ClaimInv
  <2>1. PICK e \in Execs \ execs :
            /\ proc[p].pc = "claim"
            /\ Save(p, ClaimedRow(proc[p].op, e), [Idle EXCEPT !.pc = "reserve", !.ex = e, !.caller = proc[p].caller])
            /\ execs' = execs \cup {e}
            /\ UNCHANGED money
    BY Zenon DEF Claim
  <2>2. /\ row \in Rows /\ proc[p].op = row /\ proc[p] \in ProcTypes /\ RowInv(row)
        /\ row.state \in {"prepared", "released"} /\ \A q \in Procs : Owns(proc[q], row)
    BY <2>1, CurrentCopy, Zenon DEF Save, Reading, Copy, Locals
  <2>3. NoLive /\ ~row.settled
    BY <2>2, SettledIsLive, Zenon DEF RowInv, Unpaid
  <2>r. PICK r : r = ClaimedRow(row, e)
    BY Zenon
  <2>m. PICK m : m = [Idle EXCEPT !.pc = "reserve", !.ex = e, !.caller = proc[p].caller]
    BY Zenon
  <2> DEFINE s == Stored(m, r)
  <2>4. /\ r \in Rows /\ r.state = "paying" /\ r.exec = e /\ ~r.compacted /\ ~r.ready
        /\ r.settled = row.settled /\ r.settlement = NoDetails
    <3>1. "paying" \in States
      BY Zenon DEF States
    <3> QED
      BY <2>2, <2>r, <3>1, NoDetailsType, ZenonT(60) DEF ClaimedRow, Rows
  <2>5. Commit(p, r, m) \/ (row \in Rows /\ Cancelled(p, r, FALSE))
    BY <2>1, <2>2, <2>r, <2>m, ZenonT(60) DEF Save, Update
  <2>6. m \in ProcTypes /\ m.pc = "reserve" /\ m.ex = e
    BY <2>2, <2>m, IdleType, WorkerLabels, ZenonT(60) DEF ProcTypes
  <2>7. m.task = "none" /\ m.next = "idle"
    BY <2>m, Zenon DEF Idle
  <2>8. m \in Locals /\ m # Idle /\ e # None
    BY <2>6, IdleFacts, OperationsAssumption, Zenon DEF Locals, Reading
  <2>9. s.pc = "reserve" /\ s.ex = e /\ s.task = "none" /\ s.next = "idle"
    BY <2>6, <2>7, <2>8, Zenon DEF Stored, ProcTypes
  <2> HIDE DEF s
  <2>10. Grows
    BY <2>1, Zenon DEF Grows, money
  <2>11. Local(s)' /\ Owns(s, r) /\ Copy(s, r)
    BY <2>1, <2>8, <2>9, Zenon DEF Local, Owns, Copy, Working, Asking, Called
  <2>12. RowInv(r)'
    <3>1. NoLive'
      BY <2>3, <2>10, Frame, Zenon
    <3>2. Truth(NoDetails)'
      BY Zenon DEF Truth, NoDetails
    <3> QED
      BY <2>1, <2>3, <2>4, <3>1, <3>2, Zenon DEF RowInv, NoLive, Paid, Unpaid
  <2>13. \A q \in Procs \ {p} : Owns(proc[q], r)
    <3> SUFFICES ASSUME NEW q \in Procs \ {p} PROVE Owns(proc[q], r)
      BY Zenon
    <3>1. proc[q].pc \notin Asking
      BY <2>2, Zenon DEF Owns, Unresolved
    <3>2. proc[q].ex # e
      BY <2>8, Zenon DEF Inv, LocalsInv, Local
    <3> QED
      BY <2>4, <3>1, <3>2, Zenon DEF Owns
  <2>14. Keeps(r)
    BY <2>3, Zenon DEF Keeps
  <2> QED
    BY <2>4, <2>5, <2>8, <2>9, <2>10, <2>11, <2>12, <2>13, <2>14, WriteStep, ZenonT(60) DEF s

\* The intent is written before the wallet is called: nothing was dispatched.
<1>DispatchInv.
    ASSUME TypeInv, Inv, NEW p \in Procs, Dispatch(p) PROVE Inv' /\ Keeps(row')
  <2> USE <1>DispatchInv
  <2> DEFINE me == proc[p]
  <2>0. me.pc \in {"keysend", "invoice"} /\ UNCHANGED <<wallet, execs>>
    BY Zenon DEF Dispatch
  <2>1. /\ me.ex # None /\ row \in Rows /\ RowInv(row) /\ me \in ProcTypes
        /\ me.task = "none" /\ me.next # "fence" /\ me.ex \in execs
    BY <2>0, WorkerIs, LoadedRow, Zenon DEF Working
  <2>2. ASSUME NEW h \in Hashes, payer[h] = None, Mine(p), ~row.dispatched, payer' = [payer EXCEPT ![h] = me.ex],
               Update(p, [row EXCEPT !.dispatched = TRUE, !.settlement = NoDetails, !.state = "paying",
                                     !.hash = IF me.pc = "invoice" THEN h ELSE None],
                      [me EXCEPT !.pc = "poll", !.pay = h, !.keysend = me.pc = "keysend"])
        PROVE  Inv' /\ Keeps(row')
    <3>r. PICK r : r = [row EXCEPT !.dispatched = TRUE, !.settlement = NoDetails, !.state = "paying",
                                   !.hash = IF me.pc = "invoice" THEN h ELSE None]
      BY Zenon
    <3>m. PICK m : m = [me EXCEPT !.pc = "poll", !.pay = h, !.keysend = me.pc = "keysend"]
      BY Zenon
    <3>1. "paying" \in States
      BY Zenon DEF States
    <3>2. /\ r \in Rows /\ r.dispatched /\ r.settlement = NoDetails /\ r.state = "paying" /\ r.exec = row.exec
          /\ r.hash \in {h, None} /\ r.ready = row.ready /\ r.settled = row.settled /\ r.compacted = row.compacted
      BY <2>1, <3>1, <3>r, NoDetailsType, ZenonT(60) DEF Rows
    <3>3. m \in Locals /\ m.pc = "poll" /\ m.pay = h /\ m.ex = me.ex /\ m.task = me.task /\ m.next = me.next
      <4>1. (me.pc = "keysend") \in BOOLEAN
        BY Zenon
      <4>2. m \in ProcTypes /\ m.pc = "poll" /\ m.pay = h /\ m.ex = me.ex /\ m.task = me.task /\ m.next = me.next
        BY <2>1, <3>m, <4>1, WorkerLabels, ZenonT(60) DEF ProcTypes
      <4> QED
        BY <4>2, Zenon DEF Locals, Reading
    <3>4. NoLive /\ wallet[h] = "none" /\ row.exec = me.ex
      BY <2>1, <2>2, UndispatchedNoLive, Zenon DEF Inv, FreshInv, Mine
    <3>5. ~row.settled /\ ~row.ready /\ ~row.compacted
      BY <2>1, <3>4, SettledIsLive, Zenon DEF RowInv
    <3>6. RowInv(r)
      <4>1. Truth(NoDetails)
        BY Zenon DEF Truth, NoDetails
      <4> QED
        BY <2>1, <3>2, <3>4, <3>5, <4>1, Zenon DEF RowInv, NoLive, Paid, Unpaid
    <3>7. Keeps(r)
      BY <3>5, Zenon DEF Keeps
    <3>8. Grows /\ payer'[h] # None
      BY <2>0, <2>1, <2>2, Zenon DEF Grows, TypeInv, OtherType
    <3>9. Local(m)'
      <4>1. NoLive'
        BY <3>4, <3>8, Frame, ZenonT(60)
      <4> QED
        BY <2>0, <2>1, <3>3, <3>4, <3>8, <4>1, Zenon DEF Local, Working, Asking, Called
    <3>10. Owns(m, r)
      BY <3>2, <3>3, <3>4 DEF Owns, Unresolved, NoDetails, Called
    <3>11. Copy(m, r)
      BY <2>1, <3>3, Zenon DEF Copy
    <3> QED
      BY <2>1, <2>2, <3>2, <3>3, <3>6, <3>7, <3>8, <3>9, <3>10, <3>11, <3>r, <3>m, <1>WorkerWrite, ZenonT(60)
  <2>3. ASSUME NEW c \in {"unresolved", "other"}, Ends(p, c), UNCHANGED <<journal, payer>> PROVE Inv' /\ Keeps(row')
    BY <2>0, <2>1, <2>3, WorkerStops, Zenon
  <2> QED
    BY <2>2, <2>3, ZenonT(60) DEF Dispatch

\* The wallet call: the intent of this worker covers the payment in every row
\* that is stored or may still be.
<1>PollInv. ASSUME TypeInv, Inv, NEW p \in Procs, PollWallet(p) PROVE Inv' /\ Keeps(row')
  <2> USE <1>PollInv
  <2> DEFINE me == proc[p]
             h == me.pay
  <2>0. me.pc = "poll" /\ UNCHANGED <<row, current, late, execs, payer>>
    BY Zenon DEF PollWallet, journal
  <2>1. /\ me \in Locals /\ me \in ProcTypes /\ me.ex # None /\ me.task = "none" /\ me.next # "fence"
        /\ Local(me) /\ row \in Rows /\ proc \in [Procs -> Locals] /\ row \in AllRows
        /\ \A r \in AllRows : Owns(me, r)
    BY <2>0, WorkerIs, Zenon DEF Working, Asking, TypeInv, JournalType, AllRows
  <2>2. h \in Hashes /\ payer[h] # None /\ NoLive /\ wallet[h] = "none"
    BY <2>0, <2>1, Zenon DEF Local, Asking
  <2>3. \A r \in AllRows : /\ r.exec = me.ex /\ r.dispatched /\ Unresolved(r) /\ r.hash \in {h, None}
                           /\ r.settlement.status = "none" /\ r \in Rows /\ RowInv(r)
                           /\ ~r.ready /\ ~r.settled
    <3> SUFFICES ASSUME NEW r \in AllRows
                 PROVE  /\ r.exec = me.ex /\ r.dispatched /\ Unresolved(r) /\ r.hash \in {h, None}
                        /\ r.settlement.status = "none" /\ r \in Rows /\ RowInv(r) /\ ~r.ready /\ ~r.settled
      BY Zenon
    <3>1. /\ r.exec = me.ex /\ r.dispatched /\ Unresolved(r) /\ r.hash \in {h, None}
          /\ r.settlement.status = "none" /\ r \in Rows /\ RowInv(r)
      BY <2>0, <2>1, RowsTyped, Zenon DEF Owns, Asking, Inv, RowsInv
    <3> QED
      BY <2>2, <3>1, SettledIsLive, Zenon DEF RowInv
  <2>4. \A q \in Procs \ {p} : proc[q].ex # me.ex /\ proc[q].pc \notin Asking
    BY <2>1, <2>3, Zenon DEF Inv, FenceInv, OwnsInv, Owns
  <2>5. CASE wallet' = [wallet EXCEPT ![h] = "transit"] /\ Goto(p, "calling")
    <3> DEFINE m == [me EXCEPT !.pc = "calling"]
    <3>1. \A q \in Procs : proc'[q] = IF q = p THEN m ELSE proc[q]
      BY <2>1, <2>5, Zenon DEF Goto
    <3>2. /\ m.pc = "calling" /\ m.ex = me.ex /\ m.pay = h /\ m.task = "none" /\ m.next = me.next
      BY <2>1, Zenon DEF ProcTypes
    <3> HIDE DEF m
    <3>3. /\ \A g \in Hashes : wallet[g] \in {"failed", "settled"} => wallet'[g] = wallet[g]
          /\ \A g \in Hashes : g # h => wallet'[g] = wallet[g]
          /\ wallet'[h] = "transit"
          /\ \A d \in Details : Truth(d) => Truth(d)'
      BY <2>2, <2>5, OutcomeStays, ZenonT(60)
    <3> HIDE DEF h
    <3>4. \A g \in Hashes : Live(g)' => g = h
      BY <2>2, <3>3, Zenon DEF Live, NoLive
    <3>5. AllRows' = AllRows
      BY <2>0, Zenon DEF AllRows
    <3>6. PaidOnce' /\ FreshInv' /\ EmptyInv' /\ LatesInv'
      <4>1. PaidOnce'
        BY <3>4, Zenon DEF PaidOnce
      <4>2. FreshInv'
        BY <2>0, <2>2, <3>3, Zenon DEF Inv, FreshInv
      <4> QED
        BY <2>0, <2>1, <4>1, <4>2, ZenonT(60) DEF Inv, EmptyInv, LatesInv, Keeps
    <3>7. RowsInv'
      <4> SUFFICES ASSUME NEW r \in AllRows PROVE RowInv(r)'
        BY <3>5, Zenon DEF RowsInv
      <4>1. Truth(r.settlement)'
        BY <2>3, Zenon DEF Truth
      <4>2. r.state \notin Unpaid \cup Paid
        BY <2>3, Zenon DEF Unresolved, Unpaid, Paid
      <4> QED
        BY <2>0, <2>3, <3>4, <4>1, <4>2, ZenonT(60) DEF RowInv, Covers
    <3>8. OwnsInv'
      <4> SUFFICES ASSUME NEW r \in AllRows, NEW q \in Procs PROVE Owns(proc[q], r)'
        BY <3>5, Zenon DEF OwnsInv
      <4>1. CASE q = p
        BY <2>3, <3>1, <3>2, <3>4, <4>1, Zenon DEF Owns, Asking
      <4>2. CASE q # p
        BY <2>3, <2>4, <3>1, <4>2, Zenon DEF Owns
      <4> QED
        BY <4>1, <4>2, Zenon
    <3>9. LocalsInv'
      <4> SUFFICES ASSUME NEW q \in Procs PROVE Local(proc[q])'
        BY Zenon DEF LocalsInv
      <4>1. CASE q = p
        BY <2>0, <2>1, <2>2, <3>1, <3>2, <4>1, ZenonT(60) DEF Local, Working, Asking, Called
      <4>2. CASE q # p
        <5>1. Local(proc[q]) /\ proc'[q] = proc[q] /\ proc[q].pc \notin Asking
          BY <2>4, <3>1, <4>2, Zenon DEF Inv, LocalsInv
        <5>2. proc[q].pc \in {"record", "envelope"} => proc[q].pay \in Hashes
          BY <5>1, Zenon DEF Local, Called
        <5> QED
          BY <2>0, <3>3, <5>1, <5>2, Zenon DEF Local
      <4> QED
        BY <4>1, <4>2, Zenon
    <3>10. FenceInv'
      BY <3>1, <3>2 DEF Inv, FenceInv
    <3>11. CopiesInv'
      <4> SUFFICES ASSUME NEW q \in current PROVE (row \in Rows)' /\ Copy(proc[q], row)'
        BY <2>0, Zenon DEF CopiesInv
      <4>0. q \in Procs
        BY Zenon DEF TypeInv, JournalType
      <4>1. CASE q = p
        BY <2>0, <2>1, <3>1, <3>2, <4>1, Zenon DEF Copy
      <4>2. CASE q # p
        <5>1. Copy(proc[q], row) /\ proc'[q] = proc[q] /\ proc[q].seen \in Details
          BY <2>1, <3>1, <4>0, <4>2, ZenonT(60) DEF Inv, CopiesInv, Locals, ProcTypes
        <5>2. Truth(proc[q].seen) => Truth(proc[q].seen)'
          BY <3>3, <5>1, Zenon DEF Truth
        <5> QED
          BY <2>0, <2>1, <5>1, <5>2, Zenon DEF Copy
      <4> QED
        BY <4>1, <4>2, Zenon
    <3> QED
      BY <2>0, <3>6, <3>7, <3>8, <3>9, <3>10, <3>11, Zenon DEF Inv, Keeps
  <2>6. ASSUME NEW n \in {"invoice", "debit"}, proc' = [proc EXCEPT ![p].pc = "unsent", ![p].next = n], UNCHANGED wallet
        PROVE  Inv' /\ Keeps(row')
    <3> DEFINE m == [me EXCEPT !.pc = "unsent", !.next = n]
    <3>1. proc' = [proc EXCEPT ![p] = m]
      BY <2>1, <2>6, ZenonT(60)
    <3>2. /\ m.pc = "unsent" /\ m.ex = me.ex /\ m.pay = h /\ m.task = "none" /\ m.next = n
      BY <2>1, Zenon DEF ProcTypes
    <3> HIDE DEF m
    <3>3. Local(m)
      BY <2>0, <2>1, <2>2, <3>2, Zenon DEF Local, Working, Asking, Called
    <3>4. \A r \in AllRows : Owns(m, r)
      BY <2>3, <3>2, Zenon DEF Owns, Asking, Called
    <3>5. Copy(m, row)
      BY <2>1, <3>2, Zenon DEF Copy
    <3> QED
      BY <2>0, <2>1, <2>6, <3>1, <3>2, <3>3, <3>4, <3>5, LocalStep, Zenon
  <2> QED
    BY <2>5, <2>6, Zenon DEF PollWallet
<1> QED
  BY <1>ClaimInv, <1>PreparingInv, <1>DispatchInv, <1>PollInv, <1>UnsentInv, <1>AnswerInv, <1>RecordInv, <1>EnvelopeInv,
     <1>PaidCommitInv, <1>FailInv, Zenon DEF Worker

LEMMA NextInv == TypeInv /\ Inv /\ [Next]_vars => Inv' /\ Keeps(row')
<1> SUFFICES ASSUME TypeInv, Inv, [Next]_vars PROVE Inv' /\ Keeps(row')
  BY Zenon
<1>1. ASSUME NEW p \in Procs,
             \/ Request(p) \/ Reopen(p) \/ Retry(p) \/ Fence(p)
             \/ Worker(p) \/ Budget(p) \/ Reconcile(p) \/ Recovery(p)
             \/ Resend(p) \/ Sending(p) \/ Stop(p)
      PROVE  Inv' /\ Keeps(row')
  BY <1>1, RequestInv, ContinueInv, WorkerInv, BudgetInv, ReconcileInv, RecoverInv, SendInv, Zenon
<1>2. CASE LateCommit \/ WalletStep \/ Deliver
  BY <1>2, LateCommitInv, WalletStepInv, DeliverInv, Zenon
<1>3. CASE UNCHANGED vars
  BY <1>3, NothingChanged, Zenon DEF vars, journal, money
<1> QED
  BY <1>1, <1>2, <1>3, Zenon DEF Next

\* The inductive invariant of the journal holds for any number of processes,
\* executions and hashes: the stored row, every queued update and every program
\* of compose_locked, the worker and the recovery agree on the evidence.
THEOREM Invariance == Spec => [](TypeInv /\ Inv)
<1>1. Init => TypeInv /\ Inv
  BY InitType, InitInv, Zenon
<1>2. TypeInv /\ Inv /\ [Next]_vars => (TypeInv /\ Inv)'
  BY NextTypeInv, NextInv, Zenon
<1> QED
  BY <1>1, <1>2, PTL DEF Spec

\* However many processes share the database, however often a request is
\* retried, dropped or recovered and however late its writes land, one operation
\* id never has two payments under way or settled: the version check of save,
\* the execution id fenced by the claim and the intent that Operation::dispatch
\* stores before it calls the wallet are enough, without operation_lock.
THEOREM PaymentIsUnique == Spec => []PaidOnce
<1>1. TypeInv /\ Inv => PaidOnce
  BY Zenon DEF Inv
<1> QED
  BY <1>1, Invariance, PTL

\* A stored row in prepared, released or abandoned, the states that permit a new
\* payment or deny that one was made, never has a payment that may still settle.
THEOREM UnpaidIsFinal == Spec => []UnpaidMeansUnpaid
<1>1. TypeInv /\ Inv => UnpaidMeansUnpaid
  BY LoadedRow, Zenon DEF UnpaidMeansUnpaid, RowInv, Unpaid, NoLive
<1> QED
  BY <1>1, Invariance, PTL

\* A stored row in a paid state names a payment that the wallet settled.
THEOREM PaidIsSettled == Spec => []PaidMeansSettled
<1>1. TypeInv /\ Inv => PaidMeansSettled
  BY LoadedRow, Zenon DEF PaidMeansSettled, RowInv, Paid, Settled
<1> QED
  BY <1>1, Invariance, PTL

\* No write of the row, whether by a handler, the sweep, compaction, a delivery
\* statement or a dead request, forgets a recorded settlement or its hash.
THEOREM EvidenceIsMonotonic == Spec => EvidenceStays
<1>1. TypeInv /\ Inv /\ [Next]_vars
      => [row # None /\ row.settled => row'.settled /\ row'.hash = row.hash]_row
  BY NextInv, LoadedRow, Zenon DEF Keeps
<1> QED
  BY <1>1, Invariance, PTL DEF Spec, EvidenceStays

===============================================================================

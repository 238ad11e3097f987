-------------------------------- MODULE Calls --------------------------------
(***************************************************************************)
(* One 1:1 call between a caller and a callee.  Each node keeps a row for  *)
(* the call id (call_state) that the pure rules of payloads/call.rs move:  *)
(* an offer rings, an answer makes the call live, the caller buys the call *)
(* in blocks of Block time units, and a hangup, an expiry or the cap ends  *)
(* it.  Every signal is a paid message: it is reserved in the row before   *)
(* it is paid, committed once the payment settled, and then delivered,     *)
(* possibly late, repeatedly and out of order.                             *)
(*                                                                         *)
(* Time is one clock both nodes read, in units of the grace period.        *)
(***************************************************************************)
EXTENDS Integers, FiniteSets

CONSTANTS
    Ring,           \* RING_TIMEOUT_MS
    Block,          \* CALL_BLOCK_MS
    Lead,           \* CALL_BLOCK_LEAD_MS
    Grace,          \* CALL_BLOCK_GRACE_MS
    Resume,         \* CALL_BLOCK_RESUME_MS
    InvoiceMargin,  \* CALL_BLOCK_INVOICE_MARGIN_MS
    DispatchMargin, \* the five seconds of dispatch_message_payment
    Tombstone,      \* TOMBSTONE_MS
    MaxBlocks,      \* MAX_CALL_MS / CALL_BLOCK_MS
    Cap,            \* call_max_minutes of the caller
    Tries,          \* bound: operations the caller's client may make per block
    MaxTime         \* bound: length of the modelled history

VARIABLES
    now,      \* the clock
    call,     \* call_state: the row of the call at each side
    op,       \* the operation journal of each signal
    invoice,  \* call_block_invoices of the callee, by the operation they are for
    seen,     \* the receiver's receipt of each delivered signal
    grants,   \* acknowledgements of blocks on their way to the caller
    acked     \* blocks whose acknowledgement reached the caller

vars == <<now, call, op, invoice, seen, grants, acked>>

Sides == {"caller", "callee"}

Other(s) == IF s = "caller" THEN "callee" ELSE "caller"

NoOp == [by |-> "none", kind |-> "none", seq |-> 0, try |-> 0]

BlockOps == [by : {"caller"}, kind : {"block"}, seq : 0..(MaxBlocks - 1), try : Tries]

SignalOps ==
    [by : {"caller"}, kind : {"offer"}, seq : {0}, try : {1}]
      \cup [by : {"callee"}, kind : {"answer"}, seq : {0}, try : {1}]
      \cup [by : Sides, kind : {"hangup", "notice"}, seq : {0}, try : {1}]

Ops == BlockOps \cup SignalOps

NoTime == -1

Initial == Lead + Grace

NoRow == [phase |-> "none", deadline |-> 0, pending |-> NoOp, paidUntil |-> NoTime,
          next |-> 0, reason |-> "none", notice |-> FALSE]

Rows ==
    [phase : {"none", "reserved", "ringing", "live", "ended"}, deadline : Nat,
     pending : Ops \cup {NoOp}, paidUntil : Nat \cup {NoTime}, next : 0..MaxBlocks,
     reason : {"none", "hangup", "timeout", "unpaid", "duration_cap", "failed"},
     notice : BOOLEAN]

(***************************************************************************)
(* The rules of payloads/call.rs.                                          *)
(***************************************************************************)
media_admitted(e) ==
    e.phase = "live" /\ e.paidUntil # NoTime /\ now <= e.paidUntil + Grace

next_block_due(e) ==
    IF e.paidUntil = NoTime THEN e.deadline - Initial ELSE e.paidUntil - Lead

expired(e) == IF e.phase = "live" THEN now > e.deadline ELSE now >= e.deadline

open(e) == e.phase \in {"ringing", "live"}

answered(e) == [e EXCEPT !.phase = "live", !.deadline = now + Initial]

Ended(e, reason, from) ==
    [e EXCEPT !.phase = "ended", !.reason = reason, !.deadline = from + Tombstone]

\* When the interval of a live or unpaid call ran, or will run, out.
interval_end(e) == IF e.phase = "live" THEN e.deadline ELSE e.deadline - Tombstone

ended_at(e) ==
    IF e.deadline <= now /\ e.pending.kind \in {"none", "block"}
      THEN NoRow
      ELSE IF e.pending.kind = "block"
                /\ (e.reason # "unpaid" \/ now > interval_end(e) + Resume)
             THEN [e EXCEPT !.pending = NoOp]
             ELSE e

at(e) ==
    CASE e.phase = "none" -> e
      [] e.phase = "ended" -> ended_at(e)
      [] e.phase \notin {"none", "ended"} /\ expired(e) ->
           ended_at(Ended(e, IF e.phase = "live" THEN "unpaid" ELSE "timeout", e.deadline))
      [] OTHER -> e

check_block(e, seq) ==
    /\ e.phase = "live" /\ ~expired(e)
    /\ seq = e.next /\ seq < MaxBlocks
    /\ now >= next_block_due(e)

\* A live call, or one that only its payment ended: a late block revives it.
resumable(e) == e.phase = "live" \/ (e.phase = "ended" /\ e.reason = "unpaid")

late(e) == now > interval_end(e)

\* Mutant: nothing resumes an interval that has run out.
applicable_OnTime(e, seq) == seq = e.next /\ resumable(e) /\ check_block(e, seq)

applicable(e, seq) ==
    /\ seq = e.next /\ seq < MaxBlocks
    /\ resumable(e)
    /\ IF late(e) THEN now <= interval_end(e) + Resume ELSE check_block(e, seq)

apply_block(e) ==
    LET start == IF late(e) THEN now
                 ELSE IF e.paidUntil = NoTime THEN e.deadline - Initial ELSE e.paidUntil
    IN  [e EXCEPT !.phase = "live", !.reason = "none",
                  !.notice = e.notice /\ e.pending.kind = "notice",
                  !.paidUntil = start + Block, !.next = e.next + 1,
                  !.deadline = start + Block + Grace]

reserve_offer(e, o) ==
    [NoRow EXCEPT !.phase = "reserved", !.deadline = now + Ring, !.pending = o]

\* Mutant: a block may be reserved beside another operation.
can_reserve_Beside(e, o) ==
    CASE o.kind = "offer" -> e.phase = "none"
      [] o.kind = "answer" -> e.phase = "ringing" /\ e.pending = NoOp
      [] o.kind = "hangup" -> open(e) /\ e.pending = NoOp
      [] o.kind = "notice" ->
           /\ e.phase = "ended" /\ ~e.notice /\ e.pending = NoOp
           /\ e.reason = IF o.by = "callee" THEN "unpaid" ELSE "duration_cap"
      [] o.kind = "block" -> check_block(e, o.seq) /\ o.seq < Cap

can_reserve(e, o) ==
    CASE o.kind = "offer" -> e.phase = "none"
      [] o.kind = "answer" -> e.phase = "ringing" /\ e.pending = NoOp
      [] o.kind = "hangup" -> open(e) /\ e.pending = NoOp
      [] o.kind = "notice" ->
           /\ e.phase = "ended" /\ ~e.notice /\ e.pending = NoOp
           /\ e.reason = IF o.by = "callee" THEN "unpaid" ELSE "duration_cap"
      [] o.kind = "block" -> check_block(e, o.seq) /\ o.seq < Cap /\ e.pending = NoOp

reserve(e, o) ==
    IF o.kind = "offer" THEN reserve_offer(e, o)
    ELSE [e EXCEPT !.pending = o, !.notice = @ \/ o.kind = "notice"]

commit_refused(e, o) ==
    /\ o.kind = "block"
    /\ e.phase = "live" /\ now <= interval_end(e) + Resume
    /\ ~applicable(e, e.next)

commit_block(e) ==
    IF resumable(e) /\ now > interval_end(e) + Resume
      THEN Ended(e, "unpaid", interval_end(e))
      ELSE IF applicable(e, e.next) THEN apply_block(e) ELSE e

commit(s, e, o) ==
    LET cleared == [e EXCEPT !.pending = NoOp]
    IN  CASE o.kind = "offer" /\ e.phase = "reserved" ->
               [cleared EXCEPT !.phase = "ringing", !.deadline = now + Ring]
          [] o.kind = "answer" /\ e.phase = "ringing" -> answered(cleared)
          [] o.kind = "block" -> commit_block(cleared)
          [] o.kind \in {"hangup", "notice"} /\ e.phase = "live" /\ s = "callee" /\ e.notice ->
               [cleared EXCEPT !.notice = FALSE]
          [] /\ o.kind \in {"hangup", "notice"} /\ e.phase \in {"reserved", "ringing", "live"}
             /\ ~(e.phase = "live" /\ s = "callee" /\ e.notice) ->
               [cleared EXCEPT !.phase = "ended", !.deadline = now + Tombstone]
          [] OTHER -> cleared

release(s, e, o) ==
    IF e.pending # o THEN e
    ELSE IF o.kind = "offer" /\ e.phase = "reserved" THEN NoRow
    ELSE LET undo == /\ o.kind \in {"hangup", "notice"}
                     /\ s = "callee" \/ (e.phase = "ended" /\ e.reason = "duration_cap")
         IN  [e EXCEPT !.pending = NoOp, !.notice = @ /\ ~undo]

reason_of(o) ==
    IF o.kind = "hangup" THEN "hangup"
    ELSE IF o.by = "callee" THEN "unpaid" ELSE "duration_cap"

\* Mutant: an unpaid notice is believed while the interval runs.
receivable_AnyNotice(s, e, o) ==
    CASE o.kind = "offer" -> e.phase = "none"
      [] o.kind = "answer" -> e.phase = "ringing"
      [] o.kind = "block" -> applicable(e, o.seq)
      [] o.kind \in {"hangup", "notice"} /\ e.phase = "ended" ->
           /\ s = "caller" /\ e.reason = "unpaid"
           /\ reason_of(o) = "hangup" \/ (reason_of(o) = "unpaid" /\ ~e.notice)
      [] o.kind \in {"hangup", "notice"} /\ e.phase # "ended" -> open(e)

receivable(s, e, o) ==
    CASE o.kind = "offer" -> e.phase = "none"
      [] o.kind = "answer" -> e.phase = "ringing"
      [] o.kind = "block" -> applicable(e, o.seq)
      [] o.kind \in {"hangup", "notice"} /\ e.phase = "ended" ->
           /\ s = "caller" /\ e.reason = "unpaid"
           /\ reason_of(o) = "hangup" \/ (reason_of(o) = "unpaid" /\ ~e.notice)
      [] o.kind \in {"hangup", "notice"} /\ e.phase # "ended" ->
           open(e) /\ ~(reason_of(o) = "unpaid" /\ media_admitted(e))

receive(e, o) ==
    CASE o.kind = "offer" -> [NoRow EXCEPT !.phase = "ringing", !.deadline = now + Ring]
      [] o.kind = "answer" -> answered(e)
      [] o.kind = "block" -> apply_block(e)
      [] o.kind \in {"hangup", "notice"} /\ e.phase = "ended" ->
           IF reason_of(o) = "unpaid" THEN [e EXCEPT !.notice = TRUE]
           ELSE [e EXCEPT !.pending = NoOp, !.reason = reason_of(o)]
      [] o.kind \in {"hangup", "notice"} /\ e.phase # "ended" ->
           [Ended(e, reason_of(o), now) EXCEPT
              !.notice = reason_of(o) = "unpaid",
              !.pending = IF reason_of(o) = "unpaid" THEN @ ELSE NoOp]

(***************************************************************************)
(* Sending: reserve, request the invoice, dispatch, settle.  Each action   *)
(* is one critical section under the node's call lock.                     *)
(***************************************************************************)
Init ==
    /\ now = 0
    /\ call = [s \in Sides |-> NoRow]
    /\ op = [o \in Ops |-> "idle"]
    /\ invoice = {}
    /\ seen = [o \in Ops |-> "no"]
    /\ grants = {}
    /\ acked = {}

\* The row as the rules see it now.
current(s) == at(call[s])

\* A retry that finds its own reservation writes nothing.
reserve_outgoing(o) ==
    /\ op[o] = "idle"
    /\ op' = [op EXCEPT ![o] = "reserved"]
    /\ can_reserve(current(o.by), o)
    /\ call' = [call EXCEPT ![o.by] = reserve(current(o.by), o)]
    /\ UNCHANGED <<now, invoice, seen, grants, acked>>

request_block_invoice(o) ==
    /\ o \in BlockOps \ invoice /\ op[o] = "reserved"
    /\ check_block(call["callee"], o.seq)
    /\ now + InvoiceMargin <= call["callee"].deadline
    /\ invoice' = invoice \cup {o}
    /\ UNCHANGED <<now, call, op, seen, grants, acked>>

\* The guards re-read the row right before the wallet is first polled.  A request
\* gives up (INVOICE_REQUEST_TIMEOUT) well before its reservation can lapse.
dispatch(o) ==
    /\ op[o] = "reserved"
    /\ o.kind = "block" =>
         /\ o \in invoice /\ o.seq < Cap /\ call["caller"].pending = o
         /\ check_block(call["caller"], o.seq)
         /\ now + DispatchMargin <= call["caller"].deadline
    /\ o.kind = "offer" =>
         /\ current("caller").phase \in {"reserved", "ringing"}
         /\ now + DispatchMargin <= current("caller").deadline
    /\ op' = [op EXCEPT ![o] = "paying"]
    /\ UNCHANGED <<now, call, invoice, seen, grants, acked>>

\* The payment settled: publish the transition, then queue the envelope.
settle_paid(o) ==
    /\ op[o] = "paying"
    /\ ~(call[o.by].pending = o /\ commit_refused(call[o.by], o))
    /\ op' = [op EXCEPT ![o] = "paid"]
    /\ call' = IF call[o.by].pending = o THEN [call EXCEPT ![o.by] = commit(o.by, @, o)] ELSE call
    /\ UNCHANGED <<now, invoice, seen, grants, acked>>

\* The handler stopped before it published the transition, or was refused: the
\* operation's reconciliation finds the payment and queues the envelope.
reconcile(o) ==
    /\ op[o] = "paying"
    /\ op' = [op EXCEPT ![o] = "paid"]
    /\ UNCHANGED <<now, call, invoice, seen, grants, acked>>

\* A sweep, a retry or a restart commits a reservation whose payment is on record.
settle_operation(o) ==
    /\ op[o] = "paid" /\ call[o.by].pending = o
    /\ ~commit_refused(call[o.by], o)
    /\ call' = [call EXCEPT ![o.by] = commit(o.by, @, o)]
    /\ UNCHANGED <<now, op, invoice, seen, grants, acked>>

\* Known not to be paid: never dispatched, cancelled by a crash, or refused.
settle_unpaid(o) ==
    /\ op[o] \in {"reserved", "paying"}
    /\ op' = [op EXCEPT ![o] = "idle"]
    /\ call' = [call EXCEPT ![o.by] = release(o.by, @, o)]
    /\ UNCHANGED <<now, invoice, seen, grants, acked>>

\* A definite payment failure, or a price above the held ceiling, ends the
\* call.  Without a hold only the reservation's own row is ended.  The row's end and
\* the settle that follows it are one step.
fail_outgoing(o) ==
    /\ o.kind \in {"offer", "block"} /\ op[o] \in {"reserved", "paying"}
    /\ op' = [op EXCEPT ![o] = IF @ = "paying" THEN "failed" ELSE "idle"]
    /\ LET e == release(o.by, call[o.by], o)
           r == IF call[o.by].phase = "ended" THEN e
                ELSE IF call[o.by].pending = o /\ op[o] = "paying"
                  THEN Ended([call[o.by] EXCEPT !.pending = NoOp], "failed", now)
                ELSE IF e.phase = "none" THEN e ELSE Ended(e, "failed", now)
       IN  call' = [call EXCEPT ![o.by] = r]
    /\ UNCHANGED <<now, invoice, seen, grants, acked>>

(***************************************************************************)
(* Receiving.  The envelope of a paid signal stays queued until it is      *)
(* acknowledged, so it is delivered late, again and out of order.          *)
(***************************************************************************)
admit_incoming(o) ==
    LET s == Other(o.by)
        e == current(s)
    IN  /\ op[o] = "paid" /\ seen[o] = "no"
        /\ IF receivable(s, e, o)
             THEN /\ call' = [call EXCEPT ![s] = receive(e, o)]
                  /\ seen' = [seen EXCEPT ![o] = "kept"]
             ELSE /\ seen' = [seen EXCEPT ![o] = "refused"]
                  /\ UNCHANGED call
        /\ grants' = IF o.kind = "block" /\ receivable(s, e, o)
                       THEN grants \cup {[op |-> o, until |-> receive(e, o).paidUntil]}
                       ELSE grants
        /\ UNCHANGED <<now, op, invoice, acked>>

\* A duplicate of a kept block repeats the grant while it is the latest one.
block_grant(o) ==
    LET e == call["callee"]
        latest == e.next = o.seq + 1 /\ ~(e.phase = "ended" /\ e.reason # "unpaid")
    IN  /\ o \in BlockOps \ acked /\ seen[o] = "kept"
        /\ grants' = grants \cup {[op |-> o, until |-> IF latest THEN e.paidUntil ELSE NoTime]}
        /\ UNCHANGED <<now, call, op, invoice, seen, acked>>

\* The boundary block seq was bought at, rebuilt when it is already committed.
pre_block_end(e, seq) ==
    IF e.next = seq THEN interval_end(e)
    ELSE (IF e.paidUntil = NoTime THEN interval_end(e) - Grace ELSE e.paidUntil)
           - Block + (IF seq = 0 THEN Initial ELSE Grace)

grant_usable(e, o, until) ==
    /\ resumable(e)
    /\ e.next \in {o.seq, o.seq + 1}
    /\ until <= pre_block_end(e, o.seq) + Resume + Block
    /\ until <= now + 2 * Block
    /\ e.paidUntil <= until

granted(e, o, until) ==
    [e EXCEPT !.phase = "live", !.reason = "none", !.notice = FALSE,
              !.paidUntil = until, !.next = o.seq + 1, !.deadline = until + Grace,
              !.pending = IF @ = o THEN NoOp ELSE @]

receive_block_grant(g) ==
    LET e == call["caller"]
    IN  /\ g \in grants /\ g.op \notin acked
        /\ acked' = acked \cup {g.op}
        /\ call' = IF g.until # NoTime /\ grant_usable(e, g.op, g.until)
                     THEN [call EXCEPT !["caller"] = granted(e, g.op, g.until)] ELSE call
        /\ UNCHANGED <<now, op, invoice, seen, grants>>

(***************************************************************************)
(* Maintenance.                                                            *)
(***************************************************************************)
Tick ==
    /\ now < MaxTime
    /\ now' = now + 1
    /\ UNCHANGED <<call, op, invoice, seen, grants, acked>>

expire_calls(s) ==
    LET e == call[s]
    IN  /\ e.phase = "live" /\ now > e.deadline
        /\ call' = [call EXCEPT ![s] = IF at(e) = NoRow THEN Ended(e, "unpaid", e.deadline)
                                       ELSE at(e)]
        /\ UNCHANGED <<now, op, invoice, seen, grants, acked>>

expire_call_caps ==
    LET e == call["caller"]
        until == e.paidUntil - (e.next - Cap) * Block
    IN  /\ e.phase = "live" /\ e.paidUntil # NoTime /\ e.next >= Cap
        /\ now >= until
        /\ call' = [call EXCEPT !["caller"] = Ended(e, "duration_cap", until)]
        /\ UNCHANGED <<now, op, invoice, seen, grants, acked>>

\* The replay sweep: unserviceable caller blocks, then rows past their tombstone.
call_sweep(s) ==
    LET e == call[s]
        replay == IF e.phase = "ended" THEN e.deadline ELSE e.deadline + Tombstone
        r == IF e.phase = "ended" /\ e.pending.kind = "block"
                  /\ (e.reason # "unpaid" \/ interval_end(e) + Resume < now)
               THEN [e EXCEPT !.pending = NoOp] ELSE e
        n == IF replay <= now /\ r.pending = NoOp THEN NoRow ELSE r
    IN  /\ e.phase # "none" /\ n # e
        /\ call' = [call EXCEPT ![s] = n]
        /\ UNCHANGED <<now, op, invoice, seen, grants, acked>>

Next ==
    \/ Tick
    \/ \E o \in Ops :
         \/ reserve_outgoing(o) \/ dispatch(o) \/ settle_paid(o) \/ reconcile(o)
         \/ settle_operation(o)
         \/ settle_unpaid(o) \/ fail_outgoing(o) \/ admit_incoming(o)
    \/ \E o \in BlockOps : request_block_invoice(o) \/ block_grant(o)
    \/ \E g \in grants : receive_block_grant(g)
    \/ \E s \in Sides : expire_calls(s) \/ call_sweep(s)
    \/ expire_call_caps

Spec == Init /\ [][Next]_vars

(***************************************************************************)
(* Properties.                                                             *)
(***************************************************************************)
\* The row of the call at each node, the operations, and what they leave behind.
TypeOK ==
    /\ now \in 0..MaxTime
    /\ call \in [Sides -> Rows]
    /\ \A o \in DOMAIN op : op[o] \in {"idle", "reserved", "paying", "paid", "failed"}
    /\ \A o \in DOMAIN seen : seen[o] \in {"no", "kept", "refused"}
    /\ invoice \subseteq BlockOps
    /\ \A g \in grants : g.op \in BlockOps /\ g.until \in Nat \cup {NoTime}
    /\ acked \subseteq BlockOps

\* At most one payment per block is in flight or settled.
ChargedOnce ==
    \A a, b \in BlockOps :
      a.seq = b.seq /\ op[a] \in {"paying", "paid"} /\ op[b] \in {"paying", "paid"} => a = b

\* The callee's credit never runs further ahead than one block and the lead.
CreditBounded ==
    \A s \in Sides : call[s].phase = "live" /\ call[s].paidUntil # NoTime =>
        call[s].paidUntil <= now + Block + Lead

\* A settled block is turned away only when it is too late or the call was ended.
Unservable(e) ==
    \/ ~resumable(e)
    \/ now > interval_end(e) + Resume
ServedStep ==
    \A o \in BlockOps : seen[o] = "no" /\ seen'[o] = "refused" => Unservable(call["callee"])
PaidIsServed == [][ServedStep]_vars

\* An unpaid notice never ends an interval that is paid for.
NoticeStep ==
    \A s \in Sides : media_admitted(call[s]) /\ call'[s].phase = "ended" /\ now' = now
        => call'[s].reason # "unpaid"
NoticeHarmless == [][NoticeStep]_vars

\* Once a node's own hangup is paid and published, or it took the peer's, the
\* call never is live again there.
HungUp(s) ==
    \E o \in Ops :
      /\ o.kind = "hangup"
      /\ IF o.by = s THEN op[o] = "paid" /\ call[s].pending # o ELSE seen[o] = "kept"
HangupFinal ==
    [][\A s \in Sides : HungUp(s) /\ call[s].phase = "ended" => call'[s].phase \in {"ended", "none"}]_vars
=============================================================================

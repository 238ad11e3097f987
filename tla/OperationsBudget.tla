--------------------------- MODULE OperationsBudget ---------------------------
(***************************************************************************)
(* The budget, the queue and the end of an operation in one process, for   *)
(* any number of executions, hashes and late writes: BudgetFollowsPayment, *)
(* QueueMatchesRow and TerminalStays.                                      *)
(*                                                                         *)
(* Unlike PaidOnce these rest on operation_lock, which only the programs   *)
(* of one process share: two processes could release a reservation in one  *)
(* while the other pays.  ensure_generation (safety.rs) holds an exclusive *)
(* lock on the data directory, so there is one; OneProcess says so.        *)
(***************************************************************************)
EXTENDS OperationsProofs

\* The lock on STATE_GENERATION.lock, taken before the storage is opened.
OneProcess == \A p, q \in Procs : p = q

-----------------------------------------------------------------------------
(* What the journal says of the reservations *)

Pays(e) == \E h \in Hashes : payer[h] = e /\ Live(h)
HasPaid(e) == \E h \in Hashes : payer[h] = e /\ wallet[h] = "settled"

\* Queued resolutions are true of their payments.
Sound(r) ==
    \A e \in Execs :
        /\ r.resolutions[e] = "zero" => ~Pays(e)
        /\ r.resolutions[e] = "paid" => HasPaid(e)
        /\ r.resolutions[e] # "none" => e \in execs

\* What may have been paid was paid by the execution of the row, and so is what
\* the row has reserved.
Attributed(r) ==
    /\ r.resv \in execs \cup {None}
    /\ r.exec # None => \A h \in Hashes : Live(h) => payer[h] = r.exec
    /\ r.exec = None => r.compacted \/ r.state \in Unpaid
    /\ r.resv # None /\ r.exec # None => r.resv = r.exec

\* A compacted receipt has accounted for its payment: what the sweep has listed
\* since paid nothing.
Receipted(r) ==
    r.compacted =>
        /\ r.resv = None
        /\ \A e \in Execs : r.resolutions[e] \in {"none", "zero"}
        /\ \A p \in Procs : \A e \in links[p] : ~Pays(e)

\* A reservation that may have to be charged is not forgotten.
Accounted(r) ==
    \A e \in Execs : Pays(e) /\ ledger[e] = "reserved" =>
        r.resv = e \/ r.resolutions[e] \in {"paid", "unknown"}

Accounts(r) == Sound(r) /\ Attributed(r) /\ Receipted(r) /\ Accounted(r)

\* A worker before the dispatch intent; with a reservation; with it on the row.
Before   == {"reserve", "attach_debit", "draft", "keysend", "invoice"}
Metered  == {"attach_debit", "draft", "keysend", "invoice"} \cup Asking
Attached == {"draft", "keysend", "invoice"} \cup Asking

\* What a paying worker knows of the row and of its reservation.
Paying(me, r) ==
    /\ r.resolutions[me.ex] = "none"
    /\ me.pc \in Before => r.exec = me.ex /\ ~r.dispatched
    /\ me.pc \in Before \cup Asking \cup Called => Unresolved(r)
    /\ me.pc = "reserve" => ledger[me.ex] = "none"
    /\ me.pc \in Metered => me.caller = "client" \/ ledger[me.ex] = "none"
    /\ me.pc \in Attached /\ me.caller = "client" => r.resv = me.ex
    /\ me.pc \in Asking \cup Called => payer[me.pay] = me.ex
    /\ me.pc \in {"materialize", "resend", "sending"} => HasPaid(me.ex)
    /\ me.pc = "debit" /\ me.err \in {"ok", "proof"} => HasPaid(me.ex)
    /\ me.pc = "debit" /\ me.err = "other" => ~Pays(me.ex)

\* What the copy of a reader says, also when it is old.
Reads(me) ==
    /\ me.pc \in Reading => Sound(me.op)
    /\ me.pc = "abandoned" => me.op.state = "abandoned"
    /\ me.pc = "drained" => \A e \in Drainable(me.op) : ledger[e] # "reserved"

Known == (\A e \in Execs : ledger[e] # "none" => e \in execs) /\ \A p \in Procs : links[p] \subseteq execs

AccountInv ==
    /\ BudgetFollowsPayment /\ Known
    /\ \A r \in AllRows : Accounts(r)
    /\ \A p \in Procs : proc[p].ex # None => late = {} /\ row \in Rows /\ Paying(proc[p], row)
    /\ \A p \in Procs : Reads(proc[p])

-----------------------------------------------------------------------------
(* Steps that keep the accounts *)

\* No payment begins, none is forgotten, and no live one gets a reservation.
Quieter ==
    /\ \A h \in Hashes : wallet'[h] \in {"transit", "inflight", "settled"} => Live(h)
    /\ \A h \in Hashes : wallet[h] = "settled" => wallet'[h] = "settled"
    /\ \A h \in Hashes : Live(h) => payer'[h] = payer[h]
    /\ \A e \in Execs : Pays(e) /\ ledger'[e] = "reserved" => ledger[e] = "reserved"
    /\ execs \subseteq execs' /\ links' = links

LEMMA PaysLess ==
    ASSUME Quieter, NEW e
    PROVE  (Pays(e)' => Pays(e)) /\ (HasPaid(e) => HasPaid(e)')
<1>1. Pays(e)' => Pays(e)
  BY Zenon DEF Quieter, Pays, Live
<1>2. HasPaid(e) => HasPaid(e)'
  BY Zenon DEF Quieter, HasPaid, Live
<1> QED BY <1>1, <1>2, Zenon

\* The books of a given row stay true.
LEMMA AccountsKept ==
    ASSUME Quieter, NEW r
    PROVE  (Sound(r) => Sound(r)') /\ (Accounts(r) => Accounts(r)')
<1>1. Sound(r) => Sound(r)'
  BY PaysLess, Zenon DEF Sound, Quieter
<1>2. Attributed(r) => Attributed(r)'
  BY Zenon DEF Attributed, Quieter, Live
<1>3. Receipted(r) => Receipted(r)'
  BY PaysLess, Zenon DEF Receipted, Quieter
<1>4. Accounted(r) => Accounted(r)'
  BY PaysLess, Zenon DEF Accounted, Quieter
<1> QED BY <1>1, <1>2, <1>3, <1>4, Zenon DEF Accounts

\* Rows are added that keep their books, and every program knows what it must.
LEMMA AccountStep ==
    ASSUME AccountInv, Quieter, \A r \in AllRows' : r \in AllRows \/ Accounts(r),
           BudgetFollowsPayment', Known',
           \A q \in Procs : proc'[q].ex # None => late' = {} /\ row' \in Rows /\ Paying(proc[q], row)',
           \A q \in Procs : Reads(proc[q])'
    PROVE  AccountInv'
<1>1. ASSUME NEW r \in AllRows' PROVE Accounts(r)'
  BY <1>1, AccountsKept, Zenon DEF AccountInv
<1> QED BY <1>1, Zenon DEF AccountInv

-----------------------------------------------------------------------------
(* The books of the rows that the handlers write *)

\* Fields that the books are about.
SameBooks(r, s) ==
    s.resv = r.resv /\ s.resolutions = r.resolutions /\ s.exec = r.exec /\ s.compacted = r.compacted

\* Fields that the delivery queue is about.
SameQueue(r, s) ==
    s.state = r.state /\ s.mid = r.mid /\ s.error = r.error /\ s.compacted = r.compacted

LEMMA BooksKept ==
    ASSUME NEW r, NEW s, Accounts(r), SameBooks(r, s), s.exec = None => s.compacted \/ s.state \in Unpaid
    PROVE  Accounts(s)
<1>1. Sound(s)
  BY Zenon DEF Accounts, Sound, SameBooks
<1>2. Attributed(s)
  BY Zenon DEF Accounts, Attributed, SameBooks
<1>3. Receipted(s)
  BY Zenon DEF Accounts, Receipted, SameBooks
<1>4. Accounted(s)
  BY Zenon DEF Accounts, Accounted, SameBooks
<1> QED BY <1>1, <1>2, <1>3, <1>4, Zenon DEF Accounts

\* Without a payment that may settle there is little to account for.
LEMMA NothingPaid ==
    ASSUME NoLive, NEW r, Sound(r), r.resv \in execs \cup {None},
           r.exec = None => r.compacted \/ r.state \in Unpaid,
           r.resv # None /\ r.exec # None => r.resv = r.exec,
           r.compacted => r.resv = None /\ \A e \in Execs : r.resolutions[e] \in {"none", "zero"}
    PROVE  Accounts(r)
<1>1. \A e : ~Pays(e)
  BY Zenon DEF Pays, NoLive
<1>2. Attributed(r)
  BY Zenon DEF Attributed, NoLive
<1>3. Receipted(r)
  BY <1>1, Zenon DEF Receipted
<1>4. Accounted(r)
  BY <1>1, Zenon DEF Accounted
<1> QED BY <1>2, <1>3, <1>4, Zenon DEF Accounts

\* queue_resolution: a true resolution of the reservation of the row.
LEMMA QueuedBooks ==
    ASSUME NEW r \in Rows, NEW a \in {"zero", "paid", "unknown"}, Accounts(r),
           r.resv # None /\ a = "zero" => ~Pays(r.resv), r.resv # None /\ a = "paid" => HasPaid(r.resv)
    PROVE  LET s == QueueMessageResolution(r, a) IN
           Accounts(s) /\ s \in Rows /\ SameQueue(r, s) /\ s.resv = r.resv /\ s.exec = r.exec
<1> DEFINE s == QueueMessageResolution(r, a)
<1>1. CASE s = r
  BY <1>1, Zenon DEF SameQueue
<1>2. CASE s # r
  <2>1. r.resv # None /\ s = [r EXCEPT !.resolutions[r.resv] = a] /\ r.resolutions[r.resv] \in {"none", "unknown"}
    BY <1>2, Zenon DEF QueueMessageResolution, QueueResolution
  <2>2. r.resv \in Execs /\ r.resolutions \in [Execs -> {"none", "zero", "paid", "unknown"}]
    BY <2>1, Zenon DEF Rows
  <2>3. s.resolutions = [r.resolutions EXCEPT ![r.resv] = a]
    BY <2>1, Zenon DEF Rows
  <2>4. /\ s \in Rows /\ s.resv = r.resv /\ s.exec = r.exec /\ s.compacted = r.compacted
        /\ SameQueue(r, s)
    <3>1. s \in Rows
      BY QueueType, Zenon
    <3> QED BY <2>1, <3>1, Zenon DEF Rows, SameQueue
  <2> HIDE DEF s
  <2>5. r.resv \in execs /\ ~r.compacted
    BY <2>1, Zenon DEF Accounts, Attributed, Receipted
  <2>6. Sound(s)
    <3> SUFFICES ASSUME NEW e \in Execs
                 PROVE  /\ s.resolutions[e] = "zero" => ~Pays(e)
                        /\ s.resolutions[e] = "paid" => HasPaid(e)
                        /\ s.resolutions[e] # "none" => e \in execs
      BY Zenon DEF Sound
    <3>1. CASE e = r.resv
      BY <2>1, <2>2, <2>3, <2>5, <3>1, Zenon
    <3>2. CASE e # r.resv
      BY <2>2, <2>3, <3>2, Zenon DEF Accounts, Sound
    <3> QED BY <3>1, <3>2, Zenon
  <2>7. Attributed(s)
    BY <2>4, Zenon DEF Accounts, Attributed, SameQueue
  <2>8. Receipted(s)
    BY <2>4, <2>5, Zenon DEF Receipted
  <2>9. Accounted(s)
    BY <2>2, <2>3, <2>4, Zenon DEF Accounts, Accounted
  <2>10. Accounts(s)
    BY <2>6, <2>7, <2>8, <2>9, Zenon DEF Accounts
  <2> QED BY <2>4, <2>10, Zenon DEF s
<1> QED BY <1>1, <1>2, Zenon

\* queue_resolution of reservations that paid nothing.
LEMMA QueuedAllBooks ==
    ASSUME NEW r \in Rows, NEW es, Accounts(r), \A e \in es : e \in execs /\ ~Pays(e)
    PROVE  LET s == QueueAll(r, es) IN
           Accounts(s) /\ s \in Rows /\ SameQueue(r, s) /\ s.resv = r.resv /\ s.exec = r.exec
<1> DEFINE s == QueueAll(r, es)
<1>1. /\ s \in Rows /\ s.resv = r.resv /\ s.exec = r.exec /\ s.compacted = r.compacted
      /\ s.state = r.state /\ s.mid = r.mid /\ s.error = r.error
      /\ \A e \in Execs : s.resolutions[e] = IF e \in es /\ r.resolutions[e] \in {"none", "unknown"}
                                             THEN "zero" ELSE r.resolutions[e]
  <2>1. s \in Rows
    BY QueueAllType, Zenon
  <2> QED BY <2>1, Zenon DEF Rows, QueueAll
<1> HIDE DEF s
<1>2. Sound(s)
  BY <1>1, Zenon DEF Accounts, Sound
<1>3. Attributed(s)
  BY <1>1, Zenon DEF Accounts, Attributed
<1>4. Receipted(s)
  BY <1>1, Zenon DEF Accounts, Receipted
<1>5. Accounted(s)
  BY <1>1, Zenon DEF Accounts, Accounted
<1>6. Accounts(s) /\ SameQueue(r, s)
  BY <1>1, <1>2, <1>3, <1>4, <1>5, Zenon DEF Accounts, SameQueue
<1> QED BY <1>1, <1>6, Zenon DEF s

\* attach_recovered: a reservation that the row did not know is its own.
LEMMA AttachedBooks ==
    ASSUME NEW r \in Rows, NEW v \in Execs, Accounts(r), v \in execs, r.resv = None, ~r.compacted,
           r.exec \in {None, v}
    PROVE  LET s == [r EXCEPT !.resv = v] IN
           Accounts(s) /\ s \in Rows /\ SameQueue(r, s)
<1> DEFINE s == [r EXCEPT !.resv = v]
<1>1. /\ s \in Rows /\ s.exec = r.exec /\ s.compacted = r.compacted /\ s.resolutions = r.resolutions
      /\ s.state = r.state /\ s.mid = r.mid /\ s.error = r.error /\ s.resv = v
  BY Zenon DEF Rows
<1> HIDE DEF s
<1>2. Sound(s)
  BY <1>1, Zenon DEF Accounts, Sound
<1>3. Attributed(s)
  BY <1>1, Zenon DEF Accounts, Attributed
<1>4. Receipted(s)
  BY <1>1, Zenon DEF Receipted
<1>5. Accounted(s)
  <2>1. \A e \in Execs : Pays(e) /\ ledger[e] = "reserved" => r.resolutions[e] \in {"paid", "unknown"}
    BY OperationsAssumption, Zenon DEF Accounts, Accounted
  <2> QED BY <1>1, <2>1, Zenon DEF Accounted
<1>6. Accounts(s) /\ SameQueue(r, s)
  BY <1>1, <1>2, <1>3, <1>4, <1>5, Zenon DEF Accounts, SameQueue
<1> QED BY <1>1, <1>6, Zenon DEF s

\* A recorded settlement is that of the execution which reserved.
LEMMA SettledPays ==
    ASSUME NEW r \in Rows, RowInv(r), Accounts(r), r.resv # None, Settled(r)
    PROVE  HasPaid(r.resv)
<1>1. Live(r.hash) /\ r.hash \in Hashes /\ ~NoLive
  BY SettledIsLive, Zenon
<1>2. ~r.compacted
  BY Zenon DEF Accounts, Receipted
<1>3. r.exec # None
  BY <1>1, <1>2, Zenon DEF Accounts, Attributed, RowInv
<1>4. payer[r.hash] = r.resv
  BY <1>1, <1>3, Zenon DEF Accounts, Attributed
<1> QED BY <1>1, <1>4, Zenon DEF HasPaid, Settled

LEMMA NothingLive == ASSUME NoLive, NEW e PROVE ~Pays(e)
BY Zenon DEF NoLive, Pays

-----------------------------------------------------------------------------
(* The queue *)

Queued == pend \in {"queued", "sent", "backoff"}
Terminal == {"acked", "abandoned"}

\* The queue is that of row r.  A failed entry is that of a row that stays failed.
Fits(r) ==
    /\ Queued => r.mid = msg /\ r.state \in Deliverable
    /\ r.state \in Deliverable /\ del = "no" => r.mid = msg /\ Queued
    /\ pend = "failed" => r.state = "failed_paid" /\ (r.compacted \/ r.error # "incomplete")

\* So is it of every update still queued in the SQL worker, and of the paid commit
\* once that has inserted its entry.
QueueInv ==
    /\ row = None => pend = "none"
    /\ row \in Rows => Fits(row)
    /\ \A w \in late : /\ w.commit => w.row.state = "paid" /\ pend = "none"
                       /\ ~w.commit => Fits(w.row)
                       /\ row.state \in Terminal => w.row.state = row.state

\* What TerminalStays says of a step.
Final == row \in Rows /\ row.state \in Terminal => row'.state = row.state

\* Both, and the journal's own invariant around them, in one process.
OneInv == TypeInv /\ Inv /\ AccountInv /\ QueueInv
Kept == AccountInv' /\ QueueInv' /\ Final

LEMMA FitsKept == ASSUME NEW r, NEW s, Fits(r), SameQueue(r, s) PROVE Fits(s)
BY Zenon DEF Fits, SameQueue

\* A row that was not paid has no entry.
LEMMA NotQueued ==
    ASSUME TypeInv, QueueInv, row \in Rows, row.state \notin Deliverable \cup {"failed_paid"}
    PROVE  pend = "none"
BY Zenon DEF TypeInv, OtherType, QueueInv, Fits, Queued

LEMMA UnqueuedFits == ASSUME pend = "none", NEW r, r.state \notin Deliverable PROVE Fits(r)
BY Zenon DEF Fits, Queued

LEMMA QueueStays ==
    ASSUME QueueInv, UNCHANGED <<row, late, delivery>>
    PROVE  QueueInv' /\ Final
<1>1. \A r : Fits(r) => Fits(r)'
  BY Zenon DEF Fits, Queued, delivery
<1>2. pend' = pend
  BY Zenon DEF delivery
<1>3. QueueInv'
  BY <1>1, <1>2, Zenon DEF QueueInv
<1> QED BY <1>3, Zenon DEF Final

\* A write of a row that fits the queue.
LEMMA QueueWrite ==
    ASSUME TypeInv, QueueInv, NEW p \in Procs, NEW r \in Rows, NEW local, Update(p, r, local), UNCHANGED delivery,
           row \in Rows, Fits(r), row.state \in Terminal => r.state = row.state
    PROVE  QueueInv' /\ Final
<1>1. \A s : Fits(s) => Fits(s)'
  BY Zenon DEF Fits, Queued, delivery
<1>2. pend' = pend /\ r # None
  BY NoRowAssumption, Zenon DEF delivery
<1>3. CASE Commit(p, r, local)
  <2>1. row' = r /\ late' = {}
    BY <1>3, Zenon DEF Commit
  <2> QED BY <1>1, <1>2, <2>1, Zenon DEF QueueInv, Final
<1>4. CASE Cancelled(p, r, FALSE)
  <2>1. row' = row /\ late' = late \cup {[row |-> r, commit |-> FALSE]}
    BY <1>4, Zenon DEF Cancelled
  <2>2. ASSUME NEW w \in late'
        PROVE  /\ w.commit => w.row.state = "paid" /\ pend = "none"
               /\ ~w.commit => Fits(w.row)
               /\ row.state \in Terminal => w.row.state = row.state
    <3>1. CASE w \in late
      BY <3>1, Zenon DEF QueueInv
    <3>2. CASE w = [row |-> r, commit |-> FALSE]
      <4>1. w.row = r /\ w.commit = FALSE
        BY <3>2, Zenon
      <4> QED BY <4>1, Zenon
    <3> QED BY <2>1, <2>2, <3>1, <3>2, Zenon
  <2>3. QueueInv'
    BY <1>1, <1>2, <2>1, <2>2, Zenon DEF QueueInv
  <2> QED BY <2>1, <2>3, Zenon DEF Final
<1> QED BY <1>3, <1>4, Zenon DEF Update

-----------------------------------------------------------------------------
(* Steps of the one process *)

LEMMA OneQuantified ==
    ASSUME OneProcess, NEW p \in Procs, NEW q \in Procs PROVE q = p
BY Zenon DEF OneProcess

\* Money and links stay: the books are about the row and the locals.
LEMMA QuietMoney ==
    ASSUME AccountInv, UNCHANGED <<links, money>>, execs \subseteq execs'
    PROVE  /\ Quieter /\ BudgetFollowsPayment' /\ Known'
           /\ \A m, r : Paying(m, r) => \A q : proc'[q] = m /\ row' = r => Paying(proc[q], row)'
           /\ \A m : Reads(m) => \A q : proc'[q] = m => Reads(proc[q])'
<1>1. Quieter
  BY Zenon DEF Quieter, money, Live
<1>2. BudgetFollowsPayment' /\ Known'
  BY Zenon DEF AccountInv, BudgetFollowsPayment, Known, money, Live
<1>3. ASSUME NEW m, NEW r, Paying(m, r), NEW q, proc'[q] = m, row' = r PROVE Paying(proc[q], row)'
  BY <1>3, Zenon DEF Paying, HasPaid, Pays, Live, Unresolved, money
<1>4. ASSUME NEW m, Reads(m), NEW q, proc'[q] = m PROVE Reads(proc[q])'
  <2>1. Sound(m.op) => Sound(m.op)'
    BY <1>1, AccountsKept, Zenon
  <2> QED BY <1>4, <2>1, Zenon DEF Reads, Drainable, money
<1> QED BY <1>1, <1>2, <1>3, <1>4, Zenon

\* A program moves on.
LEMMA AccountMove ==
    ASSUME OneProcess, TypeInv, AccountInv, NEW p \in Procs, NEW m, proc' = [proc EXCEPT ![p] = m],
           UNCHANGED <<row, late, links, money>>, execs \subseteq execs',
           m.ex # None => proc[p].ex # None /\ Paying(m, row), Reads(m)
    PROVE  AccountInv'
<1>1. proc'[p] = m
  BY Zenon DEF TypeInv, JournalType
<1>2. \A q \in Procs : Reads(proc[q])'
  BY <1>1, QuietMoney, OneQuantified, Zenon
<1>3. ASSUME NEW q \in Procs, proc'[q].ex # None PROVE late' = {} /\ row' \in Rows /\ Paying(proc[q], row)'
  <2>1. q = p
    BY OneQuantified, Zenon
  <2>2. proc[p].ex # None /\ Paying(m, row)
    BY <1>1, <1>3, <2>1, Zenon
  <2>3. late = {} /\ row \in Rows
    BY <2>2, Zenon DEF AccountInv
  <2> QED BY <1>1, <2>1, <2>2, <2>3, QuietMoney, Zenon
<1>4. AllRows' = AllRows
  BY Zenon DEF AllRows
<1> QED BY <1>2, <1>3, <1>4, QuietMoney, AccountStep, Zenon

\* A write of r; a cancelled one ends the program.
LEMMA AccountLands ==
    ASSUME OneProcess, TypeInv, AccountInv, NEW p \in Procs, NEW r \in Rows, NEW local \in Locals, NEW c \in BOOLEAN,
           Commit(p, r, local) \/ Cancelled(p, r, c), Quieter, BudgetFollowsPayment', Known', Accounts(r),
           local.ex # None /\ proc'[p] = Stored(local, r) /\ row' = r => Paying(proc[p], row)',
           local.ex = None => local.pc \notin {"abandoned", "drained"}
    PROVE  AccountInv'
<1>1. \A q \in Procs : q = p
  BY OneQuantified, Zenon
<1>2. Idle.ex = None /\ Idle.pc \notin Reading /\ Idle.pc \notin {"abandoned", "drained"}
  BY Zenon DEF Idle, Reading
<1>3. CASE Commit(p, r, local)
  <2>1. proc'[p] = Stored(local, r) /\ row' = r /\ late' = {}
    BY <1>3, Zenon DEF Commit, Stored, TypeInv, JournalType
  <2>2. Stored(local, r).ex = local.ex /\ Stored(local, r).pc = local.pc
    BY <1>2, Zenon DEF Stored, Locals, ProcTypes
  <2>3. local.ex = None /\ local # Idle => Stored(local, r).op = r
    BY Zenon DEF Stored, Locals, ProcTypes
  <2>4. AllRows' = {r}
    BY <2>1, Zenon DEF AllRows
  <2>5. Sound(r)'
    BY AccountsKept, Zenon DEF Accounts
  <2>6. local.pc \in Reading => local.ex = None
    BY Zenon DEF Locals
  <2>7. local.ex # None => local.pc \notin {"abandoned", "drained"}
    BY <2>6, Zenon DEF Reading
  <2>8. Reads(proc[p])'
    <3>1. CASE local = Idle
      BY <1>2, <2>1, <3>1, Zenon DEF Reads, Stored
    <3>2. CASE local # Idle
      BY <2>1, <2>2, <2>3, <2>5, <2>6, <2>7, <3>2, Zenon DEF Reads
    <3> QED BY <3>1, <3>2, Zenon
  <2>9. proc'[p].ex # None => late' = {} /\ row' \in Rows /\ Paying(proc[p], row)'
    BY <2>1, <2>2, Zenon
  <2> QED BY <1>1, <2>4, <2>8, <2>9, AccountStep, Zenon
<1>4. CASE Cancelled(p, r, c)
  <2>1. proc'[p] = Idle /\ row' = row /\ late' = late \cup {[row |-> r, commit |-> c]}
    BY <1>4, Zenon DEF Cancelled, Finish, TypeInv, JournalType
  <2>2. \A s \in AllRows' : s \in AllRows \/ s = r
    <3>1. \A w \in late' : w \in late \/ w.row = r
      BY <2>1, SMT
    <3> QED BY <2>1, <3>1, Zenon DEF AllRows
  <2>3. Reads(proc[p])' /\ proc'[p].ex = None
    BY <1>2, <2>1, Zenon DEF Reads
  <2> QED BY <1>1, <2>2, <2>3, AccountStep, Zenon
<1> QED BY <1>3, <1>4, Zenon

LEMMA AccountWrite ==
    ASSUME OneProcess, TypeInv, AccountInv, NEW p \in Procs, NEW r \in Rows, NEW local \in Locals, NEW c \in BOOLEAN,
           Commit(p, r, local) \/ Cancelled(p, r, c), UNCHANGED <<links, money>>, execs \subseteq execs', Accounts(r),
           local.ex # None => Paying(local, r), local.ex = None => local.pc \notin {"abandoned", "drained"}
    PROVE  AccountInv'
<1>1. Quieter /\ BudgetFollowsPayment' /\ Known'
  BY QuietMoney, Zenon
<1>2. local.ex # None => Paying(Stored(local, r), r)
  <2>1. /\ Stored(local, r).ex = local.ex /\ Stored(local, r).pc = local.pc /\ Stored(local, r).caller = local.caller
        /\ Stored(local, r).pay = local.pay /\ Stored(local, r).err = local.err
    BY Zenon DEF Stored, Locals, ProcTypes
  <2> QED BY <2>1, Zenon DEF Paying
<1>3. local.ex # None /\ proc'[p] = Stored(local, r) /\ row' = r => Paying(proc[p], row)'
  BY <1>2, QuietMoney, Zenon
<1> QED BY <1>1, <1>3, AccountLands, Zenon

LEMMA OneWrite ==
    ASSUME OneProcess, OneInv, NEW p \in Procs, row \in Rows, NEW r \in Rows, NEW local \in Locals,
           Update(p, r, local), UNCHANGED <<links, money, delivery>>, execs \subseteq execs', Accounts(r),
           Fits(r), row.state \in Terminal => r.state = row.state,
           local.ex # None => Paying(local, r), local.ex = None => local.pc \notin {"abandoned", "drained"}
    PROVE  Kept
<1>1. AccountInv'
  BY AccountWrite, Zenon DEF OneInv, Update
<1>2. QueueInv' /\ Final
  BY QueueWrite, Zenon DEF OneInv
<1> QED BY <1>1, <1>2, Zenon DEF Kept

LEMMA OneMove ==
    ASSUME OneProcess, OneInv, NEW p \in Procs, NEW m, proc' = [proc EXCEPT ![p] = m],
           UNCHANGED <<row, late, links, money, delivery, execs>>,
           m.ex # None => proc[p].ex # None /\ Paying(m, row), Reads(m)
    PROVE  Kept
<1>1. AccountInv'
  BY AccountMove, Zenon DEF OneInv
<1>2. QueueInv' /\ Final
  BY QueueStays, Zenon DEF OneInv
<1> QED BY <1>1, <1>2, Zenon DEF Kept

LEMMA IdleReads == Reads(Idle) /\ Idle.ex = None /\ Idle.pc \notin {"abandoned", "drained"} /\ Idle \in Locals
BY IdleType, Zenon DEF Idle, Reads, Reading

LEMMA OneFinish ==
    ASSUME OneProcess, OneInv, NEW p \in Procs, Finish(p), UNCHANGED <<row, late, links, money, delivery, execs>>
    PROVE  Kept
BY OneMove, IdleReads, Zenon DEF Finish

-----------------------------------------------------------------------------
(* Readers: programs that work on their copy of the row *)

LEMMA ReaderLocals ==
    ASSUME OneInv, NEW p \in Procs, proc[p].pc \in Reading
    PROVE  /\ proc[p] \in Locals /\ proc[p].ex = None /\ proc[p].op \in Rows /\ proc[p].next \in Resumes
           /\ Reads(proc[p]) /\ Sound(proc[p].op)
           /\ p \in current => /\ row \in Rows /\ proc[p].op = row /\ Accounts(row) /\ RowInv(row) /\ Fits(row)
                               /\ Copy(proc[p], row)
<1>1. proc[p] \in Locals /\ proc[p].ex = None /\ proc[p].op \in Rows /\ proc[p].next \in Resumes
  BY Zenon DEF OneInv, TypeInv, JournalType, Locals
<1>2. Reads(proc[p]) /\ Sound(proc[p].op)
  BY Zenon DEF OneInv, AccountInv, Reads
<1>3. p \in current => row \in Rows /\ proc[p].op = row /\ RowInv(row) /\ row \in AllRows /\ Copy(proc[p], row)
  BY CurrentCopy, Zenon DEF OneInv
<1> QED BY <1>1, <1>2, <1>3, Zenon DEF OneInv, AccountInv, QueueInv

\* m are the locals of a reader that goes on at l.
GoesOn(me, m, l) == m \in Locals /\ m.ex = None /\ m.pc = l /\ m.op = me.op /\ Reads(m)

LEMMA ReaderNext ==
    ASSUME OneInv, NEW p \in Procs, proc[p].pc \in Reading, NEW l \in Reading, l \notin {"abandoned", "drained"},
           NEW n \in Resumes
    PROVE  GoesOn(proc[p], [proc[p] EXCEPT !.pc = l, !.next = n], l)
<1> DEFINE m == [proc[p] EXCEPT !.pc = l, !.next = n]
<1>1. proc[p] \in Locals /\ proc[p].ex = None /\ Sound(proc[p].op)
  BY ReaderLocals, Zenon
<1>2. m \in Locals /\ m.op = proc[p].op
  BY <1>1, ReaderType, Zenon
<1>3. m.pc = l
  BY <1>1, Zenon DEF Locals, ProcTypes
<1>4. m.ex = None
  BY <1>2, <1>3, Zenon DEF Locals
<1> HIDE DEF m
<1>5. Reads(m)
  BY <1>1, <1>2, <1>3, Zenon DEF Reads
<1>6. GoesOn(proc[p], m, l)
  BY <1>2, <1>3, <1>4, <1>5, Zenon DEF GoesOn
<1> QED BY <1>6, Zenon DEF m

LEMMA ReaderReads ==
    ASSUME OneInv, NEW p \in Procs, proc[p].pc \in Reading, NEW l \in Reading, l \notin {"abandoned", "drained"}
    PROVE  LET m == [proc[p] EXCEPT !.pc = l] IN
           m \in Locals /\ m.ex = None /\ m.pc = l /\ m.op = proc[p].op /\ Reads(m)
<1> DEFINE m == [proc[p] EXCEPT !.pc = l]
<1>1. proc[p] \in Locals /\ proc[p].ex = None /\ Sound(proc[p].op) /\ "idle" \in Resumes
  BY ReaderLocals, Zenon DEF Resumes
<1>2. m \in Locals /\ m.op = proc[p].op
  BY <1>1, ReaderType, Zenon
<1>3. m.pc = l
  BY <1>1, Zenon DEF Locals, ProcTypes
<1>4. m.ex = None
  BY <1>2, <1>3, Zenon DEF Locals
<1> HIDE DEF m
<1>5. Reads(m)
  BY <1>1, <1>2, <1>3, Zenon DEF Reads
<1> QED BY <1>2, <1>3, <1>4, <1>5, Zenon DEF m

\* A reader saves its copy, which is current.
LEMMA OneSave ==
    ASSUME OneProcess, OneInv, NEW p \in Procs, proc[p].pc \in Reading, NEW r \in Rows, NEW local \in Locals,
           Save(p, r, local), UNCHANGED <<links, execs, money, delivery>>, Accounts(r), Fits(r),
           row.state \in Terminal => r.state = row.state,
           local.ex = None, local.pc \notin {"abandoned", "drained"}
    PROVE  Kept
<1>1. row \in Rows /\ Update(p, r, local)
  BY ReaderLocals, Zenon DEF Save
<1> QED BY <1>1, OneWrite, Zenon

\* recover_budget, drain_resolutions: the ledger follows the journal.
LEMMA BudgetKept == \A p \in Procs : OneProcess /\ OneInv /\ Budget(p) => Kept
\* drain_resolutions: what the ledger has resolved may be forgotten.
<1>DrainedBooks.
    ASSUME NEW r \in Rows, Accounts(r), \A e \in Drainable(r) : ledger[e] # "reserved"
    PROVE  LET s == DrainedRow(r) IN
           Accounts(s) /\ s \in Rows /\ SameQueue(r, s)
  <2> USE <1>DrainedBooks
  <2> DEFINE s == DrainedRow(r)
  <2>1. /\ s \in Rows /\ s.exec = r.exec /\ s.compacted = r.compacted
        /\ s.state = r.state /\ s.mid = r.mid /\ s.error = r.error
        /\ s.resv = IF r.resv \in Drainable(r) THEN None ELSE r.resv
        /\ \A e \in Execs : s.resolutions[e] = IF e \in Drainable(r) THEN "none" ELSE r.resolutions[e]
    <3>1. s \in Rows
      BY DrainedRowType, Zenon
    <3> QED BY <3>1, Zenon DEF Rows, DrainedRow
  <2> HIDE DEF s
  <2>2. Sound(s)
    BY <2>1, Zenon DEF Accounts, Sound
  <2>3. Attributed(s)
    BY <2>1, Zenon DEF Accounts, Attributed
  <2>4. Receipted(s)
    BY <2>1, Zenon DEF Accounts, Receipted
  <2>5. Accounted(s)
    BY <2>1, Zenon DEF Accounts, Accounted
  <2>6. Accounts(s) /\ SameQueue(r, s)
    BY <2>1, <2>2, <2>3, <2>4, <2>5, Zenon DEF Accounts, SameQueue
  <2> QED BY <2>1, <2>6, Zenon DEF s

\* recover_budget.
<1>BudgetBooks.
    ASSUME NEW r \in Rows, RowInv(r), Accounts(r)
    PROVE  LET s == BudgetRow(r) IN
           Accounts(s) /\ s \in Rows /\ SameQueue(r, s)
  <2> USE <1>BudgetBooks
  <2>1. CASE SettlementMatches(r)
    <3>1. Settled(r)
      BY <2>1, Zenon DEF SettlementMatches, RowInv, Truth, Settled
    <3>2. BudgetRow(r) = QueueMessageResolution(r, Actual(r.settlement))
      BY <2>1, Zenon DEF BudgetRow
    <3>3. r.resv # None => HasPaid(r.resv)
      BY <3>1, SettledPays, Zenon
    <3>4. Actual(r.settlement) \in {"zero", "paid", "unknown"} /\ Actual(r.settlement) # "zero"
      BY Zenon DEF Actual
    <3> HIDE DEF Actual
    <3> QED BY <3>2, <3>3, <3>4, QueuedBooks, Zenon
  <2>2. CASE ~SettlementMatches(r) /\ (r.state = "released" \/ (~r.dispatched /\ ~r.ready))
    <3>1. BudgetRow(r) = QueueMessageResolution(r, "zero")
      BY <2>2, Zenon DEF BudgetRow
    <3>2. r.resv # None => NoLive
      BY <2>2, Zenon DEF Accounts, Receipted, RowInv, NoLive, Covers, Unpaid
    <3>3. r.resv # None => ~Pays(r.resv)
      BY <3>2, NothingLive, Zenon
    <3> QED BY <3>1, <3>3, QueuedBooks, Zenon
  <2>3. CASE ~SettlementMatches(r) /\ ~(r.state = "released" \/ (~r.dispatched /\ ~r.ready))
    <3>1. BudgetRow(r) = r
      BY <2>3, Zenon DEF BudgetRow
    <3> QED BY <3>1, Zenon DEF SameQueue
  <2> QED BY <2>1, <2>2, <2>3, Zenon

<1>ResumedReads.
    ASSUME OneInv, NEW p \in Procs, proc[p].pc \in Reading
    PROVE  /\ Resumed(p) \in Locals /\ Resumed(p).ex = None /\ Reads(Resumed(p))
           /\ Resumed(p).pc \notin {"abandoned", "drained"}
           /\ Returns(p) => proc' = [proc EXCEPT ![p] = Resumed(p)]
  <2> USE <1>ResumedReads
  <2>1. proc[p].next \in Resumes
    BY ReaderLocals, Zenon
  <2>2. proc[p].next # "idle" => proc[p].next \in Reading /\ proc[p].next \notin {"abandoned", "drained"}
    BY <2>1, Zenon DEF Resumes, Reading
  <2>3. CASE proc[p].next = "idle"
    BY <2>3, IdleReads, Zenon DEF Resumed, Returns, Finish
  <2>4. CASE proc[p].next # "idle"
    <3>1. Resumed(p) = [proc[p] EXCEPT !.pc = proc[p].next]
      BY <2>4, Zenon DEF Resumed
    <3>2. Returns(p) => proc' = [proc EXCEPT ![p] = Resumed(p)]
      BY <2>4, <3>1, Zenon DEF Returns, Goto
    <3> DEFINE m == [proc[p] EXCEPT !.pc = proc[p].next]
    <3>3. m \in Locals /\ m.ex = None /\ m.pc = proc[p].next /\ Reads(m)
      BY <2>1, <2>2, <2>4, ReaderReads, Zenon
    <3> HIDE DEF m
    <3>4. Resumed(p) = m
      BY <3>1, Zenon DEF m
    <3> QED BY <2>2, <2>4, <3>2, <3>3, <3>4, Zenon
  <2> QED BY <2>3, <2>4, Zenon
<1> SUFFICES ASSUME OneProcess, OneInv, NEW p \in Procs, Budget(p) PROVE Kept
  BY Zenon
<1> DEFINE me == proc[p]
<1>0. me.pc \in Reading
  BY Zenon DEF Budget, RecoverBudget, Drain, Drained, Reading
<1>1. /\ me.op \in Rows /\ Reads(me) /\ Sound(me.op) /\ me.ex = None
      /\ p \in current => row \in Rows /\ me.op = row /\ Accounts(row) /\ RowInv(row) /\ Fits(row)
  BY <1>0, ReaderLocals, Zenon
<1>2. CASE RecoverBudget(p)
  <2>0. UNCHANGED <<links, execs, money, delivery>>
    BY <1>2, Zenon DEF RecoverBudget
  <2> DEFINE m == [me EXCEPT !.pc = "drain"]
  <2>1. m \in Locals /\ m.ex = None /\ m.pc = "drain" /\ Reads(m)
    <3>1. "drain" \in Reading
      BY Zenon DEF Reading
    <3> QED BY <1>0, <3>1, ReaderReads, Zenon
  <2>2. CASE Returns(p) /\ UNCHANGED <<row, late>>
    BY <1>0, <2>0, <2>2, <1>ResumedReads, OneMove, Zenon
  <2>3. CASE Goto(p, "drain") /\ UNCHANGED journal
    <3>1. proc' = [proc EXCEPT ![p] = m]
      BY <2>3, Zenon DEF Goto
    <3> HIDE DEF m
    <3> QED BY <2>0, <2>1, <2>3, <3>1, OneMove, Zenon DEF journal
  <2>4. CASE Save(p, BudgetRow(me.op), m)
    <3>1. p \in current /\ me.op = row
      BY <1>1, <2>4, Zenon DEF Save
    <3>2. Accounts(BudgetRow(row)) /\ BudgetRow(row) \in Rows /\ SameQueue(row, BudgetRow(row))
      BY <1>1, <3>1, <1>BudgetBooks, Zenon
    <3>3. Fits(BudgetRow(row)) /\ BudgetRow(row).state = row.state
      BY <1>1, <3>1, <3>2, FitsKept, Zenon DEF SameQueue
    <3> HIDE DEF m
    <3>4. Save(p, BudgetRow(row), m) /\ m.pc \notin {"abandoned", "drained"}
      BY <2>1, <2>4, <3>1, Zenon
    <3> QED BY <1>0, <2>0, <2>1, <3>2, <3>3, <3>4, OneSave, Zenon
  <2> QED BY <1>2, <2>2, <2>3, <2>4, Zenon DEF RecoverBudget
<1>3. CASE Drain(p)
  <2> DEFINE m == IF Drainable(me.op) = {} THEN Resumed(p) ELSE [me EXCEPT !.pc = "drained"]
  <2>1. UNCHANGED <<row, late, links, execs, wallet, payer, delivery>>
    BY <1>3, Zenon DEF Drain
  <2>2. \A e \in Execs : ledger'[e] =
          CASE e \in Drainable(me.op) /\ ledger[e] = "reserved" /\ me.op.resolutions[e] = "zero" -> "released"
            [] e \in Drainable(me.op) /\ ledger[e] = "reserved" /\ me.op.resolutions[e] = "paid" -> "charged"
            [] OTHER -> ledger[e]
    BY <1>3, Zenon DEF Drain, Resolved, OneInv, TypeInv, OtherType
  <2>3. \A e \in Execs : /\ ledger'[e] = "reserved" => ledger[e] = "reserved" /\ e \notin Drainable(me.op)
                         /\ ledger'[e] # "none" => ledger[e] # "none"
                         /\ ledger'[e] = "released" => ledger[e] = "released" \/ ~Pays(e)
                         /\ ledger'[e] = "charged" => ledger[e] = "charged" \/ HasPaid(e)
    BY <1>1, <2>2, Zenon DEF Drainable, Sound
  <2>4. Quieter
    BY <2>1, <2>3, Zenon DEF Quieter, Live
  <2>5. BudgetFollowsPayment' /\ Known'
    BY <2>1, <2>3, Zenon DEF OneInv, AccountInv, BudgetFollowsPayment, Known, Pays, HasPaid, Live
  <2>6. proc' = [proc EXCEPT ![p] = m]
    BY <1>0, <1>3, <1>ResumedReads, Zenon DEF Drain, Goto
  <2>7. /\ m.ex = None /\ (m.pc \in Reading => Sound(m.op)) /\ m.pc # "abandoned"
        /\ m.pc = "drained" => m.op = me.op
    <3>1. CASE Drainable(me.op) = {}
      BY <1>0, <3>1, <1>ResumedReads, Zenon DEF Reads
    <3>2. CASE Drainable(me.op) # {}
      BY <1>0, <1>1, <3>2, ReaderLocals, Zenon DEF Locals, ProcTypes
    <3> QED BY <3>1, <3>2, Zenon
  <2>8. PICK k : k = m /\ proc'[p] = k
    BY <2>6, Zenon DEF OneInv, TypeInv, JournalType
  <2> HIDE DEF m
  <2>9. Reads(proc[p])' /\ proc'[p].ex = None
    <3>1. k.pc \in Reading => Sound(k.op)'
      BY <2>4, <2>7, <2>8, AccountsKept, Zenon
    <3>2. k.pc = "drained" => \A e \in Drainable(k.op) : ledger'[e] # "reserved"
      BY <2>3, <2>7, <2>8, Zenon DEF Drainable
    <3> QED
      BY <2>7, <2>8, <3>1, <3>2, Zenon DEF Reads, Drainable
  <2>10. AllRows' = AllRows
    BY <2>1, Zenon DEF AllRows
  <2>11. AccountInv'
    BY <2>4, <2>5, <2>9, <2>10, AccountStep, OneQuantified, Zenon DEF OneInv
  <2> QED BY <2>1, <2>11, QueueStays, Zenon DEF OneInv, Kept
<1>4. CASE Drained(p)
  <2>1. p \in current /\ me.op = row /\ Save(p, DrainedRow(row), Resumed(p)) /\ me.pc = "drained"
    BY <1>1, <1>4, Zenon DEF Drained, Save
  <2>2. Accounts(DrainedRow(row)) /\ DrainedRow(row) \in Rows /\ SameQueue(row, DrainedRow(row))
    BY <1>1, <2>1, <1>DrainedBooks, Zenon DEF Reads
  <2>3. Fits(DrainedRow(row)) /\ DrainedRow(row).state = row.state
    BY <1>1, <2>1, <2>2, FitsKept, Zenon DEF SameQueue
  <2> QED BY <1>0, <1>4, <2>1, <2>2, <2>3, <1>ResumedReads, OneSave, Zenon DEF Drained
<1> QED BY <1>2, <1>3, <1>4, Zenon DEF Budget

-----------------------------------------------------------------------------
(* Operations that may have paid *)

LEMMA UnresolvedRow ==
    ASSUME OneInv, row \in Rows, Unresolved(row)
    PROVE  /\ row.state \notin Deliverable \cup {"failed_paid"} \cup Terminal
           /\ Accounts(row) /\ RowInv(row) /\ row.exec # None /\ ~row.compacted /\ pend = "none"
<1>1. row.state \notin Deliverable \cup {"failed_paid"} \cup Terminal \cup Closed \cup Unpaid
  BY Zenon DEF Unresolved, Deliverable, Terminal, Closed, Unpaid
<1>2. row \in AllRows
  BY Zenon DEF AllRows
<1>3. Accounts(row) /\ RowInv(row)
  BY <1>2, Zenon DEF OneInv, AccountInv, Inv, RowsInv
<1>4. ~row.compacted
  BY <1>1, <1>3, Zenon DEF RowInv
<1>5. row.exec # None
  BY <1>1, <1>3, <1>4, Zenon DEF Accounts, Attributed
<1>6. pend = "none"
  BY <1>1, NotQueued, Zenon DEF OneInv
<1> QED BY <1>1, <1>3, <1>4, <1>5, <1>6, Zenon

\* The paid commit inserts the envelope and its queue entry with the row.
LEMMA QueueMaterialize ==
    ASSUME OneInv, NEW p \in Procs, row \in Rows, Unresolved(row), NEW r \in Rows, NEW local, Materialize(p, r, local)
    PROVE  QueueInv' /\ Final
<1> DEFINE paid == [r EXCEPT !.state = "paid"]
<1>1. paid.state = "paid" /\ paid.mid = r.mid /\ paid # None
  <2>1. paid \in Rows
    BY ZenonT(60) DEF Rows, States
  <2> QED BY <2>1, NoRowAssumption, Zenon DEF Rows
<1>2. pend = "none" /\ row.state \notin Terminal
  BY UnresolvedRow, Zenon
<1>3. Materialize(p, r, local) => \/ Commit(p, paid, local) /\ msg' = r.mid /\ pend' = "queued" /\ del' = del
                                  \/ Cancelled(p, paid, TRUE) /\ UNCHANGED delivery
  BY <1>2, Zenon DEF Materialize, delivery
<1> HIDE DEF paid
<1>4. CASE Commit(p, paid, local) /\ msg' = r.mid /\ pend' = "queued" /\ del' = del
  <2>1. row' = paid /\ late' = {}
    BY <1>4, Zenon DEF Commit
  <2>2. Fits(row)'
    BY <1>1, <1>4, <2>1, Zenon DEF Fits, Queued, Deliverable
  <2> QED BY <1>1, <1>2, <2>1, <2>2, Zenon DEF QueueInv, Final
<1>5. CASE Cancelled(p, paid, TRUE) /\ UNCHANGED delivery
  <2>1. row' = row /\ late' = late \cup {[row |-> paid, commit |-> TRUE]} /\ pend' = pend
    BY <1>5, Zenon DEF Cancelled, delivery
  <2>2. \A s : Fits(s) => Fits(s)'
    BY <1>5, Zenon DEF Fits, Queued, delivery
  <2>3. ASSUME NEW w \in late'
        PROVE  /\ w.commit => w.row.state = "paid" /\ pend = "none"
               /\ ~w.commit => Fits(w.row)
               /\ row.state \in Terminal => w.row.state = row.state
    <3>1. CASE w \in late
      BY <3>1, Zenon DEF OneInv, QueueInv
    <3>2. CASE w = [row |-> paid, commit |-> TRUE]
      <4>1. w.row = paid /\ w.commit = TRUE
        BY <3>2, Zenon
      <4> QED BY <1>1, <1>2, <4>1, Zenon
    <3> QED BY <2>1, <2>3, <3>1, <3>2, Zenon
  <2>4. QueueInv'
    BY <2>1, <2>2, <2>3, Zenon DEF OneInv, QueueInv
  <2> QED BY <2>1, <2>4, Zenon DEF Final
<1> QED BY <1>3, <1>4, <1>5, Zenon

LEMMA OneMaterialize ==
    ASSUME OneProcess, OneInv, NEW p \in Procs, row \in Rows, Unresolved(row), NEW r \in Rows, NEW local \in Locals,
           Materialize(p, r, local), UNCHANGED <<links, execs, money>>, Accounts(r), r.exec # None,
           \A s : local.ex # None /\ SameBooks(r, s) => Paying(local, s),
           local.ex = None => local.pc \notin {"abandoned", "drained"}
    PROVE  Kept
<1> DEFINE paid == [r EXCEPT !.state = "paid"]
<1>1. paid \in Rows /\ SameBooks(r, paid) /\ paid.exec # None
  <2>1. paid \in Rows
    BY Zenon DEF Rows, States
  <2> QED BY <2>1, Zenon DEF Rows, SameBooks
<1>2. Commit(p, paid, local) \/ Cancelled(p, paid, TRUE)
  BY Zenon DEF Materialize
<1> HIDE DEF paid
<1>3. Accounts(paid)
  BY <1>1, BooksKept, Zenon
<1>4. AccountInv'
  BY <1>1, <1>2, <1>3, AccountWrite, Zenon DEF OneInv
<1> QED BY <1>4, QueueMaterialize, Zenon DEF Kept

LEMMA UnknownBooks ==
    ASSUME NEW r \in Rows, Accounts(r), r.exec # None, NEW e \in {"none", "incomplete", "other"}
    PROVE  /\ Accounts(Unknown(r)) /\ Unknown(r) \in Rows /\ Unknown(r).state = "payment_unknown"
           /\ LET s == [Unknown(r) EXCEPT !.error = e] IN Accounts(s) /\ s \in Rows /\ s.state = "payment_unknown"
<1> DEFINE u == Unknown(r)
           s == [u EXCEPT !.error = e]
<1>1. u \in Rows /\ SameBooks(r, u) /\ u.state = "payment_unknown"
  <2>1. u \in Rows
    BY Zenon DEF Unknown, Rows, States
  <2> QED BY <2>1, Zenon DEF Unknown, Rows, SameBooks
<1> HIDE DEF u
<1>2. s \in Rows /\ SameBooks(u, s) /\ s.state = "payment_unknown"
  BY <1>1, Zenon DEF Rows, SameBooks
<1> HIDE DEF s
<1>3. u.exec # None /\ s.exec # None
  BY <1>1, <1>2, Zenon DEF SameBooks
<1>4. Accounts(u)
  BY <1>1, <1>3, BooksKept, Zenon
<1>5. Accounts(s)
  BY <1>2, <1>3, <1>4, BooksKept, Zenon
<1> QED BY <1>1, <1>2, <1>4, <1>5, Zenon DEF u, s

LEMMA ReconcileKept == \A p \in Procs : OneProcess /\ OneInv /\ Reconcile(p) => Kept
\* reconcile saves a row that is not paid.
<1>UnresolvedSave.
    ASSUME OneProcess, OneInv, NEW p \in Procs, proc[p].pc \in Reading, Unresolved(row),
           NEW r \in Rows, r.state \notin Deliverable, Accounts(r), NEW local \in Locals, local.ex = None,
           local.pc \notin {"abandoned", "drained"}, Save(p, r, local), UNCHANGED <<links, execs, money, delivery>>
    PROVE  Kept
  <2> USE <1>UnresolvedSave
  <2>1. row \in Rows
    BY ReaderLocals, Zenon DEF Save
  <2>2. Fits(r) /\ row.state \notin Terminal
    BY <2>1, UnresolvedRow, UnqueuedFits, Zenon
  <2> QED BY <2>2, OneSave, Zenon

\* The rows that reconcile saves.
<1>EvidenceBooks.
    ASSUME NEW r \in Rows, Accounts(r), r.exec # None
    PROVE  WithEvidence(r) \in Rows /\ Accounts(WithEvidence(r)) /\ SameBooks(r, WithEvidence(r))
  <2> USE <1>EvidenceBooks
  <2>1. WithEvidence(r) \in Rows
    BY WithEvidenceType, Zenon
  <2>2. SameBooks(r, WithEvidence(r))
    BY <2>1, Zenon DEF WithEvidence, Rows, SameBooks
  <2>3. WithEvidence(r).exec # None
    BY <2>2, Zenon DEF SameBooks
  <2> QED BY <2>1, <2>2, <2>3, BooksKept, Zenon

<1>PreparedBooks.
    ASSUME NEW r \in Rows, Accounts(r), NoLive
    PROVE  LET s == [QueueMessageResolution(r, "zero") EXCEPT !.resv = None, !.exec = None, !.state = "prepared"] IN
           Accounts(s) /\ s \in Rows /\ s.state = "prepared"
  <2> USE <1>PreparedBooks
  <2> DEFINE z == QueueMessageResolution(r, "zero")
             s == [z EXCEPT !.resv = None, !.exec = None, !.state = "prepared"]
  <2>1. Accounts(z) /\ z \in Rows
    BY QueuedBooks, NothingLive, Zenon
  <2> HIDE DEF z
  <2>2. /\ s \in Rows /\ s.state = "prepared" /\ s.resv = None /\ s.exec = None
        /\ s.resolutions = z.resolutions /\ s.compacted = z.compacted
    BY <2>1, ZenonT(60) DEF Rows, States
  <2> HIDE DEF s
  <2>3. Sound(s)
    BY <2>1, <2>2, Zenon DEF Accounts, Sound
  <2>4. s.state \in Unpaid
    BY <2>2, Zenon DEF Unpaid
  <2>5. s.compacted => s.resv = None /\ \A e \in Execs : s.resolutions[e] \in {"none", "zero"}
    BY <2>1, <2>2, Zenon DEF Accounts, Receipted
  <2>6. Accounts(s)
    BY <2>2, <2>3, <2>4, <2>5, NothingPaid, Zenon
  <2> QED BY <2>2, <2>6, Zenon DEF s, z

<1>ReleasedBooks.
    ASSUME NEW r \in Rows, NEW d \in Details, Accounts(r), r.exec # None, NoLive
    PROVE  LET s == [QueueMessageResolution([r EXCEPT !.settlement = d], "zero") EXCEPT !.state = "released"] IN
           Accounts(s) /\ s \in Rows /\ s.state = "released"
  <2> USE <1>ReleasedBooks
  <2> DEFINE t == [r EXCEPT !.settlement = d]
             z == QueueMessageResolution(t, "zero")
             s == [z EXCEPT !.state = "released"]
  <2>1. t \in Rows /\ SameBooks(r, t)
    BY Zenon DEF Rows, SameBooks
  <2> HIDE DEF t
  <2>2. Accounts(t)
    BY <2>1, BooksKept, Zenon DEF SameBooks
  <2>3. Accounts(z) /\ z \in Rows
    BY <2>1, <2>2, QueuedBooks, NothingLive, Zenon
  <2> HIDE DEF z
  <2>4. s \in Rows /\ s.state = "released" /\ SameBooks(z, s)
    <3>1. "released" \in States
      BY Zenon DEF States
    <3> QED BY <2>3, <3>1, Zenon DEF Rows, SameBooks
  <2> HIDE DEF s
  <2>5. s.state \in Unpaid
    BY <2>4, Zenon DEF Unpaid
  <2>6. Accounts(s)
    BY <2>3, <2>4, <2>5, BooksKept, Zenon
  <2> QED BY <2>4, <2>6, Zenon DEF s, z, t

<1>SettledBooks.
    ASSUME NEW r \in Rows, NEW d \in Details, RowInv(r), Accounts(r), r.exec # None,
           Truth(d), d.status = "settled", Identified(d, r)
    PROVE  LET t == SettledRow(r, d) IN
           /\ Accounts(t) /\ t \in Rows /\ t.exec = r.exec
           /\ LET s == [t EXCEPT !.ready = TRUE] IN Accounts(s) /\ s \in Rows /\ s.exec = r.exec
  <2> USE <1>SettledBooks
  <2> DEFINE u == [r EXCEPT !.settled = TRUE, !.settlement = d]
             t == SettledRow(r, d)
             s == [t EXCEPT !.ready = TRUE]
  <2>0. r.resv # None => HasPaid(r.resv)
    <3>1. Settled(r)
      BY Zenon DEF Truth, Identified, Settled
    <3> QED BY <3>1, SettledPays, Zenon
  <2>1. u \in Rows /\ SameBooks(r, u)
    BY ZenonT(60) DEF Rows, SameBooks
  <2>2. t = QueueMessageResolution(u, Actual(d))
    BY Zenon DEF SettledRow
  <2> HIDE DEF u, t
  <2>3. u.exec = r.exec /\ u.resv = r.resv
    BY <2>1, Zenon DEF SameBooks
  <2>4. Accounts(u)
    BY <2>1, <2>3, BooksKept, Zenon
  <2>5. Actual(d) \in {"zero", "paid", "unknown"} /\ Actual(d) # "zero"
    BY Zenon DEF Actual
  <2>6. Accounts(t) /\ t \in Rows /\ t.exec = r.exec
    BY <2>0, <2>1, <2>2, <2>3, <2>4, <2>5, QueuedBooks, Zenon
  <2>7. s \in Rows /\ SameBooks(t, s)
    BY <2>6, Zenon DEF Rows, SameBooks
  <2> HIDE DEF s
  <2>8. s.exec = r.exec /\ Accounts(s)
    <3>1. s.exec = r.exec
      BY <2>6, <2>7, Zenon DEF SameBooks
    <3> QED BY <2>6, <2>7, <3>1, BooksKept, Zenon
  <2> QED BY <2>6, <2>7, <2>8, Zenon DEF s, t
<1> SUFFICES ASSUME OneProcess, OneInv, NEW p \in Procs, Reconcile(p) PROVE Kept
  BY Zenon
<1> DEFINE me == proc[p]
           r == WithEvidence(me.op)
           b == [me EXCEPT !.pc = Return(p)]
           dr == [me EXCEPT !.pc = "drain", !.next = Return(p)]
           bu == [me EXCEPT !.pc = "budget", !.next = Return(p)]
<1>0. me.pc \in {"reconcile", "apply"} /\ me.pc \in Reading
  <2>1. me.pc \in {"reconcile", "apply"}
    BY ZenonT(60) DEF Reconcile, ReconcileSkip, ReconcileUndispatched, ReconcileReady, ReconcileLookup,
           ApplyUnknown, ApplyFailed, ApplySettled
  <2> QED BY <2>1, Zenon DEF Reading
<1>1. /\ b \in Locals /\ b.ex = None /\ b.pc \notin {"abandoned", "drained"} /\ Reads(b)
      /\ dr \in Locals /\ dr.ex = None /\ dr.pc \notin {"abandoned", "drained"}
      /\ bu \in Locals /\ bu.ex = None /\ bu.pc \notin {"abandoned", "drained"}
  <2>1. /\ Return(p) \in Reading /\ Return(p) \notin {"abandoned", "drained"} /\ Return(p) \in Resumes
        /\ "drain" \in Reading /\ "drain" \notin {"abandoned", "drained"}
        /\ "budget" \in Reading /\ "budget" \notin {"abandoned", "drained"}
    BY Zenon DEF Return, Reading, Resumes
  <2>2. b \in Locals /\ b.ex = None /\ b.pc \notin {"abandoned", "drained"} /\ Reads(b)
    BY <1>0, <2>1, ReaderReads, Zenon
  <2>3. dr \in Locals /\ dr.ex = None /\ dr.pc \notin {"abandoned", "drained"}
    <3>1. GoesOn(me, dr, "drain")
      BY <1>0, <2>1, ReaderNext, Zenon
    <3> QED BY <2>1, <3>1, Zenon DEF GoesOn
  <2>4. bu \in Locals /\ bu.ex = None /\ bu.pc \notin {"abandoned", "drained"}
    <3>1. GoesOn(me, bu, "budget")
      BY <1>0, <2>1, ReaderNext, Zenon
    <3> QED BY <2>1, <3>1, Zenon DEF GoesOn
  <2> QED BY <2>2, <2>3, <2>4, Zenon
<1>2. Back(p) = b /\ Drains(p) = dr
  BY Zenon DEF Back, Drains
<1> HIDE DEF b, dr, bu
<1>3. ASSUME p \in current, Unresolved(r) \/ me.pc = "apply"
      PROVE  /\ me.op = row /\ row \in Rows /\ Unresolved(row) /\ Unresolved(r)
             /\ r \in Rows /\ Accounts(r) /\ RowInv(r) /\ r.exec # None /\ r.error \in {"none", "incomplete", "other"}
             /\ me.pc = "apply" => Truth(me.seen) /\ r.dispatched
             /\ me.seen \in Details
  <2>1. me.op = row /\ row \in Rows /\ Copy(me, row) /\ me.seen \in Details
    BY <1>0, <1>3, ReaderLocals, Zenon DEF Locals, ProcTypes
  <2>2. RowInv(row)
    BY <1>0, <1>3, ReaderLocals, Zenon
  <2>3. r \in Rows /\ RowInv(r) /\ r.state = row.state /\ r.dispatched = row.dispatched
    BY <2>1, <2>2, EvidenceRow, Zenon
  <2>4. Unresolved(row) /\ Unresolved(r)
    BY <1>3, <2>1, <2>3, Zenon DEF Copy, Unresolved
  <2>5. Accounts(row) /\ row.exec # None
    BY <2>1, <2>4, UnresolvedRow, Zenon
  <2>6. Accounts(r) /\ SameBooks(row, r)
    BY <2>1, <2>5, <1>EvidenceBooks, Zenon
  <2>7. me.pc = "apply" => Truth(me.seen) /\ r.dispatched
    BY <2>1, <2>3, Zenon DEF Copy
  <2> QED BY <2>1, <2>3, <2>4, <2>5, <2>6, <2>7, Zenon DEF SameBooks, Rows
<1> HIDE DEF r
<1>4. CASE ReconcileSkip(p)
  BY <1>1, <1>2, <1>4, OneMove, Zenon DEF ReconcileSkip, journal
<1>5. CASE ReconcileUndispatched(p)
  <2> DEFINE s == [QueueMessageResolution(r, "zero") EXCEPT !.resv = None, !.exec = None, !.state = "prepared"]
  <2>0. p \in current /\ Unresolved(r) /\ ~r.dispatched /\ UNCHANGED <<links, execs, money, delivery>>
    BY <1>5, Zenon DEF ReconcileUndispatched, Save, r
  <2>1. CASE Save(p, Unknown(r), b)
    <3>1. Unknown(r) \in Rows /\ Accounts(Unknown(r)) /\ Unknown(r).state \notin Deliverable
      BY <1>3, <2>0, UnknownBooks, Zenon DEF Deliverable
    <3> QED BY <1>0, <1>1, <1>3, <2>0, <2>1, <3>1, <1>UnresolvedSave, Zenon
  <2>2. CASE Save(p, s, dr)
    <3>1. NoLive
      BY <1>3, <2>0, UndispatchedNoLive, Zenon
    <3>2. s \in Rows /\ Accounts(s) /\ s.state = "prepared"
      BY <1>3, <2>0, <3>1, <1>PreparedBooks, Zenon
    <3> HIDE DEF s
    <3>3. s.state \notin Deliverable
      BY <3>2, Zenon DEF Deliverable
    <3> QED BY <1>0, <1>1, <1>3, <2>0, <2>2, <3>2, <3>3, <1>UnresolvedSave, Zenon
  <2> QED BY <1>2, <1>5, <2>1, <2>2, Zenon DEF ReconcileUndispatched, r
<1>6. CASE ReconcileReady(p)
  <2>1. p \in current /\ Unresolved(r) /\ UNCHANGED <<links, execs, money>> /\ Materialize(p, r, bu)
    BY <1>6, Zenon DEF ReconcileReady, Materialize, r, bu
  <2> QED BY <1>1, <1>3, <2>1, OneMaterialize, Zenon
<1>7. CASE ReconcileLookup(p)
  <2>1. PICK d \in Evidence(r) : proc' = [proc EXCEPT ![p].pc = "apply", ![p].seen = d]
    BY <1>7, ZenonT(60) DEF ReconcileLookup, r
  <2> DEFINE m == [me EXCEPT !.pc = "apply", !.seen = d]
  <2>2. m.ex = None /\ m.pc = "apply" /\ m.op = me.op
    BY <1>0, ReaderLocals, Zenon DEF Locals, ProcTypes
  <2>3. proc' = [proc EXCEPT ![p] = m]
    BY <2>1, ZenonT(60) DEF OneInv, TypeInv, JournalType
  <2> HIDE DEF m
  <2>4. Reads(m)
    BY <1>0, <2>2, ReaderLocals, Zenon DEF Reads
  <2> QED BY <1>7, <2>2, <2>3, <2>4, OneMove, Zenon DEF ReconcileLookup, journal
<1>8. CASE ApplyUnknown(p)
  <2> DEFINE e == IF me.seen.status \in {"none", "pending"} THEN Unknown(r).error ELSE "other"
             s == [Unknown(r) EXCEPT !.error = e]
  <2>1. p \in current /\ me.pc = "apply" /\ UNCHANGED <<links, execs, money, delivery>> /\ Save(p, s, b)
    BY <1>2, <1>8, Zenon DEF ApplyUnknown, Save, r
  <2>2. e \in {"none", "incomplete", "other"}
    <3>1. Unknown(r) \in Rows
      BY <1>3, <2>1, UnknownBooks, Zenon
    <3> QED BY <3>1, Zenon DEF Rows
  <2> HIDE DEF e
  <2>3. s \in Rows /\ Accounts(s) /\ s.state = "payment_unknown"
    BY <1>3, <2>1, <2>2, UnknownBooks, Zenon
  <2> HIDE DEF s
  <2>4. s.state \notin Deliverable
    BY <2>3, Zenon DEF Deliverable
  <2> QED BY <1>0, <1>1, <1>3, <2>1, <2>3, <2>4, <1>UnresolvedSave, Zenon
<1>9. CASE ApplyFailed(p)
  <2> DEFINE s == [QueueMessageResolution([r EXCEPT !.settlement = me.seen], "zero") EXCEPT !.state = "released"]
  <2>1. /\ p \in current /\ me.pc = "apply" /\ UNCHANGED <<links, execs, money, delivery>>
        /\ Save(p, s, dr) /\ me.seen.status = "failed" /\ Identified(me.seen, r) /\ ~r.settled
    BY <1>2, <1>9, Zenon DEF ApplyFailed, Save, r
  <2>2. NoLive
    BY <1>3, <2>1, ReleasedRow, Zenon
  <2>3. s \in Rows /\ Accounts(s) /\ s.state = "released"
    BY <1>3, <2>1, <2>2, <1>ReleasedBooks, Zenon
  <2> HIDE DEF s
  <2>4. s.state \notin Deliverable
    BY <2>3, Zenon DEF Deliverable
  <2> QED BY <1>0, <1>1, <1>3, <2>1, <2>3, <2>4, <1>UnresolvedSave, Zenon
<1>10. CASE ApplySettled(p)
  <2> DEFINE d == me.seen
             t == SettledRow(r, d)
             s == [t EXCEPT !.ready = TRUE]
             u == [Unknown(t) EXCEPT !.error = "incomplete"]
  <2>1. /\ me.pc = "apply" /\ d.status = "settled" /\ Identified(d, r) /\ UNCHANGED <<links, execs, money>>
        /\ Materialize(p, s, dr) \/ (Save(p, u, dr) /\ UNCHANGED delivery)
    BY <1>2, <1>10, Zenon DEF ApplySettled, r
  <2>2. p \in current
    BY <2>1, ZenonT(60) DEF Materialize, Save
  <2>3. Accounts(t) /\ t \in Rows /\ t.exec # None /\ Accounts(s) /\ s \in Rows /\ s.exec # None
    BY <1>3, <2>1, <2>2, <1>SettledBooks, Zenon
  <2> HIDE DEF t
  <2>4. CASE Materialize(p, s, dr)
    <3> HIDE DEF s
    <3> QED BY <1>1, <1>3, <2>1, <2>2, <2>3, <2>4, OneMaterialize, Zenon
  <2>5. CASE Save(p, u, dr) /\ UNCHANGED delivery
    <3>1. u \in Rows /\ Accounts(u) /\ u.state = "payment_unknown"
      BY <2>3, UnknownBooks, Zenon
    <3> HIDE DEF u
    <3>2. u.state \notin Deliverable
      BY <3>1, Zenon DEF Deliverable
    <3> QED BY <1>0, <1>1, <1>3, <2>1, <2>2, <2>5, <3>1, <3>2, <1>UnresolvedSave, Zenon
  <2> QED BY <2>1, <2>4, <2>5, Zenon
<1> QED BY <1>4, <1>5, <1>6, <1>7, <1>8, <1>9, <1>10, Zenon DEF Reconcile

-----------------------------------------------------------------------------
(* compose_locked up to the claim, abandon_operation *)

\* A program begins with the row as it is.
LEMMA LoadedReads ==
    ASSUME OneProcess, OneInv, NEW p \in Procs, row # None, NEW m, m.ex = None, m.op = row,
           m.pc # "drained", m.pc = "abandoned" => row.state = "abandoned",
           proc' = [proc EXCEPT ![p] = m], UNCHANGED <<row, late, links, execs, money, delivery>>
    PROVE  Kept
<1>1. row \in Rows /\ row \in AllRows
  BY Zenon DEF OneInv, TypeInv, JournalType, AllRows
<1>2. Sound(row)
  BY <1>1, Zenon DEF OneInv, AccountInv, Accounts
<1>3. Reads(m)
  BY <1>2, Zenon DEF Reads
<1> QED BY <1>3, OneMove, Zenon

LEMMA RequestKept == \A p \in Procs : OneProcess /\ OneInv /\ Request(p) => Kept
\* The first row of an operation.
<1>FirstRow.
    ASSUME OneProcess, OneInv, NEW p \in Procs, row = None, NEW c \in Callers, NEW r \in Rows,
           r = Prepared(c) \/ r = [Prepared(c) EXCEPT !.state = "abandoned"],
           NEW local \in Locals, Commit(p, r, local), UNCHANGED <<links, execs, money, delivery>>,
           local.ex = None, local.pc \notin {"abandoned", "drained"}
    PROVE  Kept
  <2> USE <1>FirstRow
  <2> DEFINE s == Prepared(c)
  <2>1. s \in Rows /\ s.exec = None /\ s.resv = None /\ ~s.compacted /\ s.state = "prepared"
        /\ s.resolutions = [e \in Execs |-> "none"]
    BY PreparedType, Zenon DEF Prepared
  <2> HIDE DEF s
  <2>2. /\ r.exec = None /\ r.resv = None /\ ~r.compacted /\ r.state \in {"prepared", "abandoned"}
        /\ r.resolutions = [e \in Execs |-> "none"]
    <3>1. r = s \/ r = [s EXCEPT !.state = "abandoned"]
      BY Zenon DEF s
    <3>2. CASE r = s
      BY <2>1, <3>2, Zenon
    <3>3. CASE r = [s EXCEPT !.state = "abandoned"]
      BY <2>1, <3>3, Zenon DEF Rows
    <3> QED BY <3>1, <3>2, <3>3, Zenon
  <2>3. r.state \in Unpaid /\ r.state \notin Deliverable /\ Sound(r)
    BY <2>2, Zenon DEF Unpaid, Deliverable, Sound
  <2>4. Accounts(r)
    BY <2>2, <2>3, NoRowYet, NothingPaid, Zenon DEF OneInv
  <2>5. AccountInv'
    BY <2>4, AccountWrite, Zenon DEF OneInv
  <2>6. row' = r /\ late' = {} /\ pend' = pend /\ row \notin Rows
    BY NoRowAssumption, Zenon DEF Commit, delivery
  <2>7. pend = "none"
    BY Zenon DEF OneInv, QueueInv
  <2>8. Fits(r)'
    BY <2>3, <2>6, <2>7, Zenon DEF Fits, Queued
  <2>9. QueueInv' /\ Final
    BY <2>6, <2>7, <2>8, NoRowAssumption, Zenon DEF QueueInv, Final
  <2> QED BY <2>5, <2>9, Zenon DEF Kept
<1> SUFFICES ASSUME OneProcess, OneInv, NEW p \in Procs, Request(p) PROVE Kept
  BY Zenon
<1>1. ASSUME NEW c \in Callers, Compose(p, c) PROVE Kept
  <2> DEFINE start == [Idle EXCEPT !.task = "compose", !.caller = c]
             new == [start EXCEPT !.pc = "claim"]
             old == [start EXCEPT !.pc = "budget", !.next = "reopen", !.op = row]
  <2>0. UNCHANGED <<links, execs, money, delivery>>
    BY <1>1, Zenon DEF Compose
  <2>1. CASE row = None /\ Commit(p, Prepared(c), new)
    <3>1. new \in Locals
      BY ZenonT(60) DEF Idle, Locals, ProcTypes, Labels, Reading, Resumes, NoDetails, Details
    <3>2. new.ex = None /\ new.pc = "claim"
      BY Zenon DEF Idle
    <3> HIDE DEF new
    <3>3. new.pc \notin {"abandoned", "drained"}
      BY <3>2, Zenon
    <3> QED BY <2>0, <2>1, <3>1, <3>2, <3>3, PreparedType, <1>FirstRow, Zenon
  <2>2. CASE row # None /\ proc' = [proc EXCEPT ![p] = old] /\ UNCHANGED <<row, late>>
    <3>1. old.ex = None /\ old.op = row /\ old.pc = "budget"
      BY Zenon DEF Idle
    <3> HIDE DEF old
    <3> QED BY <2>0, <2>2, <3>1, LoadedReads, Zenon
  <2> QED BY <1>1, <2>1, <2>2, Zenon DEF Compose
<1>2. ASSUME NEW c \in Callers, Abandon(p, c) PROVE Kept
  <2> DEFINE start == [Idle EXCEPT !.task = "abandon", !.caller = c, !.op = row]
             old == [start EXCEPT !.pc = "budget", !.next = "fence"]
             r == [Prepared(c) EXCEPT !.state = "abandoned"]
  <2>0. UNCHANGED <<links, execs, money, delivery>>
    BY <1>2, Zenon DEF Abandon
  <2>1. CASE row = None /\ row' = r /\ UNCHANGED <<current, late, proc>>
    <3>1. r \in Rows
      <4>1. Prepared(c) \in Rows /\ "abandoned" \in States
        BY PreparedType, Zenon DEF States
      <4> QED BY <4>1, Zenon DEF Rows
    <3>2. proc[p] = Idle
      BY <1>2, Zenon DEF Abandon, OneInv, Inv, LocalsInv, Local
    <3>3. Commit(p, r, Idle)
      BY <2>1, <3>2, NoRowYet, Zenon DEF Commit, OneInv, TypeInv, JournalType
    <3> QED BY <2>0, <2>1, <3>1, <3>3, IdleReads, <1>FirstRow, Zenon
  <2>2. CASE row # None /\ proc' = [proc EXCEPT ![p] = old] /\ UNCHANGED <<row, late>>
    <3>1. old.ex = None /\ old.op = row /\ old.pc = "budget"
      BY Zenon DEF Idle
    <3> HIDE DEF old
    <3> QED BY <2>0, <2>2, <3>1, LoadedReads, Zenon
  <2> QED BY <1>2, <2>1, <2>2, Zenon DEF Abandon
<1> QED BY <1>1, <1>2, Zenon DEF Request

LEMMA ContinueKept ==
    ASSUME OneProcess, OneInv, NEW p \in Procs, Reopen(p) \/ Retry(p) \/ Fence(p) PROVE Kept
<1> DEFINE me == proc[p]
<1>0. me.pc \in Reading
  BY Zenon DEF Reopen, Retry, Fence, Reading
<1>1. ASSUME NEW l \in {"reconcile", "claim", "resend"}
      PROVE  LET m == [me EXCEPT !.pc = l] IN m.ex = None /\ Reads(m) /\ (l # "resend" => m \in Locals) /\ m.pc = l
  <2> DEFINE m == [me EXCEPT !.pc = l]
  <2>1. CASE l \in {"reconcile", "claim"}
    <3>1. l \in Reading /\ l \notin {"abandoned", "drained"}
      BY <2>1, Zenon DEF Reading
    <3> QED BY <1>0, <3>1, ReaderReads, Zenon
  <2>2. CASE l = "resend"
    <3>1. m.ex = None /\ m.pc = "resend"
      BY <1>0, <2>2, ReaderLocals, Zenon DEF Locals, ProcTypes
    <3> HIDE DEF m
    <3>2. Reads(m)
      BY <3>1, Zenon DEF Reads, Reading
    <3> QED BY <2>2, <3>1, <3>2, Zenon DEF m
  <2> QED BY <1>1, <2>1, <2>2, Zenon
<1>2. ASSUME NEW l \in {"reconcile", "claim", "resend"}, Goto(p, l), UNCHANGED <<row, late, links, execs, money, delivery>>
      PROVE  Kept
  <2> DEFINE m == [me EXCEPT !.pc = l]
  <2>1. m.ex = None /\ Reads(m)
    BY <1>1, Zenon
  <2>2. proc' = [proc EXCEPT ![p] = m]
    BY <1>2, Zenon DEF Goto
  <2> HIDE DEF m
  <2> QED BY <1>2, <2>1, <2>2, OneMove, Zenon
<1>3. CASE Reopen(p)
  <2>0. UNCHANGED <<links, execs, money, delivery>>
    BY <1>3, Zenon DEF Reopen
  <2> DEFINE m == [me EXCEPT !.pc = "reconcile"]
  <2>1. m.ex = None /\ m \in Locals /\ m.pc = "reconcile"
    BY <1>1, Zenon
  <2>2. CASE /\ me.op.state = "failed_paid" /\ ~me.op.compacted /\ me.op.error = "incomplete"
             /\ Save(p, Unknown(me.op), m)
    <3>1. me.op = row /\ row \in Rows /\ Accounts(row) /\ Fits(row)
      BY <1>0, <2>2, ReaderLocals, Zenon DEF Save
    <3>2. pend = "none" /\ row.state \notin Terminal
      BY <2>2, <3>1, Zenon DEF Fits, Queued, Deliverable, Terminal, OneInv, TypeInv, OtherType
    <3>3. row.exec # None
      BY <2>2, <3>1, Zenon DEF Accounts, Attributed, Unpaid
    <3>4. Accounts(Unknown(row)) /\ Unknown(row) \in Rows /\ Unknown(row).state = "payment_unknown"
      BY <3>1, <3>3, UnknownBooks, Zenon
    <3>5. Fits(Unknown(row))
      BY <3>2, <3>4, UnqueuedFits, Zenon DEF Deliverable
    <3> HIDE DEF m
    <3>6. Save(p, Unknown(row), m) /\ m.pc \notin {"abandoned", "drained"}
      BY <2>1, <2>2, <3>1, Zenon
    <3> QED BY <1>0, <2>0, <2>1, <3>2, <3>4, <3>5, <3>6, OneSave, Zenon
  <2>3. CASE Goto(p, "reconcile") /\ UNCHANGED journal
    BY <1>2, <2>0, <2>3, Zenon DEF journal
  <2> QED BY <1>3, <2>2, <2>3, Zenon DEF Reopen
<1>4. CASE Retry(p)
  <2>1. UNCHANGED <<row, late, links, execs, money, delivery>>
    BY <1>4, Zenon DEF Retry
  <2>2. Goto(p, "resend") \/ Goto(p, "claim") \/ Finish(p)
    BY <1>4, Zenon DEF Retry
  <2> QED BY <1>2, <2>1, <2>2, OneFinish, Zenon
<1>5. CASE Fence(p)
  <2> DEFINE s == [me.op EXCEPT !.state = "abandoned", !.exec = None]
  <2>1. Save(p, s, Idle) /\ UNCHANGED <<links, execs, money, delivery>> /\ me.task = "abandon"
    BY <1>5, Zenon DEF Fence, OneInv, Inv, LocalsInv, Local
  <2>2. me.op = row /\ row \in Rows /\ RowInv(row) /\ Accounts(row) /\ row.state \in {"prepared", "released"}
    BY <1>0, <2>1, ReaderLocals, Zenon DEF Save, Copy
  <2>3. NoLive
    BY <2>2, Zenon DEF RowInv, Unpaid
  <2>4. /\ s \in Rows /\ s.state = "abandoned" /\ s.exec = None /\ s.resv = row.resv
        /\ s.resolutions = row.resolutions /\ s.compacted = row.compacted
    <3>1. "abandoned" \in States
      BY Zenon DEF States
    <3> QED BY <2>2, <3>1, ZenonT(60) DEF Rows
  <2> HIDE DEF s
  <2>5. Sound(s) /\ s.state \in Unpaid /\ s.resv \in execs \cup {None}
    BY <2>2, <2>4, Zenon DEF Accounts, Sound, Unpaid, Attributed
  <2>6. s.compacted => s.resv = None /\ \A e \in Execs : s.resolutions[e] \in {"none", "zero"}
    BY <2>2, <2>4, Zenon DEF Accounts, Receipted
  <2>7. Accounts(s)
    BY <2>3, <2>4, <2>5, <2>6, NothingPaid, Zenon
  <2>8. pend = "none" /\ row.state \notin Terminal
    BY <2>2, NotQueued, Zenon DEF OneInv, Deliverable, Terminal
  <2>9. Fits(s)
    BY <2>4, <2>8, UnqueuedFits, Zenon DEF Deliverable
  <2> QED BY <1>0, <2>1, <2>4, <2>7, <2>8, <2>9, IdleReads, OneSave, Zenon
<1> QED BY <1>3, <1>4, <1>5, Zenon

-----------------------------------------------------------------------------
(* The paying worker *)

LEMMA WorkerFacts ==
    ASSUME OneInv, NEW p \in Procs, proc[p].pc \in Working \/ proc[p].ex # None
    PROVE  /\ proc[p] \in Locals /\ proc[p] \in ProcTypes
           /\ proc[p].ex # None /\ proc[p].ex \in Execs /\ proc[p].ex \in execs /\ proc[p].pc \notin Reading
           /\ late = {} /\ row \in Rows /\ row \in AllRows /\ Paying(proc[p], row) /\ row.resolutions[proc[p].ex] = "none"
           /\ Accounts(row) /\ RowInv(row) /\ Fits(row) /\ Owns(proc[p], row) /\ Local(proc[p])
<1>1. /\ proc[p] \in Locals /\ proc[p] \in ProcTypes
      /\ proc[p].ex # None /\ proc[p].ex \in Execs /\ proc[p].ex \in execs
      /\ Local(proc[p]) /\ \A r \in AllRows : Owns(proc[p], r)
  BY WorkerIs, Zenon DEF OneInv
<1>2. late = {} /\ row \in Rows /\ Paying(proc[p], row)
  BY <1>1, Zenon DEF OneInv, AccountInv
<1>3. row \in AllRows /\ Owns(proc[p], row)
  BY <1>1, <1>2, Zenon DEF AllRows
<1>4. Accounts(row) /\ RowInv(row) /\ Fits(row)
  BY <1>2, <1>3, Zenon DEF OneInv, AccountInv, Inv, RowsInv, QueueInv
<1>5. proc[p].pc \notin Reading
  BY <1>1, Zenon DEF Locals
<1>6. row.resolutions[proc[p].ex] = "none"
  BY <1>2, Zenon DEF Paying
<1> QED BY <1>1, <1>2, <1>3, <1>4, <1>5, <1>6, Zenon

\* Before the dispatch intent nothing was paid.
LEMMA BeforePays ==
    ASSUME OneInv, NEW p \in Procs, proc[p].pc \in Before
    PROVE  /\ proc[p].ex # None /\ proc[p].ex \in Execs /\ NoLive /\ row.exec = proc[p].ex /\ ~row.dispatched
           /\ Unresolved(row) /\ row \in Rows /\ \A e : ~Pays(e)
<1>1. proc[p].pc \in Working
  BY Zenon DEF Before, Working
<1>2. proc[p].ex # None /\ proc[p].ex \in Execs /\ row \in Rows /\ Paying(proc[p], row) /\ RowInv(row)
  BY <1>1, WorkerFacts, Zenon
<1>3. row.exec = proc[p].ex /\ ~row.dispatched /\ Unresolved(row)
  BY <1>2, Zenon DEF Paying
<1>4. NoLive
  BY <1>2, <1>3, UndispatchedNoLive, Zenon
<1> QED BY <1>2, <1>3, <1>4, NothingLive, Zenon

\* How a worker ends.
LEMMA EndedPays ==
    ASSUME OneInv, NEW p \in Procs, proc[p].ex # None, NEW c \in {"ok", "unresolved", "proof", "other"},
           c \in {"ok", "proof"} => HasPaid(proc[p].ex), c = "other" => ~Pays(proc[p].ex),
           NEW r, r.resolutions[proc[p].ex] = "none"
    PROVE  Paying(Ended(p, c), r) /\ Ended(p, c) \in Locals /\ Ended(p, c).ex = proc[p].ex
<1> DEFINE m == Ended(p, c)
<1>1. m.pc = "debit" /\ m.ex = proc[p].ex /\ m.err = c
  BY IdleType, Zenon DEF Ended, ProcTypes
<1>2. m \in Locals
  BY WorkerLocals, Zenon DEF OneInv
<1> HIDE DEF m
<1>3. Paying(m, r)
  BY <1>1, Zenon DEF Paying, Before, Metered, Attached, Asking, Called
<1> QED BY <1>1, <1>2, <1>3, Zenon DEF m

\* A worker goes on, and the row stays.
LEMMA WorkerKeeps ==
    ASSUME OneProcess, OneInv, NEW p \in Procs, proc[p].ex # None, NEW m, m.ex # None, m.pc \notin Reading, Paying(m, row),
           proc' = [proc EXCEPT ![p] = m], UNCHANGED <<row, late, links, execs, money, delivery>>
    PROVE  Kept
<1>1. Reads(m)
  BY Zenon DEF Reads, Reading
<1> QED BY <1>1, OneMove, Zenon

LEMMA OneEnds ==
    ASSUME OneProcess, OneInv, NEW p \in Procs, proc[p].ex # None, NEW c \in {"ok", "unresolved", "proof", "other"},
           c \in {"ok", "proof"} => HasPaid(proc[p].ex), c = "other" => ~Pays(proc[p].ex),
           Ends(p, c), UNCHANGED <<row, late, links, execs, money, delivery>>
    PROVE  Kept
<1>1. Paying(Ended(p, c), row) /\ Ended(p, c) \in Locals /\ Ended(p, c).ex = proc[p].ex
  BY WorkerFacts, EndedPays, Zenon
<1>2. Ended(p, c).pc \notin Reading
  BY <1>1, Zenon DEF Locals
<1> QED BY <1>1, <1>2, WorkerKeeps, Zenon DEF Ends

\* A worker writes a row that is not paid yet.
LEMMA WorkerSave ==
    ASSUME OneProcess, OneInv, NEW p \in Procs, proc[p].ex # None, Unresolved(row), NEW r \in Rows, Accounts(r),
           r.state \notin Deliverable, NEW m \in Locals, Update(p, r, m), m.ex # None => Paying(m, r),
           m.ex = None => m = Idle, UNCHANGED <<links, execs, money, delivery>>
    PROVE  Kept
<1>1. row \in Rows
  BY WorkerFacts, Zenon
<1>2. Fits(r) /\ row.state \notin Terminal
  BY <1>1, UnresolvedRow, UnqueuedFits, Zenon
<1>3. m.ex = None => m.pc \notin {"abandoned", "drained"}
  BY IdleReads, Zenon
<1> QED BY <1>1, <1>2, <1>3, OneWrite, Zenon

\* The worker up to the dispatch intent, and where it gives up.
LEMMA PreparingKept ==
    \A p \in Procs :
        /\ OneProcess /\ OneInv
        /\ Claim(p) \/ Reserve(p) \/ AttachDebit(p) \/ Draft(p) \/ DebitOutcome(p) \/ Fail(p)
        => Kept

<1>FailsPays.
    ASSUME OneInv, NEW p \in Procs, proc[p].ex # None
    PROVE  LET m == [Idle EXCEPT !.pc = "fail", !.ex = proc[p].ex] IN
           m.pc = "fail" /\ m.ex = proc[p].ex /\ Paying(m, row) /\ m.pc \notin Reading
  <2> USE <1>FailsPays
  <2> DEFINE m == [Idle EXCEPT !.pc = "fail", !.ex = proc[p].ex]
  <2>1. m.pc = "fail" /\ m.ex = proc[p].ex
    BY Zenon DEF Idle
  <2> HIDE DEF m
  <2>2. Paying(m, row)
    BY <2>1, WorkerFacts, Zenon DEF Paying, Before, Metered, Attached, Asking, Called
  <2> QED BY <2>1, <2>2, Zenon DEF m, Reading

\* The ledger changes, truly; row and wallet stay.
<1>LedgerStep.
    ASSUME OneProcess, OneInv, NEW p \in Procs, proc[p].ex # None, NEW m, proc' = [proc EXCEPT ![p] = m], m.pc \notin Reading,
           UNCHANGED <<row, late, links, execs, wallet, payer, delivery>>,
           \A e \in Execs : /\ ledger'[e] = "released" => ledger[e] = "released" \/ ~Pays(e)
                            /\ ledger'[e] = "charged" => ledger[e] = "charged" \/ HasPaid(e)
                            /\ ledger'[e] = "reserved" => ledger[e] = "reserved" \/ ~Pays(e)
                            /\ ledger'[e] # "none" => ledger[e] # "none" \/ e \in execs,
           m.ex # None => Paying(proc[p], row)'
    PROVE  Kept
  <2> USE <1>LedgerStep
  <2>1. Quieter
    BY Zenon DEF Quieter, Live
  <2>2. BudgetFollowsPayment' /\ Known'
    BY Zenon DEF OneInv, AccountInv, BudgetFollowsPayment, Known, Pays, HasPaid, Live
  <2>3. proc'[p] = m /\ late = {} /\ row \in Rows
    BY WorkerFacts, Zenon DEF OneInv, TypeInv, JournalType
  <2>4. Reads(proc[p])'
    BY <2>3, Zenon DEF Reads, Reading
  <2>5. AllRows' = AllRows
    BY Zenon DEF AllRows
  <2>6. AccountInv'
    BY <2>1, <2>2, <2>3, <2>4, <2>5, AccountStep, OneQuantified, Zenon DEF OneInv
  <2> QED BY <2>6, QueueStays, Zenon DEF OneInv, Kept

<1>ClaimKept. ASSUME OneProcess, OneInv, NEW p \in Procs, Claim(p) PROVE Kept
  <2> USE <1>ClaimKept
  <2>1. PICK e \in Execs \ execs :
            /\ proc[p].pc = "claim"
            /\ Save(p, ClaimedRow(proc[p].op, e), [Idle EXCEPT !.pc = "reserve", !.ex = e, !.caller = proc[p].caller])
            /\ execs' = execs \cup {e}
            /\ UNCHANGED <<links, money, delivery>>
    BY Zenon DEF Claim
  <2>2. /\ row \in Rows /\ row \in AllRows /\ proc[p].op = row /\ proc[p] \in ProcTypes /\ RowInv(row)
        /\ row.state \in {"prepared", "released"}
    BY <2>1, CurrentCopy, Zenon DEF Save, Reading, Copy, Locals, OneInv
  <2>3. NoLive /\ Sound(row)
    BY <2>2, Zenon DEF RowInv, Unpaid, OneInv, AccountInv, Accounts
  <2>4. row.state \notin Deliverable \cup {"failed_paid"} \cup Terminal
    BY <2>2, Zenon DEF Deliverable, Terminal
  <2>5. pend = "none"
    BY <2>2, <2>4, NotQueued, Zenon DEF OneInv
  <2>r. PICK r : r = ClaimedRow(row, e)
    BY Zenon
  <2>m. PICK m : m = [Idle EXCEPT !.pc = "reserve", !.ex = e, !.caller = proc[p].caller]
    BY Zenon
  <2>6. /\ r \in Rows /\ r.state = "paying" /\ r.exec = e /\ ~r.compacted /\ ~r.dispatched
        /\ r.resv = None /\ r.resolutions = row.resolutions
    <3>1. "paying" \in States
      BY Zenon DEF States
    <3> QED BY <2>2, <2>r, <3>1, NoDetailsType, ZenonT(60) DEF ClaimedRow, Rows
  <2>7. m \in ProcTypes /\ m.pc = "reserve" /\ m.ex = e
    BY <2>2, <2>m, IdleType, WorkerLabels, ZenonT(60) DEF ProcTypes
  <2>8. m \in Locals /\ e # None
    BY <2>7, OperationsAssumption, Zenon DEF Locals, Reading
  <2>9. Accounts(r)
    <3>1. Sound(r)
      BY <2>3, <2>6, Zenon DEF Sound
    <3> QED BY <2>3, <2>6, <2>8, <3>1, NothingPaid, Zenon
  <2>10. Fits(r)
    BY <2>5, <2>6, UnqueuedFits, Zenon DEF Deliverable
  <2>11. Paying(m, r)
    <3>1. row.resolutions[e] = "none" /\ ledger[e] = "none"
      BY <2>3, Zenon DEF Sound, OneInv, AccountInv, Known
    <3> QED BY <2>6, <2>7, <3>1, Zenon DEF Paying, Before, Metered, Attached, Asking, Called, Unresolved
  <2>12. Update(p, r, m) /\ execs \subseteq execs'
    BY <2>1, <2>2, <2>r, <2>m, ZenonT(60) DEF Save
  <2> QED BY <2>1, <2>2, <2>4, <2>6, <2>7, <2>8, <2>9, <2>10, <2>11, <2>12, OneWrite, Zenon

\* The outcome of a reservation is that of its payment.
<1>ResolvedTruly.
    ASSUME TypeInv, NEW x \in Execs, NEW a \in {"zero", "paid"}, a = "zero" => ~Pays(x), a = "paid" => HasPaid(x),
           ledger' = Resolved(x, a)
    PROVE  \A e \in Execs : /\ ledger'[e] = "released" => ledger[e] = "released" \/ ~Pays(e)
                            /\ ledger'[e] = "charged" => ledger[e] = "charged" \/ HasPaid(e)
                            /\ ledger'[e] = "reserved" => ledger[e] = "reserved" \/ ~Pays(e)
                            /\ ledger'[e] # "none" => ledger[e] # "none" \/ e \in execs
  <2> USE <1>ResolvedTruly
  <2> SUFFICES ASSUME NEW e \in Execs
               PROVE  /\ ledger'[e] = "released" => ledger[e] = "released" \/ ~Pays(e)
                      /\ ledger'[e] = "charged" => ledger[e] = "charged" \/ HasPaid(e)
                      /\ ledger'[e] = "reserved" => ledger[e] = "reserved" \/ ~Pays(e)
                      /\ ledger'[e] # "none" => ledger[e] # "none" \/ e \in execs
    BY Zenon
  <2>1. ledger \in [Execs -> {"none", "reserved", "released", "charged"}]
    BY Zenon DEF TypeInv, OtherType
  <2>2. CASE e # x
    BY <2>1, <2>2, Zenon DEF Resolved
  <2>3. CASE e = x
    <3>1. \/ ledger'[x] = ledger[x]
          \/ ledger[x] = "reserved" /\ a = "zero" /\ ledger'[x] = "released"
          \/ ledger[x] = "reserved" /\ a = "paid" /\ ledger'[x] = "charged"
      BY <2>1, SMTT(60) DEF Resolved
    <3> QED BY <2>3, <3>1, Zenon
  <2> QED BY <2>2, <2>3, Zenon

<1>ReserveKept. ASSUME OneProcess, OneInv, NEW p \in Procs, Reserve(p) PROVE Kept
  <2> USE <1>ReserveKept
  <2>0. proc[p].pc = "reserve" /\ UNCHANGED <<row, late, links, execs, wallet, payer, delivery>>
    BY Zenon DEF Reserve, journal
  <2>1. proc[p].pc \in Working /\ proc[p].pc \in Before
    BY <2>0, Zenon DEF Working, Before
  <2>2. /\ proc[p].ex # None /\ proc[p].ex \in Execs /\ proc[p].ex \in execs /\ proc[p] \in ProcTypes
        /\ Paying(proc[p], row) /\ \A e : ~Pays(e)
    BY <2>1, WorkerFacts, BeforePays, Zenon
  <2>3. CASE Fails(p) /\ UNCHANGED ledger
    BY <2>0, <2>2, <2>3, <1>FailsPays, WorkerKeeps, Zenon DEF Fails, money
  <2>4. CASE /\ Goto(p, "attach_debit")
             /\ ledger' = IF proc[p].caller = "client" THEN [ledger EXCEPT ![proc[p].ex] = "reserved"] ELSE ledger
    <3>m. PICK m : m = [proc[p] EXCEPT !.pc = "attach_debit"]
      BY Zenon
    <3>1. m.pc = "attach_debit" /\ m.ex = proc[p].ex /\ m.caller = proc[p].caller
      BY <2>2, <3>m, Zenon DEF ProcTypes
    <3>2. proc' = [proc EXCEPT ![p] = m] /\ proc'[p] = m
      BY <2>4, <3>m, Zenon DEF Goto, OneInv, TypeInv, JournalType
    <3>3. ledger \in [Execs -> {"none", "reserved", "released", "charged"}]
      BY Zenon DEF OneInv, TypeInv, OtherType
    <3>4. \A e \in Execs : ledger'[e] = ledger[e] \/ (e = proc[p].ex /\ ledger'[e] = "reserved")
      BY <2>2, <2>4, <3>3, Zenon
    <3>5. m.caller = "client" \/ ledger'[m.ex] = "none"
      BY <2>0, <2>2, <2>4, <3>1, Zenon DEF Paying
    <3>6. Paying(proc[p], row)'
      BY <2>0, <2>2, <3>1, <3>2, <3>5, Zenon DEF Paying, Before, Metered, Attached, Asking, Called, Unresolved
    <3>7. m.pc \notin Reading
      BY <3>1, Zenon DEF Reading
    <3>8. \A e \in Execs : /\ ledger'[e] = "released" => ledger[e] = "released" \/ ~Pays(e)
                           /\ ledger'[e] = "charged" => ledger[e] = "charged" \/ HasPaid(e)
                           /\ ledger'[e] = "reserved" => ledger[e] = "reserved" \/ ~Pays(e)
                           /\ ledger'[e] # "none" => ledger[e] # "none" \/ e \in execs
      BY <2>2, <3>4, Zenon
    <3> QED BY <2>0, <2>2, <3>2, <3>6, <3>7, <3>8, <1>LedgerStep, Zenon
  <2> QED BY <2>3, <2>4, Zenon DEF Reserve

\* The step that resolves the reservation and goes to the error path.
<1>ResolveFails.
    ASSUME OneProcess, OneInv, NEW p \in Procs, proc[p].ex # None, Fails(p),
           NEW a \in {"zero", "paid"}, a = "zero" => ~Pays(proc[p].ex), a = "paid" => HasPaid(proc[p].ex),
           ledger' = Resolved(proc[p].ex, a), UNCHANGED <<row, late, links, execs, wallet, payer, delivery>>
    PROVE  Kept
  <2> USE <1>ResolveFails
  <2>m. PICK m : m = [Idle EXCEPT !.pc = "fail", !.ex = proc[p].ex]
    BY Zenon
  <2>1. m.pc = "fail" /\ m.ex = proc[p].ex /\ m.pc \notin Reading
    BY <2>m, Zenon DEF Idle, Reading
  <2>2. proc' = [proc EXCEPT ![p] = m] /\ proc'[p] = m
    BY <2>m, Zenon DEF Fails, OneInv, TypeInv, JournalType
  <2>3. proc[p].ex \in Execs /\ row.resolutions[proc[p].ex] = "none"
    BY WorkerFacts, Zenon
  <2>4. Paying(proc[p], row)'
    BY <2>1, <2>2, <2>3, Zenon DEF Paying, Before, Metered, Attached, Asking, Called
  <2>5. \A e \in Execs : /\ ledger'[e] = "released" => ledger[e] = "released" \/ ~Pays(e)
                         /\ ledger'[e] = "charged" => ledger[e] = "charged" \/ HasPaid(e)
                         /\ ledger'[e] = "reserved" => ledger[e] = "reserved" \/ ~Pays(e)
                         /\ ledger'[e] # "none" => ledger[e] # "none" \/ e \in execs
    BY <2>3, <1>ResolvedTruly, Zenon DEF OneInv
  <2> QED BY <2>1, <2>2, <2>4, <2>5, <1>LedgerStep, Zenon

<1>AttachDebitKept. ASSUME OneProcess, OneInv, NEW p \in Procs, AttachDebit(p) PROVE Kept
  <2> USE <1>AttachDebitKept
  <2>0. proc[p].pc = "attach_debit" /\ UNCHANGED <<links, execs, wallet, payer, delivery>>
    BY Zenon DEF AttachDebit
  <2>1. proc[p].pc \in Working /\ proc[p].pc \in Before
    BY <2>0, Zenon DEF Working, Before
  <2>2. /\ proc[p].ex # None /\ proc[p].ex \in Execs /\ proc[p].ex \in execs /\ proc[p] \in ProcTypes
        /\ Paying(proc[p], row) /\ (\A e : ~Pays(e)) /\ NoLive /\ row \in Rows /\ Unresolved(row) /\ row.exec = proc[p].ex
        /\ ~row.dispatched
    BY <2>1, WorkerFacts, BeforePays, Zenon
  <2>3. CASE Fails(p) /\ ledger' = Resolved(proc[p].ex, "zero") /\ UNCHANGED journal
    BY <2>0, <2>2, <2>3, <1>ResolveFails, Zenon DEF journal
  <2>4. CASE /\ Update(p, [row EXCEPT !.resv = IF proc[p].caller = "client" THEN proc[p].ex ELSE None],
                       [proc[p] EXCEPT !.pc = "draft"])
             /\ UNCHANGED ledger
    <3>r. PICK r : r = [row EXCEPT !.resv = IF proc[p].caller = "client" THEN proc[p].ex ELSE None]
      BY Zenon
    <3>m. PICK m : m = [proc[p] EXCEPT !.pc = "draft"]
      BY Zenon
    <3>1. /\ r \in Rows /\ r.resolutions = row.resolutions /\ r.exec = row.exec /\ r.compacted = row.compacted
          /\ r.state = row.state /\ r.dispatched = row.dispatched
          /\ r.resv = IF proc[p].caller = "client" THEN proc[p].ex ELSE None
      <4>1. (IF proc[p].caller = "client" THEN proc[p].ex ELSE None) \in Execs \cup {None}
        BY <2>2, Zenon
      <4> QED BY <2>2, <3>r, <4>1, Zenon DEF Rows
    <3>2. m.pc = "draft" /\ m.ex = proc[p].ex /\ m.caller = proc[p].caller
      BY <2>2, <3>m, Zenon DEF ProcTypes
    <3>3. m \in Locals
      BY <3>m, WorkerLocals, WorkerLabels, Zenon DEF OneInv
    <3>4. r.state \notin Deliverable /\ ~r.compacted /\ Accounts(row)
      BY <2>2, <3>1, UnresolvedRow, Zenon
    <3>5. Accounts(r)
      <4>1. Sound(r)
        BY <3>1, <3>4, Zenon DEF Sound, Accounts
      <4> QED BY <2>2, <3>1, <3>4, <4>1, NothingPaid, Zenon
    <3>6. Paying(m, r)
      BY <2>0, <2>2, <3>1, <3>2, Zenon DEF Paying, Before, Metered, Attached, Asking, Called, Unresolved
    <3>7. Update(p, r, m) /\ UNCHANGED money /\ m.ex # None
      BY <2>0, <2>2, <2>4, <3>r, <3>m, <3>2, Zenon DEF money
    <3> QED BY <2>0, <2>2, <3>1, <3>3, <3>4, <3>5, <3>6, <3>7, WorkerSave, Zenon
  <2> QED BY <2>3, <2>4, Zenon DEF AttachDebit

<1>DraftKept. ASSUME OneProcess, OneInv, NEW p \in Procs, Draft(p) PROVE Kept
  <2> USE <1>DraftKept
  <2>0. proc[p].pc = "draft" /\ UNCHANGED <<links, execs, money, delivery>>
    BY Zenon DEF Draft
  <2>1. proc[p].pc \in Working /\ proc[p].pc \in Before
    BY <2>0, Zenon DEF Working, Before
  <2>2. /\ proc[p].ex # None /\ proc[p].ex \in Execs /\ proc[p] \in ProcTypes
        /\ Paying(proc[p], row) /\ (\A e : ~Pays(e)) /\ row \in Rows /\ Unresolved(row) /\ row.exec = proc[p].ex
        /\ ~row.dispatched
    BY <2>1, WorkerFacts, BeforePays, Zenon
  <2>3. CASE Ends(p, "other") /\ UNCHANGED journal
    BY <2>0, <2>2, <2>3, OneEnds, Zenon DEF journal
  <2>4. ASSUME NEW way \in {"keysend", "invoice"},
               Update(p, [row EXCEPT !.draft = TRUE, !.mid = proc[p].ex], [proc[p] EXCEPT !.pc = way])
        PROVE  Kept
    <3>r. PICK r : r = [row EXCEPT !.draft = TRUE, !.mid = proc[p].ex]
      BY Zenon
    <3>m. PICK m : m = [proc[p] EXCEPT !.pc = way]
      BY Zenon
    <3>1. r \in Rows /\ SameBooks(row, r) /\ r.state = row.state /\ r.dispatched = row.dispatched
      BY <2>2, <3>r, ZenonT(60) DEF Rows, SameBooks
    <3>2. m.pc = way /\ m.ex = proc[p].ex /\ m.caller = proc[p].caller
      BY <2>2, <3>m, Zenon DEF ProcTypes
    <3>3. m \in Locals
      BY <3>m, WorkerLocals, WorkerLabels, Zenon DEF OneInv
    <3>4. row.state \notin Deliverable /\ Accounts(row)
      BY <2>2, UnresolvedRow, Zenon
    <3>5. Accounts(r)
      BY <2>2, <3>1, <3>4, BooksKept, Zenon DEF SameBooks
    <3>6. Paying(m, r)
      BY <2>0, <2>2, <3>1, <3>2, Zenon DEF Paying, Before, Metered, Attached, Asking, Called, Unresolved, SameBooks
    <3>7. Update(p, r, m) /\ m.ex # None
      BY <2>2, <2>4, <3>r, <3>m, <3>2, Zenon
    <3> QED BY <2>0, <2>2, <3>1, <3>3, <3>4, <3>5, <3>6, <3>7, WorkerSave, Zenon
  <2> QED BY <2>3, <2>4, Zenon DEF Draft

<1>DebitOutcomeKept. ASSUME OneProcess, OneInv, NEW p \in Procs, DebitOutcome(p) PROVE Kept
  <2> USE <1>DebitOutcomeKept
  <2>0. proc[p].pc = "debit" /\ UNCHANGED <<row, late, links, execs, wallet, payer, delivery>>
    BY Zenon DEF DebitOutcome
  <2>1. proc[p].pc \in Working
    BY <2>0, Zenon DEF Working
  <2>2. proc[p].ex # None /\ proc[p].ex \in Execs /\ Paying(proc[p], row)
    BY <2>1, WorkerFacts, Zenon
  <2>3. \/ ledger' = ledger
        \/ ledger' = Resolved(proc[p].ex, "zero") /\ ~Pays(proc[p].ex)
        \/ ledger' = Resolved(proc[p].ex, "paid") /\ HasPaid(proc[p].ex)
    <3>1. CASE proc[p].err = "other"
      BY <2>0, <2>2, <3>1, Zenon DEF DebitOutcome, Paying
    <3>2. CASE proc[p].err \in {"ok", "proof"} /\ proc[p].seen.fee
      <4>1. ledger' = Resolved(proc[p].ex, "paid")
        BY <3>2, Zenon DEF DebitOutcome
      <4> QED BY <2>0, <2>2, <3>2, <4>1, Zenon DEF Paying
    <3>3. CASE proc[p].err # "other" /\ ~(proc[p].err \in {"ok", "proof"} /\ proc[p].seen.fee)
      BY <3>3, Zenon DEF DebitOutcome
    <3> QED BY <3>1, <3>2, <3>3, Zenon
  <2>4. \A e \in Execs : /\ ledger'[e] = "released" => ledger[e] = "released" \/ ~Pays(e)
                         /\ ledger'[e] = "charged" => ledger[e] = "charged" \/ HasPaid(e)
                         /\ ledger'[e] = "reserved" => ledger[e] = "reserved" \/ ~Pays(e)
                         /\ ledger'[e] # "none" => ledger[e] # "none" \/ e \in execs
    BY <2>2, <2>3, <1>ResolvedTruly, Zenon DEF OneInv
  <2>5. PICK m : m \in {Idle, [Idle EXCEPT !.pc = "fail", !.ex = proc[p].ex]} /\ proc' = [proc EXCEPT ![p] = m]
    BY Zenon DEF DebitOutcome, Finish, Fails
  <2>6. m.pc \notin Reading /\ (m.ex # None => m.pc = "fail" /\ m.ex = proc[p].ex)
    <3>1. CASE m = Idle
      BY <3>1, Zenon DEF Idle, Reading
    <3>2. CASE m = [Idle EXCEPT !.pc = "fail", !.ex = proc[p].ex]
      BY <3>2, Zenon DEF Idle, Reading
    <3> QED BY <2>5, <3>1, <3>2, Zenon
  <2>7. proc'[p] = m
    BY <2>5, Zenon DEF OneInv, TypeInv, JournalType
  <2>8. m.ex # None => Paying(proc[p], row)'
    BY <2>0, <2>2, <2>6, <2>7, Zenon DEF Paying, Before, Metered, Attached, Asking, Called
  <2> QED BY <2>0, <2>2, <2>4, <2>5, <2>6, <2>8, <1>LedgerStep, Zenon

<1>FailKept. ASSUME OneProcess, OneInv, NEW p \in Procs, Fail(p) PROVE Kept
  <2> USE <1>FailKept
  <2>0. proc[p].pc = "fail" /\ UNCHANGED <<links, execs, money, delivery>>
    BY Zenon DEF Fail
  <2>1. proc[p].pc \in Working
    BY <2>0, Zenon DEF Working
  <2>2. proc[p].ex # None /\ row \in Rows /\ Accounts(row)
    BY <2>1, WorkerFacts, Zenon
  <2>3. CASE Finish(p) /\ UNCHANGED <<row, late>>
    BY <2>0, <2>3, OneFinish, Zenon
  <2>4. ASSUME NEW s \in {"released", "prepared", "payment_unknown"}, row.state = "paying",
               Update(p, [row EXCEPT !.error = "other", !.state = s], Idle)
        PROVE  Kept
    <3>r. PICK r : r = [row EXCEPT !.error = "other", !.state = s]
      BY Zenon
    <3>1. s \in States
      BY Zenon DEF States
    <3>2. r \in Rows /\ SameBooks(row, r) /\ r.state = s
      BY <2>2, <3>1, <3>r, ZenonT(60) DEF Rows, SameBooks
    <3>3. Unresolved(row)
      BY <2>4, Zenon DEF Unresolved
    <3>4. row.exec # None
      BY <2>2, <3>3, UnresolvedRow, Zenon
    <3>5. Accounts(r)
      BY <2>2, <3>2, <3>4, BooksKept, Zenon DEF SameBooks
    <3>6. r.state \notin Deliverable
      BY <3>2, Zenon DEF Deliverable
    <3>7. Update(p, r, Idle)
      BY <2>4, <3>r, Zenon
    <3> QED BY <2>0, <2>2, <3>2, <3>3, <3>5, <3>6, <3>7, IdleReads, WorkerSave, Zenon
  <2>5. ASSUME NEW proven \in {FALSE, ProvenUnpaid(row)}, row.state = "paying",
               Update(p, [row EXCEPT !.error = "other",
                                     !.state = CASE proven -> "released"
                                                 [] ~proven /\ ~row.dispatched -> "prepared"
                                                 [] OTHER -> "payment_unknown"], Idle)
        PROVE  Kept
    <3> DEFINE s == CASE proven -> "released"
                      [] ~proven /\ ~row.dispatched -> "prepared"
                      [] OTHER -> "payment_unknown"
    <3>1. s \in {"released", "prepared", "payment_unknown"}
      BY <2>5, Zenon
    <3> HIDE DEF s
    <3> QED BY <2>4, <2>5, <3>1, Zenon DEF s
  <2> QED BY <2>3, <2>5, Zenon DEF Fail
<1> QED
  BY <1>ClaimKept, <1>ReserveKept, <1>AttachDebitKept, <1>DraftKept, <1>DebitOutcomeKept, <1>FailKept, Zenon

\* The worker from the dispatch intent on.
LEMMA PayingKept ==
    \A p \in Procs :
        /\ OneProcess /\ OneInv
        /\ \/ Dispatch(p) \/ PollWallet(p) \/ Unsent(p) \/ WalletReturns(p) \/ Record(p)
           \/ AwaitSettlement(p) \/ SettledEnvelope(p) \/ PaidCommit(p)
        => Kept

\* The intent is on disk before the payment exists: nothing is paid by it.
<1>IntentKept.
    ASSUME OneProcess, OneInv, NEW p \in Procs, proc[p].pc \in {"keysend", "invoice"}, NEW h \in Hashes, payer[h] = None,
           payer' = [payer EXCEPT ![h] = proc[p].ex], UNCHANGED <<links, execs, wallet, ledger, delivery>>,
           Update(p, [row EXCEPT !.dispatched = TRUE, !.settlement = NoDetails, !.state = "paying",
                                 !.hash = IF proc[p].pc = "invoice" THEN h ELSE None],
                  [proc[p] EXCEPT !.pc = "poll", !.pay = h, !.keysend = proc[p].pc = "keysend"])
    PROVE  Kept
  <2> USE <1>IntentKept
  <2>0. proc[p].pc \in Working /\ proc[p].pc \in Before
    BY Zenon DEF Working, Before
  <2>1. /\ proc[p].ex # None /\ proc[p] \in ProcTypes /\ row \in Rows /\ Unresolved(row) /\ NoLive
        /\ Paying(proc[p], row) /\ row.exec = proc[p].ex
    BY <2>0, WorkerFacts, BeforePays, Zenon
  <2>2. pend = "none" /\ Accounts(row) /\ row.state \notin Terminal
    BY <2>1, UnresolvedRow, Zenon
  <2>r. PICK r : r = [row EXCEPT !.dispatched = TRUE, !.settlement = NoDetails, !.state = "paying",
                                 !.hash = IF proc[p].pc = "invoice" THEN h ELSE None]
    BY Zenon
  <2>m. PICK m : m = [proc[p] EXCEPT !.pc = "poll", !.pay = h, !.keysend = proc[p].pc = "keysend"]
    BY Zenon
  <2>3. r \in Rows /\ r.state = "paying" /\ SameBooks(row, r)
    <3>1. "paying" \in States /\ (IF proc[p].pc = "invoice" THEN h ELSE None) \in Hashes \cup {None}
      BY Zenon DEF States
    <3> QED BY <2>1, <3>1, <2>r, NoDetailsType, ZenonT(60) DEF Rows, SameBooks
  <2>4. /\ m \in Locals /\ m.pc = "poll" /\ m.pay = h /\ m.ex = proc[p].ex /\ m.caller = proc[p].caller
    <3>1. (proc[p].pc = "keysend") \in BOOLEAN
      BY Zenon
    <3>2. m \in ProcTypes /\ m.pc = "poll" /\ m.pay = h /\ m.ex = proc[p].ex /\ m.caller = proc[p].caller
      BY <2>1, <2>m, <3>1, WorkerLabels, ZenonT(60) DEF ProcTypes
    <3> QED BY <3>2, Zenon DEF Locals, Reading
  <2>5. Accounts(r)
    BY <2>1, <2>2, <2>3, BooksKept, Zenon DEF SameBooks
  <2>6. Quieter
    BY <2>1, Zenon DEF Quieter, NoLive, Live
  <2>7. BudgetFollowsPayment' /\ Known'
    <3>1. \A g \in Hashes : ~(wallet'[g] \in {"transit", "inflight", "settled"}) /\ wallet[g] # "settled"
      BY <2>1, Zenon DEF NoLive, Live
    <3> QED BY <3>1, Zenon DEF OneInv, AccountInv, BudgetFollowsPayment, Known, Live
  <2>8. ASSUME proc'[p] = Stored(m, r), row' = r PROVE Paying(proc[p], row)'
    <3>1. /\ Stored(m, r).ex = proc[p].ex /\ Stored(m, r).pc = "poll" /\ Stored(m, r).caller = proc[p].caller
          /\ Stored(m, r).pay = h
      <4>1. m # Idle
        BY <2>1, <2>4, IdleFacts, Zenon
      <4> QED BY <2>4, <4>1, Zenon DEF Stored, Locals, ProcTypes
    <3>2. payer'[h] = proc[p].ex
      BY Zenon DEF OneInv, TypeInv, OtherType
    <3>3. /\ r.resolutions[proc[p].ex] = "none" /\ Unresolved(r)
          /\ proc[p].caller = "client" \/ ledger[proc[p].ex] = "none"
          /\ proc[p].caller = "client" => r.resv = proc[p].ex
      BY <2>1, <2>3, Zenon DEF Paying, SameBooks, Unresolved, Metered, Attached
    <3> QED BY <2>8, <3>1, <3>2, <3>3, Zenon DEF Paying, Before, Metered, Attached, Asking, Called, Unresolved
  <2>9. Update(p, r, m)
    BY <2>r, <2>m, Zenon
  <2>10. Commit(p, r, m) \/ Cancelled(p, r, FALSE)
    BY <2>9, Zenon DEF Update
  <2>11. AccountInv'
    BY <2>1, <2>3, <2>4, <2>5, <2>6, <2>7, <2>8, <2>10, AccountLands, Zenon DEF OneInv
  <2>12. QueueInv' /\ Final
    <3>1. Fits(r)
      BY <2>2, <2>3, UnqueuedFits, Zenon DEF Deliverable
    <3> QED BY <2>1, <2>2, <2>3, <2>9, <3>1, QueueWrite, Zenon DEF OneInv
  <2> QED BY <2>11, <2>12, Zenon DEF Kept

<1>DispatchKept. ASSUME OneProcess, OneInv, NEW p \in Procs, Dispatch(p) PROVE Kept
  <2> USE <1>DispatchKept
  <2>0. proc[p].pc \in {"keysend", "invoice"} /\ UNCHANGED <<links, execs, wallet, ledger, delivery>>
    BY Zenon DEF Dispatch
  <2>1. proc[p].ex # None /\ \A e : ~Pays(e)
    BY <2>0, BeforePays, Zenon DEF Before
  <2>2. ASSUME NEW c \in {"unresolved", "other"}, Ends(p, c), UNCHANGED <<journal, payer>> PROVE Kept
    BY <2>0, <2>1, <2>2, OneEnds, Zenon DEF journal, money
  <2> QED BY <2>0, <2>2, <1>IntentKept, ZenonT(60) DEF Dispatch

\* Between the intent and the call.
<1>AskingFacts.
    ASSUME OneInv, NEW p \in Procs, proc[p].pc \in Asking
    PROVE  /\ proc[p].ex # None /\ proc[p].ex \in Execs /\ proc[p] \in ProcTypes /\ proc[p] \in Locals
           /\ row \in Rows /\ late = {} /\ Paying(proc[p], row) /\ Accounts(row) /\ NoLive /\ row.exec = proc[p].ex
           /\ Unresolved(row) /\ proc[p].pay \in Hashes /\ payer[proc[p].pay] = proc[p].ex
           /\ proc[p].caller = "client" \/ ledger[proc[p].ex] = "none"
           /\ proc[p].caller = "client" => row.resv = proc[p].ex
  <2> USE <1>AskingFacts
  <2>1. proc[p].pc \in Working
    BY Zenon DEF Working
  <2>2. /\ proc[p].ex # None /\ proc[p].ex \in Execs /\ proc[p] \in ProcTypes /\ proc[p] \in Locals
        /\ row \in Rows /\ late = {} /\ Paying(proc[p], row) /\ Accounts(row)
        /\ Local(proc[p]) /\ Owns(proc[p], row)
    BY <2>1, WorkerFacts, Zenon
  <2>3. NoLive /\ row.exec = proc[p].ex /\ Unresolved(row) /\ proc[p].pay \in Hashes
    BY <2>2, Zenon DEF Local, Owns
  <2>4. /\ payer[proc[p].pay] = proc[p].ex
        /\ proc[p].caller = "client" \/ ledger[proc[p].ex] = "none"
        /\ proc[p].caller = "client" => row.resv = proc[p].ex
    BY <2>2, Zenon DEF Paying, Metered, Attached
  <2> QED BY <2>2, <2>3, <2>4, Zenon

\* The wallet takes the payment: it is covered by the reservation on the row.
<1>CallKept.
    ASSUME OneProcess, OneInv, NEW p \in Procs, proc[p].pc = "poll", Authorized(p),
           wallet' = [wallet EXCEPT ![proc[p].pay] = "transit"], Goto(p, "calling"),
           UNCHANGED <<row, late, links, execs, payer, ledger, delivery>>
    PROVE  Kept
  <2> USE <1>CallKept
  <2>0. /\ proc[p].ex # None /\ proc[p].ex \in Execs /\ proc[p] \in ProcTypes
        /\ row \in Rows /\ late = {} /\ Paying(proc[p], row) /\ Accounts(row) /\ NoLive /\ row.exec = proc[p].ex
        /\ Unresolved(row) /\ proc[p].pay \in Hashes /\ payer[proc[p].pay] = proc[p].ex
        /\ proc[p].caller = "client" \/ ledger[proc[p].ex] = "none"
        /\ proc[p].caller = "client" => row.resv = proc[p].ex
    BY <1>AskingFacts, Zenon DEF Asking
  <2>1. \A h \in Hashes : wallet'[h] = IF h = proc[p].pay THEN "transit" ELSE wallet[h]
    BY Zenon DEF OneInv, TypeInv, OtherType
  <2>2. \A h \in Hashes : (Live(h))' => h = proc[p].pay
    BY <2>0, <2>1, Zenon DEF NoLive, Live
  <2>3. \A e : Pays(e)' => e = proc[p].ex
    BY <2>0, <2>2, Zenon DEF Pays
  <2>4. \A e : ~HasPaid(e)
    BY <2>0, Zenon DEF HasPaid, NoLive, Live
  <2>5. ledger[proc[p].ex] \in {"none", "reserved"} /\ (ledger[proc[p].ex] = "reserved" => row.resv = proc[p].ex)
    BY <2>0, Zenon DEF Authorized
  <2>6. BudgetFollowsPayment' /\ Known'
    <3>1. \A e \in Execs : ledger[e] = "charged" => HasPaid(e)
      BY Zenon DEF OneInv, AccountInv, BudgetFollowsPayment, HasPaid
    <3>2. \A e \in Execs : ledger'[e] = "released" => ~Pays(e)'
      BY <2>3, <2>5, Zenon
    <3>3. BudgetFollowsPayment'
      BY <2>4, <3>1, <3>2, Zenon DEF BudgetFollowsPayment, Pays
    <3> QED BY <3>3, Zenon DEF OneInv, AccountInv, Known
  <2>7. Accounts(row)'
    <3>1. Sound(row)'
      <4>1. \A e \in Execs : row.resolutions[e] # "paid"
        BY <2>0, <2>4, Zenon DEF Accounts, Sound
      <4> QED BY <2>0, <2>3, <4>1, Zenon DEF Accounts, Sound, Paying
    <3>2. Attributed(row)'
      BY <2>0, <2>2, Zenon DEF Accounts, Attributed
    <3>3. ~row.compacted
      BY <2>0, UnresolvedRow, Zenon
    <3>4. Receipted(row)'
      BY <3>3, Zenon DEF Receipted
    <3>5. Accounted(row)'
      BY <2>3, <2>5, Zenon DEF Accounted
    <3> QED BY <3>1, <3>2, <3>4, <3>5, Zenon DEF Accounts
  <2>8. proc'[p].pc = "calling" /\ proc'[p].ex = proc[p].ex /\ proc'[p].pay = proc[p].pay
    <3>1. proc'[p] = [proc[p] EXCEPT !.pc = "calling"]
      BY Zenon DEF Goto, OneInv, TypeInv, JournalType
    <3> QED BY <2>0, <3>1, Zenon DEF ProcTypes
  <2>9. Paying(proc[p], row)' /\ Reads(proc[p])'
    <3>1. row'.resolutions[proc[p].ex] = "none" /\ Unresolved(row)' /\ payer'[proc[p].pay] = proc[p].ex
      BY <2>0, Zenon DEF Paying, Unresolved
    <3> QED BY <2>8, <3>1, Zenon DEF Paying, Before, Metered, Attached, Asking, Called, Reads, Reading
  <2>10. AllRows' = {row}
    BY <2>0, Zenon DEF AllRows
  <2>11. \A r \in AllRows' : Accounts(r)'
    <3>1. \A r : r = row' /\ Accounts(row)' => Accounts(r)'
      BY Zenon DEF Accounts, Sound, Attributed, Receipted, Accounted
    <3> QED BY <2>7, <2>10, <3>1, Zenon
  <2>12. AccountInv'
    BY <2>0, <2>6, <2>9, <2>11, OneQuantified, Zenon DEF AccountInv
  <2> QED BY <2>12, QueueStays, Zenon DEF OneInv, Kept

<1>PollWalletKept. ASSUME OneProcess, OneInv, NEW p \in Procs, PollWallet(p) PROVE Kept
  <2> USE <1>PollWalletKept
  <2>0. proc[p].pc = "poll" /\ UNCHANGED <<row, late, links, execs, payer, ledger, delivery>>
    BY Zenon DEF PollWallet, journal
  <2>1. proc[p].ex # None /\ proc[p] \in ProcTypes /\ Paying(proc[p], row)
    BY <2>0, <1>AskingFacts, Zenon DEF Asking
  <2>2. ASSUME NEW l \in {"invoice", "debit"}, proc' = [proc EXCEPT ![p].pc = "unsent", ![p].next = l], UNCHANGED wallet PROVE Kept
    <3>m. PICK m : m = [proc[p] EXCEPT !.pc = "unsent", !.next = l]
      BY Zenon
    <3>1. m.pc = "unsent" /\ m.ex = proc[p].ex /\ m.caller = proc[p].caller /\ m.pay = proc[p].pay
      BY <2>1, <3>m, Zenon DEF ProcTypes
    <3>2. proc' = [proc EXCEPT ![p] = m]
      BY <2>2, <3>m, ZenonT(60) DEF OneInv, TypeInv, JournalType
    <3>3. Paying(m, row)
      BY <2>0, <2>1, <3>1, Zenon DEF Paying, Before, Metered, Attached, Asking, Called
    <3>4. m.pc \notin Reading
      BY <3>1, Zenon DEF Reading
    <3> QED BY <2>0, <2>1, <2>2, <3>1, <3>2, <3>3, <3>4, WorkerKeeps, Zenon DEF money
  <2> QED BY <2>0, <2>2, <1>CallKept, Zenon DEF PollWallet

<1>UnsentKept. ASSUME OneProcess, OneInv, NEW p \in Procs, Unsent(p) PROVE Kept
  <2> USE <1>UnsentKept
  <2>0. proc[p].pc = "unsent" /\ UNCHANGED <<links, execs, money, delivery>>
    BY Zenon DEF Unsent
  <2>1. /\ proc[p].ex # None /\ proc[p] \in ProcTypes
        /\ row \in Rows /\ Paying(proc[p], row) /\ Accounts(row) /\ NoLive /\ row.exec = proc[p].ex
        /\ Unresolved(row)
        /\ proc[p].caller = "client" \/ ledger[proc[p].ex] = "none"
        /\ proc[p].caller = "client" => row.resv = proc[p].ex
    BY <2>0, <1>AskingFacts, Zenon DEF Asking
  <2>2. ~Pays(proc[p].ex)
    BY <2>1, NothingLive, Zenon
  <2>3. ASSUME NEW c \in {"unresolved", "other"}, Ends(p, c), UNCHANGED journal PROVE Kept
    BY <2>0, <2>1, <2>2, <2>3, OneEnds, Zenon DEF journal
  <2> DEFINE i == [proc[p] EXCEPT !.pc = "invoice", !.next = "idle", !.pay = None, !.keysend = FALSE]
  <2>4. CASE Update(p, [row EXCEPT !.dispatched = FALSE, !.hash = None], IF proc[p].next = "invoice" THEN i ELSE Ended(p, "other"))
    <3>r. PICK r : r = [row EXCEPT !.dispatched = FALSE, !.hash = None]
      BY Zenon
    <3>m. PICK m : m = IF proc[p].next = "invoice" THEN i ELSE Ended(p, "other")
      BY Zenon
    <3>1. r \in Rows /\ SameBooks(row, r) /\ r.state = row.state /\ ~r.dispatched
      BY <2>1, <3>r, ZenonT(60) DEF Rows, SameBooks
    <3>2. r.resolutions[proc[p].ex] = "none" /\ r.exec = proc[p].ex /\ r.resv = row.resv /\ Unresolved(r)
      BY <2>1, <3>1, Zenon DEF SameBooks, Paying, Unresolved
    <3>3. row.state \notin Deliverable
      BY <2>1, UnresolvedRow, Zenon
    <3>4. Accounts(r)
      BY <2>1, <3>1, <3>2, BooksKept, Zenon
    <3>5. m \in Locals /\ m.ex = proc[p].ex /\ Paying(m, r)
      <4>1. CASE m = Ended(p, "other")
        BY <2>1, <2>2, <3>2, <4>1, EndedPays, Zenon
      <4>2. CASE m = i
        <5>1. {"invoice", "idle"} \subseteq Labels
          BY Zenon DEF Labels
        <5>2. i \in ProcTypes /\ i.pc = "invoice" /\ i.ex = proc[p].ex /\ i.caller = proc[p].caller
          BY <2>1, <5>1, ZenonT(60) DEF ProcTypes
        <5>3. m.pc = "invoice" /\ m.ex = proc[p].ex /\ m.caller = proc[p].caller /\ m \in Locals
          BY <4>2, <5>2, Zenon DEF Locals, Reading
        <5>4. Paying(m, r)
          BY <2>1, <3>1, <3>2, <5>3, Zenon DEF Paying, Before, Metered, Attached, Asking, Called
        <5> QED BY <5>3, <5>4, Zenon
      <4> QED BY <3>m, <4>1, <4>2, Zenon
    <3>6. Update(p, r, m)
      BY <2>4, <3>r, <3>m, Zenon
    <3> QED BY <2>0, <2>1, <3>1, <3>3, <3>4, <3>5, <3>6, WorkerSave, Zenon
  <2> QED BY <2>3, <2>4, Zenon DEF Unsent

\* After the call: the payment is of this execution, and the row is not paid yet.
<1>CalledFacts.
    ASSUME OneInv, NEW p \in Procs, proc[p].pc \in Called
    PROVE  /\ proc[p].ex # None /\ proc[p] \in ProcTypes /\ proc[p] \in Locals /\ row \in Rows
           /\ row.resolutions[proc[p].ex] = "none"
           /\ Paying(proc[p], row) /\ Accounts(row) /\ Unresolved(row) /\ row.exec # None
           /\ row.state \notin Deliverable
           /\ proc[p].pay \in Hashes /\ payer[proc[p].pay] = proc[p].ex /\ Local(proc[p])
  <2> USE <1>CalledFacts
  <2>1. proc[p].pc \in Working
    BY Zenon DEF Working
  <2>2. /\ proc[p].ex # None /\ proc[p] \in ProcTypes /\ proc[p] \in Locals /\ row \in Rows
        /\ row.resolutions[proc[p].ex] = "none" /\ Local(proc[p])
        /\ Paying(proc[p], row) /\ Accounts(row)
    BY <2>1, WorkerFacts, Zenon
  <2>3. Unresolved(row) /\ payer[proc[p].pay] = proc[p].ex
    BY <2>2, Zenon DEF Paying
  <2>4. proc[p].pay \in Hashes
    BY <2>2, Zenon DEF Local
  <2>5. row.exec # None /\ row.state \notin Deliverable
    BY <2>2, <2>3, UnresolvedRow, Zenon
  <2> QED BY <2>2, <2>3, <2>4, <2>5, Zenon

\* The next step after the call, over a row with the same books.
<1>CalledPays.
    ASSUME OneInv, NEW p \in Procs, proc[p].pc \in Called, NEW r, SameBooks(row, r), r.state = row.state,
           NEW m, m.ex = proc[p].ex, m.pay = proc[p].pay, m.pc \in Called, m.pc = "materialize" => HasPaid(proc[p].ex)
    PROVE  Paying(m, r)
  <2> USE <1>CalledPays
  <2>1. r.resolutions[m.ex] = "none" /\ Unresolved(r) /\ payer[m.pay] = m.ex
    BY <1>CalledFacts, Zenon DEF SameBooks, Unresolved
  <2>2. m.pc \notin Before /\ m.pc \notin Metered /\ m.pc \notin Attached /\ m.pc \notin {"resend", "sending", "debit"}
    BY SMTT(60) DEF Called, Before, Metered, Attached, Asking
  <2>3. m.pc # "reserve"
    BY Zenon DEF Called
  <2> QED BY <2>1, <2>2, <2>3, Zenon DEF Paying

<1>AnswerKept.
    ASSUME OneProcess, OneInv, NEW p \in Procs, WalletReturns(p) \/ AwaitSettlement(p) PROVE Kept
  <2> USE <1>AnswerKept
  <2>0. proc[p].pc \in {"calling", "await"} /\ UNCHANGED <<row, late, links, execs, money, delivery>>
    BY ZenonT(60) DEF WalletReturns, AwaitSettlement, journal
  <2>1. proc[p].pc \in Called /\ proc[p].ex # None /\ proc[p] \in ProcTypes
    BY <2>0, <1>CalledFacts, Zenon DEF Called
  <2>2. ASSUME NEW d, proc' = [proc EXCEPT ![p].pc = "record", ![p].seen = d] PROVE Kept
    <3>m. PICK m : m = [proc[p] EXCEPT !.pc = "record", !.seen = d]
      BY Zenon
    <3>1. proc' = [proc EXCEPT ![p] = m]
      BY <2>2, <3>m, ZenonT(60) DEF OneInv, TypeInv, JournalType
    <3>2. m.pc = "record" /\ m.ex = proc[p].ex /\ m.pay = proc[p].pay
      BY <2>1, <3>m, ZenonT(60) DEF ProcTypes
    <3>3. m.pc \notin Reading /\ m.pc \in Called
      BY <3>2, Zenon DEF Reading, Called
    <3>4. SameBooks(row, row)
      BY Zenon DEF SameBooks
    <3>5. Paying(m, row)
      BY <2>1, <3>2, <3>3, <3>4, <1>CalledPays, Zenon
    <3> QED BY <2>0, <2>1, <3>1, <3>2, <3>3, <3>5, WorkerKeeps, Zenon
  <2>3. CASE Ends(p, "unresolved")
    BY <2>0, <2>1, <2>3, OneEnds, Zenon
  <2> QED BY <2>2, <2>3, ZenonT(60) DEF WalletReturns, AwaitSettlement

<1>RecordKept. ASSUME OneProcess, OneInv, NEW p \in Procs, Record(p) PROVE Kept
  <2> USE <1>RecordKept
  <2> DEFINE me == proc[p]
             d == me.seen
             h == IF d.hash = None THEN row.hash ELSE d.hash
             s == [d EXCEPT !.hash = h]
             then == CASE d.status = "settled" -> [me EXCEPT !.pc = "envelope"]
                       [] d.status = "failed" -> Ended(p, "other")
                       [] d.hash = None -> Ended(p, "unresolved")
                       [] OTHER -> [me EXCEPT !.pc = "await"]
  <2>0. me.pc = "record" /\ me.pc \in Called /\ UNCHANGED <<links, execs, money, delivery>>
    BY Zenon DEF Record, Called
  <2>1. /\ me.ex # None /\ me \in ProcTypes /\ row \in Rows /\ row.resolutions[me.ex] = "none"
        /\ Accounts(row) /\ Unresolved(row) /\ row.exec # None /\ row.state \notin Deliverable
        /\ me.pay \in Hashes /\ payer[me.pay] = me.ex /\ Local(me)
    BY <2>0, <1>CalledFacts, Zenon
  <2>2. CASE Ends(p, "unresolved") /\ UNCHANGED journal
    BY <2>0, <2>1, <2>2, OneEnds, Zenon DEF journal
  <2>3. CASE Mine(p) /\ Update(p, [row EXCEPT !.hash = h, !.settlement = s], then)
    <3>1. h \in Hashes \cup {None} /\ s \in Details
      <4>1. row.hash \in Hashes \cup {None} /\ d \in Details
        BY <2>1, Zenon DEF Rows, ProcTypes
      <4>2. h \in Hashes \cup {None}
        BY <4>1, Zenon DEF Details
      <4> HIDE DEF h, d
      <4> QED BY <4>1, <4>2, Zenon DEF Details
    <3>r. PICK r : r = [row EXCEPT !.hash = h, !.settlement = s]
      BY Zenon
    <3>2. r \in Rows /\ SameBooks(row, r) /\ r.state = row.state
      <4> HIDE DEF h, s
      <4> QED BY <2>1, <3>1, <3>r, ZenonT(60) DEF Rows, SameBooks
    <3>3. Accounts(r) /\ r.resolutions[me.ex] = "none"
      BY <2>1, <3>2, BooksKept, Zenon DEF SameBooks
    <3>4. d.status = "failed" => ~Pays(me.ex)
      <4> SUFFICES ASSUME d.status = "failed" PROVE ~Pays(me.ex)
        BY Zenon
      <4>1. wallet[me.pay] = "failed"
        BY <2>0, <2>1, Zenon DEF Local
      <4>2. \A g \in Hashes : Live(g) => g = me.pay
        BY <2>0, <2>3, CalledRow, Zenon DEF OneInv
      <4> QED BY <4>1, <4>2, Zenon DEF Pays, Live
    <3>5. ASSUME NEW m \in Locals, m.ex = me.ex, Paying(m, r), then = m PROVE Kept
      <4>1. Update(p, r, m)
        BY <2>3, <3>5, <3>r, Zenon
      <4> HIDE DEF then
      <4> QED BY <2>0, <2>1, <3>2, <3>3, <3>5, <4>1, WorkerSave, Zenon
    <3>6. ASSUME NEW c \in {"other", "unresolved"}, c = "other" => d.status = "failed", then = Ended(p, c) PROVE Kept
      <4>1. Paying(Ended(p, c), r) /\ Ended(p, c) \in Locals /\ Ended(p, c).ex = me.ex
        <5> HIDE DEF then
        <5> QED BY <2>1, <3>3, <3>4, <3>6, EndedPays, Zenon
      <4> QED BY <3>5, <3>6, <4>1, Zenon
    <3>7. ASSUME NEW l \in {"await", "envelope"}, then = [me EXCEPT !.pc = l] PROVE Kept
      <4>m. PICK m : m = [me EXCEPT !.pc = l]
        BY Zenon
      <4> HIDE DEF then
      <4>1. m.pc = l /\ m.ex = me.ex /\ m.pay = me.pay
        BY <2>1, <4>m, Zenon DEF ProcTypes
      <4>2. m \in Locals
        BY <4>m, WorkerLocals, WorkerLabels, Zenon DEF OneInv
      <4>3. m.pc \in Called /\ m.pc # "materialize"
        BY <4>1, Zenon DEF Called
      <4>4. Paying(m, r)
        BY <2>0, <3>2, <4>1, <4>3, <1>CalledPays, Zenon
      <4> QED BY <3>5, <3>7, <4>m, <4>1, <4>2, <4>4, Zenon
    <3> QED BY <3>6, <3>7
  <2> QED BY <2>2, <2>3, Zenon DEF Record

<1>EnvelopeKept. ASSUME OneProcess, OneInv, NEW p \in Procs, SettledEnvelope(p) PROVE Kept
  <2> USE <1>EnvelopeKept
  <2>0. proc[p].pc = "envelope" /\ proc[p].pc \in Called /\ UNCHANGED <<links, execs, money, delivery>>
    BY Zenon DEF SettledEnvelope, Called
  <2>1. /\ proc[p].ex # None /\ proc[p] \in ProcTypes /\ row \in Rows
        /\ Accounts(row) /\ Unresolved(row) /\ row.exec # None /\ row.state \notin Deliverable
        /\ proc[p].pay \in Hashes /\ payer[proc[p].pay] = proc[p].ex /\ Local(proc[p])
    BY <2>0, <1>CalledFacts, Zenon
  <2>2. HasPaid(proc[p].ex)
    <3>1. wallet[proc[p].pay] = "settled"
      BY <2>0, <2>1, Zenon DEF Local
    <3> QED BY <2>1, <3>1, Zenon DEF HasPaid
  <2>3. ASSUME NEW c \in {"unresolved", "proof"}, Ends(p, c), UNCHANGED journal PROVE Kept
    BY <2>0, <2>1, <2>2, <2>3, OneEnds, Zenon DEF journal
  <2>4. CASE Update(p, [row EXCEPT !.ready = TRUE, !.settled = TRUE], [proc[p] EXCEPT !.pc = "materialize"])
    <3>r. PICK r : r = [row EXCEPT !.ready = TRUE, !.settled = TRUE]
      BY Zenon
    <3>m. PICK m : m = [proc[p] EXCEPT !.pc = "materialize"]
      BY Zenon
    <3>1. r \in Rows /\ SameBooks(row, r) /\ r.state = row.state
      BY <2>1, <3>r, ZenonT(60) DEF Rows, SameBooks
    <3>2. Accounts(r)
      BY <2>1, <3>1, BooksKept, Zenon DEF SameBooks
    <3>3. m.pc = "materialize" /\ m.ex = proc[p].ex /\ m.pay = proc[p].pay
      BY <2>1, <3>m, Zenon DEF ProcTypes
    <3>4. m \in Locals
      BY <3>m, WorkerLocals, WorkerLabels, Zenon DEF OneInv
    <3>5. m.pc \in Called
      BY <3>3, Zenon DEF Called
    <3>6. Paying(m, r)
      BY <2>0, <2>2, <3>1, <3>3, <3>5, <1>CalledPays, Zenon
    <3>7. Update(p, r, m)
      BY <2>4, <3>r, <3>m, Zenon
    <3> QED BY <2>0, <2>1, <3>1, <3>2, <3>3, <3>4, <3>6, <3>7, WorkerSave, Zenon
  <2> QED BY <2>3, <2>4, Zenon DEF SettledEnvelope

<1>PaidCommitKept. ASSUME OneProcess, OneInv, NEW p \in Procs, PaidCommit(p) PROVE Kept
  <2> USE <1>PaidCommitKept
  <2>0. proc[p].pc = "materialize" /\ proc[p].pc \in Called /\ UNCHANGED <<links, execs, money>>
    BY Zenon DEF PaidCommit, Called
  <2>1. /\ proc[p].ex # None /\ row \in Rows /\ row.resolutions[proc[p].ex] = "none" /\ Paying(proc[p], row)
        /\ Accounts(row) /\ Unresolved(row) /\ row.exec # None
    BY <2>0, <1>CalledFacts, Zenon
  <2>2. HasPaid(proc[p].ex)
    BY <2>0, <2>1, Zenon DEF Paying
  <2>3. CASE Ends(p, "proof") /\ UNCHANGED <<journal, delivery>>
    BY <2>0, <2>1, <2>2, <2>3, OneEnds, Zenon DEF journal
  <2>4. CASE Materialize(p, row, [Ended(p, "ok") EXCEPT !.pc = "resend"])
    <3>m. PICK m : m = [Ended(p, "ok") EXCEPT !.pc = "resend"]
      BY Zenon
    <3>1. Ended(p, "ok") \in Locals /\ Ended(p, "ok").ex = proc[p].ex /\ m \in Locals
      BY <2>1, <2>2, <3>m, EndedPays, WorkerLocals, Zenon DEF OneInv
    <3>2. m.pc = "resend" /\ m.ex = proc[p].ex
      BY <3>1, <3>m, Zenon DEF Locals, ProcTypes
    <3>3. \A s : SameBooks(row, s) => Paying(m, s)
      BY <2>1, <2>2, <3>2, Zenon DEF SameBooks, Paying, Before, Metered, Attached, Asking, Called
    <3>4. Materialize(p, row, m)
      BY <2>4, <3>m, Zenon
    <3> QED BY <2>0, <2>1, <3>1, <3>2, <3>3, <3>4, OneMaterialize, Zenon
  <2> QED BY <2>3, <2>4, Zenon DEF PaidCommit
<1> QED
  BY <1>DispatchKept, <1>PollWalletKept, <1>UnsentKept, <1>AnswerKept, <1>RecordKept, <1>EnvelopeKept, <1>PaidCommitKept, Zenon

LEMMA WorkerKept == ASSUME OneProcess, OneInv, NEW p \in Procs, Worker(p) PROVE Kept
BY PreparingKept, PayingKept, Zenon DEF Worker

-----------------------------------------------------------------------------
(* The sweep *)

LEMMA LoadedFacts ==
    ASSUME OneInv, row # None
    PROVE  row \in Rows /\ row \in AllRows /\ Accounts(row) /\ RowInv(row) /\ Fits(row)
<1>1. row \in Rows /\ row \in AllRows
  BY Zenon DEF OneInv, TypeInv, JournalType, AllRows
<1> QED BY <1>1, Zenon DEF OneInv, AccountInv, Inv, RowsInv, QueueInv

LEMMA RecoveryKept == \A p \in Procs : OneProcess /\ OneInv /\ Recovery(p) => Kept
\* The reservations are listed at any time: those that a receipt does not know paid nothing.
<1>ListLinksKept. ASSUME OneProcess, OneInv, NEW p \in Procs, ListLinks(p) PROVE Kept
  <2> USE <1>ListLinksKept
  <2>0. UNCHANGED <<row, late, proc, execs, wallet, payer, ledger, money, delivery>>
    BY Zenon DEF ListLinks, journal, money
  <2>1. links'[p] = {e \in Execs : ledger[e] = "reserved"}
    BY Zenon DEF ListLinks, OneInv, TypeInv, OtherType
  <2>2. \A e : (Pays(e)' <=> Pays(e)) /\ (HasPaid(e)' <=> HasPaid(e))
    BY <2>0, Zenon DEF Pays, HasPaid, Live
  <2>3. ASSUME NEW r, Accounts(r) PROVE Accounts(r)'
    <3>1. Sound(r)' /\ Attributed(r)' /\ Accounted(r)'
      BY <2>0, <2>2, <2>3, Zenon DEF Accounts, Sound, Attributed, Accounted, Live
    <3>2. Receipted(r)'
      <4> SUFFICES ASSUME r.compacted
                   PROVE  /\ r.resv = None
                          /\ \A e \in Execs : r.resolutions[e] \in {"none", "zero"}
                          /\ \A q \in Procs : \A e \in links'[q] : ~Pays(e)'
        BY Zenon DEF Receipted
      <4>1. r.resv = None /\ \A e \in Execs : r.resolutions[e] \in {"none", "zero"}
        BY <2>3, Zenon DEF Accounts, Receipted
      <4>2. \A e \in Execs : ledger[e] = "reserved" => ~Pays(e)
        BY <2>3, <4>1, OperationsAssumption, Zenon DEF Accounts, Accounted
      <4> QED BY <2>1, <2>2, <4>1, <4>2, OneQuantified, Zenon
    <3> QED BY <3>1, <3>2, Zenon DEF Accounts
  <2>4. AllRows' = AllRows
    BY <2>0, Zenon DEF AllRows
  <2>5. BudgetFollowsPayment' /\ Known'
    <3>1. \A q \in Procs : links'[q] \subseteq execs'
      BY <2>0, <2>1, OneQuantified, Zenon DEF OneInv, AccountInv, Known
    <3> QED BY <2>0, <3>1, Zenon DEF OneInv, AccountInv, BudgetFollowsPayment, Known, Live
  <2>6. ASSUME NEW q \in Procs
        PROVE  /\ proc'[q].ex # None => late' = {} /\ row' \in Rows /\ Paying(proc[q], row)'
               /\ Reads(proc[q])'
    <3>1. proc'[q].ex # None => late = {} /\ row \in Rows /\ Paying(proc[q], row)
      BY <2>0, Zenon DEF OneInv, AccountInv
    <3>2. Paying(proc[q], row) => Paying(proc[q], row)'
      BY <2>0, <2>2, Zenon DEF Paying, Unresolved
    <3>3. Sound(proc[q].op) => Sound(proc[q].op)'
      BY <2>0, <2>2, Zenon DEF Sound
    <3>4. Reads(proc[q])'
      BY <2>0, <3>3, Zenon DEF OneInv, AccountInv, Reads, Drainable
    <3> QED BY <2>0, <3>1, <3>2, <3>4, Zenon
  <2>7. AccountInv'
    BY <2>3, <2>4, <2>5, <2>6, Zenon DEF OneInv, AccountInv
  <2> QED BY <2>0, <2>7, QueueStays, Zenon DEF OneInv, Kept

<1>SweepKept. ASSUME OneProcess, OneInv, NEW p \in Procs, Sweep(p) PROVE Kept
  <2> USE <1>SweepKept
  <2>m. PICK m : m = [Idle EXCEPT !.task = "sweep", !.op = row, !.next = "reconcile",
                                  !.pc = IF row.state = "abandoned" THEN "abandoned" ELSE "attach"]
    BY Zenon
  <2>1. m.ex = None /\ m.op = row /\ m.pc = IF row.state = "abandoned" THEN "abandoned" ELSE "attach"
    BY <2>m, ZenonT(60) DEF Idle
  <2>2. row # None /\ proc' = [proc EXCEPT ![p] = m] /\ UNCHANGED <<row, late, links, execs, money, delivery>>
    BY <2>m, Zenon DEF Sweep
  <2> QED BY <2>1, <2>2, LoadedReads, Zenon

<1>SweepAbandonedKept. ASSUME OneProcess, OneInv, NEW p \in Procs, SweepAbandoned(p) PROVE Kept
  <2> USE <1>SweepAbandonedKept
  <2>0. proc[p].pc = "abandoned" /\ proc[p].pc \in Reading /\ UNCHANGED <<links, execs, money, delivery>>
    BY Zenon DEF SweepAbandoned, Reading
  <2>m. PICK m : m = [proc[p] EXCEPT !.pc = "drain", !.next = "idle"]
    BY Zenon
  <2>1. GoesOn(proc[p], m, "drain")
    <3>1. "drain" \in Reading /\ "idle" \in Resumes
      BY Zenon DEF Reading, Resumes
    <3> QED BY <2>0, <2>m, <3>1, ReaderNext, Zenon
  <2>2. m \in Locals /\ m.ex = None /\ m.pc = "drain" /\ Reads(m)
    BY <2>1, Zenon DEF GoesOn
  <2>3. CASE proc' = [proc EXCEPT ![p].pc = "drain", ![p].next = "idle"] /\ UNCHANGED journal
    <3>1. proc' = [proc EXCEPT ![p] = m]
      BY <2>3, <2>m, ZenonT(60) DEF OneInv, TypeInv, JournalType
    <3> QED BY <2>0, <2>2, <2>3, <3>1, OneMove, Zenon DEF journal
  <2>4. CASE Save(p, QueueAll(proc[p].op, links[p]), m)
    <3>1. proc[p].op = row /\ row \in Rows /\ Accounts(row) /\ RowInv(row) /\ Fits(row) /\ row.state = "abandoned"
      BY <2>0, <2>4, ReaderLocals, Zenon DEF Save, Reads
    <3>2. \A e : ~Pays(e)
      BY <3>1, NothingLive, Zenon DEF RowInv, Unpaid
    <3>3. \A e \in links[p] : e \in execs
      BY Zenon DEF OneInv, AccountInv, Known
    <3>r. PICK r : r = QueueAll(row, links[p])
      BY Zenon
    <3>4. Accounts(r) /\ r \in Rows /\ SameQueue(row, r)
      BY <3>1, <3>2, <3>3, <3>r, QueuedAllBooks, Zenon
    <3>5. Fits(r) /\ r.state = row.state
      BY <3>1, <3>4, FitsKept, Zenon DEF SameQueue
    <3> QED BY <2>0, <2>2, <2>4, <3>1, <3>4, <3>5, <3>r, OneSave, Zenon
  <2> QED BY <2>m, <2>3, <2>4, Zenon DEF SweepAbandoned

\* What attach_recovered makes of the row.
<1>RecoveredBooks.
    ASSUME OneInv, NEW p \in Procs, NEW r \in Rows, Accounts(r), NEW es, NEW mine, es \subseteq links[p], mine \subseteq links[p],
           \A e \in es : r.compacted \/ (r.exec # None /\ r.exec # e),
           \A e \in mine : ~r.compacted /\ r.exec \in {None, e},
           NEW v \in IF r.resv = None /\ mine # {} THEN mine ELSE {r.resv}
    PROVE  LET s == [QueueAll(r, es) EXCEPT !.resv = v] IN
           Accounts(s) /\ s \in Rows /\ SameQueue(r, s)
  <2> USE <1>RecoveredBooks
  <2>0. links[p] \subseteq execs /\ links[p] \subseteq Execs
    BY Zenon DEF OneInv, AccountInv, Known, TypeInv, OtherType
  <2>1. \A e \in es : e \in execs /\ ~Pays(e)
    <3> SUFFICES ASSUME NEW e \in es PROVE ~Pays(e)
      BY <2>0, Zenon
    <3>1. CASE r.compacted
      BY <3>1, Zenon DEF Accounts, Receipted
    <3>2. CASE r.exec # None /\ r.exec # e
      BY <3>2, Zenon DEF Accounts, Attributed, Pays
    <3> QED BY <3>1, <3>2, Zenon
  <2>q. PICK q : q = QueueAll(r, es)
    BY Zenon
  <2>2. Accounts(q) /\ q \in Rows /\ SameQueue(r, q) /\ q.resv = r.resv /\ q.exec = r.exec
    BY <2>1, <2>q, QueuedAllBooks, Zenon
  <2>3. CASE v = r.resv
    <3>1. [q EXCEPT !.resv = v] = q
      BY <2>2, <2>3, Zenon DEF Rows
    <3> QED BY <2>2, <2>q, <3>1, Zenon
  <2>4. CASE v # r.resv
    <3>1. v \in mine /\ r.resv = None
      BY <2>4, Zenon
    <3>2. v \in Execs /\ v \in execs /\ ~r.compacted /\ r.exec \in {None, v}
      BY <2>0, <3>1, Zenon
    <3>s. PICK s : s = [q EXCEPT !.resv = v]
      BY Zenon
    <3>3. Accounts(s) /\ s \in Rows /\ SameQueue(q, s)
      BY <2>2, <3>1, <3>2, <3>s, AttachedBooks, Zenon DEF SameQueue
    <3>4. SameQueue(r, s)
      BY <2>2, <3>3, Zenon DEF SameQueue
    <3> QED BY <2>q, <3>s, <3>3, <3>4, Zenon
  <2> QED BY <2>3, <2>4, Zenon

<1>AttachRecoveredKept. ASSUME OneProcess, OneInv, NEW p \in Procs, AttachRecovered(p) PROVE Kept
  <2> USE <1>AttachRecoveredKept
  <2> DEFINE r == proc[p].op
             fresh == {e \in links[p] : r.resolutions[e] = "none"}
             stale == {e \in fresh : r.compacted \/ (r.exec # None /\ r.exec # e)}
             mine == fresh \ stale
  <2>0. proc[p].pc \in Reading /\ UNCHANGED <<links, execs, money, delivery>>
    BY ZenonT(60) DEF AttachRecovered, Reading
  <2>m. PICK m : m = [proc[p] EXCEPT !.pc = "budget"]
    BY Zenon
  <2>1. m \in Locals /\ m.ex = None /\ m.pc = "budget" /\ Reads(m)
    <3>1. "budget" \in Reading
      BY Zenon DEF Reading
    <3> QED BY <2>0, <2>m, <3>1, ReaderReads, Zenon
  <2>2. PICK v \in IF r.resv = None /\ mine # {} THEN mine ELSE {r.resv} :
            LET attached == [QueueAll(r, stale) EXCEPT !.resv = v] IN
            IF attached = r
            THEN Goto(p, "budget") /\ UNCHANGED journal
            ELSE Save(p, attached, [proc[p] EXCEPT !.pc = "budget"])
    BY ZenonT(60) DEF AttachRecovered
  <2>s. PICK s : s = [QueueAll(r, stale) EXCEPT !.resv = v]
    BY Zenon
  <2>3. CASE Goto(p, "budget") /\ UNCHANGED journal
    <3>1. proc' = [proc EXCEPT ![p] = m]
      BY <2>3, <2>m, Zenon DEF Goto, OneInv, TypeInv, JournalType
    <3> QED BY <2>0, <2>1, <2>3, <3>1, OneMove, Zenon DEF journal
  <2>4. CASE Save(p, s, m)
    <3>1. r = row /\ row \in Rows /\ Accounts(row) /\ Fits(row)
      BY <2>0, <2>4, ReaderLocals, Zenon DEF Save
    <3>2. /\ stale \subseteq links[p] /\ mine \subseteq links[p]
          /\ \A e \in stale : r.compacted \/ (r.exec # None /\ r.exec # e)
          /\ \A e \in mine : ~r.compacted /\ r.exec \in {None, e}
      BY Zenon
    <3> HIDE DEF stale, mine
    <3>3. Accounts(s) /\ s \in Rows /\ SameQueue(r, s)
      BY <2>2, <2>s, <3>1, <3>2, <1>RecoveredBooks, Zenon
    <3>4. Fits(s) /\ s.state = row.state
      BY <3>1, <3>3, FitsKept, Zenon DEF SameQueue
    <3> QED BY <2>0, <2>1, <2>4, <3>3, <3>4, OneSave, Zenon
  <2> QED BY <2>2, <2>m, <2>s, <2>3, <2>4, Zenon

<1>RecoverPaidKept. ASSUME OneProcess, OneInv, NEW p \in Procs, RecoverPaid(p) PROVE Kept
  <2> USE <1>RecoverPaidKept
  <2>0. proc[p].pc = "paid" /\ proc[p].pc \in Reading /\ UNCHANGED <<links, execs, money, delivery>>
    BY Zenon DEF RecoverPaid, Reading
  <2>1. CASE Finish(p) /\ UNCHANGED <<row, late>>
    BY <2>0, <2>1, OneFinish, Zenon
  <2>2. CASE Goto(p, "resend") /\ UNCHANGED journal
    <3>m. PICK m : m = [proc[p] EXCEPT !.pc = "resend"]
      BY Zenon
    <3>1. proc' = [proc EXCEPT ![p] = m]
      BY <2>2, <3>m, Zenon DEF Goto, OneInv, TypeInv, JournalType
    <3>2. m.pc = "resend" /\ m.ex = None
      BY <2>0, <3>m, ReaderLocals, Zenon DEF Locals, ProcTypes
    <3>3. Reads(m)
      BY <3>2, Zenon DEF Reads, Reading
    <3> QED BY <2>0, <2>2, <3>1, <3>2, <3>3, OneMove, Zenon DEF journal
  <2>3. CASE proc[p].op.state = "paid" /\ msg # proc[p].op.mid /\ Save(p, [Unknown(proc[p].op) EXCEPT !.error = "other"], Idle)
    <3>1. proc[p].op = row /\ row \in Rows /\ Accounts(row) /\ RowInv(row) /\ Fits(row) /\ row.state = "paid" /\ msg # row.mid
      BY <2>0, <2>3, ReaderLocals, Zenon DEF Save
    <3>2. pend = "none"
      BY <3>1, Zenon DEF Fits, Queued, OneInv, TypeInv, OtherType
    <3>3. row.exec # None /\ row.state \notin Terminal
      BY <3>1, Zenon DEF Accounts, Attributed, RowInv, Closed, Unpaid, Terminal
    <3>r. PICK r : r = [Unknown(row) EXCEPT !.error = "other"]
      BY Zenon
    <3>4. Accounts(r) /\ r \in Rows /\ r.state = "payment_unknown"
      BY <3>1, <3>3, <3>r, UnknownBooks, Zenon
    <3>5. Fits(r)
      BY <3>2, <3>4, UnqueuedFits, Zenon DEF Deliverable
    <3> QED BY <2>0, <2>3, <3>1, <3>3, <3>4, <3>5, <3>r, IdleReads, OneSave, Zenon
  <2> QED BY <2>1, <2>2, <2>3, Zenon DEF RecoverPaid

<1>ReleaseFailedPreparedKept.
    ASSUME OneProcess, OneInv, NEW p \in Procs, ReleaseFailedPrepared(p) PROVE Kept
  <2> USE <1>ReleaseFailedPreparedKept
  <2>m. PICK m : m = [Idle EXCEPT !.task = "release", !.pc = "budget", !.next = "idle"]
    BY Zenon
  <2>r. PICK r : r = [row EXCEPT !.state = "released"]
    BY Zenon
  <2>0. row # None /\ row.state = "prepared" /\ Update(p, r, m) /\ UNCHANGED <<links, execs, money, delivery>>
    BY <2>m, <2>r, Zenon DEF ReleaseFailedPrepared
  <2>1. row \in Rows /\ Accounts(row)
    BY <2>0, LoadedFacts, Zenon
  <2>2. m \in Locals /\ m.ex = None /\ m.pc = "budget"
    BY <2>m, ZenonT(60) DEF Idle, Locals, ProcTypes, Labels, Reading, Resumes, NoDetails, Details
  <2>3. r \in Rows /\ r.state = "released" /\ SameBooks(row, r)
    <3>1. "released" \in States
      BY Zenon DEF States
    <3> QED BY <2>1, <2>r, <3>1, Zenon DEF Rows, SameBooks
  <2>4. Accounts(r)
    BY <2>1, <2>3, BooksKept, Zenon DEF Unpaid
  <2>5. row.state \notin Deliverable \cup {"failed_paid"} \cup Terminal /\ r.state \notin Deliverable
    BY <2>0, <2>3, Zenon DEF Deliverable, Terminal
  <2>6. Fits(r)
    BY <2>1, <2>5, NotQueued, UnqueuedFits, Zenon DEF OneInv
  <2> QED BY <2>0, <2>1, <2>2, <2>3, <2>4, <2>5, <2>6, OneWrite, Zenon

\* A receipt is only written when nothing is left to account for.
<1>CompactKept. ASSUME OneProcess, OneInv, NEW p \in Procs, Compact(p) PROVE Kept
  <2> USE <1>CompactKept
  <2>r. PICK r : r = CompactedRow(row)
    BY Zenon
  <2>0. /\ row # None /\ row.state \in Closed /\ ~AccountingPending(row) /\ links[p] = {} /\ Update(p, r, Idle)
        /\ UNCHANGED <<links, execs, money, delivery>>
    BY <2>r, Zenon DEF Compact, Closed
  <2>1. row \in Rows /\ Accounts(row) /\ Fits(row)
    BY <2>0, LoadedFacts, Zenon
  <2>2. /\ r \in Rows /\ r.state = row.state /\ r.exec = None /\ r.compacted /\ r.resv = row.resv
        /\ r.resolutions = row.resolutions
    BY <2>1, <2>r, NoDetailsType, ZenonT(60) DEF CompactedRow, Rows
  <2>3. r.resv = None /\ \A e \in Execs : r.resolutions[e] = "none"
    BY <2>0, <2>2, Zenon DEF AccountingPending
  <2>4. Accounts(r)
    <3>1. Sound(r)
      BY <2>3, Zenon DEF Sound
    <3>2. Attributed(r)
      BY <2>2, <2>3, Zenon DEF Attributed
    <3>3. Receipted(r)
      BY <2>0, <2>3, OneQuantified, Zenon DEF Receipted
    <3>4. Accounted(r)
      BY <2>1, <2>2, <2>3, Zenon DEF Accounts, Accounted
    <3> QED BY <3>1, <3>2, <3>3, <3>4, Zenon DEF Accounts
  <2>5. Fits(r)
    <3>1. row.state \notin Deliverable
      BY <2>0, Zenon DEF Deliverable, Closed
    <3> QED BY <2>1, <2>2, <3>1, Zenon DEF Fits
  <2> QED BY <2>0, <2>1, <2>2, <2>4, <2>5, IdleReads, OneWrite, Zenon
<1> QED
  BY <1>ListLinksKept, <1>SweepKept, <1>SweepAbandonedKept, <1>AttachRecoveredKept, <1>RecoverPaidKept,
     <1>ReleaseFailedPreparedKept, <1>CompactKept, Zenon DEF Recovery

-----------------------------------------------------------------------------
(* Delivery, late writes and the wallet *)

\* Every program still knows what it must of the row before the step.
Goes ==
    \A q \in Procs :
        \E m : proc'[q] = m /\ Reads(m) /\ (m.ex # None => proc[q].ex # None /\ Paying(m, row))

\* A delivery statement of sqlite.rs moved the row to state s.
Touched(s) ==
    /\ row \in Rows /\ row.mid = msg /\ row.state \in Deliverable
    /\ row' \in Rows /\ row'.mid = row.mid /\ row'.state = s /\ SameBooks(row, row')
    /\ late' = {}

LEMMA NobodyMoves == ASSUME OneInv, UNCHANGED proc PROVE Goes
BY Zenon DEF OneInv, AccountInv, Goes

LEMMA OneGoes ==
    ASSUME OneProcess, OneInv, NEW p \in Procs, NEW m, proc' = [proc EXCEPT ![p] = m], Reads(m),
           m.ex # None => proc[p].ex # None /\ Paying(m, row)
    PROVE  Goes
<1>1. proc'[p] = m
  BY Zenon DEF OneInv, TypeInv, JournalType
<1> QED BY <1>1, OneQuantified, Zenon DEF Goes

\* A paid row belongs to no worker that has yet to pay.
LEMMA PayingTouched ==
    ASSUME NEW m, NEW r, NEW s, Paying(m, r), r.state \in Deliverable, SameBooks(r, s)
    PROVE  Paying(m, s)
<1>1. m.pc \notin Before \cup Asking \cup Called
  BY Zenon DEF Paying, Unresolved, Deliverable
<1>2. m.pc \notin Metered /\ m.pc \notin Attached /\ m.pc \notin {"reserve", "materialize"}
  BY <1>1, Zenon DEF Before, Metered, Attached, Called
<1>3. m.pc \in {"materialize", "resend", "sending"} => HasPaid(m.ex)
  BY Zenon DEF Paying
<1> QED BY <1>1, <1>2, <1>3, Zenon DEF Paying, SameBooks

LEMMA AccountTouch ==
    ASSUME OneInv, Goes, UNCHANGED <<links, execs, money>>, UNCHANGED <<row, late>> \/ \E s : Touched(s)
    PROVE  AccountInv'
<1>1. Quieter /\ BudgetFollowsPayment' /\ Known'
  BY QuietMoney, Zenon DEF OneInv
<1>2. \A q \in Procs : Reads(proc[q])'
  BY QuietMoney, Zenon DEF OneInv, Goes
<1>3. CASE UNCHANGED <<row, late>>
  <2>1. ASSUME NEW q \in Procs, proc'[q].ex # None PROVE late' = {} /\ row' \in Rows /\ Paying(proc[q], row)'
    <3>1. PICK m : proc'[q] = m /\ proc[q].ex # None /\ Paying(m, row)
      BY <2>1, Zenon DEF Goes
    <3>2. late = {} /\ row \in Rows
      BY <3>1, Zenon DEF OneInv, AccountInv
    <3> QED BY <1>3, <3>1, <3>2, QuietMoney, Zenon DEF OneInv
  <2>2. AllRows' = AllRows
    BY <1>3, Zenon DEF AllRows
  <2> QED BY <1>1, <1>2, <2>1, <2>2, AccountStep, Zenon DEF OneInv
<1>4. CASE \E s : Touched(s)
  <2>r. PICK r : r = row'
    BY Zenon
  <2>1. /\ row \in Rows /\ row.state \in Deliverable /\ r \in Rows /\ SameBooks(row, r) /\ late' = {} /\ row' = r
    BY <1>4, <2>r, Zenon DEF Touched
  <2>2. row # None
    BY <2>1, NoRowAssumption, Zenon
  <2>3. Accounts(row) /\ RowInv(row)
    BY <2>2, LoadedFacts, Zenon
  <2>4. row.exec # None
    BY <2>1, <2>3, Zenon DEF Accounts, Attributed, RowInv, Closed, Unpaid, Deliverable
  <2>5. Accounts(r)
    BY <2>1, <2>3, <2>4, BooksKept, Zenon DEF SameBooks
  <2>6. ASSUME NEW q \in Procs, proc'[q].ex # None PROVE Paying(proc[q], row)'
    <3>1. PICK m : proc'[q] = m /\ Paying(m, row)
      BY <2>6, Zenon DEF Goes
    <3>2. Paying(m, r)
      BY <2>1, <3>1, PayingTouched, Zenon
    <3> QED BY <2>1, <3>1, <3>2, QuietMoney, Zenon DEF OneInv
  <2>7. AllRows' = {r}
    BY <2>1, Zenon DEF AllRows
  <2> QED BY <1>1, <1>2, <2>1, <2>5, <2>6, <2>7, AccountStep, Zenon DEF OneInv
<1> QED BY <1>3, <1>4, Zenon

LEMMA TouchedKept ==
    ASSUME OneInv, Goes, UNCHANGED <<links, execs, money, del, msg>>, NEW s, Touched(s),
           \/ s \in Deliverable /\ pend' \in {"queued", "sent", "backoff"}
           \/ s \in Deliverable /\ pend' = pend
           \/ s = "acked" /\ pend' = "none"
           \/ s = "failed_paid" /\ pend' = "failed" /\ row'.error = "other"
    PROVE  Kept
<1>1. AccountInv'
  BY AccountTouch, Zenon
<1>2. row \in Rows /\ row' \in Rows /\ row' # None /\ late' = {} /\ row.state \notin Terminal
  BY NoRowAssumption, Zenon DEF Touched, Deliverable, Terminal
<1>3. Fits(row) /\ row'.mid = msg' /\ row'.state = s /\ row.state \in Deliverable /\ row.state # "failed_paid"
  BY <1>2, Zenon DEF OneInv, QueueInv, Touched, Deliverable
<1>4. Fits(row)'
  <2>1. CASE s \in Deliverable /\ pend' \in {"queued", "sent", "backoff"}
    BY <1>3, <2>1, Zenon DEF Fits, Queued
  <2>2. CASE s \in Deliverable /\ pend' = pend
    BY <1>3, <2>2, Zenon DEF Fits, Queued
  <2>3. CASE s = "acked" /\ pend' = "none"
    BY <1>3, <2>3, Zenon DEF Fits, Queued, Deliverable
  <2>4. CASE s = "failed_paid" /\ pend' = "failed" /\ row'.error = "other"
    BY <1>3, <2>4, Zenon DEF Fits, Queued, Deliverable
  <2> QED BY <2>1, <2>2, <2>3, <2>4, Zenon
<1> QED BY <1>1, <1>2, <1>4, Zenon DEF Kept, QueueInv, Final

\* What the queue may deliver is the row's: every delivery statement finds it.
LEMMA QueuedRow ==
    ASSUME OneInv, pend \in {"queued", "sent", "backoff"}
    PROVE  row # None /\ row \in Rows /\ row.mid = msg /\ row.state \in Deliverable
<1>1. row # None
  BY Zenon DEF OneInv, QueueInv
<1> QED BY <1>1, LoadedFacts, Zenon DEF Fits, Queued

LEMMA TouchedRow ==
    ASSUME row \in Rows, row.mid = msg, row.state \in Deliverable, NEW s \in States, NEW e \in {"none", "incomplete", "other"},
           row' = [row EXCEPT !.state = s] \/ row' = [row EXCEPT !.state = s, !.error = e], late' = {}
    PROVE  Touched(s) /\ (row' = [row EXCEPT !.state = s, !.error = e] => row'.error = e)
<1>r. PICK r : r = row'
  BY Zenon
<1>1. r \in Rows /\ r.mid = row.mid /\ r.state = s /\ SameBooks(row, r) /\ (row' = [row EXCEPT !.state = s, !.error = e] => r.error = e)
  <2>1. CASE r = [row EXCEPT !.state = s, !.error = e]
    BY <2>1, ZenonT(60) DEF Rows, SameBooks
  <2>2. CASE r = [row EXCEPT !.state = s] /\ r # [row EXCEPT !.state = s, !.error = e]
    BY <1>r, <2>2, ZenonT(60) DEF Rows, SameBooks
  <2> QED BY <1>r, <2>1, <2>2, Zenon
<1> QED BY <1>r, <1>1, Zenon DEF Touched

LEMMA MarkKept ==
    ASSUME OneInv, Goes, NEW done, MarkPendingSent(done), UNCHANGED <<links, execs, money, msg, del>>
    PROVE  Kept
<1>1. row # None /\ row \in Rows /\ row.mid = msg /\ row.state \in Deliverable
  BY QueuedRow, Zenon DEF MarkPendingSent
<1>s. PICK s : s = IF row.state = "rejected_retryable" THEN "paid" ELSE row.state
  BY Zenon
<1>2. s \in Deliverable /\ s \in States
  BY <1>1, <1>s, Zenon DEF Deliverable, States
<1>3. row' = [row EXCEPT !.state = s] /\ late' = {} /\ pend' = "sent"
  BY <1>1, <1>s, Zenon DEF MarkPendingSent, Touch, Rows
<1>4. Touched(s)
  BY <1>1, <1>2, <1>3, TouchedRow, Zenon
<1> QED BY <1>2, <1>3, <1>4, TouchedKept, Zenon

\* Nothing of the row or its queue changes.
LEMMA UntouchedKept ==
    ASSUME OneInv, Goes, UNCHANGED <<row, late, links, execs, money, msg, pend, del>>
    PROVE  Kept
<1>1. AccountInv'
  BY AccountTouch, Zenon
<1>2. \A r : Fits(r) => Fits(r)'
  BY Zenon DEF Fits, Queued
<1>3. QueueInv'
  BY <1>2, Zenon DEF OneInv, QueueInv
<1> QED BY <1>1, <1>3, Zenon DEF Kept, Final

LEMMA SentKept ==
    ASSUME OneInv, Goes, NEW done, RecordOutboxSent(done), UNCHANGED <<links, execs, money, msg, pend, del>>
    PROVE  Kept
<1>1. CASE row # None /\ row.mid = msg /\ row.state \in {"paid", "sent"}
  <2>1. row \in Rows /\ row.state \in Deliverable /\ "sent" \in Deliverable /\ "sent" \in States
    BY <1>1, LoadedFacts, Zenon DEF Deliverable, States
  <2>2. row' = [row EXCEPT !.state = "sent"] /\ late' = {}
    BY <1>1, Zenon DEF RecordOutboxSent, Touch
  <2>3. Touched("sent")
    BY <1>1, <2>1, <2>2, TouchedRow, Zenon
  <2> QED BY <2>1, <2>3, TouchedKept, Zenon
<1>2. CASE ~(row # None /\ row.mid = msg /\ row.state \in {"paid", "sent"})
  <2>1. UNCHANGED <<row, late>>
    BY <1>2, Zenon DEF RecordOutboxSent, Touch
  <2> QED BY <2>1, UntouchedKept, Zenon
<1> QED BY <1>1, <1>2, Zenon

\* The flusher, the recipient's answers, DELETE /messages/:id.
LEMMA DeliverKept == ASSUME OneInv, Deliver PROVE Kept
<1>0. Goes /\ UNCHANGED <<links, execs, money>>
  BY NobodyMoves, Zenon DEF Deliver, FlushMark, FlushSend, Acknowledge, Reject, DeleteMessage
<1>1. CASE FlushMark
  BY <1>0, <1>1, MarkKept, Zenon DEF FlushMark
<1>2. CASE FlushSend
  BY <1>0, <1>2, SentKept, UntouchedKept, Zenon DEF FlushSend, journal
<1>3. CASE Acknowledge
  <2>1. row # None /\ row \in Rows /\ row.mid = msg /\ row.state \in Deliverable /\ "acked" \in States
    BY <1>3, QueuedRow, Zenon DEF Acknowledge, States
  <2>2. row' = [row EXCEPT !.state = "acked"] /\ late' = {} /\ pend' = "none" /\ UNCHANGED <<msg, del>>
    BY <1>3, <2>1, Zenon DEF Acknowledge, Touch
  <2>3. Touched("acked")
    BY <2>1, <2>2, TouchedRow, Zenon
  <2> QED BY <1>0, <2>2, <2>3, TouchedKept, Zenon
<1>4. ASSUME NEW terminal \in BOOLEAN, Reject(terminal) PROVE Kept
  <2>s. PICK s : s = IF terminal THEN "failed_paid" ELSE "rejected_retryable"
    BY Zenon
  <2>1. row # None /\ row \in Rows /\ row.mid = msg /\ row.state \in Deliverable /\ s \in States
    BY <1>4, <2>s, QueuedRow, Zenon DEF Reject, States
  <2>2. row' = [row EXCEPT !.state = s, !.error = "other"] /\ late' = {} /\ UNCHANGED <<msg, del>>
    BY <1>4, <2>s, <2>1, Zenon DEF Reject, Touch
  <2>3. Touched(s) /\ row'.error = "other"
    BY <2>1, <2>2, TouchedRow, Zenon
  <2>4. \/ s \in Deliverable /\ pend' = "backoff"
        \/ s = "failed_paid" /\ pend' = "failed"
    BY <1>4, <2>s, Zenon DEF Reject, Deliverable
  <2> QED BY <1>0, <2>2, <2>3, <2>4, TouchedKept, Zenon
<1>5. CASE DeleteMessage
  <2>1. pend' = "none" /\ del' # "no" /\ UNCHANGED <<row, late>>
    BY <1>5, Zenon DEF DeleteMessage, journal
  <2>2. AccountInv'
    BY <1>0, <2>1, AccountTouch, Zenon
  <2>3. \A r : Fits(r)'
    BY <2>1, Zenon DEF Fits, Queued
  <2>4. QueueInv'
    BY <2>1, <2>3, Zenon DEF OneInv, QueueInv
  <2> QED BY <2>1, <2>2, <2>4, Zenon DEF Kept, Final
<1> QED BY <1>1, <1>2, <1>3, <1>4, <1>5, Zenon DEF Deliver

\* resend_materialized returns, to the caller or to the debit of the paying worker.
LEMMA ReturnGoes ==
    ASSUME OneProcess, OneInv, NEW p \in Procs, proc[p].pc \in {"resend", "sending"},
           NEW c \in {"ok", "unresolved", "proof"},
           \/ proc[p].ex = None /\ proc' = [proc EXCEPT ![p] = Idle]
           \/ proc[p].ex # None /\ Ends(p, c)
    PROVE  Goes
<1>1. CASE proc[p].ex = None /\ proc' = [proc EXCEPT ![p] = Idle]
  BY <1>1, OneGoes, IdleReads, Zenon
<1>2. CASE proc[p].ex # None /\ Ends(p, c)
  <2>1. Paying(proc[p], row) /\ row.resolutions[proc[p].ex] = "none"
    BY <1>2, WorkerFacts, Zenon
  <2>2. HasPaid(proc[p].ex) /\ c \in {"ok", "unresolved", "proof", "other"} /\ c # "other"
    BY <2>1, Zenon DEF Paying
  <2>3. Paying(Ended(p, c), row) /\ Ended(p, c).ex = proc[p].ex
    BY <1>2, <2>1, <2>2, EndedPays, Zenon
  <2>4. Ended(p, c).pc = "debit"
    BY IdleType, Zenon DEF Ended, ProcTypes
  <2>5. Reads(Ended(p, c))
    BY <2>4, Zenon DEF Reads, Reading
  <2> QED BY <1>2, <2>3, <2>5, OneGoes, Zenon DEF Ends
<1> QED BY <1>1, <1>2, Zenon

LEMMA ResendKept == ASSUME OneProcess, OneInv, NEW p \in Procs, Resend(p) PROVE Kept
<1>1. proc[p].pc = "resend" /\ UNCHANGED <<links, execs, money, msg, del>>
  BY Zenon DEF Resend
<1>2. CASE MarkPendingSent({p}) /\ Goto(p, "sending")
  <2>m. PICK m : m = [proc[p] EXCEPT !.pc = "sending"]
    BY Zenon
  <2>1. proc[p] \in ProcTypes
    BY Zenon DEF OneInv, TypeInv, JournalType, Locals
  <2>2. m.pc = "sending" /\ m.ex = proc[p].ex
    BY <2>m, <2>1, Zenon DEF ProcTypes
  <2>3. proc' = [proc EXCEPT ![p] = m]
    BY <1>2, <2>m, Zenon DEF Goto
  <2>4. m.ex # None => Paying(m, row)
    <3> SUFFICES ASSUME m.ex # None PROVE Paying(m, row)
      BY Zenon
    <3>1. row.resolutions[m.ex] = "none" /\ HasPaid(m.ex)
      BY <1>1, <2>2, WorkerFacts, Zenon DEF Paying
    <3> QED BY <2>2, <3>1, Zenon DEF Paying, Before, Asking, Called, Metered, Attached
  <2>5. Reads(m)
    BY <2>2, Zenon DEF Reads, Reading
  <2>6. Goes
    BY <2>2, <2>3, <2>4, <2>5, OneGoes, Zenon
  <2> QED BY <1>1, <1>2, <2>6, MarkKept, Zenon
<1>3. CASE ResendReturns(p, IF Mine(p) THEN "proof" ELSE "unresolved") /\ UNCHANGED <<row, late, pend>>
  <2>c. PICK c \in {"ok", "unresolved", "proof"} : ResendReturns(p, c)
    BY <1>3, Zenon
  <2>1. Goes
    BY <1>1, <2>c, ReturnGoes, Zenon DEF ResendReturns, Finish
  <2> QED BY <1>1, <1>3, <2>1, UntouchedKept, Zenon
<1> QED BY <1>2, <1>3, Zenon DEF Resend

LEMMA SendingKept == ASSUME OneProcess, OneInv, NEW p \in Procs, Sending(p) PROVE Kept
<1>1. proc[p].pc = "sending" /\ UNCHANGED <<links, execs, money, msg, pend, del>>
  BY Zenon DEF Sending, delivery
<1>2. Goes
  BY <1>1, ReturnGoes, Zenon DEF Sending, ResendReturns, Finish
<1>3. CASE RecordOutboxSent({p})
  BY <1>1, <1>2, <1>3, SentKept, Zenon
<1>4. CASE UNCHANGED <<row, late>>
  BY <1>1, <1>2, <1>4, UntouchedKept, Zenon
<1> QED BY <1>3, <1>4, Zenon DEF Sending

LEMMA StopKept == ASSUME OneProcess, OneInv, NEW p \in Procs, Stop(p) PROVE Kept
BY OneFinish, Zenon DEF Stop

\* A queued statement of the SQL worker runs: nobody pays meanwhile.
LEMMA LateCommitKept == ASSUME OneInv, LateCommit PROVE Kept
<1>w. PICK w \in late :
        /\ row' = w.row /\ late' = {}
        /\ msg' = IF w.commit THEN w.row.mid ELSE msg
        /\ pend' = IF w.commit /\ pend = "none" THEN "queued" ELSE pend
        /\ UNCHANGED <<proc, links, execs, money, del>>
  BY Zenon DEF LateCommit
<1>1. w.row \in AllRows /\ w.row \in Rows /\ w.row # None /\ w.commit \in BOOLEAN
  BY NoRowAssumption, Zenon DEF OneInv, TypeInv, JournalType, AllRows
<1>2. Quieter /\ BudgetFollowsPayment' /\ Known'
  BY <1>w, QuietMoney, Zenon DEF OneInv
<1>3. \A q \in Procs : Reads(proc[q])'
  BY <1>w, QuietMoney, Zenon DEF OneInv, AccountInv
<1>4. \A q \in Procs : proc'[q].ex = None
  BY <1>w, Zenon DEF OneInv, AccountInv
<1>5. AllRows' \subseteq {w.row}
  BY <1>w, Zenon DEF AllRows
<1>6. AccountInv'
  BY <1>1, <1>2, <1>3, <1>4, <1>5, AccountStep, Zenon DEF OneInv
<1>7. Fits(row)'
  <2>1. CASE w.commit
    <3>1. w.row.state = "paid" /\ pend = "none"
      BY <2>1, Zenon DEF OneInv, QueueInv
    <3>2. pend' = "queued" /\ msg' = w.row.mid
      BY <1>w, <2>1, <3>1, Zenon
    <3> QED BY <1>w, <3>1, <3>2, Zenon DEF Fits, Queued, Deliverable
  <2>2. CASE ~w.commit
    <3>1. Fits(w.row)
      BY <2>2, Zenon DEF OneInv, QueueInv
    <3>2. pend' = pend /\ msg' = msg
      BY <1>w, <2>2, Zenon
    <3> QED BY <1>w, <3>1, <3>2, Zenon DEF Fits, Queued
  <2> QED BY <2>1, <2>2, Zenon
<1>8. QueueInv'
  BY <1>w, <1>1, <1>7, Zenon DEF QueueInv
<1>9. Final
  BY <1>w, Zenon DEF OneInv, QueueInv, Final
<1> QED BY <1>6, <1>8, <1>9, Zenon DEF Kept

\* The wallet moves a payment on.
LEMMA WalletStepKept == ASSUME OneInv, WalletStep PROVE Kept
<1>1. PICK h \in Hashes, s \in {"inflight", "settled", "failed"} :
        wallet[h] \in {"transit", "inflight"} /\ wallet' = [wallet EXCEPT ![h] = s]
  BY Zenon DEF WalletStep
<1>2. UNCHANGED <<row, late, proc, links, execs, payer, ledger, delivery>>
  BY Zenon DEF WalletStep, journal
<1>3. \A k \in Hashes : wallet'[k] = IF k = h THEN s ELSE wallet[k]
  BY <1>1, Zenon DEF OneInv, TypeInv, OtherType
<1>4. Quieter
  BY <1>1, <1>2, <1>3, Zenon DEF Quieter, Live
<1>5. \A e : (Pays(e)' => Pays(e)) /\ (HasPaid(e) => HasPaid(e)')
  BY <1>4, PaysLess, Zenon
<1>6. BudgetFollowsPayment'
  <2>1. \A e \in Execs : (ledger[e] = "released" => ~Pays(e)) /\ (ledger[e] = "charged" => HasPaid(e))
    BY Zenon DEF OneInv, AccountInv, BudgetFollowsPayment, Pays, HasPaid
  <2>2. \A e \in Execs : (ledger'[e] = "released" => ~Pays(e)') /\ (ledger'[e] = "charged" => HasPaid(e)')
    BY <1>2, <1>5, <2>1, Zenon
  <2> QED BY <2>2, Zenon DEF BudgetFollowsPayment, Pays, HasPaid
<1>7. Known'
  BY <1>2, Zenon DEF OneInv, AccountInv, Known
<1>8. ASSUME NEW q \in Procs, proc'[q].ex # None PROVE late' = {} /\ row' \in Rows /\ Paying(proc[q], row)'
  <2>m. PICK m, r : m = proc[q] /\ r = row
    BY Zenon
  <2>1. late = {} /\ r \in Rows /\ Paying(m, r) /\ proc'[q] = m /\ row' = r
    BY <1>2, <1>8, <2>m, Zenon DEF OneInv, AccountInv
  <2>2. Pays(m.ex)' => Pays(m.ex)
    BY <1>5, Zenon
  <2>3. HasPaid(m.ex) => HasPaid(m.ex)'
    BY <1>5, Zenon
  <2>4. Paying(proc[q], row)'
    BY <1>2, <2>1, <2>2, <2>3, Zenon DEF Paying, Unresolved
  <2> QED BY <1>2, <2>1, <2>4, Zenon
<1>9. ASSUME NEW q \in Procs PROVE Reads(proc[q])'
  <2>m. PICK m : m = proc[q]
    BY Zenon
  <2>1. Reads(m) /\ proc'[q] = m
    BY <1>2, <2>m, Zenon DEF OneInv, AccountInv
  <2>2. Sound(m.op) => Sound(m.op)'
    BY <1>4, AccountsKept, Zenon
  <2> QED BY <1>2, <2>1, <2>2, Zenon DEF Reads, Drainable
<1>10. AllRows' = AllRows
  BY <1>2, Zenon DEF AllRows
<1>11. AccountInv'
  BY <1>4, <1>6, <1>7, <1>8, <1>9, <1>10, AccountStep, Zenon DEF OneInv
<1> QED BY <1>2, <1>11, QueueStays, Zenon DEF OneInv, Kept

-----------------------------------------------------------------------------
(* Every step, and the theorems *)

LEMMA NextKept == ASSUME OneProcess, OneInv, [Next]_vars PROVE Kept
<1>1. CASE UNCHANGED vars
  BY <1>1, NobodyMoves, UntouchedKept, Zenon DEF vars, journal, delivery
<1>2. CASE \E p \in Procs : Request(p) \/ Reopen(p) \/ Retry(p) \/ Fence(p)
  BY <1>2, RequestKept, ContinueKept, Zenon
<1>3. CASE \E p \in Procs : Worker(p) \/ Budget(p) \/ Reconcile(p) \/ Recovery(p)
  BY <1>3, WorkerKept, BudgetKept, ReconcileKept, RecoveryKept, Zenon
<1>4. CASE \E p \in Procs : Resend(p) \/ Sending(p) \/ Stop(p)
  BY <1>4, ResendKept, SendingKept, StopKept, Zenon
<1>5. CASE LateCommit \/ WalletStep \/ Deliver
  BY <1>5, LateCommitKept, WalletStepKept, DeliverKept, Zenon
<1> QED BY <1>1, <1>2, <1>3, <1>4, <1>5, Zenon DEF Next

LEMMA NextOne == OneProcess /\ OneInv /\ [Next]_vars => OneInv' /\ Kept
<1> SUFFICES ASSUME OneProcess, OneInv, [Next]_vars PROVE OneInv' /\ Kept
  BY Zenon
<1>1. Kept
  BY NextKept, Zenon
<1>2. TypeInv' /\ Inv'
  BY NextTypeInv, NextInv, Zenon DEF OneInv
<1> QED BY <1>1, <1>2, Zenon DEF OneInv, Kept

\* A row from before execution ids: paid, failed for a reason that recovery clears.
LEMMA LegacyBooks ==
    ASSUME NEW c \in Callers, NEW e \in Execs, NEW g \in Hashes, row = LegacyRow(c, e, g), execs = {e},
           wallet = [h \in Hashes |-> IF h = g THEN "settled" ELSE "none"],
           payer = [h \in Hashes |-> IF h = g THEN e ELSE None],
           links = [p \in Procs |-> {}], ledger = [x \in Execs |-> "none"], pend = "none"
    PROVE  row \in Rows /\ Accounts(row) /\ Fits(row)
<1>1. row \in Rows
  BY LegacyRowType, Zenon
<1>2. Prepared(c) \in Rows
  BY PreparedType, Zenon
<1>3. /\ row.state = "failed_paid" /\ row.exec = e /\ row.resv = None /\ ~row.compacted
      /\ \A x \in Execs : row.resolutions[x] = "none"
  BY <1>2, ZenonT(60) DEF LegacyRow, Prepared, Rows
<1>4. \A h \in Hashes : Live(h) => payer[h] = e
  BY Zenon DEF Live
<1>5. Sound(row) /\ Receipted(row)
  BY <1>3, Zenon DEF Sound, Receipted
<1>6. Attributed(row)
  BY <1>3, <1>4, OperationsAssumption, Zenon DEF Attributed
<1>7. Accounted(row)
  BY Zenon DEF Accounted
<1>8. Fits(row)
  BY <1>3, Zenon DEF Fits, Queued, Deliverable
<1> QED BY <1>1, <1>5, <1>6, <1>7, <1>8, Zenon DEF Accounts

LEMMA InitOne == Init => OneInv
<1> SUFFICES ASSUME Init PROVE OneInv
  BY Zenon
<1>1. TypeInv /\ Inv
  BY InitType, InitInv, Zenon
<1>2. /\ late = {} /\ pend = "none" /\ links = [p \in Procs |-> {}] /\ ledger = [x \in Execs |-> "none"]
      /\ \A p \in Procs : proc[p] = Idle
  BY Zenon DEF Init
<1>3. BudgetFollowsPayment /\ Known
  BY <1>2, Zenon DEF BudgetFollowsPayment, Known
<1>4. \A p \in Procs : proc[p].ex = None /\ Reads(proc[p])
  BY <1>2, IdleReads, Zenon
<1>5. row \in Rows => Accounts(row) /\ Fits(row)
  <2>1. CASE row = None
    BY <2>1, NoRowAssumption, Zenon
  <2>2. ASSUME NEW c \in Callers, NEW e \in Execs, NEW g \in Hashes, row = LegacyRow(c, e, g), execs = {e},
               wallet = [h \in Hashes |-> IF h = g THEN "settled" ELSE "none"],
               payer = [h \in Hashes |-> IF h = g THEN e ELSE None]
        PROVE  Accounts(row) /\ Fits(row)
    BY <1>2, <2>2, LegacyBooks, Zenon
  <2> QED BY <2>1, <2>2, Zenon DEF Init
<1>6. AccountInv
  <2>1. \A r \in AllRows : r = row /\ r \in Rows
    BY <1>2, Zenon DEF AllRows
  <2> QED BY <1>3, <1>4, <1>5, <2>1, Zenon DEF AccountInv
<1>7. QueueInv
  BY <1>2, <1>5, Zenon DEF QueueInv
<1> QED BY <1>1, <1>6, <1>7, Zenon DEF OneInv

\* In one process the accounts and the queue agree with the journal in every state.
THEOREM OneInvariance == ASSUME OneProcess PROVE Spec => []OneInv
<1>1. OneInv /\ [Next]_vars => OneInv'
  BY NextOne, Zenon
<1> QED
  BY <1>1, InitOne, PTL DEF Spec

\* spend_ledger.rs, finish_debit and reconcile: a reservation is given back only when
\* no payment of its execution can settle any more, and charged only when one has
\* settled, whatever fails, restarts or is written late in between.
THEOREM BudgetIsFollowed == ASSUME OneProcess PROVE Spec => []BudgetFollowsPayment
<1>1. OneInv => BudgetFollowsPayment
  BY Zenon DEF OneInv, AccountInv
<1> QED
  BY <1>1, OneInvariance, PTL

\* The paid commit and every delivery statement of sqlite.rs: what the delivery queue
\* holds is the message of a row that may be delivered, and, until the message is
\* deleted, such a row has its entry in the queue.
THEOREM QueueIsMatched == ASSUME OneProcess PROVE Spec => []QueueMatchesRow
<1>1. OneInv => QueueMatchesRow
  <2> SUFFICES ASSUME OneInv PROVE QueueMatchesRow
    BY Zenon
  <2>1. CASE row = None
    BY <2>1, Zenon DEF OneInv, QueueInv, QueueMatchesRow
  <2>2. CASE row # None
    <3>1. Fits(row)
      BY <2>2, LoadedFacts, Zenon
    <3> QED BY <2>2, <3>1, Zenon DEF Fits, Queued, QueueMatchesRow
  <2> QED BY <2>1, <2>2, Zenon
<1> QED
  BY <1>1, OneInvariance, PTL

\* An acknowledged or abandoned operation never takes another state: no late write, no
\* recovery and no delivery report brings it back.
THEOREM TerminalIsFinal == ASSUME OneProcess PROVE Spec => TerminalStays
<1>1. OneInv /\ [Next]_vars
      => [row # None /\ row.state \in {"acked", "abandoned"} => row'.state = row.state]_row
  <2> SUFFICES ASSUME OneInv, [Next]_vars, row # None, row.state \in {"acked", "abandoned"}
               PROVE  row'.state = row.state
    BY Zenon
  <2>1. row \in Rows /\ Final
    BY LoadedFacts, NextOne, Zenon DEF Kept
  <2> QED BY <2>1, Zenon DEF Final, Terminal
<1> QED
  BY <1>1, OneInvariance, PTL DEF Spec, TerminalStays
===============================================================================

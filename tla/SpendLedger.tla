----------------------------- MODULE SpendLedger -----------------------------
(***************************************************************************)
(* The budget of one spend grant: GrantBudget (spend_budget.rs and         *)
(* spend_budget/calls.rs of crates/konsensus-api/src) kept by the pairing  *)
(* service (pairing.rs, pairing/call_spend.rs) in memory and in its file.  *)
(*                                                                         *)
(* Every operation runs under the service's mutex: it changes the budget,  *)
(* persists the file, and undoes the change in memory if that fails.  The  *)
(* file is renamed into place before its directory is synced, so a failed  *)
(* persist may still have published the new content; "disk" is the set of  *)
(* contents a restart may find.                                            *)
(*                                                                         *)
(* Refusals that depend on the clock, on the client's binding or on the    *)
(* rolling windows change nothing here and are left out; a persist that    *)
(* fails before the rename changes nothing either.                         *)
(***************************************************************************)
EXTENDS Integers, FiniteSets, Functions

CONSTANTS
    Ids,             \* reservation ids, fresh for each reservation
    Recipients,
    Holds,           \* the ids that may become call holds
    RecipientsOnly,  \* a relation grant (envelopes) or an owner console grant
    Budget,          \* console grant: budget_msat and per-recipient budgets
    Envelopes,       \* relation grant: what an envelope may be opened with
    PerCallMax,      \* per_call_max_msat, at most the messaging cap
    MaxFailures,     \* max_consecutive_failures
    PerBlock,        \* call terms: price and fee of a block,
    Minutes,         \* max_call_minutes and
    Closing,         \* closing allowance
    MaxOverrun,      \* the most a provider takes beyond a reservation
    MaxCrashes, MaxRenewals, MaxResets,
    None

ASSUME LedgerAssumption ==
    /\ IsFiniteSet(Ids) /\ IsFiniteSet(Recipients) /\ Holds \subseteq Ids
    /\ RecipientsOnly \in BOOLEAN /\ Envelopes \subseteq Nat
    /\ {Budget, PerCallMax, MaxOverrun, MaxCrashes, MaxRenewals, MaxResets} \subseteq Nat
    /\ {MaxFailures, PerBlock, Minutes, Closing} \subseteq Nat \ {0}

\* What stands for "no call" is not a call (CallSpends).
ASSUME NoneAssumption ==
    None \notin [peer : Recipients, spent : Nat, released : Nat, closed : BOOLEAN, recorded : BOOLEAN,
                 failed : BOOLEAN, draws : SUBSET (Ids \X (0 .. Minutes)), paidSeqs : SUBSET (0 .. Minutes)]

VARIABLES
    mem,        \* the budget in memory, None once revoked
    disk,       \* the contents of the file that a restart may find
    pay,        \* per reservation and recipient: what became of the payment
    crashes, renewals, resets

vars == <<mem, disk, pay, crashes, renewals, resets>>

Max2(a, b) == IF a >= b THEN a ELSE b
Min2(a, b) == IF a <= b THEN a ELSE b
Sub(a, b)  == Max2(a - b, 0)     \* saturating_sub

Cells == Ids \X Recipients

Unborn == [st |-> "none", amt |-> 0, for |-> None]

ClosingSeq == Minutes
Seqs       == 0 .. Minutes
Reserved   == PerBlock * Minutes + Closing

Init ==
    /\ mem = [budget |-> IF RecipientsOnly THEN 0 ELSE Budget,
              cap    |-> [r \in Recipients |-> IF RecipientsOnly THEN 0 ELSE Budget],
              perAct |-> [r \in Recipients |-> IF RecipientsOnly THEN 0 ELSE PerCallMax],
              used   |-> 0,
              usedBy |-> [r \in Recipients |-> 0],
              pending |-> [c \in Cells |-> 0],
              call   |-> [h \in Holds |-> None],
              failures |-> 0, paused |-> FALSE]
    /\ disk = {mem}
    /\ pay = [c \in Cells |-> Unborn]
    /\ crashes = 0 /\ renewals = 0 /\ resets = 0

-----------------------------------------------------------------------------
(* GrantBudget *)

HasCall(b, h) == b.call[h] # None

\* The hold that reservation i was drawn from, with the block it pays.
DrawnFor(b, i) ==
    UNION {{<<h, d[2]>> : d \in {e \in b.call[h].draws : e[1] = i}} : h \in {g \in Holds : HasCall(b, g)}}

\* breaker_status: payments whose outcome is still unknown; a call counts once.
UnresolvedCells(b) ==
    {c \in Cells : b.pending[c] > 0 /\ DrawnFor(b, c[1]) = {}
                   /\ ~(c[1] \in Holds /\ HasCall(b, c[1]))}

UnresolvedCalls(b) == {h \in Holds : HasCall(b, h) /\ ~b.call[h].recorded}
Unresolved(b) == Cardinality(UnresolvedCells(b)) + Cardinality(UnresolvedCalls(b))

PerCall(b) == IF RecipientsOnly THEN Min2(b.budget, PerCallMax) ELSE PerCallMax

Total(charges) == SumFunctionOnSet(charges, Recipients)
Count(charges) == Cardinality({r \in Recipients : charges[r] > 0})

\* Mutant: payments with an unknown outcome take no failure slot.
Fits_NoUnresolved(b, charges, most) ==
    /\ RecipientsOnly => \A r \in Recipients : charges[r] > 0 => most[r] <= b.perAct[r]
    /\ ~b.paused
    /\ Count(charges) <= Sub(MaxFailures, b.failures)
    /\ Total(charges) \in 0 .. Sub(b.budget, b.used)
    /\ \A r \in Recipients : charges[r] > 0 => charges[r] <= Sub(b.cap[r], b.usedBy[r])

\* Mutant: the recipient's own budget is not checked.
Fits_NoRecipient(b, charges, most) ==
    /\ RecipientsOnly => \A r \in Recipients : charges[r] > 0 => most[r] <= b.perAct[r]
    /\ ~b.paused
    /\ Count(charges) <= Sub(MaxFailures, b.failures + Unresolved(b))
    /\ Total(charges) \in 0 .. Sub(b.budget, b.used)

\* check_envelopes, the failure slots, and the bounds of reserve_within; "most"
\* is the largest payment that the reservation funds for a recipient.
Fits(b, charges, most) ==
    /\ RecipientsOnly => \A r \in Recipients : charges[r] > 0 => most[r] <= b.perAct[r]
    /\ ~b.paused
    /\ Count(charges) <= Sub(MaxFailures, b.failures + Unresolved(b))
    /\ Total(charges) \in 0 .. Sub(b.budget, b.used)
    /\ \A r \in Recipients : charges[r] > 0 => charges[r] <= Sub(b.cap[r], b.usedBy[r])

Debit(b, charges) ==
    [b EXCEPT !.used = @ + Total(charges),
              !.usedBy = [r \in Recipients |-> @[r] + charges[r]]]

Pend(b, i, charges) ==
    [b EXCEPT !.pending = [c \in Cells |-> IF c[1] = i THEN charges[c[2]] ELSE @[c]]]

\* Mutant: what a provider took beyond the reservation is not recorded.
Settle_NoOverrun(b, r, reserved, actual) ==
    LET released == Sub(reserved, actual) IN
    [b EXCEPT !.used = Sub(@, released), !.usedBy[r] = Sub(@, released)]

\* GrantBudget::resolve
Settle(b, r, reserved, actual) ==
    IF actual <= reserved
    THEN [b EXCEPT !.used = Sub(@, reserved - actual), !.usedBy[r] = Sub(@, reserved - actual)]
    ELSE [b EXCEPT !.used = @ + (actual - reserved), !.usedBy[r] = @ + (actual - reserved)]

\* record_outcome
RecordOutcome(b, actual) ==
    IF actual > 0
    THEN [b EXCEPT !.failures = 0]
    ELSE [b EXCEPT !.failures = @ + 1, !.paused = @ \/ b.failures + 1 >= MaxFailures]

\* record_call_outcome: a declined or unanswered call failed no payment.
RecordCallOutcome(b, h) ==
    LET k == b.call[h] IN
    IF k.closed /\ k.draws = {} /\ ~k.recorded
    THEN LET done == [b EXCEPT !.call[h] = [k EXCEPT !.recorded = TRUE, !.paidSeqs = {}]]
         IN  IF k.spent > 0 \/ k.failed THEN RecordOutcome(done, k.spent) ELSE done
    ELSE b

\* resolve_call_draw: what a draw did not use returns to an open hold, or to the
\* grant once the call is closed.
ResolveCallDraw(b, h, i, seq, reserved, actual, outcome) ==
    LET k      == b.call[h]
        unused == Sub(reserved, actual)
        b1 == [b EXCEPT !.call[h] = [k EXCEPT
                  !.draws = k.draws \ {<<i, seq>>},
                  !.failed = k.failed \/ (outcome = "failed" /\ actual = 0),
                  !.paidSeqs = k.paidSeqs \cup {x \in {seq} : actual > 0},
                  !.spent = k.spent + actual,
                  !.released = k.released + (IF k.closed THEN unused ELSE 0)]]
        b2 == IF k.closed
              THEN Settle(b1, k.peer, reserved, actual)
              ELSE Settle([b1 EXCEPT !.pending[<<h, k.peer>>] = @ + unused],
                          k.peer, 0, Sub(actual, reserved))
    IN  RecordCallOutcome(b2, h)

\* Mutant: closing releases the whole rest of the call, unresolved draws included.
CloseHold_WithDraws(b, h) ==
    LET k      == b.call[h]
        unused == Sub(Reserved, k.spent)
    IN  RecordCallOutcome(
            Settle([b EXCEPT !.pending[<<h, k.peer>>] = 0,
                             !.call[h] = [k EXCEPT !.closed = TRUE, !.released = k.released + unused]],
                   k.peer, unused, 0),
            h)

\* close_call: the rest of the hold goes back to the grant.
CloseHold(b, h) ==
    LET k      == b.call[h]
        unused == b.pending[<<h, k.peer>>]
    IN  RecordCallOutcome(
            Settle([b EXCEPT !.pending[<<h, k.peer>>] = 0,
                             !.call[h] = [k EXCEPT !.closed = TRUE, !.released = k.released + unused]],
                   k.peer, unused, 0),
            h)

\* open_envelope
OpenEnvelope(b, r, amount, act) ==
    [b EXCEPT !.cap[r] = b.usedBy[r] + amount,
              !.perAct[r] = act,
              !.budget = Sub(@, Sub(b.cap[r], b.usedBy[r])) + amount]

\* call_payment_limit, check_call_hold
CallLimit(b, r) == IF RecipientsOnly THEN b.perAct[r] ELSE PerCallMax
HoldFits(b, h)  == PerBlock <= CallLimit(b, b.call[h].peer)
-----------------------------------------------------------------------------
(* PairingService *)

\* Mutant: the caller goes on before the file is written.
Persist_Later(b) == mem' = b /\ UNCHANGED disk

\* persist_with_clock; when it fails, the operation restores the budget.
Persist(b) ==
    \/ mem' = b   /\ disk' = {b}
    \/ mem' = mem /\ disk' = disk \cup {b}

Live == mem # None
Contents == (disk \cup {mem}) \ {None}

\* An id that nothing refers to stands for a fresh one.
Free(i) ==
    /\ \A r \in Recipients : pay[<<i, r>>] = Unborn /\ \A b \in Contents : b.pending[<<i, r>>] = 0
    /\ i \in Holds => /\ \A b \in Contents : ~HasCall(b, i)
                      /\ \A c \in Cells : pay[c].for # None => pay[c].for[1] # i

Charges == [Recipients -> 0 .. PerCallMax]
One(r, amount) == [q \in Recipients |-> IF q = r THEN amount ELSE 0]

\* reserve_spend_locked for a message or a payment.
Reserve(i, charges) ==
    /\ Live
    /\ Total(charges) \in 1 .. PerCall(mem)
    /\ Fits(mem, charges, charges)
    /\ Persist(Pend(Debit(mem, charges), i, charges))
    /\ UNCHANGED <<pay, crashes, renewals, resets>>

NewCall(r) ==
    [peer |-> r, spent |-> 0, released |-> 0, closed |-> FALSE, recorded |-> FALSE,
     failed |-> FALSE, draws |-> {}, paidSeqs |-> {}]

\* Checks and budget of a new hold (check_call_closing, reserve_call_at).
HoldAllowed(b, r) ==
    /\ PerBlock <= CallLimit(b, r)
    /\ Closing <= Min2(PerCall(b), CallLimit(b, r))
    /\ Fits(b, One(r, Reserved), One(r, PerBlock))
WithHold(b, h, r) ==
    [Pend(Debit(b, One(r, Reserved)), h, One(r, Reserved)) EXCEPT !.call[h] = NewCall(r)]

\* reserve_call_spend
ReserveCall(h, r) ==
    /\ Live
    /\ HoldAllowed(mem, r)
    /\ Persist(WithHold(mem, h, r))
    /\ UNCHANGED <<pay, crashes, renewals, resets>>

\* reserve_call_with_offer: both reservations, one write.
ReserveCallWithOffer(h, i, r, amount) ==
    LET b == WithHold(mem, h, r) IN
    /\ Live
    /\ HoldAllowed(mem, r)
    /\ amount <= PerBlock
    /\ Fits(b, One(r, amount), One(r, amount))
    /\ Persist(Pend(Debit(b, One(r, amount)), i, One(r, amount)))
    /\ UNCHANGED <<pay, crashes, renewals, resets>>

\* reserve_quoted_readmission: a higher quote tops up the parent, and the
\* admission is reserved as well.
TopUp(b, i, r, amount) ==
    IF amount = 0 THEN b
    ELSE [Debit(b, One(r, amount)) EXCEPT !.pending[<<i, r>>] = @ + amount]

Parent(i, r) ==
    /\ mem.pending[<<i, r>>] > 0 /\ pay[<<i, r>>].st = "none"
    /\ DrawnFor(mem, i) = {} /\ ~(i \in Holds /\ HasCall(mem, i))

Readmit(i, r, amount, n, admission) ==
    LET b == TopUp(mem, i, r, amount) IN
    /\ Live
    /\ Parent(i, r)
    /\ amount + admission <= PerCall(mem)
    /\ amount > 0 => Fits(mem, One(r, amount), One(r, amount))
    /\ Fits(b, One(r, admission), One(r, admission))
    /\ Persist(Pend(Debit(b, One(r, admission)), n, One(r, admission)))
    /\ UNCHANGED <<pay, crashes, renewals, resets>>

\* A rolling window refuses the admission after the top-up was applied: the file
\* is written with the top-up, then memory goes back.
ReadmitRefused(i, r, amount) ==
    /\ Live
    /\ Parent(i, r)
    /\ Fits(mem, One(r, amount), One(r, amount))
    /\ mem' = mem
    /\ \/ disk' = {TopUp(mem, i, r, amount)}
       \/ disk' = disk \cup {TopUp(mem, i, r, amount)}
    /\ UNCHANGED <<pay, crashes, renewals, resets>>

\* draw_call_spend: a part of the hold becomes a reservation of its own.
DrawFrom(b, h, i, seq, amount) ==
    LET k == b.call[h] IN
    [b EXCEPT !.pending[<<h, k.peer>>] = @ - amount,
              !.pending[<<i, k.peer>>] = amount,
              !.call[h] = [k EXCEPT !.draws = k.draws \cup {<<i, seq>>}]]

\* Mutant: a block with an unresolved draw may be drawn again.
Draw_AnyBlock(h, i, seq, amount) ==
    LET k == mem.call[h] IN
    /\ Live
    /\ ~mem.paused
    /\ HasCall(mem, h) /\ ~k.closed
    /\ HoldFits(mem, h)
    /\ amount <= (IF seq = ClosingSeq THEN Closing ELSE PerBlock)
    /\ seq \notin k.paidSeqs
    /\ amount <= mem.pending[<<h, k.peer>>]
    /\ Persist(DrawFrom(mem, h, i, seq, amount))
    /\ UNCHANGED <<pay, crashes, renewals, resets>>

\* draw_call_spend_for_grant and reserve_call_closing_spend: budget and breakers
\* are not charged again.
Draw(h, i, seq, amount) ==
    LET k == mem.call[h] IN
    /\ Live
    /\ ~mem.paused
    /\ HasCall(mem, h) /\ ~k.closed
    /\ HoldFits(mem, h)
    /\ amount <= (IF seq = ClosingSeq THEN Closing ELSE PerBlock)
    /\ seq \notin k.paidSeqs /\ \A d \in k.draws : d[2] # seq
    /\ amount <= mem.pending[<<h, k.peer>>]
    /\ Persist(DrawFrom(mem, h, i, seq, amount))
    /\ UNCHANGED <<pay, crashes, renewals, resets>>

\* close_call_spend
CloseCall(h) ==
    /\ Live
    /\ HasCall(mem, h) /\ ~mem.call[h].closed
    /\ Persist(CloseHold(mem, h))
    /\ UNCHANGED <<pay, crashes, renewals, resets>>

\* enforce_call_hold_limit, prune_call_spend: a hold that the grant no longer
\* allows is closed.
EnforceHoldLimit(h) ==
    /\ Live
    /\ HasCall(mem, h) /\ ~mem.call[h].closed /\ ~HoldFits(mem, h)
    /\ Persist(CloseHold(mem, h))
    /\ UNCHANGED <<pay, crashes, renewals, resets>>

\* prune_call_tombstones
PruneTombstone(h) ==
    /\ Live
    /\ HasCall(mem, h)
    /\ mem.call[h].closed /\ mem.call[h].draws = {} /\ mem.call[h].recorded
    /\ Persist([mem EXCEPT !.call[h] = None])
    /\ UNCHANGED <<pay, crashes, renewals, resets>>

Consume(b, c) == [b EXCEPT !.pending[c] = 0]

\* try_resolve_spend_outcome: consumes the pending entry; a call hold is refused.
Resolve(i, r) ==
    LET c        == <<i, r>>
        reserved == mem.pending[c]
        actual   == IF pay[c].st = "paid" THEN pay[c].amt ELSE 0
        b        == Consume(mem, c)
    IN
    /\ Live
    /\ reserved > 0
    /\ ~(i \in Holds /\ HasCall(mem, i))
    /\ pay[c].st \in {"void", "failed", "paid"}
    /\ \/ /\ DrawnFor(mem, i) = {}
          /\ Persist(RecordOutcome(Settle(b, r, reserved, actual), actual))
       \/ \E hs \in DrawnFor(mem, i) :
             Persist(ResolveCallDraw(b, hs[1], i, hs[2], reserved, actual, pay[c].st))
    /\ UNCHANGED <<pay, crashes, renewals, resets>>

\* A device-signed relation intent.
Renew(r, amount, act) ==
    /\ Live /\ RecipientsOnly
    /\ renewals < MaxRenewals /\ renewals' = renewals + 1
    /\ Persist(OpenEnvelope(mem, r, amount, act))
    /\ UNCHANGED <<pay, crashes, resets>>

\* reset_breakers by the owner; reservations survive.
ResetBreakers ==
    /\ Live
    /\ resets < MaxResets /\ resets' = resets + 1
    /\ Persist([mem EXCEPT !.failures = 0, !.paused = FALSE])
    /\ UNCHANGED <<pay, crashes, renewals>>

\* revoke_grants, and the removal of an expired grant: memory forgets at once,
\* the deletion stays owed to the file.
Revoke ==
    /\ mem' = None
    /\ disk' \in {disk, disk \cup {None}, {None}}
    /\ UNCHANGED <<pay, crashes, renewals, resets>>

\* The service starts again from the file.
Crash ==
    /\ crashes < MaxCrashes /\ crashes' = crashes + 1
    /\ \E b \in disk : mem' = b /\ disk' = {b}
    /\ UNCHANGED <<pay, renewals, resets>>

-----------------------------------------------------------------------------
(* Payments, by the holders of the reservations *)

Outcome(c, from, to, amount) ==
    /\ pay[c].st = from
    /\ pay' = [pay EXCEPT ![c].st = to, ![c].amt = amount]
    /\ UNCHANGED <<mem, disk, crashes, renewals, resets>>

\* with_call_spend_authority: checked in the poll that dispatches.
Dispatch(i, r) ==
    LET c == <<i, r>> IN
    /\ Live
    /\ mem.pending[c] > 0 /\ ~mem.paused
    /\ ~(i \in Holds /\ HasCall(mem, i))
    /\ \A hs \in DrawnFor(mem, i) : ~mem.call[hs[1]].closed /\ HoldFits(mem, hs[1])
    /\ pay[c].st = "none"
    /\ \E for \in IF DrawnFor(mem, i) = {} THEN {None} ELSE DrawnFor(mem, i) :
         pay' = [pay EXCEPT ![c] = [st |-> "inflight", amt |-> mem.pending[c], for |-> for]]
    /\ UNCHANGED <<mem, disk, crashes, renewals, resets>>

\* The holder gives the reservation up before dispatch.
Decline(i, r) ==
    /\ Live
    /\ mem.pending[<<i, r>>] > 0 /\ ~(i \in Holds /\ HasCall(mem, i))
    /\ Outcome(<<i, r>>, "none", "void", 0)

PaymentFails(c) == Outcome(c, "inflight", "failed", 0)

PaymentSettles(c) ==
    \E amount \in 1 .. pay[c].amt + MaxOverrun : Outcome(c, "inflight", "paid", amount)

Amounts == 1 .. Max2(PerCallMax, PerBlock)

Next ==
    \/ \E i \in Ids :
        /\ Free(i)
        /\ \/ \E charges \in Charges : Reserve(i, charges)
           \/ \E r \in Recipients : i \in Holds /\ ReserveCall(i, r)
           \/ \E h \in Holds \ {i}, r \in Recipients, a \in Amounts :
                 Free(h) /\ ReserveCallWithOffer(h, i, r, a)
           \/ \E p \in Ids, r \in Recipients, t \in Amounts \cup {0}, a \in Amounts :
                 Readmit(p, r, t, i, a)
           \/ \E h \in Holds, s \in Seqs, a \in Amounts : Draw(h, i, s, a)
    \/ \E i \in Ids, r \in Recipients :
        \/ \E a \in Amounts : ReadmitRefused(i, r, a)
        \/ Resolve(i, r) \/ Dispatch(i, r) \/ Decline(i, r)
        \/ PaymentFails(<<i, r>>) \/ PaymentSettles(<<i, r>>)
    \/ \E h \in Holds : CloseCall(h) \/ EnforceHoldLimit(h) \/ PruneTombstone(h)
    \/ \E r \in Recipients, a \in Envelopes, act \in Amounts : Renew(r, a, act)
    \/ ResetBreakers \/ Revoke \/ Crash

Spec == Init /\ [][Next]_vars

-----------------------------------------------------------------------------
(* Properties *)

Statuses == {"none", "inflight", "void", "failed", "paid"}
CallSpends ==
    [peer : Recipients, spent : Nat, released : Nat, closed : BOOLEAN, recorded : BOOLEAN,
     failed : BOOLEAN, draws : SUBSET (Ids \X Seqs), paidSeqs : SUBSET Seqs]
Budgets ==
    [budget : Nat, cap : [Recipients -> Nat], perAct : [Recipients -> Nat],
     used : Nat, usedBy : [Recipients -> Nat], pending : [Cells -> Nat],
     call : [Holds -> CallSpends \cup {None}], failures : Nat, paused : BOOLEAN]

TypeOK ==
    /\ mem \in Budgets \cup {None}
    /\ disk \subseteq Budgets \cup {None} /\ disk # {}
    /\ pay \in [Cells -> [st : Statuses, amt : Nat, for : (Holds \X Seqs) \cup {None}]]

\* What cell c of budget b stands for: what it still keeps, or what was paid of it (p).
KeptOrPaid(b, p, c) ==
    IF b.pending[c] > 0 THEN b.pending[c] ELSE IF p[c].st = "paid" THEN p[c].amt ELSE 0

Tallied(b, p) ==
    /\ b.used = SumFunctionOnSet(b.usedBy, Recipients)
    /\ \A r \in Recipients :
          b.usedBy[r] = SumFunctionOnSet([i \in Ids |-> KeptOrPaid(b, p, <<i, r>>)], Ids)

\* "The tally must never under-count what actually left the wallet": in memory
\* and in every content a restart may find, the used amounts are exactly what
\* was paid plus what unresolved reservations, holds and draws still keep.
Tally == \A b \in Contents : Tallied(b, pay)

\* What was paid to r, or may still be.
Exposed(r) ==
    SumFunctionOnSet([i \in Ids |-> IF pay[<<i, r>>].st \in {"inflight", "paid"} THEN pay[<<i, r>>].amt ELSE 0],
                     Ids)

\* What left the wallet or may still leave it stays within what the owner
\* approved for each recipient and in total, whatever crashed or was rolled back
\* (providers that keep to the reservation).
WithinApproval ==
    MaxOverrun = 0 /\ Live =>
        /\ \A r \in Recipients : Exposed(r) <= mem.cap[r]
        /\ SumFunctionOnSet([r \in Recipients |-> Exposed(r)], Recipients) <= mem.budget

\* "A crash after this point leaves the reservation counted": no payment is under
\* way that a restart would not find reserved.
CountedBeforePaid ==
    \A c \in Cells : pay[c].st = "inflight" => \A b \in disk \ {None} : b.pending[c] > 0

\* "Unknown outcomes still consume a possible failure slot": even if every
\* unresolved payment fails, the failures in a row stay within the limit.
FailureSlots == \A b \in Contents : b.failures + Unresolved(b) <= MaxFailures

Enveloped(b) ==
    b.budget = b.used + SumFunctionOnSet([r \in Recipients |-> Sub(b.cap[r], b.usedBy[r])], Recipients)

\* "The total is what was used plus what every envelope has left", also when an
\* envelope is renewed while reservations and a call are open (open_envelope).
EnvelopeTotal == MaxOverrun = 0 /\ RecipientsOnly => \A b \in Contents : Enveloped(b)

Conserved(b, h) ==
    LET k == b.call[h] IN
    Reserved = k.spent + k.released + b.pending[<<h, k.peer>>]
                 + SumFunctionOnSet([d \in k.draws |-> b.pending[<<d[1], k.peer>>]], k.draws)

\* What a call reserved is spent, released, drawn or still held, never two of
\* them: closing it while draws are unresolved returns only what they leave.
CallConserved ==
    MaxOverrun = 0 => \A b \in Contents, h \in Holds : HasCall(b, h) => Conserved(b, h)

\* A block of a call is paid at most once, over failed draws, retries, crashes and
\* failed writes.
BlockPaidOnce ==
    \A c, d \in Cells :
        /\ pay[c].for # None /\ pay[c].for = pay[d].for
        /\ {pay[c].st, pay[d].st} \subseteq {"inflight", "paid"}
        => c = d

-----------------------------------------------------------------------------
(* Why FailureSlots and CountedBeforePaid hold after any history *)

\* Each budget: an open hold keeps its rest at the peer only, a closed one keeps
\* nothing, and a draw is one reservation, at that peer, of one call.
Kept(b) ==
    /\ \A h \in Holds : HasCall(b, h) =>
          /\ \A r \in Recipients : b.pending[<<h, r>>] > 0 => r = b.call[h].peer /\ ~b.call[h].closed
          /\ \A d \in b.call[h].draws :
                /\ \A r \in Recipients : b.pending[<<d[1], r>>] > 0 <=> r = b.call[h].peer
                /\ ~(d[1] \in Holds /\ HasCall(b, d[1]))
    /\ \A g, h \in Holds : HasCall(b, g) /\ HasCall(b, h) =>
          \A d \in b.call[g].draws, e \in b.call[h].draws : d[1] = e[1] => g = h /\ d = e

Good(b) == b \in Budgets /\ Kept(b) /\ b.failures + Unresolved(b) <= MaxFailures

\* The payment of cell c is reserved in b, by something else than a call hold.
Counted(b, c) == b.pending[c] > 0 /\ ~(c[1] \in Holds /\ HasCall(b, c[1]))

\* A reservation that memory can dispatch, or that is under way, is in every
\* content a restart may find.
Backed ==
    \A c \in Cells :
        /\ Live /\ pay[c].st \in {"none", "inflight"} /\ Counted(mem, c)
           => \A b \in disk \ {None} : Counted(b, c)
        /\ pay[c].st = "inflight" => \A b \in Contents : Counted(b, c)

LedgerInv == TypeOK /\ (\A b \in Contents : Good(b)) /\ Backed

-----------------------------------------------------------------------------
(* Why Tally, WithinApproval, EnvelopeTotal, CallConserved and BlockPaidOnce hold *)

\* A call hold is never paid as such.
HoldsUnpaid(b, p) ==
    \A h \in Holds : HasCall(b, h) => \A r \in Recipients : p[<<h, r>>].st = "none"

\* A payment takes at most what b reserves for it.
Sized(b, p) ==
    \A c \in Cells : b.pending[c] > 0 /\ p[c].st \in {"inflight", "paid"} => p[c].amt <= b.pending[c]

\* The used amounts are within the limits, and the limits are those of the envelopes.
Capped(b) ==
    /\ b.used <= b.budget /\ \A r \in Recipients : b.usedBy[r] <= b.cap[r]
    /\ RecipientsOnly => Enveloped(b)

\* Each call: a block has one draw, or is paid.
BlocksApart(b) ==
    \A h \in Holds : HasCall(b, h) =>
        LET k == b.call[h] IN
        /\ k.recorded => k.closed
        /\ \A d, e \in k.draws : d[2] = e[2] => d = e
        /\ \A d \in k.draws : d[2] \notin k.paidSeqs

\* Reservation c is a draw for block fs[2] of call fs[1] in b.
Draws(b, c, fs) == HasCall(b, fs[1]) /\ <<c[1], fs[2]>> \in b.call[fs[1]].draws

\* A payment under way is a draw in b; a paid block is drawn, known as paid or
\* settled for good if b has the call.
Known(b, p) ==
    \A c \in Cells : p[c].for # None =>
        LET fs == p[c].for IN
        /\ HasCall(b, fs[1]) => c[2] = b.call[fs[1]].peer
        /\ p[c].st = "inflight" => Draws(b, c, fs)
        /\ p[c].st = "paid" /\ HasCall(b, fs[1]) =>
              Draws(b, c, fs) \/ fs[2] \in b.call[fs[1]].paidSeqs \/ b.call[fs[1]].recorded

Balanced(b, p) ==
    /\ Tallied(b, p) /\ HoldsUnpaid(b, p)
    /\ MaxOverrun = 0 =>
          Sized(b, p) /\ Capped(b) /\ \A h \in Holds : HasCall(b, h) => Conserved(b, h)
    /\ BlocksApart(b) /\ Known(b, p)

\* What budget a can still dispatch, b reserves as well: as much, for the same block.
Promised(a, b, p) ==
    \A c \in Cells : Counted(a, c) /\ p[c].st = "none" =>
        /\ a.pending[c] <= b.pending[c]
        /\ \A fs \in DrawnFor(a, c[1]) : Draws(b, c, fs)

MoneyInv ==
    /\ \A b \in Contents : Balanced(b, pay)
    /\ Live => \A b \in disk \ {None} : Promised(mem, b, pay)
    /\ \A c \in Cells : /\ pay[c].for # None => pay[c].st # "none"
                        /\ pay[c].st = "paid" => pay[c].amt > 0
    /\ BlockPaidOnce

====

----------------------------- MODULE PaidDelivery -----------------------------
(***************************************************************************)
(* A paid envelope from the sender's queue to its acknowledgement:         *)
(* pending_handler.rs and session_handler.rs of crates/konsensus-node at   *)
(* the sender, the receive loop of msg_handler.rs at the recipient, and    *)
(* the tables of crates/konsensus-storage/src/sqlite.rs behind both.       *)
(*                                                                         *)
(* The receive loop takes one envelope at a time and is cut where it       *)
(* writes: between two writes the sweep of abandoned holds may run, or the *)
(* node may crash.  A connection delivers in order and may drop with what  *)
(* is under way; it is the flusher's resends that make duplicates.         *)
(*                                                                         *)
(* Left out: call blocks and relay control, envelopes that share a payment *)
(* hash or a nonce, and a peer that is not privileged (it gets no reject). *)
(***************************************************************************)
EXTENDS Naturals, Sequences, TLC

CONSTANTS
    Msgs,           \* paid envelopes of one sender to one recipient
    PriceMoves,     \* the gate may find an envelope's price insufficient
    Window,         \* bound on frames under way in each direction
    MaxFaults,      \* bound on failed writes at the recipient
    MaxCrashes,     \* bound on crashes of the recipient
    MaxDrops,       \* bound on lost connections
    None

VARIABLES
    pending,    \* pending_deliveries: per message its state, dispatched, backoff
    frames,     \* envelopes under way
    replies,    \* MessageAck and MessageReject frames under way
    receipt,    \* payment_receipts.accepted: no row, 0 (legacy), 1, -1
    stored,     \* messages: the recipient's rows
    hold,       \* call_admission_hold: per message none, fresh or older than HOLD_MAX_MS
    hand,       \* the receive loop: the envelope in hand and the next step
    admitted,   \* messages whose plaintext was kept and whose admission passed
    shown,      \* per message, how often clients got it over the WebSocket
    faults, crashes, drops

sender    == <<pending, frames, replies>>
recipient == <<receipt, stored, hold, hand, admitted, shown>>
vars      == <<sender, recipient, faults, crashes, drops>>

Idle == [pc |-> "idle", m |-> None, placed |-> FALSE]

TypeOK ==
    /\ pending \in [Msgs -> [state : {"pending", "failed_paid", "acked"},
                             dispatched : BOOLEAN, wait : {"zero", "running", "over"}]]
    /\ frames \in Seq(Msgs) /\ Len(frames) <= Window
    /\ replies \in Seq(Msgs \X {"ack", "terminal", "retry"}) /\ Len(replies) <= Window
    /\ receipt \in [Msgs -> {"none", "legacy", "accepted", "withdrawn"}]
    /\ stored \subseteq Msgs
    /\ hold \in [Msgs -> {"none", "fresh", "aged"}]
    /\ hand \in [pc : {"idle", "gate", "hold", "accept", "decrypt", "admit", "reply"},
                 m : Msgs \cup {None}, placed : BOOLEAN]
    /\ admitted \subseteq Msgs /\ shown \in [Msgs -> Nat]
    /\ faults \in 0 .. MaxFaults /\ crashes \in 0 .. MaxCrashes /\ drops \in 0 .. MaxDrops

\* A receipt of an older version has no metadata, with or without its message.
Init ==
    /\ pending = [m \in Msgs |-> [state |-> "pending", dispatched |-> FALSE, wait |-> "zero"]]
    /\ frames = <<>> /\ replies = <<>>
    /\ receipt \in [Msgs -> {"none", "legacy"}]
    /\ stored \in SUBSET {m \in Msgs : receipt[m] = "legacy"}
    /\ hold = [m \in Msgs |-> "none"]
    /\ hand = Idle
    /\ admitted = stored
    /\ shown = [m \in Msgs |-> 0]
    /\ faults = 0 /\ crashes = 0 /\ drops = 0

-----------------------------------------------------------------------------
(* The sender *)

\* Mutant: the deadline of the last rejection stays.
MarkPendingSent_Deadline(m) ==
    /\ pending[m].state = "pending" /\ pending[m].wait # "running"
    /\ pending' = [pending EXCEPT ![m].dispatched = TRUE]

\* mark_pending_sent: the dispatch intent is written before the send, and stays
\* when the send fails.
MarkPendingSent(m) ==
    /\ pending[m].state = "pending" /\ pending[m].wait # "running"
    /\ pending' = [pending EXCEPT ![m].dispatched = TRUE, ![m].wait = "zero"]

\* flush_peer for one row.
FlushSends(m) ==
    /\ MarkPendingSent(m)
    /\ Len(frames) < Window /\ frames' = Append(frames, m)
    /\ UNCHANGED <<replies, recipient, faults, crashes, drops>>

FlushFails(m) ==
    /\ MarkPendingSent(m)
    /\ UNCHANGED <<frames, replies, recipient, faults, crashes, drops>>

BackoffElapses(m) ==
    /\ pending[m].wait = "running"
    /\ pending' = [pending EXCEPT ![m].wait = "over"]
    /\ UNCHANGED <<frames, replies, recipient, faults, crashes, drops>>

\* Mutant: the row goes without a record of the acknowledgement.
AcknowledgePending_Unrecorded(m) ==
    pending' = IF pending[m].dispatched /\ pending[m].state = "pending"
               THEN [pending EXCEPT ![m].state = None] ELSE pending

\* acknowledge_pending deletes the row.
AcknowledgePending(m) ==
    pending' = IF pending[m].dispatched /\ pending[m].state = "pending"
               THEN [pending EXCEPT ![m].state = "acked"] ELSE pending

\* reject_pending: once per dispatch, and with a backoff.
RejectPending(m, terminal) ==
    pending' = IF pending[m].dispatched /\ pending[m].state = "pending" /\ pending[m].wait = "zero"
               THEN [pending EXCEPT ![m].wait = "running",
                                    ![m].state = IF terminal THEN "failed_paid" ELSE "pending"]
               ELSE pending

\* handle_delivery_confirmation
HandleDeliveryConfirmation ==
    /\ replies # <<>>
    /\ LET m == Head(replies)[1] IN
       IF Head(replies)[2] = "ack" THEN AcknowledgePending(m)
       ELSE RejectPending(m, Head(replies)[2] = "terminal")
    /\ replies' = Tail(replies)
    /\ UNCHANGED <<frames, recipient, faults, crashes, drops>>

-----------------------------------------------------------------------------
(* The recipient *)

m0 == hand.m

Goto(pc) == hand' = [hand EXCEPT !.pc = pc]

\* The reply leaves and the loop takes the next envelope.
Reply(kind) ==
    /\ replies' = Append(replies, <<m0, kind>>)
    /\ hand' = Idle

Fault == faults < MaxFaults /\ faults' = faults + 1

Recv ==
    /\ hand = Idle /\ frames # <<>> /\ Len(replies) < Window
    /\ hand' = [Idle EXCEPT !.pc = "gate", !.m = Head(frames)]
    /\ frames' = Tail(frames)
    /\ UNCHANGED <<pending, replies, receipt, stored, hold, admitted, shown, faults, crashes, drops>>

\* Mutant: held envelopes are not excluded.
IsPaidEnvelopeAccepted_Held(m) ==
    receipt[m] = "accepted" \/ (receipt[m] = "legacy" /\ m \in stored)

\* is_paid_envelope_accepted: by the durable receipt, or by a legacy message row.
IsPaidEnvelopeAccepted(m) ==
    /\ hold[m] = "none"
    /\ receipt[m] = "accepted" \/ (receipt[m] = "legacy" /\ m \in stored)

\* The gate knows the envelope: its legacy receipt is completed and the ACK is
\* repeated.
GateDuplicate ==
    /\ hand.pc = "gate" /\ IsPaidEnvelopeAccepted(m0)
    /\ receipt' = [receipt EXCEPT ![m0] = "accepted"]
    /\ Reply("ack")
    /\ UNCHANGED <<pending, frames, stored, hold, admitted, shown, faults, crashes, drops>>

\* A sender taken off the whitelist or a message too old is turned away before the
\* acceptance is looked up; an unsettled payment, an unavailable Lightning node and the
\* price come after it.  "insufficient payment:" alone is terminal at the sender.
GateRejects ==
    /\ hand.pc = "gate"
    /\ \/ Reply("retry")
       \/ PriceMoves /\ ~IsPaidEnvelopeAccepted(m0) /\ Reply("terminal")
    /\ UNCHANGED <<pending, frames, receipt, stored, hold, admitted, shown, faults, crashes, drops>>

GatePasses ==
    /\ hand.pc = "gate" /\ ~IsPaidEnvelopeAccepted(m0)
    /\ Goto("hold")
    /\ UNCHANGED <<sender, receipt, stored, hold, admitted, shown, faults, crashes, drops>>

\* hold_incoming: no second hold, and none once the message is stored.
HoldIncoming ==
    /\ hand.pc = "hold"
    /\ LET placed == m0 \notin stored /\ hold[m0] = "none" IN
       /\ hold' = IF placed THEN [hold EXCEPT ![m0] = "fresh"] ELSE hold
       /\ hand' = [hand EXCEPT !.pc = "accept", !.placed = placed]
    /\ UNCHANGED <<sender, receipt, stored, admitted, shown, faults, crashes, drops>>

HoldFails ==
    /\ hand.pc = "hold" /\ Fault
    /\ Reply("retry")
    /\ UNCHANGED <<pending, frames, receipt, stored, hold, admitted, shown, crashes, drops>>

\* accept_paid_envelope: receipt, nonce and message in one transaction.
Accept ==
    /\ hand.pc = "accept"
    /\ receipt[m0] = "none" \/ (receipt[m0] = "legacy" /\ m0 \notin stored)
    /\ receipt' = [receipt EXCEPT ![m0] = "accepted"]
    /\ stored' = stored \cup {m0}
    /\ Goto("decrypt")
    /\ UNCHANGED <<sender, hold, admitted, shown, faults, crashes, drops>>

\* Mutant: a hold is not looked up.
AlreadyAccepted_Held ==
    /\ hand.pc = "accept"
    /\ receipt[m0] = "accepted" \/ (receipt[m0] = "legacy" /\ m0 \in stored)
    /\ receipt' = [receipt EXCEPT ![m0] = "accepted"]
    /\ Reply("ack")
    /\ UNCHANGED <<pending, frames, stored, hold, admitted, shown, faults, crashes, drops>>

\* AlreadyAccepted: an envelope still held was never admitted.
AlreadyAccepted ==
    /\ hand.pc = "accept"
    /\ receipt[m0] = "accepted" \/ (receipt[m0] = "legacy" /\ m0 \in stored)
    /\ receipt' = [receipt EXCEPT ![m0] = "accepted"]
    /\ Reply(IF hold[m0] = "none" THEN "ack" ELSE "terminal")
    /\ UNCHANGED <<pending, frames, stored, hold, admitted, shown, faults, crashes, drops>>

\* call_admission_release of the hold that this attempt placed.
ReleaseOwn == hold' = IF hand.placed THEN [hold EXCEPT ![m0] = "none"] ELSE hold

Withdrawn ==
    /\ hand.pc = "accept" /\ receipt[m0] = "withdrawn"
    /\ \/ ReleaseOwn /\ UNCHANGED faults
       \/ hand.placed /\ Fault /\ UNCHANGED hold
    /\ Reply("terminal")
    /\ UNCHANGED <<pending, frames, receipt, stored, admitted, shown, crashes, drops>>

\* The transaction rolls back; releasing the hold may fail as well.
AcceptFails ==
    /\ hand.pc = "accept"
    /\ \/ Fault /\ ReleaseOwn
       \/ faults + 2 <= MaxFaults /\ faults' = faults + 2 /\ UNCHANGED hold
    /\ Reply("retry")
    /\ UNCHANGED <<pending, frames, receipt, stored, admitted, shown, crashes, drops>>

\* decrypt_and_process: the plaintext is produced and kept.
Decrypted ==
    /\ hand.pc = "decrypt"
    /\ Goto("admit")
    /\ UNCHANGED <<sender, receipt, stored, hold, admitted, shown, faults, crashes, drops>>

\* reject_accepted_envelope: the payment stays burned.
RejectAccepted(m) ==
    /\ receipt' = [receipt EXCEPT ![m] = "withdrawn"]
    /\ stored' = stored \ {m}
    /\ hold' = [hold EXCEPT ![m] = "none"]

\* Undecryptable or not persisted, or refused by the call registry or the room
\* binding; if the withdrawal fails the hold keeps the message hidden.
Refuse ==
    /\ hand.pc \in {"decrypt", "admit"}
    /\ \/ RejectAccepted(m0) /\ UNCHANGED faults
       \/ Fault /\ UNCHANGED <<receipt, stored, hold>>
    /\ Reply("terminal")
    /\ UNCHANGED <<pending, frames, admitted, shown, crashes, drops>>

\* call_admission_release, whoever placed the hold.
Release ==
    /\ hand.pc = "admit"
    /\ hold' = [hold EXCEPT ![m0] = "none"]
    /\ admitted' = admitted \cup {m0}
    /\ Goto("reply")
    /\ UNCHANGED <<sender, receipt, stored, shown, faults, crashes, drops>>

ReleaseFails ==
    /\ hand.pc = "admit" /\ Fault
    /\ Reply("retry")
    /\ UNCHANGED <<pending, frames, receipt, stored, hold, admitted, shown, crashes, drops>>

\* The WebSocket broadcast, then the ACK.
Show ==
    /\ hand.pc = "reply"
    /\ shown' = [shown EXCEPT ![m0] = @ + 1]
    /\ Reply("ack")
    /\ UNCHANGED <<pending, frames, receipt, stored, hold, admitted, faults, crashes, drops>>

\* call_admission_withdraw of the holds in the set.
Withdraw(held) ==
    /\ receipt' = [m \in Msgs |-> IF m \in held /\ receipt[m] # "none" THEN "withdrawn" ELSE receipt[m]]
    /\ stored' = stored \ held
    /\ hold' = [m \in Msgs |-> IF m \in held THEN "none" ELSE hold[m]]

\* HOLD_MAX_MS is far longer than the loop works on one envelope.
HoldAges(m) ==
    /\ hold[m] = "fresh" /\ hand = Idle
    /\ hold' = [hold EXCEPT ![m] = "aged"]
    /\ UNCHANGED <<sender, receipt, stored, hand, admitted, shown, faults, crashes, drops>>

\* run_nonce_cleanup, a task beside the receive loop.
SweepHolds ==
    /\ \E m \in Msgs : hold[m] = "aged"
    /\ Withdraw({m \in Msgs : hold[m] = "aged"})
    /\ UNCHANGED <<sender, hand, admitted, shown, faults, crashes, drops>>

\* Mutant: the receipt goes with the message.
CleanupMessage_Receipt(m) ==
    /\ m \in stored /\ hold[m] = "none" /\ hand.m # m
    /\ stored' = stored \ {m}
    /\ receipt' = [receipt EXCEPT ![m] = "none"]
    /\ UNCHANGED <<sender, hold, hand, admitted, shown, faults, crashes, drops>>

\* Retention of the recipient's history: only old messages.
CleanupMessage(m) ==
    /\ m \in stored /\ hold[m] = "none" /\ hand.m # m
    /\ stored' = stored \ {m}
    /\ UNCHANGED <<sender, receipt, hold, hand, admitted, shown, faults, crashes, drops>>

\* The recipient restarts; it withdraws every hold before the receive loop runs,
\* and only warns when that fails.
Crash ==
    /\ crashes < MaxCrashes /\ crashes' = crashes + 1
    /\ hand' = Idle
    /\ \/ Withdraw({m \in Msgs : hold[m] # "none"}) /\ UNCHANGED faults
       \/ Fault /\ UNCHANGED <<receipt, stored, hold>>
    /\ frames' = <<>> /\ replies' = <<>>
    /\ UNCHANGED <<pending, admitted, shown, drops>>

Disconnect ==
    /\ drops < MaxDrops /\ drops' = drops + 1
    /\ frames' = <<>> /\ replies' = <<>>
    /\ UNCHANGED <<pending, recipient, faults, crashes>>

\* One turn of the receive loop.
Turn ==
    \/ GateDuplicate \/ GateRejects \/ GatePasses \/ HoldIncoming \/ HoldFails
    \/ Accept \/ AlreadyAccepted \/ Withdrawn \/ AcceptFails
    \/ Decrypted \/ Refuse \/ Release \/ ReleaseFails \/ Show

Next ==
    \/ \E m \in Msgs :
        FlushSends(m) \/ FlushFails(m) \/ BackoffElapses(m) \/ HoldAges(m) \/ CleanupMessage(m)
    \/ HandleDeliveryConfirmation \/ Recv \/ Turn
    \/ SweepHolds \/ Crash \/ Disconnect

Spec == Init /\ [][Next]_vars

\* Both loops run; the flusher scans every minute and sends while the peer is
\* connected.
Fairness ==
    /\ WF_vars(HandleDeliveryConfirmation) /\ WF_vars(Recv) /\ WF_vars(Turn)
    /\ \A m \in Msgs : WF_vars(BackoffElapses(m)) /\ SF_vars(FlushSends(m))
FairSpec == Spec /\ Fairness

\* The messages are interchangeable.
Symmetry == Permutations(Msgs)

\* Bound of a run: one failed write or one crash.
OneTrouble == faults + crashes <= 1

-----------------------------------------------------------------------------
(* Properties *)

\* The recipient's decision on a message: a hold that no handler works on is
\* never lifted, only withdrawn.
Outcome(m) ==
    IF receipt[m] = "withdrawn" THEN "refused"
    ELSE IF receipt[m] # "accepted" THEN "open"
    ELSE IF hold[m] = "none" THEN "kept"
    ELSE IF hand.m = m /\ hand.pc \in {"decrypt", "admit"} THEN "open" ELSE "refused"

Verdict(m) ==
    CASE pending[m].state = "pending"     -> "waiting"
      [] pending[m].state = "acked"       -> "acked"
      [] pending[m].state = "failed_paid" -> "failed"

Promise == INSTANCE Delivery WITH
    outcome <- [m \in Msgs |-> Outcome(m)], verdict <- [m \in Msgs |-> Verdict(m)]

\* The queue, the receipts, the holds and the receive loop implement Delivery: one
\* decision per message at the recipient, and the sender's verdict is that
\* decision, over resends, lost replies, crashes and failed writes.
Delivers == Promise!Spec

\* Clients are shown a message at most once, however often it is resent.
ShownOnce == \A m \in Msgs : shown[m] <= 1

\* "A paid envelope whose plaintext cannot be produced and kept is never
\* acknowledged as delivered" (msg_handler.rs; compare AckFollowsAcceptance), and "an
\* acknowledged message must never stay hidden": what is acknowledged or shown was
\* admitted, is not held and was not withdrawn.
AckedMeansKept ==
    \A m \in Msgs :
        \/ pending[m].state = "acked" \/ shown[m] > 0
        \/ \E i \in 1 .. Len(replies) : replies[i] = <<m, "ack">>
        => Outcome(m) = "kept" /\ m \in admitted

\* docs/v2/PAID-DELIVERY-SLICE-1.md: "ACK follows durable acceptance even when
\* decryption fails": an envelope that was accepted is not refused.
AckFollowsAcceptance ==
    \A m \in Msgs :
        receipt[m] \in {"accepted", "withdrawn"} =>
            \A i \in 1 .. Len(replies) : replies[i] # <<m, "terminal">>

\* Once the gate stops failing envelopes for reasons of the moment, every queued
\* message leaves the queue, acknowledged or refused for good: no backoff, hold or
\* late reply keeps it there or brings it back.
Decided == <>[][~GateRejects]_vars => \A m \in Msgs : <>[](pending[m].state # "pending")

\* docs/v2/PAID-DELIVERY-SLICE-1.md: "Definitive gate rejections ... atomically
\* retain the envelope in terminal failed_paid state": what failed was not
\* delivered.
FailedIsUndelivered == \A m \in Msgs : pending[m].state = "failed_paid" => shown[m] = 0

====

---------------------------- MODULE DeliveryProofs ----------------------------
(***************************************************************************)
(* Proofs about module PaidDelivery: a message is shown once whatever      *)
(* fails, and the sender learns what the recipient decided unless the      *)
(* release of a hold failed as well.                                       *)
(*                                                                         *)
(* The argument is about receipts and holds.  A receipt that was burned is *)
(* never burned again, so the loop comes past the acceptance once.  A hold *)
(* hides what was accepted and not yet admitted; what is not hidden was    *)
(* admitted, and every answer under way says which of the two it is.       *)
(***************************************************************************)
EXTENDS PaidDelivery, TLAPS

Kinds == {"ack", "terminal", "retry"}
Burned == {"accepted", "withdrawn"}
Sent(m, kind) == \E i \in 1 .. Len(replies) : replies[i] = <<m, kind>>

States == {"pending", "failed_paid", "acked"}
Waits == {"zero", "running", "over"}
Entries == [state : States, dispatched : BOOLEAN, wait : Waits]
Receipts == {"none", "legacy", "accepted", "withdrawn"}
HoldStates == {"none", "fresh", "aged"}
Labels == {"idle", "gate", "hold", "accept", "decrypt", "admit", "reply"}
Hands == {h \in [pc : Labels, m : Msgs \cup {None}, placed : BOOLEAN] : h.pc # "idle" => h.m \in Msgs}

\* The types of the sender's queue, the recipient's tables and the loop.
DeliveryType ==
    /\ pending \in [Msgs -> Entries] /\ frames \in Seq(Msgs) /\ replies \in Seq(Msgs \X Kinds)
    /\ receipt \in [Msgs -> Receipts] /\ hold \in [Msgs -> HoldStates] /\ hand \in Hands
    /\ stored \subseteq Msgs /\ admitted \subseteq Msgs
    /\ shown \in [Msgs -> Nat] /\ faults \in Nat

-----------------------------------------------------------------------------
(* The types *)

\* Replies are appended by the recipient and taken by the sender.
LEMMA SentAppend ==
    ASSUME replies \in Seq(Msgs \X Kinds), NEW m \in Msgs, NEW kind \in Kinds,
           replies' = Append(replies, <<m, kind>>)
    PROVE  /\ replies' \in Seq(Msgs \X Kinds)
           /\ \A n, k : Sent(n, k)' => Sent(n, k) \/ (n = m /\ k = kind)
<1>1. Len(replies') = Len(replies) + 1 /\ Len(replies) \in Nat /\ replies' \in Seq(Msgs \X Kinds)
  OBVIOUS
<1>2. ASSUME NEW n, NEW k, NEW i \in 1 .. Len(replies'), replies'[i] = <<n, k>>
      PROVE  Sent(n, k) \/ (n = m /\ k = kind)
  <2>1. CASE i = Len(replies) + 1
    BY <1>1, <1>2, <2>1
  <2>2. CASE i # Len(replies) + 1
    <3>1. i \in 1 .. Len(replies) /\ replies[i] = <<n, k>>
      BY <1>1, <1>2, <2>2
    <3> QED BY <3>1 DEF Sent
  <2> QED BY <2>1, <2>2
<1> QED BY <1>1, <1>2, SMTT(60) DEF Sent

\* The sender takes the first reply, which was sent.
LEMMA SentTail ==
    ASSUME replies \in Seq(Msgs \X Kinds), replies # <<>>, replies' = Tail(replies)
    PROVE  /\ replies' \in Seq(Msgs \X Kinds)
           /\ \A n, k : Sent(n, k)' => Sent(n, k)
           /\ Sent(Head(replies)[1], Head(replies)[2])
           /\ Head(replies)[1] \in Msgs /\ Head(replies)[2] \in Kinds
<1>1. ASSUME NEW n, NEW k, NEW i \in 1 .. Len(replies'), replies'[i] = <<n, k>>
      PROVE  Sent(n, k)
  <2>1. i + 1 \in 1 .. Len(replies) /\ replies[i + 1] = <<n, k>>
    BY <1>1
  <2> QED BY <2>1 DEF Sent
<1>2. Head(replies) \in Msgs \X Kinds /\ 1 \in 1 .. Len(replies) /\ replies[1] = Head(replies)
      /\ replies' \in Seq(Msgs \X Kinds)
  OBVIOUS
<1>3. Head(replies) = <<Head(replies)[1], Head(replies)[2]>>
  BY <1>2
<1> QED BY <1>1, <1>2, <1>3 DEF Sent

\* A connection that breaks loses every reply.
LEMMA SentNothing == replies' = <<>> => \A n, k : ~Sent(n, k)'
BY DEF Sent

\* What an operation on a row of the queue leaves there.
LEMMA EntryTypes ==
    ASSUME NEW e \in Entries
    PROVE  /\ [e EXCEPT !.dispatched = TRUE, !.wait = "zero"] \in Entries
           /\ [e EXCEPT !.wait = "over"] \in Entries /\ [e EXCEPT !.state = "acked"] \in Entries
           /\ [e EXCEPT !.wait = "running", !.state = "failed_paid"] \in Entries
           /\ [e EXCEPT !.wait = "running", !.state = "pending"] \in Entries
<1>1. {"zero", "over", "running"} \subseteq Waits /\ {"acked", "failed_paid", "pending"} \subseteq States
  BY DEF Waits, States
<1> QED BY <1>1, Zenon DEF Entries

\* What the loop holds at its next step.
LEMMA HandTypes ==
    ASSUME NEW h \in Hands, NEW pc \in Labels, NEW m \in Msgs
    PROVE  /\ h.pc # "idle" => /\ h.m \in Msgs /\ [h EXCEPT !.pc = pc] \in Hands
                               /\ \A b \in BOOLEAN : [h EXCEPT !.pc = pc, !.placed = b] \in Hands
           /\ Idle \in Hands /\ [Idle EXCEPT !.pc = "gate", !.m = m] \in Hands
           /\ h = [pc |-> h.pc, m |-> h.m, placed |-> h.placed] /\ h.pc \in Labels /\ h.placed \in BOOLEAN
<1>1. {"idle", "gate"} \subseteq Labels
  BY DEF Labels
<1> QED BY <1>1, Zenon DEF Hands, Idle

\* The sender's steps write one row and leave the recipient alone.
LEMMA SenderDoes ==
    ASSUME DeliveryType,
           \/ HandleDeliveryConfirmation
           \/ \E m \in Msgs : FlushSends(m) \/ FlushFails(m) \/ BackoffElapses(m)
    PROVE  /\ pending' \in [Msgs -> Entries]
           /\ UNCHANGED <<receipt, stored, hold, hand, admitted, shown, faults>>
           /\ frames' \in Seq(Msgs) /\ replies' \in Seq(Msgs \X Kinds)
<1>0. pending \in [Msgs -> Entries] /\ frames \in Seq(Msgs) /\ replies \in Seq(Msgs \X Kinds)
  BY Zenon DEF DeliveryType
<1>1. UNCHANGED <<receipt, stored, hold, hand, admitted, shown, faults>>
  BY Zenon DEF HandleDeliveryConfirmation, FlushSends, FlushFails, BackoffElapses, recipient
<1>2. ASSUME NEW m \in Msgs, FlushSends(m) \/ FlushFails(m) \/ BackoffElapses(m)
      PROVE  pending' \in [Msgs -> Entries] /\ frames' \in Seq(Msgs) /\ replies' = replies
  <2>1. \/ pending' = [pending EXCEPT ![m] = [pending[m] EXCEPT !.dispatched = TRUE, !.wait = "zero"]]
        \/ pending' = [pending EXCEPT ![m] = [pending[m] EXCEPT !.wait = "over"]]
    BY <1>0, <1>2, Zenon DEF FlushSends, FlushFails, BackoffElapses, MarkPendingSent
  <2>2. (frames' = Append(frames, m) \/ frames' = frames) /\ replies' = replies
    BY <1>2, Zenon DEF FlushSends, FlushFails, BackoffElapses
  <2>3. pending[m] \in Entries
    BY <1>0
  <2>4. PICK e \in Entries : pending' = [pending EXCEPT ![m] = e]
    BY <2>1, <2>3, EntryTypes, Zenon
  <2>5. pending' \in [Msgs -> Entries]
    BY <1>0, <2>4
  <2>6. frames' \in Seq(Msgs)
    BY <1>0, <2>2
  <2> QED BY <2>2, <2>5, <2>6, Zenon
<1>5. CASE HandleDeliveryConfirmation
  <2> DEFINE m == Head(replies)[1]
  <2>1. m \in Msgs /\ replies' \in Seq(Msgs \X Kinds) /\ frames' = frames
    BY <1>5, SentTail DEF DeliveryType, HandleDeliveryConfirmation
  <2>2. AcknowledgePending(m) \/ \E t \in BOOLEAN : RejectPending(m, t)
    BY <1>5, Zenon DEF HandleDeliveryConfirmation
  <2> HIDE DEF m
  <2>3. pending[m] \in Entries
    BY <1>0, <2>1
  <2>4. pending' = pending \/ \E e \in Entries : pending' = [pending EXCEPT ![m] = e]
    <3>1. CASE AcknowledgePending(m)
      <4>1. pending' = [pending EXCEPT ![m] = [pending[m] EXCEPT !.state = "acked"]] \/ pending' = pending
        BY <1>0, <2>1, <3>1 DEF AcknowledgePending
      <4> QED BY <2>3, <4>1, EntryTypes, Zenon
    <3>2. ASSUME NEW t \in BOOLEAN, RejectPending(m, t)
          PROVE  pending' = pending \/ \E e \in Entries : pending' = [pending EXCEPT ![m] = e]
      <4>1. \/ pending' = [pending EXCEPT ![m] = [pending[m] EXCEPT !.wait = "running", !.state = "failed_paid"]]
            \/ pending' = [pending EXCEPT ![m] = [pending[m] EXCEPT !.wait = "running", !.state = "pending"]]
            \/ pending' = pending
        BY <1>0, <2>1, <3>2, Zenon DEF RejectPending
      <4> QED BY <2>3, <4>1, EntryTypes, Zenon
    <3> QED BY <2>2, <3>1, <3>2, Zenon
  <2>5. pending' \in [Msgs -> Entries]
    BY <1>0, <2>1, <2>4
  <2> QED BY <1>0, <1>1, <2>1, <2>5, Zenon
<1> QED BY <1>0, <1>1, <1>2, <1>5, Zenon

\* A reply ends the work on the envelope in hand.
LEMMA ReplyDoes ==
    ASSUME DeliveryType, hand.pc # "idle", NEW kind \in Kinds, Reply(kind)
    PROVE  /\ replies' \in Seq(Msgs \X Kinds) /\ hand' = Idle /\ hand.m \in Msgs
           /\ \A n, k : Sent(n, k)' => Sent(n, k) \/ (n = hand.m /\ k = kind)
<1>1. hand.m \in Msgs /\ replies \in Seq(Msgs \X Kinds)
  BY HandTypes, Zenon DEF DeliveryType, Hands
<1> QED BY <1>1, SentAppend, Zenon DEF Reply, m0

\* The steps of the loop that end with a reply, and the others.
LEMMA TurnHand ==
    ASSUME DeliveryType, Turn
    PROVE  /\ hand.pc # "idle" /\ hand.m \in Msgs /\ UNCHANGED <<pending, frames>>
           /\ \/ hand' = Idle /\ \E kind \in Kinds : Reply(kind)
              \/ hand'.m = hand.m /\ hand'.pc \in {"hold", "accept", "decrypt", "admit", "reply"}
                 /\ hand' \in Hands /\ UNCHANGED replies
<1>1. hand.pc # "idle" /\ hand.m \in Msgs
  <2>1. hand.pc # "idle"
    BY DEF Turn, GateDuplicate, GateRejects, GatePasses, HoldIncoming, HoldFails, Accept,
           AlreadyAccepted, Withdrawn, AcceptFails, Decrypted, Refuse, Release, ReleaseFails, Show
  <2> QED BY <2>1 DEF DeliveryType, Hands
<1>2. CASE GateDuplicate \/ GateRejects \/ HoldFails \/ AlreadyAccepted \/ Withdrawn \/ AcceptFails
           \/ Refuse \/ ReleaseFails \/ Show
  <2>1. UNCHANGED <<pending, frames>> /\ \E kind \in Kinds : Reply(kind)
    BY <1>2 DEF GateDuplicate, GateRejects, HoldFails, AlreadyAccepted, Withdrawn, AcceptFails, Refuse,
                ReleaseFails, Show, Kinds
  <2> QED BY <1>1, <2>1 DEF Reply
<1>3. CASE GatePasses \/ HoldIncoming \/ Accept \/ Decrypted \/ Release
  <2>1. UNCHANGED <<pending, frames, replies>>
    BY <1>3 DEF GatePasses, HoldIncoming, Accept, Decrypted, Release, sender
  <2>2. \E pc \in {"hold", "accept", "decrypt", "admit", "reply"} :
            \/ hand' = [hand EXCEPT !.pc = pc]
            \/ \E b \in BOOLEAN : hand' = [hand EXCEPT !.pc = pc, !.placed = b]
    BY <1>3, Zenon DEF GatePasses, HoldIncoming, Accept, Decrypted, Release, Goto
  <2>3. PICK pc \in {"hold", "accept", "decrypt", "admit", "reply"} :
            \/ hand' = [hand EXCEPT !.pc = pc]
            \/ \E b \in BOOLEAN : hand' = [hand EXCEPT !.pc = pc, !.placed = b]
    BY <2>2, Zenon
  <2>4. pc \in Labels /\ hand \in Hands
    BY DEF Labels, DeliveryType
  <2>5. hand' \in Hands
    <3>1. [hand EXCEPT !.pc = pc] \in Hands /\ \A b \in BOOLEAN : [hand EXCEPT !.pc = pc, !.placed = b] \in Hands
      BY <1>1, <2>4, HandTypes, ZenonT(60)
    <3> QED BY <2>3, <3>1, Zenon
  <2>6. hand'.m = hand.m /\ hand'.pc = pc
    BY <2>3, <2>4, Zenon DEF Hands
  <2> QED BY <1>1, <2>1, <2>5, <2>6, Zenon
<1> QED BY <1>2, <1>3 DEF Turn

\* What the recipient's tables may become.
LEMMA TurnRows ==
    ASSUME DeliveryType, Turn
    PROVE  /\ \E v \in Receipts : receipt' = [receipt EXCEPT ![hand.m] = v]
           /\ \E v \in HoldStates : hold' = [hold EXCEPT ![hand.m] = v]
           /\ stored' \in {stored, stored \cup {hand.m}, stored \ {hand.m}}
           /\ admitted' \in {admitted, admitted \cup {hand.m}}
           /\ shown' = shown \/ (hand.pc = "reply" /\ shown' = [shown EXCEPT ![hand.m] = @ + 1])
           /\ faults' \in {faults, faults + 1, faults + 2}
<1> DEFINE m == hand.m
<1>1. m \in Msgs
  BY TurnHand
<1>2. receipt = [receipt EXCEPT ![m] = receipt[m]] /\ hold = [hold EXCEPT ![m] = hold[m]]
      /\ receipt[m] \in Receipts /\ hold[m] \in HoldStates
      /\ {"accepted", "withdrawn"} \subseteq Receipts /\ {"none", "fresh"} \subseteq HoldStates
  BY <1>1 DEF DeliveryType, Receipts, HoldStates
<1>3. CASE GateDuplicate \/ AlreadyAccepted \/ Accept
  BY <1>2, <1>3, Zenon DEF GateDuplicate, AlreadyAccepted, Accept, m0
<1>4. CASE GateRejects \/ GatePasses \/ HoldFails \/ Decrypted \/ ReleaseFails \/ Show
  BY <1>2, <1>4, Zenon DEF GateRejects, GatePasses, HoldFails, Decrypted, ReleaseFails, Show, Fault, m0
<1>5. CASE HoldIncoming \/ Withdrawn \/ AcceptFails \/ Release
  BY <1>2, <1>5, Zenon DEF HoldIncoming, Withdrawn, AcceptFails, Release, ReleaseOwn, Fault, m0
<1>6. CASE Refuse
  BY <1>2, <1>6, Zenon DEF Refuse, RejectAccepted, Fault, m0
<1> QED BY <1>3, <1>4, <1>5, <1>6, Zenon DEF Turn

\* The types hold initially.
LEMMA TypeInit == Init => DeliveryType
<1> SUFFICES ASSUME Init PROVE DeliveryType
  OBVIOUS
<1>1. "pending" \in States /\ "zero" \in Waits /\ "none" \in HoldStates /\ {"none", "legacy"} \subseteq Receipts
  BY DEF States, Waits, HoldStates, Receipts
<1>2. pending \in [Msgs -> Entries] /\ shown \in [Msgs -> Nat] /\ hold \in [Msgs -> HoldStates]
  BY <1>1 DEF Init, Entries
<1>3. frames \in Seq(Msgs) /\ replies \in Seq(Msgs \X Kinds) /\ faults \in Nat
  BY DEF Init
<1>4. receipt \in [Msgs -> Receipts] /\ stored \subseteq Msgs /\ admitted \subseteq Msgs
  BY <1>1 DEF Init
<1>5. hand \in Hands
  BY DEF Init, Idle, Hands, Labels
<1> QED BY <1>2, <1>3, <1>4, <1>5, Zenon DEF DeliveryType

\* Every step keeps the types.
LEMMA TypeNext == DeliveryType /\ [Next]_vars => DeliveryType'
<1> SUFFICES ASSUME DeliveryType, [Next]_vars PROVE DeliveryType'
  BY SMTT(60)
<1>0. Idle \in Hands /\ \A m \in Msgs : [Idle EXCEPT !.pc = "gate", !.m = m] \in Hands
  BY Zenon DEF Idle, Hands, Labels
<1>1. CASE UNCHANGED vars
  BY <1>1, Zenon DEF DeliveryType, vars, sender, recipient
<1>2. CASE HandleDeliveryConfirmation
           \/ \E m \in Msgs : FlushSends(m) \/ FlushFails(m) \/ BackoffElapses(m)
  BY <1>2, SenderDoes, Zenon DEF DeliveryType
<1>3. CASE Recv
  <2>1. frames \in Seq(Msgs) /\ frames # <<>> /\ frames' = Tail(frames)
        /\ hand' = [Idle EXCEPT !.pc = "gate", !.m = Head(frames)]
    BY <1>3, Zenon DEF DeliveryType, Recv
  <2>2. Head(frames) \in Msgs /\ frames' \in Seq(Msgs)
    BY <2>1
  <2> QED BY <1>0, <1>3, <2>1, <2>2, Zenon DEF DeliveryType, Recv
<1>4. CASE Turn
  <2>1. hand' \in Hands
    BY <1>0, <1>4, TurnHand, Zenon
  <2>2. replies' \in Seq(Msgs \X Kinds) /\ UNCHANGED <<pending, frames>> /\ hand.m \in Msgs
    BY <1>4, TurnHand, ReplyDoes, Zenon DEF DeliveryType
  <2>3. receipt' \in [Msgs -> Receipts] /\ hold' \in [Msgs -> HoldStates]
    <3>1. receipt \in [Msgs -> Receipts] /\ hold \in [Msgs -> HoldStates]
      BY Zenon DEF DeliveryType
    <3>2. PICK v \in Receipts, w \in HoldStates :
              receipt' = [receipt EXCEPT ![hand.m] = v] /\ hold' = [hold EXCEPT ![hand.m] = w]
      BY <1>4, TurnRows, Zenon
    <3> QED BY <3>1, <3>2, Zenon
  <2>4. stored' \subseteq Msgs /\ admitted' \subseteq Msgs
    BY <1>4, <2>2, TurnRows DEF DeliveryType
  <2>5. shown' \in [Msgs -> Nat] /\ faults' \in Nat
    <3>1. shown \in [Msgs -> Nat] /\ faults \in Nat
      BY Zenon DEF DeliveryType
    <3>2. /\ shown' = shown \/ shown' = [shown EXCEPT ![hand.m] = @ + 1]
          /\ faults' \in {faults, faults + 1, faults + 2}
      BY <1>4, TurnRows, Zenon
    <3> QED BY <2>2, <3>1, <3>2
  <2> QED BY <2>1, <2>2, <2>3, <2>4, <2>5, Zenon DEF DeliveryType
<1>5. ASSUME NEW m \in Msgs, HoldAges(m) \/ CleanupMessage(m)
      PROVE  DeliveryType'
  <2>1. "aged" \in HoldStates /\ hold \in [Msgs -> HoldStates] /\ stored \subseteq Msgs
    BY DEF HoldStates, DeliveryType
  <2>2. hold' \in [Msgs -> HoldStates] /\ stored' \subseteq Msgs
    BY <1>5, <2>1 DEF HoldAges, CleanupMessage
  <2> QED BY <1>5, <2>2, Zenon DEF DeliveryType, HoldAges, CleanupMessage, sender
<1>6. CASE SweepHolds \/ Crash \/ Disconnect
  <2>1. /\ receipt' \in [Msgs -> Receipts] /\ hold' \in [Msgs -> HoldStates] /\ stored' \subseteq Msgs
    <3>1. /\ receipt \in [Msgs -> Receipts] /\ hold \in [Msgs -> HoldStates] /\ stored \subseteq Msgs
          /\ "withdrawn" \in Receipts /\ "none" \in HoldStates
      BY DEF DeliveryType, Receipts, HoldStates
    <3>2. ASSUME NEW held, Withdraw(held)
          PROVE  receipt' \in [Msgs -> Receipts] /\ hold' \in [Msgs -> HoldStates] /\ stored' \subseteq Msgs
      BY <3>1, <3>2 DEF Withdraw
    <3>3. (\E held : Withdraw(held)) \/ UNCHANGED <<receipt, stored, hold>>
      BY <1>6, Zenon DEF SweepHolds, Crash, Disconnect, recipient
    <3> QED BY <3>1, <3>2, <3>3, Zenon
  <2>2. frames' \in Seq(Msgs) /\ replies' \in Seq(Msgs \X Kinds)
    <3>1. (frames' = <<>> /\ replies' = <<>>) \/ UNCHANGED <<frames, replies>>
      BY <1>6, Zenon DEF SweepHolds, Crash, Disconnect, sender
    <3>2. frames \in Seq(Msgs) /\ replies \in Seq(Msgs \X Kinds)
      BY Zenon DEF DeliveryType
    <3>3. <<>> \in Seq(Msgs) /\ <<>> \in Seq(Msgs \X Kinds)
      OBVIOUS
    <3> QED BY <3>1, <3>2, <3>3, Zenon
  <2>3. pending' = pending /\ admitted' = admitted /\ shown' = shown /\ (hand' = hand \/ hand' = Idle)
    BY <1>6, Zenon DEF SweepHolds, Crash, Disconnect, sender, recipient
  <2>4. faults' \in Nat
    BY <1>6 DEF DeliveryType, SweepHolds, Crash, Disconnect, Fault
  <2> QED BY <1>0, <2>1, <2>2, <2>3, <2>4, Zenon DEF DeliveryType
<1> QED BY <1>1, <1>2, <1>3, <1>4, <1>5, <1>6, Zenon DEF Next

-----------------------------------------------------------------------------
(* A message is shown once *)

Worked == {"decrypt", "admit", "reply"}

\* What was shown has a burned receipt, and the loop carries to the clients only
\* what was not shown and whose receipt it has burned.
ShownInv(m) ==
    /\ shown[m] <= 1 /\ (shown[m] > 0 => receipt[m] \in Burned)
    /\ hand.m = m /\ hand.pc \in Worked => shown[m] = 0 /\ receipt[m] \in Burned

OnceInv == \A m \in Msgs : ShownInv(m)

\* A turn of the loop leaves every message but the one in hand alone.
LEMMA TurnOthers ==
    ASSUME DeliveryType, Turn, NEW m \in Msgs, m # hand.m
    PROVE  /\ receipt'[m] = receipt[m] /\ hold'[m] = hold[m] /\ shown'[m] = shown[m]
           /\ (m \in stored' <=> m \in stored) /\ (m \in admitted' <=> m \in admitted)
           /\ hand'.pc = "idle" \/ hand'.m # m
           /\ \A k : Sent(m, k)' => Sent(m, k)
<1>1. /\ receipt \in [Msgs -> Receipts] /\ hold \in [Msgs -> HoldStates] /\ shown \in [Msgs -> Nat]
  BY Zenon DEF DeliveryType
<1>2. /\ \E v : receipt' = [receipt EXCEPT ![hand.m] = v]
      /\ \E v : hold' = [hold EXCEPT ![hand.m] = v]
      /\ shown' = shown \/ \E v : shown' = [shown EXCEPT ![hand.m] = v]
  BY TurnRows, Zenon
<1>3. receipt'[m] = receipt[m] /\ hold'[m] = hold[m] /\ shown'[m] = shown[m]
  BY <1>1, <1>2, Zenon
<1>4. (m \in stored' <=> m \in stored) /\ (m \in admitted' <=> m \in admitted)
  BY TurnRows, Zenon
<1>5. hand'.pc = "idle" \/ hand'.m # m
  BY TurnHand DEF Idle
<1>6. \A k : Sent(m, k)' => Sent(m, k)
  <2>1. UNCHANGED replies \/ \E kind \in Kinds : Reply(kind)
    BY TurnHand, Zenon
  <2>2. hand.pc # "idle"
    BY TurnHand, Zenon
  <2>3. CASE UNCHANGED replies
    BY <2>3 DEF Sent
  <2> QED BY <2>1, <2>2, <2>3, ReplyDoes, Zenon
<1> QED BY <1>3, <1>4, <1>5, <1>6, Zenon

\* Receipts burned stay burned: reject_accepted_envelope and call_admission_withdraw.
LEMMA WithdrawDoes ==
    ASSUME DeliveryType, NEW held, Withdraw(held), NEW m \in Msgs
    PROVE  /\ receipt'[m] = IF m \in held /\ receipt[m] # "none" THEN "withdrawn" ELSE receipt[m]
           /\ hold'[m] = IF m \in held THEN "none" ELSE hold[m]
           /\ m \in stored' <=> m \in stored /\ m \notin held
BY Zenon DEF Withdraw

\* A step that neither shows nor takes up a message shows it no more often.
LEMMA ShownQuiet ==
    ASSUME DeliveryType, OnceInv, NEW m \in Msgs, shown' = shown,
           receipt[m] \in Burned => receipt'[m] \in Burned,
           hand' = hand \/ hand'.pc \notin Worked
    PROVE  ShownInv(m)'
BY Zenon DEF OnceInv, ShownInv

\* The loop shows a message only on the way from its receipt.
LEMMA ShownTurn ==
    ASSUME DeliveryType, OnceInv, Turn, NEW m \in Msgs
    PROVE  ShownInv(m)'
<1>1. CASE m # hand.m
  <2>1. /\ receipt'[m] = receipt[m] /\ shown'[m] = shown[m] /\ (hand'.pc = "idle" \/ hand'.m # m)
    BY <1>1, TurnOthers, Zenon
  <2> QED BY <2>1 DEF OnceInv, ShownInv, Worked
<1> SUFFICES ASSUME m = hand.m PROVE ShownInv(m)'
  BY <1>1
<1>2. receipt \in [Msgs -> Receipts] /\ shown \in [Msgs -> Nat] /\ hand \in Hands /\ Idle.pc = "idle"
  BY DEF DeliveryType, Idle
<1>3. CASE GateDuplicate \/ AlreadyAccepted
  <2>1. receipt'[m] = "accepted" /\ shown' = shown /\ hand'.pc = "idle"
    BY <1>2, <1>3 DEF GateDuplicate, AlreadyAccepted, Reply, m0
  <2> QED BY <2>1, ShownQuiet DEF Burned, Worked
<1>4. CASE GateRejects \/ GatePasses \/ HoldIncoming \/ HoldFails \/ Withdrawn \/ AcceptFails \/ ReleaseFails
  <2>1. receipt' = receipt /\ shown' = shown
    BY <1>4, Zenon DEF GateRejects, GatePasses, HoldIncoming, HoldFails, Withdrawn, AcceptFails, ReleaseFails
  <2>2. hand'.pc \in {"idle", "hold", "accept"}
    BY <1>2, <1>4, Zenon DEF GateRejects, GatePasses, HoldIncoming, HoldFails, Withdrawn, AcceptFails, ReleaseFails,
                      Reply, Goto, Hands
  <2> QED BY <2>1, <2>2, ShownQuiet DEF Worked
<1>5. CASE Accept
  <2>1. receipt[m] \notin Burned /\ receipt'[m] = "accepted" /\ shown' = shown
    BY <1>2, <1>5 DEF Accept, m0, Burned
  <2>2. shown[m] \in Nat /\ ~(shown[m] > 0)
    BY <1>2, <2>1 DEF OnceInv, ShownInv
  <2> QED BY <2>1, <2>2 DEF ShownInv, Burned
<1>6. CASE Decrypted \/ Release
  <2>1. receipt' = receipt /\ shown' = shown /\ hand.pc \in Worked
    BY <1>6 DEF Decrypted, Release, Worked
  <2> QED BY <2>1 DEF OnceInv, ShownInv
<1>7. CASE Refuse
  <2>1. (receipt' = receipt \/ receipt'[m] = "withdrawn") /\ shown' = shown /\ hand'.pc = "idle"
    BY <1>2, <1>7 DEF Refuse, RejectAccepted, Reply, m0
  <2> QED BY <2>1, ShownQuiet DEF Burned, Worked
<1>8. CASE Show
  <2>1. receipt' = receipt /\ hand.pc \in Worked /\ shown'[m] = shown[m] + 1 /\ hand'.pc = "idle"
    BY <1>2, <1>8 DEF Show, Reply, Worked, m0
  <2> QED BY <2>1 DEF OnceInv, ShownInv, Worked
<1> QED BY <1>3, <1>4, <1>5, <1>6, <1>7, <1>8, Zenon DEF Turn

\* Every step keeps what was shown within once.
LEMMA OnceNext == DeliveryType /\ OnceInv /\ [Next]_vars => OnceInv'
<1> SUFFICES ASSUME DeliveryType, OnceInv, [Next]_vars, NEW m \in Msgs PROVE ShownInv(m)'
  BY Zenon DEF OnceInv
<1>1. CASE UNCHANGED vars
  BY <1>1, ShownQuiet, Zenon DEF vars, recipient
<1>2. CASE HandleDeliveryConfirmation
           \/ \E n \in Msgs : FlushSends(n) \/ FlushFails(n) \/ BackoffElapses(n)
  BY <1>2, SenderDoes, ShownQuiet, Zenon
<1>3. CASE Recv
  <2>1. receipt' = receipt /\ shown' = shown /\ hand'.pc = "gate"
    BY <1>3 DEF Recv, Idle
  <2> QED BY <2>1, ShownQuiet DEF Worked
<1>4. CASE Turn
  BY <1>4, ShownTurn, Zenon
<1>5. ASSUME NEW n \in Msgs, HoldAges(n) \/ CleanupMessage(n)
      PROVE  ShownInv(m)'
  BY <1>5, ShownQuiet, Zenon DEF HoldAges, CleanupMessage
<1>6. CASE SweepHolds \/ Crash \/ Disconnect
  <2>1. shown' = shown /\ (hand' = hand \/ hand' = Idle)
    BY <1>6, Zenon DEF SweepHolds, Crash, Disconnect, recipient
  <2>2. (\E held : Withdraw(held)) \/ receipt' = receipt
    BY <1>6, Zenon DEF SweepHolds, Crash, Disconnect, recipient
  <2>3. receipt[m] \in Burned => receipt'[m] \in Burned
    BY <2>2, WithdrawDoes DEF Burned
  <2>4. Idle.pc \notin Worked
    BY DEF Idle, Worked
  <2> QED BY <2>1, <2>3, <2>4, ShownQuiet, Zenon
<1> QED BY <1>1, <1>2, <1>3, <1>4, <1>5, <1>6, Zenon DEF Next

\* Nothing was shown before the first message.
LEMMA OnceInit == Init => OnceInv
<1> SUFFICES ASSUME Init, NEW m \in Msgs PROVE ShownInv(m)
  BY Zenon DEF OnceInv
<1>1. shown[m] = 0 /\ hand.pc \notin Worked
  BY DEF Init, Idle, Worked
<1> QED BY <1>1 DEF ShownInv

\* accept_paid_envelope and the holds: however often an envelope is resent, whatever
\* fails and whenever the recipient restarts, clients are shown it at most once.
THEOREM ShownAtMostOnce == Spec => []ShownOnce
<1>1. Init => DeliveryType /\ OnceInv
  BY TypeInit, OnceInit, Zenon
<1>2. (DeliveryType /\ OnceInv) /\ [Next]_vars => (DeliveryType /\ OnceInv)'
  BY TypeNext, OnceNext, Zenon
<1>3. OnceInv => ShownOnce
  BY Zenon DEF OnceInv, ShownInv, ShownOnce
<1> QED BY <1>1, <1>2, <1>3, PTL DEF Spec

-----------------------------------------------------------------------------
(* The sender learns what the recipient decided *)

\* The handlers take back what they held: no acceptance fails together with the
\* release of its hold, and no restart fails to withdraw the holds it finds.
HoldsCleared ==
    /\ ~(AcceptFails /\ faults' = faults + 2)
    /\ ~(Crash /\ faults' # faults)

\* Where the loop is with m.
At(m) == IF hand.m = m THEN hand.pc ELSE "idle"

\* The two decisions of the recipient.
Visible(m) == receipt[m] = "accepted" /\ hold[m] = "none"
Refused(m) ==
    \/ receipt[m] = "withdrawn"
    \/ receipt[m] = "accepted" /\ hold[m] # "none" /\ At(m) \notin {"decrypt", "admit"}

\* An attempt that has come past the gate meets a receipt only behind a hold, and
\* what it accepts is behind its own hold.
AttemptInv(m) ==
    /\ At(m) \in {"hold", "accept"} =>
          /\ receipt[m] = "accepted" => hold[m] # "none"
          /\ ~(receipt[m] = "legacy" /\ m \in stored)
    /\ At(m) = "accept" =>
          /\ hand.placed => hold[m] = "fresh" /\ receipt[m] # "accepted"
          /\ receipt[m] \in {"none", "legacy"} => hand.placed
    /\ At(m) \in {"decrypt", "admit"} => receipt[m] = "accepted" /\ hold[m] = "fresh"
    /\ At(m) = "reply" => Visible(m)

\* A hold that no attempt works on hides a receipt; what is not hidden was admitted.
RowInv(m) ==
    /\ hold[m] # "none" => receipt[m] \in Burned \/ (At(m) = "accept" /\ hand.placed)
    /\ receipt[m] = "none" => m \notin stored
    /\ Visible(m) \/ (receipt[m] = "legacy" /\ m \in stored) => m \in admitted

\* Every answer says what was decided.
AnswerInv(m) ==
    /\ pending[m].state = "acked" \/ shown[m] > 0 \/ Sent(m, "ack") => Visible(m)
    /\ Sent(m, "terminal") => Refused(m) \/ PriceMoves

MsgInv(m) == AttemptInv(m) /\ RowInv(m) /\ AnswerInv(m)

DecisionInv == \A m \in Msgs : MsgInv(m)

\* Steps that leave the row of m and the work on it alone.
LEMMA MsgQuiet ==
    ASSUME NEW m \in Msgs, MsgInv(m), receipt'[m] = receipt[m], hold'[m] = hold[m], shown'[m] = shown[m],
           m \in stored' => m \in stored, m \in admitted => m \in admitted',
           At(m)' = At(m) \/ {At(m), At(m)'} \subseteq {"idle", "gate"},
           At(m) = "accept" => hand'.placed = hand.placed,
           pending'[m].state = "acked" => pending[m].state = "acked" \/ Sent(m, "ack"),
           \A k : Sent(m, k)' => Sent(m, k)
    PROVE  MsgInv(m)'
<1>1. At(m) = "accept" <=> At(m)' = "accept"
  OBVIOUS
<1>2. AttemptInv(m)'
  BY <1>1 DEF MsgInv, AttemptInv, Visible
<1>3. RowInv(m)'
  BY <1>1 DEF MsgInv, RowInv, Visible
<1>4. AnswerInv(m)'
  <2>1. Visible(m) => Visible(m)'
    BY DEF Visible
  <2>2. Refused(m) => Refused(m)'
    BY DEF Refused
  <2> QED BY <2>1, <2>2, SMTT(60) DEF MsgInv, AnswerInv
<1> QED BY <1>2, <1>3, <1>4 DEF MsgInv

\* A turn that answers the envelope in hand and leaves its row as it was.
LEMMA MsgAnswered ==
    ASSUME DeliveryType, NEW m \in Msgs, m = hand.m, hand.pc # "idle", MsgInv(m), pending' = pending,
           receipt'[m] = receipt[m], hold'[m] = hold[m], shown' = shown, stored' = stored,
           admitted' = admitted, hand.pc = "accept" => ~hand.placed,
           NEW kind \in Kinds, Reply(kind), kind = "ack" => Visible(m),
           kind = "terminal" => Refused(m)' \/ PriceMoves
    PROVE  MsgInv(m)'
<1>1. hand' = Idle /\ \A k : Sent(m, k)' => Sent(m, k) \/ k = kind
  BY ReplyDoes, Zenon
<1>2. At(m)' = "idle" /\ At(m) = hand.pc
  BY <1>1, SMTT(60) DEF At, Idle
<1>3. AttemptInv(m)'
  BY <1>2 DEF AttemptInv
<1>4. RowInv(m)'
  BY <1>2 DEF MsgInv, RowInv, Visible
<1>5. AnswerInv(m)'
  <2>1. Visible(m) => Visible(m)'
    BY DEF Visible
  <2>2. Refused(m) => Refused(m)'
    BY <1>2 DEF Refused
  <2> QED BY <1>1, <2>1, <2>2, Zenon DEF MsgInv, AnswerInv
<1> QED BY <1>3, <1>4, <1>5, Zenon DEF MsgInv

\* The gate.
LEMMA GateMsg ==
    ASSUME DeliveryType, NEW m \in Msgs, m = hand.m, MsgInv(m), GateDuplicate \/ GateRejects \/ GatePasses
    PROVE  MsgInv(m)'
<1>0. At(m) = "gate" /\ hand.pc = "gate" /\ hand \in Hands
  BY DEF At, GateDuplicate, GateRejects, GatePasses, DeliveryType
<1>1. CASE GateDuplicate
  <2>1. /\ hold[m] = "none" /\ m \in admitted /\ receipt[m] # "withdrawn"
        /\ pending' = pending /\ shown' = shown /\ hold' = hold /\ stored' = stored /\ admitted' = admitted
    BY <1>1 DEF GateDuplicate, IsPaidEnvelopeAccepted, m0, MsgInv, RowInv, Visible
  <2>2. receipt'[m] = "accepted"
    BY <1>1, SMTT(60) DEF GateDuplicate, m0, DeliveryType
  <2>3. Visible(m)' /\ ~Refused(m)
    BY <2>1, <2>2 DEF Visible, Refused
  <2>4. hand' = Idle /\ \A k : Sent(m, k)' => Sent(m, k) \/ k = "ack"
    BY <1>0, <1>1, ReplyDoes DEF GateDuplicate, Kinds
  <2>5. At(m)' = "idle"
    BY <2>4, SMTT(60) DEF At, Idle
  <2>6. AttemptInv(m)' /\ RowInv(m)'
    BY <2>1, <2>2, <2>5 DEF AttemptInv, RowInv
  <2>7. Sent(m, "terminal")' => PriceMoves
    BY <2>3, <2>4 DEF MsgInv, AnswerInv
  <2> QED BY <2>3, <2>6, <2>7, Zenon DEF MsgInv, AnswerInv
<1>2. CASE GateRejects
  <2>1. /\ pending' = pending /\ receipt' = receipt /\ hold' = hold /\ shown' = shown /\ stored' = stored
        /\ admitted' = admitted /\ \E kind \in {"retry", "terminal"} : Reply(kind) /\ (kind = "terminal" => PriceMoves)
    BY <1>2, Zenon DEF GateRejects
  <2> QED BY <1>0, <2>1, MsgAnswered DEF Kinds
<1>3. CASE GatePasses
  <2>1. /\ UNCHANGED <<pending, replies, receipt, hold, shown, stored, admitted>>
        /\ hand' = [hand EXCEPT !.pc = "hold"] /\ ~IsPaidEnvelopeAccepted(m)
    BY <1>3, Zenon DEF GatePasses, sender, Goto, m0
  <2>2. At(m)' = "hold"
    BY <1>0, <2>1 DEF At, Hands
  <2>3. hold[m] # "none" => receipt[m] \in {"accepted", "withdrawn"}
    BY <1>0 DEF MsgInv, RowInv, Burned
  <2>4. AttemptInv(m)'
    BY <2>1, <2>2, <2>3 DEF AttemptInv, IsPaidEnvelopeAccepted
  <2>5. RowInv(m)'
    BY <1>0, <2>1, <2>2 DEF MsgInv, RowInv, Visible
  <2>6. AnswerInv(m)'
    BY <1>0, <2>1, <2>2 DEF MsgInv, AnswerInv, Visible, Refused, Sent
  <2> QED BY <2>4, <2>5, <2>6, Zenon DEF MsgInv
<1> QED BY <1>1, <1>2, <1>3

\* hold_incoming
LEMMA HoldMsg ==
    ASSUME DeliveryType, NEW m \in Msgs, m = hand.m, MsgInv(m), HoldIncoming \/ HoldFails
    PROVE  MsgInv(m)'
<1>0. At(m) = "hold" /\ hand.pc = "hold" /\ hand \in Hands /\ hold \in [Msgs -> HoldStates]
  BY DEF At, HoldIncoming, HoldFails, DeliveryType
<1>1. CASE HoldFails
  <2>1. /\ pending' = pending /\ receipt' = receipt /\ hold' = hold /\ shown' = shown /\ stored' = stored
        /\ admitted' = admitted /\ Reply("retry")
    BY <1>1, Zenon DEF HoldFails
  <2> QED BY <1>0, <2>1, MsgAnswered DEF Kinds
<1>2. CASE HoldIncoming
  <2> DEFINE placed == m \notin stored /\ hold[m] = "none"
  <2>1. UNCHANGED <<pending, replies, receipt, shown, stored, admitted>>
    BY <1>2, Zenon DEF HoldIncoming, sender
  <2>2. /\ hold' = IF placed THEN [hold EXCEPT ![m] = "fresh"] ELSE hold
        /\ hand' = [hand EXCEPT !.pc = "accept", !.placed = placed]
    BY <1>2, Zenon DEF HoldIncoming, m0
  <2>3. At(m)' = "accept" /\ hand'.placed = placed
    BY <1>0, <2>2 DEF At, Hands
  <2>4. hold'[m] = IF placed THEN "fresh" ELSE hold[m]
    BY <1>0, <2>2, SMTT(60)
  <2>5. /\ receipt[m] = "accepted" => hold[m] # "none"
        /\ ~(receipt[m] = "legacy" /\ m \in stored)
        /\ hold[m] # "none" => receipt[m] \in {"accepted", "withdrawn"}
        /\ receipt[m] = "none" => m \notin stored
    BY <1>0, SMTT(60) DEF MsgInv, AttemptInv, RowInv, Burned
  <2>6. AttemptInv(m)'
    BY <2>1, <2>3, <2>4, <2>5, Zenon DEF AttemptInv
  <2>7. RowInv(m)'
    BY <1>0, <2>1, <2>3, <2>4, <2>5, Zenon DEF MsgInv, RowInv, Visible, Burned
  <2>8. AnswerInv(m)'
    <3>1. ~Visible(m) /\ (Refused(m) => Refused(m)')
      BY <2>1, <2>3, <2>4, <2>5 DEF Visible, Refused
    <3> QED BY <2>1, <3>1, Zenon DEF MsgInv, AnswerInv, Sent
  <2> QED BY <2>6, <2>7, <2>8, Zenon DEF MsgInv
<1> QED BY <1>1, <1>2

\* accept_paid_envelope
LEMMA AcceptMsg ==
    ASSUME DeliveryType, NEW m \in Msgs, m = hand.m, MsgInv(m), HoldsCleared,
           Accept \/ AlreadyAccepted \/ Withdrawn \/ AcceptFails
    PROVE  MsgInv(m)'
<1>0. At(m) = "accept" /\ hand.pc = "accept" /\ hand \in Hands
      /\ hold \in [Msgs -> HoldStates] /\ receipt \in [Msgs -> Receipts]
  BY DEF At, Accept, AlreadyAccepted, Withdrawn, AcceptFails, DeliveryType
<1>1. /\ receipt[m] = "accepted" => hold[m] # "none" /\ ~hand.placed
      /\ ~(receipt[m] = "legacy" /\ m \in stored)
      /\ receipt[m] \in {"none", "legacy"} => hand.placed
      /\ hand.placed => hold[m] = "fresh"
      /\ ~Visible(m)
  BY <1>0 DEF MsgInv, AttemptInv, Visible
<1>2. pending[m].state # "acked" /\ ~(shown[m] > 0) /\ ~Sent(m, "ack")
  BY <1>1 DEF MsgInv, AnswerInv
<1>3. CASE Accept
  <2>1. UNCHANGED <<pending, replies, hold, shown, admitted>> /\ receipt[m] \in {"none", "legacy"}
        /\ hand' = [hand EXCEPT !.pc = "decrypt"]
    BY <1>3 DEF Accept, sender, Goto, m0
  <2>2. receipt'[m] = "accepted" /\ hold[m] = "fresh"
    BY <1>0, <1>1, <1>3, <2>1 DEF Accept, m0
  <2>3. At(m)' = "decrypt"
    BY <1>0, <2>1 DEF At, Hands
  <2>4. AttemptInv(m)' /\ RowInv(m)'
    BY <2>1, <2>2, <2>3 DEF AttemptInv, RowInv, Visible, Burned
  <2>5. AnswerInv(m)'
    <3>1. ~Refused(m)
      BY <2>1, SMTT(60) DEF Refused
    <3> QED BY <1>2, <2>1, <3>1 DEF MsgInv, AnswerInv, Sent
  <2> QED BY <2>4, <2>5, Zenon DEF MsgInv
<1>4. CASE AlreadyAccepted
  <2>1. receipt[m] = "accepted" /\ UNCHANGED <<pending, hold, shown, stored, admitted>> /\ Reply("terminal")
    BY <1>1, <1>4, SMTT(60) DEF AlreadyAccepted, m0
  <2>2. receipt'[m] = "accepted" /\ hand' = Idle
    BY <1>0, <1>4, <2>1, SMTT(60) DEF AlreadyAccepted, m0, Reply
  <2>3. Refused(m)'
    BY <1>1, <2>1, <2>2, SMTT(60) DEF Refused, At, Idle
  <2> QED BY <1>0, <1>1, <2>1, <2>2, <2>3, MsgAnswered, SMTT(60) DEF Kinds
<1>5. CASE Withdrawn \/ AcceptFails
  <2>1. UNCHANGED <<pending, receipt, shown, stored, admitted>> /\ hand' = Idle
    BY <1>5, SMTT(60) DEF Withdrawn, AcceptFails, Reply
  <2>2. \/ receipt[m] = "withdrawn"
        \/ hold' = (IF hand.placed THEN [hold EXCEPT ![m] = "none"] ELSE hold) /\ Reply("retry")
    BY <1>5, SMTT(60) DEF Withdrawn, AcceptFails, HoldsCleared, ReleaseOwn, m0
  <2>3. \A k : Sent(m, k)' => Sent(m, k) \/ k \in {"retry", "terminal"}
    BY <1>0, <1>5, ReplyDoes DEF Withdrawn, AcceptFails, Kinds
  <2>4. At(m)' = "idle"
    BY <2>1 DEF At, Idle
  <2>5. AttemptInv(m)'
    BY <2>4 DEF AttemptInv
  <2>6. CASE receipt[m] = "withdrawn"
    <3>1. RowInv(m)'
      BY <2>1, <2>6, SMTT(60) DEF RowInv, Burned, Visible
    <3>2. AnswerInv(m)'
      BY <1>2, <2>1, <2>3, <2>6, SMTT(60) DEF AnswerInv, Refused
    <3> QED BY <2>5, <3>1, <3>2, Zenon DEF MsgInv
  <2>7. CASE receipt[m] # "withdrawn"
    <3>1. hold'[m] = IF hand.placed THEN "none" ELSE hold[m]
      BY <1>0, <2>2, <2>7, SMTT(60)
    <3>2. \A k : Sent(m, k)' => Sent(m, k) \/ k = "retry"
      BY <1>0, <2>2, <2>7, ReplyDoes, SMTT(60) DEF Kinds
    <3>3. RowInv(m)'
      BY <1>0, <1>1, <2>1, <2>4, <3>1, SMTT(60) DEF MsgInv, RowInv, Visible, Burned
    <3>4. Refused(m) => Refused(m)'
      BY <1>1, <2>1, <2>4, <3>1 DEF Refused
    <3>5. AnswerInv(m)'
      BY <1>2, <2>1, <3>2, <3>4 DEF MsgInv, AnswerInv
    <3> QED BY <2>5, <3>3, <3>5, Zenon DEF MsgInv
  <2> QED BY <2>6, <2>7, SMTT(60)
<1> QED BY <1>3, <1>4, <1>5, SMTT(60)

\* From the plaintext to the answer.
LEMMA AdmitMsg ==
    ASSUME DeliveryType, NEW m \in Msgs, m = hand.m, MsgInv(m),
           Decrypted \/ Refuse \/ Release \/ ReleaseFails
    PROVE  MsgInv(m)'
<1>0. At(m) = hand.pc /\ hand.pc \in {"decrypt", "admit"} /\ hand \in Hands
      /\ hold \in [Msgs -> HoldStates] /\ receipt \in [Msgs -> Receipts]
  BY DEF At, Decrypted, Refuse, Release, ReleaseFails, DeliveryType
<1>1. receipt[m] = "accepted" /\ hold[m] = "fresh" /\ ~Visible(m) /\ ~Refused(m)
  BY <1>0 DEF MsgInv, AttemptInv, Visible, Refused
<1>2. /\ pending[m].state # "acked" /\ ~(shown[m] > 0) /\ ~Sent(m, "ack")
      /\ Sent(m, "terminal") => PriceMoves
  BY <1>1 DEF MsgInv, AnswerInv
<1>3. CASE Decrypted
  <2>1. UNCHANGED <<pending, replies, receipt, hold, shown, stored, admitted>> /\ hand' = [hand EXCEPT !.pc = "admit"]
    BY <1>3 DEF Decrypted, sender, Goto
  <2>2. At(m)' = "admit"
    BY <1>0, <2>1 DEF At, Hands
  <2>3. AttemptInv(m)' /\ RowInv(m)'
    BY <1>1, <2>1, <2>2 DEF AttemptInv, RowInv, Visible, Burned
  <2>4. AnswerInv(m)'
    BY <1>2, <2>1 DEF AnswerInv, Sent
  <2> QED BY <2>3, <2>4, Zenon DEF MsgInv
<1>4. CASE Release
  <2>1. UNCHANGED <<pending, replies, receipt, shown, stored>> /\ m \in admitted'
        /\ hand' = [hand EXCEPT !.pc = "reply"]
    BY <1>4 DEF Release, sender, Goto, m0
  <2>2. hold'[m] = "none" /\ At(m)' = "reply"
    BY <1>0, <1>4, <2>1 DEF Release, At, Hands, m0
  <2>3. AttemptInv(m)' /\ RowInv(m)'
    BY <1>1, <2>1, <2>2 DEF AttemptInv, RowInv, Visible
  <2>4. AnswerInv(m)'
    BY <1>2, <2>1 DEF AnswerInv, Sent
  <2> QED BY <2>3, <2>4, Zenon DEF MsgInv
<1>5. CASE ReleaseFails
  <2>1. /\ pending' = pending /\ receipt' = receipt /\ hold' = hold /\ shown' = shown /\ stored' = stored
        /\ admitted' = admitted /\ Reply("retry")
    BY <1>5, Zenon DEF ReleaseFails
  <2> QED BY <1>0, <2>1, MsgAnswered DEF Kinds
<1>6. CASE Refuse
  <2>1. UNCHANGED <<pending, shown, admitted>> /\ hand' = Idle
    BY <1>6 DEF Refuse, Reply
  <2>2. \A k : Sent(m, k)' => Sent(m, k) \/ k = "terminal"
    BY <1>0, <1>6, ReplyDoes DEF Refuse, Kinds
  <2>3. At(m)' = "idle"
    BY <2>1 DEF At, Idle
  <2>4. \/ receipt'[m] = "withdrawn" /\ hold'[m] = "none"
        \/ receipt'[m] = "accepted" /\ hold'[m] = "fresh"
    BY <1>0, <1>1, <1>6, SMTT(60) DEF Refuse, RejectAccepted, m0
  <2>5. AttemptInv(m)' /\ RowInv(m)'
    BY <2>3, <2>4, SMTT(60) DEF AttemptInv, RowInv, Visible, Burned
  <2>6. Refused(m)'
    BY <2>3, <2>4, SMTT(60) DEF Refused
  <2>7. AnswerInv(m)'
    BY <1>2, <2>1, <2>2, <2>6 DEF AnswerInv
  <2> QED BY <2>5, <2>7, Zenon DEF MsgInv
<1> QED BY <1>3, <1>4, <1>5, <1>6

\* The broadcast and the ACK.
LEMMA ShowMsg ==
    ASSUME DeliveryType, NEW m \in Msgs, m = hand.m, MsgInv(m), Show
    PROVE  MsgInv(m)'
<1>1. At(m) = "reply" /\ hand.pc = "reply" /\ UNCHANGED <<pending, receipt, hold, stored, admitted>> /\ hand' = Idle
  BY SMTT(60) DEF At, Show, Reply
<1>2. Visible(m)
  BY <1>1 DEF MsgInv, AttemptInv
<1>3. \A k : Sent(m, k)' => Sent(m, k) \/ k = "ack"
  BY <1>1, ReplyDoes DEF Show, Kinds
<1>4. At(m)' = "idle"
  BY <1>1, SMTT(60) DEF At, Idle
<1>5. AttemptInv(m)' /\ RowInv(m)'
  BY <1>1, <1>2, <1>4, SMTT(60) DEF MsgInv, AttemptInv, RowInv, Visible
<1>6. AnswerInv(m)'
  <2>1. Visible(m)' /\ ~Refused(m)
    BY <1>1, <1>2 DEF Visible, Refused
  <2> QED BY <1>3, <2>1 DEF MsgInv, AnswerInv
<1> QED BY <1>5, <1>6, Zenon DEF MsgInv

\* A turn of the loop.
LEMMA TurnMsg ==
    ASSUME DeliveryType, Turn, HoldsCleared, NEW m \in Msgs, MsgInv(m)
    PROVE  MsgInv(m)'
<1>1. CASE m # hand.m
  <2>1. /\ receipt'[m] = receipt[m] /\ hold'[m] = hold[m] /\ shown'[m] = shown[m]
        /\ (m \in stored' <=> m \in stored) /\ (m \in admitted' <=> m \in admitted)
        /\ hand'.pc = "idle" \/ hand'.m # m
        /\ \A k : Sent(m, k)' => Sent(m, k)
    BY <1>1, TurnOthers, Zenon
  <2>2. At(m) = "idle" /\ At(m)' = "idle" /\ pending' = pending
    BY <1>1, <2>1, TurnHand DEF At
  <2> QED BY <2>1, <2>2, MsgQuiet
<1>2. CASE m = hand.m
  BY <1>2, GateMsg, HoldMsg, AcceptMsg, AdmitMsg, ShowMsg, Zenon DEF Turn
<1> QED BY <1>1, <1>2, Zenon

\* flush_peer and the backoff change the verdict on no message.
LEMMA FlushKeeps ==
    ASSUME DeliveryType, NEW n \in Msgs, FlushSends(n) \/ FlushFails(n) \/ BackoffElapses(n)
    PROVE  /\ UNCHANGED <<replies, receipt, stored, hold, hand, admitted, shown>>
           /\ \A m \in Msgs : pending'[m].state = pending[m].state
<1>1. UNCHANGED <<replies, receipt, stored, hold, hand, admitted, shown>>
  BY Zenon DEF FlushSends, FlushFails, BackoffElapses, recipient
<1>2. pending \in [Msgs -> Entries]
  BY Zenon DEF DeliveryType
<1>3. \/ pending' = [pending EXCEPT ![n].dispatched = TRUE, ![n].wait = "zero"]
      \/ pending' = [pending EXCEPT ![n].wait = "over"]
  BY Zenon DEF FlushSends, FlushFails, BackoffElapses, MarkPendingSent
<1>4. \A m \in Msgs : pending'[m].state = pending[m].state
  BY <1>2, <1>3 DEF Entries
<1> QED BY <1>1, <1>4, Zenon

\* handle_delivery_confirmation: what an answer under way makes of its row.
LEMMA ConfirmDoes ==
    ASSUME DeliveryType, HandleDeliveryConfirmation
    PROVE  \E h \in Msgs, k \in Kinds :
              /\ Sent(h, k) /\ \A n \in Msgs \ {h} : pending'[n] = pending[n]
              /\ \/ pending'[h].state = pending[h].state
                 \/ pending[h].state = "pending" /\ k = "ack" /\ pending'[h].state = "acked"
                 \/ pending[h].state = "pending" /\ k = "terminal" /\ pending'[h].state = "failed_paid"
<1> DEFINE h == Head(replies)[1]
           k == Head(replies)[2]
<1>1. h \in Msgs /\ k \in Kinds /\ Sent(h, k)
  BY SentTail DEF DeliveryType, HandleDeliveryConfirmation
<1>2. IF k = "ack" THEN AcknowledgePending(h) ELSE RejectPending(h, k = "terminal")
  BY Zenon DEF HandleDeliveryConfirmation
<1>3. pending \in [Msgs -> Entries]
  BY Zenon DEF DeliveryType
<1> HIDE DEF h, k
<1>4. CASE k = "ack"
  BY <1>1, <1>2, <1>3, <1>4 DEF AcknowledgePending, Entries
<1>5. CASE k # "ack"
  <2>1. \/ pending' = pending
        \/ /\ pending[h].state = "pending"
           /\ pending' = [pending EXCEPT ![h].wait = "running",
                                         ![h].state = IF k = "terminal" THEN "failed_paid" ELSE "pending"]
    BY <1>2, <1>5, Zenon DEF RejectPending
  <2> QED BY <1>1, <1>3, <2>1 DEF Entries
<1> QED BY <1>4, <1>5

\* A restart, and the sweep of abandoned holds.
LEMMA WithdrawMsg ==
    ASSUME DeliveryType, NEW m \in Msgs, MsgInv(m), NEW held, Withdraw(held),
           m \in held => hold[m] # "none" /\ (At(m)' = "idle" \/ hold[m] # "fresh"),
           (At(m)' = At(m) /\ hand' = hand) \/ (At(m)' = "idle" /\ (hold[m] # "none" => m \in held)),
           pending' = pending, shown' = shown, admitted' = admitted,
           \A k : Sent(m, k)' => Sent(m, k)
    PROVE  MsgInv(m)'
<1>1. /\ receipt'[m] = IF m \in held /\ receipt[m] # "none" THEN "withdrawn" ELSE receipt[m]
      /\ hold'[m] = IF m \in held THEN "none" ELSE hold[m]
      /\ m \in stored' <=> m \in stored /\ m \notin held
  BY WithdrawDoes, Zenon
<1>2. hold[m] \in HoldStates /\ receipt[m] \in Receipts
  BY DEF DeliveryType
<1>3. AttemptInv(m)'
  BY <1>1, <1>2 DEF MsgInv, AttemptInv, RowInv, Visible, HoldStates, Receipts, Burned
<1>4. RowInv(m)'
  BY <1>1, <1>2 DEF MsgInv, RowInv, Visible, Burned
<1>5. (Visible(m) => Visible(m)') /\ (Refused(m) => Refused(m)')
  BY <1>1, <1>2 DEF Visible, Refused
<1>6. AnswerInv(m)'
  BY <1>5 DEF MsgInv, AnswerInv
<1> QED BY <1>3, <1>4, <1>6, Zenon DEF MsgInv

\* Before the first message nothing was decided but by older versions.
LEMMA DecisionInit == Init => DecisionInv
<1> SUFFICES ASSUME Init, NEW m \in Msgs PROVE MsgInv(m)
  BY Zenon DEF DecisionInv
<1>1. At(m) = "idle" /\ hold[m] = "none" /\ receipt[m] \in {"none", "legacy"}
      /\ (m \in stored => receipt[m] = "legacy") /\ admitted = stored
  BY DEF Init, At, Idle
<1>2. pending[m].state = "pending" /\ shown[m] = 0 /\ \A k : ~Sent(m, k)
  BY DEF Init, Sent
<1>3. AttemptInv(m) /\ RowInv(m)
  BY <1>1 DEF AttemptInv, RowInv, Visible
<1> QED BY <1>2, <1>3 DEF MsgInv, AnswerInv

\* Every step keeps receipts, holds and replies in agreement.
LEMMA DecisionNext ==
    DeliveryType /\ DecisionInv /\ [Next]_vars /\ [HoldsCleared]_vars => DecisionInv'
<1> SUFFICES ASSUME DeliveryType, DecisionInv, [Next]_vars, [HoldsCleared]_vars, NEW m \in Msgs PROVE MsgInv(m)'
  BY Zenon DEF DecisionInv
<1>0. MsgInv(m)
  BY Zenon DEF DecisionInv
<1>1. CASE UNCHANGED vars
  <2>1. UNCHANGED <<pending, replies, receipt, stored, hold, hand, admitted, shown>>
    BY <1>1, Zenon DEF vars, sender, recipient
  <2>2. At(m)' = At(m) /\ \A k : Sent(m, k)' => Sent(m, k)
    BY <2>1 DEF At, Sent
  <2> QED BY <1>0, <2>1, <2>2, MsgQuiet
<1>2. ASSUME NEW n \in Msgs, FlushSends(n) \/ FlushFails(n) \/ BackoffElapses(n)
      PROVE  MsgInv(m)'
  <2>1. UNCHANGED <<replies, receipt, stored, hold, hand, admitted, shown>>
        /\ pending'[m].state = pending[m].state
    BY <1>2, FlushKeeps, Zenon
  <2>2. At(m)' = At(m) /\ \A k : Sent(m, k)' => Sent(m, k)
    BY <2>1 DEF At, Sent
  <2> QED BY <1>0, <2>1, <2>2, MsgQuiet
<1>3. CASE HandleDeliveryConfirmation
  <2>1. UNCHANGED <<receipt, stored, hold, hand, admitted, shown>>
    BY <1>3, SenderDoes, Zenon
  <2>2. At(m)' = At(m) /\ \A k : Sent(m, k)' => Sent(m, k)
    BY <1>3, <2>1, SentTail DEF At, HandleDeliveryConfirmation, DeliveryType
  <2>3. pending'[m].state = "acked" => pending[m].state = "acked" \/ Sent(m, "ack")
    BY <1>3, ConfirmDoes
  <2> QED BY <1>0, <2>1, <2>2, <2>3, MsgQuiet
<1>4. CASE Recv
  <2>1. UNCHANGED <<pending, replies, receipt, stored, hold, admitted, shown>> /\ hand = Idle
        /\ hand' = [Idle EXCEPT !.pc = "gate", !.m = Head(frames)]
    BY <1>4, Zenon DEF Recv
  <2>2. {At(m), At(m)'} \subseteq {"idle", "gate"} /\ \A k : Sent(m, k)' => Sent(m, k)
    BY <2>1 DEF At, Idle, Sent
  <2> QED BY <1>0, <2>1, <2>2, MsgQuiet
<1>5. CASE Turn
  <2>1. CASE HoldsCleared
    BY <1>0, <1>5, <2>1, TurnMsg, Zenon
  <2> QED BY <1>1, <2>1
<1>6. ASSUME NEW n \in Msgs, CleanupMessage(n)
      PROVE  MsgInv(m)'
  <2>1. UNCHANGED <<pending, replies, receipt, hold, hand, admitted, shown>> /\ stored' \subseteq stored
    BY <1>6 DEF CleanupMessage, sender
  <2>2. At(m)' = At(m) /\ \A k : Sent(m, k)' => Sent(m, k)
    BY <2>1 DEF At, Sent
  <2> QED BY <1>0, <2>1, <2>2, MsgQuiet
<1>7. ASSUME NEW n \in Msgs, HoldAges(n)
      PROVE  MsgInv(m)'
  <2>1. UNCHANGED <<pending, replies, receipt, stored, hand, admitted, shown>> /\ hand = Idle
    BY <1>7, Zenon DEF HoldAges, sender
  <2>2. (hold'[m] = "none" <=> hold[m] = "none")
    BY <1>7, SMTT(60) DEF HoldAges, DeliveryType
  <2>3. At(m) = "idle" /\ At(m)' = "idle" /\ \A k : Sent(m, k)' => Sent(m, k)
    BY <2>1, SMTT(60) DEF At, Idle, Sent
  <2>4. AttemptInv(m)' /\ RowInv(m)'
    BY <1>0, <2>1, <2>2, <2>3 DEF MsgInv, AttemptInv, RowInv, Visible
  <2>5. AnswerInv(m)'
    <3>1. (Visible(m) => Visible(m)') /\ (Refused(m) => Refused(m)')
      BY <2>1, <2>2, <2>3 DEF Visible, Refused
    <3> QED BY <1>0, <2>1, <2>3, <3>1 DEF MsgInv, AnswerInv
  <2> QED BY <2>4, <2>5, Zenon DEF MsgInv
<1>8. CASE SweepHolds
  <2>1. UNCHANGED <<pending, replies, hand, admitted, shown>> /\ Withdraw({n \in Msgs : hold[n] = "aged"})
    BY <1>8, Zenon DEF SweepHolds, sender
  <2>2. At(m)' = At(m) /\ \A k : Sent(m, k)' => Sent(m, k)
    BY <2>1 DEF At, Sent
  <2> QED BY <1>0, <2>1, <2>2, WithdrawMsg
<1>9. CASE Crash
  <2>1. UNCHANGED <<pending, admitted, shown>> /\ hand' = Idle /\ replies' = <<>>
    BY <1>9, Zenon DEF Crash
  <2>2. At(m)' = "idle" /\ \A k : Sent(m, k)' => Sent(m, k)
    BY <2>1, SentNothing DEF At, Idle
  <2>3. CASE HoldsCleared
    <3>1. Withdraw({n \in Msgs : hold[n] # "none"})
      BY <1>9, <2>3 DEF Crash, HoldsCleared, Fault, DeliveryType
    <3> QED BY <1>0, <2>1, <2>2, <3>1, WithdrawMsg
  <2> QED BY <1>1, <2>3
<1>10. CASE Disconnect
  <2>1. UNCHANGED <<pending, receipt, stored, hold, hand, admitted, shown>> /\ replies' = <<>>
    BY <1>10, Zenon DEF Disconnect, recipient
  <2>2. At(m)' = At(m) /\ \A k : Sent(m, k)' => Sent(m, k)
    BY <2>1, SentNothing DEF At
  <2> QED BY <1>0, <2>1, <2>2, MsgQuiet
<1> QED BY <1>1, <1>2, <1>3, <1>4, <1>5, <1>6, <1>7, <1>8, <1>9, <1>10, Zenon DEF Next

\* The invariant of the decisions, for as long as the handlers take back their holds.
THEOREM DecisionsAreKept == Spec /\ [][HoldsCleared]_vars => [](DeliveryType /\ DecisionInv)
<1>1. Init => DeliveryType /\ DecisionInv
  BY TypeInit, DecisionInit, Zenon
<1>2. (DeliveryType /\ DecisionInv) /\ [Next]_vars /\ [HoldsCleared]_vars => (DeliveryType /\ DecisionInv)'
  BY TypeNext, DecisionNext, Zenon
<1> QED BY <1>1, <1>2, PTL DEF Spec

\* decrypt_and_process, call_admission_release, AlreadyAccepted: what is acknowledged
\* or shown was admitted, is not held and was not withdrawn, over any number of
\* resends, crashes and single failed writes.
THEOREM AcksAreKept == Spec /\ [][HoldsCleared]_vars => []AckedMeansKept
<1>1. DeliveryType /\ DecisionInv => AckedMeansKept
  <2> SUFFICES ASSUME DecisionInv, NEW m \in Msgs,
                      pending[m].state = "acked" \/ shown[m] > 0 \/ Sent(m, "ack")
               PROVE  Outcome(m) = "kept" /\ m \in admitted
    BY Zenon DEF AckedMeansKept, Sent
  <2>1. Visible(m) /\ m \in admitted
    BY DEF DecisionInv, MsgInv, AnswerInv, RowInv
  <2> QED BY <2>1 DEF Visible, Outcome
<1> QED BY <1>1, DecisionsAreKept, PTL

-----------------------------------------------------------------------------
(* The path of a message implements Delivery *)

\* What the recipient decided, by what it shows.
LEMMA OutcomeIs ==
    ASSUME NEW m
    PROVE  /\ Outcome(m) \in {"open", "kept", "refused"}
           /\ Outcome(m) = "kept" <=> Visible(m)
           /\ Outcome(m) = "refused" <=> Refused(m)
<1>1. At(m) \in {"decrypt", "admit"} <=> hand.m = m /\ hand.pc \in {"decrypt", "admit"}
  BY DEF At
<1> QED BY <1>1 DEF Outcome, Visible, Refused

\* The same after a step.
LEMMA OutcomeNextIs ==
    ASSUME NEW m
    PROVE  /\ Outcome(m)' \in {"open", "kept", "refused"}
           /\ Outcome(m)' = "kept" <=> Visible(m)'
           /\ Outcome(m)' = "refused" <=> Refused(m)'
<1>1. At(m)' \in {"decrypt", "admit"} <=> hand'.m = m /\ hand'.pc \in {"decrypt", "admit"}
  BY DEF At
<1> QED BY <1>1 DEF Outcome, Visible, Refused

\* What a turn of the loop finds decided stays as it is.
LEMMA TurnStays ==
    ASSUME DeliveryType, Turn, HoldsCleared, NEW m \in Msgs, m = hand.m, MsgInv(m)
    PROVE  (Visible(m) => Visible(m)') /\ (Refused(m) => Refused(m)')
<1>0. At(m) = hand.pc /\ hand \in Hands /\ hold \in [Msgs -> HoldStates] /\ receipt \in [Msgs -> Receipts]
  BY DEF At, DeliveryType
<1>1. /\ Visible(m) => hand.pc \notin {"hold", "accept", "decrypt", "admit"}
      /\ Refused(m) => hand.pc \notin {"decrypt", "admit", "reply"}
  BY <1>0 DEF MsgInv, AttemptInv, Visible, Refused
<1>2. At(m)' = "idle" \/ At(m)' = hand'.pc
  BY <1>0, TurnHand DEF At, Idle
<1>3. CASE GateDuplicate
  <2>1. receipt'[m] = "accepted" /\ hold' = hold /\ hold[m] = "none" /\ receipt[m] # "withdrawn"
    BY <1>0, <1>3 DEF GateDuplicate, IsPaidEnvelopeAccepted, m0
  <2> QED BY <2>1 DEF Visible, Refused
<1>4. CASE GateRejects \/ GatePasses \/ HoldFails
  <2>1. receipt' = receipt /\ hold' = hold
    BY <1>4, Zenon DEF GateRejects, GatePasses, HoldFails
  <2>2. hand'.pc \notin {"decrypt", "admit"}
    BY <1>0, <1>4 DEF GateRejects, GatePasses, HoldFails, Reply, Goto, Idle, Hands
  <2>3. At(m)' \notin {"decrypt", "admit"}
    BY <1>2, <2>2
  <2> QED BY <2>1, <2>3 DEF Visible, Refused
<1>5. CASE HoldIncoming
  <2>1. receipt' = receipt /\ (hold[m] # "none" => hold' = hold) /\ hand'.pc = "accept" /\ hand.pc = "hold"
    BY <1>0, <1>5 DEF HoldIncoming, Hands, m0
  <2>2. At(m)' \notin {"decrypt", "admit"}
    BY <1>2, <2>1
  <2> QED BY <1>1, <2>1, <2>2 DEF Refused
<1>6. CASE Accept
  <2>1. receipt[m] \in {"none", "legacy"}
    BY <1>6 DEF Accept, m0
  <2> QED BY <2>1 DEF Visible, Refused
<1>7. CASE AlreadyAccepted \/ Withdrawn \/ AcceptFails
  <2>1. hand.pc = "accept" /\ hand' = Idle
    BY <1>7 DEF AlreadyAccepted, Withdrawn, AcceptFails, Reply
  <2>2. At(m)' = "idle"
    BY <2>1, SMTT(60) DEF At, Idle
  <2>3. receipt[m] = "withdrawn" => receipt'[m] = "withdrawn"
    BY <1>7 DEF AlreadyAccepted, Withdrawn, AcceptFails, m0
  <2>4. receipt[m] = "accepted" => receipt'[m] = "accepted" /\ hold' = hold
    <3>1. receipt[m] = "accepted" => ~hand.placed
      BY <1>0, <2>1 DEF MsgInv, AttemptInv
    <3> QED BY <1>0, <1>7, <3>1 DEF AlreadyAccepted, Withdrawn, AcceptFails, HoldsCleared, ReleaseOwn, m0
  <2> QED BY <1>1, <2>1, <2>2, <2>3, <2>4 DEF Refused
<1>8. CASE Decrypted \/ Refuse \/ Release \/ ReleaseFails
  BY <1>1, <1>8 DEF Decrypted, Refuse, Release, ReleaseFails
<1>9. CASE Show
  <2>1. hand.pc = "reply" /\ receipt' = receipt /\ hold' = hold
    BY <1>9 DEF Show
  <2> QED BY <1>1, <2>1 DEF Visible
<1> QED BY <1>3, <1>4, <1>5, <1>6, <1>7, <1>8, <1>9, Zenon DEF Turn

\* Steps that decide nothing about m.
LEMMA OutcomeQuiet ==
    ASSUME NEW m, receipt'[m] = receipt[m], hold'[m] = "none" <=> hold[m] = "none",
           At(m)' \in {"decrypt", "admit"} <=> At(m) \in {"decrypt", "admit"}
    PROVE  Outcome(m)' = Outcome(m)
<1>1. (Visible(m)' <=> Visible(m)) /\ (Refused(m)' <=> Refused(m))
  BY DEF Visible, Refused
<1> QED BY <1>1, OutcomeIs, OutcomeNextIs

\* A restart, and the sweep of abandoned holds: a hold hides what is refused, or the
\* envelope in hand.
LEMMA OutcomeWithdraw ==
    ASSUME DeliveryType, NEW m \in Msgs, MsgInv(m), NEW held, Withdraw(held),
           m \in held => hold[m] # "none" /\ (At(m)' = "idle" \/ hold[m] # "fresh"),
           (At(m)' = At(m) /\ hand' = hand) \/ (At(m)' = "idle" /\ (hold[m] # "none" => m \in held))
    PROVE  /\ Outcome(m) # "open" => Outcome(m)' = Outcome(m)
           /\ hand' = hand \/ At(m) = "idle" => Outcome(m)' = Outcome(m)
<1>1. /\ receipt'[m] = IF m \in held /\ receipt[m] # "none" THEN "withdrawn" ELSE receipt[m]
      /\ hold'[m] = IF m \in held THEN "none" ELSE hold[m]
  BY WithdrawDoes, Zenon
<1>2. (Visible(m) => Visible(m)') /\ (Refused(m) => Refused(m)')
  BY <1>1 DEF Visible, Refused
<1>3. hold[m] \in HoldStates /\ receipt[m] \in Receipts
  BY DEF DeliveryType
<1>4. ASSUME hand' = hand \/ At(m) = "idle"
      PROVE  (Visible(m)' => Visible(m)) /\ (Refused(m)' => Refused(m))
  <2>1. m \in held => receipt[m] \in Burned /\ At(m) \notin {"decrypt", "admit"}
    BY <1>1, <1>3, <1>4 DEF MsgInv, RowInv, AttemptInv, HoldStates, At
  <2>2. At(m) \in {"decrypt", "admit"} => At(m)' = At(m)
    BY <1>4 DEF At
  <2> QED BY <1>1, <2>1, <2>2 DEF Visible, Refused, Burned
<1> QED BY <1>2, <1>4, OutcomeIs, OutcomeNextIs

\* What a step of the promise looks like from the path of a message.
LEMMA DecideStep ==
    ASSUME NEW h \in Msgs, \A m \in Msgs \ {h} : Outcome(m)' = Outcome(m),
           Outcome(h) # "open" => Outcome(h)' = Outcome(h), \A m \in Msgs : Verdict(m)' = Verdict(m)
    PROVE  [Promise!Next]_<<[m \in Msgs |-> Outcome(m)], [m \in Msgs |-> Verdict(m)]>>
<1>1. [m \in Msgs |-> Verdict(m)]' = [m \in Msgs |-> Verdict(m)]
  OBVIOUS
<1>2. CASE Outcome(h)' = Outcome(h)
  <2>1. [m \in Msgs |-> Outcome(m)]' = [m \in Msgs |-> Outcome(m)]
    BY <1>2
  <2> QED BY <1>1, <2>1
<1>3. CASE Outcome(h)' # Outcome(h)
  <2>1. Outcome(h) = "open" /\ Outcome(h)' \in {"kept", "refused"}
    BY <1>3, OutcomeNextIs
  <2>2. [m \in Msgs |-> Outcome(m)]' = [[m \in Msgs |-> Outcome(m)] EXCEPT ![h] = Outcome(h)']
    BY Zenon
  <2>3. Promise!Decide(h)
    BY <1>1, <2>1, <2>2, Zenon DEF Promise!Decide
  <2> QED BY <2>3 DEF Promise!Next
<1> QED BY <1>2, <1>3

\* A verdict that follows the outcome is a step of the promise.
LEMMA LearnStep ==
    ASSUME NEW h \in Msgs, \A m \in Msgs : Outcome(m)' = Outcome(m),
           \A m \in Msgs \ {h} : Verdict(m)' = Verdict(m),
           \/ Verdict(h)' = Verdict(h)
           \/ Verdict(h) = "waiting" /\ Outcome(h) = "kept" /\ Verdict(h)' = "acked"
           \/ Verdict(h) = "waiting" /\ Outcome(h) = "refused" /\ Verdict(h)' = "failed"
    PROVE  [Promise!Next]_<<[m \in Msgs |-> Outcome(m)], [m \in Msgs |-> Verdict(m)]>>
<1>1. [m \in Msgs |-> Outcome(m)]' = [m \in Msgs |-> Outcome(m)]
  OBVIOUS
<1>2. CASE Verdict(h)' = Verdict(h)
  <2>1. [m \in Msgs |-> Verdict(m)]' = [m \in Msgs |-> Verdict(m)]
    BY <1>2
  <2> QED BY <1>1, <2>1
<1>3. CASE Verdict(h)' # Verdict(h)
  <2>1. [m \in Msgs |-> Verdict(m)]' = [[m \in Msgs |-> Verdict(m)] EXCEPT ![h] = Verdict(h)']
    BY Zenon
  <2>2. Promise!Learn(h)
    BY <1>1, <1>3, <2>1, Zenon DEF Promise!Learn
  <2> QED BY <2>2 DEF Promise!Next
<1> QED BY <1>2, <1>3

\* The verdict follows the state of the row.
LEMMA VerdictIs ==
    ASSUME DeliveryType, DeliveryType', NEW m \in Msgs
    PROVE  /\ pending'[m].state = pending[m].state => Verdict(m)' = Verdict(m)
           /\ pending[m].state = "pending" => Verdict(m) = "waiting"
           /\ pending'[m].state = "acked" => Verdict(m)' = "acked"
           /\ pending'[m].state = "failed_paid" => Verdict(m)' = "failed"
<1>1. pending[m].state \in States /\ pending'[m].state \in States
  BY DEF DeliveryType, Entries
<1>2. pending[m].state = "pending" => Verdict(m) = "waiting"
  BY DEF Verdict
<1>3. pending'[m].state = "acked" => Verdict(m)' = "acked"
  BY DEF Verdict
<1>4. pending'[m].state = "failed_paid" => Verdict(m)' = "failed"
  BY DEF Verdict
<1>5. pending'[m].state = pending[m].state => Verdict(m)' = Verdict(m)
  BY <1>1 DEF Verdict, States
<1> QED BY <1>2, <1>3, <1>4, <1>5

\* Every step of the queue, the link, the loop and the tasks beside it is a decision,
\* a lesson or neither.
LEMMA PromiseStep ==
    ASSUME DeliveryType, DeliveryType', DecisionInv, [Next]_vars, [HoldsCleared]_vars, ~PriceMoves
    PROVE  [Promise!Next]_<<[m \in Msgs |-> Outcome(m)], [m \in Msgs |-> Verdict(m)]>>
<1> DEFINE Step == [Promise!Next]_<<[m \in Msgs |-> Outcome(m)], [m \in Msgs |-> Verdict(m)]>>
           Quiet == (\A m \in Msgs : Outcome(m)' = Outcome(m)) /\ (\A m \in Msgs : Verdict(m)' = Verdict(m))
<1>0. \A m \in Msgs : MsgInv(m)
  BY Zenon DEF DecisionInv
<1>q. Quiet => Step
  <2> SUFFICES ASSUME Quiet PROVE Step
    OBVIOUS
  <2>1. [m \in Msgs |-> Outcome(m)]' = [m \in Msgs |-> Outcome(m)]
    OBVIOUS
  <2>2. [m \in Msgs |-> Verdict(m)]' = [m \in Msgs |-> Verdict(m)]
    OBVIOUS
  <2> QED BY <2>1, <2>2
<1>v. pending' = pending => \A m \in Msgs : Verdict(m)' = Verdict(m)
  BY VerdictIs
<1>s. receipt' = receipt /\ hold' = hold /\ hand' = hand => \A m \in Msgs : Outcome(m)' = Outcome(m)
  <2> SUFFICES ASSUME receipt' = receipt, hold' = hold, hand' = hand, NEW m \in Msgs
               PROVE  Outcome(m)' = Outcome(m)
    OBVIOUS
  <2>1. At(m)' = At(m)
    BY DEF At
  <2> QED BY <2>1, OutcomeQuiet
<1> SUFFICES Step
  OBVIOUS
<1> HIDE DEF Step
<1>1. CASE UNCHANGED vars
  <2>1. UNCHANGED <<pending, receipt, hold, hand>>
    BY <1>1, Zenon DEF vars, sender, recipient
  <2> QED BY <1>q, <1>v, <1>s, <2>1
<1>2. ASSUME NEW n \in Msgs, FlushSends(n) \/ FlushFails(n) \/ BackoffElapses(n)
      PROVE  Step
  <2>1. UNCHANGED <<receipt, hold, hand>> /\ \A m \in Msgs : pending'[m].state = pending[m].state
    BY <1>2, FlushKeeps, Zenon
  <2>2. \A m \in Msgs : Verdict(m)' = Verdict(m)
    BY <2>1, VerdictIs
  <2> QED BY <1>q, <1>s, <2>1, <2>2
<1>3. CASE HandleDeliveryConfirmation
  <2>1. UNCHANGED <<receipt, hold, hand>>
    BY <1>3, SenderDoes, Zenon
  <2>2. PICK h \in Msgs, k \in Kinds :
              /\ Sent(h, k) /\ \A n \in Msgs \ {h} : pending'[n] = pending[n]
              /\ \/ pending'[h].state = pending[h].state
                 \/ pending[h].state = "pending" /\ k = "ack" /\ pending'[h].state = "acked"
                 \/ pending[h].state = "pending" /\ k = "terminal" /\ pending'[h].state = "failed_paid"
    BY <1>3, ConfirmDoes, Zenon
  <2>3. (k = "ack" => Outcome(h) = "kept") /\ (k = "terminal" => Outcome(h) = "refused")
    BY <1>0, <2>2, OutcomeIs DEF MsgInv, AnswerInv
  <2>4. \A n \in Msgs \ {h} : Verdict(n)' = Verdict(n)
    BY <2>2, VerdictIs
  <2>5. \/ Verdict(h)' = Verdict(h)
        \/ Verdict(h) = "waiting" /\ Outcome(h) = "kept" /\ Verdict(h)' = "acked"
        \/ Verdict(h) = "waiting" /\ Outcome(h) = "refused" /\ Verdict(h)' = "failed"
    BY <2>2, <2>3, VerdictIs, Zenon
  <2> QED BY <1>s, <2>1, <2>4, <2>5, LearnStep, Zenon DEF Step
<1>4. CASE Recv
  <2>1. UNCHANGED <<pending, receipt, hold>> /\ hand = Idle
        /\ hand' = [Idle EXCEPT !.pc = "gate", !.m = Head(frames)]
    BY <1>4, Zenon DEF Recv
  <2>2. \A m \in Msgs : At(m) \notin {"decrypt", "admit"} /\ At(m)' \notin {"decrypt", "admit"}
    BY <2>1 DEF At, Idle
  <2>3. \A m \in Msgs : Outcome(m)' = Outcome(m)
    BY <2>1, <2>2, OutcomeQuiet
  <2> QED BY <1>q, <1>v, <2>1, <2>3
<1>5. CASE Turn /\ HoldsCleared
  <2>1. pending' = pending
    BY <1>5, TurnHand, Zenon
  <2>2. PICK h \in Msgs : h = hand.m
    BY <1>5, TurnHand, Zenon
  <2>3. ASSUME NEW m \in Msgs \ {h} PROVE Outcome(m)' = Outcome(m)
    <3>1. receipt'[m] = receipt[m] /\ hold'[m] = hold[m] /\ (hand'.pc = "idle" \/ hand'.m # m)
      BY <1>5, <2>2, <2>3, TurnOthers, Zenon
    <3>2. At(m) = "idle" /\ At(m)' = "idle"
      BY <2>2, <2>3, <3>1 DEF At
    <3> QED BY <3>1, <3>2, OutcomeQuiet
  <2>4. (Visible(h) => Visible(h)') /\ (Refused(h) => Refused(h)')
    BY <1>0, <1>5, <2>2, TurnStays, Zenon
  <2>5. Outcome(h) # "open" => Outcome(h)' = Outcome(h)
    BY <2>4, OutcomeIs, OutcomeNextIs
  <2> QED BY <1>v, <2>1, <2>3, <2>5, DecideStep, Zenon DEF Step
<1>6. ASSUME NEW n \in Msgs, CleanupMessage(n)
      PROVE  Step
  <2>1. UNCHANGED <<pending, receipt, hold, hand>>
    BY <1>6, Zenon DEF CleanupMessage, sender
  <2> QED BY <1>q, <1>v, <1>s, <2>1
<1>7. ASSUME NEW n \in Msgs, HoldAges(n)
      PROVE  Step
  <2>1. UNCHANGED <<pending, receipt, hand>>
    BY <1>7, Zenon DEF HoldAges, sender
  <2>2. ASSUME NEW m \in Msgs PROVE Outcome(m)' = Outcome(m)
    <3>1. hold'[m] = "none" <=> hold[m] = "none"
      BY <1>7 DEF HoldAges, DeliveryType
    <3>2. At(m)' = At(m)
      BY <2>1 DEF At
    <3> QED BY <2>1, <3>1, <3>2, OutcomeQuiet
  <2> QED BY <1>q, <1>v, <2>1, <2>2
<1>8. CASE SweepHolds
  <2>1. UNCHANGED <<pending, hand>> /\ Withdraw({n \in Msgs : hold[n] = "aged"})
    BY <1>8, Zenon DEF SweepHolds, sender
  <2>2. ASSUME NEW m \in Msgs PROVE Outcome(m)' = Outcome(m)
    <3>1. At(m)' = At(m) /\ MsgInv(m)
      BY <1>0, <2>1 DEF At
    <3> QED BY <2>1, <3>1, OutcomeWithdraw
  <2> QED BY <1>q, <1>v, <2>1, <2>2
<1>9. CASE Crash /\ HoldsCleared
  <2>1. pending' = pending /\ hand' = Idle /\ Withdraw({n \in Msgs : hold[n] # "none"})
    BY <1>9 DEF Crash, HoldsCleared, Fault, DeliveryType
  <2>2. ASSUME NEW m \in Msgs
        PROVE  (Outcome(m) # "open" \/ At(m) = "idle") => Outcome(m)' = Outcome(m)
    <3>1. At(m)' = "idle" /\ MsgInv(m)
      BY <1>0, <2>1 DEF At, Idle
    <3> QED BY <2>1, <3>1, OutcomeWithdraw
  <2>3. CASE \E h \in Msgs : h = hand.m
    <3>1. PICK h \in Msgs : h = hand.m
      BY <2>3
    <3>2. \A m \in Msgs \ {h} : Outcome(m)' = Outcome(m)
      BY <2>2, <3>1 DEF At
    <3> QED BY <1>v, <2>1, <2>2, <3>2, DecideStep, Zenon DEF Step
  <2>4. CASE hand.m \notin Msgs
    <3>1. \A m \in Msgs : Outcome(m)' = Outcome(m)
      BY <2>2, <2>4 DEF At
    <3> QED BY <1>q, <1>v, <2>1, <3>1
  <2> QED BY <2>3, <2>4, SMTT(60)
<1>10. CASE Disconnect
  <2>1. UNCHANGED <<pending, receipt, hold, hand>>
    BY <1>10, Zenon DEF Disconnect, recipient
  <2> QED BY <1>q, <1>v, <1>s, <2>1
<1>11. (Next /\ HoldsCleared) \/ UNCHANGED vars
  OBVIOUS
<1>12. CASE Next /\ HoldsCleared
  BY <1>2, <1>3, <1>4, <1>5, <1>6, <1>7, <1>8, <1>9, <1>10, <1>12, Zenon DEF Next
<1> QED BY <1>1, <1>11, <1>12

\* The promise starts with everything open.
LEMMA PromiseInit == Init => Promise!Init
<1> SUFFICES ASSUME Init PROVE Promise!Init
  OBVIOUS
<1>1. \A m \in Msgs : receipt[m] \in {"none", "legacy"} /\ pending[m].state = "pending"
  BY Zenon DEF Init
<1>2. \A m \in Msgs : Outcome(m) = "open" /\ Verdict(m) = "waiting"
  BY <1>1, Zenon DEF Outcome, Verdict
<1> QED BY <1>2 DEF Promise!Init

\* The queue of pending_handler.rs, the receive loop of msg_handler.rs and the tables
\* behind both implement Delivery: while the gate's price stands and the handlers take
\* back their holds, the recipient decides once about every message and the sender's
\* verdict is that decision, for any number of messages, resends, crashes and faults.
THEOREM DeliveryIsImplemented ==
    ASSUME ~PriceMoves
    PROVE  Spec /\ [][HoldsCleared]_vars => Delivers
<1>1. DeliveryType /\ DeliveryType' /\ DecisionInv /\ [Next]_vars /\ [HoldsCleared]_vars
      => [Promise!Next]_<<[m \in Msgs |-> Outcome(m)], [m \in Msgs |-> Verdict(m)]>>
  BY PromiseStep, Zenon
<1> QED BY <1>1, PromiseInit, DecisionsAreKept, PTL DEF Spec, Delivers, Promise!Spec

===============================================================================

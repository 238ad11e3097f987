------------------------------- MODULE Sessions -------------------------------
(***************************************************************************)
(* Negotiation of the E2EE session between two nodes: SessionManager of    *)
(* crates/konsensus-crypto/src/session.rs and the session events of        *)
(* crates/konsensus-node/src/session_handler.rs and msg_handler.rs.        *)
(*                                                                         *)
(* "lo" has the lower NodeId and alone runs X3DH, with "hi"'s bundle.  A   *)
(* session is a number; numbers no longer held by anyone are used again.   *)
(* Of its double ratchet only `ready` is kept: can it send.  A bundle or   *)
(* an init is `good` while hi still holds the one-time pre-key it names.   *)
(* Timers are flags that run out; envelopes of the message loop travel     *)
(* beside the control frames and outlive a connection, as the pending      *)
(* queue resends them.                                                     *)
(***************************************************************************)
EXTENDS Naturals, Sequences, FiniteSets

CONSTANTS
    Ids,        \* session numbers, enough for all that are held at once
    Quick,      \* frames are handled, and ticks come, before the timers run out
    Senders,    \* nodes that send envelopes
    Window,     \* bound on frames under way for a tick or the limiter to let one more go
    MaxFaults   \* bound on drops, restarts, failed saves and expiries in all

VARIABLES
    sess,       \* SessionManager.sessions: per node its entry for the other
    disk,       \* SessionStore: per node the saved ratchet
    to,         \* control frames under way to each node, in order
    mail,       \* per node, the session an envelope to it is encrypted under
    up,         \* the connection
    young,      \* it is younger than SESSION_NEGOTIATION_COOLDOWN
    cool,       \* last_negotiation of each node is within the cooldown
    checked,    \* connections_checked of each node has this connection
    eager,      \* hi's EagerOfferLimiter is cooling down
    witness,    \* lo's OfferWitness for hi on this connection
    lost,       \* a restart or an expiry took a session since the two last agreed
    faults      \* connections dropped, restarts, failed saves and expiries so far

timers == <<young, cool, checked, eager, witness>>
nodes  == <<sess, disk, to, mail, up, timers, faults>>
vars   == <<nodes, lost>>

Pair == {"lo", "hi"}
Peer(n) == IF n = "lo" THEN "hi" ELSE "lo"
NoId == 0

\* PeerSession::new; cur = NoId when there is no entry.
Entry(s, ready, await) ==
    [cur |-> s, ready |-> ready, unc |-> NoId, mine |-> FALSE, aged |-> FALSE,
     await |-> await, marked |-> FALSE, ret |-> NoId, owed |-> FALSE]
NoEntry == Entry(NoId, FALSE, FALSE)

Frames == [kind : {"offer", "init"}, s : Ids \cup {NoId}, good : BOOLEAN]
            \cup [kind : {"ack", "ratchet"}, s : Ids \cup {NoId}]

\* Every variable has its type: the sessions held, saved and under way are ones
\* X3DH derived.
TypeOK ==
    /\ sess \in [Pair -> [cur : Ids \cup {NoId}, ready : BOOLEAN, unc : Ids \cup {NoId},
                           mine : BOOLEAN, aged : BOOLEAN, await : BOOLEAN,
                           marked : BOOLEAN, ret : Ids \cup {NoId}, owed : BOOLEAN]]
    /\ disk \in [Pair -> [cur : Ids \cup {NoId}, ready : BOOLEAN]]
    /\ to \in [Pair -> Seq(Frames)]
    /\ mail \in [Pair -> Ids \cup {NoId}]
    /\ up \in BOOLEAN /\ young \in BOOLEAN /\ eager \in BOOLEAN
    /\ cool \in [Pair -> BOOLEAN] /\ checked \in [Pair -> BOOLEAN]
    /\ witness \in {"none", "first", "ripe"}
    /\ lost \in BOOLEAN
    /\ faults \in 0 .. MaxFaults

Init ==
    /\ sess = [n \in Pair |-> NoEntry]
    /\ disk = [n \in Pair |-> [cur |-> NoId, ready |-> FALSE]]
    /\ to = [n \in Pair |-> <<>>]
    /\ mail = [n \in Pair |-> NoId]
    /\ up = FALSE /\ young = FALSE /\ eager = FALSE
    /\ cool = [n \in Pair |-> FALSE] /\ checked = [n \in Pair |-> FALSE]
    /\ witness = "none"
    /\ lost = FALSE
    /\ faults = 0

-----------------------------------------------------------------------------
(* SessionManager *)

Fail == faults < MaxFaults /\ faults' = faults + 1

\* persist_session: the ratchet in use, best effort.
Persist(n) ==
    \/ /\ disk' = [disk EXCEPT ![n] = [cur |-> sess'[n].cur, ready |-> sess'[n].ready]]
       /\ UNCHANGED faults
    \/ Fail /\ UNCHANGED disk

\* Mutant: the session that was in use is dropped.
SwitchTo_NoRetired(e) == Entry(e.unc, TRUE, FALSE)

\* PeerSession::switch_to the session held aside.
SwitchTo(e) == [Entry(e.unc, TRUE, FALSE) EXCEPT !.ret = e.cur]

\* install_session with AfterConfirmation.
InstallSession(e, s, initiator) ==
    IF e.cur = NoId THEN Entry(s, initiator, initiator)
    ELSE [e EXCEPT !.unc = s, !.mine = initiator, !.aged = FALSE]

\* decrypt: the session in use, then the one held aside, then the retired one.
Reads(e, s) == s # NoId /\ s \in {e.cur, e.unc, e.ret}
Decrypt(e, s) ==
    IF s = e.cur THEN [e EXCEPT !.marked = FALSE, !.ready = TRUE]
    ELSE IF s = e.unc THEN SwitchTo(e)
    ELSE [e EXCEPT !.owed = TRUE]

\* confirm_session: the acknowledgement names no session.
Awaited(e) == (e.unc # NoId /\ e.mine) \/ (e.cur # NoId /\ e.await)
ConfirmSession(e) == IF e.unc # NoId /\ e.mine THEN SwitchTo(e) ELSE [e EXCEPT !.await = FALSE]

\* e2ee_needs_self_heal
NeedsSelfHeal(n) ==
    LET e == sess[n] IN
    ~e.ready \/ e.marked \/ e.await \/ (e.unc # NoId /\ ~e.mine /\ e.aged)

\* X3DH derives a session nobody else holds.
Held == UNION {{sess[n].cur, sess[n].unc, sess[n].ret, disk[n].cur, mail[n]} : n \in Pair}
        \cup UNION {{to[n][i].s : i \in 1 .. Len(to[n])} : n \in Pair}
Fresh == CHOOSE s \in Ids \ Held : \A t \in Ids \ Held : s <= t

-----------------------------------------------------------------------------
(* Frames and events *)

Offer(n) == [kind |-> "offer", s |-> NoId, good |-> n = "hi"]
Ack(s) == [kind |-> "ack", s |-> s]     \* s is history: the frame names no session
Ratchet(s) == [kind |-> "ratchet", s |-> s]

\* The head of n's queue is handled and the answers are sent.
Answer(n, frames) ==
    to' = [to EXCEPT ![n] = Tail(@), ![Peer(n)] = @ \o frames]
Handles(n, kind) == to[n] # <<>> /\ Head(to[n]).kind = kind

\* encrypt saves the send chain before the ciphertext leaves.
Encrypts(n) == disk' = [disk EXCEPT ![n] = [cur |-> sess'[n].cur, ready |-> TRUE]]

\* Only what changed memory of its own accord.
Still == UNCHANGED <<mail, up>>

\* handle_peer_connected on both sides: the offers, and lo's check_session_on_connect,
\* which may fail to save or to send and is then owed.
Connect ==
    /\ ~up /\ up' = TRUE /\ young' = TRUE
    /\ checked' = [n \in Pair |-> FALSE]
    /\ witness' = "none"
    /\ LET check == sess["lo"].ready /\ sess["lo"].unc = NoId
           send(extra) == to' = [lo |-> <<Offer("hi")>>, hi |-> <<Offer("lo")>> \o extra]
       IN  \/ ~check /\ send(<<>>) /\ UNCHANGED <<sess, disk, faults>>
           \/ check /\ send(<<Ratchet(sess["lo"].cur)>>) /\ UNCHANGED <<sess, faults>> /\ Encrypts("lo")
           \/ /\ check /\ send(<<>>) /\ Fail
              /\ sess' = [sess EXCEPT !["lo"].owed = TRUE] /\ UNCHANGED disk
    /\ UNCHANGED <<mail, cool, eager>>

\* A PrekeyOffer of lo: answer_prekey_offer_for_recovery.
OfferAtHi ==
    /\ Handles("hi", "offer")
    /\ LET answers == ~young /\ ~cool["hi"] /\ ~eager IN
       /\ Answer("hi", IF answers THEN <<Offer("hi")>> ELSE <<>>)
       /\ eager' = (eager \/ answers)
    /\ Still /\ UNCHANGED <<sess, disk, young, cool, checked, witness, faults>>

Healthy(e) == e.cur # NoId /\ ~e.marked /\ ~e.await

\* second_spaced_offer did not let the offer through.
OfferCounted ==
    /\ Handles("lo", "offer") /\ ~cool["lo"] /\ Healthy(sess["lo"])
    /\ young \/ witness # "ripe"
    /\ witness' = IF ~young /\ witness = "none" THEN "first" ELSE witness
    /\ Answer("lo", <<>>)
    /\ Still /\ UNCHANGED <<sess, disk, young, cool, checked, eager, faults>>

\* Mutant: a session that looks healthy here is never replaced.
OfferActedOn_HealthyKept ==
    /\ Handles("lo", "offer") /\ ~cool["lo"]
    /\ Healthy(sess["lo"]) => ~young /\ witness = "ripe"
    /\ witness' = "none"
    /\ IF Healthy(sess["lo"])
       THEN Answer("lo", <<>>) /\ UNCHANGED <<sess, disk, cool, faults>>
       ELSE /\ sess' = [sess EXCEPT !["lo"] = InstallSession(@, Fresh, TRUE)]
            /\ Persist("lo")
            /\ cool' = [cool EXCEPT !["lo"] = TRUE]
            /\ Answer("lo", <<[kind |-> "init", s |-> Fresh, good |-> Head(to["lo"]).good]>>)
    /\ Still /\ UNCHANGED <<young, checked, eager>>

\* handle_prekey_offer acts: reinitiate_session.
OfferActedOn ==
    /\ Handles("lo", "offer") /\ ~cool["lo"]
    /\ Healthy(sess["lo"]) => ~young /\ witness = "ripe"
    /\ Ids \ Held # {}
    /\ witness' = "none"
    /\ sess' = [sess EXCEPT !["lo"] = InstallSession(@, Fresh, TRUE)]
    /\ Persist("lo")
    /\ cool' = [cool EXCEPT !["lo"] = TRUE]
    /\ Answer("lo", <<[kind |-> "init", s |-> Fresh, good |-> Head(to["lo"]).good]>>)
    /\ Still /\ UNCHANGED <<young, checked, eager>>

OfferThrottled ==
    /\ Handles("lo", "offer") /\ cool["lo"]
    /\ Answer("lo", <<>>)
    /\ Still /\ UNCHANGED <<sess, disk, timers, faults>>

\* Every frame that names the one-time pre-key is refused from now on.
Consume(frames) ==
    [i \in 1 .. Len(frames) |->
        IF frames[i].kind \in {"offer", "init"} THEN [frames[i] EXCEPT !.good = FALSE] ELSE frames[i]]

\* handle_session_init: reaccept_session and SessionAck.
InitAccepted ==
    /\ Handles("hi", "init") /\ ~cool["hi"] /\ Head(to["hi"]).good
    /\ sess' = [sess EXCEPT !["hi"] = InstallSession(@, Head(to["hi"]).s, FALSE)]
    /\ Persist("hi")
    /\ cool' = [cool EXCEPT !["hi"] = TRUE]
    /\ to' = [to EXCEPT !["hi"] = Consume(Tail(@)), !["lo"] = Append(Consume(@), Ack(Head(to["hi"]).s))]
    /\ Still /\ UNCHANGED <<young, checked, eager, witness>>

\* Mutant: an init that is turned away is acknowledged too.
InitRefused_Acknowledged ==
    /\ Handles("hi", "init") /\ (cool["hi"] \/ ~Head(to["hi"]).good)
    /\ Answer("hi", <<Ack(Head(to["hi"]).s)>>)
    /\ Still /\ UNCHANGED <<sess, disk, timers, faults>>

InitRefused ==
    /\ Handles("hi", "init") /\ (cool["hi"] \/ ~Head(to["hi"]).good)
    /\ Answer("hi", <<>>)
    /\ Still /\ UNCHANGED <<sess, disk, timers, faults>>

\* handle_session_ack: confirm_session, which saves at best, then send_ratchet_init,
\* which may fail to save or to send and is then owed.
AckConfirms ==
    /\ Handles("lo", "ack") /\ Awaited(sess["lo"])
    /\ LET e == ConfirmSession(sess["lo"]) IN
       \/ /\ sess' = [sess EXCEPT !["lo"] = e]
          /\ Encrypts("lo")
          /\ Answer("lo", <<Ratchet(e.cur)>>)
          /\ UNCHANGED faults
       \/ /\ Fail
          /\ sess' = [sess EXCEPT !["lo"] = [e EXCEPT !.owed = TRUE]]
          /\ disk' \in {disk, [disk EXCEPT !["lo"] = [cur |-> e.cur, ready |-> e.ready]]}
          /\ Answer("lo", <<>>)
    /\ Still /\ UNCHANGED timers

AckIgnored ==
    /\ Handles("lo", "ack") /\ ~Awaited(sess["lo"])
    /\ Answer("lo", <<>>)
    /\ Still /\ UNCHANGED <<sess, disk, timers, faults>>

\* handle_ratchet_init
RatchetRead(n) ==
    /\ Handles(n, "ratchet") /\ Reads(sess[n], Head(to[n]).s)
    /\ sess' = [sess EXCEPT ![n] = Decrypt(@, Head(to[n]).s)]
    /\ Persist(n)
    /\ Answer(n, <<>>)
    /\ Still /\ UNCHANGED timers

\* One failure asks for a replacement, the next ones are quiet.
RatchetUnread(n) ==
    /\ Handles(n, "ratchet") /\ ~Reads(sess[n], Head(to[n]).s)
    /\ sess' = [sess EXCEPT ![n].marked = (sess[n].cur # NoId)]
    /\ Answer(n, IF sess[n].marked THEN <<>> ELSE <<Offer(n)>>)
    /\ Still /\ UNCHANGED <<disk, timers, faults>>

\* heal_connected_e2ee_sessions on the self-heal tick.
TickHeals(n) ==
    /\ up /\ Len(to[Peer(n)]) < Window /\ (Quick => to = [m \in Pair |-> <<>>])
    /\ NeedsSelfHeal(n)
    /\ to' = [to EXCEPT ![Peer(n)] = Append(@, Offer(n))]
    /\ Still /\ UNCHANGED <<sess, disk, timers, faults>>

CheckDue(n) ==
    /\ ~young /\ ~cool[n] /\ sess[n].unc = NoId /\ ~NeedsSelfHeal(n)
    /\ sess[n].owed \/ ~checked[n]

\* check_connected_e2ee_sessions on the same tick.  A tick of lo is an interval in
\* which a first offer ripens.
TickChecks(n) ==
    /\ up /\ Len(to[Peer(n)]) < Window /\ (Quick => to = [m \in Pair |-> <<>>])
    /\ CheckDue(n)
    /\ witness' = IF n = "lo" /\ witness = "first" THEN "ripe" ELSE witness
    /\ checked' = [checked EXCEPT ![n] = TRUE]
    /\ \/ /\ sess' = [sess EXCEPT ![n].owed = FALSE]
          /\ Encrypts(n)
          /\ to' = [to EXCEPT ![Peer(n)] = Append(@, Ratchet(sess[n].cur))]
          /\ UNCHANGED faults
       \/ /\ Fail
          /\ sess' = [sess EXCEPT ![n].owed = TRUE]
          /\ UNCHANGED <<disk, to>>
    /\ Still /\ UNCHANGED <<young, cool, eager>>

-----------------------------------------------------------------------------
(* Envelopes *)

\* A send encrypts under the session in use; the envelope keeps that ciphertext.
SendMail(n) ==
    /\ n \in Senders /\ sess[n].ready /\ mail[Peer(n)] = NoId
    /\ mail' = [mail EXCEPT ![Peer(n)] = sess[n].cur]
    /\ disk' = [disk EXCEPT ![n] = [cur |-> sess[n].cur, ready |-> TRUE]]
    /\ UNCHANGED <<sess, to, up, timers, faults>>

\* decrypt_and_process
MailRead(n) ==
    /\ up /\ mail[n] # NoId /\ Reads(sess[n], mail[n])
    /\ sess' = [sess EXCEPT ![n] = Decrypt(@, mail[n])]
    /\ Persist(n)
    /\ mail' = [mail EXCEPT ![n] = NoId]
    /\ UNCHANGED <<to, up, timers>>

\* note_unreadable_envelope: an envelope stamped before the session has been in use
\* for the cooldown says nothing.  A resend moves the stamp on, so any envelope may
\* count once the cooldown is over.
MailUnread(n) ==
    /\ up /\ mail[n] # NoId /\ ~Reads(sess[n], mail[n])
    /\ mail' = [mail EXCEPT ![n] = NoId]
    /\ \/ UNCHANGED <<sess, to>>
       \/ /\ sess[n].cur # NoId /\ ~sess[n].marked /\ ~cool[n] /\ Len(to[Peer(n)]) < Window
          /\ sess' = [sess EXCEPT ![n].marked = TRUE]
          /\ to' = [to EXCEPT ![Peer(n)] = Append(@, Offer(n))]
    /\ UNCHANGED <<disk, up, timers, faults>>

-----------------------------------------------------------------------------
(* Time, connections and restarts *)

Settled == Quick => to = [n \in Pair |-> <<>>]

CooldownEnds(n) ==
    /\ cool[n] /\ Settled
    /\ cool' = [cool EXCEPT ![n] = FALSE]
    /\ UNCHANGED <<sess, disk, to, mail, up, young, checked, eager, witness, faults>>

ConnectionAges ==
    /\ up /\ young /\ Settled
    /\ young' = FALSE
    /\ UNCHANGED <<sess, disk, to, mail, up, cool, checked, eager, witness, faults>>

LimiterCools ==
    /\ eager /\ Settled /\ Len(to["lo"]) < Window
    /\ eager' = FALSE
    /\ UNCHANGED <<sess, disk, to, mail, up, young, cool, checked, witness, faults>>

\* One self-heal interval after the first offer: lo's own tick had nothing to do.
WitnessRipens ==
    /\ witness = "first" /\ Settled /\ (Quick => ~CheckDue("lo"))
    /\ witness' = "ripe"
    /\ UNCHANGED <<sess, disk, to, mail, up, young, cool, checked, eager, faults>>

\* An accepted session nothing has moved us to since the cooldown.
AcceptedAges(n) ==
    /\ sess[n].unc # NoId /\ ~sess[n].aged /\ Settled
    /\ sess' = [sess EXCEPT ![n].aged = TRUE]
    /\ UNCHANGED <<disk, to, mail, up, timers, faults>>

\* RETIRED_SESSION_READS_FOR is over.
RetiredExpires(n) ==
    /\ sess[n].ret # NoId /\ Fail
    /\ sess' = [sess EXCEPT ![n].ret = NoId]
    /\ UNCHANGED <<disk, to, mail, up, timers>>

Drop ==
    /\ up /\ Fail
    /\ up' = FALSE /\ to' = [n \in Pair |-> <<>>]
    /\ UNCHANGED <<sess, disk, mail, timers>>

\* restore_sessions: only the saved ratchet of the session in use comes back.
Restart(n) ==
    /\ Fail
    /\ sess' = [sess EXCEPT ![n] = Entry(disk[n].cur, disk[n].ready, FALSE)]
    /\ cool' = [cool EXCEPT ![n] = FALSE]
    /\ eager' = (eager /\ n # "hi")
    /\ up' = FALSE /\ to' = [m \in Pair |-> <<>>]
    /\ UNCHANGED <<disk, mail, young, checked, witness>>

Control(n) ==
    \/ n = "hi" /\ (OfferAtHi \/ InitAccepted \/ InitRefused)
    \/ n = "lo" /\ (OfferCounted \/ OfferActedOn \/ OfferThrottled \/ AckConfirms \/ AckIgnored)
    \/ RatchetRead(n) \/ RatchetUnread(n)

Timer ==
    \/ ConnectionAges \/ LimiterCools \/ WitnessRipens
    \/ \E n \in Pair : CooldownEnds(n) \/ AcceptedAges(n)

Agree == sess["lo"].cur # NoId /\ sess["lo"].cur = sess["hi"].cur /\ \A n \in Pair : sess[n].ready

Works ==
    \/ Connect \/ Timer \/ Drop
    \/ \E n \in Pair : \/ Control(n) \/ TickHeals(n) \/ TickChecks(n)
                       \/ SendMail(n) \/ MailRead(n) \/ MailUnread(n)

Forgets == \E n \in Pair : RetiredExpires(n) \/ Restart(n)

Keeping(A) == A /\ lost' = (~Agree' /\ lost)

Next ==
    \/ Keeping(Works)
    \/ Forgets /\ lost' = ~Agree'

Spec == Init /\ [][Next]_vars

\* Every timer runs out, now and again.
TimersRunOut ==
    /\ []<>(~up \/ ~young) /\ []<>~eager /\ []<>(witness # "first")
    /\ \A n \in Pair : []<>~cool[n] /\ []<>(sess[n].unc = NoId \/ sess[n].aged)

Tick(n) == TickHeals(n) \/ TickChecks(n)

\* The handlers run, the ticks come, the timers run out, and the supervisor
\* connects again.
Fairness ==
    /\ WF_nodes(Connect)
    /\ \A n \in Pair : WF_nodes(Control(n)) /\ SF_nodes(Tick(n))
    /\ TimersRunOut
FairSpec == Spec /\ Fairness

-----------------------------------------------------------------------------
(* Properties *)

\* Until a restart or the expiry of a retired session, neither side moves on so far
\* that it cannot read what the other sends now.
SendsReadable ==
    lost \/ \A n \in Pair : sess[n].ready /\ ~sess[n].await => Reads(sess[Peer(n)], sess[n].cur)

\* An acknowledgement is handled while lo holds aside another session than the one
\* it is about: an init that the acknowledgement does not know of went out since.
LateAck ==
    /\ Handles("lo", "ack") /\ to'["lo"] = Tail(to["lo"])
    /\ sess["lo"].unc # NoId /\ Head(to["lo"]).s # sess["lo"].unc

\* The initiator takes a new session in use only when the acceptor holds it, unless it
\* was an acknowledgement of an earlier init that confirmed it.
ConfirmedStep ==
    sess'["lo"].ret # sess["lo"].ret /\ sess'["lo"].ret # NoId /\ ~LateAck
        => Reads(sess["hi"], sess'["lo"].cur)
ConfirmedIsHeld == [][ConfirmedStep]_vars

\* However the negotiation is disturbed, both sides end up sending under one session.
Converges == <>[]Agree

====

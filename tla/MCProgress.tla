------------------------------ MODULE MCProgress ------------------------------
(***************************************************************************)
(* Small instances of components that must get somewhere, checked in one   *)
(* run: the first state chooses an area, and only the component of that    *)
(* area moves, under its own fairness.  The relay store, which makes no    *)
(* promise of progress, is module RelayStore itself.                       *)
(***************************************************************************)
EXTENDS RelayStore

VARIABLES area,
    e_sess, e_disk, e_to, e_mail, e_up, e_young, e_cool, e_checked, e_eager, e_witness,
    e_lost, e_faults,
    t_dialer, t_acked, t_cut, t_ends, t_peers, t_dial, t_worker, t_saw, t_interest,
    t_session, t_held, t_banned, t_faults, t_calls,
    q_rows, q_age, q_worker, q_channel,
    h_invites, h_grants, h_ops, h_hub, h_auto, h_calls, h_channels, h_funded, h_day,
    h_crashes,
    p_state, p_link, p_conns, p_pace, p_sweep, p_seen, p_age, p_last, p_restarts,
    d_pending, d_frames, d_replies, d_receipt, d_stored, d_hold, d_hand, d_admitted,
    d_shown, d_faults, d_crashes, d_drops

sessions_vars ==
    <<e_sess, e_disk, e_to, e_mail, e_up, e_young, e_cool, e_checked, e_eager, e_witness,
    e_lost, e_faults>>
transport_vars ==
    <<t_dialer, t_acked, t_cut, t_ends, t_peers, t_dial, t_worker, t_saw, t_interest,
    t_session, t_held, t_banned, t_faults, t_calls>>
requests_vars ==
    <<q_rows, q_age, q_worker, q_channel>>
hub_vars ==
    <<h_invites, h_grants, h_ops, h_hub, h_auto, h_calls, h_channels, h_funded, h_day,
    h_crashes>>
pacing_vars ==
    <<p_state, p_link, p_conns, p_pace, p_sweep, p_seen, p_age, p_last, p_restarts>>
delivery_vars ==
    <<d_pending, d_frames, d_replies, d_receipt, d_stored, d_hold, d_hand, d_admitted,
    d_shown, d_faults, d_crashes, d_drops>>
all_vars ==
    <<area, pacing_vars, sessions_vars, transport_vars, requests_vars, hub_vars, delivery_vars, vars>>

E2ee == INSTANCE Sessions WITH
    sess <- e_sess, disk <- e_disk, to <- e_to, mail <- e_mail, up <- e_up,
    young <- e_young, cool <- e_cool, checked <- e_checked, eager <- e_eager,
    witness <- e_witness, lost <- e_lost, faults <- e_faults, Ids <- 1 .. 8,
    Senders <- {"hi"}, Quick <- TRUE, Window <- 2, MaxFaults <- 2

Mesh == INSTANCE Transport WITH
    dialer <- t_dialer, acked <- t_acked, cut <- t_cut, ends <- t_ends, peers <- t_peers,
    dial <- t_dial, worker <- t_worker, saw <- t_saw, interest <- t_interest,
    session <- t_session, held <- t_held, banned <- t_banned, faults <- t_faults,
    calls <- t_calls, Sockets <- {1, 2}, Casual <- {"lo"}, MaxFaults <- 1, MaxCalls <- 1

Newcomer == INSTANCE StarterRequests WITH
    rows <- q_rows, age <- q_age, worker <- q_worker, channel <- q_channel,
    Ids <- {1, 2}, MaxSends <- 1, MaxSuccessors <- 1

Grants == INSTANCE StarterHub WITH
    invites <- h_invites, grants <- h_grants, ops <- h_ops, hub <- h_hub, auto <- h_auto,
    calls <- h_calls, channels <- h_channels, funded <- h_funded, day <- h_day,
    crashes <- h_crashes, Peers <- {"p"}, Requests <- {1}, Invites <- {1},
    InviteeOf <- [i \in {1} |-> "p"], Subsidised <- {"p"}, Concurrent <- 1, MaxCrashes <- 1,
    LastDay <- 0, Budget <- 1, PerPeer <- 2, SubsidyBudget <- 2, SameSize <- FALSE,
    PerDay <- 1

Pacing == INSTANCE ResendPacing WITH
    state <- p_state, link <- p_link, conns <- p_conns, pace <- p_pace, sweep <- p_sweep,
    seen <- p_seen, age <- p_age, last <- p_last, restarts <- p_restarts,
    ResendBase <- 2, ResendCap <- 4, MaxConns <- 2, MaxRestarts <- 1

Queue == INSTANCE PaidDelivery WITH
    pending <- d_pending, frames <- d_frames, replies <- d_replies, receipt <- d_receipt,
    stored <- d_stored, hold <- d_hold, hand <- d_hand, admitted <- d_admitted,
    shown <- d_shown, faults <- d_faults, crashes <- d_crashes, drops <- d_drops,
    Msgs <- {"m"}, PriceMoves <- TRUE, Window <- 1, MaxFaults <- 2, MaxCrashes <- 1,
    MaxDrops <- 1

\* A component whose area was not chosen stays in one initial state.
ProgressInit ==
    /\ area \in {"pacing", "sessions", "transport", "requests", "hub", "delivery", "relay"}
    /\ Pacing!Init /\ E2ee!Init /\ Mesh!Init /\ Newcomer!Init /\ Grants!Init /\ Init
    /\ Queue!Init /\ (area = "delivery" \/ d_receipt["m"] = "none")

\* A step A of one area leaves the others alone.
PacingStep(A) ==
    area = "pacing" /\ A /\ UNCHANGED <<area, sessions_vars, transport_vars, requests_vars, hub_vars, delivery_vars, vars>>
SessionsStep(A) ==
    area = "sessions" /\ A /\ UNCHANGED <<area, pacing_vars, transport_vars, requests_vars, hub_vars, delivery_vars, vars>>
TransportStep(A) ==
    area = "transport" /\ A /\ UNCHANGED <<area, pacing_vars, sessions_vars, requests_vars, hub_vars, delivery_vars, vars>>
RequestsStep(A) ==
    area = "requests" /\ A /\ UNCHANGED <<area, pacing_vars, sessions_vars, transport_vars, hub_vars, delivery_vars, vars>>
HubStep(A) ==
    area = "hub" /\ A /\ UNCHANGED <<area, pacing_vars, sessions_vars, transport_vars, requests_vars, delivery_vars, vars>>
DeliveryStep(A) ==
    area = "delivery" /\ A /\ UNCHANGED <<area, pacing_vars, sessions_vars, transport_vars, requests_vars, hub_vars, vars>>
RelayStep(A) ==
    area = "relay" /\ A /\ UNCHANGED <<area, pacing_vars, sessions_vars, transport_vars, requests_vars, hub_vars, delivery_vars>>

ProgressNext ==
    \/ PacingStep(Pacing!Next)
    \/ SessionsStep(E2ee!Next)
    \/ TransportStep(Mesh!Next)
    \/ RequestsStep(Newcomer!Next)
    \/ HubStep(Grants!Next)
    \/ DeliveryStep(Queue!Next)
    \/ RelayStep(Next)

\* The fairness of each component.  Only one area moves, so fairness conditions of
\* different areas are stated as one.
ProgressFairness ==
    /\ E2ee!TimersRunOut
    /\ WF_all_vars(\/ PacingStep(Pacing!SweepAsks) \/ SessionsStep(E2ee!Keeping(E2ee!Connect))
                   \/ TransportStep(Mesh!connect_to_peer("lo")) \/ RequestsStep(Newcomer!poll)
                   \/ HubStep(Grants!HubContinues) \/ DeliveryStep(Queue!HandleDeliveryConfirmation))
    /\ WF_all_vars(\/ PacingStep(Pacing!SweepWaits) \/ SessionsStep(E2ee!Keeping(E2ee!Control("lo")))
                   \/ TransportStep(Mesh!connect_to_peer("hi"))
                   \/ RequestsStep(\/ Newcomer!Adopt \/ Newcomer!Retry
                                   \/ Newcomer!Send \/ Newcomer!Prepare)
                   \/ DeliveryStep(Queue!Recv))
    /\ WF_all_vars(\/ PacingStep(Pacing!SweepResends) \/ SessionsStep(E2ee!Keeping(E2ee!Control("hi")))
                   \/ TransportStep(Mesh!WorkerTurns("lo")) \/ DeliveryStep(Queue!Turn))
    /\ WF_all_vars(\/ PacingStep(Pacing!ResendSucceeds \/ Pacing!ResendFails)
                   \/ TransportStep(Mesh!WorkerTurns("hi")) \/ DeliveryStep(Queue!BackoffElapses("m")))
    /\ WF_all_vars(PacingStep(Pacing!Tick) \/ TransportStep(Mesh!BanExpires("lo")))
    /\ WF_all_vars(TransportStep(Mesh!BanExpires("hi")))
    /\ \A n \in Mesh!Pair, s \in {1, 2} : WF_all_vars(TransportStep(Mesh!EndGetsOn(n, s)))
    /\ SF_all_vars(\/ SessionsStep(E2ee!Keeping(E2ee!Tick("lo"))) \/ TransportStep(Mesh!WorkerDials("lo"))
                   \/ RequestsStep(Newcomer!Reconcile) \/ HubStep(Grants!dispatch(1))
                   \/ DeliveryStep(Queue!FlushSends("m")))
    /\ SF_all_vars(\/ SessionsStep(E2ee!Keeping(E2ee!Tick("hi"))) \/ TransportStep(Mesh!WorkerDials("hi"))
                   \/ HubStep(Grants!RepairInvite(1)))

ProgressSpec == ProgressInit /\ [][ProgressNext]_all_vars /\ ProgressFairness

-----------------------------------------------------------------------------
\* Sessions: until a restart or the expiry of a retired session, and while frames are
\* handled before the timers run out, neither side moves on so far (switch_to) that it
\* cannot read what the other sends now.
SessionsSafe == E2ee!TypeOK /\ E2ee!SendsReadable

\* Sessions: however offers, inits, acknowledgements, restarts and failed saves
\* interleave, both sides end up sending under one session.
Converges == <>[](area = "sessions" => E2ee!Agree)

\* Pacing: while its peer stays connected a paid operation is attempted again and again,
\* until it is sent, and after a failed resend no sooner than the jittered base on the
\* same connection (recover_paid, resend_delay).
Resends == []Pacing!TypeOK /\ Pacing!Spaced /\ []<>(area = "pacing" => Pacing!Attempts)

\* Transport: two nodes that want each other get and keep one connection, whatever
\* crossed, failed or was banned on the way (prefer_existing_direction, track_peer).
Linked == <>[](area = "transport" => Mesh!Connected)

\* Delivery: once the gate stops failing envelopes for reasons of the moment, every queued
\* message leaves the queue, acknowledged or refused for good: no backoff, hold or late
\* reply (reject_pending, flush_peer) keeps it there or brings it back.
Decided ==
    <>[][~Queue!GateRejects]_delivery_vars
        => <>[](area = "delivery" => d_pending["m"].state # "pending")

\* Starter requests: "Local reconciliation never stops on timeout": when the channel stays
\* verifiable the live request becomes ready, even after its delivery is exhausted (poll).
LateFundingReady == Newcomer!LateFundingReady

\* Starter hub: an admitted grant whose invite expired, was revoked or was taken by the
\* auto-channel worker is released in the end (the first lines of dispatch), unless it can
\* claim the invite again, so that it does not hold its budget for ever; and the invite of a
\* ready grant is marked accepted in the end, crashes included (reconcile), so that the
\* subsidy stops counting it.
GrantsFinish == Grants!StaleAdmissionReleased /\ Grants!ReadyInviteAccepted
===============================================================================

------------------------------ MODULE MCServices ------------------------------
(***************************************************************************)
(* Small instances of components that do not share state, checked in one   *)
(* run: the first state chooses an area, and only the component of that    *)
(* area moves.  A property of a component is stated under its area.  The   *)
(* starter requests are module StarterRequests itself.                     *)
(***************************************************************************)
EXTENDS StarterRequests

VARIABLES area,
    c_now, c_call, c_op, c_invoice, c_seen, c_grants, c_acked,
    h_invites, h_grants, h_ops, h_hub, h_auto, h_calls, h_channels, h_funded, h_day, h_crashes,
    t_contract, t_ledger, t_marked, t_history, t_pass, t_due_at, t_now, t_crashes,
    s_kits, s_observed, s_offers, s_call, s_look, s_backend, s_stamp, s_now,
    e_sess, e_disk, e_to, e_mail, e_up, e_young, e_cool, e_checked, e_eager, e_witness,
    e_lost, e_faults,
    n_dialer, n_acked, n_cut, n_ends, n_peers, n_dial, n_worker, n_saw, n_interest,
    n_session, n_held, n_banned, n_faults, n_calls

calls_vars == <<c_now, c_call, c_op, c_invoice, c_seen, c_grants, c_acked>>
hub_vars ==
    <<h_invites, h_grants, h_ops, h_hub, h_auto, h_calls, h_channels, h_funded, h_day, h_crashes>>
hosting_vars ==
    <<t_contract, t_ledger, t_marked, t_history, t_pass, t_due_at, t_now, t_crashes>>
sponsor_vars == <<s_kits, s_observed, s_offers, s_call, s_look, s_backend, s_stamp, s_now>>
sessions_vars ==
    <<e_sess, e_disk, e_to, e_mail, e_up, e_young, e_cool, e_checked, e_eager, e_witness,
      e_lost, e_faults>>
transport_vars ==
    <<n_dialer, n_acked, n_cut, n_ends, n_peers, n_dial, n_worker, n_saw, n_interest,
      n_session, n_held, n_banned, n_faults, n_calls>>
all_vars ==
    <<area, calls_vars, hub_vars, hosting_vars, sponsor_vars, sessions_vars, transport_vars, vars>>

\* A call of two blocks, and one of a single block that is tried twice.
TwoBlocks == INSTANCE Calls WITH
    now <- c_now, call <- c_call, op <- c_op, invoice <- c_invoice, seen <- c_seen, grants
    <- c_grants, acked <- c_acked, Ring <- 1, Block <- 2, Lead <- 1, Grace <- 1, Resume <-
    2, InvoiceMargin <- 1, DispatchMargin <- 1, Tombstone <- 20, MaxBlocks <- 2, Cap <- 2,
    Tries <- {1}, MaxTime <- 4

TwoTries == INSTANCE Calls WITH
    now <- c_now, call <- c_call, op <- c_op, invoice <- c_invoice, seen <- c_seen, grants
    <- c_grants, acked <- c_acked, Ring <- 1, Block <- 2, Lead <- 1, Grace <- 1, Resume <-
    1, InvoiceMargin <- 1, DispatchMargin <- 1, Tombstone <- 2, MaxBlocks <- 1, Cap <- 2,
    Tries <- {1, 2}, MaxTime <- 3

\* A peer with two invites, which both openers serve; two peers that compete for the
\* lifetime budget, crashes included; and the same two on two days, with a budget for
\* both and a cap of one a day.
OnePeer == INSTANCE StarterHub WITH
    invites <- h_invites, grants <- h_grants, ops <- h_ops, hub <- h_hub, auto <- h_auto,
    calls <- h_calls, channels <- h_channels, funded <- h_funded, day <- h_day,
    crashes <- h_crashes, Peers <- {"p"}, Requests <- {1}, Invites <- {1, 2},
    InviteeOf <- [i \in {1, 2} |-> "p"], Subsidised <- {"p"}, Concurrent <- 1,
    MaxCrashes <- 1, LastDay <- 0, Budget <- 1, PerPeer <- 2, SubsidyBudget <- 1,
    SameSize <- FALSE, PerDay <- 1

TwoPeers == INSTANCE StarterHub WITH
    invites <- h_invites, grants <- h_grants, ops <- h_ops, hub <- h_hub, auto <- h_auto,
    calls <- h_calls, channels <- h_channels, funded <- h_funded, day <- h_day,
    crashes <- h_crashes, Peers <- {"p", "q"}, Requests <- {1, 2}, Invites <- {1, 2},
    InviteeOf <- [i \in {1, 2} |-> IF i = 1 THEN "p" ELSE "q"], Subsidised <- {},
    Concurrent <- 2, MaxCrashes <- 1, LastDay <- 0, Budget <- 1, PerPeer <- 2,
    SubsidyBudget <- 2, SameSize <- FALSE, PerDay <- 2

TwoDays == INSTANCE StarterHub WITH
    invites <- h_invites, grants <- h_grants, ops <- h_ops, hub <- h_hub, auto <- h_auto,
    calls <- h_calls, channels <- h_channels, funded <- h_funded, day <- h_day,
    crashes <- h_crashes, Peers <- {"p", "q"}, Requests <- {1, 2}, Invites <- {1, 2},
    InviteeOf <- [i \in {1, 2} |-> IF i = 1 THEN "p" ELSE "q"], Subsidised <- {},
    Concurrent <- 1, MaxCrashes <- 0, LastDay <- 1, Budget <- 2, PerPeer <- 2,
    SubsidyBudget <- 2, SameSize <- FALSE, PerDay <- 1

\* A backend that keeps memos, as the mock does, and one that does not, as LDK and LND;
\* both show the whole history.
Tenant == INSTANCE Hosting WITH
    contract <- t_contract, ledger <- t_ledger, marked <- t_marked, history <- t_history,
    pass <- t_pass, due_at <- t_due_at, now <- t_now, crashes <- t_crashes, Day <- 2,
    OverdueDays <- 1, PauseDays <- 2, Limit <- 9, MemoKept <- TRUE, MaxTime <- 5,
    MaxCrashes <- 1, MaxOthers <- 1, MaxKeysends <- 2

NoMemos == INSTANCE Hosting WITH
    contract <- t_contract, ledger <- t_ledger, marked <- t_marked, history <- t_history,
    pass <- t_pass, due_at <- t_due_at, now <- t_now, crashes <- t_crashes, Day <- 2,
    OverdueDays <- 1, PauseDays <- 2, Limit <- 9, MemoKept <- FALSE, MaxTime <- 5,
    MaxCrashes <- 1, MaxOthers <- 1, MaxKeysends <- 2

\* Two kits against a purse that pays for one a day.
Kits == INSTANCE Sponsor WITH
    kits <- s_kits, observed <- s_observed, offers <- s_offers, call <- s_call, look <-
    s_look, backend <- s_backend, stamp <- s_stamp, now <- s_now, Gift <- 2, Fee <- 1, Purse
    <- 5, PerDay <- 3, Day <- 1, Lifetime <- 1, MaxKits <- 2, MaxTime <- 1

\* Two nodes with two sockets, one of them connecting without a contact.
Mesh == INSTANCE Transport WITH
    dialer <- n_dialer, acked <- n_acked, cut <- n_cut, ends <- n_ends, peers <- n_peers,
    dial <- n_dial, worker <- n_worker, saw <- n_saw, interest <- n_interest,
    session <- n_session, held <- n_held, banned <- n_banned, faults <- n_faults,
    calls <- n_calls, Sockets <- {1, 2}, Casual <- {"lo"}, MaxFaults <- 1, MaxCalls <- 2

\* Two nodes that agree on sessions, with frames that may be late: a timer runs out
\* while they are under way.
E2ee == INSTANCE Sessions WITH
    sess <- e_sess, disk <- e_disk, to <- e_to, mail <- e_mail, up <- e_up,
    young <- e_young, cool <- e_cool, checked <- e_checked, eager <- e_eager,
    witness <- e_witness, lost <- e_lost, faults <- e_faults, Ids <- {1, 2, 3},
    Senders <- {}, Quick <- FALSE, Window <- 1, MaxFaults <- 1

\* A component whose area was not chosen has no state; there is no request.
ServicesInit ==
    /\ area \in {"two_blocks", "two_tries", "one_peer", "two_peers", "two_days", "hosting",
             "no_memos", "sponsor", "sessions", "transport", "requests"}
    /\ Init
    /\ \/ area = "two_blocks" /\ TwoBlocks!Init
       \/ area = "two_tries" /\ TwoTries!Init
       \/ area \notin {"two_blocks", "two_tries"}
         /\ c_now = None /\ c_call = None /\ c_op = None /\ c_invoice = None
         /\ c_seen = None /\ c_grants = None /\ c_acked = None
    /\ \/ area = "one_peer" /\ OnePeer!Init
       \/ area = "two_peers" /\ TwoPeers!Init
       \/ area = "two_days" /\ TwoDays!Init
       \/ area \notin {"one_peer", "two_peers", "two_days"}
         /\ h_invites = None /\ h_grants = None /\ h_ops = None /\ h_hub = None
         /\ h_auto = None /\ h_calls = None /\ h_channels = None /\ h_funded = None
         /\ h_day = None /\ h_crashes = None
    /\ \/ area = "hosting" /\ Tenant!Init
       \/ area = "no_memos" /\ NoMemos!Init
       \/ area \notin {"hosting", "no_memos"}
         /\ t_contract = None /\ t_ledger = None /\ t_marked = None /\ t_history = None
         /\ t_pass = None /\ t_due_at = None /\ t_now = None /\ t_crashes = None
    /\ \/ area = "sponsor" /\ Kits!Init
       \/ area # "sponsor"
         /\ s_kits = None /\ s_observed = None /\ s_offers = None /\ s_call = None
         /\ s_look = None /\ s_backend = None /\ s_stamp = None /\ s_now = None
    /\ \/ area = "sessions" /\ E2ee!Init
       \/ area # "sessions"
         /\ e_sess = None /\ e_disk = None /\ e_to = None /\ e_mail = None /\ e_up = None
         /\ e_young = None /\ e_cool = None /\ e_checked = None /\ e_eager = None
         /\ e_witness = None /\ e_lost = None /\ e_faults = None
    /\ \/ area = "transport" /\ Mesh!Init
       \/ area # "transport"
         /\ n_dialer = None /\ n_acked = None /\ n_cut = None /\ n_ends = None
         /\ n_peers = None /\ n_dial = None /\ n_worker = None /\ n_saw = None
         /\ n_interest = None /\ n_session = None /\ n_held = None /\ n_banned = None
         /\ n_faults = None /\ n_calls = None

\* A step A of one component leaves the others alone.
CallsStep(name, A) ==
    area = name /\ A /\ UNCHANGED <<area, hub_vars, hosting_vars, sponsor_vars, sessions_vars, transport_vars, vars>>
HubStep(name, A) ==
    area = name /\ A /\ UNCHANGED <<area, calls_vars, hosting_vars, sponsor_vars, sessions_vars, transport_vars, vars>>
HostingStep(name, A) ==
    area = name /\ A /\ UNCHANGED <<area, calls_vars, hub_vars, sponsor_vars, sessions_vars, transport_vars, vars>>
SponsorStep(name, A) ==
    area = name /\ A /\ UNCHANGED <<area, calls_vars, hub_vars, hosting_vars, sessions_vars, transport_vars, vars>>
SessionsStep(name, A) ==
    area = name /\ A /\ UNCHANGED <<area, calls_vars, hub_vars, hosting_vars, sponsor_vars, transport_vars, vars>>
TransportStep(name, A) ==
    area = name /\ A /\ UNCHANGED <<area, calls_vars, hub_vars, hosting_vars, sponsor_vars, sessions_vars, vars>>
RequestsStep(name, A) ==
    area = name /\ A /\ UNCHANGED <<area, calls_vars, hub_vars, hosting_vars, sponsor_vars, sessions_vars, transport_vars>>

ServicesNext ==
    \/ CallsStep("two_blocks", TwoBlocks!Next)
    \/ CallsStep("two_tries", TwoTries!Next)
    \/ HubStep("one_peer", OnePeer!Next)
    \/ HubStep("two_peers", TwoPeers!Next)
    \/ HubStep("two_days", TwoDays!Next)
    \/ HostingStep("hosting", Tenant!Next)
    \/ HostingStep("no_memos", NoMemos!Next)
    \/ SponsorStep("sponsor", Kits!Next)
    \/ SessionsStep("sessions", E2ee!Next)
    \/ TransportStep("transport", Mesh!Next)
    \/ RequestsStep("requests", Next)

ServicesSpec == ServicesInit /\ [][ServicesNext]_all_vars

-----------------------------------------------------------------------------
\* Calls: a caller that retries a block (reserve_outgoing, dispatch) never has two
\* payments for it in flight or settled; and blocks are bought at most the lead ahead
\* of the boundary (check_block), so neither side's paid interval runs further ahead
\* than one block and the lead.
CallsSafe ==
    /\ area = "two_blocks" => TwoBlocks!TypeOK /\ TwoBlocks!CreditBounded
    /\ area = "two_tries" => TwoTries!TypeOK /\ TwoTries!ChargedOnce

\* Calls: the callee turns a settled block away only when the call was ended or the
\* time to resume is over (receive_block), however late or out of order it comes.
PaidIsServed == [][area = "two_blocks" => TwoBlocks!ServedStep]_all_vars

\* Calls: a notice that the call is unpaid never ends an interval that is paid for.
NoticeHarmless == [][area = "two_blocks" => TwoBlocks!NoticeStep]_all_vars

\* Starter hub: an invite pays for at most one channel, whichever of the two openers
\* claims it and however often it is tried again (claim_open, create_or_resume); a refused
\* grant has no channel and no open in doubt, so its refund cannot be spent twice; and what
\* was or may be funded stays within the lifetime budget, crashes included, and within the
\* cap of the day where the budget would allow more (admit_starter).
GrantsSafe ==
    /\ area = "one_peer" => OnePeer!TypeOK /\ OnePeer!InviteOpensOnce /\ OnePeer!RefusedIsUnfunded
    /\ area = "two_peers" => TwoPeers!TypeOK /\ TwoPeers!FundedWithinCaps
    /\ area = "two_days" => TwoDays!TypeOK /\ TwoDays!FundedWithinCaps

\* Hosting: with a backend that keeps memos a pass never pays a contract that a settled
\* keysend paid within the day, also when the node stopped before
\* mark_operator_hosting_contract_paid.  No provider with keysend but the mock keeps them
\* (the run hosting_memo shows what follows): without memos this holds of the keysends
\* that were marked.  With and without, last_paid_at never runs more than a day ahead of
\* a settled keysend.
HostingSafe ==
    /\ area = "hosting" => Tenant!TypeOK /\ Tenant!PaidOncePerDay /\ Tenant!RowFollowsHistory
    /\ area = "no_memos" => NoMemos!TypeOK /\ NoMemos!MarkedPaysForDay /\ NoMemos!RowFollowsHistory

\* Sponsor: the gifts that settle within a day stay within the purse, also when their
\* outcome was unknown, their caller was gone, or the clock was set back; the gift of a
\* failed, cancelled or expired kit is not paid and not under way; and two offers at once
\* do not open two kits.
KitsSafe ==
    area = "sponsor" => /\ Kits!TypeOK /\ Kits!PurseBounded
                        /\ Kits!FailedIsUnpaid /\ Kits!OneOpenKit

\* Sessions: a node retires its session for an acknowledged one only when its peer holds
\* that one (confirm_session), whatever crashed, was lost, raced or failed to save, and
\* however late.  Excepted is an acknowledgement that comes when a later init is out: it
\* names no session, and "can still retire a working session" (CHANGELOG.md).
ConfirmedIsHeld == [][area = "sessions" => E2ee!ConfirmedStep]_all_vars

\* Transport: an operation that holds a handle of retain_peer has a supervisor until the
\* owner stops it ("A caller either retains this worker or observes that it has already
\* retired"); and, but for a socket that disconnect is about to close, a reader runs only
\* for the socket in the peer map: "the old reader's cleanup cannot remove the replacement".
TransportSafe ==
    area = "transport" => Mesh!TypeOK /\ Mesh!RetainedIsSupervised /\ Mesh!OpenIsRegistered
===============================================================================

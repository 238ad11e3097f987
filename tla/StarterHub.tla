------------------------------ MODULE StarterHub ------------------------------
(***************************************************************************)
(* The two openers of starter channels on a hub, which compete for the     *)
(* same issued invites:                                                    *)
(*                                                                         *)
(*   - the starter hub (onboarding/starter_hub.rs), one task that answers  *)
(*     StarterRequest frames and works through its grants, on top of the   *)
(*     transactions of konsensus-storage/src/starter.rs;                   *)
(*   - the auto-channel worker (onboarding/auto_channel.rs), one task that *)
(*     answers the Lightning announcements of invited peers.               *)
(*                                                                         *)
(* A step is one transaction or one call of the Lightning node: what a     *)
(* task read before an await may be stale after it.  A channel is named    *)
(* by the open call that funds it, and calls for one grant or invite that  *)
(* may both fund are told apart.  Every starter channel has capacity 1.    *)
(***************************************************************************)
EXTENDS Naturals, FiniteSets

CONSTANTS
    Peers,
    Requests,       \* request ids, also the ids of the open operations
    Invites,        \* numbered in the order of created_at
    InviteeOf,      \* [Invites -> Peers]
    PerDay,         \* max_opens_per_day
    Concurrent,     \* max_concurrent_opens
    Budget,         \* lifetime_budget_sats, in channels
    PerPeer,        \* onboarding_subsidy.per_peer_max_opens
    SubsidyBudget,  \* onboarding_subsidy.max_total_budget_sats, in channels
    Subsidised,     \* the peers the subsidy lists
    SameSize,       \* subsidy channels have the starter capacity
    MaxCrashes,
    LastDay,
    None

VARIABLES
    invites,    \* [state, expired] of each invite
    grants,     \* row of starter_grants per request id, None without one
    ops,        \* [state, old] of channel_open_operations, None without one
    hub,        \* where the starter task is
    auto,       \* where the auto-channel worker is
    calls,      \* opens handed to the Lightning node that may still fund
    channels,   \* [o |-> open, ready |-> BOOLEAN], as list_channels shows them
    funded,     \* every open that ever funded a channel
    day,
    crashes

vars == <<invites, grants, ops, hub, auto, calls, channels, funded, day, crashes>>

\* The call a task makes now: the next one after those that may still fund or did.
Open(by, id, i) ==
    [by |-> by, id |-> id, invite |-> i,
     n |-> 1 + Cardinality({o \in calls \cup funded : o.by = by /\ o.id = id})]
Opens == [by : {"starter"}, id : Requests, invite : Invites, n : 1 .. 3]
             \cup [by : {"auto"}, id : Invites, invite : Invites, n : 1 .. 3]

Grant(p, i, state, d) ==
    [peer |-> p, invite |-> i, state |-> state, attempts |-> 0, day |-> d, channel |-> None]
Idle == [at |-> "idle"]

Live(r) == grants[r] # None /\ grants[r].state # "refused"
In(r, states) == grants[r] # None /\ grants[r].state \in states
PeerOf(o) == InviteeOf[o.invite]
ChannelsOf(p) == {c \in channels : PeerOf(c.o) = p}
StarterOpens == {o \in calls \cup funded : o.by = "starter"}

TypeOK ==
    /\ invites \in [Invites -> [state : {"none", "pending", "opening", "accepted", "revoked",
                                         "expired"}, expired : BOOLEAN]]
    /\ \A r \in Requests :
           grants[r] # None =>
               /\ grants[r].peer \in Peers /\ grants[r].invite \in Invites
               /\ grants[r].state \in {"admitted", "opening", "ready", "resolved", "refused"}
               /\ grants[r].attempts \in 0 .. 3 /\ grants[r].day \in 0 .. LastDay
               /\ grants[r].channel \in Opens \cup {None}
    /\ \A r \in Requests : ops[r] # None => ops[r] \in [state : {"pending", "opened", "uncertain"},
                                                        old : BOOLEAN]
    /\ hub.at \in {"idle", "policy", "admit", "claim", "open", "proof", "opened", "learn",
                   "observe", "settle", "accept"}
    /\ auto.at \in {"idle", "channels", "already", "caps", "claim", "open", "undo", "accept"}
    /\ calls \in SUBSET Opens /\ funded \in SUBSET Opens
    /\ channels \in SUBSET [o : Opens, ready : BOOLEAN]
    /\ day \in 0 .. LastDay /\ crashes \in 0 .. MaxCrashes

Init ==
    /\ invites = [i \in Invites |-> [state |-> "none", expired |-> FALSE]]
    /\ grants = [r \in Requests |-> None]
    /\ ops = [r \in Requests |-> None]
    /\ hub = Idle /\ auto = Idle
    /\ calls = {} /\ channels = {} /\ funded = {}
    /\ day = 0 /\ crashes = 0

-----------------------------------------------------------------------------
(* The invites *)

\* The expiry is forgotten with the last use of it.
SetInvite(i, from, to) ==
    invites' = IF invites[i].state \notin from THEN invites
               ELSE [invites EXCEPT ![i] = [state |-> to,
                                            expired |-> @.expired /\ to \in {"pending", "opening"}]]

\* The newest pending invite of a peer, if any.
find_pending_invite_for_invitee(p) ==
    LET pending == {i \in Invites : InviteeOf[i] = p /\ invites[i].state = "pending"}
    IN {i \in pending : \A j \in pending : j <= i}

create_invite(i) ==
    /\ invites[i].state = "none"
    /\ invites' = [invites EXCEPT ![i].state = "pending"]
    /\ UNCHANGED <<grants, ops, hub, auto, calls, channels, funded, day, crashes>>

revoke_invite(i) ==
    /\ invites[i].state = "pending"
    /\ SetInvite(i, {"pending"}, "revoked")
    /\ UNCHANGED <<grants, ops, hub, auto, calls, channels, funded, day, crashes>>

\* expiry_unix passes, which matters until the invite is used up.
InviteExpires(i) ==
    /\ invites[i].state \in {"pending", "opening"} /\ ~invites[i].expired
    /\ invites' = [invites EXCEPT ![i].expired = TRUE]
    /\ UNCHANGED <<grants, ops, hub, auto, calls, channels, funded, day, crashes>>

-----------------------------------------------------------------------------
(* starter.rs: the reservations.  recount runs in every transaction, so the *)
(* counters are what these definitions say of the grants.                   *)

day_count      == Cardinality({r \in Requests : Live(r) /\ grants[r].day = day})
inflight_count == Cardinality({r \in Requests : In(r, {"admitted", "opening"})})
committed_sats == Cardinality({r \in Requests : Live(r)})

AdmitState(deny) ==
    IF deny \/ day_count >= PerDay \/ inflight_count >= Concurrent \/ committed_sats + 1 > Budget
    THEN "refused" ELSE "admitted"

\* StarterUpdate::Admit.  A live grant of the peer, or the request itself, wins;
\* else the refused rows of the peer give way to the new one.
Admit(p, r, i, deny) ==
    IF grants[r] # None \/ \E q \in Requests : Live(q) /\ grants[q].peer = p
    THEN grants' = grants
    ELSE grants' = [q \in Requests |->
                        IF q = r THEN Grant(p, i, AdmitState(deny), day)
                        ELSE IF In(q, {"refused"}) /\ grants[q].peer = p THEN None ELSE grants[q]]

\* Mutant: a first attempt may claim an invite that somebody else is opening.
Claimable_Opening(g) ==
    /\ ~invites[g.invite].expired
    /\ invites[g.invite].state \in {"pending", "opening"}

\* The condition of Claim and CancelInvalidInvite on the grant's invite.
Claimable(g) ==
    /\ ~invites[g.invite].expired
    /\ \/ invites[g.invite].state = "pending"
       \/ invites[g.invite].state = "opening" /\ g.attempts > 0

\* A channel of the grant's peer and capacity.
Fits(g, c) == PeerOf(c.o) = g.peer /\ (c.o.by = "starter" \/ SameSize)

\* The channel reconcile attributes to a grant: the recorded one, else the only
\* one that fits (unique_channel_match).
Matched(g) ==
    IF g.channel # None THEN {c \in channels : c.o = g.channel}
    ELSE LET fit == {c \in channels : Fits(g, c)}
         IN IF Cardinality(fit) = 1 THEN fit ELSE {}

-----------------------------------------------------------------------------
(* The starter hub answers a request *)

\* StarterHub::handle up to find_pending_invite_for_invitee.  A replay, a served
\* identity and a peer without a valid invite are answered without a write.
handle(p, r) ==
    /\ hub = Idle
    /\ grants[r] = None
    /\ ~\E q \in Requests : Live(q) /\ grants[q].peer = p
    /\ \E i \in find_pending_invite_for_invitee(p) :
           /\ ~invites[i].expired
           /\ hub' = [at |-> "policy", peer |-> p, req |-> r, invite |-> i]
    /\ UNCHANGED <<invites, grants, ops, auto, calls, channels, funded, day, crashes>>

\* list_channels, starter_has_served_invite and the checks of the hub's own
\* means, which may deny at any time.
HandlePolicy ==
    /\ hub.at = "policy"
    /\ \E other \in BOOLEAN :
           hub' = [at |-> "admit", peer |-> hub.peer, req |-> hub.req, invite |-> hub.invite,
                   deny |-> \/ other
                            \/ \E i \in Invites : /\ InviteeOf[i] = hub.peer
                                                  /\ invites[i].state \in {"opening", "accepted"}
                            \/ ChannelsOf(hub.peer) # {}]
    /\ UNCHANGED <<invites, grants, ops, auto, calls, channels, funded, day, crashes>>

HandleAdmit ==
    /\ hub.at = "admit"
    /\ Admit(hub.peer, hub.req, hub.invite, hub.deny)
    /\ hub' = Idle
    /\ UNCHANGED <<invites, ops, auto, calls, channels, funded, day, crashes>>

-----------------------------------------------------------------------------
(* The starter hub works through its grants *)

\* Mutant: an admission whose invite is no longer valid waits.
dispatch_NoCancel(r) ==
    /\ hub = Idle /\ In(r, {"admitted"}) /\ Claimable(grants[r])
    /\ hub' = [at |-> "claim", req |-> r]
    /\ UNCHANGED <<invites, grants, ops, auto, calls, channels, funded, day, crashes>>

\* dispatch, first transaction: CancelInvalidInvite.
dispatch(r) ==
    /\ hub = Idle /\ In(r, {"admitted"})
    /\ IF ops[r] = None /\ ~Claimable(grants[r])
       THEN grants' = [grants EXCEPT ![r].state = "refused"] /\ hub' = hub
       ELSE grants' = grants /\ hub' = [at |-> "claim", req |-> r]
    /\ UNCHANGED <<invites, ops, auto, calls, channels, funded, day, crashes>>

\* The hub is not ready for money or the Lightning peer is away: dispatch returns.
DispatchWaits ==
    /\ hub.at = "claim" /\ hub' = Idle
    /\ UNCHANGED <<invites, grants, ops, auto, calls, channels, funded, day, crashes>>

\* StarterUpdate::Claim, then open_channel_with_funding is called.
Claim ==
    /\ hub.at = "claim"
    /\ LET r == hub.req
           g == grants[r] IN
       IF ~Claimable(g)
       THEN /\ grants' = [grants EXCEPT ![r].state = "refused"]
            /\ hub' = Idle
            /\ UNCHANGED <<invites, ops, calls>>
       ELSE /\ invites' = [invites EXCEPT ![g.invite].state = "opening"]
            /\ IF ops[r] = None
               THEN /\ ops' = [ops EXCEPT ![r] = [state |-> "pending", old |-> FALSE]]
                    /\ grants' = [grants EXCEPT ![r].state = "opening", ![r].attempts = @ + 1]
                    /\ calls' = calls \cup {Open("starter", r, g.invite)}
                    /\ hub' = [at |-> "open", req |-> r, o |-> Open("starter", r, g.invite)]
               ELSE hub' = Idle /\ UNCHANGED <<ops, grants, calls>>
    /\ UNCHANGED <<auto, channels, funded, day, crashes>>

\* The call returns: the channel, the proof that nothing was dispatched (with
\* the fee cap or another reason), or neither.
OpenReturns ==
    /\ hub.at = "open"
    /\ \/ /\ hub.o \in funded
          /\ hub' = [at |-> "opened", req |-> hub.req, o |-> hub.o]
          /\ calls' = calls
       \/ \E fee \in BOOLEAN :
              /\ hub.o \in calls
              /\ calls' = calls \ {hub.o}
              /\ hub' = [at |-> "proof", req |-> hub.req,
                         terminal |-> fee \/ grants[hub.req].attempts >= 3]
       \/ hub' = Idle /\ calls' = calls
    /\ UNCHANGED <<invites, grants, ops, auto, channels, funded, day, crashes>>

\* StarterUpdate::NonDispatch.
NonDispatch(r, terminal) ==
    IF ops[r] # None /\ ops[r].state = "pending" /\ In(r, {"opening"})
    THEN /\ ops' = [ops EXCEPT ![r] = None]
         /\ grants' = [grants EXCEPT ![r].state = IF terminal THEN "refused" ELSE "admitted"]
         /\ IF terminal THEN SetInvite(grants[r].invite, {"opening"}, "pending")
                        ELSE invites' = invites
    ELSE UNCHANGED <<ops, grants, invites>>

RecordNonDispatch ==
    /\ hub.at = "proof"
    /\ NonDispatch(hub.req, hub.terminal)
    /\ hub' = Idle
    /\ UNCHANGED <<auto, calls, channels, funded, day, crashes>>

\* resolve_channel_open_operation(.., "opened").
Resolved(r) ==
    ops' = IF ops[r] # None /\ ops[r].state = "pending" THEN [ops EXCEPT ![r].state = "opened"] ELSE ops

RecordOpened ==
    /\ hub.at = "opened"
    /\ Resolved(hub.req)
    /\ hub' = [at |-> "learn", req |-> hub.req, o |-> hub.o]
    /\ UNCHANGED <<invites, grants, auto, calls, channels, funded, day, crashes>>

\* StarterUpdate::Observe.
Observe(r, o, ready) ==
    grants' = IF In(r, {"opening", "resolved"})
              THEN [grants EXCEPT ![r].channel = o, ![r].state = IF ready THEN "ready" ELSE @]
              ELSE grants

LearnChannel ==
    /\ hub.at = "learn"
    /\ Observe(hub.req, hub.o, FALSE)
    /\ hub' = Idle
    /\ UNCHANGED <<invites, ops, auto, calls, channels, funded, day, crashes>>

\* reconcile reads the channels and the operation.
reconcile(r) ==
    /\ hub = Idle /\ In(r, {"opening", "resolved"})
    /\ \E c \in Matched(grants[r]) :
           hub' = [at |-> "observe", req |-> r, o |-> c.o, ready |-> c.ready]
    /\ UNCHANGED <<invites, grants, ops, auto, calls, channels, funded, day, crashes>>

ReconcileObserve ==
    /\ hub.at = "observe"
    /\ Observe(hub.req, hub.o, hub.ready)
    /\ hub' = [at |-> "settle", req |-> hub.req, ready |-> hub.ready]
    /\ UNCHANGED <<invites, ops, auto, calls, channels, funded, day, crashes>>

ReconcileSettle ==
    /\ hub.at = "settle"
    /\ Resolved(hub.req)
    /\ hub' = IF hub.ready THEN [at |-> "accept", req |-> hub.req] ELSE Idle
    /\ UNCHANGED <<invites, grants, auto, calls, channels, funded, day, crashes>>

\* mark_invite_accepted.
ReconcileAccept ==
    /\ hub.at = "accept"
    /\ SetInvite(grants[hub.req].invite, {"pending", "opening"}, "accepted")
    /\ hub' = Idle
    /\ UNCHANGED <<grants, ops, auto, calls, channels, funded, day, crashes>>

\* reconcile without a match, once the operation is ten minutes old.
MarkUncertain(r) ==
    /\ hub = Idle /\ In(r, {"opening"}) /\ Matched(grants[r]) = {}
    /\ ops[r] # None /\ ops[r].old /\ ops[r].state \in {"pending", "opened"}
    /\ ops' = [ops EXCEPT ![r].state = "uncertain"]
    /\ UNCHANGED <<invites, grants, hub, auto, calls, channels, funded, day, crashes>>

\* tick repairs the invite of a grant that became ready just before a crash.
RepairInvite(r) ==
    /\ hub = Idle /\ In(r, {"ready"})
    /\ invites[grants[r].invite].state \in {"pending", "opening"}
    /\ SetInvite(grants[r].invite, {"pending", "opening"}, "accepted")
    /\ UNCHANGED <<grants, ops, hub, auto, calls, channels, funded, day, crashes>>

\* The operator charges an uncertain operation (handlers/starter_hub.rs).
ResolveUncertain(r) ==
    /\ In(r, {"opening"}) /\ ops[r] # None /\ ops[r].state = "uncertain"
    /\ grants' = [grants EXCEPT ![r].state = "resolved"]
    /\ UNCHANGED <<invites, ops, hub, auto, calls, channels, funded, day, crashes>>

OperationAges(r) ==
    /\ In(r, {"opening"}) /\ ops[r] # None /\ ~ops[r].old /\ hub = Idle
    /\ ops' = [ops EXCEPT ![r].old = TRUE]
    /\ UNCHANGED <<invites, grants, hub, auto, calls, channels, funded, day, crashes>>

-----------------------------------------------------------------------------
(* The auto-channel worker *)

\* handle_peer_lightning_info: the subsidy is enabled and lists the peer.  The
\* fee, address and balance guards only return early.
handle_peer_lightning_info(p) ==
    /\ auto = Idle /\ p \in Subsidised
    /\ \E i \in find_pending_invite_for_invitee(p) : auto' = [at |-> "channels", invite |-> i]
    /\ UNCHANGED <<invites, grants, ops, hub, calls, channels, funded, day, crashes>>

\* The expiry guard, then existing_channel_to_peer.
AutoChannels ==
    /\ auto.at = "channels"
    /\ IF invites[auto.invite].expired
       THEN SetInvite(auto.invite, {"pending"}, "expired") /\ auto' = Idle
       ELSE /\ invites' = invites
            /\ auto' = [at |-> IF ChannelsOf(InviteeOf[auto.invite]) # {} THEN "already" ELSE "caps",
                        invite |-> auto.invite]
    /\ UNCHANGED <<grants, ops, hub, calls, channels, funded, day, crashes>>

AutoAlready ==
    /\ auto.at = "already"
    /\ SetInvite(auto.invite, {"pending", "opening"}, "accepted")
    /\ auto' = Idle
    /\ UNCHANGED <<grants, ops, hub, calls, channels, funded, day, crashes>>

\* The caps of the subsidy, from list_invites_issued.
SubsidyAllows(p) ==
    /\ Cardinality({i \in Invites : InviteeOf[i] = p /\ invites[i].state \in {"opening", "accepted"}})
           < PerPeer
    /\ Cardinality({i \in Invites : invites[i].state = "opening"}) + 1 <= SubsidyBudget

AutoCaps ==
    /\ auto.at = "caps"
    /\ auto' = IF SubsidyAllows(InviteeOf[auto.invite])
               THEN [at |-> "claim", invite |-> auto.invite] ELSE Idle
    /\ UNCHANGED <<invites, grants, ops, hub, calls, channels, funded, day, crashes>>

\* mark_invite_opening, then open_channel_with_funding is called.
AutoClaim ==
    /\ auto.at = "claim"
    /\ LET i == auto.invite IN
       IF invites[i].state = "pending"
       THEN /\ SetInvite(i, {"pending"}, "opening")
            /\ calls' = calls \cup {Open("auto", i, i)}
            /\ auto' = [at |-> "open", invite |-> i, o |-> Open("auto", i, i)]
       ELSE auto' = Idle /\ UNCHANGED <<invites, calls>>
    /\ UNCHANGED <<grants, ops, hub, channels, funded, day, crashes>>

AutoReturns ==
    /\ auto.at = "open"
    /\ \/ /\ auto.o \in funded
          /\ auto' = [at |-> "accept", invite |-> auto.invite] /\ calls' = calls
       \/ /\ auto.o \in calls
          /\ calls' = calls \ {auto.o} /\ auto' = [at |-> "undo", invite |-> auto.invite]
       \/ auto' = Idle /\ calls' = calls
    /\ UNCHANGED <<invites, grants, ops, hub, channels, funded, day, crashes>>

\* mark_invite_pending after proven non-dispatch.
AutoUndo ==
    /\ auto.at = "undo"
    /\ SetInvite(auto.invite, {"opening"}, "pending")
    /\ auto' = Idle
    /\ UNCHANGED <<grants, ops, hub, calls, channels, funded, day, crashes>>

AutoAccept ==
    /\ auto.at = "accept"
    /\ SetInvite(auto.invite, {"pending", "opening"}, "accepted")
    /\ auto' = Idle
    /\ UNCHANGED <<grants, ops, hub, calls, channels, funded, day, crashes>>

-----------------------------------------------------------------------------
(* The Lightning node, the clock and crashes *)

LnFunds(o) ==
    /\ o \in calls
    /\ calls' = calls \ {o} /\ funded' = funded \cup {o}
    /\ channels' = channels \cup {[o |-> o, ready |-> FALSE]}
    /\ UNCHANGED <<invites, grants, ops, hub, auto, day, crashes>>

LnReady(c) ==
    /\ c \in channels /\ ~c.ready
    /\ channels' = (channels \ {c}) \cup {[c EXCEPT !.ready = TRUE]}
    /\ UNCHANGED <<invites, grants, ops, hub, auto, calls, funded, day, crashes>>

LnCloses(c) ==
    /\ c \in channels
    /\ channels' = channels \ {c}
    /\ UNCHANGED <<invites, grants, ops, hub, auto, calls, funded, day, crashes>>

NextDay ==
    /\ day < LastDay /\ day' = day + 1
    /\ UNCHANGED <<invites, grants, ops, hub, auto, calls, channels, funded, crashes>>

\* The process stops: both tasks are gone, a call may still fund its channel.
Crash ==
    /\ crashes < MaxCrashes /\ crashes' = crashes + 1
    /\ <<hub, auto>> # <<Idle, Idle>>
    /\ hub' = Idle /\ auto' = Idle
    /\ UNCHANGED <<invites, grants, ops, calls, channels, funded, day>>

-----------------------------------------------------------------------------
\* A step of a handler or of the tick that is already running.
HubContinues ==
    \/ HandlePolicy \/ HandleAdmit
    \/ Claim \/ OpenReturns \/ RecordNonDispatch \/ RecordOpened \/ LearnChannel
    \/ ReconcileObserve \/ ReconcileSettle \/ ReconcileAccept

Auto ==
    \/ \E p \in Peers : handle_peer_lightning_info(p)
    \/ AutoChannels \/ AutoAlready \/ AutoCaps \/ AutoClaim \/ AutoReturns \/ AutoUndo \/ AutoAccept

Next ==
    \/ \E i \in Invites : create_invite(i) \/ revoke_invite(i) \/ InviteExpires(i)
    \/ \E p \in Peers, r \in Requests : handle(p, r)
    \/ \E r \in Requests :
           \/ dispatch(r) \/ reconcile(r) \/ MarkUncertain(r) \/ RepairInvite(r)
           \/ ResolveUncertain(r) \/ OperationAges(r)
    \/ DispatchWaits \/ HubContinues \/ Auto
    \/ \E o \in calls : LnFunds(o)
    \/ \E c \in channels : LnReady(c) \/ LnCloses(c)
    \/ NextDay \/ Crash

\* The tick comes around every 15 seconds and gives every grant its turn, even
\* when requests keep arriving.
Fairness ==
    /\ WF_vars(HubContinues)
    /\ \A r \in Requests : SF_vars(dispatch(r)) /\ SF_vars(RepairInvite(r))

Spec == Init /\ [][Next]_vars
FairSpec == Spec /\ Fairness

-----------------------------------------------------------------------------
\* "A grant alone never permits two openers" (starter.rs): an invite pays for at
\* most one channel, counting every open that may still fund one.
InviteOpensOnce ==
    \A o1, o2 \in calls \cup funded : o1.invite = o2.invite => o1 = o2

\* A refused grant has no channel and no open in doubt: its refund, and the new
\* request that may follow it, cannot spend the same money twice.
RefusedIsUnfunded ==
    \A o \in StarterOpens : Live(o.id)

\* Every starter channel that was or may be funded is covered by the lifetime
\* budget, and those admitted on one day by that day's cap, whatever crashed.
FundedWithinCaps ==
    /\ Cardinality(StarterOpens) <= Budget
    /\ \A d \in 0 .. LastDay :
           Cardinality({o \in StarterOpens : Live(o.id) /\ grants[o.id].day = d}) <= PerDay

\* "An expired admission must not reserve capital forever" (dispatch): once its
\* invite expired, or was revoked or taken by the other opener, an admission gives its
\* reservation back, unless the invite is pending again before the next tick.
StaleAdmissionReleased ==
    \A r \in Requests :
        (In(r, {"admitted"}) /\ ~Claimable(grants[r]))
            ~> (~In(r, {"admitted"}) \/ Claimable(grants[r]))

\* The invite of a ready grant is marked accepted in the end, crashes included,
\* so that the subsidy stops counting it as an open in flight.
ReadyInviteAccepted ==
    \A r \in Requests :
        In(r, {"ready"}) ~> (In(r, {"ready"}) /\ invites[grants[r].invite].state = "accepted")
===============================================================================

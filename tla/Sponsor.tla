------------------------------- MODULE Sponsor --------------------------------
(***************************************************************************)
(* The sponsor's ledger of introduction kits (handlers/sponsor.rs): one    *)
(* gift per kit, a rolling purse, approvals that pay through the Lightning *)
(* backend, and reconciliation.  Every read-modify-write of the ledger is  *)
(* one step under LEDGER_LOCK; the calls to the backend are between them.  *)
(*                                                                         *)
(* Cards, signatures, codes and invoices are taken as valid, and the       *)
(* approval is the owner's, so it carries no grant.  The wall clock may    *)
(* have been set back when a call reads it.                                *)
(***************************************************************************)
EXTENDS Naturals, Sequences, FiniteSets, FiniteSetsExt

CONSTANTS
    Gift, Fee,      \* gift_msat and fee_msat of the policy
    Purse,          \* purse_msat
    PerDay,         \* kits_per_day
    Day,            \* DAY_SECS
    Lifetime,       \* OFFER_LIFETIME_SECS
    MaxKits, MaxTime

VARIABLES
    kits,       \* Ledger.kits, oldest first
    observed,   \* last_observed_time
    offers,     \* two POST /sponsor/offer calls: the expiry signed, 0 when idle
    call,       \* per kit, where its approval is; the marker ActiveDispatch with it
    look,       \* two POST /sponsor/kits/{id}/reconcile calls: the kit, and where each is
    backend,    \* per kit, the backend's outgoing record for the invoice
    stamp,      \* history: per kit, ledger time when the gift settled
    now

vars == <<kits, observed, offers, call, look, backend, stamp, now>>

KitIds == 1 .. MaxKits
Unset == MaxTime + 1
Kit(expires) ==
    [state |-> "offered", expires_at |-> expires, approved_at |-> Unset, settled_at |-> Unset,
     fresh |-> FALSE, reserved |-> 0, paid |-> 0]
NoRecord == [status |-> "none", fee |-> 0]
NotLooking == [at |-> "idle", kit |-> 0, record |-> NoRecord]
States == {"offered", "candidate", "paying", "funded", "failed", "unknown", "cancelled", "expired"}
Records == [status : {"none", "in_flight", "settled", "failed"}, fee : 0 .. Fee]

\* Every variable has its type: reservations are whole, and times are observed ones.
TypeOK ==
    /\ Len(kits) <= MaxKits
    /\ \A k \in DOMAIN kits :
           kits[k] \in [state : States, expires_at : 0 .. MaxTime + Lifetime, approved_at : 0 .. Unset,
                        settled_at : 0 .. Unset, fresh : BOOLEAN, reserved : {0, Gift + Fee},
                        paid : 0 .. Gift + Fee]
    /\ observed \in 0 .. MaxTime /\ offers \in [1 .. 2 -> 0 .. MaxTime + Lifetime]
    /\ call \in [KitIds -> {"none", "preflight", "dispatch", "wait", "refused"}]
    /\ look \in [1 .. 2 -> [at : {"idle", "snapshot", "found"}, kit : 0 .. MaxKits, record : Records]]
    /\ backend \in [KitIds -> Records]
    /\ stamp \in [KitIds -> 0 .. Unset] /\ now \in 0 .. MaxTime

Init ==
    /\ kits = <<>> /\ observed = 0 /\ offers = [o \in 1 .. 2 |-> 0]
    /\ call = [k \in KitIds |-> "none"] /\ look = [l \in 1 .. 2 |-> NotLooking]
    /\ backend = [k \in KitIds |-> NoRecord]
    /\ stamp = [k \in KitIds |-> Unset] /\ now = 0

-----------------------------------------------------------------------------
(* Kit and Ledger *)

\* observe: the time never goes back, and an offer past it is closed for good.
Advance(wall) == IF wall >= observed THEN wall ELSE observed
observe(ks, t) ==
    [k \in DOMAIN ks |->
        IF ks[k].state \in {"offered", "candidate"} /\ ks[k].expires_at <= t
        THEN [ks[k] EXCEPT !.state = "expired"] ELSE ks[k]]

Within(at, t) == at # Unset /\ at + Day > t
open(kit, t) ==
    \/ kit.state \in {"offered", "candidate"} /\ kit.expires_at > t
    \/ kit.state \in {"paying", "unknown"}
    \/ kit.state = "funded" /\ kit.reserved > 0

charge(kit, t) ==
    IF kit.state \in {"paying", "unknown"} \/ (kit.state = "funded" /\ kit.reserved > 0) THEN kit.reserved
    ELSE IF kit.state = "funded" /\ Within(kit.settled_at, t) THEN kit.paid
    ELSE 0

purse_used(ks, t) == MapThenSumSet(LAMBDA k : charge(ks[k], t), DOMAIN ks)
kits_today(ks, t) == Cardinality({k \in DOMAIN ks : Within(ks[k].approved_at, t)})
active(ks, t) == Cardinality({k \in DOMAIN ks : open(ks[k], t)})
check_room(ks, t) == kits_today(ks, t) < PerDay /\ purse_used(ks, t) + Gift + Fee <= Purse
check_new_kit(ks, t) == active(ks, t) < 1 /\ check_room(ks, t)

\* A call takes the lock, reads the clock and saves the ledger as observed, with
\* or without an edit.
Locked(wall) == observed' = Advance(wall)
Clocks == {0, now}

\* record_outcome
Closed(kit) == kit.state \in {"failed", "cancelled", "expired"} \/ (kit.state = "funded" /\ kit.reserved = 0)

FinalFailure(kit, from_dispatch) == kit.state # "funded" /\ (from_dispatch \/ kit.fresh)

record_outcome(kit, result, fee, t, from_dispatch) ==
    CASE Closed(kit) -> {kit}
      [] ~Closed(kit) /\ result = "settled" ->
            {[kit EXCEPT !.state = "funded", !.paid = Gift + fee, !.reserved = 0,
                         !.settled_at = IF t >= kit.approved_at THEN t ELSE kit.approved_at],
             [kit EXCEPT !.state = "funded", !.paid = Gift, !.reserved = Gift + Fee]}   \* fee not reported
      [] ~Closed(kit) /\ result = "failed" /\ FinalFailure(kit, from_dispatch) ->
            {[kit EXCEPT !.state = "failed", !.reserved = 0]}
      [] ~Closed(kit) /\ result = "not_dispatched" /\ kit.state # "funded" ->
            {[kit EXCEPT !.state = "failed", !.reserved = 0]}
      [] OTHER -> {[kit EXCEPT !.state = IF @ = "funded" THEN @ ELSE "unknown"]}

-----------------------------------------------------------------------------
(* The owner's calls *)

\* create_offer: a first check, then the card is signed, then the check again
\* with the push.
OfferChecks(o) ==
    /\ offers[o] = 0 /\ (o = 2 => offers[1] > 0)   \* which of two idle calls it is does not matter
    /\ \E wall \in Clocks :
        LET t == Advance(wall) IN
        /\ Locked(wall)
        /\ kits' = observe(kits, t)
        /\ offers' = [offers EXCEPT ![o] = IF check_new_kit(kits', t) THEN t + Lifetime ELSE 0]
    /\ UNCHANGED <<call, look, backend, stamp, now>>

create_offer(o) ==
    /\ offers[o] > 0 /\ offers' = [offers EXCEPT ![o] = 0] /\ Len(kits) < MaxKits
    /\ \E wall \in Clocks :
        LET t == Advance(wall)
            seen == observe(kits, t) IN
        /\ Locked(wall)
        /\ kits' = IF check_new_kit(seen, t) /\ offers[o] > t THEN Append(seen, Kit(offers[o])) ELSE seen
    /\ UNCHANGED <<call, look, backend, stamp, now>>

\* add_candidate freezes one request, whose invoice may expire before the offer;
\* cancel withdraws a kit that was not dispatched.
add_candidate(k) ==
    /\ k \in DOMAIN kits
    /\ \E wall \in Clocks, left \in 1 .. Lifetime :
        LET t == Advance(wall)
            seen == observe(kits, t) IN
        /\ Locked(wall)
        /\ kits' = IF seen[k].state = "offered"
                   THEN [seen EXCEPT ![k].state = "candidate",
                                     ![k].expires_at = IF t + left < @ THEN t + left ELSE @]
                   ELSE seen
    /\ UNCHANGED <<offers, call, look, backend, stamp, now>>

cancel(k) ==
    /\ k \in DOMAIN kits
    /\ \E wall \in Clocks :
        LET seen == observe(kits, Advance(wall)) IN
        /\ Locked(wall)
        /\ kits' = IF seen[k].state \in {"offered", "candidate"}
                   THEN [seen EXCEPT ![k].state = "cancelled"] ELSE seen
    /\ UNCHANGED <<offers, call, look, backend, stamp, now>>

\* approve_owner up to the first await: the claim, its reservation and the marker.
approve_owner(k) ==
    /\ k \in DOMAIN kits
    /\ \E wall \in Clocks :
        LET t == Advance(wall)
            seen == observe(kits, t)
            ok == seen[k].state = "candidate" /\ active(seen, t) <= 1 /\ check_room(seen, t) IN
        /\ Locked(wall)
        /\ kits' = IF ok THEN [seen EXCEPT ![k].state = "paying", ![k].approved_at = t,
                                          ![k].reserved = Gift + Fee]
                   ELSE seen
        /\ call' = [call EXCEPT ![k] = IF ok THEN "preflight" ELSE @]
    /\ UNCHANGED <<offers, look, backend, stamp, now>>

\* Only an invoice without any payment record goes on.
Preflight(k) ==
    /\ call[k] = "preflight"
    /\ IF backend[k].status = "none"
       THEN \E wall \in Clocks :
                /\ Locked(wall)
                /\ kits' = [observe(kits, Advance(wall)) EXCEPT ![k].fresh = TRUE]
                /\ call' = [call EXCEPT ![k] = "dispatch"]
       ELSE call' = [call EXCEPT ![k] = "refused"] /\ UNCHANGED <<kits, observed>>
    /\ UNCHANGED <<offers, look, backend, stamp, now>>

Dispatch(k) ==
    /\ call[k] = "dispatch"
    /\ \E wall \in Clocks :
        LET t == Advance(wall) IN
        /\ Locked(wall)
        /\ kits' = observe(kits, t)
        /\ IF t >= kits[k].expires_at
           THEN call' = [call EXCEPT ![k] = "refused"] /\ UNCHANGED backend
           ELSE \/ /\ call' = [call EXCEPT ![k] = "wait"]
                   /\ backend' = [backend EXCEPT ![k] = [NoRecord EXCEPT !.status = "in_flight"]]
                \/ call' = [call EXCEPT ![k] = "refused"] /\ UNCHANGED backend
    /\ UNCHANGED <<offers, look, stamp, now>>

\* The backend's answer, or none in time, is recorded and the marker dropped.
DispatchReturns(k) ==
    /\ call[k] \in {"wait", "refused"}
    /\ \E wall \in Clocks,
          result \in IF call[k] = "refused" THEN {"not_dispatched"} ELSE {backend[k].status, "error"} :
        LET t == Advance(wall)
            seen == observe(kits, t) IN
        /\ Locked(wall)
        /\ \E kit \in record_outcome(seen[k], result, backend[k].fee, t, TRUE) :
               kits' = [seen EXCEPT ![k] = kit]
    /\ call' = [call EXCEPT ![k] = "none"]
    /\ UNCHANGED <<offers, look, backend, stamp, now>>

\* The caller hangs up, or the node restarts.
Abandons(k) ==
    /\ call[k] # "none"
    /\ call' = [call EXCEPT ![k] = "none"]
    /\ UNCHANGED <<kits, observed, offers, look, backend, stamp, now>>

\* Mutant: a reconciliation does not care for a dispatch under way.
Undecided_Live(k, kit) == kit.state \in {"unknown", "paying", "funded"} /\ ~Closed(kit)

\* A kit whose outcome a lookup may settle: dispatched, not final, and no live caller.
Undecided(k, kit) == kit.state \in {"unknown", "paying", "funded"} /\ ~Closed(kit) /\ call[k] = "none"

\* reconcile: a snapshot, the lookup, and the outcome recorded on the ledger as it
\* is by then.
reconcile(l, k) ==
    /\ k \in DOMAIN kits /\ look[l].at = "idle" /\ (l = 2 => look[1].at # "idle")
    /\ \E wall \in Clocks :
        /\ Locked(wall)
        /\ kits' = observe(kits, Advance(wall))
        /\ look' = IF Undecided(k, kits'[k])
                   THEN [look EXCEPT ![l] = [NotLooking EXCEPT !.at = "snapshot", !.kit = k]] ELSE look
    /\ UNCHANGED <<offers, call, backend, stamp, now>>

Lookup(l) ==
    /\ look[l].at = "snapshot"
    /\ look' = [look EXCEPT ![l].at = "found", ![l].record = backend[look[l].kit]]
    /\ UNCHANGED <<kits, observed, offers, call, backend, stamp, now>>

Reconciled(l) ==
    LET k == look[l].kit
        record == look[l].record IN
    /\ look[l].at = "found"
    /\ \E wall \in Clocks :
        LET t == Advance(wall)
            seen == observe(kits, t)
            result == IF record.status = "none" THEN "error" ELSE record.status IN
        /\ Locked(wall)
        /\ \E kit \in record_outcome(seen[k], result, record.fee, t, FALSE) :
               kits' = [seen EXCEPT ![k] = kit]
    /\ look' = [look EXCEPT ![l] = NotLooking]
    /\ UNCHANGED <<offers, call, backend, stamp, now>>

-----------------------------------------------------------------------------
\* The payment finishes at the backend.
Settles(k) ==
    /\ backend[k].status = "in_flight"
    /\ \/ \E fee \in 0 .. Fee : backend' = [backend EXCEPT ![k] = [status |-> "settled", fee |-> fee]]
       \/ backend' = [backend EXCEPT ![k].status = "failed"]
    /\ stamp' = [stamp EXCEPT ![k] = IF backend'[k].status = "settled" THEN observed ELSE @]
    /\ UNCHANGED <<kits, observed, offers, call, look, now>>

\* The same invoice is tried by hand, and fails.
OtherAttempt(k) ==
    /\ k \in DOMAIN kits /\ kits[k].state \notin {"offered", "expired", "cancelled"}
    /\ backend[k].status = "none"
    /\ backend' = [backend EXCEPT ![k].status = "failed"]
    /\ UNCHANGED <<kits, observed, offers, call, look, stamp, now>>

Tick == now < MaxTime /\ now' = now + 1 /\ UNCHANGED <<kits, observed, offers, call, look, backend, stamp>>

Next ==
    \/ Tick \/ \E o \in 1 .. 2 : OfferChecks(o) \/ create_offer(o)
    \/ \E k \in KitIds :
        \/ add_candidate(k) \/ cancel(k) \/ approve_owner(k)
        \/ Preflight(k) \/ Dispatch(k) \/ DispatchReturns(k) \/ Abandons(k)
        \/ Settles(k) \/ OtherAttempt(k)
    \/ \E l \in 1 .. 2 : Lookup(l) \/ Reconciled(l) \/ \E k \in KitIds : reconcile(l, k)

Spec == Init /\ [][Next]_vars

-----------------------------------------------------------------------------
\* The rolling purse: by the ledger's time, the gifts and fees that settled in any
\* day stay within it, whatever was unknown, abandoned or reconciled late, and
\* "clock rollback cannot refresh the purse".
PurseBounded ==
    MapThenSumSet(LAMBDA k : Gift + backend[k].fee,
                  {k \in KitIds : backend[k].status = "settled" /\ Within(stamp[k], observed)}) <= Purse

\* "Definitively not paid": the gift of a closed kit is neither paid nor under way,
\* so a failed kit may be answered with a new offer.
FailedIsUnpaid ==
    \A k \in DOMAIN kits :
        kits[k].state \in {"failed", "cancelled", "expired"} => backend[k].status \in {"none", "failed"}

\* "Opens the one active kit": two offers at once do not open two.
OneOpenKit == active(kits, observed) <= 1
===============================================================================

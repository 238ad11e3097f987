----------------------------- MODULE ResendPacing -----------------------------
(***************************************************************************)
(* How the recovery sweep paces the resends of one paid operation:         *)
(* recover_paid, Pace and resend_delay of                                  *)
(* crates/konsensus-api/src/handlers/messages/operations.rs.  The row and  *)
(* the resend itself are in module Operations.                             *)
(*                                                                         *)
(* Time is counted in units of RESEND_BASE / 2.  "age" is the time since   *)
(* the last attempt read the clock, so pace.due has passed when            *)
(* age >= pace.delay.                                                      *)
(***************************************************************************)
EXTENDS Naturals

CONSTANTS
    ResendBase,     \* RESEND_BASE in time units, positive
    ResendCap,      \* RESEND_CAP in time units, at least RESEND_BASE
    MaxConns,       \* bound on connections of the peer
    MaxRestarts,    \* bound on restarts of the node
    None

VARIABLES
    state,      \* "paid" while the sweep may resend, else "sent"
    link,       \* the peer's live connection, Offline without one
    conns,      \* connections so far
    pace,       \* Pace of the operation, None without an entry
    sweep,      \* "idle", "asked" after is_connected, "sending" during the resend
    seen,       \* the link that a running resend saw
    age,        \* time since the last attempt began
    last,       \* link of the last attempt, if it failed in this process
    restarts

vars == <<state, link, conns, pace, sweep, seen, age, last, restarts>>

Offline == 0
NoSince == MaxConns + 1     \* Online(None): the connection is gone again
Links   == 0 .. NoSince

\* Doublings saturate far above the cap; the model stops counting there.
MaxFailures == 16

Min(a, b) == IF a <= b THEN a ELSE b

ResendBaseOf(failures) ==
    Min(ResendBase * 2 ^ Min(IF failures = 0 THEN 0 ELSE failures - 1, 16), ResendCap)

\* Jitter in [base/2, base], fixed by a hash of the operation id.
ResendDelays(failures) ==
    LET base == ResendBaseOf(failures) IN (base \div 2) .. base

TypeOK ==
    /\ state \in {"paid", "sent"}
    /\ link \in 0 .. MaxConns /\ conns \in 0 .. MaxConns
    /\ pace # None => /\ pace.failures \in 0 .. MaxFailures /\ pace.delay \in 0 .. ResendCap
                      /\ pace.link \in Links
    /\ sweep \in {"idle", "asked", "sending"}
    /\ seen \in Links
    /\ age \in 0 .. ResendCap
    /\ last \in Links
    /\ restarts \in 0 .. MaxRestarts

Init ==
    /\ state = "paid" /\ link = Offline /\ conns = 0
    /\ pace = None /\ sweep = "idle" /\ seen = Offline
    /\ age = ResendCap /\ last = Offline
    /\ restarts = 0

-----------------------------------------------------------------------------
(* recover_paid *)

\* is_connected, then connected_since: the connection may drop in between.
SweepAsks ==
    /\ state = "paid" /\ sweep = "idle"
    /\ link # Offline
    /\ sweep' = "asked"
    /\ UNCHANGED <<state, link, conns, pace, seen, age, last, restarts>>

\* Nothing is sent while offline; the entry makes the next connection count as
\* a reconnect.
SweepOffline ==
    /\ state = "paid" /\ sweep = "idle"
    /\ link = Offline
    /\ pace' = IF pace = None THEN [failures |-> 0, delay |-> 0, link |-> Offline]
               ELSE [pace EXCEPT !.link = Offline]
    /\ UNCHANGED <<state, link, conns, sweep, seen, age, last, restarts>>

Since == IF link = Offline THEN NoSince ELSE link
Reconnected == pace # None /\ Since # pace.link
NotDue == pace # None /\ ~Reconnected /\ age < pace.delay

\* Mutant: every sweep sets the deadline anew.
SweepWaits_Rearms ==
    /\ sweep = "asked"
    /\ NotDue
    /\ sweep' = "idle"
    /\ age' = 0
    /\ UNCHANGED <<state, link, conns, pace, seen, last, restarts>>

SweepWaits ==
    /\ sweep = "asked"
    /\ NotDue
    /\ sweep' = "idle"
    /\ UNCHANGED <<state, link, conns, pace, seen, age, last, restarts>>

\* A new connection forgets the backoff.
SweepResends ==
    /\ sweep = "asked"
    /\ ~NotDue
    /\ pace' = IF Reconnected THEN None ELSE pace
    /\ sweep' = "sending"
    /\ seen' = Since
    /\ age' = 0
    /\ UNCHANGED <<state, link, conns, last, restarts>>

\* The connection may have changed while the resend ran.
ResendSucceeds ==
    /\ sweep = "sending" /\ link # Offline
    /\ state' = "sent"
    /\ sweep' = "idle"
    /\ pace' = None
    /\ last' = Offline
    /\ UNCHANGED <<link, conns, seen, age, restarts>>

Failures == Min((IF pace = None THEN 0 ELSE pace.failures) + 1, MaxFailures)

ResendFails ==
    /\ sweep = "sending"
    /\ \E delay \in ResendDelays(Failures) :
         pace' = [failures |-> Failures, delay |-> delay, link |-> seen]
    /\ sweep' = "idle"
    /\ last' = seen
    /\ UNCHANGED <<state, link, conns, seen, age, restarts>>

-----------------------------------------------------------------------------
(* Around the sweep *)

\* A caller's own resend of the operation; it runs under the operation lock and
\* leaves the pace alone.
CallerResends ==
    /\ state = "paid" /\ sweep = "idle" /\ link # Offline
    /\ state' = "sent"
    /\ last' = Offline
    /\ UNCHANGED <<link, conns, pace, sweep, seen, age, restarts>>

\* prune_paces: the operation is not among the recoverable ones.
PrunePaces ==
    /\ state = "sent" /\ sweep = "idle"
    /\ pace # None /\ pace' = None
    /\ UNCHANGED <<state, link, conns, sweep, seen, age, last, restarts>>

\* The flusher returns a retryably rejected operation to paid.
Rejected ==
    /\ state = "sent"
    /\ state' = "paid"
    /\ UNCHANGED <<link, conns, pace, sweep, seen, age, last, restarts>>

Connect ==
    /\ link = Offline /\ conns < MaxConns
    /\ conns' = conns + 1 /\ link' = conns + 1
    /\ UNCHANGED <<state, pace, sweep, seen, age, last, restarts>>

Disconnect ==
    /\ link # Offline
    /\ link' = Offline
    /\ UNCHANGED <<state, conns, pace, sweep, seen, age, last, restarts>>

Tick ==
    /\ age < ResendCap
    /\ age' = age + 1
    /\ UNCHANGED <<state, link, conns, pace, sweep, seen, last, restarts>>

\* The map of paces is a static of the process.
Restart ==
    /\ restarts < MaxRestarts
    /\ restarts' = restarts + 1
    /\ pace' = None /\ sweep' = "idle" /\ link' = Offline /\ last' = Offline
    /\ UNCHANGED <<state, conns, seen, age>>

Next ==
    \/ SweepAsks \/ SweepOffline \/ SweepWaits \/ SweepResends \/ ResendSucceeds \/ ResendFails
    \/ CallerResends \/ PrunePaces \/ Rejected \/ Connect \/ Disconnect \/ Tick \/ Restart

\* The sweep runs every few seconds, a resend returns, the clock advances.
Fairness ==
    /\ WF_vars(SweepAsks) /\ WF_vars(SweepWaits) /\ WF_vars(SweepResends)
    /\ WF_vars(ResendSucceeds \/ ResendFails)
    /\ WF_vars(Tick)

Spec == Init /\ [][Next]_vars /\ Fairness

-----------------------------------------------------------------------------
(* Properties *)

Attempt == sweep = "asked" /\ sweep' = "sending"

\* After a failed resend the next attempt on the same connection comes no sooner
\* than half of RESEND_BASE later ("does not retry in lockstep").
Spaced == [][Attempt /\ seen' = last /\ last # NoSince => age >= ResendBase \div 2]_vars

\* While its peer stays connected a paid operation is attempted again and again,
\* until it is sent: no pace, link change or restart makes the sweep skip it for
\* good.
Attempts == sweep = "sending" \/ state # "paid" \/ link = Offline
KeepsTrying == []<>Attempts
====

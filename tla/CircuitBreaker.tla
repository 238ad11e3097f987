---------------------------- MODULE CircuitBreaker ----------------------------
(***************************************************************************)
(* The decorator of crates/konsensus-lightning/src/circuit_breaker.rs that *)
(* bounds the settlement lookups of the receive path: get_payment_status   *)
(* run by concurrent callers, with its breaker state, its slots and its    *)
(* cache of non-settled results.                                           *)
(*                                                                         *)
(* A caller is cut where get_payment_status awaits (the slot, the backend) *)
(* and between the separate locks it takes afterwards.  It may be dropped  *)
(* at each await.  Time is abstracted: an open circuit and a cache entry   *)
(* may expire at any step.                                                 *)
(***************************************************************************)
EXTENDS Integers, FiniteSets

CONSTANTS
    Callers,        \* concurrent callers of get_payment_status
    Hashes,         \* payment hashes they ask about
    Threshold,      \* failure_threshold
    MaxConcurrent,  \* max_concurrent slots
    CacheCap,       \* negative_cache_cap
    MaxFaults,      \* bound on failed lookups
    None            \* a caller outside get_payment_status asks about no hash

ASSUME BreakerAssumption ==
    /\ Threshold \in Nat \ {0}
    /\ MaxConcurrent \in Nat \ {0}
    /\ CacheCap \in Nat
    /\ MaxFaults \in Nat

VARIABLES
    failures,   \* BreakerState.consecutive_failures
    circuit,    \* open_until: "closed" is None, "open" in the future, "elapsed" passed
    gen,        \* BreakerState.generation
    probing,    \* BreakerState.probe_in_flight
    call,       \* per caller: where get_payment_status is, and its CallGuard
    cache,      \* neg_cache: per hash no entry, a fresh or an expired one
    settled,    \* hashes the backend reports as settled
    faults      \* failed lookups so far

breaker == <<failures, circuit, gen, probing>>
vars    == <<breaker, call, cache, settled, faults>>

\* A caller holds a slot from "calling" to the end, and a CallGuard with it.
Phases == {"idle", "waiting", "calling", "caching", "leaving"}
Calls  == [pc : Phases, hash : Hashes \cup {None}, gen : Nat, probe : BOOLEAN]
Returned == [pc |-> "idle", hash |-> None, gen |-> 0, probe |-> FALSE]

TypeOK ==
    /\ failures \in Nat
    /\ circuit \in {"closed", "open", "elapsed"}
    /\ gen \in Nat
    /\ probing \in BOOLEAN
    /\ call \in [Callers -> Calls]
    /\ cache \in [Hashes -> {"none", "fresh", "stale"}]
    /\ settled \subseteq Hashes
    /\ faults \in 0 .. MaxFaults

Init ==
    /\ failures = 0 /\ circuit = "closed" /\ gen = 0 /\ probing = FALSE
    /\ call = [c \in Callers |-> Returned]
    /\ cache = [h \in Hashes |-> "none"]
    /\ settled = {}
    /\ faults = 0

-----------------------------------------------------------------------------
(* The breaker *)

Available == ~probing /\ circuit # "open"

\* Old calls and waits for a slot cannot change an open circuit; only its probe
\* restarts the cooldown.
RecordFailure(g, probe) ==
    IF gen # g \/ (circuit # "closed" /\ ~probe)
    THEN UNCHANGED breaker
    ELSE /\ failures' = failures + 1
         /\ IF failures + 1 >= Threshold
            THEN circuit' = "open" /\ gen' = gen + 1 /\ probing' = FALSE
            ELSE UNCHANGED <<circuit, gen, probing>>

\* Mutant: the success of a call admitted before the circuit opened closes it.
RecordSuccess_AnyGeneration(g) ==
    /\ failures' = 0
    /\ circuit' = "closed"
    /\ gen' = IF circuit = "closed" THEN gen ELSE gen + 1
    /\ probing' = FALSE

\* Mutant: a probe that succeeds leaves open_until set.
RecordSuccess_StaysOpen(g) ==
    IF gen # g
    THEN UNCHANGED breaker
    ELSE failures' = 0 /\ probing' = FALSE /\ UNCHANGED <<circuit, gen>>

RecordSuccess(g) ==
    IF gen # g
    THEN UNCHANGED breaker
    ELSE /\ failures' = 0
         /\ circuit' = "closed"
         /\ gen' = IF circuit = "closed" THEN gen ELSE gen + 1
         /\ probing' = FALSE

\* Mutant: no Drop for CallGuard, a dropped caller keeps the reservation.
DropGuard_Forgotten(k) == UNCHANGED breaker

\* Drop for CallGuard.
DropGuard(k) ==
    /\ probing' = IF k.probe /\ gen = k.gen THEN FALSE ELSE probing
    /\ UNCHANGED <<failures, circuit, gen>>

-----------------------------------------------------------------------------
(* get_payment_status *)

Goto(c, pc) == call' = [call EXCEPT ![c].pc = pc]
Return(c)   == call' = [call EXCEPT ![c] = Returned]

\* The circuit is available: a fresh non-settled entry answers at once, an
\* expired one is removed.
Lookup(c, h) ==
    /\ call[c].pc = "idle"
    /\ Available
    /\ cache[h] # "fresh"
    /\ cache' = [cache EXCEPT ![h] = "none"]
    /\ call' = [call EXCEPT ![c] = [pc |-> "waiting", hash |-> h, gen |-> gen, probe |-> FALSE]]
    /\ UNCHANGED <<breaker, settled, faults>>

Slots == {c \in Callers : call[c].pc \in {"calling", "caching", "leaving"}}

\* Every slot is taken or promised to another waiter.
SlotTimeout(c) ==
    /\ call[c].pc = "waiting"
    /\ Cardinality(Slots \cup {d \in Callers \ {c} : call[d].pc = "waiting"}) >= MaxConcurrent
    /\ faults < MaxFaults
    /\ faults' = faults + 1
    /\ RecordFailure(call[c].gen, FALSE)
    /\ Return(c)
    /\ UNCHANGED <<cache, settled>>

\* Mutant: every caller that waited runs, without a second check.
AdmitCall_NoRecheck(c) ==
    /\ call[c].pc = "waiting"
    /\ Cardinality(Slots) < MaxConcurrent
    /\ call' = [call EXCEPT ![c].pc = "calling", ![c].gen = gen, ![c].probe = circuit # "closed"]
    /\ probing' = (circuit # "closed")
    /\ UNCHANGED <<failures, circuit, gen, cache, settled, faults>>

\* A slot is free: admit_call checks again and reserves the probe.
AdmitCall(c) ==
    /\ call[c].pc = "waiting"
    /\ Cardinality(Slots) < MaxConcurrent
    /\ IF Available
       THEN /\ call' = [call EXCEPT ![c].pc = "calling", ![c].gen = gen, ![c].probe = circuit # "closed"]
            /\ probing' = (circuit # "closed")
       ELSE Return(c) /\ UNCHANGED probing
    /\ UNCHANGED <<failures, circuit, gen, cache, settled, faults>>

\* The backend fails, or the call times out.
CallFails(c) ==
    /\ call[c].pc = "calling"
    /\ faults < MaxFaults
    /\ faults' = faults + 1
    /\ RecordFailure(call[c].gen, call[c].probe)
    /\ Goto(c, "leaving")
    /\ UNCHANGED <<cache, settled>>

\* The backend answers; only a non-settled answer is cached.
CallAnswers(c) ==
    /\ call[c].pc = "calling"
    /\ RecordSuccess(call[c].gen)
    /\ Goto(c, IF call[c].hash \in settled THEN "leaving" ELSE "caching")
    /\ UNCHANGED <<cache, settled, faults>>

Cached == {h \in Hashes : cache[h] # "none"}

\* neg_cache_put: a full cache first forgets what expired, then gives up.
CachePut(c) ==
    LET h    == call[c].hash
        kept == IF Cardinality(Cached) >= CacheCap
                THEN [g \in Hashes |-> IF cache[g] = "stale" THEN "none" ELSE cache[g]] ELSE cache
    IN
    /\ call[c].pc = "caching"
    /\ cache' = IF Cardinality({g \in Hashes : kept[g] # "none"}) >= CacheCap
                THEN kept ELSE [kept EXCEPT ![h] = "fresh"]
    /\ Goto(c, "leaving")
    /\ UNCHANGED <<breaker, settled, faults>>

Leave(c) ==
    /\ call[c].pc = "leaving"
    /\ DropGuard(call[c])
    /\ Return(c)
    /\ UNCHANGED <<cache, settled, faults>>

\* The caller is dropped at an await.
Cancel(c) ==
    /\ call[c].pc \in {"waiting", "calling"}
    /\ IF call[c].pc = "calling" THEN DropGuard(call[c]) ELSE UNCHANGED breaker
    /\ Return(c)
    /\ UNCHANGED <<cache, settled, faults>>

-----------------------------------------------------------------------------
(* Time and the backend *)

CooldownElapses ==
    /\ circuit = "open"
    /\ circuit' = "elapsed"
    /\ UNCHANGED <<failures, gen, probing, call, cache, settled, faults>>

EntryExpires(h) ==
    /\ cache[h] = "fresh"
    /\ cache' = [cache EXCEPT ![h] = "stale"]
    /\ UNCHANGED <<breaker, call, settled, faults>>

Settles(h) ==
    /\ h \notin settled
    /\ settled' = settled \cup {h}
    /\ UNCHANGED <<breaker, call, cache, faults>>

Ends(c) == CallFails(c) \/ CallAnswers(c)

Next ==
    \/ \E c \in Callers :
        \/ \E h \in Hashes : Lookup(c, h)
        \/ SlotTimeout(c) \/ AdmitCall(c) \/ Ends(c) \/ CachePut(c) \/ Leave(c) \/ Cancel(c)
    \/ CooldownElapses
    \/ \E h \in Hashes : EntryExpires(h) \/ Settles(h)

Spec == Init /\ [][Next]_vars

\* Tokio runs what is ready and the two timeouts end every await, peers keep
\* asking, and the clock advances.  Strong fairness: a caller that is dropped now
\* and then (at a closing connection) is not dropped every time.
Fairness ==
    /\ WF_vars(CooldownElapses)
    /\ \A h \in Hashes : WF_vars(EntryExpires(h))
    /\ \A c \in Callers :
        /\ WF_vars(\E h \in Hashes : Lookup(c, h))
        /\ WF_vars(CachePut(c)) /\ WF_vars(Leave(c))
        /\ SF_vars(AdmitCall(c)) /\ SF_vars(CallAnswers(c))
FairSpec == Spec /\ Fairness

-----------------------------------------------------------------------------
(* Properties *)

\* The callers whose backend lookup the current generation admitted.
Running == {c \in Callers : call[c].pc = "calling" /\ call[c].gen = gen}

\* The half-open reservation is never stranded: while probe_in_flight is set the
\* circuit is half-open and one running call owns the reservation, whatever
\* callers were dropped ("a dropped caller cannot strand the circuit half-open").
ProbeHasOwner ==
    probing => circuit = "elapsed" /\ \E c \in Running : call[c].probe

\* A tripped circuit lets a single lookup of its generation reach the backend,
\* and none before its cooldown is over.
OneProbe ==
    /\ circuit = "open" => Running = {}
    /\ circuit = "elapsed" => \A c, d \in Running : c = d

\* A tripped circuit is closed by the answer to its own probe only: calls
\* admitted before it tripped finish without changing it.
ClosedByProbe ==
    [][circuit # "closed" /\ circuit' = "closed" =>
            \E c \in Running : call[c].probe /\ call'[c].pc # "calling"]_vars

\* Failures trip the circuit and nothing else does: it is tripped exactly while
\* the failures counted since the last success reached the threshold.
TrippedByFailures == circuit # "closed" <=> failures >= Threshold

\* Once the backend stops failing (MaxFaults) the circuit closes for good: no
\* probe is lost in a way that keeps a healthy backend locked out.
Recovers == <>[](circuit = "closed")

====

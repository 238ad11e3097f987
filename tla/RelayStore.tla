------------------------------ MODULE RelayStore ------------------------------
(***************************************************************************)
(* The relay engine (relay/engine.rs) over the durable SqliteRelayStore    *)
(* (relay/store.rs): byte accounting in a column of its own, lazy pruning, *)
(* a persistent sequence counter, and a register cooldown that lives in    *)
(* memory.  The receive loop hands over one control message at a time, so  *)
(* an operation of the engine is a step; a backend error leaves no trace   *)
(* of the transaction that met it.  Implements module Relay.               *)
(***************************************************************************)
EXTENDS Naturals, FiniteSets, FiniteSetsExt

CONSTANTS
    Nodes, Messages, Sizes, Quotas, Ttls,
    MaxBindings, MaxQuota, PerDepositor,
    Cooldown,       \* RELAY_REGISTER_COOLDOWN
    MaxTime,        \* bound on the clock
    MaxDeposits,    \* bound on the deposits to one binding
    None

VARIABLES
    bindings,   \* relay_bindings and relay_held by recipient, None without a binding
    cooldowns,  \* register_cooldowns: time of the last admitted registration
    opened,     \* history: times of the registrations since the last start
    now

vars == <<bindings, cooldowns, opened, now>>

Held == [seq : Nat, id : Messages, by : Nodes, size : Sizes, expires : Nat]
Rows == [quota : Quotas, next_sequence : Nat, held : SUBSET Held, held_bytes : Nat]
Boxes == [quota : Quotas, next : Nat, held : SUBSET Held]

\* Sizes, quotas and lifetimes are unsigned integers, and None is no row.
RelayConstants ==
    /\ Sizes \subseteq Nat /\ Quotas \subseteq Nat /\ Ttls \subseteq Nat
    /\ MaxQuota \in Nat /\ PerDepositor \in Nat /\ Cooldown \in Nat
    /\ MaxTime \in Nat /\ MaxDeposits \in Nat
    /\ None \notin Rows /\ None \notin Boxes
ASSUME RelayAssumption == RelayConstants

Bytes(held) == MapThenSumSet(LAMBDA h : h.size, held)
Lesser(a, b) == IF a <= b THEN a ELSE b
Less(a, b) == IF a <= b THEN 0 ELSE a - b      \* saturating_sub
binding_count == Cardinality({n \in Nodes : bindings[n] # None})
Never == MaxTime + Cooldown + 1

TypeOK ==
    /\ \A n \in Nodes : bindings[n] # None =>
           /\ bindings[n].quota \in Quotas /\ bindings[n].held_bytes \in Nat
           /\ bindings[n].next_sequence \in 0 .. MaxDeposits
           /\ bindings[n].held \subseteq [seq : 0 .. MaxDeposits, id : Messages, by : Nodes,
                                          size : Sizes, expires : Nat]
    /\ cooldowns \in [Nodes -> (0 .. MaxTime) \cup {Never}]
    /\ opened \in [Nodes -> SUBSET (0 .. MaxTime)]
    /\ now \in 0 .. MaxTime

Init ==
    /\ bindings = [n \in Nodes |-> None]
    /\ cooldowns = [n \in Nodes |-> Never]
    /\ opened = [n \in Nodes |-> {}]
    /\ now = 0

-----------------------------------------------------------------------------
\* Mutant: expired rows are deleted and their bytes stay charged.
prune_held_rows_NoCredit(b) == [b EXCEPT !.held = {h \in @ : h.expires > now}]

\* Expired rows go and their bytes are freed.
prune_held_rows(b) ==
    LET gone == {h \in b.held : h.expires <= now}
    IN [b EXCEPT !.held = @ \ gone, !.held_bytes = Less(@, Bytes(gone))]

\* Mutant: the sequence is one above the largest that is still held.
NextSequence_MaxPlusOne(b) ==
    IF b.held = {} THEN 0 ELSE 1 + CHOOSE s \in {h.seq : h \in b.held} : \A h \in b.held : h.seq <= s

NextSequence(b) == b.next_sequence

\* hold_envelope on a pruned binding.
Holds(b, d, m, size, ttl) ==
    /\ b.held_bytes + size <= b.quota
    /\ Bytes({h \in b.held : h.by = d}) + size <= Lesser(PerDepositor, b.quota)

hold_envelope(b, d, m, size, ttl) ==
    [b EXCEPT !.held = @ \cup {[seq |-> NextSequence(b), id |-> m, by |-> d, size |-> size,
                                expires |-> now + ttl]},
              !.held_bytes = @ + size, !.next_sequence = @ + 1]

\* validate_deposit: the kind, the lifetime and the payment or the whitelist
\* proof are "authorized".
validate_deposit(b, size, authorized) ==
    authorized /\ size <= Less(Lesser(b.quota, MaxQuota), b.held_bytes)

\* register_allowed: a permitted attempt restarts the cooldown, also when the
\* store then refuses it.
register_allowed(n) ==
    /\ binding_count < MaxBindings
    /\ cooldowns[n] = Never \/ now - cooldowns[n] >= Cooldown

-----------------------------------------------------------------------------
handle_register(n, quota) ==
    /\ register_allowed(n)
    /\ cooldowns' = [cooldowns EXCEPT ![n] = now]
    /\ IF bindings[n] # None \/ binding_count >= MaxBindings
       THEN UNCHANGED <<bindings, opened>>
       ELSE /\ bindings' = [bindings EXCEPT ![n] = [quota |-> quota, next_sequence |-> 0,
                                                    held |-> {}, held_bytes |-> 0]]
            /\ opened' = [opened EXCEPT ![n] = @ \cup {now}]
    /\ UNCHANGED now

\* Prune, validate, and hold in a transaction of its own that prunes again; a
\* refused hold rolls its own prune back.
handle_deposit(d, n, m, size, ttl, authorized) ==
    /\ bindings[n] # None /\ bindings[n].next_sequence < MaxDeposits
    /\ LET pruned == prune_held_rows(bindings[n])
           again  == prune_held_rows(pruned) IN
       bindings' = [bindings EXCEPT ![n] =
                       IF validate_deposit(pruned, size, authorized) /\ Holds(again, d, m, size, ttl)
                       THEN hold_envelope(again, d, m, size, ttl) ELSE pruned]
    /\ UNCHANGED <<cooldowns, opened, now>>

\* What a drain hands out: the oldest live holds, at most a batch.
handle_drain_request(n) ==
    /\ bindings[n] # None
    /\ bindings' = [bindings EXCEPT ![n] = prune_held_rows(@)]
    /\ UNCHANGED <<cooldowns, opened, now>>

handle_ack(n, ids) ==
    /\ bindings[n] # None
    /\ LET gone == {h \in bindings[n].held : h.id \in ids} IN
       bindings' = [bindings EXCEPT ![n].held = @ \ gone, ![n].held_bytes = Less(@, Bytes(gone))]
    /\ UNCHANGED <<cooldowns, opened, now>>

handle_unregister(n) ==
    /\ bindings[n] # None
    /\ bindings' = [bindings EXCEPT ![n] = None]
    /\ UNCHANGED <<cooldowns, opened, now>>

Tick == now < MaxTime /\ now' = now + 1 /\ UNCHANGED <<bindings, cooldowns, opened>>

\* The tables survive, the cooldowns do not.
Restart ==
    /\ \E n \in Nodes : cooldowns[n] # Never
    /\ cooldowns' = [n \in Nodes |-> Never] /\ opened' = [n \in Nodes |-> {}]
    /\ UNCHANGED <<bindings, now>>

Next ==
    \/ \E n \in Nodes, quota \in Quotas : handle_register(n, quota)
    \/ \E d, n \in Nodes, m \in Messages, size \in Sizes, ttl \in Ttls, ok \in BOOLEAN :
           handle_deposit(d, n, m, size, ttl, ok)
    \/ \E n \in Nodes : handle_drain_request(n) \/ handle_unregister(n)
    \/ \E n \in Nodes, ids \in SUBSET Messages : handle_ack(n, ids)
    \/ Tick \/ Restart

Spec == Init /\ [][Next]_vars

-----------------------------------------------------------------------------
\* The column held_bytes is what the rows add up to, so neither acknowledgements,
\* expiry nor restarts leak quota, and a binding never holds more than its quota.
HeldBytesExact ==
    \A n \in Nodes : bindings[n] # None =>
        /\ bindings[n].held_bytes = Bytes(bindings[n].held)
        /\ bindings[n].held_bytes <= Lesser(bindings[n].quota, MaxQuota)

\* "register/unregister cannot be cycled to bypass" the cooldown: while the relay
\* runs, a peer's registrations are a cooldown apart.
RegistrationsSpaced ==
    \A n \in Nodes : \A s, t \in opened[n] : s < t => t - s >= Cooldown

\* All of it: types and bounds, the quota column, the cooldown.
RelaySafe == TypeOK /\ HeldBytesExact /\ RegistrationsSpaced

\* The engine over the durable store is the mailbox of module Relay, when
\* expired rows that wait for a prune are not counted: in particular sequence
\* numbers are not reused after an acknowledgement, and nothing live is lost.
LiveBox ==
    [n \in Nodes |->
        IF bindings[n] = None THEN None
        ELSE [quota |-> bindings[n].quota, next |-> bindings[n].next_sequence,
              held |-> {h \in bindings[n].held : h.expires > now}]]
Mailbox == INSTANCE Relay WITH box <- LiveBox
IsMailbox == Mailbox!ASpec
===============================================================================

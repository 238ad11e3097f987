-------------------------------- MODULE Relay ---------------------------------
(***************************************************************************)
(* What a relay promises its tenants (docs of the trait RelayBindingStore, *)
(* crates/konsensus-node/src/relay/store.rs): a mailbox per recipient with *)
(* a byte quota, a share per depositor, sequence numbers that are never    *)
(* reused, and holds that stay until they are acknowledged or expire.      *)
(* There is no accounting and no pruning here: what has expired is gone.   *)
(***************************************************************************)
EXTENDS Naturals, FiniteSets, FiniteSetsExt

CONSTANTS
    Nodes, Messages, Sizes, Quotas, Ttls,
    MaxBindings,    \* RelayPolicy.max_bindings
    MaxQuota,       \* RelayPolicy.max_quota_bytes
    PerDepositor,   \* RelayPolicy.max_bytes_per_depositor
    None

VARIABLES
    box,    \* mailbox of each recipient, None without a binding
    now

avars == <<box, now>>

Bytes(held) == MapThenSumSet(LAMBDA h : h.size, held)
Lesser(a, b) == IF a <= b THEN a ELSE b
Bound == {n \in Nodes : box[n] # None}

AInit == box = [n \in Nodes |-> None] /\ now = 0

Register(n) ==
    /\ n \notin Bound /\ Cardinality(Bound) < MaxBindings
    /\ \E quota \in Quotas :
           box' = [box EXCEPT ![n] = [quota |-> quota, next |-> 0, held |-> {}]]
    /\ now' = now

Deposit(d, n) ==
    /\ n \in Bound
    /\ \E m \in Messages, size \in Sizes, ttl \in Ttls :
           LET b    == box[n]
               hold == [seq |-> b.next, id |-> m, by |-> d, size |-> size, expires |-> now + ttl]
               held == b.held \cup {hold} IN
           /\ Bytes(held) <= Lesser(b.quota, MaxQuota)
           /\ Bytes({h \in held : h.by = d}) <= Lesser(b.quota, PerDepositor)
           /\ box' = [box EXCEPT ![n].held = {h \in held : h.expires > now}, ![n].next = @ + 1]
    /\ now' = now

Ack(n) ==
    /\ n \in Bound
    /\ \E ids \in SUBSET Messages :
           box' = [box EXCEPT ![n].held = {h \in @ : h.id \notin ids}]
    /\ now' = now

Unregister(n) == n \in Bound /\ box' = [box EXCEPT ![n] = None] /\ now' = now

Passes ==
    /\ now' = now + 1
    /\ box' = [n \in Nodes |-> IF box[n] = None THEN None
                               ELSE [box[n] EXCEPT !.held = {h \in @ : h.expires > now'}]]

ANext ==
    \/ \E n \in Nodes : Register(n) \/ Ack(n) \/ Unregister(n)
    \/ \E d, n \in Nodes : Deposit(d, n)
    \/ Passes

ASpec == AInit /\ [][ANext]_avars
===============================================================================

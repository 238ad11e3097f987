---------------------------- MODULE MCSpendLedger ----------------------------
(***************************************************************************)
(* Two small instances of SpendLedger.  SpendLedger itself is the grant of *)
(* a client with a budget of its own; Relations is a grant of which every  *)
(* relation has an envelope that the owner renews.  The first state        *)
(* chooses which of the two moves.                                         *)
(***************************************************************************)
EXTENDS SpendLedger, TLC

CONSTANTS RelationIds, RelationHolds, Peers

VARIABLES
    grant,      \* "client" or "relations"
    r_mem, r_disk, r_pay, r_crashes, r_renewals, r_resets

relation_vars == <<r_mem, r_disk, r_pay, r_crashes, r_renewals, r_resets>>

Relations == INSTANCE SpendLedger WITH
    mem <- r_mem, disk <- r_disk, pay <- r_pay, crashes <- r_crashes,
    renewals <- r_renewals, resets <- r_resets,
    Ids <- RelationIds, Holds <- RelationHolds, Recipients <- Peers,
    RecipientsOnly <- TRUE, Budget <- 2, Envelopes <- {3}, MaxOverrun <- 0,
    MaxRenewals <- 2, MaxResets <- 0

GrantsInit ==
    /\ grant \in {"client", "relations"}
    /\ Init /\ Relations!Init

GrantsNext ==
    \/ grant = "client" /\ Next /\ UNCHANGED <<grant, relation_vars>>
    \/ grant = "relations" /\ Relations!Next /\ UNCHANGED <<grant, vars>>

GrantsSpec == GrantsInit /\ [][GrantsNext]_<<grant, vars, relation_vars>>

Symmetric == Permutations(Ids \ Holds) \cup Permutations(Peers)

\* Relation grants: the tally is exact; what left the wallet or may still leave it stays
\* within what the owner approved for each relation and in total (fits); and "The total is
\* what was used plus what every envelope has left", also when an envelope is renewed while
\* reservations and a call are open (open_envelope).
RelationEnvelopes == Relations!Tally /\ Relations!WithinApproval /\ Relations!EnvelopeTotal

\* Relation grants: what a call reserved is spent, released, drawn or still held, never
\* two of them, also when it is closed while draws are unresolved (close_hold).
RelationCallConserved == Relations!CallConserved

==============================================================================

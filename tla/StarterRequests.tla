--------------------------- MODULE StarterRequests ----------------------------
(***************************************************************************)
(* A newcomer's requests for a starter channel: the table                  *)
(* starter_requests (konsensus-storage/src/starter_request.rs), the worker *)
(* that delivers and reconciles them (onboarding/starter_newcomer.rs), and *)
(* the owner's API (handlers/starter_channel.rs).                          *)
(*                                                                         *)
(* The hub is the environment: it may give any authenticated answer to any *)
(* request, late, twice or never.  The worker's copy of a row may be stale *)
(* when it is saved, because the API runs between its steps.               *)
(***************************************************************************)
EXTENDS Naturals, FiniteSets

CONSTANTS
    Ids,            \* request ids
    MaxSends,       \* sends per mesh connection (8 in poll)
    MaxSuccessors,  \* successors of one owner request (3 in adopt and retry)
    None

VARIABLES
    rows,       \* starter_requests by id, None without a row
    age,        \* rank of a row by created_at: 1 is the newest, 0 no row
    worker,     \* where the worker is, with its copy of a row
    channel     \* what the newcomer's own channel list shows of the hub

vars == <<rows, age, worker, channel>>

RowTypes ==
    [state : {"requested", "opening", "ready", "refused"}, original : Ids \cup {None},
     reason : {"none", "retryable", "final", "served"}, target : Ids \cup {None},
     terms : BOOLEAN, sends : 0 .. MaxSends]

ASSUME RequestsAssumption ==
    /\ Ids \subseteq Nat /\ IsFiniteSet(Ids) /\ None \notin Ids /\ None \notin RowTypes
    /\ MaxSends \in Nat /\ MaxSuccessors \in Nat

Idle == [at |-> "idle"]
Row(original) ==
    [state |-> "requested", original |-> original, reason |-> "none", target |-> None,
     terms |-> FALSE, sends |-> 0]

Known(id)   == rows[id] # None
Live(id)    == Known(id) /\ rows[id].state # "refused"
terminal(r) == r.state \in {"ready", "refused"}
RootOf(id, r) == IF r.original = None THEN id ELSE r.original
Lineage(root) == {id \in Ids : Known(id) /\ RootOf(id, rows[id]) = root}
Successors(root) == {id \in Ids : Known(id) /\ rows[id].original = root}

\* An id not used before: which of the unused ones it is does not matter.
Fresh == {id \in Ids : ~Known(id) /\ \A j \in Ids : ~Known(j) => id <= j}

LastIn(S) == CHOOSE id \in S : \A j \in S : age[id] <= age[j]
LiveIds == {id \in Ids : Live(id)}
Current == IF LiveIds # {} THEN LastIn(LiveIds) ELSE LastIn({id \in Ids : Known(id)})

Workers ==
    {Idle} \cup [at : {"adopt", "retry"}, id : Ids]
      \cup [at : {"reconcile"}, id : Ids, row : RowTypes, next : {"idle", "send"}]
      \cup [at : {"send", "prepare"}, id : Ids, row : RowTypes]

TypeOK ==
    /\ rows \in [Ids -> RowTypes \cup {None}]
    /\ age \in [Ids -> Nat] /\ \A id \in Ids : age[id] # 0 <=> Known(id)
    /\ worker \in Workers
    /\ channel \in {"none", "pending", "verified"}

Init ==
    /\ rows = [id \in Ids |-> None]
    /\ age = [id \in Ids |-> 0]
    /\ worker = Idle
    /\ channel = "none"

-----------------------------------------------------------------------------
(* starter_request.rs *)

\* The row becomes the newest, also one that is replaced.
Insert(id, row) ==
    /\ rows' = [rows EXCEPT ![id] = row]
    /\ age' = [j \in Ids |-> IF j = id THEN 1
                              ELSE IF Known(j) /\ (~Known(id) \/ age[j] < age[id]) THEN age[j] + 1
                              ELSE age[j]]
NoInsert == UNCHANGED <<rows, age>>

\* save writes every column of the copy unless the stored row is terminal.
save(id, row) == rows' = IF terminal(rows[id]) THEN rows ELSE [rows EXCEPT ![id] = row]

\* Mutant: a nominated id is inserted next to a live request.
adopt_BesideLive(id, target, root) ==
    IF Known(target)
    THEN IF Live(target) \/ RootOf(target, rows[target]) # root THEN NoInsert
         ELSE Insert(target, Row(rows[target].original))
    ELSE IF target # root /\ Cardinality(Successors(root)) >= MaxSuccessors THEN NoInsert
         ELSE Insert(target, Row(IF target = root THEN None ELSE root))

\* A live request wins; a known refused id of the same lineage is revived; an
\* unknown id takes a successor slot.
adopt(id, target, root) ==
    IF LiveIds # {} THEN NoInsert
    ELSE IF Known(target)
         THEN IF RootOf(target, rows[target]) # root THEN NoInsert
              ELSE Insert(target, Row(rows[target].original))
         ELSE IF target # root /\ Cardinality(Successors(root)) >= MaxSuccessors THEN NoInsert
              ELSE Insert(target, Row(IF target = root THEN None ELSE root))

\* A successor of the newest, retryably refused request of a lineage, when it is due.
retry(id, child, due) ==
    LET root == RootOf(id, rows[id]) IN
    IF /\ LiveIds = {} /\ LastIn(Lineage(root)) = id
       /\ rows[id].reason = "retryable"
       /\ Cardinality(Successors(root)) < MaxSuccessors /\ due
    THEN Insert(child, Row(root))
    ELSE NoInsert

-----------------------------------------------------------------------------
(* The owner's API *)

\* Mutant: a new id supersedes one whose delivery is still uncertain.
create_Supersedes(id) ==
    /\ id \in Fresh /\ \A j \in LiveIds : rows[j].state # "ready"
    /\ rows' = [j \in Ids |-> IF j = id THEN Row(None)
                              ELSE IF j \in LiveIds THEN [rows[j] EXCEPT !.state = "refused"]
                              ELSE rows[j]]
    /\ age' = [j \in Ids |-> IF j = id THEN 1 ELSE IF Known(j) THEN age[j] + 1 ELSE age[j]]
    /\ UNCHANGED <<worker, channel>>

\* POST of a new id: the request is created unless one is live.
create(id) ==
    /\ id \in Fresh /\ LiveIds = {}
    /\ Insert(id, Row(None))
    /\ UNCHANGED <<worker, channel>>

\* POST of a known id, and a new connection to the hub, rearm the delivery.
rearm(id) ==
    /\ Live(id) /\ rows[id].state # "ready" /\ rows[id].sends >= MaxSends
    /\ rows' = [rows EXCEPT ![id].sends = 0]
    /\ UNCHANGED <<age, worker, channel>>

-----------------------------------------------------------------------------
(* The worker *)

\* StarterNewcomer::handle of a refusal.
HandleRefused(id, reason, target) ==
    /\ worker = Idle /\ Known(id) /\ ~terminal(rows[id])
    /\ rows' = [rows EXCEPT ![id].state = "refused", ![id].reason = reason, ![id].target = target]
    /\ worker' = IF target # None THEN [at |-> "adopt", id |-> id] ELSE Idle
    /\ UNCHANGED <<age, channel>>

\* handle of received, opening or ready: the terms are kept, then reconcile runs.
HandleStatus(id, state) ==
    /\ worker = Idle /\ Known(id) /\ ~terminal(rows[id])
    /\ LET row == [rows[id] EXCEPT !.terms = TRUE,
                                   !.state = IF state = "received" THEN @ ELSE "opening"] IN
       /\ save(id, row)
       /\ worker' = [at |-> "reconcile", id |-> id, row |-> row, next |-> "idle"]
    /\ UNCHANGED <<age, channel>>

Adopt ==
    /\ worker.at = "adopt"
    /\ LET r == rows[worker.id] IN adopt(worker.id, r.target, RootOf(worker.id, r))
    /\ worker' = Idle
    /\ UNCHANGED channel

\* Mutant: an exhausted delivery also stops the reconciliation.
poll_StopsExhausted ==
    /\ worker = Idle /\ {id \in Ids : Known(id)} # {}
    /\ LET r == rows[Current] IN
       worker' = IF r.state = "refused" /\ r.target # None THEN [at |-> "adopt", id |-> Current]
                 ELSE IF r.state = "refused" /\ r.reason = "retryable" THEN [at |-> "retry", id |-> Current]
                 ELSE IF terminal(r) \/ r.sends >= MaxSends THEN Idle
                 ELSE [at |-> "reconcile", id |-> Current, row |-> r, next |-> "send"]
    /\ UNCHANGED <<rows, age, channel>>

\* poll reads the current request.
poll ==
    /\ worker = Idle /\ {id \in Ids : Known(id)} # {}
    /\ LET r == rows[Current] IN
       worker' = IF r.state = "refused" /\ r.target # None THEN [at |-> "adopt", id |-> Current]
                 ELSE IF r.state = "refused" /\ r.reason = "retryable" THEN [at |-> "retry", id |-> Current]
                 ELSE IF terminal(r) THEN Idle
                 ELSE [at |-> "reconcile", id |-> Current, row |-> r, next |-> "send"]
    /\ UNCHANGED <<rows, age, channel>>

Retry ==
    /\ worker.at = "retry"
    /\ \E due \in BOOLEAN :
           IF Fresh = {} THEN NoInsert ELSE \E child \in Fresh : retry(worker.id, child, due)
    /\ worker' = LET live == {id \in Ids : rows'[id] # None /\ rows'[id].state \notin {"ready", "refused"}}
                 IN IF live = {} THEN Idle
                    ELSE LET id == CHOOSE i \in live : TRUE
                         IN [at |-> "reconcile", id |-> id, row |-> rows'[id], next |-> "send"]
    /\ UNCHANGED channel

\* reconcile looks at the channel list and saves its copy.
Reconcile ==
    /\ worker.at = "reconcile"
    /\ LET row == [worker.row EXCEPT
                      !.state = IF channel = "verified" /\ worker.row.terms THEN "ready"
                                ELSE IF channel # "none" THEN "opening" ELSE @] IN
       /\ save(worker.id, row)
       /\ worker' = IF terminal(row) \/ worker.next = "idle" THEN Idle
                    ELSE [at |-> "send", id |-> worker.id, row |-> row]
    /\ UNCHANGED <<age, channel>>

\* The rest of poll: offline, exhausted, backing off or not ready for money it
\* returns, and may save its copy to say that it is exhausted; else the attempt is
\* saved before the frame is prepared.
Send ==
    /\ worker.at = "send"
    /\ \/ /\ worker.row.sends < MaxSends
          /\ LET row == [worker.row EXCEPT !.sends = @ + 1] IN
             /\ save(worker.id, row)
             /\ worker' = [at |-> "prepare", id |-> worker.id, row |-> row]
       \/ /\ worker.row.sends >= MaxSends /\ save(worker.id, worker.row)
          /\ worker' = Idle
       \/ rows' = rows /\ worker' = Idle
    /\ UNCHANGED <<age, channel>>

\* The frame leaves, or the hub cannot be reached and the copy is saved once more.
Prepare ==
    /\ worker.at = "prepare"
    /\ rows' = rows \/ save(worker.id, worker.row)
    /\ worker' = Idle
    /\ UNCHANGED <<age, channel>>

Crash == worker # Idle /\ worker' = Idle /\ UNCHANGED <<rows, age, channel>>

\* The hub's channel is funded, becomes usable, or goes away again.
ChannelMoves ==
    /\ channel' \in CASE channel = "none" -> {"pending"}
                      [] channel = "pending" -> {"verified", "none"}
                      [] channel = "verified" -> {"pending"}
    /\ UNCHANGED <<rows, age, worker>>

Work == poll \/ Adopt \/ Retry \/ Reconcile \/ Send \/ Prepare

Next ==
    \/ \E id \in Ids : create(id) \/ rearm(id)
    \/ \E id \in Ids, reason \in {"retryable", "final"} : HandleRefused(id, reason, None)
    \/ \E id \in Ids : \E target \in ({j \in Ids : Known(j)} \cup Fresh \cup {None}) \ {id} : HandleRefused(id, "served", target)
    \/ \E id \in Ids, state \in {"received", "opening"} : HandleStatus(id, state)
    \/ Work \/ Crash \/ ChannelMoves

\* The interval of run ticks whatever arrives, and each step of a tick ends.
Fairness == WF_vars(poll) /\ SF_vars(Reconcile) /\ WF_vars(Adopt \/ Retry \/ Send \/ Prepare)

Spec == Init /\ [][Next]_vars
FairSpec == Spec /\ Fairness

-----------------------------------------------------------------------------
\* At most one request is live, whatever the owner, the worker's retries and the
\* hub's nominations do.
OneLive == \A i, j \in LiveIds : i = j

\* An owner request never has more than three successors, nominated ids included:
\* no sequence of hub answers makes the newcomer ask for ever.
SuccessorsBounded ==
    \A root \in Ids : Cardinality(Successors(root)) <= MaxSuccessors

\* Both, with the types of the table and of the worker's copies.
RequestsSafe == TypeOK /\ OneLive /\ SuccessorsBounded

\* "Uncertain deliveries never create successors": a request leaves the table of
\* live ones only through a refusal or by getting its channel, and a new id for
\* the same owner request appears only when every older one was refused.
SuccessorStep ==
    \A id \in Ids :
        /\ Live(id) => rows'[id] # None
        /\ (~Known(id) /\ rows'[id] # None) =>
               \A old \in Ids : Known(old) => rows[old].state = "refused"
NoBlindSuccessor == [][SuccessorStep]_vars

\* "Local reconciliation never stops on timeout": when the channel stays
\* verifiable, a live request whose terms are known becomes ready, even after
\* its delivery is exhausted, unless the hub refuses it.
Funded == channel = "verified" /\ \E id \in LiveIds : rows[id].terms
LateFundingReady == <>[]Funded => <>(\E id \in LiveIds : rows[id].state = "ready")
===============================================================================

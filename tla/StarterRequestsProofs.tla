------------------------ MODULE StarterRequestsProofs -------------------------
(***************************************************************************)
(* What holds of a newcomer's starter requests for any number of ids, any  *)
(* number of successors and any answers of the hub: one request is live at *)
(* a time, a lineage stays within its successors, and a new id appears     *)
(* only after every older one was refused.                                 *)
(*                                                                         *)
(* The worker saves a copy of a row that it read some steps before.  The   *)
(* argument needs what that copy may say (WorkerInv): it carries the       *)
(* original of the stored row and never a refusal, so that saving it can   *)
(* neither revive a request nor move it to another lineage.                *)
(***************************************************************************)
EXTENDS StarterRequests, FiniteSetTheorems, WellFoundedInduction, TLAPS

\* What the worker holds between two of its steps.
WorkerInv ==
    /\ worker.at \in {"adopt", "retry"} => Known(worker.id)
    /\ worker.at = "adopt" => rows[worker.id].target \in Ids
    /\ worker.at = "adopt" => rows[worker.id].state = "refused"
    /\ worker.at \in {"reconcile", "send", "prepare"} =>
           /\ Known(worker.id)
           /\ worker.row.original = rows[worker.id].original
           /\ worker.row.state \in {"requested", "opening"}

IInv == TypeOK /\ WorkerInv /\ OneLive /\ SuccessorsBounded

-----------------------------------------------------------------------------
(* The table *)

\* A nonempty set of ids has a newest one.
LEMMA NewestExists ==
    ASSUME NEW S \in SUBSET Ids, S # {}, age \in [Ids -> Nat]
    PROVE  LastIn(S) \in S
<1>. DEFINE A == {age[i] : i \in S}
<1>1. A \in SUBSET Nat /\ A # {}
  OBVIOUS
<1>2. PICK n \in A : \A m \in A : ~(<<m, n>> \in OpToRel(<, Nat))
  BY <1>1, NatLessThanWellFounded, WFMin, Zenon
<1>3. \A m \in A : m < n => <<m, n>> \in OpToRel(<, Nat)
  BY <1>1, SMT DEF OpToRel
<1>4. \A m \in A : ~(m < n)
  BY <1>2, <1>3, Zenon
<1>5. \A m \in A : n <= m
  BY <1>1, <1>4, SMT
<1>6. PICK i \in S : n = age[i]
  OBVIOUS
<1>7. \A j \in S : age[i] <= age[j]
  BY <1>5, <1>6, Zenon
<1>. HIDE DEF A
<1>. QED BY <1>7, Zenon DEF LastIn

\* What an insertion does to the types of the table.
LEMMA InsertTypes ==
    ASSUME TypeOK, NEW id \in Ids, NEW row \in RowTypes, Insert(id, row)
    PROVE  /\ rows' = [rows EXCEPT ![id] = row]
           /\ rows' \in [Ids -> RowTypes \cup {None}]
           /\ age' \in [Ids -> Nat]
           /\ \A j \in Ids : age'[j] # 0 <=> rows'[j] # None
<1>1. rows' = [rows EXCEPT ![id] = row]
  BY Zenon DEF Insert
<1>2. rows' \in [Ids -> RowTypes \cup {None}]
  BY <1>1, Zenon DEF TypeOK
<1>3. \A j \in Ids : age'[j] = IF j = id THEN 1
           ELSE IF Known(j) /\ (~Known(id) \/ age[j] < age[id]) THEN age[j] + 1 ELSE age[j]
  BY Zenon DEF Insert
<1>4. age' \in [Ids -> Nat]
  <2>1. \A j \in Ids : (IF j = id THEN 1
           ELSE IF Known(j) /\ (~Known(id) \/ age[j] < age[id]) THEN age[j] + 1 ELSE age[j]) \in Nat
    BY SMT DEF TypeOK
  <2>. QED BY <2>1, Zenon DEF Insert
<1>5. ASSUME NEW j \in Ids PROVE age'[j] # 0 <=> rows'[j] # None
  <2>1. CASE j = id
    <3>1. rows'[j] = row
      BY <1>1, <2>1, Zenon DEF TypeOK
    <3>2. age'[j] = 1
      BY <1>3, <2>1, Zenon
    <3>3. row # None
      BY RequestsAssumption, Zenon
    <3>. QED BY <3>1, <3>2, <3>3, SMT
  <2>2. CASE j # id
    <3>1. rows'[j] = rows[j]
      BY <1>1, <2>2, Zenon DEF TypeOK
    <3>2. age[j] \in Nat /\ (age[j] # 0 <=> rows[j] # None)
      BY Zenon DEF TypeOK, Known
    <3>3. age'[j] = age[j] \/ (rows[j] # None /\ age'[j] = age[j] + 1)
      BY <1>3, <2>2, Zenon DEF Known
    <3>. QED BY <3>1, <3>2, <3>3, SMT
  <2>. QED BY <2>1, <2>2, Zenon
<1>. QED BY <1>1, <1>2, <1>4, <1>5, Zenon

\* A new row is a row.
LEMMA RowType ==
    ASSUME NEW o \in Ids \cup {None}
    PROVE  Row(o) \in RowTypes /\ Row(o).state = "requested" /\ Row(o).original = o
BY RequestsAssumption, SMT DEF Row, RowTypes

\* A row with one column changed is a row, and the others are kept.
LEMMA RowChange ==
    ASSUME NEW r \in RowTypes
    PROVE  /\ \A x \in {"requested", "opening", "ready", "refused"} :
                 /\ [r EXCEPT !.state = x] \in RowTypes
                 /\ [r EXCEPT !.state = x].original = r.original
                 /\ [r EXCEPT !.state = x].state = x
           /\ \A x \in {"none", "retryable", "final", "served"} :
                 /\ [r EXCEPT !.reason = x] \in RowTypes
                 /\ [r EXCEPT !.reason = x].original = r.original
                 /\ [r EXCEPT !.reason = x].state = r.state
           /\ \A x \in Ids \cup {None} :
                 /\ [r EXCEPT !.target = x] \in RowTypes
                 /\ [r EXCEPT !.target = x].original = r.original
                 /\ [r EXCEPT !.target = x].state = r.state
                 /\ [r EXCEPT !.target = x].target = x
           /\ /\ [r EXCEPT !.terms = TRUE] \in RowTypes
              /\ [r EXCEPT !.terms = TRUE].original = r.original
              /\ [r EXCEPT !.terms = TRUE].state = r.state
           /\ \A x \in 0 .. MaxSends :
                 /\ [r EXCEPT !.sends = x] \in RowTypes
                 /\ [r EXCEPT !.sends = x].original = r.original
                 /\ [r EXCEPT !.sends = x].state = r.state
<1>1. ASSUME NEW x \in {"requested", "opening", "ready", "refused"}
      PROVE  /\ [r EXCEPT !.state = x] \in RowTypes
             /\ [r EXCEPT !.state = x].original = r.original
             /\ [r EXCEPT !.state = x].state = x
  BY SMT DEF RowTypes
<1>2. ASSUME NEW x \in {"none", "retryable", "final", "served"}
      PROVE  /\ [r EXCEPT !.reason = x] \in RowTypes
             /\ [r EXCEPT !.reason = x].original = r.original
             /\ [r EXCEPT !.reason = x].state = r.state
  BY SMT DEF RowTypes
<1>3. ASSUME NEW x \in Ids \cup {None}
      PROVE  /\ [r EXCEPT !.target = x] \in RowTypes
             /\ [r EXCEPT !.target = x].original = r.original
             /\ [r EXCEPT !.target = x].state = r.state
             /\ [r EXCEPT !.target = x].target = x
  BY SMT DEF RowTypes
<1>4. /\ [r EXCEPT !.terms = TRUE] \in RowTypes
      /\ [r EXCEPT !.terms = TRUE].original = r.original
      /\ [r EXCEPT !.terms = TRUE].state = r.state
  <2>1. [r EXCEPT !.terms = TRUE] \in RowTypes
    BY Zenon DEF RowTypes
  <2>2. [r EXCEPT !.terms = TRUE].original = r.original
    BY SMT DEF RowTypes
  <2>3. [r EXCEPT !.terms = TRUE].state = r.state
    BY SMT DEF RowTypes
  <2>. QED BY <2>1, <2>2, <2>3, Zenon
<1>5. ASSUME NEW x \in 0 .. MaxSends
      PROVE  /\ [r EXCEPT !.sends = x] \in RowTypes
             /\ [r EXCEPT !.sends = x].original = r.original
             /\ [r EXCEPT !.sends = x].state = r.state
  BY SMT DEF RowTypes
<1>. QED BY <1>1, <1>2, <1>3, <1>4, <1>5, Zenon

\* Successors of one lineage are finite in number, and so is their count.
LEMMA SuccessorsFinite ==
    ASSUME NEW root
    PROVE  IsFiniteSet(Successors(root)) /\ Cardinality(Successors(root)) \in Nat
<1>1. Successors(root) \subseteq Ids
  BY Zenon DEF Successors
<1>2. IsFiniteSet(Successors(root))
  BY <1>1, RequestsAssumption, FS_Subset, Zenon
<1>. QED BY <1>2, FS_CardinalityType, Zenon

\* Rows that keep their original keep every count.
LEMMA CountKept ==
    ASSUME SuccessorsBounded,
           \A root, id \in Ids : id \in Successors(root)' => id \in Successors(root)
    PROVE  SuccessorsBounded'
<1>. SUFFICES ASSUME NEW root \in Ids
              PROVE  Cardinality(Successors(root)') <= MaxSuccessors
  BY Zenon DEF SuccessorsBounded
<1>1. Successors(root)' \subseteq Successors(root)
  BY Zenon DEF Successors
<1>2. IsFiniteSet(Successors(root)) /\ Cardinality(Successors(root)) \in Nat
  BY SuccessorsFinite, Zenon
<1>3. Cardinality(Successors(root)') <= Cardinality(Successors(root))
  BY <1>1, <1>2, FS_Subset, Zenon
<1>4. Cardinality(Successors(root)') \in Nat
  BY <1>1, <1>2, FS_Subset, FS_CardinalityType, Zenon
<1>5. Cardinality(Successors(root)) <= MaxSuccessors
  BY Zenon DEF SuccessorsBounded
<1>. QED BY <1>2, <1>3, <1>4, <1>5, RequestsAssumption, SMT

\* A row that takes the last free slot of a lineage keeps within the bound.
LEMMA CountAdds ==
    ASSUME SuccessorsBounded, NEW new \in Ids, NEW root \in Ids,
           Cardinality(Successors(root)) < MaxSuccessors,
           \A r, id \in Ids : id \in Successors(r)' => id \in Successors(r) \/ (r = root /\ id = new)
    PROVE  SuccessorsBounded'
<1>. SUFFICES ASSUME NEW r \in Ids
              PROVE  Cardinality(Successors(r)') <= MaxSuccessors
  BY Zenon DEF SuccessorsBounded
<1>1. IsFiniteSet(Successors(r)) /\ Cardinality(Successors(r)) \in Nat
  BY SuccessorsFinite, Zenon
<1>2. Cardinality(Successors(r)) <= MaxSuccessors
  BY Zenon DEF SuccessorsBounded
<1>3. CASE r = root
  <2>1. Successors(r)' \subseteq Successors(r) \cup {new}
    BY <1>3, Zenon DEF Successors
  <2>2. /\ IsFiniteSet(Successors(r) \cup {new})
        /\ \/ Cardinality(Successors(r) \cup {new}) = Cardinality(Successors(r))
           \/ Cardinality(Successors(r) \cup {new}) = Cardinality(Successors(r)) + 1
    BY <1>1, FS_AddElement, SMT
  <2>3. /\ Cardinality(Successors(r)') <= Cardinality(Successors(r) \cup {new})
        /\ IsFiniteSet(Successors(r)')
    BY <2>1, <2>2, FS_Subset, Zenon
  <2>4. Cardinality(Successors(r)') \in Nat
    BY <2>3, FS_CardinalityType, Zenon
  <2>. QED BY <1>1, <1>3, <2>2, <2>3, <2>4, RequestsAssumption, SMT
<1>4. CASE r # root
  <2>1. Successors(r)' \subseteq Successors(r)
    BY <1>4, Zenon DEF Successors
  <2>2. Cardinality(Successors(r)') <= Cardinality(Successors(r)) /\ IsFiniteSet(Successors(r)')
    BY <1>1, <2>1, FS_Subset, Zenon
  <2>3. Cardinality(Successors(r)') \in Nat
    BY <2>2, FS_CardinalityType, Zenon
  <2>. QED BY <1>1, <1>2, <2>2, <2>3, RequestsAssumption, SMT
<1>. QED BY <1>3, <1>4

\* A step after which a row is there exactly if it was, has its original and is
\* live only if it was.
RowsKept ==
    \A j \in Ids :
        /\ rows'[j] # None <=> rows[j] # None
        /\ rows[j] # None => rows'[j].original = rows[j].original
        /\ rows[j] # None /\ rows'[j].state # "refused" => rows[j].state # "refused"

\* Such a step keeps what is said of the live requests and of the lineages.
LEMMA KeptIsSafe ==
    ASSUME OneLive, SuccessorsBounded, RowsKept
    PROVE  OneLive' /\ SuccessorsBounded' /\ SuccessorStep
<1>1. \A j \in LiveIds' : j \in LiveIds
  BY Zenon DEF RowsKept, LiveIds, Live, Known
<1>2. OneLive'
  BY <1>1, Zenon DEF OneLive
<1>3. \A root, id \in Ids : id \in Successors(root)' => id \in Successors(root)
  BY Zenon DEF RowsKept, Successors, Known
<1>4. SuccessorsBounded'
  BY <1>3, CountKept, Zenon
<1>5. SuccessorStep
  BY Zenon DEF RowsKept, SuccessorStep, Live, Known
<1>. QED BY <1>2, <1>4, <1>5, Zenon

\* save keeps the rows when the copy has the original of the stored row: the row
\* it replaces was live, and no other changes.
LEMMA SaveKeeps ==
    ASSUME TypeOK, NEW id \in Ids, Known(id), NEW row \in RowTypes,
           row.original = rows[id].original, save(id, row)
    PROVE  RowsKept /\ rows' \in [Ids -> RowTypes \cup {None}]
<1>1. rows \in [Ids -> RowTypes \cup {None}]
  BY Zenon DEF TypeOK
<1>2. CASE terminal(rows[id])
  <2>1. rows' = rows
    BY <1>2, Zenon DEF save
  <2>. QED BY <1>1, <2>1, Zenon DEF RowsKept
<1>3. CASE ~terminal(rows[id])
  <2>1. rows' = [rows EXCEPT ![id] = row]
    BY <1>3, Zenon DEF save
  <2>2. rows' \in [Ids -> RowTypes \cup {None}]
    BY <1>1, <2>1, Zenon
  <2>3. rows'[id] = row /\ \A j \in Ids : j # id => rows'[j] = rows[j]
    BY <1>1, <2>1, Zenon
  <2>4. row # None /\ rows[id] # None /\ rows[id].state # "refused"
    BY <1>3, RequestsAssumption, Zenon DEF terminal, Known
  <2>5. ASSUME NEW j \in Ids
        PROVE  /\ rows'[j] # None <=> rows[j] # None
               /\ rows[j] # None => rows'[j].original = rows[j].original
               /\ rows[j] # None /\ rows'[j].state # "refused" => rows[j].state # "refused"
    <3>1. CASE j = id
      BY <3>1, <2>3, <2>4, Zenon
    <3>2. CASE j # id
      BY <3>2, <2>3, Zenon
    <3>. QED BY <3>1, <3>2, Zenon
  <2>. QED BY <2>2, <2>5, Zenon DEF RowsKept
<1>. QED BY <1>2, <1>3, Zenon

\* A request that is inserted when none is live is the only live one, and every
\* older one was refused.
LEMMA InsertIsSafe ==
    ASSUME TypeOK, SuccessorsBounded, LiveIds = {}, NEW id \in Ids, NEW o \in Ids \cup {None},
           Insert(id, Row(o)),
           \/ o = None
           \/ Known(id) /\ rows[id].original = o
           \/ o \in Ids /\ Cardinality(Successors(o)) < MaxSuccessors
    PROVE  OneLive' /\ SuccessorsBounded' /\ SuccessorStep
<1>1. Row(o) \in RowTypes /\ Row(o).state = "requested" /\ Row(o).original = o
  BY RowType, Zenon
<1>2. rows' = [rows EXCEPT ![id] = Row(o)]
  BY Zenon DEF Insert
<1>3. rows'[id] = Row(o) /\ \A j \in Ids : j # id => rows'[j] = rows[j]
  BY <1>2, Zenon DEF TypeOK
<1>4. Row(o) # None /\ None \notin Ids
  BY <1>1, RequestsAssumption, Zenon
<1>5. \A j \in Ids : rows[j] # None => rows[j].state = "refused"
  BY Zenon DEF LiveIds, Live, Known
<1>6. \A j \in LiveIds' : j = id
  BY <1>3, <1>5, Zenon DEF LiveIds, Live, Known
<1>7. OneLive'
  BY <1>6, Zenon DEF OneLive
<1>8. \A r, j \in Ids : j \in Successors(r)' => j \in Successors(r) \/ (r = o /\ j = id)
  <2>. SUFFICES ASSUME NEW r \in Ids, NEW j \in Ids, rows'[j] # None, rows'[j].original = r
                PROVE  j \in Successors(r) \/ (r = o /\ j = id)
    BY Zenon DEF Successors, Known
  <2>1. CASE j = id
    BY <2>1, <1>1, <1>3, Zenon
  <2>2. CASE j # id
    BY <2>2, <1>3, Zenon DEF Successors, Known
  <2>. QED BY <2>1, <2>2, Zenon
<1>9. SuccessorsBounded'
  <2>1. CASE o = None
    <3>1. \A r, j \in Ids : j \in Successors(r)' => j \in Successors(r)
      BY <1>4, <1>8, <2>1, Zenon
    <3>. QED BY <3>1, CountKept, Zenon
  <2>2. CASE Known(id) /\ rows[id].original = o
    <3>1. id \in Successors(o)
      BY <2>2, Zenon DEF Successors
    <3>2. \A r, j \in Ids : j \in Successors(r)' => j \in Successors(r)
      BY <1>8, <3>1, Zenon
    <3>. QED BY <3>2, CountKept, Zenon
  <2>3. CASE o \in Ids /\ Cardinality(Successors(o)) < MaxSuccessors
    BY <1>8, <2>3, CountAdds, Zenon
  <2>. QED BY <2>1, <2>2, <2>3, Zenon
<1>10. SuccessorStep
  <2>. SUFFICES ASSUME NEW j \in Ids
                PROVE  /\ Live(j) => rows'[j] # None
                       /\ (~Known(j) /\ rows'[j] # None) =>
                              \A old \in Ids : Known(old) => rows[old].state = "refused"
    BY Zenon DEF SuccessorStep
  <2>1. Live(j) => rows'[j] # None
    BY <1>3, <1>4, Zenon DEF Live, Known
  <2>. QED BY <2>1, <1>5, Zenon DEF Known
<1>. QED BY <1>7, <1>9, <1>10, Zenon

-----------------------------------------------------------------------------
(* The steps *)

\* The worker's records, by where it is.
LEMMA WorkerTypes ==
    ASSUME worker \in Workers
    PROVE  /\ worker.at \in {"adopt", "retry", "reconcile", "send", "prepare"} => worker.id \in Ids
           /\ worker.at \in {"reconcile", "send", "prepare"} => worker.row \in RowTypes
           /\ worker.at \in {"idle", "adopt", "retry", "reconcile", "send", "prepare"}
BY SMT DEF Workers, Idle

\* An idle worker holds nothing.
LEMMA IdleHolds ==
    ASSUME worker' = Idle
    PROVE  worker' \in Workers /\ WorkerInv'
<1>1. worker'.at = "idle"
  BY SMT DEF Idle
<1>2. worker' \in Workers
  BY Zenon DEF Workers
<1>. QED BY <1>1, <1>2, Zenon DEF WorkerInv

\* Initially there is no request.
LEMMA InitInv == ASSUME Init PROVE IInv
<1>1. \A id \in Ids : rows[id] = None
  BY Zenon DEF Init
<1>2. TypeOK
  <2>1. rows \in [Ids -> RowTypes \cup {None}]
    BY Zenon DEF Init
  <2>2. age \in [Ids -> Nat] /\ \A id \in Ids : age[id] = 0
    BY SMT DEF Init
  <2>. QED BY <1>1, <2>1, <2>2, Zenon DEF TypeOK, Init, Known, Workers
<1>3. worker.at = "idle"
  BY SMT DEF Init, Idle
<1>4. LiveIds = {} /\ \A root \in Ids : Successors(root) = {}
  BY <1>1, Zenon DEF LiveIds, Live, Known, Successors
<1>5. SuccessorsBounded
  <2>1. \A root \in Ids : Cardinality(Successors(root)) = 0
    BY <1>4, FS_EmptySet, Zenon
  <2>. QED BY <2>1, RequestsAssumption, SMT DEF SuccessorsBounded
<1>. QED BY <1>2, <1>3, <1>4, <1>5, Zenon DEF IInv, WorkerInv, OneLive

\* What a step that keeps the rows has to show besides.
LEMMA KeptStep ==
    ASSUME IInv, RowsKept, rows' \in [Ids -> RowTypes \cup {None}], age' = age,
           worker' \in Workers, WorkerInv', channel' \in {"none", "pending", "verified"}
    PROVE  IInv' /\ SuccessorStep
<1>1. OneLive' /\ SuccessorsBounded' /\ SuccessorStep
  BY KeptIsSafe, Zenon DEF IInv
<1>2. TypeOK'
  <2>1. age' \in [Ids -> Nat] /\ \A id \in Ids : age'[id] # 0 <=> rows[id] # None
    BY Zenon DEF IInv, TypeOK, Known
  <2>2. \A id \in Ids : age'[id] # 0 <=> rows'[id] # None
    BY <2>1, Zenon DEF RowsKept
  <2>. QED BY <2>1, <2>2, Zenon DEF TypeOK, Known
<1>. QED BY <1>1, <1>2, Zenon DEF IInv

\* What a step that inserts a request has to show besides.
LEMMA InsertStep ==
    ASSUME IInv, LiveIds = {}, NEW id \in Ids, NEW o \in Ids \cup {None},
           Insert(id, Row(o)),
           \/ o = None
           \/ Known(id) /\ rows[id].original = o
           \/ o \in Ids /\ Cardinality(Successors(o)) < MaxSuccessors,
           worker' \in Workers, WorkerInv', channel' = channel
    PROVE  IInv' /\ SuccessorStep
<1>1. TypeOK /\ SuccessorsBounded
  BY Zenon DEF IInv
<1>2. OneLive' /\ SuccessorsBounded' /\ SuccessorStep
  BY <1>1, InsertIsSafe, Zenon
<1>3. Row(o) \in RowTypes
  BY RowType, Zenon
<1>4. /\ rows' \in [Ids -> RowTypes \cup {None}]
      /\ age' \in [Ids -> Nat]
      /\ \A j \in Ids : age'[j] # 0 <=> rows'[j] # None
  BY <1>1, <1>3, InsertTypes, Zenon
<1>5. channel' \in {"none", "pending", "verified"}
  BY <1>1, Zenon DEF TypeOK
<1>6. TypeOK'
  BY <1>4, <1>5, Zenon DEF TypeOK, Known
<1>. QED BY <1>2, <1>6, Zenon DEF IInv

\* The rows stay as they are.
LEMMA SameRows ==
    ASSUME TypeOK, rows' = rows
    PROVE  RowsKept /\ rows' \in [Ids -> RowTypes \cup {None}]
BY Zenon DEF RowsKept, TypeOK

\* A step that leaves the worker and its row alone keeps what the worker holds.
LEMMA SameWorker ==
    ASSUME TypeOK, WorkerInv, worker' = worker,
           worker.at # "idle" => rows'[worker.id] = rows[worker.id]
    PROVE  worker' \in Workers /\ WorkerInv'
<1>1. worker' \in Workers
  BY Zenon DEF TypeOK
<1>. QED BY <1>1, SMT DEF WorkerInv, Known

\* The owner asks while the worker is anywhere.
LEMMA CreateStep ==
    ASSUME IInv, NEW id \in Ids, create(id)
    PROVE  IInv' /\ SuccessorStep
<1>1. TypeOK /\ WorkerInv
  BY Zenon DEF IInv
<1>2. ~Known(id) /\ LiveIds = {} /\ Insert(id, Row(None)) /\ worker' = worker /\ channel' = channel
  BY Zenon DEF create, Fresh
<1>3. \A j \in Ids : j # id => rows'[j] = rows[j]
  BY <1>1, <1>2, Zenon DEF Insert, TypeOK
<1>4. worker.at # "idle" => worker.id \in Ids /\ Known(worker.id)
  BY <1>1, WorkerTypes, SMT DEF WorkerInv, TypeOK
<1>5. worker.at # "idle" => rows'[worker.id] = rows[worker.id]
  BY <1>2, <1>3, <1>4, Zenon
<1>6. worker' \in Workers /\ WorkerInv'
  BY <1>1, <1>2, <1>5, SameWorker, Zenon
<1>. QED BY <1>2, <1>6, InsertStep, Zenon

\* A rearmed delivery only counts its sends anew.
LEMMA RearmStep ==
    ASSUME IInv, NEW id \in Ids, rearm(id)
    PROVE  IInv' /\ SuccessorStep
<1>1. TypeOK /\ WorkerInv
  BY Zenon DEF IInv
<1>. DEFINE r == [rows[id] EXCEPT !.sends = 0]
<1>2. rows[id] \in RowTypes /\ rows[id].state # "refused"
  BY <1>1, Zenon DEF rearm, Live, Known, TypeOK
<1>3. /\ r \in RowTypes /\ r.original = rows[id].original /\ r.state = rows[id].state
      /\ r.target = rows[id].target
  BY <1>2, RequestsAssumption, SMT DEF RowTypes
<1>4. rows' = [rows EXCEPT ![id] = r] /\ age' = age /\ worker' = worker /\ channel' = channel
  BY Zenon DEF rearm
<1>. HIDE DEF r
<1>5. rows'[id] = r /\ \A j \in Ids : j # id => rows'[j] = rows[j]
  BY <1>1, <1>4, Zenon DEF TypeOK
<1>6. rows' \in [Ids -> RowTypes \cup {None}] /\ rows[id] # None /\ r # None
  BY <1>1, <1>2, <1>3, <1>4, RequestsAssumption, Zenon DEF TypeOK
<1>7. RowsKept
  BY <1>3, <1>5, <1>6, Zenon DEF RowsKept
<1>8. worker' \in Workers /\ WorkerInv'
  <2>1. worker' \in Workers
    BY <1>1, <1>4, Zenon DEF TypeOK
  <2>2. worker.at # "idle" => worker.id \in Ids
    BY <1>1, WorkerTypes, SMT DEF TypeOK
  <2>3. worker.at # "idle" => /\ rows'[worker.id].original = rows[worker.id].original
                              /\ rows'[worker.id].state = rows[worker.id].state
                              /\ rows'[worker.id].target = rows[worker.id].target
                              /\ rows'[worker.id] # None <=> rows[worker.id] # None
    BY <1>3, <1>5, <1>6, <2>2, Zenon
  <2>. QED BY <1>1, <1>4, <2>1, <2>3, SMT DEF WorkerInv, Known
<1>9. channel' \in {"none", "pending", "verified"}
  BY <1>1, <1>4, Zenon DEF TypeOK
<1>. QED BY <1>4, <1>6, <1>7, <1>8, <1>9, KeptStep, Zenon

\* A refusal ends a live request; the worker may go on to the id it names.
LEMMA RefusedStep ==
    ASSUME IInv, NEW id \in Ids, NEW reason \in {"retryable", "final", "served"},
           NEW target \in Ids \cup {None}, HandleRefused(id, reason, target)
    PROVE  IInv' /\ SuccessorStep
<1>1. TypeOK
  BY Zenon DEF IInv
<1>. DEFINE r == [rows[id] EXCEPT !.state = "refused", !.reason = reason, !.target = target]
<1>2. rows[id] \in RowTypes /\ Known(id)
  BY <1>1, Zenon DEF HandleRefused, Known, TypeOK
<1>3. /\ r \in RowTypes /\ r.original = rows[id].original /\ r.state = "refused"
      /\ r.target = target
  <2>. DEFINE s == [rows[id] EXCEPT !.state = "refused"]
              t == [s EXCEPT !.reason = reason]
  <2>1. s \in RowTypes /\ s.original = rows[id].original /\ s.state = "refused"
    BY <1>2, RowChange, Zenon
  <2>2. r = [t EXCEPT !.target = target]
    OBVIOUS
  <2>. HIDE DEF s, r
  <2>3. reason \in {"none", "retryable", "final", "served"}
    OBVIOUS
  <2>4. t \in RowTypes /\ t.original = rows[id].original /\ t.state = "refused"
    BY <2>1, <2>3, RowChange, Zenon
  <2>. HIDE DEF t
  <2>. QED BY <2>2, <2>4, RowChange, Zenon
<1>4. rows' = [rows EXCEPT ![id] = r] /\ age' = age /\ channel' = channel
  BY Zenon DEF HandleRefused
<1>. HIDE DEF r
<1>5. rows'[id] = r /\ \A j \in Ids : j # id => rows'[j] = rows[j]
  BY <1>1, <1>4, Zenon DEF TypeOK
<1>6. rows' \in [Ids -> RowTypes \cup {None}] /\ rows[id] # None /\ r # None
  BY <1>1, <1>2, <1>3, <1>4, RequestsAssumption, Zenon DEF TypeOK
<1>7. RowsKept
  BY <1>3, <1>5, <1>6, Zenon DEF RowsKept
<1>8. worker' \in Workers /\ WorkerInv'
  <2>1. CASE target = None
    <3>1. worker' = Idle
      BY <2>1, Zenon DEF HandleRefused
    <3>. QED BY <3>1, IdleHolds, Zenon
  <2>2. CASE target # None
    <3>1. worker' = [at |-> "adopt", id |-> id]
      BY <2>2, Zenon DEF HandleRefused
    <3>2. worker' \in Workers /\ worker'.at = "adopt" /\ worker'.id = id
      BY <3>1, SMT DEF Workers
    <3>3. target \in Ids
      BY <2>2, Zenon
    <3>. QED BY <1>3, <1>5, <1>6, <3>2, <3>3, SMT DEF WorkerInv, Known
  <2>. QED BY <2>1, <2>2, Zenon
<1>9. channel' \in {"none", "pending", "verified"}
  BY <1>1, <1>4, Zenon DEF TypeOK
<1>. QED BY <1>4, <1>6, <1>7, <1>8, <1>9, KeptStep, Zenon

\* A status keeps the terms of a live request, of which the worker takes a copy.
LEMMA StatusStep ==
    ASSUME IInv, NEW id \in Ids, NEW state \in {"received", "opening"}, HandleStatus(id, state)
    PROVE  IInv' /\ SuccessorStep
<1>1. TypeOK
  BY Zenon DEF IInv
<1>. DEFINE r == [rows[id] EXCEPT !.terms = TRUE,
                                  !.state = IF state = "received" THEN @ ELSE "opening"]
<1>2. rows[id] \in RowTypes /\ Known(id) /\ rows[id].state \notin {"ready", "refused"}
  BY <1>1, Zenon DEF HandleStatus, Known, TypeOK, terminal
<1>3. /\ r \in RowTypes /\ r.original = rows[id].original
      /\ r.state \in {"requested", "opening"}
  <2>. DEFINE s == [rows[id] EXCEPT !.terms = TRUE]
              x == IF state = "received" THEN rows[id].state ELSE "opening"
  <2>1. s \in RowTypes /\ s.original = rows[id].original
    BY <1>2, RowChange, Zenon
  <2>2. rows[id].state \in {"requested", "opening", "ready", "refused"}
    BY <1>2, SMT DEF RowTypes
  <2>3. x \in {"requested", "opening"}
    BY <1>2, <2>2, Zenon
  <2>4. r = [s EXCEPT !.state = x]
    OBVIOUS
  <2>. HIDE DEF s, x, r
  <2>5. x \in {"requested", "opening", "ready", "refused"}
    BY <2>3, Zenon
  <2>. QED BY <2>1, <2>3, <2>4, <2>5, RowChange, Zenon
<1>4. /\ save(id, r) /\ age' = age /\ channel' = channel
      /\ worker' = [at |-> "reconcile", id |-> id, row |-> r, next |-> "idle"]
  BY Zenon DEF HandleStatus
<1>. HIDE DEF r
<1>5. RowsKept /\ rows' \in [Ids -> RowTypes \cup {None}]
  BY <1>1, <1>2, <1>3, <1>4, SaveKeeps, Zenon
<1>6. /\ worker' \in Workers /\ worker'.at = "reconcile"
      /\ worker'.id = id /\ worker'.row = r
  BY <1>3, <1>4, SMT DEF Workers
<1>7. rows'[id] # None /\ r.original = rows'[id].original
  BY <1>2, <1>3, <1>5, Zenon DEF RowsKept, Known
<1>8. WorkerInv'
  BY <1>3, <1>6, <1>7, SMT DEF WorkerInv, Known
<1>9. channel' \in {"none", "pending", "verified"}
  BY <1>1, <1>4, Zenon DEF TypeOK
<1>. QED BY <1>4, <1>5, <1>6, <1>8, <1>9, KeptStep, Zenon

\* poll takes up the current request, which there is.
LEMMA PollStep ==
    ASSUME IInv, poll
    PROVE  IInv' /\ SuccessorStep
<1>1. TypeOK
  BY Zenon DEF IInv
<1>. DEFINE c == Current
            r == rows[c]
<1>2. c \in Ids /\ Known(c)
  <2>1. age \in [Ids -> Nat]
    BY <1>1, Zenon DEF TypeOK
  <2>2. CASE LiveIds # {}
    <3>1. LiveIds \in SUBSET Ids
      BY Zenon DEF LiveIds
    <3>2. LastIn(LiveIds) \in LiveIds
      BY <2>1, <2>2, <3>1, NewestExists, Zenon
    <3>. QED BY <2>2, <3>2, Zenon DEF Current, LiveIds, Live
  <2>3. CASE LiveIds = {}
    <3>. DEFINE K == {id \in Ids : Known(id)}
    <3>1. K \in SUBSET Ids /\ K # {}
      BY Zenon DEF poll
    <3>2. c = LastIn(K)
      BY <2>3, Zenon DEF Current
    <3>. HIDE DEF K
    <3>3. LastIn(K) \in K
      BY <2>1, <3>1, NewestExists, Zenon
    <3>. QED BY <3>2, <3>3, Zenon DEF K
  <2>. QED BY <2>2, <2>3, Zenon
<1>3. /\ rows' = rows /\ age' = age /\ channel' = channel
      /\ worker' = IF r.state = "refused" /\ r.target # None THEN [at |-> "adopt", id |-> c]
                   ELSE IF r.state = "refused" /\ r.reason = "retryable" THEN [at |-> "retry", id |-> c]
                   ELSE IF terminal(r) THEN Idle
                   ELSE [at |-> "reconcile", id |-> c, row |-> r, next |-> "send"]
  BY Zenon DEF poll
<1>. HIDE DEF c
<1>4. r \in RowTypes
  BY <1>1, <1>2, Zenon DEF TypeOK, Known
<1>5. r.target \in Ids \cup {None} /\ r.state \in {"requested", "opening", "ready", "refused"}
  BY <1>4, SMT DEF RowTypes
<1>6. RowsKept /\ rows' \in [Ids -> RowTypes \cup {None}]
  BY <1>1, <1>3, SameRows, Zenon
<1>7. worker' \in Workers /\ WorkerInv'
  <2>1. CASE worker' = Idle
    BY <2>1, IdleHolds, Zenon
  <2>2. CASE r.state = "refused" /\ r.target # None /\ worker' = [at |-> "adopt", id |-> c]
    <3>1. worker' \in Workers /\ worker'.at = "adopt" /\ worker'.id = c
      BY <1>2, <2>2, SMT DEF Workers
    <3>2. rows'[c] # None /\ rows'[c].target \in Ids /\ rows'[c].state = "refused"
      BY <1>2, <1>3, <1>5, <2>2, Zenon DEF Known
    <3>. HIDE DEF r
    <3>. QED BY <3>1, <3>2, SMT DEF WorkerInv, Known
  <2>3. CASE worker' = [at |-> "retry", id |-> c]
    <3>1. worker' \in Workers /\ worker'.at = "retry" /\ worker'.id = c
      BY <1>2, <2>3, SMT DEF Workers
    <3>2. rows'[c] # None
      BY <1>2, <1>3, Zenon DEF Known
    <3>. HIDE DEF r
    <3>. QED BY <3>1, <3>2, SMT DEF WorkerInv, Known
  <2>4. CASE ~terminal(r) /\ worker' = [at |-> "reconcile", id |-> c, row |-> r, next |-> "send"]
    <3>1. r.state \in {"requested", "opening"}
      BY <1>5, <2>4, Zenon DEF terminal
    <3>2. rows'[c] # None /\ r.original = rows'[c].original
      BY <1>2, <1>3, Zenon DEF Known
    <3>. HIDE DEF r
    <3>3. worker' \in Workers /\ worker'.at = "reconcile" /\ worker'.id = c /\ worker'.row = r
      BY <1>2, <1>4, <2>4, SMT DEF Workers
    <3>. QED BY <3>1, <3>2, <3>3, SMT DEF WorkerInv, Known
  <2>. QED BY <1>3, <2>1, <2>2, <2>3, <2>4, Zenon
<1>8. channel' \in {"none", "pending", "verified"}
  BY <1>1, <1>3, Zenon DEF TypeOK
<1>. QED BY <1>3, <1>6, <1>7, <1>8, KeptStep, Zenon

\* The id the hub named is revived or takes a successor slot, if none is live.
LEMMA AdoptStep ==
    ASSUME IInv, Adopt
    PROVE  IInv' /\ SuccessorStep
<1>1. TypeOK /\ WorkerInv
  BY Zenon DEF IInv
<1>. DEFINE id == worker.id
            target == rows[id].target
            root == RootOf(id, rows[id])
<1>2. id \in Ids /\ Known(id) /\ target \in Ids
  BY <1>1, WorkerTypes, SMT DEF Adopt, WorkerInv, TypeOK
<1>3. rows[id] \in RowTypes
  BY <1>1, <1>2, Zenon DEF TypeOK, Known
<1>4. root \in Ids
  <2>1. rows[id].original \in Ids \cup {None}
    BY <1>3, SMT DEF RowTypes
  <2>. QED BY <1>2, <2>1, Zenon DEF RootOf
<1>5. adopt(id, target, root) /\ worker' = Idle /\ channel' = channel
  BY Zenon DEF Adopt
<1>6. worker' \in Workers /\ WorkerInv'
  BY <1>5, IdleHolds, Zenon
<1>. HIDE DEF id, target, root
<1>7. CASE NoInsert
  <2>1. rows' = rows /\ age' = age
    BY <1>7, Zenon DEF NoInsert
  <2>2. RowsKept /\ rows' \in [Ids -> RowTypes \cup {None}]
    BY <1>1, <2>1, SameRows, Zenon
  <2>3. channel' \in {"none", "pending", "verified"}
    BY <1>1, <1>5, Zenon DEF TypeOK
  <2>. QED BY <2>1, <2>2, <2>3, <1>6, KeptStep, Zenon
<1>8. CASE LiveIds = {} /\ Known(target) /\ Insert(target, Row(rows[target].original))
  <2>1. rows[target] \in RowTypes
    BY <1>1, <1>2, <1>8, Zenon DEF TypeOK, Known
  <2>2. rows[target].original \in Ids \cup {None}
    BY <2>1, SMT DEF RowTypes
  <2>. QED BY <1>2, <1>5, <1>6, <1>8, <2>2, InsertStep, Zenon
<1>9. CASE LiveIds = {} /\ target = root /\ Insert(target, Row(None))
  BY <1>2, <1>5, <1>6, <1>9, InsertStep, Zenon
<1>10. CASE /\ LiveIds = {} /\ target # root
            /\ ~(Cardinality(Successors(root)) >= MaxSuccessors)
            /\ Insert(target, Row(root))
  <2>1. Cardinality(Successors(root)) \in Nat
    BY SuccessorsFinite, Zenon
  <2>2. Cardinality(Successors(root)) < MaxSuccessors
    BY <1>10, <2>1, RequestsAssumption, SMT
  <2>. QED BY <1>2, <1>4, <1>5, <1>6, <1>10, <2>2, InsertStep, Zenon
<1>. QED BY <1>5, <1>7, <1>8, <1>9, <1>10, Zenon DEF adopt

\* What Retry leaves the worker with, whatever the table has become.
LEMMA RetryHolds ==
    ASSUME rows' \in [Ids -> RowTypes \cup {None}], Retry
    PROVE  worker' \in Workers /\ WorkerInv'
<1>. DEFINE live == {id \in Ids : rows'[id] # None /\ rows'[id].state \notin {"ready", "refused"}}
            i == CHOOSE j \in live : TRUE
<1>1. worker' = IF live = {} THEN Idle
                ELSE [at |-> "reconcile", id |-> i, row |-> rows'[i], next |-> "send"]
  BY Zenon DEF Retry
<1>2. CASE live = {}
  BY <1>1, <1>2, IdleHolds, Zenon
<1>3. CASE live # {}
  <2>1. i \in live
    BY <1>3, Zenon
  <2>2. i \in Ids /\ rows'[i] # None /\ rows'[i].state \notin {"ready", "refused"}
    BY <2>1, Zenon
  <2>3. worker' = [at |-> "reconcile", id |-> i, row |-> rows'[i], next |-> "send"]
    BY <1>1, <1>3, Zenon
  <2>. HIDE DEF i
  <2>4. rows'[i] \in RowTypes
    BY <2>2, Zenon
  <2>5. rows'[i].state \in {"requested", "opening"}
    <3>1. rows'[i].state \in {"requested", "opening", "ready", "refused"}
      BY <2>4, SMT DEF RowTypes
    <3>. QED BY <3>1, <2>2, Zenon
  <2>6. /\ worker' \in Workers /\ worker'.at = "reconcile"
        /\ worker'.id = i /\ worker'.row = rows'[i]
    BY <2>2, <2>3, <2>4, SMT DEF Workers
  <2>. QED BY <2>2, <2>5, <2>6, SMT DEF WorkerInv, Known
<1>. QED BY <1>2, <1>3, Zenon

\* A retry inserts a successor of a refused request within its slots, or nothing.
LEMMA RetryStep ==
    ASSUME IInv, Retry
    PROVE  IInv' /\ SuccessorStep
<1>1. TypeOK /\ WorkerInv
  BY Zenon DEF IInv
<1>. DEFINE id == worker.id
            root == RootOf(id, rows[id])
<1>2. id \in Ids /\ Known(id)
  BY <1>1, WorkerTypes, SMT DEF Retry, WorkerInv, TypeOK
<1>3. rows[id] \in RowTypes
  BY <1>1, <1>2, Zenon DEF TypeOK, Known
<1>4. root \in Ids
  <2>1. rows[id].original \in Ids \cup {None}
    BY <1>3, SMT DEF RowTypes
  <2>. QED BY <1>2, <2>1, Zenon DEF RootOf
<1>5. channel' = channel
  BY Zenon DEF Retry
<1>6. \/ NoInsert
      \/ \E child \in Fresh : /\ LiveIds = {} /\ Cardinality(Successors(root)) < MaxSuccessors
                               /\ Insert(child, Row(root))
  BY Zenon DEF Retry, retry
<1>. HIDE DEF id, root
<1>7. CASE NoInsert
  <2>1. rows' = rows /\ age' = age
    BY <1>7, Zenon DEF NoInsert
  <2>2. RowsKept /\ rows' \in [Ids -> RowTypes \cup {None}]
    BY <1>1, <2>1, SameRows, Zenon
  <2>3. channel' \in {"none", "pending", "verified"}
    BY <1>1, <1>5, Zenon DEF TypeOK
  <2>4. worker' \in Workers /\ WorkerInv'
    BY <2>2, RetryHolds, Zenon
  <2>. QED BY <2>1, <2>2, <2>3, <2>4, KeptStep, Zenon
<1>8. ASSUME NEW child \in Fresh, LiveIds = {}, Cardinality(Successors(root)) < MaxSuccessors,
             Insert(child, Row(root))
      PROVE  IInv' /\ SuccessorStep
  <2>1. child \in Ids
    BY Zenon DEF Fresh
  <2>2. Row(root) \in RowTypes
    BY <1>4, RowType, Zenon
  <2>3. rows' \in [Ids -> RowTypes \cup {None}]
    BY <1>1, <1>8, <2>1, <2>2, InsertTypes, Zenon
  <2>4. worker' \in Workers /\ WorkerInv'
    BY <2>3, RetryHolds, Zenon
  <2>. QED BY <1>4, <1>5, <1>8, <2>1, <2>4, InsertStep, Zenon
<1>. QED BY <1>6, <1>7, <1>8, Zenon

\* reconcile saves a copy that may be stale: of a live request, with its original.
LEMMA ReconcileStep ==
    ASSUME IInv, Reconcile
    PROVE  IInv' /\ SuccessorStep
<1>1. TypeOK /\ WorkerInv
  BY Zenon DEF IInv
<1>. DEFINE id == worker.id
            x == IF channel = "verified" /\ worker.row.terms THEN "ready"
                 ELSE IF channel # "none" THEN "opening" ELSE worker.row.state
            r == [worker.row EXCEPT !.state = x]
<1>2. worker.at = "reconcile"
  BY Zenon DEF Reconcile
<1>3. /\ id \in Ids /\ Known(id) /\ worker.row \in RowTypes
      /\ worker.row.original = rows[id].original /\ worker.row.state \in {"requested", "opening"}
  BY <1>1, <1>2, WorkerTypes, SMT DEF WorkerInv, TypeOK
<1>4. x \in {"requested", "opening", "ready"}
  BY <1>3, Zenon
<1>5. /\ save(id, r) /\ age' = age /\ channel' = channel
      /\ worker' = IF terminal(r) \/ worker.next = "idle" THEN Idle
                   ELSE [at |-> "send", id |-> id, row |-> r]
  BY Zenon DEF Reconcile
<1>. HIDE DEF x
<1>6. r \in RowTypes /\ r.original = rows[id].original /\ r.state = x
  <2>. DEFINE S == {"requested", "opening", "ready", "refused"}
  <2>1. x \in S
    BY <1>4, Zenon
  <2>2. \A w \in RowTypes : \A y \in S :
            /\ [w EXCEPT !.state = y] \in RowTypes
            /\ [w EXCEPT !.state = y].original = w.original
            /\ [w EXCEPT !.state = y].state = y
    BY RowChange, Zenon
  <2>. HIDE DEF S
  <2>3. /\ r \in RowTypes /\ r.original = worker.row.original /\ r.state = x
    BY <1>3, <2>1, <2>2, Zenon
  <2>. QED BY <1>3, <2>3, Zenon
<1>. HIDE DEF r, id
<1>7. RowsKept /\ rows' \in [Ids -> RowTypes \cup {None}]
  BY <1>1, <1>3, <1>5, <1>6, SaveKeeps, Zenon
<1>8. worker' \in Workers /\ WorkerInv'
  <2>1. CASE worker' = Idle
    BY <2>1, IdleHolds, Zenon
  <2>2. CASE ~terminal(r) /\ worker' = [at |-> "send", id |-> id, row |-> r]
    <3>1. r.state \in {"requested", "opening"}
      BY <1>4, <1>6, <2>2, Zenon DEF terminal
    <3>2. worker' \in Workers /\ worker'.at = "send" /\ worker'.id = id /\ worker'.row = r
      BY <1>3, <1>6, <2>2, SMT DEF Workers
    <3>3. rows'[id] # None /\ r.original = rows'[id].original
      BY <1>3, <1>6, <1>7, Zenon DEF RowsKept, Known
    <3>. QED BY <3>1, <3>2, <3>3, SMT DEF WorkerInv, Known
  <2>. QED BY <1>5, <2>1, <2>2, Zenon
<1>9. channel' \in {"none", "pending", "verified"}
  BY <1>1, <1>5, Zenon DEF TypeOK
<1>. QED BY <1>5, <1>7, <1>8, <1>9, KeptStep, Zenon

\* The copy that the worker holds may be saved as it is.
LEMMA SaveCopy ==
    ASSUME IInv, worker.at \in {"send", "prepare"}, save(worker.id, worker.row)
    PROVE  RowsKept /\ rows' \in [Ids -> RowTypes \cup {None}]
<1>1. TypeOK /\ WorkerInv
  BY Zenon DEF IInv
<1>2. /\ worker.id \in Ids /\ Known(worker.id) /\ worker.row \in RowTypes
      /\ worker.row.original = rows[worker.id].original
  BY <1>1, WorkerTypes, SMT DEF WorkerInv, TypeOK
<1>. QED BY <1>1, <1>2, SaveKeeps, Zenon

\* An attempt is counted in the copy, which is saved before the frame is prepared.
LEMMA SendStep ==
    ASSUME IInv, Send
    PROVE  IInv' /\ SuccessorStep
<1>1. TypeOK /\ WorkerInv
  BY Zenon DEF IInv
<1>. DEFINE id == worker.id
            r == [worker.row EXCEPT !.sends = worker.row.sends + 1]
<1>2. worker.at = "send" /\ age' = age /\ channel' = channel
  BY Zenon DEF Send
<1>3. /\ id \in Ids /\ Known(id) /\ worker.row \in RowTypes
      /\ worker.row.original = rows[id].original /\ worker.row.state \in {"requested", "opening"}
  BY <1>1, <1>2, WorkerTypes, SMT DEF WorkerInv, TypeOK
<1>4. \/ /\ worker.row.sends < MaxSends /\ save(id, r)
         /\ worker' = [at |-> "prepare", id |-> id, row |-> r]
      \/ save(id, worker.row) /\ worker' = Idle
      \/ rows' = rows /\ worker' = Idle
  BY Zenon DEF Send
<1>5. channel' \in {"none", "pending", "verified"}
  BY <1>1, <1>2, Zenon DEF TypeOK
<1>6. CASE rows' = rows /\ worker' = Idle
  BY <1>1, <1>2, <1>5, <1>6, SameRows, IdleHolds, KeptStep, Zenon
<1>7. CASE save(id, worker.row) /\ worker' = Idle
  BY <1>2, <1>5, <1>7, SaveCopy, IdleHolds, KeptStep, Zenon
<1>8. CASE /\ worker.row.sends < MaxSends /\ save(id, r)
           /\ worker' = [at |-> "prepare", id |-> id, row |-> r]
  <2>1. worker.row.sends + 1 \in 0 .. MaxSends
    <3>1. worker.row.sends \in 0 .. MaxSends
      BY <1>3, SMT DEF RowTypes
    <3>. QED BY <1>8, <3>1, RequestsAssumption, SMT
  <2>2. /\ r \in RowTypes /\ r.original = rows[id].original
        /\ r.state \in {"requested", "opening"}
    <3>1. \A w \in RowTypes : \A n \in 0 .. MaxSends :
              /\ [w EXCEPT !.sends = n] \in RowTypes
              /\ [w EXCEPT !.sends = n].original = w.original
              /\ [w EXCEPT !.sends = n].state = w.state
      BY RowChange, Zenon
    <3>2. r \in RowTypes /\ r.original = worker.row.original /\ r.state = worker.row.state
      BY <1>3, <2>1, <3>1, Zenon
    <3>. QED BY <1>3, <3>2, Zenon
  <2>. HIDE DEF r, id
  <2>3. RowsKept /\ rows' \in [Ids -> RowTypes \cup {None}]
    BY <1>1, <1>3, <1>8, <2>2, SaveKeeps, Zenon
  <2>4. worker' \in Workers /\ worker'.at = "prepare" /\ worker'.id = id /\ worker'.row = r
    BY <1>3, <1>8, <2>2, SMT DEF Workers
  <2>5. rows'[id] # None /\ r.original = rows'[id].original
    BY <1>3, <2>2, <2>3, Zenon DEF RowsKept, Known
  <2>6. WorkerInv'
    BY <2>2, <2>4, <2>5, SMT DEF WorkerInv, Known
  <2>. QED BY <1>2, <1>5, <2>3, <2>4, <2>6, KeptStep, Zenon
<1>. QED BY <1>4, <1>6, <1>7, <1>8, Zenon

\* The frame leaves, or the copy is saved once more.
LEMMA PrepareStep ==
    ASSUME IInv, Prepare
    PROVE  IInv' /\ SuccessorStep
<1>1. TypeOK
  BY Zenon DEF IInv
<1>2. worker.at = "prepare" /\ worker' = Idle /\ age' = age /\ channel' = channel
  BY Zenon DEF Prepare
<1>3. RowsKept /\ rows' \in [Ids -> RowTypes \cup {None}]
  <2>1. CASE rows' = rows
    BY <1>1, <2>1, SameRows, Zenon
  <2>2. CASE save(worker.id, worker.row)
    BY <1>2, <2>2, SaveCopy, Zenon
  <2>. QED BY <2>1, <2>2, Zenon DEF Prepare
<1>4. worker' \in Workers /\ WorkerInv'
  BY <1>2, IdleHolds, Zenon
<1>5. channel' \in {"none", "pending", "verified"}
  BY <1>1, <1>2, Zenon DEF TypeOK
<1>. QED BY <1>2, <1>3, <1>4, <1>5, KeptStep, Zenon

\* A crash forgets the copy; the channel moves on its own.
LEMMA OutsideStep ==
    ASSUME IInv, Crash \/ ChannelMoves
    PROVE  IInv' /\ SuccessorStep
<1>1. TypeOK /\ WorkerInv
  BY Zenon DEF IInv
<1>2. rows' = rows /\ age' = age
  BY Zenon DEF Crash, ChannelMoves
<1>3. RowsKept /\ rows' \in [Ids -> RowTypes \cup {None}]
  BY <1>1, <1>2, SameRows, Zenon
<1>4. CASE Crash
  <2>1. worker' \in Workers /\ WorkerInv'
    BY <1>4, IdleHolds, Zenon DEF Crash
  <2>2. channel' \in {"none", "pending", "verified"}
    BY <1>1, <1>4, Zenon DEF TypeOK, Crash
  <2>. QED BY <1>2, <1>3, <2>1, <2>2, KeptStep, Zenon
<1>5. CASE ChannelMoves
  <2>1. worker' = worker
    BY <1>5, Zenon DEF ChannelMoves
  <2>2. worker' \in Workers /\ WorkerInv'
    BY <1>1, <1>2, <2>1, SameWorker, Zenon
  <2>3. channel' \in {"none", "pending", "verified"}
    BY <1>1, <1>5, SMT DEF TypeOK, ChannelMoves
  <2>. QED BY <1>2, <1>3, <2>2, <2>3, KeptStep, Zenon
<1>. QED BY <1>4, <1>5, Zenon

\* Every step keeps the invariant and is one that may happen to a successor.
LEMMA NextInv ==
    ASSUME IInv, Next
    PROVE  IInv' /\ SuccessorStep
<1>1. CASE \E id \in Ids : create(id) \/ rearm(id)
  BY <1>1, CreateStep, RearmStep, Zenon
<1>2. CASE \E id \in Ids, reason \in {"retryable", "final"} : HandleRefused(id, reason, None)
  BY <1>2, RefusedStep, Zenon
<1>3. CASE \E id \in Ids : \E target \in ({j \in Ids : Known(j)} \cup Fresh \cup {None}) \ {id} :
               HandleRefused(id, "served", target)
  <2>1. PICK id \in Ids :
               \E target \in ({j \in Ids : Known(j)} \cup Fresh \cup {None}) \ {id} :
                   HandleRefused(id, "served", target)
    BY <1>3, Zenon
  <2>2. PICK target \in Ids \cup {None} : HandleRefused(id, "served", target)
    BY <2>1, Zenon DEF Fresh
  <2>. QED BY <2>2, RefusedStep, Zenon
<1>4. CASE \E id \in Ids, state \in {"received", "opening"} : HandleStatus(id, state)
  BY <1>4, StatusStep, Zenon
<1>5. CASE Work
  BY <1>5, PollStep, AdoptStep, RetryStep, ReconcileStep, SendStep,
     PrepareStep, Zenon DEF Work
<1>6. CASE Crash \/ ChannelMoves
  BY <1>6, OutsideStep, Zenon
<1>. QED BY <1>1, <1>2, <1>3, <1>4, <1>5, <1>6, Zenon DEF Next

\* The invariant holds of every reachable table and worker.
LEMMA Invariance == Spec => []IInv
<1>1. Init => IInv
  BY InitInv, Zenon
<1>2. IInv /\ [Next]_vars => IInv'
  <2>. SUFFICES ASSUME IInv, [Next]_vars PROVE IInv'
    OBVIOUS
  <2>1. CASE Next
    BY <2>1, NextInv, Zenon
  <2>2. CASE UNCHANGED vars
    <3>1. rows' = rows /\ age' = age /\ worker' = worker /\ channel' = channel
      BY <2>2, Zenon DEF vars
    <3>. QED BY <3>1, SMT DEF IInv, TypeOK, WorkerInv, OneLive, SuccessorsBounded,
                              Successors, LiveIds, Live, Known
  <2>. QED BY <2>1, <2>2, Zenon
<1>. QED BY <1>1, <1>2, PTL DEF Spec

\* At most one starter request is live, a lineage never has more than
\* MaxSuccessors successors, and every row, rank and copy has its type, whatever
\* the owner, the hub's answers and the worker's stale copies do.
THEOREM RequestsAreSafe == Spec => []RequestsSafe
<1>1. IInv => RequestsSafe
  BY Zenon DEF IInv, RequestsSafe
<1>. QED BY <1>1, Invariance, PTL

\* No step makes a new id while an older request may still be delivered, and no
\* live request disappears from the table.
THEOREM SuccessorsAreNeverBlind == Spec => NoBlindSuccessor
<1>1. IInv /\ [Next]_vars => [SuccessorStep]_vars
  BY NextInv, Zenon
<1>. QED BY <1>1, Invariance, PTL DEF Spec, NoBlindSuccessor
===============================================================================

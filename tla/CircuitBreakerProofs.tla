------------------------- MODULE CircuitBreakerProofs -------------------------
(***************************************************************************)
(* Proofs about module CircuitBreaker: who may change a tripped circuit.   *)
(*                                                                         *)
(* The argument is about generations.  A call carries the generation that  *)
(* admitted it; every trip and every closing starts a new one.  So the     *)
(* running calls of the current generation were all admitted since the     *)
(* last transition: none while the circuit is open, only the owner of the  *)
(* reservation once the cooldown is over, and ordinary calls while it is   *)
(* closed.                                                                 *)
(***************************************************************************)
EXTENDS CircuitBreaker, TLAPS

\* A caller whose lookup the current generation admitted.
Runs(c) == call[c].pc = "calling" /\ call[c].gen = gen

\* What the calls of the current generation are, by the state of the circuit.
Owned ==
    /\ \A c \in Callers : call[c].gen <= gen
    /\ \A c \in Callers : call[c].probe /\ call[c].gen = gen => call[c].pc = "calling"
    /\ circuit = "open" => \A c \in Callers : ~Runs(c)
    /\ circuit = "elapsed" => \A c \in Callers : Runs(c) => call[c].probe /\ probing
    /\ circuit = "elapsed" => \A c, d \in Callers : Runs(c) /\ Runs(d) => c = d
    /\ circuit = "closed" => \A c \in Callers : Runs(c) => ~call[c].probe
    /\ probing => circuit = "elapsed" /\ \E c \in Callers : Runs(c)

BreakerInv == TypeOK /\ TrippedByFailures /\ Owned

\* A call that returned is a call.
LEMMA ReturnedType == Returned \in Calls
  BY DEF Returned, Calls, Phases

\* The initial state satisfies the invariant.
LEMMA BreakerInit == Init => BreakerInv
  <1> SUFFICES ASSUME Init PROVE BreakerInv
    OBVIOUS
  <1>1. TypeOK
    <2>1. call \in [Callers -> Calls]
      BY ReturnedType DEF Init
    <2>2. cache \in [Hashes -> {"none", "fresh", "stale"}]
      BY DEF Init
    <2>3. probing \in BOOLEAN /\ settled \subseteq Hashes
      BY Zenon DEF Init
    <2> QED
      BY <2>1, <2>2, <2>3, BreakerAssumption DEF Init, TypeOK
  <1>2. TrippedByFailures
    BY BreakerAssumption DEF Init, TrippedByFailures
  <1>3. Owned
    BY DEF Init, Owned, Runs, Returned
  <1> QED
    BY <1>1, <1>2, <1>3 DEF BreakerInv

-----------------------------------------------------------------------------
(* One lemma per action *)

\* A caller that only waits is not running.
LEMMA LookupKeeps ==
  ASSUME BreakerInv, NEW c \in Callers, NEW h \in Hashes, Lookup(c, h)
  PROVE  BreakerInv'
  <1> USE DEF BreakerInv
  <1>1. call' \in [Callers -> Calls]
    BY ReturnedType DEF TypeOK, Lookup, Return, Goto, Calls, Phases
  <1>2. TypeOK'
    BY <1>1 DEF TypeOK, Lookup, breaker
  <1>3. TrippedByFailures'
    BY BreakerAssumption DEF TypeOK, TrippedByFailures, Lookup, breaker
  <1>4. Owned'
    BY <1>1, <1>3, BreakerAssumption DEF TypeOK, TrippedByFailures, Owned, Runs, Calls, Returned, Lookup, Return, Goto, breaker
  <1> QED
    BY <1>2, <1>3, <1>4

\* A wait that times out counts only while the circuit is closed.
LEMMA SlotTimeoutKeeps ==
  ASSUME BreakerInv, NEW c \in Callers, SlotTimeout(c)
  PROVE  BreakerInv'
  <1> USE DEF BreakerInv
  <1>1. call' \in [Callers -> Calls]
    BY ReturnedType DEF TypeOK, SlotTimeout, Return, Goto, Calls, Phases
  <1>2. TypeOK'
    <2>1. probing' \in BOOLEAN
      BY Zenon DEF TypeOK, SlotTimeout, breaker, RecordFailure
    <2>2. failures' \in Nat /\ gen' \in Nat /\ circuit' \in {"closed", "open", "elapsed"}
      BY DEF TypeOK, SlotTimeout, breaker, RecordFailure
    <2>3. faults' \in 0 .. MaxFaults
      BY BreakerAssumption DEF TypeOK, SlotTimeout
    <2> QED
      BY <1>1, <2>1, <2>2, <2>3 DEF TypeOK, SlotTimeout
  <1>3. TrippedByFailures'
    BY BreakerAssumption DEF TypeOK, TrippedByFailures, SlotTimeout, breaker, RecordFailure
  <1>4. Owned'
    BY <1>1, <1>3, BreakerAssumption DEF TypeOK, TrippedByFailures, Owned, Runs, Calls, Returned, SlotTimeout, Return, Goto, breaker, RecordFailure
  <1> QED
    BY <1>2, <1>3, <1>4

\* An available circuit has no running call unless it is closed.
LEMMA AdmitCallKeeps ==
  ASSUME BreakerInv, NEW c \in Callers, AdmitCall(c)
  PROVE  BreakerInv'
  <1> USE DEF BreakerInv
  <1>1. call' \in [Callers -> Calls]
    BY ReturnedType DEF TypeOK, AdmitCall, Return, Goto, Calls, Phases
  <1>2. TypeOK'
    BY <1>1, Zenon DEF TypeOK, AdmitCall, breaker, Available
  <1>3. TrippedByFailures'
    BY BreakerAssumption DEF TypeOK, TrippedByFailures, AdmitCall, breaker, Available
  <1>4. Owned'
    BY <1>1, <1>3, BreakerAssumption DEF TypeOK, TrippedByFailures, Owned, Runs, Calls, Returned, AdmitCall, Return, Goto, breaker, Available
  <1> QED
    BY <1>2, <1>3, <1>4

\* A failure that trips the circuit starts a generation without running calls.
LEMMA CallFailsKeeps ==
  ASSUME BreakerInv, NEW c \in Callers, CallFails(c)
  PROVE  BreakerInv'
  <1> USE DEF BreakerInv
  <1>1. call' \in [Callers -> Calls]
    BY ReturnedType DEF TypeOK, CallFails, Return, Goto, Calls, Phases
  <1>2. TypeOK'
    <2>1. probing' \in BOOLEAN
      BY Zenon DEF TypeOK, CallFails, breaker, RecordFailure
    <2>2. failures' \in Nat /\ gen' \in Nat /\ circuit' \in {"closed", "open", "elapsed"}
      BY DEF TypeOK, CallFails, breaker, RecordFailure
    <2>3. faults' \in 0 .. MaxFaults
      BY BreakerAssumption DEF TypeOK, CallFails
    <2> QED
      BY <1>1, <2>1, <2>2, <2>3 DEF TypeOK, CallFails
  <1>3. TrippedByFailures'
    BY BreakerAssumption DEF TypeOK, TrippedByFailures, CallFails, breaker, RecordFailure
  <1>4. Owned'
    BY <1>1, <1>3, BreakerAssumption DEF TypeOK, TrippedByFailures, Owned, Runs, Calls, Returned, CallFails, Return, Goto, breaker, RecordFailure
  <1> QED
    BY <1>2, <1>3, <1>4

\* An answer of this generation comes from the probe when the circuit is tripped.
LEMMA CallAnswersKeeps ==
  ASSUME BreakerInv, NEW c \in Callers, CallAnswers(c)
  PROVE  BreakerInv'
  <1> USE DEF BreakerInv
  <1>1. call' \in [Callers -> Calls]
    BY ReturnedType DEF TypeOK, CallAnswers, Return, Goto, Calls, Phases
  <1>2. TypeOK'
    <2>1. probing' \in BOOLEAN
      BY Zenon DEF TypeOK, CallAnswers, breaker, RecordSuccess
    <2>2. failures' \in Nat /\ gen' \in Nat /\ circuit' \in {"closed", "open", "elapsed"}
      BY DEF TypeOK, CallAnswers, breaker, RecordSuccess
    <2>3. faults' \in 0 .. MaxFaults
      BY BreakerAssumption DEF TypeOK, CallAnswers
    <2> QED
      BY <1>1, <2>1, <2>2, <2>3 DEF TypeOK, CallAnswers
  <1>3. TrippedByFailures'
    BY BreakerAssumption DEF TypeOK, TrippedByFailures, CallAnswers, breaker, RecordSuccess
  <1>4. Owned'
    BY <1>1, <1>3, BreakerAssumption DEF TypeOK, TrippedByFailures, Owned, Runs, Calls, Returned, CallAnswers, Return, Goto, breaker, RecordSuccess
  <1> QED
    BY <1>2, <1>3, <1>4

\* Caching leaves the breaker alone.
LEMMA CachePutKeeps ==
  ASSUME BreakerInv, NEW c \in Callers, CachePut(c)
  PROVE  BreakerInv'
  <1> USE DEF BreakerInv
  <1>1. call' \in [Callers -> Calls]
    BY ReturnedType DEF TypeOK, CachePut, Return, Goto, Calls, Phases
  <1>2. TypeOK'
    BY <1>1, Zenon DEF TypeOK, CachePut, breaker
  <1>3. TrippedByFailures'
    BY BreakerAssumption DEF TypeOK, TrippedByFailures, CachePut, breaker
  <1>4. Owned'
    BY <1>1, <1>3, BreakerAssumption DEF TypeOK, TrippedByFailures, Owned, Runs, Calls, Returned, CachePut, Return, Goto, breaker
  <1> QED
    BY <1>2, <1>3, <1>4

\* A call that leaves recorded its outcome: its reservation is gone.
LEMMA LeaveKeeps ==
  ASSUME BreakerInv, NEW c \in Callers, Leave(c)
  PROVE  BreakerInv'
  <1> USE DEF BreakerInv
  <1>1. call' \in [Callers -> Calls]
    BY ReturnedType DEF TypeOK, Leave, Return, Goto, Calls, Phases
  <1>2. TypeOK'
    BY <1>1, Zenon DEF TypeOK, Leave, breaker, DropGuard
  <1>3. TrippedByFailures'
    BY BreakerAssumption DEF TypeOK, TrippedByFailures, Leave, breaker, DropGuard
  <1>4. Owned'
    BY <1>1, <1>3, BreakerAssumption DEF TypeOK, TrippedByFailures, Owned, Runs, Calls, Returned, Leave, Return, Goto, breaker, DropGuard
  <1> QED
    BY <1>2, <1>3, <1>4

\* A dropped probe gives the reservation back.
LEMMA CancelKeeps ==
  ASSUME BreakerInv, NEW c \in Callers, Cancel(c)
  PROVE  BreakerInv'
  <1> USE DEF BreakerInv
  <1>1. call' \in [Callers -> Calls]
    BY ReturnedType DEF TypeOK, Cancel, Return, Goto, Calls, Phases
  <1>2. TypeOK'
    BY <1>1, Zenon DEF TypeOK, Cancel, breaker, DropGuard
  <1>3. TrippedByFailures'
    BY BreakerAssumption, Zenon DEF TypeOK, TrippedByFailures, Cancel, breaker, DropGuard
  <1>4. Owned'
    <2> USE <1>1 DEF TypeOK, Owned, Runs, Calls, Returned, Return, breaker, DropGuard
    <2>1. CASE call[c].pc = "waiting"
      BY <2>1 DEF Cancel
    <2>2. CASE call[c].pc = "calling"
      <3>1. CASE call[c].probe /\ gen = call[c].gen
        BY <2>2, <3>1 DEF Cancel
      <3>2. CASE ~(call[c].probe /\ gen = call[c].gen)
        <4>1. probing => ~Runs(c)
          BY <3>2
        <4>2. UNCHANGED <<gen, circuit, probing>>
          BY <2>2, <3>2, Zenon DEF Cancel
        <4>3. \A d \in Callers : call'[d] = IF d = c THEN Returned ELSE call[d]
          BY DEF Cancel
        <4> QED
          BY <4>1, <4>2, <4>3
      <3> QED
        BY <3>1, <3>2
    <2> QED
      BY <2>1, <2>2 DEF Cancel
  <1> QED
    BY <1>2, <1>3, <1>4

\* Time and the backend start no call.
LEMMA TimeKeeps ==
  ASSUME BreakerInv,
         \/ CooldownElapses
         \/ \E h \in Hashes : EntryExpires(h) \/ Settles(h)
         \/ UNCHANGED vars
  PROVE  BreakerInv'
  <1> USE DEF BreakerInv
  <1>1. call' = call /\ gen' = gen /\ probing' = probing /\ failures' = failures
    BY DEF CooldownElapses, EntryExpires, Settles, vars, breaker
  <1>2. circuit' = circuit \/ (circuit = "open" /\ circuit' = "elapsed")
    BY DEF CooldownElapses, EntryExpires, Settles, vars, breaker
  <1>3. TypeOK'
    BY <1>1, <1>2 DEF TypeOK, CooldownElapses, EntryExpires, Settles, vars, breaker
  <1>4. TrippedByFailures'
    BY <1>1, <1>2 DEF TrippedByFailures
  <1>5. Owned'
    BY <1>1, <1>2 DEF Owned, Runs
  <1> QED
    BY <1>3, <1>4, <1>5

-----------------------------------------------------------------------------
(* Theorems *)

\* The invariant is inductive.
LEMMA BreakerStep == BreakerInv /\ [Next]_vars => BreakerInv'
  <1> SUFFICES ASSUME BreakerInv, [Next]_vars PROVE BreakerInv'
    OBVIOUS
  <1>1. CASE \E c \in Callers : \E h \in Hashes : Lookup(c, h)
    BY <1>1, LookupKeeps
  <1>2. CASE \E c \in Callers : SlotTimeout(c)
    BY <1>2, SlotTimeoutKeeps
  <1>3. CASE \E c \in Callers : AdmitCall(c)
    BY <1>3, AdmitCallKeeps
  <1>4. CASE \E c \in Callers : Ends(c)
    BY <1>4, CallFailsKeeps, CallAnswersKeeps DEF Ends
  <1>5. CASE \E c \in Callers : CachePut(c)
    BY <1>5, CachePutKeeps
  <1>6. CASE \E c \in Callers : Leave(c)
    BY <1>6, LeaveKeeps
  <1>7. CASE \E c \in Callers : Cancel(c)
    BY <1>7, CancelKeeps
  <1>8. CASE CooldownElapses \/ (\E h \in Hashes : EntryExpires(h) \/ Settles(h)) \/ UNCHANGED vars
    BY <1>8, TimeKeeps
  <1> QED
    BY <1>1, <1>2, <1>3, <1>4, <1>5, <1>6, <1>7, <1>8 DEF Next

\* The invariant holds in every reachable state.
LEMMA BreakerAlways == Spec => []BreakerInv
  BY BreakerInit, BreakerStep, PTL DEF Spec

\* No dropped caller strands the half-open reservation, for any number of callers
\* and slots: probe_in_flight always has a running owner.
THEOREM ReservationIsOwned == Spec => []ProbeHasOwner
  <1>1. BreakerInv => ProbeHasOwner
    BY DEF BreakerInv, Owned, Runs, ProbeHasOwner, Running
  <1> QED
    BY <1>1, BreakerAlways, PTL

\* A tripped circuit admits one lookup at a time, and none before its cooldown.
THEOREM ProbesAlone == Spec => []OneProbe
  <1>1. BreakerInv => OneProbe
    BY DEF BreakerInv, Owned, Runs, OneProbe, Running
  <1> QED
    BY <1>1, BreakerAlways, PTL

\* The circuit is tripped exactly while the counted failures reach the threshold.
THEOREM TripsAtThreshold == Spec => []TrippedByFailures
  <1>1. BreakerInv => TrippedByFailures
    BY DEF BreakerInv
  <1> QED
    BY <1>1, BreakerAlways, PTL

\* Only the answer to its own probe closes a tripped circuit.
THEOREM ProbeCloses == Spec => ClosedByProbe
  <1> DEFINE Closes == circuit # "closed" /\ circuit' = "closed" =>
                         \E c \in Running : call[c].probe /\ call'[c].pc # "calling"
  <1>1. ASSUME BreakerInv, [Next]_vars PROVE [Closes]_vars
    <2> SUFFICES ASSUME circuit # "closed", circuit' = "closed", Next
                 PROVE  \E c \in Running : call[c].probe /\ call'[c].pc # "calling"
      BY <1>1 DEF vars, breaker
    <2>1. PICK c \in Callers : CallAnswers(c)
      BY Zenon DEF Next, Ends, Lookup, SlotTimeout, AdmitCall, CallFails, CachePut, Leave, Cancel,
             CooldownElapses, EntryExpires, Settles, RecordFailure, DropGuard, breaker
    <2>2. Runs(c)
      BY <2>1 DEF CallAnswers, RecordSuccess, Runs, breaker
    <2>3. call[c].probe
      BY <1>1, <2>2 DEF BreakerInv, Owned, TypeOK
    <2>4. call'[c].pc # "calling"
      BY <1>1, <2>1 DEF CallAnswers, Goto, BreakerInv, TypeOK, Calls
    <2> QED
      BY <2>2, <2>3, <2>4 DEF Running, Runs
  <1> QED
    BY <1>1, BreakerAlways, PTL DEF Spec, ClosedByProbe

====

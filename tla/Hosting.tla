------------------------------- MODULE Hosting --------------------------------
(***************************************************************************)
(* The tenant's side of operator hosting: the task that pays each contract *)
(* a daily keysend (contracts/hosting_pay.rs), its contract row, and the   *)
(* payment history of the Lightning backend, which the task treats as the  *)
(* record of what was already paid.  One contract, one task; the clock is  *)
(* in units of which Day make DAY_SECS.                                    *)
(***************************************************************************)
EXTENDS Naturals, Sequences, FiniteSets

CONSTANTS
    Day,            \* DAY_SECS and DAILY_PAYMENT_INTERVAL
    OverdueDays,    \* OVERDUE_GRACE_DAYS
    PauseDays,      \* PAUSE_GRACE_DAYS
    Limit,          \* list_payments(500): the newest payments the task sees
    MemoKept,       \* does the backend's history carry a keysend's memo?
    MaxTime, MaxCrashes, MaxOthers, MaxKeysends     \* bounds

VARIABLES
    contract,   \* row of operator_hosting_contracts: last_paid_at (0: started_at), state
    ledger,     \* operator_hosting_payments: the keysends recorded
    history,    \* payments of the backend, oldest first
    pass,       \* where the task is, and the "now" of its pass
    due_at,     \* next tick of the interval
    marked,     \* keysends that mark_operator_hosting_contract_paid dated the row by
    now, crashes

vars == <<contract, ledger, history, pass, due_at, marked, now, crashes>>

States == {"active", "overdue", "paused"}
Idle == [at |-> "idle", now |-> 0, paid |-> 0]

\* Every variable has its type: what the ledger records is a payment of the history.
TypeOK ==
    /\ contract \in [last_paid_at : 0 .. MaxTime, state : States]
    /\ ledger \subseteq 1 .. Len(history) /\ marked \subseteq ledger
    /\ \A i \in 1 .. Len(history) :
           history[i] \in [ours : BOOLEAN, status : {"in_flight", "settled", "failed"},
                           began : 0 .. MaxTime, at : 0 .. MaxTime]
    /\ pass \in [at : {"idle", "keysend", "record", "mark"}, now : 0 .. MaxTime, paid : 0 .. Len(history)]
    /\ due_at \in 0 .. MaxTime + Day /\ now \in 0 .. MaxTime /\ crashes \in 0 .. MaxCrashes

Init ==
    /\ contract = [last_paid_at |-> 0, state |-> "active"]
    /\ ledger = {} /\ history = <<>> /\ pass = Idle
    /\ due_at = 0 /\ marked = {} /\ now = 0 /\ crashes = 0

-----------------------------------------------------------------------------
payment_due_at(t) == t - contract.last_paid_at >= Day

state_at(t) ==
    LET days == (t - contract.last_paid_at) \div Day
    IN IF days >= PauseDays THEN "paused" ELSE IF days >= OverdueDays THEN "overdue" ELSE "active"

\* The newest Limit payments.
list_payments ==
    LET newer(i) == {j \in DOMAIN history : \/ history[j].at > history[i].at
                                            \/ history[j].at = history[i].at /\ j > i}
    IN {i \in DOMAIN history : Cardinality(newer(i)) < Limit}

\* Mutant: a payment that settled counts from the moment of the scan only.
has_recent_outgoing_for_memo_NoWindow(t) ==
    \E i \in list_payments :
        history[i].ours /\ MemoKept /\ history[i].status = "settled" /\ history[i].at >= t

has_recent_outgoing_for_memo(t) ==
    \E i \in list_payments :
        /\ history[i].ours /\ MemoKept /\ history[i].status = "settled"
        /\ history[i].at >= (IF t <= Day THEN 0 ELSE t - Day)

-----------------------------------------------------------------------------
\* A tick of the interval, or the pass at startup: the contract is not due, or
\* the history shows that it was paid, or the task goes on to pay it.
pay_due_contracts_once ==
    /\ pass = Idle /\ now >= due_at
    /\ due_at' = due_at + Day
    /\ \/ /\ ~payment_due_at(now)
          /\ contract' = [contract EXCEPT !.state = state_at(now)]
          /\ UNCHANGED pass
       \/ /\ payment_due_at(now) /\ has_recent_outgoing_for_memo(now)
          /\ contract' = [last_paid_at |-> now, state |-> "active"]
          /\ UNCHANGED pass
       \/ /\ payment_due_at(now) /\ ~has_recent_outgoing_for_memo(now)
          /\ Cardinality({i \in DOMAIN history : history[i].ours}) < MaxKeysends
          /\ pass' = [at |-> "keysend", now |-> now, paid |-> 0]
          /\ UNCHANGED contract
    /\ UNCHANGED <<marked, ledger, history, now, crashes>>

Payment(ours, status) == [ours |-> ours, status |-> status, began |-> pass.now, at |-> now]

\* The keysend settles, or is refused, or comes back in flight, which the task
\* takes for a failure.
send_hosting_keysend ==
    /\ pass.at = "keysend"
    /\ \/ /\ history' = Append(history, Payment(TRUE, "settled"))
          /\ pass' = [pass EXCEPT !.at = "record", !.paid = Len(history) + 1]
          /\ UNCHANGED contract
       \/ /\ \/ history' = Append(history, Payment(TRUE, "in_flight"))
             \/ UNCHANGED history
          /\ pass' = Idle
          /\ contract' = [contract EXCEPT !.state = state_at(pass.now)]
    /\ UNCHANGED <<marked, ledger, due_at, now, crashes>>

record_operator_hosting_payment ==
    /\ pass.at = "record"
    /\ ledger' = ledger \cup {pass.paid}
    /\ pass' = [pass EXCEPT !.at = "mark"]
    /\ UNCHANGED <<marked, contract, history, due_at, now, crashes>>

mark_operator_hosting_contract_paid ==
    /\ pass.at = "mark"
    /\ contract' = [last_paid_at |-> history[pass.paid].at, state |-> "active"]
    /\ pass' = Idle
    /\ marked' = marked \cup {pass.paid}
    /\ UNCHANGED <<ledger, history, due_at, now, crashes>>

-----------------------------------------------------------------------------
\* The backend finishes a keysend in flight; the history dates a payment by its
\* latest update.
Resolve ==
    /\ \E i \in DOMAIN history, status \in {"settled", "failed"} :
           /\ history[i].status = "in_flight"
           /\ history' = [history EXCEPT ![i].status = status, ![i].at = now]
    /\ UNCHANGED <<marked, contract, ledger, pass, due_at, now, crashes>>

\* Any other payment of the node.
OtherPayment ==
    /\ Cardinality({i \in DOMAIN history : ~history[i].ours}) < MaxOthers
    /\ history' = Append(history, [Payment(FALSE, "settled") EXCEPT !.began = now])
    /\ UNCHANGED <<marked, contract, ledger, pass, due_at, now, crashes>>

\* A crash, and the pass the task makes as soon as it runs again.
Restart ==
    /\ crashes < MaxCrashes /\ crashes' = crashes + 1
    /\ pass' = Idle /\ due_at' = now
    /\ UNCHANGED <<marked, contract, ledger, history, now>>

Tick ==
    /\ now < MaxTime /\ now' = now + 1
    /\ UNCHANGED <<marked, contract, ledger, history, pass, due_at, crashes>>

Next ==
    \/ pay_due_contracts_once \/ send_hosting_keysend
    \/ record_operator_hosting_payment \/ mark_operator_hosting_contract_paid
    \/ Resolve \/ OtherPayment \/ Restart \/ Tick

Spec == Init /\ [][Next]_vars

-----------------------------------------------------------------------------
\* A pass that pays began at least a day after keysend i settled.
PaysForDay(i) ==
    history[i].status = "settled" =>
        \A j \in DOMAIN history \ {i} :
            history[j].ours /\ history[i].at < history[j].began
            => history[j].began - history[i].at >= Day

\* The task pays a contract once a day.  "This closes the ... crash window where
\* the keysend settles but mark_operator_hosting_contract_paid hasn't yet been
\* written": a pass never pays when a payment of the contract had settled within
\* the day before it began, whatever crashed in between.
PaidOncePerDay == \A i \in DOMAIN history : history[i].ours => PaysForDay(i)

\* Without memos in the history only the row is left to tell: a second payment within
\* the day needs a first one whose pass ended before it dated the row, by a crash
\* or because the keysend was still in flight.
MarkedPaysForDay == \A i \in marked : PaysForDay(i)

\* "The local storage row is a cache; the Lightning ledger is the source of truth":
\* when no pass is under way the row is never ahead of the last settled keysend by
\* more than the day a pass found it covered.
RowFollowsHistory ==
    contract.last_paid_at > 0 =>
        \E i \in DOMAIN history : /\ history[i].ours /\ history[i].status = "settled"
                                  /\ history[i].at <= contract.last_paid_at
                                  /\ contract.last_paid_at - history[i].at <= Day
===============================================================================

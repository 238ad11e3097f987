------------------------------- MODULE Delivery -------------------------------
(***************************************************************************)
(* What paid delivery promises, whatever the link and the two nodes do:    *)
(* the recipient decides once per paid message whether it keeps or refuses *)
(* it, and the sender's verdict is that decision.                          *)
(***************************************************************************)
CONSTANT Msgs

VARIABLES
    outcome,    \* per message, at the recipient: "open", "kept" or "refused"
    verdict     \* per message, at the sender: "waiting", "acked" or "failed"

Init ==
    /\ outcome = [m \in Msgs |-> "open"]
    /\ verdict = [m \in Msgs |-> "waiting"]

Decide(m) ==
    /\ outcome[m] = "open"
    /\ \E o \in {"kept", "refused"} : outcome' = [outcome EXCEPT ![m] = o]
    /\ UNCHANGED verdict

Learn(m) ==
    /\ verdict[m] = "waiting" /\ outcome[m] # "open"
    /\ verdict' = [verdict EXCEPT ![m] = IF outcome[m] = "kept" THEN "acked" ELSE "failed"]
    /\ UNCHANGED outcome

Next == \E m \in Msgs : Decide(m) \/ Learn(m)

Spec == Init /\ [][Next]_<<outcome, verdict>>

====

------------------------------ MODULE Transport -------------------------------
(***************************************************************************)
(* The connection between two nodes: connect_to_peer, handle_incoming,     *)
(* the peer map with its generations, the reader task's cleanup, and the   *)
(* supervisor that dials again (crates/konsensus-message/src/transport).   *)
(*                                                                         *)
(* Node "lo" has the lower NodeId.  A socket is a number, reused when no   *)
(* task holds it.  Of a handshake only its last message is kept, the       *)
(* HelloAck of the acceptor; frames, keepalive and backpressure are one    *)
(* way for a socket to fail.  Both nodes admit each other (PriceOpen, or a *)
(* whitelist with the other on it): a rejection before the HelloAck is one *)
(* of the ways a handshake is given up.                                    *)
(***************************************************************************)
EXTENDS Naturals

CONSTANTS
    Sockets,
    Casual,     \* nodes for which the other is no contact: they dial while interested
    MaxFaults,  \* bound on sockets that fail, dials that are given up, bans
    MaxCalls    \* bound on the owner's and the operations' calls

VARIABLES
    dialer,     \* node that dialled each socket
    acked,      \* the acceptor sent its HelloAck
    cut,        \* the TCP connection is shut down
    ends,       \* per node, what it holds of each socket
    peers,      \* PeerMap: the socket registered for the other node
    dial,       \* the dial under the node's dial lock
    worker,     \* supervision entry: where its worker is
    saw,        \* has_session as the worker read it
    interest,   \* its Interest
    session,    \* SessionManager has a session with the other node
    held,       \* an operation holds the handle its entry's Interest refers to
    banned,     \* banned_peers has the other node
    faults, calls

sockets == <<dialer, acked, cut, ends, peers>>
reasons == <<interest, session, held>>
vars == <<sockets, dial, worker, saw, reasons, banned, faults, calls>>

Pair == {"lo", "hi"}
Peer(n) == IF n = "lo" THEN "hi" ELSE "lo"
NoSocket == 0
NoInterest == [contact |-> FALSE, operation |-> FALSE, quote |-> FALSE]

TypeOK ==
    /\ dialer \in [Sockets -> Pair]
    /\ acked \in [Sockets -> BOOLEAN] /\ cut \in [Sockets -> BOOLEAN]
    /\ ends \in [Pair -> [Sockets -> {"none", "pending", "open", "leaving", "closed"}]]
    /\ peers \in [Pair -> Sockets \cup {NoSocket}]
    /\ dial \in [Pair -> [at : {"idle", "shaking"}, s : Sockets \cup {NoSocket}, by : {"worker", "connect"}]]
    /\ worker \in [Pair -> {"none", "look", "decide", "dial"}]
    /\ interest \in [Pair -> [contact : BOOLEAN, operation : BOOLEAN, quote : BOOLEAN]]
    /\ saw \in [Pair -> BOOLEAN] /\ session \in [Pair -> BOOLEAN] /\ held \in [Pair -> BOOLEAN] /\ banned \in [Pair -> BOOLEAN]
    /\ faults \in 0 .. MaxFaults /\ calls \in 0 .. MaxCalls

NoDial == [at |-> "idle", s |-> NoSocket, by |-> "worker"]

Init ==
    /\ dialer = [s \in Sockets |-> "lo"]
    /\ acked = [s \in Sockets |-> FALSE] /\ cut = [s \in Sockets |-> TRUE]
    /\ ends = [n \in Pair |-> [s \in Sockets |-> "none"]]
    /\ peers = [n \in Pair |-> NoSocket]
    /\ dial = [n \in Pair |-> NoDial]
    /\ worker = [n \in Pair |-> IF n \in Casual THEN "none" ELSE "look"]
    /\ interest = [n \in Pair |-> [NoInterest EXCEPT !.contact = n \notin Casual]]
    /\ saw = [n \in Pair |-> FALSE] /\ session = [n \in Pair |-> FALSE]
    /\ held = [n \in Pair |-> FALSE]
    /\ banned = [n \in Pair |-> FALSE]
    /\ faults = 0 /\ calls = 0

Fault == faults < MaxFaults /\ faults' = faults + 1
Call == calls < MaxCalls /\ calls' = calls + 1

-----------------------------------------------------------------------------
(* Connection: register, close, remove *)

outbound(n, s) == dialer[s] = n

\* Mutant: each node prefers the socket it dialled.
prefer_existing_direction_Own(n, old, new) == outbound(n, old) /\ ~outbound(n, new)

\* Of two sockets in opposite directions both nodes keep the one lo dialled.
prefer_existing_direction(n, old, new) ==
    outbound(n, old) # outbound(n, new) /\ outbound(n, old) = (n = "lo")

is_closed(n, s) == ends[n][s] = "closed"
Live(n) == peers[n] # NoSocket /\ ~is_closed(n, peers[n])

register(n, s) ==
    LET old == peers[n] IN
    IF Live(n) /\ prefer_existing_direction(n, old, s)
    THEN /\ ends' = [ends EXCEPT ![n][s] = "none"]
         /\ cut' = [cut EXCEPT ![s] = TRUE]
         /\ UNCHANGED peers
    ELSE /\ peers' = [peers EXCEPT ![n] = s]
         /\ ends' = [ends EXCEPT ![n] = [t \in Sockets |->
                         IF t = s THEN "open" ELSE IF t = old THEN "closed" ELSE @[t]]]
         /\ cut' = [t \in Sockets |-> cut[t] \/ t = old]

\* Reading is a task's work until the socket is closed; a socket is "leaving" while
\* disconnect has taken it from the map and not yet closed it.
reading(n, s) == ends[n][s] \in {"open", "leaving"}

\* The reader fails, its peer is gone or says Disconnect: the socket is closed at
\* once, and taken from the map later.
close(n, s) ==
    /\ reading(n, s) /\ (cut[s] \/ ends[Peer(n)][s] = "leaving")
    /\ ends' = [ends EXCEPT ![n][s] = "closed"]
    /\ cut' = [cut EXCEPT ![s] = TRUE]
    /\ UNCHANGED <<dialer, acked, peers, dial, worker, saw, reasons, banned, faults, calls>>

\* Only this generation leaves the map.
remove(n, s) ==
    /\ is_closed(n, s)
    /\ ends' = [ends EXCEPT ![n][s] = "none"]
    /\ peers' = [peers EXCEPT ![n] = IF @ = s THEN NoSocket ELSE @]
    /\ UNCHANGED <<dialer, acked, cut, dial, worker, saw, reasons, banned, faults, calls>>

-----------------------------------------------------------------------------
(* connect_to_peer and handle_incoming *)

Free == {s \in Sockets : \A n \in Pair : ends[n][s] = "none" /\ peers[n] # s}

\* The dial lock is ours and there is no live socket; a live one would do.
Dials(n, by) ==
    /\ dial[n].at = "idle"
    /\ IF Live(n) THEN UNCHANGED <<sockets, dial>>
       ELSE \E s \in Free :
              /\ \A t \in Free : s <= t
              /\ dialer' = [dialer EXCEPT ![s] = n]
              /\ acked' = [acked EXCEPT ![s] = FALSE] /\ cut' = [cut EXCEPT ![s] = FALSE]
              /\ ends' = [m \in Pair |-> [ends[m] EXCEPT ![s] = "pending"]]
              /\ dial' = [dial EXCEPT ![n] = [at |-> "shaking", s |-> s, by |-> by]]
              /\ UNCHANGED peers

\* A target the owner dialled is supervised from then on.
Tracked(n) == IF worker[n] = "none" THEN "look" ELSE worker[n]

\* The initiator has the HelloAck and registers.
connect_to_peer(n) ==
    LET s == dial[n].s IN
    /\ dial[n].at = "shaking" /\ acked[s] /\ ends[n][s] = "pending"
    /\ register(n, s)
    /\ dial' = [dial EXCEPT ![n] = NoDial]
    /\ worker' = [worker EXCEPT ![n] = IF dial[n].by = "worker" THEN "look" ELSE Tracked(n)]
    /\ UNCHANGED <<dialer, acked, saw, reasons, banned, faults, calls>>

\* perform_federation_handshake_responder
HelloAck(n, s) ==
    /\ ends[n][s] = "pending" /\ dialer[s] # n /\ ~acked[s] /\ ~cut[s]
    /\ acked' = [acked EXCEPT ![s] = TRUE]
    /\ UNCHANGED <<dialer, cut, ends, peers, dial, worker, saw, reasons, banned, faults, calls>>

\* After it: the ban check, and the registration.
handle_incoming(n, s) ==
    /\ ends[n][s] = "pending" /\ dialer[s] # n /\ acked[s]
    /\ IF banned[n]
       THEN /\ ends' = [ends EXCEPT ![n][s] = "none"]
            /\ cut' = [cut EXCEPT ![s] = TRUE]
            /\ UNCHANGED peers
       ELSE register(n, s)
    /\ UNCHANGED <<dialer, acked, dial, worker, saw, reasons, banned, faults, calls>>

\* The handshake fails: the other end is gone, a deadline passes, or the task is
\* aborted.
Fails(n, s) ==
    /\ ends' = [ends EXCEPT ![n][s] = "none"]
    /\ cut' = [cut EXCEPT ![s] = TRUE]
    /\ IF dial[n].s = s
       THEN /\ dial' = [dial EXCEPT ![n] = NoDial]
            /\ worker' = [worker EXCEPT ![n] = IF dial[n].by = "worker" THEN "look" ELSE @]
       ELSE UNCHANGED <<dial, worker>>
    /\ UNCHANGED <<dialer, acked, peers, saw, reasons, banned, calls>>

Refused(n, s) == ends[n][s] = "pending" /\ cut[s] /\ Fails(n, s) /\ UNCHANGED faults
GivesUp(n, s) == ends[n][s] = "pending" /\ ~cut[s] /\ Fails(n, s) /\ Fault

\* The network, a full reply queue or a missed keepalive.
SocketFails(s) ==
    /\ ~cut[s] /\ Fault
    /\ cut' = [cut EXCEPT ![s] = TRUE]
    /\ UNCHANGED <<dialer, acked, ends, peers, dial, worker, saw, reasons, banned, calls>>

\* The reader bans the peer and stops.
Bans(n, s) ==
    /\ reading(n, s) /\ ~banned[n] /\ Fault
    /\ banned' = [banned EXCEPT ![n] = TRUE]
    /\ cut' = [cut EXCEPT ![s] = TRUE]
    /\ ends' = [ends EXCEPT ![n][s] = "closed"]
    /\ UNCHANGED <<dialer, acked, peers, dial, worker, saw, reasons, calls>>

BanExpires(n) ==
    /\ banned[n]
    /\ banned' = [banned EXCEPT ![n] = FALSE]
    /\ UNCHANGED <<sockets, dial, worker, saw, reasons, faults, calls>>

-----------------------------------------------------------------------------
(* The supervisor *)

wanted(n) ==
    saw[n] \/ interest[n].contact \/ (interest[n].operation /\ held[n]) \/ interest[n].quote

\* The loop: while connected it sleeps; otherwise it reads has_session, and
\* goes on to decide with what it read.
WorkerLooks(n) ==
    /\ worker[n] = "look" /\ peers[n] = NoSocket
    /\ worker' = [worker EXCEPT ![n] = "decide"]
    /\ saw' = [saw EXCEPT ![n] = session[n]]
    /\ UNCHANGED <<sockets, dial, reasons, banned, faults, calls>>

\* Mutant: what keeps the worker is the contact and the session alone.
retire_if_unwanted_NoHandles(n) ==
    /\ worker[n] = "decide" /\ ~(saw[n] \/ interest[n].contact)
    /\ worker' = [worker EXCEPT ![n] = "none"]
    /\ interest' = [interest EXCEPT ![n] = NoInterest]
    /\ UNCHANGED <<sockets, dial, saw, session, held, banned, faults, calls>>

\* Under the lock of the map, where reasons are acquired too.
retire_if_unwanted(n) ==
    /\ worker[n] = "decide" /\ ~wanted(n)
    /\ worker' = [worker EXCEPT ![n] = "none"]
    /\ interest' = [interest EXCEPT ![n] = NoInterest]
    /\ UNCHANGED <<sockets, dial, saw, session, held, banned, faults, calls>>

\* Past the check; a ban is waited out.
WorkerGoesOn(n) ==
    /\ worker[n] = "decide" /\ wanted(n)
    /\ worker' = [worker EXCEPT ![n] = IF banned[n] THEN "look" ELSE "dial"]
    /\ UNCHANGED <<sockets, dial, saw, reasons, banned, faults, calls>>

\* It has the dial lock.
WorkerDials(n) ==
    /\ worker[n] = "dial"
    /\ Dials(n, "worker")
    /\ worker' = [worker EXCEPT ![n] = IF Live(n) THEN "look" ELSE @]
    /\ UNCHANGED <<saw, reasons, banned, faults, calls>>

\* The worker is aborted, and with it its dial.
Abort(n) ==
    IF dial[n].at = "shaking" /\ dial[n].by = "worker"
    THEN /\ dial' = [dial EXCEPT ![n] = NoDial]
         /\ ends' = [ends EXCEPT ![n][dial[n].s] = "none"]
         /\ cut' = [cut EXCEPT ![dial[n].s] = TRUE]
    ELSE UNCHANGED <<dial, ends, cut>>

\* track_peer on an entry at the same address, or on none; at a new address the
\* worker is aborted with its dial, and the next one takes over the interest.
track_peer(n, contact, moved) ==
    /\ interest' = [interest EXCEPT ![n].contact = @ \/ contact]
    /\ IF worker[n] # "none" /\ ~moved
       THEN UNCHANGED <<worker, dial, ends, cut>>
       ELSE worker' = [worker EXCEPT ![n] = "look"] /\ Abort(n)

supervise_peer(n) ==
    /\ n \in Casual /\ Call
    /\ \E contact, moved \in BOOLEAN : track_peer(n, contact, moved)
    /\ UNCHANGED <<dialer, acked, peers, saw, session, held, banned, faults>>

\* The owner's dial.
connect(n) ==
    /\ n \in Casual /\ Call
    /\ Dials(n, "connect")
    /\ worker' = [worker EXCEPT ![n] = IF Live(n) THEN Tracked(n) ELSE @]
    /\ UNCHANGED <<saw, reasons, banned, faults>>

\* remove_from_whitelist, or an address that cannot be dialled.  A handle given out
\* before counts no more: the next entry starts with an Interest of its own.
stop_supervising(n) ==
    /\ n \in Casual /\ worker[n] # "none" /\ Call
    /\ worker' = [worker EXCEPT ![n] = "none"]
    /\ interest' = [interest EXCEPT ![n] = NoInterest]
    /\ held' = [held EXCEPT ![n] = FALSE]
    /\ Abort(n)
    /\ UNCHANGED <<dialer, acked, peers, saw, session, banned, faults>>

\* retain_peer gives an operation a handle while there is a worker.
retain_reconnect(n) ==
    /\ n \in Casual /\ worker[n] # "none" /\ ~held[n] /\ Call
    /\ held' = [held EXCEPT ![n] = TRUE]
    /\ interest' = [interest EXCEPT ![n].operation = TRUE]
    /\ UNCHANGED <<sockets, dial, worker, saw, session, banned, faults>>

OperationEnds(n) ==
    /\ held[n]
    /\ held' = [held EXCEPT ![n] = FALSE]
    /\ UNCHANGED <<sockets, dial, worker, saw, interest, session, banned, faults, calls>>

\* reconnect_for a quote, and the quote running out.
extend_reconnect(n) ==
    /\ n \in Casual /\ worker[n] # "none" /\ ~interest[n].quote /\ Call
    /\ interest' = [interest EXCEPT ![n].quote = TRUE]
    /\ UNCHANGED <<sockets, dial, worker, saw, session, held, banned, faults>>

QuoteExpires(n) ==
    /\ interest[n].quote
    /\ interest' = [interest EXCEPT ![n].quote = FALSE]
    /\ UNCHANGED <<sockets, dial, worker, saw, session, held, banned, faults, calls>>

\* disconnect takes the entry from the map; "the reader owns another Arc: removal
\* alone does not close it".
disconnect(n) ==
    /\ peers[n] # NoSocket /\ Fault
    /\ peers' = [peers EXCEPT ![n] = NoSocket]
    /\ ends' = [ends EXCEPT ![n][peers[n]] = IF @ = "open" THEN "leaving" ELSE @]
    /\ UNCHANGED <<dialer, acked, cut, dial, worker, saw, reasons, banned, calls>>

\* It closes the socket once the Disconnect frame is out, a second is over, or the
\* caller is gone.
CloseOnDrop(n, s) ==
    /\ ends[n][s] = "leaving"
    /\ ends' = [ends EXCEPT ![n][s] = "closed"]
    /\ cut' = [cut EXCEPT ![s] = TRUE]
    /\ UNCHANGED <<dialer, acked, peers, dial, worker, saw, reasons, banned, faults, calls>>

\* The two open a session over a live connection, or one is reset.
SessionChanges(n) ==
    /\ n \in Casual /\ Call
    /\ ~session[n] => Live(n)
    /\ session' = [session EXCEPT ![n] = ~@]
    /\ UNCHANGED <<sockets, dial, worker, saw, interest, held, banned, faults>>

-----------------------------------------------------------------------------
\* The steps of the worker before it dials, and of one end of a socket from the
\* handshake to its removal: the end only moves on with them.
WorkerTurns(n) == WorkerLooks(n) \/ WorkerGoesOn(n)
EndGetsOn(n, s) ==
    \/ HelloAck(n, s) \/ handle_incoming(n, s) \/ Refused(n, s)
    \/ close(n, s) \/ CloseOnDrop(n, s) \/ remove(n, s)

Connects(n) ==
    \/ connect_to_peer(n) \/ WorkerTurns(n) \/ WorkerDials(n)
    \/ \E s \in Sockets : EndGetsOn(n, s)

Next ==
    \/ \E s \in Sockets : SocketFails(s)
    \/ \E n \in Pair :
        \/ Connects(n) \/ BanExpires(n)
        \/ \E s \in Sockets : GivesUp(n, s) \/ Bans(n, s)
        \/ retire_if_unwanted(n)
        \/ supervise_peer(n) \/ connect(n) \/ stop_supervising(n) \/ retain_reconnect(n)
        \/ OperationEnds(n) \/ extend_reconnect(n) \/ QuoteExpires(n) \/ disconnect(n)
        \/ SessionChanges(n)

Spec == Init /\ [][Next]_vars

\* The tasks run, and a ban runs out.
Fairness ==
    \A n \in Pair :
        /\ WF_vars(connect_to_peer(n)) /\ WF_vars(WorkerTurns(n)) /\ SF_vars(WorkerDials(n))
        /\ WF_vars(BanExpires(n)) /\ \A s \in Sockets : WF_vars(EndGetsOn(n, s))
FairSpec == Spec /\ Fairness

-----------------------------------------------------------------------------
\* Unless the owner's disconnect is about to close it, a socket with a reader is the
\* one in the map: "the old reader's cleanup cannot remove the replacement", and a
\* replaced or rejected socket leaves no reader behind.
OpenIsRegistered == \A n \in Pair, s \in Sockets : ends[n][s] = "open" => peers[n] = s

\* "A caller either retains this worker or observes that it has already retired":
\* an operation with a handle has a supervisor until the owner stops it.
RetainedIsSupervised == \A n \in Pair : held[n] => worker[n] # "none"

\* A node that has the other as a contact gets and keeps a connection that both
\* use, whatever crossed, failed or was banned on the way: "Both endpoints select
\* the lower NodeId as initiator when opposite directions collide".
Connected == peers["lo"] = peers["hi"] /\ \A n \in Pair : Live(n) /\ ~cut[peers[n]]
Linked == <>[]Connected
===============================================================================

# A verification of BitSov's paid protocols

BitSov is a mesh node that sends messages, calls and channel grants against Lightning
payments. This directory holds TLA+ models of the parts of the node that move or account
for money, or that decide whether something paid for arrives; TLC configurations that check
them on small instances; and TLAPS proofs of the properties that matter most for every
value of the constants. `PROJECT.json` maps every definition to the lines it models, lists
the hazards each property answers, and names the runs, the theorems and the findings.

- Check a run: `tlc -workers 2 -config MCServices.cfg MCServices` (cfg and module of each
  run are listed below).
- Check the proofs of a module: `tlapm OperationsProofs.tla`.

## The system and its modules

| Part of the system | Source (under `src/crates`) | Modules |
| --- | --- | --- |
| Durable paid operation: outbox journal, payment, recovery | `konsensus-api/src/handlers/messages/operations.rs`, `konsensus-storage/src/sqlite.rs` | `Operations`, `OperationsInv`, `MCOperations`; proofs in `OperationsProofs`, `OperationsBudget` |
| Circuit breaker of the settlement lookups | `konsensus-lightning/src/circuit_breaker.rs` | `CircuitBreaker`, `MCCircuitBreaker`, `CircuitBreakerProofs` |
| Pacing of the recovery resends | `operations.rs` (`recover_paid`) | `ResendPacing` |
| Spend grants | `konsensus-api/src/spend_budget.rs`, `spend_budget/calls.rs`, `pairing.rs`, `pairing/call_spend.rs` | `SpendLedger`, `MCSpendLedger`; proofs in `SpendLedgerKept`, `SpendLedgerProofs` |
| Delivery of a paid envelope | `konsensus-node/src/msg_handler.rs`, `pending_handler.rs`, `session_handler.rs`, `housekeeping.rs`, `sqlite.rs` | `PaidDelivery`, and `Delivery`, what it promises; `DeliveryProofs` |
| Paid 1:1 calls | `konsensus-core/src/payloads/call.rs`, `konsensus-api/src/calls.rs` | `Calls` |
| E2EE session negotiation | `konsensus-node/src/session_handler.rs`, `konsensus-crypto/src/session.rs` | `Sessions` |
| Mesh transport and its supervisor | `konsensus-message/src/transport/` | `Transport` |
| Relay mailboxes | `konsensus-node/src/relay/` | `RelayStore`, and `Relay`, the mailbox it implements; `RelayProofs` |
| Starter hub and auto-channel worker | `konsensus-node/src/onboarding/starter_hub.rs`, `konsensus-storage/src/starter.rs` | `StarterHub` |
| Newcomer's starter requests | `onboarding/starter_newcomer.rs`, `konsensus-storage/src/starter_request.rs` | `StarterRequests`, `StarterRequestsProofs` |
| Operator hosting payments | `konsensus-node/src/contracts/hosting_pay.rs` | `Hosting` |
| Sponsor kits | `konsensus-api/src/handlers/sponsor.rs` | `Sponsor` |

How the parts interact: a POST of a message reserves budget in a spend grant
(`SpendLedger`), pays under the journal's protection (`Operations`), asking Lightning for
outcomes through the breaker (`CircuitBreaker`), and queues an envelope. The sweep resends
it at a paced rate (`ResendPacing`) over a connection that the transport keeps up
(`Transport`), under an E2EE session both sides can read (`Sessions`). The recipient accepts
it at most once (`PaidDelivery`). A call is a sequence of such operations (`Calls`); its
minutes are drawn from a hold in the grant (`SpendLedger`). The others (relay, starter
channels, hosting, sponsor kits) move money or stored messages by protocols of their own.
`Operations` includes the ledger's reservation and the delivery queue as far as its journal
reads them; `PaidDelivery` composes both ends of a delivery with the link between them;
`StarterHub` composes the two workers that open channels for the same invites.

### State and actions

Each module cuts its handlers where the code awaits, unlocks or commits, because there a
crash, a cancelled request or another task may come in between. A handler that holds a lock
or a transaction throughout is one action, with everything it writes.

- **Operations.** `row` is the journal row of one operation (state, execution id, payment
  hash, dispatch intent, settlement, queue of resolutions) and `current` the processes whose
  copy of it has the stored version. `proc[p]` is the program a process runs: the POST
  (`compose_locked`), the paying worker, the recovery sweep, abandon. `late` holds updates
  that the SQL worker still has of a dropped request. `wallet`, `payer` are what Lightning
  knows per hash, `ledger` the reservation per execution, `pend`, `del`, `flushing` the queue.
  `Save` is the compare-and-swap on the version column; `Stop` is a crash or a
  cancellation at any step.
- **CircuitBreaker.** State, generation, failures and probe reservation of the breaker,
  slots, the cache of negative answers, and one lookup per caller.
- **ResendPacing.** The pace of one operation, the connection it belongs to, and the two
  separate reads of the connection that the sweep makes.
- **SpendLedger.** `mem` is the budget in memory, `disk` the set of contents that a restart
  may find: a rename that was not yet synced leaves two. Every operation works on a copy
  and `Persist` writes it or rolls memory back. `pay` is the fate of each payment.
- **PaidDelivery.** The sender's queue row, frames and replies on a link that drops, and the
  receive loop cut at its writes: receipt, hold, ratchet, plaintext, release,
  acknowledgement. Housekeeping withdraws old holds and deletes old messages beside it.
- **Calls.** The call row of both nodes, each signal from reservation over invoice,
  dispatch and settlement to its receipt, expiry, grants and acknowledgements, and a clock.
- **Sessions.** Per node the session in use, the unconfirmed replacement and the retired
  ones, with what is saved on disk; offers, inits, acknowledgements and envelopes under way.
- **Transport.** Sockets with the state each end sees, the peer map of each node, dials,
  bans, and the supervising worker with its reasons to keep a peer.
- **RelayStore.** Bindings with rows, byte counter and sequence, cooldowns, and the clock
  of expiry. **StarterHub.** Invites, grants, open operations, the steps of both workers and
  the channels Lightning funds, late ones included. **StarterRequests.** Request rows and the
  rank of each in time, the worker's possibly stale copy, and any answer of the hub. **Hosting.** One contract, the
  payment history as the backend lists it, and a pass cut at its writes. **Sponsor.** Kits,
  offers, approval calls, reconciliations, and a wall clock that may be set back.

## The runs

"Safe" properties conjoin the invariants that one component keeps; each conjunct is stated
and commented in the component's module.

| Run | Config, module | What it shows |
| --- | --- | --- |
| `operation_recovery` | `MCOperations_recovery.cfg`, `MCOperations` | One operation of a paired client from POST to compaction. At most one payment settles or may settle (`PaidOnce`); a result reported as unpaid stays unpaid (`UnpaidMeansUnpaid`); the reservation is charged or released as the payment went (`BudgetFollowsPayment`); queue and journal agree (`QueueMatchesRow`); no step removes settlement evidence (`EvidenceStays`) or leaves a terminal state (`TerminalStays`). |
| `operation_two_processes` | `MCOperations_two.cfg`, `MCOperations` | Two processes on one database keep the inductive invariant of the proofs (`Inv`), with no lock between them. |
| `breaker` | `MCCircuitBreaker.cfg`, `MCCircuitBreaker` | One probe at a time (`OneProbe`), owned by a running call (`ProbeHasOwner`); only its answer closes a tripped circuit (`ClosedByProbe`); once the backend stops failing the circuit closes for good (`Recovers`). |
| `ledger` | `MCSpendLedger.cfg`, `MCSpendLedger` | A client's grant and a grant of relation envelopes: used equals reserved plus paid in every content a restart may find (`Tally`); no payment is under way that a restart would not find reserved (`CountedBeforePaid`); a block is paid once (`BlockPaidOnce`); unresolved payments cannot exceed the failure limit (`FailureSlots`); and for the relations, where no provider overruns: the tally, envelopes that stay within the owner's approval and add up to the budget (`RelationEnvelopes`), and a call's reservation is conserved (`RelationCallConserved`). The last two instantiate `WithinApproval`, `EnvelopeTotal` and `CallConserved` of `SpendLedger`, which the theorems state. |
| `delivery_safety` | `PaidDelivery_safety.cfg`, `PaidDelivery` | The path of two messages implements `Delivery` (`Delivers`); what is acknowledged is kept and visible (`AckedMeansKept`); a message is shown at most once (`ShownOnce`). |
| `services` | `MCServices.cfg`, `MCServices` | Safety of seven components that share no state (below). |
| `progress` | `MCProgress.cfg`, `MCProgress` | Progress of six components; the relay's safety and refinement (below). |
| `delivery_inherited_hold`, `delivery_definitive`, `delivery_undecryptable`, `hosting_memo`, `calls_hangup` | `PaidDelivery_inherited.cfg`, `PaidDelivery_definitive.cfg`, `PaidDelivery_undecryptable.cfg`, `Hosting_memo.cfg`, `Calls_hangup.cfg` | Violations; see Findings. |

In `services` and `progress` the first state chooses an *area*, and only that component
moves; this checks several independent specifications in one run and changes none of them.

- `services`: `CallsSafe` (no block is paid twice by a caller that retries; credit never runs
  further ahead than one block and the lead), `PaidIsServed` (a settled block is turned away
  only after the end of the call or of the time to resume), `NoticeHarmless` (an unpaid notice
  from the peer ends no paid interval; the callee's own notice, pending when a block revives the
  call, is not covered), `GrantsSafe` (one channel per invite over both openers and all their
  attempts; a refused grant is unfunded; the daily cap and the budget hold), `HostingSafe`,
  `KitsSafe` (the purse holds when the clock is set back; a failed kit is unpaid; one open kit),
  `TransportSafe` (a retained peer is supervised; a socket that is read is in the map, or
  `disconnect` is about to close it), `ConfirmedIsHeld`, `RequestsSafe` and `NoBlindSuccessor`
  (one live request, bounded successors, none while the outcome is uncertain).

  `HostingSafe` has two instances. With a backend that keeps memos the contract is paid once a
  day, crashes included (`PaidOncePerDay`); of the backends only the mock is one. LDK and LND
  return no memo (`ldk.rs:2835`, `lnd.rs:1142`), and CLN and LNbits have no keysend. For them
  only a payment whose pass ended with the dated row is not repeated within the day
  (`MarkedPaysForDay`); the rest is the finding `hosting_memo`.

  `ConfirmedIsHeld`: an acknowledgement makes a node use a session that the other one holds,
  though frames may be slower than the timers. One acknowledgement is excepted by the property:
  one that comes when a later init is already under way (`LateAck`). It names no session and
  confirms the wrong one; `CHANGELOG.md:51` knows of it: "a late `SessionAck`, can still retire
  a working session until key confirmation lands".
- `progress`: `SessionsSafe` (what one side encrypts with, the other can read, while each
  switches) and `Converges` (both ends settle on one session), both stated only for frames that
  are handled before the timers of 10 s and 15 s (`session_handler.rs:90`) run out (`Quick`): the
  late acknowledgement above breaks the first; `Resends` (a paid
  operation is attempted again and again, spaced), `Linked` (two nodes that want each other
  get and keep one connection), `Decided` (a message leaves the queue once the gate stops
  failing), `LateFundingReady` (a request becomes ready after its delivery
  was given up), `GrantsFinish` (an admission whose invite expired, was revoked or was taken
  frees its budget; the invite of a ready
  grant is accepted in the end), `RelaySafe` (the byte counter is exact; the cooldown cannot be
  cycled) and `IsMailbox` (the relay's engine over its store implements the mailbox of `Relay`).

### Bounds, and why they are enough

- `operation_recovery`: one process with two executions, two hashes and one late update. A
  second payment needs a second execution with a fresh hash; a lost update needs one late
  write. A crash is a step of the process, without a bound. The data directory is held by a
  lock file, so the budget and queue properties are about one process.
- `operation_two_processes`: two processes, two executions, two hashes, up to the paid commit
  (`BeforeDelivery`); the payment is decided by then. The proofs have no such bound.
- `breaker`: three callers over two slots and a threshold of two, so that a third caller waits
  while the circuit trips; four faults, so that it trips, is probed and trips again.
- `ledger`: a hold and two other ids, budget 4, one overrun, restart and breaker reset; for
  relations two peers, a hold and an id, two renewals. A draw, its call and a message
  compete for a budget that covers two of them.
- `delivery_safety`: two messages and one failed write or crash (`OneTrouble`), one dropped
  connection. In `progress`: one message, two failed writes, a crash and a dropped
  connection together, with a price that moves, and one step of age before a hold is swept.
- Calls: two blocks of two ticks over four ticks, and one block tried twice over three ticks;
  lead, grace and margins of one tick, so each window opens and closes within the bound. Both
  nodes read one clock.
- Relay: two depositors, two messages, quotas of 2 and 3, three ticks.
  Hub: one peer with two invites and a crash; two peers and a crash, with a budget for one of
  them and a daily cap of two; two peers over two days, with a budget for both and a cap of one
  a day, so that each cap is the one that binds. Hosting: a day of two ticks over five, one
  crash, two keysends. Sponsor: two kits
  against a purse for one. Transport: two nodes, two sockets, one fault, two API calls (one in
  `progress`). Requests: three ids, one successor (two ids in `progress`). Sessions: in
  `services` three session ids, no envelopes, one fault and late frames; in `progress` eight
  session ids, one node that sends, two faults and timely frames (`Quick`).
  Pacing: two connections, one restart.

`CHECK_DEADLOCK FALSE` stands where the bounds, or the end of an operation, stop the
system; the breaker and the ledger never stop and are checked for deadlock.

### Fairness, and what in the code justifies it

- Breaker: the cooldown and cache entries run out, callers finish because every await has a
  timeout (weak); a caller that is sometimes dropped at a closing connection is not dropped
  every time (strong, on admission and answer).
- Pacing: the sweep is an interval task, a resend returns, the clock advances (weak).
- Delivery: both receive loops run and backoffs elapse (weak); the flusher scans every minute
  and sends whenever it finds the peer connected (strong).
- Sessions: the supervisor reconnects and control frames are handled (weak), the self-heal
  tick comes round (strong), cooldowns and limiters run out.
- Transport: dials, the tasks of each end of a socket (handshake, reader, the closing that
  `disconnect` owes, removal) and the worker's loop run and bans expire
  (weak); the worker's dial is strong because the peer's dials disable it now and then.
- Requests: the poll interval ticks and each step ends (weak); reconciliation is strong
  because the hub's answers may interleave. Hub: a started step continues (weak); each tick
  gives every grant its turn, though new requests keep the worker busy (strong).

No fairness is assumed of the user, the hub, the peer's choices, Lightning or the link.

## What is proved

All theorems hold for every value of the constants that satisfies the named assumptions:
`OperationsAssumption` and `NoRowAssumption` (the null value is no execution, hash or row;
ranges of the parameters), `BreakerAssumption` (threshold and slots are positive),
`LedgerAssumption` and `NoneAssumption` (finite sets of ids and recipients, natural amounts,
a positive failure limit), `RelayAssumption` (natural sizes, quotas and times; the null value
is no row) and `RequestsAssumption` (finitely many ids; the null value is no id and no row). TLC
evaluates them on every run of these modules. The delivery needs no assumption.

- **Operations** (`OperationsProofs`): `TypeCorrect`, `Invariance` (`Inv`),
  `PaymentIsUnique` (`PaidOnce`), `UnpaidIsFinal` (`UnpaidMeansUnpaid`), `PaidIsSettled`
  (`PaidMeansSettled`), `EvidenceIsMonotonic` (`EvidenceStays`). `PaidOnce` is not inductive: that
  the wallet holds one live payment depends on what the row, every queued write and every
  program's locals say. `Inv` in `OperationsInv` adds: a hash nobody used is unknown to the
  wallet; every live payment is covered by a durable dispatch intent or a receipt in the stored
  row *and* in every queued update (`RowsInv`); a worker between its dispatch intent and the
  wallet call owns the row (`OwnsInv`), and no two workers share an execution id (`FenceInv`); a
  process whose copy is current knows the row (`CopiesInv`); and no queued write loses evidence
  (`LatesInv`). It mentions neither the lock, the ledger nor the queue: the version check, the
  execution id and the dispatch intent carry it alone. The module first has the types and the
  lemmas on writes and frames, then the start of a POST, abandon and the recovery, then the
  paying worker, the environment and the combination.
- **Operations in one process** (`OperationsBudget`): `BudgetIsFollowed` (`BudgetFollowsPayment`),
  `QueueIsMatched` (`QueueMatchesRow`), `TerminalIsFinal` (`TerminalStays`), from `OneInvariance`.
  They assume `OneProcess`, which the node ensures by an exclusive lock on
  `STATE_GENERATION.lock` (`safety.rs`, `ensure_generation`), and need it: with two processes TLC
  releases a reservation in one while the other pays. `OneInv` adds to `Inv` the accounts
  (`AccountInv`) and the queue (`QueueInv`). Accounts: a resolution queued in the row, or in a
  copy of it, is true of the payments of its execution, also when it is old (`Sound`); what may
  have been paid was paid by the execution of the row (`Attributed`); a live payment whose
  reservation is open is reserved on the row or has a resolution queued that will charge it or
  leave it (`Accounted`); a compacted receipt owes nothing (`Receipted`); and a paying worker
  knows, at each of its steps, what the row and its reservation say (`Paying`). Queue: the entry
  fits the stored row and every update still queued (`Fits`), and a paid commit that is still
  queued has inserted no entry.
- **Circuit breaker** (`CircuitBreakerProofs`): `ReservationIsOwned`, `ProbesAlone`,
  `TripsAtThreshold`, `ProbeCloses`, from `BreakerInv`: the types, "tripped exactly when the
  failures reach the threshold", and who runs under the current generation in each state.
- **Spend ledger, who is reserved** (`SpendLedgerKept`): `LedgerAlwaysKept`, `FailuresAreBounded`
  (`FailureSlots`), `PaymentsAreCounted` (`CountedBeforePaid`), from `LedgerInv`: memory and every
  content of the file are well-formed (each draw is one reservation of one call), failures plus
  unresolved payments stay within the limit, and a reservation that can be dispatched or is under
  way is in every content a restart may find. The module proves that each pure budget operation
  keeps a budget good, and lifts this over `Persist`, crashes and payments. It begins with the
  sums: the fold over a finite set adds an element, a sum that changes at one or two elements
  changes by the difference, and so on, and with what each operation does to the amounts. The
  sums are proved from a least counterexample in the strict subset order, which needs no
  induction scheme.
- **Spend ledger, how much** (`SpendLedgerProofs`): `MoneyAlwaysKept`, `TallyIsExact` (`Tally`),
  `ApprovalIsKept` (`WithinApproval`, `EnvelopeTotal`), `CallsConserve` (`CallConserved`),
  `BlocksArePaidOnce` (`BlockPaidOnce`). None of these is inductive. What memory can still
  dispatch must be reserved in at least the same amount and for the same block in *every* content
  of the file, or a restart would tally the payment against an older reservation (`Promised`); a
  payment must not exceed its reservation in any content (`Sized`); a call hold is never paid
  itself (`HoldsUnpaid`); and a paid block must be a draw, a paid block or a closed account of
  every content that still has the call (`Known`), or a restart could draw it again. `MoneyInv`
  joins these over memory and disk. `WithinApproval`, `EnvelopeTotal` and `CallConserved` hold if
  no provider takes more than was reserved (`MaxOverrun = 0`), `Tally` and `BlockPaidOnce` always.
  The module shows that each operation keeps a budget balanced (the conditions for it end
  `SpendLedgerKept`), then lifts this over `Persist`, crashes and payments.
- **Delivery** (`DeliveryProofs`): `ShownAtMostOnce` (`ShownOnce`) holds whatever fails: a burned
  receipt is never burned again, so the receive loop comes past the acceptance of a message once
  (`OnceInv`). `DecisionsAreKept` (`DecisionInv`), `AcksAreKept` (`AckedMeansKept`) and
  `DeliveryIsImplemented` (`Delivers`) are about what the sender learns. The argument is one of
  receipts and holds: what is accepted and not admitted is hidden by a hold, what is not hidden was
  admitted, and every reply under way says which of the two it is. They need `HoldsCleared`: no
  acceptance fails together with the release of its hold, and no restart fails to withdraw the
  holds it finds. Without it a retry inherits an old hold, which is the finding
  `delivery_inherited_hold`. The refinement also needs a price that does not move
  (`~PriceMoves`); otherwise see `delivery_definitive`.
- **Relay** (`RelayProofs`): `RelayIsSafe` (`RelaySafe`) from `RelayInv` (every row of a binding
  has a fresh sequence number, and the byte column is the sum over its rows), `SpacingInv` (the
  cooldown mark of a node is as young as its last registration) and `CountInv`; `MailboxIsImplemented` (`IsMailbox`).
  The store keeps expired rows until somebody prunes them, while the mailbox of `Relay` drops them
  in time. The refinement mapping (`LiveBox`) leaves expired rows out, so pruning maps to a
  stutter and a tick to the expiry.
- **Starter requests** (`StarterRequestsProofs`): `RequestsAreSafe` (`RequestsSafe`) and
  `SuccessorsAreNeverBlind` (`NoBlindSuccessor`). The worker saves a copy of a row that it read
  some steps before. `WorkerInv` says what the copy may be: it has the original of the stored row
  and is never a refusal, so saving it neither revives a request nor moves it to another lineage.

**Only model-checked.** Liveness and everything that rests on fairness or ENABLED (`Recovers`
and in `progress` all but `SessionsSafe` and the relay);
the bounds in the type invariant of `PaidDelivery`;
`RelationEnvelopes` and `RelationCallConserved` as they stand, whose conjuncts the ledger's
theorems state for any instance; and the safety of calls, starter hub, hosting, sponsor kits,
transport and sessions. The prover handles none of: temporal fairness, induction theorems with
operator parameters, RECURSIVE operators.

## Findings

- **`delivery_inherited_hold`** (`AckedMeansKept`): a retry inherits the hold of an earlier
  attempt with its old time stamp (`konsensus-storage/src/sqlite.rs:1790`). The sweep
  (`housekeeping.rs:63`) may withdraw the message between the retry's acceptance and its
  acknowledgement, though `msg_handler.rs:848` says "an acknowledged message must never stay
  hidden".
- **`delivery_definitive`** (`FailedIsUndelivered`): a rejection for the price of one copy marks
  the message failed for good while a second copy is under way and is accepted when the price
  moves. `docs/v2/PAID-DELIVERY-SLICE-1.md:22` calls these rejections definitive. The recipient
  keeps the message, and the sender ignores the acknowledgement of a failed row.
- **`delivery_undecryptable`** (`AckFollowsAcceptance`): when the plaintext of an accepted
  envelope cannot be produced or kept, the recipient withdraws it and answers with a rejection
  (`msg_handler.rs:790`: "never acknowledged as delivered"). `docs/v2/PAID-DELIVERY-SLICE-1.md:7`
  says "ACK follows durable acceptance even when decryption fails", and `session_handler.rs:1227`
  "acceptance ACKs do not require decryption". `AckedMeansKept` states what the code does.
- **`hosting_memo`** (`PaidOncePerDay`): the guard against paying twice after a crash looks for a
  memo that the LDK provider does not record (`konsensus-lightning/src/ldk.rs:2835`). The
  comment at `hosting_pay.rs:211` says that the guard closes this window.
- **`calls_hangup`** (`HangupFinal`): a hangup reserved on a live call and paid after the call
  expired leaves the end reason Unpaid (`payloads/call.rs:463`), so a late block revives the
  call. `docs/ops/M6-CALL-RUNBOOK.md:224`: "Explicit hangup/decline never resumes."

Observed while modelling, and not part of a run:

- Pacing: a restart forgets the resend deadline and the cap is 600 s (`operations.rs:1608`);
  `docs/v2/EXACTLY-ONCE-OPERATIONS.md:27` says "Restart preserves the deadline", and documents
  300 s.
- Hub: with a grant and a subsidised channel of one size (`SameSize` TRUE), reconciliation may
  take the other opener's channel for its own (`unique_channel_match`); the runs use two sizes.
- Requests: the worker saves its whole copy of a row, also over a rearm that the API made in
  between (`docs/ops/starter-newcomer.md:54`).
- Calls: a late grant is checked against a boundary rebuilt from a row that may have missed an
  acknowledgement (`calls.rs:984`), and may be refused.
- Transport: an outbound dial can be aborted between registering the socket and sending
  `PeerConnected` (`handshake.rs:571`).
- Hosting: a payment made a moment after its due time is not due exactly a day later, so
  passes a day apart may skip a day; a scan of the last 500 payments gets at most 100 from
  LND and LNbits; a keysend that LDK reports in flight is an error for the pass.
- Sponsor: a handler dropped between writing a fresh hash and paying leaves the kit unknown
  for ever. Relay: the durable store rejects quotas and times above `i64::MAX` that the memory
  store accepts, though `store.rs:342` says that the engine "cannot tell which store is
  underneath".

## What each module leaves out

- **Operations**: peers already admitted, kinds other than calls, price above zero, a fresh
  hash per dispatch, the pairing service present. Revoked or paused grants are a refusal that
  may happen at any poll. Refusals that change nothing are stutters. The resend under the
  legacy admission marker is left out.
- **SpendLedger**: one grant. Refusals by clock, binding, allow-list and rolling windows, and a
  write that fails before the rename, change nothing. Expiry is revocation. Charges of zero and
  the deduplication of payment ids are left out.
- **PaidDelivery**: call blocks, relay control and peers without privileges are left out;
  failures of reads too. Retention and the age of holds spare the message in hand, except
  through the inherited hold of the finding.
- **Calls**: ICE, meetings, eviction of burned ids, media clients, price queries, storage
  failures and invoice capacity. A crash is the settlement or reconciliation that the start-up
  recovery performs. Holds are in SpendLedger.
- **Sessions**: the ratchet is whether it can send and read. Key-binding refusals, the offer to
  a paid payee and the lapse of the witness window are left out. A connection comes up at both
  ends at once.
- **Transport**: frames, Noise, rate limits, cookies and the refusal of strangers in Whitelist
  mode. A supervisor that is stopped ends at once, so the `Arc::ptr_eq` test by which a worker
  that lingers after its abort leaves the new entry alone is not exercised. **RelayStore**: decoding and
  signatures. **StarterHub**: one Lightning key per peer, one expiry for invite and intent,
  no stale page within a tick. **StarterRequests**: terms, backoff times, audit rows.
  **Hosting**: the operator's side and overdue events. **Sponsor**: approval under a metered
  grant.

## Not modelled

The implementation has about 160,000 lines, and the definitions stand for about 10,000 of
them: the control of the paid protocols. The rest is listed in `PROJECT.json` with a reason
for each part. It is of four kinds:

- *computation on data*, where a model would restate the code: cryptography, wire encoding,
  price and recurrence arithmetic, routing scores, parsing, pages;
- *single-row reads and writes* without a protocol: contacts, calendar, settings, most API
  handlers and the command line;
- *adapters to external systems*, which the modules treat as an environment that may settle,
  fail or give no answer: Lightning and chain backends, LSPS2, discovery, and other storage
  engines with the same statements;
- *state that third-party code owns*: channel monitors and the watchtower, liquidity, WebRTC
  media, the vendored libraries.

Pairing ceremonies, room membership and the move of a home node have protocols of their own
that are not modelled yet.

# Fiber: a TLA+ verification project

This directory holds TLA+ models of the Fiber node (payment channels on CKB), the TLC
configurations that check them on small instances, and TLAPS proofs about them. Paths below
are relative to the repository; `channel.rs` without a directory is
`crates/fiber-lib/src/fiber/channel.rs`.

## 1. The system and its parts

A node is a set of actors, each with a mailbox it handles one message at a time. Handlers run
to completion; what is concurrent is the order in which messages of different senders, timers
and the chain reach the mailboxes, and the two nodes at the ends of a channel.

| Part | State | Operations that change it | What is hard about it |
|---|---|---|---|
| V1 channel (`channel.rs`, `fiber-types/src/channel.rs`) | TLC ledger, balances, commitment numbers, nonces, CommitDiff, retry queue, deferral queue, shutdown data | AddTlc / RemoveTlc commands and messages, CommitmentSigned, RevokeAndAck, ReestablishChannel, Shutdown, ClosingSigned, watchdog ticks | both ends update at once; messages are lost with the connection and replayed from the store; nonces are a ledger of their own |
| V2 channel (`channel_v2.rs`, `session_v2.rs`, `channel_v2_validation.rs`) | durable pending rounds, signing nonces, session | the same, with rounds made durable before they are sent | recovery compares what both ends persisted |
| Channel opening (`channel.rs`, `ckb/funding`) | negotiation flags, funding transaction, tx signatures | OpenChannel, AcceptChannel, TxUpdate, TxComplete, TxSignatures, ChannelReady | resumption half-way, external funding, abort and timeout |
| TLC forwarding and TLC sets (`channel.rs`, `settle_tlc_set_command.rs`) | previous TLC of a forwarded TLC, hold TLCs, stored preimages | forward, forward result, settle a set, hold timeout | two channels must end alike; partial sets |
| Payment sessions (`payment.rs`) | session, attempts | send, attempt sent / failed / settled, retry | late answers, retry limits, session status derived from attempts |
| Network actor (`network.rs`) | sessions, channel map, pending requests | connect, disconnect, reestablish passes, maintenance | order of events and commands |
| Graph, fees, history (`graph.rs`, `fee.rs`, `history.rs`) | known channels, success history | apply gossip, record results, find a path | arithmetic at the limits |
| Gossip (`gossip.rs`) | messages waiting for others, cursors | save, verify, sync, broadcast | order of dependent messages |
| Message policy (`peer_message_policy.rs`, `gossip_policy.rs`) | token buckets | charge, refill | limits |
| CKB transactions (`ckb/actor.rs`, `tx_tracing_actor.rs`, `in_flight_ckb_tx_actor.rs`) | traced transactions, in-flight sender | send, trace, report, retry | late and repeated reports |
| Held cells (`ckb/held_cells.rs`) | cells reserved by a funding | hold, release, expire | two fundings at once |
| Watchtower and on-chain reconciliation (`watchtower`, `onchain_tlc_reconcile.rs`) | watched channels, settlements | revoke, settle, claim | races with the chain |
| Cross-chain hub (`cch`) | orders, trackers, jobs | create, track, pay, settle, cancel, expire | two payments that must succeed or fail together; restart at any moment |
| Invoices (`invoice`) | status | open, received, paid, cancelled | expiry against payment |
| Onion packets, RPC, CLI, WASM, generated types, store encodings | - | - | no protocol state |

`PROJECT.json` lists the same parts with what is modelled, and the hazards line by line.

## 2. Modules

| Module | Content |
|---|---|
| `TlcState` | the TLC ledger as pure operators: status ladders, which TLCs a commitment contains, settlement balances, in-flight limits |
| `ChannelV1` | the V1 channel between two honest peers as a state machine: one operator per handler, one action per mailbox message |
| `MCChannelV1` | the instance TLC checks |
| `ChannelV1Handlers` | lemmas: every handler keeps the channel invariant |
| `ChannelV1Proofs` | every action keeps the inductive invariant; the theorems |
| `CchOrder` | one order of the cross-chain hub with its two payments, from the request to pruning |
| `MCCchOrder` | the instances TLC checks |
| `CchOrderProofs` | the inductive invariant of an order; the theorems |

### How `ChannelV1` corresponds to the code

* `ch[p]` is the `ChannelActorState` of peer `p`: the persisted fields and the runtime ones that
  matter (`deferring`, `retry_timer`, `pending_ready`, `connectivity`). `link[p]` is the wire to `p`
  together with the mailbox of its network actor, in FIFO order. `up[p]` says whether `p` has a
  session. `errors[p]` collects what the handlers logged.
* A handler is an operator from a channel state to a channel state with the name of the Rust
  function. The messages it sends gather in `out`, the error it returns in `err`; `Commit` hands
  `out` to the link, logs `err` and stores the state. That is what the channel actor does: it
  stores the state after the handler whether or not the handler failed.
* A partial signature is abstracted to what must agree for it to verify: the nonces of both sides
  (named by the commitment number they are derived from) and the content signed, where the two
  ends describe the content by role so that the descriptions can be compared. A TLC's keys are
  named by the pair of commitment numbers the TLC was created at; a commitment point that was
  pruned makes the transaction unbuildable.
* `MaxU128` stands for the range of the balance arithmetic, which is checked in the code.
* `Variant with a fault` marks operators that are not used by the specification. Each is a
  plausible mistake in the definition below it and exists so that the properties can be shown to
  notice it (the `mutants` of `PROJECT.json`).

### Abstractions and assumptions of `ChannelV1`

* A handler is one step. The code sends a RevokeAndAck before it stores the state, so a crash in
  between is not covered (it is listed as a hazard).
* A new session is accepted only after both ends dropped the old one, and its events queue behind
  what the mailboxes still hold.
* Time is abstract: a timeout may run out at any moment of the wait it guards.
* TLC expiry, payment hashes, onion packets and fees are left out; what makes a received TLC fail
  to apply is a nondeterministic choice (`refused`).
* A forced close ends the model of that peer's channel: the commitment goes on chain
  (`on_chain = "Commitment"`). The confirmation of closing transactions is not modelled.
* The peers are honest: both run this code.

### How `CchOrder` corresponds to the code

A `send_btc` order takes a payment on Fiber and makes one on Lightning, a `receive_btc` order does
the reverse. The hub learns the preimage from the payment it makes and settles with it the payment
it takes. All that differs between the two kinds is read off `kind`.

* `s` is the hub's view of one payment hash. `order` and `intent` are the two durable records (the
  `CchOrder` and the `CchSendBtcOrderCreation` or `CchReceiveBtcOrderCreation`); everything else is
  lost in a crash: `mailbox`, `timers` (messages posted with `send_after`), the creation `worker`,
  `active` and `pending` (the sets of the `CchState` that guard creations), `deferred` (the invoice
  status held back during a creation), the LND `tracker` and what it last reported (`seen`), the
  scheduler's `jobs`, and `recovering`.
* `incoming` and `outgoing` are the two payments as the other nodes know them. They are external:
  the model has what the hub's calls do to them (`WorkerAddsInvoice`, `SettleFiberInvoice`, ...) and
  what they do by themselves (`PayerPays`, `PaymentProceeds`, `PayerTimesOut`, ...). `calls` are
  the requests the hub forwards to the Fiber node without waiting; their answers are messages.
* One action per message of the actor (`HandleRequest`, `HandleCompleted`, `HandleEvent`, ...; the
  five order actions behind `ExecuteAction` are actions of their own), one per step of a creation
  that talks to another node or commits to the store (`WorkerBegins`, `WorkerGetsInvoice`,
  `WorkerAddsInvoice`, `WorkerCommits`). A `send_btc` creation is a task beside the actor, a
  `receive_btc` creation runs inside its handler: `Blocked`.
* A transient error of a call may happen before or after the call took effect; both are branches.
* `Crash` may happen between any two steps. The next state is `Started`: `pre_start`, `post_start`,
  and the walk over the stored records that `ContinueStartupRecovery` makes, message by message.

Abstractions: requests are valid and their amounts are not modelled; errors are told apart only as
far as the code does (retryable or not); an expired invoice counts as a cancelled one, as in the
conversion to the order's status; LND refuses neither a well-formed preimage as an invalid argument
nor a hash it does not know. The three deadlines (the order's expiry, the time left for a payment,
the prune delay) pass at any moment and once. Two relations between clocks are assumed:
an outgoing payment ends before the held incoming one times out (the code gives it at most half of
the time that is left), and everything about an order is over when it is pruned 21 days later.

## 3. What is checked

Small instances: a channel of three units, two of A's; limits of two TLCs and three units in
flight; ids `0..MaxTlc-1`. Two TLCs in flight is the least number for which a TLC is on every
rung of the ladder while another one is on every other rung, and one drop is the least number
that loses every possible set of messages once.

| Run | Instance | What it shows |
|---|---|---|
| `rounds` | A pays, 3 TLCs of 1 or 2 units, no drops, fair | nothing is refused, commitments verify, the revocation nonces rebalance, silent peers agree, the retry queue drains |
| `reconnect` | both pay, 1 TLC each, one drop or restart anywhere | funds, numbers, CommitDiff, agreement, the ladder never goes back, only repeated TLC updates are refused |
| `recovery` | A pays, 2 TLCs, one drop, fair | every commitment is acknowledged and every handshake completes |
| `watchdog` | A pays, 1 TLC, one drop, timeouts, fair | no way to be stuck escapes the watchdogs |
| `shutdown` | both pay and both may close | the close waits for the TLCs and both sign the same balances |
| `close` | A pays 2 TLCs, both may close, fair | the close is eventually signed |
| `nonce_stall` | as `reconnect` | **violated**: a comment promises that the nonce ledger rebalances |
| `crossing_close` | as `shutdown` | **violated**: the close is not signed when the last removals settle on crossing RevokeAndAcks |
| `replayed_add` | one drop | **violated**: a replayed AddTlc is refused by the limits before it is recognised |
| `cch_order` | one order, eight scopes (below), fair | the payer is charged only after the payout, Success means both payments, an invoice is always on record, the order only moves forward, one creation at a time, every order ends, a failed order releases the payer |
| `cch_atomicity` | a `send_btc` order and one crash | **violated**: a swap may be executed by half |

Deadlock is not checked: a channel in which every payment is settled may rest, and so may a hub
whose order is pruned.

A scope of `cch_order` is a kind of order, the deadlines that may pass and a bound on each fault:
requests for the hash, crashes, transient errors, breaks of the subscription. The eight scopes of
`MCScopes` have one fault each, in both directions, because each fault alone already meets every
state of the order; two and three requests are there because it takes two to overlap with a
creation and three to overlap with its completion. Breaks of the subscription are checked for
`receive_btc` only: for `send_btc` a lost Paid event leaves the order in OutgoingSuccess, because
`ReconcileFiberPayments` asks for outgoing payments alone (listed as a hazard).

### Fairness

`FairSpec` assumes that an actor handles what is in its mailbox, that a scheduled retry task runs
when the channel is not blocked, that a lost session is noticed by both ends and reconnected (the
network actor retries), that the reestablish pass reaches every channel, and, where `Timeouts`
holds, that the watchdogs run. Fairness is written `[]<>~guard \/ []<><<A>>_vars`, which is weak
fairness with the guard in place of ENABLED. Nothing is assumed of operators: commands may never
come.

`CchOrder` writes fairness the same way: the actor, its tasks, timers and jobs run, the nodes answer
the calls they get, a payment under way ends one way or the other (both Lightning and Fiber bound it
by timelocks), a broken subscription is set up again (`subscribe_store_changes_ws` loops), and the
order's expiry comes. Nothing is assumed of clients and payers, and no fault has to happen.
`OrderResolves` is claimed for the scopes in which the expiry may pass: without it an order waits
for its payer for ever.

### Findings

The violated runs are described with quotations in `PROJECT.json`:

1. `nonce_stall`: after a dropped connection both peers may hold an unbalanced revocation nonce
   ledger with no message on its way that would balance it. The watchdog closes the channel.
2. `crossing_close`: the handler of RevokeAndAck does not call `maybe_transfer_to_shutdown`.
3. `replayed_add`: the limits are checked before a replayed AddTlc is recognised as a repetition.
4. `cch_atomicity`: after a crash that hides a started payment from the order, the check of the
   remaining time fails the order without asking LND, and the incoming payment is given back.

## 4. What is proved

For every pair of peers, balances, limits, number of TLCs, of drops and of restarts
(`ChannelAssumption` is all that is assumed of the constants):

* `TypeCorrect`: `Spec => []TypeOK`;
* `Conservation`: `Spec => []FundsConserved`;
* `ReplayableDiff`: `Spec => []StoredDiffIsCurrent`;
* `Invariance`: `Spec => []IInv`, from which the three follow.

The inductive invariant says of each channel state, also of the intermediate states inside a
handler, that it is well typed (`ChannelOK`), that its shares add up to the funding, and that its
CommitDiff is the one that awaits its acknowledgement; and of the links that they carry typed
messages. Conservation alone is not inductive: the checked arithmetic of
`apply_settled_remove_tlcs` keeps the shares natural numbers only because their sum is known, and
the sums over TLC amounts are natural only for typed ledgers. `ChannelV1Handlers` proves
`ChannelInv(s) => ChannelInv(handler(s))` for each handler, composing the lemmas along the calls
in the code; the recursive function in the flush of the deferral queue is shown to exist by
well-founded recursion and treated by a least counterexample. `ChannelV1Proofs` has one step per action of `Next`.

For every set of scopes, that is any number of requests, crashes, errors and breaks together
(`ScopesAssumption` only says what a scope is), `CchOrderProofs` proves of an order

* `OrderTypes`: `Spec => []TypeOK`;
* `PayerProtected`: `Spec => []ChargedOnlyAfterPayout`;
* `SuccessIsReal`: `Spec => []SuccessMeansBothLegs`;
* `DurableRecord`: `Spec => []InvoiceIsOnRecord`;
* `Forward`: `Spec => OrderMovesForward`;
* `Soundness`: `Spec => []Inv`, from which they follow.

What the hub does depends on messages that wait in its mailbox while the world moves on, so the
invariant has to say of each record and each message what it still means when it is read.
`SoundHub` does: a preimage on the order, or a `Payment Success` message, means that the outgoing
payment has succeeded, a `Paid` status, in the mailbox or deferred, that the incoming invoice is
paid; both are stable facts about the payments, so a message stays sound while it waits.
`CreationOK` ties the worker's step to the records (from `Get` on the intent is stored and there
is no order yet), which gives `DurableRecord`, and `AddsOnce` and `LapsesOnFiber` rule out the combinations
that the worker and the tracker would otherwise meet. The lemmas show for each effect (`Post`,
`HandleTrackingEvent`, `RecoverPersistedOrder`, ...) that it keeps `SoundHub` and only moves the
order forward; each action then has one lemma of its own.

Only model-checked for the order: `OneCreation`, and the two liveness properties.

Only model-checked for the channel: the agreement of both peers' ledgers (`HonestCommitmentsVerify`,
`QuietPeersAgree`, `NumbersInStep`), the closing properties, and all liveness.

## 5. Plan

In order of importance:

1. LND trackers: their capacity, queues and stale completions, with several orders.
2. V2 channel: durable rounds, nonces, recovery, closing; an abstract payment ledger that both
   channel versions refine.
3. TLC forwarding over two channels and settlement of TLC sets; payment sessions and attempts on
   top of it.
4. Channel opening and external funding; held cells; in-flight CKB transactions and their tracer.
5. Watchtower and on-chain reconciliation, with the confirmation of closing transactions and the
   crash between sending a RevokeAndAck and storing the state.
6. Gossip store and syncer; message policies; fee and history arithmetic as operators.
7. Proofs: `NumbersInStep` for the V1 channel (the invariant also has to bound the versions of the
   commitments on the links) and the refinement of the abstract ledger.

The runs for the V1 channel are then to be condensed: `rounds`, `shutdown` and `close` ask
questions one instance can answer.

## 6. Not modelled

Onion packets and signatures as cryptography, molecule and JSON encodings, RPC and command line
front ends, database migrations and the path search's real-valued weights hold no protocol state
or are out of reach of a model of states. Everything else that is missing is in the plan above and
listed, part by part, in `PROJECT.json`.

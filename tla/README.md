# EEP: specifications, model checking and proofs

TLA+ models of the Entity Event Protocol packages in this repository: the
middleware that accepts subscriptions and delivers webhooks, one by one and in
batches, to the receivers of the repository's examples; its event history; the
gates that decide what an agent may read, the ledgers that keep a proof from
being used twice and the validators of the documents exchanged, in both
languages; and the tool that tests a platform for compliance.  The models
follow the code under `src/`, await by await where it awaits; a definition
carries the name of the function or type it translates, and `PROJECT.json` maps
it to the lines.

    tlc -workers 2 -config MCDispatcher.cfg MCDeliverySystem   # a model check
    tlapm DeliverySystemProofs.tla                             # a proof

## 1. Inventory

| Component | State | Operations | Interacts with |
|---|---|---|---|
| Webhook dispatcher (`middleware/src/dispatcher/webhook-dispatcher.ts`) | `stopped`; one captured record and attempt number per delivery in flight | `start`, `stop`, `dispatch`, `dispatchBatch`; `deliverWithRetry`, `deliverBatchWithRetry`, `attemptDelivery`, `recordSuccess`, `recordFailure`, `logAttempt` | called back by the bus; reads and writes the store; writes the delivery log; POSTs to subscribers |
| Server handlers (`middleware/src/core/eep-server.ts`) | none of its own beyond the options | subscribe, status, list, pause, resume, test, unsubscribe, audit, history, redeliver, delivery log, gated resource | store, bus, event store, gates |
| Subscription store (`DBAdapter`; in-memory, PostgreSQL) | the records: status, failure count, lease, patterns, filter | save, get, list, update, delete: each atomic | server, dispatcher |
| Event bus (in-memory, Redis, Kafka) | list of handlers | `publish`, `subscribe` | server and application publish; dispatcher subscribes to `*` |
| Event store (`core/event-store.ts`) | events in emission order, delivery log, two retentions | `append`, `recordDelivery`, `history`, `getByIds`, `deliveryLog`, `prune` before each | server, dispatcher |
| Receivers (`examples/node-express-subscriber`, `examples/python-fastapi-subscriber`) and the signer packages (`signer`, `eep-signer-python`) | the ids of the events processed | receive, verify | POSTs of the dispatcher |
| Access resolver (`gates/src/access-resolver.ts`, `resource-matcher.ts`, `gate-config.ts`, `http-402.ts`) | none between requests; the local state of an awaiting `resolveAccess` | `resolveAccess`, `build402Response` | the platform's verifiers, server, MCP bridge |
| Ledgers (`gates/src/proof-validator.ts`, `redis-stores.ts`) | consumed nonces and payment hashes with expiries | `isConsumed`, `markConsumed`, `consumeIfFresh`, `sweep`; the four entry points that use them | proof validation, a platform's semantic verifier, telemetry |
| Document validators (`gates` and `eep-gates-python`: proofs, intents, delegations, gate configurations, envelopes, catalogs, reviews) | none | one function per document, in two languages | server, resolver, negotiating agents |
| Negotiation (`gates/src/commerce.ts`, `eep_gates/commerce.py`) | none (the caller keeps the status) | `transition` | both parties of a deal |
| Compliance tool (`compliance-cli`) | verdicts so far, the webhook and the challenge its receiver got, exit code, reports | some forty probes in order; the conformance vectors offline | one platform over HTTP, its own receiver |
| Event filter, content modes, conditional requests | none | pure functions | dispatcher, server |
| Auth and framework adapters | none | request to proofs; request to handler | server |
| Validator, discovery | none | schema checks, documents | tools |
| MCP bridge | list of subscriptions, only appended to | manifest, tool call behind a gate | gates, an MCP server |
| Other command-line tools, examples | files | one-shot programs | none |

**What is hard.**  Everything runs on one event loop, so the hazards are the
awaits: a delivery works for days on a record captured at its fan-out while
handlers pause, resume and delete that subscription; two deliveries read one
failure counter before either writes it; two validations look one nonce up
before either stores it; the process may stop or die between an attempt and its
bookkeeping; an event id that a subscriber holds as a cursor is pruned between
two of its pages; a verifier changes its verdict between two passes of one
access decision; a POST arrives after its sender gave up on it, or twice; a
webhook is posted while the tool that judges it is between two looks.  The
other hazard is that two programs in two languages must read the same documents
alike.  `PROJECT.json` lists each with its line and the properties that watch
it.

**What makes each component correct.**

* Dispatcher: every published event is fanned out and every delivery reported
  once; the counter never runs ahead of real failures; a pause is justified;
  the log agrees with the reports; nothing is attempted after `stop()`.
* Batches and receivers: one result per event, in order; a failed chunk counts
  once; what is reported as delivered was handled; no event is handled twice;
  every verifier gives one verdict on one POST.
* Handlers: no one is notified who should not be; only subscribe creates and
  only resume reactivates, whatever write comes late.
* History: a subscriber told that it is caught up missed nothing; a hole is
  always announced; retention is a floor; paging ends.
* Access: a grant is justified, a refusal is justified and explained, the most
  permissive tier wins.
* Ledgers: a slot is consumed at most once while its record lives; a refusal
  consumes nothing; a replay verdict rests on somebody's consumption.
* Documents: both languages give one verdict; a gate that can be published can
  be opened; a payment answers an invoice and an invoice an acceptance.
* Compliance: a claimed level was earned; failures reach the exit code and the
  report; a signature verdict has evidence; a run ends.

## 2. Modules

| Module | What it models |
|---|---|
| `Subscriptions` | the store behind `DBAdapter`, the clock, events, `isTarget` and the lease |
| `EventBus` | the in-memory bus with the dispatcher on `*`; extends `Subscriptions` |
| `WebhookDispatcher` | `dispatch`, the retry loop, `recordSuccess`, `recordFailure`, `stop`; extends `EventBus` |
| `EepServer` | the subscription handlers, split at each await; extends `EventBus` |
| `DeliverySystem` | server, bus, dispatcher, application, clock, shutdown and crash on one loop; the properties |
| `FailureStreak` | abstract: what a subscriber is promised about failures in a row |
| `DeliveryPromises` | what documents and comments say of delivery and the code does not do |
| `SignedMessage` | one POST: its form, its signature, and the verifiers; extends `Subscriptions` |
| `BatchDispatch` | `dispatchBatch`, `deliverBatchWithRetry`, the POSTs on the wire; extends `SignedMessage` |
| `WebhookReceiver` | the two example subscribers and one that uses the signer package; extends `SignedMessage` |
| `BatchedDelivery` | dispatcher, network and receiver; the properties |
| `EventHistory` | the event store, retention, the paged history endpoint and subscribers that catch up |
| `GateAccess` | access resolution with awaited, changing verdicts |
| `Ledger` | abstract: what a store of consumed slots promises |
| `ConsumedLedger` | the three stores and the four entry points, one step per await |
| `JsonValues` | classes of JSON values, as fine as the validators tell them apart |
| `ProofDocuments`, `GateConfigDocuments`, `CommerceDocuments` | the validators of both languages, as predicates on documents; extend `JsonValues` |
| `PortParity` | a document edited and read by both, and the negotiation it opens; extends the three |
| `ComplianceRun` | a run of the compliance tool against a platform that answers as it likes |
| `MC…` | values for TLC |
| `FunctionRecursion` | lemmas: a recursive function exists and satisfies its equation |
| `DeliverySystemProofs`, `BatchedDeliveryProofs`, `EventHistoryProofs`, `GateAccessProofs`, `ConsumedLedgerProofs`, `ParityProofs`, `ComplianceRunProofs` | theorems |

### Delivery

The variables correspond to the code as follows.

| Variable | Code |
|---|---|
| `table` | the `DBAdapter`'s records, a function on the existing ids |
| `now` | `Date.now()`, in instants of interest |
| `dispatches` | the `dispatch()` calls: `listing` awaits `listSubscriptions`, `listed` holds its result, `fanned` has started the deliveries |
| `deliveries` | the `deliverWithRetry` calls: `asleep` awaits the sleep, `posting` the fetch, `reading` and `writing` the two store calls of `recordSuccess` / `recordFailure`; `reporting` is on record and not yet reported |
| `stopped`, `deliveryLog` | the field and the event store's log |
| `requests` | one handler per HTTP request and where it awaits: `writing` the update of a pause or a resume, `answering` the read for its answer |

Each action runs from one await to the next.  A zero delay in the retry
schedule does not await, so the loop may go from one answer to the next
attempt, or from the fan-out to the first POST, within one step (`EnterLoop`).
The server names a subscription `sub_<Date.now()>`, so an identifier *is* the
instant of its creation; `SubId` is the set of instants.  A table found at the
start was written by an earlier run, so its identifiers lie before `StartTime`.

Abstractions: patterns and filter are reduced to the set of kinds they select;
a URL and its checks to whether the record is a webhook; the secret to whether
a request can be signed; an HTTP answer to 2xx or not (another status, a
transport error, the ten-second abort, or nothing to sign with).  Validation
and gating of a subscribe body are one refusal, because both return before
anything is stored.  The write of a log entry and the loop head that follows
it are one step; it can fail, and the failure is swallowed.  A store call that
throws inside the bookkeeping is an unhandled rejection, which ends a Node
process: that is `Crash`.  It may come between any two awaits.  What was written
stays, so a delivery that dies between its update and its report is
`unreported`, a pause that dies between its update and its answer `unanswered`;
whatever else was in flight is `lost`.

### Event history

`recorded` is everything ever appended, `events` the positions still in the
store; a position stands for the event's id (`recordEvent` does not enforce
distinct ids; CloudEvents requires them).  `Pruned` drops from the head only,
as the code does, so an old entry behind a younger one stays.  `pagers` are
subscribers that page with one cursor, one limit and one filter until no
`next_cursor` comes back; `skipped` is what such a subscriber did not ask for.
`SetBack` is an operator or a time service that moves the clock back.

### Access

A requirement is a node of a forest; the configuration is one that
`parseGateConfig` accepts (`GateAssumption`).  The leaves of a combined
requirement are checked concurrently (`Promise.all`), so any leaf's next proof
may be tried next; `Change` lets a verifier's verdict on a proof and a leaf
change between calls.  `always` and `ever` record which pairs were accepted
throughout and at some time, so that the properties can speak of verdicts that
move.  Whether a proof is structurally valid is an input (`Sound`).  Requests
share no state, so the model resolves one.

### Batches, receivers and signatures

`calls` are the `dispatchBatch` calls, each with the record it listed, the
events that passed the filter, the start of the current chunk and the results
so far; `wire` holds the POSTs that have not ended, which may be fewer or more
than those somebody waits for: an attempt that is aborted leaves its POST on
the way, and it may arrive during a later attempt, after the call, or never.
`receiver` is what the program behind the callback remembers.  `setup` does
not change: the program, the content mode, the batch size, one signature or
two, the clocks' difference, the events of each call.

A POST is a record: the call and chunk it carries, its form, the timestamp and
the tokens of its signature header, and whether its body is still the text that
was signed.  Timestamp and signature are made anew for each attempt, as in
`attemptDelivery`.  `Alter` is a proxy that writes the JSON anew: the meaning
stays, the signature fails.  The receiver handles a request without an await,
so `Receive` is one step.  The application logic in the examples' handlers is a
placeholder and is taken not to throw.  No event store is configured in this
composition and the dispatcher's process does not die; `WebhookDispatcher` and
`DeliverySystem` have the delivery log and the crash.

### Ledgers

`record` is a slot's expiry in the store, `call` the local state of each call
of an entry point and where it awaits, `spent` the consumptions as grants.  The
three stores differ in whether the lookup and the mark are one step (`redis`),
two with an await of the store's own in between (`memory`), or two calls of the
caller (`plain`).  A verifier may answer either way, a recorder of metrics
may throw after the consumption, a call may be lost with its process before or
after its slot was consumed (`redis`, `plain`), and the process that keeps the
memory store may restart, which empties it.  `Ledger` is what they promise: an
exclusive one looks at every grant on record, the others at those that were on
record when the caller began.

### Documents

A document is a function from the fields of one kind to value classes
(`JsonValues`): fine enough to tell the validators apart (an empty list is true
in JavaScript and false in Python; `true` is an integer in Python; a final line
break passes Python's `$`; some dates only one of `Date.parse` and
`fromisoformat` reads).  An exception that the function does not mean to throw,
a Python `TypeError` or `AttributeError` for example, is the verdict `thrown`,
not a refusal.  Each validator of either language is one predicate,
`...TS` or `...Py`, or one named as the function.  `PortParity` starts from the
sound documents, changes up to `MaxEdits` fields, lets both ports read the
result, and, when the document is an accepted envelope, plays a negotiation by
the table of transitions that both ports share.  The differences the ports are
known to have are named in `ProofMayDiffer`, `ConfigMayDiffer`,
`RequirementMayDiffer`, `PriceMayDiffer` and `CommerceMayDiffer`.  The
properties say that between the classes of values there are no others.
`Document(k)` is every document of a kind that a client may compose: each field
absent or of a class of `Held`.

What the classes do not tell apart is a bound of every statement about
documents:

* *Dates.*  With a zone, without, in a form that only `Date.parse` reads
  (`2024/01/01`) or only `fromisoformat` (`20240101T00Z`; `20240101` without a
  zone), each past or future; a time within the next minute has a zone.  Python is
  3.11 or later, and local time is UTC.
* *Texts and numbers.*  Lengths are those that both languages count alike, and
  numbers those that both hold exactly.  Two hashes of different classes differ.
* *Configurations.*  A free tier and a second one that repeats one pattern and
  one requirement; a combined requirement nests a trust requirement or one of a
  type of which nothing is checked but the type.  The optional fields that only
  Python's models declare are one field, `extras`.  What the parser or a model refuses
  (`GateConfigError`, pydantic's `ValidationError`) is a refusal; anything else
  that is raised is `thrown`.
* *Delegations.*  The claims of a request are alike, a list of purposes allows
  one, and days are numbers, booleans, null or a text of digits.

### Compliance

`step` is the probe that is next; each probe is one action that asks the
platform, judges and reports.  The platform answers as it likes; answers other
than an exemplary platform's are counted by `deviations`.  Webhooks and the
challenge reach the tool's own receiver between probes (`ReceiveWebhook`,
`ReceiveChallenge`); `seen` records what had been posted when something was
judged.  Offline, each vector is replayed by its shape; `Corrupt` are those that
ought to fail, which only the two shapes with an expectation of their own can
be.  Scores, labels, reports
and the exit code come from the verdicts as in `main`.

## 3. Runs

| Run | Module, configuration | Shows |
|---|---|---|
| `dispatcher` | `MCDeliverySystem`, `MCDispatcher.cfg` | three overlapping events, one subscriber, a request to pause it, a stop and a crash: counter, pause, log and shutdown stay consistent |
| `handlers` | `MCDeliverySystem`, `MCHandlers.cfg` | two requests of any operation race with each other and with a delivery |
| `streak` | `MCDeliverySystem`, `MCStreak.cfg` | without overlap the code implements `FailureStreak`; every dispatch settles |
| `batches` | `MCBatchedDelivery`, `MCBatches.cfg` | one result per event, one count per failed chunk; what is acknowledged was handled, nothing is handled twice; all verifiers agree; every call returns |
| `history` | `MCEventHistory`, `MCHistory.cfg` | no silent gap, retention is a floor, catching up ends |
| `gates` | `MCGateAccess`, `MCGates.cfg` | grants and refusals are justified and explained while a verdict changes |
| `ledgers` | `MCConsumedLedger`, `MCLedgers.cfg` | Redis consumes a slot once, a refusal consumes nothing, a replay verdict is justified, every store implements `Ledger` |
| `documents` | `MCPortParity`, `MCDocuments.cfg` | the two languages agree but for the listed differences; a gate can be opened; payments answer invoices |
| `compliance` | `MCComplianceRun`, `MCCompliance.cfg` | claims, exit code, report and signature verdicts are earned; a run ends |
| `retry_after_cancel` | `MCDeliverySystem`, `RetryAfterCancel.cfg` | violated: a retry is made after the DELETE was answered |
| `second_consume` | `MCConsumedLedger`, `SecondConsume.cfg` | violated: two overlapping validations consume one nonce of the in-memory store |
| `heartbeat_unseen` | `MCComplianceRun`, `HeartbeatUnseen.cfg` | violated: a stream that carries heartbeats is reported as having carried nothing |

Each violation is a disagreement of the code with a sentence of the
specification or a comment; `PROJECT.json` quotes it.

`TypeOK` is checked in `dispatcher` and `history`, where indices into growing
sequences make it worth a run, and proved there, for the gates, the ledgers, the
batches and the compliance tool.  In the other modules it states the variables' types for
the reader; TLC accepts it when it is added to their configurations.

**Bounds.**  Every bound is a constant.

* `dispatcher`: three events, a schedule `<<0, 1>>` (one attempt at once and one
  after a sleep) and a threshold of two, so that three deliveries overlap at every
  await and the pause falls between them, and one request to pause.
  `MaxCrashes = 1`: a crash ends everything in flight, and what follows starts
  from the table alone.  The clock stands still: leases are the business of
  `streak`.  Events are symmetric.
* `handlers`: two requests with all six operations, two stored subscriptions
  (one selects everything, one nothing and cannot be signed) and new ones that
  take the current instant, which may be a fresh id; one event, because two
  handlers and one delivery already give every order of their awaits.  A name
  that is deleted and given again takes three requests; the theorem about
  `CancelledNotNotified` covers it for any number.
* `streak`: three events one after the other, a schedule `<<0, 0, 1>>` (two
  attempts with no sleep between them and one after a sleep), threshold two, a
  request to pause or delete, a stored subscription whose lease elapses at the second
  instant, and a stop.  `Overlap = FALSE`: the
  application awaits `dispatch()`.  `resume` is left out: one between the read
  and the write of a failure is a lost update (section 5).
* `batches`: ten setups: each receiver with single events and with batches of
  two, binary mode, one signature and two, a clock off by one either way, a
  last chunk shorter than the others, one event in two calls.  Two attempts,
  a threshold of two, a tolerance of zero and a clock of two instants, so that
  a POST can leave its window.  `MaxFaults = 1` (an altered POST, a restart, a
  deletion, a shutdown) and `MaxLate = 1` (a POST that outlives its attempt):
  with two attempts one late POST already meets every later step of its call
  and of the other one.
* `history`: three events of two sources, one logged attempt, a clock of three
  instants set back once, retentions 1 and 2, page sizes absent and above the
  maximum, default 1 and maximum 2: enough for a cursor to be pruned between
  pages, a hole in the middle, and a page that is cut.  Deliveries of several
  subscribers do not interact, so one pages.
* `gates`: three tiers (public, one of an `any` requirement, one of several or
  of a nested `all`), four configurations that order and overlap their patterns
  differently, one of which repeats a pattern, five proofs of three types (one structurally invalid,
  one of a type without a verifier), one verdict change.
* `ledgers`: two calls, a record that lives two instants and a clock of five,
  so that a record can expire between any two awaits; proofs with and without a
  nonce, payments that name a hash, a legacy hash or a payload.
* `documents`: one sound document per type, two changed fields: a difference
  shows in one field, or in a field and the one that makes it be read.  Two acceptances per negotiation, so that
  a dispute can come between a deal and the next.
* `compliance`: ten command lines, one answer that is not exemplary
  (`MaxDeviations`) and two webhooks of four kinds.  Probes share only the
  receiver, the subscription and the verdicts, so one odd answer at a time
  reaches every branch of a probe; two webhooks are what a second look needs.

`CHECK_DEADLOCK FALSE` everywhere: all requests answered and all events
delivered is a legitimate end.

**Fairness.**  Weak fairness of the runtime only: timers fire, the store
answers, a fetch ends because the dispatcher aborts it after ten seconds
(`Fairness` in `DeliverySystem`, `FairSpec` in `BatchedDelivery`, one condition
per call); a subscriber goes on asking until it is told that it is done
(`EventHistory`); the compliance tool goes on, since its fetches carry timeouts
(the two that do not, for the Link header and for `/eep/subscriptions`, end by
the five minutes of Node's `fetch`).  Nothing is assumed of subscribers'
answers, of the network, of requests, of the clock, of stop or of crashes; the
run that checks `EveryDispatchSettles` excludes crashes, since nothing in flight
is persisted and a crash loses it.

## 4. Proofs

`tlapm` checks every proof.  The assumptions are the `ASSUME`s on the constants,
which TLC evaluates on every instance: the retry schedule is a non-empty
sequence of naturals, thresholds and limits are positive, ids and sentinels
differ, dispatches of different publishers have different names, a stored table
starts fresh and older than the server, requirements nest to a finite depth,
webhooks and vectors have booleans for flags, sample documents hold values of
the declared classes and include, for every type a gate may ask for, a proof the
validator accepts (`SamplesAssumption`), there are finitely many events, requests
and calls.  One theorem (`StreakIsKept`) has a hypothesis of its own.

Every invariant and action property of the passing runs is stated by a theorem.
Further properties, stated in the proof modules, are about what a run asks less
directly; no run lists them, TLC agreed with those of them that are not
immediate on the instances of the runs before they were proved.

**Delivery** (`DeliverySystemProofs`), for every schedule, threshold, table,
number of events and requests, with crashes and a shutdown.

* *Types.*  One lemma per action; the dispatcher's steps reduce to `LoopType`,
  that `EnterLoop` yields a delivery.
* *The counter.*  `CounterNeverOvercounts` is not inductive, because a late
  write stores a count read earlier.  A delivery counts as failed from the
  write that records it, or from the report when there was nothing to write
  (`OnRecord`): if the process dies between the two, the delivery is
  `unreported` and still counts, because the counter outlives it.  `IInv` adds
  two facts: a delivery has no outcome until it settles (`PendingUntilSettled`),
  and a delivery about to write read a count no greater than the failures on
  record by then (`CountsReadWereEarned`).  Failures on record only grow, so a
  count read stays covered, and the write puts one more failure on record.
  From the same invariant: `PauseJustified` (a paused record has a threshold of
  failures on record, or a pause request whose update was made, answered or
  not), and the action properties `OnlySubscribeCreates` and
  `OnlyResumeReactivates`.
* *The log.*  `LogInv` says of each delivery where it is in its loop and of each
  entry that it fits its delivery; `LogTellsOutcome` follows.  `StopStops` is
  proved from types alone.
* *The cancelled event.*  `CancelledNotNotified` speaks of deliveries, but what
  protects the cancelled subscription is that it left the table before its
  event was published.  `NameInv` follows the name through the stations of a
  dispatch: it is not in the table, nor in the snapshot the dispatch took, nor
  among its deliveries, unless it was given twice (`DeletedStaysGone`).  A name
  is an instant, so giving it anew takes a second subscribe request of that
  instant (`TableKnown`: what the table holds is older than the server or was
  named by a request).
* *The refinement.*  `StreakIsKept`: under `SerialUse` every step is a step of
  `FailureStreak` or a stutter.  `SerialUse` is what `streak` assumes too: the
  application awaits its dispatches, requests pause or delete, nobody asked for
  cancelled events.  Crashes are included in the theorem, though not in the run.  Without it the claim is false (section 5).  `SerialInv`
  extends `IInv`: a dispatch of the application under way finds every delivery
  settled (`FansOutAlone`), so a subscription has one open delivery at most
  (`OneOpen`), so a count that waits to be written is still the record's
  (`SeenIsCurrent`).  The write is then the abstract `Fail` or `Succeed`; it
  adds one element to the set that `failed` or `delivered` counts, and when
  there is nothing to write the report does.  A crash between the two changes
  neither the counter nor the sets, which is a stutter.
* *The life of a delivery.*  What was reported stays, in the record and in the
  log (`OutcomesAreFinal`; `DeliveriesKeepOrder` puts this and the next three
  together).  `LogInTurn`: a step logs one attempt at most, later
  than all that are logged of its delivery, from `LogInv`; so an attempt has one
  entry (`OneEntryPerAttempt`).  `AttemptsInTurn`: no attempt is skipped or
  made twice.  `ExplainedInv` says where a delivery that has won or has used up
  its schedule can be, and gives `OutcomesExplained`: failed means the whole
  schedule, aborted a stop, lost or unreported a crash.
* *Selection.*  `SelectedWhenListed`: whatever changed since, a delivery goes to
  a record that was active and selected the event when its dispatch listed the
  table.  The dispatch must still carry the event it listed for, so a name must
  not be published twice: a request publishes once, a redelivery removes from
  `todo` what it has republished (`Republished`), and that also gives
  `DispatchesAdvance`.
* *The counter moves* only in the step that puts an outcome of the
  subscription's own delivery on record (the report comes later or, after a
  crash, never), in a resume, or in a subscribe that takes the
  name again (`CountsMoveWithOutcomes`).
* *Progress.*  `DeliveriesRunDown`: every step of a delivery lowers
  `StepsLeft`, at most `2 * MaxAttempts + 3`.

**Batches** (`BatchedDeliveryProofs`).

* `HandledOncePerStart` and `AcknowledgedWasHandled` need to know what is
  remembered, what travels and who waits.  `IInv` says that an event handled
  since the start is remembered and that what is remembered was handled
  (`Remembers`), that a POST on the wire carries a chunk of its call in the form
  of the setup with the tokens of the setup (`OnTheWire`), and that every
  delivered result, and a success about to be recorded or reported, was handled
  (`Vouched`).
  `VerifiersAgree` is `OnTheWire` alone.
* `BatchCountsOnce` uses a second invariant, `CInv`: a count that waits to be
  written is no greater than the number of failed chunks.  A chunk
  is failed from the moment its failure is on record: the write adds one, the
  report keeps it.  Failed chunks only grow in number, so what a write stores
  stays covered; that there are finitely many is where the finite set
  of calls is needed.
* `ResultsFollowEvents` needs a third, `FInv`: what is reported is the eligible
  events up to the chunk in work.  The results of a chunk and the eligible
  events are folds; `FunctionRecursion` gives them their equations, from which
  the sequence grows by exactly one chunk (`ResultsAreInOrder`).
* `ReportedForGood`: each chunk is reported in one step and its result never
  revised; delivered was won, failed means the whole schedule, aborted that the
  dispatcher was stopped.  It needs that what waits to be recorded without a
  success was the last attempt (`UsedUp`).  `CallsRunDown`: a step of a call
  enters a later stage, passes a chunk, or leaves fewer steps for the chunk.

**History** (`EventHistoryProofs`): `NoSilentGap` needs two facts.  `Suffix`:
what is retained is a suffix of what was recorded, because pruning leaves from
the head.  `GotSoFar`: a paging subscriber has everything it wanted up to its
cursor.  A page of the smallest matching events keeps the second; the cursor
being retained means, by the first, that everything after it is retained too.
The proof uses no property of the clock, so it holds when the clock is set back.
`RetentionIsAFloor` follows from the shape of `Pruned` and the growth of
`recorded`.  `ReadInv` adds that what was got or skipped lies up to the cursor.
It yields that nothing is served that was not asked for (`NothingUnasked`), that
each page is later than everything got before (`PagesInOrder`), and that each
one but the last moves the cursor to an event it has just served
(`CursorAdvances`).  `PagesAreBounded`: no limit a request names gets an
unbounded page, or an empty one while something is left.

**Access** (`GateAccessProofs`), for every configuration, forest of
requirements, set of proofs and moment at which a verdict changes.  What the
resolver computes of a requirement is recursive over the forest.  The library's
induction theorems take an operator, so the induction is made from its roots:
`FunctionRecursion` shows from the finite nesting that the recursive functions
exist and satisfy their equations, and a lemma about all nodes is proved by
taking a counterexample none of whose nested nodes is one (`UnmetIffNotHolds`:
nothing is listed as unmet exactly if the requirement holds; `HoldsMonotone`:
more accepted pairs never unmeet a requirement).  `ResolverInv` says where the
two passes are and what they know: each leaf marked met was accepted at some
time, each proof accepted throughout has been seen or is still to be tried
(`CheckedSoFar`), requirements and tiers that are done are judged rightly
(`GatheredSoFar`, `BestSoFar`, `ReportSoFar`), and the second pass runs only if
no tier was satisfied throughout (`NoneSatisfied`).  `always` and `ever` bracket
every verdict asked in between, so one invariant yields `GrantJustified`,
`RefusalJustified`, `MostPermissive` and `RefusalExplained`.  `ResolutionAdvances`:
each step enters a later phase, tier or requirement, or leaves fewer proofs to
try; a verdict that changes meanwhile brings none of them back.

**Ledgers** (`ConsumedLedgerProofs`): `IInv` says that a grant whose time has
not passed is covered by a live record, that what a call found when it began was
granted by then, that a call on its way to the store has a slot, and that one
about to mark found no live grant of it.  Sweeping an expired record keeps the
first; only a consumption adds to both sides.  From it follow, for any number of
concurrent calls, `ConsumedOnceByRedis`, and that every step of a store is a
step of `Ledger` or a stutter (`StoresImplementLedger`: the exclusive reading
for Redis, the other for memory and plain stores).  `SequentialCallsConsumeOnce`
is the other side of the run `second_consume`: under `SequentialSpec`, where a
call begins only when none is under way, *every* store consumes a slot once
while its record lives, so the overlap is all that the violation rests on.
`CallsConsumeOnce`: no call consumes twice, and what is on the books was
consumed by the call it names.

**Documents** (`ParityProofs`).

* `SameVerdict` and `SameListingVerdict` compare the two predicates of a kind
  field by field for every document of `Document(k)`, not only those few edits
  away from a sample; `ReadWhatIsThere` (what was judged is the document in
  hand, and it is one of those) carries them to every reachable state:
  `PortsAgree`, `ListingsAgree`, `IntentsAgree`.  They are statements over
  classes of values, so as complete as the classes are (section 2).  The attempt found a difference
  that the edits of the run do not reach: a delegation with an empty list or
  object for a policy hash, which Python takes as absent; it is named in
  `CommerceMayDiffer`.
* `GatesOpen`: of the configurations the parser accepts, exactly those that do
  not ask for `standard_residency`, alone or nested, are opened by some
  document; the proof constructs one for each other type (`ProofOfEachType`) and
  shows that none has this one (`NoProofOfResidency`).  `SamplesOpenGates` is the
  same for any set of samples as `SamplesAssumption` asks.  `GatesOpenAnywhere`: what *either* parser accepts asks for something
  that one document shows to *both* validators (`standard_residency` excepted),
  so a gate survives a move between the two ports.
* `PaymentsAreAnswers` and `DealsHold` are by induction over the negotiation's
  steps, for any number of disputes.

**Compliance** (`ComplianceRunProofs`), for every set of command lines, vectors
and webhooks and any number of odd answers.  Every probe adds verdicts of its
own names.  `IInv` says which verdicts are due when a step is reached (`Path`,
`Earned`), that a verdict on a webhook is the verdict on the one recorded as
judged and came after the request for it (`Evidence`, `AsJudged`), what the
helpers found of it unless another came (`AsHelped`, `SinceJudged`), and what
label and exit code follow at the end (`Closing`; `Offline` for the vectors).  If
none of the verdicts is a failure or a skip, they are the passes that are due:
that is `ClaimEarnedAtALevel`.  `VerdictsStay`: verdicts only accumulate, and
nothing is judged after the label was printed, so label, report and exit code
speak of the same verdicts.  `RunGoesForward`: every step goes to a later place
of the order of probes, replays one vector, or is one of the boundedly many
posts to the receiver.

**Model-checked only.**  Liveness (`EveryDispatchSettles`, `CatchingUpEnds`,
`CallsReturn`, `EveryRunEnds`): fairness is about `ENABLED`, which the prover
does not reason about.  Half of each is proved for every instance: no step of
the thing in question is wasted, because a bounded measure falls
(`DeliveriesRunDown`, `CursorAdvances`, `CallsRunDown`, `RunGoesForward`).  What
remains for TLC is that a fair runtime takes the next step and that new work
does not come in between.

## 5. Disagreements seen but not run

*Delivery.*  Two deliveries that fail together count once, because
`recordFailure` reads and then writes (webhook-dispatcher.ts:513; the comment at
133-136 counts failures in a row).  An attempt is made after the lease has
elapsed when it is a retry.  Nothing ever moves a record to `expired`.  A
failure that was read before a resume and written after it brings the old count
back, and may pause again at once.  A redelivery requested by one subscriber is
fanned out to all that select the event, and its success clears their counters
(eep-server.ts:772).  A test of a subscription whose lease has elapsed is
answered 202 and never sent (webhook-dispatcher.ts:298).  A cancelled identifier
can be given again (eep-server.ts:424).

*Batches and receivers.*  Both example subscribers refuse every batch: Express
reads only `application/json` bodies (401), and a Python list has no `.get`
(500).  In binary mode the Express example remembers the data's `id` or
`undefined`, answers 500 to the first event and 200 "duplicate" to later ones
without handling any (server.ts:108-123); FastAPI answers 200 to binary events
without handling them.  `AcknowledgedWasHandled` therefore speaks of receivers
that read the form they are sent (`ReadsItsForm`).  The id is remembered before
the handler runs, so a handler that throws loses the event.  A batch's
`webhook-id` is made of its first event's id and its size, so two different
batches may share one, where signer/src/index.ts:33 asks for an id that is
unique per delivery.  Batches leave no entry in the delivery log.
`verifyEd25519` and the compliance tool's check look at no time window.

*History.*  A pruned `until` bounds nothing (event-store.ts:124); two events
with one id make a cursor ambiguous (event-store.ts:112).

*Access.*  The refusal body is built by a third resolution and may list
requirements that were met meanwhile (http-402.ts:31).  A gate of
`standard_residency` can be published and never opened: gates/src/types.ts
declares its proof and `validateProofStructure` refuses it as unknown
(proof-validator.ts:229); `GateCanBeOpened` states both sides: every other
accepted gate can be opened, this one cannot.

*Buses and adapters.*  `'*'` is passed to Redis and Kafka as a literal channel
(redis.ts:17); PostgreSQL drops the lease, the filter and the batch size
(postgres.ts:48).

*Documents.*  `PortParity` names where the languages part.  The most
consequential: a date such as `2024/01/01` is read only by TypeScript, one such
as `20240101T00Z` only by Python, and an `expires_at` without a zone raises a
`TypeError` in Python (proof_validator.py:44); so do a list as identity method
or connection relation and an access pattern that is no text (gate_config.py:73,
76, 47), while a requirement that is no object raises an `AttributeError` (56):
the caller waits for a `GateConfigError`.  `default_tier: "constructor"` and
`x402_payload: null` raise in TypeScript; only TypeScript limits the size of a
configuration and insists on a public default tier; Python lets a delegation
without a purpose permit a request, and purposes or claims of a delegation that
are a text or an object answer differently.  SPECIFICATION.md
1932-1946 says that any active state may be disputed; the table lets only
accepted, invoiced and paid ones.  The pulse server of
`examples/node-gate-publisher` passes its own words to the table and cannot
start a negotiation.

*Compliance.*  `--level` is never validated: "Full" runs the core probes and may
be labelled fully compliant.  When the reports cannot be written the tool exits
0 although probes failed.  An event stream that never answers within three
seconds passes.  A manifest that is JSON `null`, and a second conditional request
that fails, are reported as both passed and failed.

## 6. Not modelled

Text, cryptography and pure format checks (key encodings, schema validation,
discovery, ETags, pricing arithmetic), one-shot tools that write files, the
framework and authentication adapters, which keep no state and decide nothing,
and external brokers, whose guarantees the repository does not state.
`PROJECT.json` gives the reason for each.  The Python middleware has no
dispatcher, no history and no pause; the Python resolver repeats the one that
`GateAccess` models.  The filter's predicate language is represented by its
verdict.

## 7. Plan

Done in order of importance: delivery, history, access, ledgers, batches with
their receivers, documents, compliance.  What is left:

1. A PostgreSQL variant of `Subscriptions`: what a record loses on the way
   through the table and which delivery properties survive.
2. Proofs: the promises of `FailureStreak` with resumes, in the weaker form
   that a late write may restore a count.
3. `EventFilter`: the predicate language as operators, with lemmas that a
   filter narrows and never widens a selection.
4. The batch dispatcher and the single one on one table, so that a pause by one
   meets the other.

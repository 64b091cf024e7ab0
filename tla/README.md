# AiSOC in TLA+

A TLA+ development of AiSOC, the security-operations platform in this
repository: modules translated from the services' source, TLC configurations
that check them on small instances, and theorems checked by TLAPS.

Paths below are relative to the repository's `services/` directory unless they
name a TLA+ file. `PROJECT.json` is the index: components, runs, mutants (one
plausible bug per checked property, which the run must catch), the source lines
every definition stands for, findings, hazards and theorems.

## 1. The system

AiSOC is a set of services around Kafka, PostgreSQL, Redis and Neo4j.

```
 connectors --> ingest --> Kafka raw --> fusion --> Kafka fused --> realtime --> console, push
    |             |                        |                          ^
 connectors     Neo4j, Kafka graph       Redis                        |
   table        updates --> WebSocket                               agents <--> api (PostgreSQL)
                                                                      |
                         slack-bot / teams-bot  --->  actions  <------+
```

| component | state | operations | talks to |
|---|---|---|---|
| Action execution (`actions`, legacy router) | in-memory `_actions`, `_chatops_replied` | submit, approve, reject, ChatOps callback | vendors and chat transport (await), case timeline (await) |
| Slack approvals (`slack-bot`) | approval card, `_timers`, audit rows | submit, click, need-info, schedule, cancel, fire, close | `actions` over HTTP |
| Connector polling (`connectors`) | job store, `_known_signatures`, one row per instance | reload, poll, record success / failure / drift, backfill | vendor APIs, `ingest` over HTTP |
| Ingest and graph writer (`ingest`) | bounded channel, batch, shutdown state | ingest, write, flush, close | Kafka, Neo4j |
| Graph change stream (`ingest`) | subscribers and their channels, drop counter | read, dispatch, subscribe, unsubscribe, stop | Kafka, WebSocket clients |
| Alert fusion (`fusion`) | Redis fingerprints, index, incidents; Kafka offsets | deduplicate, correlate, publish | Kafka both ways, Redis |
| Entity risk (`fusion`) | one Redis hash per entity, a queue of the riskiest | load, decay, save, promote | called by the fusion engine |
| Investigation (`agents`) | `_runs`, ledger rows, clients that tail a run | launch, stream, poll | PostgreSQL, realtime, WebSocket clients |
| Playbook engine (`agents`) | run record, its placeholder | execute a step, retry, branch, store | handlers, a poller of the run id |
| Agent approvals (`api`) | one `agent_approvals` row each | create, decide | realtime (best effort) |
| OAuth refresh (`api`) | the connector row, a copy of it per sweep | select, exchange, write, record a failure | token endpoints, the poller, the consent flow |
| Audit log (`api`) | a hash chain of rows per tenant | stamp, link, commit, verify | PostgreSQL |
| Realtime (`realtime`) | push subscriptions in Redis; sockets per tenant | subscribe, unsubscribe, send; consume, broadcast | Redis, push services, Kafka |
| Others | section 6 and `PROJECT.json` | | |

What is hard about each, and what makes it correct:

- **Actions.** One asyncio process: handlers interleave at awaits, a restart
  empties the memory, and answers of executors, of the user in chat and of
  approvers all write the same record. Correct means: no executor is called
  twice, a gated type runs only when approved, and record, vendor and timeline
  do not contradict each other.
- **Slack approvals.** A human click, a timeout and a second click race; the
  call to `actions` can be lost in either direction, or granted after its
  caller was cancelled. Correct means: one running timer per action, truthful
  and complete audit rows, nothing executed that nobody approved.
- **Connector polling.** A poll awaits the source, ingest and five row writes,
  each of which can fail (and be swallowed) or be cut off. Correct means: the
  outage marker is the first failure, an outage is backfilled not too often and
  with a window that reaches back over all of it, schema drift is not absorbed
  unnoticed, and the job store follows the table.
- **Ingest.** Neo4j can be slow or gone. Correct means: requests are still
  answered, observations of an entity are not reordered, and a clean shutdown
  drains what was accepted.
- **Graph change stream.** One goroutine serves clients that come, go and stop
  reading. Correct means: it never waits for a client, every client gets its
  own tenant's updates in order, and every loss is counted.
- **Fusion.** Redis keys expire independently, Kafka redelivers, an
  incident is read, changed and written back in separate calls, and the loop that
  consumes can end while the process lives on. Correct means: what is announced
  is stored, a redelivery is not counted twice, and what the loop reaches is fused.
- **Entity risk.** As for fusion, with a score that decays between the calls.
  Correct means: the score is the decayed sum of the signals, and an entity is
  promoted once.
- **Investigation.** The pipeline, the ledger and the clients that tail the run
  move at their own pace in one event loop. Correct means: ledger and stream
  hold the log's entries in order, none twice, and a client hears the end.
- **Playbooks.** The author's jumps may lead back, nowhere or to a name used
  twice. Correct means: every run ends, and no step is taken more often than
  its retries allow.
- **Shared rows** (approvals, OAuth, audit chain, push subscriptions). Each
  request works from a copy it read before it writes. Correct means: the row is
  one request's decision and not a mixture, what was granted stays usable, the
  chain verifies.

## 2. Modules

| module | models | built on |
|---|---|---|
| `ActionCatalog` | action types, radii, approval list, the gate (`models/action.py`, `blast_radius.py`) | |
| `ApprovalDesk` | what `actions` promises callers of approve and reject: the abstract specification | |
| `ActionService` | `actions/app/api/router.py` with executors and callback; implements `ApprovalDesk` | `ActionCatalog` |
| `SlackApproval` | clicks and the timeout scheduler against the desk | `ApprovalDesk` |
| `ConnectorJobs` | reload loop and APScheduler jobs | |
| `ConnectorPoll` | one poll cycle, its row writes, the backfill | |
| `FusionPipeline` | consumer, deduplicator, correlator, expiry | |
| `EntityRisk` | `fusion/app/services/entity_risk.py` | |
| `GraphLog` | what the graph writer promises its callers: the abstract specification | |
| `IngestGraph` | HTTP handler, queue, flusher, shutdown; implements `GraphLog` | |
| `GraphStream` | `ingest/internal/graph_ws`: the broadcaster and its clients | |
| `Investigation` | `agents`: background task, node pipeline, ledger, WebSocket tail | |
| `PlaybookEngine` | `agents/app/playbook/engine.py` and the run id a caller polls | |
| `AgentApprovals` | `api/.../approvals.py`: one row, several analysts | |
| `OAuthRefresh` | `api/app/workers/oauth_refresh.py` against provider, consent and poller | |
| `AuditChain` | `api/app/services/audit.py` and the replay of `audit_hash.py` | |
| `PushSubscriptions` | `realtime/src/push.ts`: one device | |
| `ActionServiceProofs`, `SlackApprovalProofs`, `FusionPipelineProofs`, `InvestigationProofs`, `PlaybookEngineProofs` | the theorems about the module they are named after | it and TLAPS |
| `ConnectorProofs`, `IngestProofs`, `RowsProofs` | the theorems about both connector modules, about `IngestGraph` and `GraphStream`, and about the rows with `EntityRisk` | these and TLAPS |
| `MC...` | symmetry sets, constant functions and small compositions for TLC | the module they are named after |

Conventions. A handler is atomic up to its next await (Python, TypeScript) or
its next blocking operation (Go); what waits is a record with a `pc`. Operators
named `X_Something` directly before `X` are the mutants: a plausible bug in the
code of `X`. They occur in no specification. "history" variables are read by
properties only.

### ActionService and ApprovalDesk

`actions`, `replied` and `tasks` are the memory of the process; `effects`
(what vendors did), `timeline` and `expired` are the outside world and survive
`Restart`; `type`, `credentialed`, `runs` and `approvals` are history.
`submit_action` splits four ways: parked by the gate, no executor, simulated
without an await, live with awaits (`SubmitLive`, `VendorActs`,
`ExecutorCompletes / Fails / Raises`). `approve_action` rebuilds the request
without its parameters, so it simulates and never waits: one step. Most executors
report "completed" only for a call that came back; those of `Unconfirmed`
(`block_ip`, `allow_ip`, `quarantine_file`, `force_mfa`) do so whatever the client
returns, a `{"success": False}` without any vendor call included (the AWS client
without boto3), so `ExecutorCompletes` asks nothing of the vendor for them. The callback
is checked in `Click` and recorded in `ClickRecorded` or `ClickErrors`, with the
timeline write between the two.

`ApprovalDesk` keeps, for parked actions only, whether they wait, were executed
or were rejected. `deskOf` maps the service's state to it, and `ImplementsDesk`
is checked by TLC and proved. `SlackApproval` uses the desk in place of the
service, so its results hold for anything that implements the desk.

### SlackApproval

A caller is a click handler or a timer task. `Send` puts a request on the wire;
`Serve` is the desk's one step; `Answer` or `TimeOut` end the call. A request may
be served after its caller gave up. `Schedule` and `Cancel` may be called for
any action at any time (this is the scheduler's interface); `BotNext` is the bot
as wired, which never calls `Schedule`.

### ConnectorJobs and ConnectorPoll

`ConnectorJobs` keeps the enabled rows with their signatures, the scheduler's
`_known_signatures` and the job store. APScheduler is external: a job is armed
or paused, and only an armed job is run. `reload_jobs` reads the rows, awaits,
then reconciles.

`ConnectorPoll` follows `_poll_one` await by await. Time is ticks, an event is
the tick it happened in, a fetch is an interval of ticks. A row write that
raises is swallowed by the code; `Wrote(FALSE)` is that. `Stop` is a cut-off
poll. A fetch asks for a window and returns any part of it: connectors stop at a
page (CrowdStrike at 100 alerts, Okta at 50) and turn an error answer into an empty
success. A push stores any part of a batch: ingest answers 200 with events
rejected. The history field `lost` of a cycle holds what was left out without
the poll being told, so that a property can say what the window itself guarantees.

### FusionPipeline and EntityRisk

`Work` is `FusionEngine.process` with one `pc` per Redis call. The consumer's
position advances when a message is handed out and is committed on a timer, so
a crash rereads from the commit or, when there is none, skips to the end. A message
the deserializer does not read (`Malformed`) raises where the loop fetches, outside
the `try` around one message: `ConsumeStops` ends the loop for good, with the
process up and the message still next. `ProcessError` is any call of the pipeline
that raises, the send included; `DeliveryFails` a batch that is lost after the
send has returned, which nobody awaits.
Expiry follows the TTLs: an incident outlives the index entry that points to it
unless it was never merged into.

`EntityRisk` is step 4 of that function, which influences neither the grouping
nor what is published: `Load`, `Save` (the `HSET`), `SetExpiry` and `Rank` (the
queue) are the Redis calls of one entity's turn, and a promotion runs the last
three again. A tick is a half-life, so scores stay integers; the clock stands
while an observation is under way. `Fail` is a call that raises or a replica
that dies.

### IngestGraph and GraphStream

In `IngestGraph` a `select` is one step with any of its ready cases. A flush has
three outcomes: written, failed, and failed after its transaction committed.
`Close` waits for the handlers (`http.Server.Shutdown`); when the deadline passes
first, `main` exits through `log.Fatal`. `GraphLog` says the same without queue,
batch and handlers: one bounded log that leaves in order, a batch at a time, each
batch stored or lost as a whole; `LogOf` maps queue and batch to it.

In `GraphStream` an update is its position on the topic. `Read` takes it and
collects the targets under the read lock; `Deliver` offers it to one target
without the lock, so that `Subscribe`, `Unsubscribe` (out of the map) and
`CloseChannel` (after the lock is released) fall between offers. A send on a
closed channel is `Panic`, which ends the process.

### Investigation and PlaybookEngine

`Investigation`: `NodeReturns`, `NodeRaises` and `GraphRaises` are the outcomes of
a node; `Persist` and `Deliver` handle one new log entry, before and after the
await of the ledger; `NodeEmitted` moves on. `_runs` is `audit` and `status`;
`watch` is the loop of each WebSocket client (`Look`, `Sent`).

`PlaybookEngine`: `steps` is the playbook, chosen at the start; what a condition
says and how a handler ends is left open. `Goto` is the jump by name, with the
last of two equal names winning and an unknown one falling through. `shown` is
what a poll of the run id reads, which is the placeholder until `Store`.

### The rows: AgentApprovals, OAuthRefresh, AuditChain, PushSubscriptions

`AgentApprovals`: `Read`, `Commit`, `Refresh`, `Notify` are the parts of one
decision, each on a row anyone may have changed. `Decide` writes the columns
that differ from what was loaded.

`OAuthRefresh`: `Select` copies the row, `Exchange` is the call to the provider,
which may rotate the refresh token and whose answer may be lost, `Write` and
`Record` write from the copy. `Reconsent`, `Poll`, `Revoke` and `AccessExpires`
are the others who change the row or the grant.

`AuditChain`: `Stamp` draws the time, `Link` reads the hash to chain onto,
`RequestEnds` commits or rolls back. `Before` is the order of `created_at` and id,
and `Replay` is `verify_chain` over the committed rows in that order, said of
every row and the one before it.

`PushSubscriptions`: one device. A `MULTI` is one step (`Upsert`, `Delete`), what
it prunes was read before (`ReadExisting`, `ReadRemoved`); `List`, `Get`,
`Delivered` and `Touch` are a delivery. The set of the tenant behaves as those of
the topics and is left out.

`MCRows` puts these four and `EntityRisk` in one run: no code leads from one to
another, so the variable `part` chooses which of them a behaviour runs. It
is a way to check five small specifications at once, not a composition. It
extends all five, so that the theorems of `RowsProofs` are about the very
definitions the run checks; where several modules are extended together, here and
in `ConnectorProofs` and `IngestProofs`, names such as `OAuthInit` and
`stream_vars` keep them apart.

## 3. Runs

Passing runs:

| run | instance | shows |
|---|---|---|
| `actions` | two actions, two handlers, one type of each kind, two choices, at most two timeline entries per action, one restart; symmetric | no double execution, a completed action took effect, the choice is on the timeline, a reply that nothing is under way for stays, the desk is implemented |
| `slack` | one action, one click, two timers, one crash of the bot, one restart of the service | one live timer, truthful audit, nothing executed but for the one caller who was granted its approval; every call and timer ends in a row unless cancelled |
| `connector_poll` | one poller, six ticks, a schema change at 3, one lost write, one cut-off | outage marker, spacing of backfills, a backfill that is recorded as a success left no hole but for what the source and ingest left out, drift |
| `connector_jobs` | two connectors, two signatures, three edits, one failed reload, one restart | job store and signatures agree and converge to the table |
| `fusion` | one replica, a duplicate pair, a third alert, an invalid one and one that is not JSON, one crash, one call or delivery that fails | announced is stored, nothing counted twice, no alert lost (what was handed out is published, a suppressed alert repeats a grouped one), every valid message is fused that no unreadable one stands before |
| `ingest` | three requests, queue and batch of 2, failing and hanging flushes, shutdown at any point | the log of `GraphLog` (order, whole batches, a drained exit), the graph ahead of fusion only for a request that was not answered "ok", every request answered, a signal ends the process |
| `playbook` | every two-step playbook that jumps, a containment behind an approval, a loop of three, the three failure policies, the empty one | calls and steps are bounded, a poll sees the run end |
| `investigation` | three nodes of at most two entries, one client, a restart | ledger, memory and client agree with the log; a run that is finished or told as ended is whole; a client hears the end |
| `graph_stream` | two clients, two tenants, a buffer of one, three messages | order and tenancy of the tail, counted losses, a loop that does not wait |
| `rows` | two analysts with two requests each; two refresh workers and three tokens; three audit rows and two instants; two entities with three signals and one cut-off; three requests for one device | see the comments in `MCRows.tla` |

`SlackClicks.cfg` stands beside the `slack` run: the same safety invariants with
two clicks and two timers, up to their symmetry, which TLC checks in seconds; with
liveness that instance takes minutes. In the run, the two timers may be armed to
approve, so that three callers race for one approval there as well.

Some properties are conjunctions with a name: `RunsForOne`, `DecisionStands`,
`NoAlertLost`, `StreamIsLog`. Their parts are defined before them and have theorems
of their own. `WrittenInOrder` and `ExitIsDrained` of `IngestGraph` are not
checked by themselves: `ImplementsLog` says both but for the handlers at work when
the process exits, and both are proved.

Runs that must be violated, each a statement of the repository:

| run | statement | what the code does |
|---|---|---|
| `graph_panic` | `NoSendOnClosed`: the broadcaster is "safe for concurrent use" | a client that leaves between the collection of targets and the offer has its channel closed under the send |
| `audit_fork` | `ChainVerifies`: anyone can replay the chain | two overlapping requests chain onto the same row |

Why these bounds are enough to be interesting: two actions and two handlers give
every pair of overlapping requests on one record and across records; a second
crash or restart starts from states the first one already produces; six ticks
are one threshold, one flap window and a backfill; a queue of two with three
requests fills it while a batch is being flushed; two steps with every jump
contain every shape of a cycle through the visited set, and the loop of three
one that is not direct; a buffer of one with three messages has an offer
that fits, one that does not, and one after; three tokens are a rotation and a
new consent; three requests for a device are a subscription and any two that
overlap over it. `rba_max_top_entities` is at least 10 in the code; a queue of
one makes it overflow with two entities.

The code is compiled or configured with larger numbers (a buffer of 256, a
threshold of 3 failures): the modules take them as constants, the runs set small
ones.

`CHECK_DEADLOCK FALSE` everywhere: the bounded instances really do stop once
bounds and inputs are used up. `TypeOK` is not among the properties of every
run; where a module has proofs it is part of what is proved.

Liveness and fairness. Nothing is assumed about users, vendors, expiry or
crashes.

- `SlackApproval`: timers run out and a call ends, since `httpx` has a timeout.
- `ConnectorJobs`: the event loop runs due jobs and resumes awaited queries.
- `FusionPipeline`: an awaited call returns or raises, and a batch that was sent
  goes out or fails. That the loop goes on is not assumed: `ConsumeStops` ends it,
  and `EveryAlertFused` speaks of the messages it can reach. The Redis client is
  made without a timeout; a server that accepts a call and neither answers nor
  closes is left out.
- `IngestGraph`: handlers and `main` go on; `AnsweredAnyway` assumes nothing of
  the flusher, and `StopsOnSignal` states as its own premise that the flusher
  runs and that a flush ends by its deadline.
- `GraphStream`: the goroutine of the consumer is scheduled. Clients may never
  read, which is the point of `ConsumerMoves`.
- `Investigation`: the background task goes on, as its calls have timeouts, and
  a client that is awake and connected is served.
- `PlaybookEngine`: the engine's task goes on; handlers return or raise.
- `OAuthRefresh`: sweeps go on (`run_forever` survives every exception) and access
  tokens expire.

### Disagreements between the code and its documentation

Definitions under the heading "Statements of the repository that the code does
not keep" quote a doc, a comment or a docstring. Two are runs; for the others a
configuration stands beside the module, with the alternatives as commented
lines: TLC reports a violation for each within a minute. `PROJECT.json` lists
all as findings with the lines on both sides; `PromotedOnce` with two replicas is
part of the finding on `ScoreIsDecayedSum`. Where a hazard of `PROJECT.json` needs a
second writer that the passing run does not have (two replicas of fusion, two
requests that overlap), it is one of these configurations that shows it.

| configuration | statements |
|---|---|
| `ActionByHand.cfg` | `SingleUse` (two overlapping clicks both reach the timeline), `RejectOnlyPending`, `ReplyKept` (a quick reply is overwritten by the prompting request), `PromptedNotFailed`, `LiveWhenCredentialed` (an approved action has lost its parameters and only simulates), `ChatCommandsGated`, `UngatedCompletedIsLive` (an ungated executor reports completed although its client did nothing) |
| `ConnectorByHand.cfg` | `BackfillFillsOutage` (a truncated fetch or a partly rejected batch is recorded as a success), `LongOutageFilled` (success clears the outage before the backfill runs, so one that fails is not repeated), `ShortOutageCovered` |
| `ConnectorSlowGap.cfg` | `BufferCoversGap` with a poll interval longer than the buffer |
| `ConnectorParallel.cfg` | `BackfillsSpaced` with two processes |
| `ConnectorFirstPoll.cfg` | `FirstPoll` (a job added with `next_run_time=None` is paused) |
| `FusionReplicas.cfg` | `PublishedIsStored` with two replicas |
| `FusionByHand.cfg` | `RedeliveredIsGrouped` (a crash after `register` makes an alert a duplicate of itself), `EveryValidFused` (one message that is not JSON ends the consume loop), `SentIsDelivered` (the future of a send is never awaited) |
| `IngestByHand.cfg` | `GraphAfterFusion` (Neo4j has an event fusion never gets), `NothingLeftBehind` (the shutdown deadline skips the drain) |
| `SlackByHand.cfg` | `OneTerminalDecision` (approve and deny of one card are both granted), `FallbackAudited`, `ForgottenSettles` (the bot never schedules a timer) |
| `PlaybookByHand.cfg` | `ApprovalGates` (an approval step asks nobody) |
| `InvestigationByHand.cfg` | `FailureReported` (a failed run reads as completed), `TailComplete`, `LedgerSettles` |
| `RowsByHand.cfg` | approvals: `NoFlip`, `LastHeardIsTrue`; OAuth: `PollMarkKept`, `CountStartsAnew`, `ConsentKept`; audit: `TiesVerify`; risk: `QueueIsCurrent`, `ColdLeaveQueue`, `PromotionReported` and, with two replicas, `ScoreIsDecayedSum` and `PromotedOnce`; push: `OptOutSettles`, `PushGoesToUser`, `FreshIsFound`, `GoneIsGone` |

## 4. Proofs

For every value of the constants, under the named assumptions of the modules
(bounds are naturals, null values are none of the values they stand beside, and
what is listed below). Every proof module has the same shape: an invariant that
contains the property and what it rests on, one lemma or step per action, and a
temporal step at the end. TLC checks every property among them on the instance of
its run as well.

Three hypotheses restrict a theorem, and the code runs that way:

- one process polls a connector (`Pollers = {p}`), for the spacing and reach of
  backfills and for drift: the service starts one scheduler. `OutageIsTrue` needs
  no such thing. `ConnectorParallel.cfg` shows the spacing fail with two.
- one replica of fusion (`Replicas = {w}`), for what `FusionPipelineProofs` says of
  incidents and duplicates and for `PromotedIsOnce` and
  `ScoreIsTheSum`: `docker-compose.yml` runs one.
  The Helm chart runs two, and `FusionReplicas.cfg` and `RowsByHand.cfg` show the
  properties fail there.
- `Buffer` is at least one tick in `ConnectorPoll`
  (`_BACKFILL_LOOKBACK_BUFFER_S`, five minutes) and one update in `GraphStream`, and an alert in `EntityRisk` touches an entity
  (one that touches none returns before it does anything).

The arguments:

- `ActionServiceProofs`. `TypeCorrect`: `Spec => []TypeOK`. `OneRun`:
  `AtMostOneRun` is not inductive; an approval is safe only because a parked
  action has never run, and a vendor effect is single only because a waiting
  executor belongs to one handler and has not acted. `OneRunInv` says exactly
  that, together with "an unused id has left no trace". `NoSecondRun` draws
  `AtMostOneRun`, `GatedNeedsApproval` and the bound on effects from it.
  `DeskImplemented`: `Spec => ImplementsDesk`, with a second invariant,
  `TasksUngated` (no waiting handler works for a gated type), so that late answers
  and callbacks are stuttering steps of the desk. `CompletedIsReal`: a handler
  that has an answer to record waits on behalf of an effect that took place, and
  whatever waits for approval is gated (`EffectInv`); this is proved, and true, of the
  types whose executor reports what the client told it, not of `Unconfirmed`. `RepliesAreOnTimeline`: the
  timeline only grows, and a step that changes the choice of a record either has
  just written it there or sets the warning (`ReplyShown`). `SettledReplyIsFinal`:
  a record with a reply is in the replay set and does not wait for approval
  (`RepliedOnce`), so that no click or approval of it starts, a rejection only sets
  the status, and the handlers that could still write to it are ruled out by the
  property's premise.
- `ConnectorProofs`. `JobsFollowSignatures`, from the shape of a reconciled job
  store. `OutageIsTrue`: the marker is written from the row and not from the copy a
  poll loaded, so that no other invariant than the types is needed, for any
  number of pollers. `OnePollerSpaces`, `BackfillIsWhole` and `DriftIsNoticed` rest
  on what a cycle has read being still true when it is used: the stamp it loaded
  is the row's until it stamps itself (`StampAsLoaded`), its decision holds until
  then (`DueHolds`), the backfill asks for the window decided (`Reaches`), what of
  it is neither in the lake nor on its way was left out by the source or by ingest
  (`lost`), and the
  fingerprint it compared with is the row's (`BaselineHolds`).
- `IngestProofs`. `CleanExit`: the writer is closed after the last handler, and the
  flusher leaves only with an empty queue and batch (`Drained`). `WrittenIsInOrder`:
  written, batch and queue are one sequence (`pipeline`); a step appends what was
  just accepted, moves the boundary, or drops the batch from the middle, and the
  lemmas on `Ordered` say that each keeps the order. `LogImplemented`: a step of the
  process is one of the log or stutters; the flusher's moves from queue to batch
  are the stutters, and that an accepted event is new and finds room follows from
  what the writer holds. `AheadIsKnown`: a handler answers "ok" only for what is
  on the topic (`OkIsPublished`), and what Neo4j holds was accepted from a handler.
  `TailIsInOrder`: what a client
  got is sorted and older than the update being offered as long as the client is
  still among the targets. `LossesAreCounted`: no step but an offer changes what a
  client is owed and lacks (`Untouched`), and an offer that finds no room adds the
  one pair that it counts.
- `FusionPipelineProofs`. `PipelineTypes`, for any number of replicas, with "nothing
  refers to an incident that has not been created" (`Drawn`). `AnnouncedIsStored`:
  the members a merge has loaded contain all that was announced of the incident,
  which is stored like that or has expired (`Stored`). `NoneCountedTwice`: an alert in
  an incident has its fingerprint registered, and one that is being grouped is in
  none; an incident in the middle of a merge counts as it was loaded (`Counted`).
  `DuplicatesAreOfGrouped`: undisturbed, a fingerprint is of a grouped alert or of
  the one at work (`Suppressed`). `NothingIsDropped`, for any number of replicas: a
  message that is handed out stays with the replica at work on it until it is
  published, a duplicate too, or fails, which the premise excludes. `NoAlertIsLost`
  joins the two.
- `SlackApprovalProofs`. `OneTimer`, `RowsAreTrue`, `NothingRunsByAccident`. The
  invariant adds what a caller may ask (`CallerInv`): a timer's request is its
  safe default, a caller that sleeps has neither sent nor been answered, and a
  granted caller keeps its request, cancelled or not. The last point is what
  makes an execution traceable after its timer was cancelled (`EvidenceStays`). `OneApproval`:
  an action whose approval was granted waits no more and, its card being posted,
  is never parked again, even when a restart has forgotten it (`OnceInv`);
  `EveryRunIsForOne` is this with `NothingRunsByAccident`. `DeskObeyed`: the bot moves the desk only as
  `ApprovalDesk` allows; with `DeskImplemented` on the other side, what is said of
  the bot here is said of it with the service.
- `PlaybookEngineProofs`. `RunIsBounded`: `CallsBounded` for every playbook. Needs
  that results are of visited steps only, that the visited set grows with every
  result, and that calls of the current step equal its attempts.
- `InvestigationProofs`. `StreamedOnce` and `LedgerIsTheLog`: the list in memory is
  a prefix of the log of length `emitted + offset`, so a sequence number is its
  entry's place in the log. `ClientsTailInOrder`: the entries of a log are distinct,
  and what a client was sent lies, in order, within the part of the log it has
  seen (`Follows`). `EndsWhole`: the ledger's end, the status and a client's end are
  all written from places where the counter has caught up with the log (`CaughtUp`),
  and nothing is logged or handed on after them (`EndInv`); `StreamIsTheLog` is this
  with `StreamedOnce`.
- `RowsProofs`, approvals. `DecisionsStand`, with its parts `RowHoldsOneDecision`,
  `AnnouncementsAreCommitted` and `OnlyEarlyReadersReplace`: every copy read again after a commit is one of the
  commits, and whoever has read the pending row after a commit was among those
  who had read it when the first commit came.
- `RowsProofs`, push. `SubscribersAreReached`: what `Upsert` drops is disjoint from
  what it adds whatever it read, and a delivery only writes back a record that
  existed. `OptOutsAreHonoured`: without overlap one request is open (`Alone`) and
  what it has read is still the record (`Fresh`).
- `RowsProofs`, OAuth. `TokenStaysUsable`, for any number of sweeps: a provider that
  does not rotate accepts all that the row and the sweeps hold (`StaysGood`); one
  that rotates has given the token a sweep is about to write to that sweep alone,
  so nobody else can use it up (`AnswersAreOwn`).
- `RowsProofs`, risk. `PromotedIsOnce`: the copy an observation works on agrees with
  Redis on the promotion (`InStep`), what it is about to return was not returned
  before (`Returning`), and an entity above the threshold that is not promoted is
  the one being followed up (`NotMissed`). `ScoreIsTheSum`: every saved record, and
  the copy an observation works on, is the sum of its signals at its own time
  (`SumInv`); decaying such a sum by some ticks gives the sum at the later time, and
  a signal adds its points. The sum is over any number of signals, so this needs
  induction. `NaturalInduction` states it of a set rather than a predicate, and
  proves it by counting: the numbers up to n outside an inductive set would map one
  to one into fewer. That sums of every length exist (`PartialSums`) and that powers
  add (`PowersAdd`) follow from it; that 2^(n+1) is twice 2^n is drawn from the
  number of subsets of a set. The assumption that points are multiples of
  2^`MaxTime` is a choice of unit: within the bound on time, a score halves without
  a remainder. The code's score is a float, which rounds and is cut off at 0.05;
  neither is modelled.
- `RowsProofs`, audit. `SerialLogVerifies`: with one request at a time, the hash a
  row was linked to is that of the latest committed row until it commits
  (`LinkHolds`), and it comes after all of them (`Stamped`); that there is a latest
  one is kept with every row that is added (`HasLatest`), which needs no induction
  over the set.

Only model-checked: liveness and everything stated with fairness (`EveryAlertFused`,
`Converges`, `AnsweredAnyway`, `StopsOnSignal`, `ConsumerMoves`, `WatcherHears`,
`DeadGrantAlarms`, `PollEnds`, `CallsAreAudited`), because `ENABLED` is out of the
prover's reach. Of `EveryAlertFused` and `WatcherHears` the safety half is proved:
`NoAlertIsLost` (and `NothingIsDropped`, for any number of replicas) and `EndsWhole`.

## 5. Findings worth a reader's time

Most statements hold. Of those that do not, the ones with the largest effect:
an approval step of a playbook asks nobody; an approved action is only simulated
and reported as completed; a client that disconnects can take the ingest
process down; one message that is not JSON ends the fusion of alerts until somebody
removes it; a backfill that brought a part of the outage is recorded as whole; two requests that overlap break the verification of the audit
log; a failed investigation reads as completed; approvals can be flipped by a
racing request; a device that changes hands receives the pushes of both users.

## 6. Not modelled

Inside modelled components: what vendors, Slack and Neo4j do inside a call;
wording, layout and normalisation; authentication; the ingest service's inbox
endpoints and change envelopes; the read-only Slack commands; the HTTP of the
OAuth consent flow; redaction and canonical encoding of audit payloads; a condition
of a playbook step that raises out of the engine; an exception that one connector's
refresh does not catch and that ends the sweep before the connectors after it
(`OAuthRefresh` follows one row; those behind it are skipped in every sweep while the
cause lasts).

Components:

- Hunt scheduler and weekly digest (`api`): the executor the hunt scheduler
  calls is a stub that returns no findings, so its sweep has nothing to get
  wrong yet; the digest renders and sends.
- Analyst queue and alert submission (`api`): a claim is one guarded `UPDATE`, a
  submission one insert under a unique key.
- Realtime's WebSocket side: each Kafka message is forwarded to the sockets of
  its tenant in one synchronous loop, without state of its own.
- Configuration snapshots (`ingest`): a cache of fetched configurations.
- Live actions (`actions`, dispatcher): stateless; calls do not share anything.
- Teams approvals (`teams-bot`): the Slack callbacks without timers; the calls
  are those of `SlackApproval`.
- Cases, SLA and fan-out, rules and tuning, lake access (`api`): single-row
  updates, evaluation of rules over one event, SQL text.
- Enrichment, UEBA, threat intelligence, honeytokens, purple team, osquery-tls:
  vendor I/O, floating-point statistics, one table each.
- Vendor connectors, MCP server, web console: clients and rendering. With scripts,
  generated detections and demo data these are most of the repository's lines,
  and have no state that steps could disagree about.

## 7. Plan

1. An abstract specification of the live tail (a prefix of the updates with counted
   gaps), implemented by `GraphStream`, beside what `TailIsInOrder` and
   `LossesAreCounted` prove of it; the safety half of `Converges` and
   `DeadGrantAlarms`.
2. `EntityRisk` driven by `FusionPipeline`'s consumer, with redelivery: the same
   alert may add its points twice after a crash.
3. The consumer group of `realtime` against clients connected to one of several
   replicas; case fan-out to chat and ticketing.

# A verification of AgentPaaS' runs, services and logs

AgentPaaS runs agents in governed containers on one host. A daemon admits
invocations of deployments, turns them into durable workflows, drives pipelines
of stages, supervises the attempts of each run and records everything in files,
so that it can be killed and started again at any moment. Around that core are a
trigger service with durable event feeds, inboxes that wake suspended workers, a
registry of the tool services a workflow shares, and a hash-chained audit log.
This project models all of these in TLA+, checks them with TLC and proves their
safety properties with TLAPS.

Some of what is modelled is offered by its package and called by nothing in the
daemon yet: CommitStageSuccess, CommitStageFailure and ResumeWorkflow of the
pipeline controller, HandleResult, Cancel and Finalize of the supervisor (the
reference worker of the conformance tests calls HandleResult), the durable inbox
and its wake registry, and the idempotency store of the trigger service. The
models take these as the packages define them, with callers that call when they
like.

Contents: 1. the system, 2. the modules and how they follow the code, 3. the
runs, 4. the proofs, 5. where code and comments disagree, 6. what is not
modelled, 7. the plan.

## 1. The system

| Component | State it keeps | Operations | Interacts with | What is hard |
|---|---|---|---|---|
| Routed-run store (`internal/routedrun`) | one JSON file per deployment, alias, workflow, node, run, attempt, receipt, idempotency record, ledger; each with a generation | admit, get, compare-and-swap update, control requests, amendments, WAL | every daemon component calls it under one mutex | one call writes several files; callers read, decide and write in separate calls |
| Invocation admission (`internal/daemon/routed_handlers.go`) | none of its own; an in-memory registry of pipelines | InvokeDeployment, deployment and alias administration | store; starts a run or registers a pipeline | concurrent requests with one idempotency key, quota, restarts in the middle |
| Pipeline controller and reconciler (`internal/workflow/pipeline`) | generation maps, a launch store, launcher records, all in memory | claim, launch, acknowledge, commit success or failure, cancel, resume | store; container runtime; ticked by the daemon | many records per operation, two controllers at once, lost memory |
| Run supervisor (`internal/supervisor`) | trackers in memory; result files and control journal | ClaimForRun, HandleResult, Cancel, Finalize, Reconcile, progress, stall checks | store; the daemon's own status writes | terminal calls race, restart between any two writes |
| Control requests, amendments, WAL, control journal | files beside the workflow | RequestControl, AppendLimitAmendment, ApplyTransition, RecoverWAL, Append | store, pipeline controller, supervisor | request and effect are separate writes; replay of old entries |
| Trigger service (`internal/trigger`) | idempotency table and its file, run entries, event bus, cron flags | Invoke, InvokeStream, CancelRun, cron ticks | daemon's run start; durable event store | expiry against retries, cancel grace against a late end, one flag per agent |
| Durable event store (`internal/trigger/durable_eventstore.go`) | a log per run, its index, subscribers with bounded channels | Append, Subscribe, Read, Close, recovery | trigger streams, inbox wake-ups | fan-outs and replays interleave, overflow, torn records |
| Durable inbox and wake-up (`internal/runtime`) | a log per run and its index | Append, List, MarkDelivered, Purge, WaitForWake | event store | message durable, wake-up not; worker stopped when the wake comes |
| Delegation (`internal/delegation`) | tasks, results, events, subscribers | create, compare-and-swap, CommitTerminal, WaitTerminal | harness, MCP router | a waiter between the three writes of a terminal commit |
| MCP service registry (`internal/mcpmanager`) | service instances with generations and capabilities, call trackers | Declare, Start, Stop, Fence, Reconcile, bind clients, route calls | container runtime | work between two critical sections of Start and Stop |
| Audit log (`internal/audit`) | hash-chained file, signed checkpoints, head in memory | Append, Close, recovery, verification | the daemon and every command append | torn last line, checkpoints beyond a truncated tail, two processes |
| Secrets, policy, identity, packaging, install, CLI, dashboard, harness, SDK | files and requests | one command or request at a time | | mostly input, output and pure functions |

What makes the core correct: an admission is found complete or not at all; a key
answers with one invocation; the quota of a deployment holds; statuses move along
`transitions.go`; stages run in order, each on the committed handoff of the stage
before; a workflow succeeds only with all its stages; an attempt succeeds only on
a verified result of its own; what is terminal stays so; and after a restart
nothing that was under way is left with a live lease. What makes the parts around
it correct: what was acknowledged - an event, a message, an audit record -
survives crashes and torn writes; readers see events in order and at most once; a
message is consumed once; a generation of a service has one container and only its
own start announces it; a live key starts one stream
run; and recovery of the audit log neither loses a chained record nor cries wolf.

`PROJECT.json` lists every component with its status, and every hazard at its
line with the properties that watch it.

## 2. Modules

| Module | Models |
|---|---|
| `RoutedRun` | statuses and transition tables of workflows, runs, nodes and attempts (`enums.go`, `transitions.go`), the slot-holding and the charged statuses |
| `Admission` | InvokeDeployment over AdmitInvocation, administration of deployments and aliases, GetWorkflow ... UpdateWorkflow |
| `InvocationService` | what admission promises, in single steps; `Admission` implements it |
| `Pipeline` | Controller, Reconciler, launch store and launcher of one linear pipeline |
| `Supervisor` | the supervisor of one durable run and the daemon goroutines around it |
| `EventFeed` | what an event store promises its readers; `EventStore` implements it |
| `EventStore` | the durable event store of one run, with its subscribers |
| `Inbox` | the inbox of one run and the wake-up of its workers over the event store |
| `Trigger` | the trigger service: streams, idempotency, cancellation, bus and bridge, cron |
| `ServiceRegistry` | the MCP services of one workflow and the calls routed to them |
| `AuditLog` | audit file, checkpoints, recovery and verification |
| `...Proofs` | theorems about `Admission`, `Pipeline`, `Supervisor`, `EventStore`, `Inbox`, `Trigger`, `ServiceRegistry` and `AuditLog` |
| `MC...` | constants of the TLC instances, one module per component |

The state machines share the tables of `RoutedRun` and meet at interfaces that
each states on its own: what `Admission` leaves in the store (a PENDING workflow,
its first node READY) is the initial state of `Pipeline` with `InitialStatus =
"PENDING"`; the double launch that `Admission` exhibits is the pair of launchers
of `Supervisor`; `Trigger` and `Inbox` use the event store, `Trigger` as a log
with a cursor per reader, `Inbox` with its channel, cursor and fan-out, because
the wake-up depends on what a subscriber may miss.

### Admission

One step is one file write, because a file is replaced atomically (temporary
file, fsync, rename) and nothing larger is. `lock` is `LocalStore.mu`.

* `InvokeDeployment` is the handler's snapshot of the key's invocation;
  `ReplayIdempotentAdmission`, `AdmitRefused` and `AdmitInvocation` are the exits
  of AdmitInvocation's checks, in the code's order; `CommitAdmission` writes the
  next file of `commitAdmission` (workflow, `NodeRunFiles` node and run files,
  receipt, idempotency record, ledger); `CommitFails` is an error of any of these
  writes, after which nothing is undone; `Respond` classifies, registers or
  launches.
* `GetWorkflow` and `UpdateWorkflow` are the two halves of every driver of a
  workflow, `UpdateRefused` a lost compare-and-swap or a missing slot,
  `SyncActiveTime` and `SyncFails` the second file of an update.
* `Crash` loses everything but the files. The restart runs supervisorReconcile,
  whose reconcileActiveTime closes open active-time segments; it may stop anywhere,
  so any part of them is closed (`ReconcileActiveTime`).
* `told`, `launches` and `torn` are history that the properties refer to.

Abstracted: an admission draws invocation, workflow and run id together, so one
id stands for the three; the intent digest is the pair of reference and input;
generations of deployments and aliases, which only refuse stale administrators,
are left out; the ledger is absent, closed or open, without its sums.

### Pipeline

One step is one store call. The daemon's operations share a Controller and hold
its mutex from first read to return (`mu`); a CancelWorkflow RPC makes its own
Controller and interleaves with them call by call. A Controller presents
generations from maps in memory in which a missing entry counts as 1 (`nodeGen`,
`runGen`, `attGen`), which is what makes a new Controller's writes fail.
`op[p].at` is the next store call of process `p`, `op[p].to` the status it is
after. ReconcileOnce runs through `find`, `claim`, `claimNode`, `attempt`, `put`,
`launch`, `ack`; CommitStageSuccess through `node`, `run`, `att`, `handoff`,
`pause?`, `next` or `readWf`, `unpause`, `wf`; and so on. `Events` switches
crashes, failed writes and launches, exits, pauses, fences and rejected handoffs
on for a run. A read that the next call's compare-and-swap follows at once is
merged with it where no other process can tell (the module's header says where).
`Crash` includes the supervisor's pass over the runs at the restart
(`SupervisorReconcile`), which fails open attempts and the runs that are not
terminal, those of later stages too, and may be cut short by an error. Container
specifications, networks and the content of handoffs are left out.

### Supervisor

One step is one call of the store, the result store or the journal:
`casAttemptToByRecord`, `casRunTo` and the daemon's `updateLegacyRunStatus` read
a record, read its generation and write in three steps. `tracker[a]` is the
sequence of trackers made for an attempt, since a call keeps the tracker it
found while a later one replaces it. `Boot` runs Reconcile after a crash, before
anything is served; `reconciled` are the attempts it got through before an error
ended it. `StoreFails`, `SaveFails`, `JournalFails`, `ReconcileUnlisted` and
`ReconcileAttemptFails` are the error returns; `Events` switches them on for a run.
Authentication of events is abstracted to "a verified result"; progress,
checkpoints and the stall tracker are left out, and the active-time part of
Reconcile is in `Admission`.

### EventStore and EventFeed

Append writes the log and the index under the run's mutex (`AppendEvent`) and
offers the event to the subscribers it saw there after releasing it, one offer a
step; Subscribe takes a snapshot under the mutex and replays it outside. An offer
is `subscriber.send`: dropped when the cursor has passed it, put into the channel,
or, when the channel is full, answered by closing it (the overflow timeout). The
log is a sequence of chunks, whole or torn, with their newline or without, and
recovery reads them as the code does. `EventFeed` is the promise: one order, each
reader sees it in order and at most once. It does not promise every event, since
an offer that is overtaken is dropped (section 5).

### Inbox

The log is modelled as in `EventStore`. `states` are the `inboxRunState` objects:
Purge takes one out of the map before it locks it, and calls that hold it go on
with the old object and the same file. A sender's Append is three steps (look-up,
write under the mutex, wake event) and one per offer; `WaitForWake` subscribes
from sequence 0, `Replay` fills the channel before the caller has it, `Forward` is
the goroutine. The feed is the run's, so it has other events beside the wake events
of tasks (`OtherEvent`), which are offered in between; the event store's own log is
left to `EventStore`, and `Recover` allows for one that cannot be read. No worker
loop exists outside the tests: workers wait, list and mark when they like, and
nothing is assumed of what they eventually do. The content of messages,
tenants and paths are left out, and so is the temporary file that two rewrites of
an old and a new object would share.

### Trigger

One step is what happens under one hold of a store's mutex or one call out of the
service. A request draws a run id; the run that invokeFunc starts has an id of its
own and publishes on the bus under it, which the bridge copies into the durable
log of the request's id. Requests come with a key or without one, which is also
what a service without an idempotency store sees, the daemon's. Invoke registers
its run as PENDING and marks it RUNNING in a step of its own. `job` are RPC
handlers and cron goroutines, `entries` the run store, `idem` and `idemFile` the idempotency table and its file. Time is a
minute counter for cron and nondeterministic expiry for keys; the grace period is
the freedom to force a cancel or to let the run end first. Webhooks, handoffs to
other agents, authentication and SSE framing are left out, and so is InvokeStream
without a durable store (`server.go:598`), which the daemon falls back to when that
store cannot be opened (`daemon/server.go:479`).

### ServiceRegistry

One step is one hold of the registry's mutex or one driver call; nothing is locked
between the phases of Start and Stop. An operation runs through the services it
is for (`todo`), and `box` is what the driver was asked to create, with the
generation in its label. `NewTracker` restarts call ids, as the code does; calls and
trackers carry no property, because the one that Fence's comment promises fails
(section 5). The
readiness probe looks at the shared instance, whose container id another Start may
have replaced, is skipped when the registry has none, and is wired to one that is
always ready in the daemon (`mcp_run.go:27`); so it is a step that may fail and
about whose success nothing is recorded. The workflow network is reduced to an
attachment that may fail; health probes other than readiness, egress rules and call
evidence are left out, and with them lifecycle.go and router.go, the older
per-agent path.

### AuditLog

A file is the sequence of what was written, each record and each checkpoint whole
or cut short, with its newline or without it; the number of a record stands for its
hash. The daemon's writer has the checkpoint manager; commands open writers of
their own. `Append` takes the lock file, so appends do not interleave, but each
writer chains to the head it remembers. `clean` says that no writer went on over a
failed write, an unterminated line or a stale head.

## 3. Runs

Passing runs, with the instance and why it is large enough:

* `admission_idempotency`: two RPCs, one key, a standalone and a pipeline
  deployment with one slot each, an alias that moves between them, two ids, two
  node and run files. Everything the key protocol tells apart needs two requests
  and two ids; a third id would only repeat the second. Shows that publication is
  atomic, a key has one invocation, and the whole implements `InvocationService`
  (`ImplementsService`): the binding of a key is read from the idempotency record,
  the last file of a commit but one, so that every file before it is a stutter.
* `admission_slots`: two keys compete for one slot while two drivers pause and
  resume, five generations (enough for start, pause and resume, with a stale
  driver in between). Shows the quota, legal transitions without a check in the
  store, and no open active-time segment on a workflow that is not charged for.
* `pipeline_pauses`: two stages, two reconcilers, a worker, pauses and resumes at
  any moment, exits and fences. Order of stages, handoff before the next stage,
  success only with all stages. Two stages give both kinds of stage (inner and
  final). Both pipeline runs begin with a RUNNING workflow, which only a test helper
  makes: an admitted one is PENDING, nothing moves it on (section 5), and most of
  the controller would never be reached.
* `pipeline_faults`: one reconciler, crashes, failed writes and launches, rejected
  handoffs, failures and a concurrent CancelWorkflow. Terminal statuses are final,
  calls that are cut short let no stage begin without the handoff before it and no
  workflow succeed without all its stages, and one daemon has at most one container
  per stage. Pauses are left to the other
  run: a resume against a half-done cancel breaks the order of stages (section 5).
* `supervisor`: two attempts, two launchers of the run, one caller of the terminal
  operations at a time, the daemon's own `finalizeRun`, failed launches and errors
  of their store calls, unsaved results, lost journal events, crashes and errors
  within Reconcile: an attempt succeeds only on its own verified result, the
  supervisor completes the run only over a stored result and a succeeded attempt,
  and what Reconcile got through has no live lease. `SuccessIsConsistent` needs the
  single caller: a second one may overwrite the attempt before the run is written;
  `RunSuccessNeedsVerifiedResult` is what is left of it with any number of callers,
  and proved so. Two launchers and two attempts are what a double launch makes.
  Other errors of the store within a terminal operation (`store_error`) are out of
  the run, which they triple; the theorems cover them.
* `event_store`: two appenders, a subscriber that reconnects with its cursor, a
  channel of one event, four records, two faults. Two appenders are needed for one
  fan-out to overtake another, a channel of one for overflow at once. Checks the
  refinement of `EventFeed`, and that no client stalls. Fairness: a call that began
  goes on, and the client reads its channel; a client that stops reading is cut
  off by the overflow timeout, which is what `NeverStalls` states. No deadlock
  check: the run's appends are bounded, and a closed or unreadable store does
  nothing more.
* `inbox`: two senders, one worker, a channel of one event, two messages, another
  event of the run, two faults, one purge. No deadlock check, for the same reason
  as above.
* `trigger`: two callers, which are RPCs with a key or without, or goroutines of two
  cron schedules of one agent that forbid concurrency; two cancellations, a key with
  two request hashes that expires once, one minute, a bus channel of one event, one
  run that reports progress, runs that end in success (another end takes the same
  path; a start that fails is in the run), one fault. Two schedules that are due in
  one minute are what the flag of the agent is for. No deadlock check: calls are
  bounded by the ids they draw.
* `services`: two callers, two services in binding order of which one is called,
  two starts, two containers, one fault. Two generations are what a superseded
  start and its successor need. No deadlock check: starts are bounded.
* `audit`: the daemon with a checkpoint after every record, one command, five
  records, two faults: enough for a record, a torn one, a recovery and two records
  on top of it.

`MaxGeneration` and `MaxContainers` bound counters that would otherwise grow for
ever; the cases of interest lie below them. Workflow ids, keys, clients, drivers,
reconcilers, attempts and launchers are symmetric in the runs that use symmetry,
none of which checks liveness. Fairness is assumed in `event_store` alone. The two
runs that must end in a violation, `admission_launch` and `supervisor_race`, are in
section 5.

Every property of a passing run has a mutant in `PROJECT.json`: a plausible
mistake in one definition that breaks the property under the same instance.

## 4. Proofs

One module of proofs for each of the eight components. Every theorem holds for all
values of the constants: any number of callers, workers, keys, services, records,
faults, any buffer size, and every bound of a counter. TLC showed each invariant
on an instance before it was proved.

Assumptions are the named `ASSUME`s of the modules, evaluated by TLC on the
instances: bounds are natural numbers, buffers and the checkpoint cadence are
positive, different kinds of process have different names, and `None` is none of
the values it stands for the absence of. What goes beyond that is in the statements
themselves: `clean` and that checkpoints end their lines (part of the properties,
`AuditLog`), and `OneReconciler`, `NoResumeOverCancel`, `SoundResume` and
`CalmResume` (`Pipeline`).

| Module | Theorem | States |
|---|---|---|
| `AdmissionProofs` | `TypeCorrect` | `Spec => []TypeOK` |
| | `PublicationIsAtomic` | `Spec => []PublishedIsComplete` |
| | `KeysAreUnique` | `Spec => []OneInvocationPerKey` |
| | `QuotaHolds` | `Spec => []QuotaRespected` |
| | `TransitionsAreLegal` | `Spec => OnlyLegalTransitions` |
| | `NeverOpenWhileFrozen` | `Spec => []NoSegmentWhileFrozen` |
| | `ServiceImplemented` | `Spec => ImplementsService` |
| `PipelineProofs` | `TypeCorrect` | `Spec => []TypeOK` |
| | `OneContainer` | `Spec => []OneContainerPerStage`, for one reconcile loop |
| | `TerminalStays` | `Spec => TerminalIsFinal`, unless a workflow is both resumed and cancelled |
| | `InOrder` | `Spec => []StagesInOrder`, unless a workflow that is resumed may fail or be cancelled |
| | `HandoffFirst` | `Spec => []HandoffBeforeNextStage`, unless a workflow that is resumed may lose a call half-way, fail or be cancelled |
| | `AllSucceeded` | `Spec => []SucceededMeansAllStages`, likewise |
| `SupervisorProofs` | `TypeCorrect` | `Spec => []TypeOK` |
| | `VerifiedSuccess` | `Spec => []SuccessNeedsVerifiedResult` |
| | `LeasesRevoked` | `Spec => []NoActiveLeaseAfterRestart` |
| | `VerifiedRunSuccess` | `Spec => RunSuccessNeedsVerifiedResult` |
| `EventStoreProofs` | `TypeCorrect` | `Spec => []TypeOK` |
| | `AcknowledgedSurvive` | `Spec => []AckedSurvives` |
| | `StoreImplementsFeed` | `Spec => ImplementsFeed` |
| `InboxProofs` | `TypeCorrect` | `Spec => []TypeOK` |
| | `AcknowledgedSurvive` | `Spec => []AckedSurvives` |
| | `NeverRedelivered` | `Spec => []NotRedelivered` |
| `TriggerProofs` | `TypeCorrect` | `Spec => []TypeOK` |
| | `FeedsAreWellFormed` | `Spec => []FeedWellFormed` |
| | `StreamStartsOnce` | `Spec => []StartedOnce` |
| | `OneOutcome` | `Spec => []OneCancelOutcome` |
| | `ForbidHolds` | `Spec => []ForbidRespected` |
| | `FinishedRunsStay` | `Spec => FinishedStays` |
| `ServiceRegistryProofs` | `TypeCorrect` | `Spec => []TypeOK` |
| | `OneContainer` | `Spec => []OneContainerPerGeneration` |
| | `ReadyAttached` | `Spec => []ReadyWasAttached` |
| `AuditLogProofs` | `TypeCorrect` | `Spec => []TypeOK` |
| | `AcknowledgedIsChained` | `Spec => []AckedIsChained` |
| | `NoFalseAlarmEver` | `Spec => []NoFalseAlarm` |
| | `ChainedRecordsStay` | `Spec => ChainedStays` |

None of the properties is inductive by itself. In each module `InvHolds` (in
`AdmissionProofs` a theorem for each layer) proves an inductive invariant, one
lemma per action, and the theorems follow from it.

**Admission.**

* `TypeInv` adds to `TypeOK` what a program counter says about the locals
  (`JobOK`) and that whoever holds the mutex is in the middle of a commit or an
  update (`LockOK`).
* `KeyInv` adds `CommitOK`: what a commit with `n` files written has written and
  not written yet. Its heart is that a commit before the idempotency record has a
  key nobody else recorded and an id no record names, which holds because the
  checks and the commit are under one hold of the mutex. `RespondOK` and `ToldOK`
  tie receipts on their way out, and those already out, to the record of the key.
  Publication and uniqueness follow, and so does the refinement of
  `InvocationService`: the write of the idempotency record is the service's
  `Accept`, an answer with a receipt its `Tell`, everything else a stutter
  (`CommitRefines`, `RespondRefines`, `StepRefines`).
* `QuotaInv` uses that `CommitOK` keeps the slot of a commit under way free until
  it is taken, and a lemma on cardinalities (`QuotaKept`) for a step that writes
  one workflow.
* `UpdateInv` adds `UpdateOK`: a pending update was legal for the status it read,
  and the record either still has that status and generation or a later
  generation. A write that passes the compare is therefore legal.
* `LedgerInv` adds `LedgerOK`: between the two files of an update a segment is open
  only if the status the update left was charged for; a restart only closes
  segments.

**Pipeline.** `StageInv` says who holds the mutex and what a call under way knows
about its stage (`Knows`): the writers of a success, a claim and a readying stand at
the front, with nothing under way before their stage and nothing begun behind it
(`Front`, `OrderOK`). A cancel has a Controller of its own and interleaves with all
of them; it presents generation 1, so it reaches only nodes that were never written
(`NodeOK`). On top of that:

* `KeysOK`: the key of a stage's launch is settled before it is used. It needs
  `OneReconciler`, which is how the daemon runs; two passes can settle on two keys.
* `FinalInv`: a node is cancelled from its seeded record only (`SeedOK`), and the
  daemon presents generation 1 to it (`GenOK`), so neither a claim nor ReadyNext
  takes it back; a run is finished by the call that finished its node (`RunOK`),
  which makes the unvalidated run writes harmless, or by the supervisor's pass at a
  restart, and then the emptied maps present generation 1 to a record that has left
  it, so the write is refused. `NoResumeOverCancel` is needed:
  ResumeWorkflow's retry writes READY over a CANCELLED node.
* `PassInv`: everything before a stage that was begun is behind the workflow
  (`Passed`: node, run and attempt SUCCEEDED, handoff committed), and each call has
  got through what its step implies (`Carries`). Nothing takes back what is behind
  (`NothingBack`, from `FinalInv`). ResumeWorkflow looks at nodes only, so for a
  workflow that is resumed the records must agree when it looks; `CalmInv` says that
  they do, unless a call is between them and then it holds the mutex. `CalmResume`
  excludes what leaves them disagreeing. Its parts are all needed: TLC violates
  `HandoffBeforeNextStage` and `SucceededMeansAllStages` with a resume and any one
  of crash, write error, rejected handoff or failure. `StagesInOrder` needs only
  `SoundResume`, no failure and no cancel; the invariant is then `Unbroken`.

Without resumes these theorems have no condition but `OneReconciler`: crashes,
write errors, failures, rejected handoffs and cancels are all included.

**Supervisor.** `Sound` says that success is recorded, in the attempt, the journal
or a tracker, only where a verified result was delivered; `CallOK` and `BootOK`
carry that through the locals of a call, whose reads and writes are separate
steps. `Quiet` separates start-up from service: nothing else is in a call while
Reconcile runs, so what it got through without an error is terminal, and afterwards
no call makes it anything but terminal. No theorem assumes a single caller: which
outcome a terminal attempt has may change (section 5), that it is terminal does not.
`SuccessIsConsistent`, which does need one caller at a time, is model-checked only.

**EventStore.** A subscriber filters by sequence number, the feed is ordered by
place in the log; `NumbersAscend` relates them: a failed write may leave one number
twice, but numbers never descend. `FromLog` keeps everything in flight, in
channels, replays and fan-outs, a record of the log, and `Ordered` keeps each
channel ascending and behind what its client read, so that each receive maps to a
step of `EventFeed` and everything else to a stutter. `Kept` ties acknowledged
events to the index.

**Inbox.** A message is in one place of one object and one place of the log
(`ObjectIds`, `LogIds`), because an id is drawn once and an append that has not
written yet is the only one that knows it (`SendIds`). What is marked in any object
is marked in the log (`LogFirst`): MarkDelivered rewrites the log before it changes
the object. So a rewrite from an object that a Purge took out of the map, which
replaces the whole file of its successor, may lose messages but cannot bring back a
consumed one. Without a Purge there is one object (`OneObject`), so a rewrite
contains every message that was written (`Kept`), whoever rewrites. `PublishOK`, on
the fan-out of the run's other events, is kept apart: no message depends on it.

**Trigger.** An id is drawn for a request or for an execution, never for both
(`IdsOK`), so the runs that CancelRun waits for and those that streams finish are
different. At any time at most one party may write the feed of a request: the call
that reserved its key until its bridge is subscribed, then that bridge until the
first terminal event (`FeedOK`). A live reservation is in the file, and the call
that made it is the only one that may start its run (`KeysOK`); an audited outcome
is on the run's entry (`EntriesOK`); an Invoke that is about to mark its run has
started it (`MarkOK`), so a cancellation in between stays; the flag of an agent all of whose schedules
forbid concurrency is set as long as its one goroutine runs (`CronOK`).

**ServiceRegistry.** `Claims`: a generation is claimed by one Start, which alone may
create its container. From then on the operation's locals name a container of its
service and generation (`JobOK`), whatever becomes of the instance; generations and
containers only grow, which keeps the knowledge of the other operations
(`JobKept`).

**AuditLog.** The chained part of the file is the longest prefix that chains, and
may lose its last record when the next one lands on an unterminated line. What
carries the proof is that a record that matters, acknowledged or anchored by a
checkpoint, ends its line (`Anchored`); while the checkpoints end theirs they chain
(`Linked`), the latest one anchors a record of the chain (`LastAnchored`), and an
open daemon knows both (`DaemonKnows`).

Changes that the proofs asked for: WorkflowTerminal of `ServiceRegistry` now stops
the services in any order, as the walk over a Go map does; the assumptions of
`ServiceRegistry`, `Supervisor` and `Trigger` name `None` and the bounds, and
`Pipeline` assumes that `None` is neither a call nor an attempt record.

Model-checked only: the liveness property `NeverStalls`, since fairness and ENABLED
are outside the prover; `SuccessIsConsistent`; and the violations. Every other
property of a passing run is stated by a theorem.

## 5. Where code and comments disagree

Two runs end in a counterexample that is a behaviour of the code:

* `admission_launch`: two concurrent requests with one key are both classified
  ACCEPTED and both launch the run, although the snapshot is to distinguish a fresh
  acceptance from a replay (`routed_handlers.go:312`).
* `supervisor_race`: the later of two terminal calls reads the generation of the
  first one's write in a call of its own and replaces its outcome
  (`lifecycle.go:535`); "idempotent under races via CAS generations" (`doc.go:29`).

Met while modelling, and without a run of their own; the ones marked TLC were
reproduced by changing a constant or adding a property.

Admission and pipeline:

* An admission whose write failed leaves a PENDING workflow that holds a slot, so
  with a quota of one the client's retry is refused (`localstore.go:563`).
* A pipeline starts PENDING, nothing makes it RUNNING, and its final stage cannot
  make it SUCCEEDED (`controller.go:621`, comment at 498).
* CommitStageSuccess, cut short after the node, reports success on retry without
  readying the next stage (`controller.go:509`; "atomically", "Idempotent if called
  twice" at 498). TLC.
* A resume during a half-done cancel readies the stage after a CANCELLED one, and a
  resume after a crash within CommitStageSuccess runs the next stage without its
  handoff (`controller.go:1028`). TLC: `StagesInOrder` and `HandoffBeforeNextStage`
  with the events of both pipeline runs together.
* A restart closes the active-time segment of a RUNNING workflow and nothing opens
  another, so the time until the next pause is not charged; "no time is lost going
  forward" (`reconcile.go:308`). TLC: a workflow that leaves a charged status would
  have an open segment.
* The launch key contains the generation the reconciler read; two passes can use
  different ones for one stage (`reconciler.go:51`).
* CancelWorkflow's new Controller presents generation 1 to nodes that moved on, so
  it fails once a stage is LAUNCHING or RUNNING (`controller.go:854`).
* A pause that lands during CommitStageFailure makes the workflow's write fail
  after the node's; a resume then readies the stage after the FAILED one. TLC:
  `StagesInOrder` with the events pause, resume and failure.
* ResumeWorkflow's retry at higher generations writes READY over what it read,
  whatever the node has become (`controller.go:1048`).

Supervisor:

* An error within Reconcile ends it and is only logged: the attempt it is about, and
  those not yet looked at, keep their leases while the daemon serves
  (`reconcile.go:45`, `supervisor_wiring.go:79`).
* The restart fails the PENDING runs of pipeline stages that have not begun: a READY
  first stage is still claimed and launched, but its run can no longer become
  RUNNING (`reconcile.go:48`).
* A crash between the attempt's and the run's SUCCEEDED leaves the run RUNNING over
  every restart (`reconcile.go:54`). TLC.
* Two launches of a run make two attempts in ClaimForRun (`lifecycle.go:48`).
* `finalizeRun` ends a run whose attempt stays RUNNING (`supervisor_wiring.go:76`),
  and `updateLegacyRunStatus` may overwrite a terminal run
  (`routed_handlers.go:1234`).

Audit log: a checkpoint line that a crash cut short keeps the daemon from starting,
every time (`checkpoint_mgr.go:90`); recovery is to prevent "the daemon from
crash-looping forever on a corrupted tail" (`writer.go:65`). TLC: `clean` would
imply `CheckpointsReadable`. Append chains to the head its writer remembers (`writer.go:394`), while
the comment at 364 has it "preventing hash chain forks". A command that appends
while the daemon runs forks the chain, and the daemon's next start cuts the file at
the fork. TLC. A checkpoint that loses only its newline is accepted at the next
start; the checkpoint after it lands on the same line, and verification reports a
malformed checkpoint from then on (`checkpoint_mgr.go:157`, `verifier.go:252`). TLC:
`NoFalseAlarm` without its second premise.

Event store: Subscribe's comment says its channel "receives every event"
(`durable_eventstore.go:265`). When two fan-outs, or a fan-out and a replay,
overtake each other, the earlier event is dropped for a live subscriber. TLC.

Inbox:

* A wait replays the run's feed from 0 into a channel of 128 events before the
  caller has it; a run with more events closes it before the wake event, at the same
  place every time (`durable_eventstore.go:338`); "so the wake is delivered
  immediately" (`wake.go:79`). TLC.
* A wake event that is overtaken by another event of the run is dropped, and a
  worker that is waiting does not wake for it (`durable_eventstore.go:107`).
* Purge takes the state out of the map before locking it; an Append or
  MarkDelivered that holds it writes the file again, and purged messages are back
  after a restart (`inbox.go:366`).
* A torn record keeps the whole store from opening (`inbox.go:568`).
* MarkDelivered of an unknown id is not an error although ErrInboxUnknownMessage
  says it is; after Close, List, MarkDelivered and Purge return nil and Append
  writes to a nil map, where the comment promises ErrInboxClosed (`inbox.go:180`).
* ApprovalStore: no constructor gives it a directory, so requests are lost at a
  restart; a Resolve that fails after deciding in memory is refused when retried
  (`approval.go:244`).

Trigger:

* Invoke executes a replayed key again (`server.go:513`), which `trigger.proto:11`
  and docs/api-reference-trigger.md:41 exclude. InvokeStream does not.
* A terminal event that finds the bus channel full is lost, the bridge ends without
  it and the stream waits for ever (`server.go:743`). The channel has 64 places.
* "Production always wires the durable store, so this path is test-only"
  (`server.go:600`); the daemon takes that path when the store cannot be opened.
* A stream's run is registered PENDING, so CancelRun marks it CANCELLED without
  stopping it; SetCancelFunc has no caller; the daemon passes no idempotency store.
* Schedules of one agent that allow and forbid concurrency share a flag, which the
  first to end clears; `lastFire` is lost at a restart.

Service registry:

* Call ids restart with each tracker, so the end of an old call takes a new one out
  of it and Fence misses a call in flight (`service_registry.go:552`); "cancels all
  in-flight MCP calls" (`465`). TLC.
* A Stop in the middle of a Start reports STOPPED; the Start, same generation, then
  makes the service READY with its container running. The call that follows has no
  capability and is refused.
* A superseded Start overwrites its successor's container id (`262`); the container
  of a FAILED service cannot be stopped and a new Start, as one from UNHEALTHY,
  leaves it behind; Reconcile judges by a list taken before its lock (`568`); a
  client may bind between the last unbinding and the Stop it calls (`724`).

## 6. Not modelled

Control requests, limit amendments and the workflow WAL have no caller outside
tests. Reading them for the model showed hazards that `PROJECT.json` lists: a
control request or an amendment whose second write fails is reported as done when
retried, and RecoverWAL applies all committed entries again in the order of random
ids, so that it may bring a workflow back to an earlier generation. The stall
tracker and HandleCheckpoint are called only by the reference worker of the
conformance tests; TaskOutbox, TaskWaiter and MaybeExpireTask of delegation only by
tests, and the harness uses its MemoryStore one mutex-protected call at a time.
Activation is a transition table used by one goroutine.

Policy validation and compilation, packaging and money are pure functions over
large documents; identity and secrets are cryptography and files; CLI, dashboard,
cloud client, model providers, telemetry, adapters and SDK are input and output,
and with the generated API code they are most of the repository's lines. The
container runtime is external: its effect is an action of `Pipeline` and of
`ServiceRegistry`. Data races inside one process are excluded by the mutexes the
models carry.

## 7. Plan

Done: `RoutedRun`, `Admission` as an implementation of `InvocationService`,
`Pipeline`, `Supervisor`, `EventStore` as an implementation of `EventFeed`, `Inbox`,
`Trigger`, `ServiceRegistry`, `AuditLog`; a theorem for every invariant that a
passing run checks and for all but one of the action properties.

1. Controls and the workflow WAL, then delegation, once the daemon calls them.

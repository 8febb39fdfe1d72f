----------------------------- MODULE Admission -----------------------------
(***************************************************************************)
(* Invocation admission: the daemon's InvokeDeployment handler             *)
(* (internal/daemon/routed_handlers.go) on top of LocalStore               *)
(* (internal/routedrun/localstore.go).                                     *)
(*                                                                         *)
(* Every store call runs under LocalStore.mu, but an admission or a        *)
(* workflow update writes SEVERAL files, each one atomically (temp file,   *)
(* fsync, rename).  A file write is one step here, so the process can die, *)
(* or a write can fail, between any two files.  The handler itself takes   *)
(* no lock: the idempotency snapshot, the admission and the launch of two  *)
(* concurrent RPCs interleave.                                             *)
(*                                                                         *)
(* An admission allocates an invocation id, a workflow id and a run id     *)
(* together and uses each once, so one member of Workflows stands for all  *)
(* three.                                                                  *)
(***************************************************************************)
EXTENDS Integers, FiniteSets, RoutedRun

CONSTANTS
    Deployments,        \* deployment ids
    Aliases,            \* mutable names of deployments
    Keys,               \* (caller identity, idempotency key) pairs
    Inputs,             \* what else the intent digest covers
    Workflows,          \* ids that an admission may draw
    Clients,            \* InvokeDeployment RPCs in flight
    Updaters,           \* callers of GetWorkflow ... UpdateWorkflow
    MaxConcurrentRuns,  \* [Deployments -> quota]
    Pipelines,          \* deployments whose workflow kind is "pipeline"
    NodeRunFiles,       \* number of node and run files of one admission
    DeploymentStatuses, \* deployment statuses the operators set
    StatusesWritten,    \* workflow statuses the updaters write
    MaxGeneration,      \* bound on workflow generations
    None

ASSUME AdmissionAssumption ==
    /\ MaxConcurrentRuns \in [Deployments -> Nat \ {0}]
    /\ Pipelines \subseteq Deployments
    /\ NodeRunFiles \in Nat \ {0}
    /\ DeploymentStatuses \subseteq {"ACTIVE", "INACTIVE"}
    /\ MaxGeneration \in Nat
    /\ IsFiniteSet(Workflows)
    /\ Clients \cap Updaters = {}
    /\ None \notin Deployments \cup Workflows \cup Clients \cup Updaters

VARIABLES
    deployments,  \* [Deployments -> status]
    aliases,      \* [Aliases -> Deployments \cup {None}]
    workflows,    \* workflow.json of each id, None when absent
    nodeRuns,     \* how many node and run files of each id exist
    receipts,     \* receipt of each id, None when absent
    idempotency,  \* idempotency record of each key, None when absent
    ledger,       \* active_time.json: absent, closed, or with an open segment
    lock,         \* LocalStore.mu: None or the caller that holds it
    pc,           \* where each InvokeDeployment RPC is
    job,          \* the locals of each RPC
    update,       \* the locals of each GetWorkflow ... UpdateWorkflow caller
    registered,   \* the pipeline runtime's in-memory registry
    launches,     \* how many startDurableRun goroutines each id got
    told,         \* receipts that clients were given: <<key, intent, id>>
    torn          \* ids of which some UpdateWorkflow stopped between its files

disk == <<deployments, aliases, workflows, nodeRuns, receipts, idempotency, ledger>>
vars == <<disk, lock, pc, job, update, registered, launches, told, torn>>

Request  == [key : Keys, ref : Deployments \cup Aliases, input : Inputs]
Intents  == (Deployments \cup Aliases) \X Inputs
Outcomes == {"NONE", "RECEIPT", "CONFLICT", "NOT_FOUND", "INACTIVE",
             "ALREADY_RUNNING", "INTERNAL"}

(* Mutant: the input is left out of the digest. *)
IntentOfRefOnly(request) == <<request.ref>>

(* computeIntentDigest. *)
Intent(request) == <<request.ref, request.input>>

Job == [req : Request, prior : Workflows \cup {None}, id : Workflows \cup {None},
        dep : Deployments \cup {None}, written : Nat, outcome : Outcomes]

WorkflowRecord == [dep : Deployments, status : WorkflowStatus, generation : Nat]

ReceiptRecord == [key : Keys, intent : Intents, dep : Deployments]

IdempotencyRecord == [id : Workflows, intent : Intents]

UpdateRecord == [id : Workflows, status : WorkflowStatus, generation : Nat, to : WorkflowStatus]

(* None is no record: the absence of a file is not a file. *)
ASSUME NoneAssumption ==
    None \notin Job \cup WorkflowRecord \cup ReceiptRecord \cup IdempotencyRecord \cup UpdateRecord

TypeOK ==
    /\ deployments \in [Deployments -> {"ACTIVE", "INACTIVE"}]
    /\ aliases \in [Aliases -> Deployments \cup {None}]
    /\ workflows \in [Workflows -> WorkflowRecord \cup {None}]
    /\ nodeRuns \in [Workflows -> 0..NodeRunFiles]
    /\ receipts \in [Workflows -> ReceiptRecord \cup {None}]
    /\ idempotency \in [Keys -> IdempotencyRecord \cup {None}]
    /\ ledger \in [Workflows -> {"absent", "closed", "open"}]
    /\ lock \in Clients \cup Updaters \cup {None}
    /\ pc \in [Clients -> {"idle", "admit", "commit", "respond"}]
    /\ job \in [Clients -> Job \cup {None}]
    /\ update \in [Updaters -> UpdateRecord \cup {None}]
    /\ registered \subseteq Workflows
    /\ launches \in [Workflows -> Nat]
    /\ told \subseteq Keys \X Intents \X Workflows
    /\ torn \subseteq Workflows

Init ==
    /\ deployments = [d \in Deployments |-> "ACTIVE"]
    /\ aliases = [a \in Aliases |-> None]
    /\ workflows = [w \in Workflows |-> None]
    /\ nodeRuns = [w \in Workflows |-> 0]
    /\ receipts = [w \in Workflows |-> None]
    /\ idempotency = [k \in Keys |-> None]
    /\ ledger = [w \in Workflows |-> "absent"]
    /\ lock = None
    /\ pc = [c \in Clients |-> "idle"]
    /\ job = [c \in Clients |-> None]
    /\ update = [u \in Updaters |-> None]
    /\ registered = {}
    /\ launches = [w \in Workflows |-> 0]
    /\ told = {}
    /\ torn = {}

-----------------------------------------------------------------------------
(* Deployments and aliases.  The generation each caller must present is     *)
(* left out: a stale one is refused without any effect.                     *)

SetDeploymentStatus(d, status) ==
    /\ lock = None
    /\ deployments' = [deployments EXCEPT ![d] = status]
    /\ UNCHANGED <<aliases, workflows, nodeRuns, receipts, idempotency, ledger,
                   lock, pc, job, update, registered, launches, told, torn>>

CompareAndSwapAlias(a, d) ==
    /\ lock = None
    /\ aliases' = [aliases EXCEPT ![a] = d]
    /\ UNCHANGED <<deployments, workflows, nodeRuns, receipts, idempotency, ledger,
                   lock, pc, job, update, registered, launches, told, torn>>

-----------------------------------------------------------------------------
(* InvokeDeployment and AdmitInvocation. *)

(* resolveDeploymentRefLocked: a deployment id, or the alias' target. *)
Resolve(ref) == IF ref \in Deployments THEN ref ELSE aliases[ref]

(* Mutant: the lookup never finds the record. *)
RecordedNever(k) == FALSE

(* loadIdempotency: both the record and the receipt it names must be there. *)
Recorded(k) == idempotency[k] # None /\ receipts[idempotency[k].id] # None

SlotHolders(d) == {w \in Workflows : /\ workflows[w] # None
                                     /\ workflows[w].dep = d
                                     /\ workflows[w].status \in SlotHolding}

(* Mutant: one too many. *)
HasFreeSlotOffByOne(d) == Cardinality(SlotHolders(d)) <= MaxConcurrentRuns[d]

(* enforceDeploymentConcurrencyQuota, checkConcurrencyForResumeLocked. *)
HasFreeSlot(d) == Cardinality(SlotHolders(d)) < MaxConcurrentRuns[d]

(* The handler's snapshot of the invocation that the key already has. *)
InvokeDeployment(c, request) ==
    /\ pc[c] = "idle"
    /\ lock = None
    /\ pc' = [pc EXCEPT ![c] = "admit"]
    /\ job' = [job EXCEPT ![c] =
            [req |-> request,
             prior |-> IF Recorded(request.key) THEN idempotency[request.key].id ELSE None,
             id |-> None, dep |-> None, written |-> 0, outcome |-> "NONE"]]
    /\ UNCHANGED <<disk, lock, update, registered, launches, told, torn>>

(* AdmitInvocation returns without writing anything. *)
Return(c, outcome, id) ==
    /\ pc' = [pc EXCEPT ![c] = "respond"]
    /\ job' = [job EXCEPT ![c].outcome = outcome, ![c].id = id]
    /\ UNCHANGED <<disk, lock, update, registered, launches, told, torn>>

ReplayIdempotentAdmission(c) ==
    LET req == job[c].req IN
    /\ pc[c] = "admit"
    /\ lock = None
    /\ Recorded(req.key)
    /\ IF idempotency[req.key].intent = Intent(req)
       THEN Return(c, "RECEIPT", idempotency[req.key].id)
       ELSE Return(c, "CONFLICT", None)

AdmitRefused(c) ==
    LET req == job[c].req
        d   == Resolve(req.ref)
    IN  /\ pc[c] = "admit"
        /\ lock = None
        /\ ~Recorded(req.key)
        /\ \/ d = None /\ Return(c, "NOT_FOUND", None)
           \/ d # None /\ deployments[d] # "ACTIVE" /\ Return(c, "INACTIVE", None)
           \/ /\ d # None
              /\ deployments[d] = "ACTIVE"
              /\ ~HasFreeSlot(d)
              /\ Return(c, "ALREADY_RUNNING", None)

(* All checks passed: an id is drawn and commitAdmission starts, under mu. *)
AdmitInvocation(c, id) ==
    LET req == job[c].req
        d   == Resolve(req.ref)
    IN  /\ pc[c] = "admit"
        /\ lock = None
        /\ ~Recorded(req.key)
        /\ d # None
        /\ deployments[d] = "ACTIVE"
        /\ HasFreeSlot(d)
        /\ workflows[id] = None
        /\ lock' = c
        /\ pc' = [pc EXCEPT ![c] = "commit"]
        /\ job' = [job EXCEPT ![c].id = id, ![c].dep = d]
        /\ UNCHANGED <<disk, update, registered, launches, told, torn>>

(* Mutant: the idempotency record is written with the first node. *)
IdempotencyFileEarly == 1

(* The files of one admission in the order commitAdmission writes them:     *)
(* the workflow, its nodes and runs, the receipt, the idempotency record    *)
(* and the active-time ledger.                                              *)
WorkflowFile    == 0
ReceiptFile     == NodeRunFiles + 1
IdempotencyFile == NodeRunFiles + 2
LedgerFile      == NodeRunFiles + 3

CommitAdmission(c) ==
    LET j == job[c]
        n == j.written
    IN  /\ pc[c] = "commit"
        /\ job' = [job EXCEPT ![c].written = n + 1,
                              ![c].outcome = IF n = LedgerFile THEN "RECEIPT" ELSE @]
        /\ pc' = [pc EXCEPT ![c] = IF n = LedgerFile THEN "respond" ELSE @]
        /\ lock' = IF n = LedgerFile THEN None ELSE c
        /\ workflows' = IF n # WorkflowFile THEN workflows
             ELSE [workflows EXCEPT ![j.id] =
                     [dep |-> j.dep, status |-> "PENDING", generation |-> 1]]
        /\ nodeRuns' = IF n \notin 1..NodeRunFiles THEN nodeRuns
             ELSE [nodeRuns EXCEPT ![j.id] = n]
        /\ receipts' = IF n # ReceiptFile THEN receipts
             ELSE [receipts EXCEPT ![j.id] =
                     [key |-> j.req.key, intent |-> Intent(j.req), dep |-> j.dep]]
        /\ idempotency' = IF n # IdempotencyFile THEN idempotency
             ELSE [idempotency EXCEPT ![j.req.key] = [id |-> j.id, intent |-> Intent(j.req)]]
        /\ ledger' = IF n # LedgerFile THEN ledger
             ELSE [ledger EXCEPT ![j.id] = "closed"]
        /\ UNCHANGED <<deployments, aliases, update, registered, launches, told, torn>>

(* A write fails: commitAdmission returns at once, nothing is undone. *)
CommitFails(c) ==
    /\ pc[c] = "commit"
    /\ lock' = None
    /\ pc' = [pc EXCEPT ![c] = "respond"]
    /\ job' = [job EXCEPT ![c].outcome = "INTERNAL", ![c].id = None]
    /\ UNCHANGED <<disk, update, registered, launches, told, torn>>

(* The tail of InvokeDeployment: classify the receipt as ACCEPTED or        *)
(* IDEMPOTENT_REPLAY against the snapshot, register or launch, respond.     *)
Respond(c) ==
    LET j == job[c] IN
    /\ pc[c] = "respond"
    /\ LET isPipeline == j.id # None /\ workflows[j.id].dep \in Pipelines
           accepted   == j.outcome = "RECEIPT" /\ j.prior # j.id
       IN  /\ registered' = IF isPipeline THEN registered \cup {j.id} ELSE registered
           /\ launches' = IF accepted /\ ~isPipeline
                          THEN [launches EXCEPT ![j.id] = @ + 1] ELSE launches
    /\ told' = IF j.outcome = "RECEIPT"
               THEN told \cup {<<j.req.key, Intent(j.req), j.id>>} ELSE told
    /\ pc' = [pc EXCEPT ![c] = "idle"]
    /\ job' = [job EXCEPT ![c] = None]
    /\ UNCHANGED <<disk, lock, update, torn>>

-----------------------------------------------------------------------------
(* GetWorkflow ... UpdateWorkflow: every caller reads the record, checks    *)
(* WorkflowTransitions against what it read, and writes under the           *)
(* generation it read.                                                      *)

GetWorkflow(u, w) ==
    /\ lock = None
    /\ update[u] = None
    /\ workflows[w] # None
    /\ \E to \in WorkflowTransitions[workflows[w].status] \cap StatusesWritten :
          update' = [update EXCEPT ![u] =
              [id |-> w, status |-> workflows[w].status,
               generation |-> workflows[w].generation, to |-> to]]
    /\ UNCHANGED <<disk, lock, pc, job, registered, launches, told, torn>>

(* Mutant: the generation is not compared. *)
IsCurrentUnchecked(u) == workflows[update[u].id].generation \in Nat

(* The compare of the compare-and-swap. *)
IsCurrent(u) == workflows[update[u].id].generation = update[u].generation

NeedsSlot(u) == /\ workflows[update[u].id].status \notin SlotHolding
                /\ update[u].to \in SlotHolding

UpdateWorkflow(u) ==
    LET w == update[u].id IN
    /\ lock = None
    /\ update[u] # None
    /\ IsCurrent(u)
    /\ NeedsSlot(u) => HasFreeSlot(workflows[w].dep)
    /\ workflows[w].generation < MaxGeneration
    /\ workflows' = [workflows EXCEPT ![w] =
            [dep |-> workflows[w].dep, status |-> update[u].to,
             generation |-> update[u].generation + 1]]
    /\ lock' = u
    /\ UNCHANGED <<deployments, aliases, nodeRuns, receipts, idempotency, ledger,
                   pc, job, update, registered, launches, told, torn>>

(* ErrCASConflict or ErrAlreadyRunning. *)
UpdateRefused(u) ==
    /\ lock = None
    /\ update[u] # None
    /\ IsCurrent(u) => /\ NeedsSlot(u)
                       /\ ~HasFreeSlot(workflows[update[u].id].dep)
    /\ update' = [update EXCEPT ![u] = None]
    /\ UNCHANGED <<disk, lock, pc, job, registered, launches, told, torn>>

(* Mutant: pausing does not close the segment, only a terminal status does. *)
SyncedAtEnd(l, from, to) ==
    CASE from \notin Charging /\ to \in Charging -> "open"
      [] to \in WorkflowTerminal                 -> "closed"
      [] OTHER                                   -> l

(* syncActiveTimeOnStatusChangeLocked. *)
Synced(l, from, to) ==
    CASE from \in Charging /\ to \notin Charging -> "closed"
      [] from \notin Charging /\ to \in Charging -> "open"
      [] to \in WorkflowTerminal                 -> "closed"
      [] l = "absent" /\ (from \in Charging <=> to \in Charging) -> "closed"
      [] OTHER                                   -> l

SyncActiveTime(u) ==
    LET up == update[u] IN
    /\ lock = u
    /\ ledger' = [ledger EXCEPT ![up.id] = Synced(@, up.status, up.to)]
    /\ lock' = None
    /\ update' = [update EXCEPT ![u] = None]
    /\ UNCHANGED <<deployments, aliases, workflows, nodeRuns, receipts, idempotency,
                   pc, job, registered, launches, told, torn>>

(* The ledger cannot be written; the workflow record stays. *)
SyncFails(u) ==
    /\ lock = u
    /\ torn' = torn \cup {update[u].id}
    /\ lock' = None
    /\ update' = [update EXCEPT ![u] = None]
    /\ UNCHANGED <<disk, pc, job, registered, launches, told>>

-----------------------------------------------------------------------------
(* reconcileActiveTime closes an open segment without touching the          *)
(* workflow.  It is reached for each workflow with a non-terminal run       *)
(* unless an error, which is only logged, comes first; runs and errors are  *)
(* not kept here, so any of the open segments may be closed or left.        *)
ReconcileActiveTime(closed) ==
    [w \in Workflows |-> IF w \in closed THEN "closed" ELSE ledger[w]]

(* The daemon dies and starts again: files stay, everything else is gone,   *)
(* and supervisorReconcile runs before the first request.                   *)
Crash ==
    /\ \E closed \in SUBSET {w \in Workflows : ledger[w] = "open"} :
          ledger' = ReconcileActiveTime(closed)
    /\ lock' = None
    /\ pc' = [c \in Clients |-> "idle"]
    /\ job' = [c \in Clients |-> None]
    /\ update' = [u \in Updaters |-> None]
    /\ registered' = {}
    /\ torn' = torn \cup {update[u].id : u \in Updaters \cap {lock}}
    /\ UNCHANGED <<deployments, aliases, workflows, nodeRuns, receipts, idempotency,
                   launches, told>>

Next ==
    \/ \E d \in Deployments, s \in DeploymentStatuses : SetDeploymentStatus(d, s)
    \/ \E a \in Aliases, d \in Deployments : CompareAndSwapAlias(a, d)
    \/ \E c \in Clients :
          \/ \E request \in Request : InvokeDeployment(c, request)
          \/ ReplayIdempotentAdmission(c)
          \/ AdmitRefused(c)
          \/ \E id \in Workflows : AdmitInvocation(c, id)
          \/ CommitAdmission(c)
          \/ CommitFails(c)
          \/ Respond(c)
    \/ \E u \in Updaters :
          \/ \E w \in Workflows : GetWorkflow(u, w)
          \/ UpdateWorkflow(u)
          \/ UpdateRefused(u)
          \/ SyncActiveTime(u)
          \/ SyncFails(u)
    \/ Crash

Spec == Init /\ [][Next]_vars

-----------------------------------------------------------------------------
(* Properties *)

(* A deployment never has more slot-holding workflows than its quota: not   *)
(* by concurrent admissions, not by a resume racing an admission, not after *)
(* a crash in the middle of either (enforceDeploymentConcurrencyQuota and   *)
(* checkConcurrencyForResumeLocked under one mutex).                        *)
QuotaRespected ==
    \A d \in Deployments : Cardinality(SlotHolders(d)) <= MaxConcurrentRuns[d]

(* commitAdmission publishes an admission only when it is complete: whoever *)
(* finds the idempotency record, after a crash too, finds the receipt for   *)
(* that key and intent, the workflow and every node and run file.           *)
PublishedIsComplete ==
    \A k \in Keys : idempotency[k] # None =>
        LET id == idempotency[k].id IN
        /\ workflows[id] # None
        /\ nodeRuns[id] = NodeRunFiles
        /\ receipts[id] # None
        /\ receipts[id].key = k
        /\ receipts[id].intent = idempotency[k].intent
        /\ receipts[id].dep = workflows[id].dep

(* However often a key is presented, by however many concurrent or retried  *)
(* requests, around crashes and alias moves, every receipt handed out for   *)
(* it names the same invocation and was asked for with the same intent, and *)
(* no invocation is handed out under two keys (replayIdempotentAdmission).  *)
OneInvocationPerKey ==
    \A x, y \in told : (x[1] = y[1]) <=> (x[3] = y[3] /\ x[2] = y[2])

(* The status of a workflow only moves along WorkflowTransitions, although  *)
(* UpdateWorkflow does not look at the table: each caller checked it        *)
(* against a record that the generation compare shows to be still current.  *)
OnlyLegalTransitions ==
    [][\A w \in Workflows :
         workflows[w] # None =>
            /\ workflows'[w] # None
            /\ \/ workflows'[w].status = workflows[w].status
               \/ workflows'[w].status \in WorkflowTransitions[workflows[w].status]]_vars

(* Outside UpdateWorkflow no active-time segment is open on a workflow that *)
(* is not charged for, so a paused, replanning, pending or ended workflow   *)
(* never accrues time, unless a crash or a failed write left an update      *)
(* between its two files (syncActiveTimeOnStatusChangeLocked, and           *)
(* reconcileActiveTime at the restart).                                     *)
NoSegmentWhileFrozen ==
    \A w \in Workflows :
        (workflows[w] # None /\ w \notin torn /\ lock \notin Updaters)
            => (ledger[w] = "open" => workflows[w].status \in Charging)

(* The abstract service, with the idempotency records as its bindings.      *)
Service == INSTANCE InvocationService WITH Invocations <- Workflows, bound <- idempotency

(* Admission implements InvocationService: seen through the idempotency     *)
(* records and the receipts handed out, the file writes, crashes, failed    *)
(* writes and racing handlers of AdmitInvocation amount to binding a fresh  *)
(* key once, to an id no other key has, and repeating that answer.          *)
ImplementsService == Service!Spec

(* InvokeDeployment calls a receipt ACCEPTED when the snapshot it took      *)
(* before the admission did not have it, and launches what it accepted.     *)
(* One invocation would then be launched once.                              *)
LaunchedOnce == \A w \in Workflows : launches[w] <= 1

=============================================================================

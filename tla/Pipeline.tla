------------------------------ MODULE Pipeline ------------------------------
(***************************************************************************)
(* One linear pipeline workflow: the Controller and the Reconciler of      *)
(* internal/workflow/pipeline over LocalStore, as the daemon wires them    *)
(* (internal/daemon/server.go, pipeline_runtime.go).                       *)
(*                                                                         *)
(* Every store call is one step.  The daemon's operations share one        *)
(* Controller and hold its mutex from their first read to their return; a  *)
(* CancelWorkflow RPC makes a Controller of its own, so it interleaves     *)
(* with the others call by call and only the generation compare of each    *)
(* record separates them.  A Controller takes the generation to present    *)
(* from maps in its memory, where a missing entry counts as 1.             *)
(*                                                                         *)
(* Merged into one step: a record read and the compare-and-swap that       *)
(* follows it at once with nothing in between (GetRun ... UpdateRun,       *)
(* GetAttempt ... UpdateAttempt), since the local generation is never      *)
(* ahead of the stored one for these; and a failed compare-and-swap with   *)
(* the retries at the next two generations.                                *)
(***************************************************************************)
EXTENDS Integers, FiniteSets, RoutedRun

CONSTANTS
    StageCount,       \* number of stages of the pipeline
    Reconcilers,      \* goroutines that call ReconcileOnce
    Workers,          \* callers of CommitStageSuccess, CommitStageFailure, ResumeWorkflow
    Cancellers,       \* CancelWorkflow RPCs
    InitialStatus,    \* status of the admitted workflow
    Events,           \* which of EventNames may happen
    MaxGeneration,    \* bound on the workflow's generation
    MaxContainers,    \* bound on the containers of one stage
    None

EventNames == {"crash", "write_error", "launch_error", "exit", "pause", "resume",
               "failure", "rejected_handoff", "fence"}

Stages == 1..StageCount
Daemon == Reconcilers \cup Workers
Procs  == Daemon \cup Cancellers

ASSUME PipelineAssumption ==
    /\ StageCount \in Nat \ {0, 1}
    /\ Daemon \cap Cancellers = {}
    /\ Reconcilers \cap Workers = {}
    /\ InitialStatus \in {"PENDING", "RUNNING"}
    /\ Events \subseteq EventNames
    /\ MaxGeneration \in Nat
    /\ MaxContainers \in Nat
    /\ None \notin Procs

VARIABLES
    wf,          \* workflow.json: status and generation
    desired,     \* the command of desired_state.json
    node,        \* node files
    run,         \* run files
    att,         \* attempt file of each stage's run, None when absent
    handoffs,    \* stages whose handoff is committed
    nodeGen,     \* the daemon Controller's generation maps
    runGen,
    attGen,
    mu,          \* the daemon Controller's mutex
    op,          \* the call each process is in, None when in none
    registered,  \* the workflow is in the pipeline runtime's registry
    jobs,        \* keys in the MemoryLaunchStore: <<stage, generation>>
    active,      \* keys that RuntimeStageLauncher has a running container for
    containers,  \* running containers of each stage
    refused      \* cancellers whose CancelWorkflow returned an error

store  == <<wf, desired, node, run, att, handoffs>>
gens   == <<nodeGen, runGen, attGen>>
launch == <<registered, jobs, active, containers>>
vars   == <<store, gens, mu, op, launch, refused>>

Versioned(statuses) == [status : statuses, gen : Nat]

(* Where a process is: the store call it makes next. *)
Steps == {"find", "claim", "claimNode", "attempt", "put", "launch", "ack",
          "node", "run", "att", "handoff", "pause?", "next",
          "readWf", "unpause", "wf", "list", "readyFirst"}

(* The locals of a call: the status it is after, the stage it works on, the *)
(* launch generation, and the workflow and the nodes as it read them.       *)
Op == [at : Steps, to : NodeStatus, s : Stages, gen : Nat,
       wf : Versioned(WorkflowStatus), nodes : [Stages -> NodeStatus]]

ASSUME NoneAssumption == None \notin Op \cup Versioned(AttemptStatus)

(* Mutant: only READY counts. *)
ActiveNodeReadyOnly == {"READY"}

(* A node that is under way. *)
ActiveNode == {"READY", "LAUNCHING", "RUNNING"}

TypeOK ==
    /\ wf \in Versioned(WorkflowStatus)
    /\ desired \in {"NONE", "PAUSE", "RESUME"}
    /\ node \in [Stages -> Versioned(NodeStatus)]
    /\ run \in [Stages -> Versioned(RunStatus)]
    /\ att \in [Stages -> Versioned(AttemptStatus) \cup {None}]
    /\ handoffs \subseteq Stages
    /\ nodeGen \in [Stages -> Nat]
    /\ runGen \in [Stages -> Nat]
    /\ attGen \in [Stages -> Nat]
    /\ mu \in Daemon \cup {None}
    /\ op \in [Procs -> Op \cup {None}]
    /\ registered \in BOOLEAN
    /\ jobs \subseteq Stages \X Nat
    /\ active \subseteq Stages \X Nat
    /\ containers \in [Stages -> Nat]
    /\ refused \subseteq Cancellers

(* SeedPipelineWorkflow; an admission differs in the workflow's status. *)
Init ==
    /\ wf = [status |-> InitialStatus, gen |-> 1]
    /\ desired = "NONE"
    /\ node = [s \in Stages |-> [status |-> IF s = 1 THEN "READY" ELSE "PENDING", gen |-> 1]]
    /\ run = [s \in Stages |-> [status |-> "PENDING", gen |-> 1]]
    /\ att = [s \in Stages |-> None]
    /\ handoffs = {}
    /\ nodeGen = [s \in Stages |-> 1]
    /\ runGen = [s \in Stages |-> 1]
    /\ attGen = [s \in Stages |-> 1]
    /\ mu = None
    /\ op = [p \in Procs |-> None]
    /\ registered = TRUE
    /\ jobs = {}
    /\ active = {}
    /\ containers = [s \in Stages |-> 0]
    /\ refused = {}

-----------------------------------------------------------------------------
(* Calls and returns. *)

NodeStatuses == [s \in Stages |-> node[s].status]

First(stages) == CHOOSE s \in stages : \A t \in stages : s <= t

At(p, step) == op[p] # None /\ op[p].at = step

(* A call begins; what it takes along is what it reads first. *)
Call(p, step, to, s) ==
    op' = [op EXCEPT ![p] = [at |-> step, to |-> to, s |-> s, gen |-> 1, wf |-> wf,
                             nodes |-> NodeStatuses]]

Goto(p, step) == op' = [op EXCEPT ![p].at = step]

Unlocked(p) == IF mu = p THEN None ELSE mu

(* The call returns; CancelWorkflow's caller remembers an error. *)
Return(p, ok) ==
    /\ op' = [op EXCEPT ![p] = None]
    /\ mu' = Unlocked(p)
    /\ refused' = IF ~ok /\ p \in Cancellers THEN refused \cup {p} ELSE refused

(* The generation a process presents: a CancelWorkflow RPC touches every    *)
(* record at most once with its empty maps.                                 *)
Expected(p, tracked, s) == IF p \in Cancellers THEN 1 ELSE tracked[s]

(* Mutant: the store accepts any generation. *)
WriteUnchecked(rec, status, expected, retries) ==
    [ok |-> TRUE, rec |-> [status |-> status, gen |-> rec.gen + 1]]

(* LocalStore.UpdateNode / UpdateRun / UpdateAttempt, tried at `expected`   *)
(* and at the next `retries` generations.                                   *)
Write(rec, status, expected, retries) ==
    [ok  |-> rec.gen \in expected..(expected + retries),
     rec |-> [status |-> status, gen |-> rec.gen + 1]]

(* The generation map after a write of the record of stage s. *)
Tracked(p, tracked, s, rec) ==
    IF p \in Cancellers THEN tracked ELSE [tracked EXCEPT ![s] = rec.gen]

-----------------------------------------------------------------------------
(* Reconciler.ReconcileOnce: finish the launch of a LAUNCHING node, or      *)
(* claim the earliest READY one and launch it.                              *)

ReconcileOnce(p) ==
    LET launching == {s \in Stages : node[s].status = "LAUNCHING"} IN
    /\ registered
    /\ op[p] = None
    /\ \/ \E s \in launching : Call(p, "find", "RUNNING", s)
       \/ launching = {} /\ Call(p, "claim", "RUNNING", 1)
    /\ UNCHANGED <<store, gens, mu, launch, refused>>

(* Mutant: the job that is already there is not looked for. *)
FindLaunchJobNever(p) ==
    /\ At(p, "find")
    /\ op' = [op EXCEPT ![p].at = "put", ![p].gen = 1]
    /\ UNCHANGED <<store, gens, mu, launch, refused>>

(* Recovery: the node's launch job, or a key of generation 1. *)
FindLaunchJob(p) ==
    LET found == {g \in {key[2] : key \in jobs} : <<op[p].s, g>> \in jobs} IN
    /\ At(p, "find")
    /\ \E g \in IF found = {} THEN {1} ELSE found :
          op' = [op EXCEPT ![p].at = "put", ![p].gen = g]
    /\ UNCHANGED <<store, gens, mu, launch, refused>>

(* ClaimNextReady up to its first write. *)
ClaimNextReady(p) ==
    LET ready == {s \in Stages : node[s].status = "READY"} IN
    /\ At(p, "claim")
    /\ mu = None
    /\ IF \/ wf.status \in {"PAUSE_REQUESTED"} \cup WorkflowTerminal
          \/ desired = "PAUSE"
          \/ ready = {}
       THEN Return(p, TRUE)
       ELSE /\ op' = [op EXCEPT ![p].at = "claimNode", ![p].s = First(ready)]
            /\ mu' = p
            /\ UNCHANGED refused
    /\ UNCHANGED <<store, gens, launch>>

(* READY -> LAUNCHING; the retries follow a second look at the status. *)
ClaimNode(p) ==
    LET s == op[p].s
        w == Write(node[s], "LAUNCHING", nodeGen[s], IF node[s].status = "READY" THEN 2 ELSE 0)
    IN  /\ At(p, "claimNode")
        /\ IF w.ok
           THEN /\ node' = [node EXCEPT ![s] = w.rec]
                /\ nodeGen' = [nodeGen EXCEPT ![s] = w.rec.gen]
                /\ op' = [op EXCEPT ![p].at = "attempt", ![p].gen = node[s].gen]
                /\ UNCHANGED <<mu, refused>>
           ELSE Return(p, TRUE) /\ UNCHANGED <<node, nodeGen>>
        /\ UNCHANGED <<wf, desired, run, att, handoffs, runGen, attGen, launch>>

CreateAttempt(p) ==
    LET s == op[p].s IN
    /\ At(p, "attempt")
    /\ att' = [att EXCEPT ![s] = [status |-> "PENDING", gen |-> 1]]
    /\ attGen' = [attGen EXCEPT ![s] = 1]
    /\ Goto(p, "put")
    /\ mu' = None
    /\ UNCHANGED <<wf, desired, node, run, handoffs, nodeGen, runGen, launch, refused>>

(* MemoryLaunchStore.PutIfAbsent. *)
PutIfAbsent(p) ==
    /\ At(p, "put")
    /\ jobs' = jobs \cup {<<op[p].s, op[p].gen>>}
    /\ Goto(p, "launch")
    /\ UNCHANGED <<store, gens, mu, registered, active, containers, refused>>

(* RuntimeStageLauncher.EnsureLaunch: nothing to do when the key already    *)
(* has a running container.                                                 *)
EnsureLaunch(p) ==
    LET key == <<op[p].s, op[p].gen>> IN
    /\ At(p, "launch")
    /\ IF key \in active
       THEN UNCHANGED <<active, containers>>
       ELSE /\ containers[key[1]] < MaxContainers
            /\ active' = active \cup {key}
            /\ containers' = [containers EXCEPT ![key[1]] = @ + 1]
    /\ Goto(p, "ack")
    /\ UNCHANGED <<store, gens, mu, registered, jobs, refused>>

LaunchFails(p) ==
    /\ "launch_error" \in Events
    /\ At(p, "launch")
    /\ Return(p, FALSE)
    /\ UNCHANGED <<store, gens, launch>>

(* AcknowledgeRunning up to its first write: a node that is already RUNNING *)
(* is a success, a missing attempt or another status an error.              *)
AcknowledgeRunning(p) ==
    LET s == op[p].s IN
    /\ At(p, "ack")
    /\ mu = None
    /\ IF node[s].status = "LAUNCHING" /\ att[s] # None
       THEN Goto(p, "node") /\ mu' = p /\ UNCHANGED refused
       ELSE Return(p, node[s].status = "RUNNING")
    /\ UNCHANGED <<store, gens, launch>>

-----------------------------------------------------------------------------
(* The other entry points, up to their first write. *)

(* The stage's result is reported with the attempt the claim made.  For a   *)
(* node that is already SUCCEEDED the call returns nil at once.             *)
CommitStageSuccess(p, s) ==
    /\ op[p] = None
    /\ mu = None
    /\ att[s] # None
    /\ "SUCCEEDED" \in NodeTransitions[node[s].status]
    /\ Call(p, "node", "SUCCEEDED", s)
    /\ mu' = p
    /\ UNCHANGED <<store, gens, launch, refused>>

CommitStageFailure(p, s) ==
    /\ "failure" \in Events
    /\ op[p] = None
    /\ mu = None
    /\ att[s] # None
    /\ "FAILED" \in NodeTransitions[node[s].status]
    /\ Call(p, "node", "FAILED", s)
    /\ mu' = p
    /\ UNCHANGED <<store, gens, launch, refused>>

ResumeWorkflow(p) ==
    /\ "resume" \in Events
    /\ op[p] = None
    /\ mu = None
    /\ wf.status # "RUNNING"
    /\ "RUNNING" \in WorkflowTransitions[wf.status]
    /\ Call(p, "wf", "READY", 1)
    /\ mu' = p
    /\ UNCHANGED <<store, gens, launch, refused>>

(* The RPC; its Controller is new, so it waits for no mutex. *)
CancelWorkflow(p) ==
    /\ op[p] = None
    /\ p \notin refused
    /\ wf.status # "CANCELLED"
    /\ Call(p, "list", "CANCELLED", 1)
    /\ UNCHANGED <<store, gens, mu, launch, refused>>

-----------------------------------------------------------------------------
(* The writes of AcknowledgeRunning, CommitStageSuccess, CommitStageFailure *)
(* and CancelWorkflow: node, run and attempt of a stage, in this order.     *)

Cancellable == {"LAUNCHING", "RUNNING", "READY", "PENDING"}

(* Mutant: the cancel runs over the last stage. *)
AfterStageOffByOne(p) ==
    LET o == op[p] IN
    /\ op' = [op EXCEPT ![p].at = IF o.s > StageCount THEN "wf" ELSE "node", ![p].s = @ + 1]
    /\ UNCHANGED <<mu, refused>>

(* What follows a stage's records. *)
AfterStage(p) ==
    LET o == op[p] IN
    CASE o.to = "RUNNING" -> Return(p, TRUE)
      [] o.to = "SUCCEEDED" /\ o.s < StageCount ->
            Goto(p, "handoff") /\ UNCHANGED <<mu, refused>>
      [] o.to = "FAILED" \/ (o.to = "SUCCEEDED" /\ o.s = StageCount) ->
            Goto(p, "readWf") /\ UNCHANGED <<mu, refused>>
      [] o.to = "CANCELLED" ->
            /\ op' = [op EXCEPT ![p].at = IF o.s = StageCount THEN "wf" ELSE "node",
                                ![p].s  = IF o.s = StageCount THEN @ ELSE @ + 1]
            /\ UNCHANGED <<mu, refused>>

UpdateNode(p) ==
    LET s == op[p].s
        w == Write(node[s], op[p].to, Expected(p, nodeGen, s), IF op[p].to = "RUNNING" THEN 2 ELSE 0)
        skip == op[p].to = "CANCELLED" /\ op[p].nodes[s] \notin Cancellable
    IN  /\ At(p, "node")
        /\ \/ skip /\ AfterStage(p) /\ UNCHANGED <<node, nodeGen>>
           \/ /\ ~skip /\ w.ok
              /\ node' = [node EXCEPT ![s] = w.rec]
              /\ nodeGen' = Tracked(p, nodeGen, s, w.rec)
              /\ Goto(p, "run")
              /\ UNCHANGED <<mu, refused>>
           \/ ~skip /\ ~w.ok /\ Return(p, FALSE) /\ UNCHANGED <<node, nodeGen>>
        /\ UNCHANGED <<wf, desired, run, att, handoffs, runGen, attGen, launch>>

(* Only the success and the acknowledgement validate the run's transition;  *)
(* the cancel leaves the run of a READY or PENDING node alone unless it is  *)
(* PENDING, and never looks for attempts of such a node.                    *)
UpdateRun(p) ==
    LET s == op[p].s
        to == op[p].to
        waiting == to = "CANCELLED" /\ op[p].nodes[s] \in {"READY", "PENDING"}
        skip == waiting /\ run[s].status # "PENDING"
        w == Write(run[s], to, Expected(p, runGen, s), 0)
        ok == w.ok /\ (to \in {"RUNNING", "SUCCEEDED"} => to \in RunTransitions[run[s].status])
    IN  /\ At(p, "run")
        /\ \/ skip /\ AfterStage(p) /\ UNCHANGED <<run, runGen>>
           \/ /\ ~skip /\ ok
              /\ run' = [run EXCEPT ![s] = w.rec]
              /\ runGen' = Tracked(p, runGen, s, w.rec)
              /\ IF waiting THEN AfterStage(p) ELSE Goto(p, "att") /\ UNCHANGED <<mu, refused>>
           \/ ~skip /\ ~ok /\ Return(p, FALSE) /\ UNCHANGED <<run, runGen>>
        /\ UNCHANGED <<wf, desired, node, att, handoffs, nodeGen, attGen, launch>>

UpdateAttempt(p) ==
    LET s == op[p].s
        to == op[p].to
        skip == \/ att[s] = None
                \/ to \in {"SUCCEEDED", "FAILED"} /\ att[s].status = to
                \/ to = "CANCELLED" /\ att[s].status \notin {"RUNNING", "PENDING"}
        w == Write(att[s], to, Expected(p, attGen, s), 0)
        ok == w.ok /\ to \in AttemptTransitions[att[s].status]
    IN  /\ At(p, "att")
        /\ \/ skip /\ AfterStage(p) /\ UNCHANGED <<att, attGen>>
           \/ /\ ~skip /\ ok
              /\ att' = [att EXCEPT ![s] = w.rec]
              /\ attGen' = Tracked(p, attGen, s, w.rec)
              /\ AfterStage(p)
           \/ ~skip /\ ~ok /\ Return(p, FALSE) /\ UNCHANGED <<att, attGen>>
        /\ UNCHANGED <<wf, desired, node, run, handoffs, nodeGen, runGen, launch>>

-----------------------------------------------------------------------------
(* The tail of CommitStageSuccess. *)

(* Mutant: the stage is advanced without a handoff file. *)
CommitHandoffLost(p) ==
    /\ At(p, "handoff")
    /\ Goto(p, "pause?")
    /\ UNCHANGED <<store, gens, mu, launch, refused>>

CommitHandoff(p) ==
    /\ At(p, "handoff")
    /\ handoffs' = handoffs \cup {op[p].s}
    /\ Goto(p, "pause?")
    /\ UNCHANGED <<wf, desired, node, run, att, gens, mu, launch, refused>>

(* hasReservedKeys: the handoff is looked at after the stage's records. *)
RejectHandoff(p) ==
    /\ "rejected_handoff" \in Events
    /\ At(p, "handoff")
    /\ Return(p, FALSE)
    /\ UNCHANGED <<store, gens, launch>>

(* isPauseRequested. *)
CheckPause(p) ==
    /\ At(p, "pause?")
    /\ Goto(p, IF desired = "PAUSE" \/ wf.status = "PAUSE_REQUESTED" THEN "readWf" ELSE "next")
    /\ UNCHANGED <<store, gens, mu, launch, refused>>

(* The next node becomes READY; a conflict is ignored and the generation is *)
(* counted up all the same.                                                 *)
ReadyNext(p) ==
    LET t == op[p].s + 1
        w == Write(node[t], "READY", nodeGen[t], 0)
    IN  /\ At(p, "next")
        /\ node' = IF w.ok THEN [node EXCEPT ![t] = w.rec] ELSE node
        /\ nodeGen' = [nodeGen EXCEPT ![t] = @ + 1]
        /\ Return(p, TRUE)
        /\ UNCHANGED <<wf, desired, run, att, handoffs, runGen, attGen, launch>>

-----------------------------------------------------------------------------
(* The workflow's own record: written under the generation that was read.   *)

(* Mutant: any stage counts as the final one. *)
WorkflowTargetEarly(p) == IF op[p].to = "READY" THEN "RUNNING" ELSE op[p].to

WorkflowTarget(p) ==
    CASE op[p].to = "SUCCEEDED" -> IF op[p].s = StageCount THEN "SUCCEEDED" ELSE "PAUSED"
      [] op[p].to = "READY"     -> "RUNNING"
      [] OTHER                  -> op[p].to

ReadWorkflow(p) ==
    LET to == WorkflowTarget(p)
        read(step) == op' = [op EXCEPT ![p].at = step, ![p].wf = wf] /\ UNCHANGED <<mu, refused>>
    IN  /\ At(p, "readWf")
        /\ CASE wf.status = to                                            -> Return(p, TRUE)
             [] to = "SUCCEEDED" /\ wf.status = "PAUSE_REQUESTED"         -> read("unpause")
             [] wf.status # to /\ to \in WorkflowTransitions[wf.status]   -> read("wf")
             [] OTHER                                                     -> Return(p, FALSE)
        /\ UNCHANGED <<store, gens, launch>>

(* A final stage's success first takes back a requested pause. *)
Unpause(p) ==
    /\ At(p, "unpause")
    /\ IF wf.gen = op[p].wf.gen
       THEN /\ wf' = [status |-> "RUNNING", gen |-> wf.gen + 1]
            /\ op' = [op EXCEPT ![p].at = "wf", ![p].wf = wf']
            /\ UNCHANGED <<mu, refused>>
       ELSE Return(p, FALSE) /\ UNCHANGED wf
    /\ UNCHANGED <<desired, node, run, att, handoffs, gens, launch>>

UpdateWorkflow(p) ==
    LET to == WorkflowTarget(p)
        ok == wf.gen = op[p].wf.gen /\ to \in WorkflowTransitions[op[p].wf.status]
    IN  /\ At(p, "wf")
        /\ IF ok
           THEN /\ wf' = [status |-> to, gen |-> wf.gen + 1]
                /\ IF op[p].to = "READY" THEN Goto(p, "list") /\ UNCHANGED <<mu, refused>>
                                         ELSE Return(p, TRUE)
           ELSE Return(p, FALSE) /\ UNCHANGED wf
        /\ UNCHANGED <<desired, node, run, att, handoffs, gens, launch>>

(* ListNodes of CancelWorkflow and of ResumeWorkflow. *)
ListNodes(p) ==
    LET statuses == {NodeStatuses[s] : s \in Stages}
        pending  == {s \in Stages : node[s].status = "PENDING"}
    IN  /\ At(p, "list")
        /\ CASE op[p].to = "CANCELLED" ->
                  /\ op' = [op EXCEPT ![p].at = "node", ![p].nodes = NodeStatuses]
                  /\ UNCHANGED <<mu, refused>>
             [] op[p].to = "READY" /\ (statuses \cap ActiveNode # {} \/ pending = {}) ->
                  Return(p, TRUE)
             [] OTHER ->
                  /\ op' = [op EXCEPT ![p].at = "readyFirst", ![p].s = First(pending)]
                  /\ UNCHANGED <<mu, refused>>
        /\ UNCHANGED <<store, gens, launch>>

(* ResumeWorkflow readies the earliest PENDING node, with retries. *)
ReadyFirst(p) ==
    LET s == op[p].s
        w == Write(node[s], "READY", nodeGen[s], 2)
    IN  /\ At(p, "readyFirst")
        /\ node' = IF w.ok THEN [node EXCEPT ![s] = w.rec] ELSE node
        /\ nodeGen' = IF w.ok THEN [nodeGen EXCEPT ![s] = w.rec.gen] ELSE nodeGen
        /\ Return(p, w.ok)
        /\ UNCHANGED <<wf, desired, run, att, handoffs, runGen, attGen, launch>>

-----------------------------------------------------------------------------
(* The environment. *)

(* Mutant: a success only logs that its write of the run failed. *)
WriteFailsLogged(p) ==
    /\ "write_error" \in Events
    /\ At(p, "run") /\ op[p].to = "SUCCEEDED"
    /\ Goto(p, "att")
    /\ UNCHANGED <<store, gens, mu, launch, refused>>

(* A write fails and the call returns; nothing is undone.  Resuming can     *)
(* also be refused for want of a concurrency slot.                          *)
WriteFails(p) ==
    /\ op[p] # None
    /\ \/ /\ "write_error" \in Events
          /\ op[p].at \in {"claimNode", "attempt", "node", "run", "att", "handoff", "next",
                           "unpause", "wf", "readyFirst"}
       \/ op[p].at = "wf" /\ op[p].to = "READY" /\ op[p].wf.status \notin SlotHolding
    /\ Return(p, FALSE)
    /\ UNCHANGED <<store, gens, launch>>

OpenAttempt(s) == att[s] # None /\ att[s].status \notin AttemptTerminal

Failed(rec) == [status |-> "FAILED", gen |-> rec.gen + 1]

(* The supervisor's pass over the runs at start-up.  It fails the open      *)
(* attempt of every run that is not terminal, a stage's attempt having no   *)
(* journal, and then the run, unless the attempt had SUCCEEDED before; runs *)
(* of stages that never started too.  An error is logged and leaves what it *)
(* was about as it is, so any of these writes may be missing.               *)
SupervisorReconcile ==
    LET open == {s \in Stages : run[s].status \notin RunTerminal} IN
    \E reached \in SUBSET open :
    \E closed \in SUBSET {s \in reached : att[s] = None \/ att[s].status # "SUCCEEDED"} :
       /\ att' = [s \in Stages |-> IF s \in reached /\ OpenAttempt(s) THEN Failed(att[s]) ELSE att[s]]
       /\ run' = [s \in Stages |-> IF s \in closed THEN Failed(run[s]) ELSE run[s]]

(* The daemon dies and starts again: the store and the containers survive,  *)
(* the maps, the launch store, the launcher's records and the registry do   *)
(* not; the supervisor fails what it finds open.                            *)
Crash ==
    /\ "crash" \in Events
    /\ SupervisorReconcile
    /\ nodeGen' = [s \in Stages |-> 1]
    /\ runGen' = [s \in Stages |-> 1]
    /\ attGen' = [s \in Stages |-> 1]
    /\ mu' = None
    /\ op' = [p \in Procs |-> None]
    /\ registered' = FALSE
    /\ jobs' = {}
    /\ active' = {}
    /\ UNCHANGED <<wf, desired, node, handoffs, containers, refused>>

(* InvokeDeployment registers a pipeline on every replay of its receipt. *)
RegisterPipelineWorkflow ==
    /\ ~registered
    /\ registered' = TRUE
    /\ UNCHANGED <<store, gens, mu, op, jobs, active, containers, refused>>

(* RequestControl moves the desired state; a pause also moves the status.   *)
RequestControl(command) ==
    /\ "pause" \in Events
    /\ desired # command
    /\ desired' = command
    /\ UNCHANGED <<wf, node, run, att, handoffs, gens, mu, op, launch, refused>>

RequestPause ==
    /\ "pause" \in Events
    /\ wf.gen < MaxGeneration
    /\ wf.status = "RUNNING"
    /\ wf' = [status |-> "PAUSE_REQUESTED", gen |-> wf.gen + 1]
    /\ UNCHANGED <<desired, node, run, att, handoffs, gens, mu, op, launch, refused>>

(* A stage container ends by itself. *)
ContainerExits(s) ==
    /\ "exit" \in Events
    /\ containers[s] > 0
    /\ containers' = [containers EXCEPT ![s] = @ - 1]
    /\ LET keys == {key \in active : key[1] = s} IN
       \/ containers[s] > Cardinality(keys) /\ active' = active
       \/ \E key \in keys : active' = active \ {key}
    /\ UNCHANGED <<store, gens, mu, op, registered, jobs, refused>>

(* AdvanceWithFence stops and removes what a finished stage left behind. *)
FenceStage(s) ==
    /\ "fence" \in Events
    /\ node[s].status \in NodeTerminal
    /\ containers[s] > 0
    /\ containers' = [containers EXCEPT ![s] = 0]
    /\ active' = {key \in active : key[1] # s}
    /\ UNCHANGED <<store, gens, mu, op, registered, jobs, refused>>

Step(p) ==
    \/ FindLaunchJob(p) \/ ClaimNextReady(p) \/ ClaimNode(p) \/ CreateAttempt(p)
    \/ PutIfAbsent(p) \/ EnsureLaunch(p) \/ AcknowledgeRunning(p)
    \/ UpdateNode(p) \/ UpdateRun(p) \/ UpdateAttempt(p)
    \/ CommitHandoff(p) \/ CheckPause(p) \/ ReadyNext(p)
    \/ ReadWorkflow(p) \/ Unpause(p) \/ UpdateWorkflow(p) \/ ListNodes(p) \/ ReadyFirst(p)

Next ==
    \/ \E p \in Procs : Step(p) \/ LaunchFails(p) \/ RejectHandoff(p) \/ WriteFails(p)
    \/ \E p \in Reconcilers : ReconcileOnce(p)
    \/ \E p \in Workers : \/ \E s \in Stages : CommitStageSuccess(p, s) \/ CommitStageFailure(p, s)
                          \/ ResumeWorkflow(p)
    \/ \E p \in Cancellers : CancelWorkflow(p)
    \/ Crash
    \/ RegisterPipelineWorkflow
    \/ \E command \in {"PAUSE", "RESUME"} : RequestControl(command)
    \/ RequestPause
    \/ \E s \in Stages : ContainerExits(s) \/ FenceStage(s)

Spec == Init /\ [][Next]_vars

-----------------------------------------------------------------------------
(* Properties *)

(* Stages run one at a time and in order: a stage that left PENDING, other  *)
(* than by a cancel, has all earlier stages SUCCEEDED                       *)
(* (CommitStageSuccess readies the next stage last, CommitStageFailure      *)
(* readies none, ResumeWorkflow readies the earliest when none is active).  *)
StagesInOrder ==
    \A s, t \in Stages :
        (s < t /\ node[t].status \notin {"PENDING", "CANCELLED"}) => node[s].status = "SUCCEEDED"

(* A stage is only readied, launched or run once the handoff of the stage   *)
(* before it is committed.                                                  *)
HandoffBeforeNextStage ==
    \A s \in Stages : (s > 1 /\ node[s].status \in ActiveNode) => s - 1 \in handoffs

(* A workflow is SUCCEEDED only when every stage's node, run and attempt    *)
(* are, and every handoff is committed.                                     *)
SucceededMeansAllStages ==
    wf.status = "SUCCEEDED" =>
        /\ handoffs = 1..(StageCount - 1)
        /\ \A s \in Stages : /\ node[s].status = "SUCCEEDED"
                             /\ run[s].status = "SUCCEEDED"
                             /\ att[s] # None
                             /\ att[s].status = "SUCCEEDED"

(* Nothing leaves a terminal status: not by an acknowledgement that retries *)
(* at higher generations, not by a success after a cancel, and not by the   *)
(* unvalidated run writes of CommitStageFailure and CancelWorkflow, on runs *)
(* that the supervisor failed at a restart either: the maps that a restart  *)
(* empties present generation 1 to them and are refused.                    *)
TerminalIsFinal ==
    [][/\ wf.status \in WorkflowTerminal => wf'.status = wf.status
       /\ \A s \in Stages :
            /\ node[s].status \in NodeTerminal => node'[s].status = node[s].status
            /\ run[s].status \in RunTerminal => run'[s].status = run[s].status
            /\ (att[s] # None /\ att[s].status \in AttemptTerminal) => att'[s] = att[s]]_vars

(* One daemon never has two containers of a stage running at once, however    *)
(* often it repeats a launch (EnsureLaunch).  Containers that outlived an     *)
(* earlier daemon are not its own.                                            *)
OneContainerPerStage == \A s \in Stages : Cardinality({key \in active : key[1] = s}) <= 1

=============================================================================

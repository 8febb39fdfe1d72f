--------------------------- MODULE ServiceRegistry ---------------------------
(***************************************************************************)
(* The MCP services of one workflow (internal/mcpmanager): the registry's  *)
(* instances, their containers, the operations that start, stop, fence,    *)
(* clean up and reconcile them, and the calls that are routed to them.     *)
(*                                                                         *)
(* A step is what happens under one hold of the registry's mutex or one    *)
(* call of the container driver; between two steps of an operation no lock *)
(* is held.  The registry lives in memory and dies with the daemon.  The   *)
(* workflow's network is reduced to the attachment that may fail.  The     *)
(* readiness probe is what NewServiceRegistry is given: nothing, or a      *)
(* check of whatever container the instance has by then, with any answer.  *)
(* The daemon gives one that always answers ready (mcp_run.go).            *)
(***************************************************************************)
EXTENDS Integers, Sequences, FiniteSets

CONSTANTS
    Order,         \* the services of the workflow, in the order of its bindings
    Procs,         \* callers of the registry
    Used,          \* the services that clients bind, call, fence and clean up
    Calls,         \* tool calls
    BoundIds,      \* client ids for BindClient
    Concurrency,   \* capacity of a service's CallSemaphore
    MaxGeneration, \* bound: starts of a service
    MaxContainers, \* bound: containers ever created
    MaxCallIds,    \* bound: calls that one tracker registers
    MaxFaults,     \* bound: failures of the driver, a probe or a check, exits
    None

Services == {Order[n] : n \in 1..Len(Order)}

States == {"DECLARED", "STARTING", "READY", "UNHEALTHY", "FENCED", "STOPPING", "STOPPED", "FAILED"}

Containers == 1..MaxContainers

Instance == [state : States, gen : 0..MaxGeneration, container : 0..MaxContainers,
             cap : 0..MaxGeneration, bound : SUBSET BoundIds]

ASSUME ServiceAssumption ==
    /\ Order \in Seq(Services)
    /\ \A a, b \in 1..Len(Order) : Order[a] = Order[b] => a = b
    /\ Used \subseteq Services
    /\ {Concurrency, MaxGeneration, MaxContainers, MaxCallIds, MaxFaults} \subseteq Nat
    /\ None \notin Services \cup Calls
    /\ None \notin Instance

VARIABLES
    inst,       \* ServiceRegistry.instances
    tracker,    \* the CancelTracker of each instance
    box,        \* the driver's containers, in the order of their creation
    job,        \* [Procs -> locals of the operation]
    call,       \* [Calls -> locals of ResolveToolCall]
    faults

vars == <<inst, tracker, box, job, call, faults>>

(* A tracker: the last call id it gave out, and who is registered under     *)
(* which id.  A new one starts its ids anew.                                *)
NewTracker == [last |-> 0, live |-> {}]

Idle == [op |-> "idle", at |-> "next", todo |-> <<>>, started |-> <<>>, gen |-> 0, c |-> 0,
         keep |-> TRUE, seen |-> {}]

NoCall == [at |-> "idle", s |-> None, cap |-> 0, id |-> 0, cancelled |-> FALSE]

TypeOK ==
    /\ inst \in [Services -> Instance \cup {None}]
    /\ \A s \in Services : inst[s] # None => inst[s].cap \in {0, inst[s].gen}
    /\ \A s \in Services : /\ tracker[s].last \in 0..MaxCallIds
                           /\ tracker[s].live \subseteq (1..tracker[s].last) \X Calls
    /\ Len(box) <= MaxContainers
    /\ \A c \in 1..Len(box) : box[c] \in [s : Services, gen : 1..MaxGeneration, attached : BOOLEAN,
                                          status : {"created", "running", "exited", "removed"}]
    /\ \A p \in Procs :
          /\ job[p].op \in {"idle", "ensure", "stop", "cleanup", "reconcile"}
          /\ job[p].at \in {"next", "declare", "start", "create", "run", "store", "attach", "probe",
                            "ready", "fail", "drop", "halt", "teardown", "stopped", "judge"}
          /\ job[p].gen \in 0..MaxGeneration
          /\ job[p].c \in 0..Len(box)
    /\ \A k \in Calls : call[k].at \in {"idle", "resolved", "registered", "live"}
    /\ faults \in 0..MaxFaults

Init ==
    /\ inst = [s \in Services |-> None]
    /\ tracker = [s \in Services |-> NewTracker]
    /\ box = <<>>
    /\ job = [p \in Procs |-> Idle]
    /\ call = [k \in Calls |-> NoCall]
    /\ faults = 0

Fault   == faults < MaxFaults /\ faults' = faults + 1
NoFault == UNCHANGED faults

(* The service that an operation is about. *)
Current(p) == Head(job[p].todo)

At(p, op, at) == job[p].op = op /\ job[p].at = at /\ job[p].todo # <<>>

Goto(p, at) == job' = [job EXCEPT ![p].at = at]

(* The operation goes on with the next service, or returns. *)
Continued(op, todo, started) ==
    IF todo = <<>> THEN Idle ELSE [Idle EXCEPT !.op = op, !.todo = todo, !.started = started]

(* An operation is through with its service.  A failed Start makes          *)
(* EnsureServices stop what it started; a failed Stop is passed over.       *)
Done(p, ok) ==
    LET j == job[p] IN
    job' = [job EXCEPT ![p] =
        IF j.op = "ensure" /\ ~ok THEN Continued("stop", j.started, <<>>)
        ELSE Continued(j.op, Tail(j.todo),
                       IF j.op = "ensure" THEN Append(j.started, Current(p)) ELSE <<>>)]

Begin(p, op, todo) ==
    /\ job[p].op = "idle"
    /\ job' = [job EXCEPT ![p] = Continued(op, todo, <<>>)]

-----------------------------------------------------------------------------
(* EnsureServices and Start. *)

EnsureServices(p) ==
    /\ Begin(p, "ensure", Order)
    /\ UNCHANGED <<inst, tracker, box, call, faults>>

(* Get: a READY service is passed over, an unknown one is declared first. *)
EnsureNext(p) ==
    /\ At(p, "ensure", "next")
    /\ LET i == inst[Current(p)] IN
       job' = [job EXCEPT ![p] =
          IF i = None THEN [@ EXCEPT !.at = "declare"]
          ELSE IF i.state = "READY" THEN Continued("ensure", Tail(@.todo), @.started)
          ELSE [@ EXCEPT !.at = "start"]]
    /\ UNCHANGED <<inst, tracker, box, call, faults>>

NewInstance == [state |-> "DECLARED", gen |-> 0, container |-> 0, cap |-> 0, bound |-> {}]

(* Declare fails if another caller declared the service, or its package is  *)
(* not promoted.                                                            *)
Declare(p) ==
    /\ At(p, "ensure", "declare")
    /\ \/ /\ inst[Current(p)] = None
          /\ inst' = [inst EXCEPT ![Current(p)] = NewInstance]
          /\ Goto(p, "start")
          /\ NoFault
       \/ /\ inst[Current(p)] # None \/ faults < MaxFaults
          /\ IF inst[Current(p)] # None THEN NoFault ELSE Fault
          /\ Done(p, FALSE)
          /\ UNCHANGED inst
    /\ UNCHANGED <<tracker, box, call>>

MayStart(state) == state \in {"DECLARED", "STOPPED", "FAILED", "UNHEALTHY"}

(* Mutant: the generation is the one of the start before. *)
NextGenerationSame(i) == IF i.gen = 0 THEN 1 ELSE i.gen

NextGeneration(i) == i.gen + 1

(* Mutant: a capability that is there is used again. *)
IssuedOnce(i, gen) == IF i.cap # 0 THEN i.cap ELSE gen

(* The capability that a Start issues, named by its generation. *)
Issued(i, gen) == gen

(* Phase 1 of Start: claim the generation and issue a capability. *)
Start(p) ==
    LET s == Current(p)
        i == inst[s]
        g == NextGeneration(i)
    IN  /\ At(p, "ensure", "start")
        /\ \/ /\ MayStart(i.state)
              /\ i.gen < MaxGeneration
              /\ inst' = [inst EXCEPT ![s].gen = g, ![s].state = "STARTING", ![s].cap = Issued(i, g)]
              /\ job' = [job EXCEPT ![p].at = "create", ![p].gen = g]
           \/ /\ ~MayStart(i.state)
              /\ Done(p, i.state = "READY")
              /\ UNCHANGED inst
        /\ UNCHANGED <<tracker, box, call, faults>>

CreateServiceContainer(p) ==
    /\ At(p, "ensure", "create")
    /\ \/ /\ Len(box) < MaxContainers
          /\ box' = Append(box, [s |-> Current(p), gen |-> job[p].gen, attached |-> FALSE,
                                 status |-> "created"])
          /\ job' = [job EXCEPT ![p].at = "run", ![p].c = Len(box')]
          /\ NoFault
       \/ /\ Fault
          /\ Goto(p, "fail")
          /\ UNCHANGED box
    /\ UNCHANGED <<inst, tracker, call>>

RunContainer(p) ==
    /\ At(p, "ensure", "run")
    /\ \/ /\ box' = [box EXCEPT ![job[p].c].status = "running"]
          /\ Goto(p, "store")
          /\ NoFault
       \/ /\ Fault
          /\ Goto(p, "fail")
          /\ UNCHANGED box
    /\ UNCHANGED <<inst, tracker, call>>

(* The container's id is stored whatever the generation is by now. *)
StoreContainer(p) ==
    /\ At(p, "ensure", "store")
    /\ inst' = [inst EXCEPT ![Current(p)].container = job[p].c]
    /\ Goto(p, "attach")
    /\ UNCHANGED <<tracker, box, call, faults>>

(* The service's network: a container that cannot be attached is given up. *)
AttachNetwork(p) ==
    /\ At(p, "ensure", "attach")
    /\ \/ /\ box' = [box EXCEPT ![job[p].c].attached = TRUE]
          /\ Goto(p, "probe")
          /\ NoFault
       \/ /\ Fault
          /\ job' = [job EXCEPT ![p].at = "fail", ![p].keep = FALSE]
          /\ UNCHANGED box
    /\ UNCHANGED <<inst, tracker, call>>

(* Phase 3 of Start.  There is no probe, or it is handed the shared         *)
(* instance, whose container another Start may have stored: its answer says *)
(* nothing of this Start's container, which stays when the answer is no.    *)
ReadinessProbe(p) ==
    /\ At(p, "ensure", "probe")
    /\ \/ Goto(p, "ready") /\ NoFault
       \/ Goto(p, "fail") /\ Fault
    /\ UNCHANGED <<inst, tracker, box, call>>

(* Stop and Remove of a container, as far as the driver does it. *)
RemoveContainer(c) ==
    \/ box' = [box EXCEPT ![c].status = "removed"] /\ NoFault
    \/ Fault /\ UNCHANGED box

(* Mutant: whoever started the service last may have it READY. *)
SupersededNever(p) == FALSE

Superseded(p) == inst[Current(p)].gen # job[p].gen

(* Phase 4 of Start.  The driver is called after the lock is released. *)
StartReady(p) ==
    /\ At(p, "ensure", "ready")
    /\ \/ /\ Superseded(p)
          /\ Goto(p, "drop")
          /\ UNCHANGED inst
       \/ /\ ~Superseded(p)
          /\ inst' = [inst EXCEPT ![Current(p)].state = "READY"]
          /\ Done(p, TRUE)
    /\ UNCHANGED <<tracker, box, call, faults>>

FailedInstance(i, gen) == IF i.gen # gen THEN i ELSE [i EXCEPT !.state = "FAILED"]

(* failInstance; the container goes next if its network was the trouble. *)
StartFails(p) ==
    /\ At(p, "ensure", "fail")
    /\ inst' = [inst EXCEPT ![Current(p)] = FailedInstance(@, job[p].gen)]
    /\ IF job[p].keep THEN Done(p, FALSE) ELSE Goto(p, "drop")
    /\ UNCHANGED <<tracker, box, call, faults>>

(* A Start that gives up its container, which is the one it created. *)
DropContainer(p) ==
    /\ At(p, "ensure", "drop")
    /\ RemoveContainer(job[p].c)
    /\ Done(p, FALSE)
    /\ UNCHANGED <<inst, tracker, call>>

-----------------------------------------------------------------------------
(* Stop, and who calls it. *)

(* The tracker is given up and every call in it cancelled. *)
CancelAll(s) ==
    /\ tracker' = [tracker EXCEPT ![s] = NewTracker]
    /\ call' = [k \in Calls |->
          IF \E id \in 1..tracker[s].last : <<id, k>> \in tracker[s].live
          THEN [call[k] EXCEPT !.cancelled = TRUE] ELSE call[k]]

(* isLegalTransition(state, STOPPING). *)
MayStop(state) == state \in {"STARTING", "READY", "UNHEALTHY", "FENCED"}

(* The ways to go through a set, one element after the other. *)
Orders(S) == {q \in [1..Cardinality(S) -> S] : \A a, b \in 1..Cardinality(S) : q[a] = q[b] => a = b}

(* WorkflowTerminal: Stop for every service that is not stopped, in the     *)
(* order in which the map of instances is walked, which is any.             *)
WorkflowTerminal(p) ==
    /\ \E todo \in Orders({s \in Services : inst[s] # None /\ inst[s].state # "STOPPED"}) :
          Begin(p, "stop", todo)
    /\ UNCHANGED <<inst, tracker, box, call, faults>>

BindClient(s, b) ==
    /\ inst[s] # None
    /\ inst[s].state = "READY"
    /\ b \notin inst[s].bound
    /\ inst' = [inst EXCEPT ![s].bound = @ \cup {b}]
    /\ UNCHANGED <<tracker, box, job, call, faults>>

(* An unbinding that leaves no client stops the service, after the locks. *)
UnbindClient(p, s, b) ==
    /\ inst[s] # None
    /\ inst' = [inst EXCEPT ![s].bound = @ \ {b}]
    /\ Begin(p, "stop", IF inst'[s].bound = {} THEN <<s>> ELSE <<>>)
    /\ UNCHANGED <<tracker, box, call, faults>>

StopMark(p) ==
    LET s == Current(p)
        i == inst[s]
    IN  /\ At(p, "stop", "next")
        /\ \/ /\ MayStop(i.state)
              /\ inst' = [inst EXCEPT ![s].state = "STOPPING"]
              /\ CancelAll(s)
              /\ job' = [job EXCEPT ![p].at = "teardown", ![p].gen = i.gen, ![p].c = i.container]
           \/ /\ ~MayStop(i.state)
              /\ Done(p, TRUE)
              /\ UNCHANGED <<inst, tracker, call>>
        /\ UNCHANGED <<box, faults>>

(* The container that was the instance's is removed; a cleanup looks at the *)
(* generation first.                                                        *)
Teardown(p) ==
    /\ job[p].op \in {"stop", "cleanup"}
    /\ job[p].at = "teardown"
    /\ IF job[p].c = 0 \/ (job[p].op = "cleanup" /\ Superseded(p))
       THEN UNCHANGED box /\ NoFault
       ELSE RemoveContainer(job[p].c)
    /\ Goto(p, "stopped")
    /\ UNCHANGED <<inst, tracker, call>>

Stopped(i) == [i EXCEPT !.state = "STOPPED", !.container = 0, !.cap = 0]

StopDone(p) ==
    /\ job[p].op \in {"stop", "cleanup"}
    /\ job[p].at = "stopped"
    /\ inst' = [inst EXCEPT ![Current(p)] = IF Superseded(p) THEN @ ELSE Stopped(@)]
    /\ Done(p, TRUE)
    /\ UNCHANGED <<tracker, box, call, faults>>

-----------------------------------------------------------------------------
(* CleanupServiceResources, Fence and Reconcile. *)

CleanupServiceResources(p, s) ==
    /\ inst[s] # None
    /\ CancelAll(s)
    /\ LET i    == inst[s]
           bare == [i EXCEPT !.cap = 0]
       IN  IF i.state = "STOPPED" /\ i.container = 0
           THEN inst' = [inst EXCEPT ![s] = bare] /\ job[p].op = "idle" /\ UNCHANGED job
           ELSE /\ inst' = [inst EXCEPT ![s] =
                      [bare EXCEPT !.state = IF @ \in {"STOPPING", "STOPPED"} THEN @ ELSE "STOPPING"]]
                /\ job[p].op = "idle"
                /\ job' = [job EXCEPT ![p] = [Idle EXCEPT !.op = "cleanup", !.at = "halt", !.todo = <<s>>,
                                                          !.gen = i.gen, !.c = i.container]]
    /\ UNCHANGED <<box, faults>>

(* The first look at the generation, and the driver's Stop, whose error is  *)
(* passed over.                                                             *)
CleanupHalts(p) ==
    /\ At(p, "cleanup", "halt")
    /\ IF job[p].c = 0 \/ Superseded(p) \/ box[job[p].c].status # "running"
       THEN UNCHANGED box /\ NoFault
       ELSE \/ box' = [box EXCEPT ![job[p].c].status = "exited"] /\ NoFault
            \/ UNCHANGED box /\ Fault
    /\ Goto(p, IF Superseded(p) THEN "stopped" ELSE "teardown")
    /\ UNCHANGED <<inst, tracker, call>>

Fence(s) ==
    /\ inst[s] # None
    /\ inst[s].state = "READY"
    /\ inst' = [inst EXCEPT ![s].state = "FENCED"]
    /\ CancelAll(s)
    /\ UNCHANGED <<box, job, faults>>

Existing == {c \in 1..Len(box) : box[c].status # "removed"}

(* Reconcile lists the containers before it takes the lock. *)
Reconcile(p) ==
    /\ job[p].op = "idle"
    /\ job' = [job EXCEPT ![p] = [Idle EXCEPT !.op = "reconcile", !.at = "judge", !.seen = Existing]]
    /\ UNCHANGED <<inst, tracker, box, call, faults>>

(* What is wrong with an instance, given the containers that were seen. *)
Unsound(s, seen) ==
    LET i   == inst[s]
        own == {c \in seen : box[c].s = s /\ box[c].gen = i.gen}
    IN  \/ i.state = "READY" /\ \E c \in own : c # i.container \/ box[c].status # "running"
        \/ i.state \in {"READY", "FENCED"} /\ i.container # 0 /\ i.container \notin seen
        \/ i.state \in {"READY", "FENCED"} /\ Cardinality(own) > 1

ReconcileJudges(p) ==
    /\ job[p].op = "reconcile"
    /\ inst' = [s \in Services |->
          IF inst[s] # None /\ Unsound(s, job[p].seen) THEN [inst[s] EXCEPT !.state = "UNHEALTHY"]
          ELSE inst[s]]
    /\ job' = [job EXCEPT ![p] = Idle]
    /\ UNCHANGED <<tracker, box, call, faults>>

ContainerExits(c) ==
    /\ c <= Len(box)
    /\ box[c].status = "running"
    /\ Fault
    /\ box' = [box EXCEPT ![c].status = "exited"]
    /\ UNCHANGED <<inst, tracker, job, call>>

-----------------------------------------------------------------------------
(* ResolveToolCall, behind the router's semaphore. *)

CallTool(k, s) ==
    /\ call[k].at = "idle"
    /\ Cardinality({l \in Calls : call[l].s = s}) < Concurrency
    /\ inst[s] # None
    /\ inst[s].state = "READY"
    /\ call' = [call EXCEPT ![k] = [NoCall EXCEPT !.at = "resolved", !.s = s, !.cap = inst[s].cap]]
    /\ UNCHANGED <<inst, tracker, box, job, faults>>

(* RegisterCall does not look at the state again. *)
RegisterCall(k) ==
    LET s  == call[k].s
        id == tracker[s].last + 1
    IN  /\ call[k].at = "resolved"
        /\ id <= MaxCallIds
        /\ tracker' = [tracker EXCEPT ![s] = [last |-> id, live |-> @.live \cup {<<id, k>>}]]
        /\ call' = [call EXCEPT ![k].at = "registered", ![k].id = id]
        /\ UNCHANGED <<inst, box, job, faults>>

Authorized(cap) == cap # 0

Dispatch(k) ==
    /\ call[k].at = "registered"
    /\ Authorized(call[k].cap)
    /\ call' = [call EXCEPT ![k].at = "live"]
    /\ UNCHANGED <<inst, tracker, box, job, faults>>

(* The call ends, or is refused: UnregisterCall drops its id from whatever  *)
(* tracker the instance has now.                                            *)
CallEnds(k) ==
    LET s == call[k].s IN
    /\ \/ call[k].at = "live"
       \/ call[k].at = "registered" /\ ~Authorized(call[k].cap)
    /\ tracker' = [tracker EXCEPT ![s].live = {e \in @ : e[1] # call[k].id}]
    /\ call' = [call EXCEPT ![k] = NoCall]
    /\ UNCHANGED <<inst, box, job, faults>>

-----------------------------------------------------------------------------
Next ==
    \/ \E p \in Procs :
          \/ EnsureServices(p) \/ EnsureNext(p) \/ Declare(p) \/ Start(p)
          \/ CreateServiceContainer(p) \/ RunContainer(p) \/ StoreContainer(p)
          \/ AttachNetwork(p) \/ ReadinessProbe(p) \/ StartReady(p) \/ StartFails(p)
          \/ DropContainer(p)
          \/ WorkflowTerminal(p) \/ StopMark(p) \/ Teardown(p) \/ StopDone(p)
          \/ \E s \in Used, b \in BoundIds : UnbindClient(p, s, b)
          \/ \E s \in Used : CleanupServiceResources(p, s)
          \/ CleanupHalts(p)
          \/ Reconcile(p) \/ ReconcileJudges(p)
    \/ \E s \in Used :
          \/ Fence(s)
          \/ \E b \in BoundIds : BindClient(s, b)
          \/ \E k \in Calls : CallTool(k, s)
    \/ \E k \in Calls : RegisterCall(k) \/ Dispatch(k) \/ CallEnds(k)
    \/ \E c \in Containers : ContainerExits(c)

Spec == Init /\ [][Next]_vars

-----------------------------------------------------------------------------
(* Properties *)

(* "Concurrent Start calls race on CAS generation; only one wins": whoever  *)
(* starts, stops, cleans up or fails in between, no generation of a service *)
(* ever gets a second container (Start, createServiceContainer).            *)
OneContainerPerGeneration ==
    \A c, d \in 1..Len(box) : (box[c].s = box[d].s /\ box[c].gen = box[d].gen) => c = d

(* A READY service has been made so by a Start of its own generation, whose *)
(* container was started and attached to the service's network: a           *)
(* superseded Start that comes to its end late never announces its          *)
(* successor (phase 4 of Start).  Nothing is said of the probe, which looks *)
(* at whatever container the shared instance has.                           *)
ReadyWasAttached ==
    \A s \in Services : (inst[s] # None /\ inst[s].state = "READY") =>
        \E c \in 1..Len(box) : box[c].s = s /\ box[c].gen = inst[s].gen /\ box[c].attached

=============================================================================

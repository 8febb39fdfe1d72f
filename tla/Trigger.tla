------------------------------- MODULE Trigger -------------------------------
(***************************************************************************)
(* The trigger service (internal/trigger): Invoke, InvokeStream on the     *)
(* durable event store, CancelRun, the idempotency store, the in-memory    *)
(* event bus with the bridge that copies it into the durable store, and    *)
(* the cron scheduler, whose goroutines call Invoke.                       *)
(*                                                                         *)
(* The durable store is used as a log with a cursor per reader; module     *)
(* EventStore has its inside.  The run that invokeFunc starts in the       *)
(* daemon gets an id of its own and publishes on the bus under that id,    *)
(* while the stream, the durable log and the run store use the id that was *)
(* generated for the request.                                              *)
(***************************************************************************)
EXTENDS Integers, Sequences, FiniteSets

CONSTANTS
    Clients,     \* RPC handlers and cron goroutines
    Cancellers,  \* CancelRun RPCs
    Keys,        \* idempotency keys
    Hashes,      \* canonical request hashes
    Schedules,   \* cron schedules
    AgentOf,     \* [Schedules -> agent]
    Forbid,      \* schedules whose concurrency policy is "forbid"
    MaxRuns,     \* bound: run ids ever drawn
    MaxMinutes,  \* bound: minutes that pass
    MaxProgress, \* bound: the runs up to this one publish one progress event
    Outcomes,    \* terminal events of the daemon's Stop that are told apart
    BusBuffer,   \* capacity of a bus subscriber's channel
    MaxFaults,   \* bound: failed writes, failed starts, lost clients, restarts
    MaxExpiries, \* bound: idempotency entries that expire
    None

Runs     == 1..MaxRuns
Terminal == {"run_succeeded", "run_failed", "run_cancelled"}
Types    == {"run_created", "run_started", "progress"} \cup Terminal
Finished == {"SUCCEEDED", "FAILED", "CANCELLED"}

Reservation == [run : Runs, hash : Hashes, live : BOOLEAN]
RunEntry    == [status : {"PENDING", "RUNNING"} \cup Finished, forced : BOOLEAN, audited : BOOLEAN]

ASSUME TriggerAssumption ==
    /\ Forbid \subseteq Schedules
    /\ Outcomes \subseteq {"run_succeeded", "run_failed", "run_cancelled"}
    /\ BusBuffer \in Nat \ {0}
    /\ MaxRuns \in Nat
    /\ None \notin Clients \cup Keys \cup Hashes \cup Schedules
    /\ None \notin Reservation \cup RunEntry

VARIABLES
    idem,      \* IdempotencyStore.entries
    idemFile,  \* its file
    entries,   \* RunStore: [run id -> entry or None]
    feed,      \* the durable log of each run id: sequence of event types
    bus,       \* EventBus.buffers: [run id -> buffer]
    bridge,    \* bridge goroutine of each started run
    exec,      \* the run in the daemon: "none", "running", "ended"
    nextRun,   \* next run id
    job,       \* [Clients -> locals of the call]
    cancel,    \* [Cancellers -> run being cancelled, or 0]
    outcomes,  \* cancellation outcomes audited for each run since the start
    starts,    \* executions that streams started for each key since it last expired
    minute,    \* the wall clock
    lastFire,  \* CronScheduler.lastFire
    active,    \* CronScheduler.activeRuns
    faults,
    expiries

idemVars == <<idem, idemFile, expiries>>
runVars  == <<feed, bus, bridge, exec, nextRun>>
cronVars == <<minute, lastFire, active>>
vars     == <<idemVars, runVars, cronVars, entries, job, cancel, outcomes, starts, faults>>

Idle      == [pc |-> "idle", key |-> None, hash |-> None, schedule |-> None,
              run |-> 0, replay |-> FALSE, actual |-> 0, cursor |-> 0]
NoBuffer  == [known |-> FALSE, events |-> <<>>, closed |-> FALSE]
NoBridge  == [on |-> FALSE, store |-> 0, ch |-> <<>>, shut |-> FALSE]

TypeOK ==
    /\ idem \in [Keys -> Reservation \cup {None}]
    /\ idemFile \in [Keys -> Reservation \cup {None}]
    /\ entries \in [Runs -> RunEntry \cup {None}]
    /\ feed \in [Runs -> Seq(Types)]
    /\ \A r \in Runs :
          /\ bus[r].events \in Seq(Types)
          /\ bridge[r].ch \in Seq(Types)
          /\ Len(bridge[r].ch) <= BusBuffer
          /\ exec[r] \in {"none", "running", "ended"}
          /\ outcomes[r] \in Nat
    /\ \A c \in Clients :
          /\ job[c].pc \in {"idle", "invoke", "mark", "admit", "start", "bridge", "stream"}
          /\ job[c].run \in 0..MaxRuns
    /\ cancel \in [Cancellers -> 0..MaxRuns]
    /\ nextRun \in 1..(MaxRuns + 1)
    /\ starts \in [Keys -> Nat]
    /\ active \subseteq {AgentOf[s] : s \in Schedules}

Init ==
    /\ idem = [k \in Keys |-> None]
    /\ idemFile = idem
    /\ entries = [r \in Runs |-> None]
    /\ feed = [r \in Runs |-> <<>>]
    /\ bus = [r \in Runs |-> NoBuffer]
    /\ bridge = [r \in Runs |-> NoBridge]
    /\ exec = [r \in Runs |-> "none"]
    /\ nextRun = 1
    /\ job = [c \in Clients |-> Idle]
    /\ cancel = [x \in Cancellers |-> 0]
    /\ outcomes = [r \in Runs |-> 0]
    /\ starts = [k \in Keys |-> 0]
    /\ minute = 0
    /\ lastFire = [s \in Schedules |-> -1]
    /\ active = {}
    /\ faults = 0
    /\ expiries = 0

Fault   == faults < MaxFaults /\ faults' = faults + 1
NoFault == UNCHANGED faults

-----------------------------------------------------------------------------
(* The event bus. *)

(* Mutant: the send finds room for one event too many. *)
OfferedOverfull(ch, type) == IF Len(ch) <= BusBuffer THEN Append(ch, type) ELSE ch

(* What a channel holds after a send that never blocks. *)
Offered(ch, type) == IF Len(ch) < BusBuffer THEN Append(ch, type) ELSE ch

(* Publish: the buffer is created if need be; a closed one ignores the      *)
(* event; a terminal event closes the buffer and its channels.              *)
Publish(r, type) ==
    IF bus[r].closed THEN UNCHANGED <<bus, bridge>>
    ELSE /\ bus' = [bus EXCEPT ![r] = [known |-> TRUE, events |-> Append(@.events, type),
                                       closed |-> type \in Terminal]]
         /\ bridge' = IF ~bridge[r].on THEN bridge
                      ELSE [bridge EXCEPT ![r].ch = Offered(@, type),
                                          ![r].shut = type \in Terminal]

-----------------------------------------------------------------------------
(* The idempotency store. *)

(* Time passes: an entry reaches its expiry. *)
Expire(k) ==
    /\ idem[k] # None
    /\ idem[k].live
    /\ expiries < MaxExpiries
    /\ expiries' = expiries + 1
    /\ idem' = [idem EXCEPT ![k].live = FALSE]
    /\ idemFile' = [idemFile EXCEPT ![k] = idem'[k]]
    /\ starts' = [starts EXCEPT ![k] = 0]
    /\ UNCHANGED <<runVars, cronVars, entries, job, cancel, outcomes, faults>>

PurgeExpired ==
    /\ \E k \in Keys : idem[k] # None /\ ~idem[k].live
    /\ idem' = [k \in Keys |-> IF idem[k] # None /\ idem[k].live THEN idem[k] ELSE None]
    /\ idemFile' = idem'
    /\ UNCHANGED <<runVars, cronVars, entries, job, cancel, outcomes, starts, faults, expiries>>

(* Mutant: the file is left as it was. *)
SavedNever(file, mem) == file

(* What the file holds after save. *)
Saved(file, mem) == mem

(* CheckOrReserve: a live entry with the call's hash is a replay of that    *)
(* entry's run, with another hash a conflict; otherwise the key is reserved *)
(* and saved, and released again if it cannot be saved.                     *)
CheckOrReserve(c, call) ==
    LET e == idem[call.key] IN
    \/ /\ e # None /\ e.live
       /\ job' = [job EXCEPT ![c] =
             IF e.hash = call.hash THEN [call EXCEPT !.run = e.run, !.replay = TRUE] ELSE Idle]
       /\ NoFault
       /\ UNCHANGED <<idem, idemFile>>
    \/ /\ e # None => ~e.live
       /\ idem' = [idem EXCEPT ![call.key] = [run |-> call.run, hash |-> call.hash, live |-> TRUE]]
       /\ idemFile' = Saved(idemFile, idem')
       /\ job' = [job EXCEPT ![c] = call]
       /\ NoFault
    \/ /\ e # None => ~e.live
       /\ Fault
       /\ idem' = [idem EXCEPT ![call.key] = None]
       /\ UNCHANGED <<idemFile, job>>

(* A request arrives, draws a run id and checks its key, if it has one and  *)
(* the service has an idempotency store: the daemon gives it none.          *)
Arrive(c, k, h, pc) ==
    LET call == [Idle EXCEPT !.pc = pc, !.key = k, !.hash = h, !.run = nextRun] IN
    /\ job[c].pc = "idle"
    /\ nextRun <= MaxRuns
    /\ nextRun' = nextRun + 1
    /\ IF k # None THEN CheckOrReserve(c, call)
       ELSE job' = [job EXCEPT ![c] = call] /\ UNCHANGED <<idem, idemFile, faults>>
    /\ UNCHANGED <<cronVars, entries, feed, bus, bridge, exec, cancel, outcomes, starts, expiries>>

Invoke(c, k, h) == Arrive(c, k, h, "invoke")

InvokeStream(c, k, h) == Arrive(c, k, h, "admit")

-----------------------------------------------------------------------------
(* Runs. *)

NewEntry(status) == [status |-> status, forced |-> FALSE, audited |-> FALSE]

(* RunStore.Register keeps an entry that is there. *)
Registered(r, status) == IF entries[r] = None THEN NewEntry(status) ELSE entries[r]

(* Mutant: an outcome overwrites a cancellation. *)
MarkedFinishedAlways(entry, status) == [entry EXCEPT !.status = status]

(* RunStore.MarkFinished. *)
MarkedFinished(entry, status) ==
    IF entry.status = "CANCELLED" THEN entry ELSE [entry EXCEPT !.status = status]

(* invokeFunc starts a run in the daemon, which registers it on the bus and *)
(* publishes that it started.                                               *)
StartExec(r) ==
    /\ exec' = [exec EXCEPT ![r] = "running"]
    /\ nextRun' = nextRun + 1
    /\ bus' = [bus EXCEPT ![r] = [known |-> TRUE, events |-> <<"run_started">>, closed |-> FALSE]]

(* A cron goroutine ends with its call and clears its agent's flag. *)
ActiveAfter(c) ==
    IF job[c].schedule = None THEN active ELSE active \ {AgentOf[job[c].schedule]}

(* The rest of Invoke: the run is started, replay or not, and registered    *)
(* under its own id, to be marked as running after that.  The scheduler has *)
(* a TriggerService of its own, whose run store no RPC reads.               *)
InvokeStarts(c) ==
    /\ job[c].pc = "invoke"
    /\ nextRun <= MaxRuns
    /\ StartExec(nextRun)
    /\ entries' = IF job[c].schedule # None THEN entries
                  ELSE [entries EXCEPT ![nextRun] = NewEntry("PENDING")]
    /\ job' = [job EXCEPT ![c] = IF @.schedule # None THEN Idle
                                 ELSE [Idle EXCEPT !.pc = "mark", !.actual = nextRun]]
    /\ active' = ActiveAfter(c)
    /\ UNCHANGED <<idemVars, feed, bridge, cancel, outcomes, starts, minute, lastFire, faults>>

(* RunStore.MarkStarted. *)
MarkedStarted(entry) ==
    IF entry = None \/ entry.status # "PENDING" THEN entry
    ELSE [entry EXCEPT !.status = "RUNNING"]

InvokeReturns(c) ==
    /\ job[c].pc = "mark"
    /\ entries' = [entries EXCEPT ![job[c].actual] = MarkedStarted(@)]
    /\ job' = [job EXCEPT ![c] = Idle]
    /\ UNCHANGED <<idemVars, runVars, cronVars, cancel, outcomes, starts, faults>>

InvokeFails(c) ==
    /\ job[c].pc = "invoke"
    /\ Fault
    /\ job' = [job EXCEPT ![c] = Idle]
    /\ active' = ActiveAfter(c)
    /\ UNCHANGED <<idemVars, runVars, entries, cancel, outcomes, starts, minute, lastFire>>

-----------------------------------------------------------------------------
(* invokeStreamDurable. *)

(* Mutant: a replay is announced again. *)
CreatedAlways(j) == Append(feed[j.run], "run_created")

Created(j) == IF j.replay THEN feed[j.run] ELSE Append(feed[j.run], "run_created")

(* The run is registered, announced unless this is a replay, and the        *)
(* durable log is read from its start; a failed append or subscription ends *)
(* the call.                                                                *)
Admit(c) ==
    LET j == job[c] IN
    /\ j.pc = "admit"
    /\ entries' = [entries EXCEPT ![j.run] = Registered(j.run, "PENDING")]
    /\ \/ /\ feed' = [feed EXCEPT ![j.run] = Created(j)]
          /\ job' = [job EXCEPT ![c].pc = IF j.replay THEN "stream" ELSE "start"]
          /\ NoFault
       \/ /\ feed' \in {feed, [feed EXCEPT ![j.run] = Created(j)]}
          /\ Fault
          /\ job' = [job EXCEPT ![c] = Idle]
    /\ UNCHANGED <<idemVars, cronVars, bus, bridge, exec, nextRun, cancel, outcomes, starts>>

(* The reservation that the call made is still live. *)
Holds(j) == j.key # None /\ idem[j.key] # None /\ idem[j.key].live /\ idem[j.key].run = j.run

StreamStarts(c) ==
    /\ job[c].pc = "start"
    /\ nextRun <= MaxRuns
    /\ StartExec(nextRun)
    /\ starts' = IF Holds(job[c]) THEN [starts EXCEPT ![job[c].key] = @ + 1] ELSE starts
    /\ job' = [job EXCEPT ![c].pc = "bridge", ![c].actual = nextRun]
    /\ UNCHANGED <<idemVars, cronVars, entries, feed, bridge, cancel, outcomes, faults>>

(* invokeFunc fails: the failure is recorded, or that fails too. *)
StreamStartFails(c) ==
    LET j == job[c] IN
    /\ j.pc = "start"
    /\ Fault
    /\ entries' = [entries EXCEPT ![j.run] = MarkedFinished(@, "FAILED")]
    /\ \/ /\ feed' = [feed EXCEPT ![j.run] = Append(@, "run_failed")]
          /\ job' = [job EXCEPT ![c].pc = "stream"]
       \/ /\ job' = [job EXCEPT ![c] = Idle]
          /\ UNCHANGED feed
    /\ UNCHANGED <<idemVars, cronVars, bus, bridge, exec, nextRun, cancel, outcomes, starts>>

(* bridgeEventBusToStore subscribes: the bus replays what it has, as far as *)
(* it fits, and the channel of a closed buffer is closed.                   *)
Bridge(c) ==
    LET j == job[c]
        b == bus[j.actual]
    IN  /\ j.pc = "bridge"
        /\ bridge' = [bridge EXCEPT ![j.actual] =
                [on |-> TRUE, store |-> j.run,
                 ch |-> SubSeq(b.events, 1, IF Len(b.events) < BusBuffer THEN Len(b.events) ELSE BusBuffer),
                 shut |-> b.closed]]
        /\ job' = [job EXCEPT ![c].pc = "stream"]
        /\ UNCHANGED <<idemVars, cronVars, entries, feed, bus, exec, nextRun, cancel, outcomes,
                       starts, faults>>

(* The bridge copies one event into the durable log, or fails to and goes   *)
(* on; a terminal event or the closed channel ends it.                      *)
BridgeStep(r) ==
    LET b == bridge[r] IN
    /\ b.on
    /\ \/ /\ b.ch # <<>>
          /\ bridge' = [bridge EXCEPT ![r] =
                IF Head(b.ch) \in Terminal THEN NoBridge ELSE [b EXCEPT !.ch = Tail(@)]]
          /\ \/ feed' = [feed EXCEPT ![b.store] = Append(@, Head(b.ch))] /\ NoFault
             \/ Fault /\ UNCHANGED feed
       \/ /\ b.ch = <<>>
          /\ b.shut
          /\ bridge' = [bridge EXCEPT ![r] = NoBridge]
          /\ NoFault
          /\ UNCHANGED feed
    /\ UNCHANGED <<idemVars, cronVars, entries, bus, exec, nextRun, job, cancel, outcomes, starts>>

StatusOf(type) ==
    CASE type = "run_succeeded" -> "SUCCEEDED"
      [] type = "run_failed"    -> "FAILED"
      [] type = "run_cancelled" -> "CANCELLED"

(* The stream sends one event on and mirrors a terminal one. *)
Stream(c) ==
    LET j    == job[c]
        type == feed[j.run][j.cursor + 1]
    IN  /\ j.pc = "stream"
        /\ j.cursor < Len(feed[j.run])
        /\ IF type \in Terminal
           THEN /\ entries' = [entries EXCEPT ![j.run] = MarkedFinished(@, StatusOf(type))]
                /\ job' = [job EXCEPT ![c] = Idle]
           ELSE /\ job' = [job EXCEPT ![c].cursor = @ + 1]
                /\ UNCHANGED entries
        /\ UNCHANGED <<idemVars, runVars, cronVars, cancel, outcomes, starts, faults>>

(* The client goes away; its context ends the bridge too. *)
Disconnect(c) ==
    /\ job[c].pc = "stream"
    /\ Fault
    /\ job' = [job EXCEPT ![c] = Idle]
    /\ bridge' = IF job[c].actual = 0 THEN bridge ELSE [bridge EXCEPT ![job[c].actual] = NoBridge]
    /\ UNCHANGED <<idemVars, cronVars, entries, feed, bus, exec, nextRun, cancel, outcomes, starts>>

-----------------------------------------------------------------------------
(* The run, as the daemon publishes it. *)

(* For the bound MaxProgress. *)
Talked(r) == \E i \in 1..Len(bus[r].events) : bus[r].events[i] = "progress"

(* The audit tailer publishes what the run does. *)
Progress(r) ==
    /\ exec[r] = "running"
    /\ r <= MaxProgress /\ ~Talked(r)
    /\ Publish(r, "progress")
    /\ UNCHANGED <<idemVars, cronVars, entries, feed, exec, nextRun, job, cancel, outcomes,
                   starts, faults>>

(* Stop ends the run: the daemon publishes how. *)
Finish(r) ==
    /\ exec[r] = "running"
    /\ \E type \in Outcomes : Publish(r, type)
    /\ exec' = [exec EXCEPT ![r] = "ended"]
    /\ UNCHANGED <<idemVars, cronVars, entries, feed, nextRun, job, cancel, outcomes, starts, faults>>

-----------------------------------------------------------------------------
(* CancelRun.  No caller sets a run's cancel function, so a request for a    *)
(* running one waits for the grace period.                                  *)

CancelRun(x, r) ==
    /\ cancel[x] = 0
    /\ entries[r] # None
    /\ \/ /\ entries[r].status = "PENDING"
          /\ entries' = [entries EXCEPT ![r].status = "CANCELLED", ![r].audited = TRUE]
          /\ Publish(r, "run_cancelled")
          /\ outcomes' = [outcomes EXCEPT ![r] = @ + 1]
          /\ UNCHANGED cancel
       \/ /\ entries[r].status = "RUNNING"
          /\ cancel' = [cancel EXCEPT ![x] = r]
          /\ UNCHANGED <<entries, bus, bridge, outcomes>>
    /\ UNCHANGED <<idemVars, cronVars, feed, exec, nextRun, job, starts, faults>>

(* The poll finds the run cancelled. *)
CancelSeen(x) ==
    LET r == cancel[x] IN
    /\ r # 0
    /\ entries[r].status = "CANCELLED"
    /\ IF entries[r].forced \/ entries[r].audited
       THEN UNCHANGED <<entries, outcomes>>
       ELSE /\ entries' = [entries EXCEPT ![r].audited = TRUE]
            /\ outcomes' = [outcomes EXCEPT ![r] = @ + 1]
    /\ cancel' = [cancel EXCEPT ![x] = 0]
    /\ UNCHANGED <<idemVars, runVars, cronVars, job, starts, faults>>

(* Mutant: the status is not looked at again when the timer fires. *)
MayForceAlways(entry) == entry.status \in Finished \cup {"RUNNING"}

MayForce(entry) == entry.status # "CANCELLED"

(* The grace period is over: forceCancel. *)
CancelTimeout(x) ==
    LET r == cancel[x] IN
    /\ r # 0
    /\ IF MayForce(entries[r])
       THEN /\ entries' = [entries EXCEPT ![r].status = "CANCELLED", ![r].forced = TRUE]
            /\ Publish(r, "run_cancelled")
            /\ outcomes' = [outcomes EXCEPT ![r] = @ + 1]
       ELSE UNCHANGED <<entries, bus, bridge, outcomes>>
    /\ cancel' = [cancel EXCEPT ![x] = 0]
    /\ UNCHANGED <<idemVars, cronVars, feed, exec, nextRun, job, starts, faults>>

(* The caller of CancelRun goes away; the run stays as it is. *)
CancelAbandoned(x) ==
    /\ cancel[x] # 0
    /\ Fault
    /\ cancel' = [cancel EXCEPT ![x] = 0]
    /\ UNCHANGED <<idemVars, runVars, cronVars, entries, job, outcomes, starts>>

-----------------------------------------------------------------------------
(* The cron scheduler. *)

Minute ==
    /\ minute < MaxMinutes
    /\ minute' = minute + 1
    /\ UNCHANGED <<idemVars, runVars, entries, job, cancel, outcomes, starts, lastFire, active, faults>>

(* Mutant: the agent's flag is not consulted. *)
MayFireAlways(s) == s \in Schedules

MayFire(s) == s \in Forbid => AgentOf[s] \notin active

(* tick, shouldFire and fire for one schedule that matches this minute: the *)
(* goroutine calls Invoke under a key of its own, or the minute is skipped. *)
Fire(s, c) ==
    /\ lastFire[s] # minute
    /\ minute > 0
    /\ lastFire' = [lastFire EXCEPT ![s] = minute]
    /\ \/ /\ ~MayFire(s)
          /\ UNCHANGED <<job, active, nextRun>>
       \/ /\ MayFire(s)
          /\ job[c].pc = "idle"
          /\ nextRun <= MaxRuns
          /\ job' = [job EXCEPT ![c] = [Idle EXCEPT !.pc = "invoke", !.schedule = s, !.run = nextRun]]
          /\ nextRun' = nextRun + 1
          /\ active' = active \cup {AgentOf[s]}
    /\ UNCHANGED <<idemVars, entries, feed, bus, bridge, exec, cancel, outcomes, starts, minute, faults>>

-----------------------------------------------------------------------------
(* The daemon restarts: the idempotency file and the durable log stay. *)
Restart ==
    /\ Fault
    /\ idem' = [k \in Keys |->
            IF idemFile[k] # None /\ idemFile[k].live THEN idemFile[k] ELSE None]
    /\ idemFile' = idem'
    /\ entries' = [r \in Runs |-> None]
    /\ bus' = [r \in Runs |-> NoBuffer]
    /\ bridge' = [r \in Runs |-> NoBridge]
    /\ exec' = [r \in Runs |-> IF exec[r] = "running" THEN "ended" ELSE exec[r]]
    /\ job' = [c \in Clients |-> Idle]
    /\ cancel' = [x \in Cancellers |-> 0]
    /\ lastFire' = [s \in Schedules |-> -1]
    /\ active' = {}
    /\ outcomes' = [r \in Runs |-> 0]
    /\ UNCHANGED <<feed, nextRun, starts, minute, expiries>>

Next ==
    \/ \E k \in Keys : Expire(k)
    \/ PurgeExpired
    \/ \E c \in Clients :
          \/ \E k \in Keys, h \in Hashes : Invoke(c, k, h) \/ InvokeStream(c, k, h)
          \/ Invoke(c, None, None) \/ InvokeStream(c, None, None)
          \/ InvokeStarts(c)
          \/ InvokeReturns(c)
          \/ InvokeFails(c)
          \/ Admit(c)
          \/ StreamStarts(c)
          \/ StreamStartFails(c)
          \/ Bridge(c)
          \/ Stream(c)
          \/ Disconnect(c)
          \/ \E s \in Schedules : Fire(s, c)
    \/ \E r \in Runs : BridgeStep(r) \/ Progress(r) \/ Finish(r)
    \/ \E x \in Cancellers :
          \/ \E r \in Runs : CancelRun(x, r)
          \/ CancelSeen(x)
          \/ CancelTimeout(x)
          \/ CancelAbandoned(x)
    \/ Minute
    \/ Restart

Spec == Init /\ [][Next]_vars

-----------------------------------------------------------------------------
(* Properties *)

(* The durable log of a run is well formed whatever is retried, replayed,   *)
(* cancelled, lost or restarted: it is announced once and first, it has at  *)
(* most one terminal event and nothing after it (invokeStreamDurable,       *)
(* bridgeEventBusToStore).                                                  *)
FeedWellFormed ==
    \A r \in Runs : \A i \in 1..Len(feed[r]) :
        /\ feed[r][i] = "run_created" <=> i = 1
        /\ feed[r][i] \in Terminal => i = Len(feed[r])

(* While a reservation lives, streams execute its request at most once:     *)
(* concurrent requests, retries and restarts included (CheckOrReserve saves *)
(* before anything is started; a replay never starts).                      *)
StartedOnce == \A k \in Keys : starts[k] <= 1

(* A finished run keeps its status: a late terminal event does not undo a   *)
(* cancellation and a forced cancellation does not relabel a run that ended *)
(* within the grace period.  It holds because the runs that can be waited   *)
(* for (Invoke) and the runs that streams finish have different ids.        *)
FinishedStays ==
    [][\A r \in Runs :
         (entries[r] # None /\ entries[r].status \in Finished /\ entries'[r] # None)
            => entries'[r].status = entries[r].status]_vars

(* However many CancelRun calls meet, one cancellation has one audited      *)
(* outcome, graceful or forced (markGracefulCancelAudited, forceCancel).    *)
OneCancelOutcome == \A r \in Runs : outcomes[r] <= 1

(* An agent all of whose schedules forbid concurrency is never invoked by   *)
(* two cron goroutines at a time (fire).                                    *)
ForbidRespected ==
    \A s \in Schedules :
        (\A t \in Schedules : AgentOf[t] = AgentOf[s] => t \in Forbid) =>
            Cardinality({c \in Clients : /\ job[c].schedule # None
                                         /\ AgentOf[job[c].schedule] = AgentOf[s]}) <= 1

=============================================================================

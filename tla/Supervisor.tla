----------------------------- MODULE Supervisor -----------------------------
(***************************************************************************)
(* The supervisor of one durable run (internal/supervisor) and the daemon  *)
(* goroutines that start and finish the run around it                      *)
(* (internal/daemon/control_handlers.go, routed_handlers.go).              *)
(*                                                                         *)
(* Every call of the store, of the result store and of the control journal *)
(* is one step.  casAttemptToByRecord, casRunTo and updateLegacyRunStatus  *)
(* read a record, read its generation with a second call, and write under  *)
(* that generation with a third.  The trackers are memory; a restart runs  *)
(* Reconcile to its end before any RPC is served.                          *)
(*                                                                         *)
(* The bound of 8 (3) retries of a compare-and-swap is left out: it takes  *)
(* more concurrent writers than an attempt has.                            *)
(***************************************************************************)
EXTENDS Integers, Sequences, FiniteSets, RoutedRun

CONSTANTS
    Attempts,       \* attempt ids that CreateAttempt may draw
    Launchers,      \* startDurableRun goroutines of the run
    Handlers,       \* callers of HandleResult, Cancel and Finalize
    Events,         \* which of EventNames may happen
    None

EventNames == {"crash", "store_error", "reconcile_error", "save_error", "journal_error",
               "launch_error", "finalize_run"}

Outcomes == {"SUCCEEDED", "FAILED", "CANCELLED"}

Boot  == "boot"     \* the start-up code that calls Reconcile
Procs == Launchers \cup Handlers \cup {Boot}

ASSUME SupervisorAssumption ==
    /\ Events \subseteq EventNames
    /\ Launchers \cap Handlers = {}
    /\ Boot \notin Launchers \cup Handlers
    /\ None \notin Attempts \cup Outcomes
    /\ None \notin [status : AttemptStatus, gen : Nat]
    /\ None \notin [a : Attempts, status : Outcomes]

VARIABLES
    run,        \* run.json
    attempt,    \* attempt files, None when absent
    result,     \* result-<run>.json: attempt and terminal status, or None
    journal,    \* last terminal event in each attempt's control journal
    tracker,    \* the trackers made for each attempt: the last is in Supervisor.trackers
    op,         \* the call each process is in
    launched,   \* launchers that have started the run
    finished,   \* launchers that gave up, ran finalizeRun or died with the daemon
    booting,    \* the daemon has not yet begun to serve
    delivered,  \* attempts of which HandleResult got a verified SUCCEEDED result
    reconciled  \* attempts that the last Reconcile is done with

disk   == <<run, attempt, result, journal>>
memory == <<tracker, launched, finished, booting>>
seen   == <<delivered, reconciled>>
vars   == <<disk, memory, op, seen>>

Tracker == [terminal : BOOLEAN, verified : Outcomes \cup {None}]

Steps == {"legacyGen", "legacyWrite", "list", "create", "establish",
          "attRead", "attGen", "attWrite", "result", "journal",
          "runRead", "runGen", "runWrite", "mark", "scan", "end"}

(* The locals of a call: the attempt, the status it is after, a generation, *)
(* which of the attempt's trackers it holds, the attempts Reconcile has yet *)
(* to look at and whether one of the attempts it listed had SUCCEEDED.      *)
Op == [at : Steps, a : Attempts \cup {None}, to : RunStatus, gen : Nat, trk : Nat,
       todo : SUBSET Attempts, succeeded : BOOLEAN]

TypeOK ==
    /\ run \in [status : RunStatus, gen : Nat]
    /\ attempt \in [Attempts -> [status : AttemptStatus, gen : Nat] \cup {None}]
    /\ result \in [a : Attempts, status : Outcomes] \cup {None}
    /\ journal \in [Attempts -> Outcomes \cup {None}]
    /\ tracker \in [Attempts -> Seq(Tracker)]
    /\ op \in [Procs -> Op \cup {None}]
    /\ launched \subseteq Launchers
    /\ finished \subseteq Launchers
    /\ booting \in BOOLEAN
    /\ delivered \subseteq Attempts
    /\ reconciled \subseteq Attempts

Init ==
    /\ run = [status |-> "PENDING", gen |-> 1]
    /\ attempt = [a \in Attempts |-> None]
    /\ result = None
    /\ journal = [a \in Attempts |-> None]
    /\ tracker = [a \in Attempts |-> <<>>]
    /\ op = [p \in Procs |-> None]
    /\ launched = {}
    /\ finished = {}
    /\ booting = FALSE
    /\ delivered = {}
    /\ reconciled = {}

-----------------------------------------------------------------------------
At(p, step) == op[p] # None /\ op[p].at = step

Call(p, step, a, to) ==
    op' = [op EXCEPT ![p] = [at |-> step, a |-> a, to |-> to, gen |-> 0,
                             trk |-> IF a = None THEN 0 ELSE Len(tracker[a]),
                             todo |-> {}, succeeded |-> FALSE]]

Goto(p, step) == op' = [op EXCEPT ![p].at = step]

Return(p) == op' = [op EXCEPT ![p] = None]

(* An error: the call returns it, and one of Reconcile's ends Reconcile,    *)
(* which has not dealt with that attempt then.                              *)
Fail(p) ==
    IF p = Boot
    THEN op' = [op EXCEPT ![p].at = "end", ![p].todo = @ \cup ({op[p].a} \ {None})]
    ELSE Return(p)

Exists(a) == attempt[a] # None

Terminal(a) == Exists(a) /\ attempt[a].status \in AttemptTerminal

-----------------------------------------------------------------------------
(* startDurableRun: mark the run RUNNING, then ClaimForRun.  The daemon that *)
(* admitted the run starts it, twice when two requests with one key race     *)
(* (Admission); a restarted daemon does not.                                 *)

StartDurableRun(p) ==
    /\ op[p] = None
    /\ p \notin launched \cup finished
    /\ Call(p, "legacyGen", None, "RUNNING")
    /\ launched' = launched \cup {p}
    /\ UNCHANGED <<disk, tracker, finished, booting, seen>>

(* One of its preparations fails: the run is marked FAILED. *)
LaunchFails(p) ==
    /\ "launch_error" \in Events
    /\ op[p] = None
    /\ p \notin launched \cup finished
    /\ Call(p, "legacyGen", None, "FAILED")
    /\ finished' = finished \cup {p}
    /\ UNCHANGED <<disk, tracker, launched, booting, seen>>

(* finalizeRun, once per goroutine: the outcome of the invocation. *)
FinalizeRun(p, outcome) ==
    /\ "finalize_run" \in Events
    /\ p \in launched \ finished
    /\ op[p] = None
    /\ Call(p, "legacyGen", None, outcome)
    /\ finished' = finished \cup {p}
    /\ UNCHANGED <<disk, tracker, launched, booting, seen>>

(* updateLegacyRunStatus: whatever the status is, it is replaced. *)
LegacyGeneration(p) ==
    /\ At(p, "legacyGen")
    /\ op' = [op EXCEPT ![p].at = "legacyWrite", ![p].gen = run.gen]
    /\ UNCHANGED <<disk, memory, seen>>

LegacyWrite(p) ==
    /\ At(p, "legacyWrite")
    /\ IF run.gen = op[p].gen
       THEN /\ run' = [status |-> op[p].to, gen |-> run.gen + 1]
            /\ IF op[p].to = "RUNNING" THEN Goto(p, "list") ELSE Return(p)
       ELSE Goto(p, "legacyGen") /\ UNCHANGED run
    /\ UNCHANGED <<attempt, result, journal, memory, seen>>

(* ClaimForRun: an attempt that is RUNNING is taken over. *)
ListAttempts(p) ==
    LET running == {a \in Attempts : Exists(a) /\ attempt[a].status = "RUNNING"} IN
    /\ At(p, "list")
    /\ IF running = {} THEN Goto(p, "create")
       ELSE \E a \in running : op' = [op EXCEPT ![p].at = "establish", ![p].a = a]
    /\ UNCHANGED <<disk, memory, seen>>

CreateAttempt(p) ==
    /\ At(p, "create")
    /\ \E a \in {b \in Attempts : ~Exists(b)} :
          /\ attempt' = [attempt EXCEPT ![a] = [status |-> "RUNNING", gen |-> 1]]
          /\ op' = [op EXCEPT ![p].at = "establish", ![p].a = a]
    /\ UNCHANGED <<run, result, journal, memory, seen>>

(* establishTracker puts a new tracker in the place of any other. *)
EstablishTracker(p) ==
    /\ At(p, "establish")
    /\ tracker' = [tracker EXCEPT ![op[p].a] =
                      Append(@, [terminal |-> FALSE, verified |-> None])]
    /\ Return(p)
    /\ UNCHANGED <<disk, launched, finished, booting, seen>>

-----------------------------------------------------------------------------
(* HandleResult, Cancel and Finalize up to the attempt's compare-and-swap.  *)

InMap(a) == tracker[a][Len(tracker[a])]

Live(a) == tracker[a] # <<>> /\ ~InMap(a).terminal

(* The event passed the lease, HMAC and digest checks. *)
HandleResult(p, a, outcome) ==
    /\ ~booting
    /\ op[p] = None
    /\ Live(a)
    /\ tracker' = [tracker EXCEPT ![a][Len(tracker[a])].verified = outcome]
    /\ delivered' = IF outcome = "SUCCEEDED" THEN delivered \cup {a} ELSE delivered
    /\ Call(p, "attRead", a, outcome)
    /\ UNCHANGED <<disk, launched, finished, booting, reconciled>>

Cancel(p, a) ==
    /\ ~booting
    /\ op[p] = None
    /\ Live(a)
    /\ Call(p, "attRead", a, "CANCELLED")
    /\ UNCHANGED <<disk, memory, seen>>

(* Mutant: a container that exits is taken for a success. *)
FinalOutcomeOfExit(verified) == "SUCCEEDED"

(* Mutant: whatever status the verified result has, even when there is none. *)
FinalOutcomeUnset(verified) == verified

(* What Finalize makes of the verified result it finds, if any. *)
FinalOutcome(verified) == IF verified = "SUCCEEDED" THEN "SUCCEEDED" ELSE "FAILED"

Finalize(p, a) ==
    /\ ~booting
    /\ op[p] = None
    /\ Live(a)
    /\ Call(p, "attRead", a, FinalOutcome(InMap(a).verified))
    /\ UNCHANGED <<disk, memory, seen>>

-----------------------------------------------------------------------------
(* casAttemptToByRecord and revokeLeaseAndFail. *)

(* What follows the attempt's transition: finalizeSuccess and               *)
(* finalizeFailed save the result, the others go on with the journal;       *)
(* reconcileSuccess goes straight to the run.                               *)
AfterAttempt(p) ==
    IF p = Boot /\ op[p].to = "SUCCEEDED" THEN "runRead"
    ELSE IF p = Boot \/ op[p].to = "CANCELLED" THEN "journal"
    ELSE "result"

(* The status an attempt is already in ends a call, unless it is the one    *)
(* the call is after: then the call goes on with what follows.              *)
ReadAttempt(p) ==
    LET s == attempt[op[p].a].status IN
    /\ At(p, "attRead")
    /\ CASE s \in AttemptTerminal /\ s = op[p].to /\ (p = Boot => s = "SUCCEEDED") ->
              Goto(p, AfterAttempt(p))
         [] s \notin AttemptTerminal /\ op[p].to \in AttemptTransitions[s] ->
              Goto(p, "attGen")
         [] s \in AttemptTerminal /\ p = Boot /\ {s, op[p].to} # {"SUCCEEDED"} -> Goto(p, "scan")
         [] OTHER -> Fail(p)
    /\ UNCHANGED <<disk, memory, seen>>

(* GetAttemptGeneration: a call of its own. *)
AttemptGeneration(p) ==
    /\ At(p, "attGen")
    /\ op' = [op EXCEPT ![p].at = "attWrite", ![p].gen = attempt[op[p].a].gen]
    /\ UNCHANGED <<disk, memory, seen>>

UpdateAttempt(p) ==
    LET a == op[p].a IN
    /\ At(p, "attWrite")
    /\ IF attempt[a].gen = op[p].gen
       THEN /\ attempt' = [attempt EXCEPT ![a] = [status |-> op[p].to, gen |-> op[p].gen + 1]]
            /\ Goto(p, AfterAttempt(p))
       ELSE Goto(p, "attRead") /\ UNCHANGED attempt
    /\ UNCHANGED <<run, result, journal, memory, seen>>

(* Mutant: a result that cannot be saved is only logged. *)
SaveFailedGoesOn(p) ==
    /\ "save_error" \in Events
    /\ At(p, "result")
    /\ Goto(p, "journal")
    /\ UNCHANGED <<disk, memory, seen>>

(* SaveInvokeJobResult fails: the call returns, the attempt stays terminal. *)
SaveFails(p) ==
    /\ "save_error" \in Events
    /\ At(p, "result")
    /\ Return(p)
    /\ UNCHANGED <<disk, memory, seen>>

(* finalizeFailed only saves a result when its tracker has a verified one. *)
SaveInvokeJobResult(p) ==
    LET a == op[p].a IN
    /\ At(p, "result")
    /\ result' = IF op[p].to = "SUCCEEDED" \/ tracker[a][op[p].trk].verified # None
                 THEN [a |-> a, status |-> op[p].to] ELSE result
    /\ Goto(p, "journal")
    /\ UNCHANGED <<run, attempt, journal, memory, seen>>

AppendJournalEvent(p) ==
    /\ At(p, "journal")
    /\ journal' = [journal EXCEPT ![op[p].a] = op[p].to]
    /\ Goto(p, IF p = Boot THEN "mark" ELSE "runRead")
    /\ UNCHANGED <<run, attempt, result, memory, seen>>

(* The terminal event is lost: the calls of a live daemon only log that,    *)
(* revokeLeaseAndFail returns an error if the journal could be opened.      *)
JournalFails(p) ==
    /\ "journal_error" \in Events
    /\ At(p, "journal")
    /\ IF p = Boot THEN Goto(p, "mark") \/ Fail(p) ELSE Goto(p, "runRead")
    /\ UNCHANGED <<disk, memory, seen>>

(* casRunTo: a terminal run is left alone. *)
ReadRun(p) ==
    /\ At(p, "runRead")
    /\ CASE run.status \in RunTerminal -> Goto(p, "mark")
         [] run.status \notin RunTerminal /\ op[p].to \in RunTransitions[run.status] ->
              Goto(p, "runGen")
         [] OTHER -> Fail(p)
    /\ UNCHANGED <<disk, memory, seen>>

RunGeneration(p) ==
    /\ At(p, "runGen")
    /\ op' = [op EXCEPT ![p].at = "runWrite", ![p].gen = run.gen]
    /\ UNCHANGED <<disk, memory, seen>>

UpdateRun(p) ==
    /\ At(p, "runWrite")
    /\ IF run.gen = op[p].gen
       THEN /\ run' = [status |-> op[p].to, gen |-> run.gen + 1]
            /\ Goto(p, "mark")
       ELSE Goto(p, "runRead") /\ UNCHANGED run
    /\ UNCHANGED <<attempt, result, journal, memory, seen>>

(* markTerminal, on the tracker the call holds, and markTerminalForRestart. *)
(* The last call of Reconcile is about the run alone.                       *)
MarkTerminal(p) ==
    LET a == op[p].a IN
    /\ At(p, "mark")
    /\ \/ /\ p # Boot
          /\ tracker' = [tracker EXCEPT ![a][op[p].trk].terminal = TRUE]
          /\ Return(p)
       \/ /\ p = Boot /\ a # None
          /\ tracker' = [tracker EXCEPT ![a] = <<[terminal |-> TRUE, verified |-> None]>>]
          /\ Goto(p, "scan")
       \/ /\ p = Boot /\ a = None
          /\ Goto(p, "end")
          /\ UNCHANGED tracker
    /\ UNCHANGED <<disk, launched, finished, booting, seen>>

ErrorOf(p) ==
    CASE p = Boot          -> "reconcile_error"
      [] p \in Launchers   -> "launch_error"
      [] OTHER             -> "store_error"

(* A call of the store, or of the control key's file, returns an error that *)
(* is no conflict.  updateLegacyRunStatus only logs it.                     *)
StoreFails(p) ==
    /\ ErrorOf(p) \in Events
    /\ \/ /\ At(p, "legacyGen") \/ At(p, "legacyWrite")
          /\ IF op[p].to = "RUNNING" THEN Goto(p, "list") ELSE Return(p)
       \/ /\ \E step \in {"list", "create", "establish", "attRead", "attGen", "attWrite",
                          "runRead", "runGen", "runWrite"} : At(p, step)
          /\ Fail(p)
    /\ UNCHANGED <<disk, memory, seen>>

-----------------------------------------------------------------------------
(* Restart. *)

Crash ==
    /\ "crash" \in Events
    /\ tracker' = [a \in Attempts |-> <<>>]
    /\ op' = [p \in Procs |-> None]
    /\ finished' = Launchers
    /\ booting' = TRUE
    /\ reconciled' = {}
    /\ UNCHANGED <<disk, launched, delivered>>

(* Mutant: attempts without a journal are not looked at. *)
AttemptsOfRunJournalled == {a \in Attempts : Exists(a) /\ journal[a] # None}

(* Reconcile's ListAttempts. *)
AttemptsOfRun == {a \in Attempts : Exists(a)}

(* supervisorReconcile: terminal runs are passed over; Reconcile lists the  *)
(* attempts.                                                                *)
Reconcile ==
    /\ booting
    /\ op[Boot] = None
    /\ IF run.status \in RunTerminal
       THEN booting' = FALSE /\ UNCHANGED op
       ELSE /\ op' = [op EXCEPT ![Boot] =
                  [at |-> "scan", a |-> None, to |-> "FAILED", gen |-> 0, trk |-> 0,
                   todo |-> AttemptsOfRun,
                   succeeded |-> \E a \in Attempts : Exists(a) /\ attempt[a].status = "SUCCEEDED"]]
            /\ UNCHANGED booting
    /\ UNCHANGED <<disk, tracker, launched, finished, seen>>

(* The workflows, runs or attempts cannot be listed: the daemon serves on.  *)
ReconcileUnlisted ==
    /\ "reconcile_error" \in Events
    /\ booting
    /\ op[Boot] = None
    /\ booting' = FALSE
    /\ UNCHANGED <<disk, tracker, op, launched, finished, seen>>

(* reconcileAttempt and reconcileSuccess: what an attempt that is not       *)
(* terminal is reconciled to; a result that cannot be read counts as none.  *)
JournalledOutcomes(a) ==
    IF journal[a] = "SUCCEEDED" /\ result = [a |-> a, status |-> "SUCCEEDED"]
    THEN {"SUCCEEDED"} \cup (IF "reconcile_error" \in Events THEN {"FAILED"} ELSE {})
    ELSE {"FAILED"}

ReconcileAttempt ==
    /\ At(Boot, "scan")
    /\ \E a \in op[Boot].todo : \E to \in JournalledOutcomes(a) :
          op' = [op EXCEPT ![Boot].a = a,
                           ![Boot].todo = @ \ {a},
                           ![Boot].to = IF Terminal(a) THEN "FAILED" ELSE to,
                           ![Boot].at = IF Terminal(a) THEN "mark" ELSE "attRead"]
    /\ UNCHANGED <<disk, memory, seen>>

(* The control journal of an attempt cannot be opened or read: the error    *)
(* ends Reconcile, is logged, and the attempt keeps its lease.              *)
ReconcileAttemptFails ==
    /\ "reconcile_error" \in Events
    /\ At(Boot, "scan")
    /\ \E a \in op[Boot].todo : ~Terminal(a)
    /\ Goto(Boot, "end")
    /\ UNCHANGED <<disk, memory, seen>>

(* Unless an attempt of the list had SUCCEEDED, the run becomes FAILED. *)
ReconcileRun ==
    /\ At(Boot, "scan")
    /\ op[Boot].todo = {}
    /\ op' = [op EXCEPT ![Boot].a = None, ![Boot].to = "FAILED",
                        ![Boot].at = IF op[Boot].succeeded THEN "end" ELSE "runRead"]
    /\ UNCHANGED <<disk, memory, seen>>

(* Serve follows, whether Reconcile failed or not. *)
ReconcileEnds ==
    /\ At(Boot, "end")
    /\ Return(Boot)
    /\ booting' = FALSE
    /\ reconciled' = {a \in Attempts : Exists(a)} \ op[Boot].todo
    /\ UNCHANGED <<disk, tracker, launched, finished, delivered>>

-----------------------------------------------------------------------------
Step(p) ==
    \/ LegacyGeneration(p) \/ LegacyWrite(p)
    \/ ListAttempts(p) \/ CreateAttempt(p) \/ EstablishTracker(p)
    \/ ReadAttempt(p) \/ AttemptGeneration(p) \/ UpdateAttempt(p)
    \/ SaveInvokeJobResult(p) \/ SaveFails(p)
    \/ AppendJournalEvent(p) \/ JournalFails(p)
    \/ ReadRun(p) \/ RunGeneration(p) \/ UpdateRun(p) \/ MarkTerminal(p)
    \/ StoreFails(p)

Start ==
    \/ Reconcile \/ ReconcileUnlisted
    \/ ReconcileAttempt \/ ReconcileAttemptFails
    \/ ReconcileRun \/ ReconcileEnds

Next ==
    \/ \E p \in Procs : Step(p)
    \/ Start
    \/ \E p \in Launchers : 
          \/ StartDurableRun(p) \/ LaunchFails(p)
          \/ \E outcome \in {"SUCCEEDED", "FAILED"} : FinalizeRun(p, outcome)
    \/ \E p \in Handlers, a \in Attempts :
          \/ \E outcome \in Outcomes : HandleResult(p, a, outcome)
          \/ Cancel(p, a)
          \/ Finalize(p, a)
    \/ Crash

Spec == Init /\ [][Next]_vars

-----------------------------------------------------------------------------
(* Properties. *)

(* "Success is finalized ONLY from a verified InvokeJobResult event" (doc.go): *)
(* across cancels, container exits, restarts and lost writes, an attempt is    *)
(* SUCCEEDED only if HandleResult was given a verified SUCCEEDED result of it. *)
SuccessNeedsVerifiedResult ==
    \A a \in Attempts :
        Exists(a) /\ attempt[a].status = "SUCCEEDED" => a \in delivered

(* "a succeeded run with no retrievable result is invalid" (finalizeSuccess):  *)
(* whichever write a crash or an error cut short, when the supervisor makes    *)
(* the run SUCCEEDED, in a live call or in Reconcile, the stored result and    *)
(* the attempt it is of have SUCCEEDED before.  It holds with one caller of    *)
(* HandleResult, Cancel and Finalize at a time: a second one may overwrite the *)
(* attempt, or the result, before the first has come to the run.               *)
SuccessIsConsistent ==
    [][\A p \in Procs :
          (At(p, "runWrite") /\ op[p].to = "SUCCEEDED" /\ run' # run) =>
              /\ result = [a |-> op[p].a, status |-> "SUCCEEDED"]
              /\ attempt[op[p].a].status = "SUCCEEDED"]_run

(* The same of the run, however many callers race and whichever call of the    *)
(* store fails: when the supervisor, in a live call or in Reconcile, makes the *)
(* run SUCCEEDED, HandleResult had been given a verified SUCCEEDED result of   *)
(* the attempt it acts for.                                                    *)
RunSuccessNeedsVerifiedResult ==
    [][\A p \in Procs :
          (At(p, "runWrite") /\ op[p].to = "SUCCEEDED" /\ run' # run) =>
              op[p].a \in delivered]_run

(* Once the daemon serves again, no attempt that Reconcile got through without *)
(* an error is left with an active lease: it revokes the ambiguous ones,       *)
(* whatever the journal, the result store and the writes of a former Reconcile *)
(* left behind.  An error is only logged, ends Reconcile and leaves the        *)
(* attempt it is about, and those not yet looked at, as they were.             *)
NoActiveLeaseAfterRestart ==
    ~booting => \A a \in reconciled : Terminal(a)

(* "Finalization, cancellation, and cleanup are idempotent under races via CAS *)
(* generations" (doc.go), and casAttemptTo: "If it is in a DIFFERENT terminal  *)
(* state, it returns ErrAlreadyTerminal".  A terminal attempt would keep its   *)
(* outcome.                                                                    *)
TerminalAttemptIsFinal ==
    [][\A a \in Attempts : Terminal(a) => attempt'[a].status = attempt[a].status]_attempt

=============================================================================

-------------------------- MODULE SupervisorProofs --------------------------
(***************************************************************************)
(* For any number of attempts, launchers and callers, over any number of   *)
(* restarts and failed calls: an attempt is SUCCEEDED, and the supervisor  *)
(* makes the run SUCCEEDED, only from a verified result, and what          *)
(* Reconcile got through without an error has no active lease.             *)
(*                                                                         *)
(* While the daemon boots nobody else runs (Quiet); every call knows which *)
(* attempt, tracker and outcome it is about (CallOK, BootOK), and success  *)
(* has been delivered wherever it is recorded (Sound).                     *)
(***************************************************************************)
EXTENDS Supervisor, TLAPS

AttemptRecord == [status : AttemptStatus, gen : Nat]

(* Success is recorded only where it was delivered. *)
Sound ==
    /\ \A a \in Attempts : attempt[a] # None =>
          /\ attempt[a].status \in {"RUNNING"} \cup Outcomes
          /\ attempt[a].status = "SUCCEEDED" => a \in delivered
    /\ \A a \in Attempts : journal[a] = "SUCCEEDED" => a \in delivered
    /\ \A a \in Attempts : tracker[a] # <<>> => attempt[a] # None
    /\ \A a \in Attempts : \A n \in 1..Len(tracker[a]) :
          tracker[a][n].verified = "SUCCEEDED" => a \in delivered

(* The start-up code and the rest of the daemon do not meet. *)
Quiet ==
    /\ booting => finished = Launchers /\ \A p \in Launchers \cup Handlers : op[p] = None
    /\ ~booting => op[Boot] = None

LaunchOK(o, att) ==
    /\ o.at \in {"legacyGen", "legacyWrite", "list", "create", "establish"}
    /\ o.at = "establish" => o.a \in Attempts /\ att[o.a] # None

(* A call of HandleResult, Cancel or Finalize. *)
CallOK(o, att, trk, dlv) ==
    /\ o.at \in {"attRead", "attGen", "attWrite", "result", "journal", "runRead", "runGen",
                 "runWrite", "mark"}
    /\ o.a \in Attempts /\ att[o.a] # None
    /\ o.to \in Outcomes
    /\ o.trk \in 1..Len(trk[o.a])
    /\ o.to = "SUCCEEDED" => o.a \in dlv

IsTerminal(r) == r # None /\ r.status \in AttemptTerminal

(* Reconcile: what it is done with is terminal. *)
BootOK(o, att, dlv) ==
    /\ o.at \in {"attRead", "attGen", "attWrite", "journal", "runRead", "runGen", "runWrite",
                 "mark", "scan", "end"}
    /\ o.at \in {"attRead", "attGen", "attWrite", "journal"} => o.a # None
    /\ o.a # None => o.a \in Attempts /\ att[o.a] # None
    /\ \A a \in o.todo : att[a] # None
    /\ o.to \in {"SUCCEEDED", "FAILED"}
    /\ o.to = "SUCCEEDED" => o.a # None /\ o.a \in dlv
    /\ \A a \in Attempts \ o.todo : att[a] # None =>
          \/ IsTerminal(att[a])
          \/ a = o.a /\ o.at \in {"attRead", "attGen", "attWrite"}

Inv ==
    /\ TypeOK /\ Sound /\ Quiet
    /\ \A p \in Launchers : op[p] # None => LaunchOK(op[p], attempt)
    /\ \A p \in Handlers : op[p] # None => CallOK(op[p], attempt, tracker, delivered)
    /\ op[Boot] # None => BootOK(op[Boot], attempt, delivered)
    /\ \A a \in reconciled : IsTerminal(attempt[a])

-----------------------------------------------------------------------------
(* Steps of the daemon only add to what the calls know. *)

AttGrows(att, att2) ==
    \A a \in Attempts : /\ att[a] # None => att2[a] # None
                        /\ IsTerminal(att[a]) => IsTerminal(att2[a])

TrkGrows(trk, trk2) == \A a \in Attempts : Len(trk[a]) <= Len(trk2[a])

(* TypeOK without the calls. *)
RestOK ==
    /\ run \in [status : RunStatus, gen : Nat]
    /\ attempt \in [Attempts -> AttemptRecord \cup {None}]
    /\ result \in [a : Attempts, status : Outcomes] \cup {None}
    /\ journal \in [Attempts -> Outcomes \cup {None}]
    /\ tracker \in [Attempts -> Seq(Tracker)]
    /\ launched \subseteq Launchers
    /\ finished \subseteq Launchers
    /\ booting \in BOOLEAN
    /\ delivered \subseteq Attempts
    /\ reconciled \subseteq Attempts

Grows ==
    /\ RestOK' /\ Sound'
    /\ AttGrows(attempt, attempt') /\ TrkGrows(tracker, tracker')
    /\ delivered \subseteq delivered'
    /\ UNCHANGED <<booting, reconciled>>

(* Who is in a call, and what is known of it. *)
LEMMA InCall ==
    ASSUME Inv, NEW p \in Procs, op[p] # None
    PROVE  /\ op[p] \in Op
           /\ \/ p \in Launchers /\ ~booting /\ LaunchOK(op[p], attempt)
              \/ p \in Handlers /\ ~booting /\ CallOK(op[p], attempt, tracker, delivered)
              \/ p = Boot /\ booting /\ BootOK(op[p], attempt, delivered)
<1>1. op[p] \in Op
      BY DEF Inv, TypeOK
<1>2. CASE p \in Launchers
  <2>1. ~booting
        BY <1>2, Zenon DEF Inv, Quiet
  <2>2. LaunchOK(op[p], attempt)
        BY <1>2 DEF Inv
  <2> QED
      BY <1>1, <1>2, <2>1, <2>2
<1>3. CASE p \in Handlers
  <2>1. ~booting
        BY <1>3, Zenon DEF Inv, Quiet
  <2>2. CallOK(op[p], attempt, tracker, delivered)
        BY <1>3 DEF Inv
  <2> QED
      BY <1>1, <1>3, <2>1, <2>2
<1>4. CASE p = Boot
  <2>1. booting
        BY <1>4, Zenon DEF Inv, Quiet
  <2>2. BootOK(op[p], attempt, delivered)
        BY <1>4 DEF Inv
  <2> QED
      BY <1>1, <1>4, <2>1, <2>2
<1> QED
    BY <1>1, <1>2, <1>3, <1>4 DEF Procs

(* The types, taken apart. *)
LEMMA Types ==
    ASSUME Inv
    PROVE  RestOK /\ Sound /\ op \in [Procs -> Op \cup {None}]
BY DEF Inv, TypeOK, RestOK, AttemptRecord

(* A record stays in what was reported reconciled. *)
LEMMA ReconciledStays ==
    ASSUME Inv, AttGrows(attempt, attempt'), UNCHANGED reconciled
    PROVE  \A a \in reconciled' : IsTerminal(attempt'[a])
BY Types DEF Inv, AttGrows, RestOK

(* A step of a launcher or of a handler. *)
LEMMA DaemonStep ==
    ASSUME Inv, ~booting, Grows, NEW p \in Launchers \cup Handlers, NEW o \in Op \cup {None},
           op' = [op EXCEPT ![p] = o],
           p \in Launchers /\ o # None => LaunchOK(o, attempt'),
           p \in Handlers /\ o # None => CallOK(o, attempt', tracker', delivered')
    PROVE  Inv'
<1> USE SupervisorAssumption
<1>1. op \in [Procs -> Op \cup {None}] /\ p \in Procs
      BY Types DEF Procs
<1>2. op' \in [Procs -> Op \cup {None}] /\ \A q \in Procs : op'[q] = IF q = p THEN o ELSE op[q]
      BY <1>1
<1>3. TypeOK'
      BY <1>2 DEF Grows, RestOK, TypeOK, AttemptRecord
<1>4. ~booting' /\ op[Boot] = None /\ op'[Boot] = None
  <2>1. Boot # p /\ Boot \in Procs
        BY DEF Procs
  <2> QED
      BY <1>2, <2>1 DEF Grows, Inv, Quiet
<1>5. Quiet'
      BY <1>4 DEF Quiet
<1>6. ASSUME NEW q \in Launchers, op'[q] # None PROVE LaunchOK(op'[q], attempt')
  <2>1. CASE q = p
        BY <1>2, <1>6, <2>1 DEF Procs
  <2>2. CASE q # p
    <3>1. op'[q] = op[q] /\ LaunchOK(op[q], attempt)
          BY <1>2, <1>6, <2>2 DEF Procs, Inv
    <3> QED
        BY <3>1 DEF LaunchOK, Grows, AttGrows
  <2> QED
      BY <2>1, <2>2
<1>7. ASSUME NEW q \in Handlers, op'[q] # None PROVE CallOK(op'[q], attempt', tracker', delivered')
  <2>1. CASE q = p
        BY <1>2, <1>7, <2>1 DEF Procs
  <2>2. CASE q # p
    <3>1. op'[q] = op[q] /\ CallOK(op[q], attempt, tracker, delivered)
          BY <1>2, <1>7, <2>2 DEF Procs, Inv
    <3>2. op[q].trk \in 1..Len(tracker'[op[q].a])
      <4>1. /\ op[q].a \in Attempts /\ op[q].trk \in 1..Len(tracker[op[q].a])
            /\ Len(tracker[op[q].a]) <= Len(tracker'[op[q].a])
            BY <3>1 DEF CallOK, Grows, TrkGrows
      <4>2. Len(tracker[op[q].a]) \in Nat /\ Len(tracker'[op[q].a]) \in Nat
            BY <4>1, Types DEF RestOK, Grows
      <4> QED
          BY <4>1, <4>2, SMTT(30)
    <3>3. op[q].a \in Attempts /\ attempt'[op[q].a] # None
          BY <3>1 DEF CallOK, Grows, AttGrows
    <3>4. op[q].to = "SUCCEEDED" => op[q].a \in delivered'
          BY <3>1 DEF CallOK, Grows
    <3> QED
        BY <3>1, <3>2, <3>3, <3>4 DEF CallOK
  <2> QED
      BY <2>1, <2>2
<1>8. \A a \in reconciled' : IsTerminal(attempt'[a])
      BY ReconciledStays DEF Grows
<1> QED
    BY <1>3, <1>4, <1>5, <1>6, <1>7, <1>8 DEF Inv, Grows

(* A step of the start-up code. *)
LEMMA BootStep ==
    ASSUME Inv, booting, RestOK', Sound', NEW o \in Op \cup {None}, op' = [op EXCEPT ![Boot] = o],
           UNCHANGED finished, booting' \/ o = None, o # None => BootOK(o, attempt', delivered'),
           \A a \in reconciled' : IsTerminal(attempt'[a])
    PROVE  Inv'
<1> USE SupervisorAssumption
<1>1. op \in [Procs -> Op \cup {None}] /\ Boot \in Procs
      BY Types DEF Procs
<1>2. op' \in [Procs -> Op \cup {None}] /\ \A q \in Procs : op'[q] = IF q = Boot THEN o ELSE op[q]
      BY <1>1
<1>3. TypeOK'
      BY <1>2 DEF RestOK, TypeOK, AttemptRecord
<1>4. \A q \in Launchers \cup Handlers : op'[q] = None
      BY <1>2 DEF Inv, Quiet, Procs
<1>5. Quiet'
      BY <1>1, <1>2, <1>4 DEF Inv, Quiet
<1> QED
    BY <1>1, <1>2, <1>3, <1>4, <1>5 DEF Inv

(* A call takes its next step. *)
LEMMA SetAt ==
    ASSUME NEW o \in Op, NEW at \in Steps
    PROVE  LET n == [o EXCEPT !.at = at]
           IN  /\ n \in Op /\ n.at = at /\ n.a = o.a /\ n.to = o.to /\ n.gen = o.gen
               /\ n.trk = o.trk /\ n.todo = o.todo
BY DEF Op

(* A call reads a generation. *)
LEMMA SetGen ==
    ASSUME NEW o \in Op, NEW gen \in Nat
    PROVE  LET n == [o EXCEPT !.gen = gen]
           IN  /\ n \in Op /\ n.at = o.at /\ n.a = o.a /\ n.to = o.to /\ n.gen = gen
               /\ n.trk = o.trk /\ n.todo = o.todo
BY DEF Op

(* A call settles on an attempt. *)
LEMMA SetAttempt ==
    ASSUME NEW o \in Op, NEW a \in Attempts \cup {None}
    PROVE  LET n == [o EXCEPT !.a = a]
           IN  /\ n \in Op /\ n.at = o.at /\ n.a = a /\ n.to = o.to /\ n.gen = o.gen
               /\ n.trk = o.trk /\ n.todo = o.todo
BY DEF Op

(* Nothing but the calls changes. *)
LEMMA Still ==
    ASSUME Inv, UNCHANGED <<run, attempt, result, journal, tracker, booting, delivered, reconciled>>,
           launched' \subseteq Launchers, finished' \subseteq Launchers
    PROVE  Grows
<1>1. RestOK'
      BY Types DEF RestOK
<1>2. Sound'
      BY Types DEF Sound
<1>3. AttGrows(attempt, attempt') /\ TrkGrows(tracker, tracker') /\ delivered \subseteq delivered'
  <2>1. \A a \in Attempts : Len(tracker[a]) \in Nat
        BY Types DEF RestOK
  <2> QED
      BY <2>1 DEF AttGrows, TrkGrows
<1> QED
    BY <1>1, <1>2, <1>3 DEF Grows

(* The run is written. *)
LEMMA RunMoves ==
    ASSUME Inv, UNCHANGED <<attempt, result, journal, tracker, launched, finished, booting, delivered,
                            reconciled>>,
           run' \in [status : RunStatus, gen : Nat]
    PROVE  Grows
<1>1. RestOK'
      BY Types DEF RestOK
<1>2. Sound'
      BY Types DEF Sound
<1>3. AttGrows(attempt, attempt') /\ TrkGrows(tracker, tracker') /\ delivered \subseteq delivered'
  <2>1. \A a \in Attempts : Len(tracker[a]) \in Nat
        BY Types DEF RestOK
  <2> QED
      BY <2>1 DEF AttGrows, TrkGrows
<1> QED
    BY <1>1, <1>2, <1>3 DEF Grows

(* An attempt is written. *)
LEMMA AttemptMoves ==
    ASSUME Inv, NEW a \in Attempts, NEW r \in AttemptRecord, attempt' = [attempt EXCEPT ![a] = r],
           UNCHANGED <<run, result, journal, tracker, launched, finished, booting, delivered, reconciled>>,
           r.status \in {"RUNNING"} \cup Outcomes,
           r.status = "SUCCEEDED" => a \in delivered,
           IsTerminal(attempt[a]) => r.status \in AttemptTerminal
    PROVE  Grows /\ attempt'[a] = r
<1> USE SupervisorAssumption
<1>1. attempt \in [Attempts -> AttemptRecord \cup {None}]
      BY Types DEF RestOK
<1>2. \A b \in Attempts : attempt'[b] = IF b = a THEN r ELSE attempt[b]
      BY <1>1
<1>3. attempt' \in [Attempts -> AttemptRecord \cup {None}]
      BY <1>1
<1>4. RestOK'
      BY <1>3, Types DEF RestOK
<1>5. r # None
      BY DEF AttemptRecord
<1>6. Sound'
      BY <1>2, <1>5, Types DEF Sound
<1>7. AttGrows(attempt, attempt')
      BY <1>2, <1>5 DEF AttGrows, IsTerminal
<1>8. TrkGrows(tracker, tracker') /\ delivered \subseteq delivered'
  <2>1. \A b \in Attempts : Len(tracker[b]) \in Nat
        BY Types DEF RestOK
  <2> QED
      BY <2>1 DEF TrkGrows
<1> QED
    BY <1>2, <1>4, <1>6, <1>7, <1>8 DEF Grows

(* A tracker is made or written, a result delivered. *)
LEMMA TrackerMoves ==
    ASSUME Inv, NEW a \in Attempts, NEW q \in Seq(Tracker), tracker' = [tracker EXCEPT ![a] = q],
           UNCHANGED <<run, attempt, result, journal, launched, finished, booting, reconciled>>,
           Len(tracker[a]) <= Len(q), attempt[a] # None,
           delivered \subseteq delivered', delivered' \subseteq Attempts,
           \A n \in 1..Len(q) : q[n].verified = "SUCCEEDED" => a \in delivered'
    PROVE  Grows /\ tracker'[a] = q
<1>1. tracker \in [Attempts -> Seq(Tracker)]
      BY Types DEF RestOK
<1>2. \A b \in Attempts : tracker'[b] = IF b = a THEN q ELSE tracker[b]
      BY <1>1
<1>3. tracker' \in [Attempts -> Seq(Tracker)]
      BY <1>1
<1>4. RestOK'
      BY <1>3, Types DEF RestOK
<1>5. Sound'
  <2>1. \A b \in Attempts : tracker'[b] # <<>> => attempt'[b] # None
        BY <1>2, Types DEF Sound
  <2>2. \A b \in Attempts : attempt'[b] # None =>
          /\ attempt'[b].status \in {"RUNNING"} \cup Outcomes
          /\ attempt'[b].status = "SUCCEEDED" => b \in delivered'
        BY Types DEF Sound
  <2>3. \A b \in Attempts : journal'[b] = "SUCCEEDED" => b \in delivered'
        BY Types DEF Sound
  <2>4. ASSUME NEW b \in Attempts, NEW n \in 1..Len(tracker'[b]), tracker'[b][n].verified = "SUCCEEDED"
        PROVE  b \in delivered'
    <3>1. CASE b = a
          BY <1>2, <2>4, <3>1
    <3>2. CASE b # a
      <4>1. tracker'[b] = tracker[b]
            BY <1>2, <3>2
      <4> QED
          BY <2>4, <4>1, Types DEF Sound
    <3> QED
        BY <3>1, <3>2
  <2> QED
      BY <2>1, <2>2, <2>3, <2>4 DEF Sound
<1>6. AttGrows(attempt, attempt')
      BY DEF AttGrows
<1>7. TrkGrows(tracker, tracker')
  <2>1. \A b \in Attempts : Len(tracker[b]) \in Nat
        BY <1>1
  <2> QED
      BY <1>2, <2>1 DEF TrkGrows
<1> QED
    BY <1>2, <1>4, <1>5, <1>6, <1>7 DEF Grows

-----------------------------------------------------------------------------
(* The launchers. *)

(* A launcher begins to mark the run. *)
LEMMA LauncherCalls ==
    ASSUME Inv, NEW p \in Launchers, NEW to \in RunStatus, p \notin finished,
           Call(p, "legacyGen", None, to), launched' \subseteq Launchers, finished' \subseteq Launchers,
           UNCHANGED <<disk, tracker, booting, seen>>
    PROVE  Inv'
<1> DEFINE o == [at |-> "legacyGen", a |-> None, to |-> to, gen |-> 0, trk |-> 0, todo |-> {},
                 succeeded |-> FALSE]
<1>1. op' = [op EXCEPT ![p] = o]
      BY DEF Call
<1>2. o \in Op /\ o.at = "legacyGen"
      BY DEF Op, Steps
<1> HIDE DEF o
<1>3. LaunchOK(o, attempt')
      BY <1>2 DEF LaunchOK
<1>4. ~booting
      BY Zenon DEF Inv, Quiet
<1>5. Grows
      BY Still DEF disk, seen
<1> QED
    BY <1>1, <1>2, <1>3, <1>4, <1>5, DaemonStep, SupervisorAssumption

(* startDurableRun and finalizeRun. *)
LEMMA LaunchSteps ==
    ASSUME Inv, NEW p \in Launchers,
           \/ StartDurableRun(p) \/ LaunchFails(p)
           \/ \E outcome \in {"SUCCEEDED", "FAILED"} : FinalizeRun(p, outcome)
    PROVE  Inv'
<1>1. launched \subseteq Launchers /\ finished \subseteq Launchers
      BY Types DEF RestOK
<1>2. {"RUNNING", "FAILED", "SUCCEEDED"} \subseteq RunStatus
      BY DEF RunStatus, RunTerminal
<1>3. CASE StartDurableRun(p)
      BY <1>1, <1>2, <1>3, LauncherCalls DEF StartDurableRun
<1>4. CASE LaunchFails(p)
      BY <1>1, <1>2, <1>4, LauncherCalls DEF LaunchFails
<1>5. ASSUME NEW outcome \in {"SUCCEEDED", "FAILED"}, FinalizeRun(p, outcome) PROVE Inv'
      BY <1>1, <1>2, <1>5, LauncherCalls DEF FinalizeRun
<1> QED
    BY <1>3, <1>4, <1>5

(* A launcher in its call. *)
LEMMA Launching ==
    ASSUME Inv, NEW p \in Procs, op[p] # None,
           op[p].at \in {"legacyGen", "legacyWrite", "list", "create", "establish"}
    PROVE  p \in Launchers /\ ~booting /\ LaunchOK(op[p], attempt) /\ op[p] \in Op
<1>1. ~(p \in Handlers /\ CallOK(op[p], attempt, tracker, delivered))
      BY DEF CallOK
<1>2. ~(p = Boot /\ BootOK(op[p], attempt, delivered))
      BY DEF BootOK
<1> QED
    BY <1>1, <1>2, InCall, Zenon

(* A launcher goes on. *)
LEMMA LauncherGoes ==
    ASSUME Inv, NEW p \in Launchers, op[p] # None, Grows, op[p] \in Op, ~booting,
           NEW at \in {"legacyGen", "legacyWrite", "list", "create"}, Goto(p, at)
    PROVE  Inv'
<1> DEFINE o == [op[p] EXCEPT !.at = at]
<1>1. op' = [op EXCEPT ![p] = o]
      BY DEF Goto
<1>2. at \in Steps
      BY DEF Steps
<1>3. o \in Op /\ o.at = at
      BY <1>2, SetAt
<1> HIDE DEF o
<1>4. LaunchOK(o, attempt')
      BY <1>3 DEF LaunchOK
<1> QED
    BY <1>1, <1>3, <1>4, DaemonStep, SupervisorAssumption

(* A call of the daemon returns. *)
LEMMA DaemonReturns ==
    ASSUME Inv, NEW p \in Launchers \cup Handlers, Grows, ~booting, Return(p)
    PROVE  Inv'
BY DaemonStep DEF Return

(* updateLegacyRunStatus. *)
LEMMA LegacySteps ==
    ASSUME Inv, NEW p \in Procs, LegacyGeneration(p) \/ LegacyWrite(p)
    PROVE  Inv'
<1>1. op[p] # None /\ op[p].at \in {"legacyGen", "legacyWrite"}
      BY DEF LegacyGeneration, LegacyWrite, At
<1>2. p \in Launchers /\ ~booting /\ op[p] \in Op
      BY <1>1, Launching
<1>3. CASE LegacyGeneration(p)
  <2> DEFINE o1 == [op[p] EXCEPT !.at = "legacyWrite"]
             o == [o1 EXCEPT !.gen = run.gen]
  <2>1. op' = [op EXCEPT ![p] = o]
    <3>1. p \in DOMAIN op
          BY Types
    <3> QED
        BY <1>3, <3>1 DEF LegacyGeneration
  <2>2. run.gen \in Nat
        BY Types DEF RestOK
  <2>3. o1 \in Op /\ o1.at = "legacyWrite"
        BY <1>2, SetAt, ZenonT(40) DEF Steps
  <2> HIDE DEF o1
  <2>4. o \in Op /\ o.at = "legacyWrite"
        BY <2>2, <2>3, SetGen
  <2> HIDE DEF o
  <2>5. LaunchOK(o, attempt')
        BY <2>4 DEF LaunchOK
  <2>6. Grows
        BY <1>3, Still, Types DEF LegacyGeneration, disk, memory, seen, RestOK
  <2> QED
      BY <1>2, <2>1, <2>4, <2>5, <2>6, DaemonStep, SupervisorAssumption
<1>4. CASE LegacyWrite(p)
  <2>1. UNCHANGED <<attempt, result, journal, tracker, launched, finished, booting, delivered, reconciled>>
        BY <1>4 DEF LegacyWrite, memory, seen
  <2>2. run' \in [status : RunStatus, gen : Nat]
    <3>1. run \in [status : RunStatus, gen : Nat]
          BY Types DEF RestOK
    <3>2. op[p].to \in RunStatus /\ run.gen + 1 \in Nat
          BY <1>2, <3>1 DEF Op
    <3> QED
        BY <1>4, <3>1, <3>2 DEF LegacyWrite
  <2>3. Grows
        BY <2>1, <2>2, RunMoves
  <2>4. \/ Goto(p, "list") \/ Goto(p, "legacyGen") \/ Return(p)
        BY <1>4 DEF LegacyWrite
  <2> QED
      BY <1>1, <1>2, <2>3, <2>4, LauncherGoes, DaemonReturns
<1> QED
    BY <1>3, <1>4

(* ClaimForRun takes an attempt over, or decides to create one. *)
LEMMA ListStep ==
    ASSUME Inv, NEW p \in Procs, ListAttempts(p)
    PROVE  Inv'
<1>1. op[p] # None /\ op[p].at = "list"
      BY DEF ListAttempts, At
<1>2. p \in Launchers /\ ~booting /\ op[p] \in Op
      BY <1>1, Launching
<1>3. Grows
      BY Still, Types DEF ListAttempts, disk, memory, seen, RestOK
<1>4. CASE Goto(p, "create")
      BY <1>1, <1>2, <1>3, <1>4, LauncherGoes
<1>5. ASSUME NEW a \in Attempts, attempt[a] # None,
             op' = [op EXCEPT ![p].at = "establish", ![p].a = a]
      PROVE  Inv'
  <2> DEFINE o1 == [op[p] EXCEPT !.at = "establish"]
             o == [o1 EXCEPT !.a = a]
  <2>1. op' = [op EXCEPT ![p] = o]
    <3>1. p \in DOMAIN op
          BY Types
    <3> QED
        BY <1>5, <3>1
  <2>2. o1 \in Op /\ o1.at = "establish"
        BY <1>2, SetAt DEF Steps
  <2> HIDE DEF o1
  <2>3. o \in Op /\ o.at = "establish" /\ o.a = a
        BY <2>2, SetAttempt
  <2> HIDE DEF o
  <2>4. LaunchOK(o, attempt')
        BY <1>3, <1>5, <2>3 DEF LaunchOK, Grows, AttGrows
  <2> QED
      BY <1>2, <1>3, <2>1, <2>3, <2>4, DaemonStep, SupervisorAssumption
<1> QED
    BY <1>4, <1>5 DEF ListAttempts, Exists

(* A new attempt. *)
LEMMA CreateStep ==
    ASSUME Inv, NEW p \in Procs, CreateAttempt(p)
    PROVE  Inv'
<1> USE SupervisorAssumption
<1>1. op[p] # None /\ op[p].at = "create"
      BY DEF CreateAttempt, At
<1>2. p \in Launchers /\ ~booting /\ op[p] \in Op
      BY <1>1, Launching
<1>3. PICK a \in Attempts : /\ attempt[a] = None
                            /\ attempt' = [attempt EXCEPT ![a] = [status |-> "RUNNING", gen |-> 1]]
                            /\ op' = [op EXCEPT ![p].at = "establish", ![p].a = a]
      BY DEF CreateAttempt, Exists
<1> DEFINE r == [status |-> "RUNNING", gen |-> 1]
<1>4. r \in AttemptRecord /\ r.status = "RUNNING" /\ r # None
      BY DEF AttemptRecord, AttemptStatus
<1> HIDE DEF r
<1>5. UNCHANGED <<run, result, journal, tracker, launched, finished, booting, delivered, reconciled>>
      BY DEF CreateAttempt, memory, seen
<1>6. ~IsTerminal(attempt[a])
      BY <1>3 DEF IsTerminal
<1>7. Grows /\ attempt'[a] = r
      BY <1>3, <1>4, <1>5, <1>6, AttemptMoves DEF r
<1> DEFINE o1 == [op[p] EXCEPT !.at = "establish"]
           o == [o1 EXCEPT !.a = a]
<1>8. op' = [op EXCEPT ![p] = o]
  <2>1. p \in DOMAIN op
        BY Types
  <2> QED
      BY <1>3, <2>1
<1>9. o1 \in Op /\ o1.at = "establish"
      BY <1>2, SetAt DEF Steps
<1> HIDE DEF o1
<1>10. o \in Op /\ o.at = "establish" /\ o.a = a
       BY <1>9, SetAttempt
<1> HIDE DEF o
<1>11. LaunchOK(o, attempt')
       BY <1>4, <1>7, <1>10 DEF LaunchOK
<1> QED
    BY <1>2, <1>7, <1>8, <1>10, <1>11, DaemonStep

(* establishTracker. *)
LEMMA EstablishStep ==
    ASSUME Inv, NEW p \in Procs, EstablishTracker(p)
    PROVE  Inv'
<1> DEFINE a == op[p].a
           fresh == [terminal |-> FALSE, verified |-> None]
           q == Append(tracker[a], fresh)
<1>1. op[p] # None /\ op[p].at = "establish"
      BY DEF EstablishTracker, At
<1>2. p \in Launchers /\ ~booting /\ LaunchOK(op[p], attempt)
      BY <1>1, Launching
<1>3. a \in Attempts /\ attempt[a] # None
      BY <1>1, <1>2 DEF LaunchOK
<1>4. fresh \in Tracker /\ fresh.verified = None
      BY DEF Tracker
<1>5. tracker' = [tracker EXCEPT ![a] = q]
      BY DEF EstablishTracker
<1>6. UNCHANGED <<run, attempt, result, journal, launched, finished, booting, delivered, reconciled>>
      BY DEF EstablishTracker, disk, seen
<1> HIDE DEF fresh
<1>7. tracker[a] \in Seq(Tracker) /\ Len(tracker[a]) \in Nat
      BY <1>3, Types DEF RestOK
<1>8. /\ q \in Seq(Tracker) /\ Len(tracker[a]) <= Len(q)
      /\ \A n \in 1..Len(q) : q[n] = fresh \/ (n \in 1..Len(tracker[a]) /\ q[n] = tracker[a][n])
      BY <1>4, <1>7
<1> HIDE DEF q
<1>9. \A n \in 1..Len(q) : q[n].verified = "SUCCEEDED" => a \in delivered'
      BY <1>3, <1>4, <1>6, <1>8, Types, SupervisorAssumption DEF Sound, Outcomes
<1>10. delivered \subseteq delivered' /\ delivered' \subseteq Attempts
       BY <1>6, Types DEF RestOK
<1>11. Grows
       BY <1>3, <1>5, <1>6, <1>8, <1>9, <1>10, TrackerMoves
<1>12. Return(p)
       BY DEF EstablishTracker
<1> QED
    BY <1>2, <1>11, <1>12, DaemonReturns

-----------------------------------------------------------------------------
(* HandleResult, Cancel and Finalize. *)

CallSteps == {"attRead", "attGen", "attWrite", "result", "journal", "runRead", "runGen", "runWrite", "mark"}

(* A call begins. *)
LEMMA CallBegins ==
    ASSUME Inv, ~booting, NEW p \in Handlers, NEW a \in Attempts, tracker[a] # <<>>, NEW to \in Outcomes,
           Call(p, "attRead", a, to), Grows, to = "SUCCEEDED" => a \in delivered'
    PROVE  Inv'
<1> USE SupervisorAssumption
<1> DEFINE n == Len(tracker[a])
           o == [at |-> "attRead", a |-> a, to |-> to, gen |-> 0, trk |-> n, todo |-> {},
                 succeeded |-> FALSE]
<1>1. op' = [op EXCEPT ![p] = o]
      BY DEF Call
<1>2. tracker[a] \in Seq(Tracker) /\ tracker'[a] \in Seq(Tracker) /\ Len(tracker[a]) <= Len(tracker'[a])
      BY Types DEF RestOK, Grows, TrkGrows
<1>3. n \in Nat /\ n \in 1..Len(tracker'[a])
      BY <1>2
<1> HIDE DEF n
<1>4. to \in RunStatus
      BY DEF Outcomes, RunStatus, RunTerminal
<1>5. o \in Op /\ o.at = "attRead" /\ o.a = a /\ o.to = to /\ o.trk = n
      BY <1>3, <1>4 DEF Op, Steps
<1> HIDE DEF o
<1>6. attempt[a] # None
      BY Types DEF Sound
<1>7. attempt'[a] # None
      BY <1>6 DEF Grows, AttGrows
<1>8. CallOK(o, attempt', tracker', delivered')
      BY <1>3, <1>5, <1>7 DEF CallOK
<1> QED
    BY <1>1, <1>5, <1>8, DaemonStep

(* The verified result of the tracker in the map was delivered. *)
LEMMA Verified ==
    ASSUME Inv, NEW a \in Attempts, tracker[a] # <<>>
    PROVE  /\ Len(tracker[a]) \in 1..Len(tracker[a]) /\ InMap(a) \in Tracker
           /\ InMap(a).verified = "SUCCEEDED" => a \in delivered
<1>1. tracker[a] \in Seq(Tracker)
      BY Types DEF RestOK
<1>2. Len(tracker[a]) \in 1..Len(tracker[a])
      BY <1>1
<1>3. InMap(a) \in Tracker
      BY <1>1, <1>2 DEF InMap
<1> QED
    BY <1>2, <1>3, Types DEF InMap, Sound

(* HandleResult, Cancel and Finalize begin. *)
LEMMA BeginSteps ==
    ASSUME Inv, NEW p \in Handlers, NEW a \in Attempts,
           \/ \E outcome \in Outcomes : HandleResult(p, a, outcome)
           \/ Cancel(p, a) \/ Finalize(p, a)
    PROVE  Inv'
<1> USE SupervisorAssumption
<1>1. ~booting /\ tracker[a] # <<>>
      BY DEF HandleResult, Cancel, Finalize, Live
<1>2. attempt[a] # None
      BY <1>1, Types DEF Sound
<1>3. ASSUME NEW outcome \in Outcomes, HandleResult(p, a, outcome) PROVE Inv'
  <2> DEFINE n == Len(tracker[a])
             r == [tracker[a][n] EXCEPT !.verified = outcome]
             q == [tracker[a] EXCEPT ![n] = r]
  <2>1. tracker' = [tracker EXCEPT ![a] = q]
        BY <1>3 DEF HandleResult
  <2>2. n \in 1..Len(tracker[a]) /\ tracker[a] \in Seq(Tracker) /\ tracker[a][n] \in Tracker
        BY <1>1, Verified, Types DEF RestOK, InMap
  <2> HIDE DEF n
  <2>3. r \in Tracker /\ r.verified = outcome
        BY <2>2 DEF Tracker
  <2> HIDE DEF r
  <2>4. /\ q \in Seq(Tracker) /\ Len(tracker[a]) <= Len(q)
        /\ \A m \in 1..Len(q) : q[m] = r \/ (m \in 1..Len(tracker[a]) /\ q[m] = tracker[a][m])
        BY <2>2, <2>3
  <2> HIDE DEF q
  <2>5. delivered' = IF outcome = "SUCCEEDED" THEN delivered \cup {a} ELSE delivered
        BY <1>3 DEF HandleResult
  <2>6. delivered \subseteq delivered' /\ delivered' \subseteq Attempts
        BY <2>5, Types DEF RestOK
  <2>7. \A m \in 1..Len(q) : q[m].verified = "SUCCEEDED" => a \in delivered'
        BY <2>3, <2>4, <2>5, Types DEF Sound
  <2>8. UNCHANGED <<run, attempt, result, journal, launched, finished, booting, reconciled>>
        BY <1>3 DEF HandleResult, disk
  <2>9. Grows
        BY <1>2, <2>1, <2>4, <2>6, <2>7, <2>8, TrackerMoves
  <2>10. outcome = "SUCCEEDED" => a \in delivered'
         BY <2>5
  <2>11. Call(p, "attRead", a, outcome)
         BY <1>3 DEF HandleResult
  <2> QED
      BY <1>1, <2>9, <2>10, <2>11, CallBegins
<1>4. CASE Cancel(p, a)
  <2>1. Grows
        BY <1>4, Still, Types DEF Cancel, disk, memory, seen, RestOK
  <2> QED
      BY <1>1, <1>4, <2>1, CallBegins DEF Cancel, Outcomes
<1>5. CASE Finalize(p, a)
  <2> DEFINE to == FinalOutcome(InMap(a).verified)
  <2>1. Grows
        BY <1>5, Still, Types DEF Finalize, disk, memory, seen, RestOK
  <2>2. to \in Outcomes
        BY DEF FinalOutcome, Outcomes
  <2>3. to = "SUCCEEDED" => InMap(a).verified = "SUCCEEDED"
        BY DEF FinalOutcome
  <2>4. to = "SUCCEEDED" => a \in delivered
        BY <1>1, <2>3, Verified DEF Outcomes
  <2>5. Call(p, "attRead", a, to)
        BY <1>5 DEF Finalize
  <2> HIDE DEF to
  <2>6. to = "SUCCEEDED" => a \in delivered'
        BY <2>1, <2>4 DEF Grows
  <2> QED
      BY <1>1, <2>1, <2>2, <2>5, <2>6, CallBegins
<1> QED
    BY <1>3, <1>4, <1>5

-----------------------------------------------------------------------------
(* The rest of the calls, made by a handler or by the start-up code. *)

AttSteps == {"attRead", "attGen", "attWrite"}

BootSteps == AttSteps \cup {"journal", "runRead", "runGen", "runWrite", "mark", "scan", "end"}

(* Whose call it is. *)
LEMMA Calling ==
    ASSUME Inv, NEW p \in Procs, op[p] # None, op[p].at \in CallSteps
    PROVE  /\ op[p] \in Op
           /\ \/ p \in Handlers /\ p # Boot /\ ~booting /\ CallOK(op[p], attempt, tracker, delivered)
              \/ p = Boot /\ booting /\ BootOK(op[p], attempt, delivered)
<1>1. ~(p \in Launchers /\ LaunchOK(op[p], attempt))
      BY DEF LaunchOK, CallSteps
<1>2. p \in Handlers => p # Boot
      BY SupervisorAssumption
<1> QED
    BY <1>1, <1>2, InCall, Zenon

(* The next step of a handler's call. *)
LEMMA HandlerGoes ==
    ASSUME Inv, NEW p \in Handlers, op[p] # None, CallOK(op[p], attempt, tracker, delivered), ~booting,
           Grows, NEW o \in Op, op' = [op EXCEPT ![p] = o], o.at \in CallSteps, o.a = op[p].a,
           o.to = op[p].to, o.trk = op[p].trk
    PROVE  Inv'
<1>1. o.a \in Attempts /\ attempt'[o.a] # None
      BY DEF CallOK, Grows, AttGrows
<1>2. o.trk \in 1..Len(tracker'[o.a])
  <2>1. o.trk \in 1..Len(tracker[o.a]) /\ Len(tracker[o.a]) <= Len(tracker'[o.a])
        BY <1>1 DEF CallOK, Grows, TrkGrows
  <2>2. Len(tracker[o.a]) \in Nat /\ Len(tracker'[o.a]) \in Nat
        BY <1>1, Types DEF RestOK, Grows
  <2> QED
      BY <2>1, <2>2
<1>3. CallOK(o, attempt', tracker', delivered')
      BY <1>1, <1>2 DEF CallOK, Grows, CallSteps
<1> QED
    BY <1>3, DaemonStep, SupervisorAssumption

(* The next step of the start-up code in its call. *)
LEMMA BootGoes ==
    ASSUME Inv, booting, op[Boot] # None, BootOK(op[Boot], attempt, delivered), Grows,
           UNCHANGED finished, \A a \in Attempts : attempt'[a] # None => attempt[a] # None,
           NEW o \in Op, op' = [op EXCEPT ![Boot] = o], o.at \in BootSteps, o.a = op[Boot].a,
           o.to = op[Boot].to, o.todo = op[Boot].todo,
           o.at \in AttSteps \cup {"journal"} => o.a # None,
           o.at \in AttSteps \/ op[Boot].at \notin AttSteps \/ IsTerminal(attempt'[o.a])
    PROVE  Inv'
<1>1. o.todo \subseteq Attempts
      BY DEF Op
<1>2. o.a # None => o.a \in Attempts /\ attempt'[o.a] # None
      BY DEF BootOK, Grows, AttGrows
<1>3. \A a \in o.todo : attempt'[a] # None
      BY <1>1 DEF BootOK, Grows, AttGrows
<1>4. ASSUME NEW a \in Attempts \ o.todo, attempt'[a] # None, ~IsTerminal(attempt'[a])
      PROVE  a = o.a /\ o.at \in AttSteps
  <2>1. attempt[a] # None /\ ~IsTerminal(attempt[a])
        BY <1>4 DEF Grows, AttGrows
  <2>2. a = op[Boot].a /\ op[Boot].at \in AttSteps
        BY <1>4, <2>1 DEF BootOK, AttSteps
  <2> QED
      BY <1>4, <2>2
<1>5. BootOK(o, attempt', delivered')
  <2>1. o.to = "SUCCEEDED" => o.a # None /\ o.a \in delivered'
        BY DEF BootOK, Grows
  <2>2. o.to \in {"SUCCEEDED", "FAILED"}
        BY DEF BootOK
  <2> QED
      BY <1>2, <1>3, <1>4, <2>1, <2>2 DEF BootOK, BootSteps, AttSteps
<1>6. booting' /\ RestOK' /\ Sound' /\ \A a \in reconciled' : IsTerminal(attempt'[a])
      BY ReconciledStays, Zenon DEF Grows
<1> QED
    BY <1>5, <1>6, BootStep

(* The same for Goto, for either. *)
LEMMA GoesTo ==
    ASSUME Inv, NEW p \in Procs, op[p] # None, op[p].at \in CallSteps, Grows, UNCHANGED finished,
           NEW at \in Steps, Goto(p, at), p # Boot => at \in CallSteps,
           p = Boot => /\ at \in BootSteps
                       /\ at \in AttSteps \cup {"journal"} => op[Boot].a # None
                       /\ at \in AttSteps \/ op[Boot].at \notin AttSteps \/ IsTerminal(attempt'[op[Boot].a])
                       /\ \A a \in Attempts : attempt'[a] # None => attempt[a] # None
    PROVE  Inv'
<1> DEFINE o == [op[p] EXCEPT !.at = at]
<1>1. op' = [op EXCEPT ![p] = o]
      BY DEF Goto
<1>2. op[p] \in Op
      BY Calling
<1>3. o \in Op /\ o.at = at /\ o.a = op[p].a /\ o.to = op[p].to /\ o.trk = op[p].trk /\ o.todo = op[p].todo
      BY <1>2, SetAt
<1> HIDE DEF o
<1>4. CASE p \in Handlers /\ p # Boot /\ ~booting /\ CallOK(op[p], attempt, tracker, delivered)
      BY <1>1, <1>3, <1>4, HandlerGoes
<1>5. CASE p = Boot /\ booting /\ BootOK(op[p], attempt, delivered)
      BY <1>1, <1>3, <1>5, BootGoes
<1> QED
    BY <1>4, <1>5, Calling

(* The same for a call that reads a generation on its way. *)
LEMMA GoesToGen ==
    ASSUME Inv, NEW p \in Procs, op[p] # None, op[p].at \in CallSteps, Grows, UNCHANGED finished,
           NEW at \in Steps, NEW gen \in Nat, op' = [op EXCEPT ![p].at = at, ![p].gen = gen],
           p # Boot => at \in CallSteps,
           p = Boot => /\ at \in BootSteps
                       /\ at \in AttSteps \cup {"journal"} => op[Boot].a # None
                       /\ at \in AttSteps \/ op[Boot].at \notin AttSteps \/ IsTerminal(attempt'[op[Boot].a])
                       /\ \A a \in Attempts : attempt'[a] # None => attempt[a] # None
    PROVE  Inv'
<1> DEFINE o1 == [op[p] EXCEPT !.at = at]
           o == [o1 EXCEPT !.gen = gen]
<1>1. op' = [op EXCEPT ![p] = o]
  <2>1. p \in DOMAIN op
        BY Types
  <2> QED
      BY <2>1
<1>2. op[p] \in Op
      BY Calling
<1>3. o1 \in Op /\ o1.at = at /\ o1.a = op[p].a /\ o1.to = op[p].to /\ o1.trk = op[p].trk /\ o1.todo = op[p].todo
      BY <1>2, SetAt
<1> HIDE DEF o1
<1>4. o \in Op /\ o.at = at /\ o.a = op[p].a /\ o.to = op[p].to /\ o.trk = op[p].trk /\ o.todo = op[p].todo
      BY <1>3, SetGen
<1> HIDE DEF o
<1>5. CASE p \in Handlers /\ p # Boot /\ ~booting /\ CallOK(op[p], attempt, tracker, delivered)
      BY <1>1, <1>4, <1>5, HandlerGoes
<1>6. CASE p = Boot /\ booting /\ BootOK(op[p], attempt, delivered)
      BY <1>1, <1>4, <1>6, BootGoes
<1> QED
    BY <1>5, <1>6, Calling

(* An error ends the call. *)
LEMMA FailsOK ==
    ASSUME Inv, NEW p \in Procs, op[p] # None, op[p].at \in CallSteps, Grows, UNCHANGED <<attempt, finished>>,
           Fail(p)
    PROVE  Inv'
<1>1. CASE p = Boot
  <2> DEFINE o1 == [op[Boot] EXCEPT !.at = "end"]
             todo == op[Boot].todo \cup ({op[Boot].a} \ {None})
             o == [o1 EXCEPT !.todo = todo]
  <2>1. booting /\ op[Boot] \in Op /\ BootOK(op[Boot], attempt, delivered)
        BY <1>1, Calling, SupervisorAssumption
  <2>2. op' = [op EXCEPT ![Boot] = o]
    <3>1. Boot \in DOMAIN op
          BY <1>1, Types
    <3> QED
        BY <1>1, <3>1 DEF Fail
  <2>3. op[Boot].todo \subseteq Attempts /\ op[Boot].a \in Attempts \cup {None}
        BY <2>1 DEF Op
  <2>4. todo \in SUBSET Attempts /\ op[Boot].todo \subseteq todo
        BY <2>3
  <2>5. o1 \in Op /\ o1.at = "end" /\ o1.a = op[Boot].a /\ o1.to = op[Boot].to
        BY <2>1, SetAt DEF Steps
  <2>6. op[Boot].a # None => op[Boot].a \in todo
        OBVIOUS
  <2>7. \A a \in todo : attempt[a] # None
        BY <2>1 DEF BootOK
  <2> HIDE DEF o1, todo
  <2>8. o \in Op /\ o.at = "end" /\ o.a = op[Boot].a /\ o.to = op[Boot].to /\ o.todo = todo
        BY <2>4, <2>5 DEF Op
  <2> HIDE DEF o
  <2>9. ASSUME NEW a \in Attempts \ o.todo, attempt'[a] # None
        PROVE  IsTerminal(attempt'[a])
    <3>1. a \notin op[Boot].todo /\ a # op[Boot].a
          BY <2>4, <2>6, <2>8, <2>9, SupervisorAssumption
    <3> QED
        BY <2>1, <2>9, <3>1 DEF BootOK
  <2>10. BootOK(o, attempt', delivered')
    <3>1. o.a # None => o.a \in Attempts /\ attempt'[o.a] # None
          BY <2>1, <2>8 DEF BootOK
    <3>2. /\ o.to \in {"SUCCEEDED", "FAILED"}
          /\ o.to = "SUCCEEDED" => o.a # None /\ o.a \in delivered'
          BY <2>1, <2>8 DEF BootOK, Grows
    <3> QED
        BY <2>7, <2>8, <2>9, <3>1, <3>2 DEF BootOK
  <2>11. booting' /\ RestOK' /\ Sound' /\ \A a \in reconciled' : IsTerminal(attempt'[a])
         BY <2>1, ReconciledStays, Zenon DEF Grows
  <2> QED
      BY <2>1, <2>2, <2>8, <2>10, <2>11, BootStep
<1>2. CASE p # Boot
  <2>1. Return(p)
        BY <1>2 DEF Fail
  <2>2. p \in Handlers /\ ~booting
        BY <1>2, Calling
  <2> QED
      BY <2>1, <2>2, DaemonReturns
<1> QED
    BY <1>1, <1>2

(* What ReadAttempt may do. *)
LEMMA ReadAttemptCases ==
    ASSUME NEW p \in Procs, ReadAttempt(p)
    PROVE  LET s == attempt[op[p].a].status IN
           \/ /\ s \in AttemptTerminal /\ s = op[p].to /\ (p = Boot => s = "SUCCEEDED")
              /\ Goto(p, AfterAttempt(p))
           \/ s \notin AttemptTerminal /\ Goto(p, "attGen")
           \/ s \in AttemptTerminal /\ p = Boot /\ Goto(p, "scan")
           \/ Fail(p)
BY DEF ReadAttempt

(* Where the attempt's transition leads. *)
LEMMA AfterAttemptOK ==
    ASSUME NEW p \in Procs
    PROVE  /\ AfterAttempt(p) \in Steps
           /\ p # Boot => AfterAttempt(p) \in {"result", "journal"}
           /\ p = Boot => AfterAttempt(p) \in {"runRead", "journal"}
           /\ AfterAttempt(p) \notin AttSteps
           /\ op[p].to = "SUCCEEDED" =>
                 AfterAttempt(p) = IF p = Boot THEN "runRead" ELSE "result"
BY DEF AfterAttempt, Steps, AttSteps

(* Only the calls move. *)
LEMMA StillCalls ==
    ASSUME Inv, UNCHANGED <<disk, memory, seen>>
    PROVE  Grows /\ UNCHANGED <<run, attempt, result, journal, tracker, finished, booting>>
BY Still, Types DEF disk, memory, seen, RestOK

(* The attempt of a call is there. *)
LEMMA CallsAttempt ==
    ASSUME Inv, NEW p \in Procs, op[p] # None, op[p].at \in CallSteps,
           p = Boot => op[p].at \in AttSteps \cup {"journal"}
    PROVE  /\ op[p] \in Op /\ op[p].a \in Attempts /\ attempt[op[p].a] # None
           /\ attempt[op[p].a] \in AttemptRecord
           /\ op[p].to \in Outcomes
           /\ op[p].to = "SUCCEEDED" => op[p].a \in delivered
           /\ attempt[op[p].a].status \in {"RUNNING"} \cup Outcomes
<1>1. /\ op[p] \in Op /\ op[p].a \in Attempts /\ attempt[op[p].a] # None
      /\ op[p].to \in Outcomes
      /\ op[p].to = "SUCCEEDED" => op[p].a \in delivered
  <2>1. CASE p \in Handlers /\ CallOK(op[p], attempt, tracker, delivered)
        BY <2>1, Calling DEF CallOK
  <2>2. CASE p = Boot /\ BootOK(op[p], attempt, delivered)
        BY <2>2, Calling DEF BootOK, AttSteps, Outcomes
  <2> QED
      BY <2>1, <2>2, Calling
<1>2. /\ attempt[op[p].a] \in AttemptRecord
      /\ attempt[op[p].a].status \in {"RUNNING"} \cup Outcomes
      BY <1>1, Types DEF RestOK, Sound
<1> QED
    BY <1>1, <1>2

(* The attempt is read. *)
LEMMA ReadAttemptStep ==
    ASSUME Inv, NEW p \in Procs, ReadAttempt(p)
    PROVE  Inv'
<1> DEFINE s == attempt[op[p].a].status
<1>1. op[p] # None /\ op[p].at = "attRead" /\ UNCHANGED <<disk, memory, seen>>
      BY DEF ReadAttempt, At
<1>2. Grows /\ UNCHANGED <<run, attempt, result, journal, tracker, finished, booting>>
      BY <1>1, StillCalls
<1>3. op[p].at \in CallSteps /\ op[p].at \in AttSteps
      BY <1>1 DEF CallSteps, AttSteps
<1>4. /\ op[p].a \in Attempts /\ attempt[op[p].a] # None /\ op[p].to \in Outcomes
      /\ s \in {"RUNNING"} \cup Outcomes
      BY <1>1, <1>3, CallsAttempt
<1>5. op[p].a # None
      BY <1>4, SupervisorAssumption
<1>6. CASE s \in AttemptTerminal /\ Goto(p, AfterAttempt(p))
  <2>1. IsTerminal(attempt'[op[p].a])
        BY <1>2, <1>4, <1>6 DEF IsTerminal
  <2>2. /\ p # Boot => AfterAttempt(p) \in CallSteps
        /\ p = Boot => AfterAttempt(p) \in BootSteps
        /\ AfterAttempt(p) \in Steps
        BY AfterAttemptOK DEF CallSteps, BootSteps
  <2> HIDE DEF s
  <2> QED
      BY <1>1, <1>2, <1>3, <1>5, <1>6, <2>1, <2>2, GoesTo
<1>7. CASE Goto(p, "attGen")
  <2>1. "attGen" \in CallSteps /\ "attGen" \in Steps /\ "attGen" \in BootSteps /\ "attGen" \in AttSteps
        BY DEF CallSteps, Steps, BootSteps, AttSteps
  <2> HIDE DEF s
  <2> QED
      BY <1>1, <1>2, <1>3, <1>5, <1>7, <2>1, GoesTo
<1>8. CASE s \in AttemptTerminal /\ p = Boot /\ Goto(p, "scan")
  <2>1. IsTerminal(attempt'[op[p].a])
        BY <1>2, <1>4, <1>8 DEF IsTerminal
  <2>2. "scan" \in Steps /\ "scan" \in BootSteps /\ "scan" \notin AttSteps \cup {"journal"}
        BY DEF Steps, BootSteps, AttSteps
  <2> HIDE DEF s
  <2> QED
      BY <1>1, <1>2, <1>3, <1>5, <1>8, <2>1, <2>2, GoesTo
<1>9. CASE Fail(p)
      BY <1>1, <1>2, <1>3, <1>9, FailsOK
<1> QED
    BY <1>6, <1>7, <1>8, <1>9, ReadAttemptCases

(* Its generation is read. *)
LEMMA AttemptGenerationStep ==
    ASSUME Inv, NEW p \in Procs, AttemptGeneration(p)
    PROVE  Inv'
<1>1. op[p] # None /\ op[p].at = "attGen" /\ UNCHANGED <<disk, memory, seen>>
      BY DEF AttemptGeneration, At
<1>2. Grows /\ UNCHANGED <<run, attempt, result, journal, tracker, finished, booting>>
      BY <1>1, StillCalls
<1>3. op[p].at \in CallSteps /\ op[p].at \in AttSteps
      BY <1>1 DEF CallSteps, AttSteps
<1>4. op[p].a # None /\ attempt[op[p].a].gen \in Nat
      BY <1>1, <1>3, CallsAttempt, SupervisorAssumption DEF AttemptRecord
<1>5. /\ "attWrite" \in CallSteps /\ "attWrite" \in Steps /\ "attWrite" \in BootSteps
      /\ "attWrite" \in AttSteps
      BY DEF CallSteps, Steps, BootSteps, AttSteps
<1>6. op' = [op EXCEPT ![p].at = "attWrite", ![p].gen = attempt[op[p].a].gen]
      BY DEF AttemptGeneration
<1> QED
    BY <1>1, <1>2, <1>3, <1>4, <1>5, <1>6, GoesToGen

(* The attempt is written, or read again. *)
LEMMA UpdateAttemptStep ==
    ASSUME Inv, NEW p \in Procs, UpdateAttempt(p)
    PROVE  Inv'
<1> DEFINE a == op[p].a
           r == [status |-> op[p].to, gen |-> op[p].gen + 1]
<1>1. /\ op[p] # None /\ op[p].at = "attWrite"
      /\ UNCHANGED <<run, result, journal, tracker, launched, finished, booting, delivered, reconciled>>
      BY DEF UpdateAttempt, At, memory, seen
<1>2. op[p].at \in CallSteps /\ op[p].at \in AttSteps
      BY <1>1 DEF CallSteps, AttSteps
<1>3. /\ a \in Attempts /\ attempt[a] # None /\ op[p].to \in Outcomes /\ op[p] \in Op
      /\ op[p].to = "SUCCEEDED" => a \in delivered
      BY <1>1, <1>2, CallsAttempt
<1>4. a # None
      BY <1>3, SupervisorAssumption
<1>5. CASE attempt' = [attempt EXCEPT ![a] = r] /\ Goto(p, AfterAttempt(p))
  <2>1. op[p].gen + 1 \in Nat
        BY <1>3 DEF Op
  <2>2. op[p].to \in AttemptTerminal /\ op[p].to \in AttemptStatus
        BY <1>3 DEF Outcomes, AttemptTerminal, AttemptStatus
  <2>3. r \in AttemptRecord /\ r.status = op[p].to
        BY <2>1, <2>2 DEF AttemptRecord
  <2> HIDE DEF r
  <2>4. Grows /\ attempt'[a] = r
        BY <1>1, <1>3, <1>5, <2>2, <2>3, AttemptMoves
  <2>5. IsTerminal(attempt'[a])
        BY <2>2, <2>3, <2>4, SupervisorAssumption DEF IsTerminal, AttemptRecord
  <2>6. \A b \in Attempts : attempt'[b] # None => attempt[b] # None
        BY <1>3, <1>5, Types DEF RestOK
  <2>7. /\ p # Boot => AfterAttempt(p) \in CallSteps
        /\ p = Boot => AfterAttempt(p) \in BootSteps
        /\ AfterAttempt(p) \in Steps
        BY AfterAttemptOK DEF CallSteps, BootSteps
  <2> QED
      BY <1>1, <1>2, <1>4, <1>5, <2>4, <2>5, <2>6, <2>7, GoesTo
<1>6. CASE UNCHANGED attempt /\ Goto(p, "attRead")
  <2>1. Grows
        BY <1>1, <1>6, Still, Types DEF RestOK
  <2>2. /\ "attRead" \in CallSteps /\ "attRead" \in Steps /\ "attRead" \in BootSteps
        /\ "attRead" \in AttSteps
        BY DEF CallSteps, Steps, BootSteps, AttSteps
  <2> QED
      BY <1>1, <1>2, <1>4, <1>6, <2>1, <2>2, GoesTo
<1> QED
    BY <1>5, <1>6 DEF UpdateAttempt

(* The result or the journal is written. *)
LEMMA LogMoves ==
    ASSUME Inv, UNCHANGED <<run, attempt, tracker, launched, finished, booting, delivered, reconciled>>,
           result' \in [a : Attempts, status : Outcomes] \cup {None},
           journal' \in [Attempts -> Outcomes \cup {None}],
           \A a \in Attempts : journal'[a] = "SUCCEEDED" => a \in delivered
    PROVE  Grows
<1>1. RestOK'
      BY Types DEF RestOK
<1>2. Sound'
      BY Types DEF Sound
<1>3. AttGrows(attempt, attempt') /\ TrkGrows(tracker, tracker') /\ delivered \subseteq delivered'
  <2>1. \A a \in Attempts : Len(tracker[a]) \in Nat
        BY Types DEF RestOK
  <2> QED
      BY <2>1 DEF AttGrows, TrkGrows
<1> QED
    BY <1>1, <1>2, <1>3 DEF Grows

(* A call that saves a result is a handler's. *)
LEMMA Saving ==
    ASSUME Inv, NEW p \in Procs, op[p] # None, op[p].at = "result"
    PROVE  /\ p \in Handlers /\ p # Boot /\ ~booting /\ op[p].at \in CallSteps
           /\ op[p].a \in Attempts /\ op[p].to \in Outcomes
<1>1. op[p].at \in CallSteps
      BY DEF CallSteps
<1>2. ~(p = Boot /\ BootOK(op[p], attempt, delivered))
      BY DEF BootOK
<1>3. p \in Handlers /\ p # Boot /\ ~booting /\ CallOK(op[p], attempt, tracker, delivered)
      BY <1>1, <1>2, Calling, Zenon
<1> QED
    BY <1>1, <1>3 DEF CallOK

(* SaveInvokeJobResult. *)
LEMMA SaveSteps ==
    ASSUME Inv, NEW p \in Procs, SaveInvokeJobResult(p) \/ SaveFails(p)
    PROVE  Inv'
<1>1. op[p] # None /\ op[p].at = "result"
      BY DEF SaveInvokeJobResult, SaveFails, At
<1>2. /\ p \in Handlers /\ p # Boot /\ ~booting /\ op[p].at \in CallSteps
      /\ op[p].a \in Attempts /\ op[p].to \in Outcomes
      BY <1>1, Saving
<1>3. CASE SaveInvokeJobResult(p)
  <2>1. UNCHANGED <<run, attempt, journal, tracker, launched, finished, booting, delivered, reconciled>>
        BY <1>3 DEF SaveInvokeJobResult, memory, seen
  <2>2. result' \in {result, [a |-> op[p].a, status |-> op[p].to]}
        BY <1>3 DEF SaveInvokeJobResult
  <2>3. result' \in [a : Attempts, status : Outcomes] \cup {None}
        BY <1>2, <2>2, Types DEF RestOK
  <2>4. Grows
        BY <2>1, <2>3, LogMoves, Types DEF RestOK, Sound
  <2>5. Goto(p, "journal") /\ "journal" \in CallSteps /\ "journal" \in Steps
        BY <1>3 DEF SaveInvokeJobResult, CallSteps, Steps
  <2> QED
      BY <1>1, <1>2, <2>1, <2>4, <2>5, GoesTo
<1>4. CASE SaveFails(p)
  <2>1. Return(p) /\ Grows
        BY <1>4, StillCalls DEF SaveFails
  <2> QED
      BY <1>2, <2>1, DaemonReturns
<1> QED
    BY <1>3, <1>4

(* The terminal event is appended, or lost. *)
LEMMA JournalSteps ==
    ASSUME Inv, NEW p \in Procs, AppendJournalEvent(p) \/ JournalFails(p)
    PROVE  Inv'
<1>1. op[p] # None /\ op[p].at = "journal"
      BY DEF AppendJournalEvent, JournalFails, At
<1>2. op[p].at \in CallSteps /\ op[p].at \notin AttSteps
      BY <1>1 DEF CallSteps, AttSteps
<1>3. /\ op[p].a \in Attempts /\ op[p].to \in Outcomes
      /\ op[p].to = "SUCCEEDED" => op[p].a \in delivered
      BY <1>1, <1>2, CallsAttempt
<1>4. /\ {"mark", "runRead"} \subseteq CallSteps /\ {"mark", "runRead"} \subseteq Steps
      /\ "mark" \in BootSteps /\ "mark" \notin AttSteps \cup {"journal"}
      BY DEF CallSteps, Steps, BootSteps, AttSteps
<1>5. CASE AppendJournalEvent(p)
  <2>1. UNCHANGED <<run, attempt, result, tracker, launched, finished, booting, delivered, reconciled>>
        BY <1>5 DEF AppendJournalEvent, memory, seen
  <2>2. journal' = [journal EXCEPT ![op[p].a] = op[p].to]
        BY <1>5 DEF AppendJournalEvent
  <2>3. /\ journal' \in [Attempts -> Outcomes \cup {None}]
        /\ \A a \in Attempts : journal'[a] = "SUCCEEDED" => a \in delivered
        BY <1>3, <2>2, Types DEF RestOK, Sound
  <2>4. Grows
        BY <2>1, <2>3, LogMoves, Types DEF RestOK
  <2>5. CASE p = Boot
    <3>1. Goto(p, "mark")
          BY <1>5, <2>5 DEF AppendJournalEvent
    <3> QED
        BY <1>1, <1>2, <1>4, <2>1, <2>4, <2>5, <3>1, GoesTo
  <2>6. CASE p # Boot
    <3>1. Goto(p, "runRead")
          BY <1>5, <2>6 DEF AppendJournalEvent
    <3> QED
        BY <1>1, <1>2, <1>4, <2>1, <2>4, <2>6, <3>1, GoesTo
  <2> QED
      BY <2>5, <2>6
<1>6. CASE JournalFails(p)
  <2>1. Grows /\ UNCHANGED <<attempt, finished>>
        BY <1>6, StillCalls DEF JournalFails
  <2>2. CASE p = Boot /\ Goto(p, "mark")
        BY <1>1, <1>2, <1>4, <2>1, <2>2, GoesTo
  <2>3. CASE Fail(p)
        BY <1>1, <1>2, <2>1, <2>3, FailsOK
  <2>4. CASE p # Boot /\ Goto(p, "runRead")
        BY <1>1, <1>2, <1>4, <2>1, <2>4, GoesTo
  <2> QED
      BY <1>6, <2>2, <2>3, <2>4 DEF JournalFails
<1> QED
    BY <1>5, <1>6

(* casRunTo. *)
LEMMA RunSteps ==
    ASSUME Inv, NEW p \in Procs, ReadRun(p) \/ RunGeneration(p) \/ UpdateRun(p)
    PROVE  Inv'
<1>1. op[p] # None /\ op[p].at \in {"runRead", "runGen", "runWrite"}
      BY DEF ReadRun, RunGeneration, UpdateRun, At
<1>2. op[p].at \in CallSteps /\ op[p].at \notin AttSteps
      BY <1>1 DEF CallSteps, AttSteps
<1>3. /\ {"mark", "runRead", "runGen", "runWrite"} \subseteq CallSteps
      /\ {"mark", "runRead", "runGen", "runWrite"} \subseteq Steps
      /\ {"mark", "runRead", "runGen", "runWrite"} \subseteq BootSteps
      /\ \A s \in {"mark", "runRead", "runGen", "runWrite"} : s \notin AttSteps \cup {"journal"}
      BY DEF CallSteps, Steps, BootSteps, AttSteps
<1>4. ASSUME NEW s \in {"mark", "runRead", "runGen"}, Goto(p, s), Grows, UNCHANGED <<attempt, finished>>
      PROVE  Inv'
      BY <1>1, <1>2, <1>3, <1>4, GoesTo
<1>5. CASE ReadRun(p)
  <2>1. Grows /\ UNCHANGED <<attempt, finished>>
        BY <1>5, StillCalls DEF ReadRun
  <2>2. Goto(p, "mark") \/ Goto(p, "runGen") \/ Fail(p)
        BY <1>5 DEF ReadRun
  <2>3. CASE Fail(p)
        BY <1>1, <1>2, <2>1, <2>3, FailsOK
  <2> QED
      BY <1>4, <2>1, <2>2, <2>3
<1>6. CASE RunGeneration(p)
  <2>1. Grows /\ UNCHANGED <<attempt, finished>>
        BY <1>6, StillCalls DEF RunGeneration
  <2>2. op' = [op EXCEPT ![p].at = "runWrite", ![p].gen = run.gen]
        BY <1>6 DEF RunGeneration
  <2>3. run.gen \in Nat
        BY Types DEF RestOK
  <2> QED
      BY <1>1, <1>2, <1>3, <2>1, <2>2, <2>3, GoesToGen
<1>7. CASE UpdateRun(p)
  <2>1. UNCHANGED <<attempt, result, journal, tracker, launched, finished, booting, delivered, reconciled>>
        BY <1>7 DEF UpdateRun, memory, seen
  <2>2. run' \in [status : RunStatus, gen : Nat]
    <3>1. run \in [status : RunStatus, gen : Nat] /\ op[p] \in Op
          BY <1>1, <1>2, Types, Calling DEF RestOK
    <3>2. op[p].to \in RunStatus /\ run.gen + 1 \in Nat
          BY <3>1 DEF Op
    <3> QED
        BY <1>7, <3>1, <3>2 DEF UpdateRun
  <2>3. Grows
        BY <2>1, <2>2, RunMoves
  <2>4. Goto(p, "mark") \/ Goto(p, "runRead")
        BY <1>7 DEF UpdateRun
  <2> QED
      BY <1>4, <2>1, <2>3, <2>4
<1> QED
    BY <1>5, <1>6, <1>7

(* A call of the store fails. *)
LEMMA StoreFailsStep ==
    ASSUME Inv, NEW p \in Procs, StoreFails(p)
    PROVE  Inv'
<1>1. op[p] # None /\ Grows /\ UNCHANGED <<attempt, finished>>
      BY StillCalls DEF StoreFails, At
<1>2. CASE op[p].at \in {"legacyGen", "legacyWrite"}
  <2>1. p \in Launchers /\ ~booting /\ op[p] \in Op /\ p # Boot
        BY <1>1, <1>2, Launching, SupervisorAssumption
  <2>2. Goto(p, "list") \/ Return(p)
        BY <1>2, <2>1 DEF StoreFails, At, Fail
  <2> QED
      BY <1>1, <2>1, <2>2, LauncherGoes, DaemonReturns
<1>3. CASE op[p].at \in {"list", "create", "establish"}
  <2>1. p \in Launchers /\ ~booting /\ op[p] \in Op /\ p # Boot
        BY <1>1, <1>3, Launching, SupervisorAssumption
  <2>2. Return(p)
        BY <1>3, <2>1 DEF StoreFails, At, Fail
  <2> QED
      BY <1>1, <2>1, <2>2, DaemonReturns
<1>4. CASE op[p].at \in {"attRead", "attGen", "attWrite", "runRead", "runGen", "runWrite"}
  <2>1. Fail(p)
        BY <1>4 DEF StoreFails, At
  <2>2. op[p].at \in CallSteps
        BY <1>4 DEF CallSteps
  <2> QED
      BY <1>1, <2>1, <2>2, FailsOK
<1> QED
    BY <1>2, <1>3, <1>4 DEF StoreFails, At

(* markTerminal and markTerminalForRestart. *)
LEMMA MarkStep ==
    ASSUME Inv, NEW p \in Procs, MarkTerminal(p)
    PROVE  Inv'
<1> USE SupervisorAssumption
<1> DEFINE a == op[p].a
<1>1. op[p] # None /\ op[p].at = "mark"
      BY DEF MarkTerminal, At
<1>2. op[p].at \in CallSteps /\ op[p].at \notin AttSteps
      BY <1>1 DEF CallSteps, AttSteps
<1>3. UNCHANGED <<run, attempt, result, journal, launched, finished, booting, delivered, reconciled>>
      BY DEF MarkTerminal, disk, seen
<1>4. CASE p # Boot /\ tracker' = [tracker EXCEPT ![a][op[p].trk].terminal = TRUE] /\ Return(p)
  <2> DEFINE n == op[p].trk
             r == [tracker[a][n] EXCEPT !.terminal = TRUE]
             q == [tracker[a] EXCEPT ![n] = r]
  <2>1. p \in Handlers /\ ~booting /\ CallOK(op[p], attempt, tracker, delivered)
        BY <1>1, <1>2, <1>4, Calling, Zenon
  <2>2. a \in Attempts /\ attempt[a] # None /\ n \in 1..Len(tracker[a])
        BY <2>1 DEF CallOK
  <2>3. tracker' = [tracker EXCEPT ![a] = q]
        BY <1>4
  <2>4. tracker[a] \in Seq(Tracker) /\ tracker[a][n] \in Tracker
        BY <2>2, Types DEF RestOK
  <2> HIDE DEF n, a
  <2>5. r \in Tracker /\ r.verified = tracker[a][n].verified
        BY <2>4 DEF Tracker
  <2> HIDE DEF r
  <2>6. /\ q \in Seq(Tracker) /\ Len(tracker[a]) <= Len(q)
        /\ \A m \in 1..Len(q) : m \in 1..Len(tracker[a]) /\ q[m] = IF m = n THEN r ELSE tracker[a][m]
        BY <2>2, <2>4, <2>5
  <2> HIDE DEF q
  <2>7. \A m \in 1..Len(q) : q[m].verified = "SUCCEEDED" => a \in delivered'
    <3>1. \A m \in 1..Len(q) : m \in 1..Len(tracker[a]) /\ q[m].verified = tracker[a][m].verified
          BY <2>5, <2>6
    <3> QED
        BY <1>3, <2>2, <3>1, Types DEF Sound
  <2>8. delivered \subseteq delivered' /\ delivered' \subseteq Attempts
        BY <1>3, Types DEF RestOK
  <2>9. Grows
        BY <1>3, <2>2, <2>3, <2>6, <2>7, <2>8, TrackerMoves
  <2> QED
      BY <1>4, <2>1, <2>9, DaemonReturns
<1>5. CASE /\ p = Boot /\ a # None /\ Goto(p, "scan")
           /\ tracker' = [tracker EXCEPT ![a] = <<[terminal |-> TRUE, verified |-> None]>>]
  <2> DEFINE r == [terminal |-> TRUE, verified |-> None]
             o == [op[p] EXCEPT !.at = "scan"]
  <2>1. booting /\ op[p] \in Op /\ BootOK(op[p], attempt, delivered)
        BY <1>1, <1>2, <1>5, Calling, Zenon
  <2>2. a \in Attempts /\ attempt[a] # None
        BY <1>5, <2>1 DEF BootOK
  <2>3. r \in Tracker /\ r.verified = None
        BY DEF Tracker
  <2>4. tracker' = [tracker EXCEPT ![a] = <<r>>]
        BY <1>5
  <2> HIDE DEF r
  <2>5. /\ tracker' \in [Attempts -> Seq(Tracker)]
        /\ \A b \in Attempts : tracker'[b] = IF b = a THEN <<r>> ELSE tracker[b]
        BY <2>2, <2>3, <2>4, Types DEF RestOK
  <2>6. RestOK'
        BY <1>3, <2>5, Types DEF RestOK
  <2>7. Sound'
    <3>1. ASSUME NEW b \in Attempts, NEW m \in 1..Len(tracker'[b]), tracker'[b][m].verified = "SUCCEEDED"
          PROVE  b \in delivered'
      <4>1. b # a
            BY <2>3, <2>5, <3>1, SupervisorAssumption DEF Outcomes
      <4>2. tracker'[b] = tracker[b]
            BY <2>5, <4>1
      <4> QED
          BY <1>3, <3>1, <4>2, Types DEF Sound
    <3>2. \A b \in Attempts : tracker'[b] # <<>> => attempt'[b] # None
          BY <1>3, <2>2, <2>5, Types DEF Sound
    <3> QED
        BY <1>3, <3>1, <3>2, Types DEF Sound
  <2>8. op' = [op EXCEPT ![Boot] = o]
        BY <1>5 DEF Goto
  <2>9. /\ o \in Op /\ o.at = "scan" /\ o.a = op[p].a /\ o.to = op[p].to /\ o.todo = op[p].todo
        BY <2>1, SetAt DEF Steps
  <2> HIDE DEF o, a
  <2>10. BootOK(o, attempt', delivered')
         BY <1>1, <1>3, <2>1, <2>9 DEF BootOK
  <2>11. \A b \in reconciled' : IsTerminal(attempt'[b])
         BY <1>3 DEF Inv
  <2>12. booting'
         BY <1>3, <2>1, Zenon
  <2> QED
      BY <1>3, <2>1, <2>6, <2>7, <2>8, <2>9, <2>10, <2>11, <2>12, BootStep
<1>6. CASE p = Boot /\ Goto(p, "end") /\ UNCHANGED tracker
  <2>1. Grows
        BY <1>3, <1>6, Still, Types DEF RestOK
  <2>2. "end" \in Steps /\ "end" \in BootSteps /\ "end" \notin AttSteps \cup {"journal"}
        BY DEF Steps, BootSteps, AttSteps
  <2> QED
      BY <1>1, <1>2, <1>3, <1>6, <2>1, <2>2, GoesTo
<1> QED
    BY <1>4, <1>5, <1>6 DEF MarkTerminal

-----------------------------------------------------------------------------
(* Restart. *)

(* Start-up steps that leave the disk alone. *)
LEMMA BootStill ==
    ASSUME Inv, UNCHANGED <<disk, tracker, launched, finished, delivered>>, booting' \in BOOLEAN,
           reconciled' \subseteq Attempts
    PROVE  RestOK' /\ Sound'
<1>1. RestOK'
      BY Types DEF RestOK, disk
<1>2. Sound'
      BY Types DEF Sound, disk
<1> QED
    BY <1>1, <1>2

(* Reconcile begins, or has nothing to do. *)
LEMMA ReconcileStep ==
    ASSUME Inv, Reconcile
    PROVE  Inv'
<1> USE SupervisorAssumption
<1>1. booting /\ op[Boot] = None /\ UNCHANGED <<disk, tracker, launched, finished, delivered, reconciled>>
      BY DEF Reconcile, seen
<1>2. attempt' = attempt /\ finished' = finished
      BY <1>1 DEF disk
<1>3. \A a \in reconciled' : IsTerminal(attempt'[a])
      BY <1>1, <1>2 DEF Inv
<1>4. reconciled' \subseteq Attempts
      BY <1>1, Types DEF RestOK
<1>5. CASE booting' = FALSE /\ UNCHANGED op
  <2>1. op' = [op EXCEPT ![Boot] = None]
        BY <1>1, <1>5, Types
  <2>2. RestOK' /\ Sound'
        BY <1>1, <1>4, <1>5, BootStill
  <2> QED
      BY <1>1, <1>2, <1>3, <2>1, <2>2, BootStep
<1>6. CASE run.status \notin RunTerminal
  <2> DEFINE had == \E a \in Attempts : Exists(a) /\ attempt[a].status = "SUCCEEDED"
             o == [at |-> "scan", a |-> None, to |-> "FAILED", gen |-> 0, trk |-> 0,
                   todo |-> AttemptsOfRun, succeeded |-> had]
  <2>1. op' = [op EXCEPT ![Boot] = o] /\ UNCHANGED booting
        BY <1>6, Zenon DEF Reconcile
  <2>2. booting'
        BY <1>1, <2>1, Zenon
  <2>3. AttemptsOfRun \subseteq Attempts
        BY DEF AttemptsOfRun
  <2>4. had \in BOOLEAN
        BY Zenon
  <2> HIDE DEF had
  <2>5. /\ o \in Op /\ o.at = "scan" /\ o.a = None /\ o.to = "FAILED" /\ o.todo = AttemptsOfRun
        BY <2>3, <2>4 DEF Op, Steps, RunStatus, RunTerminal
  <2> HIDE DEF o
  <2>6. BootOK(o, attempt', delivered')
        BY <1>2, <2>5 DEF BootOK, AttemptsOfRun, Exists
  <2>7. RestOK' /\ Sound'
        BY <1>1, <1>4, <2>2, BootStill
  <2> QED
      BY <1>1, <1>2, <1>3, <2>1, <2>2, <2>5, <2>6, <2>7, BootStep
<1> QED
    BY <1>5, <1>6 DEF Reconcile

(* What Reconcile takes an attempt's outcome to be was delivered. *)
LEMMA Journalled ==
    ASSUME Inv, NEW a \in Attempts, NEW to \in JournalledOutcomes(a)
    PROVE  /\ to \in {"SUCCEEDED", "FAILED"}
           /\ to = "SUCCEEDED" => a \in delivered
BY Types DEF JournalledOutcomes, Sound

(* The next call of Reconcile, about attempt a, or about the run. *)
NextOp(o, a, todo, to, at) == [o EXCEPT !.a = a, !.todo = todo, !.to = to, !.at = at]

(* It is a call. *)
LEMMA NextCall ==
    ASSUME NEW o \in Op, NEW a \in Attempts \cup {None}, NEW todo \in SUBSET Attempts, NEW to \in RunStatus,
           NEW at \in Steps
    PROVE  LET n == NextOp(o, a, todo, to, at)
           IN  n \in Op /\ n.at = at /\ n.a = a /\ n.to = to /\ n.todo = todo
<1> DEFINE n1 == [o EXCEPT !.a = a]
           n2 == [n1 EXCEPT !.todo = todo]
           n3 == [n2 EXCEPT !.to = to]
           n4 == [n3 EXCEPT !.at = at]
<1>1. n1 \in Op /\ n1.a = a
      BY DEF Op
<1>2. NextOp(o, a, todo, to, at) = n4
      BY DEF NextOp
<1> HIDE DEF n1
<1>3. n2 \in Op /\ n2.a = a /\ n2.todo = todo
      BY <1>1 DEF Op
<1> HIDE DEF n2
<1>4. n3 \in Op /\ n3.a = a /\ n3.todo = todo /\ n3.to = to
      BY <1>3 DEF Op
<1> HIDE DEF n3
<1>5. n4 \in Op /\ n4.a = a /\ n4.todo = todo /\ n4.to = to /\ n4.at = at
      BY <1>4 DEF Op
<1> HIDE DEF n4
<1> QED
    BY <1>2, <1>5

(* Start-up code between two calls. *)
LEMMA Scanning ==
    ASSUME Inv, op[Boot] # None
    PROVE  booting /\ op[Boot] \in Op /\ BootOK(op[Boot], attempt, delivered) /\ op[Boot].todo \subseteq Attempts
<1>1. Boot \in Procs /\ Boot \notin Launchers /\ Boot \notin Handlers
      BY SupervisorAssumption DEF Procs
<1>2. booting /\ op[Boot] \in Op /\ BootOK(op[Boot], attempt, delivered)
      BY <1>1, InCall, Zenon
<1>3. op[Boot].todo \subseteq Attempts
      BY <1>2 DEF Op
<1> QED
    BY <1>2, <1>3

(* An attempt is reconciled. *)
LEMMA ReconcileAttemptStep ==
    ASSUME Inv, ReconcileAttempt
    PROVE  Inv'
<1> USE SupervisorAssumption
<1>1. op[Boot] # None /\ op[Boot].at = "scan"
      BY DEF ReconcileAttempt, At
<1>2. booting /\ op[Boot] \in Op /\ BootOK(op[Boot], attempt, delivered) /\ op[Boot].todo \subseteq Attempts
      BY <1>1, Scanning
<1>3. PICK a \in op[Boot].todo : \E t \in JournalledOutcomes(a) :
          op' = [op EXCEPT ![Boot].a = a,
                           ![Boot].todo = op[Boot].todo \ {a},
                           ![Boot].to = IF Terminal(a) THEN "FAILED" ELSE t,
                           ![Boot].at = IF Terminal(a) THEN "mark" ELSE "attRead"]
  <2>1. Boot \in DOMAIN op
        BY Types DEF Procs
  <2> QED
      BY <2>1 DEF ReconcileAttempt
<1>a. PICK t \in JournalledOutcomes(a) :
          op' = [op EXCEPT ![Boot].a = a,
                           ![Boot].todo = op[Boot].todo \ {a},
                           ![Boot].to = IF Terminal(a) THEN "FAILED" ELSE t,
                           ![Boot].at = IF Terminal(a) THEN "mark" ELSE "attRead"]
      BY <1>3
<1> DEFINE todo == op[Boot].todo \ {a}
           to == IF Terminal(a) THEN "FAILED" ELSE t
           at == IF Terminal(a) THEN "mark" ELSE "attRead"
           o == NextOp(op[Boot], a, todo, to, at)
<1>4. op' = [op EXCEPT ![Boot] = o]
  <2>1. Boot \in DOMAIN op
        BY Types DEF Procs
  <2> HIDE DEF todo, to, at
  <2> QED
      BY <1>a, <2>1 DEF todo, to, at, NextOp
<1>5. a \in Attempts /\ attempt[a] # None /\ a # None
      BY <1>2 DEF BootOK
<1>6. /\ to \in {"SUCCEEDED", "FAILED"}
      /\ to = "SUCCEEDED" => a \in delivered
      BY <1>5, Journalled
<1>7. /\ at \in {"mark", "attRead"}
      /\ at = "mark" => IsTerminal(attempt[a])
      BY <1>5 DEF Terminal, Exists, IsTerminal
<1>8. todo \in SUBSET Attempts /\ to \in RunStatus /\ at \in Steps
      BY <1>2, <1>6, <1>7 DEF RunStatus, RunTerminal, Steps
<1> HIDE DEF to, at
<1>9. o \in Op /\ o.at = at /\ o.a = a /\ o.to = to /\ o.todo = todo
  <2> HIDE DEF todo
  <2> QED
      BY <1>2, <1>5, <1>8, NextCall
<1> HIDE DEF o
<1>10. UNCHANGED <<run, attempt, result, journal, tracker, launched, finished, booting, delivered, reconciled>>
       BY DEF ReconcileAttempt, disk, memory, seen
<1>11. Grows
       BY <1>10, Still, Types DEF RestOK
<1>12. BootOK(o, attempt', delivered')
  <2>1. ASSUME NEW b \in Attempts \ o.todo, attempt'[b] # None, ~IsTerminal(attempt'[b])
        PROVE  b = o.a /\ o.at = "attRead"
    <3>1. b = a
          BY <1>1, <1>2, <1>9, <1>10, <2>1 DEF BootOK
    <3> QED
        BY <1>7, <1>9, <1>10, <2>1, <3>1
  <2>2. \A b \in o.todo : attempt'[b] # None
        BY <1>2, <1>9, <1>10 DEF BootOK
  <2>3. /\ o.a # None /\ o.a \in Attempts /\ attempt'[o.a] # None
        /\ o.to \in {"SUCCEEDED", "FAILED"}
        /\ o.to = "SUCCEEDED" => o.a \in delivered'
        /\ o.at \in {"mark", "attRead"}
        BY <1>5, <1>6, <1>7, <1>9, <1>10
  <2> QED
      BY <2>1, <2>2, <2>3 DEF BootOK
<1>13. booting' /\ RestOK' /\ Sound' /\ \A b \in reconciled' : IsTerminal(attempt'[b])
       BY <1>2, <1>11, ReconciledStays, Zenon DEF Grows
<1> QED
    BY <1>2, <1>4, <1>9, <1>10, <1>12, <1>13, BootStep

(* A journal cannot be read: Reconcile ends. *)
LEMMA ReconcileFailsStep ==
    ASSUME Inv, ReconcileAttemptFails
    PROVE  Inv'
<1>1. op[Boot] # None /\ op[Boot].at = "scan" /\ Goto(Boot, "end") /\ UNCHANGED <<disk, memory, seen>>
      BY DEF ReconcileAttemptFails, At
<1>2. booting /\ op[Boot] \in Op /\ BootOK(op[Boot], attempt, delivered)
      BY <1>1, Scanning
<1>3. Grows /\ UNCHANGED <<attempt, finished>>
      BY <1>1, StillCalls
<1> DEFINE o == [op[Boot] EXCEPT !.at = "end"]
<1>4. op' = [op EXCEPT ![Boot] = o]
      BY <1>1 DEF Goto
<1>5. o \in Op /\ o.at = "end" /\ o.a = op[Boot].a /\ o.to = op[Boot].to /\ o.todo = op[Boot].todo
      BY <1>2, SetAt DEF Steps
<1> HIDE DEF o
<1>6. o.at \in BootSteps /\ o.at \notin AttSteps \cup {"journal"} /\ op[Boot].at \notin AttSteps
      BY <1>1, <1>5 DEF BootSteps, AttSteps
<1> QED
    BY <1>1, <1>2, <1>3, <1>4, <1>5, <1>6, BootGoes

(* Nothing can be listed: the daemon serves. *)
LEMMA UnlistedStep ==
    ASSUME Inv, ReconcileUnlisted
    PROVE  Inv'
<1> USE SupervisorAssumption
<1>1. /\ booting /\ op[Boot] = None /\ op' = op /\ booting' = FALSE
      /\ UNCHANGED <<disk, tracker, launched, finished, delivered, reconciled>>
      BY DEF ReconcileUnlisted, seen
<1>2. attempt' = attempt /\ reconciled' \subseteq Attempts
      BY <1>1, Types DEF disk, RestOK
<1>3. \A a \in reconciled' : IsTerminal(attempt'[a])
      BY <1>1, <1>2 DEF Inv
<1>4. op' = [op EXCEPT ![Boot] = None]
      BY <1>1, Types
<1>5. RestOK' /\ Sound'
      BY <1>1, <1>2, BootStill
<1> QED
    BY <1>1, <1>3, <1>4, <1>5, BootStep

(* Reconcile turns to the run. *)
LEMMA ReconcileRunStep ==
    ASSUME Inv, ReconcileRun
    PROVE  Inv'
<1> USE SupervisorAssumption
<1>1. op[Boot] # None /\ op[Boot].at = "scan"
      BY DEF ReconcileRun, At
<1>2. booting /\ op[Boot] \in Op /\ BootOK(op[Boot], attempt, delivered)
      BY <1>1, Scanning
<1> DEFINE at == IF op[Boot].succeeded THEN "end" ELSE "runRead"
           o == NextOp(op[Boot], None, op[Boot].todo, "FAILED", at)
<1>3. at \in {"end", "runRead"} /\ at \in Steps
      BY DEF Steps
<1>4. op' = [op EXCEPT ![Boot].a = None, ![Boot].to = "FAILED", ![Boot].at = at]
      BY DEF ReconcileRun
<1> HIDE DEF at
<1>5. op' = [op EXCEPT ![Boot] = o]
  <2>1. Boot \in DOMAIN op /\ op[Boot] \in Op
        BY <1>2, Types DEF Procs
  <2>2. o = [op[Boot] EXCEPT !.a = None, !.to = "FAILED", !.at = at]
        BY <2>1 DEF Op, NextOp
  <2> HIDE DEF o
  <2> QED
      BY <1>4, <2>1, <2>2
<1>6. op[Boot].todo \in SUBSET Attempts /\ "FAILED" \in RunStatus
      BY <1>2 DEF Op, RunStatus, RunTerminal
<1>7. o \in Op /\ o.at = at /\ o.a = None /\ o.to = "FAILED" /\ o.todo = op[Boot].todo
      BY <1>2, <1>3, <1>6, NextCall
<1> HIDE DEF o
<1>8. UNCHANGED <<run, attempt, result, journal, tracker, launched, finished, booting, delivered, reconciled>>
      BY DEF ReconcileRun, disk, memory, seen
<1>9. Grows
      BY <1>8, Still, Types DEF RestOK
<1>10. BootOK(o, attempt', delivered')
       BY <1>1, <1>2, <1>3, <1>7, <1>8 DEF BootOK
<1>11. booting' /\ RestOK' /\ Sound' /\ \A b \in reconciled' : IsTerminal(attempt'[b])
       BY <1>2, <1>9, ReconciledStays, Zenon DEF Grows
<1> QED
    BY <1>2, <1>5, <1>7, <1>8, <1>10, <1>11, BootStep

(* Reconcile is over, and the daemon serves. *)
LEMMA ReconcileEndsStep ==
    ASSUME Inv, ReconcileEnds
    PROVE  Inv'
<1>1. op[Boot] # None /\ op[Boot].at = "end"
      BY DEF ReconcileEnds, At
<1>2. booting /\ BootOK(op[Boot], attempt, delivered)
      BY <1>1, Scanning
<1>3. op' = [op EXCEPT ![Boot] = None]
      BY DEF ReconcileEnds, Return
<1>4. /\ UNCHANGED <<disk, tracker, launched, finished, delivered>> /\ booting' = FALSE
      /\ reconciled' = {a \in Attempts : attempt[a] # None} \ op[Boot].todo
      BY DEF ReconcileEnds, Exists
<1>5. attempt' = attempt /\ finished' = finished /\ reconciled' \subseteq Attempts
      BY <1>4 DEF disk
<1>6. RestOK' /\ Sound'
      BY <1>4, <1>5, BootStill
<1>7. \A a \in reconciled' : IsTerminal(attempt'[a])
      BY <1>1, <1>2, <1>4, <1>5 DEF BootOK
<1> QED
    BY <1>2, <1>3, <1>5, <1>6, <1>7, BootStep

(* The daemon dies. *)
LEMMA CrashStep ==
    ASSUME Inv, Crash
    PROVE  Inv'
<1>1. /\ tracker' = [a \in Attempts |-> <<>>] /\ op' = [p \in Procs |-> None]
      /\ finished' = Launchers /\ booting' = TRUE /\ reconciled' = {}
      /\ UNCHANGED <<run, attempt, result, journal, launched, delivered>>
      BY DEF Crash, disk
<1>2. \A a \in Attempts : tracker'[a] = <<>>
      BY <1>1
<1>3. tracker' \in [Attempts -> Seq(Tracker)]
      BY <1>1
<1>4. op' \in [Procs -> Op \cup {None}] /\ \A p \in Procs : op'[p] = None
      BY <1>1
<1>5. TypeOK'
      BY <1>1, <1>3, <1>4, Types DEF TypeOK, RestOK, AttemptRecord
<1>6. Sound'
  <2>1. \A a \in Attempts : \A n \in 1..Len(tracker'[a]) :
            tracker'[a][n].verified = "SUCCEEDED" => a \in delivered'
        BY <1>2
  <2> QED
      BY <1>1, <1>2, <2>1, Types DEF Sound
<1>7. Quiet'
      BY <1>1, <1>4 DEF Quiet, Procs
<1> QED
    BY <1>1, <1>4, <1>5, <1>6, <1>7 DEF Inv, Procs

-----------------------------------------------------------------------------
(* The invariant holds at the start. *)
LEMMA Initially == Init => Inv
<1> SUFFICES ASSUME Init PROVE Inv
    OBVIOUS
<1>1. TypeOK
  <2>1. run \in [status : RunStatus, gen : Nat]
        BY DEF Init, RunStatus
  <2>2. tracker \in [Attempts -> Seq(Tracker)]
        BY DEF Init
  <2>3. /\ attempt \in [Attempts -> [status : AttemptStatus, gen : Nat] \cup {None}]
        /\ result \in [a : Attempts, status : Outcomes] \cup {None}
        /\ journal \in [Attempts -> Outcomes \cup {None}]
        /\ op \in [Procs -> Op \cup {None}]
        BY DEF Init
  <2>4. /\ launched \subseteq Launchers /\ finished \subseteq Launchers /\ booting \in BOOLEAN
        /\ delivered \subseteq Attempts /\ reconciled \subseteq Attempts
        BY DEF Init
  <2> QED
      BY <2>1, <2>2, <2>3, <2>4 DEF TypeOK
<1>2. Sound
      BY SupervisorAssumption DEF Init, Sound, Outcomes
<1>3. Quiet
      BY DEF Init, Quiet, Procs
<1> QED
    BY <1>1, <1>2, <1>3 DEF Inv, Init, Procs

(* Every step of a call keeps it. *)
LEMMA StepKeeps ==
    ASSUME Inv, NEW p \in Procs, Step(p)
    PROVE  Inv'
BY LegacySteps, ListStep, CreateStep, EstablishStep, ReadAttemptStep, AttemptGenerationStep,
   UpdateAttemptStep, SaveSteps, JournalSteps, RunSteps, StoreFailsStep, MarkStep, Zenon DEF Step

(* Every step keeps it. *)
LEMMA Inductive == Inv /\ [Next]_vars => Inv'
<1> SUFFICES ASSUME Inv, [Next]_vars PROVE Inv'
    OBVIOUS
<1>1. CASE \E p \in Procs : Step(p)
      BY <1>1, StepKeeps
<1>2. CASE Start
      BY <1>2, ReconcileStep, UnlistedStep, ReconcileAttemptStep, ReconcileFailsStep, ReconcileRunStep,
         ReconcileEndsStep DEF Start
<1>3. ASSUME NEW p \in Launchers,
             \/ StartDurableRun(p) \/ LaunchFails(p)
             \/ \E outcome \in {"SUCCEEDED", "FAILED"} : FinalizeRun(p, outcome)
      PROVE  Inv'
      BY <1>3, LaunchSteps
<1>4. ASSUME NEW p \in Handlers, NEW a \in Attempts,
             \/ \E outcome \in Outcomes : HandleResult(p, a, outcome)
             \/ Cancel(p, a) \/ Finalize(p, a)
      PROVE  Inv'
      BY <1>4, BeginSteps
<1>5. CASE Crash
      BY <1>5, CrashStep
<1>6. CASE UNCHANGED vars
  <2>1. /\ UNCHANGED <<run, attempt, result, journal, tracker, launched, finished, booting, delivered>>
        /\ UNCHANGED <<op, reconciled>>
        BY <1>6 DEF vars, disk, memory, seen
  <2>2. TypeOK' /\ Sound' /\ Quiet'
        BY <2>1 DEF Inv, TypeOK, Sound, Quiet
  <2> QED
      BY <2>1, <2>2 DEF Inv
<1> QED
    BY <1>1, <1>2, <1>3, <1>4, <1>5, <1>6 DEF Next

(* Inv holds in every state of the supervisor, over any number of attempts,    *)
(* launchers, callers, failed writes and restarts.                             *)
THEOREM InvHolds == Spec => []Inv
<1>1. Init => Inv
      BY Initially
<1>2. Inv /\ [Next]_vars => Inv'
      BY Inductive
<1> QED
    BY <1>1, <1>2, PTL DEF Spec

(* Every variable of the supervisor keeps its type.                            *)
THEOREM TypeCorrect == Spec => []TypeOK
<1>1. Inv => TypeOK
      BY DEF Inv
<1> QED
    BY <1>1, InvHolds, PTL

(* "Success is finalized ONLY from a verified InvokeJobResult event": however  *)
(* many callers race and wherever the daemon dies, an attempt that SUCCEEDED   *)
(* had a verified SUCCEEDED result.                                            *)
THEOREM VerifiedSuccess == Spec => []SuccessNeedsVerifiedResult
<1>1. Inv => SuccessNeedsVerifiedResult
      BY DEF Inv, Sound, SuccessNeedsVerifiedResult, Exists
<1> QED
    BY <1>1, InvHolds, PTL

(* What Reconcile got through without an error has no active lease, and stays  *)
(* without one for as long as the daemon serves.                               *)
THEOREM LeasesRevoked == Spec => []NoActiveLeaseAfterRestart
<1>1. Inv => NoActiveLeaseAfterRestart
      BY DEF Inv, NoActiveLeaseAfterRestart, Terminal, Exists, IsTerminal
<1> QED
    BY <1>1, InvHolds, PTL

(* However many callers race, and whichever call of the store fails, the       *)
(* supervisor makes the run SUCCEEDED, in a live call and in Reconcile, only   *)
(* for an attempt that had a verified SUCCEEDED result.                        *)
THEOREM VerifiedRunSuccess == Spec => RunSuccessNeedsVerifiedResult
<1>1. Inv => \A p \in Procs :
          At(p, "runWrite") /\ op[p].to = "SUCCEEDED" => op[p].a \in delivered
  <2> SUFFICES ASSUME Inv, NEW p \in Procs, At(p, "runWrite"), op[p].to = "SUCCEEDED"
               PROVE  op[p].a \in delivered
      OBVIOUS
  <2>1. op[p] # None /\ op[p].at \in CallSteps
        BY DEF At, CallSteps
  <2> QED
      BY <2>1, Calling DEF CallOK, BootOK
<1>2. Inv => [\A p \in Procs :
                 (At(p, "runWrite") /\ op[p].to = "SUCCEEDED" /\ run' # run) =>
                     op[p].a \in delivered]_run
      BY <1>1
<1> QED
    BY <1>2, InvHolds, PTL DEF RunSuccessNeedsVerifiedResult

=============================================================================

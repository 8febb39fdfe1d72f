---------------------------- MODULE TriggerProofs ----------------------------
(***************************************************************************)
(* Proofs about module Trigger.                                            *)
(*                                                                         *)
(* The invariant rests on ids and on ownership.  An id is drawn either for *)
(* a request or for an execution, so the runs that CancelRun can wait for  *)
(* and the runs that streams finish are different (IdsOK, EntriesOK).  At  *)
(* any time at most one party may write the feed of a request: the call    *)
(* that reserved its key until it has subscribed its bridge, then that     *)
(* bridge until the first terminal event (FeedOK).  A live reservation is  *)
(* in the file, and the call that made it is the only one that may start   *)
(* its run (KeysOK).  The flag of an agent that forbids concurrency is set *)
(* as long as its one cron goroutine runs (CronOK).                        *)
(***************************************************************************)
EXTENDS Trigger, FiniteSetTheorems, TLAPS

-----------------------------------------------------------------------------
(* The invariant. *)

(* The locals of a call, a bus buffer and a bridge. *)
Job == [pc : {"idle", "invoke", "mark", "admit", "start", "bridge", "stream"}, key : Keys \cup {None},
        hash : Hashes \cup {None}, schedule : Schedules \cup {None}, run : 0..MaxRuns,
        replay : BOOLEAN, actual : 0..MaxRuns, cursor : Nat]

Buffer == [known : BOOLEAN, events : Seq(Types), closed : BOOLEAN]

BridgeState == [on : BOOLEAN, store : 0..MaxRuns, ch : Seq(Types), shut : BOOLEAN]

(* TypeOK with all the fields. *)
TypeInv ==
    /\ idem \in [Keys -> Reservation \cup {None}]
    /\ idemFile \in [Keys -> Reservation \cup {None}]
    /\ entries \in [Runs -> RunEntry \cup {None}]
    /\ feed \in [Runs -> Seq(Types)]
    /\ bus \in [Runs -> Buffer]
    /\ bridge \in [Runs -> BridgeState]
    /\ \A r \in Runs : Len(bridge[r].ch) <= BusBuffer
    /\ exec \in [Runs -> {"none", "running", "ended"}]
    /\ nextRun \in 1..(MaxRuns + 1)
    /\ job \in [Clients -> Job]
    /\ cancel \in [Cancellers -> 0..MaxRuns]
    /\ outcomes \in [Runs -> Nat]
    /\ starts \in [Keys -> Nat]
    /\ active \subseteq {AgentOf[s] : s \in Schedules}

(* What the program counter of a call says about its locals. *)
JobOK(j) ==
    /\ j.pc \in {"admit", "start", "bridge", "stream"} => j.run \in Runs
    /\ j.pc \in {"start", "bridge"} => ~j.replay
    /\ j.pc = "bridge" => j.actual \in Runs
    /\ j.schedule # None => j.pc = "invoke"

(* A run id is drawn for a request or for an execution, never for both. *)
Drawn(r) == r < nextRun /\ exec[r] = "none"

(* Ids are used for what they were drawn for, and those not yet drawn are not *)
(* used.                                                                     *)
IdsOK ==
    /\ \A c \in Clients : JobOK(job[c]) /\ (job[c].run # 0 => Drawn(job[c].run))
    /\ \A k \in Keys : /\ idem[k] # None => Drawn(idem[k].run)
                       /\ idemFile[k] # None => Drawn(idemFile[k].run)
    /\ \A q \in Runs : bridge[q].on => bridge[q].store \in Runs /\ Drawn(bridge[q].store)
    /\ \A r \in Runs : r >= nextRun => exec[r] = "none" /\ entries[r] = None /\ feed[r] = <<>>

(* The call that may write the feed of a request, and the bridge after it. *)
Owns(j, r) == j.pc \in {"admit", "start", "bridge"} /\ ~j.replay /\ j.run = r

Feeds(b, r) == b.on /\ b.store = r

(* FeedWellFormed, for one feed; a feed that may still grow; events other     *)
(* than the announcement.                                                    *)
WellFormed(f) ==
    \A i \in 1..Len(f) : /\ f[i] = "run_created" <=> i = 1
                         /\ f[i] \in Terminal => i = Len(f)

Open(f) == f # <<>> /\ \A i \in 1..Len(f) : f[i] \notin Terminal

NeverCreated(q) == \A i \in 1..Len(q) : q[i] # "run_created"

(* Every feed is well formed, and has at most one writer. *)
FeedOK ==
    /\ \A r \in Runs : WellFormed(feed[r])
    /\ \A r \in Runs : NeverCreated(bus[r].events) /\ NeverCreated(bridge[r].ch)
    /\ \A c, d \in Clients : \A r \in Runs : Owns(job[c], r) /\ Owns(job[d], r) => c = d
    /\ \A c \in Clients : \A q, r \in Runs : ~(Owns(job[c], r) /\ Feeds(bridge[q], r))
    /\ \A p, q, r \in Runs : Feeds(bridge[p], r) /\ Feeds(bridge[q], r) => p = q
    /\ \A c \in Clients : \A r \in Runs : Owns(job[c], r) =>
          feed[r] = IF job[c].pc = "admit" THEN <<>> ELSE <<"run_created">>
    /\ \A q, r \in Runs : Feeds(bridge[q], r) => Open(feed[r])

(* A reservation that has not expired. *)
Lives(e) == e # None /\ e.live

(* Live reservations are in the file; a run is started once for each, by the  *)
(* call that made it.                                                        *)
KeysOK ==
    /\ \A k \in Keys : Lives(idem[k]) \/ Lives(idemFile[k]) => idem[k] = idemFile[k]
    /\ \A k \in Keys : starts[k] <= 1 /\ (~Lives(idem[k]) => starts[k] = 0)
    /\ \A c \in Clients :
          job[c].pc \in {"admit", "start"} /\ ~job[c].replay /\ Holds(job[c]) => starts[job[c].key] = 0

(* Nobody may write the feed of a run. *)
Free(r) == /\ \A c \in Clients : ~Owns(job[c], r)
           /\ \A q \in Runs : ~Feeds(bridge[q], r)

(* The entry of a run in the run store: a run that was started by Invoke does *)
(* not finish but by a cancellation, one of a stream is not running, and a   *)
(* finished one agrees with its feed, which nobody writes any more.          *)
EntryOK(r) ==
    entries[r] # None =>
        /\ exec[r] # "none" => entries[r].status \in {"PENDING", "RUNNING", "CANCELLED"}
        /\ exec[r] = "none" => entries[r].status # "RUNNING"
        /\ entries[r].status \in {"SUCCEEDED", "FAILED"} =>
              /\ Free(r)
              /\ \A i \in 1..Len(feed[r]) :
                    feed[r][i] \in Terminal => StatusOf(feed[r][i]) = entries[r].status

(* An audited outcome is on the entry. *)
OutcomeOK(r) ==
    /\ outcomes[r] <= 1
    /\ outcomes[r] # 0 => /\ entries[r] # None /\ entries[r].status = "CANCELLED"
                          /\ entries[r].forced \/ entries[r].audited

(* The run store: a run that is waited for was started by Invoke, and the run *)
(* of a stream is registered.                                                *)
EntriesOK ==
    /\ \A r \in Runs : EntryOK(r) /\ OutcomeOK(r)
    /\ \A x \in Cancellers : cancel[x] # 0 => exec[cancel[x]] # "none" /\ entries[cancel[x]] # None
    /\ \A c \in Clients : job[c].pc \in {"start", "bridge", "stream"} => entries[job[c].run] # None

(* All schedules of an agent forbid concurrency. *)
AllForbid(agent) == \A t \in Schedules : AgentOf[t] = agent => t \in Forbid

(* Such an agent has at most one goroutine, and its flag is set meanwhile. *)
CronOK ==
    /\ \A c \in Clients : job[c].schedule # None /\ AllForbid(AgentOf[job[c].schedule]) =>
          AgentOf[job[c].schedule] \in active
    /\ \A c, d \in Clients :
          /\ job[c].schedule # None /\ job[d].schedule # None
          /\ AgentOf[job[c].schedule] = AgentOf[job[d].schedule]
          /\ AllForbid(AgentOf[job[c].schedule])
          => c = d

(* The call that is about to mark a run as running has started it.  Ids rest  *)
(* on it only for that step, so it is kept apart.                            *)
MarkOK == \A c \in Clients : job[c].pc = "mark" => job[c].actual \in Runs /\ exec[job[c].actual] # "none"

(* The inductive invariant. *)
Inv == TypeInv /\ IdsOK /\ FeedOK /\ KeysOK /\ EntriesOK /\ CronOK

-----------------------------------------------------------------------------
(* Records. *)

(* A call moves on. *)
LEMMA SetPc ==
    ASSUME NEW j \in Job, NEW pc \in {"idle", "invoke", "mark", "admit", "start", "bridge", "stream"}
    PROVE  LET n == [j EXCEPT !.pc = pc]
           IN  /\ n \in Job /\ n.pc = pc /\ n.key = j.key /\ n.schedule = j.schedule /\ n.run = j.run
               /\ n.replay = j.replay /\ n.actual = j.actual /\ n.cursor = j.cursor
BY DEF Job

(* A call learns the id of the run it started. *)
LEMMA SetActual ==
    ASSUME NEW j \in Job, NEW a \in 0..MaxRuns
    PROVE  LET n == [j EXCEPT !.actual = a]
           IN  /\ n \in Job /\ n.pc = j.pc /\ n.key = j.key /\ n.schedule = j.schedule /\ n.run = j.run
               /\ n.replay = j.replay /\ n.actual = a
BY DEF Job

(* A stream has sent an event on. *)
LEMMA SetCursor ==
    ASSUME NEW j \in Job, NEW i \in Nat
    PROVE  LET n == [j EXCEPT !.cursor = i]
           IN  /\ n \in Job /\ n.pc = j.pc /\ n.key = j.key /\ n.schedule = j.schedule /\ n.run = j.run
               /\ n.replay = j.replay /\ n.actual = j.actual
BY DEF Job

(* The locals of a caller that is in no call. *)
LEMMA IdleOK ==
    /\ Idle \in Job /\ Idle.pc = "idle" /\ Idle.run = 0 /\ Idle.schedule = None /\ Idle.replay = FALSE
    /\ Idle.actual = 0 /\ JobOK(Idle) /\ \A r : ~Owns(Idle, r)
<1>1. /\ Idle \in Job /\ Idle.pc = "idle" /\ Idle.run = 0 /\ Idle.schedule = None /\ Idle.replay = FALSE
      /\ Idle.actual = 0
      BY TriggerAssumption DEF Idle, Job
<1> QED
    BY <1>1 DEF JobOK, Owns

(* The locals of a new request. *)
Request(k, h, pc, r) == [Idle EXCEPT !.pc = pc, !.key = k, !.hash = h, !.run = r]

(* A request's call. *)
LEMMA NewRequest ==
    ASSUME NEW k \in Keys \cup {None}, NEW h \in Hashes \cup {None}, NEW pc \in {"invoke", "admit"},
           NEW r \in Runs
    PROVE  LET n == Request(k, h, pc, r)
           IN  /\ n \in Job /\ n.pc = pc /\ n.key = k /\ n.hash = h /\ n.run = r /\ n.schedule = None
               /\ ~n.replay
<1> DEFINE n1 == [Idle EXCEPT !.pc = pc]
           n2 == [n1 EXCEPT !.key = k]
           n3 == [n2 EXCEPT !.hash = h]
           n4 == [n3 EXCEPT !.run = r]
<1>1. r \in 0..MaxRuns
      BY TriggerAssumption DEF Runs
<1>2. Request(k, h, pc, r) = n4
      BY DEF Request
<1>3. n1 \in Job /\ n1.pc = pc /\ n1.schedule = None /\ ~n1.replay
  <2>1. pc \in {"idle", "invoke", "mark", "admit", "start", "bridge", "stream"}
        OBVIOUS
  <2> QED
      BY <2>1, IdleOK, SetPc
<1> HIDE DEF n1
<1>4. n2 \in Job /\ n2.pc = pc /\ n2.schedule = None /\ ~n2.replay /\ n2.key = k
      BY <1>3 DEF Job
<1> HIDE DEF n2
<1>5. n3 \in Job /\ n3.pc = pc /\ n3.schedule = None /\ ~n3.replay /\ n3.key = k /\ n3.hash = h
      BY <1>4 DEF Job
<1> HIDE DEF n3
<1>6. /\ n4 \in Job /\ n4.pc = pc /\ n4.schedule = None /\ ~n4.replay /\ n4.key = k /\ n4.hash = h
      /\ n4.run = r
      BY <1>1, <1>5 DEF Job
<1> HIDE DEF n4
<1> QED
    BY <1>2, <1>6

(* The locals of a new cron goroutine. *)
Tick(s, r) == [Idle EXCEPT !.pc = "invoke", !.schedule = s, !.run = r]

(* A cron goroutine's call. *)
LEMMA NewTick ==
    ASSUME NEW s \in Schedules, NEW r \in Runs
    PROVE  LET n == Tick(s, r)
           IN  n \in Job /\ n.pc = "invoke" /\ n.schedule = s /\ n.run = r /\ ~n.replay
<1> DEFINE m1 == [Idle EXCEPT !.pc = "invoke"]
           m2 == [m1 EXCEPT !.schedule = s]
           m3 == [m2 EXCEPT !.run = r]
<1>1. r \in 0..MaxRuns
      BY TriggerAssumption DEF Runs
<1>2. Tick(s, r) = m3
      BY DEF Tick
<1>3. m1 \in Job /\ m1.pc = "invoke" /\ ~m1.replay
      BY IdleOK, SetPc
<1> HIDE DEF m1
<1>4. m2 \in Job /\ m2.pc = "invoke" /\ ~m2.replay /\ m2.schedule = s
      BY <1>3 DEF Job
<1> HIDE DEF m2
<1>5. m3 \in Job /\ m3.pc = "invoke" /\ ~m3.replay /\ m3.schedule = s /\ m3.run = r
      BY <1>1, <1>4 DEF Job
<1> HIDE DEF m3
<1> QED
    BY <1>2, <1>5

(* A replay takes the run of the entry it found. *)
LEMMA Replays ==
    ASSUME NEW j \in Job, NEW r \in Runs
    PROVE  LET n == [j EXCEPT !.run = r, !.replay = TRUE]
           IN  /\ n \in Job /\ n.pc = j.pc /\ n.key = j.key /\ n.schedule = j.schedule /\ n.run = r
               /\ n.replay = TRUE
<1> DEFINE m == [j EXCEPT !.run = r]
           n == [m EXCEPT !.replay = TRUE]
<1>1. r \in 0..MaxRuns
      BY TriggerAssumption DEF Runs
<1>2. /\ m \in Job /\ m.pc = j.pc /\ m.key = j.key /\ m.schedule = j.schedule /\ m.run = r
      BY <1>1 DEF Job
<1>3. [j EXCEPT !.run = r, !.replay = TRUE] = n
      OBVIOUS
<1> HIDE DEF m
<1>4. /\ n \in Job /\ n.pc = j.pc /\ n.key = j.key /\ n.schedule = j.schedule /\ n.run = r
      /\ n.replay = TRUE
      BY <1>2 DEF Job
<1> QED
    BY <1>3, <1>4

(* The locals of an Invoke that has registered its run. *)
Started(r) == [Idle EXCEPT !.pc = "mark", !.actual = r]

(* It has no request's id any more. *)
LEMMA NewStarted ==
    ASSUME NEW r \in Runs
    PROVE  LET n == Started(r)
           IN  n \in Job /\ n.pc = "mark" /\ n.schedule = None /\ n.run = 0 /\ n.actual = r /\ JobOK(n)
<1> DEFINE m == [Idle EXCEPT !.pc = "mark"]
           n == [m EXCEPT !.actual = r]
<1>1. r \in 0..MaxRuns
      BY TriggerAssumption DEF Runs
<1>2. Started(r) = n
      BY DEF Started
<1>3. m \in Job /\ m.pc = "mark" /\ m.schedule = None /\ m.run = 0
      BY IdleOK, SetPc
<1> HIDE DEF m
<1>4. n \in Job /\ n.pc = "mark" /\ n.schedule = None /\ n.run = 0 /\ n.actual = r
      BY <1>1, <1>3, SetActual
<1> HIDE DEF n
<1>5. JobOK(n)
      BY <1>4 DEF JobOK
<1> QED
    BY <1>2, <1>4, <1>5

(* One caller's locals change. *)
LEMMA Moves ==
    ASSUME TypeInv, NEW c \in Clients, NEW n \in Job, job' = [job EXCEPT ![c] = n]
    PROVE  job' \in [Clients -> Job] /\ \A d \in Clients : job'[d] = IF d = c THEN n ELSE job[d]
BY DEF TypeInv

-----------------------------------------------------------------------------
(* The bus. *)

(* Publish keeps the types and never announces a run; bridges stay as they    *)
(* are but for their channels.                                                *)
LEMMA Publishes ==
    ASSUME Inv, NEW r \in Runs, NEW type \in Types, type # "run_created", Publish(r, type)
    PROVE  /\ bus' \in [Runs -> Buffer] /\ bridge' \in [Runs -> BridgeState]
           /\ \A q \in Runs : Len(bridge'[q].ch) <= BusBuffer
           /\ \A q \in Runs : NeverCreated(bus'[q].events) /\ NeverCreated(bridge'[q].ch)
           /\ \A q \in Runs : bridge'[q].on = bridge[q].on /\ bridge'[q].store = bridge[q].store
<1>1. /\ bus \in [Runs -> Buffer] /\ bridge \in [Runs -> BridgeState]
      /\ \A q \in Runs : Len(bridge[q].ch) <= BusBuffer
      /\ \A q \in Runs : NeverCreated(bus[q].events) /\ NeverCreated(bridge[q].ch)
      BY DEF Inv, TypeInv, FeedOK
<1>2. CASE bus[r].closed
      BY <1>1, <1>2 DEF Publish
<1>3. CASE ~bus[r].closed
  <2> DEFINE b == [known |-> TRUE, events |-> Append(bus[r].events, type), closed |-> type \in Terminal]
             ch == Offered(bridge[r].ch, type)
  <2>1. bus' = [bus EXCEPT ![r] = b]
        BY <1>3 DEF Publish
  <2>2. bus[r] \in Buffer /\ bus[r].events \in Seq(Types) /\ NeverCreated(bus[r].events)
        BY <1>1 DEF Buffer
  <2>3. b \in Buffer /\ b.events = Append(bus[r].events, type)
        BY <2>2 DEF Buffer
  <2> HIDE DEF b
  <2>4. NeverCreated(b.events)
        BY <2>2, <2>3 DEF NeverCreated
  <2>5. bus' \in [Runs -> Buffer] /\ \A q \in Runs : NeverCreated(bus'[q].events)
        BY <1>1, <2>1, <2>3, <2>4
  <2>6. bridge[r] \in BridgeState /\ bridge[r].ch \in Seq(Types) /\ NeverCreated(bridge[r].ch)
        BY <1>1 DEF BridgeState
  <2>7. ch \in Seq(Types) /\ Len(ch) <= BusBuffer /\ NeverCreated(ch)
    <3>1. BusBuffer \in Nat /\ Len(bridge[r].ch) \in Nat /\ Len(bridge[r].ch) <= BusBuffer
          BY <1>1, <2>6, TriggerAssumption
    <3> QED
        BY <2>6, <3>1 DEF Offered, NeverCreated
  <2> HIDE DEF ch
  <2>8. CASE ~bridge[r].on
        BY <1>1, <1>3, <2>5, <2>8 DEF Publish
  <2>9. CASE bridge[r].on
    <3> DEFINE n1 == [bridge[r] EXCEPT !.ch = ch]
               shut == type \in Terminal
               n == [n1 EXCEPT !.shut = shut]
    <3>1. bridge' = [bridge EXCEPT ![r] = n]
      <4>1. r \in DOMAIN bridge
            BY <1>1
      <4> QED
          BY <1>3, <2>9, <4>1 DEF Publish, ch
    <3>2. n1 \in BridgeState /\ n1.ch = ch /\ n1.on = bridge[r].on /\ n1.store = bridge[r].store
          BY <2>6, <2>7 DEF BridgeState
    <3> HIDE DEF n1
    <3>3. shut \in BOOLEAN
          OBVIOUS
    <3> HIDE DEF shut
    <3>4. n \in BridgeState /\ n.ch = ch /\ n.on = bridge[r].on /\ n.store = bridge[r].store
          BY <3>2, <3>3 DEF BridgeState
    <3> HIDE DEF n
    <3>5. \A q \in Runs : bridge'[q] = IF q = r THEN n ELSE bridge[q]
          BY <1>1, <3>1
    <3>6. bridge' \in [Runs -> BridgeState]
          BY <1>1, <3>1, <3>4
    <3> QED
        BY <1>1, <2>5, <2>7, <3>4, <3>5, <3>6
  <2> QED
      BY <2>8, <2>9
<1> QED
    BY <1>2, <1>3

-----------------------------------------------------------------------------
(* Calls that go on or return own nothing that they did not own before. *)

(* What a call may become that does not announce or hand over its feed. *)
Later(n, j) ==
    /\ JobOK(n)
    /\ n.run \in {0, j.run}
    /\ n.schedule \in {None, j.schedule}
    /\ n.pc \in {"admit", "start", "bridge"} =>
          /\ n.run = j.run /\ n.key = j.key /\ n.replay = j.replay
          /\ j.pc \in {"admit", "start", "bridge"}
          /\ n.pc = "admit" <=> j.pc = "admit"
          /\ n.pc = "start" => j.pc = "start"
    /\ n.pc \in {"start", "bridge", "stream"} => j.pc \in {"start", "bridge", "stream"} /\ n.run = j.run

(* All calls go on, return or stay. *)
JobsLater == \A c \in Clients : Later(job'[c], job[c])

(* No bridge is added. *)
BridgesShrink ==
    \A q \in Runs : bridge'[q].on => bridge[q].on /\ bridge'[q].store = bridge[q].store

(* A call that stays as it is. *)
LEMMA LaterSame ==
    ASSUME NEW j \in Job, JobOK(j)
    PROVE  Later(j, j)
BY DEF Later

(* A call that returns. *)
LEMMA LaterIdle ==
    ASSUME NEW j
    PROVE  Later(Idle, j)
BY IdleOK DEF Later

(* One call goes on. *)
LEMMA OneLater ==
    ASSUME Inv, NEW c \in Clients, NEW n \in Job, job' = [job EXCEPT ![c] = n], Later(n, job[c])
    PROVE  JobsLater /\ job' \in [Clients -> Job]
<1>1. job' \in [Clients -> Job] /\ \A d \in Clients : job'[d] = IF d = c THEN n ELSE job[d]
      BY Moves DEF Inv
<1>2. ASSUME NEW d \in Clients PROVE Later(job[d], job[d])
  <2>1. job[d] \in Job /\ JobOK(job[d])
        BY DEF Inv, TypeInv, IdsOK
  <2> QED
      BY <2>1, LaterSame
<1> QED
    BY <1>1, <1>2 DEF JobsLater

(* No call moves. *)
LEMMA NoneLater ==
    ASSUME Inv, UNCHANGED job
    PROVE  JobsLater
<1>1. ASSUME NEW d \in Clients PROVE Later(job'[d], job[d])
  <2>1. job[d] \in Job /\ JobOK(job[d])
        BY DEF Inv, TypeInv, IdsOK
  <2> QED
      BY <2>1, LaterSame
<1> QED
    BY <1>1 DEF JobsLater

(* Ids stay what they were drawn for. *)
LEMMA IdsKept ==
    ASSUME Inv, TypeInv', BridgesShrink, \A c \in Clients : JobOK(job'[c]) /\ job'[c].run \in {0, job[c].run},
           nextRun <= nextRun',
           \A r \in Runs : r < nextRun /\ exec[r] = "none" => exec'[r] = "none",
           \A k \in Keys : idem'[k] # None => idem[k] # None /\ idem'[k].run = idem[k].run,
           \A k \in Keys : idemFile'[k] # None =>
                 \/ idemFile[k] # None /\ idemFile'[k].run = idemFile[k].run
                 \/ idem[k] # None /\ idemFile'[k].run = idem[k].run,
           \A r \in Runs : r >= nextRun' => exec'[r] = "none" /\ entries'[r] = None /\ feed'[r] = <<>>
    PROVE  IdsOK'
<1>1. nextRun \in Int /\ nextRun' \in Int /\ \A r \in Runs : r \in Int
      BY TriggerAssumption DEF Inv, TypeInv, Runs
<1>2. ASSUME NEW r \in Runs, Drawn(r) PROVE Drawn(r)'
      BY <1>1, <1>2 DEF Drawn
<1>3. ASSUME NEW c \in Clients PROVE JobOK(job'[c]) /\ (job'[c].run # 0 => Drawn(job[c].run)')
  <2>1. JobOK(job'[c]) /\ job'[c].run \in {0, job[c].run} /\ job[c] \in Job
        BY DEF Inv, TypeInv
  <2>2. CASE job'[c].run # 0
    <3>1. job'[c].run = job[c].run /\ job[c].run \in Runs
          BY <2>1, <2>2, TriggerAssumption DEF Job, Runs
    <3>2. Drawn(job[c].run)
          BY <2>2, <3>1 DEF Inv, IdsOK
    <3> QED
        BY <1>2, <2>1, <3>1, <3>2
  <2> QED
      BY <2>1, <2>2
<1>4. ASSUME NEW k \in Keys PROVE /\ idem'[k] # None => Drawn(idem[k].run)'
                                  /\ idemFile'[k] # None => Drawn(idemFile[k].run)'
  <2>1. idem[k] # None => idem[k].run \in Runs /\ Drawn(idem[k].run)
        BY DEF Inv, TypeInv, IdsOK, Reservation
  <2>2. idemFile[k] # None => idemFile[k].run \in Runs /\ Drawn(idemFile[k].run)
        BY DEF Inv, TypeInv, IdsOK, Reservation
  <2> QED
      BY <1>2, <2>1, <2>2
<1>5. ASSUME NEW q \in Runs, bridge'[q].on PROVE bridge'[q].store \in Runs /\ Drawn(bridge[q].store)'
  <2>1. bridge[q].on /\ bridge'[q].store = bridge[q].store
        BY <1>5 DEF BridgesShrink
  <2>2. bridge[q].store \in Runs /\ Drawn(bridge[q].store)
        BY <2>1 DEF Inv, IdsOK
  <2> QED
      BY <1>2, <2>1, <2>2
<1> QED
    BY <1>3, <1>4, <1>5 DEF IdsOK

(* The same, when calls go on. *)
LEMMA IdsLater ==
    ASSUME Inv, TypeInv', JobsLater, BridgesShrink, nextRun <= nextRun',
           \A r \in Runs : r < nextRun /\ exec[r] = "none" => exec'[r] = "none",
           \A k \in Keys : idem'[k] # None => idem[k] # None /\ idem'[k].run = idem[k].run,
           \A k \in Keys : idemFile'[k] # None =>
                 \/ idemFile[k] # None /\ idemFile'[k].run = idemFile[k].run
                 \/ idem[k] # None /\ idemFile'[k].run = idem[k].run,
           \A r \in Runs : r >= nextRun' => exec'[r] = "none" /\ entries'[r] = None /\ feed'[r] = <<>>
    PROVE  IdsOK'
<1>1. \A c \in Clients : JobOK(job'[c]) /\ job'[c].run \in {0, job[c].run}
      BY DEF JobsLater, Later
<1> QED
    BY <1>1, IdsKept

(* Owners and bridges were owners and bridges before. *)
LEMMA OwnersLater ==
    ASSUME JobsLater, NEW c \in Clients, NEW r, Owns(job'[c], r)
    PROVE  Owns(job[c], r) /\ (job'[c].pc = "admit" <=> job[c].pc = "admit")
BY DEF JobsLater, Later, Owns

(* The same for bridges. *)
LEMMA FeedersLater ==
    ASSUME BridgesShrink, NEW q \in Runs, NEW r, Feeds(bridge'[q], r)
    PROVE  Feeds(bridge[q], r)
BY DEF BridgesShrink, Feeds

(* Feeds that nobody writes. *)
LEMMA FeedLater ==
    ASSUME Inv, JobsLater, BridgesShrink, UNCHANGED feed,
           \A r \in Runs : NeverCreated(bus'[r].events) /\ NeverCreated(bridge'[r].ch)
    PROVE  FeedOK'
<1>1. \A r \in Runs : WellFormed(feed'[r])
      BY DEF Inv, FeedOK
<1>2. ASSUME NEW c \in Clients, NEW d \in Clients, NEW r \in Runs, Owns(job'[c], r), Owns(job'[d], r)
      PROVE  c = d
  <2>1. Owns(job[c], r) /\ Owns(job[d], r)
        BY <1>2, OwnersLater
  <2> QED
      BY <2>1 DEF Inv, FeedOK
<1>3. ASSUME NEW c \in Clients, NEW q \in Runs, NEW r \in Runs, Owns(job'[c], r), Feeds(bridge'[q], r)
      PROVE  FALSE
  <2>1. Owns(job[c], r) /\ Feeds(bridge[q], r)
        BY <1>3, OwnersLater, FeedersLater
  <2> QED
      BY <2>1 DEF Inv, FeedOK
<1>4. ASSUME NEW p \in Runs, NEW q \in Runs, NEW r \in Runs, Feeds(bridge'[p], r), Feeds(bridge'[q], r)
      PROVE  p = q
  <2>1. Feeds(bridge[p], r) /\ Feeds(bridge[q], r)
        BY <1>4, FeedersLater
  <2> QED
      BY <2>1 DEF Inv, FeedOK
<1>5. ASSUME NEW c \in Clients, NEW r \in Runs, Owns(job'[c], r)
      PROVE  feed'[r] = IF job'[c].pc = "admit" THEN <<>> ELSE <<"run_created">>
  <2>1. Owns(job[c], r) /\ (job'[c].pc = "admit" <=> job[c].pc = "admit")
        BY <1>5, OwnersLater
  <2>2. feed[r] = IF job[c].pc = "admit" THEN <<>> ELSE <<"run_created">>
        BY <2>1 DEF Inv, FeedOK
  <2> QED
      BY <2>1, <2>2
<1>6. ASSUME NEW q \in Runs, NEW r \in Runs, Feeds(bridge'[q], r)
      PROVE  Open(feed'[r])
  <2>1. Feeds(bridge[q], r)
        BY <1>6, FeedersLater
  <2> QED
      BY <2>1 DEF Inv, FeedOK
<1> QED
    BY <1>1, <1>2, <1>3, <1>4, <1>5, <1>6 DEF FeedOK

(* Keys that nobody touches. *)
LEMMA KeysKept ==
    ASSUME Inv, UNCHANGED <<idem, idemFile, starts>>,
           \A c \in Clients : job'[c].pc \in {"admit", "start"} =>
              /\ job[c].pc \in {"admit", "start"} /\ job'[c].replay = job[c].replay
              /\ job'[c].key = job[c].key /\ job'[c].run = job[c].run
    PROVE  KeysOK'
<1>1. ASSUME NEW c \in Clients, job'[c].pc \in {"admit", "start"}, ~job'[c].replay, Holds(job[c])'
      PROVE  starts'[job'[c].key] = 0
  <2>1. /\ job[c].pc \in {"admit", "start"} /\ ~job[c].replay /\ job'[c].key = job[c].key
        /\ job'[c].run = job[c].run
        BY <1>1
  <2>2. Holds(job[c])
        BY <1>1, <2>1 DEF Holds
  <2> QED
      BY <2>1, <2>2 DEF Inv, KeysOK
<1> QED
    BY <1>1 DEF Inv, KeysOK

(* The same, when calls go on. *)
LEMMA KeysLater ==
    ASSUME Inv, JobsLater, UNCHANGED <<idem, idemFile, starts>>
    PROVE  KeysOK'
<1>1. \A c \in Clients : job'[c].pc \in {"admit", "start"} =>
              /\ job[c].pc \in {"admit", "start"} /\ job'[c].replay = job[c].replay
              /\ job'[c].key = job[c].key /\ job'[c].run = job[c].run
      BY DEF JobsLater, Later
<1> QED
    BY <1>1, KeysKept

(* Entries that nobody touches. *)
LEMMA EntriesLater ==
    ASSUME Inv, JobsLater, BridgesShrink, UNCHANGED <<entries, feed, outcomes>>,
           \A r \in Runs : entries[r] # None => (exec'[r] = "none" <=> exec[r] = "none"),
           \A x \in Cancellers : cancel'[x] \in {0, cancel[x]}
    PROVE  EntriesOK'
<1>1. \A r \in Runs : Free(r) => Free(r)'
      BY OwnersLater, FeedersLater DEF Free
<1>2. \A r \in Runs : EntryOK(r)' /\ OutcomeOK(r)'
      BY <1>1 DEF Inv, EntriesOK, EntryOK, OutcomeOK
<1>3. ASSUME NEW x \in Cancellers, cancel'[x] # 0
      PROVE  exec'[cancel'[x]] # "none" /\ entries'[cancel'[x]] # None
  <2>1. cancel'[x] = cancel[x] /\ cancel[x] \in Runs
        BY <1>3, TriggerAssumption DEF Inv, TypeInv, Runs
  <2> QED
      BY <1>3, <2>1 DEF Inv, EntriesOK
<1>4. ASSUME NEW c \in Clients, job'[c].pc \in {"start", "bridge", "stream"}
      PROVE  entries'[job'[c].run] # None
      BY <1>4 DEF JobsLater, Later, Inv, EntriesOK
<1> QED
    BY <1>2, <1>3, <1>4 DEF EntriesOK

(* The scheduler's flags, when no goroutine of its starts or ends. *)
LEMMA CronKept ==
    ASSUME Inv, active \subseteq active',
           \A c \in Clients : job'[c].schedule # None => job'[c].schedule = job[c].schedule
    PROVE  CronOK'
BY DEF Inv, CronOK

(* The same, when calls go on. *)
LEMMA CronLater ==
    ASSUME Inv, JobsLater, active \subseteq active'
    PROVE  CronOK'
<1>1. \A c \in Clients : job'[c].schedule # None => job'[c].schedule = job[c].schedule
      BY DEF JobsLater, Later
<1> QED
    BY <1>1, CronKept

-----------------------------------------------------------------------------
(* The idempotency store. *)

(* What the invariant says of types and bounds, in one place. *)
LEMMA Facts ==
    ASSUME Inv
    PROVE  /\ TypeInv /\ IdsOK /\ FeedOK /\ KeysOK /\ EntriesOK /\ CronOK
           /\ Runs = 1..MaxRuns /\ MaxRuns \in Nat /\ nextRun \in Nat
           /\ \A r \in Runs : NeverCreated(bus[r].events) /\ NeverCreated(bridge[r].ch)
           /\ \A r \in Runs : r >= nextRun => exec[r] = "none" /\ entries[r] = None /\ feed[r] = <<>>
<1>1. TypeInv /\ IdsOK /\ FeedOK /\ KeysOK /\ EntriesOK /\ CronOK
      BY DEF Inv
<1>2. Runs = 1..MaxRuns /\ MaxRuns \in Nat
      BY TriggerAssumption DEF Runs
<1>3. nextRun \in Nat
      BY <1>1, <1>2 DEF TypeInv
<1>4. \A r \in Runs : NeverCreated(bus[r].events) /\ NeverCreated(bridge[r].ch)
      BY <1>1 DEF FeedOK
<1>5. \A r \in Runs : r >= nextRun => exec[r] = "none" /\ entries[r] = None /\ feed[r] = <<>>
      BY <1>1 DEF IdsOK
<1> QED
    BY <1>1, <1>2, <1>3, <1>4, <1>5

(* Bridges that stay. *)
LEMMA BridgesSame ==
    ASSUME UNCHANGED bridge
    PROVE  BridgesShrink
BY DEF BridgesShrink

(* An entry that is there is one. *)
LEMMA Entry ==
    ASSUME Inv, NEW k \in Keys, idem[k] # None
    PROVE  idem[k] \in Reservation
BY DEF Inv, TypeInv

(* A key expires. *)
LEMMA ExpireStep ==
    ASSUME Inv, NEW k \in Keys, Expire(k)
    PROVE  Inv'
<1> DEFINE e == [idem[k] EXCEPT !.live = FALSE]
<1>1. idem[k] # None /\ idem[k] \in Reservation /\ idem[k].live
      BY Entry DEF Expire
<1>2. e \in Reservation /\ e.run = idem[k].run /\ ~e.live
      BY <1>1 DEF Reservation
<1>3. idem' = [idem EXCEPT ![k] = e]
      BY DEF Expire
<1> HIDE DEF e
<1>4. /\ UNCHANGED <<feed, bus, bridge, exec, nextRun, entries, job, cancel, outcomes, active>>
      /\ idemFile' = [idemFile EXCEPT ![k] = idem'[k]] /\ starts' = [starts EXCEPT ![k] = 0]
      BY DEF Expire, runVars, cronVars
<1>5. \A l \in Keys : /\ idem'[l] = IF l = k THEN e ELSE idem[l]
                      /\ idemFile'[l] = IF l = k THEN e ELSE idemFile[l]
                      /\ starts'[l] = IF l = k THEN 0 ELSE starts[l]
      BY <1>3, <1>4, Facts DEF TypeInv
<1>6. TypeInv'
  <2>1. /\ idem' \in [Keys -> Reservation \cup {None}] /\ idemFile' \in [Keys -> Reservation \cup {None}]
        /\ starts' \in [Keys -> Nat]
        BY <1>2, <1>3, <1>4, Facts DEF TypeInv
  <2> QED
      BY <1>4, <2>1, Facts DEF TypeInv
<1>7. JobsLater /\ BridgesShrink
      BY <1>4, NoneLater, BridgesSame
<1>8. IdsOK'
      BY <1>1, <1>2, <1>4, <1>5, <1>6, <1>7, IdsLater, Facts
<1>9. FeedOK' /\ EntriesOK' /\ CronOK'
      BY <1>4, <1>7, FeedLater, EntriesLater, CronLater, Facts
<1>10. KeysOK'
  <2>1. \A l \in Keys : Lives(idem'[l]) \/ Lives(idemFile'[l]) => idem'[l] = idemFile'[l]
        BY <1>5, Facts DEF KeysOK
  <2>2. \A l \in Keys : starts'[l] <= 1 /\ (~Lives(idem'[l]) => starts'[l] = 0)
        BY <1>5, Facts DEF KeysOK
  <2>3. ASSUME NEW c \in Clients, job'[c].pc \in {"admit", "start"}, ~job'[c].replay, Holds(job[c])'
        PROVE  starts'[job'[c].key] = 0
    <3>1. job'[c] = job[c] /\ job[c].key \in Keys
          BY <1>4, <2>3, Facts DEF TypeInv, Job, Holds
    <3>2. CASE job[c].key = k
          BY <1>5, <3>1, <3>2
    <3>3. CASE job[c].key # k
      <4>1. Holds(job[c])
            BY <1>5, <2>3, <3>1, <3>3 DEF Holds
      <4> QED
          BY <1>5, <2>3, <3>1, <3>3, <4>1, Facts DEF KeysOK
    <3> QED
        BY <3>2, <3>3
  <2> QED
      BY <2>1, <2>2, <2>3 DEF KeysOK
<1> QED
    BY <1>6, <1>8, <1>9, <1>10 DEF Inv

(* The live entries stay, in memory and in the file. *)
LEMMA LiveEntriesStay ==
    ASSUME Inv, TypeInv',
           \A k \in Keys : idem'[k] = IF Lives(idem[k]) THEN idem[k] ELSE None,
           idemFile' = idem', JobsLater, BridgesShrink, UNCHANGED starts,
           UNCHANGED nextRun, \A r \in Runs : exec[r] = "none" => exec'[r] = "none",
           \A r \in Runs : r >= nextRun' => exec'[r] = "none" /\ entries'[r] = None /\ feed'[r] = <<>>
    PROVE  IdsOK' /\ KeysOK'
<1>1. IdsOK'
  <2>1. nextRun <= nextRun'
        BY Facts
  <2>2. \A k \in Keys : idem'[k] # None => idem[k] # None /\ idem'[k].run = idem[k].run
        BY DEF Lives
  <2> QED
      BY <2>1, <2>2, IdsLater
<1>2. \A k \in Keys : starts'[k] <= 1 /\ (~Lives(idem'[k]) => starts'[k] = 0)
      BY Facts DEF KeysOK, Lives
<1>3. ASSUME NEW c \in Clients, job'[c].pc \in {"admit", "start"}, ~job'[c].replay, Holds(job[c])'
      PROVE  starts'[job'[c].key] = 0
  <2>1. /\ job[c].pc \in {"admit", "start"} /\ ~job[c].replay /\ job'[c].key = job[c].key
        /\ job'[c].run = job[c].run /\ JobOK(job'[c])
        BY <1>3 DEF JobsLater, Later
  <2>2. job[c].key \in Keys
        BY <1>3, <2>1, Facts DEF TypeInv, Job, Holds
  <2>3. Holds(job[c])
        BY <1>3, <2>1, <2>2 DEF Holds, Lives
  <2> QED
      BY <2>1, <2>3, Facts DEF KeysOK
<1> QED
    BY <1>1, <1>2, <1>3 DEF KeysOK

(* PurgeExpired. *)
LEMMA PurgeStep ==
    ASSUME Inv, PurgeExpired
    PROVE  Inv'
<1>1. /\ UNCHANGED <<feed, bus, bridge, exec, nextRun, entries, job, cancel, outcomes, starts, active>>
      /\ idem' = [k \in Keys |-> IF Lives(idem[k]) THEN idem[k] ELSE None] /\ idemFile' = idem'
      BY DEF PurgeExpired, runVars, cronVars, Lives
<1>2. \A k \in Keys : idem'[k] = IF Lives(idem[k]) THEN idem[k] ELSE None
      BY <1>1
<1>3. TypeInv'
  <2>1. idem' \in [Keys -> Reservation \cup {None}]
        BY <1>1, Facts DEF TypeInv
  <2> QED
      BY <1>1, <2>1, Facts DEF TypeInv
<1>4. JobsLater /\ BridgesShrink
      BY <1>1, NoneLater, BridgesSame
<1>5. IdsOK' /\ KeysOK'
      BY <1>1, <1>2, <1>3, <1>4, LiveEntriesStay, Facts
<1>6. FeedOK' /\ EntriesOK' /\ CronOK'
      BY <1>1, <1>4, FeedLater, EntriesLater, CronLater, Facts
<1> QED
    BY <1>3, <1>5, <1>6 DEF Inv

-----------------------------------------------------------------------------
(* Calls that arrive. *)

(* A new call draws an id that nobody uses, or replays one. *)
LEMMA NewCall ==
    ASSUME Inv, NEW c \in Clients, NEW n \in Job, job' = [job EXCEPT ![c] = n],
           n.pc \in {"invoke", "admit"}, JobOK(n), n.run \in Runs,
           n.run = nextRun \/ (n.replay /\ Drawn(n.run)),
           nextRun <= MaxRuns, nextRun' = nextRun + 1,
           UNCHANGED <<feed, bus, bridge, exec, entries, cancel, outcomes>>, TypeInv',
           \A k \in Keys : idem'[k] # None => idem'[k] = idem[k] \/ idem'[k].run = nextRun,
           \A k \in Keys : idemFile'[k] = idemFile[k] \/ idemFile'[k] = idem'[k]
    PROVE  /\ IdsOK' /\ FeedOK' /\ EntriesOK'
           /\ \A d \in Clients : job'[d] = IF d = c THEN n ELSE job[d]
<1>1. \A d \in Clients : job'[d] = IF d = c THEN n ELSE job[d]
      BY Moves DEF Inv
<1>2. nextRun \in Runs /\ nextRun' \in 1..(MaxRuns + 1) /\ \A r \in Runs : r \in Nat
      BY Facts DEF TypeInv
<1>3. \A r \in Runs : Drawn(r) => Drawn(r)'
      BY <1>2 DEF Drawn
<1>4. ASSUME NEW d \in Clients PROVE JobOK(job'[d]) /\ (job'[d].run # 0 => Drawn(job[d].run)')
  <2>1. CASE d = c
    <3>1. n.run < nextRun' /\ exec[n.run] = "none"
          BY <1>2, Facts DEF Drawn
    <3> QED
        BY <1>1, <2>1, <3>1 DEF Drawn
  <2>2. CASE d # c
    <3>1. job[d].run \in 0..MaxRuns
          BY Facts DEF TypeInv, Job
    <3>2. JobOK(job[d]) /\ (job[d].run # 0 => Drawn(job[d].run))
          BY Facts DEF IdsOK
    <3>3. job[d].run # 0 => job[d].run \in Runs
          BY <3>1, Facts
    <3> QED
        BY <1>1, <1>3, <2>2, <3>2, <3>3
  <2> QED
      BY <2>1, <2>2
<1>5. ASSUME NEW d \in Clients, NEW r \in Runs, d # c, Owns(job[d], r) PROVE r < nextRun
  <2>1. job[d].run = r /\ r # 0
        BY <1>5, Facts DEF Owns
  <2> QED
      BY <2>1, Facts DEF IdsOK, Drawn
<1>6. ASSUME NEW q \in Runs, NEW r \in Runs, Feeds(bridge[q], r) PROVE r < nextRun
      BY <1>6, Facts DEF IdsOK, Drawn, Feeds
<1>7. ASSUME NEW r \in Runs, Owns(n, r) PROVE r = nextRun /\ n.pc = "admit"
      BY <1>7 DEF Owns
<1>8. FeedOK'
  <2>1. ASSUME NEW d \in Clients, NEW e \in Clients, NEW r \in Runs, Owns(job'[d], r), Owns(job'[e], r)
        PROVE  d = e
    <3>1. CASE d # c /\ e # c
          BY <1>1, <2>1, <3>1, Facts DEF FeedOK
    <3>2. CASE d = c /\ e # c
          BY <1>1, <1>2, <1>5, <1>7, <2>1, <3>2
    <3>3. CASE d # c /\ e = c
          BY <1>1, <1>2, <1>5, <1>7, <2>1, <3>3
    <3> QED
        BY <3>1, <3>2, <3>3
  <2>2. ASSUME NEW d \in Clients, NEW q \in Runs, NEW r \in Runs, Owns(job'[d], r), Feeds(bridge'[q], r)
        PROVE  FALSE
    <3>1. CASE d # c
          BY <1>1, <2>2, <3>1, Facts DEF FeedOK
    <3>2. CASE d = c
          BY <1>1, <1>2, <1>6, <1>7, <2>2, <3>2
    <3> QED
        BY <3>1, <3>2
  <2>3. ASSUME NEW d \in Clients, NEW r \in Runs, Owns(job'[d], r)
        PROVE  feed'[r] = IF job'[d].pc = "admit" THEN <<>> ELSE <<"run_created">>
    <3>1. CASE d # c
          BY <1>1, <2>3, <3>1, Facts DEF FeedOK
    <3>2. CASE d = c
          BY <1>1, <1>2, <1>7, <2>3, <3>2, Facts
    <3> QED
        BY <3>1, <3>2
  <2> QED
      BY <2>1, <2>2, <2>3, Facts DEF FeedOK
<1>9. EntriesOK'
  <2>1. ASSUME NEW r \in Runs, entries[r] # None, Free(r) PROVE Free(r)'
    <3>1. r < nextRun
          BY <1>2, <2>1, Facts
    <3>2. \A d \in Clients : ~Owns(job'[d], r)
          BY <1>1, <1>2, <1>7, <2>1, <3>1 DEF Free
    <3> QED
        BY <2>1, <3>2 DEF Free
  <2>2. \A d \in Clients : job'[d].pc \in {"start", "bridge", "stream"} => entries'[job'[d].run] # None
        BY <1>1, Facts DEF EntriesOK
  <2>3. \A r \in Runs : EntryOK(r)' /\ OutcomeOK(r)'
        BY <2>1, Facts DEF EntriesOK, EntryOK, OutcomeOK
  <2> QED
      BY <2>2, <2>3, Facts DEF EntriesOK
<1>10. IdsOK'
  <2>1. ASSUME NEW k \in Keys, idem'[k] # None PROVE Drawn(idem[k].run)'
    <3>1. CASE idem'[k] = idem[k]
          BY <1>3, <2>1, <3>1, Entry, Facts DEF IdsOK, Reservation
    <3>2. CASE idem'[k].run = nextRun
      <4>1. nextRun < nextRun' /\ exec'[nextRun] = "none"
            BY <1>2, Facts
      <4> QED
          BY <3>2, <4>1 DEF Drawn
    <3> QED
        BY <2>1, <3>1, <3>2
  <2>2. ASSUME NEW k \in Keys, idemFile'[k] # None PROVE Drawn(idemFile[k].run)'
    <3>1. CASE idemFile'[k] = idemFile[k]
      <4>1. idemFile[k].run \in Runs /\ Drawn(idemFile[k].run)
            BY <2>2, <3>1, Facts DEF IdsOK, TypeInv, Reservation
      <4> QED
          BY <1>3, <3>1, <4>1 DEF Drawn
    <3>2. CASE idemFile'[k] = idem'[k]
          BY <2>1, <2>2, <3>2 DEF Drawn
    <3> QED
        BY <3>1, <3>2
  <2>3. ASSUME NEW q \in Runs, bridge'[q].on PROVE bridge'[q].store \in Runs /\ Drawn(bridge[q].store)'
    <3>1. bridge[q].store \in Runs /\ Drawn(bridge[q].store)
          BY <2>3, Facts DEF IdsOK
    <3> QED
        BY <1>3, <3>1 DEF Drawn
  <2>4. \A r \in Runs : r >= nextRun' => exec'[r] = "none" /\ entries'[r] = None /\ feed'[r] = <<>>
        BY <1>2, Facts
  <2> QED
      BY <1>4, <2>1, <2>2, <2>3, <2>4 DEF IdsOK
<1> QED
    BY <1>1, <1>8, <1>9, <1>10

(* Only the keys change, and an id is drawn. *)
LEMMA DrawStep ==
    ASSUME Inv, TypeInv', JobsLater, nextRun' = nextRun + 1,
           UNCHANGED <<feed, bus, bridge, exec, entries, cancel, outcomes, active>>,
           \A k \in Keys : idem'[k] # None => idem[k] # None /\ idem'[k].run = idem[k].run,
           UNCHANGED idemFile, KeysOK'
    PROVE  Inv'
<1>1. BridgesShrink
      BY BridgesSame
<1>2. nextRun <= nextRun' /\ \A r \in Runs : r >= nextRun' => r >= nextRun
      BY Facts
<1>3. IdsOK'
      BY <1>1, <1>2, IdsLater, Facts
<1>4. FeedOK' /\ EntriesOK' /\ CronOK'
      BY <1>1, FeedLater, EntriesLater, CronLater, Facts
<1> QED
    BY <1>3, <1>4 DEF Inv

(* Invoke and InvokeStream. *)
LEMMA ArriveStep ==
    ASSUME Inv, NEW c \in Clients, NEW k \in Keys, NEW h \in Hashes, NEW pc \in {"invoke", "admit"},
           Arrive(c, k, h, pc)
    PROVE  Inv'
<1> DEFINE n == Request(k, h, pc, nextRun)
<1>1. /\ nextRun <= MaxRuns /\ nextRun' = nextRun + 1 /\ CheckOrReserve(c, n)
      /\ UNCHANGED <<feed, bus, bridge, exec, entries, cancel, outcomes, starts, active>>
  <2>1. k # None
        BY TriggerAssumption
  <2> QED
      BY <2>1 DEF Arrive, cronVars, Request
<1>2. nextRun \in Runs /\ nextRun' \in 1..(MaxRuns + 1)
      BY <1>1, Facts DEF TypeInv
<1>3. /\ n \in Job /\ n.pc = pc /\ n.key = k /\ n.hash = h /\ n.run = nextRun /\ n.schedule = None
      /\ ~n.replay
      BY <1>2, NewRequest
<1> HIDE DEF n
<1>4. JobOK(n)
      BY <1>2, <1>3 DEF JobOK
<1>5. job[c] \in Job /\ JobOK(job[c]) /\ job[c].pc = "idle" /\ job[c].schedule = None
      BY Facts DEF Arrive, TypeInv, IdsOK, JobOK
<1>6. CASE /\ idem[k] # None /\ idem[k].live /\ idem[k].hash = h
           /\ job' = [job EXCEPT ![c] = [n EXCEPT !.run = idem[k].run, !.replay = TRUE]]
           /\ UNCHANGED <<idem, idemFile>>
  <2> DEFINE m == [n EXCEPT !.run = idem[k].run, !.replay = TRUE]
  <2>1. idem[k].run \in Runs /\ Drawn(idem[k].run)
        BY <1>6, Entry, Facts DEF Reservation, IdsOK
  <2>2. m \in Job /\ m.pc = pc /\ m.key = k /\ m.schedule = None /\ m.run = idem[k].run /\ m.replay = TRUE
        BY <1>3, <2>1, Replays
  <2>3. job' = [job EXCEPT ![c] = m]
        BY <1>6
  <2> HIDE DEF m
  <2>4. JobOK(m)
        BY <2>1, <2>2 DEF JobOK
  <2>5. TypeInv'
    <3>1. job' \in [Clients -> Job]
          BY <2>2, <2>3, Moves, Facts
    <3> QED
        BY <1>1, <1>2, <1>6, <3>1, Facts DEF TypeInv
  <2>6. /\ IdsOK' /\ FeedOK' /\ EntriesOK'
        /\ \A d \in Clients : job'[d] = IF d = c THEN m ELSE job[d]
        BY <1>1, <1>6, <2>1, <2>2, <2>3, <2>4, <2>5, NewCall
  <2>8. KeysOK'
    <3>1. ASSUME NEW d \in Clients, job'[d].pc \in {"admit", "start"}, ~job'[d].replay, Holds(job[d])'
          PROVE  starts'[job'[d].key] = 0
      <4>1. d # c /\ job'[d] = job[d]
            BY <2>2, <2>6, <3>1
      <4>2. Holds(job[d])
            BY <1>6, <3>1, <4>1 DEF Holds
      <4> QED
          BY <1>1, <3>1, <4>1, <4>2, Facts DEF KeysOK
    <3> QED
        BY <1>1, <1>6, <3>1, Facts DEF KeysOK
  <2>9. CronOK'
        BY <1>1, <2>2, <2>6, CronKept
  <2> QED
      BY <2>5, <2>6, <2>8, <2>9 DEF Inv
<1>7. CASE job' = [job EXCEPT ![c] = Idle] /\ UNCHANGED <<idem, idemFile>>
  <2>1. JobsLater /\ job' \in [Clients -> Job]
        BY <1>7, IdleOK, LaterIdle, OneLater
  <2>2. TypeInv'
        BY <1>1, <1>2, <1>7, <2>1, Facts DEF TypeInv
  <2>3. KeysOK'
        BY <1>1, <1>7, <2>1, KeysLater
  <2> QED
      BY <1>1, <1>7, <2>1, <2>2, <2>3, DrawStep
<1>8. CASE /\ idem[k] # None => ~idem[k].live
           /\ idem' = [idem EXCEPT ![k] = [run |-> nextRun, hash |-> h, live |-> TRUE]]
           /\ idemFile' = idem' /\ job' = [job EXCEPT ![c] = n]
  <2> DEFINE e == [run |-> nextRun, hash |-> h, live |-> TRUE]
  <2>1. e \in Reservation /\ e.run = nextRun
        BY <1>2 DEF Reservation
  <2>2. idem' = [idem EXCEPT ![k] = e]
        BY <1>8
  <2> HIDE DEF e
  <2>3. \A l \in Keys : idem'[l] = IF l = k THEN e ELSE idem[l]
        BY <2>2, Facts DEF TypeInv
  <2>4. TypeInv'
    <3>1. job' \in [Clients -> Job]
          BY <1>3, <1>8, Moves, Facts
    <3>2. idem' \in [Keys -> Reservation \cup {None}]
          BY <2>1, <2>2, Facts DEF TypeInv
    <3> QED
        BY <1>1, <1>2, <1>8, <3>1, <3>2, Facts DEF TypeInv
  <2>5. /\ IdsOK' /\ FeedOK' /\ EntriesOK'
        /\ \A d \in Clients : job'[d] = IF d = c THEN n ELSE job[d]
        BY <1>1, <1>2, <1>3, <1>4, <1>8, <2>1, <2>3, <2>4, NewCall
  <2>6. KeysOK'
    <3>1. starts[k] = 0 /\ UNCHANGED starts
          BY <1>1, <1>8, Facts DEF KeysOK, Lives
    <3>2. \A l \in Keys : starts'[l] <= 1 /\ (~Lives(idem'[l]) => starts'[l] = 0)
          BY <2>3, <3>1, Facts DEF KeysOK
    <3>3. ASSUME NEW d \in Clients, job'[d].pc \in {"admit", "start"}, ~job'[d].replay, Holds(job[d])'
          PROVE  starts'[job'[d].key] = 0
      <4>1. job'[d].key \in Keys
            BY <2>4, <3>3 DEF TypeInv, Job, Holds
      <4>2. CASE job'[d].key = k
            BY <3>1, <4>2
      <4>3. CASE job'[d].key # k
        <5>1. d # c /\ job'[d] = job[d]
              BY <1>3, <2>5, <4>3
        <5>2. Holds(job[d])
              BY <2>3, <3>3, <4>1, <4>3, <5>1 DEF Holds
        <5> QED
            BY <3>1, <3>3, <5>1, <5>2, Facts DEF KeysOK
      <4> QED
          BY <4>2, <4>3
    <3> QED
        BY <1>8, <3>2, <3>3 DEF KeysOK
  <2>7. CronOK'
        BY <1>1, <1>3, <2>5, CronKept
  <2> QED
      BY <2>4, <2>5, <2>6, <2>7 DEF Inv
<1>9. CASE /\ idem[k] # None => ~idem[k].live
           /\ idem' = [idem EXCEPT ![k] = None]
           /\ UNCHANGED <<idemFile, job>>
  <2>1. JobsLater
        BY <1>9, NoneLater
  <2>2. \A l \in Keys : idem'[l] = IF l = k THEN None ELSE idem[l]
        BY <1>9, Facts DEF TypeInv
  <2>3. TypeInv'
    <3>1. idem' \in [Keys -> Reservation \cup {None}]
          BY <1>9, Facts DEF TypeInv
    <3> QED
        BY <1>1, <1>2, <1>9, <3>1, Facts DEF TypeInv
  <2>4. KeysOK'
    <3>1. ~Lives(idemFile[k]) /\ ~Lives(idem[k]) /\ starts[k] = 0
          BY <1>9, Facts DEF KeysOK, Lives
    <3>2. \A l \in Keys : Lives(idem'[l]) \/ Lives(idemFile'[l]) => idem'[l] = idemFile'[l]
          BY <1>9, <2>2, <3>1, Facts DEF KeysOK, Lives
    <3>3. \A l \in Keys : starts'[l] <= 1 /\ (~Lives(idem'[l]) => starts'[l] = 0)
          BY <1>1, <2>2, <3>1, Facts DEF KeysOK
    <3>4. ASSUME NEW d \in Clients, job'[d].pc \in {"admit", "start"}, ~job'[d].replay, Holds(job[d])'
          PROVE  starts'[job'[d].key] = 0
      <4>1. job'[d] = job[d] /\ job[d].key \in Keys
            BY <1>9, <3>4, Facts DEF TypeInv, Job, Holds
      <4>2. Holds(job[d])
            BY <2>2, <3>4, <4>1 DEF Holds
      <4> QED
          BY <1>1, <3>4, <4>1, <4>2, Facts DEF KeysOK
    <3> QED
        BY <3>2, <3>3, <3>4 DEF KeysOK
  <2> QED
      BY <1>1, <1>9, <2>1, <2>2, <2>3, <2>4, DrawStep
<1> QED
    BY <1>1, <1>3, <1>6, <1>7, <1>8, <1>9 DEF CheckOrReserve, Saved

(* A request without a key. *)
LEMMA KeylessStep ==
    ASSUME Inv, NEW c \in Clients, NEW pc \in {"invoke", "admit"}, Arrive(c, None, None, pc)
    PROVE  Inv'
<1> DEFINE n == Request(None, None, pc, nextRun)
<1>1. /\ nextRun <= MaxRuns /\ nextRun' = nextRun + 1 /\ job' = [job EXCEPT ![c] = n]
      /\ UNCHANGED <<idem, idemFile, feed, bus, bridge, exec, entries, cancel, outcomes, starts, active>>
      BY DEF Arrive, cronVars, Request
<1>2. nextRun \in Runs /\ nextRun' \in 1..(MaxRuns + 1)
      BY <1>1, Facts DEF TypeInv
<1>3. n \in Job /\ n.pc = pc /\ n.key = None /\ n.run = nextRun /\ n.schedule = None /\ ~n.replay
      BY <1>2, NewRequest
<1> HIDE DEF n
<1>4. JobOK(n)
      BY <1>2, <1>3 DEF JobOK
<1>5. TypeInv'
  <2>1. job' \in [Clients -> Job]
        BY <1>1, <1>3, Moves, Facts
  <2> QED
      BY <1>1, <1>2, <2>1, Facts DEF TypeInv
<1>6. /\ IdsOK' /\ FeedOK' /\ EntriesOK'
      /\ \A d \in Clients : job'[d] = IF d = c THEN n ELSE job[d]
      BY <1>1, <1>2, <1>3, <1>4, <1>5, NewCall
<1>7. KeysOK'
  <2>1. ASSUME NEW d \in Clients, job'[d].pc \in {"admit", "start"}, ~job'[d].replay, Holds(job[d])'
        PROVE  starts'[job'[d].key] = 0
    <3>1. d # c /\ job'[d] = job[d]
          BY <1>3, <1>6, <2>1 DEF Holds
    <3>2. Holds(job[d])
          BY <1>1, <2>1, <3>1 DEF Holds
    <3> QED
        BY <1>1, <2>1, <3>1, <3>2, Facts DEF KeysOK
  <2> QED
      BY <1>1, <2>1, Facts DEF KeysOK
<1>8. CronOK'
  <2>1. job[c].schedule = None
        BY Facts DEF Arrive, IdsOK, JobOK
  <2> QED
      BY <1>1, <1>3, <1>6, <2>1, CronKept
<1> QED
    BY <1>5, <1>6, <1>7, <1>8 DEF Inv

-----------------------------------------------------------------------------
(* Steps that write one feed or one entry. *)

(* A step writes at most the feed of one run, and leaves what is true of it. *)
OnlyFeed(r) ==
    /\ \A q \in Runs : q # r => feed'[q] = feed[q]
    /\ WellFormed(feed'[r])
    /\ \A q \in Runs : NeverCreated(bus'[q].events) /\ NeverCreated(bridge'[q].ch)
    /\ BridgesShrink
    /\ \A q \in Runs : Feeds(bridge'[q], r) => Open(feed'[r])
    /\ \A c \in Clients : \A q \in Runs : Owns(job'[c], q) =>
          Owns(job[c], q) /\ (q # r => (job'[c].pc = "admit" <=> job[c].pc = "admit"))
    /\ \A c \in Clients : Owns(job'[c], r) =>
          feed'[r] = IF job'[c].pc = "admit" THEN <<>> ELSE <<"run_created">>

(* A step writes at most the entry of one run, and leaves what is true of it. *)
OnlyEntry(r) ==
    /\ \A q \in Runs : q # r =>
          entries'[q] = entries[q] /\ outcomes'[q] = outcomes[q] /\ feed'[q] = feed[q]
    /\ \A q \in Runs : q # r /\ Free(q) => Free(q)'
    /\ \A q \in Runs : q # r /\ entries[q] # None => (exec'[q] = "none" <=> exec[q] = "none")
    /\ EntryOK(r)' /\ OutcomeOK(r)'
    /\ entries[r] # None => entries'[r] # None
    /\ \A x \in Cancellers : cancel'[x] \in {0, r, cancel[x]}
    /\ \A x \in Cancellers : cancel'[x] = r => exec'[r] # "none" /\ entries'[r] # None
    /\ \A c \in Clients : job'[c].pc \in {"start", "bridge", "stream"} =>
          \/ job'[c].run = r /\ entries'[r] # None
          \/ job[c].pc \in {"start", "bridge", "stream"} /\ job'[c].run = job[c].run

(* The feed of one run is written. *)
LEMMA FeedChange ==
    ASSUME Inv, NEW r \in Runs, OnlyFeed(r)
    PROVE  FeedOK'
<1> USE DEF OnlyFeed
<1>1. \A q \in Runs : WellFormed(feed'[q])
      BY DEF Inv, FeedOK
<1>2. ASSUME NEW c \in Clients, NEW d \in Clients, NEW q \in Runs, Owns(job'[c], q), Owns(job'[d], q)
      PROVE  c = d
  <2>1. Owns(job[c], q) /\ Owns(job[d], q)
        BY <1>2
  <2> QED
      BY <2>1 DEF Inv, FeedOK
<1>3. ASSUME NEW c \in Clients, NEW p \in Runs, NEW q \in Runs, Owns(job'[c], q), Feeds(bridge'[p], q)
      PROVE  FALSE
  <2>1. Owns(job[c], q) /\ Feeds(bridge[p], q)
        BY <1>3, FeedersLater
  <2> QED
      BY <2>1 DEF Inv, FeedOK
<1>4. ASSUME NEW o \in Runs, NEW p \in Runs, NEW q \in Runs, Feeds(bridge'[o], q), Feeds(bridge'[p], q)
      PROVE  o = p
  <2>1. Feeds(bridge[o], q) /\ Feeds(bridge[p], q)
        BY <1>4, FeedersLater
  <2> QED
      BY <2>1 DEF Inv, FeedOK
<1>5. ASSUME NEW c \in Clients, NEW q \in Runs, Owns(job'[c], q)
      PROVE  feed'[q] = IF job'[c].pc = "admit" THEN <<>> ELSE <<"run_created">>
  <2>1. CASE q = r
        BY <1>5, <2>1
  <2>2. CASE q # r
    <3>1. Owns(job[c], q) /\ (job'[c].pc = "admit" <=> job[c].pc = "admit") /\ feed'[q] = feed[q]
          BY <1>5, <2>2
    <3>2. feed[q] = IF job[c].pc = "admit" THEN <<>> ELSE <<"run_created">>
          BY <3>1 DEF Inv, FeedOK
    <3> QED
        BY <3>1, <3>2
  <2> QED
      BY <2>1, <2>2
<1>6. ASSUME NEW p \in Runs, NEW q \in Runs, Feeds(bridge'[p], q)
      PROVE  Open(feed'[q])
  <2>1. CASE q = r
        BY <1>6, <2>1
  <2>2. CASE q # r
    <3>1. Feeds(bridge[p], q) /\ feed'[q] = feed[q]
          BY <1>6, <2>2, FeedersLater
    <3> QED
        BY <3>1 DEF Inv, FeedOK
  <2> QED
      BY <2>1, <2>2
<1> QED
    BY <1>1, <1>2, <1>3, <1>4, <1>5, <1>6 DEF FeedOK

(* The entry of one run is written. *)
LEMMA EntriesChange ==
    ASSUME Inv, NEW r \in Runs, OnlyEntry(r)
    PROVE  EntriesOK'
<1>1. \A q \in Runs : q # r =>
         entries'[q] = entries[q] /\ outcomes'[q] = outcomes[q] /\ feed'[q] = feed[q]
      BY DEF OnlyEntry
<1>2. \A q \in Runs : q # r /\ Free(q) => Free(q)'
      BY DEF OnlyEntry
<1>3. \A q \in Runs : q # r /\ entries[q] # None => (exec'[q] = "none" <=> exec[q] = "none")
      BY DEF OnlyEntry
<1>4. EntryOK(r)' /\ OutcomeOK(r)' /\ (entries[r] # None => entries'[r] # None)
      BY DEF OnlyEntry
<1>5. \A x \in Cancellers : /\ cancel'[x] \in {0, r, cancel[x]}
                            /\ cancel'[x] = r => exec'[r] # "none" /\ entries'[r] # None
      BY DEF OnlyEntry
<1>6. \A c \in Clients : job'[c].pc \in {"start", "bridge", "stream"} =>
          \/ job'[c].run = r /\ entries'[r] # None
          \/ job[c].pc \in {"start", "bridge", "stream"} /\ job'[c].run = job[c].run
      BY DEF OnlyEntry
<1>7. ASSUME NEW q \in Runs PROVE EntryOK(q)' /\ OutcomeOK(q)'
  <2>1. CASE q = r
        BY <1>4, <2>1
  <2>2. CASE q # r
    <3>1. EntryOK(q) /\ OutcomeOK(q)
          BY DEF Inv, EntriesOK
    <3> QED
        BY <1>1, <1>2, <1>3, <2>2, <3>1 DEF EntryOK, OutcomeOK
  <2> QED
      BY <2>1, <2>2
<1>8. ASSUME NEW x \in Cancellers, cancel'[x] # 0
      PROVE  exec'[cancel'[x]] # "none" /\ entries'[cancel'[x]] # None
  <2>1. CASE cancel'[x] = r
        BY <1>5, <2>1
  <2>2. CASE cancel'[x] # r
    <3>1. cancel'[x] = cancel[x] /\ cancel[x] \in Runs
          BY <1>8, <1>5, <2>2, Facts DEF TypeInv
    <3>2. exec[cancel[x]] # "none" /\ entries[cancel[x]] # None
          BY <1>8, <3>1 DEF Inv, EntriesOK
    <3> QED
        BY <1>1, <1>3, <2>2, <3>1, <3>2
  <2> QED
      BY <2>1, <2>2
<1>9. ASSUME NEW c \in Clients, job'[c].pc \in {"start", "bridge", "stream"}
      PROVE  entries'[job'[c].run] # None
  <2>1. CASE job'[c].run = r /\ entries'[r] # None
        BY <2>1
  <2>2. CASE job[c].pc \in {"start", "bridge", "stream"} /\ job'[c].run = job[c].run
    <3>1. entries[job[c].run] # None /\ job[c].run \in Runs
          BY <2>2, Facts DEF EntriesOK, IdsOK, JobOK
    <3> QED
        BY <1>1, <1>4, <2>2, <3>1
  <2> QED
      BY <1>9, <1>6, <2>1, <2>2
<1> QED
    BY <1>7, <1>8, <1>9 DEF EntriesOK

(* A run that nobody may write stays so while calls go on. *)
LEMMA FreeLater ==
    ASSUME JobsLater, BridgesShrink
    PROVE  \A r \in Runs : Free(r) => Free(r)'
BY OwnersLater, FeedersLater DEF Free

-----------------------------------------------------------------------------
(* Invoke and the scheduler. *)

(* A run starts: it has an id that nobody uses. *)
LEMMA Starts ==
    ASSUME Inv, nextRun <= MaxRuns, StartExec(nextRun)
    PROVE  /\ nextRun \in Runs /\ nextRun' = nextRun + 1 /\ nextRun' \in 1..(MaxRuns + 1)
           /\ exec' \in [Runs -> {"none", "running", "ended"}] /\ bus' \in [Runs -> Buffer]
           /\ \A r \in Runs : exec'[r] = IF r = nextRun THEN "running" ELSE exec[r]
           /\ \A r \in Runs : NeverCreated(bus'[r].events)
           /\ entries[nextRun] = None
<1> DEFINE b == [known |-> TRUE, events |-> <<"run_started">>, closed |-> FALSE]
<1>1. nextRun \in Runs /\ nextRun' = nextRun + 1 /\ nextRun' \in 1..(MaxRuns + 1) /\ entries[nextRun] = None
      BY Facts, SMTT(30) DEF StartExec, TypeInv
<1>2. /\ exec' \in [Runs -> {"none", "running", "ended"}]
      /\ \A r \in Runs : exec'[r] = IF r = nextRun THEN "running" ELSE exec[r]
      BY <1>1, Facts DEF StartExec, TypeInv
<1>3. b \in Buffer /\ NeverCreated(b.events)
  <2>1. "run_started" \in Types
        BY DEF Types
  <2>2. <<"run_started">> \in Seq(Types) /\ NeverCreated(<<"run_started">>)
        BY <2>1 DEF NeverCreated
  <2> QED
      BY <2>2 DEF Buffer
<1>4. bus' = [bus EXCEPT ![nextRun] = b]
      BY DEF StartExec
<1> HIDE DEF b
<1>5. bus' \in [Runs -> Buffer] /\ \A r \in Runs : bus'[r] = IF r = nextRun THEN b ELSE bus[r]
      BY <1>3, <1>4, Facts DEF TypeInv
<1>6. \A r \in Runs : NeverCreated(bus'[r].events)
      BY <1>3, <1>5, Facts
<1> QED
    BY <1>1, <1>2, <1>5, <1>6

(* A cron goroutine ends: an agent all of whose schedules forbid concurrency  *)
(* had no other.                                                             *)
LEMMA CronEnds ==
    ASSUME Inv, NEW c \in Clients, NEW n \in Job, n.schedule = None,
           job' = [job EXCEPT ![c] = n], active' = ActiveAfter(c)
    PROVE  CronOK' /\ active' \subseteq active
<1>1. \A d \in Clients : job'[d] = IF d = c THEN n ELSE job[d]
      BY Moves, Facts
<1>2. active' \subseteq active
      BY DEF ActiveAfter
<1>3. ASSUME NEW d \in Clients, job'[d].schedule # None, AllForbid(AgentOf[job'[d].schedule])
      PROVE  AgentOf[job'[d].schedule] \in active'
  <2>1. d # c /\ job'[d] = job[d]
        BY <1>1, <1>3
  <2>2. AgentOf[job[d].schedule] \in active
        BY <1>3, <2>1, Facts DEF CronOK
  <2>3. job[c].schedule # None => AgentOf[job[c].schedule] # AgentOf[job[d].schedule]
        BY <1>3, <2>1, Facts DEF CronOK
  <2> QED
      BY <2>1, <2>2, <2>3 DEF ActiveAfter
<1>4. ASSUME NEW d \in Clients, NEW e \in Clients, job'[d].schedule # None, job'[e].schedule # None,
             AgentOf[job'[d].schedule] = AgentOf[job'[e].schedule], AllForbid(AgentOf[job'[d].schedule])
      PROVE  d = e
  <2>1. job'[d] = job[d] /\ job'[e] = job[e]
        BY <1>1, <1>4
  <2> QED
      BY <1>4, <2>1, Facts DEF CronOK
<1> QED
    BY <1>2, <1>3, <1>4 DEF CronOK

(* Invoke starts its run. *)
LEMMA InvokeStartsStep ==
    ASSUME Inv, NEW c \in Clients, InvokeStarts(c)
    PROVE  Inv'
<1> DEFINE n == IF job[c].schedule # None THEN Idle ELSE Started(nextRun)
<1>1. /\ nextRun <= MaxRuns /\ StartExec(nextRun) /\ job' = [job EXCEPT ![c] = n]
      /\ active' = ActiveAfter(c)
      /\ UNCHANGED <<idem, idemFile, feed, bridge, cancel, outcomes, starts>>
      BY DEF InvokeStarts, idemVars, Started
<1>2. /\ nextRun \in Runs /\ nextRun' = nextRun + 1 /\ nextRun' \in 1..(MaxRuns + 1)
      /\ exec' \in [Runs -> {"none", "running", "ended"}] /\ bus' \in [Runs -> Buffer]
      /\ \A r \in Runs : exec'[r] = IF r = nextRun THEN "running" ELSE exec[r]
      /\ \A r \in Runs : NeverCreated(bus'[r].events)
      /\ entries[nextRun] = None
      BY <1>1, Starts
<1>3. JobsLater /\ job' \in [Clients -> Job] /\ BridgesShrink /\ CronOK' /\ active' \subseteq active
  <2>1. n \in Job /\ n.schedule = None /\ n.run = 0 /\ n.pc \in {"idle", "mark"} /\ JobOK(n)
        BY <1>2, IdleOK, NewStarted
  <2> HIDE DEF n
  <2>2. Later(n, job[c])
        BY <2>1 DEF Later
  <2> QED
      BY <1>1, <2>1, <2>2, OneLater, BridgesSame, CronEnds
<1> HIDE DEF n
<1>4. CronOK' /\ active' \subseteq active
      BY <1>3
<1>5. /\ entries' \in [Runs -> RunEntry \cup {None}]
      /\ \A r \in Runs : r # nextRun => entries'[r] = entries[r]
      /\ entries'[nextRun] # None => entries'[nextRun].status = "PENDING"
  <2>1. CASE job[c].schedule # None
        BY <1>2, <2>1, Facts DEF InvokeStarts, TypeInv
  <2>2. CASE job[c].schedule = None
    <3> DEFINE e == NewEntry("PENDING")
    <3>1. e \in RunEntry /\ e.status = "PENDING"
          BY DEF NewEntry, RunEntry
    <3>2. entries' = [entries EXCEPT ![nextRun] = e]
          BY <2>2 DEF InvokeStarts
    <3> HIDE DEF e
    <3> QED
        BY <1>2, <3>1, <3>2, Facts DEF TypeInv
  <2> QED
      BY <2>1, <2>2
<1>6. TypeInv'
      BY <1>1, <1>2, <1>3, <1>4, <1>5, Facts DEF TypeInv
<1>7. \A r \in Runs : r \in Int /\ nextRun \in Int
      BY Facts
<1>8. IdsOK'
  <2>1. \A r \in Runs : r < nextRun /\ exec[r] = "none" => exec'[r] = "none"
        BY <1>2, <1>7
  <2>2. \A r \in Runs : r >= nextRun' => exec'[r] = "none" /\ entries'[r] = None /\ feed'[r] = <<>>
        BY <1>1, <1>2, <1>5, <1>7, Facts
  <2>3. nextRun <= nextRun'
        BY <1>2, <1>7
  <2> QED
      BY <1>1, <1>3, <1>6, <2>1, <2>2, <2>3, IdsLater
<1>9. FeedOK' /\ KeysOK'
      BY <1>1, <1>2, <1>3, FeedLater, KeysLater, Facts
<1>10. EntriesOK'
  <2>1. \A r \in Runs : Free(r) => Free(r)'
        BY <1>3, FreeLater
  <2>2. ASSUME NEW r \in Runs, r = nextRun PROVE EntriesOK'
    <3>1. outcomes[r] = 0 /\ entries[r] = None
          BY <1>2, <2>2, Facts DEF EntriesOK, OutcomeOK
    <3>2. EntryOK(r)'
          BY <1>2, <1>5, <2>2 DEF EntryOK
    <3>3. OutcomeOK(r)'
          BY <1>1, <3>1 DEF OutcomeOK
    <3>4. \A x \in Cancellers : cancel'[x] # r
          BY <1>1, <2>2, <3>1, Facts DEF EntriesOK, TypeInv
    <3>5. \A q \in Runs : q # r =>
             entries'[q] = entries[q] /\ outcomes'[q] = outcomes[q] /\ feed'[q] = feed[q]
          BY <1>1, <1>5, <2>2
    <3>6. \A q \in Runs : q # r /\ entries[q] # None => (exec'[q] = "none" <=> exec[q] = "none")
           BY <1>2, <2>2
    <3>7. \A x \in Cancellers : cancel'[x] \in {0, r, cancel[x]}
          BY <1>1
    <3>8. \A d \in Clients : job'[d].pc \in {"start", "bridge", "stream"} =>
              \/ job'[d].run = r /\ entries'[r] # None
              \/ job[d].pc \in {"start", "bridge", "stream"} /\ job'[d].run = job[d].run
          BY <1>3 DEF JobsLater, Later
    <3>9. entries[r] # None => entries'[r] # None
          BY <3>1
    <3>10. \A x \in Cancellers : cancel'[x] = r => exec'[r] # "none" /\ entries'[r] # None
          BY <3>4
    <3>11. OnlyEntry(r)
           BY <2>1, <3>2, <3>3, <3>5, <3>7, <3>8, <3>9, <3>10, <3>6 DEF OnlyEntry
    <3> QED
        BY <3>11, EntriesChange
  <2> QED
      BY <1>2, <2>2
<1> QED
    BY <1>4, <1>6, <1>8, <1>9, <1>10 DEF Inv

(* MarkStarted changes the status of an entry that is pending. *)
LEMMA MarkStarts ==
    ASSUME NEW e \in RunEntry \cup {None}
    PROVE  /\ MarkedStarted(e) \in RunEntry \cup {None}
           /\ MarkedStarted(e) = None <=> e = None
           /\ e # None /\ e.status # "PENDING" => MarkedStarted(e) = e
           /\ e # None /\ e.status = "PENDING" => MarkedStarted(e).status = "RUNNING"
<1>1. CASE e = None
      BY <1>1 DEF MarkedStarted
<1>2. CASE e # None /\ e.status # "PENDING"
      BY <1>2 DEF MarkedStarted
<1>3. CASE e # None /\ e.status = "PENDING"
  <2> DEFINE f == [e EXCEPT !.status = "RUNNING"]
  <2>1. e \in RunEntry
        BY <1>3
  <2>2. f \in RunEntry /\ f.status = "RUNNING"
        BY <2>1 DEF RunEntry
  <2>3. f # None
        BY <2>2, TriggerAssumption
  <2>4. MarkedStarted(e) = f
        BY <1>3 DEF MarkedStarted
  <2> HIDE DEF f
  <2> QED
      BY <1>3, <2>2, <2>3, <2>4
<1> QED
    BY <1>1, <1>2, <1>3

(* Invoke marks its run as running, unless it was cancelled meanwhile. *)
LEMMA InvokeReturnsStep ==
    ASSUME Inv, MarkOK, NEW c \in Clients, InvokeReturns(c)
    PROVE  Inv'
<1> SUFFICES ASSUME NEW r, r = job[c].actual PROVE Inv'
    OBVIOUS
<1> DEFINE e == MarkedStarted(entries[r])
<1>1. /\ job' = [job EXCEPT ![c] = Idle] /\ entries' = [entries EXCEPT ![r] = e]
      /\ UNCHANGED <<idem, idemFile, feed, bus, bridge, exec, nextRun, cancel, outcomes, starts, active>>
      BY DEF InvokeReturns, idemVars, runVars, cronVars
<1>2. r \in Runs /\ exec[r] # "none" /\ entries[r] \in RunEntry \cup {None} /\ EntryOK(r) /\ OutcomeOK(r)
      BY Facts DEF InvokeReturns, MarkOK, TypeInv, EntriesOK
<1>3. /\ e \in RunEntry \cup {None} /\ (e = None <=> entries[r] = None)
      /\ entries[r] # None /\ entries[r].status # "PENDING" => e = entries[r]
      /\ entries[r] # None /\ entries[r].status = "PENDING" => e.status = "RUNNING"
      BY <1>2, MarkStarts
<1> HIDE DEF e
<1>4. JobsLater /\ job' \in [Clients -> Job] /\ BridgesShrink
      BY <1>1, IdleOK, LaterIdle, OneLater, BridgesSame
<1>5. \A q \in Runs : entries'[q] = IF q = r THEN e ELSE entries[q]
      BY <1>1, <1>2, Facts DEF TypeInv
<1>6. TypeInv'
  <2>1. entries' \in [Runs -> RunEntry \cup {None}]
        BY <1>1, <1>2, <1>3, Facts DEF TypeInv
  <2> QED
      BY <1>1, <1>4, <2>1, Facts DEF TypeInv
<1>7. \A q \in Runs : r # q => entries'[q] = entries[q]
      BY <1>5
<1>8. IdsOK'
  <2>1. \A q \in Runs : q >= nextRun => exec[q] = "none" /\ entries'[q] = None /\ feed[q] = <<>>
        BY <1>2, <1>7, Facts
  <2> QED
      BY <1>1, <1>4, <1>6, <2>1, IdsLater, Facts
<1>9. FeedOK' /\ KeysOK' /\ CronOK'
      BY <1>1, <1>4, FeedLater, KeysLater, CronLater, Facts
<1>10. EntriesOK'
  <2>1. \A q \in Runs : Free(q) => Free(q)'
        BY <1>4, FreeLater
  <2>2. EntryOK(r)'
        BY <1>1, <1>2, <1>3, <1>5, <2>1 DEF EntryOK
  <2>3. OutcomeOK(r)'
        BY <1>1, <1>2, <1>3, <1>5 DEF OutcomeOK
  <2>4. \A x \in Cancellers : cancel'[x] = r => exec'[r] # "none" /\ entries'[r] # None
        BY <1>1, <1>2, <1>3, <1>5, Facts DEF EntriesOK, TypeInv, Runs
  <2>5. \A d \in Clients : job'[d].pc \in {"start", "bridge", "stream"} =>
           job[d].pc \in {"start", "bridge", "stream"} /\ job'[d].run = job[d].run
        BY <1>4 DEF JobsLater, Later
  <2>6. OnlyEntry(r)
        BY <1>1, <1>2, <1>3, <1>5, <2>1, <2>2, <2>3, <2>4, <2>5 DEF OnlyEntry
  <2> QED
      BY <1>2, <2>6, EntriesChange
<1> QED
    BY <1>6, <1>8, <1>9, <1>10 DEF Inv

(* Invoke fails to start its run. *)
LEMMA InvokeFailsStep ==
    ASSUME Inv, NEW c \in Clients, InvokeFails(c)
    PROVE  Inv'
<1>1. /\ job' = [job EXCEPT ![c] = Idle] /\ active' = ActiveAfter(c)
      /\ UNCHANGED <<idem, idemFile, feed, bus, bridge, exec, nextRun, entries, cancel, outcomes, starts>>
      BY DEF InvokeFails, idemVars, runVars
<1>2. JobsLater /\ job' \in [Clients -> Job] /\ BridgesShrink
      BY <1>1, IdleOK, LaterIdle, OneLater, BridgesSame
<1>3. CronOK' /\ active' \subseteq active
      BY <1>1, IdleOK, CronEnds
<1>4. TypeInv'
      BY <1>1, <1>2, <1>3, Facts DEF TypeInv
<1>5. IdsOK'
      BY <1>1, <1>2, <1>4, IdsLater, Facts
<1>6. FeedOK' /\ KeysOK' /\ EntriesOK'
      BY <1>1, <1>2, FeedLater, KeysLater, EntriesLater, Facts
<1> QED
    BY <1>3, <1>4, <1>5, <1>6 DEF Inv

(* The scheduler fires: an agent all of whose schedules forbid concurrency    *)
(* has no goroutine.                                                         *)
LEMMA FireStep ==
    ASSUME Inv, NEW c \in Clients, NEW s \in Schedules, Fire(s, c)
    PROVE  Inv'
<1>1. UNCHANGED <<idem, idemFile, entries, feed, bus, bridge, exec, cancel, outcomes, starts>>
      BY DEF Fire, idemVars
<1>2. CASE UNCHANGED <<job, active, nextRun>>
  <2>1. JobsLater /\ BridgesShrink
        BY <1>1, <1>2, NoneLater, BridgesSame
  <2>2. TypeInv'
        BY <1>1, <1>2, Facts DEF TypeInv
  <2>3. IdsOK'
        BY <1>1, <1>2, <2>1, <2>2, IdsLater, Facts
  <2>4. FeedOK' /\ KeysOK' /\ EntriesOK' /\ CronOK'
        BY <1>1, <1>2, <2>1, FeedLater, KeysLater, EntriesLater, CronLater, Facts
  <2> QED
      BY <2>2, <2>3, <2>4 DEF Inv
<1>3. CASE /\ MayFire(s) /\ job[c].pc = "idle" /\ nextRun <= MaxRuns /\ nextRun' = nextRun + 1
           /\ job' = [job EXCEPT ![c] = Tick(s, nextRun)] /\ active' = active \cup {AgentOf[s]}
  <2> DEFINE n == Tick(s, nextRun)
  <2>1. nextRun \in Runs /\ nextRun' \in 1..(MaxRuns + 1)
        BY <1>3, Facts DEF TypeInv
  <2>2. n \in Job /\ n.pc = "invoke" /\ n.schedule = s /\ n.run = nextRun /\ ~n.replay
        BY <2>1, NewTick
  <2>3. job' = [job EXCEPT ![c] = n]
        BY <1>3
  <2> HIDE DEF n
  <2>4. JobOK(n) /\ n.schedule # None
    <3>1. s # None
          BY TriggerAssumption
    <3> QED
        BY <2>2, <3>1 DEF JobOK
  <2>5. TypeInv'
    <3>1. job' \in [Clients -> Job]
          BY <2>2, <2>3, Moves, Facts
    <3>2. active' \subseteq {AgentOf[t] : t \in Schedules}
          BY <1>3, Facts DEF TypeInv
    <3> QED
        BY <1>1, <2>1, <3>1, <3>2, Facts DEF TypeInv
  <2>6. /\ IdsOK' /\ FeedOK' /\ EntriesOK'
        /\ \A d \in Clients : job'[d] = IF d = c THEN n ELSE job[d]
        BY <1>1, <1>3, <2>1, <2>2, <2>3, <2>4, <2>5, NewCall
  <2>7. KeysOK'
    <3>1. \A d \in Clients : job'[d].pc \in {"admit", "start"} => job'[d] = job[d]
          BY <2>2, <2>6
    <3> QED
        BY <1>1, <3>1, KeysKept
  <2>8. CronOK'
    <3>1. AllForbid(AgentOf[s]) => AgentOf[s] \notin active
          BY <1>3 DEF AllForbid, MayFire
    <3>2. ASSUME NEW d \in Clients, job'[d].schedule # None, AllForbid(AgentOf[job'[d].schedule])
          PROVE  AgentOf[job'[d].schedule] \in active'
          BY <1>3, <2>2, <2>6, <3>2, Facts DEF CronOK
    <3>3. ASSUME NEW d \in Clients, NEW e \in Clients, job'[d].schedule # None, job'[e].schedule # None,
                 AgentOf[job'[d].schedule] = AgentOf[job'[e].schedule], AllForbid(AgentOf[job'[d].schedule])
          PROVE  d = e
      <4>1. CASE d # c /\ e # c
            BY <2>6, <3>3, <4>1, Facts DEF CronOK
      <4>2. CASE d = c /\ e # c
            BY <2>2, <2>6, <3>1, <3>3, <4>2, Facts DEF CronOK
      <4>3. CASE d # c /\ e = c
            BY <2>2, <2>6, <3>1, <3>3, <4>3, Facts DEF CronOK
      <4> QED
          BY <4>1, <4>2, <4>3
    <3> QED
        BY <3>2, <3>3 DEF CronOK
  <2> QED
      BY <2>5, <2>6, <2>7, <2>8 DEF Inv
<1> QED
    BY <1>2, <1>3 DEF Fire, Tick

-----------------------------------------------------------------------------
(* Streams. *)

(* A stream's call and its run. *)
LEMMA CallFacts ==
    ASSUME Inv, NEW c \in Clients, NEW r, r = job[c].run,
           job[c].pc \in {"admit", "start", "bridge", "stream"}
    PROVE  /\ job[c] \in Job /\ JobOK(job[c]) /\ r \in Runs /\ job[c].key \in Keys \cup {None} /\ Drawn(r)
           /\ exec[r] = "none" /\ r < nextRun /\ job[c].schedule = None
<1>1. job[c] \in Job /\ JobOK(job[c]) /\ r \in Runs /\ job[c].key \in Keys \cup {None}
      BY Facts DEF TypeInv, Job, IdsOK, JobOK
<1>2. Drawn(r) /\ job[c].schedule = None
      BY <1>1, Facts DEF IdsOK, JobOK
<1> QED
    BY <1>1, <1>2 DEF Drawn

(* The feed of a run is announced. *)
LEMMA Announced ==
    /\ Append(<<>>, "run_created") = <<"run_created">> /\ WellFormed(<<"run_created">>)
    /\ <<"run_created">> \in Seq(Types) /\ Open(<<"run_created">>)
<1>1. Append(<<>>, "run_created") = <<"run_created">> /\ <<"run_created">> \in Seq(Types)
      BY DEF Types
<1>2. Len(<<"run_created">>) = 1 /\ <<"run_created">>[1] = "run_created"
      OBVIOUS
<1>3. "run_created" \notin Terminal
      BY DEF Terminal
<1>4. \A i \in 1..1 : i = 1
      OBVIOUS
<1> QED
    BY <1>1, <1>2, <1>3, <1>4 DEF WellFormed, Open

(* The run is registered and announced. *)
LEMMA AdmitStep ==
    ASSUME Inv, NEW c \in Clients, Admit(c)
    PROVE  Inv'
<1> SUFFICES ASSUME NEW r, r = job[c].run PROVE Inv'
    OBVIOUS
<1> DEFINE j == job[c]
           f == Created(j)
           e == Registered(r, "PENDING")
<1>1. /\ job[c].pc = "admit" /\ entries' = [entries EXCEPT ![r] = e]
      /\ UNCHANGED <<idem, idemFile, bus, bridge, exec, nextRun, cancel, outcomes, starts, active>>
      BY DEF Admit, idemVars, cronVars
<1>2. /\ job[c] \in Job /\ JobOK(job[c]) /\ r \in Runs /\ job[c].key \in Keys \cup {None} /\ Drawn(r)
      /\ exec[r] = "none" /\ r < nextRun /\ job[c].schedule = None
      BY <1>1, CallFacts
<1>3. /\ e \in RunEntry /\ (entries[r] # None => e = entries[r])
      /\ entries[r] = None => e.status = "PENDING"
  <2>1. NewEntry("PENDING") \in RunEntry /\ NewEntry("PENDING").status = "PENDING"
        BY DEF NewEntry, RunEntry
  <2>2. entries[r] \in RunEntry \cup {None}
        BY <1>2, Facts DEF TypeInv
  <2> QED
      BY <2>1, <2>2 DEF Registered
<1>4. /\ job[c].replay => f = feed[r]
      /\ ~job[c].replay => Owns(job[c], r) /\ feed[r] = <<>> /\ f = <<"run_created">>
  <2>1. job[c].replay => f = feed[r]
        BY DEF Created
  <2>2. ASSUME ~job[c].replay PROVE Owns(job[c], r) /\ feed[r] = <<>> /\ f = <<"run_created">>
    <3>1. Owns(job[c], r)
          BY <1>1, <2>2 DEF Owns
    <3>2. feed[r] = <<>>
          BY <1>1, <1>2, <3>1, Facts DEF FeedOK
    <3> QED
        BY <2>2, <3>1, <3>2, Announced DEF Created
  <2> QED
      BY <2>1, <2>2
<1> HIDE DEF e, f
<1>5. f \in Seq(Types) /\ WellFormed(f)
  <2>1. feed[r] \in Seq(Types) /\ WellFormed(feed[r])
        BY <1>2, Facts DEF TypeInv, FeedOK
  <2>2. CASE job[c].replay
        BY <1>4, <2>1, <2>2
  <2>3. CASE ~job[c].replay
        BY <1>4, <2>3, Announced
  <2> QED
      BY <2>2, <2>3
<1>6. \A q \in Runs : entries'[q] = IF q = r THEN e ELSE entries[q]
      BY <1>1, <1>2, Facts DEF TypeInv
<1>7. e # None
      BY <1>3, TriggerAssumption
<1>8. PICK n \in Job : /\ job' = [job EXCEPT ![c] = n] /\ JobOK(n) /\ n.schedule = None
                       /\ \/ n.pc = "idle" /\ n.run = 0
                          \/ /\ feed' = [feed EXCEPT ![r] = f] /\ n.run = r /\ n.replay = job[c].replay
                             /\ n.key = job[c].key /\ n.pc = IF job[c].replay THEN "stream" ELSE "start"
  <2>1. CASE job' = [job EXCEPT ![c] = Idle]
        BY <2>1, IdleOK
  <2>2. CASE /\ feed' = [feed EXCEPT ![r] = f]
             /\ job' = [job EXCEPT ![c].pc = IF job[c].replay THEN "stream" ELSE "start"]
    <3> DEFINE pc == IF job[c].replay THEN "stream" ELSE "start"
               n == [job[c] EXCEPT !.pc = pc]
    <3>1. pc \in {"idle", "invoke", "mark", "admit", "start", "bridge", "stream"}
          OBVIOUS
    <3> HIDE DEF pc
    <3>2. /\ n \in Job /\ n.pc = pc /\ n.key = job[c].key /\ n.schedule = job[c].schedule
          /\ n.run = job[c].run /\ n.replay = job[c].replay
          BY <1>2, <3>1, SetPc, ZenonT(40)
    <3>3. job' = [job EXCEPT ![c] = n]
          BY <2>2 DEF pc
    <3> HIDE DEF n
    <3>4. JobOK(n)
          BY <1>2, <3>2 DEF JobOK, pc
    <3> QED
        BY <1>2, <2>2, <3>2, <3>3, <3>4 DEF pc
  <2> QED
      BY <1>1, <2>1, <2>2 DEF Admit, f
<1>9. \A d \in Clients : job'[d] = IF d = c THEN n ELSE job[d]
      BY <1>8, Moves, Facts
<1>10. feed' = feed \/ feed' = [feed EXCEPT ![r] = f]
       BY DEF Admit, f
<1>11. /\ \A q \in Runs : q # r => feed'[q] = feed[q]
       /\ feed'[r] = feed[r] \/ feed'[r] = f
       BY <1>2, <1>10, Facts DEF TypeInv
<1>12. TypeInv'
  <2>1. feed' \in [Runs -> Seq(Types)]
        BY <1>5, <1>10, Facts DEF TypeInv
  <2>2. entries' \in [Runs -> RunEntry \cup {None}]
        BY <1>1, <1>3, Facts DEF TypeInv
  <2>3. job' \in [Clients -> Job]
        BY <1>8, Moves, Facts
  <2> QED
      BY <1>1, <2>1, <2>2, <2>3, Facts DEF TypeInv
<1>13. BridgesShrink
       BY <1>1, BridgesSame
<1>14. IdsOK'
  <2>1. \A d \in Clients : JobOK(job'[d]) /\ job'[d].run \in {0, job[d].run}
        BY <1>8, <1>9, Facts DEF IdsOK
  <2>2. \A q \in Runs : q >= nextRun' => exec'[q] = "none" /\ entries'[q] = None /\ feed'[q] = <<>>
        BY <1>1, <1>2, <1>6, <1>11, Facts
  <2> QED
      BY <1>1, <1>12, <1>13, <2>1, <2>2, IdsKept, Facts
<1>15. \A d \in Clients : \A q \in Runs : Owns(job'[d], q) =>
          Owns(job[d], q) /\ (q # r => (job'[d].pc = "admit" <=> job[d].pc = "admit"))
  <2> SUFFICES ASSUME NEW d \in Clients, NEW q \in Runs, Owns(job'[d], q)
               PROVE  Owns(job[d], q) /\ (q # r => (job'[d].pc = "admit" <=> job[d].pc = "admit"))
      OBVIOUS
  <2>1. CASE d # c
        BY <1>9, <2>1
  <2>2. CASE d = c
    <3>1. n.pc = "start" /\ ~job[c].replay /\ q = r
          BY <1>8, <1>9, <2>2 DEF Owns
    <3> QED
        BY <1>4, <2>2, <3>1
  <2> QED
      BY <2>1, <2>2
<1>16. FeedOK'
  <2>1. \A q \in Runs : Feeds(bridge'[q], r) => Open(feed'[r])
    <3> SUFFICES ASSUME NEW q \in Runs, Feeds(bridge[q], r) PROVE Open(feed'[r])
        BY <1>1
    <3>1. Open(feed[r]) /\ ~Owns(job[c], r)
          BY <1>2, Facts DEF FeedOK
    <3> QED
        BY <1>4, <1>11, <3>1
  <2>2. \A d \in Clients : Owns(job'[d], r) =>
           feed'[r] = IF job'[d].pc = "admit" THEN <<>> ELSE <<"run_created">>
    <3> SUFFICES ASSUME NEW d \in Clients, Owns(job'[d], r)
                 PROVE  feed'[r] = IF job'[d].pc = "admit" THEN <<>> ELSE <<"run_created">>
        OBVIOUS
    <3>1. Owns(job[d], r)
          BY <1>2, <1>15
    <3>2. CASE d = c
      <4>1. n.pc = "start" /\ ~job[c].replay /\ feed' = [feed EXCEPT ![r] = f]
            BY <1>8, <1>9, <3>2 DEF Owns
      <4>2. feed'[r] = <<"run_created">>
            BY <1>2, <1>4, <4>1, Facts DEF TypeInv
      <4> QED
          BY <1>9, <3>2, <4>1, <4>2
    <3>3. CASE d # c
      <4>1. job[c].replay
            BY <1>2, <1>4, <3>1, <3>3, Facts DEF FeedOK
      <4>2. feed'[r] = feed[r] /\ job'[d] = job[d]
            BY <1>4, <1>9, <1>11, <3>3, <4>1
      <4> QED
          BY <1>2, <3>1, <4>2, Facts DEF FeedOK
    <3> QED
        BY <3>2, <3>3
  <2>3. WellFormed(feed'[r])
        BY <1>2, <1>5, <1>11, Facts DEF FeedOK
  <2>4. \A q \in Runs : NeverCreated(bus'[q].events) /\ NeverCreated(bridge'[q].ch)
        BY <1>1, Facts
  <2>5. OnlyFeed(r)
        BY <1>11, <1>13, <1>15, <2>1, <2>2, <2>3, <2>4 DEF OnlyFeed
  <2> QED
      BY <1>2, <2>5, FeedChange
<1>17. KeysOK'
  <2>1. \A d \in Clients : job'[d].pc \in {"admit", "start"} =>
              /\ job[d].pc \in {"admit", "start"} /\ job'[d].replay = job[d].replay
              /\ job'[d].key = job[d].key /\ job'[d].run = job[d].run
        BY <1>1, <1>8, <1>9
  <2> QED
      BY <1>1, <2>1, KeysKept
<1>18. \A q \in Runs : Free(q) => Free(q)'
       BY <1>1, <1>15 DEF Free
<1>19. EntriesOK'
  <2>1. EntryOK(r)'
    <3>1. CASE entries[r] = None
          BY <1>1, <1>2, <1>3, <1>6, <3>1 DEF EntryOK
    <3>2. CASE entries[r] # None
      <4>1. EntryOK(r) /\ entries'[r] = entries[r] /\ exec'[r] = exec[r]
            BY <1>1, <1>2, <1>3, <1>6, <3>2, Facts DEF EntriesOK
      <4>2. entries[r].status \in {"SUCCEEDED", "FAILED"} => feed'[r] = feed[r]
        <5>1. entries[r].status \in {"SUCCEEDED", "FAILED"} => ~Owns(job[c], r)
              BY <3>2, <4>1 DEF EntryOK, Free
        <5> QED
            BY <1>4, <1>11, <5>1
      <4> QED
          BY <1>2, <1>18, <4>1, <4>2 DEF EntryOK
    <3> QED
        BY <3>1, <3>2
  <2>2. OutcomeOK(r)'
    <3>1. OutcomeOK(r)
          BY <1>2, Facts DEF EntriesOK
    <3> QED
        BY <1>1, <1>2, <1>3, <1>6, <3>1 DEF OutcomeOK
  <2>3. \A x \in Cancellers : cancel'[x] = r => exec'[r] # "none" /\ entries'[r] # None
    <3>1. \A x \in Cancellers : cancel[x] # r
      <4>1. r # 0
            BY <1>2, Facts
      <4> QED
          BY <1>2, <4>1, Facts DEF EntriesOK
    <3> QED
        BY <1>1, <3>1
  <2>4. \A d \in Clients : job'[d].pc \in {"start", "bridge", "stream"} =>
          \/ job'[d].run = r /\ entries'[r] # None
          \/ job[d].pc \in {"start", "bridge", "stream"} /\ job'[d].run = job[d].run
        BY <1>2, <1>6, <1>7, <1>8, <1>9
  <2>5. OnlyEntry(r)
    <3>1. \A q \in Runs : q # r =>
             entries'[q] = entries[q] /\ outcomes'[q] = outcomes[q] /\ feed'[q] = feed[q]
          BY <1>1, <1>6, <1>11
    <3>2. entries[r] # None => entries'[r] # None
          BY <1>2, <1>6, <1>7
    <3>3. \A x \in Cancellers : cancel'[x] \in {0, r, cancel[x]}
          BY <1>1
    <3>4. \A q \in Runs : q # r /\ entries[q] # None => (exec'[q] = "none" <=> exec[q] = "none")
          BY <1>1
    <3> QED
        BY <1>18, <2>1, <2>2, <2>3, <2>4, <3>1, <3>2, <3>3, <3>4 DEF OnlyEntry
  <2> QED
      BY <1>2, <2>5, EntriesChange
<1>20. CronOK'
       BY <1>1, <1>8, <1>9, CronKept
<1> QED
    BY <1>12, <1>14, <1>16, <1>17, <1>19, <1>20 DEF Inv

(* An open feed grows by an event that does not announce the run. *)
LEMMA GrowFeed ==
    ASSUME NEW f \in Seq(Types), WellFormed(f), Open(f), NEW t \in Types, t # "run_created"
    PROVE  /\ Append(f, t) \in Seq(Types) /\ WellFormed(Append(f, t))
           /\ t \notin Terminal => Open(Append(f, t))
<1> DEFINE g == Append(f, t)
<1>1. /\ g \in Seq(Types) /\ Len(g) = Len(f) + 1 /\ Len(f) \in Nat
      /\ \A i \in 1..Len(g) : g[i] = IF i = Len(f) + 1 THEN t ELSE f[i]
      OBVIOUS
<1>2. Len(f) # 0
      BY DEF Open
<1> HIDE DEF g
<1>3. ASSUME NEW i \in 1..Len(g)
      PROVE  (g[i] = "run_created" <=> i = 1) /\ (g[i] \in Terminal => i = Len(g))
  <2>1. CASE i = Len(f) + 1
        BY <1>1, <1>2, <2>1
  <2>2. CASE i # Len(f) + 1
    <3>1. i \in 1..Len(f) /\ g[i] = f[i]
          BY <1>1, <2>2
    <3> QED
        BY <3>1 DEF WellFormed, Open
  <2> QED
      BY <2>1, <2>2
<1>4. ASSUME t \notin Terminal PROVE Open(g)
  <2>1. g # <<>>
        BY <1>1
  <2>2. ASSUME NEW i \in 1..Len(g) PROVE g[i] \notin Terminal
    <3>1. i = Len(f) + 1 \/ i \in 1..Len(f)
          BY <1>1
    <3> QED
        BY <1>1, <1>4, <3>1 DEF Open
  <2> QED
      BY <2>1, <2>2 DEF Open
<1> QED
    BY <1>1, <1>3, <1>4 DEF WellFormed, g

(* What is left of a channel, and what the bus replays, announces no run. *)
LEMMA NeverCreatedParts ==
    ASSUME NEW q \in Seq(Types), NeverCreated(q)
    PROVE  /\ q # <<>> => /\ Head(q) \in Types /\ Head(q) # "run_created" /\ Tail(q) \in Seq(Types)
                          /\ NeverCreated(Tail(q)) /\ Len(Tail(q)) <= Len(q)
           /\ \A n \in 0..Len(q) : /\ SubSeq(q, 1, n) \in Seq(Types) /\ Len(SubSeq(q, 1, n)) = n
                                   /\ NeverCreated(SubSeq(q, 1, n))
<1>1. ASSUME q # <<>>
      PROVE  /\ Head(q) \in Types /\ Head(q) # "run_created" /\ Tail(q) \in Seq(Types)
             /\ NeverCreated(Tail(q)) /\ Len(Tail(q)) <= Len(q)
  <2>1. /\ Len(q) \in Nat /\ Len(q) # 0 /\ Head(q) = q[1] /\ Tail(q) \in Seq(Types)
        /\ Len(Tail(q)) = Len(q) - 1 /\ \A i \in 1..(Len(q) - 1) : Tail(q)[i] = q[i + 1]
        BY <1>1
  <2>2. q[1] \in Types /\ q[1] # "run_created"
        BY <2>1 DEF NeverCreated
  <2>3. NeverCreated(Tail(q))
        BY <2>1 DEF NeverCreated
  <2> QED
      BY <2>1, <2>2, <2>3
<1>2. ASSUME NEW n \in 0..Len(q)
      PROVE  /\ SubSeq(q, 1, n) \in Seq(Types) /\ Len(SubSeq(q, 1, n)) = n
             /\ NeverCreated(SubSeq(q, 1, n))
  <2>1. /\ SubSeq(q, 1, n) \in Seq(Types) /\ Len(SubSeq(q, 1, n)) = n
        /\ \A i \in 1..n : SubSeq(q, 1, n)[i] = q[i]
        OBVIOUS
  <2> QED
      BY <2>1 DEF NeverCreated
<1> QED
    BY <1>1, <1>2

(* A stream starts its run: only the call that reserved the key may, and it   *)
(* has not done so before.                                                    *)
LEMMA StreamStartsStep ==
    ASSUME Inv, NEW c \in Clients, StreamStarts(c)
    PROVE  Inv'
<1> SUFFICES ASSUME NEW r, r = job[c].run PROVE Inv'
    OBVIOUS
<1>1. /\ job[c].pc = "start" /\ nextRun <= MaxRuns /\ StartExec(nextRun)
      /\ UNCHANGED <<idem, idemFile, entries, feed, bridge, cancel, outcomes, active>>
      BY DEF StreamStarts, idemVars, cronVars
<1>2. /\ job[c] \in Job /\ JobOK(job[c]) /\ r \in Runs /\ job[c].key \in Keys \cup {None} /\ Drawn(r)
      /\ exec[r] = "none" /\ r < nextRun /\ job[c].schedule = None
      BY <1>1, CallFacts
<1>3. /\ nextRun \in Runs /\ nextRun' = nextRun + 1 /\ nextRun' \in 1..(MaxRuns + 1)
      /\ exec' \in [Runs -> {"none", "running", "ended"}] /\ bus' \in [Runs -> Buffer]
      /\ \A q \in Runs : exec'[q] = IF q = nextRun THEN "running" ELSE exec[q]
      /\ \A q \in Runs : NeverCreated(bus'[q].events)
      /\ entries[nextRun] = None
      BY <1>1, Starts
<1> DEFINE m == [job[c] EXCEPT !.pc = "bridge"]
           n == [m EXCEPT !.actual = nextRun]
<1>4. job' = [job EXCEPT ![c] = n]
  <2>1. [job[c] EXCEPT !.pc = "bridge", !.actual = nextRun] = n
        OBVIOUS
  <2>2. job' = [job EXCEPT ![c] = [job[c] EXCEPT !.pc = "bridge", !.actual = nextRun]]
    <3>1. c \in DOMAIN job
          BY Facts DEF TypeInv
    <3> QED
        BY <3>1 DEF StreamStarts
  <2> QED
      BY <2>1, <2>2
<1>5. /\ m \in Job /\ m.pc = "bridge" /\ m.key = job[c].key /\ m.schedule = job[c].schedule
      /\ m.run = job[c].run /\ m.replay = job[c].replay
      BY <1>2, SetPc
<1> HIDE DEF m
<1>6. /\ n \in Job /\ n.pc = "bridge" /\ n.key = job[c].key /\ n.schedule = job[c].schedule
      /\ n.run = job[c].run /\ n.replay = job[c].replay /\ n.actual = nextRun
  <2>1. nextRun \in 0..MaxRuns
        BY <1>3, Facts
  <2> QED
      BY <1>5, <2>1, SetActual
<1> HIDE DEF n
<1>7. Later(n, job[c])
  <2>1. JobOK(n)
        BY <1>1, <1>2, <1>3, <1>6 DEF JobOK
  <2> QED
      BY <1>1, <1>6, <2>1 DEF Later
<1>8. JobsLater /\ job' \in [Clients -> Job] /\ BridgesShrink
      BY <1>1, <1>4, <1>6, <1>7, OneLater, BridgesSame
<1>9. \A d \in Clients : job'[d] = IF d = c THEN n ELSE job[d]
      BY <1>4, <1>6, Moves, Facts
<1>10. \A k \in Keys : starts'[k] = IF k = job[c].key /\ Holds(job[c]) THEN starts[k] + 1 ELSE starts[k]
       BY <1>2, Facts DEF StreamStarts, TypeInv, Holds
<1>11. TypeInv'
  <2>1. starts' \in [Keys -> Nat]
        BY <1>2, Facts, SMTT(30) DEF StreamStarts, TypeInv, Holds
  <2> QED
      BY <1>1, <1>3, <1>8, <2>1, Facts DEF TypeInv
<1>12. \A q \in Runs : q \in Int /\ nextRun \in Int
       BY Facts
<1>13. IdsOK'
  <2>1. \A q \in Runs : q < nextRun /\ exec[q] = "none" => exec'[q] = "none"
        BY <1>3, <1>12
  <2>2. \A q \in Runs : q >= nextRun' => exec'[q] = "none" /\ entries'[q] = None /\ feed'[q] = <<>>
        BY <1>1, <1>3, <1>12, Facts
  <2>3. nextRun <= nextRun'
        BY <1>3, <1>12
  <2> QED
      BY <1>1, <1>8, <1>11, <2>1, <2>2, <2>3, IdsLater
<1>14. FeedOK' /\ CronOK'
       BY <1>1, <1>3, <1>8, FeedLater, CronLater, Facts
<1>15. EntriesOK'
  <2>1. \A q \in Runs : entries[q] # None => (exec'[q] = "none" <=> exec[q] = "none")
        BY <1>3
  <2> QED
      BY <1>1, <1>8, <2>1, EntriesLater
<1>16. KeysOK'
  <2>1. ~job[c].replay /\ Owns(job[c], r)
        BY <1>1, <1>2 DEF JobOK, Owns
  <2>2. Holds(job[c]) => starts[job[c].key] = 0 /\ Lives(idem[job[c].key])
        BY <1>1, <2>1, Facts DEF KeysOK, Holds, Lives
  <2>3. \A k \in Keys : starts'[k] <= 1 /\ (~Lives(idem'[k]) => starts'[k] = 0)
    <3> SUFFICES ASSUME NEW k \in Keys PROVE starts'[k] <= 1 /\ (~Lives(idem'[k]) => starts'[k] = 0)
        OBVIOUS
    <3>1. starts[k] <= 1 /\ (~Lives(idem[k]) => starts[k] = 0)
          BY Facts DEF KeysOK
    <3>2. CASE k = job[c].key /\ Holds(job[c])
          BY <1>1, <1>10, <2>2, <3>2
    <3>3. CASE ~(k = job[c].key /\ Holds(job[c]))
          BY <1>1, <1>10, <3>1, <3>3
    <3> QED
        BY <3>2, <3>3
  <2>4. ASSUME NEW d \in Clients, job'[d].pc \in {"admit", "start"}, ~job'[d].replay, Holds(job[d])'
        PROVE  starts'[job'[d].key] = 0
    <3>1. d # c /\ job'[d] = job[d]
          BY <1>6, <1>9, <2>4
    <3>2. Holds(job[d]) /\ job[d].key \in Keys
          BY <1>1, <2>4, <3>1, Facts DEF Holds, TypeInv, Job
    <3>3. starts[job[d].key] = 0
          BY <2>4, <3>1, <3>2, Facts DEF KeysOK
    <3>4. ~(job[d].key = job[c].key /\ Holds(job[c]))
      <4>1. SUFFICES ASSUME job[d].key = job[c].key, Holds(job[c]) PROVE FALSE
            OBVIOUS
      <4>2. job[d].run = r
            BY <3>2, <4>1 DEF Holds
      <4>3. Owns(job[d], r)
            BY <2>4, <3>1, <4>2 DEF Owns
      <4> QED
          BY <1>2, <2>1, <3>1, <4>3, Facts DEF FeedOK
    <3> QED
        BY <1>10, <3>1, <3>2, <3>3, <3>4
  <2> QED
      BY <1>1, <2>3, <2>4, Facts DEF KeysOK
<1> QED
    BY <1>11, <1>13, <1>14, <1>15, <1>16 DEF Inv

(* MarkFinished changes the status of an entry, unless it is cancelled. *)
LEMMA Marks ==
    ASSUME NEW e \in RunEntry, NEW s \in Finished
    PROVE  /\ MarkedFinished(e, s) \in RunEntry
           /\ e.status = "CANCELLED" => MarkedFinished(e, s) = e
           /\ e.status # "CANCELLED" => MarkedFinished(e, s).status = s
BY DEF MarkedFinished, RunEntry

(* The entry of a stream's run is marked finished: its feed says the same and  *)
(* nobody writes it any more.                                                  *)
LEMMA FinishEntry ==
    ASSUME Inv, NEW c \in Clients, NEW r \in Runs, NEW s \in Finished, job[c].run = r, Drawn(r),
           job[c].pc \in {"start", "bridge", "stream"},
           entries' = [entries EXCEPT ![r] = MarkedFinished(@, s)],
           UNCHANGED <<exec, outcomes, cancel>>, JobsLater, BridgesShrink, Free(r)',
           \A q \in Runs : q # r => feed'[q] = feed[q],
           \A i \in 1..Len(feed'[r]) : feed'[r][i] \in Terminal => StatusOf(feed'[r][i]) = s
    PROVE  EntriesOK' /\ entries' \in [Runs -> RunEntry \cup {None}]
<1> DEFINE e == MarkedFinished(entries[r], s)
<1>1. entries[r] \in RunEntry /\ entries[r] # None
      BY Facts, TriggerAssumption DEF EntriesOK, TypeInv
<1>2. /\ e \in RunEntry /\ (entries[r].status = "CANCELLED" => e = entries[r])
      /\ entries[r].status # "CANCELLED" => e.status = s
      BY <1>1, Marks
<1>3. entries' = [entries EXCEPT ![r] = e]
      OBVIOUS
<1> HIDE DEF e
<1>4. \A q \in Runs : entries'[q] = IF q = r THEN e ELSE entries[q]
      BY <1>3, Facts DEF TypeInv
<1>5. e # None
      BY <1>2, TriggerAssumption
<1>6. exec[r] = "none" /\ EntryOK(r) /\ OutcomeOK(r)
      BY Facts DEF Drawn, EntriesOK
<1>7. EntryOK(r)'
  <2>1. e.status # "RUNNING"
    <3>1. s # "RUNNING" /\ "CANCELLED" # "RUNNING"
          BY DEF Finished
    <3> QED
        BY <1>2, <3>1
  <2>2. e.status \in {"SUCCEEDED", "FAILED"} => e.status = s
        BY <1>2
  <2> QED
      BY <1>4, <1>6, <2>1, <2>2 DEF EntryOK
<1>8. OutcomeOK(r)'
      BY <1>2, <1>4, <1>5, <1>6 DEF OutcomeOK
<1>9. \A q \in Runs : q # r =>
             entries'[q] = entries[q] /\ outcomes'[q] = outcomes[q] /\ feed'[q] = feed[q]
      BY <1>4
<1>10. \A q \in Runs : q # r /\ Free(q) => Free(q)'
       BY FreeLater
<1>11. \A d \in Clients : job'[d].pc \in {"start", "bridge", "stream"} =>
          \/ job'[d].run = r /\ entries'[r] # None
          \/ job[d].pc \in {"start", "bridge", "stream"} /\ job'[d].run = job[d].run
       BY DEF JobsLater, Later
<1>12. \A x \in Cancellers : cancel'[x] = r => exec'[r] # "none" /\ entries'[r] # None
  <2>1. r # 0
        BY Facts
  <2> QED
      BY <1>6, <2>1, Facts DEF EntriesOK
<1>13. OnlyEntry(r)
  <2>1. /\ \A x \in Cancellers : cancel'[x] \in {0, r, cancel[x]}
        /\ \A q \in Runs : q # r /\ entries[q] # None => (exec'[q] = "none" <=> exec[q] = "none")
        /\ entries[r] # None => entries'[r] # None
        BY <1>4, <1>5
  <2> QED
      BY <1>7, <1>8, <1>9, <1>10, <1>11, <1>12, <2>1 DEF OnlyEntry
<1>14. entries' \in [Runs -> RunEntry \cup {None}]
       BY <1>2, <1>3, Facts DEF TypeInv
<1> QED
    BY <1>13, <1>14, EntriesChange

(* The events of a failed start. *)
LEMMA FailedFeed ==
    LET f == Append(<<"run_created">>, "run_failed")
    IN  /\ f \in Seq(Types) /\ WellFormed(f)
        /\ \A i \in 1..Len(f) : f[i] \in Terminal => StatusOf(f[i]) = "FAILED"
<1> DEFINE f == Append(<<"run_created">>, "run_failed")
<1>1. "run_failed" \in Types /\ "run_failed" # "run_created"
      BY DEF Types, Terminal
<1>2. f \in Seq(Types) /\ WellFormed(f)
      BY <1>1, Announced, GrowFeed
<1>3. Len(f) = 2 /\ f[1] = "run_created" /\ f[2] = "run_failed"
      OBVIOUS
<1> HIDE DEF f
<1>4. StatusOf("run_failed") = "FAILED"
      BY DEF StatusOf
<1>5. \A i \in 1..Len(f) : f[i] \in Terminal => StatusOf(f[i]) = "FAILED"
  <2>1. \A i \in 1..2 : i = 1 \/ i = 2
        OBVIOUS
  <2>2. "run_created" \notin Terminal
        BY DEF Terminal
  <2> QED
      BY <1>3, <1>4, <2>1, <2>2
<1> QED
    BY <1>2, <1>5 DEF f

(* invokeFunc fails. *)
LEMMA StreamStartFailsStep ==
    ASSUME Inv, NEW c \in Clients, StreamStartFails(c)
    PROVE  Inv'
<1> SUFFICES ASSUME NEW r, r = job[c].run PROVE Inv'
    OBVIOUS
<1>1. /\ job[c].pc = "start" /\ entries' = [entries EXCEPT ![r] = MarkedFinished(@, "FAILED")]
      /\ UNCHANGED <<idem, idemFile, bus, bridge, exec, nextRun, cancel, outcomes, starts, active>>
      BY DEF StreamStartFails, idemVars, cronVars
<1>2. /\ job[c] \in Job /\ JobOK(job[c]) /\ r \in Runs /\ job[c].key \in Keys \cup {None} /\ Drawn(r)
      /\ exec[r] = "none" /\ r < nextRun /\ job[c].schedule = None
      BY <1>1, CallFacts
<1>3. Owns(job[c], r) /\ feed[r] = <<"run_created">>
  <2>1. Owns(job[c], r)
        BY <1>1, <1>2 DEF Owns, JobOK
  <2> QED
      BY <1>1, <1>2, <2>1, Facts DEF FeedOK
<1>4. PICK n \in Job : /\ job' = [job EXCEPT ![c] = n] /\ Later(n, job[c]) /\ n.pc \in {"idle", "stream"}
  <2>1. CASE job' = [job EXCEPT ![c] = Idle]
    <3>1. Later(Idle, job[c]) /\ Idle \in Job /\ Idle.pc \in {"idle", "stream"}
          BY LaterIdle, IdleOK
    <3> QED
        BY <2>1, <3>1
  <2>2. CASE job' = [job EXCEPT ![c].pc = "stream"]
    <3> DEFINE n == [job[c] EXCEPT !.pc = "stream"]
    <3>1. /\ n \in Job /\ n.pc = "stream" /\ n.key = job[c].key /\ n.schedule = job[c].schedule
          /\ n.run = job[c].run /\ n.replay = job[c].replay
          BY <1>2, SetPc
    <3>2. job' = [job EXCEPT ![c] = n]
          BY <2>2
    <3> HIDE DEF n
    <3>3. JobOK(n)
          BY <1>2, <3>1 DEF JobOK
    <3>4. Later(n, job[c])
          BY <1>1, <3>1, <3>3 DEF Later
    <3> QED
        BY <3>1, <3>2, <3>4
  <2> QED
      BY <2>1, <2>2 DEF StreamStartFails
<1>5. \A d \in Clients : job'[d] = IF d = c THEN n ELSE job[d]
      BY <1>4, Moves, Facts
<1>6. JobsLater /\ job' \in [Clients -> Job] /\ BridgesShrink
      BY <1>1, <1>4, OneLater, BridgesSame
<1>7. feed' = feed \/ feed' = [feed EXCEPT ![r] = Append(<<"run_created">>, "run_failed")]
      BY <1>3 DEF StreamStartFails
<1>8. /\ feed' \in [Runs -> Seq(Types)] /\ \A q \in Runs : q # r => feed'[q] = feed[q]
      /\ feed'[r] = <<"run_created">> \/ feed'[r] = Append(<<"run_created">>, "run_failed")
  <2> DEFINE g == Append(<<"run_created">>, "run_failed")
  <2>1. g \in Seq(Types)
        BY FailedFeed
  <2>2. feed' = feed \/ feed' = [feed EXCEPT ![r] = g]
        BY <1>7
  <2> HIDE DEF g
  <2>3. /\ feed' \in [Runs -> Seq(Types)] /\ \A q \in Runs : q # r => feed'[q] = feed[q]
        /\ feed'[r] = feed[r] \/ feed'[r] = g
    <3>1. feed \in [Runs -> Seq(Types)]
          BY Facts DEF TypeInv
    <3>2. CASE feed' = feed
          BY <3>1, <3>2
    <3>3. CASE feed' = [feed EXCEPT ![r] = g]
          BY <1>2, <2>1, <3>1, <3>3
    <3> QED
        BY <2>2, <3>2, <3>3
  <2> QED
      BY <1>3, <2>3 DEF g
<1>9. WellFormed(feed'[r]) /\ \A i \in 1..Len(feed'[r]) : feed'[r][i] \in Terminal => StatusOf(feed'[r][i]) = "FAILED"
  <2>1. CASE feed'[r] = <<"run_created">>
    <3>1. \A i \in 1..Len(<<"run_created">>) : <<"run_created">>[i] \notin Terminal
          BY Announced DEF Open
    <3> QED
        BY <2>1, <3>1, Announced
  <2>2. CASE feed'[r] = Append(<<"run_created">>, "run_failed")
        BY <2>2, FailedFeed
  <2> QED
      BY <1>8, <2>1, <2>2
<1>10. Free(r)'
  <2>1. ASSUME NEW d \in Clients PROVE ~Owns(job'[d], r)
    <3>1. CASE d = c
          BY <1>4, <1>5, <3>1 DEF Owns
    <3>2. CASE d # c
          BY <1>2, <1>3, <1>5, <3>2, Facts DEF FeedOK
    <3> QED
        BY <3>1, <3>2
  <2>2. ASSUME NEW q \in Runs PROVE ~Feeds(bridge'[q], r)
        BY <1>1, <1>2, <1>3, Facts DEF FeedOK
  <2> QED
      BY <2>1, <2>2 DEF Free
<1>11. EntriesOK' /\ entries' \in [Runs -> RunEntry \cup {None}]
  <2>1. "FAILED" \in Finished /\ job[c].pc \in {"start", "bridge", "stream"}
        BY <1>1 DEF Finished
  <2> QED
      BY <1>1, <1>2, <1>6, <1>8, <1>9, <1>10, <2>1, FinishEntry
<1>12. TypeInv'
       BY <1>1, <1>6, <1>8, <1>11, Facts DEF TypeInv
<1>13. IdsOK'
  <2>1. \A q \in Runs : q >= nextRun' => exec'[q] = "none" /\ entries'[q] = None /\ feed'[q] = <<>>
    <3>1. \A q \in Runs : q # r => entries'[q] = entries[q]
          BY <1>1, <1>2, Facts DEF TypeInv
    <3>2. ~(r >= nextRun)
          BY <1>2, Facts
    <3> QED
        BY <1>1, <1>8, <3>1, <3>2, Facts
  <2> QED
      BY <1>1, <1>6, <1>12, <2>1, IdsLater, Facts
<1>14. FeedOK'
  <2>1. \A d \in Clients : \A q \in Runs : Owns(job'[d], q) =>
          Owns(job[d], q) /\ (q # r => (job'[d].pc = "admit" <=> job[d].pc = "admit"))
        BY <1>6, OwnersLater
  <2>2. \A d \in Clients : ~Owns(job'[d], r)
        BY <1>10 DEF Free
  <2>3. \A q \in Runs : ~Feeds(bridge'[q], r)
        BY <1>10 DEF Free
  <2>4. \A q \in Runs : NeverCreated(bus'[q].events) /\ NeverCreated(bridge'[q].ch)
        BY <1>1, Facts
  <2>5. OnlyFeed(r)
        BY <1>6, <1>8, <1>9, <2>1, <2>2, <2>3, <2>4 DEF OnlyFeed
  <2> QED
      BY <1>2, <2>5, FeedChange
<1>15. KeysOK' /\ CronOK'
       BY <1>1, <1>6, KeysLater, CronLater
<1> QED
    BY <1>11, <1>12, <1>13, <1>14, <1>15 DEF Inv

(* The bridge subscribes: what the call might write, the bridge may. *)
LEMMA BridgeSubscribes ==
    ASSUME Inv, NEW c \in Clients, Bridge(c)
    PROVE  Inv'
<1> SUFFICES ASSUME NEW r, r = job[c].run, NEW a, a = job[c].actual PROVE Inv'
    OBVIOUS
<1> DEFINE len == IF Len(bus[a].events) < BusBuffer THEN Len(bus[a].events) ELSE BusBuffer
           ch  == SubSeq(bus[a].events, 1, len)
           b   == [on |-> TRUE, store |-> r, ch |-> ch, shut |-> bus[a].closed]
           n   == [job[c] EXCEPT !.pc = "stream"]
<1>1. /\ job[c].pc = "bridge" /\ bridge' = [bridge EXCEPT ![a] = b] /\ job' = [job EXCEPT ![c] = n]
      /\ UNCHANGED <<idem, idemFile, entries, feed, bus, exec, nextRun, cancel, outcomes, starts, active>>
      BY DEF Bridge, idemVars, cronVars
<1>2. /\ job[c] \in Job /\ JobOK(job[c]) /\ r \in Runs /\ job[c].key \in Keys \cup {None} /\ Drawn(r)
      /\ exec[r] = "none" /\ r < nextRun /\ job[c].schedule = None
      BY <1>1, CallFacts
<1>3. a \in Runs /\ ~job[c].replay
      BY <1>1, <1>2 DEF JobOK
<1>4. ch \in Seq(Types) /\ Len(ch) <= BusBuffer /\ NeverCreated(ch) /\ bus[a].closed \in BOOLEAN
  <2>1. bus[a].events \in Seq(Types) /\ NeverCreated(bus[a].events) /\ bus[a].closed \in BOOLEAN
        BY <1>3, Facts DEF TypeInv, Buffer
  <2>2. len \in 0..Len(bus[a].events) /\ len <= BusBuffer
        BY <2>1, TriggerAssumption
  <2> HIDE DEF len
  <2> QED
      BY <2>1, <2>2, NeverCreatedParts
<1> HIDE DEF ch
<1>5. b \in BridgeState /\ b.on /\ b.store = r /\ b.ch = ch
  <2>1. r \in 0..MaxRuns
        BY <1>2, Facts
  <2> QED
      BY <1>4, <2>1 DEF BridgeState
<1>6. /\ n \in Job /\ n.pc = "stream" /\ n.key = job[c].key /\ n.schedule = job[c].schedule
      /\ n.run = job[c].run /\ n.replay = job[c].replay
      BY <1>2, SetPc
<1> HIDE DEF b, n
<1>7. Later(n, job[c])
  <2>1. JobOK(n)
        BY <1>1, <1>2, <1>6 DEF JobOK
  <2> QED
      BY <1>1, <1>6, <2>1 DEF Later
<1>8. JobsLater /\ job' \in [Clients -> Job] /\ \A d \in Clients : job'[d] = IF d = c THEN n ELSE job[d]
      BY <1>1, <1>6, <1>7, OneLater, Moves, Facts
<1>9. \A q \in Runs : bridge'[q] = IF q = a THEN b ELSE bridge[q]
      BY <1>1, <1>3, Facts DEF TypeInv
<1>10. TypeInv'
  <2>1. bridge' \in [Runs -> BridgeState]
        BY <1>1, <1>5, Facts DEF TypeInv
  <2>2. \A q \in Runs : Len(bridge'[q].ch) <= BusBuffer
        BY <1>4, <1>5, <1>9, Facts DEF TypeInv
  <2> QED
      BY <1>1, <1>8, <2>1, <2>2, Facts DEF TypeInv
<1>11. IdsOK'
  <2>1. \A q \in Runs : Drawn(q) <=> Drawn(q)'
        BY <1>1 DEF Drawn
  <2>2. ASSUME NEW d \in Clients PROVE JobOK(job'[d]) /\ (job'[d].run # 0 => Drawn(job[d].run)')
    <3>1. JobOK(job'[d]) /\ job'[d].run \in {0, job[d].run}
          BY <1>8 DEF JobsLater, Later
    <3>2. job[d].run # 0 => Drawn(job[d].run)
          BY Facts DEF IdsOK
    <3> QED
        BY <1>1, <3>1, <3>2 DEF Drawn
  <2>3. \A q \in Runs : bridge'[q].on => bridge'[q].store \in Runs /\ Drawn(bridge[q].store)'
    <3> SUFFICES ASSUME NEW q \in Runs, bridge'[q].on
                 PROVE  bridge'[q].store \in Runs /\ Drawn(bridge[q].store)'
        OBVIOUS
    <3>1. CASE q = a
          BY <1>1, <1>2, <1>5, <1>9, <3>1 DEF Drawn
    <3>2. CASE q # a
          BY <1>1, <1>9, <3>2, Facts DEF Drawn, IdsOK
    <3> QED
        BY <3>1, <3>2
  <2>4. \A k \in Keys : /\ idem'[k] # None => Drawn(idem[k].run)'
                        /\ idemFile'[k] # None => Drawn(idemFile[k].run)'
        BY <1>1, Facts DEF Drawn, IdsOK
  <2>5. \A q \in Runs : q >= nextRun' => exec'[q] = "none" /\ entries'[q] = None /\ feed'[q] = <<>>
        BY <1>1, Facts
  <2> QED
      BY <2>2, <2>3, <2>4, <2>5 DEF IdsOK
<1>12. Owns(job[c], r) /\ feed[r] = <<"run_created">>
  <2>1. Owns(job[c], r)
        BY <1>1, <1>3 DEF Owns
  <2> QED
      BY <1>1, <1>2, <2>1, Facts DEF FeedOK
<1>13. \A q \in Runs : ~Feeds(bridge[q], r)
       BY <1>2, <1>12, Facts DEF FeedOK
<1>14. \A d \in Clients : ~Owns(job'[d], r)
  <2> SUFFICES ASSUME NEW d \in Clients, Owns(job'[d], r) PROVE FALSE
      OBVIOUS
  <2>1. Owns(job[d], r)
        BY <1>8, OwnersLater
  <2>2. d = c
        BY <1>2, <1>12, <2>1, Facts DEF FeedOK
  <2> QED
      BY <1>6, <1>8, <2>2 DEF Owns
<1>15. \A p, q \in Runs : Feeds(bridge'[p], q) => IF p = a THEN q = r ELSE q # r /\ Feeds(bridge[p], q)
       BY <1>5, <1>9, <1>13 DEF Feeds
<1>16. FeedOK'
  <2>1. \A q \in Runs : WellFormed(feed'[q]) /\ NeverCreated(bus'[q].events) /\ NeverCreated(bridge'[q].ch)
        BY <1>1, <1>4, <1>5, <1>9, Facts DEF FeedOK
  <2>2. ASSUME NEW d \in Clients, NEW e \in Clients, NEW q \in Runs, Owns(job'[d], q), Owns(job'[e], q)
        PROVE  d = e
    <3>1. Owns(job[d], q) /\ Owns(job[e], q)
          BY <1>8, <2>2, OwnersLater
    <3> QED
        BY <3>1, Facts DEF FeedOK
  <2>3. ASSUME NEW d \in Clients, NEW p \in Runs, NEW q \in Runs, Owns(job'[d], q), Feeds(bridge'[p], q)
        PROVE  FALSE
    <3>1. Owns(job[d], q) /\ q # r
          BY <1>8, <1>14, <2>3, OwnersLater
    <3>2. Feeds(bridge[p], q)
          BY <1>15, <2>3, <3>1
    <3> QED
        BY <3>1, <3>2, Facts DEF FeedOK
  <2>4. ASSUME NEW o \in Runs, NEW p \in Runs, NEW q \in Runs, Feeds(bridge'[o], q), Feeds(bridge'[p], q)
        PROVE  o = p
    <3>1. CASE q = r
          BY <1>15, <2>4, <3>1
    <3>2. CASE q # r
      <4>1. Feeds(bridge[o], q) /\ Feeds(bridge[p], q)
            BY <1>15, <2>4, <3>2
      <4> QED
          BY <4>1, Facts DEF FeedOK
    <3> QED
        BY <3>1, <3>2
  <2>5. ASSUME NEW d \in Clients, NEW q \in Runs, Owns(job'[d], q)
        PROVE  feed'[q] = IF job'[d].pc = "admit" THEN <<>> ELSE <<"run_created">>
    <3>1. Owns(job[d], q) /\ (job'[d].pc = "admit" <=> job[d].pc = "admit")
          BY <1>8, <2>5, OwnersLater
    <3>2. feed[q] = IF job[d].pc = "admit" THEN <<>> ELSE <<"run_created">>
          BY <3>1, Facts DEF FeedOK
    <3> QED
        BY <1>1, <3>1, <3>2
  <2>6. ASSUME NEW p \in Runs, NEW q \in Runs, Feeds(bridge'[p], q) PROVE Open(feed'[q])
    <3>1. CASE q = r
          BY <1>1, <1>12, <3>1, Announced
    <3>2. CASE q # r
          BY <1>1, <1>15, <2>6, <3>2, Facts DEF FeedOK
    <3> QED
        BY <3>1, <3>2
  <2> QED
      BY <2>1, <2>2, <2>3, <2>4, <2>5, <2>6 DEF FeedOK
<1>17. EntriesOK'
  <2>1. \A q \in Runs : q # r /\ Free(q) => Free(q)'
    <3> SUFFICES ASSUME NEW q \in Runs, q # r, Free(q) PROVE Free(q)'
        OBVIOUS
    <3>1. \A d \in Clients : ~Owns(job'[d], q)
          BY <1>8, OwnersLater DEF Free
    <3>2. \A p \in Runs : ~Feeds(bridge'[p], q)
          BY <1>15 DEF Free
    <3> QED
        BY <3>1, <3>2 DEF Free
  <2>2. EntryOK(r)' /\ OutcomeOK(r)'
    <3>1. EntryOK(r) /\ OutcomeOK(r) /\ ~Free(r)
          BY <1>2, <1>12, Facts DEF EntriesOK, Free
    <3> QED
        BY <1>1, <3>1 DEF EntryOK, OutcomeOK
  <2>3. \A x \in Cancellers : cancel'[x] = r => exec'[r] # "none" /\ entries'[r] # None
    <3>1. r # 0
          BY <1>2, Facts
    <3> QED
        BY <1>1, <1>2, <3>1, Facts DEF EntriesOK
  <2>4. \A d \in Clients : job'[d].pc \in {"start", "bridge", "stream"} =>
          \/ job'[d].run = r /\ entries'[r] # None
          \/ job[d].pc \in {"start", "bridge", "stream"} /\ job'[d].run = job[d].run
        BY <1>8 DEF JobsLater, Later
  <2>5. OnlyEntry(r)
        BY <1>1, <2>1, <2>2, <2>3, <2>4 DEF OnlyEntry
  <2> QED
      BY <1>2, <2>5, EntriesChange
<1>18. KeysOK' /\ CronOK'
       BY <1>1, <1>8, KeysLater, CronLater
<1> QED
    BY <1>10, <1>11, <1>16, <1>17, <1>18 DEF Inv

(* A bridge that has ended. *)
LEMMA NoBridgeOK ==
    NoBridge \in BridgeState /\ ~NoBridge.on /\ NoBridge.ch = <<>> /\ NeverCreated(NoBridge.ch)
<1>1. NoBridge \in BridgeState /\ ~NoBridge.on /\ NoBridge.ch = <<>>
      BY TriggerAssumption DEF NoBridge, BridgeState
<1> QED
    BY <1>1 DEF NeverCreated

(* A bridge takes an event, or ends. *)
LEMMA BridgeMoves ==
    ASSUME Inv, NEW p \in Runs, NEW b \in BridgeState, bridge' = [bridge EXCEPT ![p] = b],
           b.on => bridge[p].on /\ b.store = bridge[p].store,
           Len(b.ch) <= BusBuffer, NeverCreated(b.ch)
    PROVE  /\ BridgesShrink /\ bridge' \in [Runs -> BridgeState]
           /\ \A q \in Runs : bridge'[q] = IF q = p THEN b ELSE bridge[q]
           /\ \A q \in Runs : Len(bridge'[q].ch) <= BusBuffer /\ NeverCreated(bridge'[q].ch)
<1>1. /\ bridge' \in [Runs -> BridgeState]
      /\ \A q \in Runs : bridge'[q] = IF q = p THEN b ELSE bridge[q]
      BY Facts DEF TypeInv
<1>2. BridgesShrink
      BY <1>1 DEF BridgesShrink
<1>3. \A q \in Runs : Len(bridge'[q].ch) <= BusBuffer /\ NeverCreated(bridge'[q].ch)
      BY <1>1, Facts DEF TypeInv
<1> QED
    BY <1>1, <1>2, <1>3

(* A bridge copies an event into the feed that is its own. *)
LEMMA BridgeCopies ==
    ASSUME Inv, NEW p \in Runs, BridgeStep(p)
    PROVE  Inv'
<1> SUFFICES ASSUME NEW r, r = bridge[p].store PROVE Inv'
    OBVIOUS
<1> DEFINE h == Head(bridge[p].ch)
<1>1. /\ bridge[p].on
      /\ UNCHANGED <<idem, idemFile, entries, bus, exec, nextRun, job, cancel, outcomes, starts, active>>
      BY DEF BridgeStep, idemVars, cronVars
<1>2. /\ bridge[p] \in BridgeState /\ r \in Runs /\ Drawn(r) /\ Feeds(bridge[p], r)
      /\ bridge[p].ch \in Seq(Types) /\ NeverCreated(bridge[p].ch) /\ Len(bridge[p].ch) <= BusBuffer
      BY <1>1, Facts DEF TypeInv, IdsOK, Feeds, BridgeState
<1>3. feed[r] \in Seq(Types) /\ WellFormed(feed[r]) /\ Open(feed[r])
      BY <1>2, Facts DEF TypeInv, FeedOK
<1>4. PICK b \in BridgeState :
         /\ bridge' = [bridge EXCEPT ![p] = b] /\ (b.on => bridge[p].on /\ b.store = bridge[p].store)
         /\ Len(b.ch) <= BusBuffer /\ NeverCreated(b.ch)
         /\ \/ UNCHANGED feed
            \/ /\ feed' = [feed EXCEPT ![r] = Append(@, h)] /\ h \in Types /\ h # "run_created"
               /\ h \in Terminal => ~b.on
  <2>1. /\ BusBuffer \in Nat /\ Len(<<>>) <= BusBuffer
        BY TriggerAssumption
  <2>2. /\ NoBridge \in BridgeState /\ (NoBridge.on => bridge[p].on /\ NoBridge.store = bridge[p].store)
        /\ Len(NoBridge.ch) <= BusBuffer /\ NeverCreated(NoBridge.ch)
        BY <2>1, NoBridgeOK
  <2>3. CASE bridge[p].ch # <<>>
    <3>1. /\ h \in Types /\ h # "run_created" /\ Tail(bridge[p].ch) \in Seq(Types)
          /\ NeverCreated(Tail(bridge[p].ch)) /\ Len(Tail(bridge[p].ch)) <= Len(bridge[p].ch)
          BY <1>2, <2>3, NeverCreatedParts
    <3>2. UNCHANGED feed \/ feed' = [feed EXCEPT ![r] = Append(@, h)]
          BY <2>3 DEF BridgeStep
    <3>3. CASE h \in Terminal
      <4>1. bridge' = [bridge EXCEPT ![p] = NoBridge]
            BY <2>3, <3>3 DEF BridgeStep
      <4> QED
          BY <2>2, <3>1, <3>2, <4>1, NoBridgeOK
    <3>4. CASE h \notin Terminal
      <4> DEFINE t == Tail(bridge[p].ch)
                 b == [bridge[p] EXCEPT !.ch = t]
      <4>1. bridge' = [bridge EXCEPT ![p] = b]
            BY <2>3, <3>4 DEF BridgeStep
      <4>2. t \in Seq(Types) /\ NeverCreated(t) /\ Len(t) <= BusBuffer
        <5>1. Len(bridge[p].ch) \in Nat /\ Len(t) \in Nat
              BY <1>2, <3>1
        <5> QED
            BY <1>2, <2>1, <3>1, <5>1
      <4> HIDE DEF t
      <4>3. b \in BridgeState /\ b.on = bridge[p].on /\ b.store = bridge[p].store /\ b.ch = t
            BY <1>2, <4>2 DEF BridgeState
      <4> HIDE DEF b, h
      <4> QED
          BY <1>1, <3>1, <3>2, <3>4, <4>1, <4>2, <4>3
    <3> QED
        BY <3>3, <3>4
  <2>4. CASE bridge[p].ch = <<>>
    <3>1. bridge' = [bridge EXCEPT ![p] = NoBridge] /\ UNCHANGED feed
          BY <2>4 DEF BridgeStep
    <3> QED
        BY <2>2, <3>1
  <2> QED
      BY <2>3, <2>4
<1> HIDE DEF h
<1>5. /\ BridgesShrink /\ bridge' \in [Runs -> BridgeState]
      /\ \A q \in Runs : bridge'[q] = IF q = p THEN b ELSE bridge[q]
      /\ \A q \in Runs : Len(bridge'[q].ch) <= BusBuffer /\ NeverCreated(bridge'[q].ch)
      BY <1>4, BridgeMoves
<1>6. JobsLater
      BY <1>1, NoneLater
<1>7. \A q \in Runs : NeverCreated(bus'[q].events) /\ NeverCreated(bridge'[q].ch)
      BY <1>1, <1>5, Facts
<1>8. KeysOK' /\ CronOK'
      BY <1>1, <1>6, KeysLater, CronLater
<1>9. CASE UNCHANGED feed
  <2>1. TypeInv'
        BY <1>1, <1>5, <1>9, Facts DEF TypeInv
  <2>2. IdsOK'
        BY <1>1, <1>5, <1>6, <1>9, <2>1, IdsLater, Facts
  <2>3. FeedOK' /\ EntriesOK'
        BY <1>1, <1>5, <1>6, <1>7, <1>9, FeedLater, EntriesLater
  <2> QED
      BY <1>8, <2>1, <2>2, <2>3 DEF Inv
<1>10. CASE /\ feed' = [feed EXCEPT ![r] = Append(@, h)] /\ h \in Types /\ h # "run_created"
            /\ h \in Terminal => ~b.on
  <2> DEFINE f == Append(feed[r], h)
  <2>1. f \in Seq(Types) /\ WellFormed(f) /\ (h \notin Terminal => Open(f))
        BY <1>3, <1>10, GrowFeed
  <2>2. feed' = [feed EXCEPT ![r] = f]
        BY <1>10
  <2> HIDE DEF f
  <2>3. feed' \in [Runs -> Seq(Types)] /\ \A q \in Runs : feed'[q] = IF q = r THEN f ELSE feed[q]
    <3>1. feed \in [Runs -> Seq(Types)]
          BY Facts DEF TypeInv
    <3> QED
        BY <2>1, <2>2, <3>1
  <2>4. TypeInv'
        BY <1>1, <1>5, <2>3, Facts DEF TypeInv
  <2>5. IdsOK'
    <3>1. \A q \in Runs : q >= nextRun' => exec'[q] = "none" /\ entries'[q] = None /\ feed'[q] = <<>>
      <4>1. ~(r >= nextRun)
            BY <1>2, Facts DEF Drawn
      <4> QED
          BY <1>1, <2>3, <4>1, Facts
    <3> QED
        BY <1>1, <1>5, <1>6, <2>4, <3>1, IdsLater, Facts
  <2>6. \A c \in Clients : ~Owns(job[c], r)
        BY <1>2, Facts DEF FeedOK
  <2>7. FeedOK'
    <3>1. \A q \in Runs : Feeds(bridge'[q], r) => Open(feed'[r])
      <4> SUFFICES ASSUME NEW q \in Runs, Feeds(bridge'[q], r) PROVE Open(feed'[r])
          OBVIOUS
      <4>1. Feeds(bridge[q], r)
            BY <1>5, FeedersLater
      <4>2. q = p
            BY <1>2, <4>1, Facts DEF FeedOK
      <4>3. h \notin Terminal
            BY <1>5, <1>10, <4>2 DEF Feeds
      <4> QED
          BY <1>2, <2>1, <2>3, <4>3
    <3>2. OnlyFeed(r)
      <4>1. \A c \in Clients : \A q \in Runs : Owns(job'[c], q) =>
              Owns(job[c], q) /\ (q # r => (job'[c].pc = "admit" <=> job[c].pc = "admit"))
            BY <1>1
      <4>2. \A c \in Clients : ~Owns(job'[c], r)
            BY <1>1, <2>6
      <4>3. \A q \in Runs : q # r => feed'[q] = feed[q]
            BY <2>3
      <4>4. WellFormed(feed'[r])
            BY <1>2, <2>1, <2>3
      <4> QED
          BY <1>5, <1>7, <3>1, <4>1, <4>2, <4>3, <4>4 DEF OnlyFeed
    <3> QED
        BY <1>2, <3>2, FeedChange
  <2>8. EntriesOK'
    <3>1. EntryOK(r)' /\ OutcomeOK(r)'
      <4>1. EntryOK(r) /\ OutcomeOK(r) /\ ~Free(r)
            BY <1>2, Facts DEF EntriesOK, Free
      <4> QED
          BY <1>1, <4>1 DEF EntryOK, OutcomeOK
    <3>2. \A x \in Cancellers : cancel'[x] = r => exec'[r] # "none" /\ entries'[r] # None
      <4>1. r # 0
            BY <1>2, Facts
      <4> QED
          BY <1>1, <4>1, Facts DEF EntriesOK
    <3>3. \A q \in Runs : q # r /\ Free(q) => Free(q)'
          BY <1>5, <1>6, FreeLater
    <3>4. \A q \in Runs : q # r =>
             entries'[q] = entries[q] /\ outcomes'[q] = outcomes[q] /\ feed'[q] = feed[q]
          BY <1>1, <2>3
    <3>5. OnlyEntry(r)
          BY <1>1, <3>1, <3>2, <3>3, <3>4 DEF OnlyEntry
    <3> QED
        BY <1>2, <3>5, EntriesChange
  <2> QED
      BY <1>8, <2>4, <2>5, <2>7, <2>8 DEF Inv
<1> QED
    BY <1>4, <1>9, <1>10

(* A feed with a terminal event has no other and nobody writes it. *)
LEMMA TerminalFree ==
    ASSUME Inv, NEW r \in Runs, NEW i \in 1..Len(feed[r]), feed[r][i] \in Terminal
    PROVE  /\ Free(r)
           /\ \A k \in 1..Len(feed[r]) : feed[r][k] \in Terminal => feed[r][k] = feed[r][i]
<1>1. feed[r] \in Seq(Types) /\ WellFormed(feed[r])
      BY Facts DEF TypeInv, FeedOK
<1>2. \A k \in 1..Len(feed[r]) : feed[r][k] \in Terminal => feed[r][k] = feed[r][i]
      BY <1>1 DEF WellFormed
<1>3. ~Open(feed[r])
      BY DEF Open
<1>4. feed[r] # <<>> /\ feed[r] # <<"run_created">>
  <2>1. feed[r] # <<"run_created">>
        BY <1>3, Announced
  <2>2. feed[r] # <<>>
        BY <1>1
  <2> QED
      BY <2>1, <2>2
<1>5. \A c \in Clients : ~Owns(job[c], r)
  <2> SUFFICES ASSUME NEW c \in Clients, Owns(job[c], r) PROVE FALSE
      OBVIOUS
  <2>1. feed[r] = IF job[c].pc = "admit" THEN <<>> ELSE <<"run_created">>
        BY Facts DEF FeedOK
  <2> QED
      BY <1>4, <2>1
<1>6. \A q \in Runs : ~Feeds(bridge[q], r)
      BY <1>3, Facts DEF FeedOK
<1> QED
    BY <1>2, <1>5, <1>6 DEF Free

(* What a terminal event says. *)
LEMMA StatusFinished ==
    ASSUME NEW t \in Terminal
    PROVE  StatusOf(t) \in Finished
BY DEF Terminal, StatusOf, Finished

(* The stream sends an event on. *)
LEMMA StreamStep ==
    ASSUME Inv, NEW c \in Clients, Stream(c)
    PROVE  Inv'
<1> SUFFICES ASSUME NEW r, r = job[c].run, NEW i, i = job[c].cursor + 1 PROVE Inv'
    OBVIOUS
<1>1. /\ job[c].pc = "stream" /\ job[c].cursor < Len(feed[r])
      /\ UNCHANGED <<idem, idemFile, feed, bus, bridge, exec, nextRun, cancel, outcomes, starts, active>>
      BY DEF Stream, idemVars, runVars, cronVars
<1>2. /\ job[c] \in Job /\ JobOK(job[c]) /\ r \in Runs /\ job[c].key \in Keys \cup {None} /\ Drawn(r)
      /\ exec[r] = "none" /\ r < nextRun /\ job[c].schedule = None
      BY <1>1, CallFacts
<1>3. job[c].cursor \in Nat /\ i \in 1..Len(feed[r])
  <2>1. job[c].cursor \in Nat
        BY <1>2 DEF Job
  <2>2. Len(feed[r]) \in Nat
        BY <1>2, Facts DEF TypeInv
  <2> QED
      BY <1>1, <2>1, <2>2
<1>4. CASE feed[r][i] \in Terminal
  <2> DEFINE s == StatusOf(feed[r][i])
  <2>1. job' = [job EXCEPT ![c] = Idle] /\ entries' = [entries EXCEPT ![r] = MarkedFinished(@, s)]
        BY <1>4 DEF Stream
  <2>2. JobsLater /\ job' \in [Clients -> Job] /\ BridgesShrink
        BY <1>1, <2>1, IdleOK, LaterIdle, OneLater, BridgesSame
  <2>3. s \in Finished
        BY <1>4, StatusFinished
  <2>4. Free(r) /\ \A k \in 1..Len(feed[r]) : feed[r][k] \in Terminal => StatusOf(feed[r][k]) = s
        BY <1>2, <1>3, <1>4, TerminalFree
  <2> HIDE DEF s
  <2>5. Free(r)'
        BY <1>2, <2>2, <2>4, FreeLater
  <2>6. EntriesOK' /\ entries' \in [Runs -> RunEntry \cup {None}]
    <3>1. job[c].pc \in {"start", "bridge", "stream"}
          BY <1>1
    <3>2. \A k \in 1..Len(feed'[r]) : feed'[r][k] \in Terminal => StatusOf(feed'[r][k]) = s
          BY <1>1, <2>4
    <3> QED
        BY <1>1, <1>2, <2>1, <2>2, <2>3, <2>5, <3>1, <3>2, FinishEntry
  <2>7. TypeInv'
        BY <1>1, <2>2, <2>6, Facts DEF TypeInv
  <2>8. IdsOK'
    <3>1. \A q \in Runs : q >= nextRun' => exec'[q] = "none" /\ entries'[q] = None /\ feed'[q] = <<>>
      <4>1. \A q \in Runs : q # r => entries'[q] = entries[q]
            BY <1>2, <2>1, Facts DEF TypeInv
      <4>2. ~(r >= nextRun)
            BY <1>2, Facts
      <4> QED
          BY <1>1, <4>1, <4>2, Facts
    <3> QED
        BY <1>1, <2>2, <2>7, <3>1, IdsLater, Facts
  <2>9. FeedOK' /\ KeysOK' /\ CronOK'
        BY <1>1, <2>2, FeedLater, KeysLater, CronLater, Facts
  <2> QED
      BY <2>6, <2>7, <2>8, <2>9 DEF Inv
<1>5. CASE feed[r][i] \notin Terminal
  <2> DEFINE n == [job[c] EXCEPT !.cursor = i]
  <2>1. job' = [job EXCEPT ![c] = n] /\ UNCHANGED entries
        BY <1>5 DEF Stream
  <2>2. /\ n \in Job /\ n.pc = job[c].pc /\ n.key = job[c].key /\ n.schedule = job[c].schedule
        /\ n.run = job[c].run /\ n.replay = job[c].replay /\ n.actual = job[c].actual
    <3>1. i \in Nat
          BY <1>3
    <3> QED
        BY <1>2, <3>1, SetCursor
  <2> HIDE DEF n
  <2>3. Later(n, job[c])
    <3>1. JobOK(n)
          BY <1>2, <2>2 DEF JobOK
    <3> QED
        BY <1>1, <2>2, <3>1 DEF Later
  <2>4. JobsLater /\ job' \in [Clients -> Job] /\ BridgesShrink
        BY <1>1, <2>1, <2>2, <2>3, OneLater, BridgesSame
  <2>5. TypeInv'
        BY <1>1, <2>1, <2>4, Facts DEF TypeInv
  <2>6. IdsOK'
        BY <1>1, <2>1, <2>4, <2>5, IdsLater, Facts
  <2>7. FeedOK' /\ KeysOK' /\ EntriesOK' /\ CronOK'
        BY <1>1, <2>1, <2>4, FeedLater, KeysLater, EntriesLater, CronLater, Facts
  <2> QED
      BY <2>5, <2>6, <2>7 DEF Inv
<1> QED
    BY <1>4, <1>5

(* The client goes away. *)
LEMMA DisconnectStep ==
    ASSUME Inv, NEW c \in Clients, Disconnect(c)
    PROVE  Inv'
<1> SUFFICES ASSUME NEW a, a = job[c].actual PROVE Inv'
    OBVIOUS
<1>1. /\ job' = [job EXCEPT ![c] = Idle]
      /\ bridge' = IF a = 0 THEN bridge ELSE [bridge EXCEPT ![a] = NoBridge]
      /\ UNCHANGED <<idem, idemFile, entries, feed, bus, exec, nextRun, cancel, outcomes, starts, active>>
      BY DEF Disconnect, idemVars, cronVars
<1>2. JobsLater /\ job' \in [Clients -> Job]
      BY <1>1, IdleOK, LaterIdle, OneLater
<1>3. /\ BridgesShrink /\ bridge' \in [Runs -> BridgeState]
      /\ \A q \in Runs : Len(bridge'[q].ch) <= BusBuffer /\ NeverCreated(bridge'[q].ch)
  <2>1. CASE a = 0
        BY <1>1, <2>1, BridgesSame, Facts DEF TypeInv
  <2>2. CASE a # 0
    <3>1. a \in Runs
          BY <2>2, Facts DEF TypeInv, Job
    <3>2. Len(NoBridge.ch) <= BusBuffer
          BY NoBridgeOK, TriggerAssumption
    <3>3. bridge' = [bridge EXCEPT ![a] = NoBridge]
          BY <1>1, <2>2
    <3> QED
        BY <3>1, <3>2, <3>3, NoBridgeOK, BridgeMoves
  <2> QED
      BY <2>1, <2>2
<1>4. TypeInv'
      BY <1>1, <1>2, <1>3, Facts DEF TypeInv
<1>5. IdsOK'
      BY <1>1, <1>2, <1>3, <1>4, IdsLater, Facts
<1>6. \A q \in Runs : NeverCreated(bus'[q].events) /\ NeverCreated(bridge'[q].ch)
      BY <1>1, <1>3, Facts
<1>7. FeedOK' /\ KeysOK' /\ EntriesOK' /\ CronOK'
      BY <1>1, <1>2, <1>3, <1>6, FeedLater, KeysLater, EntriesLater, CronLater
<1> QED
    BY <1>4, <1>5, <1>7 DEF Inv

-----------------------------------------------------------------------------
(* The daemon's runs. *)

(* Publishing leaves the bridges in place. *)
LEMMA PublishShrinks ==
    ASSUME Inv, NEW r \in Runs, NEW type \in Types, type # "run_created", Publish(r, type)
    PROVE  BridgesShrink
BY Publishes DEF BridgesShrink

(* Publishing and nothing else, but for a run that ends. *)
LEMMA PublishOnly ==
    ASSUME Inv, NEW r \in Runs, NEW type \in Types, type # "run_created", Publish(r, type),
           exec[r] = "running", exec' = exec \/ exec' = [exec EXCEPT ![r] = "ended"],
           UNCHANGED <<idem, idemFile, entries, feed, nextRun, job, cancel, outcomes, starts, active>>
    PROVE  Inv'
<1>1. /\ bus' \in [Runs -> Buffer] /\ bridge' \in [Runs -> BridgeState]
      /\ \A q \in Runs : Len(bridge'[q].ch) <= BusBuffer
      /\ \A q \in Runs : NeverCreated(bus'[q].events) /\ NeverCreated(bridge'[q].ch)
      BY Publishes
<1>2. BridgesShrink
      BY PublishShrinks
<1>3. /\ exec' \in [Runs -> {"none", "running", "ended"}]
      /\ \A q \in Runs : exec'[q] = "none" <=> exec[q] = "none"
      BY Facts DEF TypeInv
<1>4. TypeInv'
      BY <1>1, <1>3, Facts DEF TypeInv
<1>5. JobsLater
      BY NoneLater
<1>6. IdsOK'
      BY <1>2, <1>3, <1>4, <1>5, IdsLater, Facts
<1>7. FeedOK' /\ KeysOK' /\ EntriesOK' /\ CronOK'
      BY <1>1, <1>2, <1>3, <1>5, FeedLater, KeysLater, EntriesLater, CronLater
<1> QED
    BY <1>4, <1>6, <1>7 DEF Inv

(* The run says what it does, and how it ended. *)
LEMMA RunSteps ==
    ASSUME Inv, NEW r \in Runs, Progress(r) \/ Finish(r)
    PROVE  Inv'
<1>1. CASE Progress(r)
  <2>1. /\ exec[r] = "running" /\ Publish(r, "progress")
        /\ UNCHANGED <<idem, idemFile, entries, feed, exec, nextRun, job, cancel, outcomes, starts, active>>
        BY <1>1 DEF Progress, idemVars, cronVars
  <2>2. "progress" \in Types /\ "progress" # "run_created"
        BY DEF Types
  <2> QED
      BY <2>1, <2>2, PublishOnly
<1>2. CASE Finish(r)
  <2>1. PICK type \in Outcomes : Publish(r, type)
        BY <1>2 DEF Finish
  <2>2. /\ exec[r] = "running" /\ exec' = [exec EXCEPT ![r] = "ended"]
        /\ UNCHANGED <<idem, idemFile, entries, feed, nextRun, job, cancel, outcomes, starts, active>>
        BY <1>2 DEF Finish, idemVars, cronVars
  <2>3. type \in Types /\ type # "run_created"
        BY <2>1, TriggerAssumption DEF Types, Terminal
  <2> QED
      BY <2>1, <2>2, <2>3, PublishOnly
<1> QED
    BY <1>1, <1>2

-----------------------------------------------------------------------------
(* CancelRun. *)

(* A cancellation is recorded once. *)
LEMMA Cancels ==
    ASSUME Inv, NEW r \in Runs, NEW e \in RunEntry, entries[r] # None,
           ~(entries[r].status = "CANCELLED" /\ (entries[r].forced \/ entries[r].audited)),
           entries' = [entries EXCEPT ![r] = e], e.status = "CANCELLED", e.forced \/ e.audited,
           outcomes' = [outcomes EXCEPT ![r] = @ + 1],
           UNCHANGED <<bus, bridge>> \/ Publish(r, "run_cancelled"),
           cancel' \in [Cancellers -> 0..MaxRuns], \A x \in Cancellers : cancel'[x] \in {0, cancel[x]},
           UNCHANGED <<idem, idemFile, feed, exec, nextRun, job, starts, active>>
    PROVE  Inv'
<1>1. "run_cancelled" \in Types /\ "run_cancelled" # "run_created"
      BY DEF Types, Terminal
<1>2. /\ BridgesShrink /\ bus' \in [Runs -> Buffer] /\ bridge' \in [Runs -> BridgeState]
      /\ \A q \in Runs : Len(bridge'[q].ch) <= BusBuffer
      /\ \A q \in Runs : NeverCreated(bus'[q].events) /\ NeverCreated(bridge'[q].ch)
  <2>1. CASE UNCHANGED <<bus, bridge>>
        BY <2>1, BridgesSame, Facts DEF TypeInv
  <2>2. CASE Publish(r, "run_cancelled")
        BY <1>1, <2>2, Publishes, PublishShrinks
  <2> QED
      BY <2>1, <2>2
<1>3. JobsLater
      BY NoneLater
<1>4. \A q \in Runs : entries'[q] = IF q = r THEN e ELSE entries[q]
      BY Facts DEF TypeInv
<1>5. /\ outcomes' \in [Runs -> Nat]
      /\ \A q \in Runs : outcomes'[q] = IF q = r THEN outcomes[r] + 1 ELSE outcomes[q]
      BY Facts DEF TypeInv
<1>6. e # None
      BY TriggerAssumption
<1>7. TypeInv'
  <2>1. entries' \in [Runs -> RunEntry \cup {None}]
        BY Facts DEF TypeInv
  <2> QED
      BY <1>2, <1>5, <2>1, Facts DEF TypeInv
<1>8. IdsOK'
  <2>1. \A q \in Runs : q >= nextRun' => exec'[q] = "none" /\ entries'[q] = None /\ feed'[q] = <<>>
        BY <1>4, Facts
  <2> QED
      BY <1>2, <1>3, <1>7, <2>1, IdsLater, Facts
<1>9. FeedOK' /\ KeysOK' /\ CronOK'
      BY <1>2, <1>3, FeedLater, KeysLater, CronLater
<1>10. EntriesOK'
  <2>1. EntryOK(r)'
        BY <1>4 DEF EntryOK
  <2>2. OutcomeOK(r)'
    <3>1. outcomes[r] = 0
          BY Facts DEF EntriesOK, OutcomeOK
    <3> QED
        BY <1>4, <1>5, <1>6, <3>1 DEF OutcomeOK
  <2>3. \A x \in Cancellers : cancel'[x] = r => exec'[r] # "none" /\ entries'[r] # None
    <3>1. r # 0
          BY Facts
    <3> QED
        BY <1>4, <1>6, <3>1, Facts DEF EntriesOK
  <2>4. \A q \in Runs : q # r /\ Free(q) => Free(q)'
        BY <1>2, <1>3, FreeLater
  <2>5. \A q \in Runs : q # r =>
             entries'[q] = entries[q] /\ outcomes'[q] = outcomes[q] /\ feed'[q] = feed[q]
        BY <1>4, <1>5
  <2>6. OnlyEntry(r)
    <3>1. \A x \in Cancellers : cancel'[x] \in {0, r, cancel[x]}
          OBVIOUS
    <3>2. entries[r] # None => entries'[r] # None
          BY <1>4, <1>6
    <3>3. \A c \in Clients : job'[c].pc \in {"start", "bridge", "stream"} =>
              \/ job'[c].run = r /\ entries'[r] # None
              \/ job[c].pc \in {"start", "bridge", "stream"} /\ job'[c].run = job[c].run
          OBVIOUS
    <3>4. \A q \in Runs : q # r /\ entries[q] # None => (exec'[q] = "none" <=> exec[q] = "none")
          OBVIOUS
    <3> QED
        BY <2>1, <2>2, <2>3, <2>4, <2>5, <3>1, <3>2, <3>3, <3>4 DEF OnlyEntry
  <2> QED
      BY <2>6, EntriesChange
<1> QED
    BY <1>7, <1>8, <1>9, <1>10 DEF Inv

(* Only the requests to cancel change. *)
LEMMA CancelOnly ==
    ASSUME Inv, cancel' \in [Cancellers -> 0..MaxRuns], NEW r \in Runs,
           \A x \in Cancellers : cancel'[x] \in {0, r, cancel[x]}, entries[r] # None, exec[r] # "none",
           UNCHANGED <<idem, idemFile, feed, bus, bridge, exec, nextRun, entries, job, outcomes, starts, active>>
    PROVE  Inv'
<1>1. JobsLater /\ BridgesShrink
      BY NoneLater, BridgesSame
<1>2. TypeInv'
      BY Facts DEF TypeInv
<1>3. IdsOK'
      BY <1>1, <1>2, IdsLater, Facts
<1>4. FeedOK' /\ KeysOK' /\ CronOK'
      BY <1>1, FeedLater, KeysLater, CronLater, Facts
<1>5. EntriesOK'
  <2>1. EntryOK(r)' /\ OutcomeOK(r)'
    <3>1. EntryOK(r) /\ OutcomeOK(r) /\ (Free(r) => Free(r)')
          BY <1>1, FreeLater, Facts DEF EntriesOK
    <3> QED
        BY <3>1 DEF EntryOK, OutcomeOK
  <2>2. \A q \in Runs : q # r /\ Free(q) => Free(q)'
        BY <1>1, FreeLater
  <2>3. OnlyEntry(r)
        BY <2>1, <2>2 DEF OnlyEntry
  <2> QED
      BY <2>3, EntriesChange
<1> QED
    BY <1>2, <1>3, <1>4, <1>5 DEF Inv

(* One request to cancel begins or ends. *)
LEMMA CancelMoves ==
    ASSUME Inv, NEW x \in Cancellers, NEW r \in 0..MaxRuns, cancel' = [cancel EXCEPT ![x] = r]
    PROVE  /\ cancel' \in [Cancellers -> 0..MaxRuns]
           /\ \A y \in Cancellers : cancel'[y] = IF y = x THEN r ELSE cancel[y]
BY Facts DEF TypeInv

(* A run that is waited for was started by Invoke. *)
LEMMA Waited ==
    ASSUME Inv, NEW x \in Cancellers, cancel[x] # 0
    PROVE  /\ cancel[x] \in Runs /\ exec[cancel[x]] # "none" /\ entries[cancel[x]] \in RunEntry
           /\ entries[cancel[x]] # None /\ entries[cancel[x]].status \in {"PENDING", "RUNNING", "CANCELLED"}
<1>1. cancel[x] \in Runs
      BY Facts DEF TypeInv
<1>2. exec[cancel[x]] # "none" /\ entries[cancel[x]] # None /\ EntryOK(cancel[x])
      BY <1>1, Facts DEF EntriesOK
<1> QED
    BY <1>1, <1>2, Facts DEF EntryOK, TypeInv

(* CancelRun begins. *)
LEMMA CancelRunStep ==
    ASSUME Inv, NEW x \in Cancellers, NEW r \in Runs, CancelRun(x, r)
    PROVE  Inv'
<1>1. /\ entries[r] # None /\ entries[r] \in RunEntry /\ EntryOK(r)
      /\ UNCHANGED <<idem, idemFile, feed, exec, nextRun, job, starts, active>>
      BY Facts DEF CancelRun, TypeInv, EntriesOK, idemVars, cronVars
<1>2. CASE entries[r].status = "PENDING"
  <2> DEFINE m == [entries[r] EXCEPT !.status = "CANCELLED"]
             e == [m EXCEPT !.audited = TRUE]
  <2>1. /\ entries' = [entries EXCEPT ![r].status = "CANCELLED", ![r].audited = TRUE]
        /\ Publish(r, "run_cancelled") /\ outcomes' = [outcomes EXCEPT ![r] = @ + 1] /\ UNCHANGED cancel
        BY <1>2 DEF CancelRun
  <2>2. entries' = [entries EXCEPT ![r] = e]
    <3>1. [entries[r] EXCEPT !.status = "CANCELLED", !.audited = TRUE] = e
          OBVIOUS
    <3>2. r \in DOMAIN entries
          BY Facts DEF TypeInv
    <3>3. entries' = [entries EXCEPT ![r] = [entries[r] EXCEPT !.status = "CANCELLED", !.audited = TRUE]]
          BY <2>1, <3>2
    <3> QED
        BY <3>1, <3>3
  <2>3. m \in RunEntry /\ m.status = "CANCELLED"
        BY <1>1 DEF RunEntry, Finished
  <2> HIDE DEF m
  <2>4. e \in RunEntry /\ e.status = "CANCELLED" /\ e.audited
        BY <2>3 DEF RunEntry
  <2> HIDE DEF e
  <2>5. cancel' \in [Cancellers -> 0..MaxRuns] /\ \A y \in Cancellers : cancel'[y] \in {0, cancel[y]}
        BY <2>1, Facts DEF TypeInv
  <2> QED
      BY <1>1, <1>2, <2>1, <2>2, <2>4, <2>5, Cancels
<1>3. CASE entries[r].status = "RUNNING"
  <2>1. cancel' = [cancel EXCEPT ![x] = r] /\ UNCHANGED <<entries, bus, bridge, outcomes>>
        BY <1>3 DEF CancelRun
  <2>2. exec[r] # "none"
        BY <1>1, <1>3 DEF EntryOK
  <2>3. r \in 0..MaxRuns
        BY Facts
  <2>4. /\ cancel' \in [Cancellers -> 0..MaxRuns]
        /\ \A y \in Cancellers : cancel'[y] = IF y = x THEN r ELSE cancel[y]
        BY <2>1, <2>3, CancelMoves
  <2>5. \A y \in Cancellers : cancel'[y] \in {0, r, cancel[y]}
        BY <2>4
  <2> QED
      BY <1>1, <2>1, <2>2, <2>4, <2>5, CancelOnly
<1> QED
    BY <1>2, <1>3 DEF CancelRun

(* CancelRun ends. *)
LEMMA CancelEnds ==
    ASSUME Inv, NEW x \in Cancellers, CancelSeen(x) \/ CancelTimeout(x) \/ CancelAbandoned(x)
    PROVE  Inv'
<1> SUFFICES ASSUME NEW r, r = cancel[x] PROVE Inv'
    OBVIOUS
<1>1. /\ cancel[x] # 0 /\ cancel' = [cancel EXCEPT ![x] = 0]
      /\ UNCHANGED <<idem, idemFile, feed, exec, nextRun, job, starts, active>>
      BY DEF CancelSeen, CancelTimeout, CancelAbandoned, idemVars, runVars, cronVars
<1>2. /\ r \in Runs /\ exec[r] # "none" /\ entries[r] \in RunEntry /\ entries[r] # None
      /\ entries[r].status \in {"PENDING", "RUNNING", "CANCELLED"}
      BY <1>1, Waited
<1>3. /\ cancel' \in [Cancellers -> 0..MaxRuns] /\ \A y \in Cancellers : cancel'[y] \in {0, cancel[y]}
      /\ \A y \in Cancellers : cancel'[y] \in {0, r, cancel[y]}
  <2>1. 0 \in 0..MaxRuns
        BY Facts
  <2> QED
      BY <1>1, <2>1, CancelMoves
<1>4. CASE UNCHANGED <<entries, bus, bridge, outcomes>>
      BY <1>1, <1>2, <1>3, <1>4, CancelOnly
<1>5. CASE CancelSeen(x) /\ ~(entries[r].forced \/ entries[r].audited)
  <2> DEFINE e == [entries[r] EXCEPT !.audited = TRUE]
  <2>1. /\ entries[r].status = "CANCELLED" /\ entries' = [entries EXCEPT ![r] = e]
        /\ outcomes' = [outcomes EXCEPT ![r] = @ + 1] /\ UNCHANGED <<bus, bridge>>
        BY <1>5 DEF CancelSeen, runVars
  <2>2. e \in RunEntry /\ e.status = "CANCELLED" /\ e.audited
        BY <1>2, <2>1 DEF RunEntry
  <2> HIDE DEF e
  <2> QED
      BY <1>1, <1>2, <1>3, <1>5, <2>1, <2>2, Cancels
<1>6. CASE CancelTimeout(x) /\ MayForce(entries[r])
  <2> DEFINE m == [entries[r] EXCEPT !.status = "CANCELLED"]
             e == [m EXCEPT !.forced = TRUE]
  <2>1. /\ entries' = [entries EXCEPT ![r].status = "CANCELLED", ![r].forced = TRUE]
        /\ Publish(r, "run_cancelled") /\ outcomes' = [outcomes EXCEPT ![r] = @ + 1]
        /\ entries[r].status # "CANCELLED"
        BY <1>6 DEF CancelTimeout, MayForce
  <2>2. entries' = [entries EXCEPT ![r] = e]
    <3>1. [entries[r] EXCEPT !.status = "CANCELLED", !.forced = TRUE] = e
          OBVIOUS
    <3>2. r \in DOMAIN entries
          BY <1>2, Facts DEF TypeInv
    <3>3. entries' = [entries EXCEPT ![r] = [entries[r] EXCEPT !.status = "CANCELLED", !.forced = TRUE]]
          BY <2>1, <3>2
    <3> QED
        BY <3>1, <3>3
  <2>3. m \in RunEntry /\ m.status = "CANCELLED"
        BY <1>2 DEF RunEntry, Finished
  <2> HIDE DEF m
  <2>4. e \in RunEntry /\ e.status = "CANCELLED" /\ e.forced
        BY <2>3 DEF RunEntry
  <2> HIDE DEF e
  <2> QED
      BY <1>1, <1>2, <1>3, <2>1, <2>2, <2>4, Cancels
<1> QED
    BY <1>4, <1>5, <1>6 DEF CancelSeen, CancelTimeout, CancelAbandoned, runVars

-----------------------------------------------------------------------------
(* The clock and the daemon's restart. *)

(* A minute passes. *)
LEMMA MinuteStep ==
    ASSUME Inv, Minute
    PROVE  Inv'
<1>1. UNCHANGED <<idem, idemFile, feed, bus, bridge, exec, nextRun, entries, job, cancel, outcomes, starts, active>>
      BY DEF Minute, idemVars, runVars
<1>2. JobsLater /\ BridgesShrink
      BY <1>1, NoneLater, BridgesSame
<1>3. TypeInv'
      BY <1>1, Facts DEF TypeInv
<1>4. IdsOK'
      BY <1>1, <1>2, <1>3, IdsLater, Facts
<1>5. FeedOK' /\ KeysOK' /\ EntriesOK' /\ CronOK'
      BY <1>1, <1>2, FeedLater, KeysLater, EntriesLater, CronLater, Facts
<1> QED
    BY <1>3, <1>4, <1>5 DEF Inv

(* The daemon restarts with the keys of its file and the feeds. *)
LEMMA RestartStep ==
    ASSUME Inv, Restart
    PROVE  Inv'
<1>1. /\ \A k \in Keys : idem'[k] = IF Lives(idemFile[k]) THEN idemFile[k] ELSE None
      /\ idemFile' = idem' /\ UNCHANGED <<feed, nextRun, starts>>
      BY DEF Restart, Lives
<1>2. /\ \A r \in Runs : entries'[r] = None /\ bus'[r] = NoBuffer /\ bridge'[r] = NoBridge /\ outcomes'[r] = 0
      /\ \A r \in Runs : exec'[r] = "none" <=> exec[r] = "none"
      /\ \A c \in Clients : job'[c] = Idle
      /\ \A x \in Cancellers : cancel'[x] = 0
      /\ active' = {}
      BY DEF Restart
<1>3. NoBuffer \in Buffer /\ NeverCreated(NoBuffer.events)
  <2>1. NoBuffer \in Buffer /\ NoBuffer.events = <<>>
        BY DEF NoBuffer, Buffer
  <2> QED
      BY <2>1 DEF NeverCreated
<1>4. TypeInv'
  <2>1. idem' \in [Keys -> Reservation \cup {None}]
        BY Facts DEF Restart, TypeInv
  <2>2. entries' \in [Runs -> RunEntry \cup {None}] /\ outcomes' \in [Runs -> Nat]
        BY DEF Restart
  <2>3. bus' \in [Runs -> Buffer] /\ bridge' \in [Runs -> BridgeState]
        BY <1>3, NoBridgeOK DEF Restart
  <2>4. exec' \in [Runs -> {"none", "running", "ended"}]
        BY Facts DEF Restart, TypeInv
  <2>5. job' \in [Clients -> Job] /\ cancel' \in [Cancellers -> 0..MaxRuns]
    <3>1. 0 \in 0..MaxRuns
          BY Facts
    <3> QED
        BY <3>1, IdleOK DEF Restart
  <2>6. \A r \in Runs : Len(bridge'[r].ch) <= BusBuffer
        BY <1>2, NoBridgeOK, TriggerAssumption
  <2> QED
      BY <1>1, <1>2, <2>1, <2>2, <2>3, <2>4, <2>5, <2>6, Facts DEF TypeInv
<1>5. JobsLater /\ BridgesShrink
      BY <1>2, LaterIdle, NoBridgeOK DEF JobsLater, BridgesShrink
<1>6. \A k \in Keys : idem'[k] = IF Lives(idem[k]) THEN idem[k] ELSE None
      BY <1>1, Facts DEF KeysOK
<1>7. IdsOK' /\ KeysOK'
      BY <1>1, <1>2, <1>4, <1>5, <1>6, LiveEntriesStay, Facts
<1>8. FeedOK'
      BY <1>1, <1>2, <1>3, <1>5, NoBridgeOK, FeedLater
<1>9. EntriesOK'
      BY <1>2, IdleOK DEF EntriesOK, EntryOK, OutcomeOK
<1>10. CronOK'
       BY <1>2, IdleOK DEF CronOK
<1> QED
    BY <1>4, <1>7, <1>8, <1>9, <1>10 DEF Inv

-----------------------------------------------------------------------------
(* The invariant. *)

(* The daemon's first start. *)
LEMMA Initially ==
    ASSUME Init
    PROVE  Inv
<1>1. /\ idem = [k \in Keys |-> None] /\ idemFile = idem /\ entries = [r \in Runs |-> None]
      /\ feed = [r \in Runs |-> <<>>] /\ bus = [r \in Runs |-> NoBuffer] /\ bridge = [r \in Runs |-> NoBridge]
      /\ exec = [r \in Runs |-> "none"] /\ nextRun = 1 /\ job = [c \in Clients |-> Idle]
      /\ cancel = [x \in Cancellers |-> 0] /\ outcomes = [r \in Runs |-> 0] /\ starts = [k \in Keys |-> 0]
      /\ active = {}
      BY DEF Init
<1>2. NoBuffer \in Buffer /\ NeverCreated(NoBuffer.events)
  <2>1. NoBuffer \in Buffer /\ NoBuffer.events = <<>>
        BY DEF NoBuffer, Buffer
  <2> QED
      BY <2>1 DEF NeverCreated
<1>3. MaxRuns \in Nat /\ Runs = 1..MaxRuns
      BY TriggerAssumption DEF Runs
<1>4. TypeInv
  <2>1. bus \in [Runs -> Buffer] /\ bridge \in [Runs -> BridgeState]
        BY <1>1, <1>2, NoBridgeOK
  <2>2. job \in [Clients -> Job] /\ cancel \in [Cancellers -> 0..MaxRuns]
    <3>1. 0 \in 0..MaxRuns
          BY <1>3
    <3> QED
        BY <1>1, <3>1, IdleOK
  <2>3. \A r \in Runs : Len(bridge[r].ch) <= BusBuffer
        BY <1>1, NoBridgeOK, TriggerAssumption
  <2>4. /\ idem \in [Keys -> Reservation \cup {None}] /\ entries \in [Runs -> RunEntry \cup {None}]
        /\ feed \in [Runs -> Seq(Types)] /\ exec \in [Runs -> {"none", "running", "ended"}]
        /\ nextRun \in 1..(MaxRuns + 1) /\ outcomes \in [Runs -> Nat] /\ starts \in [Keys -> Nat]
        BY <1>1, <1>3
  <2> QED
      BY <1>1, <2>1, <2>2, <2>3, <2>4 DEF TypeInv
<1>5. IdsOK
  <2>1. \A c \in Clients : JobOK(job[c]) /\ job[c].run = 0
        BY <1>1, IdleOK
  <2>2. \A q \in Runs : ~bridge[q].on
        BY <1>1, NoBridgeOK
  <2> QED
      BY <1>1, <2>1, <2>2 DEF IdsOK
<1>6. FeedOK
  <2>1. \A r \in Runs : WellFormed(feed[r])
        BY <1>1 DEF WellFormed
  <2>2. \A r \in Runs : NeverCreated(bus[r].events) /\ NeverCreated(bridge[r].ch)
        BY <1>1, <1>2, NoBridgeOK
  <2>3. \A c \in Clients : \A r \in Runs : ~Owns(job[c], r)
        BY <1>1, IdleOK
  <2>4. \A q, r \in Runs : ~Feeds(bridge[q], r)
        BY <1>1, NoBridgeOK DEF Feeds
  <2> QED
      BY <2>1, <2>2, <2>3, <2>4 DEF FeedOK
<1>7. KeysOK
      BY <1>1, IdleOK DEF KeysOK, Lives
<1>8. EntriesOK
      BY <1>1, IdleOK DEF EntriesOK, EntryOK, OutcomeOK
<1>9. CronOK
      BY <1>1, IdleOK DEF CronOK
<1> QED
    BY <1>4, <1>5, <1>6, <1>7, <1>8, <1>9 DEF Inv

(* Nothing happens. *)
LEMMA StutterStep ==
    ASSUME Inv, UNCHANGED vars
    PROVE  Inv'
<1>1. UNCHANGED <<idem, idemFile, feed, bus, bridge, exec, nextRun, entries, job, cancel, outcomes, starts, active>>
      BY DEF vars, idemVars, runVars, cronVars
<1>2. JobsLater /\ BridgesShrink
      BY <1>1, NoneLater, BridgesSame
<1>3. TypeInv'
      BY <1>1, Facts DEF TypeInv
<1>4. IdsOK'
      BY <1>1, <1>2, <1>3, IdsLater, Facts
<1>5. FeedOK' /\ KeysOK' /\ EntriesOK' /\ CronOK'
      BY <1>1, <1>2, FeedLater, KeysLater, EntriesLater, CronLater, Facts
<1> QED
    BY <1>3, <1>4, <1>5 DEF Inv

(* Every step keeps the invariant. *)
LEMMA Inductive ==
    ASSUME Inv, MarkOK, [Next]_vars
    PROVE  Inv'
<1>1. ASSUME NEW c \in Clients, NEW k \in Keys, NEW h \in Hashes, Invoke(c, k, h) \/ InvokeStream(c, k, h)
      PROVE  Inv'
  <2>1. CASE Invoke(c, k, h)
    <3>1. Arrive(c, k, h, "invoke")
          BY <2>1 DEF Invoke
    <3> QED
        BY <3>1, ArriveStep
  <2>2. CASE InvokeStream(c, k, h)
    <3>1. Arrive(c, k, h, "admit")
          BY <2>2 DEF InvokeStream
    <3> QED
        BY <3>1, ArriveStep
  <2> QED
      BY <1>1, <2>1, <2>2
<1>7. ASSUME NEW c \in Clients, Invoke(c, None, None) \/ InvokeStream(c, None, None)
      PROVE  Inv'
  <2>1. Arrive(c, None, None, "invoke") \/ Arrive(c, None, None, "admit")
        BY <1>7 DEF Invoke, InvokeStream
  <2> QED
      BY <2>1, KeylessStep
<1>2. ASSUME NEW c \in Clients,
             \/ InvokeStarts(c) \/ InvokeReturns(c) \/ InvokeFails(c) \/ Admit(c) \/ StreamStarts(c) \/ StreamStartFails(c)
             \/ Bridge(c) \/ Stream(c) \/ Disconnect(c) \/ \E s \in Schedules : Fire(s, c)
      PROVE  Inv'
      BY <1>2, InvokeStartsStep, InvokeReturnsStep, InvokeFailsStep, AdmitStep, StreamStartsStep, StreamStartFailsStep,
         BridgeSubscribes, StreamStep, DisconnectStep, FireStep
<1>3. ASSUME NEW r \in Runs, BridgeStep(r) \/ Progress(r) \/ Finish(r)
      PROVE  Inv'
      BY <1>3, BridgeCopies, RunSteps
<1>4. ASSUME NEW x \in Cancellers,
             \/ \E r \in Runs : CancelRun(x, r)
             \/ CancelSeen(x) \/ CancelTimeout(x) \/ CancelAbandoned(x)
      PROVE  Inv'
      BY <1>4, CancelRunStep, CancelEnds
<1>5. CASE UNCHANGED vars
      BY <1>5, StutterStep
<1>6. CASE Next
      BY <1>1, <1>2, <1>3, <1>4, <1>6, <1>7, ExpireStep, PurgeStep, MinuteStep, RestartStep DEF Next
<1> QED
    BY <1>5, <1>6

(* A run that was started stays so. *)
LEMMA ExecStays ==
    ASSUME Inv, [Next]_vars, NEW r \in Runs, exec[r] # "none"
    PROVE  exec'[r] # "none"
<1>1. exec \in [Runs -> {"none", "running", "ended"}]
      BY Facts DEF TypeInv
<1>2. CASE exec' = exec
      BY <1>2
<1>3. ASSUME NEW q \in Runs, NEW v \in {"running", "ended"}, exec' = [exec EXCEPT ![q] = v]
      PROVE  exec'[r] # "none"
      BY <1>1, <1>3
<1>4. ASSUME NEW c \in Clients, InvokeStarts(c) \/ StreamStarts(c) PROVE exec'[r] # "none"
  <2>1. nextRun \in Runs /\ exec' = [exec EXCEPT ![nextRun] = "running"]
        BY <1>4, Starts DEF InvokeStarts, StreamStarts, StartExec
  <2> QED
      BY <1>3, <2>1
<1>5. ASSUME NEW q \in Runs, Finish(q) PROVE exec'[r] # "none"
      BY <1>3, <1>5 DEF Finish
<1>6. CASE Restart
      BY <1>6 DEF Restart
<1>7. \/ exec' = exec \/ Restart
      \/ \E c \in Clients : InvokeStarts(c) \/ StreamStarts(c)
      \/ \E q \in Runs : Finish(q)
  <2>1. \A k \in Keys : Expire(k) => exec' = exec
        BY DEF Expire, runVars
  <2>2. PurgeExpired \/ Minute => exec' = exec
        BY DEF PurgeExpired, Minute, runVars
  <2>3. \A c \in Clients : \A k, h : Invoke(c, k, h) \/ InvokeStream(c, k, h) => exec' = exec
        BY DEF Invoke, InvokeStream, Arrive
  <2>4. \A c \in Clients : InvokeReturns(c) \/ InvokeFails(c) \/ Admit(c) \/ Stream(c) => exec' = exec
        BY DEF InvokeReturns, InvokeFails, Admit, Stream, runVars
  <2>5. \A c \in Clients : /\ StreamStartFails(c) \/ Bridge(c) \/ Disconnect(c) => exec' = exec
                           /\ \A s \in Schedules : Fire(s, c) => exec' = exec
        BY DEF StreamStartFails, Bridge, Disconnect, Fire
  <2>6. \A q \in Runs : BridgeStep(q) \/ Progress(q) => exec' = exec
        BY DEF BridgeStep, Progress
  <2>7. \A x \in Cancellers : /\ \A q \in Runs : CancelRun(x, q) => exec' = exec
                              /\ CancelSeen(x) \/ CancelTimeout(x) \/ CancelAbandoned(x) => exec' = exec
        BY DEF CancelRun, CancelSeen, CancelTimeout, CancelAbandoned, runVars
  <2>8. UNCHANGED vars => exec' = exec
        BY DEF vars, runVars
  <2> QED
      BY <2>1, <2>2, <2>3, <2>4, <2>5, <2>6, <2>7, <2>8 DEF Next
<1> QED
    BY <1>2, <1>4, <1>5, <1>6, <1>7

(* Only an Invoke that has started its run is about to mark one. *)
LEMMA MarkersStart ==
    ASSUME Inv, [Next]_vars, NEW c \in Clients, job'[c].pc = "mark"
    PROVE  \/ job'[c] = job[c]
           \/ job'[c].actual \in Runs /\ exec'[job'[c].actual] # "none"
<1>0. job \in [Clients -> Job] /\ \A d \in Clients : job[d] \in Job
      BY Facts DEF TypeInv
<1>1. ASSUME NEW d \in Clients, NEW n \in Job, n.pc # "mark", job' = [job EXCEPT ![d] = n]
      PROVE  job'[c] = job[c]
      BY <1>0, <1>1
<1>2. ASSUME NEW d \in Clients, job' = [job EXCEPT ![d] = Idle] PROVE job'[c] = job[c]
      BY <1>1, <1>2, IdleOK
<1>3. ASSUME UNCHANGED job PROVE job'[c] = job[c]
      BY <1>3
<1>4. ASSUME NEW d \in Clients, InvokeStarts(d)
      PROVE  job'[c] = job[c] \/ (job'[c].actual \in Runs /\ exec'[job'[c].actual] # "none")
  <2> DEFINE n == IF job[d].schedule # None THEN Idle ELSE Started(nextRun)
  <2>1. job' = [job EXCEPT ![d] = n] /\ StartExec(nextRun) /\ nextRun <= MaxRuns
        BY <1>4 DEF InvokeStarts, Started
  <2>2. nextRun \in Runs /\ exec'[nextRun] = "running"
        BY <2>1, Starts
  <2>3. n.pc = "mark" => n.actual = nextRun
        BY <2>2, IdleOK, NewStarted
  <2> HIDE DEF n
  <2>4. job'[c] = IF c = d THEN n ELSE job[c]
        BY <1>0, <2>1
  <2> QED
      BY <2>2, <2>3, <2>4
<1>5. ASSUME NEW d \in Clients, NEW k \in Keys \cup {None}, NEW h \in Hashes \cup {None},
             Invoke(d, k, h) \/ InvokeStream(d, k, h)
      PROVE  job'[c] = job[c]
  <2>1. PICK pc \in {"invoke", "admit"} : Arrive(d, k, h, pc)
        BY <1>5 DEF Invoke, InvokeStream
  <2> DEFINE n == Request(k, h, pc, nextRun)
  <2>2. nextRun \in Runs
        BY <2>1, Facts DEF Arrive, TypeInv
  <2>3. /\ n \in Job /\ n.pc = pc /\ n.key = k /\ n.hash = h /\ n.run = nextRun /\ n.schedule = None
        /\ ~n.replay
        BY <2>2, NewRequest
  <2> DEFINE e == idem[k]
             m == [n EXCEPT !.run = e.run, !.replay = TRUE]
  <2>4. \/ job' = [job EXCEPT ![d] = n] \/ job' = [job EXCEPT ![d] = Idle] \/ UNCHANGED job
        \/ k \in Keys /\ e # None /\ job' = [job EXCEPT ![d] = m]
        BY <2>1 DEF Arrive, CheckOrReserve, Request
  <2> HIDE DEF n
  <2>5. k \in Keys /\ e # None => e.run \in Runs
        BY Entry, Facts DEF Reservation
  <2> HIDE DEF e
  <2>6. k \in Keys /\ e # None => m \in Job /\ m.pc = pc
        BY <2>3, <2>5, Replays
  <2> HIDE DEF m
  <2> QED
      BY <1>1, <1>2, <1>3, <2>3, <2>4, <2>6
<1>6. ASSUME NEW d \in Clients, InvokeReturns(d) \/ InvokeFails(d) \/ Disconnect(d) PROVE job'[c] = job[c]
      BY <1>2, <1>6 DEF InvokeReturns, InvokeFails, Disconnect
<1>7. ASSUME NEW d \in Clients, Admit(d) \/ StreamStarts(d) \/ StreamStartFails(d) \/ Bridge(d) \/ Stream(d)
      PROVE  job'[c] = job[c]
  <2>1. ASSUME NEW e \in Clients, NEW n, job' = [job EXCEPT ![e] = n], n.pc # "mark" PROVE job'[c] = job[c]
        BY <1>0, <2>1
  <2>2. job[d].pc # "mark" /\ job[d] \in Job
        BY <1>0, <1>7 DEF Admit, StreamStarts, StreamStartFails, Bridge, Stream
  <2>3. \A pc \in {"start", "bridge", "stream"} : [job[d] EXCEPT !.pc = pc].pc # "mark"
        BY <2>2 DEF Job
  <2>4. CASE Admit(d)
        BY <1>2, <2>1, <2>3, <2>4 DEF Admit
  <2>5. CASE StreamStarts(d)
    <3> DEFINE n1 == [job[d] EXCEPT !.pc = "bridge"]
               n == [n1 EXCEPT !.actual = nextRun]
    <3>1. job' = [job EXCEPT ![d] = n]
          BY <2>5 DEF StreamStarts
    <3>2. n1 \in Job /\ n1.pc = "bridge"
          BY <2>2, SetPc
    <3> HIDE DEF n1
    <3>3. n.pc = "bridge"
          BY <3>2 DEF Job
    <3> HIDE DEF n
    <3> QED
        BY <2>1, <3>1, <3>3
  <2>6. CASE StreamStartFails(d)
        BY <1>2, <2>1, <2>3, <2>6 DEF StreamStartFails
  <2>7. CASE Bridge(d)
        BY <2>1, <2>3, <2>7 DEF Bridge
  <2>8. CASE Stream(d)
    <3>1. [job[d] EXCEPT !.cursor = @ + 1].pc # "mark"
          BY <2>2 DEF Job
    <3> QED
        BY <1>2, <2>1, <2>8, <3>1 DEF Stream
  <2> QED
      BY <1>7, <2>4, <2>5, <2>6, <2>7, <2>8
<1>8. ASSUME NEW d \in Clients, NEW s \in Schedules, Fire(s, d) PROVE job'[c] = job[c]
  <2>1. CASE UNCHANGED job
        BY <2>1
  <2>2. CASE nextRun \in Runs /\ job' = [job EXCEPT ![d] = Tick(s, nextRun)]
        BY <1>1, <2>2, NewTick
  <2>3. nextRun <= MaxRuns => nextRun \in Runs
        BY Facts DEF TypeInv
  <2> QED
      BY <1>8, <2>1, <2>2, <2>3 DEF Fire, Tick
<1>9. CASE Restart
      BY <1>9, IdleOK DEF Restart
<1>10. CASE \/ \E k \in Keys : Expire(k)
            \/ PurgeExpired
            \/ \E r \in Runs : BridgeStep(r) \/ Progress(r) \/ Finish(r)
            \/ \E x \in Cancellers :
                  \/ \E r \in Runs : CancelRun(x, r)
                  \/ CancelSeen(x) \/ CancelTimeout(x) \/ CancelAbandoned(x)
            \/ Minute
            \/ UNCHANGED vars
  <2>1. UNCHANGED job
        BY <1>10 DEF Expire, PurgeExpired, BridgeStep, Progress, Finish, CancelRun, CancelSeen,
                     CancelTimeout, CancelAbandoned, Minute, vars
  <2> QED
      BY <2>1
<1> QED
    BY <1>4, <1>5, <1>6, <1>7, <1>8, <1>9, <1>10 DEF Next

(* MarkOK is kept. *)
LEMMA MarkKept ==
    ASSUME Inv, MarkOK, [Next]_vars
    PROVE  MarkOK'
<1>1. ASSUME NEW c \in Clients, job'[c].pc = "mark"
      PROVE  job'[c].actual \in Runs /\ exec'[job'[c].actual] # "none"
  <2>1. CASE job'[c] = job[c]
    <3>1. job[c].actual \in Runs /\ exec[job[c].actual] # "none"
          BY <1>1, <2>1 DEF MarkOK
    <3> QED
        BY <2>1, <3>1, ExecStays
  <2> QED
      BY <1>1, <2>1, MarkersStart
<1> QED
    BY <1>1 DEF MarkOK

(* The invariant holds in every reachable state. *)
THEOREM InvHolds ==
    Spec => [](Inv /\ MarkOK)
<1>1. Init => Inv /\ MarkOK
  <2>1. ASSUME Init PROVE MarkOK
        BY <2>1, IdleOK DEF Init, MarkOK
  <2> QED
      BY <2>1, Initially
<1>2. Inv /\ MarkOK /\ [Next]_vars => (Inv /\ MarkOK)'
      BY Inductive, MarkKept
<1> QED
    BY <1>1, <1>2, PTL DEF Spec

-----------------------------------------------------------------------------
(* Theorems. *)

(* Every state is of its type; no subscriber's channel outgrows its capacity  *)
(* (Publish, Subscribe).                                                      *)
THEOREM TypeCorrect ==
    Spec => []TypeOK
<1>1. ASSUME Inv PROVE TypeOK
  <2>1. TypeInv
        BY <1>1, Facts
  <2>2. \A r \in Runs : /\ bus[r].events \in Seq(Types) /\ bridge[r].ch \in Seq(Types)
                        /\ Len(bridge[r].ch) <= BusBuffer
                        /\ exec[r] \in {"none", "running", "ended"} /\ outcomes[r] \in Nat
    <3> SUFFICES ASSUME NEW r \in Runs
                 PROVE  /\ bus[r].events \in Seq(Types) /\ bridge[r].ch \in Seq(Types)
                        /\ Len(bridge[r].ch) <= BusBuffer
                        /\ exec[r] \in {"none", "running", "ended"} /\ outcomes[r] \in Nat
        OBVIOUS
    <3>1. bus[r] \in Buffer /\ bridge[r] \in BridgeState
          BY <2>1 DEF TypeInv
    <3> QED
        BY <2>1, <3>1 DEF TypeInv, Buffer, BridgeState
  <2>3. \A c \in Clients : /\ job[c].pc \in {"idle", "invoke", "mark", "admit", "start", "bridge", "stream"}
                           /\ job[c].run \in 0..MaxRuns
        BY <2>1 DEF TypeInv, Job
  <2> QED
      BY <2>1, <2>2, <2>3 DEF TypeInv, TypeOK
<1> QED
    BY <1>1, InvHolds, PTL

(* The durable log of every run is announced once and first, and its terminal *)
(* event is its last: the call that owns a feed hands it to its bridge, which *)
(* ends at the first terminal event (invokeStreamDurable,                     *)
(* bridgeEventBusToStore).                                                    *)
THEOREM FeedsAreWellFormed ==
    Spec => []FeedWellFormed
<1>1. ASSUME Inv PROVE FeedWellFormed
      BY <1>1, Facts DEF FeedOK, WellFormed, FeedWellFormed
<1> QED
    BY <1>1, InvHolds, PTL

(* While a reservation lives, streams execute its request at most once: the   *)
(* reservation is saved before anything starts and only the call that made it *)
(* starts a run, restarts included (CheckOrReserve, invokeStreamDurable).     *)
THEOREM StreamStartsOnce ==
    Spec => []StartedOnce
<1>1. ASSUME Inv PROVE StartedOnce
      BY <1>1, Facts DEF KeysOK, StartedOnce
<1> QED
    BY <1>1, InvHolds, PTL

(* A cancellation has one audited outcome, whichever CancelRun call finds it, *)
(* polls it or gives up on it (CancelRun, markGracefulCancelAudited,          *)
(* forceCancel).                                                              *)
THEOREM OneOutcome ==
    Spec => []OneCancelOutcome
<1>1. ASSUME Inv PROVE OneCancelOutcome
      BY <1>1, Facts DEF EntriesOK, OutcomeOK, OneCancelOutcome
<1> QED
    BY <1>1, InvHolds, PTL

(* An agent all of whose schedules forbid concurrency has at most one cron    *)
(* goroutine: its flag stays set as long as that one runs (fire).             *)
THEOREM ForbidHolds ==
    Spec => []ForbidRespected
<1>1. ASSUME Inv PROVE ForbidRespected
  <2> SUFFICES ASSUME NEW s \in Schedules, \A t \in Schedules : AgentOf[t] = AgentOf[s] => t \in Forbid
               PROVE  Cardinality({c \in Clients : /\ job[c].schedule # None
                                                   /\ AgentOf[job[c].schedule] = AgentOf[s]}) <= 1
      BY DEF ForbidRespected
  <2> DEFINE S == {c \in Clients : job[c].schedule # None /\ AgentOf[job[c].schedule] = AgentOf[s]}
  <2>1. AllForbid(AgentOf[s])
        BY DEF AllForbid
  <2>2. \A c, d \in S : c = d
        BY <1>1, <2>1, Facts DEF CronOK
  <2>3. CASE S = {}
    <3> HIDE DEF S
    <3>1. Cardinality(S) = 0
          BY <2>3, FS_EmptySet
    <3> QED
        BY <3>1 DEF S
  <2>4. CASE S # {}
    <3>1. PICK c : c \in S
          BY <2>4
    <3>2. S = {c}
          BY <2>2, <3>1
    <3> HIDE DEF S
    <3>3. Cardinality(S) = 1
          BY <3>2, FS_Singleton
    <3> QED
        BY <3>3 DEF S
  <2> QED
      BY <2>3, <2>4
<1> QED
    BY <1>1, InvHolds, PTL

(* What a step may do to the status of a finished run. *)
LEMMA StatusStays ==
    ASSUME Inv, Next, NEW r \in Runs, entries[r] # None, entries[r].status \in Finished, entries'[r] # None
    PROVE  entries'[r].status = entries[r].status
<1>1. entries \in [Runs -> RunEntry \cup {None}] /\ entries[r] \in RunEntry /\ EntryOK(r)
      BY Facts DEF TypeInv, EntriesOK
<1>2. ASSUME NEW c \in Clients, InvokeStarts(c) PROVE entries'[r] = entries[r]
  <2>1. nextRun \in Runs /\ entries[nextRun] = None
        BY <1>2, Starts DEF InvokeStarts
  <2> QED
      BY <1>1, <1>2, <2>1 DEF InvokeStarts
<1>13. ASSUME NEW c \in Clients, InvokeReturns(c) PROVE entries'[r] = entries[r]
  <2>1. MarkedStarted(entries[r]) = entries[r]
        BY <1>1, MarkStarts DEF Finished
  <2> QED
      BY <1>1, <1>13, <2>1 DEF InvokeReturns
<1>3. ASSUME NEW c \in Clients, Admit(c) PROVE entries'[r] = entries[r]
      BY <1>1, <1>3 DEF Admit, Registered
<1>4. ASSUME NEW c \in Clients, NEW q \in Runs, NEW s \in Finished, job[c].run = q,
             entries' = [entries EXCEPT ![q] = MarkedFinished(@, s)],
             r = q => entries[r].status = "CANCELLED" \/ s = entries[r].status
      PROVE  entries'[r].status = entries[r].status
  <2>1. CASE r = q
    <3> DEFINE e == MarkedFinished(entries[r], s)
    <3>1. /\ e \in RunEntry /\ (entries[r].status = "CANCELLED" => e = entries[r])
          /\ entries[r].status # "CANCELLED" => e.status = s
          BY <1>1, Marks
    <3>2. entries'[r] = e
          BY <1>1, <1>4, <2>1
    <3> HIDE DEF e
    <3> QED
        BY <1>4, <2>1, <3>1, <3>2
  <2>2. CASE r # q
        BY <1>1, <1>4, <2>2
  <2> QED
      BY <2>1, <2>2
<1>5. ASSUME NEW c \in Clients, StreamStartFails(c) PROVE entries'[r].status = entries[r].status
  <2> DEFINE q == job[c].run
  <2>1. q \in Runs /\ Owns(job[c], q)
        BY <1>5, CallFacts DEF StreamStartFails, JobOK, Owns
  <2>2. r = q => entries[r].status = "CANCELLED"
        BY <1>1, <2>1 DEF EntryOK, Free, Finished
  <2>3. "FAILED" \in Finished /\ entries' = [entries EXCEPT ![q] = MarkedFinished(@, "FAILED")]
        BY <1>5 DEF StreamStartFails, Finished
  <2> QED
      BY <1>4, <2>1, <2>2, <2>3
<1>6. ASSUME NEW c \in Clients, Stream(c) PROVE entries'[r].status = entries[r].status
  <2> DEFINE q == job[c].run
             i == job[c].cursor + 1
             s == StatusOf(feed[q][i])
  <2>1. q \in Runs /\ i \in 1..Len(feed[q])
    <3>1. q \in Runs /\ job[c] \in Job
          BY <1>6, CallFacts DEF Stream
    <3>2. job[c].cursor \in Nat /\ Len(feed[q]) \in Nat
          BY <3>1, Facts DEF Job, TypeInv
    <3> QED
        BY <1>6, <3>1, <3>2 DEF Stream
  <2>2. CASE feed[q][i] \in Terminal
    <3>1. s \in Finished /\ entries' = [entries EXCEPT ![q] = MarkedFinished(@, s)]
          BY <1>6, <2>2, StatusFinished DEF Stream
    <3>2. r = q => entries[r].status = "CANCELLED" \/ s = entries[r].status
          BY <1>1, <2>1, <2>2 DEF EntryOK, Finished
    <3> HIDE DEF s
    <3> QED
        BY <1>4, <2>1, <3>1, <3>2
  <2>3. CASE feed[q][i] \notin Terminal
        BY <1>6, <2>3 DEF Stream
  <2> QED
      BY <2>2, <2>3
<1>7. ASSUME NEW x \in Cancellers, NEW q \in Runs, CancelRun(x, q) PROVE entries'[r].status = entries[r].status
  <2>1. CASE r = q
        BY <1>1, <1>7, <2>1 DEF CancelRun, Finished
  <2>2. CASE r # q
        BY <1>1, <1>7, <2>2 DEF CancelRun
  <2> QED
      BY <2>1, <2>2
<1>8. ASSUME NEW x \in Cancellers, CancelSeen(x) PROVE entries'[r].status = entries[r].status
  <2>1. CASE UNCHANGED entries
        BY <2>1
  <2>2. CASE entries' = [entries EXCEPT ![cancel[x]].audited = TRUE]
    <3>1. cancel[x] \in Runs /\ entries[cancel[x]] \in RunEntry
          BY <1>8, Waited DEF CancelSeen
    <3> QED
        BY <1>1, <2>2, <3>1 DEF RunEntry
  <2> QED
      BY <1>8, <2>1, <2>2 DEF CancelSeen
<1>9. ASSUME NEW x \in Cancellers, CancelTimeout(x) PROVE entries'[r].status = entries[r].status
  <2>1. cancel[x] \in Runs /\ entries[cancel[x]].status \in {"PENDING", "RUNNING", "CANCELLED"}
        BY <1>9, Waited DEF CancelTimeout
  <2>2. CASE r = cancel[x]
        BY <1>1, <1>9, <2>1, <2>2 DEF CancelTimeout, MayForce, Finished
  <2>3. CASE r # cancel[x]
        BY <1>1, <1>9, <2>1, <2>3 DEF CancelTimeout
  <2> QED
      BY <2>2, <2>3
<1>10. CASE Restart
       BY <1>10 DEF Restart
<1>11. CASE UNCHANGED entries
       BY <1>11
<1>12. \/ UNCHANGED entries
       \/ Restart
       \/ \E c \in Clients : InvokeStarts(c) \/ InvokeReturns(c) \/ Admit(c) \/ StreamStartFails(c) \/ Stream(c)
       \/ \E x \in Cancellers : (\E q \in Runs : CancelRun(x, q)) \/ CancelSeen(x) \/ CancelTimeout(x)
  <2>1. \A k \in Keys : Expire(k) => UNCHANGED entries
        BY DEF Expire
  <2>2. PurgeExpired \/ Minute => UNCHANGED entries
        BY DEF PurgeExpired, Minute
  <2>3. \A c \in Clients : \A k, h :
           Invoke(c, k, h) \/ InvokeStream(c, k, h) => UNCHANGED entries
        BY DEF Invoke, InvokeStream, Arrive
  <2>4. \A c \in Clients : /\ InvokeFails(c) \/ StreamStarts(c) \/ Bridge(c) \/ Disconnect(c) => UNCHANGED entries
                           /\ \A s \in Schedules : Fire(s, c) => UNCHANGED entries
        BY DEF InvokeFails, StreamStarts, Bridge, Disconnect, Fire
  <2>5. \A q \in Runs : BridgeStep(q) \/ Progress(q) \/ Finish(q) => UNCHANGED entries
        BY DEF BridgeStep, Progress, Finish
  <2>6. \A x \in Cancellers : CancelAbandoned(x) => UNCHANGED entries
        BY DEF CancelAbandoned
  <2> QED
      BY <2>1, <2>2, <2>3, <2>4, <2>5, <2>6 DEF Next
<1> QED
    BY <1>2, <1>3, <1>5, <1>6, <1>7, <1>8, <1>9, <1>10, <1>11, <1>12, <1>13

(* A finished run keeps its status: what Invoke starts only ever ends by a    *)
(* cancellation, which MarkStarted respects, and what a stream finishes was finished by the one terminal  *)
(* event of its feed (MarkFinished, forceCancel).                             *)
THEOREM FinishedRunsStay ==
    Spec => FinishedStays
<1>1. ASSUME Inv, [Next]_vars
      PROVE  [\A r \in Runs :
                (entries[r] # None /\ entries[r].status \in Finished /\ entries'[r] # None)
                   => entries'[r].status = entries[r].status]_vars
      BY <1>1, StatusStays
<1> QED
    BY <1>1, InvHolds, PTL DEF Spec, FinishedStays

=============================================================================

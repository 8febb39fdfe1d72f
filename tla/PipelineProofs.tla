--------------------------- MODULE PipelineProofs ---------------------------
(***************************************************************************)
(* Proofs about Pipeline, in four parts with an invariant each:            *)
(*   StageInv   types, the mutex, what a call knows about its stage;       *)
(*   KeysOK     one daemon has one container of a stage;                   *)
(*   FinalInv   terminal records stay as they are;                         *)
(*   PassInv    what lies behind a stage, and behind a workflow, that was  *)
(*              begun or succeeded (CalmInv for a workflow that is resumed)*)
(***************************************************************************)
EXTENDS Pipeline, FiniteSetTheorems, WellFoundedInduction, TLAPS

(* What a step of a call says about the status the call is after. *)
Target(o) ==
    /\ o.at \in {"find", "claim", "claimNode", "attempt", "put", "launch", "ack"} => o.to = "RUNNING"
    /\ o.at \in {"node", "run", "att"} => o.to \in {"RUNNING", "SUCCEEDED", "FAILED", "CANCELLED"}
    /\ o.at \in {"handoff", "pause?", "next"} => o.to = "SUCCEEDED" /\ o.s < StageCount
    /\ o.at = "readWf" => o.to \in {"SUCCEEDED", "FAILED"}
    /\ o.at = "unpause" => o.to = "SUCCEEDED"
    /\ o.at = "wf" => o.to \in {"SUCCEEDED", "FAILED", "CANCELLED", "READY"}
    /\ o.at = "list" => o.to \in {"CANCELLED", "READY"}
    /\ o.at = "readyFirst" => o.to = "READY"

(* Who is after it. *)
Caller(p, o) ==
    /\ o.to = "RUNNING" <=> p \in Reconcilers
    /\ o.to \in {"SUCCEEDED", "FAILED", "READY"} <=> p \in Workers
    /\ o.to = "CANCELLED" <=> p \in Cancellers

(* The steps that the daemon's operations take under the mutex. *)
Locked == Steps \ {"find", "claim", "put", "launch", "ack"}

(* Every call is at a step of its own operation, with the mutex where it needs it. *)
CallOK ==
    \A p \in Procs : op[p] # None =>
        /\ Target(op[p]) /\ Caller(p, op[p])
        /\ p \in Daemon /\ op[p].at \in Locked => mu = p

(* The workflow record a call read is an earlier one, or the stored one. *)
WfOK ==
    \A p \in Procs : op[p] # None =>
        /\ op[p].wf.gen <= wf.gen
        /\ op[p].wf.gen = wf.gen => op[p].wf.status = wf.status
        /\ op[p].at = "unpause" => op[p].wf.status = "PAUSE_REQUESTED"

(* Types, and what a call's locals say about each other. *)
TypeInv == TypeOK /\ CallOK /\ WfOK

-----------------------------------------------------------------------------
(* A node nobody began. *)
Fresh == {"PENDING", "CANCELLED"}

(* A node that was claimed for a launch. *)
Claimed(s) == node[s].status \notin {"PENDING", "READY", "CANCELLED"}

(* Nothing before stage s is under way or still to come, and nothing after  *)
(* it was begun.                                                            *)
Front(s) ==
    /\ \A u \in Stages : u < s => node[u].status \notin ActiveNode \cup {"PENDING"}
    /\ \A u \in Stages : u > s => node[u].status \in Fresh

(* A record that was never written since the workflow was seeded is of a    *)
(* node that is PENDING or READY: a cancel, which presents generation 1,     *)
(* reaches no other.                                                        *)
NodeOK ==
    \A s \in Stages : /\ node[s].gen >= 1
                      /\ node[s].gen = 1 => node[s].status \in {"PENDING", "READY"}

(* Nothing was begun behind a stage that is under way or still to come. *)
OrderOK ==
    \A s, t \in Stages :
        (s < t /\ node[s].status \in ActiveNode \cup {"PENDING"}) => node[t].status \in Fresh

(* What a call under way knows about its stage. *)
Knows(o) ==
    /\ o.at \in {"find", "attempt", "put", "launch"} => Claimed(o.s)
    /\ o.at = "claimNode" => node[o.s].status \in {"READY", "CANCELLED"} /\ Front(o.s)
    /\ o.at = "attempt" => att[o.s] = None
    /\ o.at = "node" => /\ o.to = "RUNNING" => node[o.s].status = "LAUNCHING"
                        /\ o.to = "SUCCEEDED" => node[o.s].status = "RUNNING" /\ Front(o.s)
                        /\ o.to = "FAILED" => Claimed(o.s) /\ node[o.s].status \notin NodeTerminal
    /\ (o.at \in {"run", "att", "handoff", "pause?", "next"} /\ o.to = "SUCCEEDED") =>
          node[o.s].status = "SUCCEEDED" /\ Front(o.s)
    /\ o.at = "readyFirst" => node[o.s].status \in Fresh /\ Front(o.s)

(* ... and every call does. *)
KnowsOK == \A p \in Procs : op[p] # None => Knows(op[p])

(* Launch jobs and attempts are of claimed nodes. *)
ClaimOK ==
    /\ \A key \in jobs : Claimed(key[1])
    /\ \A s \in Stages : att[s] # None => Claimed(s)

(* The inductive invariant. *)
StageInv == TypeInv /\ NodeOK /\ OrderOK /\ KnowsOK /\ ClaimOK

-----------------------------------------------------------------------------
(* The one goroutine of the reconcile loop. *)
OneReconciler == \A p, q \in Reconcilers : p = q

(* The key of a stage's launch is settled before it is used. *)
KeysOK ==
    /\ \A k, l \in jobs : k[1] = l[1] => k = l
    /\ active \subseteq jobs
    /\ \A p \in Procs : op[p] # None =>
          /\ op[p].at = "attempt" => \A k \in jobs : k[1] # op[p].s
          /\ op[p].at = "put" => \A k \in jobs : k[1] = op[p].s => k[2] = op[p].gen
          /\ op[p].at = "launch" => <<op[p].s, op[p].gen>> \in jobs

-----------------------------------------------------------------------------
(* Stages, calls and returns. *)

(* The earliest of some stages. *)
LEMMA Earliest ==
    ASSUME NEW T, T \subseteq Stages, T # {}
    PROVE  First(T) \in T /\ \A u \in T : First(T) <= u
<1> DEFINE Upto == {1..x : x \in T}
<1>1. \A x \in T : x \in Nat /\ x >= 1
      BY PipelineAssumption DEF Stages
<1>2. Upto \subseteq FiniteSubsetsOf(Nat) /\ Upto # {}
  <2>1. \A x \in T : IsFiniteSet(1..x) /\ 1..x \in SUBSET Nat
        BY <1>1, FS_Interval
  <2> QED
      BY <2>1 DEF FiniteSubsetsOf
<1>3. \E U \in Upto : \A V \in Upto : <<V, U>> \notin StrictSubsetOrdering(Nat)
  <2> HIDE DEF Upto
  <2> QED
      BY <1>2, FS_StrictSubsetOrderingWellFounded, WFMin
<1>4. PICK x \in T : \A y \in T : <<1..y, 1..x>> \notin StrictSubsetOrdering(Nat)
      BY <1>3
<1>5. ASSUME NEW y \in T, y < x
      PROVE  FALSE
  <2>1. 1..y \subseteq 1..x /\ x \in 1..x /\ x \notin 1..y /\ 1..y \in SUBSET Nat /\ 1..x \in SUBSET Nat
        BY <1>1, <1>5
  <2>2. 1..y # 1..x
        BY <2>1
  <2>3. <<1..y, 1..x>> \in StrictSubsetOrdering(Nat)
        BY <2>1, <2>2 DEF StrictSubsetOrdering
  <2> QED
      BY <1>4, <2>3
<1>6. \A y \in T : x <= y
      BY <1>1, <1>5
<1> QED
    BY <1>6 DEF First

(* A step of p leaves the calls of the others alone. *)
Stepped(p) ==
    /\ op' \in [Procs -> Op \cup {None}]
    /\ \A q \in Procs : q # p => op'[q] = op[q]

(* ... and their hold of the mutex. *)
Locks(p) ==
    /\ mu' \in Daemon \cup {None}
    /\ refused' \subseteq Cancellers
    /\ \A q \in Daemon : (q # p /\ mu = q) => mu' = q

(* The locals of a call but for the step. *)
SameLocals(o, r) == o.to = r.to /\ o.s = r.s /\ o.gen = r.gen /\ o.wf = r.wf /\ o.nodes = r.nodes

(* The fields of a call. *)
LEMMA CallFields ==
    ASSUME TypeInv, NEW p \in Procs, op[p] # None
    PROVE  /\ op[p] \in Op /\ op[p].at \in Steps /\ op[p].to \in NodeStatus /\ op[p].s \in Stages
           /\ op[p].gen \in Nat /\ op[p].wf \in Versioned(WorkflowStatus)
           /\ op[p].wf.gen \in Nat /\ op[p].wf.status \in WorkflowStatus
           /\ op[p].nodes \in [Stages -> NodeStatus]
           /\ Target(op[p]) /\ Caller(p, op[p])
<1>1. op[p] \in Op /\ Target(op[p]) /\ Caller(p, op[p])
      BY DEF TypeInv, TypeOK, CallOK
<1> QED
    BY <1>1 DEF Op, Versioned

(* A call goes to its next step. *)
LEMMA GotoStep ==
    ASSUME TypeInv, NEW p \in Procs, op[p] # None, NEW x \in Steps, Goto(p, x)
    PROVE  Stepped(p) /\ op'[p] \in Op /\ op'[p].at = x /\ SameLocals(op'[p], op[p])
<1> DEFINE o == [op[p] EXCEPT !.at = x]
<1>1. op[p] \in Op /\ op \in [Procs -> Op \cup {None}]
      BY DEF TypeInv, TypeOK
<1>2. o \in Op /\ o.at = x /\ SameLocals(o, op[p])
      BY <1>1 DEF Op, SameLocals
<1>3. op' = [op EXCEPT ![p] = o]
      BY DEF Goto
<1> HIDE DEF o
<1> QED
    BY <1>1, <1>2, <1>3 DEF Stepped

(* A call returns and lets go of the mutex. *)
LEMMA ReturnStep ==
    ASSUME TypeInv, NEW p \in Procs, NEW ok \in BOOLEAN, Return(p, ok)
    PROVE  Stepped(p) /\ op'[p] = None /\ Locks(p)
<1>1. op \in [Procs -> Op \cup {None}] /\ mu \in Daemon \cup {None} /\ refused \subseteq Cancellers
      BY DEF TypeInv, TypeOK
<1>2. Stepped(p) /\ op'[p] = None
      BY <1>1 DEF Return, Stepped
<1>3. Locks(p)
      BY <1>1 DEF Return, Locks, Unlocked
<1> QED
    BY <1>2, <1>3

(* A step that neither takes the mutex nor returns. *)
LEMMA SameLocks ==
    ASSUME TypeInv, NEW p \in Procs, UNCHANGED <<mu, refused>>
    PROVE  Locks(p)
BY DEF TypeInv, TypeOK, Locks

(* A step that takes the mutex. *)
LEMMA TakesLock ==
    ASSUME TypeInv, NEW p \in Daemon, mu = None, mu' = p, UNCHANGED refused
    PROVE  Locks(p)
BY PipelineAssumption DEF TypeInv, TypeOK, Locks, Procs

(* A call begins. *)
LEMMA CallStep ==
    ASSUME TypeInv, NEW p \in Procs, NEW x \in Steps, NEW to \in NodeStatus, NEW s \in Stages, Call(p, x, to, s)
    PROVE  /\ Stepped(p) /\ op'[p] \in Op
           /\ op'[p].at = x /\ op'[p].to = to /\ op'[p].s = s /\ op'[p].wf = wf
<1> DEFINE o == [at |-> x, to |-> to, s |-> s, gen |-> 1, wf |-> wf, nodes |-> NodeStatuses]
<1>1. op \in [Procs -> Op \cup {None}] /\ wf \in Versioned(WorkflowStatus)
      BY DEF TypeInv, TypeOK
<1>2. NodeStatuses \in [Stages -> NodeStatus]
      BY DEF TypeInv, TypeOK, NodeStatuses, Versioned
<1>3. o \in Op /\ o.at = x /\ o.to = to /\ o.s = s /\ o.wf = wf
      BY <1>1, <1>2 DEF Op
<1>4. op' = [op EXCEPT ![p] = o]
      BY DEF Call
<1> HIDE DEF o
<1> QED
    BY <1>1, <1>3, <1>4 DEF Stepped

(* What keeps CallOK and WfOK. *)
LEMMA CallKept ==
    ASSUME TypeInv, NEW p \in Procs, Stepped(p), Locks(p),
           op'[p] # None => /\ Target(op'[p]) /\ Caller(p, op'[p])
                            /\ p \in Daemon /\ op'[p].at \in Locked => mu' = p
    PROVE  CallOK'
<1> SUFFICES ASSUME NEW q \in Procs, op'[q] # None
             PROVE  /\ Target(op'[q]) /\ Caller(q, op'[q])
                    /\ q \in Daemon /\ op'[q].at \in Locked => mu' = q
    BY DEF CallOK
<1>1. CASE q = p
      BY <1>1
<1>2. CASE q # p
      BY <1>2 DEF TypeInv, CallOK, Stepped, Locks
<1> QED
    BY <1>1, <1>2

(* What keeps WfOK. *)
LEMMA WfKept ==
    ASSUME TypeInv, NEW p \in Procs, Stepped(p), wf' \in Versioned(WorkflowStatus),
           wf' = wf \/ wf'.gen = wf.gen + 1,
           op'[p] # None => /\ op'[p].wf.gen <= wf'.gen
                            /\ op'[p].wf.gen = wf'.gen => op'[p].wf.status = wf'.status
                            /\ op'[p].at = "unpause" => op'[p].wf.status = "PAUSE_REQUESTED"
    PROVE  WfOK'
<1> SUFFICES ASSUME NEW q \in Procs, op'[q] # None
             PROVE  /\ op'[q].wf.gen <= wf'.gen
                    /\ op'[q].wf.gen = wf'.gen => op'[q].wf.status = wf'.status
                    /\ op'[q].at = "unpause" => op'[q].wf.status = "PAUSE_REQUESTED"
    BY DEF WfOK
<1>1. CASE q = p
      BY <1>1
<1>2. CASE q # p
  <2>1. op[q] # None /\ op'[q] = op[q] /\ wf.gen \in Nat
        BY <1>2 DEF Stepped, TypeInv, TypeOK, Versioned
  <2>2. op[q].wf.gen \in Nat /\ op[q].wf.gen <= wf.gen
        BY <2>1, CallFields DEF TypeInv, WfOK
  <2> QED
      BY <2>1, <2>2 DEF TypeInv, WfOK
<1> QED
    BY <1>1, <1>2

(* The same locals, the same record. *)
LEMMA WfSame ==
    ASSUME TypeInv, NEW p \in Procs, op[p] # None, Stepped(p), wf' = wf,
           op'[p] # None => op'[p].wf = op[p].wf /\ op'[p].at # "unpause"
    PROVE  WfOK'
<1>1. wf \in Versioned(WorkflowStatus)
      BY DEF TypeInv, TypeOK
<1>2. /\ op[p].wf.gen <= wf.gen
      /\ op[p].wf.gen = wf.gen => op[p].wf.status = wf.status
      BY DEF TypeInv, WfOK
<1> QED
    BY <1>1, <1>2, WfKept

-----------------------------------------------------------------------------
(* Steps that write no node. *)

(* A step that leaves records, generation maps and launches alone. *)
LEMMA PlainTypes ==
    ASSUME TypeInv, NEW p \in Procs, Stepped(p), Locks(p), UNCHANGED <<store, gens, launch>>
    PROVE  TypeOK'
BY DEF TypeInv, TypeOK, Stepped, Locks, store, gens, launch

(* A step that writes no node keeps what is known about nodes. *)
LEMMA NodesSame ==
    ASSUME StageInv, NEW p \in Procs, Stepped(p), TypeInv', node' = node,
           \A s \in Stages : att'[s] # None => att[s] # None,
           \A key \in jobs' : key \in jobs \/ Claimed(key[1]),
           op'[p] # None => Knows(op'[p])
    PROVE  StageInv'
<1>1. \A s : (Claimed(s)' <=> Claimed(s)) /\ (Front(s)' <=> Front(s))
      BY DEF Claimed, Front
<1>2. NodeOK' /\ OrderOK'
      BY DEF StageInv, NodeOK, OrderOK
<1>3. KnowsOK'
  <2> SUFFICES ASSUME NEW q \in Procs, NEW o, o = op'[q], o # None
               PROVE  Knows(o)'
      BY DEF KnowsOK
  <2>1. Knows(o)
        BY DEF StageInv, KnowsOK, Stepped
  <2>2. o.s \in Stages
        BY DEF TypeInv, TypeOK, Op
  <2> QED
      BY <1>1, <2>1, <2>2 DEF Knows
<1>4. ClaimOK'
      BY <1>1 DEF StageInv, ClaimOK
<1> QED
    BY <1>2, <1>3, <1>4 DEF StageInv

(* ... so it is enough to look at the call that made it. *)
LEMMA Plain ==
    ASSUME StageInv, NEW p \in Procs, Stepped(p), Locks(p), UNCHANGED <<store, gens, launch>>,
           op'[p] # None =>
              /\ Target(op'[p]) /\ Caller(p, op'[p])
              /\ p \in Daemon /\ op'[p].at \in Locked => mu' = p
              /\ op'[p].wf.gen <= wf.gen
              /\ op'[p].wf.gen = wf.gen => op'[p].wf.status = wf.status
              /\ op'[p].at = "unpause" => op'[p].wf.status = "PAUSE_REQUESTED"
              /\ Knows(op'[p])
    PROVE  StageInv'
<1>1. TypeInv /\ wf' = wf /\ node' = node /\ att' = att /\ jobs' = jobs /\ wf \in Versioned(WorkflowStatus)
      BY DEF StageInv, TypeInv, TypeOK, store, launch
<1>2. TypeOK' /\ CallOK' /\ WfOK'
      BY <1>1, PlainTypes, CallKept, WfKept
<1> QED
    BY <1>1, <1>2, NodesSame DEF TypeInv

(* A call that returns. *)
LEMMA Returns ==
    ASSUME StageInv, NEW p \in Procs, NEW ok \in BOOLEAN, Return(p, ok), UNCHANGED <<store, gens, launch>>
    PROVE  StageInv'
BY ReturnStep, Plain DEF StageInv

(* A call that begins without the mutex. *)
LEMMA ReconcileKeeps ==
    ASSUME StageInv, NEW p \in Reconcilers, ReconcileOnce(p)
    PROVE  StageInv'
<1>0. TypeInv /\ p \in Procs /\ p \in Daemon /\ p \notin Workers /\ p \notin Cancellers
      BY PipelineAssumption DEF StageInv, Procs, Daemon
<1>1. UNCHANGED <<store, gens, mu, launch, refused>>
      BY DEF ReconcileOnce
<1>2. Locks(p)
      BY <1>0, <1>1, SameLocks
<1>3. wf.gen \in Nat
      BY <1>0 DEF TypeInv, TypeOK, Versioned
<1>4. ASSUME NEW s \in Stages, node[s].status = "LAUNCHING", Call(p, "find", "RUNNING", s)
      PROVE  StageInv'
  <2>1. Stepped(p) /\ op'[p].at = "find" /\ op'[p].to = "RUNNING" /\ op'[p].s = s /\ op'[p].wf = wf
        BY <1>0, <1>4, CallStep DEF Steps, NodeStatus
  <2>2. Target(op'[p]) /\ Caller(p, op'[p]) /\ Knows(op'[p]) /\ op'[p].at \notin Locked
        BY <1>0, <1>4, <2>1 DEF Target, Caller, Knows, Claimed, Locked
  <2> QED
      BY <1>0, <1>1, <1>2, <1>3, <2>1, <2>2, Plain
<1>5. ASSUME Call(p, "claim", "RUNNING", 1)
      PROVE  StageInv'
  <2>1. Stepped(p) /\ op'[p].at = "claim" /\ op'[p].to = "RUNNING" /\ op'[p].wf = wf
    <3>1. 1 \in Stages
          BY PipelineAssumption DEF Stages
    <3> QED
        BY <1>0, <1>5, <3>1, CallStep DEF Steps, NodeStatus
  <2>2. Target(op'[p]) /\ Caller(p, op'[p]) /\ Knows(op'[p]) /\ op'[p].at \notin Locked
        BY <1>0, <2>1 DEF Target, Caller, Knows, Locked
  <2> QED
      BY <1>0, <1>1, <1>2, <1>3, <2>1, <2>2, Plain
<1> QED
    BY <1>4, <1>5 DEF ReconcileOnce

(* CancelWorkflow begins. *)
LEMMA CancelKeeps ==
    ASSUME StageInv, NEW p \in Cancellers, CancelWorkflow(p)
    PROVE  StageInv'
<1>0. TypeInv /\ p \in Procs /\ p \notin Daemon /\ p \notin Workers /\ p \notin Reconcilers
      BY PipelineAssumption DEF StageInv, Procs, Daemon
<1>1. UNCHANGED <<store, gens, mu, launch, refused>>
      BY DEF CancelWorkflow
<1>2. wf.gen \in Nat /\ 1 \in Stages
      BY <1>0, PipelineAssumption DEF TypeInv, TypeOK, Versioned, Stages
<1>3. Stepped(p) /\ op'[p].at = "list" /\ op'[p].to = "CANCELLED" /\ op'[p].wf = wf
  <2>1. "list" \in Steps /\ "CANCELLED" \in NodeStatus
        BY DEF Steps, NodeStatus, NodeTerminal
  <2>2. Call(p, "list", "CANCELLED", 1)
        BY DEF CancelWorkflow
  <2> QED
      BY <1>0, <1>2, <2>1, <2>2, CallStep
<1>4. Target(op'[p]) /\ Caller(p, op'[p]) /\ Knows(op'[p])
      BY <1>0, <1>3 DEF Target, Caller, Knows
<1> QED
    BY <1>0, <1>1, <1>2, <1>3, <1>4, SameLocks, Plain

(* A call that begins with the mutex. *)
LEMMA WorkKeeps ==
    ASSUME StageInv, NEW p \in Workers, NEW x \in Steps, NEW to \in NodeStatus, NEW s \in Stages,
           mu = None, mu' = p, Call(p, x, to, s), UNCHANGED <<store, gens, launch, refused>>,
           x # "unpause",
           \A o : (o.at = x /\ o.to = to /\ o.s = s) => Target(o) /\ Knows(o),
           to \in {"SUCCEEDED", "FAILED", "READY"}
    PROVE  StageInv'
<1>0. TypeInv /\ p \in Procs /\ p \in Daemon /\ p \notin Reconcilers /\ p \notin Cancellers
      BY PipelineAssumption DEF StageInv, Procs, Daemon
<1>1. wf.gen \in Nat
      BY <1>0 DEF TypeInv, TypeOK, Versioned
<1>2. Stepped(p) /\ op'[p].at = x /\ op'[p].to = to /\ op'[p].s = s /\ op'[p].wf = wf
      BY <1>0, CallStep
<1>3. Caller(p, op'[p])
      BY <1>0, <1>2 DEF Caller
<1> QED
    BY <1>0, <1>1, <1>2, <1>3, TakesLock, Plain

(* CommitStageSuccess begins: its stage is RUNNING and at the front. *)
LEMMA SuccessKeeps ==
    ASSUME StageInv, NEW p \in Workers, NEW s \in Stages, CommitStageSuccess(p, s)
    PROVE  StageInv'
<1>1. node[s].status \in NodeStatus
      BY DEF StageInv, TypeInv, TypeOK, Versioned
<1>2. node[s].status = "RUNNING"
      BY <1>1 DEF CommitStageSuccess, NodeTransitions, NodeStatus, NodeTerminal
<1>3. Front(s)
      BY <1>2 DEF StageInv, OrderOK, Front, ActiveNode, Fresh
<1>4. \A o : (o.at = "node" /\ o.to = "SUCCEEDED" /\ o.s = s) => Target(o) /\ Knows(o)
      BY <1>2, <1>3 DEF Target, Knows
<1>5. "node" \in Steps /\ "SUCCEEDED" \in NodeStatus
      BY DEF Steps, NodeStatus, NodeTerminal
<1> QED
    BY <1>4, <1>5, WorkKeeps DEF CommitStageSuccess

(* CommitStageFailure begins: its stage was claimed and is not finished. *)
LEMMA FailureKeeps ==
    ASSUME StageInv, NEW p \in Workers, NEW s \in Stages, CommitStageFailure(p, s)
    PROVE  StageInv'
<1>1. node[s].status \in NodeStatus
      BY DEF StageInv, TypeInv, TypeOK, Versioned
<1>2. Claimed(s) /\ node[s].status \notin NodeTerminal
      BY <1>1 DEF CommitStageFailure, NodeTransitions, NodeStatus, NodeTerminal, Claimed
<1>3. \A o : (o.at = "node" /\ o.to = "FAILED" /\ o.s = s) => Target(o) /\ Knows(o)
      BY <1>2 DEF Target, Knows
<1>4. "node" \in Steps /\ "FAILED" \in NodeStatus
      BY DEF Steps, NodeStatus, NodeTerminal
<1> QED
    BY <1>3, <1>4, WorkKeeps DEF CommitStageFailure

(* ResumeWorkflow begins. *)
LEMMA ResumeKeeps ==
    ASSUME StageInv, NEW p \in Workers, ResumeWorkflow(p)
    PROVE  StageInv'
<1>1. \A o : (o.at = "wf" /\ o.to = "READY" /\ o.s = 1) => Target(o) /\ Knows(o)
      BY DEF Target, Knows
<1>2. "wf" \in Steps /\ "READY" \in NodeStatus /\ 1 \in Stages
      BY PipelineAssumption DEF Steps, NodeStatus, Stages
<1> QED
    BY <1>1, <1>2, WorkKeeps DEF ResumeWorkflow

(* A call that goes on to its next step. *)
LEMMA Goes ==
    ASSUME StageInv, NEW p \in Procs, op[p] # None, NEW x \in Steps, Goto(p, x), Locks(p),
           UNCHANGED <<store, gens, launch>>, x # "unpause",
           p \in Daemon /\ x \in Locked => mu' = p,
           \A o : (SameLocals(o, op[p]) /\ o.at = x) => Target(o) /\ Knows(o)
    PROVE  StageInv'
<1>0. TypeInv
      BY DEF StageInv
<1>1. Stepped(p) /\ op'[p].at = x /\ SameLocals(op'[p], op[p])
      BY <1>0, GotoStep
<1>2. Target(op'[p]) /\ Knows(op'[p])
      BY <1>1
<1>3. Caller(p, op'[p])
      BY <1>0, <1>1, CallFields DEF Caller, SameLocals
<1>4. /\ op'[p].wf.gen <= wf.gen
      /\ op'[p].wf.gen = wf.gen => op'[p].wf.status = wf.status
      BY <1>0, <1>1 DEF TypeInv, WfOK, SameLocals
<1> QED
    BY <1>1, <1>2, <1>3, <1>4, Plain

(* A call that takes other locals along. *)
LEMMA SetCall ==
    ASSUME TypeInv, NEW p \in Procs, NEW o \in Op, op' = [op EXCEPT ![p] = o]
    PROVE  Stepped(p) /\ op'[p] = o
BY DEF TypeInv, TypeOK, Stepped

(* ... and keeps the invariant. *)
LEMMA Takes ==
    ASSUME StageInv, NEW p \in Procs, op[p] # None, NEW o \in Op, op' = [op EXCEPT ![p] = o], Locks(p),
           UNCHANGED <<store, gens, launch>>, o.to = op[p].to, o.wf = op[p].wf, o.at # "unpause",
           p \in Daemon /\ o.at \in Locked => mu' = p,
           Target(o), Knows(o)
    PROVE  StageInv'
<1>0. TypeInv
      BY DEF StageInv
<1>1. Stepped(p) /\ op'[p] = o
      BY <1>0, SetCall
<1>2. Caller(p, o)
      BY <1>0, CallFields DEF Caller
<1>3. /\ o.wf.gen <= wf.gen
      /\ o.wf.gen = wf.gen => o.wf.status = wf.status
      BY <1>0 DEF TypeInv, WfOK
<1> QED
    BY <1>1, <1>2, <1>3, Plain

(* FindLaunchJob keeps the invariant. *)
LEMMA FindKeeps ==
    ASSUME StageInv, NEW p \in Procs, FindLaunchJob(p)
    PROVE  StageInv'
<1>0. TypeInv /\ op[p] # None /\ op[p].at = "find"
      BY DEF StageInv, FindLaunchJob, At
<1>1. PICK g \in Nat : op' = [op EXCEPT ![p].at = "put", ![p].gen = g]
      BY <1>0 DEF FindLaunchJob, TypeInv, TypeOK
<1> DEFINE o == [op[p] EXCEPT !.at = "put", !.gen = g]
<1>2. /\ o \in Op /\ o.at = "put" /\ o.to = op[p].to /\ o.s = op[p].s /\ o.wf = op[p].wf
      BY <1>0, CallFields DEF Op, Steps
<1>3. op' = [op EXCEPT ![p] = o] /\ UNCHANGED <<store, gens, mu, launch, refused>>
      BY <1>1 DEF FindLaunchJob
<1> HIDE DEF o
<1>4. Target(o) /\ o.at \notin Locked
      BY <1>0, <1>2, CallFields DEF Target, Locked
<1>5. Knows(o)
      BY <1>0, <1>2 DEF StageInv, KnowsOK, Knows
<1> QED
    BY <1>0, <1>2, <1>3, <1>4, <1>5, SameLocks, Takes

(* ClaimNextReady finds the stage at the front. *)
LEMMA ClaimKeeps ==
    ASSUME StageInv, NEW p \in Procs, ClaimNextReady(p)
    PROVE  StageInv'
<1> DEFINE ready == {s \in Stages : node[s].status = "READY"}
<1>0. TypeInv /\ op[p] # None /\ op[p].at = "claim" /\ mu = None /\ UNCHANGED <<store, gens, launch>>
      BY DEF StageInv, ClaimNextReady, At
<1>1. CASE Return(p, TRUE)
      BY <1>0, <1>1, Returns
<1>2. CASE /\ ready # {}
           /\ op' = [op EXCEPT ![p].at = "claimNode", ![p].s = First(ready)]
           /\ mu' = p
           /\ UNCHANGED refused
  <2>1. PICK s \in Stages : s = First(ready) /\ node[s].status = "READY"
        BY <1>2, Earliest
  <2> DEFINE o == [op[p] EXCEPT !.at = "claimNode", !.s = s]
  <2>2. o \in Op /\ o.at = "claimNode" /\ o.to = op[p].to /\ o.s = s /\ o.wf = op[p].wf
        BY <1>0, CallFields DEF Op, Steps
  <2>3. op' = [op EXCEPT ![p] = o]
        BY <1>2, <2>1
  <2> HIDE DEF o
  <2>4. p \in Daemon
        BY <1>0, CallFields DEF Target, Caller, Daemon
  <2>5. Target(o)
        BY <1>0, <2>2, CallFields DEF Target
  <2>6. Front(s)
        BY <2>1 DEF StageInv, OrderOK, Front, ActiveNode, Fresh
  <2>7. Knows(o)
        BY <2>1, <2>2, <2>6 DEF Knows
  <2> QED
      BY <1>0, <1>2, <2>2, <2>3, <2>4, <2>5, <2>7, TakesLock, Takes
<1> QED
    BY <1>1, <1>2 DEF ClaimNextReady

(* AcknowledgeRunning finds a LAUNCHING node. *)
LEMMA AckKeeps ==
    ASSUME StageInv, NEW p \in Procs, AcknowledgeRunning(p)
    PROVE  StageInv'
<1>0. TypeInv /\ op[p] # None /\ op[p].at = "ack" /\ mu = None /\ UNCHANGED <<store, gens, launch>>
      BY DEF StageInv, AcknowledgeRunning, At
<1>1. CASE Return(p, node[op[p].s].status = "RUNNING")
      BY <1>0, <1>1, Returns
<1>2. CASE node[op[p].s].status = "LAUNCHING" /\ Goto(p, "node") /\ mu' = p /\ UNCHANGED refused
  <2>1. op[p].to = "RUNNING" /\ p \in Daemon
        BY <1>0, CallFields DEF Target, Caller, Daemon
  <2>2. \A o : (SameLocals(o, op[p]) /\ o.at = "node") => Target(o) /\ Knows(o)
        BY <1>2, <2>1 DEF SameLocals, Target, Knows
  <2>3. "node" \in Steps
        BY DEF Steps
  <2> QED
      BY <1>0, <1>2, <2>1, <2>2, <2>3, TakesLock, Goes
<1> QED
    BY <1>1, <1>2 DEF AcknowledgeRunning

(* CheckPause keeps the invariant. *)
LEMMA PauseKeeps ==
    ASSUME StageInv, NEW p \in Procs, CheckPause(p)
    PROVE  StageInv'
<1>0. TypeInv /\ op[p] # None /\ op[p].at = "pause?" /\ UNCHANGED <<store, gens, mu, launch, refused>>
      BY DEF StageInv, CheckPause, At
<1>1. PICK x \in {"readWf", "next"} : Goto(p, x)
      BY DEF CheckPause
<1>2. op[p].to = "SUCCEEDED" /\ op[p].s < StageCount
      BY <1>0, CallFields DEF Target
<1>3. Knows(op[p])
      BY <1>0 DEF StageInv, KnowsOK
<1>4. \A o : (SameLocals(o, op[p]) /\ o.at = x) => Target(o) /\ Knows(o)
      BY <1>0, <1>1, <1>2, <1>3 DEF SameLocals, Target, Knows
<1>5. p \in Daemon => mu = p
      BY <1>0 DEF TypeInv, CallOK, Locked, Steps
<1>6. x \in Steps
      BY DEF Steps
<1> QED
    BY <1>0, <1>1, <1>4, <1>5, <1>6, SameLocks, Goes

(* ReadWorkflow takes the stored record along. *)
LEMMA ReadWfKeeps ==
    ASSUME StageInv, NEW p \in Procs, ReadWorkflow(p)
    PROVE  StageInv'
<1>0. TypeInv /\ op[p] # None /\ op[p].at = "readWf" /\ UNCHANGED <<store, gens, launch>>
      BY DEF StageInv, ReadWorkflow, At
<1>1. CASE Return(p, TRUE) \/ Return(p, FALSE)
      BY <1>0, <1>1, Returns
<1>2. ASSUME NEW x \in {"unpause", "wf"}, op' = [op EXCEPT ![p].at = x, ![p].wf = wf], UNCHANGED <<mu, refused>>,
             x = "unpause" => wf.status = "PAUSE_REQUESTED" /\ WorkflowTarget(p) = "SUCCEEDED"
      PROVE  StageInv'
  <2> DEFINE o == [op[p] EXCEPT !.at = x, !.wf = wf]
  <2>1. wf \in Versioned(WorkflowStatus) /\ wf.gen \in Nat
        BY <1>0 DEF TypeInv, TypeOK, Versioned
  <2>2. o \in Op /\ o.at = x /\ o.to = op[p].to /\ o.s = op[p].s /\ o.wf = wf
        BY <1>0, <2>1, CallFields DEF Op, Steps
  <2>3. op' = [op EXCEPT ![p] = o]
        BY <1>2
  <2> HIDE DEF o
  <2>4. Stepped(p) /\ op'[p] = o
        BY <1>0, <2>2, <2>3, SetCall
  <2>5. Caller(p, o)
        BY <1>0, <2>2, CallFields DEF Caller
  <2>6. op[p].to \in {"SUCCEEDED", "FAILED"} /\ (x = "unpause" => op[p].to = "SUCCEEDED")
        BY <1>0, <1>2, CallFields DEF Target, WorkflowTarget
  <2>7. Target(o) /\ Knows(o)
        BY <1>2, <2>2, <2>6 DEF Target, Knows
  <2>8. p \in Daemon => mu = p
        BY <1>0 DEF TypeInv, CallOK, Locked, Steps
  <2>9. o.wf.gen <= wf.gen /\ o.wf.status = wf.status /\ (o.at = "unpause" => o.wf.status = "PAUSE_REQUESTED")
        BY <1>2, <2>1, <2>2
  <2>10. Locks(p)
        BY <1>0, <1>2, SameLocks
  <2> QED
      BY <1>0, <1>2, <2>4, <2>5, <2>7, <2>8, <2>9, <2>10, Plain
<1> QED
    BY <1>1, <1>2 DEF ReadWorkflow

(* ListNodes: a resume readies a stage at the front. *)
LEMMA ListKeeps ==
    ASSUME StageInv, NEW p \in Procs, ListNodes(p)
    PROVE  StageInv'
<1> DEFINE statuses == {NodeStatuses[s] : s \in Stages}
           pending  == {s \in Stages : node[s].status = "PENDING"}
<1>0. TypeInv /\ op[p] # None /\ op[p].at = "list" /\ UNCHANGED <<store, gens, launch>>
      BY DEF StageInv, ListNodes, At
<1>a. op[p].to \in {"CANCELLED", "READY"} /\ (p \in Daemon => mu = p)
      BY <1>0, CallFields DEF Target, TypeInv, CallOK, Locked, Steps
<1>1. CASE Return(p, TRUE)
      BY <1>0, <1>1, Returns
<1>2. CASE /\ op[p].to = "CANCELLED"
           /\ op' = [op EXCEPT ![p].at = "node", ![p].nodes = NodeStatuses]
           /\ UNCHANGED <<mu, refused>>
  <2> DEFINE o == [op[p] EXCEPT !.at = "node", !.nodes = NodeStatuses]
  <2>1. NodeStatuses \in [Stages -> NodeStatus]
        BY <1>0 DEF TypeInv, TypeOK, NodeStatuses, Versioned
  <2>2. o \in Op /\ o.at = "node" /\ o.to = op[p].to /\ o.wf = op[p].wf
        BY <1>0, <2>1, CallFields DEF Op, Steps
  <2>3. op' = [op EXCEPT ![p] = o]
        BY <1>2
  <2> HIDE DEF o
  <2>4. Target(o) /\ Knows(o)
        BY <1>2, <2>2 DEF Target, Knows
  <2> QED
      BY <1>0, <1>a, <1>2, <2>2, <2>3, <2>4, SameLocks, Takes
<1>3. CASE /\ op[p].to = "READY" /\ statuses \cap ActiveNode = {} /\ pending # {}
           /\ op' = [op EXCEPT ![p].at = "readyFirst", ![p].s = First(pending)]
           /\ UNCHANGED <<mu, refused>>
  <2>1. PICK s \in Stages : /\ s = First(pending) /\ node[s].status = "PENDING"
                            /\ \A u \in pending : s <= u
        BY <1>3, Earliest
  <2> DEFINE o == [op[p] EXCEPT !.at = "readyFirst", !.s = s]
  <2>2. o \in Op /\ o.at = "readyFirst" /\ o.to = op[p].to /\ o.s = s /\ o.wf = op[p].wf
        BY <1>0, CallFields DEF Op, Steps
  <2>3. op' = [op EXCEPT ![p] = o]
        BY <1>3, <2>1
  <2> HIDE DEF o
  <2>4. \A u \in Stages : node[u].status \notin ActiveNode
        BY <1>3 DEF NodeStatuses
  <2>5. \A u \in Stages : u < s => node[u].status # "PENDING"
        BY <2>1, PipelineAssumption DEF Stages
  <2>6. Front(s)
        BY <2>1, <2>4, <2>5 DEF StageInv, OrderOK, Front
  <2>7. Target(o) /\ Knows(o)
        BY <1>3, <2>1, <2>2, <2>6 DEF Target, Knows, Fresh
  <2> QED
      BY <1>0, <1>a, <1>3, <2>2, <2>3, <2>7, SameLocks, Takes
<1> QED
    BY <1>a, <1>1, <1>2, <1>3 DEF ListNodes

(* Calls that end early. *)
LEMMA ErrorKeeps ==
    ASSUME StageInv, NEW p \in Procs, LaunchFails(p) \/ RejectHandoff(p) \/ WriteFails(p)
    PROVE  StageInv'
BY Returns DEF LaunchFails, RejectHandoff, WriteFails

(* What a call that goes on takes with it. *)
Continues(p) ==
    op'[p] # None => /\ Target(op'[p]) /\ Caller(p, op'[p])
                     /\ p \in Daemon /\ op'[p].at \in Locked => mu' = p
                     /\ op'[p].wf = op[p].wf /\ op'[p].at # "unpause"

(* A step that writes other records than nodes and the workflow. *)
LEMMA Records ==
    ASSUME StageInv, NEW p \in Procs, op[p] # None, Stepped(p), Locks(p), TypeOK', node' = node, wf' = wf,
           \A s \in Stages : att'[s] # None => att[s] # None,
           \A key \in jobs' : key \in jobs \/ Claimed(key[1]),
           Continues(p),
           op'[p] # None => Knows(op'[p])
    PROVE  StageInv'
<1>1. TypeInv
      BY DEF StageInv
<1>2. CallOK' /\ WfOK'
      BY <1>1, CallKept, WfSame DEF Continues
<1> QED
    BY <1>2, NodesSame DEF TypeInv

(* A call at its next step. *)
LEMMA GotoContinues ==
    ASSUME TypeInv, NEW p \in Procs, op[p] # None, NEW x \in Steps, Goto(p, x), x # "unpause",
           p \in Daemon /\ x \in Locked => mu' = p,
           \A o : (SameLocals(o, op[p]) /\ o.at = x) => Target(o)
    PROVE  Stepped(p) /\ Continues(p) /\ op'[p] \in Op /\ op'[p].at = x /\ SameLocals(op'[p], op[p])
<1>1. Stepped(p) /\ op'[p] \in Op /\ op'[p].at = x /\ SameLocals(op'[p], op[p])
      BY GotoStep
<1>2. Target(op'[p])
      BY <1>1
<1>3. Caller(p, op'[p])
      BY <1>1, CallFields DEF Caller, SameLocals
<1> QED
    BY <1>1, <1>2, <1>3 DEF Continues, SameLocals

(* PutIfAbsent adds the job of a claimed node. *)
LEMMA PutKeeps ==
    ASSUME StageInv, NEW p \in Procs, PutIfAbsent(p)
    PROVE  StageInv'
<1>0. TypeInv /\ op[p] # None /\ op[p].at = "put"
      /\ UNCHANGED <<store, gens, mu, registered, active, containers, refused>>
      BY DEF StageInv, PutIfAbsent, At
<1>1. op[p].to = "RUNNING" /\ op[p].s \in Stages /\ op[p].gen \in Nat
      BY <1>0, CallFields DEF Target
<1>2. "launch" \in Steps /\ "launch" \notin Locked
      BY DEF Steps, Locked
<1>3. \A o : (SameLocals(o, op[p]) /\ o.at = "launch") => Target(o)
      BY <1>1 DEF SameLocals, Target
<1>4. Stepped(p) /\ Continues(p) /\ op'[p].at = "launch" /\ SameLocals(op'[p], op[p])
      BY <1>0, <1>2, <1>3, GotoContinues DEF PutIfAbsent
<1>5. Claimed(op[p].s)
      BY <1>0 DEF StageInv, KnowsOK, Knows
<1>6. Knows(op'[p])
      BY <1>4, <1>5 DEF Knows, SameLocals
<1>7. jobs' = jobs \cup {<<op[p].s, op[p].gen>>}
      BY DEF PutIfAbsent
<1>8. TypeOK'
      BY <1>0, <1>1, <1>4, <1>7 DEF TypeInv, TypeOK, Stepped, store, gens
<1> QED
    BY <1>0, <1>4, <1>5, <1>6, <1>7, <1>8, SameLocks, Records DEF store

(* EnsureLaunch keeps the invariant. *)
LEMMA LaunchKeeps ==
    ASSUME StageInv, NEW p \in Procs, EnsureLaunch(p)
    PROVE  StageInv'
<1>0. TypeInv /\ op[p] # None /\ op[p].at = "launch"
      /\ UNCHANGED <<store, gens, mu, registered, jobs, refused>>
      BY DEF StageInv, EnsureLaunch, At
<1>1. op[p].to = "RUNNING" /\ op[p].s \in Stages /\ op[p].gen \in Nat
      BY <1>0, CallFields DEF Target
<1>2. "ack" \in Steps /\ "ack" \notin Locked
      BY DEF Steps, Locked
<1>3. \A o : (SameLocals(o, op[p]) /\ o.at = "ack") => Target(o)
      BY <1>1 DEF SameLocals, Target
<1>4. Stepped(p) /\ Continues(p) /\ op'[p].at = "ack"
      BY <1>0, <1>2, <1>3, GotoContinues DEF EnsureLaunch
<1>5. Knows(op'[p])
      BY <1>4 DEF Knows
<1>6. active' \subseteq Stages \X Nat /\ containers' \in [Stages -> Nat]
      BY <1>0, <1>1 DEF EnsureLaunch, TypeInv, TypeOK
<1>7. TypeOK'
      BY <1>0, <1>4, <1>6 DEF TypeInv, TypeOK, Stepped, store, gens
<1> QED
    BY <1>0, <1>4, <1>5, <1>7, SameLocks, Records DEF store

(* CommitHandoff keeps the invariant. *)
LEMMA HandoffKeeps ==
    ASSUME StageInv, NEW p \in Procs, CommitHandoff(p)
    PROVE  StageInv'
<1>0. TypeInv /\ op[p] # None /\ op[p].at = "handoff"
      /\ UNCHANGED <<wf, desired, node, run, att, gens, mu, launch, refused>>
      BY DEF StageInv, CommitHandoff, At
<1>1. op[p].to = "SUCCEEDED" /\ op[p].s < StageCount /\ op[p].s \in Stages
      BY <1>0, CallFields DEF Target
<1>2. "pause?" \in Steps /\ (p \in Daemon => mu = p)
      BY <1>0 DEF Steps, TypeInv, CallOK, Locked
<1>3. \A o : (SameLocals(o, op[p]) /\ o.at = "pause?") => Target(o)
      BY <1>1 DEF SameLocals, Target
<1>4. Stepped(p) /\ Continues(p) /\ op'[p].at = "pause?" /\ SameLocals(op'[p], op[p])
      BY <1>0, <1>2, <1>3, GotoContinues DEF CommitHandoff
<1>5. Knows(op'[p])
      BY <1>0, <1>1, <1>4 DEF StageInv, KnowsOK, Knows, SameLocals
<1>6. handoffs' \subseteq Stages
      BY <1>0, <1>1 DEF CommitHandoff, TypeInv, TypeOK
<1>7. TypeOK'
      BY <1>0, <1>4, <1>6 DEF TypeInv, TypeOK, Stepped, gens, launch
<1> QED
    BY <1>0, <1>4, <1>5, <1>7, SameLocks, Records DEF launch

(* Where a call goes from a stage's records. *)
LEMMA AfterStep ==
    ASSUME TypeInv, NEW p \in Procs, op[p] # None, op[p].at \in {"node", "run", "att"}, AfterStage(p)
    PROVE  /\ Stepped(p) /\ Locks(p) /\ Continues(p)
           /\ op'[p] # None =>
                /\ op'[p] \in Op /\ op'[p].to = op[p].to /\ op'[p].nodes = op[p].nodes /\ mu' = mu
                /\ \/ /\ op[p].to = "SUCCEEDED" /\ op[p].s < StageCount
                      /\ op'[p].at = "handoff" /\ op'[p].s = op[p].s
                   \/ /\ op[p].to = "FAILED" \/ (op[p].to = "SUCCEEDED" /\ op[p].s = StageCount)
                      /\ op'[p].at = "readWf" /\ op'[p].s = op[p].s
                   \/ /\ op[p].to = "CANCELLED" /\ op[p].s = StageCount
                      /\ op'[p].at = "wf" /\ op'[p].s = op[p].s
                   \/ /\ op[p].to = "CANCELLED" /\ op[p].s < StageCount
                      /\ op'[p].at = "node" /\ op'[p].s = op[p].s + 1
<1>1. /\ op[p].to \in {"RUNNING", "SUCCEEDED", "FAILED", "CANCELLED"} /\ op[p].s \in 1..StageCount /\ StageCount \in Nat
      /\ p \in Daemon => mu = p
      BY CallFields, PipelineAssumption DEF Target, TypeInv, CallOK, Locked, Steps, Stages
<1>2. CASE op[p].to = "RUNNING"
  <2>1. Return(p, TRUE)
        BY <1>2 DEF AfterStage
  <2> QED
      BY <2>1, ReturnStep DEF Continues
<1>3. CASE op[p].to = "SUCCEEDED" /\ op[p].s < StageCount
  <2>1. Goto(p, "handoff") /\ UNCHANGED <<mu, refused>>
    <3>1. op[p].s # StageCount
          BY <1>1, <1>3
    <3> QED
        BY <1>3, <3>1 DEF AfterStage
  <2>2. \A o : (SameLocals(o, op[p]) /\ o.at = "handoff") => Target(o)
        BY <1>3 DEF SameLocals, Target
  <2>3. "handoff" \in Steps
        BY DEF Steps
  <2>4. Stepped(p) /\ Continues(p) /\ op'[p] \in Op /\ op'[p].at = "handoff" /\ SameLocals(op'[p], op[p])
        BY <1>1, <2>1, <2>2, <2>3, GotoContinues
  <2> QED
      BY <1>3, <2>1, <2>4, SameLocks DEF SameLocals
<1>4. CASE op[p].to = "FAILED" \/ (op[p].to = "SUCCEEDED" /\ op[p].s = StageCount)
  <2>1. Goto(p, "readWf") /\ UNCHANGED <<mu, refused>>
    <3>1. op[p].to # "RUNNING" /\ ~(op[p].to = "SUCCEEDED" /\ op[p].s < StageCount)
          BY <1>1, <1>4
    <3> QED
        BY <1>4, <3>1, Zenon DEF AfterStage
  <2>2. \A o : (SameLocals(o, op[p]) /\ o.at = "readWf") => Target(o)
        BY <1>4 DEF SameLocals, Target
  <2>3. "readWf" \in Steps
        BY DEF Steps
  <2>4. Stepped(p) /\ Continues(p) /\ op'[p] \in Op /\ op'[p].at = "readWf" /\ SameLocals(op'[p], op[p])
        BY <1>1, <2>1, <2>2, <2>3, GotoContinues
  <2> QED
      BY <1>4, <2>1, <2>4, SameLocks DEF SameLocals
<1>5. CASE op[p].to = "CANCELLED"
  <2> DEFINE x == IF op[p].s = StageCount THEN "wf" ELSE "node"
             t == IF op[p].s = StageCount THEN op[p].s ELSE op[p].s + 1
             o == [op[p] EXCEPT !.at = x, !.s = t]
  <2>1. op' = [op EXCEPT ![p].at = x, ![p].s = t] /\ UNCHANGED <<mu, refused>>
        BY <1>5 DEF AfterStage
  <2>2. x \in {"wf", "node"} /\ x \in Steps /\ t \in Stages
        BY <1>1 DEF Steps, Stages
  <2>a. (op[p].s = StageCount => x = "wf" /\ t = op[p].s) /\ (op[p].s < StageCount => x = "node" /\ t = op[p].s + 1)
        BY <1>1
  <2>3. op' = [op EXCEPT ![p] = o]
        BY <2>1
  <2> HIDE DEF x, t
  <2>4. o \in Op /\ o.at = x /\ o.s = t /\ o.to = op[p].to /\ o.nodes = op[p].nodes /\ o.wf = op[p].wf
        BY <2>2, CallFields DEF Op
  <2> HIDE DEF o
  <2>5. Target(o) /\ Caller(p, o)
        BY <1>5, <2>2, <2>4, CallFields DEF Target, Caller
  <2>6. Stepped(p) /\ op'[p] = o
        BY <2>3, <2>4, SetCall
  <2>7. Continues(p)
        BY <1>1, <2>1, <2>2, <2>4, <2>5, <2>6 DEF Continues
  <2> QED
      BY <1>1, <1>5, <2>1, <2>a, <2>4, <2>6, <2>7, SameLocks
<1> QED
    BY <1>1, <1>2, <1>3, <1>4, <1>5

(* ... and what it knows there. *)
LEMMA AfterKnows ==
    ASSUME StageInv, NEW p \in Procs, op[p] # None, op[p].at \in {"node", "run", "att"}, AfterStage(p),
           op[p].at = "node" => op[p].to = "CANCELLED"
    PROVE  op'[p] # None => Knows(op'[p])
<1> HAVE op'[p] # None
<1>1. TypeInv /\ Knows(op[p])
      BY DEF StageInv, KnowsOK
<1>2. op'[p].to = op[p].to
      BY <1>1, AfterStep
<1>3. CASE op[p].to = "SUCCEEDED" /\ op'[p].at = "handoff" /\ op'[p].s = op[p].s
      BY <1>1, <1>2, <1>3 DEF Knows
<1>4. CASE op'[p].at \in {"readWf", "wf"}
      BY <1>4 DEF Knows
<1>5. CASE op[p].to = "CANCELLED" /\ op'[p].at = "node"
      BY <1>2, <1>5 DEF Knows
<1> QED
    BY <1>1, <1>3, <1>4, <1>5, AfterStep

(* A call at one of a stage's records. *)
LEMMA AtRecord ==
    ASSUME TypeInv, NEW p \in Procs, op[p] # None, op[p].at \in {"node", "run", "att"}
    PROVE  /\ op[p].to \in {"RUNNING", "SUCCEEDED", "FAILED", "CANCELLED"}
           /\ op[p].to \in NodeStatus \cap RunStatus \cap AttemptStatus
           /\ op[p].s \in Stages
           /\ p \in Daemon => mu = p
<1>1. op[p].to \in {"RUNNING", "SUCCEEDED", "FAILED", "CANCELLED"} /\ op[p].s \in Stages
      BY CallFields DEF Target
<1>2. op[p].to \in NodeStatus \cap RunStatus \cap AttemptStatus
      BY <1>1 DEF NodeStatus, RunStatus, AttemptStatus, NodeTerminal, RunTerminal, AttemptTerminal
<1>3. p \in Daemon => mu = p
      BY DEF TypeInv, CallOK, Locked, Steps
<1> QED
    BY <1>1, <1>2, <1>3

(* The record that a successful write leaves. *)
LEMMA Written ==
    ASSUME NEW S, NEW rec \in Versioned(S), NEW st, NEW e, NEW r
    PROVE  /\ Write(rec, st, e, r).rec = [status |-> st, gen |-> rec.gen + 1]
           /\ Write(rec, st, e, r).ok = (rec.gen \in e..(e + r))
           /\ st \in S => [status |-> st, gen |-> rec.gen + 1] \in Versioned(S)
BY DEF Write, Versioned

(* The generation maps stay maps. *)
LEMMA TrackedType ==
    ASSUME NEW p \in Procs, NEW f \in [Stages -> Nat], NEW s \in Stages, NEW rec, rec.gen \in Nat
    PROVE  Tracked(p, f, s, rec) \in [Stages -> Nat]
BY DEF Tracked

(* What UpdateRun does. *)
LEMMA RunEffect ==
    ASSUME StageInv, NEW p \in Procs, UpdateRun(p)
    PROVE  /\ op[p] # None /\ op[p].at = "run" /\ op[p].s \in Stages /\ Stepped(p) /\ Locks(p) /\ Continues(p)
           /\ op'[p] # None => Knows(op'[p])
           /\ UNCHANGED <<wf, desired, node, att, handoffs, nodeGen, attGen, launch>>
           /\ runGen' \in [Stages -> Nat] /\ run' \in [Stages -> Versioned(RunStatus)]
           /\ \/ UNCHANGED <<run, runGen>>
              \/ /\ run' = [run EXCEPT ![op[p].s] = [status |-> op[p].to, gen |-> @.gen + 1]]
                 /\ run[op[p].s].gen \in {1, runGen[op[p].s]}
                 /\ \A u \in Stages : u # op[p].s => runGen'[u] = runGen[u]
<1> DEFINE s == op[p].s
           to == op[p].to
           waiting == to = "CANCELLED" /\ op[p].nodes[s] \in {"READY", "PENDING"}
           skip == waiting /\ run[s].status # "PENDING"
           w == Write(run[s], to, Expected(p, runGen, s), 0)
           ok == w.ok /\ (to \in {"RUNNING", "SUCCEEDED"} => to \in RunTransitions[run[s].status])
<1>0. /\ TypeInv /\ op[p] # None /\ op[p].at = "run"
      /\ UNCHANGED <<wf, desired, node, att, handoffs, nodeGen, attGen, launch>>
      BY DEF StageInv, UpdateRun, At
<1>1. to \in {"RUNNING", "SUCCEEDED", "FAILED", "CANCELLED"} /\ to \in RunStatus /\ s \in Stages /\ (p \in Daemon => mu = p)
      BY <1>0, AtRecord
<1>2. run \in [Stages -> Versioned(RunStatus)] /\ runGen \in [Stages -> Nat]
      BY <1>0 DEF TypeInv, TypeOK
<1>3. /\ w.rec = [status |-> to, gen |-> run[s].gen + 1] /\ w.rec \in Versioned(RunStatus)
      /\ w.rec.gen \in Nat
      BY <1>1, <1>2, Written DEF Versioned
<1>4. Knows(op[p])
      BY <1>0 DEF StageInv, KnowsOK
<1>5. CASE skip /\ AfterStage(p) /\ UNCHANGED <<run, runGen>>
      BY <1>0, <1>1, <1>2, <1>5, AfterStep, AfterKnows
<1>a. w.ok => run[s].gen \in {1, runGen[s]}
  <2>1. /\ w.ok = (run[s].gen \in Expected(p, runGen, s)..(Expected(p, runGen, s) + 0))
        /\ Expected(p, runGen, s) \in {1, runGen[s]}
        BY <1>1, <1>2, Written DEF Expected, Write
  <2>2. run[s].gen \in Nat /\ runGen[s] \in Nat
        BY <1>1, <1>2 DEF Versioned
  <2> HIDE DEF w
  <2>3. w.ok => run[s].gen \in Expected(p, runGen, s)..(Expected(p, runGen, s) + 0)
        BY <2>1, Zenon
  <2> QED
      BY <2>1, <2>2, <2>3
<1>b. runGen' = Tracked(p, runGen, s, w.rec) => \A u \in Stages : u # s => runGen'[u] = runGen[u]
      BY <1>2 DEF Tracked
<1>6. CASE /\ w.ok
           /\ run' = [run EXCEPT ![s] = w.rec]
           /\ runGen' = Tracked(p, runGen, s, w.rec)
           /\ AfterStage(p)
  <2> HIDE DEF w
  <2>1. runGen' \in [Stages -> Nat] /\ run' \in [Stages -> Versioned(RunStatus)]
        BY <1>1, <1>2, <1>3, <1>6, TrackedType
  <2> QED
      BY <1>0, <1>1, <1>2, <1>3, <1>6, <1>a, <1>b, <2>1, AfterStep, AfterKnows
<1>7. CASE /\ w.ok
           /\ run' = [run EXCEPT ![s] = w.rec]
           /\ runGen' = Tracked(p, runGen, s, w.rec)
           /\ Goto(p, "att") /\ UNCHANGED <<mu, refused>>
  <2> HIDE DEF w
  <2>1. runGen' \in [Stages -> Nat] /\ run' \in [Stages -> Versioned(RunStatus)]
        BY <1>1, <1>2, <1>3, <1>7, TrackedType
  <2>2. \A o : (SameLocals(o, op[p]) /\ o.at = "att") => Target(o)
        BY <1>1 DEF SameLocals, Target
  <2>3. "att" \in Steps
        BY DEF Steps
  <2>4. Stepped(p) /\ Continues(p) /\ op'[p].at = "att" /\ SameLocals(op'[p], op[p])
        BY <1>0, <1>1, <1>7, <2>2, <2>3, GotoContinues
  <2>5. Knows(op'[p])
        BY <1>0, <1>4, <2>4 DEF Knows, SameLocals
  <2> QED
      BY <1>0, <1>1, <1>3, <1>7, <1>a, <1>b, <2>1, <2>4, <2>5, SameLocks
<1>8. CASE Return(p, FALSE) /\ UNCHANGED <<run, runGen>>
      BY <1>0, <1>1, <1>2, <1>8, ReturnStep DEF Continues
<1>9. \/ skip /\ AfterStage(p) /\ UNCHANGED <<run, runGen>>
      \/ /\ w.ok
         /\ run' = [run EXCEPT ![s] = w.rec]
         /\ runGen' = Tracked(p, runGen, s, w.rec)
         /\ IF waiting THEN AfterStage(p) ELSE Goto(p, "att") /\ UNCHANGED <<mu, refused>>
      \/ Return(p, FALSE) /\ UNCHANGED <<run, runGen>>
      BY Zenon DEF UpdateRun
<1> HIDE DEF w, ok, skip, waiting
<1> QED
    BY <1>5, <1>6, <1>7, <1>8, <1>9

(* UpdateRun keeps the invariant. *)
LEMMA RunKeeps ==
    ASSUME StageInv, NEW p \in Procs, UpdateRun(p)
    PROVE  StageInv'
<1>1. /\ op[p] # None /\ Stepped(p) /\ Locks(p) /\ Continues(p)
      /\ op'[p] # None => Knows(op'[p])
      /\ UNCHANGED <<wf, desired, node, att, handoffs, nodeGen, attGen, launch>>
      /\ runGen' \in [Stages -> Nat] /\ run' \in [Stages -> Versioned(RunStatus)]
      BY RunEffect
<1>2. TypeOK'
      BY <1>1 DEF StageInv, TypeInv, TypeOK, Stepped, Locks, launch
<1> QED
    BY <1>1, <1>2, Records DEF launch

(* What UpdateAttempt does. *)
LEMMA AttemptEffect ==
    ASSUME StageInv, NEW p \in Procs, UpdateAttempt(p)
    PROVE  /\ op[p] # None /\ op[p].at = "att" /\ op[p].s \in Stages /\ Stepped(p) /\ Locks(p) /\ Continues(p)
           /\ op'[p] # None => Knows(op'[p])
           /\ UNCHANGED <<wf, desired, node, run, handoffs, nodeGen, runGen, launch>>
           /\ attGen' \in [Stages -> Nat] /\ att' \in [Stages -> Versioned(AttemptStatus) \cup {None}]
           /\ \/ att' = att
              \/ /\ att[op[p].s] # None /\ op[p].to \in AttemptTransitions[att[op[p].s].status]
                 /\ att' = [att EXCEPT ![op[p].s] = [status |-> op[p].to, gen |-> @.gen + 1]]
<1> DEFINE s == op[p].s
           to == op[p].to
           skip == \/ att[s] = None
                   \/ to \in {"SUCCEEDED", "FAILED"} /\ att[s].status = to
                   \/ to = "CANCELLED" /\ att[s].status \notin {"RUNNING", "PENDING"}
           w == Write(att[s], to, Expected(p, attGen, s), 0)
           ok == w.ok /\ to \in AttemptTransitions[att[s].status]
<1>0. /\ TypeInv /\ op[p] # None /\ op[p].at = "att"
      /\ UNCHANGED <<wf, desired, node, run, handoffs, nodeGen, runGen, launch>>
      BY DEF StageInv, UpdateAttempt, At
<1>1. to \in {"RUNNING", "SUCCEEDED", "FAILED", "CANCELLED"} /\ to \in AttemptStatus /\ s \in Stages
      BY <1>0, AtRecord
<1>2. att \in [Stages -> Versioned(AttemptStatus) \cup {None}] /\ attGen \in [Stages -> Nat]
      BY <1>0 DEF TypeInv, TypeOK
<1>3. CASE AfterStage(p) /\ UNCHANGED <<att, attGen>>
      BY <1>0, <1>1, <1>2, <1>3, AfterStep, AfterKnows
<1>4. CASE /\ att[s] # None /\ to \in AttemptTransitions[att[s].status]
           /\ att' = [att EXCEPT ![s] = w.rec]
           /\ attGen' = Tracked(p, attGen, s, w.rec)
           /\ AfterStage(p)
  <2>1. att[s] \in Versioned(AttemptStatus)
        BY <1>1, <1>2, <1>4
  <2>2. /\ w.rec = [status |-> to, gen |-> att[s].gen + 1] /\ w.rec \in Versioned(AttemptStatus)
        /\ w.rec.gen \in Nat
        BY <1>1, <2>1, Written DEF Versioned
  <2> HIDE DEF w
  <2>3. attGen' \in [Stages -> Nat] /\ att' \in [Stages -> Versioned(AttemptStatus) \cup {None}]
        BY <1>1, <1>2, <2>2, <1>4, TrackedType
  <2> QED
      BY <1>0, <1>1, <1>4, <2>2, <2>3, AfterStep, AfterKnows
<1>5. CASE Return(p, FALSE) /\ UNCHANGED <<att, attGen>>
      BY <1>0, <1>1, <1>2, <1>5, ReturnStep DEF Continues
<1>6. \/ AfterStage(p) /\ UNCHANGED <<att, attGen>>
      \/ /\ att[s] # None /\ to \in AttemptTransitions[att[s].status]
         /\ att' = [att EXCEPT ![s] = w.rec]
         /\ attGen' = Tracked(p, attGen, s, w.rec)
         /\ AfterStage(p)
      \/ Return(p, FALSE) /\ UNCHANGED <<att, attGen>>
      BY Zenon DEF UpdateAttempt
<1> HIDE DEF w, ok, skip
<1> QED
    BY <1>3, <1>4, <1>5, <1>6

(* UpdateAttempt keeps the invariant. *)
LEMMA AttemptKeeps ==
    ASSUME StageInv, NEW p \in Procs, UpdateAttempt(p)
    PROVE  StageInv'
<1>1. /\ op[p] # None /\ op[p].s \in Stages /\ Stepped(p) /\ Locks(p) /\ Continues(p)
      /\ op'[p] # None => Knows(op'[p])
      /\ UNCHANGED <<wf, desired, node, run, handoffs, nodeGen, runGen, launch>>
      /\ attGen' \in [Stages -> Nat] /\ att' \in [Stages -> Versioned(AttemptStatus) \cup {None}]
      /\ \/ att' = att
         \/ /\ att[op[p].s] # None
            /\ att' = [att EXCEPT ![op[p].s] = [status |-> op[p].to, gen |-> @.gen + 1]]
      BY AttemptEffect
<1>2. TypeOK'
      BY <1>1 DEF StageInv, TypeInv, TypeOK, Stepped, Locks, launch
<1>3. \A s \in Stages : att'[s] # None => att[s] # None
      BY <1>1 DEF StageInv, TypeInv, TypeOK
<1> QED
    BY <1>1, <1>2, <1>3, Records DEF launch

(* CreateAttempt makes the attempt of a claimed node. *)
LEMMA CreateKeeps ==
    ASSUME StageInv, NEW p \in Procs, CreateAttempt(p)
    PROVE  StageInv'
<1> DEFINE s == op[p].s
<1>0. /\ TypeInv /\ op[p] # None /\ op[p].at = "attempt"
      /\ UNCHANGED <<wf, desired, node, run, handoffs, nodeGen, runGen, launch, refused>>
      /\ mu' = None /\ Goto(p, "put")
      /\ att' = [att EXCEPT ![s] = [status |-> "PENDING", gen |-> 1]] /\ attGen' = [attGen EXCEPT ![s] = 1]
      BY DEF StageInv, CreateAttempt, At
<1>1. op[p].to = "RUNNING" /\ s \in Stages /\ p \in Daemon
      BY <1>0, CallFields DEF Target, Caller, Daemon
<1>2. mu = p
      BY <1>0, <1>1 DEF TypeInv, CallOK, Locked, Steps
<1>3. Locks(p)
      BY <1>0, <1>2 DEF Locks, TypeInv, TypeOK
<1>4. \A o : (SameLocals(o, op[p]) /\ o.at = "put") => Target(o)
      BY <1>1 DEF SameLocals, Target
<1>5. "put" \in Steps /\ "put" \notin Locked
      BY DEF Steps, Locked
<1>6. Stepped(p) /\ Continues(p) /\ op'[p].at = "put" /\ SameLocals(op'[p], op[p])
      BY <1>0, <1>4, <1>5, GotoContinues
<1>7. TypeOK'
  <2>1. [status |-> "PENDING", gen |-> 1] \in Versioned(AttemptStatus)
        BY DEF Versioned, AttemptStatus
  <2>2. att' \in [Stages -> Versioned(AttemptStatus) \cup {None}] /\ attGen' \in [Stages -> Nat]
        BY <1>0, <1>1, <2>1 DEF TypeInv, TypeOK
  <2> QED
      BY <1>0, <1>3, <1>6, <2>2 DEF TypeInv, TypeOK, Stepped, Locks, launch
<1>8. CallOK' /\ WfOK'
      BY <1>0, <1>3, <1>6, CallKept, WfSame DEF Continues
<1>9. \A t : (Claimed(t)' <=> Claimed(t)) /\ (Front(t)' <=> Front(t))
      BY <1>0 DEF Claimed, Front
<1>10. Claimed(s)
      BY <1>0 DEF StageInv, KnowsOK, Knows
<1>11. NodeOK' /\ OrderOK'
      BY <1>0 DEF StageInv, NodeOK, OrderOK
<1>12. ClaimOK'
  <2>1. \A t \in Stages : att'[t] # None => att[t] # None \/ t = s
        BY <1>0 DEF TypeInv, TypeOK
  <2> QED
      BY <1>0, <1>9, <1>10, <2>1 DEF StageInv, ClaimOK, launch
<1>13. KnowsOK'
  <2> SUFFICES ASSUME NEW q \in Procs, NEW o, o = op'[q], o # None
               PROVE  Knows(o)'
      BY DEF KnowsOK
  <2>1. CASE q = p
        BY <1>6, <1>9, <1>10, <2>1 DEF Knows, SameLocals
  <2>2. CASE q # p
    <3>1. o = op[q] /\ Knows(o)
          BY <1>6, <2>2 DEF Stepped, StageInv, KnowsOK
    <3>2. o.at # "attempt"
          BY <1>0, <1>1, <1>2, <2>2, <3>1, CallFields DEF TypeInv, CallOK, Target, Caller, Daemon, Locked, Steps
    <3> QED
        BY <1>0, <1>9, <3>1, <3>2 DEF Knows
  <2> QED
      BY <2>1, <2>2
<1> QED
    BY <1>7, <1>8, <1>11, <1>12, <1>13 DEF StageInv, TypeInv

(* A step that writes the workflow's record or nothing at all. *)
LEMMA WorkflowWritten ==
    ASSUME StageInv, NEW p \in Procs, Stepped(p), Locks(p), TypeOK', CallOK',
           UNCHANGED <<node, att, jobs>>,
           wf' = wf \/ wf'.gen = wf.gen + 1,
           op'[p] # None => /\ op'[p].wf.gen <= wf'.gen
                            /\ op'[p].wf.gen = wf'.gen => op'[p].wf.status = wf'.status
                            /\ op'[p].at = "unpause" => op'[p].wf.status = "PAUSE_REQUESTED"
                            /\ Knows(op'[p])
    PROVE  StageInv'
<1>1. TypeInv /\ wf' \in Versioned(WorkflowStatus)
      BY DEF StageInv, TypeOK
<1>2. WfOK'
      BY <1>1, WfKept
<1> QED
    BY <1>2, NodesSame DEF TypeInv

(* Unpause keeps the invariant. *)
LEMMA UnpauseKeeps ==
    ASSUME StageInv, NEW p \in Procs, Unpause(p)
    PROVE  StageInv'
<1>0. /\ TypeInv /\ op[p] # None /\ op[p].at = "unpause"
      /\ UNCHANGED <<desired, node, run, att, handoffs, gens, launch>>
      BY DEF StageInv, Unpause, At
<1>1. CASE Return(p, FALSE) /\ UNCHANGED wf
      BY <1>0, <1>1, Returns DEF store
<1>2. CASE /\ wf' = [status |-> "RUNNING", gen |-> wf.gen + 1]
           /\ op' = [op EXCEPT ![p].at = "wf", ![p].wf = wf']
           /\ UNCHANGED <<mu, refused>>
  <2>1. PICK v \in Versioned(WorkflowStatus) : v = wf' /\ v.gen = wf.gen + 1 /\ v.gen \in Nat
        BY <1>0, <1>2 DEF TypeInv, TypeOK, Versioned, WorkflowStatus, RunStatus
  <2> DEFINE o == [op[p] EXCEPT !.at = "wf", !.wf = v]
  <2>2. o \in Op /\ o.at = "wf" /\ o.to = op[p].to /\ o.wf = v
        BY <1>0, <2>1, CallFields DEF Op, Steps
  <2>3. op' = [op EXCEPT ![p] = o]
        BY <1>2, <2>1
  <2> HIDE DEF o
  <2>4. Stepped(p) /\ op'[p] = o
        BY <1>0, <2>2, <2>3, SetCall
  <2>5. Locks(p) /\ (p \in Daemon => mu' = p)
        BY <1>0, <1>2, SameLocks DEF TypeInv, CallOK, Locked, Steps
  <2>6. Target(o) /\ Caller(p, o) /\ Knows(o)
        BY <1>0, <2>2, CallFields DEF Target, Caller, Knows
  <2>7. CallOK'
        BY <1>0, <2>4, <2>5, <2>6, CallKept
  <2>8. TypeOK'
        BY <1>0, <2>1, <2>4, <2>5 DEF TypeInv, TypeOK, Stepped, Locks, gens, launch
  <2> QED
      BY <1>0, <2>1, <2>2, <2>4, <2>5, <2>6, <2>7, <2>8, WorkflowWritten DEF launch
<1> QED
    BY <1>1, <1>2 DEF Unpause

(* The status a call is after as one of the workflow's. *)
LEMMA TargetIsStatus ==
    ASSUME TypeInv, NEW p \in Procs, op[p] # None, op[p].at \in {"wf", "readWf"}
    PROVE  WorkflowTarget(p) \in WorkflowStatus
BY CallFields DEF Target, WorkflowTarget, WorkflowStatus, RunStatus, RunTerminal

(* UpdateWorkflow keeps the invariant. *)
LEMMA UpdateWfKeeps ==
    ASSUME StageInv, NEW p \in Procs, UpdateWorkflow(p)
    PROVE  StageInv'
<1>0. /\ TypeInv /\ op[p] # None /\ op[p].at = "wf"
      /\ UNCHANGED <<desired, node, run, att, handoffs, gens, launch>>
      BY DEF StageInv, UpdateWorkflow, At
<1>1. CASE Return(p, FALSE) /\ UNCHANGED wf
      BY <1>0, <1>1, Returns DEF store
<1>2. CASE wf' = [status |-> WorkflowTarget(p), gen |-> wf.gen + 1]
  <2>1. wf' \in Versioned(WorkflowStatus) /\ wf'.gen = wf.gen + 1 /\ wf.gen \in Nat
        BY <1>0, <1>2, TargetIsStatus DEF TypeInv, TypeOK, Versioned
  <2>2. op[p].wf.gen \in Nat /\ op[p].wf.gen <= wf.gen
        BY <1>0, CallFields DEF TypeInv, WfOK
  <2>3. CASE op[p].to = "READY" /\ Goto(p, "list") /\ UNCHANGED <<mu, refused>>
    <3>1. p \in Daemon => mu = p
          BY <1>0 DEF TypeInv, CallOK, Locked, Steps
    <3>2. \A o : (SameLocals(o, op[p]) /\ o.at = "list") => Target(o)
          BY <2>3 DEF SameLocals, Target
    <3>3. "list" \in Steps
          BY DEF Steps
    <3>4. Stepped(p) /\ Continues(p) /\ op'[p].at = "list" /\ SameLocals(op'[p], op[p])
          BY <1>0, <2>3, <3>1, <3>2, <3>3, GotoContinues
    <3>5. Locks(p)
          BY <1>0, <2>3, SameLocks
    <3>6. CallOK'
          BY <1>0, <3>4, <3>5, CallKept DEF Continues
    <3>7. TypeOK'
          BY <1>0, <2>1, <3>4, <3>5 DEF TypeInv, TypeOK, Stepped, Locks, gens, launch
    <3>8. Knows(op'[p])
          BY <3>4 DEF Knows
    <3>9. op'[p].wf.gen <= wf'.gen /\ op'[p].wf.gen # wf'.gen
          BY <2>1, <2>2, <3>4 DEF SameLocals
    <3> QED
        BY <1>0, <2>1, <3>4, <3>5, <3>6, <3>7, <3>8, <3>9, WorkflowWritten DEF launch
  <2>4. CASE Return(p, TRUE)
    <3>1. Stepped(p) /\ Locks(p) /\ op'[p] = None
          BY <1>0, <2>4, ReturnStep
    <3>2. CallOK'
          BY <1>0, <3>1, CallKept
    <3>3. TypeOK'
          BY <1>0, <2>1, <3>1 DEF TypeInv, TypeOK, Stepped, Locks, gens, launch
    <3> QED
        BY <1>0, <2>1, <3>1, <3>2, <3>3, WorkflowWritten DEF launch
  <2> QED
      BY <1>2, <2>3, <2>4, <1>1 DEF UpdateWorkflow
<1> QED
    BY <1>1, <1>2 DEF UpdateWorkflow

(* Steps outside the calls. *)
LEMMA NoCallSteps ==
    ASSUME StageInv, op' = op, mu' = mu, TypeOK', UNCHANGED <<node, att>>, jobs' \subseteq jobs,
           wf' = wf \/ wf'.gen = wf.gen + 1
    PROVE  StageInv'
<1>1. TypeInv
      BY DEF StageInv
<1>2. CallOK'
      BY <1>1 DEF TypeInv, CallOK
<1>3. WfOK'
  <2> SUFFICES ASSUME NEW q \in Procs, op[q] # None
               PROVE  /\ op[q].wf.gen <= wf'.gen
                      /\ op[q].wf.gen = wf'.gen => op[q].wf.status = wf'.status
                      /\ op[q].at = "unpause" => op[q].wf.status = "PAUSE_REQUESTED"
      BY DEF WfOK
  <2>1. op[q].wf.gen \in Nat /\ wf.gen \in Nat /\ op[q].wf.gen <= wf.gen
        BY <1>1, CallFields DEF TypeInv, TypeOK, Versioned, WfOK
  <2> QED
      BY <1>1, <2>1 DEF TypeInv, WfOK
<1>4. \A t : (Claimed(t)' <=> Claimed(t)) /\ (Front(t)' <=> Front(t))
      BY DEF Claimed, Front
<1>5. NodeOK' /\ OrderOK' /\ ClaimOK'
      BY <1>4 DEF StageInv, NodeOK, OrderOK, ClaimOK
<1>6. KnowsOK'
      BY <1>4 DEF StageInv, KnowsOK, Knows
<1> QED
    BY <1>2, <1>3, <1>5, <1>6 DEF StageInv, TypeInv

(* The environment's steps but for a crash keep the invariant. *)
LEMMA OutsideKeeps ==
    ASSUME StageInv,
           \/ RegisterPipelineWorkflow
           \/ \E command \in {"PAUSE", "RESUME"} : RequestControl(command)
           \/ RequestPause
           \/ \E s \in Stages : ContainerExits(s) \/ FenceStage(s)
    PROVE  StageInv'
<1>0. TypeOK
      BY DEF StageInv, TypeInv
<1>1. CASE RegisterPipelineWorkflow
  <2>1. TypeOK'
        BY <1>0, <1>1 DEF RegisterPipelineWorkflow, TypeOK, store, gens
  <2> QED
      BY <1>1, <2>1, NoCallSteps DEF RegisterPipelineWorkflow, store
<1>2. ASSUME NEW command \in {"PAUSE", "RESUME"}, RequestControl(command)
      PROVE  StageInv'
  <2>1. TypeOK'
        BY <1>0, <1>2 DEF RequestControl, TypeOK, gens, launch
  <2> QED
      BY <1>2, <2>1, NoCallSteps DEF RequestControl, launch
<1>3. CASE RequestPause
  <2>1. wf' \in Versioned(WorkflowStatus) /\ wf'.gen = wf.gen + 1
        BY <1>0, <1>3 DEF RequestPause, TypeOK, Versioned, WorkflowStatus, RunStatus
  <2>2. TypeOK'
        BY <1>0, <1>3, <2>1 DEF RequestPause, TypeOK, gens, launch
  <2> QED
      BY <1>3, <2>1, <2>2, NoCallSteps DEF RequestPause, launch
<1>4. ASSUME NEW s \in Stages, ContainerExits(s)
      PROVE  StageInv'
  <2>1. active' \subseteq Stages \X Nat /\ containers' \in [Stages -> Nat]
        BY <1>0, <1>4 DEF ContainerExits, TypeOK
  <2>2. TypeOK'
        BY <1>0, <1>4, <2>1 DEF ContainerExits, TypeOK, store, gens
  <2> QED
      BY <1>4, <2>2, NoCallSteps DEF ContainerExits, store
<1>5. ASSUME NEW s \in Stages, FenceStage(s)
      PROVE  StageInv'
  <2>1. active' \subseteq Stages \X Nat /\ containers' \in [Stages -> Nat]
        BY <1>0, <1>5 DEF FenceStage, TypeOK
  <2>2. TypeOK'
        BY <1>0, <1>5, <2>1 DEF FenceStage, TypeOK, store, gens
  <2> QED
      BY <1>5, <2>2, NoCallSteps DEF FenceStage, store
<1> QED
    BY <1>1, <1>2, <1>3, <1>4, <1>5

(* What the supervisor's pass does to runs and attempts. *)
LEMMA CrashRecords ==
    ASSUME StageInv, Crash
    PROVE  /\ att' \in [Stages -> Versioned(AttemptStatus) \cup {None}] /\ run' \in [Stages -> Versioned(RunStatus)]
           /\ \A s \in Stages :
                /\ att'[s] # None <=> att[s] # None
                /\ (att[s] # None /\ att[s].status \in AttemptTerminal) => att'[s] = att[s]
                /\ \/ run'[s] = run[s]
                   \/ /\ run[s].status \notin RunTerminal
                      /\ run'[s].status = "FAILED" /\ run'[s].gen = run[s].gen + 1
<1>0. /\ att \in [Stages -> Versioned(AttemptStatus) \cup {None}] /\ run \in [Stages -> Versioned(RunStatus)]
      /\ SupervisorReconcile
      BY DEF StageInv, TypeInv, TypeOK, Crash
<1>1. PICK reached \in SUBSET Stages, closed \in SUBSET Stages :
         /\ \A s \in closed : run[s].status \notin RunTerminal
         /\ att' = [s \in Stages |-> IF s \in reached /\ OpenAttempt(s) THEN Failed(att[s]) ELSE att[s]]
         /\ run' = [s \in Stages |-> IF s \in closed THEN Failed(run[s]) ELSE run[s]]
  <2>1. PICK reached \in SUBSET {s \in Stages : run[s].status \notin RunTerminal} :
        \E closed \in SUBSET {s \in reached : att[s] = None \/ att[s].status # "SUCCEEDED"} :
          /\ att' = [s \in Stages |-> IF s \in reached /\ OpenAttempt(s) THEN Failed(att[s]) ELSE att[s]]
          /\ run' = [s \in Stages |-> IF s \in closed THEN Failed(run[s]) ELSE run[s]]
        BY <1>0, Zenon DEF SupervisorReconcile
  <2>2. PICK closed \in SUBSET {s \in reached : att[s] = None \/ att[s].status # "SUCCEEDED"} :
          /\ att' = [s \in Stages |-> IF s \in reached /\ OpenAttempt(s) THEN Failed(att[s]) ELSE att[s]]
          /\ run' = [s \in Stages |-> IF s \in closed THEN Failed(run[s]) ELSE run[s]]
        BY <2>1
  <2>3. reached \in SUBSET Stages /\ closed \in SUBSET Stages /\ \A s \in closed : run[s].status \notin RunTerminal
        BY <2>1, <2>2
  <2> QED
      BY <2>2, <2>3
<1>2. ASSUME NEW s \in Stages
      PROVE  /\ OpenAttempt(s) => Failed(att[s]) \in Versioned(AttemptStatus)
             /\ Failed(run[s]) \in Versioned(RunStatus)
             /\ Failed(run[s]).status = "FAILED" /\ Failed(run[s]).gen = run[s].gen + 1
             /\ OpenAttempt(s) => att[s] # None /\ att[s].status \notin AttemptTerminal
  <2>1. run[s].gen \in Nat /\ (att[s] # None => att[s].gen \in Nat)
        BY <1>0 DEF Versioned
  <2>2. "FAILED" \in AttemptStatus /\ "FAILED" \in RunStatus
        BY DEF AttemptStatus, AttemptTerminal, RunStatus, RunTerminal
  <2> QED
      BY <2>1, <2>2 DEF OpenAttempt, Failed, Versioned
<1>3. \A a \in Versioned(AttemptStatus) : a # None
      BY NoneAssumption
<1>4. ASSUME NEW s \in Stages
      PROVE  /\ att'[s] \in Versioned(AttemptStatus) \cup {None} /\ run'[s] \in Versioned(RunStatus)
             /\ att'[s] # None <=> att[s] # None
             /\ (att[s] # None /\ att[s].status \in AttemptTerminal) => att'[s] = att[s]
             /\ \/ run'[s] = run[s]
                \/ /\ run[s].status \notin RunTerminal
                   /\ run'[s].status = "FAILED" /\ run'[s].gen = run[s].gen + 1
  <2>1. /\ att'[s] = IF s \in reached /\ OpenAttempt(s) THEN Failed(att[s]) ELSE att[s]
        /\ run'[s] = IF s \in closed THEN Failed(run[s]) ELSE run[s]
        BY <1>1
  <2>2. att[s] \in Versioned(AttemptStatus) \cup {None} /\ run[s] \in Versioned(RunStatus)
        BY <1>0
  <2> QED
      BY <1>1, <1>2, <1>3, <2>1, <2>2
<1>5. /\ att' \in [Stages -> Versioned(AttemptStatus) \cup {None}] /\ run' \in [Stages -> Versioned(RunStatus)]
      BY <1>1, <1>4
<1> QED
    BY <1>4, <1>5

(* A crash forgets every call. *)
LEMMA CrashKeeps ==
    ASSUME StageInv, Crash
    PROVE  StageInv'
<1>1. /\ \A p \in Procs : op'[p] = None
      /\ jobs' = {} /\ UNCHANGED node
      BY DEF Crash
<1>a. /\ att' \in [Stages -> Versioned(AttemptStatus) \cup {None}] /\ run' \in [Stages -> Versioned(RunStatus)]
      /\ \A s \in Stages : att'[s] # None => att[s] # None
      BY CrashRecords
<1>2. TypeOK'
      BY <1>a DEF StageInv, TypeInv, TypeOK, Crash
<1>3. CallOK' /\ WfOK' /\ KnowsOK'
      BY <1>1 DEF CallOK, WfOK, KnowsOK
<1>4. NodeOK' /\ OrderOK' /\ ClaimOK'
      BY <1>1, <1>a DEF StageInv, NodeOK, OrderOK, ClaimOK, Claimed
<1> QED
    BY <1>2, <1>3, <1>4 DEF StageInv, TypeInv

-----------------------------------------------------------------------------
(* Steps that write a node. *)

(* A write of one node. *)
Writes(s, st) == node' = [node EXCEPT ![s] = [status |-> st, gen |-> node[s].gen + 1]]

(* What a write of a node leaves. *)
LEMMA NodeWrite ==
    ASSUME StageInv, NEW s \in Stages, NEW st \in NodeStatus, Writes(s, st)
    PROVE  /\ node' \in [Stages -> Versioned(NodeStatus)]
           /\ node'[s].status = st /\ node'[s].gen = node[s].gen + 1
           /\ \A u \in Stages : u # s => node'[u] = node[u]
           /\ NodeOK'
<1>1. node \in [Stages -> Versioned(NodeStatus)] /\ node[s].gen \in Nat
      BY DEF StageInv, TypeInv, TypeOK, Versioned
<1>2. [status |-> st, gen |-> node[s].gen + 1] \in Versioned(NodeStatus)
      BY <1>1 DEF Versioned
<1>3. /\ node' \in [Stages -> Versioned(NodeStatus)]
      /\ node'[s].status = st /\ node'[s].gen = node[s].gen + 1
      /\ \A u \in Stages : u # s => node'[u] = node[u]
      BY <1>1, <1>2 DEF Writes
<1>4. NodeOK'
      BY <1>1, <1>3 DEF StageInv, NodeOK
<1> QED
    BY <1>3, <1>4

(* A write at the front keeps the order. *)
LEMMA WriteAtFront ==
    ASSUME StageInv, NEW s \in Stages, NEW st \in NodeStatus, Writes(s, st), Front(s)
    PROVE  OrderOK'
<1>1. \A u \in Stages : u # s => node'[u] = node[u]
      BY NodeWrite
<1>2. ASSUME NEW a \in Stages, NEW b \in Stages, a < b, node'[a].status \in ActiveNode \cup {"PENDING"}
      PROVE  node'[b].status \in Fresh
  <2>1. a \in Nat /\ b \in Nat /\ s \in Nat
        BY PipelineAssumption DEF Stages
  <2>2. CASE a = s
        BY <1>1, <1>2, <2>1, <2>2 DEF Front
  <2>3. CASE b = s
        BY <1>1, <1>2, <2>1, <2>3 DEF Front
  <2>4. CASE a # s /\ b # s
        BY <1>1, <1>2, <2>4 DEF StageInv, OrderOK
  <2> QED
      BY <2>2, <2>3, <2>4
<1> QED
    BY <1>2 DEF OrderOK

(* What the others know while the holder of the mutex writes a node. *)
LEMMA HolderWrites ==
    ASSUME StageInv, NEW p \in Daemon, mu = p, Stepped(p), TypeInv', NodeOK', OrderOK', att' = att, jobs' = jobs,
           \A u \in Stages : Claimed(u) => Claimed(u)',
           \A o : (o = op'[p] /\ o # None) => Knows(o)'
    PROVE  StageInv'
<1>1. KnowsOK'
  <2> SUFFICES ASSUME NEW q \in Procs, NEW o, o = op'[q], o # None
               PROVE  Knows(o)'
      BY DEF KnowsOK
  <2>1. CASE q = p
        BY <2>1
  <2>2. CASE q # p
    <3>1. o = op[q] /\ Knows(o)
          BY <2>2 DEF Stepped, StageInv, KnowsOK
    <3>2. o.s \in Stages /\ Target(o) /\ Caller(q, o) /\ o.at \in Steps
          BY <3>1, CallFields DEF StageInv
    <3>3. CASE q \in Daemon
      <4>1. o.at \in {"find", "claim", "put", "launch", "ack"}
            BY <2>2, <3>1, <3>2, <3>3 DEF StageInv, TypeInv, CallOK, Locked
      <4>2. Claimed(o.s) => Claimed(o.s)'
            BY <3>2
      <4> QED
          BY <3>1, <4>1, <4>2 DEF Knows
    <3>4. CASE q \in Cancellers
      <4>1. o.to = "CANCELLED"
            BY <3>2, <3>4 DEF Caller
      <4>2. o.at \in {"node", "run", "att", "wf", "list"}
            BY <3>2, <4>1 DEF Target, Steps
      <4> QED
          BY <4>1, <4>2 DEF Knows
    <3> QED
        BY <3>3, <3>4 DEF Procs
  <2> QED
      BY <2>1, <2>2
<1>2. ClaimOK'
  <2>1. \A key \in jobs : key[1] \in Stages
        BY DEF StageInv, TypeInv, TypeOK
  <2> QED
      BY <2>1 DEF StageInv, ClaimOK
<1> QED
    BY <1>1, <1>2 DEF StageInv

(* The types after a write of a node. *)
LEMMA NodeTypes ==
    ASSUME StageInv, NEW p \in Procs, op[p] # None, Stepped(p), Locks(p), Continues(p),
           node' \in [Stages -> Versioned(NodeStatus)], nodeGen' \in [Stages -> Nat],
           UNCHANGED <<wf, desired, run, att, handoffs, runGen, attGen, launch>>
    PROVE  TypeInv'
<1>1. TypeInv
      BY DEF StageInv
<1>2. TypeOK'
      BY <1>1 DEF TypeInv, TypeOK, Stepped, Locks, launch
<1>3. CallOK' /\ WfOK'
      BY <1>1, CallKept, WfSame DEF Continues
<1> QED
    BY <1>2, <1>3 DEF TypeInv

(* ClaimNode launches the stage at the front. *)
LEMMA ClaimNodeKeeps ==
    ASSUME StageInv, NEW p \in Procs, ClaimNode(p)
    PROVE  StageInv'
<1>0. /\ TypeInv /\ op[p] # None /\ op[p].at = "claimNode"
      /\ UNCHANGED <<wf, desired, run, att, handoffs, runGen, attGen, launch>>
      BY DEF StageInv, ClaimNode, At
<1>a. PICK s \in Stages : s = op[p].s
      BY <1>0, CallFields
<1> DEFINE w == Write(node[s], "LAUNCHING", nodeGen[s], IF node[s].status = "READY" THEN 2 ELSE 0)
<1>1. op[p].to = "RUNNING" /\ p \in Daemon /\ mu = p
      BY <1>0, CallFields DEF Target, Caller, Daemon, TypeInv, CallOK, Locked, Steps
<1>2. node[s].status \in {"READY", "CANCELLED"} /\ Front(s) /\ ~Claimed(s)
      BY <1>0, <1>a DEF StageInv, KnowsOK, Knows, Claimed
<1>3. node[s] \in Versioned(NodeStatus) /\ node[s].gen \in Nat /\ nodeGen \in [Stages -> Nat]
      BY <1>0, <1>1 DEF TypeInv, TypeOK, Versioned
<1>4. CASE Return(p, TRUE) /\ UNCHANGED <<node, nodeGen>>
      BY <1>0, <1>4, Returns DEF store, gens
<1>5. CASE /\ node' = [node EXCEPT ![s] = w.rec]
           /\ nodeGen' = [nodeGen EXCEPT ![s] = w.rec.gen]
           /\ op' = [op EXCEPT ![p].at = "attempt", ![p].gen = node[s].gen]
           /\ UNCHANGED <<mu, refused>>
  <2>1. w.rec = [status |-> "LAUNCHING", gen |-> node[s].gen + 1]
        BY <1>3, Written
  <2> HIDE DEF w
  <2>a. [op[p] EXCEPT !.at = "attempt", !.gen = node[s].gen] \in Op
        BY <1>0, <1>3, CallFields DEF Op, Steps
  <2>b. PICK o \in Op : o = [op[p] EXCEPT !.at = "attempt", !.gen = node[s].gen]
        BY <2>a
  <2>2. o.at = "attempt" /\ o.to = op[p].to /\ o.s = s /\ o.wf = op[p].wf
        BY <1>0, <1>a, <2>b, CallFields DEF Op
  <2>3. op' = [op EXCEPT ![p] = o]
        BY <1>5, <2>b
  <2>4. Stepped(p) /\ op'[p] = o
        BY <1>0, <2>2, <2>3, SetCall
  <2>5. Target(o) /\ Caller(p, o)
        BY <1>0, <1>1, <2>2, CallFields DEF Target, Caller
  <2>6. Continues(p) /\ Locks(p)
        BY <1>0, <1>1, <1>5, <2>2, <2>4, <2>5, SameLocks DEF Continues
  <2>7. "LAUNCHING" \in NodeStatus /\ Writes(s, "LAUNCHING") /\ nodeGen' \in [Stages -> Nat]
    <3>1. Writes(s, "LAUNCHING") /\ w.rec.gen \in Nat
          BY <1>3, <1>5, <2>1 DEF Writes
    <3>2. "LAUNCHING" \in NodeStatus
          BY DEF NodeStatus
    <3> QED
        BY <1>3, <1>5, <3>1, <3>2
  <2>8. /\ node' \in [Stages -> Versioned(NodeStatus)] /\ node'[s].status = "LAUNCHING"
        /\ \A u \in Stages : u # s => node'[u] = node[u]
        /\ NodeOK' /\ OrderOK'
        BY <1>1, <1>2, <2>7, NodeWrite, WriteAtFront
  <2>9. TypeInv'
        BY <1>0, <2>4, <2>6, <2>7, <2>8, NodeTypes
  <2>10. Claimed(s)' /\ \A u \in Stages : Claimed(u) => Claimed(u)'
        BY <2>8 DEF Claimed
  <2>11. att[s] = None
        BY <1>1, <1>2 DEF StageInv, ClaimOK
  <2>12. Knows(o)'
        BY <1>0, <2>2, <2>10, <2>11 DEF Knows
  <2> QED
      BY <1>0, <1>1, <2>4, <2>8, <2>9, <2>10, <2>12, HolderWrites DEF launch
<1> HIDE DEF w
<1>6. \/ Return(p, TRUE) /\ UNCHANGED <<node, nodeGen>>
      \/ /\ node' = [node EXCEPT ![s] = w.rec]
         /\ nodeGen' = [nodeGen EXCEPT ![s] = w.rec.gen]
         /\ op' = [op EXCEPT ![p].at = "attempt", ![p].gen = node[s].gen]
         /\ UNCHANGED <<mu, refused>>
      BY <1>a, Zenon DEF ClaimNode, w
<1> QED
    BY <1>4, <1>5, <1>6

(* A node becomes READY and the call returns. *)
LEMMA ReadyKeeps ==
    ASSUME StageInv, NEW p \in Procs, op[p] # None, p \in Daemon, mu = p, NEW t \in Stages, Front(t),
           NEW ok \in BOOLEAN,
           node[t].status \in Fresh, node' = node \/ Writes(t, "READY"), Return(p, ok), nodeGen' \in [Stages -> Nat],
           UNCHANGED <<wf, desired, run, att, handoffs, runGen, attGen, launch>>
    PROVE  StageInv'
<1>0. TypeInv
      BY DEF StageInv
<1>1. Stepped(p) /\ Locks(p) /\ op'[p] = None
      BY <1>0, ReturnStep
<1>2. Continues(p)
      BY <1>1 DEF Continues
<1>3. "READY" \in NodeStatus
      BY DEF NodeStatus
<1>4. /\ node' \in [Stages -> Versioned(NodeStatus)]
      /\ \A u \in Stages : u # t => node'[u] = node[u]
      /\ NodeOK' /\ OrderOK'
  <2>1. CASE node' = node
        BY <2>1 DEF StageInv, TypeInv, TypeOK, NodeOK, OrderOK
  <2>2. CASE Writes(t, "READY")
        BY <1>3, <2>2, NodeWrite, WriteAtFront
  <2> QED
      BY <2>1, <2>2
<1>5. TypeInv'
      BY <1>1, <1>2, <1>4, NodeTypes
<1>6. \A u \in Stages : Claimed(u) => Claimed(u)'
      BY <1>4 DEF Claimed, Fresh
<1> QED
    BY <1>1, <1>4, <1>5, <1>6, HolderWrites DEF launch

(* ReadyNext readies the stage at the front. *)
LEMMA ReadyNextKeeps ==
    ASSUME StageInv, NEW p \in Procs, ReadyNext(p)
    PROVE  StageInv'
<1> DEFINE t == op[p].s + 1
           w == Write(node[t], "READY", nodeGen[t], 0)
<1>0. /\ TypeInv /\ op[p] # None /\ op[p].at = "next"
      /\ UNCHANGED <<wf, desired, run, att, handoffs, runGen, attGen, launch>>
      BY DEF StageInv, ReadyNext, At
<1>1. op[p].to = "SUCCEEDED" /\ op[p].s \in Stages /\ op[p].s < StageCount
      BY <1>0, CallFields DEF Target
<1>2. p \in Daemon /\ mu = p
      BY <1>0, <1>1, CallFields DEF Caller, Daemon, TypeInv, CallOK, Locked, Steps
<1>3. t \in Stages /\ op[p].s \in Nat /\ \A u \in Stages : u \in Nat
      BY <1>1, PipelineAssumption DEF Stages
<1>4. node[op[p].s].status = "SUCCEEDED" /\ Front(op[p].s)
      BY <1>0, <1>1 DEF StageInv, KnowsOK, Knows
<1>5. Front(t) /\ node[t].status \in Fresh
      BY <1>3, <1>4 DEF Front, ActiveNode, Fresh
<1>6. node[t] \in Versioned(NodeStatus) /\ nodeGen \in [Stages -> Nat]
      BY <1>0, <1>3 DEF TypeInv, TypeOK
<1>7. w.rec = [status |-> "READY", gen |-> node[t].gen + 1]
      BY <1>6, Written
<1>8. /\ node' = node \/ Writes(t, "READY")
      /\ Return(p, TRUE)
      BY <1>7 DEF ReadyNext, Writes
<1>9. nodeGen' \in [Stages -> Nat]
      BY <1>3, <1>6 DEF ReadyNext
<1> QED
    BY <1>0, <1>2, <1>3, <1>5, <1>8, <1>9, ReadyKeeps

(* ReadyFirst readies the stage at the front. *)
LEMMA ReadyFirstKeeps ==
    ASSUME StageInv, NEW p \in Procs, ReadyFirst(p)
    PROVE  StageInv'
<1> DEFINE s == op[p].s
           w == Write(node[s], "READY", nodeGen[s], 2)
<1>0. /\ TypeInv /\ op[p] # None /\ op[p].at = "readyFirst"
      /\ UNCHANGED <<wf, desired, run, att, handoffs, runGen, attGen, launch>>
      BY DEF StageInv, ReadyFirst, At
<1>1. op[p].to = "READY" /\ s \in Stages
      BY <1>0, CallFields DEF Target
<1>2. p \in Daemon /\ mu = p
      BY <1>0, <1>1, CallFields DEF Caller, Daemon, TypeInv, CallOK, Locked, Steps
<1>3. node[s].status \in Fresh /\ Front(s)
      BY <1>0 DEF StageInv, KnowsOK, Knows
<1>4. node[s] \in Versioned(NodeStatus) /\ nodeGen \in [Stages -> Nat] /\ node[s].gen \in Nat
      BY <1>0, <1>1 DEF TypeInv, TypeOK, Versioned
<1>a. w.rec = [status |-> "READY", gen |-> node[s].gen + 1]
      BY <1>4, Written
<1>b. w.ok \in BOOLEAN
      BY DEF Write
<1>5. w.rec = [status |-> "READY", gen |-> node[s].gen + 1] /\ w.ok \in BOOLEAN
      BY <1>a, <1>b
<1>6. /\ node' = node \/ Writes(s, "READY")
      /\ Return(p, w.ok)
      BY <1>5 DEF ReadyFirst, Writes
<1>7. nodeGen' \in [Stages -> Nat]
  <2>1. nodeGen' = nodeGen \/ nodeGen' = [nodeGen EXCEPT ![s] = w.rec.gen]
        BY Zenon DEF ReadyFirst
  <2>2. w.rec.gen = node[s].gen + 1
        BY <1>5
  <2> HIDE DEF w
  <2> QED
      BY <1>1, <1>4, <2>1, <2>2
<1> HIDE DEF w
<1> QED
    BY <1>0, <1>1, <1>2, <1>3, <1>5, <1>6, <1>7, ReadyKeeps

(* What UpdateNode does. *)
LEMMA NodeEffect ==
    ASSUME StageInv, NEW p \in Procs, UpdateNode(p)
    PROVE  /\ op[p] # None /\ op[p].at = "node" /\ op[p].s \in Stages
           /\ UNCHANGED <<wf, desired, run, att, handoffs, runGen, attGen, launch>>
           /\ \/ op[p].to = "CANCELLED" /\ AfterStage(p) /\ UNCHANGED <<node, nodeGen>>
              \/ /\ Writes(op[p].s, op[p].to)
                 /\ nodeGen' = Tracked(p, nodeGen, op[p].s, [status |-> op[p].to, gen |-> node[op[p].s].gen + 1])
                 /\ Goto(p, "run") /\ UNCHANGED <<mu, refused>>
                 /\ p \in Cancellers => node[op[p].s].gen = 1
                 /\ op[p].to = "CANCELLED" => op[p].nodes[op[p].s] \in Cancellable
              \/ Return(p, FALSE) /\ UNCHANGED <<node, nodeGen>>
<1> DEFINE s == op[p].s
           to == op[p].to
           retries == IF to = "RUNNING" THEN 2 ELSE 0
           w == Write(node[s], to, Expected(p, nodeGen, s), retries)
           skip == to = "CANCELLED" /\ op[p].nodes[s] \notin Cancellable
<1>0. /\ TypeInv /\ op[p] # None /\ op[p].at = "node"
      /\ UNCHANGED <<wf, desired, run, att, handoffs, runGen, attGen, launch>>
      BY DEF StageInv, UpdateNode, At
<1>1. s \in Stages
      BY <1>0, CallFields
<1>2. node[s] \in Versioned(NodeStatus) /\ node[s].gen \in Nat
      BY <1>0, <1>1 DEF TypeInv, TypeOK, Versioned
<1>3. w.rec = [status |-> to, gen |-> node[s].gen + 1] /\ w.ok = (node[s].gen \in Expected(p, nodeGen, s)..(Expected(p, nodeGen, s) + retries))
      BY <1>2, Written
<1>4. ASSUME w.ok, p \in Cancellers
      PROVE  node[s].gen = 1
  <2>1. to = "CANCELLED"
        BY <1>0, <1>4, CallFields DEF Caller
  <2>2. Expected(p, nodeGen, s) = 1 /\ retries = 0
        BY <1>4, <2>1 DEF Expected
  <2> HIDE DEF w, retries
  <2>3. node[s].gen \in Expected(p, nodeGen, s)..(Expected(p, nodeGen, s) + retries)
        BY <1>3, <1>4, Zenon
  <2> QED
      BY <1>2, <2>2, <2>3
<1>5. \/ skip /\ AfterStage(p) /\ UNCHANGED <<node, nodeGen>>
      \/ /\ ~skip /\ w.ok
         /\ node' = [node EXCEPT ![s] = w.rec]
         /\ nodeGen' = Tracked(p, nodeGen, s, w.rec)
         /\ Goto(p, "run")
         /\ UNCHANGED <<mu, refused>>
      \/ Return(p, FALSE) /\ UNCHANGED <<node, nodeGen>>
      BY Zenon DEF UpdateNode
<1> HIDE DEF w, skip, retries
<1>6. ASSUME skip, AfterStage(p), UNCHANGED <<node, nodeGen>>
      PROVE  op[p].to = "CANCELLED" /\ AfterStage(p) /\ UNCHANGED <<node, nodeGen>>
      BY <1>6 DEF skip
<1>7. ASSUME ~skip, w.ok, node' = [node EXCEPT ![s] = w.rec], nodeGen' = Tracked(p, nodeGen, s, w.rec)
      PROVE  /\ Writes(op[p].s, op[p].to)
             /\ nodeGen' = Tracked(p, nodeGen, op[p].s, [status |-> op[p].to, gen |-> node[op[p].s].gen + 1])
             /\ p \in Cancellers => node[op[p].s].gen = 1
             /\ op[p].to = "CANCELLED" => op[p].nodes[op[p].s] \in Cancellable
  <2>1. Writes(op[p].s, op[p].to)
        BY <1>3, <1>7, Zenon DEF Writes
  <2>2. nodeGen' = Tracked(p, nodeGen, op[p].s, [status |-> op[p].to, gen |-> node[op[p].s].gen + 1])
        BY <1>3, <1>7, Zenon
  <2>3. p \in Cancellers => node[op[p].s].gen = 1
        BY <1>4, <1>7
  <2>4. op[p].to = "CANCELLED" => op[p].nodes[op[p].s] \in Cancellable
        BY <1>7 DEF skip
  <2> QED
      BY <2>1, <2>2, <2>3, <2>4
<1> QED
    BY <1>0, <1>1, <1>5, <1>6, <1>7, Zenon

(* A cancel writes a node that nobody began. *)
LEMMA CancelsNode ==
    ASSUME StageInv, NEW p \in Cancellers, Stepped(p), TypeInv', NEW s \in Stages, Writes(s, "CANCELLED"),
           node[s].gen = 1, att' = att, jobs' = jobs,
           op'[p] # None => op'[p].to = "CANCELLED"
    PROVE  StageInv'
<1>0. "CANCELLED" \in NodeStatus /\ node[s].status \in {"PENDING", "READY"}
      BY DEF StageInv, NodeOK, NodeStatus, NodeTerminal
<1>1. /\ node'[s].status = "CANCELLED"
      /\ \A u \in Stages : u # s => node'[u] = node[u]
      /\ NodeOK'
      BY <1>0, NodeWrite
<1>2. OrderOK'
      BY <1>0, <1>1 DEF StageInv, OrderOK, Fresh, ActiveNode
<1>3. \A u \in Stages : /\ Claimed(u)' <=> Claimed(u)
                        /\ node[u].status \notin {"PENDING", "READY"} => node'[u].status = node[u].status
                        /\ node[u].status \in Fresh => node'[u].status \in Fresh
                        /\ node[u].status \in {"READY", "CANCELLED"} => node'[u].status \in {"READY", "CANCELLED"}
                        /\ node'[u].status \in ActiveNode \cup {"PENDING"} => node[u].status \in ActiveNode \cup {"PENDING"}
      BY <1>0, <1>1 DEF Claimed, Fresh, ActiveNode
<1>4. \A u \in Stages : Front(u) => Front(u)'
      BY <1>3 DEF Front
<1>5. ClaimOK'
  <2>1. \A key \in jobs : key[1] \in Stages
        BY DEF StageInv, TypeInv, TypeOK
  <2> QED
      BY <1>3, <2>1 DEF StageInv, ClaimOK
<1>6. KnowsOK'
  <2> SUFFICES ASSUME NEW q \in Procs, NEW o, o = op'[q], o # None
               PROVE  Knows(o)'
      BY DEF KnowsOK
  <2>0. o.s \in Stages /\ Target(o) /\ o.at \in Steps
        BY DEF TypeInv, TypeOK, CallOK, Op
  <2>1. CASE q = p
    <3>1. o.to = "CANCELLED" /\ o.at \in {"node", "run", "att", "wf", "list"}
          BY <2>0, <2>1 DEF Target, Steps
    <3> QED
        BY <3>1 DEF Knows
  <2>2. CASE q # p
    <3>1. Knows(o)
          BY <2>2 DEF Stepped, StageInv, KnowsOK
    <3>2. /\ Claimed(o.s) => Claimed(o.s)'
          /\ Front(o.s) => Front(o.s)'
          /\ node[o.s].status \notin {"PENDING", "READY"} => node'[o.s].status = node[o.s].status
          /\ node[o.s].status \in Fresh => node'[o.s].status \in Fresh
          /\ node[o.s].status \in {"READY", "CANCELLED"} => node'[o.s].status \in {"READY", "CANCELLED"}
          BY <1>3, <1>4, <2>0
    <3>3. /\ o.at \in {"find", "attempt", "put", "launch"} => Claimed(o.s)'
          /\ o.at = "claimNode" => node'[o.s].status \in {"READY", "CANCELLED"} /\ Front(o.s)'
          /\ o.at = "attempt" => att'[o.s] = None
          /\ o.at = "readyFirst" => node'[o.s].status \in Fresh /\ Front(o.s)'
          BY <3>1, <3>2 DEF Knows
    <3>4. o.at = "node" => /\ o.to = "RUNNING" => node'[o.s].status = "LAUNCHING"
                           /\ o.to = "SUCCEEDED" => node'[o.s].status = "RUNNING" /\ Front(o.s)'
                           /\ o.to = "FAILED" => Claimed(o.s)' /\ node'[o.s].status \notin NodeTerminal
          BY <3>1, <3>2 DEF Knows, Claimed
    <3>5. (o.at \in {"run", "att", "handoff", "pause?", "next"} /\ o.to = "SUCCEEDED") =>
             node'[o.s].status = "SUCCEEDED" /\ Front(o.s)'
          BY <3>1, <3>2 DEF Knows
    <3> QED
        BY <3>3, <3>4, <3>5 DEF Knows
  <2> QED
      BY <2>1, <2>2
<1> QED
    BY <1>1, <1>2, <1>5, <1>6 DEF StageInv

(* UpdateNode keeps the invariant. *)
LEMMA NodeKeeps ==
    ASSUME StageInv, NEW p \in Procs, UpdateNode(p)
    PROVE  StageInv'
<1>0. /\ TypeInv /\ op[p] # None /\ op[p].at = "node"
      /\ UNCHANGED <<wf, desired, run, att, handoffs, runGen, attGen, launch>>
      BY NodeEffect DEF StageInv
<1>a. PICK s \in Stages : s = op[p].s
      BY NodeEffect
<1>b. PICK to : to = op[p].to
      OBVIOUS
<1>1. to \in {"RUNNING", "SUCCEEDED", "FAILED", "CANCELLED"} /\ to \in NodeStatus /\ (p \in Daemon => mu = p)
      BY <1>0, <1>b, AtRecord
<1>2. CASE to = "CANCELLED" /\ AfterStage(p) /\ UNCHANGED <<node, nodeGen>>
  <2>1. Stepped(p) /\ Locks(p) /\ Continues(p) /\ (op'[p] # None => Knows(op'[p]))
        BY <1>0, <1>b, <1>2, AfterStep, AfterKnows
  <2>2. TypeOK'
        BY <1>0, <1>2, <2>1 DEF TypeInv, TypeOK, Stepped, Locks, launch
  <2> QED
      BY <1>0, <1>2, <2>1, <2>2, Records DEF launch
<1>3. CASE Return(p, FALSE) /\ UNCHANGED <<node, nodeGen>>
      BY <1>0, <1>3, Returns DEF store, gens
<1>4. CASE /\ Writes(s, to)
           /\ nodeGen' = Tracked(p, nodeGen, s, [status |-> to, gen |-> node[s].gen + 1])
           /\ Goto(p, "run") /\ UNCHANGED <<mu, refused>>
           /\ p \in Cancellers => node[s].gen = 1
  <2>1. \A o : (SameLocals(o, op[p]) /\ o.at = "run") => Target(o)
        BY <1>1, <1>b DEF SameLocals, Target
  <2>2. "run" \in Steps
        BY DEF Steps
  <2>3. Stepped(p) /\ Continues(p) /\ op'[p].at = "run" /\ SameLocals(op'[p], op[p]) /\ Locks(p)
        BY <1>0, <1>1, <1>4, <2>1, <2>2, GotoContinues, SameLocks
  <2>4. /\ node' \in [Stages -> Versioned(NodeStatus)]
        /\ node'[s].status = to
        /\ \A u \in Stages : u # s => node'[u] = node[u]
        /\ NodeOK'
        BY <1>1, <1>4, NodeWrite
  <2>5. nodeGen' \in [Stages -> Nat]
    <3>1. node[s].gen \in Nat /\ nodeGen \in [Stages -> Nat]
          BY <1>0 DEF TypeInv, TypeOK, Versioned
    <3>2. PICK rec : rec = [status |-> to, gen |-> node[s].gen + 1]
          OBVIOUS
    <3>3. rec.gen \in Nat
          BY <3>1, <3>2
    <3> QED
        BY <1>4, <3>1, <3>2, <3>3, TrackedType
  <2>6. TypeInv'
        BY <1>0, <2>3, <2>4, <2>5, NodeTypes
  <2>7. CASE p \in Cancellers
    <3>1. to = "CANCELLED"
          BY <1>0, <1>b, <2>7, CallFields DEF Caller
    <3> QED
        BY <1>0, <1>b, <1>4, <2>3, <2>6, <2>7, <3>1, CancelsNode DEF SameLocals, launch
  <2>8. CASE p \in Daemon
    <3>0. to # "CANCELLED" /\ mu = p
          BY <1>0, <1>1, <1>b, <2>8, PipelineAssumption, CallFields DEF Caller
    <3>1. Knows(op[p])
          BY <1>0 DEF StageInv, KnowsOK
    <3>2. Claimed(s) /\ (to = "SUCCEEDED" => Front(s))
          BY <1>0, <1>a, <1>b, <1>1, <3>0, <3>1 DEF Knows, Claimed
    <3>3. OrderOK'
      <4>1. CASE to = "FAILED"
            BY <2>4, <3>2, <4>1 DEF StageInv, OrderOK, Claimed, Fresh, ActiveNode
      <4>2. CASE to = "RUNNING"
        <5>1. node[s].status = "LAUNCHING"
              BY <1>0, <1>a, <1>b, <3>1, <4>2 DEF Knows
        <5>2. Front(s)
              BY <5>1 DEF StageInv, OrderOK, Front, ActiveNode, Fresh
        <5> QED
            BY <1>1, <1>4, <5>2, WriteAtFront
      <4>3. CASE to = "SUCCEEDED"
            BY <1>1, <1>4, <3>2, <4>3, WriteAtFront
      <4> QED
          BY <1>1, <3>0, <4>1, <4>2, <4>3
    <3>4. \A u \in Stages : Claimed(u) => Claimed(u)'
          BY <1>1, <2>4, <3>0 DEF Claimed
    <3>5. Front(s) => Front(s)'
          BY <2>4, PipelineAssumption DEF Front, Stages
    <3>6. ASSUME NEW o, o = op'[p]
          PROVE  Knows(o)'
      <4>1. o.at = "run" /\ o.s = s /\ o.to = to
            BY <1>a, <1>b, <2>3, <3>6 DEF SameLocals
      <4> QED
          BY <2>4, <3>2, <3>5, <4>1 DEF Knows
    <3> QED
        BY <1>0, <2>3, <2>4, <2>6, <2>8, <3>0, <3>3, <3>4, <3>6, HolderWrites DEF launch
  <2> QED
      BY <2>7, <2>8 DEF Procs
<1> QED
    BY <1>2, <1>3, <1>4, <1>a, <1>b, NodeEffect

-----------------------------------------------------------------------------
(* The invariant and what follows. *)

(* A seeded workflow satisfies the invariant. *)
LEMMA StageInitially == Init => StageInv
<1> SUFFICES ASSUME Init
             PROVE  StageInv
    OBVIOUS
<1> USE PipelineAssumption
<1>1. TypeOK
  <2>1. wf \in Versioned(WorkflowStatus)
        BY DEF Init, Versioned, WorkflowStatus, RunStatus
  <2>2. node \in [Stages -> Versioned(NodeStatus)] /\ run \in [Stages -> Versioned(RunStatus)]
        BY DEF Init, Versioned, NodeStatus, RunStatus
  <2> QED
      BY <2>1, <2>2 DEF Init, TypeOK
<1>2. CallOK /\ WfOK /\ KnowsOK
      BY DEF Init, CallOK, WfOK, KnowsOK
<1>3. NodeOK /\ ClaimOK
      BY DEF Init, NodeOK, ClaimOK
<1>4. OrderOK
      BY DEF Init, OrderOK, Stages, Fresh, ActiveNode
<1> QED
    BY <1>1, <1>2, <1>3, <1>4 DEF StageInv, TypeInv

(* Every step keeps the invariant. *)
LEMMA StageStep == StageInv /\ [Next]_vars => StageInv'
<1> SUFFICES ASSUME StageInv, [Next]_vars
             PROVE  StageInv'
    OBVIOUS
<1>1. ASSUME NEW p \in Procs, Step(p)
      PROVE  StageInv'
      BY <1>1, FindKeeps, ClaimKeeps, ClaimNodeKeeps, CreateKeeps, PutKeeps, LaunchKeeps, AckKeeps,
         NodeKeeps, RunKeeps, AttemptKeeps, HandoffKeeps, PauseKeeps, ReadyNextKeeps, ReadWfKeeps,
         UnpauseKeeps, UpdateWfKeeps, ListKeeps, ReadyFirstKeeps DEF Step
<1>2. ASSUME NEW p \in Procs, LaunchFails(p) \/ RejectHandoff(p) \/ WriteFails(p)
      PROVE  StageInv'
      BY <1>2, ErrorKeeps
<1>3. ASSUME NEW p \in Workers, NEW s \in Stages, CommitStageSuccess(p, s) \/ CommitStageFailure(p, s)
      PROVE  StageInv'
      BY <1>3, SuccessKeeps, FailureKeeps
<1>4. CASE UNCHANGED vars
  <2>1. TypeOK'
        BY <1>4 DEF StageInv, TypeInv, TypeOK, vars, store, gens, launch
  <2> QED
      BY <1>4, <2>1, NoCallSteps DEF vars, store, launch
<1> QED
    BY <1>1, <1>2, <1>3, <1>4, ReconcileKeeps, ResumeKeeps, CancelKeeps, CrashKeeps, OutsideKeeps DEF Next

(* The inductive invariant: which call holds the mutex, what it knows about *)
(* its stage, and that nothing was begun behind a stage that is under way,  *)
(* for any number of stages, callers and cancels and all events.            *)
THEOREM StagesHold == Spec => []StageInv
BY StageInitially, StageStep, PTL DEF Spec

(* Every record, map and local of the Controller and the Reconciler keeps   *)
(* its type: in particular no call runs over the last stage.                *)
THEOREM TypeCorrect == Spec => []TypeOK
<1>1. StageInv => TypeOK
      BY DEF StageInv, TypeInv
<1> QED
    BY StagesHold, <1>1, PTL

-----------------------------------------------------------------------------
(* Launch keys. *)

(* The steps between the claim of a node and its container. *)
Launching == {"attempt", "put", "launch"}

(* A step that takes no call to one of them. *)
Elsewhere == \A q \in Procs : op'[q] = None \/ op'[q] = op[q] \/ op'[q].at \notin Launching

(* A call that changes its step and one other local. *)
LEMMA Moved ==
    ASSUME TypeInv, NEW p \in Procs, op[p] # None, NEW x, NEW v,
           \/ op' = [op EXCEPT ![p].at = x, ![p].s = v]
           \/ op' = [op EXCEPT ![p].at = x, ![p].gen = v]
           \/ op' = [op EXCEPT ![p].at = x, ![p].wf = v]
           \/ op' = [op EXCEPT ![p].at = x, ![p].nodes = v]
    PROVE  op'[p].at = x /\ op'[p].to = op[p].to /\ \A q \in Procs : q # p => op'[q] = op[q]
<1>1. op \in [Procs -> Op \cup {None}] /\ op[p] \in Op
      BY DEF TypeInv, TypeOK
<1>2. ASSUME NEW o, op' = [op EXCEPT ![p] = o], o.at = x, o.to = op[p].to
      PROVE  op'[p].at = x /\ op'[p].to = op[p].to /\ \A q \in Procs : q # p => op'[q] = op[q]
      BY <1>1, <1>2
<1>3. CASE op' = [op EXCEPT ![p].at = x, ![p].s = v]
      BY <1>1, <1>2, <1>3 DEF Op
<1>4. CASE op' = [op EXCEPT ![p].at = x, ![p].gen = v]
      BY <1>1, <1>2, <1>4 DEF Op
<1>5. CASE op' = [op EXCEPT ![p].at = x, ![p].wf = v]
      BY <1>1, <1>2, <1>5 DEF Op
<1>6. CASE op' = [op EXCEPT ![p].at = x, ![p].nodes = v]
      BY <1>1, <1>2, <1>6 DEF Op
<1> QED
    BY <1>3, <1>4, <1>5, <1>6

(* A call that begins, goes on elsewhere or returns. *)
LEMMA GoesElsewhere ==
    ASSUME TypeInv, NEW p \in Procs
    PROVE  /\ \A ok \in BOOLEAN : Return(p, ok) => Elsewhere
           /\ \A x \in Steps \ Launching : (op[p] # None /\ Goto(p, x)) => Elsewhere
           /\ \A x \in Steps \ Launching, to \in NodeStatus, s \in Stages : Call(p, x, to, s) => Elsewhere
           /\ op[p] # None => \A x, v : /\ x \notin Launching
                                        /\ \/ op' = [op EXCEPT ![p].at = x, ![p].s = v]
                                           \/ op' = [op EXCEPT ![p].at = x, ![p].gen = v]
                                           \/ op' = [op EXCEPT ![p].at = x, ![p].wf = v]
                                           \/ op' = [op EXCEPT ![p].at = x, ![p].nodes = v]
                                        => Elsewhere
           /\ (op[p] # None /\ op[p].at \in {"node", "run", "att"} /\ AfterStage(p)) => Elsewhere
<1>1. ASSUME NEW ok \in BOOLEAN, Return(p, ok)
      PROVE  Elsewhere
      BY <1>1, ReturnStep DEF Elsewhere, Stepped
<1>2. ASSUME NEW x \in Steps \ Launching, op[p] # None, Goto(p, x)
      PROVE  Elsewhere
      BY <1>2, GotoStep DEF Elsewhere, Stepped
<1>3. ASSUME NEW x \in Steps \ Launching, NEW to \in NodeStatus, NEW s \in Stages, Call(p, x, to, s)
      PROVE  Elsewhere
      BY <1>3, CallStep DEF Elsewhere, Stepped
<1>4. ASSUME op[p] # None, NEW x, NEW v, x \notin Launching,
             \/ op' = [op EXCEPT ![p].at = x, ![p].s = v]
             \/ op' = [op EXCEPT ![p].at = x, ![p].gen = v]
             \/ op' = [op EXCEPT ![p].at = x, ![p].wf = v]
             \/ op' = [op EXCEPT ![p].at = x, ![p].nodes = v]
      PROVE  Elsewhere
      BY <1>4, Moved DEF Elsewhere
<1>5. ASSUME op[p] # None, op[p].at \in {"node", "run", "att"}, AfterStage(p)
      PROVE  Elsewhere
  <2>1. Stepped(p) /\ (op'[p] # None => op'[p].at \in {"handoff", "readWf", "wf", "node"})
        BY <1>5, AfterStep
  <2> QED
      BY <2>1 DEF Elsewhere, Stepped, Launching
<1> QED
    BY <1>1, <1>2, <1>3, <1>4, <1>5

(* ... keeps the keys when no key is added. *)
LEMMA KeysSame ==
    ASSUME KeysOK, Elsewhere, jobs' = jobs, active' \subseteq active
    PROVE  KeysOK'
BY DEF KeysOK, Elsewhere, Launching

(* Steps of calls that are not about a launch. *)
LEMMA StepsElsewhere ==
    ASSUME StageInv, NEW p \in Procs,
           \/ ClaimNextReady(p) \/ AcknowledgeRunning(p) \/ UpdateNode(p) \/ UpdateRun(p) \/ UpdateAttempt(p)
           \/ CommitHandoff(p) \/ CheckPause(p) \/ ReadyNext(p) \/ ReadWorkflow(p) \/ Unpause(p)
           \/ UpdateWorkflow(p) \/ ListNodes(p) \/ ReadyFirst(p)
           \/ LaunchFails(p) \/ RejectHandoff(p) \/ WriteFails(p)
    PROVE  Elsewhere /\ UNCHANGED launch
<1>0. TypeInv
      BY DEF StageInv
<1>a. \A x \in {"claimNode", "node", "run", "att", "handoff", "pause?", "next", "readWf", "unpause", "wf", "list",
                "readyFirst"} : x \in Steps \ Launching
      BY DEF Steps, Launching
<1>1. CASE ClaimNextReady(p)
      BY <1>0, <1>a, <1>1, GoesElsewhere DEF ClaimNextReady, At
<1>2. CASE AcknowledgeRunning(p)
      BY <1>0, <1>a, <1>2, GoesElsewhere DEF AcknowledgeRunning, At
<1>3. CASE UpdateNode(p)
  <2>1. /\ op[p] # None /\ op[p].at = "node" /\ UNCHANGED launch
        /\ AfterStage(p) \/ Goto(p, "run") \/ Return(p, FALSE)
        BY <1>3, NodeEffect
  <2> QED
      BY <1>0, <1>a, <2>1, GoesElsewhere
<1>4. CASE UpdateRun(p)
  <2>1. /\ op[p] # None /\ op[p].at = "run" /\ UNCHANGED launch
        BY <1>4 DEF UpdateRun, At
  <2>2. AfterStage(p) \/ Goto(p, "att") \/ Return(p, FALSE)
        BY <1>4, Zenon DEF UpdateRun
  <2> QED
      BY <1>0, <1>a, <2>1, <2>2, GoesElsewhere
<1>5. CASE UpdateAttempt(p)
  <2>1. /\ op[p] # None /\ op[p].at = "att" /\ UNCHANGED launch
        BY <1>5 DEF UpdateAttempt, At
  <2>2. AfterStage(p) \/ Return(p, FALSE)
        BY <1>5, Zenon DEF UpdateAttempt
  <2> QED
      BY <1>0, <1>a, <2>1, <2>2, GoesElsewhere
<1>6. CASE CommitHandoff(p)
      BY <1>0, <1>a, <1>6, GoesElsewhere DEF CommitHandoff, At
<1>7. CASE CheckPause(p)
  <2>1. PICK x \in {"readWf", "next"} : Goto(p, x)
        BY <1>7 DEF CheckPause
  <2>2. op[p] # None /\ UNCHANGED launch
        BY <1>7 DEF CheckPause, At
  <2> QED
      BY <1>0, <1>a, <2>1, <2>2, GoesElsewhere
<1>8. CASE ReadyNext(p)
      BY <1>0, <1>8, GoesElsewhere DEF ReadyNext
<1>9. CASE ReadWorkflow(p)
  <2>1. op[p] # None /\ UNCHANGED launch
        BY <1>9 DEF ReadWorkflow, At
  <2>2. \/ Return(p, TRUE) \/ Return(p, FALSE)
        \/ op' = [op EXCEPT ![p].at = "unpause", ![p].wf = wf]
        \/ op' = [op EXCEPT ![p].at = "wf", ![p].wf = wf]
        BY <1>9 DEF ReadWorkflow
  <2> QED
      BY <1>0, <1>a, <2>1, <2>2, GoesElsewhere
<1>10. CASE Unpause(p)
  <2>1. op[p] # None /\ UNCHANGED launch
        BY <1>10 DEF Unpause, At
  <2>2. \/ Return(p, FALSE)
        \/ op' = [op EXCEPT ![p].at = "wf", ![p].wf = wf']
        BY <1>10 DEF Unpause
  <2> QED
      BY <1>0, <1>a, <2>1, <2>2, GoesElsewhere
<1>11. CASE UpdateWorkflow(p)
      BY <1>0, <1>a, <1>11, GoesElsewhere DEF UpdateWorkflow, At
<1>12. CASE ListNodes(p)
  <2>1. op[p] # None /\ UNCHANGED launch
        BY <1>12 DEF ListNodes, At
  <2>2. \/ Return(p, TRUE)
        \/ op' = [op EXCEPT ![p].at = "node", ![p].nodes = NodeStatuses]
        \/ \E v : op' = [op EXCEPT ![p].at = "readyFirst", ![p].s = v]
        BY <1>12 DEF ListNodes
  <2> QED
      BY <1>0, <1>a, <2>1, <2>2, GoesElsewhere
<1>13. CASE ReadyFirst(p)
  <2> DEFINE w == Write(node[op[p].s], "READY", nodeGen[op[p].s], 2)
  <2>1. w.ok \in BOOLEAN
        BY DEF Write
  <2>2. Return(p, w.ok) /\ UNCHANGED launch
        BY <1>13, Zenon DEF ReadyFirst
  <2> HIDE DEF w
  <2> QED
      BY <1>0, <2>1, <2>2, GoesElsewhere
<1>14. CASE LaunchFails(p) \/ RejectHandoff(p) \/ WriteFails(p)
      BY <1>0, <1>14, GoesElsewhere DEF LaunchFails, RejectHandoff, WriteFails
<1> QED
    BY <1>1, <1>2, <1>3, <1>4, <1>5, <1>6, <1>7, <1>8, <1>9, <1>10, <1>11, <1>12, <1>13, <1>14

(* The calls of the only reconciler are the only ones about a launch. *)
LEMMA OneLaunch ==
    ASSUME OneReconciler, StageInv, NEW p \in Procs, NEW q \in Procs, op[p] # None, op[q] # None,
           op[p].at \in {"find", "claimNode"} \cup Launching, op[q].at \in Launching
    PROVE  q = p
BY CallFields DEF StageInv, OneReconciler, Target, Caller, Launching

(* A step of a call keeps the keys settled. *)
LEMMA KeyStep ==
    ASSUME OneReconciler, StageInv, KeysOK, NEW p \in Procs, Step(p)
    PROVE  KeysOK'
<1>0. TypeInv
      BY DEF StageInv
<1>k. /\ jobs \subseteq Stages \X Nat /\ active \subseteq jobs
      /\ \A k, l \in jobs : k[1] = l[1] => k = l
      BY <1>0 DEF TypeInv, TypeOK, KeysOK
<1>1. CASE FindLaunchJob(p)
  <2>1. op[p] # None /\ op[p].at = "find" /\ op[p].s \in Stages /\ jobs' = jobs /\ active' = active
        BY <1>0, <1>1, CallFields DEF FindLaunchJob, At, launch
  <2>2. PICK g : /\ op' = [op EXCEPT ![p].at = "put", ![p].gen = g]
                 /\ \A k \in jobs : k[1] = op[p].s => k[2] = g
    <3> DEFINE found == {g \in {key[2] : key \in jobs} : <<op[p].s, g>> \in jobs}
    <3>1. \A k \in jobs : k[1] = op[p].s => k[2] \in found
          BY <1>k
    <3>2. \A g \in found : \A k \in jobs : k[1] = op[p].s => k[2] = g
          BY <1>k
    <3>3. PICK g \in IF found = {} THEN {1} ELSE found : op' = [op EXCEPT ![p].at = "put", ![p].gen = g]
          BY <1>1 DEF FindLaunchJob
    <3> HIDE DEF found
    <3> QED
        BY <3>1, <3>2, <3>3
  <2> DEFINE o == [op[p] EXCEPT !.at = "put", !.gen = g]
  <2>3. o.at = "put" /\ o.s = op[p].s /\ o.gen = g /\ op' = [op EXCEPT ![p] = o]
        BY <1>0, <2>1, <2>2, CallFields DEF Op
  <2> HIDE DEF o
  <2>4. op'[p] = o /\ \A q \in Procs : q # p => op'[q] = op[q]
        BY <1>0, <2>3 DEF TypeInv, TypeOK
  <2>5. \A q \in Procs : (q # p /\ op[q] # None) => op[q].at \notin Launching
        BY <2>1, OneLaunch
  <2>6. /\ op'[p].at = "put"
        /\ \A k \in jobs' : k[1] = op'[p].s => k[2] = op'[p].gen
        BY <2>1, <2>2, <2>3, <2>4
  <2>7. \A q \in Procs : (q # p /\ op'[q] # None) => op'[q].at \notin Launching
        BY <2>4, <2>5
  <2> QED
      BY <1>k, <2>1, <2>6, <2>7 DEF KeysOK, Launching
<1>2. CASE ClaimNode(p)
  <2>1. op[p] # None /\ op[p].at = "claimNode" /\ op[p].s \in Stages /\ jobs' = jobs /\ active' = active
        BY <1>0, <1>2, CallFields DEF ClaimNode, At, launch
  <2>2. CASE Return(p, TRUE)
        BY <1>0, <2>1, <2>2, GoesElsewhere, KeysSame
  <2>3. CASE op' = [op EXCEPT ![p].at = "attempt", ![p].gen = node[op[p].s].gen]
    <3>0. PICK g : g = node[op[p].s].gen
          OBVIOUS
    <3> DEFINE o == [op[p] EXCEPT !.at = "attempt", !.gen = g]
    <3>1. o.at = "attempt" /\ o.s = op[p].s /\ op' = [op EXCEPT ![p] = o]
          BY <1>0, <2>1, <2>3, <3>0, CallFields DEF Op
    <3> HIDE DEF o
    <3>2. op'[p] = o /\ \A q \in Procs : q # p => op'[q] = op[q]
          BY <1>0, <3>1 DEF TypeInv, TypeOK
    <3>3. \A k \in jobs : k[1] # op[p].s
          BY <1>0, <2>1 DEF StageInv, KnowsOK, Knows, ClaimOK, Claimed
    <3>4. \A q \in Procs : (q # p /\ op[q] # None) => op[q].at \notin Launching
          BY <2>1, OneLaunch
    <3> QED
        BY <2>1, <3>1, <3>2, <3>3, <3>4 DEF KeysOK, Launching
  <2> QED
      BY <1>2, <2>2, <2>3 DEF ClaimNode
<1>3. CASE CreateAttempt(p)
  <2>1. /\ op[p] # None /\ op[p].at = "attempt" /\ jobs' = jobs /\ active' = active
        /\ Stepped(p) /\ op'[p].at = "put" /\ SameLocals(op'[p], op[p])
        BY <1>0, <1>3, GotoStep DEF CreateAttempt, At, launch, Steps
  <2>2. \A k \in jobs : k[1] # op[p].s
        BY <2>1 DEF KeysOK
  <2> QED
      BY <2>1, <2>2 DEF KeysOK, Stepped, SameLocals
<1>4. CASE PutIfAbsent(p)
  <2>1. /\ op[p] # None /\ op[p].at = "put" /\ op[p].s \in Stages /\ op[p].gen \in Nat /\ active' = active
        /\ jobs' = jobs \cup {<<op[p].s, op[p].gen>>}
        /\ Stepped(p) /\ op'[p].at = "launch" /\ SameLocals(op'[p], op[p])
        BY <1>0, <1>4, GotoStep, CallFields DEF PutIfAbsent, At, Steps
  <2>2. ASSUME NEW k \in jobs, k[1] = op[p].s
        PROVE  k = <<op[p].s, op[p].gen>>
    <3>1. k[2] = op[p].gen
          BY <2>1, <2>2 DEF KeysOK
    <3> QED
        BY <1>k, <2>2, <3>1
  <2>3. \A q \in Procs : (q # p /\ op[q] # None) => op[q].at \notin Launching
        BY <2>1, OneLaunch DEF Launching
  <2>4. /\ \A k, l \in jobs' : k[1] = l[1] => k = l
        /\ active' \subseteq jobs'
        BY <1>k, <2>1, <2>2
  <2> QED
      BY <2>1, <2>3, <2>4 DEF KeysOK, Stepped, SameLocals, Launching
<1>5. CASE EnsureLaunch(p)
  <2>1. /\ op[p] # None /\ op[p].at = "launch" /\ jobs' = jobs
        /\ active' \subseteq active \cup {<<op[p].s, op[p].gen>>}
        /\ Stepped(p) /\ op'[p].at = "ack"
        BY <1>0, <1>5, GotoStep DEF EnsureLaunch, At, Steps
  <2>2. active' \subseteq jobs
        BY <1>k, <2>1 DEF KeysOK
  <2> QED
      BY <2>1, <2>2 DEF KeysOK, Stepped
<1>6. CASE Elsewhere /\ UNCHANGED launch
      BY <1>6, KeysSame DEF launch
<1> QED
    BY <1>1, <1>2, <1>3, <1>4, <1>5, <1>6, StepsElsewhere DEF Step

(* Every step keeps the keys settled. *)
LEMMA KeysStay ==
    ASSUME OneReconciler
    PROVE  StageInv /\ KeysOK /\ [Next]_vars => KeysOK'
<1> SUFFICES ASSUME StageInv, KeysOK, [Next]_vars
             PROVE  KeysOK'
    OBVIOUS
<1>0. TypeInv
      BY DEF StageInv
<1>1. ASSUME NEW p \in Procs, Step(p)
      PROVE  KeysOK'
      BY <1>1, KeyStep
<1>2. ASSUME NEW p \in Procs, LaunchFails(p) \/ RejectHandoff(p) \/ WriteFails(p)
      PROVE  KeysOK'
      BY <1>2, StepsElsewhere, KeysSame DEF launch
<1>3. ASSUME NEW p \in Reconcilers, ReconcileOnce(p)
      PROVE  KeysOK'
  <2>1. /\ "find" \in Steps \ Launching /\ "claim" \in Steps \ Launching /\ "RUNNING" \in NodeStatus
        /\ 1 \in Stages /\ p \in Procs
        BY PipelineAssumption DEF Steps, Launching, NodeStatus, Stages, Procs, Daemon
  <2>2. /\ UNCHANGED launch
        /\ \/ \E s \in Stages : Call(p, "find", "RUNNING", s)
           \/ Call(p, "claim", "RUNNING", 1)
        BY <1>3 DEF ReconcileOnce
  <2> QED
      BY <1>0, <2>1, <2>2, GoesElsewhere, KeysSame DEF launch
<1>4. ASSUME NEW p \in Workers, NEW s \in Stages, CommitStageSuccess(p, s) \/ CommitStageFailure(p, s)
      PROVE  KeysOK'
  <2>1. "node" \in Steps \ Launching /\ "SUCCEEDED" \in NodeStatus /\ "FAILED" \in NodeStatus /\ p \in Procs
        BY DEF Steps, Launching, NodeStatus, NodeTerminal, Procs, Daemon
  <2>2. UNCHANGED launch /\ (Call(p, "node", "SUCCEEDED", s) \/ Call(p, "node", "FAILED", s))
        BY <1>4 DEF CommitStageSuccess, CommitStageFailure
  <2> QED
      BY <1>0, <2>1, <2>2, GoesElsewhere, KeysSame DEF launch
<1>5. ASSUME NEW p \in Workers, ResumeWorkflow(p)
      PROVE  KeysOK'
  <2>1. "wf" \in Steps \ Launching /\ "READY" \in NodeStatus /\ 1 \in Stages /\ p \in Procs
        BY PipelineAssumption DEF Steps, Launching, NodeStatus, Stages, Procs, Daemon
  <2> QED
      BY <1>0, <1>5, <2>1, GoesElsewhere, KeysSame DEF ResumeWorkflow, launch
<1>6. ASSUME NEW p \in Cancellers, CancelWorkflow(p)
      PROVE  KeysOK'
  <2>1. "list" \in Steps \ Launching /\ "CANCELLED" \in NodeStatus /\ 1 \in Stages /\ p \in Procs
        BY PipelineAssumption DEF Steps, Launching, NodeStatus, NodeTerminal, Stages, Procs
  <2> QED
      BY <1>0, <1>6, <2>1, GoesElsewhere, KeysSame DEF CancelWorkflow, launch
<1>7. CASE Crash
      BY <1>7 DEF Crash, KeysOK
<1>8. CASE \/ RegisterPipelineWorkflow
           \/ \E command \in {"PAUSE", "RESUME"} : RequestControl(command)
           \/ RequestPause
           \/ \E s \in Stages : ContainerExits(s) \/ FenceStage(s)
           \/ UNCHANGED vars
  <2>1. op' = op /\ jobs' = jobs /\ active' \subseteq active
        BY <1>8 DEF RegisterPipelineWorkflow, RequestControl, RequestPause, ContainerExits, FenceStage, vars, launch
  <2> QED
      BY <2>1, KeysSame DEF Elsewhere
<1> QED
    BY <1>1, <1>2, <1>3, <1>4, <1>5, <1>6, <1>7, <1>8 DEF Next

(* One daemon with one reconcile loop never has two containers of a stage   *)
(* running, however often a launch is repeated, whatever fails in between   *)
(* and whoever cancels: RuntimeStageLauncher keys its containers by stage   *)
(* and generation, and a launch that is taken up again finds the key of the *)
(* first one.                                                               *)
THEOREM OneContainer ==
    ASSUME OneReconciler
    PROVE  Spec => []OneContainerPerStage
<1>1. Init => KeysOK
      BY DEF Init, KeysOK
<1>2. KeysOK => OneContainerPerStage
  <2> SUFFICES ASSUME KeysOK, NEW s \in Stages
               PROVE  Cardinality({key \in active : key[1] = s}) <= 1
      BY DEF OneContainerPerStage
  <2> DEFINE K == {key \in active : key[1] = s}
  <2>1. \A k, l \in K : k = l
        BY DEF KeysOK
  <2> HIDE DEF K
  <2>2. CASE K = {}
        BY <2>2, FS_EmptySet DEF K
  <2>3. ASSUME NEW k \in K
        PROVE  Cardinality(K) <= 1
    <3>1. K = {k}
          BY <2>1
    <3>2. Cardinality({k}) = 1
          BY FS_Singleton, Zenon
    <3> QED
        BY <3>1, <3>2
  <2> QED
      BY <2>2, <2>3 DEF K
<1>3. StageInv /\ KeysOK /\ [Next]_vars => KeysOK'
      BY KeysStay
<1> QED
    BY <1>1, <1>2, <1>3, StagesHold, PTL DEF Spec

-----------------------------------------------------------------------------
(* Terminal records. *)

(* A resume and a cancel are not used on one workflow.  ResumeWorkflow's    *)
(* retry writes READY over whatever a node has become, a cancel of another  *)
(* Controller included.                                                     *)
NoResumeOverCancel == "resume" \in Events => Cancellers = {}

(* The rest of CommitStageSuccess after the node's write. *)
Succeeding(o) == o.to = "SUCCEEDED" /\ o.at \in {"run", "att", "handoff", "pause?", "next"}

(* A cancel writes a node once, from its seeded record, and only the first  *)
(* stage is seeded READY.                                                   *)
SeedOK ==
    \A s \in Stages : /\ node[s].status = "CANCELLED" => node[s].gen = 2 /\ Cancellers # {}
                      /\ node[s].status = "READY" /\ node[s].gen = 1 => s = 1

(* The daemon's map has an entry for a node that was not claimed only after *)
(* the stage before it was committed: so it presents generation 1 to the    *)
(* node of a cancel.                                                        *)
GenOK ==
    Cancellers # {} =>
        \A t \in Stages : (nodeGen[t] # 1 /\ ~Claimed(t)) =>
            /\ t > 1 /\ node[t - 1].status = "SUCCEEDED"
            /\ \A p \in Procs : op[p] # None /\ Succeeding(op[p]) => op[p].s # t - 1

(* Nobody presents the generation of this run: the daemon restarted, and    *)
(* its supervisor failed the run.                                           *)
Lost(s) == run[s].gen \notin {1, runGen[s]}

(* A call that writes this run meets no terminal status. *)
Open(s) == run[s].status \notin RunTerminal \/ Lost(s)

(* What a call relies on. *)
Relies(o) ==
    /\ o.to = "READY" => "resume" \in Events
    /\ o.at = "claimNode" /\ o.s # 1 => node[o.s].status = "READY"
    /\ o.at = "run" => node[o.s].status = o.to /\ Open(o.s)

(* ... and rightly. *)
ReliesOK == \A p \in Procs : op[p] # None => Relies(op[p])

(* A run is finished by the call that finished its node, and by no other,   *)
(* or by the supervisor's pass and then nobody writes it again.             *)
RunOK ==
    /\ \A s \in Stages : run[s].gen >= 1 /\ (Open(s) \/ node[s].status \in NodeTerminal)
    /\ \A p, q \in Procs : (op[p] # None /\ op[q] # None /\ op[p].at = "run" /\ op[q].at = "run"
                               /\ op[p].s = op[q].s) => p = q

(* The part of the invariant about terminal records. *)
FinalInv == SeedOK /\ GenOK /\ ReliesOK /\ RunOK

(* A call's step that neither begins to write a run nor claims a node. *)
Follows(q) ==
    \/ op'[q] = None
    \/ op'[q] = op[q]
    \/ /\ op'[q].at \notin {"run", "claimNode"}
       /\ op'[q].to = "READY" => "resume" \in Events
       /\ Succeeding(op'[q]) => op[q] # None /\ Succeeding(op[q]) /\ op[q].s = op'[q].s

(* ... changes nothing when no node, run or map is written. *)
LEMMA FinalSame ==
    ASSUME StageInv', FinalInv, UNCHANGED <<node, nodeGen, run, runGen>>, \A q \in Procs : Follows(q)
    PROVE  FinalInv'
<1>0. \A s : Open(s)' <=> Open(s)
      BY DEF Open, Lost
<1>1. SeedOK'
      BY DEF FinalInv, SeedOK
<1>2. GenOK'
      BY DEF FinalInv, GenOK, Follows, Claimed
<1>3. ReliesOK'
  <2> SUFFICES ASSUME NEW q \in Procs, NEW o, o = op'[q], o # None
               PROVE  Relies(o)'
      BY DEF ReliesOK
  <2> QED
      BY <1>0 DEF FinalInv, ReliesOK, Relies, Follows
<1>4. RunOK'
      BY <1>0 DEF FinalInv, RunOK, Follows
<1> QED
    BY <1>1, <1>2, <1>3, <1>4 DEF FinalInv

(* The steps at which a call is not yet, or no longer, in such a place. *)
Aside == Steps \ {"run", "claimNode", "att", "handoff", "pause?", "next"}

(* A call that begins, goes on or returns. *)
LEMMA CallFollows ==
    ASSUME TypeInv, ReliesOK, NEW p \in Procs
    PROVE  /\ \A ok \in BOOLEAN : Return(p, ok) => \A q \in Procs : Follows(q)
           /\ \A x \in Aside : (op[p] # None /\ Goto(p, x)) => \A q \in Procs : Follows(q)
           /\ \A x \in {"att", "handoff", "pause?", "next"} :
                (op[p] # None /\ Goto(p, x) /\ (op[p].to = "SUCCEEDED" => Succeeding(op[p]))) => \A q \in Procs : Follows(q)
           /\ \A x \in Aside, to \in NodeStatus, s \in Stages :
                ((to = "READY" => "resume" \in Events) /\ Call(p, x, to, s)) => \A q \in Procs : Follows(q)
           /\ op[p] # None => \A x, v : /\ x \in Aside
                                        /\ \/ op' = [op EXCEPT ![p].at = x, ![p].s = v]
                                           \/ op' = [op EXCEPT ![p].at = x, ![p].gen = v]
                                           \/ op' = [op EXCEPT ![p].at = x, ![p].wf = v]
                                           \/ op' = [op EXCEPT ![p].at = x, ![p].nodes = v]
                                        => \A q \in Procs : Follows(q)
           /\ (op[p] # None /\ op[p].at \in {"node", "run", "att"} /\ (op[p].at = "node" => op[p].to = "CANCELLED")
                  /\ AfterStage(p)) => \A q \in Procs : Follows(q)
<1>0. op[p] # None => /\ op[p].to = "READY" => "resume" \in Events
                      /\ op[p].at \in Steps /\ op[p].s \in Stages
      BY CallFields DEF ReliesOK, Relies
<1>1. ASSUME NEW ok \in BOOLEAN, Return(p, ok)
      PROVE  \A q \in Procs : Follows(q)
      BY <1>1, ReturnStep DEF Follows, Stepped
<1>2. ASSUME NEW x \in Aside, op[p] # None, Goto(p, x)
      PROVE  \A q \in Procs : Follows(q)
  <2>1. Stepped(p) /\ op'[p].at = x /\ SameLocals(op'[p], op[p])
        BY <1>2, GotoStep DEF Aside
  <2> QED
      BY <1>0, <1>2, <2>1 DEF Follows, Stepped, SameLocals, Aside, Succeeding
<1>3. ASSUME NEW x \in {"att", "handoff", "pause?", "next"}, op[p] # None, Goto(p, x), op[p].to = "SUCCEEDED" => Succeeding(op[p])
      PROVE  \A q \in Procs : Follows(q)
  <2>1. Stepped(p) /\ op'[p].at = x /\ SameLocals(op'[p], op[p])
        BY <1>3, GotoStep DEF Steps
  <2> QED
      BY <1>0, <1>3, <2>1 DEF Follows, Stepped, SameLocals, Succeeding
<1>4. ASSUME NEW x \in Aside, NEW to \in NodeStatus, NEW s \in Stages, to = "READY" => "resume" \in Events, Call(p, x, to, s)
      PROVE  \A q \in Procs : Follows(q)
  <2>1. Stepped(p) /\ op'[p].at = x /\ op'[p].to = to
        BY <1>4, CallStep DEF Aside
  <2> QED
      BY <1>4, <2>1 DEF Follows, Stepped, Aside, Succeeding
<1>5. ASSUME op[p] # None, NEW x \in Aside, NEW v,
             \/ op' = [op EXCEPT ![p].at = x, ![p].s = v]
             \/ op' = [op EXCEPT ![p].at = x, ![p].gen = v]
             \/ op' = [op EXCEPT ![p].at = x, ![p].wf = v]
             \/ op' = [op EXCEPT ![p].at = x, ![p].nodes = v]
      PROVE  \A q \in Procs : Follows(q)
  <2>1. op'[p].at = x /\ op'[p].to = op[p].to /\ \A q \in Procs : q # p => op'[q] = op[q]
        BY <1>5, Moved
  <2> QED
      BY <1>0, <1>5, <2>1 DEF Follows, Aside, Succeeding
<1>6. ASSUME op[p] # None, op[p].at \in {"node", "run", "att"}, op[p].at = "node" => op[p].to = "CANCELLED", AfterStage(p)
      PROVE  \A q \in Procs : Follows(q)
  <2>1. /\ Stepped(p)
        /\ op'[p] # None => /\ op'[p].to = op[p].to
                            /\ \/ op'[p].at = "handoff" /\ op'[p].s = op[p].s
                               \/ op'[p].at \in {"readWf", "wf", "node"}
        BY <1>6, AfterStep
  <2> QED
      BY <1>0, <1>6, <2>1 DEF Follows, Stepped, Succeeding
<1> QED
    BY <1>1, <1>2, <1>3, <1>4, <1>5, <1>6, Zenon

(* The steps of calls that write no node and no run. *)
LEMMA StepsFollow ==
    ASSUME StageInv, FinalInv, NEW p \in Procs,
           \/ FindLaunchJob(p) \/ CreateAttempt(p) \/ PutIfAbsent(p) \/ EnsureLaunch(p) \/ AcknowledgeRunning(p)
           \/ UpdateAttempt(p) \/ CommitHandoff(p) \/ CheckPause(p) \/ ReadWorkflow(p) \/ Unpause(p)
           \/ UpdateWorkflow(p) \/ ListNodes(p) \/ LaunchFails(p) \/ RejectHandoff(p) \/ WriteFails(p)
    PROVE  UNCHANGED <<node, nodeGen, run, runGen>> /\ \A q \in Procs : Follows(q)
<1>0. TypeInv /\ ReliesOK
      BY DEF StageInv, FinalInv
<1>a. \A x \in {"put", "launch", "ack", "node", "readWf", "unpause", "wf", "list", "readyFirst"} : x \in Aside
      BY DEF Steps, Aside
<1>1. CASE FindLaunchJob(p)
  <2>1. PICK g : op' = [op EXCEPT ![p].at = "put", ![p].gen = g]
        BY <1>1 DEF FindLaunchJob
  <2>2. op[p] # None /\ UNCHANGED <<node, nodeGen, run, runGen>>
        BY <1>1 DEF FindLaunchJob, At, store, gens
  <2> QED
      BY <1>0, <1>a, <2>1, <2>2, CallFollows
<1>2. CASE CreateAttempt(p)
      BY <1>0, <1>a, <1>2, CallFollows DEF CreateAttempt, At
<1>3. CASE PutIfAbsent(p)
      BY <1>0, <1>a, <1>3, CallFollows DEF PutIfAbsent, At, store, gens
<1>4. CASE EnsureLaunch(p)
  <2>1. op[p] # None /\ Goto(p, "ack") /\ UNCHANGED <<node, nodeGen, run, runGen>>
        BY <1>4 DEF EnsureLaunch, At, store, gens
  <2> QED
      BY <1>0, <1>a, <2>1, CallFollows
<1>5. CASE AcknowledgeRunning(p)
      BY <1>0, <1>a, <1>5, CallFollows DEF AcknowledgeRunning, At, store, gens
<1>6. CASE UpdateAttempt(p)
  <2>1. op[p] # None /\ op[p].at = "att" /\ UNCHANGED <<node, nodeGen, run, runGen>>
        BY <1>6 DEF UpdateAttempt, At
  <2>2. AfterStage(p) \/ Return(p, FALSE)
        BY <1>6, Zenon DEF UpdateAttempt
  <2> QED
      BY <1>0, <2>1, <2>2, CallFollows
<1>7. CASE CommitHandoff(p)
  <2>1. op[p] # None /\ op[p].at = "handoff" /\ Goto(p, "pause?") /\ UNCHANGED <<node, nodeGen, run, runGen>>
        BY <1>7 DEF CommitHandoff, At, gens
  <2>2. op[p].to = "SUCCEEDED" => Succeeding(op[p])
        BY <2>1 DEF Succeeding
  <2> QED
      BY <1>0, <2>1, <2>2, CallFollows
<1>8. CASE CheckPause(p)
  <2>1. op[p] # None /\ op[p].at = "pause?" /\ UNCHANGED <<node, nodeGen, run, runGen>>
        BY <1>8 DEF CheckPause, At, store, gens
  <2>2. Goto(p, "readWf") \/ Goto(p, "next")
        BY <1>8 DEF CheckPause
  <2>3. op[p].to = "SUCCEEDED" => Succeeding(op[p])
        BY <2>1 DEF Succeeding
  <2> QED
      BY <1>0, <1>a, <2>1, <2>2, <2>3, CallFollows
<1>9. CASE ReadWorkflow(p)
  <2>1. op[p] # None /\ UNCHANGED <<node, nodeGen, run, runGen>>
        BY <1>9 DEF ReadWorkflow, At, store, gens
  <2>2. \/ Return(p, TRUE) \/ Return(p, FALSE)
        \/ op' = [op EXCEPT ![p].at = "unpause", ![p].wf = wf]
        \/ op' = [op EXCEPT ![p].at = "wf", ![p].wf = wf]
        BY <1>9 DEF ReadWorkflow
  <2> QED
      BY <1>0, <1>a, <2>1, <2>2, CallFollows
<1>10. CASE Unpause(p)
  <2>1. op[p] # None /\ UNCHANGED <<node, nodeGen, run, runGen>>
        BY <1>10 DEF Unpause, At, gens
  <2>2. \/ Return(p, FALSE)
        \/ op' = [op EXCEPT ![p].at = "wf", ![p].wf = wf']
        BY <1>10 DEF Unpause
  <2> QED
      BY <1>0, <1>a, <2>1, <2>2, CallFollows
<1>11. CASE UpdateWorkflow(p)
      BY <1>0, <1>a, <1>11, CallFollows DEF UpdateWorkflow, At, gens
<1>12. CASE ListNodes(p)
  <2>1. op[p] # None /\ UNCHANGED <<node, nodeGen, run, runGen>>
        BY <1>12 DEF ListNodes, At, store, gens
  <2>2. \/ Return(p, TRUE)
        \/ op' = [op EXCEPT ![p].at = "node", ![p].nodes = NodeStatuses]
        \/ \E v : op' = [op EXCEPT ![p].at = "readyFirst", ![p].s = v]
        BY <1>12 DEF ListNodes
  <2> QED
      BY <1>0, <1>a, <2>1, <2>2, CallFollows
<1>13. CASE LaunchFails(p) \/ RejectHandoff(p) \/ WriteFails(p)
      BY <1>0, <1>13, CallFollows DEF LaunchFails, RejectHandoff, WriteFails, store, gens
<1> QED
    BY <1>1, <1>2, <1>3, <1>4, <1>5, <1>6, <1>7, <1>8, <1>9, <1>10, <1>11, <1>12, <1>13

(* Calls that begin. *)
LEMMA CallsFollow ==
    ASSUME StageInv, FinalInv,
           \/ \E p \in Reconcilers : ReconcileOnce(p)
           \/ \E p \in Workers : \/ \E s \in Stages : CommitStageSuccess(p, s) \/ CommitStageFailure(p, s)
                                 \/ ResumeWorkflow(p)
           \/ \E p \in Cancellers : CancelWorkflow(p)
    PROVE  UNCHANGED <<node, nodeGen, run, runGen>> /\ \A q \in Procs : Follows(q)
<1>0. TypeInv /\ ReliesOK
      BY DEF StageInv, FinalInv
<1>a. /\ \A x \in {"find", "claim", "node", "wf", "list"} : x \in Aside
      /\ \A to \in {"RUNNING", "SUCCEEDED", "FAILED", "READY", "CANCELLED"} : to \in NodeStatus
      /\ 1 \in Stages
      BY PipelineAssumption DEF Steps, Aside, NodeStatus, NodeTerminal, Stages
<1>1. ASSUME NEW p \in Reconcilers, ReconcileOnce(p)
      PROVE  UNCHANGED <<node, nodeGen, run, runGen>> /\ \A q \in Procs : Follows(q)
  <2>1. /\ UNCHANGED <<node, nodeGen, run, runGen>>
        /\ \/ \E s \in Stages : Call(p, "find", "RUNNING", s)
           \/ Call(p, "claim", "RUNNING", 1)
        BY <1>1 DEF ReconcileOnce, store, gens
  <2>2. p \in Procs
        BY DEF Procs, Daemon
  <2> QED
      BY <1>0, <1>a, <2>1, <2>2, CallFollows
<1>2. ASSUME NEW p \in Workers, NEW s \in Stages, CommitStageSuccess(p, s) \/ CommitStageFailure(p, s)
      PROVE  UNCHANGED <<node, nodeGen, run, runGen>> /\ \A q \in Procs : Follows(q)
  <2>1. UNCHANGED <<node, nodeGen, run, runGen>> /\ (Call(p, "node", "SUCCEEDED", s) \/ Call(p, "node", "FAILED", s))
        BY <1>2 DEF CommitStageSuccess, CommitStageFailure, store, gens
  <2>2. p \in Procs
        BY DEF Procs, Daemon
  <2> QED
      BY <1>0, <1>a, <2>1, <2>2, CallFollows
<1>3. ASSUME NEW p \in Workers, ResumeWorkflow(p)
      PROVE  UNCHANGED <<node, nodeGen, run, runGen>> /\ \A q \in Procs : Follows(q)
  <2>2. p \in Procs
        BY DEF Procs, Daemon
  <2> QED
      BY <1>0, <1>3, <1>a, <2>2, CallFollows DEF ResumeWorkflow, store, gens
<1>4. ASSUME NEW p \in Cancellers, CancelWorkflow(p)
      PROVE  UNCHANGED <<node, nodeGen, run, runGen>> /\ \A q \in Procs : Follows(q)
  <2>2. p \in Procs
        BY DEF Procs
  <2> QED
      BY <1>0, <1>4, <1>a, <2>2, CallFollows DEF CancelWorkflow, store, gens
<1> QED
    BY <1>1, <1>2, <1>3, <1>4

(* A step that takes no node and no run out of a terminal status. *)
StaysFinal ==
    \A s \in Stages : /\ node[s].status \in NodeTerminal => node'[s].status = node[s].status
                      /\ run[s].status \in RunTerminal => run'[s].status = run[s].status

(* While the daemon's mutex is held, only cancels are elsewhere. *)
LEMMA OthersCancel ==
    ASSUME StageInv, NEW p \in Daemon, mu = p, NEW q \in Procs, q # p, op[q] # None
    PROVE  /\ op[q].at # "claimNode" /\ ~Succeeding(op[q])
           /\ op[q].at = "run" => op[q].to = "CANCELLED"
<1>1. /\ Target(op[q]) /\ Caller(q, op[q])
      /\ (q \in Daemon /\ op[q].at \in Locked) => mu = q
      BY CallFields DEF StageInv, TypeInv, CallOK
<1>2. "claimNode" \in Locked /\ "run" \in Locked /\ "att" \in Locked /\ "handoff" \in Locked /\ "pause?" \in Locked /\ "next" \in Locked
      BY DEF Locked, Steps
<1> QED
    BY <1>1, <1>2 DEF Target, Caller, Daemon, Succeeding, Procs

(* The holder of the mutex writes a node that is not finished. *)
LEMMA HolderFinal ==
    ASSUME StageInv, FinalInv, NEW p \in Daemon, mu = p, Stepped(p),
           NEW s \in Stages, NEW st \in NodeStatus, Writes(s, st), st # "CANCELLED", node[s].status \notin NodeTerminal,
           UNCHANGED <<run, runGen>>, \A u \in Stages : u # s => nodeGen'[u] = nodeGen[u],
           \/ Claimed(s)'
           \/ Cancellers = {}
           \/ s > 1 /\ node[s - 1].status = "SUCCEEDED",
           op'[p] # None => /\ op'[p].at \notin {"claimNode", "att", "handoff", "pause?", "next"}
                            /\ op'[p].to # "READY"
                            /\ op'[p].at = "run" => op'[p].s = s /\ op'[p].to = st
    PROVE  FinalInv' /\ StaysFinal
<1>0. /\ node'[s] = [status |-> st, gen |-> node[s].gen + 1] /\ node'[s].status = st /\ node'[s].gen = node[s].gen + 1
      /\ \A u \in Stages : u # s => node'[u] = node[u]
      /\ node[s].gen \in Nat /\ node[s].gen >= 1
      BY DEF Writes, StageInv, TypeInv, TypeOK, NodeOK, Versioned
<1>1. \A q \in Procs : q # p /\ op'[q] # None =>
          /\ op'[q] = op[q] /\ op[q].at # "claimNode" /\ ~Succeeding(op[q])
          /\ op[q].at = "run" => op[q].to = "CANCELLED" /\ op[q].s # s /\ op[q].s \in Stages
  <2> SUFFICES ASSUME NEW q \in Procs, q # p, op'[q] # None
               PROVE  /\ op'[q] = op[q] /\ op[q].at # "claimNode" /\ ~Succeeding(op[q])
                      /\ op[q].at = "run" => op[q].to = "CANCELLED" /\ op[q].s # s /\ op[q].s \in Stages
      OBVIOUS
  <2>1. op'[q] = op[q] /\ op[q] # None
        BY DEF Stepped
  <2>2. op[q].s \in Stages /\ Relies(op[q])
        BY <2>1, CallFields DEF StageInv, FinalInv, ReliesOK
  <2> QED
      BY <2>1, <2>2, OthersCancel DEF Relies, NodeTerminal
<1>a. \A u : Open(u)' <=> Open(u)
      BY DEF Open, Lost
<1>2. Open(s)
      BY DEF FinalInv, RunOK
<1>3. SeedOK'
      BY <1>0 DEF FinalInv, SeedOK
<1>4. GenOK'
  <2> SUFFICES ASSUME Cancellers # {}, NEW t \in Stages, nodeGen'[t] # 1, ~Claimed(t)'
               PROVE  /\ t > 1 /\ node'[t - 1].status = "SUCCEEDED"
                      /\ \A q \in Procs : op'[q] # None /\ Succeeding(op'[q]) => op'[q].s # t - 1
      BY DEF GenOK
  <2>0. s \in Nat /\ t \in Nat /\ s - 1 # s /\ t - 1 # t /\ (t > 1 => t - 1 \in Stages) /\ (s > 1 => s - 1 \in Stages)
        BY PipelineAssumption DEF Stages
  <2>1. \A q \in Procs : op'[q] # None /\ Succeeding(op'[q]) => op'[q].s = s
        BY <1>1 DEF Succeeding
  <2>2. CASE t = s
        BY <1>0, <2>0, <2>1, <2>2
  <2>3. CASE t # s
    <3>1. nodeGen[t] # 1 /\ ~Claimed(t)
          BY <1>0, <2>3 DEF Claimed
    <3>2. t > 1 /\ node[t - 1].status = "SUCCEEDED"
          BY <3>1 DEF FinalInv, GenOK
    <3>3. t - 1 # s
          BY <3>2 DEF NodeTerminal
    <3> QED
        BY <1>0, <2>0, <2>1, <3>2, <3>3
  <2> QED
      BY <2>2, <2>3
<1>5. ReliesOK'
  <2> SUFFICES ASSUME NEW q \in Procs, NEW o, o = op'[q], o # None
               PROVE  Relies(o)'
      BY DEF ReliesOK
  <2>1. CASE q = p
        BY <1>0, <1>2, <1>a, <2>1 DEF Relies
  <2>2. CASE q # p
    <3>1. o = op[q] /\ Relies(o)
          BY <1>1, <2>2 DEF FinalInv, ReliesOK
    <3>2. o.at # "claimNode" /\ (o.at = "run" => o.s # s /\ o.s \in Stages)
          BY <1>1, <2>2, <3>1
    <3>3. \A u \in Stages : u # s => node'[u].status = node[u].status
          BY <1>0
    <3> QED
        BY <1>a, <3>1, <3>2, <3>3 DEF Relies
  <2> QED
      BY <2>1, <2>2
<1>6. RunOK'
  <2>1. \A u \in Stages : run'[u].gen >= 1 /\ (Open(u)' \/ node'[u].status \in NodeTerminal)
        BY <1>0, <1>2, <1>a DEF FinalInv, RunOK
  <2>2. \A q, r \in Procs : (op'[q] # None /\ op'[r] # None /\ op'[q].at = "run" /\ op'[r].at = "run"
                               /\ op'[q].s = op'[r].s) => q = r
        BY <1>1 DEF FinalInv, RunOK
  <2> QED
      BY <2>1, <2>2 DEF RunOK
<1>7. StaysFinal
      BY <1>0 DEF StaysFinal
<1> QED
    BY <1>3, <1>4, <1>5, <1>6, <1>7 DEF FinalInv

(* ClaimNode does not launch a node that was cancelled since it was read:   *)
(* the retries look at the status, and the first try presents generation 1. *)
LEMMA ClaimNodeFinal ==
    ASSUME StageInv, FinalInv, NEW p \in Procs, ClaimNode(p)
    PROVE  FinalInv' /\ StaysFinal
<1> DEFINE s == op[p].s
           r == IF node[s].status = "READY" THEN 2 ELSE 0
           w == Write(node[s], "LAUNCHING", nodeGen[s], r)
<1>0. /\ TypeInv /\ op[p] # None /\ op[p].at = "claimNode" /\ UNCHANGED <<run, runGen>> /\ StageInv'
      BY ClaimNodeKeeps DEF StageInv, ClaimNode, At
<1>1. op[p].to = "RUNNING" /\ s \in Stages /\ p \in Daemon
      BY <1>0, CallFields DEF Target, Caller, Daemon
<1>2. mu = p
      BY <1>0, <1>1 DEF TypeInv, CallOK, Locked, Steps
<1>3. /\ node[s] \in Versioned(NodeStatus) /\ node[s].gen \in Nat /\ nodeGen \in [Stages -> Nat] /\ nodeGen[s] \in Nat
      /\ node[s].status \in {"READY", "CANCELLED"} /\ Relies(op[p])
      BY <1>0, <1>1 DEF TypeInv, TypeOK, Versioned, StageInv, KnowsOK, Knows, FinalInv, ReliesOK
<1>4. w.rec = [status |-> "LAUNCHING", gen |-> node[s].gen + 1] /\ w.ok = (node[s].gen \in nodeGen[s]..(nodeGen[s] + r))
      BY <1>3, Written
<1>5. \/ /\ w.ok
         /\ node' = [node EXCEPT ![s] = w.rec]
         /\ nodeGen' = [nodeGen EXCEPT ![s] = w.rec.gen]
         /\ op' = [op EXCEPT ![p].at = "attempt", ![p].gen = node[s].gen]
      \/ Return(p, TRUE) /\ UNCHANGED <<node, nodeGen>>
      BY Zenon DEF ClaimNode
<1> HIDE DEF w, r
<1>6. CASE Return(p, TRUE) /\ UNCHANGED <<node, nodeGen>>
  <2>1. FinalInv'
        BY <1>0, <1>6, CallFollows, FinalSame DEF FinalInv
  <2> QED
      BY <1>0, <1>6, <2>1 DEF StaysFinal
<1>7. CASE /\ w.ok
           /\ node' = [node EXCEPT ![s] = w.rec]
           /\ nodeGen' = [nodeGen EXCEPT ![s] = w.rec.gen]
           /\ op' = [op EXCEPT ![p].at = "attempt", ![p].gen = node[s].gen]
  <2>1. node[s].gen \in nodeGen[s]..(nodeGen[s] + r)
        BY <1>4, <1>7, Zenon
  <2>2. node[s].status # "CANCELLED"
    <3> SUFFICES ASSUME node[s].status = "CANCELLED"
                 PROVE  FALSE
        OBVIOUS
    <3>1. node[s].gen = 2 /\ Cancellers # {} /\ r = 0 /\ s = 1
          BY <1>0, <1>1, <1>3 DEF FinalInv, SeedOK, Relies, r
    <3>2. nodeGen[s] = 2
          BY <1>3, <2>1, <3>1
    <3>3. ~Claimed(s)
          BY DEF Claimed
    <3> QED
        BY <1>1, <3>1, <3>2, <3>3 DEF FinalInv, GenOK
  <2>3. Writes(s, "LAUNCHING")
        BY <1>4, <1>7, Zenon DEF Writes
  <2>4. \A u \in Stages : u # s => nodeGen'[u] = nodeGen[u]
        BY <1>3, <1>7
  <2>5. op'[p].at = "attempt" /\ op'[p].to = "RUNNING" /\ \A q \in Procs : q # p => op'[q] = op[q]
        BY <1>0, <1>1, <1>7, Moved
  <2>6. Stepped(p)
        BY <1>0, <2>5 DEF StageInv, TypeInv, TypeOK, Stepped
  <2>7. "LAUNCHING" \in NodeStatus /\ node[s].status \notin NodeTerminal
        BY <1>3, <2>2 DEF NodeStatus, NodeTerminal
  <2> QED
    <3>1. PICK t \in Stages : t = s
          BY <1>1
    <3>2. node'[t].status = "LAUNCHING"
          BY <2>3, <2>7, <3>1, NodeWrite
    <3>3. Claimed(t)'
          BY <3>2 DEF Claimed
    <3>4. \/ Claimed(t)' \/ Cancellers = {} \/ (t > 1 /\ node[t - 1].status = "SUCCEEDED")
          BY <3>3
    <3>5. Writes(t, "LAUNCHING") /\ node[t].status \notin NodeTerminal /\ \A u \in Stages : u # t => nodeGen'[u] = nodeGen[u]
          BY <2>3, <2>4, <2>7, <3>1
    <3> QED
        BY <1>0, <1>1, <1>2, <2>5, <2>6, <2>7, <3>4, <3>5, HolderFinal
<1> QED
    BY <1>5, <1>6, <1>7

(* The holder counts the generation of a node up without writing it. *)
LEMMA HolderCounts ==
    ASSUME StageInv, StageInv', FinalInv, NEW p \in Daemon, mu = p, Stepped(p), op'[p] = None,
           NEW t \in Stages, t > 1, node[t - 1].status = "SUCCEEDED",
           UNCHANGED <<node, run, runGen>>, \A u \in Stages : u # t => nodeGen'[u] = nodeGen[u]
    PROVE  FinalInv' /\ StaysFinal
<1>1. \A q \in Procs : op'[q] # None => q # p /\ op'[q] = op[q] /\ ~Succeeding(op[q])
      BY OthersCancel DEF Stepped
<1>a. \A u : Open(u)' <=> Open(u)
      BY DEF Open, Lost
<1>2. SeedOK' /\ StaysFinal
      BY DEF FinalInv, SeedOK, StaysFinal
<1>3. GenOK'
      BY <1>1 DEF FinalInv, GenOK, Claimed
<1>4. ReliesOK'
  <2> SUFFICES ASSUME NEW q \in Procs, NEW o, o = op'[q], o # None
               PROVE  Relies(o)'
      BY DEF ReliesOK
  <2> QED
      BY <1>1, <1>a DEF FinalInv, ReliesOK, Relies
<1>5. RunOK'
      BY <1>1, <1>a DEF FinalInv, RunOK
<1> QED
    BY <1>2, <1>3, <1>4, <1>5 DEF FinalInv

(* CommitStageSuccess does not ready a node that was cancelled: it presents *)
(* generation 1, since it counts the next node up only once.                *)
LEMMA ReadyNextFinal ==
    ASSUME StageInv, FinalInv, NEW p \in Procs, ReadyNext(p)
    PROVE  FinalInv' /\ StaysFinal
<1>0. /\ TypeInv /\ op[p] # None /\ op[p].at = "next" /\ UNCHANGED <<run, runGen>> /\ StageInv' /\ Return(p, TRUE)
      BY ReadyNextKeeps DEF StageInv, ReadyNext, At
<1>1. op[p].to = "SUCCEEDED" /\ op[p].s \in Stages /\ op[p].s < StageCount /\ p \in Daemon
      BY <1>0, CallFields DEF Target, Caller, Daemon
<1>2. mu = p /\ Stepped(p) /\ op'[p] = None
      BY <1>0, <1>1, ReturnStep DEF TypeInv, CallOK, Locked, Steps
<1>3. PICK t \in Stages : t = op[p].s + 1 /\ t > 1 /\ t - 1 = op[p].s
      BY <1>1, PipelineAssumption DEF Stages
<1> DEFINE w == Write(node[t], "READY", nodeGen[t], 0)
<1>4. /\ node[t] \in Versioned(NodeStatus) /\ node[t].gen \in Nat /\ nodeGen \in [Stages -> Nat] /\ nodeGen[t] \in Nat
      /\ node[t].status \in Fresh /\ node[op[p].s].status = "SUCCEEDED"
  <2>1. node[op[p].s].status = "SUCCEEDED" /\ Front(op[p].s)
        BY <1>0, <1>1 DEF StageInv, KnowsOK, Knows
  <2>2. t > op[p].s
        BY <1>1, <1>3, PipelineAssumption DEF Stages
  <2> QED
      BY <1>0, <1>3, <2>1, <2>2 DEF TypeInv, TypeOK, Versioned, Front
<1>5. w.rec = [status |-> "READY", gen |-> node[t].gen + 1] /\ w.ok = (node[t].gen \in nodeGen[t]..(nodeGen[t] + 0))
      BY <1>4, Written
<1>6. node' = (IF w.ok THEN [node EXCEPT ![t] = w.rec] ELSE node) /\ nodeGen' = [nodeGen EXCEPT ![t] = @ + 1]
      BY <1>3, Zenon DEF ReadyNext
<1> HIDE DEF w
<1>7. \A u \in Stages : u # t => nodeGen'[u] = nodeGen[u]
      BY <1>4, <1>6
<1>8. CASE node' = node
      BY <1>0, <1>1, <1>2, <1>3, <1>4, <1>7, <1>8, HolderCounts
<1>9. CASE w.ok /\ node' = [node EXCEPT ![t] = w.rec]
  <2>1. node[t].gen \in nodeGen[t]..(nodeGen[t] + 0)
        BY <1>5, <1>9, Zenon
  <2>2. node[t].status # "CANCELLED"
    <3> SUFFICES ASSUME node[t].status = "CANCELLED"
                 PROVE  FALSE
        OBVIOUS
    <3>1. node[t].gen = 2 /\ Cancellers # {}
          BY DEF FinalInv, SeedOK
    <3>2. nodeGen[t] = 2
          BY <1>4, <2>1, <3>1
    <3>3. ~Claimed(t)
          BY DEF Claimed
    <3>4. Succeeding(op[p])
          BY <1>0, <1>1 DEF Succeeding
    <3> QED
        BY <1>0, <1>3, <3>1, <3>2, <3>3, <3>4 DEF FinalInv, GenOK
  <2>3. Writes(t, "READY")
        BY <1>5, <1>9, Zenon DEF Writes
  <2>4. "READY" \in NodeStatus /\ node[t].status \notin NodeTerminal
        BY <1>4, <2>2 DEF NodeStatus, NodeTerminal, Fresh
  <2>5. Claimed(t)' \/ Cancellers = {} \/ (t > 1 /\ node[t - 1].status = "SUCCEEDED")
        BY <1>3, <1>4
  <2> QED
      BY <1>0, <1>1, <1>2, <1>7, <2>3, <2>4, <2>5, HolderFinal
<1> QED
    BY <1>6, <1>8, <1>9

(* ResumeWorkflow readies a node that is still PENDING when nobody cancels. *)
LEMMA ReadyFirstFinal ==
    ASSUME NoResumeOverCancel, StageInv, FinalInv, NEW p \in Procs, ReadyFirst(p)
    PROVE  FinalInv' /\ StaysFinal
<1>0. /\ TypeInv /\ op[p] # None /\ op[p].at = "readyFirst" /\ UNCHANGED <<run, runGen>> /\ StageInv'
      BY ReadyFirstKeeps DEF StageInv, ReadyFirst, At
<1>1. op[p].to = "READY" /\ op[p].s \in Stages /\ p \in Daemon
      BY <1>0, CallFields DEF Target, Caller, Daemon
<1>2. Cancellers = {}
      BY <1>0, <1>1 DEF FinalInv, ReliesOK, Relies, NoResumeOverCancel
<1>3. PICK s \in Stages : s = op[p].s
      BY <1>1
<1> DEFINE w == Write(node[s], "READY", nodeGen[s], 2)
<1>4. /\ node[s] \in Versioned(NodeStatus) /\ node[s].gen \in Nat /\ nodeGen \in [Stages -> Nat]
      /\ node[s].status \in Fresh
      BY <1>0, <1>3 DEF TypeInv, TypeOK, Versioned, StageInv, KnowsOK, Knows
<1>5. node[s].status = "PENDING"
      BY <1>2, <1>4 DEF FinalInv, SeedOK, Fresh
<1>6. w.rec = [status |-> "READY", gen |-> node[s].gen + 1] /\ w.ok \in BOOLEAN
  <2>1. w.rec = [status |-> "READY", gen |-> node[s].gen + 1]
        BY <1>4, Written
  <2>2. w.ok \in BOOLEAN
        BY DEF Write
  <2> QED
      BY <2>1, <2>2
<1>7. /\ node' = (IF w.ok THEN [node EXCEPT ![s] = w.rec] ELSE node)
      /\ nodeGen' = (IF w.ok THEN [nodeGen EXCEPT ![s] = w.rec.gen] ELSE nodeGen)
      /\ Return(p, w.ok)
      BY <1>3, Zenon DEF ReadyFirst
<1> HIDE DEF w
<1>8. mu = p /\ Stepped(p) /\ op'[p] = None
      BY <1>0, <1>1, <1>6, <1>7, ReturnStep DEF TypeInv, CallOK, Locked, Steps
<1>9. CASE w.ok
  <2>1. Writes(s, "READY")
        BY <1>6, <1>7, <1>9, Zenon DEF Writes
  <2>2. "READY" \in NodeStatus /\ node[s].status \notin NodeTerminal
        BY <1>5 DEF NodeStatus, NodeTerminal
  <2>3. \A u \in Stages : u # s => nodeGen'[u] = nodeGen[u]
        BY <1>4, <1>7, <1>9
  <2>4. Claimed(s)' \/ Cancellers = {} \/ (s > 1 /\ node[s - 1].status = "SUCCEEDED")
        BY <1>2
  <2> QED
      BY <1>0, <1>1, <1>8, <2>1, <2>2, <2>3, <2>4, HolderFinal
<1>10. CASE ~w.ok
  <2>1. FinalInv'
    <3>1. \A q \in Procs : Follows(q)
          BY <1>8 DEF Follows, Stepped
    <3> QED
        BY <1>0, <1>7, <1>10, <3>1, FinalSame
  <2> QED
      BY <1>0, <1>7, <1>10, <2>1 DEF StaysFinal
<1> QED
    BY <1>9, <1>10

(* A cancel writes a node from its seeded record. *)
LEMMA CancelFinal ==
    ASSUME StageInv, FinalInv, NEW p \in Cancellers, Stepped(p), NEW s \in Stages, Writes(s, "CANCELLED"),
           node[s].gen = 1, UNCHANGED <<run, runGen, nodeGen>>,
           op'[p] # None /\ op'[p].at = "run" /\ op'[p].to = "CANCELLED" /\ op'[p].s = s
    PROVE  FinalInv' /\ StaysFinal
<1>0. /\ node[s].status \in {"PENDING", "READY"} /\ "CANCELLED" \in NodeStatus
      BY DEF StageInv, NodeOK, NodeStatus, NodeTerminal
<1>1. /\ node'[s].status = "CANCELLED" /\ node'[s].gen = 2
      /\ \A u \in Stages : u # s => node'[u] = node[u]
      BY <1>0, NodeWrite
<1>a. \A u : Open(u)' <=> Open(u)
      BY DEF Open, Lost
<1>2. Open(s)
      BY <1>0 DEF FinalInv, RunOK, NodeTerminal
<1>3. \A q \in Procs : q # p /\ op'[q] # None => op'[q] = op[q] /\ Relies(op[q]) /\ (op[q].at = "run" => op[q].s # s)
  <2> SUFFICES ASSUME NEW q \in Procs, q # p, op'[q] # None
               PROVE  op'[q] = op[q] /\ Relies(op[q]) /\ (op[q].at = "run" => op[q].s # s)
      OBVIOUS
  <2>1. op'[q] = op[q] /\ op[q] # None /\ Relies(op[q])
        BY DEF Stepped, FinalInv, ReliesOK
  <2>2. Target(op[q])
        BY <2>1, CallFields DEF StageInv
  <2> QED
      BY <1>0, <2>1, <2>2 DEF Relies, Target
<1>4. SeedOK'
      BY <1>1 DEF FinalInv, SeedOK
<1>5. GenOK'
  <2>1. \A t \in Stages : Claimed(t)' <=> Claimed(t)
        BY <1>0, <1>1 DEF Claimed
  <2>2. \A t \in Stages : node[t].status = "SUCCEEDED" => node'[t].status = "SUCCEEDED"
        BY <1>0, <1>1
  <2>3. \A t \in Stages : t > 1 => t - 1 \in Stages
        BY PipelineAssumption DEF Stages
  <2>4. \A q \in Procs : op'[q] # None /\ Succeeding(op'[q]) => op[q] # None /\ Succeeding(op[q]) /\ op'[q].s = op[q].s
        BY <1>3 DEF Succeeding, Stepped
  <2> QED
      BY <2>1, <2>2, <2>3, <2>4 DEF FinalInv, GenOK
<1>6. ReliesOK'
  <2> SUFFICES ASSUME NEW q \in Procs, NEW o, o = op'[q], o # None
               PROVE  Relies(o)'
      BY DEF ReliesOK
  <2>1. CASE q = p
        BY <1>1, <1>2, <1>a, <2>1 DEF Relies
  <2>2. CASE q # p
    <3>1. o = op[q] /\ Relies(o) /\ (o.at = "run" => o.s # s)
          BY <1>3, <2>2
    <3>2. o.s \in Stages
          BY <3>1, CallFields DEF StageInv
    <3>3. o.at = "claimNode" /\ o.s # 1 => o.s # s
          BY <3>1 DEF Relies, FinalInv, SeedOK
    <3> QED
        BY <1>1, <1>a, <3>1, <3>2, <3>3 DEF Relies
  <2> QED
      BY <2>1, <2>2
<1>7. RunOK'
  <2>1. \A u \in Stages : run'[u].gen >= 1 /\ (Open(u)' \/ node'[u].status \in NodeTerminal)
        BY <1>1, <1>2, <1>a DEF FinalInv, RunOK
  <2>2. \A q, r \in Procs : (op'[q] # None /\ op'[r] # None /\ op'[q].at = "run" /\ op'[r].at = "run"
                               /\ op'[q].s = op'[r].s) => q = r
        BY <1>3 DEF FinalInv, RunOK
  <2> QED
      BY <2>1, <2>2 DEF RunOK
<1>8. StaysFinal
      BY <1>0, <1>1 DEF StaysFinal, NodeTerminal
<1> QED
    BY <1>4, <1>5, <1>6, <1>7, <1>8 DEF FinalInv

(* UpdateNode never writes a node that is finished. *)
LEMMA NodeFinal ==
    ASSUME StageInv, FinalInv, NEW p \in Procs, UpdateNode(p)
    PROVE  FinalInv' /\ StaysFinal
<1>0. /\ TypeInv /\ op[p] # None /\ op[p].at = "node" /\ UNCHANGED <<run, runGen>> /\ StageInv' /\ ReliesOK
      BY NodeEffect, NodeKeeps DEF StageInv, FinalInv
<1>1. PICK s \in Stages, to \in NodeStatus : s = op[p].s /\ to = op[p].to /\ to \in {"RUNNING", "SUCCEEDED", "FAILED", "CANCELLED"}
      BY <1>0, AtRecord
<1>2. CASE op[p].to = "CANCELLED" /\ AfterStage(p) /\ UNCHANGED <<node, nodeGen>>
  <2>1. \A q \in Procs : Follows(q)
        BY <1>0, <1>2, CallFollows
  <2> QED
      BY <1>0, <1>2, <2>1, FinalSame DEF StaysFinal
<1>3. CASE Return(p, FALSE) /\ UNCHANGED <<node, nodeGen>>
  <2>1. \A q \in Procs : Follows(q)
        BY <1>0, <1>3, CallFollows
  <2> QED
      BY <1>0, <1>3, <2>1, FinalSame DEF StaysFinal
<1>4. CASE /\ Writes(s, to)
           /\ nodeGen' = Tracked(p, nodeGen, s, [status |-> to, gen |-> node[s].gen + 1])
           /\ Goto(p, "run")
           /\ p \in Cancellers => node[s].gen = 1
  <2>1. Stepped(p) /\ op'[p] \in Op /\ op'[p].at = "run" /\ op'[p].s = s /\ op'[p].to = to
        BY <1>0, <1>1, <1>4, GotoStep DEF Steps, SameLocals
  <2>2. op'[p] # None
        BY <2>1, NoneAssumption
  <2>3. CASE p \in Cancellers
    <3>1. to = "CANCELLED" /\ nodeGen' = nodeGen
          BY <1>0, <1>1, <1>4, <2>3, CallFields DEF Caller, Tracked
    <3> QED
        BY <1>0, <1>4, <2>1, <2>2, <2>3, <3>1, CancelFinal
  <2>4. CASE p \in Daemon
    <3>1. to # "CANCELLED" /\ mu = p
          BY <1>0, <1>1, <2>4, PipelineAssumption, CallFields, AtRecord DEF Caller
    <3>2. node[s].status \notin NodeTerminal
          BY <1>0, <1>1, <3>1 DEF StageInv, KnowsOK, Knows, NodeTerminal
    <3>3. \A u \in Stages : u # s => nodeGen'[u] = nodeGen[u]
          BY <1>0, <1>4 DEF TypeInv, TypeOK, Tracked
    <3>4. node'[s].status = to
          BY <1>4, NodeWrite
    <3>5. Claimed(s)'
          BY <1>1, <3>1, <3>4 DEF Claimed
    <3>6. Claimed(s)' \/ Cancellers = {} \/ (s > 1 /\ node[s - 1].status = "SUCCEEDED")
          BY <3>5
    <3>7. /\ op'[p].at \notin {"claimNode", "att", "handoff", "pause?", "next"}
          /\ op'[p].to # "READY"
          /\ op'[p].at = "run" => op'[p].s = s /\ op'[p].to = to
          BY <1>1, <2>1
    <3> QED
        BY <1>0, <1>4, <2>1, <2>4, <3>1, <3>2, <3>3, <3>6, <3>7, HolderFinal
  <2> QED
      BY <2>3, <2>4 DEF Procs
<1> QED
    BY <1>1, <1>2, <1>3, <1>4, NodeEffect

(* A run is written only by the call that wrote its node, once: the writes  *)
(* of CommitStageFailure and CancelWorkflow meet no finished run.           *)
LEMMA RunFinal ==
    ASSUME StageInv, FinalInv, NEW p \in Procs, UpdateRun(p)
    PROVE  FinalInv' /\ StaysFinal
<1>0. /\ TypeInv /\ ReliesOK /\ StageInv' /\ op[p] # None /\ op[p].at = "run" /\ UNCHANGED <<node, nodeGen>>
      /\ run \in [Stages -> Versioned(RunStatus)]
      BY RunEffect, RunKeeps DEF StageInv, FinalInv, TypeInv, TypeOK
<1>1. PICK s \in Stages, to \in RunStatus : s = op[p].s /\ to = op[p].to /\ to \in {"RUNNING", "SUCCEEDED", "FAILED", "CANCELLED"}
      BY <1>0, AtRecord
<1>2. \A q \in Procs : Follows(q)
  <2>1. AfterStage(p) \/ Goto(p, "att") \/ Return(p, FALSE)
        BY Zenon DEF UpdateRun
  <2>2. op[p].to = "SUCCEEDED" => Succeeding(op[p])
        BY <1>0 DEF Succeeding
  <2> QED
      BY <1>0, <2>1, <2>2, CallFollows
<1>3. CASE UNCHANGED <<run, runGen>>
      BY <1>0, <1>2, <1>3, FinalSame DEF StaysFinal
<1>4. CASE /\ run' = [run EXCEPT ![s] = [status |-> to, gen |-> @.gen + 1]]
           /\ run[s].gen \in {1, runGen[s]}
           /\ \A u \in Stages : u # s => runGen'[u] = runGen[u]
  <2>1. /\ run'[s].status = to /\ run'[s].gen = run[s].gen + 1 /\ run[s].gen \in Nat
        /\ \A u \in Stages : u # s => run'[u] = run[u]
        BY <1>0, <1>4 DEF Versioned
  <2>2. node[s].status = to /\ run[s].status \notin RunTerminal
        BY <1>0, <1>1, <1>4 DEF ReliesOK, Relies, Open, Lost
  <2>a. \A u \in Stages : u # s => (Open(u)' <=> Open(u))
        BY <1>4, <2>1 DEF Open, Lost
  <2>3. op'[p] = None \/ op'[p].at # "run"
    <3>1. CASE Return(p, FALSE)
          BY <1>0, <3>1, ReturnStep
    <3>2. CASE Goto(p, "att")
          BY <1>0, <3>2, GotoStep DEF Steps
    <3>3. CASE AfterStage(p)
          BY <1>0, <3>3, AfterStep
    <3> QED
        BY <3>1, <3>2, <3>3, Zenon DEF UpdateRun
  <2>4. SeedOK'
        BY <1>0 DEF FinalInv, SeedOK
  <2>5. GenOK'
        BY <1>0, <1>2 DEF FinalInv, GenOK, Follows, Claimed
  <2>6. \A q \in Procs : op'[q] # None /\ op'[q].at = "run" => op'[q] = op[q] /\ op[q].s # s
        BY <1>0, <1>1, <1>2, <2>3 DEF Follows, FinalInv, RunOK
  <2>7. ReliesOK'
    <3> SUFFICES ASSUME NEW q \in Procs, NEW o, o = op'[q], o # None
                 PROVE  Relies(o)'
        BY DEF ReliesOK
    <3>1. o.s \in Stages
          BY <1>0 DEF StageInv, TypeInv, TypeOK, Op
    <3> QED
        BY <1>0, <1>2, <2>a, <2>6, <3>1 DEF ReliesOK, Relies, Follows
  <2>8. RunOK'
    <3>1. \A u \in Stages : run'[u].gen >= 1 /\ (Open(u)' \/ node'[u].status \in NodeTerminal)
      <4> TAKE u \in Stages
      <4>1. CASE u = s
            BY <1>0, <1>1, <2>1, <2>2, <4>1 DEF FinalInv, RunOK, Open, NodeTerminal, RunTerminal
      <4>2. CASE u # s
            BY <1>0, <2>1, <2>a, <4>2 DEF FinalInv, RunOK
      <4> QED
          BY <4>1, <4>2
    <3> QED
        BY <1>2, <3>1 DEF FinalInv, RunOK, Follows
  <2>9. StaysFinal
        BY <1>0, <2>1, <2>2 DEF StaysFinal
  <2> QED
      BY <2>4, <2>5, <2>7, <2>8, <2>9 DEF FinalInv
<1> QED
    BY <1>1, <1>3, <1>4, RunEffect

(* ClaimNextReady takes a READY node along. *)
LEMMA ClaimFinal ==
    ASSUME StageInv, FinalInv, NEW p \in Procs, ClaimNextReady(p)
    PROVE  FinalInv' /\ StaysFinal
<1> DEFINE ready == {s \in Stages : node[s].status = "READY"}
<1>0. TypeInv /\ StageInv' /\ op[p] # None /\ op[p].at = "claim" /\ UNCHANGED <<node, nodeGen, run, runGen>>
      BY ClaimKeeps DEF StageInv, ClaimNextReady, At, store, gens
<1>1. CASE Return(p, TRUE)
      BY <1>0, <1>1, CallFollows, FinalSame DEF FinalInv, StaysFinal
<1>2. CASE ready # {} /\ op' = [op EXCEPT ![p].at = "claimNode", ![p].s = First(ready)]
  <2>1. PICK s \in Stages : s = First(ready) /\ node[s].status = "READY"
        BY <1>2, Earliest
  <2> DEFINE o == [op[p] EXCEPT !.at = "claimNode", !.s = s]
  <2>2. o.at = "claimNode" /\ o.to = op[p].to /\ o.s = s /\ op' = [op EXCEPT ![p] = o]
        BY <1>0, <1>2, <2>1, CallFields DEF Op
  <2> HIDE DEF o
  <2>3. op'[p] = o /\ \A q \in Procs : q # p => op'[q] = op[q]
        BY <1>0, <2>2 DEF TypeInv, TypeOK
  <2>4. o.to = "RUNNING"
        BY <1>0, <2>2, CallFields DEF Target
  <2>a. \A u : Open(u)' <=> Open(u)
        BY <1>0 DEF Open, Lost
  <2>5. SeedOK' /\ StaysFinal
        BY <1>0 DEF FinalInv, SeedOK, StaysFinal
  <2>6. GenOK'
        BY <1>0, <2>3, <2>4 DEF FinalInv, GenOK, Claimed, Succeeding
  <2>7. ReliesOK'
    <3> SUFFICES ASSUME NEW q \in Procs, NEW r, r = op'[q], r # None
                 PROVE  Relies(r)'
        BY DEF ReliesOK
    <3>1. CASE q = p
          BY <1>0, <2>1, <2>2, <2>3, <2>4, <3>1 DEF Relies
    <3>2. CASE q # p
          BY <1>0, <2>a, <2>3, <3>2 DEF FinalInv, ReliesOK, Relies
    <3> QED
        BY <3>1, <3>2
  <2>8. RunOK'
        BY <1>0, <2>a, <2>2, <2>3 DEF FinalInv, RunOK
  <2> QED
      BY <2>5, <2>6, <2>7, <2>8 DEF FinalInv
<1> QED
    BY <1>1, <1>2 DEF ClaimNextReady

(* Every step keeps the invariant and what is terminal. *)
LEMMA FinalStep ==
    ASSUME NoResumeOverCancel
    PROVE  StageInv /\ FinalInv /\ [Next]_vars => FinalInv' /\ StaysFinal
<1> SUFFICES ASSUME StageInv, FinalInv, [Next]_vars
             PROVE  FinalInv' /\ StaysFinal
    OBVIOUS
<1>0. StageInv'
      BY StageStep
<1>1. ASSUME UNCHANGED <<node, nodeGen, run, runGen>>, \A q \in Procs : Follows(q)
      PROVE  FinalInv' /\ StaysFinal
      BY <1>0, <1>1, FinalSame DEF StaysFinal
<1>2. ASSUME NEW p \in Procs, Step(p)
      PROVE  FinalInv' /\ StaysFinal
  <2>1. CASE \/ FindLaunchJob(p) \/ CreateAttempt(p) \/ PutIfAbsent(p) \/ EnsureLaunch(p) \/ AcknowledgeRunning(p)
             \/ UpdateAttempt(p) \/ CommitHandoff(p) \/ CheckPause(p) \/ ReadWorkflow(p) \/ Unpause(p)
             \/ UpdateWorkflow(p) \/ ListNodes(p)
        BY <1>1, <2>1, StepsFollow
  <2>2. CASE ClaimNextReady(p) \/ ClaimNode(p) \/ UpdateNode(p) \/ UpdateRun(p) \/ ReadyNext(p) \/ ReadyFirst(p)
        BY <2>2, ClaimFinal, ClaimNodeFinal, NodeFinal, RunFinal, ReadyNextFinal, ReadyFirstFinal
  <2> QED
      BY <1>2, <2>1, <2>2 DEF Step
<1>3. ASSUME NEW p \in Procs, LaunchFails(p) \/ RejectHandoff(p) \/ WriteFails(p)
      PROVE  FinalInv' /\ StaysFinal
      BY <1>1, <1>3, StepsFollow
<1>4. CASE \/ \E p \in Reconcilers : ReconcileOnce(p)
           \/ \E p \in Workers : \/ \E s \in Stages : CommitStageSuccess(p, s) \/ CommitStageFailure(p, s)
                                 \/ ResumeWorkflow(p)
           \/ \E p \in Cancellers : CancelWorkflow(p)
      BY <1>1, <1>4, CallsFollow
<1>5. CASE Crash
  <2>1. /\ UNCHANGED node /\ nodeGen' = [s \in Stages |-> 1] /\ runGen' = [s \in Stages |-> 1]
        /\ op' = [p \in Procs |-> None]
        BY <1>5 DEF Crash
  <2>2. \A s \in Stages :
           \/ run'[s] = run[s]
           \/ /\ run[s].status \notin RunTerminal
              /\ run'[s].status = "FAILED" /\ run'[s].gen = run[s].gen + 1
        BY <1>5, CrashRecords
  <2>3. SeedOK' /\ GenOK' /\ ReliesOK'
        BY <2>1 DEF FinalInv, SeedOK, GenOK, ReliesOK
  <2>4. RunOK'
    <3>1. ASSUME NEW s \in Stages
          PROVE  run'[s].gen >= 1 /\ (Open(s)' \/ node'[s].status \in NodeTerminal)
      <4>1. run[s].gen \in Nat /\ run[s].gen >= 1 /\ runGen'[s] = 1 /\ (Open(s) \/ node[s].status \in NodeTerminal)
            BY <2>1 DEF FinalInv, RunOK, StageInv, TypeInv, TypeOK, Versioned
      <4> QED
          BY <2>1, <2>2, <4>1 DEF Open, Lost
    <3> QED
        BY <2>1, <3>1 DEF RunOK
  <2>5. StaysFinal
        BY <2>1, <2>2 DEF StaysFinal
  <2> QED
      BY <2>3, <2>4, <2>5 DEF FinalInv
<1>6. CASE \/ RegisterPipelineWorkflow
           \/ \E command \in {"PAUSE", "RESUME"} : RequestControl(command)
           \/ RequestPause
           \/ \E s \in Stages : ContainerExits(s) \/ FenceStage(s)
           \/ UNCHANGED vars
  <2>1. op' = op /\ UNCHANGED <<node, nodeGen, run, runGen>>
        BY <1>6 DEF RegisterPipelineWorkflow, RequestControl, RequestPause, ContainerExits, FenceStage, vars, store, gens
  <2> QED
      BY <1>1, <2>1 DEF Follows
<1> QED
    BY <1>2, <1>3, <1>4, <1>5, <1>6 DEF Next

(* A terminal workflow record is not written again: a call presents the     *)
(* generation it read and validates the transition from the status it read. *)
LEMMA WorkflowFinal ==
    ASSUME StageInv, [Next]_vars, wf.status \in WorkflowTerminal
    PROVE  wf'.status = wf.status
<1>0. \A st \in WorkflowTerminal : st \in WorkflowStatus /\ WorkflowTransitions[st] = {} /\ st \notin {"RUNNING", "PAUSE_REQUESTED"}
      BY DEF WorkflowTerminal, WorkflowTransitions, RunTransitions, RunTerminal, RunStatus, WorkflowStatus
<1>1. ASSUME NEW p \in Procs, Unpause(p)
      PROVE  wf' = wf
  <2>1. op[p] # None /\ op[p].at = "unpause"
        BY <1>1 DEF Unpause, At
  <2>2. op[p].wf.gen # wf.gen
        BY <1>0, <2>1 DEF StageInv, TypeInv, WfOK
  <2> QED
      BY <1>1, <2>2 DEF Unpause
<1>2. ASSUME NEW p \in Procs, UpdateWorkflow(p)
      PROVE  wf' = wf
  <2>1. op[p] # None
        BY <1>2 DEF UpdateWorkflow, At
  <2>2. ~(wf.gen = op[p].wf.gen /\ WorkflowTarget(p) \in WorkflowTransitions[op[p].wf.status])
        BY <1>0, <2>1 DEF StageInv, TypeInv, WfOK
  <2> QED
      BY <1>2, <2>2 DEF UpdateWorkflow
<1>3. ASSUME NEW p \in Procs, Step(p)
      PROVE  wf' = wf
      BY <1>1, <1>2, <1>3 DEF Step, FindLaunchJob, ClaimNextReady, ClaimNode, CreateAttempt, PutIfAbsent, EnsureLaunch,
         AcknowledgeRunning, UpdateNode, UpdateRun, UpdateAttempt, CommitHandoff, CheckPause, ReadyNext, ReadWorkflow,
         ListNodes, ReadyFirst, store
<1>4. CASE \/ \E p \in Procs : LaunchFails(p) \/ RejectHandoff(p) \/ WriteFails(p)
           \/ \E p \in Reconcilers : ReconcileOnce(p)
           \/ \E p \in Workers : \/ \E s \in Stages : CommitStageSuccess(p, s) \/ CommitStageFailure(p, s)
                                 \/ ResumeWorkflow(p)
           \/ \E p \in Cancellers : CancelWorkflow(p)
      BY <1>4 DEF LaunchFails, RejectHandoff, WriteFails, ReconcileOnce, CommitStageSuccess, CommitStageFailure,
         ResumeWorkflow, CancelWorkflow, store
<1>5. CASE \/ Crash \/ RegisterPipelineWorkflow
           \/ \E command \in {"PAUSE", "RESUME"} : RequestControl(command)
           \/ RequestPause
           \/ \E s \in Stages : ContainerExits(s) \/ FenceStage(s)
           \/ UNCHANGED vars
      BY <1>0, <1>5 DEF Crash, RegisterPipelineWorkflow, RequestControl, RequestPause, ContainerExits, FenceStage, vars, store
<1> QED
    BY <1>3, <1>4, <1>5 DEF Next

(* A terminal attempt is not written again: a claim makes one only where    *)
(* there is none, and every other write validates the transition.           *)
LEMMA AttemptFinal ==
    ASSUME StageInv, [Next]_vars, NEW s \in Stages, att[s] # None, att[s].status \in AttemptTerminal
    PROVE  att'[s] = att[s]
<1>0. \A st \in AttemptTerminal : AttemptTransitions[st] = {}
      BY DEF AttemptTerminal, AttemptTransitions, AttemptStatus
<1>a. att \in [Stages -> Versioned(AttemptStatus) \cup {None}]
      BY DEF StageInv, TypeInv, TypeOK
<1>1. ASSUME NEW p \in Procs, CreateAttempt(p)
      PROVE  att'[s] = att[s]
  <2>1. op[p] # None /\ op[p].at = "attempt" /\ att' = [att EXCEPT ![op[p].s] = [status |-> "PENDING", gen |-> 1]]
        BY <1>1 DEF CreateAttempt, At
  <2>2. att[op[p].s] = None
        BY <2>1 DEF StageInv, KnowsOK, Knows
  <2> QED
      BY <1>a, <2>1, <2>2
<1>2. ASSUME NEW p \in Procs, UpdateAttempt(p)
      PROVE  att'[s] = att[s]
  <2>1. \/ att' = att
        \/ /\ op[p].to \in AttemptTransitions[att[op[p].s].status]
           /\ att' = [att EXCEPT ![op[p].s] = [status |-> op[p].to, gen |-> @.gen + 1]]
        BY <1>2, AttemptEffect
  <2> QED
      BY <1>0, <1>a, <2>1
<1>3. ASSUME NEW p \in Procs, Step(p)
      PROVE  att'[s] = att[s]
      BY <1>1, <1>2, <1>3 DEF Step, FindLaunchJob, ClaimNextReady, ClaimNode, PutIfAbsent, EnsureLaunch,
         AcknowledgeRunning, UpdateNode, UpdateRun, CommitHandoff, CheckPause, ReadyNext, ReadWorkflow, Unpause,
         UpdateWorkflow, ListNodes, ReadyFirst, store
<1>4. CASE \/ \E p \in Procs : LaunchFails(p) \/ RejectHandoff(p) \/ WriteFails(p)
           \/ \E p \in Reconcilers : ReconcileOnce(p)
           \/ \E p \in Workers : \/ \E t \in Stages : CommitStageSuccess(p, t) \/ CommitStageFailure(p, t)
                                 \/ ResumeWorkflow(p)
           \/ \E p \in Cancellers : CancelWorkflow(p)
      BY <1>4 DEF LaunchFails, RejectHandoff, WriteFails, ReconcileOnce, CommitStageSuccess, CommitStageFailure,
         ResumeWorkflow, CancelWorkflow, store
<1>5. CASE \/ RegisterPipelineWorkflow
           \/ \E command \in {"PAUSE", "RESUME"} : RequestControl(command)
           \/ RequestPause
           \/ \E t \in Stages : ContainerExits(t) \/ FenceStage(t)
           \/ UNCHANGED vars
      BY <1>5 DEF RegisterPipelineWorkflow, RequestControl, RequestPause, ContainerExits, FenceStage, vars, store
<1>6. CASE Crash
      BY <1>6, CrashRecords DEF Crash
<1> QED
    BY <1>3, <1>4, <1>5, <1>6 DEF Next

(* A seeded workflow has no terminal record. *)
LEMMA FinalInitially == Init => FinalInv
<1> SUFFICES ASSUME Init
             PROVE  FinalInv
    OBVIOUS
<1>1. SeedOK /\ GenOK
      BY DEF Init, SeedOK, GenOK
<1>2. ReliesOK
      BY DEF Init, ReliesOK
<1>3. RunOK
      BY DEF Init, RunOK, Open, RunTerminal
<1> QED
    BY <1>1, <1>2, <1>3 DEF FinalInv

(* Unless one workflow is both resumed and cancelled, no record leaves a    *)
(* terminal status: not the node of a cancel by a claim or a success that   *)
(* read it earlier, not a run by the unvalidated writes, and neither after  *)
(* restarts that empty the generation maps and fail what was open.          *)
THEOREM TerminalStays ==
    ASSUME NoResumeOverCancel
    PROVE  Spec => TerminalIsFinal
<1>2. StageInv /\ FinalInv /\ [Next]_vars => FinalInv'
      BY FinalStep
<1> DEFINE Kept == /\ wf.status \in WorkflowTerminal => wf'.status = wf.status
                   /\ \A s \in Stages :
                        /\ node[s].status \in NodeTerminal => node'[s].status = node[s].status
                        /\ run[s].status \in RunTerminal => run'[s].status = run[s].status
                        /\ (att[s] # None /\ att[s].status \in AttemptTerminal) => att'[s] = att[s]
<1>3. StageInv /\ FinalInv /\ [Next]_vars => [Kept]_vars
  <2> SUFFICES ASSUME StageInv, FinalInv, [Next]_vars
               PROVE  Kept
      OBVIOUS
  <2>1. StaysFinal
        BY FinalStep
  <2> QED
      BY <2>1, WorkflowFinal, AttemptFinal DEF StaysFinal
<1>4. TerminalIsFinal <=> [][Kept]_vars
      BY DEF TerminalIsFinal
<1> HIDE DEF Kept
<1> QED
    BY <1>2, <1>3, <1>4, FinalInitially, StagesHold, PTL DEF Spec

-----------------------------------------------------------------------------
(* Stages in order. *)

(* A workflow that may be resumed is not cancelled, loses no call half-way  *)
(* and has no failed stage.  A call that stops half-way leaves a stage that *)
(* ResumeWorkflow takes for finished.                                       *)
CalmResume ==
    "resume" \in Events =>
        Cancellers = {} /\ Events \cap {"crash", "write_error", "rejected_handoff", "failure"} = {}

(* A stage's own records say that it succeeded. *)
Done(s) == run[s].status = "SUCCEEDED" /\ att[s] # None /\ att[s].status = "SUCCEEDED"

(* A stage is behind the workflow: committed, with its handoff. *)
Passed(s) == node[s].status = "SUCCEEDED" /\ Done(s) /\ (s < StageCount => s \in handoffs)

(* What a call of CommitStageSuccess or ResumeWorkflow has got through. *)
Carries(o) ==
    /\ o.at \in {"node", "run"} /\ o.to = "SUCCEEDED" => att[o.s] # None
    /\ o.at = "att" /\ o.to = "SUCCEEDED" => att[o.s] # None /\ run[o.s].status = "SUCCEEDED"
    /\ o.at = "handoff" => Done(o.s)
    /\ o.at \in {"pause?", "next"} => Done(o.s) /\ o.s \in handoffs
    /\ o.at \in {"readWf", "unpause", "wf"} /\ o.to = "SUCCEEDED" => Passed(o.s)
    /\ o.at = "readyFirst" => \A u \in Stages : u < o.s => Passed(u)

(* Every call does. *)
CarriesOK == \A p \in Procs : op[p] # None => Carries(op[p])

(* Everything before a stage that was begun is behind the workflow, and so  *)
(* is every stage of a workflow that succeeded.                             *)
PassInv ==
    /\ \A s, t \in Stages : s < t /\ node[t].status \notin Fresh => Passed(s)
    /\ CarriesOK
    /\ wf.status = "SUCCEEDED" => \A s \in Stages : Passed(s)
    /\ handoffs \subseteq 1..(StageCount - 1)

(* A call is between the writes of stage s. *)
Busy(s) == \E p \in Procs : op[p] # None /\ op[p].s = s /\ op[p].at \in {"run", "att", "handoff"}

(* While nothing fails, a stage's records agree unless a call is between    *)
(* them.                                                                    *)
Recorded(s) ==
    /\ node[s].status \in {"PENDING", "READY", "LAUNCHING", "RUNNING", "SUCCEEDED"}
    /\ runGen[s] = run[s].gen /\ (att[s] # None => attGen[s] = att[s].gen)
    /\ node[s].status \in {"PENDING", "READY", "LAUNCHING"} =>
          run[s].status = "PENDING" /\ (att[s] # None => att[s].status = "PENDING")
    /\ node[s].status = "RUNNING" =>
          Busy(s) \/ (run[s].status = "RUNNING" /\ att[s] # None /\ att[s].status = "RUNNING")
    /\ node[s].status = "SUCCEEDED" => Busy(s) \/ Passed(s)

(* What the call between them finds. *)
Midway(o) ==
    /\ o.to # "FAILED"
    /\ o.at = "attempt" => node[o.s].status = "LAUNCHING"
    /\ o.at = "node" /\ o.to \in {"RUNNING", "SUCCEEDED"} => att[o.s] # None
    /\ o.at \in {"run", "att"} => node[o.s].status = o.to /\ att[o.s] # None
    /\ o.at = "run" /\ o.to = "RUNNING" => run[o.s].status = "PENDING" /\ att[o.s].status = "PENDING"
    /\ o.at = "att" /\ o.to = "RUNNING" => run[o.s].status = "RUNNING" /\ att[o.s].status = "PENDING"
    /\ o.at = "run" /\ o.to = "SUCCEEDED" => run[o.s].status = "RUNNING" /\ att[o.s].status = "RUNNING"
    /\ o.at = "att" /\ o.to = "SUCCEEDED" => run[o.s].status = "SUCCEEDED" /\ att[o.s].status = "RUNNING"
    /\ o.at = "handoff" => Done(o.s)

(* Every call does. *)
MidwayOK == \A p \in Procs : op[p] # None => Midway(op[p])

(* A workflow to which nothing happens but pauses and resumes. *)
Calm == (\A s \in Stages : Recorded(s)) /\ MidwayOK

(* What CalmResume is for. *)
CalmInv == "resume" \in Events => Calm

-----------------------------------------------------------------------------
(* Where the calls go that write no record of a stage. *)

(* The call of p leaves step x, for one of the steps X or to return. *)
Moves(p, x, X) ==
    /\ op[p] # None /\ op[p].at = x
    /\ \A q \in Procs : q # p => op'[q] = op[q]
    /\ \/ op'[p] = None
       \/ /\ op'[p].at \in X /\ op'[p].to = op[p].to
          /\ op'[p].at \notin {"claimNode", "readyFirst"} => op'[p].s = op[p].s

(* Other locals than the stage. *)
LEMMA SameStage ==
    ASSUME TypeInv, NEW p \in Procs, op[p] # None, NEW x, NEW v,
           \/ op' = [op EXCEPT ![p].at = x, ![p].gen = v]
           \/ op' = [op EXCEPT ![p].at = x, ![p].wf = v]
           \/ op' = [op EXCEPT ![p].at = x, ![p].nodes = v]
    PROVE  op'[p].s = op[p].s
<1>1. op \in [Procs -> Op \cup {None}] /\ op[p] \in Op
      BY DEF TypeInv, TypeOK
<1>2. ASSUME NEW o, op' = [op EXCEPT ![p] = o], o.s = op[p].s
      PROVE  op'[p].s = op[p].s
      BY <1>1, <1>2
<1>3. CASE op' = [op EXCEPT ![p].at = x, ![p].gen = v]
      BY <1>1, <1>2, <1>3 DEF Op
<1>4. CASE op' = [op EXCEPT ![p].at = x, ![p].wf = v]
      BY <1>1, <1>2, <1>4 DEF Op
<1>5. CASE op' = [op EXCEPT ![p].at = x, ![p].nodes = v]
      BY <1>1, <1>2, <1>5 DEF Op
<1> QED
    BY <1>3, <1>4, <1>5

(* Calls that return, go on, or take another local along. *)
LEMMA MovesBy ==
    ASSUME TypeInv, NEW p \in Procs, NEW x, NEW X, op[p] # None, op[p].at = x
    PROVE  /\ \A ok \in BOOLEAN : Return(p, ok) => Moves(p, x, X)
           /\ \A y \in X \cap Steps : Goto(p, y) => Moves(p, x, X)
           /\ \A y \in X : \A v :
                 (\/ op' = [op EXCEPT ![p].at = y, ![p].gen = v]
                  \/ op' = [op EXCEPT ![p].at = y, ![p].wf = v]
                  \/ op' = [op EXCEPT ![p].at = y, ![p].nodes = v]
                  \/ y \in {"claimNode", "readyFirst"} /\ op' = [op EXCEPT ![p].at = y, ![p].s = v])
                 => Moves(p, x, X)
<1>1. ASSUME NEW ok \in BOOLEAN, Return(p, ok)
      PROVE  Moves(p, x, X)
      BY <1>1, ReturnStep DEF Moves, Stepped
<1>2. ASSUME NEW y \in X \cap Steps, Goto(p, y)
      PROVE  Moves(p, x, X)
  <2>1. Stepped(p) /\ op'[p].at = y /\ SameLocals(op'[p], op[p])
        BY <1>2, GotoStep
  <2> QED
      BY <2>1 DEF Moves, Stepped, SameLocals
<1>3. ASSUME NEW y \in X, NEW v,
             \/ op' = [op EXCEPT ![p].at = y, ![p].gen = v]
             \/ op' = [op EXCEPT ![p].at = y, ![p].wf = v]
             \/ op' = [op EXCEPT ![p].at = y, ![p].nodes = v]
      PROVE  Moves(p, x, X)
      BY <1>3, Moved, SameStage DEF Moves
<1>4. ASSUME NEW y \in X, NEW v, y \in {"claimNode", "readyFirst"}, op' = [op EXCEPT ![p].at = y, ![p].s = v]
      PROVE  Moves(p, x, X)
      BY <1>4, Moved DEF Moves
<1>5. ASSUME NEW y \in X, NEW v,
             \/ op' = [op EXCEPT ![p].at = y, ![p].gen = v]
             \/ op' = [op EXCEPT ![p].at = y, ![p].wf = v]
             \/ op' = [op EXCEPT ![p].at = y, ![p].nodes = v]
             \/ y \in {"claimNode", "readyFirst"} /\ op' = [op EXCEPT ![p].at = y, ![p].s = v]
      PROVE  Moves(p, x, X)
      BY <1>3, <1>4, <1>5
<1> QED
    BY <1>1, <1>2, <1>5

(* The steps of calls that write no record of a stage. *)
LEMMA Routes ==
    ASSUME StageInv, NEW p \in Procs
    PROVE  /\ FindLaunchJob(p) => Moves(p, "find", {"put"})
           /\ ClaimNextReady(p) => Moves(p, "claim", {"claimNode"})
           /\ PutIfAbsent(p) => Moves(p, "put", {"launch"})
           /\ EnsureLaunch(p) => Moves(p, "launch", {"ack"})
           /\ LaunchFails(p) => Moves(p, "launch", {})
           /\ AcknowledgeRunning(p) => Moves(p, "ack", {"node"})
           /\ CheckPause(p) => Moves(p, "pause?", {"readWf", "next"})
           /\ ReadWorkflow(p) => Moves(p, "readWf", {"unpause", "wf"})
           /\ Unpause(p) => Moves(p, "unpause", {"wf"})
           /\ UpdateWorkflow(p) => Moves(p, "wf", {"list"})
           /\ ListNodes(p) => Moves(p, "list", {"node", "readyFirst"})
<1>0. TypeInv
      BY DEF StageInv
<1>a. \A y \in {"put", "launch", "ack", "node", "readWf", "next", "unpause", "wf", "list", "readyFirst", "claimNode"} : y \in Steps
      BY DEF Steps
<1>1. FindLaunchJob(p) => Moves(p, "find", {"put"})
  <2> HAVE FindLaunchJob(p)
  <2>1. PICK g : op' = [op EXCEPT ![p].at = "put", ![p].gen = g]
        BY DEF FindLaunchJob
  <2> QED
      BY <1>0, <2>1, MovesBy DEF FindLaunchJob, At
<1>2. ClaimNextReady(p) => Moves(p, "claim", {"claimNode"})
  <2> HAVE ClaimNextReady(p)
  <2>1. Return(p, TRUE) \/ \E v : op' = [op EXCEPT ![p].at = "claimNode", ![p].s = v]
        BY DEF ClaimNextReady
  <2>2. op[p] # None /\ op[p].at = "claim"
        BY DEF ClaimNextReady, At
  <2> QED
      BY <1>0, <2>1, <2>2, MovesBy
<1>3. PutIfAbsent(p) => Moves(p, "put", {"launch"})
      BY <1>0, <1>a, MovesBy DEF PutIfAbsent, At
<1>4. EnsureLaunch(p) => Moves(p, "launch", {"ack"})
  <2> HAVE EnsureLaunch(p)
  <2>1. op[p] # None /\ op[p].at = "launch" /\ Goto(p, "ack")
        BY DEF EnsureLaunch, At
  <2> QED
      BY <1>0, <1>a, <2>1, MovesBy
<1>5. LaunchFails(p) => Moves(p, "launch", {})
      BY <1>0, MovesBy DEF LaunchFails, At
<1>6. AcknowledgeRunning(p) => Moves(p, "ack", {"node"})
  <2> HAVE AcknowledgeRunning(p)
  <2>1. op[p] # None /\ op[p].at = "ack"
        BY DEF AcknowledgeRunning, At
  <2>2. Goto(p, "node") \/ Return(p, node[op[p].s].status = "RUNNING")
        BY DEF AcknowledgeRunning
  <2> QED
      BY <1>0, <1>a, <2>1, <2>2, MovesBy
<1>7. CheckPause(p) => Moves(p, "pause?", {"readWf", "next"})
  <2> HAVE CheckPause(p)
  <2>1. op[p] # None /\ op[p].at = "pause?"
        BY DEF CheckPause, At
  <2>2. Goto(p, "readWf") \/ Goto(p, "next")
        BY DEF CheckPause
  <2> QED
      BY <1>0, <1>a, <2>1, <2>2, MovesBy
<1>8. ReadWorkflow(p) => Moves(p, "readWf", {"unpause", "wf"})
  <2> HAVE ReadWorkflow(p)
  <2>1. op[p] # None /\ op[p].at = "readWf"
        BY DEF ReadWorkflow, At
  <2>2. \/ Return(p, TRUE) \/ Return(p, FALSE)
        \/ op' = [op EXCEPT ![p].at = "unpause", ![p].wf = wf]
        \/ op' = [op EXCEPT ![p].at = "wf", ![p].wf = wf]
        BY DEF ReadWorkflow
  <2> QED
      BY <1>0, <2>1, <2>2, MovesBy
<1>9. Unpause(p) => Moves(p, "unpause", {"wf"})
  <2> HAVE Unpause(p)
  <2>1. op[p] # None /\ op[p].at = "unpause"
        BY DEF Unpause, At
  <2>2. Return(p, FALSE) \/ op' = [op EXCEPT ![p].at = "wf", ![p].wf = wf']
        BY DEF Unpause
  <2> QED
      BY <1>0, <2>1, <2>2, MovesBy
<1>10. UpdateWorkflow(p) => Moves(p, "wf", {"list"})
  <2> HAVE UpdateWorkflow(p)
  <2>1. op[p] # None /\ op[p].at = "wf"
        BY DEF UpdateWorkflow, At
  <2>2. Return(p, TRUE) \/ Return(p, FALSE) \/ Goto(p, "list")
        BY DEF UpdateWorkflow
  <2> QED
      BY <1>0, <1>a, <2>1, <2>2, MovesBy
<1>11. ListNodes(p) => Moves(p, "list", {"node", "readyFirst"})
  <2> HAVE ListNodes(p)
  <2>1. op[p] # None /\ op[p].at = "list"
        BY DEF ListNodes, At
  <2>2. \/ Return(p, TRUE)
        \/ op' = [op EXCEPT ![p].at = "node", ![p].nodes = NodeStatuses]
        \/ \E v : op' = [op EXCEPT ![p].at = "readyFirst", ![p].s = v]
        BY DEF ListNodes
  <2> QED
      BY <1>0, <2>1, <2>2, MovesBy
<1> QED
    BY <1>1, <1>2, <1>3, <1>4, <1>5, <1>6, <1>7, <1>8, <1>9, <1>10, <1>11

-----------------------------------------------------------------------------
(* A workflow that may be resumed. *)

(* Without cancels, whoever is between two writes holds the mutex. *)
LEMMA Alone ==
    ASSUME StageInv, Cancellers = {}, NEW p \in Procs, mu \in {p, None}, NEW q \in Procs, q # p, op[q] # None
    PROVE  op[q].at \notin Locked
BY PipelineAssumption DEF StageInv, TypeInv, CallOK, Procs

(* The steps at which Midway says something. *)
Between == {"attempt", "node", "run", "att", "handoff"}

(* A step that writes no record of a stage. *)
LEMMA CalmSame ==
    ASSUME StageInv, Calm, NEW p \in Procs, \A q \in Procs : q # p => op'[q] = op[q],
           UNCHANGED <<node, run, att, handoffs, runGen, attGen>>,
           op[p] # None => op[p].at \notin {"run", "att", "handoff"},
           \A o : o = op'[p] /\ o # None => Midway(o)
    PROVE  Calm'
<1>1. \A s \in Stages : Busy(s) => Busy(s)'
  <2> SUFFICES ASSUME NEW s \in Stages, Busy(s)
               PROVE  Busy(s)'
      OBVIOUS
  <2>1. PICK q \in Procs : op[q] # None /\ op[q].s = s /\ op[q].at \in {"run", "att", "handoff"}
        BY DEF Busy
  <2>2. op'[q] = op[q]
        BY <2>1
  <2> QED
      BY <2>1, <2>2 DEF Busy
<1>2. \A s \in Stages : (Passed(s)' <=> Passed(s)) /\ (Done(s)' <=> Done(s))
      BY DEF Passed, Done
<1>3. ASSUME NEW s \in Stages
      PROVE  Recorded(s)'
  <2>1. Recorded(s)
        BY DEF Calm
  <2> QED
      BY <1>1, <1>2, <2>1 DEF Recorded
<1>4. MidwayOK'
  <2> SUFFICES ASSUME NEW q \in Procs, NEW o, o = op'[q], o # None
               PROVE  Midway(o)'
      BY DEF MidwayOK
  <2>1. Midway(o)
        BY DEF Calm, MidwayOK
  <2> QED
      BY <2>1 DEF Midway, Done
<1> QED
    BY <1>3, <1>4 DEF Calm

(* The holder of the mutex writes records of one stage. *)
LEMMA CalmWrite ==
    ASSUME StageInv, Calm, Cancellers = {}, NEW p \in Procs, mu = p, \A q \in Procs : q # p => op'[q] = op[q],
           NEW s \in Stages,
           op[p] # None => (op[p].at \in {"run", "att", "handoff"} => op[p].s = s),
           \A u \in Stages : u # s => /\ node'[u] = node[u] /\ run'[u] = run[u] /\ att'[u] = att[u]
                                      /\ runGen'[u] = runGen[u] /\ attGen'[u] = attGen[u]
                                      /\ u \in handoffs' <=> u \in handoffs,
           Recorded(s)',
           \A o : o = op'[p] /\ o # None => Midway(o)'
    PROVE  Calm'
<1>1. ASSUME NEW u \in Stages, u # s
      PROVE  Recorded(u)'
  <2>0. Recorded(u)
        BY DEF Calm
  <2>1. Busy(u) => Busy(u)'
    <3> SUFFICES ASSUME Busy(u)
                 PROVE  Busy(u)'
        OBVIOUS
    <3>1. PICK q \in Procs : op[q] # None /\ op[q].s = u /\ op[q].at \in {"run", "att", "handoff"}
          BY DEF Busy
    <3>2. op'[q] = op[q]
          BY <1>1, <3>1
    <3> QED
        BY <3>1, <3>2 DEF Busy
  <2>2. Passed(u)' <=> Passed(u)
        BY <1>1 DEF Passed, Done
  <2> QED
      BY <1>1, <2>0, <2>1, <2>2 DEF Recorded
<1>2. MidwayOK'
  <2> SUFFICES ASSUME NEW q \in Procs, NEW o, o = op'[q], o # None
               PROVE  Midway(o)'
      BY DEF MidwayOK
  <2>1. CASE q = p
        BY <2>1
  <2>2. CASE q # p
    <3>1. o = op[q] /\ Midway(o) /\ o.at \notin Locked
          BY <2>2, Alone DEF Calm, MidwayOK
    <3>2. o.at \notin Between
          BY <3>1 DEF Locked, Steps, Between
    <3> QED
        BY <3>1, <3>2 DEF Midway, Between
  <2> QED
      BY <2>1, <2>2
<1> QED
    BY <1>1, <1>2 DEF Calm

(* Steps of calls that write no record of a stage. *)
LEMMA CalmQuiet ==
    ASSUME StageInv, Calm, NEW p \in Procs,
           \/ FindLaunchJob(p) \/ ClaimNextReady(p) \/ PutIfAbsent(p) \/ EnsureLaunch(p) \/ LaunchFails(p)
           \/ AcknowledgeRunning(p) \/ CheckPause(p) \/ ReadWorkflow(p) \/ Unpause(p) \/ UpdateWorkflow(p) \/ ListNodes(p)
    PROVE  Calm'
<1>1. UNCHANGED <<node, run, att, handoffs, runGen, attGen>>
      BY DEF FindLaunchJob, ClaimNextReady, PutIfAbsent, EnsureLaunch, LaunchFails, AcknowledgeRunning, CheckPause,
         ReadWorkflow, Unpause, UpdateWorkflow, ListNodes, store, gens
<1>2. PICK x \in {"find", "claim", "put", "launch", "ack", "pause?", "readWf", "unpause", "wf", "list"} :
          /\ Moves(p, x, {"put", "claimNode", "launch", "ack", "readWf", "next", "unpause", "wf", "list", "readyFirst", "node"})
          /\ x \in {"ack", "list"} \/ Moves(p, x, {"put", "claimNode", "launch", "ack", "readWf", "next", "unpause", "wf", "list"})
          /\ x = "ack" => AcknowledgeRunning(p)
      BY Routes DEF Moves
<1>3. op[p] # None /\ op[p].at = x /\ Midway(op[p]) /\ op[p].s \in Stages /\ Target(op[p])
      BY <1>2, CallFields DEF Moves, Calm, MidwayOK, StageInv
<1>4. ASSUME NEW o, o = op'[p], o # None
      PROVE  Midway(o)
  <2>1. o.to = op[p].to /\ o.to # "FAILED"
        BY <1>2, <1>3, <1>4 DEF Moves, Midway
  <2>2. CASE o.at \in {"put", "claimNode", "launch", "ack", "readWf", "next", "unpause", "wf", "list", "readyFirst"}
        BY <2>1, <2>2 DEF Midway
  <2>3. CASE o.at = "node"
    <3>1. o.s = op[p].s /\ x \in {"ack", "list"}
          BY <1>2, <1>4, <2>3 DEF Moves
    <3>2. CASE x = "list"
          BY <1>3, <2>1, <2>3, <3>2 DEF Target, Midway
    <3>3. CASE x = "ack"
      <4>1. att[op[p].s] # None \/ Return(p, node[op[p].s].status = "RUNNING")
            BY <1>2, <3>3 DEF AcknowledgeRunning
      <4>2. ~Return(p, node[op[p].s].status = "RUNNING")
            BY <1>4, ReturnStep DEF StageInv
      <4> QED
          BY <2>1, <2>3, <3>1, <4>1, <4>2 DEF Midway
    <3> QED
        BY <3>1, <3>2, <3>3
  <2> QED
      BY <1>2, <1>4, <2>2, <2>3 DEF Moves
<1> QED
    BY <1>1, <1>2, <1>3, <1>4, CalmSame DEF Moves

(* Calls that begin. *)
LEMMA CalmCalls ==
    ASSUME StageInv, Calm, Cancellers = {}, "failure" \notin Events,
           \/ \E p \in Reconcilers : ReconcileOnce(p)
           \/ \E p \in Workers : \/ \E s \in Stages : CommitStageSuccess(p, s) \/ CommitStageFailure(p, s)
                                 \/ ResumeWorkflow(p)
           \/ \E p \in Cancellers : CancelWorkflow(p)
    PROVE  Calm'
<1>0. TypeInv /\ 1 \in Stages
      BY PipelineAssumption DEF StageInv, Stages
<1>1. ASSUME NEW p \in Procs, NEW x \in {"find", "claim", "wf", "node"}, NEW to \in {"RUNNING", "SUCCEEDED", "READY"},
             NEW s \in Stages, op[p] = None, Call(p, x, to, s), x = "node" => att[s] # None,
             UNCHANGED <<node, run, att, handoffs, runGen, attGen>>
      PROVE  Calm'
  <2>1. x \in Steps /\ to \in NodeStatus
        BY DEF Steps, NodeStatus, NodeTerminal
  <2>2. Stepped(p) /\ op'[p].at = x /\ op'[p].to = to /\ op'[p].s = s
        BY <1>0, <1>1, <2>1, CallStep
  <2>3. \A o : o = op'[p] /\ o # None => Midway(o)
        BY <1>1, <2>2 DEF Midway
  <2> QED
      BY <1>1, <2>2, <2>3, CalmSame DEF Stepped
<1>2. \A p \in Reconcilers : ReconcileOnce(p) =>
          /\ p \in Procs /\ op[p] = None /\ UNCHANGED <<node, run, att, handoffs, runGen, attGen>>
          /\ (\E s \in Stages : Call(p, "find", "RUNNING", s)) \/ Call(p, "claim", "RUNNING", 1)
      BY DEF ReconcileOnce, store, gens, Procs, Daemon
<1>3. \A p \in Workers, s \in Stages : CommitStageSuccess(p, s) =>
          /\ p \in Procs /\ op[p] = None /\ UNCHANGED <<node, run, att, handoffs, runGen, attGen>>
          /\ Call(p, "node", "SUCCEEDED", s) /\ att[s] # None
      BY DEF CommitStageSuccess, store, gens, Procs, Daemon
<1>4. \A p \in Workers : ResumeWorkflow(p) =>
          /\ p \in Procs /\ op[p] = None /\ UNCHANGED <<node, run, att, handoffs, runGen, attGen>>
          /\ Call(p, "wf", "READY", 1)
      BY DEF ResumeWorkflow, store, gens, Procs, Daemon
<1>5. \A p \in Workers, s \in Stages : ~CommitStageFailure(p, s)
      BY DEF CommitStageFailure
<1> QED
    BY <1>0, <1>1, <1>2, <1>3, <1>4, <1>5

(* ClaimNode and CreateAttempt. *)
LEMMA CalmClaim ==
    ASSUME StageInv, Calm, Cancellers = {}, NEW p \in Procs, ClaimNode(p)
    PROVE  Calm'
<1>0. TypeInv /\ op[p] # None /\ op[p].at = "claimNode" /\ UNCHANGED <<run, att, handoffs, runGen, attGen>>
      BY DEF StageInv, ClaimNode, At
<1>1. PICK s \in Stages : s = op[p].s
      BY <1>0, CallFields
<1> DEFINE w == Write(node[s], "LAUNCHING", nodeGen[s], IF node[s].status = "READY" THEN 2 ELSE 0)
<1>2. /\ node[s] \in Versioned(NodeStatus) /\ node[s].status \in {"READY", "CANCELLED"} /\ Recorded(s)
      /\ Midway(op[p]) /\ op[p].to = "RUNNING" /\ p \in Daemon
      BY <1>0, <1>1, CallFields DEF TypeInv, TypeOK, StageInv, KnowsOK, Knows, Calm, MidwayOK, Target, Caller, Daemon
<1>3. mu = p
      BY <1>0, <1>2 DEF TypeInv, CallOK, Locked, Steps
<1>4. w.rec = [status |-> "LAUNCHING", gen |-> node[s].gen + 1]
      BY <1>2, Written
<1>5. \/ /\ node' = [node EXCEPT ![s] = w.rec]
         /\ op' = [op EXCEPT ![p].at = "attempt", ![p].gen = node[s].gen]
      \/ Return(p, TRUE) /\ UNCHANGED node
      BY <1>1, Zenon DEF ClaimNode
<1> HIDE DEF w
<1>6. CASE Return(p, TRUE) /\ UNCHANGED node
  <2>1. op'[p] = None /\ \A q \in Procs : q # p => op'[q] = op[q]
        BY <1>0, <1>6, ReturnStep DEF Stepped
  <2> QED
      BY <1>0, <1>6, <2>1, CalmSame
<1>7. CASE /\ node' = [node EXCEPT ![s] = w.rec]
           /\ op' = [op EXCEPT ![p].at = "attempt", ![p].gen = node[s].gen]
  <2>1. /\ op'[p].at = "attempt" /\ op'[p].to = "RUNNING" /\ op'[p].s = s
        /\ \A q \in Procs : q # p => op'[q] = op[q]
        BY <1>0, <1>1, <1>2, <1>7, Moved, SameStage
  <2>2. node'[s].status = "LAUNCHING" /\ \A u \in Stages : u # s => node'[u] = node[u]
        BY <1>0, <1>4, <1>7 DEF TypeInv, TypeOK
  <2>3. Recorded(s)'
        BY <1>0, <1>2, <2>2 DEF Recorded
  <2>4. \A o : o = op'[p] /\ o # None => Midway(o)'
        BY <2>1, <2>2 DEF Midway
  <2> QED
      BY <1>0, <1>3, <2>1, <2>2, <2>3, <2>4, CalmWrite
<1> QED
    BY <1>5, <1>6, <1>7

(* CreateAttempt begins a record of its own. *)
LEMMA CalmCreate ==
    ASSUME StageInv, Calm, Cancellers = {}, NEW p \in Procs, CreateAttempt(p)
    PROVE  Calm'
<1>0. TypeInv /\ op[p] # None /\ op[p].at = "attempt" /\ UNCHANGED <<node, run, handoffs, runGen>> /\ Goto(p, "put")
      BY DEF StageInv, CreateAttempt, At
<1>1. PICK s \in Stages : s = op[p].s
      BY <1>0, CallFields
<1>2. /\ att' = [att EXCEPT ![s] = [status |-> "PENDING", gen |-> 1]] /\ attGen' = [attGen EXCEPT ![s] = 1]
      /\ att \in [Stages -> Versioned(AttemptStatus) \cup {None}] /\ attGen \in [Stages -> Nat]
      BY <1>0, <1>1 DEF CreateAttempt, TypeInv, TypeOK
<1>3. /\ Recorded(s) /\ Midway(op[p]) /\ op[p].to = "RUNNING" /\ p \in Daemon
      BY <1>0, <1>1, CallFields DEF Calm, MidwayOK, Target, Caller, Daemon
<1>4. mu = p /\ node[s].status = "LAUNCHING"
      BY <1>0, <1>1, <1>3 DEF TypeInv, CallOK, Locked, Steps, Midway
<1>5. /\ op'[p].at = "put" /\ op'[p].to = "RUNNING" /\ \A q \in Procs : q # p => op'[q] = op[q]
      BY <1>0, <1>3, GotoStep DEF Steps, SameLocals, Stepped
<1>6. /\ att'[s].status = "PENDING" /\ att'[s].gen = 1 /\ attGen'[s] = 1
      /\ \A u \in Stages : u # s => att'[u] = att[u] /\ attGen'[u] = attGen[u]
      BY <1>2
<1>7. Recorded(s)'
      BY <1>0, <1>3, <1>4, <1>6 DEF Recorded
<1>8. \A o : o = op'[p] /\ o # None => Midway(o)'
      BY <1>5 DEF Midway
<1> QED
    BY <1>0, <1>4, <1>5, <1>6, <1>7, <1>8, CalmWrite

(* UpdateNode: the call is now between the stage's records. *)
LEMMA CalmNode ==
    ASSUME StageInv, Calm, Cancellers = {}, NEW p \in Procs, UpdateNode(p)
    PROVE  Calm'
<1>0. /\ TypeInv /\ StageInv' /\ op[p] # None /\ op[p].at = "node" /\ UNCHANGED <<run, att, handoffs, runGen, attGen>>
      BY NodeEffect, NodeKeeps DEF StageInv
<1>1. PICK s \in Stages, to \in NodeStatus : s = op[p].s /\ to = op[p].to /\ to \in {"RUNNING", "SUCCEEDED", "FAILED", "CANCELLED"}
      BY <1>0, AtRecord
<1>2. /\ Recorded(s) /\ Midway(op[p]) /\ Knows(op[p]) /\ p \in Daemon /\ to \in {"RUNNING", "SUCCEEDED"}
      BY <1>0, <1>1, CallFields DEF Calm, MidwayOK, Midway, StageInv, KnowsOK, Caller, Procs
<1>3. mu = p
      BY <1>0, <1>2 DEF TypeInv, CallOK, Locked, Steps
<1>4. CASE Return(p, FALSE) /\ UNCHANGED <<node, nodeGen>>
  <2>1. op'[p] = None /\ \A q \in Procs : q # p => op'[q] = op[q]
        BY <1>0, <1>4, ReturnStep DEF Stepped
  <2> QED
      BY <1>0, <1>4, <2>1, CalmSame
<1>5. CASE Writes(s, to) /\ Goto(p, "run")
  <2>1. /\ op'[p] \in Op /\ op'[p].at = "run" /\ op'[p].to = to /\ op'[p].s = s
        /\ \A q \in Procs : q # p => op'[q] = op[q]
        BY <1>0, <1>1, <1>5, GotoStep DEF Steps, SameLocals, Stepped
  <2>2. op'[p] # None
        BY <2>1, NoneAssumption
  <2>3. node'[s].status = to /\ \A u \in Stages : u # s => node'[u] = node[u]
        BY <1>5, NodeWrite
  <2>4. Busy(s)'
        BY <2>1, <2>2 DEF Busy
  <2>5. Recorded(s)'
        BY <1>0, <1>2, <2>3, <2>4 DEF Recorded
  <2>6. ~Busy(s)
    <3>1. \A q \in Procs : q # p /\ op[q] # None => op[q].at \notin Locked
          BY <1>3, Alone
    <3>2. "run" \in Locked /\ "att" \in Locked /\ "handoff" \in Locked
          BY DEF Locked, Steps
    <3> QED
        BY <1>0, <3>1, <3>2 DEF Busy
  <2>7. /\ att[s] # None
        /\ to = "RUNNING" => run[s].status = "PENDING" /\ att[s].status = "PENDING"
        /\ to = "SUCCEEDED" => run[s].status = "RUNNING" /\ att[s].status = "RUNNING"
        BY <1>0, <1>1, <1>2, <2>6 DEF Midway, Knows, Recorded
  <2>8. \A o : o = op'[p] /\ o # None => Midway(o)'
        BY <1>0, <1>2, <2>1, <2>3, <2>7 DEF Midway
  <2> QED
      BY <1>0, <1>3, <2>1, <2>3, <2>5, <2>8, CalmWrite
<1> QED
    BY <1>1, <1>2, <1>4, <1>5, NodeEffect

(* UpdateRun: the run is where the node's writer expects it. *)
LEMMA CalmRun ==
    ASSUME StageInv, Calm, Cancellers = {}, NEW p \in Procs, UpdateRun(p)
    PROVE  Calm'
<1>0. /\ TypeInv /\ op[p] # None /\ op[p].at = "run" /\ UNCHANGED <<node, att, handoffs, attGen>>
      BY DEF StageInv, UpdateRun, At
<1>1. PICK s \in Stages, to \in RunStatus : s = op[p].s /\ to = op[p].to /\ to \in {"RUNNING", "SUCCEEDED", "FAILED", "CANCELLED"}
      BY <1>0, AtRecord
<1>2. /\ Recorded(s) /\ Midway(op[p]) /\ p \in Daemon /\ to \in {"RUNNING", "SUCCEEDED"} /\ p \notin Cancellers
      BY <1>0, <1>1, CallFields DEF Calm, MidwayOK, Midway, Caller, Procs
<1>3. mu = p /\ run \in [Stages -> Versioned(RunStatus)] /\ run[s] \in Versioned(RunStatus) /\ runGen \in [Stages -> Nat] /\ run[s].gen \in Nat
      BY <1>0, <1>2 DEF TypeInv, TypeOK, Versioned, CallOK, Locked, Steps
<1>4. /\ att[s] # None /\ node[s].status = to
      /\ to = "RUNNING" => run[s].status = "PENDING" /\ att[s].status = "PENDING"
      /\ to = "SUCCEEDED" => run[s].status = "RUNNING" /\ att[s].status = "RUNNING"
      /\ runGen[s] = run[s].gen
      BY <1>0, <1>1, <1>2 DEF Midway, Recorded
<1>5. to \in RunTransitions[run[s].status]
      BY <1>2, <1>4 DEF RunTransitions, RunStatus, RunTerminal
<1> DEFINE w == Write(run[s], to, Expected(p, runGen, s), 0)
<1>6. /\ w.rec = [status |-> to, gen |-> run[s].gen + 1]
      /\ w.ok = (run[s].gen \in Expected(p, runGen, s)..(Expected(p, runGen, s) + 0))
      BY <1>3, Written
<1>7. run[s].gen \in Expected(p, runGen, s)..(Expected(p, runGen, s) + 0)
      BY <1>2, <1>3, <1>4 DEF Expected
<1>8. to # "CANCELLED"
      BY <1>2
<1>9. \/ ~(w.ok /\ (to \in {"RUNNING", "SUCCEEDED"} => to \in RunTransitions[run[s].status]))
      \/ /\ run' = [run EXCEPT ![s] = w.rec]
         /\ runGen' = Tracked(p, runGen, s, w.rec)
         /\ Goto(p, "att")
      BY <1>1, <1>8, Zenon DEF UpdateRun
<1> HIDE DEF w
<1>10. w.ok
      BY <1>6, <1>7, Zenon
<1>11. /\ run' = [run EXCEPT ![s] = [status |-> to, gen |-> run[s].gen + 1]]
       /\ runGen' = [runGen EXCEPT ![s] = run[s].gen + 1]
       /\ Goto(p, "att")
      BY <1>2, <1>5, <1>6, <1>9, <1>10 DEF Tracked
<1>12. /\ run'[s].status = to /\ runGen'[s] = run'[s].gen
       /\ \A u \in Stages : u # s => run'[u] = run[u] /\ runGen'[u] = runGen[u]
      BY <1>3, <1>11
<1>13. /\ op'[p] \in Op /\ op'[p].at = "att" /\ op'[p].to = to /\ op'[p].s = s
       /\ \A q \in Procs : q # p => op'[q] = op[q]
      BY <1>0, <1>1, <1>11, GotoStep DEF Steps, SameLocals, Stepped
<1>14. Busy(s)'
      BY <1>13, NoneAssumption DEF Busy
<1>15. Recorded(s)'
      BY <1>0, <1>2, <1>4, <1>12, <1>14 DEF Recorded
<1>16. \A o : o = op'[p] /\ o # None => Midway(o)'
      BY <1>0, <1>2, <1>4, <1>12, <1>13 DEF Midway
<1> QED
    BY <1>0, <1>1, <1>3, <1>12, <1>13, <1>15, <1>16, CalmWrite

(* UpdateAttempt: so is the attempt. *)
LEMMA CalmAttempt ==
    ASSUME StageInv, Calm, Cancellers = {}, NEW p \in Procs, UpdateAttempt(p)
    PROVE  Calm'
<1>0. /\ TypeInv /\ op[p] # None /\ op[p].at = "att" /\ UNCHANGED <<node, run, handoffs, runGen>>
      BY DEF StageInv, UpdateAttempt, At
<1>1. PICK s \in Stages, to \in AttemptStatus : s = op[p].s /\ to = op[p].to /\ to \in {"RUNNING", "SUCCEEDED", "FAILED", "CANCELLED"}
      BY <1>0, AtRecord
<1>2. /\ Recorded(s) /\ Midway(op[p]) /\ p \in Daemon /\ to \in {"RUNNING", "SUCCEEDED"} /\ p \notin Cancellers
      BY <1>0, <1>1, CallFields DEF Calm, MidwayOK, Midway, Caller, Procs
<1>3. /\ att[s] # None /\ node[s].status = to /\ run[s].status = to
      /\ to = "RUNNING" => att[s].status = "PENDING"
      /\ to = "SUCCEEDED" => att[s].status = "RUNNING"
      /\ attGen[s] = att[s].gen
      BY <1>0, <1>1, <1>2 DEF Midway, Recorded
<1>4. /\ mu = p /\ att \in [Stages -> Versioned(AttemptStatus) \cup {None}] /\ att[s] \in Versioned(AttemptStatus)
      /\ attGen \in [Stages -> Nat] /\ att[s].gen \in Nat
      BY <1>0, <1>2, <1>3 DEF TypeInv, TypeOK, Versioned, CallOK, Locked, Steps
<1>5. to \in AttemptTransitions[att[s].status] /\ att[s].status # to /\ to # "CANCELLED"
      BY <1>2, <1>3 DEF AttemptTransitions, AttemptStatus, AttemptTerminal
<1> DEFINE w == Write(att[s], to, Expected(p, attGen, s), 0)
<1>6. /\ w.rec = [status |-> to, gen |-> att[s].gen + 1]
      /\ w.ok = (att[s].gen \in Expected(p, attGen, s)..(Expected(p, attGen, s) + 0))
      BY <1>4, Written
<1>7. att[s].gen \in Expected(p, attGen, s)..(Expected(p, attGen, s) + 0)
      BY <1>2, <1>3, <1>4 DEF Expected
<1>8. \/ ~(w.ok /\ to \in AttemptTransitions[att[s].status])
      \/ /\ att' = [att EXCEPT ![s] = w.rec]
         /\ attGen' = Tracked(p, attGen, s, w.rec)
         /\ AfterStage(p)
      BY <1>1, <1>3, <1>5, Zenon DEF UpdateAttempt
<1> HIDE DEF w
<1>9. w.ok
      BY <1>6, <1>7, Zenon
<1>10. /\ att' = [att EXCEPT ![s] = [status |-> to, gen |-> att[s].gen + 1]]
       /\ attGen' = [attGen EXCEPT ![s] = att[s].gen + 1]
       /\ AfterStage(p)
      BY <1>2, <1>5, <1>6, <1>8, <1>9 DEF Tracked
<1>11. /\ att'[s] = [status |-> to, gen |-> att[s].gen + 1] /\ att'[s].status = to /\ attGen'[s] = att'[s].gen
       /\ \A u \in Stages : u # s => att'[u] = att[u] /\ attGen'[u] = attGen[u]
      BY <1>4, <1>10
<1>12. att'[s] # None
  <2>1. att'[s] \in Versioned(AttemptStatus)
        BY <1>4, <1>11 DEF Versioned
  <2> QED
      BY <2>1, NoneAssumption
<1>13. /\ \A q \in Procs : q # p => op'[q] = op[q]
       /\ op'[p] # None => /\ op'[p].to = to
                           /\ \/ to = "SUCCEEDED" /\ s < StageCount /\ op'[p].at = "handoff" /\ op'[p].s = s
                              \/ to = "SUCCEEDED" /\ s = StageCount /\ op'[p].at = "readWf"
      BY <1>0, <1>1, <1>2, <1>10, AfterStep DEF Stepped
<1>14. to = "SUCCEEDED" /\ s < StageCount => Busy(s)'
  <2> SUFFICES ASSUME to = "SUCCEEDED", s < StageCount
               PROVE  Busy(s)'
      OBVIOUS
  <2>1. Goto(p, "handoff")
    <3>1. s # StageCount
          BY PipelineAssumption DEF Stages
    <3> QED
        BY <1>1, <1>10, <3>1 DEF AfterStage
  <2>2. op'[p] \in Op /\ op'[p].at = "handoff" /\ op'[p].s = s
        BY <1>0, <1>1, <2>1, GotoStep DEF Steps, SameLocals
  <2> QED
      BY <2>2, NoneAssumption DEF Busy
<1>15. to = "SUCCEEDED" => Done(s)'
      BY <1>0, <1>3, <1>11, <1>12 DEF Done
<1>16. Recorded(s)'
  <2>1. to = "SUCCEEDED" => Busy(s)' \/ Passed(s)'
        BY <1>0, <1>3, <1>14, <1>15 DEF Passed
  <2> QED
      BY <1>0, <1>2, <1>3, <1>11, <1>12, <2>1 DEF Recorded
<1>17. \A o : o = op'[p] /\ o # None => Midway(o)'
      BY <1>2, <1>13, <1>15 DEF Midway
<1> QED
    BY <1>0, <1>1, <1>4, <1>11, <1>13, <1>16, <1>17, CalmWrite

(* CommitHandoff: the stage is behind the workflow. *)
LEMMA CalmHandoff ==
    ASSUME StageInv, Calm, Cancellers = {}, NEW p \in Procs, CommitHandoff(p)
    PROVE  Calm'
<1>0. /\ TypeInv /\ op[p] # None /\ op[p].at = "handoff" /\ UNCHANGED <<node, run, att, runGen, attGen>> /\ Goto(p, "pause?")
      BY DEF StageInv, CommitHandoff, At, gens
<1>1. PICK s \in Stages : s = op[p].s
      BY <1>0, CallFields
<1>2. /\ op[p].to = "SUCCEEDED" /\ p \in Daemon /\ Midway(op[p]) /\ Knows(op[p]) /\ Recorded(s)
      /\ handoffs' = handoffs \cup {s}
      BY <1>0, <1>1, CallFields DEF Target, Caller, Daemon, Calm, MidwayOK, StageInv, KnowsOK, CommitHandoff
<1>3. mu = p /\ Done(s) /\ node[s].status = "SUCCEEDED"
      BY <1>0, <1>1, <1>2 DEF TypeInv, CallOK, Locked, Steps, Midway, Knows
<1>4. op'[p].at = "pause?" /\ op'[p].to = "SUCCEEDED" /\ \A q \in Procs : q # p => op'[q] = op[q]
      BY <1>0, <1>2, GotoStep DEF Steps, SameLocals, Stepped
<1>5. Recorded(s)'
      BY <1>0, <1>2, <1>3 DEF Recorded, Passed, Done
<1>6. \A o : o = op'[p] /\ o # None => Midway(o)'
      BY <1>4 DEF Midway
<1> QED
    BY <1>0, <1>1, <1>2, <1>3, <1>4, <1>5, <1>6, CalmWrite

(* What ReadyNext and ReadyFirst do: at most a write of READY to the stage  *)
(* at the front.                                                            *)
LEMMA Readies ==
    ASSUME StageInv, NEW p \in Procs, ReadyNext(p) \/ ReadyFirst(p)
    PROVE  /\ op[p] # None /\ p \in Daemon /\ mu = p /\ op'[p] = None /\ \A q \in Procs : q # p => op'[q] = op[q]
           /\ UNCHANGED <<wf, run, att, handoffs, runGen, attGen>>
           /\ \E t \in Stages : /\ \/ op[p].at = "next" /\ t = op[p].s + 1
                                   \/ op[p].at = "readyFirst" /\ t = op[p].s
                                /\ Front(t) /\ node[t].status \in Fresh
                                /\ node' = node \/ Writes(t, "READY")
<1>0. TypeInv
      BY DEF StageInv
<1>1. ASSUME ReadyNext(p)
      PROVE  /\ op[p] # None /\ p \in Daemon /\ mu = p /\ op'[p] = None /\ Stepped(p)
             /\ UNCHANGED <<wf, run, att, handoffs, runGen, attGen>>
             /\ \E t \in Stages : /\ op[p].at = "next" /\ t = op[p].s + 1
                                  /\ Front(t) /\ node[t].status \in Fresh
                                  /\ node' = node \/ Writes(t, "READY")
  <2>1. /\ op[p] # None /\ op[p].at = "next" /\ Return(p, TRUE)
        /\ UNCHANGED <<wf, run, att, handoffs, runGen, attGen>>
        BY <1>1 DEF ReadyNext, At
  <2>2. op[p].to = "SUCCEEDED" /\ op[p].s \in Stages /\ op[p].s < StageCount
        BY <1>0, <2>1, CallFields DEF Target
  <2>3. p \in Daemon /\ mu = p
        BY <1>0, <2>1, <2>2, CallFields DEF Caller, Daemon, TypeInv, CallOK, Locked, Steps
  <2>4. PICK t \in Stages : t = op[p].s + 1 /\ op[p].s \in Nat /\ \A u \in Stages : u \in Nat
        BY <2>2, PipelineAssumption DEF Stages
  <2>5. node[op[p].s].status = "SUCCEEDED" /\ Front(op[p].s)
        BY <2>1, <2>2 DEF StageInv, KnowsOK, Knows
  <2>6. Front(t) /\ node[t].status \in Fresh
        BY <2>4, <2>5 DEF Front, ActiveNode, Fresh
  <2> DEFINE w == Write(node[t], "READY", nodeGen[t], 0)
  <2>7. w.rec = [status |-> "READY", gen |-> node[t].gen + 1]
        BY <1>0, <2>4, Written DEF TypeInv, TypeOK
  <2>8. node' = IF w.ok THEN [node EXCEPT ![t] = w.rec] ELSE node
        BY <1>1, <2>4, Zenon DEF ReadyNext
  <2> HIDE DEF w
  <2>9. node' = node \/ Writes(t, "READY")
        BY <2>7, <2>8 DEF Writes
  <2> QED
      BY <1>0, <2>1, <2>3, <2>4, <2>6, <2>9, ReturnStep
<1>2. ASSUME ReadyFirst(p)
      PROVE  /\ op[p] # None /\ p \in Daemon /\ mu = p /\ op'[p] = None /\ Stepped(p)
             /\ UNCHANGED <<wf, run, att, handoffs, runGen, attGen>>
             /\ \E t \in Stages : /\ op[p].at = "readyFirst" /\ t = op[p].s
                                  /\ Front(t) /\ node[t].status \in Fresh
                                  /\ node' = node \/ Writes(t, "READY")
  <2>1. /\ op[p] # None /\ op[p].at = "readyFirst"
        /\ UNCHANGED <<wf, run, att, handoffs, runGen, attGen>>
        BY <1>2 DEF ReadyFirst, At
  <2>2. op[p].to = "READY"
        BY <1>0, <2>1, CallFields DEF Target
  <2>3. p \in Daemon /\ mu = p
        BY <1>0, <2>1, <2>2, CallFields DEF Caller, Daemon, TypeInv, CallOK, Locked, Steps
  <2>4. PICK t \in Stages : t = op[p].s
        BY <1>0, <2>1, CallFields
  <2>5. Front(t) /\ node[t].status \in Fresh
        BY <2>1, <2>4 DEF StageInv, KnowsOK, Knows
  <2> DEFINE w == Write(node[t], "READY", nodeGen[t], 2)
  <2>6. w.rec = [status |-> "READY", gen |-> node[t].gen + 1]
        BY <1>0, <2>4, Written DEF TypeInv, TypeOK
  <2>7. w.ok \in BOOLEAN
        BY DEF Write
  <2>8. node' = (IF w.ok THEN [node EXCEPT ![t] = w.rec] ELSE node) /\ Return(p, w.ok)
        BY <1>2, <2>4, Zenon DEF ReadyFirst
  <2> HIDE DEF w
  <2>9. node' = node \/ Writes(t, "READY")
        BY <2>6, <2>8 DEF Writes
  <2>10. Stepped(p) /\ op'[p] = None
        BY <1>0, <2>7, <2>8, ReturnStep
  <2> QED
      BY <2>1, <2>3, <2>4, <2>5, <2>9, <2>10
<1> QED
    BY <1>1, <1>2 DEF Stepped

(* ReadyNext and ReadyFirst ready a stage that is PENDING in all its records. *)
LEMMA CalmReady ==
    ASSUME StageInv, Calm, Cancellers = {}, NEW p \in Procs, ReadyNext(p) \/ ReadyFirst(p)
    PROVE  Calm'
<1>1. /\ op[p] # None /\ mu = p /\ op'[p] = None /\ \A q \in Procs : q # p => op'[q] = op[q]
      /\ UNCHANGED <<run, att, handoffs, runGen, attGen>>
      BY Readies
<1>2. PICK t \in Stages : /\ op[p].at \in {"next", "readyFirst"}
                          /\ node[t].status \in Fresh
                          /\ node' = node \/ Writes(t, "READY")
      BY Readies
<1>3. CASE node' = node
      BY <1>1, <1>2, <1>3, CalmSame
<1>4. CASE Writes(t, "READY")
  <2>1. node'[t].status = "READY" /\ \A u \in Stages : u # t => node'[u] = node[u]
        BY <1>4, NodeWrite DEF NodeStatus
  <2>2. Recorded(t) /\ node[t].status = "PENDING"
        BY <1>2 DEF Calm, Recorded, Fresh
  <2>3. Recorded(t)'
        BY <1>1, <2>1, <2>2 DEF Recorded
  <2> QED
      BY <1>1, <1>2, <2>1, <2>3, CalmWrite
<1> QED
    BY <1>2, <1>3, <1>4

(* Every step keeps a calm workflow calm. *)
LEMMA CalmStep ==
    ASSUME CalmResume
    PROVE  StageInv /\ CalmInv /\ [Next]_vars => CalmInv'
<1> SUFFICES ASSUME StageInv, CalmInv, [Next]_vars, "resume" \in Events
             PROVE  Calm'
    BY DEF CalmInv
<1>0. /\ Calm /\ Cancellers = {} /\ "crash" \notin Events /\ "write_error" \notin Events
      /\ "rejected_handoff" \notin Events /\ "failure" \notin Events
      BY DEF CalmInv, CalmResume
<1>1. ASSUME NEW p \in Procs, Step(p)
      PROVE  Calm'
      BY <1>0, <1>1, CalmQuiet, CalmClaim, CalmCreate, CalmNode, CalmRun, CalmAttempt, CalmHandoff, CalmReady DEF Step
<1>2. ASSUME NEW p \in Procs, LaunchFails(p) \/ RejectHandoff(p) \/ WriteFails(p)
      PROVE  Calm'
  <2>1. CASE LaunchFails(p)
        BY <1>0, <2>1, CalmQuiet
  <2>2. CASE RejectHandoff(p)
        BY <1>0, <2>2 DEF RejectHandoff
  <2>3. CASE WriteFails(p)
    <3>1. /\ op[p] # None /\ op[p].at = "wf" /\ Return(p, FALSE) /\ UNCHANGED <<node, run, att, handoffs, runGen, attGen>>
          BY <1>0, <2>3 DEF WriteFails, store, gens
    <3>2. op'[p] = None /\ \A q \in Procs : q # p => op'[q] = op[q]
          BY <3>1, ReturnStep DEF Stepped, StageInv
    <3> QED
        BY <1>0, <3>1, <3>2, CalmSame
  <2> QED
      BY <1>2, <2>1, <2>2, <2>3
<1>3. CASE \/ \E p \in Reconcilers : ReconcileOnce(p)
           \/ \E p \in Workers : \/ \E s \in Stages : CommitStageSuccess(p, s) \/ CommitStageFailure(p, s)
                                 \/ ResumeWorkflow(p)
           \/ \E p \in Cancellers : CancelWorkflow(p)
      BY <1>0, <1>3, CalmCalls
<1>4. CASE \/ RegisterPipelineWorkflow
           \/ \E command \in {"PAUSE", "RESUME"} : RequestControl(command)
           \/ RequestPause
           \/ \E s \in Stages : ContainerExits(s) \/ FenceStage(s)
           \/ UNCHANGED vars
  <2>1. UNCHANGED <<op, node, run, att, handoffs, runGen, attGen>>
        BY <1>4 DEF RegisterPipelineWorkflow, RequestControl, RequestPause, ContainerExits, FenceStage, vars, store, gens
  <2>2. \A s \in Stages : (Recorded(s)' <=> Recorded(s))
        BY <2>1 DEF Recorded, Busy, Passed, Done
  <2>3. MidwayOK' <=> MidwayOK
        BY <2>1 DEF MidwayOK, Midway, Done
  <2> QED
      BY <1>0, <2>2, <2>3 DEF Calm
<1>5. ~Crash
      BY <1>0 DEF Crash
<1> QED
    BY <1>1, <1>2, <1>3, <1>4, <1>5 DEF Next

(* A seeded workflow is calm. *)
LEMMA CalmInitially == Init => CalmInv
<1> SUFFICES ASSUME Init
             PROVE  Calm
    BY DEF CalmInv
<1>1. ASSUME NEW s \in Stages
      PROVE  Recorded(s)
      BY DEF Init, Recorded
<1>2. MidwayOK
      BY DEF Init, MidwayOK
<1> QED
    BY <1>1, <1>2 DEF Calm

-----------------------------------------------------------------------------
(* What is behind the workflow stays there. *)

(* No step takes away an attempt or a handoff. *)
LEMMA RecordsStay ==
    ASSUME StageInv, [Next]_vars
    PROVE  handoffs \subseteq handoffs' /\ \A s \in Stages : att[s] # None => att'[s] # None
<1>a. att \in [Stages -> Versioned(AttemptStatus) \cup {None}] /\ \A a \in Versioned(AttemptStatus) : a # None
      BY NoneAssumption DEF StageInv, TypeInv, TypeOK
<1>1. ASSUME NEW p \in Procs, CreateAttempt(p)
      PROVE  handoffs' = handoffs /\ \A s \in Stages : att[s] # None => att'[s] # None
  <2>1. handoffs' = handoffs /\ att' = [att EXCEPT ![op[p].s] = [status |-> "PENDING", gen |-> 1]]
        BY <1>1 DEF CreateAttempt
  <2>2. [status |-> "PENDING", gen |-> 1] \in Versioned(AttemptStatus)
        BY DEF Versioned, AttemptStatus
  <2> QED
      BY <1>a, <2>1, <2>2
<1>2. ASSUME NEW p \in Procs, UpdateAttempt(p)
      PROVE  handoffs' = handoffs /\ \A s \in Stages : att[s] # None => att'[s] # None
  <2>1. /\ op[p] # None /\ op[p].at = "att" /\ op[p].s \in Stages /\ handoffs' = handoffs
        /\ \/ att' = att
           \/ /\ att[op[p].s] # None
              /\ att' = [att EXCEPT ![op[p].s] = [status |-> op[p].to, gen |-> @.gen + 1]]
        BY <1>2, AttemptEffect
  <2>2. op[p].to \in AttemptStatus
        BY <2>1, AtRecord DEF StageInv
  <2>3. att[op[p].s] # None => [status |-> op[p].to, gen |-> att[op[p].s].gen + 1] \in Versioned(AttemptStatus)
        BY <1>a, <2>1, <2>2 DEF Versioned
  <2> QED
      BY <1>a, <2>1, <2>3
<1>3. ASSUME NEW p \in Procs, Step(p)
      PROVE  handoffs \subseteq handoffs' /\ \A s \in Stages : att[s] # None => att'[s] # None
      BY <1>1, <1>2, <1>3 DEF Step, FindLaunchJob, ClaimNextReady, ClaimNode, PutIfAbsent, EnsureLaunch,
         AcknowledgeRunning, UpdateNode, UpdateRun, CommitHandoff, CheckPause, ReadyNext, ReadWorkflow, Unpause,
         UpdateWorkflow, ListNodes, ReadyFirst, store
<1>4. CASE \/ \E p \in Procs : LaunchFails(p) \/ RejectHandoff(p) \/ WriteFails(p)
           \/ \E p \in Reconcilers : ReconcileOnce(p)
           \/ \E p \in Workers : \/ \E t \in Stages : CommitStageSuccess(p, t) \/ CommitStageFailure(p, t)
                                 \/ ResumeWorkflow(p)
           \/ \E p \in Cancellers : CancelWorkflow(p)
      BY <1>4 DEF LaunchFails, RejectHandoff, WriteFails, ReconcileOnce, CommitStageSuccess, CommitStageFailure,
         ResumeWorkflow, CancelWorkflow, store
<1>5. CASE \/ RegisterPipelineWorkflow
           \/ \E command \in {"PAUSE", "RESUME"} : RequestControl(command)
           \/ RequestPause
           \/ \E t \in Stages : ContainerExits(t) \/ FenceStage(t)
           \/ UNCHANGED vars
      BY <1>5 DEF RegisterPipelineWorkflow, RequestControl, RequestPause, ContainerExits, FenceStage, vars, store
<1>6. CASE Crash
      BY <1>6, CrashRecords DEF Crash
<1> QED
    BY <1>3, <1>4, <1>5, <1>6 DEF Next

(* A step that takes nothing back. *)
Keeps ==
    \A s \in Stages : /\ Done(s) => Done(s)'
                      /\ Passed(s) => Passed(s)'
                      /\ att[s] # None => att'[s] # None
                      /\ run[s].status = "SUCCEEDED" => run'[s].status = "SUCCEEDED"
                      /\ s \in handoffs => s \in handoffs'

(* Every step is one. *)
LEMMA NothingBack ==
    ASSUME NoResumeOverCancel, StageInv, FinalInv, [Next]_vars
    PROVE  Keeps
<1>1. StaysFinal
      BY FinalStep
<1>2. /\ \A s \in Stages : /\ node[s].status = "SUCCEEDED" => node'[s].status = "SUCCEEDED"
                           /\ run[s].status = "SUCCEEDED" => run'[s].status = "SUCCEEDED"
                           /\ s \in handoffs => s \in handoffs'
                           /\ att[s] # None => att'[s] # None
      BY <1>1, RecordsStay DEF StaysFinal, NodeTerminal, RunTerminal
<1>3. \A s \in Stages : att[s] # None /\ att[s].status = "SUCCEEDED" => att'[s] = att[s]
      BY AttemptFinal DEF AttemptTerminal
<1>4. \A s \in Stages : Done(s) => Done(s)'
      BY <1>2, <1>3 DEF Done
<1>5. \A s \in Stages : Passed(s) => Passed(s)'
      BY <1>2, <1>4 DEF Passed
<1> QED
    BY <1>2, <1>4, <1>5 DEF Keeps

(* So a call keeps what it carries. *)
LEMMA CarriesStays ==
    ASSUME Keeps, NEW o, o.s \in Stages, Carries(o)
    PROVE  Carries(o)'
BY DEF Keeps, Carries

-----------------------------------------------------------------------------
(* What the calls get through. *)

(* Steps of calls that write no record of a stage. *)
LEMMA QuietCarries ==
    ASSUME StageInv, PassInv, NEW p \in Procs,
           \/ FindLaunchJob(p) \/ ClaimNextReady(p) \/ PutIfAbsent(p) \/ EnsureLaunch(p) \/ LaunchFails(p)
           \/ AcknowledgeRunning(p) \/ CheckPause(p) \/ ReadWorkflow(p) \/ Unpause(p) \/ UpdateWorkflow(p) \/ ListNodes(p),
           NEW o, o = op'[p], o # None, o.at # "readyFirst"
    PROVE  Carries(o)
<1>1. PICK x : /\ \/ Moves(p, x, {"put", "claimNode", "launch", "ack", "list"})
                  \/ x \in {"ack", "list"} /\ Moves(p, x, {"node", "readyFirst"})
                  \/ x = "pause?" /\ Moves(p, x, {"readWf", "next"})
                  \/ x \in {"readWf", "unpause"} /\ Moves(p, x, {"unpause", "wf"})
      BY Routes DEF Moves
<1>2. op[p] # None /\ op[p].at = x /\ Carries(op[p]) /\ Knows(op[p]) /\ op[p].s \in Stages /\ Target(op[p])
      BY <1>1, CallFields DEF Moves, PassInv, CarriesOK, StageInv, KnowsOK
<1>3. CASE Moves(p, x, {"put", "claimNode", "launch", "ack", "list"})
      BY <1>3 DEF Moves, Carries
<1>4. CASE x \in {"ack", "list"} /\ Moves(p, x, {"node", "readyFirst"})
  <2>1. o.at = "node" /\ o.to # "SUCCEEDED"
        BY <1>2, <1>4 DEF Moves, Target
  <2> QED
      BY <2>1 DEF Carries
<1>5. CASE x = "pause?" /\ Moves(p, x, {"readWf", "next"})
  <2>1. o.at \in {"readWf", "next"} /\ o.s = op[p].s /\ Passed(op[p].s) /\ Done(op[p].s) /\ op[p].s \in handoffs
        BY <1>2, <1>5 DEF Moves, Target, Knows, Carries, Passed
  <2> QED
      BY <2>1 DEF Carries
<1>6. CASE x \in {"readWf", "unpause"} /\ Moves(p, x, {"unpause", "wf"})
  <2>1. o.at \in {"unpause", "wf"} /\ o.s = op[p].s /\ o.to = op[p].to /\ (op[p].to = "SUCCEEDED" => Passed(op[p].s))
        BY <1>2, <1>6 DEF Moves, Carries
  <2> QED
      BY <2>1 DEF Carries
<1> QED
    BY <1>1, <1>3, <1>4, <1>5, <1>6

(* ResumeWorkflow finds every stage before the earliest PENDING one behind  *)
(* the workflow when nothing stopped half-way.                              *)
LEMMA ListCarries ==
    ASSUME StageInv, FinalInv, CalmInv, CalmResume, NEW p \in Procs, ListNodes(p),
           NEW o, o = op'[p], o # None, o.at = "readyFirst"
    PROVE  Carries(o)
<1> DEFINE statuses == {NodeStatuses[s] : s \in Stages}
           pending  == {s \in Stages : node[s].status = "PENDING"}
<1>0. TypeInv /\ op[p] # None /\ op[p].at = "list"
      BY DEF StageInv, ListNodes, At
<1>1. op[p].to \in {"CANCELLED", "READY"} /\ Relies(op[p])
      BY <1>0, CallFields DEF Target, FinalInv, ReliesOK
<1>2. ~Return(p, TRUE) /\ op' # [op EXCEPT ![p].at = "node", ![p].nodes = NodeStatuses]
  <2>1. Return(p, TRUE) => op'[p] = None
        BY <1>0, ReturnStep
  <2>2. ASSUME NEW v, op' = [op EXCEPT ![p].at = "node", ![p].nodes = v]
        PROVE  op'[p].at = "node"
        BY <1>0, <2>2, Moved
  <2> QED
      BY <2>1, <2>2
<1>3. /\ op[p].to = "READY" /\ statuses \cap ActiveNode = {} /\ pending # {}
      /\ op' = [op EXCEPT ![p].at = "readyFirst", ![p].s = First(pending)]
      BY <1>1, <1>2 DEF ListNodes
<1>4. PICK s \in Stages : s = First(pending) /\ \A u \in pending : s <= u
      BY <1>3, Earliest
<1>5. o.s = s
  <2> DEFINE r == [op[p] EXCEPT !.at = "readyFirst", !.s = s]
  <2>1. r.s = s /\ op \in [Procs -> Op \cup {None}]
        BY <1>0, CallFields DEF Op, TypeInv, TypeOK
  <2>2. op' = [op EXCEPT ![p] = r]
        BY <1>3, <1>4
  <2> HIDE DEF r
  <2> QED
      BY <2>1, <2>2
<1>6. Calm /\ Cancellers = {}
      BY <1>1, <1>3 DEF Relies, CalmInv, CalmResume
<1>7. mu = p
      BY <1>0, <1>6 DEF TypeInv, CallOK, Procs, Locked, Steps
<1>8. \A u \in Stages : ~Busy(u)
  <2>1. \A q \in Procs : q # p /\ op[q] # None => op[q].at \notin Locked
        BY <1>6, <1>7, Alone
  <2>2. "run" \in Locked /\ "att" \in Locked /\ "handoff" \in Locked
        BY DEF Locked, Steps
  <2> QED
      BY <1>0, <2>1, <2>2 DEF Busy
<1>9. ASSUME NEW u \in Stages, u < s
      PROVE  Passed(u)
  <2>1. node[u].status \notin ActiveNode
        BY <1>3 DEF NodeStatuses
  <2>2. node[u].status # "PENDING"
        BY <1>4, <1>9, PipelineAssumption DEF Stages
  <2>3. Recorded(u)
        BY <1>6 DEF Calm
  <2> QED
      BY <1>8, <2>1, <2>2, <2>3 DEF Recorded, ActiveNode
<1> QED
    BY <1>5, <1>9 DEF Carries

(* Calls that begin. *)
LEMMA CallsCarry ==
    ASSUME StageInv,
           NEW p \in Procs,
           \/ p \in Reconcilers /\ ReconcileOnce(p)
           \/ p \in Workers /\ \/ \E s \in Stages : CommitStageSuccess(p, s) \/ CommitStageFailure(p, s)
                               \/ ResumeWorkflow(p)
           \/ p \in Cancellers /\ CancelWorkflow(p)
    PROVE  Stepped(p) /\ \A o : o = op'[p] => Carries(o)
<1>0. TypeInv /\ 1 \in Stages
      BY PipelineAssumption DEF StageInv, Stages
<1>1. \E x \in {"find", "claim", "wf", "node", "list"}, to \in {"RUNNING", "SUCCEEDED", "FAILED", "CANCELLED", "READY"}, s \in Stages :
          /\ Call(p, x, to, s)
          /\ x = "node" /\ to = "SUCCEEDED" => att[s] # None
          /\ x = "wf" => to # "SUCCEEDED"
      BY <1>0 DEF ReconcileOnce, CommitStageSuccess, CommitStageFailure, ResumeWorkflow, CancelWorkflow
<1>2. PICK x \in {"find", "claim", "wf", "node", "list"}, to \in {"RUNNING", "SUCCEEDED", "FAILED", "CANCELLED", "READY"}, s \in Stages :
          /\ Call(p, x, to, s)
          /\ x = "node" /\ to = "SUCCEEDED" => att[s] # None
          /\ x = "wf" => to # "SUCCEEDED"
      BY <1>1
<1>3. x \in Steps /\ to \in NodeStatus
      BY DEF Steps, NodeStatus, NodeTerminal
<1>4. Stepped(p) /\ op'[p].at = x /\ op'[p].to = to /\ op'[p].s = s
      BY <1>0, <1>2, <1>3, CallStep
<1> QED
    BY <1>2, <1>4 DEF Carries

(* Steps that write a stage's records.  A success gets through each of them  *)
(* or returns: it has an attempt, and an attempt that it need not write is   *)
(* one that is SUCCEEDED.                                                    *)
LEMMA NodeCarries ==
    ASSUME StageInv, PassInv, NEW p \in Procs, UpdateNode(p), NEW o, o = op'[p], o # None
    PROVE  Carries(o)
<1>0. TypeInv /\ op[p] # None /\ op[p].at = "node" /\ Carries(op[p])
      BY NodeEffect DEF StageInv, PassInv, CarriesOK
<1>1. CASE op[p].to = "CANCELLED" /\ AfterStage(p)
  <2>1. o.to = "CANCELLED" /\ o.at \in {"node", "wf"}
        BY <1>0, <1>1, AfterStep
  <2> QED
      BY <2>1 DEF Carries
<1>2. CASE Goto(p, "run")
  <2>1. o.at = "run" /\ o.to = op[p].to /\ o.s = op[p].s
        BY <1>0, <1>2, GotoStep DEF Steps, SameLocals
  <2> QED
      BY <1>0, <2>1 DEF Carries
<1>3. CASE Return(p, FALSE)
      BY <1>0, <1>3, ReturnStep
<1> QED
    BY <1>1, <1>2, <1>3, NodeEffect

(* UpdateRun. *)
LEMMA RunCarries ==
    ASSUME StageInv, PassInv, NEW p \in Procs, UpdateRun(p), NEW o, o = op'[p], o # None
    PROVE  Carries(o)'
<1>0. /\ TypeInv /\ op[p] # None /\ op[p].at = "run" /\ Carries(op[p]) /\ UNCHANGED <<att, handoffs>>
      BY DEF StageInv, UpdateRun, At, PassInv, CarriesOK
<1>1. PICK s \in Stages, to \in RunStatus : s = op[p].s /\ to = op[p].to /\ to \in {"RUNNING", "SUCCEEDED", "FAILED", "CANCELLED"}
      BY <1>0, AtRecord
<1>2. run \in [Stages -> Versioned(RunStatus)] /\ run[s] \in Versioned(RunStatus)
      BY <1>0 DEF TypeInv, TypeOK
<1> DEFINE w == Write(run[s], to, Expected(p, runGen, s), 0)
<1>3. w.rec = [status |-> to, gen |-> run[s].gen + 1]
      BY <1>2, Written
<1>4. \/ Return(p, FALSE)
      \/ to = "CANCELLED" /\ AfterStage(p)
      \/ run' = [run EXCEPT ![s] = w.rec] /\ Goto(p, "att")
      BY <1>1, Zenon DEF UpdateRun
<1> HIDE DEF w
<1>5. CASE to = "CANCELLED" /\ AfterStage(p)
  <2>1. o.to = "CANCELLED" /\ o.at \in {"node", "wf"}
        BY <1>0, <1>1, <1>5, AfterStep
  <2> QED
      BY <2>1 DEF Carries
<1>6. CASE run' = [run EXCEPT ![s] = w.rec] /\ Goto(p, "att")
  <2>1. o.at = "att" /\ o.to = to /\ o.s = s
        BY <1>0, <1>1, <1>6, GotoStep DEF Steps, SameLocals
  <2>2. run'[s].status = to
        BY <1>2, <1>3, <1>6
  <2>3. to = "SUCCEEDED" => att[s] # None
        BY <1>0, <1>1 DEF Carries
  <2> QED
      BY <1>0, <2>1, <2>2, <2>3 DEF Carries
<1>7. ~Return(p, FALSE)
      BY <1>0, ReturnStep
<1> QED
    BY <1>4, <1>5, <1>6, <1>7

(* UpdateAttempt. *)
LEMMA AttemptCarries ==
    ASSUME StageInv, PassInv, NEW p \in Procs, UpdateAttempt(p), NEW o, o = op'[p], o # None
    PROVE  Carries(o)'
<1>0. /\ TypeInv /\ op[p] # None /\ op[p].at = "att" /\ Carries(op[p]) /\ Knows(op[p]) /\ UNCHANGED <<node, run, handoffs>>
      BY DEF StageInv, UpdateAttempt, At, PassInv, CarriesOK, KnowsOK
<1>1. PICK s \in Stages, to \in AttemptStatus : s = op[p].s /\ to = op[p].to /\ to \in {"RUNNING", "SUCCEEDED", "FAILED", "CANCELLED"}
      BY <1>0, AtRecord
<1>2. AfterStage(p)
  <2>1. AfterStage(p) \/ Return(p, FALSE)
        BY Zenon DEF UpdateAttempt
  <2>2. ~Return(p, FALSE)
        BY <1>0, ReturnStep
  <2> QED
      BY <2>1, <2>2
<1>3. /\ o.to = to
      /\ \/ to = "SUCCEEDED" /\ s < StageCount /\ o.at = "handoff" /\ o.s = s
         \/ to = "SUCCEEDED" /\ s = StageCount /\ o.at = "readWf" /\ o.s = s
         \/ to = "FAILED" /\ o.at = "readWf"
         \/ to = "CANCELLED" /\ o.at \in {"wf", "node"}
      BY <1>0, <1>1, <1>2, AfterStep
<1>4. CASE to = "SUCCEEDED"
  <2>1. att[s] # None /\ run[s].status = "SUCCEEDED" /\ node[s].status = "SUCCEEDED"
        BY <1>0, <1>1, <1>4 DEF Carries, Knows
  <2>2. att \in [Stages -> Versioned(AttemptStatus) \cup {None}] /\ att[s] \in Versioned(AttemptStatus)
        BY <1>0, <2>1 DEF TypeInv, TypeOK
  <2> DEFINE w == Write(att[s], to, Expected(p, attGen, s), 0)
  <2>3. w.rec = [status |-> to, gen |-> att[s].gen + 1] /\ w.rec \in Versioned(AttemptStatus)
        BY <2>2, Written
  <2>4. \/ Return(p, FALSE)
        \/ att[s].status = to /\ att' = att
        \/ att' = [att EXCEPT ![s] = w.rec]
        BY <1>1, <1>4, <2>1, Zenon DEF UpdateAttempt
  <2> HIDE DEF w
  <2>5. ~Return(p, FALSE)
        BY <1>0, ReturnStep
  <2>6. att'[s] # None /\ att'[s].status = to
    <3>1. CASE att[s].status = to /\ att' = att
          BY <2>1, <3>1
    <3>2. CASE att' = [att EXCEPT ![s] = w.rec]
      <4>1. att'[s] = w.rec
            BY <2>2, <3>2
      <4> QED
          BY <2>3, <4>1, NoneAssumption
    <3> QED
        BY <2>4, <2>5, <3>1, <3>2
  <2>7. Done(s)'
        BY <1>0, <1>4, <2>1, <2>6 DEF Done
  <2>8. s = StageCount => Passed(s)'
    <3>1. s = StageCount => ~(s < StageCount)
          BY PipelineAssumption
    <3> QED
        BY <1>0, <2>1, <2>7, <3>1 DEF Passed
  <2> QED
      BY <1>3, <1>4, <2>7, <2>8 DEF Carries
<1>5. CASE to # "SUCCEEDED"
      BY <1>3, <1>5 DEF Carries
<1> QED
    BY <1>4, <1>5

(* CommitHandoff. *)
LEMMA HandoffCarries ==
    ASSUME StageInv, PassInv, NEW p \in Procs, CommitHandoff(p), NEW o, o = op'[p]
    PROVE  Carries(o)'
<1>0. /\ TypeInv /\ op[p] # None /\ op[p].at = "handoff" /\ Carries(op[p]) /\ UNCHANGED <<node, run, att>>
      /\ handoffs' = handoffs \cup {op[p].s} /\ Goto(p, "pause?")
      BY DEF StageInv, CommitHandoff, At, PassInv, CarriesOK
<1>1. o.at = "pause?" /\ o.s = op[p].s
      BY <1>0, GotoStep DEF Steps, SameLocals
<1>2. Done(op[p].s)
      BY <1>0 DEF Carries
<1> QED
    BY <1>0, <1>1, <1>2 DEF Carries, Done

-----------------------------------------------------------------------------
(* Every step keeps PassInv. *)

(* A stage is begun by ReadyNext or ReadyFirst, and by nothing else. *)
LEMMA BegunBy ==
    ASSUME StageInv, StaysFinal, [Next]_vars, NEW t \in Stages, node[t].status \in Fresh, node'[t].status \notin Fresh
    PROVE  \E p \in Procs : ReadyNext(p) \/ ReadyFirst(p)
<1>0. node[t].status = "PENDING"
      BY DEF StaysFinal, Fresh, NodeTerminal
<1>1. ASSUME NEW p \in Procs, ClaimNode(p)
      PROVE  FALSE
  <2>0. TypeInv /\ op[p] # None /\ op[p].at = "claimNode"
        BY <1>1 DEF StageInv, ClaimNode, At
  <2>1. PICK s \in Stages : s = op[p].s
        BY <2>0, CallFields
  <2>2. node[s].status \in {"READY", "CANCELLED"}
        BY <2>0, <2>1 DEF StageInv, KnowsOK, Knows
  <2>3. node' = node \/ \E r : node' = [node EXCEPT ![s] = r]
        BY <1>1, <2>1 DEF ClaimNode
  <2> QED
      BY <1>0, <2>2, <2>3 DEF StageInv, TypeInv, TypeOK, Fresh
<1>2. ASSUME NEW p \in Procs, UpdateNode(p)
      PROVE  FALSE
  <2>0. TypeInv /\ op[p] # None /\ op[p].at = "node"
        BY <1>2, NodeEffect DEF StageInv
  <2>1. PICK s \in Stages, to \in NodeStatus : s = op[p].s /\ to = op[p].to /\ to \in {"RUNNING", "SUCCEEDED", "FAILED", "CANCELLED"}
        BY <2>0, AtRecord
  <2>2. node' = node \/ Writes(s, to)
        BY <1>2, <2>1, NodeEffect
  <2>3. to # "CANCELLED" => node[s].status # "PENDING"
        BY <2>0, <2>1 DEF StageInv, KnowsOK, Knows, Claimed
  <2>4. Writes(s, to) => node'[s].status = to /\ \A u \in Stages : u # s => node'[u] = node[u]
        BY NodeWrite
  <2> QED
      BY <1>0, <2>2, <2>3, <2>4 DEF Fresh
<1>3. ASSUME NEW p \in Procs, Step(p)
      PROVE  ReadyNext(p) \/ ReadyFirst(p)
      BY <1>1, <1>2, <1>3 DEF Step, FindLaunchJob, ClaimNextReady, CreateAttempt, PutIfAbsent, EnsureLaunch,
         AcknowledgeRunning, UpdateRun, UpdateAttempt, CommitHandoff, CheckPause, ReadWorkflow, Unpause,
         UpdateWorkflow, ListNodes, store
<1>4. CASE \/ \E p \in Procs : LaunchFails(p) \/ RejectHandoff(p) \/ WriteFails(p)
           \/ \E p \in Reconcilers : ReconcileOnce(p)
           \/ \E p \in Workers : \/ \E s \in Stages : CommitStageSuccess(p, s) \/ CommitStageFailure(p, s)
                                 \/ ResumeWorkflow(p)
           \/ \E p \in Cancellers : CancelWorkflow(p)
      BY <1>4 DEF LaunchFails, RejectHandoff, WriteFails, ReconcileOnce, CommitStageSuccess, CommitStageFailure,
         ResumeWorkflow, CancelWorkflow, store
<1>5. CASE \/ Crash \/ RegisterPipelineWorkflow
           \/ \E command \in {"PAUSE", "RESUME"} : RequestControl(command)
           \/ RequestPause
           \/ \E s \in Stages : ContainerExits(s) \/ FenceStage(s)
           \/ UNCHANGED vars
      BY <1>5 DEF Crash, RegisterPipelineWorkflow, RequestControl, RequestPause, ContainerExits, FenceStage, vars, store
<1> QED
    BY <1>3, <1>4, <1>5 DEF Next

(* Whoever begins a stage has everything before it behind the workflow. *)
LEMMA PassedBefore ==
    ASSUME StageInv, FinalInv, PassInv, NoResumeOverCancel, [Next]_vars,
           NEW s \in Stages, NEW t \in Stages, s < t, node'[t].status \notin Fresh
    PROVE  Passed(s)'
<1>1. Keeps /\ StaysFinal
      BY NothingBack, FinalStep
<1>2. CASE node[t].status \notin Fresh
      BY <1>1, <1>2 DEF PassInv, Keeps
<1>3. CASE node[t].status \in Fresh
  <2>1. PICK p \in Procs : ReadyNext(p) \/ ReadyFirst(p)
        BY <1>1, <1>3, BegunBy
  <2>2. op[p] # None
        BY <2>1, Readies
  <2>3. PICK u \in Stages : /\ \/ op[p].at = "next" /\ u = op[p].s + 1
                               \/ op[p].at = "readyFirst" /\ u = op[p].s
                            /\ node' = node \/ Writes(u, "READY")
        BY <2>1, Readies
  <2>4. u = t
    <3>1. Writes(u, "READY") => \A v \in Stages : v # u => node'[v] = node[v]
          BY NodeWrite DEF NodeStatus
    <3> QED
        BY <1>3, <2>3, <3>1
  <2>5. Carries(op[p]) /\ Knows(op[p]) /\ op[p].s \in Stages /\ Target(op[p])
        BY <2>2, CallFields DEF PassInv, CarriesOK, StageInv, KnowsOK
  <2>6. CASE op[p].at = "readyFirst" /\ u = op[p].s
        BY <1>1, <2>4, <2>5, <2>6 DEF Carries, Keeps
  <2>7. CASE op[p].at = "next" /\ u = op[p].s + 1
    <3>1. Passed(op[p].s) /\ node[op[p].s].status \notin Fresh
          BY <2>5, <2>7 DEF Carries, Knows, Target, Passed, Fresh
    <3>2. s = op[p].s \/ s < op[p].s
          BY <2>4, <2>5, <2>7, PipelineAssumption DEF Stages
    <3>3. Passed(s)
          BY <2>5, <3>1, <3>2 DEF PassInv
    <3> QED
        BY <1>1, <3>3 DEF Keeps
  <2> QED
      BY <2>3, <2>6, <2>7
<1> QED
    BY <1>2, <1>3

(* A workflow succeeds by the last stage's success. *)
LEMMA PassedAll ==
    ASSUME StageInv, FinalInv, PassInv, NoResumeOverCancel, [Next]_vars, wf'.status = "SUCCEEDED",
           NEW s \in Stages
    PROVE  Passed(s)'
<1>1. Keeps
      BY NothingBack
<1>2. CASE wf.status = "SUCCEEDED"
      BY <1>1, <1>2 DEF PassInv, Keeps
<1>3. ASSUME NEW p \in Procs, UpdateWorkflow(p), wf' # wf
      PROVE  Passed(s)
  <2>a. wf' = wf \/ wf' = [status |-> WorkflowTarget(p), gen |-> wf.gen + 1]
        BY <1>3, Zenon DEF UpdateWorkflow
  <2>1. op[p] # None /\ op[p].at = "wf" /\ wf'.status = WorkflowTarget(p)
        BY <1>3, <2>a DEF UpdateWorkflow, At
  <2>2. op[p].s \in Stages /\ Target(op[p]) /\ Carries(op[p])
        BY <2>1, CallFields DEF StageInv, PassInv, CarriesOK
  <2>3. op[p].to = "SUCCEEDED" /\ op[p].s = StageCount
        BY <2>1, <2>2 DEF WorkflowTarget, Target
  <2>4. Passed(StageCount) /\ StageCount \in Stages /\ node[StageCount].status \notin Fresh
        BY <2>1, <2>2, <2>3 DEF Carries, Passed, Fresh
  <2>5. s = StageCount \/ s < StageCount
        BY PipelineAssumption DEF Stages
  <2> QED
      BY <2>4, <2>5 DEF PassInv
<1>4. ASSUME NEW p \in Procs, Step(p), wf' # wf, ~UpdateWorkflow(p)
      PROVE  FALSE
  <2>1. Unpause(p)
        BY <1>4 DEF Step, FindLaunchJob, ClaimNextReady, ClaimNode, CreateAttempt, PutIfAbsent, EnsureLaunch,
         AcknowledgeRunning, UpdateNode, UpdateRun, UpdateAttempt, CommitHandoff, CheckPause, ReadyNext, ReadWorkflow,
         ListNodes, ReadyFirst, store
  <2>2. wf' = wf \/ wf' = [status |-> "RUNNING", gen |-> wf.gen + 1]
        BY <2>1, Zenon DEF Unpause
  <2> QED
      BY <1>4, <2>2
<1>5. CASE \/ \E p \in Procs : LaunchFails(p) \/ RejectHandoff(p) \/ WriteFails(p)
           \/ \E p \in Reconcilers : ReconcileOnce(p)
           \/ \E p \in Workers : \/ \E u \in Stages : CommitStageSuccess(p, u) \/ CommitStageFailure(p, u)
                                 \/ ResumeWorkflow(p)
           \/ \E p \in Cancellers : CancelWorkflow(p)
  <2>1. wf' = wf
        BY <1>5 DEF LaunchFails, RejectHandoff, WriteFails, ReconcileOnce, CommitStageSuccess, CommitStageFailure,
         ResumeWorkflow, CancelWorkflow, store
  <2> QED
      BY <1>2, <2>1
<1>6. CASE \/ Crash \/ RegisterPipelineWorkflow
           \/ \E command \in {"PAUSE", "RESUME"} : RequestControl(command)
           \/ RequestPause
           \/ \E u \in Stages : ContainerExits(u) \/ FenceStage(u)
           \/ UNCHANGED vars
  <2>1. wf' = wf \/ wf' = [status |-> "PAUSE_REQUESTED", gen |-> wf.gen + 1]
        BY <1>6 DEF Crash, RegisterPipelineWorkflow, RequestControl, RequestPause, ContainerExits, FenceStage, vars, store
  <2> QED
      BY <1>2, <2>1
<1>7. CASE \E p \in Procs : Step(p)
      BY <1>1, <1>2, <1>3, <1>4, <1>7 DEF Keeps
<1> QED
    BY <1>5, <1>6, <1>7 DEF Next

(* The last stage has no handoff. *)
LEMMA HandoffsBefore ==
    ASSUME StageInv, PassInv, [Next]_vars
    PROVE  handoffs' \subseteq 1..(StageCount - 1)
<1>1. ASSUME NEW p \in Procs, CommitHandoff(p)
      PROVE  handoffs' \subseteq 1..(StageCount - 1)
  <2>1. op[p] # None /\ op[p].at = "handoff" /\ handoffs' = handoffs \cup {op[p].s}
        BY <1>1 DEF CommitHandoff, At
  <2>2. op[p].s \in Stages /\ op[p].s < StageCount
        BY <2>1, CallFields DEF StageInv, Target
  <2>3. op[p].s \in 1..(StageCount - 1)
        BY <2>2, PipelineAssumption DEF Stages
  <2> QED
      BY <2>1, <2>3 DEF PassInv
<1>2. ASSUME NEW p \in Procs, Step(p), ~CommitHandoff(p)
      PROVE  handoffs' = handoffs
      BY <1>2 DEF Step, FindLaunchJob, ClaimNextReady, ClaimNode, CreateAttempt, PutIfAbsent, EnsureLaunch,
         AcknowledgeRunning, UpdateNode, UpdateRun, UpdateAttempt, CheckPause, ReadyNext, ReadWorkflow, Unpause,
         UpdateWorkflow, ListNodes, ReadyFirst, store
<1>3. CASE \/ \E p \in Procs : LaunchFails(p) \/ RejectHandoff(p) \/ WriteFails(p)
           \/ \E p \in Reconcilers : ReconcileOnce(p)
           \/ \E p \in Workers : \/ \E t \in Stages : CommitStageSuccess(p, t) \/ CommitStageFailure(p, t)
                                 \/ ResumeWorkflow(p)
           \/ \E p \in Cancellers : CancelWorkflow(p)
  <2>1. handoffs' = handoffs
        BY <1>3 DEF LaunchFails, RejectHandoff, WriteFails, ReconcileOnce, CommitStageSuccess, CommitStageFailure,
         ResumeWorkflow, CancelWorkflow, store
  <2> QED
      BY <2>1 DEF PassInv
<1>4. CASE \/ Crash \/ RegisterPipelineWorkflow
           \/ \E command \in {"PAUSE", "RESUME"} : RequestControl(command)
           \/ RequestPause
           \/ \E t \in Stages : ContainerExits(t) \/ FenceStage(t)
           \/ UNCHANGED vars
  <2>1. handoffs' = handoffs
        BY <1>4 DEF Crash, RegisterPipelineWorkflow, RequestControl, RequestPause, ContainerExits, FenceStage, vars, store
  <2> QED
      BY <2>1 DEF PassInv
<1>5. CASE \E p \in Procs : Step(p)
      BY <1>1, <1>2, <1>5 DEF PassInv
<1> QED
    BY <1>3, <1>4, <1>5 DEF Next

(* A step of one call leaves the others where they are, and the call is     *)
(* after the same status as before.                                         *)
LEMMA StepMoves ==
    ASSUME StageInv, NEW p \in Procs, Step(p) \/ LaunchFails(p) \/ RejectHandoff(p) \/ WriteFails(p)
    PROVE  Stepped(p) /\ op[p] # None /\ (op'[p] # None => op'[p].to = op[p].to)
<1>0. TypeInv
      BY DEF StageInv
<1>1. op' \in [Procs -> Op \cup {None}]
  <2>1. [Next]_vars
        BY DEF Next
  <2> QED
      BY <2>1, StageStep DEF StageInv, TypeInv, TypeOK
<1>2. CASE \/ FindLaunchJob(p) \/ ClaimNextReady(p) \/ PutIfAbsent(p) \/ EnsureLaunch(p) \/ LaunchFails(p)
           \/ AcknowledgeRunning(p) \/ CheckPause(p) \/ ReadWorkflow(p) \/ Unpause(p) \/ UpdateWorkflow(p) \/ ListNodes(p)
  <2>1. \E x, X : Moves(p, x, X)
        BY <1>2, Routes
  <2> QED
      BY <1>1, <2>1 DEF Moves, Stepped
<1>3. CASE ClaimNode(p)
  <2>1. op[p] # None /\ (Return(p, TRUE) \/ \E v : op' = [op EXCEPT ![p].at = "attempt", ![p].gen = v])
        BY <1>3 DEF ClaimNode, At
  <2>2. ASSUME NEW v, op' = [op EXCEPT ![p].at = "attempt", ![p].gen = v]
        PROVE  Stepped(p) /\ op'[p].to = op[p].to
        BY <1>0, <1>1, <2>1, <2>2, Moved DEF Stepped
  <2>3. Return(p, TRUE) => Stepped(p) /\ op'[p] = None
        BY <1>0, ReturnStep
  <2> QED
      BY <2>1, <2>2, <2>3
<1>4. CASE CreateAttempt(p) \/ CommitHandoff(p)
  <2>1. op[p] # None /\ (Goto(p, "put") \/ Goto(p, "pause?"))
        BY <1>4 DEF CreateAttempt, CommitHandoff, At
  <2> QED
      BY <1>0, <2>1, GotoStep DEF Steps, SameLocals
<1>5. CASE UpdateNode(p) \/ UpdateRun(p) \/ UpdateAttempt(p)
  <2>1. op[p] # None /\ op[p].at \in {"node", "run", "att"}
        BY <1>5 DEF UpdateNode, UpdateRun, UpdateAttempt, At
  <2>2. UpdateRun(p) => AfterStage(p) \/ Goto(p, "att") \/ Return(p, FALSE)
        BY Zenon DEF UpdateRun
  <2>3. UpdateAttempt(p) => AfterStage(p) \/ Return(p, FALSE)
        BY Zenon DEF UpdateAttempt
  <2>4. AfterStage(p) \/ Goto(p, "run") \/ Goto(p, "att") \/ Return(p, FALSE)
        BY <1>5, <2>2, <2>3, NodeEffect
  <2> QED
      BY <1>0, <2>1, <2>4, AfterStep, GotoStep, ReturnStep DEF Steps, SameLocals
<1>6. CASE ReadyNext(p) \/ ReadyFirst(p)
      BY <1>1, <1>6, Readies DEF Stepped
<1>7. CASE RejectHandoff(p) \/ WriteFails(p)
  <2>1. op[p] # None /\ Return(p, FALSE)
        BY <1>7 DEF RejectHandoff, WriteFails, At
  <2> QED
      BY <1>0, <2>1, ReturnStep
<1> QED
    BY <1>2, <1>3, <1>4, <1>5, <1>6, <1>7 DEF Step

(* Every step keeps PassInv. *)
LEMMA PassStep ==
    ASSUME CalmResume
    PROVE  StageInv /\ FinalInv /\ CalmInv /\ PassInv /\ [Next]_vars => PassInv'
<1> SUFFICES ASSUME StageInv, FinalInv, CalmInv, PassInv, [Next]_vars
             PROVE  PassInv'
    OBVIOUS
<1>0. NoResumeOverCancel /\ TypeInv
      BY DEF CalmResume, NoResumeOverCancel, StageInv
<1>1. Keeps
      BY <1>0, NothingBack
<1>2. ASSUME NEW p \in Procs, Stepped(p), \A o : o = op'[p] /\ o # None => Carries(o)'
      PROVE  CarriesOK'
  <2> SUFFICES ASSUME NEW q \in Procs, NEW o, o = op'[q], o # None
               PROVE  Carries(o)'
      BY DEF CarriesOK
  <2>1. CASE q = p
        BY <1>2, <2>1
  <2>2. CASE q # p
    <3>1. o = op[q] /\ Carries(o) /\ o.s \in Stages
          BY <1>0, <1>2, <2>2, CallFields DEF PassInv, CarriesOK, Stepped
    <3> QED
        BY <1>1, <3>1, CarriesStays
  <2> QED
      BY <2>1, <2>2
<1>3. ASSUME NEW p \in Procs, Stepped(p), \A o : o = op'[p] /\ o # None => Carries(o)
      PROVE  CarriesOK'
  <2>1. ASSUME NEW o, o = op'[p], o # None
        PROVE  Carries(o)'
    <3>1. o.s \in Stages /\ Carries(o)
          BY <1>3, <2>1 DEF Stepped, Op
    <3> QED
        BY <1>1, <3>1, CarriesStays
  <2> QED
      BY <1>2, <1>3, <2>1
<1>4. ASSUME NEW p \in Procs, Step(p) \/ LaunchFails(p) \/ RejectHandoff(p) \/ WriteFails(p)
      PROVE  CarriesOK'
  <2>0. Stepped(p)
        BY <1>4, StepMoves
  <2>1. CASE \/ FindLaunchJob(p) \/ ClaimNextReady(p) \/ PutIfAbsent(p) \/ EnsureLaunch(p) \/ LaunchFails(p)
             \/ AcknowledgeRunning(p) \/ CheckPause(p) \/ ReadWorkflow(p) \/ Unpause(p) \/ UpdateWorkflow(p) \/ ListNodes(p)
    <3>1. ASSUME NEW o, o = op'[p], o # None
          PROVE  Carries(o)
      <4>1. o.at = "readyFirst" => ListNodes(p)
            BY <2>1, <3>1, Routes DEF Moves
      <4> QED
          BY <2>1, <3>1, <4>1, QuietCarries, ListCarries
    <3> QED
        BY <1>3, <2>0, <3>1
  <2>2. CASE ClaimNode(p)
    <3>1. op[p] # None /\ (Return(p, TRUE) \/ \E v : op' = [op EXCEPT ![p].at = "attempt", ![p].gen = v])
          BY <2>2 DEF ClaimNode, At
    <3>2. ASSUME NEW v, op' = [op EXCEPT ![p].at = "attempt", ![p].gen = v]
          PROVE  op'[p].at = "attempt"
          BY <1>0, <3>1, <3>2, Moved
    <3>3. Return(p, TRUE) => op'[p] = None
          BY <1>0, ReturnStep
    <3>4. \A o : o = op'[p] /\ o # None => Carries(o)
          BY <3>1, <3>2, <3>3 DEF Carries
    <3> QED
        BY <1>3, <2>0, <3>4
  <2>3. CASE CreateAttempt(p)
    <3>1. op'[p].at = "put"
          BY <1>0, <2>3, GotoStep DEF CreateAttempt, At, Steps
    <3>2. \A o : o = op'[p] /\ o # None => Carries(o)
          BY <3>1 DEF Carries
    <3> QED
        BY <1>3, <2>0, <3>2
  <2>4. CASE UpdateNode(p)
        BY <1>3, <2>0, <2>4, NodeCarries
  <2>5. CASE UpdateRun(p) \/ UpdateAttempt(p) \/ CommitHandoff(p)
    <3>1. ASSUME NEW o, o = op'[p], o # None
          PROVE  Carries(o)'
          BY <2>5, <3>1, RunCarries, AttemptCarries, HandoffCarries
    <3> QED
        BY <1>2, <2>0, <3>1
  <2>6. CASE ReadyNext(p) \/ ReadyFirst(p)
        BY <1>3, <2>0, <2>6, Readies
  <2>7. CASE RejectHandoff(p) \/ WriteFails(p)
    <3>1. op'[p] = None
          BY <1>0, <2>7, ReturnStep DEF RejectHandoff, WriteFails
    <3> QED
        BY <1>3, <2>0, <3>1
  <2> QED
      BY <1>4, <2>1, <2>2, <2>3, <2>4, <2>5, <2>6, <2>7 DEF Step
<1>5. ASSUME NEW p \in Procs,
             \/ p \in Reconcilers /\ ReconcileOnce(p)
             \/ p \in Workers /\ \/ \E s \in Stages : CommitStageSuccess(p, s) \/ CommitStageFailure(p, s)
                                 \/ ResumeWorkflow(p)
             \/ p \in Cancellers /\ CancelWorkflow(p)
      PROVE  CarriesOK'
      BY <1>3, <1>5, CallsCarry
<1>6. ASSUME Crash
      PROVE  CarriesOK'
      BY <1>6 DEF Crash, CarriesOK
<1>7. ASSUME \/ RegisterPipelineWorkflow
             \/ \E command \in {"PAUSE", "RESUME"} : RequestControl(command)
             \/ RequestPause
             \/ \E s \in Stages : ContainerExits(s) \/ FenceStage(s)
             \/ UNCHANGED vars
      PROVE  CarriesOK'
  <2>1. op' = op
        BY <1>7 DEF RegisterPipelineWorkflow, RequestControl, RequestPause, ContainerExits, FenceStage, vars
  <2> SUFFICES ASSUME NEW q \in Procs, NEW o, o = op'[q], o # None
               PROVE  Carries(o)'
      BY DEF CarriesOK
  <2>2. Carries(o) /\ o.s \in Stages
        BY <1>0, <2>1, CallFields DEF PassInv, CarriesOK
  <2> QED
      BY <1>1, <2>2, CarriesStays
<1>8. CarriesOK'
  <2>1. Workers \subseteq Procs /\ Reconcilers \subseteq Procs /\ Cancellers \subseteq Procs
        BY DEF Procs, Daemon
  <2> QED
      BY <1>4, <1>5, <1>6, <1>7, <2>1 DEF Next
<1>9. \A s, t \in Stages : s < t /\ node'[t].status \notin Fresh => Passed(s)'
      BY <1>0, PassedBefore
<1>10. wf'.status = "SUCCEEDED" => \A s \in Stages : Passed(s)'
      BY <1>0, PassedAll
<1>11. handoffs' \subseteq 1..(StageCount - 1)
      BY HandoffsBefore
<1> QED
    BY <1>8, <1>9, <1>10, <1>11 DEF PassInv

(* The inductive invariant of a workflow that is resumed only in calm: every *)
(* stage that was begun has everything before it behind the workflow.        *)
THEOREM StagesPassed ==
    ASSUME CalmResume
    PROVE  Spec => [](StageInv /\ FinalInv /\ CalmInv /\ PassInv)
<1>1. NoResumeOverCancel
      BY DEF CalmResume, NoResumeOverCancel
<1>2. Init => PassInv
  <2> SUFFICES ASSUME Init
               PROVE  PassInv
      OBVIOUS
  <2>1. \A t \in Stages : node[t].status \notin Fresh => t = 1
        BY DEF Init, Fresh
  <2>2. \A s, t \in Stages : s < t /\ node[t].status \notin Fresh => Passed(s)
        BY <2>1, PipelineAssumption DEF Stages
  <2>3. CarriesOK /\ handoffs \subseteq 1..(StageCount - 1) /\ wf.status # "SUCCEEDED"
        BY PipelineAssumption DEF Init, CarriesOK
  <2> QED
      BY <2>2, <2>3 DEF PassInv
<1>3. StageInv /\ FinalInv /\ [Next]_vars => FinalInv'
      BY <1>1, FinalStep
<1> QED
    BY <1>2, <1>3, StageInitially, StageStep, FinalInitially, CalmInitially, CalmStep, PassStep, PTL DEF Spec

(* A stage is readied, launched and run only after the handoff of the stage  *)
(* before it was committed (CommitStageSuccess commits it before it readies  *)
(* the next node; ResumeWorkflow relies on that), under the same condition.  *)
THEOREM HandoffFirst ==
    ASSUME CalmResume
    PROVE  Spec => []HandoffBeforeNextStage
<1>1. PassInv => HandoffBeforeNextStage
  <2> SUFFICES ASSUME PassInv, NEW s \in Stages, s > 1, node[s].status \in ActiveNode
               PROVE  s - 1 \in handoffs
      BY DEF HandoffBeforeNextStage
  <2>1. s - 1 \in Stages /\ s - 1 < s /\ s - 1 < StageCount
        BY PipelineAssumption DEF Stages
  <2>2. Passed(s - 1)
        BY <2>1 DEF PassInv, ActiveNode, Fresh
  <2> QED
      BY <2>1, <2>2 DEF Passed
<1> QED
    BY <1>1, StagesPassed, PTL

(* A workflow that is SUCCEEDED has every node, run and attempt SUCCEEDED    *)
(* and every handoff committed, under the same condition: the final success  *)
(* writes the workflow last, and nothing takes back what it relied on.       *)
THEOREM AllSucceeded ==
    ASSUME CalmResume
    PROVE  Spec => []SucceededMeansAllStages
<1>1. PassInv => SucceededMeansAllStages
  <2> SUFFICES ASSUME PassInv, wf.status = "SUCCEEDED"
               PROVE  /\ handoffs = 1..(StageCount - 1)
                      /\ \A s \in Stages : Passed(s)
      BY DEF SucceededMeansAllStages, Passed, Done
  <2>1. \A s \in Stages : Passed(s)
        BY DEF PassInv
  <2>2. \A s \in 1..(StageCount - 1) : s \in Stages /\ s < StageCount
        BY PipelineAssumption DEF Stages
  <2>3. 1..(StageCount - 1) \subseteq handoffs
        BY <2>1, <2>2 DEF Passed
  <2> QED
      BY <2>1, <2>3 DEF PassInv
<1> QED
    BY <1>1, StagesPassed, PTL

-----------------------------------------------------------------------------
(* The order of the stages alone needs less: ResumeWorkflow must not meet a  *)
(* stage that failed or was cancelled, which it takes for one that is        *)
(* finished.                                                                 *)
SoundResume == "resume" \in Events => Cancellers = {} /\ "failure" \notin Events

(* No stage failed or was cancelled, and no call is about to fail one. *)
Unbroken ==
    /\ \A s \in Stages : node[s].status \in {"PENDING", "READY", "LAUNCHING", "RUNNING", "SUCCEEDED"}
    /\ \A p \in Procs : op[p] # None => op[p].to # "FAILED"

(* What writes a node writes the status its call is after, LAUNCHING or READY. *)
LEMMA WritesOf ==
    ASSUME StageInv, NEW p \in Procs, Step(p), NEW s \in Stages
    PROVE  \/ node'[s] = node[s]
           \/ node'[s].status \in {"READY", "LAUNCHING"}
           \/ op[p] # None /\ op[p].at = "node" /\ node'[s].status = op[p].to
<1>0. TypeInv /\ node \in [Stages -> Versioned(NodeStatus)]
      BY DEF StageInv, TypeInv, TypeOK
<1>1. CASE ClaimNode(p)
  <2>1. PICK t \in Stages : t = op[p].s
        BY <1>0, <1>1, CallFields DEF ClaimNode, At
  <2> DEFINE w == Write(node[t], "LAUNCHING", nodeGen[t], IF node[t].status = "READY" THEN 2 ELSE 0)
  <2>2. w.rec = [status |-> "LAUNCHING", gen |-> node[t].gen + 1]
        BY <1>0, Written
  <2>3. node' = node \/ node' = [node EXCEPT ![t] = w.rec]
        BY <1>1, <2>1, Zenon DEF ClaimNode
  <2> HIDE DEF w
  <2> QED
      BY <1>0, <2>2, <2>3
<1>2. CASE UpdateNode(p)
  <2>1. op[p] # None /\ op[p].at = "node" /\ op[p].s \in Stages /\ (node' = node \/ Writes(op[p].s, op[p].to))
        BY <1>2, NodeEffect
  <2>2. op[p].to \in NodeStatus
        BY <1>0, <2>1, AtRecord
  <2> QED
      BY <2>1, <2>2, NodeWrite
<1>3. CASE ReadyNext(p) \/ ReadyFirst(p)
  <2>1. \E t \in Stages : node' = node \/ Writes(t, "READY")
        BY <1>3, Readies
  <2>2. "READY" \in NodeStatus
        BY DEF NodeStatus
  <2> QED
      BY <2>1, <2>2, NodeWrite
<1> QED
    BY <1>1, <1>2, <1>3 DEF Step, FindLaunchJob, ClaimNextReady, CreateAttempt, PutIfAbsent, EnsureLaunch,
       AcknowledgeRunning, UpdateRun, UpdateAttempt, CommitHandoff, CheckPause, ReadWorkflow, Unpause,
       UpdateWorkflow, ListNodes, store

(* Without failures and cancels no step breaks a stage. *)
LEMMA UnbrokenStep ==
    ASSUME Cancellers = {}, "failure" \notin Events
    PROVE  StageInv /\ Unbroken /\ [Next]_vars => Unbroken'
<1> SUFFICES ASSUME StageInv, Unbroken, [Next]_vars
             PROVE  Unbroken'
    OBVIOUS
<1>0. TypeInv
      BY DEF StageInv
<1>1. ASSUME NEW p \in Procs, Step(p) \/ LaunchFails(p) \/ RejectHandoff(p) \/ WriteFails(p)
      PROVE  Unbroken'
  <2>1. Stepped(p) /\ op[p] # None /\ (op'[p] # None => op'[p].to = op[p].to)
        BY <1>1, StepMoves
  <2>2. \A q \in Procs : op'[q] # None => op'[q].to # "FAILED"
        BY <2>1 DEF Stepped, Unbroken
  <2>3. op[p].at = "node" => op[p].to \in {"RUNNING", "SUCCEEDED"}
        BY <1>0, <2>1, CallFields DEF Target, Caller, Unbroken
  <2>4. ASSUME NEW s \in Stages
        PROVE  node'[s].status \in {"PENDING", "READY", "LAUNCHING", "RUNNING", "SUCCEEDED"}
    <3>1. CASE Step(p)
          BY <2>3, <3>1, WritesOf DEF Unbroken
    <3>2. CASE LaunchFails(p) \/ RejectHandoff(p) \/ WriteFails(p)
      <4>1. node' = node
            BY <3>2 DEF LaunchFails, RejectHandoff, WriteFails, store
      <4> QED
          BY <4>1 DEF Unbroken
    <3> QED
        BY <1>1, <3>1, <3>2
  <2> QED
      BY <2>2, <2>4 DEF Unbroken
<1>2. ASSUME NEW p \in Procs, NEW x \in {"find", "claim", "wf", "node"}, NEW to \in {"RUNNING", "SUCCEEDED", "READY"},
             NEW s \in Stages, Call(p, x, to, s), node' = node
      PROVE  Unbroken'
  <2>1. x \in Steps /\ to \in NodeStatus
        BY DEF Steps, NodeStatus, NodeTerminal
  <2>2. Stepped(p) /\ op'[p].to = to
        BY <1>0, <1>2, <2>1, CallStep
  <2> QED
      BY <1>2, <2>2 DEF Stepped, Unbroken
<1>3. CASE \/ \E p \in Reconcilers : ReconcileOnce(p)
           \/ \E p \in Workers : \/ \E s \in Stages : CommitStageSuccess(p, s) \/ CommitStageFailure(p, s)
                                 \/ ResumeWorkflow(p)
           \/ \E p \in Cancellers : CancelWorkflow(p)
  <2>1. \A p \in Reconcilers : ReconcileOnce(p) =>
            /\ p \in Procs /\ node' = node
            /\ (\E s \in Stages : Call(p, "find", "RUNNING", s)) \/ Call(p, "claim", "RUNNING", 1)
        BY DEF ReconcileOnce, store, Procs, Daemon
  <2>2. \A p \in Workers, s \in Stages : CommitStageSuccess(p, s) =>
            p \in Procs /\ node' = node /\ Call(p, "node", "SUCCEEDED", s)
        BY DEF CommitStageSuccess, store, Procs, Daemon
  <2>3. \A p \in Workers : ResumeWorkflow(p) => p \in Procs /\ node' = node /\ Call(p, "wf", "READY", 1)
        BY DEF ResumeWorkflow, store, Procs, Daemon
  <2>4. \A p \in Workers, s \in Stages : ~CommitStageFailure(p, s)
        BY DEF CommitStageFailure
  <2>5. 1 \in Stages
        BY PipelineAssumption DEF Stages
  <2> QED
      BY <1>2, <1>3, <2>1, <2>2, <2>3, <2>4, <2>5
<1>4. CASE \/ Crash \/ RegisterPipelineWorkflow
           \/ \E command \in {"PAUSE", "RESUME"} : RequestControl(command)
           \/ RequestPause
           \/ \E s \in Stages : ContainerExits(s) \/ FenceStage(s)
           \/ UNCHANGED vars
  <2>1. node' = node /\ (op' = op \/ op' = [p \in Procs |-> None])
        BY <1>4 DEF Crash, RegisterPipelineWorkflow, RequestControl, RequestPause, ContainerExits, FenceStage, vars, store
  <2> QED
      BY <2>1 DEF Unbroken
<1> QED
    BY <1>1, <1>3, <1>4 DEF Next

(* Stages run one at a time and in order, for any number of stages and       *)
(* callers, with crashes, write errors and rejected handoffs, and with       *)
(* failures and cancels unless the workflow may also be resumed.             *)
THEOREM InOrder ==
    ASSUME SoundResume
    PROVE  Spec => []StagesInOrder
<1>1. CASE "resume" \notin Events
  <2>1. CalmResume
        BY <1>1 DEF CalmResume
  <2>2. PassInv => StagesInOrder
        BY DEF PassInv, StagesInOrder, Passed, Fresh
  <2>3. Spec => [](StageInv /\ FinalInv /\ CalmInv /\ PassInv)
        BY <2>1, StagesPassed
  <2> QED
      BY <2>2, <2>3, PTL
<1>2. CASE "resume" \in Events
  <2>1. Init => Unbroken
        BY DEF Init, Unbroken
  <2>2. StageInv /\ Unbroken /\ [Next]_vars => Unbroken'
        BY <1>2, UnbrokenStep DEF SoundResume
  <2>3. StageInv /\ Unbroken => StagesInOrder
        BY DEF StageInv, OrderOK, Unbroken, StagesInOrder, Fresh, ActiveNode
  <2> QED
      BY <2>1, <2>2, <2>3, StagesHold, PTL DEF Spec
<1> QED
    BY <1>1, <1>2
=============================================================================

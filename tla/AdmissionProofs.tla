-------------------------- MODULE AdmissionProofs --------------------------
(***************************************************************************)
(* Admission is correct for every set of deployments, keys, clients and    *)
(* drivers, every quota and every number of files of an admission.         *)
(***************************************************************************)
EXTENDS Admission, TLAPS, FiniteSetTheorems

(* What an RPC's program counter says about its locals and the mutex. *)
JobOK ==
    \A c \in Clients :
        /\ pc[c] # "idle" => job[c] \in Job
        /\ pc[c] = "admit" => job[c].written = 0
        /\ pc[c] = "commit" =>
              /\ lock = c
              /\ job[c].id \in Workflows
              /\ job[c].dep \in Deployments
              /\ job[c].written \in 0..LedgerFile
        /\ (pc[c] = "respond" /\ job[c].outcome = "RECEIPT") => job[c].id \in Workflows

LockOK ==
    /\ lock \in Clients => pc[lock] = "commit"
    /\ lock \in Updaters => update[lock] # None
    /\ \A u \in Updaters : update[u] # None => workflows[update[u].id] # None

TypeInv == TypeOK /\ JobOK /\ LockOK

(* The transition table stays within the statuses. *)
LEMMA TransitionsStayInside ==
    \A s \in WorkflowStatus : WorkflowTransitions[s] \subseteq WorkflowStatus
BY DEF WorkflowStatus, WorkflowTransitions, RunTransitions, RunStatus, RunTerminal

LEMMA TypeInitially == Init => TypeInv
BY AdmissionAssumption DEF Init, TypeInv, TypeOK, JobOK, LockOK

LEMMA TypeStep == TypeInv /\ [Next]_vars => TypeInv'
<1> SUFFICES ASSUME TypeInv, [Next]_vars PROVE TypeInv'
    OBVIOUS
<1> USE AdmissionAssumption, NoneAssumption DEF TypeInv
<1>1. ASSUME NEW d \in Deployments, NEW s \in DeploymentStatuses, SetDeploymentStatus(d, s)
      PROVE  TypeInv'
      BY <1>1 DEF SetDeploymentStatus, TypeOK, JobOK, LockOK
<1>2. ASSUME NEW a \in Aliases, NEW d \in Deployments, CompareAndSwapAlias(a, d)
      PROVE  TypeInv'
      BY <1>2 DEF CompareAndSwapAlias, TypeOK, JobOK, LockOK
<1>3. ASSUME NEW c \in Clients, NEW request \in Request, InvokeDeployment(c, request)
      PROVE  TypeInv'
      BY <1>3, SMTT(30) DEF InvokeDeployment, TypeOK, JobOK, LockOK, disk, Job, Outcomes, Recorded, IdempotencyRecord,
             Request
<1>4. ASSUME NEW c \in Clients, ReplayIdempotentAdmission(c)
      PROVE  TypeInv'
      BY <1>4, SMTT(30) DEF ReplayIdempotentAdmission, Return, TypeOK, JobOK, LockOK, disk, Job, Outcomes, Recorded,
             IdempotencyRecord, Request
<1>5. ASSUME NEW c \in Clients, AdmitRefused(c)
      PROVE  TypeInv'
      BY <1>5, SMTT(30) DEF AdmitRefused, Return, TypeOK, JobOK, LockOK, disk, Job, Outcomes
<1>6. ASSUME NEW c \in Clients, NEW id \in Workflows, AdmitInvocation(c, id)
      PROVE  TypeInv'
  <2> DEFINE d == Resolve(job[c].req.ref)
  <2>1. job[c] \in Job /\ d \in Deployments /\ c \notin Updaters
        BY <1>6 DEF AdmitInvocation, Resolve, TypeOK, JobOK, Job, Request
  <2>2. [job[c] EXCEPT !.id = id, !.dep = d] \in Job
        BY <2>1 DEF Job
  <2>3. job' = [job EXCEPT ![c] = [job[c] EXCEPT !.id = id, !.dep = d]]
        BY <1>6 DEF AdmitInvocation
  <2>4. TypeOK'
        BY <1>6, <2>2, <2>3 DEF AdmitInvocation, TypeOK, disk
  <2>5. JobOK' /\ LockOK'
    <3>1. /\ lock = None /\ lock' = c /\ pc' = [pc EXCEPT ![c] = "commit"]
          /\ workflows' = workflows /\ update' = update /\ job[c].written = 0
          BY <1>6 DEF AdmitInvocation, JobOK, disk
    <3>2. \A b \in Clients : b # c => job'[b] = job[b] /\ pc'[b] = pc[b] /\ pc[b] # "commit"
          BY <2>3, <3>1, ZenonT(40) DEF TypeOK, JobOK
    <3>3. /\ job'[c] \in Job /\ pc'[c] = "commit" /\ job'[c].id = id /\ job'[c].dep = d
          /\ job'[c].written = 0 /\ 0 \in 0..LedgerFile
          BY <2>1, <2>2, <2>3, <3>1, AdmissionAssumption DEF TypeOK, Job, LedgerFile
    <3>4. JobOK'
          BY <2>1, <3>1, <3>2, <3>3, ZenonT(40) DEF JobOK
    <3>5. LockOK'
          BY <2>1, <3>1, <3>3, ZenonT(40) DEF LockOK
    <3> QED
        BY <3>4, <3>5
  <2> QED
      BY <2>4, <2>5
<1>7. ASSUME NEW c \in Clients, CommitAdmission(c)
      PROVE  TypeInv'
  <2> DEFINE j == job[c]
  <2>1. /\ lock = c
        /\ c \notin Updaters
        /\ c # None
        /\ j \in Job
        /\ j.id \in Workflows
        /\ j.dep \in Deployments
        /\ j.written \in 0..LedgerFile
        /\ Intent(j.req) \in Intents
        /\ j.req.key \in Keys
        BY <1>7 DEF CommitAdmission, TypeOK, JobOK, Job, Request, Intent, Intents
  <2>2. /\ [dep |-> j.dep, status |-> "PENDING", generation |-> 1] \in WorkflowRecord
        /\ [key |-> j.req.key, intent |-> Intent(j.req), dep |-> j.dep] \in ReceiptRecord
        /\ [id |-> j.id, intent |-> Intent(j.req)] \in IdempotencyRecord
        BY <2>1 DEF WorkflowRecord, ReceiptRecord, IdempotencyRecord, WorkflowStatus, RunStatus
  <2>3. job' \in [Clients -> Job \cup {None}] /\ job'[c] \in Job
    <3> DEFINE o == IF j.written = LedgerFile THEN "RECEIPT" ELSE j.outcome
               j2 == [j EXCEPT !.written = j.written + 1, !.outcome = o]
    <3>1. job' = [job EXCEPT ![c] = j2]
          BY <1>7 DEF CommitAdmission
    <3>2. j.written + 1 \in Nat /\ o \in Outcomes
          BY <2>1 DEF Job, LedgerFile, Outcomes
    <3> HIDE DEF o
    <3>3. j2 \in Job
          BY <2>1, <3>2 DEF Job
    <3> QED
        BY <3>1, <3>3 DEF TypeOK
  <2>4. TypeOK'
        BY <1>7, <2>1, <2>2, <2>3, SMTT(30) DEF CommitAdmission, TypeOK
  <2>5. JobOK' /\ LockOK'
    <3>1. /\ job'[c].id = j.id /\ job'[c].dep = j.dep /\ job'[c].written = j.written + 1
          /\ update' = update
          /\ \A b \in Clients : b # c => job'[b] = job[b] /\ pc'[b] = pc[b]
          BY <1>7, <2>1 DEF CommitAdmission, TypeOK, Job
    <3>2. \A b \in Clients : b # c => pc[b] # "commit"
          BY <2>1, ZenonT(40) DEF JobOK
    <3>3. CASE j.written = LedgerFile
      <4>1. pc'[c] = "respond" /\ lock' = None
            BY <1>7, <3>3 DEF CommitAdmission, TypeOK
      <4>2. workflows' = workflows
            BY <1>7, <3>3, AdmissionAssumption DEF CommitAdmission, WorkflowFile, LedgerFile
      <4>3. JobOK'
            BY <2>1, <2>3, <3>1, <3>2, <4>1, ZenonT(40) DEF JobOK
      <4>4. LockOK'
            BY <3>1, <4>1, <4>2, AdmissionAssumption DEF LockOK
      <4> QED
          BY <4>3, <4>4
    <3>4. CASE j.written # LedgerFile
      <4>1. pc'[c] = "commit" /\ lock' = c
            BY <1>7, <3>4 DEF CommitAdmission, TypeOK
      <4>2. job'[c].written \in 0..LedgerFile
            BY <2>1, <3>1, <3>4, AdmissionAssumption DEF LedgerFile
      <4>3. JobOK'
            BY <2>1, <2>3, <3>1, <3>2, <4>1, <4>2, ZenonT(40) DEF JobOK
      <4>4. \A u \in Updaters : update[u] # None => workflows'[update[u].id] # None
        <5>1. \A w \in Workflows : workflows[w] # None => workflows'[w] # None
              BY <1>7, <2>2 DEF CommitAdmission, TypeOK, WorkflowRecord
        <5>2. \A u \in Updaters : update[u] # None => update[u].id \in Workflows /\ workflows[update[u].id] # None
              BY DEF LockOK, TypeOK, UpdateRecord
        <5> QED
            BY <5>1, <5>2
      <4>5. LockOK'
            BY <2>1, <3>1, <4>1, <4>4, ZenonT(40) DEF LockOK
      <4> QED
          BY <4>3, <4>5
    <3> QED
        BY <3>3, <3>4
  <2> QED
      BY <2>4, <2>5
<1>8. ASSUME NEW c \in Clients, CommitFails(c)
      PROVE  TypeInv'
      BY <1>8 DEF CommitFails, TypeOK, JobOK, LockOK, disk, Job, Outcomes
<1>9. ASSUME NEW c \in Clients, Respond(c)
      PROVE  TypeInv'
      BY <1>9 DEF Respond, TypeOK, JobOK, LockOK, disk, Job, Intent, Request, Intents
<1>10. ASSUME NEW u \in Updaters, NEW w \in Workflows, GetWorkflow(u, w)
      PROVE  TypeInv'
      BY <1>10, TransitionsStayInside DEF GetWorkflow, TypeOK, JobOK, LockOK, disk, WorkflowRecord,
                                          UpdateRecord
<1>11. ASSUME NEW u \in Updaters, UpdateWorkflow(u)
      PROVE  TypeInv'
  <2> DEFINE w == update[u].id
  <2>1. /\ update[u] \in UpdateRecord
        /\ w \in Workflows
        /\ workflows[w] \in WorkflowRecord
        BY <1>11 DEF UpdateWorkflow, TypeOK, LockOK, UpdateRecord
  <2> DEFINE r == [dep |-> workflows[w].dep, status |-> update[u].to,
                   generation |-> update[u].generation + 1]
  <2>2. r \in WorkflowRecord
        BY <2>1 DEF UpdateRecord, WorkflowRecord
  <2>3. workflows' = [workflows EXCEPT ![w] = r]
        BY <1>11 DEF UpdateWorkflow
  <2>4. workflows' \in [Workflows -> WorkflowRecord \cup {None}] /\ workflows'[w] # None
        BY <2>1, <2>2, <2>3 DEF TypeOK
  <2>5. \A x \in Workflows : x # w => workflows'[x] = workflows[x]
        BY <2>3 DEF TypeOK
  <2> QED
      BY <1>11, <2>1, <2>4, <2>5 DEF UpdateWorkflow, TypeOK, JobOK, LockOK, UpdateRecord
<1>12. ASSUME NEW u \in Updaters, UpdateRefused(u)
      PROVE  TypeInv'
      BY <1>12 DEF UpdateRefused, TypeOK, JobOK, LockOK, disk
<1>13. ASSUME NEW u \in Updaters, SyncActiveTime(u)
      PROVE  TypeInv'
      BY <1>13 DEF SyncActiveTime, Synced, TypeOK, JobOK, LockOK, disk, UpdateRecord
<1>14. ASSUME NEW u \in Updaters, SyncFails(u)
      PROVE  TypeInv'
      BY <1>14 DEF SyncFails, TypeOK, JobOK, LockOK, disk, UpdateRecord
<1>15. CASE Crash
      BY <1>15 DEF Crash, ReconcileActiveTime, TypeOK, JobOK, LockOK, UpdateRecord
<1>16. CASE UNCHANGED vars
      BY <1>16 DEF vars, disk, TypeOK, JobOK, LockOK
<1> QED
    BY <1>1, <1>2, <1>3, <1>4, <1>5, <1>6, <1>7, <1>8, <1>9, <1>10, <1>11, <1>12, <1>13,
       <1>14, <1>15, <1>16 DEF Next

(* Every record, lock and program counter keeps its type. *)
THEOREM TypeCorrect == Spec => []TypeOK
<1>1. TypeInv => TypeOK
      BY DEF TypeInv
<1> QED
    BY TypeInitially, TypeStep, <1>1, PTL DEF Spec

-----------------------------------------------------------------------------
(* What a commit under way has written so far, and what it has yet to do:   *)
(* the slot it was granted is still free, its id and its key are still its  *)
(* own, and nobody else can find the admission before its record is there.  *)
CommitOK ==
    \A c \in Clients : pc[c] = "commit" =>
        LET j == job[c]
            n == j.written
        IN  /\ n = 0 => workflows[j.id] = None /\ HasFreeSlot(j.dep)
            /\ n > 0 => /\ workflows[j.id] # None
                        /\ workflows[j.id].dep = j.dep
                        /\ workflows[j.id].status = "PENDING"
            /\ n > NodeRunFiles => nodeRuns[j.id] = NodeRunFiles
            /\ n > ReceiptFile =>
                  receipts[j.id] = [key |-> j.req.key, intent |-> Intent(j.req), dep |-> j.dep]
            /\ n <= IdempotencyFile =>
                  /\ idempotency[j.req.key] = None
                  /\ \A k \in Keys : idempotency[k] # None => idempotency[k].id # j.id
            /\ n > IdempotencyFile =>
                  idempotency[j.req.key] = [id |-> j.id, intent |-> Intent(j.req)]

(* A receipt that is about to be, or has been, handed out is the one that   *)
(* the key's record names.                                                  *)
RespondOK ==
    \A c \in Clients : (pc[c] = "respond" /\ job[c].outcome = "RECEIPT") =>
        idempotency[job[c].req.key] = [id |-> job[c].id, intent |-> Intent(job[c].req)]

ToldOK ==
    \A k \in Keys, i \in Intents, w \in Workflows :
        <<k, i, w>> \in told => idempotency[k] = [id |-> w, intent |-> i]

(* The idempotency protocol. *)
KeyInv == TypeInv /\ CommitOK /\ PublishedIsComplete /\ RespondOK /\ ToldOK

(* The quota, with the slot that a commit under way was granted. *)
QuotaInv == KeyInv /\ QuotaRespected

(* An update was legal for the record it read, and the record has either    *)
(* that status still or a later generation.                                 *)
UpdateOK ==
    \A u \in Updaters : update[u] # None =>
        LET w == update[u].id IN
        /\ update[u].to \in WorkflowTransitions[update[u].status]
        /\ \/ workflows[w].generation > update[u].generation
           \/ /\ workflows[w].generation = update[u].generation
              /\ workflows[w].status = update[u].status

(* Between its two files an update has at most the segment of the status it *)
(* left.                                                                    *)
LedgerOK ==
    \A w \in Workflows :
        /\ workflows[w] = None => ledger[w] = "absent"
        /\ (workflows[w] # None /\ w \notin torn) =>
              IF lock \in Updaters /\ update[lock].id = w
              THEN /\ workflows[w].status = update[lock].to
                   /\ ledger[w] = "open" => update[lock].status \in Charging
              ELSE ledger[w] = "open" => workflows[w].status \in Charging

(* Only the holder of the mutex commits. *)
LEMMA NoCommit == TypeInv /\ lock \notin Clients => CommitOK
BY DEF TypeInv, JobOK, CommitOK

(* What a step keeps that leaves the files and the answers alone. *)
LEMMA FilesKept ==
    ASSUME KeyInv, UNCHANGED <<workflows, nodeRuns, receipts, idempotency>>
    PROVE  PublishedIsComplete'
BY DEF KeyInv, PublishedIsComplete

LEMMA KeyCommit ==
    ASSUME KeyInv, TypeInv', NEW c \in Clients, CommitAdmission(c)
    PROVE  KeyInv'
<1> USE AdmissionAssumption, NoneAssumption
<1> DEFINE j == job[c]
           n == j.written
           key == j.req.key
<1>1. /\ pc[c] = "commit"
      /\ lock = c
      /\ j \in Job
      /\ j.id \in Workflows
      /\ j.dep \in Deployments
      /\ n \in 0..LedgerFile
      /\ key \in Keys
      /\ \A b \in Clients : b # c => pc[b] # "commit"
      BY SMTT(60) DEF KeyInv, TypeInv, CommitAdmission, JobOK, Job, Request
<1>2. /\ job'[c].req = j.req
      /\ job'[c].id = j.id
      /\ job'[c].dep = j.dep
      /\ job'[c].written = n + 1
      /\ \A b \in Clients : b # c => job'[b] = job[b] /\ pc'[b] = pc[b]
      /\ pc'[c] = IF n = LedgerFile THEN "respond" ELSE "commit"
      BY <1>1, SMTT(30) DEF CommitAdmission, KeyInv, TypeInv, TypeOK, Job
<1>3. UNCHANGED told
      BY DEF CommitAdmission
<1>4. /\ n = 0 => workflows[j.id] = None
      /\ n > 0 => /\ workflows[j.id] # None
                  /\ workflows[j.id].dep = j.dep
                  /\ workflows[j.id].status = "PENDING"
      /\ n > NodeRunFiles => nodeRuns[j.id] = NodeRunFiles
      /\ n > ReceiptFile =>
            receipts[j.id] = [key |-> key, intent |-> Intent(j.req), dep |-> j.dep]
      /\ n <= IdempotencyFile =>
            /\ idempotency[key] = None
            /\ \A k \in Keys : idempotency[k] # None => idempotency[k].id # j.id
      /\ n > IdempotencyFile =>
            idempotency[key] = [id |-> j.id, intent |-> Intent(j.req)]
      BY <1>1 DEF KeyInv, CommitOK
<1>5. \A w \in Workflows : w # j.id => /\ workflows'[w] = workflows[w]
                                      /\ nodeRuns'[w] = nodeRuns[w]
                                      /\ receipts'[w] = receipts[w]
      BY <1>1 DEF CommitAdmission, KeyInv, TypeInv, TypeOK
<1>6. /\ n = 0 => workflows'[j.id] = [dep |-> j.dep, status |-> "PENDING", generation |-> 1]
      /\ n # 0 => workflows' = workflows
      BY <1>1 DEF CommitAdmission, WorkflowFile, KeyInv, TypeInv, TypeOK
<1>7. /\ n = NodeRunFiles => nodeRuns'[j.id] = NodeRunFiles
      /\ n > NodeRunFiles => nodeRuns' = nodeRuns
      BY <1>1 DEF CommitAdmission, KeyInv, TypeInv, TypeOK, LedgerFile
<1>8. /\ n = ReceiptFile => receipts'[j.id] = [key |-> key, intent |-> Intent(j.req), dep |-> j.dep]
      /\ n # ReceiptFile => receipts' = receipts
      BY <1>1 DEF CommitAdmission, KeyInv, TypeInv, TypeOK
<1>9. /\ n # IdempotencyFile => idempotency' = idempotency
      /\ n = IdempotencyFile =>
            idempotency' = [idempotency EXCEPT ![key] = [id |-> j.id, intent |-> Intent(j.req)]]
      BY DEF CommitAdmission
<1>10. [id |-> j.id, intent |-> Intent(j.req)] \in IdempotencyRecord
      BY <1>1 DEF IdempotencyRecord, Intent, Intents, Job, Request
<1>11. workflows'[j.id] # None /\ workflows'[j.id].dep = j.dep /\ workflows'[j.id].status = "PENDING"
    <2>1. [dep |-> j.dep, status |-> "PENDING", generation |-> 1] \in WorkflowRecord
          BY <1>1 DEF WorkflowRecord, WorkflowStatus, RunStatus
    <2> QED
        BY <1>1, <1>4, <1>6, <2>1
<1>12. CommitOK'
    <2>1. ASSUME NEW b \in Clients, pc'[b] = "commit"
          PROVE  b = c /\ n # LedgerFile
          BY <2>1, <1>1, <1>2
    <2>2. n + 1 > 0 /\ n + 1 # 0
          BY <1>1
    <2>3. n + 1 > NodeRunFiles => nodeRuns'[j.id] = NodeRunFiles
          BY <1>1, <1>4, <1>7
    <2>4. n + 1 > ReceiptFile =>
             receipts'[j.id] = [key |-> key, intent |-> Intent(j.req), dep |-> j.dep]
          BY <1>1, <1>4, <1>8 DEF ReceiptFile
    <2>5. n + 1 <= IdempotencyFile =>
             /\ idempotency'[key] = None
             /\ \A k \in Keys : idempotency'[k] # None => idempotency'[k].id # j.id
          BY <1>1, <1>4, <1>9 DEF IdempotencyFile
    <2>6. n + 1 > IdempotencyFile =>
             idempotency'[key] = [id |-> j.id, intent |-> Intent(j.req)]
          BY <1>1, <1>4, <1>9 DEF IdempotencyFile, KeyInv, TypeInv, TypeOK
    <2> HIDE DEF j, n, key
    <2> QED
        BY <1>2, <1>11, <2>1, <2>2, <2>3, <2>4, <2>5, <2>6 DEF CommitOK, j, n, key
<1>13. PublishedIsComplete'
    <2> SUFFICES ASSUME NEW k \in Keys, idempotency'[k] # None
                 PROVE  LET id == idempotency'[k].id IN
                        /\ workflows'[id] # None
                        /\ nodeRuns'[id] = NodeRunFiles
                        /\ receipts'[id] # None
                        /\ receipts'[id].key = k
                        /\ receipts'[id].intent = idempotency'[k].intent
                        /\ receipts'[id].dep = workflows'[id].dep
        BY DEF PublishedIsComplete
    <2>1. CASE n < IdempotencyFile
          BY <2>1, <1>1, <1>4, <1>5, <1>9 DEF KeyInv, PublishedIsComplete, TypeInv, TypeOK,
             IdempotencyRecord, IdempotencyFile
    <2>2. CASE n = IdempotencyFile /\ k # key
          BY <2>2, <1>1, <1>4, <1>5, <1>9 DEF KeyInv, PublishedIsComplete, TypeInv, TypeOK, IdempotencyRecord
    <2>3. CASE n = IdempotencyFile /\ k = key
       <3>1. idempotency'[k] = [id |-> j.id, intent |-> Intent(j.req)]
             BY <2>3, <1>1, <1>9 DEF KeyInv, TypeInv, TypeOK
       <3>2. /\ receipts'[j.id] = [key |-> key, intent |-> Intent(j.req), dep |-> j.dep]
             /\ nodeRuns'[j.id] = NodeRunFiles
             BY <2>3, <1>1, <1>4, <1>7, <1>8 DEF IdempotencyFile, ReceiptFile
       <3>3. receipts'[j.id] # None
             BY <3>2, <1>1 DEF ReceiptRecord, Intent, Intents, Job, Request
       <3> QED
           BY <2>3, <3>1, <3>2, <3>3, <1>11
    <2>4. CASE n > IdempotencyFile
          BY <2>4, <1>1, <1>5, <1>6, <1>7, <1>8, <1>9 DEF KeyInv, PublishedIsComplete, TypeInv, TypeOK,
             IdempotencyRecord, IdempotencyFile, ReceiptFile
    <2> QED
        BY <1>1, <2>1, <2>2, <2>3, <2>4 DEF IdempotencyFile, LedgerFile
<1>14. \A k \in Keys : idempotency[k] # None => idempotency'[k] = idempotency[k]
      BY <1>1, <1>4, <1>9 DEF KeyInv, TypeInv, TypeOK
<1>15. RespondOK'
    <2> SUFFICES ASSUME NEW b \in Clients, pc'[b] = "respond", job'[b].outcome = "RECEIPT"
                 PROVE  idempotency'[job'[b].req.key] = [id |-> job'[b].id, intent |-> Intent(job'[b].req)]
        BY DEF RespondOK, Intent
    <2>1. CASE b = c
          BY <2>1, <1>1, <1>2, <1>4, <1>9 DEF LedgerFile, IdempotencyFile
    <2>2. CASE b # c
       <3>1. /\ job'[b] = job[b]
             /\ job[b] \in Job
             /\ idempotency[job[b].req.key] = [id |-> job[b].id, intent |-> Intent(job[b].req)]
             /\ job[b].id \in Workflows
             BY <2>2, <1>2 DEF KeyInv, RespondOK, TypeInv, JobOK
       <3>2. [id |-> job[b].id, intent |-> Intent(job[b].req)] \in IdempotencyRecord /\ job[b].req.key \in Keys
             BY <3>1 DEF IdempotencyRecord, Intent, Intents, Job, Request
       <3> QED
           BY <3>1, <3>2, <1>14
    <2> QED
        BY <2>1, <2>2
<1>16. ToldOK'
    <2> SUFFICES ASSUME NEW k \in Keys, NEW i \in Intents, NEW w \in Workflows, <<k, i, w>> \in told
                 PROVE  idempotency'[k] = [id |-> w, intent |-> i]
        BY <1>3 DEF ToldOK
    <2>1. idempotency[k] = [id |-> w, intent |-> i]
          BY DEF KeyInv, ToldOK
    <2>2. [id |-> w, intent |-> i] \in IdempotencyRecord
          BY DEF IdempotencyRecord
    <2> QED
        BY <1>14, <2>1, <2>2
<1> QED
    BY <1>12, <1>13, <1>15, <1>16 DEF KeyInv

(* UpdateWorkflow leaves the deployment of a workflow alone. *)
LEMMA KeyUpdate ==
    ASSUME KeyInv, TypeInv', NEW u \in Updaters, UpdateWorkflow(u)
    PROVE  KeyInv'
<1> USE AdmissionAssumption, NoneAssumption
<1> DEFINE w == update[u].id
<1>1. /\ w \in Workflows
      /\ workflows[w] # None
      /\ workflows'[w] # None
      /\ workflows'[w].dep = workflows[w].dep
      /\ \A x \in Workflows : x # w => workflows'[x] = workflows[x]
    <2>1. update[u] \in UpdateRecord /\ w \in Workflows /\ workflows[w] \in WorkflowRecord
          BY DEF UpdateWorkflow, KeyInv, TypeInv, TypeOK, LockOK, UpdateRecord
    <2> DEFINE r == [dep |-> workflows[w].dep, status |-> update[u].to,
                     generation |-> update[u].generation + 1]
    <2>2. r \in WorkflowRecord
          BY <2>1 DEF UpdateRecord, WorkflowRecord
    <2>3. workflows' = [workflows EXCEPT ![w] = r]
          BY DEF UpdateWorkflow
    <2> QED
        BY <2>1, <2>2, <2>3 DEF KeyInv, TypeInv, TypeOK
<1>2. UNCHANGED <<nodeRuns, receipts, idempotency, told, pc, job>> /\ lock' = u
      BY DEF UpdateWorkflow
<1>3. CommitOK'
      BY <1>2, NoCommit DEF NoCommit, TypeInv, JobOK, CommitOK
<1>4. PublishedIsComplete'
      BY <1>1, <1>2 DEF KeyInv, PublishedIsComplete, TypeInv, TypeOK, IdempotencyRecord
<1>5. RespondOK' /\ ToldOK'
      BY <1>2 DEF KeyInv, RespondOK, ToldOK, Intent
<1> QED
    BY <1>3, <1>4, <1>5 DEF KeyInv

LEMMA KeyInitially == Init => KeyInv
BY TypeInitially, AdmissionAssumption DEF Init, KeyInv, CommitOK, PublishedIsComplete, RespondOK, ToldOK

LEMMA KeyStep == KeyInv /\ [Next]_vars => KeyInv'
<1> SUFFICES ASSUME KeyInv, [Next]_vars PROVE KeyInv'
    OBVIOUS
<1> USE AdmissionAssumption, NoneAssumption
<1>0. TypeInv /\ TypeInv'
      BY TypeStep DEF KeyInv
<1>a. ASSUME UNCHANGED <<workflows, nodeRuns, receipts, idempotency, told>>,
             lock' \notin Clients, RespondOK'
      PROVE  KeyInv'
  <2>1. CommitOK'
        BY <1>0, <1>a DEF TypeInv, JobOK, CommitOK
  <2>2. PublishedIsComplete'
        BY <1>a, FilesKept
  <2>3. ToldOK'
        BY <1>a DEF KeyInv, ToldOK
  <2> QED
      BY <1>0, <1>a, <2>1, <2>2, <2>3 DEF KeyInv
<1>1. ASSUME NEW d \in Deployments, NEW s \in DeploymentStatuses, SetDeploymentStatus(d, s)
      PROVE  KeyInv'
      BY <1>1, <1>a DEF SetDeploymentStatus, KeyInv, RespondOK, Intent
<1>2. ASSUME NEW a \in Aliases, NEW d \in Deployments, CompareAndSwapAlias(a, d)
      PROVE  KeyInv'
      BY <1>2, <1>a DEF CompareAndSwapAlias, KeyInv, RespondOK, Intent
<1>3. ASSUME NEW c \in Clients, NEW request \in Request, InvokeDeployment(c, request)
      PROVE  KeyInv'
  <2>1. RespondOK'
        BY <1>0, <1>3 DEF InvokeDeployment, KeyInv, RespondOK, Intent, disk, TypeInv, TypeOK
  <2> QED
      BY <1>3, <1>a, <2>1 DEF InvokeDeployment, disk
<1>4. ASSUME NEW c \in Clients, ReplayIdempotentAdmission(c)
      PROVE  KeyInv'
  <2> DEFINE rec == idempotency[job[c].req.key]
  <2>1. /\ job[c] \in Job
        /\ rec \in IdempotencyRecord
        /\ lock' = None
        /\ UNCHANGED <<workflows, nodeRuns, receipts, idempotency, told>>
        /\ \A b \in Clients : b # c => job'[b] = job[b] /\ pc'[b] = pc[b]
        /\ job'[c].req = job[c].req
        /\ job'[c].outcome = "RECEIPT" => job'[c].id = rec.id /\ rec.intent = Intent(job[c].req)
        BY <1>0, <1>4 DEF ReplayIdempotentAdmission, Return, Recorded, disk, TypeInv, TypeOK, JobOK, Job, Request
  <2>2. rec = [id |-> rec.id, intent |-> rec.intent]
        BY <2>1 DEF IdempotencyRecord
  <2>3. RespondOK'
        BY <2>1, <2>2, SMTT(30) DEF KeyInv, RespondOK, Intent
  <2> QED
      BY <1>a, <2>1, <2>3
<1>5. ASSUME NEW c \in Clients, AdmitRefused(c)
      PROVE  KeyInv'
  <2>1. /\ lock' = None
        /\ UNCHANGED <<workflows, nodeRuns, receipts, idempotency, told>>
        /\ \A b \in Clients : b # c => job'[b] = job[b] /\ pc'[b] = pc[b]
        /\ job'[c].outcome # "RECEIPT"
        BY <1>0, <1>5 DEF AdmitRefused, Return, disk, TypeInv, TypeOK, JobOK, Job
  <2>2. RespondOK'
        BY <2>1 DEF KeyInv, RespondOK, Intent
  <2> QED
      BY <1>a, <2>1, <2>2
<1>6. ASSUME NEW c \in Clients, NEW id \in Workflows, AdmitInvocation(c, id)
      PROVE  KeyInv'
  <2>a. Resolve(job[c].req.ref) \in Deployments
    <3>1. job[c] \in Job /\ Resolve(job[c].req.ref) # None
          BY <1>0, <1>6 DEF AdmitInvocation, TypeInv, JobOK
    <3>2. job[c].req.ref \in Deployments \cup Aliases
          BY <3>1 DEF Job, Request
    <3>3. aliases \in [Aliases -> Deployments \cup {None}]
          BY <1>0 DEF TypeInv, TypeOK
    <3> QED
        BY <3>1, <3>2, <3>3 DEF Resolve
  <2>0. PICK d \in Deployments : d = Resolve(job[c].req.ref)
        BY <2>a
  <2>1. /\ job[c] \in Job
        /\ job[c].req.key \in Keys
        /\ job[c].written = 0
        /\ lock' = c
        /\ \A b \in Clients : b # c => job'[b] = job[b] /\ pc'[b] = pc[b]
        /\ job'[c].req = job[c].req
        /\ job'[c].id = id
        /\ job'[c].dep = d
        /\ job'[c].written = 0
        /\ pc'[c] = "commit"
        /\ UNCHANGED <<workflows, nodeRuns, receipts, idempotency, told>>
        /\ workflows[id] = None
        /\ HasFreeSlot(d)
        /\ \A b \in Clients : b # c => pc'[b] # "commit"
    <3>0. TypeOK /\ JobOK
          BY <1>0 DEF TypeInv
    <3>1. /\ pc[c] = "admit" /\ lock = None /\ lock' = c /\ pc' = [pc EXCEPT ![c] = "commit"]
          /\ job' = [job EXCEPT ![c] = [job[c] EXCEPT !.id = id, !.dep = d]]
          /\ UNCHANGED <<workflows, nodeRuns, receipts, idempotency, told>>
          /\ workflows[id] = None
          /\ HasFreeSlot(d)
          BY <1>6, <2>0 DEF AdmitInvocation, disk
    <3>2. job[c] \in Job /\ job[c].written = 0
          BY <3>0, <3>1 DEF JobOK
    <3>3. /\ job[c].req.key \in Keys
          /\ job'[c].req = job[c].req /\ job'[c].id = id /\ job'[c].dep = d /\ job'[c].written = 0
          BY <3>0, <3>1, <3>2 DEF TypeOK, Job, Request
    <3>4. pc'[c] = "commit" /\ \A b \in Clients : b # c => job'[b] = job[b] /\ pc'[b] = pc[b]
          BY <3>0, <3>1 DEF TypeOK
    <3>5. \A b \in Clients : b # c => pc'[b] # "commit"
          BY <3>0, <3>1, <3>4, AdmissionAssumption DEF JobOK
    <3> QED
        BY <3>1, <3>2, <3>3, <3>4, <3>5
  <2>2. idempotency[job[c].req.key] = None
        BY <1>6, <2>1 DEF AdmitInvocation, Recorded, KeyInv, PublishedIsComplete
  <2>3. \A k \in Keys : idempotency[k] # None => idempotency[k].id # id
        BY <2>1 DEF KeyInv, PublishedIsComplete
  <2>4. HasFreeSlot(d)'
        BY <2>1 DEF HasFreeSlot, SlotHolders
  <2>5. CommitOK'
        BY <2>1, <2>2, <2>3, <2>4 DEF CommitOK, ReceiptFile, IdempotencyFile
  <2>6. RespondOK'
        BY <2>1 DEF KeyInv, RespondOK, Intent
  <2>7. PublishedIsComplete' /\ ToldOK'
        BY <2>1, FilesKept DEF KeyInv, ToldOK
  <2> QED
      BY <1>0, <2>5, <2>6, <2>7 DEF KeyInv
<1>7. ASSUME NEW c \in Clients, CommitAdmission(c)
      PROVE  KeyInv'
      BY <1>0, <1>7, KeyCommit
<1>8. ASSUME NEW c \in Clients, CommitFails(c)
      PROVE  KeyInv'
  <2>1. /\ lock' = None
        /\ UNCHANGED <<workflows, nodeRuns, receipts, idempotency, told>>
        /\ \A b \in Clients : b # c => job'[b] = job[b] /\ pc'[b] = pc[b]
        /\ job'[c].outcome # "RECEIPT"
        BY <1>0, <1>8 DEF CommitFails, disk, TypeInv, TypeOK, JobOK, Job
  <2>2. RespondOK'
        BY <2>1 DEF KeyInv, RespondOK, Intent
  <2> QED
      BY <1>a, <2>1, <2>2
<1>9. ASSUME NEW c \in Clients, Respond(c)
      PROVE  KeyInv'
  <2>1. /\ pc[c] = "respond"
        /\ pc'[c] = "idle"
        /\ UNCHANGED <<workflows, nodeRuns, receipts, idempotency>>
        /\ \A b \in Clients : b # c => job'[b] = job[b] /\ pc'[b] = pc[b]
        BY <1>0, <1>9 DEF Respond, disk, TypeInv, TypeOK
  <2>2. \A d : HasFreeSlot(d)' = HasFreeSlot(d)
        BY <2>1 DEF HasFreeSlot, SlotHolders
  <2>3. CommitOK'
        BY <2>1, <2>2 DEF KeyInv, CommitOK, Intent
  <2>4. RespondOK'
        BY <2>1 DEF KeyInv, RespondOK, Intent
  <2>5. ToldOK'
        BY <1>9, <2>1 DEF Respond, KeyInv, ToldOK, RespondOK
  <2>6. PublishedIsComplete'
        BY <2>1, FilesKept
  <2> QED
      BY <1>0, <2>3, <2>4, <2>5, <2>6 DEF KeyInv
<1>10. ASSUME NEW u \in Updaters, NEW w \in Workflows, GetWorkflow(u, w)
      PROVE  KeyInv'
      BY <1>10, <1>a DEF GetWorkflow, disk, KeyInv, RespondOK, Intent
<1>11. ASSUME NEW u \in Updaters, UpdateWorkflow(u)
      PROVE  KeyInv'
      BY <1>0, <1>11, KeyUpdate
<1>12. ASSUME NEW u \in Updaters, UpdateRefused(u)
      PROVE  KeyInv'
      BY <1>12, <1>a DEF UpdateRefused, disk, KeyInv, RespondOK, Intent
<1>13. ASSUME NEW u \in Updaters, SyncActiveTime(u)
      PROVE  KeyInv'
      BY <1>13, <1>a DEF SyncActiveTime, KeyInv, RespondOK, Intent
<1>14. ASSUME NEW u \in Updaters, SyncFails(u)
      PROVE  KeyInv'
      BY <1>14, <1>a DEF SyncFails, disk, KeyInv, RespondOK, Intent
<1>15. CASE Crash
      BY <1>15, <1>a DEF Crash, disk, RespondOK
<1>16. CASE UNCHANGED vars
  <2>1. \A d : HasFreeSlot(d)' = HasFreeSlot(d)
        BY <1>16 DEF vars, disk, HasFreeSlot, SlotHolders
  <2>2. CommitOK' /\ RespondOK' /\ ToldOK'
        BY <1>16, <2>1 DEF vars, disk, KeyInv, CommitOK, RespondOK, ToldOK, Intent
  <2>3. PublishedIsComplete'
        BY <1>16, FilesKept DEF vars, disk
  <2> QED
      BY <1>0, <2>2, <2>3 DEF KeyInv
<1> QED
    BY <1>1, <1>2, <1>3, <1>4, <1>5, <1>6, <1>7, <1>8, <1>9, <1>10, <1>11, <1>12, <1>13,
       <1>14, <1>15, <1>16 DEF Next

(* Whoever finds an idempotency record finds the complete admission.        *)
THEOREM PublicationIsAtomic == Spec => []PublishedIsComplete
<1>1. KeyInv => PublishedIsComplete
      BY DEF KeyInv
<1> QED
    BY KeyInitially, KeyStep, <1>1, PTL DEF Spec

(* A key answers with one invocation, and an invocation with one key.       *)
THEOREM KeysAreUnique == Spec => []OneInvocationPerKey
<1>1. KeyInv => OneInvocationPerKey
  <2> SUFFICES ASSUME KeyInv, NEW x \in told, NEW y \in told
               PROVE  (x[1] = y[1]) <=> (x[3] = y[3] /\ x[2] = y[2])
      BY DEF OneInvocationPerKey
  <2>1. PICK k \in Keys, i \in Intents, w \in Workflows : x = <<k, i, w>>
        BY DEF KeyInv, TypeInv, TypeOK
  <2>2. PICK l \in Keys, h \in Intents, v \in Workflows : y = <<l, h, v>>
        BY DEF KeyInv, TypeInv, TypeOK
  <2>3. idempotency[k] = [id |-> w, intent |-> i] /\ idempotency[l] = [id |-> v, intent |-> h]
        BY <2>1, <2>2 DEF KeyInv, ToldOK
  <2>4. idempotency[k] # None /\ idempotency[l] # None
        BY <2>3, NoneAssumption DEF IdempotencyRecord
  <2>5. receipts[w].key = k /\ receipts[v].key = l
        BY <2>3, <2>4 DEF KeyInv, PublishedIsComplete
  <2> QED
      BY <2>1, <2>2, <2>3, <2>5
<1> QED
    BY KeyInitially, KeyStep, <1>1, PTL DEF Spec

-----------------------------------------------------------------------------
(* The refinement of InvocationService. *)

(* A write of commitAdmission is invisible to callers, except for the one   *)
(* of the idempotency record, which binds a fresh key to an unused id.      *)
LEMMA CommitRefines ==
    ASSUME KeyInv, NEW c \in Clients, CommitAdmission(c)
    PROVE  Service!Next \/ UNCHANGED <<idempotency, told>>
<1> USE AdmissionAssumption
<1> DEFINE j == job[c]
           n == j.written
<1>1. /\ pc[c] = "commit" /\ j \in Job /\ j.id \in Workflows /\ n \in 0..LedgerFile
      BY DEF KeyInv, TypeInv, CommitAdmission, JobOK
<1>2. j.req.key \in Keys /\ Intent(j.req) \in Intents
      BY <1>1 DEF Job, Request, Intent, Intents
<1>3. told' = told
      BY DEF CommitAdmission
<1>4. CASE n # IdempotencyFile
      BY <1>3, <1>4 DEF CommitAdmission
<1>5. CASE n = IdempotencyFile
  <2>1. n <= IdempotencyFile
        BY <1>1, <1>5
  <2>2. /\ idempotency[j.req.key] = None
        /\ \A k \in Keys : idempotency[k] # None => idempotency[k].id # j.id
        BY <1>1, <2>1 DEF KeyInv, CommitOK
  <2>3. idempotency' = [idempotency EXCEPT ![j.req.key] = [id |-> j.id, intent |-> Intent(j.req)]]
        BY <1>5 DEF CommitAdmission
  <2>4. Service!Accept(j.req.key, Intent(j.req), j.id)
        BY <1>3, <2>2, <2>3 DEF Service!Accept, Service!Unused
  <2> QED
      BY <1>1, <1>2, <2>4 DEF Service!Next
<1> QED
    BY <1>4, <1>5

(* An answer with a receipt tells what the key is bound to. *)
LEMMA RespondRefines ==
    ASSUME KeyInv, NEW c \in Clients, Respond(c)
    PROVE  Service!Next \/ UNCHANGED <<idempotency, told>>
<1> DEFINE j == job[c]
<1>1. pc[c] = "respond" /\ j \in Job /\ idempotency' = idempotency
      BY DEF KeyInv, TypeInv, JobOK, Respond, disk
<1>2. CASE j.outcome # "RECEIPT"
      BY <1>1, <1>2 DEF Respond
<1>3. CASE j.outcome = "RECEIPT"
  <2>1. idempotency[j.req.key] = [id |-> j.id, intent |-> Intent(j.req)]
        BY <1>1, <1>3 DEF KeyInv, RespondOK
  <2>2. j.req.key \in Keys /\ Intent(j.req) \in Intents /\ j.id \in Workflows
        BY <1>1, <1>3 DEF KeyInv, TypeInv, JobOK, Job, Request, Intent, Intents
  <2>3. idempotency[j.req.key] # None
    <3>1. [id |-> j.id, intent |-> Intent(j.req)] \in IdempotencyRecord
          BY <2>2 DEF IdempotencyRecord
    <3> QED
        BY <2>1, <3>1, NoneAssumption
  <2>4. told' = told \cup {<<j.req.key, idempotency[j.req.key].intent, idempotency[j.req.key].id>>}
        BY <1>3, <2>1 DEF Respond
  <2>5. Service!Tell(j.req.key)
        BY <1>1, <2>3, <2>4 DEF Service!Tell
  <2> QED
      BY <2>2, <2>5 DEF Service!Next
<1> QED
    BY <1>2, <1>3

(* A step of admission is a step of the service or none at all. *)
LEMMA StepRefines ==
    ASSUME KeyInv, [Next]_vars
    PROVE  Service!Next \/ UNCHANGED <<idempotency, told>>
<1>1. ASSUME NEW d \in Deployments, NEW s \in DeploymentStatuses, SetDeploymentStatus(d, s)
      PROVE  UNCHANGED <<idempotency, told>>
      BY <1>1 DEF SetDeploymentStatus
<1>2. ASSUME NEW a \in Aliases, NEW d \in Deployments, CompareAndSwapAlias(a, d)
      PROVE  UNCHANGED <<idempotency, told>>
      BY <1>2 DEF CompareAndSwapAlias
<1>3. ASSUME NEW c \in Clients, NEW request \in Request, InvokeDeployment(c, request)
      PROVE  UNCHANGED <<idempotency, told>>
      BY <1>3 DEF InvokeDeployment, disk
<1>4. ASSUME NEW c \in Clients, ReplayIdempotentAdmission(c) \/ AdmitRefused(c)
      PROVE  UNCHANGED <<idempotency, told>>
      BY <1>4 DEF ReplayIdempotentAdmission, AdmitRefused, Return, disk
<1>5. ASSUME NEW c \in Clients, NEW id \in Workflows, AdmitInvocation(c, id)
      PROVE  UNCHANGED <<idempotency, told>>
      BY <1>5 DEF AdmitInvocation, disk
<1>6. ASSUME NEW c \in Clients, CommitFails(c)
      PROVE  UNCHANGED <<idempotency, told>>
      BY <1>6 DEF CommitFails, disk
<1>7. ASSUME NEW u \in Updaters, NEW w \in Workflows, GetWorkflow(u, w)
      PROVE  UNCHANGED <<idempotency, told>>
      BY <1>7 DEF GetWorkflow, disk
<1>8. ASSUME NEW u \in Updaters, UpdateWorkflow(u) \/ UpdateRefused(u) \/ SyncActiveTime(u) \/ SyncFails(u)
      PROVE  UNCHANGED <<idempotency, told>>
      BY <1>8 DEF UpdateWorkflow, UpdateRefused, SyncActiveTime, SyncFails, disk
<1>9. ASSUME Crash
      PROVE  UNCHANGED <<idempotency, told>>
      BY <1>9 DEF Crash, disk
<1>10. CASE UNCHANGED vars
      BY <1>10 DEF vars, disk
<1> QED
    BY <1>1, <1>2, <1>3, <1>4, <1>5, <1>6, <1>7, <1>8, <1>9, <1>10, CommitRefines, RespondRefines DEF Next

(* Admission implements InvocationService: seen through the idempotency     *)
(* records and the receipts handed out, the file-by-file commits, failed    *)
(* writes, crashes and racing handlers of AdmitInvocation and               *)
(* InvokeDeployment do nothing but bind a fresh key once, to an id no other *)
(* key has, and repeat that answer.                                         *)
THEOREM ServiceImplemented == Spec => ImplementsService
<1>1. Init => Service!Init
      BY DEF Init, Service!Init
<1>2. KeyInv /\ [Next]_vars => [Service!Next]_<<idempotency, told>>
      BY StepRefines
<1> QED
    BY KeyInitially, KeyStep, <1>1, <1>2, PTL DEF Spec, ImplementsService, Service!Spec

-----------------------------------------------------------------------------
(* The concurrency quota. *)

LEMMA CountShrinks ==
    ASSUME NEW S \in SUBSET Workflows, NEW T \in SUBSET S
    PROVE  /\ Cardinality(T) \in Nat
           /\ Cardinality(S) \in Nat
           /\ Cardinality(T) <= Cardinality(S)
<1>1. IsFiniteSet(S)
      BY AdmissionAssumption, FS_Subset
<1> QED
    BY <1>1, FS_Subset, FS_CardinalityType

LEMMA CountGrows ==
    ASSUME NEW S \in SUBSET Workflows, NEW w \in Workflows, NEW T \in SUBSET (S \cup {w})
    PROVE  /\ Cardinality(T) \in Nat
           /\ Cardinality(S) \in Nat
           /\ Cardinality(T) <= Cardinality(S) + 1
<1>1. IsFiniteSet(S) /\ Cardinality(S) \in Nat
      BY AdmissionAssumption, FS_Subset, FS_CardinalityType
<1>2. IsFiniteSet(S \cup {w}) /\ Cardinality(S \cup {w}) \in Nat /\ Cardinality(S \cup {w}) <= Cardinality(S) + 1
      BY <1>1, FS_AddElement
<1>3. Cardinality(T) \in Nat /\ Cardinality(T) <= Cardinality(S \cup {w})
      BY <1>2, FS_Subset, FS_CardinalityType
<1> QED
    BY <1>1, <1>2, <1>3

(* A step that writes one workflow keeps the quota if the deployment of a   *)
(* workflow that did not hold a slot and does now had a free one.           *)
LEMMA QuotaKept ==
    ASSUME QuotaRespected, NEW w \in Workflows, NEW e \in Deployments,
           \A x \in Workflows : x # w => workflows'[x] = workflows[x],
           workflows'[w] # None /\ workflows'[w].dep = e,
           workflows[w] # None => workflows[w].dep = e,
           workflows'[w].status \in SlotHolding =>
              \/ workflows[w] # None /\ workflows[w].status \in SlotHolding
              \/ HasFreeSlot(e)
    PROVE  QuotaRespected'
<1> SUFFICES ASSUME NEW d \in Deployments
             PROVE  Cardinality(SlotHolders(d)') <= MaxConcurrentRuns[d]
    BY DEF QuotaRespected
<1> DEFINE S == SlotHolders(d)
           T == SlotHolders(d)'
<1>1. /\ MaxConcurrentRuns[d] \in Nat
      /\ S \in SUBSET Workflows
      /\ T \in SUBSET Workflows
      /\ Cardinality(S) <= MaxConcurrentRuns[d]
      BY AdmissionAssumption DEF QuotaRespected, SlotHolders
<1>2. CASE w \in T /\ w \notin S
  <2>1. HasFreeSlot(d)
        BY <1>2 DEF SlotHolders
  <2>2. T \subseteq S \cup {w}
        BY DEF SlotHolders
  <2>3. Cardinality(S) < MaxConcurrentRuns[d]
        BY <2>1 DEF HasFreeSlot
  <2> HIDE DEF S, T
  <2>4. Cardinality(T) \in Nat /\ Cardinality(S) \in Nat /\ Cardinality(T) <= Cardinality(S) + 1
        BY <1>1, <2>2, CountGrows
  <2> QED
      BY <1>1, <2>3, <2>4 DEF T
<1>3. CASE ~(w \in T /\ w \notin S)
  <2>1. T \subseteq S
        BY <1>3 DEF SlotHolders
  <2> HIDE DEF S, T
  <2>2. Cardinality(T) \in Nat /\ Cardinality(S) \in Nat /\ Cardinality(T) <= Cardinality(S)
        BY <1>1, <2>1, CountShrinks
  <2> QED
      BY <1>1, <2>2 DEF S, T
<1> QED
    BY <1>2, <1>3

(* Which steps write a workflow. *)
LEMMA WorkflowsWritten ==
    ASSUME [Next]_vars
    PROVE  \/ UNCHANGED workflows
           \/ \E c \in Clients : CommitAdmission(c)
           \/ \E u \in Updaters : UpdateWorkflow(u)
BY DEF Next, vars, disk, SetDeploymentStatus, CompareAndSwapAlias, InvokeDeployment, Return,
       ReplayIdempotentAdmission, AdmitRefused, AdmitInvocation, CommitFails, Respond,
       GetWorkflow, UpdateRefused, SyncActiveTime, SyncFails, Crash

(* What an admission does to the workflows. *)
LEMMA AdmissionWrites ==
    ASSUME KeyInv, NEW c \in Clients, CommitAdmission(c)
    PROVE  /\ job[c].id \in Workflows
           /\ lock = c
           /\ \A x \in Workflows : x # job[c].id => workflows'[x] = workflows[x]
           /\ \/ workflows' = workflows
              \/ /\ workflows[job[c].id] = None
                 /\ HasFreeSlot(job[c].dep)
                 /\ workflows'[job[c].id] # None
                 /\ workflows'[job[c].id].dep = job[c].dep
                 /\ workflows'[job[c].id].status = "PENDING"
<1> USE AdmissionAssumption, NoneAssumption
<1>1. /\ pc[c] = "commit" /\ lock = c
      /\ job[c].id \in Workflows /\ job[c].dep \in Deployments
      /\ job[c].written \in 0..LedgerFile
      BY DEF KeyInv, TypeInv, CommitAdmission, JobOK
<1>2. CASE job[c].written = 0
  <2>1. [dep |-> job[c].dep, status |-> "PENDING", generation |-> 1] \in WorkflowRecord
        BY <1>1 DEF WorkflowRecord, WorkflowStatus, RunStatus
  <2>2. workflows[job[c].id] = None /\ HasFreeSlot(job[c].dep)
        BY <1>1, <1>2 DEF KeyInv, CommitOK
  <2>3. workflows' = [workflows EXCEPT ![job[c].id] =
                          [dep |-> job[c].dep, status |-> "PENDING", generation |-> 1]]
        BY <1>2 DEF CommitAdmission, WorkflowFile
  <2> QED
      BY <1>1, <2>1, <2>2, <2>3 DEF KeyInv, TypeInv, TypeOK
<1>3. CASE job[c].written # 0
      BY <1>1, <1>3 DEF CommitAdmission, WorkflowFile
<1> QED
    BY <1>2, <1>3

(* What an update does to them. *)
LEMMA UpdateWrites ==
    ASSUME TypeInv, NEW u \in Updaters, UpdateWorkflow(u)
    PROVE  /\ update[u] \in UpdateRecord
           /\ update[u].id \in Workflows
           /\ workflows[update[u].id] \in WorkflowRecord
           /\ workflows[update[u].id] # None
           /\ workflows'[update[u].id] # None
           /\ workflows'[update[u].id].dep = workflows[update[u].id].dep
           /\ workflows'[update[u].id].status = update[u].to
           /\ workflows'[update[u].id].generation = update[u].generation + 1
           /\ \A x \in Workflows : x # update[u].id => workflows'[x] = workflows[x]
<1> USE AdmissionAssumption, NoneAssumption
<1> DEFINE w == update[u].id
           r == [dep |-> workflows[w].dep, status |-> update[u].to,
                 generation |-> update[u].generation + 1]
<1>1. update[u] \in UpdateRecord /\ w \in Workflows /\ workflows[w] \in WorkflowRecord
      BY DEF UpdateWorkflow, TypeInv, TypeOK, LockOK, UpdateRecord
<1>2. r \in WorkflowRecord
      BY <1>1 DEF UpdateRecord, WorkflowRecord
<1>3. workflows' = [workflows EXCEPT ![w] = r]
      BY DEF UpdateWorkflow
<1> QED
    BY <1>1, <1>2, <1>3 DEF TypeInv, TypeOK

LEMMA QuotaStep == QuotaInv /\ [Next]_vars => QuotaInv'
<1> SUFFICES ASSUME QuotaInv, [Next]_vars PROVE QuotaInv'
    OBVIOUS
<1>0. KeyInv /\ KeyInv' /\ TypeInv /\ QuotaRespected
      BY KeyStep DEF QuotaInv, KeyInv
<1>1. CASE UNCHANGED workflows
      BY <1>0, <1>1 DEF QuotaInv, QuotaRespected, SlotHolders
<1>2. ASSUME NEW c \in Clients, CommitAdmission(c)
      PROVE  QuotaRespected'
  <2>1. CASE UNCHANGED workflows
        BY <1>0, <2>1 DEF QuotaRespected, SlotHolders
  <2>2. CASE ~UNCHANGED workflows
    <3>1. PICK w \in Workflows, e \in Deployments : w = job[c].id /\ e = job[c].dep
          BY <1>0, <1>2, AdmissionWrites DEF CommitAdmission, TypeInv, JobOK
    <3>2. /\ \A x \in Workflows : x # w => workflows'[x] = workflows[x]
          /\ workflows[w] = None
          /\ workflows'[w] # None
          /\ workflows'[w].dep = e
          /\ HasFreeSlot(e)
          BY <1>0, <1>2, <2>2, <3>1, AdmissionWrites
    <3> QED
        BY <1>0, <3>2, QuotaKept
  <2> QED
      BY <2>1, <2>2
<1>3. ASSUME NEW u \in Updaters, UpdateWorkflow(u)
      PROVE  QuotaRespected'
  <2>0. update[u].id \in Workflows /\ workflows[update[u].id].dep \in Deployments
        BY <1>0, <1>3, UpdateWrites DEF WorkflowRecord
  <2>1. PICK w \in Workflows, e \in Deployments : w = update[u].id /\ e = workflows[w].dep
        BY <2>0
  <2>2. /\ \A x \in Workflows : x # w => workflows'[x] = workflows[x]
        /\ workflows[w] # None
        /\ workflows'[w] # None
        /\ workflows'[w].dep = e
        /\ workflows'[w].status = update[u].to
        BY <1>0, <1>3, <2>1, UpdateWrites
  <2>3. \/ update[u].to \notin SlotHolding
        \/ workflows[w].status \in SlotHolding
        \/ HasFreeSlot(e)
        BY <1>3, <2>1, <2>2 DEF UpdateWorkflow, NeedsSlot
  <2> QED
      BY <1>0, <2>1, <2>2, <2>3, QuotaKept
<1> QED
    BY <1>0, <1>1, <1>2, <1>3, WorkflowsWritten DEF QuotaInv

(* No deployment ever has more slot-holding workflows than its quota. *)
THEOREM QuotaHolds == Spec => []QuotaRespected
<1>1. Init => QuotaInv
  <2> SUFFICES ASSUME Init PROVE QuotaRespected
      BY KeyInitially DEF QuotaInv
  <2>1. \A d \in Deployments : SlotHolders(d) = {}
        BY DEF Init, SlotHolders
  <2> QED
      BY <2>1, FS_EmptySet, AdmissionAssumption DEF QuotaRespected
<1>2. QuotaInv => QuotaRespected
      BY DEF QuotaInv
<1> QED
    BY <1>1, <1>2, QuotaStep, PTL DEF Spec
-----------------------------------------------------------------------------
(* The status of a workflow and its active-time ledger. *)

UpdateInv == KeyInv /\ UpdateOK

LEMMA UpdateStep == UpdateInv /\ [Next]_vars => UpdateInv'
<1> SUFFICES ASSUME UpdateInv, [Next]_vars PROVE UpdateOK'
    BY KeyStep DEF UpdateInv
<1> USE AdmissionAssumption, NoneAssumption
<1>0. KeyInv /\ TypeInv /\ UpdateOK
      BY DEF UpdateInv, KeyInv
<1>1. ASSUME UNCHANGED <<workflows, update>>
      PROVE  UpdateOK'
      BY <1>0, <1>1 DEF UpdateOK
<1>2. ASSUME UNCHANGED workflows, \A u \in Updaters : update'[u] = None \/ update'[u] = update[u]
      PROVE  UpdateOK'
      BY <1>0, <1>2 DEF UpdateOK
<1>3. ASSUME NEW c \in Clients, CommitAdmission(c)
      PROVE  UpdateOK'
  <2>1. update' = update
        BY <1>3 DEF CommitAdmission
  <2>2. \A x \in Workflows : workflows[x] # None => workflows'[x] = workflows[x]
        BY <1>0, <1>3, AdmissionWrites
  <2>3. \A u \in Updaters : update[u] # None =>
            update[u].id \in Workflows /\ workflows[update[u].id] # None
        BY <1>0 DEF TypeInv, TypeOK, LockOK, UpdateRecord
  <2> QED
      BY <1>0, <2>1, <2>2, <2>3 DEF UpdateOK
<1>4. ASSUME NEW u \in Updaters, NEW w \in Workflows, GetWorkflow(u, w)
      PROVE  UpdateOK'
  <2>1. PICK to \in WorkflowTransitions[workflows[w].status] :
            update' = [update EXCEPT ![u] =
                [id |-> w, status |-> workflows[w].status,
                 generation |-> workflows[w].generation, to |-> to]]
        BY <1>4 DEF GetWorkflow
  <2>2. UNCHANGED workflows
        BY <1>4 DEF GetWorkflow, disk
  <2> QED
      BY <1>0, <2>1, <2>2 DEF UpdateOK, TypeInv, TypeOK
<1>5. ASSUME NEW u \in Updaters, UpdateWorkflow(u)
      PROVE  UpdateOK'
  <2>0. update[u].id \in Workflows
        BY <1>0, <1>5, UpdateWrites
  <2>1. PICK w \in Workflows : w = update[u].id
        BY <2>0
  <2>2. /\ workflows[w] \in WorkflowRecord
        /\ workflows'[w].generation = workflows[w].generation + 1
        /\ \A x \in Workflows : x # w => workflows'[x] = workflows[x]
        /\ update' = update
        BY <1>0, <1>5, <2>1, UpdateWrites, ZenonT(40) DEF UpdateWorkflow, IsCurrent
  <2>3. workflows[w].generation \in Nat
        BY <2>2 DEF WorkflowRecord
  <2>4. \A v \in Updaters : update[v] # None =>
            update[v].id \in Workflows /\ update[v].generation \in Nat
        BY <1>0 DEF TypeInv, TypeOK, UpdateRecord
  <2> QED
      BY <1>0, <2>2, <2>3, <2>4 DEF UpdateOK
<1>6. \/ UNCHANGED <<workflows, update>>
      \/ UNCHANGED workflows /\ \A u \in Updaters : update'[u] = None \/ update'[u] = update[u]
      \/ \E c \in Clients : CommitAdmission(c)
      \/ \E u \in Updaters, w \in Workflows : GetWorkflow(u, w)
      \/ \E u \in Updaters : UpdateWorkflow(u)
  <2>1. ASSUME NEW u \in Updaters, UpdateRefused(u) \/ SyncActiveTime(u) \/ SyncFails(u)
        PROVE  UNCHANGED workflows /\ \A v \in Updaters : update'[v] = None \/ update'[v] = update[v]
        BY <1>0, <2>1 DEF UpdateRefused, SyncActiveTime, SyncFails, disk, TypeInv, TypeOK
  <2>2. ASSUME Crash
        PROVE  UNCHANGED workflows /\ \A v \in Updaters : update'[v] = None
        BY <2>2 DEF Crash, disk
  <2> QED
      BY <2>1, <2>2, ZenonT(40) DEF Next, vars, disk, SetDeploymentStatus, CompareAndSwapAlias, InvokeDeployment,
         Return, ReplayIdempotentAdmission, AdmitRefused, AdmitInvocation, CommitFails, Respond
<1> QED
    BY <1>1, <1>2, <1>3, <1>4, <1>5, <1>6

LEMMA UpdateInitially == Init => UpdateInv
BY KeyInitially DEF UpdateInv, UpdateOK, Init

(* UpdateWorkflow does not look at the transition table, and yet a          *)
(* workflow's status only moves along it.                                   *)
THEOREM TransitionsAreLegal == Spec => OnlyLegalTransitions
<1> DEFINE Legal ==
        \A w \in Workflows :
           workflows[w] # None =>
              /\ workflows'[w] # None
              /\ \/ workflows'[w].status = workflows[w].status
                 \/ workflows'[w].status \in WorkflowTransitions[workflows[w].status]
<1>1. ASSUME UpdateInv, [Next]_vars
      PROVE  Legal
  <2>0. KeyInv /\ TypeInv /\ UpdateOK
        BY <1>1 DEF UpdateInv, KeyInv
  <2>1. CASE UNCHANGED workflows
        BY <2>1
  <2>2. ASSUME NEW c \in Clients, CommitAdmission(c)
        PROVE  Legal
        BY <2>0, <2>2, AdmissionWrites
  <2>3. ASSUME NEW u \in Updaters, UpdateWorkflow(u)
        PROVE  Legal
    <3>1. /\ workflows'[update[u].id].status = update[u].to
          /\ workflows'[update[u].id] # None
          /\ \A x \in Workflows : x # update[u].id => workflows'[x] = workflows[x]
          /\ workflows[update[u].id].generation \in Nat
          BY <2>0, <2>3, UpdateWrites DEF WorkflowRecord
    <3>2. update[u].to \in WorkflowTransitions[workflows[update[u].id].status]
          BY <2>0, <2>3, <3>1 DEF UpdateOK, UpdateWorkflow, IsCurrent
    <3> QED
        BY <3>1, <3>2
  <2> QED
      BY <1>1, <2>1, <2>2, <2>3, WorkflowsWritten
<1>2. UpdateInv /\ [Next]_vars => [Legal]_vars
      BY <1>1
<1> QED
    BY UpdateInitially, UpdateStep, <1>2, PTL DEF Spec, OnlyLegalTransitions

LedgerInv == UpdateInv /\ LedgerOK

LEMMA LedgerStep == LedgerInv /\ [Next]_vars => LedgerInv'
<1> SUFFICES ASSUME LedgerInv, [Next]_vars PROVE LedgerOK'
    BY UpdateStep DEF LedgerInv
<1> USE AdmissionAssumption, NoneAssumption
<1>0. KeyInv /\ TypeInv /\ UpdateOK /\ LedgerOK
      BY DEF LedgerInv, UpdateInv, KeyInv
<1>1. ASSUME UNCHANGED <<workflows, ledger, torn>>, lock \notin Updaters, lock' \notin Updaters
      PROVE  LedgerOK'
      BY <1>0, <1>1 DEF LedgerOK
<1>2. ASSUME UNCHANGED <<workflows, ledger, torn, lock, update>>
      PROVE  LedgerOK'
      BY <1>0, <1>2 DEF LedgerOK
<1>3. ASSUME NEW c \in Clients, CommitAdmission(c)
      PROVE  LedgerOK'
  <2>0. job[c].id \in Workflows
        BY <1>0, <1>3, AdmissionWrites
  <2>1. PICK w \in Workflows : w = job[c].id
        BY <2>0
  <2>2. /\ lock = c
        /\ \A x \in Workflows : x # w => workflows'[x] = workflows[x]
        /\ \/ workflows' = workflows
           \/ /\ workflows[w] = None
              /\ workflows'[w] # None
              /\ workflows'[w].status = "PENDING"
        BY <1>0, <1>3, <2>1, AdmissionWrites
  <2>3. lock \notin Updaters /\ lock' \notin Updaters /\ torn' = torn
        BY <1>3, <2>2 DEF CommitAdmission
  <2>4. /\ pc[c] = "commit"
        /\ ledger \in [Workflows -> {"absent", "closed", "open"}]
        /\ job[c].written \in 0..LedgerFile
        BY <1>0, <1>3 DEF CommitAdmission, TypeInv, TypeOK, JobOK
  <2>5. \/ ledger' = ledger
        \/ /\ workflows' = workflows
           /\ ledger' = [ledger EXCEPT ![w] = "closed"]
           /\ workflows[w] # None
           /\ workflows[w].status = "PENDING"
    <3>1. job[c].written # LedgerFile => ledger' = ledger
          BY <1>3 DEF CommitAdmission
    <3>2. ASSUME job[c].written = LedgerFile
          PROVE  /\ workflows' = workflows
                 /\ ledger' = [ledger EXCEPT ![w] = "closed"]
                 /\ workflows[w] # None
                 /\ workflows[w].status = "PENDING"
      <4>1. job[c].written > 0
            BY <3>2 DEF LedgerFile
      <4>2. workflows[w] # None /\ workflows[w].status = "PENDING"
            BY <1>0, <2>1, <2>4, <4>1 DEF KeyInv, CommitOK
      <4> QED
          BY <1>3, <2>1, <3>2, <4>1, <4>2 DEF CommitAdmission, WorkflowFile
    <3> QED
        BY <3>1, <3>2
  <2>6. "PENDING" \notin Charging
        BY DEF Charging
  <2>7. CASE ledger' = ledger
        BY <1>0, <2>2, <2>3, <2>6, <2>7 DEF LedgerOK
  <2>8. CASE ledger' # ledger
        BY <1>0, <2>3, <2>4, <2>5, <2>6, <2>8 DEF LedgerOK
  <2> QED
      BY <2>7, <2>8
<1>4. ASSUME NEW u \in Updaters, UpdateWorkflow(u)
      PROVE  LedgerOK'
  <2>0. update[u].id \in Workflows
        BY <1>0, <1>4, UpdateWrites
  <2>1. PICK w \in Workflows : w = update[u].id
        BY <2>0
  <2>2. /\ workflows[w] # None
        /\ workflows'[w].status = update[u].to
        /\ workflows'[w] # None
        /\ workflows[w].generation \in Nat
        /\ \A x \in Workflows : x # w => workflows'[x] = workflows[x]
        BY <1>0, <1>4, <2>1, UpdateWrites DEF WorkflowRecord
  <2>3. lock = None /\ lock' = u /\ UNCHANGED <<ledger, torn, update>> /\ update[u] # None
        BY <1>4 DEF UpdateWorkflow
  <2>4. workflows[w].status = update[u].status
        BY <1>0, <1>4, <2>1, <2>2 DEF UpdateOK, UpdateWorkflow, IsCurrent
  <2> QED
      BY <1>0, <2>1, <2>2, <2>3, <2>4 DEF LedgerOK
<1>5. ASSUME NEW u \in Updaters, SyncActiveTime(u)
      PROVE  LedgerOK'
  <2>0. /\ update[u] # None
        /\ update[u].id \in Workflows
        /\ update[u].status \in WorkflowStatus
        /\ update[u].to \in WorkflowStatus
        /\ ledger[update[u].id] \in {"absent", "closed", "open"}
        BY <1>0, <1>5 DEF SyncActiveTime, TypeInv, TypeOK, LockOK, UpdateRecord
  <2>1. PICK w \in Workflows, from \in WorkflowStatus, to \in WorkflowStatus,
             l \in {"absent", "closed", "open"} :
            /\ w = update[u].id
            /\ from = update[u].status
            /\ to = update[u].to
            /\ l = ledger[w]
        BY <2>0
  <2>2. /\ lock = u /\ lock' = None
        /\ UNCHANGED <<workflows, torn>>
        /\ ledger' = [ledger EXCEPT ![w] = Synced(l, from, to)]
        BY <1>5, <2>1 DEF SyncActiveTime
  <2>3. workflows[w] # None /\ ledger \in [Workflows -> {"absent", "closed", "open"}]
        BY <1>0, <2>0, <2>1 DEF TypeInv, TypeOK, LockOK
  <2>4. w \notin torn => workflows[w].status = to /\ (l = "open" => from \in Charging)
        BY <1>0, <2>1, <2>2, <2>3 DEF LedgerOK
  <2>5. (l = "open" => from \in Charging)
           => (Synced(l, from, to) = "open" => to \in Charging)
        BY DEF Synced, WorkflowTerminal, RunTerminal, Charging
  <2>6. ledger'[w] = Synced(l, from, to) /\ \A x \in Workflows : x # w => ledger'[x] = ledger[x]
        BY <2>2, <2>3
  <2> QED
      BY <1>0, <2>1, <2>2, <2>3, <2>4, <2>5, <2>6 DEF LedgerOK
<1>6. ASSUME NEW u \in Updaters, SyncFails(u)
      PROVE  LedgerOK'
  <2>1. lock = u /\ lock' = None /\ UNCHANGED <<workflows, ledger>> /\ torn' = torn \cup {update[u].id}
        BY <1>6 DEF SyncFails, disk
  <2> QED
      BY <1>0, <2>1 DEF LedgerOK
<1>7. ASSUME Crash
      PROVE  LedgerOK'
  <2>1. /\ lock' = None
        /\ workflows' = workflows
        /\ torn \subseteq torn'
        /\ lock \in Updaters => update[lock].id \in torn'
        BY <1>7 DEF Crash
  <2>2. \A w \in Workflows :
           ledger'[w] = ledger[w] \/ (ledger[w] = "open" /\ ledger'[w] = "closed")
    <3>1. PICK closed \in SUBSET {w \in Workflows : ledger[w] = "open"} :
             ledger' = ReconcileActiveTime(closed)
          BY <1>7 DEF Crash
    <3>2. ASSUME NEW w \in Workflows
          PROVE  \/ ledger'[w] = ledger[w]
                 \/ ledger[w] = "open" /\ ledger'[w] = "closed"
          BY <3>1 DEF ReconcileActiveTime
    <3> QED
        BY <3>2
  <2>3. ASSUME NEW w \in Workflows
        PROVE  /\ workflows'[w] = None => ledger'[w] = "absent"
               /\ (workflows'[w] # None /\ w \notin torn')
                     => (ledger'[w] = "open" => workflows'[w].status \in Charging)
    <3>1. ledger'[w] = "open" => ledger[w] = "open"
          BY <2>2
    <3>2. ledger[w] = "absent" => ledger'[w] = "absent"
          BY <2>2
    <3>3. w \notin torn' => w \notin torn /\ ~(lock \in Updaters /\ update[lock].id = w)
          BY <2>1
    <3> QED
        BY <1>0, <2>1, <3>1, <3>2, <3>3 DEF LedgerOK
  <2> QED
      BY <2>1, <2>3 DEF LedgerOK
<1>8. \/ UNCHANGED <<workflows, ledger, torn>> /\ lock \notin Updaters /\ lock' \notin Updaters
      \/ UNCHANGED <<workflows, ledger, torn, lock, update>>
      \/ \E c \in Clients : CommitAdmission(c)
      \/ \E u \in Updaters : UpdateWorkflow(u) \/ SyncActiveTime(u) \/ SyncFails(u)
      \/ Crash
  <2>1. ASSUME NEW c \in Clients, CommitFails(c)
        PROVE  UNCHANGED <<workflows, ledger, torn>> /\ lock \notin Updaters /\ lock' \notin Updaters
        BY <1>0, <2>1 DEF CommitFails, disk, TypeInv, JobOK
  <2>2. ASSUME NEW c \in Clients, NEW id \in Workflows, AdmitInvocation(c, id)
        PROVE  UNCHANGED <<workflows, ledger, torn>> /\ lock \notin Updaters /\ lock' \notin Updaters
        BY <2>2 DEF AdmitInvocation, disk
  <2>3. ASSUME NEW u \in Updaters, UpdateRefused(u) \/ \E w \in Workflows : GetWorkflow(u, w)
        PROVE  UNCHANGED <<workflows, ledger, torn>> /\ lock \notin Updaters /\ lock' \notin Updaters
        BY <2>3 DEF UpdateRefused, GetWorkflow, disk
  <2> QED
      BY <2>1, <2>2, <2>3, ZenonT(40) DEF Next, vars, disk, SetDeploymentStatus, CompareAndSwapAlias,
         InvokeDeployment, Return, ReplayIdempotentAdmission, AdmitRefused, Respond
<1> QED
    BY <1>1, <1>2, <1>3, <1>4, <1>5, <1>6, <1>7, <1>8

(* Between updates no segment is open on a workflow that is not charged     *)
(* for, over any number of restarts, unless an update was stopped between   *)
(* its files.                                                               *)
THEOREM NeverOpenWhileFrozen == Spec => []NoSegmentWhileFrozen
<1>1. Init => LedgerInv
      BY UpdateInitially DEF LedgerInv, LedgerOK, Init
<1>2. LedgerInv => NoSegmentWhileFrozen
      BY DEF LedgerInv, LedgerOK, NoSegmentWhileFrozen
<1> QED
    BY <1>1, <1>2, LedgerStep, PTL DEF Spec
=============================================================================

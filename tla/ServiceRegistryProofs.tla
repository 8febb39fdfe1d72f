------------------------ MODULE ServiceRegistryProofs ------------------------
(***************************************************************************)
(* For any number of services, callers, calls, starts and containers: no   *)
(* generation of a service gets two containers, and a READY service was    *)
(* made so by the Start of its own generation, whose container it attached *)
(* to the service's network.                                               *)
(*                                                                         *)
(* A generation is claimed by one Start (Claims), which alone may create   *)
(* its container; from then on the operation's locals name a container of  *)
(* the operation's service and generation (JobOK), whatever happens to the *)
(* instance in between.                                                    *)
(***************************************************************************)
EXTENDS ServiceRegistry, TLAPS, FiniteSetTheorems

Box == [s : Services, gen : 1..MaxGeneration, attached : BOOLEAN,
        status : {"created", "running", "exited", "removed"}]

Tracker == [last : 0..MaxCallIds, live : SUBSET ((1..MaxCallIds) \X Calls)]

Ops == {"idle", "ensure", "stop", "cleanup", "reconcile"}

Places == {"next", "declare", "start", "create", "run", "store", "attach", "probe",
           "ready", "fail", "drop", "halt", "teardown", "stopped", "judge"}

Job == [op : Ops, at : Places, todo : Seq(Services), started : Seq(Services),
        gen : 0..MaxGeneration, c : 0..MaxContainers, keep : BOOLEAN, seen : SUBSET Containers]

ToolCall == [at : {"idle", "resolved", "registered", "live"}, s : Services \cup {None},
             cap : 0..MaxGeneration, id : 0..MaxCallIds, cancelled : BOOLEAN]

TypeInv ==
    /\ inst \in [Services -> Instance \cup {None}]
    /\ tracker \in [Services -> Tracker]
    /\ box \in Seq(Box)
    /\ Len(box) <= MaxContainers
    /\ job \in [Procs -> Job]
    /\ call \in [Calls -> ToolCall]
    /\ faults \in 0..MaxFaults

(* The calls of a tracker have its ids; a call that is under way has a      *)
(* service.                                                                 *)
CallsOK ==
    /\ \A s \in Services : tracker[s].live \subseteq (1..tracker[s].last) \X Calls
    /\ \A k \in Calls : call[k].at # "idle" => call[k].s \in Services

(* A READY service has an attached container of its generation; the         *)
(* capability of a service is its generation's; its container was created.  *)
InstOK(i, b) ==
    \A s \in Services : i[s] # None =>
        /\ i[s].cap \in {0, i[s].gen}
        /\ i[s].container <= Len(b)
        /\ i[s].state = "READY" =>
              \E c \in 1..Len(b) : b[c].s = s /\ b[c].gen = i[s].gen /\ b[c].attached

(* Containers belong to generations that were claimed. *)
BoxOK(i, b) == \A c \in 1..Len(b) : i[b[c].s] # None /\ b[c].gen <= i[b[c].s].gen

All(i, q) == \A n \in 1..Len(q) : i[q[n]] # None

(* The Start of generation j.gen is about to create its container. *)
Creating(j) == j.op = "ensure" /\ j.at = "create" /\ j.todo # <<>>

JobOK(j, i, b) ==
    /\ j.c <= Len(b)
    /\ All(i, j.started)
    /\ j.op \in {"stop", "cleanup"} => All(i, j.todo)
    /\ j.op \in {"stop", "cleanup"} /\ j.at \in {"halt", "teardown", "stopped"} => j.todo # <<>>
    /\ (j.op = "ensure" /\ j.todo # <<>>) =>
          /\ j.at \notin {"next", "declare"} => i[Head(j.todo)] # None
          /\ j.at = "create" =>
                /\ j.gen \in 1..i[Head(j.todo)].gen
                /\ \A c \in 1..Len(b) : b[c].s = Head(j.todo) => b[c].gen # j.gen
          /\ j.at \in {"run", "store", "attach", "probe", "ready"} =>
                j.c # 0 /\ b[j.c].s = Head(j.todo) /\ b[j.c].gen = j.gen
          /\ j.at \in {"probe", "ready"} => b[j.c].attached
          /\ (j.at = "fail" /\ ~j.keep) => j.c # 0
          /\ j.at = "drop" => j.c # 0
          /\ j.at \notin {"fail", "drop"} => j.keep

(* No two Starts are about to create the container of one generation. *)
Claims ==
    \A p, q \in Procs :
        (p # q /\ Creating(job[p]) /\ Creating(job[q]) /\ Current(p) = Current(q))
            => job[p].gen # job[q].gen

Inv ==
    /\ TypeInv /\ CallsOK
    /\ InstOK(inst, box) /\ BoxOK(inst, box)
    /\ \A p \in Procs : JobOK(job[p], inst, box)
    /\ Claims
    /\ OneContainerPerGeneration

-----------------------------------------------------------------------------
(* Generations and containers only grow. *)

InstGrows(i, i2) ==
    \A s \in Services : i[s] # None => i2[s] # None /\ i2[s].gen >= i[s].gen

BoxGrows(b, b2) ==
    /\ Len(b) <= Len(b2)
    /\ \A c \in 1..Len(b) : /\ b2[c].s = b[c].s
                            /\ b2[c].gen = b[c].gen
                            /\ b[c].attached => b2[c].attached

Instances == [Services -> Instance \cup {None}]

(* What an operation knows stays true when others move on, as long as they  *)
(* do not create the container it is about to create.                       *)
LEMMA JobKept ==
    ASSUME NEW j \in Job, NEW i \in Instances, NEW i2 \in Instances, NEW b \in Seq(Box),
           NEW b2 \in Seq(Box), InstGrows(i, i2), BoxGrows(b, b2), JobOK(j, i, b),
           Creating(j) => \A c \in 1..Len(b2) : b2[c].s = Head(j.todo) => b2[c].gen # j.gen
    PROVE  JobOK(j, i2, b2)
<1> USE ServiceAssumption
<1>0. /\ Len(b) \in Nat /\ Len(b2) \in Nat /\ Len(b) <= Len(b2) /\ j.c \in Nat /\ j.gen \in Nat
      /\ j.todo \in Seq(Services) /\ j.started \in Seq(Services)
      BY DEF Job, BoxGrows
<1>1. j.c <= Len(b2)
      BY <1>0 DEF JobOK
<1>2. \A s \in Services : i[s] # None => i2[s] # None /\ i2[s].gen >= i[s].gen
      BY DEF InstGrows
<1>3. ASSUME NEW q \in Seq(Services), All(i, q) PROVE All(i2, q)
  <2>1. \A n \in 1..Len(q) : q[n] \in Services
        OBVIOUS
  <2> QED
      BY <1>2, <1>3, <2>1 DEF All
<1>4. All(i2, j.started) /\ (j.op \in {"stop", "cleanup"} => All(i2, j.todo))
      BY <1>0, <1>3 DEF JobOK
<1>5. j.op \in {"stop", "cleanup"} /\ j.at \in {"halt", "teardown", "stopped"} => j.todo # <<>>
      BY DEF JobOK
<1>6. ASSUME j.op = "ensure", j.todo # <<>>
      PROVE  /\ j.at \notin {"next", "declare"} => i2[Head(j.todo)] # None
             /\ j.at = "create" =>
                   /\ j.gen \in 1..i2[Head(j.todo)].gen
                   /\ \A c \in 1..Len(b2) : b2[c].s = Head(j.todo) => b2[c].gen # j.gen
             /\ j.at \in {"run", "store", "attach", "probe", "ready"} =>
                   j.c # 0 /\ b2[j.c].s = Head(j.todo) /\ b2[j.c].gen = j.gen
             /\ j.at \in {"probe", "ready"} => b2[j.c].attached
             /\ (j.at = "fail" /\ ~j.keep) => j.c # 0
             /\ j.at = "drop" => j.c # 0
             /\ j.at \notin {"fail", "drop"} => j.keep
  <2> DEFINE s == Head(j.todo)
  <2>1. s \in Services
        BY <1>0, <1>6
  <2> HIDE DEF s
  <2>2. /\ j.at \notin {"next", "declare"} => i[s] # None
        /\ j.at = "create" => j.gen \in 1..i[s].gen
        /\ j.at \in {"run", "store", "attach", "probe", "ready"} =>
              j.c # 0 /\ b[j.c].s = s /\ b[j.c].gen = j.gen
        /\ j.at \in {"probe", "ready"} => b[j.c].attached
        /\ (j.at = "fail" /\ ~j.keep) => j.c # 0
        /\ j.at = "drop" => j.c # 0
        /\ j.at \notin {"fail", "drop"} => j.keep
        BY <1>6 DEF JobOK, s
  <2>3. j.at \notin {"next", "declare"} => i2[s] # None
        BY <1>2, <2>1, <2>2
  <2>4. ASSUME j.at = "create" PROVE j.gen \in 1..i2[s].gen
    <3>1. i[s] # None /\ i2[s] # None /\ i2[s].gen >= i[s].gen
          BY <1>2, <2>1, <2>2, <2>4
    <3>2. i[s] \in Instance /\ i2[s] \in Instance
          BY <2>1, <3>1 DEF Instances
    <3>3. i[s].gen \in Nat /\ i2[s].gen \in Nat
          BY <3>2, SMTT(30) DEF Instance
    <3> QED
        BY <2>2, <2>4, <3>1, <3>3, SMTT(30)
  <2>5. ASSUME j.at \in {"run", "store", "attach", "probe", "ready"}
        PROVE  j.c # 0 /\ b2[j.c].s = s /\ b2[j.c].gen = j.gen /\ (b[j.c].attached => b2[j.c].attached)
    <3>1. j.c \in 1..Len(b)
          BY <1>0, <2>2, <2>5 DEF JobOK
    <3> QED
        BY <2>2, <2>5, <3>1 DEF BoxGrows
  <2>6. j.at = "create" => \A c \in 1..Len(b2) : b2[c].s = s => b2[c].gen # j.gen
        BY <1>6 DEF Creating, s
  <2> QED
      BY <2>2, <2>3, <2>4, <2>5, <2>6 DEF s
<1> QED
    BY <1>1, <1>4, <1>5, <1>6 DEF JobOK

(* More containers leave the instances as sound as they were. *)
LEMMA InstKept ==
    ASSUME NEW i \in Instances, NEW b \in Seq(Box), NEW b2 \in Seq(Box), BoxGrows(b, b2),
           InstOK(i, b)
    PROVE  InstOK(i, b2)
<1> SUFFICES ASSUME NEW s \in Services, i[s] # None
             PROVE  /\ i[s].cap \in {0, i[s].gen}
                    /\ i[s].container <= Len(b2)
                    /\ i[s].state = "READY" =>
                          \E c \in 1..Len(b2) : b2[c].s = s /\ b2[c].gen = i[s].gen /\ b2[c].attached
    BY DEF InstOK
<1>1. i[s] \in Instance /\ Len(b) \in Nat /\ Len(b2) \in Nat /\ Len(b) <= Len(b2)
      BY DEF Instances, BoxGrows
<1>2. i[s].container \in Nat
      BY <1>1 DEF Instance
<1>3. i[s].cap \in {0, i[s].gen} /\ i[s].container <= Len(b)
      BY DEF InstOK
<1>4. ASSUME i[s].state = "READY"
      PROVE  \E c \in 1..Len(b2) : b2[c].s = s /\ b2[c].gen = i[s].gen /\ b2[c].attached
  <2>1. PICK c \in 1..Len(b) : b[c].s = s /\ b[c].gen = i[s].gen /\ b[c].attached
        BY <1>4 DEF InstOK
  <2>2. c \in 1..Len(b2)
        BY <1>1
  <2>3. b2[c].s = s /\ b2[c].gen = i[s].gen /\ b2[c].attached
        BY <2>1 DEF BoxGrows
  <2> QED
      BY <2>2, <2>3
<1> QED
    BY <1>1, <1>2, <1>3, <1>4

(* One instance moves on. *)
LEMMA InstMoves ==
    ASSUME Inv, NEW s \in Services, NEW n \in Instance, inst[s] # None => n.gen >= inst[s].gen,
           inst' = [inst EXCEPT ![s] = n], n.cap \in {0, n.gen}, n.container <= Len(box),
           n.state = "READY" =>
              \E c \in 1..Len(box) : box[c].s = s /\ box[c].gen = n.gen /\ box[c].attached
    PROVE  /\ inst' \in Instances /\ InstGrows(inst, inst') /\ InstOK(inst', box)
           /\ \A t \in Services : inst'[t] = IF t = s THEN n ELSE inst[t]
           /\ inst'[s] # None
<1>1. inst \in Instances
      BY DEF Inv, TypeInv, Instances
<1>2. \A t \in Services : inst'[t] = IF t = s THEN n ELSE inst[t]
      BY <1>1 DEF Instances
<1>3. inst' \in Instances
      BY <1>1 DEF Instances
<1>4. n # None
      BY ServiceAssumption
<1>5. InstGrows(inst, inst')
  <2> SUFFICES ASSUME NEW t \in Services, inst[t] # None
               PROVE  inst'[t] # None /\ inst'[t].gen >= inst[t].gen
      BY DEF InstGrows
  <2>1. CASE t = s
        BY <1>2, <1>4, <2>1
  <2>2. CASE t # s
    <3>1. inst[t] \in Instance /\ inst'[t] = inst[t]
          BY <1>1, <1>2, <2>2 DEF Instances
    <3>2. inst[t].gen \in Nat
          BY <3>1 DEF Instance
    <3> QED
        BY <3>1, <3>2
  <2> QED
      BY <2>1, <2>2
<1>6. InstOK(inst', box)
  <2>1. InstOK(inst, box)
        BY DEF Inv
  <2> QED
      BY <1>2, <2>1 DEF InstOK
<1> QED
    BY <1>2, <1>3, <1>4, <1>5, <1>6

(* One container changes its status or is found ready. *)
LEMMA BoxMoves ==
    ASSUME Inv, NEW c \in 1..Len(box), NEW n \in Box, n.s = box[c].s, n.gen = box[c].gen,
           box[c].attached => n.attached, box' = [box EXCEPT ![c] = n]
    PROVE  /\ box' \in Seq(Box) /\ Len(box') = Len(box) /\ BoxGrows(box, box')
           /\ \A d \in 1..Len(box) : box'[d] = IF d = c THEN n ELSE box[d]
<1>1. box \in Seq(Box) /\ Len(box) \in Nat
      BY DEF Inv, TypeInv
<1>2. /\ box' \in Seq(Box) /\ Len(box') = Len(box)
      /\ \A d \in 1..Len(box) : box'[d] = IF d = c THEN n ELSE box[d]
      BY <1>1
<1>3. BoxGrows(box, box')
      BY <1>1, <1>2 DEF BoxGrows
<1> QED
    BY <1>2, <1>3

(* Nothing has to grow. *)
LEMMA Same ==
    ASSUME Inv
    PROVE  /\ inst \in Instances /\ InstGrows(inst, inst) /\ InstOK(inst, box)
           /\ box \in Seq(Box) /\ BoxGrows(box, box) /\ Len(box) \in Nat
<1>1. inst \in Instances /\ box \in Seq(Box) /\ InstOK(inst, box)
      BY DEF Inv, TypeInv, Instances
<1>2. InstGrows(inst, inst)
  <2> SUFFICES ASSUME NEW t \in Services, inst[t] # None PROVE inst[t].gen >= inst[t].gen
      BY DEF InstGrows
  <2>1. inst[t] \in Instance
        BY <1>1 DEF Instances
  <2>2. inst[t].gen \in Nat
        BY <2>1 DEF Instance
  <2> QED
      BY <2>2
<1>3. BoxGrows(box, box)
      BY <1>1 DEF BoxGrows
<1> QED
    BY <1>1, <1>2, <1>3

CallTypes == tracker \in [Services -> Tracker] /\ call \in [Calls -> ToolCall] /\ CallsOK

(* Containers still belong to claimed generations, one to each. *)
LEMMA BoxKept ==
    ASSUME Inv, inst' \in Instances, InstGrows(inst, inst'),
           box' \in Seq(Box), Len(box') = Len(box), BoxGrows(box, box')
    PROVE  BoxOK(inst', box') /\ OneContainerPerGeneration'
<1>1. inst \in Instances /\ box \in Seq(Box)
      BY DEF Inv, TypeInv, Instances
<1>2. BoxOK(inst', box')
  <2> SUFFICES ASSUME NEW c \in 1..Len(box')
               PROVE  inst'[box'[c].s] # None /\ box'[c].gen <= inst'[box'[c].s].gen
      BY DEF BoxOK
  <2>1. c \in 1..Len(box) /\ box[c] \in Box
        BY <1>1
  <2>2. /\ box'[c].s = box[c].s /\ box'[c].gen = box[c].gen /\ box[c].s \in Services
        /\ box[c].gen \in Nat
        BY <2>1 DEF BoxGrows, Box
  <2>3. inst[box[c].s] # None /\ box[c].gen <= inst[box[c].s].gen
        BY <2>1 DEF Inv, BoxOK
  <2>4. inst'[box[c].s] # None /\ inst'[box[c].s].gen >= inst[box[c].s].gen
        BY <2>2, <2>3 DEF InstGrows
  <2>5. inst[box[c].s] \in Instance /\ inst'[box[c].s] \in Instance
        BY <1>1, <2>2, <2>3, <2>4 DEF Instances
  <2>6. inst[box[c].s].gen \in Nat /\ inst'[box[c].s].gen \in Nat
        BY <2>5, SMTT(30) DEF Instance
  <2> QED
      BY <2>2, <2>3, <2>4, <2>6
<1>3. OneContainerPerGeneration'
  <2>1. \A c \in 1..Len(box') : box'[c].s = box[c].s /\ box'[c].gen = box[c].gen
        BY DEF BoxGrows
  <2> QED
      BY <2>1 DEF Inv, OneContainerPerGeneration
<1> QED
    BY <1>2, <1>3

(* A step that creates no container preserves the invariant if it does so   *)
(* for the instances, the calls and the locals of one operation, and does   *)
(* not claim a generation that is claimed.                                  *)
LEMMA JobStep ==
    ASSUME Inv, NEW p \in Procs, NEW j \in Job, job' = [job EXCEPT ![p] = j],
           inst' \in Instances, InstGrows(inst, inst'), InstOK(inst', box'),
           box' \in Seq(Box), Len(box') = Len(box), BoxGrows(box, box'),
           JobOK(j, inst', box'), CallTypes', faults' \in 0..MaxFaults,
           Creating(j) => \A q \in Procs \ {p} :
               (Creating(job[q]) /\ Head(j.todo) = Current(q)) => j.gen # job[q].gen
    PROVE  Inv'
<1>1. job \in [Procs -> Job] /\ inst \in Instances /\ box \in Seq(Box) /\ Len(box) <= MaxContainers
      BY DEF Inv, TypeInv, Instances
<1>2. \A q \in Procs : job'[q] = IF q = p THEN j ELSE job[q]
      BY <1>1
<1>3. TypeInv'
  <2>1. job' \in [Procs -> Job]
        BY <1>1
  <2> QED
      BY <1>1, <2>1 DEF TypeInv, CallTypes, Instances
<1>4. ASSUME NEW q \in Procs PROVE JobOK(job'[q], inst', box')
  <2>1. CASE q = p
        BY <1>2, <2>1
  <2>2. CASE q # p
    <3>1. job'[q] = job[q] /\ job[q] \in Job /\ JobOK(job[q], inst, box)
          BY <1>1, <1>2, <2>2 DEF Inv
    <3>2. Creating(job[q]) =>
             \A c \in 1..Len(box') : box'[c].s = Head(job[q].todo) => box'[c].gen # job[q].gen
      <4>1. Creating(job[q]) =>
               \A c \in 1..Len(box) : box[c].s = Head(job[q].todo) => box[c].gen # job[q].gen
            BY <3>1 DEF JobOK, Creating
      <4> QED
          BY <4>1 DEF BoxGrows
    <3> QED
        BY <1>1, <3>1, <3>2, JobKept
  <2> QED
      BY <2>1, <2>2
<1>5. Claims'
  <2> SUFFICES ASSUME NEW q \in Procs, NEW r \in Procs, q # r, Creating(job'[q]), Creating(job'[r]),
                      Head(job'[q].todo) = Head(job'[r].todo)
               PROVE  job'[q].gen # job'[r].gen
      BY DEF Claims, Current
  <2>1. CASE q = p
        BY <1>2, <2>1 DEF Current
  <2>2. CASE r = p
        BY <1>2, <2>2 DEF Current
  <2>3. CASE q # p /\ r # p
    <3>1. job'[q] = job[q] /\ job'[r] = job[r]
          BY <1>2, <2>3
    <3> QED
        BY <3>1 DEF Inv, Claims, Current
  <2> QED
      BY <2>1, <2>2, <2>3
<1>6. BoxOK(inst', box') /\ OneContainerPerGeneration'
      BY BoxKept
<1>7. CallsOK'
      BY DEF CallTypes
<1> QED
    BY <1>3, <1>4, <1>5, <1>6, <1>7 DEF Inv

(* The same for a step that is no operation's. *)
LEMMA OtherStep ==
    ASSUME Inv, UNCHANGED job,
           inst' \in Instances, InstGrows(inst, inst'), InstOK(inst', box'),
           box' \in Seq(Box), Len(box') = Len(box), BoxGrows(box, box'),
           CallTypes', faults' \in 0..MaxFaults
    PROVE  Inv'
<1>1. job \in [Procs -> Job] /\ inst \in Instances /\ box \in Seq(Box) /\ Len(box) <= MaxContainers
      BY DEF Inv, TypeInv, Instances
<1>2. TypeInv'
      BY <1>1 DEF TypeInv, CallTypes, Instances
<1>3. ASSUME NEW q \in Procs PROVE JobOK(job'[q], inst', box')
  <2>1. job'[q] = job[q] /\ job[q] \in Job /\ JobOK(job[q], inst, box)
        BY <1>1 DEF Inv
  <2>2. Creating(job[q]) =>
           \A c \in 1..Len(box') : box'[c].s = Head(job[q].todo) => box'[c].gen # job[q].gen
    <3>1. Creating(job[q]) =>
             \A c \in 1..Len(box) : box[c].s = Head(job[q].todo) => box[c].gen # job[q].gen
          BY <2>1 DEF JobOK, Creating
    <3> QED
        BY <3>1 DEF BoxGrows
  <2> QED
      BY <1>1, <2>1, <2>2, JobKept
<1>4. Claims'
      BY DEF Inv, Claims, Current
<1>5. BoxOK(inst', box') /\ OneContainerPerGeneration'
      BY BoxKept
<1>6. CallsOK'
      BY DEF CallTypes
<1> QED
    BY <1>2, <1>3, <1>4, <1>5, <1>6 DEF Inv

(* An operation that goes on with the next service, or returns. *)
LEMMA ContinuedOK ==
    ASSUME NEW op \in {"ensure", "stop", "cleanup"}, NEW todo \in Seq(Services),
           NEW started \in Seq(Services), NEW i, NEW b, Len(b) \in Nat, All(i, started),
           op # "ensure" => All(i, todo)
    PROVE  /\ Continued(op, todo, started) \in Job
           /\ JobOK(Continued(op, todo, started), i, b)
           /\ ~Creating(Continued(op, todo, started))
<1> USE ServiceAssumption
<1> DEFINE j1 == [Idle EXCEPT !.op = op]
           j2 == [j1 EXCEPT !.todo = todo]
           j3 == [j2 EXCEPT !.started = started]
<1>1. Idle \in Job /\ JobOK(Idle, i, b) /\ ~Creating(Idle) /\ Idle.at = "next" /\ Idle.c = 0
      /\ Idle.keep
      BY DEF Idle, Job, Ops, Places, Containers, JobOK, All, Creating
<1>2. j1 \in Job /\ j1.op = op /\ j1.at = "next" /\ j1.c = 0 /\ j1.keep
      BY <1>1 DEF Job, Ops
<1> HIDE DEF j1
<1>3. j2 \in Job /\ j2.op = op /\ j2.at = "next" /\ j2.c = 0 /\ j2.keep /\ j2.todo = todo
      BY <1>2 DEF Job
<1> HIDE DEF j2
<1>4. /\ j3 \in Job /\ j3.op = op /\ j3.at = "next" /\ j3.c = 0 /\ j3.keep /\ j3.todo = todo
      /\ j3.started = started
      BY <1>3 DEF Job
<1> HIDE DEF j3
<1>5. JobOK(j3, i, b) /\ ~Creating(j3)
      BY <1>4 DEF JobOK, Creating
<1>6. [Idle EXCEPT !.op = op, !.todo = todo, !.started = started] = j3
      BY DEF j1, j2, j3
<1> QED
    BY <1>1, <1>4, <1>5, <1>6 DEF Continued

(* An operation that is through with its service. *)
LEMMA DoneOK ==
    ASSUME Inv, NEW p \in Procs, NEW ok \in BOOLEAN, Done(p, ok), job[p].todo # <<>>,
           job[p].op \in {"ensure", "stop", "cleanup"}, NEW i \in Instances, InstGrows(inst, i),
           NEW b, Len(b) \in Nat, job[p].op = "ensure" /\ ok => i[Current(p)] # None
    PROVE  \E j \in Job : job' = [job EXCEPT ![p] = j] /\ JobOK(j, i, b) /\ ~Creating(j)
<1> DEFINE k == job[p]
<1>1. /\ k \in Job /\ k.todo \in Seq(Services) /\ k.started \in Seq(Services)
      /\ JobOK(k, inst, box)
      BY DEF Inv, TypeInv, Job
<1>2. ASSUME NEW q \in Seq(Services), All(inst, q) PROVE All(i, q)
  <2>1. \A n \in 1..Len(q) : q[n] \in Services
        OBVIOUS
  <2> QED
      BY <1>2, <2>1 DEF All, InstGrows
<1>3. All(i, k.started) /\ (k.op # "ensure" => All(i, k.todo))
      BY <1>1, <1>2 DEF JobOK
<1>4. All(i, <<>>) /\ <<>> \in Seq(Services)
      BY DEF All
<1>5. CASE k.op = "ensure" /\ ~ok
  <2> DEFINE j == Continued("stop", k.started, <<>>)
  <2>1. job' = [job EXCEPT ![p] = j]
        BY <1>5 DEF Done
  <2>2. j \in Job /\ JobOK(j, i, b) /\ ~Creating(j)
        BY <1>1, <1>3, <1>4, ContinuedOK
  <2> QED
      BY <2>1, <2>2
<1>6. CASE k.op = "ensure" /\ ok
  <2> DEFINE t == Tail(k.todo)
             s == Append(k.started, Head(k.todo))
             j == Continued("ensure", t, s)
  <2>1. job' = [job EXCEPT ![p] = j]
        BY <1>6 DEF Done, Current
  <2>2. t \in Seq(Services) /\ s \in Seq(Services)
        BY <1>1
  <2>3. All(i, s)
        BY <1>1, <1>3, <1>6 DEF All, Current
  <2> HIDE DEF t, s
  <2>4. j \in Job /\ JobOK(j, i, b) /\ ~Creating(j)
        BY <2>2, <2>3, ContinuedOK
  <2> QED
      BY <2>1, <2>4
<1>7. CASE k.op # "ensure"
  <2> DEFINE t == Tail(k.todo)
             j == Continued(k.op, t, <<>>)
  <2>1. job' = [job EXCEPT ![p] = j]
        BY <1>7 DEF Done
  <2>2. t \in Seq(Services) /\ All(i, t)
        BY <1>1, <1>3, <1>7 DEF All
  <2> HIDE DEF t
  <2>3. j \in Job /\ JobOK(j, i, b) /\ ~Creating(j)
        BY <1>4, <1>7, <2>2, ContinuedOK
  <2> QED
      BY <2>1, <2>3
<1> QED
    BY <1>5, <1>6, <1>7

(* Where an operation stands. *)
LEMMA Here ==
    ASSUME Inv, NEW p \in Procs
    PROVE  /\ job[p] \in Job /\ JobOK(job[p], inst, box)
           /\ job[p].todo # <<>> => Current(p) \in Services /\ Current(p) = Head(job[p].todo)
<1>1. job[p] \in Job /\ JobOK(job[p], inst, box)
      BY DEF Inv, TypeInv
<1>2. job[p].todo \in Seq(Services)
      BY <1>1 DEF Job
<1> QED
    BY <1>1, <1>2 DEF Current

(* What an operation knows that creates no container, after any step. *)
LEMMA StillOK ==
    ASSUME Inv, NEW p \in Procs, ~Creating(job[p]), inst' \in Instances, InstGrows(inst, inst'),
           box' \in Seq(Box), BoxGrows(box, box')
    PROVE  JobOK(job[p], inst', box')
<1>1. job[p] \in Job /\ JobOK(job[p], inst, box) /\ inst \in Instances /\ box \in Seq(Box)
      BY Here, Same
<1> QED
    BY <1>1, JobKept

(* An operation that takes its next step. *)
LEMMA MovedTo ==
    ASSUME NEW k \in Job, NEW at \in Places
    PROVE  LET j == [k EXCEPT !.at = at]
           IN  /\ j \in Job /\ j.at = at /\ j.op = k.op /\ j.todo = k.todo
               /\ j.started = k.started /\ j.gen = k.gen /\ j.c = k.c /\ j.keep = k.keep
BY DEF Job

(* Steps that leave the calls alone. *)
LEMMA SameCalls ==
    ASSUME Inv, UNCHANGED <<tracker, call>>
    PROVE  CallTypes'
BY DEF Inv, TypeInv, CallTypes, CallsOK

(* A tracker is given up. *)
LEMMA CancelAllOK ==
    ASSUME Inv, NEW s \in Services, CancelAll(s)
    PROVE  CallTypes'
<1> USE ServiceAssumption
<1> DEFINE cancelled(k) == [call[k] EXCEPT !.cancelled = TRUE]
<1>1. /\ tracker \in [Services -> Tracker] /\ call \in [Calls -> ToolCall]
      /\ tracker' = [tracker EXCEPT ![s] = NewTracker]
      BY DEF Inv, TypeInv, CancelAll
<1>2. NewTracker \in Tracker /\ NewTracker.live = {}
      BY DEF NewTracker, Tracker
<1>3. /\ tracker' \in [Services -> Tracker]
      /\ \A t \in Services : tracker'[t] = IF t = s THEN NewTracker ELSE tracker[t]
      BY <1>1, <1>2
<1>4. call' = [k \in Calls |-> IF \E id \in 1..tracker[s].last : <<id, k>> \in tracker[s].live
                               THEN cancelled(k) ELSE call[k]]
      BY DEF CancelAll
<1>5. \A k \in Calls : cancelled(k) \in ToolCall /\ cancelled(k).at = call[k].at
                       /\ cancelled(k).s = call[k].s
  <2> SUFFICES ASSUME NEW k \in Calls
               PROVE  cancelled(k) \in ToolCall /\ cancelled(k).at = call[k].at
                      /\ cancelled(k).s = call[k].s
      OBVIOUS
  <2>1. call[k] \in ToolCall
        BY <1>1
  <2> QED
      BY <2>1 DEF ToolCall
<1> HIDE DEF cancelled
<1>6. /\ call' \in [Calls -> ToolCall]
      /\ \A k \in Calls : call'[k].at = call[k].at /\ call'[k].s = call[k].s
  <2> DEFINE hit(k) == \E id \in 1..tracker[s].last : <<id, k>> \in tracker[s].live
  <2>1. call' = [k \in Calls |-> IF hit(k) THEN cancelled(k) ELSE call[k]]
        BY <1>4
  <2> HIDE DEF hit
  <2>2. \A k \in Calls : call'[k] = IF hit(k) THEN cancelled(k) ELSE call[k]
        BY <2>1
  <2>3. \A k \in Calls : call'[k] \in ToolCall
        BY <1>1, <1>5, <2>2
  <2>4. call' \in [Calls -> ToolCall]
        BY <2>1, <2>3
  <2> QED
      BY <1>5, <2>2, <2>4
<1>7. \A t \in Services : tracker'[t].live \subseteq (1..tracker'[t].last) \X Calls
      BY <1>2, <1>3 DEF Inv, CallsOK
<1>8. CallsOK'
      BY <1>6, <1>7 DEF Inv, CallsOK
<1> QED
    BY <1>3, <1>6, <1>8 DEF CallTypes

(* At most one fault more. *)
LEMMA FaultOK ==
    ASSUME Inv, Fault \/ NoFault
    PROVE  faults' \in 0..MaxFaults
BY ServiceAssumption DEF Inv, TypeInv, Fault, NoFault

(* Stop and Remove of a container. *)
LEMMA RemoveOK ==
    ASSUME Inv, NEW c \in 1..Len(box), RemoveContainer(c)
    PROVE  /\ box' \in Seq(Box) /\ Len(box') = Len(box) /\ BoxGrows(box, box')
           /\ faults' \in 0..MaxFaults
<1>1. CASE box' = [box EXCEPT ![c].status = "removed"] /\ NoFault
  <2> DEFINE n == [box[c] EXCEPT !.status = "removed"]
  <2>1. box[c] \in Box
        BY DEF Inv, TypeInv
  <2>2. n \in Box /\ n.s = box[c].s /\ n.gen = box[c].gen /\ n.attached = box[c].attached
        BY <2>1 DEF Box
  <2>3. box' = [box EXCEPT ![c] = n]
        BY <1>1
  <2> HIDE DEF n
  <2>4. box' \in Seq(Box) /\ Len(box') = Len(box) /\ BoxGrows(box, box')
        BY <2>2, <2>3, BoxMoves
  <2> QED
      BY <1>1, <2>4, FaultOK
<1>2. CASE Fault /\ UNCHANGED box
      BY <1>2, FaultOK, Same
<1> QED
    BY <1>1, <1>2 DEF RemoveContainer

-----------------------------------------------------------------------------
(* The actions. *)

(* An operation begins. *)
LEMMA BeginStep ==
    ASSUME Inv, NEW p \in Procs, NEW op \in {"ensure", "stop"}, NEW todo \in Seq(Services),
           Begin(p, op, todo), inst' \in Instances, InstGrows(inst, inst'), InstOK(inst', box),
           op = "stop" => All(inst', todo), UNCHANGED <<tracker, box, call, faults>>
    PROVE  Inv'
<1> DEFINE j == Continued(op, todo, <<>>)
<1>1. job' = [job EXCEPT ![p] = j]
      BY DEF Begin
<1>2. box \in Seq(Box) /\ Len(box) \in Nat /\ BoxGrows(box, box) /\ box' = box
      BY Same
<1>3. <<>> \in Seq(Services) /\ All(inst', <<>>)
      BY DEF All
<1>4. j \in Job /\ JobOK(j, inst', box) /\ ~Creating(j)
      BY <1>2, <1>3, ContinuedOK
<1>5. CallTypes' /\ faults' \in 0..MaxFaults
      BY SameCalls, FaultOK DEF NoFault
<1> HIDE DEF j
<1> QED
    BY <1>1, <1>2, <1>4, <1>5, JobStep

(* EnsureServices begins with all services. *)
LEMMA EnsureServicesStep ==
    ASSUME Inv, NEW p \in Procs, EnsureServices(p) PROVE Inv'
<1>1. /\ Begin(p, "ensure", Order) /\ UNCHANGED <<inst, tracker, box, call, faults>>
      /\ Order \in Seq(Services)
      BY ServiceAssumption DEF EnsureServices
<1>2. inst' \in Instances /\ InstGrows(inst, inst') /\ InstOK(inst', box)
      BY <1>1, Same
<1> QED
    BY <1>1, <1>2, BeginStep

(* A step of one operation that moves nothing but its place. *)
LEMMA GotoStep ==
    ASSUME Inv, NEW p \in Procs, NEW at \in Places \ {"create"}, NEW j, j = [job[p] EXCEPT !.at = at],
           job' = [job EXCEPT ![p] = j], UNCHANGED <<tracker, call>>, Fault \/ NoFault,
           inst' \in Instances, InstGrows(inst, inst'), InstOK(inst', box'),
           box' \in Seq(Box), Len(box') = Len(box), BoxGrows(box, box'), JobOK(j, inst', box')
    PROVE  Inv'
<1>1. j \in Job /\ j.at = at
      BY Here, MovedTo
<1>2. ~Creating(j)
      BY <1>1 DEF Creating
<1>3. CallTypes' /\ faults' \in 0..MaxFaults
      BY SameCalls, FaultOK
<1> QED
    BY <1>1, <1>2, <1>3, JobStep

(* Get. *)
LEMMA EnsureNextStep ==
    ASSUME Inv, NEW p \in Procs, EnsureNext(p) PROVE Inv'
<1> DEFINE k == job[p]
           i == inst[Current(p)]
<1>1. /\ k.op = "ensure" /\ k.at = "next" /\ k.todo # <<>>
      /\ UNCHANGED <<inst, tracker, box, call, faults>>
      /\ job' = [job EXCEPT ![p] =
            IF i = None THEN [k EXCEPT !.at = "declare"]
            ELSE IF i.state = "READY" THEN Continued("ensure", Tail(k.todo), k.started)
            ELSE [k EXCEPT !.at = "start"]]
      BY DEF EnsureNext, At
<1>2. /\ inst' \in Instances /\ InstGrows(inst, inst') /\ InstOK(inst', box') /\ NoFault
      /\ box' \in Seq(Box) /\ Len(box') = Len(box) /\ BoxGrows(box, box') /\ Len(box) \in Nat
      BY <1>1, Same DEF NoFault
<1>3. k \in Job /\ JobOK(k, inst, box) /\ Current(p) \in Services /\ Current(p) = Head(k.todo)
      BY <1>1, Here
<1>4. CASE i = None
  <2> DEFINE j == [k EXCEPT !.at = "declare"]
  <2>1. j.at = "declare" /\ j.op = k.op /\ j.todo = k.todo /\ j.started = k.started /\ j.c = k.c
        /\ j.keep = k.keep
        BY <1>3, MovedTo DEF Places
  <2>2. job' = [job EXCEPT ![p] = j]
        BY <1>1, <1>4
  <2> HIDE DEF j
  <2>3. JobOK(j, inst', box')
        BY <1>1, <1>3, <2>1 DEF JobOK
  <2> QED
      BY <1>1, <1>2, <2>2, <2>3, GotoStep DEF Places, j
<1>5. CASE i # None /\ i.state = "READY"
  <2> DEFINE t == Tail(k.todo)
             j == Continued("ensure", t, k.started)
  <2>1. job' = [job EXCEPT ![p] = j]
        BY <1>1, <1>5
  <2>2. t \in Seq(Services) /\ k.started \in Seq(Services) /\ All(inst, k.started)
        BY <1>1, <1>3 DEF Job, JobOK
  <2> HIDE DEF t
  <2>3. j \in Job /\ JobOK(j, inst, box) /\ ~Creating(j)
        BY <1>2, <2>2, ContinuedOK
  <2>4. CallTypes' /\ faults' \in 0..MaxFaults
        BY <1>1, SameCalls, FaultOK DEF NoFault
  <2> HIDE DEF j
  <2> QED
      BY <1>1, <1>2, <2>1, <2>3, <2>4, JobStep
<1>6. CASE i # None /\ i.state # "READY"
  <2> DEFINE j == [k EXCEPT !.at = "start"]
  <2>1. j.at = "start" /\ j.op = k.op /\ j.todo = k.todo /\ j.started = k.started /\ j.c = k.c
        /\ j.keep = k.keep
        BY <1>3, MovedTo DEF Places
  <2>2. job' = [job EXCEPT ![p] = j]
        BY <1>1, <1>6
  <2> HIDE DEF j
  <2>3. JobOK(j, inst', box')
        BY <1>1, <1>3, <1>6, <2>1 DEF JobOK
  <2> QED
      BY <1>1, <1>2, <2>2, <2>3, GotoStep DEF Places, j
<1> QED
    BY <1>4, <1>5, <1>6

(* Declare. *)
LEMMA DeclareStep ==
    ASSUME Inv, NEW p \in Procs, Declare(p) PROVE Inv'
<1> USE ServiceAssumption
<1> DEFINE k == job[p]
           s == Current(p)
<1>1. /\ k.op = "ensure" /\ k.at = "declare" /\ k.todo # <<>> /\ UNCHANGED <<tracker, box, call>>
      BY DEF Declare, At
<1>2. k \in Job /\ JobOK(k, inst, box) /\ s \in Services /\ s = Head(k.todo)
      BY <1>1, Here
<1>3. box' \in Seq(Box) /\ Len(box') = Len(box) /\ BoxGrows(box, box') /\ Len(box) \in Nat
      BY <1>1, Same
<1>4. CASE inst[s] = None /\ inst' = [inst EXCEPT ![s] = NewInstance] /\ Goto(p, "start") /\ NoFault
  <2> DEFINE j == [k EXCEPT !.at = "start"]
  <2>1. j.at = "start" /\ j.op = k.op /\ j.todo = k.todo /\ j.started = k.started /\ j.c = k.c
        /\ j.keep = k.keep
        BY <1>2, MovedTo DEF Places
  <2>2. job' = [job EXCEPT ![p] = j]
        BY <1>4 DEF Goto
  <2>3. /\ NewInstance \in Instance /\ NewInstance.cap = 0 /\ NewInstance.container = 0
        /\ NewInstance.state # "READY"
        BY DEF NewInstance, Instance, States
  <2>4. /\ inst' \in Instances /\ InstGrows(inst, inst') /\ InstOK(inst', box)
        /\ inst'[s] # None
    <3>1. /\ NewInstance.cap \in {0, NewInstance.gen} /\ NewInstance.container <= Len(box)
          /\ inst[s] # None => NewInstance.gen >= inst[s].gen
          BY <1>3, <1>4, <2>3
    <3> QED
        BY <1>2, <1>4, <2>3, <3>1, InstMoves
  <2> HIDE DEF j
  <2>5. JobOK(k, inst', box')
        BY <1>1, <1>3, <2>4, StillOK DEF Creating
  <2>6. JobOK(j, inst', box')
        BY <1>1, <1>2, <2>1, <2>4, <2>5 DEF JobOK
  <2> QED
      BY <1>1, <1>3, <1>4, <2>2, <2>4, <2>6, GotoStep DEF Places, j
<1>5. CASE Done(p, FALSE) /\ UNCHANGED inst /\ (Fault \/ NoFault)
  <2>1. inst' \in Instances /\ InstGrows(inst, inst') /\ InstOK(inst', box')
        BY <1>1, <1>5, Same
  <2>2. PICK j \in Job : job' = [job EXCEPT ![p] = j] /\ JobOK(j, inst', box') /\ ~Creating(j)
        BY <1>1, <1>3, <1>5, <2>1, DoneOK
  <2>3. CallTypes' /\ faults' \in 0..MaxFaults
        BY <1>1, <1>5, SameCalls, FaultOK
  <2> QED
      BY <1>3, <2>1, <2>2, <2>3, JobStep
<1> QED
    BY <1>4, <1>5 DEF Declare

(* An operation is through with its service. *)
LEMMA DoneStep ==
    ASSUME Inv, NEW p \in Procs, NEW ok \in BOOLEAN, Done(p, ok), job[p].todo # <<>>,
           job[p].op \in {"ensure", "stop", "cleanup"},
           job[p].op = "ensure" /\ ok => inst[Current(p)] # None,
           inst' \in Instances, InstGrows(inst, inst'), InstOK(inst', box'),
           box' \in Seq(Box), Len(box') = Len(box), BoxGrows(box, box'), CallTypes',
           faults' \in 0..MaxFaults
    PROVE  Inv'
<1>1. Current(p) \in Services /\ Len(box') \in Nat
      BY Here, Same
<1>2. job[p].op = "ensure" /\ ok => inst'[Current(p)] # None
      BY <1>1 DEF InstGrows
<1>3. PICK j \in Job : job' = [job EXCEPT ![p] = j] /\ JobOK(j, inst', box') /\ ~Creating(j)
      BY <1>1, <1>2, DoneOK
<1> QED
    BY <1>3, JobStep

(* Start claims the generation, or refuses. *)
LEMMA StartStep ==
    ASSUME Inv, NEW p \in Procs, Start(p) PROVE Inv'
<1> USE ServiceAssumption
<1> DEFINE k == job[p]
           s == Current(p)
           i == inst[s]
           g == i.gen + 1
<1>1. /\ k.op = "ensure" /\ k.at = "start" /\ k.todo # <<>>
      /\ UNCHANGED <<tracker, box, call, faults>>
      BY DEF Start, At
<1>2. k \in Job /\ JobOK(k, inst, box) /\ s \in Services /\ s = Head(k.todo)
      BY <1>1, Here
<1>3. box' \in Seq(Box) /\ Len(box') = Len(box) /\ BoxGrows(box, box') /\ Len(box) \in Nat
      BY <1>1, Same
<1>4. i # None /\ i \in Instance
  <2>1. i # None
        BY <1>1, <1>2 DEF JobOK
  <2> QED
      BY <1>2, <2>1, Same DEF Instances
<1>5. CallTypes' /\ faults' \in 0..MaxFaults
      BY <1>1, SameCalls, FaultOK DEF NoFault
<1>6. CASE /\ i.gen < MaxGeneration
           /\ inst' = [inst EXCEPT ![s].gen = g, ![s].state = "STARTING", ![s].cap = g]
           /\ job' = [job EXCEPT ![p].at = "create", ![p].gen = g]
  <2> DEFINE n1 == [i EXCEPT !.gen = g]
             n2 == [n1 EXCEPT !.state = "STARTING"]
             n  == [n2 EXCEPT !.cap = g]
             j1 == [k EXCEPT !.at = "create"]
             j  == [j1 EXCEPT !.gen = g]
  <2>1. i.gen \in Nat /\ g \in 1..MaxGeneration /\ g > i.gen /\ g \in 0..MaxGeneration
        BY <1>4, <1>6, SMTT(30) DEF Instance
  <2>2. inst' = [inst EXCEPT ![s] = n] /\ job' = [job EXCEPT ![p] = j]
    <3>1. s \in DOMAIN inst /\ p \in DOMAIN job
          BY <1>2 DEF Inv, TypeInv
    <3> QED
        BY <1>6, <3>1
  <2> HIDE DEF g
  <2>3. n1 \in Instance /\ n1.gen = g /\ n1.container = i.container
        BY <1>4, <2>1 DEF Instance
  <2> HIDE DEF n1
  <2>4. n2 \in Instance /\ n2.gen = g /\ n2.container = i.container /\ n2.state = "STARTING"
        BY <2>3 DEF Instance, States
  <2> HIDE DEF n2
  <2>5. n \in Instance /\ n.gen = g /\ n.container = i.container /\ n.state = "STARTING" /\ n.cap = g
        BY <2>1, <2>4 DEF Instance
  <2> HIDE DEF n
  <2>6. i.container <= Len(box)
        BY <1>2, <1>4, Same DEF InstOK
  <2>7. /\ inst' \in Instances /\ InstGrows(inst, inst') /\ InstOK(inst', box)
        /\ inst'[s] = n /\ inst'[s] # None
    <3>1. /\ n.cap \in {0, n.gen} /\ n.container <= Len(box) /\ n.state # "READY"
          /\ n.gen >= i.gen
          BY <2>1, <2>5, <2>6
    <3>2. /\ inst' \in Instances /\ InstGrows(inst, inst') /\ InstOK(inst', box)
          /\ inst'[s] # None
          BY <1>2, <2>2, <2>5, <3>1, InstMoves
    <3>3. inst'[s] = n
          BY <1>2, <2>2, Same DEF Instances
    <3> QED
        BY <3>2, <3>3
  <2>8. j1 \in Job /\ j1.at = "create" /\ j1.op = k.op /\ j1.todo = k.todo /\ j1.started = k.started
        /\ j1.c = k.c /\ j1.keep = k.keep
        BY <1>2, MovedTo, ZenonT(40) DEF Places
  <2> HIDE DEF j1
  <2>9. j \in Job /\ j.at = "create" /\ j.op = k.op /\ j.todo = k.todo /\ j.started = k.started
        /\ j.c = k.c /\ j.gen = g /\ j.keep = k.keep
        BY <2>1, <2>8 DEF Job
  <2> HIDE DEF j
  <2>10. JobOK(k, inst', box')
         BY <1>1, <1>3, <2>7, StillOK DEF Creating
  <2>11. \A c \in 1..Len(box) : box[c].s = s => box[c].gen # g
    <3> SUFFICES ASSUME NEW c \in 1..Len(box), box[c].s = s PROVE box[c].gen # g
        OBVIOUS
    <3>1. box[c] \in Box /\ box[c].gen <= i.gen
          BY Same DEF Inv, BoxOK
    <3>2. box[c].gen \in Nat
          BY <3>1 DEF Box
    <3> QED
        BY <2>1, <3>1, <3>2
  <2>12. g \in 1..inst'[s].gen
         BY <2>1, <2>5, <2>7
  <2>13. JobOK(j, inst', box')
         BY <1>1, <1>2, <2>7, <2>9, <2>10, <2>11, <2>12 DEF JobOK
  <2>14. ASSUME NEW q \in Procs \ {p}, Creating(job[q]), Head(j.todo) = Current(q)
         PROVE  j.gen # job[q].gen
    <3>1. Head(job[q].todo) = s
          BY <1>2, <2>9, <2>14 DEF Current
    <3>2. job[q].gen \in 1..i.gen
          BY <2>14, <3>1, Here DEF JobOK, Creating
    <3> QED
        BY <2>1, <2>9, <3>2
  <2> QED
      BY <1>1, <1>3, <1>5, <2>2, <2>7, <2>9, <2>13, <2>14, JobStep
<1>7. CASE Done(p, i.state = "READY") /\ UNCHANGED inst
  <2>1. inst' \in Instances /\ InstGrows(inst, inst') /\ InstOK(inst', box')
        BY <1>1, <1>7, Same
  <2>2. (i.state = "READY") \in BOOLEAN
        OBVIOUS
  <2> QED
      BY <1>1, <1>3, <1>4, <1>5, <1>7, <2>1, <2>2, DoneStep
<1> QED
    BY <1>6, <1>7 DEF Start, NextGeneration, Issued

(* The driver fails: the operation goes to its end. *)
LEMMA GotoFail ==
    ASSUME Inv, NEW p \in Procs, job[p].op = "ensure", job[p].todo # <<>>,
           job[p].at \notin {"next", "declare", "fail", "drop"}, Goto(p, "fail"), Fault,
           UNCHANGED <<inst, tracker, box, call>>
    PROVE  Inv'
<1> DEFINE k == job[p]
           j == [k EXCEPT !.at = "fail"]
<1>1. k \in Job /\ JobOK(k, inst, box) /\ job' = [job EXCEPT ![p] = j]
      BY Here DEF Goto
<1>2. j.at = "fail" /\ j.op = k.op /\ j.todo = k.todo /\ j.started = k.started /\ j.c = k.c
      /\ j.keep = k.keep
      BY <1>1, MovedTo DEF Places
<1>3. /\ inst' \in Instances /\ InstGrows(inst, inst') /\ InstOK(inst', box')
      /\ box' \in Seq(Box) /\ Len(box') = Len(box) /\ BoxGrows(box, box')
      BY Same
<1> HIDE DEF j
<1>4. JobOK(j, inst', box')
      BY <1>1, <1>2 DEF JobOK
<1> QED
    BY <1>1, <1>3, <1>4, GotoStep DEF Places, j

(* The container of a claimed generation is the first and only one. *)
LEMMA CreateStep ==
    ASSUME Inv, NEW p \in Procs, CreateServiceContainer(p) PROVE Inv'
<1> USE ServiceAssumption
<1> DEFINE k == job[p]
           s == Current(p)
           m == Len(box) + 1
           n == [s |-> s, gen |-> k.gen, attached |-> FALSE, status |-> "created"]
           j1 == [k EXCEPT !.at = "run"]
           j == [j1 EXCEPT !.c = m]
<1>1. /\ k.op = "ensure" /\ k.at = "create" /\ k.todo # <<>>
      /\ UNCHANGED <<inst, tracker, call>>
      BY DEF CreateServiceContainer, At
<1>2. k \in Job /\ JobOK(k, inst, box) /\ s \in Services /\ s = Head(k.todo)
      BY <1>1, Here
<1>3. /\ inst' \in Instances /\ InstGrows(inst, inst') /\ Len(box) \in Nat /\ box \in Seq(Box)
      /\ inst \in Instances /\ InstOK(inst, box)
      BY <1>1, Same
<1>4. /\ inst[s] # None /\ k.gen \in 1..inst[s].gen
      /\ \A c \in 1..Len(box) : box[c].s = s => box[c].gen # k.gen
      BY <1>1, <1>2 DEF JobOK
<1>5. inst[s] \in Instance
      BY <1>2, <1>3, <1>4 DEF Instances
<1>6. k.gen \in 1..MaxGeneration /\ k.gen <= inst[s].gen /\ k.gen \in Nat
      BY <1>4, <1>5 DEF Instance
<1>7. CASE /\ Len(box) < MaxContainers /\ NoFault
           /\ box' = Append(box, n)
           /\ job' = [job EXCEPT ![p].at = "run", ![p].c = Len(box')]
  <2>1. n \in Box /\ n.s = s /\ n.gen = k.gen
        BY <1>2, <1>6 DEF Box
  <2> HIDE DEF n
  <2>2. /\ box' \in Seq(Box) /\ Len(box') = m /\ m \in 1..MaxContainers
        /\ \A c \in 1..Len(box) : box'[c] = box[c]
        /\ box'[m] = n
        BY <1>3, <1>7, <2>1
  <2>3. job' = [job EXCEPT ![p] = j]
    <3>1. p \in DOMAIN job
          BY DEF Inv, TypeInv
    <3>2. job' = [job EXCEPT ![p].at = "run", ![p].c = m]
          BY <1>7, <2>2
    <3> QED
        BY <3>1, <3>2
  <2>4. Len(box) <= Len(box') /\ \A c \in 1..Len(box') : c \in 1..Len(box) \/ c = m
        BY <1>3, <2>2
  <2>5. m \in 0..MaxContainers /\ m # 0 /\ m <= Len(box')
        BY <1>3, <2>2
  <2> HIDE DEF m
  <2>6. BoxGrows(box, box')
        BY <2>2, <2>4 DEF BoxGrows
  <2>7. j1 \in Job /\ j1.at = "run" /\ j1.op = k.op /\ j1.todo = k.todo /\ j1.started = k.started
        /\ j1.gen = k.gen /\ j1.keep = k.keep
        BY <1>2, MovedTo, ZenonT(40) DEF Places
  <2> HIDE DEF j1
  <2>8. j \in Job /\ j.at = "run" /\ j.op = k.op /\ j.todo = k.todo /\ j.started = k.started
        /\ j.gen = k.gen /\ j.keep = k.keep /\ j.c = m
        BY <2>5, <2>7 DEF Job
  <2> HIDE DEF j
  <2>9. JobOK(j, inst', box')
    <3>1. box'[j.c].s = Head(j.todo) /\ box'[j.c].gen = j.gen /\ j.c # 0 /\ j.c <= Len(box')
          BY <1>2, <2>1, <2>2, <2>5, <2>8
    <3> QED
        BY <1>1, <1>2, <1>4, <2>8, <3>1 DEF JobOK
  <2>10. job \in [Procs -> Job] /\ \A q \in Procs : job'[q] = IF q = p THEN j ELSE job[q]
         BY <2>3 DEF Inv, TypeInv
  <2>11. ASSUME NEW q \in Procs PROVE JobOK(job'[q], inst', box')
    <3>1. CASE q = p
          BY <2>9, <2>10, <3>1
    <3>2. CASE q # p
      <4>1. job'[q] = job[q] /\ job[q] \in Job /\ JobOK(job[q], inst, box)
            BY <2>10, <3>2, Here
      <4>2. ASSUME Creating(job[q]), NEW c \in 1..Len(box'), box'[c].s = Head(job[q].todo)
            PROVE  box'[c].gen # job[q].gen
        <5>1. CASE c \in 1..Len(box)
          <6>1. \A d \in 1..Len(box) : box[d].s = Head(job[q].todo) => box[d].gen # job[q].gen
                BY <4>1, <4>2 DEF JobOK, Creating
          <6> QED
              BY <2>2, <4>2, <5>1, <6>1
        <5>2. CASE c = m
          <6>1. Creating(job[p]) /\ Current(p) = Current(q)
                BY <1>1, <1>2, <2>1, <2>2, <4>2, <5>2 DEF Creating, Current
          <6>2. job[p].gen # job[q].gen
                BY <3>2, <4>2, <6>1 DEF Inv, Claims
          <6> QED
              BY <2>1, <2>2, <5>2, <6>2
        <5> QED
            BY <2>4, <5>1, <5>2
      <4>3. JobOK(job[q], inst', box')
            BY <1>3, <2>2, <2>6, <4>1, <4>2, JobKept
      <4> QED
          BY <4>1, <4>3
    <3> QED
        BY <3>1, <3>2
  <2>12. TypeInv' /\ CallsOK'
    <3>1. job' \in [Procs -> Job]
          BY <2>3, <2>8, <2>10
    <3>2. CallTypes' /\ faults' \in 0..MaxFaults
          BY <1>1, <1>7, SameCalls, FaultOK
    <3>3. Len(box') <= MaxContainers
          BY <2>2
    <3> QED
        BY <1>3, <2>2, <3>1, <3>2, <3>3 DEF TypeInv, CallTypes, Instances
  <2>13. Claims'
    <3> SUFFICES ASSUME NEW q \in Procs, NEW r \in Procs, q # r, Creating(job'[q]),
                        Creating(job'[r]), Head(job'[q].todo) = Head(job'[r].todo)
                 PROVE  job'[q].gen # job'[r].gen
        BY DEF Claims, Current
    <3>1. ~Creating(j)
          BY <2>8 DEF Creating
    <3>2. job'[q] = job[q] /\ job'[r] = job[r]
          BY <2>10, <3>1
    <3> QED
        BY <3>2 DEF Inv, Claims, Current
  <2>14. BoxOK(inst', box')
    <3> SUFFICES ASSUME NEW c \in 1..Len(box')
                 PROVE  inst[box'[c].s] # None /\ box'[c].gen <= inst[box'[c].s].gen
        BY <1>1 DEF BoxOK
    <3>1. CASE c \in 1..Len(box)
          BY <2>2, <3>1 DEF Inv, BoxOK
    <3>2. CASE c = m
          BY <1>4, <1>6, <2>1, <2>2, <3>2
    <3> QED
        BY <2>4, <3>1, <3>2
  <2>15. OneContainerPerGeneration'
    <3> SUFFICES ASSUME NEW c \in 1..Len(box'), NEW d \in 1..Len(box'), box'[c].s = box'[d].s,
                        box'[c].gen = box'[d].gen
                 PROVE  c = d
        BY DEF OneContainerPerGeneration
    <3>1. CASE c \in 1..Len(box) /\ d \in 1..Len(box)
          BY <2>2, <3>1 DEF Inv, OneContainerPerGeneration
    <3>2. CASE c \in 1..Len(box) /\ d = m
          BY <1>4, <2>1, <2>2, <3>2
    <3>3. CASE c = m /\ d \in 1..Len(box)
          BY <1>4, <2>1, <2>2, <3>3
    <3> QED
        BY <2>4, <3>1, <3>2, <3>3
  <2>16. InstOK(inst', box')
         BY <1>1, <1>3, <2>2, <2>6, InstKept
  <2> QED
      BY <2>11, <2>12, <2>13, <2>14, <2>15, <2>16 DEF Inv
<1>8. CASE Fault /\ Goto(p, "fail") /\ UNCHANGED box
      BY <1>1, <1>8, GotoFail
<1> QED
    BY <1>7, <1>8 DEF CreateServiceContainer

(* The driver changes the status of a container. *)
LEMMA StatusOK ==
    ASSUME Inv, NEW c \in 1..Len(box), NEW st \in {"created", "running", "exited", "removed"},
           box' = [box EXCEPT ![c].status = st]
    PROVE  box' \in Seq(Box) /\ Len(box') = Len(box) /\ BoxGrows(box, box')
<1> DEFINE n == [box[c] EXCEPT !.status = st]
<1>1. box[c] \in Box
      BY DEF Inv, TypeInv
<1>2. n \in Box /\ n.s = box[c].s /\ n.gen = box[c].gen /\ n.attached = box[c].attached
      BY <1>1 DEF Box
<1>3. box' = [box EXCEPT ![c] = n]
      OBVIOUS
<1> HIDE DEF n
<1> QED
    BY <1>2, <1>3, BoxMoves

(* A Start that has its container knows it. *)
LEMMA OwnContainer ==
    ASSUME Inv, NEW p \in Procs, job[p].op = "ensure", job[p].todo # <<>>,
           job[p].at \in {"run", "store", "attach", "probe", "ready"}
    PROVE  job[p].c \in 1..Len(box)
<1>1. job[p] \in Job /\ JobOK(job[p], inst, box) /\ Len(box) \in Nat
      BY Here, Same
<1>2. job[p].c \in Nat /\ job[p].c <= Len(box) /\ job[p].c # 0
      BY <1>1, ServiceAssumption DEF Job, JobOK
<1> QED
    BY <1>1, <1>2

(* A Start takes its next step, and knows what it has to know there. *)
LEMMA StartMoves ==
    ASSUME Inv, NEW p \in Procs, NEW at \in {"store", "attach", "probe", "ready"},
           job[p].op = "ensure", job[p].todo # <<>>,
           job[p].at \in {"run", "store", "attach", "probe"}, Goto(p, at), Fault \/ NoFault,
           UNCHANGED <<tracker, call>>, inst' \in Instances, InstGrows(inst, inst'),
           InstOK(inst', box'), box' \in Seq(Box), Len(box') = Len(box), BoxGrows(box, box'),
           at \in {"probe", "ready"} => box'[job[p].c].attached
    PROVE  Inv'
<1> DEFINE k == job[p]
           j == [k EXCEPT !.at = at]
<1>1. k \in Job /\ job' = [job EXCEPT ![p] = j]
      BY Here DEF Goto
<1>2. j.at = at /\ j.op = k.op /\ j.todo = k.todo /\ j.started = k.started /\ j.c = k.c
      /\ j.gen = k.gen /\ j.keep = k.keep
      BY <1>1, MovedTo DEF Places
<1>3. JobOK(k, inst', box')
      BY StillOK DEF Creating
<1> HIDE DEF j
<1>4. JobOK(j, inst', box')
      BY <1>2, <1>3 DEF JobOK
<1>5. at \in Places \ {"create"}
      BY DEF Places
<1> QED
    BY <1>1, <1>4, <1>5, GotoStep DEF j

(* The container is started. *)
LEMMA RunStep ==
    ASSUME Inv, NEW p \in Procs, RunContainer(p) PROVE Inv'
<1>1. /\ job[p].op = "ensure" /\ job[p].at = "run" /\ job[p].todo # <<>>
      /\ UNCHANGED <<inst, tracker, call>>
      BY DEF RunContainer, At
<1>2. job[p].c \in 1..Len(box)
      BY <1>1, OwnContainer
<1>3. CASE box' = [box EXCEPT ![job[p].c].status = "running"] /\ Goto(p, "store") /\ NoFault
  <2>1. box' \in Seq(Box) /\ Len(box') = Len(box) /\ BoxGrows(box, box')
        BY <1>2, <1>3, StatusOK
  <2>2. inst' \in Instances /\ InstGrows(inst, inst') /\ InstOK(inst', box')
        BY <1>1, <2>1, Same, InstKept
  <2> QED
      BY <1>1, <1>3, <2>1, <2>2, StartMoves
<1>4. CASE Fault /\ Goto(p, "fail") /\ UNCHANGED box
      BY <1>1, <1>4, GotoFail
<1> QED
    BY <1>3, <1>4 DEF RunContainer

(* The container's id is stored. *)
LEMMA StoreStep ==
    ASSUME Inv, NEW p \in Procs, StoreContainer(p) PROVE Inv'
<1> USE ServiceAssumption
<1> DEFINE k == job[p]
           s == Current(p)
           i == inst[s]
           n == [i EXCEPT !.container = k.c]
<1>1. /\ k.op = "ensure" /\ k.at = "store" /\ k.todo # <<>>
      /\ UNCHANGED <<tracker, box, call, faults>> /\ Goto(p, "attach")
      /\ inst' = [inst EXCEPT ![s] = n]
      BY DEF StoreContainer, At
<1>2. k \in Job /\ JobOK(k, inst, box) /\ s \in Services /\ s = Head(k.todo)
      BY <1>1, Here
<1>3. k.c \in 1..Len(box)
      BY <1>1, OwnContainer
<1>4. i # None
      BY <1>1, <1>2 DEF JobOK
<1>5. i \in Instance /\ i.gen \in Nat /\ k.c \in 0..MaxContainers
  <2>1. i \in Instance
        BY <1>2, <1>4, Same DEF Instances
  <2>2. i.gen \in Nat
        BY <2>1 DEF Instance
  <2>3. k.c \in 0..MaxContainers
        BY <1>2 DEF Job
  <2> QED
      BY <2>1, <2>2, <2>3
<1>6. n \in Instance /\ n.gen = i.gen /\ n.cap = i.cap /\ n.state = i.state /\ n.container = k.c
      BY <1>5 DEF Instance
<1> HIDE DEF n
<1>7. /\ i.cap \in {0, i.gen}
      /\ i.state = "READY" =>
            \E c \in 1..Len(box) : box[c].s = s /\ box[c].gen = i.gen /\ box[c].attached
      BY <1>2, <1>4, Same DEF InstOK
<1>8. n.gen >= inst[s].gen /\ n.container <= Len(box)
      BY <1>3, <1>5, <1>6, Same
<1>9. inst' \in Instances /\ InstGrows(inst, inst') /\ InstOK(inst', box)
      BY <1>1, <1>2, <1>6, <1>7, <1>8, InstMoves
<1>10. box' \in Seq(Box) /\ Len(box') = Len(box) /\ BoxGrows(box, box')
       BY <1>1, Same
<1> QED
    BY <1>1, <1>9, <1>10, StartMoves DEF NoFault

(* The service's network. *)
LEMMA AttachStep ==
    ASSUME Inv, NEW p \in Procs, AttachNetwork(p) PROVE Inv'
<1> DEFINE k == job[p]
<1>1. /\ k.op = "ensure" /\ k.at = "attach" /\ k.todo # <<>> /\ UNCHANGED <<inst, tracker, call>>
      BY DEF AttachNetwork, At
<1>2. k.c \in 1..Len(box) /\ k \in Job /\ JobOK(k, inst, box)
      BY <1>1, OwnContainer, Here
<1>3. CASE box' = [box EXCEPT ![k.c].attached = TRUE] /\ Goto(p, "probe") /\ NoFault
  <2> DEFINE n == [box[k.c] EXCEPT !.attached = TRUE]
  <2>1. box[k.c] \in Box
        BY <1>2 DEF Inv, TypeInv
  <2>2. n \in Box /\ n.s = box[k.c].s /\ n.gen = box[k.c].gen /\ n.attached
        BY <2>1 DEF Box
  <2>3. box' = [box EXCEPT ![k.c] = n]
        BY <1>3
  <2> HIDE DEF n
  <2>4. /\ box' \in Seq(Box) /\ Len(box') = Len(box) /\ BoxGrows(box, box')
        /\ \A d \in 1..Len(box) : box'[d] = IF d = k.c THEN n ELSE box[d]
        BY <1>2, <2>2, <2>3, BoxMoves
  <2>5. box'[k.c].attached
        BY <1>2, <2>2, <2>4
  <2>6. inst' \in Instances /\ InstGrows(inst, inst') /\ InstOK(inst', box')
        BY <1>1, <2>4, Same, InstKept
  <2> QED
      BY <1>1, <1>3, <2>4, <2>5, <2>6, StartMoves
<1>4. CASE Fault /\ UNCHANGED box /\ job' = [job EXCEPT ![p].at = "fail", ![p].keep = FALSE]
  <2> DEFINE j1 == [k EXCEPT !.at = "fail"]
             j == [j1 EXCEPT !.keep = FALSE]
  <2>1. job' = [job EXCEPT ![p] = j]
    <3>1. p \in DOMAIN job
          BY DEF Inv, TypeInv
    <3> QED
        BY <1>4, <3>1
  <2>2. j1 \in Job /\ j1.at = "fail" /\ j1.op = k.op /\ j1.todo = k.todo /\ j1.started = k.started
        /\ j1.c = k.c
        BY <1>2, MovedTo, ZenonT(40) DEF Places
  <2> HIDE DEF j1
  <2>3. j \in Job /\ j.at = "fail" /\ j.op = k.op /\ j.todo = k.todo /\ j.started = k.started
        /\ j.c = k.c
        BY <2>2 DEF Job
  <2> HIDE DEF j
  <2>4. JobOK(j, inst', box') /\ ~Creating(j)
        BY <1>1, <1>2, <1>4, <2>3 DEF JobOK, Creating
  <2>5. /\ inst' \in Instances /\ InstGrows(inst, inst') /\ InstOK(inst', box')
        /\ box' \in Seq(Box) /\ Len(box') = Len(box) /\ BoxGrows(box, box')
        BY <1>1, <1>4, Same
  <2>6. CallTypes' /\ faults' \in 0..MaxFaults
        BY <1>1, <1>4, SameCalls, FaultOK
  <2> QED
      BY <2>1, <2>3, <2>4, <2>5, <2>6, JobStep
<1> QED
    BY <1>3, <1>4 DEF AttachNetwork

(* The probe. *)
LEMMA ProbeStep ==
    ASSUME Inv, NEW p \in Procs, ReadinessProbe(p) PROVE Inv'
<1> DEFINE k == job[p]
<1>1. /\ k.op = "ensure" /\ k.at = "probe" /\ k.todo # <<>> /\ UNCHANGED <<inst, tracker, box, call>>
      BY DEF ReadinessProbe, At
<1>2. CASE Goto(p, "ready") /\ NoFault
  <2>1. box'[k.c].attached
        BY <1>1, Here DEF JobOK
  <2>2. /\ inst' \in Instances /\ InstGrows(inst, inst') /\ InstOK(inst', box')
        /\ box' \in Seq(Box) /\ Len(box') = Len(box) /\ BoxGrows(box, box')
        BY <1>1, Same
  <2> QED
      BY <1>1, <1>2, <2>1, <2>2, StartMoves
<1>3. CASE Goto(p, "fail") /\ Fault
      BY <1>1, <1>3, GotoFail
<1> QED
    BY <1>2, <1>3 DEF ReadinessProbe

(* The facts about an instance that is there. *)
LEMMA ThisInstance ==
    ASSUME Inv, NEW s \in Services, inst[s] # None
    PROVE  /\ inst[s] \in Instance /\ inst[s].gen \in 0..MaxGeneration /\ inst[s].gen >= inst[s].gen
           /\ inst[s].container \in 0..MaxContainers /\ inst[s].container <= Len(box)
           /\ inst[s].cap \in {0, inst[s].gen}
           /\ inst[s].state = "READY" =>
                 \E c \in 1..Len(box) : box[c].s = s /\ box[c].gen = inst[s].gen /\ box[c].attached
<1> USE ServiceAssumption
<1>1. inst[s] \in Instance
      BY Same DEF Instances
<1>2. /\ inst[s].gen \in 0..MaxGeneration /\ inst[s].container \in 0..MaxContainers
      BY <1>1 DEF Instance
<1>3. inst[s].gen >= inst[s].gen
      BY <1>2
<1> QED
    BY <1>1, <1>2, <1>3, Same DEF InstOK

(* An instance gets another state than READY. *)
LEMMA StateMoves ==
    ASSUME Inv, NEW s \in Services, inst[s] # None, NEW st \in States \ {"READY"},
           inst' = [inst EXCEPT ![s].state = st]
    PROVE  inst' \in Instances /\ InstGrows(inst, inst') /\ InstOK(inst', box)
<1> DEFINE i == inst[s]
           n == [i EXCEPT !.state = st]
<1>1. inst' = [inst EXCEPT ![s] = n]
      OBVIOUS
<1>2. i \in Instance
      BY ThisInstance
<1>3. n \in Instance /\ n.gen = i.gen /\ n.cap = i.cap /\ n.container = i.container /\ n.state = st
      BY <1>2 DEF Instance
<1> HIDE DEF n
<1>4. n.gen >= inst[s].gen /\ n.cap \in {0, n.gen} /\ n.container <= Len(box) /\ n.state # "READY"
      BY <1>3, ThisInstance
<1> QED
    BY <1>1, <1>3, <1>4, InstMoves

(* A Start is about to give its container up. *)
LEMMA GotoDrop ==
    ASSUME Inv, NEW p \in Procs, job[p].op = "ensure", job[p].todo # <<>>,
           \/ job[p].at = "ready"
           \/ job[p].at = "fail" /\ ~job[p].keep,
           Goto(p, "drop"), UNCHANGED <<tracker, box, call, faults>>,
           inst' \in Instances, InstGrows(inst, inst'), InstOK(inst', box)
    PROVE  Inv'
<1> DEFINE k == job[p]
           j == [k EXCEPT !.at = "drop"]
<1>1. k \in Job /\ job' = [job EXCEPT ![p] = j]
      BY Here DEF Goto
<1>2. box' \in Seq(Box) /\ Len(box') = Len(box) /\ BoxGrows(box, box') /\ box' = box
      BY Same
<1>3. JobOK(k, inst', box')
      BY <1>2, StillOK DEF Creating
<1>4. j.at = "drop" /\ j.op = k.op /\ j.todo = k.todo /\ j.started = k.started /\ j.c = k.c
      BY <1>1, MovedTo DEF Places
<1> HIDE DEF j
<1>5. JobOK(j, inst', box')
      BY <1>3, <1>4 DEF JobOK
<1> QED
    BY <1>1, <1>2, <1>5, GotoStep DEF j, Places, NoFault

(* An instance becomes READY by the Start of its own generation. *)
LEMMA StartReadyStep ==
    ASSUME Inv, NEW p \in Procs, StartReady(p) PROVE Inv'
<1> DEFINE k == job[p]
           s == Current(p)
           i == inst[s]
<1>1. k.op = "ensure" /\ k.at = "ready" /\ k.todo # <<>> /\ UNCHANGED <<tracker, call>>
      BY DEF StartReady, At
<1>2. /\ k.c \in 1..Len(box) /\ k \in Job /\ JobOK(k, inst, box) /\ s \in Services
      /\ s = Head(k.todo)
      BY <1>1, OwnContainer, Here
<1>3. i # None
      BY <1>1, <1>2 DEF JobOK
<1>4. CallTypes'
      BY <1>1, SameCalls
<1>5. CASE Goto(p, "drop") /\ UNCHANGED <<inst, box, faults>>
      BY <1>1, <1>3, <1>5, GotoDrop, Same
<1>6. CASE /\ ~Superseded(p) /\ inst' = [inst EXCEPT ![s].state = "READY"] /\ Done(p, TRUE)
           /\ UNCHANGED <<box, faults>>
  <2> DEFINE n == [i EXCEPT !.state = "READY"]
  <2>1. inst' = [inst EXCEPT ![s] = n]
        BY <1>6
  <2>2. i \in Instance
        BY <1>2, <1>3, ThisInstance
  <2>3. n \in Instance /\ n.gen = i.gen /\ n.cap = i.cap /\ n.container = i.container
        BY <2>2 DEF Instance, States
  <2> HIDE DEF n
  <2>4. n.gen >= inst[s].gen /\ n.cap \in {0, n.gen} /\ n.container <= Len(box)
        BY <1>2, <1>3, <2>3, ThisInstance
  <2>5. box[k.c].s = s /\ box[k.c].gen = n.gen /\ box[k.c].attached
        BY <1>1, <1>2, <1>6, <2>3 DEF JobOK, Superseded
  <2>6. \E c \in 1..Len(box) : box[c].s = s /\ box[c].gen = n.gen /\ box[c].attached
        BY <1>2, <2>5
  <2>7. inst' \in Instances /\ InstGrows(inst, inst') /\ InstOK(inst', box)
        BY <1>2, <2>1, <2>3, <2>4, <2>6, InstMoves
  <2>8. box' \in Seq(Box) /\ Len(box') = Len(box) /\ BoxGrows(box, box') /\ box' = box
        BY <1>6, Same
  <2>9. faults' \in 0..MaxFaults
        BY <1>6, FaultOK DEF NoFault
  <2> QED
      BY <1>1, <1>3, <1>4, <1>6, <2>7, <2>8, <2>9, DoneStep
<1> QED
    BY <1>5, <1>6 DEF StartReady

(* A failed Start marks the instance, if it is still its own. *)
LEMMA StartFailsStep ==
    ASSUME Inv, NEW p \in Procs, StartFails(p) PROVE Inv'
<1> USE ServiceAssumption
<1> DEFINE k == job[p]
           s == Current(p)
           i == inst[s]
<1>1. k.op = "ensure" /\ k.at = "fail" /\ k.todo # <<>> /\ UNCHANGED <<tracker, box, call, faults>>
      /\ inst' = [inst EXCEPT ![s] = FailedInstance(i, k.gen)]
      BY DEF StartFails, At
<1>2. k \in Job /\ JobOK(k, inst, box) /\ s \in Services /\ s = Head(k.todo)
      BY <1>1, Here
<1>3. i # None
      BY <1>1, <1>2 DEF JobOK
<1>4. inst' \in Instances /\ InstGrows(inst, inst') /\ InstOK(inst', box)
  <2>1. CASE i.gen # k.gen
    <3>1. inst' = inst
          BY <1>1, <1>2, <2>1, Same DEF FailedInstance, Instances
    <3> QED
        BY <3>1, Same
  <2>2. CASE i.gen = k.gen
    <3>1. inst' = [inst EXCEPT ![s].state = "FAILED"]
          BY <1>1, <2>2 DEF FailedInstance
    <3> QED
        BY <1>2, <1>3, <3>1, StateMoves DEF States
  <2> QED
      BY <2>1, <2>2
<1>5. CASE Done(p, FALSE)
  <2>1. /\ box' \in Seq(Box) /\ Len(box') = Len(box) /\ BoxGrows(box, box') /\ box' = box
        BY <1>1, Same
  <2>2. CallTypes' /\ faults' \in 0..MaxFaults
        BY <1>1, SameCalls, FaultOK DEF NoFault
  <2> QED
      BY <1>1, <1>3, <1>4, <1>5, <2>1, <2>2, DoneStep
<1>6. CASE ~k.keep /\ Goto(p, "drop")
      BY <1>1, <1>4, <1>6, GotoDrop
<1> QED
    BY <1>5, <1>6 DEF StartFails

(* The container that a Start gives up. *)
LEMMA DropStep ==
    ASSUME Inv, NEW p \in Procs, DropContainer(p) PROVE Inv'
<1> DEFINE k == job[p]
<1>1. /\ k.op = "ensure" /\ k.at = "drop" /\ k.todo # <<>> /\ UNCHANGED <<inst, tracker, call>>
      /\ RemoveContainer(k.c) /\ Done(p, FALSE)
      BY DEF DropContainer, At
<1>2. k \in Job /\ JobOK(k, inst, box)
      BY Here
<1>3. k.c # 0 /\ k.c <= Len(box) /\ k.c \in Nat
      BY <1>1, <1>2, ServiceAssumption DEF JobOK, Job
<1>4. k.c \in 1..Len(box)
      BY <1>3, Same
<1>5. /\ box' \in Seq(Box) /\ Len(box') = Len(box) /\ BoxGrows(box, box')
      /\ faults' \in 0..MaxFaults
      BY <1>1, <1>4, RemoveOK
<1>6. inst' \in Instances /\ InstGrows(inst, inst') /\ InstOK(inst', box')
      BY <1>1, <1>5, Same, InstKept
<1>7. CallTypes'
      BY <1>1, SameCalls
<1> QED
    BY <1>1, <1>5, <1>6, <1>7, DoneStep

(* An order of a finite set is a sequence over it. *)
LEMMA OrdersOK ==
    ASSUME NEW S, IsFiniteSet(S), NEW q \in Orders(S)
    PROVE  q \in Seq(S) /\ \A n \in 1..Len(q) : q[n] \in S
<1>1. Cardinality(S) \in Nat
      BY FS_CardinalityType
<1> QED
    BY <1>1 DEF Orders

(* The services are finitely many. *)
LEMMA FiniteServices == IsFiniteSet(Services)
<1> DEFINE f == [n \in 1..Len(Order) |-> Order[n]]
<1>1. IsFiniteSet(1..Len(Order))
      BY ServiceAssumption, FS_Interval
<1>2. f \in Surjection(1..Len(Order), Services)
      BY DEF Services, Surjection
<1> QED
    BY <1>1, <1>2, FS_Surjection

(* WorkflowTerminal stops what is there. *)
LEMMA WorkflowTerminalStep ==
    ASSUME Inv, NEW p \in Procs, WorkflowTerminal(p) PROVE Inv'
<1> DEFINE S == {s \in Services : inst[s] # None /\ inst[s].state # "STOPPED"}
<1>1. UNCHANGED <<inst, tracker, box, call, faults>>
      BY DEF WorkflowTerminal
<1>2. PICK todo \in Orders(S) : Begin(p, "stop", todo)
      BY DEF WorkflowTerminal
<1>3. IsFiniteSet(S)
      BY FiniteServices, FS_Subset
<1>4. /\ \A s \in S : s \in Services /\ inst[s] # None
      /\ S \subseteq Services
      OBVIOUS
<1> HIDE DEF S
<1>5. todo \in Seq(S) /\ \A n \in 1..Len(todo) : todo[n] \in S
      BY <1>2, <1>3, OrdersOK
<1>6. todo \in Seq(Services)
      BY <1>4, <1>5
<1>7. All(inst, todo)
      BY <1>4, <1>5 DEF All
<1>8. inst' \in Instances /\ InstGrows(inst, inst') /\ InstOK(inst', box) /\ All(inst', todo)
      BY <1>1, <1>7, Same
<1> QED
    BY <1>1, <1>2, <1>6, <1>8, BeginStep

(* Clients come and go. *)
LEMMA BoundMoves ==
    ASSUME Inv, NEW s \in Services, inst[s] # None, NEW B \in SUBSET BoundIds,
           inst' = [inst EXCEPT ![s].bound = B]
    PROVE  inst' \in Instances /\ InstGrows(inst, inst') /\ InstOK(inst', box) /\ inst'[s] # None
<1> DEFINE i == inst[s]
           n == [i EXCEPT !.bound = B]
<1>1. inst' = [inst EXCEPT ![s] = n]
      OBVIOUS
<1>2. i \in Instance
      BY ThisInstance
<1>3. /\ n \in Instance /\ n.gen = i.gen /\ n.cap = i.cap /\ n.container = i.container
      /\ n.state = i.state
      BY <1>2 DEF Instance
<1> HIDE DEF n
<1>4. /\ n.gen >= inst[s].gen /\ n.cap \in {0, n.gen} /\ n.container <= Len(box)
      /\ n.state = "READY" =>
            \E c \in 1..Len(box) : box[c].s = s /\ box[c].gen = n.gen /\ box[c].attached
      BY <1>3, ThisInstance
<1> QED
    BY <1>1, <1>3, <1>4, InstMoves

(* BindClient. *)
LEMMA BindClientStep ==
    ASSUME Inv, NEW s \in Used, NEW b \in BoundIds, BindClient(s, b) PROVE Inv'
<1> DEFINE B == inst[s].bound \cup {b}
<1>1. /\ s \in Services /\ inst[s] # None /\ inst' = [inst EXCEPT ![s].bound = B]
      /\ UNCHANGED <<tracker, box, job, call, faults>>
      BY ServiceAssumption DEF BindClient
<1>2. inst[s] \in Instance
      BY <1>1, ThisInstance
<1>3. B \in SUBSET BoundIds
      BY <1>2 DEF Instance
<1> HIDE DEF B
<1>4. inst' \in Instances /\ InstGrows(inst, inst') /\ InstOK(inst', box)
      BY <1>1, <1>3, BoundMoves
<1>5. /\ box' \in Seq(Box) /\ Len(box') = Len(box) /\ BoxGrows(box, box') /\ box' = box
      /\ CallTypes' /\ faults' \in 0..MaxFaults
      BY <1>1, Same, SameCalls, FaultOK DEF NoFault
<1> QED
    BY <1>1, <1>4, <1>5, OtherStep

(* UnbindClient stops the service behind the last client. *)
LEMMA UnbindClientStep ==
    ASSUME Inv, NEW p \in Procs, NEW s \in Used, NEW b \in BoundIds, UnbindClient(p, s, b) PROVE Inv'
<1> DEFINE B == inst[s].bound \ {b}
           todo == IF inst'[s].bound = {} THEN <<s>> ELSE <<>>
<1>1. /\ s \in Services /\ inst[s] # None /\ inst' = [inst EXCEPT ![s].bound = B]
      /\ UNCHANGED <<tracker, box, call, faults>> /\ Begin(p, "stop", todo)
      BY ServiceAssumption DEF UnbindClient
<1>2. inst[s] \in Instance
      BY <1>1, ThisInstance
<1>3. B \in SUBSET BoundIds
      BY <1>2 DEF Instance
<1> HIDE DEF B
<1>4. inst' \in Instances /\ InstGrows(inst, inst') /\ InstOK(inst', box) /\ inst'[s] # None
      BY <1>1, <1>3, BoundMoves
<1>5. todo \in Seq(Services) /\ All(inst', todo)
      BY <1>1, <1>4 DEF All
<1> HIDE DEF todo
<1> QED
    BY <1>1, <1>4, <1>5, BeginStep

(* Stop marks the service and takes its container's id. *)
LEMMA StopMarkStep ==
    ASSUME Inv, NEW p \in Procs, StopMark(p) PROVE Inv'
<1> USE ServiceAssumption
<1> DEFINE k == job[p]
           s == Current(p)
           i == inst[s]
<1>1. k.op = "stop" /\ k.at = "next" /\ k.todo # <<>> /\ UNCHANGED <<box, faults>>
      BY DEF StopMark, At
<1>2. /\ k \in Job /\ JobOK(k, inst, box) /\ s \in Services /\ s = Head(k.todo)
      /\ k.todo \in Seq(Services)
      BY <1>1, Here DEF Job
<1>3. i # None
      BY <1>1, <1>2 DEF JobOK, All
<1>4. /\ i \in Instance /\ i.gen \in 0..MaxGeneration /\ i.container \in 0..MaxContainers
      /\ i.container <= Len(box)
      BY <1>2, <1>3, ThisInstance
<1>5. /\ box' \in Seq(Box) /\ Len(box') = Len(box) /\ BoxGrows(box, box') /\ box' = box
      /\ faults' \in 0..MaxFaults
      BY <1>1, Same, FaultOK DEF NoFault
<1>6. CASE /\ inst' = [inst EXCEPT ![s].state = "STOPPING"] /\ CancelAll(s)
           /\ job' = [job EXCEPT ![p].at = "teardown", ![p].gen = i.gen, ![p].c = i.container]
  <2> DEFINE j1 == [k EXCEPT !.at = "teardown"]
             j2 == [j1 EXCEPT !.gen = i.gen]
             j  == [j2 EXCEPT !.c = i.container]
  <2>1. job' = [job EXCEPT ![p] = j]
    <3>1. p \in DOMAIN job
          BY DEF Inv, TypeInv
    <3> QED
        BY <1>6, <3>1
  <2>2. j1 \in Job /\ j1.at = "teardown" /\ j1.op = k.op /\ j1.todo = k.todo /\ j1.started = k.started
        BY <1>2, MovedTo DEF Places
  <2> HIDE DEF j1
  <2>3. j2 \in Job /\ j2.at = "teardown" /\ j2.op = k.op /\ j2.todo = k.todo /\ j2.started = k.started
        BY <1>4, <2>2 DEF Job
  <2> HIDE DEF j2
  <2>4. j \in Job /\ j.at = "teardown" /\ j.op = k.op /\ j.todo = k.todo /\ j.started = k.started
        /\ j.c = i.container
        BY <1>4, <2>3 DEF Job
  <2> HIDE DEF j
  <2>5. inst' \in Instances /\ InstGrows(inst, inst') /\ InstOK(inst', box')
        BY <1>2, <1>3, <1>5, <1>6, StateMoves DEF States
  <2>6. JobOK(k, inst', box')
        BY <1>1, <1>5, <2>5, StillOK DEF Creating
  <2>7. JobOK(j, inst', box') /\ ~Creating(j)
        BY <1>1, <1>4, <1>5, <2>4, <2>6 DEF JobOK, Creating
  <2>8. CallTypes'
        BY <1>2, <1>6, CancelAllOK
  <2> QED
      BY <1>5, <2>1, <2>4, <2>5, <2>7, <2>8, JobStep
<1>7. CASE Done(p, TRUE) /\ UNCHANGED <<inst, tracker, call>>
  <2>1. inst' \in Instances /\ InstGrows(inst, inst') /\ InstOK(inst', box')
        BY <1>5, <1>7, Same
  <2>2. CallTypes'
        BY <1>7, SameCalls
  <2> QED
      BY <1>1, <1>5, <1>7, <2>1, <2>2, DoneStep
<1> QED
    BY <1>6, <1>7 DEF StopMark

(* The container is removed. *)
LEMMA TeardownStep ==
    ASSUME Inv, NEW p \in Procs, Teardown(p) PROVE Inv'
<1> USE ServiceAssumption
<1> DEFINE k == job[p]
           j == [k EXCEPT !.at = "stopped"]
<1>1. /\ k.op \in {"stop", "cleanup"} /\ k.at = "teardown" /\ UNCHANGED <<inst, tracker, call>>
      /\ Goto(p, "stopped") /\ job' = [job EXCEPT ![p] = j]
      BY DEF Teardown, Goto
<1>2. k \in Job /\ JobOK(k, inst, box)
      BY Here
<1>3. /\ box' \in Seq(Box) /\ Len(box') = Len(box) /\ BoxGrows(box, box')
      /\ Fault \/ NoFault
  <2>1. CASE UNCHANGED box /\ NoFault
        BY <2>1, Same
  <2>2. CASE k.c # 0 /\ RemoveContainer(k.c)
    <3>1. k.c \in 1..Len(box)
          BY <1>2, <2>2, Same DEF Job, JobOK
    <3> QED
        BY <2>2, <3>1, RemoveOK DEF RemoveContainer
  <2> QED
      BY <2>1, <2>2 DEF Teardown
<1>4. inst' \in Instances /\ InstGrows(inst, inst') /\ InstOK(inst', box')
      BY <1>1, <1>3, Same, InstKept
<1>5. JobOK(k, inst', box')
      BY <1>1, <1>3, <1>4, StillOK DEF Creating
<1>6. j.at = "stopped" /\ j.op = k.op /\ j.todo = k.todo /\ j.started = k.started /\ j.c = k.c
      BY <1>2, MovedTo DEF Places
<1> HIDE DEF j
<1>7. JobOK(j, inst', box')
      BY <1>1, <1>5, <1>6 DEF JobOK
<1> QED
    BY <1>1, <1>3, <1>4, <1>7, GotoStep DEF Places, j

(* The service is stopped, if no Start has claimed it again. *)
LEMMA StopDoneStep ==
    ASSUME Inv, NEW p \in Procs, StopDone(p) PROVE Inv'
<1> USE ServiceAssumption
<1> DEFINE k == job[p]
           s == Current(p)
           i == inst[s]
           n1 == [i EXCEPT !.state = "STOPPED"]
           n2 == [n1 EXCEPT !.container = 0]
           n  == [n2 EXCEPT !.cap = 0]
<1>1. /\ k.op \in {"stop", "cleanup"} /\ k.at = "stopped" /\ UNCHANGED <<tracker, box, call, faults>>
      /\ Done(p, TRUE)
      /\ inst' = [inst EXCEPT ![s] = IF Superseded(p) THEN i ELSE Stopped(i)]
      BY DEF StopDone
<1>2. k \in Job /\ JobOK(k, inst, box) /\ k.todo # <<>>
      BY <1>1, Here DEF JobOK
<1>3. s \in Services /\ s = Head(k.todo) /\ k.todo \in Seq(Services)
      BY <1>2, Here DEF Job
<1>4. i # None
      BY <1>1, <1>2, <1>3 DEF JobOK, All
<1>5. inst' \in Instances /\ InstGrows(inst, inst') /\ InstOK(inst', box)
  <2>1. CASE Superseded(p)
    <3>1. inst' = inst
          BY <1>1, <1>3, <2>1, Same DEF Instances
    <3> QED
        BY <3>1, Same
  <2>2. CASE ~Superseded(p)
    <3>1. inst' = [inst EXCEPT ![s] = n]
          BY <1>1, <2>2 DEF Stopped
    <3>2. i \in Instance /\ i.gen >= i.gen
          BY <1>3, <1>4, ThisInstance
    <3>3. n1 \in Instance /\ n1.gen = i.gen /\ n1.state = "STOPPED"
          BY <3>2 DEF Instance, States
    <3> HIDE DEF n1
    <3>4. n2 \in Instance /\ n2.gen = i.gen /\ n2.state = "STOPPED" /\ n2.container = 0
          BY <3>3, SMTT(30) DEF Instance
    <3> HIDE DEF n2
    <3>5. n \in Instance /\ n.gen = i.gen /\ n.state = "STOPPED" /\ n.container = 0 /\ n.cap = 0
          BY <3>4 DEF Instance
    <3> HIDE DEF n
    <3>6. /\ n.gen >= inst[s].gen /\ n.cap \in {0, n.gen} /\ n.container <= Len(box)
          /\ n.state # "READY"
          BY <3>2, <3>5, Same
    <3> QED
        BY <1>3, <3>1, <3>5, <3>6, InstMoves
  <2> QED
      BY <2>1, <2>2
<1>6. /\ box' \in Seq(Box) /\ Len(box') = Len(box) /\ BoxGrows(box, box') /\ box' = box
      /\ CallTypes' /\ faults' \in 0..MaxFaults
      BY <1>1, Same, SameCalls, FaultOK DEF NoFault
<1> QED
    BY <1>1, <1>2, <1>5, <1>6, DoneStep

(* An operation that is over. *)
LEMMA IdleOK ==
    ASSUME NEW i, NEW b, Len(b) \in Nat
    PROVE  /\ Idle \in Job /\ JobOK(Idle, i, b) /\ ~Creating(Idle)
           /\ Idle.started = <<>> /\ Idle.c = 0
BY ServiceAssumption DEF Idle, Job, Ops, Places, Containers, JobOK, All, Creating

(* A cleanup takes the capability and the container's id. *)
LEMMA CleanupStep ==
    ASSUME Inv, NEW p \in Procs, NEW s \in Used, CleanupServiceResources(p, s) PROVE Inv'
<1> USE ServiceAssumption
<1> DEFINE i == inst[s]
           bare == [i EXCEPT !.cap = 0]
           st == IF bare.state \in {"STOPPING", "STOPPED"} THEN bare.state ELSE "STOPPING"
           n == [bare EXCEPT !.state = st]
<1>1. s \in Services /\ i # None /\ CancelAll(s) /\ UNCHANGED <<box, faults>>
      BY DEF CleanupServiceResources
<1>2. /\ i \in Instance /\ i.gen \in 0..MaxGeneration /\ i.gen >= i.gen
      /\ i.container \in 0..MaxContainers /\ i.container <= Len(box)
      BY <1>1, ThisInstance
<1>3. /\ box' \in Seq(Box) /\ Len(box') = Len(box) /\ BoxGrows(box, box') /\ box' = box
      /\ CallTypes' /\ faults' \in 0..MaxFaults
      BY <1>1, Same, CancelAllOK, FaultOK DEF NoFault
<1>4. /\ bare \in Instance /\ bare.gen = i.gen /\ bare.cap = 0 /\ bare.container = i.container
      /\ bare.state = i.state
  <2>1. 0 \in 0..MaxGeneration
        OBVIOUS
  <2> QED
      BY <1>2, <2>1 DEF Instance
<1>5. CASE i.state = "STOPPED" /\ inst' = [inst EXCEPT ![s] = bare] /\ UNCHANGED job
  <2> HIDE DEF bare
  <2>1. /\ bare.gen >= inst[s].gen /\ bare.cap \in {0, bare.gen} /\ bare.container <= Len(box)
        /\ bare.state # "READY"
        BY <1>2, <1>4, <1>5
  <2>2. inst' \in Instances /\ InstGrows(inst, inst') /\ InstOK(inst', box)
        BY <1>1, <1>4, <1>5, <2>1, InstMoves
  <2> QED
      BY <1>3, <1>5, <2>2, OtherStep
<1>6. CASE /\ inst' = [inst EXCEPT ![s] = n]
           /\ job' = [job EXCEPT ![p] = [Idle EXCEPT !.op = "cleanup", !.at = "halt", !.todo = <<s>>,
                                                     !.gen = i.gen, !.c = i.container]]
  <2> DEFINE q  == <<s>>
             j1 == [Idle EXCEPT !.op = "cleanup"]
             j2 == [j1 EXCEPT !.at = "halt"]
             j3 == [j2 EXCEPT !.todo = q]
             j4 == [j3 EXCEPT !.gen = i.gen]
             j  == [j4 EXCEPT !.c = i.container]
  <2>1. job' = [job EXCEPT ![p] = j]
        BY <1>6
  <2>2. q \in Seq(Services) /\ q # <<>> /\ \A m \in 1..Len(q) : q[m] = s
        BY <1>1
  <2> HIDE DEF q
  <2>3. j1 \in Job /\ j1.op = "cleanup" /\ j1.started = <<>>
    <3>1. Idle \in Job /\ Idle.started = <<>>
          BY Same, IdleOK
    <3> QED
        BY <3>1 DEF Job, Ops
  <2> HIDE DEF j1
  <2>4. j2 \in Job /\ j2.op = "cleanup" /\ j2.at = "halt" /\ j2.started = <<>>
        BY <2>3 DEF Job, Places
  <2> HIDE DEF j2
  <2>5. j3 \in Job /\ j3.op = "cleanup" /\ j3.at = "halt" /\ j3.started = <<>> /\ j3.todo = q
        BY <2>2, <2>4 DEF Job
  <2> HIDE DEF j3
  <2>6. j4 \in Job /\ j4.op = "cleanup" /\ j4.at = "halt" /\ j4.started = <<>> /\ j4.todo = q
        BY <1>2, <2>5 DEF Job
  <2> HIDE DEF j4
  <2>7. j \in Job /\ j.op = "cleanup" /\ j.at = "halt" /\ j.started = <<>> /\ j.todo = q
        /\ j.c = i.container
        BY <1>2, <2>6 DEF Job
  <2> HIDE DEF j
  <2>8. st \in States \ {"READY"}
        BY DEF States
  <2> HIDE DEF bare, st
  <2>9. /\ n \in Instance /\ n.gen = i.gen /\ n.cap = 0 /\ n.container = i.container
        /\ n.state = st
        BY <1>4, <2>8 DEF Instance
  <2> HIDE DEF n
  <2>10. /\ n.gen >= inst[s].gen /\ n.cap \in {0, n.gen} /\ n.container <= Len(box)
         /\ n.state # "READY"
         BY <1>2, <2>8, <2>9
  <2>11. inst' \in Instances /\ InstGrows(inst, inst') /\ InstOK(inst', box) /\ inst'[s] # None
         BY <1>1, <1>6, <2>9, <2>10, InstMoves
  <2>12. JobOK(j, inst', box') /\ ~Creating(j)
         BY <1>2, <1>3, <2>2, <2>7, <2>11 DEF JobOK, Creating, All
  <2> QED
      BY <1>3, <2>1, <2>7, <2>11, <2>12, JobStep
<1> QED
    BY <1>5, <1>6 DEF CleanupServiceResources

(* The cleanup's first look. *)
LEMMA CleanupHaltsStep ==
    ASSUME Inv, NEW p \in Procs, CleanupHalts(p) PROVE Inv'
<1> USE ServiceAssumption
<1> DEFINE k == job[p]
           at == IF Superseded(p) THEN "stopped" ELSE "teardown"
           j == [k EXCEPT !.at = at]
<1>1. /\ k.op = "cleanup" /\ k.at = "halt" /\ k.todo # <<>>
      /\ UNCHANGED <<inst, tracker, call>> /\ job' = [job EXCEPT ![p] = j]
      /\ Fault \/ NoFault
      BY DEF CleanupHalts, At, Goto
<1>2. k \in Job /\ JobOK(k, inst, box)
      BY Here
<1>3. box' \in Seq(Box) /\ Len(box') = Len(box) /\ BoxGrows(box, box')
  <2>1. CASE box' = box
        BY <2>1, Same
  <2>2. CASE k.c # 0 /\ box' = [box EXCEPT ![k.c].status = "exited"]
    <3>1. k.c \in 1..Len(box)
          BY <1>2, <2>2, Same DEF Job, JobOK
    <3> QED
        BY <2>2, <3>1, StatusOK
  <2> QED
      BY <2>1, <2>2 DEF CleanupHalts
<1>4. inst' \in Instances /\ InstGrows(inst, inst') /\ InstOK(inst', box')
      BY <1>1, <1>3, Same, InstKept
<1>5. JobOK(k, inst', box')
      BY <1>1, <1>3, <1>4, StillOK DEF Creating
<1>6. at \in {"stopped", "teardown"}
      OBVIOUS
<1>7. at \in Places \ {"create"}
      BY <1>6 DEF Places
<1> HIDE DEF at
<1>8. j.at = at /\ j.op = k.op /\ j.todo = k.todo /\ j.started = k.started /\ j.c = k.c
      BY <1>2, <1>7, MovedTo
<1> HIDE DEF j
<1>9. JobOK(j, inst', box')
      BY <1>1, <1>5, <1>6, <1>8 DEF JobOK
<1> QED
    BY <1>1, <1>3, <1>4, <1>7, <1>9, GotoStep DEF j

(* Fence. *)
LEMMA FenceStep ==
    ASSUME Inv, NEW s \in Used, Fence(s) PROVE Inv'
<1>1. /\ s \in Services /\ inst[s] # None /\ inst' = [inst EXCEPT ![s].state = "FENCED"]
      /\ CancelAll(s) /\ UNCHANGED <<box, job, faults>>
      BY ServiceAssumption DEF Fence
<1>2. inst' \in Instances /\ InstGrows(inst, inst') /\ InstOK(inst', box)
      BY <1>1, StateMoves DEF States
<1>3. /\ box' \in Seq(Box) /\ Len(box') = Len(box) /\ BoxGrows(box, box') /\ box' = box
      /\ CallTypes' /\ faults' \in 0..MaxFaults
      BY <1>1, Same, CancelAllOK, FaultOK DEF NoFault
<1> QED
    BY <1>1, <1>2, <1>3, OtherStep

(* Reconcile lists the containers. *)
LEMMA ReconcileStep ==
    ASSUME Inv, NEW p \in Procs, Reconcile(p) PROVE Inv'
<1> DEFINE j1 == [Idle EXCEPT !.op = "reconcile"]
           j2 == [j1 EXCEPT !.at = "judge"]
           j == [j2 EXCEPT !.seen = Existing]
<1>1. UNCHANGED <<inst, tracker, box, call, faults>> /\ job' = [job EXCEPT ![p] = j]
      BY DEF Reconcile
<1>2. /\ inst' \in Instances /\ InstGrows(inst, inst') /\ InstOK(inst', box')
      /\ box' \in Seq(Box) /\ Len(box') = Len(box) /\ BoxGrows(box, box')
      /\ CallTypes' /\ faults' \in 0..MaxFaults /\ Len(box) \in Nat
      BY <1>1, Same, SameCalls, FaultOK DEF NoFault
<1>3. Existing \in SUBSET Containers
      BY <1>2, ServiceAssumption DEF Existing, Containers, Inv, TypeInv
<1>4. j1 \in Job /\ j1.op = "reconcile" /\ j1.started = <<>> /\ j1.c = 0
  <2>1. Idle \in Job /\ Idle.started = <<>> /\ Idle.c = 0
        BY <1>2, IdleOK
  <2> QED
      BY <2>1 DEF Job, Ops
<1> HIDE DEF j1
<1>5. j2 \in Job /\ j2.op = "reconcile" /\ j2.started = <<>> /\ j2.c = 0
      BY <1>4 DEF Job, Places
<1> HIDE DEF j2
<1>6. j \in Job /\ j.op = "reconcile" /\ j.started = <<>> /\ j.c = 0
      BY <1>3, <1>5 DEF Job
<1> HIDE DEF j
<1>7. JobOK(j, inst', box') /\ ~Creating(j)
      BY <1>2, <1>6 DEF JobOK, Creating, All
<1> QED
    BY <1>1, <1>2, <1>6, <1>7, JobStep

(* Reconcile judges by what it listed. *)
LEMMA ReconcileJudgesStep ==
    ASSUME Inv, NEW p \in Procs, ReconcileJudges(p) PROVE Inv'
<1> DEFINE bad(s) == inst[s] # None /\ Unsound(s, job[p].seen)
           n(s) == [inst[s] EXCEPT !.state = "UNHEALTHY"]
<1>1. /\ inst' = [s \in Services |-> IF bad(s) THEN n(s) ELSE inst[s]]
      /\ job' = [job EXCEPT ![p] = Idle] /\ UNCHANGED <<tracker, box, call, faults>>
      BY DEF ReconcileJudges
<1>2. \A s \in Services : inst'[s] = IF bad(s) THEN n(s) ELSE inst[s]
      BY <1>1
<1>3. \A s \in Services : bad(s) => inst[s] # None
      OBVIOUS
<1> HIDE DEF bad
<1>4. ASSUME NEW s \in Services, inst[s] # None
      PROVE  /\ n(s) \in Instance /\ n(s).gen = inst[s].gen /\ n(s).cap = inst[s].cap
             /\ n(s).container = inst[s].container /\ n(s).state = "UNHEALTHY"
             /\ inst[s].gen >= inst[s].gen
  <2>1. inst[s] \in Instance /\ inst[s].gen >= inst[s].gen
        BY <1>4, ThisInstance
  <2> QED
      BY <2>1 DEF Instance, States
<1> HIDE DEF n
<1>5. \A s \in Services : inst'[s] \in Instance \cup {None}
      BY <1>2, <1>3, <1>4, Same DEF Instances
<1>6. inst' \in Instances
      BY <1>1, <1>5 DEF Instances
<1>7. InstGrows(inst, inst')
  <2> SUFFICES ASSUME NEW s \in Services, inst[s] # None
               PROVE  inst'[s] # None /\ inst'[s].gen >= inst[s].gen
      BY DEF InstGrows
  <2> QED
      BY <1>2, <1>4, ServiceAssumption
<1>8. InstOK(inst', box)
  <2> SUFFICES ASSUME NEW s \in Services, inst'[s] # None
               PROVE  /\ inst'[s].cap \in {0, inst'[s].gen}
                      /\ inst'[s].container <= Len(box)
                      /\ inst'[s].state = "READY" =>
                            \E c \in 1..Len(box) : box[c].s = s /\ box[c].gen = inst'[s].gen /\ box[c].attached
      BY DEF InstOK
  <2>1. inst[s] # None
        BY <1>2, <1>3
  <2>2. CASE bad(s)
        BY <1>2, <1>4, <2>1, <2>2, ThisInstance
  <2>3. CASE ~bad(s)
        BY <1>2, <2>1, <2>3, ThisInstance
  <2> QED
      BY <2>2, <2>3
<1>9. /\ box' \in Seq(Box) /\ Len(box') = Len(box) /\ BoxGrows(box, box') /\ box' = box
      /\ CallTypes' /\ faults' \in 0..MaxFaults /\ Len(box) \in Nat
      BY <1>1, Same, SameCalls, FaultOK DEF NoFault
<1>10. Idle \in Job /\ JobOK(Idle, inst', box') /\ ~Creating(Idle)
       BY <1>9, IdleOK
<1> QED
    BY <1>1, <1>6, <1>7, <1>8, <1>9, <1>10, JobStep

(* A container exits. *)
LEMMA ContainerExitsStep ==
    ASSUME Inv, NEW c \in Containers, ContainerExits(c) PROVE Inv'
<1>1. /\ c <= Len(box) /\ Fault /\ box' = [box EXCEPT ![c].status = "exited"]
      /\ UNCHANGED <<inst, tracker, job, call>>
      BY DEF ContainerExits
<1>2. c \in 1..Len(box)
      BY <1>1, Same, ServiceAssumption DEF Containers
<1>3. box' \in Seq(Box) /\ Len(box') = Len(box) /\ BoxGrows(box, box')
      BY <1>1, <1>2, StatusOK
<1>4. inst' \in Instances /\ InstGrows(inst, inst') /\ InstOK(inst', box')
      BY <1>1, <1>3, Same, InstKept
<1>5. CallTypes' /\ faults' \in 0..MaxFaults
      BY <1>1, SameCalls, FaultOK
<1> QED
    BY <1>1, <1>3, <1>4, <1>5, OtherStep

(* The instances, the containers and the operations are left alone. *)
LEMMA CallStep ==
    ASSUME Inv, UNCHANGED <<inst, box, job, faults>>, CallTypes' PROVE Inv'
<1>1. /\ inst' \in Instances /\ InstGrows(inst, inst') /\ InstOK(inst', box')
      /\ box' \in Seq(Box) /\ Len(box') = Len(box) /\ BoxGrows(box, box')
      /\ faults' \in 0..MaxFaults
      BY Same, FaultOK DEF NoFault
<1> QED
    BY <1>1, OtherStep

(* One call moves on. *)
LEMMA OneCall ==
    ASSUME Inv, NEW k \in Calls, NEW n \in ToolCall, call' = [call EXCEPT ![k] = n],
           n.at # "idle" => n.s \in Services
    PROVE  /\ call' \in [Calls -> ToolCall]
           /\ \A l \in Calls : call'[l].at # "idle" => call'[l].s \in Services
<1>1. call \in [Calls -> ToolCall]
      BY DEF Inv, TypeInv
<1> QED
    BY <1>1 DEF Inv, CallsOK

(* A call finds the service READY. *)
LEMMA CallToolStep ==
    ASSUME Inv, NEW s \in Used, NEW k \in Calls, CallTool(k, s) PROVE Inv'
<1> USE ServiceAssumption
<1> DEFINE n1 == [NoCall EXCEPT !.at = "resolved"]
           n2 == [n1 EXCEPT !.s = s]
           n  == [n2 EXCEPT !.cap = inst[s].cap]
<1>1. /\ s \in Services /\ inst[s] # None /\ call' = [call EXCEPT ![k] = n]
      /\ UNCHANGED <<inst, tracker, box, job, faults>>
      BY DEF CallTool
<1>2. inst[s] \in Instance
      BY <1>1, ThisInstance
<1>3. inst[s].cap \in 0..MaxGeneration
      BY <1>2 DEF Instance
<1>4. n1 \in ToolCall /\ n1.at = "resolved"
  <2>1. NoCall \in ToolCall
        BY DEF NoCall, ToolCall
  <2> QED
      BY <2>1 DEF ToolCall
<1> HIDE DEF n1
<1>5. n2 \in ToolCall /\ n2.at = "resolved" /\ n2.s = s
      BY <1>1, <1>4 DEF ToolCall
<1> HIDE DEF n2
<1>6. n \in ToolCall /\ n.s = s
      BY <1>3, <1>5 DEF ToolCall
<1> HIDE DEF n
<1>7. /\ call' \in [Calls -> ToolCall]
      /\ \A l \in Calls : call'[l].at # "idle" => call'[l].s \in Services
      BY <1>1, <1>6, OneCall
<1>8. CallTypes'
      BY <1>1, <1>7 DEF CallTypes, CallsOK, Inv, TypeInv
<1> QED
    BY <1>1, <1>8, CallStep

(* The trackers of the services, one of them changed. *)
LEMMA OneTracker ==
    ASSUME Inv, NEW s \in Services, NEW n \in Tracker, tracker' = [tracker EXCEPT ![s] = n],
           n.live \subseteq (1..n.last) \X Calls
    PROVE  /\ tracker' \in [Services -> Tracker]
           /\ \A t \in Services : tracker'[t].live \subseteq (1..tracker'[t].last) \X Calls
<1>1. tracker \in [Services -> Tracker]
      BY DEF Inv, TypeInv
<1>2. \A t \in Services : tracker'[t] = IF t = s THEN n ELSE tracker[t]
      BY <1>1
<1>3. tracker' \in [Services -> Tracker]
      BY <1>1
<1> QED
    BY <1>2, <1>3 DEF Inv, CallsOK

(* RegisterCall. *)
LEMMA RegisterCallStep ==
    ASSUME Inv, NEW k \in Calls, RegisterCall(k) PROVE Inv'
<1> USE ServiceAssumption
<1> DEFINE s  == call[k].s
           last == tracker[s].last
           id == last + 1
           live == tracker[s].live \cup {<<id, k>>}
           t  == [last |-> id, live |-> live]
           n1 == [call[k] EXCEPT !.at = "registered"]
           n  == [n1 EXCEPT !.id = id]
<1>1. /\ call[k].at = "resolved" /\ id <= MaxCallIds /\ tracker' = [tracker EXCEPT ![s] = t]
      /\ UNCHANGED <<inst, box, job, faults>>
      BY DEF RegisterCall
<1>2. call' = [call EXCEPT ![k] = n]
  <2>1. k \in DOMAIN call
        BY DEF Inv, TypeInv
  <2>2. call' = [call EXCEPT ![k].at = "registered", ![k].id = id]
        BY DEF RegisterCall
  <2> QED
      BY <2>1, <2>2
<1>3. s \in Services /\ call[k] \in ToolCall
      BY <1>1 DEF Inv, TypeInv, CallsOK
<1>4. tracker[s] \in Tracker
      BY <1>3 DEF Inv, TypeInv
<1>5. last \in Nat
      BY <1>4 DEF Tracker
<1>6. id \in 1..MaxCallIds /\ id \in 0..MaxCallIds /\ 1..last \subseteq 1..id /\ id \in 1..id
  <2>1. MaxCallIds \in Nat /\ id <= MaxCallIds
        BY <1>1
  <2> HIDE DEF last
  <2> QED
      BY <1>5, <2>1
<1>7. live \subseteq (1..id) \X Calls
  <2>1. tracker[s].live \subseteq (1..last) \X Calls
        BY <1>3 DEF Inv, CallsOK
  <2> HIDE DEF id, last
  <2> QED
      BY <1>6, <2>1
<1>8. (1..id) \X Calls \subseteq (1..MaxCallIds) \X Calls
  <2>1. 1..id \subseteq 1..MaxCallIds
        BY <1>6
  <2> HIDE DEF id
  <2> QED
      BY <2>1
<1> HIDE DEF id, live
<1>9. t \in Tracker /\ t.last = id /\ t.live = live
      BY <1>6, <1>7, <1>8 DEF Tracker
<1> HIDE DEF t
<1>10. n1 \in ToolCall /\ n1.s = s
       BY <1>3 DEF ToolCall
<1> HIDE DEF n1
<1>11. n \in ToolCall /\ n.s = s
       BY <1>6, <1>10 DEF ToolCall
<1> HIDE DEF n
<1>12. /\ call' \in [Calls -> ToolCall]
       /\ \A l \in Calls : call'[l].at # "idle" => call'[l].s \in Services
       BY <1>2, <1>3, <1>11, OneCall
<1>13. /\ tracker' \in [Services -> Tracker]
       /\ \A u \in Services : tracker'[u].live \subseteq (1..tracker'[u].last) \X Calls
       BY <1>1, <1>3, <1>7, <1>9, OneTracker
<1>14. CallTypes'
       BY <1>12, <1>13 DEF CallTypes, CallsOK
<1> QED
    BY <1>1, <1>14, CallStep

(* The call goes out. *)
LEMMA DispatchStep ==
    ASSUME Inv, NEW k \in Calls, Dispatch(k) PROVE Inv'
<1> DEFINE n == [call[k] EXCEPT !.at = "live"]
<1>1. /\ call[k].at = "registered" /\ call' = [call EXCEPT ![k] = n]
      /\ UNCHANGED <<inst, tracker, box, job, faults>>
      BY DEF Dispatch
<1>2. call[k].s \in Services /\ call[k] \in ToolCall
      BY <1>1 DEF Inv, TypeInv, CallsOK
<1>3. n \in ToolCall /\ n.s = call[k].s
      BY <1>2 DEF ToolCall
<1> HIDE DEF n
<1>4. /\ call' \in [Calls -> ToolCall]
      /\ \A l \in Calls : call'[l].at # "idle" => call'[l].s \in Services
      BY <1>1, <1>2, <1>3, OneCall
<1>5. CallTypes'
      BY <1>1, <1>4 DEF CallTypes, CallsOK, Inv, TypeInv
<1> QED
    BY <1>1, <1>5, CallStep

(* The call ends. *)
LEMMA CallEndsStep ==
    ASSUME Inv, NEW k \in Calls, CallEnds(k) PROVE Inv'
<1> USE ServiceAssumption
<1> DEFINE s == call[k].s
           left == {e \in tracker[s].live : e[1] # call[k].id}
           t == [tracker[s] EXCEPT !.live = left]
<1>1. /\ call[k].at # "idle" /\ tracker' = [tracker EXCEPT ![s] = t]
      /\ call' = [call EXCEPT ![k] = NoCall] /\ UNCHANGED <<inst, box, job, faults>>
      BY DEF CallEnds
<1>2. s \in Services
      BY <1>1 DEF Inv, CallsOK
<1>3. tracker[s] \in Tracker /\ tracker[s].live \subseteq (1..tracker[s].last) \X Calls
      BY <1>2 DEF Inv, TypeInv, CallsOK
<1>4. left \subseteq tracker[s].live
      OBVIOUS
<1> HIDE DEF left
<1>5. t \in Tracker /\ t.last = tracker[s].last /\ t.live = left
      BY <1>3, <1>4 DEF Tracker
<1> HIDE DEF t
<1>6. t.live \subseteq (1..t.last) \X Calls
      BY <1>3, <1>4, <1>5
<1>7. /\ tracker' \in [Services -> Tracker]
      /\ \A u \in Services : tracker'[u].live \subseteq (1..tracker'[u].last) \X Calls
      BY <1>1, <1>2, <1>5, <1>6, OneTracker
<1>8. NoCall \in ToolCall /\ NoCall.at = "idle"
      BY DEF NoCall, ToolCall
<1>9. /\ call' \in [Calls -> ToolCall]
      /\ \A l \in Calls : call'[l].at # "idle" => call'[l].s \in Services
      BY <1>1, <1>8, OneCall
<1>10. CallTypes'
       BY <1>7, <1>9 DEF CallTypes, CallsOK
<1> QED
    BY <1>1, <1>10, CallStep

-----------------------------------------------------------------------------
(* The registry begins empty, with every operation at rest. *)
LEMMA Initially == Init => Inv
<1> USE ServiceAssumption
<1> SUFFICES ASSUME Init PROVE Inv
    OBVIOUS
<1>1. /\ inst = [s \in Services |-> None] /\ tracker = [s \in Services |-> NewTracker]
      /\ box = <<>> /\ job = [p \in Procs |-> Idle] /\ call = [k \in Calls |-> NoCall] /\ faults = 0
      BY DEF Init
<1>2. Len(box) = 0 /\ box \in Seq(Box)
      BY <1>1
<1>3. NewTracker \in Tracker /\ NewTracker.live = {} /\ NoCall \in ToolCall /\ NoCall.at = "idle"
      BY DEF NewTracker, Tracker, NoCall, ToolCall
<1>4. Idle \in Job /\ JobOK(Idle, inst, box) /\ ~Creating(Idle)
      BY <1>2, IdleOK
<1>5. TypeInv
      BY <1>1, <1>2, <1>3, <1>4 DEF TypeInv
<1>6. CallsOK
      BY <1>1, <1>3 DEF CallsOK
<1>7. InstOK(inst, box)
      BY <1>1 DEF InstOK
<1>8. BoxOK(inst, box) /\ OneContainerPerGeneration
      BY <1>2 DEF BoxOK, OneContainerPerGeneration
<1>9. (\A p \in Procs : JobOK(job[p], inst, box)) /\ Claims
      BY <1>1, <1>4 DEF Claims
<1> QED
    BY <1>5, <1>6, <1>7, <1>8, <1>9 DEF Inv

(* Every step of the registry preserves the invariant. *)
LEMMA Inductive == Inv /\ [Next]_vars => Inv'
<1> SUFFICES ASSUME Inv, [Next]_vars PROVE Inv'
    OBVIOUS
<1>1. ASSUME NEW p \in Procs,
             \/ EnsureServices(p) \/ EnsureNext(p) \/ Declare(p) \/ Start(p)
             \/ CreateServiceContainer(p) \/ RunContainer(p) \/ StoreContainer(p)
             \/ AttachNetwork(p) \/ ReadinessProbe(p) \/ StartReady(p) \/ StartFails(p)
             \/ DropContainer(p)
      PROVE  Inv'
      BY <1>1, EnsureServicesStep, EnsureNextStep, DeclareStep, StartStep, CreateStep, RunStep,
         StoreStep, AttachStep, ProbeStep, StartReadyStep, StartFailsStep, DropStep
<1>2. ASSUME NEW p \in Procs,
             \/ WorkflowTerminal(p) \/ StopMark(p) \/ Teardown(p) \/ StopDone(p)
             \/ \E s \in Used, b \in BoundIds : UnbindClient(p, s, b)
             \/ \E s \in Used : CleanupServiceResources(p, s)
             \/ CleanupHalts(p) \/ Reconcile(p) \/ ReconcileJudges(p)
      PROVE  Inv'
      BY <1>2, WorkflowTerminalStep, StopMarkStep, TeardownStep, StopDoneStep, UnbindClientStep,
         CleanupStep, CleanupHaltsStep, ReconcileStep, ReconcileJudgesStep
<1>3. ASSUME NEW s \in Used,
             \/ Fence(s)
             \/ \E b \in BoundIds : BindClient(s, b)
             \/ \E k \in Calls : CallTool(k, s)
      PROVE  Inv'
      BY <1>3, FenceStep, BindClientStep, CallToolStep
<1>4. ASSUME NEW k \in Calls, RegisterCall(k) \/ Dispatch(k) \/ CallEnds(k)
      PROVE  Inv'
      BY <1>4, RegisterCallStep, DispatchStep, CallEndsStep
<1>5. ASSUME NEW c \in Containers, ContainerExits(c)
      PROVE  Inv'
      BY <1>5, ContainerExitsStep
<1>6. ASSUME UNCHANGED vars
      PROVE  Inv'
  <2>1. UNCHANGED <<inst, tracker, box, job, call, faults>>
        BY <1>6 DEF vars
  <2> QED
      BY <2>1, CallStep, SameCalls
<1> QED
    BY <1>1, <1>2, <1>3, <1>4, <1>5, <1>6 DEF Next

(* In every state the registry can reach, what an operation remembers of    *)
(* its service, generation and container agrees with the instances and the  *)
(* containers, and no two Starts hold one generation.                       *)
THEOREM InvHolds == Spec => []Inv
BY Initially, Inductive, PTL DEF Spec

(* The registry's state is well formed: a capability is that of the         *)
(* instance's generation, a registered call has an id its tracker gave out, *)
(* an operation's container has been created.                               *)
THEOREM TypeCorrect == Spec => []TypeOK
<1>1. Inv => TypeOK
  <2> SUFFICES ASSUME Inv PROVE TypeOK
      OBVIOUS
  <2> USE ServiceAssumption
  <2>1. /\ inst \in [Services -> Instance \cup {None}] /\ Len(box) <= MaxContainers
        /\ faults \in 0..MaxFaults
        BY DEF Inv, TypeInv
  <2>2. \A s \in Services : inst[s] # None => inst[s].cap \in {0, inst[s].gen}
        BY DEF Inv, InstOK
  <2>3. ASSUME NEW s \in Services
        PROVE  /\ tracker[s].last \in 0..MaxCallIds
               /\ tracker[s].live \subseteq (1..tracker[s].last) \X Calls
    <3>1. tracker[s] \in Tracker
          BY DEF Inv, TypeInv
    <3> QED
        BY <3>1 DEF Tracker, Inv, CallsOK
  <2>4. \A c \in 1..Len(box) : box[c] \in Box
        BY DEF Inv, TypeInv
  <2>5. ASSUME NEW p \in Procs
        PROVE  /\ job[p].op \in Ops /\ job[p].at \in Places
               /\ job[p].gen \in 0..MaxGeneration
               /\ job[p].c \in 0..Len(box)
    <3>1. job[p] \in Job /\ JobOK(job[p], inst, box) /\ Len(box) \in Nat
          BY Here, Same
    <3>2. job[p].op \in Ops /\ job[p].at \in Places /\ job[p].gen \in 0..MaxGeneration
          BY <3>1 DEF Job
    <3>3. job[p].c \in Nat /\ job[p].c <= Len(box)
          BY <3>1 DEF Job, JobOK
    <3> QED
        BY <3>1, <3>2, <3>3
  <2>6. ASSUME NEW k \in Calls PROVE call[k].at \in {"idle", "resolved", "registered", "live"}
    <3>1. call[k] \in ToolCall
          BY DEF Inv, TypeInv
    <3> QED
        BY <3>1 DEF ToolCall
  <2> QED
      BY <2>1, <2>2, <2>3, <2>4, <2>5, <2>6 DEF TypeOK, Ops, Places, Box
<1> QED
    BY <1>1, InvHolds, PTL

(* Whoever starts, stops, cleans up or fails in between, no generation of a *)
(* service gets a second container (Start, createServiceContainer).         *)
THEOREM OneContainer == Spec => []OneContainerPerGeneration
<1>1. Inv => OneContainerPerGeneration
      BY DEF Inv
<1> QED
    BY <1>1, InvHolds, PTL

(* A READY service was made so by a Start of its own generation, whose      *)
(* container was attached to the service's network: a superseded Start      *)
(* never announces its successor (phase 4 of Start).                        *)
THEOREM ReadyAttached == Spec => []ReadyWasAttached
<1>1. Inv => ReadyWasAttached
      BY DEF Inv, InstOK, ReadyWasAttached
<1> QED
    BY <1>1, InvHolds, PTL

=============================================================================

--------------------------- MODULE AuditLogProofs ---------------------------
(***************************************************************************)
(* The audit log keeps what it acknowledged and is never reported as       *)
(* tampered with while no writer went on over a fault or a stale head: for *)
(* any number of writers, records and faults and any checkpoint cadence.   *)
(*                                                                         *)
(* An append may leave a record unterminated, so the chained part of the   *)
(* file may lose its last record when the next one lands on its line.      *)
(* What carries the proof is that a record that matters (acknowledged, or  *)
(* anchored by a checkpoint) always ends its line: see Anchored.           *)
(***************************************************************************)
EXTENDS AuditLog, WellFoundedInduction, TLAPS

WriterState  == [open : BOOLEAN, seq : 0..MaxRecords, hash : Hashes]
ManagerState == [cpSeq : Nat, prev : Nat, anchorSeq : 0..MaxRecords, anchorHash : Hashes]

(* No number is above the number of records ever written, and a record that *)
(* was acknowledged ends its line.                                          *)
Bounded ==
    /\ \A i \in 1..Len(file) : file[i].id <= written /\ file[i].seq <= written
    /\ \A w \in Writers : writer[w].seq <= written
    /\ \A id \in acked : id <= written
    /\ \A i \in 1..Len(file) : file[i].id \in acked => file[i].newline

(* File g is file f with one more record. *)
Grown(f, g) ==
    /\ g \in Seq(Chunk)
    /\ Len(g) = Len(f) + 1
    /\ \A i \in 1..Len(f) : g[i] = f[i]

(* Record n of the chain has hash h and ends its line. *)
Anchored(f, n, h) == n \in 1..ValidLength(f) /\ f[n].id = h /\ f[n].newline

(* A checkpoint's hash is its place, and it chains to the one before it.    *)
Linked ==
    \A i \in 1..Len(checkpoints) :
        /\ checkpoints[i].id = i
        /\ checkpoints[i].prev = IF i = 1 THEN 0 ELSE checkpoints[i-1].id
        /\ checkpoints[i].seq  = IF i = 1 THEN 1 ELSE checkpoints[i-1].seq + 1

(* The latest checkpoint anchors a record of the chain. *)
LastAnchored ==
    checkpoints # <<>> =>
        Anchored(file, checkpoints[Len(checkpoints)].anchorSeq,
                       checkpoints[Len(checkpoints)].anchorHash)

(* No checkpoint is cut short; it may have lost its newline. *)
WholeCheckpoints == \A i \in 1..Len(checkpoints) : checkpoints[i].whole

(* What an open daemon knows: its manager has the latest checkpoint, its    *)
(* head is a record of the chain, not necessarily the last one.             *)
DaemonKnows ==
    /\ Intact(file)
    /\ WholeCheckpoints
    /\ manager = LastCheckpoint
    /\ writer[Daemon].seq = 0 \/ Anchored(file, writer[Daemon].seq, writer[Daemon].hash)

Clean ==
    clean => /\ AckedIsChained
             /\ Linked
             /\ LastAnchored
             /\ writer[Daemon].open => DaemonKnows

Inv == TypeOK /\ Bounded /\ Clean

-----------------------------------------------------------------------------
(* The operators. *)

(* A set of natural numbers that is not empty has a least element. *)
LEMMA Least ==
    ASSUME NEW T, T \subseteq Nat, T # {}
    PROVE  \E x \in T : \A y \in T : x <= y
<1>1. PICK x \in T : \A y \in T : ~(<<y, x>> \in OpToRel(<, Nat))
  <2>1. IsWellFoundedOn(OpToRel(<, Nat), Nat)
        BY NatLessThanWellFounded
  <2> QED
      BY <2>1, WFMin
<1>2. \A y \in T : ~(y < x)
      BY <1>1 DEF OpToRel
<1> QED
    BY <1>2

(* The chained part is the longest one of which every line chains. *)
LEMMA ValidLengthIs ==
    ASSUME NEW f, Len(f) \in Nat
    PROVE  /\ ValidLength(f) \in 0..Len(f)
           /\ \A i \in 1..ValidLength(f) : Chains(f, i)
           /\ \A n \in 0..Len(f) : (\A i \in 1..n : Chains(f, i)) => n <= ValidLength(f)
<1> DEFINE S == {n \in 0..Len(f) : \A i \in 1..n : Chains(f, i)}
           T == {m \in 0..Len(f) : Len(f) - m \in S}
<1>1. 0 \in S
      OBVIOUS
<1>2. Len(f) \in T
      BY <1>1
<1>3. PICK m \in T : \A y \in T : m <= y
  <2>1. T \subseteq Nat /\ T # {}
        BY <1>2
  <2> HIDE DEF T
  <2> QED
      BY <2>1, Least
<1>4. Len(f) - m \in S /\ \A y \in S : Len(f) - m >= y
  <2>1. Len(f) - m \in S
        BY <1>3
  <2>2. ASSUME NEW y \in S PROVE Len(f) - m >= y
    <3>1. y \in 0..Len(f) /\ Len(f) - (Len(f) - y) = y /\ Len(f) - y \in 0..Len(f)
          BY <2>2
    <3>2. Len(f) - y \in T
          BY <2>2, <3>1
    <3>3. m <= Len(f) - y
          BY <1>3, <3>2
    <3> QED
        BY <3>1, <3>3
  <2> QED
      BY <2>1, <2>2
<1>5. ValidLength(f) = Max(S)
      BY DEF ValidLength
<1> HIDE DEF S
<1>6. Max(S) \in S /\ \A y \in S : Max(S) >= y
      BY <1>4 DEF Max
<1>7. ValidLength(f) \in S /\ \A y \in S : ValidLength(f) >= y
      BY <1>5, <1>6
<1> QED
    BY <1>7 DEF S

(* A line belongs to the chained part when it and all before it chain. *)
LEMMA InValid ==
    ASSUME NEW f, Len(f) \in Nat, NEW n \in 0..Len(f), \A i \in 1..n : Chains(f, i)
    PROVE  n <= ValidLength(f)
BY ValidLengthIs

(* A log is intact when every line chains. *)
LEMMA IntactIs ==
    ASSUME NEW f, Len(f) \in Nat
    PROVE  Intact(f) <=> \A i \in 1..Len(f) : Chains(f, i)
BY ValidLengthIs DEF Intact

(* In an intact log a record's number is its place. *)
LEMMA NumberIsPlace ==
    ASSUME NEW f \in Seq(Chunk), Intact(f), NEW i \in 1..Len(f)
    PROVE  f[i].seq = i
<1> DEFINE T == {j \in 1..Len(f) : f[j].seq # j}
<1>1. \A j \in 1..Len(f) : Chains(f, j)
      BY IntactIs
<1>2. ASSUME T # {} PROVE FALSE
  <2>1. PICK j \in T : \A k \in T : j <= k
    <3>1. T \subseteq Nat
          OBVIOUS
    <3> HIDE DEF T
    <3> QED
        BY <1>2, <3>1, Least
  <2>2. j # 1
    <3>1. Chains(f, j) /\ f[j].seq # j
          BY <1>1, <2>1
    <3> QED
        BY <3>1 DEF Chains
  <2>3. j - 1 \in 1..Len(f) /\ j - 1 \notin T
        BY <2>1, <2>2
  <2>4. f[j - 1].seq = j - 1
        BY <2>3
  <2>5. f[j].seq = f[j-1].seq + 1
        BY <1>1, <2>1, <2>2 DEF Chains
  <2> QED
      BY <2>1, <2>4, <2>5
<1> QED
    BY <1>2

(* Cutting the file behind its chained part makes it intact and loses       *)
(* nothing of the chained part.                                             *)
LEMMA Cut ==
    ASSUME NEW f \in Seq(Chunk), NEW g, g = SubSeq(f, 1, ValidLength(f))
    PROVE  /\ g \in Seq(Chunk)
           /\ Len(g) = ValidLength(f)
           /\ Len(g) <= Len(f)
           /\ \A i \in 1..Len(g) : g[i] = f[i]
           /\ Intact(g)
<1>1. Len(f) \in Nat /\ ValidLength(f) \in 0..Len(f) /\ \A i \in 1..ValidLength(f) : Chains(f, i)
      BY ValidLengthIs
<1> DEFINE n == ValidLength(f)
<1> HIDE DEF n
<1>2. g \in Seq(Chunk) /\ Len(g) = n /\ \A i \in 1..n : g[i] = f[i]
      BY <1>1 DEF n
<1>3. n \in 0..Len(f) /\ \A i \in 1..n : Chains(f, i)
      BY <1>1 DEF n
<1>4. ASSUME NEW i \in 1..n PROVE Chains(g, i)
  <2>1. Chains(f, i) /\ g[i] = f[i] /\ i \in 1..Len(f)
        BY <1>2, <1>3
  <2>2. i > 1 => i - 1 \in 1..n /\ g[i-1] = f[i-1]
        BY <1>2, <1>3
  <2>3. i < n => i < Len(f)
        BY <1>3
  <2> QED
      BY <1>2, <1>3, <2>1, <2>2, <2>3 DEF Chains
<1>5. Intact(g)
  <2>1. Len(g) \in Nat /\ \A i \in 1..Len(g) : Chains(g, i)
        BY <1>2, <1>3, <1>4
  <2> QED
      BY <2>1, IntactIs
<1> QED
    BY <1>1, <1>2, <1>3, <1>5 DEF n

(* An append does not cost the chain a record that ends its line. *)
LEMMA AppendKeeps ==
    ASSUME NEW f \in Seq(Chunk), NEW g, Grown(f, g), NEW n \in 1..ValidLength(f), f[n].newline
    PROVE  n \in 1..ValidLength(g) /\ g[n] = f[n]
<1>1. Len(f) \in Nat /\ ValidLength(f) \in 0..Len(f) /\ \A i \in 1..ValidLength(f) : Chains(f, i)
      BY ValidLengthIs
<1>2. g \in Seq(Chunk) /\ Len(g) = Len(f) + 1 /\ \A i \in 1..Len(f) : g[i] = f[i]
      BY DEF Grown
<1>3. n \in 1..Len(f) /\ n \in 0..Len(g)
      BY <1>1, <1>2
<1>4. ASSUME NEW i \in 1..n PROVE Chains(g, i)
  <2>1. Chains(f, i) /\ i \in 1..Len(f) /\ g[i] = f[i]
        BY <1>1, <1>2, <1>3
  <2>2. i > 1 => i - 1 \in 1..Len(f) /\ g[i-1] = f[i-1]
        BY <1>2, <1>3
  <2>3. f[i].newline
    <3>1. CASE i = n
          BY <3>1
    <3>2. CASE i < n
          BY <1>3, <2>1, <3>2 DEF Chains
    <3> QED
        BY <1>3, <3>1, <3>2
  <2> QED
      BY <1>2, <2>1, <2>2, <2>3 DEF Chains
<1>5. Len(g) \in Nat
      BY <1>1, <1>2
<1>6. n <= ValidLength(g) /\ ValidLength(g) \in Nat
      BY <1>3, <1>4, <1>5, InValid, ValidLengthIs
<1> QED
    BY <1>2, <1>3, <1>6

(* A record that continues the head of an intact, terminated log. *)
LEMMA AppendContinues ==
    ASSUME NEW f \in Seq(Chunk), NEW g, Grown(f, g), NEW c, g[Len(f) + 1] = c,
           Intact(f), ~OpenEnded(f), c.whole,
           c.seq = HeadOf(f).seq + 1, c.prev = HeadOf(f).hash
    PROVE  Intact(g) /\ HeadOf(f).seq = Len(f)
<1>1. Len(f) \in Nat /\ \A i \in 1..Len(f) : Chains(f, i)
      BY IntactIs
<1>2. /\ g \in Seq(Chunk) /\ Len(g) = Len(f) + 1 /\ g[Len(f) + 1] = c
      /\ \A i \in 1..Len(f) : g[i] = f[i]
      BY DEF Grown
<1>3. f # <<>> => Len(f) \in 1..Len(f) /\ f[Len(f)].newline
      BY DEF OpenEnded
<1>4. f = <<>> => Len(f) = 0
      OBVIOUS
<1>5. ASSUME NEW i \in 1..Len(f) PROVE Chains(g, i)
  <2>1. Chains(f, i) /\ g[i] = f[i]
        BY <1>1, <1>2
  <2>2. i > 1 => i - 1 \in 1..Len(f) /\ g[i-1] = f[i-1]
        BY <1>1, <1>2
  <2>3. f[i].newline
        BY <1>1, <1>3, <2>1 DEF Chains
  <2> QED
      BY <1>2, <2>1, <2>2, <2>3 DEF Chains
<1>6. Chains(g, Len(f) + 1)
  <2>1. CASE f = <<>>
        BY <1>2, <1>4, <2>1 DEF Chains, HeadOf
  <2>2. CASE f # <<>>
    <3>1. g[Len(f)] = f[Len(f)] /\ Len(f) + 1 > 1 /\ Len(f) + 1 - 1 = Len(f) /\ Len(f) + 1 # 1
          BY <1>1, <1>2, <1>3, <2>2
    <3>2. HeadOf(f).seq = f[Len(f)].seq /\ HeadOf(f).hash = f[Len(f)].id
          BY <2>2 DEF HeadOf
    <3> QED
        BY <1>1, <1>2, <1>3, <2>2, <3>1, <3>2 DEF Chains
  <2> QED
      BY <2>1, <2>2
<1>7. \A i \in 1..Len(g) : Chains(g, i)
      BY <1>1, <1>2, <1>5, <1>6
<1>8. Intact(g)
      BY <1>1, <1>2, <1>7, IntactIs
<1>9. HeadOf(f).seq = Len(f)
  <2>1. CASE f = <<>>
        BY <1>4, <2>1 DEF HeadOf
  <2>2. CASE f # <<>>
        BY <1>3, <2>2, NumberIsPlace DEF HeadOf
  <2> QED
      BY <2>1, <2>2
<1> QED
    BY <1>8, <1>9

(* What every kind of append does to the file. *)
Put(w, whole, newline) == file' = Append(file, Written(w, whole, newline))

(* A write to the file, whole or not: what the chain keeps. *)
LEMMA Writing ==
    ASSUME TypeOK, Bounded, NEW w \in Writers, written < MaxRecords,
           NEW whole \in BOOLEAN, NEW newline \in BOOLEAN, Put(w, whole, newline)
    PROVE  /\ Written(w, whole, newline) \in Chunk
           /\ file' \in Seq(Chunk)
           /\ Len(file) \in Nat /\ Len(file') = Len(file) + 1
           /\ file'[Len(file')] = Written(w, whole, newline)
           /\ \A i \in 1..Len(file) : file'[i] = file[i]
           /\ \A i \in 1..Len(file') :
                 file'[i].id <= written + 1 /\ file'[i].seq <= written + 1
           /\ \A i \in 1..Len(file') : file'[i].id \in acked => file'[i].newline
           /\ \A n, h : Anchored(file, n, h) => Anchored(file', n, h)
           /\ acked \cap ChainedIds(file) \subseteq ChainedIds(file')
<1> USE AuditAssumption
<1> DEFINE c == Written(w, whole, newline)
<1>1. /\ writer[w].seq \in 0..MaxRecords /\ writer[w].hash \in Hashes /\ writer[w].seq <= written
      /\ written \in 0..MaxRecords
      BY DEF TypeOK, Bounded
<1>2. written + 1 \in Records /\ writer[w].seq + 1 \in Records /\ writer[w].seq + 1 <= written + 1
      BY <1>1 DEF Records
<1>3. c \in Chunk
      BY <1>1, <1>2 DEF Written, Chunk
<1>4. c.id = written + 1 /\ c.seq <= written + 1
      BY <1>2 DEF Written
<1> HIDE DEF c
<1>5. /\ file \in Seq(Chunk) /\ Len(file) \in Nat /\ file' \in Seq(Chunk)
      /\ Len(file') = Len(file) + 1 /\ file'[Len(file) + 1] = c
      /\ \A i \in 1..Len(file) : file'[i] = file[i]
      /\ Grown(file, file')
      BY <1>3 DEF TypeOK, c, Put, Grown
<1>6. ASSUME NEW i \in 1..Len(file')
      PROVE  /\ file'[i].id <= written + 1 /\ file'[i].seq <= written + 1
             /\ file'[i].id \in acked => file'[i].newline
  <2>1. CASE i \in 1..Len(file)
    <3>1. file'[i] = file[i] /\ file[i] \in Chunk
          BY <1>5, <2>1
    <3>2. file[i].id \in Nat /\ file[i].seq \in Nat
          BY <3>1 DEF Chunk, Records
    <3>3. file[i].id <= written /\ file[i].seq <= written
          BY <2>1 DEF Bounded
    <3>4. file[i].id \in acked => file[i].newline
          BY <2>1 DEF Bounded
    <3> QED
        BY <1>1, <3>1, <3>2, <3>3, <3>4
  <2>2. CASE i = Len(file) + 1
    <3>1. file'[i] = c
          BY <1>5, <2>2
    <3>2. c.id \notin acked
          BY <1>1, <1>4 DEF Bounded
    <3>3. c.id <= written + 1
          BY <1>1, <1>4
    <3> QED
        BY <1>4, <3>1, <3>2, <3>3
  <2> QED
      BY <1>5, <2>1, <2>2
<1>7. \A n, h : Anchored(file, n, h) => Anchored(file', n, h)
      BY <1>5, AppendKeeps DEF Anchored
<1>8. acked \cap ChainedIds(file) \subseteq ChainedIds(file')
  <2> SUFFICES ASSUME NEW id \in acked, id \in ChainedIds(file) PROVE id \in ChainedIds(file')
      OBVIOUS
  <2>1. PICK i \in 1..ValidLength(file) : file[i].id = id
        BY DEF ChainedIds
  <2>2. i \in 1..Len(file)
        BY <1>5, <2>1, ValidLengthIs
  <2>3. file[i].newline
        BY <2>1, <2>2 DEF Bounded
  <2>4. i \in 1..ValidLength(file') /\ file'[i] = file[i]
        BY <1>5, <2>1, <2>3, AppendKeeps
  <2> QED
      BY <2>1, <2>4 DEF ChainedIds
<1> QED
    BY <1>3, <1>5, <1>6, <1>7, <1>8 DEF c

(* A checkpoint that is written with what the manager knows. *)
LEMMA NewCheckpoint ==
    ASSUME TypeOK, NEW seq \in 0..MaxRecords, NEW hash \in Hashes, NEW whole \in BOOLEAN,
           NEW newline \in BOOLEAN,
           checkpoints' = Append(checkpoints, CheckpointLine(seq, hash, whole, newline))
    PROVE  /\ checkpoints' \in Seq(Checkpoint)
           /\ checkpoints' # <<>>
           /\ checkpoints'[Len(checkpoints')].anchorSeq = seq
           /\ checkpoints'[Len(checkpoints')].anchorHash = hash
           /\ LastCheckpoint' = [cpSeq |-> manager.cpSeq + 1, prev |-> Len(checkpoints) + 1,
                                 anchorSeq |-> seq, anchorHash |-> hash]
           /\ WholeCheckpoints /\ whole => WholeCheckpoints'
           /\ Linked /\ manager = LastCheckpoint => Linked'
<1> USE AuditAssumption
<1> DEFINE l == CheckpointLine(seq, hash, whole, newline)
<1>1. /\ manager.cpSeq \in Nat /\ manager.prev \in Nat /\ checkpoints \in Seq(Checkpoint)
      /\ Len(checkpoints) \in Nat
      BY DEF TypeOK
<1>2. l \in Checkpoint
      BY <1>1 DEF CheckpointLine, Checkpoint
<1>3. /\ l.id = Len(checkpoints) + 1 /\ l.seq = manager.cpSeq + 1 /\ l.prev = manager.prev
      /\ l.anchorSeq = seq /\ l.anchorHash = hash /\ l.whole = whole
      BY DEF CheckpointLine
<1> HIDE DEF l
<1>4. /\ checkpoints' \in Seq(Checkpoint) /\ Len(checkpoints') = Len(checkpoints) + 1
      /\ checkpoints'[Len(checkpoints) + 1] = l /\ checkpoints' # <<>>
      /\ \A i \in 1..Len(checkpoints) : checkpoints'[i] = checkpoints[i]
      BY <1>1, <1>2 DEF l
<1>5. LastCheckpoint' = [cpSeq |-> manager.cpSeq + 1, prev |-> Len(checkpoints) + 1,
                         anchorSeq |-> seq, anchorHash |-> hash]
      BY <1>3, <1>4 DEF LastCheckpoint
<1>6. ASSUME WholeCheckpoints, whole PROVE WholeCheckpoints'
  <2> SUFFICES ASSUME NEW i \in 1..Len(checkpoints') PROVE checkpoints'[i].whole
      BY DEF WholeCheckpoints
  <2>1. CASE i \in 1..Len(checkpoints)
        BY <1>4, <1>6, <2>1 DEF WholeCheckpoints
  <2>2. CASE i = Len(checkpoints) + 1
        BY <1>3, <1>4, <1>6, <2>2
  <2> QED
      BY <1>1, <1>4, <2>1, <2>2
<1>7. ASSUME Linked, manager = LastCheckpoint PROVE Linked'
  <2> SUFFICES ASSUME NEW i \in 1..Len(checkpoints')
               PROVE  /\ checkpoints'[i].id = i
                      /\ checkpoints'[i].prev = IF i = 1 THEN 0 ELSE checkpoints'[i-1].id
                      /\ checkpoints'[i].seq  = IF i = 1 THEN 1 ELSE checkpoints'[i-1].seq + 1
      BY DEF Linked
  <2>1. CASE i \in 1..Len(checkpoints)
    <3>1. i # 1 => checkpoints'[i-1] = checkpoints[i-1]
          BY <1>1, <1>4, <2>1
    <3> QED
        BY <1>4, <1>7, <2>1, <3>1 DEF Linked
  <2>2. CASE i = Len(checkpoints) + 1
    <3>1. CASE checkpoints = <<>>
      <4>1. i = 1 /\ manager.cpSeq = 0 /\ manager.prev = 0
            BY <1>7, <2>2, <3>1 DEF LastCheckpoint, NoCheckpoint
      <4> QED
          BY <1>3, <1>4, <2>2, <4>1
    <3>2. CASE checkpoints # <<>>
      <4>1. /\ i # 1 /\ i - 1 = Len(checkpoints) /\ Len(checkpoints) \in 1..Len(checkpoints)
            /\ checkpoints'[i-1] = checkpoints[Len(checkpoints)]
            BY <1>1, <1>4, <2>2, <3>2
      <4>2. /\ manager.cpSeq = checkpoints[Len(checkpoints)].seq
            /\ manager.prev = checkpoints[Len(checkpoints)].id
            BY <1>7, <3>2 DEF LastCheckpoint
      <4> QED
          BY <1>3, <1>4, <2>2, <4>1, <4>2
    <3> QED
        BY <3>1, <3>2
  <2> QED
      BY <1>1, <1>4, <2>1, <2>2
<1> QED
    BY <1>3, <1>4, <1>5, <1>6, <1>7

(* A whole record put down by a writer whose head is the file's. *)
LEMMA Continues ==
    ASSUME TypeOK, Bounded, NEW w \in Writers, written < MaxRecords,
           NEW newline \in BOOLEAN, Put(w, TRUE, newline), Current(w)
    PROVE  /\ Intact(file')
           /\ newline => Anchored(file', writer[w].seq + 1, written + 1)
<1> DEFINE c == Written(w, TRUE, newline)
<1>1. /\ file \in Seq(Chunk) /\ file' \in Seq(Chunk) /\ Len(file) \in Nat
      /\ Len(file') = Len(file) + 1 /\ file'[Len(file')] = c
      /\ \A i \in 1..Len(file) : file'[i] = file[i]
      BY Writing DEF TypeOK
<1>2. Grown(file, file')
      BY <1>1 DEF Grown
<1>3. /\ c.whole /\ c.seq = writer[w].seq + 1 /\ c.prev = writer[w].hash /\ c.id = written + 1
      /\ c.newline = newline
      BY DEF Written
<1>4. Intact(file) /\ ~OpenEnded(file) /\ writer[w] = HeadOf(file)
      BY DEF Current
<1> HIDE DEF c
<1>5. file'[Len(file) + 1] = c /\ c.seq = HeadOf(file).seq + 1 /\ c.prev = HeadOf(file).hash
      BY <1>1, <1>3, <1>4
<1>6. Intact(file') /\ HeadOf(file).seq = Len(file)
      BY <1>1, <1>2, <1>3, <1>4, <1>5, AppendContinues
<1>7. writer[w].seq + 1 = Len(file') /\ Len(file') \in 1..ValidLength(file')
      BY <1>1, <1>4, <1>6 DEF Intact
<1>8. ASSUME newline PROVE Anchored(file', writer[w].seq + 1, written + 1)
      BY <1>1, <1>3, <1>7, <1>8 DEF Anchored
<1> QED
    BY <1>6, <1>8

-----------------------------------------------------------------------------
(* The invariant is inductive. *)

(* An empty log. *)
LEMMA Initially == Init => Inv
<1> SUFFICES ASSUME Init PROVE Inv
    OBVIOUS
<1> USE AuditAssumption DEF Init
<1>1. TypeOK
  <2>1. Closed \in WriterState /\ NoCheckpoint \in ManagerState
        BY DEF Closed, WriterState, NoCheckpoint, ManagerState, Hashes
  <2> QED
      BY <2>1 DEF TypeOK, WriterState, ManagerState
<1>2. Bounded
      BY DEF Bounded, Closed
<1>3. Daemon \in Writers /\ ~writer[Daemon].open
      BY DEF Writers, Closed
<1>4. Clean
      BY <1>3 DEF Clean, AckedIsChained, Linked, LastAnchored
<1> QED
    BY <1>1, <1>2, <1>4 DEF Inv

(* Append succeeds, its checkpoint included, or the checkpoint fails. *)
LEMMA AppendRecordStep ==
    ASSUME Inv, NEW w \in Writers, AppendRecord(w) PROVE Inv'
<1> USE AuditAssumption
<1> DEFINE seq == writer[w].seq + 1
           due == w = Daemon /\ ShouldCheckpoint(seq)
<1>0. TypeOK /\ Bounded /\ Clean
      BY DEF Inv
<1>1. /\ writer[w].open /\ written < MaxRecords /\ Put(w, TRUE, TRUE)
      /\ writer' = [writer EXCEPT ![w] = NextHead(w)] /\ written' = written + 1
      BY DEF AppendRecord, Put
<1>2. \/ /\ IF due THEN CreateCheckpoint(seq, written + 1) ELSE UNCHANGED <<checkpoints, manager>>
         /\ acked' = acked \cup {written + 1}
         /\ clean' = (clean /\ Current(w))
         /\ UNCHANGED faults
      \/ /\ faults < MaxFaults /\ faults' = faults + 1
         /\ CheckpointFails(seq, written + 1)
         /\ clean' = FALSE
         /\ UNCHANGED acked
      BY DEF AppendRecord
<1>3. /\ writer[w].seq \in 0..MaxRecords /\ writer[w].seq <= written
      /\ written \in 0..MaxRecords /\ written + 1 \in Records /\ written + 1 \in Hashes
      /\ seq \in 0..MaxRecords /\ seq <= written + 1
      BY <1>0, <1>1 DEF TypeOK, Bounded, Records, Hashes
<1>4. /\ file' \in Seq(Chunk) /\ Len(file) \in Nat /\ Len(file') = Len(file) + 1
      /\ \A i \in 1..Len(file) : file'[i] = file[i]
      /\ file'[Len(file')] = Written(w, TRUE, TRUE)
      /\ \A i \in 1..Len(file') : file'[i].id <= written + 1 /\ file'[i].seq <= written + 1
      /\ \A i \in 1..Len(file') : file'[i].id \in acked => file'[i].newline
      /\ \A n, h : Anchored(file, n, h) => Anchored(file', n, h)
      /\ acked \cap ChainedIds(file) \subseteq ChainedIds(file')
      BY <1>0, <1>1, Writing
<1>5. /\ NextHead(w) \in WriterState /\ NextHead(w).seq = seq /\ NextHead(w).hash = written + 1
      /\ NextHead(w).open
      BY <1>3 DEF NextHead, WriterState
<1>6. /\ writer' \in [Writers -> WriterState]
      /\ \A x \in Writers : writer'[x] = IF x = w THEN NextHead(w) ELSE writer[x]
  <2>1. writer \in [Writers -> WriterState]
        BY <1>0 DEF TypeOK, WriterState
  <2> QED
      BY <1>1, <1>5, <2>1
<1> HIDE DEF seq, due
<1>7. ASSUME CreateCheckpoint(seq, written + 1)
      PROVE  /\ checkpoints' \in Seq(Checkpoint) /\ manager' \in ManagerState
             /\ checkpoints' # <<>>
             /\ checkpoints'[Len(checkpoints')].anchorSeq = seq
             /\ checkpoints'[Len(checkpoints')].anchorHash = written + 1
             /\ manager' = LastCheckpoint'
             /\ WholeCheckpoints => WholeCheckpoints'
             /\ Linked /\ manager = LastCheckpoint => Linked'
  <2>1. /\ checkpoints' = Append(checkpoints, CheckpointLine(seq, written + 1, TRUE, TRUE))
        /\ manager' = [cpSeq |-> manager.cpSeq + 1, prev |-> Len(checkpoints) + 1,
                       anchorSeq |-> seq, anchorHash |-> written + 1]
        BY <1>7 DEF CreateCheckpoint
  <2>2. /\ checkpoints' \in Seq(Checkpoint) /\ checkpoints' # <<>>
        /\ checkpoints'[Len(checkpoints')].anchorSeq = seq
        /\ checkpoints'[Len(checkpoints')].anchorHash = written + 1
        /\ manager' = LastCheckpoint'
        /\ WholeCheckpoints => WholeCheckpoints'
        /\ Linked /\ manager = LastCheckpoint => Linked'
        BY <1>0, <1>3, <2>1, NewCheckpoint
  <2>3. manager' \in ManagerState
    <3>1. manager.cpSeq \in Nat /\ Len(checkpoints) \in Nat
          BY <1>0 DEF TypeOK
    <3> QED
        BY <1>3, <2>1, <3>1 DEF ManagerState
  <2> QED
      BY <2>2, <2>3
<1>8. ASSUME CheckpointFails(seq, written + 1)
      PROVE  checkpoints' \in Seq(Checkpoint) /\ UNCHANGED manager
  <2>1. UNCHANGED manager /\ (UNCHANGED checkpoints \/ CutCheckpoint(seq, written + 1))
        BY <1>8 DEF CheckpointFails
  <2>2. CASE UNCHANGED checkpoints
        BY <1>0, <2>1, <2>2 DEF TypeOK
  <2>3. CASE CutCheckpoint(seq, written + 1)
    <3>1. PICK whole \in BOOLEAN, newline \in BOOLEAN :
             checkpoints' = Append(checkpoints, CheckpointLine(seq, written + 1, whole, newline))
          BY <2>3 DEF CutCheckpoint
    <3> QED
        BY <1>0, <1>3, <2>1, <3>1, NewCheckpoint
  <2> QED
      BY <2>1, <2>2, <2>3
<1>9. TypeOK'
  <2>1. checkpoints' \in Seq(Checkpoint) /\ manager' \in ManagerState
        BY <1>0, <1>2, <1>7, <1>8 DEF TypeOK, ManagerState
  <2>2. acked' \subseteq Records /\ faults' \in 0..MaxFaults /\ written' \in 0..MaxRecords
    <3>1. acked \subseteq Records /\ faults \in 0..MaxFaults
          BY <1>0 DEF TypeOK
    <3>2. acked' \subseteq Records
          BY <1>2, <1>3, <3>1
    <3>3. faults' = faults \/ (faults < MaxFaults /\ faults' = faults + 1)
          BY <1>2
    <3>4. faults' \in 0..MaxFaults
          BY <3>1, <3>3
    <3>5. written' \in 0..MaxRecords
          BY <1>1, <1>3
    <3> QED
        BY <3>2, <3>4, <3>5
  <2>3. clean' \in BOOLEAN
    <3>1. (clean /\ Current(w)) \in BOOLEAN
          OBVIOUS
    <3>2. ASSUME clean' = (clean /\ Current(w)) PROVE clean' \in BOOLEAN
          BY <3>1, <3>2, Zenon
    <3>3. ASSUME clean' = FALSE PROVE clean' \in BOOLEAN
          BY <3>3
    <3> QED
        BY <1>2, <3>2, <3>3
  <2> QED
      BY <1>4, <1>6, <2>1, <2>2, <2>3 DEF TypeOK, WriterState, ManagerState
<1>10. Bounded'
  <2>1. \A x \in Writers : writer'[x].seq <= written'
    <3> TAKE x \in Writers
    <3>1. CASE x = w
          BY <1>1, <1>3, <1>5, <1>6, <3>1
    <3>2. CASE x # w
      <4>1. writer'[x] = writer[x] /\ writer[x].seq <= written /\ writer[x].seq \in 0..MaxRecords
            BY <1>0, <1>6, <3>2 DEF Bounded, TypeOK
      <4> QED
          BY <1>1, <1>3, <4>1
    <3> QED
        BY <3>1, <3>2
  <2>2. \A id \in acked' : id <= written'
    <3>1. acked \subseteq 1..MaxRecords
          BY <1>0, AuditAssumption DEF TypeOK, Records
    <3>2. \A id \in acked : id <= written
          BY <1>0 DEF Bounded
    <3>3. \A id \in acked : id \in Nat /\ id <= written
          BY <3>1, <3>2
    <3> QED
        BY <1>1, <1>2, <1>3, <3>3
  <2>3. \A i \in 1..Len(file') : file'[i].id \in acked' => file'[i].newline
    <3> SUFFICES ASSUME NEW i \in 1..Len(file'), file'[i].id = written + 1 PROVE file'[i].newline
        BY <1>2, <1>4
    <3>1. CASE i \in 1..Len(file)
      <4>1. file'[i] = file[i] /\ file[i].id <= written
            BY <1>0, <1>4, <3>1 DEF Bounded
      <4> QED
          BY <1>3, <4>1
    <3>2. CASE i = Len(file')
          BY <1>4, <3>2 DEF Written
    <3> QED
        BY <1>4, <3>1, <3>2
  <2> QED
      BY <1>1, <1>4, <2>1, <2>2, <2>3 DEF Bounded
<1>11. Clean'
  <2> SUFFICES ASSUME clean' PROVE Clean'
      BY DEF Clean
  <2>1. /\ clean /\ Current(w) /\ acked' = acked \cup {written + 1}
        /\ IF due THEN CreateCheckpoint(seq, written + 1) ELSE UNCHANGED <<checkpoints, manager>>
        BY <1>2
  <2>2. /\ acked \subseteq ChainedIds(file) /\ Linked /\ LastAnchored
        /\ writer[Daemon].open => DaemonKnows
        BY <1>0, <2>1 DEF Clean, AckedIsChained
  <2>3. Intact(file') /\ Anchored(file', seq, written + 1)
        BY <1>0, <1>1, <2>1, Continues DEF seq
  <2>4. AckedIsChained'
    <3>1. written + 1 \in ChainedIds(file')
          BY <2>3 DEF Anchored, ChainedIds
    <3> QED
        BY <1>4, <2>1, <2>2, <3>1 DEF AckedIsChained
  <2>5. due => w = Daemon /\ DaemonKnows
        BY <1>1, <2>2 DEF due
  <2>6. Linked'
    <3>1. CASE due
          BY <1>7, <2>1, <2>2, <2>5, <3>1 DEF DaemonKnows
    <3>2. CASE ~due
          BY <2>1, <2>2, <3>2 DEF Linked
    <3> QED
        BY <3>1, <3>2
  <2>7. LastAnchored'
    <3>1. CASE due
          BY <1>7, <2>1, <2>3, <3>1 DEF LastAnchored
    <3>2. CASE ~due
          BY <1>4, <2>1, <2>2, <3>2 DEF LastAnchored
    <3> QED
        BY <3>1, <3>2
  <2>8. ASSUME writer'[Daemon].open PROVE DaemonKnows'
    <3>0. Daemon \in Writers
          BY DEF Writers
    <3>1. CASE w = Daemon
      <4>1. DaemonKnows /\ writer'[Daemon] = NextHead(w)
            BY <1>1, <1>6, <2>2, <3>0, <3>1
      <4>2. WholeCheckpoints' /\ manager' = LastCheckpoint'
        <5>1. CASE due
              BY <1>7, <2>1, <4>1, <5>1 DEF DaemonKnows
        <5>2. CASE ~due
              BY <2>1, <4>1, <5>2 DEF DaemonKnows, WholeCheckpoints, LastCheckpoint
        <5> QED
            BY <5>1, <5>2
      <4> QED
          BY <1>5, <2>3, <4>1, <4>2 DEF DaemonKnows
    <3>2. CASE w # Daemon
      <4>1. writer'[Daemon] = writer[Daemon] /\ UNCHANGED <<checkpoints, manager>>
            BY <1>6, <2>1, <3>0, <3>2 DEF due
      <4>2. DaemonKnows
            BY <2>2, <2>8, <4>1
      <4> QED
          BY <1>4, <2>3, <4>1, <4>2 DEF DaemonKnows, WholeCheckpoints, LastCheckpoint
    <3> QED
        BY <3>1, <3>2
  <2> QED
      BY <2>4, <2>6, <2>7, <2>8 DEF Clean
<1> QED
    BY <1>9, <1>10, <1>11 DEF Inv

(* A step that puts down a record and acknowledges nothing. *)
LEMMA PutStep ==
    ASSUME Inv, NEW w \in Writers, written < MaxRecords, written' = written + 1,
           NEW whole \in BOOLEAN, NEW newline \in BOOLEAN, Put(w, whole, newline),
           faults < MaxFaults, faults' = faults + 1, clean' \in BOOLEAN, UNCHANGED acked,
           writer' \in [Writers -> WriterState], checkpoints' \in Seq(Checkpoint),
           manager' \in ManagerState, \A x \in Writers : writer'[x].seq <= written
    PROVE  TypeOK' /\ Bounded'
<1> USE AuditAssumption
<1>0. TypeOK /\ Bounded
      BY DEF Inv
<1>1. /\ file' \in Seq(Chunk)
      /\ \A i \in 1..Len(file') : file'[i].id <= written + 1 /\ file'[i].seq <= written + 1
      /\ \A i \in 1..Len(file') : file'[i].id \in acked => file'[i].newline
      BY <1>0, Writing
<1>2. written \in 0..MaxRecords /\ written' \in 0..MaxRecords /\ faults' \in 0..MaxFaults
      BY <1>0 DEF TypeOK
<1>3. TypeOK'
      BY <1>0, <1>1, <1>2 DEF TypeOK, WriterState, ManagerState
<1>4. \A x \in Writers : writer'[x].seq <= written'
  <2> TAKE x \in Writers
  <2>1. writer'[x].seq \in 0..MaxRecords
        BY DEF WriterState
  <2> QED
      BY <1>2, <2>1
<1>5. \A id \in acked' : id <= written'
      BY <1>0, <1>2 DEF TypeOK, Bounded, Records
<1>6. Bounded'
      BY <1>1, <1>4, <1>5 DEF Bounded
<1> QED
    BY <1>3, <1>6

(* A write or a sync fails. *)
LEMMA AppendFailsStep ==
    ASSUME Inv, NEW w \in Writers, AppendFails(w) PROVE Inv'
<1>1. /\ written < MaxRecords /\ written' = written + 1 /\ faults < MaxFaults
      /\ faults' = faults + 1 /\ clean' = FALSE /\ UNCHANGED <<checkpoints, writer, manager, acked>>
      BY DEF AppendFails
<1>2. PICK whole \in BOOLEAN, newline \in BOOLEAN : Put(w, whole, newline)
      BY DEF AppendFails, Put
<1>3. /\ writer' \in [Writers -> WriterState] /\ checkpoints' \in Seq(Checkpoint)
      /\ manager' \in ManagerState /\ clean' \in BOOLEAN
      /\ \A x \in Writers : writer'[x].seq <= written
      BY <1>1 DEF Inv, TypeOK, Bounded, WriterState, ManagerState
<1>4. TypeOK' /\ Bounded'
      BY <1>1, <1>2, <1>3, PutStep
<1>5. Clean'
      BY <1>1 DEF Clean
<1> QED
    BY <1>4, <1>5 DEF Inv

(* A writer that is closed. *)
LEMMA Closing ==
    ASSUME TypeOK, Bounded, NEW w \in Writers, writer' = [writer EXCEPT ![w] = Closed]
    PROVE  /\ writer' \in [Writers -> WriterState]
           /\ \A x \in Writers : writer'[x].seq <= written
           /\ \A x \in Writers : writer'[x] = IF x = w THEN Closed ELSE writer[x]
           /\ ~Closed.open /\ Daemon \in Writers
<1> USE AuditAssumption
<1>1. /\ Closed \in WriterState /\ Closed.seq = 0 /\ ~Closed.open
      /\ writer \in [Writers -> WriterState]
      /\ 0 <= written
      BY DEF Closed, WriterState, TypeOK, Hashes
<1>2. \A x \in Writers : writer'[x] = IF x = w THEN Closed ELSE writer[x]
      BY <1>1
<1>3. writer' \in [Writers -> WriterState]
      BY <1>1
<1>4. \A x \in Writers : writer'[x].seq <= written
      BY <1>1, <1>2 DEF Bounded
<1> QED
    BY <1>1, <1>2, <1>3, <1>4 DEF Writers

(* The process dies while it appends. *)
LEMMA CrashInAppendStep ==
    ASSUME Inv, NEW w \in Writers, CrashInAppend(w) PROVE Inv'
<1> USE AuditAssumption
<1> DEFINE seq == writer[w].seq + 1
<1>0. TypeOK /\ Bounded /\ Clean
      BY DEF Inv
<1>1. /\ writer[w].open /\ written < MaxRecords /\ written' = written + 1 /\ faults < MaxFaults
      /\ faults' = faults + 1 /\ writer' = [writer EXCEPT ![w] = Closed]
      /\ UNCHANGED <<manager, acked>>
      BY DEF CrashInAppend
<1>2. PICK whole \in BOOLEAN, newline \in BOOLEAN :
         /\ newline => whole
         /\ Put(w, whole, newline)
         /\ \/ UNCHANGED checkpoints
            \/ /\ newline /\ w = Daemon
               /\ CutCheckpoint(seq, written + 1)
         /\ clean' = (clean /\ Current(w) /\ (w = Daemon \/ whole))
      BY DEF CrashInAppend, Put
<1>3. /\ seq \in 0..MaxRecords /\ written + 1 \in Hashes
      BY <1>0, <1>1 DEF TypeOK, Bounded, Records, Hashes
<1>4. /\ writer' \in [Writers -> WriterState]
      /\ \A x \in Writers : writer'[x].seq <= written
      /\ \A x \in Writers : writer'[x] = IF x = w THEN Closed ELSE writer[x]
      /\ ~Closed.open /\ Daemon \in Writers
      BY <1>0, <1>1, Closing
<1> HIDE DEF seq
<1>5. CASE UNCHANGED checkpoints
  <2>1. TypeOK' /\ Bounded'
    <3>1. checkpoints' \in Seq(Checkpoint) /\ manager' \in ManagerState
          BY <1>0, <1>1, <1>5 DEF TypeOK, ManagerState
    <3>2. (clean /\ Current(w) /\ (w = Daemon \/ whole)) \in BOOLEAN
          OBVIOUS
    <3>3. clean' \in BOOLEAN
          BY <1>2, <3>2, Zenon
    <3> QED
        BY <1>1, <1>2, <1>4, <3>1, <3>3, PutStep
  <2>2. Clean'
    <3> SUFFICES ASSUME clean' PROVE Clean'
        BY DEF Clean
    <3>1. clean /\ Current(w) /\ (w = Daemon \/ whole)
          BY <1>2
    <3>2. /\ acked \subseteq ChainedIds(file) /\ Linked /\ LastAnchored
          /\ writer[Daemon].open => DaemonKnows
          BY <1>0, <3>1 DEF Clean, AckedIsChained
    <3>3. /\ \A n, h : Anchored(file, n, h) => Anchored(file', n, h)
          /\ acked \cap ChainedIds(file) \subseteq ChainedIds(file')
          BY <1>0, <1>1, <1>2, Writing
    <3>4. AckedIsChained'
          BY <1>1, <3>2, <3>3 DEF AckedIsChained
    <3>5. Linked' /\ LastAnchored'
          BY <1>5, <3>2, <3>3 DEF Linked, LastAnchored
    <3>6. ASSUME writer'[Daemon].open PROVE DaemonKnows'
      <4>1. w # Daemon /\ writer'[Daemon] = writer[Daemon]
            BY <1>4, <3>6
      <4>2. whole = TRUE
            BY <3>1, <4>1
      <4>3. Put(w, TRUE, newline)
            BY <1>2, <4>2
      <4>4. Intact(file')
            BY <1>0, <1>1, <3>1, <4>3, Continues
      <4>5. DaemonKnows
            BY <3>2, <3>6, <4>1
      <4> QED
          BY <1>1, <1>5, <3>3, <4>1, <4>4, <4>5 DEF DaemonKnows, WholeCheckpoints, LastCheckpoint
    <3> QED
        BY <3>4, <3>5, <3>6 DEF Clean
  <2> QED
      BY <2>1, <2>2 DEF Inv
<1>6. CASE /\ newline /\ w = Daemon
           /\ CutCheckpoint(seq, written + 1)
  <2>1. /\ checkpoints' \in Seq(Checkpoint) /\ checkpoints' # <<>>
        /\ checkpoints'[Len(checkpoints')].anchorSeq = seq
        /\ checkpoints'[Len(checkpoints')].anchorHash = written + 1
        /\ Linked /\ manager = LastCheckpoint => Linked'
    <3>1. PICK parsed \in BOOLEAN, ended \in BOOLEAN :
             checkpoints' = Append(checkpoints, CheckpointLine(seq, written + 1, parsed, ended))
          BY <1>6 DEF CutCheckpoint
    <3> QED
        BY <1>0, <1>3, <3>1, NewCheckpoint
  <2>2. TypeOK' /\ Bounded'
    <3>1. manager' \in ManagerState
          BY <1>0, <1>1 DEF TypeOK, ManagerState
    <3>2. (clean /\ Current(w) /\ (w = Daemon \/ whole)) \in BOOLEAN
          OBVIOUS
    <3>3. clean' \in BOOLEAN
          BY <1>2, <3>2, Zenon
    <3> QED
        BY <1>1, <1>2, <1>4, <2>1, <3>1, <3>3, PutStep
  <2>3. Clean'
    <3> SUFFICES ASSUME clean' PROVE Clean'
        BY DEF Clean
    <3>1. clean /\ Current(w)
          BY <1>2
    <3>2. whole = TRUE /\ newline = TRUE
          BY <1>2, <1>6
    <3>3. Put(w, TRUE, TRUE)
          BY <1>2, <3>2
    <3>4. /\ acked \subseteq ChainedIds(file) /\ Linked /\ DaemonKnows
          BY <1>0, <1>1, <1>6, <3>1 DEF Clean, AckedIsChained
    <3>5. acked \cap ChainedIds(file) \subseteq ChainedIds(file')
          BY <1>0, <1>1, <1>2, Writing
    <3>6. AckedIsChained'
          BY <1>1, <3>4, <3>5 DEF AckedIsChained
    <3>7. Anchored(file', seq, written + 1)
          BY <1>0, <1>1, <3>1, <3>3, Continues DEF seq
    <3>8. Linked' /\ LastAnchored'
          BY <2>1, <3>4, <3>7 DEF LastAnchored, DaemonKnows
    <3>9. ~writer'[Daemon].open
          BY <1>4, <1>6
    <3> QED
        BY <3>6, <3>8, <3>9 DEF Clean
  <2> QED
      BY <2>2, <2>3 DEF Inv
<1> QED
    BY <1>2, <1>5, <1>6

(* Crash between two appends. *)
LEMMA CrashStep ==
    ASSUME Inv, NEW w \in Writers, Crash(w) PROVE Inv'
<1> USE AuditAssumption
<1>0. TypeOK /\ Bounded /\ Clean
      BY DEF Inv
<1>1. /\ faults < MaxFaults /\ faults' = faults + 1 /\ writer' = [writer EXCEPT ![w] = Closed]
      /\ UNCHANGED <<file, checkpoints, manager, written, acked, clean>>
      BY DEF Crash
<1>2. /\ writer' \in [Writers -> WriterState]
      /\ \A x \in Writers : writer'[x].seq <= written
      /\ \A x \in Writers : writer'[x] = IF x = w THEN Closed ELSE writer[x]
      /\ ~Closed.open /\ Daemon \in Writers
      BY <1>0, <1>1, Closing
<1>3. TypeOK'
      BY <1>0, <1>1, <1>2 DEF TypeOK, WriterState
<1>4. Bounded'
      BY <1>0, <1>1, <1>2 DEF Bounded
<1>5. Clean'
  <2> SUFFICES ASSUME clean' PROVE Clean'
      BY DEF Clean
  <2>1. AckedIsChained /\ Linked /\ LastAnchored /\ (writer[Daemon].open => DaemonKnows)
        BY <1>0, <1>1 DEF Clean
  <2>2. AckedIsChained' /\ Linked' /\ LastAnchored'
        BY <1>1, <2>1 DEF AckedIsChained, Linked, LastAnchored
  <2>3. ASSUME writer'[Daemon].open PROVE DaemonKnows'
    <3>1. writer'[Daemon] = writer[Daemon]
          BY <1>2, <2>3
    <3> QED
        BY <1>1, <2>1, <2>3, <3>1 DEF DaemonKnows, WholeCheckpoints, LastCheckpoint
  <2> QED
      BY <2>2, <2>3 DEF Clean
<1> QED
    BY <1>3, <1>4, <1>5 DEF Inv

(* Close, with its final checkpoint. *)
LEMMA CloseStep ==
    ASSUME Inv, NEW w \in Writers, Close(w) PROVE Inv'
<1> USE AuditAssumption
<1> DEFINE seq  == writer[w].seq
           hash == writer[w].hash
           due  == w = Daemon /\ seq > manager.anchorSeq
<1>0. TypeOK /\ Bounded /\ Clean
      BY DEF Inv
<1>1. /\ writer[w].open /\ writer' = [writer EXCEPT ![w] = Closed]
      /\ UNCHANGED <<file, written, acked>>
      BY DEF Close
<1>2. \/ /\ IF due THEN CreateCheckpoint(seq, hash) ELSE UNCHANGED <<checkpoints, manager>>
         /\ UNCHANGED <<faults, clean>>
      \/ /\ faults < MaxFaults /\ faults' = faults + 1
         /\ CheckpointFails(seq, hash)
         /\ clean' = FALSE
      BY DEF Close
<1>3. seq \in 0..MaxRecords /\ hash \in Hashes /\ manager.anchorSeq \in 0..MaxRecords
      BY <1>0 DEF TypeOK
<1>4. /\ writer' \in [Writers -> WriterState]
      /\ \A x \in Writers : writer'[x].seq <= written
      /\ \A x \in Writers : writer'[x] = IF x = w THEN Closed ELSE writer[x]
      /\ ~Closed.open /\ Daemon \in Writers
      BY <1>0, <1>1, Closing
<1>5. due => w = Daemon /\ seq # 0
      BY <1>3
<1> HIDE DEF seq, hash, due
<1>6. ASSUME CreateCheckpoint(seq, hash)
      PROVE  /\ checkpoints' \in Seq(Checkpoint) /\ manager' \in ManagerState
             /\ checkpoints' # <<>>
             /\ checkpoints'[Len(checkpoints')].anchorSeq = seq
             /\ checkpoints'[Len(checkpoints')].anchorHash = hash
             /\ Linked /\ manager = LastCheckpoint => Linked'
  <2>1. /\ checkpoints' = Append(checkpoints, CheckpointLine(seq, hash, TRUE, TRUE))
        /\ manager' = [cpSeq |-> manager.cpSeq + 1, prev |-> Len(checkpoints) + 1,
                       anchorSeq |-> seq, anchorHash |-> hash]
        BY <1>6 DEF CreateCheckpoint
  <2>2. /\ checkpoints' \in Seq(Checkpoint) /\ checkpoints' # <<>>
        /\ checkpoints'[Len(checkpoints')].anchorSeq = seq
        /\ checkpoints'[Len(checkpoints')].anchorHash = hash
        /\ Linked /\ manager = LastCheckpoint => Linked'
        BY <1>0, <1>3, <2>1, NewCheckpoint
  <2>3. manager' \in ManagerState
    <3>1. manager.cpSeq \in Nat /\ Len(checkpoints) \in Nat
          BY <1>0 DEF TypeOK
    <3> QED
        BY <1>3, <2>1, <3>1 DEF ManagerState
  <2> QED
      BY <2>2, <2>3
<1>7. ASSUME CheckpointFails(seq, hash)
      PROVE  checkpoints' \in Seq(Checkpoint) /\ UNCHANGED manager
  <2>1. UNCHANGED manager /\ (UNCHANGED checkpoints \/ CutCheckpoint(seq, hash))
        BY <1>7 DEF CheckpointFails
  <2>2. CASE UNCHANGED checkpoints
        BY <1>0, <2>1, <2>2 DEF TypeOK
  <2>3. CASE CutCheckpoint(seq, hash)
    <3>1. PICK whole \in BOOLEAN, newline \in BOOLEAN :
             checkpoints' = Append(checkpoints, CheckpointLine(seq, hash, whole, newline))
          BY <2>3 DEF CutCheckpoint
    <3> QED
        BY <1>0, <1>3, <2>1, <3>1, NewCheckpoint
  <2> QED
      BY <2>1, <2>2, <2>3
<1>8. TypeOK'
  <2>1. checkpoints' \in Seq(Checkpoint) /\ manager' \in ManagerState
        BY <1>0, <1>2, <1>6, <1>7 DEF TypeOK, ManagerState
  <2>2. faults' \in 0..MaxFaults /\ clean' \in BOOLEAN
    <3>1. faults \in 0..MaxFaults /\ clean \in BOOLEAN
          BY <1>0 DEF TypeOK
    <3>2. faults' = faults \/ (faults < MaxFaults /\ faults' = faults + 1)
          BY <1>2
    <3>3. faults' \in 0..MaxFaults
          BY <3>1, <3>2
    <3>4. clean' = clean \/ clean' = FALSE
          BY <1>2
    <3>5. clean' \in BOOLEAN
          BY <3>1, <3>4
    <3> QED
        BY <3>3, <3>5
  <2> QED
      BY <1>0, <1>1, <1>4, <2>1, <2>2 DEF TypeOK, WriterState, ManagerState
<1>9. Bounded'
      BY <1>0, <1>1, <1>4 DEF Bounded
<1>10. Clean'
  <2> SUFFICES ASSUME clean' PROVE Clean'
      BY DEF Clean
  <2>1. /\ IF due THEN CreateCheckpoint(seq, hash) ELSE UNCHANGED <<checkpoints, manager>>
        /\ clean
        BY <1>2
  <2>2. AckedIsChained /\ Linked /\ LastAnchored /\ (writer[Daemon].open => DaemonKnows)
        BY <1>0, <2>1 DEF Clean
  <2>3. AckedIsChained'
        BY <1>1, <2>1, <2>2 DEF AckedIsChained
  <2>4. CASE due
    <3>1. DaemonKnows /\ ~writer'[Daemon].open
          BY <1>1, <1>4, <1>5, <2>2, <2>4
    <3>2. Anchored(file, seq, hash)
          BY <1>5, <2>4, <3>1 DEF DaemonKnows, seq, hash
    <3>3. Linked'
          BY <1>6, <2>1, <2>2, <2>4, <3>1 DEF DaemonKnows
    <3>4. LastAnchored'
          BY <1>1, <1>6, <2>1, <2>4, <3>2 DEF LastAnchored
    <3> QED
        BY <2>3, <3>1, <3>3, <3>4 DEF Clean
  <2>5. CASE ~due
    <3>1. Linked' /\ LastAnchored'
          BY <1>1, <2>1, <2>2, <2>5 DEF Linked, LastAnchored
    <3>2. ASSUME writer'[Daemon].open PROVE DaemonKnows'
      <4>1. writer'[Daemon] = writer[Daemon]
            BY <1>4, <3>2
      <4> QED
          BY <1>1, <2>1, <2>2, <2>5, <3>2, <4>1 DEF DaemonKnows, WholeCheckpoints, LastCheckpoint
    <3> QED
        BY <2>3, <3>1, <3>2 DEF Clean
  <2> QED
      BY <2>4, <2>5
<1> QED
    BY <1>8, <1>9, <1>10 DEF Inv

(* The head of an intact file is its last record. *)
LEMMA HeadIs ==
    ASSUME NEW f \in Seq(Chunk), Intact(f), ~OpenEnded(f)
    PROVE  HeadOf(f).seq = 0 \/ Anchored(f, HeadOf(f).seq, HeadOf(f).hash)
<1>1. CASE f = <<>>
      BY <1>1 DEF HeadOf
<1>2. CASE f # <<>>
  <2>1. Len(f) \in 1..Len(f) /\ f[Len(f)].newline
        BY <1>2 DEF OpenEnded
  <2>2. f[Len(f)].seq = Len(f)
        BY <2>1, NumberIsPlace
  <2>3. HeadOf(f).seq = Len(f) /\ HeadOf(f).hash = f[Len(f)].id
        BY <1>2, <2>2 DEF HeadOf
  <2> QED
      BY <2>1, <2>3 DEF Anchored, Intact
<1> QED
    BY <1>1, <1>2

(* The head of a file has the type and the bounds of a writer's. *)
LEMMA HeadType ==
    ASSUME TypeOK, NEW f \in Seq(Chunk), \A i \in 1..Len(f) : f[i].seq <= written
    PROVE  HeadOf(f) \in WriterState /\ HeadOf(f).seq <= written
<1> USE AuditAssumption
<1>0. written \in 0..MaxRecords
      BY DEF TypeOK
<1>1. CASE f = <<>>
      BY <1>0, <1>1 DEF HeadOf, WriterState, Hashes
<1>2. CASE f # <<>>
  <2>1. Len(f) \in 1..Len(f) /\ f[Len(f)] \in Chunk
        BY <1>2
  <2>2. f[Len(f)].seq \in Records /\ f[Len(f)].id \in Records /\ f[Len(f)].seq <= written
        BY <2>1 DEF Chunk
  <2>3. HeadOf(f) = [open |-> TRUE, seq |-> f[Len(f)].seq, hash |-> f[Len(f)].id]
        BY <1>2 DEF HeadOf
  <2> QED
      BY <2>2, <2>3 DEF WriterState, Records, Hashes
<1> QED
    BY <1>1, <1>2

(* A command opens an intact log. *)
LEMMA OpenCommandStep ==
    ASSUME Inv, NEW c \in Commands, OpenCommand(c) PROVE Inv'
<1> USE AuditAssumption
<1>0. TypeOK /\ Bounded /\ Clean
      BY DEF Inv
<1>1. /\ Intact(file) /\ writer' = [writer EXCEPT ![c] = HeadOf(file)]
      /\ clean' = (clean /\ ~OpenEnded(file))
      /\ UNCHANGED <<file, checkpoints, manager, written, acked, faults>>
      BY DEF OpenCommand
<1>2. c \in Writers /\ c # Daemon /\ Daemon \in Writers
      BY DEF Writers
<1>3. HeadOf(file) \in WriterState /\ HeadOf(file).seq <= written
      BY <1>0, HeadType DEF TypeOK, Bounded
<1>4. /\ writer' \in [Writers -> WriterState]
      /\ \A x \in Writers : writer'[x] = IF x = c THEN HeadOf(file) ELSE writer[x]
  <2>1. writer \in [Writers -> WriterState]
        BY <1>0 DEF TypeOK, WriterState
  <2> QED
      BY <1>1, <1>3, <2>1
<1>5. TypeOK'
  <2>1. (clean /\ ~OpenEnded(file)) \in BOOLEAN
        OBVIOUS
  <2>2. clean' \in BOOLEAN
        BY <1>1, <2>1, Zenon
  <2> QED
      BY <1>0, <1>1, <1>4, <2>2 DEF TypeOK, WriterState
<1>6. Bounded'
      BY <1>0, <1>1, <1>3, <1>4 DEF Bounded
<1>7. Clean'
  <2> SUFFICES ASSUME clean' PROVE Clean'
      BY DEF Clean
  <2>1. clean
        BY <1>1
  <2>2. AckedIsChained /\ Linked /\ LastAnchored /\ (writer[Daemon].open => DaemonKnows)
        BY <1>0, <2>1 DEF Clean
  <2>3. AckedIsChained' /\ Linked' /\ LastAnchored'
        BY <1>1, <2>1, <2>2 DEF AckedIsChained, Linked, LastAnchored
  <2>4. writer'[Daemon] = writer[Daemon]
        BY <1>2, <1>4
  <2>5. ASSUME writer'[Daemon].open PROVE DaemonKnows'
        BY <1>1, <2>2, <2>4, <2>5 DEF DaemonKnows, WholeCheckpoints, LastCheckpoint
  <2> QED
      BY <2>3, <2>5 DEF Clean
<1> QED
    BY <1>5, <1>6, <1>7 DEF Inv

(* Recovery cuts the file and loses no chained record. *)
LEMMA CutKeeps ==
    ASSUME TypeOK, file' = SubSeq(file, 1, ValidLength(file))
    PROVE  /\ ChainedIds(file') = ChainedIds(file)
           /\ \A n, h : Anchored(file, n, h) => Anchored(file', n, h)
<1>1. /\ file' \in Seq(Chunk) /\ Len(file') = ValidLength(file) /\ Len(file') <= Len(file)
      /\ \A i \in 1..Len(file') : file'[i] = file[i]
      /\ Intact(file')
      BY Cut DEF TypeOK
<1>2. ValidLength(file') = ValidLength(file)
      BY <1>1 DEF Intact
<1>3. \A i \in 1..ValidLength(file) : file'[i] = file[i]
      BY <1>1
<1>4. ChainedIds(file') = ChainedIds(file)
      BY <1>2, <1>3 DEF ChainedIds
<1>5. ASSUME NEW n, NEW h, Anchored(file, n, h) PROVE Anchored(file', n, h)
      BY <1>2, <1>3, <1>5 DEF Anchored
<1> QED
    BY <1>4, <1>5

(* The daemon opens the log. *)
LEMMA OpenDaemonStep ==
    ASSUME Inv, OpenDaemon PROVE Inv'
<1> USE AuditAssumption
<1>0. TypeOK /\ Bounded /\ Clean
      BY DEF Inv
<1>1. /\ ~writer[Daemon].open /\ file' = SubSeq(file, 1, ValidLength(file))
      /\ UNCHANGED <<checkpoints, written, acked, faults>>
      BY DEF OpenDaemon
<1>2. /\ file' \in Seq(Chunk) /\ Len(file') = ValidLength(file) /\ Len(file') <= Len(file)
      /\ \A i \in 1..Len(file') : file'[i] = file[i]
      /\ Intact(file')
      BY <1>0, <1>1, Cut DEF TypeOK
<1>3. /\ ChainedIds(file') = ChainedIds(file)
      /\ \A n, h : Anchored(file, n, h) => Anchored(file', n, h)
      BY <1>0, <1>1, CutKeeps
<1>4. \A i \in 1..Len(file') : i \in 1..Len(file)
  <2>1. Len(file') \in Nat /\ Len(file) \in Nat
        BY <1>0, <1>2 DEF TypeOK
  <2> QED
      BY <1>2, <2>1
<1>5. \A i \in 1..Len(file') : /\ file'[i].id <= written /\ file'[i].seq <= written
                               /\ file'[i].id \in acked => file'[i].newline
      BY <1>0, <1>2, <1>4 DEF Bounded
<1>6. Daemon \in Writers /\ writer \in [Writers -> WriterState]
      BY <1>0 DEF Writers, TypeOK, WriterState
<1>7. clean => AckedIsChained' /\ Linked' /\ LastAnchored'
  <2> SUFFICES ASSUME clean PROVE AckedIsChained' /\ Linked' /\ LastAnchored'
      OBVIOUS
  <2>1. acked \subseteq ChainedIds(file) /\ Linked /\ LastAnchored
        BY <1>0 DEF Clean, AckedIsChained
  <2> QED
      BY <1>1, <1>3, <2>1 DEF AckedIsChained, Linked, LastAnchored
<1>8. CASE CheckpointsReadable
  <2>1. /\ writer' = [writer EXCEPT ![Daemon] = HeadOf(file')] /\ manager' = LastCheckpoint
        /\ clean' = (clean /\ ~OpenEnded(file'))
        BY <1>8 DEF OpenDaemon
  <2>2. HeadOf(file') \in WriterState /\ HeadOf(file').seq <= written
        BY <1>0, <1>2, <1>5, HeadType
  <2>3. /\ writer' \in [Writers -> WriterState]
        /\ \A x \in Writers : writer'[x] = IF x = Daemon THEN HeadOf(file') ELSE writer[x]
        BY <1>6, <2>1, <2>2
  <2>4. manager' \in ManagerState
    <3>1. CASE checkpoints = <<>>
          BY <2>1, <3>1 DEF LastCheckpoint, NoCheckpoint, ManagerState, Hashes
    <3>2. CASE checkpoints # <<>>
      <4> DEFINE cp == checkpoints[Len(checkpoints)]
      <4>1. cp \in Checkpoint
            BY <1>0, <3>2 DEF TypeOK
      <4>2. manager' = [cpSeq |-> cp.seq, prev |-> cp.id, anchorSeq |-> cp.anchorSeq,
                        anchorHash |-> cp.anchorHash]
            BY <2>1, <3>2 DEF LastCheckpoint
      <4> HIDE DEF cp
      <4> QED
          BY <4>1, <4>2 DEF Checkpoint, ManagerState
    <3> QED
        BY <3>1, <3>2
  <2>5. TypeOK'
    <3>1. (clean /\ ~OpenEnded(file')) \in BOOLEAN
          OBVIOUS
    <3>2. clean' \in BOOLEAN
          BY <2>1, <3>1, Zenon
    <3> QED
        BY <1>0, <1>1, <1>2, <2>3, <2>4, <3>2 DEF TypeOK, WriterState, ManagerState
  <2>6. Bounded'
    <3>1. \A x \in Writers : writer'[x].seq <= written
          BY <1>0, <2>2, <2>3 DEF Bounded
    <3> QED
        BY <1>0, <1>1, <1>5, <3>1 DEF Bounded
  <2>7. Clean'
    <3> SUFFICES ASSUME clean' PROVE Clean'
        BY DEF Clean
    <3>1. clean /\ ~OpenEnded(file')
          BY <2>1
    <3>2. HeadOf(file').seq = 0 \/ Anchored(file', HeadOf(file').seq, HeadOf(file').hash)
          BY <1>2, <3>1, HeadIs
    <3>3. writer'[Daemon] = HeadOf(file')
          BY <1>6, <2>3
    <3>4. LastCheckpoint' = LastCheckpoint /\ WholeCheckpoints'
          BY <1>1, <1>8 DEF LastCheckpoint, WholeCheckpoints, CheckpointsReadable, CheckpointParses
    <3>5. DaemonKnows'
          BY <1>2, <2>1, <3>2, <3>3, <3>4 DEF DaemonKnows
    <3> QED
        BY <1>7, <3>1, <3>5 DEF Clean
  <2> QED
      BY <2>5, <2>6, <2>7 DEF Inv
<1>9. CASE ~CheckpointsReadable
  <2>1. UNCHANGED <<writer, manager, clean>>
        BY <1>9 DEF OpenDaemon
  <2>2. TypeOK'
        BY <1>0, <1>1, <1>2, <2>1 DEF TypeOK
  <2>3. Bounded'
        BY <1>0, <1>1, <1>5, <2>1 DEF Bounded
  <2>4. Clean'
        BY <1>1, <1>7, <2>1 DEF Clean
  <2> QED
      BY <2>2, <2>3, <2>4 DEF Inv
<1> QED
    BY <1>8, <1>9

(* The invariant is inductive. *)
LEMMA Inductive == Inv /\ [Next]_vars => Inv'
<1> SUFFICES ASSUME Inv, [Next]_vars PROVE Inv'
    OBVIOUS
<1>1. CASE UNCHANGED vars
  <2>1. TypeOK' /\ Bounded'
        BY <1>1 DEF vars, Inv, TypeOK, Bounded
  <2>2. AckedIsChained' = AckedIsChained /\ Linked' = Linked /\ LastAnchored' = LastAnchored
        BY <1>1 DEF vars, AckedIsChained, Linked, LastAnchored
  <2>3. DaemonKnows' = DaemonKnows
        BY <1>1 DEF vars, DaemonKnows, WholeCheckpoints, LastCheckpoint
  <2> QED
      BY <1>1, <2>1, <2>2, <2>3 DEF vars, Inv, Clean
<1>2. ASSUME NEW w \in Writers,
             AppendRecord(w) \/ AppendFails(w) \/ CrashInAppend(w) \/ Crash(w) \/ Close(w)
      PROVE  Inv'
      BY <1>2, AppendRecordStep, AppendFailsStep, CrashInAppendStep, CrashStep, CloseStep
<1> QED
    BY <1>1, <1>2, OpenDaemonStep, OpenCommandStep DEF Next

-----------------------------------------------------------------------------
(* The theorems. *)

(* Every reachable state of the log satisfies the invariant. *)
THEOREM InvHolds == Spec => []Inv
BY Initially, Inductive, PTL DEF Spec

(* Files, heads and checkpoints keep their types (AuditWriter,              *)
(* CheckpointManager).                                                      *)
THEOREM TypeCorrect == Spec => []TypeOK
BY InvHolds, PTL DEF Inv

(* While no writer went on over a fault or a stale head, every acknowledged *)
(* record is in the chain, whatever crashes happened and however often the  *)
(* log was recovered (Append, replay, recoverFromCorruption).               *)
THEOREM AcknowledgedIsChained == Spec => []AckedIsChained
<1>1. Inv => AckedIsChained
      BY DEF Inv, Clean, AckedIsChained
<1> QED
    BY <1>1, InvHolds, PTL

(* Under the same condition, and while every checkpoint ends its line, an   *)
(* open log verifies (VerifyAuditChain).                                    *)
THEOREM NoFalseAlarmEver == Spec => []NoFalseAlarm
<1>1. ASSUME Inv, clean, writer[Daemon].open,
             \A i \in 1..Len(checkpoints) : checkpoints[i].newline
      PROVE  Verifies
  <2>1. Linked /\ LastAnchored /\ DaemonKnows
        BY <1>1 DEF Inv, Clean
  <2>2. CheckpointChain
        BY <1>1, <2>1 DEF Linked, DaemonKnows, WholeCheckpoints, CheckpointChain, CheckpointParses
  <2>3. AnchorMatches
    <3> SUFFICES ASSUME checkpoints # <<>>
                 PROVE  /\ checkpoints[Len(checkpoints)].anchorSeq <= Len(file)
                        /\ file[checkpoints[Len(checkpoints)].anchorSeq].id
                              = checkpoints[Len(checkpoints)].anchorHash
        BY DEF AnchorMatches
    <3>1. Anchored(file, checkpoints[Len(checkpoints)].anchorSeq,
                         checkpoints[Len(checkpoints)].anchorHash)
          BY <2>1 DEF LastAnchored
    <3>2. ValidLength(file) = Len(file)
          BY <2>1 DEF DaemonKnows, Intact
    <3> QED
        BY <3>1, <3>2 DEF Anchored
  <2> QED
      BY <2>1, <2>2, <2>3 DEF Verifies, DaemonKnows
<1>2. Inv => NoFalseAlarm
      BY <1>1 DEF NoFalseAlarm
<1> QED
    BY <1>2, InvHolds, PTL

(* No step takes an acknowledged record out of the chain, faults, forks and *)
(* stale heads included (Append, recoverFromCorruption).                    *)
THEOREM ChainedRecordsStay == Spec => ChainedStays
<1>1. ASSUME Inv, [Next]_vars
      PROVE  [acked \cap ChainedIds(file) \subseteq ChainedIds(file')]_vars
  <2>0. TypeOK /\ Bounded
        BY <1>1 DEF Inv
  <2>1. ASSUME UNCHANGED file PROVE acked \cap ChainedIds(file) \subseteq ChainedIds(file')
        BY <2>1
  <2>2. ASSUME OpenDaemon PROVE acked \cap ChainedIds(file) \subseteq ChainedIds(file')
        BY <2>0, <2>2, CutKeeps DEF OpenDaemon
  <2>3. ASSUME NEW w \in Writers, NEW whole \in BOOLEAN, NEW newline \in BOOLEAN,
               written < MaxRecords, Put(w, whole, newline)
        PROVE  acked \cap ChainedIds(file) \subseteq ChainedIds(file')
        BY <2>0, <2>3, Writing
  <2>4. ASSUME NEW w \in Writers, AppendRecord(w) \/ AppendFails(w) \/ CrashInAppend(w)
        PROVE  acked \cap ChainedIds(file) \subseteq ChainedIds(file')
    <3>1. written < MaxRecords /\ \E whole, newline \in BOOLEAN : Put(w, whole, newline)
          BY <2>4 DEF AppendRecord, AppendFails, CrashInAppend, Put
    <3> QED
        BY <2>3, <3>1
  <2>5. ASSUME NEW w \in Writers, Crash(w) \/ Close(w) PROVE UNCHANGED file
        BY <2>5 DEF Crash, Close
  <2>6. ASSUME NEW c \in Commands, OpenCommand(c) PROVE UNCHANGED file
        BY <2>6 DEF OpenCommand
  <2> QED
      BY <1>1, <2>1, <2>2, <2>4, <2>5, <2>6 DEF Next, vars
<1> QED
    BY <1>1, InvHolds, PTL DEF Spec, ChainedStays

=============================================================================

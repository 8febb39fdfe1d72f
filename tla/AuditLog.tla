------------------------------ MODULE AuditLog ------------------------------
(***************************************************************************)
(* The audit log (internal/audit): a JSONL file of hash-chained records    *)
(* with a file of signed checkpoints beside it.  The daemon holds one      *)
(* writer for its lifetime; short-lived commands (promote, demote, fork)   *)
(* open writers of their own on the same file.  Append takes the writer's  *)
(* mutex and a lock file, so appends do not interleave, but the head       *)
(* (sequence number and hash) a writer chains to is the one it remembers.  *)
(*                                                                         *)
(* The file is the sequence of what was written: a chunk is one record's   *)
(* bytes, "whole" or cut short, with its newline or without it.  A record  *)
(* without a newline is read as a record while it is last; what is         *)
(* appended next lands on the same line.  The number of a record stands    *)
(* for its hash: records differ, and hashes are taken not to collide.      *)
(***************************************************************************)
EXTENDS Integers, Sequences, FiniteSetsExt

CONSTANTS
    Daemon,      \* the daemon's writer, the one with checkpoints
    Commands,    \* writers of command-line commands
    Cadence,     \* records between two automatic checkpoints
    MaxRecords,  \* bound: records ever written
    MaxFaults,   \* bound: crashes and failed writes
    NoHash       \* the empty hash

ASSUME AuditAssumption ==
    /\ Daemon \notin Commands
    /\ Cadence \in Nat \ {0}
    /\ MaxRecords \in Nat
    /\ MaxFaults \in Nat
    /\ NoHash \notin Nat

VARIABLES
    file,         \* audit.jsonl: sequence of chunks
    checkpoints,  \* audit.jsonl.checkpoints: sequence of checkpoint lines
    writer,       \* AuditWriter.seq and .hash of each writer, or Closed
    manager,      \* the daemon's CheckpointManager: its in-memory state
    written,      \* how many records were ever written
    acked,        \* records whose Append returned no error
    faults,       \* crashes and failed writes so far
    clean         \* no writer went on over a fault or over a stale head

vars == <<file, checkpoints, writer, manager, written, acked, faults, clean>>

Writers == {Daemon} \cup Commands
Records == 1..MaxRecords
Hashes  == Records \cup {NoHash}
Closed  == [open |-> FALSE, seq |-> 0, hash |-> NoHash]

NoCheckpoint == [cpSeq |-> 0, prev |-> 0, anchorSeq |-> 0, anchorHash |-> NoHash]

Chunk      == [id : Records, seq : Records, prev : Hashes, whole : BOOLEAN, newline : BOOLEAN]
Checkpoint == [id : Nat, seq : Nat, prev : Nat, anchorSeq : 0..MaxRecords, anchorHash : Hashes,
               whole : BOOLEAN, newline : BOOLEAN]

TypeOK ==
    /\ file \in Seq(Chunk)
    /\ checkpoints \in Seq(Checkpoint)
    /\ writer \in [Writers -> [open : BOOLEAN, seq : 0..MaxRecords, hash : Hashes]]
    /\ manager \in [cpSeq : Nat, prev : Nat, anchorSeq : 0..MaxRecords, anchorHash : Hashes]
    /\ written \in 0..MaxRecords
    /\ acked \subseteq Records
    /\ faults \in 0..MaxFaults
    /\ clean \in BOOLEAN

Init ==
    /\ file = <<>>
    /\ checkpoints = <<>>
    /\ writer = [w \in Writers |-> Closed]
    /\ manager = NoCheckpoint
    /\ written = 0
    /\ acked = {}
    /\ faults = 0
    /\ clean = TRUE

-----------------------------------------------------------------------------
(* Opening: replay and recoverFromCorruption. *)

(* Line i parses, starts a line of its own, ends it unless it is the last,  *)
(* and chains to line i - 1.                                                *)
Chains(f, i) ==
    /\ f[i].whole
    /\ i > 1 => f[i-1].newline
    /\ i < Len(f) => f[i].newline
    /\ f[i].seq  = IF i = 1 THEN 1 ELSE f[i-1].seq + 1
    /\ f[i].prev = IF i = 1 THEN NoHash ELSE f[i-1].id

(* Mutant: the record before the broken one goes too. *)
ValidLengthShort(f) ==
    LET n == Max({k \in 0..Len(f) : \A i \in 1..k : Chains(f, i)})
    IN  IF n = Len(f) \/ n = 0 THEN n ELSE n - 1

(* How many lines precede the first that breaks the chain. *)
ValidLength(f) == Max({n \in 0..Len(f) : \A i \in 1..n : Chains(f, i)})

Intact(f) == ValidLength(f) = Len(f)

(* Mutant: only the sequence number is restored. *)
HeadOfSeqOnly(f) == [open |-> TRUE, seq |-> Len(f), hash |-> NoHash]

(* The head that replay leaves. *)
HeadOf(f) == IF f = <<>> THEN [open |-> TRUE, seq |-> 0, hash |-> NoHash]
           ELSE [open |-> TRUE, seq |-> f[Len(f)].seq, hash |-> f[Len(f)].id]

(* Checkpoint i parses: nothing of it is missing and no other one landed on *)
(* its line.                                                                *)
CheckpointParses(i) == checkpoints[i].whole /\ (i < Len(checkpoints) => checkpoints[i].newline)

CheckpointsReadable == \A i \in 1..Len(checkpoints) : CheckpointParses(i)

(* Mutant: the manager starts afresh. *)
LastCheckpointForgotten == NoCheckpoint

LastCheckpoint ==
    IF checkpoints = <<>> THEN NoCheckpoint
    ELSE LET cp == checkpoints[Len(checkpoints)]
         IN  [cpSeq |-> cp.seq, prev |-> cp.id,
              anchorSeq |-> cp.anchorSeq, anchorHash |-> cp.anchorHash]

(* A record that survives without its newline is accepted, and the next     *)
(* append lands on its line.                                                *)
OpenEnded(f) == f # <<>> /\ ~f[Len(f)].newline

(* NewAuditWriterWithCheckpoints: the chain is cut at its first break; a     *)
(* checkpoint line that does not parse keeps the daemon from starting.      *)
OpenDaemon ==
    /\ ~writer[Daemon].open
    /\ file' = SubSeq(file, 1, ValidLength(file))
    /\ IF CheckpointsReadable
       THEN /\ writer' = [writer EXCEPT ![Daemon] = HeadOf(file')]
            /\ manager' = LastCheckpoint
            /\ clean' = (clean /\ ~OpenEnded(file'))
       ELSE UNCHANGED <<writer, manager, clean>>
    /\ UNCHANGED <<checkpoints, written, acked, faults>>

(* NewAuditWriter: strict, a command cannot open a broken log. *)
OpenCommand(c) ==
    /\ ~writer[c].open
    /\ Intact(file)
    /\ writer' = [writer EXCEPT ![c] = HeadOf(file)]
    /\ clean' = (clean /\ ~OpenEnded(file))
    /\ UNCHANGED <<file, checkpoints, manager, written, acked, faults>>

-----------------------------------------------------------------------------
(* Append. *)

(* The chunk that writer w puts down. *)
Written(w, whole, newline) ==
    [id |-> written + 1, seq |-> writer[w].seq + 1, prev |-> writer[w].hash,
     whole |-> whole, newline |-> newline]

(* The head the writer remembers is the head of the file. *)
Current(w) == Intact(file) /\ ~OpenEnded(file) /\ writer[w] = HeadOf(file)

ShouldCheckpoint(seq) == seq >= manager.anchorSeq + Cadence

CheckpointLine(seq, hash, whole, newline) ==
    [id |-> Len(checkpoints) + 1, seq |-> manager.cpSeq + 1, prev |-> manager.prev,
     anchorSeq |-> seq, anchorHash |-> hash, whole |-> whole, newline |-> newline]

(* What a checkpoint's write that was cut short leaves: part of the line,   *)
(* all of it but its newline, or all of it.                                 *)
CutCheckpoint(seq, hash) ==
    \E whole, newline \in BOOLEAN :
       /\ newline => whole
       /\ checkpoints' = Append(checkpoints, CheckpointLine(seq, hash, whole, newline))

(* CreateCheckpoint succeeds; or signing it fails, its write is cut short,  *)
(* or only its fsync fails: what was written stays and the manager does not *)
(* know.                                                                    *)
CreateCheckpoint(seq, hash) ==
    /\ checkpoints' = Append(checkpoints, CheckpointLine(seq, hash, TRUE, TRUE))
    /\ manager' = [cpSeq |-> manager.cpSeq + 1, prev |-> Len(checkpoints) + 1,
                   anchorSeq |-> seq, anchorHash |-> hash]

CheckpointFails(seq, hash) ==
    /\ UNCHANGED checkpoints \/ CutCheckpoint(seq, hash)
    /\ UNCHANGED manager

(* Mutant: the sequence number is advanced twice. *)
NextHeadTwice(w) == [open |-> TRUE, seq |-> writer[w].seq + 2, hash |-> written + 1]

(* Update of the head anchor after write and fsync. *)
NextHead(w) == [open |-> TRUE, seq |-> writer[w].seq + 1, hash |-> written + 1]

(* The record is down and synced; the daemon's checkpoint may be due. *)
AppendRecord(w) ==
    /\ writer[w].open
    /\ written < MaxRecords
    /\ file' = Append(file, Written(w, TRUE, TRUE))
    /\ writer' = [writer EXCEPT ![w] = NextHead(w)]
    /\ written' = written + 1
    /\ LET seq == writer[w].seq + 1
           due == w = Daemon /\ ShouldCheckpoint(seq)
       IN  \/ /\ IF due THEN CreateCheckpoint(seq, written + 1)
                        ELSE UNCHANGED <<checkpoints, manager>>
              /\ acked' = acked \cup {written + 1}
              /\ clean' = (clean /\ Current(w))
              /\ UNCHANGED faults
           \/ /\ due
              /\ faults < MaxFaults
              /\ faults' = faults + 1
              /\ CheckpointFails(seq, written + 1)
              /\ clean' = FALSE
              /\ UNCHANGED acked

(* A write or the fsync fails: the head is not moved, what reached the file *)
(* stays there.                                                             *)
AppendFails(w) ==
    /\ writer[w].open
    /\ written < MaxRecords
    /\ faults < MaxFaults
    /\ faults' = faults + 1
    /\ \E whole, newline \in BOOLEAN :
          /\ newline => whole
          /\ file' = Append(file, Written(w, whole, newline))
    /\ written' = written + 1
    /\ clean' = FALSE
    /\ UNCHANGED <<checkpoints, writer, manager, acked>>

(* The process dies while it appends: part of the record, all of it, or all *)
(* of it with its newline is in the file and no checkpoint is taken; or     *)
(* while it writes the checkpoint that is due.                              *)
CrashInAppend(w) ==
    /\ writer[w].open
    /\ written < MaxRecords
    /\ faults < MaxFaults
    /\ faults' = faults + 1
    /\ \E whole, newline \in BOOLEAN :
          /\ newline => whole
          /\ file' = Append(file, Written(w, whole, newline))
          /\ \/ UNCHANGED checkpoints
             \/ /\ newline /\ w = Daemon /\ ShouldCheckpoint(writer[w].seq + 1)
                /\ CutCheckpoint(writer[w].seq + 1, written + 1)
          /\ clean' = (clean /\ Current(w) /\ (w = Daemon \/ whole))
    /\ written' = written + 1
    /\ writer' = [writer EXCEPT ![w] = Closed]
    /\ UNCHANGED <<manager, acked>>

(* Crash, or exit without Close, between two appends. *)
Crash(w) ==
    /\ writer[w].open
    /\ faults < MaxFaults
    /\ faults' = faults + 1
    /\ writer' = [writer EXCEPT ![w] = Closed]
    /\ UNCHANGED <<file, checkpoints, manager, written, acked, clean>>

(* Close: a final checkpoint for records that have none. *)
Close(w) ==
    /\ writer[w].open
    /\ LET head == writer[w]
           due  == w = Daemon /\ head.seq > manager.anchorSeq
       IN  \/ /\ IF due THEN CreateCheckpoint(head.seq, head.hash)
                        ELSE UNCHANGED <<checkpoints, manager>>
              /\ UNCHANGED <<faults, clean>>
           \/ /\ due
              /\ faults < MaxFaults
              /\ faults' = faults + 1
              /\ CheckpointFails(head.seq, head.hash)
              /\ clean' = FALSE
    /\ writer' = [writer EXCEPT ![w] = Closed]
    /\ UNCHANGED <<file, written, acked>>

Next ==
    \/ OpenDaemon
    \/ \E c \in Commands : OpenCommand(c)
    \/ \E w \in Writers :
          \/ AppendRecord(w)
          \/ AppendFails(w)
          \/ CrashInAppend(w)
          \/ Crash(w)
          \/ Close(w)

Spec == Init /\ [][Next]_vars

-----------------------------------------------------------------------------
(* VerifyAuditChain: what it holds of a log that nobody touched. *)

(* Phases 3 and 5: the checkpoint chain. *)
CheckpointChain ==
    \A i \in 1..Len(checkpoints) :
        /\ CheckpointParses(i)
        /\ checkpoints[i].prev = IF i = 1 THEN 0 ELSE checkpoints[i-1].id
        /\ checkpoints[i].seq  = IF i = 1 THEN 1 ELSE checkpoints[i-1].seq + 1

(* Phase 4: the record that the latest checkpoint anchors.  That there is   *)
(* no checkpoint yet is reported as such (phase 2), not as tampering.       *)
AnchorMatches ==
    (file # <<>> /\ checkpoints # <<>>) =>
        LET cp == checkpoints[Len(checkpoints)]
        IN  /\ cp.anchorSeq <= Len(file)
            /\ file[cp.anchorSeq].id = cp.anchorHash

Verifies == Intact(file) /\ CheckpointChain /\ AnchorMatches

-----------------------------------------------------------------------------
(* Properties *)

ChainedIds(f) == {f[i].id : i \in 1..ValidLength(f)}

(* An acknowledged record that is in the intact part of the chain stays in  *)
(* it: whatever fails, forks or crashes later, the recovery of the next     *)
(* start cuts the file behind it (recoverFromCorruption).                   *)
ChainedStays == [][acked \cap ChainedIds(file) \subseteq ChainedIds(file')]_vars

(* While no writer went on over a failed write, an unterminated record or a *)
(* stale head, every acknowledged record is in the chain, whatever crashes  *)
(* happened and however often the log was recovered (Append, replay,        *)
(* recoverFromCorruption).                                                  *)
AckedIsChained == clean => acked \subseteq ChainedIds(file)

(* Under the same condition, and while every checkpoint ends its line, an   *)
(* open log verifies: crashes between a record and its checkpoint, within   *)
(* the record, and recoveries are never mistaken for tampering or           *)
(* truncation (VerifyAuditChain).  Without that condition it fails: replay  *)
(* accepts a checkpoint that lost its newline, the next one lands on its    *)
(* line, and both are a "malformed checkpoint" from then on.                *)
NoFalseAlarm ==
    (clean /\ writer[Daemon].open /\ \A i \in 1..Len(checkpoints) : checkpoints[i].newline) => Verifies

=============================================================================

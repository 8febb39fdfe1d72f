------------------------------- MODULE Inbox -------------------------------
(***************************************************************************)
(* The durable inbox of one run and the wake-up of the workers that wait   *)
(* for it (internal/runtime/inbox.go, wake.go), over the run's event store *)
(* (internal/trigger/durable_eventstore.go; EventStore has it in detail).  *)
(*                                                                         *)
(* A section under a run state's mutex is one step, its file write         *)
(* included.  Purge takes the state out of the store's map before it locks *)
(* it, so a call that looked the state up earlier goes on with an object   *)
(* that is in no map, while its file has the same name as its successor's. *)
(*                                                                         *)
(* The log is the sequence of what was written: a chunk is one record's    *)
(* bytes, whole or cut short, with its newline or without it.              *)
(*                                                                         *)
(* The event feed is the run's: wake events are among all the others of    *)
(* the run.  Nothing in the repository calls the store but tests, so the   *)
(* callers are free: a worker waits, lists and marks when it likes.        *)
(***************************************************************************)
EXTENDS Integers, Sequences, FiniteSets

CONSTANTS
    Tasks,        \* task ids of the run
    Senders,      \* callers of Append
    Workers,      \* workers that wait, list and mark
    TaskOf,       \* [Workers -> Tasks]
    BufferSize,   \* subscriberBufferSize
    MaxMessages,  \* bound: message ids ever drawn
    MaxEvents,    \* bound: length of the feed that other events fill
    MaxFaults,    \* bound: crashes, failed writes, suspensions
    MaxPurges,    \* bound: calls of Purge
    None          \* no call; an event that wakes no task

ASSUME InboxAssumption ==
    /\ TaskOf \in [Workers -> Tasks]
    /\ BufferSize \in Nat \ {0}
    /\ None \notin Tasks
    /\ {MaxMessages, MaxEvents} \subseteq Nat
    /\ MaxFaults \in Nat
    /\ MaxPurges \in Nat

VARIABLES
    file,      \* the run's .wal file: sequence of chunks, empty when absent
    mode,      \* "up"; "closed" after Close; "down" after a crash; "unreadable"
    states,    \* the inboxRunState objects made since the store was opened
    mapped,    \* the one that DurableInboxStore.runs holds (held, once closed), 0 for none
    drawn,     \* message ids drawn so far
    send,      \* the Append each sender is in
    purging,   \* the state a Purge has taken out of the map, 0 when none
    purges,
    feed,      \* the run's events in order: the task each one wakes, or None
    publish,   \* the fan-out of another event of the run
    sub,       \* each worker's subscription
    signal,    \* workers with a WakeSignal in their channel
    work,      \* what each worker is doing
    acked,     \* messages whose Append returned without an error
    consumed,  \* messages that MarkDelivered found and marked
    faults

store  == <<file, mode, states, mapped>>
wakes  == <<feed, publish, sub, signal>>
seen   == <<acked, consumed>>
vars   == <<store, drawn, send, purging, purges, wakes, work, seen, faults>>

Ids     == 1..MaxMessages
Message == [id : Ids, task : Tasks, delivered : BOOLEAN]
Chunk   == [msg : Message, whole : BOOLEAN, newline : BOOLEAN]

(* replay is the next event of Subscribe's snapshot, which ends at until. *)
NoSub == [phase |-> "none", replay |-> 0, until |-> 0, ch |-> <<>>, cursor |-> 0, closed |-> TRUE]
Idle  == [at |-> "idle", ids |-> {}, state |-> 0]

(* A fan-out: the number of its event and the subscribers it has yet to try. *)
NoEvent == [seq |-> 0, left |-> {}]

FanOut(seq, left) == IF left = {} THEN NoEvent ELSE [seq |-> seq, left |-> left]

Events == Tasks \cup {None}

TypeOK ==
    /\ file \in Seq(Chunk)
    /\ mode \in {"up", "closed", "down", "unreadable"}
    /\ \A i \in 1..Len(states) : states[i] \in Seq(Message)
    /\ mapped \in 0..Len(states)
    /\ drawn \in 0..MaxMessages
    /\ \A s \in Senders : send[s] # None =>
          /\ send[s].at \in {"write", "event", "offer"}
          /\ send[s].msg \in Message
          /\ send[s].left \subseteq Workers
    /\ purging \in 0..Len(states)
    /\ feed \in Seq(Events)
    /\ publish \in [seq : 0..Len(feed), left : SUBSET Workers]
    /\ \A w \in Workers :
          /\ sub[w].phase \in {"none", "replaying", "live"}
          /\ Len(sub[w].ch) <= BufferSize
          /\ sub[w].cursor \in 0..Len(feed)
          /\ work[w].at \in {"idle", "mark", "rewrite"}
          /\ work[w].ids \subseteq Ids
    /\ signal \subseteq Workers
    /\ acked \subseteq Ids
    /\ consumed \subseteq Ids
    /\ faults \in 0..MaxFaults
    /\ purges \in 0..MaxPurges

Init ==
    /\ file = <<>>
    /\ mode = "up"
    /\ states = <<>>
    /\ mapped = 0
    /\ drawn = 0
    /\ send = [s \in Senders |-> None]
    /\ purging = 0
    /\ purges = 0
    /\ feed = <<>>
    /\ publish = NoEvent
    /\ sub = [w \in Workers |-> NoSub]
    /\ signal = {}
    /\ work = [w \in Workers |-> Idle]
    /\ acked = {}
    /\ consumed = {}
    /\ faults = 0

Fault == faults < MaxFaults /\ faults' = faults + 1

-----------------------------------------------------------------------------
(* The log. *)

Whole(m) == [msg |-> m, whole |-> TRUE, newline |-> TRUE]

(* What a write that was cut short may leave of a record. *)
Remains(m) == {[msg |-> m, whole |-> w, newline |-> FALSE] : w \in BOOLEAN} \cup {Whole(m)}

(* Mutant: the record stays in a buffer. *)
AppendWALBuffered(f, m) == f

AppendWAL(f, m) == Append(f, Whole(m))

(* Every line parses: a record without its newline runs into the next one. *)
Readable(f) == \A i \in 1..Len(f) : f[i].whole /\ (i < Len(f) => f[i].newline)

(* The messages with those of `ids` delivered. *)
Marked(messages, ids) ==
    [i \in 1..Len(messages) |->
        IF messages[i].id \in ids THEN [messages[i] EXCEPT !.delivered = TRUE] ELSE messages[i]]

(* Mutant: the mark is not written to the log. *)
RewriteNever(f, messages) == f

(* rewriteMessagesLocked: the whole file, by rename. *)
Rewrite(f, messages) == [i \in 1..Len(messages) |-> Whole(messages[i])]

-----------------------------------------------------------------------------
(* Append. *)

AppendBegins(s, t) ==
    /\ mode = "up"
    /\ send[s] = None
    /\ drawn < MaxMessages
    /\ drawn' = drawn + 1
    /\ states' = IF mapped = 0 THEN Append(states, <<>>) ELSE states
    /\ mapped' = IF mapped = 0 THEN Len(states) + 1 ELSE mapped
    /\ send' = [send EXCEPT ![s] =
            [at |-> "write", msg |-> [id |-> drawn + 1, task |-> t, delivered |-> FALSE],
             state |-> mapped', left |-> {}, seq |-> 0]]
    /\ UNCHANGED <<file, mode, purging, purges, wakes, work, seen, faults>>

SendAt(s, step) == send[s] # None /\ send[s].at = step

(* Close marks the states it finds in the map, not one that a Purge took.   *)
Closed(s) == mode = "closed" /\ send[s].state = mapped

(* The file and then the index, under the state's mutex. *)
AppendWrites(s) ==
    /\ SendAt(s, "write")
    /\ IF Closed(s)
       THEN send' = [send EXCEPT ![s] = None] /\ UNCHANGED <<file, states>>
       ELSE /\ file' = AppendWAL(file, send[s].msg)
            /\ states' = [states EXCEPT ![send[s].state] = Append(@, send[s].msg)]
            /\ send' = [send EXCEPT ![s].at = "event"]
    /\ UNCHANGED <<mode, mapped, drawn, purging, purges, wakes, work, seen, faults>>

(* appendWAL fails; what reached the file stays there. *)
AppendFails(s) ==
    /\ SendAt(s, "write")
    /\ ~Closed(s)
    /\ Fault
    /\ \/ UNCHANGED file
       \/ \E c \in Remains(send[s].msg) : file' = Append(file, c)
    /\ send' = [send EXCEPT ![s] = None]
    /\ UNCHANGED <<mode, states, mapped, drawn, purging, purges, wakes, work, seen>>

Subscribed == {w \in Workers : sub[w].phase # "none"}

(* The wake event gets its place in the feed. *)
AppendWakeEvent(s) ==
    /\ SendAt(s, "event")
    /\ feed' = Append(feed, send[s].msg.task)
    /\ send' = [send EXCEPT ![s].at = "offer", ![s].seq = Len(feed) + 1,
                            ![s].left = Subscribed]
    /\ UNCHANGED <<store, drawn, purging, purges, publish, sub, signal, work, seen, faults>>

(* The caller gets the id and an error. *)
WakeEventFails(s) ==
    /\ SendAt(s, "event")
    /\ Fault
    /\ send' = [send EXCEPT ![s] = None]
    /\ UNCHANGED <<store, drawn, purging, purges, wakes, work, seen>>

AppendReturns(s) ==
    /\ SendAt(s, "offer")
    /\ send[s].left = {}
    /\ acked' = acked \cup {send[s].msg.id}
    /\ send' = [send EXCEPT ![s] = None]
    /\ UNCHANGED <<store, drawn, purging, purges, wakes, work, consumed, faults>>

-----------------------------------------------------------------------------
(* The event store's side of a subscription, and WaitForWake's goroutine.   *)

(* Mutant: one event more than the channel holds. *)
SentOverfull(b, e) ==
    IF b.closed \/ e <= b.cursor THEN b
    ELSE IF Len(b.ch) <= BufferSize THEN [b EXCEPT !.ch = Append(@, e), !.cursor = e]
    ELSE [b EXCEPT !.closed = TRUE]

(* subscriber.send of event number e: known or older ones are dropped, a    *)
(* channel that stays full is closed.                                       *)
Sent(b, e) ==
    IF b.closed \/ e <= b.cursor THEN b
    ELSE IF Len(b.ch) < BufferSize THEN [b EXCEPT !.ch = Append(@, e), !.cursor = e]
    ELSE [b EXCEPT !.closed = TRUE]

Offer(s, w) ==
    /\ SendAt(s, "offer")
    /\ w \in send[s].left
    /\ sub' = [sub EXCEPT ![w] = Sent(@, send[s].seq)]
    /\ send' = [send EXCEPT ![s].left = @ \ {w}]
    /\ UNCHANGED <<store, drawn, purging, purges, feed, publish, signal, work, seen, faults>>

(* Another event of the run is appended: an approval, which wakes its task, *)
(* or one that wakes nobody.  It is offered like a wake event, before or    *)
(* after the ones that are on their way.                                    *)
OtherEvent(e) ==
    /\ mode \in {"up", "closed"}
    /\ publish = NoEvent
    /\ Len(feed) < MaxEvents
    /\ feed' = Append(feed, e)
    /\ publish' = FanOut(Len(feed) + 1, Subscribed)
    /\ UNCHANGED <<store, drawn, send, purging, purges, sub, signal, work, seen, faults>>

OfferOther(w) ==
    /\ w \in publish.left
    /\ sub' = [sub EXCEPT ![w] = Sent(@, publish.seq)]
    /\ publish' = FanOut(publish.seq, publish.left \ {w})
    /\ UNCHANGED <<store, drawn, send, purging, purges, feed, signal, work, seen, faults>>

(* WaitForWake subscribes from the beginning. *)
AfterSequence == 0

(* A worker that waits for nothing subscribes; it keeps no cursor.  What is *)
(* being offered to an earlier subscription of its is not for this one.     *)
WaitForWake(w) ==
    /\ mode = "up"
    /\ sub[w].phase = "none"
    /\ w \notin signal
    /\ work[w] = Idle
    /\ sub' = [sub EXCEPT ![w] =
            [phase |-> "replaying", replay |-> AfterSequence + 1, until |-> Len(feed),
             ch |-> <<>>, cursor |-> AfterSequence, closed |-> FALSE]]
    /\ send' = [s \in Senders |-> IF send[s] = None THEN None
                                  ELSE [send[s] EXCEPT !.left = @ \ {w}]]
    /\ publish' = FanOut(publish.seq, publish.left \ {w})
    /\ UNCHANGED <<store, drawn, purging, purges, feed, signal, work, seen, faults>>

(* One send of the replay, before Subscribe has returned the channel. *)
Replay(w) ==
    /\ sub[w].phase = "replaying"
    /\ sub' = [sub EXCEPT ![w] =
            IF @.replay > @.until THEN [@ EXCEPT !.phase = "live"]
            ELSE LET b == Sent(@, @.replay) IN
                 [b EXCEPT !.replay = @ + 1, !.phase = IF b.closed THEN "live" ELSE @]]
    /\ UNCHANGED <<store, drawn, send, purging, purges, feed, publish, signal, work, seen, faults>>

(* wakeSignalFromEvent; the signal channel holds one. *)
Forward(w) ==
    /\ sub[w].phase = "live"
    /\ sub[w].ch # <<>>
    /\ LET own == feed[Head(sub[w].ch)] = TaskOf[w] IN
       /\ own => w \notin signal
       /\ signal' = IF own THEN signal \cup {w} ELSE signal
    /\ sub' = [sub EXCEPT ![w].ch = Tail(@)]
    /\ UNCHANGED <<store, drawn, send, purging, purges, feed, publish, work, seen, faults>>

(* The subscription was closed: the goroutine ends and closes its channel. *)
ForwardEnds(w) ==
    /\ sub[w].phase = "live"
    /\ sub[w].closed
    /\ sub[w].ch = <<>>
    /\ sub' = [sub EXCEPT ![w] = NoSub]
    /\ UNCHANGED <<store, drawn, send, purging, purges, feed, publish, signal, work, seen, faults>>

(* The worker is stopped between two tasks and will wait again. *)
Suspend(w) ==
    /\ sub[w].phase = "live"
    /\ work[w] = Idle
    /\ Fault
    /\ sub' = [sub EXCEPT ![w] = NoSub]
    /\ signal' = signal \ {w}
    /\ UNCHANGED <<store, drawn, send, purging, purges, feed, publish, work, seen>>

-----------------------------------------------------------------------------
(* The worker. *)

Undelivered(t) ==
    IF mapped = 0 THEN {}
    ELSE {states[mapped][i].id : i \in {j \in 1..Len(states[mapped]) :
              ~states[mapped][j].delivered /\ states[mapped][j].task = t}}

(* It lists its task's messages, with or without a signal. *)
List(w) ==
    /\ mode = "up"
    /\ work[w] = Idle
    /\ signal' = signal \ {w}
    /\ work' = [work EXCEPT ![w] =
            IF Undelivered(TaskOf[w]) = {} THEN Idle
            ELSE [at |-> "mark", ids |-> Undelivered(TaskOf[w]), state |-> 0]]
    /\ UNCHANGED <<store, drawn, send, purging, purges, feed, publish, sub, seen, faults>>

(* MarkDelivered takes the states that are in the map. *)
MarkDelivered(w) ==
    /\ mode = "up"
    /\ work[w].at = "mark"
    /\ work' = [work EXCEPT ![w] = IF mapped = 0 THEN Idle
                                   ELSE [@ EXCEPT !.at = "rewrite", !.state = mapped]]
    /\ UNCHANGED <<store, drawn, send, purging, purges, wakes, seen, faults>>

(* The file first, then the index, under the state's mutex. *)
MarkRewrites(w) ==
    LET messages == states[work[w].state]
        marked   == Marked(messages, work[w].ids)
    IN
    /\ work[w].at = "rewrite"
    /\ file' = IF marked # messages THEN Rewrite(file, marked) ELSE file
    /\ states' = [states EXCEPT ![work[w].state] = marked]
    /\ consumed' = consumed \cup {id \in work[w].ids : \E i \in 1..Len(messages) : messages[i].id = id}
    /\ work' = [work EXCEPT ![w] = Idle]
    /\ UNCHANGED <<mode, mapped, drawn, send, purging, purges, wakes, acked, faults>>

(* The rewrite fails and changes nothing; the worker may mark again. *)
MarkFails(w) ==
    /\ work[w].at = "rewrite"
    /\ Fault
    /\ work' = [work EXCEPT ![w].at = "mark"]
    /\ UNCHANGED <<store, drawn, send, purging, purges, wakes, seen>>

-----------------------------------------------------------------------------
(* Purge, Close, crash and recovery. *)

Purge ==
    /\ mode = "up"
    /\ mapped # 0
    /\ purging = 0
    /\ purges < MaxPurges
    /\ purges' = purges + 1
    /\ purging' = mapped
    /\ mapped' = 0
    /\ UNCHANGED <<file, mode, states, drawn, send, wakes, work, seen, faults>>

PurgeRemoves ==
    /\ purging # 0
    /\ purging' = 0
    /\ file' = <<>>
    /\ UNCHANGED <<mode, states, mapped, drawn, send, purges, wakes, work, seen, faults>>

(* os.Remove fails: the state is gone, the file is not. *)
PurgeFails ==
    /\ purging # 0
    /\ Fault
    /\ purging' = 0
    /\ UNCHANGED <<store, drawn, send, purges, wakes, work, seen>>

CloseStore ==
    /\ mode = "up"
    /\ Fault
    /\ mode' = "closed"
    /\ UNCHANGED <<file, states, mapped, drawn, send, purging, purges, wakes, work, seen>>

(* The process ends, possibly in the middle of appendWAL, or of the append  *)
(* of a wake event that is then in the feed.                                *)
Crash ==
    /\ mode \in {"up", "closed"}
    /\ Fault
    /\ \/ UNCHANGED file
       \/ \E s \in Senders : /\ SendAt(s, "write")
                             /\ ~Closed(s)
                             /\ \E c \in Remains(send[s].msg) : file' = Append(file, c)
    /\ \/ UNCHANGED feed
       \/ \E s \in Senders : SendAt(s, "event") /\ feed' = Append(feed, send[s].msg.task)
    /\ mode' = "down"
    /\ states' = <<>>
    /\ mapped' = 0
    /\ purging' = 0
    /\ send' = [s \in Senders |-> None]
    /\ publish' = NoEvent
    /\ sub' = [w \in Workers |-> NoSub]
    /\ signal' = {}
    /\ work' = [w \in Workers |-> Idle]
    /\ UNCHANGED <<drawn, purges, seen>>

(* NewDurableEventStore and NewDurableInboxStore.  A corrupt line keeps     *)
(* either from opening; the event store's file is EventStore's, and some    *)
(* event may have been cut short in it.                                     *)
Recover ==
    /\ mode = "down"
    /\ \/ /\ Readable(file)
          /\ mode' = "up"
          /\ states' = IF file = <<>> THEN <<>> ELSE <<[i \in 1..Len(file) |-> file[i].msg]>>
          /\ mapped' = Len(states')
       \/ /\ mode' = "unreadable"
          /\ UNCHANGED <<states, mapped>>
    /\ UNCHANGED <<file, drawn, send, purging, purges, wakes, work, seen, faults>>

-----------------------------------------------------------------------------
SenderStep(s) ==
    \/ AppendWrites(s) \/ AppendWakeEvent(s) \/ AppendReturns(s)
    \/ \E w \in Workers : Offer(s, w)

WorkerStep(w) ==
    \/ WaitForWake(w) \/ Replay(w) \/ Forward(w) \/ ForwardEnds(w) \/ Suspend(w) \/ OfferOther(w)
    \/ List(w) \/ MarkDelivered(w) \/ MarkRewrites(w) \/ MarkFails(w)

Next ==
    \/ \E s \in Senders :
          \/ \E t \in Tasks : AppendBegins(s, t)
          \/ SenderStep(s)
          \/ AppendFails(s)
          \/ WakeEventFails(s)
    \/ \E w \in Workers : WorkerStep(w)
    \/ \E e \in Events : OtherEvent(e)
    \/ Purge
    \/ PurgeRemoves
    \/ PurgeFails
    \/ CloseStore
    \/ Crash
    \/ Recover

Spec == Init /\ [][Next]_vars

-----------------------------------------------------------------------------
(* Properties *)

(* Without a Purge the open store has every message whose Append succeeded, *)
(* delivered or not, over crashes, torn and failed writes and the rewrites  *)
(* of MarkDelivered ("Messages survive process restart").                   *)
AckedSurvives ==
    (mode = "up" /\ purges = 0) =>
        \A id \in acked : /\ mapped # 0
                          /\ \E i \in 1..Len(states[mapped]) : states[mapped][i].id = id

(* A message that MarkDelivered found and marked is never listed again,     *)
(* whatever fails, crashes or is purged afterwards (the file is rewritten   *)
(* before the index, "fail-closed").                                        *)
NotRedelivered == (mode = "up") => \A t \in Tasks : Undelivered(t) \cap consumed = {}
=============================================================================

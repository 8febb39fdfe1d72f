----------------------------- MODULE EventStore -----------------------------
(***************************************************************************)
(* The durable event store of the trigger service for one run              *)
(* (internal/trigger/durable_eventstore.go).  Append assigns the sequence  *)
(* number, writes the write-ahead log and updates the in-memory index      *)
(* under the run's mutex, and offers the event to the subscribers after    *)
(* releasing it; Subscribe takes its snapshot and registers under the      *)
(* mutex and offers the snapshot after releasing it.  Offers of several    *)
(* appends and of a replay therefore interleave; subscriber.send, one step *)
(* here, decides under the subscriber's own mutex.                         *)
(*                                                                         *)
(* The log is the sequence of what was written: a chunk is one record's    *)
(* bytes, whole or cut short, with its newline or without it.              *)
(***************************************************************************)
EXTENDS Integers, Sequences, FiniteSets

CONSTANTS
    Appenders,    \* goroutines that append
    Subscribers,  \* clients of Subscribe
    BufferSize,   \* subscriberBufferSize
    MaxEvents,    \* bound: records ever written
    MaxFaults     \* bound: crashes, failed writes, cancelled contexts

ASSUME EventStoreAssumption ==
    /\ BufferSize \in Nat \ {0}
    /\ MaxEvents \in Nat
    /\ MaxFaults \in Nat

VARIABLES
    wal,         \* the run's .wal file: sequence of chunks
    mode,        \* "up"; "closed" after Close; "down" after a crash; "unreadable"
    events,      \* runState.events
    registered,  \* runState.subscribers
    append,      \* [Appenders -> locals of an Append in its fan-out]
    sub,         \* [Subscribers -> subscriber, and the caller's side of it]
    acked,       \* records whose Append returned a sequence number
    faults

vars == <<wal, mode, events, registered, append, sub, acked, faults>>

Ids    == 1..MaxEvents
Event  == [id : Ids, seq : Ids]
Chunk  == [id : Ids, seq : Ids, whole : BOOLEAN, newline : BOOLEAN]

Idle   == [busy |-> FALSE, event |-> [id |-> 0, seq |-> 0], left |-> {}, dead |-> {}]

(* got is what the client has read from its channels, over reconnections. *)
NoSub  == [phase |-> "none", replay |-> <<>>, ch |-> <<>>, cursor |-> 0, closed |-> TRUE, got |-> <<>>]

TypeOK ==
    /\ wal \in Seq(Chunk)
    /\ mode \in {"up", "closed", "down", "unreadable"}
    /\ events \in Seq(Event)
    /\ registered \subseteq Subscribers
    /\ \A a \in Appenders : append[a] = Idle \/ append[a].event \in Event
    /\ \A s \in Subscribers :
          /\ sub[s].phase \in {"none", "replaying", "live"}
          /\ sub[s].replay \in Seq(Event)
          /\ sub[s].ch \in Seq(Event)
          /\ Len(sub[s].ch) <= BufferSize
          /\ sub[s].got \in Seq(Event)
    /\ acked \subseteq Ids
    /\ faults \in 0..MaxFaults

Init ==
    /\ wal = <<>>
    /\ mode = "up"
    /\ events = <<>>
    /\ registered = {}
    /\ append = [a \in Appenders |-> Idle]
    /\ sub = [s \in Subscribers |-> NoSub]
    /\ acked = {}
    /\ faults = 0

Fault == faults < MaxFaults /\ faults' = faults + 1

-----------------------------------------------------------------------------
(* subscriber.send: what becomes of subscriber b when it is offered e.      *)

Closed(b) == [b EXCEPT !.closed = TRUE]

Pushed(b, e) == [b EXCEPT !.ch = Append(@, e), !.cursor = e.seq]

(* Mutant: the cursor is not consulted. *)
SeenNever(b, e) == e.seq < 0

(* "Already delivered": a no-op that counts as a success. *)
Seen(b, e) == e.seq <= b.cursor

(* Mutant: one event more than the channel holds. *)
SendResultsOverfull(b, e) ==
    IF b.closed \/ Seen(b, e) THEN {b}
    ELSE IF Len(b.ch) <= BufferSize THEN {Pushed(b, e)}
    ELSE {Closed(b)}

(* Mutant: a full channel drops the event and stays open. *)
SendResultsDropping(b, e) ==
    IF ~b.closed /\ ~Seen(b, e) /\ Len(b.ch) < BufferSize THEN {Pushed(b, e)} ELSE {b}

(* The possible results: a full channel may drain within the overflow       *)
(* timeout, which is the push of a later step, or the subscriber is closed. *)
SendResults(b, e) ==
    IF b.closed \/ Seen(b, e) THEN {b}
    ELSE IF Len(b.ch) < BufferSize THEN {Pushed(b, e)}
    ELSE {Closed(b)}

-----------------------------------------------------------------------------
(* Append. *)

Lines(f) == [i \in 1..Len(f) |-> [id |-> f[i].id, seq |-> f[i].seq]]

NewEvent == [id |-> Len(wal) + 1, seq |-> Len(events) + 1]

NewChunk(whole, newline) ==
    [id |-> NewEvent.id, seq |-> NewEvent.seq, whole |-> whole, newline |-> newline]

AppendEvent(a) ==
    /\ mode = "up"
    /\ ~append[a].busy
    /\ Len(wal) < MaxEvents
    /\ wal' = Append(wal, NewChunk(TRUE, TRUE))
    /\ events' = Append(events, NewEvent)
    /\ append' = [append EXCEPT ![a] =
            [busy |-> TRUE, event |-> NewEvent, left |-> registered, dead |-> {}]]
    /\ UNCHANGED <<mode, registered, sub, acked, faults>>

(* appendWAL fails; what reached the file stays there. *)
AppendFails(a) ==
    /\ mode = "up"
    /\ ~append[a].busy
    /\ Len(wal) < MaxEvents
    /\ Fault
    /\ \E whole, newline \in BOOLEAN :
          /\ newline => whole
          /\ wal' = Append(wal, NewChunk(whole, newline))
    /\ UNCHANGED <<mode, events, registered, append, sub, acked>>

(* One send of the fan-out. *)
FanOut(a, s) ==
    /\ s \in append[a].left
    /\ \E b \in SendResults(sub[s], append[a].event) :
          /\ sub' = [sub EXCEPT ![s] = b]
          /\ append' = [append EXCEPT ![a].left = @ \ {s},
                                      ![a].dead = IF b.closed THEN @ \cup {s} ELSE @]
    /\ UNCHANGED <<wal, mode, events, registered, acked, faults>>

AppendReturns(a) ==
    /\ append[a].busy
    /\ append[a].left = {}
    /\ registered' = registered \ append[a].dead
    /\ acked' = acked \cup {append[a].event.id}
    /\ append' = [append EXCEPT ![a] = Idle]
    /\ UNCHANGED <<wal, mode, events, sub, faults>>

-----------------------------------------------------------------------------
(* Subscribe.  A client comes back with the last sequence it has read, as   *)
(* the overflow error tells it to.                                          *)

LastRead(b) == IF b.got = <<>> THEN 0 ELSE b.got[Len(b.got)].seq

(* The events numbered above `after`: numbers ascend along the index, so    *)
(* they are its end.                                                        *)
Snapshot(after) ==
    LET known == {i \in 1..Len(events) : events[i].seq <= after}
    IN  SubSeq(events, Cardinality(known) + 1, Len(events))

(* No append can still reach the client's previous subscriber: it is        *)
(* closed, and a send to it changes nothing.                                *)
Subscribe(s) ==
    LET after == LastRead(sub[s]) IN
    /\ mode = "up"
    /\ sub[s].closed
    /\ sub[s].ch = <<>>
    /\ sub[s].phase # "replaying"
    /\ sub' = [sub EXCEPT ![s] =
            [phase |-> "replaying", replay |-> Snapshot(after), ch |-> <<>>,
             cursor |-> after, closed |-> FALSE, got |-> sub[s].got]]
    /\ registered' = registered \cup {s}
    /\ append' = [a \in Appenders |->
            [append[a] EXCEPT !.left = @ \ {s}, !.dead = @ \ {s}]]
    /\ UNCHANGED <<wal, mode, events, acked, faults>>

(* One send of the replay, before Subscribe has returned the channel. *)
Replay(s) ==
    LET b == sub[s] IN
    /\ b.phase = "replaying"
    /\ b.replay # <<>>
    /\ \E r \in SendResults(b, Head(b.replay)) :
          /\ sub' = [sub EXCEPT ![s] =
                IF r.closed THEN [r EXCEPT !.phase = "live", !.replay = <<>>]
                            ELSE [r EXCEPT !.replay = Tail(@)]]
          /\ registered' = IF r.closed THEN registered \ {s} ELSE registered
    /\ UNCHANGED <<wal, mode, events, append, acked, faults>>

SubscribeReturns(s) ==
    /\ sub[s].phase = "replaying"
    /\ sub[s].replay = <<>>
    /\ sub' = [sub EXCEPT ![s].phase = "live"]
    /\ UNCHANGED <<wal, mode, events, registered, append, acked, faults>>

(* The client reads its channel; a closed channel still gives what it holds. *)
Receive(s) ==
    /\ sub[s].phase = "live"
    /\ sub[s].ch # <<>>
    /\ sub' = [sub EXCEPT ![s].ch = Tail(@), ![s].got = Append(@, Head(sub[s].ch))]
    /\ UNCHANGED <<wal, mode, events, registered, append, acked, faults>>

(* The client's context ends; it may come back later. *)
CancelContext(s) ==
    /\ sub[s].phase # "none"
    /\ ~sub[s].closed
    /\ Fault
    /\ sub' = [sub EXCEPT ![s] = [NoSub EXCEPT !.got = sub[s].got]]
    /\ registered' = registered \ {s}
    /\ UNCHANGED <<wal, mode, events, append, acked>>

-----------------------------------------------------------------------------
(* Close, crash and recovery. *)

CloseStore ==
    /\ mode = "up"
    /\ Fault
    /\ mode' = "closed"
    /\ sub' = [s \in Subscribers |-> IF s \in registered THEN Closed(sub[s]) ELSE sub[s]]
    /\ registered' = {}
    /\ UNCHANGED <<wal, events, append, acked>>

(* The process ends, possibly in the middle of appendWAL. *)
Crash ==
    /\ mode \in {"up", "closed"}
    /\ Fault
    /\ \/ UNCHANGED wal
       \/ /\ mode = "up"
          /\ Len(wal) < MaxEvents
          /\ \E whole, newline \in BOOLEAN :
                /\ newline => whole
                /\ wal' = Append(wal, NewChunk(whole, newline))
    /\ mode' = "down"
    /\ events' = <<>>
    /\ registered' = {}
    /\ append' = [a \in Appenders |-> Idle]
    /\ sub' = [s \in Subscribers |-> [NoSub EXCEPT !.got = sub[s].got]]
    /\ UNCHANGED acked

(* Every line of the log parses. *)
Readable(f) == \A i \in 1..Len(f) : f[i].whole /\ (i < Len(f) => f[i].newline)

(* Mutant: an index by sequence number, in which the first one wins. *)
RecoveredBySequence(f) ==
    SelectSeq(Lines(f), LAMBDA e : \A i \in 1..Len(f) : f[i].seq = e.seq => e.id <= f[i].id)

(* recoverWALFile: the records as they stand, duplicate numbers included. *)
Recovered(f) == Lines(f)

(* NewDurableEventStore; a corrupt line keeps the store from opening, and   *)
(* the daemon goes on without it.                                           *)
Recover ==
    /\ mode = "down"
    /\ IF Readable(wal)
       THEN mode' = "up" /\ events' = Recovered(wal)
       ELSE mode' = "unreadable" /\ UNCHANGED events
    /\ UNCHANGED <<wal, registered, append, sub, acked, faults>>

-----------------------------------------------------------------------------
Next ==
    \/ \E a \in Appenders :
          \/ AppendEvent(a)
          \/ AppendFails(a)
          \/ \E s \in Subscribers : FanOut(a, s)
          \/ AppendReturns(a)
    \/ \E s \in Subscribers :
          \/ Subscribe(s)
          \/ Replay(s)
          \/ SubscribeReturns(s)
          \/ Receive(s)
          \/ CancelContext(s)
    \/ CloseStore
    \/ Crash
    \/ Recover

(* Goroutines inside Append and Subscribe are scheduled, and a connected    *)
(* client reads its channel.  Nobody has to append or subscribe.            *)
Fairness ==
    /\ \A a \in Appenders :
          /\ \A s \in Subscribers : WF_vars(FanOut(a, s))
          /\ WF_vars(AppendReturns(a))
    /\ \A s \in Subscribers :
          /\ WF_vars(Replay(s))
          /\ WF_vars(SubscribeReturns(s))
          /\ WF_vars(Receive(s))

Spec == Init /\ [][Next]_vars

FairSpec == Spec /\ Fairness

-----------------------------------------------------------------------------
(* Properties *)

(* Whenever the store is open, after any number of crashes and failed       *)
(* writes, its index holds every event whose Append returned (Append writes *)
(* the log before it answers; recoverWALFile).                              *)
AckedSurvives ==
    mode = "up" => \A id \in acked : \E i \in 1..Len(events) : events[i].id = id

(* The abstract feed: its order is the order of the log's records.          *)
Feed == INSTANCE EventFeed WITH
            Readers  <- Subscribers,
            Events   <- Ids,
            feed     <- [i \in 1..Len(wal) |-> wal[i].id],
            received <- [s \in Subscribers |-> [i \in 1..Len(sub[s].got) |-> sub[s].got[i].id]]

(* Interleaved fan-outs and replays, overflow, reconnection with a cursor,  *)
(* crashes and reused sequence numbers never show a client an event twice   *)
(* or after a later one (subscriber.send, Subscribe, recoverWALFile).       *)
ImplementsFeed == Feed!Spec

(* An event that is in the index while a client is subscribed does not      *)
(* stall: the client's cursor passes it or its channel is closed (the       *)
(* overflow timeout of subscriber.send).                                    *)
NeverStalls ==
    \A s \in Subscribers, n \in Ids :
        (s \in registered /\ mode = "up" /\ \E i \in 1..Len(events) : events[i].seq >= n)
            ~> (sub[s].closed \/ sub[s].cursor >= n \/ mode # "up")

=============================================================================

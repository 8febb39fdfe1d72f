-------------------------- MODULE EventStoreProofs --------------------------
(***************************************************************************)
(* The event store is correct for any number of appenders, subscribers,    *)
(* events, faults and any buffer size: an acknowledged event survives      *)
(* every restart, and the store implements EventFeed.                      *)
(*                                                                         *)
(* The channels are filtered by sequence number, the feed is ordered by    *)
(* place in the log.  The two agree because the numbers never descend      *)
(* along the log (NumbersAscend), although a failed write may leave one    *)
(* number twice.                                                           *)
(***************************************************************************)
EXTENDS EventStore, TLAPS, FiniteSetTheorems

AppendLocals ==
    [busy : BOOLEAN, event : Event \cup {Idle.event}, left : SUBSET Subscribers,
     dead : SUBSET Subscribers]

SubLocals ==
    [phase : {"none", "replaying", "live"}, replay : Seq(Event), ch : Seq(Event), cursor : Nat,
     closed : BOOLEAN, got : Seq(Event)]

TypeInv ==
    /\ wal \in Seq(Chunk)
    /\ mode \in {"up", "closed", "down", "unreadable"}
    /\ events \in Seq(Event)
    /\ registered \subseteq Subscribers
    /\ append \in [Appenders -> AppendLocals]
    /\ sub \in [Subscribers -> SubLocals]
    /\ acked \subseteq Ids
    /\ faults \in 0..MaxFaults

(* The log is not longer than its bound, the index not longer than the log. *)
Bounds ==
    /\ Len(wal) <= MaxEvents
    /\ Len(events) <= Len(wal)
    /\ \A s \in Subscribers : Len(sub[s].ch) <= BufferSize

(* An Append that is under way has its event; the others have no locals. *)
Appending ==
    \A a \in Appenders : IF append[a].busy THEN append[a].event \in Event ELSE append[a] = Idle

(* A record's id is its place, a number is not above its place, numbers do   *)
(* not descend, and none is above the one the next append will use.         *)
NumbersAscend ==
    /\ \A i \in 1..Len(wal) : wal[i].id = i /\ wal[i].seq <= i
    /\ \A i, j \in 1..Len(wal) : i < j => wal[i].seq <= wal[j].seq
    /\ mode = "up" => \A i \in 1..Len(wal) : wal[i].seq <= Len(events) + 1

(* The event is the one at its place in the log. *)
InLog(f, e) == e.id \in 1..Len(f) /\ f[e.id].seq = e.seq

AllInLog(f, es) == \A i \in 1..Len(es) : InLog(f, es[i])

(* Everything in flight is in the log. *)
SubInLog(f, b) == AllInLog(f, b.replay) /\ AllInLog(f, b.ch) /\ AllInLog(f, b.got)

FromLog ==
    /\ AllInLog(wal, events)
    /\ \A a \in Appenders : append[a].busy => InLog(wal, append[a].event)
    /\ \A s \in Subscribers : SubInLog(wal, sub[s])

(* An acknowledged event, or one whose Append is under way, is in the index *)
(* of an open store.                                                        *)
Indexed(es, id) == \E i \in 1..Len(es) : es[i].id = id

Kept ==
    /\ \A id \in acked : id \in 1..Len(wal)
    /\ mode = "up" => /\ \A id \in acked : Indexed(events, id)
                      /\ \A a \in Appenders : append[a].busy => Indexed(events, append[a].event.id)

(* What a subscriber's channel holds is ascending and behind what the       *)
(* client has read; an open one's cursor has passed all of it.              *)
Ascending(b) ==
    /\ \A i, j \in 1..Len(b.ch) : i < j => b.ch[i].seq < b.ch[j].seq
    /\ \A i \in 1..Len(b.ch) : LastRead(b) < b.ch[i].seq
    /\ ~b.closed => /\ LastRead(b) <= b.cursor
                    /\ \A i \in 1..Len(b.ch) : b.ch[i].seq <= b.cursor

Ordered == \A s \in Subscribers : Ascending(sub[s])

Inv == TypeInv /\ Bounds /\ Appending /\ NumbersAscend /\ FromLog /\ Kept /\ Ordered

-----------------------------------------------------------------------------
(* The operators. *)

(* A record that is in the log stays in a log that is appended to. *)
LEMMA InLogGrows ==
    ASSUME NEW f \in Seq(Chunk), NEW c \in Chunk, NEW e, InLog(f, e)
    PROVE  InLog(Append(f, c), e)
BY DEF InLog

(* A write to the log, whole or not, keeps the numbers ascending. *)
LEMMA LogGrows ==
    ASSUME Inv, mode = "up", Len(wal) < MaxEvents,
           NEW whole \in BOOLEAN, NEW newline \in BOOLEAN,
           wal' = Append(wal, NewChunk(whole, newline))
    PROVE  /\ NewEvent \in Event
           /\ wal' \in Seq(Chunk)
           /\ Len(wal') = Len(wal) + 1
           /\ wal'[Len(wal')].id = NewEvent.id
           /\ wal'[Len(wal')].seq = NewEvent.seq
           /\ \A i \in 1..Len(wal) : wal'[i] = wal[i]
           /\ \A i \in 1..Len(wal') : /\ wal'[i].id = i
                                      /\ wal'[i].seq <= i
                                      /\ wal'[i].seq <= Len(events) + 1
           /\ \A i, j \in 1..Len(wal') : i < j => wal'[i].seq <= wal'[j].seq
           /\ \A e : InLog(wal, e) => InLog(wal', e)
<1> USE EventStoreAssumption
<1> DEFINE c == NewChunk(whole, newline)
<1>1. Len(wal) \in Nat /\ Len(events) \in Nat /\ Len(wal) + 1 \in Ids /\ Len(events) + 1 \in Ids
      BY DEF Inv, TypeInv, Bounds, Ids
<1>2. NewEvent \in Event /\ c \in Chunk
      BY <1>1 DEF NewEvent, NewChunk, Event, Chunk
<1>3. /\ wal' \in Seq(Chunk)
      /\ Len(wal') = Len(wal) + 1
      /\ wal'[Len(wal) + 1] = c
      /\ \A i \in 1..Len(wal) : wal'[i] = wal[i]
      BY <1>2 DEF Inv, TypeInv
<1>4. c.id = Len(wal) + 1 /\ c.seq = Len(events) + 1
      BY DEF NewChunk, NewEvent
<1>5. \A i \in 1..Len(wal) : wal[i].id = i /\ wal[i].seq <= i /\ wal[i].seq <= Len(events) + 1
      BY DEF Inv, NumbersAscend
<1>6. \A i \in 1..Len(wal') : wal'[i].id = i /\ wal'[i].seq <= i /\ wal'[i].seq <= Len(events) + 1
  <2> TAKE i \in 1..Len(wal')
  <2>1. CASE i \in 1..Len(wal)
        BY <1>3, <1>5, <2>1
  <2>2. CASE i = Len(wal) + 1
        BY <1>1, <1>3, <1>4, <2>2 DEF Inv, Bounds
  <2> QED
      BY <1>1, <1>3, <2>1, <2>2
<1>7. \A i, j \in 1..Len(wal') : i < j => wal'[i].seq <= wal'[j].seq
  <2> SUFFICES ASSUME NEW i \in 1..Len(wal'), NEW j \in 1..Len(wal'), i < j
               PROVE  wal'[i].seq <= wal'[j].seq
      OBVIOUS
  <2>1. CASE j \in 1..Len(wal)
        BY <1>1, <1>3, <2>1 DEF Inv, NumbersAscend
  <2>2. CASE j = Len(wal) + 1
        BY <1>1, <1>3, <1>4, <1>5, <2>2
  <2> QED
      BY <1>1, <1>3, <2>1, <2>2, SMTT(30)
<1>8. \A e : InLog(wal, e) => InLog(wal', e)
      BY <1>2, InLogGrows DEF Inv, TypeInv
<1> HIDE DEF c
<1> QED
    BY <1>1, <1>2, <1>3, <1>4, <1>6, <1>7, <1>8 DEF NewEvent

(* subscriber.send keeps a subscriber ordered and within its buffer. *)
LEMMA SendKeepsOrder ==
    ASSUME NEW b \in SubLocals, NEW e \in Event, NEW r \in SendResults(b, e), NEW f,
           Ascending(b), Len(b.ch) <= BufferSize, AllInLog(f, b.ch), InLog(f, e)
    PROVE  /\ r \in SubLocals
           /\ Ascending(r)
           /\ Len(r.ch) <= BufferSize
           /\ AllInLog(f, r.ch)
           /\ r.got = b.got /\ r.replay = b.replay /\ r.phase = b.phase
<1> USE EventStoreAssumption
<1>1. CASE r = b
      BY <1>1
<1>2. CASE r = Closed(b)
      BY <1>2 DEF Closed, SubLocals, Ascending, LastRead
<1>3. CASE ~b.closed /\ ~Seen(b, e) /\ Len(b.ch) < BufferSize /\ r = Pushed(b, e)
  <2>1. /\ b.ch \in Seq(Event) /\ b.cursor \in Nat /\ e.seq \in Nat /\ e.seq > b.cursor
        /\ b.got \in Seq(Event) /\ Len(b.ch) \in Nat
        BY <1>3 DEF Seen, SubLocals, Event, Ids
  <2>2. /\ r.ch = Append(b.ch, e) /\ r.cursor = e.seq /\ r.got = b.got /\ r.replay = b.replay
        /\ r.phase = b.phase /\ r.closed = b.closed /\ r \in SubLocals
    <3> DEFINE ch == Append(b.ch, e)
    <3>1. ch \in Seq(Event)
          BY <2>1
    <3>2. r = [[b EXCEPT !.ch = ch] EXCEPT !.cursor = e.seq]
          BY <1>3 DEF Pushed
    <3> HIDE DEF ch
    <3>3. [b EXCEPT !.ch = ch] \in SubLocals
          BY <3>1 DEF SubLocals
    <3>4. r \in SubLocals
          BY <2>1, <3>2, <3>3 DEF SubLocals
    <3>5. /\ r.ch = ch /\ r.cursor = e.seq /\ r.got = b.got /\ r.replay = b.replay
          /\ r.phase = b.phase /\ r.closed = b.closed
          BY <3>2 DEF SubLocals
    <3> QED
        BY <3>4, <3>5 DEF ch
  <2>3. /\ Len(r.ch) = Len(b.ch) + 1
        /\ r.ch[Len(b.ch) + 1] = e
        /\ \A i \in 1..Len(b.ch) : r.ch[i] = b.ch[i]
        BY <2>1, <2>2
  <2>4. LastRead(r) = LastRead(b) /\ LastRead(b) \in Nat /\ LastRead(b) <= b.cursor
    <3>1. b.got # <<>> => b.got[Len(b.got)] \in Event
          BY <2>1
    <3>2. LastRead(b) \in Nat
          BY <3>1 DEF LastRead, Event, Ids
    <3>3. LastRead(r) = LastRead(b)
          BY <2>2 DEF LastRead
    <3> QED
        BY <1>3, <3>2, <3>3 DEF Ascending
  <2>5. \A i \in 1..Len(b.ch) : b.ch[i].seq \in Nat /\ b.ch[i].seq <= b.cursor
    <3>1. \A i \in 1..Len(b.ch) : b.ch[i] \in Event
          BY <2>1
    <3> QED
        BY <1>3, <3>1 DEF Ascending, Event, Ids
  <2>6. Ascending(r)
    <3>1. ASSUME NEW i \in 1..Len(r.ch), NEW j \in 1..Len(r.ch), i < j
          PROVE  r.ch[i].seq < r.ch[j].seq
      <4>0. i \in 1..Len(b.ch) /\ r.ch[i] = b.ch[i]
            BY <2>1, <2>3, <3>1, SMTT(30)
      <4>1. CASE j \in 1..Len(b.ch)
        <5>1. b.ch[i].seq < b.ch[j].seq
              BY <3>1, <4>0, <4>1 DEF Ascending
        <5> QED
            BY <2>3, <4>0, <4>1, <5>1
      <4>2. CASE j = Len(b.ch) + 1
        <5>1. b.ch[i].seq < e.seq
              BY <2>1, <2>5, <4>0
        <5> QED
            BY <2>3, <4>0, <4>2, <5>1
      <4> QED
          BY <2>1, <2>3, <4>1, <4>2
    <3>2. ASSUME NEW i \in 1..Len(r.ch)
          PROVE  LastRead(r) < r.ch[i].seq /\ r.ch[i].seq <= r.cursor
      <4>1. CASE i \in 1..Len(b.ch)
            BY <2>1, <2>2, <2>3, <2>4, <2>5, <4>1 DEF Ascending
      <4>2. CASE i = Len(b.ch) + 1
            BY <2>1, <2>2, <2>3, <2>4, <4>2
      <4> QED
          BY <2>1, <2>3, <4>1, <4>2
    <3>3. LastRead(r) <= r.cursor
          BY <2>1, <2>2, <2>4
    <3> QED
        BY <3>1, <3>2, <3>3 DEF Ascending
  <2>7. AllInLog(f, r.ch)
    <3> SUFFICES ASSUME NEW i \in 1..Len(r.ch) PROVE InLog(f, r.ch[i])
        BY DEF AllInLog
    <3>1. CASE i \in 1..Len(b.ch)
          BY <2>3, <3>1 DEF AllInLog
    <3>2. CASE i = Len(b.ch) + 1
          BY <2>3, <3>2
    <3> QED
        BY <2>1, <2>3, <3>1, <3>2
  <2> QED
      BY <1>3, <2>1, <2>2, <2>3, <2>6, <2>7
<1> QED
    BY <1>1, <1>2, <1>3 DEF SendResults

(* A snapshot is made of indexed events. *)
LEMMA SnapshotOfIndex ==
    ASSUME NEW after, events \in Seq(Event), NEW f, AllInLog(f, events)
    PROVE  Snapshot(after) \in Seq(Event) /\ AllInLog(f, Snapshot(after))
<1> DEFINE known == {i \in 1..Len(events) : events[i].seq <= after}
           n == Cardinality(known)
<1>1. Len(events) \in Nat
      OBVIOUS
<1>2. IsFiniteSet(1..Len(events)) /\ Cardinality(1..Len(events)) = Len(events)
      BY <1>1, FS_Interval, SMTT(30)
<1>3. n \in Nat
      BY <1>2, FS_Subset, FS_CardinalityType
<1> HIDE DEF n
<1>4. SubSeq(events, n + 1, Len(events)) \in Seq(Event)
      BY <1>1, <1>3
<1>5. \A i \in 1..Len(SubSeq(events, n + 1, Len(events))) :
         \E j \in 1..Len(events) : SubSeq(events, n + 1, Len(events))[i] = events[j]
      BY <1>1, <1>3
<1>6. Snapshot(after) = SubSeq(events, n + 1, Len(events))
      BY DEF Snapshot, n
<1> QED
    BY <1>4, <1>5, <1>6 DEF AllInLog

-----------------------------------------------------------------------------
(* The invariant is inductive. *)

(* It holds at the start. *)
LEMMA Initially == Init => Inv
<1> SUFFICES ASSUME Init PROVE Inv
    OBVIOUS
<1> USE EventStoreAssumption DEF Init
<1>1. NoSub \in SubLocals /\ Idle \in AppendLocals
      BY DEF NoSub, SubLocals, Idle, AppendLocals
<1>2. TypeInv
      BY <1>1 DEF TypeInv
<1>3. Bounds /\ Appending /\ NumbersAscend /\ Kept
      BY DEF Bounds, Appending, NumbersAscend, Kept, NoSub, Idle
<1>4. FromLog /\ Ordered
      BY DEF FromLog, SubInLog, AllInLog, Ordered, Ascending, NoSub, Idle
<1> QED
    BY <1>2, <1>3, <1>4 DEF Inv

(* A step that gives one subscriber new locals and leaves log, index and    *)
(* mode alone.                                                              *)
LEMMA SubscriberStep ==
    ASSUME Inv, NEW s \in Subscribers, NEW b \in SubLocals,
           Ascending(b), Len(b.ch) <= BufferSize, SubInLog(wal, b),
           sub' = [sub EXCEPT ![s] = b], UNCHANGED <<wal, mode, events>>
    PROVE  /\ sub' \in [Subscribers -> SubLocals]
           /\ Bounds' /\ NumbersAscend' /\ Ordered'
           /\ \A t \in Subscribers : SubInLog(wal', sub'[t])
<1>1. sub \in [Subscribers -> SubLocals]
      BY DEF Inv, TypeInv
<1>2. \A t \in Subscribers : sub'[t] = IF t = s THEN b ELSE sub[t]
      BY <1>1
<1>3. sub' \in [Subscribers -> SubLocals]
      BY <1>1
<1>4. Bounds'
      BY <1>2 DEF Inv, Bounds
<1>5. NumbersAscend'
      BY DEF Inv, NumbersAscend
<1>6. Ordered'
      BY <1>2 DEF Inv, Ordered
<1>7. \A t \in Subscribers : SubInLog(wal', sub'[t])
      BY <1>2 DEF Inv, FromLog, SubInLog
<1> QED
    BY <1>3, <1>4, <1>5, <1>6, <1>7

(* Append writes the log, then the index. *)
LEMMA AppendEventStep ==
    ASSUME Inv, NEW a \in Appenders, AppendEvent(a) PROVE Inv'
<1> USE EventStoreAssumption
<1> DEFINE new == [busy |-> TRUE, event |-> NewEvent, left |-> registered, dead |-> {}]
<1>1. /\ mode = "up" /\ mode' = mode /\ Len(wal) < MaxEvents
      /\ wal' = Append(wal, NewChunk(TRUE, TRUE))
      /\ events' = Append(events, NewEvent)
      /\ append' = [append EXCEPT ![a] = new]
      /\ UNCHANGED <<registered, sub, acked, faults>>
      BY DEF AppendEvent
<1>2. /\ NewEvent \in Event
      /\ wal' \in Seq(Chunk)
      /\ Len(wal') = Len(wal) + 1
      /\ \A i \in 1..Len(wal') : /\ wal'[i].id = i
                                 /\ wal'[i].seq <= i
                                 /\ wal'[i].seq <= Len(events) + 1
      /\ \A i, j \in 1..Len(wal') : i < j => wal'[i].seq <= wal'[j].seq
      /\ \A e : InLog(wal, e) => InLog(wal', e)
      BY <1>1, LogGrows
<1>3. InLog(wal', NewEvent)
  <2>1. /\ wal'[Len(wal')].seq = NewEvent.seq
        /\ Len(wal') = Len(wal) + 1
        BY <1>1, LogGrows
  <2> QED
      BY <2>1 DEF InLog, NewEvent, Inv, TypeInv
<1>4. /\ events \in Seq(Event) /\ Len(events) \in Nat /\ Len(wal) \in Nat
      /\ append \in [Appenders -> AppendLocals]
      /\ Len(events) <= Len(wal)
      BY DEF Inv, TypeInv, Bounds
<1>5. /\ events' \in Seq(Event)
      /\ Len(events') = Len(events) + 1
      /\ events'[Len(events) + 1] = NewEvent
      /\ \A i \in 1..Len(events) : events'[i] = events[i]
      BY <1>1, <1>2, <1>4
<1>6. /\ new \in AppendLocals
      /\ append' \in [Appenders -> AppendLocals]
      /\ \A x \in Appenders : append'[x] = IF x = a THEN new ELSE append[x]
  <2>1. new \in AppendLocals
        BY <1>2 DEF AppendLocals, Inv, TypeInv
  <2> HIDE DEF new
  <2> QED
      BY <1>1, <1>4, <2>1
<1>7. TypeInv'
      BY <1>1, <1>2, <1>5, <1>6 DEF Inv, TypeInv
<1>8. Bounds'
      BY <1>1, <1>2, <1>4, <1>5 DEF Inv, Bounds
<1>9. Appending'
      BY <1>2, <1>6 DEF Inv, Appending
<1>10. NumbersAscend'
  <2>0. \A i \in 1..Len(wal') : wal'[i] \in Chunk
        BY <1>2
  <2>1. \A i \in 1..Len(wal') : wal'[i].seq \in Nat
        BY <2>0 DEF Chunk, Ids
  <2> QED
      BY <1>2, <1>4, <1>5, <2>1 DEF NumbersAscend
<1>11. FromLog'
  <2>1. AllInLog(wal, events)'
    <3> SUFFICES ASSUME NEW i \in 1..Len(events') PROVE InLog(wal', events'[i])
        BY DEF AllInLog
    <3>1. CASE i \in 1..Len(events)
          BY <1>2, <1>5, <3>1 DEF Inv, FromLog, AllInLog
    <3>2. CASE i = Len(events) + 1
          BY <1>3, <1>5, <3>2
    <3> QED
        BY <1>4, <1>5, <3>1, <3>2
  <2>2. \A x \in Appenders : append'[x].busy => InLog(wal', append'[x].event)
        BY <1>2, <1>3, <1>6 DEF Inv, FromLog
  <2>3. \A s \in Subscribers : SubInLog(wal', sub'[s])
        BY <1>1, <1>2 DEF Inv, FromLog, SubInLog, AllInLog
  <2> QED
      BY <2>1, <2>2, <2>3 DEF FromLog
<1>12. Kept'
  <2>1. \A id : Indexed(events, id) => Indexed(events', id)
        BY <1>4, <1>5 DEF Indexed
  <2>2. Indexed(events', NewEvent.id)
        BY <1>4, <1>5 DEF Indexed
  <2>3. \A id \in acked' : id \in 1..Len(wal')
        BY <1>1, <1>2, <1>4 DEF Inv, Kept
  <2>4. \A id \in acked' : Indexed(events', id)
        BY <1>1, <2>1 DEF Inv, Kept
  <2>5. \A x \in Appenders : append'[x].busy => Indexed(events', append'[x].event.id)
        BY <1>1, <1>6, <2>1, <2>2 DEF Inv, Kept
  <2> QED
      BY <2>3, <2>4, <2>5 DEF Kept
<1>13. Ordered'
      BY <1>1 DEF Inv, Ordered
<1> QED
    BY <1>7, <1>8, <1>9, <1>10, <1>11, <1>12, <1>13 DEF Inv

(* appendWAL fails and leaves what it wrote in the file. *)
LEMMA AppendFailsStep ==
    ASSUME Inv, NEW a \in Appenders, AppendFails(a) PROVE Inv'
<1> USE EventStoreAssumption
<1>1. /\ mode = "up" /\ Len(wal) < MaxEvents /\ faults < MaxFaults /\ faults' = faults + 1
      /\ UNCHANGED <<mode, events, registered, append, sub, acked>>
      BY DEF AppendFails, Fault
<1>2. PICK whole \in BOOLEAN, newline \in BOOLEAN :
         wal' = Append(wal, NewChunk(whole, newline))
      BY DEF AppendFails
<1>3. /\ wal' \in Seq(Chunk)
      /\ Len(wal') = Len(wal) + 1
      /\ \A i \in 1..Len(wal') : /\ wal'[i].id = i
                                 /\ wal'[i].seq <= i
                                 /\ wal'[i].seq <= Len(events) + 1
      /\ \A i, j \in 1..Len(wal') : i < j => wal'[i].seq <= wal'[j].seq
      /\ \A e : InLog(wal, e) => InLog(wal', e)
      BY <1>1, <1>2, LogGrows
<1>4. Len(events) \in Nat /\ Len(wal) \in Nat /\ Len(events) <= Len(wal)
      BY DEF Inv, TypeInv, Bounds
<1>5. TypeInv'
      BY <1>1, <1>3 DEF Inv, TypeInv
<1>6. Bounds' /\ Appending'
      BY <1>1, <1>3, <1>4 DEF Inv, Bounds, Appending
<1>7. NumbersAscend'
      BY <1>1, <1>3 DEF NumbersAscend
<1>8. FromLog'
      BY <1>1, <1>3 DEF Inv, FromLog, SubInLog, AllInLog
<1>9. Kept'
      BY <1>1, <1>3, <1>4 DEF Inv, Kept
<1>10. Ordered'
      BY <1>1 DEF Inv, Ordered
<1> QED
    BY <1>5, <1>6, <1>7, <1>8, <1>9, <1>10 DEF Inv

(* A step that at most ends some appends. *)
LEMMA AppendersStep ==
    ASSUME Inv, append' \in [Appenders -> AppendLocals], UNCHANGED <<wal, mode, events>>,
           \A x \in Appenders :
              IF append'[x].busy THEN append[x].busy /\ append'[x].event = append[x].event
                                 ELSE append'[x] = Idle
    PROVE  /\ Appending'
           /\ \A x \in Appenders : append'[x].busy => InLog(wal', append'[x].event)
           /\ mode' = "up" =>
                \A x \in Appenders : append'[x].busy => Indexed(events', append'[x].event.id)
<1>1. Appending'
      BY DEF Inv, Appending
<1>2. \A x \in Appenders : append'[x].busy => InLog(wal', append'[x].event)
      BY DEF Inv, FromLog
<1>3. mode' = "up" =>
         \A x \in Appenders : append'[x].busy => Indexed(events', append'[x].event.id)
      BY DEF Inv, Kept
<1> QED
    BY <1>1, <1>2, <1>3

(* One send of a fan-out. *)
LEMMA FanOutStep ==
    ASSUME Inv, NEW a \in Appenders, NEW s \in Subscribers, FanOut(a, s) PROVE Inv'
<1> USE EventStoreAssumption
<1>1. /\ s \in append[a].left
      /\ UNCHANGED <<wal, mode, events, registered, acked, faults>>
      BY DEF FanOut
<1>2. PICK b \in SendResults(sub[s], append[a].event) :
         /\ sub' = [sub EXCEPT ![s] = b]
         /\ append' = [append EXCEPT ![a].left = @ \ {s},
                                     ![a].dead = IF b.closed THEN @ \cup {s} ELSE @]
      BY DEF FanOut
<1>3. append \in [Appenders -> AppendLocals] /\ sub[s] \in SubLocals
      BY DEF Inv, TypeInv
<1>4. append[a].busy /\ append[a].event \in Event /\ InLog(wal, append[a].event)
  <2>1. append[a].busy
        BY <1>1 DEF Inv, Appending, Idle
  <2> QED
      BY <2>1 DEF Inv, Appending, FromLog
<1>5. /\ Ascending(sub[s]) /\ Len(sub[s].ch) <= BufferSize /\ SubInLog(wal, sub[s])
      BY DEF Inv, Ordered, Bounds, FromLog
<1>6. b \in SubLocals /\ Ascending(b) /\ Len(b.ch) <= BufferSize /\ SubInLog(wal, b)
  <2>1. AllInLog(wal, sub[s].ch)
        BY <1>5 DEF SubInLog
  <2>2. /\ b \in SubLocals /\ Ascending(b) /\ Len(b.ch) <= BufferSize /\ AllInLog(wal, b.ch)
        /\ b.got = sub[s].got /\ b.replay = sub[s].replay
        BY <1>2, <1>3, <1>4, <1>5, <2>1, SendKeepsOrder
  <2> QED
      BY <1>5, <2>2 DEF SubInLog
<1>7. /\ sub' \in [Subscribers -> SubLocals]
      /\ Bounds' /\ NumbersAscend' /\ Ordered'
      /\ \A t \in Subscribers : SubInLog(wal', sub'[t])
      BY <1>1, <1>2, <1>6, SubscriberStep
<1>8. /\ append' \in [Appenders -> AppendLocals]
      /\ \A x \in Appenders : append'[x].busy = append[x].busy /\ append'[x].event = append[x].event
      /\ \A x \in Appenders : x # a => append'[x] = append[x]
      BY <1>2, <1>3, ZenonT(40) DEF AppendLocals
<1>9. \A x \in Appenders :
         IF append'[x].busy THEN append[x].busy /\ append'[x].event = append[x].event
                            ELSE append'[x] = Idle
      BY <1>4, <1>8 DEF Inv, Appending
<1>10. /\ Appending'
       /\ \A x \in Appenders : append'[x].busy => InLog(wal', append'[x].event)
       /\ mode' = "up" =>
            \A x \in Appenders : append'[x].busy => Indexed(events', append'[x].event.id)
       BY <1>1, <1>8, <1>9, AppendersStep
<1>11. TypeInv'
       BY <1>1, <1>7, <1>8 DEF Inv, TypeInv
<1>12. FromLog' /\ Kept'
       BY <1>1, <1>7, <1>10 DEF Inv, FromLog, Kept
<1> QED
    BY <1>7, <1>10, <1>11, <1>12 DEF Inv

(* Append answers. *)
LEMMA AppendReturnsStep ==
    ASSUME Inv, NEW a \in Appenders, AppendReturns(a) PROVE Inv'
<1> USE EventStoreAssumption
<1>1. /\ append[a].busy
      /\ registered' = registered \ append[a].dead
      /\ acked' = acked \cup {append[a].event.id}
      /\ append' = [append EXCEPT ![a] = Idle]
      /\ UNCHANGED <<wal, mode, events, sub, faults>>
      BY DEF AppendReturns
<1>2. /\ append \in [Appenders -> AppendLocals] /\ Idle \in AppendLocals /\ ~Idle.busy
      BY DEF Inv, TypeInv, Idle, AppendLocals
<1>3. /\ append' \in [Appenders -> AppendLocals]
      /\ \A x \in Appenders : append'[x] = IF x = a THEN Idle ELSE append[x]
      BY <1>1, <1>2
<1>4. append[a].event \in Event /\ InLog(wal, append[a].event)
      BY <1>1 DEF Inv, Appending, FromLog
<1>5. \A x \in Appenders :
         IF append'[x].busy THEN append[x].busy /\ append'[x].event = append[x].event
                            ELSE append'[x] = Idle
      BY <1>2, <1>3 DEF Inv, Appending
<1>6. /\ Appending'
      /\ \A x \in Appenders : append'[x].busy => InLog(wal', append'[x].event)
      /\ mode' = "up" =>
           \A x \in Appenders : append'[x].busy => Indexed(events', append'[x].event.id)
      BY <1>1, <1>3, <1>5, AppendersStep
<1>7. TypeInv'
      BY <1>1, <1>3, <1>4 DEF Inv, TypeInv, Event
<1>8. Bounds' /\ NumbersAscend' /\ Ordered'
      BY <1>1 DEF Inv, Bounds, NumbersAscend, Ordered
<1>9. FromLog'
      BY <1>1, <1>6 DEF Inv, FromLog
<1>10. Kept'
       BY <1>1, <1>4, <1>6 DEF Inv, Kept, InLog
<1> QED
    BY <1>6, <1>7, <1>8, <1>9, <1>10 DEF Inv

(* Subscribe takes its snapshot and registers. *)
LEMMA SubscribeStep ==
    ASSUME Inv, NEW s \in Subscribers, Subscribe(s) PROVE Inv'
<1> USE EventStoreAssumption
<1> DEFINE after == LastRead(sub[s])
           b == [phase |-> "replaying", replay |-> Snapshot(after), ch |-> <<>>,
                 cursor |-> after, closed |-> FALSE, got |-> sub[s].got]
<1>1. /\ sub' = [sub EXCEPT ![s] = b]
      /\ registered' = registered \cup {s}
      /\ append' = [x \in Appenders |-> [append[x] EXCEPT !.left = @ \ {s}, !.dead = @ \ {s}]]
      /\ UNCHANGED <<wal, mode, events, acked, faults>>
      BY DEF Subscribe
<1>2. /\ append \in [Appenders -> AppendLocals] /\ sub[s] \in SubLocals
      /\ events \in Seq(Event) /\ AllInLog(wal, events) /\ SubInLog(wal, sub[s])
      BY DEF Inv, TypeInv, FromLog
<1>3. Snapshot(after) \in Seq(Event) /\ AllInLog(wal, Snapshot(after))
      BY <1>2, SnapshotOfIndex
<1>4. sub[s].got \in Seq(Event)
      BY <1>2 DEF SubLocals
<1>5. after \in Nat
  <2>1. sub[s].got # <<>> => sub[s].got[Len(sub[s].got)] \in Event
        BY <1>4
  <2> QED
      BY <2>1 DEF LastRead, Event, Ids
<1> HIDE DEF after
<1>6. b \in SubLocals
      BY <1>3, <1>4, <1>5 DEF SubLocals
<1>7. Len(b.ch) <= BufferSize /\ SubInLog(wal, b)
      BY <1>2, <1>3 DEF SubInLog, AllInLog
<1>8. Ascending(b)
  <2>1. LastRead(b) = after
        BY DEF LastRead, after
  <2> QED
      BY <1>5, <2>1 DEF Ascending
<1> HIDE DEF b
<1>9. /\ sub' \in [Subscribers -> SubLocals]
      /\ Bounds' /\ NumbersAscend' /\ Ordered'
      /\ \A t \in Subscribers : SubInLog(wal', sub'[t])
      BY <1>1, <1>6, <1>7, <1>8, SubscriberStep
<1>10. /\ append' \in [Appenders -> AppendLocals]
       /\ \A x \in Appenders : append'[x].busy = append[x].busy /\ append'[x].event = append[x].event
       BY <1>1, <1>2 DEF AppendLocals
<1>11. \A x \in Appenders :
         IF append'[x].busy THEN append[x].busy /\ append'[x].event = append[x].event
                            ELSE append'[x] = Idle
  <2> TAKE x \in Appenders
  <2>1. CASE append[x].busy
        BY <1>10, <2>1
  <2>2. CASE ~append[x].busy
    <3>1. append[x] = Idle
          BY <2>2 DEF Inv, Appending
    <3>2. append'[x].left = append[x].left /\ append'[x].dead = append[x].dead
      <4>1. append'[x].left = append[x].left \ {s} /\ append'[x].dead = append[x].dead \ {s}
            BY <1>1, <1>2 DEF AppendLocals
      <4>2. append[x].left = {} /\ append[x].dead = {}
            BY <3>1 DEF Idle
      <4> QED
          BY <4>1, <4>2
    <3>3. append'[x] \in AppendLocals /\ append[x] \in AppendLocals
          BY <1>2, <1>10
    <3>4. append'[x] = append[x]
          BY <1>10, <3>2, <3>3 DEF AppendLocals
    <3> QED
        BY <3>1, <3>4 DEF Idle
  <2> QED
      BY <2>1, <2>2
<1>12. /\ Appending'
       /\ \A x \in Appenders : append'[x].busy => InLog(wal', append'[x].event)
       /\ mode' = "up" =>
            \A x \in Appenders : append'[x].busy => Indexed(events', append'[x].event.id)
       BY <1>1, <1>10, <1>11, AppendersStep
<1>13. TypeInv'
       BY <1>1, <1>9, <1>10 DEF Inv, TypeInv
<1>14. FromLog' /\ Kept'
       BY <1>1, <1>9, <1>12 DEF Inv, FromLog, Kept
<1> QED
    BY <1>9, <1>12, <1>13, <1>14 DEF Inv

(* A step of one subscriber that leaves the appends alone. *)
LEMMA OwnStep ==
    ASSUME Inv, NEW s \in Subscribers, NEW b \in SubLocals,
           Ascending(b), Len(b.ch) <= BufferSize, SubInLog(wal, b),
           sub' = [sub EXCEPT ![s] = b], UNCHANGED <<wal, mode, events, append, acked>>,
           registered' \subseteq Subscribers, faults' \in 0..MaxFaults
    PROVE  Inv'
<1>1. /\ sub' \in [Subscribers -> SubLocals]
      /\ Bounds' /\ NumbersAscend' /\ Ordered'
      /\ \A t \in Subscribers : SubInLog(wal', sub'[t])
      BY SubscriberStep
<1>2. TypeInv' /\ Appending'
      BY <1>1 DEF Inv, TypeInv, Appending
<1>3. FromLog' /\ Kept'
      BY <1>1 DEF Inv, FromLog, Kept
<1> QED
    BY <1>1, <1>2, <1>3 DEF Inv

(* One send of a replay. *)
LEMMA ReplayStep ==
    ASSUME Inv, NEW s \in Subscribers, Replay(s) PROVE Inv'
<1> USE EventStoreAssumption
<1> DEFINE b == sub[s]
<1>1. b.replay # <<>> /\ UNCHANGED <<wal, mode, events, append, acked, faults>>
      BY DEF Replay
<1>2. PICK r \in SendResults(b, Head(b.replay)) :
         /\ sub' = [sub EXCEPT ![s] = IF r.closed
                                      THEN [r EXCEPT !.phase = "live", !.replay = <<>>]
                                      ELSE [r EXCEPT !.replay = Tail(@)]]
         /\ registered' = IF r.closed THEN registered \ {s} ELSE registered
      BY DEF Replay
<1>3. b \in SubLocals /\ Ascending(b) /\ Len(b.ch) <= BufferSize /\ SubInLog(wal, b)
      BY DEF Inv, TypeInv, Ordered, Bounds, FromLog
<1>4. b.replay \in Seq(Event) /\ AllInLog(wal, b.replay) /\ AllInLog(wal, b.ch)
      BY <1>3 DEF SubInLog, SubLocals
<1>5. Head(b.replay) \in Event /\ InLog(wal, Head(b.replay))
      BY <1>1, <1>4 DEF AllInLog
<1>6. Tail(b.replay) \in Seq(Event) /\ AllInLog(wal, Tail(b.replay))
      BY <1>1, <1>4 DEF AllInLog
<1> HIDE DEF b
<1>7. /\ r \in SubLocals /\ Ascending(r) /\ Len(r.ch) <= BufferSize /\ AllInLog(wal, r.ch)
      /\ r.got = b.got /\ r.replay = b.replay
      BY <1>2, <1>3, <1>4, <1>5, SendKeepsOrder
<1>8. registered' \subseteq Subscribers /\ faults' \in 0..MaxFaults
      BY <1>1, <1>2 DEF Inv, TypeInv
<1>9. CASE r.closed
  <2> DEFINE n == [r EXCEPT !.phase = "live", !.replay = <<>>]
  <2>1. /\ n \in SubLocals
        /\ n.ch = r.ch /\ n.got = r.got /\ n.closed = r.closed /\ n.replay = <<>>
    <3> DEFINE m == [r EXCEPT !.phase = "live"]
    <3>1. m \in SubLocals /\ m.ch = r.ch /\ m.got = r.got /\ m.closed = r.closed
          BY <1>7 DEF SubLocals
    <3> DEFINE none == <<>>
    <3>2. n = [m EXCEPT !.replay = none] /\ none \in Seq(Event)
          OBVIOUS
    <3> HIDE DEF m, n, none
    <3>3. n \in SubLocals
          BY <3>1, <3>2 DEF SubLocals
    <3>4. n.ch = m.ch /\ n.got = m.got /\ n.closed = m.closed /\ n.replay = none
          BY <3>1, <3>2 DEF SubLocals
    <3> QED
        BY <3>1, <3>3, <3>4 DEF none
  <2>2. sub' = [sub EXCEPT ![s] = n]
        BY <1>2, <1>9
  <2> HIDE DEF n
  <2>3. Ascending(n) /\ Len(n.ch) <= BufferSize
        BY <1>7, <1>9, <2>1 DEF Ascending, LastRead
  <2>4. SubInLog(wal, n)
        BY <1>3, <1>7, <2>1 DEF SubInLog, AllInLog
  <2> QED
      BY <1>1, <1>8, <2>1, <2>2, <2>3, <2>4, OwnStep
<1>10. CASE ~r.closed
  <2> DEFINE t == Tail(b.replay)
             n == [r EXCEPT !.replay = t]
  <2>0. t \in Seq(Event) /\ AllInLog(wal, t)
        BY <1>6
  <2>1. sub' = [sub EXCEPT ![s] = n]
        BY <1>2, <1>7, <1>10
  <2> HIDE DEF t
  <2>2. /\ n \in SubLocals
        /\ n.ch = r.ch /\ n.got = r.got /\ n.closed = r.closed /\ n.replay = t
        /\ n.cursor = r.cursor
        BY <1>7, <2>0 DEF SubLocals
  <2> HIDE DEF n
  <2>3. Ascending(n) /\ Len(n.ch) <= BufferSize
        BY <1>7, <2>2 DEF Ascending, LastRead
  <2>4. SubInLog(wal, n)
        BY <1>3, <1>7, <2>0, <2>2 DEF SubInLog
  <2> QED
      BY <1>1, <1>8, <2>1, <2>2, <2>3, <2>4, OwnStep
<1> QED
    BY <1>9, <1>10

(* Subscribe answers. *)
LEMMA SubscribeReturnsStep ==
    ASSUME Inv, NEW s \in Subscribers, SubscribeReturns(s) PROVE Inv'
<1> DEFINE b == sub[s]
           n == [b EXCEPT !.phase = "live"]
<1>1. UNCHANGED <<wal, mode, events, registered, append, acked, faults>>
      BY DEF SubscribeReturns
<1>2. b \in SubLocals /\ Ascending(b) /\ Len(b.ch) <= BufferSize /\ SubInLog(wal, b)
      BY DEF Inv, TypeInv, Ordered, Bounds, FromLog
<1>3. sub' = [sub EXCEPT ![s] = n]
      BY DEF SubscribeReturns
<1> HIDE DEF b
<1>4. /\ n \in SubLocals /\ n.ch = b.ch /\ n.got = b.got /\ n.closed = b.closed
      /\ n.replay = b.replay /\ n.cursor = b.cursor
      BY <1>2 DEF SubLocals
<1> HIDE DEF n
<1>5. Ascending(n) /\ Len(n.ch) <= BufferSize /\ SubInLog(wal, n)
      BY <1>2, <1>4 DEF Ascending, LastRead, SubInLog
<1>6. registered' \subseteq Subscribers /\ faults' \in 0..MaxFaults
      BY <1>1 DEF Inv, TypeInv
<1> QED
    BY <1>1, <1>3, <1>4, <1>5, <1>6, OwnStep

(* The client reads its channel: what it reads is behind all it has read. *)
LEMMA ReceiveStep ==
    ASSUME Inv, NEW s \in Subscribers, Receive(s) PROVE Inv'
<1> DEFINE b == sub[s]
           h == Head(b.ch)
           t == Tail(b.ch)
           g == Append(b.got, h)
           n == [b EXCEPT !.ch = t, !.got = g]
<1>1. b.ch # <<>> /\ UNCHANGED <<wal, mode, events, registered, append, acked, faults>>
      BY DEF Receive
<1>2. b \in SubLocals /\ Ascending(b) /\ Len(b.ch) <= BufferSize /\ SubInLog(wal, b)
      BY DEF Inv, TypeInv, Ordered, Bounds, FromLog
<1>3. sub' = [sub EXCEPT ![s] = n]
      BY DEF Receive
<1>4. b.ch \in Seq(Event) /\ b.got \in Seq(Event)
      BY <1>2 DEF SubLocals
<1> HIDE DEF b
<1>5. /\ h \in Event /\ t \in Seq(Event) /\ g \in Seq(Event)
      /\ h = b.ch[1] /\ Len(b.ch) >= 1 /\ Len(t) = Len(b.ch) - 1 /\ Len(b.ch) \in Nat
      /\ \A i \in 1..Len(t) : t[i] = b.ch[i + 1] /\ i + 1 \in 1..Len(b.ch)
      /\ g # <<>> /\ g[Len(g)] = h
      BY <1>1, <1>4
<1>6. AllInLog(wal, t) /\ AllInLog(wal, g)
  <2>1. AllInLog(wal, t) /\ InLog(wal, h)
        BY <1>2, <1>5 DEF SubInLog, AllInLog
  <2>2. AllInLog(wal, b.got)
        BY <1>2 DEF SubInLog
  <2> QED
      BY <1>4, <2>1, <2>2 DEF AllInLog
<1> HIDE DEF h, t, g
<1>7. /\ n \in SubLocals /\ n.ch = t /\ n.got = g /\ n.closed = b.closed
      /\ n.replay = b.replay /\ n.cursor = b.cursor
      BY <1>2, <1>5 DEF SubLocals
<1> HIDE DEF n
<1>8. SubInLog(wal, n) /\ Len(n.ch) <= BufferSize
      BY <1>2, <1>5, <1>6, <1>7, EventStoreAssumption DEF SubInLog
<1>9. LastRead(n) = h.seq
      BY <1>5, <1>7 DEF LastRead
<1>10. Ascending(n)
  <2>1. \A i, j \in 1..Len(t) : i < j => t[i].seq < t[j].seq
    <3> SUFFICES ASSUME NEW i \in 1..Len(t), NEW j \in 1..Len(t), i < j
                 PROVE  t[i].seq < t[j].seq
        OBVIOUS
    <3>1. i + 1 \in 1..Len(b.ch) /\ j + 1 \in 1..Len(b.ch) /\ i + 1 < j + 1
          BY <1>5
    <3>2. b.ch[i + 1].seq < b.ch[j + 1].seq
          BY <1>2, <3>1 DEF Ascending
    <3> QED
        BY <1>5, <3>2
  <2>2. \A i \in 1..Len(t) : h.seq < t[i].seq
    <3> TAKE i \in 1..Len(t)
    <3>1. 1 \in 1..Len(b.ch) /\ i + 1 \in 1..Len(b.ch) /\ 1 < i + 1
          BY <1>5
    <3>2. b.ch[1].seq < b.ch[i + 1].seq
          BY <1>2, <3>1 DEF Ascending
    <3> QED
        BY <1>5, <3>2
  <2>3. ~b.closed => h.seq <= b.cursor /\ \A i \in 1..Len(t) : t[i].seq <= b.cursor
    <3>1. 1 \in 1..Len(b.ch)
          BY <1>5
    <3> QED
        BY <1>2, <1>5, <3>1 DEF Ascending
  <2> QED
      BY <1>7, <1>9, <2>1, <2>2, <2>3 DEF Ascending
<1>11. registered' \subseteq Subscribers /\ faults' \in 0..MaxFaults
       BY <1>1 DEF Inv, TypeInv
<1> QED
    BY <1>1, <1>3, <1>7, <1>8, <1>10, <1>11, OwnStep

(* A subscriber that is gone, what its client has read apart. *)
LEMMA Gone ==
    ASSUME NEW b \in SubLocals, NEW f, SubInLog(f, b)
    PROVE  /\ [NoSub EXCEPT !.got = b.got] \in SubLocals
           /\ Ascending([NoSub EXCEPT !.got = b.got])
           /\ Len([NoSub EXCEPT !.got = b.got].ch) <= BufferSize
           /\ SubInLog(f, [NoSub EXCEPT !.got = b.got])
<1> DEFINE n == [NoSub EXCEPT !.got = b.got]
<1>1. NoSub \in SubLocals
      BY DEF NoSub, SubLocals
<1>2. n \in SubLocals
      BY <1>1 DEF SubLocals
<1>3. n.ch = <<>> /\ n.replay = <<>> /\ n.closed /\ n.got = b.got
      BY DEF NoSub
<1> HIDE DEF n
<1>4. Ascending(n) /\ Len(n.ch) <= BufferSize
      BY <1>3, EventStoreAssumption DEF Ascending
<1>5. SubInLog(f, n)
      BY <1>3 DEF SubInLog, AllInLog
<1> QED
    BY <1>2, <1>4, <1>5 DEF n

(* The client's context ends. *)
LEMMA CancelContextStep ==
    ASSUME Inv, NEW s \in Subscribers, CancelContext(s) PROVE Inv'
<1> DEFINE n == [NoSub EXCEPT !.got = sub[s].got]
<1>1. /\ sub' = [sub EXCEPT ![s] = n] /\ registered' = registered \ {s}
      /\ faults < MaxFaults /\ faults' = faults + 1
      /\ UNCHANGED <<wal, mode, events, append, acked>>
      BY DEF CancelContext, Fault
<1>2. sub[s] \in SubLocals /\ SubInLog(wal, sub[s])
      BY DEF Inv, TypeInv, FromLog
<1>3. n \in SubLocals /\ Ascending(n) /\ Len(n.ch) <= BufferSize /\ SubInLog(wal, n)
      BY <1>2, Gone
<1> HIDE DEF n
<1>4. registered' \subseteq Subscribers /\ faults' \in 0..MaxFaults
      BY <1>1, EventStoreAssumption DEF Inv, TypeInv
<1> QED
    BY <1>1, <1>3, <1>4, OwnStep

(* Close. *)
LEMMA CloseStoreStep ==
    ASSUME Inv, CloseStore PROVE Inv'
<1>1. /\ mode' = "closed" /\ registered' = {} /\ faults < MaxFaults /\ faults' = faults + 1
      /\ sub' = [s \in Subscribers |-> IF s \in registered THEN Closed(sub[s]) ELSE sub[s]]
      /\ UNCHANGED <<wal, events, append, acked>>
      BY DEF CloseStore, Fault
<1>2. ASSUME NEW s \in Subscribers
      PROVE  /\ sub'[s] \in SubLocals /\ Ascending(sub'[s])
             /\ Len(sub'[s].ch) <= BufferSize /\ SubInLog(wal, sub'[s])
  <2> DEFINE b == sub[s]
  <2>1. b \in SubLocals /\ Ascending(b) /\ Len(b.ch) <= BufferSize /\ SubInLog(wal, b)
        BY DEF Inv, TypeInv, Ordered, Bounds, FromLog
  <2> HIDE DEF b
  <2>2. /\ Closed(b) \in SubLocals /\ Ascending(Closed(b))
        /\ Len(Closed(b).ch) <= BufferSize /\ SubInLog(wal, Closed(b))
        BY <2>1 DEF Closed, SubLocals, Ascending, LastRead, SubInLog
  <2>3. sub'[s] = b \/ sub'[s] = Closed(b)
        BY <1>1 DEF b
  <2> QED
      BY <2>1, <2>2, <2>3
<1>3. TypeInv'
  <2>1. sub' \in [Subscribers -> SubLocals]
        BY <1>1, <1>2
  <2> QED
      BY <1>1, <2>1, EventStoreAssumption DEF Inv, TypeInv
<1>4. Bounds' /\ Ordered' /\ Appending'
      BY <1>1, <1>2 DEF Inv, Bounds, Ordered, Appending
<1>5. NumbersAscend' /\ Kept'
      BY <1>1 DEF Inv, NumbersAscend, Kept
<1>6. FromLog'
      BY <1>1, <1>2 DEF Inv, FromLog
<1> QED
    BY <1>3, <1>4, <1>5, <1>6 DEF Inv

(* The process ends, possibly in the middle of appendWAL. *)
LEMMA CrashStep ==
    ASSUME Inv, Crash PROVE Inv'
<1> USE EventStoreAssumption
<1>1. /\ mode' = "down" /\ events' = <<>> /\ registered' = {}
      /\ faults < MaxFaults /\ faults' = faults + 1
      /\ append' = [a \in Appenders |-> Idle]
      /\ sub' = [s \in Subscribers |-> [NoSub EXCEPT !.got = sub[s].got]]
      /\ UNCHANGED acked
      BY DEF Crash, Fault
<1>2. /\ wal' \in Seq(Chunk)
      /\ Len(wal) <= Len(wal') /\ Len(wal') <= MaxEvents
      /\ \A i \in 1..Len(wal') : wal'[i].id = i /\ wal'[i].seq <= i
      /\ \A i, j \in 1..Len(wal') : i < j => wal'[i].seq <= wal'[j].seq
      /\ \A e : InLog(wal, e) => InLog(wal', e)
  <2>1. CASE UNCHANGED wal
        BY <2>1 DEF Inv, TypeInv, Bounds, NumbersAscend
  <2>2. CASE /\ mode = "up"
             /\ Len(wal) < MaxEvents
             /\ \E whole, newline \in BOOLEAN :
                   /\ newline => whole
                   /\ wal' = Append(wal, NewChunk(whole, newline))
    <3>1. Len(wal') = Len(wal) + 1
          BY <2>2, LogGrows
    <3>2. Len(wal) \in Nat
          BY DEF Inv, TypeInv
    <3> QED
        BY <2>2, <3>1, <3>2, LogGrows
  <2> QED
      BY <2>1, <2>2 DEF Crash
<1>3. ASSUME NEW s \in Subscribers
      PROVE  /\ sub'[s] \in SubLocals /\ Ascending(sub'[s])
             /\ Len(sub'[s].ch) <= BufferSize /\ SubInLog(wal', sub'[s])
  <2>1. sub[s] \in SubLocals /\ SubInLog(wal, sub[s])
        BY DEF Inv, TypeInv, FromLog
  <2>2. SubInLog(wal', sub[s])
        BY <1>2, <2>1 DEF SubInLog, AllInLog
  <2>3. sub'[s] = [NoSub EXCEPT !.got = sub[s].got]
        BY <1>1
  <2> QED
      BY <2>1, <2>2, <2>3, Gone
<1>4. TypeInv'
  <2>1. sub' \in [Subscribers -> SubLocals]
        BY <1>1, <1>3
  <2>2. Idle \in AppendLocals
        BY DEF Idle, AppendLocals
  <2> QED
      BY <1>1, <1>2, <2>1, <2>2 DEF Inv, TypeInv
<1>5. ~Idle.busy
      BY DEF Idle
<1>6. Bounds' /\ Ordered' /\ Appending'
      BY <1>1, <1>2, <1>3, <1>5 DEF Bounds, Ordered, Appending
<1>7. NumbersAscend'
      BY <1>1, <1>2 DEF NumbersAscend
<1>8. Kept'
      BY <1>1, <1>2 DEF Inv, Kept, TypeInv
<1>9. FromLog'
      BY <1>1, <1>3, <1>5 DEF FromLog, AllInLog
<1> QED
    BY <1>4, <1>6, <1>7, <1>8, <1>9 DEF Inv

(* The store opens again: every record of a readable log is in its place.   *)
LEMMA RecoverStep ==
    ASSUME Inv, Recover PROVE Inv'
<1> USE EventStoreAssumption
<1>1. mode = "down" /\ UNCHANGED <<wal, registered, append, sub, acked, faults>>
      BY DEF Recover
<1>2. CASE mode' = "unreadable" /\ UNCHANGED events
  <2>1. TypeInv' /\ Bounds' /\ Appending' /\ Ordered'
        BY <1>1, <1>2 DEF Inv, TypeInv, Bounds, Appending, Ordered
  <2>2. NumbersAscend' /\ Kept'
        BY <1>1, <1>2 DEF Inv, NumbersAscend, Kept
  <2>3. FromLog'
        BY <1>1, <1>2 DEF Inv, FromLog
  <2> QED
      BY <2>1, <2>2, <2>3 DEF Inv
<1>3. CASE mode' = "up" /\ events' = Recovered(wal)
  <2>1. wal \in Seq(Chunk) /\ Len(wal) \in Nat
        BY DEF Inv, TypeInv
  <2>2. \A i \in 1..Len(wal) : wal[i] \in Chunk
        BY <2>1
  <2>3. \A i \in 1..Len(wal) : [id |-> wal[i].id, seq |-> wal[i].seq] \in Event
        BY <2>2 DEF Chunk, Event
  <2>4. events' = [i \in 1..Len(wal) |-> [id |-> wal[i].id, seq |-> wal[i].seq]]
        BY <1>3 DEF Recovered, Lines
  <2>5. events' \in Seq(Event) /\ Len(events') = Len(wal)
        BY <2>1, <2>3, <2>4
  <2>6. \A i \in 1..Len(wal) : events'[i].id = i /\ events'[i].seq = wal[i].seq
    <3> TAKE i \in 1..Len(wal)
    <3>1. events'[i] = [id |-> wal[i].id, seq |-> wal[i].seq]
          BY <2>4
    <3>2. wal[i].id = i
          BY DEF Inv, NumbersAscend
    <3> QED
        BY <3>1, <3>2
  <2>7. TypeInv'
        BY <1>1, <1>3, <2>5 DEF Inv, TypeInv
  <2>8. Bounds' /\ Appending' /\ Ordered'
        BY <1>1, <2>1, <2>5 DEF Inv, Bounds, Appending, Ordered
  <2>9. NumbersAscend'
    <3>1. \A i \in 1..Len(wal) : wal[i].seq \in Nat /\ wal[i].seq <= i
          BY <2>2 DEF Chunk, Ids, Inv, NumbersAscend
    <3>2. \A i \in 1..Len(wal) : wal[i].seq <= Len(wal) + 1
          BY <2>1, <3>1
    <3> QED
        BY <1>1, <2>5, <3>2 DEF Inv, NumbersAscend
  <2>10. FromLog'
    <3>1. AllInLog(wal', events')
          BY <1>1, <2>5, <2>6 DEF AllInLog, InLog
    <3> QED
        BY <1>1, <3>1 DEF Inv, FromLog
  <2>11. Kept'
    <3>1. \A id \in 1..Len(wal) : Indexed(events', id)
          BY <2>5, <2>6 DEF Indexed
    <3>2. \A id \in acked' : id \in 1..Len(wal)
          BY <1>1 DEF Inv, Kept
    <3>3. \A a \in Appenders : append'[a].busy => append'[a].event.id \in 1..Len(wal)
          BY <1>1 DEF Inv, FromLog, InLog
    <3> QED
        BY <1>1, <3>1, <3>2, <3>3 DEF Kept
  <2> QED
      BY <2>7, <2>8, <2>9, <2>10, <2>11 DEF Inv
<1> QED
    BY <1>2, <1>3 DEF Recover

(* The invariant is inductive. *)
LEMMA Inductive == Inv /\ [Next]_vars => Inv'
<1> SUFFICES ASSUME Inv, [Next]_vars PROVE Inv'
    OBVIOUS
<1>1. ASSUME NEW a \in Appenders,
             AppendEvent(a) \/ AppendFails(a) \/ (\E s \in Subscribers : FanOut(a, s))
                \/ AppendReturns(a)
      PROVE  Inv'
      BY <1>1, AppendEventStep, AppendFailsStep, FanOutStep, AppendReturnsStep
<1>2. ASSUME NEW s \in Subscribers,
             Subscribe(s) \/ Replay(s) \/ SubscribeReturns(s) \/ Receive(s) \/ CancelContext(s)
      PROVE  Inv'
      BY <1>2, SubscribeStep, ReplayStep, SubscribeReturnsStep, ReceiveStep, CancelContextStep
<1>3. CASE UNCHANGED vars
      BY <1>3 DEF vars, Inv, TypeInv, Bounds, Appending, NumbersAscend, FromLog, Kept, Ordered
<1> QED
    BY <1>1, <1>2, <1>3, CloseStoreStep, CrashStep, RecoverStep DEF Next

(* Every reachable state of the store satisfies the invariant. *)
THEOREM InvHolds == Spec => []Inv
BY Initially, Inductive, PTL DEF Spec

(* The store's files, index, channels and cursors keep their types, and no  *)
(* channel ever holds more than its buffer (subscriberBufferSize).          *)
THEOREM TypeCorrect == Spec => []TypeOK
<1>1. ASSUME Inv PROVE TypeOK
  <2>1. ASSUME NEW a \in Appenders PROVE append[a] = Idle \/ append[a].event \in Event
        BY <1>1 DEF Inv, Appending
  <2>2. ASSUME NEW s \in Subscribers
        PROVE  /\ sub[s].phase \in {"none", "replaying", "live"}
               /\ sub[s].replay \in Seq(Event)
               /\ sub[s].ch \in Seq(Event)
               /\ Len(sub[s].ch) <= BufferSize
               /\ sub[s].got \in Seq(Event)
    <3>1. sub[s] \in SubLocals
          BY <1>1 DEF Inv, TypeInv
    <3> QED
        BY <1>1, <3>1 DEF Inv, Bounds, SubLocals
  <2> QED
      BY <1>1, <2>1, <2>2 DEF Inv, TypeInv, TypeOK
<1> QED
    BY <1>1, InvHolds, PTL

(* An event whose Append returned is in the index whenever the store is     *)
(* open, after any number of crashes, torn writes and recoveries (Append,   *)
(* recoverWALFile).                                                         *)
THEOREM AcknowledgedSurvive == Spec => []AckedSurvives
<1>1. Inv => AckedSurvives
      BY DEF Inv, Kept, Indexed, AckedSurvives
<1> QED
    BY <1>1, InvHolds, PTL

-----------------------------------------------------------------------------
(* The store implements the feed. *)

LogIds  == [i \in 1..Len(wal) |-> wal[i].id]
ReadIds == [s \in Subscribers |-> [i \in 1..Len(sub[s].got) |-> sub[s].got[i].id]]

(* A write to the log, by an append that succeeds, fails or dies, publishes. *)
LEMMA WritePublishes ==
    ASSUME Inv, mode = "up", Len(wal) < MaxEvents,
           NEW whole \in BOOLEAN, NEW newline \in BOOLEAN,
           wal' = Append(wal, NewChunk(whole, newline)), ReadIds' = ReadIds
    PROVE  Feed!Next
<1>1. wal \in Seq(Chunk) /\ Len(wal) \in Nat
      BY DEF Inv, TypeInv
<1>2. \A i \in 1..Len(wal) : wal[i].id = i
      BY DEF Inv, NumbersAscend
<1>3. /\ Len(wal') = Len(wal) + 1 /\ \A i \in 1..Len(wal') : wal'[i].id = i
      BY LogGrows
<1>4. LogIds = [i \in 1..Len(wal) |-> i] /\ LogIds' = [i \in 1..(Len(wal) + 1) |-> i]
      BY <1>2, <1>3 DEF LogIds
<1>5. LogIds' = Append(LogIds, Len(wal) + 1)
      BY <1>1, <1>4
<1>6. \A i \in 1..Len(LogIds) : LogIds[i] # Len(wal) + 1
      BY <1>1, <1>4
<1>7. Len(wal) + 1 \in Ids
      BY <1>1, EventStoreAssumption DEF Ids
<1> QED
    BY <1>5, <1>6, <1>7 DEF Feed!Next, Feed!Publish, LogIds, ReadIds

(* A client that reads an event reads one the feed has behind all that the  *)
(* client has read: its number is higher, so its place is.                  *)
LEMMA ReceiveDelivers ==
    ASSUME Inv, NEW s \in Subscribers, Receive(s)
    PROVE  Feed!Deliver(s)
<1> DEFINE b == sub[s]
           h == Head(b.ch)
<1>1. /\ b.ch # <<>> /\ UNCHANGED wal
      /\ sub' = [sub EXCEPT ![s].ch = Tail(@), ![s].got = Append(@, h)]
      BY DEF Receive
<1>2. b \in SubLocals /\ Ascending(b) /\ SubInLog(wal, b) /\ sub \in [Subscribers -> SubLocals]
      BY DEF Inv, TypeInv, Ordered, FromLog
<1>3. b.ch \in Seq(Event) /\ b.got \in Seq(Event) /\ Len(b.got) \in Nat
      BY <1>2 DEF SubLocals
<1>4. h \in Event /\ h = b.ch[1] /\ 1 \in 1..Len(b.ch)
      BY <1>1, <1>3
<1>5. InLog(wal, h) /\ LastRead(b) < h.seq
      BY <1>2, <1>4 DEF SubInLog, AllInLog, Ascending
<1>6. wal \in Seq(Chunk) /\ Len(wal) \in Nat /\ Len(LogIds) = Len(wal)
      BY DEF Inv, TypeInv, LogIds
<1>7. \A i \in 1..Len(wal) : LogIds[i] = i
      BY DEF Inv, NumbersAscend, LogIds
<1>8. h.id \in 1..Len(wal) /\ wal[h.id].seq = h.seq
      BY <1>5 DEF InLog
<1>9. sub'[s].got = Append(b.got, h) /\ \A t \in Subscribers : t # s => sub'[t].got = sub[t].got
      BY <1>1, <1>2 DEF SubLocals
<1>10. /\ ReadIds'[s] = Append(ReadIds[s], h.id)
       /\ \A t \in Subscribers : t # s => ReadIds'[t] = ReadIds[t]
  <2>1. ReadIds'[s] = [i \in 1..Len(Append(b.got, h)) |-> Append(b.got, h)[i].id]
        BY <1>9 DEF ReadIds
  <2>2. ReadIds[s] = [i \in 1..Len(b.got) |-> b.got[i].id]
        BY DEF ReadIds
  <2> HIDE DEF h
  <2>3. ReadIds'[s] = Append(ReadIds[s], h.id)
    <3>1. /\ Append(b.got, h) \in Seq(Event) /\ Len(Append(b.got, h)) = Len(b.got) + 1
          /\ \A i \in 1..Len(b.got) : Append(b.got, h)[i] = b.got[i]
          /\ Append(b.got, h)[Len(b.got) + 1] = h
          BY <1>3, <1>4
    <3>2. ReadIds'[s] = [i \in 1..(Len(b.got) + 1) |->
                            IF i = Len(b.got) + 1 THEN h.id ELSE b.got[i].id]
          BY <1>3, <2>1, <3>1
    <3> QED
        BY <1>3, <2>2, <3>2
  <2>4. \A t \in Subscribers : t # s => ReadIds'[t] = ReadIds[t]
        BY <1>9 DEF ReadIds
  <2> QED
      BY <2>3, <2>4
<1>11. ReadIds' = [ReadIds EXCEPT ![s] = Append(@, LogIds[h.id])]
       BY <1>7, <1>8, <1>10, ZenonT(40) DEF ReadIds
<1>12. \A j \in 1..Len(LogIds) :
          (ReadIds[s] # <<>> /\ LogIds[j] = ReadIds[s][Len(ReadIds[s])]) => j < h.id
  <2> SUFFICES ASSUME NEW j \in 1..Len(wal), ReadIds[s] # <<>>,
                      LogIds[j] = ReadIds[s][Len(ReadIds[s])]
               PROVE  j < h.id
      BY <1>6
  <2> DEFINE l == b.got[Len(b.got)]
  <2>1. ReadIds[s] = [i \in 1..Len(b.got) |-> b.got[i].id]
        BY DEF ReadIds
  <2>2. b.got # <<>> /\ Len(b.got) \in 1..Len(b.got)
        BY <1>3, <2>1
  <2>3. ReadIds[s][Len(ReadIds[s])] = l.id
        BY <1>3, <2>1, <2>2
  <2>4. j = l.id
        BY <1>7, <2>3
  <2>5. InLog(wal, l)
        BY <1>2, <2>2 DEF SubInLog, AllInLog
  <2>6. wal[j].seq = l.seq
        BY <2>4, <2>5 DEF InLog
  <2>7. LastRead(b) = l.seq
        BY <2>2 DEF LastRead
  <2>8. wal[j].seq < wal[h.id].seq
        BY <1>5, <1>8, <2>6, <2>7
  <2>9. wal[j] \in Chunk /\ wal[h.id] \in Chunk
        BY <1>6, <1>8
  <2>10. wal[j].seq \in Nat /\ wal[h.id].seq \in Nat
        BY <2>9, SMTT(30) DEF Chunk, Ids
  <2>11. h.id < j => wal[h.id].seq <= wal[j].seq
        BY <1>8 DEF Inv, NumbersAscend
  <2>12. h.id # j
        BY <2>8, <2>10
  <2> QED
      BY <1>8, <2>8, <2>10, <2>11, <2>12
<1>13. LogIds' = LogIds
       BY <1>1 DEF LogIds
<1>14. h.id \in 1..Len(LogIds)
       BY <1>6, <1>8
<1> HIDE DEF b, h
<1> QED
    BY <1>11, <1>12, <1>13, <1>14 DEF Feed!Deliver, Feed!Behind, LogIds, ReadIds

(* Steps that neither write nor read leave the feed as it is. *)
LEMMA OthersStutter ==
    ASSUME Inv, UNCHANGED wal, sub' \in [Subscribers -> SubLocals],
           \A s \in Subscribers : sub'[s].got = sub[s].got
    PROVE  UNCHANGED <<LogIds, ReadIds>>
BY DEF LogIds, ReadIds

(* A send leaves what the client has read alone. *)
LEMMA SendKeepsGot ==
    ASSUME NEW b \in SubLocals, NEW e, NEW r \in SendResults(b, e)
    PROVE  r.got = b.got
BY DEF SendResults, Closed, Pushed, SubLocals

(* Every step of the store is a step of the feed, or none of it. *)
LEMMA StepImplements ==
    ASSUME Inv, Inv', [Next]_vars
    PROVE  [Feed!Next]_<<LogIds, ReadIds>>
<1> USE EventStoreAssumption
<1>0. sub \in [Subscribers -> SubLocals] /\ sub' \in [Subscribers -> SubLocals]
      BY DEF Inv, TypeInv
<1>1. ASSUME UNCHANGED sub PROVE UNCHANGED ReadIds
      BY <1>1 DEF ReadIds
<1>2. ASSUME NEW a \in Appenders, AppendEvent(a) PROVE Feed!Next
  <2>1. UNCHANGED sub
        BY <1>2 DEF AppendEvent
  <2> QED
      BY <1>1, <1>2, <2>1, WritePublishes DEF AppendEvent
<1>3. ASSUME NEW a \in Appenders, AppendFails(a) PROVE Feed!Next
  <2>1. UNCHANGED sub
        BY <1>3 DEF AppendFails
  <2>2. PICK whole \in BOOLEAN, newline \in BOOLEAN :
           wal' = Append(wal, NewChunk(whole, newline))
        BY <1>3 DEF AppendFails
  <2> QED
      BY <1>1, <1>3, <2>1, <2>2, WritePublishes DEF AppendFails
<1>4. ASSUME NEW a \in Appenders, NEW s \in Subscribers, FanOut(a, s)
      PROVE  UNCHANGED <<LogIds, ReadIds>>
  <2>1. PICK b \in SendResults(sub[s], append[a].event) : sub' = [sub EXCEPT ![s] = b]
        BY <1>4 DEF FanOut
  <2>2. b.got = sub[s].got
        BY <1>0, <2>1, SendKeepsGot
  <2>3. \A t \in Subscribers : sub'[t].got = sub[t].got
        BY <1>0, <2>1, <2>2
  <2> QED
      BY <1>0, <1>4, <2>3, OthersStutter DEF FanOut
<1>5. ASSUME NEW a \in Appenders, AppendReturns(a) PROVE UNCHANGED <<LogIds, ReadIds>>
      BY <1>1, <1>5 DEF AppendReturns, LogIds
<1>6. ASSUME NEW s \in Subscribers, Subscribe(s) PROVE UNCHANGED <<LogIds, ReadIds>>
  <2>1. \A t \in Subscribers : sub'[t].got = sub[t].got
        BY <1>0, <1>6 DEF Subscribe
  <2> QED
      BY <1>0, <1>6, <2>1, OthersStutter DEF Subscribe
<1>7. ASSUME NEW s \in Subscribers, Replay(s) PROVE UNCHANGED <<LogIds, ReadIds>>
  <2>1. PICK r \in SendResults(sub[s], Head(sub[s].replay)) :
           sub' = [sub EXCEPT ![s] = IF r.closed
                                     THEN [r EXCEPT !.phase = "live", !.replay = <<>>]
                                     ELSE [r EXCEPT !.replay = Tail(@)]]
        BY <1>7 DEF Replay
  <2>2. r.got = sub[s].got
        BY <1>0, <2>1, SendKeepsGot
  <2>3. sub'[s].got = r.got
        BY <1>0, <2>1
  <2>4. \A t \in Subscribers : sub'[t].got = sub[t].got
        BY <1>0, <2>1, <2>2, <2>3
  <2> QED
      BY <1>0, <1>7, <2>4, OthersStutter DEF Replay
<1>8. ASSUME NEW s \in Subscribers, SubscribeReturns(s) PROVE UNCHANGED <<LogIds, ReadIds>>
  <2>1. \A t \in Subscribers : sub'[t].got = sub[t].got
        BY <1>0, <1>8 DEF SubscribeReturns, SubLocals
  <2> QED
      BY <1>0, <1>8, <2>1, OthersStutter DEF SubscribeReturns
<1>9. ASSUME NEW s \in Subscribers, Receive(s) PROVE Feed!Next
      BY <1>9, ReceiveDelivers DEF Feed!Next
<1>10. ASSUME NEW s \in Subscribers, CancelContext(s) PROVE UNCHANGED <<LogIds, ReadIds>>
  <2>1. \A t \in Subscribers : sub'[t].got = sub[t].got
        BY <1>0, <1>10 DEF CancelContext, NoSub
  <2> QED
      BY <1>0, <1>10, <2>1, OthersStutter DEF CancelContext
<1>11. ASSUME CloseStore PROVE UNCHANGED <<LogIds, ReadIds>>
  <2>1. \A t \in Subscribers : sub'[t].got = sub[t].got
        BY <1>0, <1>11 DEF CloseStore, Closed, SubLocals
  <2> QED
      BY <1>0, <1>11, <2>1, OthersStutter DEF CloseStore
<1>12. ASSUME Crash PROVE [Feed!Next]_<<LogIds, ReadIds>>
  <2>1. \A t \in Subscribers : sub'[t].got = sub[t].got
        BY <1>0, <1>12 DEF Crash, NoSub
  <2>2. UNCHANGED ReadIds
        BY <2>1 DEF ReadIds
  <2>3. CASE UNCHANGED wal
        BY <2>2, <2>3 DEF LogIds
  <2>4. CASE /\ mode = "up"
             /\ Len(wal) < MaxEvents
             /\ \E whole, newline \in BOOLEAN :
                   wal' = Append(wal, NewChunk(whole, newline))
        BY <2>2, <2>4, WritePublishes
  <2> QED
      BY <1>12, <2>3, <2>4 DEF Crash
<1>13. ASSUME Recover PROVE UNCHANGED <<LogIds, ReadIds>>
       BY <1>1, <1>13 DEF Recover, LogIds
<1>14. ASSUME UNCHANGED vars PROVE UNCHANGED <<LogIds, ReadIds>>
       BY <1>1, <1>14 DEF vars, LogIds
<1> QED
    BY <1>2, <1>3, <1>4, <1>5, <1>6, <1>7, <1>8, <1>9, <1>10, <1>11, <1>12, <1>13, <1>14
    DEF Next

(* The store implements the feed: whatever fan-outs, replays, overflows,    *)
(* reconnections, torn writes and restarts do, a client never sees an event *)
(* twice or after a later one (subscriber.send, Subscribe, recoverWALFile). *)
THEOREM StoreImplementsFeed == Spec => ImplementsFeed
<1>1. Init => Feed!Init
      BY DEF Init, Feed!Init, NoSub
<1>2. Inv /\ Inv' /\ [Next]_vars => [Feed!Next]_<<LogIds, ReadIds>>
      BY StepImplements
<1> QED
    BY <1>1, <1>2, InvHolds, PTL DEF Spec, ImplementsFeed, Feed!Spec, LogIds, ReadIds

=============================================================================

----------------------------- MODULE InboxProofs -----------------------------
(***************************************************************************)
(* Proofs about module Inbox.                                              *)
(*                                                                         *)
(* A message is in at most one state object, and what is marked delivered  *)
(* there is marked in the log too: MarkDelivered rewrites the log before   *)
(* it changes the object, and no other object has the message.  So neither *)
(* a restart nor a rewrite from another object brings back a message that  *)
(* was consumed.  Without a Purge there is one object, and the log has     *)
(* every message that was acknowledged.                                    *)
(***************************************************************************)
EXTENDS Inbox, TLAPS

-----------------------------------------------------------------------------
(* The invariant. *)

(* The locals of Append, a subscription, and a worker. *)
Sending == [at : {"write", "event", "offer"}, msg : Message, state : Nat, left : SUBSET Workers, seq : Nat]

Subscription == [phase : {"none", "replaying", "live"}, replay : Nat, until : Nat, ch : Seq(Nat),
                 cursor : Nat, closed : BOOLEAN]

Working == [at : {"idle", "mark", "rewrite"}, ids : SUBSET Ids, state : Nat]

(* TypeOK with all the fields. *)
TypeInv ==
    /\ file \in Seq(Chunk)
    /\ mode \in {"up", "closed", "down", "unreadable"}
    /\ states \in Seq(Seq(Message))
    /\ mapped \in 0..Len(states)
    /\ purging \in 0..Len(states)
    /\ drawn \in 0..MaxMessages
    /\ send \in [Senders -> Sending \cup {None}]
    /\ feed \in Seq(Events)
    /\ sub \in [Workers -> Subscription]
    /\ work \in [Workers -> Working]
    /\ signal \subseteq Workers
    /\ acked \subseteq Ids
    /\ consumed \subseteq Ids
    /\ faults \in 0..MaxFaults
    /\ purges \in 0..MaxPurges

(* Cursors point into the feed, and no channel outgrows its capacity. *)
FeedOK ==
    /\ \A s \in Senders : send[s] # None => send[s].seq <= Len(feed)
    /\ \A w \in Workers : /\ Len(sub[w].ch) <= BufferSize
                          /\ sub[w].cursor <= Len(feed) /\ sub[w].until <= Len(feed)

(* Calls use objects that exist, and a dead process has none of either. *)
ObjectsOK ==
    /\ \A s \in Senders : send[s] # None => send[s].state \in 1..Len(states)
    /\ \A w \in Workers : work[w].at = "rewrite" => work[w].state \in 1..Len(states)
    /\ mode \in {"down", "unreadable"} =>
          /\ states = <<>>
          /\ \A s \in Senders : send[s] = None
          /\ \A w \in Workers : work[w] = Idle

(* The log, an object, and the object in the map have a message. *)
InFile(id) == \E q \in 1..Len(file) : file[q].msg.id = id

InStates(id) == \E i \in 1..Len(states) : \E p \in 1..Len(states[i]) : states[i][p].id = id

InMapped(id) == mapped # 0 /\ \E p \in 1..Len(states[mapped]) : states[mapped][p].id = id

(* A message is at one place of one object, and at one place of the log. *)
ObjectIds ==
    \A i, j \in 1..Len(states) : \A p \in 1..Len(states[i]), q \in 1..Len(states[j]) :
        states[i][p].id = states[j][q].id => i = j /\ p = q

LogIds == \A p, q \in 1..Len(file) : file[p].msg.id = file[q].msg.id => p = q

(* What is stored or under way was drawn. *)
IdsDrawn ==
    /\ \A i \in 1..Len(states) : \A p \in 1..Len(states[i]) : states[i][p].id <= drawn
    /\ \A q \in 1..Len(file) : file[q].msg.id <= drawn
    /\ \A id \in consumed : id <= drawn
    /\ \A s \in Senders : send[s] # None => send[s].msg.id <= drawn

(* Two appends have two ids, and one that has not written is the first to. *)
SendIds ==
    /\ \A s \in Senders : SendAt(s, "write") =>
          /\ ~InStates(send[s].msg.id)
          /\ ~InFile(send[s].msg.id)
          /\ send[s].msg.id \notin consumed
    /\ \A r, s \in Senders : send[r] # None /\ send[s] # None /\ send[r].msg.id = send[s].msg.id => r = s

(* Consumed messages are marked, in the objects and in the log, and what is   *)
(* marked in an object is marked in the log.                                  *)
MarkedInObjects ==
    \A i \in 1..Len(states) : \A p \in 1..Len(states[i]) :
        states[i][p].id \in consumed => states[i][p].delivered

MarkedInLog == \A q \in 1..Len(file) : file[q].msg.id \in consumed => file[q].msg.delivered

LogFirst ==
    \A i \in 1..Len(states) : \A p \in 1..Len(states[i]) : \A q \in 1..Len(file) :
        states[i][p].delivered /\ file[q].msg.id = states[i][p].id => file[q].msg.delivered

(* A message that was written: it is in the log, and in the object. *)
Kept(id) == InFile(id) /\ (mode \in {"up", "closed"} => InMapped(id))

(* Without a Purge there is one object, and acknowledged messages are kept. *)
OneObject == purges = 0 => Len(states) <= 1 /\ mapped = Len(states) /\ purging = 0

AckedKept == purges = 0 => \A id \in acked : Kept(id)

SendKept ==
    purges = 0 =>
        \A s \in Senders : SendAt(s, "event") \/ SendAt(s, "offer") => Kept(send[s].msg.id)

(* The inductive invariant. *)
Data == ObjectIds /\ LogIds /\ IdsDrawn /\ SendIds /\ MarkedInObjects /\ MarkedInLog /\ LogFirst

Inv == TypeInv /\ FeedOK /\ ObjectsOK /\ Data /\ OneObject /\ AckedKept /\ SendKept

(* The fan-out of another event has its place in the feed; no message depends *)
(* on it, so it is kept apart.                                                *)
PublishOK == publish \in [seq : Nat, left : SUBSET Workers] /\ publish.seq <= Len(feed)

-----------------------------------------------------------------------------
(* The operators. *)

(* The fields of what the variables hold. *)
LEMMA Fields ==
    ASSUME TypeInv
    PROVE  /\ \A s \in Senders : send[s] # None =>
                 /\ send[s] \in Sending
                 /\ send[s].at \in {"write", "event", "offer"}
                 /\ send[s].msg \in Message
                 /\ send[s].msg.id \in Nat
                 /\ send[s].msg.id \in Ids
                 /\ send[s].state \in Nat
                 /\ send[s].left \subseteq Workers
                 /\ send[s].seq \in Nat
           /\ \A w \in Workers : sub[w] \in Subscription
           /\ \A w \in Workers : work[w] \in Working
           /\ \A i \in 1..Len(states) : states[i] \in Seq(Message) /\ Len(states[i]) \in Nat
           /\ \A i \in 1..Len(states) : \A p \in 1..Len(states[i]) :
                 states[i][p] \in Message /\ states[i][p].id \in Nat /\ states[i][p].id \in Ids
           /\ \A q \in 1..Len(file) :
                 file[q] \in Chunk /\ file[q].msg \in Message /\ file[q].msg.id \in Nat /\ file[q].msg.id \in Ids
           /\ Len(states) \in Nat /\ Len(file) \in Nat /\ Len(feed) \in Nat
           /\ drawn \in Nat /\ mapped \in Nat
<1> USE InboxAssumption
<1>1. \A m \in Message : m.id \in Nat /\ m.id \in Ids
      BY DEF Message, Ids
<1>2. \A s \in Senders : send[s] # None => send[s] \in Sending
      BY DEF TypeInv
<1>3. \A i \in 1..Len(states) : states[i] \in Seq(Message) /\ Len(states[i]) \in Nat
      BY DEF TypeInv
<1>4. \A i \in 1..Len(states) : \A p \in 1..Len(states[i]) : states[i][p] \in Message
      BY <1>3
<1>5. \A q \in 1..Len(file) : file[q] \in Chunk
      BY DEF TypeInv
<1>6. \A q \in 1..Len(file) : file[q].msg \in Message
      BY <1>5 DEF Chunk
<1>7. \A s \in Senders : send[s] # None =>
         /\ send[s].at \in {"write", "event", "offer"}
         /\ send[s].msg \in Message
         /\ send[s].state \in Nat
         /\ send[s].left \subseteq Workers
         /\ send[s].seq \in Nat
      BY <1>2 DEF Sending
<1>8. Len(states) \in Nat /\ Len(file) \in Nat /\ Len(feed) \in Nat /\ drawn \in Nat /\ mapped \in Nat
      BY DEF TypeInv
<1>9. (\A w \in Workers : sub[w] \in Subscription) /\ (\A w \in Workers : work[w] \in Working)
      BY DEF TypeInv
<1> QED
    BY <1>1, <1>2, <1>3, <1>4, <1>5, <1>6, <1>7, <1>8, <1>9

(* A chunk of a message is a chunk, and has the message. *)
LEMMA Chunks ==
    ASSUME NEW m \in Message
    PROVE  /\ Whole(m) \in Chunk /\ Whole(m).msg = m
           /\ \A c \in Remains(m) : c \in Chunk /\ c.msg = m
<1>1. Whole(m) \in Chunk /\ Whole(m).msg = m
      BY DEF Whole, Chunk
<1>2. ASSUME NEW w \in BOOLEAN
      PROVE  /\ [msg |-> m, whole |-> w, newline |-> FALSE] \in Chunk
             /\ [msg |-> m, whole |-> w, newline |-> FALSE].msg = m
      BY DEF Chunk
<1>3. ASSUME NEW c \in Remains(m)
      PROVE  c \in Chunk /\ c.msg = m
  <2>1. c = Whole(m) \/ \E w \in BOOLEAN : c = [msg |-> m, whole |-> w, newline |-> FALSE]
        BY <1>3 DEF Remains
  <2> QED
      BY <1>1, <1>2, <2>1
<1> QED
    BY <1>1, <1>3

(* Marking keeps the messages and their ids, and marks those it is given. *)
LEMMA Marking ==
    ASSUME NEW messages \in Seq(Message), NEW ids
    PROVE  /\ Marked(messages, ids) \in Seq(Message)
           /\ Len(Marked(messages, ids)) = Len(messages)
           /\ \A p \in 1..Len(messages) :
                 /\ Marked(messages, ids)[p].id = messages[p].id
                 /\ messages[p].delivered => Marked(messages, ids)[p].delivered
                 /\ messages[p].id \in ids => Marked(messages, ids)[p].delivered
                 /\ messages[p].id \notin ids => Marked(messages, ids)[p] = messages[p]
<1> DEFINE marked == [i \in 1..Len(messages) |->
        IF messages[i].id \in ids THEN [messages[i] EXCEPT !.delivered = TRUE] ELSE messages[i]]
<1>1. Marked(messages, ids) = marked
      BY DEF Marked
<1>2. \A p \in 1..Len(messages) : messages[p] \in Message
      OBVIOUS
<1>3. \A m \in Message : /\ [m EXCEPT !.delivered = TRUE] \in Message
                         /\ [m EXCEPT !.delivered = TRUE].id = m.id
                         /\ [m EXCEPT !.delivered = TRUE].delivered
      BY DEF Message
<1>4. \A p \in 1..Len(messages) :
         /\ marked[p] \in Message
         /\ marked[p].id = messages[p].id
         /\ messages[p].delivered => marked[p].delivered
         /\ messages[p].id \in ids => marked[p].delivered
         /\ messages[p].id \notin ids => marked[p] = messages[p]
      BY <1>2, <1>3
<1>5. Len(messages) \in Nat /\ DOMAIN marked = 1..Len(messages)
      OBVIOUS
<1> HIDE DEF marked
<1>6. marked \in [1..Len(messages) -> Message]
  <2>1. marked = [p \in 1..Len(messages) |-> marked[p]]
        BY DEF marked
  <2> QED
      BY <1>4, <2>1
<1>7. marked \in Seq(Message) /\ Len(marked) = Len(messages)
      BY <1>5, <1>6
<1> QED
    BY <1>1, <1>4, <1>7

(* A rewrite leaves one whole record of each message. *)
LEMMA Rewriting ==
    ASSUME NEW f, NEW messages \in Seq(Message)
    PROVE  /\ Rewrite(f, messages) \in Seq(Chunk)
           /\ Len(Rewrite(f, messages)) = Len(messages)
           /\ \A q \in 1..Len(messages) : Rewrite(f, messages)[q].msg = messages[q]
<1>1. \A q \in 1..Len(messages) : messages[q] \in Message
      OBVIOUS
<1>2. \A q \in 1..Len(messages) : Whole(messages[q]) \in Chunk /\ Whole(messages[q]).msg = messages[q]
      BY <1>1, Chunks
<1>3. [q \in 1..Len(messages) |-> Whole(messages[q])] \in [1..Len(messages) -> Chunk]
      BY <1>2
<1> QED
    BY <1>2, <1>3 DEF Rewrite

(* subscriber.send keeps a subscription in its types and its channel within *)
(* its capacity.                                                            *)
LEMMA SendKeepsTypes ==
    ASSUME NEW b \in Subscription, NEW e \in Nat, Len(b.ch) <= BufferSize
    PROVE  /\ Sent(b, e) \in Subscription
           /\ Len(Sent(b, e).ch) <= BufferSize
           /\ Sent(b, e).cursor = b.cursor \/ Sent(b, e).cursor = e
           /\ Sent(b, e).until = b.until /\ Sent(b, e).replay = b.replay /\ Sent(b, e).phase = b.phase
<1> USE InboxAssumption
<1>1. CASE Sent(b, e) = b
      BY <1>1
<1>2. CASE Sent(b, e) = [b EXCEPT !.closed = TRUE]
      BY <1>2 DEF Subscription
<1>3. CASE Len(b.ch) < BufferSize /\ Sent(b, e) = [b EXCEPT !.ch = Append(@, e), !.cursor = e]
  <2> DEFINE ch == Append(b.ch, e)
             b1 == [b EXCEPT !.ch = ch]
  <2>1. ch \in Seq(Nat) /\ Len(ch) = Len(b.ch) + 1 /\ Len(b.ch) \in Nat
        BY DEF Subscription
  <2>2. Sent(b, e) = [b1 EXCEPT !.cursor = e]
        BY <1>3
  <2> HIDE DEF ch
  <2>3. /\ b1 \in Subscription /\ b1.ch = ch /\ b1.until = b.until /\ b1.replay = b.replay /\ b1.phase = b.phase
        BY <2>1 DEF Subscription
  <2> HIDE DEF b1
  <2>4. /\ Sent(b, e) \in Subscription /\ Sent(b, e).ch = b1.ch /\ Sent(b, e).cursor = e
        /\ Sent(b, e).until = b1.until /\ Sent(b, e).replay = b1.replay /\ Sent(b, e).phase = b1.phase
        BY <2>2, <2>3 DEF Subscription
  <2> QED
      BY <1>3, <2>1, <2>3, <2>4
<1> QED
    BY <1>1, <1>2, <1>3 DEF Sent

-----------------------------------------------------------------------------
(* Steps that leave the objects and the log alone. *)

(* Nothing is stored, drawn, consumed, purged, or acknowledged. *)
SameObjects == UNCHANGED <<file, mode, states, mapped, drawn, purging, purges, consumed>>

SameStore == SameObjects /\ acked' = acked

(* Only what was written is acknowledged. *)
NewAcks == acked' \subseteq Ids /\ (purges = 0 => \A id \in acked' : Kept(id))

(* An append that goes on has the message it had, and none is back at its write. *)
SendsGoOn ==
    /\ \A s \in Senders : send'[s] # None => send[s] # None
    /\ \A s \in Senders : send'[s] # None => send'[s].msg = send[s].msg
    /\ \A s \in Senders : send'[s] # None => send'[s].state = send[s].state
    /\ \A s \in Senders : send'[s] # None => \/ send'[s].at = send[s].at
                                             \/ SendAt(s, "event") /\ send'[s].at = "offer"

(* An append that goes on is where it was in its locals, or further. *)
LEMMA SendSteps ==
    ASSUME TypeInv, SendsGoOn
    PROVE  /\ \A s \in Senders : SendAt(s, "write")' => SendAt(s, "write")
           /\ \A s \in Senders : SendAt(s, "event")' \/ SendAt(s, "offer")' => SendAt(s, "event") \/ SendAt(s, "offer")
           /\ \A s \in Senders : send'[s] # None => send[s] # None /\ send'[s].msg = send[s].msg
BY DEF SendsGoOn, SendAt

(* What is stored stays as it is. *)
LEMMA SameObjectsKeep ==
    ASSUME Inv, SameObjects, SendsGoOn, NewAcks
    PROVE  Data' /\ OneObject' /\ SendKept' /\ AckedKept'
<1>1. /\ file' = file /\ mode' = mode /\ states' = states /\ mapped' = mapped /\ drawn' = drawn
      /\ purging' = purging /\ purges' = purges /\ consumed' = consumed
      BY DEF SameObjects
<1>2. /\ \A id : InFile(id)' = InFile(id)
      /\ \A id : InStates(id)' = InStates(id)
      /\ \A id : Kept(id)' = Kept(id)
      BY <1>1 DEF InFile, InStates, InMapped, Kept
<1>3. TypeInv
      BY DEF Inv
<1>4. /\ \A s \in Senders : SendAt(s, "write")' => SendAt(s, "write")
      /\ \A s \in Senders : SendAt(s, "event")' \/ SendAt(s, "offer")' => SendAt(s, "event") \/ SendAt(s, "offer")
      /\ \A s \in Senders : send'[s] # None => send[s] # None /\ send'[s].msg = send[s].msg
      BY <1>3, SendSteps
<1>5. \A s \in Senders : SendAt(s, "write")' => send'[s] # None
      BY DEF SendAt
<1>6. \A s \in Senders : SendAt(s, "event")' \/ SendAt(s, "offer")' => send'[s] # None
      BY DEF SendAt
<1>7. ObjectIds' /\ LogIds' /\ MarkedInObjects' /\ MarkedInLog' /\ LogFirst'
      BY <1>1 DEF Inv, Data, ObjectIds, LogIds, MarkedInObjects, MarkedInLog, LogFirst
<1>8. IdsDrawn'
      BY <1>1, <1>4 DEF Inv, Data, IdsDrawn
<1>9. SendIds'
  <2>1. ASSUME NEW s \in Senders, SendAt(s, "write")'
        PROVE  /\ ~InStates(send[s].msg.id)'
               /\ ~InFile(send[s].msg.id)'
               /\ send'[s].msg.id \notin consumed'
    <3>1. SendAt(s, "write") /\ send'[s].msg = send[s].msg
          BY <1>4, <1>5, <2>1
    <3>2. ~InStates(send[s].msg.id) /\ ~InFile(send[s].msg.id) /\ send[s].msg.id \notin consumed
          BY <3>1 DEF Inv, Data, SendIds
    <3> QED
        BY <1>1, <3>1, <3>2 DEF InStates, InFile
  <2>2. ASSUME NEW r \in Senders, NEW s \in Senders, send'[r] # None, send'[s] # None,
               send'[r].msg.id = send'[s].msg.id
        PROVE  r = s
        BY <1>4, <2>2 DEF Inv, Data, SendIds
  <2> QED
      BY <2>1, <2>2 DEF SendIds
<1>10. OneObject'
      BY <1>1 DEF Inv, OneObject
<1>11. AckedKept'
      BY <1>1, <1>2 DEF NewAcks, AckedKept
<1>12. SendKept'
  <2> SUFFICES ASSUME purges' = 0, NEW s \in Senders, SendAt(s, "event")' \/ SendAt(s, "offer")'
               PROVE  Kept(send[s].msg.id)'
      BY DEF SendKept
  <2>1. send'[s].msg = send[s].msg /\ (SendAt(s, "event") \/ SendAt(s, "offer"))
        BY <1>4, <1>6
  <2>2. Kept(send[s].msg.id)
        BY <1>1, <2>1 DEF Inv, SendKept
  <2> QED
      BY <1>1, <2>1, <2>2 DEF Kept, InFile, InMapped
<1> QED
    BY <1>7, <1>8, <1>9, <1>10, <1>11, <1>12 DEF Data

(* And so without an acknowledgement. *)
LEMMA SameData ==
    ASSUME Inv, SameStore, SendsGoOn
    PROVE  Data' /\ OneObject' /\ SendKept' /\ AckedKept'
<1>1. NewAcks
      BY DEF SameStore, NewAcks, Inv, TypeInv, AckedKept
<1> QED
    BY <1>1, SameObjectsKeep DEF SameStore

(* A step of a worker or of its subscription that leaves the appends alone. *)
LEMMA SendsSame ==
    ASSUME send' = send
    PROVE  SendsGoOn
BY DEF SendsGoOn

-----------------------------------------------------------------------------
(* Subscriptions. *)

(* The subscriptions are well formed for feed f: FeedOK for one worker. *)
SubOK(b, f) == b \in Subscription /\ Len(b.ch) <= BufferSize /\ b.cursor <= Len(f) /\ b.until <= Len(f)

(* No subscription is one, and so is a new one. *)
LEMMA NewSubs ==
    ASSUME NEW f \in Seq(Events)
    PROVE  /\ SubOK(NoSub, f)
           /\ SubOK([phase |-> "replaying", replay |-> AfterSequence + 1, until |-> Len(f),
                     ch |-> <<>>, cursor |-> AfterSequence, closed |-> FALSE], f)
<1> USE InboxAssumption
<1>1. Len(f) \in Nat /\ <<>> \in Seq(Nat) /\ Len(<<>>) = 0 /\ BufferSize \in Nat
      OBVIOUS
<1>2. NoSub \in Subscription /\ NoSub.ch = <<>> /\ NoSub.cursor = 0 /\ NoSub.until = 0
      BY <1>1 DEF NoSub, Subscription
<1> DEFINE b == [phase |-> "replaying", replay |-> AfterSequence + 1, until |-> Len(f),
                 ch |-> <<>>, cursor |-> AfterSequence, closed |-> FALSE]
<1>3. b \in Subscription /\ b.ch = <<>> /\ b.cursor = 0 /\ b.until = Len(f)
      BY <1>1 DEF AfterSequence, Subscription
<1> HIDE DEF b
<1>4. SubOK(NoSub, f) /\ SubOK(b, f)
      BY <1>1, <1>2, <1>3 DEF SubOK
<1> QED
    BY <1>4 DEF b

(* An event of the feed is offered. *)
LEMMA OfferKeepsSub ==
    ASSUME NEW f \in Seq(Events), NEW b, SubOK(b, f), NEW e \in Nat, e <= Len(f)
    PROVE  SubOK(Sent(b, e), f)
BY SendKeepsTypes DEF SubOK

(* The next event of the replay is sent, or the replay ends. *)
LEMMA ReplayKeepsSub ==
    ASSUME NEW f \in Seq(Events), NEW b, SubOK(b, f)
    PROVE  SubOK(IF b.replay > b.until THEN [b EXCEPT !.phase = "live"]
                 ELSE LET c == Sent(b, b.replay) IN
                      [c EXCEPT !.replay = @ + 1, !.phase = IF c.closed THEN "live" ELSE @], f)
<1>1. CASE b.replay > b.until
  <2>1. [b EXCEPT !.phase = "live"] \in Subscription
        BY DEF SubOK, Subscription
  <2>2. /\ [b EXCEPT !.phase = "live"].ch = b.ch /\ [b EXCEPT !.phase = "live"].cursor = b.cursor
        /\ [b EXCEPT !.phase = "live"].until = b.until
        BY DEF SubOK, Subscription
  <2> QED
      BY <1>1, <2>1, <2>2 DEF SubOK
<1>2. CASE ~(b.replay > b.until)
  <2> DEFINE c == Sent(b, b.replay)
             phase == IF c.closed THEN "live" ELSE c.phase
             next == c.replay + 1
             d == [c EXCEPT !.replay = next]
             r == [d EXCEPT !.phase = phase]
  <2>1. b.replay \in Nat /\ b.until \in Nat /\ b.until <= Len(f) /\ Len(f) \in Nat
        BY DEF SubOK, Subscription
  <2>2. SubOK(c, f)
        BY <1>2, <2>1, OfferKeepsSub
  <2> HIDE DEF c
  <2>3. phase \in {"none", "replaying", "live"}
        BY <2>2 DEF SubOK, Subscription
  <2>4. [c EXCEPT !.replay = @ + 1, !.phase = IF c.closed THEN "live" ELSE @] = r
        OBVIOUS
  <2> HIDE DEF phase
  <2>8. next \in Nat
        BY <2>2 DEF SubOK, Subscription
  <2> HIDE DEF next
  <2>5. d \in Subscription /\ d.ch = c.ch /\ d.cursor = c.cursor /\ d.until = c.until
        BY <2>2, <2>8 DEF SubOK, Subscription
  <2> HIDE DEF d
  <2>6. r \in Subscription /\ r.ch = d.ch /\ r.cursor = d.cursor /\ r.until = d.until
        BY <2>3, <2>5 DEF Subscription
  <2> HIDE DEF r
  <2>7. SubOK(r, f)
        BY <2>2, <2>5, <2>6 DEF SubOK
  <2> QED
      BY <1>2, <2>4, <2>7 DEF c
<1> QED
    BY <1>1, <1>2

(* The event at the head of the channel is taken. *)
LEMMA TakeKeepsSub ==
    ASSUME NEW f \in Seq(Events), NEW b, SubOK(b, f), b.ch # <<>>
    PROVE  SubOK([b EXCEPT !.ch = Tail(@)], f)
<1> DEFINE ch == Tail(b.ch)
           r == [b EXCEPT !.ch = ch]
<1>1. b.ch \in Seq(Nat) /\ Len(b.ch) <= BufferSize
      BY DEF SubOK, Subscription
<1>2. ch \in Seq(Nat) /\ Len(ch) = Len(b.ch) - 1 /\ Len(b.ch) \in Nat
      BY <1>1
<1> HIDE DEF ch
<1>3. r \in Subscription /\ r.ch = ch /\ r.cursor = b.cursor /\ r.until = b.until
      BY <1>2 DEF SubOK, Subscription
<1> HIDE DEF r
<1>4. SubOK(r, f)
      BY <1>1, <1>2, <1>3, InboxAssumption DEF SubOK
<1> QED
    BY <1>4 DEF r, ch

(* A feed that grows keeps the subscriptions well formed. *)
LEMMA FeedGrows ==
    ASSUME NEW f \in Seq(Events), NEW g \in Seq(Events), Len(f) <= Len(g), NEW b, SubOK(b, f)
    PROVE  SubOK(b, g)
<1>1. Len(f) \in Nat /\ Len(g) \in Nat /\ b.cursor \in Nat /\ b.until \in Nat
      BY DEF SubOK, Subscription
<1> QED
    BY <1>1 DEF SubOK

(* TypeInv and FeedOK say it of each worker. *)
LEMMA SubsOK ==
    ASSUME TypeInv, FeedOK
    PROVE  \A w \in Workers : SubOK(sub[w], feed)
BY DEF TypeInv, FeedOK, SubOK

-----------------------------------------------------------------------------
(* Steps of subscriptions and workers. *)

(* A fault is counted up to its bound. *)
LEMMA FaultsBounded ==
    ASSUME TypeInv, Fault \/ faults' = faults
    PROVE  faults' \in 0..MaxFaults
BY InboxAssumption DEF TypeInv, Fault

(* A step of one subscription, with what it takes out of the appends. *)
LEMMA SubStep ==
    ASSUME Inv, SameStore, SendsGoOn, NEW w \in Workers, NEW b, SubOK(b, feed),
           sub' = [sub EXCEPT ![w] = b], feed' = feed, work' = work,
           signal' \subseteq Workers, Fault \/ faults' = faults,
           send' \in [Senders -> Sending \cup {None}],
           \A s \in Senders : send'[s] # None => send'[s].seq = send[s].seq
    PROVE  Inv'
<1>0. TypeInv /\ FeedOK /\ ObjectsOK
      BY DEF Inv
<1>1. /\ file' = file /\ mode' = mode /\ states' = states /\ mapped' = mapped /\ drawn' = drawn
      /\ purging' = purging /\ purges' = purges /\ acked' = acked /\ consumed' = consumed
      BY DEF SameStore, SameObjects
<1>2. faults' \in 0..MaxFaults
      BY <1>0, FaultsBounded
<1>3. \A v \in Workers : SubOK(sub'[v], feed)
      BY <1>0, SubsOK DEF TypeInv
<1>4. sub' \in [Workers -> Subscription]
      BY <1>0 DEF TypeInv, SubOK
<1>5. TypeInv'
      BY <1>0, <1>1, <1>2, <1>4 DEF TypeInv
<1>6. FeedOK'
  <2>1. \A s \in Senders : send'[s] # None => send'[s].seq <= Len(feed)
        BY <1>0 DEF FeedOK, SendsGoOn
  <2> QED
      BY <1>3, <2>1 DEF FeedOK, SubOK
<1>7. ObjectsOK'
  <2>1. \A s \in Senders : send'[s] # None => send'[s].state \in 1..Len(states)
        BY <1>0 DEF ObjectsOK, SendsGoOn
  <2>2. mode \in {"down", "unreadable"} => \A s \in Senders : send'[s] = None
        BY <1>0 DEF ObjectsOK, SendsGoOn
  <2> QED
      BY <1>0, <1>1, <2>1, <2>2 DEF ObjectsOK
<1> QED
    BY <1>5, <1>6, <1>7, SameData DEF Inv

(* A step of one worker. *)
LEMMA WorkStep ==
    ASSUME Inv, SameStore, send' = send, feed' = feed, sub' = sub, NEW w \in Workers,
           NEW x \in Working, work' = [work EXCEPT ![w] = x],
           x.at = "rewrite" => x.state \in 1..Len(states),
           mode \in {"down", "unreadable"} => x = Idle,
           signal' \subseteq Workers, Fault \/ faults' = faults
    PROVE  Inv'
<1>0. TypeInv /\ FeedOK /\ ObjectsOK
      BY DEF Inv
<1>1. /\ file' = file /\ mode' = mode /\ states' = states /\ mapped' = mapped /\ drawn' = drawn
      /\ purging' = purging /\ purges' = purges /\ acked' = acked /\ consumed' = consumed
      BY DEF SameStore, SameObjects
<1>2. faults' \in 0..MaxFaults
      BY <1>0, FaultsBounded
<1>3. \A v \in Workers : work'[v] = IF v = w THEN x ELSE work[v]
      BY <1>0 DEF TypeInv
<1>4. work' \in [Workers -> Working]
      BY <1>0 DEF TypeInv
<1>5. TypeInv'
      BY <1>0, <1>1, <1>2, <1>4 DEF TypeInv
<1>6. FeedOK'
      BY <1>0 DEF FeedOK
<1>7. ObjectsOK'
      BY <1>0, <1>1, <1>3 DEF ObjectsOK
<1>8. SendsGoOn
      BY SendsSame
<1> QED
    BY <1>5, <1>6, <1>7, <1>8, SameData DEF Inv

(* The appends are as they were. *)
LEMMA SendsUntouched ==
    ASSUME TypeInv, send' = send
    PROVE  /\ SendsGoOn
           /\ send' \in [Senders -> Sending \cup {None}]
           /\ \A s \in Senders : send'[s] # None => send'[s].seq = send[s].seq
BY SendsSame DEF TypeInv

(* The actions of a subscription. *)
LEMMA ReplayKeepsInv ==
    ASSUME Inv, NEW w \in Workers, Replay(w)
    PROVE  Inv'
<1> DEFINE old == sub[w]
           b == IF old.replay > old.until THEN [old EXCEPT !.phase = "live"]
                ELSE LET c == Sent(old, old.replay) IN
                     [c EXCEPT !.replay = @ + 1, !.phase = IF c.closed THEN "live" ELSE @]
<1>0. TypeInv /\ FeedOK /\ feed \in Seq(Events)
      BY DEF Inv, TypeInv
<1>1. SubOK(old, feed)
      BY <1>0, SubsOK
<1>2. sub' = [sub EXCEPT ![w] = b]
      BY DEF Replay
<1>3. SubOK(b, feed)
  <2> HIDE DEF old
  <2> QED
      BY <1>0, <1>1, ReplayKeepsSub
<1> HIDE DEF b
<1>4. /\ SameStore /\ send' = send /\ feed' = feed /\ work' = work /\ signal' \subseteq Workers /\ faults' = faults
      BY <1>0 DEF Replay, SameStore, SameObjects, store, seen, TypeInv
<1> QED
    BY <1>0, <1>2, <1>3, <1>4, SendsUntouched, SubStep

(* An event leaves the channel. *)
LEMMA ForwardKeepsInv ==
    ASSUME Inv, NEW w \in Workers, Forward(w)
    PROVE  Inv'
<1> DEFINE old == sub[w]
           b == [old EXCEPT !.ch = Tail(@)]
<1>0. TypeInv /\ FeedOK /\ feed \in Seq(Events)
      BY DEF Inv, TypeInv
<1>1. SubOK(old, feed) /\ old.ch # <<>>
      BY <1>0, SubsOK DEF Forward
<1>2. sub' = [sub EXCEPT ![w] = b]
      BY DEF Forward
<1>3. SubOK(b, feed)
  <2> HIDE DEF old
  <2> QED
      BY <1>0, <1>1, TakeKeepsSub
<1> HIDE DEF b
<1>4. SameStore /\ send' = send /\ feed' = feed /\ work' = work /\ faults' = faults
      BY <1>0 DEF Forward, SameStore, SameObjects, store, seen
<1>5. signal' \subseteq Workers
      BY <1>0 DEF Forward, TypeInv
<1> QED
    BY <1>0, <1>2, <1>3, <1>4, <1>5, SendsUntouched, SubStep

(* The subscription ends. *)
LEMMA UnsubscribeKeepsInv ==
    ASSUME Inv, NEW w \in Workers, ForwardEnds(w) \/ Suspend(w)
    PROVE  Inv'
<1>0. TypeInv /\ FeedOK /\ feed \in Seq(Events)
      BY DEF Inv, TypeInv
<1>1. SubOK(NoSub, feed)
      BY <1>0, NewSubs
<1>2. sub' = [sub EXCEPT ![w] = NoSub]
      BY DEF ForwardEnds, Suspend
<1>3. SameStore /\ send' = send /\ feed' = feed /\ work' = work
      BY DEF ForwardEnds, Suspend, SameStore, SameObjects, store, seen
<1>4. signal' \subseteq Workers /\ (Fault \/ faults' = faults)
      BY <1>0 DEF ForwardEnds, Suspend, TypeInv
<1> QED
    BY <1>0, <1>1, <1>2, <1>3, <1>4, SendsUntouched, SubStep

(* An append has one subscriber less to offer its event to. *)
LEMMA LeftShrinks ==
    ASSUME NEW x \in Sending, NEW w
    PROVE  /\ [x EXCEPT !.left = @ \ {w}] \in Sending
           /\ [x EXCEPT !.left = @ \ {w}].msg = x.msg
           /\ [x EXCEPT !.left = @ \ {w}].at = x.at
           /\ [x EXCEPT !.left = @ \ {w}].state = x.state
           /\ [x EXCEPT !.left = @ \ {w}].seq = x.seq
<1> DEFINE left == x.left \ {w}
<1>1. left \in SUBSET Workers
      BY DEF Sending
<1> HIDE DEF left
<1>2. /\ [x EXCEPT !.left = left] \in Sending
      /\ [x EXCEPT !.left = left].msg = x.msg
      /\ [x EXCEPT !.left = left].at = x.at
      /\ [x EXCEPT !.left = left].state = x.state
      /\ [x EXCEPT !.left = left].seq = x.seq
      BY <1>1 DEF Sending
<1> QED
    BY <1>2 DEF left

(* One append has new locals, for the same message and place. *)
LEMMA OneSendGoesOn ==
    ASSUME TypeInv, NEW s \in Senders, NEW x \in Sending, send[s] # None,
           send' = [send EXCEPT ![s] = x], x.msg = send[s].msg, x.state = send[s].state,
           x.at = send[s].at \/ (send[s].at = "event" /\ x.at = "offer")
    PROVE  /\ SendsGoOn
           /\ send' \in [Senders -> Sending \cup {None}]
<1>1. \A r \in Senders : send'[r] = IF r = s THEN x ELSE send[r]
      BY DEF TypeInv
<1>2. send' \in [Senders -> Sending \cup {None}]
      BY DEF TypeInv
<1>3. SendsGoOn
      BY <1>1 DEF SendsGoOn, SendAt
<1> QED
    BY <1>2, <1>3

(* One append ends. *)
LEMMA OneSendEnds ==
    ASSUME TypeInv, NEW s \in Senders, send' = [send EXCEPT ![s] = None]
    PROVE  /\ SendsGoOn
           /\ send' \in [Senders -> Sending \cup {None}]
           /\ \A r \in Senders : send'[r] # None => send'[r].seq = send[r].seq
<1>1. \A r \in Senders : send'[r] = IF r = s THEN None ELSE send[r]
      BY DEF TypeInv
<1>2. send' \in [Senders -> Sending \cup {None}]
      BY DEF TypeInv
<1>3. SendsGoOn
      BY <1>1 DEF SendsGoOn, SendAt
<1> QED
    BY <1>1, <1>2, <1>3

(* An event is offered to a subscriber. *)
LEMMA OfferKeepsInv ==
    ASSUME Inv, NEW s \in Senders, NEW w \in Workers, Offer(s, w)
    PROVE  Inv'
<1> DEFINE b == Sent(sub[w], send[s].seq)
           x == [send[s] EXCEPT !.left = @ \ {w}]
<1>0. TypeInv /\ FeedOK /\ feed \in Seq(Events)
      BY DEF Inv, TypeInv
<1>1. send[s] # None /\ send[s] \in Sending /\ send[s].seq \in Nat /\ send[s].seq <= Len(feed)
      BY <1>0, Fields DEF Offer, SendAt, FeedOK
<1>2. SubOK(b, feed)
      BY <1>0, <1>1, SubsOK, OfferKeepsSub
<1>3. sub' = [sub EXCEPT ![w] = b] /\ send' = [send EXCEPT ![s] = x]
      BY DEF Offer
<1> HIDE DEF b
<1>4. /\ x \in Sending /\ x.msg = send[s].msg /\ x.at = send[s].at /\ x.state = send[s].state
      /\ x.seq = send[s].seq
      BY <1>1, LeftShrinks
<1> HIDE DEF x
<1>5. SendsGoOn /\ send' \in [Senders -> Sending \cup {None}]
      BY <1>0, <1>1, <1>3, <1>4, OneSendGoesOn
<1>6. \A r \in Senders : send'[r] # None => send'[r].seq = send[r].seq
      BY <1>0, <1>3, <1>4 DEF TypeInv
<1>7. SameStore /\ feed' = feed /\ work' = work /\ signal' \subseteq Workers /\ faults' = faults
      BY <1>0 DEF Offer, SameStore, SameObjects, store, seen, TypeInv
<1> QED
    BY <1>2, <1>3, <1>5, <1>6, <1>7, SubStep

(* Another event is offered to a subscriber. *)
LEMMA OfferOtherKeepsInv ==
    ASSUME Inv, PublishOK, NEW w \in Workers, OfferOther(w)
    PROVE  Inv'
<1> DEFINE b == Sent(sub[w], publish.seq)
<1>0. TypeInv /\ FeedOK /\ feed \in Seq(Events)
      BY DEF Inv, TypeInv
<1>1. publish.seq \in Nat /\ publish.seq <= Len(feed)
      BY DEF PublishOK
<1>2. SubOK(b, feed)
      BY <1>0, <1>1, SubsOK, OfferKeepsSub
<1>3. sub' = [sub EXCEPT ![w] = b]
      BY DEF OfferOther
<1> HIDE DEF b
<1>4. /\ SameStore /\ send' = send /\ feed' = feed /\ work' = work /\ signal' \subseteq Workers
      /\ faults' = faults
      BY <1>0 DEF OfferOther, SameStore, SameObjects, store, seen, TypeInv
<1> QED
    BY <1>0, <1>2, <1>3, <1>4, SendsUntouched, SubStep

(* A worker subscribes. *)
LEMMA WaitForWakeKeepsInv ==
    ASSUME Inv, NEW w \in Workers, WaitForWake(w)
    PROVE  Inv'
<1> DEFINE b == [phase |-> "replaying", replay |-> AfterSequence + 1, until |-> Len(feed),
                 ch |-> <<>>, cursor |-> AfterSequence, closed |-> FALSE]
<1>0. TypeInv /\ FeedOK /\ feed \in Seq(Events)
      BY DEF Inv, TypeInv
<1>1. SubOK(b, feed)
      BY <1>0, NewSubs
<1>2. sub' = [sub EXCEPT ![w] = b]
      BY DEF WaitForWake
<1> HIDE DEF b
<1>3. \A s \in Senders : send[s] = None => send'[s] = None
      BY DEF WaitForWake
<1>4. ASSUME NEW s \in Senders, send[s] # None
      PROVE  /\ send'[s] \in Sending /\ send'[s].msg = send[s].msg /\ send'[s].at = send[s].at
             /\ send'[s].state = send[s].state /\ send'[s].seq = send[s].seq
  <2>1. send[s] \in Sending
        BY <1>0, <1>4, Fields
  <2>2. send'[s] = [send[s] EXCEPT !.left = @ \ {w}]
        BY <1>4 DEF WaitForWake
  <2> QED
      BY <2>1, <2>2, LeftShrinks
<1>5. send' \in [Senders -> Sending \cup {None}]
  <2>1. \A s \in Senders : send'[s] \in Sending \cup {None}
        BY <1>3, <1>4
  <2>2. send' = [s \in Senders |-> send'[s]]
        BY DEF WaitForWake
  <2> QED
      BY <2>1, <2>2
<1>6. SendsGoOn
      BY <1>3, <1>4 DEF SendsGoOn
<1>7. SameStore /\ feed' = feed /\ work' = work /\ signal' \subseteq Workers /\ faults' = faults
      BY <1>0 DEF WaitForWake, SameStore, SameObjects, store, seen, TypeInv
<1>8. \A s \in Senders : send'[s] # None => send'[s].seq = send[s].seq
      BY <1>3, <1>4
<1> QED
    BY <1>1, <1>2, <1>5, <1>6, <1>7, <1>8, SubStep

(* What is listed are ids. *)
LEMMA UndeliveredIds ==
    ASSUME TypeInv, NEW t
    PROVE  Undelivered(t) \subseteq Ids
<1>1. CASE mapped = 0
      BY <1>1 DEF Undelivered
<1>2. CASE mapped # 0
  <2>1. mapped \in 1..Len(states)
        BY <1>2 DEF TypeInv
  <2>2. \A p \in 1..Len(states[mapped]) : states[mapped][p].id \in Ids
        BY <2>1, Fields
  <2> QED
      BY <1>2, <2>2 DEF Undelivered
<1> QED
    BY <1>1, <1>2

(* The worker lists, takes the objects, or has to mark again. *)
LEMMA WorkerKeepsInv ==
    ASSUME Inv, NEW w \in Workers, List(w) \/ MarkDelivered(w) \/ MarkFails(w)
    PROVE  Inv'
<1>0. TypeInv /\ ObjectsOK /\ work[w] \in Working /\ Idle \in Working /\ Idle.at = "idle"
      BY Fields DEF Inv, Idle, Working
<1>1. CASE List(w)
  <2> DEFINE ids == Undelivered(TaskOf[w])
             x == IF ids = {} THEN Idle ELSE [at |-> "mark", ids |-> ids, state |-> 0]
  <2>1. ids \subseteq Ids
        BY <1>0, UndeliveredIds
  <2>2. work' = [work EXCEPT ![w] = x]
        BY <1>1 DEF List
  <2> HIDE DEF ids
  <2>3. x \in Working /\ x.at # "rewrite"
        BY <1>0, <2>1 DEF Working
  <2> HIDE DEF x
  <2>4. SameStore /\ send' = send /\ feed' = feed /\ sub' = sub /\ signal' \subseteq Workers /\ faults' = faults
        BY <1>0, <1>1 DEF List, SameStore, SameObjects, store, seen, TypeInv
  <2>5. mode = "up"
        BY <1>1 DEF List
  <2> QED
      BY <2>2, <2>3, <2>4, <2>5, WorkStep
<1>2. CASE MarkDelivered(w)
  <2> DEFINE y == [work[w] EXCEPT !.at = "rewrite"]
             x == IF mapped = 0 THEN Idle ELSE [y EXCEPT !.state = mapped]
  <2>1. work' = [work EXCEPT ![w] = x]
        BY <1>2 DEF MarkDelivered
  <2>2. y \in Working
        BY <1>0 DEF Working
  <2> HIDE DEF y
  <2>3. mapped \in Nat /\ (mapped # 0 => mapped \in 1..Len(states))
        BY <1>0 DEF TypeInv
  <2>4. x \in Working /\ (x.at = "rewrite" => x.state \in 1..Len(states))
        BY <1>0, <2>2, <2>3 DEF Working
  <2> HIDE DEF x
  <2>5. SameStore /\ send' = send /\ feed' = feed /\ sub' = sub /\ signal' \subseteq Workers /\ faults' = faults
        BY <1>0, <1>2 DEF MarkDelivered, SameStore, SameObjects, store, wakes, seen, TypeInv
  <2>6. mode = "up"
        BY <1>2 DEF MarkDelivered
  <2> QED
      BY <2>1, <2>4, <2>5, <2>6, WorkStep
<1>3. CASE MarkFails(w)
  <2> DEFINE x == [work[w] EXCEPT !.at = "mark"]
  <2>1. work' = [work EXCEPT ![w] = x]
        BY <1>3 DEF MarkFails
  <2>2. x \in Working /\ x.at = "mark"
        BY <1>0 DEF Working
  <2> HIDE DEF x
  <2>3. SameStore /\ send' = send /\ feed' = feed /\ sub' = sub /\ signal' \subseteq Workers /\ Fault
        BY <1>0, <1>3 DEF MarkFails, SameStore, SameObjects, store, wakes, seen, TypeInv
  <2>4. mode \notin {"down", "unreadable"}
        BY <1>0, <1>3 DEF MarkFails, ObjectsOK
  <2> QED
      BY <2>1, <2>2, <2>3, <2>4, WorkStep
<1> QED
    BY <1>1, <1>2, <1>3

-----------------------------------------------------------------------------
(* Steps of Append that store nothing. *)

(* The locals of an append, the feed and the acknowledgements change. *)
LEMMA SendStep ==
    ASSUME Inv, SameObjects, SendsGoOn, NewAcks,
           sub' = sub, work' = work, signal' = signal, Fault \/ faults' = faults,
           feed' \in Seq(Events), Len(feed) <= Len(feed'),
           send' \in [Senders -> Sending \cup {None}],
           \A s \in Senders : send'[s] # None => send'[s].seq <= Len(feed')
    PROVE  Inv'
<1>0. TypeInv /\ FeedOK /\ ObjectsOK
      BY DEF Inv
<1>1. /\ file' = file /\ mode' = mode /\ states' = states /\ mapped' = mapped /\ drawn' = drawn
      /\ purging' = purging /\ purges' = purges /\ consumed' = consumed
      BY DEF SameObjects
<1>2. faults' \in 0..MaxFaults
      BY <1>0, FaultsBounded
<1>3. TypeInv'
      BY <1>0, <1>1, <1>2 DEF TypeInv, NewAcks
<1>4. FeedOK'
  <2>1. feed \in Seq(Events)
        BY <1>0 DEF TypeInv
  <2>2. \A w \in Workers : SubOK(sub[w], feed')
    <3>1. ASSUME NEW f, f = feed', NEW w \in Workers
          PROVE  SubOK(sub[w], f)
      <4>1. f \in Seq(Events) /\ Len(feed) <= Len(f) /\ SubOK(sub[w], feed)
            BY <1>0, <3>1, SubsOK
      <4> QED
          BY <2>1, <4>1, FeedGrows
    <3> QED
        BY <3>1
  <2> QED
      BY <2>2 DEF FeedOK, SubOK
<1>5. ObjectsOK'
  <2>1. \A s \in Senders : send'[s] # None => send'[s].state \in 1..Len(states)
        BY <1>0 DEF ObjectsOK, SendsGoOn
  <2>2. mode \in {"down", "unreadable"} => \A s \in Senders : send'[s] = None
        BY <1>0 DEF ObjectsOK, SendsGoOn
  <2> QED
      BY <1>0, <1>1, <2>1, <2>2 DEF ObjectsOK
<1> QED
    BY <1>3, <1>4, <1>5, SameObjectsKeep DEF Inv

(* Nothing is acknowledged. *)
LEMMA NoNewAcks ==
    ASSUME Inv, acked' = acked
    PROVE  NewAcks
BY DEF NewAcks, Inv, TypeInv, AckedKept

(* An append ends without an effect. *)
LEMMA SendEnds ==
    ASSUME Inv, NEW s \in Senders, SameObjects, NewAcks, send' = [send EXCEPT ![s] = None],
           feed' = feed, sub' = sub, signal' = signal, work' = work, Fault \/ faults' = faults
    PROVE  Inv'
<1>0. TypeInv /\ FeedOK /\ feed \in Seq(Events) /\ Len(feed) \in Nat
      BY DEF Inv, TypeInv
<1>1. /\ SendsGoOn /\ send' \in [Senders -> Sending \cup {None}]
      /\ \A r \in Senders : send'[r] # None => send'[r].seq = send[r].seq
      BY <1>0, OneSendEnds
<1>2. \A r \in Senders : send'[r] # None => send'[r].seq <= Len(feed')
      BY <1>0, <1>1 DEF FeedOK, SendsGoOn
<1>3. feed' \in Seq(Events) /\ Len(feed) <= Len(feed')
      BY <1>0
<1> QED
    BY <1>1, <1>2, <1>3, SendStep

(* The wake event cannot be written. *)
LEMMA WakeEventFailsKeepsInv ==
    ASSUME Inv, NEW s \in Senders, WakeEventFails(s)
    PROVE  Inv'
<1>1. SameObjects /\ acked' = acked
      BY DEF WakeEventFails, SameObjects, store, seen
<1>2. /\ send' = [send EXCEPT ![s] = None] /\ feed' = feed /\ sub' = sub /\ signal' = signal
      /\ work' = work /\ Fault
      BY DEF WakeEventFails, wakes
<1> QED
    BY <1>1, <1>2, NoNewAcks, SendEnds

(* A message is acknowledged. *)
LEMMA AppendReturnsKeepsInv ==
    ASSUME Inv, NEW s \in Senders, AppendReturns(s)
    PROVE  Inv'
<1>0. TypeInv
      BY DEF Inv
<1>1. SameObjects
      BY DEF AppendReturns, SameObjects, store
<1>2. /\ send' = [send EXCEPT ![s] = None] /\ feed' = feed /\ sub' = sub /\ signal' = signal
      /\ work' = work /\ faults' = faults
      BY DEF AppendReturns, wakes
<1>3. SendAt(s, "offer") /\ send[s] # None /\ acked' = acked \cup {send[s].msg.id}
      BY DEF AppendReturns, SendAt
<1>4. NewAcks
  <2>1. send[s].msg.id \in Ids
        BY <1>0, <1>3, Fields
  <2>2. purges = 0 => Kept(send[s].msg.id)
        BY <1>3 DEF Inv, SendKept
  <2> QED
      BY <1>3, <2>1, <2>2 DEF NewAcks, Inv, TypeInv, AckedKept
<1> QED
    BY <1>1, <1>2, <1>4, SendEnds

(* The wake event is written. *)
LEMMA AppendWakeEventKeepsInv ==
    ASSUME Inv, NEW s \in Senders, AppendWakeEvent(s)
    PROVE  Inv'
<1> DEFINE left == Subscribed
           seq == Len(feed) + 1
           x1 == [send[s] EXCEPT !.at = "offer"]
           x2 == [x1 EXCEPT !.seq = seq]
           x == [x2 EXCEPT !.left = left]
<1>0. TypeInv /\ FeedOK /\ feed \in Seq(Events) /\ Len(feed) \in Nat
      BY DEF Inv, TypeInv
<1>1. send[s] # None /\ send[s].at = "event"
      BY DEF AppendWakeEvent, SendAt
<1>2. send[s] \in Sending /\ send[s].msg \in Message
      BY <1>0, <1>1, Fields
<1>3. send' = [send EXCEPT ![s] = x]
      BY DEF AppendWakeEvent
<1>4. left \in SUBSET Workers /\ seq \in Nat
      BY <1>0 DEF Subscribed
<1>5. x1 \in Sending /\ x1.at = "offer" /\ x1.msg = send[s].msg /\ x1.state = send[s].state
      BY <1>2 DEF Sending
<1> HIDE DEF x1, left, seq
<1>6. x2 \in Sending /\ x2.at = x1.at /\ x2.msg = x1.msg /\ x2.state = x1.state /\ x2.seq = seq
      BY <1>4, <1>5 DEF Sending
<1> HIDE DEF x2
<1>7. x \in Sending /\ x.at = x2.at /\ x.msg = x2.msg /\ x.state = x2.state /\ x.seq = x2.seq
      BY <1>4, <1>6 DEF Sending
<1> HIDE DEF x
<1>8. SendsGoOn /\ send' \in [Senders -> Sending \cup {None}]
      BY <1>0, <1>1, <1>2, <1>3, <1>5, <1>6, <1>7, OneSendGoesOn
<1>9. feed' \in Seq(Events) /\ Len(feed') = Len(feed) + 1
  <2>1. send[s].msg.task \in Events
        BY <1>2 DEF Message, Events
  <2> QED
      BY <1>0, <2>1 DEF AppendWakeEvent
<1>10. \A r \in Senders : send'[r] # None => send'[r].seq <= Len(feed')
  <2>1. \A r \in Senders : send'[r] = IF r = s THEN x ELSE send[r]
        BY <1>0, <1>3 DEF TypeInv
  <2>2. \A r \in Senders : send[r] # None => send[r].seq <= Len(feed) /\ send[r].seq \in Nat
        BY <1>0, Fields DEF FeedOK
  <2>3. x.seq = Len(feed) + 1
        BY <1>6, <1>7 DEF seq
  <2> QED
      BY <1>0, <1>9, <2>1, <2>2, <2>3
<1>11. SameObjects /\ acked' = acked
      BY DEF AppendWakeEvent, SameObjects, store, seen
<1>12. sub' = sub /\ work' = work /\ signal' = signal /\ faults' = faults
      BY DEF AppendWakeEvent
<1>13. Len(feed) <= Len(feed')
      BY <1>0, <1>9
<1> QED
    BY <1>8, <1>9, <1>10, <1>11, <1>12, <1>13, NoNewAcks, SendStep

(* Another event of the run is written. *)
LEMMA OtherEventKeepsInv ==
    ASSUME Inv, NEW e \in Events, OtherEvent(e)
    PROVE  Inv'
<1>0. TypeInv /\ FeedOK /\ feed \in Seq(Events) /\ Len(feed) \in Nat
      BY DEF Inv, TypeInv
<1>1. feed' \in Seq(Events) /\ Len(feed') = Len(feed) + 1
      BY <1>0 DEF OtherEvent
<1>2. SameObjects /\ acked' = acked
      BY DEF OtherEvent, SameObjects, store, seen
<1>3. send' = send /\ sub' = sub /\ work' = work /\ signal' = signal /\ faults' = faults
      BY DEF OtherEvent
<1>4. SendsGoOn /\ send' \in [Senders -> Sending \cup {None}]
      BY <1>0, <1>3, SendsUntouched
<1>5. \A s \in Senders : send'[s] # None => send'[s].seq <= Len(feed')
  <2>1. \A s \in Senders : send[s] # None => send[s].seq <= Len(feed) /\ send[s].seq \in Nat
        BY <1>0, Fields DEF FeedOK
  <2> QED
      BY <1>0, <1>1, <1>3, <2>1
<1>6. Len(feed) <= Len(feed')
      BY <1>0, <1>1
<1> QED
    BY <1>1, <1>2, <1>3, <1>4, <1>5, <1>6, NoNewAcks, SendStep

-----------------------------------------------------------------------------
(* Append draws an id. *)

(* The objects are the same, but for an empty one. *)
LEMMA AppendBeginsObjects ==
    ASSUME Inv, NEW s \in Senders, NEW t \in Tasks, AppendBegins(s, t)
    PROVE  /\ states' \in Seq(Seq(Message)) /\ Len(states) <= Len(states') /\ Len(states') \in Nat
           /\ \A i \in 1..Len(states) : states'[i] = states[i]
           /\ \A i \in 1..Len(states') : \A p \in 1..Len(states'[i]) : i \in 1..Len(states)
           /\ mapped' \in 1..Len(states') /\ (mapped # 0 => mapped' = mapped)
           /\ (mapped = 0 => mapped' = Len(states'))
           /\ (mapped # 0 => Len(states') = Len(states))
           /\ (mapped = 0 => Len(states') = Len(states) + 1)
<1>0. states \in Seq(Seq(Message)) /\ Len(states) \in Nat /\ mapped \in 0..Len(states)
      BY DEF Inv, TypeInv
<1>1. CASE mapped = 0
  <2>1. states' = Append(states, <<>>) /\ mapped' = Len(states) + 1
        BY <1>1 DEF AppendBegins
  <2>2. <<>> \in Seq(Message) /\ Len(<<>>) = 0
        OBVIOUS
  <2>3. /\ states' \in Seq(Seq(Message)) /\ Len(states') = Len(states) + 1
        /\ states'[Len(states) + 1] = <<>>
        /\ \A i \in 1..Len(states) : states'[i] = states[i]
        BY <1>0, <2>1, <2>2
  <2>4. ASSUME NEW i \in 1..Len(states'), NEW p \in 1..Len(states'[i])
        PROVE  i \in 1..Len(states)
        BY <1>0, <2>2, <2>3, <2>4
  <2> QED
      BY <1>0, <1>1, <2>1, <2>3, <2>4
<1>2. CASE mapped # 0
      BY <1>0, <1>2 DEF AppendBegins
<1> QED
    BY <1>1, <1>2

(* The locals of the new append. *)
LEMMA AppendBeginsSend ==
    ASSUME Inv, NEW s \in Senders, NEW t \in Tasks, AppendBegins(s, t)
    PROVE  /\ send' \in [Senders -> Sending \cup {None}]
           /\ \A r \in Senders : r # s => send'[r] = send[r]
           /\ send'[s] \in Sending /\ send'[s].at = "write" /\ send'[s].msg.id = drawn + 1
           /\ send'[s].state = mapped' /\ send'[s].seq = 0
           /\ drawn' = drawn + 1 /\ drawn + 1 \in Ids
<1> USE InboxAssumption
<1> DEFINE m == [id |-> drawn + 1, task |-> t, delivered |-> FALSE]
<1>0. TypeInv
      BY DEF Inv
<1>1. SUFFICES ASSUME NEW k, k = mapped'
               PROVE  /\ send' \in [Senders -> Sending \cup {None}]
                      /\ \A r \in Senders : r # s => send'[r] = send[r]
                      /\ send'[s] \in Sending /\ send'[s].at = "write" /\ send'[s].msg.id = drawn + 1
                      /\ send'[s].state = k /\ send'[s].seq = 0
                      /\ drawn' = drawn + 1 /\ drawn + 1 \in Ids
      OBVIOUS
<1> DEFINE x == [at |-> "write", msg |-> m, state |-> k, left |-> {}, seq |-> 0]
<1>2. drawn + 1 \in Ids /\ drawn' = drawn + 1
      BY <1>0 DEF AppendBegins, TypeInv, Ids
<1>3. m \in Message /\ m.id = drawn + 1
      BY <1>2 DEF Message
<1>4. k \in Nat
      BY <1>1, AppendBeginsObjects
<1>5. send' = [send EXCEPT ![s] = x]
      BY <1>1 DEF AppendBegins
<1> HIDE DEF m
<1>6. x \in Sending /\ x.at = "write" /\ x.msg = m /\ x.state = k /\ x.seq = 0
      BY <1>3, <1>4 DEF Sending
<1> HIDE DEF x
<1> QED
    BY <1>0, <1>2, <1>3, <1>5, <1>6 DEF TypeInv

(* Nothing has the new id yet. *)
LEMMA AppendBeginsData ==
    ASSUME Inv, NEW s \in Senders, NEW t \in Tasks, AppendBegins(s, t)
    PROVE  Data'
<1>0. TypeInv /\ Data
      BY DEF Inv
<1>1. /\ Len(states) \in Nat /\ Len(states') \in Nat /\ Len(states) <= Len(states')
      /\ \A i \in 1..Len(states) : states'[i] = states[i]
      /\ \A i \in 1..Len(states') : \A p \in 1..Len(states'[i]) : i \in 1..Len(states)
      BY <1>0, AppendBeginsObjects, Fields
<1>2. /\ \A r \in Senders : r # s => send'[r] = send[r]
      /\ send'[s] \in Sending /\ send'[s].at = "write" /\ send'[s].msg.id = drawn + 1
      /\ drawn' = drawn + 1
      BY AppendBeginsSend
<1>3. file' = file /\ consumed' = consumed /\ drawn \in Nat
      BY <1>0 DEF AppendBegins, seen, TypeInv
<1>4. ObjectIds' /\ LogIds' /\ MarkedInObjects' /\ MarkedInLog'
  <2>1. ObjectIds'
        BY <1>0, <1>1, SMTT(30) DEF Data, ObjectIds
  <2>2. LogIds' /\ MarkedInLog'
        BY <1>0, <1>3 DEF Data, LogIds, MarkedInLog
  <2>3. MarkedInObjects'
        BY <1>0, <1>1, <1>3 DEF Data, MarkedInObjects
  <2> QED
      BY <2>1, <2>2, <2>3
<1>5. LogFirst'
      BY <1>0, <1>1, <1>3 DEF Data, LogFirst
<1>6. IdsDrawn'
  <2>1. \A i \in 1..Len(states) : \A p \in 1..Len(states[i]) : states[i][p].id <= drawn + 1
        BY <1>0, <1>3, Fields DEF Data, IdsDrawn
  <2>2. \A q \in 1..Len(file) : file[q].msg.id <= drawn + 1
        BY <1>0, <1>3, Fields DEF Data, IdsDrawn
  <2>3. \A id \in consumed : id <= drawn + 1
    <3>1. \A id \in consumed : id \in Nat
          BY <1>0 DEF TypeInv, Ids
    <3> QED
        BY <1>0, <1>3, <3>1 DEF Data, IdsDrawn
  <2>4. \A r \in Senders : send'[r] # None => send'[r].msg.id <= drawn + 1
    <3>1. \A r \in Senders : send[r] # None => send[r].msg.id \in Nat /\ send[r].msg.id <= drawn
          BY <1>0, Fields DEF Data, IdsDrawn
    <3> QED
        BY <1>2, <1>3, <3>1
  <2> QED
      BY <1>1, <1>2, <1>3, <2>1, <2>2, <2>3, <2>4 DEF IdsDrawn
<1>7. SendIds'
  <2>1. \A id : InStates(id)' => InStates(id)
        BY <1>1 DEF InStates
  <2>2. \A id : InFile(id)' => InFile(id)
        BY <1>3 DEF InFile
  <2>3. /\ ~InStates(drawn + 1) /\ ~InFile(drawn + 1) /\ drawn + 1 \notin consumed
        /\ \A r \in Senders : send[r] # None => send[r].msg.id # drawn + 1
    <3>1. ~InStates(drawn + 1)
          BY <1>0, <1>3, Fields DEF Data, IdsDrawn, InStates
    <3>2. ~InFile(drawn + 1)
          BY <1>0, <1>3, Fields DEF Data, IdsDrawn, InFile
    <3>3. drawn + 1 \notin consumed
          BY <1>0, <1>3 DEF Data, IdsDrawn
    <3>4. \A r \in Senders : send[r] # None => send[r].msg.id # drawn + 1
          BY <1>0, <1>3, Fields DEF Data, IdsDrawn
    <3> QED
        BY <3>1, <3>2, <3>3, <3>4
  <2>4. ASSUME NEW r \in Senders, SendAt(r, "write")', NEW id, id = send'[r].msg.id
        PROVE  ~InStates(id)' /\ ~InFile(id)' /\ id \notin consumed'
    <3>1. CASE r = s
      <4>1. id = drawn + 1
            BY <1>2, <2>4, <3>1
      <4> QED
          BY <1>3, <2>1, <2>2, <2>3, <4>1
    <3>2. CASE r # s
      <4>1. SendAt(r, "write") /\ id = send[r].msg.id
            BY <1>2, <2>4, <3>2 DEF SendAt
      <4>2. ~InStates(id) /\ ~InFile(id) /\ id \notin consumed
            BY <1>0, <4>1 DEF Data, SendIds
      <4> QED
          BY <1>3, <2>1, <2>2, <4>2
    <3> QED
        BY <3>1, <3>2
  <2>5. ASSUME NEW q \in Senders, NEW r \in Senders, send'[q] # None, send'[r] # None,
               send'[q].msg.id = send'[r].msg.id
        PROVE  q = r
        BY <1>0, <1>2, <2>3, <2>5 DEF Data, SendIds
  <2>6. \A r \in Senders : SendAt(r, "write")' =>
           /\ ~InStates(send[r].msg.id)'
           /\ ~InFile(send[r].msg.id)'
           /\ send'[r].msg.id \notin consumed'
        BY <2>4 DEF InStates, InFile
  <2> QED
      BY <2>5, <2>6 DEF SendIds
<1> QED
    BY <1>4, <1>5, <1>6, <1>7 DEF Data

(* Append begins. *)
LEMMA AppendBeginsKeepsInv ==
    ASSUME Inv, NEW s \in Senders, NEW t \in Tasks, AppendBegins(s, t)
    PROVE  Inv'
<1> USE InboxAssumption
<1>0. TypeInv /\ FeedOK /\ ObjectsOK
      BY DEF Inv
<1>1. /\ states' \in Seq(Seq(Message)) /\ Len(states') \in Nat /\ Len(states) <= Len(states') /\ Len(states) \in Nat
      /\ \A i \in 1..Len(states) : states'[i] = states[i]
      /\ mapped' \in 1..Len(states') /\ (mapped # 0 => mapped' = mapped)
      /\ (mapped = 0 => mapped' = Len(states'))
      /\ (mapped # 0 => Len(states') = Len(states))
      /\ (mapped = 0 => Len(states') = Len(states) + 1)
      BY <1>0, AppendBeginsObjects, Fields
<1>2. /\ send' \in [Senders -> Sending \cup {None}]
      /\ \A r \in Senders : r # s => send'[r] = send[r]
      /\ send'[s] \in Sending /\ send'[s].at = "write"
      /\ send'[s].state = mapped' /\ send'[s].seq = 0
      /\ drawn' = drawn + 1 /\ drawn + 1 \in Ids
      BY AppendBeginsSend
<1>3. /\ file' = file /\ mode' = mode /\ purging' = purging /\ purges' = purges /\ feed' = feed
      /\ sub' = sub /\ signal' = signal /\ work' = work /\ acked' = acked /\ consumed' = consumed
      /\ faults' = faults /\ mode = "up"
      BY DEF AppendBegins, wakes, seen
<1>4. TypeInv'
  <2>1. mapped' \in 0..Len(states') /\ purging' \in 0..Len(states') /\ drawn' \in 0..MaxMessages
    <3>1. purging \in 0..Len(states) /\ drawn \in 0..MaxMessages
          BY <1>0 DEF TypeInv
    <3>2. mapped' \in 0..Len(states')
          BY <1>1
    <3>3. purging' \in 0..Len(states')
          BY <1>1, <1>3, <3>1
    <3>4. drawn' \in 0..MaxMessages
          BY <1>2, <3>1, InboxAssumption DEF Ids
    <3> QED
        BY <3>2, <3>3, <3>4
  <2> QED
      BY <1>0, <1>1, <1>2, <1>3, <2>1 DEF TypeInv
<1>5. FeedOK'
      BY <1>0, <1>2, <1>3, SMTT(30) DEF FeedOK, TypeInv
<1>6. ObjectsOK'
  <2>1. \A r \in Senders : send'[r] # None => send'[r].state \in 1..Len(states')
    <3>1. \A r \in Senders : send[r] # None => send[r].state \in 1..Len(states')
          BY <1>0, <1>1 DEF ObjectsOK
    <3>2. send'[s].state \in 1..Len(states')
          BY <1>1, <1>2
    <3> QED
        BY <1>2, <3>1, <3>2
  <2>2. \A w \in Workers : work[w].at = "rewrite" => work[w].state \in 1..Len(states')
        BY <1>0, <1>1 DEF ObjectsOK
  <2> QED
      BY <1>3, <2>1, <2>2 DEF ObjectsOK
<1>7. OneObject'
      BY <1>0, <1>1, <1>3 DEF OneObject, Inv, TypeInv
<1>8. \A id : Kept(id) => Kept(id)'
  <2>1. \A id : InMapped(id) => InMapped(id)'
        BY <1>0, <1>1 DEF InMapped, TypeInv
  <2> QED
      BY <1>3, <2>1 DEF Kept, InFile
<1>9. AckedKept'
      BY <1>3, <1>8 DEF AckedKept, Inv
<1>10. SendKept'
  <2> SUFFICES ASSUME purges' = 0, NEW r \in Senders, SendAt(r, "event")' \/ SendAt(r, "offer")'
               PROVE  Kept(send[r].msg.id)'
      BY DEF SendKept
  <2>1. r # s
        BY <1>2 DEF SendAt
  <2>2. send'[r] = send[r] /\ (SendAt(r, "event") \/ SendAt(r, "offer"))
        BY <1>2, <2>1 DEF SendAt
  <2>3. SUFFICES ASSUME NEW id, id = send[r].msg.id
                 PROVE  Kept(id)'
        BY <2>2 DEF Kept, InFile, InMapped
  <2> QED
      BY <1>3, <1>8, <2>2, <2>3 DEF Inv, SendKept
<1> QED
    BY <1>4, <1>5, <1>6, <1>7, <1>9, <1>10, AppendBeginsData DEF Inv

-----------------------------------------------------------------------------
(* The log grows. *)

(* A record of a message that is not in the log is appended, whole or not. *)
LEMMA LogGrows ==
    ASSUME Inv, NEW s \in Senders, SendAt(s, "write"), NEW c \in Chunk, c.msg = send[s].msg,
           file' = Append(file, c)
    PROVE  /\ file' \in Seq(Chunk) /\ Len(file') = Len(file) + 1
           /\ \A q \in 1..Len(file) : file'[q] = file[q]
           /\ file'[Len(file) + 1].msg = send[s].msg
           /\ LogIds'
           /\ \A q \in 1..Len(file') : file'[q].msg.id <= drawn
           /\ \A q \in 1..Len(file') : file'[q].msg.id \in consumed => file'[q].msg.delivered
           /\ \A id : InFile(id) => InFile(id)'
           /\ \A id : InFile(id)' => InFile(id) \/ id = send[s].msg.id
<1>0. TypeInv /\ Data
      BY DEF Inv
<1>1. file \in Seq(Chunk) /\ Len(file) \in Nat /\ send[s] # None
      BY <1>0 DEF TypeInv, SendAt
<1>2. /\ file' \in Seq(Chunk) /\ Len(file') = Len(file) + 1
      /\ \A q \in 1..Len(file) : file'[q] = file[q]
      /\ file'[Len(file) + 1].msg = send[s].msg
      BY <1>1
<1>3. /\ \A q \in 1..Len(file) : file[q].msg.id # send[s].msg.id
      /\ send[s].msg.id \notin consumed /\ send[s].msg.id <= drawn
      BY <1>0, <1>1 DEF Data, SendIds, InFile, IdsDrawn
<1>4. \A q \in 1..Len(file') : q \in 1..Len(file) \/ q = Len(file) + 1
      BY <1>1, <1>2
<1>5. LogIds'
  <2> SUFFICES ASSUME NEW p \in 1..Len(file'), NEW q \in 1..Len(file'), file'[p].msg.id = file'[q].msg.id
               PROVE  p = q
      BY DEF LogIds
  <2>1. CASE p \in 1..Len(file) /\ q \in 1..Len(file)
        BY <1>0, <1>2, <2>1 DEF Data, LogIds
  <2>2. CASE p = Len(file) + 1 \/ q = Len(file) + 1
        BY <1>2, <1>3, <1>4, <2>2
  <2> QED
      BY <1>4, <2>1, <2>2
<1>6. \A q \in 1..Len(file') : file'[q].msg.id <= drawn
      BY <1>0, <1>2, <1>3, <1>4 DEF Data, IdsDrawn
<1>7. \A q \in 1..Len(file') : file'[q].msg.id \in consumed => file'[q].msg.delivered
      BY <1>0, <1>2, <1>3, <1>4 DEF Data, MarkedInLog
<1>8. \A id : InFile(id) => InFile(id)'
      BY <1>1, <1>2 DEF InFile
<1>9. \A id : InFile(id)' => InFile(id) \/ id = send[s].msg.id
      BY <1>2, <1>4 DEF InFile
<1> QED
    BY <1>2, <1>5, <1>6, <1>7, <1>8, <1>9

(* A write fails, and may leave its record in the log. *)
LEMMA FailedWriteData ==
    ASSUME Inv, NEW s \in Senders, SendAt(s, "write"), NEW c \in Chunk, c.msg = send[s].msg,
           file' = Append(file, c), states' = states, drawn' = drawn, consumed' = consumed,
           send' = [send EXCEPT ![s] = None]
    PROVE  Data'
<1>0. TypeInv /\ Data /\ Len(file) \in Nat /\ send[s] # None
      BY DEF Inv, TypeInv, SendAt
<1>1. /\ Len(file') = Len(file) + 1
      /\ \A q \in 1..Len(file) : file'[q] = file[q]
      /\ file'[Len(file) + 1].msg = send[s].msg
      /\ LogIds'
      /\ \A q \in 1..Len(file') : file'[q].msg.id <= drawn
      /\ \A q \in 1..Len(file') : file'[q].msg.id \in consumed => file'[q].msg.delivered
      /\ \A id : InFile(id)' => InFile(id) \/ id = send[s].msg.id
      BY LogGrows
<1>2. \A r \in Senders : send'[r] # None => r # s /\ send'[r] = send[r]
      BY <1>0 DEF TypeInv
<1>3. ObjectIds' /\ MarkedInObjects' /\ MarkedInLog'
      BY <1>0, <1>1, SMTT(30) DEF Data, ObjectIds, MarkedInObjects, MarkedInLog
<1>4. IdsDrawn'
      BY <1>0, <1>1, <1>2 DEF Data, IdsDrawn
<1>5. LogFirst'
  <2> SUFFICES ASSUME NEW i \in 1..Len(states), NEW p \in 1..Len(states[i]), NEW q \in 1..Len(file'),
                      states[i][p].delivered, file'[q].msg.id = states[i][p].id
               PROVE  file'[q].msg.delivered
      BY DEF LogFirst
  <2>1. states[i][p].id # send[s].msg.id
        BY <1>0 DEF Data, SendIds, InStates
  <2>2. q \in 1..Len(file)
        BY <1>0, <1>1, <2>1
  <2> QED
      BY <1>0, <1>1, <2>2 DEF Data, LogFirst
<1>6. SendIds'
  <2>1. ASSUME NEW r \in Senders, SendAt(r, "write")', NEW id, id = send'[r].msg.id
        PROVE  ~InStates(id)' /\ ~InFile(id)' /\ id \notin consumed'
    <3>1. r # s /\ SendAt(r, "write") /\ send[r] # None /\ id = send[r].msg.id
          BY <1>2, <2>1 DEF SendAt
    <3>2. ~InStates(id) /\ ~InFile(id) /\ id \notin consumed /\ id # send[s].msg.id
          BY <1>0, <3>1 DEF Data, SendIds
    <3>3. ~InStates(id)'
          BY <3>2 DEF InStates
    <3> QED
        BY <1>1, <3>2, <3>3
  <2>2. \A r \in Senders : SendAt(r, "write")' =>
           /\ ~InStates(send[r].msg.id)'
           /\ ~InFile(send[r].msg.id)'
           /\ send'[r].msg.id \notin consumed'
        BY <2>1 DEF InStates, InFile
  <2>3. \A q, r \in Senders : send'[q] # None /\ send'[r] # None /\ send'[q].msg.id = send'[r].msg.id => q = r
        BY <1>0, <1>2 DEF Data, SendIds
  <2> QED
      BY <2>2, <2>3 DEF SendIds
<1> QED
    BY <1>1, <1>3, <1>4, <1>5, <1>6 DEF Data

(* The write of Append fails. *)
LEMMA AppendFailsKeepsInv ==
    ASSUME Inv, NEW s \in Senders, AppendFails(s)
    PROVE  Inv'
<1>0. TypeInv /\ FeedOK /\ ObjectsOK
      BY DEF Inv
<1>1. /\ mode' = mode /\ states' = states /\ mapped' = mapped /\ drawn' = drawn /\ purging' = purging
      /\ purges' = purges /\ feed' = feed /\ sub' = sub /\ signal' = signal /\ work' = work
      /\ acked' = acked /\ consumed' = consumed /\ Fault /\ SendAt(s, "write")
      /\ send' = [send EXCEPT ![s] = None]
      BY DEF AppendFails, wakes, seen
<1>2. CASE file' = file
  <2>1. SameObjects
        BY <1>1, <1>2 DEF SameObjects
  <2> QED
      BY <1>1, <2>1, NoNewAcks, SendEnds
<1>3. CASE \E c \in Remains(send[s].msg) : file' = Append(file, c)
  <2>1. PICK c \in Remains(send[s].msg) : file' = Append(file, c)
        BY <1>3
  <2>2. send[s] # None /\ send[s].msg \in Message
        BY <1>0, <1>1, Fields DEF SendAt
  <2>3. c \in Chunk /\ c.msg = send[s].msg
        BY <2>2, Chunks
  <2>4. file' \in Seq(Chunk) /\ \A id : InFile(id) => InFile(id)'
        BY <1>1, <2>1, <2>3, LogGrows
  <2>5. Data'
        BY <1>1, <2>1, <2>3, FailedWriteData
  <2>6. /\ SendsGoOn /\ send' \in [Senders -> Sending \cup {None}]
        /\ \A r \in Senders : send'[r] # None => send'[r].seq = send[r].seq
        BY <1>0, <1>1, OneSendEnds
  <2>7. faults' \in 0..MaxFaults
        BY <1>0, <1>1, FaultsBounded
  <2>8. TypeInv'
        BY <1>0, <1>1, <2>4, <2>6, <2>7 DEF TypeInv
  <2>9. FeedOK'
        BY <1>0, <1>1, <2>6 DEF FeedOK, SendsGoOn
  <2>10. ObjectsOK'
        BY <1>0, <1>1, <2>6 DEF ObjectsOK, SendsGoOn
  <2>11. OneObject'
        BY <1>1 DEF OneObject, Inv
  <2>12. \A id : Kept(id) => Kept(id)'
        BY <1>1, <2>4 DEF Kept, InMapped
  <2>13. AckedKept'
        BY <1>1, <2>12 DEF AckedKept, Inv
  <2>14. SendKept'
    <3> SUFFICES ASSUME purges' = 0, NEW r \in Senders, SendAt(r, "event")' \/ SendAt(r, "offer")'
                 PROVE  Kept(send[r].msg.id)'
        BY DEF SendKept
    <3>1. send'[r] = send[r] /\ (SendAt(r, "event") \/ SendAt(r, "offer"))
          BY <1>0, <1>1 DEF SendAt, TypeInv
    <3>2. SUFFICES ASSUME NEW id, id = send[r].msg.id
                   PROVE  Kept(id)'
          BY <3>1 DEF Kept, InFile, InMapped
    <3> QED
        BY <1>1, <2>12, <3>1, <3>2 DEF Inv, SendKept
  <2> QED
      BY <2>5, <2>8, <2>9, <2>10, <2>11, <2>13, <2>14 DEF Inv
<1> QED
    BY <1>2, <1>3 DEF AppendFails

(* The object gets the message at its end. *)
LEMMA ObjectGrows ==
    ASSUME TypeInv, NEW k \in 1..Len(states), NEW m \in Message,
           states' = [states EXCEPT ![k] = Append(@, m)]
    PROVE  /\ states' \in Seq(Seq(Message)) /\ Len(states') = Len(states)
           /\ \A i \in 1..Len(states) : i # k => states'[i] = states[i]
           /\ Len(states'[k]) = Len(states[k]) + 1 /\ Len(states[k]) \in Nat
           /\ states'[k][Len(states[k]) + 1] = m
           /\ \A p \in 1..Len(states[k]) : states'[k][p] = states[k][p]
<1> DEFINE n == Append(states[k], m)
<1>1. states \in Seq(Seq(Message)) /\ states[k] \in Seq(Message) /\ Len(states[k]) \in Nat
      BY DEF TypeInv
<1>2. /\ n \in Seq(Message) /\ Len(n) = Len(states[k]) + 1 /\ n[Len(states[k]) + 1] = m
      /\ \A p \in 1..Len(states[k]) : n[p] = states[k][p]
      BY <1>1
<1>3. states' = [states EXCEPT ![k] = n]
      OBVIOUS
<1> HIDE DEF n
<1>4. /\ states' \in Seq(Seq(Message)) /\ Len(states') = Len(states)
      /\ \A i \in 1..Len(states) : i # k => states'[i] = states[i]
      /\ states'[k] = n
      BY <1>1, <1>2, <1>3
<1> QED
    BY <1>1, <1>2, <1>4

(* The objects' places, before and after. *)
LEMMA ObjectPlaces ==
    ASSUME TypeInv, NEW k \in 1..Len(states), NEW m \in Message,
           states' = [states EXCEPT ![k] = Append(@, m)]
    PROVE  /\ \A i \in 1..Len(states) : \A p \in 1..Len(states[i]) :
                 p \in 1..Len(states'[i]) /\ states'[i][p] = states[i][p]
           /\ \A i \in 1..Len(states') : \A p \in 1..Len(states'[i]) :
                 \/ i \in 1..Len(states) /\ p \in 1..Len(states[i]) /\ states'[i][p] = states[i][p]
                 \/ i = k /\ p = Len(states[k]) + 1 /\ states'[i][p] = m
<1>1. /\ Len(states') = Len(states)
      /\ \A i \in 1..Len(states) : i # k => states'[i] = states[i]
      /\ Len(states'[k]) = Len(states[k]) + 1 /\ Len(states[k]) \in Nat
      /\ states'[k][Len(states[k]) + 1] = m
      /\ \A p \in 1..Len(states[k]) : states'[k][p] = states[k][p]
      BY ObjectGrows
<1>2. ASSUME NEW i \in 1..Len(states), NEW p \in 1..Len(states[i])
      PROVE  p \in 1..Len(states'[i]) /\ states'[i][p] = states[i][p]
      BY <1>1, <1>2
<1>3. ASSUME NEW i \in 1..Len(states'), NEW p \in 1..Len(states'[i])
      PROVE  \/ i \in 1..Len(states) /\ p \in 1..Len(states[i]) /\ states'[i][p] = states[i][p]
             \/ i = k /\ p = Len(states[k]) + 1 /\ states'[i][p] = m
  <2>1. CASE i # k
        BY <1>1, <1>3, <2>1
  <2>2. CASE i = k /\ p = Len(states[k]) + 1
        BY <1>1, <2>2
  <2>3. CASE i = k /\ p # Len(states[k]) + 1
    <3>1. p \in 1..Len(states[k])
          BY <1>1, <1>3, <2>3
    <3> QED
        BY <1>1, <1>3, <2>3, <3>1
  <2> QED
      BY <2>1, <2>2, <2>3
<1> QED
    BY <1>2, <1>3

(* The message is written to the log and to the object. *)
LEMMA WriteData ==
    ASSUME Inv, NEW s \in Senders, SendAt(s, "write"),
           file' = Append(file, Whole(send[s].msg)),
           states' = [states EXCEPT ![send[s].state] = Append(@, send[s].msg)],
           drawn' = drawn, consumed' = consumed,
           \A r \in Senders : r # s => send'[r] = send[r],
           send'[s] # None => ~SendAt(s, "write")' /\ send'[s].msg = send[s].msg
    PROVE  Data'
<1>0. TypeInv /\ Data /\ Len(file) \in Nat /\ send[s] # None
      BY DEF Inv, TypeInv, SendAt
<1> DEFINE k == send[s].state
           m == send[s].msg
<1>1. k \in 1..Len(states) /\ m \in Message
      BY <1>0, Fields DEF Inv, ObjectsOK
<1>2. Whole(m) \in Chunk /\ Whole(m).msg = m
      BY <1>1, Chunks
<1>3. /\ Len(file') = Len(file) + 1
      /\ \A q \in 1..Len(file) : file'[q] = file[q]
      /\ file'[Len(file) + 1].msg = m
      /\ LogIds'
      /\ \A q \in 1..Len(file') : file'[q].msg.id <= drawn
      /\ \A q \in 1..Len(file') : file'[q].msg.id \in consumed => file'[q].msg.delivered
      /\ \A id : InFile(id)' => InFile(id) \/ id = m.id
      BY <1>2, LogGrows
<1>4. \A i \in 1..Len(states') : \A p \in 1..Len(states'[i]) :
         \/ i \in 1..Len(states) /\ p \in 1..Len(states[i]) /\ states'[i][p] = states[i][p]
         \/ i = k /\ p = Len(states[k]) + 1 /\ states'[i][p] = m
      BY <1>0, <1>1, ObjectPlaces
<1>5. /\ ~InStates(m.id) /\ ~InFile(m.id) /\ m.id \notin consumed /\ m.id <= drawn
      BY <1>0 DEF Data, SendIds, IdsDrawn
<1>6. \A i \in 1..Len(states) : \A p \in 1..Len(states[i]) : states[i][p].id # m.id
      BY <1>5 DEF InStates
<1>7. \A q \in 1..Len(file) : file[q].msg.id # m.id
      BY <1>5 DEF InFile
<1>8. \A q \in 1..Len(file') : q \in 1..Len(file) \/ q = Len(file) + 1
      BY <1>0, <1>3
<1>9. \A r \in Senders : send'[r] # None => send[r] # None /\ send'[r].msg = send[r].msg
      BY <1>0
<1> HIDE DEF k, m
<1>10. ObjectIds'
  <2> SUFFICES ASSUME NEW i \in 1..Len(states'), NEW j \in 1..Len(states'),
                      NEW p \in 1..Len(states'[i]), NEW q \in 1..Len(states'[j]),
                      states'[i][p].id = states'[j][q].id
               PROVE  i = j /\ p = q
      BY DEF ObjectIds
  <2>4. /\ \/ i \in 1..Len(states) /\ p \in 1..Len(states[i]) /\ states'[i][p] = states[i][p]
           \/ i = k /\ p = Len(states[k]) + 1 /\ states'[i][p] = m
        /\ \/ j \in 1..Len(states) /\ q \in 1..Len(states[j]) /\ states'[j][q] = states[j][q]
           \/ j = k /\ q = Len(states[k]) + 1 /\ states'[j][q] = m
        BY <1>4
  <2>1. CASE i = k /\ p = Len(states[k]) + 1 /\ states'[i][p] = m
    <3>1. states'[j][q].id = m.id
          BY <2>1
    <3> QED
        BY <1>6, <2>1, <2>4, <3>1
  <2>2. CASE j = k /\ q = Len(states[k]) + 1 /\ states'[j][q] = m
    <3>1. states'[i][p].id = m.id
          BY <2>2
    <3> QED
        BY <1>6, <2>2, <2>4, <3>1
  <2>3. CASE /\ i \in 1..Len(states) /\ p \in 1..Len(states[i]) /\ states'[i][p] = states[i][p]
             /\ j \in 1..Len(states) /\ q \in 1..Len(states[j]) /\ states'[j][q] = states[j][q]
        BY <1>0, <2>3, SMTT(30) DEF Data, ObjectIds
  <2> QED
      BY <2>1, <2>2, <2>3, <2>4
<1>11. MarkedInObjects' /\ MarkedInLog'
  <2>1. MarkedInObjects'
        BY <1>0, <1>4, <1>5, SMTT(30) DEF Data, MarkedInObjects
  <2>2. MarkedInLog'
        BY <1>3 DEF MarkedInLog
  <2> QED
      BY <2>1, <2>2
<1>12. IdsDrawn'
  <2>1. \A i \in 1..Len(states') : \A p \in 1..Len(states'[i]) : states'[i][p].id <= drawn
        BY <1>0, <1>4, <1>5, SMTT(30) DEF Data, IdsDrawn
  <2>2. \A r \in Senders : send'[r] # None => send'[r].msg.id <= drawn
        BY <1>0, <1>9 DEF Data, IdsDrawn
  <2> QED
      BY <1>0, <1>3, <2>1, <2>2, SMTT(30) DEF Data, IdsDrawn
<1>13. LogFirst'
  <2> SUFFICES ASSUME NEW i \in 1..Len(states'), NEW p \in 1..Len(states'[i]), NEW q \in 1..Len(file'),
                      states'[i][p].delivered, file'[q].msg.id = states'[i][p].id
               PROVE  file'[q].msg.delivered
      BY ZenonT(40) DEF LogFirst
  <2>1. CASE i = k /\ p = Len(states[k]) + 1 /\ states'[i][p] = m
        BY <1>3, <1>7, <1>8, <2>1
  <2>2. CASE i \in 1..Len(states) /\ p \in 1..Len(states[i]) /\ states'[i][p] = states[i][p]
    <3>1. q \in 1..Len(file)
          BY <1>3, <1>6, <1>8, <2>2, SMTT(60)
    <3> QED
        BY <1>0, <1>3, <2>2, <3>1, SMTT(60) DEF Data, LogFirst
  <2> QED
      BY <1>4, <2>1, <2>2
<1>14. SendIds'
  <2>1. ASSUME NEW r \in Senders, SendAt(r, "write")', NEW id, id = send'[r].msg.id
        PROVE  ~InStates(id)' /\ ~InFile(id)' /\ id \notin consumed'
    <3>1. r # s /\ SendAt(r, "write") /\ send[r] # None /\ id = send[r].msg.id
          BY <2>1 DEF SendAt
    <3>2. ~InStates(id) /\ ~InFile(id) /\ id \notin consumed /\ id # m.id
          BY <1>0, <3>1 DEF Data, SendIds, m
    <3>3. ~InStates(id)'
          BY <1>4, <3>2 DEF InStates
    <3> QED
        BY <1>3, <3>2, <3>3
  <2>2. \A r \in Senders : SendAt(r, "write")' =>
           /\ ~InStates(send[r].msg.id)'
           /\ ~InFile(send[r].msg.id)'
           /\ send'[r].msg.id \notin consumed'
        BY <2>1, SMTT(30) DEF InStates, InFile
  <2>3. \A q, r \in Senders : send'[q] # None /\ send'[r] # None /\ send'[q].msg.id = send'[r].msg.id => q = r
        BY <1>0, <1>9 DEF Data, SendIds
  <2> QED
      BY <2>2, <2>3 DEF SendIds
<1> QED
    BY <1>3, <1>10, <1>11, <1>12, <1>13, <1>14 DEF Data

(* Append writes the message, or finds the object closed. *)
LEMMA AppendWritesKeepsInv ==
    ASSUME Inv, NEW s \in Senders, AppendWrites(s)
    PROVE  Inv'
<1>0. TypeInv /\ FeedOK /\ ObjectsOK /\ OneObject
      BY DEF Inv
<1>1. /\ mode' = mode /\ mapped' = mapped /\ drawn' = drawn /\ purging' = purging
      /\ purges' = purges /\ feed' = feed /\ sub' = sub /\ signal' = signal /\ work' = work
      /\ acked' = acked /\ consumed' = consumed /\ faults' = faults /\ SendAt(s, "write")
      BY DEF AppendWrites, wakes, seen
<1>2. CASE Closed(s)
  <2>1. SameObjects /\ send' = [send EXCEPT ![s] = None]
        BY <1>1, <1>2 DEF SameObjects, AppendWrites
  <2> QED
      BY <1>1, <2>1, NoNewAcks, SendEnds
<1>3. CASE ~Closed(s)
  <2> DEFINE m == send[s].msg
             k == send[s].state
             x == [send[s] EXCEPT !.at = "event"]
  <2>1. /\ file' = Append(file, Whole(m))
        /\ states' = [states EXCEPT ![k] = Append(@, m)]
        /\ send' = [send EXCEPT ![s] = x]
        BY <1>3 DEF AppendWrites, AppendWAL
  <2>2. send[s] # None /\ send[s] \in Sending /\ m \in Message /\ k \in 1..Len(states)
        BY <1>0, <1>1, Fields DEF SendAt, ObjectsOK
  <2>3. x \in Sending /\ x.at = "event" /\ x.msg = m /\ x.state = k /\ x.seq = send[s].seq
        BY <2>2 DEF Sending
  <2>4. \A r \in Senders : send'[r] = IF r = s THEN x ELSE send[r]
        BY <1>0, <2>1 DEF TypeInv
  <2>5. send' \in [Senders -> Sending \cup {None}]
        BY <1>0, <2>1, <2>3 DEF TypeInv
  <2> HIDE DEF x
  <2>6. Whole(m) \in Chunk /\ Whole(m).msg = m
        BY <2>2, Chunks
  <2>7. /\ file' \in Seq(Chunk) /\ Len(file') = Len(file) + 1 /\ file'[Len(file) + 1].msg = m
        /\ \A id : InFile(id) => InFile(id)'
        BY <1>1, <2>1, <2>6, LogGrows
  <2>8. Data'
    <3>1. send'[s] # None => ~SendAt(s, "write")' /\ send'[s].msg = send[s].msg
          BY <2>3, <2>4 DEF SendAt
    <3>2. \A r \in Senders : r # s => send'[r] = send[r]
          BY <2>4
    <3> QED
        BY <1>1, <2>1, <3>1, <3>2, WriteData
  <2>9. /\ states' \in Seq(Seq(Message)) /\ Len(states') = Len(states)
        /\ Len(states'[k]) = Len(states[k]) + 1 /\ Len(states[k]) \in Nat
        /\ states'[k][Len(states[k]) + 1] = m
        BY <1>0, <2>1, <2>2, ObjectGrows
  <2>10. \A i \in 1..Len(states) : \A p \in 1..Len(states[i]) :
            p \in 1..Len(states'[i]) /\ states'[i][p] = states[i][p]
        BY <1>0, <2>1, <2>2, ObjectPlaces
  <2>11. TypeInv'
        BY <1>0, <1>1, <2>5, <2>7, <2>9 DEF TypeInv
  <2>12. FeedOK'
    <3>1. \A r \in Senders : send'[r] # None => send'[r].seq <= Len(feed)
          BY <1>0, <2>2, <2>3, <2>4 DEF FeedOK
    <3> QED
        BY <1>0, <1>1, <3>1 DEF FeedOK
  <2>13. ObjectsOK'
    <3>1. \A r \in Senders : send'[r] # None => send'[r].state \in 1..Len(states)
          BY <1>0, <2>2, <2>3, <2>4 DEF ObjectsOK
    <3>2. mode \notin {"down", "unreadable"}
          BY <1>0, <2>2 DEF ObjectsOK
    <3> QED
        BY <1>0, <1>1, <2>9, <3>1, <3>2 DEF ObjectsOK
  <2>14. OneObject'
        BY <1>0, <1>1, <2>9 DEF OneObject
  <2>15. \A id : Kept(id) => Kept(id)'
    <3>1. mapped # 0 => mapped \in 1..Len(states)
          BY <1>0 DEF TypeInv
    <3>2. \A id : InMapped(id) => InMapped(id)'
          BY <1>1, <2>10, <3>1 DEF InMapped
    <3> QED
        BY <1>1, <2>7, <3>2 DEF Kept
  <2>16. AckedKept'
        BY <1>1, <2>15 DEF AckedKept, Inv
  <2>17. purges = 0 => \A id : id = m.id => Kept(id)'
    <3> SUFFICES ASSUME purges = 0, NEW id, id = m.id
                 PROVE  Kept(id)'
        OBVIOUS
    <3>1. k = mapped /\ mapped # 0
          BY <1>0, <2>2, Fields DEF OneObject
    <3>2. InMapped(id)'
      <4>1. Len(states[k]) + 1 \in 1..Len(states'[k])
            BY <2>9
      <4> QED
          BY <1>1, <2>9, <3>1, <4>1 DEF InMapped
    <3>3. InFile(id)'
      <4>1. Len(file) + 1 \in 1..Len(file')
            BY <1>0, <2>7, Fields
      <4> QED
          BY <2>7, <4>1 DEF InFile
    <3> QED
        BY <3>2, <3>3 DEF Kept
  <2>18. SendKept'
    <3> SUFFICES ASSUME purges' = 0, NEW r \in Senders, SendAt(r, "event")' \/ SendAt(r, "offer")'
                 PROVE  Kept(send[r].msg.id)'
        BY DEF SendKept
    <3>1. SUFFICES ASSUME NEW id, id = send'[r].msg.id
                   PROVE  Kept(id)'
          BY DEF Kept, InFile, InMapped
    <3>2. CASE r = s
      <4>1. id = m.id
            BY <2>3, <2>4, <3>1, <3>2
      <4> QED
          BY <1>1, <2>17, <4>1
    <3>3. CASE r # s
      <4>1. send'[r] = send[r] /\ (SendAt(r, "event") \/ SendAt(r, "offer"))
            BY <2>4, <3>3 DEF SendAt
      <4>2. id = send[r].msg.id /\ purges = 0
            BY <1>1, <3>1, <4>1
      <4> QED
          BY <2>15, <4>1, <4>2 DEF Inv, SendKept
    <3> QED
        BY <3>2, <3>3
  <2> QED
      BY <2>8, <2>11, <2>12, <2>13, <2>14, <2>16, <2>18 DEF Inv
<1> QED
    BY <1>2, <1>3

-----------------------------------------------------------------------------
(* MarkDelivered. *)

(* What the worker marks: those of its ids that the object has. *)
Found(w) == {id \in work[w].ids : \E i \in 1..Len(states[work[w].state]) : states[work[w].state][i].id = id}

(* The messages stay at their places, marked or not. *)
LEMMA MarkPlaces ==
    ASSUME Inv, NEW w \in Workers, MarkRewrites(w), NEW k, k = work[w].state
    PROVE  /\ k \in 1..Len(states)
           /\ states' \in Seq(Seq(Message)) /\ Len(states') = Len(states)
           /\ \A i \in 1..Len(states) : Len(states'[i]) = Len(states[i])
           /\ \A i \in 1..Len(states) : \A p \in 1..Len(states[i]) : states'[i][p].id = states[i][p].id
           /\ \A i \in 1..Len(states) : \A p \in 1..Len(states[i]) :
                 states[i][p].delivered => states'[i][p].delivered
           /\ \A i \in 1..Len(states) : i # k => states'[i] = states[i]
           /\ \A p \in 1..Len(states[k]) : states[k][p].id \in work[w].ids => states'[k][p].delivered
           /\ file' \in Seq(Chunk)
           /\ \/ file' = file /\ states'[k] = states[k]
              \/ Len(file') = Len(states[k]) /\ \A q \in 1..Len(states[k]) : file'[q].msg = states'[k][q]
<1> DEFINE n == Marked(states[k], work[w].ids)
<1>0. TypeInv /\ ObjectsOK
      BY DEF Inv
<1>1. k \in 1..Len(states)
      BY <1>0 DEF MarkRewrites, ObjectsOK
<1>2. states \in Seq(Seq(Message)) /\ states[k] \in Seq(Message) /\ file \in Seq(Chunk)
      BY <1>0, <1>1 DEF TypeInv
<1>3. /\ n \in Seq(Message) /\ Len(n) = Len(states[k])
      /\ \A p \in 1..Len(states[k]) :
            /\ n[p].id = states[k][p].id
            /\ states[k][p].delivered => n[p].delivered
            /\ states[k][p].id \in work[w].ids => n[p].delivered
  <2>1. ASSUME NEW messages \in Seq(Message), NEW ids
        PROVE  /\ Marked(messages, ids) \in Seq(Message)
               /\ Len(Marked(messages, ids)) = Len(messages)
               /\ \A p \in 1..Len(messages) :
                     /\ Marked(messages, ids)[p].id = messages[p].id
                     /\ messages[p].delivered => Marked(messages, ids)[p].delivered
                     /\ messages[p].id \in ids => Marked(messages, ids)[p].delivered
        BY <2>1, Marking
  <2> QED
      BY <1>2, <2>1
<1>4. states' = [states EXCEPT ![k] = n] /\ file' = IF n # states[k] THEN Rewrite(file, n) ELSE file
      BY DEF MarkRewrites
<1> HIDE DEF n
<1>5. /\ states' \in Seq(Seq(Message)) /\ Len(states') = Len(states) /\ states'[k] = n
      /\ \A i \in 1..Len(states) : i # k => states'[i] = states[i]
      BY <1>1, <1>2, <1>3, <1>4
<1>6. CASE n # states[k]
  <2>1. file' = Rewrite(file, n)
        BY <1>4, <1>6
  <2>2. /\ file' \in Seq(Chunk) /\ Len(file') = Len(states[k])
        /\ \A q \in 1..Len(states[k]) : file'[q].msg = states'[k][q]
        BY <1>3, <1>5, <2>1, Rewriting
  <2> QED
      BY <1>1, <1>3, <1>5, <2>2
<1>7. CASE n = states[k]
  <2>1. file' = file /\ file' \in Seq(Chunk) /\ states'[k] = states[k]
        BY <1>2, <1>4, <1>5, <1>7
  <2> QED
      BY <1>1, <1>3, <1>5, <2>1
<1> QED
    BY <1>6, <1>7

(* The object and the log agree on what is marked. *)
LEMMA MarkData ==
    ASSUME Inv, NEW w \in Workers, MarkRewrites(w)
    PROVE  Data'
<1>0. TypeInv /\ Data
      BY DEF Inv
<1>1. SUFFICES ASSUME NEW k, k = work[w].state
               PROVE  Data'
      OBVIOUS
<1>2. /\ k \in 1..Len(states) /\ Len(states') = Len(states)
      /\ \A i \in 1..Len(states) : Len(states'[i]) = Len(states[i])
      BY <1>1, MarkPlaces
<1>3. \A i \in 1..Len(states) : \A p \in 1..Len(states[i]) : states'[i][p].id = states[i][p].id
      BY <1>1, MarkPlaces
<1>4. \A i \in 1..Len(states) : \A p \in 1..Len(states[i]) :
         states[i][p].delivered => states'[i][p].delivered
      BY <1>1, MarkPlaces
<1>5. \A p \in 1..Len(states[k]) : states[k][p].id \in work[w].ids => states'[k][p].delivered
      BY <1>1, MarkPlaces
<1>6. \/ file' = file /\ states'[k] = states[k]
      \/ Len(file') = Len(states[k]) /\ \A q \in 1..Len(states[k]) : file'[q].msg = states'[k][q]
      BY <1>1, MarkPlaces
<1>7. \A i \in 1..Len(states) : i # k => states'[i] = states[i]
      BY <1>1, MarkPlaces
<1>8. consumed' = consumed \cup Found(w) /\ drawn' = drawn /\ send' = send
      BY DEF MarkRewrites, Found
<1>9. /\ Found(w) \subseteq work[w].ids
      /\ \A id \in Found(w) : \E p \in 1..Len(states[k]) : states[k][p].id = id
      BY <1>1 DEF Found
<1>10. ObjectIds'
      BY <1>0, <1>2, <1>3 DEF Data, ObjectIds
<1>11. MarkedInObjects'
  <2>1. ASSUME NEW i \in 1..Len(states), NEW p \in 1..Len(states[i]), states[i][p].id \in consumed'
        PROVE  states'[i][p].delivered
    <3>1. CASE states[i][p].id \in consumed
          BY <1>0, <1>4, <3>1 DEF Data, MarkedInObjects
    <3>2. CASE states[i][p].id \in Found(w)
      <4>1. PICK q \in 1..Len(states[k]) : states[k][q].id = states[i][p].id
            BY <1>9, <3>2
      <4>2. i = k /\ p = q
            BY <1>0, <1>2, <4>1 DEF Data, ObjectIds
      <4> QED
          BY <1>5, <1>9, <3>2, <4>1, <4>2
    <3> QED
        BY <1>8, <2>1, <3>1, <3>2
  <2> QED
      BY <1>2, <1>3, <2>1 DEF MarkedInObjects
<1>12. IdsDrawn'
  <2>1. \A i \in 1..Len(states) : \A p \in 1..Len(states[i]) : states'[i][p].id <= drawn
        BY <1>0, <1>3 DEF Data, IdsDrawn
  <2>2. \A q \in 1..Len(file') : file'[q].msg.id <= drawn
    <3>1. CASE file' = file
          BY <1>0, <3>1 DEF Data, IdsDrawn
    <3>2. CASE Len(file') = Len(states[k]) /\ \A q \in 1..Len(states[k]) : file'[q].msg = states'[k][q]
          BY <1>2, <2>1, <3>2
    <3> QED
        BY <1>6, <3>1, <3>2
  <2>3. \A id \in consumed' : id <= drawn
    <3>1. \A id \in Found(w) : id <= drawn
          BY <1>0, <1>2, <1>9 DEF Data, IdsDrawn
    <3> QED
        BY <1>0, <1>8, <3>1 DEF Data, IdsDrawn
  <2>4. \A r \in Senders : send'[r] # None => send'[r].msg.id <= drawn
        BY <1>0, <1>8 DEF Data, IdsDrawn
  <2> QED
      BY <1>2, <1>8, <2>1, <2>2, <2>3, <2>4 DEF IdsDrawn
<1>13. SendIds'
  <2>1. \A id : InStates(id)' => InStates(id)
        BY <1>2, <1>3 DEF InStates
  <2>2. \A id : InFile(id)' => InFile(id) \/ InStates(id)
    <3>1. CASE file' = file
          BY <3>1 DEF InFile
    <3>2. CASE Len(file') = Len(states[k]) /\ \A q \in 1..Len(states[k]) : file'[q].msg = states'[k][q]
          BY <1>2, <1>3, <3>2 DEF InFile, InStates
    <3> QED
        BY <1>6, <3>1, <3>2
  <2>3. \A id : id \in Found(w) => InStates(id)
        BY <1>2, <1>9 DEF InStates
  <2>4. ASSUME NEW r \in Senders, SendAt(r, "write")', NEW id, id = send'[r].msg.id
        PROVE  ~InStates(id)' /\ ~InFile(id)' /\ id \notin consumed'
    <3>1. SendAt(r, "write") /\ id = send[r].msg.id
          BY <1>8, <2>4 DEF SendAt
    <3>2. ~InStates(id) /\ ~InFile(id) /\ id \notin consumed
          BY <1>0, <3>1 DEF Data, SendIds
    <3> QED
        BY <1>8, <2>1, <2>2, <2>3, <3>2
  <2>5. \A r \in Senders : SendAt(r, "write")' =>
           /\ ~InStates(send[r].msg.id)'
           /\ ~InFile(send[r].msg.id)'
           /\ send'[r].msg.id \notin consumed'
        BY <2>4 DEF InStates, InFile
  <2>6. \A q, r \in Senders : send'[q] # None /\ send'[r] # None /\ send'[q].msg.id = send'[r].msg.id => q = r
        BY <1>0, <1>8 DEF Data, SendIds
  <2> QED
      BY <2>5, <2>6 DEF SendIds
<1>14. LogIds' /\ MarkedInLog' /\ LogFirst'
  <2>1. CASE file' = file /\ states'[k] = states[k]
    <3>1. LogIds'
          BY <1>0, <2>1 DEF Data, LogIds
    <3>2. \A i \in 1..Len(states) : states'[i] = states[i]
          BY <1>7, <2>1
    <3>3. LogFirst'
          BY <1>0, <1>2, <2>1, <3>2 DEF Data, LogFirst
    <3>4. ASSUME NEW q \in 1..Len(file), file[q].msg.id \in consumed'
          PROVE  file[q].msg.delivered
      <4>1. CASE file[q].msg.id \in consumed
            BY <1>0, <4>1 DEF Data, MarkedInLog
      <4>2. CASE file[q].msg.id \in Found(w)
        <5>1. PICK p \in 1..Len(states[k]) : states[k][p].id = file[q].msg.id
              BY <1>9, <4>2
        <5>2. states[k][p].delivered
              BY <1>2, <1>5, <1>9, <2>1, <4>2, <5>1
        <5> QED
            BY <1>0, <1>2, <5>1, <5>2 DEF Data, LogFirst
      <4> QED
          BY <1>8, <3>4, <4>1, <4>2
    <3>5. MarkedInLog'
          BY <2>1, <3>4 DEF MarkedInLog
    <3> QED
        BY <3>1, <3>3, <3>5
  <2>2. CASE Len(file') = Len(states[k]) /\ \A q \in 1..Len(states[k]) : file'[q].msg = states'[k][q]
    <3>1. k \in 1..Len(states') /\ Len(states'[k]) = Len(file')
          BY <1>2, <2>2
    <3>2. \A q \in 1..Len(file') : file'[q].msg = states'[k][q]
          BY <2>2
    <3>3. LogIds'
          BY <1>10, <3>1, <3>2 DEF LogIds, ObjectIds
    <3>4. MarkedInLog'
          BY <1>11, <3>1, <3>2 DEF MarkedInLog, MarkedInObjects
    <3>5. ASSUME NEW i \in 1..Len(states'), NEW p \in 1..Len(states'[i]), NEW q \in 1..Len(file'),
                 states'[i][p].delivered, file'[q].msg.id = states'[i][p].id
          PROVE  file'[q].msg.delivered
      <4>1. q \in 1..Len(states'[k]) /\ file'[q].msg = states'[k][q]
            BY <3>1, <3>2
      <4>2. i = k /\ p = q
            BY <1>10, <3>1, <3>5, <4>1 DEF ObjectIds
      <4> QED
          BY <3>5, <4>1, <4>2
    <3>6. \A i \in 1..Len(states') : \A p \in 1..Len(states'[i]) : \A q \in 1..Len(file') :
             states'[i][p].delivered /\ file'[q].msg.id = states'[i][p].id => file'[q].msg.delivered
          BY <3>5
    <3>7. LogFirst'
          BY <3>6 DEF LogFirst
    <3> QED
        BY <3>3, <3>4, <3>7
  <2> QED
      BY <1>6, <2>1, <2>2
<1> QED
    BY <1>10, <1>11, <1>12, <1>13, <1>14 DEF Data

(* The messages of a rewrite are those of the one object. *)
LEMMA MarkRewritesKeepsInv ==
    ASSUME Inv, NEW w \in Workers, MarkRewrites(w)
    PROVE  Inv'
<1>0. TypeInv /\ FeedOK /\ ObjectsOK /\ OneObject
      BY DEF Inv
<1>1. SUFFICES ASSUME NEW k, k = work[w].state
               PROVE  Inv'
      OBVIOUS
<1>2. /\ k \in 1..Len(states) /\ states' \in Seq(Seq(Message)) /\ Len(states') = Len(states)
      /\ \A i \in 1..Len(states) : Len(states'[i]) = Len(states[i])
      /\ file' \in Seq(Chunk)
      BY <1>1, MarkPlaces
<1>3. \A i \in 1..Len(states) : \A p \in 1..Len(states[i]) : states'[i][p].id = states[i][p].id
      BY <1>1, MarkPlaces
<1>4. \/ file' = file /\ states'[k] = states[k]
      \/ Len(file') = Len(states[k]) /\ \A q \in 1..Len(states[k]) : file'[q].msg = states'[k][q]
      BY <1>1, MarkPlaces
<1>5. /\ mode' = mode /\ mapped' = mapped /\ drawn' = drawn /\ send' = send /\ purging' = purging
      /\ purges' = purges /\ feed' = feed /\ sub' = sub /\ signal' = signal /\ acked' = acked
      /\ faults' = faults /\ work' = [work EXCEPT ![w] = Idle] /\ work[w].at = "rewrite"
      BY DEF MarkRewrites, wakes
<1>6. consumed' = consumed \cup Found(w)
      BY DEF MarkRewrites, Found
<1>7. Idle \in Working /\ Idle.at = "idle" /\ work[w] \in Working
      BY <1>0, Fields DEF Idle, Working
<1>8. work' \in [Workers -> Working] /\ \A v \in Workers : work'[v] = IF v = w THEN Idle ELSE work[v]
      BY <1>0, <1>5, <1>7 DEF TypeInv
<1>9. consumed' \subseteq Ids
      BY <1>0, <1>6, <1>7 DEF Found, TypeInv, Working
<1>10. TypeInv'
      BY <1>0, <1>2, <1>5, <1>8, <1>9 DEF TypeInv
<1>11. FeedOK'
      BY <1>0, <1>5 DEF FeedOK
<1>12. mode \notin {"down", "unreadable"}
      BY <1>0, <1>5, <1>7 DEF ObjectsOK
<1>13. ObjectsOK'
      BY <1>0, <1>2, <1>5, <1>7, <1>8, <1>12 DEF ObjectsOK
<1>14. OneObject'
      BY <1>0, <1>2, <1>5 DEF OneObject
<1>15. ASSUME purges = 0, NEW id, Kept(id)
       PROVE  Kept(id)'
  <2>1. k = mapped /\ mapped # 0 /\ mapped \in 1..Len(states)
        BY <1>0, <1>2, <1>15, Fields DEF OneObject
  <2>2. InMapped(id)
        BY <1>0, <1>12, <1>15 DEF Kept, TypeInv
  <2>3. PICK p \in 1..Len(states[k]) : states[k][p].id = id
        BY <2>1, <2>2 DEF InMapped
  <2>4. p \in 1..Len(states'[k]) /\ states'[k][p].id = id
        BY <1>2, <1>3, <2>3
  <2>5. InMapped(id)'
        BY <1>5, <2>1, <2>4 DEF InMapped
  <2>6. InFile(id)'
    <3>1. CASE file' = file
          BY <1>15, <3>1 DEF Kept, InFile
    <3>2. CASE Len(file') = Len(states[k]) /\ \A q \in 1..Len(states[k]) : file'[q].msg = states'[k][q]
          BY <2>3, <2>4, <3>2 DEF InFile
    <3> QED
        BY <1>4, <3>1, <3>2
  <2> QED
      BY <2>5, <2>6 DEF Kept
<1>16. AckedKept'
      BY <1>5, <1>15 DEF AckedKept, Inv
<1>17. SendKept'
  <2> SUFFICES ASSUME purges' = 0, NEW r \in Senders, SendAt(r, "event")' \/ SendAt(r, "offer")'
               PROVE  Kept(send[r].msg.id)'
      BY DEF SendKept
  <2>1. SUFFICES ASSUME NEW id, id = send'[r].msg.id
                 PROVE  Kept(id)'
        BY DEF Kept, InFile, InMapped
  <2>2. id = send[r].msg.id /\ purges = 0 /\ (SendAt(r, "event") \/ SendAt(r, "offer"))
        BY <1>5, <2>1 DEF SendAt
  <2> QED
      BY <1>15, <2>2 DEF Inv, SendKept
<1> QED
    BY <1>10, <1>11, <1>13, <1>14, <1>16, <1>17, MarkData DEF Inv

-----------------------------------------------------------------------------
(* Purge, Close, crash and recovery. *)

(* Purge and Close leave the objects, and the log or nothing of it. *)
LEMMA SameObjectsData ==
    ASSUME Inv, states' = states, drawn' = drawn, send' = send, consumed' = consumed,
           file' = file \/ file' = <<>>
    PROVE  Data'
<1>0. Data /\ Len(<<>>) = 0 /\ file \in Seq(Chunk)
      BY DEF Inv, TypeInv
<1>1. \A q \in 1..Len(file') : q \in 1..Len(file) /\ file'[q] = file[q]
      BY <1>0
<1>2. ObjectIds' /\ MarkedInObjects'
      BY <1>0 DEF Data, ObjectIds, MarkedInObjects
<1>3. LogIds' /\ MarkedInLog'
      BY <1>0, <1>1 DEF Data, LogIds, MarkedInLog
<1>4. IdsDrawn'
      BY <1>0, <1>1 DEF Data, IdsDrawn
<1>5. LogFirst'
  <2>1. \A i \in 1..Len(states) : \A p \in 1..Len(states[i]) : \A q \in 1..Len(file') :
           states[i][p].delivered /\ file'[q].msg.id = states[i][p].id => file'[q].msg.delivered
        BY <1>0, <1>1 DEF Data, LogFirst
  <2> QED
      BY <2>1 DEF LogFirst
<1>6. SendIds'
  <2>1. \A id : InFile(id)' => InFile(id)
        BY <1>1 DEF InFile
  <2>2. \A r \in Senders : SendAt(r, "write")' =>
           /\ ~InStates(send[r].msg.id)'
           /\ ~InFile(send[r].msg.id)'
           /\ send'[r].msg.id \notin consumed'
    <3> SUFFICES ASSUME NEW r \in Senders, SendAt(r, "write")
                 PROVE  ~InStates(send[r].msg.id)' /\ ~InFile(send[r].msg.id)' /\ send[r].msg.id \notin consumed
        BY DEF SendAt
    <3>1. ~InStates(send[r].msg.id) /\ ~InFile(send[r].msg.id) /\ send[r].msg.id \notin consumed
          BY <1>0 DEF Data, SendIds
    <3> QED
        BY <1>1, <3>1 DEF InStates, InFile
  <2>3. \A q, r \in Senders : send'[q] # None /\ send'[r] # None /\ send'[q].msg.id = send'[r].msg.id => q = r
        BY <1>0 DEF Data, SendIds
  <2> QED
      BY <2>2, <2>3 DEF SendIds
<1> QED
    BY <1>2, <1>3, <1>4, <1>5, <1>6 DEF Data

(* Purge: after it nothing is promised to be kept. *)
LEMMA PurgeKeepsInv ==
    ASSUME Inv, Purge \/ PurgeRemoves \/ PurgeFails
    PROVE  Inv'
<1>0. TypeInv /\ FeedOK /\ ObjectsOK /\ OneObject
      BY DEF Inv
<1>1. /\ mode' = mode /\ states' = states /\ drawn' = drawn /\ send' = send /\ feed' = feed
      /\ sub' = sub /\ signal' = signal /\ work' = work /\ acked' = acked /\ consumed' = consumed
      /\ (file' = file \/ file' = <<>>) /\ (Fault \/ faults' = faults)
      BY DEF Purge, PurgeRemoves, PurgeFails, store, wakes, seen
<1>2. purges' \in 0..MaxPurges /\ purges' # 0
  <2>1. CASE Purge
        BY <1>0, <2>1, InboxAssumption DEF Purge, TypeInv
  <2>2. CASE PurgeRemoves \/ PurgeFails
        BY <1>0, <2>2 DEF PurgeRemoves, PurgeFails, OneObject, TypeInv
  <2> QED
      BY <2>1, <2>2
<1>3. mapped' \in 0..Len(states) /\ purging' \in 0..Len(states)
      BY <1>0, SMTT(30) DEF Purge, PurgeRemoves, PurgeFails, store, TypeInv
<1>4. faults' \in 0..MaxFaults
      BY <1>0, <1>1, FaultsBounded
<1>5. file' \in Seq(Chunk)
  <2>1. <<>> \in Seq(Chunk) /\ file \in Seq(Chunk)
        BY <1>0 DEF TypeInv
  <2> QED
      BY <1>1, <2>1
<1>6. TypeInv'
      BY <1>0, <1>1, <1>2, <1>3, <1>4, <1>5 DEF TypeInv
<1>7. FeedOK' /\ ObjectsOK'
      BY <1>0, <1>1 DEF FeedOK, ObjectsOK
<1>8. Data'
      BY <1>1, SameObjectsData
<1> QED
    BY <1>2, <1>6, <1>7, <1>8 DEF Inv, OneObject, AckedKept, SendKept

(* Close. *)
LEMMA CloseStoreKeepsInv ==
    ASSUME Inv, CloseStore
    PROVE  Inv'
<1>0. TypeInv /\ FeedOK /\ ObjectsOK
      BY DEF Inv
<1>1. /\ file' = file /\ states' = states /\ mapped' = mapped /\ drawn' = drawn /\ send' = send
      /\ purging' = purging /\ purges' = purges /\ feed' = feed /\ sub' = sub /\ signal' = signal
      /\ work' = work /\ acked' = acked /\ consumed' = consumed
      /\ mode = "up" /\ mode' = "closed" /\ Fault
      BY DEF CloseStore, wakes, seen
<1>2. faults' \in 0..MaxFaults
      BY <1>0, <1>1, FaultsBounded
<1>3. TypeInv'
      BY <1>0, <1>1, <1>2 DEF TypeInv
<1>4. FeedOK' /\ ObjectsOK'
      BY <1>0, <1>1 DEF FeedOK, ObjectsOK
<1>5. Data'
      BY <1>1, SameObjectsData
<1>6. OneObject'
      BY <1>1 DEF OneObject, Inv
<1>7. \A id : Kept(id) => Kept(id)'
      BY <1>1 DEF Kept, InFile, InMapped
<1>8. AckedKept'
      BY <1>1, <1>7 DEF AckedKept, Inv
<1>9. SendKept'
  <2> SUFFICES ASSUME purges' = 0, NEW r \in Senders, SendAt(r, "event")' \/ SendAt(r, "offer")'
               PROVE  Kept(send[r].msg.id)'
      BY DEF SendKept
  <2>1. SUFFICES ASSUME NEW id, id = send'[r].msg.id
                 PROVE  Kept(id)'
        BY DEF Kept, InFile, InMapped
  <2>2. id = send[r].msg.id /\ purges = 0 /\ (SendAt(r, "event") \/ SendAt(r, "offer"))
        BY <1>1, <2>1 DEF SendAt
  <2> QED
      BY <1>7, <2>2 DEF Inv, SendKept
<1> QED
    BY <1>3, <1>4, <1>5, <1>6, <1>8, <1>9 DEF Inv

(* What a crash leaves of the log. *)
LEMMA CrashLog ==
    ASSUME Inv, Crash
    PROVE  /\ file' \in Seq(Chunk)
           /\ LogIds'
           /\ \A q \in 1..Len(file') : file'[q].msg.id <= drawn
           /\ \A q \in 1..Len(file') : file'[q].msg.id \in consumed => file'[q].msg.delivered
           /\ \A id : InFile(id) => InFile(id)'
<1>0. TypeInv /\ Data
      BY DEF Inv
<1>1. CASE file' = file
      BY <1>0, <1>1 DEF TypeInv, Data, LogIds, IdsDrawn, MarkedInLog, InFile
<1>2. CASE \E s \in Senders : SendAt(s, "write") /\ \E c \in Remains(send[s].msg) : file' = Append(file, c)
  <2>1. PICK s \in Senders : SendAt(s, "write") /\ \E c \in Remains(send[s].msg) : file' = Append(file, c)
        BY <1>2
  <2>2. PICK c \in Remains(send[s].msg) : file' = Append(file, c)
        BY <2>1
  <2>3. send[s] # None /\ send[s].msg \in Message
        BY <1>0, <2>1, Fields DEF SendAt
  <2>4. c \in Chunk /\ c.msg = send[s].msg
        BY <2>3, Chunks
  <2> QED
      BY <2>1, <2>2, <2>4, LogGrows
<1> QED
    BY <1>1, <1>2 DEF Crash

(* A crash leaves the feed, with or without the event that was on its way. *)
LEMMA CrashFeed ==
    ASSUME Inv, Crash
    PROVE  feed' \in Seq(Events)
<1>1. TypeInv /\ feed \in Seq(Events)
      BY DEF Inv, TypeInv
<1>2. CASE feed' = feed
      BY <1>1, <1>2
<1>3. ASSUME NEW s \in Senders, SendAt(s, "event"), feed' = Append(feed, send[s].msg.task)
      PROVE  feed' \in Seq(Events)
  <2>1. send[s].msg \in Message
        BY <1>1, <1>3, Fields DEF SendAt
  <2>2. send[s].msg.task \in Events
        BY <2>1 DEF Message, Events
  <2> QED
      BY <1>1, <1>3, <2>2
<1> QED
    BY <1>2, <1>3 DEF Crash

(* A crash leaves the log and what is known of it. *)
LEMMA CrashKeepsInv ==
    ASSUME Inv, Crash
    PROVE  Inv'
<1> USE InboxAssumption
<1>0. TypeInv /\ FeedOK /\ Data
      BY DEF Inv
<1>1. /\ mode' = "down" /\ states' = <<>> /\ mapped' = 0 /\ purging' = 0
      /\ send' = [s \in Senders |-> None] /\ sub' = [w \in Workers |-> NoSub] /\ signal' = {}
      /\ work' = [w \in Workers |-> Idle] /\ drawn' = drawn /\ purges' = purges
      /\ acked' = acked /\ consumed' = consumed /\ Fault
      BY DEF Crash, seen
<1>2. /\ file' \in Seq(Chunk) /\ LogIds'
      /\ \A q \in 1..Len(file') : file'[q].msg.id <= drawn
      /\ \A q \in 1..Len(file') : file'[q].msg.id \in consumed => file'[q].msg.delivered
      /\ \A id : InFile(id) => InFile(id)'
      BY CrashLog
<1>3. feed' \in Seq(Events) /\ SubOK(NoSub, feed') /\ Idle \in Working /\ Idle.at = "idle"
  <2>1. feed' \in Seq(Events)
        BY CrashFeed
  <2>2. \A f \in Seq(Events) : SubOK(NoSub, f)
        BY NewSubs
  <2> QED
      BY <2>1, <2>2 DEF Idle, Working
<1>4. states' \in Seq(Seq(Message)) /\ Len(states') = 0
      BY <1>1
<1>5. faults' \in 0..MaxFaults
      BY <1>0, <1>1, FaultsBounded
<1>6. TypeInv'
  <2>1. /\ send' \in [Senders -> Sending \cup {None}] /\ sub' \in [Workers -> Subscription]
        /\ work' \in [Workers -> Working]
        BY <1>1, <1>3 DEF SubOK
  <2>2. mapped' \in 0..Len(states') /\ purging' \in 0..Len(states')
        BY <1>1, <1>4
  <2> QED
      BY <1>0, <1>1, <1>2, <1>3, <1>4, <1>5, <2>1, <2>2 DEF TypeInv
<1>7. FeedOK'
  <2>1. \A s \in Senders : send'[s] = None
        BY <1>1
  <2>2. \A w \in Workers : SubOK(sub'[w], feed')
        BY <1>1, <1>3
  <2> QED
      BY <2>1, <2>2 DEF FeedOK, SubOK
<1>8. ObjectsOK'
  <2>1. (\A s \in Senders : send'[s] = None) /\ (\A w \in Workers : work'[w] = Idle)
        BY <1>1
  <2> QED
      BY <1>1, <1>3, <2>1 DEF ObjectsOK
<1>9. Data'
  <2>1. \A i \in 1..Len(states') : FALSE
        BY <1>4
  <2>2. \A s \in Senders : send'[s] = None /\ ~SendAt(s, "write")'
        BY <1>1 DEF SendAt
  <2>3. ObjectIds' /\ MarkedInObjects' /\ LogFirst'
        BY <2>1 DEF ObjectIds, MarkedInObjects, LogFirst
  <2>4. IdsDrawn'
        BY <1>0, <1>1, <1>2, <2>1, <2>2 DEF Data, IdsDrawn
  <2>5. SendIds'
        BY <2>2 DEF SendIds
  <2>6. MarkedInLog'
        BY <1>1, <1>2 DEF MarkedInLog
  <2> QED
      BY <1>2, <2>3, <2>4, <2>5, <2>6 DEF Data
<1>10. OneObject'
      BY <1>1, <1>4 DEF OneObject
<1>11. AckedKept'
  <2>1. purges = 0 => \A id \in acked : InFile(id)
        BY DEF Inv, AckedKept, Kept
  <2> QED
      BY <1>1, <1>2, <2>1 DEF AckedKept, Kept
<1>12. SendKept'
      BY <1>1 DEF SendKept, SendAt
<1> QED
    BY <1>6, <1>7, <1>8, <1>9, <1>10, <1>11, <1>12 DEF Inv

(* The object that is made of the log. *)
LEMMA RecoveredObject ==
    ASSUME TypeInv, Recover, mode' = "up", file # <<>>
    PROVE  /\ states' \in Seq(Seq(Message)) /\ Len(states') = 1 /\ mapped' = 1
           /\ Len(states'[1]) = Len(file)
           /\ \A p \in 1..Len(file) : states'[1][p] = file[p].msg
<1> DEFINE n == [i \in 1..Len(file) |-> file[i].msg]
<1>1. Len(file) \in Nat /\ \A p \in 1..Len(file) : file[p].msg \in Message
      BY Fields
<1>2. n \in [1..Len(file) -> Message]
      BY <1>1
<1>3. n \in Seq(Message) /\ Len(n) = Len(file) /\ \A p \in 1..Len(file) : n[p] = file[p].msg
      BY <1>1, <1>2
<1>4. states' = <<n>> /\ mapped' = Len(states')
      BY DEF Recover
<1> HIDE DEF n
<1>5. states' \in Seq(Seq(Message)) /\ Len(states') = 1 /\ states'[1] = n
      BY <1>3, <1>4
<1> QED
    BY <1>3, <1>4, <1>5

(* Recovery: the objects are those of the log, or there are none. *)
LEMMA RecoverData ==
    ASSUME Inv, Recover
    PROVE  /\ states' \in Seq(Seq(Message)) /\ mapped' = Len(states') /\ Len(states') <= 1 /\ Len(states') \in Nat
           /\ \A i \in 1..Len(states') : /\ i = 1
                                         /\ Len(states'[i]) = Len(file)
                                         /\ \A p \in 1..Len(file) : states'[i][p] = file[p].msg
           /\ mode' = "up" => \A id : InFile(id) => InMapped(id)'
<1>0. TypeInv /\ ObjectsOK /\ Len(<<>>) = 0 /\ <<>> \in Seq(Seq(Message))
      BY DEF Inv
<1>1. CASE mode' = "up" /\ file # <<>>
  <2>1. /\ states' \in Seq(Seq(Message)) /\ Len(states') = 1 /\ mapped' = 1
        /\ Len(states'[1]) = Len(file)
        /\ \A p \in 1..Len(file) : states'[1][p] = file[p].msg
        BY <1>0, <1>1, RecoveredObject
  <2>2. \A i \in 1..Len(states') : i = 1
        BY <2>1
  <2>3. \A id : InFile(id) => InMapped(id)'
        BY <2>1 DEF InFile, InMapped
  <2> QED
      BY <2>1, <2>2, <2>3
<1>2. CASE mode' = "up" /\ file = <<>>
  <2>1. states' = <<>> /\ mapped' = Len(states')
        BY <1>2 DEF Recover
  <2>2. \A id : ~InFile(id)
        BY <1>0, <1>2 DEF InFile
  <2>3. states' \in Seq(Seq(Message)) /\ Len(states') = 0
        BY <1>0, <2>1
  <2> QED
      BY <2>1, <2>2, <2>3
<1>3. CASE mode' # "up"
  <2>1. states' = states /\ mapped' = mapped /\ mode' = "unreadable" /\ mode = "down"
        BY <1>3 DEF Recover
  <2>2. states = <<>>
        BY <1>0, <2>1 DEF ObjectsOK
  <2>3. states' = <<>> /\ Len(states') = 0 /\ mapped' = 0
        BY <1>0, <2>1, <2>2 DEF TypeInv
  <2>4. states' \in Seq(Seq(Message))
        BY <1>0, <2>3
  <2> QED
      BY <1>3, <2>1, <2>3, <2>4
<1> QED
    BY <1>1, <1>2, <1>3

(* Recovery finds in the log what was acknowledged and what was marked. *)
LEMMA RecoverKeepsInv ==
    ASSUME Inv, Recover
    PROVE  Inv'
<1>0. TypeInv /\ FeedOK /\ ObjectsOK /\ Data
      BY DEF Inv
<1>1. /\ mode = "down" /\ mode' \in {"up", "unreadable"} /\ file' = file /\ drawn' = drawn
      /\ send' = send /\ purging' = purging /\ purges' = purges /\ feed' = feed /\ sub' = sub
      /\ signal' = signal /\ work' = work /\ acked' = acked /\ consumed' = consumed /\ faults' = faults
      BY DEF Recover, wakes, seen
<1>2. /\ states' \in Seq(Seq(Message)) /\ mapped' = Len(states') /\ Len(states') <= 1 /\ Len(states') \in Nat
      /\ \A i \in 1..Len(states') : /\ i = 1
                                    /\ Len(states'[i]) = Len(file)
                                    /\ \A p \in 1..Len(file) : states'[i][p] = file[p].msg
      /\ mode' = "up" => \A id : InFile(id) => InMapped(id)'
      BY RecoverData
<1>3. /\ states = <<>> /\ purging = 0
      /\ \A s \in Senders : send[s] = None
      /\ \A w \in Workers : work[w] = Idle
  <2>1. /\ states = <<>>
        /\ \A s \in Senders : send[s] = None
        /\ \A w \in Workers : work[w] = Idle
        BY <1>0, <1>1 DEF ObjectsOK
  <2>2. Len(states) = 0
        BY <2>1
  <2>3. purging = 0
        BY <1>0, <2>2 DEF TypeInv
  <2> QED
      BY <2>1, <2>3
<1>4. TypeInv'
  <2>1. mapped' \in 0..Len(states') /\ purging' \in 0..Len(states')
        BY <1>1, <1>2, <1>3
  <2> QED
      BY <1>0, <1>1, <1>2, <2>1 DEF TypeInv
<1>5. FeedOK'
      BY <1>0, <1>1 DEF FeedOK
<1>6. ObjectsOK'
  <2>1. \A w \in Workers : work[w].at # "rewrite"
        BY <1>3 DEF Idle
  <2>2. mode' = "unreadable" => states' = <<>>
        BY <1>1, <1>3 DEF Recover
  <2> QED
      BY <1>1, <1>3, <2>1, <2>2 DEF ObjectsOK
<1>7. Data'
  <2>1. \A i \in 1..Len(states') : i = 1
        BY <1>2
  <2>2. \A i \in 1..Len(states') : \A p \in 1..Len(states'[i]) : p \in 1..Len(file) /\ states'[i][p] = file[p].msg
        BY <1>2
  <2>3. ObjectIds'
    <3> SUFFICES ASSUME NEW i \in 1..Len(states'), NEW j \in 1..Len(states'),
                        NEW p \in 1..Len(states'[i]), NEW q \in 1..Len(states'[j]),
                        states'[i][p].id = states'[j][q].id
                 PROVE  i = j /\ p = q
        BY DEF ObjectIds
    <3>1. i = 1 /\ j = 1
          BY <2>1
    <3>2. /\ p \in 1..Len(file) /\ states'[i][p] = file[p].msg
          /\ q \in 1..Len(file) /\ states'[j][q] = file[q].msg
          BY <2>2
    <3>3. file[p].msg.id = file[q].msg.id
          BY <3>2
    <3> QED
        BY <1>0, <3>1, <3>2, <3>3 DEF Data, LogIds
  <2>4. LogIds' /\ MarkedInLog'
        BY <1>0, <1>1 DEF Data, LogIds, MarkedInLog
  <2>5. MarkedInObjects'
        BY <1>0, <1>1, <2>2 DEF Data, MarkedInLog, MarkedInObjects
  <2>6. LogFirst'
    <3>1. ASSUME NEW i \in 1..Len(states'), NEW p \in 1..Len(states'[i]), NEW q \in 1..Len(file),
                 states'[i][p].delivered, file[q].msg.id = states'[i][p].id
          PROVE  file[q].msg.delivered
      <4>1. p \in 1..Len(file) /\ states'[i][p] = file[p].msg
            BY <2>2
      <4>2. p = q
            BY <1>0, <3>1, <4>1 DEF Data, LogIds
      <4> QED
          BY <3>1, <4>1, <4>2
    <3>2. \A i \in 1..Len(states') : \A p \in 1..Len(states'[i]) : \A q \in 1..Len(file) :
             states'[i][p].delivered /\ file[q].msg.id = states'[i][p].id => file[q].msg.delivered
          BY <3>1
    <3> QED
        BY <1>1, <3>2 DEF LogFirst
  <2>7. IdsDrawn'
        BY <1>0, <1>1, <1>3, <2>2 DEF Data, IdsDrawn
  <2>8. \A s \in Senders : ~SendAt(s, "write")' /\ send'[s] = None
        BY <1>1, <1>3 DEF SendAt
  <2>9. SendIds'
        BY <2>8 DEF SendIds
  <2> QED
      BY <2>3, <2>4, <2>5, <2>6, <2>7, <2>9 DEF Data
<1>8. OneObject'
      BY <1>1, <1>2, <1>3 DEF OneObject
<1>9. AckedKept'
  <2>1. purges = 0 => \A id \in acked : InFile(id)
        BY DEF Inv, AckedKept, Kept
  <2>2. \A id : InFile(id) => InFile(id)'
        BY <1>1 DEF InFile
  <2>3. mode' \in {"up", "closed"} => mode' = "up"
        BY <1>1
  <2> QED
      BY <1>1, <1>2, <2>1, <2>2, <2>3 DEF AckedKept, Kept
<1>10. SendKept'
      BY <1>1, <1>3 DEF SendKept, SendAt
<1> QED
    BY <1>4, <1>5, <1>6, <1>7, <1>8, <1>9, <1>10 DEF Inv

-----------------------------------------------------------------------------
(* The theorems. *)

(* The invariant holds when the store is opened for the first time. *)
LEMMA InitInv ==
    ASSUME Init
    PROVE  Inv
<1> USE InboxAssumption
<1>1. /\ file = <<>> /\ mode = "up" /\ states = <<>> /\ mapped = 0 /\ drawn = 0
      /\ send = [s \in Senders |-> None] /\ purging = 0 /\ purges = 0 /\ feed = <<>>
      /\ sub = [w \in Workers |-> NoSub] /\ signal = {} /\ work = [w \in Workers |-> Idle]
      /\ acked = {} /\ consumed = {} /\ faults = 0
      BY DEF Init
<1>2. Len(file) = 0 /\ Len(states) = 0 /\ Len(feed) = 0 /\ feed \in Seq(Events)
      BY <1>1
<1>3. SubOK(NoSub, feed) /\ Idle \in Working /\ Idle.at = "idle"
      BY <1>2, NewSubs DEF Idle, Working
<1>4. TypeInv
  <2>1. file \in Seq(Chunk) /\ states \in Seq(Seq(Message))
        BY <1>1
  <2>2. /\ send \in [Senders -> Sending \cup {None}] /\ sub \in [Workers -> Subscription]
        /\ work \in [Workers -> Working]
        BY <1>1, <1>3 DEF SubOK
  <2> QED
      BY <1>1, <1>2, <2>1, <2>2 DEF TypeInv
<1>5. (\A s \in Senders : send[s] = None) /\ (\A w \in Workers : work[w] = Idle)
      BY <1>1
<1>6. FeedOK
  <2>1. \A w \in Workers : SubOK(sub[w], feed)
        BY <1>1, <1>3
  <2> QED
      BY <1>5, <2>1 DEF FeedOK, SubOK
<1>7. ObjectsOK
      BY <1>1, <1>3, <1>5 DEF ObjectsOK
<1>8. Data
  <2>1. ObjectIds /\ LogIds /\ MarkedInObjects /\ MarkedInLog /\ LogFirst
        BY <1>2 DEF ObjectIds, LogIds, MarkedInObjects, MarkedInLog, LogFirst
  <2>2. IdsDrawn /\ SendIds
        BY <1>1, <1>2, <1>5 DEF IdsDrawn, SendIds, SendAt
  <2> QED
      BY <2>1, <2>2 DEF Data
<1>9. OneObject /\ AckedKept /\ SendKept
      BY <1>1, <1>2, <1>5 DEF OneObject, AckedKept, SendKept, SendAt
<1> QED
    BY <1>4, <1>6, <1>7, <1>8, <1>9 DEF Inv

(* A step that changes nothing. *)
LEMMA StutterKeepsInv ==
    ASSUME Inv, UNCHANGED vars
    PROVE  Inv'
<1>1. SameObjects /\ acked' = acked
      BY DEF vars, store, seen, SameObjects
<1>2. /\ sub' = sub /\ work' = work /\ signal' = signal /\ faults' = faults /\ feed' = feed /\ send' = send
      BY DEF vars, wakes
<1>3. TypeInv /\ FeedOK /\ feed \in Seq(Events) /\ Len(feed) \in Nat
      BY DEF Inv, TypeInv
<1>4. /\ SendsGoOn /\ send' \in [Senders -> Sending \cup {None}]
      /\ \A s \in Senders : send'[s] # None => send'[s].seq <= Len(feed')
      BY <1>2, <1>3, SendsUntouched DEF FeedOK
<1>5. feed' \in Seq(Events) /\ Len(feed) <= Len(feed')
      BY <1>2, <1>3
<1> QED
    BY <1>1, <1>2, <1>4, <1>5, NoNewAcks, SendStep

(* Every step keeps the invariant. *)
LEMMA NextKeepsInv ==
    ASSUME Inv, PublishOK, [Next]_vars
    PROVE  Inv'
<1>1. ASSUME NEW s \in Senders, NEW t \in Tasks, AppendBegins(s, t) PROVE Inv'
      BY <1>1, AppendBeginsKeepsInv
<1>2. ASSUME NEW s \in Senders, SenderStep(s) \/ AppendFails(s) \/ WakeEventFails(s) PROVE Inv'
      BY <1>2, AppendWritesKeepsInv, AppendWakeEventKeepsInv, AppendReturnsKeepsInv, OfferKeepsInv,
         AppendFailsKeepsInv, WakeEventFailsKeepsInv DEF SenderStep
<1>3. ASSUME NEW w \in Workers, WorkerStep(w) PROVE Inv'
      BY <1>3, WaitForWakeKeepsInv, ReplayKeepsInv, ForwardKeepsInv, UnsubscribeKeepsInv,
         OfferOtherKeepsInv, WorkerKeepsInv, MarkRewritesKeepsInv DEF WorkerStep
<1>4. CASE Purge \/ PurgeRemoves \/ PurgeFails
      BY <1>4, PurgeKeepsInv
<1>5. CASE CloseStore \/ Crash \/ Recover
      BY <1>5, CloseStoreKeepsInv, CrashKeepsInv, RecoverKeepsInv
<1>6. CASE UNCHANGED vars
      BY <1>6, StutterKeepsInv
<1>7. ASSUME NEW e \in Events, OtherEvent(e) PROVE Inv'
      BY <1>7, OtherEventKeepsInv
<1> QED
    BY <1>1, <1>2, <1>3, <1>4, <1>5, <1>6, <1>7 DEF Next

(* What is left of a fan-out. *)
LEMMA FanOuts ==
    ASSUME NEW n \in Nat, NEW q \in Nat, q <= n, NEW left, left \subseteq Workers
    PROVE  /\ FanOut(q, left) \in [seq : Nat, left : SUBSET Workers]
           /\ FanOut(q, left).seq <= n
<1>1. CASE left = {}
      BY <1>1 DEF FanOut, NoEvent
<1>2. CASE left # {}
      BY <1>2 DEF FanOut
<1> QED
    BY <1>1, <1>2

(* The feed only grows, and a fan-out is of an event that is in it. *)
LEMMA NextKeepsPublish ==
    ASSUME Inv, PublishOK, [Next]_vars
    PROVE  PublishOK'
<1>0. /\ TypeInv /\ feed \in Seq(Events) /\ Len(feed) \in Nat
      /\ publish \in [seq : Nat, left : SUBSET Workers]
      /\ publish.seq \in Nat /\ publish.seq <= Len(feed) /\ publish.left \subseteq Workers
      BY DEF Inv, TypeInv, PublishOK
<1>1. ASSUME publish' = publish, feed' = feed PROVE PublishOK'
      BY <1>1 DEF PublishOK
<1>2. ASSUME NEW s \in Senders, AppendWakeEvent(s) PROVE PublishOK'
  <2>1. publish' = publish /\ Len(feed') = Len(feed) + 1
        BY <1>0, <1>2 DEF AppendWakeEvent
  <2> QED
      BY <1>0, <2>1 DEF PublishOK
<1>3. ASSUME NEW e \in Events, OtherEvent(e) PROVE PublishOK'
  <2>1. publish' = FanOut(Len(feed) + 1, Subscribed) /\ Len(feed') = Len(feed) + 1
        BY <1>0, <1>3 DEF OtherEvent
  <2>2. Subscribed \subseteq Workers
        BY DEF Subscribed
  <2> QED
      BY <1>0, <2>1, <2>2, FanOuts DEF PublishOK
<1>4. ASSUME NEW w \in Workers, OfferOther(w) \/ WaitForWake(w) PROVE PublishOK'
  <2>1. publish' = FanOut(publish.seq, publish.left \ {w}) /\ feed' = feed
        BY <1>4 DEF OfferOther, WaitForWake
  <2>2. publish.left \ {w} \subseteq Workers
        BY <1>0
  <2> QED
      BY <1>0, <2>1, <2>2, FanOuts DEF PublishOK
<1>5. CASE Crash
  <2>1. publish' = FanOut(0, {}) /\ Len(feed') \in Nat
        BY <1>5, CrashFeed DEF Crash, FanOut
  <2> QED
      BY <2>1, FanOuts DEF PublishOK
<1>6. ASSUME NEW s \in Senders, NEW t \in Tasks, AppendBegins(s, t) PROVE PublishOK'
      BY <1>1, <1>6 DEF AppendBegins, wakes
<1>7. ASSUME NEW s \in Senders, AppendWrites(s) \/ AppendReturns(s) \/ AppendFails(s) \/ WakeEventFails(s)
      PROVE  PublishOK'
      BY <1>1, <1>7 DEF AppendWrites, AppendReturns, AppendFails, WakeEventFails, wakes
<1>8. ASSUME NEW s \in Senders, NEW w \in Workers, Offer(s, w) PROVE PublishOK'
      BY <1>1, <1>8 DEF Offer
<1>9. ASSUME NEW w \in Workers, Replay(w) \/ Forward(w) \/ ForwardEnds(w) \/ Suspend(w) PROVE PublishOK'
      BY <1>1, <1>9 DEF Replay, Forward, ForwardEnds, Suspend
<1>10. ASSUME NEW w \in Workers, List(w) \/ MarkDelivered(w) \/ MarkRewrites(w) \/ MarkFails(w) PROVE PublishOK'
      BY <1>1, <1>10 DEF List, MarkDelivered, MarkRewrites, MarkFails, wakes
<1>11. CASE Purge \/ PurgeRemoves \/ PurgeFails \/ CloseStore \/ Recover \/ UNCHANGED vars
      BY <1>1, <1>11 DEF Purge, PurgeRemoves, PurgeFails, CloseStore, Recover, vars, wakes
<1> QED
    BY <1>2, <1>3, <1>4, <1>5, <1>6, <1>7, <1>8, <1>9, <1>10, <1>11 DEF Next, SenderStep, WorkerStep

(* The inductive invariant holds in every reachable state. *)
THEOREM InvHolds == Spec => [](Inv /\ PublishOK)
<1>1. Init => Inv /\ PublishOK
  <2>1. ASSUME Init PROVE PublishOK
        BY <2>1 DEF Init, PublishOK, NoEvent
  <2> QED
      BY <2>1, InitInv
<1>2. Inv /\ PublishOK /\ [Next]_vars => (Inv /\ PublishOK)'
      BY NextKeepsInv, NextKeepsPublish
<1> QED
    BY <1>1, <1>2, PTL DEF Spec

(* The log, the objects and the locals of every append, subscription and    *)
(* worker keep their types, and no channel outgrows its capacity.           *)
THEOREM TypeCorrect == Spec => []TypeOK
<1>1. ASSUME Inv, PublishOK PROVE TypeOK
  <2>1. TypeInv /\ FeedOK
        BY <1>1 DEF Inv
  <2>2. \A i \in 1..Len(states) : states[i] \in Seq(Message)
        BY <2>1, Fields
  <2>3. \A s \in Senders : send[s] # None =>
           /\ send[s].at \in {"write", "event", "offer"}
           /\ send[s].msg \in Message
           /\ send[s].left \subseteq Workers
        BY <2>1, Fields
  <2>4. ASSUME NEW w \in Workers
        PROVE  /\ sub[w].phase \in {"none", "replaying", "live"}
               /\ Len(sub[w].ch) <= BufferSize
               /\ sub[w].cursor \in 0..Len(feed)
               /\ work[w].at \in {"idle", "mark", "rewrite"}
               /\ work[w].ids \subseteq Ids
    <3>1. sub[w] \in Subscription /\ work[w] \in Working /\ Len(feed) \in Nat
          BY <2>1, Fields
    <3>2. Len(sub[w].ch) <= BufferSize /\ sub[w].cursor <= Len(feed)
          BY <2>1 DEF FeedOK
    <3> QED
        BY <3>1, <3>2 DEF Subscription, Working
  <2>5. publish \in [seq : 0..Len(feed), left : SUBSET Workers]
    <3>1. Len(feed) \in Nat
          BY <2>1 DEF TypeInv
    <3> QED
        BY <1>1, <3>1 DEF PublishOK
  <2> QED
      BY <2>1, <2>2, <2>3, <2>4, <2>5 DEF TypeOK, TypeInv
<1> QED
    BY <1>1, InvHolds, PTL

(* An open store that was never purged has every message whose Append       *)
(* returned without an error, over any number of crashes in the middle of a *)
(* record, failed writes, restarts and rewrites by MarkDelivered.           *)
THEOREM AcknowledgedSurvive == Spec => []AckedSurvives
<1>1. ASSUME Inv PROVE AckedSurvives
  <2> SUFFICES ASSUME mode = "up", purges = 0, NEW id \in acked
               PROVE  mapped # 0 /\ \E i \in 1..Len(states[mapped]) : states[mapped][i].id = id
      BY DEF AckedSurvives
  <2>1. InMapped(id)
        BY <1>1 DEF Inv, AckedKept, Kept
  <2> QED
      BY <2>1 DEF InMapped
<1> QED
    BY <1>1, InvHolds, PTL

(* A message that MarkDelivered found and marked is never listed again,     *)
(* whatever crashes, fails, is rewritten from an object that a Purge took   *)
(* out of the map, or is purged later.                                      *)
THEOREM NeverRedelivered == Spec => []NotRedelivered
<1>1. ASSUME Inv PROVE NotRedelivered
  <2> SUFFICES ASSUME NEW t \in Tasks, NEW id \in Undelivered(t), id \in consumed
               PROVE  FALSE
      BY DEF NotRedelivered
  <2>1. mapped # 0
        BY DEF Undelivered
  <2>2. mapped \in 1..Len(states)
        BY <1>1, <2>1 DEF Inv, TypeInv
  <2>3. PICK p \in 1..Len(states[mapped]) : ~states[mapped][p].delivered /\ states[mapped][p].id = id
        BY <2>1 DEF Undelivered
  <2> QED
      BY <1>1, <2>2, <2>3 DEF Inv, Data, MarkedInObjects
<1> QED
    BY <1>1, InvHolds, PTL
=============================================================================

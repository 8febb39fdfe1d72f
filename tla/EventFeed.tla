----------------------------- MODULE EventFeed -----------------------------
(***************************************************************************)
(* What a run's event store promises its readers, with no channels, locks, *)
(* files or restarts: events get a place in one order, and every reader    *)
(* sees them in that order, each at most once.  It does not promise that a *)
(* reader sees them all.  EventStore implements it.                        *)
(***************************************************************************)
EXTENDS Naturals, Sequences

CONSTANTS Readers, Events

VARIABLES
    feed,     \* the events in their order
    received  \* what each reader has seen

Init ==
    /\ feed = <<>>
    /\ received = [r \in Readers |-> <<>>]

Publish(e) ==
    /\ \A i \in 1..Len(feed) : feed[i] # e
    /\ feed' = Append(feed, e)
    /\ UNCHANGED received

(* Event i comes behind everything reader r has seen. *)
Behind(r, i) == \A j \in 1..Len(feed) :
                    (received[r] # <<>> /\ feed[j] = received[r][Len(received[r])]) => j < i

Deliver(r) ==
    /\ \E i \in 1..Len(feed) :
          /\ Behind(r, i)
          /\ received' = [received EXCEPT ![r] = Append(@, feed[i])]
    /\ UNCHANGED feed

Next == (\E e \in Events : Publish(e)) \/ (\E r \in Readers : Deliver(r))

Spec == Init /\ [][Next]_<<feed, received>>
=============================================================================

------------------------- MODULE InvocationService -------------------------
(***************************************************************************)
(* What invocation admission promises its callers, with no files, locks,   *)
(* crashes or concurrent handlers: an idempotency key is bound to one       *)
(* intent and one invocation in a single step, and every receipt handed    *)
(* out afterwards is the one the key is bound to.  Admission implements it.*)
(***************************************************************************)
CONSTANTS
    Keys,         \* (caller identity, idempotency key) pairs
    Intents,      \* what a caller may ask for
    Invocations,  \* ids of admitted work
    None

VARIABLES
    bound,  \* [Keys -> binding, or None for a key nothing was admitted under]
    told    \* receipts handed out: <<key, intent, invocation>>

Unused(id) == \A k \in Keys : bound[k] # None => bound[k].id # id

Init ==
    /\ bound = [k \in Keys |-> None]
    /\ told = {}

(* The admission of an invocation under a fresh key. *)
Accept(k, intent, id) ==
    /\ bound[k] = None
    /\ Unused(id)
    /\ bound' = [bound EXCEPT ![k] = [id |-> id, intent |-> intent]]
    /\ UNCHANGED told

(* A first or repeated answer. *)
Tell(k) ==
    /\ bound[k] # None
    /\ told' = told \cup {<<k, bound[k].intent, bound[k].id>>}
    /\ UNCHANGED bound

Next ==
    \E k \in Keys :
        \/ \E intent \in Intents, id \in Invocations : Accept(k, intent, id)
        \/ Tell(k)

Spec == Init /\ [][Next]_<<bound, told>>
=============================================================================

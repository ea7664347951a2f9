----------------------------- MODULE TokenLease -----------------------------
(***************************************************************************)
(* What signing promises of the tokens, without sessions, error codes or   *)
(* a cache: a request signs only while it alone holds the slot, it gives   *)
(* the slot back before its signature leaves the process, and pulling the  *)
(* token or losing the process takes the slot from whoever holds it.       *)
(***************************************************************************)
CONSTANTS Requests, Slots, None

VARIABLES
    holder,   \* holder[s]: the request logged in to slot s, or None
    signed    \* the requests that hold a signature not yet delivered

leaseVars == <<holder, signed>>

LeaseTypeOK ==
    /\ holder \in [Slots -> Requests \cup {None}]
    /\ signed \subseteq Requests

Holds(r) == \E s \in Slots : holder[s] = r

Init == holder = [s \in Slots |-> None] /\ signed = {}

Acquire(r, s) ==
    /\ holder[s] = None /\ ~Holds(r) /\ r \notin signed
    /\ holder' = [holder EXCEPT ![s] = r]
    /\ UNCHANGED signed

Use(r) ==
    /\ Holds(r) /\ r \notin signed
    /\ signed' = signed \cup {r}
    /\ UNCHANGED holder

Release(s) ==
    /\ holder[s] # None
    /\ holder' = [holder EXCEPT ![s] = None]
    /\ UNCHANGED signed

(* The signature is in the answer: its slot was given back before. *)
Deliver(r) ==
    /\ r \in signed /\ ~Holds(r)
    /\ signed' = signed \ {r}
    /\ UNCHANGED holder

LoseAll ==
    /\ holder' = [s \in Slots |-> None]
    /\ signed' = {}

Next ==
    \/ \E r \in Requests, s \in Slots : Acquire(r, s)
    \/ \E r \in Requests : Use(r) \/ Deliver(r)
    \/ \E s \in Slots : Release(s)
    \/ LoseAll

Spec == Init /\ [][Next]_leaseVars
=============================================================================

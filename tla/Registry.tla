------------------------------ MODULE Registry ------------------------------
(***************************************************************************)
(* What pairing promises, without codes, dialogs or messages: the site     *)
(* grants a token to the agent that asked for it, for good; an agent keeps *)
(* only a token that was granted to it before.                             *)
(***************************************************************************)
CONSTANTS Tokens, Agents, None

VARIABLES
    granted,   \* pairs of a token and the agent it was granted to
    kept       \* kept[b]: the token agent b holds, or None

registryVars == <<granted, kept>>

Init == granted = {} /\ kept = [b \in Agents |-> None]

Grant(t, b) ==
    /\ \A g \in granted : g[1] # t
    /\ granted' = granted \cup {<<t, b>>}
    /\ UNCHANGED kept

Keep(t, b) ==
    /\ <<t, b>> \in granted
    /\ kept' = [kept EXCEPT ![b] = t]
    /\ UNCHANGED granted

Lose(b) ==
    /\ kept' = [kept EXCEPT ![b] = None]
    /\ UNCHANGED granted

Next ==
    \/ \E t \in Tokens, b \in Agents : Grant(t, b) \/ Keep(t, b)
    \/ \E b \in Agents : Lose(b)

Spec == Init /\ [][Next]_registryVars
=============================================================================

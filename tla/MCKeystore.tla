----------------------------- MODULE MCKeystore -----------------------------
(***************************************************************************)
(* Instances of Keystore for TLC: two writers, two sites.  A behaviour of  *)
(* MCSpec is either of one writer that pairs twice and removes (solo), with*)
(* a keychain that answers, or does not, or changes once, or of two writers*)
(* that pair MaxPairings times while it answers.                           *)
(***************************************************************************)
EXTENDS Keystore

CONSTANTS w1, w2, u1, u2

VARIABLE solo

MCVars == <<vars, solo>>
MCInit == Init /\ solo \in BOOLEAN /\ (~solo => kcUp)
MCNext ==
    /\ Next /\ UNCHANGED solo
    /\ \/ /\ solo /\ pc'[w2] = "idle"
          /\ kcUp' = kcUp \/ "moved" \notin spoiled
          /\ pairings' <= 2
       \/ ~solo /\ kcUp' = kcUp /\ \A w \in Writers : op'[w] = "pair"

\* The fairness of LiveSpec.
MCSpec ==
    /\ MCInit /\ [][MCNext]_MCVars
    /\ \A w \in Writers :
         WF_MCVars(Step(w) /\ MCNext) /\ SF_MCVars(Lock(w) /\ MCNext)
=============================================================================

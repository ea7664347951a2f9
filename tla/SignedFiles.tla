---------------------------- MODULE SignedFiles -----------------------------
(***************************************************************************)
(* What signing a document promises: a file is attached only for a session *)
(* that the site has prepared and then a token has signed, and once a file *)
(* is attached no new call can attach another one.                         *)
(***************************************************************************)
CONSTANTS Sessions, Calls, SessionOf

VARIABLES
    prepared,  \* sessions whose document and hash the site has made
    signed,    \* sessions whose hash a token has signed
    open,      \* calls that may still attach their file
    attached   \* calls whose file is attached

fileVars == <<prepared, signed, open, attached>>

FilesInit == prepared = {} /\ signed = {} /\ open = {} /\ attached = {}

Prepare(s) ==
    /\ s \notin prepared
    /\ prepared' = prepared \cup {s}
    /\ UNCHANGED <<signed, open, attached>>

SignSession(s) ==
    /\ s \in prepared
    /\ signed' = signed \cup {s}
    /\ UNCHANGED <<prepared, open, attached>>

Open(k) ==
    /\ SessionOf[k] \in signed
    /\ \A a \in attached : SessionOf[a] # SessionOf[k]
    /\ open' = open \cup {k}
    /\ UNCHANGED <<prepared, signed, attached>>

Close(k) ==
    /\ open' = open \ {k}
    /\ UNCHANGED <<prepared, signed, attached>>

Attach(k) ==
    /\ k \in open
    /\ open' = open \ {k} /\ attached' = attached \cup {k}
    /\ UNCHANGED <<prepared, signed>>

FilesNext ==
    \/ \E s \in Sessions : Prepare(s) \/ SignSession(s)
    \/ \E k \in Calls : Open(k) \/ Close(k) \/ Attach(k)

FilesSpec == FilesInit /\ [][FilesNext]_fileVars
=============================================================================

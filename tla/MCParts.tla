------------------------------ MODULE MCParts -------------------------------
(***************************************************************************)
(* Instances of Startup, AiaChain and SignFlow.  The three share no        *)
(* variable; a behaviour shows one of them, part, while the other two rest *)
(* in one of their initial states.  Of Startup it shows either a user or   *)
(* Root, because their launches share the autostart set and nothing else.  *)
(***************************************************************************)
EXTENDS Startup, AiaChain, SignFlow

CONSTANTS
    p1, p2, u, r, chrome, profile,
    userLib, link, vendor, missing, opensc, fOpensc, fVendor,
    signer, sub, ca, root,
    c1

VARIABLE part

MCOwnerOf == [d \in DBs |-> u]
MCLaunches == {"start", "post-install", "pre-uninstall"} \X {u}
                \cup {"post-install", "pre-uninstall"} \X {r}

\* The user names a link to a built-in library, one of his own, and one that is
\* not there; the vendor's library does not load.
MCConfigs == {<<>>, <<link, userLib, missing>>}
MCDefaults == <<opensc, missing, vendor>>
MCFileOf ==
    [l \in {userLib, link, vendor, opensc} |->
        IF l \in {opensc, link} THEN fOpensc ELSE IF l = vendor THEN fVendor ELSE l]

\* Certificates that name each other in a circle, one without an address, a root
\* with one; serial numbers at which an element of the request grows past 127
\* and past 255 bytes, and one that needs a leading zero.
MCSerials ==
    {<<>>, <<128>>} \cup {[i \in 1..n |-> 127] : n \in {20, 70, 71, 197, 198}}
MCNameHash == [c \in Certs |-> [i \in 1..20 |-> IF c = signer THEN 200 ELSE 7]]
MCSpkiHash ==
    [c \in Certs |-> [i \in 1..20 |-> IF c = sub THEN 5 ELSE IF c = ca THEN 48 ELSE 4]]
MCKeyHash == [c \in Certs |-> [i \in 1..20 |-> IF c = sub THEN 6 ELSE 2]]

MCSkews == {-2, 0, 1}

partVars == <<vars, walkVars, flowVars, part>>

PartsInit ==
    /\ part \in Homes \cup {"chain", "flow"}
    /\ Init /\ (part \notin Users => profiles = {})
    /\ WalkInit /\ (part # "chain" => leaf = Garbage /\ serial = <<>>)
    /\ FlowInit /\ (part # "flow" => skew = 0 /\ bridgeSecret = 0)

Rest(v) == UNCHANGED <<v, part>>
StartupPart ==
    /\ part \in Homes /\ Next /\ Rest(<<walkVars, flowVars>>)
    /\ \A p \in Procs : proc'[p].home \in {part, None}
ChainPart == part = "chain" /\ Walk /\ Rest(<<vars, flowVars>>)
FlowPart(A) == part = "flow" /\ A /\ Rest(<<vars, walkVars>>)

PartsNext == StartupPart \/ ChainPart \/ FlowPart(Flow)

\* Both HTTP clients of the chain walk have a timeout, and so have the calls of
\* the page; the bridge's handlers and the site's workers run.
PartsFairness ==
    /\ WF_partVars(ChainPart)
    /\ \A c \in Clicks :
          /\ WF_partVars(FlowPart(InitiateSign(c)))
          /\ WF_partVars(FlowPart(HandleRequest(c)))
          /\ WF_partVars(FlowPart(Browse(c)))
    /\ \A k \in Calls : WF_partVars(FlowPart(finalize_direct_sign(k)))

PartsSpec == PartsInit /\ [][PartsNext]_partVars /\ PartsFairness
=============================================================================

------------------------------ MODULE AiaChain ------------------------------
(***************************************************************************)
(* What /v1/sign of the bridge fetches after a signature: the issuers of   *)
(* the signer's certificate, by the addresses that each certificate names, *)
(* and an OCSP answer about the signer's certificate.                      *)
(*                                                                         *)
(* Servers answer what they like.  buildOCSPRequest encodes by hand, so    *)
(* what it returns is the sequence of its bytes.                           *)
(***************************************************************************)
EXTENDS Integers, Sequences

CONSTANTS
    Certs,        \* certificates that servers or a token may give
    Garbage,      \* bytes that x509.ParseCertificate refuses
    HasIssuerUrl, \* certificates with an address of their issuer ...
    SelfIssued,   \* ... whose issuer has their own name, ...
    HasOcspUrl,   \* ... with an address of an OCSP responder
    Serials,      \* serial numbers, as big.Int.Bytes gives them
    NameHash,     \* per certificate: SHA-1 of its issuer's name, ...
    SpkiHash,     \* ... of its own SubjectPublicKeyInfo, the whole of it, ...
    KeyHash,      \* ... and of the key alone, as RFC 6960, 4.1.1 has it
    MaxLevels     \* the loop bound of FetchCertChain

Byte == 0..255

ASSUME AiaAssumption ==
    /\ Garbage \notin Certs
    /\ HasIssuerUrl \subseteq Certs /\ HasOcspUrl \subseteq Certs
    /\ NameHash \in [Certs -> Seq(Byte)] /\ SpkiHash \in [Certs -> Seq(Byte)]
    /\ KeyHash \in [Certs -> Seq(Byte)]
    /\ Serials \subseteq Seq(Byte)
    /\ MaxLevels \in Nat

VARIABLES
    step,     \* where HandleSign is
    leaf,     \* certDER, as SignHash read it from the token
    serial,   \* its serial number
    current,  \* the certificate whose issuer is wanted
    chain,    \* the certificates fetched
    request,  \* the certificate, number and issuer of the OCSP request, if any
    ocsp      \* the answer holds an OCSP response

walkVars == <<step, leaf, serial, current, chain, request, ocsp>>

WalkTypeOK ==
    /\ step \in {"parse", "walk", "ocsp", "post", "answer"}
    /\ leaf \in Certs \cup {Garbage}
    /\ serial \in Serials
    /\ current \in Certs \cup {Garbage}
    /\ chain \in Seq(Certs \cup {Garbage}) /\ Len(chain) <= MaxLevels
    /\ request \in {<<>>} \cup Certs \X Serials \X Certs
    /\ ocsp \in BOOLEAN

WalkInit ==
    /\ step = "parse"
    /\ leaf \in Certs \cup {Garbage} /\ serial \in Serials
    /\ current = leaf
    /\ chain = <<>> /\ request = <<>> /\ ocsp = FALSE
-----------------------------------------------------------------------------
(* ASN.1, DER.  A length of up to two bytes is written by hand. *)
asn1HeaderShort(tag, n) ==    \* slip: one byte of length for a body of 128 bytes
    IF n <= 128 THEN <<tag, n>>
    ELSE IF n < 256 THEN <<tag, 129, n>>
    ELSE <<tag, 130, (n \div 256) % 256, n % 256>>

asn1Header(tag, n) ==
    IF n < 128 THEN <<tag, n>>
    ELSE IF n < 256 THEN <<tag, 129, n>>
    ELSE <<tag, 130, (n \div 256) % 256, n % 256>>

asn1Wrap(tag, body) == asn1Header(tag, Len(body)) \o body

asn1Sequence(body) == asn1Wrap(48, body)
asn1OctetString(data) == asn1Wrap(4, data)
asn1Null == <<5, 0>>

(* A first byte of 128 or more would make the number negative. *)
asn1Integer(data) ==
    asn1Wrap(2, IF data # <<>> /\ data[1] >= 128 THEN <<0>> \o data ELSE data)

sha1OID == <<6, 5, 43, 14, 3, 2, 26>>

buildOCSPRequest(cert, number, issuer) ==
    LET certID == asn1Sequence(asn1Sequence(sha1OID \o asn1Null)
                               \o asn1OctetString(NameHash[cert])
                               \o asn1OctetString(SpkiHash[issuer])
                               \o asn1Integer(number))
    IN asn1Sequence(asn1Sequence(asn1Sequence(asn1Sequence(certID))))
-----------------------------------------------------------------------------
Walking(s) == step = s
WalkTo(s) == step' = s

(* FetchCertChain: a leaf that cannot be parsed has no chain. *)
ParseLeaf ==
    /\ Walking("parse")
    /\ WalkTo(IF leaf = Garbage THEN "answer" ELSE "walk")
    /\ UNCHANGED <<leaf, serial, current, chain, request, ocsp>>

LevelLeftLate == Len(chain) <= MaxLevels   \* slip: one level more
LevelLeft == Len(chain) < MaxLevels

AtTop(c) == c \notin HasIssuerUrl \/ c \in SelfIssued

StopWalk ==
    /\ Walking("walk")
    /\ ~LevelLeft \/ AtTop(current)
    /\ WalkTo("ocsp")
    /\ UNCHANGED <<leaf, serial, current, chain, request, ocsp>>

(* fetchDER: no answer, a status other than 200 and a broken PEM block are
   errors; else there are bytes, of whatever was in the PEM or DER.        *)
FetchFailedRestarts ==  \* slip: after a failed fetch the walk starts again
    /\ Walking("walk") /\ LevelLeft /\ ~AtTop(current)
    /\ WalkTo("parse")
    /\ current' = leaf /\ chain' = <<>>
    /\ UNCHANGED <<leaf, serial, request, ocsp>>

FetchFailed ==
    /\ Walking("walk") /\ LevelLeft /\ ~AtTop(current)
    /\ WalkTo("ocsp")
    /\ UNCHANGED <<leaf, serial, current, chain, request, ocsp>>

(* What was fetched joins the chain before it is parsed. *)
FetchIssuer ==
    /\ Walking("walk") /\ LevelLeft /\ ~AtTop(current)
    /\ \E der \in Certs \cup {Garbage} :
          /\ chain' = Append(chain, der)
          /\ IF der = Garbage
             THEN WalkTo("ocsp") /\ UNCHANGED current
             ELSE WalkTo("walk") /\ current' = der
    /\ UNCHANGED <<leaf, serial, request, ocsp>>

(* FetchOCSP: without an address, or an issuer that can be parsed, there is
   no request; its errors leave the answer without a response.             *)
AskOcsp ==
    /\ Walking("ocsp")
    /\ IF leaf \in HasOcspUrl /\ chain # <<>> /\ chain[1] # Garbage
       THEN /\ request' = <<leaf, serial, chain[1]>>
            /\ WalkTo("post")
       ELSE WalkTo("answer") /\ UNCHANGED request
    /\ UNCHANGED <<leaf, serial, current, chain, ocsp>>

PostOcsp ==
    /\ Walking("post")
    /\ ocsp' \in BOOLEAN
    /\ WalkTo("answer")
    /\ UNCHANGED <<leaf, serial, current, chain, request>>

Walk ==
    \/ ParseLeaf \/ StopWalk \/ FetchFailed \/ FetchIssuer
    \/ AskOcsp \/ PostOcsp

WalkSpec == WalkInit /\ [][Walk]_walkVars
-----------------------------------------------------------------------------
(* DER as a reader takes it: the definite lengths of X.690, 8.1.3, in their
   only allowed form.  Of the element at s[i]: the length of its header and
   of its contents, what follows it, and the contents of a well-formed one. *)
HeadLength(s, i) == 2 + IF s[i + 1] < 128 THEN 0 ELSE s[i + 1] - 128

ContentLength(s, i) ==
    CASE s[i + 1] < 128 -> s[i + 1]
      [] s[i + 1] = 129 -> s[i + 2]
      [] OTHER -> 256 * s[i + 2] + s[i + 3]

After(s, i) ==
    IF i >= Len(s) THEN i ELSE i + HeadLength(s, i) + ContentLength(s, i)

WellFormed(s, i) ==
    /\ i < Len(s) /\ s[i + 1] <= 130 /\ s[i + 1] # 128
    /\ After(s, i) <= Len(s) + 1
    /\ s[i + 1] = 129 => ContentLength(s, i) >= 128
    /\ s[i + 1] = 130 => ContentLength(s, i) >= 256

Content(s, i) ==
    IF WellFormed(s, i) THEN SubSeq(s, i + HeadLength(s, i), After(s, i) - 1)
    ELSE <<>>

Only(s, tag) == s # <<>> /\ s[1] = tag /\ WellFormed(s, 1) /\ After(s, 1) = Len(s) + 1

(* A reader of an OCSP request finds in it what buildOCSPRequest means to put
   there, at any length of the elements: the hash of the name of the leaf's
   issuer, the hash of the SubjectPublicKeyInfo of the first certificate of
   the chain, and the leaf's serial number with no sign.  The number zero,
   which no issuer may give, comes out as an INTEGER without contents.
   (buildOCSPRequest, asn1Wrap, asn1Integer)                               *)
RequestNamesLeaf ==
    request # <<>> =>
        LET der == buildOCSPRequest(request[1], request[2], request[3])
            tbs == Content(der, 1)
            list == Content(tbs, 1)
            entry == Content(list, 1)
            certID == Content(entry, 1)
            fields == Content(certID, 1)
            name == After(fields, 1)
            key == After(fields, name)
            number == After(fields, key)
            bytes == Content(fields, number)
        IN /\ \A s \in {der, tbs, list, entry, certID} : Only(s, 48)
           /\ \A i \in {1, name, key, number} : WellFormed(fields, i)
           /\ fields[name] = 4 /\ Content(fields, name) = NameHash[leaf]
           /\ fields[key] = 4 /\ Content(fields, key) = SpkiHash[chain[1]]
           /\ fields[number] = 2 /\ After(fields, number) = Len(fields) + 1
           /\ IF serial = <<>> THEN bytes = <<>>
              ELSE /\ bytes[1] < 128
                   /\ bytes = IF serial[1] < 128 THEN serial ELSE <<0>> \o serial

(* aia.go:145: the request names the key of the issuer "as per RFC 6960", by
   the hash of the key without the rest of the SubjectPublicKeyInfo.       *)
RequestNamesIssuerKey ==
    request # <<>> =>
        LET der == buildOCSPRequest(request[1], request[2], request[3])
            entry == Content(Content(Content(der, 1), 1), 1)
            fields == Content(Content(entry, 1), 1)
        IN Content(fields, After(fields, After(fields, 1))) = KeyHash[chain[1]]

(* Every walk that has begun ends with an answer, also where the certificates
   name each other in a circle.  (FetchCertChain, FetchOCSP)               *)
EveryWalkAnswers == step # "parse" ~> step = "answer"
=============================================================================

----------------------------- MODULE AiaProofs ------------------------------
(***************************************************************************)
(* Theorems about AiaChain, for any certificates, serial numbers and bound *)
(* of the walk.                                                            *)
(***************************************************************************)
EXTENDS AiaChain, SequenceTheorems, TLAPS

(* Types are preserved. *)
LEMMA WalkTypeStep ==
    ASSUME WalkTypeOK, [Walk]_walkVars
    PROVE  WalkTypeOK'
<1> USE AiaAssumption DEF WalkTypeOK, Walking, WalkTo
<1>1. CASE ParseLeaf
  BY <1>1 DEF ParseLeaf
<1>2. CASE StopWalk
  BY <1>2 DEF StopWalk
<1>3. CASE FetchFailed
  BY <1>3 DEF FetchFailed
<1>4. CASE FetchIssuer
  <2>1. PICK der \in Certs \cup {Garbage} :
            /\ chain' = Append(chain, der)
            /\ IF der = Garbage
               THEN WalkTo("ocsp") /\ UNCHANGED current
               ELSE WalkTo("walk") /\ current' = der
    BY <1>4 DEF FetchIssuer
  <2>2. chain' \in Seq(Certs \cup {Garbage}) /\ Len(chain') = Len(chain) + 1
    BY <2>1, AppendProperties
  <2>3. Len(chain') <= MaxLevels
    BY <1>4, <2>2, LenProperties DEF FetchIssuer, LevelLeft
  <2>4. current' \in Certs \cup {Garbage} /\ step' \in {"walk", "ocsp"}
    BY <2>1
  <2>5. UNCHANGED <<leaf, serial, request, ocsp>>
    BY <1>4 DEF FetchIssuer
  <2> QED BY <2>2, <2>3, <2>4, <2>5
<1>5. CASE AskOcsp
  <2>1. CASE leaf \in HasOcspUrl /\ chain # <<>> /\ chain[1] # Garbage
    <3>1. chain[1] \in Certs
      BY <2>1, ElementOfSeq, EmptySeq, LenProperties
    <3>2. leaf \in Certs
      BY <1>5, <2>1 DEF AskOcsp
    <3> QED BY <1>5, <2>1, <3>1, <3>2 DEF AskOcsp
  <2>2. CASE ~(leaf \in HasOcspUrl /\ chain # <<>> /\ chain[1] # Garbage)
    BY <1>5, <2>2 DEF AskOcsp
  <2> QED BY <2>1, <2>2
<1>6. CASE PostOcsp
  BY <1>6 DEF PostOcsp
<1>7. CASE UNCHANGED walkVars
  BY <1>7 DEF walkVars
<1> QED BY <1>1, <1>2, <1>3, <1>4, <1>5, <1>6, <1>7 DEF Walk

(* Every variable of AiaChain has its type; the chain never grows longer than
   the loop of FetchCertChain allows.                                      *)
THEOREM WalkTypeCorrect == WalkSpec => []WalkTypeOK
<1>1. ASSUME WalkInit PROVE WalkTypeOK
  <2>1. chain \in Seq(Certs \cup {Garbage}) /\ Len(chain) = 0
    BY <1>1, EmptySeq DEF WalkInit
  <2>2. 0 <= MaxLevels
    BY AiaAssumption
  <2> QED BY <1>1, <2>1, <2>2 DEF WalkInit, WalkTypeOK
<1> QED BY <1>1, WalkTypeStep, PTL DEF WalkSpec
-----------------------------------------------------------------------------
(* What a header says of its element, in each of its three forms. *)
TwoBytes(n) == n \in Nat /\ n < 65536

HeaderSays(h, tag, n) ==
    /\ h \in Seq(Byte) /\ Len(h) \in {2, 3, 4} /\ h[1] = tag
    /\ \/ n < 128 /\ h[2] = n /\ Len(h) = 2
       \/ n >= 128 /\ h[2] = 129 /\ Len(h) = 3 /\ h[3] = n
       \/ n >= 256 /\ h[2] = 130 /\ Len(h) = 4 /\ 256 * h[3] + h[4] = n

(* What asn1Header writes for a length of up to two bytes, a DER reader reads
   back. (asn1Wrap)                                                        *)
LEMMA HeaderReads ==
    ASSUME NEW tag \in Byte, NEW n, TwoBytes(n)
    PROVE  HeaderSays(asn1Header(tag, n), tag, n)
<1> USE DEF Byte, TwoBytes
<1>1. CASE n < 128
  <2> DEFINE h == <<tag, n>>
  <2>1. n \in Byte
    BY <1>1, SMT
  <2>2. h \in Seq(Byte) /\ Len(h) = 2
    BY <2>1, SMT
  <2>3. h[1] = tag /\ h[2] = n
    BY SMT
  <2>4. asn1Header(tag, n) = h
    BY <1>1, SMT DEF asn1Header
  <2> HIDE DEF h
  <2> QED BY <1>1, <2>2, <2>3, <2>4, SMT DEF HeaderSays
<1>2. CASE n >= 128 /\ n < 256
  <2> DEFINE h == <<tag, 129, n>>
  <2>1. h \in Seq(Byte) /\ Len(h) = 3 /\ h[1] = tag /\ h[2] = 129 /\ h[3] = n
    BY <1>2, SMT
  <2>2. asn1Header(tag, n) = h
    BY <1>2, SMT DEF asn1Header
  <2> HIDE DEF h
  <2> QED BY <1>2, <2>1, <2>2, SMT DEF HeaderSays
<1>3. CASE n >= 256
  <2> DEFINE high == (n \div 256) % 256
             low == n % 256
             h == <<tag, 130, high, low>>
  <2>1. high \in 0..255 /\ low \in 0..255 /\ 256 * high + low = n
    <3> DEFINE m == n \div 256
    <3>1. m \in 0..255 /\ low \in 0..255 /\ n = 256 * m + low
      BY <1>3, SMT
    <3> HIDE DEF m
    <3>2. m % 256 = m
      BY <3>1, SMT
    <3>3. high = m
      BY <3>2, SMT DEF m
    <3> QED BY <3>1, <3>3, SMT
  <2>2. asn1Header(tag, n) = h
    BY <1>3, SMT DEF asn1Header
  <2> HIDE DEF high, low
  <2>3. h \in Seq(Byte) /\ Len(h) = 4 /\ h[1] = tag /\ h[2] = 130
    BY <2>1, SMT
  <2>4. h[3] = high /\ h[4] = low
    BY <2>1, SMT
  <2> HIDE DEF h
  <2> QED BY <1>3, <2>1, <2>2, <2>3, <2>4, SMT DEF HeaderSays
<1> QED BY <1>1, <1>2, <1>3, SMT

(* An element is its header and its body. *)
LEMMA WrapShape ==
    ASSUME NEW tag \in Byte, NEW body \in Seq(Byte), TwoBytes(Len(body))
    PROVE  LET h == asn1Header(tag, Len(body))
               w == asn1Wrap(tag, body)
           IN
           /\ h \in Seq(Byte) /\ Len(h) \in {2, 3, 4}
           /\ w \in Seq(Byte) /\ Len(w) = Len(h) + Len(body)
           /\ \A j \in 1..Len(h) : w[j] = h[j]
           /\ \A j \in 1..Len(body) : w[Len(h) + j] = body[j]
<1> DEFINE h == asn1Header(tag, Len(body))
           w == asn1Wrap(tag, body)
<1>1. HeaderSays(h, tag, Len(body))
  BY HeaderReads
<1>4. w = h \o body
  BY DEF asn1Wrap
<1> HIDE DEF h, w
<1>2. h \in Seq(Byte) /\ Len(h) \in {2, 3, 4}
  BY <1>1, SMT DEF HeaderSays
<1>3. Len(h) \in Nat /\ Len(body) \in Nat
  BY <1>2, LenProperties
<1>5. /\ w \in Seq(Byte) /\ Len(w) = Len(h) + Len(body)
      /\ \A j \in 1..Len(h) + Len(body) :
            w[j] = IF j <= Len(h) THEN h[j] ELSE body[j - Len(h)]
  BY <1>2, <1>4, ConcatProperties
<1>6. ASSUME NEW j \in 1..Len(h) PROVE w[j] = h[j]
  BY <1>3, <1>5, SMT
<1>7. ASSUME NEW j \in 1..Len(body) PROVE w[Len(h) + j] = body[j]
  BY <1>3, <1>5, SMT
<1> QED BY <1>2, <1>5, <1>6, <1>7 DEF h, w

(* The same for what stands between two other sequences. *)
InWord(a, w, b) == (a \o w) \o b

(* The middle one of three strings put together is found at its place. *)
LEMMA Between ==
    ASSUME NEW a \in Seq(Byte), NEW b \in Seq(Byte), NEW w \in Seq(Byte)
    PROVE  LET s == InWord(a, w, b) IN
           /\ s \in Seq(Byte) /\ Len(s) = Len(a) + Len(w) + Len(b)
           /\ \A j \in 1..Len(w) : s[Len(a) + j] = w[j]
<1> DEFINE aw == a \o w
<1>1. Len(a) \in Nat /\ Len(b) \in Nat /\ Len(w) \in Nat
  BY LenProperties
<1>2. /\ aw \in Seq(Byte) /\ Len(aw) = Len(a) + Len(w)
      /\ \A j \in 1..Len(a) + Len(w) :
            aw[j] = IF j <= Len(a) THEN a[j] ELSE w[j - Len(a)]
  BY ConcatProperties
<1> DEFINE s == aw \o b
<1>3. s = InWord(a, w, b)
  BY DEF InWord
<1> HIDE DEF aw
<1>4. /\ s \in Seq(Byte) /\ Len(s) = Len(aw) + Len(b)
      /\ \A j \in 1..Len(aw) + Len(b) :
            s[j] = IF j <= Len(aw) THEN aw[j] ELSE b[j - Len(aw)]
  <2>1. aw \in Seq(Byte)
    BY <1>2
  <2> QED BY <2>1, ConcatProperties
<1> HIDE DEF s
<1>5. ASSUME NEW j \in 1..Len(w) PROVE s[Len(a) + j] = w[j]
  BY <1>1, <1>2, <1>4, SMT
<1> QED BY <1>1, <1>2, <1>3, <1>4, <1>5

(* A reader who comes to an element, whatever is before and after it, finds
   its tag, its end and its body.                                          *)
LEMMA ElementReads ==
    ASSUME NEW a \in Seq(Byte), NEW b \in Seq(Byte),
           NEW tag \in Byte, NEW body \in Seq(Byte), TwoBytes(Len(body))
    PROVE  LET w == asn1Wrap(tag, body)
               s == InWord(a, w, b)
               i == Len(a) + 1
           IN
           /\ s[i] = tag /\ WellFormed(s, i)
           /\ After(s, i) = i + Len(w) /\ Content(s, i) = body
<1> DEFINE n == Len(body)
           h == asn1Header(tag, n)
           w == asn1Wrap(tag, body)
           s == InWord(a, w, b)
           i == Len(a) + 1
<1>1. HeaderSays(h, tag, n)
  BY HeaderReads
<1>2. /\ h \in Seq(Byte) /\ Len(h) \in {2, 3, 4}
      /\ w \in Seq(Byte) /\ Len(w) = Len(h) + n
      /\ \A j \in 1..Len(h) : w[j] = h[j]
      /\ \A j \in 1..n : w[Len(h) + j] = body[j]
  BY WrapShape
<1> HIDE DEF w
<1>3. /\ s \in Seq(Byte) /\ Len(s) = Len(a) + Len(w) + Len(b)
      /\ \A j \in 1..Len(w) : s[Len(a) + j] = w[j]
  BY <1>2, Between
<1>4. n \in Nat /\ Len(a) \in Nat /\ Len(b) \in Nat
  BY LenProperties
<1>15. i = Len(a) + 1 /\ i \in Nat
  BY <1>4, SMT
<1> HIDE DEF h, n, s, i
<1>16. Len(h) \in Nat /\ Len(h) >= 2
  <2>1. Len(h) = 2 \/ Len(h) = 3 \/ Len(h) = 4
    BY <1>2
  <2>2. Len(h) \in Nat
    BY <1>2, LenProperties
  <2> DEFINE l == Len(h)
  <2>3. l \in Nat /\ (l = 2 \/ l = 3 \/ l = 4)
    BY <2>1, <2>2
  <2> HIDE DEF l
  <2>4. l >= 2
    BY <2>3, SMT
  <2> QED BY <2>2, <2>4 DEF l
<1>5. ASSUME NEW j \in 1..Len(h) PROVE s[Len(a) + j] = h[j]
  BY <1>2, <1>3, <1>4, SMT
<1>6. ASSUME NEW j \in 1..n PROVE s[Len(a) + Len(h) + j] = body[j]
  <2>1. Len(h) + j \in 1..Len(w)
    BY <1>2, <1>4, SMT
  <2>2. Len(a) + (Len(h) + j) = Len(a) + Len(h) + j
    BY <1>2, <1>4, SMT
  <2> QED BY <1>2, <1>3, <2>1, <2>2
<1>7. /\ s[i] = h[1] /\ s[i + 1] = h[2]
      /\ Len(h) >= 3 => s[i + 2] = h[3]
      /\ Len(h) = 4 => s[i + 3] = h[4]
  <2>1. \A j \in 1..Len(h) : s[Len(a) + j] = h[j]
    BY <1>5
  <2>2. i + 1 = Len(a) + 2 /\ i + 2 = Len(a) + 3 /\ i + 3 = Len(a) + 4
    BY <1>4, <1>15, SMT
  <2>3. 1 \in 1..Len(h) /\ 2 \in 1..Len(h)
    BY <1>16, SMT
  <2>4. s[i] = h[1] /\ s[i + 1] = h[2]
    BY <1>15, <2>1, <2>2, <2>3
  <2>5. ASSUME Len(h) >= 3 PROVE s[i + 2] = h[3]
    <3>1. 3 \in 1..Len(h)
      BY <1>2, <2>5, SMT
    <3> QED BY <2>1, <2>2, <3>1
  <2>6. ASSUME Len(h) = 4 PROVE s[i + 3] = h[4]
    <3>1. 4 \in 1..Len(h)
      BY <2>6, SMT
    <3> QED BY <2>1, <2>2, <3>1
  <2> QED BY <2>4, <2>5, <2>6
<1>8. HeadLength(s, i) = Len(h) /\ ContentLength(s, i) = n
  <2>1. CASE n < 128 /\ h[2] = n /\ Len(h) = 2
    BY <1>4, <1>7, <2>1, SMT DEF HeadLength, ContentLength
  <2>2. CASE n >= 128 /\ h[2] = 129 /\ Len(h) = 3 /\ h[3] = n
    BY <1>4, <1>7, <2>2, SMT DEF HeadLength, ContentLength
  <2>3. CASE n >= 256 /\ h[2] = 130 /\ Len(h) = 4 /\ 256 * h[3] + h[4] = n
    <3>1. s[i + 1] = 130 /\ 256 * s[i + 2] + s[i + 3] = n
      BY <1>7, <2>3, SMT
    <3> QED BY <2>3, <3>1, SMT DEF HeadLength, ContentLength
  <2> QED BY <1>1, <2>1, <2>2, <2>3, SMT DEF HeaderSays
<1>9. i < Len(s) /\ After(s, i) = i + Len(h) + n
  <2>1. i \in Nat /\ i < Len(s)
    BY <1>2, <1>3, <1>4, <1>15, <1>16, SMT
  <2>2. ~(i >= Len(s))
    BY <1>2, <1>3, <1>4, <2>1, SMT
  <2> QED BY <1>8, <2>1, <2>2 DEF After
<1>10. After(s, i) <= Len(s) + 1 /\ After(s, i) = i + Len(w)
  BY <1>2, <1>3, <1>4, <1>15, <1>9, SMT
<1>11. /\ s[i + 1] <= 130 /\ s[i + 1] # 128
       /\ s[i + 1] = 129 => n >= 128
       /\ s[i + 1] = 130 => n >= 256
  BY <1>1, <1>4, <1>7, SMT DEF HeaderSays
<1>12. WellFormed(s, i)
  BY <1>8, <1>9, <1>10, <1>11, SMT DEF WellFormed
<1>13. Content(s, i) = body
  <2> DEFINE from == i + Len(h)
             to == After(s, i) - 1
             c == SubSeq(s, from, to)
  <2>1. /\ from \in Int /\ to \in Int /\ to - from + 1 = n
        /\ from \in 1..Len(s) + 1 /\ to <= Len(s)
    BY <1>2, <1>3, <1>4, <1>15, <1>9, <1>10, SMT
  <2>2. Content(s, i) = c
    BY <1>8, <1>12 DEF Content
  <2>3. ASSUME NEW j \in 1..n PROVE s[from + j - 1] = body[j]
    <3>1. from + j - 1 = Len(a) + Len(h) + j
      BY <1>2, <1>4, <1>15, SMT
    <3> QED BY <1>6, <3>1
  <2> HIDE DEF from, to
  <2>4. \A j \in from..to : s[j] \in Byte
    <3> SUFFICES ASSUME NEW j \in from..to PROVE s[j] \in Byte
      OBVIOUS
    <3>1. j \in 1..Len(s)
      BY <1>2, <1>3, <1>4, <1>15, <2>1, SMT
    <3> QED BY <1>3, <3>1, ElementOfSeq
  <2>5. /\ c \in Seq(Byte) /\ Len(c) = IF from <= to THEN to - from + 1 ELSE 0
        /\ \A j \in 1..to - from + 1 : c[j] = s[from + j - 1]
    BY <2>1, <2>4, SubSeqProperties
  <2> HIDE DEF c
  <2>6. Len(c) = n
    BY <1>4, <2>1, <2>5, SMT
  <2>7. \A j \in 1..Len(c) : c[j] = body[j]
    BY <2>1, <2>3, <2>5, <2>6
  <2> QED BY <2>2, <2>5, <2>6, <2>7, SeqEqual DEF n
<1>14. s[i] = tag
  BY <1>1, <1>7, SMT DEF HeaderSays
<1> QED BY <1>10, <1>12, <1>13, <1>14 DEF s, w, i

(* An element with nothing before and after it. *)
LEMMA AloneReads ==
    ASSUME NEW tag \in Byte, NEW body \in Seq(Byte), TwoBytes(Len(body))
    PROVE  /\ Only(asn1Wrap(tag, body), tag)
           /\ Content(asn1Wrap(tag, body), 1) = body
<1> DEFINE h == asn1Header(tag, Len(body))
           w == asn1Wrap(tag, body)
           s == InWord(<<>>, w, <<>>)
<1>1. <<>> \in Seq(Byte) /\ Len(<<>>) = 0
  BY EmptySeq
<1>2. w \in Seq(Byte) /\ Len(h) \in {2, 3, 4} /\ Len(w) = Len(h) + Len(body)
  BY WrapShape
<1>3. s = w
  BY <1>2, ConcatEmptySeq DEF InWord
<1> DEFINE i == Len(<<>>) + 1
<1>4. /\ s[i] = tag /\ WellFormed(s, i)
      /\ After(s, i) = i + Len(w) /\ Content(s, i) = body
  BY <1>1, ElementReads
<1>8. i = 1
  BY <1>1, SMT
<1> HIDE DEF s, w, h, i
<1>5. /\ w[1] = tag /\ WellFormed(w, 1)
      /\ After(w, 1) = 1 + Len(w) /\ Content(w, 1) = body
  BY <1>3, <1>4, <1>8
<1>6. Len(w) \in Nat /\ Len(w) # 0
  BY <1>2, LenProperties, SMT
<1>7. w # <<>> /\ 1 + Len(w) = Len(w) + 1
  BY <1>1, <1>6, SMT
<1> QED BY <1>5, <1>7 DEF Only, w
-----------------------------------------------------------------------------
(* The walk stands at the last certificate of the chain, and at the leaf where
   there is none; a request is about the leaf and the chain as they are.   *)
Climbing ==
    /\ step = "parse" => chain = <<>> /\ current = leaf
    /\ step = "walk" =>
          current \in Certs /\ current = IF chain = <<>> THEN leaf ELSE chain[Len(chain)]
    /\ leaf = Garbage => step \in {"parse", "answer"}

Asked ==
    request # <<>> =>
        /\ request = <<leaf, serial, chain[1]>> /\ step \in {"post", "answer"}
        /\ leaf \in Certs /\ chain[1] \in Certs

WalkInv == WalkTypeOK /\ Climbing /\ Asked

(* Appending makes a string that is not empty, with the new entry last. *)
LEMMA AppendLast ==
    ASSUME NEW s \in Seq(Certs \cup {Garbage}), NEW d \in Certs \cup {Garbage}
    PROVE  /\ Append(s, d) # <<>> /\ Len(Append(s, d)) = Len(s) + 1
           /\ Append(s, d)[Len(s) + 1] = d
<1>1. Append(s, d) # <<>>
  BY AppendProperties
<1>2. Len(Append(s, d)) = Len(s) + 1
  BY AppendProperties
<1>3. Append(s, d)[Len(s) + 1] = d
  BY AppendProperties
<1> QED BY <1>1, <1>2, <1>3

(* The walk keeps its place at the end of the chain. (FetchCertChain) *)
LEMMA ClimbingStep ==
    ASSUME WalkTypeOK, Climbing, [Walk]_walkVars
    PROVE  Climbing'
<1> USE AiaAssumption DEF WalkTypeOK, Climbing, Walking, WalkTo
<1>1. CASE ParseLeaf
  BY <1>1 DEF ParseLeaf
<1>2. CASE StopWalk
  BY <1>2 DEF StopWalk
<1>3. CASE FetchFailed
  BY <1>3 DEF FetchFailed
<1>4. CASE FetchIssuer
  <2>1. PICK der \in Certs \cup {Garbage} :
            /\ chain' = Append(chain, der)
            /\ IF der = Garbage
               THEN WalkTo("ocsp") /\ UNCHANGED current
               ELSE WalkTo("walk") /\ current' = der
    BY <1>4 DEF FetchIssuer
  <2>2. chain' # <<>> /\ Len(chain') = Len(chain) + 1 /\ chain'[Len(chain) + 1] = der
    BY <2>1, AppendLast
  <2>3. leaf' # Garbage
    BY <1>4 DEF FetchIssuer
  <2>4. step' = "walk" =>
            current' \in Certs /\ current' = chain'[Len(chain')]
    BY <2>1, <2>2
  <2>5. step' \in {"walk", "ocsp"}
    BY <2>1
  <2> QED BY <2>2, <2>3, <2>4, <2>5
<1>5. CASE AskOcsp
  BY <1>5 DEF AskOcsp
<1>6. CASE PostOcsp
  BY <1>6 DEF PostOcsp
<1>7. CASE UNCHANGED walkVars
  BY <1>7 DEF walkVars
<1> QED BY <1>1, <1>2, <1>3, <1>4, <1>5, <1>6, <1>7 DEF Walk

(* What was asked of the OCSP server names the leaf of the walk. (FetchOCSP) *)
LEMMA AskedStep ==
    ASSUME WalkTypeOK, Climbing, Asked, [Walk]_walkVars
    PROVE  Asked'
<1>1. CASE AskOcsp
  <2>1. CASE leaf \in HasOcspUrl /\ chain # <<>> /\ chain[1] # Garbage
    <3>1. chain[1] \in Certs
      BY <2>1, ElementOfSeq, EmptySeq, LenProperties DEF WalkTypeOK
    <3>2. leaf \in Certs
      BY <2>1, AiaAssumption
    <3>3. request' = <<leaf, serial, chain[1]>> /\ step' = "post"
      BY <1>1, <2>1 DEF AskOcsp, WalkTo
    <3>4. UNCHANGED <<leaf, serial, chain>>
      BY <1>1 DEF AskOcsp
    <3> QED BY <3>1, <3>2, <3>3, <3>4 DEF Asked
  <2>2. CASE ~(leaf \in HasOcspUrl /\ chain # <<>> /\ chain[1] # Garbage)
    BY <1>1, <2>2 DEF AskOcsp, WalkTo, Asked
  <2> QED BY <2>1, <2>2
<1>2. CASE PostOcsp
  BY <1>2 DEF PostOcsp, WalkTo, Asked
<1>3. CASE step \in {"parse", "walk"} /\ UNCHANGED request
  BY <1>3 DEF Asked
<1>4. CASE StopWalk \/ FetchFailed \/ ParseLeaf \/ FetchIssuer
  BY <1>3, <1>4 DEF ParseLeaf, StopWalk, FetchFailed, FetchIssuer, Walking
<1>5. CASE UNCHANGED walkVars
  BY <1>5 DEF walkVars, Asked
<1> QED BY <1>1, <1>2, <1>4, <1>5 DEF Walk

(* The invariant of the walk holds in every behaviour. (FetchCertChain) *)
LEMMA WalkInvariant == WalkSpec => []WalkInv
<1>1. ASSUME WalkInit PROVE WalkInv
  <2>1. WalkTypeOK
    <3>1. chain \in Seq(Certs \cup {Garbage}) /\ Len(chain) = 0
      BY <1>1, EmptySeq DEF WalkInit
    <3>2. 0 <= MaxLevels
      BY AiaAssumption
    <3> QED BY <1>1, <3>1, <3>2 DEF WalkInit, WalkTypeOK
  <2>2. Climbing /\ Asked
    BY <1>1 DEF WalkInit, Climbing, Asked
  <2> QED BY <2>1, <2>2 DEF WalkInv
<1>2. WalkInv /\ [Walk]_walkVars => WalkInv'
  BY WalkTypeStep, ClimbingStep, AskedStep DEF WalkInv
<1> QED BY <1>1, <1>2, PTL DEF WalkSpec

-----------------------------------------------------------------------------
(* What an element adds to its body. *)
LEMMA WrapSize ==
    ASSUME NEW tag \in Byte, NEW body \in Seq(Byte), TwoBytes(Len(body))
    PROVE  /\ asn1Wrap(tag, body) \in Seq(Byte)
           /\ Len(asn1Wrap(tag, body)) \in Nat
           /\ Len(asn1Wrap(tag, body)) <= Len(body) + 4
<1> DEFINE h == asn1Header(tag, Len(body))
           w == asn1Wrap(tag, body)
<1>1. /\ h \in Seq(Byte) /\ Len(h) \in {2, 3, 4}
      /\ w \in Seq(Byte) /\ Len(w) = Len(h) + Len(body)
  BY WrapShape
<1>2. Len(h) = 2 \/ Len(h) = 3 \/ Len(h) = 4
  BY <1>1
<1>3. Len(w) \in Nat /\ Len(body) \in Nat
  BY <1>1, LenProperties
<1> HIDE DEF h, w
<1>4. Len(w) <= Len(body) + 4
  <2> DEFINE l == Len(h)
             n == Len(body)
             m == Len(w)
  <2>1. (l = 2 \/ l = 3 \/ l = 4) /\ m = l + n /\ n \in Nat
    BY <1>1, <1>2, <1>3
  <2> HIDE DEF l, n, m
  <2>2. m <= n + 4
    BY <2>1, SMT
  <2> QED BY <2>2 DEF m, n
<1> QED BY <1>1, <1>3, <1>4 DEF w

(* What RequestNamesLeaf says, of any certificate, number and issuer. *)
RequestReads(cert, serialNumber, issuer) ==
    LET der == buildOCSPRequest(cert, serialNumber, issuer)
        tbs == Content(der, 1)
        list == Content(tbs, 1)
        entry == Content(list, 1)
        certID == Content(entry, 1)
        fields == Content(certID, 1)
        name == After(fields, 1)
        key == After(fields, name)
        number == After(fields, key)
        bytes == Content(fields, number)
    IN /\ \A s \in {der, tbs, list, entry, certID} : Only(s, 48)
       /\ \A i \in {1, name, key, number} : WellFormed(fields, i)
       /\ fields[name] = 4 /\ Content(fields, name) = NameHash[cert]
       /\ fields[key] = 4 /\ Content(fields, key) = SpkiHash[issuer]
       /\ fields[number] = 2 /\ After(fields, number) = Len(fields) + 1
       /\ IF serialNumber = <<>> THEN bytes = <<>>
          ELSE /\ bytes[1] < 128
               /\ bytes = IF serialNumber[1] < 128 THEN serialNumber
                          ELSE <<0>> \o serialNumber

(* Sizes: both hashes are SHA-1, and a serial number is far below 64 KB. *)
Sizes ==
    /\ \A c \in Certs : Len(NameHash[c]) = 20 /\ Len(SpkiHash[c]) = 20
    /\ \A n \in Serials : Len(n) <= 65000

(* Concatenation of bytes is associative. *)
LEMMA BytesAssociative ==
    ASSUME NEW x \in Seq(Byte), NEW y \in Seq(Byte), NEW z \in Seq(Byte)
    PROVE  (x \o y) \o z = x \o (y \o z)
  BY ConcatAssociative

(* Four elements, one after the other, as a CertID has them: of all but the
   first, the tag and the body are read.                                   *)
FourRead(s, t2, b2, t3, b3, t4, b4) ==
    LET i2 == After(s, 1)
        i3 == After(s, i2)
        i4 == After(s, i3)
    IN /\ \A i \in {1, i2, i3, i4} : WellFormed(s, i)
       /\ s[i2] = t2 /\ Content(s, i2) = b2
       /\ s[i3] = t3 /\ Content(s, i3) = b3
       /\ s[i4] = t4 /\ Content(s, i4) = b4
       /\ After(s, i4) = Len(s) + 1

(* Four elements in a row are read one after the other. (buildOCSPRequest) *)
LEMMA FourElements ==
    ASSUME NEW t1 \in Byte, NEW b1 \in Seq(Byte), TwoBytes(Len(b1)),
           NEW t2 \in Byte, NEW b2 \in Seq(Byte), TwoBytes(Len(b2)),
           NEW t3 \in Byte, NEW b3 \in Seq(Byte), TwoBytes(Len(b3)),
           NEW t4 \in Byte, NEW b4 \in Seq(Byte), TwoBytes(Len(b4))
    PROVE  FourRead(asn1Wrap(t1, b1) \o asn1Wrap(t2, b2)
                    \o asn1Wrap(t3, b3) \o asn1Wrap(t4, b4),
                    t2, b2, t3, b3, t4, b4)
<1> DEFINE w1 == asn1Wrap(t1, b1)
           w2 == asn1Wrap(t2, b2)
           w3 == asn1Wrap(t3, b3)
           w4 == asn1Wrap(t4, b4)
           s == w1 \o w2 \o w3 \o w4
           e == <<>>
<1>1. /\ w1 \in Seq(Byte) /\ w2 \in Seq(Byte) /\ w3 \in Seq(Byte) /\ w4 \in Seq(Byte)
      /\ Len(w1) \in Nat /\ Len(w2) \in Nat /\ Len(w3) \in Nat /\ Len(w4) \in Nat
  BY WrapSize
<1>2. e \in Seq(Byte) /\ Len(e) = 0
  BY EmptySeq
<1>r1. \A a, b \in Seq(Byte) :
         LET x == InWord(a, w1, b)
             i == Len(a) + 1
         IN WellFormed(x, i) /\ After(x, i) = i + Len(w1)
  BY ElementReads
<1>r2. \A a, b \in Seq(Byte) :
         LET x == InWord(a, w2, b)
             i == Len(a) + 1
         IN /\ x[i] = t2 /\ WellFormed(x, i)
            /\ After(x, i) = i + Len(w2) /\ Content(x, i) = b2
  BY ElementReads
<1>r3. \A a, b \in Seq(Byte) :
         LET x == InWord(a, w3, b)
             i == Len(a) + 1
         IN /\ x[i] = t3 /\ WellFormed(x, i)
            /\ After(x, i) = i + Len(w3) /\ Content(x, i) = b3
  BY ElementReads
<1>r4. \A a, b \in Seq(Byte) :
         LET x == InWord(a, w4, b)
             i == Len(a) + 1
         IN /\ x[i] = t4 /\ WellFormed(x, i)
            /\ After(x, i) = i + Len(w4) /\ Content(x, i) = b4
  BY ElementReads
<1> HIDE DEF w1, w2, w3, w4, e
<1>3. w1 \o w2 \in Seq(Byte) /\ Len(w1 \o w2) = Len(w1) + Len(w2)
  BY <1>1, ConcatProperties
<1>4. /\ w1 \o w2 \o w3 \in Seq(Byte)
      /\ Len(w1 \o w2 \o w3) = Len(w1) + Len(w2) + Len(w3)
  BY <1>1, <1>3, ConcatProperties
<1>5. s \in Seq(Byte) /\ Len(s) = Len(w1) + Len(w2) + Len(w3) + Len(w4)
  BY <1>1, <1>4, ConcatProperties
<1>6. w3 \o w4 \in Seq(Byte) /\ w2 \o (w3 \o w4) \in Seq(Byte)
  BY <1>1, ConcatProperties
<1>7. s = InWord(w1 \o w2 \o w3, w4, e)
  BY <1>2, <1>5, ConcatEmptySeq DEF InWord, e
<1>8. s = InWord(w1 \o w2, w3, w4)
  BY DEF InWord
<1>9. s = InWord(w1, w2, w3 \o w4)
  <2> DEFINE u == w1 \o w2
  <2>1. u \in Seq(Byte)
    BY <1>3
  <2> HIDE DEF u
  <2>2. (u \o w3) \o w4 = u \o (w3 \o w4)
    BY <1>1, <2>1, BytesAssociative
  <2> QED BY <2>2 DEF InWord, u
<1>10. s = InWord(e, w1, w2 \o (w3 \o w4))
  <2>1. w1 \o (w2 \o (w3 \o w4)) = (w1 \o w2) \o (w3 \o w4)
    <3> DEFINE v == w3 \o w4
    <3>1. v \in Seq(Byte)
      BY <1>6
    <3> HIDE DEF v
    <3>2. \A z \in Seq(Byte) : (w1 \o w2) \o z = w1 \o (w2 \o z)
      BY <1>1, BytesAssociative
    <3>3. (w1 \o w2) \o v = w1 \o (w2 \o v)
      BY <3>1, <3>2
    <3> QED BY <3>3 DEF v
  <2>2. e \o w1 = w1
    BY <1>1, ConcatEmptySeq DEF e
  <2> QED BY <1>9, <2>1, <2>2 DEF InWord
<1> HIDE DEF s
<1> DEFINE i1 == Len(e) + 1
           i2 == Len(w1) + 1
           i3 == Len(w1 \o w2) + 1
           i4 == Len(w1 \o w2 \o w3) + 1
<1>11. WellFormed(s, i1) /\ After(s, i1) = i1 + Len(w1)
  BY <1>r1, <1>2, <1>6, <1>10
<1>12. /\ s[i2] = t2 /\ WellFormed(s, i2)
       /\ After(s, i2) = i2 + Len(w2) /\ Content(s, i2) = b2
  BY <1>r2, <1>1, <1>6, <1>9
<1>13. /\ s[i3] = t3 /\ WellFormed(s, i3)
       /\ After(s, i3) = i3 + Len(w3) /\ Content(s, i3) = b3
  BY <1>r3, <1>1, <1>3, <1>8
<1>14. /\ s[i4] = t4 /\ WellFormed(s, i4)
       /\ After(s, i4) = i4 + Len(w4) /\ Content(s, i4) = b4
  BY <1>r4, <1>2, <1>4, <1>7
<1>15. /\ i1 = 1 /\ i1 + Len(w1) = i2 /\ i2 + Len(w2) = i3 /\ i3 + Len(w3) = i4
       /\ i4 + Len(w4) = Len(s) + 1
  BY <1>1, <1>2, <1>3, <1>4, <1>5, SMT
<1> HIDE DEF i1, i2, i3, i4
<1>16. After(s, 1) = i2 /\ After(s, i2) = i3 /\ After(s, i3) = i4
  BY <1>11, <1>12, <1>13, <1>15
<1> QED BY <1>11, <1>12, <1>13, <1>14, <1>15, <1>16
    DEF FourRead, s, w1, w2, w3, w4

(* One layer of SEQUENCE around a body, as SHA-1 and serial sizes allow. *)
LEMMA LayerReads ==
    ASSUME NEW body \in Seq(Byte), NEW m \in Nat, Len(body) <= m, m < 65536
    PROVE  /\ asn1Sequence(body) \in Seq(Byte)
           /\ Len(asn1Sequence(body)) <= m + 4
           /\ Only(asn1Sequence(body), 48)
           /\ Content(asn1Sequence(body), 1) = body
<1>1. Len(body) \in Nat
  BY LenProperties
<1>2. TwoBytes(Len(body)) /\ 48 \in Byte
  BY <1>1, SMT DEF TwoBytes, Byte
<1> DEFINE w == asn1Wrap(48, body)
<1>3. w \in Seq(Byte) /\ Len(w) \in Nat /\ Len(w) <= Len(body) + 4
  BY <1>2, WrapSize
<1>4. Only(w, 48) /\ Content(w, 1) = body
  BY <1>2, AloneReads
<1> HIDE DEF w
<1>5. Len(w) <= m + 4
  BY <1>1, <1>3, SMT
<1> QED BY <1>3, <1>4, <1>5 DEF asn1Sequence, w

(* A byte has its highest bit set or not. *)
LEMMA Halves ==
    ASSUME NEW x \in Byte PROVE x < 128 <=> ~(x >= 128)
<1>1. x \in Int
  BY SMT DEF Byte
<1> QED BY <1>1, SMT

(* The parts of a CertID are bytes, and few. *)
LEMMA PartsAreBytes ==
    ASSUME Sizes, NEW cert \in Certs, NEW issuer \in Certs,
           NEW number \in Serials
    PROVE  LET alg == sha1OID \o asn1Null
               int == IF number # <<>> /\ number[1] >= 128
                      THEN <<0>> \o number ELSE number
           IN /\ alg \in Seq(Byte) /\ Len(alg) = 9
              /\ NameHash[cert] \in Seq(Byte) /\ Len(NameHash[cert]) = 20
              /\ SpkiHash[issuer] \in Seq(Byte) /\ Len(SpkiHash[issuer]) = 20
              /\ int \in Seq(Byte) /\ Len(int) <= 65001
              /\ number = <<>> => int = <<>>
              /\ number # <<>> =>
                   /\ int[1] < 128
                   /\ int = IF number[1] < 128 THEN number ELSE <<0>> \o number
<1> DEFINE alg == sha1OID \o asn1Null
           zero == <<0>> \o number
           int == IF number # <<>> /\ number[1] >= 128
                  THEN zero ELSE number
<1>1. alg \in Seq(Byte) /\ Len(alg) = 9
  <2>1. sha1OID \in Seq(Byte) /\ Len(sha1OID) = 7
    BY SMT DEF sha1OID, Byte
  <2>2. asn1Null \in Seq(Byte) /\ Len(asn1Null) = 2
    BY SMT DEF asn1Null, Byte
  <2> DEFINE o == sha1OID
             z == asn1Null
  <2> HIDE DEF o, z
  <2>3. o \o z \in Seq(Byte) /\ Len(o \o z) = Len(o) + Len(z)
    BY <2>1, <2>2, ConcatProperties DEF o, z
  <2> QED BY <2>1, <2>2, <2>3, SMT DEF o, z
<1>2. /\ NameHash[cert] \in Seq(Byte) /\ Len(NameHash[cert]) = 20
      /\ SpkiHash[issuer] \in Seq(Byte) /\ Len(SpkiHash[issuer]) = 20
  BY AiaAssumption DEF Sizes
<1>3. number \in Seq(Byte)
  BY AiaAssumption
<1>9. Len(number) <= 65000
  BY SMT DEF Sizes
<1>10. CASE number = <<>>
  <2>1. int = number /\ Len(number) <= 65001
    BY <1>9, <1>10, SMT
  <2> QED BY <1>1, <1>2, <1>3, <1>10, <2>1
<1>11. SUFFICES ASSUME number # <<>>
       PROVE  /\ int \in Seq(Byte) /\ Len(int) <= 65001 /\ int[1] < 128
              /\ int = IF number[1] < 128 THEN number ELSE zero
  BY <1>1, <1>2, <1>10
<1>4. Len(number) \in Nat \ {0}
  BY <1>3, <1>11, EmptySeq
<1>5. number[1] \in Byte
  <2>1. 1 \in 1..Len(number)
    BY <1>4, SMT
  <2> QED BY <1>3, <2>1, ElementOfSeq
<1>6. zero \in Seq(Byte) /\ Len(zero) = 1 + Len(number) /\ zero[1] = 0
  <2> DEFINE o == <<0>>
  <2>1. o \in Seq(Byte) /\ Len(o) = 1 /\ o[1] = 0
    BY SMT DEF Byte
  <2> HIDE DEF o
  <2>2. /\ o \o number \in Seq(Byte) /\ Len(o \o number) = Len(o) + Len(number)
        /\ \A i \in 1..Len(o) + Len(number) :
              (o \o number)[i] = IF i <= Len(o) THEN o[i] ELSE number[i - Len(o)]
    BY <1>3, <2>1, ConcatProperties
  <2> DEFINE z == o \o number
  <2> HIDE DEF z
  <2>3. z \in Seq(Byte) /\ Len(z) = 1 + Len(number)
    BY <2>1, <2>2 DEF z
  <2>4. 1 \in 1..Len(o) + Len(number)
    BY <1>4, <2>1, SMT
  <2>5. z[1] = 0
    BY <2>1, <2>2, <2>4, SMT DEF z
  <2> QED BY <2>3, <2>5 DEF o, z
<1> HIDE DEF zero
<1>7. CASE number[1] >= 128
  <2>1. int = zero
    BY <1>7, <1>11
  <2>2. Len(zero) <= 65001 /\ zero[1] < 128
    BY <1>4, <1>6, <1>9, SMT
  <2>3. ~(number[1] < 128)
    BY <1>5, <1>7, Halves
  <2> HIDE DEF int
  <2> QED BY <1>6, <2>1, <2>2, <2>3
<1>8. CASE ~(number[1] >= 128)
  <2>1. int = number
    BY <1>8
  <2>2. number[1] < 128
    BY <1>5, <1>8, Halves
  <2>3. Len(number) <= 65001
    BY <1>4, <1>9, SMT
  <2> HIDE DEF int
  <2> QED BY <1>3, <2>1, <2>2, <2>3
<1> QED BY <1>7, <1>8

(* A reader of the request finds what was put into it. *)
LEMMA RequestIsRead ==
    ASSUME Sizes, NEW cert \in Certs, NEW issuer \in Certs,
           NEW n \in Serials
    PROVE  RequestReads(cert, n, issuer)
<1> DEFINE alg == sha1OID \o asn1Null
           int == IF n # <<>> /\ n[1] >= 128 THEN <<0>> \o n ELSE n
           name == NameHash[cert]
           key == SpkiHash[issuer]
           fields == asn1Wrap(48, alg) \o asn1Wrap(4, name)
                     \o asn1Wrap(4, key) \o asn1Wrap(2, int)
<1>s. Len(alg) = 9 /\ Len(name) = 20 /\ Len(key) = 20 /\ Len(int) <= 65001
  BY PartsAreBytes, SMT
<1>1. /\ alg \in Seq(Byte) /\ name \in Seq(Byte)
      /\ key \in Seq(Byte) /\ int \in Seq(Byte)
  BY PartsAreBytes, SMT
<1>i. IF n = <<>> THEN int = <<>>
      ELSE int[1] < 128 /\ int = IF n[1] < 128 THEN n ELSE <<0>> \o n
  BY PartsAreBytes, SMT
<1>2. buildOCSPRequest(cert, n, issuer)
          = asn1Sequence(asn1Sequence(asn1Sequence(asn1Sequence(asn1Sequence(fields)))))
  BY DEF buildOCSPRequest, asn1OctetString, asn1Integer, asn1Sequence
<1> HIDE DEF alg, int, name, key
<1>3. /\ TwoBytes(Len(alg)) /\ TwoBytes(Len(name)) /\ TwoBytes(Len(key))
      /\ TwoBytes(Len(int)) /\ 48 \in Byte /\ 4 \in Byte /\ 2 \in Byte
  <2>1. Len(int) \in Nat
    BY <1>1, LenProperties
  <2> QED BY <1>s, <2>1, SMT DEF TwoBytes, Byte
<1> DEFINE i2 == After(fields, 1)
           i3 == After(fields, i2)
           i4 == After(fields, i3)
<1>4. /\ \A i \in {1, i2, i3, i4} : WellFormed(fields, i)
      /\ fields[i2] = 4 /\ Content(fields, i2) = name
      /\ fields[i3] = 4 /\ Content(fields, i3) = key
      /\ fields[i4] = 2 /\ Content(fields, i4) = int
      /\ After(fields, i4) = Len(fields) + 1
  <2>1. FourRead(fields, 4, name, 4, key, 2, int)
    BY <1>1, <1>3, FourElements
  <2> HIDE DEF fields
  <2> QED BY <2>1 DEF FourRead
<1>f. fields \in Seq(Byte) /\ Len(fields) <= 65066
  <2> DEFINE w1 == asn1Wrap(48, alg)
             w2 == asn1Wrap(4, name)
             w3 == asn1Wrap(4, key)
             w4 == asn1Wrap(2, int)
  <2>1. /\ w1 \in Seq(Byte) /\ Len(w1) \in Nat /\ Len(w1) <= Len(alg) + 4
        /\ w2 \in Seq(Byte) /\ Len(w2) \in Nat /\ Len(w2) <= Len(name) + 4
        /\ w3 \in Seq(Byte) /\ Len(w3) \in Nat /\ Len(w3) <= Len(key) + 4
        /\ w4 \in Seq(Byte) /\ Len(w4) \in Nat /\ Len(w4) <= Len(int) + 4
    BY <1>1, <1>3, WrapSize
  <2> HIDE DEF w1, w2, w3, w4
  <2>2. w1 \o w2 \in Seq(Byte) /\ Len(w1 \o w2) = Len(w1) + Len(w2)
    BY <2>1, ConcatProperties
  <2>3. /\ w1 \o w2 \o w3 \in Seq(Byte)
        /\ Len(w1 \o w2 \o w3) = Len(w1) + Len(w2) + Len(w3)
    BY <2>1, <2>2, ConcatProperties
  <2>4. /\ w1 \o w2 \o w3 \o w4 \in Seq(Byte)
        /\ Len(w1 \o w2 \o w3 \o w4) = Len(w1) + Len(w2) + Len(w3) + Len(w4)
    BY <2>1, <2>3, ConcatProperties
  <2> DEFINE f == w1 \o w2 \o w3 \o w4
  <2> HIDE DEF f
  <2>5. Len(f) = Len(w1) + Len(w2) + Len(w3) + Len(w4) /\ Len(int) \in Nat
    BY <1>1, <2>4, LenProperties DEF f
  <2>6. Len(f) <= 65066
    BY <1>s, <2>1, <2>5, SMT
  <2> QED BY <2>4, <2>6 DEF f, w1, w2, w3, w4
<1>5. fields \in Seq(Byte)
  BY <1>f, SMT
<1> HIDE DEF fields
<1> DEFINE certID == asn1Sequence(fields)
           entry == asn1Sequence(certID)
           list == asn1Sequence(entry)
           tbs == asn1Sequence(list)
           der == asn1Sequence(tbs)
<1>6. certID \in Seq(Byte) /\ Only(certID, 48) /\ Content(certID, 1) = fields
  BY <1>5, <1>f, LayerReads, SMT
<1>e. Len(certID) <= 65070
  BY <1>5, <1>f, LayerReads, SMT
<1> HIDE DEF certID
<1>7. entry \in Seq(Byte) /\ Only(entry, 48) /\ Content(entry, 1) = certID
  BY <1>6, <1>e, LayerReads, SMT
<1>d. Len(entry) <= 65074
  BY <1>6, <1>e, LayerReads, SMT
<1> HIDE DEF entry
<1>8. list \in Seq(Byte) /\ Only(list, 48) /\ Content(list, 1) = entry
  BY <1>7, <1>d, LayerReads, SMT
<1>c. Len(list) <= 65078
  BY <1>7, <1>d, LayerReads, SMT
<1> HIDE DEF list
<1>9. tbs \in Seq(Byte) /\ Only(tbs, 48) /\ Content(tbs, 1) = list
  BY <1>8, <1>c, LayerReads, SMT
<1>b. Len(tbs) <= 65082
  BY <1>8, <1>c, LayerReads, SMT
<1> HIDE DEF tbs
<1>10. Only(der, 48) /\ Content(der, 1) = tbs
  BY <1>9, <1>b, LayerReads, SMT
<1>11. buildOCSPRequest(cert, n, issuer) = der
  BY <1>2 DEF certID, entry, list, tbs
<1> HIDE DEF der
<1> QED
  BY <1>i, <1>4, <1>6, <1>7, <1>8, <1>9, <1>10, <1>11
  DEF RequestReads, name, key

(* A reader finds in an OCSP request what the code means to put there, for any
   20 bytes as the hashes of the issuer's name and SubjectPublicKeyInfo and
   for any serial number of up to 65000 bytes, zero included. (asn1Wrap)   *)
THEOREM RequestAlwaysNamesLeaf ==
    ASSUME Sizes PROVE WalkSpec => []RequestNamesLeaf
<1>1. ASSUME WalkInv PROVE RequestNamesLeaf
  <2>1. ASSUME request # <<>>
        PROVE  RequestReads(leaf, serial, chain[1])
    <3>1. leaf \in Certs /\ chain[1] \in Certs /\ serial \in Serials
      BY <1>1, <2>1 DEF WalkInv, WalkTypeOK, Asked
    <3> QED BY <2>1, <3>1, RequestIsRead
  <2>2. request # <<>> => request = <<leaf, serial, chain[1]>>
    BY <1>1 DEF WalkInv, Asked
  <2>3. request # <<>> =>
            request[1] = leaf /\ request[2] = serial /\ request[3] = chain[1]
    BY <2>2
  <2> QED BY <2>1, <2>3 DEF RequestNamesLeaf, RequestReads
<1> QED BY <1>1, WalkInvariant, PTL
=============================================================================

---------------------------- MODULE MCBridgeSign ----------------------------
(* Small instances of BridgeSign: the token placements and contents of each
   run.                                                                    *)
EXTENDS BridgeSign, TLC

CONSTANTS r1, r2, s1, t1, t2, c1, c2, p1, p2

(* One reader in which two tokens take turns. *)
SharedReader   == s1 :> {t1, t2}
OneReader      == s1 :> {t1}
OneCertEach    == (t1 :> {c1}) @@ (t2 :> {c2})
OwnKey         == (t1 :> c1) @@ (t2 :> c2)
(* One token that carries two certificates, c1's objects first. *)
OneToken       == t1 :> {c1}
OneTokenKey    == t1 :> c1
TwoCertToken   == t1 :> {c1, c2}

(* A token without a private key, only a certificate. *)
SecondHasNoKey == (t1 :> c1) @@ (t2 :> None)

Interchangeable == Permutations(Requests) \cup Permutations(PINs)
=============================================================================

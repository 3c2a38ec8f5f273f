---------------------------- MODULE SignedObjects ----------------------------
(***************************************************************************)
(* What every verifier of the SDK knows about a signed object (cose.py):   *)
(* it carries an algorithm and a signature, made with some key, over a     *)
(* body.  Signatures are sound: the model keeps the key that really made   *)
(* one, and a signature verifies under that key and no other.              *)
(***************************************************************************)
EXTENDS Integers

ALG == [mldsa65 |-> -49, mldsa87 |-> -50, ed25519 |-> -19]
PROFILE == [public |-> 1, enterprise |-> 2, sovereign |-> 3]

Registered == {ALG.mldsa65, ALG.mldsa87, ALG.ed25519}

\* Ed25519 is a classical leg and has level 0.
AlgLevel(alg) == CASE alg = ALG.mldsa87 -> 5 [] alg = ALG.mldsa65 -> 3 [] OTHER -> 0

ProfileMinLevel(profile) == IF profile = PROFILE.sovereign THEN 5 ELSE 3

\* A key is [alg, id]; an object is [alg, key, body], key being the one that signed it.
SignedBy(key, body) == [alg |-> key.alg, key |-> key, body |-> body]

\* The four checks of every verifier, in their order; any other failure comes later.
VerifySign1(o, profile, key) ==
  IF o.alg \notin Registered                            THEN "UnknownAlg"
  ELSE IF AlgLevel(o.alg) < ProfileMinLevel(profile)    THEN "ProfileDowngrade"
  ELSE IF o.alg # key.alg                               THEN "KeyAlgMismatch"
  ELSE IF o.key # key                                   THEN "BadSignature"
  ELSE "ok"
==============================================================================

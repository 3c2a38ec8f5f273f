-------------------------- MODULE MCAuthorization ----------------------------
(***************************************************************************)
(* What decides whether an action may be taken: the approval interceptor,  *)
(* delegation with payments and MCP tools, hazard envelopes, and admission *)
(* at the point of use.  The parts share no state, so a behaviour belongs  *)
(* to one of them and the others stay where they began.                    *)
(*                                                                         *)
(* Bounds.  Two workers with three calls, one crash and one clock step in  *)
(* either direction; chains of three grants (one more than the root may    *)
(* delegate) with one revocation; boxes of up to two axes on a grid of     *)
(* three; three uses by two users, three keys with honest, back-dated and  *)
(* foreign rotations.                                                      *)
(***************************************************************************)
EXTENDS HitlInterceptor, Authority, Claims, Admission, TLC

VARIABLE part

authorizationvars == <<part, hitlvars, authvars, claimvars, admvars>>

------------------------------------------------------------------------------
(* The interceptor: approvals that are good, short-lived, too small, for     *)
(* another audience, not signed, and for another action.                     *)
CONSTANTS w1, w2, wipe, peek, good, brief, small, foreign, fake, other

Effects == wipe :> 3 @@ peek :> 0

Issued(a, g, u, t, s) ==
  [approves |-> a, grant |-> g, audience |-> u, not_after |-> t, signed |-> s]

Circulating ==
  good :> Issued(wipe, 3, "here", 1, TRUE)
    @@ brief :> Issued(wipe, 3, "", 0, TRUE)
    @@ small :> Issued(wipe, 1, "here", 2, TRUE)
    @@ foreign :> Issued(wipe, 3, "elsewhere", 2, TRUE)
    @@ fake :> Issued(wipe, 3, "here", 2, FALSE)
    @@ other :> Issued(peek, 3, "here", 2, TRUE)

------------------------------------------------------------------------------
(* Delegation *)

MCBody(subject, cap, depth, from, to, scope) == [k \in 1..6 |-> <<subject, cap, depth, from, to, scope>>[k]]
MCBodies ==
  {MCBody("a", 3, 1, 0, 0, << >>), MCBody("a", 3, 1, 0, 1, <<"x">>),
   MCBody("b", 3, 0, 0, 1, <<"x", "y">>), MCBody("b", 3, 1, 0, 1, <<"x">>),
   [k \in 1..5 |-> <<"b", 2, 0, 1, 1>>[k]], MCBody("a", 4, 1, 0, 1, << >>)}
MCActions == [signer : {"a", "b"}, effect : {2, 3}, scope : {<<"x", "y">>, <<"x", "z">>}]
MCCharges == [format : {1, 4}, amount : {5, 6}]
MCDef(name, ann) == [name |-> name, annotations |-> ann]
MCToolDefs ==
  {MCDef("t", << >>), MCDef("t", [k \in {1} |-> TRUE]), MCDef("t", [k \in {2, 3} |-> k = 3]), MCDef("t", [k \in {2} |-> FALSE]),
   MCDef("u", [k \in {1, 2} |-> k = 2]), MCDef("u", [k \in {4} |-> FALSE])}
MCApprovals ==
  {[approves |-> w, grant |-> g, not_after |-> t, nonce |-> n] :
     w \in {[signer |-> "a", effect |-> 3, scope |-> <<"x", "y">>], [format |-> 1, amount |-> 5],
            [tool_id |-> MCDef("t", << >>), args_id |-> "args"]},
     g \in {1, 7}, t \in {0, 1}, n \in {1}}

------------------------------------------------------------------------------
(* Hazard envelopes *)

MCCoords == -1..1
MCPeers == {[alg |-> ALG.mldsa65, id |-> "p"], [alg |-> ALG.mldsa87, id |-> "q"], [alg |-> ALG.ed25519, id |-> "r"]}
MCIntervals == {<<-1, 1>>, <<0, 1>>, <<0, 0>>, <<1, 0>>}
MCWire(class, frame, axes, speed, from, to) ==
  [k \in 1..2 |-> <<class, [j \in 1..3 |-> <<[i \in 1..2 |-> <<frame, axes>>[i]], speed, [i \in 1..2 |-> <<from, to>>[i]]>>[j]]>>[k]]
MCAxes == {<< >>} \cup {<<a>> : a \in MCIntervals} \cup {<<a, b>> : a, b \in MCIntervals}
MCGrantWire == {MCWire(c, "f", ax, 0, from, to) : c \in {1, 4}, ax \in MCAxes, from \in {-1, 0}, to \in {0, 1}}
MCClaimWire ==
  {MCWire(c, f, ax, s, from, to) : c \in {1, 4, 9}, f \in {"f", "g"}, ax \in MCAxes, s \in {0, 1}, from, to \in {-1, 1}}
  \cup {[k \in 1..2 |-> Bad], MCWire(1, "", <<<<0, 0>>>>, 0, 0, 0), MCWire(1, "nfd", <<<<0, 0>>>>, 0, 0, 0)}

------------------------------------------------------------------------------
(* Admission *)

Approval(i, x, g, t, aud, ok) == [id |-> i, approves |-> x, grant |-> g, not_after |-> t, audience |-> aud, signed |-> ok]
MCUseApprovals == {Approval(1, "a", 3, 1, "here", TRUE), Approval(2, "a", 2, 2, "", TRUE), Approval(3, "b", 4, 2, "", TRUE),
                   Approval(4, "a", 3, 2, "there", TRUE), Approval(5, "a", 3, 2, "", FALSE)}
MCUseActions == {[args |-> "a", effect |-> 3], [args |-> "a", effect |-> 2], [args |-> "b", effect |-> 0]}

MCKeys == 1..3
\* Two honest rotations, one back-dated copy with only the new leg, one signed by a stranger.
MCRotations == {[from |-> 1, to |-> 2, legs |-> <<1, 2>>], [from |-> 2, to |-> 3, legs |-> <<2, 3>>],
                [from |-> 1, to |-> 3, legs |-> <<3>>], [from |-> 3, to |-> 1, legs |-> <<9, 1>>]}

MCRequests ==
  [form : {"strict"}, verifies : BOOLEAN, effect_registered : BOOLEAN, signer : {"s"}, verified_by : {"s", "t"},
   grant : [principal : {"s", "none"}, max_effect : {1, 3}], effect : {0, 3}, consume_once : BOOLEAN,
   audience : {"", "here", "there"}]
  \cup [form : {"legacy"}, json : {"object", "array", "garbage"}, effect : {0, 2, 7}, consume_once : BOOLEAN,
        names : {"both", "channel", "none"}, grant : {[principal |-> "none", max_effect |-> 0]}]

Ref(s, o, q, i) == [signer |-> s, oracle |-> o, seq |-> q, input |-> i]
MCAssertions ==
  [basis : 0..4, value : {7, 8}, ref : {Ref("k", "registered", 0, 7), Ref("k", "unknown", 1, 8), Ref("m", "registered", 1, 7)}]
Rcpt(s, o, p, k) == [seq |-> s, obj |-> o, prev |-> p, by |-> k]
MCEvidences ==
  [form : {"signature"}, key : {"k", "m"}, bytes : {7, 8}, sig : {<<"k", 7>>, <<"k", 8>>, <<"m", 8>>}]
  \cup [form : {"oracle", "input"}, bytes : {7, 8}]
  \cup [form : {"authority"}, key : {"k", "m"},
        receipts : {<< >>, <<Rcpt(0, 7, 0, "k")>>, <<Rcpt(0, 7, 0, "k"), Rcpt(1, 8, 7, "k")>>,
                    <<Rcpt(0, 7, 0, "k"), Rcpt(1, 8, 9, "k")>>, <<Rcpt(0, 7, 0, "m"), Rcpt(1, 8, 7, "k")>>,
                    <<Rcpt(0, 7, 0, "m"), Rcpt(1, 8, 7, "m")>>}]

------------------------------------------------------------------------------
\* The two workers are interchangeable.
Symmetry == Permutations({w1, w2})

AuthorizationInit ==
  /\ part \in {"hitl", "authority", "claims", "admission"}
  /\ HitlInit /\ AuthInit /\ ClaimsInit /\ AdmInit
  /\ part # "claims" => granted = BodyFromValue(MCWire(1, "f", <<<<0, 0>>>>, 0, 0, 0))
  /\ part # "admission" => desk = "use"

AuthorizationNext ==
  \/ part = "hitl" /\ HitlNext /\ UNCHANGED <<part, authvars, claimvars, admvars>>
  \/ part = "authority" /\ AuthNext /\ UNCHANGED <<part, hitlvars, claimvars, admvars>>
  \/ part = "claims" /\ ClaimsNext /\ UNCHANGED <<part, hitlvars, authvars, admvars>>
  \/ part = "admission" /\ AdmNext /\ UNCHANGED <<part, hitlvars, authvars, claimvars>>

AuthorizationSpec == AuthorizationInit /\ [][AuthorizationNext]_authorizationvars
==============================================================================

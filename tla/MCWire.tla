------------------------------- MODULE MCWire --------------------------------
(***************************************************************************)
(* What goes over the wire: signed envelopes and the check made before one *)
(* is sent, streams, flows and negotiations, the encodings with errors and *)
(* carriage, and generated schemas.  The parts share no state, so a        *)
(* behaviour belongs to one of them and the others stay where they began.  *)
(*                                                                         *)
(* Bounds.  Four drafts that differ in channel, profile and annotations,   *)
(* two signing acts (two keys, two profiles, a rotation), three edits of a *)
(* candidate (an object is refused for one field; two more let a second    *)
(* refusal mask or follow the first); one stream of two chunks, two links, *)
(* three messages; all strings of five octets over the heads of every      *)
(* major type, and schemas nested twice.                                   *)
(***************************************************************************)
EXTENDS PreSend, Flows, SchemaGen

VARIABLE part

wholewire == <<part, envvars, prevars, flowvars, wirevars, schemavars>>

------------------------------------------------------------------------------
(* Envelopes and the check before sending *)

Draft(channel, kind, effect, profile, ext, cext) ==
  [channel |-> channel, kind |-> kind, effect |-> effect, profile |-> profile, ext |-> ext, cext |-> cext,
   signer |-> "a", body |-> <<channel, kind, profile, Len(cext)>>, causes |-> 0, audience |-> "", suite |-> 0, big |-> FALSE]

DraftSet ==
  {Draft(3, 0, NIW, 1, << >>, << >>),
   Draft(3, 0, NIW, 3, << <<RECHECK_KEY, Bad>> >>, << >>),
   Draft(4, 1, NIW, 1, << <<99, 0>> >>, << <<RECHECK_KEY, 1>> >>),
   Draft(13, 0, DE, 3, << <<PRODUCING_BOUNDARY_KEY, Bad>>, <<99, 0>> >>, << <<RECHECK_KEY, 5>> >>)}

BlankCandidate ==
  [channel |-> 17, kind |-> 0, tier |-> 0, created |-> 0, effect |-> NIW, profile |-> 1, suite |-> 0,
   audience |-> "", causes |-> 0, ext |-> << >>, cext |-> << >>, size |-> 1, deep |-> FALSE]

FieldValues ==
  [channel |-> {3, 4, 12, 19, 20, Bad}, kind |-> {0, 3, 4, 9, Bad}, tier |-> {1, Bad}, created |-> {1, Bad},
   effect |-> {RO, DE, 4, Bad}, profile |-> {0, 3, 4, Bad}, suite |-> {1, Bad}, audience |-> {"ledger", "other", Bad},
   causes |-> {2, 3, Bad}, ext |-> {[i \in 1..3 |-> <<20 + i, 0>>], [i \in 1..4 |-> <<20 + i, 0>>], Bad},
   cext |-> {<< <<RECHECK_KEY, 1>> >>, << <<RECHECK_KEY, 5>> >>, << <<22, 0>>, <<99, 0>> >>, << <<22, 0>> >>, [i \in 1..4 |-> <<20 + i, 0>>], Bad},
   size |-> {2, 3}, deep |-> {TRUE}]

------------------------------------------------------------------------------
(* Streams, encodings *)

PieceSet == {<< >>, <<"a">>, <<"b", "c">>}

Heads == {0, 1, 24, 25, 32, 65, 97, 129, 130, 161, 162, 192, 31, 246}
ErrorNames == <<"NonCanonical", "DepthExceeded", "Malformed">>

------------------------------------------------------------------------------
(* Schemas and instances *)

MinusOne == -1
ScalarSchemas ==
  {<<"integer", lo, hi, exlo, exhi>> : lo \in {NA, MinusOne, 1}, hi \in {NA, 1}, exlo \in {NA, 0}, exhi \in {NA, 2}}
    \cup {<<"string", lo, hi, p>> : lo \in {NA, 1, 2}, hi \in {NA, 1, 2}, p \in BOOLEAN}
    \cup {<<"number">>, <<"boolean">>, <<"null">>, <<"untyped">>, <<"$ref">>}
    \cup {<<"enum", NA, << <<"integer", 1>> >> >>, <<"enum", "integer", << <<"integer", 1>> >> >>,
          <<"enum", "string", << <<"string", <<"a">> >>, <<"string", <<"a", "a">> >> >> >>}

Texts == {<< >>, <<"a">>, <<"a", "a">>, <<"e-acute">>}

Atoms == {<<"integer", n>> : n \in {MinusOne, 0, 1, 2}} \cup {<<"string", t>> : t \in Texts}
           \cup {<<"number", 1>>, <<"boolean", 1>>, <<"null", 0>>}
Pairs1 == {<<"object", << <<n, a>> >> >> : n \in {"x", "y"}, a \in Atoms}
Pairs2 == {<<"object", << <<"audience", <<"string", <<"a">> >> >>, <<"x", a>> >> >> : a \in Atoms}
InstanceSet ==
  Atoms \cup {<<"array", << >> >>, <<"object", << >> >>} \cup {<<"array", <<a>> >> : a \in Atoms}
    \cup {<<"array", <<a, <<"integer", 1>> >> >> : a \in Atoms} \cup Pairs1 \cup Pairs2
    \cup {<<"array", <<p>> >> : p \in Pairs1} \cup {<<"object", << <<"x", <<"array", <<a>> >> >> >> >> : a \in Atoms}

------------------------------------------------------------------------------
SuiteInit ==
  /\ part \in {"envelope", "presend", "flows", "forms", "schema"}
  /\ EnvInit /\ PreInit /\ FlowsInit /\ WireInit /\ SchemaInit
  /\ part # "envelope" => role = "edit" /\ draft = CHOOSE d \in Drafts : TRUE
  /\ part # "flows" => topic = "stream"
  /\ part # "forms" => wiredesk = "carry"
  /\ part # "schema" => schema = <<"$ref">>

SuiteNext ==
  \/ part = "envelope" /\ EnvNext /\ UNCHANGED <<part, prevars, flowvars, wirevars, schemavars>>
  \/ part = "presend" /\ PreNext /\ UNCHANGED <<part, flowvars, wirevars, schemavars>>
  \/ part = "flows" /\ FlowsNext /\ UNCHANGED <<part, envvars, prevars, wirevars, schemavars>>
  \/ part = "forms" /\ WireNext /\ UNCHANGED <<part, envvars, prevars, flowvars, schemavars>>
  \/ part = "schema" /\ SchemaNext /\ UNCHANGED <<part, envvars, prevars, flowvars, wirevars>>

SuiteSpec == SuiteInit /\ [][SuiteNext]_wholewire
==============================================================================

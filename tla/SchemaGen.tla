------------------------------ MODULE SchemaGen ------------------------------
(***************************************************************************)
(* naalp-schemagen: one JSON schema is turned into a CDDL definition, a    *)
(* validator of instances and a builder of CBOR bodies.  An author changes *)
(* a schema step by step; the three readings of it are compared on small   *)
(* instances, and the bodies with the codec of WireForms.                  *)
(*                                                                         *)
(* Schemas: <<"integer", min, max, exmin, exmax>>, <<"string", min, max,   *)
(* pattern>>, <<"number">>, <<"boolean">>, <<"null">>, <<"untyped">>,      *)
(* <<"$ref">> (any composition or reference keyword), <<"enum", type,      *)
(* options>>, <<"array", items, min, max>>, <<"object", properties,        *)
(* required, additional>>, <<"union", members>>; NA stands for an absent   *)
(* keyword, const is an enum of one, and additionalProperties is "open" or *)
(* "closed" (a schema for them, and prefixItems, are left out).            *)
(* Instances: <<"integer", n>>, <<"string", text>>, and so on; a text is a *)
(* sequence of the characters "a", of one octet in UTF-8, and "e-acute",   *)
(* of two.                                                                 *)
(***************************************************************************)
EXTENDS WireForms

CONSTANTS
  NA,            \* an absent keyword
  Scalars,       \* the scalar schemas an author starts from
  Instances,     \* the instances the readings are compared on
  MaxEdits       \* bound on the author's steps

VARIABLES
  schema,        \* the schema as it is
  revised        \* steps so far
schemavars == <<schema, revised>>

------------------------------------------------------------------------------
TypeNames == {"integer", "string", "number", "boolean", "null", "array", "object"}
InferType(x) == x[1]

\* Python's equality: True, 1 and 1.0 are the same.
PyEqual(x, y) ==
  LET numeric == {"integer", "number", "boolean"}
  IN IF x[1] \in numeric /\ y[1] \in numeric THEN x[2] = y[2] ELSE x[1] = y[1] /\ x = y

AllowedTypes(s) ==
  CASE s[1] = "union"                  -> {s[2][i][1] : i \in DOMAIN s[2]}
    [] s[1] = "enum"                   -> IF s[2] = NA THEN TypeNames ELSE {s[2]}
    [] s[1] \in {"untyped", "$ref"}    -> TypeNames
    [] OTHER                           -> {s[1]}

\* The keywords that apply to an instance of a type; the others are not looked at.
KeywordsFor(s, type) ==
  IF s[1] = "union" THEN s[2][CHOOSE i \in DOMAIN s[2] : s[2][i][1] = type] ELSE s

WalkNumber(s, n) ==
  /\ s[2] = NA \/ n >= s[2]
  /\ s[3] = NA \/ n <= s[3]
  /\ s[4] = NA \/ n > s[4]
  /\ s[5] = NA \/ n < s[5]

\* The UTF-8 octets of a text.
TextOctets(text) == FlattenSeq([i \in DOMAIN text |-> IF text[i] = "a" THEN <<97>> ELSE <<195, 169>>])

\* len() counts characters; pattern is TRUE for a pattern that only one character matches.
WalkString(s, text) ==
  /\ s[2] = NA \/ Len(text) >= s[2]
  /\ s[3] = NA \/ Len(text) <= s[3]
  /\ s[4] => Len(text) = 1

Names(props) == {props[i][1] : i \in DOMAIN props}
Lookup1(props, name) == props[CHOOSE i \in DOMAIN props : props[i][1] = name][2]

RECURSIVE ValidateInstance(_, _)
ValidateInstance(s, x) ==
  /\ InferType(x) \in AllowedTypes(s)
  /\ s[1] = "enum" => \E i \in DOMAIN s[3] : PyEqual(x, s[3][i])
  /\ LET k == KeywordsFor(s, InferType(x))
     IN CASE k[1] = "integer"  -> WalkNumber(k, x[2])
          [] k[1] = "string"   -> WalkString(k, x[2])
          [] k[1] = "array"    -> /\ k[3] = NA \/ Len(x[2]) >= k[3]
                                  /\ k[4] = NA \/ Len(x[2]) <= k[4]
                                  /\ k[2] = NA \/ \A i \in DOMAIN x[2] : ValidateInstance(k[2], x[2][i])
          [] k[1] = "object"   -> /\ k[3] \subseteq Names(x[2])
                                  /\ \A i \in DOMAIN x[2] :
                                       IF x[2][i][1] \in Names(k[2])
                                       THEN ValidateInstance(Lookup1(k[2], x[2][i][1]), x[2][i][2])
                                       ELSE k[4] = "open"
          [] OTHER             -> TRUE

------------------------------------------------------------------------------
(* The generator.  CDDL terms: <<"any">>, <<"float64">>, <<"literals",        *)
(* options>>, <<"range", lo, hi>>, <<"uint">>, <<"int">>, <<"tstr", lo, hi>>, *)
(* <<"list", term, lo, hi>>, <<"map", entries>>, <<"choice", terms>>.         *)
Unbounded(hi) == IF hi = NA THEN {"Unbounded"} ELSE {}

RECURSIVE Warnings(_)
Warnings(s) ==
  CASE s[1] = "integer"  -> IF s[3] = NA /\ s[5] = NA THEN {"Unbounded"} ELSE {}
    [] s[1] = "string"   -> Unbounded(s[3]) \cup (IF s[4] THEN {"Unmappable"} ELSE {})
    [] s[1] = "array"    -> Unbounded(s[4]) \cup (IF s[2] = NA THEN {} ELSE Warnings(s[2]))
    [] s[1] = "object"   -> UNION {Warnings(s[2][i][2]) : i \in DOMAIN s[2]}
                              \cup (IF s[4] = "open" THEN {"Unmappable"} ELSE {})
    [] s[1] = "union"    -> UNION {Warnings(s[2][i]) : i \in DOMAIN s[2]}
    [] s[1] = "enum"     -> {}
    [] s[1] = "number"   -> {"FloatForbidden"}
    [] OTHER             -> {"Unmappable"}

\* An effecting schema must have a top-level audience.
EffectingAudience(s, effecting) ==
  IF effecting /\ (s[1] # "object" \/ "audience" \notin Names(s[2])) THEN {"EffectingWithoutAudience"} ELSE {}

StrictRefuses(s, effecting) == Warnings(s) \cup EffectingAudience(s, effecting) # {}

\* Mutant: an exclusive bound is taken for an inclusive one.
CddlIntegerInclusive(s) ==
  LET lo == IF s[2] # NA THEN s[2] ELSE IF s[4] # NA THEN s[4] ELSE 0
      hi == IF s[3] # NA THEN s[3] ELSE s[5]
  IN <<"range", lo, hi>>

\* minimum hides exclusiveMinimum, maximum hides exclusiveMaximum, and no lower bound is 0.
CddlInteger(s) ==
  LET lo == IF s[2] # NA THEN s[2] ELSE IF s[4] # NA THEN s[4] + 1 ELSE 0
  IN CASE s[3] # NA   -> <<"range", lo, s[3]>>
       [] s[5] # NA   -> <<"range", lo, s[5] - 1>>
       [] lo >= 0     -> <<"uint">>
       [] OTHER       -> <<"int">>

\* Without an upper bound the lower one is not written either.
Lower(lo, hi) == IF lo = NA \/ hi = NA THEN 0 ELSE lo

\* tstr .size (lo..hi), or tstr alone.
CddlString(s) == <<"tstr", Lower(s[2], s[3]), s[3]>>

\* [lo*hi item], or [* item].
CddlArray(s, item) == <<"list", item, Lower(s[3], s[4]), s[4]>>

RECURSIVE Cddl(_)
Cddl(s) ==
  CASE s[1] = "integer"  -> CddlInteger(s)
    [] s[1] = "string"   -> CddlString(s)
    [] s[1] = "array"    -> CddlArray(s, IF s[2] = NA THEN <<"any">> ELSE Cddl(s[2]))
    [] s[1] = "object"   -> <<"map", [i \in DOMAIN s[2] |-> <<s[2][i][1], s[2][i][1] \in s[3], Cddl(s[2][i][2])>>]>>
    [] s[1] = "union"    -> <<"choice", [i \in DOMAIN s[2] |-> Cddl(s[2][i])]>>
    [] s[1] = "enum"     -> <<"literals", s[3]>>
    [] s[1] = "number"   -> <<"float64">>
    [] OTHER             -> <<"any">>

\* What a CDDL term admits (RFC 8610): the size of a tstr is its octets.
RECURSIVE Admits(_, _)
Admits(c, x) ==
  CASE c[1] = "any"       -> TRUE
    [] c[1] = "float64"   -> x[1] = "number"
    [] c[1] = "literals"  -> \E i \in DOMAIN c[2] : x[1] = c[2][i][1] /\ x = c[2][i]
    [] c[1] = "range"     -> x[1] = "integer" /\ x[2] >= c[2] /\ x[2] <= c[3]
    [] c[1] = "uint"      -> x[1] = "integer" /\ x[2] >= 0
    [] c[1] = "int"       -> x[1] = "integer"
    [] c[1] = "tstr"      -> /\ x[1] = "string" /\ Len(TextOctets(x[2])) >= c[2]
                             /\ c[3] = NA \/ Len(TextOctets(x[2])) <= c[3]
    [] c[1] = "list"      -> /\ x[1] = "array" /\ Len(x[2]) >= c[3] /\ (c[4] = NA \/ Len(x[2]) <= c[4])
                             /\ \A i \in DOMAIN x[2] : Admits(c[2], x[2][i])
    [] c[1] = "map"       -> /\ x[1] = "object"
                             /\ \A e \in ToSet(c[2]) : e[2] => e[1] \in Names(x[2])
                             /\ \A i \in DOMAIN x[2] :
                                  \E e \in ToSet(c[2]) : e[1] = x[2][i][1] /\ Admits(e[3], x[2][i][2])
    [] c[1] = "choice"    -> \E i \in DOMAIN c[2] : Admits(c[2][i], x)

------------------------------------------------------------------------------
(* Bodies.  A name is one octet.                                             *)
NameByte == [audience |-> 97, x |-> 120, y |-> 121]
Unrepresentable == <<"F", 0>>

\* Mutant: a negative number is sent as an unsigned one.
BuildNumberUnsigned(n) == <<"U", IF n < 0 THEN -n ELSE n>>

BuildNumber(n) == IF n >= 0 THEN <<"U", n>> ELSE <<"N", n>>

\* A number, a boolean or a null anywhere makes the whole body unrepresentable.
RECURSIVE BuildCborValue(_, _)
BuildCborValue(s, x) ==
  LET k == IF s[1] = "union" THEN KeywordsFor(s, InferType(x)) ELSE s
      sub(t, y) == BuildCborValue(t, y)
  IN CASE InferType(x) = "integer"  -> BuildNumber(x[2])
       [] InferType(x) = "string"   -> <<"T", TextOctets(x[2])>>
       [] InferType(x) = "array"    ->
            <<"A", [i \in DOMAIN x[2] |-> sub(IF k[1] = "array" /\ k[2] # NA THEN k[2] ELSE <<"untyped">>, x[2][i])]>>
       [] InferType(x) = "object"   ->
            <<"M", [i \in DOMAIN x[2] |->
                      <<<<"T", <<NameByte[x[2][i][1]]>> >>,
                        sub(IF k[1] = "object" /\ x[2][i][1] \in Names(k[2]) THEN Lookup1(k[2], x[2][i][1])
                            ELSE <<"untyped">>, x[2][i][2])>>]>>
       [] OTHER                     -> Unrepresentable

Without(pairs, name) == SelectSeq(pairs, LAMBDA p : p[1] # name)

\* Mutant: the audience is copied to the envelope and stays in the body.
SplitKeepsAudience(s, x) ==
  [schema |-> s, instance |-> x,
   audience |-> IF x[1] = "object" /\ "audience" \in Names(x[2]) THEN Lookup1(x[2], "audience") ELSE <<"string", << >> >>]

\* A top-level audience that the schema declares goes to the envelope, not into the body.
SplitReservedAudience(s, x) ==
  IF s[1] = "object" /\ x[1] = "object" /\ "audience" \in Names(s[2])
  THEN [schema |-> <<"object", Without(s[2], "audience"), s[3] \ {"audience"}, s[4]>>,
        instance |-> <<"object", Without(x[2], "audience")>>,
        audience |-> IF "audience" \in Names(x[2]) THEN Lookup1(x[2], "audience") ELSE <<"string", << >> >>]
  ELSE [schema |-> s, instance |-> x, audience |-> <<"string", << >> >>]

BuildObject(s, x) ==
  LET parts == SplitReservedAudience(s, x)
  IN [body |-> BuildCborValue(parts.schema, parts.instance), audience |-> parts.audience]

------------------------------------------------------------------------------
Revise(s) ==
  /\ revised < MaxEdits
  /\ schema' = s /\ revised' = revised + 1

\* A scalar, an array or an object around what there is, or a union of it with text.
NextSchemas(s) ==
  {<<"array", s, lo, hi>> : lo, hi \in {NA, 1}}
    \cup {<<"array", NA, NA, 1>>}
    \cup {<<"object", << <<"x", s>> >>, req, more>> : req \in {{}, {"x"}, {"y"}}, more \in {"open", "closed"}}
    \cup {<<"object", << <<"audience", <<"string", 1, 1, FALSE>> >>, <<"x", s>> >>, {"audience"}, "closed">>}
    \cup (IF s[1] \in {"integer", "number", "array"} THEN {<<"union", <<s, <<"string", NA, 1, FALSE>> >> >>} ELSE {})

SchemaInit == schema \in Scalars /\ revised = 0
SchemaNext == \E s \in NextSchemas(schema) : Revise(s)

------------------------------------------------------------------------------
(* The schemas strict mode can vouch for: besides having no warning, each    *)
(* bound is given once and from below, enumerations have a type of their     *)
(* options, items are described, and what is required is described.          *)
RECURSIVE Plain(_)
Plain(s) ==
  CASE s[1] = "integer"  -> (s[2] = NA) # (s[4] = NA) /\ (s[3] = NA \/ s[5] = NA)
    [] s[1] = "array"    -> s[2] # NA /\ Plain(s[2])
    [] s[1] = "object"   -> s[3] \subseteq Names(s[2]) /\ \A i \in DOMAIN s[2] : Plain(s[2][i][2])
    [] s[1] = "union"    -> \A i \in DOMAIN s[2] : Plain(s[2][i])
    [] s[1] = "enum"     -> s[2] # NA /\ \A i \in DOMAIN s[3] : s[3][i][1] = s[2]
    [] OTHER             -> TRUE

\* Every text in x has one octet for each character.
RECURSIVE Ascii(_)
Ascii(x) ==
  CASE x[1] = "string"   -> \A i \in DOMAIN x[2] : x[2][i] = "a"
    [] x[1] = "array"    -> \A i \in DOMAIN x[2] : Ascii(x[2][i])
    [] x[1] = "object"   -> \A i \in DOMAIN x[2] : Ascii(x[2][i][2])
    [] OTHER             -> TRUE

(* The two outputs certify the same shape: under a plain schema without      *)
(* warnings the validator accepts exactly what the CDDL admits, at every     *)
(* bound and nesting (generate_cddl, generate_validator, validate_instance), *)
(* as long as the instance's texts are ASCII.  For other texts they differ,  *)
(* without a warning: _cddl_string writes minLength and maxLength into a     *)
(* .size, which counts octets, and _walk_string counts characters.  Then it  *)
(* is the CDDL that is too narrow above and too wide below: what it admits   *)
(* and the validator refuses has too few characters, never too many.         *)
StrictIsExact ==
  Plain(schema) /\ ~StrictRefuses(schema, FALSE) =>
    \A x \in Instances :
      /\ Ascii(x) => (ValidateInstance(schema, x) <=> Admits(Cddl(schema), x))
      /\ x[1] = "string" /\ schema[1] = "string" /\ Admits(Cddl(schema), x) =>
           Len(x[2]) <= schema[3]

(* What the validator accepts can be sent: under such a schema every valid   *)
(* instance has a body, the codec reads it back as it was and within the     *)
(* schema's own nesting, and the audience is on the envelope and not in the  *)
(* body (build_object, round_trip).                                          *)
ValidIsSendable ==
  Plain(schema) /\ ~StrictRefuses(schema, FALSE) =>
    \A x \in {y \in Instances : ValidateInstance(schema, y)} :
      LET o == BuildObject(schema, x)
      IN /\ Encode(o.body).err = "" /\ VerifyRoundtrip(o.body)
         /\ Decode(Encode(o.body).bytes).v[1] = o.body[1]
         /\ x[1] = "object" /\ schema[1] = "object" /\ "audience" \in Names(schema[2]) =>
              /\ o.audience = Lookup1(x[2], "audience")
              /\ Len(o.body[2]) = Len(x[2]) - 1

(* No two valid instances share a body, so the content id of a body names    *)
(* one instance (build_cbor_value, cbor.content_id).                         *)
BodiesTellApart ==
  ~StrictRefuses(schema, FALSE) =>
    \A x, y \in {z \in Instances : ValidateInstance(schema, z)} :
      Encode(BuildCborValue(schema, x)) = Encode(BuildCborValue(schema, y)) /\ Encode(BuildCborValue(schema, x)).err = ""
        => x = y

(* The generated CDDL and the generated validator agree on every instance    *)
(* whose texts are ASCII, and the body builder sends what the validator      *)
(* accepts (generate_cddl, generate_validator, build_cbor_value).            *)
SchemasAgree ==
  /\ StrictIsExact
  /\ ValidIsSendable
  /\ BodiesTellApart
==============================================================================

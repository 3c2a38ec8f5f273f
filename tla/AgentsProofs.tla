---------------------------- MODULE AgentsProofs -----------------------------
(***************************************************************************)
(* What keeps agents under control, for instances of any size.  The MCP    *)
(* guard is honest to its client, for any tools, listings, server ids,     *)
(* guard processes and number of messages; the eight framework adapters    *)
(* run a call under its own approval, for any tools, arguments, calls and  *)
(* restarts; plans, pipelines and fan-outs execute what was answered, for  *)
(* any tasks, plans and workers.                                           *)
(***************************************************************************)
EXTENDS McpGuard, AgentGuards, Orchestration, SequenceTheorems, FiniteSetTheorems,
        WellFoundedInduction, TLAPS

(***************************************************************************)
(* Queues of lines, some of which are the server's own messages            *)
(***************************************************************************)
\* The requests that the answers in q are to.
Ofs(q) == {q[i].of : i \in {j \in DOMAIN q : ~Own(q[j])}}
Uniq(q) == \A i, j \in DOMAIN q : ~Own(q[i]) /\ q[i].of = q[j].of => i = j

\* The order of the server's own messages, as ClientHearsRight has it.
Follows(a, b) == Own(a) /\ Own(b) => IF a.of = NoId THEN a.n < b.n ELSE a.n # b.n
Ordered(q) == \A i, j \in DOMAIN q : i < j => Follows(q[i], q[j])
Below(A, B) == \A x \in A, y \in B : x < y

\* The requests in whose place a line of the server's own was taken.
MistIds(q) == {q[i].id : i \in {j \in DOMAIN q : q[j].of = Mistaken}}

\* The requests among the client's lines.
Request(m) == m.kind # "reply" /\ m.id # NoId
Reqs(q) == {q[i].n : i \in {j \in DOMAIN q : Request(q[j])}}
UniqReqs(q) == \A i, j \in DOMAIN q : Request(q[i]) /\ Request(q[j]) /\ q[i].n = q[j].n => i = j

\* Where the elements of a concatenation come from.
LEMMA CatParts ==
  ASSUME NEW S, NEW p \in Seq(S), NEW q \in Seq(S)
  PROVE  /\ DOMAIN (p \o q) = 1..(Len(p) + Len(q)) /\ DOMAIN p = 1..Len(p) /\ DOMAIN q = 1..Len(q)
         /\ Len(p) \in Nat /\ Len(q) \in Nat
         /\ \A i \in DOMAIN p : i \in DOMAIN (p \o q) /\ (p \o q)[i] = p[i]
         /\ \A i \in DOMAIN q : Len(p) + i \in DOMAIN (p \o q) /\ (p \o q)[Len(p) + i] = q[i]
         /\ \A i \in DOMAIN (p \o q) :
              \/ i \in DOMAIN p /\ (p \o q)[i] = p[i]
              \/ i > Len(p) /\ i - Len(p) \in DOMAIN q /\ (p \o q)[i] = q[i - Len(p)]
  <1>1. /\ DOMAIN (p \o q) = 1..(Len(p) + Len(q)) /\ DOMAIN p = 1..Len(p) /\ DOMAIN q = 1..Len(q)
        /\ Len(p) \in Nat /\ Len(q) \in Nat
    BY LenProperties, ConcatProperties
  <1>2. \A i \in 1..(Len(p) + Len(q)) : (p \o q)[i] = IF i <= Len(p) THEN p[i] ELSE q[i - Len(p)]
    BY ConcatProperties
  <1> QED BY <1>1, <1>2

LEMMA Members ==
  ASSUME NEW q
  PROVE  /\ \A x : x \in Numbers(q) <=> \E i \in DOMAIN q : Own(q[i]) /\ q[i].n = x
         /\ \A x : x \in Ofs(q) <=> \E i \in DOMAIN q : ~Own(q[i]) /\ q[i].of = x
         /\ \A x : x \in MistIds(q) <=> \E i \in DOMAIN q : q[i].of = Mistaken /\ q[i].id = x
         /\ \A x : x \in Reqs(q) <=> \E i \in DOMAIN q : Request(q[i]) /\ q[i].n = x
  BY DEF Numbers, Ofs, MistIds, Reqs

LEMMA CatSets ==
  ASSUME NEW S, NEW p \in Seq(S), NEW q \in Seq(S)
  PROVE  /\ Numbers(p \o q) = Numbers(p) \cup Numbers(q) /\ Ofs(p \o q) = Ofs(p) \cup Ofs(q)
         /\ MistIds(p \o q) = MistIds(p) \cup MistIds(q) /\ Reqs(p \o q) = Reqs(p) \cup Reqs(q)
  <1>1. PICK c : c = p \o q
    OBVIOUS
  <1>2. /\ \A i \in DOMAIN p : i \in DOMAIN c /\ c[i] = p[i]
        /\ \A i \in DOMAIN q : Len(p) + i \in DOMAIN c /\ c[Len(p) + i] = q[i]
        /\ \A i \in DOMAIN c : \/ i \in DOMAIN p /\ c[i] = p[i]
                               \/ i - Len(p) \in DOMAIN q /\ c[i] = q[i - Len(p)]
    BY <1>1, CatParts
  <1>3. Numbers(c) = Numbers(p) \cup Numbers(q)
    <2>1. ASSUME NEW x \in Numbers(c) PROVE x \in Numbers(p) \/ x \in Numbers(q)
      <3>1. PICK k \in DOMAIN c : Own(c[k]) /\ c[k].n = x
        BY Members
      <3> QED BY <1>2, <3>1, Members
    <2>2. ASSUME NEW x \in Numbers(p) PROVE x \in Numbers(c)
      <3>1. PICK k \in DOMAIN p : Own(p[k]) /\ p[k].n = x
        BY Members
      <3> QED BY <1>2, <3>1, Members
    <2>3. ASSUME NEW x \in Numbers(q) PROVE x \in Numbers(c)
      <3>1. PICK k \in DOMAIN q : Own(q[k]) /\ q[k].n = x
        BY Members
      <3> QED BY <1>2, <3>1, Members
    <2> QED BY <2>1, <2>2, <2>3
  <1>4. Ofs(c) = Ofs(p) \cup Ofs(q)
    <2>1. ASSUME NEW x \in Ofs(c) PROVE x \in Ofs(p) \/ x \in Ofs(q)
      <3>1. PICK k \in DOMAIN c : ~Own(c[k]) /\ c[k].of = x
        BY Members
      <3> QED BY <1>2, <3>1, Members
    <2>2. ASSUME NEW x \in Ofs(p) PROVE x \in Ofs(c)
      <3>1. PICK k \in DOMAIN p : ~Own(p[k]) /\ p[k].of = x
        BY Members
      <3> QED BY <1>2, <3>1, Members
    <2>3. ASSUME NEW x \in Ofs(q) PROVE x \in Ofs(c)
      <3>1. PICK k \in DOMAIN q : ~Own(q[k]) /\ q[k].of = x
        BY Members
      <3> QED BY <1>2, <3>1, Members
    <2> QED BY <2>1, <2>2, <2>3
  <1>5. MistIds(c) = MistIds(p) \cup MistIds(q)
    <2>1. ASSUME NEW x \in MistIds(c) PROVE x \in MistIds(p) \/ x \in MistIds(q)
      <3>1. PICK k \in DOMAIN c : c[k].of = Mistaken /\ c[k].id = x
        BY Members
      <3> QED BY <1>2, <3>1, Members
    <2>2. ASSUME NEW x \in MistIds(p) PROVE x \in MistIds(c)
      <3>1. PICK k \in DOMAIN p : p[k].of = Mistaken /\ p[k].id = x
        BY Members
      <3> QED BY <1>2, <3>1, Members
    <2>3. ASSUME NEW x \in MistIds(q) PROVE x \in MistIds(c)
      <3>1. PICK k \in DOMAIN q : q[k].of = Mistaken /\ q[k].id = x
        BY Members
      <3> QED BY <1>2, <3>1, Members
    <2> QED BY <2>1, <2>2, <2>3
  <1>6. Reqs(c) = Reqs(p) \cup Reqs(q)
    <2>1. ASSUME NEW x \in Reqs(c) PROVE x \in Reqs(p) \/ x \in Reqs(q)
      <3>1. PICK k \in DOMAIN c : Request(c[k]) /\ c[k].n = x
        BY Members
      <3> QED BY <1>2, <3>1, Members
    <2>2. ASSUME NEW x \in Reqs(p) PROVE x \in Reqs(c)
      <3>1. PICK k \in DOMAIN p : Request(p[k]) /\ p[k].n = x
        BY Members
      <3> QED BY <1>2, <3>1, Members
    <2>3. ASSUME NEW x \in Reqs(q) PROVE x \in Reqs(c)
      <3>1. PICK k \in DOMAIN q : Request(q[k]) /\ q[k].n = x
        BY Members
      <3> QED BY <1>2, <3>1, Members
    <2> QED BY <2>1, <2>2, <2>3
  <1> QED BY <1>1, <1>3, <1>4, <1>5, <1>6

LEMMA UniqCat ==
  ASSUME NEW S, NEW p \in Seq(S), NEW q \in Seq(S)
  PROVE  Uniq(p \o q) <=> Uniq(p) /\ Uniq(q) /\ Ofs(p) \cap Ofs(q) = {}
  <1>1. PICK c : c = p \o q
    OBVIOUS
  <1>2. /\ \A i \in DOMAIN p : i \in DOMAIN c /\ c[i] = p[i] /\ i \in Nat /\ i <= Len(p)
        /\ \A i \in DOMAIN q : Len(p) + i \in DOMAIN c /\ c[Len(p) + i] = q[i] /\ i \in Nat /\ i > 0
        /\ \A i \in DOMAIN c : \/ i \in DOMAIN p /\ c[i] = p[i]
                               \/ i > Len(p) /\ i - Len(p) \in DOMAIN q /\ c[i] = q[i - Len(p)]
        /\ Len(p) \in Nat /\ \A i \in DOMAIN c : i \in Nat
    BY <1>1, CatParts
  <1>3. ASSUME Uniq(c) PROVE Uniq(p) /\ Uniq(q) /\ Ofs(p) \cap Ofs(q) = {}
    <2>1. Uniq(p)
      BY <1>2, <1>3, Zenon DEF Uniq
    <2>2. Uniq(q)
      <3> SUFFICES ASSUME NEW i \in DOMAIN q, NEW j \in DOMAIN q, ~Own(q[i]), q[i].of = q[j].of PROVE i = j
        BY DEF Uniq
      <3>1. Len(p) + i = Len(p) + j
        BY <1>2, <1>3 DEF Uniq
      <3> QED BY <1>2, <3>1
    <2>3. ASSUME NEW x \in Ofs(p), x \in Ofs(q) PROVE FALSE
      <3>1. PICK i \in DOMAIN p : ~Own(p[i]) /\ p[i].of = x
        BY DEF Ofs
      <3>2. PICK j \in DOMAIN q : ~Own(q[j]) /\ q[j].of = x
        BY <2>3 DEF Ofs
      <3>3. i = Len(p) + j
        BY <1>2, <1>3, <3>1, <3>2 DEF Uniq
      <3> QED BY <1>2, <3>3
    <2> QED BY <2>1, <2>2, <2>3
  <1>4. ASSUME Uniq(p), Uniq(q), Ofs(p) \cap Ofs(q) = {} PROVE Uniq(c)
    <2> SUFFICES ASSUME NEW i \in DOMAIN c, NEW j \in DOMAIN c, ~Own(c[i]), c[i].of = c[j].of PROVE i = j
      BY DEF Uniq
    <2>0. ~Own(c[j])
      BY DEF Own
    <2>1. CASE i \in DOMAIN p /\ c[i] = p[i] /\ j \in DOMAIN p /\ c[j] = p[j]
      BY <1>4, <2>1 DEF Uniq
    <2>2. CASE i > Len(p) /\ i - Len(p) \in DOMAIN q /\ c[i] = q[i - Len(p)] /\ j > Len(p) /\ j - Len(p) \in DOMAIN q /\ c[j] = q[j - Len(p)]
      <3>1. i - Len(p) = j - Len(p)
        BY <1>4, <2>2 DEF Uniq
      <3> QED BY <1>2, <3>1
    <2>3. ASSUME NEW k \in DOMAIN p, NEW l \in DOMAIN q, ~Own(p[k]), ~Own(q[l]), p[k].of = q[l].of PROVE FALSE
      <3>1. p[k].of \in Ofs(p) /\ q[l].of \in Ofs(q)
        BY <2>3 DEF Ofs
      <3> QED BY <1>4, <2>3, <3>1
    <2> QED BY <1>2, <2>0, <2>1, <2>2, <2>3
  <1> QED BY <1>1, <1>3, <1>4

LEMMA UniqReqsCat ==
  ASSUME NEW S, NEW p \in Seq(S), NEW q \in Seq(S)
  PROVE  UniqReqs(p \o q) <=> UniqReqs(p) /\ UniqReqs(q) /\ Reqs(p) \cap Reqs(q) = {}
  <1>1. PICK c : c = p \o q
    OBVIOUS
  <1>2. /\ \A i \in DOMAIN p : i \in DOMAIN c /\ c[i] = p[i] /\ i \in Nat /\ i <= Len(p)
        /\ \A i \in DOMAIN q : Len(p) + i \in DOMAIN c /\ c[Len(p) + i] = q[i] /\ i \in Nat /\ i > 0
        /\ \A i \in DOMAIN c : \/ i \in DOMAIN p /\ c[i] = p[i]
                               \/ i > Len(p) /\ i - Len(p) \in DOMAIN q /\ c[i] = q[i - Len(p)]
        /\ Len(p) \in Nat /\ \A i \in DOMAIN c : i \in Nat
    BY <1>1, CatParts
  <1>3. ASSUME UniqReqs(c) PROVE UniqReqs(p) /\ UniqReqs(q) /\ Reqs(p) \cap Reqs(q) = {}
    <2>1. UniqReqs(p)
      BY <1>2, <1>3, Zenon DEF UniqReqs
    <2>2. UniqReqs(q)
      <3> SUFFICES ASSUME NEW i \in DOMAIN q, NEW j \in DOMAIN q, Request(q[i]), Request(q[j]), q[i].n = q[j].n
                   PROVE  i = j
        BY DEF UniqReqs
      <3>1. Len(p) + i = Len(p) + j
        BY <1>2, <1>3 DEF UniqReqs
      <3> QED BY <1>2, <3>1
    <2>3. ASSUME NEW x \in Reqs(p), x \in Reqs(q) PROVE FALSE
      <3>1. PICK i \in DOMAIN p : Request(p[i]) /\ p[i].n = x
        BY Members
      <3>2. PICK j \in DOMAIN q : Request(q[j]) /\ q[j].n = x
        BY <2>3, Members
      <3>3. i = Len(p) + j
        BY <1>2, <1>3, <3>1, <3>2 DEF UniqReqs
      <3> QED BY <1>2, <3>3
    <2> QED BY <2>1, <2>2, <2>3
  <1>4. ASSUME UniqReqs(p), UniqReqs(q), Reqs(p) \cap Reqs(q) = {} PROVE UniqReqs(c)
    <2> SUFFICES ASSUME NEW i \in DOMAIN c, NEW j \in DOMAIN c, Request(c[i]), Request(c[j]), c[i].n = c[j].n
                 PROVE  i = j
      BY DEF UniqReqs
    <2>1. CASE i \in DOMAIN p /\ c[i] = p[i] /\ j \in DOMAIN p /\ c[j] = p[j]
      BY <1>4, <2>1 DEF UniqReqs
    <2>2. CASE i > Len(p) /\ i - Len(p) \in DOMAIN q /\ c[i] = q[i - Len(p)] /\ j > Len(p) /\ j - Len(p) \in DOMAIN q /\ c[j] = q[j - Len(p)]
      <3>1. i - Len(p) = j - Len(p)
        BY <1>4, <2>2 DEF UniqReqs
      <3> QED BY <1>2, <3>1
    <2>3. ASSUME NEW k \in DOMAIN p, NEW l \in DOMAIN q, Request(p[k]), Request(q[l]), p[k].n = q[l].n PROVE FALSE
      <3>1. p[k].n \in Reqs(p) /\ q[l].n \in Reqs(q)
        BY <2>3, Members
      <3> QED BY <1>4, <2>3, <3>1
    <2> QED BY <1>2, <2>1, <2>2, <2>3
  <1> QED BY <1>1, <1>3, <1>4

LEMMA OrderedCat ==
  ASSUME NEW S, NEW p \in Seq(S), NEW q \in Seq(S)
  PROVE  Ordered(p \o q) <=> /\ Ordered(p) /\ Ordered(q)
                             /\ \A i \in DOMAIN p, j \in DOMAIN q : Follows(p[i], q[j])
  <1>1. PICK c : c = p \o q
    OBVIOUS
  <1>2. /\ \A i \in DOMAIN p : i \in DOMAIN c /\ c[i] = p[i] /\ i \in Nat /\ i <= Len(p)
        /\ \A i \in DOMAIN q : Len(p) + i \in DOMAIN c /\ c[Len(p) + i] = q[i] /\ i \in Nat /\ i > 0
        /\ \A i \in DOMAIN c : \/ i \in DOMAIN p /\ c[i] = p[i]
                               \/ i > Len(p) /\ i - Len(p) \in DOMAIN q /\ c[i] = q[i - Len(p)]
        /\ Len(p) \in Nat /\ \A i \in DOMAIN c : i \in Nat
    BY <1>1, CatParts
  <1>3. ASSUME Ordered(c)
        PROVE  Ordered(p) /\ Ordered(q) /\ \A i \in DOMAIN p, j \in DOMAIN q : Follows(p[i], q[j])
    <2>1. Ordered(p)
      BY <1>2, <1>3, Zenon DEF Ordered
    <2>2. ASSUME NEW i \in DOMAIN q, NEW j \in DOMAIN q, i < j PROVE Follows(q[i], q[j])
      <3>1. Len(p) + i < Len(p) + j
        BY <1>2, <2>2
      <3>2. Follows(c[Len(p) + i], c[Len(p) + j])
        BY <1>2, <1>3, <3>1, Zenon DEF Ordered
      <3> QED BY <1>2, <3>2
    <2>3. ASSUME NEW i \in DOMAIN p, NEW j \in DOMAIN q PROVE Follows(p[i], q[j])
      <3>1. i < Len(p) + j
        BY <1>2
      <3>2. Follows(c[i], c[Len(p) + j])
        BY <1>2, <1>3, <3>1, Zenon DEF Ordered
      <3> QED BY <1>2, <3>2
    <2> QED BY <2>1, <2>2, <2>3 DEF Ordered
  <1>4. ASSUME Ordered(p), Ordered(q), \A i \in DOMAIN p, j \in DOMAIN q : Follows(p[i], q[j]) PROVE Ordered(c)
    <2> SUFFICES ASSUME NEW i \in DOMAIN c, NEW j \in DOMAIN c, i < j PROVE Follows(c[i], c[j])
      BY DEF Ordered
    <2>1. CASE i \in DOMAIN p /\ c[i] = p[i] /\ j \in DOMAIN p /\ c[j] = p[j]
      BY <1>4, <2>1, Zenon DEF Ordered
    <2>2. CASE i \in DOMAIN p /\ c[i] = p[i] /\ j - Len(p) \in DOMAIN q /\ c[j] = q[j - Len(p)]
      BY <1>4, <2>2, Zenon
    <2>3. CASE i > Len(p) /\ i - Len(p) \in DOMAIN q /\ c[i] = q[i - Len(p)] /\ j - Len(p) \in DOMAIN q /\ c[j] = q[j - Len(p)]
      <3>1. i - Len(p) < j - Len(p)
        BY <1>2
      <3> QED BY <1>4, <2>3, <3>1, Zenon DEF Ordered
    <2>4. i > Len(p) => j > Len(p) /\ j \notin DOMAIN p
      BY <1>2
    <2> QED BY <1>2, <2>1, <2>2, <2>3, <2>4
  <1> QED BY <1>1, <1>3, <1>4

LEMMA EmptyQueue ==
  /\ Numbers(<< >>) = {} /\ Ofs(<< >>) = {} /\ MistIds(<< >>) = {} /\ Reqs(<< >>) = {}
  /\ Uniq(<< >>) /\ Ordered(<< >>) /\ UniqReqs(<< >>) /\ DOMAIN << >> = {}
  BY DEF Numbers, Ofs, MistIds, Reqs, Uniq, Ordered, UniqReqs

LEMMA OneLine ==
  ASSUME NEW q, DOMAIN q = {1}
  PROVE  /\ Uniq(q) /\ Ordered(q) /\ UniqReqs(q)
         /\ Own(q[1]) => Numbers(q) = {q[1].n} /\ Ofs(q) = {}
         /\ ~Own(q[1]) => Numbers(q) = {} /\ Ofs(q) = {q[1].of}
         /\ MistIds(q) = IF q[1].of = Mistaken THEN {q[1].id} ELSE {}
         /\ Reqs(q) = IF Request(q[1]) THEN {q[1].n} ELSE {}
  <1>1. Uniq(q) /\ Ordered(q) /\ UniqReqs(q)
    BY DEF Uniq, Ordered, UniqReqs
  <1>2. /\ Own(q[1]) => Numbers(q) = {q[1].n} /\ Ofs(q) = {}
        /\ ~Own(q[1]) => Numbers(q) = {} /\ Ofs(q) = {q[1].of}
    BY DEF Numbers, Ofs
  <1>3. MistIds(q) = IF q[1].of = Mistaken THEN {q[1].id} ELSE {}
    BY DEF MistIds
  <1>4. Reqs(q) = IF Request(q[1]) THEN {q[1].n} ELSE {}
    BY DEF Reqs
  <1> QED BY <1>1, <1>2, <1>3, <1>4

\* The server's own messages of two queues follow each other when their numbers do.
LEMMA BelowFollows ==
  ASSUME NEW p, NEW q, Below(Numbers(p), Numbers(q)), Numbers(q) \subseteq Nat, Numbers(p) \subseteq Nat
  PROVE  \A i \in DOMAIN p, j \in DOMAIN q : Follows(p[i], q[j])
  <1> SUFFICES ASSUME NEW i \in DOMAIN p, NEW j \in DOMAIN q, Own(p[i]), Own(q[j])
               PROVE  p[i].n < q[j].n /\ p[i].n # q[j].n
    BY DEF Follows
  <1>1. p[i].n \in Numbers(p) /\ q[j].n \in Numbers(q)
    BY Members
  <1>2. p[i].n < q[j].n /\ p[i].n \in Nat /\ q[j].n \in Nat
    BY <1>1 DEF Below
  <1> QED BY <1>2

LEMMA ApartFollows ==
  ASSUME NEW p, NEW q, Numbers(p) \cap Numbers(q) = {}, \A i \in DOMAIN p : p[i].of # NoId
  PROVE  \A i \in DOMAIN p, j \in DOMAIN q : Follows(p[i], q[j])
  <1> SUFFICES ASSUME NEW i \in DOMAIN p, NEW j \in DOMAIN q, Own(p[i]), Own(q[j])
               PROVE  p[i].n # q[j].n
    BY DEF Follows
  <1>1. p[i].n \in Numbers(p) /\ q[j].n \in Numbers(q)
    BY Members
  <1> QED BY <1>1

LEMMA HeadTail ==
  ASSUME NEW S, NEW q \in Seq(S), q # << >>
  PROVE  Head(q) \in S /\ Tail(q) \in Seq(S) /\ q = <<Head(q)>> \o Tail(q) /\ <<Head(q)>> \in Seq(S)
  BY HeadTailProperties

LEMMA AppendIsCat ==
  ASSUME NEW S, NEW q \in Seq(S), NEW x \in S
  PROVE  Append(q, x) = q \o <<x>> /\ <<x>> \in Seq(S)
  <1>1. Append(q, x) = q \o <<x>>
    BY AppendIsConcat
  <1>2. <<x>> \in Seq(S)
    OBVIOUS
  <1> QED BY <1>1, <1>2

LEMMA Single ==
  ASSUME NEW a PROVE DOMAIN <<a>> = {1} /\ <<a>>[1] = a /\ Len(<<a>>) = 1 /\ <<a>> # << >>
  OBVIOUS

(***************************************************************************)
(* The MCP guard                                                           *)
(***************************************************************************)
ClientLine ==
  [kind : {"tools/call", "tools/list", "other", "reply"}, n : 0..MaxClient, id : (0..MaxClient) \cup ServerIds,
   tool : ServerTools \cup {"none"}, as : 0..BadHint]

Answer   == [kind : {"listing", "result"}, id : 1..MaxClient, of : 1..MaxClient, listing : Listings \cup {<< >>}]
Refusal  == [kind : {"denied"}, id : 1..MaxClient, of : 1..MaxClient]
OwnLine  == [kind : {"notification", "request"}, id : ServerIds \cup {NoId}, of : {NoId}, listing : {<< >>}, n : Nat]
MistLine == [kind : {"request"}, id : 1..MaxClient, of : {Mistaken}, listing : {<< >>}, n : Nat]
Said     == Answer \cup OwnLine
Line     == Answer \cup Refusal \cup OwnLine \cup MistLine

\* Only a request has an id.
Proper(a) == a.of = NoId /\ a.id # NoId => a.kind = "request"

GuardTypes ==
  /\ phase \in {"stdin", "human", "wait"}
  /\ sent \in 0..MaxClient /\ asks \in Nat
  /\ inbox \in Seq(ClientLine) /\ open \subseteq ClientLine
  /\ lines \in Seq(Line) /\ unsolicited \in Seq(Line) /\ slot \in Seq(Line) /\ toClient \in Seq(Line)
  /\ \A i \in DOMAIN lines : lines[i] \in Said /\ Proper(lines[i])
  /\ \A i \in DOMAIN unsolicited : unsolicited[i] \in Said

\* The message at work is the last one the client sent.
CurInv ==
  /\ phase = "stdin" => cur = NoLine
  /\ phase \in {"human", "wait"} =>
       /\ cur \in ClientLine /\ cur.kind # "reply" /\ cur.n = sent /\ sent > 0 /\ cur.id \in {NoId, cur.n}
  /\ phase = "human" => cur.kind = "tools/call"

\* What is known of a request on its way, and of an answer.
RequestOk(m, c, fw) == /\ m.id = m.n /\ (m.n = c.n => m = c)
                       /\ \A k \in fw : k.n = m.n => k = m
AnswerOk(a, c, fw, pf) ==
  /\ a.id = a.of /\ (a.of = c.n /\ a.kind = "listing" => c.kind = "tools/list")
  /\ a.kind = "listing" => a.listing \in Listings
  /\ \A k \in fw : k.n = a.of => k \in pf

FlightInv ==
  /\ \A i \in DOMAIN inbox : Request(inbox[i]) => RequestOk(inbox[i], cur, forwarded)
  /\ \A m \in open : Request(m) /\ RequestOk(m, cur, forwarded) /\ (m.kind = "tools/call" => m \in performed)
  /\ \A i \in DOMAIN lines : ~Own(lines[i]) => AnswerOk(lines[i], cur, forwarded, performed)

\* The loop waits for one answer: for the message at work, or it has it, or it has a request of
\* the server's in its place.
Filled == /\ pending = {} /\ Len(slot) = 1 /\ cur.id # NoId /\ slot[1].id = cur.id
          /\ \/ slot[1] \in Answer /\ AnswerOk(slot[1], cur, forwarded, performed)
             \/ slot[1] \in MistLine

WireInv ==
  /\ phase \in {"stdin", "human"} => pending = {} /\ slot = << >>
  /\ phase = "wait" => (pending = {cur.id} /\ slot = << >>) \/ Filled

\* A request is in one place: on its way, with the server, answered on the wire, in the slot,
\* put aside, or answered.
Apart(A, B, C, D, E, F) ==
  \A n : /\ n \in A => n \notin B /\ n \notin C /\ n \notin D /\ n \notin E /\ n \notin F
         /\ n \in B => n \notin C /\ n \notin D /\ n \notin E /\ n \notin F
         /\ n \in C => n \notin D /\ n \notin E /\ n \notin F
         /\ n \in D => n \notin E /\ n \notin F
         /\ n \in E => n \notin F
OpenIds(o) == {m.n : m \in o}
Known(A, B, C, D, E, F) == A \cup B \cup C \cup D \cup E \cup F

PlaceInv ==
  /\ Apart(Reqs(inbox), OpenIds(open), Ofs(lines), Ofs(slot), Ofs(unsolicited), Ofs(toClient))
  /\ Known(Reqs(inbox), OpenIds(open), Ofs(lines), Ofs(slot), Ofs(unsolicited), Ofs(toClient)) \subseteq 1..sent
  /\ phase = "human" =>
       sent \notin Known(Reqs(inbox), OpenIds(open), Ofs(lines), Ofs(slot), Ofs(unsolicited), Ofs(toClient))
  /\ UniqReqs(inbox) /\ (\A m, k \in open : m.n = k.n => m = k)
  /\ Uniq(lines) /\ Uniq(unsolicited) /\ Uniq(toClient)

\* A request that the loop does not wait for any more was given up for one of the server's.
LateInv ==
  /\ Reqs(inbox) \cup OpenIds(open) \cup Ofs(lines) \subseteq pending \cup MistIds(toClient) \cup MistIds(slot)
  /\ Ofs(unsolicited) \subseteq MistIds(toClient) \cup MistIds(slot)
  /\ MistIds(toClient) \subseteq 1..sent

\* What the guard knows of a tool is what the client was last shown, or the client was shown
\* a late listing of it.
Shown(q, t, e) == LastShown(q, t, e) \/ LateListing(q, t)
ShownInv ==
  /\ \A t \in DOMAIN known : known[t] \in 0..BadHint /\ Shown(toClient, t, known[t])
  /\ phase = "wait" /\ cur.kind = "tools/call" =>
       cur \in approved \/ (cur.tool \in DOMAIN known /\ known[cur.tool] < GateThreshold)

TruthInv ==
  /\ \A m \in forwarded : m.n \in 1..sent /\ m.kind = "tools/call"
  /\ \A m, k \in forwarded : m.n = k.n => m = k
  /\ phase = "wait" /\ cur.kind = "tools/call" => cur \in forwarded
  /\ phase = "human" => \A m \in forwarded : m.n # cur.n
  /\ \A f \in receipts : f.body.call \in 1..sent /\ (phase \in {"human", "wait"} => f.body.call # cur.n)
  /\ ReceiptsTellTheTruth

\* The server's own messages: those with the client, the one in the slot, those put aside and
\* those on the wire.
Sequenced(tc, sl, un, ln, k) ==
  /\ Ordered(tc) /\ Ordered(un) /\ Ordered(ln)
  /\ Below(Numbers(tc), Numbers(sl)) /\ Below(Numbers(tc), Numbers(un)) /\ Below(Numbers(tc), Numbers(ln))
  /\ Below(Numbers(sl), Numbers(ln)) /\ Below(Numbers(un), Numbers(ln))
  /\ Numbers(sl) \cap Numbers(un) = {}
  /\ Numbers(tc) \cup Numbers(sl) \cup Numbers(un) \cup Numbers(ln) = 1..k

NumberInv == Sequenced(toClient, slot, unsolicited, lines, asks)

\* A whole seed that a guard holds is the file's, and there is one writer.
SeedInv ==
  /\ DOMAIN seedPc = Guards /\ DOMAIN seedOf = Guards /\ DOMAIN seedFile = {"exists", "seed"}
  /\ \A g \in Guards : seedPc[g] \in {"write", "loaded", "running"} => seedFile.exists
  /\ \A g \in Guards : seedPc[g] = "write" => ~seedFile.seed.whole /\ seedOf[g].whole
  /\ \A g, h \in Guards : seedPc[g] = "write" /\ seedPc[h] = "write" => g = h
  /\ \A g \in Guards : seedPc[g] \in {"loaded", "running"} /\ seedOf[g].whole => seedOf[g] = seedFile.seed
  /\ \A g \in Guards : seedPc[g] = "running" => seedOf[g].whole

LoopInv == /\ GuardTypes /\ CurInv /\ FlightInv /\ WireInv /\ PlaceInv /\ LateInv /\ ShownInv /\ TruthInv
          /\ NumberInv

\* While the guard runs; once it has stopped, what it told and wrote stays as it was.
GuardInv ==
  /\ SeedInv
  /\ phase # "stopped" => LoopInv
  /\ phase = "stopped" => GuardianHonest

LEMMA SaidLine ==
  ASSUME NEW a \in Said
  PROVE  /\ a \in Line /\ a.of # Mistaken /\ (Own(a) <=> a.of = NoId)
         /\ ~Own(a) => a \in Answer /\ a.of \in 1..MaxClient /\ a.id \in 1..MaxClient
         /\ Own(a) => a \in OwnLine /\ a.n \in Nat /\ a.kind # "listing"
  BY GuardConstants DEF Said, Line, Answer, OwnLine, Own, NoId, Mistaken

LEMMA ShortQueue ==
  ASSUME NEW S, NEW q \in Seq(S), Len(q) <= 1
  PROVE  q = << >> \/ DOMAIN q = {1}
  <1>1. Len(q) \in Nat /\ DOMAIN q = 1..Len(q)
    BY LenProperties
  <1>2. Len(q) = 0 \/ Len(q) = 1
    BY <1>1
  <1>3. Len(q) = 0 => q = << >>
    BY EmptySeq
  <1> QED BY <1>1, <1>2, <1>3

\* The numbers of a client's queue have no gap.
LEMMA Gapless ==
  ASSUME NEW tc, NEW sl, NEW un, NEW ln, NEW k \in Nat, Sequenced(tc, sl, un, ln, k)
  PROVE  \A n \in Numbers(tc) : 1..n \subseteq Numbers(tc)
  <1> SUFFICES ASSUME NEW n \in Numbers(tc), NEW m \in 1..n, m \notin Numbers(tc) PROVE FALSE
    OBVIOUS
  <1>1. n \in 1..k
    BY DEF Sequenced
  <1>2. m \in 1..k
    BY <1>1
  <1>3. m \in Numbers(sl) \/ m \in Numbers(un) \/ m \in Numbers(ln)
    BY <1>2 DEF Sequenced
  <1>4. n < m
    BY <1>3 DEF Sequenced, Below
  <1> QED BY <1>1, <1>4

LEMMA SequencedNat ==
  ASSUME NEW tc, NEW sl, NEW un, NEW ln, NEW k \in Nat, Sequenced(tc, sl, un, ln, k)
  PROVE  /\ Numbers(tc) \subseteq Nat /\ Numbers(sl) \subseteq Nat /\ Numbers(un) \subseteq Nat
         /\ Numbers(ln) \subseteq Nat
  <1>1. 1..k \subseteq Nat
    OBVIOUS
  <1> QED BY <1>1 DEF Sequenced

\* Writing the answer and then what was put aside.
CanDrain(tc, an, sl, un, ln, k) ==
  /\ tc \in Seq(Line) /\ an \in Seq(Line) /\ un \in Seq(Line) /\ ln \in Seq(Line) /\ k \in Nat
  /\ Sequenced(tc, sl, un, ln, k) /\ Len(an) <= 1 /\ (\A i \in DOMAIN an : an[i].of # NoId)
  /\ Numbers(an) = Numbers(sl) /\ Uniq(tc) /\ Uniq(un)
  /\ Ofs(an) \cap Ofs(tc) = {} /\ Ofs(un) \cap Ofs(tc) = {} /\ Ofs(un) \cap Ofs(an) = {}

AllWritten(c, tc, an, un, ln, k) ==
  /\ c \in Seq(Line) /\ Sequenced(c, << >>, << >>, ln, k) /\ Uniq(c)
  /\ Ofs(c) = Ofs(tc) \cup Ofs(an) \cup Ofs(un)
  /\ MistIds(c) = MistIds(tc) \cup MistIds(an) \cup MistIds(un)

LEMMA DrainKeeps ==
  ASSUME NEW tc, NEW an, NEW sl, NEW un, NEW ln, NEW k, CanDrain(tc, an, sl, un, ln, k)
  PROVE  AllWritten(tc \o (an \o un), tc, an, un, ln, k)
  <1>0. /\ tc \in Seq(Line) /\ an \in Seq(Line) /\ un \in Seq(Line) /\ ln \in Seq(Line) /\ k \in Nat
        /\ Sequenced(tc, sl, un, ln, k) /\ Len(an) <= 1 /\ (\A i \in DOMAIN an : an[i].of # NoId)
        /\ Numbers(an) = Numbers(sl) /\ Uniq(tc) /\ Uniq(un)
        /\ Ofs(an) \cap Ofs(tc) = {} /\ Ofs(un) \cap Ofs(tc) = {} /\ Ofs(un) \cap Ofs(an) = {}
    BY DEF CanDrain
  <1> USE <1>0
  <1>1. PICK r : r = an \o un
    OBVIOUS
  <1>2. PICK c : c = tc \o r
    OBVIOUS
  <1>3. r \in Seq(Line) /\ c \in Seq(Line)
    BY <1>1, <1>2, ConcatProperties
  <1>4. /\ Numbers(r) = Numbers(an) \cup Numbers(un) /\ Ofs(r) = Ofs(an) \cup Ofs(un)
        /\ MistIds(r) = MistIds(an) \cup MistIds(un)
    BY <1>1, CatSets
  <1>5. /\ Numbers(c) = Numbers(tc) \cup Numbers(r) /\ Ofs(c) = Ofs(tc) \cup Ofs(r)
        /\ MistIds(c) = MistIds(tc) \cup MistIds(r)
    BY <1>2, <1>3, CatSets
  <1>6. Uniq(an) /\ Ordered(an)
    BY ShortQueue, OneLine, EmptyQueue
  <1>7. Uniq(c)
    <2>1. Uniq(r)
      BY <1>1, <1>6, UniqCat
    <2>2. Ofs(tc) \cap Ofs(r) = {}
      BY <1>4
    <2> QED BY <1>2, <1>3, <2>1, <2>2, UniqCat
  <1>8. /\ Numbers(tc) \subseteq Nat /\ Numbers(sl) \subseteq Nat /\ Numbers(un) \subseteq Nat
        /\ Numbers(ln) \subseteq Nat /\ Numbers(r) \subseteq Nat
    BY <1>4, SequencedNat
  <1>9. Ordered(r)
    <2>1. \A i \in DOMAIN an, j \in DOMAIN un : Follows(an[i], un[j])
      BY ApartFollows DEF Sequenced
    <2> QED BY <1>1, <1>6, <2>1, OrderedCat DEF Sequenced
  <1>10. Below(Numbers(tc), Numbers(r))
    BY <1>4 DEF Sequenced, Below
  <1>11. Ordered(c)
    <2>1. \A i \in DOMAIN tc, j \in DOMAIN r : Follows(tc[i], r[j])
      BY <1>8, <1>10, BelowFollows
    <2> QED BY <1>2, <1>3, <1>9, <2>1, OrderedCat DEF Sequenced
  <1>12. Below(Numbers(c), Numbers(ln))
    BY <1>4, <1>5 DEF Sequenced, Below
  <1>13. Numbers(c) \cup Numbers(ln) = 1..k
    BY <1>4, <1>5 DEF Sequenced
  <1>14. Sequenced(c, << >>, << >>, ln, k)
    BY <1>11, <1>12, <1>13, EmptyQueue DEF Sequenced, Below
  <1>15. AllWritten(c, tc, an, un, ln, k)
    BY <1>3, <1>4, <1>5, <1>7, <1>14 DEF AllWritten
  <1> QED BY <1>1, <1>2, <1>15

\* The reader takes the first line: where its number stands.
LEMMA FirstBelow ==
  ASSUME NEW a \in Said, NEW rest \in Seq(Line), Ordered(<<a>> \o rest), Numbers(rest) \subseteq Nat
  PROVE  Below(Numbers(<<a>>), Numbers(rest)) /\ Ordered(rest)
  <1>1. a \in Line /\ (Own(a) => a.of = NoId) /\ <<a>> \in Seq(Line)
    BY SaidLine
  <1>2. Ordered(rest) /\ \A j \in DOMAIN rest : Follows(<<a>>[1], rest[j])
    BY <1>1, OrderedCat, Single
  <1>3. ASSUME NEW x \in Numbers(<<a>>), NEW y \in Numbers(rest) PROVE x < y
    <2>1. Own(a) /\ x = a.n
      BY OneLine, Single
    <2>2. PICK j \in DOMAIN rest : Own(rest[j]) /\ rest[j].n = y
      BY Members
    <2>3. Follows(a, rest[j])
      BY <1>2, Single
    <2> QED BY <1>1, <2>1, <2>2, <2>3 DEF Follows
  <1> QED BY <1>2, <1>3 DEF Below

LEMMA ReadAside ==
  ASSUME NEW a \in Said, NEW rest \in Seq(Line), NEW tc, NEW sl, NEW un \in Seq(Line), NEW k \in Nat,
         Sequenced(tc, sl, un, <<a>> \o rest, k)
  PROVE  Sequenced(tc, sl, un \o <<a>>, rest, k)
  <1>1. a \in Line /\ <<a>> \in Seq(Line)
    BY SaidLine
  <1>2. PICK o : o = <<a>>
    OBVIOUS
  <1>3. PICK ln : ln = o \o rest
    OBVIOUS
  <1>4. Numbers(ln) = Numbers(o) \cup Numbers(rest)
    <2>1. o \in Seq(Line)
      BY <1>1, <1>2
    <2> QED BY <1>3, <2>1, CatSets
  <1>5. PICK u : u = un \o o
    OBVIOUS
  <1>6. Numbers(u) = Numbers(un) \cup Numbers(o)
    <2>1. o \in Seq(Line)
      BY <1>1, <1>2
    <2> QED BY <1>5, <2>1, CatSets
  <1>7. Sequenced(tc, sl, un, ln, k)
    BY <1>2, <1>3
  <1>8. /\ Numbers(tc) \subseteq Nat /\ Numbers(sl) \subseteq Nat /\ Numbers(un) \subseteq Nat
        /\ Numbers(rest) \subseteq Nat /\ Numbers(o) \subseteq Nat
    BY <1>4, <1>7, SequencedNat
  <1>9. Below(Numbers(o), Numbers(rest)) /\ Ordered(rest) /\ Ordered(o)
    BY <1>2, <1>3, <1>7, <1>8, FirstBelow, OneLine, Single DEF Sequenced
  <1>10. Below(Numbers(un), Numbers(o)) /\ Below(Numbers(sl), Numbers(o)) /\ Below(Numbers(tc), Numbers(o))
    BY <1>4, <1>7 DEF Sequenced, Below
  <1>11. Ordered(u)
    <2>1. \A i \in DOMAIN un, j \in DOMAIN o : Follows(un[i], o[j])
      BY <1>8, <1>10, BelowFollows
    <2> QED BY <1>1, <1>2, <1>5, <1>7, <1>9, <2>1, OrderedCat DEF Sequenced
  <1>12. Numbers(sl) \cap Numbers(o) = {}
    <2> SUFFICES ASSUME NEW x \in Numbers(sl), x \in Numbers(o) PROVE FALSE
      OBVIOUS
    <2>1. x < x /\ x \in Nat
      BY <1>8, <1>10 DEF Below
    <2> QED BY <2>1
  <1>13. Numbers(sl) \cap Numbers(u) = {}
    BY <1>6, <1>7, <1>12 DEF Sequenced
  <1>14. /\ Below(Numbers(tc), Numbers(u)) /\ Below(Numbers(tc), Numbers(rest)) /\ Below(Numbers(sl), Numbers(rest))
         /\ Below(Numbers(u), Numbers(rest))
    BY <1>4, <1>6, <1>7, <1>9, <1>10 DEF Sequenced, Below
  <1>15. Numbers(tc) \cup Numbers(sl) \cup Numbers(u) \cup Numbers(rest) = 1..k
    BY <1>4, <1>6, <1>7 DEF Sequenced
  <1>16. Sequenced(tc, sl, u, rest, k)
    BY <1>7, <1>9, <1>11, <1>13, <1>14, <1>15 DEF Sequenced
  <1> QED BY <1>2, <1>5, <1>16

LEMMA ReadMine ==
  ASSUME NEW a \in Said, NEW rest \in Seq(Line), NEW tc, NEW un, NEW k \in Nat,
         Sequenced(tc, << >>, un, <<a>> \o rest, k), NEW sl, Numbers(sl) = Numbers(<<a>>)
  PROVE  Sequenced(tc, sl, un, rest, k)
  <1>1. a \in Line /\ <<a>> \in Seq(Line)
    BY SaidLine
  <1>2. PICK ln : ln = <<a>> \o rest
    OBVIOUS
  <1>3. Numbers(ln) = Numbers(sl) \cup Numbers(rest)
    <2>1. PICK o : o = <<a>>
      OBVIOUS
    <2>2. o \in Seq(Line) /\ ln = o \o rest
      BY <1>1, <1>2, <2>1
    <2>3. Numbers(ln) = Numbers(o) \cup Numbers(rest)
      BY <2>2, CatSets
    <2> QED BY <2>1, <2>3
  <1>4. PICK e : e = << >>
    OBVIOUS
  <1>5. Sequenced(tc, e, un, ln, k) /\ Numbers(e) = {}
    BY <1>2, <1>4, EmptyQueue
  <1>6. Numbers(tc) \subseteq Nat /\ Numbers(un) \subseteq Nat /\ Numbers(rest) \subseteq Nat /\ Numbers(sl) \subseteq Nat
    BY <1>3, <1>5, SequencedNat
  <1>7. Below(Numbers(sl), Numbers(rest)) /\ Ordered(rest)
    BY <1>2, <1>5, <1>6, FirstBelow DEF Sequenced
  <1>8. /\ Below(Numbers(un), Numbers(sl)) /\ Below(Numbers(tc), Numbers(sl)) /\ Below(Numbers(un), Numbers(rest))
        /\ Below(Numbers(tc), Numbers(rest))
    BY <1>3, <1>5 DEF Sequenced, Below
  <1>9. Numbers(sl) \cap Numbers(un) = {}
    <2> SUFFICES ASSUME NEW x \in Numbers(sl), x \in Numbers(un) PROVE FALSE
      OBVIOUS
    <2>1. x < x /\ x \in Nat
      BY <1>6, <1>8 DEF Below
    <2> QED BY <2>1
  <1>10. Numbers(tc) \cup Numbers(sl) \cup Numbers(un) \cup Numbers(rest) = 1..k
    BY <1>3, <1>5 DEF Sequenced
  <1> QED BY <1>5, <1>7, <1>8, <1>9, <1>10 DEF Sequenced

\* The server says a line.
LEMMA SayKeeps ==
  ASSUME NEW tc, NEW sl, NEW un, NEW ln \in Seq(Line), NEW k \in Nat, Sequenced(tc, sl, un, ln, k), NEW a \in Line,
         NEW h, \/ ~Own(a) /\ h = k
                \/ Own(a) /\ a.n = k + 1 /\ h = k + 1
  PROVE  Sequenced(tc, sl, un, ln \o <<a>>, h)
  <1>1. PICK o : o = <<a>>
    OBVIOUS
  <1>2. PICK l : l = ln \o o
    OBVIOUS
  <1>3. o \in Seq(Line) /\ Ordered(o) /\ DOMAIN o = {1} /\ o[1] = a
    BY <1>1, Single, OneLine
  <1>4. Numbers(l) = Numbers(ln) \cup Numbers(o)
    BY <1>2, <1>3, CatSets
  <1>5. /\ Numbers(tc) \subseteq Nat /\ Numbers(sl) \subseteq Nat /\ Numbers(un) \subseteq Nat
        /\ Numbers(ln) \subseteq Nat
    BY SequencedNat
  <1>6. Numbers(o) = IF Own(a) THEN {k + 1} ELSE {}
    BY <1>3, OneLine
  <1>7. Numbers(o) \subseteq Nat
    BY <1>6
  <1>8. ASSUME NEW x \in Numbers(tc) \cup Numbers(sl) \cup Numbers(un) \cup Numbers(ln), NEW y \in Numbers(o) PROVE x < y
    <2>1. x \in 1..k /\ y = k + 1
      BY <1>6, <1>8 DEF Sequenced
    <2> QED BY <2>1
  <1>9. /\ Below(Numbers(tc), Numbers(l)) /\ Below(Numbers(sl), Numbers(l)) /\ Below(Numbers(un), Numbers(l))
        /\ Below(Numbers(ln), Numbers(o))
    BY <1>4, <1>8 DEF Sequenced, Below
  <1>10. Ordered(l)
    <2>1. \A i \in DOMAIN ln, j \in DOMAIN o : Follows(ln[i], o[j])
      BY <1>5, <1>7, <1>9, BelowFollows
    <2> QED BY <1>2, <1>3, <2>1, OrderedCat DEF Sequenced
  <1>11. Numbers(tc) \cup Numbers(sl) \cup Numbers(un) \cup Numbers(l) = 1..h
    <2>1. 1..(k + 1) = (1..k) \cup {k + 1}
      OBVIOUS
    <2>2. Numbers(tc) \cup Numbers(sl) \cup Numbers(un) \cup Numbers(l) = (1..k) \cup Numbers(o)
      BY <1>4 DEF Sequenced
    <2>3. CASE Own(a)
      BY <1>6, <2>1, <2>2, <2>3
    <2>4. CASE ~Own(a)
      BY <1>6, <2>2, <2>4
    <2> QED BY <2>3, <2>4
  <1>12. Sequenced(tc, sl, un, l, h)
    BY <1>9, <1>10, <1>11 DEF Sequenced
  <1> QED BY <1>1, <1>2, <1>12

\* More lines for the client: what it was shown last stays so, unless a late listing came.
LEMMA ShownCat ==
  ASSUME NEW p \in Seq(Line), NEW q \in Seq(Line), NEW t, NEW e, Shown(p, t, e),
         \A i \in DOMAIN q : Names(q[i], t) => q[i].of \in MistIds(p \o q)
  PROVE  Shown(p \o q, t, e)
  <1>1. PICK c : c = p \o q
    OBVIOUS
  <1>2. /\ \A i \in DOMAIN p : i \in DOMAIN c /\ c[i] = p[i] /\ i \in Nat /\ i <= Len(p)
        /\ \A i \in DOMAIN q : Len(p) + i \in DOMAIN c /\ c[Len(p) + i] = q[i]
        /\ \A i \in DOMAIN c : \/ i \in DOMAIN p /\ c[i] = p[i]
                               \/ i - Len(p) \in DOMAIN q /\ c[i] = q[i - Len(p)]
    BY <1>1, CatParts
  <1>3. CASE \E i \in DOMAIN q : Names(q[i], t)
    <2>1. PICK i \in DOMAIN q : Names(q[i], t) /\ q[i].of \in MistIds(c)
      BY <1>1, <1>3
    <2>2. PICK j \in DOMAIN c : c[j].of = Mistaken /\ c[j].id = q[i].of
      BY <2>1, Members
    <2>3. PICK k \in DOMAIN c : c[k] = q[i]
      BY <1>2
    <2>4. LateListing(c, t)
      BY <2>1, <2>2, <2>3 DEF LateListing
    <2> QED BY <1>1, <2>4 DEF Shown
  <1>4. CASE LateListing(p, t)
    <2>1. PICK i \in DOMAIN p, j \in DOMAIN p : p[i].of = Mistaken /\ Names(p[j], t) /\ p[j].of = p[i].id
      BY <1>4, Zenon DEF LateListing
    <2>2. i \in DOMAIN c /\ c[i] = p[i] /\ j \in DOMAIN c /\ c[j] = p[j]
      BY <1>2
    <2>3. LateListing(c, t)
      BY <2>1, <2>2 DEF LateListing
    <2> QED BY <1>1, <2>3 DEF Shown
  <1>5. CASE LastShown(p, t, e) /\ ~\E i \in DOMAIN q : Names(q[i], t)
    <2>1. PICK i \in DOMAIN p : /\ Names(p[i], t) /\ p[i].listing[t] = e
                                /\ \A j \in DOMAIN p : j > i => ~Names(p[j], t)
      BY <1>5, Zenon DEF LastShown
    <2>2. i \in DOMAIN c /\ c[i] = p[i]
      BY <1>2
    <2>3. \A j \in DOMAIN c : j > i => ~Names(c[j], t)
      BY <1>2, <1>5, <2>1
    <2>4. LastShown(c, t, e)
      BY <2>1, <2>2, <2>3, Zenon DEF LastShown
    <2> QED BY <1>1, <2>4 DEF Shown
  <1> QED BY <1>3, <1>4, <1>5 DEF Shown

LEMMA ShownNow ==
  ASSUME NEW p \in Seq(Line), NEW a \in Line, NEW t, Names(a, t)
  PROVE  Shown(p \o <<a>>, t, a.listing[t])
  <1>1. PICK c : c = p \o <<a>>
    OBVIOUS
  <1>2. PICK o : o = <<a>>
    OBVIOUS
  <1>3. DOMAIN o = {1} /\ o[1] = a /\ o \in Seq(Line) /\ Len(o) = 1
    BY <1>2, Single
  <1>4. /\ DOMAIN c = 1..(Len(p) + Len(o)) /\ Len(p) \in Nat
        /\ Len(p) + 1 \in DOMAIN c /\ c[Len(p) + 1] = a
    BY <1>1, <1>2, <1>3, CatParts
  <1>5. \A j \in DOMAIN c : ~(j > Len(p) + 1)
    BY <1>3, <1>4
  <1>6. LastShown(c, t, a.listing[t])
    BY <1>4, <1>5, Zenon DEF LastShown
  <1> QED BY <1>1, <1>6 DEF Shown

(* Frames: what a step that leaves the variables of a part alone keeps.      *)
LEMMA NumberFrame ==
  ASSUME NumberInv, UNCHANGED <<toClient, slot, unsolicited, lines, asks>> PROVE NumberInv'
  BY DEF NumberInv

LEMMA SeedFrame == ASSUME SeedInv, UNCHANGED seeds PROVE SeedInv'
  BY DEF SeedInv, seeds

LEMMA ShownFrame == ASSUME ShownInv, UNCHANGED <<phase, cur, known, approved, toClient>> PROVE ShownInv'
  BY DEF ShownInv

LEMMA TruthFrame ==
  ASSUME TruthInv, UNCHANGED <<phase, cur, receipts, forwarded, sent>>, performed \subseteq performed' PROVE TruthInv'
  <1>1. ReceiptsTellTheTruth'
    BY DEF TruthInv, ReceiptsTellTheTruth, VerifyReceiptBytes
  <1> QED BY <1>1 DEF TruthInv

LEMMA CurFrame == ASSUME CurInv, UNCHANGED <<phase, cur, sent>> PROVE CurInv'
  BY DEF CurInv

\* A filled slot stays filled while more calls are performed.
LEMMA WireFrame ==
  ASSUME WireInv, UNCHANGED <<phase, cur, pending, slot, forwarded>>, performed \subseteq performed' PROVE WireInv'
  <1>1. Filled => Filled'
    BY DEF Filled, AnswerOk
  <1> QED BY <1>1 DEF WireInv

LEMMA GuardInitInv == ASSUME GuardianInit PROVE GuardInv
  <1>1. /\ phase = "stdin" /\ cur = NoLine /\ known = << >> /\ pending = {} /\ slot = << >> /\ unsolicited = << >>
        /\ inbox = << >> /\ open = {} /\ lines = << >> /\ toClient = << >> /\ receipts = {} /\ approved = {}
        /\ forwarded = {} /\ performed = {} /\ sent = 0 /\ asks = 0
    BY DEF GuardianInit
  <1>2. GuardTypes /\ CurInv
    BY <1>1, GuardConstants DEF GuardTypes, CurInv
  <1>3. FlightInv /\ WireInv
    BY <1>1 DEF FlightInv, WireInv
  <1>4. PlaceInv
    <2>1. OpenIds({}) = {}
      BY DEF OpenIds
    <2> QED BY <1>1, <2>1, EmptyQueue DEF PlaceInv, Apart, Known
  <1>5. LateInv
    <2>1. OpenIds({}) = {}
      BY DEF OpenIds
    <2> QED BY <1>1, <2>1, EmptyQueue DEF LateInv
  <1>6. ShownInv /\ TruthInv
    BY <1>1 DEF ShownInv, TruthInv, ReceiptsTellTheTruth
  <1>7. NumberInv
    BY <1>1, EmptyQueue DEF NumberInv, Sequenced, Below
  <1>8. SeedInv
    BY DEF GuardianInit, SeedInv
  <1> QED BY <1>1, <1>2, <1>3, <1>4, <1>5, <1>6, <1>7, <1>8 DEF GuardInv, LoopInv

\* The server takes a line; a request it takes is open and, if a tool call, performed.
LEMMA ServerTakesInv ==
  ASSUME LoopInv, ServerTakes PROVE LoopInv'
  <1> DEFINE m == Head(inbox)
  <1>1. /\ phase # "stopped" /\ inbox # << >> /\ inbox' = Tail(inbox)
        /\ open' = IF Request(m) THEN open \cup {m} ELSE open
        /\ performed' = IF m.kind = "tools/call" THEN performed \cup {m} ELSE performed
        /\ UNCHANGED <<phase, cur, known, asks, pending, slot, unsolicited, lines, toClient,
                       receipts, approved, forwarded, sent>>
    BY DEF ServerTakes, loop, reader, record, Request
  <1>2. inbox \in Seq(ClientLine)
    BY DEF LoopInv, GuardTypes
  <1>3. /\ m \in ClientLine /\ inbox' \in Seq(ClientLine) /\ inbox = <<m>> \o inbox' /\ <<m>> \in Seq(ClientLine)
    BY <1>1, <1>2, HeadTail
  <1>4. /\ 1 \in DOMAIN inbox /\ m = inbox[1]
        /\ \A i \in DOMAIN inbox' : \E j \in DOMAIN inbox : inbox'[i] = inbox[j]
    <2>1. /\ Len(inbox) \in Nat /\ Len(inbox) > 0 /\ DOMAIN inbox = 1..Len(inbox) /\ DOMAIN inbox' = 1..(Len(inbox) - 1)
          /\ \A i \in DOMAIN inbox' : i + 1 \in DOMAIN inbox /\ inbox'[i] = inbox[i + 1]
      BY <1>1, <1>2
    <2> QED BY <2>1
  <1>5. GuardTypes'
    BY <1>1, <1>3 DEF LoopInv, GuardTypes
  <1> HIDE DEF m
  <1>6. performed \subseteq performed' /\ (m.kind = "tools/call" => m \in performed')
    BY <1>1
  <1>7. /\ Reqs(inbox) = (IF Request(m) THEN {m.n} ELSE {}) \cup Reqs(inbox')
        /\ UniqReqs(inbox') /\ (Request(m) => m.n \notin Reqs(inbox'))
    <2>1. PICK o : o = <<m>>
      OBVIOUS
    <2>2. o \in Seq(ClientLine) /\ DOMAIN o = {1} /\ o[1] = m /\ inbox = o \o inbox'
      BY <1>3, <2>1
    <2>3. Reqs(o) = IF Request(m) THEN {m.n} ELSE {}
      BY <2>2, OneLine
    <2>4. Reqs(inbox) = Reqs(o) \cup Reqs(inbox')
      BY <1>3, <2>2, CatSets
    <2>5. UniqReqs(inbox)
      BY DEF LoopInv, PlaceInv
    <2>6. UniqReqs(inbox') /\ Reqs(o) \cap Reqs(inbox') = {}
      BY <1>3, <2>2, <2>5, UniqReqsCat
    <2> QED BY <2>3, <2>4, <2>6
  <1>8. OpenIds(open') = OpenIds(open) \cup (IF Request(m) THEN {m.n} ELSE {})
    BY <1>1 DEF OpenIds
  <1>9. Request(m) => RequestOk(m, cur, forwarded)
    BY <1>4 DEF LoopInv, FlightInv
  <1>10. FlightInv'
    <2>1. \A i \in DOMAIN inbox' : Request(inbox'[i]) => RequestOk(inbox'[i], cur', forwarded')
      BY <1>1, <1>4 DEF LoopInv, FlightInv
    <2>2. ASSUME NEW k \in open' PROVE Request(k) /\ RequestOk(k, cur', forwarded') /\ (k.kind = "tools/call" => k \in performed')
      <3>1. CASE k \in open
        BY <1>1, <1>6, <3>1 DEF LoopInv, FlightInv
      <3>2. CASE k = m /\ Request(m)
        BY <1>1, <1>6, <1>9, <3>2
      <3> QED BY <1>1, <2>2, <3>1, <3>2
    <2>3. \A i \in DOMAIN lines' : ~Own(lines'[i]) => AnswerOk(lines'[i], cur', forwarded', performed')
      BY <1>1, <1>6 DEF LoopInv, FlightInv, AnswerOk
    <2> QED BY <2>1, <2>2, <2>3 DEF FlightInv
  <1>11. PlaceInv'
    <2>1. PlaceInv
      BY DEF LoopInv
    <2>2. /\ Apart(Reqs(inbox), OpenIds(open), Ofs(lines), Ofs(slot), Ofs(unsolicited), Ofs(toClient))
          /\ Known(Reqs(inbox), OpenIds(open), Ofs(lines), Ofs(slot), Ofs(unsolicited), Ofs(toClient)) \subseteq 1..sent
          /\ (\A a, k \in open : a.n = k.n => a = k)
      BY <2>1 DEF PlaceInv
    <2>3. /\ Known(Reqs(inbox'), OpenIds(open'), Ofs(lines), Ofs(slot), Ofs(unsolicited), Ofs(toClient))
              = Known(Reqs(inbox), OpenIds(open), Ofs(lines), Ofs(slot), Ofs(unsolicited), Ofs(toClient))
      BY <1>7, <1>8 DEF Known
    <2>4. Apart(Reqs(inbox'), OpenIds(open'), Ofs(lines), Ofs(slot), Ofs(unsolicited), Ofs(toClient))
      BY <1>7, <1>8, <2>2 DEF Apart
    <2>5. \A a, k \in open' : a.n = k.n => a = k
      <3>1. Request(m) => \A k \in open : k.n # m.n
        BY <1>7, <2>2 DEF Apart, OpenIds
      <3> QED BY <1>1, <2>2, <3>1
    <2> QED BY <1>1, <1>7, <2>1, <2>3, <2>4, <2>5 DEF PlaceInv
  <1>12. LateInv'
    <2>1. LateInv
      BY DEF LoopInv
    <2> QED BY <1>1, <1>7, <1>8, <2>1 DEF LateInv
  <1>13. CurInv' /\ ShownInv' /\ TruthInv' /\ WireInv' /\ NumberInv'
    BY <1>1, <1>6, CurFrame, ShownFrame, TruthFrame, WireFrame, NumberFrame DEF LoopInv
  <1> QED BY <1>5, <1>10, <1>11, <1>12, <1>13 DEF LoopInv

\* A line is put at the end of what the server says.
LEMMA SaysLines ==
  ASSUME GuardTypes, NEW a \in Said, Proper(a), lines' = Append(lines, a)
  PROVE  /\ lines' \in Seq(Line) /\ lines' = lines \o <<a>>
         /\ \A i \in DOMAIN lines' : (\E j \in DOMAIN lines : lines'[i] = lines[j]) \/ lines'[i] = a
         /\ \A i \in DOMAIN lines' : lines'[i] \in Said /\ Proper(lines'[i])
         /\ Ofs(lines') = Ofs(lines) \cup (IF Own(a) THEN {} ELSE {a.of})
         /\ Uniq(lines) /\ (~Own(a) => a.of \notin Ofs(lines)) => Uniq(lines')
  <1>1. a \in Line /\ lines \in Seq(Line)
    BY SaidLine DEF GuardTypes
  <1>2. PICK o : o = <<a>>
    OBVIOUS
  <1>3. o \in Seq(Line) /\ DOMAIN o = {1} /\ o[1] = a
    BY <1>1, <1>2, Single
  <1>4. lines' = lines \o o
    BY <1>1, <1>2, AppendIsCat
  <1>5. /\ lines' \in Seq(Line) /\ Len(lines) \in Nat
        /\ DOMAIN lines = 1..Len(lines) /\ DOMAIN lines' = 1..(Len(lines) + 1)
        /\ \A i \in DOMAIN lines : lines'[i] = lines[i]
        /\ lines'[Len(lines) + 1] = a
    BY <1>1
  <1>6. \A i \in DOMAIN lines' : (\E j \in DOMAIN lines : lines'[i] = lines[j]) \/ lines'[i] = a
    BY <1>5
  <1>7. \A i \in DOMAIN lines' : lines'[i] \in Said /\ Proper(lines'[i])
    BY <1>6 DEF GuardTypes
  <1>8. Ofs(o) = (IF Own(a) THEN {} ELSE {a.of}) /\ Uniq(o)
    BY <1>3, OneLine
  <1>9. Ofs(lines') = Ofs(lines) \cup Ofs(o)
    BY <1>1, <1>3, <1>4, CatSets
  <1>10. Uniq(lines) /\ Ofs(lines) \cap Ofs(o) = {} => Uniq(lines')
    BY <1>1, <1>3, <1>4, <1>8, UniqCat
  <1> QED BY <1>2, <1>4, <1>5, <1>6, <1>7, <1>8, <1>9, <1>10

LEMMA ServerAnswersInv ==
  ASSUME LoopInv, NEW m \in open, NEW l \in Listings, ServerAnswers(m, l) PROVE LoopInv'
  <1> DEFINE a == [kind |-> IF m.kind = "tools/list" THEN "listing" ELSE "result", id |-> m.id, of |-> m.id,
                   listing |-> IF m.kind = "tools/list" THEN l ELSE << >>]
  <1>1. /\ phase # "stopped" /\ open' = open \ {m} /\ lines' = Append(lines, a)
        /\ UNCHANGED <<phase, cur, known, asks, pending, slot, unsolicited, inbox, performed, toClient,
                       receipts, approved, forwarded, sent>>
    BY DEF ServerAnswers, Says, loop, record
  <1>2. /\ Request(m) /\ RequestOk(m, cur, forwarded) /\ (m.kind = "tools/call" => m \in performed)
        /\ m \in ClientLine
    BY DEF LoopInv, FlightInv, GuardTypes
  <1>3. m.id = m.n /\ m.n \in OpenIds(open)
    BY <1>2 DEF RequestOk, OpenIds
  <1>4. m.n \in 1..sent /\ sent \in 0..MaxClient
    BY <1>3 DEF LoopInv, PlaceInv, Known, GuardTypes
  <1>5. m.n \in 1..MaxClient
    BY <1>4, GuardConstants
  <1>6. /\ a \in Answer /\ a.of = m.n /\ a.id = m.n /\ (a.kind = "listing" => m.kind = "tools/list" /\ a.listing \in Listings)
    BY <1>3, <1>5 DEF Answer
  <1> HIDE DEF a
  <1>7. a \in Said /\ ~Own(a) /\ Proper(a) /\ a \in Line
    BY <1>5, <1>6 DEF Said, Own, Proper, Line, NoId, Mistaken
  <1>8. /\ lines' \in Seq(Line) /\ lines' = lines \o <<a>>
        /\ \A i \in DOMAIN lines' : (\E j \in DOMAIN lines : lines'[i] = lines[j]) \/ lines'[i] = a
        /\ \A i \in DOMAIN lines' : lines'[i] \in Said /\ Proper(lines'[i])
        /\ Ofs(lines') = Ofs(lines) \cup {m.n}
        /\ Uniq(lines) /\ m.n \notin Ofs(lines) => Uniq(lines')
    <2>1. GuardTypes
      BY DEF LoopInv
    <2> QED BY <1>1, <1>6, <1>7, <2>1, SaysLines
  <1>9. AnswerOk(a, cur, forwarded, performed)
    <2>1. \A k \in forwarded : k.n = m.n => k \in performed
      <3>1. ASSUME NEW k \in forwarded, k.n = m.n PROVE k = m
        BY <1>2, <3>1 DEF RequestOk
      <3>2. ASSUME m \in forwarded PROVE m \in performed
        BY <1>2, <3>2 DEF LoopInv, TruthInv
      <3> QED BY <3>1, <3>2
    <2> QED BY <1>2, <1>6, <2>1 DEF AnswerOk, RequestOk
  <1>10. FlightInv'
    <2>1. \A i \in DOMAIN inbox' : Request(inbox'[i]) => RequestOk(inbox'[i], cur', forwarded')
      BY <1>1 DEF LoopInv, FlightInv
    <2>2. \A k \in open' : Request(k) /\ RequestOk(k, cur', forwarded') /\ (k.kind = "tools/call" => k \in performed')
      BY <1>1 DEF LoopInv, FlightInv
    <2>3. \A i \in DOMAIN lines' : ~Own(lines'[i]) => AnswerOk(lines'[i], cur', forwarded', performed')
      BY <1>1, <1>8, <1>9 DEF LoopInv, FlightInv
    <2> QED BY <2>1, <2>2, <2>3 DEF FlightInv
  <1>11. OpenIds(open') = OpenIds(open) \ {m.n}
    <2>1. \A k \in open : k.n = m.n => k = m
      BY DEF LoopInv, PlaceInv
    <2> QED BY <1>1, <2>1 DEF OpenIds
  <1>12. PlaceInv'
    <2>1. PlaceInv
      BY DEF LoopInv
    <2>2. Apart(Reqs(inbox), OpenIds(open), Ofs(lines), Ofs(slot), Ofs(unsolicited), Ofs(toClient))
      BY <2>1 DEF PlaceInv
    <2>3. Apart(Reqs(inbox), OpenIds(open'), Ofs(lines'), Ofs(slot), Ofs(unsolicited), Ofs(toClient))
      BY <1>3, <1>8, <1>11, <2>2 DEF Apart
    <2>4. Known(Reqs(inbox), OpenIds(open'), Ofs(lines'), Ofs(slot), Ofs(unsolicited), Ofs(toClient))
           = Known(Reqs(inbox), OpenIds(open), Ofs(lines), Ofs(slot), Ofs(unsolicited), Ofs(toClient))
      BY <1>3, <1>8, <1>11 DEF Known
    <2>5. m.n \notin Ofs(lines)
      BY <1>3, <2>2 DEF Apart
    <2> QED BY <1>1, <1>8, <2>1, <2>3, <2>4, <2>5 DEF PlaceInv
  <1>13. LateInv'
    BY <1>1, <1>3, <1>8, <1>11 DEF LoopInv, LateInv
  <1>14. NumberInv'
    <2>1. lines \in Seq(Line) /\ asks \in Nat
      BY DEF LoopInv, GuardTypes
    <2>2. Sequenced(toClient, slot, unsolicited, lines, asks)
      BY DEF LoopInv, NumberInv
    <2>3. Sequenced(toClient, slot, unsolicited, lines \o <<a>>, asks)
      BY <1>7, <2>1, <2>2, SayKeeps
    <2> QED BY <1>1, <1>8, <2>3 DEF NumberInv
  <1>15. CurInv' /\ ShownInv' /\ TruthInv' /\ WireInv'
    BY <1>1, CurFrame, ShownFrame, TruthFrame, WireFrame DEF LoopInv
  <1>16. GuardTypes'
    BY <1>1, <1>8 DEF LoopInv, GuardTypes
  <1> QED BY <1>10, <1>12, <1>13, <1>14, <1>15, <1>16 DEF LoopInv

LEMMA ServerAsksInv ==
  ASSUME LoopInv, NEW id \in ServerIds \cup {NoId}, ServerAsks(id) PROVE LoopInv'
  <1> DEFINE a == [kind |-> IF id = NoId THEN "notification" ELSE "request", id |-> id, of |-> NoId,
                   listing |-> << >>, n |-> asks + 1]
  <1>1. /\ phase # "stopped" /\ asks' = asks + 1 /\ lines' = Append(lines, a)
        /\ UNCHANGED <<phase, cur, known, open, pending, slot, unsolicited, inbox, performed, toClient,
                       receipts, approved, forwarded, sent>>
    BY DEF ServerAsks, Says, loop, record
  <1>2. asks \in Nat
    BY DEF LoopInv, GuardTypes
  <1>3. a \in OwnLine /\ a.of = NoId /\ a.n = asks + 1 /\ Proper(a)
    BY <1>2 DEF OwnLine, Proper
  <1> HIDE DEF a
  <1>4. a \in Said /\ Own(a) /\ a \in Line
    BY <1>3 DEF Said, Own, Line
  <1>5. /\ lines' \in Seq(Line) /\ lines' = lines \o <<a>>
        /\ \A i \in DOMAIN lines' : (\E j \in DOMAIN lines : lines'[i] = lines[j]) \/ lines'[i] = a
        /\ \A i \in DOMAIN lines' : lines'[i] \in Said /\ Proper(lines'[i])
        /\ Ofs(lines') = Ofs(lines)
        /\ Uniq(lines) => Uniq(lines')
    <2>1. GuardTypes
      BY DEF LoopInv
    <2> QED BY <1>1, <1>3, <1>4, <2>1, SaysLines
  <1>6. GuardTypes'
    BY <1>1, <1>2, <1>5 DEF LoopInv, GuardTypes
  <1>7. FlightInv'
    <2>1. \A i \in DOMAIN lines' : ~Own(lines'[i]) => AnswerOk(lines'[i], cur', forwarded', performed')
      BY <1>1, <1>4, <1>5 DEF LoopInv, FlightInv
    <2> QED BY <1>1, <2>1 DEF LoopInv, FlightInv
  <1>8. PlaceInv' /\ LateInv'
    BY <1>1, <1>5 DEF LoopInv, PlaceInv, LateInv
  <1>9. NumberInv'
    <2>1. lines \in Seq(Line)
      BY DEF LoopInv, GuardTypes
    <2>2. Sequenced(toClient, slot, unsolicited, lines, asks)
      BY DEF LoopInv, NumberInv
    <2>3. Sequenced(toClient, slot, unsolicited, lines \o <<a>>, asks + 1)
      BY <1>2, <1>3, <1>4, <2>1, <2>2, SayKeeps
    <2> QED BY <1>1, <1>5, <2>3 DEF NumberInv
  <1>10. CurInv' /\ ShownInv' /\ TruthInv' /\ WireInv'
    BY <1>1, CurFrame, ShownFrame, TruthFrame, WireFrame DEF LoopInv
  <1> QED BY <1>6, <1>7, <1>8, <1>9, <1>10 DEF LoopInv

\* The first line that the reader has not taken, and the rest.
LEMMA FirstLine ==
  ASSUME LoopInv, lines # << >>
  PROVE  /\ Head(lines) \in Said /\ Proper(Head(lines)) /\ Tail(lines) \in Seq(Line)
         /\ lines = <<Head(lines)>> \o Tail(lines)
         /\ ~Own(Head(lines)) => AnswerOk(Head(lines), cur, forwarded, performed)
         /\ \A i \in DOMAIN Tail(lines) : \E j \in DOMAIN lines : Tail(lines)[i] = lines[j]
         /\ Uniq(Tail(lines))
         /\ Own(Head(lines)) => Ofs(lines) = Ofs(Tail(lines))
         /\ ~Own(Head(lines)) => /\ Ofs(lines) = Ofs(Tail(lines)) \cup {Head(lines).of}
                                 /\ Head(lines).of \notin Ofs(Tail(lines))
  <1>1. lines \in Seq(Line) /\ \A i \in DOMAIN lines : lines[i] \in Said /\ Proper(lines[i])
    BY DEF LoopInv, GuardTypes
  <1>2. PICK a, r : a = Head(lines) /\ r = Tail(lines)
    OBVIOUS
  <1>3. a \in Line /\ r \in Seq(Line) /\ lines = <<a>> \o r /\ <<a>> \in Seq(Line)
    BY <1>1, <1>2, HeadTail
  <1>4. /\ 1 \in DOMAIN lines /\ a = lines[1]
        /\ \A i \in DOMAIN r : \E j \in DOMAIN lines : r[i] = lines[j]
    <2>1. /\ Len(lines) \in Nat /\ Len(lines) > 0 /\ DOMAIN lines = 1..Len(lines) /\ DOMAIN r = 1..(Len(lines) - 1)
          /\ \A i \in DOMAIN r : i + 1 \in DOMAIN lines /\ r[i] = lines[i + 1]
          /\ a = lines[1]
      BY <1>1, <1>2
    <2> QED BY <2>1
  <1>5. a \in Said /\ Proper(a) /\ (~Own(a) => AnswerOk(a, cur, forwarded, performed))
    BY <1>1, <1>4 DEF LoopInv, FlightInv
  <1>6. PICK o : o = <<a>>
    OBVIOUS
  <1>7. o \in Seq(Line) /\ lines = o \o r /\ DOMAIN o = {1} /\ o[1] = a
    BY <1>3, <1>6, Single
  <1>8. Ofs(o) = IF Own(a) THEN {} ELSE {a.of}
    BY <1>7, OneLine
  <1>9. Ofs(lines) = Ofs(o) \cup Ofs(r)
    BY <1>3, <1>7, CatSets
  <1>10. Uniq(r) /\ Ofs(o) \cap Ofs(r) = {}
    <2>1. Uniq(lines)
      BY DEF LoopInv, PlaceInv
    <2> QED BY <1>3, <1>7, <2>1, UniqCat
  <1> QED BY <1>2, <1>3, <1>4, <1>5, <1>8, <1>9, <1>10

\* A line that nobody waits for is put aside.
LEMMA ReadAsideInv ==
  ASSUME LoopInv, lines # << >>, lines' = Tail(lines), unsolicited' = Append(unsolicited, Head(lines)),
         ~(Head(lines).id # NoId /\ Head(lines).id \in pending),
         UNCHANGED <<phase, cur, known, pending, slot, inbox, open, performed, asks, toClient,
                     receipts, approved, forwarded, sent>>
  PROVE  LoopInv'
  <1>1. PICK a, r : a = Head(lines) /\ r = Tail(lines)
    OBVIOUS
  <1>2. /\ a \in Said /\ Proper(a) /\ r \in Seq(Line) /\ lines = <<a>> \o r
        /\ ~Own(a) => AnswerOk(a, cur, forwarded, performed)
        /\ \A i \in DOMAIN r : \E j \in DOMAIN lines : r[i] = lines[j]
        /\ Uniq(r) /\ (Own(a) => Ofs(lines) = Ofs(r))
        /\ ~Own(a) => Ofs(lines) = Ofs(r) \cup {a.of} /\ a.of \notin Ofs(r)
    BY <1>1, FirstLine
  <1>3. a \in Line /\ unsolicited \in Seq(Line) /\ lines' = r /\ unsolicited' = Append(unsolicited, a)
    BY <1>1, <1>2, SaidLine DEF LoopInv, GuardTypes
  <1>4. PICK o : o = <<a>>
    OBVIOUS
  <1>5. o \in Seq(Line) /\ DOMAIN o = {1} /\ o[1] = a /\ unsolicited' = unsolicited \o o /\ unsolicited' \in Seq(Line)
    BY <1>3, <1>4, AppendIsCat, Single
  <1>6. \A i \in DOMAIN unsolicited' : unsolicited'[i] \in Said
    <2>1. \A i \in DOMAIN unsolicited' : (i \in DOMAIN unsolicited /\ unsolicited'[i] = unsolicited[i]) \/ unsolicited'[i] = a
      BY <1>3
    <2> QED BY <1>2, <2>1 DEF LoopInv, GuardTypes
  <1>7. GuardTypes'
    BY <1>2, <1>3, <1>5, <1>6 DEF LoopInv, GuardTypes
  <1>8. Ofs(o) = IF Own(a) THEN {} ELSE {a.of}
    BY <1>5, OneLine
  <1>9. Ofs(unsolicited') = Ofs(unsolicited) \cup Ofs(o) /\ Ofs(lines) = Ofs(r) \cup Ofs(o) /\ Ofs(r) \cap Ofs(o) = {}
    <2>1. unsolicited \in Seq(Line)
      BY <1>3
    <2>2. PICK u : u = unsolicited'
      OBVIOUS
    <2>3. u = unsolicited \o o /\ o \in Seq(Line)
      BY <1>5, <2>2
    <2>4. Ofs(u) = Ofs(unsolicited) \cup Ofs(o)
      BY <2>1, <2>3, CatSets
    <2> QED BY <1>2, <1>8, <2>2, <2>4
  <1>10. FlightInv'
    BY <1>2, <1>3 DEF LoopInv, FlightInv
  <1>11. PlaceInv'
    <2>1. PlaceInv
      BY DEF LoopInv
    <2>2. Apart(Reqs(inbox), OpenIds(open), Ofs(lines), Ofs(slot), Ofs(unsolicited), Ofs(toClient))
      BY <2>1 DEF PlaceInv
    <2>3. Apart(Reqs(inbox), OpenIds(open), Ofs(r), Ofs(slot), Ofs(unsolicited'), Ofs(toClient))
      BY <1>9, <2>2 DEF Apart
    <2>4. Known(Reqs(inbox), OpenIds(open), Ofs(r), Ofs(slot), Ofs(unsolicited'), Ofs(toClient))
           = Known(Reqs(inbox), OpenIds(open), Ofs(lines), Ofs(slot), Ofs(unsolicited), Ofs(toClient))
      BY <1>9 DEF Known
    <2>5. Uniq(unsolicited')
      <3>1. Ofs(unsolicited) \cap Ofs(o) = {}
        BY <1>9, <2>2 DEF Apart
      <3>2. Uniq(o)
        BY <1>5, OneLine
      <3>3. PICK u : u = unsolicited'
        OBVIOUS
      <3>4. u = unsolicited \o o /\ o \in Seq(Line) /\ unsolicited \in Seq(Line) /\ Uniq(unsolicited)
        BY <1>3, <1>5, <2>1, <3>3 DEF PlaceInv
      <3>5. Uniq(u)
        BY <3>1, <3>2, <3>4, UniqCat
      <3> QED BY <3>3, <3>5
    <2> QED BY <1>2, <1>3, <2>1, <2>3, <2>4, <2>5 DEF PlaceInv
  <1>12. LateInv'
    <2>1. ~Own(a) => a.of \in MistIds(toClient) \cup MistIds(slot)
      <3> SUFFICES ASSUME ~Own(a) PROVE a.of \in MistIds(toClient) \cup MistIds(slot)
        OBVIOUS
      <3>1. a.of = a.id /\ a.id \in 1..MaxClient /\ a.of \in Ofs(lines)
        BY <1>2, SaidLine DEF AnswerOk
      <3>2. a.id # NoId
        BY <3>1 DEF NoId
      <3> QED BY <1>1, <3>1, <3>2 DEF LoopInv, LateInv
    <2> QED BY <1>3, <1>8, <1>9, <2>1 DEF LoopInv, LateInv
  <1>13. NumberInv'
    <2>1. asks \in Nat /\ Sequenced(toClient, slot, unsolicited, <<a>> \o r, asks)
      BY <1>2 DEF LoopInv, NumberInv, GuardTypes
    <2>2. Sequenced(toClient, slot, unsolicited \o <<a>>, r, asks)
      BY <1>2, <1>3, <2>1, ReadAside
    <2> QED BY <1>3, <1>4, <1>5, <2>2 DEF NumberInv
  <1>14. CurInv' /\ ShownInv' /\ TruthInv' /\ WireInv'
    BY CurFrame, ShownFrame, TruthFrame, WireFrame DEF LoopInv
  <1> QED BY <1>7, <1>10, <1>11, <1>12, <1>13, <1>14 DEF LoopInv

\* A line with the awaited id ends the wait, be it the answer or a request of the server's.
LEMMA ReadMineInv ==
  ASSUME LoopInv, lines # << >>, lines' = Tail(lines), Head(lines).id # NoId, Head(lines).id \in pending,
         pending' = pending \ {Head(lines).id},
         slot' = <<IF Head(lines).of = NoId THEN [Head(lines) EXCEPT !.of = Mistaken] ELSE Head(lines)>>,
         UNCHANGED <<phase, cur, known, unsolicited, inbox, open, performed, asks, toClient,
                     receipts, approved, forwarded, sent>>
  PROVE  LoopInv'
  <1>1. PICK a, r : a = Head(lines) /\ r = Tail(lines)
    OBVIOUS
  <1>2. /\ a \in Said /\ Proper(a) /\ r \in Seq(Line) /\ lines = <<a>> \o r
        /\ ~Own(a) => AnswerOk(a, cur, forwarded, performed)
        /\ \A i \in DOMAIN r : \E j \in DOMAIN lines : r[i] = lines[j]
        /\ Uniq(r) /\ (Own(a) => Ofs(lines) = Ofs(r))
        /\ ~Own(a) => Ofs(lines) = Ofs(r) \cup {a.of} /\ a.of \notin Ofs(r)
    BY <1>1, FirstLine
  <1>3. phase = "wait" /\ pending = {cur.id} /\ slot = << >>
    BY DEF LoopInv, WireInv, GuardTypes, Filled
  <1>4. a.id = cur.id /\ cur.id # NoId /\ pending' = {} /\ lines' = r
    BY <1>1, <1>3
  <1>5. cur.id = sent /\ cur.n = sent /\ sent \in 1..MaxClient
    BY <1>3, <1>4, GuardConstants DEF LoopInv, CurInv, GuardTypes
  <1>6. PICK b : b = IF a.of = NoId THEN [a EXCEPT !.of = Mistaken] ELSE a
    OBVIOUS
  <1>7. slot' = <<b>>
    BY <1>1, <1>6
  <1>8. ASSUME Own(a) PROVE b \in MistLine /\ b.id = cur.id /\ b.n = a.n /\ b.of = Mistaken
    <2>1. a \in OwnLine /\ a.of = NoId /\ a.kind = "request"
      BY <1>2, <1>4, <1>8, SaidLine DEF Proper
    <2>2. b = [a EXCEPT !.of = Mistaken]
      BY <1>6, <2>1
    <2> QED BY <1>4, <1>5, <2>1, <2>2 DEF OwnLine, MistLine
  <1>9. ASSUME ~Own(a) PROVE b = a /\ a \in Answer /\ a.of = cur.n
    BY <1>2, <1>4, <1>5, <1>6, <1>9, SaidLine DEF Own, AnswerOk
  <1>10. b \in Line /\ b.id = cur.id /\ (Own(b) <=> Own(a))
    BY <1>4, <1>8, <1>9 DEF Line, Own
  <1>11. slot' \in Seq(Line) /\ DOMAIN slot' = {1} /\ slot'[1] = b /\ Len(slot') = 1
    BY <1>7, <1>10, Single
  <1>12. GuardTypes'
    BY <1>2, <1>4, <1>11 DEF LoopInv, GuardTypes
  <1>13. WireInv'
    <2>1. Filled'
      BY <1>2, <1>4, <1>8, <1>9, <1>10, <1>11 DEF Filled
    <2> QED BY <1>3, <2>1 DEF WireInv
  <1>14. FlightInv'
    BY <1>2, <1>4 DEF LoopInv, FlightInv
  <1>15. /\ Ofs(slot') = IF Own(a) THEN {} ELSE {a.of}
         /\ MistIds(slot') = IF Own(a) THEN {cur.id} ELSE {}
    <2>1. CASE Own(a)
      BY <1>8, <1>10, <1>11, <2>1, OneLine
    <2>2. CASE ~Own(a)
      <3>1. b.of # Mistaken
        BY <1>9, <1>10, <2>2 DEF Own
      <3> QED BY <1>9, <1>10, <1>11, <2>2, <3>1, OneLine
    <2> QED BY <2>1, <2>2
  <1>16. Ofs(slot) = {} /\ MistIds(slot) = {}
    BY <1>3, EmptyQueue
  <1>17. Apart(Reqs(inbox), OpenIds(open), Ofs(lines), Ofs(slot), Ofs(unsolicited), Ofs(toClient))
    BY DEF LoopInv, PlaceInv
  <1>18. PlaceInv'
    <2>1. PlaceInv
      BY DEF LoopInv
    <2>2. Ofs(lines) = Ofs(r) \cup Ofs(slot') /\ Ofs(r) \cap Ofs(slot') = {}
      BY <1>2, <1>15
    <2>3. Apart(Reqs(inbox), OpenIds(open), Ofs(r), Ofs(slot'), Ofs(unsolicited), Ofs(toClient))
      BY <1>16, <1>17, <2>2 DEF Apart
    <2>4. Known(Reqs(inbox), OpenIds(open), Ofs(r), Ofs(slot'), Ofs(unsolicited), Ofs(toClient))
           = Known(Reqs(inbox), OpenIds(open), Ofs(lines), Ofs(slot), Ofs(unsolicited), Ofs(toClient))
      BY <1>16, <2>2 DEF Known
    <2> QED BY <1>2, <1>4, <2>1, <2>3, <2>4 DEF PlaceInv
  <1>19. LateInv'
    <2>1. LateInv
      BY DEF LoopInv
    <2>2. ~Own(a) => cur.id \in Ofs(lines) /\ cur.id \notin Ofs(r)
      BY <1>2, <1>5, <1>9
    <2>3. ~Own(a) => cur.id \notin Reqs(inbox) /\ cur.id \notin OpenIds(open)
      BY <1>17, <2>2 DEF Apart
    <2>4. Reqs(inbox) \cup OpenIds(open) \cup Ofs(r) \subseteq MistIds(toClient) \cup MistIds(slot')
      BY <1>2, <1>3, <1>15, <1>16, <2>1, <2>2, <2>3 DEF LateInv
    <2>5. Ofs(unsolicited) \subseteq MistIds(toClient) \cup MistIds(slot')
      BY <1>16, <2>1 DEF LateInv
    <2> QED BY <1>4, <2>1, <2>4, <2>5 DEF LateInv
  <1>20. NumberInv'
    <2>1. asks \in Nat /\ Sequenced(toClient, << >>, unsolicited, <<a>> \o r, asks)
      BY <1>2, <1>3 DEF LoopInv, NumberInv, GuardTypes
    <2>2. Numbers(slot') = Numbers(<<a>>)
      <3>1. Numbers(slot') = IF Own(a) THEN {a.n} ELSE {}
        BY <1>8, <1>9, <1>10, <1>11, OneLine
      <3>2. Numbers(<<a>>) = IF Own(a) THEN {a.n} ELSE {}
        BY OneLine, Single
      <3> QED BY <3>1, <3>2
    <2>3. Sequenced(toClient, slot', unsolicited, r, asks)
      BY <1>2, <2>1, <2>2, ReadMine
    <2> QED BY <1>4, <2>3 DEF NumberInv
  <1>21. CurInv' /\ ShownInv' /\ TruthInv'
    BY CurFrame, ShownFrame, TruthFrame DEF LoopInv
  <1> QED BY <1>12, <1>13, <1>14, <1>18, <1>19, <1>20, <1>21 DEF LoopInv

LEMMA ReadsLineInv ==
  ASSUME LoopInv, ReadsLine PROVE LoopInv'
  <1>1. /\ lines # << >> /\ lines' = Tail(lines)
        /\ UNCHANGED <<phase, cur, known, inbox, open, performed, asks, toClient,
                       receipts, approved, forwarded, sent>>
    BY DEF ReadsLine, loop, server, record
  <1>2. CASE Head(lines).id # NoId /\ Head(lines).id \in pending
    <2>1. /\ pending' = pending \ {Head(lines).id} /\ unsolicited' = unsolicited
          /\ slot' = <<IF Head(lines).of = NoId THEN [Head(lines) EXCEPT !.of = Mistaken] ELSE Head(lines)>>
      BY <1>2, Zenon DEF ReadsLine
    <2> QED BY <1>1, <1>2, <2>1, ReadMineInv
  <1>3. CASE ~(Head(lines).id # NoId /\ Head(lines).id \in pending)
    <2>1. unsolicited' = Append(unsolicited, Head(lines)) /\ UNCHANGED <<pending, slot>>
      BY <1>3, Zenon DEF ReadsLine
    <2> QED BY <1>1, <1>3, <2>1, ReadAsideInv
  <1> QED BY <1>2, <1>3

\* The message at work changes: what is on its way is about earlier ones.
LEMMA FlightOn ==
  ASSUME FlightInv, cur'.n \notin Reqs(inbox) \cup OpenIds(open) \cup Ofs(lines),
         \A k \in forwarded' : k \in forwarded \/ k.n = cur'.n, UNCHANGED <<open, lines, performed>>,
         \A i \in DOMAIN inbox' : Request(inbox'[i]) =>
           (\E j \in DOMAIN inbox : inbox'[i] = inbox[j]) \/ RequestOk(inbox'[i], cur', forwarded')
  PROVE  FlightInv'
  <1>1. ASSUME NEW m, RequestOk(m, cur, forwarded), m.n # cur'.n PROVE RequestOk(m, cur', forwarded')
    BY <1>1 DEF RequestOk
  <1>2. ASSUME NEW i \in DOMAIN inbox', Request(inbox'[i]) PROVE RequestOk(inbox'[i], cur', forwarded')
    <2>1. CASE RequestOk(inbox'[i], cur', forwarded')
      BY <2>1
    <2>2. CASE \E j \in DOMAIN inbox : inbox'[i] = inbox[j]
      <3>1. PICK j \in DOMAIN inbox : inbox'[i] = inbox[j]
        BY <2>2
      <3>2. RequestOk(inbox[j], cur, forwarded) /\ inbox[j].n \in Reqs(inbox)
        BY <1>2, <3>1, Members DEF FlightInv
      <3> QED BY <1>1, <3>1, <3>2
    <2> QED BY <1>2, <2>1, <2>2
  <1>3. ASSUME NEW m \in open' PROVE Request(m) /\ RequestOk(m, cur', forwarded') /\ (m.kind = "tools/call" => m \in performed')
    <2>1. /\ Request(m) /\ RequestOk(m, cur, forwarded) /\ (m.kind = "tools/call" => m \in performed)
          /\ m.n \in OpenIds(open)
      BY <1>3 DEF FlightInv, OpenIds
    <2> QED BY <1>1, <2>1
  <1>4. ASSUME NEW i \in DOMAIN lines', ~Own(lines'[i]) PROVE AnswerOk(lines'[i], cur', forwarded', performed')
    <2>1. AnswerOk(lines[i], cur, forwarded, performed) /\ lines[i].of \in Ofs(lines) /\ i \in DOMAIN lines
      BY <1>4, Members DEF FlightInv
    <2>2. lines[i].of # cur'.n
      BY <2>1
    <2> QED BY <2>1, <2>2 DEF AnswerOk
  <1> QED BY <1>2, <1>3, <1>4 DEF FlightInv

\* Writing the answer of the message at work, if there is one, and what was put aside.
LEMMA DrainParts ==
  ASSUME LoopInv, NEW answers \in Seq(Line), Len(answers) <= 1, \A i \in DOMAIN answers : answers[i].of # NoId,
         Numbers(answers) = Numbers(slot), MistIds(slot) \subseteq MistIds(answers),
         Ofs(answers) \cap Ofs(toClient) = {}, Ofs(unsolicited) \cap Ofs(answers) = {},
         WriteThenDrain(answers), slot' = << >>, UNCHANGED <<lines, asks>>
  PROVE  /\ toClient' \in Seq(Line) /\ unsolicited' = << >> /\ NumberInv' /\ Uniq(toClient')
         /\ Ofs(toClient') = Ofs(toClient) \cup Ofs(answers) \cup Ofs(unsolicited)
         /\ MistIds(toClient') = MistIds(toClient) \cup MistIds(answers)
         /\ \A t, e : Shown(toClient \o answers, t, e) => Shown(toClient', t, e)
         /\ \A t, e : Shown(toClient, t, e) /\ (\A i \in DOMAIN answers : ~Names(answers[i], t)) => Shown(toClient', t, e)
  <1>1. /\ toClient \in Seq(Line) /\ unsolicited \in Seq(Line) /\ lines \in Seq(Line) /\ asks \in Nat
        /\ \A i \in DOMAIN unsolicited : unsolicited[i] \in Said
    BY DEF LoopInv, GuardTypes
  <1>2. toClient' = toClient \o (answers \o unsolicited) /\ unsolicited' = << >>
    BY DEF WriteThenDrain
  <1>3. /\ Sequenced(toClient, slot, unsolicited, lines, asks) /\ Uniq(toClient) /\ Uniq(unsolicited)
        /\ Ofs(unsolicited) \cap Ofs(toClient) = {}
    BY DEF LoopInv, NumberInv, PlaceInv, Apart
  <1>4. /\ toClient' \in Seq(Line) /\ Sequenced(toClient', << >>, << >>, lines, asks) /\ Uniq(toClient')
        /\ Ofs(toClient') = Ofs(toClient) \cup Ofs(answers) \cup Ofs(unsolicited)
        /\ MistIds(toClient') = MistIds(toClient) \cup MistIds(answers) \cup MistIds(unsolicited)
    <2>1. CanDrain(toClient, answers, slot, unsolicited, lines, asks)
      BY <1>1, <1>3 DEF CanDrain
    <2>2. AllWritten(toClient \o (answers \o unsolicited), toClient, answers, unsolicited, lines, asks)
      BY <2>1, DrainKeeps
    <2>3. AllWritten(toClient', toClient, answers, unsolicited, lines, asks)
      BY <1>2, <2>2, Zenon
    <2> QED BY <2>3 DEF AllWritten
  <1>5. MistIds(unsolicited) = {}
    BY <1>1, SaidLine, Members
  <1>6. NumberInv'
    BY <1>2, <1>4 DEF NumberInv
  <1>7. PICK p : p = toClient \o answers
    OBVIOUS
  <1>8. p \in Seq(Line) /\ toClient' = p \o unsolicited
    BY <1>1, <1>2, <1>7, ConcatProperties, ConcatAssociative
  <1>9. ASSUME NEW t, NEW e, Shown(p, t, e) PROVE Shown(toClient', t, e)
    <2>1. ASSUME NEW i \in DOMAIN unsolicited, Names(unsolicited[i], t)
          PROVE  unsolicited[i].of \in MistIds(p \o unsolicited)
      <3>1. ~Own(unsolicited[i])
        BY <1>1, <2>1, SaidLine DEF Names
      <3>2. unsolicited[i].of \in Ofs(unsolicited)
        BY <3>1, Members
      <3>3. unsolicited[i].of \in MistIds(toClient')
        BY <1>4, <3>2 DEF LoopInv, LateInv
      <3> QED BY <1>8, <3>3
    <2>2. Shown(p \o unsolicited, t, e)
      BY <1>1, <1>8, <1>9, <2>1, ShownCat
    <2> QED BY <1>8, <2>2
  <1>10. ASSUME NEW t, NEW e, Shown(toClient, t, e), \A i \in DOMAIN answers : ~Names(answers[i], t)
         PROVE  Shown(p, t, e)
    BY <1>1, <1>7, <1>10, ShownCat
  <1> QED BY <1>2, <1>4, <1>5, <1>6, <1>7, <1>9, <1>10

\* The loop is done with its message.
LEMMA Drained ==
  ASSUME LoopInv, NEW answers \in Seq(Line), Len(answers) <= 1, \A i \in DOMAIN answers : answers[i].of # NoId,
         Numbers(answers) = Numbers(slot), MistIds(slot) \subseteq MistIds(answers), MistIds(answers) \subseteq 1..sent',
         Ofs(answers) \subseteq 1..sent',
         Ofs(answers) \cap (Reqs(inbox) \cup OpenIds(open) \cup Ofs(lines) \cup Ofs(unsolicited) \cup Ofs(toClient)) = {},
         WriteThenDrain(answers), slot' = << >>, pending = {}, pending' = {}, phase' = "stdin", cur' = NoLine,
         UNCHANGED <<lines, asks, open, forwarded, performed>>, sent' \in 0..MaxClient, sent <= sent',
         inbox' \in Seq(ClientLine), Reqs(inbox') = Reqs(inbox), UniqReqs(inbox'),
         \A i \in DOMAIN inbox' : Request(inbox'[i]) => \E j \in DOMAIN inbox : inbox'[i] = inbox[j]
  PROVE  /\ GuardTypes' /\ CurInv' /\ FlightInv' /\ WireInv' /\ PlaceInv' /\ LateInv' /\ NumberInv'
         /\ \A t, e : Shown(toClient \o answers, t, e) => Shown(toClient', t, e)
         /\ \A t, e : Shown(toClient, t, e) /\ (\A i \in DOMAIN answers : ~Names(answers[i], t)) => Shown(toClient', t, e)
  <1>1. /\ toClient' \in Seq(Line) /\ unsolicited' = << >> /\ NumberInv' /\ Uniq(toClient')
        /\ Ofs(toClient') = Ofs(toClient) \cup Ofs(answers) \cup Ofs(unsolicited)
        /\ MistIds(toClient') = MistIds(toClient) \cup MistIds(answers)
        /\ \A t, e : Shown(toClient \o answers, t, e) => Shown(toClient', t, e)
        /\ \A t, e : Shown(toClient, t, e) /\ (\A i \in DOMAIN answers : ~Names(answers[i], t)) => Shown(toClient', t, e)
    <2>1. Ofs(answers) \cap Ofs(toClient) = {} /\ Ofs(unsolicited) \cap Ofs(answers) = {}
      OBVIOUS
    <2> QED BY <2>1, DrainParts
  <1>2. << >> \in Seq(Line) /\ DOMAIN << >> = {}
    OBVIOUS
  <1>3. GuardTypes'
    BY <1>1, <1>2 DEF LoopInv, GuardTypes
  <1>4. CurInv' /\ WireInv'
    BY DEF CurInv, WireInv
  <1>5. sent \in Nat /\ sent' \in Nat /\ 1..sent \subseteq 1..sent'
    BY GuardConstants DEF LoopInv, GuardTypes
  <1>6. /\ Apart(Reqs(inbox), OpenIds(open), Ofs(lines), Ofs(slot), Ofs(unsolicited), Ofs(toClient))
        /\ Known(Reqs(inbox), OpenIds(open), Ofs(lines), Ofs(slot), Ofs(unsolicited), Ofs(toClient)) \subseteq 1..sent
    BY DEF LoopInv, PlaceInv
  <1>7. FlightInv'
    <2>1. cur'.n = 0
      BY DEF NoLine
    <2>2. 0 \notin Reqs(inbox) \cup OpenIds(open) \cup Ofs(lines)
      BY <1>5, <1>6 DEF Known
    <2>3. FlightInv
      BY DEF LoopInv
    <2> QED BY <2>1, <2>2, <2>3, FlightOn
  <1>8. PlaceInv'
    <2>1. Ofs(slot') = {} /\ Ofs(unsolicited') = {} /\ Uniq(unsolicited')
      BY <1>1, EmptyQueue
    <2>2. Apart(Reqs(inbox'), OpenIds(open), Ofs(lines), Ofs(slot'), Ofs(unsolicited'), Ofs(toClient'))
      BY <1>1, <1>6, <2>1 DEF Apart
    <2>3. Known(Reqs(inbox'), OpenIds(open), Ofs(lines), Ofs(slot'), Ofs(unsolicited'), Ofs(toClient')) \subseteq 1..sent'
      BY <1>1, <1>5, <1>6, <2>1 DEF Known
    <2> QED BY <1>1, <2>1, <2>2, <2>3 DEF LoopInv, PlaceInv
  <1>9. LateInv'
    <2>1. MistIds(slot') = {} /\ Ofs(unsolicited') = {}
      BY <1>1, EmptyQueue
    <2> QED BY <1>1, <1>5, <2>1 DEF LoopInv, LateInv
  <1> QED BY <1>1, <1>3, <1>4, <1>7, <1>8, <1>9

\* A line that is no request goes to the server.
LEMMA AppendOther ==
  ASSUME LoopInv, NEW m \in ClientLine, inbox' = Append(inbox, m), ~Request(m)
  PROVE  /\ inbox' \in Seq(ClientLine) /\ Reqs(inbox') = Reqs(inbox) /\ UniqReqs(inbox')
         /\ \A i \in DOMAIN inbox' : Request(inbox'[i]) => \E j \in DOMAIN inbox : inbox'[i] = inbox[j]
  <1>1. inbox \in Seq(ClientLine) /\ UniqReqs(inbox)
    BY DEF LoopInv, GuardTypes, PlaceInv
  <1>2. PICK o : o = <<m>>
    OBVIOUS
  <1>3. o \in Seq(ClientLine) /\ DOMAIN o = {1} /\ o[1] = m
    BY <1>2, Single
  <1>4. PICK x : x = inbox'
    OBVIOUS
  <1>5. x = inbox \o o
    BY <1>1, <1>2, <1>4, AppendIsCat
  <1>6. Reqs(o) = {} /\ UniqReqs(o)
    BY <1>3, OneLine
  <1>7. Reqs(x) = Reqs(inbox) /\ UniqReqs(x)
    <2>1. inbox \in Seq(ClientLine) /\ o \in Seq(ClientLine)
      BY <1>1, <1>3
    <2>2. Reqs(x) = Reqs(inbox) \cup Reqs(o)
      BY <1>5, <2>1, CatSets
    <2>3. Reqs(inbox) \cap Reqs(o) = {} /\ UniqReqs(inbox) /\ UniqReqs(o)
      BY <1>1, <1>6
    <2>4. UniqReqs(x)
      BY <1>5, <2>1, <2>3, UniqReqsCat
    <2> QED BY <1>6, <2>2, <2>4
  <1>8. inbox' \in Seq(ClientLine) /\ \A i \in DOMAIN inbox' : (i \in DOMAIN inbox /\ inbox'[i] = inbox[i]) \/ inbox'[i] = m
    BY <1>1
  <1> QED BY <1>4, <1>7, <1>8

LEMMA SameInbox ==
  ASSUME LoopInv, inbox' = inbox
  PROVE  /\ inbox' \in Seq(ClientLine) /\ Reqs(inbox') = Reqs(inbox) /\ UniqReqs(inbox')
         /\ \A i \in DOMAIN inbox' : Request(inbox'[i]) => \E j \in DOMAIN inbox : inbox'[i] = inbox[j]
  BY DEF LoopInv, GuardTypes, PlaceInv

\* Nothing to answer.
LEMMA NoAnswers ==
  /\ << >> \in Seq(Line) /\ Len(<< >>) <= 1 /\ DOMAIN << >> = {}
  /\ Numbers(<< >>) = {} /\ MistIds(<< >>) = {} /\ Ofs(<< >>) = {}
  BY EmptyQueue

\* A refusal as the answer.
LEMMA OneRefusal ==
  ASSUME NEW m, m.id \in 1..MaxClient
  PROVE  /\ <<DeniedResult(m)>> \in Seq(Line) /\ Len(<<DeniedResult(m)>>) <= 1
         /\ \A i \in DOMAIN <<DeniedResult(m)>> :
              <<DeniedResult(m)>>[i].of # NoId /\ \A t : ~Names(<<DeniedResult(m)>>[i], t)
         /\ Numbers(<<DeniedResult(m)>>) = {} /\ MistIds(<<DeniedResult(m)>>) = {} /\ Ofs(<<DeniedResult(m)>>) = {m.id}
  <1>1. PICK d : d = DeniedResult(m)
    OBVIOUS
  <1>2. d \in Refusal /\ d.of = m.id /\ d.kind = "denied"
    BY <1>1 DEF DeniedResult, Refusal
  <1>3. d \in Line /\ d.of # NoId /\ d.of # Mistaken /\ ~Own(d) /\ \A t : ~Names(d, t)
    BY <1>2 DEF Line, Own, NoId, Mistaken, Names
  <1>4. PICK o : o = <<d>>
    OBVIOUS
  <1>5. DOMAIN o = {1} /\ o[1] = d /\ o \in Seq(Line) /\ Len(o) <= 1
    BY <1>3, <1>4, Single
  <1>6. Numbers(o) = {} /\ MistIds(o) = {} /\ Ofs(o) = {m.id}
    BY <1>2, <1>3, <1>5, OneLine
  <1>7. o = <<DeniedResult(m)>>
    BY <1>1, <1>4
  <1>8. \A i \in DOMAIN o : o[i].of # NoId /\ \A t : ~Names(o[i], t)
    BY <1>3, <1>5
  <1> QED BY <1>5, <1>6, <1>7, <1>8

\* Receipts that were true stay true when calls with other numbers are forwarded.
LEMMA ReceiptsStay ==
  ASSUME TruthInv, performed \subseteq performed', forwarded \subseteq forwarded',
         \A m \in forwarded' : m \in forwarded \/ \A f \in receipts : f.body.call # m.n
  PROVE  \A f \in receipts :
           /\ VerifyReceiptBytes(f)
           /\ f.body.decision = "denied" => {m \in forwarded' : m.n = f.body.call} = {}
           /\ f.body.decision = "executed" =>
                /\ {m \in forwarded' : m.n = f.body.call} # {}
                /\ \/ f.body.result.of = f.body.call /\ {m \in forwarded' : m.n = f.body.call} \subseteq performed'
                   \/ f.body.result.of = Mistaken /\ f.body.result.id = f.body.call /\ f.body.result.kind = "request"
  <1> SUFFICES ASSUME NEW f \in receipts
               PROVE  /\ VerifyReceiptBytes(f)
                      /\ f.body.decision = "denied" => {m \in forwarded' : m.n = f.body.call} = {}
                      /\ f.body.decision = "executed" =>
                           /\ {m \in forwarded' : m.n = f.body.call} # {}
                           /\ \/ f.body.result.of = f.body.call /\ {m \in forwarded' : m.n = f.body.call} \subseteq performed'
                              \/ f.body.result.of = Mistaken /\ f.body.result.id = f.body.call /\ f.body.result.kind = "request"
    OBVIOUS
  <1>1. {m \in forwarded' : m.n = f.body.call} = {m \in forwarded : m.n = f.body.call}
    OBVIOUS
  <1>2. /\ VerifyReceiptBytes(f)
        /\ f.body.decision = "denied" => {m \in forwarded : m.n = f.body.call} = {}
        /\ f.body.decision = "executed" =>
             /\ {m \in forwarded : m.n = f.body.call} # {}
             /\ \/ f.body.result.of = f.body.call /\ {m \in forwarded : m.n = f.body.call} \subseteq performed
                \/ f.body.result.of = Mistaken /\ f.body.result.id = f.body.call /\ f.body.result.kind = "request"
    BY DEF TruthInv, ReceiptsTellTheTruth
  <1> QED BY <1>1, <1>2

\* What the invariant says of the running guard is more than the property.
LEMMA LoopHonest == ASSUME LoopInv, SeedInv PROVE GuardianHonest
  <1>1. GatedAsShown
    <2> SUFFICES ASSUME phase = "wait", cur.kind = "tools/call", cur \notin approved
                 PROVE  (\E e \in 0..(GateThreshold - 1) : LastShown(toClient, cur.tool, e)) \/ LateListing(toClient, cur.tool)
      BY DEF GatedAsShown
    <2>1. /\ cur.tool \in DOMAIN known /\ known[cur.tool] < GateThreshold /\ known[cur.tool] \in 0..BadHint
          /\ Shown(toClient, cur.tool, known[cur.tool])
      BY DEF LoopInv, ShownInv
    <2>2. known[cur.tool] \in 0..(GateThreshold - 1)
      BY <2>1, GuardConstants DEF BadHint
    <2> QED BY <2>1, <2>2 DEF Shown
  <1>2. ReceiptsTellTheTruth
    BY DEF LoopInv, TruthInv
  <1>3. ClientHearsRight
    <2>1. toClient \in Seq(Line) /\ asks \in Nat /\ sent \in 0..MaxClient
      BY DEF LoopInv, GuardTypes
    <2>2. \A i, j \in DOMAIN toClient : ~Own(toClient[i]) /\ toClient[i].of = toClient[j].of => i = j
      BY DEF LoopInv, PlaceInv, Uniq
    <2>3. ASSUME NEW i \in DOMAIN toClient, toClient[i].of = Mistaken
          PROVE  toClient[i].kind = "request" /\ toClient[i].id \in 1..sent
      <3>1. toClient[i] \in Line /\ toClient[i].id \in MistIds(toClient)
        BY <2>1, <2>3, Members, ElementOfSeq
      <3>2. toClient[i] \in MistLine
        BY <2>3, <3>1, GuardConstants DEF Line, Answer, Refusal, OwnLine, NoId, Mistaken
      <3> QED BY <3>1, <3>2 DEF LoopInv, LateInv, MistLine
    <2>4. Sequenced(toClient, slot, unsolicited, lines, asks)
      BY DEF LoopInv, NumberInv
    <2>5. \A i, j \in DOMAIN toClient : i < j /\ Own(toClient[i]) /\ Own(toClient[j]) =>
            IF toClient[i].of = NoId THEN toClient[i].n < toClient[j].n ELSE toClient[i].n # toClient[j].n
      BY <2>4 DEF Sequenced, Ordered, Follows
    <2>6. \A n \in Numbers(toClient) : 1..n \subseteq Numbers(toClient)
      BY <2>1, <2>4, Gapless
    <2>7. Numbers(toClient) \cup Numbers(slot) \cup Numbers(unsolicited) \cup Numbers(lines) = 1..asks
      BY <2>4 DEF Sequenced
    <2>8. slot # << >> => slot[1].id = cur.id /\ slot[1].of \in {cur.id, Mistaken}
      <3> SUFFICES ASSUME slot # << >> PROVE slot[1].id = cur.id /\ slot[1].of \in {cur.id, Mistaken}
        OBVIOUS
      <3>1. Filled
        BY DEF LoopInv, WireInv, GuardTypes
      <3> QED BY <3>1 DEF Filled, AnswerOk, MistLine
    <2> QED BY <2>2, <2>3, <2>5, <2>6, <2>7, <2>8 DEF ClientHearsRight
  <1>4. OneIdentity
    BY DEF SeedInv, OneIdentity
  <1> QED BY <1>1, <1>2, <1>3, <1>4 DEF GuardianHonest

\* The end of the process, by a timeout or otherwise: what was written stays true.
LEMMA StoppingInv ==
  ASSUME LoopInv, SeedInv, Stops \/ TimesOut PROVE phase' = "stopped" /\ GuardianHonest'
  <1>1. /\ phase' = "stopped" /\ slot' = << >>
        /\ UNCHANGED <<toClient, receipts, forwarded, performed, sent, seeds>>
    <2>1. CASE Stops
      BY <2>1 DEF Stops, LoopInv, WireInv, reader, server, record, seeds
    <2>2. CASE TimesOut
      BY <2>2 DEF TimesOut, server, record, seeds
    <2> QED BY <2>1, <2>2
  <1>2. GuardianHonest
    BY LoopHonest
  <1>3. GatedAsShown'
    BY <1>1 DEF GatedAsShown
  <1>4. ReceiptsTellTheTruth'
    BY <1>1, <1>2 DEF GuardianHonest, ReceiptsTellTheTruth, VerifyReceiptBytes
  <1>5. ClientHearsRight'
    <2>1. ClientHearsRight
      BY <1>2 DEF GuardianHonest
    <2>2. /\ \A i, j \in DOMAIN toClient : ~Own(toClient[i]) /\ toClient[i].of = toClient[j].of => i = j
          /\ \A i \in DOMAIN toClient : toClient[i].of = Mistaken => toClient[i].kind = "request" /\ toClient[i].id \in 1..sent
          /\ \A i, j \in DOMAIN toClient : i < j /\ Own(toClient[i]) /\ Own(toClient[j]) =>
               IF toClient[i].of = NoId THEN toClient[i].n < toClient[j].n ELSE toClient[i].n # toClient[j].n
          /\ \A n \in Numbers(toClient) : 1..n \subseteq Numbers(toClient)
      BY <2>1 DEF ClientHearsRight
    <2> QED BY <1>1, <2>2 DEF ClientHearsRight
  <1>6. OneIdentity'
    BY <1>1, <1>2 DEF GuardianHonest, OneIdentity, seeds
  <1> QED BY <1>1, <1>3, <1>4, <1>5, <1>6 DEF GuardianHonest

LEMMA ClientRepliesInv ==
  ASSUME LoopInv, NEW id \in ServerIds, ClientReplies(id) PROVE LoopInv'
  <1> DEFINE m == [NoLine EXCEPT !.kind = "reply", !.id = id]
  <1>1. /\ phase = "stdin" /\ inbox' = Append(inbox, m) /\ WriteThenDrain(<< >>)
        /\ UNCHANGED <<phase, cur, known, pending, slot, open, performed, asks, lines,
                       receipts, approved, forwarded, sent>>
    BY DEF ClientReplies, loop, record
  <1>2. m \in ClientLine /\ ~Request(m)
    <2>1. m = [kind |-> "reply", n |-> 0, id |-> id, tool |-> "none", as |-> 0]
      <3>1. m = [[NoLine EXCEPT !.kind = "reply"] EXCEPT !.id = id]
        OBVIOUS
      <3>2. [NoLine EXCEPT !.kind = "reply"] = [kind |-> "reply", n |-> 0, id |-> NoId, tool |-> "none", as |-> 0]
        BY DEF NoLine
      <3>3. [[kind |-> "reply", n |-> 0, id |-> NoId, tool |-> "none", as |-> 0] EXCEPT !.id = id]
              = [kind |-> "reply", n |-> 0, id |-> id, tool |-> "none", as |-> 0]
        OBVIOUS
      <3> HIDE DEF m
      <3> QED BY <3>1, <3>2, <3>3, Zenon
    <2>2. 0 \in 0..MaxClient /\ 0 \in 0..BadHint
      BY GuardConstants DEF BadHint
    <2> HIDE DEF m
    <2> QED BY <2>1, <2>2 DEF ClientLine, Request
  <1> HIDE DEF m
  <1>3. pending = {} /\ slot = << >> /\ cur = NoLine
    BY <1>1 DEF LoopInv, WireInv, CurInv
  <1>4. Numbers(slot) = {} /\ MistIds(slot) = {} /\ Ofs(slot) = {}
    BY <1>3, EmptyQueue
  <1>5. sent \in 0..MaxClient /\ sent <= sent
    BY GuardConstants DEF LoopInv, GuardTypes
  <1>6. /\ GuardTypes' /\ CurInv' /\ FlightInv' /\ WireInv' /\ PlaceInv' /\ LateInv' /\ NumberInv'
        /\ \A t, e : Shown(toClient, t, e) => Shown(toClient', t, e)
    <2>1. /\ inbox' \in Seq(ClientLine) /\ Reqs(inbox') = Reqs(inbox) /\ UniqReqs(inbox')
          /\ \A i \in DOMAIN inbox' : Request(inbox'[i]) => \E j \in DOMAIN inbox : inbox'[i] = inbox[j]
      BY <1>1, <1>2, AppendOther
    <2>2. slot' = << >> /\ pending' = {} /\ phase' = "stdin" /\ cur' = NoLine /\ sent' \in 0..MaxClient /\ sent <= sent'
      BY <1>1, <1>3, <1>5
    <2> QED BY <1>1, <1>3, <1>4, <2>1, <2>2, NoAnswers, Drained
  <1>7. ShownInv'
    BY <1>1, <1>6 DEF LoopInv, ShownInv
  <1>8. TruthInv'
    BY <1>1, TruthFrame DEF LoopInv
  <1> QED BY <1>6, <1>7, <1>8 DEF LoopInv

\* A refused call never went to the server, and its number is in no other place.
LEMMA RefusesInv ==
  ASSUME LoopInv, HumanRefuses PROVE LoopInv'
  <1> DEFINE answers == IF cur.id # NoId THEN <<DeniedResult(cur)>> ELSE << >>
             f == ReceiptFile(MintReceipt(cur, "denied", << >>))
  <1>1. /\ phase = "human" /\ phase' = "stdin" /\ cur' = NoLine /\ receipts' = receipts \cup {f} /\ WriteThenDrain(answers)
        /\ UNCHANGED <<known, pending, slot, inbox, open, performed, asks, lines, approved, forwarded, sent>>
    BY DEF HumanRefuses
  <1>2. cur.n = sent /\ sent \in 1..MaxClient /\ cur.id \in {NoId, sent} /\ cur.kind = "tools/call"
    BY <1>1, GuardConstants DEF LoopInv, GuardTypes, CurInv
  <1>3. pending = {} /\ slot = << >> /\ Numbers(slot) = {} /\ MistIds(slot) = {}
    BY <1>1, EmptyQueue DEF LoopInv, WireInv
  <1>4. /\ answers \in Seq(Line) /\ Len(answers) <= 1
        /\ \A i \in DOMAIN answers : answers[i].of # NoId /\ \A t : ~Names(answers[i], t)
        /\ Numbers(answers) = {} /\ MistIds(answers) = {} /\ Ofs(answers) \subseteq {sent}
    <2>1. CASE cur.id = NoId
      <3>1. answers = << >>
        BY <2>1
      <3> HIDE DEF answers
      <3> QED BY <3>1, NoAnswers
    <2>2. CASE cur.id # NoId
      <3>1. answers = <<DeniedResult(cur)>> /\ cur.id = sent
        BY <1>2, <2>2
      <3> HIDE DEF answers
      <3> QED BY <1>2, <3>1, OneRefusal
    <2> QED BY <2>1, <2>2
  <1> HIDE DEF answers
  <1>5. sent \notin Known(Reqs(inbox), OpenIds(open), Ofs(lines), Ofs(slot), Ofs(unsolicited), Ofs(toClient))
    BY <1>1 DEF LoopInv, PlaceInv
  <1>6. Ofs(answers) \cap (Reqs(inbox) \cup OpenIds(open) \cup Ofs(lines) \cup Ofs(unsolicited) \cup Ofs(toClient)) = {}
    BY <1>4, <1>5 DEF Known
  <1>7. /\ GuardTypes' /\ CurInv' /\ FlightInv' /\ WireInv' /\ PlaceInv' /\ LateInv' /\ NumberInv'
        /\ \A t, e : Shown(toClient, t, e) /\ (\A i \in DOMAIN answers : ~Names(answers[i], t)) => Shown(toClient', t, e)
    <2>1. /\ inbox' \in Seq(ClientLine) /\ Reqs(inbox') = Reqs(inbox) /\ UniqReqs(inbox')
          /\ \A i \in DOMAIN inbox' : Request(inbox'[i]) => \E j \in DOMAIN inbox : inbox'[i] = inbox[j]
      BY <1>1, SameInbox
    <2>2. slot' = << >> /\ pending' = {} /\ sent' \in 0..MaxClient /\ sent <= sent' /\ sent \in 1..sent' /\ sent' = sent
      BY <1>1, <1>2, <1>3
    <2>3. Ofs(answers) \subseteq 1..sent' /\ MistIds(answers) \subseteq 1..sent' /\ MistIds(slot) \subseteq MistIds(answers)
          /\ Numbers(answers) = Numbers(slot)
      BY <1>3, <1>4, <2>2
    <2> QED BY <1>1, <1>3, <1>4, <1>6, <2>1, <2>2, <2>3, Drained
  <1>8. ShownInv'
    BY <1>1, <1>4, <1>7 DEF LoopInv, ShownInv
  <1>9. f.body.call = sent /\ f.body.decision = "denied" /\ VerifyReceiptBytes(f)
    BY <1>2 DEF ReceiptFile, MintReceipt, VerifyReceiptBytes
  <1> HIDE DEF f
  <1>10. ReceiptsTellTheTruth'
    <2> SUFFICES ASSUME NEW g \in receipts'
                 PROVE  /\ VerifyReceiptBytes(g)
                        /\ g.body.decision = "denied" => {m \in forwarded : m.n = g.body.call} = {}
                        /\ g.body.decision = "executed" =>
                             /\ {m \in forwarded : m.n = g.body.call} # {}
                             /\ \/ g.body.result.of = g.body.call /\ {m \in forwarded : m.n = g.body.call} \subseteq performed
                                \/ g.body.result.of = Mistaken /\ g.body.result.id = g.body.call /\ g.body.result.kind = "request"
      BY <1>1 DEF ReceiptsTellTheTruth, VerifyReceiptBytes
    <2>1. CASE g \in receipts
      BY <2>1 DEF LoopInv, TruthInv, ReceiptsTellTheTruth
    <2>2. CASE g = f
      <3>1. {m \in forwarded : m.n = sent} = {}
        BY <1>1, <1>2 DEF LoopInv, TruthInv
      <3> QED BY <1>9, <2>2, <3>1
    <2> QED BY <1>1, <2>1, <2>2
  <1>11. TruthInv'
    BY <1>1, <1>2, <1>9, <1>10 DEF LoopInv, TruthInv
  <1> QED BY <1>7, <1>8, <1>11 DEF LoopInv

\* A request goes to the server and the loop waits.
LEMMA CallKeeps ==
  ASSUME LoopInv, phase \in {"stdin", "human"}, NEW m \in ClientLine, m.kind # "reply", m.n = sent',
         sent' \in 1..MaxClient, sent <= sent', m.id \in {NoId, m.n}, Call(m),
         m.n \notin Known(Reqs(inbox), OpenIds(open), Ofs(lines), Ofs(slot), Ofs(unsolicited), Ofs(toClient)),
         \A k \in forwarded : k.n # m.n, \A k \in forwarded' : k \in forwarded \/ k = m,
         UNCHANGED <<open, lines, unsolicited, toClient, asks, performed>>
  PROVE  GuardTypes' /\ CurInv' /\ FlightInv' /\ WireInv' /\ PlaceInv' /\ LateInv' /\ NumberInv'
  <1>1. pending = {} /\ slot = << >> /\ pending' = {m.id} /\ slot' = << >> /\ phase' = "wait" /\ cur' = m
        /\ inbox' = Append(inbox, m)
    BY DEF LoopInv, WireInv, Call
  <1>2. /\ inbox \in Seq(ClientLine) /\ UniqReqs(inbox)
    BY DEF LoopInv, GuardTypes, PlaceInv
  <1>3. inbox' \in Seq(ClientLine) /\ \A i \in DOMAIN inbox' : (i \in DOMAIN inbox /\ inbox'[i] = inbox[i]) \/ inbox'[i] = m
    BY <1>1, <1>2
  <1>4. PICK o, x : o = <<m>> /\ x = inbox'
    OBVIOUS
  <1>5. o \in Seq(ClientLine) /\ DOMAIN o = {1} /\ o[1] = m /\ x = inbox \o o
    BY <1>1, <1>2, <1>4, AppendIsCat, Single
  <1>6. Reqs(o) = (IF Request(m) THEN {m.n} ELSE {}) /\ UniqReqs(o)
    BY <1>5, OneLine
  <1>7. Reqs(x) = Reqs(inbox) \cup Reqs(o)
    BY <1>2, <1>5, CatSets
  <1>8. m.n \notin Reqs(inbox) /\ m.n \notin OpenIds(open) /\ m.n \notin Ofs(lines) /\ m.n \notin Ofs(slot)
        /\ m.n \notin Ofs(unsolicited) /\ m.n \notin Ofs(toClient)
    BY DEF Known
  <1>9. UniqReqs(x)
    <2>1. Reqs(inbox) \cap Reqs(o) = {}
      BY <1>6, <1>8
    <2> QED BY <1>2, <1>5, <1>6, <2>1, UniqReqsCat
  <1>10. sent \in Nat /\ sent' \in Nat /\ 1..sent \subseteq 1..sent' /\ sent' \in 0..MaxClient /\ sent' > 0
    BY GuardConstants DEF LoopInv, GuardTypes
  <1>11. GuardTypes'
    BY <1>1, <1>3, <1>10 DEF LoopInv, GuardTypes
  <1>12. CurInv' /\ WireInv'
    BY <1>1, <1>10 DEF CurInv, WireInv
  <1>13. FlightInv'
    <2>1. Request(m) => RequestOk(m, cur', forwarded')
      BY <1>1 DEF Request, RequestOk
    <2>2. FlightInv
      BY DEF LoopInv
    <2>3. cur'.n \notin Reqs(inbox) \cup OpenIds(open) \cup Ofs(lines)
      BY <1>1, <1>8
    <2>4. \A k \in forwarded' : k \in forwarded \/ k.n = cur'.n
      BY <1>1
    <2>5. \A i \in DOMAIN inbox' : Request(inbox'[i]) =>
            (\E j \in DOMAIN inbox : inbox'[i] = inbox[j]) \/ RequestOk(inbox'[i], cur', forwarded')
      BY <1>3, <2>1
    <2> QED BY <2>2, <2>3, <2>4, <2>5, FlightOn
  <1>14. PlaceInv'
    <2>1. PlaceInv
      BY DEF LoopInv
    <2>2. Apart(Reqs(inbox), OpenIds(open), Ofs(lines), Ofs(slot), Ofs(unsolicited), Ofs(toClient))
      BY <2>1 DEF PlaceInv
    <2>3. Apart(Reqs(x), OpenIds(open), Ofs(lines), Ofs(slot), Ofs(unsolicited), Ofs(toClient))
      BY <1>6, <1>7, <1>8, <2>2 DEF Apart
    <2>4. Known(Reqs(inbox), OpenIds(open), Ofs(lines), Ofs(slot), Ofs(unsolicited), Ofs(toClient)) \subseteq 1..sent'
      BY <1>10, <2>1 DEF PlaceInv
    <2>5. Known(Reqs(x), OpenIds(open), Ofs(lines), Ofs(slot), Ofs(unsolicited), Ofs(toClient)) \subseteq 1..sent'
      BY <1>6, <1>7, <1>10, <2>4 DEF Known
    <2> QED BY <1>1, <1>4, <1>9, <2>1, <2>3, <2>5 DEF PlaceInv
  <1>15. LateInv'
    <2>1. LateInv /\ MistIds(slot) = {}
      BY <1>1, EmptyQueue DEF LoopInv
    <2>2. Request(m) => m.id = m.n
      BY DEF Request
    <2> QED BY <1>1, <1>4, <1>6, <1>7, <1>10, <2>1, <2>2 DEF LateInv
  <1>16. NumberInv'
    BY <1>1, NumberFrame DEF LoopInv
  <1> QED BY <1>11, <1>12, <1>13, <1>14, <1>15, <1>16

LEMMA ApprovesInv ==
  ASSUME LoopInv, HumanApproves PROVE LoopInv'
  <1>1. /\ phase = "human" /\ Call(cur) /\ approved' = approved \cup {cur} /\ forwarded' = forwarded \cup {cur}
        /\ UNCHANGED <<known, unsolicited, open, performed, asks, lines, toClient, receipts, sent>>
    BY DEF HumanApproves
  <1>2. /\ cur \in ClientLine /\ cur.kind = "tools/call" /\ cur.n = sent /\ sent \in 1..MaxClient
        /\ cur.id \in {NoId, cur.n}
    BY <1>1, GuardConstants DEF LoopInv, GuardTypes, CurInv
  <1>3. phase' = "wait" /\ cur' = cur
    BY <1>1 DEF Call
  <1>4. \A k \in forwarded : k.n # cur.n
    BY <1>1 DEF LoopInv, TruthInv
  <1>5. GuardTypes' /\ CurInv' /\ FlightInv' /\ WireInv' /\ PlaceInv' /\ LateInv' /\ NumberInv'
    <2>1. cur.n \notin Known(Reqs(inbox), OpenIds(open), Ofs(lines), Ofs(slot), Ofs(unsolicited), Ofs(toClient))
      BY <1>1, <1>2 DEF LoopInv, PlaceInv
    <2>2. sent' = sent /\ sent' \in 1..MaxClient /\ sent <= sent' /\ cur.kind # "reply"
      BY <1>1, <1>2
    <2>3. \A k \in forwarded' : k \in forwarded \/ k = cur
      BY <1>1
    <2> QED BY <1>1, <1>2, <1>4, <2>1, <2>2, <2>3, CallKeeps
  <1>6. ShownInv'
    BY <1>1, <1>3 DEF LoopInv, ShownInv
  <1>7. ReceiptsTellTheTruth'
    <2>1. TruthInv /\ \A f \in receipts : f.body.call # cur.n
      BY <1>1 DEF LoopInv, TruthInv
    <2> QED BY <1>1, <2>1, ReceiptsStay DEF ReceiptsTellTheTruth, VerifyReceiptBytes
  <1>8. TruthInv'
    BY <1>1, <1>2, <1>3, <1>4, <1>7 DEF LoopInv, TruthInv
  <1> QED BY <1>5, <1>6, <1>8 DEF LoopInv

\* The answer, or what was taken for it, goes to the client; a listing is learnt as it is shown.
LEMMA ReturnsInv ==
  ASSUME LoopInv, Returns PROVE LoopInv'
  <1> DEFINE f == ReceiptFile(MintReceipt(cur, "executed", slot[1]))
  <1>1. /\ phase = "wait" /\ slot # << >> /\ phase' = "stdin" /\ cur' = NoLine /\ slot' = << >>
        /\ receipts' = IF cur.kind = "tools/call" THEN receipts \cup {f} ELSE receipts
        /\ known' = IF cur.kind = "tools/list" /\ slot[1].kind = "listing" THEN NoteToolsList(slot[1].listing) ELSE known
        /\ WriteThenDrain(IF cur.id # NoId THEN <<slot[1]>> ELSE << >>)
        /\ UNCHANGED <<pending, lines, inbox, open, performed, asks, approved, forwarded, sent>>
    BY DEF Returns, server
  <1>2. Filled /\ slot \in Seq(Line)
    BY <1>1 DEF LoopInv, WireInv, GuardTypes
  <1>3. cur.n = sent /\ sent \in 1..MaxClient /\ cur.id = sent /\ sent # NoId
    BY <1>1, <1>2, GuardConstants DEF LoopInv, GuardTypes, CurInv, Filled, NoId
  <1>4. PICK a : a = slot[1]
    OBVIOUS
  <1>5. /\ pending = {} /\ DOMAIN slot = {1} /\ slot = <<a>> /\ Len(slot) <= 1
    <2>1. Len(slot) = 1 /\ pending = {} /\ DOMAIN slot = 1..Len(slot)
      BY <1>2, LenProperties DEF Filled
    <2> QED BY <1>2, <1>4, <2>1
  <1>6. /\ a.id = sent /\ a.of # NoId /\ a \in Line
        /\ \/ a \in Answer /\ AnswerOk(a, cur, forwarded, performed) /\ a.of = sent /\ ~Own(a)
           \/ a \in MistLine /\ a.of = Mistaken /\ a.kind = "request" /\ Own(a)
    BY <1>2, <1>3, <1>4 DEF Filled, Line, AnswerOk, MistLine, Own, NoId, Mistaken
  <1>7. WriteThenDrain(slot)
    BY <1>1, <1>3, <1>4, <1>5
  <1>8. Ofs(slot) \subseteq {sent} /\ MistIds(slot) \subseteq {sent}
    <2>1. CASE Own(a)
      BY <1>4, <1>5, <1>6, <2>1, Members
    <2>2. CASE ~Own(a)
      BY <1>4, <1>5, <1>6, <2>2, Members
    <2> QED BY <2>1, <2>2
  <1>9. /\ GuardTypes' /\ CurInv' /\ FlightInv' /\ WireInv' /\ PlaceInv' /\ LateInv' /\ NumberInv'
        /\ \A t, e : Shown(toClient \o slot, t, e) => Shown(toClient', t, e)
        /\ \A t, e : Shown(toClient, t, e) /\ (\A i \in DOMAIN slot : ~Names(slot[i], t)) => Shown(toClient', t, e)
    <2>1. /\ inbox' \in Seq(ClientLine) /\ Reqs(inbox') = Reqs(inbox) /\ UniqReqs(inbox')
          /\ \A i \in DOMAIN inbox' : Request(inbox'[i]) => \E j \in DOMAIN inbox : inbox'[i] = inbox[j]
      BY <1>1, SameInbox
    <2>2. Ofs(slot) \cap (Reqs(inbox) \cup OpenIds(open) \cup Ofs(lines) \cup Ofs(unsolicited) \cup Ofs(toClient)) = {}
      BY DEF LoopInv, PlaceInv, Apart
    <2>3. sent' \in 0..MaxClient /\ sent <= sent' /\ pending' = {} /\ Ofs(slot) \subseteq 1..sent' /\ MistIds(slot) \subseteq 1..sent'
      BY <1>1, <1>3, <1>5, <1>8
    <2>4. \A i \in DOMAIN slot : slot[i].of # NoId
      BY <1>4, <1>5, <1>6
    <2> QED BY <1>1, <1>2, <1>5, <1>7, <2>1, <2>2, <2>3, <2>4, Drained
  <1>10. ShownInv'
    <2>1. \A t \in DOMAIN known : known[t] \in 0..BadHint /\ Shown(toClient, t, known[t])
      BY DEF LoopInv, ShownInv
    <2>2. CASE a.kind = "listing"
      <3>1. a.listing \in Listings /\ cur.kind = "tools/list" /\ known' = NoteToolsList(a.listing)
        BY <1>1, <1>3, <1>4, <1>6, <2>2 DEF AnswerOk, MistLine
      <3>2. ASSUME NEW t \in DOMAIN known' PROVE known'[t] \in 0..BadHint /\ Shown(toClient', t, known'[t])
        <4>1. CASE t \in DOMAIN a.listing
          <5>1. known'[t] = a.listing[t] /\ a.listing[t] \in 0..BadHint
            BY <3>1, <4>1, GuardConstants DEF NoteToolsList
          <5>2. Names(a, t) /\ toClient \in Seq(Line)
            BY <2>2, <4>1 DEF Names, LoopInv, GuardTypes
          <5>3. Shown(toClient \o <<a>>, t, a.listing[t])
            BY <1>6, <5>2, ShownNow
          <5>4. Shown(toClient \o slot, t, a.listing[t])
            BY <1>5, <5>3
          <5> QED BY <1>9, <5>1, <5>4
        <4>2. CASE t \notin DOMAIN a.listing
          <5>1. t \in DOMAIN known /\ known'[t] = known[t]
            BY <3>1, <3>2, <4>2 DEF NoteToolsList
          <5>2. \A i \in DOMAIN slot : ~Names(slot[i], t)
            BY <1>4, <1>5, <4>2 DEF Names
          <5> QED BY <1>9, <2>1, <5>1, <5>2
        <4> QED BY <4>1, <4>2
      <3> QED BY <1>1, <3>2 DEF ShownInv
    <2>3. CASE a.kind # "listing"
      <3>1. known' = known
        BY <1>1, <1>4, <2>3
      <3>2. \A t : \A i \in DOMAIN slot : ~Names(slot[i], t)
        BY <1>4, <1>5, <2>3 DEF Names
      <3> QED BY <1>1, <1>9, <2>1, <3>1, <3>2 DEF ShownInv
    <2> QED BY <2>2, <2>3
  <1>11. f.body.call = sent /\ f.body.decision = "executed" /\ f.body.result = a /\ VerifyReceiptBytes(f)
    BY <1>3, <1>4 DEF ReceiptFile, MintReceipt, VerifyReceiptBytes
  <1> HIDE DEF f
  <1>12. ReceiptsTellTheTruth'
    <2> SUFFICES ASSUME NEW g \in receipts'
                 PROVE  /\ VerifyReceiptBytes(g)
                        /\ g.body.decision = "denied" => {m \in forwarded : m.n = g.body.call} = {}
                        /\ g.body.decision = "executed" =>
                             /\ {m \in forwarded : m.n = g.body.call} # {}
                             /\ \/ g.body.result.of = g.body.call /\ {m \in forwarded : m.n = g.body.call} \subseteq performed
                                \/ g.body.result.of = Mistaken /\ g.body.result.id = g.body.call /\ g.body.result.kind = "request"
      BY <1>1 DEF ReceiptsTellTheTruth, VerifyReceiptBytes
    <2>1. CASE g \in receipts
      BY <2>1 DEF LoopInv, TruthInv, ReceiptsTellTheTruth
    <2>2. CASE g = f /\ cur.kind = "tools/call"
      <3>1. cur \in forwarded /\ cur \in {m \in forwarded : m.n = sent}
        BY <1>1, <1>3, <2>2 DEF LoopInv, TruthInv
      <3>2. CASE a \in Answer /\ AnswerOk(a, cur, forwarded, performed) /\ a.of = sent
        <4>1. {m \in forwarded : m.n = sent} \subseteq performed
          BY <3>2 DEF AnswerOk
        <4> QED BY <1>11, <2>2, <3>1, <3>2, <4>1
      <3>3. CASE a.of = Mistaken /\ a.kind = "request"
        BY <1>6, <1>11, <2>2, <3>1, <3>3
      <3> QED BY <1>6, <3>2, <3>3
    <2> QED BY <1>1, <2>1, <2>2
  <1>13. TruthInv'
    <2>1. \A g \in receipts' : g \in receipts \/ g = f
      BY <1>1
    <2> QED BY <1>1, <1>3, <1>11, <1>12, <2>1 DEF LoopInv, TruthInv
  <1> QED BY <1>9, <1>10, <1>13 DEF LoopInv

\* The client sent one more message: what is told of earlier ones stays true.
LEMMA SentOlder ==
  ASSUME LoopInv, UNCHANGED <<receipts, performed>>, sent' = sent + 1, sent' \in 0..MaxClient,
         phase' \in {"stdin", "human", "wait"}, phase' \in {"human", "wait"} => cur'.n = sent',
         \/ forwarded' = forwarded /\ (phase' = "wait" => cur'.kind # "tools/call")
         \/ forwarded' = forwarded \cup {cur'} /\ phase' = "wait" /\ cur'.kind = "tools/call"
  PROVE  TruthInv'
  <1>1. sent \in Nat /\ sent' \in Nat
    BY GuardConstants DEF LoopInv, GuardTypes
  <1>2. \A m \in forwarded : m.n \in 1..sent /\ m.kind = "tools/call"
    BY DEF LoopInv, TruthInv
  <1>3. \A g \in receipts : g.body.call \in 1..sent
    BY DEF LoopInv, TruthInv
  <1>4. ReceiptsTellTheTruth'
    <2>1. \A m \in forwarded' : m \in forwarded \/ \A f \in receipts : f.body.call # m.n
      BY <1>1, <1>3
    <2>2. TruthInv
      BY DEF LoopInv
    <2> QED BY <2>1, <2>2, ReceiptsStay DEF ReceiptsTellTheTruth, VerifyReceiptBytes
  <1>5. \A m \in forwarded' : m.n \in 1..sent' /\ m.kind = "tools/call"
    BY <1>1, <1>2
  <1>6. \A m, k \in forwarded' : m.n = k.n => m = k
    <2>1. \A m \in forwarded : m.n # sent'
      BY <1>1, <1>2
    <2> QED BY <2>1 DEF LoopInv, TruthInv
  <1>7. /\ phase' = "wait" /\ cur'.kind = "tools/call" => cur' \in forwarded'
        /\ phase' = "human" => \A m \in forwarded' : m.n # cur'.n
    BY <1>1, <1>2
  <1>8. \A g \in receipts' : g.body.call \in 1..sent' /\ (phase' \in {"human", "wait"} => g.body.call # cur'.n)
    BY <1>1, <1>3
  <1> QED BY <1>4, <1>5, <1>6, <1>7, <1>8 DEF TruthInv

LEMMA ClientSendsInv ==
  ASSUME LoopInv, NEW kind \in Requests, NEW hasId \in BOOLEAN, NEW t \in ServerTools \cup {"none"},
         ClientSends(kind, hasId, t)
  PROVE  LoopInv'
  <1> DEFINE m == [kind |-> kind, n |-> sent + 1, id |-> IF hasId THEN sent + 1 ELSE NoId, tool |-> t,
                   as |-> IF kind = "tools/call" THEN Classify(t) ELSE 0]
             denied == IF hasId THEN <<DeniedResult(m)>> ELSE << >>
  <1>1. /\ phase = "stdin" /\ sent < MaxClient /\ sent' = sent + 1
        /\ UNCHANGED <<known, open, performed, asks, lines, receipts, approved>>
    BY DEF ClientSends
  <1>2. \/ /\ WriteThenDrain(denied) /\ UNCHANGED <<phase, cur, pending, slot, inbox, forwarded>>
        \/ /\ kind = "tools/call" /\ phase' = "human" /\ cur' = m
           /\ UNCHANGED <<pending, slot, unsolicited, inbox, forwarded, toClient>>
        \/ /\ kind = "tools/call" /\ ~GateRequiresApproval(t) /\ Call(m) /\ forwarded' = forwarded \cup {m}
           /\ UNCHANGED <<unsolicited, toClient>>
        \/ kind # "tools/call" /\ Call(m) /\ UNCHANGED <<unsolicited, forwarded, toClient>>
        \/ /\ ~hasId /\ inbox' = Append(inbox, m) /\ WriteThenDrain(<< >>)
           /\ UNCHANGED <<phase, cur, pending, slot, forwarded>>
    BY DEF ClientSends
  <1>3. sent \in Nat /\ sent' \in 1..MaxClient /\ sent' \in 0..MaxClient /\ sent' \in Nat
    BY <1>1, GuardConstants DEF LoopInv, GuardTypes
  <1>4. Classify(t) \in 0..BadHint
    BY DEF LoopInv, ShownInv, Classify, Unannotated, BadHint
  <1>5. /\ m \in ClientLine /\ m.kind = kind /\ kind # "reply" /\ m.n = sent' /\ m.tool = t
        /\ m.id \in {NoId, m.n} /\ (hasId => m.id = sent') /\ (~hasId => m.id = NoId)
    <2>1. (IF kind = "tools/call" THEN Classify(t) ELSE 0) \in 0..BadHint
      BY <1>4 DEF BadHint
    <2>2. (IF hasId THEN sent + 1 ELSE NoId) \in 0..MaxClient
      BY <1>1, <1>3, GuardConstants DEF NoId
    <2>3. sent + 1 \in 0..MaxClient
      BY <1>1, <1>3
    <2> HIDE DEF NoId
    <2> QED BY <1>1, <2>1, <2>2, <2>3 DEF ClientLine, Requests
  <1> HIDE DEF m
  <1>6. pending = {} /\ slot = << >> /\ cur = NoLine /\ Numbers(slot) = {} /\ MistIds(slot) = {}
    BY <1>1, EmptyQueue DEF LoopInv, WireInv, CurInv
  <1>7. sent' \notin Known(Reqs(inbox), OpenIds(open), Ofs(lines), Ofs(slot), Ofs(unsolicited), Ofs(toClient))
    <2>1. Known(Reqs(inbox), OpenIds(open), Ofs(lines), Ofs(slot), Ofs(unsolicited), Ofs(toClient)) \subseteq 1..sent
      BY DEF LoopInv, PlaceInv
    <2>2. sent' \notin 1..sent
      BY <1>1, <1>3
    <2> QED BY <2>1, <2>2
  <1>8. /\ denied \in Seq(Line) /\ Len(denied) <= 1
        /\ \A i \in DOMAIN denied : denied[i].of # NoId /\ \A u : ~Names(denied[i], u)
        /\ Numbers(denied) = {} /\ MistIds(denied) = {} /\ Ofs(denied) \subseteq {sent'}
    <2>1. CASE ~hasId
      <3>1. denied = << >>
        BY <2>1
      <3> HIDE DEF denied
      <3> QED BY <3>1, NoAnswers
    <2>2. CASE hasId
      <3>1. denied = <<DeniedResult(m)>> /\ m.id = sent'
        BY <1>5, <2>2
      <3> HIDE DEF denied
      <3> QED BY <1>3, <3>1, OneRefusal
    <2> QED BY <2>1, <2>2
  <1> HIDE DEF denied
  <1>9. sent <= sent'
    BY <1>1, <1>3
  <1>10. ASSUME NEW answers \in Seq(Line), Len(answers) <= 1,
                \A i \in DOMAIN answers : answers[i].of # NoId /\ \A u : ~Names(answers[i], u),
                Numbers(answers) = {}, MistIds(answers) = {}, Ofs(answers) \subseteq {sent'},
                WriteThenDrain(answers), UNCHANGED <<phase, cur, pending, slot, forwarded>>,
                inbox' \in Seq(ClientLine), Reqs(inbox') = Reqs(inbox), UniqReqs(inbox'),
                \A i \in DOMAIN inbox' : Request(inbox'[i]) => \E j \in DOMAIN inbox : inbox'[i] = inbox[j]
         PROVE  LoopInv'
    <2>1. slot' = << >> /\ pending' = {} /\ phase' = "stdin" /\ cur' = NoLine
      BY <1>1, <1>6, <1>10
    <2>2. Ofs(answers) \cap (Reqs(inbox) \cup OpenIds(open) \cup Ofs(lines) \cup Ofs(unsolicited) \cup Ofs(toClient)) = {}
      BY <1>7, <1>10 DEF Known
    <2>3. /\ Ofs(answers) \subseteq 1..sent' /\ MistIds(answers) \subseteq 1..sent' /\ MistIds(slot) \subseteq MistIds(answers)
          /\ Numbers(answers) = Numbers(slot)
      BY <1>3, <1>6, <1>10
    <2>4. /\ GuardTypes' /\ CurInv' /\ FlightInv' /\ WireInv' /\ PlaceInv' /\ LateInv' /\ NumberInv'
          /\ \A u, e : Shown(toClient, u, e) /\ (\A i \in DOMAIN answers : ~Names(answers[i], u)) => Shown(toClient', u, e)
      BY <1>1, <1>3, <1>6, <1>9, <1>10, <2>1, <2>2, <2>3, Drained
    <2>5. ShownInv'
      BY <1>1, <1>10, <2>1, <2>4 DEF LoopInv, ShownInv
    <2>6. TruthInv'
      BY <1>1, <1>3, <1>10, <2>1, SentOlder
    <2> QED BY <2>4, <2>5, <2>6 DEF LoopInv
  <1>11. ASSUME WriteThenDrain(denied), UNCHANGED <<phase, cur, pending, slot, inbox, forwarded>> PROVE LoopInv'
    BY <1>8, <1>10, <1>11, SameInbox
  <1>12. ASSUME kind = "tools/call", phase' = "human", cur' = m,
                UNCHANGED <<pending, slot, unsolicited, inbox, forwarded, toClient>>
         PROVE  LoopInv'
    <2>1. GuardTypes' /\ CurInv' /\ WireInv'
      BY <1>1, <1>3, <1>5, <1>6, <1>12 DEF LoopInv, GuardTypes, CurInv, WireInv
    <2>2. FlightInv'
      <3>1. cur'.n \notin Reqs(inbox) \cup OpenIds(open) \cup Ofs(lines)
        BY <1>5, <1>7, <1>12 DEF Known
      <3>2. FlightInv /\ \A i \in DOMAIN inbox' : Request(inbox'[i]) => \E j \in DOMAIN inbox : inbox'[i] = inbox[j]
        BY <1>12 DEF LoopInv
      <3> QED BY <1>1, <1>12, <3>1, <3>2, FlightOn
    <2>3. PlaceInv'
      <3>1. 1..sent \subseteq 1..sent'
        BY <1>1, <1>3
      <3> QED BY <1>1, <1>7, <1>12, <3>1 DEF LoopInv, PlaceInv
    <2>4. LateInv'
      <3>1. 1..sent \subseteq 1..sent'
        BY <1>1, <1>3
      <3> QED BY <1>1, <1>12, <3>1 DEF LoopInv, LateInv
    <2>5. ShownInv'
      BY <1>1, <1>12 DEF LoopInv, ShownInv
    <2>6. TruthInv'
      BY <1>1, <1>3, <1>5, <1>12, SentOlder
    <2>7. NumberInv'
      BY <1>1, <1>12, NumberFrame DEF LoopInv
    <2> QED BY <2>1, <2>2, <2>3, <2>4, <2>5, <2>6, <2>7 DEF LoopInv
  <1>13. ASSUME Call(m), UNCHANGED <<unsolicited, toClient>>,
                \/ kind = "tools/call" /\ ~GateRequiresApproval(t) /\ forwarded' = forwarded \cup {m}
                \/ kind # "tools/call" /\ forwarded' = forwarded
         PROVE  LoopInv'
    <2>1. phase' = "wait" /\ cur' = m
      BY <1>13 DEF Call
    <2>2. \A k \in forwarded : k.n # m.n
      <3>1. \A k \in forwarded : k.n \in 1..sent
        BY DEF LoopInv, TruthInv
      <3> QED BY <1>1, <1>3, <1>5, <3>1
    <2>3. GuardTypes' /\ CurInv' /\ FlightInv' /\ WireInv' /\ PlaceInv' /\ LateInv' /\ NumberInv'
      <3>1. \A k \in forwarded' : k \in forwarded \/ k = m
        BY <1>13
      <3>2. m.n \notin Known(Reqs(inbox), OpenIds(open), Ofs(lines), Ofs(slot), Ofs(unsolicited), Ofs(toClient))
        BY <1>5, <1>7
      <3> QED BY <1>1, <1>3, <1>5, <1>9, <1>13, <2>2, <3>1, <3>2, CallKeeps
    <2>4. ShownInv'
      <3>1. kind = "tools/call" => t \in DOMAIN known /\ known[t] < GateThreshold
        BY <1>4, <1>13, GuardConstants DEF GateRequiresApproval, Classify, Unannotated, BadHint, LoopInv, ShownInv
      <3> QED BY <1>1, <1>5, <1>13, <2>1, <3>1 DEF LoopInv, ShownInv
    <2>5. TruthInv'
      BY <1>1, <1>3, <1>5, <1>13, <2>1, SentOlder
    <2> QED BY <2>3, <2>4, <2>5 DEF LoopInv
  <1>14. ASSUME ~hasId, inbox' = Append(inbox, m), WriteThenDrain(<< >>),
                UNCHANGED <<phase, cur, pending, slot, forwarded>>
         PROVE  LoopInv'
    <2>1. ~Request(m)
      BY <1>5, <1>14 DEF Request
    <2>2. /\ inbox' \in Seq(ClientLine) /\ Reqs(inbox') = Reqs(inbox) /\ UniqReqs(inbox')
          /\ \A i \in DOMAIN inbox' : Request(inbox'[i]) => \E j \in DOMAIN inbox : inbox'[i] = inbox[j]
      BY <1>5, <1>14, <2>1, AppendOther
    <2> QED BY <1>10, <1>14, <2>2, NoAnswers
  <1> QED BY <1>2, <1>11, <1>12, <1>13, <1>14

\* Several guards start on one state directory.
LEMMA SeedRaceKeeps ==
  ASSUME SeedInv, SeedRace PROVE SeedInv'
  <1>1. PICK g \in Guards : SeedChecks(g) \/ SeedCreates(g) \/ SeedWrites(g) \/ KeyDerives(g)
    BY DEF SeedRace
  <1>2. PICK step, s : Seed(g, step, s) /\ seedPc[g] # step
        /\ \/ /\ seedPc[g] = "check" /\ seedFile' = seedFile
              /\ step = "loaded" => seedFile.exists /\ s = seedFile.seed
              /\ step \in {"create", "loaded", "failed"}
           \/ /\ seedPc[g] = "create" /\ seedFile' = seedFile /\ seedFile.exists
              /\ step = "loaded" /\ s = seedFile.seed
           \/ /\ seedPc[g] = "create" /\ ~seedFile.exists /\ step = "write" /\ s.whole
              /\ seedFile' = [exists |-> TRUE, seed |-> NoSeed]
           \/ /\ seedPc[g] = "write" /\ step = "loaded" /\ s = seedOf[g]
              /\ seedFile' = [seedFile EXCEPT !.seed = seedOf[g]]
           \/ /\ seedPc[g] = "loaded" /\ s = seedOf[g] /\ step \in {"running", "failed"} /\ seedFile' = seedFile
              /\ step = "running" => s.whole
    <2>1. CASE SeedChecks(g)
      BY <2>1 DEF SeedChecks
    <2>2. CASE SeedCreates(g)
      <3>1. CASE seedFile.exists
        BY <2>2, <3>1 DEF SeedCreates
      <3>2. CASE ~seedFile.exists
        <4>1. [owner |-> g, whole |-> TRUE].whole
          OBVIOUS
        <4> QED BY <2>2, <3>2, <4>1 DEF SeedCreates
      <3> QED BY <3>1, <3>2
    <2>3. CASE SeedWrites(g)
      BY <2>3 DEF SeedWrites
    <2>4. CASE KeyDerives(g)
      <3>1. CASE seedOf[g].whole
        BY <2>4, <3>1 DEF KeyDerives
      <3>2. CASE ~seedOf[g].whole
        BY <2>4, <3>2 DEF KeyDerives
      <3> QED BY <3>1, <3>2
    <2> QED BY <1>1, <2>1, <2>2, <2>3, <2>4
  <1>3. /\ seedPc' = [seedPc EXCEPT ![g] = step] /\ seedOf' = [seedOf EXCEPT ![g] = s]
        /\ DOMAIN seedPc = Guards /\ DOMAIN seedOf = Guards
    BY <1>2 DEF Seed, SeedInv
  <1>4. DOMAIN seedFile' = {"exists", "seed"}
    BY <1>2 DEF SeedInv
  <1>5. /\ DOMAIN seedPc' = Guards /\ DOMAIN seedOf' = Guards /\ seedPc'[g] = step /\ seedOf'[g] = s
        /\ \A h \in Guards : h # g => seedPc'[h] = seedPc[h] /\ seedOf'[h] = seedOf[h]
    BY <1>3
  <1>6. ~NoSeed.whole
    BY DEF NoSeed
  <1>7. /\ \A h \in Guards : seedPc[h] \in {"write", "loaded", "running"} => seedFile.exists
        /\ \A h \in Guards : seedPc[h] = "write" => ~seedFile.seed.whole /\ seedOf[h].whole
        /\ \A h, k \in Guards : seedPc[h] = "write" /\ seedPc[k] = "write" => h = k
        /\ \A h \in Guards : seedPc[h] \in {"loaded", "running"} /\ seedOf[h].whole => seedOf[h] = seedFile.seed
        /\ \A h \in Guards : seedPc[h] = "running" => seedOf[h].whole
    BY DEF SeedInv
  <1>8. CASE seedPc[g] = "check"
    <2>1. seedFile' = seedFile /\ step \in {"create", "loaded", "failed"} /\ (step = "loaded" => seedFile.exists /\ s = seedFile.seed)
      BY <1>2, <1>8
    <2> QED BY <1>5, <1>7, <1>4, <1>8, <2>1 DEF SeedInv
  <1>9. CASE seedPc[g] = "create" /\ seedFile.exists
    <2>1. seedFile' = seedFile /\ step = "loaded" /\ s = seedFile.seed
      BY <1>2, <1>9
    <2> QED BY <1>5, <1>7, <1>4, <1>9, <2>1 DEF SeedInv
  <1>10. CASE seedPc[g] = "create" /\ ~seedFile.exists
    <2>1. step = "write" /\ s.whole /\ seedFile' = [exists |-> TRUE, seed |-> NoSeed]
      BY <1>2, <1>10
    <2>2. seedFile'.exists /\ ~seedFile'.seed.whole
      BY <1>6, <2>1
    <2> QED BY <1>5, <1>7, <1>4, <1>10, <2>1, <2>2 DEF SeedInv
  <1>11. CASE seedPc[g] = "write"
    <2>1. step = "loaded" /\ s = seedOf[g] /\ seedFile' = [seedFile EXCEPT !.seed = seedOf[g]]
      BY <1>2, <1>11
    <2>2. seedFile'.exists /\ seedFile'.seed = s
      BY <1>7, <1>11, <2>1
    <2>3. \A h \in Guards : h # g => seedPc'[h] # "write" /\ (seedPc'[h] \in {"loaded", "running"} => ~seedOf'[h].whole)
      BY <1>5, <1>7, <1>11
    <2> QED BY <1>5, <1>7, <1>4, <1>11, <2>1, <2>2, <2>3 DEF SeedInv
  <1>12. CASE seedPc[g] = "loaded"
    <2>1. s = seedOf[g] /\ step \in {"running", "failed"} /\ seedFile' = seedFile /\ (step = "running" => s.whole)
      BY <1>2, <1>12
    <2> QED BY <1>5, <1>7, <1>4, <1>12, <2>1 DEF SeedInv
  <1> QED BY <1>2, <1>8, <1>9, <1>10, <1>11, <1>12

\* The rest of the state does not see who starts.
LEMMA LoopFrame ==
  ASSUME LoopInv, UNCHANGED <<phase, cur, known, pending, slot, unsolicited, inbox, open, lines, toClient, receipts,
                             approved, forwarded, performed, sent, asks>>
  PROVE  LoopInv'
  <1>1. CurInv' /\ ShownInv' /\ TruthInv' /\ WireInv' /\ NumberInv'
    BY CurFrame, ShownFrame, TruthFrame, WireFrame, NumberFrame DEF LoopInv
  <1>2. GuardTypes' /\ FlightInv'
    BY DEF LoopInv, GuardTypes, FlightInv
  <1>3. PlaceInv' /\ LateInv'
    BY DEF LoopInv, PlaceInv, LateInv
  <1> QED BY <1>1, <1>2, <1>3 DEF LoopInv

LEMMA StoppedFrame ==
  ASSUME GuardianHonest, phase = "stopped", SeedInv',
         UNCHANGED <<phase, slot, cur, toClient, receipts, forwarded, performed, sent>>
  PROVE  GuardianHonest'
  <1>1. GatedAsShown'
    BY DEF GatedAsShown
  <1>2. ReceiptsTellTheTruth'
    BY DEF GuardianHonest, ReceiptsTellTheTruth, VerifyReceiptBytes
  <1>3. ClientHearsRight'
    <2>1. /\ \A i, j \in DOMAIN toClient : ~Own(toClient[i]) /\ toClient[i].of = toClient[j].of => i = j
          /\ \A i \in DOMAIN toClient : toClient[i].of = Mistaken => toClient[i].kind = "request" /\ toClient[i].id \in 1..sent
          /\ \A i, j \in DOMAIN toClient : i < j /\ Own(toClient[i]) /\ Own(toClient[j]) =>
               IF toClient[i].of = NoId THEN toClient[i].n < toClient[j].n ELSE toClient[i].n # toClient[j].n
          /\ \A n \in Numbers(toClient) : 1..n \subseteq Numbers(toClient)
          /\ slot # << >> => slot[1].id = cur.id /\ slot[1].of \in {cur.id, Mistaken}
      BY DEF GuardianHonest, ClientHearsRight
    <2> QED BY <2>1 DEF ClientHearsRight
  <1>4. OneIdentity'
    BY DEF SeedInv, OneIdentity
  <1> QED BY <1>1, <1>2, <1>3, <1>4 DEF GuardianHonest

LEMMA GuardStepKeeps ==
  ASSUME GuardInv, [GuardianNext \/ SeedRace]_guardianvars PROVE GuardInv'
  <1>1. ASSUME LoopInv', SeedInv' PROVE GuardInv'
    BY <1>1 DEF GuardInv, LoopInv, GuardTypes
  <1>2. CASE GuardLoop
    <2>1. phase # "stopped" /\ UNCHANGED seeds
      <3>1. CASE \E k \in Requests, b \in BOOLEAN, t \in ServerTools \cup {"none"} : ClientSends(k, b, t)
        BY <3>1 DEF ClientSends
      <3>2. CASE \E i \in ServerIds : ClientReplies(i)
        BY <3>2 DEF ClientReplies
      <3>3. CASE HumanRefuses \/ HumanApproves \/ Stops
        BY <3>3 DEF HumanRefuses, HumanApproves, Stops
      <3>4. CASE TimesOut \/ Returns \/ ReadsLine
        BY <3>4 DEF TimesOut, Returns, ReadsLine
      <3> QED BY <1>2, <3>1, <3>2, <3>3, <3>4, Zenon DEF GuardLoop
    <2>2. LoopInv /\ SeedInv /\ SeedInv'
      BY <2>1, SeedFrame DEF GuardInv
    <2>3. CASE \E k \in Requests, b \in BOOLEAN, t \in ServerTools \cup {"none"} : ClientSends(k, b, t)
      BY <1>1, <2>2, <2>3, ClientSendsInv, Zenon
    <2>4. CASE \E i \in ServerIds : ClientReplies(i)
      BY <1>1, <2>2, <2>4, ClientRepliesInv, Zenon
    <2>5. CASE HumanRefuses \/ HumanApproves \/ Returns \/ ReadsLine
      BY <1>1, <2>2, <2>5, RefusesInv, ApprovesInv, ReturnsInv, ReadsLineInv, Zenon
    <2>6. CASE Stops \/ TimesOut
      <3>1. phase' = "stopped" /\ GuardianHonest'
        BY <2>2, <2>6, StoppingInv
      <3> QED BY <2>2, <3>1 DEF GuardInv
    <2> QED BY <1>2, <2>3, <2>4, <2>5, <2>6, Zenon DEF GuardLoop
  <1>3. CASE WrappedServer
    <2>1. phase # "stopped" /\ UNCHANGED seeds
      BY <1>3 DEF WrappedServer, ServerTakes, ServerAnswers, ServerAsks, Says, seeds
    <2>2. LoopInv /\ SeedInv /\ SeedInv'
      BY <2>1, SeedFrame DEF GuardInv
    <2>3. CASE ServerTakes
      BY <1>1, <2>2, <2>3, ServerTakesInv, Zenon
    <2>4. CASE \E m \in open, l \in Listings : ServerAnswers(m, l)
      BY <1>1, <2>2, <2>4, ServerAnswersInv, Zenon
    <2>5. CASE \E i \in ServerIds \cup {NoId} : ServerAsks(i)
      BY <1>1, <2>2, <2>5, ServerAsksInv, Zenon
    <2> QED BY <1>3, <2>3, <2>4, <2>5, Zenon DEF WrappedServer
  <1>4. CASE SeedRace \/ UNCHANGED guardianvars
    <2>1. UNCHANGED <<phase, cur, known, pending, slot, unsolicited, inbox, open, lines, toClient, receipts,
                      approved, forwarded, performed, sent, asks>>
      BY <1>4 DEF SeedRace, SeedChecks, SeedCreates, SeedWrites, KeyDerives, loop, server, reader, record, guardianvars
    <2>2. SeedInv
      BY DEF GuardInv
    <2>3. SeedInv'
      <3>1. CASE SeedRace
        BY <2>2, <3>1, SeedRaceKeeps
      <3>2. CASE UNCHANGED guardianvars
        BY <2>2, <3>2, SeedFrame DEF guardianvars, seeds
      <3> QED BY <1>4, <3>1, <3>2
    <2>4. CASE phase # "stopped"
      <3>1. LoopInv
        BY <2>4 DEF GuardInv
      <3>2. LoopInv'
        BY <2>1, <3>1, LoopFrame
      <3> QED BY <1>1, <2>3, <3>2
    <2>5. CASE phase = "stopped"
      <3>1. GuardianHonest
        BY <2>5 DEF GuardInv
      <3>2. GuardianHonest'
        BY <2>1, <2>3, <2>5, <3>1, StoppedFrame
      <3> QED BY <2>1, <2>3, <2>5, <3>2 DEF GuardInv
    <2> QED BY <2>4, <2>5
  <1> QED BY <1>2, <1>3, <1>4, Zenon DEF GuardianNext

LEMMA GuardInvHonest == ASSUME GuardInv PROVE GuardianHonest
  BY LoopHonest DEF GuardInv

\* What the guard is at every moment, whatever client, human and server do and however the
\* server numbers its requests: one message at work; each request in one place; the tools known
\* as the client was shown them; the receipts true; the server's messages in order; one seed
\* (cli.py, effect_gate.py).
THEOREM GuardInvariant == GuardSpec => []GuardInv
  <1>1. GuardianInit => GuardInv
    BY GuardInitInv
  <1>2. GuardInv /\ [GuardianNext \/ SeedRace]_guardianvars => GuardInv'
    BY GuardStepKeeps
  <1> QED BY <1>1, <1>2, PTL DEF GuardSpec

\* A call is let through only as the client was shown its tool or with an approval of its own;
\* receipts tell what happened; no request is answered twice, and what stands in an answer's
\* place is a request of the server's with the same id; the server's messages reach the client
\* once each and without gaps; guards on one directory have one identity.  For any tools,
\* listings, number of messages and ids of the server's, the client's among them (cli.py,
\* effect_gate.py, receipt.py, identity.py).
THEOREM GuardStaysHonest == GuardSpec => []GuardianHonest
  <1>1. GuardInv => GuardianHonest
    BY GuardInvHonest
  <1> QED BY <1>1, GuardInvariant, PTL

(***************************************************************************)
(* The guards of the agent frameworks                                      *)
(***************************************************************************)
Effects == NoEffect..Destructive
Ids == {ArgsContentId(a) : a \in Args}
AnyId == {ContentId(fw, a) : fw \in Frameworks, a \in Args}

ChainRecord ==
  [what : {"call", "result", "event"}, session : Sessions, tool : Tools \cup {"none"}, args : Args \cup {"none"},
   effect : Effects, cause : Nat, life : Nat]
Minting == [binds : AnyId, tool : Tools \cup {"none"}, args : Args]
Held == [status : {"absent", "pending", "approved", "edited", "rejected"}, tool : Tools \cup {"none"}, effect : Effects,
         by : Nat]
CallState ==
  [pc : {"idle", "wait", "enter", "run", "ran"}, tool : Tools \cup {"none"}, args : Args \cup {"none"},
   session : Sessions \cup {"none"}, effect : Effects, by : Nat, final : Args \cup {"none"}, side : {"client", "server"}]
RunRecord ==
  [tool : Tools \cup {"none"}, args : Args \cup {"none"}, by : Nat, shown : Args \cup {"none"}, effect : Effects, at : Nat]

FrameTypes ==
  /\ framework \in Frameworks /\ life \in Nat
  /\ chain \in Seq(ChainRecord) /\ minted \in Seq(Minting) /\ ran \in Seq(RunRecord)
  /\ call \in [Calls -> CallState]

\* What a session remembers is its latest record in this life of the process.
ChainInv ==
  /\ last \in [Sessions -> Nat]
  /\ \A k \in DOMAIN chain : chain[k].life <= life
  /\ \A s \in Sessions : last[s] # 0 =>
       last[s] \in DOMAIN chain /\ chain[last[s]].session = s /\ chain[last[s]].life = life
  /\ \A k \in DOMAIN chain : chain[k].life = life => k <= last[chain[k].session]
  /\ ChainIsLinear

\* An approval in the store was minted for the id it is stored under.
StoreOk(st, mt) ==
  /\ st \in [Ids -> Held]
  /\ \A x \in Ids : st[x].status = "approved" => st[x].by \in DOMAIN mt /\ mt[st[x].by].binds = x

\* A call past its decision has its approval, and one that may run has its record.
Covered(effect, by, tool, args) ==
  Approves /\ RequiresApproval(effect) =>
    /\ by \in DOMAIN minted /\ minted[by].binds = ArgsContentId(args)
    /\ framework # "msaf" => minted[by].tool = tool /\ minted[by].args = args
HasRecord(tool, args, effect, n) ==
  \E k \in 1..n : chain[k].what = "call" /\ chain[k].tool = tool /\ chain[k].args = args /\ chain[k].effect = effect

CallOk(k) ==
  /\ k.by <= Len(minted)
  /\ k.pc # "idle" => k.session \in Sessions /\ k.tool \in Tools /\ k.args \in Args /\ k.final \in Args
  /\ k.pc \in {"wait", "enter"} => k.final = k.args
  /\ k.pc \in {"enter", "run", "ran"} => Covered(k.effect, k.by, k.tool, k.final)
  /\ k.pc \in {"run", "ran"} \/ (k.pc = "wait" /\ Adapter[framework].inFrame) =>
       Authorized(k.effect) /\ HasRecord(k.tool, k.args, k.effect, Len(chain))

CallInv == \A c \in Calls : CallOk(call[c])

RunOk(r) ==
  /\ r.by <= Len(minted) /\ r.at <= Len(chain)
  /\ Covered(r.effect, r.by, r.tool, r.args)
  /\ Authorized(r.effect) /\ HasRecord(r.tool, r.shown, r.effect, r.at)

RunInv == \A i \in DOMAIN ran : RunOk(ran[i])

\* An approval belongs to one call until it has run, and then to one run.
Holding(k) == k.pc \in {"enter", "run"} /\ k.by # 0
OnceInv ==
  framework # "msaf" =>
    /\ \A c, d \in Calls : Holding(call[c]) /\ Holding(call[d]) /\ call[c].by = call[d].by => c = d
    /\ \A c \in Calls, i \in DOMAIN ran : Holding(call[c]) => ran[i].by # call[c].by
    /\ \A i, j \in DOMAIN ran : ran[i].by # 0 /\ ran[i].by = ran[j].by => i = j

\* A receipt that was signed, or that a call which ran still owes, is for a run of its own.
Receipts(tool, args) ==
  {k \in DOMAIN chain : chain[k].what = "result" /\ chain[k].tool = tool /\ chain[k].args = args}
Owed(tool, args) == {c \in Calls : call[c].pc = "ran" /\ call[c].tool = tool /\ call[c].final = args}
RunsOf(tool, args) == {i \in DOMAIN ran : ran[i].tool = tool /\ ran[i].args = args}
ReceiptInv ==
  \A tool \in Tools, args \in Args :
    Cardinality(Receipts(tool, args)) + Cardinality(Owed(tool, args)) <= Cardinality(RunsOf(tool, args))

FrameInv ==
  /\ FrameTypes /\ ChainInv /\ StoreOk(store, minted) /\ CallInv /\ RunInv /\ OnceInv /\ ReceiptInv

LEMMA Grown ==
  ASSUME NEW S, NEW q \in Seq(S), NEW x \in S, NEW r, r = Append(q, x)
  PROVE  /\ r \in Seq(S) /\ Len(q) \in Nat /\ Len(r) = Len(q) + 1
         /\ DOMAIN q = 1..Len(q) /\ DOMAIN r = 1..(Len(q) + 1)
         /\ \A i \in 1..Len(q) : r[i] = q[i]
         /\ r[Len(q) + 1] = x
  BY LenProperties, AppendProperties

ChainGrew ==
  /\ chain' \in Seq(ChainRecord) /\ Len(chain) <= Len(chain')
  /\ \A k \in 1..Len(chain) : chain'[k] = chain[k]
MintGrew ==
  /\ minted' \in Seq(Minting) /\ Len(minted) <= Len(minted')
  /\ \A k \in 1..Len(minted) : minted'[k] = minted[k]
NoNewReceipt == \A k \in DOMAIN chain' : chain'[k].what = "result" => k \in DOMAIN chain

LEMMA FrameLengths ==
  ASSUME FrameTypes
  PROVE  /\ Len(chain) \in Nat /\ DOMAIN chain = 1..Len(chain)
         /\ Len(minted) \in Nat /\ DOMAIN minted = 1..Len(minted)
         /\ Len(ran) \in Nat /\ DOMAIN ran = 1..Len(ran)
  BY LenProperties DEF FrameTypes

LEMMA NothingGrew ==
  ASSUME FrameTypes
  PROVE  /\ chain' = chain => ChainGrew /\ NoNewReceipt
         /\ minted' = minted => MintGrew
  <1>1. Len(chain) \in Nat /\ Len(minted) \in Nat
    BY FrameLengths
  <1>2. minted' = minted => minted' \in Seq(Minting)
    BY DEF FrameTypes
  <1> QED BY <1>1, <1>2 DEF ChainGrew, MintGrew, NoNewReceipt, FrameTypes

\* A record names the latest one of its session and becomes it.
LEMMA CaptureKeeps ==
  ASSUME FrameTypes, ChainInv, NEW what \in {"call", "result", "event"}, NEW s \in Sessions,
         NEW tool \in Tools \cup {"none"}, NEW args \in Args \cup {"none"}, NEW effect \in Effects,
         Capture(what, s, tool, args, effect), life' = life
  PROVE  /\ ChainInv' /\ ChainGrew /\ (what # "result" => NoNewReceipt)
         /\ Len(chain') = Len(chain) + 1
         /\ LET r == chain'[Len(chain) + 1] IN r.what = what /\ r.tool = tool /\ r.args = args /\ r.effect = effect
  <1> DEFINE r == [what |-> what, session |-> s, tool |-> tool, args |-> args,
                   effect |-> effect, cause |-> last[s], life |-> life]
             n == Len(chain) + 1
  <1>1. chain' = Append(chain, r) /\ last' = [last EXCEPT ![s] = Len(chain')]
    BY DEF Capture
  <1>2. r \in ChainRecord
    BY DEF FrameTypes, ChainInv, ChainRecord
  <1>3. /\ chain' \in Seq(ChainRecord) /\ Len(chain) \in Nat /\ Len(chain') = n
        /\ DOMAIN chain = 1..Len(chain) /\ DOMAIN chain' = 1..n
        /\ \A i \in 1..Len(chain) : chain'[i] = chain[i]
        /\ chain'[n] = r
    BY <1>1, <1>2, Grown DEF FrameTypes
  <1>4. r.what = what /\ r.session = s /\ r.tool = tool /\ r.args = args /\ r.effect = effect /\ r.cause = last[s] /\ r.life = life
    OBVIOUS
  <1>5. \A k \in 1..Len(chain) : chain[k] \in ChainRecord /\ chain[k].session \in Sessions /\ chain[k].life \in Nat /\ chain[k].cause \in Nat
    <2>1. \A k \in 1..Len(chain) : chain[k] \in ChainRecord
      BY <1>3, ElementOfSeq DEF FrameTypes
    <2> QED BY <2>1 DEF ChainRecord
  <1>6. /\ last \in [Sessions -> Nat] /\ life \in Nat
        /\ \A k \in 1..Len(chain) : chain[k].life <= life
        /\ \A z \in Sessions : last[z] # 0 =>
             last[z] \in 1..Len(chain) /\ chain[last[z]].session = z /\ chain[last[z]].life = life
        /\ \A k \in 1..Len(chain) : chain[k].life = life => k <= last[chain[k].session]
        /\ \A k \in 1..Len(chain) :
             /\ chain[k].cause # 0 => chain[k].cause \in 1..(k - 1) /\ OfOneLife(chain[k].cause, k)
             /\ \A j \in 1..(k - 1) : OfOneLife(j, k) => j <= chain[k].cause
    BY <1>3 DEF FrameTypes, ChainInv, ChainIsLinear
  <1> HIDE DEF r
  <1>7. last' \in [Sessions -> Nat] /\ last'[s] = n /\ \A z \in Sessions : z # s => last'[z] = last[z]
    BY <1>1, <1>3, <1>6
  <1>8. \A k \in DOMAIN chain' : chain'[k].life <= life'
    BY <1>3, <1>4, <1>6
  <1>9. \A z \in Sessions : last'[z] # 0 =>
          last'[z] \in DOMAIN chain' /\ chain'[last'[z]].session = z /\ chain'[last'[z]].life = life'
    BY <1>3, <1>4, <1>6, <1>7
  <1>10. \A k \in DOMAIN chain' : chain'[k].life = life' => k <= last'[chain'[k].session]
    <2> SUFFICES ASSUME NEW k \in 1..n, chain'[k].life = life PROVE k <= last'[chain'[k].session]
      BY <1>3
    <2>1. CASE k = n
      BY <1>3, <1>4, <1>7, <2>1
    <2>2. CASE k \in 1..Len(chain)
      <3>1. k <= last[chain[k].session] /\ chain'[k] = chain[k] /\ chain[k].session \in Sessions
        BY <1>3, <1>5, <1>6, <2>2
      <3> QED BY <1>3, <1>7, <2>2, <3>1
    <2> QED BY <1>3, <2>1, <2>2
  <1>11. ChainIsLinear'
    <2> SUFFICES ASSUME NEW k \in 1..n
                 PROVE  /\ chain'[k].cause # 0 => /\ chain'[k].cause \in 1..(k - 1)
                                                  /\ chain'[chain'[k].cause].session = chain'[k].session
                                                  /\ chain'[chain'[k].cause].life = chain'[k].life
                        /\ \A j \in 1..(k - 1) : chain'[j].session = chain'[k].session /\ chain'[j].life = chain'[k].life
                             => j <= chain'[k].cause
      BY <1>3, Zenon DEF ChainIsLinear, OfOneLife
    <2>1. CASE k = n
      <3>1. chain'[k] = r
        BY <1>3, <2>1
      <3>2. \A j \in 1..(k - 1) : j \in 1..Len(chain) /\ chain'[j] = chain[j]
        BY <1>3, <2>1
      <3>3. \A j \in 1..(k - 1) : chain'[j].session = s /\ chain'[j].life = life => j <= last[s]
        BY <1>6, <3>2
      <3>4. last[s] # 0 => last[s] \in 1..(k - 1) /\ chain'[last[s]].session = s /\ chain'[last[s]].life = life
        BY <1>3, <1>6, <2>1
      <3> QED BY <1>4, <3>1, <3>3, <3>4
    <2>2. CASE k \in 1..Len(chain)
      <3>1. chain'[k] = chain[k] /\ \A j \in 1..(k - 1) : chain'[j] = chain[j]
        BY <1>3, <2>2
      <3> QED BY <1>6, <2>2, <3>1 DEF OfOneLife
    <2> QED BY <1>3, <2>1, <2>2
  <1>12. ChainInv'
    BY <1>7, <1>8, <1>9, <1>10, <1>11 DEF ChainInv
  <1>13. ChainGrew /\ (what # "result" => NoNewReceipt)
    BY <1>3, <1>4 DEF ChainGrew, NoNewReceipt
  <1> QED BY <1>3, <1>4, <1>12, <1>13

\* A longer chain and more approvals leave what was covered covered.
LEMMA CoveredStays ==
  ASSUME FrameTypes, MintGrew, UNCHANGED framework, NEW effect, NEW by, NEW tool, NEW args, Covered(effect, by, tool, args)
  PROVE  Covered(effect, by, tool, args)'
  <1>1. Len(minted) \in Nat /\ DOMAIN minted = 1..Len(minted) /\ Len(minted') \in Nat /\ DOMAIN minted' = 1..Len(minted')
    BY FrameLengths, LenProperties DEF MintGrew
  <1> QED BY <1>1 DEF Covered, Approves, RequiresApproval, ArgsContentId, MintGrew

LEMMA RecordStays ==
  ASSUME FrameTypes, ChainGrew, NEW tool, NEW args, NEW effect, NEW n \in 0..Len(chain), HasRecord(tool, args, effect, n)
  PROVE  HasRecord(tool, args, effect, n)' /\ \A m \in n..Len(chain') : HasRecord(tool, args, effect, m)'
  <1>1. Len(chain) \in Nat /\ Len(chain') \in Nat
    BY FrameLengths, LenProperties DEF ChainGrew
  <1>2. PICK k \in 1..n : chain[k].what = "call" /\ chain[k].tool = tool /\ chain[k].args = args /\ chain[k].effect = effect
    BY DEF HasRecord
  <1>3. chain'[k] = chain[k]
    BY <1>1 DEF ChainGrew
  <1> QED BY <1>1, <1>2, <1>3 DEF HasRecord

LEMMA CallStays ==
  ASSUME FrameTypes, ChainGrew, MintGrew, UNCHANGED <<framework, gating>>, NEW k \in CallState, CallOk(k)
  PROVE  CallOk(k)'
  <1>1. /\ Len(minted) \in Nat /\ Len(minted') \in Nat /\ Len(minted) <= Len(minted')
        /\ Len(chain) \in Nat /\ Len(chain') \in Nat /\ Len(chain) <= Len(chain')
    BY FrameLengths, LenProperties DEF ChainGrew, MintGrew
  <1>2. Covered(k.effect, k.by, k.tool, k.final) => Covered(k.effect, k.by, k.tool, k.final)'
    BY CoveredStays
  <1>3. HasRecord(k.tool, k.args, k.effect, Len(chain)) => HasRecord(k.tool, k.args, k.effect, Len(chain))'
    <2>1. HasRecord(k.tool, k.args, k.effect, Len(chain)) => \A m \in Len(chain)..Len(chain') : HasRecord(k.tool, k.args, k.effect, m)'
      BY <1>1, RecordStays
    <2> QED BY <1>1, <2>1 DEF HasRecord
  <1>4. k.by <= Len(minted')
    BY <1>1 DEF CallOk, CallState
  <1>5. Authorized(k.effect) => Authorized(k.effect)'
    BY DEF Authorized
  <1> QED BY <1>2, <1>3, <1>4, <1>5 DEF CallOk

LEMMA RunStays ==
  ASSUME FrameTypes, ChainGrew, MintGrew, UNCHANGED <<framework, gating>>, NEW r \in RunRecord, RunOk(r)
  PROVE  RunOk(r)'
  <1>1. /\ Len(minted) \in Nat /\ Len(minted') \in Nat /\ Len(minted) <= Len(minted')
        /\ Len(chain) \in Nat /\ Len(chain') \in Nat /\ Len(chain) <= Len(chain')
    BY FrameLengths, LenProperties DEF ChainGrew, MintGrew
  <1>2. Covered(r.effect, r.by, r.tool, r.args)'
    BY CoveredStays DEF RunOk
  <1>3. HasRecord(r.tool, r.shown, r.effect, r.at)'
    <2>1. r.at \in 0..Len(chain)
      BY <1>1 DEF RunOk, RunRecord
    <2> QED BY <2>1, RecordStays DEF RunOk
  <1>4. r.by <= Len(minted') /\ r.at <= Len(chain')
    BY <1>1 DEF RunOk, RunRecord
  <1>5. Authorized(r.effect)'
    BY DEF Authorized, RunOk
  <1> QED BY <1>2, <1>3, <1>4, <1>5 DEF RunOk

\* What is asked of a step in which no tool runs and no receipt is signed.
LEMMA QuietStep ==
  ASSUME FrameInv, NEW c, NEW k, UNCHANGED <<framework, gating, ran>>, life' \in Nat,
         ChainGrew, MintGrew, NoNewReceipt, ChainInv', StoreOk(store, minted)',
         call' \in [Calls -> CallState], \A d \in Calls : d # c => call'[d] = call[d],
         c \in Calls => call'[c] = k /\ k \in CallState /\ CallOk(k)',
         c \in Calls => k = call[c] \/ (k.pc # "ran" /\ call[c].pc # "ran"),
         c \in Calls /\ framework # "msaf" /\ Holding(k) => (Holding(call[c]) /\ k.by = call[c].by) \/ k.by > Len(minted)
  PROVE  FrameInv'
  <1>1. FrameTypes /\ /\ Len(minted) \in Nat /\ DOMAIN ran = 1..Len(ran) /\ Len(ran) \in Nat
                      /\ DOMAIN chain = 1..Len(chain) /\ Len(chain) \in Nat
    BY FrameLengths DEF FrameInv
  <1>2. FrameTypes'
    BY <1>1 DEF FrameTypes, ChainGrew, MintGrew
  <1>3. \A d \in Calls : call[d] \in CallState /\ call[d].by \in Nat /\ CallOk(call[d])
    BY <1>1 DEF FrameInv, FrameTypes, CallState, CallInv
  <1>4. CallInv'
    <2> SUFFICES ASSUME NEW d \in Calls PROVE CallOk(call[d])'
      BY DEF CallInv
    <2>1. CASE d = c
      <3>1. call'[d] = k /\ CallOk(k)'
        BY <2>1
      <3> QED BY <3>1 DEF CallOk, Covered, HasRecord
    <2>2. CASE d # c
      <3>1. PICK h \in CallState : h = call[d] /\ CallOk(h)
        BY <1>3
      <3>2. CallOk(h)' /\ call'[d] = h
        BY <1>1, <2>2, <3>1, CallStays
      <3> QED BY <3>2 DEF CallOk, Covered, HasRecord
    <2> QED BY <2>1, <2>2
  <1>5. \A i \in DOMAIN ran : ran[i] \in RunRecord /\ ran[i].by \in Nat /\ RunOk(ran[i])
    <2>1. \A i \in 1..Len(ran) : ran[i] \in RunRecord
      BY <1>1, ElementOfSeq DEF FrameTypes
    <2> QED BY <1>1, <2>1 DEF FrameInv, RunInv, RunRecord
  <1>6. RunInv'
    <2> SUFFICES ASSUME NEW i \in DOMAIN ran PROVE RunOk(ran[i])'
      BY DEF RunInv
    <2>1. PICK r \in RunRecord : r = ran[i] /\ RunOk(r)
      BY <1>5
    <2>2. RunOk(r)'
      BY <1>1, <2>1, RunStays
    <2> QED BY <2>1, <2>2 DEF RunOk, Covered, HasRecord
  <1>7. OnceInv'
    <2> SUFFICES ASSUME framework # "msaf" PROVE OnceInv'
      BY DEF OnceInv
    <2>1. /\ \A d, e \in Calls : Holding(call[d]) /\ Holding(call[e]) /\ call[d].by = call[e].by => d = e
          /\ \A d \in Calls, i \in DOMAIN ran : Holding(call[d]) => ran[i].by # call[d].by
          /\ \A i, j \in DOMAIN ran : ran[i].by # 0 /\ ran[i].by = ran[j].by => i = j
      BY DEF FrameInv, OnceInv
    <2>2. /\ \A d \in Calls : call[d].by <= Len(minted) /\ call[d].by \in Nat
          /\ \A i \in DOMAIN ran : ran[i].by <= Len(minted) /\ ran[i].by \in Nat
      BY <1>3, <1>5 DEF CallOk, RunOk
    <2>3. c \in Calls => k.by \in Nat
      BY DEF CallState
    <2>4. \A d \in Calls : Holding(call[d])' =>
            \/ Holding(call[d]) /\ call'[d].by = call[d].by
            \/ d = c /\ call'[d].by > Len(minted)
      <3> SUFFICES ASSUME NEW d \in Calls, Holding(call[d])'
                   PROVE  \/ Holding(call[d]) /\ call'[d].by = call[d].by
                          \/ d = c /\ call'[d].by > Len(minted)
        OBVIOUS
      <3>1. CASE d = c
        <4>1. call'[d] = k /\ Holding(k)
          BY <3>1 DEF Holding
        <4> QED BY <3>1, <4>1
      <3>2. CASE d # c
        BY <3>2 DEF Holding
      <3> QED BY <3>1, <3>2
    <2>5. \A d, e \in Calls : Holding(call[d])' /\ Holding(call[e])' /\ call'[d].by = call'[e].by => d = e
      BY <1>1, <2>1, <2>2, <2>4
    <2>6. \A d \in Calls, i \in DOMAIN ran : Holding(call[d])' => ran[i].by # call'[d].by
      BY <1>1, <2>1, <2>2, <2>4
    <2> QED BY <2>1, <2>5, <2>6 DEF OnceInv
  <1>8. ReceiptInv'
    <2> SUFFICES ASSUME NEW tool \in Tools, NEW args \in Args
                 PROVE  /\ Receipts(tool, args)' = Receipts(tool, args) /\ Owed(tool, args)' = Owed(tool, args)
                        /\ RunsOf(tool, args)' = RunsOf(tool, args)
      BY DEF FrameInv, ReceiptInv
    <2>1. Receipts(tool, args)' = Receipts(tool, args)
      <3>1. DOMAIN chain \subseteq DOMAIN chain' /\ \A j \in DOMAIN chain : chain'[j] = chain[j]
        BY <1>1, LenProperties DEF ChainGrew
      <3> QED BY <3>1 DEF Receipts, NoNewReceipt
    <2>2. Owed(tool, args)' = Owed(tool, args)
      BY DEF Owed
    <2>3. RunsOf(tool, args)' = RunsOf(tool, args)
      BY DEF RunsOf
    <2> QED BY <2>1, <2>2, <2>3
  <1> QED BY <1>2, <1>4, <1>6, <1>7, <1>8 DEF FrameInv

(***************************************************************************)
(* The interceptor's store                                                 *)
(***************************************************************************)
Fresh(tool, effect) == [status |-> "pending", tool |-> tool, effect |-> effect, by |-> 0]

LEMMA StorePuts ==
  ASSUME NEW st, NEW mt, StoreOk(st, mt), NEW x \in Ids, NEW h \in Held, h.status # "approved"
  PROVE  StoreOk([st EXCEPT ![x] = h], mt)
  BY DEF StoreOk

LEMMA StoreRejects ==
  ASSUME NEW st, NEW mt, StoreOk(st, mt), NEW x \in Ids
  PROVE  StoreOk(Reject(st, x), mt)
  <1>1. st[x] \in Held /\ st \in [Ids -> Held]
    BY DEF StoreOk
  <1>2. PICK h : h = [st[x] EXCEPT !.status = "rejected"]
    OBVIOUS
  <1>3. h \in Held /\ h.status # "approved"
    BY <1>1, <1>2 DEF Held
  <1>4. Reject(st, x) = [st EXCEPT ![x] = h]
    BY <1>1, <1>2 DEF Reject
  <1>5. StoreOk([st EXCEPT ![x] = h], mt)
    BY <1>3, StorePuts, Zenon
  <1> QED BY <1>4, <1>5

LEMMA FreshHeld ==
  ASSUME NEW tool \in Tools, NEW effect \in Effects
  PROVE  Fresh(tool, effect) \in Held /\ Fresh(tool, effect).status = "pending"
  BY DEF Fresh, Held

LEMMA IdIn ==
  ASSUME FrameTypes, NEW a \in Args
  PROVE  ArgsContentId(a) \in Ids /\ ArgsContentId(a) \in AnyId
  <1>1. ContentId(framework, a) \in AnyId
    BY DEF AnyId, FrameTypes
  <1>2. ArgsContentId(a) \in Ids
    BY Zenon DEF Ids
  <1> QED BY <1>1, <1>2 DEF ArgsContentId

\* A resumed call has an approval of its own, minted for the arguments shown.
LEMMA Resumes ==
  ASSUME FrameTypes, NEW st, StoreOk(st, minted), NEW a \in Args, NEW tool \in Tools \cup {"none"},
         NEW shown \in Args, NEW status \in {"approved", "edited"}, status = "approved" => shown = a
  PROVE  LET r == Resume(st, ArgsContentId(a), tool, shown, status) IN
         /\ StoreOk(r.store, r.minted)
         /\ r.ok => /\ r.by = Len(minted) + 1
                    /\ r.minted = Append(minted, [binds |-> ArgsContentId(shown), tool |-> tool, args |-> shown])
         /\ ~r.ok => r.minted = minted
         /\ r.ok \in BOOLEAN
  <1> DEFINE x == ArgsContentId(a)
             n == Len(minted) + 1
             m == [binds |-> ArgsContentId(shown), tool |-> tool, args |-> shown]
             h == [st[x] EXCEPT !.status = status, !.by = n]
  <1>1. x \in Ids /\ m \in Minting /\ m.binds = ArgsContentId(shown)
    BY IdIn DEF Minting
  <1>2. st \in [Ids -> Held] /\ \A y \in Ids : st[y].status = "approved" => st[y].by \in DOMAIN minted /\ minted[st[y].by].binds = y
    BY DEF StoreOk
  <1>3. CASE st[x].status = "pending" /\ MintEffect(st[x].effect) >= st[x].effect
    <2>1. PICK mt : mt = Append(minted, m)
      OBVIOUS
    <2>2. /\ mt \in Seq(Minting) /\ Len(minted) \in Nat /\ DOMAIN minted = 1..Len(minted) /\ DOMAIN mt = 1..n
          /\ \A i \in 1..Len(minted) : mt[i] = minted[i]
          /\ mt[n] = m
      BY <1>1, <2>1, Grown DEF FrameTypes
    <2>3. h \in Held /\ h.status = status /\ h.by = n
      <3>1. PICK h0 : h0 = st[x]
        OBVIOUS
      <3>2. h0 \in Held
        BY <1>1, <1>2, <3>1
      <3>3. h = [h0 EXCEPT !.status = status, !.by = n]
        BY <3>1
      <3> HIDE DEF h
      <3>4. PICK h2 : h2 = [h0 EXCEPT !.status = status]
        OBVIOUS
      <3>5. h2 \in Held /\ h2.status = status
        BY <3>2, <3>4 DEF Held
      <3>6. h = [h2 EXCEPT !.by = n]
        BY <3>2, <3>3, <3>4 DEF Held
      <3> QED BY <2>2, <3>5, <3>6 DEF Held
    <2>4. PICK h1 : h1 = h
      OBVIOUS
    <2>5. PICK st1 : st1 = [st EXCEPT ![x] = h1]
      OBVIOUS
    <2>6. Resume(st, x, tool, shown, status) = [ok |-> TRUE, by |-> n, store |-> st1, minted |-> mt]
      BY <1>3, <2>1, <2>4, <2>5 DEF Resume
    <2>7. StoreOk(st1, mt)
      <3> HIDE DEF m, h, x
      <3>1. st1 \in [Ids -> Held] /\ st1[x] = h1 /\ \A y \in Ids : y # x => st1[y] = st[y]
        BY <1>1, <1>2, <2>3, <2>4, <2>5
      <3>2. status = "approved" => m.binds = x
        BY <1>1 DEF x
      <3> QED BY <1>1, <1>2, <2>2, <2>3, <2>4, <3>1, <3>2 DEF StoreOk
    <2> QED BY <2>1, <2>6, <2>7
  <1>4. CASE ~(st[x].status = "pending" /\ MintEffect(st[x].effect) >= st[x].effect)
    <2>1. Resume(st, x, tool, shown, status) = [ok |-> FALSE, by |-> 0, store |-> st, minted |-> minted]
      BY <1>4 DEF Resume
    <2> QED BY <2>1
  <1> QED BY <1>3, <1>4

\* The approvals grow by one minting, and only then is there a new holder.
LEMMA MintedOne ==
  ASSUME FrameTypes, NEW tool \in Tools \cup {"none"}, NEW a \in Args,
         minted' = Append(minted, [binds |-> ArgsContentId(a), tool |-> tool, args |-> a])
  PROVE  /\ MintGrew /\ Len(minted) \in Nat /\ Len(minted') = Len(minted) + 1 /\ Len(minted) + 1 \in DOMAIN minted'
         /\ minted'[Len(minted) + 1].binds = ArgsContentId(a)
         /\ minted'[Len(minted) + 1].tool = tool /\ minted'[Len(minted) + 1].args = a
  <1>1. PICK m : m = [binds |-> ArgsContentId(a), tool |-> tool, args |-> a]
    OBVIOUS
  <1>2. m \in Minting /\ m.binds = ArgsContentId(a) /\ m.tool = tool /\ m.args = a
    BY <1>1, IdIn DEF Minting
  <1>3. /\ minted' \in Seq(Minting) /\ Len(minted) \in Nat /\ Len(minted') = Len(minted) + 1
        /\ DOMAIN minted' = 1..(Len(minted) + 1)
        /\ \A i \in 1..Len(minted) : minted'[i] = minted[i]
        /\ minted'[Len(minted) + 1] = m
    BY <1>1, <1>2, Grown DEF FrameTypes
  <1> QED BY <1>2, <1>3 DEF MintGrew

LEMMA StoreFrame ==
  ASSUME FrameInv, NEW st, StoreOk(st, minted), store' = st, MintGrew, UNCHANGED framework
  PROVE  StoreOk(store, minted)'
  <1>1. Len(minted) \in Nat /\ DOMAIN minted = 1..Len(minted) /\ Len(minted') \in Nat /\ DOMAIN minted' = 1..Len(minted')
    BY FrameLengths, LenProperties DEF FrameInv, MintGrew
  <1>2. Ids' = Ids
    BY DEF Ids, ArgsContentId
  <1> QED BY <1>1, <1>2 DEF StoreOk, MintGrew

(***************************************************************************)
(* One guarded call                                                        *)
(***************************************************************************)
LEMMA EffectIn == ASSUME NEW tool \in Tools, NEW args \in Args PROVE ResolveEffect(tool, args) \in Effects
  BY AgentGuardsConstants DEF ResolveEffect, Effects, NoEffect, Destructive

LEMMA IdleState ==
  /\ Idle \in CallState /\ Idle.pc = "idle" /\ Idle.by = 0 /\ ~Holding(Idle)
  BY DEF Idle, CallState, Effects, NoEffect, Destructive, Holding

LEMMA IdleOk == ASSUME MintGrew PROVE CallOk(Idle)'
  <1>1. Len(minted') \in Nat
    BY LenProperties DEF MintGrew
  <1> QED BY <1>1, IdleState DEF CallOk

LEMMA BegunState ==
  ASSUME NEW tool \in Tools, NEW args \in Args, NEW s \in Sessions, NEW pc \in {"wait", "enter", "run"}, NEW effect \in Effects
  PROVE  LET k == Begun(tool, args, s, pc, effect) IN
         /\ k \in CallState /\ k.pc = pc /\ k.tool = tool /\ k.args = args /\ k.session = s /\ k.effect = effect
         /\ k.by = 0 /\ k.final = args /\ ~Holding(k)
  BY DEF Begun, CallState, Holding

LEMMA SetCall ==
  ASSUME FrameTypes, NEW c \in Calls, NEW k \in CallState, Set(c, k)
  PROVE  call' \in [Calls -> CallState] /\ call'[c] = k /\ \A d \in Calls : d # c => call'[d] = call[d]
  BY DEF FrameTypes, Set

LEMMA QuietSet ==
  ASSUME FrameInv, NEW c \in Calls, NEW k \in CallState, Set(c, k), UNCHANGED <<framework, gating, ran, life>>,
         ChainGrew, MintGrew, NoNewReceipt, ChainInv', StoreOk(store, minted)', CallOk(k)',
         k.pc # "ran", call[c].pc # "ran",
         framework # "msaf" /\ Holding(k) => (Holding(call[c]) /\ k.by = call[c].by) \/ k.by > Len(minted)
  PROVE  FrameInv'
  <1>1. call' \in [Calls -> CallState] /\ call'[c] = k /\ \A d \in Calls : d # c => call'[d] = call[d]
    BY SetCall DEF FrameInv
  <1>2. life' \in Nat
    BY DEF FrameInv, FrameTypes
  <1> QED BY <1>1, <1>2, QuietStep

\* A call that ends without having run.
LEMMA QuietEnd ==
  ASSUME FrameInv, NEW c \in Calls, End(c), UNCHANGED <<framework, gating, ran, life>>,
         ChainGrew, MintGrew, NoNewReceipt, ChainInv', StoreOk(store, minted)', call[c].pc # "ran"
  PROVE  FrameInv'
  BY IdleState, IdleOk, QuietSet DEF End

LEMMA PauseOk ==
  ASSUME FrameInv, NEW tool \in Tools, NEW args \in Args, NEW effect \in Effects, Pause(tool, args, effect),
         UNCHANGED <<framework, minted>>
  PROVE  StoreOk(store, minted)' /\ MintGrew
  <1>1. store' = [store EXCEPT ![ArgsContentId(args)] = Fresh(tool, effect)] \/ store' = store
    BY DEF Pause, Fresh
  <1>2. StoreOk(store, minted) /\ FrameTypes
    BY DEF FrameInv
  <1>3. MintGrew
    BY <1>2, NothingGrew
  <1>4. StoreOk([store EXCEPT ![ArgsContentId(args)] = Fresh(tool, effect)], minted)
    <2>1. Fresh(tool, effect) \in Held /\ Fresh(tool, effect).status # "approved"
      BY FreshHeld
    <2>2. ArgsContentId(args) \in Ids
      BY <1>2, IdIn
    <2> QED BY <1>2, <2>1, <2>2, StorePuts, Zenon
  <1> QED BY <1>1, <1>2, <1>3, <1>4, StoreFrame

LEMMA SameStore ==
  ASSUME FrameInv, UNCHANGED <<framework, store, minted>> PROVE StoreOk(store, minted)' /\ MintGrew
  <1>1. StoreOk(store, minted) /\ FrameTypes
    BY DEF FrameInv
  <1>2. MintGrew
    BY <1>1, NothingGrew
  <1> QED BY <1>1, <1>2, StoreFrame

LEMMA SameChain ==
  ASSUME FrameInv, UNCHANGED <<chain, last, life>> PROVE ChainInv' /\ ChainGrew /\ NoNewReceipt
  <1>1. ChainInv /\ FrameTypes
    BY DEF FrameInv
  <1>2. ChainInv'
    BY <1>1 DEF ChainInv, ChainIsLinear, OfOneLife
  <1> QED BY <1>1, <1>2, NothingGrew

\* A call that was just captured may run when it is authorized and needs no approval.
LEMMA CapturedOk ==
  ASSUME FrameInv, UNCHANGED <<framework, gating>>, ChainGrew, MintGrew, Len(chain') = Len(chain) + 1,
         NEW k \in CallState, k.pc \in {"wait", "run"}, k.by <= Len(minted'),
         k.session \in Sessions, k.tool \in Tools, k.args \in Args, k.final \in Args,
         k.pc = "wait" => k.final = k.args,
         k.pc = "run" => Covered(k.effect, k.by, k.tool, k.final)',
         Authorized(k.effect),
         LET r == chain'[Len(chain) + 1] IN r.what = "call" /\ r.tool = k.tool /\ r.args = k.args /\ r.effect = k.effect
  PROVE  CallOk(k)'
  <1>1. Len(chain) \in Nat
    BY FrameLengths DEF FrameInv
  <1>2. Len(chain) + 1 \in 1..Len(chain')
    BY <1>1
  <1>3. HasRecord(k.tool, k.args, k.effect, Len(chain))'
    BY <1>2 DEF HasRecord
  <1>4. Authorized(k.effect)'
    BY DEF Authorized
  <1> QED BY <1>3, <1>4 DEF CallOk

LEMMA EffectingInv ==
  ASSUME FrameInv, NEW c \in Calls, NEW tool \in Tools, NEW args \in Args, NEW s \in Sessions,
         OnEffectingAction(c, tool, args, s)
  PROVE  FrameInv'
  <1>1. PICK e \in Effects : e = ResolveEffect(tool, args)
    BY EffectIn
  <1>2. /\ call[c].pc = "idle" /\ Capture("call", s, tool, args, e) /\ UNCHANGED <<framework, gating, life, minted, ran>>
        /\ \/ ~Authorized(e) /\ End(c) /\ UNCHANGED store
           \/ Authorized(e) /\ Pause(tool, args, e) /\ Set(c, Begun(tool, args, s, "wait", e))
           \/ /\ Authorized(e) /\ ~(Approves /\ RequiresApproval(e))
              /\ Set(c, Begun(tool, args, s, "run", e)) /\ UNCHANGED store
    BY <1>1 DEF OnEffectingAction
  <1>3. /\ ChainInv' /\ ChainGrew /\ NoNewReceipt /\ Len(chain') = Len(chain) + 1
        /\ LET r == chain'[Len(chain) + 1] IN r.what = "call" /\ r.tool = tool /\ r.args = args /\ r.effect = e
    BY <1>2, CaptureKeeps DEF FrameInv
  <1>4. MintGrew /\ Len(minted') \in Nat
    BY <1>2, NothingGrew, FrameLengths DEF FrameInv
  <1>5. CASE ~Authorized(e) /\ End(c) /\ UNCHANGED store
    BY <1>2, <1>3, <1>4, <1>5, SameStore, QuietEnd
  <1>6. CASE Authorized(e) /\ Pause(tool, args, e) /\ Set(c, Begun(tool, args, s, "wait", e))
    <2>1. PICK k : k = Begun(tool, args, s, "wait", e)
      OBVIOUS
    <2>2. /\ k \in CallState /\ k.pc = "wait" /\ k.tool = tool /\ k.args = args /\ k.session = s /\ k.effect = e
          /\ k.by = 0 /\ k.final = args /\ ~Holding(k)
      BY <2>1, BegunState
    <2>3. CallOk(k)'
      BY <1>2, <1>3, <1>4, <1>6, <2>2, CapturedOk
    <2>4. StoreOk(store, minted)'
      BY <1>2, <1>6, PauseOk
    <2>5. Set(c, k) /\ k.pc # "ran" /\ call[c].pc # "ran"
      BY <1>2, <1>6, <2>1, <2>2
    <2> QED BY <1>2, <1>3, <1>4, <2>2, <2>3, <2>4, <2>5, QuietSet
  <1>7. CASE /\ Authorized(e) /\ ~(Approves /\ RequiresApproval(e))
             /\ Set(c, Begun(tool, args, s, "run", e)) /\ UNCHANGED store
    <2>1. PICK k : k = Begun(tool, args, s, "run", e)
      OBVIOUS
    <2>2. /\ k \in CallState /\ k.pc = "run" /\ k.tool = tool /\ k.args = args /\ k.session = s /\ k.effect = e
          /\ k.by = 0 /\ k.final = args /\ ~Holding(k)
      BY <2>1, BegunState
    <2>3. Covered(k.effect, k.by, k.tool, k.final)'
      BY <1>2, <1>7, <2>2 DEF Covered, Approves
    <2>4. CallOk(k)'
      BY <1>2, <1>3, <1>4, <1>7, <2>2, <2>3, CapturedOk
    <2>5. StoreOk(store, minted)'
      BY <1>2, <1>7, SameStore
    <2>6. Set(c, k) /\ k.pc # "ran" /\ call[c].pc # "ran"
      BY <1>2, <1>7, <2>1, <2>2
    <2> QED BY <1>2, <1>3, <1>4, <2>2, <2>4, <2>5, <2>6, QuietSet
  <1> QED BY <1>2, <1>5, <1>6, <1>7

LEMMA StillCalls ==
  ASSUME FrameInv, UNCHANGED <<framework, gating, ran, life, call>>,
         ChainGrew, MintGrew, NoNewReceipt, ChainInv', StoreOk(store, minted)'
  PROVE  FrameInv'
  <1>1. PICK c, k : k = call[c]
    OBVIOUS
  <1>2. call' \in [Calls -> CallState] /\ life' \in Nat /\ FrameTypes
    BY DEF FrameInv, FrameTypes
  <1>3. c \in Calls => k \in CallState /\ CallOk(k)
    BY <1>1, <1>2 DEF FrameInv, CallInv
  <1>4. c \in Calls => CallOk(k)'
    BY <1>2, <1>3, CallStays
  <1> QED BY <1>1, <1>2, <1>3, <1>4, QuietStep

Moved(k, pc) == [k EXCEPT !.pc = pc]
Given(k, pc, by) == [k EXCEPT !.pc = pc, !.by = by]
Edited(k, pc, by, final) == [k EXCEPT !.pc = pc, !.by = by, !.final = final]

Steps == {"idle", "wait", "enter", "run", "ran"}

LEMMA MovedState ==
  ASSUME NEW k \in CallState, NEW pc \in Steps
  PROVE  /\ Moved(k, pc) \in CallState /\ Moved(k, pc).pc = pc /\ Moved(k, pc).by = k.by /\ Moved(k, pc).final = k.final
         /\ Moved(k, pc).tool = k.tool /\ Moved(k, pc).args = k.args /\ Moved(k, pc).session = k.session /\ Moved(k, pc).effect = k.effect
  BY DEF CallState, Moved, Steps

LEMMA GivenState ==
  ASSUME NEW k \in CallState, NEW pc \in Steps, NEW by \in Nat
  PROVE  /\ Given(k, pc, by) \in CallState /\ Given(k, pc, by).pc = pc /\ Given(k, pc, by).by = by /\ Given(k, pc, by).final = k.final
         /\ Given(k, pc, by).tool = k.tool /\ Given(k, pc, by).args = k.args /\ Given(k, pc, by).session = k.session /\ Given(k, pc, by).effect = k.effect
  <1>1. PICK h : h = Moved(k, pc)
    OBVIOUS
  <1>2. Given(k, pc, by) = [h EXCEPT !.by = by]
    BY <1>1 DEF CallState, Given, Moved
  <1>3. /\ h \in CallState /\ h.pc = pc /\ h.final = k.final
        /\ h.tool = k.tool /\ h.args = k.args /\ h.session = k.session /\ h.effect = k.effect
    BY <1>1, MovedState
  <1> QED BY <1>2, <1>3 DEF CallState

LEMMA EditedState ==
  ASSUME NEW k \in CallState, NEW pc \in Steps, NEW by \in Nat, NEW final \in Args
  PROVE  /\ Edited(k, pc, by, final) \in CallState /\ Edited(k, pc, by, final).pc = pc /\ Edited(k, pc, by, final).by = by /\ Edited(k, pc, by, final).final = final
         /\ Edited(k, pc, by, final).tool = k.tool /\ Edited(k, pc, by, final).args = k.args /\ Edited(k, pc, by, final).session = k.session /\ Edited(k, pc, by, final).effect = k.effect
  <1>1. PICK h : h = Given(k, pc, by)
    OBVIOUS
  <1>2. Edited(k, pc, by, final) = [h EXCEPT !.final = final]
    BY <1>1 DEF CallState, Edited, Given
  <1>3. /\ h \in CallState /\ h.pc = pc /\ h.by = by
        /\ h.tool = k.tool /\ h.args = k.args /\ h.session = k.session /\ h.effect = k.effect
    BY <1>1, GivenState
  <1> QED BY <1>2, <1>3 DEF CallState

LEMMA CallFacts ==
  ASSUME FrameInv, NEW c \in Calls
  PROVE  call[c] \in CallState /\ CallOk(call[c]) /\ FrameTypes /\ call[c].by \in Nat /\ call[c].effect \in Effects
  <1>1. call[c] \in CallState /\ CallOk(call[c]) /\ FrameTypes
    BY DEF FrameInv, FrameTypes, CallInv
  <1> QED BY <1>1 DEF CallState

\* A decision in the waiting frame: the call ends, or runs under a new approval for the
\* arguments that were shown.
LEMMA DecidedInv ==
  ASSUME FrameInv, NEW c \in Calls, NEW decision \in {"yes", "no", "malformed"} \cup Args, NEW st, StoreOk(st, minted),
         call[c].pc = "wait", Adapter[framework].inFrame, Decided(c, decision, st),
         ChainGrew, NoNewReceipt, ChainInv', UNCHANGED <<framework, gating, ran, life>>
  PROVE  FrameInv'
  <1>1. PICK k \in CallState : k = call[c] /\ CallOk(k) /\ k.pc = "wait"
    BY CallFacts
  <1>2. FrameTypes /\ k.args \in Args /\ k.tool \in Tools /\ k.session \in Sessions
    BY <1>1, CallFacts DEF CallOk
  <1>3. CASE decision \in {"no", "malformed"}
    <2>1. End(c) /\ minted' = minted /\ (store' = st \/ store' = Reject(st, ArgsContentId(k.args)))
      BY <1>1, <1>3 DEF Decided
    <2>2. MintGrew
      BY <1>2, <2>1, NothingGrew
    <2>3. StoreOk(Reject(st, ArgsContentId(k.args)), minted)
      BY <1>2, IdIn, StoreRejects
    <2>4. StoreOk(store, minted)'
      BY <2>1, <2>2, <2>3, StoreFrame
    <2> QED BY <1>1, <2>1, <2>2, <2>4, QuietEnd
  <1>4. CASE decision \notin {"no", "malformed"}
    <2>1. PICK shown \in Args : shown = IF decision = "yes" THEN k.args ELSE decision
      BY <1>2, <1>4
    <2>2. PICK status \in {"approved", "edited"} : status = IF decision = "yes" THEN "approved" ELSE "edited"
      OBVIOUS
    <2>3. PICK r : r = Resume(st, ArgsContentId(k.args), k.tool, shown, status)
      OBVIOUS
    <2>4. /\ store' = r.store /\ minted' = r.minted
          /\ IF r.ok THEN Set(c, [k EXCEPT !.pc = "run", !.by = r.by, !.final = shown]) ELSE End(c)
      BY <1>1, <1>4, <2>1, <2>2, <2>3 DEF Decided, ArgsToApprove
    <2>5. /\ StoreOk(r.store, r.minted)
          /\ r.ok => /\ r.by = Len(minted) + 1
                     /\ r.minted = Append(minted, [binds |-> ArgsContentId(shown), tool |-> k.tool, args |-> shown])
          /\ ~r.ok => r.minted = minted
          /\ r.ok \in BOOLEAN
      BY <1>2, <2>1, <2>2, <2>3, Resumes
    <2>6. StoreOk(store, minted)'
      BY <2>4, <2>5 DEF StoreOk, Ids, ArgsContentId
    <2>7. CASE ~r.ok
      <3>1. End(c) /\ MintGrew /\ call[c].pc # "ran"
        BY <1>1, <1>2, <2>4, <2>5, <2>7, NothingGrew
      <3> QED BY <2>6, <3>1, QuietEnd
    <2>8. CASE r.ok
      <3>1. /\ MintGrew /\ Len(minted) \in Nat /\ Len(minted') = Len(minted) + 1 /\ Len(minted) + 1 \in DOMAIN minted'
            /\ minted'[Len(minted) + 1].binds = ArgsContentId(shown) /\ r.by = Len(minted) + 1
            /\ minted'[Len(minted) + 1].tool = k.tool /\ minted'[Len(minted) + 1].args = shown
        BY <1>2, <2>4, <2>5, <2>8, MintedOne
      <3>2. PICK m : m = Edited(k, "run", r.by, shown)
        OBVIOUS
      <3>3. /\ m \in CallState /\ m.pc = "run" /\ m.by = Len(minted) + 1 /\ m.final = shown
            /\ m.tool = k.tool /\ m.args = k.args /\ m.session = k.session /\ m.effect = k.effect
        <4>1. PICK n \in Nat : n = r.by /\ n = Len(minted) + 1
          BY <3>1
        <4>2. m = Edited(k, "run", n, shown)
          BY <3>2, <4>1
        <4>3. "run" \in Steps
          BY DEF Steps
        <4> QED BY <4>1, <4>2, <4>3, EditedState
      <3>4. CallOk(k)'
        BY <1>1, <1>2, <3>1, CallStays
      <3>5. Covered(m.effect, m.by, m.tool, m.final)'
        BY <3>1, <3>3 DEF Covered, ArgsContentId
      <3>6. CallOk(m)'
        BY <1>1, <1>2, <2>1, <3>1, <3>3, <3>4, <3>5 DEF CallOk
      <3>7. Set(c, m) /\ m.pc # "ran" /\ call[c].pc # "ran" /\ m.by > Len(minted)
        BY <1>1, <2>4, <2>8, <3>1, <3>2, <3>3 DEF Edited
      <3> QED BY <2>6, <3>1, <3>3, <3>6, <3>7, QuietSet
    <2> QED BY <2>5, <2>7, <2>8
  <1> QED BY <1>3, <1>4

LEMMA InFrameInv ==
  ASSUME FrameInv, NEW c \in Calls, NEW d \in Decisions, InFrameDecision(c, d)
  PROVE  FrameInv'
  <1>1. PICK k \in CallState : k = call[c] /\ CallOk(k)
    BY CallFacts
  <1>2. /\ Adapter[framework].inFrame /\ k.pc = "wait" /\ UNCHANGED <<framework, gating, life, ran>>
        /\ \/ Decided(c, d, store) /\ UNCHANGED <<chain, last>>
           \/ /\ Capture("call", k.session, k.tool, k.args, k.effect)
              /\ \E st \in {store, [store EXCEPT ![ArgsContentId(k.args)] = Fresh(k.tool, k.effect)]} : Decided(c, d, st)
    BY <1>1 DEF InFrameDecision, Fresh
  <1>3. FrameTypes /\ ChainInv /\ StoreOk(store, minted) /\ k.effect \in Effects
        /\ k.args \in Args /\ k.tool \in Tools /\ k.session \in Sessions
    BY <1>1, <1>2 DEF FrameInv, CallOk, CallState
  <1>4. d \in {"yes", "no", "malformed"} \cup Args
    BY DEF Decisions
  <1>5. CASE Decided(c, d, store) /\ UNCHANGED <<chain, last>>
    <2>1. ChainGrew /\ NoNewReceipt
      BY <1>3, <1>5, NothingGrew
    <2>2. ChainInv'
      BY <1>2, <1>3, <1>5 DEF ChainInv, ChainIsLinear, OfOneLife
    <2> QED BY <1>1, <1>2, <1>3, <1>4, <1>5, <2>1, <2>2, DecidedInv
  <1>6. CASE /\ Capture("call", k.session, k.tool, k.args, k.effect)
             /\ \E st \in {store, [store EXCEPT ![ArgsContentId(k.args)] = Fresh(k.tool, k.effect)]} : Decided(c, d, st)
    <2>1. ChainInv' /\ ChainGrew /\ NoNewReceipt
      BY <1>2, <1>3, <1>6, CaptureKeeps
    <2>2. StoreOk([store EXCEPT ![ArgsContentId(k.args)] = Fresh(k.tool, k.effect)], minted)
      <3>1. Fresh(k.tool, k.effect) \in Held /\ Fresh(k.tool, k.effect).status # "approved"
        BY <1>3, FreshHeld
      <3>2. ArgsContentId(k.args) \in Ids
        BY <1>3, IdIn
      <3> QED BY <1>3, <3>1, <3>2, StorePuts, Zenon
    <2>3. PICK st : StoreOk(st, minted) /\ Decided(c, d, st)
      BY <1>3, <1>6, <2>2, Zenon
    <2> QED BY <1>1, <1>2, <1>4, <2>1, <2>3, DecidedInv
  <1> QED BY <1>2, <1>5, <1>6

LEMMA AdapterFacts ==
  /\ framework \in {"a2a", "mcp", "adk"} => ~Approves
  /\ framework = "openai" => ~Adapter[framework].inFrame
  BY DEF Approves, Adapter, A2aClient, McpClient, Adk, OpenAI, Traits

LEMMA OnMessageInv ==
  ASSUME FrameInv, NEW c \in Calls, NEW tool \in Tools, NEW args \in Args, NEW s \in Sessions,
         A2aOnMessage(c, tool, args, s) \/ RecordServerToolCall(c, tool, args, s)
  PROVE  FrameInv'
  <1>1. PICK e \in Effects : e = ResolveEffect(tool, args)
    BY EffectIn
  <1>2. PICK k0 : k0 = Begun(tool, args, s, "run", e)
    OBVIOUS
  <1>3. PICK k1 : k1 = [k0 EXCEPT !.side = "server"]
    OBVIOUS
  <1>4. /\ call[c].pc = "idle" /\ framework \in {"a2a", "mcp"} /\ Capture("call", s, tool, args, e)
        /\ UNCHANGED <<framework, gating, life, store, minted, ran>>
        /\ End(c) \/ (Authorized(e) /\ \E k \in {k0, k1} : Set(c, k))
    BY <1>1, <1>2, <1>3 DEF A2aOnMessage, RecordServerToolCall, Authorized
  <1>5. /\ ChainInv' /\ ChainGrew /\ NoNewReceipt /\ Len(chain') = Len(chain) + 1
        /\ LET r == chain'[Len(chain) + 1] IN r.what = "call" /\ r.tool = tool /\ r.args = args /\ r.effect = e
    BY <1>4, CaptureKeeps DEF FrameInv
  <1>6. MintGrew /\ Len(minted') \in Nat /\ StoreOk(store, minted)'
    BY <1>4, SameStore, FrameLengths DEF FrameInv
  <1>7. CASE End(c)
    BY <1>4, <1>5, <1>6, <1>7, QuietEnd
  <1>8. CASE Authorized(e) /\ \E k \in {k0, k1} : Set(c, k)
    <2>1. PICK k \in {k0, k1} : Set(c, k)
      BY <1>8
    <2>2. /\ k0 \in CallState /\ k0.pc = "run" /\ k0.tool = tool /\ k0.args = args /\ k0.session = s /\ k0.effect = e
          /\ k0.by = 0 /\ k0.final = args
      BY <1>2, BegunState
    <2>3. /\ k1 \in CallState /\ k1.pc = "run" /\ k1.tool = tool /\ k1.args = args /\ k1.session = s /\ k1.effect = e
          /\ k1.by = 0 /\ k1.final = args
      BY <1>3, <2>2 DEF CallState
    <2>4. /\ k \in CallState /\ k.pc = "run" /\ k.tool = tool /\ k.args = args /\ k.session = s /\ k.effect = e
          /\ k.by = 0 /\ k.final = args /\ ~Holding(k)
      BY <2>2, <2>3 DEF Holding
    <2>5. Covered(k.effect, k.by, k.tool, k.final)'
      BY <1>4, AdapterFacts DEF Covered, Approves
    <2>6. CallOk(k)'
      BY <1>4, <1>5, <1>6, <1>8, <2>4, <2>5, CapturedOk
    <2>7. k.pc # "ran" /\ call[c].pc # "ran"
      BY <1>4, <2>4
    <2> QED BY <1>4, <1>5, <1>6, <2>1, <2>4, <2>6, <2>7, QuietSet
  <1> QED BY <1>4, <1>7, <1>8

LEMMA EventInv == ASSUME FrameInv, NEW s \in Sessions, AdkEvent(s) PROVE FrameInv'
  <1>1. Capture("event", s, "none", "none", Destructive) /\ UNCHANGED <<framework, gating, life, store, minted, call, ran>>
    BY DEF AdkEvent
  <1>2. Destructive \in Effects
    BY DEF Effects, Destructive, NoEffect
  <1>3. ChainInv' /\ ChainGrew /\ NoNewReceipt
    BY <1>1, <1>2, CaptureKeeps DEF FrameInv
  <1>4. MintGrew /\ StoreOk(store, minted)'
    BY <1>1, SameStore
  <1> QED BY <1>1, <1>3, <1>4, StillCalls

LEMMA AskInv ==
  ASSUME FrameInv, NEW c \in Calls, NEW tool \in Tools, NEW args \in Args, NEW s \in Sessions, OpenAIAsk(c, tool, args, s)
  PROVE  FrameInv'
  <1>1. PICK e \in Effects : e = ResolveEffect(tool, args)
    BY EffectIn
  <1>2. PICK pc \in {"wait", "enter"} : pc = IF RequiresApproval(e) THEN "wait" ELSE "enter"
    OBVIOUS
  <1>3. PICK k : k = Begun(tool, args, s, pc, e)
    OBVIOUS
  <1>4. /\ framework = "openai" /\ call[c].pc = "idle" /\ Set(c, k)
        /\ UNCHANGED <<framework, gating, chain, last, life, store, minted, ran>>
    BY <1>1, <1>2, <1>3 DEF OpenAIAsk
  <1>5. /\ k \in CallState /\ k.pc = pc /\ k.tool = tool /\ k.args = args /\ k.session = s /\ k.effect = e
        /\ k.by = 0 /\ k.final = args /\ ~Holding(k)
    BY <1>2, <1>3, BegunState
  <1>6. ChainInv' /\ ChainGrew /\ NoNewReceipt /\ MintGrew /\ StoreOk(store, minted)' /\ Len(minted') \in Nat
    BY <1>4, SameChain, SameStore, FrameLengths DEF FrameInv
  <1>7. CallOk(k)'
    <2>1. pc = "enter" => Covered(k.effect, k.by, k.tool, k.final)'
      BY <1>2, <1>5 DEF Covered, RequiresApproval
    <2>2. ~Adapter[framework'].inFrame
      BY <1>4, AdapterFacts
    <2> QED BY <1>2, <1>4, <1>5, <1>6, <2>1, <2>2 DEF CallOk
  <1>8. k.pc # "ran" /\ call[c].pc # "ran"
    BY <1>2, <1>4, <1>5
  <1> QED BY <1>4, <1>5, <1>6, <1>7, <1>8, QuietSet

LEMMA OpenToolInv == ASSUME FrameInv, NEW c \in Calls, OpenAITool(c) PROVE FrameInv'
  <1>1. PICK k \in CallState : k = call[c] /\ CallOk(k)
    BY CallFacts
  <1>2. /\ k.pc = "enter" /\ Capture("call", k.session, k.tool, k.args, k.effect)
        /\ (Authorized(k.effect) /\ Set(c, Moved(k, "run"))) \/ End(c)
        /\ UNCHANGED <<framework, gating, life, store, minted, ran>>
    BY <1>1 DEF OpenAITool, Moved
  <1>3. k.session \in Sessions /\ k.tool \in Tools /\ k.args \in Args /\ k.effect \in Effects /\ k.final = k.args
        /\ Covered(k.effect, k.by, k.tool, k.final) /\ k.by <= Len(minted)
    BY <1>1, <1>2 DEF CallOk, CallState
  <1>4. /\ ChainInv' /\ ChainGrew /\ NoNewReceipt /\ Len(chain') = Len(chain) + 1
        /\ LET r == chain'[Len(chain) + 1] IN r.what = "call" /\ r.tool = k.tool /\ r.args = k.args /\ r.effect = k.effect
    BY <1>2, <1>3, CaptureKeeps DEF FrameInv
  <1>5. MintGrew /\ StoreOk(store, minted)'
    BY <1>2, SameStore
  <1>6. CASE End(c)
    BY <1>1, <1>2, <1>4, <1>5, <1>6, QuietEnd
  <1>7. CASE Authorized(k.effect) /\ Set(c, Moved(k, "run"))
    <2>1. "run" \in Steps
      BY DEF Steps
    <2>2. PICK m : m = Moved(k, "run")
      OBVIOUS
    <2>3. /\ m \in CallState /\ m.pc = "run" /\ m.by = k.by /\ m.final = k.final
          /\ m.tool = k.tool /\ m.args = k.args /\ m.session = k.session /\ m.effect = k.effect
      BY <2>1, <2>2, MovedState
    <2>4. Covered(m.effect, m.by, m.tool, m.final)'
      BY <1>2, <1>3, <2>3 DEF Covered, Approves, ArgsContentId
    <2>5. CallOk(m)'
      BY <1>2, <1>3, <1>4, <1>5, <1>7, <2>3, <2>4, CapturedOk
    <2>6. Set(c, m) /\ m.pc # "ran" /\ call[c].pc # "ran" /\ (Holding(m) => Holding(call[c]) /\ m.by = call[c].by)
      BY <1>1, <1>2, <1>7, <2>2, <2>3 DEF Holding
    <2> QED BY <1>2, <1>4, <1>5, <2>3, <2>5, <2>6, QuietSet
  <1> QED BY <1>2, <1>6, <1>7

LEMMA OpenResolveInv ==
  ASSUME FrameInv, NEW c \in Calls, NEW d, OpenAIResolve(c, d) PROVE FrameInv'
  <1>1. PICK k \in CallState : k = call[c] /\ CallOk(k)
    BY CallFacts
  <1> DEFINE x == ArgsContentId(k.args)
             fresh == Fresh(k.tool, k.effect)
             put == [store EXCEPT ![x] = fresh]
  <1>2. /\ framework = "openai" /\ k.pc = "wait" /\ UNCHANGED <<framework, gating, chain, last, life, ran>>
        /\ \E st \in {put, store} :
             \/ /\ store' = (IF st[x].status = "pending" THEN Reject(st, x) ELSE st)
                /\ UNCHANGED <<minted, call>>
             \/ LET r == Resume(st, x, k.tool, k.args, "approved") IN
                /\ store' = r.store /\ minted' = r.minted
                /\ IF r.ok THEN Set(c, Given(k, "enter", r.by)) ELSE UNCHANGED call
    BY <1>1 DEF OpenAIResolve, Given, Fresh
  <1>3. /\ FrameTypes /\ k.session \in Sessions /\ k.tool \in Tools /\ k.args \in Args /\ k.effect \in Effects /\ k.final = k.args
        /\ StoreOk(store, minted)
    BY <1>1, <1>2 DEF CallOk, CallState, FrameInv
  <1>4. x \in Ids
    BY <1>3, IdIn
  <1>5. StoreOk(put, minted)
    <2>1. fresh \in Held /\ fresh.status # "approved"
      BY <1>3, FreshHeld
    <2> HIDE DEF fresh, x
    <2> QED BY <1>3, <1>4, <2>1, StorePuts, Zenon
  <1>6. PICK st : /\ StoreOk(st, minted)
                  /\ \/ /\ store' = (IF st[x].status = "pending" THEN Reject(st, x) ELSE st)
                        /\ UNCHANGED <<minted, call>>
                     \/ LET r == Resume(st, x, k.tool, k.args, "approved") IN
                        /\ store' = r.store /\ minted' = r.minted
                        /\ IF r.ok THEN Set(c, Given(k, "enter", r.by)) ELSE UNCHANGED call
    <2> HIDE DEF put, x
    <2> QED BY <1>2, <1>3, <1>5, Zenon
  <1>7. ChainInv' /\ ChainGrew /\ NoNewReceipt
    BY <1>2, SameChain
  <1>8. CASE store' = (IF st[x].status = "pending" THEN Reject(st, x) ELSE st) /\ UNCHANGED <<minted, call>>
    <2>1. MintGrew
      BY <1>3, <1>8, NothingGrew
    <2>2. StoreOk(Reject(st, x), minted)
      BY <1>4, <1>6, StoreRejects
    <2>3. store' = Reject(st, x) \/ store' = st
      BY <1>8
    <2>4. StoreOk(store, minted)'
      BY <1>2, <1>6, <2>1, <2>2, <2>3, StoreFrame
    <2> QED BY <1>2, <1>7, <1>8, <2>1, <2>4, StillCalls
  <1>9. PICK r : r = Resume(st, x, k.tool, k.args, "approved")
    OBVIOUS
  <1>10. /\ StoreOk(r.store, r.minted)
         /\ r.ok => /\ r.by = Len(minted) + 1
                    /\ r.minted = Append(minted, [binds |-> ArgsContentId(k.args), tool |-> k.tool, args |-> k.args])
         /\ ~r.ok => r.minted = minted
         /\ r.ok \in BOOLEAN
    BY <1>3, <1>6, <1>9, Resumes
  <1>11. CASE store' = r.store /\ minted' = r.minted /\ ~r.ok /\ UNCHANGED call
    <2>1. MintGrew
      BY <1>3, <1>10, <1>11, NothingGrew
    <2>2. StoreOk(store, minted)'
      BY <1>2, <1>10, <1>11 DEF StoreOk, Ids, ArgsContentId
    <2> QED BY <1>2, <1>7, <1>11, <2>1, <2>2, StillCalls
  <1>12. CASE store' = r.store /\ minted' = r.minted /\ r.ok /\ Set(c, Given(k, "enter", r.by))
    <2>1. StoreOk(store, minted)'
      BY <1>2, <1>10, <1>12 DEF StoreOk, Ids, ArgsContentId
    <2>2. /\ MintGrew /\ Len(minted) \in Nat /\ Len(minted') = Len(minted) + 1 /\ Len(minted) + 1 \in DOMAIN minted'
          /\ minted'[Len(minted) + 1].binds = ArgsContentId(k.args) /\ r.by = Len(minted) + 1
          /\ minted'[Len(minted) + 1].tool = k.tool /\ minted'[Len(minted) + 1].args = k.args
      BY <1>3, <1>10, <1>12, MintedOne
    <2>3. PICK n \in Nat : n = r.by /\ n = Len(minted) + 1
      BY <2>2
    <2>4. PICK m : m = Given(k, "enter", n)
      OBVIOUS
    <2>5. "enter" \in Steps
      BY DEF Steps
    <2>6. /\ m \in CallState /\ m.pc = "enter" /\ m.by = n /\ m.final = k.final
          /\ m.tool = k.tool /\ m.args = k.args /\ m.session = k.session /\ m.effect = k.effect
      BY <2>3, <2>4, <2>5, GivenState
    <2>7. Covered(m.effect, m.by, m.tool, m.final)'
      BY <1>2, <1>3, <2>2, <2>3, <2>6 DEF Covered, ArgsContentId
    <2>8. CallOk(m)'
      BY <1>3, <2>2, <2>3, <2>6, <2>7 DEF CallOk
    <2>9. Set(c, m) /\ m.pc # "ran" /\ call[c].pc # "ran" /\ m.by > Len(minted)
      BY <1>1, <1>2, <1>12, <2>2, <2>3, <2>4, <2>6
    <2> QED BY <1>2, <1>7, <2>1, <2>2, <2>6, <2>8, <2>9, QuietSet
  <1> QED BY <1>6, <1>8, <1>9, <1>10, <1>11, <1>12

LEMMA MsafResolveInv ==
  ASSUME FrameInv, NEW args \in Args, NEW d, MsafResolve(ArgsContentId(args), args, d) PROVE FrameInv'
  <1>1. FrameTypes /\ StoreOk(store, minted)
    BY DEF FrameInv
  <1> DEFINE x == ArgsContentId(args)
  <1> DEFINE tool == store[x].tool
  <1>2. PICK r : r = Resume(store, x, tool, args, "approved")
    OBVIOUS
  <1>3. /\ UNCHANGED <<framework, gating, chain, last, life, call, ran>>
        /\ (store' = Reject(store, x) /\ UNCHANGED minted) \/ (store' = r.store /\ minted' = r.minted)
    BY <1>2 DEF MsafResolve
  <1>4. x \in Ids
    BY <1>1, IdIn
  <1>5. /\ StoreOk(r.store, r.minted)
        /\ r.ok => r.minted = Append(minted, [binds |-> ArgsContentId(args), tool |-> tool, args |-> args])
        /\ ~r.ok => r.minted = minted
        /\ tool \in Tools \cup {"none"}
    <2>1. tool \in Tools \cup {"none"}
      BY <1>1, <1>4 DEF StoreOk, Held
    <2> HIDE DEF tool
    <2> QED BY <1>1, <1>2, <2>1, Resumes
  <1>6. MintGrew /\ StoreOk(store, minted)'
    <2>1. CASE store' = Reject(store, x) /\ UNCHANGED minted
      <3>1. MintGrew /\ StoreOk(Reject(store, x), minted)
        BY <1>1, <1>4, <2>1, NothingGrew, StoreRejects
      <3> QED BY <1>3, <2>1, <3>1, StoreFrame
    <2>2. CASE store' = r.store /\ minted' = r.minted
      <3>1. MintGrew
        BY <1>1, <1>5, <2>2, NothingGrew, MintedOne
      <3>2. StoreOk(store, minted)'
        BY <1>3, <1>5, <2>2 DEF StoreOk, Ids, ArgsContentId
      <3> QED BY <3>1, <3>2
    <2> QED BY <1>3, <2>1, <2>2
  <1>7. ChainInv' /\ ChainGrew /\ NoNewReceipt
    BY <1>3, SameChain
  <1> QED BY <1>3, <1>6, <1>7, StillCalls

LEMMA MsafProcessInv ==
  ASSUME FrameInv, NEW c \in Calls, NEW tool \in Tools, NEW args \in Args, NEW s \in Sessions, MsafProcess(c, tool, args, s)
  PROVE  FrameInv'
  <1>1. PICK e \in Effects : e = ResolveEffect(tool, args)
    BY EffectIn
  <1>2. FrameTypes /\ StoreOk(store, minted) /\ ArgsContentId(args) \in Ids
    BY IdIn DEF FrameInv
  <1>3. PICK held \in Held : held = store[ArgsContentId(args)]
    BY <1>2 DEF StoreOk
  <1>4. PICK by : by = IF RequiresApproval(e) THEN held.by ELSE 0
    OBVIOUS
  <1>5. PICK k0 : k0 = Begun(tool, args, s, "run", e)
    OBVIOUS
  <1>6. PICK k : k = [k0 EXCEPT !.by = by]
    OBVIOUS
  <1>7. /\ framework = "msaf" /\ call[c].pc = "idle" /\ UNCHANGED <<framework, gating, life, minted, ran>>
        /\ \/ Pause(tool, args, e) /\ End(c) /\ UNCHANGED <<chain, last>>
           \/ End(c) /\ UNCHANGED <<store, chain, last>>
           \/ /\ RequiresApproval(e) => held.status = "approved"
              /\ Capture("call", s, tool, args, e) /\ UNCHANGED store
              /\ (Authorized(e) /\ Set(c, k)) \/ End(c)
    BY <1>1, <1>3, <1>4, <1>5, <1>6 DEF MsafProcess
  <1>8. CASE Pause(tool, args, e) /\ End(c) /\ UNCHANGED <<chain, last>>
    <2>1. StoreOk(store, minted)' /\ MintGrew
      BY <1>7, <1>8, PauseOk
    <2>2. ChainInv' /\ ChainGrew /\ NoNewReceipt
      BY <1>7, <1>8, SameChain
    <2> QED BY <1>7, <1>8, <2>1, <2>2, QuietEnd
  <1>9. CASE End(c) /\ UNCHANGED <<store, chain, last>>
    <2>1. StoreOk(store, minted)' /\ MintGrew
      BY <1>7, <1>9, SameStore
    <2>2. ChainInv' /\ ChainGrew /\ NoNewReceipt
      BY <1>7, <1>9, SameChain
    <2> QED BY <1>7, <1>9, <2>1, <2>2, QuietEnd
  <1>10. CASE /\ RequiresApproval(e) => held.status = "approved"
              /\ Capture("call", s, tool, args, e) /\ UNCHANGED store
              /\ (Authorized(e) /\ Set(c, k)) \/ End(c)
    <2>1. StoreOk(store, minted)' /\ MintGrew
      BY <1>7, <1>10, SameStore
    <2>2. /\ ChainInv' /\ ChainGrew /\ NoNewReceipt /\ Len(chain') = Len(chain) + 1
          /\ LET r == chain'[Len(chain) + 1] IN r.what = "call" /\ r.tool = tool /\ r.args = args /\ r.effect = e
      BY <1>2, <1>7, <1>10, CaptureKeeps DEF FrameInv
    <2>3. CASE End(c)
      BY <1>7, <2>1, <2>2, <2>3, QuietEnd
    <2>4. CASE Authorized(e) /\ Set(c, k)
      <3>1. RequiresApproval(e) => held.by \in DOMAIN minted /\ minted[held.by].binds = ArgsContentId(args)
        BY <1>2, <1>3, <1>10 DEF StoreOk
      <3>2. by \in Nat /\ by <= Len(minted) /\ (RequiresApproval(e) => by = held.by)
        BY <1>2, <1>4, <3>1, FrameLengths
      <3>3. /\ k0 \in CallState /\ k0.pc = "run" /\ k0.tool = tool /\ k0.args = args /\ k0.session = s /\ k0.effect = e
            /\ k0.final = args
        BY <1>5, BegunState
      <3>4. /\ k \in CallState /\ k.pc = "run" /\ k.tool = tool /\ k.args = args /\ k.session = s /\ k.effect = e
            /\ k.final = args /\ k.by = by
        BY <1>6, <3>2, <3>3 DEF CallState
      <3>5. Covered(k.effect, k.by, k.tool, k.final)'
        BY <1>7, <3>1, <3>2, <3>4 DEF Covered, ArgsContentId
      <3>6. k.by <= Len(minted')
        BY <1>7, <3>2, <3>4
      <3>7. CallOk(k)'
        BY <1>7, <2>1, <2>2, <2>4, <3>4, <3>5, <3>6, CapturedOk
      <3>8. k.pc # "ran" /\ call[c].pc # "ran"
        BY <1>7, <3>4
      <3> QED BY <1>7, <2>1, <2>2, <2>4, <3>4, <3>7, <3>8, QuietSet
    <2> QED BY <1>10, <2>3, <2>4
  <1> QED BY <1>7, <1>8, <1>9, <1>10

(***************************************************************************)
(* Runs, receipts and restarts                                             *)
(***************************************************************************)
LEMMA CallsKept ==
  ASSUME FrameInv, NEW c, ChainGrew, MintGrew, UNCHANGED <<framework, gating>>,
         \A d \in Calls : d # c => call'[d] = call[d], c \in Calls => CallOk(call[c])'
  PROVE  CallInv'
  <1> SUFFICES ASSUME NEW d \in Calls PROVE CallOk(call[d])'
    BY DEF CallInv
  <1>1. CASE d = c
    BY <1>1
  <1>2. CASE d # c
    <2>1. PICK h \in CallState : h = call[d] /\ CallOk(h) /\ FrameTypes
      BY CallFacts
    <2>2. CallOk(h)' /\ call'[d] = h
      BY <1>2, <2>1, CallStays
    <2> QED BY <2>2 DEF CallOk, Covered, HasRecord
  <1> QED BY <1>1, <1>2

LEMMA RunFacts ==
  ASSUME FrameInv, NEW i \in DOMAIN ran PROVE ran[i] \in RunRecord /\ ran[i].by \in Nat /\ RunOk(ran[i])
  <1>1. DOMAIN ran = 1..Len(ran) /\ ran \in Seq(RunRecord)
    BY FrameLengths DEF FrameInv, FrameTypes
  <1>2. ran[i] \in RunRecord
    BY <1>1, ElementOfSeq
  <1> QED BY <1>2 DEF FrameInv, RunInv, RunRecord

LEMMA RunsKept ==
  ASSUME FrameInv, ChainGrew, MintGrew, UNCHANGED <<framework, gating>>
  PROVE  \A i \in DOMAIN ran : RunOk(ran[i])' \/ ran'[i] # ran[i]
  <1> SUFFICES ASSUME NEW i \in DOMAIN ran, ran'[i] = ran[i] PROVE RunOk(ran[i])'
    OBVIOUS
  <1>1. PICK r \in RunRecord : r = ran[i] /\ RunOk(r) /\ FrameTypes
    BY RunFacts DEF FrameInv
  <1>2. RunOk(r)'
    BY <1>1, RunStays
  <1> QED BY <1>1, <1>2 DEF RunOk, Covered, HasRecord

LEMMA AddOne ==
  ASSUME NEW S, IsFiniteSet(S), NEW x
  PROVE  /\ IsFiniteSet(S \cup {x}) /\ Cardinality(S \cup {x}) <= Cardinality(S) + 1
         /\ Cardinality(S) \in Nat /\ Cardinality(S \cup {x}) \in Nat
         /\ x \notin S => Cardinality(S \cup {x}) = Cardinality(S) + 1
  <1>1. IsFiniteSet(S \cup {x}) /\ Cardinality(S \cup {x}) = IF x \in S THEN Cardinality(S) ELSE Cardinality(S) + 1
    BY FS_AddElement
  <1>2. Cardinality(S) \in Nat
    BY FS_CardinalityType
  <1> QED BY <1>1, <1>2

LEMMA FewerOwed ==
  ASSUME NEW R, NEW O, NEW O1, NEW U, IsFiniteSet(R), IsFiniteSet(O), IsFiniteSet(U),
         Cardinality(R) + Cardinality(O) <= Cardinality(U),
         O1 \subseteq O
  PROVE  Cardinality(R) + Cardinality(O1) <= Cardinality(U)
  <1>1. Cardinality(O1) <= Cardinality(O) /\ Cardinality(O1) \in Nat
    BY FS_Subset, FS_CardinalityType
  <1> QED BY <1>1, FS_CardinalityType

LEMMA OneMoreRun ==
  ASSUME NEW R, NEW O, NEW O1, NEW U, IsFiniteSet(R), IsFiniteSet(O), IsFiniteSet(U),
         Cardinality(R) + Cardinality(O) <= Cardinality(U),
         NEW c, O1 \subseteq O \cup {c}, NEW n, n \notin U
  PROVE  Cardinality(R) + Cardinality(O1) <= Cardinality(U \cup {n})
  <1>1. Cardinality(U \cup {n}) = Cardinality(U) + 1 /\ Cardinality(U) \in Nat
    BY AddOne
  <1>2. IsFiniteSet(O \cup {c}) /\ Cardinality(O \cup {c}) <= Cardinality(O) + 1 /\ Cardinality(O \cup {c}) \in Nat
    BY AddOne
  <1>3. Cardinality(O1) <= Cardinality(O \cup {c}) /\ Cardinality(O1) \in Nat
    BY <1>2, FS_Subset, FS_CardinalityType
  <1>4. Cardinality(R) \in Nat /\ Cardinality(O) \in Nat
    BY FS_CardinalityType
  <1> QED BY <1>1, <1>2, <1>3, <1>4

LEMMA OneMoreReceipt ==
  ASSUME NEW R, NEW O, NEW O1, NEW U, IsFiniteSet(R), IsFiniteSet(O), IsFiniteSet(U),
         Cardinality(R) + Cardinality(O) <= Cardinality(U),
         NEW c \in O, O1 = O \ {c}, NEW n
  PROVE  Cardinality(R \cup {n}) + Cardinality(O1) <= Cardinality(U)
  <1>1. Cardinality(R \cup {n}) <= Cardinality(R) + 1 /\ Cardinality(R \cup {n}) \in Nat
    BY AddOne
  <1>2. Cardinality(O1) = Cardinality(O) - 1
    BY FS_RemoveElement
  <1>3. Cardinality(R) \in Nat /\ Cardinality(O) \in Nat /\ Cardinality(U) \in Nat
    BY FS_CardinalityType
  <1> QED BY <1>1, <1>2, <1>3

LEMMA CountsFinite ==
  ASSUME FrameInv, NEW tool \in Tools, NEW args \in Args
  PROVE  /\ IsFiniteSet(Receipts(tool, args)) /\ IsFiniteSet(Owed(tool, args)) /\ IsFiniteSet(RunsOf(tool, args))
         /\ Cardinality(Receipts(tool, args)) + Cardinality(Owed(tool, args)) <= Cardinality(RunsOf(tool, args))
  <1>1. IsFiniteSet(1..Len(chain)) /\ IsFiniteSet(1..Len(ran)) /\ DOMAIN chain = 1..Len(chain) /\ DOMAIN ran = 1..Len(ran)
    BY FrameLengths, FS_Interval DEF FrameInv
  <1>2. Receipts(tool, args) \subseteq 1..Len(chain) /\ RunsOf(tool, args) \subseteq 1..Len(ran) /\ Owed(tool, args) \subseteq Calls
    BY <1>1 DEF Receipts, RunsOf, Owed
  <1>3. IsFiniteSet(Calls)
    BY AgentGuardsConstants
  <1> QED BY <1>1, <1>2, <1>3, FS_Subset DEF FrameInv, ReceiptInv

LEMMA ForwardInv == ASSUME FrameInv, NEW c \in Calls, Forward(c) PROVE FrameInv'
  <1>1. PICK k \in CallState : k = call[c] /\ CallOk(k)
    BY CallFacts
  <1>2. PICK r : r = [tool |-> k.tool, args |-> k.final, by |-> k.by, shown |-> k.args, effect |-> k.effect, at |-> Len(chain)]
    OBVIOUS
  <1>3. /\ k.pc = "run" /\ ran' = Append(ran, r) /\ (Set(c, Moved(k, "ran")) \/ Set(c, Idle))
        /\ UNCHANGED <<framework, gating, chain, last, life, store, minted>>
    BY <1>1, <1>2 DEF Forward, End, Moved
  <1>4. /\ FrameTypes /\ Len(chain) \in Nat /\ Len(minted) \in Nat /\ k.by \in Nat
        /\ Covered(k.effect, k.by, k.tool, k.final) /\ Authorized(k.effect) /\ HasRecord(k.tool, k.args, k.effect, Len(chain))
        /\ k.by <= Len(minted)
    BY <1>1, <1>3, FrameLengths DEF FrameInv, CallOk, CallState
  <1>5. /\ r \in RunRecord /\ r.tool = k.tool /\ r.args = k.final /\ r.by = k.by /\ r.shown = k.args
        /\ r.effect = k.effect /\ r.at = Len(chain)
    BY <1>2, <1>4 DEF RunRecord, CallState
  <1>6. /\ ran' \in Seq(RunRecord) /\ Len(ran) \in Nat /\ DOMAIN ran = 1..Len(ran) /\ DOMAIN ran' = 1..(Len(ran) + 1)
        /\ \A i \in 1..Len(ran) : ran'[i] = ran[i]
        /\ ran'[Len(ran) + 1] = r
    BY <1>3, <1>4, <1>5, Grown DEF FrameTypes
  <1>7. ChainInv' /\ ChainGrew /\ StoreOk(store, minted)' /\ MintGrew
    BY <1>3, SameChain, SameStore
  <1>8. PICK m \in CallState : /\ Set(c, m) /\ CallOk(m)' /\ ~Holding(m)
                               /\ m.pc = "ran" => m.tool = k.tool /\ m.final = k.final
    <2>1. CASE Set(c, Idle)
      BY <1>7, <2>1, IdleState, IdleOk
    <2>2. CASE Set(c, Moved(k, "ran"))
      <3>1. PICK m : m = Moved(k, "ran")
        OBVIOUS
      <3>2. "ran" \in Steps
        BY DEF Steps
      <3>3. /\ m \in CallState /\ m.pc = "ran" /\ m.by = k.by /\ m.final = k.final
            /\ m.tool = k.tool /\ m.args = k.args /\ m.session = k.session /\ m.effect = k.effect
        BY <3>1, <3>2, MovedState
      <3>4. CallOk(k)'
        BY <1>1, <1>3, <1>4, <1>7, CallStays
      <3>5. CallOk(m)' /\ ~Holding(m)
        BY <1>3, <3>3, <3>4 DEF CallOk, Holding
      <3> QED BY <2>2, <3>1, <3>3, <3>5
    <2> QED BY <1>3, <2>1, <2>2
  <1>9. call' \in [Calls -> CallState] /\ call'[c] = m /\ \A d \in Calls : d # c => call'[d] = call[d]
    BY <1>4, <1>8, SetCall
  <1>10. CallInv'
    <2>1. CallOk(call[c])'
      BY <1>8, <1>9 DEF CallOk, Covered, HasRecord
    <2> QED BY <1>3, <1>7, <1>9, <2>1, CallsKept
  <1>11. RunInv'
    <2>1. RunOk(r)'
      BY <1>3, <1>4, <1>5 DEF RunOk, Covered, HasRecord, Authorized, Approves, ArgsContentId
    <2> SUFFICES ASSUME NEW i \in 1..(Len(ran) + 1) PROVE RunOk(ran[i])'
      BY <1>6 DEF RunInv
    <2>2. CASE i \in 1..Len(ran)
      BY <1>3, <1>6, <1>7, <2>2, RunsKept
    <2>3. CASE i = Len(ran) + 1
      BY <1>6, <2>1, <2>3 DEF RunOk, Covered, HasRecord
    <2> QED BY <1>6, <2>2, <2>3
  <1>12. OnceInv'
    <2> SUFFICES ASSUME framework # "msaf" PROVE OnceInv'
      BY <1>3 DEF OnceInv
    <2>1. /\ \A d, e \in Calls : Holding(call[d]) /\ Holding(call[e]) /\ call[d].by = call[e].by => d = e
          /\ \A d \in Calls, i \in DOMAIN ran : Holding(call[d]) => ran[i].by # call[d].by
          /\ \A i, j \in DOMAIN ran : ran[i].by # 0 /\ ran[i].by = ran[j].by => i = j
      BY DEF FrameInv, OnceInv
    <2>2. \A d \in Calls : Holding(call[d])' => d # c /\ call'[d] = call[d] /\ Holding(call[d])
      BY <1>8, <1>9 DEF Holding
    <2>3. k.by # 0 => Holding(call[c]) /\ k.by = call[c].by
      BY <1>1, <1>3 DEF Holding
    <2>4. \A d \in Calls : Holding(call[d]) /\ d # c => call[d].by # k.by
      BY <2>1, <2>3 DEF Holding
    <2>5. \A i \in DOMAIN ran : k.by # 0 => ran[i].by # k.by
      BY <2>1, <2>3
    <2>6. \A d, e \in Calls : Holding(call[d])' /\ Holding(call[e])' /\ call'[d].by = call'[e].by => d = e
      BY <2>1, <2>2
    <2>7. \A d \in Calls, i \in DOMAIN ran' : Holding(call[d])' => ran'[i].by # call'[d].by
      BY <1>5, <1>6, <2>1, <2>2, <2>4
    <2>8. \A i, j \in DOMAIN ran' : ran'[i].by # 0 /\ ran'[i].by = ran'[j].by => i = j
      BY <1>5, <1>6, <2>1, <2>5
    <2> QED BY <2>6, <2>7, <2>8 DEF OnceInv
  <1>13. ReceiptInv'
    <2> SUFFICES ASSUME NEW tool \in Tools, NEW args \in Args
                 PROVE  Cardinality(Receipts(tool, args)') + Cardinality(Owed(tool, args)') <= Cardinality(RunsOf(tool, args)')
      BY DEF ReceiptInv
    <2>1. Receipts(tool, args)' = Receipts(tool, args)
      BY <1>3 DEF Receipts
    <2>2. CASE k.tool = tool /\ k.final = args
      <3>1. RunsOf(tool, args)' = RunsOf(tool, args) \cup {Len(ran) + 1} /\ Len(ran) + 1 \notin RunsOf(tool, args)
        BY <1>5, <1>6, <2>2 DEF RunsOf
      <3>2. Owed(tool, args)' \subseteq Owed(tool, args) \cup {c}
        BY <1>9 DEF Owed
      <3> QED BY <2>1, <3>1, <3>2, CountsFinite, OneMoreRun
    <2>3. CASE ~(k.tool = tool /\ k.final = args)
      <3>1. RunsOf(tool, args)' = RunsOf(tool, args)
        BY <1>5, <1>6, <2>3 DEF RunsOf
      <3>2. Owed(tool, args)' \subseteq Owed(tool, args)
        BY <1>8, <1>9, <2>3 DEF Owed
      <3> QED BY <2>1, <3>1, <3>2, CountsFinite, FewerOwed
    <2> QED BY <2>2, <2>3
  <1>14. FrameTypes'
    BY <1>3, <1>4, <1>6, <1>7, <1>9 DEF FrameTypes
  <1> QED BY <1>7, <1>10, <1>11, <1>12, <1>13, <1>14 DEF FrameInv

LEMMA ReceiptStepInv == ASSUME FrameInv, NEW c \in Calls, SignReceipt(c) PROVE FrameInv'
  <1>1. PICK k \in CallState : k = call[c] /\ CallOk(k)
    BY CallFacts
  <1>2. /\ k.pc = "ran" /\ Set(c, Idle)
        /\ Capture("result", k.session, k.tool, k.final, k.effect) \/ UNCHANGED <<chain, last>>
        /\ UNCHANGED <<framework, gating, life, store, minted, ran>>
    BY <1>1 DEF SignReceipt, End
  <1>3. /\ FrameTypes /\ ChainInv /\ k.session \in Sessions /\ k.tool \in Tools /\ k.final \in Args /\ k.effect \in Effects
        /\ Len(chain) \in Nat /\ DOMAIN chain = 1..Len(chain)
    BY <1>1, <1>2, FrameLengths DEF FrameInv, CallOk, CallState
  <1>4. /\ ChainInv' /\ ChainGrew
        /\ \/ UNCHANGED chain
           \/ /\ Len(chain') = Len(chain) + 1
              /\ LET r == chain'[Len(chain) + 1] IN r.what = "result" /\ r.tool = k.tool /\ r.args = k.final
    <2>1. CASE Capture("result", k.session, k.tool, k.final, k.effect)
      BY <1>2, <1>3, <2>1, CaptureKeeps
    <2>2. CASE UNCHANGED <<chain, last>>
      BY <1>2, <2>2, SameChain
    <2> QED BY <1>2, <2>1, <2>2
  <1>5. StoreOk(store, minted)' /\ MintGrew
    BY <1>2, SameStore
  <1>6. call' \in [Calls -> CallState] /\ call'[c] = Idle /\ \A d \in Calls : d # c => call'[d] = call[d]
    BY <1>2, <1>3, IdleState, SetCall
  <1>7. CallInv'
    <2>1. CallOk(Idle)'
      BY <1>5, IdleOk
    <2>2. CallOk(call[c])'
      BY <1>6, <2>1 DEF CallOk, Covered, HasRecord
    <2> QED BY <1>2, <1>4, <1>5, <1>6, <2>2, CallsKept
  <1>8. RunInv'
    BY <1>2, <1>4, <1>5, RunsKept DEF RunInv
  <1>9. OnceInv'
    <2>1. \A d \in Calls : Holding(call[d])' => call'[d] = call[d] /\ Holding(call[d])
      BY <1>6, IdleState DEF Holding
    <2> QED BY <1>2, <2>1 DEF FrameInv, OnceInv
  <1>10. ReceiptInv'
    <2> SUFFICES ASSUME NEW tool \in Tools, NEW args \in Args
                 PROVE  Cardinality(Receipts(tool, args)') + Cardinality(Owed(tool, args)') <= Cardinality(RunsOf(tool, args)')
      BY DEF ReceiptInv
    <2>1. RunsOf(tool, args)' = RunsOf(tool, args)
      BY <1>2 DEF RunsOf
    <2>2. Owed(tool, args)' = Owed(tool, args) \ {c}
      BY <1>6, IdleState DEF Owed
    <2>3. CASE UNCHANGED chain \/ ~(k.tool = tool /\ k.final = args)
      <3>1. Receipts(tool, args)' = Receipts(tool, args)
        <4>1. CASE UNCHANGED chain
          BY <4>1 DEF Receipts
        <4>2. CASE chain' # chain
          <5>1. DOMAIN chain' = 1..(Len(chain) + 1) /\ \A j \in 1..Len(chain) : chain'[j] = chain[j]
            BY <1>4, <4>2, LenProperties DEF ChainGrew
          <5> QED BY <1>3, <1>4, <2>3, <4>2, <5>1 DEF Receipts
        <4> QED BY <4>1, <4>2
      <3> QED BY <2>1, <2>2, <3>1, CountsFinite, FewerOwed
    <2>4. CASE chain' # chain /\ k.tool = tool /\ k.final = args
      <3>1. DOMAIN chain' = 1..(Len(chain) + 1) /\ \A j \in 1..Len(chain) : chain'[j] = chain[j]
        BY <1>4, <2>4, LenProperties DEF ChainGrew
      <3>2. Receipts(tool, args)' = Receipts(tool, args) \cup {Len(chain) + 1}
        BY <1>3, <1>4, <2>4, <3>1 DEF Receipts
      <3>3. c \in Owed(tool, args)
        BY <1>1, <1>2, <2>4 DEF Owed
      <3> QED BY <2>1, <2>2, <3>2, <3>3, CountsFinite, OneMoreReceipt
    <2> QED BY <2>3, <2>4
  <1>11. FrameTypes'
    BY <1>2, <1>3, <1>4, <1>5, <1>6 DEF FrameTypes, ChainGrew
  <1> QED BY <1>4, <1>5, <1>7, <1>8, <1>9, <1>10, <1>11 DEF FrameInv

LEMMA RestartInv == ASSUME FrameInv, Restart PROVE FrameInv'
  <1>1. /\ life' = life + 1 /\ last' = [s \in Sessions |-> 0] /\ UNCHANGED <<framework, gating, chain, store, minted, ran>>
        /\ call' = [c \in Calls |->
             IF call[c].pc = "wait" /\ framework \in {"langgraph", "llamaindex", "openai"} THEN call[c] ELSE Idle]
    BY DEF Restart
  <1>2. FrameTypes /\ ChainInv /\ StoreOk(store, minted) /\ life \in Nat
    BY DEF FrameInv, FrameTypes
  <1>3. ChainGrew /\ MintGrew /\ StoreOk(store, minted)'
    BY <1>1, <1>2, NothingGrew, SameStore
  <1>4. ChainInv'
    <2>1. \A k \in DOMAIN chain : chain[k].life \in Nat /\ chain[k].life <= life
      <3>1. \A k \in DOMAIN chain : chain[k] \in ChainRecord
        BY <1>2, FrameLengths, ElementOfSeq DEF FrameTypes
      <3> QED BY <1>2, <3>1 DEF ChainInv, ChainRecord
    <2>2. \A k \in DOMAIN chain : chain[k].life <= life' /\ chain[k].life # life'
      BY <1>1, <1>2, <2>1
    <2>3. ChainIsLinear'
      BY <1>1, <1>2 DEF ChainInv, ChainIsLinear, OfOneLife
    <2>4. last' \in [Sessions -> Nat] /\ \A s \in Sessions : last'[s] = 0
      BY <1>1
    <2> QED BY <1>1, <2>2, <2>3, <2>4 DEF ChainInv
  <1>5. \A c \in Calls : call'[c] = Idle \/ (call'[c] = call[c] /\ call[c].pc = "wait")
    BY <1>1
  <1>6. call' \in [Calls -> CallState]
    <2>1. \A c \in Calls : call[c] \in CallState
      BY CallFacts
    <2> QED BY <1>1, <2>1, IdleState
  <1>7. CallInv'
    <2> SUFFICES ASSUME NEW d \in Calls PROVE CallOk(call[d])'
      BY DEF CallInv
    <2>1. PICK h \in CallState : CallOk(h)' /\ call'[d] = h
      <3>1. CASE call'[d] = Idle
        BY <1>3, <3>1, IdleOk, IdleState
      <3>2. CASE call'[d] = call[d]
        <4>1. PICK h \in CallState : h = call[d] /\ CallOk(h)
          BY CallFacts
        <4> QED BY <1>1, <1>2, <1>3, <3>2, <4>1, CallStays
      <3> QED BY <1>5, <3>1, <3>2
    <2> QED BY <2>1 DEF CallOk, Covered, HasRecord
  <1>8. RunInv'
    BY <1>1, <1>3, RunsKept DEF RunInv
  <1>9. OnceInv'
    <2>1. \A d \in Calls : ~Holding(call[d])'
      BY <1>5, IdleState DEF Holding
    <2> QED BY <1>1, <2>1 DEF FrameInv, OnceInv
  <1>10. ReceiptInv'
    <2> SUFFICES ASSUME NEW tool \in Tools, NEW args \in Args
                 PROVE  Cardinality(Receipts(tool, args)') + Cardinality(Owed(tool, args)') <= Cardinality(RunsOf(tool, args)')
      BY DEF ReceiptInv
    <2>1. Receipts(tool, args)' = Receipts(tool, args) /\ RunsOf(tool, args)' = RunsOf(tool, args)
      BY <1>1 DEF Receipts, RunsOf
    <2>2. Owed(tool, args)' \subseteq Owed(tool, args)
      BY <1>5, IdleState DEF Owed
    <2> QED BY <2>1, <2>2, CountsFinite, FewerOwed
  <1>11. FrameTypes'
    BY <1>1, <1>2, <1>6 DEF FrameTypes
  <1> QED BY <1>3, <1>4, <1>7, <1>8, <1>9, <1>10, <1>11 DEF FrameInv

LEMMA FrameInitInv == ASSUME GuardsInit PROVE FrameInv
  <1>1. /\ framework \in Frameworks /\ chain = << >> /\ last = [s \in Sessions |-> 0] /\ life = 0
        /\ store = [x \in Ids |-> Absent]
        /\ minted = << >> /\ call = [c \in Calls |-> Idle] /\ ran = << >>
    BY DEF GuardsInit, Ids
  <1>2. FrameTypes
    BY <1>1, IdleState DEF FrameTypes
  <1>3. ChainInv
    BY <1>1 DEF ChainInv, ChainIsLinear
  <1>4. StoreOk(store, minted)
    <2>1. Absent \in Held /\ Absent.status # "approved"
      BY DEF Absent, Held, Effects, NoEffect, Destructive
    <2> QED BY <1>1, <2>1 DEF StoreOk
  <1>5. CallInv
    <2>1. CallOk(Idle)
      BY <1>1, IdleState DEF CallOk
    <2> QED BY <1>1, <2>1 DEF CallInv
  <1>6. RunInv /\ OnceInv
    BY <1>1, IdleState DEF RunInv, OnceInv
  <1>7. ReceiptInv
    <2>1. \A tool \in Tools, args \in Args : Receipts(tool, args) = {} /\ Owed(tool, args) = {} /\ RunsOf(tool, args) = {}
      BY <1>1, IdleState DEF Receipts, Owed, RunsOf
    <2> QED BY <2>1, FS_EmptySet DEF ReceiptInv
  <1> QED BY <1>2, <1>3, <1>4, <1>5, <1>6, <1>7 DEF FrameInv

LEMMA FrameStepKeeps == ASSUME FrameInv, [GuardsNext]_guardvars PROVE FrameInv'
  <1>1. CASE \E c \in Calls, tool \in Tools, args \in Args, s \in Sessions :
               \/ LangGraphCall(c, tool, args, s) \/ LlamaIndexCall(c, tool, args, s)
               \/ CrewBeforeHook(c, tool, args, s) \/ AdkBeforeTool(c, tool, args, s)
               \/ McpCallTool(c, tool, args, s) \/ A2aBefore(c, tool, args, s)
               \/ A2aOnMessage(c, tool, args, s) \/ RecordServerToolCall(c, tool, args, s)
               \/ OpenAIAsk(c, tool, args, s) \/ MsafProcess(c, tool, args, s)
    <2>1. PICK c \in Calls, tool \in Tools, args \in Args, s \in Sessions :
               \/ LangGraphCall(c, tool, args, s) \/ LlamaIndexCall(c, tool, args, s)
               \/ CrewBeforeHook(c, tool, args, s) \/ AdkBeforeTool(c, tool, args, s)
               \/ McpCallTool(c, tool, args, s) \/ A2aBefore(c, tool, args, s)
               \/ A2aOnMessage(c, tool, args, s) \/ RecordServerToolCall(c, tool, args, s)
               \/ OpenAIAsk(c, tool, args, s) \/ MsafProcess(c, tool, args, s)
      BY <1>1
    <2>2. CASE OnEffectingAction(c, tool, args, s)
      BY <2>2, EffectingInv
    <2>3. CASE A2aOnMessage(c, tool, args, s) \/ RecordServerToolCall(c, tool, args, s)
      BY <2>3, OnMessageInv
    <2>4. CASE OpenAIAsk(c, tool, args, s)
      BY <2>4, AskInv
    <2>5. CASE MsafProcess(c, tool, args, s)
      BY <2>5, MsafProcessInv
    <2> QED BY <2>1, <2>2, <2>3, <2>4, <2>5
        DEF LangGraphCall, LlamaIndexCall, CrewBeforeHook, AdkBeforeTool, McpCallTool, A2aBefore
  <1>2. CASE \E c \in Calls : \E d \in Decisions : InFrameDecision(c, d) \/ OpenAIResolve(c, d)
    BY <1>2, InFrameInv, OpenResolveInv, Zenon
  <1>3. CASE \E c \in Calls : Forward(c) \/ SignReceipt(c) \/ OpenAITool(c)
    BY <1>3, ForwardInv, ReceiptStepInv, OpenToolInv, Zenon
  <1>4. CASE \E args \in Args, d \in {"yes", "no"} : MsafResolve(ArgsContentId(args), args, d)
    BY <1>4, MsafResolveInv, Zenon
  <1>5. CASE \E s \in Sessions : AdkEvent(s)
    BY <1>5, EventInv, Zenon
  <1>6. CASE Restart
    BY <1>6, RestartInv, Zenon
  <1>7. CASE UNCHANGED guardvars
    <2>1. UNCHANGED <<framework, gating, chain, last, life, store, minted, call, ran>>
      BY <1>7 DEF guardvars
    <2>2. ChainInv' /\ ChainGrew /\ NoNewReceipt /\ StoreOk(store, minted)' /\ MintGrew
      BY <2>1, SameChain, SameStore
    <2> QED BY <2>1, <2>2, StillCalls
  <1> QED BY <1>1, <1>2, <1>3, <1>4, <1>5, <1>6, <1>7, Zenon DEF GuardsNext

\* What the guards of all frameworks keep: a linear chain, approvals stored under the id they
\* were minted for, calls recorded and covered before they may run, one holder of an approval,
\* receipts owed by runs (ChainRecorder, on_effecting_action, resume).
THEOREM FrameInvariant == GuardsSpec => []FrameInv
  <1>1. GuardsInit => FrameInv
    BY FrameInitInv
  <1>2. FrameInv /\ [GuardsNext]_guardvars => FrameInv'
    BY FrameStepKeeps
  <1> QED BY <1>1, <1>2, PTL DEF GuardsSpec

(***************************************************************************)
(* The recorder's stream                                                   *)
(***************************************************************************)
\* Natural numbers are well ordered: a set of them has a least element.
LEMMA LeastOf ==
  ASSUME NEW T \in SUBSET Nat, T # {}
  PROVE  \E m \in T : \A y \in T : m <= y
  <1> DEFINE R == {ss \in Nat \X Nat : ss[1] < ss[2]}
  <1>1. IsWellFoundedOn(R, Nat)
    BY NatLessThanWellFounded, Zenon DEF OpToRel
  <1>2. \A x, y \in Nat : <<x, y>> \in R <=> x < y
    OBVIOUS
  <1> HIDE DEF R
  <1>3. PICK m \in T : \A y \in Nat : <<y, m>> \in R => ~(y \in T)
    BY <1>1, WFMin, Zenon
  <1>4. \A y \in T : ~(y < m)
    BY <1>2, <1>3, Zenon
  <1> QED BY <1>3, <1>4

\* Induction up to a bound, as a fact about sets.
LEMMA AllUpTo ==
  ASSUME NEW n \in Nat, NEW G, 0 \in G, \A k \in 0..n : k < n /\ k \in G => k + 1 \in G
  PROVE  \A k \in 0..n : k \in G
  <1> DEFINE Bad == {k \in 0..n : k \notin G}
  <1> SUFFICES ASSUME Bad # {} PROVE FALSE
    OBVIOUS
  <1>0. Bad \in SUBSET Nat
    OBVIOUS
  <1>1. PICK m \in Bad : \A y \in Bad : m <= y
    BY <1>0, LeastOf
  <1>2. m \in 1..n /\ m - 1 \in 0..n
    OBVIOUS
  <1>3. m - 1 \in G
    BY <1>1, <1>2
  <1> QED BY <1>1, <1>2, <1>3

\* The functions that append and read_all compute step by step.
WriteBody(p, f, n) == IF n = 0 THEN << >> ELSE f[n - 1] \o <<Len(p[n])>> \o p[n]
WriteFn(p) == CHOOSE f : f = [n \in 0..Len(p) |-> WriteBody(p, f, n)]

ReadBody(u, f, i) ==
  IF i > Len(u) THEN << >>
  ELSE IF i + u[i] > Len(u) THEN <<"truncated">>
  ELSE <<SubSeq(u, i + 1, i + u[i])>> \o f[i + u[i] + 1]
ReadFn(u) == CHOOSE f : f = [i \in 1..(Len(u) + 1) |-> ReadBody(u, f, i)]

LEMMA WrittenIs == ASSUME NEW p PROVE Written(p) = WriteFn(p)[Len(p)]
  BY Zenon DEF Written, WriteFn, WriteBody

LEMMA ReadIs == ASSUME NEW u PROVE ReadAll(u) = ReadFn(u)[1]
  BY Zenon DEF ReadAll, ReadFn, ReadBody

\* The records of a chain of n, and the units they are written as.
Marks(n) == [i \in 1..n |-> <<i, i>>]
Units(n) == [j \in 1..(3 * n) |-> IF j % 3 = 1 THEN 2 ELSE (j + 2) \div 3]

LEMMA UnitsAre ==
  ASSUME NEW n \in Nat
  PROVE  /\ Units(n) \in Seq(Nat) /\ Len(Units(n)) = 3 * n
         /\ \A m \in 0..(n - 1) : Units(n)[3 * m + 1] = 2 /\ Units(n)[3 * m + 2] = m + 1 /\ Units(n)[3 * m + 3] = m + 1
  <1>1. \A j \in 1..(3 * n) : Units(n)[j] \in Nat
    BY DEF Units
  <1>2. Units(n) \in Seq(Nat) /\ Len(Units(n)) = 3 * n
    BY <1>1 DEF Units
  <1>3. ASSUME NEW m \in 0..(n - 1)
        PROVE  Units(n)[3 * m + 1] = 2 /\ Units(n)[3 * m + 2] = m + 1 /\ Units(n)[3 * m + 3] = m + 1
    BY DEF Units
  <1> QED BY <1>2, <1>3

LEMMA UnitsStep ==
  ASSUME NEW n \in Nat, n # 0
  PROVE  Units(n) = Units(n - 1) \o <<2>> \o <<n, n>>
  <1>1. n - 1 \in Nat
    OBVIOUS
  <1>2. PICK a : a = Units(n - 1)
    OBVIOUS
  <1>3. a \in Seq(Nat) /\ Len(a) = 3 * n - 3 /\ \A j \in 1..(3 * n - 3) : a[j] = Units(n)[j]
    BY <1>1, <1>2, UnitsAre DEF Units
  <1>4. Units(n) \in Seq(Nat) /\ Len(Units(n)) = 3 * n /\ Units(n)[3 * n - 2] = 2 /\ Units(n)[3 * n - 1] = n /\ Units(n)[3 * n] = n
    BY <1>1, UnitsAre DEF Units
  <1>5. PICK b : b = a \o <<2>> \o <<n, n>>
    OBVIOUS
  <1>6. /\ b \in Seq(Nat) /\ Len(b) = 3 * n /\ (\A j \in 1..(3 * n - 3) : b[j] = a[j])
        /\ b[3 * n - 2] = 2 /\ b[3 * n - 1] = n /\ b[3 * n] = n
    BY <1>3, <1>5
  <1>7. \A j \in 1..(3 * n) : b[j] = Units(n)[j]
    <2> SUFFICES ASSUME NEW j \in 1..(3 * n) PROVE b[j] = Units(n)[j]
      OBVIOUS
    <2>1. CASE j \in 1..(3 * n - 3)
      BY <1>3, <1>6, <2>1
    <2>2. CASE j = 3 * n - 2 \/ j = 3 * n - 1 \/ j = 3 * n
      BY <1>4, <1>6, <2>2
    <2> QED BY <2>1, <2>2
  <1>8. b = Units(n)
    BY <1>4, <1>6, <1>7, SeqEqual
  <1> QED BY <1>2, <1>5, <1>8

LEMMA MarksAre ==
  ASSUME NEW n \in Nat
  PROVE  /\ Marks(n) \in Seq(Seq(Nat)) /\ Len(Marks(n)) = n
         /\ \A i \in 1..n : Marks(n)[i] = <<i, i>> /\ Len(Marks(n)[i]) = 2
  <1>1. \A i \in 1..n : Marks(n)[i] = <<i, i>> /\ <<i, i>> \in Seq(Nat) /\ Len(<<i, i>>) = 2
    BY DEF Marks
  <1> QED BY <1>1 DEF Marks

LEMMA WriteBodyIs ==
  ASSUME NEW p, NEW f
  PROVE  /\ WriteBody(p, f, 0) = << >>
         /\ \A n \in Nat \ {0} : WriteBody(p, f, n) = f[n - 1] \o <<Len(p[n])>> \o p[n]
  BY DEF WriteBody

\* What append writes for them.
LEMMA WrittenUnits ==
  ASSUME NEW n \in Nat
  PROVE  Written(Marks(n)) = Units(n)
  <1>1. Len(Marks(n)) = n /\ \A k \in 1..n : Marks(n)[k] = <<k, k>> /\ Len(Marks(n)[k]) = 2
    BY MarksAre
  <1>2. PICK g : g = [k \in 0..n |-> Units(k)]
    OBVIOUS
  <1>3. Units(0) = << >>
    BY DEF Units
  <1>4. \A k \in 0..n : g[k] = WriteBody(Marks(n), g, k)
    <2> SUFFICES ASSUME NEW k \in 0..n PROVE g[k] = WriteBody(Marks(n), g, k)
      OBVIOUS
    <2>1. CASE k = 0
      BY <1>2, <1>3, <2>1, WriteBodyIs
    <2>2. CASE k # 0
      <3>1. g[k] = Units(k) /\ g[k - 1] = Units(k - 1)
        BY <1>2, <2>2
      <3>2. Units(k) = Units(k - 1) \o <<2>> \o <<k, k>>
        BY <2>2, UnitsStep
      <3>3. k \in Nat \ {0} /\ k \in 1..n
        BY <2>2
      <3>4. WriteBody(Marks(n), g, k) = g[k - 1] \o <<2>> \o <<k, k>>
        BY <1>1, <3>3, WriteBodyIs
      <3> QED BY <3>1, <3>2, <3>4
    <2> QED BY <2>1, <2>2
  <1>5. g = [k \in 0..Len(Marks(n)) |-> WriteBody(Marks(n), g, k)]
    BY <1>1, <1>2, <1>4
  <1>6. PICK f : f = WriteFn(Marks(n))
    OBVIOUS
  <1>7. f = [k \in 0..Len(Marks(n)) |-> WriteBody(Marks(n), f, k)]
    BY <1>5, <1>6, Zenon DEF WriteFn
  <1>8. \A k \in 0..n : f[k] = WriteBody(Marks(n), f, k)
    BY <1>1, <1>7
  <1> DEFINE G == {k \in 0..n : f[k] = Units(k)}
  <1>9. 0 \in G
    <2>1. 0 \in 0..n
      OBVIOUS
    <2>2. f[0] = << >>
      BY <1>8, <2>1, WriteBodyIs
    <2> QED BY <1>3, <2>1, <2>2
  <1>10. ASSUME NEW k \in 0..n, k < n, k \in G PROVE k + 1 \in G
    <2>1. k + 1 \in 1..n /\ k + 1 # 0 /\ (k + 1) - 1 = k /\ f[k] = Units(k) /\ k + 1 \in Nat
      BY <1>10
    <2>2. f[k + 1] = f[k] \o <<2>> \o <<k + 1, k + 1>>
      <3>1. k + 1 \in 0..n /\ k + 1 \in Nat \ {0}
        BY <2>1
      <3>2. f[k + 1] = f[(k + 1) - 1] \o <<Len(Marks(n)[k + 1])>> \o Marks(n)[k + 1]
        BY <1>8, <3>1, WriteBodyIs
      <3> QED BY <1>1, <2>1, <3>2
    <2>3. Units(k + 1) = Units(k) \o <<2>> \o <<k + 1, k + 1>>
      BY <2>1, UnitsStep
    <2>4. f[k + 1] = Units(k + 1)
      BY <2>1, <2>2, <2>3, Zenon
    <2>5. k + 1 \in 0..n
      BY <2>1
    <2> QED BY <2>4, <2>5
  <1>11. \A k \in 0..n : k \in G
    <2> HIDE DEF G
    <2> QED BY <1>9, <1>10, AllUpTo
  <1>12. f[n] = Units(n)
    BY <1>11
  <1> QED BY <1>1, <1>6, <1>12, WrittenIs

\* A stream can be read from each of its places on: the recursion of read_all is well founded.
LEMMA ReadFnIs ==
  ASSUME NEW u \in Seq(Nat)
  PROVE  \A i \in 1..(Len(u) + 1) : ReadFn(u)[i] = ReadBody(u, ReadFn(u), i)
  <1>1. PICK L : L = Len(u)
    OBVIOUS
  <1>2. L \in Nat /\ \A i \in 1..L : u[i] \in Nat
    BY <1>1
  <1> DEFINE G == {d \in 0..L : \E g : g = [i \in (L + 1 - d)..(L + 1) |-> ReadBody(u, g, i)]}
  <1>3. 0 \in G
    <2>1. PICK g : g = [i \in (L + 1 - 0)..(L + 1) |-> << >>]
      OBVIOUS
    <2>2. \A i \in (L + 1 - 0)..(L + 1) : ReadBody(u, g, i) = << >>
      BY <1>1, <1>2 DEF ReadBody
    <2>3. g = [i \in (L + 1 - 0)..(L + 1) |-> ReadBody(u, g, i)]
      BY <2>1, <2>2
    <2> QED BY <1>2, <2>3
  <1>4. ASSUME NEW d \in 0..L, d < L, d \in G PROVE d + 1 \in G
    <2>1. PICK g : g = [i \in (L + 1 - d)..(L + 1) |-> ReadBody(u, g, i)]
      BY <1>4
    <2>2. PICK a : a = L + 1 - d /\ a \in 2..(L + 1)
      BY <1>2, <1>4
    <2>3. PICK h : h = [i \in (a - 1)..(L + 1) |-> IF i = a - 1 THEN ReadBody(u, g, i) ELSE g[i]]
      OBVIOUS
    <2>4. \A i \in a..(L + 1) : h[i] = g[i] /\ g[i] = ReadBody(u, g, i)
      <3>1. \A i \in (L + 1 - d)..(L + 1) : g[i] = ReadBody(u, g, i)
        BY <2>1
      <3>2. \A i \in a..(L + 1) : i \in (a - 1)..(L + 1) /\ i # a - 1
        BY <1>2, <2>2
      <3>3. \A i \in a..(L + 1) : h[i] = g[i]
        BY <2>3, <3>2
      <3> QED BY <2>2, <3>1, <3>3
    <2>5. \A i \in (a - 1)..(L + 1) : ReadBody(u, h, i) = ReadBody(u, g, i)
      <3> SUFFICES ASSUME NEW i \in (a - 1)..(L + 1) PROVE ReadBody(u, h, i) = ReadBody(u, g, i)
        OBVIOUS
      <3>1. CASE i <= L /\ i + u[i] <= L
        <4>1. i + u[i] + 1 \in a..(L + 1)
          BY <1>2, <2>2, <3>1
        <4>2. h[i + u[i] + 1] = g[i + u[i] + 1]
          BY <2>4, <4>1
        <4> QED BY <1>1, <1>2, <3>1, <4>2 DEF ReadBody
      <3>2. CASE ~(i <= L /\ i + u[i] <= L)
        BY <1>1, <1>2, <2>2, <3>2 DEF ReadBody
      <3> QED BY <3>1, <3>2
    <2>6. \A i \in (a - 1)..(L + 1) : h[i] = ReadBody(u, h, i)
      <3> SUFFICES ASSUME NEW i \in (a - 1)..(L + 1) PROVE h[i] = ReadBody(u, g, i)
        BY <2>5
      <3>1. CASE i = a - 1
        BY <2>3, <3>1
      <3>2. CASE i # a - 1
        <4>1. i \in a..(L + 1)
          BY <1>2, <2>2, <3>2
        <4> QED BY <2>4, <4>1
      <3> QED BY <3>1, <3>2
    <2>7. h = [i \in (a - 1)..(L + 1) |-> ReadBody(u, h, i)]
      BY <2>3, <2>6
    <2>8. a - 1 = L + 1 - (d + 1) /\ d + 1 \in 0..L
      BY <1>2, <1>4, <2>2
    <2> QED BY <2>7, <2>8
  <1>5. L \in G
    <2> HIDE DEF G
    <2>1. \A d \in 0..L : d \in G
      BY <1>2, <1>3, <1>4, AllUpTo
    <2> QED BY <1>2, <2>1
  <1>6. \E g : g = [i \in 1..(Len(u) + 1) |-> ReadBody(u, g, i)]
    <2>1. L + 1 - L = 1
      BY <1>2
    <2> QED BY <1>1, <1>5, <2>1
  <1>7. PICK f : f = ReadFn(u)
    OBVIOUS
  <1>8. f = [i \in 1..(Len(u) + 1) |-> ReadBody(u, f, i)]
    BY <1>6, <1>7, Zenon DEF ReadFn
  <1>9. \A i \in 1..(Len(u) + 1) : f[i] = ReadBody(u, f, i)
    BY <1>8
  <1> QED BY <1>7, <1>9

LEMMA PrefixIs ==
  ASSUME NEW S, NEW s \in Seq(S), NEW k \in 0..Len(s)
  PROVE  SubSeq(s, 1, k) \in Seq(S) /\ Len(SubSeq(s, 1, k)) = k /\ \A i \in 1..k : SubSeq(s, 1, k)[i] = s[i]
  OBVIOUS

LEMMA PairIs ==
  ASSUME NEW u \in Seq(Nat), NEW i \in Nat, NEW x \in Nat, i >= 1, i + 1 <= Len(u), u[i] = x, u[i + 1] = x
  PROVE  SubSeq(u, i, i + 1) = <<x, x>>
  <1>1. PICK a : a = SubSeq(u, i, i + 1)
    OBVIOUS
  <1>2. a \in Seq(Nat) /\ Len(a) = 2
    BY <1>1
  <1>3. a[1] = x /\ a[2] = x
    BY <1>1
  <1>4. PICK b : b = <<x, x>>
    OBVIOUS
  <1>5. b \in Seq(Nat) /\ Len(b) = 2 /\ b[1] = x /\ b[2] = x
    BY <1>4
  <1>6. \A k \in 1..2 : a[k] = b[k]
    <2>1. \A k \in 1..2 : k = 1 \/ k = 2
      OBVIOUS
    <2> QED BY <1>3, <1>5, <2>1
  <1>7. a = b
    BY <1>2, <1>5, <1>6, SeqEqual
  <1> QED BY <1>1, <1>4, <1>7

LEMMA TableIs ==
  ASSUME NEW S, NEW n \in Nat, NEW a, a = [m \in 1..n |-> a[m]], \A m \in 1..n : a[m] \in S
  PROVE  a \in Seq(S) /\ Len(a) = n
  <1>1. a \in [1..n -> S]
    OBVIOUS
  <1>2. a \in Seq(S)
    BY <1>1
  <1> QED BY <1>1, <1>2

LEMMA DivIs ==
  ASSUME NEW c \in Nat
  PROVE  c \div 3 \in Nat /\ c % 3 \in 0..2 /\ c = 3 * (c \div 3) + (c % 3)
  <1>1. c \div 3 \in Nat
    OBVIOUS
  <1>2. c % 3 \in 0..2
    OBVIOUS
  <1>3. c = 3 * (c \div 3) + (c % 3)
    OBVIOUS
  <1> QED BY <1>1, <1>2, <1>3

\* What read_all returns from the start of record j + 1 on, of a stream cut off after `cut` units.
Entry == {"truncated"} \cup Seq(Nat)
Ending(cut) == IF cut % 3 = 0 THEN << >> ELSE <<"truncated">>
RestFrom(j, q, cut) == [m \in 1..(q - j) |-> <<j + m, j + m>>] \o Ending(cut)

LEMMA RestIs ==
  ASSUME NEW q \in Nat, NEW j \in 0..q, NEW cut \in Nat
  PROVE  /\ RestFrom(j, q, cut) \in Seq(Entry)
         /\ j = q => RestFrom(j, q, cut) = Ending(cut)
         /\ j < q => RestFrom(j, q, cut) = <<<<j + 1, j + 1>>>> \o RestFrom(j + 1, q, cut)
  <1>1. Ending(cut) \in Seq(Entry)
    <2>1. "truncated" \in Entry
      BY DEF Entry
    <2>2. << >> \in Seq(Entry) /\ <<"truncated">> \in Seq(Entry)
      BY <2>1
    <2> QED BY <2>2 DEF Ending
  <1>2. PICK e : e = Ending(cut)
    OBVIOUS
  <1>3. PICK a : a = [m \in 1..(q - j) |-> <<j + m, j + m>>]
    OBVIOUS
  <1>4. a \in Seq(Entry) /\ Len(a) = q - j
    <2>1. \A m \in 1..(q - j) : <<j + m, j + m>> \in Entry
      BY DEF Entry
    <2>2. q - j \in Nat
      OBVIOUS
    <2>3. a = [m \in 1..(q - j) |-> a[m]] /\ \A m \in 1..(q - j) : a[m] \in Entry
      BY <1>3, <2>1
    <2> QED BY <2>2, <2>3, TableIs
  <1>5. RestFrom(j, q, cut) = a \o e
    BY <1>2, <1>3 DEF RestFrom
  <1>6. RestFrom(j, q, cut) \in Seq(Entry)
    BY <1>1, <1>2, <1>4, <1>5
  <1>7. ASSUME j = q PROVE RestFrom(j, q, cut) = Ending(cut)
    <2>1. a = << >>
      BY <1>4, <1>7
    <2> QED BY <1>1, <1>2, <1>5, <2>1
  <1>8. ASSUME j < q PROVE RestFrom(j, q, cut) = <<<<j + 1, j + 1>>>> \o RestFrom(j + 1, q, cut)
    <2>1. PICK b : b = [m \in 1..(q - (j + 1)) |-> <<(j + 1) + m, (j + 1) + m>>]
      OBVIOUS
    <2>2. b \in Seq(Entry) /\ Len(b) = q - j - 1
      <3>1. \A m \in 1..(q - (j + 1)) : <<(j + 1) + m, (j + 1) + m>> \in Entry
        BY DEF Entry
      <3>2. q - (j + 1) \in Nat /\ q - (j + 1) = q - j - 1
        BY <1>8
      <3>3. b = [m \in 1..(q - (j + 1)) |-> b[m]] /\ \A m \in 1..(q - (j + 1)) : b[m] \in Entry
        BY <2>1, <3>1
      <3> QED BY <3>2, <3>3, TableIs
    <2>3. PICK x : x = <<j + 1, j + 1>>
      OBVIOUS
    <2>4. x \in Entry
      BY <2>3 DEF Entry
    <2>5. a = <<x>> \o b
      <3>1. PICK c : c = <<x>> \o b
        OBVIOUS
      <3>2. c \in Seq(Entry) /\ Len(c) = q - j /\ c[1] = x /\ \A m \in 2..(q - j) : c[m] = b[m - 1]
        BY <1>8, <2>2, <2>4, <3>1
      <3>3. ASSUME NEW m \in 1..(q - j) PROVE c[m] = a[m]
        <4>1. CASE m = 1
          BY <1>3, <2>3, <3>2, <4>1
        <4>2. CASE m # 1
          <5>1. m \in 2..(q - j) /\ m - 1 \in 1..(q - (j + 1)) /\ (j + 1) + (m - 1) = j + m
            BY <4>2
          <5> QED BY <1>3, <2>1, <3>2, <5>1
        <4> QED BY <4>1, <4>2
      <3> QED BY <1>4, <3>1, <3>2, <3>3, SeqEqual
    <2>6. RestFrom(j + 1, q, cut) = b \o e
      BY <1>2, <2>1 DEF RestFrom
    <2>7. (<<x>> \o b) \o e = <<x>> \o (b \o e)
      BY <1>1, <1>2, <2>2, <2>4
    <2> QED BY <1>5, <2>3, <2>5, <2>6, <2>7, Zenon
  <1> QED BY <1>6, <1>7, <1>8

LEMMA ReadUnits ==
  ASSUME NEW n \in Nat, NEW cut \in 0..(3 * n)
  PROVE  ReadAll(SubSeq(Units(n), 1, cut)) = RestFrom(0, cut \div 3, cut)
  <1>1. PICK q \in Nat, r \in 0..2 : cut = 3 * q + r /\ q = cut \div 3 /\ r = cut % 3
    <2>0. cut \in Nat
      OBVIOUS
    <2>1. cut \div 3 \in Nat /\ cut % 3 \in 0..2 /\ cut = 3 * (cut \div 3) + (cut % 3)
      BY <2>0, DivIs
    <2> QED BY <2>1, Zenon
  <1>2. PICK u : u = SubSeq(Units(n), 1, cut)
    OBVIOUS
  <1>3. u \in Seq(Nat) /\ Len(u) = cut /\ \A i \in 1..cut : u[i] = Units(n)[i]
    <2>1. Units(n) \in Seq(Nat) /\ cut \in 0..Len(Units(n))
      BY UnitsAre
    <2> QED BY <1>2, <2>1, PrefixIs
  <1>4. \A j \in 0..(q - 1) : u[3 * j + 1] = 2 /\ u[3 * j + 2] = j + 1 /\ u[3 * j + 3] = j + 1
    <2> SUFFICES ASSUME NEW j \in 0..(q - 1) PROVE u[3 * j + 1] = 2 /\ u[3 * j + 2] = j + 1 /\ u[3 * j + 3] = j + 1
      OBVIOUS
    <2>1. j \in 0..(n - 1) /\ 3 * j + 1 \in 1..cut /\ 3 * j + 2 \in 1..cut /\ 3 * j + 3 \in 1..cut
      BY <1>1
    <2> QED BY <1>3, <2>1, UnitsAre
  <1>5. PICK f : f = ReadFn(u)
    OBVIOUS
  <1>6. \A i \in 1..(cut + 1) : f[i] = ReadBody(u, f, i)
    BY <1>3, <1>5, ReadFnIs
  <1> DEFINE G == {d \in 0..q : f[3 * (q - d) + 1] = RestFrom(q - d, q, cut)}
  <1>7. 0 \in G
    <2>1. 3 * q + 1 \in 1..(cut + 1)
      BY <1>1
    <2>2. f[3 * q + 1] = ReadBody(u, f, 3 * q + 1)
      BY <1>6, <2>1
    <2>3. CASE r = 0
      <3>1. 3 * q + 1 > Len(u) /\ cut % 3 = 0
        BY <1>1, <1>3, <2>3
      <3>2. ReadBody(u, f, 3 * q + 1) = << >>
        BY <3>1 DEF ReadBody
      <3>3. q \in 0..q /\ cut \in Nat
        OBVIOUS
      <3>4. RestFrom(q, q, cut) = Ending(cut)
        BY <3>3, RestIs
      <3>5. Ending(cut) = << >>
        BY <3>1 DEF Ending
      <3>6. q - 0 = q /\ 0 \in 0..q
        OBVIOUS
      <3> QED BY <2>2, <3>2, <3>4, <3>5, <3>6
    <2>4. CASE r # 0
      <3>1. 3 * q + 1 \in 1..cut /\ q \in 0..(n - 1) /\ cut % 3 # 0 /\ 3 * q + 3 > cut
        BY <1>1, <2>4
      <3>2. u[3 * q + 1] = 2
        BY <1>3, <3>1, UnitsAre
      <3>3. ~(3 * q + 1 > Len(u)) /\ 3 * q + 1 + u[3 * q + 1] > Len(u)
        BY <1>3, <3>1, <3>2
      <3>4. ReadBody(u, f, 3 * q + 1) = <<"truncated">>
        BY <3>3 DEF ReadBody
      <3>5. RestFrom(q, q, cut) = <<"truncated">>
        <4>1. q \in 0..q /\ cut \in Nat
          OBVIOUS
        <4> QED BY <3>1, <4>1, RestIs DEF Ending
      <3>6. q - 0 = q /\ 0 \in 0..q
        OBVIOUS
      <3> QED BY <2>2, <3>4, <3>5, <3>6
    <2> QED BY <2>3, <2>4
  <1>8. ASSUME NEW d \in 0..q, d < q, d \in G PROVE d + 1 \in G
    <2>1. PICK j \in 0..(q - 1) : j = q - (d + 1) /\ q - d = j + 1
      BY <1>8
    <2>2. f[3 * (j + 1) + 1] = RestFrom(j + 1, q, cut)
      BY <1>8, <2>1
    <2>3. 3 * j + 1 \in 1..(cut + 1) /\ 3 * j + 3 <= cut /\ 3 * j + 1 <= cut
      BY <1>1
    <2>4. u[3 * j + 1] = 2 /\ u[3 * j + 2] = j + 1 /\ u[3 * j + 3] = j + 1
      BY <1>4
    <2>5. SubSeq(u, 3 * j + 1 + 1, 3 * j + 1 + u[3 * j + 1]) = <<j + 1, j + 1>>
      <3>1. PICK i \in Nat : i = 3 * j + 2
        OBVIOUS
      <3>2. i >= 1 /\ i + 1 <= Len(u) /\ u[i] = j + 1 /\ u[i + 1] = j + 1 /\ j + 1 \in Nat
        BY <1>3, <2>3, <2>4, <3>1
      <3>3. SubSeq(u, i, i + 1) = <<j + 1, j + 1>>
        BY <1>3, <3>2, PairIs
      <3>4. 3 * j + 1 + 1 = i /\ 3 * j + 1 + u[3 * j + 1] = i + 1
        BY <2>4, <3>1
      <3> QED BY <3>3, <3>4
    <2>6. 3 * j + 1 + u[3 * j + 1] + 1 = 3 * (j + 1) + 1
      BY <2>4
    <2>7. ReadBody(u, f, 3 * j + 1) = <<<<j + 1, j + 1>>>> \o f[3 * (j + 1) + 1]
      <3>1. ~(3 * j + 1 > Len(u)) /\ ~(3 * j + 1 + u[3 * j + 1] > Len(u))
        BY <1>3, <2>3, <2>4
      <3>2. ReadBody(u, f, 3 * j + 1) =
              <<SubSeq(u, 3 * j + 1 + 1, 3 * j + 1 + u[3 * j + 1])>> \o f[3 * j + 1 + u[3 * j + 1] + 1]
        BY <3>1 DEF ReadBody
      <3> QED BY <2>5, <2>6, <3>2, Zenon
    <2>8. f[3 * j + 1] = <<<<j + 1, j + 1>>>> \o RestFrom(j + 1, q, cut)
      BY <1>6, <2>2, <2>3, <2>7, Zenon
    <2>9. RestFrom(j, q, cut) = <<<<j + 1, j + 1>>>> \o RestFrom(j + 1, q, cut)
      BY RestIs
    <2>10. f[3 * j + 1] = RestFrom(j, q, cut)
      BY <2>8, <2>9, Zenon
    <2> QED BY <1>8, <2>1, <2>10
  <1>9. \A d \in 0..q : d \in G
    <2> HIDE DEF G
    <2> QED BY <1>7, <1>8, AllUpTo
  <1>10. q \in 0..q /\ q - q = 0 /\ 3 * 0 + 1 = 1
    OBVIOUS
  <1>11. f[3 * (q - q) + 1] = RestFrom(q - q, q, cut)
    BY <1>9, <1>10
  <1>12. f[1] = RestFrom(0, q, cut)
    BY <1>10, <1>11
  <1> QED BY <1>1, <1>2, <1>5, <1>12, ReadIs

\* The stream of every recorder reads back, whole or as a prefix, and a cut inside a record shows.
LEMMA StreamAlwaysReadsBack == ASSUME FrameTypes PROVE StreamReadsBack
  <1>1. PICK n \in Nat : n = Len(chain) /\ DOMAIN chain = 1..n
    BY DEF FrameTypes
  <1>2. [i \in DOMAIN chain |-> <<i, i>>] = Marks(n)
    BY <1>1 DEF Marks
  <1>3. \A cut : Recorder(Marks(n), cut) = ReadBack(Marks(n), cut)
    <2>1. framework \in {"langgraph", "llamaindex", "crewai", "openai", "msaf", "adk", "mcp", "a2a"}
      BY AgentGuardsConstants DEF FrameTypes, Adapter
    <2> QED BY <2>1 DEF Recorder, LangGraphRecorder, LlamaIndexRecorder, CrewAIRecorder, OpenAIRecorder,
                       MsafRecorder, AdkRecorder, McpRecorder, A2aRecorder
  <1>4. ASSUME NEW cut \in 0..(3 * n)
        PROVE  IF cut % 3 = 0 THEN ReadBack(Marks(n), cut) = SubSeq(Marks(n), 1, cut \div 3)
               ELSE ReadBack(Marks(n), cut)[Len(ReadBack(Marks(n), cut))] = "truncated"
    <2>1. PICK q \in 0..n : q = cut \div 3
      BY <1>4
    <2>2. PICK got : got = ReadBack(Marks(n), cut)
      OBVIOUS
    <2>3. got = RestFrom(0, q, cut)
      BY <2>1, <2>2, WrittenUnits, ReadUnits DEF ReadBack
    <2>4. PICK a : a = [m \in 1..(q - 0) |-> <<0 + m, 0 + m>>]
      OBVIOUS
    <2>5. a \in Seq(Entry) /\ Len(a) = q
      <3>1. \A m \in 1..(q - 0) : <<0 + m, 0 + m>> \in Entry
        BY DEF Entry
      <3> QED BY <2>4, <3>1
    <2>6. got = a \o Ending(cut)
      BY <2>3, <2>4 DEF RestFrom
    <2>7. CASE cut % 3 = 0
      <3>1. got = a
        BY <2>5, <2>6, <2>7 DEF Ending
      <3>2. PICK b : b = SubSeq(Marks(n), 1, q)
        OBVIOUS
      <3>3. b \in Seq(Seq(Nat)) /\ Len(b) = q /\ \A m \in 1..q : b[m] = <<m, m>>
        <4>0. /\ Marks(n) \in Seq(Seq(Nat)) /\ Len(Marks(n)) = n
              /\ \A m \in 1..n : Marks(n)[m] = <<m, m>>
          BY MarksAre
        <4>1. Marks(n) \in Seq(Seq(Nat)) /\ q \in 0..Len(Marks(n)) /\ \A m \in 1..q : Marks(n)[m] = <<m, m>>
          BY <4>0
        <4> QED BY <3>2, <4>1, PrefixIs
      <3>4. b \in Seq(Entry) /\ \A m \in 1..q : a[m] = b[m]
        BY <2>4, <3>3 DEF Entry
      <3>5. a = b
        BY <2>5, <3>3, <3>4, SeqEqual
      <3> QED BY <2>1, <2>2, <2>7, <3>1, <3>2, <3>5
    <2>8. CASE cut % 3 # 0
      <3>1. got = a \o <<"truncated">> /\ "truncated" \in Entry
        BY <2>6, <2>8 DEF Ending, Entry
      <3>2. got[Len(got)] = "truncated"
        BY <2>5, <3>1
      <3> QED BY <2>2, <2>8, <3>2
    <2> QED BY <2>7, <2>8
  <1>5. Len(Written(Marks(n))) = 3 * n
    BY WrittenUnits, UnitsAre
  <1> QED BY <1>2, <1>3, <1>4, <1>5 DEF StreamReadsBack

\* In every framework, with any number of calls, tools, sessions and restarts: a gated tool runs
\* only under an approval for the arguments it runs with, once per approval (MSAF aside), within
\* its grant and after its record; receipts are for runs, the chain of a session is linear, and the
\* stream of records reads back (on_effecting_action, resolve_interruption, ChainRecorder).
THEOREM RunsAreGuarded == GuardsSpec => []GuardedRuns
  <1>1. ASSUME FrameInv PROVE GuardedRuns
    <2>1. RunsUnderItsApproval
      BY <1>1 DEF FrameInv, RunInv, RunOk, Covered, RunsUnderItsApproval, Gated, Runs
    <2>2. OneRunPerApproval
      <3> SUFFICES ASSUME framework # "msaf", NEW i \in DOMAIN ran, NEW j \in DOMAIN ran, Gated(ran[i]), ran[i].by = ran[j].by
                   PROVE  i = j
        BY DEF OneRunPerApproval, Runs
      <3>1. ran[i].by # 0
        BY <1>1, <2>1, FrameLengths DEF FrameInv, RunsUnderItsApproval, Runs
      <3> QED BY <1>1, <3>1 DEF FrameInv, OnceInv
    <2>3. ChainIsLinear
      BY <1>1 DEF FrameInv, ChainInv
    <2>4. RecordedAndWithinGrant
      <3>1. \A i \in DOMAIN ran : Authorized(ran[i].effect) /\ HasRecord(ran[i].tool, ran[i].shown, ran[i].effect, ran[i].at)
        BY <1>1 DEF FrameInv, RunInv, RunOk
      <3>2. ASSUME NEW tool \in Tools, NEW args \in Args
            PROVE  Cardinality(Receipts(tool, args)) <= Cardinality(RunsOf(tool, args))
        BY <1>1, CountsFinite, FS_CardinalityType
      <3> QED BY <3>1, <3>2 DEF RecordedAndWithinGrant, Runs, Authorized, HasRecord, Receipts, RunsOf
    <2>5. StreamReadsBack
      BY <1>1, StreamAlwaysReadsBack DEF FrameInv
    <2> QED BY <2>1, <2>2, <2>3, <2>4, <2>5 DEF GuardedRuns
  <1> QED BY <1>1, FrameInvariant, PTL

(***************************************************************************)
(* Orchestrated tasks                                                      *)
(***************************************************************************)
Stages == {"todo", "signing", "sent", "verifying", "executed", "refused", "blocked"}

Ready(t) == \A u \in prereqs[t] : progress[u] = "executed"

OrchTypes ==
  /\ progress \in [Tasks -> Stages] /\ DOMAIN request = Tasks /\ DOMAIN returned = Tasks
  /\ \A t \in Tasks : prereqs[t] \subseteq Tasks

\* The lock keeps the signature library to one thread: nothing is ever mixed up.
TaskInv ==
  /\ mixed = {}
  /\ \A t \in Tasks :
       /\ progress[t] \in {"todo", "signing", "blocked"} => returned[t] = Nothing
       /\ progress[t] \in {"signing", "sent", "verifying", "executed"} => Ready(t)
       /\ progress[t] \in {"sent", "verifying", "executed"} => request[t] \in emitted
       /\ progress[t] = "sent" => returned[t] = Nothing \/ returned[t] \in replies
       /\ progress[t] = "verifying" => returned[t] # Nothing /\ returned[t] \in replies
       /\ progress[t] = "executed" => returned[t] \in replies /\ Answers(returned[t], t)
       /\ progress[t] = "refused" => ~Answers(returned[t], t)

EmittedInv ==
  \A r \in emitted :
    /\ r.by \in Tasks /\ progress[r.by] \in {"sent", "verifying", "executed", "refused"} /\ Ready(r.by)
    /\ style # "fanout" => r.causes = {request[u] : u \in prereqs[r.by]}
    /\ style = "fanout" => r.causes = {Root}

OrchInv == OrchTypes /\ TaskInv /\ EmittedInv

LEMMA OrchInitInv == ASSUME OrchInit PROVE OrchInv
  <1>1. /\ progress = [t \in Tasks |-> "todo"] /\ request = [t \in Tasks |-> Nothing] /\ returned = [t \in Tasks |-> Nothing]
        /\ emitted = {} /\ replies = {} /\ mixed = {}
    BY DEF OrchInit
  <1>2. \A t \in Tasks : prereqs[t] \subseteq Tasks
    <2>1. CASE style = "plan"
      BY <2>1, OrchestrationConstants DEF OrchInit
    <2>2. CASE style = "pipeline"
      <3>1. PICK P : P = [t \in Tasks |-> {u \in Tasks : u < t /\ \A v \in Tasks : v < t => v <= u}]
        OBVIOUS
      <3>2. prereqs = P
        BY <2>2, <3>1 DEF OrchInit
      <3> QED BY <3>1, <3>2
    <2>3. CASE style = "fanout"
      BY <2>3 DEF OrchInit
    <2> QED BY <2>1, <2>2, <2>3 DEF OrchInit
  <1> QED BY <1>1, <1>2 DEF OrchInv, OrchTypes, TaskInv, EmittedInv, Stages

\* A step of one task that signs nothing: what it may change of that task.
LEMMA TaskStep ==
  ASSUME OrchInv, NEW t \in Tasks, NEW p \in Stages, progress' = [progress EXCEPT ![t] = p],
         progress[t] # "executed", p # "todo" ,
         UNCHANGED <<style, prereqs, request, emitted, replies>>, mixed' = {},
         DOMAIN returned' = Tasks, \A u \in Tasks : u # t => returned'[u] = returned[u],
         p \in {"signing", "blocked"} => returned'[t] = Nothing /\ progress[t] = "todo",
         p \in {"signing", "sent", "verifying", "executed"} => Ready(t),
         p \in {"sent", "verifying", "executed"} => request[t] \in emitted,
         p = "sent" => returned'[t] = Nothing \/ returned'[t] \in replies,
         p = "verifying" => returned'[t] # Nothing /\ returned'[t] \in replies,
         p = "executed" => returned'[t] \in replies /\ Answers(returned'[t], t),
         p = "refused" => ~Answers(returned'[t], t)
  PROVE  OrchInv'
  <1>1. /\ progress \in [Tasks -> Stages] /\ DOMAIN request = Tasks
        /\ \A u \in Tasks : prereqs[u] \subseteq Tasks
    BY DEF OrchInv, OrchTypes
  <1>2. progress' \in [Tasks -> Stages] /\ progress'[t] = p /\ \A u \in Tasks : u # t => progress'[u] = progress[u]
    BY <1>1
  <1>3. OrchTypes'
    BY <1>1, <1>2 DEF OrchInv, OrchTypes
  <1>4. \A u \in Tasks : progress[u] = "executed" => progress'[u] = "executed"
    BY <1>2
  <1>5. \A u \in Tasks : Ready(u) => Ready(u)'
    BY <1>1, <1>4 DEF Ready
  <1>6. \A u \in Tasks : Answers(returned[u], u)' <=> Answers(returned'[u], u)
    BY DEF Answers, SelfIdentity
  <1>7. TaskInv'
    <2> SUFFICES ASSUME NEW u \in Tasks
                 PROVE  /\ progress'[u] \in {"todo", "signing", "blocked"} => returned'[u] = Nothing
                        /\ progress'[u] \in {"signing", "sent", "verifying", "executed"} => Ready(u)'
                        /\ progress'[u] \in {"sent", "verifying", "executed"} => request'[u] \in emitted'
                        /\ progress'[u] = "sent" => returned'[u] = Nothing \/ returned'[u] \in replies'
                        /\ progress'[u] = "verifying" => returned'[u] # Nothing /\ returned'[u] \in replies'
                        /\ progress'[u] = "executed" => returned'[u] \in replies' /\ Answers(returned[u], u)'
                        /\ progress'[u] = "refused" => ~Answers(returned[u], u)'
      BY DEF TaskInv
    <2>1. CASE u = t
      BY <1>2, <1>5, <1>6, <2>1
    <2>2. CASE u # t
      BY <1>2, <1>5, <1>6, <2>2 DEF OrchInv, TaskInv
    <2> QED BY <2>1, <2>2
  <1>8. EmittedInv'
    <2>a. style' = style /\ prereqs' = prereqs /\ request' = request /\ emitted' = emitted
      OBVIOUS
    <2> SUFFICES ASSUME NEW r \in emitted'
                 PROVE  /\ r.by \in Tasks /\ progress'[r.by] \in {"sent", "verifying", "executed", "refused"} /\ Ready(r.by)'
                        /\ style # "fanout" => r.causes = {request'[u] : u \in prereqs[r.by]}
                        /\ style = "fanout" => r.causes = {Root}
      BY <2>a, Zenon DEF EmittedInv
    <2>1. /\ r.by \in Tasks /\ progress[r.by] \in {"sent", "verifying", "executed", "refused"} /\ Ready(r.by)
          /\ style # "fanout" => r.causes = {request[u] : u \in prereqs[r.by]}
          /\ style = "fanout" => r.causes = {Root}
      BY <2>a DEF OrchInv, EmittedInv
    <2>2. progress'[r.by] \in {"sent", "verifying", "executed", "refused"}
      BY <1>2, <2>1 DEF Stages
    <2>3. Ready(r.by)'
      BY <1>1, <1>4, <2>1 DEF Ready
    <2> QED BY <2>a, <2>1, <2>2, <2>3
  <1> QED BY <1>3, <1>7, <1>8 DEF OrchInv

LEMMA BlockInv == ASSUME OrchInv, NEW t \in Tasks, Block(t) PROVE OrchInv'
  <1>1. /\ progress[t] = "todo" /\ progress' = [progress EXCEPT ![t] = "blocked"]
        /\ UNCHANGED <<style, prereqs, request, emitted, returned, replies, mixed>>
    BY DEF Block
  <1>2. returned[t] = Nothing /\ mixed = {} /\ DOMAIN returned = Tasks
    BY <1>1 DEF OrchInv, TaskInv, OrchTypes
  <1> QED BY <1>1, <1>2, TaskStep DEF Stages

LEMMA BeginInv == ASSUME OrchInv, NEW t \in Tasks, Begin(t) PROVE OrchInv'
  <1>1. /\ progress[t] = "todo" /\ Unresolved(t) = {} /\ progress' = [progress EXCEPT ![t] = "signing"]
        /\ mixed' = mixed /\ UNCHANGED <<style, prereqs, request, emitted, returned, replies>>
    BY DEF Begin, MayEnter, Enter
  <1>2. returned[t] = Nothing /\ mixed = {} /\ DOMAIN returned = Tasks /\ Ready(t)
    BY <1>1 DEF OrchInv, TaskInv, OrchTypes, Unresolved, Ready
  <1> QED BY <1>1, <1>2, TaskStep DEF Stages

\* A signed request names the requests of all prerequisites, which no later step changes.
LEMMA SignInv == ASSUME OrchInv, NEW t \in Tasks, Sign(t) PROVE OrchInv'
  <1>1. /\ progress[t] = "signing" /\ mixed' = mixed \ {t} /\ UNCHANGED <<style, prereqs, returned, replies>>
        /\ \/ /\ request' = [request EXCEPT ![t] = RequestFor(t)] /\ emitted' = emitted \cup {RequestFor(t)}
              /\ progress' = [progress EXCEPT ![t] = "sent"]
           \/ progress' = [progress EXCEPT ![t] = "refused"] /\ UNCHANGED <<request, emitted>>
           \/ /\ progress' = [progress EXCEPT ![t] = "refused"] /\ UNCHANGED request
              /\ emitted' = emitted \cup {RequestFor(t)}
    BY DEF Sign, Leave
  <1>2. /\ returned[t] = Nothing /\ mixed = {} /\ mixed' = {} /\ DOMAIN returned = Tasks /\ Ready(t)
        /\ progress \in [Tasks -> Stages] /\ DOMAIN request = Tasks /\ \A u \in Tasks : prereqs[u] \subseteq Tasks
    BY <1>1 DEF OrchInv, TaskInv, OrchTypes
  <1>3. CASE progress' = [progress EXCEPT ![t] = "refused"] /\ UNCHANGED <<request, emitted>>
    <2>1. ~Answers(returned[t], t) /\ UNCHANGED <<style, prereqs, request, emitted, replies>>
      BY <1>1, <1>2, <1>3 DEF Answers
    <2> QED BY <1>1, <1>2, <1>3, <2>1, TaskStep DEF Stages
  <1>4. CASE /\ emitted' = emitted \cup {RequestFor(t)}
             /\ \/ request' = [request EXCEPT ![t] = RequestFor(t)] /\ progress' = [progress EXCEPT ![t] = "sent"]
                \/ request' = request /\ progress' = [progress EXCEPT ![t] = "refused"]
    <2>1. PICK q : q = RequestFor(t)
      OBVIOUS
    <2>2. /\ q.by = t /\ (style = "fanout" => q.causes = {Root})
          /\ style # "fanout" => q.causes = {request[u] : u \in prereqs[t]}
      BY <2>1 DEF RequestFor
    <2>3. /\ progress' \in [Tasks -> Stages] /\ progress'[t] \in {"sent", "refused"}
          /\ progress'[t] = "sent" => request'[t] = q
          /\ \A u \in Tasks : u # t => progress'[u] = progress[u] /\ request'[u] = request[u]
          /\ DOMAIN request' = Tasks /\ emitted' = emitted \cup {q}
      BY <1>2, <1>4, <2>1 DEF Stages
    <2>4. OrchTypes'
      BY <1>1, <1>2, <2>3 DEF OrchInv, OrchTypes
    <2>5. \A u \in Tasks : Ready(u) => Ready(u)' /\ t \notin prereqs[u]
      BY <1>1, <1>2, <2>3 DEF Ready
    <2>6. /\ \A u \in Tasks : u # t => (Answers(returned[u], u)' <=> Answers(returned[u], u))
          /\ ~Answers(returned[t], t)'
      BY <1>1, <1>2, <2>3 DEF Answers, SelfIdentity
    <2>7. TaskInv'
      <3> SUFFICES ASSUME NEW u \in Tasks
                   PROVE  /\ progress'[u] \in {"todo", "signing", "blocked"} => returned'[u] = Nothing
                          /\ progress'[u] \in {"signing", "sent", "verifying", "executed"} => Ready(u)'
                          /\ progress'[u] \in {"sent", "verifying", "executed"} => request'[u] \in emitted'
                          /\ progress'[u] = "sent" => returned'[u] = Nothing \/ returned'[u] \in replies'
                          /\ progress'[u] = "verifying" => returned'[u] # Nothing /\ returned'[u] \in replies'
                          /\ progress'[u] = "executed" => returned'[u] \in replies' /\ Answers(returned[u], u)'
                          /\ progress'[u] = "refused" => ~Answers(returned[u], u)'
        BY <1>2 DEF TaskInv
      <3>1. CASE u = t
        BY <1>1, <1>2, <2>3, <2>5, <2>6, <3>1
      <3>2. CASE u # t
        BY <1>1, <1>2, <2>3, <2>5, <2>6, <3>2 DEF OrchInv, TaskInv
      <3> QED BY <3>1, <3>2
    <2>8. \A u \in Tasks : Ready(u) => {request'[v] : v \in prereqs[u]} = {request[v] : v \in prereqs[u]}
      <3> SUFFICES ASSUME NEW u \in Tasks, Ready(u) PROVE {request'[v] : v \in prereqs[u]} = {request[v] : v \in prereqs[u]}
        OBVIOUS
      <3>1. \A v \in prereqs[u] : request'[v] = request[v]
        BY <1>2, <2>3, <2>5
      <3> QED BY <3>1
    <2>9. EmittedInv'
      <3>1. style' = style /\ prereqs' = prereqs
        BY <1>1
      <3> SUFFICES ASSUME NEW r \in emitted'
                   PROVE  /\ r.by \in Tasks /\ progress'[r.by] \in {"sent", "verifying", "executed", "refused"} /\ Ready(r.by)'
                          /\ style # "fanout" => r.causes = {request'[u] : u \in prereqs[r.by]}
                          /\ style = "fanout" => r.causes = {Root}
        BY <3>1, Zenon DEF EmittedInv
      <3>2. CASE r = q
        <4>1. r.by = t /\ t \in Tasks /\ progress'[t] \in {"sent", "refused"} /\ Ready(t)'
          BY <1>2, <2>2, <2>3, <2>5, <3>2
        <4>2. style # "fanout" => r.causes = {request'[u] : u \in prereqs[t]}
          BY <1>2, <2>2, <2>8, <3>2
        <4>3. style = "fanout" => r.causes = {Root}
          BY <2>2, <3>2
        <4>4. Ready(r.by)'
          BY <4>1 DEF Ready
        <4> QED BY <4>1, <4>2, <4>3, <4>4
      <3>3. CASE r \in emitted
        <4>1. /\ r.by \in Tasks /\ progress[r.by] \in {"sent", "verifying", "executed", "refused"} /\ Ready(r.by)
              /\ style # "fanout" => r.causes = {request[u] : u \in prereqs[r.by]}
              /\ style = "fanout" => r.causes = {Root}
          BY <3>3 DEF OrchInv, EmittedInv
        <4>2. progress'[r.by] \in {"sent", "verifying", "executed", "refused"}
          BY <1>1, <2>3, <4>1
        <4>3. Ready(r.by)'
          BY <1>1, <1>2, <2>3, <4>1 DEF Ready
        <4>4. {request'[u] : u \in prereqs[r.by]} = {request[u] : u \in prereqs[r.by]}
          BY <2>8, <4>1
        <4> QED BY <4>1, <4>2, <4>3, <4>4
      <3> QED BY <2>3, <3>2, <3>3
    <2> QED BY <2>4, <2>7, <2>9 DEF OrchInv
  <1> QED BY <1>1, <1>3, <1>4, Zenon

LEMMA NetworkInv ==
  ASSUME OrchInv, (\E cs, who : Respond(cs, who)) \/ (\E r : Forge(r)) PROVE OrchInv'
  <1>1. UNCHANGED <<style, prereqs, progress, request, emitted, returned, mixed>> /\ replies \subseteq replies'
    <2>1. CASE \E cs, who : Respond(cs, who)
      BY <2>1 DEF Respond
    <2>2. CASE \E r : Forge(r)
      BY <2>2 DEF Forge
    <2> QED BY <2>1, <2>2
  <1>2. \A t \in Tasks : Answers(returned[t], t)' <=> Answers(returned[t], t)
    BY <1>1 DEF Answers, SelfIdentity
  <1>3. OrchTypes' /\ TaskInv'
    BY <1>1, <1>2 DEF OrchInv, OrchTypes, TaskInv, Ready
  <1>4. EmittedInv'
    BY <1>1 DEF OrchInv, EmittedInv, Ready
  <1> QED BY <1>3, <1>4 DEF OrchInv

LEMMA ExecuteInv ==
  ASSUME OrchInv, NEW t \in Tasks, (\E a \in replies : Execute(t, a)) \/ ExecutorFails(t) PROVE OrchInv'
  <1>1. CASE \E a \in replies : Execute(t, a)
    <2>1. PICK a \in replies : Execute(t, a)
      BY <1>1
    <2>2. /\ progress[t] = "sent" /\ returned' = [returned EXCEPT ![t] = a]
          /\ UNCHANGED <<style, prereqs, progress, request, emitted, replies, mixed>>
      BY <2>1 DEF Execute
    <2>3. DOMAIN returned = Tasks /\ mixed = {} /\ Ready(t) /\ request[t] \in emitted /\ progress \in [Tasks -> Stages]
      BY <2>2 DEF OrchInv, OrchTypes, TaskInv
    <2>4. progress' = [progress EXCEPT ![t] = "sent"]
      BY <2>2, <2>3
    <2>5. DOMAIN returned' = Tasks /\ returned'[t] = a /\ \A u \in Tasks : u # t => returned'[u] = returned[u]
      BY <2>2, <2>3
    <2> QED BY <2>2, <2>3, <2>4, <2>5, TaskStep DEF Stages
  <1>2. CASE ExecutorFails(t)
    <2>1. /\ progress[t] = "sent" /\ returned[t] = Nothing /\ progress' = [progress EXCEPT ![t] = "refused"]
          /\ UNCHANGED <<style, prereqs, request, emitted, returned, replies, mixed>>
      BY <1>2 DEF ExecutorFails
    <2>2. DOMAIN returned = Tasks /\ mixed = {}
      BY DEF OrchInv, OrchTypes, TaskInv
    <2>3. ~Answers(returned[t], t)
      BY <2>1 DEF Answers
    <2> QED BY <2>1, <2>2, <2>3, TaskStep DEF Stages
  <1> QED BY <1>1, <1>2

LEMMA VerifyInv == ASSUME OrchInv, NEW t \in Tasks, BeginVerify(t) \/ Verify(t) PROVE OrchInv'
  <1>1. CASE BeginVerify(t)
    <2>1. /\ progress[t] = "sent" /\ returned[t] # Nothing /\ progress' = [progress EXCEPT ![t] = "verifying"]
          /\ mixed' = mixed /\ UNCHANGED <<style, prereqs, request, emitted, returned, replies>>
      BY <1>1 DEF BeginVerify, MayEnter, Enter
    <2>2. DOMAIN returned = Tasks /\ mixed = {} /\ Ready(t) /\ request[t] \in emitted /\ returned[t] \in replies
      BY <2>1 DEF OrchInv, OrchTypes, TaskInv
    <2> QED BY <2>1, <2>2, TaskStep DEF Stages
  <1>2. CASE Verify(t)
    <2>1. PICK o : o = ResponseToObservation(returned[t], t, request[t])
      OBVIOUS
    <2>2. /\ progress[t] = "verifying" /\ mixed' = mixed \ {t}
          /\ progress' = [progress EXCEPT ![t] = IF o = "ok" THEN "executed" ELSE "refused"]
          /\ UNCHANGED <<style, prereqs, request, emitted, returned, replies>>
      BY <1>2, <2>1 DEF Verify, Leave
    <2>3. DOMAIN returned = Tasks /\ mixed = {} /\ mixed' = {} /\ Ready(t) /\ request[t] \in emitted
          /\ returned[t] \in replies /\ returned[t] # Nothing
      BY <2>2 DEF OrchInv, OrchTypes, TaskInv
    <2>4. o = "ok" <=> Answers(returned[t], t)
      BY <2>1, <2>3 DEF ResponseToObservation, Answers
    <2>7. CASE o = "ok"
      <3>1. progress' = [progress EXCEPT ![t] = "executed"] /\ Answers(returned[t], t)
        BY <2>2, <2>4, <2>7
      <3> QED BY <2>2, <2>3, <3>1, TaskStep DEF Stages
    <2>8. CASE o # "ok"
      <3>1. progress' = [progress EXCEPT ![t] = "refused"] /\ ~Answers(returned[t], t)
        BY <2>2, <2>4, <2>8
      <3> QED BY <2>2, <2>3, <3>1, TaskStep DEF Stages
    <2> QED BY <2>7, <2>8
  <1> QED BY <1>1, <1>2

LEMMA OrchStepKeeps == ASSUME OrchInv, [OrchNext]_orchvars PROVE OrchInv'
  <1>1. CASE \E t \in Tasks : \/ Block(t) \/ Begin(t) \/ Sign(t) \/ BeginVerify(t) \/ Verify(t) \/ ExecutorFails(t)
                              \/ \E a \in replies : Execute(t, a)
    BY <1>1, BlockInv, BeginInv, SignInv, VerifyInv, ExecuteInv, Zenon
  <1>2. CASE \/ \E cs \in SUBSET emitted \ {{}}, who \in Tasks \cup {Planner} : Respond(cs, who)
             \/ \E r \in emitted : Forge(r)
    BY <1>2, NetworkInv, Zenon
  <1>3. CASE Merge \/ UNCHANGED orchvars
    <2>1. UNCHANGED <<style, prereqs, progress, request, emitted, returned, replies, mixed>>
      BY <1>3 DEF Merge, orchvars
    <2>2. OrchTypes' /\ TaskInv'
      BY <2>1 DEF OrchInv, OrchTypes, TaskInv, Ready, Answers, SelfIdentity
    <2>3. EmittedInv'
      BY <2>1 DEF OrchInv, EmittedInv, Ready
    <2> QED BY <2>2, <2>3 DEF OrchInv
  <1> QED BY <1>1, <1>2, <1>3, Zenon DEF OrchNext

\* What every step of plan, pipeline and fan-out keeps: the signature library is never shared,
\* a task past its turn has executed prerequisites, what it holds of the network is a reply.
THEOREM OrchInvariant == OrchSpec => []OrchInv
  <1>1. OrchInit => OrchInv
    BY OrchInitInv
  <1>2. OrchInv /\ [OrchNext]_orchvars => OrchInv'
    BY OrchStepKeeps
  <1> QED BY <1>1, <1>2, PTL DEF OrchSpec

\* For any tasks, plan, number of workers and forged responses: what executed was answered by the
\* responder for this agent and this request, no task is refused on its own answer, and the graph
\* of the signed requests is the plan (response_to_observation, run, _run_branch, CRYPTO_LOCK).
THEOREM OrchestrationSafe == OrchSpec => [](OnlyAnsweredExecute /\ GraphIsThePlan)
  <1>1. ASSUME OrchInv PROVE OnlyAnsweredExecute /\ GraphIsThePlan
    <2>1. OnlyAnsweredExecute
      BY <1>1 DEF OrchInv, TaskInv, OnlyAnsweredExecute
    <2>2. GraphIsThePlan
      <3> SUFFICES ASSUME NEW r \in emitted
                   PROVE  /\ \A u \in Ancestors(r.by) : progress[u] = "executed"
                          /\ style # "fanout" => r.causes = {request[u] : u \in prereqs[r.by]}
                          /\ style = "fanout" => r.causes = {Root}
        BY Zenon DEF GraphIsThePlan
      <3>1. /\ r.by \in Tasks /\ Ready(r.by)
            /\ style # "fanout" => r.causes = {request[u] : u \in prereqs[r.by]}
            /\ style = "fanout" => r.causes = {Root}
        BY <1>1 DEF OrchInv, EmittedInv
      <3>2. \A v \in Tasks : progress[v] = "executed" => Ready(v)
        BY <1>1 DEF OrchInv, TaskInv
      <3>3. prereqs[r.by] \subseteq Tasks
        BY <1>1, <3>1 DEF OrchInv, OrchTypes
      <3>4. \A u \in Ancestors(r.by) : progress[u] = "executed"
        BY <3>1, <3>2, <3>3 DEF Ancestors, Ready
      <3> QED BY <3>1, <3>4
    <2> QED BY <2>1, <2>2
  <1> QED BY <1>1, OrchInvariant, PTL

(***************************************************************************)
(* Orders of tasks                                                         *)
(***************************************************************************)
Rising(s, n) == \A i, j \in 1..n : i < j => s[i] < s[j]
Distinct(s, n) == \A i, j \in 1..n : s[i] = s[j] => i = j

\* A finite set of numbers can be listed from the least up.
LEMMA RisingExists ==
  ASSUME NEW S \in SUBSET Nat, IsFiniteSet(S)
  PROVE  \E s \in [1..Cardinality(S) -> S] : Rising(s, Cardinality(S))
  <1>1. PICK N \in Nat : N = Cardinality(S)
    BY FS_CardinalityType
  <1> DEFINE G == {n \in 0..N : \A T \in SUBSET S : Cardinality(T) = n => \E s \in [1..n -> T] : Rising(s, n)}
  <1>2. 0 \in G
    <2> SUFFICES ASSUME NEW T \in SUBSET S, Cardinality(T) = 0 PROVE \E s \in [1..0 -> T] : Rising(s, 0)
      BY <1>1
    <2>1. PICK s : s = [i \in 1..0 |-> 0]
      OBVIOUS
    <2>2. s \in [1..0 -> T] /\ Rising(s, 0)
      BY <2>1 DEF Rising
    <2> QED BY <2>2
  <1>3. ASSUME NEW n \in 0..N, n < N, n \in G PROVE n + 1 \in G
    <2> SUFFICES ASSUME NEW T \in SUBSET S, Cardinality(T) = n + 1 PROVE \E s \in [1..(n + 1) -> T] : Rising(s, n + 1)
      BY <1>3
    <2>1. IsFiniteSet(T) /\ T # {} /\ T \in SUBSET Nat /\ n \in Nat
      <3>1. IsFiniteSet(T)
        BY FS_Subset
      <3>2. T # {}
        BY FS_EmptySet
      <3> QED BY <3>1, <3>2
    <2>2. PICK m \in T : \A y \in T : m <= y
      BY <2>1, LeastOf
    <2>3. Cardinality(T \ {m}) = n /\ T \ {m} \in SUBSET S
      <3>1. Cardinality(T \ {m}) = Cardinality(T) - 1
        BY <2>1, <2>2, FS_RemoveElement
      <3> QED BY <2>1, <3>1
    <2>4. PICK r \in [1..n -> T \ {m}] : Rising(r, n)
      BY <1>3, <2>3
    <2>5. \A i \in 1..n : r[i] \in T /\ r[i] \in Nat /\ m < r[i]
      <3> SUFFICES ASSUME NEW i \in 1..n PROVE r[i] \in T /\ r[i] \in Nat /\ m < r[i]
        OBVIOUS
      <3>1. r[i] \in T /\ r[i] # m
        BY <2>4
      <3>2. r[i] \in Nat /\ m \in Nat /\ m <= r[i]
        BY <2>1, <2>2, <3>1
      <3> QED BY <3>1, <3>2
    <2>6. PICK s : s = [i \in 1..(n + 1) |-> IF i = 1 THEN m ELSE r[i - 1]]
      OBVIOUS
    <2>7. s[1] = m /\ \A i \in 2..(n + 1) : i - 1 \in 1..n /\ s[i] = r[i - 1] /\ s[i] \in T /\ m < s[i]
      BY <2>1, <2>5, <2>6
    <2>8. s \in [1..(n + 1) -> T]
      BY <2>1, <2>2, <2>5, <2>6
    <2>9. Rising(s, n + 1)
      <3> SUFFICES ASSUME NEW i \in 1..(n + 1), NEW j \in 1..(n + 1), i < j PROVE s[i] < s[j]
        BY DEF Rising
      <3>1. j \in 2..(n + 1)
        BY <2>1
      <3>2. CASE i = 1
        BY <2>7, <3>1, <3>2
      <3>3. CASE i # 1
        <4>1. i \in 2..(n + 1) /\ i - 1 < j - 1
          BY <2>1, <3>3
        <4> QED BY <2>4, <2>7, <3>1, <4>1 DEF Rising
      <3> QED BY <3>2, <3>3
    <2> QED BY <2>8, <2>9
  <1>4. N \in G
    <2> HIDE DEF G
    <2>1. \A n \in 0..N : n \in G
      BY <1>2, <1>3, AllUpTo
    <2> QED BY <2>1
  <1>5. S \in SUBSET S /\ Cardinality(S) = N
    BY <1>1
  <1> QED BY <1>1, <1>4, <1>5

\* As many different elements as a set has are all of it.
LEMMA AllListed ==
  ASSUME NEW S, IsFiniteSet(S), NEW s \in [1..Cardinality(S) -> S], Distinct(s, Cardinality(S))
  PROVE  \A x \in S : \E i \in 1..Cardinality(S) : s[i] = x
  <1>1. PICK n \in Nat : n = Cardinality(S)
    BY FS_CardinalityType
  <1>2. Cardinality(1..n) = n
    BY FS_Interval
  <1>3. s \in Injection(1..n, S)
    BY <1>1 DEF Injection, IsInjective, Distinct
  <1>4. s \in Surjection(1..n, S)
    BY <1>1, <1>2, <1>3, FS_Injection
  <1> QED BY <1>1, <1>4 DEF Surjection

LEMMA AscendingIs ==
  ASSUME NEW S \in SUBSET Nat, IsFiniteSet(S), NEW a, a = Ascending(S)
  PROVE  /\ Cardinality(S) \in Nat /\ a \in [1..Cardinality(S) -> S] /\ Rising(a, Cardinality(S))
         /\ Distinct(a, Cardinality(S)) /\ \A x \in S : \E i \in 1..Cardinality(S) : a[i] = x
  <1>1. PICK n \in Nat : n = Cardinality(S)
    BY FS_CardinalityType
  <1>2. a \in [1..Cardinality(S) -> S] /\ Rising(a, Cardinality(S))
    BY RisingExists, Zenon DEF Ascending, Rising
  <1>3. Distinct(a, n)
    <2> SUFFICES ASSUME NEW i \in 1..n, NEW j \in 1..n, a[i] = a[j], i < j PROVE FALSE
      BY DEF Distinct
    <2>1. a[i] < a[j] /\ a[i] \in Nat
      BY <1>1, <1>2 DEF Rising
    <2> QED BY <2>1
  <1> QED BY <1>1, <1>2, <1>3, AllListed

\* An order in which every task comes after its prerequisites.
InTurn(p, q) ==
  /\ q \in Seq(Tasks) /\ Distinct(q, Len(q))
  /\ \A j \in 1..Len(q) : \A u \in p[q[j]] : \E i \in 1..Len(q) : i < j /\ q[i] = u

TopReady(p, before) == {t \in Tasks \ ToSet(before) : p[t] \subseteq ToSet(before)}
TopNext(p, before) ==
  IF TopReady(p, before) = {} THEN before
  ELSE Append(before, CHOOSE t \in TopReady(p, before) : \A u \in TopReady(p, before) : t <= u)
TopBody(p, f, n) == IF n = 0 THEN << >> ELSE TopNext(p, f[n - 1])
TopFn(p) == CHOOSE f : f = [n \in 0..Cardinality(Tasks) |-> TopBody(p, f, n)]

LEMMA TopIs == ASSUME NEW p PROVE TopologicalOrder(p) = TopFn(p)[Cardinality(Tasks)]
  BY Zenon DEF TopologicalOrder, TopFn, TopBody, TopNext, TopReady

\* The recursion of _topological_order is well founded.
LEMMA TopFnIs ==
  ASSUME NEW p, NEW N \in Nat, N = Cardinality(Tasks)
  PROVE  \A n \in 0..N : TopFn(p)[n] = TopBody(p, TopFn(p), n)
  <1> DEFINE G == {k \in 0..N : \E g : g = [n \in 0..k |-> TopBody(p, g, n)]}
  <1>1. 0 \in G
    <2>1. PICK g : g = [n \in 0..0 |-> << >>]
      OBVIOUS
    <2>2. \A n \in 0..0 : TopBody(p, g, n) = << >>
      BY DEF TopBody
    <2>3. g = [n \in 0..0 |-> TopBody(p, g, n)]
      BY <2>1, <2>2
    <2> QED BY <2>3
  <1>2. ASSUME NEW k \in 0..N, k < N, k \in G PROVE k + 1 \in G
    <2>1. PICK g : g = [n \in 0..k |-> TopBody(p, g, n)]
      BY <1>2
    <2>2. PICK h : h = [n \in 0..(k + 1) |-> IF n = k + 1 THEN TopBody(p, g, n) ELSE g[n]]
      OBVIOUS
    <2>3. \A n \in 0..k : h[n] = g[n] /\ g[n] = TopBody(p, g, n)
      <3>1. \A n \in 0..k : g[n] = TopBody(p, g, n)
        BY <2>1
      <3>2. \A n \in 0..k : n \in 0..(k + 1) /\ n # k + 1
        OBVIOUS
      <3>3. \A n \in 0..k : h[n] = g[n]
        BY <2>2, <3>2
      <3> QED BY <3>1, <3>3
    <2>4. \A n \in 0..(k + 1) : TopBody(p, h, n) = TopBody(p, g, n)
      <3> SUFFICES ASSUME NEW n \in 0..(k + 1) PROVE TopBody(p, h, n) = TopBody(p, g, n)
        OBVIOUS
      <3>1. CASE n = 0
        BY <3>1 DEF TopBody
      <3>2. CASE n # 0
        <4>1. n - 1 \in 0..k
          BY <3>2
        <4>2. h[n - 1] = g[n - 1]
          BY <2>3, <4>1
        <4> QED BY <4>2 DEF TopBody
      <3> QED BY <3>1, <3>2
    <2>5. \A n \in 0..(k + 1) : h[n] = TopBody(p, h, n)
      <3> SUFFICES ASSUME NEW n \in 0..(k + 1) PROVE h[n] = TopBody(p, g, n)
        BY <2>4
      <3>1. CASE n = k + 1
        BY <2>2, <3>1
      <3>2. CASE n # k + 1
        <4>1. n \in 0..k
          BY <3>2
        <4> QED BY <2>3, <4>1
      <3> QED BY <3>1, <3>2
    <2>6. h = [n \in 0..(k + 1) |-> TopBody(p, h, n)]
      BY <2>2, <2>5
    <2>7. k + 1 \in 0..N
      BY <1>2
    <2> QED BY <2>6, <2>7
  <1>3. N \in G
    <2> HIDE DEF G
    <2>1. \A k \in 0..N : k \in G
      BY <1>1, <1>2, AllUpTo
    <2> QED BY <2>1
  <1>4. \E g : g = [n \in 0..Cardinality(Tasks) |-> TopBody(p, g, n)]
    BY <1>3
  <1>5. PICK f : f = TopFn(p)
    OBVIOUS
  <1>6. f = [n \in 0..Cardinality(Tasks) |-> TopBody(p, f, n)]
    BY <1>4, <1>5, Zenon DEF TopFn
  <1>7. \A n \in 0..N : f[n] = TopBody(p, f, n)
    BY <1>6
  <1> QED BY <1>5, <1>7

LEMMA TopNextInTurn ==
  ASSUME NEW p, NEW q, InTurn(p, q)
  PROVE  InTurn(p, TopNext(p, q))
  <1>1. q \in Seq(Tasks) /\ Len(q) \in Nat /\ ToSet(q) = {q[i] : i \in 1..Len(q)}
    BY DEF InTurn, ToSet
  <1>2. CASE TopReady(p, q) = {}
    BY <1>2 DEF TopNext
  <1>3. CASE TopReady(p, q) # {}
    <2>1. TopReady(p, q) \in SUBSET Nat
      BY OrchestrationConstants DEF TopReady
    <2>2. PICK t : t = CHOOSE x \in TopReady(p, q) : \A u \in TopReady(p, q) : x <= u
      OBVIOUS
    <2>3. t \in TopReady(p, q)
      <3>1. \E x \in TopReady(p, q) : \A u \in TopReady(p, q) : x <= u
        BY <1>3, <2>1, LeastOf
      <3> QED BY <2>2, <3>1, Zenon
    <2>4. t \in Tasks /\ (\A i \in 1..Len(q) : q[i] # t) /\ \A u \in p[t] : \E i \in 1..Len(q) : q[i] = u
      BY <1>1, <2>3 DEF TopReady
    <2>5. PICK r : r = Append(q, t)
      OBVIOUS
    <2>6. /\ r \in Seq(Tasks) /\ Len(r) = Len(q) + 1 /\ r[Len(q) + 1] = t
          /\ \A i \in 1..Len(q) : r[i] = q[i]
      BY <1>1, <2>4, <2>5
    <2>7. \A i \in 1..Len(r) : i \in 1..Len(q) \/ i = Len(q) + 1
      BY <1>1, <2>6
    <2>8. Distinct(r, Len(r))
      BY <1>1, <2>4, <2>6, <2>7 DEF InTurn, Distinct
    <2>9. ASSUME NEW j \in 1..Len(r), NEW u \in p[r[j]] PROVE \E i \in 1..Len(r) : i < j /\ r[i] = u
      <3>1. CASE j \in 1..Len(q)
        <4>1. PICK i \in 1..Len(q) : i < j /\ q[i] = u
          BY <2>6, <2>9, <3>1 DEF InTurn
        <4> QED BY <1>1, <2>6, <4>1
      <3>2. CASE j = Len(q) + 1
        <4>1. PICK i \in 1..Len(q) : q[i] = u
          BY <2>4, <2>6, <2>9, <3>2
        <4> QED BY <1>1, <2>6, <3>2, <4>1
      <3> QED BY <2>7, <3>1, <3>2
    <2>10. InTurn(p, r)
      BY <2>6, <2>8, <2>9 DEF InTurn
    <2>11. TopNext(p, q) = r
      BY <1>3, <2>2, <2>5, Zenon DEF TopNext
    <2> QED BY <2>10, <2>11
  <1> QED BY <1>2, <1>3

\* What _topological_order returns, whole or not, is in turn.
LEMMA TopInTurn == ASSUME NEW p PROVE InTurn(p, TopologicalOrder(p))
  <1>1. PICK N \in Nat : N = Cardinality(Tasks)
    BY OrchestrationConstants, FS_CardinalityType
  <1>2. PICK f : f = TopFn(p)
    OBVIOUS
  <1>3. \A n \in 0..N : f[n] = TopBody(p, f, n)
    BY <1>1, <1>2, TopFnIs
  <1> DEFINE G == {k \in 0..N : InTurn(p, f[k])}
  <1>4. 0 \in G
    <2>1. f[0] = << >>
      BY <1>3 DEF TopBody
    <2>2. InTurn(p, << >>)
      BY DEF InTurn, Distinct
    <2> QED BY <2>1, <2>2
  <1>5. ASSUME NEW k \in 0..N, k < N, k \in G PROVE k + 1 \in G
    <2>1. k + 1 \in 0..N /\ k + 1 # 0 /\ (k + 1) - 1 = k
      BY <1>5
    <2>2. f[k + 1] = TopNext(p, f[k])
      BY <1>3, <2>1 DEF TopBody
    <2>3. InTurn(p, f[k + 1])
      BY <1>5, <2>2, TopNextInTurn
    <2> QED BY <2>1, <2>3
  <1>6. \A k \in 0..N : k \in G
    <2> HIDE DEF G
    <2> QED BY <1>4, <1>5, AllUpTo
  <1>7. InTurn(p, f[N])
    BY <1>6
  <1> QED BY <1>1, <1>2, <1>7, TopIs

(***************************************************************************)
(* How far the tasks get                                                   *)
(***************************************************************************)
\* A sequential run has a turn for every task, after its prerequisites; a fan-out has none of them.
TurnsInv ==
  /\ style \in {"plan", "pipeline", "fanout"}
  /\ style = "fanout" => \A t \in Tasks : prereqs[t] = {}
  /\ style # "fanout" => InTurn(prereqs, Sequence) /\ \A t \in Tasks : \E i \in 1..Len(Sequence) : Sequence[i] = t

\* A blocked task waits for one that will never execute; one that was tried had no such.
FateInv ==
  \A t \in Tasks :
    /\ progress[t] = "blocked" => \E u \in prereqs[t] : progress[u] \in {"refused", "blocked"}
    /\ progress[t] = "refused" => Ready(t)
    /\ progress[t] \in {"sent", "verifying", "executed"} =>
         request[t].by = t /\ (style = "fanout" => request[t] = [by |-> t, causes |-> {Root}])

MergeInv == merged # << >> => (\A t \in Tasks : Done(t)) /\ MergeIsDeterministic

FlowInv == OrchInv /\ TurnsInv /\ FateInv /\ MergeInv

LEMMA TurnsInit == ASSUME OrchInit PROVE TurnsInv
  <1>1. PICK N \in Nat : N = Cardinality(Tasks)
    BY OrchestrationConstants, FS_CardinalityType
  <1>2. Tasks \in SUBSET Nat /\ IsFiniteSet(Tasks)
    BY OrchestrationConstants
  <1>3. CASE style = "plan"
    <2>1. PICK q : q = TopologicalOrder(prereqs)
      OBVIOUS
    <2>2. InTurn(prereqs, q) /\ Len(q) = N /\ Sequence = q
      BY <1>1, <1>3, <2>1, TopInTurn DEF OrchInit, Accepted, Sequence
    <2>3. q \in [1..Cardinality(Tasks) -> Tasks] /\ Distinct(q, Cardinality(Tasks))
      BY <1>1, <2>2 DEF InTurn
    <2>4. \A t \in Tasks : \E i \in 1..Cardinality(Tasks) : q[i] = t
      BY <1>2, <2>3, AllListed
    <2> QED BY <1>1, <1>3, <2>2, <2>4 DEF TurnsInv
  <1>4. CASE style = "pipeline"
    <2>1. PICK a : a = Ascending(Tasks)
      OBVIOUS
    <2>2. /\ a \in [1..N -> Tasks] /\ Rising(a, N) /\ Distinct(a, N) /\ \A x \in Tasks : \E i \in 1..N : a[i] = x
      BY <1>1, <1>2, <2>1, AscendingIs
    <2>3. Sequence = a /\ a \in Seq(Tasks) /\ Len(a) = N
      BY <1>4, <2>1, <2>2 DEF Sequence
    <2>4. ASSUME NEW j \in 1..N, NEW u \in prereqs[a[j]] PROVE \E i \in 1..N : i < j /\ a[i] = u
      <3>1. a[j] \in Tasks
        BY <2>2
      <3>2. PICK P : P = [t \in Tasks |-> {v \in Tasks : v < t /\ \A w \in Tasks : w < t => w <= v}]
        OBVIOUS
      <3>3. prereqs = P
        BY <1>4, <3>2 DEF OrchInit
      <3>4. u \in Tasks /\ u < a[j]
        BY <2>4, <3>1, <3>2, <3>3
      <3>5. PICK i \in 1..N : a[i] = u
        BY <2>2, <3>4
      <3>6. ~(j < i) /\ i # j
        <4>1. u \in Nat /\ a[j] \in Nat
          BY <1>2, <3>1, <3>4
        <4>2. j < i => a[j] < a[i]
          BY <2>2 DEF Rising
        <4> QED BY <3>4, <3>5, <4>1, <4>2
      <3> QED BY <3>5, <3>6
    <2>5. InTurn(prereqs, a)
      BY <2>2, <2>3, <2>4 DEF InTurn
    <2> QED BY <1>4, <2>2, <2>3, <2>5 DEF TurnsInv
  <1>5. CASE style = "fanout"
    BY <1>5 DEF OrchInit, TurnsInv
  <1> QED BY <1>3, <1>4, <1>5 DEF OrchInit

LEMMA FlowInit == ASSUME OrchInit PROVE FlowInv
  <1>1. progress = [t \in Tasks |-> "todo"] /\ merged = << >>
    BY DEF OrchInit
  <1>2. FateInv /\ MergeInv
    BY <1>1 DEF FateInv, MergeInv
  <1> QED BY <1>2, OrchInitInv, TurnsInit DEF FlowInv

LEMMA TurnsKept == ASSUME TurnsInv, style' = style, prereqs' = prereqs PROVE TurnsInv'
  <1>1. Sequence' = Sequence
    BY Zenon DEF Sequence
  <1>2. InTurn(prereqs, Sequence)' <=> InTurn(prereqs, Sequence)
    BY <1>1, Zenon
  <1> QED BY <1>1, <1>2 DEF TurnsInv

\* One task moves on.
LEMMA FateStep ==
  ASSUME FlowInv, NEW t \in Tasks, NEW p \in Stages, progress' = [progress EXCEPT ![t] = p],
         ~Done(t), merged' = merged, style' = style, prereqs' = prereqs,
         \A u \in Tasks : u # t => request'[u] = request[u],
         p = "blocked" => \E u \in prereqs[t] : progress[u] \in {"refused", "blocked"},
         p = "refused" => Ready(t),
         p \in {"sent", "verifying", "executed"} =>
           request'[t].by = t /\ (style = "fanout" => request'[t] = [by |-> t, causes |-> {Root}])
  PROVE  TurnsInv' /\ FateInv' /\ MergeInv'
  <1>1. /\ progress \in [Tasks -> Stages] /\ \A u \in Tasks : prereqs[u] \subseteq Tasks
    BY DEF FlowInv, OrchInv, OrchTypes
  <1>2. progress'[t] = p /\ \A u \in Tasks : u # t => progress'[u] = progress[u]
    BY <1>1
  <1>3. progress[t] \notin {"executed", "refused", "blocked"}
    BY DEF Done
  <1>4. \A u \in Tasks : progress[u] \in {"executed", "refused", "blocked"} => u # t /\ progress'[u] = progress[u]
    BY <1>2, <1>3
  <1>5. \A u \in Tasks : Ready(u) => Ready(u)'
    BY <1>1, <1>4 DEF Ready
  <1>6. FateInv'
    <2> SUFFICES ASSUME NEW u \in Tasks
                 PROVE  /\ progress'[u] = "blocked" => \E v \in prereqs[u] : progress'[v] \in {"refused", "blocked"}
                        /\ progress'[u] = "refused" => Ready(u)'
                        /\ progress'[u] \in {"sent", "verifying", "executed"} =>
                             request'[u].by = u /\ (style = "fanout" => request'[u] = [by |-> u, causes |-> {Root}])
      BY DEF FateInv
    <2>1. (\E v \in prereqs[u] : progress[v] \in {"refused", "blocked"})
             => \E v \in prereqs[u] : progress'[v] \in {"refused", "blocked"}
      BY <1>1, <1>4
    <2>2. CASE u = t
      BY <1>2, <1>5, <2>1, <2>2
    <2>3. CASE u # t
      BY <1>2, <1>5, <2>1, <2>3 DEF FlowInv, FateInv
    <2> QED BY <2>2, <2>3
  <1>7. merged = << >>
    BY <1>3 DEF FlowInv, MergeInv, Done
  <1>8. MergeInv'
    BY <1>7 DEF MergeInv
  <1>9. TurnsInv'
    BY TurnsKept DEF FlowInv
  <1> QED BY <1>6, <1>8, <1>9

LEMMA MergeStays ==
  ASSUME FlowInv, merged' = merged, style' = style, prereqs' = prereqs, progress' = progress, request' = request
  PROVE  TurnsInv' /\ FateInv' /\ MergeInv'
  <1>1. TurnsInv'
    BY TurnsKept DEF FlowInv
  <1>2. FateInv'
    BY DEF FlowInv, FateInv, Ready
  <1>3. \A t : RequestFor(t)' = RequestFor(t)
    BY DEF RequestFor
  <1>4. MergeIsDeterministic => MergeIsDeterministic'
    BY <1>3, Zenon DEF MergeIsDeterministic
  <1>5. MergeInv'
    BY <1>4 DEF FlowInv, MergeInv, Done
  <1> QED BY <1>1, <1>2, <1>5

\* The requests of what executed, in the order of the branches.
LEMMA ByBranchIs ==
  ASSUME NEW E \in SUBSET Tasks, NEW rs, \A x \in rs : x.by \in E, \A t \in E : \E x \in rs : x.by = t,
         \A x, y \in rs : x.by = y.by => x = y, NEW b, b = ByBranch(rs)
  PROVE  /\ Cardinality(E) \in Nat /\ Cardinality(rs) = Cardinality(E)
         /\ b \in [1..Cardinality(E) -> rs] /\ \A i, j \in 1..Cardinality(E) : i < j => b[i].by < b[j].by
  <1>1. E \in SUBSET Nat /\ IsFiniteSet(E)
    BY OrchestrationConstants, FS_Subset
  <1>2. PICK n \in Nat : n = Cardinality(E)
    BY <1>1, FS_CardinalityType
  <1> DEFINE f == [t \in E |-> CHOOSE x \in rs : x.by = t]
  <1>f. (\A t \in E : f[t].by = t /\ f[t] \in rs) /\ \A x \in rs : f[x.by] = x
    <2>1. \A t \in E : f[t].by = t /\ f[t] \in rs
      OBVIOUS
    <2> QED BY <2>1
  <1> HIDE DEF f
  <1>3. Cardinality(rs) = n
    <2>1. PICK g : g = [t \in E |-> f[t]]
      OBVIOUS
    <2>2. g \in Surjection(E, rs)
      BY <1>f, <2>1 DEF Surjection
    <2>3. g \in Injection(E, rs)
      BY <1>f, <2>1 DEF Injection, IsInjective
    <2> QED BY <1>1, <1>2, <2>2, <2>3, FS_Surjection
  <1>4. PICK s \in [1..n -> E] : Rising(s, n)
    BY <1>1, <1>2, RisingExists
  <1>5. PICK c : c = [i \in 1..n |-> f[s[i]]]
    OBVIOUS
  <1>6. c \in [1..Cardinality(rs) -> rs] /\ \A i, j \in 1..Cardinality(rs) : i < j => c[i].by < c[j].by
    <2>1. \A i \in 1..n : s[i] \in E /\ c[i] = f[s[i]] /\ c[i].by = s[i] /\ c[i] \in rs
      BY <1>f, <1>4, <1>5
    <2>2. c \in [1..n -> rs]
      BY <1>5, <2>1
    <2>3. \A i, j \in 1..n : i < j => c[i].by < c[j].by
      BY <1>4, <2>1 DEF Rising
    <2> QED BY <1>3, <2>2, <2>3
  <1>7. b \in [1..Cardinality(rs) -> rs] /\ \A i, j \in 1..Cardinality(rs) : i < j => b[i].by < b[j].by
    BY <1>6, Zenon DEF ByBranch
  <1> QED BY <1>2, <1>3, <1>7

LEMMA MergeFlow == ASSUME FlowInv, Merge PROVE TurnsInv' /\ FateInv' /\ MergeInv'
  <1>1. /\ style = "fanout" /\ merged = << >> /\ (\A t \in Tasks : Done(t))
        /\ merged' = Reconcile({request[t] : t \in {u \in Tasks : progress[u] = "executed"}})
        /\ style' = style /\ prereqs' = prereqs /\ progress' = progress /\ request' = request
    BY DEF Merge
  <1>2. PICK E : E = {u \in Tasks : progress[u] = "executed"}
    OBVIOUS
  <1>3. PICK rs : rs = {request[t] : t \in E}
    OBVIOUS
  <1>4. PICK b : b = ByBranch(rs)
    OBVIOUS
  <1>5. merged' = <<Root>> \o b
    BY <1>1, <1>2, <1>3, <1>4 DEF Reconcile
  <1>6. E \in SUBSET Tasks /\ \A t \in E : request[t].by = t /\ request[t] = [by |-> t, causes |-> {Root}]
    BY <1>1, <1>2 DEF FlowInv, FateInv
  <1>7. PICK n \in Nat : /\ n = Cardinality(E) /\ b \in [1..n -> rs] /\ \A i, j \in 1..n : i < j => b[i].by < b[j].by
    <2>1. /\ \A x \in rs : x.by \in E
          /\ \A t \in E : \E x \in rs : x.by = t
          /\ \A x, y \in rs : x.by = y.by => x = y
      <3>1. \A t \in E : request[t] \in rs /\ request[t].by = t
        BY <1>3, <1>6
      <3>2. \A x \in rs : \E t \in E : x = request[t]
        BY <1>3
      <3>3. \A x \in rs : x.by \in E /\ x = request[x.by]
        BY <3>1, <3>2
      <3> QED BY <3>1, <3>3
    <2>2. /\ Cardinality(E) \in Nat /\ Cardinality(rs) = Cardinality(E)
          /\ b \in [1..Cardinality(E) -> rs] /\ \A i, j \in 1..Cardinality(E) : i < j => b[i].by < b[j].by
      BY <1>4, <1>6, <2>1, ByBranchIs
    <2> QED BY <2>2
  <1>8. \A i \in 1..n : b[i].by \in E /\ b[i] = [by |-> b[i].by, causes |-> {Root}]
    <2> SUFFICES ASSUME NEW i \in 1..n PROVE b[i].by \in E /\ b[i] = [by |-> b[i].by, causes |-> {Root}]
      OBVIOUS
    <2>1. b[i] \in rs
      BY <1>7
    <2>2. PICK t \in E : b[i] = request[t]
      BY <1>3, <2>1
    <2>3. b[i].by = t /\ b[i] = [by |-> t, causes |-> {Root}]
      BY <1>6, <2>2
    <2> QED BY <2>2, <2>3
  <1>9. PICK m : m = <<Root>> \o b
    OBVIOUS
  <1>10. Len(m) = 1 + n /\ m[1] = Root /\ \A i \in 2..(1 + n) : i - 1 \in 1..n /\ m[i] = b[i - 1]
    <2>1. <<Root>> \in Seq({Root} \cup rs) /\ b \in Seq({Root} \cup rs) /\ Len(b) = n
      BY <1>7
    <2> QED BY <1>9, <2>1
  <1>11. \A t : RequestFor(t)' = [by |-> t, causes |-> {Root}]
    BY <1>1 DEF RequestFor
  <1>12. E = {t \in Tasks : progress'[t] = "executed"} /\ merged' = m
    BY <1>1, <1>2, <1>5, <1>9
  <1>13. \A i \in 2..Len(m) : m[i].by \in E /\ m[i] = RequestFor(m[i].by)'
    BY <1>8, <1>10, <1>11
  <1>14. \A i, j \in 2..Len(m) : i < j => m[i].by < m[j].by
    <2> SUFFICES ASSUME NEW i \in 2..Len(m), NEW j \in 2..Len(m), i < j PROVE m[i].by < m[j].by
      OBVIOUS
    <2>1. i - 1 \in 1..n /\ j - 1 \in 1..n /\ i - 1 < j - 1 /\ m[i] = b[i - 1] /\ m[j] = b[j - 1]
      BY <1>10
    <2> QED BY <1>7, <2>1
  <1>15. MergeIsDeterministic'
    <2>1. Len(m) = 1 + Cardinality(E) /\ m[1] = Root
      BY <1>7, <1>10
    <2>2. merged' = m /\ E = {t \in Tasks : progress'[t] = "executed"}
      BY <1>12
    <2>3. \A t : RequestFor(t)' = [by |-> t, causes |-> IF style' = "fanout" THEN {Root} ELSE {request'[u] : u \in prereqs'[t]}]
      BY DEF RequestFor
    <2>4. \A i \in 2..Len(m) :
             m[i] = [by |-> m[i].by, causes |-> IF style' = "fanout" THEN {Root} ELSE {request'[u] : u \in prereqs'[m[i].by]}]
      BY <1>13, <2>3, Zenon
    <2>5. (MergeIsDeterministic' <=>
             (m # << >> =>
                /\ Len(m) = 1 + Cardinality(E) /\ m[1] = Root
                /\ \A i \in 2..Len(m) :
                     m[i].by \in E
                     /\ m[i] = [by |-> m[i].by, causes |-> IF style' = "fanout" THEN {Root} ELSE {request'[u] : u \in prereqs'[m[i].by]}]
                /\ \A i, j \in 2..Len(m) : i < j => m[i].by < m[j].by))
      BY <2>2, Zenon DEF MergeIsDeterministic, RequestFor
    <2> QED BY <1>13, <1>14, <2>1, <2>4, <2>5, Zenon
  <1>16. MergeInv'
    BY <1>1, <1>15 DEF MergeInv, Done
  <1>17. TurnsInv'
    BY <1>1, TurnsKept DEF FlowInv
  <1>18. FateInv'
    BY <1>1 DEF FlowInv, FateInv, Ready
  <1> QED BY <1>16, <1>17, <1>18

LEMMA BlockFlow == ASSUME FlowInv, NEW t \in Tasks, Block(t) PROVE TurnsInv' /\ FateInv' /\ MergeInv'
  <1>1. /\ progress[t] = "todo" /\ Turn(t) /\ Unresolved(t) # {} /\ progress' = [progress EXCEPT ![t] = "blocked"]
        /\ style' = style /\ prereqs' = prereqs /\ request' = request /\ merged' = merged
    BY DEF Block
  <1>2. PICK u \in prereqs[t] : progress[u] # "executed"
    BY <1>1 DEF Unresolved
  <1>3. style # "fanout"
    BY <1>2 DEF FlowInv, TurnsInv
  <1>4. PICK s : s = Sequence
    OBVIOUS
  <1>5. InTurn(prereqs, s) /\ (\A x \in Tasks : \E i \in 1..Len(s) : s[i] = x) /\ DOMAIN s = 1..Len(s)
    <2>1. InTurn(prereqs, s) /\ \A x \in Tasks : \E i \in 1..Len(s) : s[i] = x
      BY <1>3, <1>4, Zenon DEF FlowInv, TurnsInv
    <2>2. s \in Seq(Tasks)
      BY <2>1 DEF InTurn
    <2>3. DOMAIN s = 1..Len(s)
      BY <2>2
    <2> QED BY <2>1, <2>3
  <1>6. \A i, j \in DOMAIN s : i < j /\ s[j] = t => Done(s[i])
    BY <1>1, <1>3, <1>4 DEF Turn, Sequential
  <1>7. PICK j \in 1..Len(s) : s[j] = t
    BY <1>5
  <1>8. PICK i \in 1..Len(s) : i < j /\ s[i] = u
    BY <1>2, <1>5, <1>7 DEF InTurn
  <1>9. Done(u)
    BY <1>5, <1>6, <1>7, <1>8
  <1>10. progress[u] \in {"refused", "blocked"}
    BY <1>2, <1>9 DEF Done
  <1>11. ~Done(t)
    BY <1>1 DEF Done
  <1> QED BY <1>1, <1>2, <1>10, <1>11, FateStep DEF Stages

LEMMA BeginFlow ==
  ASSUME FlowInv, NEW t \in Tasks, Begin(t) \/ BeginVerify(t) \/ ExecutorFails(t)
  PROVE  TurnsInv' /\ FateInv' /\ MergeInv'
  <1>1. PICK p \in {"signing", "verifying", "refused"} :
          /\ progress[t] \in {"todo", "sent"} /\ progress' = [progress EXCEPT ![t] = p]
          /\ p = "verifying" \/ p = "refused" => progress[t] = "sent"
          /\ style' = style /\ prereqs' = prereqs /\ request' = request /\ merged' = merged
    BY DEF Begin, BeginVerify, ExecutorFails
  <1>2. ~Done(t)
    BY <1>1 DEF Done
  <1>3. progress[t] = "sent" => Ready(t) /\ request[t].by = t /\ (style = "fanout" => request[t] = [by |-> t, causes |-> {Root}])
    BY DEF FlowInv, OrchInv, TaskInv, FateInv
  <1> QED BY <1>1, <1>2, <1>3, FateStep DEF Stages

LEMMA SignFlow == ASSUME FlowInv, NEW t \in Tasks, Sign(t) PROVE TurnsInv' /\ FateInv' /\ MergeInv'
  <1>1. /\ progress[t] = "signing" /\ style' = style /\ prereqs' = prereqs /\ merged' = merged
        /\ \/ request' = [request EXCEPT ![t] = RequestFor(t)] /\ progress' = [progress EXCEPT ![t] = "sent"]
           \/ request' = request /\ progress' = [progress EXCEPT ![t] = "refused"]
    BY DEF Sign
  <1>2. ~Done(t) /\ Ready(t) /\ DOMAIN request = Tasks
    BY <1>1 DEF Done, FlowInv, OrchInv, OrchTypes, TaskInv
  <1>3. CASE request' = request /\ progress' = [progress EXCEPT ![t] = "refused"]
    BY <1>1, <1>2, <1>3, FateStep DEF Stages
  <1>4. CASE request' = [request EXCEPT ![t] = RequestFor(t)] /\ progress' = [progress EXCEPT ![t] = "sent"]
    <2>1. PICK q : q = RequestFor(t)
      OBVIOUS
    <2>2. q.by = t /\ (style = "fanout" => q = [by |-> t, causes |-> {Root}])
      BY <2>1 DEF RequestFor
    <2>3. request'[t] = q /\ \A u \in Tasks : u # t => request'[u] = request[u]
      BY <1>2, <1>4, <2>1
    <2>4. request'[t].by = t /\ (style = "fanout" => request'[t] = [by |-> t, causes |-> {Root}])
      BY <2>2, <2>3
    <2> QED BY <1>1, <1>2, <1>4, <2>3, <2>4, FateStep DEF Stages
  <1> QED BY <1>1, <1>3, <1>4

LEMMA VerifyFlow == ASSUME FlowInv, NEW t \in Tasks, Verify(t) PROVE TurnsInv' /\ FateInv' /\ MergeInv'
  <1>1. PICK p \in {"executed", "refused"} :
          /\ progress[t] = "verifying" /\ progress' = [progress EXCEPT ![t] = p]
          /\ style' = style /\ prereqs' = prereqs /\ request' = request /\ merged' = merged
    BY DEF Verify
  <1>2. ~Done(t)
    BY <1>1 DEF Done
  <1>3. Ready(t) /\ request[t].by = t /\ (style = "fanout" => request[t] = [by |-> t, causes |-> {Root}])
    BY <1>1 DEF FlowInv, OrchInv, TaskInv, FateInv
  <1> QED BY <1>1, <1>2, <1>3, FateStep DEF Stages

LEMMA FlowStepKeeps == ASSUME FlowInv, [OrchNext]_orchvars PROVE FlowInv'
  <1>1. OrchInv'
    BY OrchStepKeeps DEF FlowInv
  <1>2. TurnsInv' /\ FateInv' /\ MergeInv'
    <2>1. CASE \E t \in Tasks : \/ Block(t) \/ Begin(t) \/ Sign(t) \/ BeginVerify(t) \/ Verify(t) \/ ExecutorFails(t)
      BY <2>1, BlockFlow, BeginFlow, SignFlow, VerifyFlow, Zenon
    <2>2. CASE (\E t \in Tasks, a \in replies : Execute(t, a)) \/ (\E cs, who : Respond(cs, who)) \/ (\E r : Forge(r)) \/ UNCHANGED orchvars
      <3>1. merged' = merged /\ style' = style /\ prereqs' = prereqs /\ progress' = progress /\ request' = request
        BY <2>2 DEF Execute, Respond, Forge, orchvars
      <3> QED BY <3>1, MergeStays
    <2>3. CASE Merge
      BY <2>3, MergeFlow
    <2> QED BY <2>1, <2>2, <2>3, Zenon DEF OrchNext
  <1> QED BY <1>1, <1>2 DEF FlowInv

\* A run that is over has tried every task that it could: the first one left, in the order of the
\* run, would have its turn.
LEMMA NobodyLeft == ASSUME FlowInv PROVE FailureStopsDependentsOnly
  <1> SUFFICES ASSUME \A t \in Tasks : progress[t] \notin {"signing", "sent", "verifying"} /\ ~(progress[t] = "todo" /\ Turn(t))
               PROVE  \A t \in Tasks : Done(t) /\ (progress[t] = "blocked" <=> Unresolved(t) # {})
    BY DEF FailureStopsDependentsOnly
  <1>1. \A t \in Tasks : Done(t) \/ progress[t] = "todo"
    BY DEF FlowInv, OrchInv, OrchTypes, Stages, Done
  <1>2. \A t \in Tasks : Done(t)
    <2>1. CASE style = "fanout"
      <3>1. {u \in Tasks : progress[u] # "todo" /\ ~Done(u)} = {}
        BY <1>1
      <3>2. \A t \in Tasks : Turn(t)
        BY <2>1, <3>1, FS_EmptySet, OrchestrationConstants DEF Turn, Sequential
      <3> QED BY <1>1, <3>2
    <2>2. CASE style # "fanout"
      <3> SUFFICES ASSUME NEW x \in Tasks, ~Done(x) PROVE FALSE
        OBVIOUS
      <3>1. PICK s : s = Sequence
        OBVIOUS
      <3>2. /\ s \in Seq(Tasks) /\ Distinct(s, Len(s)) /\ (\A t \in Tasks : \E i \in 1..Len(s) : s[i] = t)
            /\ DOMAIN s = 1..Len(s) /\ Len(s) \in Nat
        BY <2>2, <3>1 DEF FlowInv, TurnsInv, InTurn
      <3> DEFINE Left == {i \in 1..Len(s) : ~Done(s[i])}
      <3>3. Left \in SUBSET Nat /\ Left # {}
        BY <3>2
      <3>4. PICK k \in Left : \A i \in Left : k <= i
        BY <3>3, LeastOf
      <3>5. s[k] \in Tasks /\ progress[s[k]] = "todo" /\ k \in 1..Len(s)
        BY <1>1, <3>2, <3>4
      <3>6. ASSUME NEW i \in DOMAIN s, NEW j \in DOMAIN s, i < j, s[j] = s[k] PROVE Done(s[i])
        <4>1. j = k /\ i \in 1..Len(s)
          BY <3>2, <3>5, <3>6 DEF Distinct
        <4>2. i \notin Left
          BY <3>2, <3>4, <3>6, <4>1
        <4> QED BY <4>1, <4>2
      <3>7. Turn(s[k])
        BY <2>2, <3>1, <3>6 DEF Turn, Sequential
      <3> QED BY <3>5, <3>7
    <2> QED BY <2>1, <2>2
  <1>3. ASSUME NEW t \in Tasks, progress[t] = "blocked" PROVE Unresolved(t) # {}
    BY <1>3 DEF FlowInv, FateInv, Unresolved
  <1>4. ASSUME NEW t \in Tasks, progress[t] # "blocked" PROVE Unresolved(t) = {}
    <2>1. progress[t] \in {"executed", "refused"}
      BY <1>2, <1>4 DEF Done
    <2>2. Ready(t)
      BY <2>1 DEF FlowInv, FateInv, OrchInv, TaskInv
    <2> QED BY <2>2 DEF Ready, Unresolved
  <1> QED BY <1>2, <1>3, <1>4

\* The order of the run is fixed, what is blocked waits for a failure, and the merge is of what
\* executed (PlanOrchestrator.run, SequentialPipeline.run, ParallelFanout.run).
THEOREM FlowInvariant == OrchSpec => []FlowInv
  <1>1. OrchInit => FlowInv
    BY FlowInit
  <1>2. FlowInv /\ [OrchNext]_orchvars => FlowInv'
    BY FlowStepKeeps
  <1> QED BY <1>1, <1>2, PTL DEF OrchSpec

\* For any tasks, plan, number of workers and forged responses: each task executes on the answer to
\* its own request, after its prerequisites, a failure stops exactly what depends on it, and the
\* merge does not depend on which thread finished first (orchestrator.run, ParallelFanout.run).
THEOREM PlanIsCarriedOut == OrchSpec => []PlanCarriedOut
  <1>1. ASSUME FlowInv PROVE FailureStopsDependentsOnly
    BY <1>1, NobodyLeft
  <1>2. ASSUME FlowInv PROVE MergeIsDeterministic
    <2>1. CASE merged = << >>
      BY <2>1, Zenon DEF MergeIsDeterministic
    <2>2. CASE merged # << >>
      BY <1>2, <2>2 DEF FlowInv, MergeInv
    <2> QED BY <2>1, <2>2
  <1>3. ASSUME FlowInv, OnlyAnsweredExecute /\ GraphIsThePlan PROVE PlanCarriedOut
    BY <1>1, <1>2, <1>3 DEF PlanCarriedOut
  <1> QED BY <1>3, FlowInvariant, OrchestrationSafe, PTL
==============================================================================

----------------------------- MODULE WireProofs ------------------------------
(***************************************************************************)
(* What is proved of what goes over the wire: streams, flows, negotiations *)
(* and labels (Flows), the validator against the receiver (PreSend), and   *)
(* annotations, signatures and counters (Envelope).                        *)
(***************************************************************************)
EXTENDS PreSend, Flows, SequenceTheorems, FunctionTheorems, FiniteSetTheorems, WellFoundedInduction, TLAPS

(***************************************************************************)
(* Induction over the natural numbers                                      *)
(***************************************************************************)
\* Natural numbers are well ordered: a set of them has a least element.
LEMMA LeastOf ==
  ASSUME NEW T \in SUBSET Nat, T # {}
  PROVE  \E m \in T : \A y \in T : m <= y
  <1> DEFINE R == {ss \in Nat \X Nat : ss[1] < ss[2]}
  <1>1. IsWellFoundedOn(R, Nat)
    BY NatLessThanWellFounded, Zenon DEF OpToRel
  <1>2. \A x, y \in Nat : <<x, y>> \in R <=> x < y
    OBVIOUS
  <1> HIDE DEF R
  <1>3. PICK m \in T : \A y \in Nat : <<y, m>> \in R => ~(y \in T)
    BY <1>1, WFMin, Zenon
  <1>4. \A y \in T : ~(y < m)
    BY <1>2, <1>3, Zenon
  <1> QED BY <1>3, <1>4

\* Induction up to a bound, as a fact about sets.
LEMMA AllUpTo ==
  ASSUME NEW n \in Nat, NEW G, 0 \in G, \A k \in 0..n : k < n /\ k \in G => k + 1 \in G
  PROVE  \A k \in 0..n : k \in G
  <1> DEFINE Gap == {k \in 0..n : k \notin G}
  <1> SUFFICES ASSUME Gap # {} PROVE FALSE
    OBVIOUS
  <1>0. Gap \in SUBSET Nat
    OBVIOUS
  <1>1. PICK m \in Gap : \A y \in Gap : m <= y
    BY <1>0, LeastOf
  <1>2. m \in 1..n /\ m - 1 \in 0..n
    OBVIOUS
  <1>3. m - 1 \in G
    BY <1>1, <1>2
  <1> QED BY <1>1, <1>2, <1>3

\* A recursion that takes the value at n - 1 to the value at n has a solution.
Solves(g, N, X, b, st) == g \in [0..N -> X] /\ g[0] = b /\ \A n \in 1..N : g[n] = st[<<n, g[n - 1]>>]

LEMMA Iterated ==
  ASSUME NEW N \in Nat, NEW X, NEW b \in X, NEW st \in [(1..N) \X X -> X]
  PROVE  \E g : Solves(g, N, X, b, st)
  <1> DEFINE Good(g, k) == g \in [0..k -> X] /\ g[0] = b /\ \A n \in 1..k : g[n] = st[<<n, g[n - 1]>>]
             G == {k \in 0..N : \E g : Good(g, k)}
  <1>1. 0 \in G
    <2>1. PICK g : g = [n \in 0..0 |-> b]
      OBVIOUS
    <2>2. Good(g, 0)
      BY <2>1
    <2> QED BY <2>2
  <1>2. ASSUME NEW k \in 0..N, k < N, k \in G PROVE k + 1 \in G
    <2>1. PICK g : Good(g, k)
      BY <1>2
    <2>2. k + 1 \in 1..N /\ k + 1 \in 0..N /\ k \in 0..k
      BY <1>2
    <2>3. st[<<k + 1, g[k]>>] \in X
      <3>1. g[k] \in X
        BY <2>1, <2>2
      <3>2. <<k + 1, g[k]>> \in (1..N) \X X
        BY <2>2, <3>1
      <3> QED BY <3>2
    <2>4. PICK h : h = [n \in 0..(k + 1) |-> IF n = k + 1 THEN st[<<k + 1, g[k]>>] ELSE g[n]]
      OBVIOUS
    <2>5. \A n \in 0..k : n \in 0..(k + 1) /\ n # k + 1 /\ h[n] = g[n] /\ g[n] \in X
      BY <2>1, <2>4
    <2>6. h[k + 1] = st[<<k + 1, g[k]>>]
      BY <2>4
    <2>7. h \in [0..(k + 1) -> X]
      <3>1. \A n \in 0..(k + 1) : n = k + 1 \/ n \in 0..k
        OBVIOUS
      <3>2. \A n \in 0..(k + 1) : h[n] \in X
        BY <2>3, <2>5, <2>6, <3>1
      <3> HIDE DEF Good
      <3> QED BY <2>4, <3>2
    <2>8. ASSUME NEW n \in 1..(k + 1) PROVE h[n] = st[<<n, h[n - 1]>>]
      <3>1. n - 1 \in 0..k /\ h[n - 1] = g[n - 1]
        BY <2>5
      <3>2. CASE n = k + 1
        BY <2>6, <3>1, <3>2
      <3>3. CASE n # k + 1
        <4>1. n \in 1..k /\ n \in 0..k
          BY <3>3
        <4> QED BY <2>1, <2>5, <3>1, <4>1
      <3> QED BY <3>2, <3>3
    <2>9. h[0] = b
      BY <2>1, <2>5
    <2>10. Good(h, k + 1)
      BY <2>7, <2>8, <2>9
    <2> QED BY <2>2, <2>10
  <1>3. N \in G
    <2> HIDE DEF G
    <2>1. \A k \in 0..N : k \in G
      BY <1>1, <1>2, AllUpTo
    <2> QED BY <2>1
  <1> QED BY <1>3 DEF Solves

(***************************************************************************)
(* The octets of a stream                                                  *)
(***************************************************************************)
Chunks == [offset : Nat, data : Seq(DataOctets)]

JoinBody(t, f, n) == IF n = 0 THEN << >> ELSE f[n - 1] \o t[n].data
JoinFn(t) == CHOOSE f : f = [n \in 0..Len(t) |-> JoinBody(t, f, n)]

LEMMA OctetsIs == ASSUME NEW t PROVE StreamOctets(t) = JoinFn(t)[Len(t)]
  BY Zenon DEF StreamOctets, JoinFn, JoinBody

\* The octets of the first chunks, one chunk after another.
LEMMA JoinFnIs ==
  ASSUME NEW t \in Seq(Chunks)
  PROVE  /\ JoinFn(t) \in [0..Len(t) -> Seq(DataOctets)] /\ JoinFn(t)[0] = << >>
         /\ \A n \in 1..Len(t) : JoinFn(t)[n] = JoinFn(t)[n - 1] \o t[n].data
  <1>0. PICK N \in Nat : N = Len(t)
    OBVIOUS
  <1> DEFINE X == Seq(DataOctets)
             st == [p \in (1..N) \X X |-> p[2] \o t[p[1]].data]
  <1>1. \A n \in 1..N : t[n].data \in X
    <2>1. \A n \in 1..N : t[n] \in Chunks
      BY <1>0, ElementOfSeq
    <2> QED BY <2>1 DEF Chunks
  <1>2. st \in [(1..N) \X X -> X]
    <2> SUFFICES ASSUME NEW p \in (1..N) \X X PROVE p[2] \o t[p[1]].data \in X
      OBVIOUS
    <2>1. p[1] \in 1..N /\ p[2] \in X
      OBVIOUS
    <2>2. t[p[1]].data \in X
      BY <1>1, <2>1
    <2> QED BY <2>1, <2>2, ConcatProperties
  <1>3. << >> \in X
    OBVIOUS
  <1>4. \A n \in 1..N, x \in X : st[<<n, x>>] = x \o t[n].data
    OBVIOUS
  <1> HIDE DEF st, X
  <1>5. PICK g \in [0..N -> X] : g[0] = << >> /\ \A n \in 1..N : g[n] = st[<<n, g[n - 1]>>]
    <2>1. PICK b, Y, s : b = << >> /\ Y = X /\ s = st
      OBVIOUS
    <2>2. b \in Y /\ s \in [(1..N) \X Y -> Y]
      BY <1>2, <1>3, <2>1
    <2>3. PICK g : Solves(g, N, Y, b, s)
      BY <2>2, Iterated, Zenon
    <2> QED BY <2>1, <2>3 DEF Solves
  <1>6. \A n \in 0..N : g[n] = JoinBody(t, g, n)
    <2> SUFFICES ASSUME NEW n \in 0..N PROVE g[n] = JoinBody(t, g, n)
      OBVIOUS
    <2>1. CASE n = 0
      BY <1>5, <2>1 DEF JoinBody
    <2>2. CASE n # 0
      <3>1. n \in 1..N /\ n - 1 \in 0..N
        BY <2>2
      <3>2. g[n - 1] \in X
        BY <3>1
      <3> QED BY <1>4, <1>5, <2>2, <3>1, <3>2 DEF JoinBody
    <2> QED BY <2>1, <2>2
  <1>7. g = [n \in 0..Len(t) |-> JoinBody(t, g, n)]
    BY <1>0, <1>6
  <1>8. PICK f : f = JoinFn(t)
    OBVIOUS
  <1>9. f = [n \in 0..Len(t) |-> JoinBody(t, f, n)]
    BY <1>7, <1>8, Zenon DEF JoinFn
  <1>10. \A n \in 0..N : f[n] = JoinBody(t, f, n)
    BY <1>0, <1>9
  <1>11. f[0] = << >>
    <2>1. 0 \in 0..N
      OBVIOUS
    <2> QED BY <1>10, <2>1 DEF JoinBody
  <1>12. \A n \in 1..N : f[n] = f[n - 1] \o t[n].data
    <2> SUFFICES ASSUME NEW n \in 1..N PROVE f[n] = f[n - 1] \o t[n].data
      OBVIOUS
    <2>1. n \in 0..N /\ n # 0
      OBVIOUS
    <2> QED BY <1>10, <2>1 DEF JoinBody
  <1>13. \A n \in 0..N : f[n] \in X
    <2> DEFINE G == {n \in 0..N : f[n] \in X}
    <2>1. 0 \in G
      BY <1>3, <1>11
    <2>2. ASSUME NEW k \in 0..N, k < N, k \in G PROVE k + 1 \in G
      <3>1. k + 1 \in 1..N /\ k + 1 \in 0..N /\ (k + 1) - 1 = k
        BY <2>2
      <3>2. f[k + 1] = f[k] \o t[k + 1].data
        BY <1>12, <3>1
      <3>3. f[k] \in X /\ t[k + 1].data \in X
        BY <1>1, <2>2, <3>1
      <3>4. f[k + 1] \in X
        BY <3>2, <3>3, ConcatProperties DEF X
      <3> QED BY <3>1, <3>4
    <2> HIDE DEF G
    <2>3. \A k \in 0..N : k \in G
      BY <2>1, <2>2, AllUpTo
    <2> QED BY <2>3 DEF G
  <1>14. f \in [0..N -> X]
    BY <1>0, <1>9, <1>13
  <1> QED BY <1>0, <1>8, <1>11, <1>12, <1>14 DEF X

LEMMA OctetsType ==
  ASSUME NEW t \in Seq(Chunks)
  PROVE  StreamOctets(t) \in Seq(DataOctets)
  <1>1. Len(t) \in 0..Len(t)
    OBVIOUS
  <1> QED BY <1>1, OctetsIs, JoinFnIs

\* One chunk more leaves the octets of the chunks before it as they were.
LEMMA JoinAppend ==
  ASSUME NEW t \in Seq(Chunks), NEW c \in Chunks
  PROVE  \A n \in 0..Len(t) : JoinFn(Append(t, c))[n] = JoinFn(t)[n]
  <1>1. PICK N \in Nat : N = Len(t)
    OBVIOUS
  <1>2. PICK u \in Seq(Chunks) : u = Append(t, c)
    BY AppendProperties
  <1>3. Len(u) = N + 1 /\ \A i \in 1..N : u[i] = t[i]
    BY <1>1, <1>2
  <1>4. PICK f : f = JoinFn(t)
    OBVIOUS
  <1>5. PICK g : g = JoinFn(u)
    OBVIOUS
  <1>6. f[0] = << >> /\ \A n \in 1..N : f[n] = f[n - 1] \o t[n].data
    BY <1>1, <1>4, JoinFnIs
  <1>7. g[0] = << >> /\ \A n \in 1..(N + 1) : g[n] = g[n - 1] \o u[n].data
    BY <1>3, <1>5, JoinFnIs
  <1> DEFINE G == {n \in 0..N : g[n] = f[n]}
  <1>8. 0 \in G
    BY <1>6, <1>7
  <1>9. ASSUME NEW k \in 0..N, k < N, k \in G PROVE k + 1 \in G
    <2>1. k + 1 \in 1..N /\ k + 1 \in 1..(N + 1) /\ k + 1 \in 0..N /\ (k + 1) - 1 = k
      BY <1>9
    <2>2. f[k + 1] = f[k] \o t[k + 1].data /\ g[k + 1] = g[k] \o u[k + 1].data
      BY <1>6, <1>7, <2>1
    <2>3. u[k + 1] = t[k + 1] /\ g[k] = f[k]
      BY <1>3, <1>9, <2>1
    <2>4. g[k + 1] = f[k + 1]
      BY <2>2, <2>3
    <2> QED BY <2>1, <2>4
  <1> HIDE DEF G
  <1>10. \A k \in 0..N : k \in G
    BY <1>8, <1>9, AllUpTo
  <1> QED BY <1>1, <1>2, <1>4, <1>5, <1>10 DEF G

\* A sender gives every chunk the length of what came before it as its offset.
Laid(t) == t \in Seq(Chunks) /\ \A i \in 1..Len(t) : t[i].offset = Len(JoinFn(t)[i - 1])

LEMMA LaidAppend ==
  ASSUME NEW t, Laid(t), NEW d \in Seq(DataOctets)
  PROVE  Laid(Append(t, Chunk(Len(StreamOctets(t)), d)))
  <1>1. t \in Seq(Chunks) /\ \A i \in 1..Len(t) : t[i].offset = Len(JoinFn(t)[i - 1])
    BY DEF Laid
  <1>2. PICK N \in Nat : N = Len(t)
    BY <1>1
  <1>3. PICK c : c = Chunk(Len(StreamOctets(t)), d)
    OBVIOUS
  <1>4. c \in Chunks /\ c.offset = Len(JoinFn(t)[N])
    <2>1. StreamOctets(t) \in Seq(DataOctets)
      BY <1>1, OctetsType
    <2>2. StreamOctets(t) = JoinFn(t)[N]
      BY <1>2, OctetsIs
    <2>3. Len(StreamOctets(t)) \in Nat
      BY <2>1
    <2>4. c = [offset |-> Len(StreamOctets(t)), data |-> d]
      BY <1>3 DEF Chunk
    <2> QED BY <2>2, <2>3, <2>4 DEF Chunks
  <1>5. PICK u \in Seq(Chunks) : u = Append(t, c)
    BY <1>1, <1>4, AppendProperties
  <1>6. Len(u) = N + 1 /\ u[N + 1] = c /\ \A i \in 1..N : u[i] = t[i]
    BY <1>1, <1>2, <1>5
  <1>7. \A n \in 0..N : JoinFn(u)[n] = JoinFn(t)[n]
    BY <1>1, <1>2, <1>4, <1>5, JoinAppend
  <1>8. ASSUME NEW i \in 1..(N + 1) PROVE u[i].offset = Len(JoinFn(u)[i - 1])
    <2>1. i - 1 \in 0..N
      OBVIOUS
    <2>2. JoinFn(u)[i - 1] = JoinFn(t)[i - 1]
      BY <1>7, <2>1
    <2>3. CASE i = N + 1
      BY <1>4, <1>6, <2>2, <2>3
    <2>4. CASE i # N + 1
      <3>1. i \in 1..N
        BY <2>4
      <3> QED BY <1>1, <1>2, <1>6, <2>2, <3>1
    <2> QED BY <2>3, <2>4
  <1>9. Laid(u)
    BY <1>6, <1>8 DEF Laid
  <1> QED BY <1>3, <1>5, <1>9

\* The octets before a chunk, and the chunk, are among those before a later one.
LEMMA JoinGrows ==
  ASSUME NEW t \in Seq(Chunks), NEW i \in 1..Len(t), NEW j \in 1..Len(t), i < j
  PROVE  Len(JoinFn(t)[j - 1]) >= Len(JoinFn(t)[i - 1]) + Len(t[i].data)
  <1>1. PICK N \in Nat : N = Len(t)
    OBVIOUS
  <1>2. PICK f : f = JoinFn(t)
    OBVIOUS
  <1>3. f \in [0..N -> Seq(DataOctets)] /\ \A n \in 1..N : f[n] = f[n - 1] \o t[n].data
    BY <1>1, <1>2, JoinFnIs
  <1>4. \A n \in 1..N : f[n - 1] \in Seq(DataOctets) /\ t[n].data \in Seq(DataOctets)
    <2> SUFFICES ASSUME NEW n \in 1..N PROVE f[n - 1] \in Seq(DataOctets) /\ t[n].data \in Seq(DataOctets)
      OBVIOUS
    <2>1. t[n] \in Chunks
      BY <1>1, ElementOfSeq
    <2>2. n - 1 \in 0..N
      OBVIOUS
    <2> QED BY <1>3, <2>1, <2>2 DEF Chunks
  <1>5. \A n \in 1..N : /\ Len(f[n]) = Len(f[n - 1]) + Len(t[n].data)
                        /\ Len(f[n - 1]) \in Nat /\ Len(t[n].data) \in Nat
    <2> SUFFICES ASSUME NEW n \in 1..N
                 PROVE  /\ Len(f[n]) = Len(f[n - 1]) + Len(t[n].data)
                        /\ Len(f[n - 1]) \in Nat /\ Len(t[n].data) \in Nat
      OBVIOUS
    <2>1. f[n - 1] \in Seq(DataOctets) /\ t[n].data \in Seq(DataOctets)
      BY <1>4
    <2>2. f[n] = f[n - 1] \o t[n].data
      BY <1>3
    <2> QED BY <2>1, <2>2, ConcatProperties, LenProperties
  <1>0. PICK low \in Nat : low = Len(f[i - 1]) + Len(t[i].data)
    <2>1. i \in 1..N
      BY <1>1
    <2>2. PICK a \in Nat : a = Len(f[i - 1])
      BY <1>5, <2>1
    <2>3. PICK b \in Nat : b = Len(t[i].data)
      BY <1>5, <2>1
    <2>4. a + b \in Nat
      OBVIOUS
    <2> QED BY <2>2, <2>3, <2>4, Zenon
  <1> DEFINE G == {k \in 0..(N - i) : Len(f[i + k]) >= low}
  <1>6. 0 \in G
    <2>1. i \in 1..N /\ 0 \in 0..(N - i) /\ i + 0 = i
      BY <1>1
    <2>2. Len(f[i]) = low
      BY <1>0, <1>5, <2>1
    <2>3. Len(f[i + 0]) >= low
      BY <2>1, <2>2
    <2> QED BY <2>1, <2>3
  <1>7. ASSUME NEW k \in 0..(N - i), k < N - i, k \in G PROVE k + 1 \in G
    <2>1. i + (k + 1) \in 1..N /\ (i + (k + 1)) - 1 = i + k /\ k + 1 \in 0..(N - i)
      BY <1>1, <1>7
    <2>2. /\ Len(f[i + (k + 1)]) = Len(f[i + k]) + Len(t[i + (k + 1)].data)
          /\ Len(f[i + k]) \in Nat /\ Len(t[i + (k + 1)].data) \in Nat
      BY <1>5, <2>1
    <2>3. Len(f[i + k]) >= low
      BY <1>7
    <2>4. Len(f[i + (k + 1)]) >= low
      <3>1. PICK a \in Nat : a = Len(f[i + k])
        BY <2>2
      <3>2. PICK b \in Nat : b = Len(t[i + (k + 1)].data)
        BY <2>2
      <3>3. a >= low
        BY <2>3, <3>1, Zenon
      <3>4. a + b >= low
        BY <3>3
      <3> QED BY <2>2, <3>1, <3>2, <3>4, Zenon
    <2> QED BY <2>1, <2>4
  <1>8. \A k \in 0..(N - i) : k \in G
    <2>1. N - i \in Nat
      BY <1>1
    <2> HIDE DEF G
    <2> QED BY <1>6, <1>7, <2>1, AllUpTo
  <1>9. j - 1 - i \in 0..(N - i) /\ i + (j - 1 - i) = j - 1
    BY <1>1
  <1>10. Len(f[i + (j - 1 - i)]) >= low
    BY <1>8, <1>9
  <1> QED BY <1>0, <1>2, <1>9, <1>10

\* Empty chunks add nothing.
LEMMA SkipEmpty ==
  ASSUME NEW t \in Seq(Chunks), NEW q \in 0..Len(t), NEW r \in 0..Len(t), q <= r,
         \A j \in 1..Len(t) : q < j /\ j <= r => t[j].data = << >>
  PROVE  JoinFn(t)[r] = JoinFn(t)[q]
  <1>1. PICK f : f = JoinFn(t)
    OBVIOUS
  <1>2. f \in [0..Len(t) -> Seq(DataOctets)] /\ \A n \in 1..Len(t) : f[n] = f[n - 1] \o t[n].data
    BY <1>1, JoinFnIs
  <1> DEFINE G == {k \in 0..(r - q) : f[q + k] = f[q]}
  <1>3. 0 \in G
    OBVIOUS
  <1>4. ASSUME NEW k \in 0..(r - q), k < r - q, k \in G PROVE k + 1 \in G
    <2>1. /\ q + (k + 1) \in 1..Len(t) /\ (q + (k + 1)) - 1 = q + k /\ k + 1 \in 0..(r - q)
          /\ q < q + (k + 1) /\ q + (k + 1) <= r /\ q + k \in 0..Len(t)
      BY <1>4
    <2>2. f[q + (k + 1)] = f[q + k] \o << >> /\ f[q + k] \in Seq(DataOctets)
      BY <1>2, <2>1
    <2>3. f[q + (k + 1)] = f[q + k]
      BY <2>2, ConcatEmptySeq
    <2> QED BY <1>4, <2>1, <2>3
  <1>5. \A k \in 0..(r - q) : k \in G
    <2>1. r - q \in Nat
      OBVIOUS
    <2> HIDE DEF G
    <2> QED BY <1>3, <1>4, <2>1, AllUpTo
  <1>6. r - q \in 0..(r - q) /\ q + (r - q) = r
    OBVIOUS
  <1>7. f[q + (r - q)] = f[q]
    BY <1>5, <1>6
  <1> QED BY <1>1, <1>6, <1>7

\* Two chunks of a list do not take one place, and the one before takes the lower.
LEMMA PlaceRises ==
  ASSUME NEW t \in Seq(Chunks), NEW i \in 1..Len(t), NEW j \in 1..Len(t), GoesBefore(t, i, j)
  PROVE  PlaceOf(t, i) < PlaceOf(t, j)
  <1> DEFINE A == {k \in DOMAIN t : GoesBefore(t, k, i)}
             B == {k \in DOMAIN t : GoesBefore(t, k, j)}
  <1>0. DOMAIN t = 1..Len(t) /\ \A k \in 1..Len(t) : t[k].offset \in Nat
    <2>1. \A k \in 1..Len(t) : t[k] \in Chunks
      BY ElementOfSeq
    <2> QED BY <2>1 DEF Chunks
  <1>1. A \subseteq B
    BY <1>0 DEF GoesBefore
  <1>2. i \in B /\ i \notin A
    BY <1>0 DEF GoesBefore
  <1>3. IsFiniteSet(B)
    <2>1. IsFiniteSet(1..Len(t)) /\ B \in SUBSET (1..Len(t))
      BY <1>0, FS_Interval
    <2> QED BY <2>1, FS_Subset
  <1>4. Cardinality(A) < Cardinality(B) /\ Cardinality(A) \in Nat /\ Cardinality(B) \in Nat
    <2> HIDE DEF A, B
    <2>1. IsFiniteSet(A) /\ Cardinality(A) <= Cardinality(B) /\ (Cardinality(B) = Cardinality(A) => B = A)
      BY <1>1, <1>3, FS_Subset
    <2>2. Cardinality(A) \in Nat /\ Cardinality(B) \in Nat
      BY <1>3, <2>1, FS_CardinalityType
    <2> QED BY <1>2, <2>1, <2>2
  <1>5. PlaceOf(t, i) = 1 + Cardinality(A) /\ PlaceOf(t, j) = 1 + Cardinality(B)
    BY DEF PlaceOf
  <1> HIDE DEF A, B
  <1> QED BY <1>4, <1>5

LEMMA PlaceType ==
  ASSUME NEW t \in Seq(Chunks), NEW i \in 1..Len(t)
  PROVE  PlaceOf(t, i) \in 1..Len(t)
  <1>1. PICK N \in Nat : N = Len(t)
    OBVIOUS
  <1> DEFINE A == {k \in DOMAIN t : GoesBefore(t, k, i)}
  <1>2. DOMAIN t = 1..N /\ t[i].offset \in Nat
    <2>1. t[i] \in Chunks
      BY ElementOfSeq
    <2> QED BY <1>1, <2>1 DEF Chunks
  <1>3. i \in 1..N /\ i \notin A /\ A \in SUBSET (1..N)
    BY <1>1, <1>2 DEF GoesBefore
  <1>4. PlaceOf(t, i) = 1 + Cardinality(A)
    BY DEF PlaceOf
  <1> HIDE DEF A
  <1>5. IsFiniteSet(1..N) /\ Cardinality(1..N) = N
    BY FS_Interval
  <1>6. /\ IsFiniteSet(A) /\ Cardinality(A) <= Cardinality(1..N)
        /\ (Cardinality(1..N) = Cardinality(A) => 1..N = A)
    BY <1>3, <1>5, FS_Subset
  <1>7. Cardinality(A) \in Nat
    BY <1>6, FS_CardinalityType
  <1>8. Cardinality(A) # N
    BY <1>3, <1>5, <1>6
  <1> QED BY <1>1, <1>4, <1>5, <1>6, <1>7, <1>8

\* sorted(): every chunk once, and each after those that go before it.
SortedBy(t, f) ==
  /\ f \in Bijection(1..Len(t), 1..Len(t))
  /\ InOrder(t) = [k \in 1..Len(t) |-> t[f[k]]]
  /\ \A i, j \in 1..Len(t) : i < j => GoesBefore(t, f[i], f[j])

LEMMA SortedIs ==
  ASSUME NEW t \in Seq(Chunks)
  PROVE  \E f : SortedBy(t, f)
  <1>1. PICK N \in Nat : N = Len(t)
    OBVIOUS
  <1>2. DOMAIN t = 1..N /\ \A k \in 1..N : t[k].offset \in Nat
    <2>1. \A k \in 1..N : t[k] \in Chunks
      BY <1>1, ElementOfSeq
    <2> QED BY <1>1, <2>1 DEF Chunks
  <1>3. \A i, j \in 1..N : i = j \/ GoesBefore(t, i, j) \/ GoesBefore(t, j, i)
    BY <1>2 DEF GoesBefore
  <1>4. PICK place : place = [i \in 1..N |-> PlaceOf(t, i)]
    OBVIOUS
  <1>5. place \in [1..N -> 1..N] /\ \A i \in 1..N : place[i] = PlaceOf(t, i)
    BY <1>1, <1>4, PlaceType
  <1>6. \A i, j \in 1..N : GoesBefore(t, i, j) => place[i] < place[j]
    BY <1>1, <1>5, PlaceRises
  <1>7. \A i, j \in 1..N : place[i] = place[j] => i = j
    <2> SUFFICES ASSUME NEW i \in 1..N, NEW j \in 1..N, place[i] = place[j], i # j PROVE FALSE
      OBVIOUS
    <2>1. place[i] < place[j] \/ place[j] < place[i]
      BY <1>3, <1>6
    <2>2. place[i] \in 1..N /\ place[j] \in 1..N
      BY <1>5
    <2> QED BY <2>1, <2>2
  <1>8. \A k \in 1..N : \E i \in 1..N : place[i] = k
    <2>1. place \in Injection(1..N, 1..N)
      BY <1>5, <1>7 DEF Injection, IsInjective
    <2>2. IsFiniteSet(1..N)
      BY FS_Interval
    <2>3. place \in Surjection(1..N, 1..N)
      BY <2>1, <2>2, FS_Injection
    <2> QED BY <2>3 DEF Surjection
  <1>9. PICK f : f = [k \in 1..N |-> CHOOSE i \in DOMAIN t : PlaceOf(t, i) = k]
    OBVIOUS
  <1>10. \A k \in 1..N : f[k] \in 1..N /\ place[f[k]] = k
    <2> SUFFICES ASSUME NEW k \in 1..N PROVE f[k] \in 1..N /\ place[f[k]] = k
      OBVIOUS
    <2>1. f[k] = CHOOSE i \in DOMAIN t : PlaceOf(t, i) = k
      BY <1>9
    <2>2. \E i \in DOMAIN t : PlaceOf(t, i) = k
      BY <1>2, <1>5, <1>8
    <2>3. f[k] \in DOMAIN t /\ PlaceOf(t, f[k]) = k
      BY <2>1, <2>2
    <2> QED BY <1>2, <1>5, <2>3
  <1>11. f \in [1..N -> 1..N]
    BY <1>9, <1>10
  <1>12. f \in Bijection(1..N, 1..N)
    <2>1. \A a, b \in 1..N : f[a] = f[b] => a = b
      BY <1>10
    <2>2. \A i \in 1..N : \E k \in 1..N : f[k] = i
      <3> SUFFICES ASSUME NEW i \in 1..N PROVE \E k \in 1..N : f[k] = i
        OBVIOUS
      <3>1. place[i] \in 1..N
        BY <1>5
      <3>2. f[place[i]] \in 1..N /\ place[f[place[i]]] = place[i]
        BY <1>10, <3>1
      <3> QED BY <1>7, <3>1, <3>2
    <2> QED BY <1>11, <2>1, <2>2, Fun_IsBij
  <1>13. InOrder(t) = [k \in 1..N |-> t[f[k]]]
    BY <1>2, <1>9 DEF InOrder
  <1>14. ASSUME NEW i \in 1..N, NEW j \in 1..N, i < j PROVE GoesBefore(t, f[i], f[j])
    <2>1. f[i] \in 1..N /\ f[j] \in 1..N /\ place[f[i]] = i /\ place[f[j]] = j
      BY <1>10
    <2>2. f[i] # f[j]
      BY <1>14, <2>1
    <2>3. ~GoesBefore(t, f[j], f[i])
      <3> SUFFICES ASSUME GoesBefore(t, f[j], f[i]) PROVE FALSE
        OBVIOUS
      <3>1. place[f[j]] < place[f[i]]
        BY <1>6, <2>1
      <3> QED BY <1>14, <2>1, <3>1
    <2> QED BY <1>3, <2>1, <2>2, <2>3
  <1>15. SortedBy(t, f)
    BY <1>1, <1>12, <1>13, <1>14 DEF SortedBy
  <1> QED BY <1>15

\* Whatever order the chunks of a sender arrive in, sorted they are its octets.
LEMMA AnyOrder ==
  ASSUME NEW t, Laid(t), NEW h \in Seq(Chunks), Len(h) = Len(t),
         NEW p \in Bijection(1..Len(t), 1..Len(t)), \A i \in 1..Len(t) : h[i] = t[p[i]]
  PROVE  StreamOctets(InOrder(h)) = StreamOctets(t)
  <1>1. t \in Seq(Chunks) /\ \A i \in 1..Len(t) : t[i].offset = Len(JoinFn(t)[i - 1])
    BY DEF Laid
  <1>2. PICK N \in Nat : N = Len(t)
    BY <1>1
  <1>3. PICK f : SortedBy(h, f)
    BY SortedIs
  <1>4. /\ f \in Bijection(1..N, 1..N) /\ InOrder(h) = [k \in 1..N |-> h[f[k]]]
        /\ \A i, j \in 1..N : i < j => GoesBefore(h, f[i], f[j])
    BY <1>2, <1>3 DEF SortedBy
  <1>5. /\ f \in [1..N -> 1..N] /\ \A a, b \in 1..N : f[a] = f[b] => a = b
        /\ \A m \in 1..N : \E k \in 1..N : f[k] = m
    BY <1>4 DEF Bijection, Injection, Surjection, IsInjective
  <1>6. /\ p \in [1..N -> 1..N] /\ \A a, b \in 1..N : p[a] = p[b] => a = b
        /\ \A m \in 1..N : \E k \in 1..N : p[k] = m
    BY <1>2 DEF Bijection, Injection, Surjection, IsInjective
  <1>7. PICK r : r = [k \in 1..N |-> p[f[k]]]
    OBVIOUS
  <1>8. /\ r \in [1..N -> 1..N] /\ \A a, b \in 1..N : r[a] = r[b] => a = b
        /\ \A m \in 1..N : \E k \in 1..N : r[k] = m
    <2>1. \A k \in 1..N : r[k] = p[f[k]] /\ f[k] \in 1..N /\ r[k] \in 1..N
      BY <1>5, <1>6, <1>7
    <2>2. r \in [1..N -> 1..N]
      BY <1>7, <2>1
    <2>3. ASSUME NEW a \in 1..N, NEW b \in 1..N, r[a] = r[b] PROVE a = b
      <3>1. f[a] \in 1..N /\ f[b] \in 1..N /\ p[f[a]] = p[f[b]]
        BY <2>1, <2>3
      <3>2. f[a] = f[b]
        BY <1>6, <3>1
      <3> QED BY <1>5, <3>2
    <2>4. ASSUME NEW m \in 1..N PROVE \E k \in 1..N : r[k] = m
      <3>1. PICK i \in 1..N : p[i] = m
        BY <1>6
      <3>2. PICK k \in 1..N : f[k] = i
        BY <1>5
      <3> QED BY <2>1, <3>1, <3>2
    <2> QED BY <2>2, <2>3, <2>4
  <1>9. PICK u : u = InOrder(h)
    OBVIOUS
  <1>10. u = [k \in 1..N |-> t[r[k]]]
    <2>1. \A k \in 1..N : f[k] \in 1..N /\ h[f[k]] = t[r[k]]
      BY <1>2, <1>5, <1>7
    <2> QED BY <1>4, <1>9, <2>1
  <1>11. \A m \in 1..N : t[m] \in Chunks
    BY <1>1, <1>2, ElementOfSeq
  <1>12. u \in Seq(Chunks) /\ Len(u) = N /\ \A k \in 1..N : u[k] = t[r[k]]
    <2>1. \A k \in 1..N : t[r[k]] \in Chunks
      BY <1>8, <1>11
    <2>2. u \in [1..N -> Chunks]
      BY <1>10, <2>1
    <2> QED BY <1>10, <2>2
  <1>13. \A i, j \in 1..N : i < j => t[r[i]].offset <= t[r[j]].offset
    <2> SUFFICES ASSUME NEW i \in 1..N, NEW j \in 1..N, i < j PROVE t[r[i]].offset <= t[r[j]].offset
      OBVIOUS
    <2>1. GoesBefore(h, f[i], f[j])
      BY <1>4
    <2>2. h[f[i]] = t[r[i]] /\ h[f[j]] = t[r[j]]
      <3>1. f[i] \in 1..N /\ f[j] \in 1..N
        BY <1>5
      <3> QED BY <1>2, <1>7, <3>1
    <2>3. r[i] \in 1..N /\ r[j] \in 1..N
      BY <1>8
    <2>4. t[r[i]].offset \in Nat /\ t[r[j]].offset \in Nat
      BY <1>11, <2>3 DEF Chunks
    <2> QED BY <2>1, <2>2, <2>4 DEF GoesBefore
  <1>14. \A m, q \in 1..N : m < q /\ t[m].data # << >> => t[m].offset < t[q].offset
    <2> SUFFICES ASSUME NEW m \in 1..N, NEW q \in 1..N, m < q, t[m].data # << >>
                 PROVE  t[m].offset < t[q].offset
      OBVIOUS
    <2>1. Len(JoinFn(t)[q - 1]) >= Len(JoinFn(t)[m - 1]) + Len(t[m].data)
      BY <1>1, <1>2, JoinGrows
    <2>2. t[m].offset = Len(JoinFn(t)[m - 1]) /\ t[q].offset = Len(JoinFn(t)[q - 1])
      BY <1>1, <1>2
    <2>3. t[m] \in Chunks /\ t[q] \in Chunks
      BY <1>11
    <2>4. t[m].offset \in Nat /\ t[q].offset \in Nat /\ t[m].data \in Seq(DataOctets)
      BY <2>3 DEF Chunks
    <2>5. Len(t[m].data) \in Nat /\ Len(t[m].data) # 0
      BY <2>4, EmptySeq
    <2>6. PICK a \in Nat, b \in Nat, c \in Nat : a = t[m].offset /\ b = t[q].offset /\ c = Len(t[m].data)
      BY <2>4, <2>5
    <2>7. b >= a + c /\ c # 0
      BY <2>1, <2>2, <2>5, <2>6, Zenon
    <2>8. a < b
      BY <2>7
    <2> QED BY <2>6, <2>8
  <1>15. PICK F : F = JoinFn(t)
    OBVIOUS
  <1>16. PICK U : U = JoinFn(u)
    OBVIOUS
  <1>17. F[0] = << >> /\ \A n \in 1..N : F[n] = F[n - 1] \o t[n].data
    BY <1>1, <1>2, <1>15, JoinFnIs
  <1>18. U[0] = << >> /\ U \in [0..N -> Seq(DataOctets)] /\ \A n \in 1..N : U[n] = U[n - 1] \o u[n].data
    BY <1>12, <1>16, JoinFnIs
  \* After k chunks the octets are those of the sender up to its chunk q.
  <1> DEFINE Upto(k, q) ==
               /\ U[k] = F[q]
               /\ \A i \in 1..k : t[r[i]].data # << >> => r[i] <= q
               /\ q = 0 \/ \E i \in 1..k : r[i] = q
             G == {k \in 0..N : \E q \in 0..N : Upto(k, q)}
  <1>19. 0 \in G
    <2>1. Upto(0, 0)
      BY <1>17, <1>18
    <2>2. 0 \in 0..N
      OBVIOUS
    <2> QED BY <2>1, <2>2
  <1>20. ASSUME NEW k \in 0..N, k < N, k \in G PROVE k + 1 \in G
    <2>1. PICK q \in 0..N : Upto(k, q)
      BY <1>20
    <2>2. k + 1 \in 1..N /\ k + 1 \in 0..N /\ (k + 1) - 1 = k /\ \A i \in 1..(k + 1) : i = k + 1 \/ i \in 1..k
      BY <1>20
    <2>3. PICK m \in 1..N : m = r[k + 1]
      BY <1>8, <2>2
    <2>4. U[k + 1] = U[k] \o t[m].data
      BY <1>12, <1>18, <2>2, <2>3
    <2>5. CASE t[m].data = << >>
      <3>1. U[k] \in Seq(DataOctets)
        BY <1>18
      <3>2. U[k + 1] = U[k]
        BY <2>4, <2>5, <3>1, ConcatEmptySeq
      <3>3. Upto(k + 1, q)
        BY <2>1, <2>2, <2>3, <2>5, <3>2
      <3> QED BY <2>2, <3>3
    <2>6. CASE t[m].data # << >>
      <3>1. q < m
        <4> SUFFICES ASSUME q >= m PROVE FALSE
          OBVIOUS
        <4>1. q # 0 /\ q \in 1..N
          OBVIOUS
        <4>2. PICK i \in 1..k : r[i] = q
          BY <2>1, <4>1
        <4>3. i \in 1..N /\ i < k + 1 /\ i # k + 1
          BY <2>2
        <4>4. q # m
          BY <1>8, <2>2, <2>3, <4>2, <4>3
        <4>5. t[m].offset < t[q].offset
          BY <1>14, <2>6, <4>1, <4>4
        <4>6. t[q].offset <= t[m].offset
          BY <1>13, <2>2, <2>3, <4>2, <4>3
        <4>7. t[q].offset \in Nat /\ t[m].offset \in Nat
          BY <1>11, <4>1 DEF Chunks
        <4> QED BY <4>5, <4>6, <4>7
      <3>2. ASSUME NEW j \in 1..N, q < j, j <= m - 1 PROVE t[j].data = << >>
        <4> SUFFICES ASSUME t[j].data # << >> PROVE FALSE
          OBVIOUS
        <4>1. t[j].offset < t[m].offset
          BY <1>14, <3>2
        <4>2. PICK i \in 1..N : r[i] = j
          BY <1>8
        <4>3. t[j].offset \in Nat /\ t[m].offset \in Nat
          BY <1>11 DEF Chunks
        <4>4. i <= k
          <5> SUFFICES ASSUME i > k PROVE FALSE
            OBVIOUS
          <5>1. i = k + 1 \/ k + 1 < i
            BY <2>2
          <5>2. i # k + 1
            BY <2>3, <3>2, <4>2
          <5>3. t[m].offset <= t[j].offset
            BY <1>13, <2>2, <2>3, <4>2, <5>1, <5>2
          <5> QED BY <4>1, <4>3, <5>3
        <4>5. i \in 1..k
          BY <4>4
        <4>6. j <= q
          BY <2>1, <4>2, <4>5
        <4> QED BY <3>2, <4>6
      <3>3. F[m - 1] = F[q]
        <4>1. m - 1 \in 0..N /\ q <= m - 1
          BY <3>1
        <4> QED BY <1>1, <1>2, <1>15, <3>2, <4>1, SkipEmpty
      <3>4. U[k + 1] = F[m]
        BY <1>17, <2>1, <2>4, <3>3
      <3>5. ASSUME NEW i \in 1..(k + 1), t[r[i]].data # << >> PROVE r[i] <= m
        <4>1. CASE i = k + 1
          BY <2>3, <4>1
        <4>2. CASE i # k + 1
          <5>1. i \in 1..k /\ i \in 1..N
            BY <2>2, <4>2
          <5>2. r[i] <= q /\ r[i] \in 1..N
            BY <1>8, <2>1, <3>5, <5>1
          <5> QED BY <3>1, <5>2
        <4> QED BY <4>1, <4>2
      <3>6. Upto(k + 1, m)
        <4>1. k + 1 \in 1..(k + 1)
          OBVIOUS
        <4> QED BY <2>3, <3>4, <3>5, <4>1
      <3>7. m \in 0..N
        OBVIOUS
      <3> QED BY <2>2, <3>6, <3>7
    <2> QED BY <2>5, <2>6
  <1>21. N \in G
    <2> HIDE DEF G
    <2>1. \A k \in 0..N : k \in G
      BY <1>19, <1>20, AllUpTo
    <2> QED BY <2>1
  <1>22. PICK q \in 0..N : Upto(N, q)
    BY <1>21
  <1>23. F[N] = F[q]
    <2>1. ASSUME NEW j \in 1..N, q < j PROVE t[j].data = << >>
      <3>1. PICK i \in 1..N : r[i] = j
        BY <1>8
      <3>2. t[r[i]].data # << >> => r[i] <= q
        BY <1>22
      <3> QED BY <2>1, <3>1, <3>2
    <2>2. N \in 0..N /\ q <= N
      OBVIOUS
    <2> QED BY <1>1, <1>2, <1>15, <2>1, <2>2, SkipEmpty
  <1>24. U[N] = F[N]
    BY <1>22, <1>23
  <1>25. StreamOctets(u) = U[N] /\ StreamOctets(t) = F[N]
    BY <1>2, <1>12, <1>15, <1>16, OctetsIs
  <1> QED BY <1>9, <1>24, <1>25

LEMMA LaidOctets ==
  ASSUME NEW t, Laid(t)
  PROVE  CommitDigest(t) = StreamOctets(t)
  <1>1. t \in Seq(Chunks)
    BY DEF Laid
  <1>2. PICK p : p = [i \in 1..Len(t) |-> i]
    OBVIOUS
  <1>3. p \in Bijection(1..Len(t), 1..Len(t))
    BY <1>2, Fun_IsBij
  <1>4. \A i \in 1..Len(t) : t[i] = t[p[i]]
    BY <1>2
  <1> QED BY <1>1, <1>3, <1>4, AnyOrder DEF CommitDigest

(***************************************************************************)
(* Streams                                                                 *)
(***************************************************************************)
\* What a sender's signature is worth: it is over the octets of what it laid out.
Signed(c) == \E t : Laid(t) /\ c = [digest |-> StreamOctets(t), over |-> t]

StreamInv ==
  /\ guard \in [Streams -> {"idle", "open", "committed", "abandoned"}]
  /\ DOMAIN sent = Streams /\ \A s \in Streams : Laid(sent[s]) /\ Len(sent[s]) <= MAX_STREAM_CHUNKS
  /\ held \in [Streams -> Seq(Chunks)] /\ passed \in [Streams -> Seq(Chunks)]
  /\ DOMAIN settled = Streams
  /\ DOMAIN commit = Streams /\ \A s \in Streams : commit[s] # NoCommit => Signed(commit[s])
  /\ \A s \in Streams : guard[s] = "committed" =>
       commit[s] # NoCommit /\ commit[s].digest = CommitDigest(settled[s])

streamvars == <<guard, sent, commit, held, passed, settled>>

LEMMA StreamInvInit == FlowsInit => StreamInv
  <1> SUFFICES ASSUME FlowsInit PROVE StreamInv
    OBVIOUS
  <1>1. Laid(<< >>) /\ Len(<< >>) <= MAX_STREAM_CHUNKS
    BY FlowsConstants DEF Laid
  <1>2. sent = [s \in Streams |-> << >>] /\ held = sent /\ passed = sent /\ settled = sent
    BY DEF FlowsInit
  <1>3. guard = [s \in Streams |-> "idle"] /\ commit = [s \in Streams |-> NoCommit]
    BY DEF FlowsInit
  <1> QED BY <1>1, <1>2, <1>3 DEF StreamInv

LEMMA PieceOctets == ASSUME NEW d \in Pieces PROVE d \in Seq(DataOctets)
  BY FlowsConstants

LEMMA GuardOpenStream ==
  ASSUME StreamInv, NEW s \in Streams, NEW e, GuardOpen(s, e)
  PROVE  StreamInv'
  <1>1. guard' = [guard EXCEPT ![s] = "open"] /\ UNCHANGED <<sent, commit, held, passed, settled>>
    BY DEF GuardOpen
  <1>2. \A r \in Streams : guard'[r] = "committed" => guard[r] = "committed"
    BY <1>1 DEF StreamInv
  <1> QED BY <1>1, <1>2 DEF StreamInv

LEMMA ProduceStream ==
  ASSUME StreamInv, NEW s \in Streams, NEW d \in Pieces, Produce(s, d)
  PROVE  StreamInv'
  <1>1. /\ sent' = [sent EXCEPT ![s] = Append(@, Chunk(Len(StreamOctets(@)), d))]
        /\ Len(sent[s]) < MAX_STREAM_CHUNKS /\ UNCHANGED <<guard, commit, held, passed, settled>>
    BY DEF Produce
  <1>2. Laid(sent[s]) /\ DOMAIN sent = Streams
    BY DEF StreamInv
  <1>3. PICK u : u = Append(sent[s], Chunk(Len(StreamOctets(sent[s])), d))
    OBVIOUS
  <1>4. Laid(u)
    BY <1>2, <1>3, PieceOctets, LaidAppend
  <1>5. Len(u) <= MAX_STREAM_CHUNKS
    <2>1. sent[s] \in Seq(Chunks)
      BY <1>2 DEF Laid
    <2>2. Len(u) = Len(sent[s]) + 1 /\ Len(sent[s]) \in Nat
      BY <1>3, <2>1
    <2>3. MAX_STREAM_CHUNKS \in Nat
      BY FlowsConstants
    <2> QED BY <1>1, <2>2, <2>3
  <1>6. DOMAIN sent' = Streams /\ \A r \in Streams : sent'[r] = IF r = s THEN u ELSE sent[r]
    BY <1>1, <1>2, <1>3
  <1>7. \A r \in Streams : Laid(sent'[r]) /\ Len(sent'[r]) <= MAX_STREAM_CHUNKS
    BY <1>4, <1>5, <1>6 DEF StreamInv
  <1> QED BY <1>1, <1>6, <1>7 DEF StreamInv

LEMMA SignCommitStream ==
  ASSUME StreamInv, NEW s \in Streams, SignCommit(s)
  PROVE  StreamInv'
  <1>1. /\ commit' = [commit EXCEPT ![s] = [digest |-> CommitDigest(sent[s]), over |-> sent[s]]]
        /\ commit[s] = NoCommit /\ UNCHANGED <<guard, sent, held, passed, settled>>
    BY DEF SignCommit
  <1>2. Laid(sent[s]) /\ DOMAIN commit = Streams
    BY DEF StreamInv
  <1>3. Signed([digest |-> CommitDigest(sent[s]), over |-> sent[s]])
    BY <1>2, LaidOctets DEF Signed
  <1>4. /\ DOMAIN commit' = Streams /\ commit'[s] = [digest |-> CommitDigest(sent[s]), over |-> sent[s]]
        /\ \A r \in Streams : r # s => commit'[r] = commit[r]
    BY <1>1, <1>2
  <1>5. \A r \in Streams : commit'[r] # NoCommit => Signed(commit'[r])
    BY <1>3, <1>4 DEF StreamInv
  <1>6. \A r \in Streams : guard[r] = "committed" => r # s
    BY <1>1 DEF StreamInv
  <1>7. \A r \in Streams : guard'[r] = "committed" =>
          commit'[r] # NoCommit /\ commit'[r].digest = CommitDigest(settled'[r])
    BY <1>1, <1>4, <1>6 DEF StreamInv
  <1> QED BY <1>1, <1>4, <1>5, <1>7 DEF StreamInv

LEMMA ArrivingChunks ==
  ASSUME StreamInv, NEW s \in Streams, NEW c \in Arriving(s)
  PROVE  c \in Chunks
  <1>1. sent[s] \in Seq(Chunks)
    BY DEF StreamInv, Laid
  <1>2. \A b \in ToSet(sent[s]) : b \in Chunks
    BY <1>1 DEF ToSet
  <1>3. \A b \in Chunks : [b EXCEPT !.offset = 2] \in Chunks
    BY DEF Chunks
  <1> QED BY <1>2, <1>3 DEF Arriving

LEMMA GuardChunkStream ==
  ASSUME StreamInv, NEW s \in Streams, NEW c \in Arriving(s), GuardChunk(s, c)
  PROVE  StreamInv'
  <1>1. /\ passed' = [passed EXCEPT ![s] = Append(@, c)]
        /\ UNCHANGED <<guard, sent, commit, held, settled>>
    BY DEF GuardChunk
  <1>2. c \in Chunks
    BY ArrivingChunks
  <1>3. passed \in [Streams -> Seq(Chunks)]
    BY DEF StreamInv
  <1>4. Append(passed[s], c) \in Seq(Chunks)
    BY <1>2, <1>3, AppendProperties
  <1>5. passed' \in [Streams -> Seq(Chunks)]
    BY <1>1, <1>3, <1>4
  <1> QED BY <1>1, <1>5 DEF StreamInv

LEMMA StoreChunkStream ==
  ASSUME StreamInv, NEW s \in Streams, StoreChunk(s)
  PROVE  StreamInv'
  <1>1. /\ passed[s] # << >> /\ held' = [held EXCEPT ![s] = Append(@, Head(passed[s]))]
        /\ passed' = [passed EXCEPT ![s] = Tail(@)] /\ UNCHANGED <<guard, sent, commit, settled>>
    BY DEF StoreChunk
  <1>2. passed \in [Streams -> Seq(Chunks)] /\ held \in [Streams -> Seq(Chunks)]
    BY DEF StreamInv
  <1>3. Head(passed[s]) \in Chunks /\ Tail(passed[s]) \in Seq(Chunks)
    BY <1>1, <1>2
  <1>4. Append(held[s], Head(passed[s])) \in Seq(Chunks)
    BY <1>2, <1>3, AppendProperties
  <1>5. passed' \in [Streams -> Seq(Chunks)] /\ held' \in [Streams -> Seq(Chunks)]
    BY <1>1, <1>2, <1>3, <1>4
  <1> QED BY <1>1, <1>5 DEF StreamInv

LEMMA GuardCommitStream ==
  ASSUME StreamInv, NEW s \in Streams, GuardCommit(s)
  PROVE  StreamInv'
  <1>1. /\ commit[s] # NoCommit /\ VerifyCommit(commit[s].digest, held[s]) = "ok"
        /\ guard' = [guard EXCEPT ![s] = "committed"] /\ settled' = [settled EXCEPT ![s] = held[s]]
        /\ UNCHANGED <<sent, commit, held, passed>>
    BY DEF GuardCommit
  <1>2. commit[s].digest = CommitDigest(held[s])
    BY <1>1 DEF VerifyCommit
  <1>3. guard \in [Streams -> {"idle", "open", "committed", "abandoned"}] /\ DOMAIN settled = Streams
    BY DEF StreamInv
  <1>4. /\ guard' \in [Streams -> {"idle", "open", "committed", "abandoned"}] /\ DOMAIN settled' = Streams
        /\ \A r \in Streams : r # s => guard'[r] = guard[r] /\ settled'[r] = settled[r]
        /\ settled'[s] = held[s]
    BY <1>1, <1>3
  <1>5. \A r \in Streams : guard'[r] = "committed" =>
          commit'[r] # NoCommit /\ commit'[r].digest = CommitDigest(settled'[r])
    BY <1>1, <1>2, <1>4 DEF StreamInv
  <1> QED BY <1>1, <1>4, <1>5 DEF StreamInv

LEMMA GuardExpireStream ==
  ASSUME StreamInv, NEW s \in Streams, GuardExpire(s)
  PROVE  StreamInv'
  <1>1. guard' = [guard EXCEPT ![s] = "abandoned"] /\ UNCHANGED <<sent, commit, held, passed, settled>>
    BY DEF GuardExpire
  <1>2. \A r \in Streams : guard'[r] = "committed" => guard[r] = "committed"
    BY <1>1 DEF StreamInv
  <1> QED BY <1>1, <1>2 DEF StreamInv

\* Steps of the other two exchanges leave the streams alone.
LEMMA StreamInvStays ==
  ASSUME StreamInv, UNCHANGED streamvars
  PROVE  StreamInv'
  BY DEF StreamInv, streamvars

LEMMA StreamSafe == StreamInv => CommittedIsWhatWasSent /\ AnyOrderWillDo
  <1> SUFFICES ASSUME StreamInv PROVE CommittedIsWhatWasSent /\ AnyOrderWillDo
    OBVIOUS
  <1>1. ASSUME NEW s \in Streams, guard[s] = "committed" PROVE StreamOctets(InOrder(settled[s])) = StreamOctets(commit[s].over)
    <2>1. commit[s] # NoCommit /\ commit[s].digest = StreamOctets(InOrder(settled[s]))
      BY <1>1 DEF StreamInv, CommitDigest
    <2>2. PICK t : Laid(t) /\ commit[s] = [digest |-> StreamOctets(t), over |-> t]
      BY <2>1 DEF StreamInv, Signed
    <2> QED BY <2>1, <2>2
  <1>2. ASSUME NEW s \in Streams, NEW n \in 0..Len(StreamOctets(sent[s])),
               VerifyCheckpoint(n, SubSeq(StreamOctets(sent[s]), 1, n), held[s]) = "ok"
        PROVE  IsPrefix(CommitDigest(held[s]), StreamOctets(sent[s]))
    <2>1. sent[s] \in Seq(Chunks)
      BY DEF StreamInv, Laid
    <2>2. PICK o \in Seq(DataOctets) : o = StreamOctets(sent[s])
      BY <2>1, OctetsType
    <2>3. CommitDigest(held[s]) = SubSeq(o, 1, n)
      BY <1>2, <2>2 DEF VerifyCheckpoint
    <2>4. n \in 0..Len(o) /\ n \in Nat /\ Len(o) \in Nat
      BY <2>2
    <2>5. Len(SubSeq(o, 1, n)) = n /\ \A i \in 1..n : SubSeq(o, 1, n)[i] = o[i]
      BY <2>4, SubSeqProperties
    <2>6. IsPrefix(SubSeq(o, 1, n), o)
      BY <2>4, <2>5 DEF IsPrefix
    <2> QED BY <2>2, <2>3, <2>6
  <1>3. ASSUME NEW s \in Streams, commit[s] # NoCommit, commit[s].digest = StreamOctets(sent[s]),
               Len(held[s]) = Len(sent[s]),
               NEW place \in Bijection(DOMAIN held[s], DOMAIN sent[s]),
               \A i \in DOMAIN held[s] : held[s][i] = sent[s][place[i]]
        PROVE  VerifyCommit(commit[s].digest, held[s]) = "ok"
    <2>1. /\ Laid(sent[s]) /\ sent[s] \in Seq(Chunks) /\ held[s] \in Seq(Chunks)
          /\ Len(sent[s]) <= MAX_STREAM_CHUNKS /\ MAX_STREAM_CHUNKS \in Nat
      BY FlowsConstants DEF StreamInv, Laid
    <2>2. DOMAIN held[s] = 1..Len(sent[s]) /\ DOMAIN sent[s] = 1..Len(sent[s])
      BY <1>3, <2>1
    <2>3. CommitDigest(held[s]) = StreamOctets(sent[s])
      BY <1>3, <2>1, <2>2, AnyOrder DEF CommitDigest
    <2>4. Len(held[s]) \in Nat /\ ~(Len(held[s]) > MAX_STREAM_CHUNKS)
      BY <1>3, <2>1
    <2> QED BY <1>3, <2>3, <2>4 DEF VerifyCommit
  <1>4. CommittedIsWhatWasSent
    BY <1>1, <1>2 DEF CommittedIsWhatWasSent
  <1>5. AnyOrderWillDo
    BY <1>3 DEF AnyOrderWillDo
  <1> QED BY <1>4, <1>5

(***************************************************************************)
(* Flows                                                                   *)
(***************************************************************************)
LinkFields == {"open", "seq", "effect", "payload", "prev"}
Before(t, i) == IF i = 1 THEN TheFlow ELSE t[i - 1]

\* What the owner of the flow builds: every link names its place and the one before.
HonestLinks(t) ==
  /\ \E S : t \in Seq(S)
  /\ \A i \in 1..Len(t) :
       /\ t[i].effect \in {1, 3, 9}
       /\ t[i] = Continuation(TheFlow, i - 1, t[i].effect, t[i].payload, Before(t, i))

Prefix(t, u) == Len(t) <= Len(u) /\ \A i \in 1..Len(t) : t[i] = u[i]

FlowInv ==
  /\ HonestLinks(chain) /\ Len(chain) <= MaxLinks
  /\ \A seal \in sealed :
       /\ HonestLinks(seal.over) /\ Prefix(seal.over, chain)
       /\ seal.open = TheFlow /\ seal.head = ChainHead(TheFlow, seal.over)
  /\ \A mark \in marks :
       /\ HonestLinks(mark.over) /\ Prefix(mark.over, chain) /\ mark.over # << >>
       /\ mark.open = TheFlow /\ mark.head = Last(mark.over) /\ mark.through = Len(mark.over) - 1

LEMMA HonestLink ==
  ASSUME NEW t, HonestLinks(t), NEW i \in 1..Len(t)
  PROVE  DOMAIN t[i] = LinkFields /\ t[i].open = TheFlow /\ t[i].seq = i - 1 /\ t[i].prev = Before(t, i)
  <1>1. PICK c, q, e, p, b : c = t[i] /\ q = i - 1 /\ e = t[i].effect /\ p = t[i].payload /\ b = Before(t, i)
    OBVIOUS
  <1>2. c = Continuation(TheFlow, q, e, p, b)
    BY <1>1, Zenon DEF HonestLinks
  <1>3. DOMAIN c = LinkFields /\ c.open = TheFlow /\ c.seq = q /\ c.prev = b
    BY <1>2 DEF Continuation, LinkFields
  <1> QED BY <1>1, <1>3, Zenon

LEMMA HonestSeq == ASSUME NEW t, HonestLinks(t) PROVE Len(t) \in Nat /\ t = [i \in 1..Len(t) |-> t[i]]
  <1>1. PICK S : t \in Seq(S)
    BY DEF HonestLinks
  <1> QED BY <1>1

LEMMA HonestAppend ==
  ASSUME NEW t, HonestLinks(t), NEW e \in {1, 3, 9}, NEW p
  PROVE  LET u == Append(t, Continuation(TheFlow, Len(t), e, p, ChainHead(TheFlow, t)))
         IN  HonestLinks(u) /\ Len(u) = Len(t) + 1 /\ Prefix(t, u)
  <1>1. PICK c : c = Continuation(TheFlow, Len(t), e, p, ChainHead(TheFlow, t))
    OBVIOUS
  <1>2. PICK S : t \in Seq(S)
    BY DEF HonestLinks
  <1>3. PICK N \in Nat : N = Len(t)
    BY <1>2
  <1>4. t \in Seq(S \cup {c}) /\ c \in S \cup {c}
    BY <1>2
  <1>5. PICK u : u = Append(t, c)
    OBVIOUS
  <1>6. u \in Seq(S \cup {c}) /\ Len(u) = N + 1 /\ u[N + 1] = c /\ \A i \in 1..N : u[i] = t[i]
    BY <1>3, <1>4, <1>5, AppendProperties
  <1>7. Prefix(t, u)
    BY <1>3, <1>6 DEF Prefix
  <1>8. ASSUME NEW i \in 1..(N + 1)
        PROVE  /\ u[i].effect \in {1, 3, 9}
               /\ u[i] = Continuation(TheFlow, i - 1, u[i].effect, u[i].payload, Before(u, i))
    <2>1. CASE i = N + 1
      <3>1. c.effect = e /\ c.payload = p
        BY <1>1 DEF Continuation
      <3>2. ChainHead(TheFlow, t) = Before(u, i)
        <4>1. CASE N = 0
          <5>1. t = << >>
            BY <1>2, <1>3, <4>1, EmptySeq
          <5> QED BY <2>1, <4>1, <5>1 DEF ChainHead, Before
        <4>2. CASE N # 0
          <5>1. t # << >> /\ N \in 1..N
            BY <1>3, <4>2
          <5>2. Last(t) = u[N]
            BY <1>3, <1>6, <5>1 DEF Last
          <5>3. i # 1 /\ i - 1 = N
            BY <2>1, <4>2
          <5> QED BY <5>1, <5>2, <5>3 DEF ChainHead, Before
        <4> QED BY <4>1, <4>2
      <3>3. u[i] = c /\ i - 1 = Len(t)
        BY <1>3, <1>6, <2>1
      <3> QED BY <1>1, <3>1, <3>2, <3>3
    <2>2. CASE i # N + 1
      <3>1. i \in 1..N /\ u[i] = t[i]
        BY <1>6, <2>2
      <3>2. Before(u, i) = Before(t, i)
        <4>1. i = 1 \/ (i # 1 /\ i - 1 \in 1..N)
          BY <3>1
        <4> QED BY <1>6, <4>1 DEF Before
      <3> QED BY <1>3, <3>1, <3>2 DEF HonestLinks
    <2> QED BY <2>1, <2>2
  <1>9. HonestLinks(u)
    BY <1>6, <1>8 DEF HonestLinks
  <1> QED BY <1>1, <1>3, <1>5, <1>6, <1>7, <1>9

LEMMA PrefixTransitive ==
  ASSUME NEW t, NEW u, NEW w, Len(t) \in Nat, Len(u) \in Nat, Len(w) \in Nat, Prefix(t, u), Prefix(u, w)
  PROVE  Prefix(t, w)
  BY DEF Prefix

LEMMA FlowInvInit == FlowsInit => FlowInv
  <1> SUFFICES ASSUME FlowsInit PROVE FlowInv
    OBVIOUS
  <1>1. HonestLinks(<< >>) /\ Len(<< >>) = 0
    <2>1. << >> \in Seq({})
      OBVIOUS
    <2> QED BY <2>1 DEF HonestLinks
  <1> QED BY <1>1, FlowsConstants DEF FlowInv, FlowsInit

LEMMA ContinueFlow ==
  ASSUME FlowInv, NEW e \in {1, 3, 9}, NEW p, Continue(e, p)
  PROVE  FlowInv'
  <1>1. /\ chain' = Append(chain, Continuation(TheFlow, Len(chain), e, p, ChainHead(TheFlow, chain)))
        /\ Len(chain) < MaxLinks /\ UNCHANGED <<sealed, marks>>
    BY DEF Continue
  <1>2. HonestLinks(chain)
    BY DEF FlowInv
  <1>3. HonestLinks(chain') /\ Len(chain') = Len(chain) + 1 /\ Prefix(chain, chain')
    BY <1>1, <1>2, HonestAppend
  <1>4. Len(chain) \in Nat /\ Len(chain') \in Nat /\ MaxLinks \in Nat
    BY <1>2, <1>3, HonestSeq, FlowsConstants
  <1>5. \A t : HonestLinks(t) /\ Prefix(t, chain) => Prefix(t, chain')
    <2> SUFFICES ASSUME NEW t, HonestLinks(t), Prefix(t, chain) PROVE Prefix(t, chain')
      OBVIOUS
    <2>1. Len(t) \in Nat
      BY HonestSeq
    <2> QED BY <1>3, <1>4, <2>1, PrefixTransitive
  <1>6. Len(chain') <= MaxLinks
    BY <1>1, <1>3, <1>4
  <1>7. \A seal \in sealed' :
          /\ HonestLinks(seal.over) /\ Prefix(seal.over, chain')
          /\ seal.open = TheFlow /\ seal.head = ChainHead(TheFlow, seal.over)
    BY <1>1, <1>5 DEF FlowInv
  <1>8. \A mark \in marks' :
          /\ HonestLinks(mark.over) /\ Prefix(mark.over, chain') /\ mark.over # << >>
          /\ mark.open = TheFlow /\ mark.head = Last(mark.over) /\ mark.through = Len(mark.over) - 1
    BY <1>1, <1>5 DEF FlowInv
  <1> QED BY <1>3, <1>6, <1>7, <1>8 DEF FlowInv

LEMMA ItsOwnPrefix == ASSUME NEW t, HonestLinks(t) PROVE Prefix(t, t)
  BY HonestSeq DEF Prefix

LEMMA SignFlowCommitFlow ==
  ASSUME FlowInv, NEW by, NEW fields, SignFlowCommit(by, fields)
  PROVE  FlowInv'
  <1>1. /\ sealed' = sealed \cup {[by |-> by, fields |-> fields, open |-> TheFlow,
                                   head |-> ChainHead(TheFlow, chain), over |-> chain]}
        /\ UNCHANGED <<chain, marks>>
    BY DEF SignFlowCommit
  <1>2. HonestLinks(chain) /\ Prefix(chain, chain)
    BY ItsOwnPrefix DEF FlowInv
  <1>3. ASSUME NEW seal \in sealed'
        PROVE  /\ HonestLinks(seal.over) /\ Prefix(seal.over, chain)
               /\ seal.open = TheFlow /\ seal.head = ChainHead(TheFlow, seal.over)
    <2>1. CASE seal \in sealed
      BY <2>1 DEF FlowInv
    <2>2. CASE seal = [by |-> by, fields |-> fields, open |-> TheFlow,
                       head |-> ChainHead(TheFlow, chain), over |-> chain]
      BY <1>2, <2>2
    <2> QED BY <1>1, <2>1, <2>2
  <1> QED BY <1>1, <1>3 DEF FlowInv

LEMMA MakeCheckpointFlow ==
  ASSUME FlowInv, MakeCheckpoint
  PROVE  FlowInv'
  <1>1. /\ chain # << >> /\ UNCHANGED <<chain, sealed>>
        /\ marks' = marks \cup {[open |-> TheFlow, through |-> Len(chain) - 1, head |-> Last(chain), over |-> chain]}
    BY DEF MakeCheckpoint
  <1>2. HonestLinks(chain) /\ Prefix(chain, chain)
    BY ItsOwnPrefix DEF FlowInv
  <1>3. ASSUME NEW mark \in marks'
        PROVE  /\ HonestLinks(mark.over) /\ Prefix(mark.over, chain) /\ mark.over # << >>
               /\ mark.open = TheFlow /\ mark.head = Last(mark.over) /\ mark.through = Len(mark.over) - 1
    <2>1. CASE mark \in marks
      BY <2>1 DEF FlowInv
    <2>2. CASE mark = [open |-> TheFlow, through |-> Len(chain) - 1, head |-> Last(chain), over |-> chain]
      BY <1>1, <1>2, <2>2
    <2> QED BY <1>1, <2>1, <2>2
  <1> QED BY <1>1, <1>3 DEF FlowInv

LEMMA FlowInvStays ==
  ASSUME FlowInv, UNCHANGED <<chain, sealed, marks>>
  PROVE  FlowInv'
  BY DEF FlowInv

\* verify_chain passes a list when every link of it passes.
LEMMA ChainOk ==
  ASSUME NEW t, Len(t) \in Nat, DOMAIN t = 1..Len(t)
  PROVE  VerifyChain(TheFlow, t) = "ok" <=>
           \A i \in 1..Len(t) : VerifyContinuation(t[i], TheFlow, Before(t, i), i - 1) = "ok"
  <1> DEFINE bad == {i \in DOMAIN t : VerifyContinuation(t[i], TheFlow, Before(t, i), i - 1) # "ok"}
             first == CHOOSE k \in bad : \A l \in bad : k <= l
  <1>1. VerifyChain(TheFlow, t) =
          IF bad = {} THEN "ok" ELSE VerifyContinuation(t[first], TheFlow, Before(t, first), first - 1)
    BY Zenon DEF VerifyChain, Before
  <1>2. CASE bad = {}
    BY <1>1, <1>2
  <1>3. CASE bad # {}
    <2>1. bad \in SUBSET Nat
      OBVIOUS
    <2>2. \E k \in bad : \A l \in bad : k <= l
      <3> HIDE DEF bad
      <3> QED BY <1>3, <2>1, LeastOf
    <2>3. first \in bad
      <3> HIDE DEF bad
      <3> QED BY <2>2, Zenon
    <2>4. VerifyContinuation(t[first], TheFlow, Before(t, first), first - 1) # "ok" /\ first \in 1..Len(t)
      <3> HIDE DEF first
      <3> QED BY <2>3
    <2> HIDE DEF first
    <2>5. VerifyChain(TheFlow, t) # "ok"
      BY <1>1, <1>3, <2>4, Zenon
    <2> QED BY <2>4, <2>5
  <1> QED BY <1>2, <1>3

\* An honest chain passes when none of its effects is above the ceiling.
LEMMA HonestOk ==
  ASSUME NEW t, HonestLinks(t)
  PROVE  VerifyChain(TheFlow, t) = "ok" <=> \A i \in 1..Len(t) : t[i].effect <= TheFlow.ceiling
  <1>1. Len(t) \in Nat /\ DOMAIN t = 1..Len(t)
    BY HonestSeq
  <1>2. TheFlow.ceiling = 2
    BY DEF TheFlow, FlowOpen
  <1>3. ASSUME NEW i \in 1..Len(t)
        PROVE  VerifyContinuation(t[i], TheFlow, Before(t, i), i - 1) = "ok" <=> t[i].effect <= TheFlow.ceiling
    <2>1. t[i].effect \in {1, 3, 9}
      BY DEF HonestLinks
    <2>2. t[i].open = TheFlow /\ t[i].seq = i - 1 /\ t[i].prev = Before(t, i)
      BY HonestLink
    <2>3. VerifyContinuation(t[i], TheFlow, Before(t, i), i - 1) =
            IF ~InLattice(TheFlow.ceiling) \/ ~InLattice(t[i].effect) THEN "RangeError"
            ELSE IF ~Authorizes(TheFlow.ceiling, t[i].effect) THEN "AboveCeiling" ELSE "ok"
      BY <2>2 DEF VerifyContinuation
    <2>4. PICK e \in {1, 3, 9} : e = t[i].effect
      BY <2>1
    <2>5. VerifyContinuation(t[i], TheFlow, Before(t, i), i - 1) =
            IF ~InLattice(2) \/ ~InLattice(e) THEN "RangeError"
            ELSE IF ~Authorizes(2, e) THEN "AboveCeiling" ELSE "ok"
      BY <1>2, <2>3, <2>4
    <2> QED BY <1>2, <2>4, <2>5 DEF InLattice, Authorizes, DESTRUCTIVE
  <1> QED BY <1>1, <1>3, ChainOk

\* One head, one history: two lists of links that pass under one head are one.
LEMMA OneHistory ==
  ASSUME NEW t, HonestLinks(t), NEW S, NEW u \in Seq(S), \A i \in 1..Len(u) : DOMAIN u[i] = LinkFields,
         VerifyChain(TheFlow, u) = "ok", ChainHead(TheFlow, u) = ChainHead(TheFlow, t)
  PROVE  u = t
  <1>1. Len(t) \in Nat /\ t = [i \in 1..Len(t) |-> t[i]] /\ DOMAIN t = 1..Len(t)
    BY HonestSeq
  <1>2. Len(u) \in Nat /\ DOMAIN u = 1..Len(u) /\ u = [i \in 1..Len(u) |-> u[i]]
    OBVIOUS
  <1>3. \A i \in 1..Len(t) : /\ DOMAIN t[i] = LinkFields /\ t[i].seq = i - 1 /\ t[i].prev = Before(t, i)
    BY HonestLink
  <1>4. \A i \in 1..Len(u) : u[i].seq = i - 1 /\ u[i].prev = Before(u, i)
    <2>1. \A i \in 1..Len(u) : VerifyContinuation(u[i], TheFlow, Before(u, i), i - 1) = "ok"
      BY <1>2, ChainOk
    <2> QED BY <2>1 DEF VerifyContinuation
  <1>5. DOMAIN TheFlow # LinkFields
    <2>1. "flow" \in DOMAIN TheFlow
      BY DEF TheFlow, FlowOpen
    <2> QED BY <2>1 DEF LinkFields
  <1>6. CASE u = << >> /\ t = << >>
    BY <1>6
  <1>7. CASE u = << >> /\ t # << >>
    <2>1. TheFlow = t[Len(t)]
      BY <1>7 DEF ChainHead, Last
    <2>2. Len(t) \in 1..Len(t)
      BY <1>1, <1>7
    <2> QED BY <1>3, <1>5, <2>1, <2>2
  <1>8. CASE u # << >> /\ t = << >>
    <2>1. TheFlow = u[Len(u)]
      BY <1>8 DEF ChainHead, Last
    <2>2. Len(u) \in 1..Len(u)
      BY <1>2, <1>8
    <2> QED BY <1>5, <2>1, <2>2
  <1>9. CASE u # << >> /\ t # << >>
    <2>1. u[Len(u)] = t[Len(t)]
      BY <1>9 DEF ChainHead, Last
    <2>2. Len(u) \in 1..Len(u) /\ Len(t) \in 1..Len(t)
      BY <1>1, <1>2, <1>9
    <2>3. PICK N \in Nat : N = Len(u) /\ N = Len(t) /\ N >= 1
      <3>1. Len(u) - 1 = Len(t) - 1
        BY <1>3, <1>4, <2>1, <2>2
      <3> QED BY <1>1, <1>2, <2>2, <3>1
    <2> DEFINE G == {k \in 0..(N - 1) : u[N - k] = t[N - k]}
    <2>4. 0 \in G
      BY <2>1, <2>3
    <2>5. ASSUME NEW k \in 0..(N - 1), k < N - 1, k \in G PROVE k + 1 \in G
      <3>1. /\ N - k \in 1..N /\ N - k # 1 /\ (N - k) - 1 = N - (k + 1) /\ k + 1 \in 0..(N - 1)
        BY <2>5
      <3>2. u[N - k].prev = u[N - (k + 1)]
        BY <1>4, <2>3, <3>1 DEF Before
      <3>3. t[N - k].prev = t[N - (k + 1)]
        BY <1>3, <2>3, <3>1 DEF Before
      <3>4. u[N - (k + 1)] = t[N - (k + 1)]
        BY <2>5, <3>2, <3>3
      <3> QED BY <3>1, <3>4
    <2>6. \A k \in 0..(N - 1) : k \in G
      <3>1. N - 1 \in Nat
        BY <2>3
      <3> HIDE DEF G
      <3> QED BY <2>4, <2>5, <3>1, AllUpTo
    <2>7. ASSUME NEW i \in 1..N PROVE u[i] = t[i]
      <3>1. N - i \in 0..(N - 1) /\ N - (N - i) = i
        OBVIOUS
      <3>2. u[N - (N - i)] = t[N - (N - i)]
        BY <2>6, <3>1
      <3> QED BY <3>1, <3>2
    <2> QED BY <1>1, <1>2, <2>3, <2>7
  <1> QED BY <1>6, <1>7, <1>8, <1>9

LEMMA FlowSafe == FlowInv => FlowsExact
  <1> SUFFICES ASSUME FlowInv PROVE FlowsExact
    OBVIOUS
  <1> DEFINE links == ToSet(chain)
             forged == {[c EXCEPT !.effect = 0] : c \in links} \cup {[c EXCEPT !.seq = @ + 1] : c \in links}
                         \cup {[c EXCEPT !.open = OtherFlow] : c \in links}
             offered == SeqOf(links \cup forged, MaxLinks)
             verdict == VerifyChain(TheFlow, chain)
  <1>1. HonestLinks(chain) /\ Len(chain) \in Nat /\ DOMAIN chain = 1..Len(chain) /\ Len(chain) <= MaxLinks
    BY HonestSeq DEF FlowInv
  <1>2. \A c \in links : DOMAIN c = LinkFields
    <2> SUFFICES ASSUME NEW i \in 1..Len(chain) PROVE DOMAIN chain[i] = LinkFields
      BY <1>1 DEF ToSet
    <2> QED BY <1>1, HonestLink
  <1>3. \A c \in forged : DOMAIN c = LinkFields
    BY <1>2
  <1>4. \A u \in offered : u \in Seq(links \cup forged) /\ \A i \in 1..Len(u) : DOMAIN u[i] = LinkFields
    <2> HIDE DEF links, forged
    <2> SUFFICES ASSUME NEW u \in offered
                 PROVE  u \in Seq(links \cup forged) /\ \A i \in 1..Len(u) : DOMAIN u[i] = LinkFields
      OBVIOUS
    <2>1. PICK n \in 0..MaxLinks : u \in [1..n -> links \cup forged]
      BY DEF SeqOf
    <2>2. n \in Nat
      BY FlowsConstants
    <2>3. u \in Seq(links \cup forged) /\ Len(u) = n
      BY <2>1, <2>2
    <2>4. \A i \in 1..n : u[i] \in links \cup forged
      BY <2>1
    <2> QED BY <1>2, <1>3, <2>3, <2>4
  <1> HIDE DEF links, forged, offered, verdict
  <1>5. ASSUME NEW seal \in sealed, NEW conts \in offered, VerifyFlowCommit(seal, "owner", TheFlow, conts) = "ok"
        PROVE  seal.by = "owner" /\ conts = seal.over
    <2>1. HonestLinks(seal.over) /\ seal.open = TheFlow /\ seal.head = ChainHead(TheFlow, seal.over)
      BY DEF FlowInv
    <2>2. seal.by = "owner" /\ VerifyChain(TheFlow, conts) = "ok" /\ seal.head = ChainHead(TheFlow, conts)
      BY <1>5, <2>1 DEF VerifyFlowCommit
    <2> QED BY <1>4, <2>1, <2>2, OneHistory
  <1>6. ASSUME NEW mark \in marks, NEW conts \in offered, VerifyMark(mark, TheFlow, conts) = "ok"
        PROVE  conts = mark.over
    <2>1. HonestLinks(mark.over) /\ mark.open = TheFlow /\ mark.head = Last(mark.over) /\ mark.over # << >>
      BY DEF FlowInv
    <2>2. VerifyChain(TheFlow, conts) = "ok" /\ mark.head = ChainHead(TheFlow, conts)
      BY <1>6, <2>1 DEF VerifyMark
    <2>3. mark.head = ChainHead(TheFlow, mark.over)
      BY <2>1 DEF ChainHead
    <2> QED BY <1>4, <2>1, <2>2, <2>3, OneHistory
  <1>7. verdict = "ok" <=> \A c \in links : c.effect <= TheFlow.ceiling
    <2>1. verdict = "ok" <=> \A i \in 1..Len(chain) : chain[i].effect <= TheFlow.ceiling
      BY <1>1, HonestOk DEF verdict
    <2>2. links = {chain[i] : i \in 1..Len(chain)}
      BY <1>1 DEF links, ToSet
    <2> QED BY <2>1, <2>2
  <1>8. \A t : HonestLinks(t) /\ Prefix(t, chain) /\ verdict = "ok" => VerifyChain(TheFlow, t) = "ok"
    <2> SUFFICES ASSUME NEW t, HonestLinks(t), Prefix(t, chain), verdict = "ok" PROVE VerifyChain(TheFlow, t) = "ok"
      OBVIOUS
    <2>1. \A i \in 1..Len(chain) : chain[i].effect <= TheFlow.ceiling
      BY <1>1, HonestOk DEF verdict
    <2>2. Len(t) \in Nat
      BY HonestSeq
    <2>3. \A i \in 1..Len(t) : t[i].effect <= TheFlow.ceiling
      BY <1>1, <2>1, <2>2 DEF Prefix
    <2> QED BY <2>3, HonestOk
  <1>9. ASSUME verdict = "ok", NEW seal \in sealed, seal.by = "owner", seal.fields = {1, 2}
        PROVE  VerifyFlowCommit(seal, "owner", TheFlow, seal.over) = "ok"
    <2>1. /\ HonestLinks(seal.over) /\ Prefix(seal.over, chain)
          /\ seal.open = TheFlow /\ seal.head = ChainHead(TheFlow, seal.over)
      BY DEF FlowInv
    <2>2. VerifyChain(TheFlow, seal.over) = "ok"
      BY <1>8, <1>9, <2>1
    <2> QED BY <1>9, <2>1, <2>2 DEF VerifyFlowCommit
  <1>10. ASSUME verdict = "ok", NEW mark \in marks PROVE VerifyMark(mark, TheFlow, mark.over) = "ok"
    <2>1. /\ HonestLinks(mark.over) /\ Prefix(mark.over, chain) /\ mark.over # << >>
          /\ mark.open = TheFlow /\ mark.head = Last(mark.over) /\ mark.through = Len(mark.over) - 1
      BY DEF FlowInv
    <2>2. VerifyChain(TheFlow, mark.over) = "ok" /\ mark.head = ChainHead(TheFlow, mark.over)
      BY <1>8, <1>10, <2>1 DEF ChainHead
    <2>3. Len(mark.over) \in Nat /\ Len(mark.over) <= Len(chain)
      BY <2>1, HonestSeq DEF Prefix
    <2>4. MaxLinks \in Nat /\ MaxU64 \in Nat /\ MaxLinks <= MaxU64
      BY FlowsConstants
    <2>5. mark.through # MaxU64 /\ Len(mark.over) = mark.through + 1
      BY <1>1, <2>1, <2>3, <2>4
    <2> QED BY <2>1, <2>2, <2>5 DEF VerifyMark
  <1> QED BY <1>5, <1>6, <1>7, <1>9, <1>10 DEF FlowsExact, links, forged, offered, verdict

(***************************************************************************)
(* Negotiations                                                            *)
(***************************************************************************)
DealInv ==
  /\ IsFiniteSet(msgs) /\ Cardinality(msgs) <= MaxMessages /\ known \subseteq msgs
  /\ \A m \in known : IsRegisteredProfile(m.profile)

LEMMA DealInvInit == FlowsInit => DealInv
  BY FS_EmptySet, FlowsConstants DEF FlowsInit, DealInv

LEMMA NewMessageDeal ==
  ASSUME DealInv, NEW m, NewMessage(m)
  PROVE  DealInv'
  <1>1. msgs' = msgs \cup {m} /\ known' = known /\ Cardinality(msgs) < MaxMessages
    BY DEF NewMessage
  <1>2. IsFiniteSet(msgs) /\ known \subseteq msgs
    BY DEF DealInv
  <1>3. /\ IsFiniteSet(msgs') /\ Cardinality(msgs) \in Nat
        /\ Cardinality(msgs') = Cardinality(msgs) \/ Cardinality(msgs') = Cardinality(msgs) + 1
    BY <1>1, <1>2, FS_AddElement, FS_CardinalityType
  <1>4. Cardinality(msgs') <= MaxMessages
    BY <1>1, <1>3, FlowsConstants
  <1> QED BY <1>1, <1>2, <1>3, <1>4 DEF DealInv

LEMMA LearnDeal ==
  ASSUME DealInv, NEW o, o.body \in msgs, Learn(o)
  PROVE  DealInv'
  <1>1. VerifyMessage(o, "peer") = "ok" /\ known' = known \cup {o.body} /\ msgs' = msgs
    BY DEF Learn
  <1>2. IsRegisteredProfile(o.body.profile)
    BY <1>1 DEF VerifyMessage
  <1> QED BY <1>1, <1>2 DEF DealInv

LEMMA DealInvStays ==
  ASSUME DealInv, UNCHANGED <<msgs, known>>
  PROVE  DealInv'
  BY DEF DealInv

Causes(ids, index) == UNION {ToSet(i.causes) : i \in ids \cap index}
ReachBody(a, index, f, n) == IF n = 0 THEN ToSet(a.causes) ELSE f[n - 1] \cup Causes(f[n - 1], index)
ReachFn(a, index) == CHOOSE f : f = [n \in 0..MaxMessages |-> ReachBody(a, index, f, n)]

LEMMA DescendsIs ==
  ASSUME NEW a, NEW o, NEW index
  PROVE  Descends(a, o, index) <=> o \in ReachFn(a, index)[MaxMessages]
  BY Zenon DEF Descends, ReachFn, ReachBody, Causes

LEMMA ReachFnIs ==
  ASSUME NEW a, NEW index, NEW F, F = ReachFn(a, index)
  PROVE  /\ F[0] = ToSet(a.causes)
         /\ \A n \in 1..MaxMessages : F[n] = F[n - 1] \cup Causes(F[n - 1], index)
  <1>0. PICK N \in Nat : N = MaxMessages
    BY FlowsConstants
  <1>1. PICK V : V = ToSet(a.causes) \cup Causes(index, index)
    OBVIOUS
  <1> DEFINE X == SUBSET V
             st == [p \in (1..N) \X X |-> p[2] \cup Causes(p[2], index)]
  <1>2. \A x : Causes(x, index) \subseteq V
    BY <1>1 DEF Causes
  <1>3. \A x \in X : x \cup Causes(x, index) \in X
    BY <1>2
  <1>4. st \in [(1..N) \X X -> X] /\ \A n \in 1..N, x \in X : st[<<n, x>>] = x \cup Causes(x, index)
    <2> HIDE DEF X
    <2> QED BY <1>3
  <1>5. ToSet(a.causes) \in X
    BY <1>1
  <1>6. PICK g : g \in [0..N -> X] /\ g[0] = ToSet(a.causes) /\ \A n \in 1..N : g[n] = st[<<n, g[n - 1]>>]
    <2> HIDE DEF X, st
    <2>1. PICK b, Y, s : b = ToSet(a.causes) /\ Y = X /\ s = st
      OBVIOUS
    <2>2. b \in Y /\ s \in [(1..N) \X Y -> Y]
      BY <1>4, <1>5, <2>1
    <2>3. PICK g : Solves(g, N, Y, b, s)
      BY <2>2, Iterated, Zenon
    <2> QED BY <2>1, <2>3 DEF Solves
  <1>7. \A n \in 0..N : g[n] = ReachBody(a, index, g, n)
    <2> SUFFICES ASSUME NEW n \in 0..N PROVE g[n] = ReachBody(a, index, g, n)
      OBVIOUS
    <2>1. CASE n = 0
      BY <1>6, <2>1 DEF ReachBody
    <2>2. CASE n # 0
      <3> HIDE DEF X, st
      <3>1. n \in 1..N /\ n - 1 \in 0..N
        BY <2>2
      <3>2. g[n - 1] \in X
        BY <1>6, <3>1
      <3>3. g[n] = g[n - 1] \cup Causes(g[n - 1], index)
        BY <1>4, <1>6, <3>1, <3>2
      <3> QED BY <2>2, <3>3 DEF ReachBody
    <2> QED BY <2>1, <2>2
  <1>8. g = [n \in 0..MaxMessages |-> ReachBody(a, index, g, n)]
    <2> HIDE DEF X
    <2> QED BY <1>0, <1>6, <1>7
  <1>9. F = [n \in 0..MaxMessages |-> ReachBody(a, index, F, n)]
    BY <1>8, Zenon DEF ReachFn
  <1>10. \A n \in 0..N : F[n] = ReachBody(a, index, F, n)
    BY <1>0, <1>9
  <1>11. F[0] = ToSet(a.causes)
    <2>1. 0 \in 0..N
      OBVIOUS
    <2> QED BY <1>10, <2>1 DEF ReachBody
  <1>12. ASSUME NEW n \in 1..N PROVE F[n] = F[n - 1] \cup Causes(F[n - 1], index)
    <2>1. n \in 0..N /\ n # 0
      OBVIOUS
    <2> QED BY <1>10, <2>1 DEF ReachBody
  <1> QED BY <1>0, <1>11, <1>12

\* A walk of L messages from a to x, each but the last in the index.
Walk(p, L, a, x, index) ==
  /\ L >= 2 /\ p = [i \in 1..L |-> p[i]] /\ p[1] = a /\ p[L] = x
  /\ \A i \in 1..(L - 1) : p[i] \in index /\ p[i + 1] \in ToSet(p[i].causes)

LEMMA ReachedByWalk ==
  ASSUME NEW index, NEW a \in index, NEW x, Descends(a, x, index)
  PROVE  \E L \in Nat : \E p : Walk(p, L, a, x, index)
  <1>0. PICK N \in Nat : N = MaxMessages
    BY FlowsConstants
  <1>1. PICK F : F = ReachFn(a, index)
    OBVIOUS
  <1>2. F[0] = ToSet(a.causes) /\ \A n \in 1..N : F[n] = F[n - 1] \cup Causes(F[n - 1], index)
    BY <1>0, <1>1, ReachFnIs
  <1> DEFINE Reachable(y) == \E L \in Nat : \E p : Walk(p, L, a, y, index)
             G == {n \in 0..N : \A y \in F[n] : Reachable(y)}
  <1>3. 0 \in G
    <2> SUFFICES ASSUME NEW y \in F[0] PROVE Reachable(y)
      OBVIOUS
    <2>1. PICK p : p = [i \in 1..2 |-> IF i = 1 THEN a ELSE y]
      OBVIOUS
    <2>2. p[1] = a /\ p[2] = y /\ y \in ToSet(a.causes)
      BY <1>2, <2>1
    <2>3. p = [i \in 1..2 |-> p[i]]
      BY <2>1
    <2>4. \A i \in 1..(2 - 1) : i = 1
      OBVIOUS
    <2>5. Walk(p, 2, a, y, index)
      BY <2>2, <2>3, <2>4 DEF Walk
    <2> QED BY <2>5
  <1>4. ASSUME NEW n \in 0..N, n < N, n \in G PROVE n + 1 \in G
    <2>1. n + 1 \in 1..N /\ n + 1 \in 0..N /\ (n + 1) - 1 = n
      BY <1>4
    <2>2. F[n + 1] = F[n] \cup Causes(F[n], index)
      BY <1>2, <2>1
    <2>3. ASSUME NEW y \in Causes(F[n], index) PROVE Reachable(y)
      <3>1. PICK m \in F[n] \cap index : y \in ToSet(m.causes)
        BY <2>3 DEF Causes
      <3>0. PICK L \in Nat : \E p : Walk(p, L, a, m, index)
        BY <1>4, <3>1
      <3>2. PICK p : Walk(p, L, a, m, index)
        BY <3>0
      <3>3. /\ L >= 2 /\ p = [i \in 1..L |-> p[i]] /\ p[1] = a /\ p[L] = m
            /\ \A i \in 1..(L - 1) : p[i] \in index /\ p[i + 1] \in ToSet(p[i].causes)
        BY <3>2 DEF Walk
      <3>4. PICK r : r = [i \in 1..(L + 1) |-> IF i = L + 1 THEN y ELSE p[i]]
        OBVIOUS
      <3>5. r[L + 1] = y /\ \A i \in 1..L : r[i] = p[i]
        BY <3>4
      <3>6. ASSUME NEW i \in 1..L PROVE r[i] \in index /\ r[i + 1] \in ToSet(r[i].causes)
        <4>1. CASE i = L
          BY <3>1, <3>3, <3>5, <4>1
        <4>2. CASE i # L
          <5>1. i \in 1..(L - 1) /\ i + 1 \in 1..L
            BY <4>2
          <5> QED BY <3>3, <3>5, <5>1
        <4> QED BY <4>1, <4>2
      <3>7. L + 1 >= 2 /\ (L + 1) - 1 = L /\ 1 \in 1..L /\ L + 1 \in Nat
        BY <3>3
      <3>8. r[1] = a /\ r = [i \in 1..(L + 1) |-> r[i]]
        BY <3>3, <3>4, <3>5, <3>7
      <3>9. Walk(r, L + 1, a, y, index)
        BY <3>5, <3>6, <3>7, <3>8 DEF Walk
      <3> QED BY <3>7, <3>9
    <2>4. \A y \in F[n + 1] : Reachable(y)
      BY <1>4, <2>2, <2>3
    <2> QED BY <2>1, <2>4
  <1>5. N \in G
    <2> HIDE DEF G
    <2>1. \A k \in 0..N : k \in G
      BY <1>3, <1>4, AllUpTo
    <2> QED BY <2>1
  <1>6. x \in F[N]
    BY <1>0, <1>1, DescendsIs
  <1> QED BY <1>5, <1>6

LEMMA WalkReaches ==
  ASSUME NEW index, NEW a, NEW x, NEW L \in Nat, L <= MaxMessages, NEW p, Walk(p, L, a, x, index)
  PROVE  Descends(a, x, index)
  <1>0. PICK N \in Nat : N = MaxMessages
    BY FlowsConstants
  <1>1. PICK F : F = ReachFn(a, index)
    OBVIOUS
  <1>2. F[0] = ToSet(a.causes) /\ \A n \in 1..N : F[n] = F[n - 1] \cup Causes(F[n - 1], index)
    BY <1>0, <1>1, ReachFnIs
  <1>3. /\ L >= 2 /\ L <= N /\ p[1] = a /\ p[L] = x
        /\ \A i \in 1..(L - 1) : p[i] \in index /\ p[i + 1] \in ToSet(p[i].causes)
    BY <1>0 DEF Walk
  <1> DEFINE G == {k \in 0..N : IF k <= L - 2 THEN p[k + 2] \in F[k] ELSE x \in F[k]}
  <1>4. 0 \in G
    <2>1. 1 \in 1..(L - 1) /\ 0 <= L - 2 /\ 0 \in 0..N
      BY <1>3
    <2>2. p[0 + 2] \in F[0]
      BY <1>2, <1>3, <2>1
    <2> QED BY <2>1, <2>2
  <1>5. ASSUME NEW k \in 0..N, k < N, k \in G PROVE k + 1 \in G
    <2>1. k + 1 \in 1..N /\ k + 1 \in 0..N /\ (k + 1) - 1 = k
      BY <1>5
    <2>2. F[k + 1] = F[k] \cup Causes(F[k], index)
      BY <1>2, <2>1
    <2>3. CASE k + 1 <= L - 2
      <3>1. k <= L - 2 /\ k + 2 \in 1..(L - 1) /\ (k + 2) + 1 = (k + 1) + 2
        BY <1>3, <2>3
      <3>2. p[k + 2] \in F[k] /\ p[k + 2] \in index /\ p[(k + 2) + 1] \in ToSet(p[k + 2].causes)
        BY <1>3, <1>5, <3>1
      <3>3. p[(k + 1) + 2] \in F[k + 1]
        BY <2>2, <3>1, <3>2 DEF Causes
      <3> QED BY <2>1, <2>3, <3>3
    <2>4. CASE ~(k + 1 <= L - 2)
      <3>1. x \in F[k]
        <4>1. CASE k = L - 2
          <5>1. k + 2 = L /\ k <= L - 2
            BY <1>3, <4>1
          <5> QED BY <1>3, <1>5, <5>1
        <4>2. CASE k # L - 2
          <5>1. ~(k <= L - 2)
            BY <1>3, <2>4, <4>2
          <5> QED BY <1>5, <5>1
        <4> QED BY <4>1, <4>2
      <3>2. x \in F[k + 1]
        BY <2>2, <3>1
      <3> QED BY <2>1, <2>4, <3>2
    <2> QED BY <2>3, <2>4
  <1>6. N \in G
    <2> HIDE DEF G
    <2>1. \A k \in 0..N : k \in G
      BY <1>4, <1>5, AllUpTo
    <2> QED BY <2>1
  <1>7. ~(N <= L - 2)
    BY <1>3
  <1>8. x \in F[N]
    BY <1>6, <1>7
  <1> QED BY <1>0, <1>1, <1>8, DescendsIs

\* The shortest walk visits no message twice, so it fits into the index.
LEMMA ShortestWalk ==
  ASSUME NEW index, IsFiniteSet(index), NEW a, NEW x \in index, a # x,
         \E L \in Nat : \E p : Walk(p, L, a, x, index)
  PROVE  \E L \in Nat : \E p : Walk(p, L, a, x, index) /\ p \in [1..L -> index] /\ L <= Cardinality(index)
  <1> DEFINE T == {L \in Nat : \E p : Walk(p, L, a, x, index)}
  <1>1. T \in SUBSET Nat /\ T # {}
    OBVIOUS
  <1>2. PICK L \in T : \A l \in T : L <= l
    <2> HIDE DEF T
    <2> QED BY <1>1, LeastOf
  <1>3. PICK p : Walk(p, L, a, x, index)
    BY <1>2
  <1>4. /\ L \in Nat /\ L >= 2 /\ p = [i \in 1..L |-> p[i]] /\ p[1] = a /\ p[L] = x
        /\ \A i \in 1..(L - 1) : p[i] \in index /\ p[i + 1] \in ToSet(p[i].causes)
    BY <1>2, <1>3 DEF Walk
  <1>5. p \in [1..L -> index]
    <2>1. \A i \in 1..L : i = L \/ i \in 1..(L - 1)
      BY <1>4
    <2>2. \A i \in 1..L : p[i] \in index
      BY <1>4, <2>1
    <2> QED BY <1>4, <2>2
  <1>6. ASSUME NEW i \in 1..L, NEW j \in 1..L, i < j, p[i] = p[j] PROVE FALSE
    <2>1. PICK d \in Nat : d = j - i /\ d >= 1
      BY <1>4, <1>6
    <2>2. PICK M \in Nat : M = L - d /\ M >= 1 /\ M < L
      BY <1>4, <2>1
    <2>3. M # 1
      <3> SUFFICES ASSUME M = 1 PROVE FALSE
        OBVIOUS
      <3>1. i = 1 /\ j = L
        BY <1>4, <2>1, <2>2
      <3> QED BY <1>4, <1>6, <3>1
    <2>4. PICK r : r = [k \in 1..M |-> IF k <= i THEN p[k] ELSE p[k + d]]
      OBVIOUS
    <2>5. \A k \in 1..M : r[k] = IF k <= i THEN p[k] ELSE p[k + d]
      BY <2>4
    <2>6. r[1] = a
      <3>1. 1 \in 1..M /\ 1 <= i
        BY <2>2
      <3> QED BY <1>4, <2>5, <3>1
    <2>7. r[M] = x
      <3>1. CASE M <= i
        <4>1. M = i /\ j = L
          BY <1>4, <2>1, <2>2, <3>1
        <4> QED BY <1>4, <1>6, <2>2, <2>5, <4>1
      <3>2. CASE ~(M <= i)
        <4>1. M + d = L /\ M \in 1..M
          BY <1>4, <2>1, <2>2
        <4> QED BY <1>4, <2>5, <3>2, <4>1
      <3> QED BY <3>1, <3>2
    <2>8. ASSUME NEW k \in 1..(M - 1) PROVE r[k] \in index /\ r[k + 1] \in ToSet(r[k].causes)
      <3>1. k \in 1..M /\ k + 1 \in 1..M
        BY <2>2
      <3>2. CASE k < i
        <4>1. k <= i /\ k + 1 <= i /\ k \in 1..(L - 1)
          BY <1>4, <2>2, <3>2
        <4> QED BY <1>4, <2>5, <3>1, <4>1
      <3>3. CASE k = i
        <4>1. k <= i /\ ~(k + 1 <= i) /\ j \in 1..(L - 1) /\ (k + 1) + d = j + 1
          <5>1. j = i + d /\ j \in Nat /\ i \in Nat
            BY <2>1
          <5>2. i <= (L - d) - 1
            BY <1>4, <2>1, <2>2, <3>3
          <5> QED BY <1>4, <2>1, <3>3, <5>1, <5>2
        <4>2. r[k] = p[i] /\ r[k + 1] = p[j + 1]
          BY <2>5, <3>1, <3>3, <4>1
        <4> QED BY <1>4, <1>6, <4>1, <4>2
      <3>4. CASE k > i
        <4>1. ~(k <= i) /\ ~(k + 1 <= i) /\ k + d \in 1..(L - 1) /\ (k + 1) + d = (k + d) + 1
          BY <1>4, <2>1, <2>2, <3>4
        <4>2. r[k] = p[k + d] /\ r[k + 1] = p[(k + d) + 1]
          BY <2>5, <3>1, <4>1
        <4> QED BY <1>4, <4>1, <4>2
      <3> QED BY <3>2, <3>3, <3>4
    <2>9. r = [k \in 1..M |-> r[k]] /\ M >= 2
      BY <2>2, <2>3, <2>4
    <2>10. Walk(r, M, a, x, index)
      BY <2>6, <2>7, <2>8, <2>9 DEF Walk
    <2>11. M \in T
      BY <2>10
    <2> QED BY <1>2, <1>4, <2>2, <2>11
  <1>7. L <= Cardinality(index)
    <2>1. \A i, j \in 1..L : p[i] = p[j] => i = j
      <3> SUFFICES ASSUME NEW i \in 1..L, NEW j \in 1..L, p[i] = p[j], i # j PROVE FALSE
        OBVIOUS
      <3>1. i < j \/ j < i
        OBVIOUS
      <3> QED BY <1>6, <3>1
    <2>2. p \in Injection(1..L, index)
      BY <1>5, <2>1 DEF Injection, IsInjective
    <2>3. Cardinality(1..L) <= Cardinality(index)
      BY <2>2, FS_Injection
    <2>4. Cardinality(1..L) = L
      BY <1>4, FS_Interval
    <2> QED BY <2>3, <2>4
  <1> QED BY <1>3, <1>4, <1>5, <1>7

LEMMA DealSafe == DealInv => AcceptHasPath
  <1> SUFFICES ASSUME DealInv, NEW accept \in known, NEW offer \in known
               PROVE  VerifyAccept(accept, offer, known) = "ok" <=>
                        /\ accept.role = ACCEPT /\ offer.role = OFFER
                        /\ \E path \in SeqOf(known, MaxMessages) :
                             /\ Len(path) > 1 /\ path[1] = accept /\ Last(path) = offer
                             /\ \A i \in 1..(Len(path) - 1) : path[i + 1] \in ToSet(path[i].causes)
    BY DEF AcceptHasPath
  <1>0. /\ IsFiniteSet(known) /\ Cardinality(known) <= MaxMessages /\ MaxMessages \in Nat
        /\ Cardinality(known) \in Nat
    <2>1. IsFiniteSet(msgs) /\ Cardinality(msgs) <= MaxMessages /\ known \in SUBSET msgs
      BY DEF DealInv
    <2>2. IsFiniteSet(known) /\ Cardinality(known) <= Cardinality(msgs)
      BY <2>1, FS_Subset
    <2>3. Cardinality(known) \in Nat /\ Cardinality(msgs) \in Nat
      BY <2>1, <2>2, FS_CardinalityType
    <2> QED BY <2>1, <2>2, <2>3, FlowsConstants
  <1>1. VerifyAccept(accept, offer, known) = "ok" <=>
          accept.role = ACCEPT /\ offer.role = OFFER /\ Descends(accept, offer, known)
    <2>1. IsRegisteredProfile(accept.profile) /\ IsRegisteredProfile(offer.profile)
      BY DEF DealInv
    <2> QED BY <2>1 DEF VerifyAccept
  <1>2. ASSUME accept.role = ACCEPT, offer.role = OFFER, Descends(accept, offer, known)
        PROVE  \E path \in SeqOf(known, MaxMessages) :
                 /\ Len(path) > 1 /\ path[1] = accept /\ Last(path) = offer
                 /\ \A i \in 1..(Len(path) - 1) : path[i + 1] \in ToSet(path[i].causes)
    <2>1. accept # offer
      BY <1>2 DEF ACCEPT, OFFER
    <2>2. \E L \in Nat : \E p : Walk(p, L, accept, offer, known)
      BY <1>2, ReachedByWalk
    <2>0. PICK L \in Nat : \E p : Walk(p, L, accept, offer, known) /\ p \in [1..L -> known] /\ L <= Cardinality(known)
      BY <1>0, <2>1, <2>2, ShortestWalk
    <2>3. PICK p : Walk(p, L, accept, offer, known) /\ p \in [1..L -> known] /\ L <= Cardinality(known)
      BY <2>0
    <2>4. L \in 0..MaxMessages /\ Len(p) = L
      BY <1>0, <2>3
    <2>5. p \in SeqOf(known, MaxMessages)
      BY <2>3, <2>4 DEF SeqOf
    <2>6. /\ L >= 2 /\ p[1] = accept /\ p[L] = offer
          /\ \A i \in 1..(L - 1) : p[i + 1] \in ToSet(p[i].causes)
      BY <2>3 DEF Walk
    <2>7. Len(p) > 1 /\ Last(p) = offer
      BY <2>4, <2>6 DEF Last
    <2> QED BY <2>4, <2>5, <2>6, <2>7
  <1>3. ASSUME NEW path \in SeqOf(known, MaxMessages), Len(path) > 1, path[1] = accept, Last(path) = offer,
               \A i \in 1..(Len(path) - 1) : path[i + 1] \in ToSet(path[i].causes)
        PROVE  Descends(accept, offer, known)
    <2>1. PICK L \in 0..MaxMessages : path \in [1..L -> known]
      BY DEF SeqOf
    <2>2. L \in Nat /\ L <= MaxMessages /\ Len(path) = L
      BY <1>0, <2>1
    <2>3. L >= 2 /\ path[L] = offer /\ path = [i \in 1..L |-> path[i]]
      BY <1>3, <2>1, <2>2 DEF Last
    <2>4. \A i \in 1..(L - 1) : path[i] \in known
      BY <2>1, <2>2
    <2>5. Walk(path, L, accept, offer, known)
      BY <1>3, <2>2, <2>3, <2>4 DEF Walk
    <2> QED BY <2>2, <2>5, WalkReaches
  <1> QED BY <1>1, <1>2, <1>3

(***************************************************************************)
(* Labels                                                                  *)
(***************************************************************************)
LEMMA LabelsInit == FlowsInit => LabelsFailClosed
  BY DEF FlowsInit, NoLabeled, LabelsFailClosed

LEMMA AcceptLabeledSafe ==
  ASSUME NEW o, AcceptLabeled(o)
  PROVE  LabelsFailClosed'
  <1>1. PICK ls : ls = o.labels
    OBVIOUS
  <1>2. /\ ValidateLabels(ls).verdict = "ok"
        /\ labeled' = [obj |-> o, recognized |-> ValidateLabels(ls).recognized, class |-> EffectClass(o)]
    BY <1>1 DEF AcceptLabeled
  <1>3. \A i \in DOMAIN ls : ~(ls[i].code \notin RISK_VOCAB /\ ls[i].critical = 1)
    BY <1>2 DEF ValidateLabels
  <1>4. ValidateLabels(ls).recognized = {l \in ToSet(ls) : l.code \in RISK_VOCAB}
    BY DEF ValidateLabels
  <1>5. \A i \in DOMAIN ls : ls[i].critical = 1 => ls[i] \in ValidateLabels(ls).recognized
    BY <1>3, <1>4 DEF ToSet
  <1>6. EffectClass(o) >= o.effect \/ EffectClass(o) = DESTRUCTIVE
    BY DEF EffectClass, NormalizeEffect, DESTRUCTIVE
  <1>7. labeled'.obj = o /\ labeled'.recognized = ValidateLabels(ls).recognized /\ labeled'.class = EffectClass(o)
    BY <1>2
  <1> QED BY <1>1, <1>5, <1>6, <1>7 DEF LabelsFailClosed

LEMMA LabelsStay ==
  ASSUME LabelsFailClosed, UNCHANGED labeled
  PROVE  LabelsFailClosed'
  BY DEF LabelsFailClosed

(***************************************************************************)
(* The three exchanges together                                            *)
(***************************************************************************)
FlowsInv == StreamInv /\ FlowInv /\ DealInv /\ LabelsFailClosed

\* The steps of the three exchanges.
StreamStep ==
  \E s \in Streams :
    \/ \E effect \in {0, 2, 3, 7} : GuardOpen(s, effect)
    \/ \E data \in Pieces : Produce(s, data)
    \/ \E c \in Arriving(s) : GuardChunk(s, c)
    \/ SignCommit(s) \/ StoreChunk(s) \/ GuardCommit(s) \/ GuardExpire(s)
FlowStep == (\E e \in {1, 3, 9}, p \in {"x", "y"} : Continue(e, p)) \/ (\E by, fields : SignFlowCommit(by, fields)) \/ MakeCheckpoint
Arrived(m, by, fields) == [by |-> by, fields |-> fields, body |-> m]
DealStep ==
  \/ (\E m : NewMessage(m)) \/ (\E o : AcceptLabeled(o))
  \/ \E m \in msgs, by \in {"peer", "other"}, fields \in {1..3, 1..4} : Learn(Arrived(m, by, fields))

LEMMA FlowsSteps == FlowsNext => StreamStep \/ FlowStep \/ DealStep
  BY Zenon DEF FlowsNext, StreamStep, FlowStep, DealStep, Arrived, NewOffer, NewCounter, NewAccept

LEMMA FlowsInvNext ==
  ASSUME FlowsInv, [FlowsNext]_flowvars
  PROVE  FlowsInv'
  <1> USE DEF FlowsInv
  <1>1. ASSUME NEW s \in Streams, NEW e, GuardOpen(s, e) PROVE FlowsInv'
    <2>1. UNCHANGED <<chain, sealed, marks, msgs, known, labeled>>
      BY <1>1 DEF GuardOpen, StreamFrame
    <2> QED BY <1>1, <2>1, GuardOpenStream, FlowInvStays, DealInvStays, LabelsStay
  <1>2. ASSUME NEW s \in Streams, NEW d \in Pieces, Produce(s, d) PROVE FlowsInv'
    <2>1. UNCHANGED <<chain, sealed, marks, msgs, known, labeled>>
      BY <1>2 DEF Produce, StreamFrame
    <2> QED BY <1>2, <2>1, ProduceStream, FlowInvStays, DealInvStays, LabelsStay
  <1>3. ASSUME NEW s \in Streams, NEW c \in Arriving(s), GuardChunk(s, c) PROVE FlowsInv'
    <2>1. UNCHANGED <<chain, sealed, marks, msgs, known, labeled>>
      BY <1>3 DEF GuardChunk, StreamFrame
    <2> QED BY <1>3, <2>1, GuardChunkStream, FlowInvStays, DealInvStays, LabelsStay
  <1>4. ASSUME NEW s \in Streams, SignCommit(s) PROVE FlowsInv'
    <2>1. UNCHANGED <<chain, sealed, marks, msgs, known, labeled>>
      BY <1>4 DEF SignCommit, StreamFrame
    <2> QED BY <1>4, <2>1, SignCommitStream, FlowInvStays, DealInvStays, LabelsStay
  <1>5. ASSUME NEW s \in Streams, StoreChunk(s) PROVE FlowsInv'
    <2>1. UNCHANGED <<chain, sealed, marks, msgs, known, labeled>>
      BY <1>5 DEF StoreChunk, StreamFrame
    <2> QED BY <1>5, <2>1, StoreChunkStream, FlowInvStays, DealInvStays, LabelsStay
  <1>6. ASSUME NEW s \in Streams, GuardCommit(s) PROVE FlowsInv'
    <2>1. UNCHANGED <<chain, sealed, marks, msgs, known, labeled>>
      BY <1>6 DEF GuardCommit, StreamFrame
    <2> QED BY <1>6, <2>1, GuardCommitStream, FlowInvStays, DealInvStays, LabelsStay
  <1>7. ASSUME NEW s \in Streams, GuardExpire(s) PROVE FlowsInv'
    <2>1. UNCHANGED <<chain, sealed, marks, msgs, known, labeled>>
      BY <1>7 DEF GuardExpire, StreamFrame
    <2> QED BY <1>7, <2>1, GuardExpireStream, FlowInvStays, DealInvStays, LabelsStay
  <1>8. ASSUME NEW e \in {1, 3, 9}, NEW p, Continue(e, p) PROVE FlowsInv'
    <2>1. UNCHANGED <<guard, sent, commit, held, passed, settled, msgs, known, labeled>>
      BY <1>8 DEF Continue, FlowFrame
    <2> QED BY <1>8, <2>1, ContinueFlow, StreamInvStays, DealInvStays, LabelsStay DEF streamvars
  <1>9. ASSUME NEW by, NEW fields, SignFlowCommit(by, fields) PROVE FlowsInv'
    <2>1. UNCHANGED <<guard, sent, commit, held, passed, settled, msgs, known, labeled>>
      BY <1>9 DEF SignFlowCommit, FlowFrame
    <2> QED BY <1>9, <2>1, SignFlowCommitFlow, StreamInvStays, DealInvStays, LabelsStay DEF streamvars
  <1>10. CASE MakeCheckpoint
    <2>1. UNCHANGED <<guard, sent, commit, held, passed, settled, msgs, known, labeled>>
      BY <1>10 DEF MakeCheckpoint, FlowFrame
    <2> QED BY <1>10, <2>1, MakeCheckpointFlow, StreamInvStays, DealInvStays, LabelsStay DEF streamvars
  <1>11. ASSUME NEW m, NewMessage(m) PROVE FlowsInv'
    <2>1. UNCHANGED <<guard, sent, commit, held, passed, settled, chain, sealed, marks, labeled>>
      BY <1>11 DEF NewMessage, DealFrame
    <2> QED BY <1>11, <2>1, NewMessageDeal, StreamInvStays, FlowInvStays, LabelsStay DEF streamvars
  <1>12. ASSUME NEW m \in msgs, NEW by, NEW fields, Learn(Arrived(m, by, fields)) PROVE FlowsInv'
    <2>1. UNCHANGED <<guard, sent, commit, held, passed, settled, chain, sealed, marks, labeled>>
      BY <1>12 DEF Learn, DealFrame
    <2>2. Arrived(m, by, fields).body \in msgs
      BY DEF Arrived
    <2> QED BY <1>12, <2>1, <2>2, LearnDeal, StreamInvStays, FlowInvStays, LabelsStay DEF streamvars
  <1>13. ASSUME NEW o, AcceptLabeled(o) PROVE FlowsInv'
    <2>1. UNCHANGED <<guard, sent, commit, held, passed, settled, chain, sealed, marks, msgs, known>>
      BY <1>13 DEF AcceptLabeled, DealFrame
    <2> QED BY <1>13, <2>1, AcceptLabeledSafe, StreamInvStays, FlowInvStays, DealInvStays DEF streamvars
  <1>14. CASE UNCHANGED flowvars
    <2>1. UNCHANGED <<guard, sent, commit, held, passed, settled, chain, sealed, marks, msgs, known, labeled>>
      BY <1>14 DEF flowvars
    <2> QED BY <2>1, StreamInvStays, FlowInvStays, DealInvStays, LabelsStay DEF streamvars
  <1> HIDE DEF FlowsInv
  <1>15. CASE StreamStep
    BY <1>1, <1>2, <1>3, <1>4, <1>5, <1>6, <1>7, <1>15, Zenon DEF StreamStep
  <1>16. CASE FlowStep
    BY <1>8, <1>9, <1>10, <1>16, Zenon DEF FlowStep
  <1>17. CASE DealStep
    BY <1>11, <1>12, <1>13, <1>17, Zenon DEF DealStep
  <1> QED BY <1>14, <1>15, <1>16, <1>17, FlowsSteps, Zenon

\* One signature at the end of a stream, a flow or a deal speaks for everything
\* before it, whatever the network did to the unsigned parts, for any number of
\* chunks, links and messages (verify_commit, verify_flow_commit, verify_accept).
THEOREM FlowsTheorem == FlowsSpec => []FlowsAsSigned
  <1>1. FlowsInit => FlowsInv
    BY StreamInvInit, FlowInvInit, DealInvInit, LabelsInit DEF FlowsInv
  <1>2. FlowsInv /\ [FlowsNext]_flowvars => FlowsInv'
    BY FlowsInvNext
  <1>3. FlowsInv => FlowsAsSigned
    BY StreamSafe, FlowSafe, DealSafe DEF FlowsInv, FlowsAsSigned
  <1> QED BY <1>1, <1>2, <1>3, PTL DEF FlowsSpec

\* A stream that is committed or abandoned stays so, and what it was committed
\* with stays what it is (streaming.Guard).
THEOREM TerminalTheorem == FlowsSpec => TerminalIsFinal
  <1>1. ASSUME StreamInv, [FlowsNext]_flowvars
        PROVE  [\A s \in Streams : guard[s] \in {"committed", "abandoned"} =>
                  guard'[s] = guard[s] /\ settled'[s] = settled[s]]_flowvars
    <2> SUFFICES ASSUME FlowsNext, NEW r \in Streams, guard[r] \in {"committed", "abandoned"}
                 PROVE  guard'[r] = guard[r] /\ settled'[r] = settled[r]
      BY <1>1
    <2>1. DOMAIN guard = Streams /\ DOMAIN settled = Streams
      BY <1>1 DEF StreamInv
    <2>2. ASSUME NEW s \in Streams, NEW e, GuardOpen(s, e) PROVE guard'[r] = guard[r] /\ settled'[r] = settled[r]
      BY <2>1, <2>2 DEF GuardOpen
    <2>3. ASSUME NEW s \in Streams, GuardCommit(s) PROVE guard'[r] = guard[r] /\ settled'[r] = settled[r]
      BY <2>1, <2>3 DEF GuardCommit
    <2>4. ASSUME NEW s \in Streams, GuardExpire(s) PROVE guard'[r] = guard[r] /\ settled'[r] = settled[r]
      BY <2>1, <2>4 DEF GuardExpire
    <2>5. ASSUME NEW s \in Streams, NEW d, Produce(s, d) PROVE guard'[r] = guard[r] /\ settled'[r] = settled[r]
      BY <2>5 DEF Produce
    <2>6. ASSUME NEW s \in Streams, NEW c, GuardChunk(s, c) PROVE guard'[r] = guard[r] /\ settled'[r] = settled[r]
      BY <2>6 DEF GuardChunk
    <2>7. ASSUME NEW s \in Streams, SignCommit(s) \/ StoreChunk(s)
          PROVE  guard'[r] = guard[r] /\ settled'[r] = settled[r]
      BY <2>7 DEF SignCommit, StoreChunk
    <2>8. ASSUME FlowFrame PROVE guard'[r] = guard[r] /\ settled'[r] = settled[r]
      BY <2>8 DEF FlowFrame
    <2>9. ASSUME DealFrame PROVE guard'[r] = guard[r] /\ settled'[r] = settled[r]
      BY <2>9 DEF DealFrame
    <2>10. CASE StreamStep
      BY <2>2, <2>3, <2>4, <2>5, <2>6, <2>7, <2>10, Zenon DEF StreamStep
    <2>11. CASE FlowStep
      BY <2>8, <2>11, Zenon DEF FlowStep, Continue, SignFlowCommit, MakeCheckpoint
    <2>12. CASE DealStep
      BY <2>9, <2>12, Zenon DEF DealStep, NewMessage, Learn, AcceptLabeled
    <2> QED BY <2>10, <2>11, <2>12, FlowsSteps
  <1>2. FlowsInit => FlowsInv
    BY StreamInvInit, FlowInvInit, DealInvInit, LabelsInit DEF FlowsInv
  <1>3. FlowsInv /\ [FlowsNext]_flowvars => FlowsInv'
    BY FlowsInvNext
  <1>4. FlowsInv => StreamInv
    BY DEF FlowsInv
  <1> QED BY <1>1, <1>2, <1>3, <1>4, PTL DEF FlowsSpec, TerminalIsFinal

(***************************************************************************)
(* The check before sending                                                *)
(***************************************************************************)
\* What the peer checks of an object that was signed as it stands.
PeerChecks(o) ==
  IF o.big                          THEN "TooLarge"
  ELSE IF ObjectFromMap(o) # "ok"   THEN ObjectFromMap(o)
  ELSE IF IsRotation(o)             THEN "RotationUnauthorized"
  ELSE IF o.channel > MAX_CHANNEL \/ o.effect > DE \/ o.profile \notin 1..3 THEN "RangeError"
  ELSE IF CheckCritical(o) # "ok"   THEN CheckCritical(o)
  ELSE IF ~Lookup(o.channel, o.kind) THEN "UnknownKind"
  ELSE IF o.suite # 0               THEN "SuiteMismatch"
  ELSE "ok"

LEMMA PeerIs == ASSUME NEW c PROVE PeerSays(c) = PeerChecks(SealedObject(c))
  <1>1. PICK o : o = SealedObject(c)
    OBVIOUS
  <1>2. o.signer = "a"
    BY <1>1 DEF SealedObject
  <1>3. PICK h : h = ProtectedHeader(KEYS["a1"], o)
    OBVIOUS
  <1>4. h.alg = KEYS["a1"] /\ h.signer = o.signer /\ h.profile = o.profile /\ h.version = Version
    BY <1>3 DEF ProtectedHeader
  <1>5. PICK p : p = Payload(o)
    OBVIOUS
  <1>6. p.obj = o /\ p.id = o
    BY <1>5 DEF Payload
  <1>7. TbsOf(SignPure(o, "a1"), 1) = Sign1Tbs(h, p)
    <2>1. PICK act : act = SignPure(o, "a1")
      OBVIOUS
    <2>2. act.form = "pure" /\ act.header = h /\ act.payload = p
      BY <1>3, <1>5, <2>1 DEF SignPure
    <2> QED BY <2>1, <2>2 DEF TbsOf
  <1>8. PICK msg : msg = [tag |-> 18, header |-> h, payload |-> p, sigs |-> <<[key |-> "a1", tbs |-> Sign1Tbs(h, p)]>>]
    OBVIOUS
  <1>9. /\ msg.tag = 18 /\ msg.header = h /\ msg.payload = p
        /\ msg.sigs[1] = [key |-> "a1", tbs |-> Sign1Tbs(h, p)]
    BY <1>8
  <1>10. PeerSays(c) = Verify(PROFILE.public, <<"a1">>, msg)
    BY <1>1, <1>3, <1>5, <1>7, <1>8 DEF PeerSays
  <1>11. CheckObject(msg, FALSE) =
           IF o.big                          THEN "TooLarge"
           ELSE IF ObjectFromMap(o) # "ok"   THEN ObjectFromMap(o)
           ELSE IF IsRotation(o)             THEN "RotationUnauthorized"
           ELSE IF o.channel > MAX_CHANNEL \/ o.effect > DE \/ o.profile \notin 1..3 THEN "RangeError"
           ELSE IF CheckCritical(o) # "ok"   THEN CheckCritical(o)
           ELSE IF ~Lookup(o.channel, o.kind) THEN "UnknownKind"
           ELSE "ok"
    BY <1>4, <1>6, <1>9 DEF CheckObject, ParseSign1
  <1>12. KEYS["a1"] = -49 /\ -49 # COMPOSITE /\ -49 \in Registered
    BY DEF KEYS, ALG, COMPOSITE, Registered
  <1>13. ~(AlgLevel(-49) < ProfileMinLevel(PROFILE.public))
    BY DEF AlgLevel, ALG, ProfileMinLevel, PROFILE
  <1>14. Verifies(msg.sigs[1], "a1", Sign1Tbs(h, p))
    BY <1>9 DEF Verifies
  <1>15. PICK ks : ks = <<"a1">>
    OBVIOUS
  <1>16. Len(ks) = 1 /\ ks[1] = "a1"
    BY <1>15
  <1>17. Verify(PROFILE.public, ks, msg) =
           IF CheckObject(msg, FALSE) # "ok" THEN CheckObject(msg, FALSE)
           ELSE IF o.suite # 0 THEN "SuiteMismatch" ELSE "ok"
    BY <1>4, <1>6, <1>9, <1>12, <1>13, <1>14, <1>16 DEF Verify
  <1>18. Verify(PROFILE.public, ks, msg) = PeerChecks(o)
    <2>1. CASE o.big
      BY <1>11, <1>17, <2>1 DEF PeerChecks
    <2>2. CASE ~o.big
      BY <1>11, <1>17, <2>2 DEF PeerChecks, ObjectFromMap, CheckCritical
    <2> QED BY <2>1, <2>2
  <1> QED BY <1>1, <1>10, <1>15, <1>18

LEMMA SealedIs ==
  ASSUME NEW c, NEW o, o = SealedObject(c)
  PROVE  /\ o.channel = c.channel /\ o.kind = c.kind /\ o.effect = c.effect /\ o.profile = c.profile
         /\ o.ext = c.ext /\ o.cext = c.cext /\ o.causes = c.causes /\ o.suite = c.suite
         /\ o.big <=> (SignedSize(c) > MAX_OBJECT_SIZE \/ c.deep)
  BY DEF SealedObject

\* A candidate an agent can fill in.
Candidate(c) ==
  /\ UintFields \cup {"size"} \subseteq DOMAIN c
  /\ c.size \in Nat /\ \A f \in UintFields : c[f] \in Nat \cup {Bad}

\* What validate() found when it found nothing.
LEMMA AllowedIs ==
  ASSUME NEW c, Candidate(c), NEW self, Validate(c, self) = {}
  PROVE  /\ Mistyped(c) = {} /\ ~(c.size > MAX_OBJECT_SIZE) /\ ~c.deep
         /\ ~(c.channel > MAX_CHANNEL) /\ ~(c.effect > DE) /\ c.profile \in 1..3
         /\ ~(c.causes > MAX_CAUSES) /\ ~(Len(c.ext) > MAX_EXT) /\ ~(Len(c.cext) > MAX_EXT)
         /\ Lookup(c.channel, c.kind)
  <1>1. Mistyped(c) = {} /\ OutOfBounds(c) = {} /\ Registry(c) = {} /\ Encoded(c) = {}
    BY DEF Validate
  <1>2. \A f \in UintFields \cup {"audience", "causes", "ext", "cext"} : c[f] # Bad
    BY <1>1 DEF Mistyped
  <1>3. /\ c.channel # Bad /\ c.kind # Bad /\ c.effect # Bad /\ c.profile # Bad /\ c.causes # Bad
        /\ c["ext"] # Bad /\ c["cext"] # Bad
    BY <1>2 DEF UintFields
  <1>4. ~(c.channel > MAX_CHANNEL) /\ ~(c.effect > DE) /\ c.profile \in 1..3 /\ ~(c.causes > MAX_CAUSES)
    BY <1>1, <1>3 DEF OutOfBounds, TooMany
  <1>5. ~(Len(c.ext) > MAX_EXT) /\ ~(Len(c.cext) > MAX_EXT)
    <2>1. {g \in {"ext", "cext"} : c[g] # Bad /\ TooMany(Len(c[g]), MAX_EXT)} = {}
      BY <1>1 DEF OutOfBounds
    <2>2. \A g \in {"ext", "cext"} : ~(c[g] # Bad /\ TooMany(Len(c[g]), MAX_EXT))
      BY <2>1
    <2> QED BY <1>3, <2>2 DEF TooMany
  <1>6. ~(c.size > MAX_OBJECT_SIZE) /\ ~c.deep
    BY <1>1 DEF Encoded
  <1>7. Lookup(c.channel, c.kind)
    <2>1. c.channel \in Nat
      BY <1>3 DEF Candidate, UintFields
    <2>2. c.channel <= MAX_CHANNEL
      BY <1>4, <2>1 DEF MAX_CHANNEL
    <2> QED BY <1>1, <1>3, <2>2 DEF Registry, OnSurface
  <1> QED BY <1>1, <1>4, <1>5, <1>6, <1>7

\* What the hook said is about the candidate as it stands, and so is the answer.
PreInv ==
  /\ Candidate(outgoing)
  /\ decision = Unasked \/ \E self \in {"", "ledger"} : decision = Validate(outgoing, self)
  /\ answer # "" => decision = {} /\ answer = PeerSays(outgoing)

LEMMA PreInvInit == PreInit => PreInv
  BY PreSendConstants DEF PreInit, PreInv, Candidate

LEMMA PreInvNext ==
  ASSUME PreInv, [PreNext]_prevars
  PROVE  PreInv'
  <1>1. ASSUME NEW f \in DOMAIN Fillings, NEW v \in Fillings[f], Fill(f, v) PROVE PreInv'
    <2>1. outgoing' = [outgoing EXCEPT ![f] = v] /\ decision' = Unasked /\ answer' = answer /\ answer = ""
      BY <1>1 DEF Fill
    <2>2. Candidate(outgoing)
      BY DEF PreInv
    <2>3. "size" \notin UintFields
      BY DEF UintFields
    <2>4. DOMAIN outgoing' = DOMAIN outgoing
      BY <2>1
    <2>5. outgoing'["size"] \in Nat
      BY <2>1, <2>2, PreSendConstants DEF Candidate
    <2>6. \A g \in UintFields : outgoing'[g] \in Nat \cup {Bad}
      BY <2>1, <2>2, PreSendConstants DEF Candidate
    <2>7. Candidate(outgoing')
      BY <2>2, <2>4, <2>5, <2>6 DEF Candidate
    <2> QED BY <2>1, <2>7 DEF PreInv
  <1>2. ASSUME NEW self \in {"", "ledger"}, PreSendHook(self) PROVE PreInv'
    BY <1>2 DEF PreInv, PreSendHook
  <1>3. CASE SignAndSend
    BY <1>3 DEF PreInv, SignAndSend
  <1>4. CASE UNCHANGED prevars
    BY <1>4 DEF PreInv, prevars
  <1> QED BY <1>1, <1>2, <1>3, <1>4 DEF PreNext

\* One byte more still fits, or the size is the limit.
LEMMA JustFits ==
  ASSUME NEW n \in Nat
  PROVE  /\ n + 1 > 2 /\ ~(n > 2) => n = 2
         /\ ~(n + 1 > 2) => ~(n > 2)
  OBVIOUS

LEMMA EmptyHasNoPlace == DOMAIN << >> = {}
  <1>1. << >> \in Seq({}) /\ Len(<< >>) = 0
    BY EmptySeq
  <1>2. DOMAIN << >> = 1..0
    BY <1>1, LenProperties
  <1> QED BY <1>2

LEMMA PreSafe == PreInv => FirewallMatchesPeer
  <1> SUFFICES ASSUME PreInv PROVE FirewallMatchesPeer
    OBVIOUS
  <1>1. PICK c : c = outgoing
    OBVIOUS
  <1>2. PICK o : o = SealedObject(c)
    OBVIOUS
  <1>3. /\ o.channel = c.channel /\ o.kind = c.kind /\ o.effect = c.effect /\ o.profile = c.profile
        /\ o.ext = c.ext /\ o.cext = c.cext /\ o.causes = c.causes /\ o.suite = c.suite
    BY <1>2, SealedIs
  <1>4. o.big <=> (SignedSize(c) > MAX_OBJECT_SIZE \/ c.deep)
    BY <1>2, SealedIs
  <1>5. PeerSays(c) = PeerChecks(o)
    BY <1>2, PeerIs
  <1>6. Candidate(c)
    BY <1>1 DEF PreInv
  <1>7. AllowedIsAccepted
    <2> SUFFICES ASSUME answer # ""
                 PROVE  \/ answer = "ok"
                        \/ answer = "RotationUnauthorized" /\ IsRotation(c)
                        \/ answer \in {"UnknownCriticalExt", "Malformed"} /\ c.cext # << >>
                        \/ answer = "SuiteMismatch" /\ c.suite # 0
                        \/ answer = "TooLarge" /\ c.size = MAX_OBJECT_SIZE
      BY <1>1 DEF AllowedIsAccepted
    <2>1. decision = {} /\ answer = PeerChecks(o)
      BY <1>1, <1>5 DEF PreInv
    <2>2. {} # Unasked
      BY DEF Unasked
    <2>3. PICK self : Validate(c, self) = {}
      BY <1>1, <2>1, <2>2 DEF PreInv
    <2>4. /\ ~(c.size > MAX_OBJECT_SIZE) /\ ~c.deep
          /\ ~(c.channel > MAX_CHANNEL) /\ ~(c.effect > DE) /\ c.profile \in 1..3
          /\ ~(c.causes > MAX_CAUSES) /\ ~(Len(c.ext) > MAX_EXT) /\ ~(Len(c.cext) > MAX_EXT)
          /\ Lookup(c.channel, c.kind)
      BY <1>6, <2>3, AllowedIs
    <2>5. CASE o.big
      <3>1. answer = "TooLarge"
        BY <2>1, <2>5 DEF PeerChecks
      <3>2. c.size + 1 > 2 /\ ~(c.size > 2) /\ c.size \in Nat
        BY <1>4, <1>6, <2>4, <2>5 DEF Candidate, SignedSize, MAX_OBJECT_SIZE
      <3>3. c.size = MAX_OBJECT_SIZE
        <4>1. PICK n \in Nat : n = c.size
          BY <3>2
        <4>2. n + 1 > 2 /\ ~(n > 2)
          BY <3>2, <4>1
        <4>3. n = 2
          BY <4>1, <4>2, JustFits, Zenon
        <4> QED BY <4>1, <4>3 DEF MAX_OBJECT_SIZE
      <3> QED BY <3>1, <3>3
    <2>6. CASE ~o.big
      <3>1. ObjectFromMap(o) = "ok"
        BY <1>3, <2>4 DEF ObjectFromMap
      <3>2. IsRotation(o) <=> IsRotation(c)
        BY <1>3 DEF IsRotation
      <3>3. answer = IF IsRotation(o) THEN "RotationUnauthorized"
                     ELSE IF CheckCritical(o) # "ok" THEN CheckCritical(o)
                     ELSE IF o.suite # 0 THEN "SuiteMismatch" ELSE "ok"
        BY <1>3, <2>1, <2>4, <2>6, <3>1 DEF PeerChecks
      <3>4. /\ CheckCritical(o) \in {"ok", "UnknownCriticalExt", "Malformed"}
            /\ CheckCritical(o) # "ok" => c.cext # << >>
        <4>1. CheckCritical(o) \in {"ok", "UnknownCriticalExt", "Malformed"}
          BY DEF CheckCritical
        <4>2. CheckCritical(o) # "ok" => \E i \in DOMAIN o.cext : TRUE
          BY DEF CheckCritical
        <4>3. DOMAIN << >> = {}
          BY EmptyHasNoPlace, Zenon
        <4> QED BY <1>3, <4>1, <4>2, <4>3
      <3> QED BY <1>3, <3>2, <3>3, <3>4
    <2> QED BY <2>5, <2>6
  <1>8. DeniedForCause
    <2> SUFFICES ASSUME decision # Unasked, decision # {}, Mistyped(c) = {}, PeerSays(c) = "ok",
                        CheckEffect(c.channel, c.kind, c.effect) = "ok",
                        ~(<<c.channel, c.kind>> \in CONSUME_ONCE_KINDS /\ c.audience = ""),
                        c.audience \in {"", "ledger"}
                 PROVE  FALSE
      BY <1>1 DEF DeniedForCause
    <2>1. PICK self \in {"", "ledger"} : decision = Validate(c, self)
      BY <1>1 DEF PreInv
    <2>2. PeerChecks(o) = "ok"
      BY <1>5
    <2>3. ~o.big /\ ObjectFromMap(o) = "ok"
      BY <2>2 DEF PeerChecks
    <2>4. /\ ~(o.channel > MAX_CHANNEL) /\ ~(o.effect > DE) /\ o.profile \in 1..3 /\ Lookup(o.channel, o.kind)
      <3>1. CheckCritical(o) \in {"ok", "UnknownCriticalExt", "Malformed"}
        BY DEF CheckCritical
      <3> QED BY <2>2, <2>3, <3>1 DEF PeerChecks
    <2>5. ~(c.causes > MAX_CAUSES) /\ ~(Len(c.ext) > MAX_EXT) /\ ~(Len(c.cext) > MAX_EXT)
      BY <1>3, <2>3 DEF ObjectFromMap
    <2>6. OutOfBounds(c) = {}
      <3>1. \A g \in {"ext", "cext"} : ~TooMany(Len(c[g]), MAX_EXT)
        BY <2>5 DEF TooMany
      <3>2. ~TooMany(c.causes, MAX_CAUSES)
        BY <2>5 DEF TooMany
      <3> QED BY <1>3, <2>4, <3>1, <3>2 DEF OutOfBounds
    <2>7. Registry(c) = {}
      BY <1>3, <2>4 DEF Registry
    <2>8. Encoded(c) = {}
      <3>1. ~c.deep /\ ~(c.size + 1 > 2) /\ c.size \in Nat
        BY <1>4, <1>6, <2>3 DEF Candidate, SignedSize, MAX_OBJECT_SIZE
      <3>2. ~(c.size > MAX_OBJECT_SIZE)
        <4>1. PICK n \in Nat : n = c.size
          BY <3>1
        <4>2. ~(n + 1 > 2)
          BY <3>1, <4>1
        <4>3. ~(n > 2)
          BY <4>1, <4>2, JustFits, Zenon
        <4> QED BY <4>1, <4>3 DEF MAX_OBJECT_SIZE
      <3> QED BY <3>1, <3>2 DEF Encoded
    <2>9. AudienceRule(c, self) = {}
      BY <2>1 DEF AudienceRule
    <2> QED BY <2>1, <2>6, <2>7, <2>8, <2>9 DEF Validate
  <1> QED BY <1>7, <1>8 DEF FirewallMatchesPeer

\* The firewall judges as the peer will, whatever candidates are filled in:
\* what it lets through is accepted, what it stops would not be, up to the
\* named differences (validator.validate, pre_send_hook).
THEOREM FirewallTheorem == PreSpec => []FirewallMatchesPeer
  <1>1. PreInv /\ [PreNext]_prevars => PreInv'
    BY PreInvNext
  <1> QED BY PreInvInit, <1>1, PreSafe, PTL DEF PreSpec

(***************************************************************************)
(* Annotations                                                             *)
(***************************************************************************)
HoldsEntry(m, key, v) == \E i \in DOMAIN m : m[i] = <<key, v>>

LEMMA KeyedIs ==
  ASSUME NEW m, Keyed(m)
  PROVE  Len(m) \in Nat /\ DOMAIN m = 1..Len(m) /\ DOMAIN m \subseteq Nat
  <1>1. m \in Seq(ToSet(m))
    BY DEF Keyed
  <1> QED BY <1>1, LenProperties

LEMMA ValueIs ==
  ASSUME NEW m, Keyed(m), NEW key, NEW v, HoldsEntry(m, key, v)
  PROVE  At(m, key) # {} /\ ValueAt(m, key) = v
  <1>1. PICK i \in DOMAIN m : m[i] = <<key, v>>
    BY DEF HoldsEntry
  <1>2. At(m, key) = {i}
    BY <1>1 DEF Keyed, At
  <1>3. i \in Nat
    BY KeyedIs
  <1>4. \A k \in At(m, key) : k = i
    BY <1>2
  <1>5. \E k \in At(m, key) : \A j \in At(m, key) : k <= j
    BY <1>2, <1>3
  <1>6. (CHOOSE k \in At(m, key) : \A j \in At(m, key) : k <= j) \in At(m, key)
    BY <1>5
  <1>7. (CHOOSE k \in At(m, key) : \A j \in At(m, key) : k <= j) = i
    BY <1>4, <1>6, Zenon
  <1>8. ValueAt(m, key) = m[i][2]
    BY <1>7, Zenon DEF ValueAt
  <1> QED BY <1>1, <1>2, <1>8

LEMMA UintIs ==
  ASSUME NEW m, Keyed(m), NEW key, NEW v \in Int, HoldsEntry(m, key, v)
  PROVE  GetUint(m, key) = v
  <1>1. v # Bad
    BY EnvelopeConstants
  <1> QED BY <1>1, ValueIs DEF GetUint, IsUint

\* A setter gives its key the value and leaves every other entry where it is.
LEMMA SetEntryIs ==
  ASSUME NEW m, Keyed(m), NEW key, NEW v, NEW s, s = SetEntry(m, key, v)
  PROVE  /\ Keyed(s) /\ HoldsEntry(s, key, v)
         /\ \A i \in DOMAIN m : m[i][1] # key => i \in DOMAIN s /\ s[i] = m[i]
         /\ \A i \in DOMAIN s : s[i][1] # key => i \in DOMAIN m /\ s[i] = m[i]
  <1>1. m \in Seq(ToSet(m))
    BY DEF Keyed
  <1>2. PICK n \in Nat : n = Len(m) /\ DOMAIN m = 1..n
    BY KeyedIs
  <1>3. CASE At(m, key) = {}
    <2>1. s = Append(m, <<key, v>>)
      BY <1>3 DEF SetEntry
    <2>2. m \in Seq(ToSet(m) \cup {<<key, v>>})
      BY <1>1, SeqMonotonic
    <2>3. /\ DOMAIN s = 1..(n + 1) /\ s[n + 1] = <<key, v>> /\ \A i \in 1..n : s[i] = m[i]
          /\ s \in Seq(ToSet(m) \cup {<<key, v>>})
      BY <1>2, <2>1, <2>2, AppendProperties
    <2>4. \A i \in 1..n : m[i][1] # key
      BY <1>2, <1>3 DEF At
    <2>5. \A i \in DOMAIN s : i \in 1..n \/ i = n + 1
      BY <2>3
    <2>6. \A i \in 1..n : i \in DOMAIN s /\ i # n + 1
      BY <2>3
    <2>7. n + 1 \in DOMAIN s /\ s[n + 1][1] = key
      BY <2>3
    <2>8. \A i, j \in DOMAIN s : s[i][1] = s[j][1] => i = j
      BY <1>2, <2>3, <2>4, <2>5, <2>7 DEF Keyed
    <2>9. s \in Seq(ToSet(s))
      <3>1. ToSet(s) = {s[i] : i \in DOMAIN s}
        BY DEF ToSet
      <3>2. Len(s) \in Nat /\ DOMAIN s = 1..Len(s) /\ s = [i \in 1..Len(s) |-> s[i]]
        BY <2>3, LenProperties
      <3>3. \A i \in 1..Len(s) : s[i] \in ToSet(s)
        BY <3>1, <3>2
      <3> QED BY <3>2, <3>3, IsASeq
    <2>10. Keyed(s)
      BY <2>8, <2>9 DEF Keyed
    <2>11. HoldsEntry(s, key, v)
      BY <2>3, <2>7 DEF HoldsEntry
    <2>12. \A i \in DOMAIN m : i \in DOMAIN s /\ s[i] = m[i]
      BY <1>2, <2>3, <2>6
    <2>13. \A i \in DOMAIN s : s[i][1] # key => i \in DOMAIN m /\ s[i] = m[i]
      BY <1>2, <2>3, <2>5, <2>7
    <2> QED BY <2>10, <2>11, <2>12, <2>13
  <1>4. CASE At(m, key) # {}
    <2>1. s = [i \in DOMAIN m |-> IF m[i][1] = key THEN <<key, v>> ELSE m[i]]
      BY <1>4 DEF SetEntry
    <2>2. DOMAIN s = 1..n /\ \A i \in 1..n : s[i] = IF m[i][1] = key THEN <<key, v>> ELSE m[i]
      BY <1>2, <2>1
    <2>3. \A i \in 1..n : s[i][1] = m[i][1]
      BY <2>2
    <2>4. \A i, j \in DOMAIN s : s[i][1] = s[j][1] => i = j
      BY <1>2, <2>2, <2>3 DEF Keyed
    <2>5. s \in Seq(ToSet(s))
      <3>1. ToSet(s) = {s[i] : i \in DOMAIN s}
        BY DEF ToSet
      <3>2. \A i \in 1..n : s[i] \in ToSet(s)
        BY <2>2, <3>1
      <3>3. s = [i \in 1..n |-> s[i]]
        BY <1>2, <2>1
      <3> QED BY <3>2, <3>3, IsASeq
    <2>6. HoldsEntry(s, key, v)
      <3>1. PICK i \in 1..n : m[i][1] = key
        BY <1>2, <1>4 DEF At
      <3>2. i \in DOMAIN s /\ s[i] = <<key, v>>
        BY <2>2, <3>1
      <3> QED BY <3>2 DEF HoldsEntry
    <2> QED BY <1>2, <2>2, <2>3, <2>4, <2>5, <2>6 DEF Keyed
  <1> QED BY <1>3, <1>4

\* The entries nobody sets.
Foreign(m) == {i \in DOMAIN m : m[i][1] \notin {RECHECK_KEY, SIGNER_COUNTER_KEY, PRODUCING_BOUNDARY_KEY}}
SameForeign(m, s) == Foreign(m) = Foreign(s) /\ \A i \in Foreign(m) : s[i] = m[i]

LEMMA SetKeeps ==
  ASSUME NEW m, Keyed(m), NEW key \in {RECHECK_KEY, SIGNER_COUNTER_KEY, PRODUCING_BOUNDARY_KEY},
         NEW v, NEW s, s = SetEntry(m, key, v)
  PROVE  SameForeign(m, s)
  <1>1. /\ \A i \in DOMAIN m : m[i][1] # key => i \in DOMAIN s /\ s[i] = m[i]
        /\ \A i \in DOMAIN s : s[i][1] # key => i \in DOMAIN m /\ s[i] = m[i]
    BY SetEntryIs
  <1> QED BY <1>1 DEF SameForeign, Foreign

LEMMA OthersKept ==
  ASSUME NEW m, Keyed(m), NEW key, NEW v, NEW s, s = SetEntry(m, key, v),
         NEW other, other # key, NEW w, HoldsEntry(m, other, w)
  PROVE  HoldsEntry(s, other, w)
  <1>1. PICK i \in DOMAIN m : m[i] = <<other, w>>
    BY DEF HoldsEntry
  <1>2. m[i][1] # key
    BY <1>1
  <1>3. i \in DOMAIN s /\ s[i] = m[i]
    BY <1>2, SetEntryIs
  <1> QED BY <1>1, <1>3 DEF HoldsEntry

Wishes ==
  [critical : {-1, 1, 4, 5}, recheck : {-1, 1, 4, 5}, counter : {-1, 0, 1}, boundary : Boundaries \cup {NoBoundary}]

DraftOk(d) == {"ext", "cext", "body"} \subseteq DOMAIN d /\ Keyed(d.ext) /\ Keyed(d.cext)
WishesHeld(d, w) ==
  /\ w.critical # -1 => HoldsEntry(d.cext, RECHECK_KEY, w.critical)
  /\ w.recheck # -1 => HoldsEntry(d.ext, RECHECK_KEY, w.recheck)
  /\ w.counter # -1 => HoldsEntry(d.ext, SIGNER_COUNTER_KEY, w.counter)
  /\ w.boundary # NoBoundary => HoldsEntry(d.ext, PRODUCING_BOUNDARY_KEY, BoundaryValue(w.boundary))
FromDraft(d) == \E b \in Drafts : b.body = d.body /\ SameForeign(b.ext, d.ext)

EditInv ==
  /\ role # "edit" => edits = 0
  /\ role = "edit" => DraftOk(draft) /\ wanted \in Wishes /\ WishesHeld(draft, wanted) /\ FromDraft(draft)

LEMMA EditInvInit == EnvInit => EditInv
  <1> SUFFICES ASSUME EnvInit PROVE EditInv
    OBVIOUS
  <1>1. edits = 0 /\ wanted = NoWish
    BY DEF EnvInit
  <1>2. wanted \in Wishes
    BY <1>1 DEF NoWish, Wishes
  <1>3. ASSUME role = "edit" PROVE DraftOk(draft) /\ FromDraft(draft)
    <2>1. draft \in Drafts
      BY <1>3 DEF EnvInit
    <2>2. DraftOk(draft)
      BY <2>1, EnvelopeConstants DEF DraftOk
    <2>3. SameForeign(draft.ext, draft.ext)
      BY DEF SameForeign
    <2> QED BY <2>1, <2>2, <2>3 DEF FromDraft
  <1>4. WishesHeld(draft, wanted)
    BY <1>1 DEF NoWish, WishesHeld
  <1> QED BY <1>1, <1>2, <1>3, <1>4 DEF EditInv


\* Each setter, on the draft and the wishes.
LEMMA SetExt ==
  ASSUME NEW d, DraftOk(d), FromDraft(d), NEW key \in {RECHECK_KEY, SIGNER_COUNTER_KEY, PRODUCING_BOUNDARY_KEY},
         NEW v, NEW e, e = [d EXCEPT !.ext = SetEntry(@, key, v)]
  PROVE  DraftOk(e) /\ FromDraft(e) /\ e.ext = SetEntry(d.ext, key, v) /\ e.cext = d.cext
  <1>1. e.ext = SetEntry(d.ext, key, v) /\ e.cext = d.cext /\ e.body = d.body /\ DOMAIN e = DOMAIN d
    BY DEF DraftOk
  <1>2. PICK s : s = SetEntry(d.ext, key, v)
    OBVIOUS
  <1>3. PICK m : m = d.ext
    OBVIOUS
  <1>4. Keyed(m)
    BY <1>3 DEF DraftOk
  <1>5. Keyed(s) /\ SameForeign(m, s)
    BY <1>2, <1>3, <1>4, SetEntryIs, SetKeeps, Zenon
  <1>6. PICK b \in Drafts : b.body = d.body /\ SameForeign(b.ext, m)
    BY <1>3 DEF FromDraft
  <1>7. SameForeign(b.ext, s)
    BY <1>5, <1>6 DEF SameForeign
  <1>8. FromDraft(e)
    BY <1>1, <1>2, <1>6, <1>7 DEF FromDraft
  <1>9. DraftOk(e)
    BY <1>1, <1>2, <1>5 DEF DraftOk
  <1> QED BY <1>1, <1>8, <1>9

LEMMA SetRecheckEdit ==
  ASSUME EditInv, NEW id \in {1, 4, 5}, NEW critical \in BOOLEAN, SetRecheck(id, critical)
  PROVE  EditInv'
  <1>1. role = "edit" /\ role' = role /\ DraftOk(draft) /\ wanted \in Wishes /\ WishesHeld(draft, wanted)
        /\ FromDraft(draft)
    BY DEF SetRecheck, Editing, EditFrame, EditInv
  <1>2. PICK e, w, d, u : e = draft' /\ w = wanted' /\ d = draft /\ u = wanted
    OBVIOUS
  <1>3. DraftOk(d) /\ u \in Wishes /\ WishesHeld(d, u) /\ FromDraft(d)
    BY <1>1, <1>2
  <1>4. CASE critical
    <2>1. e = [d EXCEPT !.cext = SetEntry(@, RECHECK_KEY, id)] /\ w = [u EXCEPT !.critical = id]
      BY <1>2, <1>4 DEF SetRecheck
    <2>2. e.cext = SetEntry(d.cext, RECHECK_KEY, id) /\ e.ext = d.ext /\ e.body = d.body /\ DOMAIN e = DOMAIN d
      BY <1>3, <2>1 DEF DraftOk
    <2>3. Keyed(e.cext) /\ HoldsEntry(e.cext, RECHECK_KEY, id)
      <3>1. PICK s, m : s = e.cext /\ m = d.cext
        OBVIOUS
      <3>2. Keyed(m) /\ s = SetEntry(m, RECHECK_KEY, id)
        BY <1>3, <2>2, <3>1 DEF DraftOk
      <3>3. Keyed(s) /\ HoldsEntry(s, RECHECK_KEY, id)
        BY <3>2, SetEntryIs, Zenon
      <3> QED BY <3>1, <3>3
    <2>4. DraftOk(e) /\ FromDraft(e)
      BY <1>3, <2>2, <2>3 DEF DraftOk, FromDraft
    <2>5. w \in Wishes
      BY <1>3, <2>1 DEF Wishes
    <2>6. w.critical = id /\ w.recheck = u.recheck /\ w.counter = u.counter /\ w.boundary = u.boundary
      BY <1>3, <2>1 DEF Wishes
    <2>7. WishesHeld(e, w)
      BY <1>3, <2>2, <2>3, <2>6 DEF WishesHeld
    <2> QED BY <1>1, <1>2, <2>4, <2>5, <2>7 DEF EditInv
  <1>5. CASE ~critical
    <2>1. e = [d EXCEPT !.ext = SetEntry(@, RECHECK_KEY, id)] /\ w = [u EXCEPT !.recheck = id]
      BY <1>2, <1>5 DEF SetRecheck
    <2>2. DraftOk(e) /\ FromDraft(e) /\ e.ext = SetEntry(d.ext, RECHECK_KEY, id) /\ e.cext = d.cext
      BY <1>3, <2>1, SetExt
    <2>3. PICK s, m : s = e.ext /\ m = d.ext
      OBVIOUS
    <2>4. Keyed(m) /\ s = SetEntry(m, RECHECK_KEY, id)
      BY <1>3, <2>2, <2>3 DEF DraftOk
    <2>5. HoldsEntry(s, RECHECK_KEY, id)
      BY <2>4, SetEntryIs, Zenon
    <2>6. \A other, x : other # RECHECK_KEY /\ HoldsEntry(m, other, x) => HoldsEntry(s, other, x)
      BY <2>4, OthersKept, Zenon
    <2>7. w \in Wishes
      BY <1>3, <2>1 DEF Wishes
    <2>8. w.recheck = id /\ w.critical = u.critical /\ w.counter = u.counter /\ w.boundary = u.boundary
      BY <1>3, <2>1 DEF Wishes
    <2>9. SIGNER_COUNTER_KEY # RECHECK_KEY /\ PRODUCING_BOUNDARY_KEY # RECHECK_KEY
      BY DEF SIGNER_COUNTER_KEY, RECHECK_KEY, PRODUCING_BOUNDARY_KEY
    <2>10. WishesHeld(e, w)
      BY <1>3, <2>2, <2>3, <2>5, <2>6, <2>8, <2>9 DEF WishesHeld
    <2> QED BY <1>1, <1>2, <2>2, <2>7, <2>10 DEF EditInv
  <1> QED BY <1>4, <1>5

LEMMA SetCounterEdit ==
  ASSUME EditInv, NEW seq \in {0, 1}, SetSignerCounter(seq)
  PROVE  EditInv'
  <1>1. role = "edit" /\ role' = role /\ DraftOk(draft) /\ wanted \in Wishes /\ WishesHeld(draft, wanted)
        /\ FromDraft(draft)
    BY DEF SetSignerCounter, Editing, EditFrame, EditInv
  <1>2. PICK e, w, d, u : e = draft' /\ w = wanted' /\ d = draft /\ u = wanted
    OBVIOUS
  <1>3. DraftOk(d) /\ u \in Wishes /\ WishesHeld(d, u) /\ FromDraft(d)
    BY <1>1, <1>2
  <1>4. e = [d EXCEPT !.ext = SetEntry(@, SIGNER_COUNTER_KEY, seq)] /\ w = [u EXCEPT !.counter = seq]
    BY <1>2 DEF SetSignerCounter
  <1>5. DraftOk(e) /\ FromDraft(e) /\ e.ext = SetEntry(d.ext, SIGNER_COUNTER_KEY, seq) /\ e.cext = d.cext
    BY <1>3, <1>4, SetExt
  <1>6. PICK s, m : s = e.ext /\ m = d.ext
    OBVIOUS
  <1>7. Keyed(m) /\ s = SetEntry(m, SIGNER_COUNTER_KEY, seq)
    BY <1>3, <1>5, <1>6 DEF DraftOk
  <1>8. HoldsEntry(s, SIGNER_COUNTER_KEY, seq)
    BY <1>7, SetEntryIs, Zenon
  <1>9. \A other, x : other # SIGNER_COUNTER_KEY /\ HoldsEntry(m, other, x) => HoldsEntry(s, other, x)
    BY <1>7, OthersKept, Zenon
  <1>10. w \in Wishes
    BY <1>3, <1>4 DEF Wishes
  <1>11. w.counter = seq /\ w.critical = u.critical /\ w.recheck = u.recheck /\ w.boundary = u.boundary
    BY <1>3, <1>4 DEF Wishes
  <1>12. SIGNER_COUNTER_KEY # RECHECK_KEY /\ PRODUCING_BOUNDARY_KEY # SIGNER_COUNTER_KEY
    BY DEF SIGNER_COUNTER_KEY, RECHECK_KEY, PRODUCING_BOUNDARY_KEY
  <1>13. WishesHeld(e, w)
    BY <1>3, <1>5, <1>6, <1>8, <1>9, <1>11, <1>12 DEF WishesHeld
  <1> QED BY <1>1, <1>2, <1>5, <1>10, <1>13 DEF EditInv

LEMMA SetBoundaryEdit ==
  ASSUME EditInv, NEW pb \in Boundaries, SetProducingBoundary(pb)
  PROVE  EditInv'
  <1>1. role = "edit" /\ role' = role /\ DraftOk(draft) /\ wanted \in Wishes /\ WishesHeld(draft, wanted)
        /\ FromDraft(draft)
    BY DEF SetProducingBoundary, Editing, EditFrame, EditInv
  <1>2. PICK e, w, d, u, v : e = draft' /\ w = wanted' /\ d = draft /\ u = wanted /\ v = BoundaryValue(pb)
    OBVIOUS
  <1>3. DraftOk(d) /\ u \in Wishes /\ WishesHeld(d, u) /\ FromDraft(d)
    BY <1>1, <1>2
  <1>4. e = [d EXCEPT !.ext = SetEntry(@, PRODUCING_BOUNDARY_KEY, v)] /\ w = [u EXCEPT !.boundary = pb]
    BY <1>2 DEF SetProducingBoundary
  <1>5. DraftOk(e) /\ FromDraft(e) /\ e.ext = SetEntry(d.ext, PRODUCING_BOUNDARY_KEY, v) /\ e.cext = d.cext
    BY <1>3, <1>4, SetExt
  <1>6. PICK s, m : s = e.ext /\ m = d.ext
    OBVIOUS
  <1>7. Keyed(m) /\ s = SetEntry(m, PRODUCING_BOUNDARY_KEY, v)
    BY <1>3, <1>5, <1>6 DEF DraftOk
  <1>8. HoldsEntry(s, PRODUCING_BOUNDARY_KEY, v)
    BY <1>7, SetEntryIs, Zenon
  <1>9. \A other, x : other # PRODUCING_BOUNDARY_KEY /\ HoldsEntry(m, other, x) => HoldsEntry(s, other, x)
    BY <1>7, OthersKept, Zenon
  <1>10. w \in Wishes
    BY <1>3, <1>4 DEF Wishes
  <1>11. w.boundary = pb /\ w.critical = u.critical /\ w.recheck = u.recheck /\ w.counter = u.counter
    BY <1>3, <1>4 DEF Wishes
  <1>12. PRODUCING_BOUNDARY_KEY # RECHECK_KEY /\ PRODUCING_BOUNDARY_KEY # SIGNER_COUNTER_KEY
    BY DEF SIGNER_COUNTER_KEY, RECHECK_KEY, PRODUCING_BOUNDARY_KEY
  <1>13. WishesHeld(e, w)
    BY <1>2, <1>3, <1>5, <1>6, <1>8, <1>9, <1>11, <1>12 DEF WishesHeld
  <1> QED BY <1>1, <1>2, <1>5, <1>10, <1>13 DEF EditInv

LEMMA EditInvStays == ASSUME EditInv, UNCHANGED <<role, draft, wanted, edits>> PROVE EditInv'
  BY DEF EditInv

LEMMA EditSafe == EditInv => AnnotationsKept
  <1> SUFFICES ASSUME EditInv, edits > 0 PROVE AnnotationsKept
    BY DEF AnnotationsKept
  <1>1. role = "edit"
    <2>1. ~(0 > 0)
      OBVIOUS
    <2> QED BY <2>1 DEF EditInv
  <1>2. PICK d, w, pb : d = draft /\ w = wanted /\ pb = BoundaryValue(w.boundary)
    OBVIOUS
  <1>3. DraftOk(d) /\ w \in Wishes /\ WishesHeld(d, w) /\ FromDraft(d)
    BY <1>1, <1>2 DEF EditInv
  <1>4. w.critical \in Int /\ w.recheck \in Int /\ w.counter \in Int
    BY <1>3 DEF Wishes
  <1>5. PICK c, x : c = d.cext /\ x = d.ext
    OBVIOUS
  <1>6. Keyed(c) /\ Keyed(x)
    BY <1>3, <1>5 DEF DraftOk
  <1>7. w.critical # -1 => GetUint(c, RECHECK_KEY) = w.critical
    <2>1. PICK v \in Int : v = w.critical
      BY <1>4
    <2>2. v # -1 => HoldsEntry(c, RECHECK_KEY, v)
      BY <1>3, <1>5, <2>1 DEF WishesHeld
    <2>3. v # -1 => GetUint(c, RECHECK_KEY) = v
      BY <1>6, <2>2, UintIs, Zenon
    <2> QED BY <2>1, <2>3
  <1>8. w.recheck # -1 => GetUint(x, RECHECK_KEY) = w.recheck
    <2>1. PICK v \in Int : v = w.recheck
      BY <1>4
    <2>2. v # -1 => HoldsEntry(x, RECHECK_KEY, v)
      BY <1>3, <1>5, <2>1 DEF WishesHeld
    <2>3. v # -1 => GetUint(x, RECHECK_KEY) = v
      BY <1>6, <2>2, UintIs, Zenon
    <2> QED BY <2>1, <2>3
  <1>9. w.counter # -1 => GetUint(x, SIGNER_COUNTER_KEY) = w.counter
    <2>1. PICK v \in Int : v = w.counter
      BY <1>4
    <2>2. v # -1 => HoldsEntry(x, SIGNER_COUNTER_KEY, v)
      BY <1>3, <1>5, <2>1 DEF WishesHeld
    <2>3. v # -1 => GetUint(x, SIGNER_COUNTER_KEY) = v
      BY <1>6, <2>2, UintIs, Zenon
    <2> QED BY <2>1, <2>3
  <1>10. w.boundary # NoBoundary => At(x, PRODUCING_BOUNDARY_KEY) # {} /\ ValueAt(x, PRODUCING_BOUNDARY_KEY) = pb
    <2>1. w.boundary # NoBoundary => HoldsEntry(x, PRODUCING_BOUNDARY_KEY, pb)
      BY <1>2, <1>3, <1>5 DEF WishesHeld
    <2> QED BY <1>6, <2>1, ValueIs, Zenon
  <1>11. w.boundary # NoBoundary => pb # Bad
    <2> SUFFICES ASSUME w.boundary # NoBoundary PROVE pb # Bad
      OBVIOUS
    <2>1. PICK b \in Boundaries : b = w.boundary
      BY <1>3 DEF Wishes
    <2>2. pb \in Boundaries
      BY <1>2, <2>1 DEF BoundaryValue, Boundaries
    <2> QED BY <2>2, EnvelopeConstants
  <1>12. w.critical # -1 => Recheck(d) = [proc |-> w.critical, critical |-> TRUE]
    BY <1>5, <1>7 DEF Recheck
  <1>13. w.recheck # -1 /\ ~Recheck(d).critical => Recheck(d).proc = w.recheck
    BY <1>5, <1>8 DEF Recheck
  <1>14. w.counter # -1 => SignerCounter(d) = w.counter
    BY <1>5, <1>9 DEF SignerCounter
  <1>15. w.boundary # NoBoundary => ProducingBoundary(d) = IF WellFormedBoundary(pb) THEN pb ELSE NoBoundary
    BY <1>5, <1>10, <1>11 DEF ProducingBoundary
  <1>16. PICK b \in Drafts : b.body = d.body /\ SameForeign(b.ext, d.ext)
    BY <1>3 DEF FromDraft
  <1> QED BY <1>2, <1>5, <1>6, <1>12, <1>13, <1>14, <1>15, <1>16 DEF AnnotationsKept, SameForeign, Foreign


(***************************************************************************)
(* Messages and what a verifier accepts                                    *)
(***************************************************************************)
\* A signing act of an honest signer: who signs, and what the object holds.
ObjectOk(o) == "cext" \in DOMAIN o /\ DOMAIN o.cext \subseteq Nat
ActIs(a) ==
  /\ ObjectOk(a.payload.obj)
  /\ \/ a.form = "pure" /\ \E k \in {"a1", "a2"} : a.keys = <<k>>
     \/ a.form = "composite" /\ a.keys = <<"a1", "e">>
     \/ a.form = "rotation" /\ a.keys = <<"a1", "a2">> /\ a.header.alg = KEYS["a2"]

ActsInv == \A a \in acts : ActIs(a)
WireInv == ActsInv /\ AcceptedWasSigned /\ AcceptedIsUsable

LEMMA DraftObject == ASSUME NEW o \in Drafts PROVE ObjectOk(o) /\ "cext" \in DOMAIN o
  <1>1. "cext" \in DOMAIN o /\ Keyed(o.cext)
    BY EnvelopeConstants
  <1> QED BY <1>1, KeyedIs DEF ObjectOk

LEMMA KeyAlgs == /\ KEYS["a1"] = -49 /\ KEYS["a2"] = -50 /\ KEYS["e"] = -19 /\ KEYS["m"] = -49 /\ KEYS["n"] = -19
                 /\ ALG.mldsa65 = -49 /\ ALG.mldsa87 = -50 /\ ALG.ed25519 = -19
  BY DEF KEYS, ALG

LEMMA SigningActIs == ASSUME NEW a \in SigningActs PROVE ActIs(a)
  <1>1. ASSUME NEW o \in Drafts, NEW k \in {"a1", "a2"}, a = SignPure(o, k) PROVE ActIs(a)
    <2>1. a.payload.obj = o /\ a.form = "pure" /\ a.keys = <<k>>
      BY <1>1 DEF SignPure, Payload
    <2> QED BY <2>1, DraftObject DEF ActIs
  <1>2. ASSUME NEW o \in Drafts, a = SignComposite(o, "a1", "e") PROVE ActIs(a)
    <2>1. PICK c : c = [o EXCEPT !.suite = 1]
      OBVIOUS
    <2>2. a.payload.obj = c /\ a.form = "composite" /\ a.keys = <<"a1", "e">>
      BY <1>2, <2>1 DEF SignComposite, Payload
    <2>3. c.cext = o.cext /\ DOMAIN c = DOMAIN o
      BY <2>1, DraftObject
    <2> QED BY <2>2, <2>3, DraftObject DEF ActIs, ObjectOk
  <1>3. ASSUME NEW o \in Drafts, a = SignRotationObject(o, "a1", "a2") PROVE ActIs(a)
    <2>1. PICK c : c = [o EXCEPT !.suite = 0]
      OBVIOUS
    <2>2. a.payload.obj = c /\ a.form = "rotation" /\ a.keys = <<"a1", "a2">> /\ a.header.alg = KEYS["a2"]
      BY <1>3, <2>1 DEF SignRotationObject, Payload, ProtectedHeader
    <2>3. c.cext = o.cext /\ DOMAIN c = DOMAIN o
      BY <2>1, DraftObject
    <2> QED BY <2>2, <2>3, DraftObject DEF ActIs, ObjectOk
  <1> QED BY <1>1, <1>2, <1>3 DEF SigningActs

LEMMA EzActIs == ASSUME NEW o \in Drafts, NEW k \in KeyNames \ {"m", "n"}, EzSignable(o, k) PROVE ActIs(SignPure(o, k))
  <1>1. k \in {"a1", "a2", "e"}
    BY DEF KeyNames, KEYS
  <1>2. k # "e"
    BY KeyAlgs DEF EzSignable
  <1>3. k \in {"a1", "a2"}
    BY <1>1, <1>2
  <1>4. SignPure(o, k) \in SigningActs
    BY <1>3 DEF SigningActs
  <1> QED BY <1>4, SigningActIs

LEMMA MessageIs ==
  ASSUME ActsInv, NEW msg \in Messages
  PROVE  /\ ObjectOk(msg.payload.obj)
         /\ 1 \in DOMAIN msg.sigs /\ Len(msg.sigs) \in {1, 2}
         /\ \A i \in 1..2 : i <= Len(msg.sigs) =>
              msg.sigs[i] \in SeenSignatures \cup HerSignatures(msg.header, msg.payload)
  <1>0. PICK h \in SeenHeaders, p \in SeenPayloads : msg \in MessagesOver(h, p)
    BY DEF Messages
  <1>2. PICK s : s = SeenSignatures \cup HerSignatures(h, p)
    OBVIOUS
  <1>3. msg.header = h /\ msg.payload = p /\ msg.sigs \in {<<x>> : x \in s} \cup (s \X s)
    BY <1>0, <1>2 DEF MessagesOver
  <1>4. ObjectOk(p.obj)
    <2>0. PICK a \in acts : \E t \in Tampered(a.payload.obj) : p = Payload(t) \/ p = [obj |-> t, id |-> a.payload.obj]
      BY DEF SeenPayloads
    <2>1. PICK t \in Tampered(a.payload.obj) : p = Payload(t) \/ p = [obj |-> t, id |-> a.payload.obj]
      BY <2>0
    <2>2. p.obj = t
      BY <2>1 DEF Payload
    <2>3. PICK o : o = a.payload.obj
      OBVIOUS
    <2>4. ObjectOk(o)
      BY <2>3 DEF ActsInv, ActIs
    <2>5. DOMAIN t = DOMAIN o /\ (t.cext = o.cext \/ t.cext = << >>)
      BY <2>1, <2>3, <2>4 DEF Tampered, ObjectOk
    <2> QED BY <2>2, <2>4, <2>5, EmptyHasNoPlace DEF ObjectOk
  <1>5. CASE \E x \in s : msg.sigs = <<x>>
    <2>1. PICK x \in s : msg.sigs = <<x>>
      BY <1>5
    <2> QED BY <1>2, <1>3, <1>4, <2>1
  <1>6. CASE msg.sigs \in s \X s
    <2>1. PICK x \in s, y \in s : msg.sigs = <<x, y>>
      BY <1>6
    <2> QED BY <1>2, <1>3, <1>4, <2>1
  <1> QED BY <1>3, <1>5, <1>6

\* An honest signature that verifies is one of an act, over what it is said to be over.
LEMMA HonestSignature ==
  ASSUME NEW k \in Honest, NEW tbs, NEW h, NEW p,
         [key |-> k, tbs |-> tbs] \in SeenSignatures \cup HerSignatures(h, p)
  PROVE  \E a \in acts : \E j \in DOMAIN a.keys : a.keys[j] = k /\ TbsOf(a, j) = tbs
  <1>1. [key |-> k, tbs |-> tbs] \notin HerSignatures(h, p)
    BY DEF HerSignatures, Honest
  <1>2. PICK a \in acts : [key |-> k, tbs |-> tbs] \in Signatures(a)
    BY <1>1 DEF SeenSignatures
  <1>3. PICK j \in DOMAIN a.keys : [key |-> k, tbs |-> tbs] = [key |-> a.keys[j], tbs |-> TbsOf(a, j)]
    BY <1>2 DEF Signatures
  <1> QED BY <1>3

LEMMA PureTbs ==
  ASSUME NEW a, ActIs(a), NEW j \in DOMAIN a.keys, NEW h, NEW p, TbsOf(a, j) = Sign1Tbs(h, p)
  PROVE  a.form = "pure" /\ j = 1 /\ a.header = h /\ a.payload = p
  <1>1. a.form = "pure"
    <2>1. CASE a.form = "composite"
      <3>1. TbsOf(a, j).ctx = "Composite"
        BY <2>1 DEF TbsOf, MPrime, Sign1Tbs
      <3> QED BY <3>1 DEF Sign1Tbs
    <2>2. CASE a.form = "rotation"
      <3>1. TbsOf(a, j).ctx = "Signature"
        BY <2>2 DEF TbsOf, LegTbs
      <3> QED BY <3>1 DEF Sign1Tbs
    <2> QED BY <2>1, <2>2 DEF ActIs
  <1>2. TbsOf(a, j) = Sign1Tbs(a.header, a.payload)
    BY <1>1 DEF TbsOf
  <1>3. j = 1
    BY <1>1 DEF ActIs
  <1> QED BY <1>1, <1>2, <1>3 DEF Sign1Tbs

LEMMA CompositeTbs ==
  ASSUME NEW a, ActIs(a), NEW j \in DOMAIN a.keys, NEW h, NEW p, TbsOf(a, j) = MPrime(Sign1Tbs(h, p))
  PROVE  a.form = "composite" /\ a.keys = <<"a1", "e">> /\ a.header = h /\ a.payload = p
  <1>0. MPrime(Sign1Tbs(h, p)) = [ctx |-> "Composite", alg |-> 0, header |-> h, payload |-> p]
    BY DEF MPrime, Sign1Tbs
  <1>1. a.form = "composite"
    <2>1. CASE a.form = "pure"
      <3>1. TbsOf(a, j).ctx = "Signature1"
        BY <2>1 DEF TbsOf, Sign1Tbs
      <3> QED BY <1>0, <3>1
    <2>2. CASE a.form = "rotation"
      <3>1. TbsOf(a, j).ctx = "Signature"
        BY <2>2 DEF TbsOf, LegTbs
      <3> QED BY <1>0, <3>1
    <2> QED BY <2>1, <2>2 DEF ActIs
  <1>2. TbsOf(a, j) = [ctx |-> "Composite", alg |-> 0, header |-> a.header, payload |-> a.payload]
    BY <1>1 DEF TbsOf, MPrime, Sign1Tbs
  <1>3. a.keys = <<"a1", "e">>
    BY <1>1 DEF ActIs
  <1> QED BY <1>0, <1>1, <1>2, <1>3

LEMMA RotationTbs ==
  ASSUME NEW a, ActIs(a), NEW j \in DOMAIN a.keys, NEW h, NEW alg, NEW p, TbsOf(a, j) = LegTbs(h, alg, p)
  PROVE  /\ a.form = "rotation" /\ a.keys = <<"a1", "a2">> /\ a.header = h /\ a.payload = p
         /\ a.header.alg = KEYS["a2"]
  <1>1. a.form = "rotation"
    <2>1. CASE a.form = "pure"
      <3>1. TbsOf(a, j).ctx = "Signature1"
        BY <2>1 DEF TbsOf, Sign1Tbs
      <3> QED BY <3>1 DEF LegTbs
    <2>2. CASE a.form = "composite"
      <3>1. TbsOf(a, j).ctx = "Composite"
        BY <2>2 DEF TbsOf, MPrime, Sign1Tbs
      <3> QED BY <3>1 DEF LegTbs
    <2> QED BY <2>1, <2>2 DEF ActIs
  <1>2. TbsOf(a, j) = LegTbs(a.header, KEYS[a.keys[j]], a.payload)
    BY <1>1 DEF TbsOf
  <1>3. a.header = h /\ a.payload = p
    BY <1>2 DEF LegTbs
  <1> QED BY <1>1, <1>3 DEF ActIs

LEMMA ObjectChecked ==
  ASSUME NEW msg, NEW rotation \in BOOLEAN, CheckObject(msg, rotation) = "ok"
  PROVE  /\ IsRotation(msg.payload.obj) <=> rotation
         /\ CheckCritical(msg.payload.obj) = "ok"
  <1>1. CheckCritical(msg.payload.obj) \in {"ok", "UnknownCriticalExt", "Malformed"}
    BY DEF CheckCritical
  <1>2. ObjectFromMap(msg.payload.obj) \in {"ok", "TooManyCauses", "TooManyExtensions"}
    BY DEF ObjectFromMap
  <1> QED BY <1>1, <1>2 DEF CheckObject

LEMMA CriticalKnown ==
  ASSUME NEW o, ObjectOk(o), CheckCritical(o) = "ok"
  PROVE  Recheck(o).critical => IsKnownRecheck(Recheck(o).proc)
  <1> SUFFICES ASSUME Recheck(o).critical PROVE IsKnownRecheck(Recheck(o).proc)
    OBVIOUS
  <1>1. GetUint(o.cext, RECHECK_KEY) # -1 /\ Recheck(o).proc = GetUint(o.cext, RECHECK_KEY)
    BY DEF Recheck
  <1>2. At(o.cext, RECHECK_KEY) # {} /\ GetUint(o.cext, RECHECK_KEY) = ValueAt(o.cext, RECHECK_KEY)
    BY <1>1 DEF GetUint
  <1>3. PICK T : T = At(o.cext, RECHECK_KEY)
    OBVIOUS
  <1>4. T \subseteq DOMAIN o.cext /\ T \in SUBSET Nat /\ T # {}
    BY <1>2, <1>3 DEF At, ObjectOk
  <1>5. \E i \in T : \A j \in T : i <= j
    BY <1>4, LeastOf
  <1>6. PICK c : c = CHOOSE i \in T : \A j \in T : i <= j
    OBVIOUS
  <1>7. c \in T
    BY <1>5, <1>6
  <1>8. ValueAt(o.cext, RECHECK_KEY) = o.cext[c][2]
    BY <1>3, <1>6 DEF ValueAt
  <1>9. IsKnownRecheck(o.cext[c][2])
    BY <1>3, <1>4, <1>7 DEF CheckCritical, At
  <1> QED BY <1>1, <1>2, <1>8, <1>9

LEMMA LevelOf ==
  ASSUME NEW alg
  PROVE  /\ AlgLevel(alg) \in {0, 3, 5} /\ (AlgLevel(alg) = 5 <=> alg = ALG.mldsa87)
         /\ \A profile : ProfileMinLevel(profile) \in {3, 5} /\ (profile = PROFILE.sovereign => ProfileMinLevel(profile) = 5)
         /\ \A profile : profile # PROFILE.sovereign => ProfileMinLevel(profile) = 3
         /\ alg = ALG.mldsa65 => AlgLevel(alg) = 3
  BY KeyAlgs DEF AlgLevel, ProfileMinLevel


LEMMA ReceiveWire ==
  ASSUME WireInv, NEW profile \in {1, 3}, NEW keys \in PublicKeys, NEW msg \in Messages, Receive(profile, keys, msg)
  PROVE  WireInv'
  <1>1. acts' = acts /\ got' = Accepted("verify", profile, keys, msg) /\ Verify(profile, keys, msg) = "ok"
    BY DEF Receive
  <1>2. PICK o, h, p : o = msg.payload.obj /\ h = msg.header /\ p = msg.payload
    OBVIOUS
  <1>3. CheckObject(msg, FALSE) = "ok"
    BY <1>1 DEF Verify
  <1>4. ~IsRotation(o) /\ CheckCritical(o) = "ok"
    BY <1>2, <1>3, ObjectChecked
  <1>5. ObjectOk(o) /\ 1 \in DOMAIN msg.sigs /\ Len(msg.sigs) \in {1, 2}
    BY <1>2, MessageIs DEF WireInv
  <1>6. \A i \in 1..2 : i <= Len(msg.sigs) => msg.sigs[i] \in SeenSignatures \cup HerSignatures(h, p)
    BY <1>2, MessageIs DEF WireInv
  <1>7. Recheck(o).critical => IsKnownRecheck(Recheck(o).proc)
    BY <1>4, <1>5, CriticalKnown
  <1>8. got'.by = "verify" /\ got'.profile = profile /\ got'.keys = keys /\ got'.msg = msg
    BY <1>1 DEF Accepted
  <1>9. \A a \in acts : ActIs(a)
    BY DEF WireInv, ActsInv
  <1>10. CASE h.alg = COMPOSITE
    <2>1. profile # PROFILE.sovereign /\ CompositeVerify(keys, Sign1Tbs(h, p), msg.sigs)
      BY <1>1, <1>2, <1>3, <1>10 DEF Verify
    <2>2. /\ Len(msg.sigs) = 2 /\ Len(keys) = 2 /\ KEYS[keys[1]] = ALG.mldsa65
          /\ \A i \in 1..2 : msg.sigs[i] = [key |-> keys[i], tbs |-> MPrime(Sign1Tbs(h, p))]
      BY <2>1 DEF CompositeVerify, Verifies
    <2>3. keys \in {<<"a1", "e">>, <<"a1", "n">>}
      BY <2>2 DEF PublicKeys
    <2>4. ASSUME NEW i \in DOMAIN keys, keys[i] \in Honest
          PROVE  \E a \in acts : a.form = "composite" /\ a.keys[i] = keys[i] /\ a.header = h /\ a.payload = p
      <3>1. i \in 1..2 /\ keys[i] = <<"a1", "e">>[i]
        BY <2>3, <2>4 DEF Honest
      <3>2. [key |-> keys[i], tbs |-> MPrime(Sign1Tbs(h, p))] \in SeenSignatures \cup HerSignatures(h, p)
        BY <1>6, <2>2, <3>1
      <3>3. PICK k \in Honest : k = keys[i]
        BY <2>4
      <3>4. PICK a \in acts : \E j \in DOMAIN a.keys : a.keys[j] = k /\ TbsOf(a, j) = MPrime(Sign1Tbs(h, p))
        BY <3>2, <3>3, HonestSignature
      <3>5. a.form = "composite" /\ a.keys = <<"a1", "e">> /\ a.header = h /\ a.payload = p
        BY <1>9, <3>4, CompositeTbs
      <3> QED BY <3>1, <3>5
    <2>5. AcceptedWasSigned'
      BY <1>1, <1>2, <1>4, <1>8, <1>10, <2>4 DEF AcceptedWasSigned
    <2>6. 1 \in DOMAIN keys /\ AlgLevel(KEYS[keys[1]]) >= ProfileMinLevel(profile)
      <3>1. 1 \in DOMAIN keys
        BY <2>3
      <3>2. AlgLevel(KEYS[keys[1]]) = 3 /\ ProfileMinLevel(profile) = 3
        BY <2>1, <2>2, LevelOf
      <3> QED BY <3>1, <3>2
    <2>7. AcceptedIsUsable'
      BY <1>2, <1>7, <1>8, <2>1, <2>6 DEF AcceptedIsUsable
    <2> QED BY <1>1, <2>5, <2>7 DEF WireInv, ActsInv
  <1>11. CASE h.alg # COMPOSITE
    <2>1. /\ ~(AlgLevel(h.alg) < ProfileMinLevel(profile)) /\ Len(keys) = 1 /\ KEYS[keys[1]] = h.alg
          /\ Verifies(msg.sigs[1], keys[1], Sign1Tbs(h, p))
      BY <1>1, <1>2, <1>3, <1>11 DEF Verify
    <2>2. keys \in {<<"a1">>, <<"a2">>, <<"m">>}
      BY <2>1 DEF PublicKeys
    <2>3. ASSUME NEW i \in DOMAIN keys, keys[i] \in Honest
          PROVE  \E a \in acts : a.form = "pure" /\ a.keys[i] = keys[i] /\ a.header = h /\ a.payload = p
      <3>1. i = 1
        BY <2>2
      <3>2. [key |-> keys[1], tbs |-> Sign1Tbs(h, p)] \in SeenSignatures \cup HerSignatures(h, p)
        BY <1>5, <1>6, <2>1 DEF Verifies
      <3>3. PICK k \in Honest : k = keys[1]
        BY <2>3, <3>1
      <3>4. PICK a \in acts : \E j \in DOMAIN a.keys : a.keys[j] = k /\ TbsOf(a, j) = Sign1Tbs(h, p)
        BY <3>2, <3>3, HonestSignature
      <3>5. PICK j \in DOMAIN a.keys : a.keys[j] = k /\ TbsOf(a, j) = Sign1Tbs(h, p)
        BY <3>4
      <3>6. a.form = "pure" /\ j = 1 /\ a.header = h /\ a.payload = p
        BY <1>9, <3>5, PureTbs
      <3> QED BY <3>1, <3>3, <3>5, <3>6
    <2>4. AcceptedWasSigned'
      BY <1>1, <1>2, <1>4, <1>8, <1>11, <2>3 DEF AcceptedWasSigned
    <2>5. DOMAIN keys = {1}
      BY <2>2
    <2>6. AlgLevel(KEYS[keys[1]]) >= ProfileMinLevel(profile)
      <3>1. PICK x \in Nat, y \in Nat : x = AlgLevel(h.alg) /\ y = ProfileMinLevel(profile)
        BY LevelOf
      <3>2. ~(x < y)
        BY <2>1, <3>1
      <3> QED BY <2>1, <3>1, <3>2
    <2>7. profile = PROFILE.sovereign => KEYS[keys[1]] = ALG.mldsa87
      <3> SUFFICES ASSUME profile = PROFILE.sovereign PROVE KEYS[keys[1]] = ALG.mldsa87
        OBVIOUS
      <3>1. ProfileMinLevel(profile) = 5 /\ AlgLevel(KEYS[keys[1]]) \in {0, 3, 5}
        BY LevelOf
      <3>2. AlgLevel(KEYS[keys[1]]) = 5
        BY <2>6, <3>1
      <3> QED BY <3>2, LevelOf
    <2>8. AcceptedIsUsable'
      BY <1>2, <1>7, <1>8, <2>5, <2>6, <2>7 DEF AcceptedIsUsable
    <2> QED BY <1>1, <2>4, <2>8 DEF WireInv, ActsInv
  <1> QED BY <1>10, <1>11

LEMMA ReceiveRotationWire ==
  ASSUME WireInv, NEW profile \in {1, 3}, NEW keys \in KeyPairs, NEW msg \in Messages,
         ReceiveRotation(profile, keys, msg)
  PROVE  WireInv'
  <1>1. acts' = acts /\ got' = Accepted("rotation", profile, keys, msg) /\ VerifyRotationObject(profile, keys, msg) = "ok"
    BY DEF ReceiveRotation
  <1>2. PICK o, h, p : o = msg.payload.obj /\ h = msg.header /\ p = msg.payload
    OBVIOUS
  <1>3. CheckObject(msg, TRUE) = "ok"
    BY <1>1 DEF VerifyRotationObject
  <1>4. IsRotation(o) /\ CheckCritical(o) = "ok"
    BY <1>2, <1>3, ObjectChecked
  <1>5. ObjectOk(o)
    BY <1>2, MessageIs DEF WireInv
  <1>6. \A i \in 1..2 : i <= Len(msg.sigs) => msg.sigs[i] \in SeenSignatures \cup HerSignatures(h, p)
    BY <1>2, MessageIs DEF WireInv
  <1>7. Recheck(o).critical => IsKnownRecheck(Recheck(o).proc)
    BY <1>4, <1>5, CriticalKnown
  <1>8. got'.by = "rotation" /\ got'.profile = profile /\ got'.keys = keys /\ got'.msg = msg
    BY <1>1 DEF Accepted
  <1>9. \A a \in acts : ActIs(a)
    BY DEF WireInv, ActsInv
  <1>10. /\ h.alg = KEYS[keys[2]] /\ Len(msg.sigs) = 2
         /\ \A i \in 1..2 : ~(AlgLevel(KEYS[keys[i]]) < ProfileMinLevel(profile))
         /\ \A i \in 1..2 : Verifies(msg.sigs[i], keys[i], LegTbs(h, KEYS[keys[i]], p))
    BY <1>1, <1>2, <1>3 DEF VerifyRotationObject
  <1>11. DOMAIN keys = 1..2
    BY DEF KeyPairs
  <1>12. ASSUME NEW i \in DOMAIN keys, keys[i] \in Honest
         PROVE  \E a \in acts : a.form = "rotation" /\ a.keys[i] = keys[i] /\ a.header = h /\ a.payload = p
    <2>1. i \in 1..2 /\ i <= Len(msg.sigs)
      BY <1>10, <1>11
    <2>0. PICK k \in Honest : k = keys[i]
      BY <1>12
    <2>20. PICK alg : alg = KEYS[keys[i]]
      OBVIOUS
    <2>2. k = keys[i] /\ alg = KEYS[keys[i]]
      BY <2>0, <2>20
    <2>3. [key |-> k, tbs |-> LegTbs(h, alg, p)] \in SeenSignatures \cup HerSignatures(h, p)
      BY <1>6, <1>10, <2>1, <2>2 DEF Verifies
    <2>4. PICK a \in acts : \E j \in DOMAIN a.keys : a.keys[j] = k /\ TbsOf(a, j) = LegTbs(h, alg, p)
      BY <2>3, HonestSignature
    <2>5. /\ a.form = "rotation" /\ a.keys = <<"a1", "a2">> /\ a.header = h /\ a.payload = p
          /\ a.header.alg = KEYS["a2"]
      BY <1>9, <2>4, RotationTbs
    <2>6. keys # <<"a2", "a1">>
      <3>1. KEYS[keys[2]] = -50
        BY <1>10, <2>5, KeyAlgs, Zenon
      <3>2. KEYS["a1"] # -50
        BY KeyAlgs
      <3> QED BY <3>1, <3>2
    <2>7. keys \in {<<"a1", "a2">>, <<"m", "a2">>, <<"a1", "m">>}
      BY <2>6 DEF KeyPairs
    <2>8. a.keys[i] = keys[i]
      BY <1>12, <2>1, <2>5, <2>7 DEF Honest
    <2> QED BY <2>5, <2>8
  <1>13. AcceptedWasSigned'
    BY <1>1, <1>2, <1>4, <1>8, <1>12 DEF AcceptedWasSigned
  <1>14. ASSUME NEW i \in 1..2
         PROVE  /\ AlgLevel(KEYS[keys[i]]) >= ProfileMinLevel(profile)
                /\ profile = PROFILE.sovereign => KEYS[keys[i]] = ALG.mldsa87
    <2>1. PICK x \in Nat, y \in Nat : x = AlgLevel(KEYS[keys[i]]) /\ y = ProfileMinLevel(profile) /\ x \in {0, 3, 5}
      BY LevelOf
    <2>2. ~(x < y)
      BY <1>10, <2>1
    <2>3. x >= y
      BY <2>2
    <2>4. profile = PROFILE.sovereign => y = 5
      BY <2>1, LevelOf
    <2>5. profile = PROFILE.sovereign => x = 5
      BY <2>1, <2>2, <2>4
    <2> QED BY <2>1, <2>3, <2>5, LevelOf
  <1>15. 1 \in 1..2
    OBVIOUS
  <1>16. AcceptedIsUsable'
    BY <1>2, <1>7, <1>8, <1>11, <1>14, <1>15 DEF AcceptedIsUsable
  <1> QED BY <1>1, <1>13, <1>16 DEF WireInv, ActsInv

LEMMA SignWire ==
  ASSUME WireInv, NEW a, ActIs(a), acts' = acts \cup {a}, got' = got
  PROVE  WireInv'
  <1>1. ActsInv'
    BY DEF WireInv, ActsInv
  <1>2. AcceptedWasSigned' /\ AcceptedIsUsable'
    BY DEF WireInv, AcceptedWasSigned, AcceptedIsUsable
  <1> QED BY <1>1, <1>2 DEF WireInv

LEMMA WireInvInit == EnvInit => WireInv
  BY DEF EnvInit, WireInv, ActsInv, AcceptedWasSigned, AcceptedIsUsable

LEMMA WireInvStays == ASSUME WireInv, UNCHANGED <<acts, got>> PROVE WireInv'
  BY DEF WireInv, ActsInv, AcceptedWasSigned, AcceptedIsUsable


(***************************************************************************)
(* Copies of one signer                                                    *)
(***************************************************************************)
\* What copy c signed with its counter at n.
MadeBy(o, c, n) ==
  o.signer = "s" /\ o.body = <<c, n>> /\ (o.ext = << >> \/ o.ext = << <<SIGNER_COUNTER_KEY, n>> >>)

CloneInv ==
  /\ next \in Seq(Nat) /\ shown \in Seq(made)
  /\ \A o \in made : \E c \in DOMAIN next : \E n \in Nat : n < next[c] /\ MadeBy(o, c, n)
  /\ \A o, q \in made : o.body = q.body => o = q

LEMMA CloneInvInit == EnvInit => CloneInv
  <1> SUFFICES ASSUME EnvInit PROVE CloneInv
    OBVIOUS
  <1>1. next = <<0>> /\ made = {} /\ shown = << >>
    BY DEF EnvInit
  <1>2. next \in Seq(Nat)
    BY <1>1
  <1>3. shown \in Seq(made)
    BY <1>1, EmptySeq
  <1> QED BY <1>1, <1>2, <1>3 DEF CloneInv

LEMMA RestoreClone == ASSUME CloneInv, Restore PROVE CloneInv'
  <1>1. Len(next) = 1 /\ next' = Append(next, next[1]) /\ made' = made /\ shown' = shown /\ next \in Seq(Nat)
    BY DEF Restore, CloneInv
  <1>2. DOMAIN next = 1..1 /\ next[1] \in Nat
    <2>1. DOMAIN next = 1..1
      BY <1>1, LenProperties
    <2> QED BY <1>1, <2>1, ElementOfSeq
  <1>3. next' \in Seq(Nat) /\ DOMAIN next' = 1..2 /\ next'[1] = next[1]
    <2>0. PICK x, s : x = next[1] /\ s = next
      OBVIOUS
    <2>a. x \in Nat /\ s \in Seq(Nat) /\ next' = Append(s, x)
      BY <1>1, <1>2, <2>0
    <2>1. Len(next') = Len(next) + 1 /\ next' \in Seq(Nat) /\ \A i \in 1..Len(next) : next'[i] = next[i]
      BY <2>0, <2>a, AppendProperties
    <2>2. DOMAIN next' = 1..Len(next')
      BY <2>1, LenProperties
    <2>3. Len(next') = 2
      BY <1>1, <2>1
    <2> QED BY <1>1, <2>1, <2>2, <2>3
  <1>4. \A c \in DOMAIN next : c \in DOMAIN next' /\ next'[c] = next[c]
    BY <1>2, <1>3
  <1> QED BY <1>1, <1>3, <1>4 DEF CloneInv

LEMMA EmitClone ==
  ASSUME CloneInv, NEW copy \in 1..2, NEW stamped \in BOOLEAN, Emit(copy, stamped)
  PROVE  CloneInv'
  <1>1. copy \in DOMAIN next /\ next' = [next EXCEPT ![copy] = @ + 1] /\ shown' = shown
    BY DEF Emit
  <1>2. next \in Seq(Nat) /\ DOMAIN next = 1..Len(next) /\ Len(next) \in Nat
    BY LenProperties DEF CloneInv
  <1>3. PICK n \in Nat : n = next[copy]
    BY <1>1, <1>2, ElementOfSeq
  <1>4. PICK o : o = [signer |-> "s", body |-> <<copy, n>>,
                      ext |-> IF stamped THEN SetEntry(<< >>, SIGNER_COUNTER_KEY, n) ELSE << >>]
    OBVIOUS
  <1>5. made' = made \cup {o}
    BY <1>3, <1>4 DEF Emit
  <1>6. SetEntry(<< >>, SIGNER_COUNTER_KEY, n) = << <<SIGNER_COUNTER_KEY, n>> >>
    <2>1. At(<< >>, SIGNER_COUNTER_KEY) = {}
      BY EmptyHasNoPlace DEF At
    <2> QED BY <2>1 DEF SetEntry
  <1>7. MadeBy(o, copy, n)
    BY <1>4, <1>6 DEF MadeBy
  <1>8. /\ DOMAIN next' = DOMAIN next /\ next'[copy] = n + 1
        /\ \A c \in DOMAIN next : c # copy => next'[c] = next[c]
    BY <1>1, <1>2, <1>3
  <1>9. \A c \in DOMAIN next : next[c] \in Nat
    BY <1>2, ElementOfSeq
  <1>10. next' \in Seq(Nat)
    <2>1. next' \in [1..Len(next) -> Nat]
      BY <1>1, <1>2, <1>3, <1>9
    <2> QED BY <1>2, <2>1
  <1>11. ASSUME NEW q \in made
         PROVE  /\ \E c \in DOMAIN next' : \E k \in Nat : k < next'[c] /\ MadeBy(q, c, k)
                /\ q.body # o.body
    <2>1. PICK c \in DOMAIN next, k \in Nat : k < next[c] /\ MadeBy(q, c, k)
      BY DEF CloneInv
    <2>2. k < next'[c]
      <3>1. CASE c = copy
        BY <1>3, <1>8, <2>1, <3>1
      <3>2. CASE c # copy
        BY <1>8, <2>1, <3>2
      <3> QED BY <3>1, <3>2
    <2>3. q.body = <<c, k>> /\ o.body = <<copy, n>>
      BY <1>7, <2>1 DEF MadeBy
    <2>4. ~(c = copy /\ k = n)
      BY <1>3, <2>1
    <2> QED BY <1>8, <2>1, <2>2, <2>3, <2>4
  <1>12. copy \in DOMAIN next' /\ n < next'[copy]
    BY <1>1, <1>8
  <1>13. \A q \in made' : \E c \in DOMAIN next' : \E k \in Nat : k < next'[c] /\ MadeBy(q, c, k)
    BY <1>5, <1>7, <1>11, <1>12
  <1>14. \A q, r \in made' : q.body = r.body => q = r
    BY <1>5, <1>11 DEF CloneInv
  <1>15. shown' \in Seq(made')
    <2>1. shown \in Seq(made)
      BY DEF CloneInv
    <2> QED BY <1>1, <1>5, <2>1, SeqMonotonic
  <1> QED BY <1>10, <1>13, <1>14, <1>15 DEF CloneInv

LEMMA ShowClone == ASSUME CloneInv, NEW o \in made, Show(o) PROVE CloneInv'
  <1>1. shown' = Append(shown, o) /\ next' = next /\ made' = made /\ shown \in Seq(made)
    BY DEF Show, CloneInv
  <1>2. shown' \in Seq(made)
    BY <1>1, AppendProperties
  <1> QED BY <1>1, <1>2 DEF CloneInv

LEMMA CloneInvStays == ASSUME CloneInv, UNCHANGED <<next, made, shown>> PROVE CloneInv'
  BY DEF CloneInv

LEMMA CounterIs ==
  ASSUME NEW o, NEW c, NEW n \in Nat, MadeBy(o, c, n)
  PROVE  SignerCounter(o) = -1 \/ SignerCounter(o) = n
  <1>1. PICK m : m = o.ext
    OBVIOUS
  <1>2. CASE m = << >>
    <2>1. At(m, SIGNER_COUNTER_KEY) = {}
      BY <1>2, EmptyHasNoPlace DEF At
    <2> QED BY <1>1, <2>1 DEF SignerCounter, GetUint
  <1>3. CASE m = << <<SIGNER_COUNTER_KEY, n>> >>
    <2>1. DOMAIN m = {1} /\ m[1] = <<SIGNER_COUNTER_KEY, n>> /\ 1 \in ToSet(<<1>>)
      BY <1>3 DEF ToSet
    <2>2. Keyed(m)
      <3>1. m \in Seq(ToSet(m))
        BY <1>3 DEF ToSet
      <3> QED BY <2>1, <3>1 DEF Keyed
    <2>3. HoldsEntry(m, SIGNER_COUNTER_KEY, n)
      BY <2>1 DEF HoldsEntry
    <2>4. n \in Int
      OBVIOUS
    <2>5. GetUint(m, SIGNER_COUNTER_KEY) = n
      BY <2>2, <2>3, <2>4, UintIs
    <2> QED BY <1>1, <2>5 DEF SignerCounter
  <1> QED BY <1>1, <1>2, <1>3 DEF MadeBy

LEMMA TwoAreMany ==
  ASSUME NEW S, IsFiniteSet(S), NEW x \in S, NEW y \in S, x # y
  PROVE  Cardinality(S) > 1
  <1>1. Cardinality(S) \in Nat
    BY FS_CardinalityType
  <1>2. Cardinality(S) # 0
    BY FS_EmptySet
  <1>3. Cardinality(S) # 1
    BY FS_Singleton
  <1> QED BY <1>1, <1>2, <1>3

LEMMA CloneSafe == CloneInv => DuplicationExact
  <1> SUFFICES ASSUME CloneInv PROVE DuplicationExact
    OBVIOUS
  <1> DEFINE stamped == {o \in ToSet(shown) : SignerCounter(o) # -1}
             group(o) == {p \in stamped : p.signer = o.signer /\ SignerCounter(p) = SignerCounter(o)}
             found == {[counter |-> SignerCounter(o), ids |-> group(o)] : o \in {q \in stamped : Cardinality(group(q)) > 1}}
  <1>1. DetectSignerDuplication(shown) = found
    BY Zenon DEF DetectSignerDuplication
  <1>2. /\ shown \in Seq(made) /\ next \in Seq(Nat) /\ Len(shown) \in Nat /\ DOMAIN shown = 1..Len(shown)
        /\ DOMAIN next = 1..Len(next)
    BY LenProperties DEF CloneInv
  <1>3. \A i \in DOMAIN shown : shown[i] \in made
    BY <1>2, ElementOfSeq
  <1>4. ToSet(shown) = {shown[i] : i \in DOMAIN shown} /\ ToSet(shown) \subseteq made
    BY <1>3 DEF ToSet
  <1>5. IsFiniteSet(ToSet(shown))
    <2>1. IsFiniteSet(1..Len(shown))
      BY <1>2, FS_Interval
    <2>2. shown \in Surjection(1..Len(shown), ToSet(shown))
      <3>1. shown \in [1..Len(shown) -> ToSet(shown)]
        BY <1>2, <1>4
      <3>2. \A x \in ToSet(shown) : \E i \in 1..Len(shown) : shown[i] = x
        BY <1>2, <1>4
      <3> QED BY <3>1, <3>2 DEF Surjection
    <2>3. PICK S, T : S = 1..Len(shown) /\ T = ToSet(shown)
      OBVIOUS
    <2> QED BY <2>1, <2>2, <2>3, FS_Surjection
  <1>6. \A o \in made : \E c \in DOMAIN next : \E n \in Nat : MadeBy(o, c, n)
    BY DEF CloneInv
  <1>7. ASSUME Len(next) = 1, NEW q \in stamped PROVE ~(Cardinality(group(q)) > 1)
    <2>1. PICK c \in DOMAIN next, n \in Nat : MadeBy(q, c, n)
      BY <1>4, <1>6
    <2>2. c = 1 /\ SignerCounter(q) = n
      BY <1>2, <1>7, <2>1, CounterIs
    <2>3. ASSUME NEW p \in group(q) PROVE p = q
      <3>1. PICK d \in DOMAIN next, k \in Nat : MadeBy(p, d, k)
        BY <1>4, <1>6
      <3>2. d = 1 /\ SignerCounter(p) = k
        BY <1>2, <1>7, <3>1, CounterIs
      <3>3. k = n
        BY <2>2, <3>2
      <3>4. p.body = q.body
        BY <2>1, <2>2, <3>1, <3>2, <3>3 DEF MadeBy
      <3> QED BY <1>4, <3>4 DEF CloneInv
    <2>4. group(q) = {q}
      BY <2>3
    <2>5. Cardinality({q}) = 1
      BY FS_Singleton
    <2> QED BY <2>4, <2>5
  <1>8. Len(next) = 1 => found = {}
    BY <1>7
  <1>9. ASSUME NEW i \in DOMAIN shown, NEW j \in DOMAIN shown, SignerCounter(shown[i]) # -1,
               SignerCounter(shown[i]) = SignerCounter(shown[j]), shown[i].body[1] # shown[j].body[1]
        PROVE  \E f \in found : {shown[i], shown[j]} \subseteq f.ids
    <2>1. PICK o, p : o = shown[i] /\ p = shown[j]
      OBVIOUS
    <2>2. o \in stamped /\ p \in stamped /\ o # p /\ o.signer = "s" /\ p.signer = "s"
      BY <1>3, <1>4, <1>6, <1>9, <2>1 DEF MadeBy
    <2>3. o \in group(o) /\ p \in group(o)
      BY <1>9, <2>1, <2>2
    <2>4. IsFiniteSet(group(o))
      BY <1>5, FS_Subset
    <2>5. Cardinality(group(o)) > 1
      <3>1. PICK S : S = group(o)
        OBVIOUS
      <3>2. IsFiniteSet(S) /\ o \in S /\ p \in S
        BY <2>3, <2>4, <3>1
      <3>3. Cardinality(S) > 1
        BY <2>2, <3>2, TwoAreMany
      <3> QED BY <3>1, <3>3
    <2>6. PICK f : f = [counter |-> SignerCounter(o), ids |-> group(o)]
      OBVIOUS
    <2>7. f \in found
      BY <2>2, <2>5, <2>6
    <2>8. {shown[i], shown[j]} \subseteq f.ids
      BY <2>1, <2>3, <2>6
    <2> QED BY <2>7, <2>8
  <1>10. ASSUME NEW f \in found, NEW o \in f.ids PROVE o \in ToSet(shown) /\ SignerCounter(o) = f.counter
    <2>1. PICK q \in stamped : f = [counter |-> SignerCounter(q), ids |-> group(q)]
      OBVIOUS
    <2>2. f.counter = SignerCounter(q) /\ f.ids = group(q)
      BY <2>1
    <2> QED BY <1>10, <2>2
  <1> HIDE DEF found, group, stamped
  <1> QED BY <1>1, <1>8, <1>9, <1>10 DEF DuplicationExact

(***************************************************************************)
(* The envelope speaks true                                                *)
(***************************************************************************)
EnvInv == EditInv /\ WireInv /\ CloneInv

LEMMA EnvInvNext == ASSUME EnvInv, [EnvNext]_envvars PROVE EnvInv'
  <1>0. EditInv /\ WireInv /\ CloneInv
    BY DEF EnvInv
  <1>1. ASSUME NEW id \in {1, 4, 5}, NEW critical \in BOOLEAN, SetRecheck(id, critical) PROVE EnvInv'
    <2>1. UNCHANGED <<acts, got>> /\ UNCHANGED <<next, made, shown>>
      BY <1>1 DEF SetRecheck, EditFrame
    <2> QED BY <1>0, <1>1, <2>1, SetRecheckEdit, WireInvStays, CloneInvStays DEF EnvInv
  <1>2. ASSUME NEW seq \in {0, 1}, SetSignerCounter(seq) PROVE EnvInv'
    <2>1. UNCHANGED <<acts, got>> /\ UNCHANGED <<next, made, shown>>
      BY <1>2 DEF SetSignerCounter, EditFrame
    <2> QED BY <1>0, <1>2, <2>1, SetCounterEdit, WireInvStays, CloneInvStays DEF EnvInv
  <1>3. ASSUME NEW pb \in Boundaries, SetProducingBoundary(pb) PROVE EnvInv'
    <2>1. UNCHANGED <<acts, got>> /\ UNCHANGED <<next, made, shown>>
      BY <1>3 DEF SetProducingBoundary, EditFrame
    <2> QED BY <1>0, <1>3, <2>1, SetBoundaryEdit, WireInvStays, CloneInvStays DEF EnvInv
  <1>4. ASSUME NEW o \in Drafts, NEW k \in KeyNames \ {"m", "n"}, EzSign(o, k) PROVE EnvInv'
    <2>1. UNCHANGED <<role, draft, wanted, edits>> /\ UNCHANGED <<next, made, shown>>
      BY <1>4 DEF EzSign, WireFrame
    <2>2. PICK a : a = SignPure(o, k)
      OBVIOUS
    <2>3. ActIs(a) /\ acts' = acts \cup {a} /\ got' = got
      BY <1>4, <2>2, EzActIs DEF EzSign
    <2>4. WireInv'
      BY <1>0, <2>3, SignWire
    <2> QED BY <1>0, <2>1, <2>4, EditInvStays, CloneInvStays DEF EnvInv
  <1>5. ASSUME NEW a \in SigningActs, Sign(a) PROVE EnvInv'
    <2>1. UNCHANGED <<role, draft, wanted, edits>> /\ UNCHANGED <<next, made, shown>>
      BY <1>5 DEF Sign, WireFrame
    <2>2. ActIs(a) /\ acts' = acts \cup {a} /\ got' = got
      BY <1>5, SigningActIs DEF Sign
    <2>3. WireInv'
      BY <1>0, <2>2, SignWire
    <2> QED BY <1>0, <2>1, <2>3, EditInvStays, CloneInvStays DEF EnvInv
  <1>6. ASSUME NEW msg \in Messages, NEW profile \in {1, 3}, NEW keys \in PublicKeys, Receive(profile, keys, msg)
        PROVE  EnvInv'
    <2>1. UNCHANGED <<role, draft, wanted, edits>> /\ UNCHANGED <<next, made, shown>>
      BY <1>6 DEF Receive, WireFrame
    <2>2. WireInv'
      BY <1>0, <1>6, ReceiveWire
    <2> QED BY <1>0, <2>1, <2>2, EditInvStays, CloneInvStays DEF EnvInv
  <1>7. ASSUME NEW msg \in Messages, NEW profile \in {1, 3}, NEW keys \in KeyPairs, ReceiveRotation(profile, keys, msg)
        PROVE  EnvInv'
    <2>1. UNCHANGED <<role, draft, wanted, edits>> /\ UNCHANGED <<next, made, shown>>
      BY <1>7 DEF ReceiveRotation, WireFrame
    <2>2. WireInv'
      BY <1>0, <1>7, ReceiveRotationWire
    <2> QED BY <1>0, <2>1, <2>2, EditInvStays, CloneInvStays DEF EnvInv
  <1>8. ASSUME Restore PROVE EnvInv'
    <2>1. UNCHANGED <<role, draft, wanted, edits>> /\ UNCHANGED <<acts, got>>
      BY <1>8 DEF Restore, CloneFrame
    <2> QED BY <1>0, <1>8, <2>1, RestoreClone, EditInvStays, WireInvStays DEF EnvInv
  <1>9. ASSUME NEW copy \in 1..2, NEW stamped \in BOOLEAN, Emit(copy, stamped) PROVE EnvInv'
    <2>1. UNCHANGED <<role, draft, wanted, edits>> /\ UNCHANGED <<acts, got>>
      BY <1>9 DEF Emit, CloneFrame
    <2> QED BY <1>0, <1>9, <2>1, EmitClone, EditInvStays, WireInvStays DEF EnvInv
  <1>10. ASSUME NEW o \in made, Show(o) PROVE EnvInv'
    <2>1. UNCHANGED <<role, draft, wanted, edits>> /\ UNCHANGED <<acts, got>>
      BY <1>10 DEF Show, CloneFrame
    <2> QED BY <1>0, <1>10, <2>1, ShowClone, EditInvStays, WireInvStays DEF EnvInv
  <1>11. CASE UNCHANGED envvars
    <2>1. UNCHANGED <<role, draft, wanted, edits>> /\ UNCHANGED <<acts, got>> /\ UNCHANGED <<next, made, shown>>
      BY <1>11 DEF envvars
    <2> QED BY <1>0, <2>1, EditInvStays, WireInvStays, CloneInvStays DEF EnvInv
  <1> QED BY <1>1, <1>2, <1>3, <1>4, <1>5, <1>6, <1>7, <1>8, <1>9, <1>10, <1>11, Zenon DEF EnvNext

\* An accepted envelope is what every named key's owner signed, in that form,
\* strong enough and understood; annotations keep to themselves; a copied
\* signer is found out and an honest one never accused (envelope.verify,
\* verify_rotation_object, detect_signer_duplication).
THEOREM EnvelopeTheorem == EnvSpec => []EnvelopeSpeaksTrue
  <1>1. EnvInit => EnvInv
    BY EditInvInit, WireInvInit, CloneInvInit DEF EnvInv
  <1>2. EnvInv /\ [EnvNext]_envvars => EnvInv'
    BY EnvInvNext
  <1>3. EnvInv => EnvelopeSpeaksTrue
    BY EditSafe, CloneSafe DEF EnvInv, WireInv, EnvelopeSpeaksTrue
  <1> QED BY <1>1, <1>2, <1>3, PTL DEF EnvSpec

=============================================================================

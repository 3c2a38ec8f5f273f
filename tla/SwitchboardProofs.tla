-------------------------- MODULE SwitchboardProofs --------------------------
(***************************************************************************)
(* The relay keeps every object and close() drains it, for any set of      *)
(* objects and any queue capacity.                                         *)
(***************************************************************************)
EXTENDS Switchboard, SequenceTheorems, TLAPS

(***************************************************************************)
(* Queues with at most one sentinel                                        *)
(***************************************************************************)
Queue == Seq(Objects \cup {Stop})

HasStop(q) == \E k \in 1..Len(q) : q[k] = Stop

OneStop(q) == \A j, k \in 1..Len(q) : q[j] = Stop /\ q[k] = Stop => j = k

\* Without a sentinel nothing is removed.
LEMMA RemoveNone ==
  ASSUME NEW q \in Queue, ~HasStop(q)
  PROVE  RemoveFirst(q, Stop) = q /\ q \in Seq(Objects)
  <1>1. RemoveFirst(q, Stop) = q
    BY DEF RemoveFirst, HasStop
  <1>2. \A k \in 1..Len(q) : q[k] \in Objects
    BY DEF HasStop, Queue
  <1>3. q \in [1..Len(q) -> Objects] /\ Len(q) \in Nat
    BY <1>2 DEF Queue
  <1> QED BY <1>1, <1>3, SeqDef

\* A queue without its one sentinel, place by place.
LEMMA RemoveOne ==
  ASSUME NEW q \in Queue, OneStop(q), NEW k \in 1..Len(q), q[k] = Stop
  PROVE  /\ RemoveFirst(q, Stop) \in Seq(Objects)
         /\ Len(RemoveFirst(q, Stop)) = Len(q) - 1
         /\ \A i \in 1..(Len(q) - 1) :
              RemoveFirst(q, Stop)[i] = IF i < k THEN q[i] ELSE q[i + 1]
  <1> DEFINE I == {i \in 1..Len(q) : q[i] = Stop}
             u == SubSeq(q, 1, k - 1) \o SubSeq(q, k + 1, Len(q))
  <1>1. I = {k}
    BY DEF OneStop
  <1>2. Min(I) = k
    <2>1. k \in Int
      BY DEF Queue
    <2> QED BY <1>1, <2>1 DEF Min
  <1>3. RemoveFirst(q, Stop) = u
    BY <1>1, <1>2 DEF RemoveFirst, SelectInSeq, RemoveAt
  <1>4. /\ Len(q) \in Nat /\ k \in Nat
        /\ SubSeq(q, 1, k - 1) \in Queue /\ SubSeq(q, k + 1, Len(q)) \in Queue
        /\ Len(SubSeq(q, 1, k - 1)) = k - 1
        /\ \A i \in 1..(k - 1) : SubSeq(q, 1, k - 1)[i] = q[i]
        /\ Len(SubSeq(q, k + 1, Len(q))) = Len(q) - k
        /\ \A i \in 1..(Len(q) - k) : SubSeq(q, k + 1, Len(q))[i] = q[k + i]
    BY DEF Queue
  <1>5. /\ u \in Queue /\ Len(u) = Len(q) - 1
        /\ \A i \in 1..(Len(q) - 1) : u[i] = IF i < k THEN q[i] ELSE q[i + 1]
    <2> DEFINE a == SubSeq(q, 1, k - 1)
               b == SubSeq(q, k + 1, Len(q))
    <2> HIDE DEF a, b
    <2>1. /\ a \in Seq(Objects \cup {Stop}) /\ b \in Seq(Objects \cup {Stop})
          /\ Len(a) = k - 1 /\ Len(b) = Len(q) - k
          /\ \A i \in 1..(k - 1) : a[i] = q[i]
          /\ \A i \in 1..(Len(q) - k) : b[i] = q[k + i]
      BY <1>4 DEF a, b, Queue
    <2>2. a \o b \in Queue /\ Len(a \o b) = Len(q) - 1
      <3>1. a \o b \in Seq(Objects \cup {Stop}) /\ Len(a \o b) = Len(a) + Len(b)
        BY <2>1, ConcatProperties
      <3> QED BY <1>4, <2>1, <3>1 DEF Queue
    <2>3. ASSUME NEW i \in 1..(Len(q) - 1)
          PROVE  (a \o b)[i] = IF i < k THEN q[i] ELSE q[i + 1]
      <3>1. CASE i < k
        <4>1. i \in 1..Len(a) /\ i \in 1..(k - 1)
          BY <1>4, <2>1, <3>1
        <4> QED BY <2>1, <3>1, <4>1
      <3>2. CASE ~(i < k)
        <4>1. i - (k - 1) \in 1..(Len(q) - k) /\ k + (i - (k - 1)) = i + 1
          BY <1>4, <3>2
        <4>2. b[i - (k - 1)] = q[i + 1]
          BY <2>1, <4>1
        <4>3. (a \o b)[i] = b[i - Len(a)]
          BY <1>4, <2>1, <3>2
        <4> QED BY <2>1, <3>2, <4>2, <4>3
      <3> QED BY <3>1, <3>2
    <2> QED BY <2>2, <2>3 DEF a, b
  <1> HIDE DEF u
  <1>6. \A i \in 1..Len(u) : u[i] \in Objects
    <2> SUFFICES ASSUME NEW i \in 1..Len(u) PROVE u[i] \in Objects
      OBVIOUS
    <2>1. u[i] \in Objects \cup {Stop}
      BY <1>5 DEF Queue
    <2>2. u[i] # Stop
      BY <1>4, <1>5 DEF OneStop
    <2> QED BY <2>1, <2>2
  <1>7. u \in [1..Len(u) -> Objects] /\ Len(u) \in Nat
    BY <1>5, <1>6 DEF Queue
  <1>8. u \in Seq(Objects)
    BY <1>7, SeqDef
  <1> QED BY <1>3, <1>5, <1>8

\* What the senders, the pump and close() do to a queue without its sentinel.
LEMMA RemoveTyped ==
  ASSUME NEW q \in Queue, OneStop(q)
  PROVE  RemoveFirst(q, Stop) \in Seq(Objects)
  BY RemoveNone, RemoveOne DEF HasStop

LEMMA RemoveAppend ==
  ASSUME NEW q \in Queue, OneStop(q), NEW x \in Objects
  PROVE  /\ OneStop(Append(q, x))
         /\ HasStop(Append(q, x)) <=> HasStop(q)
         /\ RemoveFirst(Append(q, x), Stop) = RemoveFirst(q, Stop) \o <<x>>
  <1> DEFINE p == Append(q, x)
  <1>1. /\ p \in Queue /\ Len(p) = Len(q) + 1 /\ Len(q) \in Nat /\ p[Len(q) + 1] = x
        /\ \A k \in 1..Len(q) : p[k] = q[k]
    BY DEF Queue
  <1>2. x # Stop
    BY SwitchboardConstants
  <1> HIDE DEF p
  <1>3. \A k \in 1..Len(p) : p[k] = Stop <=> k \in 1..Len(q) /\ q[k] = Stop
    BY <1>1, <1>2
  <1>4. OneStop(p) /\ (HasStop(p) <=> HasStop(q))
    BY <1>1, <1>3 DEF OneStop, HasStop
  <1>5. RemoveFirst(p, Stop) = RemoveFirst(q, Stop) \o <<x>>
    <2>1. CASE ~HasStop(q)
      <3>1. RemoveFirst(p, Stop) = p /\ RemoveFirst(q, Stop) = q
        BY <1>1, <1>4, <2>1, RemoveNone
      <3> QED BY <3>1, AppendIsConcat DEF p, Queue
    <2>2. CASE HasStop(q)
      <3>1. PICK k \in 1..Len(q) : q[k] = Stop
        BY <2>2 DEF HasStop
      <3>2. /\ RemoveFirst(q, Stop) \in Seq(Objects)
            /\ Len(RemoveFirst(q, Stop)) = Len(q) - 1
            /\ \A i \in 1..(Len(q) - 1) :
                 RemoveFirst(q, Stop)[i] = IF i < k THEN q[i] ELSE q[i + 1]
        BY <3>1, RemoveOne
      <3>3. k \in 1..Len(p) /\ p[k] = Stop
        BY <1>1, <3>1
      <3>4. /\ RemoveFirst(p, Stop) \in Seq(Objects)
            /\ Len(RemoveFirst(p, Stop)) = Len(p) - 1
            /\ \A i \in 1..(Len(p) - 1) :
                 RemoveFirst(p, Stop)[i] = IF i < k THEN p[i] ELSE p[i + 1]
        BY <1>1, <1>4, <3>3, RemoveOne
      <3> DEFINE a == RemoveFirst(p, Stop)
                 b == RemoveFirst(q, Stop)
      <3> HIDE DEF a, b
      <3>5. /\ b \o <<x>> \in Seq(Objects) /\ Len(b \o <<x>>) = Len(q)
            /\ \A i \in 1..(Len(q) - 1) : (b \o <<x>>)[i] = b[i]
            /\ (b \o <<x>>)[Len(q)] = x
        BY <1>1, <3>1, <3>2 DEF b
      <3>6. a \in Seq(Objects) /\ Len(a) = Len(q)
        BY <1>1, <3>4 DEF a
      <3>7. \A i \in 1..Len(q) : a[i] = (b \o <<x>>)[i]
        <4> SUFFICES ASSUME NEW i \in 1..Len(q) PROVE a[i] = (b \o <<x>>)[i]
          OBVIOUS
        <4>1. a[i] = IF i < k THEN p[i] ELSE p[i + 1]
          BY <1>1, <3>4 DEF a
        <4>2. CASE i = Len(q)
          BY <1>1, <3>1, <3>5, <4>1, <4>2
        <4>3. CASE i # Len(q)
          <5>1. i \in 1..(Len(q) - 1) /\ b[i] = IF i < k THEN q[i] ELSE q[i + 1]
            BY <1>1, <3>2, <4>3 DEF b
          <5>2. i \in 1..Len(q) /\ i + 1 \in 1..Len(q)
            BY <1>1, <5>1
          <5> QED BY <1>1, <3>5, <4>1, <5>1, <5>2
        <4> QED BY <4>2, <4>3
      <3>8. a = b \o <<x>>
        BY <3>5, <3>6, <3>7, SeqEqual
      <3> QED BY <3>8 DEF a, b
    <2> QED BY <2>1, <2>2
  <1> QED BY <1>4, <1>5 DEF p

LEMMA RemoveStopped ==
  ASSUME NEW q \in Queue, ~HasStop(q)
  PROVE  /\ OneStop(Append(q, Stop)) /\ HasStop(Append(q, Stop))
         /\ RemoveFirst(Append(q, Stop), Stop) = q
  <1> DEFINE p == Append(q, Stop)
  <1>1. /\ p \in Queue /\ Len(p) = Len(q) + 1 /\ Len(q) \in Nat /\ p[Len(q) + 1] = Stop
        /\ \A k \in 1..Len(q) : p[k] = q[k]
    BY DEF Queue
  <1> HIDE DEF p
  <1>2. \A k \in 1..Len(p) : p[k] = Stop <=> k = Len(q) + 1
    BY <1>1 DEF HasStop
  <1>3. Len(q) + 1 \in 1..Len(p)
    BY <1>1
  <1>4. OneStop(p) /\ HasStop(p)
    BY <1>1, <1>2, <1>3 DEF OneStop, HasStop
  <1>5. /\ RemoveFirst(p, Stop) \in Seq(Objects)
        /\ Len(RemoveFirst(p, Stop)) = Len(p) - 1
        /\ \A i \in 1..(Len(p) - 1) :
             RemoveFirst(p, Stop)[i] = IF i < Len(q) + 1 THEN p[i] ELSE p[i + 1]
    BY <1>1, <1>3, <1>4, RemoveOne
  <1>6. q \in Seq(Objects)
    BY RemoveNone
  <1>7. RemoveFirst(p, Stop) = q
    BY <1>1, <1>5, <1>6, SeqEqual
  <1> QED BY <1>4, <1>7 DEF p

LEMMA RemoveTail ==
  ASSUME NEW q \in Queue, OneStop(q), q # << >>
  PROVE  /\ Tail(q) \in Queue /\ OneStop(Tail(q))
         /\ Head(q) = Stop => ~HasStop(Tail(q)) /\ RemoveFirst(q, Stop) = Tail(q)
         /\ Head(q) # Stop =>
              /\ Head(q) \in Objects /\ (HasStop(Tail(q)) <=> HasStop(q))
              /\ RemoveFirst(q, Stop) = <<Head(q)>> \o RemoveFirst(Tail(q), Stop)
  <1> DEFINE t == Tail(q)
             h == Head(q)
  <1>1. /\ t \in Queue /\ Len(q) \in Nat \ {0} /\ Len(t) = Len(q) - 1 /\ h = q[1]
        /\ h \in Objects \cup {Stop}
        /\ \A k \in 1..(Len(q) - 1) : t[k] = q[k + 1]
    BY DEF Queue
  <1> HIDE DEF t, h
  <1>2. OneStop(t)
    BY <1>1 DEF OneStop
  <1>3. ASSUME h = Stop PROVE ~HasStop(t) /\ RemoveFirst(q, Stop) = t
    <2>1. 1 \in 1..Len(q) /\ q[1] = Stop
      BY <1>1, <1>3
    <2>2. ~HasStop(t)
      BY <1>1, <2>1 DEF OneStop, HasStop
    <2>3. t \in Seq(Objects)
      BY <1>1, <2>2, RemoveNone
    <2>4. /\ RemoveFirst(q, Stop) \in Seq(Objects)
          /\ Len(RemoveFirst(q, Stop)) = Len(q) - 1
          /\ \A i \in 1..(Len(q) - 1) :
               RemoveFirst(q, Stop)[i] = IF i < 1 THEN q[i] ELSE q[i + 1]
      BY <2>1, RemoveOne
    <2> QED BY <1>1, <2>2, <2>3, <2>4, SeqEqual
  <1>4. ASSUME h # Stop
        PROVE  /\ h \in Objects /\ (HasStop(t) <=> HasStop(q))
               /\ RemoveFirst(q, Stop) = <<h>> \o RemoveFirst(t, Stop)
    <2>1. h \in Objects /\ q[1] # Stop
      BY <1>1, <1>4
    <2>2. \A k \in 1..Len(q) : q[k] = Stop => k # 1 /\ k - 1 \in 1..Len(t) /\ t[k - 1] = Stop
      BY <1>1, <2>1
    <2>3. HasStop(t) <=> HasStop(q)
      BY <1>1, <2>2 DEF HasStop
    <2>4. CASE ~HasStop(q)
      <3>1. RemoveFirst(q, Stop) = q /\ RemoveFirst(t, Stop) = t /\ t \in Seq(Objects) /\ q \in Seq(Objects)
        BY <1>1, <2>3, <2>4, RemoveNone
      <3>2. q = <<h>> \o t
        BY <1>1, <2>1, <3>1, SeqEqual DEF t, h
      <3> QED BY <2>1, <2>3, <3>1, <3>2
    <2>5. CASE HasStop(q)
      <3>1. PICK k \in 1..Len(q) : q[k] = Stop
        BY <2>5 DEF HasStop
      <3>2. k - 1 \in 1..Len(t) /\ t[k - 1] = Stop /\ k \in Nat
        BY <1>1, <2>2, <3>1
      <3> DEFINE a == RemoveFirst(q, Stop)
                 b == RemoveFirst(t, Stop)
      <3>3. /\ a \in Seq(Objects) /\ Len(a) = Len(q) - 1
            /\ \A i \in 1..(Len(q) - 1) : a[i] = IF i < k THEN q[i] ELSE q[i + 1]
        BY <3>1, RemoveOne
      <3>4. /\ b \in Seq(Objects) /\ Len(b) = Len(t) - 1
            /\ \A i \in 1..(Len(t) - 1) : b[i] = IF i < k - 1 THEN t[i] ELSE t[i + 1]
        BY <1>1, <1>2, <3>2, RemoveOne
      <3> HIDE DEF a, b
      <3>5. /\ <<h>> \o b \in Seq(Objects) /\ Len(<<h>> \o b) = Len(q) - 1
            /\ (<<h>> \o b)[1] = h
            /\ \A i \in 2..(Len(q) - 1) : (<<h>> \o b)[i] = b[i - 1]
        BY <1>1, <2>1, <3>2, <3>4
      <3>6. \A i \in 1..Len(a) : a[i] = (<<h>> \o b)[i]
        <4> SUFFICES ASSUME NEW i \in 1..Len(a) PROVE a[i] = (<<h>> \o b)[i]
          OBVIOUS
        <4>1. CASE i = 1
          BY <1>1, <3>2, <3>3, <3>5, <4>1
        <4>2. CASE i # 1
          <5>1. i \in 2..(Len(q) - 1) /\ i - 1 \in 1..(Len(t) - 1)
            BY <1>1, <3>3, <4>2
          <5>2. b[i - 1] = IF i < k THEN t[i - 1] ELSE t[i]
            BY <1>1, <3>2, <3>4, <5>1
          <5>3. t[i - 1] = q[i] /\ t[i] = q[i + 1]
            BY <1>1, <5>1
          <5> QED BY <3>3, <3>5, <5>1, <5>2, <5>3
        <4> QED BY <4>1, <4>2
      <3>7. a = <<h>> \o b
        BY <3>3, <3>5, <3>6, SeqEqual
      <3> QED BY <2>1, <2>3, <3>7 DEF a, b
    <2> QED BY <2>4, <2>5
  <1> QED BY <1>1, <1>2, <1>3, <1>4 DEF t, h

(***************************************************************************)
(* The inductive invariant                                                 *)
(***************************************************************************)
\* close() has not yet put the sentinel of direction d.
StopPending(d) ==
  closer \in IF d = "lr" THEN {"idle", "stop-lr"} ELSE {"idle", "stop-lr", "stop-rl"}

Relayed(d) == received[d] \o out[d] \o held[d]

\* One direction of the relay: one sentinel at most, put by close() and consumed
\* by the pump's exit; everything sent accounted for; and the place of the
\* sentinel tells how many objects went before it.
Lane(d) ==
  /\ OneStop(in[d])
  /\ StopPending(d) => ~HasStop(in[d]) /\ pump[d] # "exited"
  /\ pump[d] = "exited" => ~HasStop(in[d])
  /\ sent[d] = Relayed(d) \o RemoveFirst(in[d], Stop)
  /\ ~HasStop(in[d]) /\ pump[d] # "exited" => early[d] = Len(sent[d])
  /\ pump[d] = "exited" => early[d] = Len(Relayed(d))
  /\ \A k \in 1..Len(in[d]) : in[d][k] = Stop => early[d] = Len(Relayed(d)) + k - 1

\* close() goes on only past pumps that have exited.
Joined ==
  /\ closer \in {"join-rl", "closed"} => pump["lr"] = "exited"
  /\ closer = "closed" => pump["rl"] = "exited"

RelayInv == TypeOK /\ Joined /\ \A d \in Directions : Lane(d)

LEMMA LaneTyped ==
  ASSUME TypeOK, NEW d \in Directions
  PROVE  /\ in[d] \in Queue /\ out[d] \in Seq(Objects) /\ held[d] \in Seq(Objects)
         /\ sent[d] \in Seq(Objects) /\ received[d] \in Seq(Objects)
         /\ early[d] \in Nat /\ Relayed(d) \in Seq(Objects)
         /\ Len(Relayed(d)) = Len(received[d]) + Len(out[d]) + Len(held[d])
         /\ pump[d] # "put" => held[d] = << >>
         /\ pump[d] = "put" => held[d] = <<held[d][1]>> /\ held[d][1] \in Objects
  <1>1. /\ in[d] \in Queue /\ out[d] \in Seq(Objects) /\ held[d] \in Seq(Objects)
        /\ sent[d] \in Seq(Objects) /\ received[d] \in Seq(Objects)
        /\ early[d] \in Nat
    BY DEF TypeOK, Queue
  <1>2. Relayed(d) \in Seq(Objects) /\ Len(Relayed(d)) = Len(received[d]) + Len(out[d]) + Len(held[d])
    BY <1>1 DEF Relayed
  <1>3. Len(held[d]) = IF pump[d] = "put" THEN 1 ELSE 0
    BY DEF TypeOK
  <1>4. ASSUME pump[d] # "put" PROVE held[d] = << >>
    BY <1>1, <1>3, <1>4, EmptySeq
  <1>5. ASSUME pump[d] = "put" PROVE held[d] = <<held[d][1]>> /\ held[d][1] \in Objects
    BY <1>1, <1>3, <1>5
  <1> QED BY <1>1, <1>2, <1>4, <1>5

\* A direction whose queues no step touches stays as it is.
LEMMA LaneStays ==
  ASSUME RelayInv, NEW d \in Directions,
         in'[d] = in[d], out'[d] = out[d], pump'[d] = pump[d], held'[d] = held[d],
         sent'[d] = sent[d], received'[d] = received[d], early'[d] = early[d],
         StopPending(d)' => StopPending(d)
  PROVE  Lane(d)'
  BY DEF RelayInv, Lane, Relayed

LEMMA InitRelay == Init => RelayInv
  <1> SUFFICES ASSUME Init PROVE RelayInv
    OBVIOUS
  <1>1. TypeOK
    BY SwitchboardConstants DEF Init, TypeOK, Directions
  <1>2. ASSUME NEW d \in Directions PROVE Lane(d)
    <2>1. /\ in[d] = << >> /\ out[d] = << >> /\ held[d] = << >> /\ sent[d] = << >>
          /\ received[d] = << >> /\ pump[d] = "get" /\ early[d] = 0
      BY DEF Init
    <2>2. ~HasStop(in[d]) /\ OneStop(in[d])
      BY <2>1 DEF HasStop, OneStop
    <2>3. RemoveFirst(in[d], Stop) = << >>
      BY <2>1, <2>2, <1>1, RemoveNone, LaneTyped
    <2>4. Relayed(d) = << >>
      BY <2>1 DEF Relayed
    <2> QED BY <2>1, <2>2, <2>3, <2>4 DEF Lane
  <1>3. Joined
    BY DEF Init, Joined
  <1> QED BY <1>1, <1>2, <1>3 DEF RelayInv

LEMMA SendKeeps ==
  ASSUME RelayInv, NEW x \in Objects, Send(x)
  PROVE  RelayInv'
  <1> DEFINE d == Direction[x]
  <1>1. d \in Directions
    BY SwitchboardConstants
  <1>2. /\ ~Full(in[d])
        /\ in' = [in EXCEPT ![d] = Append(in[d], x)]
        /\ sent' = [sent EXCEPT ![d] = Append(sent[d], x)]
        /\ early' = [early EXCEPT ![d] = IF HasStop(in[d]) \/ pump[d] = "exited"
                                         THEN early[d] ELSE early[d] + 1]
        /\ UNCHANGED <<out, pump, held, closer, received>>
    BY DEF Send, Contains, HasStop
  <1> HIDE DEF d
  <1>3. /\ in[d] \in Queue /\ sent[d] \in Seq(Objects) /\ Relayed(d) \in Seq(Objects)
        /\ early[d] \in Nat
    BY <1>1, LaneTyped DEF RelayInv
  <1>4. /\ in'[d] = Append(in[d], x) /\ sent'[d] = Append(sent[d], x)
        /\ early'[d] = IF HasStop(in[d]) \/ pump[d] = "exited" THEN early[d] ELSE early[d] + 1
        /\ Relayed(d)' = Relayed(d)
    BY <1>1, <1>2 DEF RelayInv, TypeOK, Relayed
  <1>5. TypeOK'
    <2>1. Append(in[d], x) \in Seq(Objects \cup {Stop}) /\ Append(sent[d], x) \in Seq(Objects)
      BY <1>3 DEF Queue
    <2>2. (IF HasStop(in[d]) \/ pump[d] = "exited" THEN early[d] ELSE early[d] + 1) \in Nat
      BY <1>3
    <2>3. /\ in' \in [Directions -> Seq(Objects \cup {Stop})]
          /\ sent' \in [Directions -> Seq(Objects)]
          /\ early' \in [Directions -> Nat]
      BY <1>1, <1>2, <2>1, <2>2 DEF RelayInv, TypeOK
    <2>4. ASSUME NEW c \in Directions, Capacity > 0 PROVE Len(in'[c]) <= Capacity
      <3>1. CASE c = d
        <4>1. Len(in[d]) < Capacity /\ Len(in[d]) \in Nat
          BY <1>2, <1>3, <2>4, SwitchboardConstants DEF Full, Queue
        <4>2. Len(in'[d]) = Len(in[d]) + 1
          BY <1>3, <1>4 DEF Queue
        <4> QED BY <3>1, <4>1, <4>2, SwitchboardConstants
      <3>2. CASE c # d
        BY <1>2, <2>4, <3>2 DEF RelayInv, TypeOK
      <3> QED BY <3>1, <3>2
    <2> QED BY <1>2, <2>3, <2>4 DEF RelayInv, TypeOK
  <1>6. Lane(d)'
    <2>1. /\ OneStop(in[d]) /\ sent[d] = Relayed(d) \o RemoveFirst(in[d], Stop)
          /\ StopPending(d) => ~HasStop(in[d]) /\ pump[d] # "exited"
          /\ pump[d] = "exited" => ~HasStop(in[d])
          /\ ~HasStop(in[d]) /\ pump[d] # "exited" => early[d] = Len(sent[d])
          /\ pump[d] = "exited" => early[d] = Len(Relayed(d))
          /\ \A k \in 1..Len(in[d]) : in[d][k] = Stop => early[d] = Len(Relayed(d)) + k - 1
      BY <1>1 DEF RelayInv, Lane
    <2>2. /\ OneStop(in'[d]) /\ (HasStop(in'[d]) <=> HasStop(in[d]))
          /\ RemoveFirst(in'[d], Stop) = RemoveFirst(in[d], Stop) \o <<x>>
      BY <1>3, <1>4, <2>1, RemoveAppend
    <2>3. sent'[d] = Relayed(d) \o RemoveFirst(in'[d], Stop)
      <3>1. RemoveFirst(in[d], Stop) \in Seq(Objects) /\ <<x>> \in Seq(Objects)
        BY <1>3, <2>1, RemoveTyped
      <3>2. sent'[d] = sent[d] \o <<x>>
        BY <1>3, <1>4, AppendIsConcat
      <3> QED BY <1>3, <2>1, <2>2, <3>1, <3>2, ConcatAssociative
    <2>4. Len(sent'[d]) = Len(sent[d]) + 1
      BY <1>3, <1>4
    <2>5. ASSUME NEW k \in 1..Len(in'[d]), in'[d][k] = Stop
          PROVE  early'[d] = Len(Relayed(d)) + k - 1
      <3>1. k \in 1..Len(in[d]) /\ in[d][k] = Stop
        BY <1>3, <1>4, <2>5, SwitchboardConstants DEF Queue
      <3>2. HasStop(in[d])
        BY <3>1 DEF HasStop
      <3> QED BY <1>4, <2>1, <3>1, <3>2
    <2>6. pump'[d] = pump[d] /\ (StopPending(d)' <=> StopPending(d))
      BY <1>2 DEF StopPending
    <2>7. ~HasStop(in'[d]) /\ pump'[d] # "exited" => early'[d] = Len(sent'[d])
      BY <1>4, <2>1, <2>2, <2>4, <2>6
    <2>8. pump'[d] = "exited" => early'[d] = Len(Relayed(d))
      BY <1>4, <2>1, <2>6
    <2> QED BY <1>4, <2>1, <2>2, <2>3, <2>5, <2>6, <2>7, <2>8 DEF Lane
  <1>7. ASSUME NEW c \in Directions, c # d PROVE Lane(c)'
    BY <1>2, <1>7, LaneStays DEF RelayInv, TypeOK, StopPending
  <1>8. Joined'
    BY <1>2 DEF RelayInv, Joined
  <1> QED BY <1>5, <1>6, <1>7, <1>8 DEF RelayInv

\* Moving the head of one sequence to the end of another changes nothing in all.
LEMMA MoveHead ==
  ASSUME NEW r \in Seq(Objects), NEW o \in Seq(Objects), o # << >>
  PROVE  Append(r, Head(o)) \o Tail(o) = r \o o
  <1> DEFINE h == Head(o)
             t == Tail(o)
  <1>1. h \in Objects /\ t \in Seq(Objects)
    OBVIOUS
  <1>2. <<h>> \in Seq(Objects)
    BY <1>1
  <1>3. o = <<h>> \o t
    BY <1>1, <1>2, SeqEqual
  <1> HIDE DEF h, t
  <1>4. Append(r, h) = r \o <<h>>
    BY <1>1, AppendIsConcat
  <1>5. (r \o <<h>>) \o t = r \o (<<h>> \o t)
    BY <1>1, <1>2, ConcatAssociative
  <1>6. Append(r, h) \o t = r \o o
    BY <1>3, <1>4, <1>5
  <1> QED BY <1>6 DEF h, t

LEMMA RecvKeeps ==
  ASSUME RelayInv, NEW d \in Directions, Recv(d)
  PROVE  RelayInv'
  <1>1. /\ out[d] # << >>
        /\ received' = [received EXCEPT ![d] = Append(received[d], Head(out[d]))]
        /\ out' = [out EXCEPT ![d] = Tail(out[d])]
        /\ UNCHANGED <<in, pump, held, closer, sent, early>>
    BY DEF Recv
  <1>2. /\ in[d] \in Queue /\ received[d] \in Seq(Objects) /\ out[d] \in Seq(Objects)
        /\ held[d] \in Seq(Objects)
    BY LaneTyped DEF RelayInv
  <1>3. received'[d] = Append(received[d], Head(out[d])) /\ out'[d] = Tail(out[d])
    BY <1>1 DEF RelayInv, TypeOK
  <1>4. /\ Head(out[d]) \in Objects /\ Tail(out[d]) \in Seq(Objects)
        /\ Len(Tail(out[d])) = Len(out[d]) - 1 /\ Len(out[d]) \in Nat
    BY <1>1, <1>2
  <1>5. TypeOK'
    <2>1. /\ received' \in [Directions -> Seq(Objects)]
          /\ out' \in [Directions -> Seq(Objects)]
      BY <1>1, <1>2, <1>4 DEF RelayInv, TypeOK
    <2>2. ASSUME NEW c \in Directions, Capacity > 0 PROVE Len(out'[c]) <= Capacity
      <3>1. Len(out[c]) <= Capacity
        BY <2>2 DEF RelayInv, TypeOK
      <3>2. CASE c = d
        <4>1. Len(out'[d]) = Len(out[d]) - 1 /\ Len(out[d]) <= Capacity
          BY <1>3, <1>4, <3>1, <3>2
        <4>2. Len(out[d]) \in Nat /\ Capacity \in Nat
          BY <1>4, SwitchboardConstants
        <4>3. Len(out'[d]) <= Capacity
          BY <4>1, <4>2
        <4> QED BY <3>2, <4>3
      <3>3. CASE c # d
        BY <1>1, <3>1, <3>3 DEF RelayInv, TypeOK
      <3> QED BY <3>2, <3>3
    <2> QED BY <1>1, <2>1, <2>2 DEF RelayInv, TypeOK
  <1>6. Relayed(d)' = Relayed(d)
    <2>1. received'[d] \o out'[d] = received[d] \o out[d]
      BY <1>1, <1>2, <1>3, MoveHead
    <2> QED BY <1>1, <2>1 DEF Relayed
  <1>7. Lane(d)'
    <2>1. /\ in'[d] = in[d] /\ pump'[d] = pump[d] /\ sent'[d] = sent[d] /\ early'[d] = early[d]
          /\ StopPending(d)' <=> StopPending(d)
      BY <1>1 DEF StopPending
    <2> QED BY <1>6, <2>1 DEF RelayInv, Lane
  <1>8. ASSUME NEW c \in Directions, c # d PROVE Lane(c)'
    BY <1>1, <1>8, LaneStays DEF RelayInv, TypeOK, StopPending
  <1>9. Joined'
    BY <1>1 DEF RelayInv, Joined
  <1> QED BY <1>5, <1>7, <1>8, <1>9 DEF RelayInv

LEMMA PumpGetKeeps ==
  ASSUME RelayInv, NEW d \in Directions, PumpGet(d)
  PROVE  RelayInv'
  <1> DEFINE h == Head(in[d])
             t == Tail(in[d])
  <1>1. /\ pump[d] = "get" /\ in[d] # << >>
        /\ in' = [in EXCEPT ![d] = t]
        /\ h = Stop => pump' = [pump EXCEPT ![d] = "exited"] /\ held' = held
        /\ h # Stop => /\ pump' = [pump EXCEPT ![d] = "put"]
                       /\ held' = [held EXCEPT ![d] = <<h>>]
        /\ UNCHANGED <<out, closer, sent, received, early>>
    BY DEF PumpGet, Taken
  <1>2. /\ in[d] \in Queue /\ received[d] \in Seq(Objects) /\ out[d] \in Seq(Objects)
        /\ held[d] = << >> /\ Relayed(d) \in Seq(Objects) /\ early[d] \in Nat
    BY <1>1, LaneTyped DEF RelayInv
  <1>3. /\ OneStop(in[d]) /\ sent[d] = Relayed(d) \o RemoveFirst(in[d], Stop)
        /\ StopPending(d) => ~HasStop(in[d])
        /\ ~HasStop(in[d]) => early[d] = Len(sent[d])
        /\ \A k \in 1..Len(in[d]) : in[d][k] = Stop => early[d] = Len(Relayed(d)) + k - 1
    BY <1>1 DEF RelayInv, Lane
  <1>4. /\ t \in Queue /\ OneStop(t)
        /\ h = Stop => ~HasStop(t) /\ RemoveFirst(in[d], Stop) = t
        /\ h # Stop => /\ h \in Objects /\ (HasStop(t) <=> HasStop(in[d]))
                       /\ RemoveFirst(in[d], Stop) = <<h>> \o RemoveFirst(t, Stop)
    BY <1>1, <1>2, <1>3, RemoveTail
  <1>5. /\ Len(in[d]) \in Nat \ {0} /\ Len(t) = Len(in[d]) - 1 /\ h = in[d][1]
        /\ \A k \in 1..Len(t) : t[k] = in[d][k + 1]
    BY <1>1, <1>2 DEF Queue
  <1> HIDE DEF h, t
  <1>6. in'[d] = t /\ early'[d] = early[d] /\ sent'[d] = sent[d]
    BY <1>1 DEF RelayInv, TypeOK
  <1>7. TypeOK'
    <2>1. in' \in [Directions -> Seq(Objects \cup {Stop})]
      BY <1>1, <1>4 DEF RelayInv, TypeOK, Queue
    <2>2. /\ pump' \in [Directions -> {"get", "put", "exited"}]
          /\ held' \in [Directions -> Seq(Objects)]
          /\ \A c \in Directions : Len(held'[c]) = IF pump'[c] = "put" THEN 1 ELSE 0
      <3>1. CASE h = Stop
        BY <1>1, <3>1 DEF RelayInv, TypeOK
      <3>2. CASE h # Stop
        <4>1. <<h>> \in Seq(Objects) /\ Len(<<h>>) = 1
          BY <1>4, <3>2
        <4> QED BY <1>1, <3>2, <4>1 DEF RelayInv, TypeOK
      <3> QED BY <3>1, <3>2
    <2>3. ASSUME NEW c \in Directions, Capacity > 0 PROVE Len(in'[c]) <= Capacity
      <3>1. Len(in[c]) <= Capacity
        BY <2>3 DEF RelayInv, TypeOK
      <3>2. CASE c = d
        <4>1. Len(in'[d]) = Len(in[d]) - 1 /\ Len(in[d]) <= Capacity
          BY <1>5, <1>6, <3>1, <3>2
        <4>2. Len(in'[d]) <= Capacity
          BY <1>5, <4>1, SwitchboardConstants
        <4> QED BY <3>2, <4>2
      <3>3. CASE c # d
        BY <1>1, <3>1, <3>3 DEF RelayInv, TypeOK
      <3> QED BY <3>2, <3>3
    <2> QED BY <1>1, <2>1, <2>2, <2>3 DEF RelayInv, TypeOK
  <1>8. Lane(d)'
    <2>1. StopPending(d)' <=> StopPending(d)
      BY <1>1 DEF StopPending
    <2>2. CASE h = Stop
      <3>1. pump'[d] = "exited" /\ Relayed(d)' = Relayed(d)
        BY <1>1, <2>2 DEF RelayInv, TypeOK, Relayed
      <3>2. HasStop(in[d]) /\ early[d] = Len(Relayed(d))
        <4>1. 1 \in 1..Len(in[d]) /\ in[d][1] = Stop
          BY <1>5, <2>2
        <4>2. early[d] = Len(Relayed(d)) + 1 - 1
          BY <1>3, <4>1
        <4> QED BY <1>2, <4>1, <4>2 DEF HasStop
      <3>3. ~HasStop(t) /\ RemoveFirst(t, Stop) = t
        BY <1>4, <2>2, RemoveNone
      <3>4. \A k \in 1..Len(t) : t[k] # Stop
        BY <3>3 DEF HasStop
      <3> QED BY <1>3, <1>4, <1>6, <2>1, <2>2, <3>1, <3>2, <3>3, <3>4 DEF Lane
    <2>3. CASE h # Stop
      <3>1. pump'[d] = "put" /\ held'[d] = <<h>>
        BY <1>1, <2>3 DEF RelayInv, TypeOK
      <3>2. <<h>> \in Seq(Objects) /\ RemoveFirst(t, Stop) \in Seq(Objects)
        BY <1>4, <2>3, RemoveTyped
      <3>3. Relayed(d) = received[d] \o out[d] /\ received[d] \o out[d] \in Seq(Objects)
        BY <1>2 DEF Relayed
      <3>4. Relayed(d)' = Relayed(d) \o <<h>>
        BY <1>1, <3>1, <3>3 DEF Relayed
      <3>5. Len(Relayed(d)') = Len(Relayed(d)) + 1 /\ Len(Relayed(d)) \in Nat
        BY <1>2, <3>2, <3>4
      <3>6. sent[d] = Relayed(d)' \o RemoveFirst(t, Stop)
        <4> DEFINE r == RemoveFirst(t, Stop)
        <4>1. r \in Seq(Objects)
          BY <3>2
        <4> HIDE DEF r
        <4>2. (Relayed(d) \o <<h>>) \o r = Relayed(d) \o (<<h>> \o r)
          BY <1>2, <3>2, <4>1, ConcatAssociative
        <4>3. sent[d] = Relayed(d) \o (<<h>> \o r)
          BY <1>3, <1>4, <2>3, Zenon DEF r
        <4> QED BY <3>4, <4>2, <4>3, Zenon DEF r
      <3>7. ASSUME NEW k \in 1..Len(t), t[k] = Stop
            PROVE  early[d] = Len(Relayed(d)') + k - 1
        <4>1. k + 1 \in 1..Len(in[d]) /\ in[d][k + 1] = Stop
          BY <1>5, <3>7
        <4>2. early[d] = Len(Relayed(d)) + (k + 1) - 1
          BY <1>3, <4>1
        <4> QED BY <1>5, <3>5, <4>2
      <3> QED BY <1>3, <1>4, <1>6, <2>1, <2>3, <3>1, <3>6, <3>7 DEF Lane
    <2> QED BY <2>2, <2>3
  <1>9. ASSUME NEW c \in Directions, c # d PROVE Lane(c)'
    <2>1. in'[c] = in[c] /\ pump'[c] = pump[c] /\ held'[c] = held[c]
      BY <1>1, <1>9 DEF RelayInv, TypeOK
    <2> QED BY <1>1, <2>1, LaneStays DEF StopPending
  <1>10. Joined'
    <2>1. \A c \in Directions : pump[c] = "exited" => pump'[c] = "exited"
      BY <1>1 DEF RelayInv, TypeOK
    <2> QED BY <1>1, <2>1 DEF RelayInv, Joined, Directions
  <1> QED BY <1>7, <1>8, <1>9, <1>10 DEF RelayInv

LEMMA PumpPutKeeps ==
  ASSUME RelayInv, NEW d \in Directions, PumpPut(d)
  PROVE  RelayInv'
  <1> DEFINE x == held[d][1]
  <1>1. /\ pump[d] = "put" /\ ~Full(out[d])
        /\ out' = [out EXCEPT ![d] = Append(out[d], x)]
        /\ held' = [held EXCEPT ![d] = << >>]
        /\ pump' = [pump EXCEPT ![d] = "get"]
        /\ UNCHANGED <<in, closer, sent, received, early>>
    BY DEF PumpPut, MayPut
  <1>2. /\ in[d] \in Queue /\ received[d] \in Seq(Objects) /\ out[d] \in Seq(Objects)
        /\ held[d] = <<x>> /\ x \in Objects
    BY <1>1, LaneTyped DEF RelayInv
  <1> HIDE DEF x
  <1>3. out'[d] = Append(out[d], x) /\ held'[d] = << >> /\ pump'[d] = "get"
    BY <1>1 DEF RelayInv, TypeOK
  <1>4. TypeOK'
    <2>1. /\ out' \in [Directions -> Seq(Objects)]
          /\ held' \in [Directions -> Seq(Objects)]
          /\ pump' \in [Directions -> {"get", "put", "exited"}]
      <3>1. Append(out[d], x) \in Seq(Objects) /\ << >> \in Seq(Objects)
        BY <1>2
      <3> QED BY <1>1, <3>1 DEF RelayInv, TypeOK
    <2>2. ASSUME NEW c \in Directions
          PROVE  Len(held'[c]) = IF pump'[c] = "put" THEN 1 ELSE 0
      <3>1. CASE c = d
        BY <1>3, <3>1
      <3>2. CASE c # d
        BY <1>1, <3>2 DEF RelayInv, TypeOK
      <3> QED BY <3>1, <3>2
    <2>3. ASSUME NEW c \in Directions, Capacity > 0 PROVE Len(out'[c]) <= Capacity
      <3>1. CASE c = d
        <4>1. Len(out[d]) < Capacity /\ Len(out[d]) \in Nat
          BY <1>1, <1>2, <2>3, SwitchboardConstants DEF Full
        <4>2. Len(out'[d]) = Len(out[d]) + 1
          BY <1>2, <1>3
        <4>3. Len(out'[d]) <= Capacity
          BY <4>1, <4>2, SwitchboardConstants
        <4> QED BY <3>1, <4>3
      <3>2. CASE c # d
        BY <1>1, <2>3, <3>2 DEF RelayInv, TypeOK
      <3> QED BY <3>1, <3>2
    <2> QED BY <1>1, <2>1, <2>2, <2>3 DEF RelayInv, TypeOK
  <1>5. Relayed(d)' = Relayed(d)
    <2> DEFINE r == received[d]
               o == out[d]
    <2> HIDE DEF r, o
    <2>1. r \in Seq(Objects) /\ o \in Seq(Objects) /\ <<x>> \in Seq(Objects)
      BY <1>2 DEF r, o
    <2>2. Append(o, x) = o \o <<x>>
      BY <1>2, <2>1, AppendIsConcat
    <2>3. r \o (o \o <<x>>) = (r \o o) \o <<x>>
      BY <2>1, ConcatAssociative
    <2>4. r \o (o \o <<x>>) \in Seq(Objects)
      BY <2>1
    <2>5. (r \o (o \o <<x>>)) \o << >> = r \o (o \o <<x>>)
      BY <2>4, ConcatEmptySeq
    <2>6. Relayed(d)' = (r \o Append(o, x)) \o << >>
      BY <1>1, <1>3 DEF Relayed, r, o
    <2>7. Relayed(d) = (r \o o) \o <<x>>
      BY <1>2 DEF Relayed, r, o
    <2> QED BY <2>2, <2>3, <2>5, <2>6, <2>7
  <1>6. Lane(d)'
    <2>1. /\ in'[d] = in[d] /\ sent'[d] = sent[d] /\ early'[d] = early[d]
          /\ StopPending(d)' <=> StopPending(d)
      BY <1>1 DEF StopPending
    <2> QED BY <1>1, <1>3, <1>5, <2>1 DEF RelayInv, Lane
  <1>7. ASSUME NEW c \in Directions, c # d PROVE Lane(c)'
    <2>1. out'[c] = out[c] /\ pump'[c] = pump[c] /\ held'[c] = held[c]
      BY <1>1, <1>7 DEF RelayInv, TypeOK
    <2> QED BY <1>1, <2>1, LaneStays DEF StopPending
  <1>8. Joined'
    <2>1. \A c \in Directions : pump[c] = "exited" => pump'[c] = "exited"
      BY <1>1 DEF RelayInv, TypeOK
    <2> QED BY <1>1, <2>1 DEF RelayInv, Joined, Directions
  <1> QED BY <1>4, <1>6, <1>7, <1>8 DEF RelayInv

LEMMA CloseCallKeeps ==
  ASSUME RelayInv, CloseCall
  PROVE  RelayInv'
  <1>1. TypeOK' /\ Joined'
    BY DEF RelayInv, TypeOK, Joined, CloseCall
  <1>2. ASSUME NEW d \in Directions PROVE Lane(d)'
    BY LaneStays DEF CloseCall, StopPending
  <1> QED BY <1>1, <1>2 DEF RelayInv

LEMMA CloseStopKeeps ==
  ASSUME RelayInv, NEW d \in Directions, CloseStop(d)
  PROVE  RelayInv'
  <1>1. /\ closer = StopStep(d) /\ ~Full(in[d])
        /\ in' = [in EXCEPT ![d] = Append(in[d], Stop)]
        /\ closer' = IF d = "lr" THEN "stop-rl" ELSE "join-lr"
        /\ UNCHANGED <<out, pump, held, sent, received, early>>
    BY DEF CloseStop, WithStop
  <1>2. /\ in[d] \in Queue /\ sent[d] \in Seq(Objects) /\ Relayed(d) \in Seq(Objects)
    BY LaneTyped DEF RelayInv
  <1>3. StopPending(d)
    BY <1>1 DEF StopPending, StopStep
  <1>4. /\ ~HasStop(in[d]) /\ pump[d] # "exited" /\ early[d] = Len(sent[d])
        /\ sent[d] = Relayed(d) \o RemoveFirst(in[d], Stop)
    BY <1>3 DEF RelayInv, Lane
  <1>5. in'[d] = Append(in[d], Stop) /\ Relayed(d)' = Relayed(d)
    BY <1>1 DEF RelayInv, TypeOK, Relayed
  <1>6. TypeOK'
    <2>1. in' \in [Directions -> Seq(Objects \cup {Stop})]
      BY <1>1, <1>2 DEF RelayInv, TypeOK, Queue
    <2>2. ASSUME NEW c \in Directions, Capacity > 0 PROVE Len(in'[c]) <= Capacity
      <3>1. CASE c = d
        <4>1. Len(in[d]) < Capacity /\ Len(in[d]) \in Nat
          BY <1>1, <1>2, <2>2, SwitchboardConstants DEF Full, Queue
        <4>2. Len(in'[d]) = Len(in[d]) + 1
          BY <1>2, <1>5 DEF Queue
        <4>3. Len(in'[d]) <= Capacity
          BY <4>1, <4>2, SwitchboardConstants
        <4> QED BY <3>1, <4>3
      <3>2. CASE c # d
        BY <1>1, <2>2, <3>2 DEF RelayInv, TypeOK
      <3> QED BY <3>1, <3>2
    <2> QED BY <1>1, <2>1, <2>2 DEF RelayInv, TypeOK
  <1>7. Lane(d)'
    <2>1. /\ OneStop(in'[d]) /\ HasStop(in'[d])
          /\ RemoveFirst(in'[d], Stop) = in[d] /\ RemoveFirst(in[d], Stop) = in[d]
          /\ in[d] \in Seq(Objects)
      BY <1>2, <1>4, <1>5, RemoveStopped, RemoveNone
    <2>2. ~StopPending(d)'
      BY <1>1 DEF StopPending
    <2>3. Len(sent[d]) = Len(Relayed(d)) + Len(in[d])
      BY <1>2, <1>4, <2>1
    <2>4. ASSUME NEW k \in 1..Len(in'[d]), in'[d][k] = Stop
          PROVE  early[d] = Len(Relayed(d)) + k - 1
      <3>1. k = Len(in[d]) + 1
        BY <1>2, <1>4, <1>5, <2>4 DEF HasStop, Queue
      <3> QED BY <1>2, <1>4, <2>3, <3>1 DEF Queue
    <2> QED BY <1>1, <1>4, <1>5, <2>1, <2>2, <2>4 DEF Lane
  <1>8. ASSUME NEW c \in Directions, c # d PROVE Lane(c)'
    <2>1. in'[c] = in[c]
      BY <1>1, <1>8 DEF RelayInv, TypeOK
    <2>2. StopPending(c)' => StopPending(c)
      BY <1>1 DEF StopPending, StopStep
    <2> QED BY <1>1, <2>1, <2>2, LaneStays
  <1>9. Joined'
    BY <1>1 DEF Joined
  <1> QED BY <1>6, <1>7, <1>8, <1>9 DEF RelayInv

LEMMA CloseJoinKeeps ==
  ASSUME RelayInv, NEW d \in Directions, CloseJoin(d)
  PROVE  RelayInv'
  <1>1. /\ closer = JoinStep(d) /\ pump[d] = "exited"
        /\ closer' = IF d = "lr" THEN "join-rl" ELSE "closed"
        /\ UNCHANGED <<in, out, pump, held, sent, received, early>>
    BY DEF CloseJoin
  <1>2. TypeOK'
    BY <1>1 DEF RelayInv, TypeOK
  <1>3. Joined'
    BY <1>1 DEF RelayInv, Joined, JoinStep, Directions
  <1>4. ASSUME NEW c \in Directions PROVE Lane(c)'
    BY <1>1, LaneStays DEF StopPending
  <1> QED BY <1>2, <1>3, <1>4 DEF RelayInv

LEMMA StepRelay == RelayInv /\ [Next]_vars => RelayInv'
  <1> SUFFICES ASSUME RelayInv, [Next]_vars PROVE RelayInv'
    OBVIOUS
  <1>1. CASE UNCHANGED vars
    <2>1. UNCHANGED <<in, out, pump, held, closer, sent, received, early>>
      BY <1>1 DEF vars
    <2>2. TypeOK' /\ Joined'
      BY <2>1 DEF RelayInv, TypeOK, Joined
    <2>3. ASSUME NEW d \in Directions PROVE Lane(d)'
      BY <2>1, LaneStays DEF StopPending
    <2> QED BY <2>2, <2>3 DEF RelayInv
  <1> QED BY <1>1, SendKeeps, RecvKeeps, PumpGetKeeps, PumpPutKeeps, CloseCallKeeps,
             CloseStopKeeps, CloseJoinKeeps DEF Next, Pump, Close

\* The inductive invariant: each direction accounts for what was sent and for the
\* place of its sentinel.
THEOREM RelayInvariant == Spec => []RelayInv
  <1> QED BY InitRelay, StepRelay, PTL DEF Spec

\* For every capacity, whatever the senders, the receivers, the pumps and close()
\* do to each other: the relay loses, repeats, reorders and invents nothing, no
\* queue exceeds its capacity, and when close() returns all that was sent before
\* its sentinels has been relayed (Switchboard._pump, Switchboard.close).
THEOREM RelayKeepsAll == Spec => []SwitchboardKeeps
  <1>1. RelayInv => SwitchboardKeeps
    <2> SUFFICES ASSUME RelayInv PROVE SwitchboardKeeps
      OBVIOUS
    <2>1. TypeOK
      BY DEF RelayInv
    <2>2. NothingLost
      BY DEF RelayInv, Lane, Relayed, NothingLost
    <2>3. ASSUME closer = "closed", NEW d \in Directions
          PROVE  Len(received[d] \o out[d]) = early[d] /\ held[d] = << >>
      <3>1. pump[d] = "exited"
        BY <2>3 DEF RelayInv, Joined, Directions
      <3>2. /\ held[d] = << >> /\ received[d] \in Seq(Objects) /\ out[d] \in Seq(Objects)
            /\ Len(Relayed(d)) = Len(received[d]) + Len(out[d]) + Len(held[d])
        BY <2>1, <3>1, LaneTyped
      <3>3. early[d] = Len(Relayed(d))
        BY <3>1 DEF RelayInv, Lane
      <3> QED BY <3>2, <3>3
    <2> QED BY <2>1, <2>2, <2>3 DEF SwitchboardKeeps, CloseDrains
  <1> QED BY <1>1, RelayInvariant, PTL
==============================================================================

----------------------------- MODULE Switchboard -----------------------------
(***************************************************************************)
(* The full-duplex relay (impl/python/naalp/delivery.py, classes Endpoint  *)
(* and Switchboard): two endpoints, four bounded queues, and two pump      *)
(* threads that forward what one side sends to the other side's receive    *)
(* queue.  close() puts a sentinel behind whatever was sent and joins the  *)
(* pumps.  put blocks on a full queue, get on an empty one.                *)
(***************************************************************************)
EXTENDS Integers, Sequences, SequencesExt

CONSTANTS
  Objects,      \* objects that are sent, each in one direction
  Direction,    \* object -> the direction it is sent in
  Capacity,     \* queue capacity; 0 is unbounded, as for queue.Queue
  Stop          \* the sentinel

Directions == {"lr", "rl"}

ASSUME SwitchboardConstants ==
  /\ Direction \in [Objects -> Directions]
  /\ Capacity \in Nat
  /\ Stop \notin Objects

VARIABLES
  in, out,      \* direction -> the send queue and the peer's receive queue
  pump,         \* direction -> "get" | "put" | "exited"
  held,         \* direction -> what the pump has taken and not yet put
  closer,       \* step of the thread in close(), "idle" before it is called
  sent,         \* history: direction -> objects sent, in order
  received,     \* history: direction -> objects received, in order
  early         \* history: direction -> how many were sent before its sentinel

vars == <<in, out, pump, held, closer, sent, received, early>>

Init ==
  /\ in = [d \in Directions |-> << >>] /\ out = in
  /\ pump = [d \in Directions |-> "get"]
  /\ held = [d \in Directions |-> << >>]
  /\ closer = "idle"
  /\ sent = [d \in Directions |-> << >>] /\ received = sent
  /\ early = [d \in Directions |-> 0]

\* queue.Queue(maxsize): put blocks while the queue is full.
Full(q) == Capacity > 0 /\ Len(q) >= Capacity

\* Endpoint.send; an object is sent once.
Send(x) ==
  LET d == Direction[x] IN
  /\ ~Contains(sent[d], x) /\ ~Full(in[d])
  /\ in' = [in EXCEPT ![d] = Append(@, x)]
  /\ sent' = [sent EXCEPT ![d] = Append(@, x)]
  /\ early' = [early EXCEPT ![d] = IF Contains(in[d], Stop) \/ pump[d] = "exited"
                                   THEN @ ELSE @ + 1]
  /\ UNCHANGED <<out, pump, held, closer, received>>

\* Endpoint.recv on the other side.
Recv(d) ==
  /\ out[d] # << >>
  /\ received' = [received EXCEPT ![d] = Append(@, Head(out[d]))]
  /\ out' = [out EXCEPT ![d] = Tail(@)]
  /\ UNCHANGED <<in, pump, held, closer, sent, early>>

\* Mutant: the pump looks at the first object and leaves it in the queue.
TakenNot(q) == q

\* The queue after a get.
Taken(q) == Tail(q)

\* _pump: take an object, or exit on the sentinel.
PumpGet(d) ==
  /\ pump[d] = "get" /\ in[d] # << >>
  /\ in' = [in EXCEPT ![d] = Taken(@)]
  /\ IF Head(in[d]) = Stop
       THEN pump' = [pump EXCEPT ![d] = "exited"] /\ UNCHANGED held
       ELSE /\ pump' = [pump EXCEPT ![d] = "put"]
            /\ held' = [held EXCEPT ![d] = <<Head(in[d])>>]
  /\ UNCHANGED <<out, closer, sent, received, early>>

\* Mutant: the pump does not wait for room.
MayPutAlways(d) == TRUE

\* out_q.put blocks while the receive queue is full.
MayPut(d) == ~Full(out[d])

\* Mutant: the pump forwards one object and exits.
PumpPutOnce(d) ==
  /\ pump[d] = "put" /\ MayPut(d)
  /\ out' = [out EXCEPT ![d] = Append(@, held[d][1])]
  /\ held' = [held EXCEPT ![d] = << >>]
  /\ pump' = [pump EXCEPT ![d] = "exited"]
  /\ UNCHANGED <<in, closer, sent, received, early>>

\* _pump: forward it.
PumpPut(d) ==
  /\ pump[d] = "put" /\ MayPut(d)
  /\ out' = [out EXCEPT ![d] = Append(@, held[d][1])]
  /\ held' = [held EXCEPT ![d] = << >>]
  /\ pump' = [pump EXCEPT ![d] = "get"]
  /\ UNCHANGED <<in, closer, sent, received, early>>

\* close(): a sentinel into each send queue, then a join of each pump.
CloseCall ==
  /\ closer = "idle" /\ closer' = "stop-lr"
  /\ UNCHANGED <<in, out, pump, held, sent, received, early>>

\* Mutant: the sentinel goes to the front of the queue.
StopFirst(q) == <<Stop>> \o q

\* Mutant: no sentinel is put.
StopNot(q) == q

\* The send queue with the sentinel behind everything sent so far.
WithStop(q) == Append(q, Stop)

\* The step at which close() puts the sentinel into queue d, and at which it joins
\* the pump of d.
StopStep(d) == IF d = "lr" THEN "stop-lr" ELSE "stop-rl"
JoinStep(d) == IF d = "lr" THEN "join-lr" ELSE "join-rl"

CloseStop(d) ==
  /\ closer = StopStep(d) /\ ~Full(in[d])
  /\ in' = [in EXCEPT ![d] = WithStop(@)]
  /\ closer' = IF d = "lr" THEN "stop-rl" ELSE "join-lr"
  /\ UNCHANGED <<out, pump, held, sent, received, early>>

CloseJoin(d) ==
  /\ closer = JoinStep(d) /\ pump[d] = "exited"
  /\ closer' = IF d = "lr" THEN "join-rl" ELSE "closed"
  /\ UNCHANGED <<in, out, pump, held, sent, received, early>>

Pump(d) == PumpGet(d) \/ PumpPut(d)
Close == \E d \in Directions : CloseStop(d) \/ CloseJoin(d)

Next ==
  \/ \E x \in Objects : Send(x)
  \/ \E d \in Directions : Recv(d) \/ Pump(d)
  \/ CloseCall \/ Close

Spec == Init /\ [][Next]_vars

\* The pump threads and the thread in close() run whenever they are not blocked.
Fairness == /\ \A d \in Directions : WF_vars(Pump(d))
            /\ WF_vars(Close)

FairSpec == Spec /\ Fairness

\* What the application may or may not do, and the relay does not promise: it keeps
\* receiving.  No fairness of the specification; a premise where a property needs it.
ReceiversRead == \A d \in Directions : WF_vars(Recv(d))

(***************************************************************************)
(* Properties                                                              *)
(***************************************************************************)
\* Types: no queue exceeds its capacity (put blocks), and a pump holds an object
\* exactly while it is about to put it.
TypeOK ==
  /\ in \in [Directions -> Seq(Objects \cup {Stop})]
  /\ out \in [Directions -> Seq(Objects)]
  /\ pump \in [Directions -> {"get", "put", "exited"}]
  /\ held \in [Directions -> Seq(Objects)]
  /\ closer \in {"idle", "stop-lr", "stop-rl", "join-lr", "join-rl", "closed"}
  /\ sent \in [Directions -> Seq(Objects)]
  /\ received \in [Directions -> Seq(Objects)]
  /\ early \in [Directions -> Nat]
  /\ \A d \in Directions : /\ Capacity > 0 => Len(in[d]) <= Capacity /\ Len(out[d]) <= Capacity
                           /\ Len(held[d]) = IF pump[d] = "put" THEN 1 ELSE 0

\* The relay loses, repeats, reorders and invents nothing: in each direction what
\* was received, what waits for the receiver, what the pump holds and what waits
\* for the pump, but for the one sentinel, are together exactly what was sent, in
\* order.
NothingLost ==
  \A d \in Directions :
    sent[d] = received[d] \o out[d] \o held[d] \o RemoveFirst(in[d], Stop)

\* When close() returns, everything sent before its sentinels has been relayed:
\* it is with the receiver or in the receiver's queue.
CloseDrains ==
  closer = "closed" =>
    \A d \in Directions : Len(received[d] \o out[d]) = early[d] /\ held[d] = << >>

\* Whatever is sent before the close reaches the receiver, if the receivers read.
EventuallyReceived ==
  ReceiversRead =>
    \A x \in Objects : (Contains(sent[Direction[x]], x) /\ closer = "idle")
                         ~> Contains(received[Direction[x]], x)

\* The pump of d waits for room in a receive queue that is full.
Blocked(d) == pump[d] = "put" /\ Full(out[d])

\* A close() that is called returns, or a pump stays blocked from some moment on:
\* close waits with no timeout for the pumps (delivery.py, close), so a receiver that
\* has left its queue full holds it for ever.  Nothing else does: not a full send
\* queue, not the other direction, not the order of the two sentinels and joins.  The
\* receivers are promised nothing here.
CloseReturns ==
  \/ closer # "idle" ~> closer = "closed"
  \/ \E d \in Directions : <>[]Blocked(d)

(* The switchboard loses, repeats and overtakes nothing, and what was sent   *)
(* before close has been relayed when close returns                          *)
(* (delivery.Switchboard.close, _pump).                                      *)
SwitchboardKeeps ==
  /\ TypeOK
  /\ NothingLost
  /\ CloseDrains
==============================================================================

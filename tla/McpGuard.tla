------------------------------ MODULE McpGuard ------------------------------
(***************************************************************************)
(* The MCP guard (ecosystem/naalp-mcp-guard): one process between an MCP   *)
(* client and the server it wraps.  The main loop takes one client message *)
(* at a time; a tools/call is classified, perhaps approved by a human, and *)
(* only then written to the server.  A reader thread takes the server's    *)
(* lines: the one that carries the pending id is the answer, every other   *)
(* one waits until the main loop has finished its message.                 *)
(*                                                                         *)
(* A client message has a number n and, unless it is a notification, that  *)
(* number as its JSON-RPC id.  Each side of MCP numbers its own requests,  *)
(* so a request of the server's may carry the very id the guard waits for. *)
(* The approval machinery is the one of                                    *)
(* HitlInterceptor; here it lets the call pass, spending an approval for   *)
(* it, or refuses it, or raises an error of another kind.                  *)
(***************************************************************************)
EXTENDS Integers, Sequences, FiniteSets, SequencesExt

CONSTANTS
  ServerTools,    \* names of the server's tools
  Listings,       \* tool definitions the server may list: tool -> effect of its annotations
  GateThreshold,  \* effect class from which a human is asked (approval_threshold)
  Guards,         \* processes started on one state directory
  ServerIds,      \* ids the server gives to its own requests
  MaxClient,      \* bound on client messages
  MaxAsks         \* bound on requests and notifications the server starts itself

NoId == 0
Mistaken == -1          \* history: a line of the server's own that was taken for an answer
Unannotated == 3        \* destructiveHint defaults to true
BadHint == 4            \* a hint that is no boolean: the definition cannot be carried
NoLine == [kind |-> "none", n |-> 0, id |-> NoId, tool |-> "none", as |-> 0]

ASSUME GuardConstants ==
  /\ \A l \in Listings : DOMAIN l \subseteq ServerTools /\ \A t \in DOMAIN l : l[t] \in 0..BadHint
  /\ GateThreshold \in 0..3
  /\ MaxClient \in Nat /\ MaxAsks \in Nat

VARIABLES
  phase,          \* the main loop: "stdin", "human", "wait" (for an answer), "stopped"
  cur,            \* the client message it works on, with the effect class it was gated at
  known,          \* GuardProxy._tools: tool -> effect class of the cached definition
  pending,        \* _DownstreamServer._pending: the ids that wait for an answer
  slot,           \* the answers of `call`: the empty sequence until the reader sets it
  unsolicited,    \* the queue of the other server lines
  inbox,          \* what was written to the server's stdin and not read yet
  open,           \* requests the server works on
  asked,          \* ids of the server's own requests that the client has not answered
  lines,          \* what the server wrote and the reader has not taken yet
  toClient,       \* everything written to the client
  receipts,       \* receipt files
  approved,       \* client messages for which an approval was spent
  forwarded,      \* history: the tools/call messages written to the server
  performed,      \* history: the ones the server executed
  sent, asks,     \* client messages and server messages so far
  seedFile,       \* the identity seed file
  seedPc, seedOf  \* guard process -> its step in load_or_create_seed, the seed it has

loop == <<phase, cur, known>>
server == <<inbox, open, asked, performed, asks>>
reader == <<pending, slot, unsolicited, lines>>
record == <<receipts, approved, forwarded>>
seeds == <<seedFile, seedPc, seedOf>>
guardianvars == <<phase, cur, known, pending, slot, unsolicited, inbox, open, asked, lines, toClient, receipts,
          approved, forwarded, performed, sent, asks, seedFile, seedPc, seedOf>>

NoSeed == [owner |-> "none", whole |-> FALSE]

GuardianInit ==
  /\ phase = "stdin" /\ cur = NoLine /\ known = << >>
  /\ pending = {} /\ slot = << >> /\ unsolicited = << >>
  /\ inbox = << >> /\ open = {} /\ asked = {} /\ lines = << >> /\ toClient = << >>
  /\ receipts = {} /\ approved = {} /\ forwarded = {} /\ performed = {}
  /\ sent = 0 /\ asks = 0
  /\ seedFile = [exists |-> FALSE, seed |-> NoSeed]
  /\ seedPc = [g \in Guards |-> "check"] /\ seedOf = [g \in Guards |-> NoSeed]

------------------------------------------------------------------------------
(* The main loop                                                            *)

\* Mutant: a tool that was never listed counts as one with the mildest effect.
ClassifyUnknownMild(t) == IF t \in DOMAIN known THEN known[t] ELSE 0

\* classify: the annotations of the cached definition; a tool the guard does not know,
\* or a name that is none, is carried as a bare definition without annotations.
Classify(t) == IF t \in DOMAIN known THEN known[t] ELSE Unannotated

GateRequiresApproval(t) == Classify(t) >= GateThreshold

\* EffectReceipt; call_id stands for the message, result for the answer that was hashed.
MintReceipt(m, decision, result) ==
  [call |-> m.n, tool |-> m.tool, effect |-> m.as, decision |-> decision, result |-> result]

\* write_receipt_file and verify_receipt_bytes: a file holds a version, an algorithm, a key, the
\* body and the signature over it.  It passes when all five parse and the signature is the key's.
ReceiptFile(r) == [version |-> 1, key |-> "receipt-key", body |-> r, sig |-> <<"receipt-key", r>>]
VerifyReceiptBytes(f) == f.version = 1 /\ f.sig = <<f.key, f.body>>

DeniedResult(m) == [kind |-> "denied", id |-> m.id, of |-> m.id]

\* _write_message; then, in cmd_wrap, everything the server said meanwhile.
WriteThenDrain(answers) ==
  /\ toClient' = toClient \o (answers \o unsolicited)
  /\ unsolicited' = << >>

\* _DownstreamServer.call: register the id, write, and wait.
Call(m) ==
  /\ pending' = pending \cup {m.id} /\ slot' = << >>
  /\ inbox' = Append(inbox, m)
  /\ phase' = "wait" /\ cur' = m

\* _route_client_message.
ClientSends(kind, hasId, t) ==
  LET m == [kind |-> kind, n |-> sent + 1, id |-> IF hasId THEN sent + 1 ELSE NoId, tool |-> t,
            as |-> IF kind = "tools/call" THEN Classify(t) ELSE 0]
  IN
  /\ phase = "stdin" /\ sent < MaxClient /\ sent' = sent + 1
  /\ kind = "tools/call" <=> t # "none"
  /\ \/ /\ m.as = BadHint
        /\ WriteThenDrain(IF hasId THEN <<DeniedResult(m)>> ELSE << >>)
        /\ UNCHANGED <<phase, cur, pending, slot, inbox, forwarded>>
     \/ /\ kind = "tools/call" /\ m.as # BadHint /\ GateRequiresApproval(t)
        /\ phase' = "human" /\ cur' = m
        /\ UNCHANGED <<pending, slot, unsolicited, inbox, forwarded, toClient>>
     \/ /\ kind = "tools/call" /\ ~GateRequiresApproval(t)
        /\ Call(m) /\ forwarded' = forwarded \cup {m}
        /\ UNCHANGED <<unsolicited, toClient>>
     \/ /\ kind # "tools/call" /\ hasId
        /\ Call(m)
        /\ UNCHANGED <<unsolicited, forwarded, toClient>>
     \/ /\ kind # "tools/call" /\ ~hasId
        /\ inbox' = Append(inbox, m) /\ WriteThenDrain(<< >>)
        /\ UNCHANGED <<phase, cur, pending, slot, forwarded>>
  /\ UNCHANGED <<known, open, asked, performed, asks, lines, receipts, approved, seeds>>

\* The client answers a request of the server: relayed without correlation.
ClientReplies(id) ==
  /\ phase = "stdin"
  /\ \E i \in DOMAIN toClient : toClient[i].kind = "request" /\ toClient[i].id = id
  /\ inbox' = Append(inbox, [NoLine EXCEPT !.kind = "reply", !.id = id])
  /\ WriteThenDrain(<< >>)
  /\ id \in asked /\ ~\E i \in DOMAIN inbox : inbox[i].kind = "reply" /\ inbox[i].id = id
  /\ UNCHANGED <<loop, pending, slot, open, asked, performed, asks, lines, record, sent, seeds>>

\* Mutant: the refused call has gone to the server before the human is asked.
HumanRefusesLate ==
  /\ phase = "human" /\ phase' = "stdin" /\ cur' = NoLine
  /\ inbox' = Append(inbox, cur) /\ forwarded' = forwarded \cup {cur}
  /\ receipts' = receipts \cup {ReceiptFile(MintReceipt(cur, "denied", << >>))}
  /\ WriteThenDrain(IF cur.id # NoId THEN <<DeniedResult(cur)>> ELSE << >>)
  /\ UNCHANGED <<known, pending, slot, open, asked, performed, asks, lines, approved, sent, seeds>>

\* The interceptor raises an ApprovalError (declined, or the approval does not do): a
\* DENIED receipt, and an answer to the client.
HumanRefuses ==
  /\ phase = "human" /\ phase' = "stdin" /\ cur' = NoLine
  /\ receipts' = receipts \cup {ReceiptFile(MintReceipt(cur, "denied", << >>))}
  /\ WriteThenDrain(IF cur.id # NoId THEN <<DeniedResult(cur)>> ELSE << >>)
  /\ UNCHANGED <<known, pending, slot, inbox, open, asked, performed, asks, lines, approved, forwarded,
                 sent, seeds>>

\* Mutant: the call is forwarded and the approval is not spent.
HumanApprovesUnspent ==
  /\ phase = "human" /\ Call(cur)
  /\ forwarded' = forwarded \cup {cur}
  /\ UNCHANGED <<known, unsolicited, open, asked, performed, asks, lines, toClient, receipts, approved,
                 sent, seeds>>

\* The approval verifies and is spent; execute() is forward().
HumanApproves ==
  /\ phase = "human" /\ Call(cur)
  /\ approved' = approved \cup {cur} /\ forwarded' = forwarded \cup {cur}
  /\ UNCHANGED <<known, unsolicited, open, asked, performed, asks, lines, toClient, receipts, sent, seeds>>

\* An error that is no ApprovalError (the ledger or the refusal log cannot be written; a tool
\* name that cannot be looked up in the cache), or the end of stdin, ends cmd_wrap;
\* downstream.close() ends the server with it.
Stops ==
  /\ phase \in {"human", "stdin"} /\ phase' = "stopped" /\ cur' = NoLine
  /\ UNCHANGED <<known, reader, server, toClient, record, sent, seeds>>

\* The wait of `call` runs out; an answer the reader puts in the slot before the id is taken
\* back is dropped with it.  The TimeoutError passes handle_tools_call and cmd_wrap.
TimesOut ==
  /\ phase = "wait"
  /\ pending' = pending \ {cur.id} /\ slot' = << >>
  /\ phase' = "stopped" /\ cur' = NoLine
  /\ UNCHANGED <<known, unsolicited, lines, server, toClient, record, sent, seeds>>

\* Mutant: a definition the guard already has is not replaced.
NoteFirstListing(l) == [t \in DOMAIN known \cup DOMAIN l |-> IF t \in DOMAIN known THEN known[t] ELSE l[t]]

\* note_tools_list_response: what the answer lists replaces what was known under that name;
\* an answer that is no listing changes nothing.
NoteToolsList(l) == [t \in DOMAIN known \cup DOMAIN l |-> IF t \in DOMAIN l THEN l[t] ELSE known[t]]

\* The reader has set the event.
Returns ==
  /\ phase = "wait" /\ slot # << >>
  /\ LET a == slot[1] IN
     /\ phase' = "stdin" /\ cur' = NoLine /\ slot' = << >>
     /\ receipts' = IF cur.kind = "tools/call"
                    THEN receipts \cup {ReceiptFile(MintReceipt(cur, "executed", a))} ELSE receipts
     /\ known' = IF cur.kind = "tools/list" /\ a.kind = "listing" THEN NoteToolsList(a.listing) ELSE known
     /\ WriteThenDrain(IF cur.id # NoId THEN <<a>> ELSE << >>)
  /\ UNCHANGED <<pending, lines, server, approved, forwarded, sent, seeds>>

------------------------------------------------------------------------------
(* The reader thread                                                        *)

\* Mutant: the line that arrives while a call waits is taken for its answer.
ReadsAnyLine ==
  /\ phase # "stopped" /\ lines # << >>
  /\ lines' = Tail(lines)
  /\ IF pending # {} /\ Head(lines).id # NoId
     THEN pending' = {} /\ slot' = <<Head(lines)>> /\ UNCHANGED unsolicited
     ELSE unsolicited' = Append(unsolicited, Head(lines)) /\ UNCHANGED <<pending, slot>>
  /\ UNCHANGED <<loop, server, toClient, record, sent, seeds>>

\* _read_loop: the id alone tells an answer from the rest.  As the answer to a request a line
\* is marked with that request in `of`; one of the server's own messages is marked Mistaken.
ReadsLine ==
  /\ phase # "stopped" /\ lines # << >>
  /\ LET a == Head(lines) IN
     /\ lines' = Tail(lines)
     /\ IF a.id # NoId /\ a.id \in pending
        THEN /\ pending' = pending \ {a.id} /\ UNCHANGED unsolicited
             /\ slot' = <<IF a.of = NoId THEN [a EXCEPT !.of = Mistaken] ELSE a>>
        ELSE unsolicited' = Append(unsolicited, a) /\ UNCHANGED <<pending, slot>>
  /\ UNCHANGED <<loop, server, toClient, record, sent, seeds>>

------------------------------------------------------------------------------
(* The wrapped server: it takes requests in order, works on several at a    *)
(* time, asks the client things meanwhile, and answers once each.           *)
ServerTakes ==
  /\ phase # "stopped" /\ inbox # << >>
  /\ LET m == Head(inbox) IN
     /\ inbox' = Tail(inbox)
     /\ asked' = IF m.kind = "reply" THEN asked \ {m.id} ELSE asked
     /\ open' = IF m.kind # "reply" /\ m.id # NoId THEN open \cup {m} ELSE open
     /\ performed' = IF m.kind = "tools/call" THEN performed \cup {m} ELSE performed
  /\ UNCHANGED <<loop, asks, reader, toClient, record, sent, seeds>>

Says(a) == lines' = Append(lines, a) /\ UNCHANGED <<loop, pending, slot, unsolicited, inbox, performed, toClient,
                                                    record, sent, seeds>>

ServerAnswers(m, l) ==
  /\ phase # "stopped" /\ open' = open \ {m}
  /\ Says([kind |-> IF m.kind = "tools/list" THEN "listing" ELSE "result", id |-> m.id, of |-> m.id,
           listing |-> IF m.kind = "tools/list" THEN l ELSE << >>])
  /\ UNCHANGED <<asked, asks>>

\* n numbers the server's own messages.
ServerAsks(id) ==
  /\ phase # "stopped" /\ asks < MaxAsks /\ asks' = asks + 1
  /\ id # NoId => id \notin asked
  /\ asked' = IF id # NoId THEN asked \cup {id} ELSE asked
  /\ Says([kind |-> IF id = NoId THEN "notification" ELSE "request", id |-> id, of |-> NoId, listing |-> << >>,
           n |-> asks + 1])
  /\ UNCHANGED open

------------------------------------------------------------------------------
(* load_or_create_seed, by several processes on one state directory.        *)
Seed(g, step, s) == seedPc' = [seedPc EXCEPT ![g] = step] /\ seedOf' = [seedOf EXCEPT ![g] = s]

\* os.path.exists, and then the file as it is: anything but 32 bytes is refused.
SeedChecks(g) ==
  /\ seedPc[g] = "check"
  /\ CASE ~seedFile.exists -> Seed(g, "create", NoSeed)
       [] seedFile.exists /\ seedFile.seed.whole -> Seed(g, "loaded", seedFile.seed)
       [] OTHER -> Seed(g, "failed", NoSeed)
  /\ UNCHANGED <<loop, server, reader, toClient, record, sent, seedFile>>

\* Mutant: the file is created with O_TRUNC, not O_EXCL.
SeedCreatesAlways(g) ==
  /\ seedPc[g] = "create"
  /\ seedFile' = [exists |-> TRUE, seed |-> NoSeed] /\ Seed(g, "write", [owner |-> g, whole |-> TRUE])
  /\ UNCHANGED <<loop, server, reader, toClient, record, sent>>

\* O_EXCL; whoever loses reads what the file holds at that moment.
SeedCreates(g) ==
  /\ seedPc[g] = "create"
  /\ IF seedFile.exists
     THEN Seed(g, "loaded", seedFile.seed) /\ UNCHANGED seedFile
     ELSE seedFile' = [exists |-> TRUE, seed |-> NoSeed] /\ Seed(g, "write", [owner |-> g, whole |-> TRUE])
  /\ UNCHANGED <<loop, server, reader, toClient, record, sent>>

SeedWrites(g) ==
  /\ seedPc[g] = "write"
  /\ seedFile' = [seedFile EXCEPT !.seed = seedOf[g]] /\ Seed(g, "loaded", seedOf[g])
  /\ UNCHANGED <<loop, server, reader, toClient, record, sent>>

\* EffectGate's constructor derives the key; key_derive refuses a seed that is not 32 bytes.
KeyDerives(g) ==
  /\ seedPc[g] = "loaded"
  /\ Seed(g, IF seedOf[g].whole THEN "running" ELSE "failed", seedOf[g])
  /\ UNCHANGED <<loop, server, reader, toClient, record, sent, seedFile>>

------------------------------------------------------------------------------
Requests == {"tools/call", "tools/list", "other"}

GuardLoop ==
  \/ \E k \in Requests, b \in BOOLEAN, t \in ServerTools \cup {"none"} : ClientSends(k, b, t)
  \/ \E i \in ServerIds : ClientReplies(i)
  \/ HumanRefuses \/ HumanApproves \/ Stops \/ TimesOut \/ Returns \/ ReadsLine

\* The listing goes with an answer to tools/list; with any other it does not matter.
AnyListing == CHOOSE l \in Listings : TRUE

WrappedServer ==
  \/ ServerTakes
  \/ \E m \in open, l \in Listings : (m.kind # "tools/list" => l = AnyListing) /\ ServerAnswers(m, l)
  \/ \E i \in ServerIds \cup {NoId} : ServerAsks(i)

GuardianNext == GuardLoop \/ WrappedServer

SeedRace == \E g \in Guards : SeedChecks(g) \/ SeedCreates(g) \/ SeedWrites(g) \/ KeyDerives(g)

GuardianSpec == GuardianInit /\ [][GuardianNext]_guardianvars
\* One guard at work while others start on its state directory.
GuardSpec == GuardianInit /\ [][GuardianNext \/ SeedRace]_guardianvars

------------------------------------------------------------------------------
(* Properties                                                               *)

\* The last listing in q that names t shows it with effect e.
Names(a, t) == a.kind = "listing" /\ t \in DOMAIN a.listing
LastShown(q, t, e) ==
  \E i \in DOMAIN q :
    /\ Names(q[i], t) /\ q[i].listing[t] = e
    /\ \A j \in DOMAIN q : j > i => ~Names(q[j], t)

\* A listing is in q as an unsolicited line: the wait for it had been ended by a request of
\* the server's with the same id, so the guard did not learn what it lists.
LateListing(q, t) ==
  \E i, j \in DOMAIN q : q[i].of = Mistaken /\ Names(q[j], t) /\ q[j].of = q[i].id

\* A tool call that is with the server was approved by a human, for that very call, or the
\* last listing with that tool that the client was given shows it as harmless: a tool that was
\* never listed, or that was listed again as harmful, is never let through (classify,
\* authorize_and_execute).  A tool that later listings drop keeps its class, and what a late
\* listing shows does not count: the guard did not see it.
GatedAsShown ==
  phase = "wait" /\ cur.kind = "tools/call" =>
    \/ cur \in approved
    \/ \E e \in 0..(GateThreshold - 1) : LastShown(toClient, cur.tool, e)
    \/ LateListing(toClient, cur.tool)

\* A receipt tells what happened: "denied" means the call never went to the server,
\* "executed" that it did, that the server executed it and that the hashed result is its
\* answer to this call; each verifies offline (receipt.py, _persist_receipt).  The exception:
\* when the server sent a request with the call's id, that request is what was hashed, and
\* the call may not even have been executed yet (cli.py:92-101).
ReceiptsTellTheTruth ==
  \A f \in receipts :
    /\ VerifyReceiptBytes(f)
    /\ LET r == f.body
           ms == {m \in forwarded : m.n = r.call} IN
       /\ r.decision = "denied" => ms = {}
       /\ r.decision = "executed" =>
            /\ ms # {}
            /\ \/ r.result.of = r.call /\ ms \subseteq performed
               \/ r.result.of = Mistaken /\ r.result.id = r.call /\ r.result.kind = "request"

\* The numbers of the server's own messages in q.
Own(a) == a.of \in {NoId, Mistaken}
Numbers(q) == {q[i].n : i \in {j \in DOMAIN q : Own(q[j])}}

\* What the client hears: at most one answer to each request, and in place of an answer only a
\* request of the server's with the same id; the server's own messages once each, from the
\* first on without gaps, in their order except that a mistaken one comes before what was read
\* earlier.  While the guard runs, each of them is with the client or on its way; the ones that
\* wait when it stops are never relayed (cli.py, _read_loop and drain_unsolicited), though
\* README.md:64-65 of the guard has every request of the server's relayed.
ClientHearsRight ==
  /\ \A i, j \in DOMAIN toClient : ~Own(toClient[i]) /\ toClient[i].of = toClient[j].of => i = j
  /\ \A i \in DOMAIN toClient : toClient[i].of = Mistaken => toClient[i].kind = "request" /\ toClient[i].id \in 1..sent
  /\ \A i, j \in DOMAIN toClient : i < j /\ Own(toClient[i]) /\ Own(toClient[j]) =>
       IF toClient[i].of = NoId THEN toClient[i].n < toClient[j].n ELSE toClient[i].n # toClient[j].n
  /\ \A n \in Numbers(toClient) : 1..n \subseteq Numbers(toClient)
  /\ phase # "stopped" =>
       Numbers(toClient) \cup Numbers(slot) \cup Numbers(unsolicited) \cup Numbers(lines) = 1..asks
  /\ slot # << >> => slot[1].id = cur.id /\ slot[1].of \in {cur.id, Mistaken}

\* Guards that run on one state directory have one identity (identity.py).
OneIdentity ==
  \A g, h \in Guards : seedPc[g] = "running" /\ seedPc[h] = "running" => seedOf[g] = seedOf[h]

\* "a receipt is minted on EVERY gated attempt" (receipt.py): once the main loop is past a
\* call that went to the server there is a receipt of it.
EveryAttemptHasReceipt ==
  \A m \in forwarded : cur = m \/ \E f \in receipts : f.body.call = m.n

(* The guard between client and server lets through what was shown or        *)
(* approved, receipts what happened, gives each answer to its request, and   *)
(* speaks with one identity (effect_gate.py, receipt.py, cli.py,             *)
(* identity.py).                                                             *)
GuardianHonest ==
  /\ GatedAsShown
  /\ ReceiptsTellTheTruth
  /\ ClientHearsRight
  /\ OneIdentity
=============================================================================

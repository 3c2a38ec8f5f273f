# TLA+ development for the N-AALP protocol implementation

N-AALP is a protocol for authenticated agent actions: signed objects, approvals
that a human gives once for one exact action, ledgers that spend an approval at
most once, logs that survive a crash, receipts and proofs from which a third party
can tell what happened, and adapters that put agent frameworks under all of this.
This directory models the Python SDK (`impl/python/naalp`), the packages built on
it (`ecosystem/`), the Go workflow gate where it handles failures differently, and
the conformance adapter with its state oracles. TLC checks the models on small
instances. What most of them promise is also proved with TLAPS, for every instance:
the consume ledger, the double-spend evidence, the switchboard, the gate and the
tracker, the interceptor with the other authorization gates, the agent adapters, the
MCP guard and the orchestration, the room logs, the signed chains and directories, the
identities, the gateway and the proof records, the envelope, the pre-send firewall, the
streams, continuations and negotiations.

## 1. The system

### Parts that keep state

| Part | Code | State | Operations | Hard behaviour |
|---|---|---|---|---|
| Consume ledger | `approval.py` `Ledger` | consumed ids, chain head, next position; a write-ahead log | `open_ledger(_signed)`, `consume`, `consume_object`, `consume_with_receipt`, `close` | threads on one lock, crash between write, fsync and return, failed flush |
| Double-spend evidence | `approval.py` `ReceiptSet`, `ConsumeForkEvidence` | first receipt seen per approval | `observe`, `verify` | forked replicas, receipts reordered, repeated, forged |
| Workflow gate | `channels.py` / `channels.go` `WorkflowGate` | status of each task; a write-ahead log | open, `create`, `supply_input`, `run`, `close` | crash between write and fsync, torn tail, short write |
| Delivery tracker | `delivery.py` `Tracker` | stage of each object; a write-ahead log | `open_tracker`, `advance`, `close` | repeated reports, records of failed flushes written late |
| Switchboard | `delivery.py` `Endpoint`, `Switchboard` | four queues, two pump threads | `send`, `recv`, `close` | full queues, close racing the senders |
| Audit authority, auditor, relay, rooms | `audit.py`, `delivery.py`, `rooms.py` | head and position; receipts seen; members, owners, epoch, log | `append`, `observe`, `route`, `create_room`, `apply` | restarts that sign a position twice, stale epochs |
| Principal registry | `rooms.py`, `identity.py` | bindings per principal | `bind`, `rebind` | rotation evidence supplied by the caller |
| Registrar, task and consent chains, directories | `naming.py`, `agui.py`, `description.py` | a chain per name, task, session, directory | bind, transition, show, publish | forks, holes, splices of two chains |
| Stream guard | `streaming.py` `Guard` | lifecycle of each stream | `open`, `chunk`, `checkpoint`, `commit`, `expire` | timer racing commit, chunk stored after the check |
| HITL interceptor | `naalp-hitl` | the ledger it uses, a refusal log, a clock | `intercept`, `verify_and_consume` | an approval presented again, failing logs, a clock set back |
| Framework adapters | eight packages, `naalp-langgraph` to `naalp-a2a-hook` | recorder stream, paused approvals | classify, pause, decide, resume, run, record | concurrent calls, replayed frames, restarts, edited arguments |
| MCP guard | `naalp-mcp-guard` | pending ids, reader thread, listing cache, receipts, seed file | `call`, `handle_tools_call`, `load_or_create_seed` | timeouts, a server that talks on its own account, create race |
| Plans, pipelines, fan-out | `naalp-plan`, `naalp-multiagent`, `naalp-react` | state of each task, signed requests | `run` | thread pool over a library that is not reentrant, forged answers |
| Verify at use, fingerprint cache, mixed mode | three packages | spent approvals and revocations, a pin, a mode | `execute`, `check_and_pin`, `handle`, `tighten_to_strict` | verdicts that are stale when used, old rotation proofs |
| Gateway log | `gateway.py` | leaves, checkpoints | append, checkpoint, prove | an operator with two views, odd tree sizes |
| Grant set | `delegation.py` | grants, revocations | `add`, `revoke`, `authorize_destructive` | expiry high up a chain |
| Signature library's hash | `_dilithium_thread_safety.py` | a cursor per thread | absorb, read | threads between absorb and read |

### Parts that are checks and conversions

Causal order and reconciliation (`graph.py`, `federation.py`), envelopes and
signature forms (`envelope.py`, `cose.py`, `ez.py`), the pre-send validator,
continuations and negotiation, policy, payments, hazard envelopes, MCP and A2A
bridges, CBOR, error registry, transports and carriage, schema generation,
governance verification, bundles, OPA policy and evidentiality keep nothing between
calls. Their models build inputs step by step (honest acts, and what a network or a
careless party makes of them) and compare the verdict with an independent statement
of what it should be.

### How the parts interact

* An action runs only after `consume` returned: `HitlInterceptor`, `Authority`,
  `AgentGuards`, `McpGuard` and `Admission` stand on the promise that
  `ConsumeLedger` is shown to keep (`SingleUse`).
* A signed ledger hands out receipts, the input of `DoubleSpendEvidence`.
* Ledger, gate and tracker write length-framed records through a buffered writer
  (Go: directly) and `fsync` before they acknowledge; `WalFile` is their file.
* Relay and rooms append to an `audit.Authority`; causal graphs, proof records and
  plans are linked by content ids in `causes`.
* Naming, task, consent and directory chains share one scheme (`SignedObjects`,
  `SignedChains`); `PreSend` runs the same candidate through the validator and
  through the receiving `Envelope`.

### What makes each part correct

An approval is spent once, ever, and what a caller was told is durable; whoever
signs two things for one position can be convicted and nobody else; what a verifier
accepts is what somebody entitled really did, whole and in order; authority never
grows on its way down and is judged when it is used; one value has one encoding; an
answer reaches the request it belongs to. Section 3 names the properties.

## 2. Modules

| Module | Models |
|---|---|
| `WalFile` | a file: page cache, durable content, power loss (external: from its use) |
| `SingleUse` | abstract specification: a sequence of distinct spent approvals |
| `ConsumeLedger`, `ConsumeLedgerProofs` | `approval.Ledger`, and the theorems about it |
| `DoubleSpendEvidence` | receipts, fork evidence, receipt sets |
| `WorkflowGate` | both ports of the gate |
| `DeliveryTracker` | `delivery.Tracker` |
| `Switchboard`, `SwitchboardProofs` | `delivery.Switchboard` and its endpoints |
| `CausalOrder` | `graph.py`, `federation.py`, `audit.topo_order`, `channels.check_frame_tree` |
| `FederationProofs` | theorems about `DoubleSpendEvidence`, `CausalOrder` and `Conformance` |
| `OrderedLogs` | `audit.Authority`, `Auditor`, the relay, rooms |
| `SignedObjects`, `SignedChains` | signed bodies; naming, task and consent chains on one scheme |
| `Descriptions` (extends `SignedChains`) | imports, directories, the A2A bridge |
| `Accusations` | what a fork proof means, over `OrderedLogs`, `SignedChains`, `Descriptions` |
| `Identities` | registry, rotation, revocation, links, threads |
| `Gateway` | decision records, egress attestations, the Merkle log |
| `ProofRecords` | governance log and replay, bundles |
| `HitlInterceptor` | `naalp-hitl` and the checks of `approval.py` it calls |
| `Authority` | delegation, the four gates that spend approvals, MCP mapping and bridge |
| `Claims` | hazard envelopes, policy, payment imports, refusals, freshness |
| `Admission` | verify at use, fingerprint cache, mixed mode, OPA, evidentiality |
| `Envelope` | objects, annotations, three signature forms, counters |
| `PreSend` (extends `Envelope`) | validator and firewall against the receiver |
| `Flows` | streams, continuations, negotiation, labels |
| `WireForms` | CBOR, codec, error registry, transports, carriage |
| `SchemaGen` | JSON Schema validator, CDDL, strict form, bodies |
| `AgentGuards` | the eight framework adapters |
| `McpGuard` | the MCP guard process |
| `Orchestration` | plan, pipeline, fan-out, ReAct bridge |
| `Conformance` | conformance adapter against the oracles' tables, portability harness, the hash |
| `MC...` | constants for TLC; `MCDurable`, `MCRecords`, `MCAuthorization`, `MCWire` and `MCAgents` are suites |
| `DurableProofs` | theorems about `WorkflowGate`, `DeliveryTracker` and their suite |
| `AuthorizationProofs` | theorems about `HitlInterceptor`, `Authority`, `Claims`, `Admission` and their suite |
| `AgentsProofs` | theorems about `McpGuard`, `AgentGuards`, `Orchestration` |
| `RecordsProofs` | theorems about `OrderedLogs`, `SignedChains`, `Descriptions`, `Accusations`, `Identities`, `Gateway`, `ProofRecords` |
| `WireProofs` | theorems about `Envelope`, `PreSend`, `Flows` |

A **suite** extends several components that share no state. Its variable `part` says
which of them a behaviour belongs to; the others stay in their initial state. So one
run explores the union of the components' state spaces and not their product.

Correspondence, beyond the comments in the modules and `map` in `PROJECT.json`:

* **`ConsumeLedger`.** `consumed`, `head`, `seq`, `lock` are the attributes of the
  Ledger object, `log` the file as reads see it, `disk` its durable content, `buf`
  the writer's buffer. A consume is `Call`, `Acquire`, `SeekWrite`, `Flush`,
  `Fsync`, `Ack`. `Fault` is an OSError. A chain head is the sequence of entries
  hashed into it.
* **`WorkflowGate`, `DeliveryTracker`.** The operations hold their guards;
  `SeekWrite`, `Flush`, `Fsync` are `_persist`; `port` selects what a failed write
  leaves and what an open does with an unreadable record. The tracker never seeks.
* **`OrderedLogs`.** An append is two steps, sign and commit, because
  `Authority.append` holds no lock. The suite runs it with one thread
  (`Threads = {"t1"}`): with two, a position is signed twice, which section 5
  records; `Overlap = FALSE` in `CausalOrder` likewise (overlapping scopes).
* **`AgentGuards`.** A call is classify, authorize, pause, decide, resume, run,
  record, one step per call of the framework or of the human. `framework` selects
  the adapter's own order of these steps. What a framework does between its hooks is
  external and follows from how the adapter uses it.
* **`McpGuard`.** Main loop, reader thread, server and client are four actors; a
  line is a record. `SeedRace` is `load_or_create_seed` by several processes.
* **`Admission`, `Claims`, `Authority`.** Clocks are small numbers that advance
  between the steps of a use. A wire body is the function of the map keys that are
  present, so a missing key, a key too many and a value of a wrong type are inputs.
* **`Envelope`, `SignedChains`, `Identities`, `ProofRecords`, `Gateway`.** A network,
  a storage or a log operator combines any parts that exist; it cannot sign with a
  key it does not have.

Definitions whose comment begins with "Mutant" are not part of the model. Each is a
plausible mistake in the code (a dropped guard, a missing fsync, an off-by-one) that
can take the place of the definition it precedes.

## 3. Runs

`tlc -config <cfg> <module>` for each:

| Run | Instance | Shows |
|---|---|---|
| `ledger` (`MCConsumeLedger`) | 1 ledger, 2 threads, 2 approvals; 1 crash, 1 power loss, 1 I/O error (686k states) | spent exactly once, persist before ack, positions go forward, durable records stay, no refusal without cause, refines `SingleUse`, the lock is given back |
| `durable` (`MCDurable`) | 2 tasks in each port, 2 objects with 2 stages; crashes, power losses, I/O errors (534k) | the gate holds, stages are kept, nothing durable goes back |
| `switchboard` (`MCSwitchboard`) | 5 objects one way, 1 the other, queues of 2 (216k) | nothing lost or reordered, close drains; everything arrives if receivers read; close returns unless a pump stays blocked on a full queue nobody reads |
| `evidence` (`MCDoubleSpendEvidence`) | 3 replicas of 2 ledgers, 2 approvals, 1 observer; 1 forged receipt, 1 restart (1.2M) | no false accusation, evidence transfers, conflicts are detected |
| `records` (`MCRecords`) | section "bounds" in the module (414k) | a verifier accepts exactly what happened: graphs, logs, chains, identities, gateway, proofs |
| `authorization` (`MCAuthorization`) | 2 workers, 3 calls, 6 approvals; 3 grants, 4 inputs; 2 users of one guard (1.3M) | nothing acts beyond a living, unrevoked, unspent authority |
| `wire` (`MCWire`) | 2 signing acts, 3 setter calls, byte strings of 5, values built in 2 steps, schemas in 2 edits (702k) | what is accepted was signed as such; one encoding per value |
| `agents` (`MCAgents`) | 2 calls in 8 frameworks, 3 client lines, 3 guards, 4 plans, scripts of 3 events (2.1M) | actions run under their approval, once, recorded; answers reach their requests; independent statements agree |
| `gate_go_fragment` | 1 crash, 1 I/O error | violation: statuses acknowledged after a short write are cut off |
| `tracker_repeat` | 1 object, 4 stages; 1 crash, 1 power loss | violation: a repeated report is acknowledged without an fsync |
| `msaf_reuse` | 3 calls, 2 at a time, 1 restart | violation: one approval, two runs |
| `guard_timeout` | 3 client lines, 2 messages of the server's own | violation: a gated attempt without a receipt |

Most checked properties are conjunctions of named parts; each part is stated with
its own comment in its module and has its own mutant:

| Property | Run | Named parts, each with a mutant that breaks it |
|---|---|---|
| `RefusesOnlyForCause` | `ledger` | `CleanLogReplays` (`AdvancedHeadNot`), `RefusedMeansSpent` (`FreeAlways`) |
| `GateHolds` | `durable` | `GateTypeOK` (`LastStatusSwapped`), `GateNeverBypassed` (`RunUngated`), `AckedSurvives` (`FsyncMissing`), `CrashRecovers` (`ReadablePartWhole`) |
| `TrackerKeeps` | `durable` | `TrackerTypeOK` (`LastStageOffByOne`), `PersistedStageKept` (`SyncedNot`) |
| `LogsGoForward` | `durable` | `DurableForward` (`CreateAgain`), `PersistedMonotone` (`LaterAlways`), `UpdatesKept` (`ReplayEndStart`) |
| `SwitchboardKeeps` | `switchboard` | `TypeOK` (`MayPutAlways`), `NothingLost` (`TakenNot`), `CloseDrains` (`StopFirst`) |
| `EvidenceConvicts` | `evidence` | `TypeOK` (`PositionBefore`), `EvidenceSound` (`AcceptableUnsigned`), `EvidenceTransfers` (`ForkOfSame`) |
| `CausalOrderExact` | `records` | `VerdictIsReachability` (`HasCycleNever`), `FrameTreeIsForest` (`CheckFrameTreeSelf`), `ScopeIndependent` (`VerifyReconcileLength`), `OrdersAreExtensions` (`TopoOrderByPosition`) |
| `AccusedIffForked` | `records` | `HonestNeverAccused` (`ObserveTwice`), `EquivocationProven` (`ObserveLatest`), `ForkProofIffForked` (`DetectForkAnySeq`), `DirForkIffForked` (`DetectDirForkAnyVersion`) |
| `RoomLogsTellAll` | `records` | `LogsVerify` (`CommitCountOnly`), `LogExplainsRoom` (`ApplyVerdictAnyEpoch`), `OwnersAreMembers` (`OpVerdictAnyone`) |
| `ChainsAreHistories` | `records` | `OnlyRealHistories` (`VerifyNameChainSeq`), `HoleAtFirstDeparture` (`DetectHoleLast`), `TaskChainIsRun` (`LegalEdgesReopen`), `ConsentForShownOnly` (`VerifyConsentShown`), `RecoveredAsBridged` (`VerifyImportClaimed`) |
| `IdentityStaysWithItsOwner` | `records` | `OneOwner` (`VerifyRotationOne`), `HistoryIsThread` (`RebindSameEpoch`), `OnlyTheEntitledSpeak` (`VerifyRevocationAny`) |
| `GatewaySpeaksTrue` | `records` | `InclusionIffLogged` (`VerifyInclusionUnbounded`), `WitnessSawThis` (`ValidateWitnessRootOnly`), `RecordsSurviveTheWire` (`DecisionRecordBytesShort`), `CommitmentBinds` (`EgressCommitUnsalted`) |
| `ProofsTellOneStory` | `records` | `AcceptedLogIsHistory` (`CauseInPlaceAnywhere`), `BundleTellsOneStory` (`ResolveOrAsserted`), `BuiltBundlesVerify` (`ExpiredEarly`) |
| `ActsOnlyApproved` | `authorization` | `HitlTypeOK` (`OutcomePartial`), `OncePerApproval` (`SpentNever`), `Backed` (`RefusalUnbound`), `RefusalLogged` (`LogFailsSwallowed`), `DeniedIsFinal` (`RefusalReversed`) |
| `ActsWithinApproval` | `authorization` | `OneActPerApproval` (`ChargeVerdictReusable`), `ToolEffectNotUnderstated` (`MapAnnotationsMild`) |
| `ClaimsContained` | `authorization` | `StaysInsideGrant` (`SpatialContainedZip`), `UnknownEffectIsWorst` (`AuthorizeObjectRaw`), `AcceptedAsStated` (`VerifyPaymentAnyFormat`) |
| `AdmittedForCause` | `authorization` | `AuthorisedAtUse` (`VerdictAtIssue`), `LegacyGainsNothing` (`AuthorizeLegacyRaw`), `StrictWithinGrant` (`BuildInputNamed`), `AdmittedIsDerivable` (`RecheckAuthorityUnchained`) |
| `TrustMovesForward` | `authorization` | `PinFollowsRotations` (`RotationVerifiesLoose`), `TighteningIsFinal` (`TightenToggles`) |
| `EnvelopeSpeaksTrue` | `wire` | `AcceptedWasSigned` (`CompositeVerifyEither`), `AcceptedIsUsable` (`CheckCriticalLoose`), `AnnotationsKept` (`SetEntryAlone`), `DuplicationExact` (`DetectRepeats`) |
| `FirewallMatchesPeer` | `wire` | `AllowedIsAccepted` (`TooManyPlusOne`), `DeniedForCause` (`AudienceRuleForAll`) |
| `FlowsAsSigned` | `wire` | `CommittedIsWhatWasSent` (`VerifyCommitLength`), `AnyOrderWillDo` (`CommitDigestArrival`), `FlowsExact` (`VerifyContinuationUnlinked`), `AcceptHasPath` (`DescendsTrusting`), `LabelsFailClosed` (`ValidateLabelsExtensible`) |
| `WireExact` | `wire` | `OneEncoding` (`ShortestAlways`), `ReadBackAsSent` (`EncodePairsAsGiven`), `ErrorsMeanTheSame` (`NameAgreesAlways`), `CarriedInConfidence` (`EmitOr`) |
| `SchemasAgree` | `wire` | `StrictIsExact` (`CddlIntegerInclusive`), `ValidIsSendable` (`SplitKeepsAudience`), `BodiesTellApart` (`BuildNumberUnsigned`) |
| `GuardedRuns` | `agents` | `RunsUnderItsApproval` (`ArgsToApproveOriginal`), `OneRunPerApproval` (`ForwardRetries`), `ChainIsLinear` (`CaptureForgetful`), `RecordedAndWithinGrant` (`AuthorizedAlways`), `StreamReadsBack` (`ReadAllLenient`) |
| `GuardianHonest` | `agents` | `GatedAsShown` (`NoteFirstListing`), `ReceiptsTellTheTruth` (`HumanRefusesLate`), `ClientHearsRight` (`ReadsAnyLine`), `OneIdentity` (`SeedCreatesAlways`) |
| `PlanCarriedOut` | `agents` | `OnlyAnsweredExecute` (`ObservationAny`), `GraphIsThePlan` (`RequestUnlinked`), `FailureStopsDependentsOnly` (`TopologicalOrderLoose`), `MergeIsDeterministic` (`MergeAll`) |
| `ConformsToTables` | `agents` | `AnswersFollowTheTables` (`ConsumeEventLedgerFirst`), `ReconcileFollowsItsTable` (`AddChainUnobserved`), `SameInEveryFramework` (`AdkHookUnrecorded`), `ThreadReadsItsOwnHash` (`AbsorbShared`) |

Besides these: `TypeOK` (`ReplayedSeqOffByOne`), `ExactlyOnce` (`SpentNever`),
`PersistBeforeAck` (`SyncedNot`), `ForwardOnly` (`AdvancedSeqNot`), `DurableKept`
(`EndOfStart`), `ImplementsSingleUse` (`AidsForgotten`), `LockReleased`
(`FsyncRetried`) of the ledger; `ConflictDetected` (`PreviousLost`);
`EventuallyReceived` (`PumpPutOnce`) and `CloseReturns` (`StopNot`);
`ReplayIsCanonical` (`BeforeByPlace`); `AuthorityNeverGrows` (`ScopeFirstSegment`);
`TerminalIsFinal` (`GuardOpenAgain`).

**Why these bounds.** Two threads are needed for a race; a third adds another waiter
on the same lock. Two approvals (tasks, objects) let the record of one operation be
disturbed by the other. One failure of each kind in every order reaches each window
between write, flush, fsync and acknowledgement and the reopening after it; the
tracker has two I/O errors because two abandoned records have to queue up, and the
Go gate two power losses because the second can undo a truncation. Three objects
give every shape of a cycle and of a tie; two chains with two or three records can
be spliced; a log of three leaves is an odd tree; four keys hold a classical one and
one of another owner. Two signing acts are enough to mix the parts of two forms. An
alphabet of heads at each change of width with strings of five bytes reaches every
length form with an item behind it. Three grants are a root, a middle and a leaf,
so that the middle one can expire or be revoked. Two calls in flight with arguments
of which two encode alike reach the shared content id. Five objects one way fill a
receive queue, the pump's hand and a send queue at once, so that `close` can also wait to
put its sentinel. The server of the MCP guard numbers a request of its own with an id
the client uses too. A flow is sealed twice, once by somebody else; one critical
extension is known and one is not. Texts hold a character of one octet and one of two.
Three tasks make a chain and a diamond's half. The counters in guards are all CONSTANTS named `Max...`.

**Symmetry** is used where values are only compared: tasks and objects in `durable`,
approvals in `evidence`, threads in `authorization`. None is used in a run with a
liveness property.

**Fairness.** `ConsumeLedger!FairSpec`: a thread that holds the lock keeps running,
because nothing in a consume waits for anyone once the lock is taken. Nothing is
assumed about who gets the lock next, and no failure is ever required to happen.
`Switchboard!FairSpec`: the pump threads and the thread in `close` run when they are
not blocked; senders and the decision to close have no fairness. That
receivers keep reading is a promise of the application and not of the code, so it is
no fairness: it is the premise `ReceiversRead` inside `EventuallyReceived`, and
`CloseReturns` does without it. There a pump that stays blocked on a full receive
queue is the one stated exception: `close()` has no timeout and then waits for ever
(delivery.py:217, 227-230).

**Deadlock** is checked for ledger, durable and evidence, which can always reopen or
be called again. The switchboard stops when it is closed and drained; in the other
suites the parties may have nothing more to present, or a bound is used up.

## 4. Proofs

`tlapm <module>.tla` checks each of the eight proof modules. The theorems hold for
every value of the constants: any number of threads, approvals, replicas, objects,
keys, tools, tasks, grants, chunks, scripts and records, a Merkle tree and a causal graph
of any size, any capacity, and any number of crashes, power losses, I/O errors, restarts
and forgeries.

| Module | Theorem | Says |
|---|---|---|
| `ConsumeLedgerProofs` | `TypeCorrect` | `Spec => []TypeOK` |
| | `SpentOnce` | `Spec => []ExactlyOnce` |
| | `AckedIsDurable` | `Spec => []PersistBeforeAck` |
| | `PositionsGoForward` | `Spec => []ForwardOnly` |
| | `DurableRecordsStay` | `Spec => DurableKept` (action property) |
| | `LedgerImplementsSingleUse` | `Spec => ImplementsSingleUse`, the refinement of `SingleUse` |
| | `RefusalsHaveCause` | `Spec => []RefusesOnlyForCause` |
| `FederationProofs` | `EvidenceNeverFalse` | `Spec => []EvidenceConvicts` |
| | `ConflictAlwaysDetected` | `Spec => []ConflictDetected` |
| | `CausalOrderTheorem` | `CausalSpec => []CausalOrderExact` |
| | `ConformanceTheorem` | `ConfSpec => []ConformsToTables` |
| `SwitchboardProofs` | `RelayKeepsAll` | `Spec => []SwitchboardKeeps` |
| `DurableProofs` | `TrackerKeepsStages` | `TrackerSpec => []TrackerKeeps` |
| | `GateHoldsThrough` | `GateSpec => []GateHolds` |
| | `StoresGoForward` | `DurableSpec => LogsGoForward` (action property) |
| | `StoresKeep` | the two invariants for the composed `DurableSpec` |
| `AuthorizationProofs` | `InterceptorSafe` | `HitlSpec => []ActsOnlyApproved` |
| | `OnlyWhatWasApproved` | `AuthSpec => []ActsWithinApproval` |
| | `ClaimsStayContained` | `ClaimsSpec => []ClaimsContained` |
| | `AlwaysForCause` | `AdmSpec => []AdmittedForCause` |
| | `TrustNeverBack` | `AdmSpec => TrustMovesForward` (action property) |
| | `DelegationExact` | `AuthSpec => []AuthorityNeverGrows` |
| | `NothingWithoutCause` | all of them for the composed `AuthorizationSpec` |
| `AgentsProofs` | `GuardStaysHonest` | `GuardSpec => []GuardianHonest` |
| | `RunsAreGuarded` | `GuardsSpec => []GuardedRuns` |
| | `PlanIsCarriedOut` | `OrchSpec => []PlanCarriedOut` |
| `RecordsProofs` | `RoomLogsTrue` | `LogsSpec => []RoomLogsTellAll` |
| | `EquivocationAlwaysProven` | `LogsSpec => []EquivocationProven` |
| | `HonestNeverAccusedAlways` | `LogsSpec => []HonestNeverAccused` |
| | `ChainsInvariant` | `DescSpec => []ChainsInv`, and `RecoveredAsBridged` |
| | `ChainsTheorem` | `DescSpec => []ChainsAreHistories` |
| | `AccusationsTheorem` | `LogsSpec /\ DescSpec => []AccusedIffForked` |
| | `IdentityNeverPasses` | `IdSpec => []IdentityStaysWithItsOwner` |
| | `ProofsAreTrue` | `ProofSpec => []ProofsTellOneStory` |
| | `ReplayStaysCanonical` | `ProofSpec => ReplayIsCanonical` (action property) |
| | `GatewayTheorem` | `GatewaySpec => []GatewaySpeaksTrue` |
| `WireProofs` | `FlowsTheorem` | `FlowsSpec => []FlowsAsSigned` |
| | `TerminalTheorem` | `FlowsSpec => TerminalIsFinal` (action property) |
| | `EnvelopeTheorem` | `EnvSpec => []EnvelopeSpeaksTrue` |
| | `FirewallTheorem` | `PreSpec => []FirewallMatchesPeer` |

### Assumptions

On the constants: the `ASSUME` of each module (`LedgerConstants`, `EvidenceConstants`,
`SwitchboardConstants`, `GateConstants`, `TrackerConstants`, `HitlConstants`,
`AuthorityConstants`, `DelegationConstants`, `ClaimsConstants`, `AdmissionConstants`,
`AgentGuardsConstants`, `GuardConstants`, `OrchestrationConstants`,
`CausalConstants`, `OrderedLogsConstants`, `AuthoritiesNamed`, `ChainsConstants`, `DescConstants`, `IdentitiesConstants`,
`GatewayConstants`, `ProofRecordsConstants`, `FlowsConstants`, `EnvelopeConstants`,
`PreSendConstants`, `ConformanceConstants`). They say that bounds are numbers, that seeds
are positive and a hash's first squeeze is not empty, that no authority has the empty name, that sets are finite where the code counts them, that unsigned fields hold numbers or are marked as malformed, that the
drafts a signer starts from name no extension twice, and that "nothing" is not a value.
TLC evaluates them in the runs.

Some theorems are stated under a hypothesis on how the code is used. Each one is needed,
and the instances of the passing runs satisfy it:

* `SingleWriter` (all ledger theorems but the first): one Ledger object on the path.
  Two objects both spend an approval (section 5).
* `GoWritesSucceed` (the theorems about the gate): no write of the Go gate fails. With
  one failed write `AckedSurvives` is false, which the run `gate_go_fragment` shows. The
  Python port has no such condition: its I/O errors are in the theorem.
* `OneThread` and `OwnAuthorities` (`RoomLogsTrue`, `HonestNeverAccusedAlways`,
  `AccusationsTheorem`): one
  thread at a time calls the authority, and relay and rooms have authorities of their
  own. These objects take no lock, and a shared authority's receipts do not chain inside
  one room's log. `EquivocationAlwaysProven` needs neither.
* `Overlap = FALSE` (`CausalOrderTheorem`): no two scopes hold the same object. With an
  overlap the merge counts a shared cause once and takes it off twice, and refuses or
  orders the object twice (section 5).

### The arguments

None of the properties is inductive. Each module defines an inductive invariant as a
conjunction of named parts, proves `Init => Inv`, one lemma per action for its
preservation, and draws the property from it.

**The ledger.** `TypeInv` adds to `TypeOK` that the file is never shorter than what is
durable and that a buffered record goes no further than its end (`Bounded`), without
which a write would not give a sequence. `SafeInv` then consists of

* `LockInv`: a thread inside the critical section holds the lock of an open ledger,
  so there is at most one (`OnlyOne`);
* `FileInv`: durable records are the start of the file and no buffered record is
  going to be written over one, not even one that an earlier failed flush left
  behind;
* `PendingInv`: how far the append has come: the entry's id is not yet in memory
  and its position is the next one; after the flush it is in the file, after the
  fsync on the disk;
* `MemoryInv`: an open ledger knows every acknowledged id and is past every
  acknowledged position;
* the three properties.

The delicate step is `OpenSafe`: an open rebuilds the memory from a file that may
hold abandoned, duplicated or torn records, and `MemoryInv` must come out of
`PersistBeforeAck` and the fact that `_replay` accepts only a chained log in which
the position of a record is its place (`ReplayedAcks`). A torn or duplicated record
makes the open refuse, and then nothing is claimed. The refinement maps the abstract
sequence to the ids of `acks`; every step either appends one entry whose id is fresh by
`MemoryInv` or leaves `acks` alone (`AcksGrow`). `RefusalsHaveCause` adds `CauseInv`:
before the first fault the file replays and agrees with memory except for the one entry
between them (`CleanInv`), and what either holds was returned to somebody (`GrantInv`).

**Evidence.** `EvidenceInv`: what carries a ledger's signature was spent by one of its
replicas (`SignedIsSpent`), a replica spends an approval once (`SpendsInChain`), and a
receipt that an observer accepted is the one it keeps or was answered with evidence
(`ObservedIsAnswered`). Two different receipts of one approval are therefore the work of
two replicas.

**Causal order.** `CausalInv` says that the objects differ in their ids and name each
cause once. The weight is in two algorithms. In the search, whatever is gray leads to the
node being visited and whatever is black is `Settled`: all it leads to is black and it is
on no cycle (`Enters`, `Returns`). A cycle is therefore reported if and only if some node
reaches itself (`SearchExact`), and a call depth of the number of nodes is enough because
every call paints a white one. In the sort, each object comes after its causes and the
count of one not yet taken is the number of its causes not yet taken (`KahnGood`); while
any is left, one of those that reach the fewest has all its causes taken, so that one is
ready (`ReadyExists`). Where the order first differs from another extension of the causal
order, the sort took the least of what was ready and the other took something else that was
ready too (`GreedyIsLess`): the order is the least one, and depends on ids and causes
alone (`AlikeIs`), not on the scope or the place from which an object came. Frames are
nodes whose only cause is the parent.

**Conformance.** `ConfInv`. `GradedInv` says that the object under test holds, for each
object of the script, what the rows of the oracle's table leave it in (`DrivenTo`): one
event on the implementation is one row of the table (`EventHandled`), and events of
another object pass an object by (`FollowedNext`). The oracle's own linearisation takes
the least id whose causes are emitted, which is a greedy order of the same graph, so by
`LeastIs` it is the order of the merge (`ReconcileOrderExact`); a chain is refused by one
of its faults (`AddChainExact`), since in a chain without a broken link no two receipts
have one position. `ShakeInv` says that a thread's cursor is at the end of what it read
of its own seed, and that a buffer which was absorbed is not empty, without which doubling
it would never end.

**Switchboard.** `RelayInv`: `Lane` says that what was sent is, in order, what was
received, what waits in the far queue, what the pump has in hand and what waits in the
near queue; `Joined` that a pump which was joined has exited. `CloseDrains` needs
more: a lane holds at most one sentinel, and the objects before it are those that were
sent before it.

**Tracker.** `TrackerFileInv` keeps the writer's position past what is durable even when
a failed flush left part of a record; `KeptInv` names for every acknowledged stage a
durable record (`Keeper`) behind which the log never goes back below that stage.

**Gate.** The same idea per task (`AckedInv` with `StatusKeeper`), with `GateFileInv`
for where an unreadable record can be, `SuppliedInv` (whatever is past a gate, in
memory, file, disk or buffer, was supplied) and `PythonInv` (the Python file is ordered
and at most one gate ahead of memory).

**Authorization.** `HitlInv` ties each worker's step to the approvals that the ledger
holds and to the refusal log; `AuthInv` holds a bridged call to what it was resolved to;
`ClaimsInv` has the shapes of what was granted. In `AdmInv`, `UseInv` says that a use
between its two steps was judged at a position not after the revocation it knew of,
`PinInv` orders the keys that were welcome, `ServingInv` says that the request at work
passed the checks of its own path. For delegation, `GrantInv` only says that the grants
kept are finitely many and well-typed: the weight is in the walk up the chain, a
recursive function over the number of steps. It ends at a root if and only if the grants
it passed are the whole path and each is alive, unrevoked and inside its parent
(`GrantsNest`), and since containment is transitive, the leaf is inside every one of them.

**MCP guard.** `GuardInv`: the slot holds the answer to the request at work or a request of
the server's with its id (`WireInv`); a request of the client's is in exactly one place, on
its way, with the server, answered on the wire, in the slot, put aside or answered
(`PlaceInv`), and an answer is put aside only when a request of the server's had taken its
place (`LateInv`); the tools known are those last shown, late listings aside (`ShownInv`);
every receipt is true of the call it names (`TruthInv`); the server's own messages are
numbered without gaps over client, slot, queue and wire (`NumberInv`). These are claimed
while the guard runs; once it has stopped nothing moves, and `GuardianHonest` stays as it
was. Among racing processes at most one writes the seed (`SeedInv`). No assumption is made
on the server's ids.

**Adapters.** `FrameInv`: what a session remembers is its last record (`ChainInv`), each
call carries the approval, grant and record that its step needs (`CallInv`), so does
each run (`RunInv`), an approval is held by one call or one run (`OnceInv`), and results
are counted against runs (`ReceiptInv`). That a recorder's stream reads back is a lemma
on the reader's recursive function.

**Orchestration.** `FlowInv`: the lock keeps the library's state to one thread, so that
no answer is mixed up (`OrchInv`); a sequential run takes every task after its
prerequisites (`TurnsInv`, from what the topological sort computes); a task is blocked
exactly when something it needs will never execute (`FateInv`); the merge is that of all
answers (`MergeInv`). A request that was signed and whose transport then failed stays among
the emitted ones while its task is refused, so a response to it executes nothing.

**Records.** `AuditInv`: an auditor keeps one delivered receipt per position and has
proven every other one against it. `LogsInv`: a pending receipt continues its chain
(`PendInv`, `ChainInv`), whatever was issued is in its log or pending until a restart
(`IssuedInv`), and a room is what its log replays to (`RoomInv`). `IdInv`: signatures
are those their makers were willing to give (`SigInv`), a principal's bindings are a
thread of one owner (`ThreadInv`), a revocation has its signature (`DeadInv`). `LogInv`
and `BundleInv` say what storage and parties can hold; that two accepted logs of the same
records replay alike rests on the canonical order being a total one in which no record
comes before its causes.

**Chains and directories.** `ChainsInv`: a run's log is a chain of its own stream whose
entries its authority signed, and every signed object is an entry of some log under some
key, so that a verifier that walks back from an entry whose signature it trusts can only
meet entries of that log. Two chains with the same head are equal because the head is
what was hashed; the first place where a presented list departs from every real chain is
therefore where the predecessor stops matching. `DirInv`: a publisher's version is the
number of directories it published before, so one run never signs a version twice.

**Gateway.** `GatewayInv`: a checkpoint's root and size are those of the leaves it was
made of (`CheckpointsInv`), the statement last received is what its signer encoded
(`RecordsSurviveTheWire`), and what crossed carries the commitment to its own content
(`CrossedInv`). `InclusionExact` is about `verify_inclusion` alone, for trees of every
size: a path is accepted if and only if the leaf is the one at that index and the path is
the generated one. It is proved for every slice of the leaves by induction over its
length (`SliceExact`), because the tree splits a slice at the largest power of two below
its length, whatever that length is.

**Envelope and firewall.** `WireInv`: an act is one of the three forms with the keys and
the header of its own form (`ActsInv`), so the parts of two acts can never be put together
to something accepted: what a signature covers names the form, the header and the payload
(`RotationTbs`). `EditInv` says what a draft holds of what its author asked for,
`CloneInv` that two objects of one counter value are of two copies of the signer. `PreInv`
ties the decision and the peer's answer to the candidate as it stands.

**Flows.** `StreamInv`: a sender lays its chunks out without gaps (`Laid`), a commit is
over the octets of such a list (`Signed`), and what was settled has the committed digest.
That any order of arrival gives the same digest rests on the stable sort by offset: of the
chunks at one offset at most one is not empty, so their order among themselves does not
change the octets. `FlowInv` says that seals and marks are over beginnings of the chain, `DealInv` that
the messages known were sent; an acceptance has a path because the shortest walk through
the causes visits no message twice (`ShortestWalk`).

**Induction over data.** The library's induction theorems take an operator and cannot be
used. The proofs use the well-ordering of the numbers instead, as a lemma on sets (`LeastOf`: a nonempty
set of naturals has a least element; `AllUpTo` for an initial segment): the failing
arguments of a concrete recursive function have a least one. This way the recorder's
stream, the topological order of a plan, the search and sort of a causal graph, the replay
of a room, the causal order of a log and the rows of a script are proved for every length.

### What the proofs changed in the models

* `DurableForward` claimed that nothing durable of the Go gate is taken back. Beyond the
  bounds of the run that is false, even without I/O errors: in 36 steps with 4 crashes
  and 3 power losses a record that an open had truncated comes back. The property now
  claims it for what a caller was told of, and in full for Python.
* `ForwardOnly` in `Admission` speaks of the legs of the rotation relation;
  `ClientHearsRight` demands that the server's messages arrive once and without gaps;
  `ChainIsLinear`, `NothingLost`, `MergeIsDeterministic` and `LogExplainsRoom` are
  stated over operators that have proved lemmas.
* `VerifyChain` and `CheckSigner` are nested conditions: their guards overlap, and the
  code takes the first that applies, while a `CASE` may take any.
* `ProofBundle` names what `build_bundle` puts together.
* `AnyOrderWillDo` compared sets of chunks. With larger bounds that is false: the set
  forgets how often an empty chunk came. It now speaks of the same chunks, each as often
  as it was sent.
* `HoleAtFirstDeparture` speaks of the chains that a run keeps: the chains of the A2A
  bridge, which no run keeps, would falsify it as soon as an instance issues entries for
  cards. They are the subject of `RecoveredAsBridged`.
* Recursion that the theorems speak of is a recursive function: the walk up a chain of
  grants, the subtree hashes and audit paths of the Merkle log (over slices of the leaves),
  the octets of a stream, the activity of a session, the depth-first search and Kahn's
  algorithm (over the places of the nodes), the rows that a script follows, the oracle's
  linearisation, the growth of a hash buffer. What a cause reaches is what every set closed
  under causes holds. What `sorted()` returns is stated by
  the rank of an element. First-match conditions that were `CASE` are nested `IF`.
* The paths that a prover of inclusion may offer are all sequences of known hashes up to
  one less than the bound on the log, those of every slice of every view included.

### Only model-checked

* `LockReleased`, `EventuallyReceived`, `CloseReturns`: liveness is out of the prover's
  reach.
* `WireExact`, `SchemasAgree`: their modules have recursive operators (decoders,
  validators), with which the prover has no SMT backend.

## 5. What the checks show about the code

Four runs end in a violation on purpose: each states what a comment of the code says
and shows a behaviour of the code that does not keep it (`findings` in
`PROJECT.json` quotes the lines).

* `gate_go_fragment`: after a short write the Go gate appends behind the fragment,
  and the next open truncates acknowledged records.
* `tracker_repeat`: an advance to the current stage is acknowledged without an
  fsync, although the stage may be in the page cache only.
* `msaf_reuse`: nothing marks an MSAF approval as used, so equal arguments run again.
* `guard_timeout`: a timeout passes the effect gate, which catches `ApprovalError`
  only: the approval is spent, the server has the call, and no receipt is written.

Seen while modelling, without a run of their own. Storage and concurrency:

* The single-use test is per Ledger object and the file is not locked: two objects
  on one path both spend an approval (`approval.py:392-398`).
* Two sides of a partition at the same position sign identical receipts, which
  `ReceiptSet` takes for a duplicate.
* `Switchboard.close` ("Stop both pumps and wait for them to exit") waits for ever when
  nobody reads a full queue; `CloseReturns` shows that it waits for nothing else.
* The Python gate and the tracker refuse a log with a torn last record
  (`channels.py:272-277`, `delivery.py:126-131`); the Go gate truncates instead.
* After a crash between flush and fsync `WorkflowGate.status` reports a status that
  only the page cache holds (`channels.py:327`).
* A ledger whose flush failed appends the abandoned entry and then another one with
  the same position (`approval.py:398-401`); nothing is spent twice, but the next
  open refuses the log. `CleanLogReplays` has its premise for this reason.
* The tracker's log can go back to an earlier stage after a failed flush, although
  the replay relies on it being "monotonic on write" (`delivery.py:133`).
* Threads on one `Authority`, `Registrar` or room sign one position twice, and both
  pass a room's epoch test (`rooms.py:260`, `309`); a shared authority makes the
  rooms' logs unverifiable one by one.
* The fingerprint cache and `ChainRecorder` are not safe for threads. A human's
  decision inside the fan-out's `CRYPTO_LOCK` blocks every other branch.
* An approval refused as expired, and signed as DENIED, is accepted after the wall
  clock is set back (`interceptor.py:48-50`). A torn line of the refusal log swallows
  the next entry (`refusal_log.py:95-104`).

Verifiers that compare less than one might expect:

* `negotiation.verify_accept` does not compare negotiation ids, and an accept may
  select a profile nobody offered; it and the flow verifiers ignore `profile`.
* `verify_task_chain` never compares the task id across transitions;
  `parse_name_binding`, `parse_transition`, the payment import and the gateway's
  parsers accept extra fields, the foreign profile does not. For names `naming.py:138-139`
  and `415-416` say the opposite; `OnlyRealHistories` claims of such a chain only that
  what is read from it was appended.
* AG-UI consent takes the first approved event; a later "rejected" is ignored.
* `resolve_thread` and `rebind` ignore revocations and `not_before`;
  `register_revocation` overwrites.
* `verify_fresh_independent` ties the receipt neither to the approval nor to its
  position. `envelope.verify` does not tie the signer field to the verifying key. Mixed
  mode takes its "signature-derived" principal from that field (`endpoint.py:180`,
  against `endpoint.py:25-27`, `104`, `178-179`), so that the holder of an accepted key
  may name the signer whose grant is used. The OPA input is built from the verifying key
  (`opa_policy.py:24-28`). `StrictWithinGrant` keeps the two apart.
* `verify_bundle` takes the required profile from the bundle, does not compare the
  approval's grant with the object's effect, and fails once the approval has expired.
* A log cut exactly at a record boundary verifies as a shorter log. An inclusion
  proof can show a wrong index under a wrong size. The stream commit digest does
  not bind offsets.
* `mcp.verify` uses the signed annotations and never compares them with those inside
  the carried definition; the MCP hook keeps an annotation id when a tool is listed
  again without annotations.
* `verify_receipt_bytes` trusts the key inside the receipt.

Conversions and edges:

* `_to_cbor_value` of the adapters maps `True` and `1`, `1.5` and `"1.5"` to one
  value, although `langgraph_adapter.py:188-191` says that changing any argument changes
  the content id. Where the call waits for its own decision this does no harm. MSAF finds
  an approval by content id alone: it is good for arguments that encode alike and for
  another tool, although `msaf_adapter.py:237-239` binds it to the exact arguments.
  Edited arguments are not classified or authorized again.
* The validator sizes the payload, the receiver the whole signed object; rotations
  under one signature, unknown critical extensions and other suites pass the
  validator ("nothing invalid reaches the wire") and are refused by every receiver.
  `ez.Signer.sign` signs a Rotation surface that `ez.verify` always refuses.
* `cbor`: invalid UTF-8 raises `UnicodeDecodeError` and not `NonCanonical`; a negative
  type with a value that is not negative is encoded wrongly. An explicitly empty
  detail of an error and absent carriage fields have second encodings.
* `schemagen`: `minimum` hides `exclusiveMinimum`; a missing lower bound becomes 0 in
  the CDDL, and without an upper bound the lower one of a string or an array is dropped;
  a `.size` counts octets while the validator's `maxLength` and `minLength` count
  characters (`generator.py:225`, `jsonschema_core.py:207-212`), so the two disagree on
  texts beyond ASCII without a warning; arrays without items, `additionalProperties` schemas and `prefixItems`
  are dropped without a warning; an untyped enum `[1]` accepts `True`.
* Mixed mode truncates fractional effects with `int()`. A hazard window that ends
  before it begins is accepted. Overlapping scopes make `reconcile` refuse
  (`federation.py:45`), and a cause named twice in one node is a `CausalViolation`.
  `verify_activity` of an empty list raises `IndexError`. Two tasks with equal action,
  signer and millisecond have one request id.
* MCP guard: a request the server makes during a call waits in `unsolicited` until
  the call returns, and is never relayed when the guard stops meanwhile, although its
  README (lines 64-65) says it is relayed untouched. A server request with the id of a
  pending client request is taken for the answer (`cli.py:92-101`): the client gets it as
  the result, the receipt hashes it though the tool may not have run yet, the real answer
  follows as an unsolicited line, and a real listing that comes this way is not learnt.
  `GuardianHonest` names each of these. A `tools/call` notification waits for the whole
  timeout; a tool that later listings drop, or that changes without a new listing, is
  gated by the old class; a tool name that cannot be a dictionary key ends the guard.
* The conformance adapter reports `persisted_origin` for an empty `delivery.state`
  script, an object it never saw.

## 6. Not modelled

* The terminal front end, the command line, telemetry and the record helpers: pure
  I/O or constructors.
* The other oracles of `tools/`, the corpus, the scripts and the harness runner:
  straight-line programs that print or compare files. The four state oracles, which
  are tables of a state machine, are modelled.
* The other language ports and the Go agent: ports of what is modelled from Python.
  The Go workflow gate is the exception because its failure handling differs.
* `formal/`: the repository's own earlier models.
* Cryptography and byte layouts below the level of CBOR items; UTF-8 beyond characters of
  one and two octets.

## 7. Plan

All parts of section 1 are modelled. What is left is proof:

* the parts of `WireForms` that are no decoders (`ErrorsMeanTheSame`,
  `CarriedInConfidence`), in a module without recursive operators.

Abstract specifications worth stating: a durable register per key that gate and
tracker implement; a FIFO channel that the switchboard implements.

The development keeps to a dozen runs of a few minutes each, so that all of it is
checked together; a question that needs a run of its own takes the place of a
violation run, whose observation then stays in section 5.

## 8. Abstractions and limits

* SHA-384 is injective: a content id or a chain head is what was hashed. Signatures
  verify exactly when they were made with the named key.
* Records are written whole: one flush hands one record to the kernel, which takes
  it, takes part of it (a torn cell) or fails. An overwrite of a record by one of a
  different length is not distinguished from one of the same length.
* A successful fsync makes the whole content of the file durable, and so is the
  directory entry of a new file.
* A power loss keeps the durable part; each later record survives, is lost from the
  end, or is unreadable.
* Read-only operations (`is_consumed`, `head`, `status`, `stage`, `audit_trail`) are
  not actions; they return variables of the model.
* The outside effect of an action, the human's judgement and the key material are
  outside the models; a human may answer anything.
* Byte formats are modelled where a property is about them (`WireForms`, `SchemaGen`
  and the map bodies of `Gateway`, `Claims` and `Authority`), wording and logging
  nowhere.

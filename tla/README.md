# simple-l1: a TLA+ verification project

simple-l1 is a Node.js node for *identity realms*: a realm has a canonical,
append-only log of events about who holds authority over an identity, a projection
of that log that decides what may be appended next, files that must bring both back
after a crash, and a transport that carries the log to other realms. Around it stand
an HTTP surface with passkey ceremonies, settlement, governance and a marketplace.

The modules in this directory are translated from the JavaScript under `src/node`.
TLC checks them on small instances; TLAPS proves the properties that matter most for
every value of the constants. `PROJECT.json` holds the same information for
tools: which definition models which lines, which run checks which property, which
change of the code each property would notice.

A path without a directory is relative to `src/node`; ADRs are under
`src/docs/architecture`.

- [1. The system and its parts](#1-the-system-and-its-parts)
- [2. The realm core](#2-the-realm-core)
- [3. Replication](#3-replication)
- [4. The ledger store](#4-the-ledger-store)
- [5. Governance](#5-governance)
- [6. The services](#6-the-services)
- [7. Runs](#7-runs)
- [8. Where code and documents disagree](#8-where-code-and-documents-disagree)
- [9. Proofs](#9-proofs)
- [10. Not modelled](#10-not-modelled)
- [11. Where to go on](#11-where-to-go-on)

## 1. The system and its parts

### The parts with logic of their own

| part | state | operations | what is hard | what makes it correct | modelled in |
|---|---|---|---|---|---|
| **Event registry** `realm-event-registry.js` | none (one contract per event type) | `validateEventAgainstContract`, `apply` of each contract | twelve types share six authority policies; `lastRecovery` is never cleared; names are looked up by id *or* reference | nobody acts outside a role; `findDevice` finds the device that is meant, or the one older device that goes by its name | `RealmEventRegistry` |
| **Pipeline, validator, projection** `realm-event-pipeline.js`, `realm-event-validator.js`, `realm-event-history.js`, `current-authority-state.js` | `ledger.event_log`, `ledger.current_authority_state` | accept and apply, reject, replay, boot | the validator reads the cached projection, not the log; a boot replays without validating | projection = replay; the log holds only permitted events in gapless sequence | `RealmPipeline` |
| **Recovery ceremony** `recovery-ceremony-runtime.js` | none of its own | three proposals in a row | any of them may be rejected, or a crash may follow it | no one is left without a device | `RealmPipeline` |
| **Command execution, API adapter** `realm-command-execution.js`, `realm-api-adapter.js`, `realm-command-runtime.js` | execution records by command id (in memory) | `executeCommand`, `handleApiRequest` | retries, reuse of an id for another intent, loss of the store | same id, same answer, one event | `RealmReplication` |
| **Replication transport** `realm-replication-transport.js` | none of its own | create, send, receive, verify a batch | lost, repeated, late, reordered, damaged batches; foreign histories | the receiver's log is always a legal one, and a prefix of the source's if nobody else writes, but for one event whose envelope was damaged | `RealmReplication`, `PrefixReplication` |
| **Ledger store, boot** `identity-ledger-store.js`, `start` and `applyEvent` in `server.js`, `scripts/realm-admit-orphan-accounts.js` | three files; `ledger` in memory | bootstrap, record, save, migrate, replicate to a standby, repair | several files written one after the other; accounts that change without an event; a root compared only at boot | what was answered survives; memory is a replay; a boot refuses only for a cause | `RealmLedgerStore` |
| **Governance** `settlement/governance.js`, `settlement/dsl.js` | proposals, votes, epoch, constitution file | propose, vote, collect, ratify, enact, veto | enactment may throw after ratification; the constitution is written before the ledger; the epoch is not restored | each amendment of the file had a quorum; root, epoch and interpreter follow the file; votes decide and verdicts stand | `RealmGovernance`; the files in `RealmLedgerStore` |
| **Authority runtime** `authority-runtime.js`, `capability-resolution.js`, `policy-artifacts.js`, `external-proof-runtime.js`, `marketplace-flow-runtime.js` | grants, revocations, authorizations, external proofs, settlements | grant, revoke, authorize, record a proof, settle | an authorization outlives the decision it was made on; a proof may be replaced | what settled on an authorization on record can be explained by grants | `AuthorityRuntime` |
| **Intent approval** `intent-approval-runtime.js` | approvals, replay keys (in memory) | approve, consume, revoke | use, expiry and revocation in any order; a boot forgets | an assertion executes once in a life of the process | `IntentApprovals` |
| **Settlement intents, event bus** `settlement/intent-resolution.js`, `settlement/event-bus.js` | intents, a ring of events | create, observe, fulfil, reject, expire, emit | a sweep races requests; ids repeat; peers hear of verdicts | a verdict is final; overdue intents close | `SettlementIntents` |
| **Policies** `settlement/policy.js`, `settlement/dsl.js` | the audit log, bounded | evaluate | the limit of the day is computed from a log that dry runs write to and that forgets | what passes on a stated amount stays within the limit, per account and asset | `SettlementPolicy` |
| **Attestations, receipts, subnets** `settlement/attestations.js`, `receipt.js`, `federation.js` | receipts, subnets, federation root | attest, issue, verify, register | receipts under a law that changes; a registry nobody tells | a receipt stays what it was | `SettlementFederation` |
| **Connect registration** `connect-runtime-store.js`, routes of `server.js` | reservations, challenges, handoffs, accounts and their passkeys | options, complete, release, hand off, enroll, pair, revoke | a completion awaits between check and use; cleanup at every route | one account per passkey that is not revoked, but for paired devices; one holder per alias | `ConnectRegistration` |
| **Connect authentication** `identity-proof-runtime.js`, routes of `server.js` | challenges, codes, tokens, proofs, sessions | authenticate, enroll, revoke, exchange, introspect | overlapping completions; retries; a passkey revoked in between | a proof is worth one exchange and one introspection | `ConnectProofs` |
| **Ledger routes, gossip** `server.js` | event log and accounts on each node | register, enroll, bind, revoke, broadcast, receive, replay | events arrive in any order or not at all, known by id only | a log replays to what the node holds | `IdentityEvents` |
| **Network join inbox** `server.js` | requests, artifacts (a file), DNS records | submit, allocate, record | read, await the provider, write: others' writes are lost | a name and an id are stored once | `NetworkJoin` |
| **Marketplace sellers** `marketplace-seller-runtime.js` | sellers, listings | upsert, activate | a cached checklist over records that move | nobody launches without what it takes | `MarketplaceSellers` |
| **Snapshot, backup, integrity** `realm-snapshot.js`, `realm-backup-restore.js`, `realm-integrity-check.js` | snapshot and backup artifacts | create, verify, restore | artifacts rot; a snapshot of a history that went on | a restore is true as far as hashes and snapshots reach; a snapshot that verifies rebuilds the replay | `RealmBackups` |
| **Subject claims** `subject-claim-history-runtime.js` | a stream of claim events | derive the active claims, disclose one | ids that are reused or delivered again | an ended claim is never disclosed | `SubjectClaims` |
| **Lifecycle, deployment, identity mesh** `realm-lifecycle.js`, `realm-deployment-runtime.js`, `identity-mesh-runtime.js`, `subject-authority-*.js`, … | none between two calls | compare, classify | see section 10 | | – |

### How they interact

- A *client* reaches the core through `handleApiRequest` → `executeCommand` →
  `acceptAndApplyRealmEvent`; a *remote realm* through `receiveEventBatch` →
  `executeCommand` → the same. `executeRecoveryCeremony` calls
  `acceptAndApplyRealmEvent` directly. There is meant to be no other way in
  (ADR-0076), which `NoParallelWritePath` states.
- `acceptAndApplyRealmEvent` calls the validator, which calls the registry; then it
  pushes the event and applies it to the projection.
- The HTTP routes of `server.js` write the ledger by `applyEvent`, which changes the
  accounts, appends to the log, recomputes the state root and calls
  `identityLedgerStore.recordEvent` and `saveSnapshot`. Governance and federation call
  the store's `saveSnapshot` too, without an event.
- `start` reads what the store finds and replays it; a canonical realm event goes
  through the registry's `apply` again, without validation.
- The services beside the realm core keep their records in `ledger` or in memory, each in
  fields of its own. `ledger` is one object, saved as a whole, so they share its files, and
  the process and its clock; none reads another's fields to decide what it does, but for the
  keys of an account: registration makes the account, authentication and approval read it,
  gossip changes it. Each module that needs the keys has its own copy of them, changed by
  actions of the same name.
- The API adapter and the replication transport are library code: the tests and the
  conformance runner call them; `server.js` has no route to them at this commit.

### What is hard here

Node runs one handler at a time and the core does not `await`, so within the core
nothing interleaves but a crash; the Connect routes and the join inbox do `await`, and there
requests overlap. The hard parts are: a crash between two steps of a
ceremony, between two file writes or in the middle of one; batches in any order, any
number of times; retries and reused ids with a store that is lost at a restart; state
that changes without an event; what a request read before an `await` and uses after it; records
that expire while they are in use; and long legal histories that reach a state no contract
foresaw. `PROJECT.json` lists each hazard at its line with the properties that would
notice it, or with the reason why none does yet.

## 2. The realm core

### Modules

`RealmEventRegistry` is pure: the payloads (`RootCreated` … `TrustRevoked`), the
projection (`AuthorityState`), the two halves of a contract (`CanIssue`, the
`requiredAuthority` policies; `ValidTransition`, the `validateTransition` functions;
together `Permits`) and `ApplyEntry`, the `apply` functions. `RealmPipeline` adds the
state and the steps. `RealmEventRegistryProofs` has the lemmas about `apply` that the proofs
about the pipeline and about replication share.

| code | model |
|---|---|
| `ledger.event_log`, with `sequence` | `event_log`, records of event and sequence |
| `ledger.current_authority_state` | `authority` |
| `acceptRealmEvent`: sequence, previous hash, contract | `InSequence`, `Permits` in `Accept` |
| `acceptAndApplyRealmEvent` | `AppendAndApply` |
| a proposal by anyone at any time, old, early or repeated | `Propose`, one named action per event type; `RejectProposal` |
| `executeRecoveryCeremony` | `BeginCeremony`, `CeremonyIssuesDevice`, `CeremonyRevokesDevice`, `CeremonyFails` |
| process exit; replay in `start` | `Crash`; `ReplayEvent`, `FinishBoot` |

`ceremony` holds the arguments of the call in progress, `mode` and `cursor` the boot in
progress. `projections` is a history variable: the projection after each accepted event.
No guard reads it.

Abstractions. The hash of the last event is its position: within one log the two
determine each other (`RealmReplication` compares two logs and keeps hashes apart).
Public keys, capabilities, labels and timestamps are data no decision reads, except that
a DEVICE_KEY_ISSUED without a public key is refused: `keyed` in a ceremony.

*Names.* Devices, recovery authorities and sessions have an id and a reference
(`authority_ref`, any string). Nothing keeps an id apart from another record's reference, and
the model does not either: new records replace those with the same id or the same reference
(`WithRecord`), lookups take the first record of the list that goes by the name (`FirstOf`; the
record keeps the sequence of its event, which is the order of the list), and revocations end
every record that goes by it (`Ended`). A new session replaces the one with its id only. A root
goes by one name: its two are compared with one signer only, and nothing else matches them.
`NamesAssumption` says that the absent value is not a name, and no more; the runs share a name
between ids and references. The optional signature check is outside: a proposal
in the model is one whose signer is who it says.

### Properties

- `ProjectionIsReplay`, `LegalHistory`: the log and the projection belong together
  through crashes, boots and failed ceremonies.
- `SignersWereAuthorized`, `DeviceChangesAreBacked`, `ActiveAuthoritiesAreIssued`,
  `GrantsFollowTheLog` read the *log alone*: they say by quantifiers over past events who
  was root, device or recovery authority at a point, and compare this with what was
  accepted and with what the projection says. They do not reuse the registry's `apply`.
- `RolesAreConfined`: what each role may change, over all event types at once.
- `DevicesAreFound`: `findDevice` returns the first match. A device is found under both its
  names, unless an *older* device goes by one of them the other way round; then that one is
  found, and no third.
- `CeremonyKeepsADevice`, `CompletedCeremonyReplacesDevice`,
  `FailedCeremonyLeavesNoMutation`: what a ceremony leaves behind at each point, at its
  end and when it fails. A completed ceremony replaces the device, unless the new one's
  reference is the old one's id: its last event then revokes both. The last property is what ADR-0070 asks for and the code does not do
  (section 8).

## 3. Replication

`RealmReplication` has a source realm, a transport, and a receiver that clients write to
as well. A hash covers the event and the hash before it, hence the whole history: it is
represented by that history. An event on the transport states its type, signer and sequence
twice: in the fields beside the payload, which the hash covers (`realmEventHashMaterial`), and
in its envelope, which the receiver executes (`normalizeRealmEventProposal`). Nothing compares
the two. `TransportEvent` keeps them apart, as `entry` and `executed`; `ExecutedHash` is the hash
the receiver computes when it accepts the event. A damaged event is one whose content is not
what its hash says, or whose envelope is not what its fields say: then it is executed as one of
the `Misreadings` of its payload, with another signer, or as another type that the payload has
the fields of.

| code | model |
|---|---|
| source's log | `source_log`, `SourceAccepts` |
| `createEventBatch`, `createTransportEnvelope` | `BatchOf`, `SendHistory`; `batches` is everything ever sent, and any of it may arrive, again and again, or never |
| a peer with a history of its own | `SendForeignHistory` |
| loss or change of an event, or of its envelope, on the way | `DamageBatch` |
| `verifyTransportEnvelope` | `VerifiedEnvelope` |
| `receiveEventBatch`: one command per event | `ReceiveBatch`, `ExecuteEvent` |
| its answer from the store (`cachedBatchReplay`) | `RepeatAnswer`; `RefuseBatch` when there is none |
| `executeCommand` with its store | `Execute`, `Outcome`, `executions` |
| `buildCommand`, `handleApiRequest`: an event, an event a device signed, the recognition of a remote realm | `Command`, `SubmitCommand` |
| `submitDeviceEvent`, `recognizeRemoteRealm` and what they verify before the event is proposed | `DeviceSigned`, `RealmRecognized`, `Admitted` |
| process exit | `Restart`: log and projection return, the execution store (a `Map`) does not |

`answers` is a history variable: the last answer to each request since the restart that called
an event accepted (refusals promise nothing about the log and are in `executions`). `evidence` says whether the signature of a
device submission, or the trust material of a remote realm, verifies: it is an input.
EXECUTE_RECOVERY_CEREMONY, the fourth command, is in `RealmPipeline`.
An empty batch never verifies in the code and is not accepted in the model.

Properties. `NoParallelWritePath` is the refinement of `RealmPipeline`: under
`mode <- "live"`, no ceremony and no crash, every step of the receiver is a proposal the
pipeline would accept, or a stutter. `TracksSource` is the refinement of
`PrefixReplication`, an abstract module of two histories, together with `PartsByAMisreading`:
with no foreign and no local writer what the receiver shares with the source is a prefix of the
source's history and only grows, and the receiver's log has at most one event more, which is the
source's event at that place with a damaged envelope. Nothing follows such an event: the hash it
got is not the one the source goes on from.
`HashContinuity` says where a half-applied batch stands (the hashes are those of the batch, but
for the event applied last), `AnswersAreTrue` what an answer promises about the log, also when it
is repeated from the store, `RetriesAreAnsweredAlike` that it is repeated, `RefusalsStand` that a
refusal recorded for good is still right of what the envelope said, and `ReplicaCanCatchUp` that
only a copy with a damaged envelope ever stands in the way of the source's next event, under the
delivery id it came with.
`OkMeansHeadReached` is a documented promise the code does not keep (section 8).

## 4. The ledger store

`RealmLedgerStore` has the files, the node's memory, and the *pending writes* of the
handler that runs: `applyEvent` changes the memory in one step and queues its file writes
in the order of the code (line of the log or constitution, snapshot, `ledger_db.json`); `Write` does one;
`Crash` may come before, between, or in the middle of one, which leaves `Torn`: a JSON
file that cannot be parsed or half a line of the log.

| code | model |
|---|---|
| `ledger_db.json`, `realm_event_log.jsonl`, `realm_snapshot.json` | `ledger_db`, `log_file`, `snapshot` |
| `readJsonFile` swallowing a parse error; `readEventLogLines` throwing | `Readable`; `Torn \notin Range(...)` in `Boots` |
| `loadBootstrap` of both backends, migration of the legacy file | `Bootstrap`, `migrated` |
| `start`: genesis, backfill, replay, root comparison, administrator | `History`, `Replay`, `Boots`, `WithAdmin`, `Boot` |
| `applyEvent`, live | `ApplyRequest`, `Save` |
| writers without an event: capsule owners, enactment, governance and federation | `Remember`, `Amend`, `SaveOnly` |
| `constitution.json`, and what the governance engine read of it | `constitution`, `ledger.law` |
| `realm-admit-orphan-accounts` | `AdmitOrphans` |
| a standby | `StandbyCopiesLog`, `StandbyBoots`, `StandbyRequest`, `StandbyStops` |

A state root is represented by what it covers: balances, the constitution and the epoch
(nonces stay 0). Of `applyEvent` the cases are modelled that create an account or need one;
the others change nothing the root covers. `Amend` has both routes: the vote that decides
saves the ledger under the old root, the route that collects votes saves again under the new
one. A boot reads the constitution there is and starts from epoch 0. A standby has a
constitution of its own, which nobody amends. The repair admits an account once, only if a
boot would not backfill it, and only under an unchanged root; a ledger a node starts with was
saved under the root that its log gives (`FirstBootAssumption`).

Two history variables. `answered` has the events whose request was answered: those the
node owes. `mishaps` has what went wrong since the last good boot: `"untold root"` (a root
was saved that no replay of the log gives), `"amendment"`, `"interrupted save"`, `"interrupted
migration"` and `"torn ledger"`. A boot that migrates leaves the set as it is, because its
own writes are still to come. `AnsweredEventsSurvive` excepts the last two, because they
are accidents the code really has: a migration cut short is taken for the whole log by the
next boot, and with the file backend a ledger cut short reads as an empty one, which boots.
`RefusalsAreExplained` is the converse of a refusal: with the file backend only an untold
root or an amendment stops a boot, or a constitution that was cut short; with the replicated
one also an interrupted write.
`LiveStateIsReplay` and `StandbyBootsAPastState` compare memory with a replay of the log,
the latter while primary and standby interleave.

## 5. Governance

`RealmGovernance` is `ConstitutionalGovernanceEngine`. Its handlers do not `await` (that of
`collectLocalVotes` is `async` and never does), so each is one step, with the verdict and the
enactment that follow a vote; only a crash can come in between, and the one place where that
shows is after the constitution was written.

| code | model |
|---|---|
| `constitution.json`: policies, `amendment_log` | `constitution` |
| `ledger.governance` without its proposals | `governance` |
| `dsl.constitution` | `dsl` |
| `ledger.governance.proposals` | `proposals` |
| `propose`, `vote`, `collectLocalVotes`, `veto` | `Propose`, `Vote`, `CollectLocalVotes`, `Veto` |
| `_checkRatification`; `_enact` | `Verdict`; `Conclude`, `Enact` |
| `_applyChange`, and when it throws | `Amended`, `Applicable` |
| process exit, also after `writeFileSync` in `_enact`; constructor | `Crash`, `CrashInEnactment`; `Boot` |

A rule is its id and whether an amendment changed it; `PARAMETER_CHANGE` does what
`AMEND_RULE` does. The root is represented by the constitution it hashes. `proposed` and
`ratified` are history variables: the change of every proposal ever made, and who accepted
each amendment of the file. What a boot says of a saved root is in `RealmLedgerStore`.

`AmendmentsHadAQuorum` relates file and votes across crashes: the policies are the replay of
the amendment log, no proposal is in it twice, each had two thirds. `LawIsOne` says that file,
root, current epoch, its snapshot and the interpreter's copy agree, and that epochs have no
gap. `VotesDecide` relates counters, ballots and states, and the rounding of the quorum:
nothing stays open that cannot go both ways, and a proposal is ENACTED exactly when the file
has it, whereas one whose change did not apply stays RATIFIED. `VerdictsStand` is what no
later vote, veto or proposal may undo.

## 6. The services

Beside the realm core the node runs services that keep records of their own. Each has a
module; `Keyed` holds the one helper they share, the writing of a keyed record.
`NodeServices` composes them: they share the process and the clock `now`, and since none
reads what belongs to another, a behaviour of the composition is one of a single service, which
`family` names. (Letting all of them step in one behaviour would multiply their states and
reach no new one of any.) `MCNodeServices` gives its constants small values.

| module | code | model |
|---|---|---|
| `SettlementIntents` | `createDepositIntent`, `createWithdrawalIntent`, `observe`, `fulfill`, `reject`, `expireStale` | `CreateIntent`, `Observe`, `Fulfill`, `Reject`, `ExpireStale` |
| | `SettlementEventBus.emit`, its ring, `_shouldBroadcast`, POST settlement-event | `Emit`, `Ring`, `Broadcast`, `ReceiveSettlementEvent` |
| `SettlementPolicy` | `ConstitutionalPolicyEngine.evaluate`, the interpreter's `evaluate`, `_audit` | `Evaluate`, `DslDenial`, `CodeRulesPass`, `OverTheDailyLimit`, `Audited` |
| `SettlementFederation` | `collectAttestations`, `ReceiptEngine.issue`, `verifyReceiptEpoch`, `verifyReceiptSubnet`, the registry of subnets | `QuorumMet`, `IssueReceipt`, `ValidInItsEpoch`, `ValidInSubnet`, `RegisterSubnet`, `UpdateSubnetConstitution`, `SetSubnetStatus` |
| `AuthorityRuntime` | CONTROL_GRANT_CREATED and _REVOKED, `decideCapability`, AUTHORIZATION_CREATED, `verifyAuthorization`, EXTERNAL_PROOF_RECORDED, `verifyExternalProof`, MARKETPLACE_SETTLEMENT_RECORDED, `explainSettlement` | `CreateControlGrant`, `RevokeControlGrant`, `Allowing`, `CreateAuthorization`, `VerifyAuthorization`, `RecordExternalProof`, `VerifyExternalProof`, `ExecuteMarketplaceSettlement`, `Explained` |
| `IntentApprovals` | `findCredentialBinding`, `createIntentApproval`, `verifyIntentApproval`, `consumeIntentApproval`, `revokeIntentApproval` | `Bound`, `CreateIntentApproval`, `ApprovalHolds`, `ConsumeIntentApproval`, `RevokeIntentApproval` |
| `ConnectRegistration` | `cleanupSl1eArtifacts`, registration/options, /complete on both sides of its `await`, /release, device-handoff | `Cleanup`, `RegistrationOptions`, `BeginCompletion`, `CompletionRefused`, `CompletionFails`, `CompletionSucceeds`, `ReleaseRegistration`, `CreateHandoff`, `CompleteHandoff` |
| | `findCredentialOwner`, enrollment, revocation, the registration and the approval of a paired device | `Unowned`, `EnrollPasskey`, `RevokePasskey`, `ProposePairing`, `ApprovePairing` |
| `ConnectProofs` | authentication/options and /complete, enrollment, revocation, `issueSl1eProof`, authorization-code/exchange, proofs/introspect | `AuthenticationOptions`, `BeginAuthentication`, `FinishAuthentication`, `EnrollmentOptions`, `FinishEnrollment`, `RevokePasskey`, `IssueProof`, `Exchange`, `Introspect`; `Gossip` for what peers tell |
| `IdentityEvents` | the cases of `applyEvent` for keys, `broadcast`, POST network/broadcast, replay in `start`, `rememberVerifiedCapsuleOwner` | `After`, `Throws`, `Make`, `Receive`, `Reboot`, `RestoreFromCapsule`, an action per route |
| `NetworkJoin` | the routes under join-requests, `allocateNamespaceDns` on both sides of its `await`, the provider | `SubmitJoinRequest`, `RepeatJoinRequest`, `ProviderSetsRecord`, `AllocationReturns`, `AllocationFails`, `RecordArtifact` |
| `MarketplaceSellers` | MARKETPLACE_SELLER_ and _LISTING_UPSERTED, `refreshSellerActivation`, `activateSeller` | `UpsertSeller`, `UpsertListing`, `Refreshed`, `ActivateSeller` |
| `RealmBackups` | `createRealmSnapshot`, `verifyRealmSnapshot`, `rebuildFromSnapshot`, `createBackupArtifact`, `verifyBackupArtifact`, `restoreRealmFromBackup`, `verifyCommandExecutionBoundary` | `Snapshot`, `SnapshotHolds`, `Rebuilt`, `TakeBackup`, `BackupHolds`, `Restore`, `RecordsHold`; `Hashed` for what a hash covers |
| `SubjectClaims` | `deriveActiveClaimProjection`, `emailDisclosureFromClaimHistory` | `Derive`, `Projection`, `Disclosed` |

Abstractions. An id that is a hash is what was hashed: an intent's id is its kind, wish and
nonce (the hour of a deposit, nothing of a withdrawal, so a withdrawal has one id for ever).
Signatures and assertions verify or do not. A handler that awaits is two actions: what it read
before is kept in a record (`completing`, `verifying`, `waiting`) and used after, whatever
happened meanwhile. An authority has one entity, capability and scope, so that grants differ in
key, policy and end; an authorization has an end of the caller's choice, and a settlement names
authorization and proof or brings them along. A policy request keeps what the rules look at: an
amount is stated in up to three fields, of which every rule reads its own choice, and may be
missing, negative or no number. A backup's event sets one fact of a subject and says so twice, in
the fields that its hash covers and in the envelope that the replay applies; a chained hash is the
sequence of the hashed fields. `Rot` is any one change that storage may do to an artifact: its
tail, its head, an event in its fields or its envelope, the snapshot's projection.
A claim is about a subject and a type together.

Properties.

- `VerdictsAreFinal`: what peers were told of an intent is its state, whoever comes late.
  `OverdueIntentsClose`: an open intent whose time is up is closed in the end.
- `DailyLimitKept`: what an account was let withdraw of an asset in a day, read from the log
  alone, is within the limit, with evaluations of other accounts, assets and kinds, of negative
  amounts and of no amounts in between. It holds while the log still tells all of the day, and
  not for amounts that are only expected, which the rule does not compare; `charged`, which the
  code's entries do not have, leaves those out.
- `ReceiptsStand`: a receipt is as issued after any amendment or new request for it, and
  verifies in its epoch; under the primary subnet only while no amendment was enacted.
- `SettlementsAreExplained`: a settlement that named an authorization on record has a lineage
  `explainSettlement` accepts, of grants the node has, whatever was revoked, denied, replaced or
  issued again in between; it follows from no guard of the settlement itself.
- `RegistrationsAreUnique`: two accounts have a passkey in common that neither revoked only by the
  approval of a paired device, and of the accounts of one alias at most one was registered while
  the alias was reserved for it.
- `ProofsAreWorthOneUse`: two answers that a proof is active at most, one exchange and one
  introspection, none after its end, and no introspection for a passkey that is revoked by then.
- `ApprovalsExecuteOnce`: in one life of the process, whatever is revoked, expires or is sent again.
- `LogsReplay`: a node boots from what it logged to the keys it had, whatever order events came
  in, unless it restored an account from a capsule since it booted.
- `NamespacesAreUnique`: the store may lose requests, but holds no name or id twice.
- `OnlyReadySellersLaunch`: the cached activation is not what decides.
- `RestoresAreTrue`, `SnapshotsRebuildTheReplay`: what an artifact that verifies is worth. For the
  hashed fields it is worth the history that was backed up; for the envelopes only a snapshot in
  the artifact vouches, up to where it was made.
- `DisclosedClaimsStand` compares the projection with a definition by quantifiers over the
  stream: a claim stands if its event was the first of its id and no later first event ends it.

## 7. Runs

| run | properties | shows |
|---|---|---|
| `realm_recovery` | projection, history, signers, devices, names, ceremony | devices, recovery authorities and ceremonies with one crash anywhere |
| `realm_grants` | active authorities, grants, roles | rotation, sessions and federation trusts with one crash |
| `replication_transport` | `TracksSource`, `ReplicaCanCatchUp` | one source, any transport, one restart |
| `replication_peers` | `NoParallelWritePath`, continuity, answers, refusals, retries | a foreign realm and clients that retry three kinds of commands beside the source |
| `ledger_recovery` | survival, replay, refusals, standby | both backends from an empty, a repaired and a pre-log ledger, three boots |
| `governance_amendments` | quorum, one law, votes, verdicts | three validators, two proposals out of five changes that need, enable and undo each other, one crash |
| `node_services` | types of the services, and one or two properties of each | the twelve services of section 6, with overlapping requests, retries, expiries and restarts |
| `realm_ceremony_atomicity`, `replication_head`, `ledger_repair`, `ledger_standby`, `ledger_fallback` | one each | violations; section 8 |

Every property of a passing run has a mutant in `PROJECT.json`: a variant of one mapped
definition, kept in the module under a comment `Slip:`, that breaks the property when it
takes the definition's place.

**Bounds.** *Recovery* (6 events, 1 crash, two ids and two references of devices, one of them
shared, one guardian, two case references): the shortest history with a completed ceremony has six
events (root, device, guardian, three of the ceremony); a second id and reference suffice
for every clash of names, a reference that is another device's id among them; two case
references tell a stale one from the current one.
*Grants* (5 events, 1 crash, two roots, one of everything else): create, rotate, grant,
end and grant again fit. *Replication* (transport: 3 events, 3 batches; peers: 3 events, 2
batches; one restart): a batch of two can be half applied, three batches hold a history, a
damaged copy and a part of it; a root, a device and what the device or root then submits are
three events. *Ledger*
(3 events, or 4 where a violation needs them, epoch 1, 3 boots): a boot to create the ledger,
a crash, a boot that takes the damage in, a crash, a boot that shows it. *Amendments* (two
proposals, three validators as in `server.js`, one crash): two suffice for one to overtake the
other, to spoil or to enable it, and for one before and one after a crash.

*Services.* Clocks run to 1 or 2 with a time to live of 1, so that a record lives, expires and
is followed by another. A ring of one event and an audit log of three (5000 in the code) overflow
at once: two of an account and one of another asset, or one that is no number. Four statements of
an amount, each read differently by two rules; a limit, a treasury threshold and a ceiling of 1 or
2. Two grants (one allows, one denies, or one is issued again), one authorization and one
idempotency key (both are used again; authorizations brought along are all there can be), two passkeys, two
accounts and one paired device, two overlapping completions of two browsers for one alias, one
proof (each is about itself), two nodes with three events
(register, add, revoke in every order), two join requests awaiting at once for one name and two
writes (one is lost), two sellers and two listings (one moves), one backup of two events (either
may be lost), three claim events with three ids about two subjects (issue, end, and reuse). The bounds
`MaxHours`, `MaxDays`, `MaxEpochs`, `MaxCompletions`, `MaxAccounts`, `MaxPairings`, `MaxTime`,
`MaxProofs`, `MaxEvents`, `MaxIdentityEvents`, `MaxHistory`, `MaxWaiting`, `MaxWrites`, `MaxBackups`, `MaxClaims` and, in the core, `MaxCrashes`,
`MaxBatches`, `MaxRestarts`, `MaxEpoch`, `MaxBoots` and `MaxProposals` are the only ones and
appear in guards; the code has none of them.

No run uses symmetry. The ledger cfgs do not check deadlock, for a refused node waits for an
operator, nor does that of governance, for a node without open proposals rests when the bound
on proposals is reached, nor that of the services, whose clocks, streams and stores end at
their bounds. The others do, and never deadlock.

**Fairness.** One liveness property is checked, `OverdueIntentsClose`: intents that are overdue do
not stay so. It is checked under weak fairness of `ExpireStale` alone, not of the clock: `server.js` calls `expireStale` from a `setInterval` of
five minutes for as long as the process runs, and it is one synchronous step that is enabled
until no overdue intent is left. No fairness is assumed of requests, of the network, of the
DNS provider or of an operator, so nothing else is promised to happen: the core gives no
promise of progress (a realm with no further proposal rests), and the transport may lose
everything. `ReplicaCanCatchUp` states what a retry would need as a state invariant instead.

## 8. Where code and documents disagree

Five runs find a state that a document or a comment of the repository rules out.

- `realm_ceremony_atomicity`: ADR-0070 says a failed recovery must not mutate the authority
  state, ADR-0076 that a failed command must not partially commit.
  `executeRecoveryCeremony` keeps the proposals accepted before the rejected one: with a
  device key missing, RECOVERY_EXECUTED stays. (`CeremonyKeepsADevice` shows what is still
  guaranteed then.)
- `replication_head`: ADR-0075 calls everything that does not continue the receiver's head a
  history gap. `receiveEventBatch` answers a batch that failed verification from the store
  if all its commands are recorded; a batch whose refused last event is missing the second
  time is answered ok, although its head is not in the log.
- `ledger_repair`: the repair script's comment says replay reproduces the account and the
  snapshot stays valid. The admission is appended at the *end*; if the owner added a passkey
  before, the replay throws at the passkey.
- `ledger_standby`: ADR-0063 says a standby rejects mutations. `applyEvent` changes the
  accounts before it asks `assertWritable`.
- `ledger_fallback`: ADR-0074 says a snapshot that fails its check is dropped for a full
  replay. After a crash between an event's line and the snapshot, the boot throws
  `LedgerSnapshotVerificationError` each time until somebody deletes the snapshot.

The following was noticed while the services were modelled. Each is in the model as the code
has it; none has a run of its own.

- A comment of `server.js` (8333) calls the policy evaluation a dry run "without mutating
  state"; it appends to the audit log, so a dry run uses up the day's limit. The log keeps 5000 entries: what
  it dropped no longer counts either.
- RFC 0028 (line 320) says revoked controllers must not authenticate for new authority.
  `findCredentialBinding` looks for an active binding, and failing that among the account's
  keys without their status: a revoked passkey can still approve an intent.
- Approvals and their replay keys are in memory: after a restart an assertion executes once more
  (`ApprovalsExecuteOnce` is about one life of the process).
- A completion checks its passkey again after the `await`, its alias not: an alias whose
  reservation was lost meanwhile is registered twice (`RegistrationsAreUnique` says exactly how
  far it stays unique). The cleanup of an expired challenge releases a reservation that its
  owner has renewed.
- `updateSubnetConstitution` is documented as called on an enactment and has no caller, nor has
  `setSubnetStatus`; a receipt issued after an amendment does not verify under the primary
  subnet. `observe` and `fulfill` of intents have no caller outside tests.
- `verifyAuthorization` looks at the status of the grants, not at their end or at a stricter
  grant made since, and accepts an authorization that the caller gives in place of an id, as
  `verifyExternalProof` accepts a proof. What settles on these need not rest on any grant:
  `explainSettlement` may then find its lineage incomplete. `expires_at` may be chosen by the
  caller, and text that is no date never ends.
- A completed recovery ceremony whose new device has the old device's id for its reference revokes
  both (`DEVICE_KEY_REVOKED` ends every match). A device whose id is an older device's reference
  is not found under it: while the older one stands, it acts under that name, and once that one is
  revoked neither can.
- The hash of a realm event covers the fields beside the envelope, the envelope is what is executed
  and replayed. A batch with a damaged envelope verifies, is executed as the envelope says, and is
  stored under a hash the source does not have: the receiver does not follow the source any
  further; if the misread event is refused, the event stays refused under that delivery id. A
  backup with a damaged envelope verifies and restores other authorities, unless it has a snapshot
  that reaches so far. No document claims otherwise of envelopes, so there is no run.
- The rule of the daily limit compares the intent's `amount`, unvalidated; the audit log records
  `amount` or, failing that, `expected_amount`. A withdrawal that states only the latter passes at
  any size below the other rules' bounds, is counted afterwards, a negative one makes room for
  others, and one that is no number is neither compared nor counted.
- `findCredentialOwner` goes by the passkeys that are not revoked: a passkey that its account
  revoked registers another. The approval of a paired device looks no passkey up, nor does the
  gossip of peers, so two accounts may get one by these.
- The exchange of a code answers `active: true` without a look at the passkey; only the
  introspection asks whether it was revoked. A PASSKEY_REVOKED from a peer is applied to the last
  passkey of an identity as well, which the route refuses.
- Proposals of a controller binding may name keys that are active, and are not broadcast, nor are
  their approvals.
- A join request is saved from a copy read before the DNS provider answered, so others' writes
  are lost; the provider's record is set before conflicts are looked for; a torn store file
  reads as an empty one.
- A backup without a head restores a truncated history, unless execution records are supplied.
- A claim that was revoked can still be superseded, which makes a new active claim; of two
  active claims the older is disclosed. A proof keeps the email it was issued with, so its
  introspection repeats one whose claim was revoked since, whereas ADR-0057 (line 162) says
  revoked claims are not disclosed.
- The window of a vote is written and never read. The fingerprint of an API command covers
  `evidence.request_id`, so a retry under a fresh request id is refused as another intent.

## 9. Proofs

Every property of a passing run is a theorem, for every value of the constants and every bound,
except the liveness property `OverdueIntentsClose`. The runs came first: an
inductive invariant was checked by TLC on the run's instance before it was proved.

| module of proofs | about |
|---|---|
| `Induction` | induction and recursion over sets of numbers; what a fold over a sequence computes |
| `RealmEventRegistryProofs` | what `apply` does to a projection; no theorem, lemmas only |
| `RealmPipelineProofs`, `RealmReplicationProofs`, `RealmLedgerStoreProofs`, `RealmGovernanceProofs` | the core |
| `RealmBackupsProofs`, `NodeServicesProofs` | the services, first alone and then in the node |

*Folds.* A replay of a log in the code is a loop, here a `FoldLeft`. The library defines it by
recursion over sets, and its induction theorems take an operator as a parameter, which the
provers cannot instantiate. `Induction` goes around that: `SmallestElement` and `InductionOnSet`
speak of *sets* of numbers, `FoldExists` solves the equation of a fold over the positions of a
sequence, with a step that is a function. Each proof then replaces a fold by the sequence of the
states it runs through (`ReplayStates`, `RunStates`, `PolicyStates`), which is determined by the
log, is extended by one state with one event, and ends in the fold's value. After that, what a
loop computes is carried along a behaviour like any other invariant.

**The pipeline**, from `NamesAssumption` and `BoundsAssumption` (the bounds are numbers):

| theorem | states |
|---|---|
| `TypeCorrect` | `[]TypeOK` |
| `ProjectionCorrect` | `[]ProjectionIsReplay` |
| `HistoryIsLegal` | `[]LegalHistory` |
| `DevicesFound` | `[]DevicesAreFound` |
| `CeremonyNeverStrands` | `[]CeremonyKeepsADevice` |
| `CeremonyReplaces` | `CompletedCeremonyReplacesDevice` |
| `RolesConfined` | `RolesAreConfined` |
| `SignersAuthorized` | `[]SignersWereAuthorized` |
| `ActiveAsIssued` | `[]ActiveAuthoritiesAreIssued` |
| `GrantsAsLogged` | `[]GrantsFollowTheLog` |
| `DeviceChangesBacked` | `[]DeviceChangesAreBacked` |

*The inductive invariant* `HistoryInv` joins the type invariant, the replay, the legality
of the log, that the held projection is the one its mode says, and that a ceremony runs only
on a live node. None of these is inductive alone: acceptance reads the projection, so the
log stays legal only if the projection is the replay; the boot reads the log, so the
projection is the replay only if the history is. `AcceptKeepsHistory` does the one step that
writes, and every proposal and ceremony step is an instance of it; the boot steps and the
crash are a lemma of their own.

*Ceremony.* `CeremonyInv` remembers which device is active at which step, by the old id first and
then by the record of the new one, and that the two have different ids. `RECOVERY_EXECUTED`
establishes it, because its contract wants the old device active and the new one not. Revoking the
old id then ends the new device exactly if that id is its reference.

*Names.* No two devices have an id or a reference in common, because a new record replaces those;
from the order of the events that issued them it follows that at most one older device goes by a
name the other way round (`DevicesFound`).

*Log and projection.* Five properties speak of the log only. `LogExplains` says that whoever
is active in the projection at a position was issued by the log up to it and has not been ended
since (`EntryExplains`, one permitted event at a time); from it follows that signers were
authorized. `LogReflects` is the converse: root, active devices, sessions, trusts and the last
recovery are what the last event about each says. The two together give `ActiveAsIssued`,
`GrantsAsLogged` and, read at the position before an event, `DeviceChangesBacked`.

**Replication**, from `NamesAssumption` and `ReplicationAssumption` (events and commands have
their shapes, the absent value is no id, the bounds are numbers):

| theorem | states |
|---|---|
| `TypeCorrect` | `[]TypeOK` |
| `ReplicationInvariant` | `[](ReplicationInv /\ SourceInv)` |
| `AppliedHashesMatch` | `[]HashContinuity` |
| `AnswersHold` | `[]AnswersAreTrue` |
| `RefusalsAreRight` | `[]RefusalsStand` |
| `RetriesAnsweredAlike` | `RetriesAreAnsweredAlike` |
| `CatchingUpStaysPossible` | `[]ReplicaCanCatchUp` |
| `OnlyThePipelineWrites` | `NoParallelWritePath`, the refinement of `RealmPipeline` |
| `ReplicaTracksSource` | `TracksSource`, the refinement of `PrefixReplication`, where `PeerEvents` and `LocalCommands` are empty |

`ReplicationInv` joins five parts. `ReceiverInv`: the projection is the replay of the log.
`TransportInv`: what was sent, and that every envelope on the transport is a reading of its payload
(`Carried`). `ReceivingInv`: a batch in execution is chained, its events done
are recorded as accepted and stand at the end of the log. `ExecutionsInv`: what the store's records
say of the log; an accepted event is in it as it was executed, and of an event refused where its history ends the log
has grown since, or would refuse it again. `AnswersInv`: an answer ok rests on records, and what it
names is in the log. A step that appends (`LogGrows`) keeps them all by one
argument: each speaks of a prefix. `SourceInv` says that the source permits its next event, and
with it `CatchingUpStaysPossible` follows: a refusal of that event in the store, with the envelope the source
gave it, would be wrong.
Both refinements map step by step: every step of the receiver is a step of the abstract module or
leaves its variables alone; for `TracksSource` the invariants are that every hash on the transport,
of damaged events too, is a beginning of the source's history (`HashesAreHistory`), and
`PartsByAMisreading`: an event is accepted where its `previous` is the log, so after a misread one
none is. The
hypothesis of `ReplicaTracksSource` is the situation of the run `replication_transport`; with
another writer the histories may fork, and then they do not agree.

**The ledger store**, from `StoreAssumption`, `NamesAssumption` (finitely many accounts; the
administrator's address, a hash of a label, is not that of a registrant's key),
`LedgersAssumption` (a ledger file has the shape of one, no event twice, and is not the absent or
the torn value) and `FirstBootAssumption` (it was saved under the root its log gives, as every
ledger that `applyEvent` saves):

| theorem | states |
|---|---|
| `TypeCorrect` | `[]TypeOK` |
| `LiveStateReplays` | `[]LiveStateIsReplay` |
| `AnswersSurvive` | `[]AnsweredEventsSurvive` |
| `RefusalsHaveCauses` | `[]RefusalsAreExplained` |
| `StandbyBootsThePast` | `StandbyBootsAPastState` |

`TypeInv` and `PendingInv` (what may be in the queue of writes, and in which order) carry the
other two. `KeepInv` says, unless a migration was cut short or a ledger torn, that each answered
event is in the file that the next boot reads (`DiskKeeps`) and in memory (`MemoryKeeps`), in order
and once, and that an event is answered only when it is in both.

`CauseInv` is about roots. A boot refuses if the saved root is not the replayed one, so it must say of
every set of files that may be left which root they carry. Its parts:
`LiveFacts` (memory has what its log tells and beyond that only accounts without a credential,
and so has what is pending), `QuietFacts` (while no root was untold and no law amended, the root is
the root of the replay, in memory and in each pending write), `DiskBoots` for the file backend
(`ledger_db.json` as it is on disk boots, torn or not), `DownFacts` and `RestFacts` for the
replicated one (log, snapshot and ledger of a node that stopped without a mishap agree), and
`CopiesFacts`: a snapshot is right about *some* beginning of the log (`Past`). The last makes
the theorem about the standby: if the snapshot it copies is older than its log, the boot replays
the log; if it is newer, the boot succeeds only when the roots agree, and then the backfill has
brought back the accounts of the later beginning (`BackfilledPast`). The converse parts,
`Beyond` and `RootCovers`, are needed because a root forgets: it covers balances only.

**Governance**, for every number of validators and every set of changes, from
`GovernanceAssumption`:

| theorem | states |
|---|---|
| `TheLawIsOne` | `[]LawIsOne` |
| `TheVotesDecide` | `[]VotesDecide` |
| `TheVerdictsStand` | `VerdictsStand` |
| `AmendmentsBacked` | `[]AmendmentsHadAQuorum` |

`LawInv` adds to `LawIsOne` that the epoch is a number and the epochs a sequence, which is what
an append needs; enactment and boot each re-establish it, a crash makes it void until the boot.
`VoteInv` says that each counter is the cardinality of its ballots and that the file names only
proposals that were made. `VotedIsCounted` does any set of new, equal votes at once, so one lemma
serves a single vote and the route that collects them. That the quorum decides for *every*
number of validators is arithmetic about `Required`. `QuorumInv` is about the file alone: its
policies are the last of the `PolicyStates` of its log, and each entry has its voters; an
enactment that is interrupted after the file was written has extended both.

**The services.** Each theorem of a service is carried over to the node by `StepOfServices`,
which says what a step of the node is for each service: a step of its own or none but, at most, a
tick (`ClockTicks`). All rest on `ServicesAssumption`, the conjunction of the services' own
(bounds are numbers, a time to live is not 0, and of the claims that the word for "no claim" is not
an id).

| service | theorem in the node | invariant | why it is needed |
|---|---|---|---|
| intents | `ServicesVerdicts` (`VerdictsStand`) | `IntentsInv` | adds that only verdicts are sent and what states an intent may have: the step that sends a verdict closes the intent, and no action reopens it |
| policy | `ServicesKeepDailyLimit` | `PolicyInv` | while the log tells all of today, the charges of any account and asset are within the limit; entries stand in the order of days, so a log that drops an older day's entry loses nothing of today; and the amounts that the rule adds up are never below the charges (an amount that was only expected counts more than it is charged), so an evaluation that passes keeps the charges within the limit as well |
| federation | `ServicesReceiptsStand` | `ReceiptsKept` | a receipt names an epoch there was, and the subnet's history is the law of the boot |
| authority | `ServicesSettleOnGrants` | `AuthorizedByGrants` | grants are replaced and revoked but never forgotten; an authorization rests on grants that there are, and on some when it is authorized; so a settlement that names it does |
| approvals | `ServicesApproveOnce` (`ApprovedOnce`) | `ApprovalInv` | the property with the type of the counter: a consumed key stays among the approvals and is not pending, so it cannot be made again |
| registration | `ServicesRegisterOnce` (`RegistrationsUnique`) | `RegistrationInv` | adds that an alias registered while it was reserved has no reservation any more: nobody can hold it a second time; and that a passkey reaches a second account by an approved pairing only, for registration and enrollment look for its owner |
| proofs | `ServicesProofsOnce` | `UnusedProofs` | a code in store is for a proof that was not exchanged yet, a token for one that was not introspected, neither outlives its proof, and what leaves the store never returns |
| sellers | `ServicesLaunchReady` | `SellersTyped`, `LaunchesReady` | the activation written is the checklist's answer at that moment |
| identity events | `ServicesReplay` | `EventsInv` | what a log gives is the identity of a node that restored nothing, ids are unique, and an event that fits a node's log need not fit another's |
| join | `ServicesAllocateOnce` (`NamesAllocatedOnce`) | `JoinInv` | not only the store but every copy that waits to be written back must be consistent |
| backups | `ServicesRestoreTruly` (`RestoresTrue`), `ServicesRebuildReplay` (`SnapshotsRebuild`) | `BackupInv` | an artifact keeps its relation to the history it was made of through every rot, which changes no hash; a chain that holds has hashed fields that are a prefix of its, and a snapshot that holds is the projection at a beginning of it (`RunsJoin` replays the rest) |
| claims | `ServicesDiscloseTruly` | the stream's type | for any stream: the claim that the projection's loop picks is the one that the quantifiers define |
| all | `ServicesTypesCorrect` | one per service, such as `StreamTyped`, `FederationTyped`, `BackupsTyped` | the `TypeOK`s, as `ServicesTypeOK` joins them, do not say that a collection is a function, nor what type the parts have that a later step makes records of (requests in flight, a subnet's history, the logs of backups, proofs issued) |

**Only model-checked.** `OverdueIntentsClose`: liveness under fairness, and `ENABLED` with it, are
out of the prover's reach. Out of reach in general: what `SelectSeq` or a
`RECURSIVE` operator computes (the one in `RealmGovernance` removes a rule, and no proof needs to know
how), and induction with an operator for the hypothesis. The five violations are
counterexamples and remain TLC's.

## 10. Not modelled

- *Realm lifecycle, deployment, release, administration, observability.* Gates and reports:
  each is a function of its arguments, which nothing in `server.js` calls, and none keeps a
  state between two calls.
- *Identity mesh, subject authority, reconciliation.* Merges and classifications of observations
  given as arguments, called by tests or as a shadow that decides nothing. The mesh mailbox (a
  ring of 100 messages per entity in a file) stores what it is sent, also what failed its
  verification, and is read as it is.
- *EVM adapter, `evm-canonicalizer.js`, `settlement/state-machine.js`, `settlement/proof.js`.* `verifyDeposit`
  and `createWithdrawal` have no caller, the routes pass on what `observe` returns; the state
  machine is only printed; the others normalize or check one document.
- *Pages.* Most of `server.js` between lines 2841 and 5497 is HTML, styles and browser script in
  template strings; its translations are two dictionaries. Routes disabled with 410, and
  `TRANSFER`, which throws, do nothing.
- *HTTP, peer discovery, `relay.js`, notifications, clients and sites:* transport and presentation.
- *Addresses, canonical JSON, hashes, signatures, wire format, the execution kernel:* pure
  functions over bytes, compared across implementations by test vectors. A hash is modelled by
  what it covers, a valid signature by its signer.
- *Rust and PHP implementations:* other programs; Laravel and WordPress plugins use them.
- *Tests, conformance runners, validation scripts, benchmarks:* they read the system and are
  not part of it. With the pages they are most of the lines that no module maps.
- *In modelled parts:* signatures of votes, which are made and never checked, and the voting
  window (governance); the promotion of a standby and the repair of a broken log file by hand
  (ledger store); the option `skipSequenceCheck`, which no caller sets (pipeline); the rate
  windows, pairing status records, install reports and pushed authorize requests, redirects and
  client registry (Connect); the signature counters of passkeys; event types of `applyEvent`
  that concern no key, authority or seller (gossip); the issuance policy of claims, which
  nothing calls; version fields, federated heads and the comparison report (backups).

## 11. Where to go on

1. The refinement `TracksSource` also while clients write: what the receiver's history and the
   source's have in common only grows.
2. Which repaired ledgers do boot: `RepairedLedgerBoots` fails for an account with a later
   event of its own, and holds for the others.
3. The rate windows of Connect, and the end and status of its device pairings, with the clock
   there is.
4. A common module for the keys of an account, in place of the copies in `IntentApprovals`,
   `ConnectProofs` and `IdentityEvents`, and runs in which they interleave.

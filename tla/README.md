# Verification of APXV

APXV is a platform for governed agents on one isolated machine: a Python server
takes pipeline runs over a local HTTP API, queues them, executes their steps under
governance specifications that change only through signed approvals, pauses at
gates for an operator, and keeps artifacts, audit logs, backups and keys on local
disk. This directory holds TLA+ models of its core, TLC configurations that check
them on small instances, and proofs that TLAPS checks for every value of the
constants. Paths below are relative to `src/`.

| What | Modules | Checked by | Proved in |
|------|---------|------------|-----------|
| Job queue, worker and approvals | `JobQueue`, `JobService`, abstract `JobLifecycle` | `MCJobService*.cfg` | `JobServiceProofs` |
| Governance of specifications | `Governance` | `MCGovernance*.cfg` | `GovernanceProofs` |
| One run of a pipeline document | `PipelineRunner` | `MCPipelineRunner*.cfg` | `PipelineRunnerProofs` |
| Audit log, artifact store, backups | `AuditLog`, `ArtifactStore`, `BackupRestore`, composed in `Records` | `MCRecords.cfg` | `RecordsProofs` |
| Keys, manifests, setup, doctor | `ZkKeys`, `Signing`, composed in `Install` | `MCInstall.cfg` | `InstallProofs` |
| Studio, packs, policy, API keys, pipeline library | `Servers`, `CapabilityPolicy`, `PackInstall`, `Studio`, `ApiKeys`, `PipelineStore`, composed in `Operator` | `MCOperator.cfg` | `OperatorProofs` |
| The list comprehensions of the code | `Lists`, used by the modules above | | `ListsProofs`, which also has folds |
| A document's redaction, attestation, proofs and encryption | `Redaction`, `MerkleTree`, `Attestation`, `ProofProfile`, composed in `Evidence` | `MCEvidence*.cfg` | `EvidenceProofs` |

To check a model: `tlc -workers 2 -config MCGovernance.cfg MCGovernance.tla`. To check
proofs: `tlapm GovernanceProofs.tla`. `PROJECT.json` lists the components, the runs,
for each property a mutant of the model that violates it, the source lines each
definition models, the findings and the hazards.

## 1. Inventory

### The parts, their state and how they interact

- **Job queue** (`agents/job_queue.py`). State: the SQLite table `jobs` (status,
  payload, result, retry count, creation time). Operations: `enqueue`, `claim_next`
  (SELECT, then a guarded UPDATE), `complete`, `pause_awaiting_approval`,
  `resume_from_approval` (SELECT, then a guarded UPDATE whose row count is ignored),
  `fail`. Every connection is per thread and every statement its own transaction.
- **Job worker and approval requests** (`agents/local_api.py`,
  `agents/api_v2/router.py`). State: the worker thread's current job, the locals of
  each request thread. The worker claims, executes and records; a request enqueues a
  run, or decides a paused job by handing it back to the worker (asynchronous) or by
  executing it itself (synchronous). They share nothing but the table.
  Hard: interleavings of the two-statement operations, late results, retries,
  crashes, exceptions in the wrong place.
- **Pipeline execution service** (`agents/pipeline_service.py`). Stateless; turns a
  payload into a call of the runner, a resume of it, or a pack run.
- **Pipeline runner** (`agents/pipeline_runner.py`, `agents/pipeline_spec.py`).
  State of a call: the queue of step ids, the visited set, the previous status, the
  trace; across a pause: the saved `resume_state`. Hard: cyclic documents, steps with
  several ways in, gates, failure routing, what a resume remembers and forgets.
- **Governance approval** (`agents/governance_approval.py`). State: the managed spec
  files, the tables of proposals and of approved baselines, signatures. Operations:
  bootstrap, propose, approve, reject, apply, verify. Hard: each operation is several
  file and table writes with no transaction around them.
- **Pack governance profile** (`agents/pipeline_profile.py`). Swaps a pack's specs
  into the managed files for one step, re-baselines, and restores both afterwards.
  It shares the files and the baseline table with the approvals, without a lock.
- **Gated reads of the specifications** (`agents/artifact_provider.py`,
  `agents/agent1.py`). Each read verifies every spec file against its baseline first.
- **Audit logger** (`agents/audit_logger.py`). A hash-chained JSON-lines file; append
  under a lock that is per process; verification, and a repair that truncates the
  file and writes the entries again. Hard: other processes, lines without an end, a
  death in the middle of a repair.
- **Artifact store** (`agents/store.py`, `agents/artifact_provider.py`). Blob files, a
  SQLite index whose rows form a hash chain, copies in `managed/artifacts`, and the
  import of copies without a row when a process starts. Hard: the last hash is read in
  one transaction and the row inserted in another, blob before row before copy.
- **Backup and restore** (`agents/backup_restore.py`, `scripts/fresh_reset.py`).
  Archives live files, hashing them first and copying them later; restores by
  overwriting them one by one; a reset removes them. Hard: writes during either, a
  death in the middle.
- **Runtime** (`agents/runtime.py`) wires these together; at start it bootstraps
  missing baselines, imports artifacts and logs that it started.
- **Setup and repair** (`scripts/bootstrap/*`, `setup_zk.py`, `zk_manifest.py`,
  `setup_first_run.py`, `apxv_doctor.py`, `ceremony_transcript.py`). State: a proving
  and a verifying key per circuit, a manifest per suite of circuits, the signing pair,
  `install.json`, the transcript. Operations: key setup with reuse or force, first
  run, bootstrap, repair of integrations, doctor. Hard: each is a sequence of files
  that a fault cuts anywhere, and a server that attests runs the same setup.
- **Capability policy** (`agents/capability_policy.py`, `capability_checker.py`). A
  signed document with a version chain, and the grants each process has in memory.
- **Packs** (`agents/pack_install.py`). An activation puts the pack's specifications
  in force one by one, grants its agents, and records which pack is active.
- **Proof Studio** (`agents/studio_service.py`, `agents/proof_studio.py`). A catalog
  file that every request reads, changes and writes back, and a manifest per item;
  items are saved, tested and promoted. Also the evaluation of proof profiles.
- **API keys** (`agents/auth.py`). A file and a list in memory that every request
  reloads. **Pipeline library** (`agents/pipeline_store.py`). One file per document,
  in one of several formats. **Upload sessions** (`agents/upload_manager.py`). JSON
  files changed by read, modify, write.
- **Agents and redaction** (`agents/agent1.py` to `agent3.py`, `agents/redaction/*`).
  A document is redacted by passes of patterns, supplements and names, orchestrated
  and attested, each agent recording hashes of what it read and made. Hard: positions
  computed before the text changes, specifications replaced between two agents.
- **Zero-knowledge bridge** (`agents/zk/*`, `scripts/verify_attestation.py`). Inputs
  derived from an attested result, Merkle witnesses, proofs, and the later
  verification of a stored result. **Encryption** (`agents/encryption_engine.py`):
  a key file made at the first use.
- **Governance registry, swarm, language-model helpers, user interface, website.**
  Written and read by no other part, calls of external back ends, clients, packaging.

A run goes through them like this: a request inserts a row, the worker claims it,
the service calls the runner, the runner executes steps (some inside a pack
profile, whose agents read gated specifications), pauses or ends, attests and proves
if asked, stores the artifact and logs, and the worker records the result; an
operator's decision puts a paused row back in the queue with the saved state as its
payload. Setup makes the keys that the proofs need; the studio and the policy decide
which agents and profiles exist and what they may do.

### What has to hold

Jobs: nothing runs past a gate that was not approved; ended jobs stay ended; two
workers never run one job; retries are bounded; a paused job can be decided; a
queued job is served. Governance: what is in force goes back to an approval; a
rejected change is not in force; a crash or a failed pack swap leaves a recoverable
state; agents act on approved specifications only. Runner: gates hold across
resumes; outcomes decide the route; nothing is forgotten and nothing is run twice;
every call ends; a bound proof profile is always judged. Records: the chains of log and
store verify, and nothing that was acknowledged is lost, through repairs, imports,
backups and restores. Installation: the two files of a key pair belong together, no
key is replaced by accident, a success is a healthy instance and a failure has a cause
the doctor names. Operators: an item is ready because it was tested, a promotion, a
grant, an active pack, a key, a document stands once it was answered. Evidence: what
is redacted is exactly what the rules name, what is claimed was earned, what is stored
verifies later. The 40 hazards of the code, each at its line, are under `hazards` in
`PROJECT.json` with the properties that would catch them.

## 2. The models

### JobQueue, JobService, JobLifecycle

`JobQueue` holds the row, and one operator per SQL statement that maps a table to the
next table. `JobService` adds the threads. `worker` and `handler` hold the local
variables of each thread with a program counter; an action is the code between two
accesses to the table. `claim_next` is `ClaimSelect` and then `ClaimUpdate` or
`ClaimLost`; `_jobs_approve` is `ApproveGet`, `ApproveSelect`, `ApproveUpdate` and, for a
synchronous request, `SyncExecute`, `SyncRecord`, `SyncFail`. `Fault` and
`HandlerFault` are statements that raise, `AnswerLost` is an answer that cannot be
sent after the result was stored, `Crash` keeps the table alone, and `Restart` starts
a new worker, which looks at no running row.

Abstractions: a payload is the gate it resumes from and the decision; an execution
raises, or ends, or pauses at the next gate (`Results`, `MayRaise`). `Workers` may be more
than one although a server process starts one, because the guarded UPDATE claims to
support it. Jobs are numbered by `created_at`; an insert may become visible late.

`JobLifecycle` is the abstract promise: the order of a job's statuses and the use of
its retries. `JobService` implements it (`ImplementsLifecycle`, with `status` and
`used` read from the rows) when all decisions are asynchronous. With synchronous
ones it does not: a late result overwrites any status.

### Governance

The files and the two tables are shared by `Operators` (requests), `Profiles` (steps
under a pack profile) and `Agents` (loads of the specs). `write_text` is two actions,
since it truncates first: between them the file holds `Torn`. Each SQL statement is
an action. The loops over spec types are unrolled by `todo` sets, one type an action.
`CopyFails` is a governance file that the pack lacks; `Crash` drops all locals and
runs the bootstrap of the next start.

Abstractions: a content is an opaque value, its hash is itself; a signature is the
fact that an approver's key signed the proposal, and the key pair exists.
`overlapped` remembers whether two operations were ever under way together (a step
at rest inside its profile is no overlap with the agents it runs), `cut` whether a crash
ended a profile; the properties about sequential use are conditional on them.

### PipelineRunner

One run: `Init` is the call of `run_pipeline_document`, each action takes the head of
`queue` as the loop does. `Skip` (disabled, or a condition that is not met),
`StepSucceeds`, `StepFails` (failure edges, or `on_failure: continue`), `StepStops`,
`PassGate`, `Pause`, `CycleDetected`, and `Finish` for all that follows the loop:
attestation, proof profile, status. `Approve` and `Reject` are
`resume_pipeline_approval`: the resumed call starts with the gate alone in its queue,
no visited steps, `auto_approve` false and the document's own profile.

Abstractions: a step is whether it is a gate, is enabled, its condition, jumps and
failure mode; whether it raises is left open; a name is a number. The order in which
an edge list names two targets is left open (`SetToSeqs`). The trace keeps each step's
own entries in order, not the order between steps. "not reached by graph" has the
status `unreached` here and `skipped` in the code, so that properties can tell the two
apart. An edge of kind `always` is followed after a success and a skip, not
after a failure: that is what `_successors` is called with.

### AuditLog, ArtifactStore, BackupRestore, Records

The four modules extend one another; `Records` adds processes that start, work, stop
and die. `ServerThreads` share a process and so the lock of the log; each of
`Commands` is a process of its own. In `AuditLog` the hash of an entry is the sequence
of the events up to it, so two hashes are equal exactly if the chains before them are;
an append is a read under the lock and a write; a death may leave nothing, a part or
all but the end of a line, and a line written behind one without an end is lost with
it. `repair_chain` truncates and writes the entries that parse one by one. In
`ArtifactStore` a write is the read of the newest row with the blob, the insert, and
the copy; the import of a starting process lists the copies once. In `BackupRestore` a
backup hashes in order of paths and copies later, a restore verifies, may back up the
live state first, and overwrites file groups one by one.

Abstractions: an artifact is its content and hash; a blob or copy never changes once
written, so the set of them is their content. History variables say under which
conditions the code promises something: `mixed` (processes met in the log or one died
in it), `crossed` (two writers read the same newest row), `partial` (the live files
are not one whole backup's), `calm` (nothing was written during a backup). `Init` is
a fresh deployment or one in use with a backup. What a list comprehension keeps, of
copies without a row here and of keys in `ApiKeys`, is `Lists!Sublist`: the elements at
some places of a sequence, in their order. It says what `SelectSeq` says, which is
defined recursively inside and which the provers cannot open.

### ZkKeys, Signing, Install

`ZkKeys` is `ensure_zk_setup` and its twin for the entity circuits, which differ in
names only: a loop over the circuits, each checked, made (`pk`, then `vk`) if a file is
missing or under force, and recorded in a manifest that is truncated and then written.
A key is the number of the setup that made it; the keys an old image ships are setup 1.
`Signing` creates the pair of keys in two files, and the policy signed with it.
`Install` runs commands as sequences of stages (`Plan`), each with the steps and the
ways to fail of its script, on a server that attests and repairs integrations and an
operator's command line. `Doctor`, `SovereignOk`, `Healthy` and `TranscriptValid` are
the checks of the code as predicates. Key files may be lost and provers may fail.

Abstractions: only one command of an operator runs at a time; a manifest's
read-modify-write is one read and two writes, as in the code, without file locks.

### Servers, CapabilityPolicy, PackInstall, Studio, ApiKeys, PipelineStore, Operator

`Servers` says which threads share a memory. `CapabilityPolicy` is a publication in
its steps (read version and hash, truncate, write, copy to the history) with the
grants each process holds in memory; `PackInstall` an activation, specification by
specification, then the delta of grants, then the record; `Studio` the requests on
items, which read `catalog.json`, change it in memory and write it back, and for agents
and profiles a manifest. `ApiKeys` distinguishes the file from the list in memory
that the threads of a server share and every request replaces. `PipelineStore` has one
file per document and format. `Operator` composes them: requests are authenticated
first (which reloads the keys), a command starts a process that loads the policy. Its
`area` lets a behaviour be about the studio, the keys or the pipelines: they share
nothing but the keys that let a request in.

Abstractions: content is counted by saves; the approval of a specification, which is
`Governance`, succeeds or raises; a signature verifies (`Signing` has those that do not).
`raced`, `keysRaced`, `filesRaced`, `behind` and `mixed` are history: the files have no
locks, so the properties speak of changes that did not meet.

### Redaction, MerkleTree, Attestation, ProofProfile, Evidence

The first four are the algorithms, as functions. `Redaction` makes of a document what
the engine makes of it: patterns from the right, the two supplements from the left at
positions taken before, bridges between marks, names. A text is a sequence of
characters that remember their value, which lets a property say what is left and what
is lost; three of the patterns stand for the table. It was written beside the engine
and gives what the engine gives on 1168 texts of the kinds it distinguishes.
`MerkleTree` builds the tree over entities and cuts its witnesses; `Attestation` has
what agents and provers record and what `verify_attestation.py` recomputes;
`ProofProfile` evaluates a profile and builds the witness of the universal circuit with
its constraints. A hash is the term hashed, a proof what it was made of.

`Evidence` runs documents through these by command, pack run or composition, in the
order each stores and proves, with specifications replaced, circuit keys rotated,
provers that fail or raise, processes that die, and two commands that make the
encryption key at once.

## 3. The runs

Deadlock is not checked: every one of these systems may stop (no job is queued, nobody
proposes or asks, a run has ended, the bound on requests is reached).

| Run | Instance | States | What it shows |
|-----|----------|--------|---------------|
| `job_service` | 1 worker, 2 requests of either mode, 1 job, 2 gates, 1 retry, 1 crash, 1 fault | 3.5 million | No gate is skipped, retries are bounded and a paused job can be decided, in every interleaving, synchronous requests included |
| `job_async` | 2 workers, 1 request, 2 jobs, asynchronous, fair | 446 thousand | Executions are exclusive; the service implements `JobLifecycle`; a queued job is served and a running one settles |
| `governance` | 2 types, one of them shipped by the pack, 1 proposal, 1 operator, 1 profile, 1 agent, 1 crash | 3.4 million | What is in force is approved, under every race; sequential use is recoverable, read correctly, and a rejection is final |
| `pipeline` | 3 steps; every forward wiring with at most one edge back, six kinds of step; all jumps; profiles and attestation; 3 pauses | 279 thousand | Gates, routes, completeness, single execution on trees, judged profiles, termination |
| `records` | 2 server threads, 1 command, 2 artifacts; 2 operations, 1 start, 1 death; fresh or in use | 858 thousand | Both chains verify and nothing acknowledged is lost, unless processes met; imports leave no file unindexed; a calm backup is complete |
| `install` | 2 circuits, a server and an operator, 2 commands, 1 fault; new instance or old image | 1.5 million | Key pairs match, are kept and are recorded; a success is healthy; a failure is one of the named residues; transcripts stand |
| `operator` | 2 server threads, 1 command; 1 agent, 2 packs, 1 profile, 2 specifications; 2 keys; 1 document, 2 formats; 2 studio, 4 key or 3 pipeline requests, 2 at once; 1 death | 131 thousand | What was tested, promoted, granted, activated, handed out or saved stands |
| `evidence` | every text of up to two values, names, two parts; 0 to 11 entities; three ways; 28 profiles; 1 change, rotation, failure, death | 301 thousand | Redaction is exact; stored evidence verifies; claims are earned; witnesses satisfy the circuits |

Symmetry (threads or artifacts that are interchangeable) is used for safety only, in
`job_service`, `governance_reject`, `records` and `operator`.

Why the bounds suffice. Every race above is between two threads over one row, one
file or one baseline; two requests and a worker give every pair of racers. Two gates
are needed for an approval to be used at the wrong one, two types for a loop to be
interrupted between two of them, three steps for a diamond, for a cycle with an
entry and for a gate between two steps; three pauses are as many as a path without a
cycle can hold, and let a gate on a cycle be answered again. One crash, at any point, cuts
every operation short once; all that follows starts from what it left behind. In `records`
two threads of one process and a foreign one are the two ways of sharing a file, and the
deployment in use lets both operations be spent on what comes after a backup. Two
circuits let a setup make one key and skip the other; two commands let each follow or
meet each. Two packs are needed for one to replace the other, two key requests beside
two of other threads for a list to be reloaded between a check and a write. The evidence
bounds keep the thresholds of the code in reach: a batch of two, four inclusions and a
tree of eight leaves instead of 4, 8 and 256, and documents just below and above each.

### Fairness

`JobService!FairSpec` is weak fairness of each thread's own steps: Python threads of
a live process are scheduled, and between statements nothing blocks for good (SQLite
waits and then raises, which is `Fault`). Nothing else is fair: no request has to be
made, no crashed server has to restart, no operator has to answer. `PipelineRunner!FairSpec`
is weak fairness of the runner's loop; approvals and rejections are not fair. It
presumes that an executed step returns or raises; `timeout_seconds` is validated
but not enforced by the code. The other specifications state safety alone: nothing in
that code waits for anything.

### Findings

Four runs check a statement of a document, test or message of the repository that the
code does not keep; each finds a counterexample.

- `job_reject_doc`: of two decisions about one pause both are told they were
  accepted; when the rejection loses, the job runs on (`agents/job_queue.py:138`).
- `governance_reject`: a rejection that read `proposed` is stored over an
  applied proposal, which remains in force (`agents/governance_approval.py:413`).
- `pipeline_cycle`: a step with two ways in is queued twice and the run
  fails with "cycle detected", without a cycle; a true cycle is never reported
  (`agents/pipeline_runner.py:498`).
- `evidence_instances`: of two bare social security numbers in one text the second is
  replaced at a position from before the first replacement, so that digits of it stay
  (`agents/redaction/engine.py:411`).

## 4. The proofs

All are checked by TLAPS for every value of the constants that satisfies the modules'
`ASSUME`s: any number of jobs, workers, requests, gates, retries, crashes, types,
proposals, steps, documents, pauses, circuits, packs, agents, artifacts, processes and commands. The assumptions
only type the constants (non-empty sets where a default is chosen, reserved names that
are no proposal ids, circuits that belong to one suite, formats listed once,
specification types in a sequence, histories that are sets of items, requests that are about
documents of the known kinds).

| Theorem | States | By |
|---------|--------|----|
| `JobServiceProofs!TypeCorrect` | types | `Typed`: a busy thread holds a job |
| `RetriesAreBounded` (one worker) | `RetryBounded` | the worker's copy of the retry count is the row's: `RetryRemembered` |
| `ExecutionIsExclusive` (asynchronous) | `ExclusiveExecution` | `AsyncInv`: no request executes, so only the owner ends a running job |
| `ServiceImplementsLifecycle` (asynchronous) | refinement of `JobLifecycle` | a step mapping, action by action, from `Typed` and `AsyncInv` |
| `GatesAreKept` | `NoGateSkipped` | `GateInv`: every payload and result, in a row or in a thread, is backed by decisions and executions for the gates before it |
| `PausesCanBeDecided` | `PausedCanBeDecided` | `GateInv` |
| `GovernanceProofs!TypeCorrect` | types | `Typed`: a loop under way has a type to do |
| `BaselinesAreApproved`, `FilesAreGoverned` | `BaselineIsApproved`, `FileIsGoverned` | `GovernedInv`: what stands in the stores, and all that threads saved to put there later, is backed by an approval |
| `RejectionsAreFinal` | `RejectionIsFinal` | `AloneInv`: while operations do not overlap at most one is under way; `DecisionsInv` |
| `AgentsLoadApproved` | `LoadsAreApproved` | `LoadsInv`: what a lone load has read is still in force |
| `SequentialUseIsSafe` | `SequentialIsSafe` | `SafeInv`: for each point of an apply and of a profile, which files and baselines it has changed and what it will put back |
| `PipelineRunnerProofs!TypeCorrect` | types | `Typed`: a paused run has its gate |
| `ApprovalsAreNeeded` | `GatesHold` | `GatesInv`, `Opened` |
| `RoutesAreFollowed` | `FollowsRoutes` | `RoutesInv` |
| `TreesRunOnce` | `TreeRunsOnce` | `TreeInv` |
| `ClaimsAreMade` | `ProfileIsJudged` | `ProfileKept` |
| `NothingIsForgotten` | `NothingForgotten` | `Remembered`: what an entry or an outcome leads to has been processed or is in the queue; an order of targets names each of them (`OrdersAreComplete`) |
| `InstallProofs!KeysTyped` | types of keys, manifests and setups | every step of `Install` is a step of `ZkKeys` or leaves it alone (`StepsOfKeys`) |
| `CompleteKeysAreKept` | `KeysKept` | `KeptInv`: a setup that makes a key found it missing, or was forced, and is alone |
| `PairsOfOneSetup` | `PairsMatch` | `FaultlessInv`: what is out of order is owed by the one setup under way |
| `ManifestsRecordKeys` | `ManifestsCurrent` | `FaultlessInv` |
| `TranscriptIsKept` | `TranscriptStands` | `FiledInv`: setups are numbered, so what is on record is older than the next key and what is stale stays stale; a manifest is written only where an entry is stale |
| `SuccessHolds` | `SuccessIsHealthy` | `CommandInv`: a command that ran alone has left behind each stage what that stage is for |
| `FailuresAreExplained` | `FailureExplained` | `CommandInv`: each way to fail, at each stage, with what was established before it |
| `OperatorProofs!DocumentsStand` | `PipelinesStand` | `FilesInv`: one thread per document, and what each point of a save leaves in the files |
| `RecordIsTrue` | `ActiveInForce` | `ActiveInv`: at most one task is applying a pack; what it has applied so far is of that pack, and before it applied anything the record is true |
| `KeysAreKept` | `KeysStand` | `KeysInv`: one clerk at a time; until a change is written, memory and file say the same, and the list that replaces the file is the old one without or with one entry |
| `ReadyIsTested` | `ReadyWasTested` | `EarnedInv`, `ReadyInv`: a mark of success, in the catalog, in a manifest or in a hand, is of a test that passed; a pack that is saved anew loses its mark before anybody else reads the catalog |
| `PromotionsAreKept` | `PromotionKept` | `StudioInv`: one catalog is open at a time; what was answered is in the file, or in the hand that has emptied it |
| `GrantsAreKept` | `GrantsStand` | `PolicyInv`: a document nobody has seen before it is in the file; whoever starts from the policy's document holds at least its grants |
| `RecordsProofs!ChainIsKept`, `NothingIsLost` | `ChainHolds`, `NothingLost` | `LogInv`: as long as no processes met, one thread is inside, and the log with what that thread still owes it is whole; an archive carries the same |
| `StoreChainKept` | `StoreChainSurvives` | `StoreInv`: at most one writer is about to insert, and it holds the newest row |
| `StoredIsRead`, `BackupsAreComplete` | `StoredSurvives`, `BackupComplete` | `StoreInv`: what an undisturbed backup or restore has read or put back is what the live files hold |
| `FilesAreIndexed` | `FilesIndexed` | `Imports`: an import that listed all copies has each of them in the table or still before it |
| `EvidenceProofs!StoredVerifies` | `FreshVerifies` | `EvidenceInv`: from the coordinator on, what a run has made and what it stored is a dossier (`Dossier`): hashes, decision and chain are of its own artifact, its proofs stand for its own inputs and were made with keys no older than the run's first; one run at a time makes the encryption key, and it is never replaced, unless two met |
| `WitnessesLead` | `WitnessesSatisfy` | `AskedInv`: at each stage, what its run was asked for; and that every predicate holds when it asks for the universal proof. A path meets at each level the hash at half its place (`OneUp`), levels shrink to one hash (`HeightIs`), and each fold of hashes is a list in which each hash is made from the one before (`Ascent`) |
| `ClaimsAreEarned` | `ClaimEarned` | `EarnedInv`: from agent 1's report to the end of a composition, the artifact is the one the engine draws from the run's document (`Drawn`), and the claim it was told holds of that dossier (`Told`). What the engine lists is of the document: pass by pass no character is there twice (`Traced`), and the entities of a part without words in capitals are of kinds of its values and no more than these (`Tracked`, `DrawnIsFound`) |
| `RedactionIsExact` | `RedactionExact` | `EarnedInv`: what agent 1 hands on is what the engine makes of the run's document. What that is, pass by pass (`Exactly`): of each value whose kind has had its pass the keyword is left and of each other value all, in its order, and as many values are recorded as were replaced; names that stand apart stand as they did until the pass over names takes them (`Standing`, `NamesAreGone`) |
| `ListsProofs!SublistIsList` | what `Sublist` returns: a sequence of exactly the elements at the places | the places of a finite set are numbered without gaps |

Why the strengthenings are needed. `NoGateSkipped` speaks of executions that have begun,
while the danger is in copies: a payload in a row, in a worker that has selected it, in a
request that is about to write it. `GateInv` says of every copy what the property says
of executions. The same holds of `GovernedInv`: a profile restores what it saved,
however late, so the saved values need the property too. `GatesHold` and
`FollowsRoutes` speak of every set C of steps that no way leads into; the inductive form
(`Avoided`) adds that the queue and the saved gate keep out of C. Approvals and outcomes
only grow, so a set C that qualifies after a step qualified before it. `TreesRunOnce` needs that everything
reached was an entry or was led to: in a tree the one way to a new target is the step being
done with, which was not processed before, so the target was not either; that
is also why a resume that forgets the visited steps does no harm there, and why the second
visit in `pipeline_cycle` needs two ways in.

The conditional properties (`SequentialIsSafe`, `PairsMatch`, `PipelinesStand`,
`ActiveInForce`, `ChainHolds`) say nothing while an operation is under way, so their
invariants must say what it has done so far and what it still owes; the history variables
give the first half, that no other thread is inside. `GrantsStand` needs more than the
grants: two publications may start from one document, and the later one raises `behind`
only because the document of the first has a number that nobody read before it was in the
file. That the newest line a reader can parse exists is usually shown by induction over
the log, which is out of reach; `LogInv` keeps instead that every set of line numbers has
a largest one (`Ranked`), which each append preserves.

Where the instance is small a history variable may be too weak and nothing shows it. Two
proofs did not close until one was corrected: `behind` is also raised when a memory is
replaced while it is being published, which takes three threads of the server, and
`partial` by a restore of the database as well as of the files.

`RetriesAreBounded` and the two asynchronous theorems name their hypothesis. With
synchronous decisions exclusiveness fails by design of the code (a request executes
a row it has put back in the queue); `NoGateSkipped` holds even then.

`SuccessIsHealthy` and `FailureExplained` speak of the end of a command, after up to nine
stages. `CommandInv` says for each stage what it leaves (`Leaves`), for each point of a
key setup's loop what the circuits behind it have, and for each failure which part was
missing; only a command that ran alone (`SoloInv`) keeps all that. The invariant was
model-checked on three instances of `Install`, up to 9.3 million states, before it was
proved; it says more than the two properties, for instance which residues a key setup
leaves when it raises.

Model-checked only: liveness (`QueuedIsServed`, `RunningSettles`, `CallReturns`), which
TLAPS does not reach. Every safety invariant and every action property of the passing runs
is a theorem. No module that is proved about declares a RECURSIVE operator, and the
induction theorems of the library cannot be instantiated by the provers. What looks inductive about a list is proved by counting instead: a function between
finite sets of one size that never repeats a value takes all of them (`FS_Injection`, in
`ListsProofs` and `OrdersAreComplete`), or by the least step at which it would fail
(`Upward`). That the engine returns a list of entities for every document
(`EntitiesAreList`), which the decision's verification needs, and that these are of values
of the document (`DrawnIsFound`), which a true claim needs, is shown pass by pass through
folds: `FoldExists` and `ChainExists` give the recursion a solution by the least number of
steps that has none, and `FoldStays` and `ChainStays` keep a fold in the set its steps keep
to.

`RedactionExact` needs to the character what a pass leaves of a text. A pass from the right
replaces matches that stand one behind the other (`Placed`) and moves what is outside them
without changing it: `Moved` gives each place outside the matches its new place, in order and
with its neighbours, and keeps to it as one match more is spliced (`MovedMore`, `PassMoves`).
From this follow that a stretch no match meets is found again (`PassKeeps`) and that nothing
else is (`PassDraws`); a pass over one kind of values takes exactly these (`PassIsExact`);
and the supplements, which work from the left, are such a pass as long as they find one
number (`SupplementIsPass`), which is where `Single` is needed and what `evidence_instances`
refutes without it. An orphan or a bridge has a mark beside its word, and a name that stands
apart has none (`OrphanTakes`, `BridgeTakes`). The proof corrected the property: as first
stated it asked only that no value stands right before a name, which held on every text of
the run, and the step for bridges did not close. TLC on longer texts gave the counterexample,
and the engine agrees with it (section 5).

`ClaimEarned` bounds what was counted from above: a count of at least n, a category or a
redaction that a true claim states is in the document. It does not state the converse, for
a pass may spoil a value (three cards are marked from left to right at places found before,
so the last mark slips and may fall on a month behind them), so `ZK_ENTITY_PRESENT` is
earned by some value and by a recorded list that fits the tree, and not by a number of
values that does.

## 5. What is not modelled

- Upload sessions, whose session file is read, changed and written whole by each
  request as `Studio` has it for its catalog. Read-only routes, the event stream.
- In governance: audit events and the registry of versions, written after the fact and
  read by none of the operations.
- In the runner: what steps compute, except attested ends (`Evidence`); a handoff's child
  run, which happens inside one step with its gates opened and whose own pause is not
  carried to the parent; the counter of a loop step, which has no second turn since a
  visited target is not queued again.
- In packs and studio: the snapshot an activation writes, which nothing reads; the
  temporary document of a pipeline test; the files of a pack, saved in one step.
- In the evidence: the regular expressions, the parsers of the formats, the constraints of
  the circuits other than the universal one, the cryptography, bring-your-own encryption.
- The swarm, language models and voice keep no state between calls; the user
  interface, installers, website and packaging are clients or static.
- Limits of what is claimed. A crash inside a pack profile leaves the pack's specs in
  force, re-baselined: `SequentialIsSafe` excludes it by `cut`. A pause drops branches
  that were queued beside the gate: `NothingForgotten` speaks of runs without an approval.
  A policy left torn by a crash makes every later publication raise, so `GrantsStand`
  speaks of whole ones. Names beside values are
  another such limit: of `Grace Hopper a@b.com` the orphan rule takes one word alone
  (`agents/redaction/patterns_supplement.py:92`), of `a@b.com Alice a@b.com Bobby Brown`
  the bridge takes `Alice` and `Bobby` and leaves `Brown` (`agents/redaction/engine.py:485`),
  and a name of five words leaves its fifth (`engine.py:531`). No document says what should
  happen there; `RedactionExact` speaks of names that stand apart (`NamesApart`): two to
  four words with no value beside them.
- Smaller defects met while reading, which no property is about: a count of at least zero
  is proved as at least one (`agents/zk/universal_bridge.py:116`), and the record of
  a failed governance proof counts as a proof being present
  (`agents/proof_studio.py:666`).

## 6. Plan

1. `UploadSessions`: sessions as read-modify-write files between requests, as a part of
   `Operator`.
2. `JobService` composed with `PipelineRunner`: the executed payload is a real resume
   state, which replaces `Results` and shows that gates across jobs and runs
   are the same gates; then the refinement of the composition.
3. The converse of `ClaimEarned` for documents whose parts have at most one number for each
   supplement, from `RedactionIsExact`: what is there is counted.

# ProofOps MemoryGuard and Casework in TLA+

The repository holds two generations of one idea: an agent's memory of risk must
be able to stop, and never to start, an action.

* **Casework** (`src/src/proofops_casework`) is the current one. A tenant's
  workspace holds spending *tasks* that depend on one another, *baselines* set by
  an owner, and risk *cases*. Every decision about a task is recomputed from that
  memory; an open case suspends whatever rests on its scope; only an independent
  reviewer resolves a case; and nothing the service produces is executable.
* **MemoryGuard v1** (`src/src/proofops_memoryguard`) is the earlier one: observe,
  decide and finalize for one subject, and an agent that runs the three.

Paths below are relative to the repository root, which is `src/` here.

## 1. Inventory

| Component | State | Operations | Interacts with | What makes it correct |
|---|---|---|---|---|
| Casework rules (`core.py`) | none: functions of the workspace | `ancestors`, `affected_tasks`, `task_basis`, `policy_result`, `ready_expiry`, `active_precedents`, `investigation_basis`, `decision_validity`, `recovery_plan`, `validate_workspace` | called by every command | invalidation walks down the graph and evaluation walks up: they must meet; a basis changes with all it rests on and never returns |
| Casework commands (`service.py`, `models.py`) | the workspace: tasks, decisions, baselines, cases, histories, reports, handoffs, lessons, artifacts, audit | bootstrap, baseline, register, evaluate, reconsider, open, reopen, note, investigate, handoff, accept, resolve, review, anchor; reads | rules, store, registry, evidence desk, planner, anchor | no approval over an open risk or beyond a limit; independence of reviewers; taints forgotten only by review |
| Command envelope and store (`service.py` `_mutate`, `store.py`) | locks, per-thread clients, file identity, the stored workspace | transaction, load, save | SQLite file shared by processes | one command at a time; one effect per idempotency key; no lost update; no lock left behind |
| Credential registry (`auth.py`) | actors, fixed per process | authenticate | service, ingress | a role is what the registry of the running process says |
| Investigation planner (`service.py` 320-422) | reserved attempts | reserve, call, file | service, model endpoint | at most one model call per key; a report only on the basis it saw |
| Evidence desk (`source_*.py`, `observations.py`) | requests, heads, receipts, policy floors, missions | collect, mission, resume, gates on reports and resolutions | service, connectors | a read is recorded under the head that reserved it, or as stale; obligations never weaken |
| Connectors (`connectors/`) | none | HTTP reads | desk | bounded, read-only |
| Incident ingress (`incident_ingress.py`) | receipts | ingest | service | a signed delivery opens at most one case, and only opens |
| Partner review (`partner_review.py`) | plans, bound jobs | prepare, inspect, verify | service, external job reader | one job for one plan |
| Audit anchoring (`anchoring.py`, `service.py` 605-678) | anchor artifacts | prepare, verify | chain | what is called anchored was observed on chain for that tail |
| Contracts (`contracts/src`) | anchors | anchor | anchoring | first write wins; a version is never rebound |
| Runtime and HTTP (`runtime.py`, `api.py`, `integration_api.py`, `mcp_readonly.py`, `request_limit.py`) | counters | routes | all of the above | pure wiring |
| MemoryGuard v1 (`module.py`, `policy.py`, `proof.py`) | subject memory, decisions, finalizations | observe, decide, finalize | memory adapter, anchor | a finalization is final; a decision is bound to a memory version |
| v1 memory adapter (`adapters/sibyl.py`) | entities, journal | commit_observation, save, load | SQLite file | versions never skip or repeat |
| Agent runs (`agent.py`, `adapters/agent_ledger.py`, `adapters/safety_actions.py`) | runs, claims | run, resume, inspect | v1 module | a saved run can be loaded again |
| Rate limiter (`rate_limit.py`) | windows | allow | v1 HTTP | at most `limit` per window and key |
| Web, scripts, evidence, deployments | none | | | not a part of the system's state |

What is hard here, and hard to test: closures over graphs of any depth; events in
orders nobody wrote down (reopening, re-baselining, expiry between two commands);
threads and processes on one file; a lost answer followed by a retry; a slow read
outside the lock committed into a workspace that moved on. `PROJECT.json` lists
each hazard at its line, with the properties aimed at it.

## 2. Modules

```
TaskGraph            the closures, as least closed sets
 |-- AncestorsWalk     core.ancestors, call by call
 |-- AffectedGrowth    core.affected_tasks, round by round
 |-- TaskGraphProofs   lemmas about the closures
 |    `-- AlgorithmsProofs  theorems (of AncestorsWalk, AffectedGrowth, RateLimiter)
 `-- Casework          the workspace and its commands
      `-- CaseworkProofs   theorems (with TaskGraphProofs)
           `-- CaseworkStandingProofs  theorems
CommandLog           what a workspace promises: an exactly-once log
 `-- WorkspaceStore    _mutate over locks, threads, processes and a file
      `-- WorkspaceStoreProofs  theorems; WorkspaceStore implements CommandLog
Calls                commands that leave the lock to ask somebody outside
EvidenceLog          what the desk promises about a case's evidence
 |-- EvidenceDesk      reads, missions, investigations with a planner
 |-- AuditAnchor       anchor plans, and the chain they are looked up on
 |-- PartnerReview     review plans, and the external jobs bound to them
 |-- IncidentIngress   signed deliveries
 `-- CaseworkCalls     the four on one workspace and one server
      `-- CaseworkCallsProofs   theorems
           `-- EvidenceDeskProofs    theorems; the composition implements EvidenceLog
DecisionLedger       what v1 promises: reports remembered, decisions, finalizations
MemoryGuard          v1: observe, decide, finalize
 `-- AgentRuns         the agent over it, its ledger and its claims
      `-- AgentRunsProofs   theorems of both; one server implements DecisionLedger
RateLimiter          the limiter before the v1 routes
MCCasework, MCWorkspaceStore, MCEvidenceDesk, MCCaseworkCalls, MCAgentRuns,
MCAlgorithms         instances for TLC
```

The casework service is cut where the code cuts it. A command runs under its
tenant's lock from load to save, so `Casework` takes it as one action and
`WorkspaceStore` says what that costs: locks, files, processes, retries. The
services that must give the lock up while they ask a source, a model, a chain or
a partner are written over `Calls`, in which a transaction of the workspace is one
step and anything may happen between two of them.

### TaskGraph, AncestorsWalk, AffectedGrowth

`Ancestors` and `Dependents` say what the two walks of `core.py` return: least
sets closed under parents, or under children. The other two modules execute the
walks as the code does, one call or one round per step, and compare: over every
graph of three tasks, damaged ones included, for the recursive walk (`visiting`,
`visited`, the order of the result, the two errors), and over every graph of five
tasks that registration can build for the fixed point. `AffectedGrowth` compares
it with the *other* walk, which is what the service relies on. Three tasks are
enough for a cycle of every length the walk can tell apart, a diamond, a
self-loop and a missing task beside either; five for a chain of four hops and two
paths of different length. `WalkAnswers` includes that the walk never nests deeper
than there are tasks, which registration caps at 250: Python's recursion limit is
out of its reach.

### Casework

| Variable | Code |
|---|---|
| `task`, `taints`, `status`, `decision` | `Workspace.tasks`; `decisions[current_decision_id]` |
| `baseline` | `Workspace.baselines` (its history is one entry per version) |
| `case`, `caseHistory` | `Workspace.cases`, `case_history` |
| `reports`, `handoffs`, `lessons` | the fields of the same names |
| `reviews` | artifacts of type NON_EXECUTABLE_HUMAN_REVIEW |
| `registry` | `CaseworkService.actors` of the running process |
| `now` | `clock()` |
| `inflight` | what each running `investigate` read before it let the lock go |

Each action is one command. `investigate` is two, because it lets the lock go
between them; `EvidenceDesk` has its planner. `SetBaseline` may store an expiry up
to `LockWait` in the past: the code compares it with the clock before it waits for
the lock.

A digest is the value it digests. `task_basis` and `investigation_basis` become
records of exactly the fields the code hashes, those left out of the model
excepted: times and sequence numbers of events (`opened_seq`, `resolved_seq`,
`event_seq`, which are new for every version and so never make two different
versions equal) and `evidence_digest`. A decision's identifier is a number per
task, new for each decision.

Superseded decisions are kept by the code for replay only; a task carries its
current one. The escalation artifacts of decisions that are not READY, notes, the
audit chain, revisions and idempotency have no effect here or are left to
`WorkspaceStore`. Capacities (250 tasks, 500 cases, 5000 revisions) are above the
bounds checked.

Properties:

* `ReadyNoOpenRisk` no READY task has an open case on its own scope or on that of
  any ancestor. Proved for every value of the constants (section 4).
* `ReadyWithinLimits` a READY task carries no unreviewed event, and it and all it
  depends on ask no more than the baselines now in force grant.
  It says nothing of their expiry, which withdraws nothing: a status stays READY
  until something recomputes it.
* `FreshProofIsLive` a READY decision that has not expired, on an unchanged basis,
  would pass the whole policy again, and so would those of its ancestors: the
  basis misses nothing the policy reads, and no clock runs out before the
  decision's own.
* `ReviewedRisksCleared` whatever a review artifact rests on, every case its
  decision's basis names had been cleared: what the basis says of the case is an
  entry of its history, a resolution by somebody who neither raised nor
  investigated it, on an accepted report about that version of that case. It holds
  for good, through reopenings and changes of role that come later. That
  `prepare_review` itself looks at a whole closure (`Preparable`) is a guard; what
  makes its comparison of digests enough is `FreshProofIsLive` and `StaleStaysStale`.
* `StaleStaysStale` a decision whose basis changed never becomes current again:
  reopening and resolving, or setting the old limit again, does not undo it.
* `TaintsClearedOnlyByCleanReview` events leave a task only all at once, by a new
  READY decision with no open case and every ancestor clear.
* `OneSubjectPerStep` a command changes the standing of one subject's tasks only.
* `IndependentResolution` whoever resolves a version of a case is neither who
  opened it nor who investigated it, and accepted a report about that version of
  that very case.
* `CaseHistoryIntact` one history entry per version and the last is the case:
  what `validate_workspace` demands of every load.

`PrecedentsCurrent`, that a report that still counts is guided only by cases still
resolved at the version their lesson was drawn from, is no run's question: it
follows at once from `_valid_report` computing the whole basis again, and
`GuidanceIsCurrent` says so.

`resolve` compares the reviewer with `opened_by` and the investigator although
`handoff` did so before. Model checking shows the two checks cover each other:
without the one in `resolve` no behaviour of the model violates
`IndependentResolution`, because a reopening that changes the opener also changes
the version, and the report with it.

### CommandLog and WorkspaceStore

`CommandLog` is what callers are promised: a log with at most one entry per
idempotency key, opened by bootstrap, and answers that are entries of the log.
`WorkspaceStore` is how it is done: the process's `RLock`, the tenant's `flock`,
the deadline on each, the per-thread client and the file it opened, load, change
in memory, `set_entity`, the identity checks, the answer. `_client` is two steps
for a client just made: `Open` opens the path, `Pin` stats it again and records the
identity the process will insist on. If that stat fails, the client stays cached and
is used from then on without it (`Read` from `locked`, with an identity still 0).
Opening the lock file may fail with only the `RLock` taken (`LockFileFails`). A write may raise after
it took effect (`MEMORY_WRITE_UNCERTAIN`); a process may die anywhere; an
operator may replace the database file anywhere (removing it and letting the next
process create it is the same step here). A request carries its key, a
fingerprint of the rest, and the revision it claims to have seen, which a retry
may refresh. The workspace is its audit chain: the sequence of requests applied.

| Variable | Code |
|---|---|
| `threadLock`, `fileLock` | `SibylWorkspaceStore.thread_lock`, `flock` on the tenant's lock file |
| `connection` | `SibylWorkspaceStore.local.clients`, with the inode each has open |
| `identity` | `database_identity` |
| `path`, `files` | the inode the path names, and each inode's content |
| `pc`, `request`, `expected`, `memory` | the locals of `_mutate` |
| `answers` | ghost: what callers were told |

Properties: `LocksMatchThreads` (both locks are held exactly by the threads
inside, through every timeout, error and crash), `NoLostUpdate`, `AppliedAsSeen`
(a command lands only on the revision its caller named), `AnsweredIsRecorded`,
the refinement `ImplementsCommandLog`, and `LocksComeFree` under fairness.

**Finding** (`store_opening`). `store.py:40` says that an abandoned file is not
served silently. For a process's first client it can be: `_client` opens the path
(line 56) and stats it afterwards (lines 57-59) to learn the identity it will
insist on. A file replaced between the two leaves the client on the old inode and
the identity of the new one, and every later check passes. Where the identity
recorded is that of the file the client has open, the comparison before each answer
(`SameFile`) is what keeps the promise, and there is nothing more to check of it.

### Calls and the four services

`Calls` holds what these services share: the clock, what each caller (a thread of
one server) is executing, and the workspace's revision. The revision is kept as
the set `fresh` of callers whose expected revision is still the workspace's: every
write empties it, a read of the revision adds its reader. That is all any of them
compares a revision for, and it leaves no counter to bound.

**EvidenceDesk** is the desk of one case.

| Variable | Code |
|---|---|
| `config` | the source registry and policies of the running server; `Nothing` when it has no desk, which `require_desk` refuses to work without once a case owes evidence |
| `case` | the case's version and whether it is open |
| `guard` | the SOURCE_POLICY_GUARD artifact (`remember_policy`) |
| `requests` | SOURCE_REQUEST artifacts with their receipts, and cache hits, by idempotency key |
| `heads` | SOURCE_HEAD artifacts |
| `attempts`, `reports`, `plans` | INVESTIGATION_ATTEMPT, reports with their evidence bundle and handoff, EVIDENCE_MISSION |
| `asked`, `newest`, `demanded` | ghosts: how often a source or planner was asked under a key; the last request reserved for each source; the most any plan, read or report has demanded |

`collect` is `Collect`, then `ReserveReplay`, `ReserveHit`, `Reserve` or
`ReserveRefused`, then `Fetch` outside the lock, then `FinishRead` and
`FinishRecord` or `FinishConflict`, which tries again a bounded number of times.
`investigate` is `InvestigateRead`, `InvestigateClaim`, `AskPlanner` outside the
lock, and `InvestigateCommit` or `InvestigateStale`. A mission is planned, checked,
stepped through its collections, investigated and handed over; any of it may be
cut off by a restart and begun again by `MissionAgain`. A restart ends every call
and may bring other specifications, another policy, or no desk. Who may hand off,
accept and resolve is `Casework`'s matter. What the planner says changes nothing
but a report's wording.

* `AskedOnce` a source is read, and the planner asked, at most once under one key, and
  no source beyond its budget for the case (`WithinBudget`).
* `RefreshDisplaces` the evidence of a case comes from the last read reserved for
  its source, whatever order the reads end in.
* `ObligationsStand` what is owed never falls below what anything demanded.
* `DecidedOnEvidence` a report is handed over and a case resolved only on present
  evidence of every source ever demanded, from enough independent groups and free
  of contradiction: no change of configuration, expiry or failed refresh avoids it.
* `ImplementsEvidenceLog` the desk is an evidence log.

**EvidenceLog** is that log. A question is put once and its answer recorded once,
for good; a source is known by the last request reserved for it and by nothing
else; an answer counts only if the case is where it was and its source still known
by that request; no more requests are reserved for a source than its budget; a report
rests on what was known when it was filed; and a case is closed on a report whose
basis is still the present one. The mapping is direct: `latest[s]` is the request of
the head of `s`, `spent[s]` the number of requests on record for it, `reports[i]` the
basis of the report filed under `i`; the clock, the case, the
requests, the attempts and the ghost `asked` are themselves. Callers, the revision,
retries, policies and what they demand, missions, attempts given up, restarts and
the three other services are not in the log: their steps leave it alone.

Three things the model shows and a reader may not expect. A mission planned at one
version of a case stops at the next when it is resumed, but one already between
two steps goes on: its later collections read the version of the moment, and it
reports on a case closed and reopened meanwhile if somebody else collected its
first source again. `reopen_case` fails with
SOURCE_POLICY_REMOVED while a policy the case knew is missing. And an
investigation whose basis moved while the planner was asked leaves its key
PENDING for ever: the same key is never asked again, which is what `AskedOnce`
costs.

**AuditAnchor**: `anchors` (AUDIT_ANCHOR artifacts with the transaction each is
bound to) and a chain (`height`, `block`, `reorgs`) that grows and reorganizes
between the reads of `verify_anchor`. The code reads five things of the chain, each
by a call of its own: its id, the receipt, the transaction, the block of the
receipt's number, the height. The id does not change and is left out; the other
four are the actions `VerifyReceipt`, `VerifyTransaction`, `VerifyCanonical` and
`VerifyHeight`, and `VerifyRecord` takes the lock again. A transaction
either carries a plan (to this contract, from this attester, with this calldata
and event) or does not; none carries one before the plan exists.
`AnchorStands`: an anchor's transaction never changes, a verification is never
taken back by a slower or later answer, and VERIFIED is recorded only of a
transaction that carries this very plan, on a chain at least `Confirmations` high.
The answer of a verification is dropped
when anything else was written while the chain was read, and VERIFIED can be
recorded for a transaction that a reorganization removed after the block was
found canonical and before the height was read; the next look does not take it
back.

**PartnerReview**: `reviews` (ACP_REVIEW_PLAN artifacts). `JobBoundOnce`: one
external job is bound to one plan, across reports, expiries, failed histories and
racing callers. Once a report's first plan has expired, every further `prepare`
files another plan.

**IncidentIngress**: `inserted` (what is on record under a delivery's key) and the
ghost `incidents`. `DeliveredOnce`: a delivery opens one case however it is
repeated, raced, cut off or imitated. It opens at most one: a delivery that loses
every race is refused (`IngestConflict`, INCIDENT_CONTENTION) and leaves nothing
behind, and that it is sent again is up to its sender.

**CaseworkCalls** puts the four on one workspace. They share the callers and
`fresh`: what one writes, the others find has moved.

### MemoryGuard and AgentRuns (v1)

| Variable | Code |
|---|---|
| `memory`, `journal` | the subject entity's observations, and the event log the adapter writes before it |
| `decisions`, `finals` | saved decision drafts and finalization entities |
| `chain` | what became of each transaction |
| `config` | a process's policy version and whether it has an anchor adapter |
| `call` | the module call a process is executing |
| `runs`, `held` | the agent ledger, and the `flock` on each run's claim file |
| `task` | the agent request a process is executing |
| `acknowledged` | ghost: observations whose receipt a client was given |

A process answers one request at a time: its routes run on the event loop, under
the module's `RLock`. Between two accesses to the database another process may
act. `observe` is a load, a comparison of versions, the event and the entity
(`commit_observation` is not atomic); `decide` a load and a save; `finalize` a
check, a look at what is on record, a question to the chain and a save. The
classification of observations and the ranking of the policy are modelled as they
are; a proof root is its decision's number, and a memory root is the sequence of
observations it covers.

`AgentRuns` adds `run`, `resume` and `cancel`: claim, decision, the model's answer
(complete, incomplete or none), the safety actions, the save. A
request's `todo` is the set of safety actions still to be tried, taken in the order
of `_REGISTERED_TOOLS` (`Registered`). The tool trace is left out: `_validate_run`
reads it only for what the artifacts repeat.

* `ReceiptsKept` every receipt given stands in memory, every observation there in
  the journal. It is checked for one server. Two servers over one database file do
  lose observations, since `commit_observation` compares a version and writes
  later: with two processes the model shows it. Nothing in the repository claims
  the contrary.
* `DenialRecalled` a draft made after a receipted dispute or revocation denies what
  it is about, whatever was observed since and after however many restarts.
* `AuthorityIsTrusted` only trusted sources permit or deny, and a demonstration
  never speaks about an intent of another mode.
* `ReadyRestsOnMemory` a READY draft is finalized only while memory is unchanged.
* `OneTransaction` a finalization keeps its transaction and its verification.
* `RunAnchorBacked` a run's pending or verified anchor is what the ledger of
  finalizations says.
* `RunKeepsDecision` a run keeps its request, its decision and its artifacts.
* `RequestsAnswered` every agent request ends (under fairness).
* `ImplementsLedger` the whole, for one server, is a decision ledger.

**DecisionLedger** is what the clients of one subject are promised. A report is
remembered once per key, for good, and acknowledged only when it is; a decision is
what the policy says of the whole memory at one instant, and names that memory; a
finalization settles on the memory its decision was made on, and is VERIFIED only of
a transaction the chain holds with that decision's root. `Kept` is what is remembered
of a report under an identifier, a number and a process. The journal, the requests
under way, agent runs and claims, crashes, restarts and changes of configuration
are not in it.

**Finding** (`agent_load`). `resume` with `prepare_anchor` sets the run's anchor
state to the plan's (`agent.py:708`) whatever an earlier, failed verification left
among its artifacts, and saves it. `_validate_run` (`agent.py:445`) then refuses
the run at every load: "Agent run anchor state does not match its artifact".

### RateLimiter

`buckets` is the limiter's table; a full table evicts the key served least
recently (`Popped` is the loop that takes expired times off a bucket's front, and
stops at the first that is not). `LimitHolds`: a host exceeds its limit within a window only while more
hosts than the table holds were served in that very window.

## 3. Runs

| Run | Question | Instance |
|---|---|---|
| `casework_cycle` | what survives open, resolve, reopen, do open risks reach what depends on them, and what is a review artifact worth | 2 tasks, 2 scopes of one subject, 1 case of 3 versions, 3 people of fixed roles, 2 decisions per task, 1 report, 1 review |
| `casework_rules` | limits, expiry, subjects apart | 2 tasks, 2 scopes of 2 subjects, clock 0..3, decisions live for 2, baselines until 3, lock wait 1, 2 baseline versions, 1 review, no case |
| `casework_review` | who resolves, and is a case's past kept | 2 cases of 3 versions, 3 people whose roles change by restart, 2 reports, no task |
| `store_files` | answers, retries and replaced files | 2 processes, 2 files, a key reused with another body, revisions 0..2 claimed |
| `store_live` | exclusion, lost updates, do locks come free | 2 threads of one process and 1 of another, 2 bootstraps, revisions 0..1, fair threads |
| `store_opening` | is an abandoned file ever served | as `store_files`, revisions 0..1; expected violation |
| `algorithms` | the two walks and the limiter | all graphs of 3 tasks (damaged) and of 5; 3 hosts, limit 2, window 3, a table of 2, clock 0..5 |
| `agent_one` | is what was receipted recalled, do runs and finalizations agree, is it all a decision ledger | 1 server, 3 reports (a baseline that expires, a dispute with a quarantined field, a caller's baseline under the dispute's key), 2 observed, 2 intents, 2 transactions, 2 configurations, 1 decision, clock 0..1, 1 crash |
| `agent_two` | one run asked for twice at once | 2 servers, 1 run, 2 goals under its key, 3 model answers, 2 decisions, 1 crash, fair |
| `agent_load` | can a saved run be loaded | 1 server, 1 run, 1 transaction; expected violation |
| `desk_missions` | decided on evidence only, and is the desk an evidence log | 1 caller, 2 sources, 3 keys, a mission of 2 steps and an investigation beside it, 2 facts, 5 configurations with none among them, receipts live for 1, budget 2, 3 case versions, 1 restart, clock 0..1 |
| `casework_calls` | the services at once | 2 callers, 1 source, 3 keys, 1 investigation, 1 anchor, 2 transactions, 2 confirmations, height 2, 1 reorganization, 2 reports, 2 review plans, 1 job, one delivery with two bodies, 1 restart, 4 commands |

The bounds are in the guards and named: `MaxTime`, `MaxBaselines`, `MaxEpisodes`
(versions of a case), `MaxDecisions`, `MaxReports`, `MaxReviews`, `MaxRevision`,
`MaxFiles`, `MaxVersion`, `MaxRestarts`, `MaxCalls`, `MaxHeight`, `MaxReorgs`,
`MaxObserved`, `MaxCrashes`, `MaxNow`. `MaxReports` counts reports filed and in
preparation alike. Each run raises the bounds its question
depends on. Three versions of a case are open, resolved and reopened; two baselines
are one change. Two tasks give one hop of dependency: a remote dependent is left
to the theorems `ReadyTasksHaveNoOpenRisk` and `Duality`, and to `algorithms`,
where a chain has four hops. `FinishTries` and `IngressTries`
are 4 in the code; `desk_missions` and `casework_calls` have one retry and one
giving up of each (a finished read in `casework_calls`, where two callers
interleave, gives up at once). One restart in `desk_missions` takes the case from
any of the five configurations to any other. In `casework_calls` four commands are enough
for two callers to meet twice, or once with a command each before.

`casework_calls` is narrow in three ways, so that two callers inside five services
fit in one run. Its clock stands still (`MaxTime` 0): no review plan or receipt
expires in it. Its case keeps one version (`MaxVersion` 1), and a finished read has
one try (`FinishTries` 1). So `JobBoundOnce` is not checked over plans that expire and
are prepared again, nor `RefreshDisplaces` over versions of a case and retried
recordings, by this run: the theorems `JobsBoundOnce` and `RefreshesDisplace` are
what covers them, for every value of those constants. Receipts that expire,
versions and retries are in `desk_missions`, with one caller. `desk_missions` has one
caller because what it asks is about configurations, expiry and case versions:
other threads appear there as `OtherCommand` and as the commands around the desk. That
the desk is an evidence log is checked there too, where cases close and reopen and
receipts expire; callers that race are left to `DeskImplementsLog`.

Symmetry is over interchangeable tasks, scopes, people, callers, facts, keys,
processes or transactions and, in `store_files`, over the two bodies under one key
and over two processes exchanged with the one thread each has; no run with a liveness property uses it. All but the
store runs may stop when their bounds are reached, so they do not check deadlock.
The store runs do: an idle thread can always be asked for something, and no
waiting thread is without its timeout.

Each property is paired in `PROJECT.json` with a mutated definition, kept beside
the one it replaces and marked `[mutant]`, under which the run fails.

**Fairness.** `store_live` assumes weak fairness of each thread's steps, which is
the operating system scheduling a runnable thread; nothing of callers, crashes or
operators, nor that a lock is ever granted: a waiting thread may always time out
instead. `agent_two` assumes weak fairness of the steps of a request under way,
and strong fairness of `Claim`: `agent_ledger.py:118` blocks in `flock`, without a
timeout, and the kernel wakes its waiters in turn. No other run assumes any.

## 4. Proofs

`TaskGraphProofs` proves, for finite graphs of any size, that `Ancestors` is
transitive and contains its start, the **duality** of the two closures (a task
is among `Dependents(deps, D)` exactly when its `Ancestors` meet `D`), and that
registering a task changes no one else's ancestors.

`AlgorithmsProofs` proves the three algorithms right, for graphs of any size and for
any number of hosts, limit, window and room:

* `PropagationIsExact`: `GrowthSpec => []GrowthMeetsAncestors`;
* `WalkIsRight`: `WalkSpec => []WalkAnswers`;
* `LimitIsKept`: `LimiterSpec => []LimitHolds`.

None needs an induction over the data, because each invariant speaks of closures
and not of paths. `GrowthInv`: the rounds stay between the changed tasks and their
least closed set, and a round that adds nothing has closed its result; the duality
does the rest. `WalkInv`: the keys under way are distinct, the first is `start`, and
each lies in the closure of all below it (`PathInv`, so that meeting one again is a
true cycle, and there are no more of them than tasks); what a call has taken off its
list of parents is visited or being walked (`HandledInv`); the answer so far lists no
key twice and each after its parents (`OrderedInv`), so every prefix of it is closed
and none of its keys is on a cycle. It rests on `KeyAssumption`: tasks are numbered,
finitely many, and `Missing` is none of them. `LimiterInv`: the times a host was
served and the limiter no longer knows of are before some time at or after which
more hosts than there is room for were served (`CoverInv`), which is what an
eviction leaves behind, as the least recent of a full table goes and one more comes;
what is left of them is the end of the host's bucket, which never exceeds the limit.
Time takes the first of both away, which needs that they are in order (`WindowInv`).

`CaseworkProofs` proves, for all constants satisfying the three ASSUMEs:

* `TypeCorrect`: `Spec => []TypeOK`;
* `ReadyTasksHaveNoOpenRisk`: `Spec => []ReadyNoOpenRisk`;
* `HistoriesStayIntact`: `Spec => []CaseHistoryIntact`;
* `ResolutionsAreIndependent`: `Spec => []IndependentResolution`.

`ReadyNoOpenRisk` is not inductive alone. The invariant is
`ReachInv == TypeOK /\ DepsRegistered /\ ReadyClear`: registered tasks depend on
registered tasks only (so a registration cannot extend an existing closure), and
a READY task has no open case over its closure. Opening or reopening a case makes
some task's closure dirty exactly when that task is among the case's dependents
(duality), and those are suspended in the same step; a decision is READY only
with no blockers; registering a task leaves older closures alone; all other
commands change neither open cases nor READY statuses upward.

`CaseHistoryIntact` needs to know that entry *i* of a history is version *i* and is
resolved exactly when *i* is even (`HistoryInv`), so that the three commands that
move a case each append the entry after the last. `IndependentResolution` speaks
of a handoff that was accepted versions ago: `IndependenceInv` says of every
resolved entry that the report behind its handoff was about this case and saw the
entry just before it, that accepted handoffs are never lost, and that only a
report's investigator hands it off, at the report's version, which holds whatever
roles a restart gives or takes.

`CaseworkStandingProofs` continues with what a decision is worth later:

* `StandingOfOneSubject`: `Spec => OneSubjectPerStep`;
* `StaleDecisionsStayStale`: `Spec => StaleStaysStale`;
* `ReadyTasksAreWithinLimits`: `Spec => []ReadyWithinLimits`;
* `TaintsClearedByCleanReview`: `Spec => TaintsClearedOnlyByCleanReview`;
* `FreshDecisionsAreLive`: `Spec => []FreshProofIsLive`;
* `ReviewsRestOnClearedRisks`: `Spec => []ReviewedRisksCleared`;

and `GuidanceIsCurrent` (`Spec => []PrecedentsCurrent`), immediate from what
`ValidReport` computes. The first five share `GraphInv`: `ReachInv`, and a graph without
cycles whose edges stay within one subject, which no single state check of the code
says but registration maintains. Without the absence of cycles a task could be its
own ancestor, and a decision would rest on its own standing.

* `StaleStaysStale` needs an order. A basis is `Older` than another when it names
  the same tasks and scopes and no counter in it (decision number, baseline or case
  version) is beyond the other's. `BasesPrecede` says that every decision's basis
  is older than the present one and equal to it if it is also younger: the basis a
  decision has left cannot be met again, because everything a basis shows either
  is a counter or changes only with one.
* `FreshProofIsLive` rests on `FreshRests`: while a READY decision's basis is
  current, its closure has no blocker, all baselines grant what is asked until
  after its own expiry, and each ancestor's current decision is READY, on a
  current basis and expires no sooner. Any command that disturbs one of these
  changes the basis; this is where `BasesPrecede` is used again, since a basis that
  came back would revive a decision whose ground is gone.

* `ReviewedRisksCleared` rests on `IndependenceInv` instead: an artifact is prepared
  on a basis that is the present one and has no open case, so each case it names is
  the last entry of its history, a resolution, and those are independent; afterwards
  histories and accepted handoffs only grow (`HistoriesOnlyGrow`).

`WorkspaceStoreProofs` proves, for any number of threads, processes, requests,
revisions and database files, what the runs `store_files` and `store_live` check but
liveness:

* `LocksAreExclusive`: `Spec => []LocksMatchThreads`;
* `AnswersAreRecorded`: `Spec => []AnsweredIsRecorded`;
* `NothingIsLost`: `Spec => NoLostUpdate`;
* `CommandsLandAsSeen`: `Spec => AppliedAsSeen`;
* `StoreImplementsLog`: `Spec => ImplementsCommandLog`;

and `StoreTypeCorrect`. The invariant, `StoreInv`, says what a thread under the
locks may rely on: besides types and locks, what it loaded is still what its file
holds (`Snapshot`), and every answer is on record in the file it came from, named
by the path or not (`AnswersKept`). Locks admit one thread, so only that thread
writes, so `Snapshot` survives every step of the others, and so each write only
appends (`FilesGrow`), from which the action properties follow. The refinement
needs two more facts: a file the path has yet to name is empty and known to
nobody (`Unopened`, so that replacing the file is the log's `Erase`), and a
command checked against the log is still admissible when it is saved
(`Admitted`, so that `Write` is the log's `Apply`). Writing through a client whose
file is no longer named, and everything else, is a stutter. The proofs rest on
`WorkerAssumption` and `BoundAssumption`: each thread has a process, the
placeholders are no threads or requests, and there is at least one file.

`CaseworkCallsProofs` and `EvidenceDeskProofs` are about the composition
(`CallsSpec`), for any number of callers, keys, sources, missions, anchors,
transactions, reports, plans, jobs, deliveries and restarts:

* `AnchorsStand`: `CallsSpec => AnchorStands`;
* `JobsBoundOnce`: `CallsSpec => []JobBoundOnce`;
* `ReadsWithinBudget`: `CallsSpec => []WithinBudget`;
* `EachAskedOnce`: `CallsSpec => []AskedOnce`;
* `RefreshesDisplace`: `CallsSpec => []RefreshDisplaces`;
* `EachDeliveredOnce`: `CallsSpec => []DeliveredOnce`;
* `ObligationsNeverFall`: `CallsSpec => []ObligationsStand`;
* `DecisionsRestOnEvidence`: `CallsSpec => DecidedOnEvidence`;
* `DeskTypeCorrect`: `CallsSpec => []TypeOK`;
* `DeskImplementsLog`: `CallsSpec => ImplementsEvidenceLog`.

`JobsBoundOnce` is inductive with the typing of the calls that carry an answer.
`AnchorsStand` has to know what a verification has seen when it records its answer,
five steps after its first: `AnchorInv` says of each step what the reads before it
established (`Looked`), of which that a transaction carries the plan and that the
height was reached can be relied on, since the chain never gets lower and what a
transaction carries is fixed, while its block may have been reorganized away. Only
the verifications look (`OnlyVerifiersLook`), and the step that records looks at the
anchor again. The desk's are proved in two halves. Five kinds of
step tell something new: `Reserve`, `Fetch`, `FinishRecord`, `InvestigateClaim` and
`AskPlanner`. Every other step, of whatever service, is `Untold`: it starts no
read and no question and moves no head (`AllSteps`, which also carries
`CallsTyped`, the shape of every call). So each invariant is only shown against
the five:

* `AskedForGood`: who has yet to ask is one caller, whose reservation or claim is
  on record and has not been asked; what is not on record has not been asked.
* `HeadsNewest`: every head points at the last request reserved for its source,
  and what is being read was reserved. A late `FinishRecord` that is no longer the
  head leaves it alone.
* `ReservedFirst`: the budget bounds what was *reserved*, and only what was
  reserved is read, so a crash after a reservation costs budget and never exceeds
  it.
* `DeliveredOnRecord`: a delivery that opened a case is on record, so `Known`
  answers the next one.

`ObligationsStand` compares the ghost `demanded` with what the guard, the bundles
of reports and the server's policy ask for together, and restarts change the last of
them at will. `Thresholds` says that the guard and the bundles of filed reports
alone already hold the ghost, source by source and for the number of groups, and
that a threshold never comes without a policy nor a policy without a source, which
is what keeps the desk required when a server starts without one.
`ReportsOnRecord` says that a report is there exactly when its attempt is completed,
and that a mission about to hand one over finds its own. `DecidedOnEvidence`
combines that (`DeskInv`) with `HeadsNewest` and `ReadsTyped`: a head tells what the
last request reserved for its source tells, and a receipt was read before now, so
the receipts `validate_report` looks at *are* the newest ones, unexpired ones are
unexpired by the real clock, and the obligations it compares them with are no less
than the most ever demanded.

`DeskImplementsLog` maps every step of the composition, of whatever service, to one
step of `EvidenceLog` or to none. `Reserve`, `ReserveHit`, `Fetch`, `FinishRecord`,
`InvestigateClaim`, `AskPlanner`, `InvestigateCommit`, `Resolve` and `Reopen` are one
step of it each; every other step (`Unseen`) leaves all of it alone but the clock,
and is a `Tick` of the log or a stutter (`LogStutters`). What an action of the log demands, and the desk only checked before it gave
the lock up, is in `LogInv`: `UnderWay` (a read under way is of a request still
pending, which nobody else reads; what is about to be recorded was asked for; who
asks the planner saw the case open), `AnswersAsked` (a completed attempt was asked),
`HeadsReal` (a source for which something was reserved has a head), with `AskedForGood`, and
`DeskInv`, for the reports that are closed on and the budget. That a report filed
keeps its basis (`BasesStand`) and that a basis holds what its sources are known by
at that moment (`BasisSeen`) make filing and closing steps of the log.

They rest on `DeskConstants` (finitely many keys, `Nothing` no key, mission, head or
transaction, keys of collections and of investigations apart, each command about a known source, missions of at least one
step, policies that require some source and at least one group, positive bounds),
`AnchorConstants`, `ReviewConstants` and `IngressConstants`.

`AgentRunsProofs` is about v1 (`AgentRuns!Spec`, which has every action of
`MemoryGuard`), for any observations, intents, plans, transactions, runs and
configurations, under `GuardConstants` and `AgentConstants` (bounds are numbers,
observations are of a known kind, a goal names a run, `Nothing` is no value).
For any number of servers:

* `RunsKeepTheirDecision`: `Spec => RunKeepsDecision`;
* `OnlyTrustedSourcesDecide`: `Spec => []AuthorityIsTrusted`;
* `DecisionsCanBeReplayed`: `Spec => []DecisionsFollowPolicy`, every decision on
  record is what the policy says of the memory it names, at the time it was made;
* `FinalsAreSupported`: `Spec => []FinalsSupported`, no READY decision is finalized
  locally, only a READY one fails, and what is verified has its transaction on the
  chain with its own root.

The first needs `ServersInv`: the types of what calls, requests and runs hold
(`GuardTyped`, `AgentTyped`), that every number of a decision names one that was
saved (`GuardPointing`, `AgentPointing`), that a request's module call is at a step
the request can be waiting for (`Coupled`), and `Claimed`: a request past its claim
holds it, a new run is still absent from the ledger then, a resumed one present.
The kernel drops a dead process's `flock`, so `Claimed` survives crashes, and two
requests past the claim of one run are one request. The second needs `Authority`,
the same of drafts not yet saved. The last two share `RecordInv`, which says the
same of the draft or the result a call is about to save (`CallHolds`): a second
server may overtake it, but cannot make it false, since decisions are only added
and an anchored transaction stays anchored. For one server (`OneProcess`, a hypothesis of
each theorem):

* `ReceiptsAreKept`: `Spec => []ReceiptsKept`;
* `DenialsAreRecalled`: `Spec => DenialRecalled`;
* `ReadyFinalsRestOnMemory`: `Spec => ReadyRestsOnMemory`;
* `TransactionsAreKept`: `Spec => OneTransaction`;
* `RunAnchorsAreBacked`: `Spec => []RunAnchorBacked`;
* `AgentTypeCorrect`: `Spec => []TypeOK`;
* `ServerImplementsLedger`: `Spec => ImplementsLedger`.

With two servers the first is false (section 2), and the others lose their ground
with it: nothing keeps a second process from writing between a read and the write
that follows. With one, the steps between are its own, and the invariants say what
they may rely on. `MemoryInv`: what a commit has seen, and what a draft is made
from, is still the memory, and what is about to become an entity is in the journal.
`FinalsInv`: the finalization about to be asked for or saved has no rival
transaction on record and no terminal state. `AnchorInv`: a run's anchor state is
backed by the ledger of finalizations, and so is the answer a resumed run is about to
copy. `WithinBound`: room was left for each draft under way. The refinement rests on
`ServersInv`, `MemoryInv`, `FinalsInv` and `RecordInv`: the write of the entity is the ledger's `Observe`, since
`MemoryInv` says no report with its key came since it was looked for, the save of a
draft its `Decide`, the save of a finalization its `Plan` or `Attach`, and each step
of a run or a claim a stutter.

What is only model-checked: `LocksComeFree` and `RequestsAnswered`, which are
liveness. Every other property of a passing run is a theorem. The two findings,
`ServesNamedFile` and `SavedRunsLoad`, are false, and TLC shows how.

## 5. Plan

Done: the modules of section 2 with the theorems of section 4, which state every
safety property the runs check and each of the three refinements. The store, the
desk and v1 implement an abstract specification each; an anchor, a bound job and a
delivery are single registers, and `AnchorStands`, `JobBoundOnce` and
`DeliveredOnce` are already what they promise. What is left is to put `Casework` on
`WorkspaceStore`, so that its theorems become theorems about threads and processes;
today the two meet only in this argument: `WorkspaceStore` implements a log of
commands, and `Casework` takes a command as one step.

## 6. Not modelled

* Connectors' requests and the parsing of answers, HTTP routing and request
  limits, web pages, operator scripts, recorded evidence, deployments: input,
  output and text. What connectors, chain, partner and model may *answer* is in
  the modules that ask.
* The contracts' storage: nothing in `src/src` reads it; it appears as a mined
  transaction that carries a plan or does not.
* `quarantine_note`, which changes no authority; read-only transactions
  (overview, replay, health), which save nothing; the release and demonstration
  endpoints.
* The cryptography behind digests, tokens and HMACs: digests are equality of what
  they cover, and an unauthenticated delivery is refused before any state.
* A database path that names no file, and the identity check of the v1 memory
  client at start-up.
* Liveness of the desk's retries: the code gives up after a bounded number of
  attempts by design, so there is nothing that must eventually happen.

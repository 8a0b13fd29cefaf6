# rolo: a TLA+ model of its lifecycle core

rolo adapts a robot's software to a canonical operation catalogue (Adapt), diagnoses it
(Diagnose) and verifies it (Verify). All of its state is files: an artifact root (evidence,
runs, gates, handoffs), an output root (adapter releases and the `current` index), a job root
and a configuration root. No database and no daemon owns that state. Every CLI call, API worker
thread, MCP server and agent process reads and replaces files itself, protected by three
devices: a lock file beside the target, atomic replacement of single files, and SHA-256 digests
that bind one artifact to the next.

The interesting questions are therefore about steps of several processes between those file
operations: what one of them read and another has replaced since, what a process that dies or
fails half-way leaves behind, and whether a lock file excludes. This directory models that core
in TLA+, checks it with TLC on small instances and proves its safety properties with TLAPS for
every value of the constants. Source paths below are relative to `src/rolo` of the repository unless they
begin with `docs/` or `tests/`.

## 1. Inventory

The components that keep state or decide what state is trusted. `PROJECT.json` lists every
part of the repository with its status, and the hazards that the models answer, each with its line;
the others are at the end of section 3.

| Component | State | Operations | What makes it correct | Module |
|---|---|---|---|---|
| Interprocess lock `core/persistence.py` | `.<name>.lock` files and their mtime | `interprocess_lock`: create with O_EXCL, collide, judge age, break, time out, release | writers exclude each other, the wait is bounded, a dead holder does not block for ever | FileLock, WriterLock |
| Promotion `stages/adapt/conformance.py`, `adapter_runtime.py` | gate, release directory, immutable handoff, Adapt latest index, runtime index | `promote_run`, `publish_release`, `activate_release`, compensation, `load_current_release` | both indexes name complete gated releases; all or nothing; a rejected run is never served | ReleasePromotion |
| Stage runs `stages/agent_runner.py` | `run.json`, authorization requests, execution lock | `run` (propose, resume, start directly), `cancel_stage_run`, `heartbeat_stage_run`, `recover_stale_stage_runs`, `archive_expired_authorization_requests` | approvals are spent once, one agent per stage and robot, finished runs stay finished, a run ends | StageAgentRun |
| Handoffs `stages/handoffs.py`, `stages/downstream.py` | run directories, `diagnose/<robot>/latest`, `verify/<robot>/latest` | plan, input check, commit, validate | what readers accept stays accepted; evidence is about what it says | StageHandoffs |
| Jobs and companion bootstrap `jobs.py`, `targets/bootstrap.py` | job files and checkpoints; companion, uploads and backups on an SSH host | `run_bootstrap_job`, `execute_bootstrap` | reports about the target are true, a done bootstrap is not repeated, jobs end | CompanionBootstrap |
| Invocation `adapter_runtime.py`, `invocation_policy.py`, `adapter_runner.py` | audit log, leases, adapter processes | `invoke_adapter`, `authorize_invocation`, `append_audit`, `BoundedAdapterRunner.run` | every adapter run is recorded beforehand, the log is true, no adapter starts without its lease, the call ends | AdapterInvocation |
| Discovery agents `stages/adapt/heuristic_discovery.py`, `proposal_orchestration.py` | frozen evidence and its fingerprint, a pool of agent sessions, the proposal bundle | `HeuristicDiscoveryOrchestrator.run`, `DiscoverySkillRunner.run`, `_propose_with_deadline`, `ProposalValidator.validate` | opinions are taken whole or not at all, about the evidence they were asked on; no agent outlives its attempt; discovery ends | HeuristicDiscovery, AgentAdvice |
| Target evidence collectors `stages/adapt/target_evidence.py` | deployment (the pin), collector state, secret, transition records | `ensure_local_deployment`, `refresh_local_deployment`, `stage_collector_rotation`, `reenroll_deployment`, `collect_target_evidence`, `verify_evidence_bundle` | a pin changes hands only on record and stays usable; evidence is only taken from what was pinned | TargetEvidence, CollectorPin |
| Tool Gateway sessions `stages/adapt/tool_gateway.py`, `stages/downstream_tools.py`, `stages/verify/acceptance.py` | session table, call and time budgets, a lock per session, session audit | `open_session`, `list_tools`, `invoke`, `close_session`, `DownstreamToolConsumer`, `run_verification_plan` | one invocation at a time within its budgets, results on record, denials true, a PASS only for whole results | ToolGateway |
| Native tools of an Adapt agent `agent_tools/*`, `stages/adapt/executor.py` | session counters and results, artifacts, broker thread and socket, agent process | `execute`, `NativeToolSession.invoke`, `NativeToolBroker`, `evaluate_native_tool_canary_gate` | the summary is the whole of what was recorded, and backed; the gate is true; the run ends | NativeToolRun |
| Publications of discovery, enrollment and artifact summaries | pairs of files without a common lock | publish, register | the pair agrees | not modelled |
| Capability provider host `capabilities/host.py` | thread pool, provider states | start, call with timeout, stop | a slow provider does not starve the others | not modelled |
| Interfaces (`cli.py`, `api.py`, `mcp_server.py`, `agentd.py`, ...) | none of their own | call the operations above | | seen as any number of callers |
| Discovery analysis, wiki, registry, read models, doctor, exports | none that outlives the call | pure functions of files | unit tests reach it | not modelled |

How they interact:

    discovery --> Adapt proposal run --> promote_run --> Adapt latest index --> Diagnose --> Verify
                                             |                                    |           |
                                             +--> runtime index `current`         StageAgentRun: one
                                                        |                         approved agent at a
    invoke_adapter <---- load_current_release ----------+                         time; StageHandoffs:
        |                                                                         what it publishes
        +--> audit log, adapter process

Every arrow is a file that one process writes and another reads later. `interprocess_lock`
stands behind each arrow that has a lock: `promotion` (wait 30 s, stale after 120 s), the
`.stage-execution` lock (no wait, stale after 3600 s), the lock of the audit log and of each
JSON file (wait 10 s, stale after 120 s).

Hard behaviours, and where the code is exposed to them:

- *Steps of several processes.* Two contenders that break one stale lock; an approval validated
  twice before either takes its lock; a promotion between an agent's plan and its commit; two
  bootstraps of one target; two first enrollments, or two replacements, of one collector.
- *State read early and used late.* The index bytes a compensation restores, the request
  validated before its lock, the age of a run's lease, the discovery a run was adapted from, the
  length of a quiescence lease.
- *Failures half-way.* Compensation that raises, a write that fails after `os.replace`, a torn
  audit record, a lost reply of a remote command, a process that dies between two index writes.
- *Timeouts.* A section, a promotion or an agent that outlives the age at which others break its
  lock; a remote command that runs after its client gave up; mapping agents that hang, or answer
  while their attempt is being abandoned for a retry or for the fallback; clients that wait 15 s for
  a tool that may take 30, and a broker that waits two for its own thread.
- *What must end.* The wait for a lock, a RUNNING run, an open job, an invocation, a discovery
  whose agents do not answer, a verification plan, an Adapt run whose agent has ended.

## 2. Modules

One module per component, each with an `MC_..` module that only adds the symmetry sets used by the
configurations, and theorems in a `..Proofs` module. Two of these hold the theorems of two components
each, those of a protocol and of what is done under it: PublicationProofs of the lock file and the
promotions, StageProofs of a stage's runs and its handoffs. They extend both modules, whose names are
disjoint for that reason (`LockFileSpec` and `Spec`, `HandoffSpec` and `Spec`).

| Module | Models | Theorems in |
|---|---|---|
| WriterLock | the abstract promise "serialize writers": ask, enter alone, leave, give up; after a fault, lose the lock | |
| FileLock | the lock file, with each system call an action and relative time; implements WriterLock | PublicationProofs |
| ReleasePromotion | any number of promotions of one robot, discoveries, crashes, failing writes and compensations | PublicationProofs |
| StageAgentRun | calls of `StageAgentRunner.run` and all other writers of `run.json` and requests, for one stage of one robot | StageProofs |
| StageHandoffs | attempts of Diagnose and Verify that plan, work and commit, while promotions move the adapter | StageProofs |
| CompanionBootstrap | calls of `run_bootstrap_job` against a shared SSH target that may run commands late | CompanionBootstrapProofs |
| AdapterInvocation | calls of `invoke_adapter` up to their last audit record, with time, torn writes and deaths | AdapterInvocationProofs |
| AgentAdvice | the abstract promise of the discovery agents: observe, advise once as a whole, conclude | |
| HeuristicDiscovery | one discovery's probe rounds and mapping pool, thread by thread; implements AgentAdvice | HeuristicDiscoveryProofs |
| CollectorPin | the abstract promise of pinning a collector: enroll, authorize, rotate, ask, accept | |
| TargetEvidence | calls that make, replace and use a target's local collector, write by write; implements CollectorPin | TargetEvidenceProofs |
| ToolGateway | one gateway session shared by a verification plan and an agent, call by call | ToolGatewayProofs |
| NativeToolRun | one Adapt run with native tools: executor, broker thread, clients, agent process | NativeToolProofs |

The models are composed by interface, not by INSTANCE: where a module uses another component, it
takes what that component's module establishes and what it does not. ReleasePromotion and
StageAgentRun have the lock files they need as FileLock has its own: the promotion lock with what a
contender can do to a live owner's file as one step (`StealLock`), the execution lock with judging and
unlinking as two (`JudgeStale`, `BreakLock`). WriterLock is what all three promise: writers enter one at
a time, and only after a fault can one of them lose its lock without noticing. Three theorems make this
exact and need no condition: LockImplements, PromotionLockImplements and ExecutionLockImplements say
that the lock file, the promotions around theirs and the runs of a stage around theirs implement
WriterLock, whatever dies, overstays or cannot be written. StageHandoffs takes
attempts of a stage that exclude each other (`OneActiveExecutor` of StageAgentRun), and an Adapt
index that moves between complete handoffs (`IndexesNameReleases` of ReleasePromotion).
AdapterInvocation takes a release that is loaded or refused (`RejectedNeverServed`).

Definitions whose name ends in an underscore suffix (`Stale_Reached`, `Previous_Absent`, ...) are
slips: plausible mistakes at the spot above which they stand. They are no part of any
specification. Replacing the definition after them by the slip makes TLC refute the property
that `PROJECT.json` pairs with it under "mutants", which shows that the property depends on it.

### FileLock and WriterLock

`place[p]` is the position in `interprocess_lock`: `waiting` before `os.open(O_CREAT|O_EXCL)`,
`stat` between FileExistsError and the verdict on the mtime, `breaking` between that verdict and
`unlink`, `holding` inside the section. `Create`, `Collide`, `Stat`, `Break` and `Release` are
one system call each, because the path may come to name another file between any two of them.
`CreateFails` is the write or the fsync of the pid raising after the O_EXCL create: the contender leaves
with the error and its file stays, though nobody has died. `Die` leaves the file behind, too. Time is
relative: `age` counts ticks since the file's creation and saturates one past `StaleAfter`; `left`
counts a waiter's deadline down; `held` is history and bounds a section by `MaxHold`, which may exceed
`StaleAfter`, as nothing in the code keeps it below. `mishaps` is history: the three things ("death",
"error", "overrun") after which a file can be unlinked under its owner.

In WriterLock `lost` are the writers inside that keep nobody out any more, and `fault` says whether
anything has gone wrong. `Lose` takes the fault; `Overstay` is a fault that nobody has noticed. A writer
that leaves without its lock may take the next one's with it, as `unlink` is of a path.

### ReleasePromotion

`pc[r]` walks through `_promote_run_locked`; one action for every atomic file operation: the two
index reads, the gate write, the staging copy, the rename that publishes the release, the
handoff, the Adapt index, `activate_release`, the confirmation. `Raise` leaves the try block from
anywhere after the two reads, and with it the staging directory that `publish_release` tries to
remove and may leave; `RestoreRuntime`, `RestoreAdapt`, `RemoveRelease`, `FailGate` are the except
clause in its order. `RemovalFails` is `rmtree(ignore_errors=True)` that leaves the release or a part of
it and goes on; `UndoFails` is a compensation that raises itself and skips the rest. `activate_release`
is two steps, the freshness check (`Verify`) and the index write (`Activate`), each under the index
file's own lock only. `LockFails` is a lock file that cannot be written. `written[r]` holds the flags of
the except clause. `LateIndexError` is `atomic_write_text`
raising after `os.replace` (the directory fsync), so that the flag is not set. `Discover` moves
`latest`, the fingerprint `_verify_release_freshness` compares. `StealLock` is a promotion that
breaks the lock of one that is still inside. `faults` counts every kind of fault (crash, undo, steal,
late, leftover), which share one bound; discoveries have one of their own. A property that survives
neither a stolen lock nor a late error has `Orderly` as its premise.

### StageAgentRun

A run is named after the call that created it, and calls are numbered in the order in which they start
(`Starts`): a name for each call that nothing compares otherwise. `Propose` writes the request and
`WriteWaiting` the run; a client may find the request and resume it before that second write. `Resume`
validates a request before its lock and `Approve` again inside it; `Direct` needs none. `WriteRunning`,
`CheckSignal`, `Lock`, `AgentReturns`, `Judge`, `Accept`, `AgentFails`, `Unlock` and `WriteFinal` are
the rest of `run`. The execution lock is taken without waiting: a call creates the file (`Lock`), fails
to write it (`LockFails`) or judges the one that stands; a file judged stale (`JudgeStale`) is unlinked
in a step of its own (`BreakLock`), by which time the path may name another. `slow` are the runs that
take more than an hour. `Crash` is a caller that dies, or whose write outside the section raises, the
final one included: the two look alike in the files. `Cancel`, `Heartbeat`, `Suspect`
with `Recover` and `Archive` are the other writers of the same files: recovery reads the run and
its age outside the lock and only the status inside it, hence two actions. `Expire` and `Age` are
time passing.

### StageHandoffs

An attempt plans on the canonical inputs (`Plan`), compares their digests once (`Start`), lets
the agent work and commits: `CheckSource`, two files, `Bind` (digests taken), `Validate` of its
own handoff, `Publish` to `latest/`, and two validations of what `latest/` holds (`Confirm`). A
digest is modelled by the identity of what it covers: `source[a]` is what a's handoff binds, and
`file[d][k]` which attempt wrote file k of run directory d, so that a handoff whose files were
rewritten no longer validates. `PlanNamed` are the attempts of executors that name their run
directory after the plan's digest (the Codex and fake executors), where a second attempt at a
plan writes over the first. `Promote` moves the Adapt index, which readers see at once; `Settle` is the
end of that promotion, and `RollBack` its compensation, which puts `fallback` back: the adapter that
was visible in between is `withdrawn`.

### CompanionBootstrap

One action per remote command with three results as the client sees them: `Succeeds`, `Fails`
(which may have had its effect all the same) and, with `Stop`, a client that is gone while the
command waits in `late` to run at any later time. `uploading` is a copy in progress, whose torn
prefix another call may install. The job's writes (`Create`, `Start`, `SaveResult`, `Record`,
`RecordFailure`) are separate because a call may stop between them. `Obscure` makes a job file
unreadable, and `Find` passes over such files as `find_completed_bootstrap` does. `before` and `disturbed` are
history variables: what the companion was when the call backed it up, and which calls have had
the target changed under them.

### AdapterInvocation

A call decides the policy domains of its kind of operation in the code's order, appends a record
for each, appends STARTED, starts the adapter (`Launch`), writes it the request (`Fed`) and only then
gives it its deadline, and appends how it ended. A request longer than the pipe holds (`Long`) waits in
`feeding` for an adapter that need not read it. Each append may succeed, raise before anything is written, raise after everything is (fsync), or stop half-way.
A torn line has no newline, so the next record of any call is glued to it and is lost for every
reader although that append succeeded: `glued[c]`. `Tick` ages leases; a decision can take any
time, an append lasts at most `AppendTime`, a start or a kill at most `Overhead`. A tick stands for
five seconds, in which all the constants of the code are whole numbers.

### HeuristicDiscovery and AgentAdvice

`phase` is where the caller's thread stands. `Plan`, `RunProbe`, `SkipProbe`, `FailProbe` and
`EndRound` are the probe loop with its budgets: a round replaces the evidence (`report`), and
only its end computes the fingerprint (`print`) again. `Submit` hands one batch per operation to
the pool; `Start`, `Answer`, `Fail` and `Kill` are its threads. `Gather` is the caller's
`wait(...)` and the reading of the results, with or without the deadline passing in between;
`Shutdown` and `Join` are `shutdown(wait=True, cancel_futures=True)`. `Raise` is the exception
that decides between retry and fallback: which of several failed batches raises first is left
open, as it is by a set of futures. `Merge`, `Validate` and `Conclude` take the answers into the
bundle, the validated dispositions and the decisions. The refinement maps the abstract `basis`
to the evidence that `print` was computed from.

### TargetEvidence and CollectorPin

A collector is named after the call that made it; so are its files, except those of a first start
(`default`), which every start shares. `Look` is the first `load_deployment` of each command;
`CheckFiles`, `WriteSecret`, `WriteState`, `Configure` and `Pin` are a first start file by file;
`Ensure` is a later one. A refresh goes `WriteSecret`, `WriteState`, `Enroll`, `Record`,
`Replace`, and takes its files away when anything raises (`UndoRefresh`). A rotation is two
commands: staging ends after `WriteState`, and a re-enrollment presents a staged descriptor or
one of a collector that was pinned before. `Collect` signs with whatever the named state file
holds; `Verify` judges against the deployment the call has loaded. `pins` and `clash` are
history: what was ever pinned, and whether a first start overwrote a file of another.

### ToolGateway

A thread asks its `DownstreamToolConsumer` (`Ask`), the gateway admits, registers or authenticates
it, and `invoke` goes through its lock (`Lock`), the pins (`Bind`), the two budgets (`Charge`), the
Runtime (`Launch`, `Finish`), the audit (`Record`, `AuditFails`) and back (`Unlock`). `Bind` may find
the release, refuse the call or end in FAILED, when loading it raises. An append that raises leaves
nothing, all of its record or a torn line (`tail`), onto which the next record is glued: `hidden` are the
records of the log that no reader can parse. What is
returned and what is denied are decided where the code decides it: `Oversized` and `Unnoted` are the
two ways in which an adapter that ran yields no result. `PlannerAsks`, `PlannerTakes`, `Answer`,
`Interrupt` and `Conclude` are `run_verification_plan`; `Conclude` may also end without a report, when a
write raises ("unwritten") or the results with that of a failed close are more than the evidence may hold
("invalid", `MaxResults`). The agent is any other thread with the same session. `Promote` changes the release under the pins, `Tick` is time.

### NativeToolRun

`phase` is where the executor's thread stands, `server` where the broker's one thread stands,
`step` where an invocation inside the session's lock stands: the baseline call has the executor's
thread do it, every other the broker's. `RunTool`, `Keep`, `Audit` and `Drop` are `invoke` after its
refusals, where an append that raises (`AppendFails`) leaves nothing, all or a torn line as in
ToolGateway (`tail`, `hidden`); `End` gives the lock back and tells the caller, which `_handle` turns into an answer in
either case. `Accept`, `Read`, `Handle`, `Send` and `Leave` are `_serve`: only `_handle`
has an exception handler, so that a client that stalls or has gone may end the thread. `Join`
passes with the thread still in a tool, `Close` sets a flag without the lock, `Collect` needs the
lock. `held` is a descendant of the agent that holds its output pipes, which `AgentReturns` waits
for, except after the timeout of `subprocess.run`. `late` is the deadline of `--timeout`, which never
passes where none is set. `answered` is history.

## 3. Runs

The largest, `promotion_faults`, `stage_runs` and `native_run`, take two to three minutes with two
workers; the others finish in less.

| Run | Module | Distinct states | Asks |
|---|---|---|---|
| lock_protocol | MC_FileLock | 44,396 | do three contenders exclude each other until one dies, fails to write its file or overstays? does the protocol implement WriterLock through all that? does every wait end? |
| lock_double_break (violated) | MC_FileLock | about 4,200 | do they exclude each other after a death? |
| promotion_faults | MC_ReleasePromotion | 3,326,259 | what do the two indexes name at every step, through a crash, a failed compensation, a release that stays and a discovery? what is still served if a lock is stolen or a write fails after taking effect? |
| stage_runs | MC_StageAgentRun | 788,382 | approvals, exclusion, finished runs and the end of a run, with three calls and every other writer; do the runs and their lock file implement WriterLock? |
| stage_cancel_lost (violated) | MC_StageAgentRun | about 190 | does a persisted cancellation stay? |
| handoff_commits | MC_StageHandoffs | 1,879,736 | what readers accept, what an attempt confirms, which adapter a diagnosis binds, while promotions succeed and are rolled back |
| bootstrap_calls | MC_CompanionBootstrap | 293,220 | are reports true, is a success repeated, do jobs end? |
| invocation_audit | MC_AdapterInvocation | 252,848 | what the log says of adapter runs, under what lease they start, the end of a call |
| heuristic_advice | MC_HeuristicDiscovery | 579,744 | are opinions taken whole, from one attempt, about the evidence they were asked on? does an agent outlive its attempt? does the discovery end? |
| evidence_pins | MC_TargetEvidence | 93,609 | what can a target's pin become, is it still usable, whose evidence is accepted? |
| gateway_session | MC_ToolGateway | 775,862 | can threads of one session exceed its budgets or get results that are not on record? are denials true? what is a PASS worth? does the plan end? |
| native_run | MC_NativeToolRun | 2,041,258 | is the summary whole and backed, and the gate true, whatever was still running, failed or gave up? does the run end once its agent has? |

### What the passing runs show

The type invariants (that of ToolGateway apart), and `RejectedNeverLive`, `RuntimeMoves`,
`ApprovedBeforeExecution` and `ImplementsPromotionLock`, are theorems (section 4) that TLC confirmed on
these instances before they were proved; the runs do not repeat them.

- `lock_protocol`: `HoldersKeepOut` (until the first mishap writers exclude each other, and the file of
  whoever is inside stands), `ImplementsWriterLock` (the refinement, through every mishap; losing a
  race, judging an age and breaking are all waiting, unlinking another's file is its loss) and
  `WaitIsBounded`. The last has a premise: once processes stop asking anew. The retry after
  FileNotFoundError looks at no deadline, so a stream of newcomers can overtake a waiter for ever.
- `promotion_faults`: `IndexesNameReleases` (an index that exists names a complete release with a
  handoff, at every instant), `OutcomeIsWhole` (a returned handoff is live in both indexes; a
  failure restored both and removed its release, unless the removal itself failed silently) and
  `IndexesAgree` (while no process died and no compensation raised).
- The same run has `RejectedNeverServed`: with stolen locks and late write errors an index can name
  a rejected or removed run, but what `load_current_release` returns has a passed gate and a handoff,
  because it checks release and freshness itself. Its premise is that releases which were to be removed
  are gone, or that the indexes were restored before: one of the two protections is enough, and only a
  release that stays together with a stolen lock or a late error defeats both.
- `stage_runs`: `ApprovalSingleUse`; `OneActiveExecutor` (until a caller dies, a lock file cannot be
  written or a run takes more than an hour); `ImplementsExecutionLock` (what remains after that:
  WriterLock with its fault); `FinishedStays`, with one exemption: the proposer's own late write of
  WAITING_FOR_AUTH over a run that a client has resumed from the listed request (`ProposedLate`); and
  `RunningEnds`. All of this with one mishap of any kind and a cancellation at any point, expiry,
  archiving, heartbeats and recovery.
- `handoff_commits`: `AcceptedStays` (no refused, failed or crashed attempt takes away what
  readers accept, neither for the adapter that is current nor for the one a rollback would put back,
  except one that writes into the same run directory or was validated on an adapter that has been
  withdrawn since), `ConfirmsOwn` (the validation of `latest/` is of the attempt's own handoff) and
  `NeverOlder` (a diagnosis is followed by one of an older adapter only if the newer was withdrawn).
- `bootstrap_calls`: `RollbackRestores` and `SuccessIsTrue` for calls whose target nobody else
  changed; `NotRepeated` for successes whose record can be read; `JobsEnd`.
- `invocation_audit`: `RunsAreRecorded` (a reader misses at most one record for each torn write
  of what preceded adapter runs), `RecordsAreTrue` (one outcome of a call at most, a success only
  of a valid result, and whoever got a result can be shown its record), `StartsUnderLease` (no adapter
  of a quiescent operation starts after its lease, however long its two appends waited) and `CallsEnd`,
  which exempts a long request that its adapter never reads.
- `heuristic_advice`: `NoStrayWorker` (outside the pool's own phases no batch of any attempt
  waits or runs), `AdviceIsWhole` (an AGENT artifact holds the answer of every batch, all of the
  last attempt), `RunEnds`, and `ImplementsAdvice`: decisions are validated opinions on
  candidates under review, about the evidence of the fingerprint they were asked with, all
  together or none.
- `evidence_pins`: `PinsStand` (the credentials of every collector ever pinned stay what they
  were, so the deployment, and the copy a call has loaded, can always be used) and
  `ImplementsPin` (one first enrollment; a replacement only after a record of the transition from
  a collector that was pinned; evidence accepted only from the collector, and under the key, that
  was pinned when the call looked). The first has the premise that no first start has overwritten
  a file of another; the second holds through such a clash, except for "one".
- `gateway_session`: `OneInvocation` (one adapter of a session at a time), `WithinBudget`,
  `DeliveredIsAudited` (a result that was delivered is on record under an index of its own, and a reader
  misses at most one such record for each append that raised), `DenialIsTrue` (nothing recorded as
  denied has run, as long as no append failed), `PassIsEarned` (a PASS has whole results of every case,
  from a session nobody interrupted) and `PlanEnds` (in a report or an exception, unless the adapter of
  its own invocation never ends).
- `native_run`: `SummaryIsWhole` (nothing is recorded after the summary was taken, and it has every
  result a client was told of), `SummaryIsBacked` (artifact and audit record of every counted
  result; a reader misses at most one of these records for each write that raised), `GateIsTrue` (no
  cut, failed or unexplained timed-out result behind a PASS; the gate only compares two counts, and this
  needs that no tool of the catalog has both a network dependency and return codes that mean
  "unavailable") and `RunEnds` (once the agent and what it left are over, so is the run: no tool still
  running, stalled client or failed write holds it up).

### What the violated runs show

1. `lock_double_break`. Two contenders judge the same dead holder's file stale. The first
   unlinks it and creates its own; the second then unlinks that one and creates another: both are
   inside. Judging and unlinking are separate calls on a path (`core/persistence.py:46-50`). It takes
   no death either: a file whose write or fsync raised after the exclusive create does as well.
2. `stage_cancel_lost`. `run` writes RUNNING and its outcome over whatever `run.json` says, so a
   cancellation recorded in between is lost. A test is named
   `test_persistent_cancellation_cannot_be_overwritten_by_executor_completion`; it covers the
   window in which the code does look (tests/test_stage_agent_runner.py:319).

Disagreements with a document that have no run of their own:

- A process dies between the write of the Adapt index and `activate_release`; nothing reads the two
  back together, so they disagree until the next successful promotion, against the architecture's
  "transactionally updates both current indexes" (docs/architecture/ARCHITECTURE.md:98). Hence the
  premise `Undisturbed` of `IndexesAgree`.
- The digests of a task's inputs are compared before the agent works, and the commit binds whatever
  is canonical when it has finished (`stages/handoffs.py:240`), so `source` can differ from
  `planned`; `NeverOlder` says what remains true.
- `closed` is read before the gateway session's lock and not again inside, so an invocation that
  is past that check starts its adapter after CLOSE is on record (`stages/adapt/tool_gateway.py:397`);
  the docstring exempts what is in flight in the Runtime (`:265`).
- After the deadline only the agent's own process is killed, and the executor goes on reading until
  its pipes end, which a descendant may hold open (`stages/adapt/executor.py:827`); the guide offers
  `--timeout` for "a bounded deadline" (docs/archive/operations/ADAPT_DEVICE_HANDS_ON.md:62). Hence
  `held` in the premise of `RunEnds`.
- A result that exceeds the bytes left has an audit record only, and a call whose arguments the
  runner refuses has nothing, though both are counted as calls (`agent_tools/session.py:164`);
  neither reaches the summary or the gate. The document says that every call writes its artifact
  (docs/adapt/AGENT_NATIVE_TOOLS.md:17).
- A quiescence lease is accepted if it lasts 5 s longer than the adapter's deadline
  (`adapter_runtime.py:500`, `invocation_policy.py:833`), but two appends, each of which may wait ten
  seconds for the log's lock, come before the adapter starts; one that then runs to its deadline outlasts
  the lease. The contract has an operation "Apply one immutable calibration result under a robot
  execution-quiescence lease." (docs/OPERATION_CONTRACTS.md:789). What the code does keep is
  `StartsUnderLease`.
- A plan of 256 cases (`stages/verify/acceptance.py:93`) whose close fails has 257 results, and the
  evidence takes 256 (`:214`): its construction raises at `:538`, and no report exists of what was
  verified, where the docstring says "Execute bounded read-only cases and persist one tamper-evident
  evidence artifact." (`:440`). This is the outcome "invalid" of `Conclude`.

What else was met while modelling is recorded as hazards with their line, or as provisos of the
properties: a lock holder that outlasts
`stale_after_s`; a promotion that outlasts its lock, or a late fsync error (`OutcomeIsWhole` and
`RuntimeMoves` survive neither); a release that `rmtree(ignore_errors=True)` leaves; two agents after
3600 s; a live run recovered, or
one heartbeat ignored, because the age is not judged again inside the lock; a listed request
resumed before its `run.json` is written; a diagnosis published on an adapter that has been rolled back
since; an install whose
reply is lost, after which no rollback runs; an old success of another package returned for a
new one; a job left RUNNING by a remote timeout; a bootstrap repeated because the record of the first
cannot be read; an adapter that reads no request and so never gets its deadline; two first Adapt starts
at once, after which the pin can name a secret or a state
file that is gone; a replacement that goes on record as following a collector that another
replacement has displaced meanwhile; a second mapping attempt that times out, where the comment
at `stages/adapt/proposal_orchestration.py:1704` has the schema error stand; a re-plan that fails
after a probe round, where the summary still says AGENT_COMPLETED although only the full chain
should (docs/archive/plans/ADAPT_HEURISTIC_AGENT_REDESIGN_PLAN.md:623); a gateway record that says
DENIED of a call that ran, when the append that should have said ALLOWED raised; a record that a reader
cannot see because an append before it raised half-way; a session that
stays in the gateway's table because its consumer has been disabled; a broker whose only thread
ends with the first client that gives up, after which no tool call of the run is answered; a run
whose baseline call raises and which leaves no run.json.

Further hazards that the code has and that are neither in a model nor in `PROJECT.json`: a process
that dies between APPROVED and RUNNING leaves a run whose only request is spent
(`stages/agent_runner.py:675`); two calls with one idempotency key both start a run (`:637`); the
plan's digest of a bootstrap does not cover the package (`jobs.py:319`); a provider call that
timed out still has its effect (`capabilities/host.py:338`); an adapter goes on without a deadline
when rolo dies (`adapter_runner.py:263`); the first failure of any thread disables a gateway consumer
for good, its close included (`stages/downstream_tools.py:343`); a baseline call that raises leaves a
rollout decision and no run.json (`stages/adapt/executor.py:599`); a release is built from a discovery
that is no longer the latest when the pointer moves (`adapter_runtime.py:979`, which
`RuntimePointerMoves` answers); publications of two files (section 6).

### Bounds, and why they are enough

- FileLock: two contenders that judge one abandoned file and a third process that abandoned it, or
  that one of them robs: three processes show all of it. `StaleAfter = Timeout = 1` lets a deadline fall
  before, at and after the breaking age, and `MaxHold = 2` lets a section outlive it. Deaths and failing
  writes are not bounded. The violated run has sections that end in time, so that only the death counts.
- ReleasePromotion: three promotions (with symmetry) give one that is current, one that fails
  and one in between; two fingerprints make a run fresh or stale. One discovery, and two faults of any
  of the five kinds in any order: a single one, two of a kind, and every pair. No property is about a
  combination of three.
- StageAgentRun: three calls give a proposal and two clients that race to resume it, or two
  starts and a proposal; and an abandoned lock file with two calls that judge it. One mishap of any kind
  (a death, a failing write, a run of more than an hour), and one cancellation of either sort.
- StageHandoffs: two attempts per stage so that one can displace or rewrite the other's result;
  two adapters so that the index can move twice, and back; one executor with fresh names (`v2`), the
  others named after their plan.
- CompanionBootstrap: two calls, a working and a broken package; either call can bring either
  one, so that both races over one package and over two are there.
- AdapterInvocation: two calls of three kinds (no decision, two, three with a lease), one of which has
  a long request; one torn write and one death. In ticks of five seconds: `Limit = 5`, the margin of 5 s
  is 1, an append's wait of 10 s is 2, `Overhead = 1`, and `MaxLease = 7` is one longer than what
  `invoke_adapter` asks for.
- HeuristicDiscovery: two operations, so that one batch can answer while the other fails, hangs or
  is late; one and two threads, so that a batch can still be queued when the deadline passes; two
  probes and one round, so that a second plan meets the end of the budget and the failures theirs.
- TargetEvidence: three calls, so that two replacements can race over a collector a third one has
  pinned, two first starts can clash while a third call looks on, and a collector can be
  replaced and re-enrolled. Four calls are beyond five minutes; the theorems have any number.
- ToolGateway: a plan of two cases and one agent with one request, two calls and three bytes for
  results of one and two, so that the two threads compete for the last call and the last byte; the
  evidence has room for as many results as the plan has cases (`MaxResults = Cases`, which stands for the
  code's 256), so that a failed close is one too many; one promotion and one failing append; a life of two ticks, so that the call budget's time and the
  session's own can end before, during and after an invocation.
- NativeToolRun: two calls, of which the baseline takes one, so that the agent's can be the last;
  two requests of one client, so that one can be behind another that stalled, timed out or was
  refused (a second client adds only the order of the backlog); a tool that needs the network and
  one that does not; one write that raises.

Every bound is a CONSTANT named in its module. The theorems remove them.

`CHECK_DEADLOCK FALSE` stands in the configurations of systems that really stop: each promotion,
attempt, bootstrap or invocation is made once and ends.

### Fairness

- FileLock: a contender goes on looping, whichever way its system calls turn out, a section ends (the
  callers' duty; `MaxHold` stops the clock until it does) and time passes. Nobody has to ask, to die or
  to fail.
- StageAgentRun: as long as some caller's process can go on, one does (`Proceed`); its agent returns or
  fails. Nothing in `src/rolo` calls the recovery, the heartbeat or the archive, so they are not fair,
  and `RunningEnds` has to hold without them: hence its exception for callers that died.
- CompanionBootstrap: a call goes on (`Step`), as every remote command has a timeout. The
  timeout itself is `Stop`, which nothing obliges to happen.
- AdapterInvocation: `Advance` covers the waits that have a deadline in the code: a decision's
  provider, the log's lock, the runner's wait for its adapter; and the write of a request that fits the
  pipe. That an adapter exits by itself or reads a longer request (`Fed` of a call in `Long`) is never
  assumed; the runner kills it, once it has its deadline.
- HeuristicDiscovery: the caller's thread runs, time passes, a free thread takes a queued batch,
  and an agent past its deadline is killed (`run_bounded_codex_agent` owns the process group).
  That an agent ever answers is not assumed.
- ToolGateway: the planner's thread runs, and a thread inside the gateway goes on (`Answers`), its
  adapter excepted: `Finish` is not fair, as AdapterInvocation shows that a call may wait for its adapter
  for ever. An agent whose adapter never ends keeps the session's lock, but nobody waits for it, the
  others are denied; hence the one exemption of `PlanEnds`, the planner's own. Agents never have to ask.
- NativeToolRun: the executor's thread runs, or whoever is in the session and holds it up, where a tool
  ends (`subprocess.run` has the tool's timeout). The broker's thread need not serve anyone. Neither
  the agent nor a process it leaves behind has to end, and no deadline has to pass (by default there
  is none), hence the premise of `RunEnds`.
- ReleasePromotion, StageHandoffs and TargetEvidence promise nothing that must happen, and have no
  fairness.

## 4. Proofs

For each component an inductive invariant (`IInv`, or named after the component: `LockFileInv`,
`PromotionInv`, `RunInv`, `HandoffInv`, `GatewayInv`, `NativeInv`) is proved by `Init => IInv` and one
step per action for `IInv /\ [Next]_vars => IInv'`; the properties follow from it with PTL. TLC checked
each as an invariant before its proof.

| Module | Theorems (property) | Under |
|---|---|---|
| PublicationProofs | LockTypeCorrect (LockFileTypeOK), LockImplements (ImplementsWriterLock), WriterLockSerializes (`Serialized` of WriterLock), LockSerializes (HoldersKeepOut) | nothing (that there was no mishap is a premise of HoldersKeepOut) |
| | PromotionTypeCorrect (TypeOK), RejectedRunsNeverServed (RejectedNeverServed), PromotionLockImplements (ImplementsPromotionLock) | nothing |
| | IndexesStayInStep (IndexesAgree), IndexesAlwaysNameReleases, RejectedRunsNeverLive, PromotionAllOrNothing (OutcomeIsWhole), RuntimePointerMoves | nothing (`Orderly` is a premise of the properties) |
| StageProofs | StageTypeCorrect, ApprovalsSpentOnce, ApprovalsComeFirst, FinishedRunsStay (FinishedStays), ExecutionLockImplements (ImplementsExecutionLock) | nothing |
| | ExecutorsExclude (OneActiveExecutor) | nothing (`Untroubled` is a premise of the property) |
| | HandoffTypeCorrect, AttemptsConfirmOwn, DiagnosisNeverOlder, AcceptedHandoffsStay | nothing |
| CompanionBootstrapProofs | BootstrapTypeCorrect, RollbacksRestore, SuccessesAreTrue, BootstrapsNotRepeated | nothing |
| AdapterInvocationProofs | InvocationTypeCorrect, RunsAlwaysRecorded, RecordsAlwaysTrue, StartsAlwaysUnderLease (StartsUnderLease) | nothing (StartsUnderLease has as its premise that the lease covers two appends and the start: 35 s against 25, as the command line invokes with a timeout of 30 s and every quiescent operation of the catalogue may take at least that) |
| HeuristicDiscoveryProofs | HeuristicTypeCorrect, WorkersReaped (NoStrayWorker), AdviceWhole (AdviceIsWhole), AdviceImplemented (ImplementsAdvice) | nothing |
| TargetEvidenceProofs | EvidenceTypeCorrect, PinnedCredentialsStand (PinsStand), PinImplemented (ImplementsPin) | nothing (`Orderly` is the premise of PinsStand) |
| ToolGatewayProofs | GatewayTypeCorrect, InvocationsExclude (OneInvocation), BudgetsHold (WithinBudget), DeliveriesAudited (DeliveredIsAudited), DenialsAreTrue (DenialIsTrue), PassesAreEarned (PassIsEarned) | nothing |
| NativeToolProofs | NativeTypeCorrect, SummariesAreWhole (SummaryIsWhole), SummariesAreBacked (SummaryIsBacked), GatesAreTrue (GateIsTrue) | nothing |

Why each invariant needs more than the property:

- *FileLock.* `Create` looks at the file only, so the file must stand for a holder and for no one
  else; it keeps standing because its age is its holder's time inside, which never exceeds the age at
  which others break it, so nobody is ever in `breaking`: this is `Calm`, and it holds until the first
  mishap. What can be said after that is WriterLock, and its own invariant `Serialized` gives the
  exclusion of the property through the refinement.
- *ReleasePromotion.* `Exclusive`: the lock file stands for the one run inside. `Untouched`: a
  run that has not published has left nothing behind. `Progress`: what each phase has written,
  and that what is to be undone is exactly that. `Displaced`: the saved indexes are the ones an
  undo must put back, and they name sound releases. `InStep` carries the agreement of the two
  indexes, while undisturbed. All of this is `PromotionInv`, an invariant under `Orderly`: none of it
  survives a stolen lock. What does is `Serving`, which
  speaks of one run at a time: a complete release is still to be undone, so its gate has not
  been rewritten (`Gated`, as long as no release was left behind), and what the runtime index or a saved
  copy of it names has its handoff. The refinement takes even less: a run's standing with the promotion
  lock is read off `inside` and its phase, and whoever is inside without the lock file has lost it.
- *StageAgentRun.* `Kinds`: which calls can be where. `Spent`: whoever got past an approval finds
  the request APPROVED, and so nobody else can validate it inside its lock. `Within`: whoever is inside
  is on its way out of the section, which a crash leaves too. `Exclusive`: until the first mishap the
  lock file stands for the one inside, and nobody has judged it stale. `Started`: a run that has begun
  has no usable request left, so it cannot be started again.
- *StageHandoffs.* `ExclusiveAttempts`: one attempt of a stage executes at a time, and directories of
  different stages differ. `Owns`: an attempt's files are its own until it stops. `Indexed`: the adapter
  and what a rollback would make of it were never withdrawn. `Bindings`: a canonical handoff binds
  something published, and an adapter that was named before, or was withdrawn. `Fresh`: what is about to
  be published binds nothing older than what stands, unless that was withdrawn.
- *CompanionBootstrap.* `Locals`: what a call can believe where it stands. `Knows`: for an
  undisturbed call the backup is the companion it began with, and a success still holds.
  `Recorded`: the result is saved before the status, which is what makes `NotRepeated` survive a
  death in between.
- *AdapterInvocation.* `Placed`: position, domains still open and adapter fit together.
  `Recording`: what must be in the log by then. `Timing`: what is left of the lease up to the
  start of the adapter, as a sum of what has been spent since. `Hiding`: the records hidden by torn lines, plus a line now torn,
  are no more than the torn writes, which needs a cardinality argument over a growing set.
- *HeuristicDiscovery.* What each phase knows of the pool (who can be busy, whose answers are of
  this attempt), that the merged bundle is one attempt's answers or nothing, and that between two
  rounds the fingerprint is of the evidence that stands. The refinement then goes through three
  lemmas: the probe loop observes, `Merge` advises, `Conclude` concludes, all else stutters.
- *TargetEvidence.* `Fresh`: a collector that is still being made was never pinned, so nothing its
  call removes was. `Placed` and `Prepared`: collectors not made by a start have files of their
  own, holding what they pin, also while a call is about to pin them. `Known`: whatever a call
  asks or replaces was once pinned. `Owned`: without a clash the default files belong to the one
  start that writes them. Only the last needs the premise, so the refinement does without it.

- *ToolGateway.* `Standing`: what a call is where it stands. `Entry`: the lock says who is inside.
  `Charged`: no other index is as high as that of the call inside, and what has been delivered plus what
  it carries fits what has been charged; the sum of sizes is the history variable `received`, as a sum
  over a set would need induction. `Audited`: the record is there before the caller gets the result.
  `Denials`: an adapter that ran gets denied only after an append has raised. `OnCourse` and `Counted`
  tie the plan to all this: while every result is PASS, the whole results the planner was given are as
  many as its cases so far, but for one it has not looked at yet. `Hiding` bounds the records no reader
  can parse, and a line now torn, by the appends that raised. Most steps charge nothing and deliver
  nothing (`Quiet`), which is one lemma for ten of them.
- *NativeToolRun.* `Inside`: who can be in the session, the baseline call or the broker's thread.
  `Kept`: what is counted is in its artifact and the audit, and the call underway has a higher number.
  `Limits`: a result limited by a missing network failed or timed out, so that the gate's comparison of
  two counts (`CountsDoNotHide`, by cardinalities) cannot hide a time-out. `Told`: clients learn of
  recorded results only. `Sealed`: from the moment the executor sums up, nobody gets in. `Hiding` as in ToolGateway.

Assumptions on constants are the named ASSUMEs of the modules (`LockAssumption`,
`PromotionAssumption`, `CallsAreNumbered`, `RunnerAssumption`, `HandoffAssumption`, `BootstrapAssumption`,
`InvocationAssumption`, `HeuristicAssumption`, `EvidenceAssumption`, `GatewayAssumption`,
`NativeAssumption`): bounds are naturals, distinguished values are distinct, the calls of a stage are named by
naturals. The sets of processes, runs, calls and packages may be infinite.

Only model-checked: the liveness properties `WaitIsBounded`, `RunningEnds`, `JobsEnd`,
`CallsEnd`, `PlanEnds` and both `RunEnds`, since liveness under fairness is outside what the installed
provers reach. Every invariant, action property and refinement that a run checks is a theorem. Two more
things are out of the provers' reach: induction over data, which is why the bytes of a session are
summed by a variable and not by an operator, and facts about RECURSIVE operators (the modules declare
none).

## 5. Abstractions

- A SHA-256 digest is the identity of what it covers; JSON content, schemas and reports are one
  outcome (accepted or not) at the point where the code judges them.
- A single small write is atomic if it goes through `atomic_write_text`. What is appended to can tear:
  the audit log of the invocations (`core/persistence.py:113`), that of a gateway's sessions
  (`stages/adapt/tool_gateway.py:617`) and that of a native session (`core/persistence.py:113` again),
  each in its module. A process death does not tear a record.
- A SIGKILL of an adapter's process group is effective within `Overhead`. An adapter orphaned by
  the death of its caller lives on.
- The lifetime of an R3 capability is not judged again after the audit waits; the model has no
  clock for it. The active release is loaded once; one that is withdrawn between that load and
  the launch shows as `Unlaunched`.
- One robot, one stage, one target, one log per model: nothing in the code relates two of them,
  except the handoffs of Diagnose and Verify, which StageHandoffs has together.
- An agent's opinion is what validation will make of it; a mapping batch is one operation
  (`batch_operations` = 1; the default of 8 makes an element of `Operations` a group of eight);
  a plan names each probe at most once, and the slice has evidence.
- Of a collector and its files only identities are kept: allowlists, setup files, host
  fingerprints and the age of evidence are one refusal. A command of the target evidence reads
  the few files it compares in one step. An operator expects the collector that was pinned at
  some earlier moment.
- A tool's result is its size (ToolGateway) or its status and flags (NativeToolRun); whether it
  exceeds the bytes left is decided by the sizes in the one and open in the other. The four digests
  that a gateway session pins are the release they belong to.
- NativeToolRun is a run for which the rollout has selected the native tools. Every write of the
  session and of the executor may raise; the broker's bind and listen may not.
- StageAgentRun leaves out idempotency keys (no production caller passes one), the digests of
  inputs and outputs, and workspace collection.

## 6. Not modelled

What is modelled, in order of importance: the lock under everything; the promotion that decides
what runs on the robot; the approvals and exclusion of agents; the handoffs; the one component
that changes a remote host; the invocation with its audit log; the agents that advise a discovery;
the pin that says whose evidence counts; the tool sessions of Diagnose, Verify and Adapt agents.
The rest, and why:

- *Publications of two files* (discovery's `inputs.json` and `latest.json` at
  `stages/adapt/discovery.py:2861`, enrollment at `stages/adapt/enrollment.py:668`, artifact
  registration at `artifact_ingestion.py:164`). Nothing ties the two writes together: a death or
  another publisher between them leaves a pair that disagrees, and there is no protocol whose
  correctness could be checked. ReleasePromotion takes the latest discovery as one value.
- *Discovery analysis* (`active_discovery.py`, `semantic_mapping.py`, `host_introspection.py`,
  `dependencies.py`, `routes.py` and others, the greater part of the code): sequential
  classification of text that one process has collected. It has no state that another step could
  find half-changed; its correctness is in the tables and patterns, which tests with sample hosts
  reach better than an abstraction without the text.
- *Remote evidence over SSH* (`collect_over_ssh`): each attempt is a process of its own that
  answers one request, and its bundle passes the same `verify_evidence_bundle`. The enrollment of
  a collector by hand (`collector-init`, `configure`) makes the same files as a first start, at
  paths the operator chooses.
- *Episodes* (`episode_projection.py`, `episode_observation_bundles.py`, `episode_read_models.py`): the
  one caller in the source captures revision 1 of an Episode (`episode_capture.py:138`); nothing in
  `src/rolo` publishes a second revision or an observation bundle. Two captures under one id are
  decided by one record that is written once. The publication is read, compared and replaced
  without a lock (`episode_projection.py:562`), so a slow publisher of an old revision could put
  it back over a newer one, once there are callers for which that can happen.
- *Capability provider host*: only the conformance tool constructs it, for one provider and one
  caller, so that its races have no actors in this source.
- *Adapt executor outside NativeToolRun, review, acceptance, robot wiki*: a workspace that is prepared
  before the agent starts, files that are read when it is over, and judgements about files that
  nothing changes any more.
- *HTTP API, command line, MCP server, daemon, workbench, natural-language service*: they parse
  and print. Every state they change they change through the modelled operations, and the models
  have any number of callers for them.
- *Read models, registries, contracts, exports, doctor*: functions of files or of the package.
- *FileLock composed with its users.* The promise of a lock is taken by interface (section 2).
  Putting all of FileLock's system calls and its clock into ReleasePromotion would multiply its state
  space by every interleaving of the wait, and show what `StealLock` and PromotionLockImplements show
  already. StageAgentRun, whose lock is taken without waiting, has the two steps of judging and
  unlinking itself.

------------------------- MODULE HeuristicDiscovery -------------------------
(***************************************************************************)
(* The agents of a discovery: src/rolo/stages/adapt/                       *)
(* heuristic_discovery.py `HeuristicDiscoveryOrchestrator.run` with        *)
(* proposal_orchestration.py `DiscoverySkillRunner.run`,                   *)
(* `CodexOperationMappingProvider` and `ProposalValidator`, for one        *)
(* discovery.                                                              *)
(*                                                                         *)
(* First a planning agent may ask for read-only probes: a bounded number   *)
(* of rounds, each of which replaces the frozen evidence and then computes *)
(* its fingerprint again.  Then a mapping agent is asked for an opinion on *)
(* each operation that has evidence, one batch per operation               *)
(* (batch_operations = 1).  The batches run on a pool of input.parallelism *)
(* threads under one absolute deadline that both attempts share; the       *)
(* caller waits for all of them or for the deadline, reads the results     *)
(* that are there, shuts the pool down and waits for its threads.  A       *)
(* schema error is retried once; any other error, and a second schema      *)
(* error, ends in the deterministic fallback.                              *)
(*                                                                         *)
(* An agent's answer is its opinion as ProposalValidator will see it:      *)
(* INVALID stands for every kind of issue a proposal can have.  The        *)
(* artifacts of the run are written into its own directory, which nobody   *)
(* reads before the discovery is published: they are part of the step that *)
(* produces them.                                                          *)
(***************************************************************************)
EXTENDS Naturals, FiniteSets

CONSTANTS Operations,   \* operations of the target slice
          Probes,       \* definitions of read-only probes
          MaxRounds,    \* max_probe_rounds
          MaxFailures,  \* max_probe_failures
          MaxParallelism  \* most threads the mapping pool may be given

ASSUME HeuristicAssumption ==
  MaxRounds \in Nat /\ MaxFailures \in Nat \ {0} /\ MaxParallelism \in Nat \ {0}

VARIABLES input,        \* what the run is called with, see Inputs
          phase,        \* where the caller's thread stands
          round,        \* probe rounds so far
          todo,         \* probes of this round still to be dispatched
          report,       \* probes whose results the evidence holds
          print,        \* the evidence the target fingerprint was computed from
          failures,     \* probes that failed so far
          planned,      \* has a plan of the agent been accepted ("yes")?
          attempt,      \* mapping attempts so far
          clock,        \* whether the mapping deadline has passed ("expired")
          work,         \* work[o]: state of the batch of o
          answer,       \* answer[o]: what the agent said about o
          error,        \* the exception in flight
          bundle,       \* the merged proposal bundle
          decision,     \* decision[o]: disposition applied to o's candidate
          outcome       \* source of the validation artifact, status of the summary

planning == <<round, todo, report, print, failures, planned>>
mapping == <<attempt, work, answer, error, bundle>>
results == <<decision, outcome>>
vars == <<input, phase, planning, mapping, clock, results>>

Valid == {"ACCEPT", "DEFER", "REJECT"}
Opinions == Valid \cup {"none", "INVALID"}
NoOpinion == [o \in Operations |-> "none"]

Inputs == [mode : {"shadow", "enabled"},
           planner : {"absent", "configured"}, mapper : {"absent", "configured"},
           parallelism : 1..MaxParallelism,
           review : SUBSET Operations,              \* candidates under semantic review
           batches : SUBSET Operations \ {{}}]      \* operations with evidence

Pooling == {"waiting", "reaping", "joining"}
Phases == {"planning", "probing", "mapping", "merging", "validating", "concluding", "done"}
            \cup Pooling
Errors == {"schema", "timeout", "failure"}
Busy == {"queued", "running"}
Works == {"idle", "answered", "cancelled"} \cup Busy \cup Errors

TypeOK == /\ input \in Inputs
          /\ phase \in Phases
          /\ round \in 0..MaxRounds
          /\ todo \subseteq Probes
          /\ report \subseteq Probes
          /\ print \subseteq report
          /\ failures \in 0..MaxFailures
          /\ planned \in {"no", "yes"}
          /\ attempt \in 0..2
          /\ clock \in {"running", "expired"}
          /\ work \in [Operations -> Works]
          /\ answer \in [Operations -> Opinions]
          /\ error \in {"none", "unconfigured", "rejected"} \cup Errors
          /\ bundle \in [Operations -> Opinions]
          /\ decision \in [Operations -> Valid \cup {"none"}]
          /\ outcome \in [source : {"none", "AGENT", "DETERMINISTIC_FALLBACK"},
                          status : {"none", "AGENT_COMPLETED", "FALLBACK"}]

Init == /\ input \in Inputs
        /\ phase = "planning"
        /\ round = 0 /\ todo = {} /\ report = {} /\ print = {}
        /\ failures = 0 /\ planned = "no"
        /\ attempt = 0 /\ clock = "running"
        /\ work = [o \in Operations |-> "idle"]
        /\ answer = NoOpinion
        /\ error = "none"
        /\ bundle = NoOpinion
        /\ decision = NoOpinion
        /\ outcome = [source |-> "none", status |-> "none"]

-----------------------------------------------------------------------------
(* The probe loop *)

\* No planner, a planner that fails, or a plan that validation refuses.
PlanFallback == /\ phase = "planning"
                /\ phase' = "mapping"
                /\ UNCHANGED <<input, planning, mapping, clock, results>>

RoundsLeft == round < MaxRounds

\* A plan is accepted; only approved probes not executed before are dispatched.
Plan(approved) ==
  /\ phase = "planning" /\ input.planner = "configured"
  /\ planned' = "yes"
  /\ \/ /\ approved \subseteq report \/ ~RoundsLeft
        /\ phase' = "mapping"
        /\ UNCHANGED <<round, todo>>
     \/ /\ ~(approved \subseteq report) /\ RoundsLeft
        /\ phase' = "probing"
        /\ round' = round + 1
        /\ todo' = approved \ report
  /\ UNCHANGED <<input, report, print, failures, mapping, clock, results>>

\* The elapsed-time, byte or failure budget is exhausted: p is not dispatched.
SkipProbe(p) == /\ phase = "probing" /\ p \in todo
                /\ todo' = todo \ {p}
                /\ UNCHANGED <<input, phase, round, report, print, failures, planned, mapping,
                               clock, results>>

\* The handler's result, on copies of the evidence, is adopted.
RunProbe(p) == /\ phase = "probing" /\ p \in todo /\ failures < MaxFailures
               /\ todo' = todo \ {p}
               /\ report' = report \cup {p}
               /\ UNCHANGED <<input, phase, round, print, failures, planned, mapping, clock,
                              results>>

\* The handler fails, or its result is over budget and is dropped.
FailProbe(p) == /\ phase = "probing" /\ p \in todo /\ failures < MaxFailures
                /\ todo' = todo \ {p}
                /\ failures' = failures + 1
                /\ UNCHANGED <<input, phase, round, report, print, planned, mapping, clock,
                               results>>

\* A slip: the fingerprint of the evidence the run began with is kept.
Fingerprint_Stale == print
Fingerprint == report

\* A round that produced a snapshot is followed by a plan on the new hashes.
EndRound == /\ phase = "probing" /\ todo = {}
            /\ \/ report = print /\ phase' = "mapping" /\ UNCHANGED print
               \/ report # print /\ phase' = "planning" /\ print' = Fingerprint
            /\ UNCHANGED <<input, round, todo, report, failures, planned, mapping, clock,
                           results>>

-----------------------------------------------------------------------------
(* One mapping attempt: the pool *)

\* What becomes of exception e: a schema error of the first attempt is retried.
Raise(e) == IF e = "schema" /\ attempt < 2
            THEN phase' = "mapping" /\ error' = "none"
            ELSE phase' = "concluding" /\ error' = e

\* No provider; the deadline is over; the skills, the CLI or the preflight fail.
Refuse == /\ phase = "mapping"
          /\ error' = IF input.mapper = "absent" THEN "unconfigured"
                      ELSE IF clock = "expired" THEN "timeout" ELSE "failure"
          /\ phase' = "concluding"
          /\ UNCHANGED <<input, planning, attempt, work, answer, bundle, clock, results>>

\* Every batch is submitted to the pool.
Submit == /\ phase = "mapping" /\ input.mapper = "configured" /\ clock = "running"
          /\ phase' = "waiting"
          /\ attempt' = attempt + 1
          /\ work' = [o \in Operations |-> IF o \in input.batches THEN "queued" ELSE "idle"]
          /\ answer' = NoOpinion
          /\ UNCHANGED <<input, planning, error, bundle, clock, results>>

\* The absolute deadline passes.
Expire == /\ phase \notin {"planning", "probing", "done"} /\ clock = "running"
          /\ clock' = "expired"
          /\ UNCHANGED <<input, phase, planning, mapping, results>>

\* A thread of the pool takes the batch; past the deadline it starts no agent.
Start(o) ==
  /\ work[o] = "queued"
  /\ Cardinality({b \in Operations : work[b] = "running"}) < input.parallelism
  /\ work' = [work EXCEPT ![o] = IF clock = "running" THEN "running" ELSE "timeout"]
  /\ UNCHANGED <<input, phase, planning, attempt, answer, error, bundle, clock, results>>

\* The agent process ends by itself and its group is killed; its message is used.
Answer(o, v) ==
  /\ work[o] = "running"
  /\ work' = [work EXCEPT ![o] = "answered"]
  /\ answer' = [answer EXCEPT ![o] = v]
  /\ UNCHANGED <<input, phase, planning, attempt, error, bundle, clock, results>>

\* Exit code, size limits, a message missing, malformed or outside the slice.
Fail(o) ==
  /\ work[o] = "running"
  /\ \E e \in {"schema", "failure"} : work' = [work EXCEPT ![o] = e]
  /\ UNCHANGED <<input, phase, planning, attempt, answer, error, bundle, clock, results>>

\* A slip: the helper never looks at its deadline.
Overdue_Never == clock = "never"
Overdue == clock = "expired"

\* run_bounded_codex_agent kills the process group at the deadline.
Kill(o) ==
  /\ work[o] = "running" /\ Overdue
  /\ work' = [work EXCEPT ![o] = "timeout"]
  /\ UNCHANGED <<input, phase, planning, attempt, answer, error, bundle, clock, results>>

Returned == {o \in input.batches : work[o] \notin Busy}
Lost == {o \in Returned : work[o] # "answered"}

\* A slip: the batches that answered in time are thought to be all of them.
Complete_Some == Returned # {}
Complete == Returned = input.batches

\* A single batch runs in the caller's thread, which has no timeout of its own.
Pooled == Cardinality(input.batches) > 1

(***************************************************************************)
(* wait() returns: all batches have, or the deadline has passed.  The      *)
(* results come as a set, so any of the failed ones may raise first; the   *)
(* deadline itself raises before the results are read, or after.           *)
(***************************************************************************)
Gather == /\ phase = "waiting"
          /\ Returned = input.batches \/ (Pooled /\ clock = "expired")
          /\ phase' = "reaping"
          /\ \/ \E o \in Lost : error' = work[o]
             \/ Lost = {} /\ Complete /\ error' = "none"
             \/ Pooled /\ clock = "expired" /\ error' = "timeout"
          /\ UNCHANGED <<input, planning, attempt, work, answer, bundle, clock, results>>

\* executor.shutdown(cancel_futures=True)
Shutdown ==
  /\ phase = "reaping"
  /\ phase' = "joining"
  /\ work' = [o \in Operations |-> IF work[o] = "queued" THEN "cancelled" ELSE work[o]]
  /\ UNCHANGED <<input, planning, attempt, answer, error, bundle, clock, results>>

\* A slip: shutdown(wait=False).
Reaped_NotWaited == phase = "joining"
Reaped == \A o \in Operations : work[o] # "running"

\* ... and wait=True: the attempt ends when its threads have.
Join == /\ phase = "joining"
        /\ Reaped
        /\ \/ error = "none" /\ phase' = "merging" /\ UNCHANGED error
           \/ error # "none" /\ Raise(error)
        /\ UNCHANGED <<input, planning, attempt, work, answer, bundle, clock, results>>

-----------------------------------------------------------------------------
(* Validation, fallback and application *)

Merge == /\ phase = "merging"
         /\ phase' = "validating"
         /\ bundle' = [o \in Operations |-> IF work[o] = "answered" THEN answer[o] ELSE "none"]
         /\ UNCHANGED <<input, planning, attempt, work, answer, error, clock, results>>

\* The notes of all batches together exceed the schema's limit.
MergeFails == /\ phase = "merging"
              /\ Raise("schema")
              /\ UNCHANGED <<input, planning, attempt, work, answer, bundle, clock, results>>

\* ProposalBundleRejected: identity, provenance or registry do not match.
Validate == /\ phase = "validating"
            /\ phase' = "concluding"
            /\ error' \in {"none", "rejected"}
            /\ UNCHANGED <<input, planning, attempt, work, answer, bundle, clock, results>>

Disposed == {o \in input.review : bundle[o] \in Valid}

Candidates == {o \in Operations : bundle[o] = "ACCEPT"}

\* Whether the agent's artifact stands; otherwise it is the fallback.
Usable == error = "none" /\ Disposed \cup Candidates # {}

\* Artifacts and summary are written; dispositions are applied when enabled.
Conclude ==
  /\ phase = "concluding"
  /\ phase' = "done"
  /\ decision' = [o \in Operations |->
                    IF input.mode = "enabled" /\ Usable /\ o \in Disposed THEN bundle[o]
                    ELSE "none"]
  /\ outcome' = [source |-> IF Usable THEN "AGENT" ELSE "DETERMINISTIC_FALLBACK",
                 status |-> IF Usable /\ planned = "yes" THEN "AGENT_COMPLETED" ELSE "FALLBACK"]
  /\ UNCHANGED <<input, planning, mapping, clock>>

-----------------------------------------------------------------------------
Caller == \/ PlanFallback \/ (\E P \in SUBSET Probes : Plan(P)) \/ EndRound
          \/ (\E p \in Probes : SkipProbe(p) \/ RunProbe(p) \/ FailProbe(p))
          \/ Refuse \/ Submit \/ Gather \/ Shutdown \/ Join \/ Merge \/ MergeFails
          \/ Validate \/ Conclude

Thread(o) == Start(o) \/ Kill(o) \/ Fail(o) \/ (\E v \in Opinions : Answer(o, v))

Next == Caller \/ Expire \/ (\E o \in Operations : Thread(o))

Spec == Init /\ [][Next]_vars

(***************************************************************************)
(* The caller's thread runs (planner and probes have timeouts of their     *)
(* own), time passes, a free thread takes a queued batch, and an agent     *)
(* past its deadline is killed.  Nothing says that an agent ever answers.  *)
(***************************************************************************)
Fairness == /\ WF_vars(Caller) /\ WF_vars(Expire)
            /\ \A o \in Operations : WF_vars(Start(o)) /\ WF_vars(Kill(o))

FairSpec == Spec /\ Fairness

-----------------------------------------------------------------------------
(* Properties *)

(***************************************************************************)
(* "Reap every worker before returning fallback": outside the pool's own   *)
(* phases no batch of any attempt waits or runs, so neither a retry nor    *)
(* the published artifacts can be overtaken by an older agent.             *)
(***************************************************************************)
NoStrayWorker == phase \notin Pooling => \A o \in Operations : work[o] \notin Busy

(***************************************************************************)
(* Advice is taken whole or not at all: an AGENT artifact holds the answer *)
(* of every batch, all of the last attempt, whichever batch failed or was  *)
(* late; and only then may the summary say AGENT_COMPLETED.                *)
(***************************************************************************)
AdviceIsWhole ==
  /\ outcome.source = "AGENT" =>
       /\ \A o \in input.batches : work[o] = "answered" /\ bundle[o] = answer[o]
       /\ \A o \in Operations \ input.batches : bundle[o] = "none"
  /\ outcome.source # "AGENT" => decision = NoOpinion /\ outcome.status # "AGENT_COMPLETED"

(***************************************************************************)
(* Discovery is not kept alive by an agent that hangs, by a full pool, by  *)
(* a retry or by a probe loop: every run ends.                             *)
(***************************************************************************)
RunEnds == <>(phase = "done")

(***************************************************************************)
(* "Raw Agent output never mutates eligibility": the run implements        *)
(* AgentAdvice.  The opinions are about the evidence whose fingerprint the *)
(* mapping request carries.                                                *)
(***************************************************************************)
basisOfBundle == IF phase \in {"planning", "probing"} THEN {} ELSE print
Advice == INSTANCE AgentAdvice WITH
            review <- input.review, evidence <- report, basis <- basisOfBundle,
            opinion <- bundle,
            standing <- IF phase = "done" THEN "closed" ELSE "open"
ImplementsAdvice == Advice!AdviceSpec
=============================================================================

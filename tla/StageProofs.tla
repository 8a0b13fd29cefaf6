----------------------------- MODULE StageProofs -----------------------------
(***************************************************************************)
(* For any number of calls, crashes and cancellations: an approval is      *)
(* spent once and before its run starts, one agent executes at a time      *)
(* until a caller dies, fails to write its lock file or works for over an  *)
(* hour, and a finished run is reopened by nobody but a late proposer.     *)
(*                                                                         *)
(* For any number of attempts, promotions and failures, and any mix of     *)
(* executors that name runs freshly or after the plan: what a reader       *)
(* accepts stays accepted (but for an attempt that rewrites its run        *)
(* directory or validated on an adapter withdrawn since), an attempt       *)
(* confirms its own result, and the canonical diagnosis goes back to an    *)
(* older adapter only from a withdrawn one.                                *)
(***************************************************************************)
EXTENDS StageAgentRun, StageHandoffs, TLAPS

-----------------------------------------------------------------------------
(* Runs of a stage: StageAgentRun *)

Underway == {"approved", "checking", "locking", "breaking", "leaving", "recording"} \cup Executing

\* A call that may still write the run it works on as its executor.
Writer(c) == kind[c] \in {"resume", "direct"} /\ pc[c] \in Underway

\* What each call holds, by kind.
Kinds ==
  \A c \in Calls :
    /\ pc[c] = "idle" <=> kind[c] = "none"
    /\ pc[c] = "idle" => request[c] = "none" /\ run[c] = "none"
    /\ kind[c] # "none" => of[c] \in Calls
    /\ kind[c] \in {"propose", "direct"} => of[c] = c
    /\ kind[c] = "propose" => pc[c] \in {"proposing", "ended", "crashed"}
    /\ kind[c] = "direct" => request[c] = "none"
    /\ pc[c] = "proposing" => kind[c] = "propose"
    /\ kind[c] = "resume" => request[of[c]] # "none"
    /\ pc[c] \in {"validated", "refused"} => kind[c] = "resume"
    /\ pc[c] \in {"leaving", "recording"} => verdict[c] # "none"
    /\ request[c] # "none" => kind[c] = "propose"
    /\ kind[c] = "resume" => run[c] = "none"

\* An approval belongs to the one call that got past it.
Spent == \A c \in Calls : kind[c] = "resume"
                            /\ pc[c] \notin {"validated", "refused", "crashed"}
                              => request[of[c]] = "APPROVED"

\* The section is left on every way out of it.
Within == \A c \in Calls : c \in inside <=> pc[c] \in Executing \cup {"leaving"}

\* Until the first mishap the lock file stands for the one call inside, and
\* nobody has judged it stale.
Exclusive ==
  Untroubled => /\ \A c \in inside : execLock = c
                /\ execLock # NoRun => execLock \in inside
                /\ \A c \in Calls : pc[c] # "breaking"

\* A run that has started cannot be approved or started again.
Started ==
  \A c \in Calls :
    /\ run[c] \in {"RUNNING", "SUCCEEDED", "FAILED"} => request[c] \in {"none", "APPROVED"}
    /\ pc[c] = "approved" => run[of[c]] \notin {"RUNNING", "SUCCEEDED", "FAILED"}
    /\ Writer(c) => run[of[c]] # "SUCCEEDED"
    /\ kind[c] = "resume" => kind[of[c]] = "propose"

RunInv == /\ TypeOK /\ Kinds /\ Spent /\ ApprovalSingleUse /\ Within /\ Exclusive
          /\ Started

\* The invariant holds before the first run.
LEMMA InitRunInv == Init => RunInv
  BY RunnerAssumption
  DEF Init, RunInv, TypeOK, Kinds, Spent, ApprovalSingleUse, Approvers, Within, Exclusive, Started,
      Writer, Underway, Executing, Before, Stopped, Terminal, Mishaps, Untroubled

\* Every step of a runner keeps the invariant.
LEMMA NextRunInv == ASSUME RunInv, [Next]_vars PROVE RunInv'
<1> USE RunnerAssumption
<1> USE DEF RunInv, TypeOK, Kinds, Spent, ApprovalSingleUse, Approvers, Within, Exclusive, Started,
        Writer, Underway, Executing, Before, Stopped, Terminal, runs, clocks, Goto, Record,
        Begin, Mishaps, Untroubled, Count, Starts
<1>1. ASSUME NEW c \in Calls, Propose(c) PROVE RunInv'
  BY <1>1 DEF Propose
<1>2. ASSUME NEW c \in Calls, WriteWaiting(c) PROVE RunInv'
  BY <1>2 DEF WriteWaiting
<1>3. ASSUME NEW c \in Calls, Approve(c) PROVE RunInv'
  BY <1>3 DEF Approve, StillUsable, Usable
<1>4. ASSUME NEW c \in Calls, Refuse(c) PROVE RunInv'
  BY <1>4 DEF Refuse
<1>5. ASSUME NEW c \in Calls, Direct(c) PROVE RunInv'
  BY <1>5 DEF Direct
<1>6. ASSUME NEW c \in Calls, WriteRunning(c) PROVE RunInv'
  BY <1>6 DEF WriteRunning
<1>7. ASSUME NEW c \in Calls, CheckSignal(c) PROVE RunInv'
  BY <1>7, SMTT(20) DEF CheckSignal
<1>8. ASSUME NEW c \in Calls, Lock(c) PROVE RunInv'
  BY <1>8 DEF Lock, Lockable
<1>9. ASSUME NEW c \in Calls, JudgeStale(c) PROVE RunInv'
  <2>1. ~Untroubled
    BY <1>9 DEF JudgeStale, LockStale
  <2> QED BY <1>9, <2>1 DEF JudgeStale
<1>30. ASSUME NEW c \in Calls, BreakLock(c) PROVE RunInv'
  BY <1>30 DEF BreakLock
<1>28. ASSUME NEW c \in Calls, LockFails(c) PROVE RunInv'
  BY <1>28 DEF LockFails, Lockable
<1>29. ASSUME NEW r \in Calls, Overrun(r) PROVE RunInv'
  BY <1>29 DEF Overrun
<1>10. ASSUME NEW c \in Calls, Busy(c) PROVE RunInv'
  BY <1>10 DEF Busy
<1>11. ASSUME NEW c \in Calls, AgentReturns(c) PROVE RunInv'
  BY <1>11 DEF AgentReturns
<1>12. ASSUME NEW c \in Calls, Judge(c) PROVE RunInv'
  <2>1. CASE CancelSeen(c)
    BY <1>12, <2>1, SMTT(20) DEF Judge
  <2>2. CASE ~CancelSeen(c)
    BY <1>12, <2>2, SMTT(20) DEF Judge
  <2> QED
    BY <2>1, <2>2
<1>13. ASSUME NEW c \in Calls, Accept(c) PROVE RunInv'
  BY <1>13 DEF Accept
<1>14. ASSUME NEW c \in Calls, AgentFails(c) PROVE RunInv'
  BY <1>14 DEF AgentFails
<1>15. ASSUME NEW c \in Calls, Unlock(c) PROVE RunInv'
  BY <1>15 DEF Unlock
<1>16. ASSUME NEW c \in Calls, WriteFinal(c) PROVE RunInv'
  BY <1>16 DEF WriteFinal
<1>17. ASSUME NEW c \in Calls, Crash(c) PROVE RunInv'
  BY <1>17 DEF Crash
<1>18. ASSUME NEW c \in Calls, Signal(c) PROVE RunInv'
  BY <1>18 DEF Signal
<1>19. ASSUME NEW c \in Calls, NEW r \in Calls, Resume(c, r) PROVE RunInv'
  BY <1>19 DEF Resume, Usable
<1>20. ASSUME NEW r \in Calls, Cancel(r) PROVE RunInv'
  BY <1>20 DEF Cancel, Cancellable
<1>21. ASSUME NEW r \in Calls, Expire(r) PROVE RunInv'
  BY <1>21 DEF Expire
<1>22. ASSUME NEW r \in Calls, Archive(r) PROVE RunInv'
  BY <1>22 DEF Archive, Archived
<1>23. ASSUME NEW r \in Calls, Age(r) PROVE RunInv'
  BY <1>23 DEF Age
<1>24. ASSUME NEW r \in Calls, Heartbeat(r) PROVE RunInv'
  BY <1>24 DEF Heartbeat
<1>25. ASSUME NEW r \in Calls, Suspect(r) PROVE RunInv'
  BY <1>25 DEF Suspect
<1>26. ASSUME NEW r \in Calls, Recover(r) PROVE RunInv'
  BY <1>26 DEF Recover, Recoverable
<1>27. CASE UNCHANGED vars
  BY <1>27 DEF vars
<1> HIDE DEF RunInv
<1> QED
  BY <1>1, <1>2, <1>3, <1>4, <1>5, <1>6, <1>7, <1>8, <1>9, <1>10, <1>11, <1>12, <1>13,
     <1>14, <1>15, <1>16, <1>17, <1>18, <1>19, <1>20, <1>21, <1>22, <1>23, <1>24, <1>25,
     <1>26, <1>27, <1>28, <1>29, <1>30
  DEF Next, Step, Proceed, Maintain

\* The inductive invariant holds in every reachable state.
LEMMA AlwaysRunInv == Spec => []RunInv
  BY InitRunInv, NextRunInv, PTL DEF Spec

(***************************************************************************)
(* Type correctness of the runs of one stage of one robot.                 *)
(***************************************************************************)
THEOREM StageTypeCorrect == Spec => []TypeOK
<1>1. RunInv => TypeOK BY DEF RunInv
<1> QED BY <1>1, AlwaysRunInv, PTL

(***************************************************************************)
(* StageAgentRunner.run: of any number of clients that validated one       *)
(* pending request, one gets past it.                                      *)
(***************************************************************************)
THEOREM ApprovalsSpentOnce == Spec => []ApprovalSingleUse
<1>1. RunInv => ApprovalSingleUse BY DEF RunInv
<1> QED BY <1>1, AlwaysRunInv, PTL

(***************************************************************************)
(* StageAgentRunner.run: no agent starts on a request that is pending,     *)
(* expired or archived.                                                    *)
(***************************************************************************)
THEOREM ApprovalsComeFirst == Spec => []ApprovedBeforeExecution
<1>1. RunInv => ApprovedBeforeExecution
  BY DEF RunInv, Spent, ApprovedBeforeExecution, Executing
<1> QED BY <1>1, AlwaysRunInv, PTL

(***************************************************************************)
(* The execution lock: until a caller dies, a lock file cannot be written  *)
(* or a run takes more than an hour, agents of one stage of one robot      *)
(* never run side by side.                                                 *)
(***************************************************************************)
THEOREM ExecutorsExclude == Spec => []OneActiveExecutor
<1>1. RunInv => OneActiveExecutor
  BY DEF RunInv, Within, Exclusive, OneActiveExecutor
<1> QED BY <1>1, AlwaysRunInv, PTL

\* No step reopens a finished run, but a proposal written late.
LEMMA StepStaysFinished ==
  ASSUME RunInv, [Next]_vars PROVE [StayFinished]_vars
<1> SUFFICES ASSUME Next PROVE StayFinished
  OBVIOUS
<1> USE RunnerAssumption
<1> USE DEF RunInv, TypeOK, Kinds, Started, StayFinished, Writer, Underway, Executing,
        Terminal, runs, clocks, Record
<1>1. ASSUME NEW c \in Calls, WriteWaiting(c) PROVE StayFinished
  BY <1>1 DEF WriteWaiting, ProposedLate
<1>2. ASSUME NEW c \in Calls, WriteRunning(c) PROVE StayFinished
  BY <1>2 DEF WriteRunning
<1>3. ASSUME NEW c \in Calls, CheckSignal(c) PROVE StayFinished
  BY <1>3 DEF CheckSignal
<1>4. ASSUME NEW c \in Calls, WriteFinal(c) PROVE StayFinished
  BY <1>4 DEF WriteFinal
<1>5. ASSUME NEW r \in Calls, Cancel(r) PROVE StayFinished
  BY <1>5 DEF Cancel, Cancellable
<1>6. ASSUME NEW r \in Calls, Recover(r) PROVE StayFinished
  BY <1>6 DEF Recover, Recoverable
<1>7. CASE UNCHANGED run
  BY <1>7
<1> QED
  BY <1>1, <1>2, <1>3, <1>4, <1>5, <1>6, <1>7
  DEF Next, Step, Proceed, Maintain, Propose, Direct, Resume, Approve, Refuse, Lock, LockFails,
      JudgeStale, Busy, AgentReturns, Judge, Accept, AgentFails, Unlock, BreakLock, Crash,
      Signal, Expire, Archive, Overrun, Age, Heartbeat, Suspect

(***************************************************************************)
(* The writers of run.json: a finished run is not reopened by late         *)
(* cancels, recoveries of runs read earlier or second resumes, but by its  *)
(* proposer, whose request was resumed before run.json was there.          *)
(***************************************************************************)
THEOREM FinishedRunsStay == Spec => FinishedStays
  BY StepStaysFinished, AlwaysRunInv, PTL DEF Spec, FinishedStays

\* A mishap is counted and never forgotten.
LEMMA CountTroubles ==
  ASSUME TypeOK, NEW k \in Mishaps, Count(k)
  PROVE  troubled'
<1>1. budget'[k] = budget[k] + 1 /\ budget[k] \in Nat
  BY DEF TypeOK, Count, Mishaps
<1> QED BY <1>1 DEF troubled, Untroubled

\* Every step of a call is one of the abstract lock or a stutter.
LEMMA StepWriter ==
  ASSUME RunInv, [Next]_vars
  PROVE  [Writers!LockNext]_Writers!lockVars
<1> USE RunnerAssumption
<1>0. /\ TypeOK /\ Within /\ Exclusive
      /\ UNCHANGED slow /\ UNCHANGED budget => UNCHANGED troubled
      /\ UNCHANGED slow /\ Count("cancel") => UNCHANGED troubled
      /\ troubled \in BOOLEAN
  BY DEF RunInv, TypeOK, Count, troubled, Untroubled, Mishaps
<1> USE <1>0 DEF TypeOK, Within, Executing, Before, Mishaps, runs, clocks, Goto, writerPhase,
        displaced, Writers!Risky, Writers!lockVars
<1>a. /\ Writers!Inside = inside
      /\ NoRun \notin inside /\ inside \subseteq Calls
  BY DEF Writers!Inside
<1> USE <1>a
\* how the set of the displaced changes
<1>b. /\ displaced \subseteq inside
      /\ execLock = NoRun => displaced = inside
      /\ \A c \in inside : c = execLock \/ c \in displaced
      /\ \A c \in inside : c = execLock => displaced = inside \ {c}
  OBVIOUS
<1>1. ASSUME NEW c \in Calls, CheckSignal(c)
      PROVE  Writers!Ask(c) \/ UNCHANGED Writers!lockVars
  BY <1>1 DEF CheckSignal, Writers!Ask
<1>2. ASSUME NEW c \in Calls, Lock(c) PROVE Writers!Enter(c)
  <2>1. displaced = inside /\ displaced' = inside /\ UNCHANGED troubled
    BY <1>2, <1>b DEF Lock, Lockable
  <2>2. /\ writerPhase[c] = "waiting"
        /\ writerPhase' = [writerPhase EXCEPT ![c] = "inside"]
    BY <1>2 DEF Lock
  <2> QED BY <2>1, <2>2 DEF Writers!Enter
<1>3. ASSUME NEW c \in Calls, Busy(c) PROVE Writers!GiveUp(c)
  BY <1>3 DEF Busy, Writers!GiveUp
<1>4. ASSUME NEW c \in Calls, LockFails(c) PROVE Writers!GiveUp(c)
  <2>1. troubled'
    BY <1>4, CountTroubles DEF LockFails
  <2>2. displaced = inside /\ displaced' = inside
    BY <1>4, <1>b DEF LockFails, Lockable
  <2>3. /\ writerPhase[c] = "waiting"
        /\ writerPhase' = [writerPhase EXCEPT ![c] = "outside"]
    BY <1>4 DEF LockFails
  <2> QED BY <2>1, <2>2, <2>3 DEF Writers!GiveUp
<1>5. ASSUME NEW c \in Calls, Unlock(c) PROVE Writers!Leave(c)
  <2>1. writerPhase' = [writerPhase EXCEPT ![c] = "outside"] /\ UNCHANGED troubled
    BY <1>5 DEF Unlock
  <2>2. displaced' = inside \ {c} /\ c \in inside /\ writerPhase[c] = "inside"
    BY <1>5 DEF Unlock
  <2>3. displaced \ {c} = inside \ {c} \/ c \in displaced
    BY <2>2, <1>b
  <2> QED BY <2>1, <2>2, <2>3 DEF Writers!Leave
<1>6. ASSUME NEW c \in Calls, Crash(c)
      PROVE  Writers!Leave(c) \/ Writers!GiveUp(c) \/ Writers!Overstay
  <2>1. troubled'
    BY <1>6, CountTroubles DEF Crash
  <2>2. CASE c \in inside
    BY <1>6, <2>1, <2>2 DEF Crash, Writers!Leave
  <2>3. CASE c \notin inside
    BY <1>6, <2>1, <2>3 DEF Crash, Writers!GiveUp, Writers!Overstay
  <2> QED BY <2>2, <2>3
<1>7. ASSUME NEW c \in Calls, BreakLock(c)
      PROVE  (\E d \in Calls : Writers!Lose(d)) \/ UNCHANGED Writers!lockVars
  <2>1. troubled' /\ UNCHANGED <<writerPhase, troubled>>
    BY <1>7 DEF BreakLock, Exclusive, troubled
  <2>2. displaced' = inside
    BY <1>7 DEF BreakLock
  <2>3. CASE execLock \in inside
    <3>1. execLock \in inside \ displaced /\ inside = displaced \cup {execLock}
      BY <2>3
    <3> QED BY <2>1, <2>2, <3>1 DEF Writers!Lose
  <2>4. CASE execLock \notin inside
    <3>1. inside = displaced
      BY <2>4
    <3> QED BY <2>1, <2>2, <3>1
  <2> QED BY <2>3, <2>4
<1>8. ASSUME NEW r \in Calls, Overrun(r) PROVE Writers!Overstay
  <2>1. troubled'
    BY <1>8 DEF Overrun, troubled, Untroubled
  <2> QED BY <1>8, <2>1 DEF Overrun, Writers!Overstay
<1>9. ASSUME NEW c \in Calls, Propose(c) \/ WriteWaiting(c) \/ Approve(c) \/ Refuse(c)
                                \/ Direct(c) \/ WriteRunning(c) \/ JudgeStale(c)
                                \/ AgentReturns(c) \/ Accept(c) \/ AgentFails(c)
                                \/ Judge(c) \/ WriteFinal(c) \/ Signal(c)
                                \/ \E r \in Calls : Resume(c, r)
      PROVE  UNCHANGED Writers!lockVars
  <2>1. UNCHANGED <<inside, execLock, slow>> /\ (UNCHANGED budget \/ Count("cancel"))
    BY <1>9 DEF Propose, WriteWaiting, Approve, Refuse, Direct, WriteRunning, JudgeStale,
                AgentReturns, Accept, AgentFails, Judge, WriteFinal, Signal, Resume
  <2>2. UNCHANGED writerPhase
    BY <1>9, <2>1 DEF Starts, Propose, WriteWaiting, Approve, Refuse, Direct, WriteRunning,
                      JudgeStale, AgentReturns, Accept, AgentFails, Judge, WriteFinal, Signal,
                      Resume
  <2> QED BY <2>1, <2>2
<1>10. ASSUME UNCHANGED <<pc, inside, execLock, slow>>, UNCHANGED budget \/ Count("cancel")
       PROVE UNCHANGED Writers!lockVars
  BY <1>10
<1> QED
  BY <1>1, <1>2, <1>3, <1>4, <1>5, <1>6, <1>7, <1>8, <1>9, <1>10
  DEF Next, Step, Proceed, Maintain, vars, Cancel, Expire, Archive, Age, Heartbeat, Suspect,
      Recover, Writers!LockNext

(***************************************************************************)
(* The execution lock implements WriterLock: whoever dies, overstays or    *)
(* cannot write the file, every step of any of the stage's calls is a step *)
(* of the abstract lock or changes no call's standing with it.             *)
(***************************************************************************)
THEOREM ExecutionLockImplements == Spec => ImplementsExecutionLock
<1>1. Init => Writers!LockInit
  BY DEF Init, Writers!LockInit, writerPhase, displaced, troubled, Untroubled, Mishaps
<1> QED
  BY <1>1, StepWriter, AlwaysRunInv, PTL
  DEF Spec, ImplementsExecutionLock, Writers!LockSpec

-----------------------------------------------------------------------------
(* Their handoffs: StageHandoffs *)

Published == {"published", "confirmed", "failed", "succeeded"}

\* One attempt of a stage executes at a time, in a directory of its stage.
ExclusiveAttempts ==
  /\ \A a, b \in Attempts :
       SameStage(a, b) /\ progress[a] \in Committing /\ progress[b] \in Committing
                              => a = b
  /\ \A a, b \in Attempts : dir[a] = dir[b] => SameStage(a, b)
  /\ \A a \in Attempts : SameStage(a, dir[a])
  /\ \A a \in Attempts : a # dir[a] => a \in PlanNamed /\ dir[a] \in PlanNamed
  /\ \A a \in Attempts : progress[a] = "idle" => dir[a] = a

\* An attempt owns what it has written until it stops.
Owns ==
  \A a \in Attempts :
    /\ progress[a] = "half" => file[dir[a]]["first"] = a
    /\ progress[a] \in {"written", "bound", "validated", "published", "confirmed"} => Intact(a)
    /\ progress[a] \in {"published", "confirmed"} => Canonical(a) = a

\* The index and what a rollback would make of it were never withdrawn.
Indexed == /\ adapter \notin withdrawn
           /\ fallback # None => fallback < adapter /\ fallback \notin withdrawn

\* An adapter the index has named and, but for withdrawn ones, names still or
\* named before the one it would be put back to.
Past(s) == \/ s \in withdrawn \/ s = adapter
           \/ IF fallback = None THEN s <= adapter ELSE s <= fallback

\* What canonical handoffs bind.
Bindings ==
  /\ diagnosis # None => progress[diagnosis] \in Published /\ source[diagnosis] \in Nat
  /\ verification # None => progress[verification] \in Published
  /\ \A d \in Diagnoses :
       /\ source[d] # None => source[d] \in Nat /\ Past(source[d])
       /\ progress[d] \in Committing \ {"executing"} => source[d] \in Nat
  /\ \A v \in Verifies : source[v] # None => source[v] \in Diagnoses
                                             /\ progress[source[v]] \in Published

\* The attempt that is about to publish binds nothing older than what stands.
Fresh ==
  /\ diagnosis # None =>
       \A d \in Diagnoses :
         progress[d] \in {"checked", "half", "written", "bound", "validated"}
           => source[diagnosis] <= source[d] \/ source[diagnosis] \in withdrawn
  /\ verification # None =>
       \A v \in Verifies :
         progress[v] \in {"bound", "validated"} /\ source[verification] = diagnosis
           => source[v] = diagnosis

HandoffInv == HandoffTypeOK /\ ExclusiveAttempts /\ Owns /\ Indexed /\ Bindings /\ Fresh

\* The invariant holds before the first attempt.
LEMMA InitHandoffInv == HandoffInit => HandoffInv
<1> SUFFICES ASSUME HandoffInit PROVE HandoffInv
  OBVIOUS
<1> USE HandoffAssumption DEF HandoffInit, Attempts
<1>1. HandoffTypeOK
  BY DEF HandoffTypeOK, Parts
<1>2. ExclusiveAttempts
  BY DEF ExclusiveAttempts, Committing, SameStage
<1>3. Owns
  BY DEF Owns
<1>4. Indexed /\ Bindings /\ Fresh
  BY DEF Indexed, Bindings, Fresh, Committing
<1> QED
  BY <1>1, <1>2, <1>3, <1>4 DEF HandoffInv

\* Every step of an attempt keeps the invariant.
LEMMA NextHandoffInv == ASSUME HandoffInv, [HandoffNext]_handoffVars PROVE HandoffInv'
<1> USE HandoffAssumption
<1> USE DEF HandoffInv, HandoffTypeOK, ExclusiveAttempts, Owns, Bindings, Fresh, Attempts,
        Committing, Ended, Published, Parts, SameStage, Intact, Canonical, canonical, index,
        Advance, Indexed, Past
<1>1. ASSUME NEW a \in Attempts, Plan(a) PROVE HandoffInv'
  BY <1>1 DEF Plan, SamePlan, Upstream, UpstreamValid, DiagnosisValid
<1>2. ASSUME NEW a \in Attempts, Start(a) PROVE HandoffInv'
  BY <1>2 DEF Start, StageFree
<1>3. ASSUME NEW a \in Attempts, Reject(a) PROVE HandoffInv'
  BY <1>3 DEF Reject
<1>4. ASSUME NEW a \in Attempts, CheckSource(a) PROVE HandoffInv'
  BY <1>4 DEF CheckSource, UpstreamValid
<1>5. ASSUME NEW a \in Attempts, WriteFirst(a) PROVE HandoffInv'
  BY <1>5 DEF WriteFirst, Write
<1>6. ASSUME NEW a \in Attempts, WriteSecond(a) PROVE HandoffInv'
  BY <1>6 DEF WriteSecond, Write
<1>7. ASSUME NEW a \in Attempts, Bind(a) PROVE HandoffInv'
  BY <1>7 DEF Bind
<1>8. ASSUME NEW a \in Attempts, Validate(a) PROVE HandoffInv'
  BY <1>8 DEF Validate, HandoffValid, DiagnosisValid, VerificationValid
<1>9. ASSUME NEW a \in Attempts, Publish(a) PROVE HandoffInv'
  BY <1>9 DEF Publish
<1>10. ASSUME NEW a \in Attempts, Confirm(a) PROVE HandoffInv'
  BY <1>10 DEF Confirm
<1>11. ASSUME NEW a \in Attempts, Fail(a) PROVE HandoffInv'
  BY <1>11 DEF Fail
<1>12. ASSUME NEW x \in Adapters, Promote(x) PROVE HandoffInv'
  BY <1>12 DEF Promote
<1>14. ASSUME Settle PROVE HandoffInv'
  BY <1>14 DEF Settle
<1>15. ASSUME RollBack PROVE HandoffInv'
  <2> USE <1>15 DEF RollBack
  <2>1. HandoffTypeOK' /\ ExclusiveAttempts' /\ Owns' /\ Indexed'
    OBVIOUS
  \* what was past stays past: it is withdrawn now, or no newer than the fallback
  <2>2. \A x \in Nat : Past(x) => Past(x)'
    OBVIOUS
  <2>3. Bindings' /\ Fresh'
    BY <2>2
  <2> QED BY <2>1, <2>3
<1>13. CASE UNCHANGED handoffVars
  BY <1>13 DEF handoffVars
<1> QED
  BY <1>1, <1>2, <1>3, <1>4, <1>5, <1>6, <1>7, <1>8, <1>9, <1>10, <1>11, <1>12, <1>13, <1>14, <1>15
  DEF HandoffNext, Attempt

\* The inductive invariant holds in every reachable state.
LEMMA AlwaysHandoffInv == HandoffSpec => []HandoffInv
  BY InitHandoffInv, NextHandoffInv, PTL DEF HandoffSpec

-----------------------------------------------------------------------------

\* Type correctness of the attempts and the canonical handoffs of one robot.
THEOREM HandoffTypeCorrect == HandoffSpec => []HandoffTypeOK
<1>1. HandoffInv => HandoffTypeOK
  BY DEF HandoffInv
<1> QED
  BY <1>1, AlwaysHandoffInv, PTL

\* The latest/ that a committing attempt validates is its own handoff, files
\* included: the execution lock is held from the agent's start to the last check.
THEOREM AttemptsConfirmOwn == HandoffSpec => []ConfirmsOwn
<1>1. HandoffInv => ConfirmsOwn
  BY DEF HandoffInv, Owns, ConfirmsOwn
<1> QED
  BY <1>1, AlwaysHandoffInv, PTL

\* The canonical diagnosis never goes back to an older adapter, but from one
\* that was withdrawn.
THEOREM DiagnosisNeverOlder == HandoffSpec => NeverOlder
<1>1. ASSUME HandoffInv, [HandoffNext]_handoffVars PROVE [Onward]_handoffVars
  <2> USE <1>1, HandoffAssumption DEF Onward, canonical, index
  <2>1. ASSUME NEW a \in Attempts, Publish(a) PROVE Onward
    BY <2>1 DEF HandoffInv, Fresh, Publish
  <2>2. ASSUME NEW a \in Attempts, Attempt(a), ~Publish(a) PROVE Onward
    BY <2>2 DEF Attempt, Plan, Start, Reject, CheckSource, WriteFirst, WriteSecond, Bind,
                Validate, Confirm, Fail
  <2>3. ASSUME (\E x \in Adapters : Promote(x)) \/ Settle \/ RollBack PROVE Onward
    BY <2>3 DEF Promote, Settle, RollBack
  <2> QED
    BY <1>1, <2>1, <2>2, <2>3 DEF HandoffNext
<1> QED
  BY <1>1, AlwaysHandoffInv, PTL DEF HandoffSpec, NeverOlder

-----------------------------------------------------------------------------
(* Accepted handoffs stay accepted. *)

Kept == DiagnosisKept /\ VerificationKept

\* No step takes a published handoff back.
LEMMA StepKept == ASSUME HandoffInv, [HandoffNext]_handoffVars PROVE [Kept]_handoffVars
<1> USE HandoffAssumption
<1> USE DEF HandoffInv, HandoffTypeOK, ExclusiveAttempts, Owns, Bindings, Fresh, Attempts,
        Committing, Ended, Published, Parts, SameStage, Intact, Canonical, canonical, index,
        Advance, Indexed, Past, GoodFor, Kept, DiagnosisKept, VerificationKept, DiagnosisValid, VerificationValid, Rewritten
<1>1. ASSUME NEW a \in Attempts, Plan(a) PROVE Kept
  BY <1>1 DEF Plan, SamePlan, Upstream, UpstreamValid
<1>2. ASSUME NEW a \in Attempts, Start(a) PROVE Kept
  BY <1>2 DEF Start
<1>3. ASSUME NEW a \in Attempts, Reject(a) PROVE Kept
  BY <1>3 DEF Reject
<1>4. ASSUME NEW a \in Attempts, CheckSource(a) PROVE Kept
  BY <1>4 DEF CheckSource, UpstreamValid
<1>5. ASSUME NEW a \in Attempts, WriteFirst(a) PROVE Kept
  BY <1>5 DEF WriteFirst, Write
<1>6. ASSUME NEW a \in Attempts, WriteSecond(a) PROVE Kept
  BY <1>6 DEF WriteSecond, Write
<1>7. ASSUME NEW a \in Attempts, Bind(a) PROVE Kept
  BY <1>7 DEF Bind
<1>8. ASSUME NEW a \in Attempts, Validate(a) PROVE Kept
  BY <1>8 DEF Validate
<1>9. ASSUME NEW a \in Attempts, Publish(a) PROVE Kept
  BY <1>9 DEF Publish
<1>10. ASSUME NEW a \in Attempts, Confirm(a) PROVE Kept
  BY <1>10 DEF Confirm
<1>11. ASSUME NEW a \in Attempts, Fail(a) PROVE Kept
  BY <1>11 DEF Fail
<1>12. ASSUME NEW x \in Adapters, Promote(x) PROVE Kept
  BY <1>12 DEF Promote
<1>14. ASSUME Settle \/ RollBack PROVE Kept
  BY <1>14 DEF Settle, RollBack
<1> QED
  BY <1>1, <1>2, <1>3, <1>4, <1>5, <1>6, <1>7, <1>8, <1>9, <1>10, <1>11, <1>12, <1>14
  DEF HandoffNext, Attempt

\* No failed, refused or crashed attempt of either stage takes away a handoff
\* that readers accept, or will accept again after a rollback, but one that writes
\* into the same run directory or has validated on an adapter withdrawn since.
THEOREM AcceptedHandoffsStay == HandoffSpec => AcceptedStays
  BY StepKept, AlwaysHandoffInv, PTL DEF HandoffSpec, AcceptedStays, Kept
=============================================================================

---------------------------- MODULE StageAgentRun ----------------------------
(***************************************************************************)
(* src/rolo/stages/agent_runner.py: the runs of one downstream stage       *)
(* (Diagnose or Verify) of one robot.                                      *)
(*                                                                         *)
(* `StageAgentRunner.run` is called without confirmation to propose a run  *)
(* (an authorization request and a WAITING_FOR_AUTH run are written), with *)
(* confirmation and a request's reference to resume it, or with            *)
(* confirmation alone.  Callers are separate processes: the CLI, the MCP   *)
(* server, API workers.  Others cancel runs, refresh or recover their      *)
(* leases and archive expired requests.  They meet only in the files       *)
(* run.json (`run`), requests/<id>.json (`request`) and the execution lock *)
(* file.  The first two are replaced atomically under locks of their own;  *)
(* the third is FileLock's file with timeout_s = 0 and stale_after_s =     *)
(* 3600, judged by its age and unlinked in two steps.                      *)
(*                                                                         *)
(* A run is named after the call that created it.  The agent's work, its   *)
(* output check and the handoff validator are one outcome each.            *)
(***************************************************************************)
EXTENDS Naturals, FiniteSets

CONSTANTS Calls,        \* invocations of StageAgentRunner.run, in the order of their start
          NoRun,        \* a call that has no run yet
          MaxMishaps,   \* bound: mishaps of whatever kind
          MaxCancels    \* bound: cancellations (persisted or signalled)

ASSUME CallsAreNumbered == Calls \subseteq Nat
ASSUME RunnerAssumption ==
  /\ NoRun \notin Calls
  /\ MaxMishaps \in Nat /\ MaxCancels \in Nat

VARIABLES pc,           \* pc[c]: how far call c has got
          kind,         \* kind[c]: propose, resume or direct
          of,           \* of[c]: the run c works on
          verdict,      \* verdict[c]: the status c is about to record
          run,          \* run[r]: status in r's run.json
          request,      \* request[r]: status in r's authorization request
          overdue,      \* runs whose request is past its expires_at
          aged,         \* runs whose lease (heartbeat_at) is past stale_after_s
          suspects,     \* stale runs a recovery has read but not yet failed
          slow,         \* runs that take more than an hour
          execLock,     \* whose .stage-execution.lock file is there, or NoRun
          inside,       \* calls inside the execution section
          signalled,    \* calls whose cancel_event is set
          budget        \* budget[k]: how often k has happened so far

runs == <<run, request>>
clocks == <<overdue, aged, suspects, slow>>
vars == <<pc, kind, of, verdict, run, request, overdue, aged, suspects, slow,
          execLock, inside, signalled, budget>>

Terminal == {"SUCCEEDED", "FAILED", "CANCELLED"}
Executing == {"executing", "judging", "accepting"}
Before == {"proposing", "validated", "approved", "checking", "locking", "breaking"}

\* A caller dies, a lock file cannot be written; a slow run is the third mishap.
Mishaps == {"death", "error"}
Stopped == {"ended", "refused", "crashed"}

TypeOK ==
  /\ pc \in [Calls -> {"idle", "leaving", "recording"} \cup Before \cup Executing \cup Stopped]
  /\ kind \in [Calls -> {"none", "propose", "resume", "direct"}]
  /\ of \in [Calls -> Calls \cup {NoRun}]
  /\ verdict \in [Calls -> {"none"} \cup Terminal]
  /\ run \in [Calls -> {"none", "WAITING_FOR_AUTH", "RUNNING"} \cup Terminal]
  /\ request \in [Calls -> {"none", "PENDING", "APPROVED", "EXPIRED"}]
  /\ overdue \subseteq Calls /\ aged \subseteq Calls /\ suspects \subseteq Calls
  /\ slow \subseteq Calls
  /\ execLock \in Calls \cup {NoRun}
  /\ inside \subseteq Calls /\ signalled \subseteq Calls
  /\ budget \in [Mishaps \cup {"cancel"} -> Nat]

Init == /\ pc = [c \in Calls |-> "idle"]
        /\ kind = [c \in Calls |-> "none"]
        /\ of = [c \in Calls |-> NoRun]
        /\ verdict = [c \in Calls |-> "none"]
        /\ run = [c \in Calls |-> "none"]
        /\ request = [c \in Calls |-> "none"]
        /\ overdue = {} /\ aged = {} /\ suspects = {} /\ slow = {}
        /\ execLock = NoRun
        /\ inside = {} /\ signalled = {}
        /\ budget = [b \in Mishaps \cup {"cancel"} |-> 0]

Goto(c, s) == pc' = [pc EXCEPT ![c] = s]
Record(r, s) == run' = [run EXCEPT ![r] = s]
Count(k) == budget' = [budget EXCEPT ![k] = @ + 1]
Begin(c, k, r) == kind' = [kind EXCEPT ![c] = k] /\ of' = [of EXCEPT ![c] = r]

MayFail == budget["death"] + budget["error"] + Cardinality(slow) < MaxMishaps

\* Calls are numbered as they start.
Starts(c) == pc[c] = "idle" /\ \A d \in Calls : d < c => pc[d] # "idle"

-----------------------------------------------------------------------------
(* Proposing: request first, then the waiting run *)

Propose(c) == /\ Starts(c)
              /\ Begin(c, "propose", c)
              /\ request' = [request EXCEPT ![c] = "PENDING"]
              /\ Goto(c, "proposing")
              /\ UNCHANGED <<verdict, run, clocks, execLock, inside, signalled, budget>>

WriteWaiting(c) == /\ pc[c] = "proposing"
                   /\ Record(c, "WAITING_FOR_AUTH")
                   /\ Goto(c, "ended")
                   /\ UNCHANGED <<kind, of, verdict, request, clocks, execLock, inside,
                                  signalled, budget>>

-----------------------------------------------------------------------------
(* Resuming and starting *)

\* _validate_authorization_request: pending and not past its expiry.
Usable(r) == request[r] = "PENDING" /\ r \notin overdue

\* The reference reaches a client in the waiting run, or through
\* list_stage_authorization_requests as soon as the request is there, perhaps
\* before its run.json.
Resume(c, r) == /\ Starts(c)
                /\ Usable(r)
                /\ Begin(c, "resume", r)
                /\ Goto(c, "validated")
                /\ UNCHANGED <<verdict, runs, clocks, execLock, inside, signalled, budget>>

\* A slip: the validation made before the lock is trusted inside it.
StillUsable_Unchecked(r) == TRUE

\* The request is read and validated again inside its lock.
StillUsable(r) == Usable(r)

Approve(c) == /\ pc[c] = "validated"
              /\ StillUsable(of[c])
              /\ request' = [request EXCEPT ![of[c]] = "APPROVED"]
              /\ Goto(c, "approved")
              /\ UNCHANGED <<kind, of, verdict, run, clocks, execLock, inside, signalled,
                             budget>>

Refuse(c) == /\ pc[c] = "validated"
             /\ ~StillUsable(of[c])
             /\ Goto(c, "refused")
             /\ UNCHANGED <<kind, of, verdict, runs, clocks, execLock, inside, signalled,
                            budget>>

\* Confirmed at once, without a request.
Direct(c) == /\ Starts(c)
             /\ Begin(c, "direct", c)
             /\ Goto(c, "approved")
             /\ UNCHANGED <<verdict, runs, clocks, execLock, inside, signalled, budget>>

\* run.json becomes RUNNING, whatever it said; started_at is the first heartbeat.
WriteRunning(c) == /\ pc[c] = "approved"
                   /\ Record(of[c], "RUNNING")
                   /\ aged' = aged \ {of[c]}
                   /\ Goto(c, "checking")
                   /\ UNCHANGED <<kind, of, verdict, request, overdue, suspects, slow,
                                  execLock, inside, signalled, budget>>

\* cancel_event is looked at once before the agent starts.
CheckSignal(c) ==
  /\ pc[c] = "checking"
  /\ \/ c \in signalled /\ Record(of[c], "CANCELLED") /\ Goto(c, "ended")
     \/ c \notin signalled /\ Goto(c, "locking") /\ UNCHANGED run
  /\ UNCHANGED <<kind, of, verdict, request, clocks, execLock, inside, signalled, budget>>

-----------------------------------------------------------------------------
(* The execution section: interprocess_lock(timeout_s=0, stale_after_s=3600) *)

\* A slip: the file is opened without O_EXCL.
Lockable_Shared == TRUE

\* os.open(O_CREAT | O_EXCL) succeeds.
Lockable == execLock = NoRun

Lock(c) == /\ pc[c] = "locking"
           /\ Lockable
           /\ execLock' = c
           /\ inside' = inside \cup {c}
           /\ Goto(c, "executing")
           /\ UNCHANGED <<kind, of, verdict, runs, clocks, signalled, budget>>

\* The file is created but its write or fsync raises: the run fails, the file stays.
LockFails(c) == /\ pc[c] = "locking"
                /\ Lockable
                /\ MayFail
                /\ execLock' = c
                /\ verdict' = [verdict EXCEPT ![c] = "FAILED"]
                /\ Goto(c, "recording")
                /\ Count("error")
                /\ UNCHANGED <<kind, of, runs, clocks, inside, signalled>>

\* A slip: any lock file is judged stale.
LockStale_Always == TRUE

\* An hour has passed since the file was created: whoever created it is no
\* longer inside, or has outlasted the hour.
LockStale == execLock \notin inside \/ of[execLock] \in slow

JudgeStale(c) == /\ pc[c] = "locking"
                 /\ execLock # NoRun
                 /\ LockStale
                 /\ Goto(c, "breaking")
                 /\ UNCHANGED <<kind, of, verdict, runs, clocks, execLock, inside,
                                signalled, budget>>

\* The unlink takes whatever file is there by now.
BreakLock(c) == /\ pc[c] = "breaking"
                /\ execLock' = NoRun
                /\ Goto(c, "locking")
                /\ UNCHANGED <<kind, of, verdict, runs, clocks, inside, signalled, budget>>

\* A slip: the lock is taken outside the try block.
Busy_Unrecorded(c) == /\ pc[c] = "locking"
                      /\ execLock # NoRun
                      /\ Goto(c, "ended")
                      /\ UNCHANGED <<kind, of, verdict, runs, clocks, execLock, inside,
                                     signalled, budget>>

\* The file is there and young, and the deadline is at once: TimeoutError, an
\* exception of the try block, fails the run.
Busy(c) == /\ pc[c] = "locking"
           /\ execLock # NoRun
           /\ verdict' = [verdict EXCEPT ![c] = "FAILED"]
           /\ Goto(c, "recording")
           /\ UNCHANGED <<kind, of, runs, clocks, execLock, inside, signalled, budget>>

\* The agent returned and its outputs exist.
AgentReturns(c) == /\ pc[c] = "executing"
                   /\ Goto(c, "judging")
                   /\ UNCHANGED <<kind, of, verdict, runs, clocks, execLock, inside,
                                  signalled, budget>>

\* cancel_requested is TRUE in run.json exactly when its status is CANCELLED.
CancelSeen(c) == c \in signalled \/ run[of[c]] = "CANCELLED"

Judge(c) ==
  /\ pc[c] = "judging"
  /\ \/ CancelSeen(c) /\ verdict' = [verdict EXCEPT ![c] = "CANCELLED"] /\ Goto(c, "leaving")
     \/ ~CancelSeen(c) /\ Goto(c, "accepting") /\ UNCHANGED verdict
  /\ UNCHANGED <<kind, of, runs, clocks, execLock, inside, signalled, budget>>

\* The handoff validator accepts.
Accept(c) == /\ pc[c] = "accepting"
             /\ verdict' = [verdict EXCEPT ![c] = "SUCCEEDED"]
             /\ Goto(c, "leaving")
             /\ UNCHANGED <<kind, of, runs, clocks, execLock, inside, signalled, budget>>

\* The agent, the output check or the validator raised.
AgentFails(c) == /\ pc[c] \in {"executing", "accepting"}
                 /\ verdict' = [verdict EXCEPT ![c] = "FAILED"]
                 /\ Goto(c, "leaving")
                 /\ UNCHANGED <<kind, of, runs, clocks, execLock, inside, signalled, budget>>

Unlock(c) == /\ pc[c] = "leaving"
             /\ execLock' = NoRun
             /\ inside' = inside \ {c}
             /\ Goto(c, "recording")
             /\ UNCHANGED <<kind, of, verdict, runs, clocks, signalled, budget>>

\* The last write of run(): outside the execution lock, whatever run.json says.
WriteFinal(c) == /\ pc[c] = "recording"
                 /\ Record(of[c], verdict[c])
                 /\ Goto(c, "ended")
                 /\ UNCHANGED <<kind, of, verdict, request, clocks, execLock, inside,
                                signalled, budget>>

-----------------------------------------------------------------------------
(* Other actors *)

\* The caller dies; or a write outside the execution section raises and run()
\* ends with it, which leaves the same files behind.
Crash(c) == /\ pc[c] \in Before \cup Executing \cup {"leaving", "recording"}
            /\ MayFail
            /\ Goto(c, "crashed")
            /\ inside' = inside \ {c}
            /\ Count("death")
            /\ UNCHANGED <<kind, of, verdict, runs, clocks, execLock, signalled>>

\* The caller's cancel_event is set, as one of the two looks at it finds: when
\* exactly it was set makes no difference.
Signal(c) == /\ pc[c] \in {"checking", "judging"}
             /\ budget["cancel"] < MaxCancels
             /\ signalled' = signalled \cup {c}
             /\ Count("cancel")
             /\ UNCHANGED <<pc, kind, of, verdict, runs, clocks, execLock, inside>>

\* A slip: a finished run can be cancelled after the fact.
Cancellable_Any(r) == run[r] # "none"

\* cancel_stage_run leaves terminal runs alone.
Cancellable(r) == run[r] \in {"WAITING_FOR_AUTH", "RUNNING"}

Cancel(r) == /\ Cancellable(r)
             /\ budget["cancel"] < MaxCancels
             /\ Record(r, "CANCELLED")
             /\ Count("cancel")
             /\ UNCHANGED <<pc, kind, of, verdict, request, clocks, execLock, inside,
                            signalled>>

\* Fifteen minutes pass; later it makes no difference.
Expire(r) == /\ request[r] = "PENDING"
             /\ r \notin overdue
             /\ overdue' = overdue \cup {r}
             /\ UNCHANGED <<pc, kind, of, verdict, runs, aged, suspects, slow, execLock,
                            inside, signalled, budget>>

Archived == "EXPIRED"

\* archive_expired_authorization_requests, re-reading inside the request's lock.
Archive(r) == /\ request[r] = "PENDING"
              /\ r \in overdue
              /\ request' = [request EXCEPT ![r] = Archived]
              /\ UNCHANGED <<pc, kind, of, verdict, run, clocks, execLock, inside,
                             signalled, budget>>

Working(r) == \E c \in Calls : of[c] = r /\ kind[c] # "propose"
                               /\ pc[c] \notin Stopped \cup {"idle", "validated"}

\* A run takes more than an hour: its lock file and its first heartbeat do not
\* keep others away any longer.
Overrun(r) == /\ Working(r)
              /\ r \notin slow
              /\ MayFail
              /\ slow' = slow \cup {r}
              /\ UNCHANGED <<pc, kind, of, verdict, runs, overdue, aged, suspects, execLock,
                             inside, signalled, budget>>

\* An hour passes without a heartbeat of a run that says RUNNING.
Age(r) == /\ run[r] = "RUNNING"
          /\ r \notin aged
          /\ ~Working(r) \/ r \in slow
          /\ aged' = aged \cup {r}
          /\ UNCHANGED <<pc, kind, of, verdict, runs, overdue, suspects, slow, execLock,
                         inside, signalled, budget>>

\* heartbeat_stage_run
Heartbeat(r) == /\ run[r] = "RUNNING"
                /\ Working(r)
                /\ aged' = aged \ {r}
                /\ UNCHANGED <<pc, kind, of, verdict, runs, overdue, suspects, slow,
                               execLock, inside, signalled, budget>>

\* recover_stale_stage_runs reads run.json and its age without the lock ...
Suspect(r) == /\ run[r] = "RUNNING" /\ r \in aged /\ r \notin suspects
              /\ suspects' = suspects \cup {r}
              /\ UNCHANGED <<pc, kind, of, verdict, runs, overdue, aged, slow, execLock,
                             inside, signalled, budget>>

\* ... and only its status again inside it.
Recoverable(r) == run[r] = "RUNNING"

Recover(r) == /\ r \in suspects
              /\ IF Recoverable(r) THEN Record(r, "FAILED") ELSE UNCHANGED run
              /\ suspects' = suspects \ {r}
              /\ UNCHANGED <<pc, kind, of, verdict, request, overdue, aged, slow,
                             execLock, inside, signalled, budget>>

-----------------------------------------------------------------------------
Proceed(c) == \/ WriteWaiting(c) \/ Approve(c) \/ Refuse(c) \/ WriteRunning(c)
              \/ CheckSignal(c) \/ Lock(c) \/ LockFails(c) \/ JudgeStale(c) \/ BreakLock(c)
              \/ Busy(c) \/ AgentReturns(c) \/ Judge(c) \/ Accept(c) \/ AgentFails(c)
              \/ Unlock(c) \/ WriteFinal(c)

Step(c) == \/ Propose(c) \/ Direct(c) \/ (\E r \in Calls : Resume(c, r))
           \/ Proceed(c) \/ Crash(c) \/ Signal(c)

Maintain(r) == \/ Cancel(r) \/ Expire(r) \/ Archive(r) \/ Overrun(r) \/ Age(r)
               \/ Heartbeat(r) \/ Suspect(r) \/ Recover(r)

Next == \/ \E c \in Calls : Step(c)
        \/ \E r \in Calls : Maintain(r)

Spec == Init /\ [][Next]_vars

(* While callers live, some caller's process runs on.  Nothing in the      *)
(* program schedules cancels, recoveries, heartbeats or the archive, so    *)
(* they are not fair.                                                      *)
Fairness == WF_vars(\E c \in Calls : Proceed(c))

FairSpec == Spec /\ Fairness

-----------------------------------------------------------------------------
(* Properties *)

\* Calls that got past r's approval.
Approvers(r) == {c \in Calls : /\ kind[c] = "resume" /\ of[c] = r
                               /\ pc[c] \notin {"validated", "refused", "crashed"}}

(***************************************************************************)
(* "An approved request is single-use": two clients that validated the     *)
(* same pending request do not both go on to run it.                       *)
(***************************************************************************)
ApprovalSingleUse == \A r \in Calls : \A c, d \in Approvers(r) : c = d

(***************************************************************************)
(* "marked APPROVED before execution": a resumed run is never started on   *)
(* a request that expired, was archived or is still pending.               *)
(***************************************************************************)
ApprovedBeforeExecution ==
  \A c \in Calls : kind[c] = "resume" /\ pc[c] \in Executing \cup {"locking", "checking"}
                     => request[of[c]] = "APPROVED"

(***************************************************************************)
(* "A robot/stage gets one active downstream executor": until a caller     *)
(* dies, a lock file cannot be written or a run takes more than an hour,   *)
(* agents of one stage of one robot do not run side by side, however late  *)
(* a call unlinks a file that it has judged stale.                         *)
(***************************************************************************)
Untroubled == slow = {} /\ \A k \in Mishaps : budget[k] = 0
OneActiveExecutor ==
  Untroubled => \A c, d \in Calls : pc[c] \in Executing /\ pc[d] \in Executing => c = d

(***************************************************************************)
(* A finished run is not reopened: SUCCEEDED stays, and FAILED is never    *)
(* followed by RUNNING or WAITING_FOR_AUTH, in spite of late cancels,      *)
(* recoveries of runs read earlier and second resumes.  One write escapes  *)
(* this: that of the run's proposer, when a client has resumed the listed  *)
(* request before run.json was there.                                      *)
(***************************************************************************)
ProposedLate(r) == pc[r] = "proposing" /\ run'[r] = "WAITING_FOR_AUTH"
StayFinished ==
  \A r \in Calls :
    \/ ProposedLate(r)
    \/ /\ run[r] = "SUCCEEDED" => run'[r] = "SUCCEEDED"
       /\ run[r] = "FAILED" => run'[r] \notin {"RUNNING", "WAITING_FOR_AUTH"}
FinishedStays == [][StayFinished]_vars

(***************************************************************************)
(* The test name says "persistent cancellation cannot be overwritten": a   *)
(* run recorded CANCELLED keeps that status.                               *)
(***************************************************************************)
CancelPersists == [][\A r \in Calls : run[r] = "CANCELLED" => run'[r] = "CANCELLED"]_vars

(***************************************************************************)
(* No run says RUNNING for ever: unless its caller dies or its last write  *)
(* raises, the caller records an end, whether the agent fails, the lock is *)
(* busy or broken or a cancel or a recovery comes in between.              *)
(***************************************************************************)
CallerDied(r) == \E c \in Calls : of[c] = r /\ pc[c] = "crashed"
Unended == {r \in Calls : run[r] = "RUNNING" /\ ~CallerDied(r)}
RunningEnds == Unended # {} ~> Unended = {}

(***************************************************************************)
(* What the execution lock gives the calls, whoever dies, overstays or     *)
(* cannot write: WriterLock, with the mishaps as its faults.               *)
(***************************************************************************)
writerPhase == [c \in Calls |-> CASE c \in inside -> "inside"
                                  [] pc[c] \in {"locking", "breaking"} -> "waiting"
                                  [] OTHER -> "outside"]
displaced == inside \ {execLock}
troubled == ~Untroubled
Writers == INSTANCE WriterLock WITH Procs <- Calls, phase <- writerPhase,
                                    lost <- displaced, fault <- troubled
ImplementsExecutionLock == Writers!LockSpec
=============================================================================

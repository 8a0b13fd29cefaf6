---------------------------- MODULE ToolGateway ----------------------------
(***************************************************************************)
(* One Tool Session of a Diagnose or Verify agent:                         *)
(* src/rolo/stages/adapt/tool_gateway.py `ToolGateway`, reached through    *)
(* src/rolo/stages/downstream_tools.py `DownstreamToolConsumer`, and       *)
(* src/rolo/stages/verify/acceptance.py `run_verification_plan`, which     *)
(* drives a consumer through a plan of read-only cases.                    *)
(*                                                                         *)
(* Threads share one consumer and so one session: the Planner runs the     *)
(* plan, the Agents list, invoke and close whenever they like.  The        *)
(* consumer takes no lock at all; the gateway guards its table of sessions *)
(* and its audit log, and admits one invocation of a session at a time.    *)
(* Meanwhile the active release may be replaced, the session grows old,    *)
(* and an append to the audit log may raise: before it writes, after it    *)
(* wrote, or half-way.  What stops half-way leaves a line without its end, *)
(* and the next record goes onto that line, where no reader can parse it.  *)
(*                                                                         *)
(* The release stands for the four digests a session pins; the nonce is    *)
(* right and the descriptor fits the gateway's policy, or else the issuer  *)
(* refuses it; a result is its size.                                       *)
(***************************************************************************)
EXTENDS Naturals, Sequences, FiniteSets

CONSTANTS Planner,        \* the thread that runs the verification plan
          Agents,         \* other threads with the same consumer
          Cases,          \* number of cases of the plan
          MaxResults,     \* longest list of results its evidence may hold, 256
          MaxCalls,       \* budget.max_calls
          MaxBytes,       \* budget.max_result_bytes
          MaxElapsed,     \* budget.max_elapsed_s, in ticks
          Lifetime,       \* expires_at - created_at, in ticks
          Sizes,          \* sizes of adapter results
          Requests,       \* bound: calls of an agent thread
          MaxReleases,    \* bound: promotions after the session was issued
          MaxAuditErrors  \* bound: appends to the audit log that raise

ASSUME GatewayAssumption ==
  /\ Planner \notin Agents
  /\ MaxResults \in Nat /\ Cases \in 1..MaxResults /\ MaxCalls \in Nat \ {0} /\ MaxBytes \in Nat \ {0}
  /\ MaxElapsed \in Nat \ {0} /\ Lifetime \in Nat \ {0} /\ Sizes \subseteq Nat \ {0}
  /\ Requests \in Nat /\ MaxReleases \in Nat /\ MaxAuditErrors \in Nat

Threads == Agents \cup {Planner}

VARIABLES release,      \* the active release; the session pins release 0
          age,          \* ticks since the session was issued
          registered,   \* is the session in the gateway's table?
          closed,       \* _SessionState.closed
          calls,        \* _SessionState.calls
          bytes,        \* _SessionState.result_bytes
          locked,       \* _SessionState.invoke_lock
          active,       \* DownstreamToolConsumer._active
          disabled,     \* has _terminal_failure been set?
          pc,           \* pc[t]: where the thread stands in its call
          call,         \* call[t]: its call, see Fresh
          left,         \* calls the agents may still make
          stage,        \* which step of run_verification_plan is next
          results,      \* its case results
          report,       \* its status, or why there is none
          log,          \* records written to the gateway audit
          hidden,       \* those that went onto a torn line
          tail,         \* whether the audit ends with a "whole" line or a "torn" one
          ran,          \* adapter runs of the session (history)
          delivered,    \* results that reached a caller (history)
          received,     \* their bytes together (history)
          errors        \* appends that raised so far

world == <<release, age>>
session == <<registered, closed, calls, bytes, locked>>
consumer == <<active, disabled>>
plan == <<stage, results, report>>
audit == <<log, hidden, tail>>
history == <<ran, delivered, received>>
vars == <<world, session, consumer, pc, call, left, plan, audit, history, errors>>

Jobs == {"open", "list", "invoke", "close"}
Inside == {"binding", "charging", "launching", "running", "leaving"}
Phases == {"idle", "admitting", "registering", "authenticating", "listing", "closing", "locking",
           "noting", "denying", "failing", "returning"} \cup Inside
Verdicts == {"PASS", "FAIL", "ERROR", "CANCELLED", "TIMEOUT"}

Statuses == {"PASS", "FAIL", "CANCELLED"}

Calls == [job : Jobs,
          inside : BOOLEAN,          \* does it hold the session's lock?
          index : 0..MaxCalls,       \* call_index of its invocation, 0 before it has one
          acted : BOOLEAN,           \* has its adapter run?
          size : Sizes \cup {0},     \* bytes of its result, 0 when it has no payload
          got : {"ok", "degraded"}]  \* what it returns

Fresh(j) == [job |-> j, inside |-> FALSE, index |-> 0, acted |-> FALSE, size |-> 0, got |-> "ok"]

Records == [action : Jobs,
            outcome : {"ALLOWED", "TRUNCATED", "DENIED", "FAILED"},
            count : 0..MaxCalls,     \* call_count
            acted : BOOLEAN]         \* had the adapter of that call run? (history)

FlagsOK == /\ registered \in BOOLEAN /\ closed \in BOOLEAN /\ locked \in BOOLEAN
           /\ active \in BOOLEAN /\ disabled \in BOOLEAN

\* The session, its budget and what is known of it.
SessionOK == /\ release \in 0..MaxReleases /\ age \in Nat
             /\ calls \in 0..MaxCalls /\ bytes \in 0..MaxBytes
             /\ log \subseteq Records /\ hidden \subseteq log
             /\ tail \in {"whole", "torn"}
             /\ ran \in 0..MaxCalls /\ received \in Nat
             /\ delivered \subseteq [to : Threads, index : 1..MaxCalls, size : Sizes \cup {0}]
             /\ errors \in 0..MaxAuditErrors

\* The threads and the plan.
ThreadsOK == /\ pc \in [Threads -> Phases]
             /\ call \in [Threads -> Calls]
             /\ left \in 0..Requests
             /\ stage \in 0..Cases + 2
             /\ results \in Seq(Verdicts)
             /\ report \in {"none", "unwritten", "invalid"} \cup Statuses

TypeOK == FlagsOK /\ SessionOK /\ ThreadsOK

Init == /\ release = 0 /\ age = 0
        /\ registered = FALSE /\ closed = FALSE /\ calls = 0 /\ bytes = 0 /\ locked = FALSE
        /\ active = FALSE /\ disabled = FALSE
        /\ pc = [t \in Threads |-> "idle"]
        /\ call = [t \in Threads |-> Fresh("open")]
        /\ left = Requests
        /\ stage = 0 /\ results = <<>> /\ report = "none"
        /\ log = {} /\ hidden = {} /\ tail = "whole"
        /\ ran = 0 /\ delivered = {} /\ received = 0 /\ errors = 0

Pinned == release = 0            \* the active release is the one the session names
Expired == age >= Lifetime       \* expires_at <= now
Spent == age >= MaxElapsed       \* _elapsed_s >= budget.max_elapsed_s

Goto(t, p) == pc' = [pc EXCEPT ![t] = p]
Set(t, field, value) == call' = [call EXCEPT ![t][field] = value]

-----------------------------------------------------------------------------
(* The consumer's side of a call *)

\* _degrade: the first failure disables the consumer for good.
Degraded == active' = FALSE /\ disabled' = TRUE

\* The call fails with an outcome that allows no retry.
Degrade(t) == Goto(t, "returning") /\ Set(t, "got", "degraded") /\ Degraded

Unfit(j) == Expired \/ (j # "open" /\ ~active)

\* _preflight, by the thread's own reading of the unlocked fields.
Ask(t, j) ==
  /\ pc[t] = "idle"
  /\ \/ /\ disabled \/ Unfit(j)
        /\ Goto(t, "returning")
        /\ call' = [call EXCEPT ![t] = [Fresh(j) EXCEPT !.got = "degraded"]]
        /\ IF disabled THEN UNCHANGED consumer ELSE Degraded
     \/ /\ ~disabled /\ ~Unfit(j)
        /\ Goto(t, IF j # "open" THEN "authenticating"
                   ELSE IF active THEN "returning" ELSE "admitting")
        /\ call' = [call EXCEPT ![t] = Fresh(j)]
        /\ UNCHANGED consumer
  /\ UNCHANGED <<world, session, plan, audit, history, errors>>

\* An agent asks for anything, also for an operation outside its session.
AgentAsks(t) ==
  /\ left > 0
  /\ left' = left - 1
  /\ \/ \E j \in {"list", "invoke", "close"} : Ask(t, j)
     \/ /\ pc[t] = "idle" /\ ~disabled /\ ~Unfit("invoke")
        /\ Goto(t, "returning")
        /\ call' = [call EXCEPT ![t] = [Fresh("invoke") EXCEPT !.got = "degraded"]]
        /\ Degraded
        /\ UNCHANGED <<world, session, plan, audit, history, errors>>

\* The agent takes the outcome.
AgentTakes(t) ==
  /\ pc[t] = "returning"
  /\ Goto(t, "idle")
  /\ UNCHANGED <<world, session, consumer, call, left, plan, audit, history, errors>>

-----------------------------------------------------------------------------
(* The gateway *)

\* open_session: issuance, policy, Registry and active release.
Admit(t) ==
  /\ pc[t] = "admitting"
  /\ \/ Goto(t, "denying")
     \/ Pinned /\ ~Expired /\ Goto(t, "registering")
  /\ UNCHANGED <<world, session, consumer, call, left, plan, audit, history, errors>>

Register(t) ==
  /\ pc[t] = "registering"
  /\ Goto(t, IF registered THEN "denying" ELSE "noting")
  /\ registered' = TRUE
  /\ UNCHANGED <<world, closed, calls, bytes, locked, consumer, call, left, plan, audit, history,
                 errors>>

\* _authenticate reads the table and the session's state, without its lock.
Authenticate(t) ==
  /\ pc[t] = "authenticating"
  /\ Goto(t, IF ~registered \/ closed \/ Expired THEN "denying"
             ELSE CASE call[t].job = "list"   -> "listing"
                    [] call[t].job = "close"  -> "closing"
                    [] call[t].job = "invoke" -> "locking")
  /\ UNCHANGED <<world, session, consumer, call, left, plan, audit, history, errors>>

List(t) ==
  /\ pc[t] = "listing"
  /\ Goto(t, IF Pinned THEN "noting" ELSE "denying")
  /\ UNCHANGED <<world, session, consumer, call, left, plan, audit, history, errors>>

Close(t) ==
  /\ pc[t] = "closing"
  /\ closed' = TRUE
  /\ Goto(t, "noting")
  /\ UNCHANGED <<world, registered, calls, bytes, locked, consumer, call, left, plan, audit,
                 history, errors>>

\* invoke_lock.acquire(blocking=False)
Lock(t) ==
  /\ pc[t] = "locking"
  /\ IF locked THEN Goto(t, "denying") /\ UNCHANGED call
     ELSE Goto(t, "binding") /\ Set(t, "inside", TRUE)
  /\ locked' = TRUE
  /\ UNCHANGED <<world, registered, closed, calls, bytes, consumer, left, plan, audit, history,
                 errors>>

\* _invoke_locked: the payload, the release and its tools, the timeout.  A
\* release that cannot be read is no refusal of the gateway's: FAILED.
Bind(t) ==
  /\ pc[t] = "binding"
  /\ \/ Pinned /\ Goto(t, "charging")
     \/ \E p \in {"denying", "failing"} : Goto(t, p)
  /\ UNCHANGED <<world, session, consumer, call, left, plan, audit, history, errors>>

\* A slip: the call budget is exceeded by one.
Affordable_ByOne == ~Spent /\ calls <= MaxCalls /\ bytes < MaxBytes
Affordable == ~Spent /\ calls < MaxCalls /\ bytes < MaxBytes

\* _validate_budget and what is left of the session's time.
Charge(t) ==
  /\ pc[t] = "charging"
  /\ IF Affordable
     THEN /\ calls' = calls + 1
          /\ Goto(t, "launching") /\ Set(t, "index", calls + 1)
     ELSE Goto(t, "denying") /\ UNCHANGED <<calls, call>>
  /\ UNCHANGED <<world, registered, closed, bytes, locked, consumer, left, plan, audit, history,
                 errors>>

\* invoke_adapter: the release is loaded again and compared with the pins; what
\* else it may refuse is its own.
Launch(t) ==
  /\ pc[t] = "launching"
  /\ \/ Goto(t, "failing") /\ UNCHANGED <<call, ran>>
     \/ /\ Pinned
        /\ Goto(t, "running") /\ Set(t, "acted", TRUE)
        /\ ran' = ran + 1
  /\ UNCHANGED <<world, session, consumer, left, plan, audit, delivered, received, errors>>

\* Slip: the result is compared with the whole budget, not with what is left of it.
Fits_Whole(n) == n <= MaxBytes
Fits(n) == n <= MaxBytes - bytes

\* A slip: a result that does not fit is refused like a call that the budget forbids.
Oversized_Refused(t) == Goto(t, "denying")
Oversized(t) == Goto(t, "noting")

\* The adapter ends.  A result that does not fit is dropped, and uses the rest up.
Finish(t) ==
  /\ pc[t] = "running"
  /\ \/ Goto(t, "failing") /\ UNCHANGED <<call, bytes>>
     \/ \E n \in Sizes :
          /\ bytes' = IF bytes + n > MaxBytes THEN MaxBytes ELSE bytes + n
          /\ IF Fits(n) THEN Goto(t, "noting") /\ Set(t, "size", n)
             ELSE Oversized(t) /\ UNCHANGED call
  /\ UNCHANGED <<world, registered, closed, calls, locked, consumer, left, plan, audit, history,
                 errors>>

Line(t, o) == [action |-> call[t].job, outcome |-> o, count |-> calls, acted |-> call[t].acted]

\* One record and its newline, written at the end of the file.
Record(t, o) ==
  /\ log' = log \cup {Line(t, o)}
  /\ hidden' = IF tail = "torn" THEN hidden \cup {Line(t, o)} ELSE hidden
  /\ tail' = "whole"

\* The append raises: an OSError, which _audit turns into a ToolGatewayError.
\* By then nothing, all or a part of the record may be in the file.
AuditFails(t, o) ==
  /\ errors < MaxAuditErrors
  /\ errors' = errors + 1
  /\ \/ UNCHANGED audit
     \/ Record(t, o)
     \/ tail' = "torn" /\ UNCHANGED <<log, hidden>>

\* A slip: a failing audit is no failure of the call.
Unnoted_Returned(t) == Goto(t, IF call[t].inside THEN "leaving" ELSE "returning")
                       /\ UNCHANGED <<call, consumer>>

\* What becomes of a call that did its work and could not be recorded: only an
\* invocation has its handler around the append, and that records DENIED.
Unnoted(t) == IF call[t].inside THEN Goto(t, "denying") /\ UNCHANGED <<call, consumer>>
              ELSE Degrade(t)

Success(t) == IF call[t].job = "invoke" /\ call[t].size = 0 THEN "TRUNCATED" ELSE "ALLOWED"

\* The record of a call that did what it was asked to.
Note(t) ==
  /\ pc[t] = "noting"
  /\ \/ /\ Record(t, Success(t))
        /\ Goto(t, IF call[t].inside THEN "leaving" ELSE "returning")
        /\ active' = CASE call[t].job = "open" -> TRUE
                       [] call[t].job = "close" -> FALSE
                       [] OTHER -> active
        /\ UNCHANGED <<call, disabled, errors>>
     \/ AuditFails(t, Success(t)) /\ Unnoted(t)
  /\ UNCHANGED <<world, session, left, plan, history>>

\* The record of a call that was denied or failed; its own failure changes nothing.
Deny(t) ==
  /\ pc[t] \in {"denying", "failing"}
  /\ LET o == IF pc[t] = "denying" THEN "DENIED" ELSE "FAILED" IN
     \/ Record(t, o) /\ UNCHANGED errors
     \/ AuditFails(t, o)
  /\ IF call[t].inside
     THEN Goto(t, "leaving") /\ Set(t, "got", "degraded") /\ UNCHANGED consumer
     ELSE Degrade(t)
  /\ UNCHANGED <<world, session, left, plan, history>>

\* A slip: the lock is not given back by a call that fails.
Unlock_OnSuccess(t) == locked' = (call[t].got = "degraded")
Unlock(t) == locked' = FALSE

\* The lock is given back, and the consumer has the result or the exception.
Leave(t) ==
  /\ pc[t] = "leaving"
  /\ Unlock(t)
  /\ Goto(t, "returning")
  /\ Set(t, "inside", FALSE)
  /\ IF call[t].got = "ok"
     THEN /\ delivered' = delivered \cup {[to |-> t, index |-> call[t].index,
                                           size |-> call[t].size]}
          /\ received' = received + call[t].size
          /\ UNCHANGED consumer
     ELSE Degraded /\ UNCHANGED <<delivered, received>>
  /\ UNCHANGED <<world, registered, closed, calls, bytes, left, plan, audit, ran, errors>>

-----------------------------------------------------------------------------
(* run_verification_plan *)

Closing == Cases + 1
Over == Cases + 2

PlannerAsks ==
  /\ \/ stage = 0 /\ Ask(Planner, "open")
     \/ stage \in 1..Cases /\ Ask(Planner, "invoke")
     \/ stage = Closing /\ Ask(Planner, "close")
  /\ UNCHANGED left

\* A slip: a case that degraded is tried again.
Answer_Retry(v, s) == IF v = <<"ERROR">> /\ s # Over THEN UNCHANGED <<results, stage>>
                      ELSE results' = results \o v /\ stage' = s
Answer(v, s) == results' = results \o v /\ stage' = s

\* A slip: an interrupted plan is over without a result of its own.
Interruption_Silent == {<<>>}
Interruption == {<<"CANCELLED">>, <<"TIMEOUT">>}

\* cancel_event or plan.max_elapsed_s between two cases: the session is closed.
Interrupt ==
  /\ pc[Planner] = "idle" /\ stage \in 1..Cases
  /\ \E v \in Interruption : Answer(v, Closing)
  /\ UNCHANGED <<world, session, consumer, pc, call, left, report, audit, history, errors>>

\* What the planner makes of an outcome.  An oracle finds nothing in a result
\* without payload; ERROR stands for TIMEOUT too.
PlannerTakes ==
  /\ pc[Planner] = "returning"
  /\ Goto(Planner, "idle")
  /\ LET c == call[Planner] IN
     \/ stage = 0 /\ c.got = "ok" /\ Answer(<<>>, 1)
     \/ stage = 0 /\ c.got = "degraded" /\ Answer(<<"ERROR">>, Over)
     \/ stage \in 1..Cases /\ c.got = "degraded" /\ Answer(<<"ERROR">>, stage + 1)
     \/ stage \in 1..Cases /\ c.got = "ok" /\ Answer(<<"FAIL">>, stage + 1)
     \/ stage \in 1..Cases /\ c.got = "ok" /\ c.size > 0 /\ Answer(<<"PASS">>, stage + 1)
     \/ stage = Closing /\ c.got = "ok" /\ Answer(<<>>, Over)
     \/ stage = Closing /\ c.got = "degraded" /\ Answer(<<"ERROR">>, Over)
  /\ UNCHANGED <<world, session, consumer, call, left, report, audit, history, errors>>

Status == LET seen == {results[i] : i \in DOMAIN results} IN
          IF "CANCELLED" \in seen THEN "CANCELLED"
          ELSE IF seen \subseteq {"PASS"} THEN "PASS" ELSE "FAIL"

\* The replay and the evidence are written and the status reported.  Either
\* write may raise; so does the evidence itself if it holds more results than
\* it may, as the failing close of a plan of MaxResults cases is.
Conclude ==
  /\ stage = Over /\ report = "none"
  /\ \/ report' = "unwritten"
     \/ Len(results) > MaxResults /\ report' = "invalid"
     \/ Len(results) <= MaxResults /\ report' = Status
  /\ UNCHANGED <<world, session, consumer, pc, call, left, stage, results, audit, history, errors>>

-----------------------------------------------------------------------------
(* The surroundings *)

\* A promotion or a rediscovery: what the session pins is not active any more.
Promote == /\ release < MaxReleases
           /\ release' = release + 1
           /\ UNCHANGED <<age, session, consumer, pc, call, left, plan, audit, history, errors>>

Tick == /\ ~Expired \/ ~Spent
        /\ age' = age + 1
        /\ UNCHANGED <<release, session, consumer, pc, call, left, plan, audit, history, errors>>

Answers(t) == \/ Admit(t) \/ Register(t) \/ Authenticate(t) \/ List(t) \/ Close(t) \/ Lock(t)
              \/ Bind(t) \/ Charge(t) \/ Launch(t) \/ Note(t) \/ Deny(t) \/ Leave(t)
Gateway(t) == Answers(t) \/ Finish(t)

PlannerRuns == PlannerAsks \/ PlannerTakes \/ Interrupt \/ Conclude

Next == \/ \E t \in Threads : Gateway(t)
        \/ \E t \in Agents : AgentAsks(t) \/ AgentTakes(t)
        \/ PlannerRuns \/ Promote \/ Tick

Spec == Init /\ [][Next]_vars

(***************************************************************************)
(* Every thread runs on: no call waits for a session's lock.  Whether an   *)
(* adapter's invocation ends is not the gateway's to say: see CallsEnd of  *)
(* AdapterInvocation.                                                      *)
(***************************************************************************)
FairSpec == Spec /\ WF_vars(PlannerRuns) /\ \A t \in Threads : WF_vars(Answers(t))

-----------------------------------------------------------------------------
(* Properties *)

(***************************************************************************)
(* The session's lock says who is inside: at most one invocation is, and   *)
(* whichever way it leaves, denied, failed or unrecorded, the next one can *)
(* enter.                                                                  *)
(***************************************************************************)
OneInvocation ==
  /\ \A s, t \in Threads : call[s].inside /\ call[t].inside => s = t
  /\ locked <=> \E t \in Threads : call[t].inside

(***************************************************************************)
(* "Hard invocation limits": whatever the threads do at once, no more      *)
(* adapters run than the session may call, and the results that reach      *)
(* them fit its bytes together.                                            *)
(***************************************************************************)
WithinBudget ==
  /\ ran <= MaxCalls
  /\ received <= MaxBytes

\* The record of a delivered result.
Noted(d) == [action |-> "invoke", outcome |-> IF d.size = 0 THEN "TRUNCATED" ELSE "ALLOWED",
             count |-> d.index, acted |-> TRUE]

(***************************************************************************)
(* "Every operation is ... independently audited": a result that reaches a *)
(* caller has a call_index of its own and is in the audit under it, with   *)
(* an outcome that says whether it came whole; readers of the audit miss   *)
(* no more of these records than there were appends that raised.           *)
(***************************************************************************)
DeliveredIsAudited ==
  /\ \A d, e \in delivered : d.index = e.index => d = e
  /\ {Noted(d) : d \in delivered} \subseteq log
  /\ Cardinality({Noted(d) : d \in delivered} \cap hidden) <= errors

(***************************************************************************)
(* As long as the audit log can be written, DENIED means that nothing was  *)
(* done: no adapter ran for the call.                                      *)
(***************************************************************************)
DenialIsTrue == errors = 0 => \A r \in log : r.outcome = "DENIED" => ~r.acted

(***************************************************************************)
(* A verification that passed has earned it: every case of the plan has    *)
(* passed on a whole result of its own invocation, and the session was     *)
(* closed on record, whatever the other threads did to it meanwhile.       *)
(***************************************************************************)
PassIsEarned ==
  report = "PASS" =>
    /\ results = [i \in 1..Cases |-> "PASS"]
    /\ Cardinality({d \in delivered : d.to = Planner /\ d.size > 0}) = Cases
    /\ \E r \in log : r.action = "close" /\ r.outcome = "ALLOWED"

(***************************************************************************)
(* The plan ends, in a report or an exception, whatever becomes of its     *)
(* session, unless its own invocation stays in an adapter for ever.        *)
(***************************************************************************)
PlanEnds == <>(report # "none") \/ <>[](pc[Planner] = "running")
=============================================================================

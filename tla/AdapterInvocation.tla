------------------------- MODULE AdapterInvocation -------------------------
(***************************************************************************)
(* Invocations of catalogued operations through the active adapter:        *)
(* src/rolo/adapter_runtime.py `invoke_adapter` with                       *)
(* src/rolo/invocation_policy.py `authorize_invocation`, the audit log and *)
(* src/rolo/adapter_runner.py `BoundedAdapterRunner.run`.                  *)
(*                                                                         *)
(* A call verifies the active release, obtains one decision per policy     *)
(* domain of its operation, records each in the audit log, records         *)
(* STARTED, starts the adapter process, writes it the request, gives it    *)
(* its deadline, and records how it ended.  Calls are separate processes   *)
(* that share only the log.                                                *)
(*                                                                         *)
(* The deadline begins when the request is written.  An adapter that reads *)
(* none of a request longer than the pipe holds keeps its call waiting for *)
(* as long as it lives.                                                    *)
(*                                                                         *)
(* The log is a file of lines.  An append waits for the log's lock, writes *)
(* one line and calls fsync; each of the three may raise.  A write that    *)
(* stops half-way leaves a line without its end, and the next record goes  *)
(* onto that line, where no reader can parse it.                           *)
(*                                                                         *)
(* Time passes in ticks.  It matters for the quiescence lease, whose       *)
(* length is judged when it arrives and never again, while two appends,    *)
(* the launch, the request and the whole adapter run come after it.        *)
(***************************************************************************)
EXTENDS Naturals, FiniteSets

CONSTANTS Calls,        \* invocations
          Long,         \* those whose request is longer than the pipe holds
          Kinds,        \* the kinds of operation they ask for
          Limit,        \* min(timeout_s, max_duration_s): the adapter's deadline
          Margin,       \* what invoke_adapter adds to it for the lease, 5 s
          MaxLease,     \* longest lease accepted, 120 s
          AppendTime,   \* longest an append lasts: its lock's timeout_s and its write
          Overhead,     \* longest starting the adapter lasts, and longest killing it
          MaxTears,     \* bound: writes that stop half-way
          MaxCrashes    \* bound: processes that die

AllKinds == {"read", "sensitive", "content", "write", "quiet", "motion"}

ASSUME InvocationAssumption ==
  /\ Long \subseteq Calls
  /\ Kinds \subseteq AllKinds
  /\ Limit \in Nat /\ Margin \in Nat /\ MaxLease \in Nat
  /\ AppendTime \in Nat /\ Overhead \in Nat /\ MaxTears \in Nat /\ MaxCrashes \in Nat

VARIABLES pc,           \* pc[c]: where the call stands, at the end what its caller got
          kind,         \* kind[c]: the kind of operation it asks for
          todo,         \* todo[c]: policy domains still to be decided
          entry,        \* entry[c]: the record it is about to append
          spent,        \* spent[c]: ticks in this append, in the launch, or running
          lease,        \* lease[c]: ticks before its quiescence lease expires
          adapter,      \* adapter[c]: its adapter process, or how that ended
          records,      \* records[c]: its records in the log that can be read
          glued,        \* glued[c]: its records written onto a torn line
          tail,         \* whether the log ends with a "whole" line or a "torn" one
          faults        \* writes that stopped half-way and deaths so far

log == <<records, glued, tail>>
vars == <<pc, kind, todo, entry, spent, lease, adapter, log, faults>>

Domains == {"data", "content", "write", "r3", "quiescence"}
Verdicts == {"valid", "invalid", "failed", "limited", "late", "unlaunched"}
Outcomes == {"SUCCEEDED", "INVALID_RESULT", "FAILED", "OUTPUT_LIMITED", "TIMED_OUT"}
Entries == Domains \cup {"DENIED", "STARTED"} \cup Outcomes
Ended == {"returned", "raised", "crashed"}

Phases == {"idle", "deciding", "appending", "launching", "feeding", "running"} \cup Ended

TypeOK == /\ pc \in [Calls -> Phases]
          /\ kind \in [Calls -> Kinds]
          /\ todo \in [Calls -> SUBSET Domains]
          /\ entry \in [Calls -> Entries]
          /\ spent \in [Calls -> Nat]
          /\ lease \in [Calls -> 0..MaxLease]
          /\ adapter \in [Calls -> {"none", "acting"} \cup Verdicts]
          /\ records \in [Calls -> SUBSET Entries]
          /\ glued \in [Calls -> SUBSET Entries]
          /\ tail \in {"whole", "torn"}
          /\ faults \in [{"tear", "crash"} -> Nat]

\* What authorize_invocation decides for an operation, from its descriptor:
\* classification, content operation, access and risk, requires_quiescence.
Required(k) == CASE k = "read"      -> {}
                 [] k = "sensitive" -> {"data"}
                 [] k = "content"   -> {"data", "content"}
                 [] k = "write"     -> {"write"}
                 [] k = "quiet"     -> {"data", "write", "quiescence"}
                 [] k = "motion"    -> {"r3"}

Init == /\ pc = [c \in Calls |-> "idle"]
        /\ kind \in [Calls -> Kinds]
        /\ todo = [c \in Calls |-> {}]
        /\ entry = [c \in Calls |-> "DENIED"]
        /\ spent = [c \in Calls |-> 0]
        /\ lease = [c \in Calls |-> 0]
        /\ adapter = [c \in Calls |-> "none"]
        /\ records = [c \in Calls |-> {}]
        /\ glued = [c \in Calls |-> {}]
        /\ tail = "whole"
        /\ faults = [f \in {"tear", "crash"} |-> 0]

Goto(c, s) == pc' = [pc EXCEPT ![c] = s]
Count(f) == faults' = [faults EXCEPT ![f] = @ + 1]

\* The call ends; what it still timed is of no account.
Leave(c, s) == /\ Goto(c, s)
               /\ spent' = [spent EXCEPT ![c] = 0]
               /\ lease' = [lease EXCEPT ![c] = 0]

\* The call now appends e, with the whole of the append's time ahead of it.
Append(c, e) == /\ Goto(c, "appending")
                /\ entry' = [entry EXCEPT ![c] = e]
                /\ spent' = [spent EXCEPT ![c] = 0]

-----------------------------------------------------------------------------
(* Before the adapter runs *)

\* The active release, its catalog, the pins and the payload are accepted.
Begin(c) == /\ pc[c] = "idle"
            /\ todo' = [todo EXCEPT ![c] = Required(kind[c])]
            /\ IF Required(kind[c]) = {}
               THEN Append(c, "STARTED")
               ELSE Goto(c, "deciding") /\ UNCHANGED <<entry, spent>>
            /\ UNCHANGED <<kind, lease, adapter, log, faults>>

\* Or one of them is not: nothing is recorded.
Reject(c) == /\ pc[c] = "idle"
             /\ Leave(c, "raised")
             /\ UNCHANGED <<kind, todo, entry, adapter, log, faults>>

\* Domains are decided in this order; a write needs its policy or, with risk
\* R3, a capability.
Rank == [data |-> 1, content |-> 2, write |-> 3, r3 |-> 3, quiescence |-> 4]
Due(c, d) == d \in todo[c] /\ \A e \in todo[c] : Rank[d] <= Rank[e]

Decide(c, d) == /\ pc[c] = "deciding"
                /\ Due(c, d)
                /\ UNCHANGED <<kind, todo, adapter, log, faults>>

Deny(c, d) == /\ Decide(c, d)
              /\ Append(c, "DENIED")
              /\ UNCHANGED lease

\* The protected policy, or the R3 provider, allows the operation.
Allow(c, d) == /\ d # "quiescence"
               /\ Decide(c, d)
               /\ Append(c, d)
               /\ UNCHANGED lease

\* Slip: the lease covers the adapter's deadline and nothing else.
Needed_Deadline == Limit

\* required_quiescence_s
Needed == Limit + Margin

\* A lease of l ticks covers the invocation, judged when it arrives.
Covers(l) == l \in Needed..MaxLease

\* The supervisor's lease is bound to this call and long enough.
Quiesce(c, l) == /\ Decide(c, "quiescence")
                 /\ Covers(l)
                 /\ lease' = [lease EXCEPT ![c] = l]
                 /\ Append(c, "quiescence")

-----------------------------------------------------------------------------
(* The audit log *)

\* One record and its newline.
Write(c) == /\ IF tail = "whole"
               THEN records' = [records EXCEPT ![c] = @ \cup {entry[c]}] /\ UNCHANGED glued
               ELSE glued' = [glued EXCEPT ![c] = @ \cup {entry[c]}] /\ UNCHANGED records
            /\ tail' = "whole"

\* The append succeeds, and the call goes on.
Allowed(c) == /\ pc[c] = "appending"
              /\ entry[c] \in Domains
              /\ Write(c)
              /\ todo' = [todo EXCEPT ![c] = @ \ {entry[c]}]
              /\ IF todo[c] = {entry[c]}
                 THEN Append(c, "STARTED")
                 ELSE Goto(c, "deciding") /\ UNCHANGED <<entry, spent>>
              /\ UNCHANGED <<kind, lease, adapter, faults>>

Denied(c) == /\ pc[c] = "appending"
             /\ entry[c] = "DENIED"
             /\ Write(c)
             /\ Leave(c, "raised")
             /\ UNCHANGED <<kind, todo, entry, adapter, faults>>

Started(c) == /\ pc[c] = "appending"
              /\ entry[c] = "STARTED"
              /\ Write(c)
              /\ Goto(c, "launching")
              /\ spent' = [spent EXCEPT ![c] = 0]
              /\ UNCHANGED <<kind, todo, entry, lease, adapter, faults>>

Finished(c) == /\ pc[c] = "appending"
               /\ entry[c] \in Outcomes
               /\ Write(c)
               /\ Leave(c, IF entry[c] = "SUCCEEDED" THEN "returned" ELSE "raised")
               /\ UNCHANGED <<kind, todo, entry, adapter, faults>>

\* Slip: an error of the STARTED record is swallowed.
NotWritten_Ignored(c) ==
  /\ pc[c] = "appending"
  /\ IF entry[c] = "STARTED"
     THEN Goto(c, "launching") /\ spent' = [spent EXCEPT ![c] = 0] /\ UNCHANGED lease
     ELSE Leave(c, "raised")
  /\ UNCHANGED <<kind, todo, entry, adapter, log, faults>>

\* The append raises: the lock's deadline, an open or write that fails
\* before anything is written, or an fsync that fails after everything is.
\* Whatever it was about, the caller gets the error.
NotWritten(c) == /\ pc[c] = "appending"
                 /\ Leave(c, "raised")
                 /\ UNCHANGED <<kind, todo, entry, adapter, log, faults>>

NotSynced(c) == /\ pc[c] = "appending"
                /\ Write(c)
                /\ Leave(c, "raised")
                /\ UNCHANGED <<kind, todo, entry, adapter, faults>>

\* The disk is full half-way through the record.
Tear(c) == /\ pc[c] = "appending"
           /\ faults["tear"] < MaxTears
           /\ tail' = "torn"
           /\ Count("tear")
           /\ Leave(c, "raised")
           /\ UNCHANGED <<kind, todo, entry, adapter, records, glued>>

-----------------------------------------------------------------------------
(* The adapter process *)

\* The process starts, and acts; its request is still to be written.
Launch(c) == /\ pc[c] = "launching"
             /\ Goto(c, "feeding")
             /\ adapter' = [adapter EXCEPT ![c] = "acting"]
             /\ UNCHANGED <<kind, todo, entry, spent, lease, log, faults>>

\* The pipe has taken the request, or the adapter no longer holds its end
\* of it.  The deadline runs from here.
Fed(c) == /\ pc[c] = "feeding"
          /\ Goto(c, "running")
          /\ spent' = [spent EXCEPT ![c] = 0]
          /\ UNCHANGED <<kind, todo, entry, lease, adapter, log, faults>>

\* Slip: a result is recorded as a success before it is validated.
Outcome_Unchecked(v) == CASE v \in {"valid", "invalid"} -> "SUCCEEDED"
                          [] v \in {"failed", "unlaunched"} -> "FAILED"
                          [] v = "limited" -> "OUTPUT_LIMITED"
                          [] v = "late"    -> "TIMED_OUT"

Outcome(v) == CASE v = "valid"   -> "SUCCEEDED"
                [] v = "invalid" -> "INVALID_RESULT"
                [] v \in {"failed", "unlaunched"} -> "FAILED"
                [] v = "limited" -> "OUTPUT_LIMITED"
                [] v = "late"    -> "TIMED_OUT"

End(c, v) == /\ adapter' = [adapter EXCEPT ![c] = v]
             /\ Append(c, Outcome(v))
             /\ UNCHANGED <<kind, todo, lease, log, faults>>

\* No launcher, no directory (the release was withdrawn since), no process.
Unlaunched(c) == pc[c] = "launching" /\ End(c, "unlaunched")

\* The process exits, or is killed for writing too much.
Exit(c, v) == /\ pc[c] = "running"
              /\ v \in {"valid", "invalid", "failed", "limited"}
              /\ End(c, v)

\* Slip: the runner waits for the process without a deadline.
Late_Never(c) == FALSE

\* time.monotonic() >= deadline, for a process that has not exited
Late(c) == spent[c] >= Limit

Kill(c) == /\ pc[c] = "running"
           /\ Late(c)
           /\ End(c, "late")

-----------------------------------------------------------------------------
(* Deaths and time *)

\* The call's process dies.  An adapter is in a session of its own and goes on.
Crash(c) == /\ pc[c] \notin {"idle"} \cup Ended
            /\ faults["crash"] < MaxCrashes
            /\ Leave(c, "crashed")
            /\ Count("crash")
            /\ UNCHANGED <<kind, todo, entry, adapter, log>>

\* Only the request of a long call takes time to write, as much as its
\* adapter likes.
Timed(c) == pc[c] \in {"appending", "launching", "running"}
InTime(c) == /\ pc[c] = "appending" => spent[c] < AppendTime
             /\ pc[c] = "launching" => spent[c] < Overhead
             /\ pc[c] = "feeding" => c \in Long
             /\ pc[c] = "running" => spent[c] < Limit + Overhead

Tick == /\ \A c \in Calls : InTime(c)
        /\ \E c \in Calls : Timed(c) \/ pc[c] = "feeding"
        /\ spent' = [c \in Calls |-> IF Timed(c) THEN spent[c] + 1 ELSE spent[c]]
        /\ lease' = [c \in Calls |-> IF lease[c] > 0 THEN lease[c] - 1 ELSE 0]
        /\ UNCHANGED <<pc, kind, todo, entry, adapter, log, faults>>

-----------------------------------------------------------------------------

\* Every wait of a call has a deadline: a decision's provider and an append's
\* lock in the call, the adapter's in the runner.  Whether an adapter reads
\* a long request, and when it exits of itself, is its own affair.
Answer(c) == \E d \in Domains : Deny(c, d) \/ Allow(c, d)
Appended(c) == \/ Allowed(c) \/ Denied(c) \/ Started(c) \/ Finished(c)
               \/ NotWritten(c) \/ NotSynced(c) \/ Tear(c)
Advance(c) == \/ Answer(c) \/ Appended(c) \/ Launch(c) \/ Unlaunched(c) \/ Kill(c)
              \/ c \notin Long /\ Fed(c)

Next == \/ \E c \in Calls :
             \/ Begin(c) \/ Reject(c)
             \/ Answer(c) \/ \E l \in 0..(MaxLease + 1) : Quiesce(c, l)
             \/ Appended(c)
             \/ Launch(c) \/ Unlaunched(c) \/ Fed(c) \/ \E v \in Verdicts : Exit(c, v)
             \/ Kill(c) \/ Crash(c)
        \/ Tick

Spec == Init /\ [][Next]_vars
FairSpec == Spec /\ WF_vars(Tick) /\ \A c \in Calls : WF_vars(Advance(c))

-----------------------------------------------------------------------------
(* Properties *)

Written(c) == records[c] \cup glued[c]
Missing == {ce \in Calls \X Entries :
              /\ adapter[ce[1]] # "none"
              /\ ce[2] \in (Required(kind[ce[1]]) \cup {"STARTED"}) \ records[ce[1]]}

\* Before an adapter starts, the decision of every domain of its operation
\* and STARTED are in the audit log.  A reader of the log misses no more of
\* them than there were writes that stopped half-way.
RunsAreRecorded == Cardinality(Missing) <= faults["tear"]

\* The log has one outcome of a call at most, a success only of an adapter
\* whose result was valid, and whoever got a result can be shown its record.
RecordsAreTrue ==
  \A c \in Calls :
    /\ \A o, p \in Written(c) \cap Outcomes : o = p
    /\ "SUCCEEDED" \in Written(c) => adapter[c] = "valid"
    /\ pc[c] = "returned" => "SUCCEEDED" \in Written(c)

\* What the lease does cover: if it is longer than both appends and the
\* launch can take, no adapter of a quiescent operation is started when the
\* robot may move again.  Thirty seconds and the margin are.  The adapter's own
\* time comes after that: if it runs to its deadline it may outlast the lease.
StartsUnderLease ==
  2 * AppendTime + Overhead < Limit + Margin =>
    \A c \in Calls : pc[c] = "launching" /\ kind[c] = "quiet" => lease[c] > 0

\* However long a lock is held, a supervisor thinks or an adapter runs, a
\* call returns or raises, unless its process dies or its adapter neither
\* reads a long request nor exits.
CallsEnd ==
  \A c \in Calls :
    (pc[c] # "idle" ~> pc[c] \in Ended) \/ (c \in Long /\ <>[](pc[c] = "feeding"))
=============================================================================

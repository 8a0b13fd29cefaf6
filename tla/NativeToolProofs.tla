-------------------------- MODULE NativeToolProofs --------------------------
(***************************************************************************)
(* For any catalog, clients, budget and faults: the summary of a native    *)
(* tool run is the whole session, every result it counts is on disk and in *)
(* the audit, and the canary gate's comparison of counts says what it is   *)
(* meant to say.                                                           *)
(***************************************************************************)
EXTENDS NativeToolRun, FiniteSetTheorems, TLAPS

Summed == {"gating", "recording", "recorded"}
Starting == {"baseline", "probing", "parity"}

(***************************************************************************)
(* Who may be inside the session: the baseline call before the broker      *)
(* exists, later the broker's thread alone.                                *)
(***************************************************************************)
Inside ==
  /\ locked <=> step # "none"
  /\ step # "none" <=> phase = "probing" \/ server = "busy"
  /\ phase \in Starting => server = "off"
  /\ phase = "baseline" => calls = 0 /\ answered = {}
  /\ step # "none" => calls > 0
  /\ step = "running" => call \in Tools
  /\ step \in {"keeping", "auditing"} => call \in Results /\ call.index = calls
  /\ server \notin {"off", "accept", "over", "dead"} => conn \in Clients /\ client[conn] # "idle"
  /\ server = "handle" => request[conn] \in Tools

\* What is recorded has a number of its own, and stands in its artifact and the audit.
Kept ==
  /\ \A r \in results :
       /\ r.index \in artifacts /\ Entry(r) \in written
       /\ r.index <= calls
       /\ step # "none" => r.index < calls
       /\ \A q \in results : q.index = r.index => q = r
  /\ step = "auditing" => calls \in artifacts

\* A result "limited" by a missing network failed or timed out.
Cut(r) == r.limited => r.status \in {"FAILED", "TIMEOUT"}
Limits ==
  /\ IsFiniteSet(results)
  /\ \A r \in results : Cut(r)
  /\ step \in {"keeping", "auditing"} => Cut(call)

\* A client is told of what is recorded.
Told ==
  /\ answered \subseteq {r.index : r \in results}
  /\ server = "sending" => calls \in {r.index : r \in results}

\* Nobody gets into a closed session, so what is summed up stays the whole.
Sealed ==
  /\ phase \in {"collecting"} \cup Summed => closed
  /\ phase \in Summed => step = "none" /\ summary = results
  /\ summary \subseteq results /\ IsFiniteSet(summary)
  /\ phase \notin Starting \cup {"raised"} => parity # "none"
  /\ phase \notin {"recording", "recorded", "raised"} => gate = "none"
  /\ gate = "PASS" => ~Blocked /\ parity # "none"

NativeInv == TypeOK /\ Inside /\ Kept /\ Limits /\ Told /\ Sealed

\* The invariant holds before the tool is planned.
LEMMA InitNativeInv == ASSUME Init PROVE NativeInv
<1> USE NativeAssumption DEF Init
<1>1. FlagsOK
  BY DEF FlagsOK
<1>2. ThreadsOK /\ SessionOK
  BY DEF ThreadsOK, SessionOK
<1>3. Inside
  BY DEF Inside, Starting
<1>4. Kept /\ Limits /\ Told
  BY FS_EmptySet DEF Kept, Limits, Told
<1>5. Sealed
  BY FS_EmptySet DEF Sealed, Summed, Starting
<1> QED BY <1>1, <1>2, <1>3, <1>4, <1>5 DEF NativeInv, TypeOK

(***************************************************************************)
(* The gate's verdict depends on the summary and the comparison alone.     *)
(***************************************************************************)
LEMMA BlockedStays == ASSUME UNCHANGED <<summary, parity>> PROVE Blocked' = Blocked
  BY DEF Blocked, Count

(***************************************************************************)
(* What a tool may come back with: "limited" by a missing network only if  *)
(* it failed or timed out, since no tool that needs the network has return *)
(* codes that mean "unavailable".                                          *)
(***************************************************************************)
LEMMA OutcomesAreCut ==
  ASSUME NEW t \in Tools, NEW o \in Outcomes(t)
  PROVE  /\ o.status \in Statuses /\ o.limited \in BOOLEAN /\ o.truncated \in BOOLEAN
         /\ Cut(o)
  BY DEF Outcomes, Coded, Cut, Statuses

(***************************************************************************)
(* A call that is let in has a number of its own, within the budget.       *)
(***************************************************************************)
LEMMA EntersWithinBudget ==
  ASSUME SessionOK, ~Refused
  PROVE  calls + 1 \in 1..MaxCalls
  BY NativeAssumption DEF Refused, SessionOK

\* What may be recorded of a call.
Entries == (1..MaxCalls) \X (Statuses \cup {"TRUNCATED"})

(***************************************************************************)
(* An append, also one that raises, takes no record away.                  *)
(***************************************************************************)
LEMMA AppendKeepsAudit ==
  ASSUME SessionOK, NEW E \in SUBSET Entries, (Append(E) /\ UNCHANGED faults) \/ AppendFails(E)
  PROVE  /\ written \subseteq written' /\ written' \subseteq Entries /\ hidden' \subseteq written'
         /\ tail' \in {"whole", "torn"} /\ faults' \in 0..MaxFaults
<1>1. /\ written \subseteq Entries /\ hidden \subseteq written /\ tail \in {"whole", "torn"}
      /\ faults \in 0..MaxFaults
  BY DEF SessionOK, Entries
<1>2. ASSUME Append(E)
      PROVE  /\ written \subseteq written' /\ written' \subseteq Entries
             /\ hidden' \subseteq written' /\ tail' \in {"whole", "torn"}
  BY <1>1, <1>2 DEF Append
<1>3. CASE Append(E) /\ UNCHANGED faults
  BY <1>1, <1>2, <1>3
<1>4. CASE AppendFails(E)
  <2>1. faults' \in 0..MaxFaults
    BY <1>1, <1>4, NativeAssumption DEF AppendFails, Fault
  <2> QED BY <1>1, <1>2, <1>4, <2>1 DEF AppendFails, audit
<1> QED BY <1>3, <1>4

(***************************************************************************)
(* The invocation that holds the session's lock.                           *)
(***************************************************************************)
LEMMA SessionKeepsInv == ASSUME NativeInv, Session PROVE NativeInv'
<1> USE NativeAssumption DEF NativeInv, TypeOK, Inside, quiet, process, clients, report, audit
<1>1. ASSUME RunTool PROVE NativeInv'
  <2> USE <1>1 DEF RunTool, End, Unlock
  <2>1. FlagsOK'
    BY DEF FlagsOK
  <2>7. ThreadsOK'
    BY DEF ThreadsOK
  <2>2. /\ step' = "keeping" => call' \in Results /\ call'.index = calls /\ Cut(call')
        /\ step' # "keeping" => call' \in {call, Host}
    <3>1. CASE step' = "keeping"
      <4>1. PICK o \in Outcomes(call) :
              call' = [index |-> calls, status |-> o.status, limited |-> o.limited,
                       truncated |-> o.truncated]
        BY <3>1
      <4> QED BY <3>1, <4>1, OutcomesAreCut DEF SessionOK, Results, Cut
    <3> QED BY <3>1
  <2>3. SessionOK'
    BY <2>2 DEF SessionOK
  <2>4. Inside'
    BY <2>2 DEF Starting
  <2>5. (Kept /\ Limits /\ Told)'
    BY <2>2 DEF Kept, Limits, Told
  <2>6. Sealed'
    <3>1. Blocked' = Blocked /\ UNCHANGED <<summary, parity, gate, closed, results>>
      BY BlockedStays
    <3>2. phase' \in {phase, "raised"} /\ phase \notin Summed
      BY DEF Sealed, Summed
    <3> QED BY <3>1, <3>2 DEF Sealed, Starting, Summed
  <2> QED BY <2>1, <2>7, <2>3, <2>4, <2>5, <2>6
<1>2. ASSUME Keep PROVE NativeInv'
  <2> USE <1>2
  <2>1. calls \in 1..MaxCalls
    BY DEF Keep, SessionOK
  <2>2. /\ step' \in {"auditing", "none"} /\ call' \in {call, Host}
        /\ artifacts' \in {artifacts, artifacts \cup {calls}}
        /\ UNCHANGED faults \/ Fault
        /\ UNCHANGED <<calls, results, summary, answered, audit, parity, gate>>
    BY DEF Keep, End
  <2>3. FlagsOK'
    BY DEF FlagsOK, Keep, End, Unlock
  <2>4. ThreadsOK'
    BY DEF ThreadsOK, Keep, End
  <2>5. SessionOK'
    BY <2>1, <2>2 DEF SessionOK, Fault
  <2>6. (Inside /\ Kept /\ Limits /\ Told)'
    BY DEF Keep, End, Unlock, Starting, Kept, Limits, Told
  <2>7. Sealed'
    <3>1. Blocked' = Blocked /\ UNCHANGED <<summary, parity, gate, closed, results>>
      BY BlockedStays DEF Keep
    <3>2. phase' \in {phase, "raised"} /\ phase \notin Summed
      BY DEF Keep, End, Sealed, Summed
    <3> QED BY <3>1, <3>2 DEF Sealed, Starting, Summed
  <2> QED BY <2>3, <2>4, <2>5, <2>6, <2>7
<1>3. ASSUME Audit PROVE NativeInv'
  <2> USE <1>3
  <2>1. FlagsOK'
    BY DEF Audit, FlagsOK, End, Unlock
  <2>2. ThreadsOK'
    BY DEF Audit, ThreadsOK, End
  <2>3. call \in Results /\ call.index = calls /\ step = "auditing" /\ Entry(call) \in Entries
    <3>1. call \in Results /\ call.index = calls /\ step = "auditing"
      BY DEF Audit
    <3> QED BY <3>1 DEF Results, Entry, Entries
  <2>4. /\ (Append({Entry(call)}) /\ UNCHANGED faults) \/ AppendFails({Entry(call)})
        /\ \/ results' = results
           \/ results' = results \cup {call} /\ Append({Entry(call)})
    <3>1. \/ Append({Entry(call)}) /\ Listed(TRUE) /\ UNCHANGED faults
          \/ AppendFails({Entry(call)}) /\ Listed(FALSE)
      BY DEF Audit
    <3>2. CASE Append({Entry(call)}) /\ Listed(TRUE) /\ UNCHANGED faults
      BY <3>2 DEF Listed
    <3>3. CASE AppendFails({Entry(call)}) /\ Listed(FALSE)
      BY <3>3 DEF Listed
    <3> QED BY <3>1, <3>2, <3>3
  <2>5. /\ written \subseteq written' /\ written' \subseteq Entries /\ hidden' \subseteq written'
        /\ tail' \in {"whole", "torn"} /\ faults' \in 0..MaxFaults
    BY <2>3, <2>4, AppendKeepsAudit
  <2>6. /\ step' = "none" /\ call' = Host /\ locked' = FALSE
        /\ UNCHANGED <<quiet, calls, full, artifacts>>
    BY DEF Audit, End, Unlock
  <2>7. SessionOK'
    BY <2>3, <2>4, <2>5, <2>6 DEF SessionOK, Results, Entries
  <2>8. Inside'
    BY DEF Audit, End, Unlock, Starting
  <2>9. Kept'
    <3>1. results \subseteq Results /\ calls \in Nat
      BY DEF SessionOK
    <3>2. CASE UNCHANGED results
      BY <2>5, <2>6, <3>2 DEF Kept, Entry
    <3>3. CASE results' = results \cup {call} /\ Append({Entry(call)})
      <4>1. \A r \in results : r.index < calls
        BY <2>3 DEF Kept
      <4>2. calls \in artifacts' /\ UNCHANGED <<artifacts, calls>> /\ step' = "none"
        BY <2>3, <2>6 DEF Kept
      <4>3. Entry(call) \in written'
        BY <3>3 DEF Append
      <4> QED BY <2>3, <2>5, <3>1, <3>3, <4>1, <4>2, <4>3 DEF Kept, Results, Entry
    <3> QED BY <2>4, <3>2, <3>3
  <2>10. Limits'
    BY <2>3, <2>4, <2>6, FS_AddElement DEF Limits
  <2>11. Told'
    BY <2>3 DEF Told, Audit, Listed, End
  <2>12. Sealed'
    <3>1. Blocked' = Blocked /\ UNCHANGED <<summary, parity, gate, closed>> /\ results \subseteq results'
      BY <2>4, <2>6, BlockedStays
    <3>2. phase' \in {phase, "parity", "raised"} /\ phase \notin Summed
      BY <2>3 DEF Audit, End, Sealed, Summed
    <3>3. phase' = "parity" => phase = "probing"
      BY <2>3 DEF Audit, End, Starting
    <3> QED BY <3>1, <3>2, <3>3 DEF Sealed, Starting, Summed
  <2> QED BY <2>1, <2>2, <2>7, <2>8, <2>9, <2>10, <2>11, <2>12
<1>4. ASSUME Drop PROVE NativeInv'
  <2> USE <1>4
  <2> DEFINE e == <<calls, "TRUNCATED">>
  <2>1. FlagsOK'
    BY DEF FlagsOK, Drop, End, Unlock
  <2>2. ThreadsOK'
    BY DEF ThreadsOK, Drop, End
  <2>3. {e} \in SUBSET Entries /\ step = "dropping"
    BY DEF Drop, SessionOK, Entries
  <2>4. (Append({e}) /\ UNCHANGED faults) \/ AppendFails({e})
    BY DEF Drop
  <2>5. /\ written \subseteq written' /\ written' \subseteq Entries /\ hidden' \subseteq written'
        /\ tail' \in {"whole", "torn"} /\ faults' \in 0..MaxFaults
    BY <2>3, <2>4, AppendKeepsAudit
  <2>6. /\ step' = "none" /\ call' = Host /\ locked' = FALSE
        /\ UNCHANGED <<quiet, calls, full, results, artifacts>>
    BY DEF Drop, End, Unlock
  <2>7. SessionOK'
    BY <2>5, <2>6 DEF SessionOK, Entries
  <2>8. (Inside /\ Kept /\ Limits /\ Told)'
    <3>1. Inside' /\ Limits' /\ Told'
      BY DEF Starting, Limits, Told, Drop, End, Unlock
    <3>2. Kept'
      BY <2>5, <2>6 DEF Kept, Entry
    <3> QED BY <3>1, <3>2
  <2>9. Sealed'
    BY BlockedStays DEF Sealed, Summed, Starting, Drop, End
  <2> QED BY <2>1, <2>2, <2>7, <2>8, <2>9
<1> QED BY <1>1, <1>2, <1>3, <1>4 DEF Session

(***************************************************************************)
(* The broker's thread, connection by connection.                           *)
(***************************************************************************)
LEMMA ServeKeepsInv == ASSUME NativeInv, Serve PROVE NativeInv'
<1> USE NativeAssumption DEF NativeInv, TypeOK, Inside, process, clients, invocation, report, audit
<1>1. ASSUME NEW c \in Clients, Accept(c) PROVE NativeInv'
  <2> USE <1>1 DEF Accept
  <2>1. FlagsOK' /\ ThreadsOK'
    BY DEF FlagsOK, ThreadsOK
  <2>2. SessionOK'
    BY DEF SessionOK
  <2>3. (Inside /\ Kept /\ Limits /\ Told)'
    BY DEF Starting, Kept, Limits, Told
  <2>4. Sealed'
    BY BlockedStays DEF Sealed, Summed, Starting
  <2> QED BY <2>1, <2>2, <2>3, <2>4
<1>2. ASSUME Leave PROVE NativeInv'
  <2> USE <1>2 DEF Leave
  <2>1. FlagsOK' /\ ThreadsOK'
    BY DEF FlagsOK, ThreadsOK
  <2>2. SessionOK'
    BY DEF SessionOK
  <2>3. (Inside /\ Kept /\ Limits /\ Told)'
    BY DEF Starting, Kept, Limits, Told
  <2>4. Sealed'
    BY BlockedStays DEF Sealed, Summed, Starting
  <2> QED BY <2>1, <2>2, <2>3, <2>4
<1>3. ASSUME Read PROVE NativeInv'
  <2> USE <1>3 DEF Read
  <2>1. FlagsOK' /\ ThreadsOK'
    BY DEF FlagsOK, ThreadsOK
  <2>2. SessionOK'
    BY DEF SessionOK
  <2>3. (Inside /\ Kept /\ Limits /\ Told)'
    BY DEF ThreadsOK, Starting, Kept, Limits, Told
  <2>4. Sealed'
    BY BlockedStays DEF Sealed, Summed, Starting
  <2> QED BY <2>1, <2>2, <2>3, <2>4
<1>4. ASSUME Handle PROVE NativeInv'
  <2>1. CASE Refused
    <3> USE <1>4, <2>1 DEF Handle
    <3>1. FlagsOK' /\ ThreadsOK'
      BY DEF FlagsOK, ThreadsOK
    <3>2. SessionOK'
      BY DEF SessionOK
    <3>3. (Inside /\ Kept /\ Limits /\ Told)'
      BY DEF Starting, Kept, Limits, Told
    <3>4. Sealed'
      BY BlockedStays DEF Sealed, Starting, Summed
    <3> QED BY <3>1, <3>2, <3>3, <3>4
  <2>2. CASE ~Refused
    <3>1. calls + 1 \in 1..MaxCalls
      BY <2>2, EntersWithinBudget
    <3>2. ~closed /\ step = "none" /\ server = "handle" /\ request[conn] \in Tools
      BY <1>4, <2>2 DEF Refused, Handle
    <3>3. /\ calls' = calls + 1 /\ call' \in Tools /\ step' = "running" /\ locked'
          /\ server' = "busy"
          /\ UNCHANGED <<phase, conn, answered, client, request, results, artifacts, audit, parity,
                         gate, summary, faults, closed>>
      BY <1>4, <2>2, <3>2 DEF Handle, Enter
    <3>4. FlagsOK'
      BY <1>4, <2>2 DEF Handle, Enter, FlagsOK
    <3>5. ThreadsOK'
      BY <1>4, <3>3 DEF Handle, ThreadsOK
    <3>6. SessionOK'
      BY <3>1, <3>3 DEF SessionOK
    <3>7. (Inside /\ Kept /\ Limits /\ Told)'
      BY <3>1, <3>2, <3>3 DEF Kept, Limits, Told, Starting, SessionOK, Entry
    <3>8. Sealed'
      BY <3>2, <3>3, BlockedStays DEF Sealed, Summed, Starting
    <3> QED BY <3>4, <3>5, <3>6, <3>7, <3>8
  <2> QED BY <2>1, <2>2
<1>5. ASSUME Send PROVE NativeInv'
  <2> USE <1>5 DEF Send
  <2>1. FlagsOK' /\ ThreadsOK'
    BY DEF FlagsOK, ThreadsOK
  <2>2. SessionOK'
    <3>1. server = "sending" => calls \in 1..MaxCalls
      BY DEF SessionOK, Told, Results
    <3> QED BY <3>1 DEF SessionOK
  <2>3. (Inside /\ Kept /\ Limits /\ Told)'
    BY DEF Starting, Kept, Limits, Told
  <2>4. Sealed'
    BY BlockedStays DEF Sealed, Summed, Starting
  <2> QED BY <2>1, <2>2, <2>3, <2>4
<1> QED BY <1>1, <1>2, <1>3, <1>4, <1>5 DEF Serve

(***************************************************************************)
(* The executor's thread.                                                  *)
(***************************************************************************)
LEMMA ExecuteKeepsInv == ASSUME NativeInv, Execute \/ Deadline PROVE NativeInv'
<1> USE NativeAssumption DEF NativeInv, TypeOK, Inside, others, process, broker, clients, invocation, report, audit
<1>1. ASSUME Baseline PROVE NativeInv'
  <2>1. CASE Refused
    <3> USE <1>1, <2>1 DEF Baseline
    <3>1. FlagsOK' /\ ThreadsOK'
      BY DEF FlagsOK, ThreadsOK
    <3>2. SessionOK'
      BY DEF SessionOK
    <3>3. (Inside /\ Kept /\ Limits /\ Told)'
      BY DEF Starting, Kept, Limits, Told
    <3>4. Sealed'
      BY BlockedStays DEF Sealed, Starting, Summed
    <3> QED BY <3>1, <3>2, <3>3, <3>4
  <2>2. CASE ~Refused
    <3>1. calls + 1 \in 1..MaxCalls
      BY <2>2, EntersWithinBudget
    <3>2. step = "none" /\ server = "off" /\ Host \in Tools /\ phase = "baseline"
      BY <1>1 DEF Baseline, Starting
    <3>3. /\ calls' = calls + 1 /\ call' \in Tools /\ step' = "running" /\ locked'
          /\ phase' = "probing"
          /\ UNCHANGED <<server, conn, answered, client, request, results, artifacts, audit, parity,
                         gate, summary, faults, closed>>
      BY <1>1, <2>2, <3>2 DEF Baseline, Enter
    <3>4. FlagsOK'
      BY <1>1, <2>2 DEF Baseline, Enter, FlagsOK
    <3>5. ThreadsOK'
      BY <1>1, <3>3 DEF Baseline, ThreadsOK
    <3>6. SessionOK'
      BY <3>1, <3>3 DEF SessionOK
    <3>7. (Inside /\ Kept /\ Limits /\ Told)'
      BY <3>1, <3>2, <3>3 DEF Kept, Limits, Told, Starting, SessionOK, Entry
    <3>8. Sealed'
      BY <3>2, <3>3, BlockedStays DEF Sealed, Summed, Starting
    <3> QED BY <3>4, <3>5, <3>6, <3>7, <3>8
  <2> QED BY <2>1, <2>2
<1>2. ASSUME Launch PROVE NativeInv'
  <2> USE <1>2 DEF Launch, Fault
  <2>1. FlagsOK' /\ ThreadsOK'
    BY DEF FlagsOK, ThreadsOK
  <2>2. SessionOK'
    BY DEF SessionOK
  <2>3. (Inside /\ Kept /\ Limits /\ Told)'
    BY DEF Starting, Kept, Limits, Told
  <2>4. Sealed'
    BY BlockedStays DEF Sealed, Summed, Starting
  <2> QED BY <2>1, <2>2, <2>3, <2>4
<1>3. ASSUME AgentReturns PROVE NativeInv'
  <2> USE <1>3 DEF AgentReturns
  <2>1. FlagsOK' /\ ThreadsOK'
    BY DEF FlagsOK, ThreadsOK
  <2>2. SessionOK'
    BY DEF SessionOK
  <2>3. (Inside /\ Kept /\ Limits /\ Told)'
    BY DEF Starting, Kept, Limits, Told
  <2>4. Sealed'
    BY BlockedStays DEF Sealed, Summed, Starting
  <2> QED BY <2>1, <2>2, <2>3, <2>4
<1>4. ASSUME StopBroker PROVE NativeInv'
  <2> USE <1>4 DEF StopBroker
  <2>1. FlagsOK' /\ ThreadsOK'
    BY DEF FlagsOK, ThreadsOK
  <2>2. SessionOK'
    BY DEF SessionOK
  <2>3. (Inside /\ Kept /\ Limits /\ Told)'
    BY DEF Starting, Kept, Limits, Told
  <2>4. Sealed'
    BY BlockedStays DEF Sealed, Summed, Starting
  <2> QED BY <2>1, <2>2, <2>3, <2>4
<1>5. ASSUME Join PROVE NativeInv'
  <2> USE <1>5 DEF Join
  <2>1. FlagsOK' /\ ThreadsOK'
    BY DEF FlagsOK, ThreadsOK
  <2>2. SessionOK'
    BY DEF SessionOK
  <2>3. (Inside /\ Kept /\ Limits /\ Told)'
    BY DEF Starting, Kept, Limits, Told
  <2>4. Sealed'
    BY BlockedStays DEF Sealed, Summed, Starting
  <2> QED BY <2>1, <2>2, <2>3, <2>4
<1>6. ASSUME Close PROVE NativeInv'
  <2> USE <1>6
  <2>1. FlagsOK' /\ ThreadsOK'
    BY DEF FlagsOK, ThreadsOK, Close
  <2>2. /\ written \subseteq written' /\ written' \subseteq Entries /\ hidden' \subseteq written'
        /\ tail' \in {"whole", "torn"} /\ faults' \in 0..MaxFaults
    BY AppendKeepsAudit DEF Close
  <2>3. SessionOK'
    BY <2>2 DEF SessionOK, Close, Entries
  <2>4. (Inside /\ Kept /\ Limits /\ Told)'
    <3>1. Inside' /\ Limits' /\ Told'
      BY DEF Starting, Limits, Told, Close
    <3>2. Kept'
      BY <2>2 DEF Kept, Entry, Close
    <3> QED BY <3>1, <3>2
  <2>5. Sealed'
    BY BlockedStays DEF Sealed, Summed, Starting, Close
  <2> QED BY <2>1, <2>3, <2>4, <2>5
<1>7. ASSUME Collect PROVE NativeInv'
  <2> USE <1>7 DEF Collect, Readable, Fault
  <2>1. FlagsOK' /\ ThreadsOK'
    BY DEF FlagsOK, ThreadsOK
  <2>2. SessionOK'
    BY DEF SessionOK
  <2>3. (Inside /\ Kept /\ Limits /\ Told)'
    BY DEF Starting, Kept, Limits, Told
  <2>4. Sealed'
    <3>1. /\ summary' = results /\ step = "none" /\ closed /\ gate = "none" /\ parity # "none"
          /\ UNCHANGED <<parity, gate, results, step, closed>> /\ phase' \in {"gating", "raised"}
      BY DEF Sealed, Starting
    <3> QED BY <3>1 DEF Sealed, Starting, Summed, Limits
  <2> QED BY <2>1, <2>2, <2>3, <2>4
<1>8. ASSUME Gate PROVE NativeInv'
  <2> USE <1>8 DEF Gate, Fault
  <2>1. FlagsOK' /\ ThreadsOK'
    BY DEF FlagsOK, ThreadsOK
  <2>2. SessionOK'
    BY DEF SessionOK
  <2>3. (Inside /\ Kept /\ Limits /\ Told)'
    BY DEF Starting, Kept, Limits, Told
  <2>4. Sealed'
    BY BlockedStays DEF Sealed, Summed, Starting
  <2> QED BY <2>1, <2>2, <2>3, <2>4
<1>9. ASSUME Record PROVE NativeInv'
  <2> USE <1>9 DEF Record, Fault
  <2>1. FlagsOK' /\ ThreadsOK'
    BY DEF FlagsOK, ThreadsOK
  <2>2. SessionOK'
    BY DEF SessionOK
  <2>3. (Inside /\ Kept /\ Limits /\ Told)'
    BY DEF Starting, Kept, Limits, Told
  <2>4. Sealed'
    BY BlockedStays DEF Sealed, Summed, Starting
  <2> QED BY <2>1, <2>2, <2>3, <2>4
<1>10. ASSUME Deadline PROVE NativeInv'
  <2> USE <1>10 DEF Deadline
  <2>1. FlagsOK' /\ ThreadsOK'
    BY DEF FlagsOK, ThreadsOK
  <2>2. SessionOK'
    BY DEF SessionOK
  <2>3. (Inside /\ Kept /\ Limits /\ Told)'
    BY DEF Starting, Kept, Limits, Told
  <2>4. Sealed'
    BY BlockedStays DEF Sealed, Summed, Starting
  <2> QED BY <2>1, <2>2, <2>3, <2>4
<1> QED BY <1>1, <1>2, <1>3, <1>4, <1>5, <1>6, <1>7, <1>8, <1>9, <1>10 DEF Execute

(***************************************************************************)
(* The agent, its commands and the clock.                                  *)
(***************************************************************************)
LEMMA SurroundingsKeepInv == ASSUME NativeInv, Surroundings PROVE NativeInv'
<1> USE NativeAssumption DEF NativeInv, TypeOK, Inside, process, broker, clients, invocation, report, audit
<1>1. ASSUME NEW c \in Clients, Ask(c) PROVE NativeInv'
  <2> USE <1>1 DEF Ask
  <2>1. FlagsOK' /\ ThreadsOK'
    BY DEF FlagsOK, ThreadsOK
  <2>2. SessionOK'
    BY DEF SessionOK
  <2>3. (Inside /\ Kept /\ Limits /\ Told)'
    BY DEF ThreadsOK, Starting, Kept, Limits, Told
  <2>4. Sealed'
    BY BlockedStays DEF Sealed, Summed, Starting
  <2> QED BY <2>1, <2>2, <2>3, <2>4
<1>2. ASSUME NEW c \in Clients, GiveUp(c) PROVE NativeInv'
  <2> USE <1>2 DEF GiveUp
  <2>1. FlagsOK' /\ ThreadsOK'
    BY DEF FlagsOK, ThreadsOK
  <2>2. SessionOK'
    BY DEF SessionOK
  <2>3. (Inside /\ Kept /\ Limits /\ Told)'
    BY DEF Starting, Kept, Limits, Told
  <2>4. Sealed'
    BY BlockedStays DEF Sealed, Summed, Starting
  <2> QED BY <2>1, <2>2, <2>3, <2>4
<1>3. ASSUME AgentEnds PROVE NativeInv'
  <2> USE <1>3 DEF AgentEnds
  <2>1. FlagsOK' /\ ThreadsOK'
    BY DEF FlagsOK, ThreadsOK
  <2>2. SessionOK'
    BY DEF SessionOK
  <2>3. (Inside /\ Kept /\ Limits /\ Told)'
    BY DEF Starting, Kept, Limits, Told
  <2>4. Sealed'
    BY BlockedStays DEF Sealed, Summed, Starting
  <2> QED BY <2>1, <2>2, <2>3, <2>4
<1>4. ASSUME OrphanEnds PROVE NativeInv'
  <2> USE <1>4 DEF OrphanEnds
  <2>1. FlagsOK'
    BY DEF FlagsOK
  <2>5. ThreadsOK'
    BY DEF ThreadsOK
  <2>2. SessionOK'
    BY DEF SessionOK
  <2>3. (Inside /\ Kept /\ Limits /\ Told)'
    BY DEF Starting, Kept, Limits, Told
  <2>4. Sealed'
    BY BlockedStays DEF Sealed, Summed, Starting
  <2> QED BY <2>1, <2>5, <2>2, <2>3, <2>4
<1>5. ASSUME Expire PROVE NativeInv'
  <2> USE <1>5 DEF Expire
  <2>1. FlagsOK' /\ ThreadsOK'
    BY DEF FlagsOK, ThreadsOK
  <2>2. SessionOK'
    BY DEF SessionOK
  <2>3. (Inside /\ Kept /\ Limits /\ Told)'
    BY DEF Starting, Kept, Limits, Told
  <2>4. Sealed'
    BY BlockedStays DEF Sealed, Summed, Starting
  <2> QED BY <2>1, <2>2, <2>3, <2>4
<1> QED BY <1>1, <1>2, <1>3, <1>4, <1>5 DEF Surroundings

\* Every step of the run keeps the invariant.
LEMMA NextNativeInv == NativeInv /\ [Next]_vars => NativeInv'
<1> SUFFICES ASSUME NativeInv, [Next]_vars PROVE NativeInv'
  OBVIOUS
<1>1. CASE UNCHANGED vars
  <2> USE <1>1 DEF NativeInv, TypeOK, vars, process, broker, clients, invocation, report, audit
  <2>1. FlagsOK' /\ ThreadsOK'
    BY DEF FlagsOK, ThreadsOK
  <2>2. SessionOK'
    BY DEF SessionOK
  <2>3. (Inside /\ Kept /\ Limits /\ Told)'
    BY DEF Inside, Starting, Kept, Limits, Told
  <2>4. Sealed'
    BY BlockedStays DEF Sealed, Summed, Starting
  <2> QED BY <2>1, <2>2, <2>3, <2>4
<1> QED BY <1>1, SessionKeepsInv, ServeKeepsInv, ExecuteKeepsInv, SurroundingsKeepInv DEF Next

\* The inductive invariant of a native tool run: what has been counted, kept,
\* summarised and blocked agrees with where the run stands, in every reachable state.
THEOREM NativeInvariant == Spec => []NativeInv
  BY InitNativeInv, NextNativeInv, PTL DEF Spec

(***************************************************************************)
(* Type correctness of a native tool run: in particular no more calls than *)
(* the budget has, however the baseline, the broker and the faults mix.    *)
(***************************************************************************)
THEOREM NativeTypeCorrect == Spec => []TypeOK
<1>1. NativeInv => TypeOK
  BY DEF NativeInv
<1> QED BY <1>1, NativeInvariant, PTL

(***************************************************************************)
(* What the executor sums up is the whole session, although it closes the  *)
(* session without its lock and does not wait for a broker that is late:   *)
(* the lock it takes to read the results makes it wait for the invocation  *)
(* underway, and no other can enter.                                       *)
(***************************************************************************)
THEOREM SummariesAreWhole == Spec => []SummaryIsWhole
<1>1. NativeInv => SummaryIsWhole
  BY DEF NativeInv, Told, Sealed, Summed, SummaryIsWhole
<1> QED BY <1>1, NativeInvariant, PTL

\* Every torn line hides one record, or waits for one.
Torn == IF tail = "torn" THEN 1 ELSE 0
Hiding == IsFiniteSet(hidden) /\ Cardinality(hidden) + Torn <= faults

\* A record on a torn line takes the place the line kept for one.
LEMMA AppendTakesPlace ==
  ASSUME SessionOK, Hiding, NEW E, E = {} \/ (\E e : E = {e}), Append(E)
  PROVE  IsFiniteSet(hidden') /\ Cardinality(hidden') + Torn' <= faults
<1>1. Cardinality(hidden) \in Nat /\ faults \in Nat
  BY FS_CardinalityType DEF Hiding, SessionOK
<1>2. CASE tail = "torn"
  <2>1. hidden' = hidden \cup E /\ Torn' = 0 /\ Torn = 1
    BY <1>2 DEF Append, Torn
  <2>2. /\ IsFiniteSet(hidden')
        /\ Cardinality(hidden') \in {Cardinality(hidden), Cardinality(hidden) + 1}
    <3>1. CASE E = {}
      BY <2>1, <3>1 DEF Hiding
    <3>2. ASSUME NEW e, E = {e}
               PROVE  /\ IsFiniteSet(hidden')
                      /\ Cardinality(hidden') \in {Cardinality(hidden), Cardinality(hidden) + 1}
      BY <2>1, <3>2, FS_AddElement DEF Hiding
    <3> QED BY <3>1, <3>2
  <2> QED BY <1>1, <2>1, <2>2 DEF Hiding
<1>3. CASE tail # "torn"
  <2>1. hidden' = hidden /\ Torn' = 0 /\ Torn = 0
    BY <1>3 DEF Append, Torn
  <2> QED BY <1>1, <2>1 DEF Hiding
<1> QED BY <1>2, <1>3

\* Whether an append raises or not, its line hides what it kept room for.
LEMMA AppendHiding ==
  ASSUME SessionOK, Hiding, NEW E, E = {} \/ (\E e : E = {e}),
         (Append(E) /\ UNCHANGED faults) \/ AppendFails(E)
  PROVE  Hiding'
<1>1. Cardinality(hidden) \in Nat /\ faults \in Nat /\ Torn \in {0, 1}
  BY FS_CardinalityType DEF Hiding, SessionOK, Torn
<1>2. CASE Append(E) /\ UNCHANGED faults
  BY <1>2, AppendTakesPlace DEF Hiding
<1>3. CASE AppendFails(E)
  <2>1. faults' = faults + 1
    BY <1>3 DEF AppendFails, Fault
  <2>2. CASE UNCHANGED audit
    BY <1>1, <2>1, <2>2 DEF Hiding, Torn, audit
  <2>3. CASE Append(E)
    <3>1. IsFiniteSet(hidden') /\ Cardinality(hidden') + Torn' <= faults
      BY <2>3, AppendTakesPlace
    <3>2. Cardinality(hidden') \in Nat /\ Torn' \in {0, 1}
      BY <3>1, FS_CardinalityType DEF Torn
    <3> QED BY <1>1, <2>1, <3>1, <3>2 DEF Hiding
  <2>4. CASE tail' = "torn" /\ UNCHANGED <<written, hidden>>
    <3>1. Torn' = 1 /\ hidden' = hidden
      BY <2>4 DEF Torn
    <3> QED BY <1>1, <2>1, <3>1 DEF Hiding
  <2> QED BY <1>3, <2>2, <2>3, <2>4 DEF AppendFails
<1> QED BY <1>2, <1>3

\* Only an append writes to the audit, and no fault is taken back.
LEMMA NextHiding == ASSUME SessionOK, Hiding, [Next]_vars PROVE Hiding'
<1>1. ASSUME UNCHANGED audit, UNCHANGED faults \/ Fault PROVE Hiding'
  <2>1. /\ UNCHANGED <<hidden, Torn>> /\ faults' \in {faults, faults + 1} /\ faults \in Nat
        /\ Cardinality(hidden) \in Nat /\ Torn \in {0, 1}
    BY <1>1, FS_CardinalityType DEF Fault, audit, Torn, Hiding, SessionOK
  <2> QED BY <2>1 DEF Hiding
<1>2. CASE Audit
  BY <1>2, AppendHiding DEF Audit
<1>3. CASE Drop
  BY <1>3, AppendHiding DEF Drop
<1>4. CASE Close
  BY <1>4, AppendHiding DEF Close
<1>5. CASE RunTool \/ Keep
  BY <1>1, <1>5 DEF RunTool, Keep
<1>6. CASE Serve
  BY <1>1, <1>6 DEF Serve, Accept, Leave, Read, Handle, Send
<1>7. CASE \/ Baseline \/ Launch \/ AgentReturns \/ StopBroker \/ Join \/ Collect \/ Gate \/ Record
           \/ Deadline
  BY <1>1, <1>7 DEF Baseline, Launch, AgentReturns, StopBroker, Join, Collect, Gate, Record, Deadline
<1>8. CASE Surroundings \/ UNCHANGED vars
  BY <1>1, <1>8 DEF Surroundings, Ask, GiveUp, AgentEnds, OrphanEnds, Expire, vars
<1> QED BY <1>2, <1>3, <1>4, <1>5, <1>6, <1>7, <1>8 DEF Next, Session, Execute

(***************************************************************************)
(* Every result counted has its artifact, its record in the audit and a    *)
(* number of its own, and readers of the audit miss one of these records   *)
(* per write that raised at most, whichever writes raise.                  *)
(***************************************************************************)
THEOREM SummariesAreBacked == Spec => []SummaryIsBacked
<1>1. Init => Hiding
  BY FS_EmptySet DEF Init, Hiding, Torn
<1>2. NativeInv /\ Hiding /\ [Next]_vars => Hiding'
  BY NextHiding DEF NativeInv, TypeOK
<1>3. Spec => []Hiding
  BY <1>1, <1>2, NativeInvariant, PTL DEF Spec
<1>4. ASSUME NativeInv, Hiding PROVE SummaryIsBacked
  <2> DEFINE missed == {Entry(r) : r \in summary} \cap hidden
  <2>1. IsFiniteSet(missed) /\ Cardinality(missed) <= Cardinality(hidden)
    BY <1>4, FS_Subset DEF Hiding
  <2>2. Cardinality(hidden) \in Nat /\ Cardinality(missed) \in Nat /\ Torn \in {0, 1}
    BY <1>4, <2>1, FS_CardinalityType DEF Hiding, Torn
  <2>3. Cardinality(hidden) + Torn <= faults /\ faults \in Nat
    BY <1>4 DEF Hiding, NativeInv, TypeOK, SessionOK
  <2>4. Cardinality(missed) <= faults
    BY <2>1, <2>2, <2>3
  <2>5. \A r \in summary :
          /\ r.index \in artifacts /\ Entry(r) \in written
          /\ \A q \in summary : q.index = r.index => q = r
    BY <1>4 DEF NativeInv, Kept, Sealed
  <2> QED BY <2>4, <2>5 DEF SummaryIsBacked
<1> QED BY <1>3, <1>4, NativeInvariant, PTL

(***************************************************************************)
(* Comparing the number of timeouts with the number of limited results is  *)
(* enough where no result failed: then every limited result timed out, and *)
(* a set of timeouts as large as the set of all of them is the whole set.  *)
(***************************************************************************)
LEMMA CountsDoNotHide ==
  ASSUME IsFiniteSet(summary), summary \subseteq Results, \A r \in summary : Cut(r),
         Count("FAILED") <= 0,
         Count("TIMEOUT") <= Cardinality({r \in summary : r.limited})
  PROVE  \A r \in summary : /\ r.status # "FAILED"
                            /\ r.status = "TIMEOUT" => r.limited
<1> DEFINE F == {r \in summary : r.status = "FAILED"}
           T == {r \in summary : r.status = "TIMEOUT"}
           L == {r \in summary : r.limited}
<1>1. /\ IsFiniteSet(F) /\ IsFiniteSet(T) /\ IsFiniteSet(L)
      /\ Cardinality(F) \in Nat /\ Cardinality(T) \in Nat /\ Cardinality(L) \in Nat
  BY FS_Subset, FS_CardinalityType
<1>2. F = {}
  BY <1>1, FS_EmptySet DEF Count
<1>3. L \subseteq T
  BY <1>2 DEF Cut
<1>4. Cardinality(L) = Cardinality(T)
  BY <1>1, <1>3, FS_Subset DEF Count
<1>5. T = L
  BY <1>1, <1>3, <1>4, FS_Subset
<1> QED BY <1>2, <1>5

(***************************************************************************)
(* A canary gate that passes has seen nothing that failed, was cut or      *)
(* timed out with its network there, and no difference from the baseline.  *)
(***************************************************************************)
THEOREM GatesAreTrue == Spec => []GateIsTrue
<1>1. ASSUME NativeInv PROVE GateIsTrue
  <2> SUFFICES ASSUME gate = "PASS"
               PROVE  /\ parity = "PASS" /\ summary # {}
                      /\ \A r \in summary : /\ ~r.truncated /\ r.status # "FAILED"
                                            /\ r.status = "TIMEOUT" => r.limited
    BY DEF GateIsTrue
  <2>1. ~Blocked /\ parity \in {"PASS", "DIFF"}
    BY <1>1 DEF NativeInv, TypeOK, SessionOK, Sealed
  <2>2. /\ IsFiniteSet(summary) /\ summary \subseteq Results
        /\ \A r \in summary : Cut(r)
    BY <1>1 DEF NativeInv, TypeOK, SessionOK, Sealed, Limits
  <2>3. Count("FAILED") \in Nat /\ Count("TIMEOUT") \in Nat
        /\ Cardinality({r \in summary : r.limited}) \in Nat
    BY <2>2, FS_Subset, FS_CardinalityType DEF Count
  <2>4. Count("FAILED") <= 0 /\ Count("TIMEOUT") <= Cardinality({r \in summary : r.limited})
    BY <2>1, <2>3 DEF Blocked
  <2>5. parity = "PASS" /\ summary # {} /\ \A r \in summary : ~r.truncated
    BY <2>1 DEF Blocked
  <2> QED BY <2>2, <2>4, <2>5, CountsDoNotHide
<1> QED BY <1>1, NativeInvariant, PTL
=============================================================================

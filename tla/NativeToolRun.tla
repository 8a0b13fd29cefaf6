--------------------------- MODULE NativeToolRun ---------------------------
(***************************************************************************)
(* One Adapt agent run with native tools: `CodexAdaptExecutor.execute` of  *)
(* src/rolo/stages/adapt/executor.py from the baseline call to run.json,   *)
(* with the session of src/rolo/agent_tools/session.py, the broker thread  *)
(* of broker.py that invokes it for the agent, the runner of               *)
(* native_tools.py and the canary gate of rollout.py.                      *)
(*                                                                         *)
(* The executor's thread makes the baseline call, starts the broker, waits *)
(* for the agent, stops the broker and sums up what the session recorded.  *)
(* The broker's one thread serves connections one by one.  Clients are     *)
(* commands of the agent, which wait 15 s for an answer to a tool that may *)
(* take 30 s, and may outlive the agent.  A result is its status and its   *)
(* flags; whether it exceeds the bytes left is open.  An append to the     *)
(* session's audit that raises may leave a line without its end, onto      *)
(* which the next record then goes, where no reader can parse it.          *)
(***************************************************************************)
EXTENDS Naturals, FiniteSets

CONSTANTS Tools,      \* the catalog
          Network,    \* its tools with environment_dependency "NETWORK"
          Host,       \* the tool of the baseline call
          Clients,    \* commands of the agent that talk to the broker
          NoClient,
          MaxCalls,   \* budget.max_calls
          Requests,   \* bound: requests of the clients together
          MaxFaults   \* bound: writes of artifacts that raise

ASSUME NativeAssumption ==
  /\ Network \subseteq Tools /\ Host \in Tools \ Network /\ NoClient \notin Clients
  /\ MaxCalls \in Nat \ {0} /\ Requests \in Nat /\ MaxFaults \in Nat

VARIABLES phase,      \* where the executor's thread stands
          streaming,  \* does it forward the agent's output (on_output)?
          late,       \* timeout_s is over; without one it never is
          agent,      \* the agent's process: "none", "running" or "over"
          held,       \* does a descendant of it still hold its output pipes?
          stop,       \* the broker is stopped and its socket closed
          server,     \* where the broker's thread stands
          conn,       \* the client it serves
          client,     \* client[c]: what it does
          request,    \* request[c]: the tool it asks for, or "other"
          left,       \* requests still to come
          step,       \* where the invocation inside the session's lock stands
          call,       \* that invocation: its tool and what came of it
          locked,     \* NativeToolSession._lock
          calls, full, expired, closed,  \* its counters and flags
          results,    \* its _results
          artifacts,  \* calls whose artifact is written
          written,    \* <<call, outcome>> of the records in the session's audit
          hidden,     \* those of them that went onto a torn line
          tail,       \* whether the audit ends with a "whole" line or a "torn" one
          parity,     \* status of the baseline's comparison with the direct run
          summary,    \* results that the summary counts
          gate,       \* status of the canary gate
          answered,   \* calls whose result was sent to a client (history)
          faults      \* writes that raised so far

process == <<streaming, late, agent, held>>
broker == <<stop, server, conn, answered>>
clients == <<client, request, left>>
invocation == <<step, call, locked, calls, full, results, artifacts>>
report == <<parity, summary, gate>>
audit == <<written, hidden, tail>>
vars == <<phase, process, broker, clients, invocation, expired, closed, audit, report, faults>>

Statuses == {"SUCCEEDED", "FAILED", "TIMEOUT", "UNAVAILABLE"}
Results == [index : 1..MaxCalls, status : Statuses, limited : BOOLEAN, truncated : BOOLEAN]
Over == phase \in {"recorded", "raised"}
\* The audit's record of a result.
Entry(r) == <<r.index, r.status>>

FlagsOK ==
  /\ streaming \in BOOLEAN /\ held \in BOOLEAN /\ late \in BOOLEAN /\ stop \in BOOLEAN
  /\ locked \in BOOLEAN /\ full \in BOOLEAN /\ expired \in BOOLEAN /\ closed \in BOOLEAN

\* The executor's thread, the broker's thread and the clients.
ThreadsOK ==
  /\ phase \in {"baseline", "probing", "parity", "agent", "stopping", "joining", "closing",
                "collecting", "gating", "recording", "recorded", "raised"}
  /\ agent \in {"none", "running", "over"}
  /\ server \in {"off", "accept", "read", "handle", "busy", "sending", "failing", "over", "dead"}
  /\ conn \in Clients \cup {NoClient}
  /\ client \in [Clients -> {"idle", "asking", "stalled", "gone"}]
  /\ request \in [Clients -> Tools \cup {"other"}]
  /\ left \in 0..Requests

\* The session and what is reported of it.
SessionOK ==
  /\ step \in {"none", "running", "keeping", "auditing", "dropping"}
  /\ call \in Tools \cup Results
  /\ calls \in 0..MaxCalls
  /\ results \subseteq Results /\ summary \subseteq Results
  /\ artifacts \subseteq 1..MaxCalls /\ answered \subseteq 1..MaxCalls
  /\ written \subseteq (1..MaxCalls) \X (Statuses \cup {"TRUNCATED"})
  /\ hidden \subseteq written /\ tail \in {"whole", "torn"}
  /\ parity \in {"none", "PASS", "DIFF"} /\ gate \in {"none", "PASS", "FAIL"}
  /\ faults \in 0..MaxFaults

TypeOK == FlagsOK /\ ThreadsOK /\ SessionOK

Init ==
  /\ phase = "baseline"
  /\ streaming \in BOOLEAN /\ late = FALSE /\ agent = "none" /\ held = FALSE
  /\ stop = FALSE /\ server = "off" /\ conn = NoClient /\ answered = {}
  /\ client = [c \in Clients |-> "idle"] /\ request = [c \in Clients |-> "other"]
  /\ left = Requests
  /\ step = "none" /\ locked = FALSE /\ calls = 0 /\ full = FALSE
  /\ call = Host
  /\ results = {} /\ artifacts = {} /\ expired = FALSE /\ closed = FALSE
  /\ written = {} /\ hidden = {} /\ tail = "whole"
  /\ parity = "none" /\ summary = {} /\ gate = "none" /\ faults = 0

\* A write of an artifact raises.
Fault == faults < MaxFaults /\ faults' = faults + 1

\* append_text_record: one record and its newline at the end of the audit.
Append(entries) ==
  /\ written' = written \cup entries
  /\ hidden' = IF tail = "torn" THEN hidden \cup entries ELSE hidden
  /\ tail' = "whole"

\* It raises, when nothing, all or a part of the record is in the file.
AppendFails(entries) ==
  /\ Fault
  /\ \/ UNCHANGED audit
     \/ Append(entries)
     \/ tail' = "torn" /\ UNCHANGED <<written, hidden>>

-----------------------------------------------------------------------------
(* NativeToolSession.invoke, for the executor's baseline or for the broker *)

\* A slip: a tool that needs the network has return codes that mean "unavailable".
Coded_All(t) == TRUE
\* Tools with unavailable_return_codes: none of them needs the network.
Coded(t) == t \notin Network

\* What AgentNativeRunner.run may return for a tool: without its network a tool
\* may fail or time out, and what is "unavailable" by its code has no output.
Outcomes(t) ==
  {o \in [status : Statuses, limited : BOOLEAN, truncated : BOOLEAN] :
     /\ o.limited => /\ t \in Network /\ o.status # "SUCCEEDED"
                     /\ o.status = "UNAVAILABLE" => Coded(t)
     /\ o.status = "TIMEOUT" /\ t \in Network => o.limited
     /\ o.status = "UNAVAILABLE" => ~o.truncated}

\* A slip: one call more than the budget has.
Refused_ByOne == closed \/ expired \/ calls > MaxCalls \/ full
\* _preflight and the two budgets
Refused == closed \/ expired \/ calls >= MaxCalls \/ full

Enter(t) == /\ locked' = TRUE /\ step' = "running"
            /\ calls' = calls + 1 /\ call' = t
            /\ UNCHANGED <<full, results, artifacts>>

\* A slip: the lock stays with an invocation that raises.
Unlock_OnReturn(s) == locked' = (s = "failing")
Unlock(s) == locked' = FALSE

\* The invocation ends: s is what the broker makes of it.
End(s) == /\ step' = "none" /\ call' = Host /\ Unlock(s)
          /\ IF phase = "probing"
             THEN phase' = (IF s = "sending" THEN "parity" ELSE "raised") /\ UNCHANGED server
             ELSE server' = s /\ UNCHANGED phase

quiet == <<process, stop, conn, answered, clients, expired, closed, report>>

\* The tool runs to its end or to its timeout.  Wrong modes and arguments raise
\* before it starts; they are the agent's.
RunTool ==
  /\ step = "running"
  /\ \/ \E o \in Outcomes(call) :
          /\ call' = [index |-> calls, status |-> o.status, limited |-> o.limited,
                      truncated |-> o.truncated]
          /\ step' = "keeping"
          /\ UNCHANGED <<phase, server, locked, full>>
     \/ /\ step' = "dropping" /\ full' = TRUE
        /\ UNCHANGED <<phase, server, locked, call>>
     \/ phase # "probing" /\ End("failing") /\ UNCHANGED full
  /\ UNCHANGED <<quiet, calls, results, artifacts, audit, faults>>

Keep ==
  /\ step = "keeping"
  /\ \/ artifacts' = artifacts \cup {calls} /\ step' = "auditing"
        /\ UNCHANGED <<phase, server, locked, call, faults>>
     \/ Fault /\ End("failing") /\ UNCHANGED artifacts
  /\ UNCHANGED <<quiet, calls, full, results, audit>>

\* A slip: the result is listed before it is audited.
Listed_Early(ok) == results' = results \cup {call}
Listed(ok) == results' = IF ok THEN results \cup {call} ELSE results

Audit ==
  /\ step = "auditing"
  /\ \/ Append({Entry(call)}) /\ Listed(TRUE) /\ End("sending") /\ UNCHANGED faults
     \/ AppendFails({Entry(call)}) /\ Listed(FALSE) /\ End("failing")
  /\ UNCHANGED <<quiet, calls, full, artifacts>>

\* A result that exceeds the bytes left: an audit record and an exception.
Drop ==
  /\ step = "dropping"
  /\ \/ Append({<<calls, "TRUNCATED">>}) /\ UNCHANGED faults
     \/ AppendFails({<<calls, "TRUNCATED">>})
  /\ End("failing")
  /\ UNCHANGED <<quiet, calls, full, results, artifacts>>

-----------------------------------------------------------------------------
(* NativeToolBroker._serve *)

\* A connection waits in the backlog, also when its client has gone.
Accept(c) ==
  /\ server = "accept" /\ ~stop /\ client[c] # "idle"
  /\ conn' = c /\ server' = "read"
  /\ UNCHANGED <<phase, process, stop, answered, clients, invocation, expired, closed, audit,
                 report, faults>>

\* The stop flag is seen, or the closed socket raises.
Leave ==
  /\ server = "accept" /\ stop
  /\ server' = "over"
  /\ UNCHANGED <<phase, process, stop, conn, answered, clients, invocation, expired, closed, audit,
                 report, faults>>

\* recv raises after 10 s if the client does not send: no handler, so the thread ends.
Read ==
  /\ server = "read"
  /\ server' = IF client[conn] = "stalled" THEN "dead"
               ELSE IF request[conn] = "other" THEN "failing" ELSE "handle"
  /\ UNCHANGED <<phase, process, stop, conn, answered, clients, invocation, expired, closed, audit,
                 report, faults>>

Handle ==
  /\ server = "handle" /\ ~locked
  /\ IF Refused THEN server' = "failing" /\ UNCHANGED invocation
     ELSE server' = "busy" /\ Enter(request[conn])
  /\ UNCHANGED <<phase, process, stop, conn, answered, clients, expired, closed, audit, report,
                 faults>>

\* sendall; that the client has gone may raise, and there is no handler either.
Send ==
  /\ server \in {"sending", "failing"}
  /\ IF client[conn] = "gone" THEN server' \in {"accept", "dead"} ELSE server' = "accept"
  /\ answered' = IF server = "sending" THEN answered \cup {calls} ELSE answered
  /\ client' = [client EXCEPT ![conn] = "idle"] /\ request' = [request EXCEPT ![conn] = "other"]
  /\ conn' = NoClient
  /\ UNCHANGED <<phase, process, stop, left, invocation, expired, closed, audit,
                 report, faults>>

-----------------------------------------------------------------------------
(* The agent and its commands *)

Ask(c) ==
  /\ client[c] = "idle" /\ left > 0 /\ server # "off" /\ ~stop
  /\ left' = left - 1
  /\ \/ /\ client' = [client EXCEPT ![c] = "asking"]
        /\ \E q \in Tools \cup {"other"} : request' = [request EXCEPT ![c] = q]
     \/ /\ client' = [client EXCEPT ![c] = "stalled"]
        /\ UNCHANGED request
  /\ UNCHANGED <<phase, process, broker, invocation, expired, closed, audit, report, faults>>

\* A client's 15 s are over, or its process is: what it sent can still be read.
GiveUp(c) ==
  /\ client[c] \in {"asking", "stalled"}
  /\ client' = [client EXCEPT ![c] = "gone"]
  /\ UNCHANGED <<phase, process, broker, request, left, invocation, expired, closed, audit, report,
                 faults>>

AgentEnds ==
  /\ agent = "running"
  /\ agent' = "over" /\ held' \in BOOLEAN
  /\ UNCHANGED <<phase, streaming, late, broker, clients, invocation, expired, closed, audit,
                 report, faults>>

OrphanEnds ==
  /\ held /\ agent = "over"
  /\ held' = FALSE
  /\ UNCHANGED <<phase, streaming, late, agent, broker, clients, invocation, expired, closed,
                 audit, report, faults>>

\* expires_at or max_elapsed_s; once the session is closed they make no difference.
Expire ==
  /\ ~expired /\ ~closed /\ expired' = TRUE
  /\ UNCHANGED <<phase, process, broker, clients, invocation, closed, audit, report, faults>>

-----------------------------------------------------------------------------
(* CodexAdaptExecutor.execute *)

others == <<streaming, clients, conn, answered, expired>>

Baseline ==
  /\ phase = "baseline"
  /\ IF Refused THEN phase' = "raised" /\ UNCHANGED invocation
     ELSE phase' = "probing" /\ Enter(Host)
  /\ UNCHANGED <<process, broker, clients, expired, closed, audit, report, faults>>

\* The comparison with the direct run is written, the broker and the agent start.
Launch ==
  /\ phase = "parity"
  /\ parity' \in {"PASS", "DIFF"}
  /\ \/ /\ phase' = "agent" /\ server' = "accept"
        /\ agent' \in {"running", "over"}
        /\ UNCHANGED faults
     \/ Fault /\ phase' = "raised" /\ UNCHANGED <<server, agent>>
  /\ UNCHANGED <<others, late, held, stop, invocation, closed, audit, summary, gate>>

\* timeout_s is over: the agent's process is killed, and no other.
Deadline ==
  /\ phase = "agent" /\ ~late
  /\ late' = TRUE /\ agent' = "over"
  /\ IF agent = "running" THEN held' \in BOOLEAN ELSE UNCHANGED held
  /\ UNCHANGED <<phase, others, broker, invocation, closed, audit, report, faults>>

\* The agent is over and its output read to the end, which after a timeout only
\* subprocess.run does without.
AgentReturns ==
  /\ phase = "agent" /\ agent = "over"
  /\ held => ~streaming /\ late
  /\ phase' = "stopping"
  /\ UNCHANGED <<process, broker, clients, invocation, expired, closed, audit, report, faults>>

StopBroker ==
  /\ phase = "stopping"
  /\ stop' = TRUE /\ phase' = "joining"
  /\ UNCHANGED <<process, server, others, invocation, closed, audit, report, faults>>

\* join(timeout=2): the thread has ended, or two seconds are over.
Join ==
  /\ phase = "joining"
  /\ phase' = "closing"
  /\ UNCHANGED <<process, broker, clients, invocation, expired, closed, audit, report, faults>>

\* The session is closed without its lock; then the record, of no call, may raise.
Close ==
  /\ phase = "closing"
  /\ closed' = TRUE
  /\ \/ phase' = "collecting" /\ Append({}) /\ UNCHANGED faults
     \/ phase' = "raised" /\ AppendFails({})
  /\ UNCHANGED <<process, broker, clients, invocation, expired, report>>

\* A slip: the results are read without the lock.
Readable_Always == TRUE
Readable == ~locked

Collect ==
  /\ phase = "collecting" /\ Readable
  /\ summary' = results
  /\ \/ phase' = "gating" /\ UNCHANGED faults
     \/ Fault /\ phase' = "raised"
  /\ UNCHANGED <<process, broker, clients, invocation, expired, closed, audit, parity, gate>>

Count(s) == Cardinality({r \in summary : r.status = s})

\* evaluate_native_tool_canary_gate
Blocked == \/ summary = {} \/ parity = "DIFF"
           \/ Count("FAILED") > 0
           \/ \E r \in summary : r.truncated
           \/ Count("TIMEOUT") > Cardinality({r \in summary : r.limited})

Gate ==
  /\ phase = "gating"
  /\ gate' = IF Blocked THEN "FAIL" ELSE "PASS"
  /\ \/ phase' = "recording" /\ UNCHANGED faults
     \/ Fault /\ phase' = "raised"
  /\ UNCHANGED <<process, broker, clients, invocation, expired, closed, audit, parity, summary>>

Record ==
  /\ phase = "recording"
  /\ \/ phase' = "recorded" /\ UNCHANGED faults
     \/ Fault /\ phase' = "raised"
  /\ UNCHANGED <<process, broker, clients, invocation, expired, closed, audit, report>>

Session == RunTool \/ Keep \/ Audit \/ Drop
Serve == (\E c \in Clients : Accept(c)) \/ Leave \/ Read \/ Handle \/ Send
Execute == \/ Baseline \/ Launch \/ AgentReturns \/ StopBroker \/ Join
           \/ Close \/ Collect \/ Gate \/ Record
Surroundings == (\E c \in Clients : Ask(c) \/ GiveUp(c)) \/ AgentEnds \/ OrphanEnds \/ Expire

Next == Session \/ Serve \/ Execute \/ Deadline \/ Surroundings

Spec == Init /\ [][Next]_vars

(***************************************************************************)
(* The executor's thread runs, or the tool that holds it up (subprocess.run *)
(* has its timeout).  The broker's thread need not serve anyone, neither   *)
(* the agent nor a process it leaves has to end, and no deadline has to    *)
(* pass: the default has none.                                             *)
(***************************************************************************)
FairSpec == Spec /\ WF_vars(Session \/ Execute)

-----------------------------------------------------------------------------
(* Properties *)

(***************************************************************************)
(* The summary that the handoff binds is the whole of the session: nothing *)
(* is recorded in the session after it was taken, whatever was still       *)
(* running when the broker was stopped, and what a client was told of is   *)
(* in it.                                                                  *)
(***************************************************************************)
SummaryIsWhole ==
  phase \in {"gating", "recording", "recorded"} =>
    summary = results /\ answered \subseteq {r.index : r \in summary}

(***************************************************************************)
(* Every result the summary counts has its artifact and its audit record,  *)
(* and no two share a number, whichever write raised.  Readers of the      *)
(* audit may miss a record that went onto a torn line, but no more of the  *)
(* counted ones than writes that raised.                                   *)
(***************************************************************************)
SummaryIsBacked ==
  /\ \A r \in summary :
       /\ r.index \in artifacts /\ Entry(r) \in written
       /\ \A q \in summary : q.index = r.index => q = r
  /\ Cardinality({Entry(r) : r \in summary} \cap hidden) <= faults

(***************************************************************************)
(* A gate that passes has seen no recorded call that failed, was cut or    *)
(* timed out for another reason than a missing network, and no difference  *)
(* from the direct run.  The gate compares two counts, which says so only  *)
(* because the catalog keeps them from hiding one another.                 *)
(***************************************************************************)
GateIsTrue ==
  gate = "PASS" =>
    /\ parity = "PASS" /\ summary # {}
    /\ \A r \in summary : /\ ~r.truncated /\ r.status # "FAILED"
                          /\ r.status = "TIMEOUT" => r.limited

(***************************************************************************)
(* Once the agent and what it has left are over, so is the run: neither a  *)
(* tool still running, a stalled client nor a failed write holds it up.    *)
(***************************************************************************)
RunEnds == (agent = "over" /\ ~held) ~> Over

=============================================================================

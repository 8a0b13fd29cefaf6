-------------------------- MODULE ToolGatewayProofs --------------------------
(***************************************************************************)
(* For any agents, plan, budget and results, and however often the audit   *)
(* log raises: one invocation of a session at a time, within its budget,   *)
(* no result without its record, no denial of what was done, and no        *)
(* verification that passes without having earned it.                      *)
(***************************************************************************)
EXTENDS ToolGateway, FiniteSetTheorems, SequenceTheorems, TLAPS

USE DEF audit

\* A call that has not got as far as its adapter.
Before == {"admitting", "registering", "authenticating", "listing", "closing", "locking",
           "binding", "charging", "launching"}

\* What a call c is where it stands.
Stands(p, c) ==
  /\ p \in Inside => c.inside
  /\ c.inside => p \in Inside \cup {"noting", "denying", "failing"} /\ c.job = "invoke"
  /\ p \in {"admitting", "registering"} => c.job = "open"
  /\ p = "authenticating" => c.job # "open"
  /\ p = "listing" => c.job = "list"
  /\ p = "closing" => c.job = "close"
  /\ p = "locking" => c.job = "invoke"
  /\ p \in Before => ~c.acted /\ c.size = 0
  /\ p \in Before \ {"launching"} => c.index = 0
  /\ p \in {"launching", "running"} => c.index > 0
  /\ p = "running" => c.acted /\ c.size = 0
  /\ p \in Before \cup {"running", "noting", "denying", "failing"} => c.got = "ok"
  /\ p = "noting" /\ c.job = "invoke" => c.inside /\ c.acted
  /\ p = "leaving" /\ c.got = "ok" => c.acted
  /\ c.acted => c.index > 0
  /\ c.size > 0 => c.job = "invoke"

Standing == \A t \in Threads : Stands(pc[t], call[t])

\* The lock says who is inside.
Entry ==
  /\ \A s, t \in Threads : call[s].inside /\ call[t].inside => s = t
  /\ \A t \in Threads : call[t].inside => locked
  /\ locked => \E t \in Threads : call[t].inside

\* Calls and bytes are charged before they are used.
Charged ==
  /\ ran <= calls
  /\ received <= bytes
  /\ \A d \in delivered : d.index <= calls
  /\ \A t \in Threads : call[t].inside =>
       /\ call[t].index \in {0, calls}
       /\ call[t].index > 0 => \A d \in delivered : d.index < calls
       /\ pc[t] = "launching" => ran < calls
       /\ received + call[t].size <= bytes

\* The record of a result is written before anybody gets it.
Audited ==
  /\ \A d, e \in delivered : d.index = e.index => d = e
  /\ \A d \in delivered : Noted(d) \in log
  /\ \A t \in Threads : pc[t] = "leaving" /\ call[t].got = "ok" => Noted(call[t]) \in log

\* An adapter that has run is denied only after an append has raised.
Denials ==
  errors = 0 =>
    /\ \A r \in log : r.outcome = "DENIED" => ~r.acted
    /\ \A t \in Threads : pc[t] = "denying" => ~call[t].acted

\* The planner's call is the one its stage asks for.
OnCourse ==
  /\ pc[Planner] # "idle" =>
       \/ stage = 0 /\ call[Planner].job = "open"
       \/ stage \in 1..Cases /\ call[Planner].job = "invoke"
       \/ stage = Closing /\ call[Planner].job = "close"
  /\ stage = 0 => results = <<>>
  /\ report # "none" => stage = Over

ClosedOnRecord == \E r \in log : r.action = "close" /\ r.outcome = "ALLOWED"
Earned == {d \in delivered : d.to = Planner /\ d.size > 0}
Passed == \A i \in DOMAIN results : results[i] = "PASS"
\* The planner has a whole result it has not looked at.
InHand == pc[Planner] = "returning" /\ call[Planner].got = "ok" /\ call[Planner].size > 0

\* As long as every case has passed, one whole result was earned for each.
Counted ==
  /\ IsFiniteSet(delivered)
  /\ Passed => Cardinality(Earned) = Len(results) + IF InHand THEN 1 ELSE 0
  /\ Passed /\ stage \in 1..Closing => Len(results) = stage - 1
  /\ Passed /\ stage = Over => Len(results) = Cases /\ ClosedOnRecord
  /\ stage = Closing /\ pc[Planner] = "returning" /\ call[Planner].got = "ok" => ClosedOnRecord
  /\ report = "PASS" => Passed

Secure == Standing /\ Entry /\ Charged /\ Audited /\ Denials /\ OnCourse /\ Counted
GatewayInv == TypeOK /\ Secure

\* The invariant holds before the session opens.
LEMMA InitGatewayInv == Init => GatewayInv
<1> SUFFICES ASSUME Init PROVE GatewayInv
  OBVIOUS
<1> USE GatewayAssumption DEF Init, Fresh, Threads
<1>1. FlagsOK
  BY DEF FlagsOK
<1>2. SessionOK
  BY DEF SessionOK
<1>3. ThreadsOK
  BY EmptySeq DEF ThreadsOK, Phases, Calls, Jobs
<1>4. Standing /\ Entry /\ Charged /\ Audited /\ Denials /\ OnCourse
  BY DEF Standing, Stands, Inside, Before, Entry, Charged, Audited, Denials, OnCourse, Over
<1>5. Counted
  <2>1. Earned = {} /\ ~InHand /\ Len(results) = 0
    BY DEF Earned, InHand
  <2> QED BY <2>1, FS_EmptySet DEF Counted, Over, Closing
<1> QED BY <1>1, <1>2, <1>3, <1>4, <1>5 DEF GatewayInv, Secure, TypeOK

\* The size of a result is a number.
LEMMA SizesCount == ASSUME NEW c \in Calls PROVE c.size \in Nat
<1>1. c.size \in Sizes \/ c.size = 0
  BY DEF Calls
<1>2. CASE c.size \in Sizes
  BY <1>2, GatewayAssumption
<1>3. CASE c.size = 0
  BY <1>3
<1> QED BY <1>1, <1>2, <1>3

(***************************************************************************)
(* One thread moves: to phase p, with its call now c.                      *)
(***************************************************************************)
Moved(t, p, c) ==
  /\ p \in Phases /\ c \in Calls /\ Stands(p, c)
  /\ pc' \in [Threads -> Phases] /\ pc'[t] = p
  /\ call' \in [Threads -> Calls] /\ call'[t] = c
  /\ \A u \in Threads \ {t} : pc'[u] = pc[u] /\ call'[u] = call[u]

\* An append keeps what was written, and adds at most its own record.
LEMMA AppendKeepsAudit ==
  ASSUME SessionOK, NEW t \in Threads, NEW o, Line(t, o) \in Records,
         (Record(t, o) /\ UNCHANGED errors) \/ AuditFails(t, o)
  PROVE  /\ log \subseteq log' /\ log' \subseteq log \cup {Line(t, o)}
         /\ hidden' \subseteq log' /\ log' \subseteq Records /\ tail' \in {"whole", "torn"}
         /\ errors' \in 0..MaxAuditErrors /\ (errors' = 0 => errors = 0 /\ Record(t, o))
<1>1. CASE Record(t, o) /\ UNCHANGED errors
  BY <1>1 DEF SessionOK, Record
<1>2. CASE AuditFails(t, o)
  <2>1. errors' \in 0..MaxAuditErrors /\ errors' # 0
    BY <1>2, GatewayAssumption DEF SessionOK, AuditFails
  <2>2. CASE UNCHANGED audit
    BY <2>1, <2>2 DEF SessionOK
  <2>3. CASE Record(t, o)
    BY <2>1, <2>3 DEF SessionOK, Record
  <2>4. CASE tail' = "torn" /\ UNCHANGED <<log, hidden>>
    BY <2>1, <2>4 DEF SessionOK
  <2> QED BY <1>2, <2>2, <2>3, <2>4 DEF AuditFails
<1> QED BY <1>1, <1>2

\* Every thread still stands where its call says when one of them has moved.
LEMMA MovedStanding ==
  ASSUME Standing, NEW t \in Threads, NEW p, NEW c, Moved(t, p, c)
  PROVE  Standing'
  BY DEF Moved, Standing

\* Moving one thread within its jobs keeps the threads well formed.
LEMMA MovedThreads ==
  ASSUME ThreadsOK, NEW t \in Threads, NEW p, NEW c, Moved(t, p, c), UNCHANGED <<left, plan>>
  PROVE  ThreadsOK'
  BY DEF Moved, ThreadsOK, plan

\* A thread goes on with its call as it is.
LEMMA GotoMoves ==
  ASSUME ThreadsOK, NEW t \in Threads, NEW p \in Phases, Stands(p, call[t]),
         Goto(t, p), UNCHANGED call
  PROVE  Moved(t, p, call[t])
  BY DEF Moved, ThreadsOK, Goto

\* A thread goes on with its call changed.
LEMMA SetMoves ==
  ASSUME ThreadsOK, NEW t \in Threads, NEW p \in Phases, NEW c \in Calls, Stands(p, c),
         Goto(t, p), call' = [call EXCEPT ![t] = c]
  PROVE  Moved(t, p, c)
  BY DEF Moved, ThreadsOK, Goto

(***************************************************************************)
(* A move that charges, runs and delivers nothing and lets nobody in or    *)
(* out.                                                                    *)
(***************************************************************************)
Quiet(t, p, c) ==
  /\ Moved(t, p, c)
  /\ c.job = call[t].job /\ c.inside = call[t].inside /\ c.index = call[t].index
  /\ c.size = call[t].size /\ c.acted = call[t].acted
  /\ pc[t] # "idle" /\ p # "launching" /\ (t = Planner => pc[t] # "returning")
  /\ UNCHANGED <<calls, bytes, ran, received, delivered, locked, plan>>
  /\ log \subseteq log' /\ (errors' = 0 => errors = 0)
  /\ errors' = 0 => /\ p = "denying" => ~c.acted
                    /\ \A r \in log' \ log : r.outcome = "DENIED" => ~r.acted
  /\ p = "leaving" /\ c.got = "ok" => Noted(c) \in log'
  /\ p = "returning" /\ c.got = "ok" => c.size = 0 /\ (c.job = "close" => ClosedOnRecord')

\* A step that writes nothing keeps what the session has promised.
LEMMA QuietKeepsSecure ==
  ASSUME GatewayInv, NEW t \in Threads, NEW p, NEW c, Quiet(t, p, c)
  PROVE  Secure'
<1> USE DEF GatewayInv, Secure, TypeOK, Quiet
<1>1. /\ pc'[t] = p /\ call'[t] = c
      /\ \A u \in Threads \ {t} : pc'[u] = pc[u] /\ call'[u] = call[u]
      /\ Standing'
  BY MovedStanding DEF Moved
<1>2. /\ c.job = call[t].job /\ c.inside = call[t].inside /\ c.index = call[t].index
      /\ c.size = call[t].size /\ c.acted = call[t].acted
  OBVIOUS
<1> HIDE DEF Quiet
<1>3. Entry'
  BY <1>1, <1>2 DEF Entry, Quiet
<1>4. Charged'
  BY <1>1, <1>2 DEF Charged, Quiet
<1>5. Audited'
  BY <1>1, <1>2 DEF Audited, Quiet
<1>6. Denials'
  BY <1>1, <1>2 DEF Denials, Quiet
<1>7. OnCourse'
  BY <1>1, <1>2 DEF OnCourse, Quiet, plan, Threads
<1>8. Counted'
  <2>1. Earned' = Earned /\ Passed' = Passed /\ (ClosedOnRecord => ClosedOnRecord')
    BY DEF Earned, Passed, ClosedOnRecord, Quiet, plan
  <2>2. InHand' = InHand
    BY <1>1, <1>2 DEF InHand, Quiet, Threads
  <2>3. stage = Closing /\ pc'[Planner] = "returning" /\ call'[Planner].got = "ok" => ClosedOnRecord'
    BY <1>1, <1>2, <2>1, GatewayAssumption DEF Counted, OnCourse, Quiet, Threads, Closing
  <2> QED BY <2>1, <2>2, <2>3 DEF Counted, Quiet, plan
<1> QED BY <1>1, <1>3, <1>4, <1>5, <1>6, <1>7, <1>8

(***************************************************************************)
(* A call that neither starts nor ends does not touch the plan.            *)
(***************************************************************************)
LEMMA UnderwayKeepsPlan ==
  ASSUME GatewayInv, NEW t \in Threads, NEW p, NEW c, Moved(t, p, c), c.job = call[t].job,
         pc[t] \notin {"idle", "returning"}, p # "returning",
         log \subseteq log', UNCHANGED <<delivered, plan>>
  PROVE  (OnCourse /\ Counted)'
<1> USE DEF GatewayInv, Secure
<1>1. OnCourse'
  BY DEF OnCourse, Moved, plan, Threads
<1>2. Earned' = Earned /\ Passed' = Passed /\ (ClosedOnRecord => ClosedOnRecord')
  BY DEF Earned, Passed, ClosedOnRecord, plan
<1>3. InHand' = InHand
  BY DEF InHand, Moved, Threads
<1>4. pc'[Planner] = "returning" => pc[Planner] = "returning" /\ call'[Planner] = call[Planner]
  BY DEF Moved, Threads
<1>5. Counted'
  BY <1>2, <1>3, <1>4 DEF Counted, plan
<1> QED BY <1>1, <1>5

(***************************************************************************)
(* The gateway's quiet steps.                                              *)
(***************************************************************************)
LEMMA AdmissionKeepsInv ==
  ASSUME GatewayInv, NEW t \in Threads,
         Admit(t) \/ Register(t) \/ Authenticate(t) \/ List(t) \/ Close(t) \/ Bind(t)
  PROVE  GatewayInv'
<1> USE DEF GatewayInv, TypeOK
<1>1. Stands(pc[t], call[t]) /\ call[t] \in Calls
  BY DEF Secure, Standing, ThreadsOK
<1>2. \E p \in {"denying", "failing", "registering", "noting", "listing", "closing", "locking",
              "charging"} :
        Goto(t, p) /\ Stands(p, call[t])
  <2>1. CASE Admit(t)
    BY <1>1, <2>1 DEF Admit, Stands, Inside, Before
  <2>2. CASE Register(t)
    BY <1>1, <2>2 DEF Register, Stands, Inside, Before
  <2>3. CASE Authenticate(t)
    BY <1>1, <2>3 DEF Authenticate, Stands, Inside, Before, Calls, Jobs
  <2>4. CASE List(t)
    BY <1>1, <2>4 DEF List, Stands, Inside, Before
  <2>5. CASE Close(t)
    BY <1>1, <2>5 DEF Close, Stands, Inside, Before
  <2>6. CASE Bind(t)
    BY <1>1, <2>6 DEF Bind, Stands, Inside, Before
  <2> QED BY <2>1, <2>2, <2>3, <2>4, <2>5, <2>6
<1>3. PICK p \in {"denying", "failing", "registering", "noting", "listing", "closing", "locking",
              "charging"} :
        Goto(t, p) /\ Stands(p, call[t])
  BY <1>2
<1>4. /\ UNCHANGED <<world, calls, bytes, locked, call, left, plan, audit, history, errors>>
      /\ pc[t] \in Before /\ pc[t] # "launching"
  BY DEF Admit, Register, Authenticate, List, Close, Bind, session, Before
<1>5. Quiet(t, p, call[t])
  <2>1. Moved(t, p, call[t])
    BY <1>3, <1>4, GotoMoves DEF Phases, Inside
  <2> QED BY <1>1, <1>4, <2>1 DEF Quiet, history, Stands, Before
<1>6. FlagsOK'
  BY DEF FlagsOK, Admit, Register, Authenticate, List, Close, Bind, session, consumer
<1>7. SessionOK'
  BY <1>4 DEF SessionOK, world, history
<1>8. ThreadsOK'
  BY <1>4, <1>5, MovedThreads DEF Quiet
<1> QED BY <1>5, <1>6, <1>7, <1>8, QuietKeepsSecure

(***************************************************************************)
(* Taking the session's lock.                                              *)
(***************************************************************************)
LEMMA LockKeepsInv == ASSUME GatewayInv, NEW t \in Threads, Lock(t) PROVE GatewayInv'
<1> USE DEF GatewayInv, TypeOK
<1>1. Stands(pc[t], call[t]) /\ call[t] \in Calls /\ pc[t] = "locking"
  BY DEF Secure, Standing, ThreadsOK, Lock
<1>2. FlagsOK'
  BY DEF FlagsOK, Lock, consumer
<1>3. SessionOK'
  BY DEF SessionOK, Lock, world, history
<1>4. CASE locked
  <2>1. Stands("denying", call[t])
    BY <1>1 DEF Stands, Inside, Before
  <2>2. Moved(t, "denying", call[t])
    BY <1>4, <2>1, GotoMoves DEF Lock, Phases
  <2>3. UNCHANGED locked
    BY <1>4 DEF Lock, FlagsOK
  <2>4. Quiet(t, "denying", call[t])
    BY <1>1, <2>2, <2>3 DEF Quiet, Lock, history, Stands, Before
  <2> QED BY <1>2, <1>3, <2>2, <2>4, MovedThreads, QuietKeepsSecure DEF Lock
<1>5. CASE ~locked
  <2> DEFINE c == [call[t] EXCEPT !.inside = TRUE]
  <2>1. /\ c \in Calls /\ c.inside /\ c.index = 0 /\ c.size = 0 /\ ~c.acted /\ c.got = "ok"
        /\ c.job = "invoke" /\ call[t].job = "invoke"
    BY <1>1 DEF Calls, Stands, Before
  <2>2. Stands("binding", c)
    BY <2>1 DEF Stands, Inside, Before
  <2>3. call' = [call EXCEPT ![t] = c] /\ Goto(t, "binding") /\ locked'
    BY <1>5 DEF Lock, Set
  <2> HIDE DEF c
  <2>4. Moved(t, "binding", c)
    BY <2>1, <2>2, <2>3, SetMoves DEF Phases, Inside
  <2>5. UNCHANGED <<calls, bytes, left, plan, audit, history, errors>>
    BY DEF Lock
  <2>6. \A u \in Threads : ~call[u].inside
    BY <1>5 DEF Secure, Entry
  <2>7. Entry'
    BY <2>1, <2>3, <2>4, <2>6 DEF Entry, Moved
  <2>8. Charged'
    BY <2>1, <2>4, <2>5, <2>6 DEF Secure, Charged, Moved, history, SessionOK
  <2>9. (Audited /\ Denials)'
    BY <2>1, <2>4, <2>5 DEF Secure, Audited, Denials, Moved, history
  <2>10. (OnCourse /\ Counted)'
    BY <1>1, <2>1, <2>4, <2>5, UnderwayKeepsPlan DEF history
  <2> QED BY <1>2, <1>3, <2>4, <2>5, <2>7, <2>8, <2>9, <2>10, MovedStanding, MovedThreads
          DEF Secure
<1> QED BY <1>4, <1>5

(***************************************************************************)
(* The budget is charged by the one invocation that is inside.             *)
(***************************************************************************)
LEMMA ChargeKeepsInv == ASSUME GatewayInv, NEW t \in Threads, Charge(t) PROVE GatewayInv'
<1> USE DEF GatewayInv, TypeOK
<1>1. Stands(pc[t], call[t]) /\ call[t] \in Calls /\ pc[t] = "charging"
  BY DEF Secure, Standing, ThreadsOK, Charge
<1>2. FlagsOK'
  BY DEF FlagsOK, Charge, consumer
<1>3. CASE ~Affordable
  <2>1. Stands("denying", call[t])
    BY <1>1 DEF Stands, Inside, Before
  <2>2. Moved(t, "denying", call[t])
    BY <1>3, <2>1, GotoMoves DEF Charge, Phases
  <2>3. Quiet(t, "denying", call[t])
    BY <1>1, <1>3, <2>2 DEF Quiet, Charge, history, Stands, Before
  <2>4. SessionOK'
    BY <1>3 DEF Charge, SessionOK, world, history
  <2> QED BY <1>2, <2>2, <2>3, <2>4, MovedThreads, QuietKeepsSecure DEF Charge
<1>4. CASE Affordable
  <2>1. calls + 1 \in 1..MaxCalls /\ calls \in Nat /\ bytes \in Nat /\ received \in Nat /\ ran \in Nat
    BY <1>4, GatewayAssumption DEF Affordable, SessionOK
  <2> DEFINE c == [call[t] EXCEPT !.index = calls + 1]
  <2>2. /\ c \in Calls /\ c.inside /\ c.index = calls + 1 /\ c.size = 0 /\ ~c.acted
        /\ c.got = "ok" /\ c.job = "invoke" /\ call[t].job = "invoke"
    BY <1>1, <2>1 DEF Calls, Stands, Before, Inside
  <2>3. Stands("launching", c)
    BY <2>1, <2>2 DEF Stands, Inside, Before
  <2>4. calls' = calls + 1 /\ call' = [call EXCEPT ![t] = c] /\ Goto(t, "launching")
    BY <1>4 DEF Charge, Set
  <2> HIDE DEF c
  <2>5. Moved(t, "launching", c)
    BY <2>2, <2>3, <2>4, SetMoves DEF Phases, Inside
  <2>6. UNCHANGED <<bytes, locked, left, plan, audit, history, errors>>
    BY DEF Charge
  <2>7. SessionOK'
    BY <2>1, <2>4, <2>6 DEF SessionOK, Charge, world, history
  <2>8. call[t].inside /\ \A u \in Threads \ {t} : ~call[u].inside
    BY <1>1 DEF Secure, Entry, Stands, Inside
  <2>9. Entry'
    BY <2>2, <2>5, <2>6, <2>8 DEF Secure, Entry, Moved
  <2>10. Charged'
    <3>1. received <= bytes /\ ran <= calls /\ \A d \in delivered : d.index \in Nat /\ d.index <= calls
      BY DEF Secure, Charged, SessionOK
    <3> QED BY <2>1, <2>2, <2>4, <2>5, <2>6, <2>8, <3>1 DEF Charged, Moved, history
  <2>11. (Audited /\ Denials)'
    BY <2>2, <2>5, <2>6 DEF Secure, Audited, Denials, Moved, history
  <2>12. (OnCourse /\ Counted)'
    BY <1>1, <2>2, <2>5, <2>6, UnderwayKeepsPlan DEF history
  <2> QED BY <1>2, <2>5, <2>6, <2>7, <2>9, <2>10, <2>11, <2>12, MovedStanding, MovedThreads
          DEF Secure
<1> QED BY <1>3, <1>4

(***************************************************************************)
(* The adapter starts.                                                     *)
(***************************************************************************)
LEMMA LaunchKeepsInv == ASSUME GatewayInv, NEW t \in Threads, Launch(t) PROVE GatewayInv'
<1> USE DEF GatewayInv, TypeOK
<1>1. Stands(pc[t], call[t]) /\ call[t] \in Calls /\ pc[t] = "launching"
  BY DEF Secure, Standing, ThreadsOK, Launch
<1>2. FlagsOK'
  BY DEF FlagsOK, Launch, session, consumer
<1>3. CASE Goto(t, "failing") /\ UNCHANGED <<call, ran>>
  <2>1. Stands("failing", call[t])
    BY <1>1 DEF Stands, Inside, Before
  <2>2. Moved(t, "failing", call[t])
    BY <1>3, <2>1, GotoMoves DEF Launch, Phases
  <2>3. Quiet(t, "failing", call[t])
    BY <1>1, <1>3, <2>2 DEF Quiet, Launch, session, Stands, Before
  <2>4. SessionOK'
    BY <1>3 DEF Launch, SessionOK, world, session
  <2> QED BY <1>2, <2>2, <2>3, <2>4, MovedThreads, QuietKeepsSecure DEF Launch
<1>4. CASE Goto(t, "running") /\ Set(t, "acted", TRUE) /\ ran' = ran + 1
  <2> DEFINE c == [call[t] EXCEPT !.acted = TRUE]
  <2>1. /\ c \in Calls /\ c.inside /\ c.index = call[t].index /\ c.index > 0 /\ c.size = 0 /\ c.acted
        /\ c.got = "ok" /\ c.job = "invoke" /\ call[t].job = "invoke" /\ call[t].size = 0
    BY <1>1 DEF Calls, Stands, Before, Inside
  <2>2. Stands("running", c)
    BY <2>1 DEF Stands, Inside, Before
  <2>3. call' = [call EXCEPT ![t] = c]
    BY <1>4 DEF Set
  <2> HIDE DEF c
  <2>4. Moved(t, "running", c)
    BY <1>4, <2>1, <2>2, <2>3, SetMoves DEF Phases, Inside
  <2>5. UNCHANGED <<calls, bytes, locked, left, plan, audit, delivered, received, errors>>
    BY DEF Launch, session
  <2>6. call[t].inside /\ \A u \in Threads \ {t} : ~call[u].inside
    BY <1>1 DEF Secure, Entry, Stands, Inside
  <2>7. ran < calls /\ ran \in Nat /\ calls \in 0..MaxCalls
    BY <1>1, <2>6 DEF Secure, Charged, SessionOK
  <2>8. SessionOK'
    BY <1>4, <2>5, <2>7, GatewayAssumption DEF SessionOK, Launch, world
  <2>9. Entry'
    BY <2>1, <2>4, <2>5, <2>6 DEF Secure, Entry, Moved
  <2>10. Charged'
    BY <1>4, <2>1, <2>4, <2>5, <2>6, <2>7 DEF Secure, Charged, Moved
  <2>11. (Audited /\ Denials)'
    BY <2>1, <2>4, <2>5 DEF Secure, Audited, Denials, Moved
  <2>12. (OnCourse /\ Counted)'
    BY <1>1, <2>1, <2>4, <2>5, UnderwayKeepsPlan
  <2> QED BY <1>2, <2>4, <2>5, <2>8, <2>9, <2>10, <2>11, <2>12, MovedStanding, MovedThreads
          DEF Secure
<1> QED BY <1>3, <1>4 DEF Launch

(***************************************************************************)
(* The adapter ends: what it returned is taken from the bytes left, all of *)
(* them if it does not fit.                                                *)
(***************************************************************************)
LEMMA FinishKeepsInv == ASSUME GatewayInv, NEW t \in Threads, Finish(t) PROVE GatewayInv'
<1> USE DEF GatewayInv, TypeOK
<1>1. Stands(pc[t], call[t]) /\ call[t] \in Calls /\ pc[t] = "running"
  BY DEF Secure, Standing, ThreadsOK, Finish
<1>2. FlagsOK'
  BY DEF FlagsOK, Finish, consumer
<1>3. CASE Goto(t, "failing") /\ UNCHANGED <<call, bytes>>
  <2>1. Stands("failing", call[t])
    BY <1>1 DEF Stands, Inside, Before
  <2>2. Moved(t, "failing", call[t])
    BY <1>3, <2>1, GotoMoves DEF Finish, Phases
  <2>3. Quiet(t, "failing", call[t])
    BY <1>1, <1>3, <2>2 DEF Quiet, Finish, history, Stands, Before
  <2>4. SessionOK'
    BY <1>3 DEF Finish, SessionOK, world, history
  <2> QED BY <1>2, <2>2, <2>3, <2>4, MovedThreads, QuietKeepsSecure DEF Finish
<1>4. ASSUME NEW n \in Sizes,
             bytes' = IF bytes + n > MaxBytes THEN MaxBytes ELSE bytes + n,
             IF Fits(n) THEN Goto(t, "noting") /\ Set(t, "size", n)
             ELSE Oversized(t) /\ UNCHANGED call
      PROVE  GatewayInv'
  <2>1. /\ n \in Nat \ {0} /\ bytes \in 0..MaxBytes /\ MaxBytes \in Nat
        /\ received \in Nat /\ received <= bytes
    BY GatewayAssumption DEF SessionOK, Secure, Charged
  <2>2. bytes' \in 0..MaxBytes /\ bytes <= bytes' /\ (Fits(n) => bytes' = bytes + n)
    BY <1>4, <2>1 DEF Fits
  <2> DEFINE c == IF Fits(n) THEN [call[t] EXCEPT !.size = n] ELSE call[t]
  <2>3. /\ c \in Calls /\ c.inside /\ c.index = call[t].index /\ c.index > 0 /\ c.acted
        /\ c.got = "ok" /\ c.job = "invoke" /\ call[t].job = "invoke"
        /\ call[t].size = 0 /\ (c.size = 0 \/ (Fits(n) /\ c.size = n))
    <3>1. /\ call[t].inside /\ call[t].index > 0 /\ call[t].acted /\ call[t].got = "ok"
          /\ call[t].job = "invoke" /\ call[t].size = 0
      BY <1>1 DEF Stands, Inside
    <3>2. CASE Fits(n)
      BY <1>1, <3>1, <3>2 DEF Calls
    <3>3. CASE ~Fits(n)
      <4>1. c = call[t]
        BY <3>3
      <4> HIDE DEF c
      <4> QED BY <1>1, <3>1, <4>1
    <3> QED BY <3>2, <3>3
  <2>4. Stands("noting", c)
    BY <2>3 DEF Stands, Inside, Before
  <2>5. Goto(t, "noting") /\ call' = [call EXCEPT ![t] = c]
    BY <1>1, <1>4 DEF Set, Oversized, ThreadsOK
  <2> HIDE DEF c
  <2>6. Moved(t, "noting", c)
    BY <2>3, <2>4, <2>5, SetMoves DEF Phases, Inside
  <2>7. UNCHANGED <<calls, locked, left, plan, audit, history, errors>>
    BY DEF Finish
  <2>8. call[t].inside /\ \A u \in Threads \ {t} : ~call[u].inside
    BY <1>1 DEF Secure, Entry, Stands, Inside
  <2>9. SessionOK'
    BY <2>2, <2>7 DEF SessionOK, Finish, world, history
  <2>10. Entry'
    BY <2>3, <2>6, <2>7, <2>8 DEF Secure, Entry, Moved
  <2>11. Charged'
    BY <2>1, <2>2, <2>3, <2>6, <2>7, <2>8 DEF Secure, Charged, Moved, history
  <2>12. (Audited /\ Denials)'
    BY <2>3, <2>6, <2>7 DEF Secure, Audited, Denials, Moved, history
  <2>13. (OnCourse /\ Counted)'
    BY <1>1, <2>3, <2>6, <2>7, UnderwayKeepsPlan DEF history
  <2> QED BY <1>2, <2>6, <2>7, <2>9, <2>10, <2>11, <2>12, <2>13, MovedStanding, MovedThreads
          DEF Secure
<1> QED BY <1>3, <1>4 DEF Finish

(***************************************************************************)
(* The audit record of a call that did what it was asked to.  If it cannot *)
(* be written, an invocation is denied after all.                          *)
(***************************************************************************)
LEMMA NoteKeepsInv == ASSUME GatewayInv, NEW t \in Threads, Note(t) PROVE GatewayInv'
<1> USE DEF GatewayInv, TypeOK
<1>1. Stands(pc[t], call[t]) /\ call[t] \in Calls /\ pc[t] = "noting" /\ call[t].got = "ok"
  BY DEF Secure, Standing, ThreadsOK, Note, Stands
<1>2. UNCHANGED <<world, session, left, plan, history>>
  BY DEF Note
<1>3. FlagsOK'
  BY <1>2 DEF FlagsOK, Note, Unnoted, Degrade, Degraded, session, consumer
<1> DEFINE o == Success(t)
           r == Line(t, o)
<1>a. r \in Records /\ r.outcome # "DENIED"
  BY <1>1 DEF Line, Success, Records, Calls, SessionOK
<1>4. CASE AuditFails(t, o) /\ Unnoted(t)
  <2>1. /\ errors' # 0 /\ errors' \in 0..MaxAuditErrors
        /\ log \subseteq log' /\ hidden' \subseteq log' /\ log' \subseteq Records
        /\ tail' \in {"whole", "torn"}
    <3>1. errors' # 0
      BY <1>4 DEF AuditFails, SessionOK
    <3> QED BY <1>4, <1>a, <3>1, AppendKeepsAudit
  <2>2. SessionOK'
    BY <1>2, <2>1 DEF SessionOK, world, session, history
  <2>3. CASE call[t].inside
    <3>1. Stands("denying", call[t])
      BY <1>1, <2>3 DEF Stands, Inside, Before
    <3>2. Moved(t, "denying", call[t])
      BY <1>4, <2>3, <3>1, GotoMoves DEF Unnoted, Phases
    <3>3. Quiet(t, "denying", call[t])
      BY <1>1, <1>2, <2>1, <3>2 DEF Quiet, session, history
    <3> QED BY <1>2, <1>3, <2>2, <3>2, <3>3, MovedThreads, QuietKeepsSecure
  <2>4. CASE ~call[t].inside
    <3> DEFINE c == [call[t] EXCEPT !.got = "degraded"]
    <3>1. /\ c \in Calls /\ c.got = "degraded" /\ c.job = call[t].job /\ c.inside = call[t].inside
          /\ c.index = call[t].index /\ c.size = call[t].size /\ c.acted = call[t].acted
      BY <1>1 DEF Calls
    <3>2. Stands("returning", c)
      BY <1>1, <2>4, <3>1 DEF Stands, Inside, Before
    <3>3. Goto(t, "returning") /\ call' = [call EXCEPT ![t] = c]
      BY <1>4, <2>4 DEF Unnoted, Degrade, Set
    <3> HIDE DEF c
    <3>4. Moved(t, "returning", c)
      BY <3>1, <3>2, <3>3, SetMoves DEF Phases
    <3>5. Quiet(t, "returning", c)
      BY <1>1, <1>2, <2>1, <3>1, <3>4 DEF Quiet, session, history
    <3> QED BY <1>2, <1>3, <2>2, <3>4, <3>5, MovedThreads, QuietKeepsSecure
  <2> QED BY <2>3, <2>4
<1>5. CASE /\ Record(t, o)
           /\ Goto(t, IF call[t].inside THEN "leaving" ELSE "returning")
           /\ UNCHANGED <<call, disabled, errors>>
  <2> DEFINE p == IF call[t].inside THEN "leaving" ELSE "returning"
  <2>1. log' = log \cup {r}
    BY <1>5 DEF Record
  <2>2. SessionOK'
    <3>1. hidden' \subseteq log' /\ log' \subseteq Records /\ tail' \in {"whole", "torn"}
      BY <1>5, <1>a, AppendKeepsAudit
    <3> QED BY <1>2, <1>5, <3>1 DEF SessionOK, world, session, history
  <2>3. Stands(p, call[t])
    BY <1>1 DEF Stands, Inside, Before
  <2>4. Moved(t, p, call[t])
    BY <1>5, <2>3, GotoMoves DEF Phases, Inside
  <2>5. call[t].inside => Noted(call[t]) \in log'
    <3>1. call[t].inside => /\ call[t].job = "invoke" /\ call[t].acted = TRUE /\ call[t].index = calls
      BY <1>1 DEF Stands, Calls, Secure, Charged
    <3> QED BY <2>1, <3>1 DEF Noted, Line, Success
  <2>6. ~call[t].inside => call[t].size = 0 /\ (call[t].job = "close" => ClosedOnRecord')
    <3>1. ~call[t].inside => call[t].job # "invoke" /\ call[t].size = 0
      <4>1. ~call[t].inside => call[t].job # "invoke"
        BY <1>1 DEF Stands
      <4>2. call[t].size \in Nat
        BY <1>1, SizesCount
      <4>3. call[t].size > 0 => call[t].job = "invoke"
        BY <1>1 DEF Stands
      <4> QED BY <4>1, <4>2, <4>3
    <3>2. call[t].job = "close" => r.action = "close" /\ r.outcome = "ALLOWED"
      BY DEF Line, Success
    <3>3. call[t].job = "close" => ClosedOnRecord'
      BY <2>1, <3>2 DEF ClosedOnRecord
    <3> QED BY <3>1, <3>3
  <2>7. Quiet(t, p, call[t])
    BY <1>1, <1>2, <1>5, <1>a, <2>1, <2>4, <2>5, <2>6 DEF Quiet, session, history
  <2> QED BY <1>2, <1>3, <2>2, <2>4, <2>7, MovedThreads, QuietKeepsSecure
<1> QED BY <1>4, <1>5 DEF Note

(***************************************************************************)
(* The record of a call that was denied or failed, written or not.         *)
(***************************************************************************)
LEMMA DenyKeepsInv == ASSUME GatewayInv, NEW t \in Threads, Deny(t) PROVE GatewayInv'
<1> USE DEF GatewayInv, TypeOK
<1> DEFINE p == IF call[t].inside THEN "leaving" ELSE "returning"
           c == [call[t] EXCEPT !.got = "degraded"]
           o == IF pc[t] = "denying" THEN "DENIED" ELSE "FAILED"
           r == Line(t, o)
<1>1. Stands(pc[t], call[t]) /\ call[t] \in Calls /\ pc[t] \in {"denying", "failing"}
  BY DEF Secure, Standing, ThreadsOK, Deny
<1>2. UNCHANGED <<world, session, left, plan, history>>
  BY DEF Deny
<1>3. FlagsOK'
  BY <1>2 DEF FlagsOK, Deny, Degrade, Degraded, session, consumer
<1>5. r \in Records /\ r.acted = call[t].acted /\ (r.outcome = "DENIED" => pc[t] = "denying")
  BY <1>1 DEF Line, Records, Calls, SessionOK
<1>4. /\ log \subseteq log' /\ log' \subseteq log \cup {r}
      /\ hidden' \subseteq log' /\ log' \subseteq Records /\ tail' \in {"whole", "torn"}
      /\ errors' \in 0..MaxAuditErrors /\ (errors' = 0 => errors = 0)
  BY <1>5, AppendKeepsAudit DEF Deny
<1>6. SessionOK'
  BY <1>2, <1>4 DEF SessionOK, world, session, history
<1>7. /\ c \in Calls /\ c.got = "degraded" /\ c.job = call[t].job /\ c.inside = call[t].inside
      /\ c.index = call[t].index /\ c.size = call[t].size /\ c.acted = call[t].acted
  BY <1>1 DEF Calls
<1>8. Goto(t, p) /\ call' = [call EXCEPT ![t] = c]
  BY DEF Deny, Degrade, Set
<1> HIDE DEF c
<1>9. Stands(p, c)
  BY <1>1, <1>7 DEF Stands, Inside, Before
<1>10. Moved(t, p, c)
  BY <1>7, <1>8, <1>9, SetMoves DEF Phases, Inside
<1>11. /\ log \subseteq log' /\ (errors' = 0 => errors = 0)
       /\ errors' = 0 => \A q \in log' \ log : q.outcome = "DENIED" => ~q.acted
  BY <1>4, <1>5 DEF Secure, Denials
<1>12. Quiet(t, p, c)
  BY <1>1, <1>2, <1>7, <1>10, <1>11 DEF Quiet, session, history
<1> QED BY <1>2, <1>3, <1>6, <1>10, <1>12, MovedThreads, QuietKeepsSecure

(***************************************************************************)
(* The lock is given back, and the result delivered.                       *)
(***************************************************************************)
LEMMA LeaveKeepsInv == ASSUME GatewayInv, NEW t \in Threads, Leave(t) PROVE GatewayInv'
<1> USE DEF GatewayInv, TypeOK
<1> DEFINE c == [call[t] EXCEPT !.inside = FALSE]
           d == [to |-> t, index |-> call[t].index, size |-> call[t].size]
<1>1. Stands(pc[t], call[t]) /\ call[t] \in Calls /\ pc[t] = "leaving"
  BY DEF Secure, Standing, ThreadsOK, Leave
<1>2. call[t].inside /\ call[t].job = "invoke" /\ \A u \in Threads \ {t} : ~call[u].inside
  BY <1>1 DEF Secure, Entry, Stands, Inside
<1>3. /\ c \in Calls /\ ~c.inside /\ c.got = call[t].got /\ c.job = call[t].job
      /\ c.index = call[t].index /\ c.size = call[t].size /\ c.acted = call[t].acted
  BY <1>1 DEF Calls
<1>4. /\ Goto(t, "returning") /\ call' = [call EXCEPT ![t] = c] /\ ~locked'
      /\ UNCHANGED <<world, registered, closed, calls, bytes, left, plan, audit, ran, errors>>
  BY DEF Leave, Set, Unlock
<1>5. /\ call[t].index \in {0, calls} /\ received + call[t].size <= bytes
      /\ call[t].size \in Sizes \cup {0}
      /\ call[t].index > 0 => \A e \in delivered : e.index < calls
  BY <1>1, <1>2 DEF Secure, Charged, Calls
<1> HIDE DEF c
<1>6. Stands("returning", c)
  BY <1>1, <1>3 DEF Stands, Inside, Before
<1>7. Moved(t, "returning", c)
  BY <1>3, <1>4, <1>6, SetMoves DEF Phases
<1>8. FlagsOK'
  BY DEF FlagsOK, Leave, Unlock, Degraded, consumer
<1>9. Entry'
  BY <1>2, <1>3, <1>4, <1>7 DEF Entry, Moved
<1>10. Denials'
  BY <1>4, <1>7 DEF Secure, Denials, Moved
<1>11. OnCourse'
  BY <1>1, <1>3, <1>4, <1>7 DEF Secure, OnCourse, Moved, plan, Threads
<1>12. t = Planner => stage # Closing
  BY <1>1, <1>2, GatewayAssumption DEF Secure, OnCourse, Closing
<1>13. \A u \in Threads : ~call'[u].inside
  BY <1>2, <1>3, <1>7 DEF Moved
<1>14. CASE /\ call[t].got = "ok" /\ delivered' = delivered \cup {d}
            /\ received' = received + call[t].size
  <2>1. call[t].index = calls /\ calls > 0 /\ Noted(call[t]) \in log
    BY <1>1, <1>5, <1>14 DEF Stands, Secure, Audited
  <2>2. d.to = t /\ d.index = calls /\ d.size = call[t].size /\ Noted(d) = Noted(call[t])
    BY <2>1 DEF Noted
  <2>3. \A e \in delivered : e.index < calls
    BY <1>5, <2>1
  <2>4. SessionOK'
    <3>1. d \in [to : Threads, index : 1..MaxCalls, size : Sizes \cup {0}]
      BY <1>5, <2>1 DEF SessionOK
    <3>2. received' \in Nat
      <4>1. call[t].size \in Nat /\ received \in Nat
        BY <1>1, SizesCount DEF SessionOK
      <4> QED BY <1>14, <4>1
    <3> QED BY <1>4, <1>14, <3>1, <3>2 DEF SessionOK, world
  <2> HIDE DEF d
  <2>5. Charged'
    BY <1>4, <1>5, <1>13, <1>14, <2>2, <2>3 DEF Secure, Charged, SessionOK
  <2>6. Audited'
    <3>1. \A e, f \in delivered' : e.index = f.index => e = f
      BY <1>14, <2>2, <2>3 DEF Secure, Audited, SessionOK
    <3>2. \A e \in delivered' : Noted(e) \in log'
      BY <1>4, <1>14, <2>1, <2>2 DEF Secure, Audited
    <3>3. \A u \in Threads : pc'[u] = "leaving" /\ call'[u].got = "ok" => Noted(call'[u]) \in log'
      BY <1>4, <1>7 DEF Secure, Audited, Moved
    <3> QED BY <3>1, <3>2, <3>3 DEF Audited
  <2>7. Counted'
    <3>1. Passed' = Passed /\ UNCHANGED <<results, stage, report>> /\ ClosedOnRecord' = ClosedOnRecord
      BY <1>4 DEF Passed, ClosedOnRecord, plan
    <3>2. IsFiniteSet(delivered) /\ IsFiniteSet(delivered')
      BY <1>14, FS_AddElement DEF Secure, Counted
    <3>3. IsFiniteSet(Earned) /\ Cardinality(Earned) \in Nat
      BY <3>2, FS_Subset, FS_CardinalityType DEF Earned
    <3>4. Cardinality(Earned') + (IF InHand THEN 1 ELSE 0) =
            Cardinality(Earned) + (IF InHand' THEN 1 ELSE 0)
      <4>1. CASE t = Planner /\ call[t].size > 0
        <5>1. Earned' = Earned \cup {d} /\ d \notin Earned
          BY <1>14, <2>2, <2>3, <4>1 DEF Earned, SessionOK
        <5>2. ~InHand /\ InHand'
          BY <1>1, <1>3, <1>7, <1>14, <4>1 DEF InHand, Moved
        <5>3. Cardinality(Earned') = Cardinality(Earned) + 1
          BY <3>3, <5>1, FS_AddElement
        <5> QED BY <3>3, <5>2, <5>3
      <4>2. CASE t = Planner /\ ~(call[t].size > 0)
        <5>1. Earned' = Earned
          BY <1>14, <2>2, <4>2 DEF Earned
        <5>2. ~InHand /\ ~InHand'
          BY <1>1, <1>3, <1>7, <4>2 DEF InHand, Moved
        <5> QED BY <5>1, <5>2
      <4>3. CASE t # Planner
        <5>1. Earned' = Earned
          BY <1>14, <2>2, <4>3 DEF Earned
        <5>2. InHand' = InHand
          BY <1>7, <4>3 DEF InHand, Moved, Threads
        <5> QED BY <5>1, <5>2
      <4> QED BY <4>1, <4>2, <4>3
    <3>5. Passed => Cardinality(Earned') = Len(results) + IF InHand' THEN 1 ELSE 0
      <4>1. Len(results) \in Nat /\ Cardinality(Earned') \in Nat
        BY <3>2, FS_Subset, FS_CardinalityType, LenProperties DEF Earned, ThreadsOK
      <4>2. Passed => Cardinality(Earned) = Len(results) + IF InHand THEN 1 ELSE 0
        BY DEF Secure, Counted
      <4> QED BY <3>3, <3>4, <4>1, <4>2
    <3>6. stage = Closing /\ pc'[Planner] = "returning" /\ call'[Planner].got = "ok" => ClosedOnRecord
      BY <1>7, <1>12 DEF Secure, Counted, Moved, Threads
    <3> QED BY <3>1, <3>2, <3>5, <3>6 DEF Secure, Counted
  <2> QED BY <1>4, <1>7, <1>8, <1>9, <1>10, <1>11, <2>4, <2>5, <2>6, <2>7,
             MovedStanding, MovedThreads DEF Secure
<1>15. CASE call[t].got # "ok" /\ UNCHANGED <<delivered, received>>
  <2>1. SessionOK'
    BY <1>4, <1>15 DEF SessionOK, world
  <2>2. Charged'
    BY <1>4, <1>13, <1>15 DEF Secure, Charged
  <2>3. Audited'
    BY <1>4, <1>7, <1>15 DEF Secure, Audited, Moved
  <2>4. Counted'
    <3>1. UNCHANGED <<Passed, results, stage, report, ClosedOnRecord, Earned>>
      BY <1>4, <1>15 DEF Passed, ClosedOnRecord, Earned, plan
    <3>2. InHand' = InHand
      BY <1>1, <1>3, <1>7, <1>15 DEF InHand, Moved, Threads
    <3>3. stage = Closing /\ pc'[Planner] = "returning" /\ call'[Planner].got = "ok" => ClosedOnRecord
      BY <1>7, <1>12 DEF Secure, Counted, Moved, Threads
    <3> QED BY <1>15, <3>1, <3>2, <3>3 DEF Secure, Counted
  <2> QED BY <1>4, <1>7, <1>8, <1>9, <1>10, <1>11, <2>1, <2>2, <2>3, <2>4,
             MovedStanding, MovedThreads DEF Secure
<1> QED BY <1>14, <1>15 DEF Leave

(***************************************************************************)
(* A call begins: on its way to the gateway, or answered by the consumer.  *)
(***************************************************************************)
Begins(t, j, p, c) ==
  /\ j \in Jobs /\ p \in {"returning", "authenticating", "admitting"}
  /\ c \in {Fresh(j), [Fresh(j) EXCEPT !.got = "degraded"]}
  /\ c.got = "ok" \/ p = "returning"
  /\ p = "authenticating" => j # "open"
  /\ p = "admitting" => j = "open"
  /\ p = "returning" /\ c.got = "ok" => j = "open"
  /\ pc[t] = "idle" /\ Goto(t, p) /\ call' = [call EXCEPT ![t] = c]
  /\ Degraded \/ UNCHANGED consumer
  /\ UNCHANGED <<world, session, plan, audit, history, errors>>

\* An asked request starts at the beginning of its call, or returns degraded.
LEMMA AskBegins ==
  ASSUME NEW t \in Threads, NEW j \in Jobs, Ask(t, j)
  PROVE  \E p, c : Begins(t, j, p, c)
<1> DEFINE d == [Fresh(j) EXCEPT !.got = "degraded"]
<1>1. d.got = "degraded" /\ Fresh(j).got = "ok"
  BY DEF Fresh
<1> HIDE DEF d
<1>2. CASE /\ Goto(t, "returning") /\ call' = [call EXCEPT ![t] = d]
           /\ Degraded \/ UNCHANGED consumer
  <2>1. Begins(t, j, "returning", d)
    BY <1>1, <1>2 DEF Ask, Begins, d
  <2> QED BY <2>1
<1>3. CASE /\ Goto(t, IF j # "open" THEN "authenticating"
                     ELSE IF active THEN "returning" ELSE "admitting")
           /\ call' = [call EXCEPT ![t] = Fresh(j)] /\ UNCHANGED consumer
  <2> DEFINE p == IF j # "open" THEN "authenticating"
                  ELSE IF active THEN "returning" ELSE "admitting"
  <2>1. Begins(t, j, p, Fresh(j))
    BY <1>1, <1>3 DEF Ask, Begins
  <2> QED BY <2>1
<1> QED BY <1>2, <1>3 DEF Ask, d

\* The beginning of a call keeps the invariant.
LEMMA BeginningKeepsInv ==
  ASSUME GatewayInv, NEW t \in Threads, NEW j, NEW p, NEW c, Begins(t, j, p, c),
         left' \in 0..Requests,
         t = Planner => \/ stage = 0 /\ j = "open"
                        \/ stage \in 1..Cases /\ j = "invoke"
                        \/ stage = Closing /\ j = "close"
  PROVE  GatewayInv'
<1> USE DEF GatewayInv, TypeOK
<1>1. /\ c \in Calls /\ c.job = j /\ ~c.inside /\ c.index = 0 /\ ~c.acted /\ c.size = 0
  <2>1. Fresh(j) \in Calls
    BY GatewayAssumption DEF Begins, Fresh, Calls
  <2>2. CASE c = Fresh(j)
    BY <2>1, <2>2 DEF Fresh
  <2>3. CASE c = [Fresh(j) EXCEPT !.got = "degraded"]
    BY <2>1, <2>3 DEF Fresh, Calls
  <2> QED BY <2>2, <2>3 DEF Begins
<1>2. ~call[t].inside /\ pc[t] = "idle"
  BY DEF Begins, Secure, Standing, Stands, Inside
<1>3. Stands(p, c)
  BY <1>1 DEF Begins, Stands, Inside, Before
<1>4. Moved(t, p, c)
  BY <1>1, <1>3, SetMoves DEF Begins, Phases
<1>5. /\ UNCHANGED <<world, session, plan, audit, history, errors>>
      /\ p \in {"returning", "authenticating", "admitting"}
  BY DEF Begins
<1>6. FlagsOK'
  BY DEF Begins, FlagsOK, Degraded, session, consumer
<1>7. SessionOK'
  BY <1>5 DEF SessionOK, world, session, history
<1>8. ThreadsOK'
  BY <1>4, <1>5 DEF ThreadsOK, Moved, plan
<1>9. Entry'
  BY <1>1, <1>2, <1>4, <1>5 DEF Secure, Entry, Moved, session
<1>10. Charged'
  BY <1>1, <1>2, <1>4, <1>5 DEF Secure, Charged, Moved, session, history
<1>11. (Audited /\ Denials)'
  BY <1>4, <1>5 DEF Secure, Audited, Denials, Moved, history
<1>12. OnCourse'
  BY <1>1, <1>4, <1>5 DEF Secure, OnCourse, Moved, plan, Threads
<1>13. Counted'
  <2>1. UNCHANGED <<Passed, results, stage, report, ClosedOnRecord, Earned, delivered>>
    BY <1>5 DEF Passed, ClosedOnRecord, Earned, plan, history
  <2>2. InHand' <=> InHand
    <3>1. CASE t = Planner
      <4>1. ~InHand
        BY <1>2, <3>1 DEF InHand
      <4>2. ~InHand'
        <5>1. call'[Planner].size = 0
          BY <1>1, <1>4, <3>1 DEF Moved
        <5> QED BY <5>1 DEF InHand
      <4> QED BY <4>1, <4>2
    <3>2. CASE t # Planner
      BY <1>4, <3>2 DEF InHand, Moved, Threads
    <3> QED BY <3>1, <3>2
  <2>3. stage = Closing /\ pc'[Planner] = "returning" /\ call'[Planner].got = "ok" => ClosedOnRecord
    <3>1. t = Planner /\ stage = Closing => j # "open"
      BY GatewayAssumption DEF Closing
    <3>2. t = Planner /\ pc'[Planner] = "returning" /\ call'[Planner].got = "ok" => j = "open"
      BY <1>4 DEF Begins, Moved
    <3> QED BY <1>4, <3>1, <3>2 DEF Secure, Counted, Moved, Threads
  <2> QED BY <2>1, <2>2, <2>3 DEF Secure, Counted
<1> QED BY <1>4, <1>6, <1>7, <1>8, <1>9, <1>10, <1>11, <1>12, <1>13, MovedStanding DEF Secure

\* A request of the planner or of an agent keeps the invariant.
LEMMA AsksKeepInv ==
  ASSUME GatewayInv, PlannerAsks \/ \E t \in Agents : AgentAsks(t)
  PROVE  GatewayInv'
<1> USE DEF GatewayInv, TypeOK
<1>1. CASE PlannerAsks
  <2>1. left' \in 0..Requests
    BY <1>1 DEF PlannerAsks, ThreadsOK
  <2>2. PICK j \in Jobs : /\ Ask(Planner, j)
                          /\ \/ stage = 0 /\ j = "open"
                             \/ stage \in 1..Cases /\ j = "invoke"
                             \/ stage = Closing /\ j = "close"
    BY <1>1 DEF PlannerAsks, Jobs
  <2>3. PICK p, c : Begins(Planner, j, p, c)
    BY <2>2, AskBegins DEF Threads
  <2> QED BY <2>1, <2>2, <2>3, BeginningKeepsInv DEF Threads
<1>2. ASSUME NEW t \in Agents, AgentAsks(t) PROVE GatewayInv'
  <2>1. left' \in 0..Requests
    BY <1>2, GatewayAssumption DEF AgentAsks, ThreadsOK
  <2>2. t \in Threads /\ t # Planner
    BY GatewayAssumption DEF Threads
  <2>3. CASE \E j \in {"list", "invoke", "close"} : Ask(t, j)
    <3>1. PICK j \in {"list", "invoke", "close"} : Ask(t, j)
      BY <2>3
    <3>2. PICK p, c : Begins(t, j, p, c)
      BY <2>2, <3>1, AskBegins DEF Jobs
    <3> QED BY <2>1, <2>2, <3>2, BeginningKeepsInv
  <2>4. CASE /\ pc[t] = "idle" /\ Goto(t, "returning")
             /\ call' = [call EXCEPT ![t] = [Fresh("invoke") EXCEPT !.got = "degraded"]]
             /\ Degraded /\ UNCHANGED <<world, session, plan, audit, history, errors>>
    <3> DEFINE d == [Fresh("invoke") EXCEPT !.got = "degraded"]
    <3>1. d.got = "degraded"
      BY DEF Fresh
    <3> HIDE DEF d
    <3>2. Begins(t, "invoke", "returning", d)
      BY <2>4, <3>1 DEF Begins, Jobs, d
    <3> QED BY <2>1, <2>2, <3>2, BeginningKeepsInv
  <2> QED BY <1>2, <2>3, <2>4 DEF AgentAsks
<1> QED BY <1>1, <1>2

(***************************************************************************)
(* The plan takes its outcomes.                                            *)
(***************************************************************************)
LEMMA AgentTakesKeepsInv ==
  ASSUME GatewayInv, NEW t \in Agents, AgentTakes(t)
  PROVE  GatewayInv'
<1> USE DEF GatewayInv, TypeOK
<1>1. t \in Threads /\ t # Planner
  BY GatewayAssumption DEF Threads
<1>2. Stands(pc[t], call[t]) /\ pc[t] = "returning"
  BY <1>1 DEF Secure, Standing, AgentTakes
<1>3. UNCHANGED <<world, session, consumer, call, left, plan, audit, history, errors>>
  BY DEF AgentTakes
<1>4. Stands("idle", call[t])
  BY <1>2 DEF Stands, Inside, Before
<1>5. Moved(t, "idle", call[t])
  BY <1>1, <1>3, <1>4, GotoMoves DEF AgentTakes, Phases
<1>6. Quiet(t, "idle", call[t])
  BY <1>1, <1>2, <1>3, <1>5 DEF Quiet, session, history
<1>7. FlagsOK' /\ SessionOK'
  BY <1>3 DEF FlagsOK, SessionOK, world, session, consumer, history
<1> QED BY <1>1, <1>3, <1>5, <1>6, <1>7, MovedThreads, QuietKeepsSecure

\* A case that did not pass is remembered; a case that passed is counted.
LEMMA AnswersAppend ==
  ASSUME ThreadsOK, NEW v \in Verdicts, results' = results \o <<v>>
  PROVE  /\ results' \in Seq(Verdicts)
         /\ Len(results') = Len(results) + 1 /\ Len(results) \in Nat
         /\ Passed' => Passed /\ v = "PASS"
<1>1. results' = Append(results, v) /\ results \in Seq(Verdicts)
  BY DEF ThreadsOK
<1> QED BY <1>1, AppendProperties DEF Passed

\* Cancelling the plan or running out of its time between two cases keeps the invariant.
LEMMA InterruptKeepsInv == ASSUME GatewayInv, Interrupt PROVE GatewayInv'
<1> USE DEF GatewayInv, TypeOK
<1>1. /\ UNCHANGED <<world, session, consumer, pc, call, left, report, audit, history, errors>>
      /\ pc[Planner] = "idle" /\ stage \in 1..Cases /\ stage' = Closing
  BY DEF Interrupt, Answer
<1>2. PICK v \in {"CANCELLED", "TIMEOUT"} : results' = results \o <<v>>
  BY DEF Interrupt, Interruption, Answer
<1>3. results' \in Seq(Verdicts) /\ ~Passed'
  BY <1>2, AnswersAppend DEF Verdicts
<1>4. stage # 0 /\ stage # Over /\ stage' # 0 /\ stage' \in 0..Cases + 2
  BY <1>1, GatewayAssumption DEF Closing, Over
<1>5. FlagsOK' /\ SessionOK'
  BY <1>1 DEF FlagsOK, SessionOK, world, session, consumer, history
<1>6. ThreadsOK'
  BY <1>1, <1>3, <1>4 DEF ThreadsOK
<1>7. (Standing /\ Entry /\ Charged /\ Audited /\ Denials)'
  BY <1>1 DEF Secure, Standing, Entry, Charged, Audited, Denials, session, history
<1>8. OnCourse'
  BY <1>1, <1>4 DEF Secure, OnCourse
<1>9. Counted'
  <2>1. report = "none" /\ pc'[Planner] = "idle" /\ delivered' = delivered
    BY <1>1, <1>4 DEF Secure, OnCourse, history
  <2> QED BY <1>1, <1>3, <2>1 DEF Secure, Counted
<1> QED BY <1>5, <1>6, <1>7, <1>8, <1>9 DEF Secure

\* The conclusion of the plan keeps the invariant.
LEMMA ConcludeKeepsInv == ASSUME GatewayInv, Conclude PROVE GatewayInv'
<1> USE DEF GatewayInv, TypeOK
<1>1. /\ UNCHANGED <<world, session, consumer, pc, call, left, stage, results, audit, history, errors>>
      /\ stage = Over /\ report = "none"
  BY DEF Conclude
<1>2. report' \in {"unwritten", "invalid"} \cup Statuses /\ (report' = "PASS" => Passed)
  BY DEF Conclude, Status, Statuses, Passed
<1>3. FlagsOK' /\ SessionOK' /\ ThreadsOK'
  BY <1>1, <1>2 DEF FlagsOK, SessionOK, ThreadsOK, world, session, consumer, history
<1>4. (Standing /\ Entry /\ Charged /\ Audited /\ Denials)'
  BY <1>1 DEF Secure, Standing, Entry, Charged, Audited, Denials, session, history
<1>5. OnCourse'
  BY <1>1 DEF Secure, OnCourse
<1>6. Counted'
  <2>1. UNCHANGED <<Passed, InHand, results, stage, ClosedOnRecord, Earned, delivered, pc, call>>
    BY <1>1 DEF Passed, InHand, ClosedOnRecord, Earned, history
  <2> QED BY <1>2, <2>1 DEF Secure, Counted
<1> QED BY <1>3, <1>4, <1>5, <1>6 DEF Secure

(***************************************************************************)
(* The release is replaced, time passes, or nothing happens.               *)
(***************************************************************************)
LEMMA SurroundingsKeepInv ==
  ASSUME GatewayInv, Promote \/ Tick \/ UNCHANGED vars
  PROVE  GatewayInv'
<1> USE DEF GatewayInv, TypeOK
<1>1. UNCHANGED <<session, consumer, pc, call, left, plan, audit, history, errors>>
  BY DEF Promote, Tick, vars
<1>2. FlagsOK' /\ ThreadsOK'
  BY <1>1 DEF FlagsOK, ThreadsOK, session, consumer, plan
<1>3. release' \in 0..MaxReleases /\ age' \in Nat
  BY GatewayAssumption DEF Promote, Tick, SessionOK, vars, world
<1>4. SessionOK'
  BY <1>1, <1>3 DEF SessionOK, session, history
<1>5. Secure'
  <2>1. UNCHANGED <<Passed, InHand, ClosedOnRecord, Earned>>
    BY <1>1 DEF Passed, InHand, ClosedOnRecord, Earned, plan, history
  <2>2. (Standing /\ Entry /\ Charged /\ Audited /\ Denials /\ OnCourse)'
    BY <1>1 DEF Secure, Standing, Entry, Charged, Audited, Denials, OnCourse, session, history, plan
  <2>3. Counted'
    BY <1>1, <2>1 DEF Secure, Counted, plan, history
  <2> QED BY <2>2, <2>3 DEF Secure
<1> QED BY <1>2, <1>4, <1>5

(***************************************************************************)
(* The planner takes the outcome of a step of its plan.                    *)
(***************************************************************************)
LEMMA PlannerTakesKeepsInv == ASSUME GatewayInv, PlannerTakes PROVE GatewayInv'
<1> USE DEF GatewayInv, TypeOK
<1> DEFINE c == call[Planner]
<1>1. /\ UNCHANGED <<world, session, consumer, call, left, report, audit, history, errors>>
      /\ pc[Planner] = "returning" /\ Goto(Planner, "idle") /\ Planner \in Threads
  BY DEF PlannerTakes, Threads
<1>2. Stands("idle", c) /\ c \in Calls /\ (c.size > 0 => c.job = "invoke")
  BY <1>1 DEF Secure, Standing, Stands, Inside, Before, ThreadsOK
<1>3. Moved(Planner, "idle", c)
  BY <1>1, <1>2, GotoMoves DEF Phases
<1>4. \/ stage = 0 /\ c.job = "open"
      \/ stage \in 1..Cases /\ c.job = "invoke"
      \/ stage = Closing /\ c.job = "close"
  BY <1>1 DEF Secure, OnCourse
<1>5. stage # Over /\ report = "none"
  BY <1>4, GatewayAssumption DEF Secure, OnCourse, Over, Closing, ThreadsOK
<1>6. pc'[Planner] = "idle"
  BY <1>3 DEF Moved
<1>7. FlagsOK' /\ SessionOK'
  BY <1>1 DEF FlagsOK, SessionOK, world, session, consumer, history
<1>8. Standing'
  BY <1>1, <1>3, MovedStanding DEF Secure
<1>9. (Entry /\ Charged /\ Audited /\ Denials)'
  <2>1. \A u \in Threads : pc'[u] = pc[u] \/ (pc[u] = "returning" /\ pc'[u] = "idle")
    BY <1>1, <1>3 DEF Moved
  <2> QED BY <1>1, <2>1 DEF Secure, Entry, Charged, Audited, Denials, session, history
<1>10. /\ IsFiniteSet(delivered) /\ UNCHANGED <<Earned, delivered, ClosedOnRecord>>
       /\ Passed => Cardinality(Earned) = Len(results) + IF InHand THEN 1 ELSE 0
       /\ Passed /\ stage \in 1..Closing => Len(results) = stage - 1
  BY <1>1 DEF Secure, Counted, Earned, ClosedOnRecord, history
<1>11. ~InHand'
  BY <1>6 DEF InHand
<1>12. Len(results) \in Nat /\ results \in Seq(Verdicts)
  BY LenProperties DEF ThreadsOK
<1> HIDE DEF c
<1>13. SUFFICES /\ stage' \in 1..Over /\ results' \in Seq(Verdicts)
                /\ Passed' => Cardinality(Earned) = Len(results')
                /\ Passed' /\ stage' \in 1..Closing => Len(results') = stage' - 1
                /\ Passed' /\ stage' = Over => Len(results') = Cases /\ ClosedOnRecord
  <2>1. stage' # 0 /\ stage' \in 0..Cases + 2
    BY <1>13, GatewayAssumption DEF Over
  <2>2. ThreadsOK'
    BY <1>1, <1>3, <1>13, <2>1 DEF ThreadsOK, Moved
  <2>3. OnCourse'
    BY <1>1, <1>5, <1>6, <2>1 DEF OnCourse
  <2>4. Counted'
    <3>1. Passed' => Cardinality(Earned') = Len(results') + IF InHand' THEN 1 ELSE 0
      <4>1. Passed' => Len(results') \in Nat
        BY <1>13, LenProperties
      <4> QED BY <1>10, <1>11, <1>13, <4>1
    <3>2. IsFiniteSet(delivered') /\ report' # "PASS" /\ pc'[Planner] # "returning"
      BY <1>1, <1>5, <1>6, <1>10
    <3>3. Passed' /\ stage' = Over => Len(results') = Cases /\ ClosedOnRecord'
      BY <1>10, <1>13
    <3> QED BY <1>13, <3>1, <3>2, <3>3 DEF Counted, Closing
  <2> QED BY <1>7, <1>8, <1>9, <2>2, <2>3, <2>4 DEF Secure
<1>14. ASSUME NEW v \in {"ERROR", "FAIL"}, results' = results \o <<v>>, stage' \in 1..Over
       PROVE  results' \in Seq(Verdicts) /\ ~Passed'
  BY <1>14, AnswersAppend DEF Verdicts
<1>15. CASE \E v \in {"ERROR", "FAIL"} : results' = results \o <<v>> /\ stage' \in 1..Over
  BY <1>14, <1>15
<1>16. CASE stage = 0 /\ results' = results \o <<>> /\ stage' = 1
  <2>1. results = <<>> /\ results' = <<>>
    BY <1>16, ConcatEmptySeq, EmptySeq DEF Secure, OnCourse
  <2>2. Passed /\ Len(results) = 0 /\ Len(results') = 0
    BY <2>1 DEF Passed
  <2>3. ~InHand
    BY <1>2, <1>4, <1>16, GatewayAssumption DEF InHand, c, Closing
  <2>4. Cardinality(Earned) = 0
    BY <1>10, <2>2, <2>3
  <2>5. stage' \in 1..Over /\ stage' # Over
    BY <1>16, GatewayAssumption DEF Over
  <2> QED BY <1>12, <1>16, <2>1, <2>2, <2>4, <2>5
<1>17. CASE /\ stage \in 1..Cases /\ c.got = "ok" /\ c.size > 0
            /\ results' = results \o <<"PASS">> /\ stage' = stage + 1
  <2>1. /\ results' \in Seq(Verdicts) /\ Len(results') = Len(results) + 1
        /\ Passed' => Passed
    BY <1>17, AnswersAppend DEF Verdicts
  <2>2. InHand
    BY <1>1, <1>17 DEF InHand, c
  <2>3. stage' \in 1..Over /\ stage' # Over /\ stage \in 1..Closing /\ stage \in Nat
    BY <1>17, GatewayAssumption DEF Over, Closing
  <2>4. Passed' => Cardinality(Earned) = Len(results')
    BY <1>10, <1>12, <2>1, <2>2
  <2>5. Passed' => Len(results') = stage' - 1
    BY <1>10, <1>12, <1>17, <2>1, <2>3
  <2> QED BY <2>1, <2>3, <2>4, <2>5
<1>18. CASE stage = Closing /\ c.got = "ok" /\ results' = results \o <<>> /\ stage' = Over
  <2>1. results' = results
    BY <1>12, <1>18, ConcatEmptySeq
  <2>2. Passed' = Passed
    BY <2>1 DEF Passed
  <2>3. ~InHand
    BY <1>2, <1>4, <1>18, GatewayAssumption DEF InHand, c, Closing
  <2>4. ClosedOnRecord
    BY <1>1, <1>18 DEF Secure, Counted, c
  <2>5. Over \in 1..Over /\ Over \notin 1..Closing /\ Closing \in 1..Closing /\ Closing - 1 = Cases
    BY GatewayAssumption DEF Over, Closing
  <2>6. Passed' => Cardinality(Earned) = Len(results') /\ Len(results') = Cases
    BY <1>10, <1>12, <1>18, <2>1, <2>2, <2>3, <2>5
  <2> QED BY <1>12, <1>18, <2>1, <2>4, <2>5, <2>6
<1>19. \/ \E v \in {"ERROR", "FAIL"} : results' = results \o <<v>> /\ stage' \in {stage + 1, Over}
       \/ stage = 0 /\ results' = results \o <<>> /\ stage' = 1
       \/ /\ stage \in 1..Cases /\ c.got = "ok" /\ c.size > 0
          /\ results' = results \o <<"PASS">> /\ stage' = stage + 1
       \/ stage = Closing /\ c.got = "ok" /\ results' = results \o <<>> /\ stage' = Over
  BY DEF PlannerTakes, Answer, c
<1>20. Over \in 1..Over /\ stage + 1 \in 1..Over
  BY <1>4, GatewayAssumption DEF Over, Closing
<1> QED BY <1>15, <1>16, <1>17, <1>18, <1>19, <1>20

(***************************************************************************)
(* Every step keeps the invariant.                                         *)
(***************************************************************************)
LEMMA NextGatewayInv == ASSUME GatewayInv, [Next]_vars PROVE GatewayInv'
<1>1. ASSUME NEW t \in Threads, Gateway(t) PROVE GatewayInv'
  BY <1>1, AdmissionKeepsInv, LockKeepsInv, ChargeKeepsInv, LaunchKeepsInv, FinishKeepsInv,
     NoteKeepsInv, DenyKeepsInv, LeaveKeepsInv DEF Gateway, Answers
<1>2. CASE \E t \in Agents : AgentAsks(t) \/ AgentTakes(t)
  BY <1>2, AsksKeepInv, AgentTakesKeepsInv
<1>3. CASE PlannerRuns
  BY <1>3, AsksKeepInv, PlannerTakesKeepsInv, InterruptKeepsInv, ConcludeKeepsInv DEF PlannerRuns
<1>4. CASE Promote \/ Tick \/ UNCHANGED vars
  BY <1>4, SurroundingsKeepInv
<1> QED BY <1>1, <1>2, <1>3, <1>4 DEF Next

(***************************************************************************)
(* The inductive invariant of a Tool Session: what each thread's call is   *)
(* where it stands, what the lock, the budget and the audit say of it, and *)
(* what the plan's results so far were earned with.                        *)
(***************************************************************************)
THEOREM GatewayInvariant == Spec => []GatewayInv
<1>1. Init => GatewayInv
  BY InitGatewayInv
<1>2. GatewayInv /\ [Next]_vars => GatewayInv'
  BY NextGatewayInv
<1> QED BY <1>1, <1>2, PTL DEF Spec

(***************************************************************************)
(* The session, its threads and its plan stay what they are declared as:   *)
(* no call index, charge or size leaves its range.                         *)
(***************************************************************************)
THEOREM GatewayTypeCorrect == Spec => []TypeOK
<1>1. GatewayInv => TypeOK
  BY DEF GatewayInv
<1> QED BY <1>1, GatewayInvariant, PTL

(***************************************************************************)
(* However many threads share the session, at most one of them is inside,  *)
(* and the lock is held exactly while one is.                              *)
(***************************************************************************)
THEOREM InvocationsExclude == Spec => []OneInvocation
<1>1. GatewayInv => OneInvocation
  BY DEF GatewayInv, Secure, Entry, OneInvocation, TypeOK, FlagsOK
<1> QED BY <1>1, GatewayInvariant, PTL

(***************************************************************************)
(* The session's threads together never run more adapters than max_calls,  *)
(* and are never handed more bytes than max_result_bytes.                  *)
(***************************************************************************)
THEOREM BudgetsHold == Spec => []WithinBudget
<1>1. GatewayInv => WithinBudget
  BY GatewayAssumption DEF GatewayInv, Secure, Charged, WithinBudget, TypeOK, SessionOK
<1> QED BY <1>1, GatewayInvariant, PTL

\* Every torn line hides one record, or waits for one.
Torn == IF tail = "torn" THEN 1 ELSE 0
Hiding == IsFiniteSet(hidden) /\ Cardinality(hidden) + Torn <= errors

\* A record on a torn line takes the place the line kept for one.
LEMMA RecordHiding ==
  ASSUME SessionOK, Hiding, NEW t \in Threads, NEW o, Record(t, o)
  PROVE  IsFiniteSet(hidden') /\ Cardinality(hidden') + Torn' <= errors
<1>1. Cardinality(hidden) \in Nat /\ errors \in Nat
  BY FS_CardinalityType DEF Hiding, SessionOK
<1>2. CASE tail = "torn"
  <2>1. hidden' = hidden \cup {Line(t, o)} /\ Torn' = 0 /\ Torn = 1
    BY <1>2 DEF Record, Torn
  <2>2. /\ IsFiniteSet(hidden')
        /\ Cardinality(hidden') \in {Cardinality(hidden), Cardinality(hidden) + 1}
    BY <2>1, FS_AddElement DEF Hiding
  <2> QED BY <1>1, <2>1, <2>2 DEF Hiding
<1>3. CASE tail # "torn"
  <2>1. hidden' = hidden /\ Torn' = 0 /\ Torn = 0
    BY <1>3 DEF Record, Torn
  <2> QED BY <1>1, <2>1 DEF Hiding
<1> QED BY <1>2, <1>3

\* Whether an append raises or not, its line hides what it kept room for.
LEMMA AppendHiding ==
  ASSUME SessionOK, Hiding, NEW t \in Threads, NEW o,
         (Record(t, o) /\ UNCHANGED errors) \/ AuditFails(t, o)
  PROVE  Hiding'
<1>1. Cardinality(hidden) \in Nat /\ errors \in Nat /\ Torn \in {0, 1}
  BY FS_CardinalityType DEF Hiding, SessionOK, Torn
<1>2. CASE Record(t, o) /\ UNCHANGED errors
  BY <1>2, RecordHiding DEF Hiding
<1>3. CASE AuditFails(t, o)
  <2>1. errors' = errors + 1
    BY <1>3 DEF AuditFails
  <2>2. CASE UNCHANGED audit
    BY <1>1, <2>1, <2>2 DEF Hiding, Torn
  <2>3. CASE Record(t, o)
    <3>1. IsFiniteSet(hidden') /\ Cardinality(hidden') + Torn' <= errors
      BY <2>3, RecordHiding
    <3>2. Cardinality(hidden') \in Nat /\ Torn' \in {0, 1}
      BY <3>1, FS_CardinalityType DEF Torn
    <3> QED BY <1>1, <2>1, <3>1, <3>2 DEF Hiding
  <2>4. CASE tail' = "torn" /\ UNCHANGED <<log, hidden>>
    <3>1. Torn' = 1 /\ hidden' = hidden
      BY <2>4 DEF Torn
    <3> QED BY <1>1, <2>1, <3>1 DEF Hiding
  <2> QED BY <1>3, <2>2, <2>3, <2>4 DEF AuditFails
<1> QED BY <1>2, <1>3

\* Only an append writes to the audit.
LEMMA NextHiding == ASSUME SessionOK, Hiding, [Next]_vars PROVE Hiding'
<1>1. ASSUME NEW t \in Threads, Note(t) PROVE Hiding'
  BY <1>1, AppendHiding DEF Note
<1>2. ASSUME NEW t \in Threads, Deny(t) PROVE Hiding'
  <2>1. \E o : (Record(t, o) /\ UNCHANGED errors) \/ AuditFails(t, o)
    BY <1>2 DEF Deny
  <2> QED BY <2>1, AppendHiding
<1>3. ASSUME UNCHANGED <<audit, errors>> PROVE Hiding'
  BY <1>3 DEF Hiding, Torn
<1>4. ASSUME NEW t \in Threads, Gateway(t) PROVE Hiding'
  BY <1>1, <1>2, <1>3, <1>4 DEF Gateway, Answers, Admit, Register, Authenticate, List, Close, Lock,
     Bind, Charge, Launch, Finish, Leave
<1>5. CASE \E t \in Agents : AgentAsks(t) \/ AgentTakes(t)
  BY <1>3, <1>5 DEF AgentAsks, AgentTakes, Ask
<1>6. CASE PlannerRuns
  BY <1>3, <1>6 DEF PlannerRuns, PlannerAsks, PlannerTakes, Interrupt, Conclude, Ask
<1>7. CASE Promote \/ Tick \/ UNCHANGED vars
  BY <1>3, <1>7 DEF Promote, Tick, vars
<1> QED BY <1>4, <1>5, <1>6, <1>7 DEF Next

(***************************************************************************)
(* No result reaches a caller without a call_index of its own and a record *)
(* under that index, and readers of the audit miss one of these records    *)
(* per raising append at most, however the appends raise.                  *)
(***************************************************************************)
THEOREM DeliveriesAudited == Spec => []DeliveredIsAudited
<1>1. Init => Hiding
  BY FS_EmptySet DEF Init, Hiding, Torn
<1>2. GatewayInv /\ Hiding /\ [Next]_vars => Hiding'
  BY NextHiding DEF GatewayInv, TypeOK
<1>3. Spec => []Hiding
  BY <1>1, <1>2, GatewayInvariant, PTL DEF Spec
<1>4. ASSUME GatewayInv, Hiding PROVE DeliveredIsAudited
  <2> DEFINE missed == {Noted(d) : d \in delivered} \cap hidden
  <2>1. IsFiniteSet(missed) /\ Cardinality(missed) <= Cardinality(hidden)
    BY <1>4, FS_Subset DEF Hiding
  <2>2. Cardinality(hidden) \in Nat /\ Cardinality(missed) \in Nat /\ Torn \in {0, 1}
    BY <1>4, <2>1, FS_CardinalityType DEF Hiding, Torn
  <2>3. Cardinality(hidden) + Torn <= errors /\ errors \in Nat
    BY <1>4 DEF Hiding, GatewayInv, TypeOK, SessionOK
  <2>4. Cardinality(missed) <= errors
    BY <2>1, <2>2, <2>3
  <2>5. /\ \A d, e \in delivered : d.index = e.index => d = e
        /\ {Noted(d) : d \in delivered} \subseteq log
    BY <1>4 DEF GatewayInv, Secure, Audited
  <2> QED BY <2>4, <2>5 DEF DeliveredIsAudited
<1> QED BY <1>3, <1>4, GatewayInvariant, PTL

(***************************************************************************)
(* As long as no append has raised, a call recorded as DENIED has run no   *)
(* adapter.                                                                *)
(***************************************************************************)
THEOREM DenialsAreTrue == Spec => []DenialIsTrue
<1>1. GatewayInv => DenialIsTrue
  BY DEF GatewayInv, Secure, Denials, DenialIsTrue
<1> QED BY <1>1, GatewayInvariant, PTL

(***************************************************************************)
(* A plan of any length is reported as passed only when each of its cases  *)
(* passed on a whole result delivered to the planner, and the session was  *)
(* closed on record.                                                       *)
(***************************************************************************)
THEOREM PassesAreEarned == Spec => []PassIsEarned
<1>1. ASSUME GatewayInv, report = "PASS"
      PROVE  /\ results = [i \in 1..Cases |-> "PASS"]
             /\ Cardinality(Earned) = Cases /\ ClosedOnRecord
  <2> USE DEF GatewayInv, Secure, TypeOK
  <2>1. Passed /\ stage = Over
    BY <1>1 DEF OnCourse, Counted
  <2>2. Len(results) = Cases /\ ClosedOnRecord
    BY <1>1, <2>1 DEF Counted
  <2>3. pc[Planner] = "idle"
    BY <1>1, <2>1, GatewayAssumption DEF OnCourse, Over, Closing
  <2>4. ~InHand
    BY <2>3 DEF InHand
  <2>5. Cardinality(Earned) = Cases
    BY <1>1, <2>1, <2>2, <2>4, GatewayAssumption DEF Counted
  <2>6. results = [i \in 1..Cases |-> "PASS"]
    <3>1. results \in Seq(Verdicts)
      BY <1>1 DEF ThreadsOK
    <3>2. DOMAIN results = 1..Cases
      BY <2>2, <3>1, LenProperties
    <3>3. results = [i \in DOMAIN results |-> results[i]]
      BY <3>1
    <3> QED BY <2>1, <3>2, <3>3 DEF Passed
  <2> QED BY <2>2, <2>5, <2>6
<1>2. GatewayInv => PassIsEarned
  BY <1>1 DEF PassIsEarned, Earned, ClosedOnRecord
<1> QED BY <1>2, GatewayInvariant, PTL
=============================================================================

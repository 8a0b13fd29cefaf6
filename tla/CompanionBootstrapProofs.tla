----------------------- MODULE CompanionBootstrapProofs -----------------------
(***************************************************************************)
(* For any number of calls and packages, lost replies, commands that run   *)
(* late and calls that stop anywhere: a reported rollback and a success    *)
(* about to be recorded are true of an undisturbed target, and a recorded  *)
(* success is not executed again by a call that can read the record.       *)
(***************************************************************************)
EXTENDS CompanionBootstrap, TLAPS

Ending == {"drop", "unstage", "save", "record", "raise"}

\* What a call's locals can be where it stands.
Local(c) ==
  /\ pc[c] \in Live => want[c] \in Packages
  /\ pc[c] \notin Executing \cup {"raise"} => c \notin disturbed \cup restored \cup available
  /\ outcome[c] # "none" => pc[c] \in Ending \cup {"restore"}
  /\ outcome[c] = "SUCCEEDED" => pc[c] # "restore" /\ c \notin restored
  /\ pc[c] \in {"drop", "unstage", "save", "record", "restore"} => outcome[c] # "none"
  /\ c \in restored => pc[c] \in Ending
  /\ c \in restored \/ pc[c] = "restore" => c \in available
Locals == \A c \in Calls : Local(c)

\* What an undisturbed call knows of the target.
Known(c) ==
  /\ c \in available /\ pc[c] \in {"upload", "uploading", "install", "health", "restore"}
       => target.saved[want[c]] = before[c]
  /\ c \in restored /\ pc[c] \in Executing => target.companion = before[c]
  /\ outcome[c] = "SUCCEEDED" /\ pc[c] \in Executing
       => target.companion = want[c] /\ want[c] \notin Broken
Knows == \A c \in Calls \ disturbed : Known(c)

\* A recorded success has its result.
Recorded ==
  \A c \in Calls : /\ pc[c] = "record" => result[c] # "none"
                   /\ job[c] = "SUCCEEDED" => result[c] # "none"

IInv == TypeOK /\ Locals /\ Knows /\ Recorded

\* A command leaves the target in one of its states.
LEMMA EffectType ==
  ASSUME TypeOK, NEW op \in Commands, NEW p \in Packages PROVE Effect(op, p) \in Hosts
<1> USE BootstrapAssumption DEF TypeOK, Hosts, Companions, Effect, Works
<1>1. CASE ~Works(op, p)
  BY <1>1
<1>2. CASE Works(op, p) /\ op = "backup"
  BY <1>2
<1>3. CASE Works(op, p) /\ op = "install"
  BY <1>3
<1>4. CASE Works(op, p) /\ op = "restore"
  BY <1>4
<1>5. CASE Works(op, p) /\ op = "drop"
  BY <1>5
<1>6. CASE Works(op, p) /\ op = "unstage"
  BY <1>6
<1> QED
  BY <1>1, <1>2, <1>3, <1>4, <1>5, <1>6 DEF Commands

\* Whoever changes the target disturbs every other call that is executing.
LEMMA Disturbance ==
  ASSUME NEW c, NEW t, Becomes(c, t)
  PROVE /\ target' = t
        /\ disturbed \subseteq disturbed'
        /\ c \notin disturbed => c \notin disturbed'
        /\ \A d \in disturbed' \ disturbed : d \in Calls /\ pc[d] \in Executing
        /\ \A d \in Calls \ disturbed' : d # c /\ pc[d] \in Executing => target' = target
  BY DEF Becomes

\* The invariant holds before the first call.
LEMMA InitIInv == Init => IInv
<1> SUFFICES ASSUME Init PROVE IInv
  OBVIOUS
<1> USE BootstrapAssumption DEF Init, Executing, Live, Ending
<1>1. TypeOK
  <2>1. target \in Hosts
    BY DEF Hosts, Companions
  <2> QED
    BY <2>1 DEF TypeOK, Companions
<1>2. Locals
  BY DEF Locals, Local
<1>3. Knows /\ Recorded
  BY DEF Knows, Known, Recorded
<1> QED
  BY <1>1, <1>2, <1>3 DEF IInv

\* Every step of a call, its job and the target keeps the invariant.
LEMMA NextIInv == ASSUME IInv, [Next]_vars PROVE IInv'
<1> USE BootstrapAssumption
<1> USE DEF IInv, TypeOK, Locals, Local, Knows, Known, Recorded, Executing, Live, Ending,
        Commands, host, notes, store, Goto, Ends, Leave
<1>1. ASSUME NEW c \in Calls, Find(c) PROVE IInv'
  BY <1>1 DEF Find
<1>2. ASSUME NEW c \in Calls, Create(c) PROVE IInv'
  BY <1>2 DEF Create
<1>3. ASSUME NEW c \in Calls, Start(c) PROVE IInv'
  BY <1>3 DEF Start
<1>4. ASSUME NEW c \in Calls, Authorize(c) PROVE IInv'
  BY <1>4 DEF Authorize
<1>5. ASSUME NEW c \in Calls, Backup(c) PROVE IInv'
  <2> USE <1>5 DEF Backup
  <2>1. target' \in Hosts
    BY EffectType DEF Succeeds, Fails, Becomes
  <2>2. TypeOK'
    BY <2>1 DEF Succeeds, Fails, Becomes, Companions, Hosts
  <2>3. Locals'
    BY DEF Succeeds, Fails, Becomes
  <2>4. Knows'
    <3>1. ASSUME NEW d \in Calls \ disturbed', d # c PROVE Known(d)'
      BY <3>1, Disturbance DEF Succeeds, Fails
    <3>2. c \notin disturbed' => Known(c)'
      BY Disturbance DEF Succeeds, Fails, Effect, Works, Hosts
    <3> QED
      BY <3>1, <3>2
  <2>5. Recorded'
    OBVIOUS
  <2> QED
    BY <2>2, <2>3, <2>4, <2>5
<1>6. ASSUME NEW c \in Calls, Upload(c) PROVE IInv'
  <2> USE <1>6 DEF Upload
  <2>1. target' \in Hosts
    BY DEF Becomes, Staged, Hosts
  <2>2. TypeOK'
    BY <2>1 DEF Becomes, Staged, Companions, Hosts
  <2>3. Locals'
    BY DEF Becomes, Staged
  <2>4. Knows'
    BY DEF Becomes, Staged, Hosts
  <2>5. Recorded'
    OBVIOUS
  <2> QED
    BY <2>2, <2>3, <2>4, <2>5
<1>7. ASSUME NEW c \in Calls, Uploaded(c) PROVE IInv'
  <2> USE <1>7 DEF Uploaded
  <2>1. target' \in Hosts
    BY DEF Becomes, Staged, Hosts
  <2>2. TypeOK'
    BY <2>1 DEF Becomes, Staged, Companions, Hosts
  <2>3. Locals'
    BY DEF Becomes, Staged
  <2>4. Knows'
    BY DEF Becomes, Staged, Hosts
  <2>5. Recorded'
    OBVIOUS
  <2> QED
    BY <2>2, <2>3, <2>4, <2>5
<1>8. ASSUME NEW c \in Calls, Install(c) PROVE IInv'
  <2> USE <1>8 DEF Install
  <2>1. target' \in Hosts
    BY EffectType DEF Succeeds, Fails, Becomes
  <2>2. TypeOK'
    BY <2>1 DEF Succeeds, Fails, Becomes, Companions, Hosts
  <2>3. Locals'
    BY DEF Succeeds, Fails, Becomes
  <2>4. Knows'
    <3>1. ASSUME NEW d \in Calls \ disturbed', d # c PROVE Known(d)'
      BY <3>1, Disturbance DEF Succeeds, Fails
    <3>2. c \notin disturbed' => Known(c)'
      BY Disturbance DEF Succeeds, Fails, Effect, Works, Hosts
    <3> QED
      BY <3>1, <3>2
  <2>5. Recorded'
    OBVIOUS
  <2> QED
    BY <2>2, <2>3, <2>4, <2>5
<1>9. ASSUME NEW c \in Calls, Health(c) PROVE IInv'
  BY <1>9 DEF Health, Healthy, Available
<1>10. ASSUME NEW c \in Calls, Restore(c) PROVE IInv'
  <2> USE <1>10 DEF Restore
  <2>1. target' \in Hosts
    BY EffectType DEF Succeeds, Fails, Becomes
  <2>2. TypeOK'
    BY <2>1 DEF Succeeds, Fails, Becomes, Companions, Hosts
  <2>3. Locals'
    BY DEF Succeeds, Fails, Becomes
  <2>4. Knows'
    <3>1. ASSUME NEW d \in Calls \ disturbed', d # c PROVE Known(d)'
      BY <3>1, Disturbance DEF Succeeds, Fails
    <3>2. c \notin disturbed' => Known(c)'
      <4> SUFFICES ASSUME c \notin disturbed' PROVE Known(c)'
        OBVIOUS
      <4>1. /\ c \notin disturbed /\ c \notin restored /\ outcome[c] # "SUCCEEDED"
            /\ target.saved[want[c]] = before[c]
        BY Disturbance DEF Succeeds, Fails
      <4>2. CASE Succeeds(c, "restore")
        <5>1. target'.companion = before[c]
          <6>1. target' = Effect("restore", want[c]) /\ Works("restore", want[c])
            BY <4>2, Disturbance DEF Succeeds
          <6>2. Effect("restore", want[c]).companion = target.saved[want[c]]
            BY <6>1 DEF Effect, Hosts
          <6> QED
            BY <4>1, <6>1, <6>2
        <5> QED
          BY <4>1, <5>1
      <4>3. CASE Fails(c, "restore") /\ UNCHANGED restored
        BY <4>1, <4>3
      <4> QED
        BY <4>2, <4>3
    <3> QED
      BY <3>1, <3>2
  <2>5. Recorded'
    OBVIOUS
  <2> QED
    BY <2>2, <2>3, <2>4, <2>5
<1>11. ASSUME NEW c \in Calls, Drop(c) PROVE IInv'
  <2> USE <1>11 DEF Drop
  <2>1. target' \in Hosts
    BY EffectType DEF Succeeds, Fails, Becomes
  <2>2. TypeOK'
    BY <2>1 DEF Succeeds, Fails, Becomes, Companions, Hosts
  <2>3. Locals'
    BY DEF Succeeds, Fails, Becomes
  <2>4. Knows'
    <3>1. ASSUME NEW d \in Calls \ disturbed', d # c PROVE Known(d)'
      BY <3>1, Disturbance DEF Succeeds, Fails
    <3>2. c \notin disturbed' => Known(c)'
      BY Disturbance DEF Succeeds, Fails, Effect, Works, Hosts
    <3> QED
      BY <3>1, <3>2
  <2>5. Recorded'
    OBVIOUS
  <2> QED
    BY <2>2, <2>3, <2>4, <2>5
<1>12. ASSUME NEW c \in Calls, Unstage(c) PROVE IInv'
  <2> USE <1>12 DEF Unstage
  <2>1. target' \in Hosts
    BY EffectType DEF Succeeds, Fails, Becomes
  <2>2. TypeOK'
    BY <2>1 DEF Succeeds, Fails, Becomes, Companions, Hosts
  <2>3. Locals'
    BY DEF Succeeds, Fails, Becomes
  <2>4. Knows'
    <3>1. ASSUME NEW d \in Calls \ disturbed', d # c PROVE Known(d)'
      BY <3>1, Disturbance DEF Succeeds, Fails
    <3>2. c \notin disturbed' => Known(c)'
      BY Disturbance DEF Succeeds, Fails, Effect, Works, Hosts
    <3> QED
      BY <3>1, <3>2
  <2>5. Recorded'
    OBVIOUS
  <2> QED
    BY <2>2, <2>3, <2>4, <2>5
<1>13. ASSUME NEW c \in Calls, SaveResult(c) PROVE IInv'
  BY <1>13 DEF SaveResult
<1>14. ASSUME NEW c \in Calls, Record(c) PROVE IInv'
  <2> USE <1>14 DEF Record
  <2>1. TypeOK'
    BY DEF Companions
  <2>2. Locals'
    OBVIOUS
  <2>3. Knows'
    OBVIOUS
  <2>4. Recorded'
    OBVIOUS
  <2> QED
    BY <2>1, <2>2, <2>3, <2>4
<1>15. ASSUME NEW c \in Calls, RecordFailure(c) PROVE IInv'
  <2> USE <1>15 DEF RecordFailure
  <2>1. TypeOK'
    BY DEF Companions
  <2>2. Locals'
    OBVIOUS
  <2>3. Knows'
    OBVIOUS
  <2>4. Recorded'
    OBVIOUS
  <2> QED
    BY <2>1, <2>2, <2>3, <2>4
<1>16. ASSUME NEW c \in Calls, CannotRun(c) PROVE IInv'
  BY <1>16 DEF CannotRun
<1>17. ASSUME NEW c \in Calls, Stop(c) PROVE IInv'
  <2> USE <1>17 DEF Stop
  <2>1. TypeOK'
    BY DEF Companions
  <2>2. Locals'
    OBVIOUS
  <2>3. Knows'
    OBVIOUS
  <2>4. Recorded'
    OBVIOUS
  <2> QED
    BY <2>1, <2>2, <2>3, <2>4
<1>18. ASSUME NEW op \in Commands, NEW p \in Packages, Late(op, p) PROVE IInv'
  <2> USE <1>18 DEF Late
  <2>1. target' \in Hosts
    BY EffectType DEF Becomes
  <2>2. TypeOK'
    BY <2>1 DEF Becomes, Companions, Hosts
  <2>3. Locals'
    BY DEF Becomes
  <2>4. Knows'
    BY Disturbance
  <2>5. Recorded'
    OBVIOUS
  <2> QED
    BY <2>2, <2>3, <2>4, <2>5
<1>20. ASSUME NEW c \in Calls, Obscure(c) PROVE IInv'
  BY <1>20 DEF Obscure
<1>19. CASE UNCHANGED vars
  BY <1>19 DEF vars
<1> HIDE DEF IInv
<1> QED
  BY <1>1, <1>2, <1>3, <1>4, <1>5, <1>6, <1>7, <1>8, <1>9, <1>10, <1>11, <1>12, <1>13, <1>14,
     <1>15, <1>16, <1>17, <1>18, <1>19, <1>20 DEF Next, Step

\* The inductive invariant holds in every reachable state.
LEMMA AlwaysIInv == Spec => []IInv
  BY InitIInv, NextIInv, PTL DEF Spec

-----------------------------------------------------------------------------

\* Type correctness of the calls, their jobs and the target.
THEOREM BootstrapTypeCorrect == Spec => []TypeOK
<1>1. IInv => TypeOK
  BY DEF IInv
<1> QED
  BY <1>1, AlwaysIInv, PTL

\* A call that reports a restored companion has restored the one it backed up,
\* unless the target was changed by someone else meanwhile.
THEOREM RollbacksRestore == Spec => []RollbackRestores
<1>1. IInv => RollbackRestores
  BY DEF IInv, TypeOK, Knows, Known, RollbackRestores
<1> QED
  BY <1>1, AlwaysIInv, PTL

\* A call that is about to record success leaves its own, working package on a
\* target no one else changed.
THEOREM SuccessesAreTrue == Spec => []SuccessIsTrue
<1>1. IInv => SuccessIsTrue
  BY DEF IInv, Knows, Known, SuccessIsTrue
<1> QED
  BY <1>1, AlwaysIInv, PTL

\* A recorded success is found by every call that starts later and can read it.
THEOREM BootstrapsNotRepeated == Spec => NotRepeated
<1>1. ASSUME IInv, [Next]_vars PROVE [Repeated]_vars
  <2> SUFFICES ASSUME Next, NEW c \in Calls, NEW j \in Calls \ unreadable,
                      job[j] = "SUCCEEDED", pc[c] = "idle"
               PROVE pc'[c] \in {"idle", "found"}
    BY <1>1 DEF Repeated
  <2> USE DEF IInv, TypeOK, Goto, Leave
  <2>1. Findable(j)
    BY <1>1 DEF Recorded, Findable
  <2>2. ASSUME NEW d \in Calls, Find(d) PROVE pc'[c] \in {"idle", "found"}
    BY <1>1, <2>1, <2>2 DEF Find
  <2>3. ASSUME NEW d \in Calls, Step(d) \/ CannotRun(d) \/ Stop(d) \/ Obscure(d), ~Find(d)
        PROVE pc'[c] = "idle"
    BY <1>1, <2>3
    DEF Step, Create, Start, Authorize, Backup, Upload, Uploaded, Install, Health,
       Restore, Drop, Unstage, SaveResult, Record, RecordFailure, CannotRun, Stop, Obscure, Commands, Live,
       Executing
  <2>4. ASSUME NEW op \in Commands, NEW p \in Packages, Late(op, p) PROVE pc'[c] = "idle"
    BY <2>4 DEF Late
  <2> QED
    BY <2>2, <2>3, <2>4 DEF Next
<1> QED
  BY <1>1, AlwaysIInv, PTL DEF Spec, NotRepeated
=============================================================================

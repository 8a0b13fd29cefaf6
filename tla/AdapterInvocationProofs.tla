----------------------- MODULE AdapterInvocationProofs -----------------------
(***************************************************************************)
(* For any number of calls, failing appends and deaths: what the audit log *)
(* says of an adapter is true, no more of it is lost than writes stopped   *)
(* half-way, and a quiescence lease lasts until its adapter starts if it   *)
(* is longer than what comes before.                                       *)
(***************************************************************************)
EXTENDS AdapterInvocation, FiniteSetTheorems, TLAPS

\* Where a call stands, its domains and its adapter.
Phase(c) ==
  /\ pc[c] = "idle" => Written(c) = {}
  /\ pc[c] \in {"idle", "deciding", "launching"} => adapter[c] = "none"
  /\ pc[c] \in {"feeding", "running"} => adapter[c] = "acting"
  /\ pc[c] = "deciding" => todo[c] # {}
  /\ pc[c] = "appending" =>
       \/ entry[c] \in Domains /\ Due(c, entry[c]) /\ adapter[c] = "none"
       \/ entry[c] = "DENIED" /\ adapter[c] = "none"
       \/ entry[c] = "STARTED" /\ adapter[c] = "none" /\ todo[c] = {}
       \/ entry[c] \in Outcomes /\ adapter[c] \in Verdicts /\ entry[c] = Outcome(adapter[c])
  /\ pc[c] = "launching" => todo[c] = {} /\ "STARTED" \in Written(c)
Placed == \A c \in Calls : Phase(c)

\* What is in the log of a call.
Recorded(c) ==
  /\ pc[c] \in {"deciding", "appending", "launching"} =>
       Required(kind[c]) \ todo[c] \subseteq Written(c)
  /\ adapter[c] # "none" => Required(kind[c]) \cup {"STARTED"} \subseteq Written(c)
  /\ pc[c] \notin Ended => Written(c) \cap Outcomes = {}
  /\ \A o \in Written(c) \cap Outcomes : adapter[c] \in Verdicts /\ o = Outcome(adapter[c])
  /\ pc[c] = "returned" => "SUCCEEDED" \in Written(c)
Recording == \A c \in Calls : Recorded(c)

\* What is left of a quiescent call's lease.
Leased(c) ==
  /\ pc[c] = "deciding" => "quiescence" \in todo[c]
  /\ pc[c] = "appending" /\ entry[c] \in Domains => "quiescence" \in todo[c]
  /\ pc[c] = "appending" /\ entry[c] = "quiescence" => Needed <= lease[c] + spent[c]
  /\ pc[c] = "appending" /\ entry[c] = "STARTED" => Needed <= lease[c] + spent[c] + AppendTime
  /\ pc[c] = "launching" => Needed <= lease[c] + spent[c] + AppendTime + AppendTime
OnTime(c) ==
  /\ pc[c] = "appending" => spent[c] <= AppendTime
  /\ pc[c] = "launching" => spent[c] <= Overhead
Timing == \A c \in Calls : OnTime(c) /\ (kind[c] = "quiet" => Leased(c))

\* Every torn line hides one record, or waits for one.
Hidden == {ce \in Calls \X Entries : ce[2] \in glued[ce[1]]}
Torn == IF tail = "torn" THEN 1 ELSE 0
Hiding == IsFiniteSet(Hidden) /\ Cardinality(Hidden) + Torn <= faults["tear"]

IInv == TypeOK /\ Placed /\ Recording /\ Timing /\ Hiding

\* The permission domains a policy asks for are domains.
LEMMA RequiredType == ASSUME NEW k \in Kinds PROVE Required(k) \subseteq Domains
<1>1. k \in AllKinds
  BY InvocationAssumption
<1> QED
  BY <1>1 DEF Required, Domains, AllKinds

\* A terminal event is recorded, and SUCCEEDED only for a valid result.
LEMMA OutcomeType == ASSUME NEW v \in Verdicts
                     PROVE /\ Outcome(v) \in Outcomes
                           /\ Outcome(v) = "SUCCEEDED" => v = "valid"
  BY DEF Outcome, Outcomes, Verdicts

\* The empty log satisfies the invariant.
LEMMA InitIInv == Init => IInv
<1> SUFFICES ASSUME Init PROVE IInv
  OBVIOUS
<1> USE InvocationAssumption DEF Init, log
<1>1. TypeOK
  BY DEF TypeOK, Phases, Entries, Domains
<1>2. Placed /\ Recording
  BY DEF Placed, Phase, Recording, Recorded, Written, Ended
<1>3. Timing
  BY DEF Timing, OnTime, Leased
<1>4. Hiding
  <2>1. Hidden = {}
    BY DEF Hidden
  <2> QED
    BY <2>1, FS_EmptySet DEF Hiding, Torn
<1> QED
  BY <1>1, <1>2, <1>3, <1>4 DEF IInv

\* A record appended to a torn line takes the place the line kept for one.
LEMMA WriteHiding ==
  ASSUME TypeOK, Hiding, NEW c \in Calls, Write(c), UNCHANGED faults
  PROVE Hiding'
<1>1. CASE tail = "whole"
  <2>1. Hidden' = Hidden /\ tail' = "whole"
    BY <1>1 DEF Write, Hidden
  <2> QED
    BY <1>1, <2>1 DEF Hiding, Torn
<1>2. CASE tail = "torn"
  <2>1. Hidden' = Hidden \cup {<<c, entry[c]>>} /\ tail' = "whole"
    BY <1>2 DEF Write, Hidden, TypeOK
  <2>2. IsFiniteSet(Hidden) /\ Cardinality(Hidden) + 1 <= faults["tear"]
    BY <1>2 DEF Hiding, Torn
  <2>3. /\ IsFiniteSet(Hidden')
        /\ Cardinality(Hidden') \in {Cardinality(Hidden), Cardinality(Hidden) + 1}
    BY <2>1, <2>2, FS_AddElement
  <2>4. Cardinality(Hidden) \in Nat /\ faults["tear"] \in Nat
    BY <2>2, FS_CardinalityType DEF TypeOK
  <2> QED
    BY <2>1, <2>2, <2>3, <2>4 DEF Hiding, Torn
<1> QED
  BY <1>1, <1>2 DEF TypeOK

\* The five parts of the invariant, each through every action.
LEMMA TypeStep == ASSUME IInv, [Next]_vars PROVE TypeOK'
<1> USE InvocationAssumption, RequiredType, OutcomeType
<1> USE DEF IInv, TypeOK, Phases, Ended, Domains, Outcomes, Entries, log, Goto, Leave,
        Append, Count
<1>1. ASSUME NEW c \in Calls, Begin(c) PROVE TypeOK'
  BY <1>1 DEF Begin
<1>2. ASSUME NEW c \in Calls, Reject(c) PROVE TypeOK'
  BY <1>2 DEF Reject
<1>3. ASSUME NEW c \in Calls, NEW d \in Domains, Deny(c, d) PROVE TypeOK'
  BY <1>3 DEF Deny, Decide, Due
<1>4. ASSUME NEW c \in Calls, NEW d \in Domains, Allow(c, d) PROVE TypeOK'
  BY <1>4 DEF Allow, Decide, Due
<1>5. ASSUME NEW c \in Calls, NEW l \in 0..(MaxLease + 1), Quiesce(c, l) PROVE TypeOK'
  BY <1>5 DEF Quiesce, Decide, Due, Covers, Needed
<1>6. ASSUME NEW c \in Calls, Allowed(c) PROVE TypeOK'
  BY <1>6 DEF Allowed, Write
<1>7. ASSUME NEW c \in Calls, Denied(c) PROVE TypeOK'
  BY <1>7 DEF Denied, Write
<1>8. ASSUME NEW c \in Calls, Started(c) PROVE TypeOK'
  BY <1>8 DEF Started, Write
<1>9. ASSUME NEW c \in Calls, Finished(c) PROVE TypeOK'
  BY <1>9 DEF Finished, Write
<1>10. ASSUME NEW c \in Calls, NotWritten(c) PROVE TypeOK'
  BY <1>10 DEF NotWritten
<1>11. ASSUME NEW c \in Calls, NotSynced(c) PROVE TypeOK'
  BY <1>11 DEF NotSynced, Write
<1>12. ASSUME NEW c \in Calls, Tear(c) PROVE TypeOK'
  BY <1>12 DEF Tear
<1>13. ASSUME NEW c \in Calls, Launch(c) PROVE TypeOK'
  BY <1>13 DEF Launch
<1>14. ASSUME NEW c \in Calls, Unlaunched(c) PROVE TypeOK'
  BY <1>14 DEF Unlaunched, End, Verdicts
<1>15. ASSUME NEW c \in Calls, NEW v \in Verdicts, Exit(c, v) PROVE TypeOK'
  BY <1>15 DEF Exit, End, Verdicts
<1>16. ASSUME NEW c \in Calls, Kill(c) PROVE TypeOK'
  BY <1>16 DEF Kill, End, Verdicts
<1>17. ASSUME NEW c \in Calls, Crash(c) PROVE TypeOK'
  BY <1>17 DEF Crash
<1>18. ASSUME NEW c \in Calls, Fed(c) PROVE TypeOK'
  BY <1>18 DEF Fed
<1>19. ASSUME Tick PROVE TypeOK'
  BY <1>19 DEF Tick, Timed, InTime
<1>20. CASE UNCHANGED vars
  BY <1>20 DEF vars
<1> HIDE DEF IInv, TypeOK, Phases, Ended, Domains, Outcomes, Entries, log, Goto, Leave,
        Append, Count
<1> QED
  BY <1>1, <1>2, <1>3, <1>4, <1>5, <1>6, <1>7, <1>8, <1>9, <1>10, <1>11, <1>12, <1>13,
          <1>14, <1>15, <1>16, <1>17, <1>19, <1>20, <1>18 DEF Next, Answer, Appended

\* What a call has read and decided keeps agreeing with where it stands.
LEMMA PhaseStep == ASSUME IInv, [Next]_vars PROVE Placed'
<1> USE InvocationAssumption, RequiredType, OutcomeType
<1> USE DEF IInv, TypeOK, Placed, Phase, Recorded, Written, Due, Ended, Domains, Outcomes,
        Entries, log, Goto, Leave, Append, Count
<1>1. ASSUME NEW c \in Calls, Begin(c) PROVE Placed'
  BY <1>1 DEF Begin
<1>2. ASSUME NEW c \in Calls, Reject(c) PROVE Placed'
  BY <1>2 DEF Reject
<1>3. ASSUME NEW c \in Calls, NEW d \in Domains, Deny(c, d) PROVE Placed'
  BY <1>3 DEF Deny, Decide
<1>4. ASSUME NEW c \in Calls, NEW d \in Domains, Allow(c, d) PROVE Placed'
  BY <1>4 DEF Allow, Decide
<1>5. ASSUME NEW c \in Calls, NEW l \in 0..(MaxLease + 1), Quiesce(c, l) PROVE Placed'
  BY <1>5 DEF Quiesce, Decide, Covers, Needed
<1>6. ASSUME NEW c \in Calls, Allowed(c) PROVE Placed'
  BY <1>6 DEF Allowed, Write
<1>7. ASSUME NEW c \in Calls, Denied(c) PROVE Placed'
  BY <1>7 DEF Denied, Write
<1>8. ASSUME NEW c \in Calls, Started(c) PROVE Placed'
  BY <1>8 DEF Started, Write
<1>9. ASSUME NEW c \in Calls, Finished(c) PROVE Placed'
  BY <1>9 DEF Finished, Write
<1>10. ASSUME NEW c \in Calls, NotWritten(c) PROVE Placed'
  BY <1>10 DEF NotWritten
<1>11. ASSUME NEW c \in Calls, NotSynced(c) PROVE Placed'
  BY <1>11 DEF NotSynced, Write
<1>12. ASSUME NEW c \in Calls, Tear(c) PROVE Placed'
  BY <1>12 DEF Tear
<1>13. ASSUME NEW c \in Calls, Launch(c) PROVE Placed'
  BY <1>13 DEF Launch
<1>14. ASSUME NEW c \in Calls, Unlaunched(c) PROVE Placed'
  BY <1>14 DEF Unlaunched, End, Verdicts
<1>15. ASSUME NEW c \in Calls, NEW v \in Verdicts, Exit(c, v) PROVE Placed'
  BY <1>15 DEF Exit, End, Verdicts
<1>16. ASSUME NEW c \in Calls, Kill(c) PROVE Placed'
  BY <1>16 DEF Kill, End, Verdicts
<1>17. ASSUME NEW c \in Calls, Crash(c) PROVE Placed'
  BY <1>17 DEF Crash
<1>18. ASSUME NEW c \in Calls, Fed(c) PROVE Placed'
  BY <1>18 DEF Fed
<1>19. ASSUME Tick PROVE Placed'
  BY <1>19 DEF Tick, Timed, InTime
<1>20. CASE UNCHANGED vars
  BY <1>20 DEF vars
<1> HIDE DEF IInv, TypeOK, Placed, Phase, Recorded, Written, Due, Ended, Domains, Outcomes,
        Entries, log, Goto, Leave, Append, Count
<1> QED
  BY <1>1, <1>2, <1>3, <1>4, <1>5, <1>6, <1>7, <1>8, <1>9, <1>10, <1>11, <1>12, <1>13,
          <1>14, <1>15, <1>16, <1>17, <1>19, <1>20, <1>18 DEF Next, Answer, Appended

\* What the log holds of a call keeps agreeing with where it stands.
LEMMA RecordStep == ASSUME IInv, [Next]_vars PROVE Recording'
<1> USE InvocationAssumption, RequiredType, OutcomeType
<1> USE DEF IInv, TypeOK, Placed, Phase, Recording, Recorded, Written, Ended, Domains,
        Outcomes, Entries, log, Goto, Leave, Append, Count
<1>1. ASSUME NEW c \in Calls, Begin(c) PROVE Recording'
  BY <1>1 DEF Begin
<1>2. ASSUME NEW c \in Calls, Reject(c) PROVE Recording'
  BY <1>2 DEF Reject
<1>3. ASSUME NEW c \in Calls, NEW d \in Domains, Deny(c, d) PROVE Recording'
  BY <1>3 DEF Deny, Decide, Due
<1>4. ASSUME NEW c \in Calls, NEW d \in Domains, Allow(c, d) PROVE Recording'
  BY <1>4 DEF Allow, Decide, Due
<1>5. ASSUME NEW c \in Calls, NEW l \in 0..(MaxLease + 1), Quiesce(c, l) PROVE Recording'
  BY <1>5 DEF Quiesce, Decide, Due, Covers, Needed
<1>6. ASSUME NEW c \in Calls, Allowed(c) PROVE Recording'
  BY <1>6 DEF Allowed, Write
<1>7. ASSUME NEW c \in Calls, Denied(c) PROVE Recording'
  BY <1>7 DEF Denied, Write
<1>8. ASSUME NEW c \in Calls, Started(c) PROVE Recording'
  BY <1>8 DEF Started, Write
<1>9. ASSUME NEW c \in Calls, Finished(c) PROVE Recording'
  BY <1>9 DEF Finished, Write
<1>10. ASSUME NEW c \in Calls, NotWritten(c) PROVE Recording'
  BY <1>10 DEF NotWritten
<1>11. ASSUME NEW c \in Calls, NotSynced(c) PROVE Recording'
  BY <1>11 DEF NotSynced, Write
<1>12. ASSUME NEW c \in Calls, Tear(c) PROVE Recording'
  BY <1>12 DEF Tear
<1>13. ASSUME NEW c \in Calls, Launch(c) PROVE Recording'
  BY <1>13 DEF Launch
<1>14. ASSUME NEW c \in Calls, Unlaunched(c) PROVE Recording'
  BY <1>14 DEF Unlaunched, End, Verdicts
<1>15. ASSUME NEW c \in Calls, NEW v \in Verdicts, Exit(c, v) PROVE Recording'
  BY <1>15 DEF Exit, End, Verdicts
<1>16. ASSUME NEW c \in Calls, Kill(c) PROVE Recording'
  BY <1>16 DEF Kill, End, Verdicts
<1>17. ASSUME NEW c \in Calls, Crash(c) PROVE Recording'
  BY <1>17 DEF Crash
<1>18. ASSUME NEW c \in Calls, Fed(c) PROVE Recording'
  BY <1>18 DEF Fed
<1>19. ASSUME Tick PROVE Recording'
  BY <1>19 DEF Tick, Timed, InTime
<1>20. CASE UNCHANGED vars
  BY <1>20 DEF vars
<1> HIDE DEF IInv, TypeOK, Placed, Phase, Recording, Recorded, Written, Ended, Domains,
        Outcomes, Entries, log, Goto, Leave, Append, Count
<1> QED
  BY <1>1, <1>2, <1>3, <1>4, <1>5, <1>6, <1>7, <1>8, <1>9, <1>10, <1>11, <1>12, <1>13,
          <1>14, <1>15, <1>16, <1>17, <1>19, <1>20, <1>18 DEF Next, Answer, Appended

\* The lease and the time spent keep agreeing with where a call stands.
LEMMA TimeStep == ASSUME IInv, [Next]_vars PROVE Timing'
<1> USE InvocationAssumption, RequiredType, OutcomeType
<1> USE DEF IInv, TypeOK, Placed, Phase, Timing, OnTime, Leased, Due, Needed,
        Ended, Domains, Outcomes, Entries, log, Goto, Leave, Append, Count
<1>1. ASSUME NEW c \in Calls, Begin(c) PROVE Timing'
  <2>1. ASSUME NEW d \in Calls, d # c PROVE OnTime(d)' /\ (kind'[d] = "quiet" => Leased(d)')
    BY <1>1, <2>1 DEF Begin
  <2>2. OnTime(c)'
    <3>1. CASE Required(kind[c]) = {}
      <4>1. pc'[c] = "appending" /\ spent'[c] = 0
        BY <1>1, <3>1 DEF Begin
      <4> QED
        BY <4>1
    <3>2. CASE Required(kind[c]) # {}
      <4>1. pc'[c] = "deciding"
        BY <1>1, <3>2 DEF Begin
      <4> QED
        BY <4>1
    <3> QED
      BY <3>1, <3>2
  <2>3. ASSUME kind[c] = "quiet" PROVE Leased(c)'
    <3>1. Required(kind[c]) = {"data", "write", "quiescence"}
      BY <2>3 DEF Required
    <3>2. pc'[c] = "deciding" /\ "quiescence" \in todo'[c]
      BY <1>1, <3>1 DEF Begin
    <3> QED
      BY <3>2
  <2>4. kind' = kind
    BY <1>1 DEF Begin
  <2> QED
    BY <2>1, <2>2, <2>3, <2>4
<1>2. ASSUME NEW c \in Calls, Reject(c) PROVE Timing'
  BY <1>2 DEF Reject
<1>3. ASSUME NEW c \in Calls, NEW d \in Domains, Deny(c, d) PROVE Timing'
  BY <1>3 DEF Deny, Decide
<1>4. ASSUME NEW c \in Calls, NEW d \in Domains, Allow(c, d) PROVE Timing'
  BY <1>4 DEF Allow, Decide
<1>5. ASSUME NEW c \in Calls, NEW l \in 0..(MaxLease + 1), Quiesce(c, l) PROVE Timing'
  BY <1>5 DEF Quiesce, Decide, Covers
<1>6. ASSUME NEW c \in Calls, Allowed(c) PROVE Timing'
  <2>1. ASSUME NEW d \in Calls, d # c PROVE OnTime(d)' /\ (kind'[d] = "quiet" => Leased(d)')
    BY <1>6, <2>1 DEF Allowed, Write
  <2>2. OnTime(c)'
    BY <1>6 DEF Allowed, Write
  <2>3. ASSUME kind[c] = "quiet", todo[c] = {entry[c]} PROVE Leased(c)'
    <3>1. entry[c] = "quiescence"
      BY <1>6, <2>3 DEF Allowed
    <3> QED
      BY <1>6, <2>3, <3>1 DEF Allowed, Write
  <2>4. ASSUME kind[c] = "quiet", todo[c] # {entry[c]} PROVE Leased(c)'
    <3>1. PICK e \in todo[c] : e # entry[c]
      BY <1>6, <2>4 DEF Allowed
    <3>2. entry[c] # "quiescence"
      BY <1>6, <2>4, <3>1 DEF Allowed, Rank
    <3> QED
      BY <1>6, <2>4, <3>2 DEF Allowed, Write
  <2>5. kind' = kind
    BY <1>6 DEF Allowed
  <2> QED
    BY <2>1, <2>2, <2>3, <2>4, <2>5
<1>7. ASSUME NEW c \in Calls, Denied(c) PROVE Timing'
  BY <1>7 DEF Denied, Write
<1>8. ASSUME NEW c \in Calls, Started(c) PROVE Timing'
  BY <1>8 DEF Started, Write
<1>9. ASSUME NEW c \in Calls, Finished(c) PROVE Timing'
  BY <1>9 DEF Finished, Write
<1>10. ASSUME NEW c \in Calls, NotWritten(c) PROVE Timing'
  BY <1>10 DEF NotWritten
<1>11. ASSUME NEW c \in Calls, NotSynced(c) PROVE Timing'
  BY <1>11 DEF NotSynced, Write
<1>12. ASSUME NEW c \in Calls, Tear(c) PROVE Timing'
  BY <1>12 DEF Tear
<1>13. ASSUME NEW c \in Calls, Launch(c) PROVE Timing'
  BY <1>13 DEF Launch
<1>14. ASSUME NEW c \in Calls, Unlaunched(c) PROVE Timing'
  BY <1>14 DEF Unlaunched, End, Verdicts
<1>15. ASSUME NEW c \in Calls, NEW v \in Verdicts, Exit(c, v) PROVE Timing'
  BY <1>15 DEF Exit, End, Verdicts
<1>16. ASSUME NEW c \in Calls, Kill(c) PROVE Timing'
  BY <1>16 DEF Kill, End, Verdicts
<1>17. ASSUME NEW c \in Calls, Crash(c) PROVE Timing'
  BY <1>17 DEF Crash
<1>18. ASSUME NEW c \in Calls, Fed(c) PROVE Timing'
  BY <1>18 DEF Fed
<1>19. ASSUME Tick PROVE Timing'
  BY <1>19 DEF Tick, Timed, InTime
<1>20. CASE UNCHANGED vars
  BY <1>20 DEF vars
<1> HIDE DEF IInv, TypeOK, Placed, Phase, Timing, OnTime, Leased, Due, Needed,
        Ended, Domains, Outcomes, Entries, log, Goto, Leave, Append, Count
<1> QED
  BY <1>1, <1>2, <1>3, <1>4, <1>5, <1>6, <1>7, <1>8, <1>9, <1>10, <1>11, <1>12, <1>13,
          <1>14, <1>15, <1>16, <1>17, <1>19, <1>20, <1>18 DEF Next, Answer, Appended

\* A record is hidden only behind a torn line of its own.
LEMMA HideStep == ASSUME IInv, [Next]_vars PROVE Hiding'
<1> USE InvocationAssumption, RequiredType, OutcomeType
<1> USE DEF IInv, TypeOK, Hiding, Hidden, Torn, Ended, Domains, Outcomes, Entries, log,
        Goto, Leave, Append, Count
<1>1. ASSUME NEW c \in Calls, Begin(c) PROVE Hiding'
  BY <1>1 DEF Begin
<1>2. ASSUME NEW c \in Calls, Reject(c) PROVE Hiding'
  BY <1>2 DEF Reject
<1>3. ASSUME NEW c \in Calls, NEW d \in Domains, Deny(c, d) PROVE Hiding'
  BY <1>3 DEF Deny, Decide, Due
<1>4. ASSUME NEW c \in Calls, NEW d \in Domains, Allow(c, d) PROVE Hiding'
  BY <1>4 DEF Allow, Decide, Due
<1>5. ASSUME NEW c \in Calls, NEW l \in 0..(MaxLease + 1), Quiesce(c, l) PROVE Hiding'
  BY <1>5 DEF Quiesce, Decide, Due, Covers, Needed
<1>6. ASSUME NEW c \in Calls, Allowed(c) PROVE Hiding'
  BY <1>6, WriteHiding DEF Allowed
<1>7. ASSUME NEW c \in Calls, Denied(c) PROVE Hiding'
  BY <1>7, WriteHiding DEF Denied
<1>8. ASSUME NEW c \in Calls, Started(c) PROVE Hiding'
  BY <1>8, WriteHiding DEF Started
<1>9. ASSUME NEW c \in Calls, Finished(c) PROVE Hiding'
  BY <1>9, WriteHiding DEF Finished
<1>10. ASSUME NEW c \in Calls, NotWritten(c) PROVE Hiding'
  BY <1>10 DEF NotWritten
<1>11. ASSUME NEW c \in Calls, NotSynced(c) PROVE Hiding'
  BY <1>11, WriteHiding DEF NotSynced
<1>12. ASSUME NEW c \in Calls, Tear(c) PROVE Hiding'
  <2>1. Hidden' = Hidden /\ Torn' = 1 /\ faults'["tear"] = faults["tear"] + 1
    BY <1>12 DEF Tear
  <2>2. Torn \in {0, 1}
    OBVIOUS
  <2> HIDE DEF Hidden, Torn
  <2>3. Cardinality(Hidden) \in Nat
    BY FS_CardinalityType
  <2> QED
    BY <2>1, <2>2, <2>3
<1>13. ASSUME NEW c \in Calls, Launch(c) PROVE Hiding'
  BY <1>13 DEF Launch
<1>14. ASSUME NEW c \in Calls, Unlaunched(c) PROVE Hiding'
  BY <1>14 DEF Unlaunched, End, Verdicts
<1>15. ASSUME NEW c \in Calls, NEW v \in Verdicts, Exit(c, v) PROVE Hiding'
  BY <1>15 DEF Exit, End, Verdicts
<1>16. ASSUME NEW c \in Calls, Kill(c) PROVE Hiding'
  BY <1>16 DEF Kill, End, Verdicts
<1>17. ASSUME NEW c \in Calls, Crash(c) PROVE Hiding'
  BY <1>17 DEF Crash
<1>18. ASSUME NEW c \in Calls, Fed(c) PROVE Hiding'
  BY <1>18 DEF Fed
<1>19. ASSUME Tick PROVE Hiding'
  BY <1>19 DEF Tick, Timed, InTime
<1>20. CASE UNCHANGED vars
  BY <1>20 DEF vars
<1> HIDE DEF IInv, TypeOK, Hiding, Hidden, Torn, Ended, Domains, Outcomes, Entries, log,
        Goto, Leave, Append, Count
<1> QED
  BY <1>1, <1>2, <1>3, <1>4, <1>5, <1>6, <1>7, <1>8, <1>9, <1>10, <1>11, <1>12, <1>13,
          <1>14, <1>15, <1>16, <1>17, <1>19, <1>20, <1>18 DEF Next, Answer, Appended

\* Every step keeps the invariant.
LEMMA NextIInv == IInv /\ [Next]_vars => IInv'
  BY TypeStep, PhaseStep, RecordStep, TimeStep, HideStep DEF IInv

\* The inductive invariant holds in every reachable state.
LEMMA Invariance == Spec => []IInv
  BY InitIInv, NextIInv, PTL DEF Spec

-----------------------------------------------------------------------------

\* Calls, decisions, leases and the log hold what they should.
THEOREM InvocationTypeCorrect == Spec => []TypeOK
  BY Invariance, PTL DEF IInv

\* What a reader misses stands on a torn line.
LEMMA MissingHidden == IInv => Missing \subseteq Hidden
  BY DEF IInv, Recording, Recorded, Written, Missing, Hidden

\* No adapter starts before its decisions and STARTED are written, and
\* readers miss one of these records per torn write at most.
THEOREM RunsAlwaysRecorded == Spec => []RunsAreRecorded
<1>1. IInv => RunsAreRecorded
  <2> SUFFICES ASSUME IInv PROVE RunsAreRecorded
    OBVIOUS
  <2>1. /\ IsFiniteSet(Hidden)
        /\ Cardinality(Hidden) + Torn <= faults["tear"] /\ faults["tear"] \in Nat
    BY DEF IInv, Hiding, TypeOK
  <2>2. Torn \in Nat
    BY DEF Torn
  <2>3. IsFiniteSet(Missing) /\ Cardinality(Missing) <= Cardinality(Hidden)
    BY <2>1, MissingHidden, FS_Subset
  <2>4. Cardinality(Hidden) \in Nat /\ Cardinality(Missing) \in Nat
    BY <2>1, <2>3, FS_CardinalityType
  <2> QED
    BY <2>1, <2>2, <2>3, <2>4 DEF RunsAreRecorded
<1> QED
  BY <1>1, Invariance, PTL

\* Whatever appends fail and whoever dies, an outcome in the log is the only
\* one of its call and true of its adapter.
THEOREM RecordsAlwaysTrue == Spec => []RecordsAreTrue
<1>1. IInv => RecordsAreTrue
  <2> SUFFICES ASSUME IInv, NEW c \in Calls
               PROVE /\ \A o, p \in Written(c) \cap Outcomes : o = p
                     /\ "SUCCEEDED" \in Written(c) => adapter[c] = "valid"
                     /\ pc[c] = "returned" => "SUCCEEDED" \in Written(c)
    BY DEF RecordsAreTrue
  <2>1. Recorded(c)
    BY DEF IInv, Recording
  <2> QED
    BY <2>1, OutcomeType DEF Recorded, Outcomes
<1> QED
  BY <1>1, Invariance, PTL

\* Whatever the timeouts are, a lease longer than two appends and the
\* launch still holds when the adapter is started.
THEOREM StartsAlwaysUnderLease == Spec => []StartsUnderLease
<1>1. IInv => StartsUnderLease
  <2> SUFFICES ASSUME IInv, 2 * AppendTime + Overhead < Limit + Margin,
                      NEW c \in Calls, pc[c] = "launching", kind[c] = "quiet"
               PROVE lease[c] > 0
    BY DEF StartsUnderLease
  <2>1. /\ spent[c] <= Overhead
        /\ Needed <= lease[c] + spent[c] + AppendTime + AppendTime
    BY DEF IInv, Timing, OnTime, Leased
  <2>2. spent[c] \in Nat /\ lease[c] \in Nat
    BY DEF IInv, TypeOK
  <2> QED
    BY <2>1, <2>2, InvocationAssumption DEF Needed
<1> QED
  BY <1>1, Invariance, PTL
=============================================================================

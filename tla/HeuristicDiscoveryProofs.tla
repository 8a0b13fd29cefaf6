---------------------- MODULE HeuristicDiscoveryProofs ----------------------
(***************************************************************************)
(* For every set of operations and probes, every budget and every size of  *)
(* the pool: the variables stay in their domains, no worker of an attempt  *)
(* outlives it, the agents' advice is taken whole or not at all, and the   *)
(* run implements AgentAdvice.                                             *)
(***************************************************************************)
EXTENDS HeuristicDiscovery, TLAPS

Gathered == {"reaping", "joining", "merging"}
Unmerged == {"planning", "probing", "mapping", "merging"} \cup Pooling
AllAnswered == \A o \in input.batches : work[o] = "answered"

\* The bundle is what the last attempt's batches answered, and no more.
Merged == /\ \A o \in input.batches : work[o] = "answered" /\ bundle[o] = answer[o]
          /\ \A o \in Operations \ input.batches : bundle[o] = "none"

\* Only batches of the slice are ever worked on, and only by a pool that stands.
Slice == \A o \in Operations \ input.batches : work[o] = "idle"
Submitted == phase = "waiting" => \A o \in input.batches : work[o] \notin {"idle", "cancelled"}
Emptied == phase = "joining" => \A o \in Operations : work[o] # "queued"

\* An attempt is begun only while one is left.
Attempts == /\ phase \in {"planning", "probing"} => attempt = 0
            /\ phase = "mapping" => attempt < 2

\* The fingerprint is that of the evidence, whenever no round is under way.
Frozen == phase # "probing" => print = report

\* What an exception in flight, or its absence, says of the batches.
Raised == /\ phase \in {"planning", "probing", "mapping", "waiting", "merging", "validating"}
               => error = "none"
          /\ phase \in Gathered /\ error = "none" => AllAnswered

\* Where the agents' opinions are before and after the merge.
Heard == /\ phase \in Unmerged => bundle = NoOpinion
         /\ phase \in {"validating", "concluding", "done"} /\ error = "none" => Merged

Decided ==
  /\ phase # "done" => decision = NoOpinion /\ outcome = [source |-> "none", status |-> "none"]
  /\ phase = "done" => \/ outcome.source = "AGENT" /\ error = "none"
                       \/ /\ outcome.source # "AGENT" /\ outcome.status # "AGENT_COMPLETED"
                          /\ decision = NoOpinion

IInv == /\ TypeOK /\ NoStrayWorker
        /\ Slice /\ Submitted /\ Emptied /\ Attempts /\ Frozen /\ Raised /\ Heard /\ Decided

\* The invariant holds before the first plan.
LEMMA InitIInv == Init => IInv
  BY HeuristicAssumption
  DEF Init, IInv, TypeOK, Phases, Pooling, Works, Busy, Errors, Opinions, Valid, NoOpinion,
      NoStrayWorker, Slice, Submitted, Emptied, Attempts, Frozen, Raised, Heard, Decided, Inputs,
      Gathered

(***************************************************************************)
(* A step of the probe loop leaves the pool, the bundle and the decisions  *)
(* alone.                                                                  *)
(***************************************************************************)
Probing == \/ PlanFallback \/ (\E P \in SUBSET Probes : Plan(P)) \/ EndRound
           \/ (\E p \in Probes : SkipProbe(p) \/ RunProbe(p) \/ FailProbe(p))

\* The probe loop keeps the invariant.
LEMMA ProbingIInv == ASSUME IInv, Probing PROVE IInv'
<1> USE HeuristicAssumption DEF IInv, mapping, results
<1>0. /\ phase \in {"planning", "probing"} /\ phase' \in {"planning", "probing", "mapping"}
      /\ phase' = "probing" \/ print' = report'
      /\ UNCHANGED <<input, attempt, work, answer, error, bundle, clock, decision, outcome>>
  <2> USE DEF TypeOK, Frozen, planning
  <2>1. CASE PlanFallback
    BY <2>1 DEF PlanFallback
  <2>2. CASE \E P \in SUBSET Probes : Plan(P)
    BY <2>2 DEF Plan
  <2>3. CASE EndRound
    BY <2>3 DEF EndRound, Fingerprint
  <2>4. CASE \E p \in Probes : SkipProbe(p) \/ RunProbe(p) \/ FailProbe(p)
    BY <2>4 DEF SkipProbe, RunProbe, FailProbe
  <2> QED BY <2>1, <2>2, <2>3, <2>4 DEF Probing
<1>1. /\ round' \in 0..MaxRounds /\ todo' \subseteq Probes /\ report' \subseteq Probes
      /\ print' \subseteq report' /\ failures' \in 0..MaxFailures /\ planned' \in {"no", "yes"}
  <2> USE DEF TypeOK, planning
  <2>1. CASE PlanFallback
    BY <2>1 DEF PlanFallback
  <2>2. CASE \E P \in SUBSET Probes : Plan(P)
    BY <2>2 DEF Plan, RoundsLeft
  <2>3. CASE EndRound
    BY <2>3 DEF EndRound, Fingerprint
  <2>4. CASE \E p \in Probes : SkipProbe(p) \/ RunProbe(p) \/ FailProbe(p)
    BY <2>4 DEF SkipProbe, RunProbe, FailProbe
  <2> QED BY <2>1, <2>2, <2>3, <2>4 DEF Probing
<1>2. TypeOK'
  BY <1>0, <1>1 DEF TypeOK, Phases
<1>3. NoStrayWorker' /\ Slice' /\ Submitted' /\ Emptied'
  BY <1>0 DEF NoStrayWorker, Slice, Submitted, Emptied, Pooling
<1>4. Attempts' /\ Frozen'
  BY <1>0 DEF Attempts, Frozen
<1>5. Raised' /\ Heard' /\ Decided'
  BY <1>0 DEF Raised, Heard, Decided, Gathered, Unmerged
<1> QED BY <1>2, <1>3, <1>4, <1>5

(***************************************************************************)
(* A thread of the pool touches only a batch that waits or runs, so none   *)
(* once every batch has answered.                                          *)
(***************************************************************************)
LEMMA ThreadIInv == ASSUME IInv, NEW o \in Operations, Thread(o) PROVE IInv'
<1> USE DEF IInv, planning, results
<1>0. /\ work[o] \in Busy /\ o \in input.batches
      /\ UNCHANGED <<input, phase, planning, attempt, clock, error, bundle, results>>
  BY DEF Thread, Start, Kill, Fail, Answer, TypeOK, Slice, Busy
<1>1. /\ \E w \in Works \ {"queued", "idle", "cancelled"} : work' = [work EXCEPT ![o] = w]
      /\ answer' \in [Operations -> Opinions]
  <2> USE DEF TypeOK, Works, Busy, Errors
  <2>1. CASE Start(o)
    BY <2>1 DEF Start
  <2>2. CASE Kill(o) \/ Fail(o)
    BY <2>2 DEF Kill, Fail
  <2>3. CASE \E v \in Opinions : Answer(o, v)
    <3>1. PICK v \in Opinions : Answer(o, v)
      BY <2>3
    <3> QED BY <3>1 DEF Answer
  <2> QED BY <2>1, <2>2, <2>3 DEF Thread
<1>2. phase \in Pooling /\ ~AllAnswered
  BY <1>0 DEF NoStrayWorker, AllAnswered, Busy
<1>3. TypeOK'
  <2>1. work' \in [Operations -> Works]
    BY <1>1 DEF TypeOK
  <2> QED
    BY <1>0, <1>1, <2>1 DEF TypeOK
<1>4. NoStrayWorker' /\ Slice' /\ Submitted' /\ Emptied'
  <2>1. NoStrayWorker'
    BY <1>0, <1>2 DEF NoStrayWorker
  <2>2. PICK w \in Works \ {"queued", "idle", "cancelled"} : work' = [work EXCEPT ![o] = w]
    BY <1>1
  <2>3. Slice' /\ Submitted'
    BY <1>0, <2>2 DEF Slice, Submitted, TypeOK
  <2>4. Emptied'
    BY <1>0, <2>2 DEF Emptied, TypeOK
  <2> QED BY <2>1, <2>3, <2>4
<1>5. Attempts' /\ Frozen'
  BY <1>0 DEF Attempts, Frozen
<1>6. Raised' /\ Heard' /\ Decided'
  BY <1>0, <1>2 DEF Raised, Heard, Decided, Pooling, Gathered
<1> QED BY <1>3, <1>4, <1>5, <1>6

(***************************************************************************)
(* The rest of the caller's thread: one attempt's pool, the merge and the  *)
(* end of the run.  Only the mapping of opinions changes.                  *)
(***************************************************************************)
LEMMA RaiseType == ASSUME attempt \in 0..2, NEW e \in Errors, Raise(e)
                   PROVE \/ phase' = "mapping" /\ error' = "none" /\ attempt < 2
                         \/ phase' = "concluding" /\ error' = e
  BY DEF Raise

\* Submitting batches and gathering their answers keeps the invariant.
LEMMA PoolIInv == ASSUME IInv, Refuse \/ Submit \/ Gather \/ Shutdown \/ Join PROVE IInv'
<1> USE DEF IInv, planning, results
<1>1. CASE Refuse
  <2>1. TypeOK'
    BY <1>1 DEF Refuse, TypeOK, Phases, Errors
  <2> QED
    BY <2>1, <1>1
    DEF Refuse, NoStrayWorker, Slice, Submitted, Emptied, Attempts, Frozen, Raised, Heard,
        Decided, Gathered, Unmerged, Pooling
<1>2. CASE Submit
  <2>1. TypeOK'
    BY <1>2 DEF Submit, TypeOK, Phases, Pooling, Works, Busy, Attempts, NoOpinion, Opinions
  <2>2. Slice' /\ Submitted'
    BY <1>2 DEF Submit, Slice, Submitted, TypeOK, Inputs
  <2> QED
    BY <2>1, <2>2, <1>2
    DEF Submit, NoStrayWorker, Emptied, Attempts, Frozen, Raised, Heard, Decided, Gathered,
        Unmerged, Pooling
<1>3. CASE Gather
  <2>1. /\ error' \in {"none"} \cup Errors
        /\ error' = "none" => AllAnswered
    BY <1>3 DEF Gather, Lost, Complete, Returned, AllAnswered, TypeOK, Works, Busy, Errors, Inputs,
                Submitted
  <2>2. TypeOK'
    BY <2>1, <1>3 DEF Gather, TypeOK, Phases, Pooling
  <2> QED
    BY <2>1, <2>2, <1>3
    DEF Gather, NoStrayWorker, Slice, Submitted, Emptied, Attempts, Frozen, Raised, Heard,
        Decided, Gathered, Unmerged, Pooling, AllAnswered
<1>4. CASE Shutdown
  <2>1. TypeOK'
    BY <1>4 DEF Shutdown, TypeOK, Phases, Pooling, Works
  <2>2. Slice' /\ Submitted' /\ Emptied'
    BY <1>4 DEF Shutdown, Slice, Submitted, Emptied, TypeOK
  <2>3. Raised'
    BY <1>4 DEF Shutdown, Raised, Gathered, AllAnswered, TypeOK, Inputs
  <2> QED
    BY <2>1, <2>2, <2>3, <1>4
    DEF Shutdown, NoStrayWorker, Attempts, Frozen, Heard, Decided, Unmerged, Pooling
<1>5. CASE Join
  <2>1. \A o \in Operations : work[o] \notin Busy
    BY <1>5 DEF Join, Reaped, Emptied, Busy
  <2>2. \/ phase' = "merging" /\ error = "none" /\ error' = "none"
        \/ phase' = "mapping" /\ error' = "none" /\ attempt < 2
        \/ phase' = "concluding" /\ error' # "none" /\ error' = error
    BY <1>5 DEF Join, Raise, TypeOK
  <2>3. TypeOK'
    BY <2>2, <1>5 DEF Join, TypeOK, Phases
  <2> QED
    BY <2>1, <2>2, <2>3, <1>5
    DEF Join, NoStrayWorker, Slice, Submitted, Emptied, Attempts, Frozen, Raised, Heard, Decided,
        Gathered, Unmerged, Pooling, AllAnswered
<1> QED BY <1>1, <1>2, <1>3, <1>4, <1>5

\* Merging, validating and concluding keep the invariant.
LEMMA AdviceIInv == ASSUME IInv, Merge \/ MergeFails \/ Validate \/ Conclude \/ Expire PROVE IInv'
<1> USE DEF IInv, planning, mapping, results
<1>1. CASE Merge
  <2>1. TypeOK'
    BY <1>1 DEF Merge, TypeOK, Phases, Opinions
  <2>2. Heard'
    BY <1>1 DEF Merge, Heard, Merged, Unmerged, Pooling, TypeOK, Inputs, Raised, Gathered,
                AllAnswered, Slice
  <2> QED
    BY <2>1, <2>2, <1>1
    DEF Merge, NoStrayWorker, Slice, Submitted, Emptied, Attempts, Frozen, Raised, Decided,
        Gathered, Pooling
<1>2. CASE MergeFails
  <2>1. \/ phase' = "mapping" /\ error' = "none" /\ attempt < 2
        \/ phase' = "concluding" /\ error' = "schema"
    BY <1>2 DEF MergeFails, Raise, TypeOK
  <2>2. TypeOK'
    BY <2>1, <1>2 DEF MergeFails, TypeOK, Phases, Errors
  <2> QED
    BY <2>1, <2>2, <1>2
    DEF MergeFails, NoStrayWorker, Slice, Submitted, Emptied, Attempts, Frozen, Raised, Heard,
        Decided, Gathered, Unmerged, Pooling
<1>3. CASE Validate
  <2>1. TypeOK'
    BY <1>3 DEF Validate, TypeOK, Phases
  <2> QED
    BY <2>1, <1>3
    DEF Validate, NoStrayWorker, Slice, Submitted, Emptied, Attempts, Frozen, Raised, Heard, Merged,
        Decided, Gathered, Unmerged, Pooling
<1>4. CASE Conclude
  <2>1. decision' \in [Operations -> Valid \cup {"none"}]
    BY <1>4 DEF Conclude, Disposed
  <2>2. TypeOK'
    BY <2>1, <1>4 DEF Conclude, TypeOK, Phases
  <2>3. Decided'
    BY <1>4 DEF Conclude, Decided, Usable, NoOpinion
  <2> QED
    BY <2>2, <2>3, <1>4
    DEF Conclude, NoStrayWorker, Slice, Submitted, Emptied, Attempts, Frozen, Raised, Heard, Merged,
        Gathered, Unmerged, Pooling
<1>5. CASE Expire
  BY <1>5
  DEF Expire, TypeOK, NoStrayWorker, Slice, Submitted, Emptied, Attempts, Frozen, Raised, Heard,
      Merged, Decided, AllAnswered
<1> QED BY <1>1, <1>2, <1>3, <1>4, <1>5

\* Every step keeps the invariant.
LEMMA NextIInv == IInv /\ [Next]_vars => IInv'
<1>1. ASSUME IInv, Next PROVE IInv'
  BY <1>1, ProbingIInv, ThreadIInv, PoolIInv, AdviceIInv DEF Next, Caller, Probing
<1>2. ASSUME IInv, UNCHANGED vars PROVE IInv'
  BY <1>2 DEF vars, planning, mapping, results, IInv, TypeOK, NoStrayWorker, Slice, Submitted,
              Emptied, Attempts, Frozen, Raised, Heard, Merged, Decided, AllAnswered
<1> QED BY <1>1, <1>2

(***************************************************************************)
(* The strengthening is an invariant of the specification.                 *)
(***************************************************************************)
THEOREM HeuristicInvariant == Spec => []IInv
  BY InitIInv, NextIInv, PTL DEF Spec

(***************************************************************************)
(* No variable leaves its domain: in particular neither the probe budget   *)
(* nor the two attempts are ever exceeded.                                 *)
(***************************************************************************)
THEOREM HeuristicTypeCorrect == Spec => []TypeOK
<1>1. IInv => TypeOK
  BY DEF IInv
<1> QED BY <1>1, HeuristicInvariant, PTL

(***************************************************************************)
(* When an attempt is over, for whatever reason, its pool is empty.        *)
(***************************************************************************)
THEOREM WorkersReaped == Spec => []NoStrayWorker
<1>1. IInv => NoStrayWorker
  BY DEF IInv
<1> QED BY <1>1, HeuristicInvariant, PTL

(***************************************************************************)
(* Whichever batches fail or are late and however the threads interleave,  *)
(* the artifact holds every batch's answer or is the fallback.             *)
(***************************************************************************)
THEOREM AdviceWhole == Spec => []AdviceIsWhole
<1>1. IInv => AdviceIsWhole
  <2> SUFFICES ASSUME IInv PROVE AdviceIsWhole
    OBVIOUS
  <2>1. CASE phase = "done"
    BY <2>1 DEF IInv, AdviceIsWhole, Decided, Heard, Merged
  <2>2. CASE phase # "done"
    BY <2>2 DEF IInv, AdviceIsWhole, Decided
  <2> QED BY <2>1, <2>2
<1> QED BY <1>1, HeuristicInvariant, PTL

-----------------------------------------------------------------------------
(* Refinement *)

avars == <<input.review, report, basisOfBundle, bundle, decision,
           IF phase = "done" THEN "closed" ELSE "open">>

\* Both modules speak of the same opinions.
LEMMA OpinionsAgree == /\ Advice!Opinions = Opinions /\ Advice!Valid = Valid
                       /\ Advice!NoOpinion = NoOpinion
  BY DEF Advice!Opinions, Opinions, Advice!Valid, Valid, Advice!NoOpinion, NoOpinion

\* The probe loop gathers evidence, or the abstract advice does not move.
LEMMA ProbingAdvises == ASSUME IInv, Probing PROVE [Advice!AdviceNext]_avars
<1> USE DEF IInv, mapping, results, planning
<1>0. /\ input' = input /\ bundle' = bundle /\ decision' = decision
      /\ phase' \in {"planning", "probing", "mapping"} /\ phase \in {"planning", "probing"}
      /\ bundle = NoOpinion
  BY DEF Probing, PlanFallback, Plan, EndRound, SkipProbe, RunProbe, FailProbe, Heard, Unmerged
<1>1. CASE phase' = "mapping"
  <2>1. report' = report /\ print' = report
    BY <1>1 DEF Probing, PlanFallback, Plan, EndRound, SkipProbe, RunProbe, FailProbe, Frozen
  <2>2. bundle' \in [Operations -> Opinions]
    BY <1>0 DEF TypeOK
  <2> QED
    BY <1>0, <1>1, <2>1, <2>2, OpinionsAgree
    DEF Advice!AdviceNext, Advice!Advise, basisOfBundle
<1>2. CASE phase' # "mapping"
  <2>1. report' = report \/ \E P \in SUBSET Probes : report' = report \cup P
    BY <1>2 DEF Probing, PlanFallback, Plan, EndRound, SkipProbe, RunProbe, FailProbe
  <2> QED
    BY <1>0, <1>2, <2>1, OpinionsAgree
    DEF Advice!AdviceNext, Advice!Observe, basisOfBundle, avars
<1> QED BY <1>1, <1>2

\* The conclusion is the one the abstract advice draws.
LEMMA ConcludeAdvises == ASSUME IInv, Conclude PROVE Advice!Conclude
<1> USE DEF IInv, mapping, planning
<1>1. /\ phase = "concluding" /\ phase' = "done" /\ UNCHANGED <<input, report, print, bundle>>
      /\ print = report
  BY DEF Conclude, Frozen
<1>2. CASE input.mode = "enabled" /\ Usable
  <2>1. decision' = [o \in Operations |-> IF o \in input.review /\ bundle[o] \in Valid
                                          THEN bundle[o] ELSE "none"]
    BY <1>2 DEF Conclude, Disposed, TypeOK, Inputs
  <2> QED
    BY <1>1, <2>1, OpinionsAgree DEF Advice!Conclude, basisOfBundle
<1>3. CASE ~(input.mode = "enabled" /\ Usable)
  <2>1. decision' = NoOpinion
    BY <1>3 DEF Conclude, NoOpinion
  <2> QED
    BY <1>1, <2>1, OpinionsAgree DEF Advice!Conclude, basisOfBundle
<1> QED BY <1>2, <1>3

\* Every other step is a step of the advice or a stutter.
LEMMA OthersAdvise ==
  ASSUME IInv, \/ Refuse \/ Submit \/ Gather \/ Shutdown \/ Join \/ Merge \/ MergeFails
               \/ Validate \/ Expire \/ (\E o \in Operations : Thread(o))
  PROVE [Advice!AdviceNext]_avars
<1> USE DEF IInv, mapping, results, planning
<1>1. CASE Merge
  <2>1. bundle' \in [Operations -> Opinions]
    BY <1>1 DEF Merge, TypeOK, Opinions
  <2> QED
    BY <1>1, <2>1, OpinionsAgree
    DEF Merge, Advice!AdviceNext, Advice!Advise, basisOfBundle, Frozen
<1>2. CASE ~Merge
  <2>1. UNCHANGED <<input, report, print, bundle, decision>>
    BY <1>2 DEF Refuse, Submit, Gather, Shutdown, Join, MergeFails, Validate, Expire, Thread,
                Start, Kill, Fail, Answer
  <2>2. \/ phase' = phase
        \/ /\ phase \notin {"planning", "probing", "done"}
           /\ phase' \notin {"planning", "probing", "done"}
    BY <1>2 DEF Refuse, Submit, Gather, Shutdown, Join, MergeFails, Validate, Expire, Thread,
                Start, Kill, Fail, Answer, Raise
  <2> QED BY <2>1, <2>2 DEF avars, basisOfBundle
<1> QED BY <1>1, <1>2

(***************************************************************************)
(* The run implements AgentAdvice: opinions are given as one whole about   *)
(* the evidence the request's fingerprint was computed from, and become    *)
(* decisions all together or not at all.                                   *)
(***************************************************************************)
THEOREM AdviceImplemented == Spec => ImplementsAdvice
<1>1. Init => Advice!AdviceInit
  BY OpinionsAgree DEF Init, Advice!AdviceInit, Inputs, basisOfBundle
<1>2. IInv /\ [Next]_vars => [Advice!AdviceNext]_avars
  <2>1. ASSUME IInv, Next PROVE [Advice!AdviceNext]_avars
    BY <2>1, ProbingAdvises, ConcludeAdvises, OthersAdvise
    DEF Next, Caller, Probing, Advice!AdviceNext
  <2>2. ASSUME UNCHANGED vars PROVE UNCHANGED avars
    BY <2>2 DEF vars, avars, planning, mapping, results, basisOfBundle
  <2> QED BY <2>1, <2>2
<1> QED
  BY <1>1, <1>2, HeuristicInvariant, PTL DEF Spec, ImplementsAdvice, Advice!AdviceSpec, avars
=============================================================================

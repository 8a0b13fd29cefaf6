---------------------------- MODULE StageHandoffs ----------------------------
(***************************************************************************)
(* src/rolo/stages/handoffs.py with its callers: how the results of        *)
(* Diagnose and Verify agents become the canonical handoffs of one robot.  *)
(*                                                                         *)
(* A diagnosis binds the adapter handoff the Adapt index names; a          *)
(* verification binds the canonical diagnosis.  Binding is by SHA-256: a   *)
(* reader recomputes every digest, so a handoff is accepted only while its *)
(* source is still canonical and its two files are the ones it was made    *)
(* with.  An attempt is one execution under the stage's execution lock     *)
(* (StageAgentRun): it plans a task on the current inputs, checks their    *)
(* digests once, lets the agent work, and commits.  Meanwhile promotions   *)
(* move the adapter index, and may move it back when they fail after that, *)
(* and the other stage commits.                                            *)
(*                                                                         *)
(* Files live in the directory of a run id.  Target executors take the     *)
(* stage run's fresh id; the Codex and fake executors take the digest of   *)
(* the plan, so a second attempt at a plan writes where the first one did. *)
(* What an attempt writes is named after the attempt.                      *)
(***************************************************************************)
EXTENDS Naturals

CONSTANTS Diagnoses, Verifies,  \* attempts of either stage
          PlanNamed,            \* those whose executor names the run after the plan
          Adapters,             \* adapter handoffs, in the order of promotion
          None

Attempts == Diagnoses \cup Verifies

ASSUME HandoffAssumption ==
  /\ Diagnoses \cap Verifies = {}
  /\ PlanNamed \subseteq Attempts
  /\ Adapters \subseteq Nat \ {0}
  /\ None \notin Attempts \cup Nat

VARIABLES adapter,      \* the handoff the Adapt index names, 0 before the first
          fallback,     \* what the promotion under way would put back, or None
          withdrawn,    \* adapters whose promotion was rolled back
          diagnosis,    \* whose handoff is diagnose/<robot>/latest/handoff.json
          verification, \* whose handoff is verify/<robot>/latest/handoff.json
          progress,     \* progress[a]: how far attempt a has got
          planned,      \* planned[a]: the source a's task was built on
          source,       \* source[a]: the source a's handoff binds
          dir,          \* dir[a]: the attempt whose run directory a writes in
          file          \* file[d][k]: which attempt wrote file k of directory d

index == <<adapter, fallback, withdrawn>>
canonical == <<index, diagnosis, verification>>
handoffVars == <<canonical, progress, planned, source, dir, file>>

Parts == {"first", "second"}
Committing == {"executing", "checked", "half", "written", "bound", "validated",
               "published", "confirmed"}
Ended == {"refused", "failed", "succeeded"}

HandoffTypeOK ==
  /\ adapter \in Adapters \cup {0}
  /\ fallback \in Adapters \cup {0, None}
  /\ withdrawn \subseteq Adapters
  /\ diagnosis \in Diagnoses \cup {None}
  /\ verification \in Verifies \cup {None}
  /\ progress \in [Attempts -> {"idle", "planned"} \cup Committing \cup Ended]
  /\ planned \in [Attempts -> Attempts \cup Adapters \cup {None}]
  /\ source \in [Attempts -> Attempts \cup Adapters \cup {None}]
  /\ dir \in [Attempts -> Attempts]
  /\ file \in [Attempts -> [Parts -> Attempts \cup {None}]]

HandoffInit == /\ adapter = 0
               /\ fallback = None
               /\ withdrawn = {}
               /\ diagnosis = None
               /\ verification = None
               /\ progress = [a \in Attempts |-> "idle"]
               /\ planned = [a \in Attempts |-> None]
               /\ source = [a \in Attempts |-> None]
               /\ dir = [a \in Attempts |-> a]
               /\ file = [a \in Attempts |-> [k \in Parts |-> None]]

Advance(a, s) == progress' = [progress EXCEPT ![a] = s]

SameStage(a, b) == (a \in Diagnoses) = (b \in Diagnoses)

-----------------------------------------------------------------------------
(* Readers *)

\* _verify_refs on the two files a handoff names.
Intact(a) == \A k \in Parts : file[dir[a]][k] = a

\* validate_diagnosis_handoff of a's handoff
DiagnosisValid(a) == a \in Diagnoses /\ source[a] = adapter /\ Intact(a)

\* validate_verification_handoff of a's handoff
VerificationValid(a) == /\ a \in Verifies /\ source[a] = diagnosis
                        /\ DiagnosisValid(diagnosis)
                        /\ Intact(a)

HandoffValid(a) == DiagnosisValid(a) \/ VerificationValid(a)

\* What a task or a handoff of a's stage is built on, and whether it is valid
\* (a slip: taken for granted).
Upstream(a) == IF a \in Diagnoses THEN adapter ELSE diagnosis
UpstreamValid(a) == IF a \in Diagnoses THEN adapter # 0 ELSE DiagnosisValid(diagnosis)

\* The handoff a reader of a's stage is given.
Canonical(a) == IF a \in Diagnoses THEN diagnosis ELSE verification

-----------------------------------------------------------------------------
(* An attempt *)

\* Earlier attempts with the same plan digest.
SamePlan(a) == {b \in PlanNamed : /\ a \in PlanNamed /\ SameStage(a, b)
                                  /\ progress[b] # "idle" /\ planned[b] = Upstream(a)}

\* build_diagnosis_task, build_verification_task
Plan(a) == /\ progress[a] = "idle"
           /\ UpstreamValid(a)
           /\ planned' = [planned EXCEPT ![a] = Upstream(a)]
           /\ \E d \in IF SamePlan(a) = {} THEN {a} ELSE {dir[b] : b \in SamePlan(a)} :
                dir' = [dir EXCEPT ![a] = d]
           /\ Advance(a, "planned")
           /\ UNCHANGED <<canonical, source, file>>

\* A slip: a busy execution lock is broken at once.
StageFree_Any(a) == TRUE

\* The stage's execution lock is free.
StageFree(a) == \A b \in Attempts : SameStage(a, b) => progress[b] \notin Committing

\* _validate_input_hashes compares the inputs with the plan, once.
InputsUnchanged(a) == Upstream(a) = planned[a]

Start(a) == /\ progress[a] = "planned"
            /\ InputsUnchanged(a)
            /\ StageFree(a)
            /\ Advance(a, "executing")
            /\ UNCHANGED <<canonical, planned, source, dir, file>>

Reject(a) == /\ progress[a] = "planned"
             /\ ~InputsUnchanged(a) \/ ~StageFree(a)
             /\ Advance(a, "refused")
             /\ UNCHANGED <<canonical, planned, source, dir, file>>

\* The agent is done.  The source is validated again, whichever it is by now;
\* a diagnosis keeps the path of the adapter handoff it found.
CheckSource(a) == /\ progress[a] = "executing"
                  /\ UpstreamValid(a)
                  /\ source' = IF a \in Diagnoses THEN [source EXCEPT ![a] = adapter]
                                                  ELSE source
                  /\ Advance(a, "checked")
                  /\ UNCHANGED <<canonical, planned, dir, file>>

Write(a, k) == file' = [file EXCEPT ![dir[a]][k] = a]

WriteFirst(a) == /\ progress[a] = "checked"
                 /\ Write(a, "first")
                 /\ Advance(a, "half")
                 /\ UNCHANGED <<canonical, planned, source, dir>>

WriteSecond(a) == /\ progress[a] = "half"
                  /\ Write(a, "second")
                  /\ Advance(a, "written")
                  /\ UNCHANGED <<canonical, planned, source, dir>>

\* The digests are taken; a verification's source is what latest/ holds now.
Bind(a) == /\ progress[a] = "written"
           /\ source' = IF a \in Verifies THEN [source EXCEPT ![a] = diagnosis] ELSE source
           /\ Advance(a, "bound")
           /\ UNCHANGED <<canonical, planned, dir, file>>

\* The run's own handoff.json is validated like a published one.
Validate(a) == /\ progress[a] = "bound"
               /\ HandoffValid(a)
               /\ Advance(a, "validated")
               /\ UNCHANGED <<canonical, planned, source, dir, file>>

Publish(a) == /\ progress[a] = "validated"
              /\ IF a \in Diagnoses THEN diagnosis' = a /\ UNCHANGED verification
                                    ELSE verification' = a /\ UNCHANGED diagnosis
              /\ Advance(a, "published")
              /\ UNCHANGED <<index, planned, source, dir, file>>

\* commit_*_handoff reads latest/ back, and the stage runner once more.
Confirm(a) == /\ progress[a] \in {"published", "confirmed"}
              /\ Canonical(a) # None /\ HandoffValid(Canonical(a))
              /\ Advance(a, IF progress[a] = "published" THEN "confirmed" ELSE "succeeded")
              /\ UNCHANGED <<canonical, planned, source, dir, file>>

\* A validation or a write raised, the agent failed, or the process died:
\* what has been written stays, nothing is undone.
Fail(a) == /\ progress[a] \in Committing
           /\ Advance(a, "failed")
           /\ UNCHANGED <<canonical, planned, source, dir, file>>

-----------------------------------------------------------------------------
(* Promotions, of which ReleasePromotion lets one run at a time *)

\* The Adapt index is moved to the handoff of a new run, for all to read ...
Promote(x) == /\ fallback = None
              /\ \A y \in withdrawn \cup {adapter} : x > y
              /\ adapter' = x
              /\ fallback' = adapter
              /\ UNCHANGED <<withdrawn, diagnosis, verification, progress, planned, source,
                             dir, file>>

\* ... where it stays if the promotion succeeds, dies or cannot restore it ...
Settle == /\ fallback # None
          /\ fallback' = None
          /\ UNCHANGED <<adapter, withdrawn, diagnosis, verification, progress, planned,
                         source, dir, file>>

\* ... and from where an error of activate_release or later takes it back.
RollBack == /\ fallback # None
            /\ adapter' = fallback
            /\ fallback' = None
            /\ withdrawn' = withdrawn \cup {adapter}
            /\ UNCHANGED <<diagnosis, verification, progress, planned, source, dir, file>>

Attempt(a) == \/ Plan(a) \/ Start(a) \/ Reject(a) \/ CheckSource(a) \/ WriteFirst(a)
              \/ WriteSecond(a) \/ Bind(a) \/ Validate(a) \/ Publish(a) \/ Confirm(a)
              \/ Fail(a)

HandoffNext == \/ \E a \in Attempts : Attempt(a)
               \/ (\E x \in Adapters : Promote(x)) \/ Settle \/ RollBack

HandoffSpec == HandoffInit /\ [][HandoffNext]_handoffVars

-----------------------------------------------------------------------------
(* Properties *)

(***************************************************************************)
(* What a reader accepts stays accepted.  A canonical diagnosis that is    *)
(* good for the adapter the index names, or for the one a rollback would   *)
(* put back, is replaced only by one that is good for it too or that       *)
(* readers accept now: no failed, refused or crashed attempt of either     *)
(* stage takes it away.  Two things do: an attempt at the same plan that   *)
(* writes into its run directory, and one that validated its result on an  *)
(* adapter which was withdrawn before it was published.  For a             *)
(* verification, the diagnosis must not move either.                       *)
(***************************************************************************)
Rewritten(x) == \E a \in Attempts : /\ a # x /\ dir[a] = dir[x]
                                    /\ progress[a] \in Committing
GoodFor(d, x) == d \in Diagnoses /\ source[d] = x /\ Intact(d)
DiagnosisKept ==
  \A x \in {adapter, fallback} \cap {adapter', fallback'} :
    GoodFor(diagnosis, x) => \/ GoodFor(diagnosis, x)' \/ DiagnosisValid(diagnosis)'
                             \/ Rewritten(diagnosis)
                             \/ source[diagnosis'] \in withdrawn
VerificationKept ==
  VerificationValid(verification) /\ diagnosis' = diagnosis /\ DiagnosisValid(diagnosis)'
    => VerificationValid(verification)' \/ Rewritten(verification)
AcceptedStays == [][DiagnosisKept /\ VerificationKept]_handoffVars

(***************************************************************************)
(* The validator reads latest/, not the run's handoff: what it confirms is *)
(* nevertheless the confirming attempt's own result, both files included.  *)
(***************************************************************************)
ConfirmsOwn ==
  \A a \in Attempts : progress[a] \in {"published", "confirmed"}
                        => Canonical(a) = a /\ Intact(a)

(***************************************************************************)
(* A late commit never takes the canonical diagnosis back to an older      *)
(* adapter: each one published binds the same adapter or a newer one,      *)
(* unless the newer one has been withdrawn.                                *)
(***************************************************************************)
Onward == diagnosis' # diagnosis /\ diagnosis # None =>
            source[diagnosis] <= source[diagnosis'] \/ source[diagnosis] \in withdrawn
NeverOlder == [][Onward]_handoffVars
=============================================================================

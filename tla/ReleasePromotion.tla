-------------------------- MODULE ReleasePromotion --------------------------
(***************************************************************************)
(* Promotion of an Adapter Agent run to the robot's current release:       *)
(* src/rolo/stages/adapt/conformance.py `promote_run` with                 *)
(* src/rolo/adapter_runtime.py `publish_release`, `activate_release` and   *)
(* `load_current_release`, for one robot.                                  *)
(*                                                                         *)
(* A promotion touches two roots.  The artifact root holds the gate, the   *)
(* immutable handoff and the Adapt latest index; the output root holds the *)
(* release directory and the runtime index `current`.  Each is replaced by *)
(* an atomic file operation of its own, one after the other, under the     *)
(* `promotion` lock; an error after the first of them runs the             *)
(* compensation of the except clause.  Every such operation is an action,  *)
(* so a crash, an error or, once the lock is stolen, another promotion can *)
(* fall between any two.                                                   *)
(*                                                                         *)
(* The promotion lock is core/persistence.py's lock file (module FileLock) *)
(* taken with timeout_s = 30 and the default stale_after_s = 120: a waiter *)
(* may give up, and may unlink a file whose owner died or could not write  *)
(* it.  A waiter may also unlink the file of a live promotion (StealLock): *)
(* one that outlasts those 120 seconds, or one that entered after the      *)
(* waiter had judged an abandoned file before it.                          *)
(***************************************************************************)
EXTENDS Naturals, FiniteSets

CONSTANTS Runs,            \* Adapt runs; a run's id names its release
          Prints,          \* target fingerprints
          NoRun,           \* what a file names that does not exist
          MaxDiscoveries,  \* bound: new discoveries
          MaxFaults        \* bound: faults of whatever kind

ASSUME PromotionAssumption ==
  /\ NoRun \notin Runs
  /\ MaxDiscoveries \in Nat /\ MaxFaults \in Nat

VARIABLES pc,              \* pc[r]: how far the promotion of r has got
          lock,            \* run whose promotion lock file exists, or NoRun
          inside,          \* promotions inside the locked section
          latest,          \* fingerprint of the latest discovery
          print,           \* print[r]: fingerprint of the discovery r adapted
          gate,            \* gate[r]: status in r's gate.json
          release,         \* release[r]: r's directory under the output root
          handoffs,        \* runs with an immutable handoff.json
          adapt,           \* run named by the Adapt latest index
          runtime,         \* run named by the runtime index `current`
          prevAdapt,       \* prevAdapt[r]: Adapt index r read when it began
          prevRuntime,     \* prevRuntime[r]: runtime index r read when it began
          written,         \* written[r]: what r's except clause must undo
          faults           \* faults[f]: how often f has happened so far

files == <<latest, print, gate, release, handoffs, adapt, runtime>>
vars == <<pc, lock, inside, latest, print, gate, release, handoffs, adapt,
          runtime, prevAdapt, prevRuntime, written, faults>>

\* The try block, in order; then the except clause.
Trying == {"reading", "reading2", "checking", "gated", "staged", "published",
           "handed", "indexed", "verified", "activated"}
Ended == {"done", "failed", "aborted"}
Phases == {"idle", "waiting", "refused", "crashed", "failing"} \cup Trying \cup Ended

Index == Runs \cup {NoRun}
Undoable == {"runtime", "adapt", "release"}
Faults == {"crash", "undo", "discovery", "steal", "late", "leftover"}

TypeOK == /\ pc \in [Runs -> Phases]
          /\ lock \in Index
          /\ inside \subseteq Runs
          /\ latest \in Prints
          /\ print \in [Runs -> Prints]
          /\ gate \in [Runs -> {"none", "PASSED", "FAILED"}]
          /\ release \in [Runs -> {"absent", "staging", "complete", "partial"}]
          /\ handoffs \subseteq Runs
          /\ adapt \in Index
          /\ runtime \in Index
          /\ prevAdapt \in [Runs -> Index]
          /\ prevRuntime \in [Runs -> Index]
          /\ written \in [Runs -> SUBSET Undoable]
          /\ faults \in [Faults -> Nat]

Init == /\ pc = [r \in Runs |-> "idle"]
        /\ lock = NoRun
        /\ inside = {}
        /\ latest \in Prints
        /\ print = [r \in Runs |-> latest]
        /\ gate = [r \in Runs |-> "none"]
        /\ release = [r \in Runs |-> "absent"]
        /\ handoffs = {}
        /\ adapt = NoRun
        /\ runtime = NoRun
        /\ prevAdapt = [r \in Runs |-> NoRun]
        /\ prevRuntime = [r \in Runs |-> NoRun]
        /\ written = [r \in Runs |-> {}]
        /\ faults = [f \in Faults |-> 0]

Goto(r, s) == pc' = [pc EXCEPT ![r] = s]
Mark(r, what) == written' = [written EXCEPT ![r] = @ \cup {what}]
Count(f) == faults' = [faults EXCEPT ![f] = @ + 1]

\* Another fault may happen: a death, a compensation that raises, a stolen
\* lock, a write that fails after os.replace, a removal that fails.
MayFail == faults["crash"] + faults["undo"] + faults["steal"] + faults["late"]
           + faults["leftover"] < MaxFaults

-----------------------------------------------------------------------------
(* The world around promotions *)

\* A discovery publishes new target evidence.
Discover(p) == /\ faults["discovery"] < MaxDiscoveries
               /\ p # latest
               /\ latest' = p
               /\ Count("discovery")
               /\ UNCHANGED <<pc, lock, inside, print, gate, release, handoffs, adapt,
                              runtime, prevAdapt, prevRuntime, written>>

\* A run was planned against the latest discovery and its agent succeeded;
\* it asks for the promotion lock.
Begin(r) == /\ pc[r] = "idle"
            /\ Goto(r, "waiting")
            /\ print' = [print EXCEPT ![r] = latest]
            /\ UNCHANGED <<lock, inside, latest, gate, release, handoffs, adapt, runtime,
                           prevAdapt, prevRuntime, written, faults>>

Enter(r) == /\ pc[r] = "waiting"
            /\ lock = NoRun
            /\ lock' = r
            /\ inside' = inside \cup {r}
            /\ Goto(r, "reading")
            /\ UNCHANGED <<files, prevAdapt, prevRuntime, written, faults>>

\* TimeoutError after 30 seconds: promote_run raises and writes nothing.
GiveUp(r) == /\ pc[r] = "waiting"
             /\ lock # NoRun
             /\ Goto(r, "refused")
             /\ UNCHANGED <<lock, inside, files, prevAdapt, prevRuntime, written, faults>>

\* The lock file is created, but its write or fsync raises; the file stays.
LockFails(r) == /\ pc[r] = "waiting"
                /\ lock = NoRun
                /\ lock' = r
                /\ Goto(r, "refused")
                /\ UNCHANGED <<inside, files, prevAdapt, prevRuntime, written, faults>>

\* A file with nobody inside has outlived stale_after_s: a waiter unlinks it.
BreakLock(r) == /\ pc[r] = "waiting"
                /\ lock # NoRun /\ inside = {}
                /\ lock' = NoRun
                /\ UNCHANGED <<pc, inside, files, prevAdapt, prevRuntime, written, faults>>

\* The unlink of a file that was judged stale, with a live promotion inside:
\* it has outlasted stale_after_s, or the file judged was an earlier one.
StealLock(r) == /\ pc[r] = "waiting"
                /\ lock # NoRun /\ inside # {}
                /\ MayFail
                /\ lock' = NoRun
                /\ Count("steal")
                /\ UNCHANGED <<pc, inside, files, prevAdapt, prevRuntime, written>>

\* interprocess_lock's finally clause unlinks the path, whoever created it.
Leave(r) == /\ r \in inside
            /\ pc[r] \in Ended
            /\ inside' = inside \ {r}
            /\ lock' = NoRun
            /\ UNCHANGED <<pc, files, prevAdapt, prevRuntime, written, faults>>

\* The process dies; an rmtree it was running may be half done.
Crash(r) == /\ r \in inside
            /\ MayFail
            /\ Goto(r, "crashed")
            /\ inside' = inside \ {r}
            /\ \/ release' = release
               \/ /\ pc[r] = "failing" /\ written[r] = {"release"}
                  /\ release' = [release EXCEPT ![r] = "partial"]
            /\ Count("crash")
            /\ UNCHANGED <<lock, latest, print, gate, handoffs, adapt, runtime,
                           prevAdapt, prevRuntime, written>>

-----------------------------------------------------------------------------
(* _promote_run_locked: the try block *)

ReadRuntime(r) == /\ pc[r] = "reading"
                  /\ Goto(r, "reading2")
                  /\ prevRuntime' = [prevRuntime EXCEPT ![r] = runtime]
                  /\ UNCHANGED <<lock, inside, files, prevAdapt, written, faults>>

ReadAdapt(r) == /\ pc[r] = "reading2"
                /\ Goto(r, "checking")
                /\ prevAdapt' = [prevAdapt EXCEPT ![r] = adapt]
                /\ UNCHANGED <<lock, inside, files, prevRuntime, written, faults>>

\* Every independent check passed: gate.json is written with PASSED.
PassGate(r) == /\ pc[r] = "checking"
               /\ Goto(r, "gated")
               /\ gate' = [gate EXCEPT ![r] = "PASSED"]
               /\ UNCHANGED <<lock, inside, latest, print, release, handoffs, adapt,
                              runtime, prevAdapt, prevRuntime, written, faults>>

\* publish_release copies into <release>.staging ...
Stage(r) == /\ pc[r] = "gated"
            /\ release[r] = "absent"
            /\ Goto(r, "staged")
            /\ release' = [release EXCEPT ![r] = "staging"]
            /\ UNCHANGED <<lock, inside, latest, print, gate, handoffs, adapt, runtime,
                           prevAdapt, prevRuntime, written, faults>>

\* ... and renames it; from here the except clause removes the release.
Publish(r) == /\ pc[r] = "staged"
              /\ Goto(r, "published")
              /\ release' = [release EXCEPT ![r] = "complete"]
              /\ Mark(r, "release")
              /\ UNCHANGED <<lock, inside, latest, print, gate, handoffs, adapt, runtime,
                             prevAdapt, prevRuntime, faults>>

WriteHandoff(r) == /\ pc[r] = "published"
                   /\ handoffs' = handoffs \cup {r}
                   /\ Goto(r, "handed")
                   /\ UNCHANGED <<lock, inside, latest, print, gate, release, adapt,
                                  runtime, prevAdapt, prevRuntime, written, faults>>

\* What validate_adapter_handoff asks of the handoff of run x.
HandoffValid(x) == x \in handoffs /\ gate[x] = "PASSED" /\ release[x] = "complete"

\* The immutable handoff validates, and the Adapt latest index is moved.
IndexAdapt(r) == /\ pc[r] = "handed"
                 /\ HandoffValid(r)
                 /\ Goto(r, "indexed")
                 /\ adapt' = r
                 /\ Mark(r, "adapt")
                 /\ UNCHANGED <<lock, inside, latest, print, gate, release, handoffs,
                                runtime, prevAdapt, prevRuntime, faults>>

\* _load_verified_release and _verify_release_freshness of run x's release.
Loadable(x) == x \in Runs /\ release[x] = "complete" /\ print[x] = latest

\* activate_release compares the index only when the promotion found one.
Activatable(r) == /\ prevRuntime[r] = NoRun \/ runtime = prevRuntime[r]
                  /\ Loadable(r)

\* activate_release and _restore_index hold the lock of the index file.
IndexFree(r) == \A s \in inside \ {r} : pc[s] # "verified"

\* The index and the release are verified ...
Verify(r) == /\ pc[r] = "indexed"
             /\ IndexFree(r)
             /\ Activatable(r)
             /\ Goto(r, "verified")
             /\ UNCHANGED <<lock, inside, files, prevAdapt, prevRuntime, written, faults>>

\* ... and then the index is written; a discovery may come in between.
Activate(r) == /\ pc[r] = "verified"
               /\ Goto(r, "activated")
               /\ runtime' = r
               /\ Mark(r, "runtime")
               /\ UNCHANGED <<lock, inside, latest, print, gate, release, handoffs, adapt,
                              prevAdapt, prevRuntime, faults>>

\* The handoff the Adapt index names is validated again, and the release the
\* runtime index names must load, be fresh and be this run's.
Confirmed(r) == /\ adapt \in Runs /\ HandoffValid(adapt)
                /\ runtime = r /\ Loadable(runtime)

Confirm(r) == /\ pc[r] = "activated"
              /\ Confirmed(r)
              /\ Goto(r, "done")
              /\ UNCHANGED <<lock, inside, files, prevAdapt, prevRuntime, written, faults>>

-----------------------------------------------------------------------------
(* Errors and the except clause *)

(***************************************************************************)
(* A check, a copy, a validation or a write raised, at any point of the    *)
(* try block.  publish_release removes its own staging directory first,    *)
(* which may fail too.  Refused activations and confirmations end here as  *)
(* well.                                                                   *)
(***************************************************************************)
Raise(r) == /\ pc[r] \in Trying \ {"reading", "reading2"}
            /\ Goto(r, "failing")
            /\ \/ /\ release' = IF pc[r] = "staged" THEN [release EXCEPT ![r] = "absent"]
                                ELSE release
                  /\ UNCHANGED faults
               \/ /\ pc[r] = "staged" /\ MayFail
                  /\ UNCHANGED release
                  /\ Count("leftover")
            /\ UNCHANGED <<lock, inside, latest, print, gate, handoffs, adapt, runtime,
                           prevAdapt, prevRuntime, written>>

\* atomic_write_text raised after os.replace (the directory fsync failed):
\* the index moved, but the flag that would restore it was not set.
LateIndexError(r) ==
  /\ MayFail
  /\ \/ pc[r] = "handed" /\ HandoffValid(r) /\ adapt' = r /\ UNCHANGED runtime
     \/ pc[r] = "verified" /\ runtime' = r /\ UNCHANGED adapt
  /\ Goto(r, "failing")
  /\ Count("late")
  /\ UNCHANGED <<lock, inside, latest, print, gate, release, handoffs, prevAdapt,
                 prevRuntime, written>>

\* Slips: what a first promotion would find is restored; the Adapt index is
\* not restored; a missing index comes back as an empty file.
Previous_Absent(r) == [runtime |-> NoRun, adapt |-> NoRun]
Previous_RuntimeOnly(r) == [runtime |-> prevRuntime[r], adapt |-> adapt]

\* The bytes of both indexes read on entry, put back by _restore_index.
Previous(r) == [runtime |-> prevRuntime[r], adapt |-> prevAdapt[r]]

\* _restore_index(runtime_index, previous_runtime_index)
RestoreRuntime(r) == /\ pc[r] = "failing"
                     /\ "runtime" \in written[r]
                     /\ Previous(r).runtime = NoRun \/ IndexFree(r)
                     /\ runtime' = Previous(r).runtime
                     /\ written' = [written EXCEPT ![r] = @ \ {"runtime"}]
                     /\ UNCHANGED <<pc, lock, inside, latest, print, gate, release,
                                    handoffs, adapt, prevAdapt, prevRuntime, faults>>

\* _restore_index(adapt_index, previous_adapt_index)
RestoreAdapt(r) == /\ pc[r] = "failing"
                   /\ "runtime" \notin written[r] /\ "adapt" \in written[r]
                   /\ adapt' = Previous(r).adapt
                   /\ written' = [written EXCEPT ![r] = @ \ {"adapt"}]
                   /\ UNCHANGED <<pc, lock, inside, latest, print, gate, release,
                                  handoffs, runtime, prevAdapt, prevRuntime, faults>>

\* A slip: the release directory goes before the indexes are restored.
Removable_Early(r) == "release" \in written[r]

\* Both restores precede the removal.
Removable(r) == written[r] = {"release"}

\* shutil.rmtree(published_release_root, ignore_errors=True) succeeds ...
RemoveRelease(r) == /\ pc[r] = "failing"
                    /\ Removable(r)
                    /\ release' = [release EXCEPT ![r] = "absent"]
                    /\ written' = [written EXCEPT ![r] = @ \ {"release"}]
                    /\ UNCHANGED <<pc, lock, inside, latest, print, gate, handoffs, adapt,
                                   runtime, prevAdapt, prevRuntime, faults>>

\* ... or leaves all or part of the release, and says nothing.
RemovalFails(r) == /\ pc[r] = "failing"
                   /\ Removable(r)
                   /\ MayFail
                   /\ release' \in {release, [release EXCEPT ![r] = "partial"]}
                   /\ written' = [written EXCEPT ![r] = @ \ {"release"}]
                   /\ Count("leftover")
                   /\ UNCHANGED <<pc, lock, inside, latest, print, gate, handoffs, adapt,
                                  runtime, prevAdapt, prevRuntime>>

\* A slip: FAILED is written while the release still stands.
GateMayFail_ReleaseLeft(r) == written[r] \subseteq {"release"}

\* The gate is rewritten after everything has been undone.
GateMayFail(r) == written[r] = {}

\* gate.json is rewritten with FAILED and the error goes to the caller.
FailGate(r) == /\ pc[r] = "failing"
               /\ GateMayFail(r)
               /\ Goto(r, "failed")
               /\ gate' = [gate EXCEPT ![r] = "FAILED"]
               /\ UNCHANGED <<lock, inside, latest, print, release, handoffs, adapt,
                              runtime, prevAdapt, prevRuntime, written, faults>>

\* A restore or the gate write raises, the last restore perhaps after it took
\* effect: the rest of the clause is skipped.
UndoFails(r) == /\ pc[r] = "failing"
                /\ written[r] # {"release"}
                /\ MayFail
                /\ Goto(r, "aborted")
                /\ \/ UNCHANGED <<adapt, written>>
                   \/ /\ written[r] = {"release", "adapt"}
                      /\ adapt' = Previous(r).adapt
                      /\ written' = [written EXCEPT ![r] = @ \ {"adapt"}]
                /\ Count("undo")
                /\ UNCHANGED <<lock, inside, latest, print, gate, release, handoffs, runtime,
                               prevAdapt, prevRuntime>>

-----------------------------------------------------------------------------
Compensate(r) == \/ RestoreRuntime(r) \/ RestoreAdapt(r) \/ RemoveRelease(r)
                 \/ RemovalFails(r) \/ FailGate(r)

Advance(r) == \/ ReadRuntime(r) \/ ReadAdapt(r) \/ PassGate(r) \/ Stage(r) \/ Publish(r)
              \/ WriteHandoff(r) \/ IndexAdapt(r) \/ Verify(r) \/ Activate(r)
              \/ Confirm(r) \/ Raise(r)

Step(r) == \/ Begin(r) \/ Enter(r) \/ GiveUp(r) \/ LockFails(r) \/ BreakLock(r) \/ StealLock(r)
           \/ Leave(r) \/ Crash(r) \/ Advance(r) \/ LateIndexError(r) \/ Compensate(r) \/ UndoFails(r)

Next == (\E r \in Runs : Step(r)) \/ (\E p \in Prints : Discover(p))

Spec == Init /\ [][Next]_vars

-----------------------------------------------------------------------------
(* Properties *)

\* No lock has been stolen and no write has failed after taking effect.
Orderly == faults["steal"] = 0 /\ faults["late"] = 0

(***************************************************************************)
(* What invoke_adapter dereferences: an index that exists names a complete *)
(* release whose run wrote its handoff, at every instant of every          *)
(* promotion, after a crash at any step and after a failed compensation,   *)
(* as long as the promotions are orderly.                                  *)
(***************************************************************************)
IndexesNameReleases ==
  Orderly => /\ runtime \in Runs => release[runtime] = "complete" /\ runtime \in handoffs
             /\ adapt \in Runs => release[adapt] = "complete" /\ adapt \in handoffs

(***************************************************************************)
(* Fail-closed, even when locks are stolen and writes half fail: whatever  *)
(* load_current_release would serve has a passed gate and a handoff.  The  *)
(* code keeps this against stolen locks and late errors by removing the    *)
(* release, and against releases that stay by restoring the index first;   *)
(* only both faults together get a rejected run served.                    *)
(***************************************************************************)
RejectedNeverServed ==
  (Orderly \/ faults["leftover"] = 0) /\ Loadable(runtime) =>
    gate[runtime] = "PASSED" /\ runtime \in handoffs

(***************************************************************************)
(* "A rejected candidate cannot replace the existing current release": a   *)
(* run whose gate ended FAILED is named by neither index, as long as the   *)
(* promotions are orderly.                                                 *)
(***************************************************************************)
RejectedNeverLive ==
  Orderly => \A r \in Runs : gate[r] = "FAILED" => r \notin {adapt, runtime}

(***************************************************************************)
(* How an orderly promotion ends, before it leaves the lock: a returned    *)
(* handoff means both indexes name the run; a failure means both are back  *)
(* to what the promotion found, and its release is gone unless its removal *)
(* failed ("A failed publication restores both prior indexes and removes   *)
(* the incomplete release").                                               *)
(***************************************************************************)
OutcomeIsWhole ==
  Orderly => \A r \in inside :
    /\ pc[r] = "done" => adapt = r /\ runtime = r
    /\ pc[r] = "failed" =>
         /\ adapt = prevAdapt[r] /\ runtime = prevRuntime[r]
         /\ release[r] = "absent" \/ faults["leftover"] > 0

(***************************************************************************)
(* "transactionally updates both current indexes": when nobody is inside a *)
(* promotion the two indexes name the same run.                            *)
(***************************************************************************)
IndexesTransactional == inside = {} => adapt = runtime

(***************************************************************************)
(* ... which holds as long as no process dies and no compensation raises,  *)
(* whatever the gate, the checks, a new discovery and later writes do.     *)
(***************************************************************************)
Undisturbed == Orderly /\ faults["crash"] = 0 /\ faults["undo"] = 0
IndexesAgree == Undisturbed => IndexesTransactional

(***************************************************************************)
(* The runtime pointer seen by invocations moves only forward to the run   *)
(* being promoted, from the release that run has read and will restore, or *)
(* back to that release, as long as the promotions are orderly.            *)
(***************************************************************************)
RuntimeMove ==
  Orderly' /\ runtime' # runtime =>
    \E r \in inside : \/ runtime' = r /\ runtime = prevRuntime[r] /\ HandoffValid(r)
                      \/ runtime = r /\ runtime' = prevRuntime[r]
RuntimeMoves == [][RuntimeMove]_vars

(***************************************************************************)
(* What the promotion lock gives the runs: WriterLock, with the stolen     *)
(* locks as its faults.                                                    *)
(***************************************************************************)
promoterPhase == [r \in Runs |-> CASE r \in inside -> "inside"
                                   [] pc[r] = "waiting" -> "waiting"
                                   [] OTHER -> "outside"]
robbed == inside \ {lock}
stolen == faults["steal"] > 0
Promoters == INSTANCE WriterLock WITH Procs <- Runs, phase <- promoterPhase,
                                      lost <- robbed, fault <- stolen
ImplementsPromotionLock == Promoters!LockSpec
=============================================================================

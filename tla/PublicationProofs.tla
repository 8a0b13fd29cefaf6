-------------------------- MODULE PublicationProofs --------------------------
(***************************************************************************)
(* interprocess_lock, for any number of writers, any timeouts and sections *)
(* of any length, is a lock that keeps others out until the first fault,   *)
(* and of which at most one writer still has hold after it.                *)
(*                                                                         *)
(* For any runs, fingerprints, discoveries, crashes and failed             *)
(* compensations: until a lock is stolen or a write fails after it took    *)
(* effect (Orderly), both indexes name complete, gated releases at every   *)
(* step, a rejected run is named by neither, and a failed promotion        *)
(* restores what it found.  A rejected run is served only if, besides, the *)
(* removal of its release failed.                                          *)
(***************************************************************************)
EXTENDS FileLock, ReleasePromotion, TLAPS

-----------------------------------------------------------------------------
(* The lock file: WriterLock and FileLock *)

(***************************************************************************)
(* The inductive invariant.  That nobody is robbed is not inductive: Break *)
(* asks nothing, so nobody may have judged the file stale, which in turn   *)
(* takes that the file is its owner's and as old as the owner's stay.  A   *)
(* fault ends all this; what remains is that it has happened.              *)
(***************************************************************************)
Calm == /\ \A p \in Procs : place[p] = "holding" => file = p /\ age = held[p]
        /\ \A p \in Procs : file = p => place[p] = "holding"
        /\ \A p \in Procs : held[p] <= StaleAfter
        /\ \A p \in Procs : place[p] # "breaking"

LockFileInv == LockFileTypeOK /\ (mishaps = {} => Calm)

\* Nobody holds the file at first.
LEMMA InitLockFileInv == LockFileInit => LockFileInv
  BY LockAssumption DEF LockFileInit, LockFileInv, LockFileTypeOK, Calm, States

\* Every step leaves the file with its owner, or is a fault.
LEMMA NextLockFileInv ==
  ASSUME LockFileInv, [LockFileNext]_lockFileVars
  PROVE  LockFileInv'
<1> USE LockAssumption DEF LockFileInv, LockFileTypeOK, Calm, States, MoveTo
<1>1. ASSUME NEW p \in Procs, Request(p) PROVE LockFileInv'
  BY <1>1 DEF Request, Deadline
<1>2. ASSUME NEW p \in Procs, Create(p) PROVE LockFileInv'
  BY <1>2 DEF Create, CanCreate
<1>3. ASSUME NEW p \in Procs, CreateFails(p) PROVE LockFileInv'
  BY <1>3 DEF CreateFails, CanCreate
<1>4. ASSUME NEW p \in Procs, Collide(p) PROVE LockFileInv'
  BY <1>4 DEF Collide
<1>5. ASSUME NEW p \in Procs, Stat(p) PROVE LockFileInv'
  \* before any fault, a standing file is as old as its holder's stay
  <2>1. mishaps = {} /\ file # NoOne => ~Stale
    BY DEF Stale
  <2> QED BY <1>5, <2>1 DEF Stat
<1>6. ASSUME NEW p \in Procs, Break(p) PROVE LockFileInv'
  BY <1>6 DEF Break
<1>7. ASSUME NEW p \in Procs, Release(p) PROVE LockFileInv'
  BY <1>7 DEF Release
<1>8. ASSUME NEW p \in Procs, Die(p) PROVE LockFileInv'
  BY <1>8 DEF Die, Contending
<1>9. ASSUME Tick PROVE LockFileInv'
  BY <1>9 DEF Tick
<1>10. ASSUME UNCHANGED lockFileVars PROVE LockFileInv'
  BY <1>10 DEF lockFileVars
<1> QED
  BY <1>1, <1>2, <1>3, <1>4, <1>5, <1>6, <1>7, <1>8, <1>9, <1>10 DEF LockFileNext

\* The inductive invariant holds in every reachable state.
LEMMA AlwaysLockFileInv == LockFileSpec => []LockFileInv
  BY InitLockFileInv, NextLockFileInv, PTL DEF LockFileSpec

(***************************************************************************)
(* Type correctness: in particular a deadline never exceeds timeout_s.     *)
(***************************************************************************)
THEOREM LockTypeCorrect == LockFileSpec => []LockFileTypeOK
<1>1. LockFileInv => LockFileTypeOK
  BY DEF LockFileInv
<1> QED BY AlwaysLockFileInv, <1>1, PTL

(***************************************************************************)
(* The lock file implements WriterLock, for any number of processes, any   *)
(* timeouts and sections of any length: whoever dies, fails to write or    *)
(* stays too long, each step of the file is a step of the abstract lock or *)
(* changes nobody's standing.                                              *)
(***************************************************************************)
THEOREM LockImplements == LockFileSpec => ImplementsWriterLock
<1> USE DEF Abstract!Inside, Abstract!Risky, Abstract!lockVars
<1>1. LockFileInit => Abstract!LockInit
  BY DEF LockFileInit, Abstract!LockInit, phaseOfPlace, Contending, Robbed, faulty
<1>2. LockFileInv /\ [LockFileNext]_lockFileVars => [Abstract!LockNext]_Abstract!lockVars
  <2> SUFFICES ASSUME LockFileInv, [LockFileNext]_lockFileVars
               PROVE  [Abstract!LockNext]_Abstract!lockVars
    OBVIOUS
  <2>1. LockFileTypeOK
    BY DEF LockFileInv
  <2> USE <2>1, LockAssumption
      DEF LockFileTypeOK, States, Contending, phaseOfPlace, Robbed, faulty, MoveTo
  <2>2. ASSUME NEW p \in Procs, Request(p) PROVE Abstract!Ask(p)
    BY <2>2 DEF Request, Abstract!Ask
  <2>3. ASSUME NEW p \in Procs, Create(p) PROVE Abstract!Enter(p)
    BY <2>3 DEF Create, CanCreate, Abstract!Enter
  <2>4. ASSUME NEW p \in Procs, CreateFails(p) PROVE Abstract!GiveUp(p)
    BY <2>4 DEF CreateFails, CanCreate, Abstract!GiveUp
  <2>5. ASSUME NEW p \in Procs, Collide(p) PROVE UNCHANGED Abstract!lockVars
    BY <2>5 DEF Collide
  <2>6. ASSUME NEW p \in Procs, Stat(p)
        PROVE Abstract!GiveUp(p) \/ UNCHANGED Abstract!lockVars
    <3>1. CASE place'[p] = "refused"
      BY <2>6, <3>1 DEF Stat, Abstract!GiveUp
    <3>2. CASE place'[p] # "refused"
      BY <2>6, <3>2 DEF Stat
    <3> QED BY <3>1, <3>2
  <2>7. ASSUME NEW p \in Procs, Break(p)
        PROVE (\E q \in Procs : Abstract!Lose(q)) \/ UNCHANGED Abstract!lockVars
    <3>1. mishaps # {} /\ phaseOfPlace' = phaseOfPlace
      BY <2>7 DEF Break, LockFileInv, Calm
    <3>2. CASE \E q \in Procs : file = q /\ place[q] = "holding"
      <4>1. PICK q \in Procs : file = q /\ place[q] = "holding"
        BY <3>2
      <4> QED BY <2>7, <3>1, <4>1 DEF Break, Abstract!Lose
    <3>3. CASE ~\E q \in Procs : file = q /\ place[q] = "holding"
      BY <2>7, <3>3 DEF Break
    <3> QED BY <3>2, <3>3
  <2>8. ASSUME NEW p \in Procs, Release(p) PROVE Abstract!Leave(p)
    BY <2>8 DEF Release, Abstract!Leave
  <2>9. ASSUME NEW p \in Procs, Die(p) PROVE Abstract!Leave(p) \/ Abstract!GiveUp(p)
    BY <2>9 DEF Die, Abstract!Leave, Abstract!GiveUp
  <2>10. ASSUME Tick \/ UNCHANGED lockFileVars
         PROVE Abstract!Overstay \/ UNCHANGED Abstract!lockVars
    BY <2>10 DEF Tick, lockFileVars, Abstract!Overstay
  <2> QED BY <2>2, <2>3, <2>4, <2>5, <2>6, <2>7, <2>8, <2>9, <2>10
          DEF LockFileNext, Abstract!LockNext
<1> QED
  BY AlwaysLockFileInv, <1>1, <1>2, PTL
  DEF LockFileSpec, ImplementsWriterLock, Abstract!LockSpec

(***************************************************************************)
(* What WriterLock promises: one writer at a time until the first fault,   *)
(* and one that has not lost its lock ever after.  It is stated of the     *)
(* instance that the lock file implements.                                 *)
(***************************************************************************)
THEOREM WriterLockSerializes == Abstract!LockSpec => []Abstract!Serialized
<1> USE DEF Abstract!LockTypeOK, Abstract!Serialized, Abstract!Inside, Abstract!Phases
<1>1. Abstract!LockInit => Abstract!LockTypeOK /\ Abstract!Serialized
  BY DEF Abstract!LockInit
<1>2. ASSUME Abstract!LockTypeOK, Abstract!Serialized, [Abstract!LockNext]_Abstract!lockVars
      PROVE  (Abstract!LockTypeOK /\ Abstract!Serialized)'
  BY <1>2
  DEF Abstract!LockNext, Abstract!lockVars, Abstract!Ask, Abstract!Enter, Abstract!Leave,
      Abstract!GiveUp, Abstract!Lose, Abstract!Overstay, Abstract!Risky
<1> QED BY <1>1, <1>2, PTL DEF Abstract!LockSpec

(***************************************************************************)
(* "Serialize writers", for any number of them: until one has died, failed *)
(* to write its file or outlived stale_after_s, the file of whoever is     *)
(* inside stands and nobody else is inside.                                *)
(***************************************************************************)
THEOREM LockSerializes == LockFileSpec => []HoldersKeepOut
<1>1. LockFileTypeOK /\ Abstract!Serialized => HoldersKeepOut
  BY DEF LockFileTypeOK, Abstract!Serialized, Abstract!Inside, HoldersKeepOut, MutualExclusion,
         phaseOfPlace, Contending, Robbed, faulty
<1> QED
  BY LockImplements, WriterLockSerializes, LockTypeCorrect, <1>1, PTL
  DEF ImplementsWriterLock

-----------------------------------------------------------------------------
(* What is published under it: ReleasePromotion *)

(***************************************************************************)
(* The order of this module: what holds whatever happens (Serving), and    *)
(* then what holds while promotions are orderly (PromotionInv, then InStep). *)
(***************************************************************************)

\* What an index may name.
Sound(x) == x \in Runs => /\ release[x] = "complete"
                          /\ gate[x] = "PASSED"
                          /\ x \in handoffs

Active == Trying \cup {"failing"}

\* The promotion lock excludes: the file stands for the one run inside.
Exclusive == /\ \A r, s \in inside : r = s
             /\ \A r \in inside : lock = r
             /\ \A r \in Runs : pc[r] \in Active => r \in inside
             /\ \A r \in inside : pc[r] \in Active \cup Ended

\* A run that has not published yet has left nothing behind.
Early == {"idle", "waiting", "reading", "reading2", "checking", "gated"}
Untouched == /\ \A r \in Runs : pc[r] \in Early \cup {"staged", "published"}
                                  => r \notin handoffs
             /\ \A r \in Runs : pc[r] \in Early => release[r] = "absent" /\ written[r] = {}

\* What the run inside has written so far, by how far it has got.
Progress ==
  \A r \in inside :
    /\ pc[r] \in Early \cup {"staged", "failed"} => written[r] = {}
    /\ pc[r] \in {"published", "handed"} => written[r] = {"release"}
    /\ pc[r] \in {"indexed", "verified"} => written[r] = {"release", "adapt"}
    /\ pc[r] \in {"activated", "done"} => written[r] = {"release", "adapt", "runtime"}
    /\ written[r] \in {{}, {"release"}, {"release", "adapt"},
                       {"release", "adapt", "runtime"}}
    /\ pc[r] \in {"gated", "staged", "published", "handed"} => gate[r] = "PASSED"
    /\ pc[r] \in {"published", "handed"} => release[r] = "complete"
    /\ pc[r] = "handed" => r \in handoffs
    /\ "adapt" \in written[r] => Sound(r)
    /\ pc[r] \in {"failing", "failed"} /\ written[r] = {}
         => release[r] = "absent" \/ faults["leftover"] > 0

\* Each index names the run inside exactly while that run has to undo it.
Displaced ==
  \A r \in inside :
    /\ pc[r] # "reading" =>
         /\ Sound(prevRuntime[r]) /\ prevRuntime[r] # r
         /\ runtime = IF "runtime" \in written[r] THEN r ELSE prevRuntime[r]
    /\ pc[r] \notin {"reading", "reading2"} =>
         /\ Sound(prevAdapt[r]) /\ prevAdapt[r] # r
         /\ adapt = IF "adapt" \in written[r] THEN r ELSE prevAdapt[r]

\* Without deaths and failed compensations the promotions hand the indexes on in step.
InStep ==
  Undisturbed =>
    /\ inside = {} => adapt = runtime
    /\ \A r \in inside :
         /\ pc[r] \notin {"aborted", "crashed"}
         /\ pc[r] = "reading" => adapt = runtime
         /\ pc[r] = "reading2" => prevRuntime[r] = adapt
         /\ pc[r] \notin {"reading", "reading2"} => prevAdapt[r] = prevRuntime[r]

PromotionInv == TypeOK /\ Exclusive /\ Untouched /\ Progress /\ Displaced
        /\ Sound(runtime) /\ Sound(adapt)

\* The invariant holds before the first promotion.
LEMMA InitPromotionInv == Init => PromotionInv
  BY PromotionAssumption DEF Init, PromotionInv, TypeOK, Phases, Trying, Ended, Index, Faults, Exclusive,
     Untouched, Early, Progress, Displaced, Sound, Active

\* A step that steals no lock and fails no write after its effect keeps the invariant.
LEMMA NextPromotionInv == ASSUME PromotionInv, Orderly', [Next]_vars PROVE PromotionInv'
<1> USE PromotionAssumption
<1> USE DEF Orderly, PromotionInv, TypeOK, Phases, Trying, Ended, Index, Undoable, Faults, files,
        Goto, Mark, Count, Active, Early, Exclusive, Untouched, Progress, Displaced, Sound
<1>1. ASSUME NEW r \in Runs, Begin(r) PROVE PromotionInv'
  BY <1>1 DEF Begin
<1>2. ASSUME NEW r \in Runs, Enter(r) PROVE PromotionInv'
  BY <1>2 DEF Enter
<1>3. ASSUME NEW r \in Runs, GiveUp(r) \/ LockFails(r) PROVE PromotionInv'
  BY <1>3 DEF GiveUp, LockFails
<1>4. ASSUME NEW r \in Runs, BreakLock(r) \/ StealLock(r) PROVE PromotionInv'
  BY <1>4 DEF BreakLock, StealLock
<1>5. ASSUME NEW r \in Runs, Leave(r) PROVE PromotionInv'
  BY <1>5 DEF Leave
<1>6. ASSUME NEW r \in Runs, Crash(r) PROVE PromotionInv'
  BY <1>6 DEF Crash
<1>7. ASSUME NEW r \in Runs, ReadRuntime(r) PROVE PromotionInv'
  BY <1>7 DEF ReadRuntime
<1>8. ASSUME NEW r \in Runs, ReadAdapt(r) PROVE PromotionInv'
  BY <1>8 DEF ReadAdapt
<1>9. ASSUME NEW r \in Runs, PassGate(r) PROVE PromotionInv'
  BY <1>9 DEF PassGate
<1>10. ASSUME NEW r \in Runs, Stage(r) PROVE PromotionInv'
  BY <1>10 DEF Stage
<1>11. ASSUME NEW r \in Runs, Publish(r) PROVE PromotionInv'
  BY <1>11 DEF Publish
<1>12. ASSUME NEW r \in Runs, WriteHandoff(r) PROVE PromotionInv'
  BY <1>12 DEF WriteHandoff
<1>13. ASSUME NEW r \in Runs, IndexAdapt(r) PROVE PromotionInv'
  BY <1>13 DEF IndexAdapt, HandoffValid
<1>14. ASSUME NEW r \in Runs, Verify(r) \/ Activate(r) PROVE PromotionInv'
  BY <1>14 DEF Verify, Activate
<1>15. ASSUME NEW r \in Runs, Confirm(r) PROVE PromotionInv'
  BY <1>15 DEF Confirm, Confirmed
<1>16. ASSUME NEW r \in Runs, Raise(r) PROVE PromotionInv'
  <2> USE <1>16 DEF Raise
  <2>1. TypeOK' /\ Exclusive' /\ Untouched' OBVIOUS
  \* only a release directory that was never renamed needs no undoing
  <2>2. r \in inside /\ written'[r] = written[r]
    OBVIOUS
  <2>3. written[r] = {} => release'[r] = "absent" \/ faults'["leftover"] > 0
    <3>1. CASE pc[r] \in {"checking", "gated"} BY <3>1
    <3>3. CASE pc[r] = "staged"
      <4>1. release'[r] = "absent" \/ faults'["leftover"] = faults["leftover"] + 1
        BY <3>3
      <4> QED BY <4>1
    <3>2. CASE pc[r] \in {"published", "handed", "indexed", "verified", "activated"}
      <4>1. "release" \in written[r] BY <3>2, <2>2
      <4> QED BY <4>1
    <3> QED BY <3>1, <3>2, <3>3
  <2>4. "adapt" \in written[r] => Sound(r)' BY <2>2
  <2>5. Progress' BY <2>2, <2>3, <2>4
  <2>6. Displaced' /\ Sound(runtime)' /\ Sound(adapt)' OBVIOUS
  <2> QED BY <2>1, <2>5, <2>6
<1>17. ASSUME NEW r \in Runs, LateIndexError(r) PROVE PromotionInv'
  BY <1>17 DEF LateIndexError
<1>18. ASSUME NEW r \in Runs, RestoreRuntime(r) PROVE PromotionInv'
  BY <1>18 DEF RestoreRuntime, Previous
<1>19. ASSUME NEW r \in Runs, RestoreAdapt(r) PROVE PromotionInv'
  <2> USE <1>19 DEF RestoreAdapt, Previous
  <2>1. TypeOK' /\ Exclusive' /\ Untouched' OBVIOUS
  <2>2. Progress'
    <3>1. inside = {r} /\ inside' = {r} OBVIOUS
    <3>2. pc'[r] = "failing" /\ written[r] = {"release", "adapt"} BY <3>1
    <3>3. written'[r] = {"release"} BY <3>2
    <3>4. Progress /\ UNCHANGED <<pc, gate, release, handoffs>> OBVIOUS
    <3> HIDE <1>19 DEF PromotionInv, TypeOK, Exclusive, Untouched, Displaced, RestoreAdapt
    <3> QED BY <3>1, <3>2, <3>3, <3>4
  <2>3. Displaced' /\ Sound(runtime)' /\ Sound(adapt)' OBVIOUS
  <2> QED BY <2>1, <2>2, <2>3
<1>20. ASSUME NEW r \in Runs, RemoveRelease(r) \/ RemovalFails(r) PROVE PromotionInv'
  BY <1>20 DEF RemoveRelease, RemovalFails, Removable
<1>21. ASSUME NEW r \in Runs, FailGate(r) PROVE PromotionInv'
  BY <1>21 DEF FailGate, GateMayFail
<1>22. ASSUME NEW r \in Runs, UndoFails(r) PROVE PromotionInv'
  <2> USE <1>22 DEF UndoFails, Previous
  <2>1. TypeOK' /\ Exclusive' /\ Untouched' OBVIOUS
  \* the run ends aborted, of which Progress asks little
  <2>2. Progress' OBVIOUS
  <2>3. inside = {r} /\ Sound(prevAdapt[r]) /\ prevAdapt[r] # r
    OBVIOUS
  <2>4. CASE UNCHANGED <<adapt, written>>
    BY <2>4
  <2>5. CASE ~UNCHANGED <<adapt, written>>
    BY <2>3, <2>5
  <2> QED BY <2>1, <2>2, <2>4, <2>5
<1>23. ASSUME NEW p \in Prints, Discover(p) PROVE PromotionInv'
  BY <1>23 DEF Discover
<1>24. ASSUME UNCHANGED vars PROVE PromotionInv'
  BY <1>24 DEF vars
<1> QED
  BY <1>1, <1>2, <1>3, <1>4, <1>5, <1>6, <1>7, <1>8, <1>9, <1>10, <1>11, <1>12, <1>13,
     <1>14, <1>15, <1>16, <1>17, <1>18, <1>19, <1>20, <1>21, <1>22, <1>23, <1>24
  DEF Next, Step, Advance, Compensate

(***************************************************************************)
(* What holds with stolen locks, late write errors, crashes and failed     *)
(* compensations alike, because it speaks of one run at a time: a complete *)
(* release is still to be undone, so its gate has not been rewritten with  *)
(* FAILED unless a removal failed, and what an index names has a handoff.  *)
(***************************************************************************)
Gated ==
  \A r \in Runs :
    /\ faults["leftover"] = 0 /\ release[r] = "complete"
         => gate[r] = "PASSED" /\ "release" \in written[r]
    /\ pc[r] \in {"gated", "staged"} => gate[r] = "PASSED"
    /\ pc[r] \in {"idle", "waiting", "reading", "reading2", "checking"}
         => release[r] = "absent"
    /\ pc[r] \in {"handed", "indexed", "verified"} => r \in handoffs

Handed == /\ runtime \in Runs => runtime \in handoffs
          /\ \A r \in Runs : prevRuntime[r] \in Runs => prevRuntime[r] \in handoffs

Serving == TypeOK /\ Gated /\ Handed

\* Nothing is served at first.
LEMMA InitServing == Init => Serving
  BY PromotionAssumption
  DEF Init, Serving, TypeOK, Phases, Trying, Ended, Index, Faults, Gated, Handed

\* Every step, a fault too, keeps what is served handed off and gated.
LEMMA NextServing == ASSUME Serving, [Next]_vars PROVE Serving'
<1> USE PromotionAssumption
<1> USE DEF Serving, TypeOK, Phases, Trying, Ended, Index, Undoable, Faults, files, Goto, Mark, Count,
        Gated, Handed
<1>1. ASSUME NEW r \in Runs, Begin(r) PROVE Serving'
  BY <1>1 DEF Begin
<1>2. ASSUME NEW r \in Runs, Enter(r) PROVE Serving'
  BY <1>2 DEF Enter
<1>3. ASSUME NEW r \in Runs, GiveUp(r) \/ LockFails(r) PROVE Serving'
  BY <1>3 DEF GiveUp, LockFails
<1>4. ASSUME NEW r \in Runs, BreakLock(r) \/ StealLock(r) PROVE Serving'
  BY <1>4 DEF BreakLock, StealLock
<1>5. ASSUME NEW r \in Runs, Leave(r) PROVE Serving'
  BY <1>5 DEF Leave
<1>6. ASSUME NEW r \in Runs, Crash(r) PROVE Serving'
  BY <1>6 DEF Crash
<1>7. ASSUME NEW r \in Runs, ReadRuntime(r) PROVE Serving'
  BY <1>7 DEF ReadRuntime
<1>8. ASSUME NEW r \in Runs, ReadAdapt(r) PROVE Serving'
  BY <1>8 DEF ReadAdapt
<1>9. ASSUME NEW r \in Runs, PassGate(r) PROVE Serving'
  BY <1>9 DEF PassGate
<1>10. ASSUME NEW r \in Runs, Stage(r) PROVE Serving'
  BY <1>10 DEF Stage
<1>11. ASSUME NEW r \in Runs, Publish(r) PROVE Serving'
  BY <1>11 DEF Publish
<1>12. ASSUME NEW r \in Runs, WriteHandoff(r) PROVE Serving'
  BY <1>12 DEF WriteHandoff
<1>13. ASSUME NEW r \in Runs, IndexAdapt(r) PROVE Serving'
  BY <1>13 DEF IndexAdapt, HandoffValid
<1>14. ASSUME NEW r \in Runs, Verify(r) \/ Activate(r) PROVE Serving'
  BY <1>14 DEF Verify, Activate
<1>15. ASSUME NEW r \in Runs, Confirm(r) PROVE Serving'
  BY <1>15 DEF Confirm, Confirmed
<1>16. ASSUME NEW r \in Runs, Raise(r) PROVE Serving'
  BY <1>16 DEF Raise
<1>17. ASSUME NEW r \in Runs, LateIndexError(r) PROVE Serving'
  BY <1>17 DEF LateIndexError
<1>18. ASSUME NEW r \in Runs, RestoreRuntime(r) PROVE Serving'
  BY <1>18 DEF RestoreRuntime, Previous
<1>19. ASSUME NEW r \in Runs, RestoreAdapt(r) PROVE Serving'
  BY <1>19 DEF RestoreAdapt, Previous
<1>20. ASSUME NEW r \in Runs, RemoveRelease(r) \/ RemovalFails(r) PROVE Serving'
  BY <1>20 DEF RemoveRelease, RemovalFails, Removable
<1>21. ASSUME NEW r \in Runs, FailGate(r) PROVE Serving'
  BY <1>21 DEF FailGate, GateMayFail
<1>22. ASSUME NEW r \in Runs, UndoFails(r) PROVE Serving'
  BY <1>22 DEF UndoFails, Previous
<1>23. ASSUME NEW p \in Prints, Discover(p) PROVE Serving'
  BY <1>23 DEF Discover
<1>24. ASSUME UNCHANGED vars PROVE Serving'
  BY <1>24 DEF vars
<1> HIDE DEF Serving
<1> QED
  BY <1>1, <1>2, <1>3, <1>4, <1>5, <1>6, <1>7, <1>8, <1>9, <1>10, <1>11, <1>12, <1>13,
     <1>14, <1>15, <1>16, <1>17, <1>18, <1>19, <1>20, <1>21, <1>22, <1>23, <1>24
  DEF Next, Step, Advance, Compensate

\* What is served is handed off and gated in every reachable state.
LEMMA AlwaysServing == Spec => []Serving
  BY InitServing, NextServing, PTL DEF Spec

(***************************************************************************)
(* Type correctness, whatever fails and whoever steals the lock.           *)
(***************************************************************************)
THEOREM PromotionTypeCorrect == Spec => []TypeOK
<1>1. Serving => TypeOK
  BY DEF Serving
<1> QED BY AlwaysServing, <1>1, PTL

\* The two indexes agree at first.
LEMMA InitInStep == Init => InStep
  BY DEF Init, InStep

\* An orderly step keeps the two indexes in step.
LEMMA NextInStep == ASSUME PromotionInv, InStep, Orderly', [Next]_vars PROVE InStep'
<1> USE DEF Orderly, Faults, PromotionInv, TypeOK, Phases, Trying, Ended, Index, files, Goto, Mark, Count,
        Active, Exclusive, Progress, Displaced, InStep, Undisturbed
<1>1. ASSUME NEW r \in Runs, Begin(r) PROVE InStep'
  BY <1>1 DEF Begin
<1>2. ASSUME NEW r \in Runs, Enter(r) PROVE InStep'
  BY <1>2, PromotionAssumption DEF Enter
<1>3. ASSUME NEW r \in Runs, GiveUp(r) \/ LockFails(r) PROVE InStep'
  BY <1>3 DEF GiveUp, LockFails
<1>4. ASSUME NEW r \in Runs, BreakLock(r) \/ StealLock(r) PROVE InStep'
  BY <1>4 DEF BreakLock, StealLock
<1>5. ASSUME NEW r \in Runs, Leave(r) PROVE InStep'
  <2> USE <1>5 DEF Leave
  <2>1. CASE pc[r] = "done"
    <3>1. r \in inside => adapt = r /\ runtime = r BY <2>1
    <3> QED BY <2>1, <3>1
  <2>2. CASE pc[r] = "failed"
    <3>1. r \in inside => adapt = prevAdapt[r] /\ runtime = prevRuntime[r] BY <2>2
    <3> QED BY <2>2, <3>1
  <2>3. CASE pc[r] = "aborted" BY <2>3
  <2> QED BY <2>1, <2>2, <2>3
<1>6. ASSUME NEW r \in Runs, Crash(r) PROVE InStep'
  BY <1>6 DEF Crash
<1>7. ASSUME NEW r \in Runs, ReadRuntime(r) PROVE InStep'
  BY <1>7 DEF ReadRuntime
<1>8. ASSUME NEW r \in Runs, ReadAdapt(r) PROVE InStep'
  BY <1>8 DEF ReadAdapt
<1>9. ASSUME NEW r \in Runs, PassGate(r) PROVE InStep'
  BY <1>9 DEF PassGate
<1>10. ASSUME NEW r \in Runs, Stage(r) PROVE InStep'
  BY <1>10 DEF Stage
<1>11. ASSUME NEW r \in Runs, Publish(r) PROVE InStep'
  BY <1>11 DEF Publish
<1>12. ASSUME NEW r \in Runs, WriteHandoff(r) PROVE InStep'
  BY <1>12 DEF WriteHandoff
<1>13. ASSUME NEW r \in Runs, IndexAdapt(r) PROVE InStep'
  BY <1>13 DEF IndexAdapt
<1>14. ASSUME NEW r \in Runs, Verify(r) \/ Activate(r) PROVE InStep'
  BY <1>14 DEF Verify, Activate
<1>15. ASSUME NEW r \in Runs, Confirm(r) PROVE InStep'
  BY <1>15 DEF Confirm
<1>16. ASSUME NEW r \in Runs, Raise(r) PROVE InStep'
  BY <1>16 DEF Raise
<1>17. ASSUME NEW r \in Runs, LateIndexError(r) PROVE InStep'
  BY <1>17 DEF LateIndexError
<1>18. ASSUME NEW r \in Runs, RestoreRuntime(r) PROVE InStep'
  BY <1>18 DEF RestoreRuntime, Previous
<1>19. ASSUME NEW r \in Runs, RestoreAdapt(r) PROVE InStep'
  BY <1>19 DEF RestoreAdapt, Previous
<1>20. ASSUME NEW r \in Runs, RemoveRelease(r) \/ RemovalFails(r) PROVE InStep'
  BY <1>20 DEF RemoveRelease, RemovalFails
<1>21. ASSUME NEW r \in Runs, FailGate(r) PROVE InStep'
  BY <1>21 DEF FailGate
<1>22. ASSUME NEW r \in Runs, UndoFails(r) PROVE InStep'
  BY <1>22 DEF UndoFails, Previous
<1>23. ASSUME NEW p \in Prints, Discover(p) PROVE InStep'
  BY <1>23 DEF Discover
<1>24. ASSUME UNCHANGED vars PROVE InStep'
  BY <1>24 DEF vars
<1> QED
  BY <1>1, <1>2, <1>3, <1>4, <1>5, <1>6, <1>7, <1>8, <1>9, <1>10, <1>11, <1>12, <1>13,
     <1>14, <1>15, <1>16, <1>17, <1>18, <1>19, <1>20, <1>21, <1>22, <1>23, <1>24
  DEF Next, Step, Advance, Compensate

\* Disorder is never undone: the counts of faults only grow.
LEMMA OrderlyBefore == ASSUME TypeOK, [Next]_vars, Orderly' PROVE Orderly
<1>1. \/ faults' = faults
      \/ \E f \in Faults : faults' = [faults EXCEPT ![f] = @ + 1]
  BY DEF Next, Step, Advance, Compensate, vars, Faults, Count, Begin, Enter, GiveUp, LockFails, BreakLock,
     StealLock, Leave, Crash, ReadRuntime, ReadAdapt, PassGate, Stage, Publish, WriteHandoff,
     IndexAdapt, Verify, Activate, Confirm, Raise, LateIndexError, RestoreRuntime, RestoreAdapt,
     RemoveRelease, RemovalFails, FailGate, UndoFails, Discover
<1>2. "steal" \in Faults /\ "late" \in Faults /\ faults \in [Faults -> Nat]
  BY DEF TypeOK, Faults
<1> QED BY <1>1, <1>2 DEF Orderly

\* As long as no lock is stolen and no write fails after taking effect, the inductive invariant of the
\* promotion (one writer, indexes and snapshots that agree with where it stands) holds.
THEOREM PromotionInvariant == Spec => [](Orderly => PromotionInv)
<1>1. ASSUME Serving, Orderly => PromotionInv, [Next]_vars PROVE (Orderly => PromotionInv)'
  <2> SUFFICES ASSUME Orderly' PROVE PromotionInv'
    OBVIOUS
  <2>1. Orderly
    BY <1>1, OrderlyBefore DEF Serving
  <2> QED BY <1>1, <2>1, NextPromotionInv
<1> QED BY InitPromotionInv, AlwaysServing, <1>1, PTL DEF Spec

(***************************************************************************)
(* What load_current_release and validate_adapter_handoff dereference is   *)
(* there at every step, through crashes and failed compensations.          *)
(***************************************************************************)
THEOREM IndexesAlwaysNameReleases == Spec => []IndexesNameReleases
<1>1. (Orderly => PromotionInv) => IndexesNameReleases
  BY DEF PromotionInv, Sound, IndexesNameReleases
<1> QED BY PromotionInvariant, <1>1, PTL

(***************************************************************************)
(* Fail-closed: what load_current_release serves has a passed gate and a   *)
(* handoff, for any number of promotions, crashes and failed compensations *)
(* and with stolen locks and late write errors, or with releases that were *)
(* not removed.                                                            *)
(***************************************************************************)
THEOREM RejectedRunsNeverServed == Spec => []RejectedNeverServed
<1>1. Serving /\ (Orderly => PromotionInv) => RejectedNeverServed
  BY DEF Serving, Gated, Handed, PromotionInv, Sound, RejectedNeverServed, Loadable
<1> QED BY AlwaysServing, PromotionInvariant, <1>1, PTL

(***************************************************************************)
(* "A rejected candidate cannot replace the existing current release."     *)
(***************************************************************************)
THEOREM RejectedRunsNeverLive == Spec => []RejectedNeverLive
<1>1. (Orderly => PromotionInv) => RejectedNeverLive
  BY PromotionAssumption DEF PromotionInv, Sound, RejectedNeverLive, TypeOK
<1> QED BY PromotionInvariant, <1>1, PTL

(***************************************************************************)
(* A returned handoff is live in both indexes; "a failed publication       *)
(* restores both prior indexes and removes the incomplete release", unless *)
(* the removal fails.                                                      *)
(***************************************************************************)
THEOREM PromotionAllOrNothing == Spec => []OutcomeIsWhole
<1>1. (Orderly => PromotionInv) => OutcomeIsWhole
  <2> SUFFICES ASSUME PromotionInv, NEW r \in inside
               PROVE /\ pc[r] = "done" => adapt = r /\ runtime = r
                     /\ pc[r] = "failed" => /\ adapt = prevAdapt[r]
                                            /\ runtime = prevRuntime[r]
                                            /\ \/ release[r] = "absent"
                                               \/ faults["leftover"] > 0
    BY DEF OutcomeIsWhole
  <2> QED BY DEF PromotionInv, Progress, Displaced
<1> QED BY PromotionInvariant, <1>1, PTL

(***************************************************************************)
(* "transactionally updates both current indexes": while promotions are    *)
(* orderly, no process dies and no compensation raises, the indexes agree  *)
(* between promotions.                                                     *)
(***************************************************************************)
THEOREM IndexesStayInStep == Spec => []IndexesAgree
<1>1. ASSUME Serving, Orderly => PromotionInv, InStep, [Next]_vars PROVE InStep'
  <2>1. CASE Orderly'
    <3>1. Orderly
      BY <1>1, <2>1, OrderlyBefore DEF Serving
    <3> QED BY <1>1, <2>1, <3>1, NextInStep
  <2>2. CASE ~Orderly'
    BY <2>2 DEF InStep, Undisturbed
  <2> QED BY <2>1, <2>2
<1>2. InStep => IndexesAgree
  BY DEF InStep, IndexesAgree, IndexesTransactional
<1> QED BY PromotionInvariant, AlwaysServing, InitInStep, <1>1, <1>2, PTL DEF Spec

(***************************************************************************)
(* While promotions are orderly, the runtime pointer moves only forward to *)
(* the run inside, whose handoff is valid, from the release that run read  *)
(* when it entered, or back to that release.                               *)
(***************************************************************************)
THEOREM RuntimePointerMoves == Spec => RuntimeMoves
<1>1. ASSUME Serving, Orderly => PromotionInv, [Next]_vars PROVE [RuntimeMove]_vars
  <2> SUFFICES ASSUME Orderly', runtime' # runtime PROVE RuntimeMove
    BY DEF RuntimeMove
  <2>0. PromotionInv
    BY <1>1, OrderlyBefore DEF Serving
  <2>1. PICK r \in Runs : Activate(r) \/ RestoreRuntime(r) \/ LateIndexError(r)
    BY <1>1 DEF vars, files, Next, Step, Advance, Compensate, Discover, Begin, Enter, GiveUp,
       LockFails, BreakLock, StealLock, Leave, Crash, ReadRuntime, ReadAdapt, PassGate, Stage, Publish,
       WriteHandoff, IndexAdapt, Verify, Confirm, Raise, RestoreAdapt, RemoveRelease,
       RemovalFails, FailGate, UndoFails
  <2>2. ~LateIndexError(r)
    BY <2>0 DEF LateIndexError, Count, Orderly, PromotionInv, TypeOK, Faults
  <2>3. r \in inside
    BY <2>0, <2>1, <2>2 DEF Activate, RestoreRuntime, PromotionInv, Exclusive, Active, Trying
  <2>4. CASE Activate(r)
    BY <2>0, <2>3, <2>4
    DEF RuntimeMove, Activate, HandoffValid, Sound, PromotionInv, Progress, Displaced
  <2>5. CASE RestoreRuntime(r)
    BY <2>0, <2>3, <2>5 DEF RuntimeMove, RestoreRuntime, Previous, PromotionInv, Displaced
  <2> QED BY <2>1, <2>2, <2>4, <2>5
<1> QED BY PromotionInvariant, AlwaysServing, <1>1, PTL DEF Spec, RuntimeMoves

(***************************************************************************)
(* What the promotion lock gives, whatever fails: a run waits, then gives  *)
(* up or enters, alone but for runs whose lock was stolen, and leaves      *)
(* whichever way its promotion ends.  Each step of a promotion is a step   *)
(* of WriterLock or changes no run's standing.                             *)
(***************************************************************************)
Standing == \A r \in inside : pc[r] \in Active \cup Ended

\* A run inside has not gone back to waiting.
LEMMA AlwaysStanding == Spec => []Standing
<1>1. Init => Standing
  BY DEF Init, Standing
<1>2. ASSUME TypeOK, Standing, [Next]_vars PROVE Standing'
  <2> USE <1>2 DEF TypeOK, Phases, Standing, Active, Trying, Ended, Goto, files
  <2>1. ASSUME NEW r \in Runs, Begin(r) \/ Enter(r) \/ GiveUp(r) \/ LockFails(r) PROVE Standing'
    BY <2>1 DEF Begin, Enter, GiveUp, LockFails
  <2>2. ASSUME NEW r \in Runs, BreakLock(r) \/ StealLock(r) \/ Leave(r) \/ Crash(r)
        PROVE  Standing'
    BY <2>2 DEF BreakLock, StealLock, Leave, Crash
  <2>3. ASSUME NEW r \in Runs, Advance(r) \/ LateIndexError(r) PROVE Standing'
    BY <2>3 DEF Advance, LateIndexError, ReadRuntime, ReadAdapt, PassGate, Stage, Publish,
                WriteHandoff, IndexAdapt, Verify, Activate, Confirm, Raise
  <2>4. ASSUME NEW r \in Runs, Compensate(r) \/ UndoFails(r) PROVE Standing'
    BY <2>4 DEF Compensate, UndoFails, RestoreRuntime, RestoreAdapt, RemoveRelease,
                RemovalFails, FailGate
  <2>5. ASSUME UNCHANGED <<pc, inside>> PROVE Standing'
    BY <2>5
  <2> QED BY <2>1, <2>2, <2>3, <2>4, <2>5 DEF Next, Step, vars, Discover
<1> QED BY <1>1, <1>2, PromotionTypeCorrect, PTL DEF Spec

\* Every step is a step of the abstract lock or a stutter.
LEMMA StepPromoter ==
  ASSUME TypeOK, Standing, [Next]_vars
  PROVE  [Promoters!LockNext]_Promoters!lockVars
<1> USE PromotionAssumption
    DEF TypeOK, Index, Phases, Standing, Active, Trying, Ended, files, Goto, promoterPhase, robbed,
        Promoters!Inside, Promoters!lockVars
<1>0. /\ stolen \in BOOLEAN
      /\ faults' = faults => stolen' = stolen
      /\ \A f \in Faults \ {"steal"} : Count(f) => stolen' = stolen
      /\ Count("steal") => stolen'
  BY DEF stolen, Count, Faults
<1>1. ASSUME NEW r \in Runs, Begin(r) PROVE Promoters!Ask(r)
  BY <1>0, <1>1 DEF Begin, Promoters!Ask
<1>2. ASSUME NEW r \in Runs, Enter(r) PROVE Promoters!Enter(r)
  BY <1>0, <1>2 DEF Enter, Promoters!Enter
<1>3. ASSUME NEW r \in Runs, GiveUp(r) \/ LockFails(r) PROVE Promoters!GiveUp(r)
  <2>1. /\ pc[r] = "waiting" /\ r \notin inside /\ UNCHANGED <<inside, stolen>>
        /\ pc' = [pc EXCEPT ![r] = "refused"]
    BY <1>0, <1>3 DEF GiveUp, LockFails
  <2>2. robbed' = robbed
    BY <1>3, <2>1 DEF GiveUp, LockFails
  <2>3. promoterPhase[r] = "waiting" /\ promoterPhase' = [promoterPhase EXCEPT ![r] = "outside"]
    BY <2>1
  <2> QED BY <2>1, <2>2, <2>3 DEF Promoters!GiveUp, Promoters!Risky
<1>4. ASSUME NEW r \in Runs, Leave(r) PROVE Promoters!Leave(r)
  BY <1>0, <1>4 DEF Leave, Promoters!Leave, Promoters!Risky
<1>5. ASSUME NEW r \in Runs, Crash(r) PROVE Promoters!Leave(r)
  <2>1. stolen' = stolen
    BY <1>0, <1>5 DEF Crash, Faults
  <2> QED BY <1>5, <2>1 DEF Crash, Promoters!Leave, Promoters!Risky
<1>6. ASSUME NEW r \in Runs, StealLock(r)
      PROVE  (\E s \in Runs : Promoters!Lose(s)) \/ Promoters!Overstay
  <2>1. stolen' /\ promoterPhase' = promoterPhase
    BY <1>0, <1>6 DEF StealLock
  <2>2. CASE lock \in inside
    BY <1>6, <2>1, <2>2 DEF StealLock, Promoters!Lose
  <2>3. CASE lock \notin inside
    BY <1>6, <2>1, <2>3 DEF StealLock, Promoters!Overstay
  <2> QED BY <2>2, <2>3
<1>7. ASSUME NEW r \in Runs, BreakLock(r) PROVE UNCHANGED Promoters!lockVars
  BY <1>0, <1>7 DEF BreakLock
<1>8. ASSUME NEW r \in Runs, Advance(r) \/ LateIndexError(r) PROVE UNCHANGED Promoters!lockVars
  <2>1. stolen' = stolen /\ UNCHANGED <<inside, lock>>
    BY <1>0, <1>8
    DEF Faults, Advance, LateIndexError, ReadRuntime, ReadAdapt, PassGate, Stage, Publish,
        WriteHandoff, IndexAdapt, Verify, Activate, Confirm, Raise
  <2>2. promoterPhase' = promoterPhase
    BY <1>8, <2>1
    DEF Advance, LateIndexError, ReadRuntime, ReadAdapt, PassGate, Stage, Publish,
        WriteHandoff, IndexAdapt, Verify, Activate, Confirm, Raise
  <2> QED BY <2>1, <2>2
<1>9. ASSUME NEW r \in Runs, Compensate(r) \/ UndoFails(r) PROVE UNCHANGED Promoters!lockVars
  <2>1. stolen' = stolen /\ UNCHANGED <<inside, lock>>
    BY <1>0, <1>9
    DEF Faults, Compensate, UndoFails, RestoreRuntime, RestoreAdapt, RemoveRelease,
        RemovalFails, FailGate
  <2>2. promoterPhase' = promoterPhase
    BY <1>9, <2>1
    DEF Compensate, UndoFails, RestoreRuntime, RestoreAdapt, RemoveRelease, RemovalFails,
        FailGate
  <2> QED BY <2>1, <2>2
<1>10. ASSUME NEW p \in Prints, Discover(p) PROVE UNCHANGED Promoters!lockVars
  BY <1>0, <1>10 DEF Discover, Faults
<1>11. ASSUME UNCHANGED vars PROVE UNCHANGED Promoters!lockVars
  BY <1>0, <1>11 DEF vars
<1> QED
  BY <1>1, <1>2, <1>3, <1>4, <1>5, <1>6, <1>7, <1>8, <1>9, <1>10, <1>11
  DEF Next, Step, Promoters!LockNext

(***************************************************************************)
(* The promotion lock implements WriterLock: until a lock is stolen, runs  *)
(* enter alone, through crashes and lock files that could not be written.  *)
(***************************************************************************)
THEOREM PromotionLockImplements == Spec => ImplementsPromotionLock
<1>1. Init => Promoters!LockInit
  BY DEF Init, Promoters!LockInit, promoterPhase, robbed, stolen, Faults
<1> QED
  BY <1>1, StepPromoter, AlwaysStanding, PromotionTypeCorrect, PTL
  DEF Spec, ImplementsPromotionLock, Promoters!LockSpec
=============================================================================

------------------------------ MODULE FileLock ------------------------------
(***************************************************************************)
(* src/rolo/core/persistence.py `interprocess_lock`: the lock file on      *)
(* which every writer of rolo's artifact, runtime and job trees relies.    *)
(*                                                                         *)
(* The lock is a sibling file created with O_CREAT|O_EXCL.  A contender    *)
(* that finds it there reads its modification time: a file older than      *)
(* `stale_after_s` is unlinked and the contender tries again; a younger    *)
(* one is waited for until `timeout_s` has passed.  Leaving the section    *)
(* unlinks the path.  Creating, reading the age and unlinking are separate *)
(* system calls, so each is an action here and the file may change between *)
(* them.  Nothing refreshes the file while it is held and nothing ties an  *)
(* unlink to the file whose age was read.  A file may also be left with no *)
(* owner inside: its process died, or could not write its pid into it.     *)
(*                                                                         *)
(* Time is relative, as the code only compares differences: `age` counts   *)
(* ticks since the file was created and stops one past StaleAfter, `left`  *)
(* counts a waiter's timeout down to 0.                                    *)
(***************************************************************************)
EXTENDS Naturals

CONSTANTS Procs,        \* the processes and threads that share one target path
          StaleAfter,   \* stale_after_s, in ticks
          Timeout,      \* timeout_s, in ticks
          MaxHold,      \* longest time a section lasts, stale or not
          Failures,     \* what may go wrong: "death", "error"
          NoOne         \* no process: the lock file does not exist

ASSUME LockAssumption ==
  /\ StaleAfter \in Nat /\ Timeout \in Nat /\ MaxHold \in Nat
  /\ Failures \subseteq {"death", "error"}
  /\ NoOne \notin Procs

VARIABLES place,        \* place[p]: where p stands in interprocess_lock
          file,         \* whose pid the lock file is for, or NoOne
          age,          \* ticks since the file was created, saturated
          left,         \* left[p]: ticks before p's deadline
          held,         \* held[p]: ticks p has been inside its section
          mishaps       \* history: what has gone wrong so far

lockFileVars == <<place, file, age, left, held, mishaps>>

States == {"idle", "waiting", "stat", "breaking", "holding", "refused", "crashed"}

Contending == {"waiting", "stat", "breaking"}

LockFileTypeOK == /\ place \in [Procs -> States]
                  /\ file \in Procs \cup {NoOne}
                  /\ age \in 0..(StaleAfter + 1)
                  /\ left \in [Procs -> 0..Timeout]
                  /\ held \in [Procs -> 0..MaxHold]
                  /\ mishaps \subseteq {"death", "error", "overrun"}

LockFileInit == /\ place = [p \in Procs |-> "idle"]
                /\ file = NoOne
                /\ age = 0
                /\ left = [p \in Procs |-> 0]
                /\ held = [p \in Procs |-> 0]
                /\ mishaps = {}

\* Slips: a file is stale as soon as it reaches stale_after_s; the file is
\* opened without O_EXCL; the deadline is one tick late.
Stale_Reached == age >= StaleAfter
CanCreate_Shared == TRUE

\* time.time() - lock_path.stat().st_mtime > stale_after_s
Stale == age > StaleAfter

\* O_CREAT | O_EXCL succeeds only if the path does not exist.
CanCreate == file = NoOne

\* deadline = time.monotonic() + timeout_s
Deadline == Timeout

MoveTo(p, s) == place' = [place EXCEPT ![p] = s]

(***************************************************************************)
(* Entering the context manager, for the first time or after a refusal.    *)
(***************************************************************************)
Request(p) == /\ place[p] \in {"idle", "refused"}
              /\ MoveTo(p, "waiting")
              /\ left' = [left EXCEPT ![p] = Deadline]
              /\ UNCHANGED <<file, age, held, mishaps>>

\* os.open(O_CREAT | O_EXCL) succeeds and so do the write and the fsync of
\* the pid: p owns the section.
Create(p) == /\ place[p] = "waiting"
             /\ CanCreate
             /\ MoveTo(p, "holding")
             /\ file' = p
             /\ age' = 0
             /\ held' = [held EXCEPT ![p] = 0]
             /\ UNCHANGED <<left, mishaps>>

\* The write or the fsync raises an OSError, which no handler takes: p leaves
\* with it, and the file stays although nobody is inside.
CreateFails(p) == /\ place[p] = "waiting"
                  /\ CanCreate
                  /\ "error" \in Failures
                  /\ MoveTo(p, "refused")
                  /\ file' = p
                  /\ age' = 0
                  /\ mishaps' = mishaps \cup {"error"}
                  /\ UNCHANGED <<left, held>>

\* os.open raises FileExistsError: p goes on to look at the file's age.
Collide(p) == /\ place[p] = "waiting"
              /\ file # NoOne
              /\ MoveTo(p, "stat")
              /\ UNCHANGED <<file, age, left, held, mishaps>>

\* What p does about the file it collided with, decided on its age alone.
Stat(p) ==
  /\ place[p] = "stat"
  /\ \/ file = NoOne /\ MoveTo(p, "waiting")
     \/ file # NoOne /\ Stale /\ MoveTo(p, "breaking")
     \/ file # NoOne /\ ~Stale /\ left[p] = 0 /\ MoveTo(p, "refused")
     \/ file # NoOne /\ ~Stale /\ left[p] > 0 /\ MoveTo(p, "waiting")
  /\ UNCHANGED <<file, age, left, held, mishaps>>

\* A slip: the stale file is reported but not unlinked.
Break_Kept(p) == place[p] = "breaking" /\ MoveTo(p, "waiting")
                 /\ UNCHANGED <<file, age, left, held, mishaps>>

\* lock_path.unlink() of a file judged stale; by now it may be another file.
Break(p) == /\ place[p] = "breaking"
            /\ MoveTo(p, "waiting")
            /\ file' = NoOne
            /\ UNCHANGED <<age, left, held, mishaps>>

\* The finally clause: close, then unlink whatever the path names.
Release(p) == /\ place[p] = "holding"
              /\ MoveTo(p, "idle")
              /\ file' = NoOne
              /\ held' = [held EXCEPT ![p] = 0]
              /\ UNCHANGED <<age, left, mishaps>>

\* The process dies: no finally clause runs and the file stays.
Die(p) == /\ place[p] \in Contending \cup {"holding"}
          /\ "death" \in Failures
          /\ MoveTo(p, "crashed")
          /\ held' = [held EXCEPT ![p] = 0]
          /\ mishaps' = mishaps \cup {"death"}
          /\ UNCHANGED <<file, age, left>>

\* One unit of time; no section outlives MaxHold, but it may outlive StaleAfter.
Tick == /\ \A p \in Procs : place[p] = "holding" => held[p] < MaxHold
        /\ age' = IF file # NoOne /\ age <= StaleAfter THEN age + 1 ELSE age
        /\ left' = [p \in Procs |-> IF left[p] > 0 THEN left[p] - 1 ELSE 0]
        /\ held' = [p \in Procs |-> IF place[p] = "holding" THEN held[p] + 1 ELSE held[p]]
        /\ mishaps' = IF \E p \in Procs : place[p] = "holding" /\ held[p] >= StaleAfter
                      THEN mishaps \cup {"overrun"} ELSE mishaps
        /\ UNCHANGED <<place, file>>

LockFileNext == \/ \E p \in Procs : Request(p) \/ Create(p) \/ CreateFails(p) \/ Collide(p)
                                   \/ Stat(p) \/ Break(p) \/ Release(p) \/ Die(p)
                \/ Tick

LockFileSpec == LockFileInit /\ [][LockFileNext]_lockFileVars

(***************************************************************************)
(* A contender keeps looping and a section ends (MaxHold stops the clock   *)
(* until it does); nobody is obliged to ask and nobody is obliged to die.  *)
(***************************************************************************)
LockFileFairness ==
  /\ \A p \in Procs : WF_lockFileVars(Create(p) \/ CreateFails(p) \/ Collide(p) \/ Stat(p) \/ Break(p))
  /\ \A p \in Procs : WF_lockFileVars(Release(p))
  /\ WF_lockFileVars(Tick)

FairLockFileSpec == LockFileSpec /\ LockFileFairness

-----------------------------------------------------------------------------
(* Properties *)

(***************************************************************************)
(* "Serialize writers" (persistence.py line 17): two processes are never   *)
(* inside the sections of one target at the same time.  The code does not  *)
(* keep this once an owner has died or failed.                             *)
(***************************************************************************)
MutualExclusion ==
  \A p, q \in Procs : place[p] = "holding" /\ place[q] = "holding" => p = q

\* The processes inside whose lock file is gone, or is another's.
Robbed == {p \in Procs : place[p] = "holding" /\ file # p}

(***************************************************************************)
(* What the code does keep: until an owner dies, fails to write its file   *)
(* or outlives stale_after_s, the file of whoever is inside stands, judged *)
(* and unlinked by nobody, and so writers are serialized.                  *)
(***************************************************************************)
HoldersKeepOut == mishaps = {} => MutualExclusion /\ Robbed = {}

(***************************************************************************)
(* "Bounded" (line 17): once processes stop asking anew, every contender   *)
(* gets the lock, is refused with TimeoutError, or dies.  The premise is   *)
(* needed: the retry after FileNotFoundError checks no deadline, so a      *)
(* stream of newcomers may overtake a waiter for ever.                     *)
(***************************************************************************)
NoMoreRequests == <>[][\A p \in Procs : ~Request(p)]_lockFileVars
WaitIsBounded ==
  NoMoreRequests =>
    \A p \in Procs : place[p] \in Contending ~> place[p] \notin Contending

(***************************************************************************)
(* What the callers get, whatever fails: this protocol implements          *)
(* WriterLock.  Losing the race, reading the age and breaking are waiting; *)
(* unlinking another's file is its loss of the lock, which takes a fault.  *)
(***************************************************************************)
phaseOfPlace == [p \in Procs |-> CASE place[p] \in Contending -> "waiting"
                                   [] place[p] = "holding" -> "inside"
                                   [] OTHER -> "outside"]
faulty == mishaps # {}
Abstract == INSTANCE WriterLock WITH phase <- phaseOfPlace, lost <- Robbed, fault <- faulty
ImplementsWriterLock == Abstract!LockSpec
=============================================================================

-------------------------- MODULE CompanionBootstrap --------------------------
(***************************************************************************)
(* src/rolo/jobs.py and src/rolo/targets/bootstrap.py: calls that install  *)
(* the companion executable on one SSH target, each recorded as a job.     *)
(*                                                                         *)
(* run_bootstrap_job returns an earlier success of the same plan if it     *)
(* finds one.  Otherwise it creates a job and runs a fixed series of       *)
(* remote commands: back up the companion, upload the package, install it, *)
(* check its version, restore the backup if that failed, clean up.  The    *)
(* plan names the target but not the package, so every call here has the   *)
(* same plan and any call may bring another package; the paths of upload   *)
(* and backup on the target are named after the package's digest alone.    *)
(* Nothing locks the target.                                               *)
(*                                                                         *)
(* A remote command may fail, may run although its reply is lost, and may  *)
(* outlive a client that timed out or died and run later.                  *)
(***************************************************************************)
EXTENDS Naturals

CONSTANTS Calls,    \* calls of run_bootstrap_job, with the same plan and approval
          Packages, \* companion packages, by digest; each of its own version
          Broken,   \* those that do not report their version on this target
          Absent,   \* no companion is installed
          Torn,     \* a companion installed from half an upload
          None

Companions == Packages \cup {Absent, Torn}

ASSUME BootstrapAssumption ==
  /\ Broken \subseteq Packages
  /\ {Absent, Torn, None} \cap Packages = {}
  /\ Absent # Torn /\ None \notin {Absent, Torn} \cup Calls

VARIABLES target,    \* the remote host: its companion, uploads and backups
          late,      \* commands a client no longer waits for
          pc,        \* pc[c]: the command or job write that call c is at
          want,      \* want[c]: the package call c brings
          available, \* the calls whose backup succeeded (rollback_available)
          restored,  \* the calls that report "rollback restored the previous companion"
          outcome,   \* outcome[c]: the status execute_bootstrap returns
          job,       \* job[c]: the status in c's job file
          result,    \* result[c]: the result in the last checkpoint of c's job
          unreadable,\* the calls whose job file cannot be opened or parsed now
          before,    \* history: the companion when c backed it up
          disturbed  \* history: calls during which someone else changed the target

vars == <<target, late, pc, want, available, restored, outcome, job, result, unreadable,
          before, disturbed>>
host == <<target, disturbed>>
notes == <<available, restored, outcome, before>>
store == <<job, result, unreadable>>

Commands == {"backup", "install", "drop", "restore", "unstage"}
Executing == {"upload", "uploading", "install", "health", "drop", "restore", "unstage",
              "save", "record"}
Live == Executing \cup {"create", "start", "authority", "backup", "raise"}

Hosts == [companion : Companions,
          staged : [Packages -> {"none", "part", "whole"}],
          saved : [Packages -> (Companions \ {Absent}) \cup {None}]]

TypeOK ==
  /\ target \in Hosts
  /\ late \subseteq Commands \X Packages
  /\ pc \in [Calls -> Live \cup {"idle", "found", "raised", "stopped", "ended"}]
  /\ want \in [Calls -> Packages \cup {None}]
  /\ available \subseteq Calls /\ restored \subseteq Calls /\ disturbed \subseteq Calls
  /\ outcome \in [Calls -> {"none", "SUCCEEDED", "FAILED"}]
  /\ job \in [Calls -> {"none", "CREATED", "RUNNING", "SUCCEEDED", "FAILED"}]
  /\ result \in [Calls -> {"none", "SUCCEEDED", "FAILED"}]
  /\ unreadable \subseteq Calls
  /\ before \in [Calls -> Companions]

Init ==
  /\ \E x \in Companions \ {Torn} :
       target = [companion |-> x, staged |-> [p \in Packages |-> "none"],
                 saved |-> [p \in Packages |-> None]]
  /\ late = {}
  /\ pc = [c \in Calls |-> "idle"]
  /\ want = [c \in Calls |-> None]
  /\ available = {} /\ restored = {} /\ disturbed = {} /\ unreadable = {}
  /\ outcome = [c \in Calls |-> "none"]
  /\ job = [c \in Calls |-> "none"]
  /\ result = [c \in Calls |-> "none"]
  /\ before = [c \in Calls |-> Absent]

Goto(c, s) == pc' = [pc EXCEPT ![c] = s]
Ends(c, o) == outcome' = [outcome EXCEPT ![c] = o]

\* The call is over, and its local variables with it.
Leave(c, s) == /\ Goto(c, s)
               /\ want' = [want EXCEPT ![c] = None]
               /\ available' = available \ {c} /\ restored' = restored \ {c}
               /\ outcome' = [outcome EXCEPT ![c] = "none"]
               /\ before' = [before EXCEPT ![c] = Absent]
               /\ disturbed' = disturbed \ {c}

-----------------------------------------------------------------------------
(* Commands on the target *)

\* When a command for package p can succeed.
Works(op, p) == /\ op = "backup" => target.companion # Absent
                /\ op = "install" => target.staged[p] # "none"
                /\ op = "restore" => target.saved[p] # None

\* What a command leaves behind.
Effect(op, p) ==
  IF ~Works(op, p) THEN target
  ELSE CASE op = "backup"  -> [target EXCEPT !.saved[p] = target.companion]
         [] op = "install" -> [target EXCEPT !.companion = IF target.staged[p] = "whole"
                                                             THEN p ELSE Torn]
         [] op = "restore" -> [target EXCEPT !.companion = target.saved[p],
                                             !.saved[p] = None]
         [] op = "drop"    -> [target EXCEPT !.saved[p] = None]
         [] op = "unstage" -> [target EXCEPT !.staged[p] = "none"]

\* The target becomes t, by c's doing or (c = None) by a late command.
Becomes(c, t) ==
  /\ target' = t
  /\ disturbed' = IF t = target THEN disturbed
                  ELSE disturbed \cup {d \in Calls \ {c} : pc[d] \in Executing}

\* Call c's command is seen to succeed, or not to: then it may have run all the same.
Succeeds(c, op) == Works(op, want[c]) /\ Becomes(c, Effect(op, want[c]))
Fails(c, op) == \E t \in {target, Effect(op, want[c])} : Becomes(c, t)

\* A command whose client is gone runs after all.
Late(op, p) == /\ <<op, p>> \in late
               /\ Becomes(None, Effect(op, p))
               /\ late' = late \ {<<op, p>>}
               /\ UNCHANGED <<pc, want, notes, store>>

-----------------------------------------------------------------------------
(* A call *)

\* find_completed_bootstrap skips every job file that it cannot load.
Findable(j) == job[j] = "SUCCEEDED" /\ result[j] # "none" /\ j \notin unreadable

Find(c) == /\ pc[c] = "idle"
           /\ IF \E j \in Calls : Findable(j)
                THEN Goto(c, "found") /\ UNCHANGED want
                ELSE Goto(c, "create") /\ \E p \in Packages : want' = [want EXCEPT ![c] = p]
           /\ UNCHANGED <<host, late, notes, store>>

Create(c) == /\ pc[c] = "create"
             /\ job' = [job EXCEPT ![c] = "CREATED"]
             /\ Goto(c, "start")
             /\ UNCHANGED <<host, late, want, notes, result, unreadable>>

\* JOB_STARTED and the first checkpoint
Start(c) == /\ pc[c] = "start"
            /\ job' = [job EXCEPT ![c] = "RUNNING"]
            /\ Goto(c, "authority")
            /\ UNCHANGED <<host, late, want, notes, result, unreadable>>

\* _validate_execution_authority, expiry, signature and digests of the package
Authorize(c) == /\ pc[c] = "authority"
                /\ Goto(c, "backup") \/ Goto(c, "raise")
                /\ UNCHANGED <<host, late, want, notes, store>>

Backup(c) == /\ pc[c] = "backup"
             /\ \/ Succeeds(c, "backup") /\ available' = available \cup {c}
                \/ Fails(c, "backup") /\ UNCHANGED available
             /\ before' = [before EXCEPT ![c] = target.companion]
             /\ Goto(c, "upload")
             /\ UNCHANGED <<late, want, restored, outcome, store>>

Staged(p, s) == [target EXCEPT !.staged[p] = s]

\* scp truncates the file, or does not get that far.
Upload(c) == /\ pc[c] = "upload"
             /\ \/ /\ Becomes(c, Staged(want[c], "part"))
                   /\ Goto(c, "uploading")
                   /\ UNCHANGED outcome
                \/ /\ Ends(c, "FAILED") /\ Goto(c, "save")
                   /\ UNCHANGED host
             /\ UNCHANGED <<late, want, available, restored, before, store>>

\* The copy is complete, unless the file was removed or another upload of the
\* package is still filling it; or the copy breaks off.
Uploaded(c) ==
  /\ pc[c] = "uploading"
  /\ \/ /\ IF target.staged[want[c]] = "none" THEN UNCHANGED host
           ELSE \/ Becomes(c, Staged(want[c], "whole"))
                \/ /\ \E d \in Calls \ {c} : pc[d] = "uploading" /\ want[d] = want[c]
                   /\ Becomes(c, Staged(want[c], "part"))
        /\ Goto(c, "install")
        /\ UNCHANGED outcome
     \/ /\ Ends(c, "FAILED") /\ Goto(c, "save")
        /\ UNCHANGED host
  /\ UNCHANGED <<late, want, available, restored, before, store>>

Install(c) == /\ pc[c] = "install"
              /\ \/ Succeeds(c, "install") /\ Goto(c, "health") /\ UNCHANGED outcome
                 \/ Fails(c, "install") /\ Goto(c, "unstage") /\ Ends(c, "FAILED")
              /\ UNCHANGED <<late, want, available, restored, before, store>>

\* rolo-target --version prints the package's id and version (a slip: any exit
\* code 0 will do).
Healthy_Runs(p) == target.companion \in Packages
Healthy(p) == target.companion = p /\ p \notin Broken

\* rollback_available (a slip: a backup is there)
Available_Saved(c) == target.saved[want[c]] # None
Available(c) == c \in available

Health(c) == /\ pc[c] = "health"
             /\ \/ /\ Healthy(want[c])
                   /\ Ends(c, "SUCCEEDED")
                   /\ Goto(c, IF Available(c) THEN "drop" ELSE "unstage")
                \/ /\ Ends(c, "FAILED")
                   /\ Goto(c, IF Available(c) THEN "restore" ELSE "unstage")
             /\ UNCHANGED <<host, late, want, available, restored, before, store>>

Restore(c) == /\ pc[c] = "restore"
              /\ \/ Succeeds(c, "restore") /\ restored' = restored \cup {c}
                 \/ Fails(c, "restore") /\ UNCHANGED restored
              /\ Goto(c, "unstage")
              /\ UNCHANGED <<late, want, available, outcome, before, store>>

\* The clean-up commands, whose failure is only reported
Drop(c) == /\ pc[c] = "drop"
           /\ Succeeds(c, "drop") \/ Fails(c, "drop")
           /\ Goto(c, "unstage")
           /\ UNCHANGED <<late, want, notes, store>>

Unstage(c) == /\ pc[c] = "unstage"
              /\ Succeeds(c, "unstage") \/ Fails(c, "unstage")
              /\ Goto(c, "save")
              /\ UNCHANGED <<late, want, notes, store>>

\* The checkpoint with the result comes before the event with the status.
SaveResult(c) == /\ pc[c] = "save"
                 /\ result' = [result EXCEPT ![c] = outcome[c]]
                 /\ Goto(c, "record")
                 /\ UNCHANGED <<host, late, want, notes, job, unreadable>>

\* The file of a finished job becomes unreadable (its mode, its disk), or is
\* readable again.
Obscure(j) == /\ job[j] \in {"SUCCEEDED", "FAILED"}
              /\ unreadable' = IF j \in unreadable THEN unreadable \ {j}
                                                   ELSE unreadable \cup {j}
              /\ UNCHANGED <<host, late, pc, want, notes, job, result>>

\* A slip: the event may come without the checkpoint.
Record_Alone(c) == /\ pc[c] \in {"save", "record"}
                   /\ job' = [job EXCEPT ![c] = outcome[c]]
                   /\ Leave(c, "ended")
                   /\ UNCHANGED <<target, late, result, unreadable>>

Record(c) == /\ pc[c] = "record"
             /\ job' = [job EXCEPT ![c] = outcome[c]]
             /\ Leave(c, "ended")
             /\ UNCHANGED <<target, late, result, unreadable>>

\* execute_bootstrap raised ValueError or OSError (a slip: nothing is recorded).
RecordFailure_Unhandled(c) == /\ pc[c] = "raise"
                              /\ Leave(c, "raised")
                              /\ UNCHANGED <<target, late, store>>

RecordFailure(c) == /\ pc[c] = "raise"
                    /\ job' = [job EXCEPT ![c] = "FAILED"]
                    /\ Leave(c, "raised")
                    /\ UNCHANGED <<target, late, result, unreadable>>

\* ssh cannot be started: an OSError
CannotRun(c) == /\ pc[c] \in Commands \cup {"upload", "health"}
                /\ Goto(c, "raise")
                /\ UNCHANGED <<host, late, want, notes, store>>

\* The process dies, a job write raises, or a command times out: TimeoutExpired
\* is neither an OSError nor a ValueError.  The command may run later.
Stop(c) == /\ pc[c] \in Live
           /\ late' = IF pc[c] \in Commands THEN late \cup {<<pc[c], want[c]>>} ELSE late
           /\ Leave(c, "stopped")
           /\ UNCHANGED <<target, store>>

Step(c) == \/ Find(c) \/ Create(c) \/ Start(c) \/ Authorize(c) \/ Backup(c) \/ Upload(c)
           \/ Uploaded(c) \/ Install(c) \/ Health(c) \/ Restore(c) \/ Drop(c) \/ Unstage(c)
           \/ SaveResult(c) \/ Record(c) \/ RecordFailure(c)

Next == \/ \E c \in Calls : Step(c) \/ CannotRun(c) \/ Stop(c) \/ Obscure(c)
        \/ \E op \in Commands, p \in Packages : Late(op, p)

\* A call that is neither stopped nor interrupted goes on: every command has a timeout.
Fairness == \A c \in Calls : WF_vars(Step(c))

Spec == Init /\ [][Next]_vars /\ Fairness

-----------------------------------------------------------------------------
(* Properties *)

(***************************************************************************)
(* "rollback restored the previous companion" is true: the companion is    *)
(* the one that stood when the call began to change the target, unless     *)
(* another call or a late command changed the target meanwhile.            *)
(***************************************************************************)
RollbackRestores ==
  \A c \in restored \ disturbed : pc[c] \in Executing => target.companion = before[c]

(***************************************************************************)
(* A call about to record success leaves its own, working package on the   *)
(* target, through backup removal and clean-up, unless it was disturbed.   *)
(***************************************************************************)
SuccessIsTrue ==
  \A c \in Calls \ disturbed :
    outcome[c] = "SUCCEEDED" /\ pc[c] \in Executing 
      => target.companion = want[c] /\ want[c] \notin Broken

(***************************************************************************)
(* A bootstrap that is recorded as succeeded is not executed again: a call *)
(* that starts afterwards finds it if it can read the record, whatever     *)
(* died between the two writes that complete a job.  An unreadable record  *)
(* is skipped, and the plan executed once more.                            *)
(***************************************************************************)
Repeated ==
  \A c \in Calls : (\E j \in Calls \ unreadable : job[j] = "SUCCEEDED") /\ pc[c] = "idle"
                    => pc'[c] \in {"idle", "found"}
NotRepeated == [][Repeated]_vars

(***************************************************************************)
(* A job is left open only by a call that stopped; every other one gets    *)
(* its final status.                                                       *)
(***************************************************************************)
JobsEnd == \A c \in Calls :
             job[c] \in {"CREATED", "RUNNING"}
               ~> job[c] \in {"SUCCEEDED", "FAILED"} \/ pc[c] = "stopped"
=============================================================================

----------------------------- MODULE WriterLock -----------------------------
(***************************************************************************)
(* What rolo's writers get from core/persistence.py `interprocess_lock`,   *)
(* which promises to "serialize writers with a bounded, crash-recoverable  *)
(* sibling lock file".  A writer asks, then enters or gives up.  It enters *)
(* alone, with one exception: after a fault (an owner that died, could not *)
(* write its file or stayed too long) a writer inside may lose its lock    *)
(* without noticing, and the next one enters beside it.  A writer that     *)
(* leaves without a lock may take away the lock of whoever has it now.     *)
(***************************************************************************)
CONSTANT Procs          \* the processes and threads that share one target path

VARIABLES phase,        \* phase[p]: where p stands with respect to the lock
          lost,         \* the writers inside that no longer keep others out
          fault         \* whether a fault has ever happened

lockVars == <<phase, lost, fault>>

Phases == {"outside", "waiting", "inside"}

Inside == {p \in Procs : phase[p] = "inside"}

LockTypeOK == /\ phase \in [Procs -> Phases]
              /\ lost \subseteq Inside
              /\ fault \in BOOLEAN

LockInit == /\ phase = [p \in Procs |-> "outside"]
            /\ lost = {}
            /\ fault = FALSE

\* A step in which a fault may happen as well.
Risky == fault' \in {fault, TRUE}

Ask(p) == /\ phase[p] = "outside"
          /\ phase' = [phase EXCEPT ![p] = "waiting"]
          /\ UNCHANGED <<lost, fault>>

\* Entering is exclusive, but for those who have lost their lock.
Enter(p) == /\ phase[p] = "waiting"
            /\ Inside \subseteq lost
            /\ phase' = [phase EXCEPT ![p] = "inside"]
            /\ UNCHANGED <<lost, fault>>

\* By returning, by an error or by dying.
Leave(p) == /\ phase[p] = "inside"
            /\ phase' = [phase EXCEPT ![p] = "outside"]
            /\ \/ lost' = lost \ {p}
               \/ p \in lost /\ lost' = Inside \ {p}
            /\ Risky

GiveUp(p) == /\ phase[p] = "waiting"
             /\ phase' = [phase EXCEPT ![p] = "outside"]
             /\ UNCHANGED lost
             /\ Risky

\* Someone takes p's lock away while p is inside, which is a fault or takes one.
Lose(p) == /\ fault'
           /\ p \in Inside \ lost
           /\ lost' = lost \cup {p}
           /\ UNCHANGED phase

\* Nobody has noticed yet.
Overstay == fault' = TRUE /\ UNCHANGED <<phase, lost>>

LockNext == \/ \E p \in Procs : Ask(p) \/ Enter(p) \/ Leave(p) \/ GiveUp(p) \/ Lose(p)
            \/ Overstay

LockSpec == LockInit /\ [][LockNext]_lockVars

(***************************************************************************)
(* "Serialize writers": until the first fault at most one is inside, and   *)
(* at any time at most one that has not lost its lock.                     *)
(***************************************************************************)
Serialized == /\ \A p, q \in Inside \ lost : p = q
              /\ ~fault => lost = {}
=============================================================================

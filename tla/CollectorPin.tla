---------------------------- MODULE CollectorPin ----------------------------
(***************************************************************************)
(* What pinning a target's collector promises.  A collector is enrolled    *)
(* once; after that another one replaces it only if a record of that       *)
(* transition, from a collector that really was pinned, was kept before.   *)
(* A call takes evidence only from the collector, and under the key, that  *)
(* was pinned when the call looked.                                        *)
(*                                                                         *)
(* Only the once is lost when two first enrollments overwrite each other.  *)
(* TargetEvidence (src/rolo/stages/adapt/target_evidence.py) implements    *)
(* this specification.                                                     *)
(***************************************************************************)
CONSTANTS Calls  \* calls of the program; a collector is named by the call that made it

VARIABLES pinned,   \* collector and key of the deployment
          ever,     \* collectors pinned so far
          records,  \* transitions on record: previous and new collector
          asked,    \* asked[c]: collector and key that were pinned when c looked
          heard,    \* heard[c]: collector and key of the evidence c accepted
          order     \* "lost" once first enrollments overwrote each other

Nobody == <<"none", "none">>

PinInit == /\ pinned = Nobody
           /\ ever = {}
           /\ records = {}
           /\ asked = [c \in Calls |-> Nobody]
           /\ heard = [c \in Calls |-> Nobody]
           /\ order = "kept"

Disorder == /\ order = "kept" /\ order' = "lost"
            /\ UNCHANGED <<pinned, ever, records, asked, heard>>

\* The caller that enrolls the collector goes on to ask it.
Enroll(c, k) == /\ pinned = Nobody \/ order' = "lost"
                /\ pinned' = <<c, k>>
                /\ ever' = ever \cup {c}
                /\ asked' = [asked EXCEPT ![c] = pinned']
                /\ order' \in {order, "lost"}
                /\ UNCHANGED <<records, heard>>

Authorize(p, n) == /\ p \in ever
                   /\ records' = records \cup {<<p, n>>}
                   /\ UNCHANGED <<pinned, ever, asked, heard, order>>

Rotate(n, k) == /\ \E p \in ever : <<p, n>> \in records
                /\ pinned' = <<n, k>>
                /\ ever' = ever \cup {n}
                /\ UNCHANGED <<records, asked, heard, order>>

Ask(c) == /\ pinned # Nobody
          /\ asked' = [asked EXCEPT ![c] = pinned]
          /\ UNCHANGED <<pinned, ever, records, heard, order>>

Accept(c) == /\ asked[c] # Nobody /\ heard[c] = Nobody
             /\ heard' = [heard EXCEPT ![c] = asked[c]]
             /\ UNCHANGED <<pinned, ever, records, asked, order>>

GiveUp(c) == /\ asked' = [asked EXCEPT ![c] = Nobody]
             /\ UNCHANGED <<pinned, ever, records, heard, order>>

PinNext == \/ Disorder
           \/ \E c \in Calls : Ask(c) \/ Accept(c) \/ GiveUp(c)
           \/ \E c, d \in Calls : Enroll(c, d) \/ Authorize(c, d) \/ Rotate(c, d)
PinSpec == PinInit /\ [][PinNext]_<<pinned, ever, records, asked, heard, order>>
=============================================================================

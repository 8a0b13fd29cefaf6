------------------------ MODULE TargetEvidenceProofs ------------------------
(***************************************************************************)
(* For any calls, however they interleave, fail or die: the deployment     *)
(* changes hands only as CollectorPin allows, and until first starts       *)
(* overwrite each other's files (Orderly) the credentials of every         *)
(* collector that was ever pinned stay in place.                           *)
(***************************************************************************)
EXTENDS TargetEvidence, TLAPS

\* Where a call stands that has not pinned a collector.
Before == {"begin", "ensuring", "absent", "pinning", "writing"} \cup Making \cup Replacing

\* Each phase belongs to the commands that go through it.
Commands == \A c \in Calls :
              /\ pc[c] \in {"ensuring", "absent", "pinning", "writing"} => kind[c] = "start"
              /\ pc[c] \in Making => kind[c] \in {"start", "refresh", "rotate"}
              /\ pc[c] \in Replacing => kind[c] \in {"refresh", "reenroll"}

\* A call works on a deployment there has been.
Known == /\ pin \in pins \cup {Unpinned}
         /\ \A c \in Calls :
              /\ pc[c] \in {"ensuring"} \cup Gathering \cup Replacing => loaded[c] \in pins
              /\ pc[c] \in Making /\ kind[c] = "refresh" => loaded[c] \in pins

\* A collector that is not pinned yet never was.
Fresh == \A p \in pins : pc[p.collector] \notin Before

\* A collector that was not made by a start has files of its own.
Apart(p) == p.slot = p.collector /\ p.digest = p.collector /\ Intact(p)
Placed == /\ \A p \in pins : p.slot = "default" \/ Apart(p)
          /\ \A c \in Calls : secret[c] \in {c, "none"}

\* What a call is about to write is its own, or of a collector no call works on.
Prepared == \A c \in Calls :
              /\ pc[c] = "writing" =>
                   proposed[c] \in Pins /\ proposed[c].slot = "default" /\ proposed[c].collector = c
              /\ pc[c] \in {"recording", "replacing"} =>
                   /\ proposed[c] \in Pins
                   /\ proposed[c].slot = "default" \/ Apart(proposed[c])
                   /\ proposed[c].collector = c \/ pc[proposed[c].collector] \notin Before
              /\ pc[c] = "replacing" =>
                   <<loaded[c].collector, proposed[c].collector>> \in transitions

\* Without a clash, the default files belong to the one start that writes them.
Owned == Orderly =>
           /\ \A p \in pins : Intact(p) /\ p.digest = p.collector
           /\ \A c \in Calls :
                /\ kind[c] = "start" /\ pc[c] \in {"stating", "pinning", "writing"}
                     => secret["default"] = c
                /\ pc[c] \in {"pinning", "writing"} => collector["default"] = c
                /\ pc[c] \in {"writing", "recording", "replacing"}
                     => Intact(proposed[c]) /\ proposed[c].digest = proposed[c].collector

IInv == TypeOK /\ Commands /\ Known /\ Fresh /\ Placed /\ Prepared /\ Owned

\* The invariant holds before the first request.
LEMMA InitIInv == Init => IInv
  BY EvidenceAssumption DEF Init, IInv, TypeOK, Phases, Making, Replacing, Gathering, Ended,
     Commands, Known, Fresh, Placed, Prepared, Owned, Values,
     Slots

\* While a call makes a collector, nobody else has its files in a pin or is about to.
LEMMA FilesApart ==
  ASSUME IInv, NEW c \in Calls, pc[c] \in Before
  PROVE  /\ \A p \in pins : p.slot # c
         /\ \A d \in Calls \ {c} : pc[d] \in {"writing", "recording", "replacing"}
                                      => proposed[d].slot # c
<1>1. \A p \in pins : p.slot # c
  BY EvidenceAssumption DEF IInv, Placed, Fresh, Apart
<1>2. ASSUME NEW d \in Calls \ {c}, pc[d] = "writing" PROVE proposed[d].slot # c
  BY <1>2, EvidenceAssumption DEF IInv, Prepared
<1>3. ASSUME NEW d \in Calls \ {c}, pc[d] \in {"recording", "replacing"}
      PROVE proposed[d].slot # c
  BY <1>3, EvidenceAssumption DEF IInv, Prepared, Apart
<1> QED BY <1>1, <1>2, <1>3

\* Without a clash, the default files are not pinned while a start writes its state.
LEMMA DefaultFree ==
  ASSUME IInv, Orderly, NEW c \in Calls, kind[c] = "start", pc[c] = "stating"
  PROVE  /\ \A p \in pins : p.slot # "default"
         /\ \A d \in Calls \ {c} :
              /\ pc[d] \in {"writing", "recording", "replacing"} => proposed[d].slot # "default"
              /\ kind[d] = "start" => pc[d] \notin {"stating", "pinning", "writing"}
<1>1. secret["default"] = c
  BY DEF IInv, Owned
<1>2. \A p \in pins : p.slot # "default"
  BY <1>1 DEF IInv, Owned, Intact, Fresh, Before, Making
<1>3. \A d \in Calls \ {c} : kind[d] = "start" => pc[d] \notin {"stating", "pinning", "writing"}
  BY <1>1 DEF IInv, Owned
<1>4. ASSUME NEW d \in Calls \ {c}, pc[d] \in {"writing", "recording", "replacing"},
             proposed[d].slot = "default"
      PROVE FALSE
  <2>1. proposed[d].collector = c
    BY <1>1, <1>4 DEF IInv, Owned, Intact
  <2>2. CASE pc[d] = "writing"
    BY <2>1, <2>2 DEF IInv, Prepared
  <2>3. CASE pc[d] \in {"recording", "replacing"}
    BY <2>1, <2>3 DEF IInv, Prepared, Before, Making
  <2> QED BY <1>4, <2>2, <2>3
<1> QED BY <1>2, <1>3, <1>4

\* Every step of a request keeps the invariant.
LEMMA NextIInv == ASSUME IInv, [Next]_vars PROVE IInv'
<1> USE EvidenceAssumption
<1> USE DEF IInv, TypeOK, Phases, Making, Replacing, Gathering, Ended, Slots, Values, Pins, Unpinned,
        Bundles, NoBundle, files, Goto, Before, Commands, Known, Fresh, Placed, Prepared, Owned,
        Orderly, Intact, Apart
<1>1. ASSUME NEW c \in Calls, Look(c) PROVE IInv'
  BY <1>1 DEF Look, Active, Kinds
<1>2. ASSUME NEW c \in Calls, Ensure(c) PROVE IInv'
  <2>1. /\ pc[c] = "ensuring" /\ pc' = [pc EXCEPT ![c] = pc'[c]]
        /\ loaded' = [loaded EXCEPT ![c] = loaded'[c]]
        /\ UNCHANGED <<kind, secret, collector, pin, transitions, proposed, bundle, pins, clash>>
    BY <1>2 DEF Ensure
  <2>2. \/ pc'[c] = "failed" /\ loaded'[c] = loaded[c]
        \/ pc'[c] = "collecting" /\ loaded'[c] = pin /\ pin \in pins
    <3>1. CASE pin = Unpinned
      BY <1>2, <3>1 DEF Ensure
    <3>2. CASE pin \in pins
      BY <1>2, <3>2 DEF Ensure
    <3> QED BY <3>1, <3>2
  <2>3. TypeOK' /\ Commands' /\ Known' /\ Fresh' /\ Placed'
    BY <2>1, <2>2
  <2>4. Prepared' /\ Owned'
    BY <2>1, <2>2
  <2> QED BY <2>3, <2>4
<1>3. ASSUME NEW c \in Calls, CheckFiles(c) PROVE IInv'
  BY <1>3 DEF CheckFiles
<1>4. ASSUME NEW c \in Calls, WriteSecret(c) PROVE IInv'
  BY <1>4 DEF WriteSecret, Overwrites, Slot
<1>5. ASSUME NEW c \in Calls, WriteState(c) PROVE IInv'
  BY <1>5 DEF WriteState, Overwrites, Slot
<1>6. ASSUME NEW c \in Calls, StateFails(c) PROVE IInv'
  <2>1. /\ pc[c] = "stating" /\ pc' = [pc EXCEPT ![c] = "failed"]
        /\ secret' = [secret EXCEPT ![Slot(c)] = "none"]
        /\ UNCHANGED <<kind, collector, pin, transitions, loaded, proposed, bundle, pins, clash>>
        /\ Slot(c) \in Slots
    BY <1>6 DEF StateFails, Slot
  <2>2. TypeOK' /\ Commands' /\ Known' /\ Fresh'
    BY <2>1
  <2>3. CASE kind[c] = "start"
    <3>1. Placed' /\ Prepared'
      BY <2>1, <2>3 DEF Slot
    <3>2. Orderly =>
            /\ \A p \in pins : p.slot # "default"
            /\ \A d \in Calls \ {c} :
                 /\ pc[d] \in {"writing", "recording", "replacing"}
                      => proposed[d].slot # "default"
                 /\ kind[d] = "start" => pc[d] \notin {"stating", "pinning", "writing"}
      BY <2>1, <2>3, DefaultFree
    <3>3. Owned'
      BY <2>1, <2>3, <3>2 DEF Slot
    <3> QED BY <2>2, <3>1, <3>3
  <2>4. CASE kind[c] # "start"
    <3>1. Placed'
      BY <2>1, <2>4 DEF Slot
    <3>2. Prepared'
      BY <2>1, <2>4 DEF Slot
    <3>3. /\ \A p \in pins : p.slot # c
          /\ \A d \in Calls \ {c} : pc[d] \in {"writing", "recording", "replacing"}
                                      => proposed[d].slot # c
      BY <2>1, FilesApart
    <3>4. Owned'
      BY <2>1, <2>4, <3>3 DEF Slot
    <3> QED BY <2>2, <3>1, <3>2, <3>4
  <2> QED BY <2>3, <2>4
<1>7. ASSUME NEW c \in Calls, Configure(c) PROVE IInv'
  BY <1>7 DEF Configure, Configurable
<1>8. ASSUME NEW c \in Calls, Pin(c) PROVE IInv'
  <2>1. /\ pc[c] = "writing" /\ pc' = [pc EXCEPT ![c] = "collecting"]
        /\ pin' = proposed[c] /\ pins' = pins \cup {proposed[c]}
        /\ loaded' = [loaded EXCEPT ![c] = proposed[c]]
        /\ clash' \in {clash, "yes"}
        /\ UNCHANGED <<kind, secret, collector, transitions, proposed, bundle>>
    BY <1>8 DEF Pin, Overwrites
  <2>2. proposed[c] \in Pins /\ proposed[c].slot = "default" /\ proposed[c].collector = c
    BY <2>1
  <2>3. TypeOK' /\ Commands' /\ Known'
    BY <2>1, <2>2
  <2>4. Fresh' /\ Placed'
    BY <2>1, <2>2
  <2>5. Prepared'
    BY <2>1, <2>2
  <2>6. Owned'
    BY <2>1, <2>2
  <2> QED BY <2>3, <2>4, <2>5, <2>6
<1>9. ASSUME NEW c \in Calls, Enroll(c) PROVE IInv'
  BY <1>9 DEF Enroll, Active, Presented, Staged, Own
<1>10. ASSUME NEW c \in Calls, Record(c) PROVE IInv'
  BY <1>10 DEF Record, Due
<1>11. ASSUME NEW c \in Calls, Replace(c) PROVE IInv'
  <2>1. /\ pc[c] = "replacing" /\ pc' = [pc EXCEPT ![c] = "done"]
        /\ pin' = proposed[c] /\ pins' = pins \cup {proposed[c]}
        /\ UNCHANGED <<kind, secret, collector, transitions, loaded, proposed, bundle, clash>>
    BY <1>11 DEF Replace
  <2>2. proposed[c] \in Pins
    BY <2>1
  <2>3. TypeOK' /\ Commands' /\ Known'
    BY <2>1, <2>2
  <2>4. Fresh'
    <3>1. proposed[c].collector \in Calls
      BY <2>2
    <3>2. proposed[c].collector = c \/ pc[proposed[c].collector] \notin Before
      BY <2>1
    <3>3. pc'[proposed[c].collector] \notin Before
      BY <2>1, <3>1, <3>2
    <3> QED BY <2>1, <2>2, <3>3
  <2>5. Placed'
    <3>1. proposed[c].slot = "default" \/ Apart(proposed[c])
      BY <2>1
    <3> QED BY <2>1, <3>1
  <2>6. Prepared'
    BY <2>1, <2>2
  <2>7. Owned'
    BY <2>1, <2>2
  <2> QED BY <2>3, <2>4, <2>5, <2>6, <2>7
<1>12. ASSUME NEW c \in Calls, UndoRefresh(c) PROVE IInv'
  <2>1. /\ pc[c] \in Making \cup Replacing /\ pc' = [pc EXCEPT ![c] = "failed"]
        /\ secret' = [secret EXCEPT ![c] = "none"] /\ collector' = [collector EXCEPT ![c] = "none"]
        /\ UNCHANGED <<kind, pin, transitions, loaded, proposed, bundle, pins, clash>>
        /\ kind[c] = "refresh"
    BY <1>12 DEF UndoRefresh, Undone
  <2>2. TypeOK' /\ Commands' /\ Known' /\ Fresh'
    BY <2>1
  <2>3. Placed'
    BY <2>1
  <2>4. Prepared'
    BY <2>1
  <2>5. /\ \A p \in pins : p.slot # c
        /\ \A d \in Calls \ {c} : pc[d] \in {"writing", "recording", "replacing"}
                                     => proposed[d].slot # c
    BY <2>1, FilesApart
  <2>6. Owned'
    BY <2>1, <2>5
  <2> QED BY <2>2, <2>3, <2>4, <2>6
<1>13. ASSUME NEW c \in Calls, NEW s \in Slots, Collect(c, s) PROVE IInv'
  BY <1>13 DEF Collect
<1>14. ASSUME NEW c \in Calls, Verify(c) PROVE IInv'
  BY <1>14 DEF Verify
<1>15. ASSUME NEW c \in Calls, Refuse(c) \/ Crash(c) PROVE IInv'
  BY <1>15 DEF Refuse, Crash
<1>16. ASSUME UNCHANGED vars PROVE IInv'
  BY <1>16 DEF vars
<1> QED
  BY <1>1, <1>2, <1>3, <1>4, <1>5, <1>6, <1>7, <1>8, <1>9, <1>10, <1>11, <1>12, <1>13, <1>14,
     <1>15, <1>16 DEF Next, Step

\* The inductive invariant holds in every reachable state.
LEMMA EvidenceInvariant == Spec => []IInv
  BY InitIInv, NextIInv, PTL DEF Spec

(***************************************************************************)
(* Every file, deployment and bundle is one the calls can have made; in    *)
(* particular a deployment always pins a secret that some call has made.   *)
(***************************************************************************)
THEOREM EvidenceTypeCorrect == Spec => []TypeOK
<1>1. IInv => TypeOK
  BY DEF IInv
<1> QED BY <1>1, EvidenceInvariant, PTL

(***************************************************************************)
(* Until first starts overwrite each other's files, the credentials of     *)
(* every collector that was ever pinned stay what they were.               *)
(***************************************************************************)
THEOREM PinnedCredentialsStand == Spec => []PinsStand
<1>1. IInv => PinsStand
  BY DEF IInv, Owned, PinsStand
<1> QED BY <1>1, EvidenceInvariant, PTL

-----------------------------------------------------------------------------
(* Refinement *)

\* The variables of CollectorPin, as ImplementsPin maps them.
pinned == <<pin.collector, pin.digest>>
ever == {p.collector : p \in pins}
asked == [c \in Calls |-> IF pc[c] \in Asking THEN identityOf[c] ELSE nobody]
heard == [c \in Calls |-> IF pc[c] = "accepted" THEN <<bundle[c].collector, bundle[c].key>>
                          ELSE nobody]
order == IF clash = "no" THEN "kept" ELSE "lost"
pvars == <<pinned, ever, transitions, asked, heard, order>>

\* Every step of a request is a step of the abstract pin or a stutter.
LEMMA PinNextStep ==
  ASSUME IInv, NEW c \in Calls, Step(c) PROVE [Abstract!PinNext]_pvars
<1> USE EvidenceAssumption
<1> USE DEF IInv, Known, Goto, files, Asking, Gathering, Ended, pvars, pinned, ever, asked, heard,
        order, identityOf, nobody
<1> DEFINE Kept == UNCHANGED <<pin, pins, transitions>>
<1>0. /\ pc \in [Calls -> Phases] /\ loaded \in [Calls -> Pins \cup {Unpinned}]
      /\ bundle \in [Calls -> Bundles \cup {NoBundle}] /\ clash \in {"no", "yes"}
      /\ pins \subseteq Pins
  BY DEF TypeOK
\* Steps that leave the deployment alone and end c's asking.
<1>1. ASSUME Kept, clash' = clash, pc' = [pc EXCEPT ![c] = pc'[c]], pc[c] # "accepted",
             pc'[c] \notin Asking, \A d \in Calls \ {c} : loaded'[d] = loaded[d]
                                                       /\ bundle'[d] = bundle[d]
      PROVE  Abstract!GiveUp(c)
  <2>1. asked' = [asked EXCEPT ![c] = nobody]
    BY <1>0, <1>1
  <2>2. heard' = heard
    BY <1>0, <1>1
  <2> QED BY <1>1, <2>1, <2>2 DEF Abstract!GiveUp, Abstract!Nobody
\* Steps by which c begins to ask the collector that is pinned.
<1>2. ASSUME Kept, clash' = clash, pc' = [pc EXCEPT ![c] = pc'[c]], pc[c] \notin Asking,
             pc'[c] \in Gathering, loaded' = [loaded EXCEPT ![c] = pin], pin \in pins,
             \A d \in Calls \ {c} : bundle'[d] = bundle[d]
      PROVE  Abstract!Ask(c)
  <2>1. asked' = [asked EXCEPT ![c] = pinned]
    BY <1>0, <1>2
  <2>2. heard' = heard
    BY <1>0, <1>2
  <2>3. pinned # nobody
    BY <1>0, <1>2 DEF Pins
  <2> QED BY <1>2, <2>1, <2>2, <2>3 DEF Abstract!Ask, Abstract!Nobody
<1>3. CASE Look(c)
  <2>1. CASE pc'[c] \in Gathering
    <3>1. Kept /\ clash' = clash /\ pc' = [pc EXCEPT ![c] = pc'[c]] /\ pc[c] = "begin"
          /\ loaded' = [loaded EXCEPT ![c] = pin]
      BY <1>0, <1>3 DEF Look
    <3>2. pin \in pins
      BY <1>3, <2>1, <1>0 DEF Look
    <3>3. \A d \in Calls \ {c} : bundle'[d] = bundle[d]
      BY <1>0, <1>3 DEF Look
    <3> QED BY <1>2, <2>1, <3>1, <3>2, <3>3 DEF Abstract!PinNext
  <2>2. CASE pc'[c] \notin Gathering
    BY <1>0, <1>1, <1>3, <2>2 DEF Look, Making
  <2> QED BY <2>1, <2>2 DEF Abstract!PinNext
<1>4. CASE Ensure(c)
  <2>1. CASE pc'[c] = "collecting"
    <3>1. Kept /\ clash' = clash /\ pc' = [pc EXCEPT ![c] = "collecting"] /\ pc[c] = "ensuring"
          /\ pin.slot = loaded[c].slot /\ loaded' = [loaded EXCEPT ![c] = pin] /\ bundle' = bundle
      BY <1>0, <1>4, <2>1 DEF Ensure
    <3>2. pin \in pins
      BY <3>1, <1>0, EvidenceAssumption DEF Pins, Unpinned, Slots
    <3>3. pc' = [pc EXCEPT ![c] = pc'[c]]
      BY <1>0, <3>1
    <3> QED BY <1>2, <2>1, <3>1, <3>2, <3>3 DEF Abstract!PinNext
  <2>2. CASE pc'[c] # "collecting"
    BY <1>0, <1>1, <1>4, <2>2 DEF Ensure
  <2> QED BY <2>1, <2>2 DEF Abstract!PinNext
<1>5. CASE CheckFiles(c) \/ StateFails(c) \/ Configure(c) \/ Enroll(c) \/ UndoRefresh(c)
           \/ Refuse(c) \/ Crash(c)
  BY <1>0, <1>1, <1>5
  DEF CheckFiles, StateFails, Configure, Enroll, UndoRefresh, Refuse, Crash, Abstract!PinNext,
      Making, Replacing, Undone
<1>6. CASE WriteSecret(c) \/ WriteState(c)
  <2>1. asked' = asked /\ heard' = heard /\ Kept
    BY <1>0, <1>6 DEF WriteSecret, WriteState
  <2>2. clash' \in {clash, "yes"}
    BY <1>6 DEF WriteSecret, WriteState, Overwrites
  <2> QED BY <1>0, <2>1, <2>2 DEF Abstract!PinNext, Abstract!Disorder
<1>7. CASE Pin(c)
  <2>1. /\ proposed[c] \in Pins /\ proposed[c].collector = c
        /\ pin' = proposed[c] /\ pins' = pins \cup {proposed[c]}
        /\ loaded' = [loaded EXCEPT ![c] = proposed[c]]
        /\ UNCHANGED <<transitions, bundle>>
        /\ pc[c] = "writing" /\ pc' = [pc EXCEPT ![c] = "collecting"]
    BY <1>7 DEF Pin, Prepared
  <2>2. pinned' = <<c, proposed[c].digest>> /\ proposed[c].digest \in Calls
    BY <2>1 DEF Pins
  <2>3. ever' = ever \cup {c}
    BY <2>1
  <2>4. asked' = [asked EXCEPT ![c] = pinned'] /\ heard' = heard
    BY <1>0, <2>1
  <2>5. /\ pinned = nobody \/ order' = "lost"
        /\ order' \in {order, "lost"}
    BY <1>0, <1>7 DEF Pin, Overwrites, Unpinned, Pins
  <2> QED BY <2>1, <2>2, <2>3, <2>4, <2>5 DEF Abstract!PinNext, Abstract!Enroll, Abstract!Nobody
<1>8. CASE Record(c)
  <2>1. asked' = asked /\ heard' = heard
    BY <1>0, <1>8 DEF Record
  <2>2. loaded[c].collector \in ever /\ loaded[c].collector \in Calls
    BY <1>0, <1>8 DEF Record, Replacing, Pins
  <2>3. proposed[c].collector \in Calls
    BY <1>8 DEF Record, Prepared, Pins
  <2> QED BY <1>8, <2>1, <2>2, <2>3 DEF Record, Due, Abstract!PinNext, Abstract!Authorize
<1>9. CASE Replace(c)
  <2>1. PICK n \in Calls, k \in Calls : n = proposed[c].collector /\ k = proposed[c].digest
    BY <1>9 DEF Replace, Prepared, Pins
  <2>2. UNCHANGED <<transitions, asked, heard, order>>
    BY <1>0, <1>9 DEF Replace
  <2>3. \E p \in ever : <<p, n>> \in transitions
    BY <1>9, <2>1 DEF Replace, Replacing, Prepared
  <2>4. pinned' = <<n, k>> /\ ever' = ever \cup {n}
    BY <1>9, <2>1 DEF Replace
  <2>5. Abstract!Rotate(n, k)
    BY <2>2, <2>3, <2>4 DEF Abstract!Rotate
  <2> QED BY <2>5 DEF Abstract!PinNext
<1>10. ASSUME NEW s \in Slots, Collect(c, s) PROVE UNCHANGED pvars
  BY <1>0, <1>10 DEF Collect
<1>11. CASE Verify(c)
  <2>1. CASE Authentic(c)
    <3>1. asked' = asked /\ Kept /\ clash' = clash
      BY <1>0, <1>11, <2>1 DEF Verify
    <3>2. heard' = [heard EXCEPT ![c] = asked[c]]
      BY <1>0, <1>11, <2>1 DEF Verify, Authentic
    <3>3. asked[c] # nobody /\ heard[c] = nobody
      BY <1>0, <1>11 DEF Verify, Pins
    <3> QED BY <3>1, <3>2, <3>3 DEF Abstract!PinNext, Abstract!Accept, Abstract!Nobody
  <2>2. CASE ~Authentic(c)
    BY <1>0, <1>1, <1>11, <2>2 DEF Verify, Abstract!PinNext
  <2> QED BY <2>1, <2>2
<1> QED
  BY <1>3, <1>4, <1>5, <1>6, <1>7, <1>8, <1>9, <1>10, <1>11 DEF Step

(***************************************************************************)
(* The calls implement CollectorPin: one first enrollment, a replacement   *)
(* only after its record, evidence only from what was pinned.              *)
(***************************************************************************)
THEOREM PinImplemented == Spec => ImplementsPin
<1>1. Init => Abstract!PinInit
  BY DEF Init, Abstract!PinInit, Abstract!Nobody, Unpinned, nobody, Asking, Gathering
<1>2. IInv /\ [Next]_vars => [Abstract!PinNext]_pvars
  <2>1. ASSUME IInv, Next PROVE [Abstract!PinNext]_pvars
    BY <2>1, PinNextStep DEF Next
  <2>2. ASSUME UNCHANGED vars PROVE UNCHANGED pvars
    BY <2>2 DEF vars, files, pvars, pinned, ever, asked, heard, order, identityOf
  <2> QED BY <2>1, <2>2
<1> QED
  BY <1>1, <1>2, EvidenceInvariant, PTL
  DEF Spec, ImplementsPin, Abstract!PinSpec, pvars, pinned, ever, asked, heard, order
=============================================================================

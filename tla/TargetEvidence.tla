--------------------------- MODULE TargetEvidence ---------------------------
(***************************************************************************)
(* The pinned collector of a target and the evidence it signs, local mode: *)
(* src/rolo/stages/adapt/target_evidence.py and its callers in             *)
(* src/rolo/commands/target_evidence.py and stages/adapt/journey.py.       *)
(*                                                                         *)
(* A deployment file pins one collector: its identity, the digest of its   *)
(* secret and the files that hold both.  The first Adapt start makes the   *)
(* collector and pins it; a refresh makes another one in files of its own, *)
(* records the transition and replaces the pin.  A rotation only makes the *)
(* collector; a re-enrollment pins it, or one that was pinned before.      *)
(* Each file is written on its own, no lock is held, and a call may die    *)
(* between any two writes.                                                 *)
(*                                                                         *)
(* Evidence is signed by the collector whose state file the call reads,    *)
(* and verified against the deployment the call has loaded.                *)
(*                                                                         *)
(* A collector and its secret are named by the call that makes them; its   *)
(* files by the call too, or "default" for those of a first start.         *)
(***************************************************************************)
EXTENDS Naturals, FiniteSets

CONSTANTS Calls  \* calls of the program

ASSUME EvidenceAssumption == "none" \notin Calls /\ "default" \notin Calls

VARIABLES kind,         \* kind[c]: the command
          pc,           \* pc[c]: where the call stands
          secret,       \* secret[s]: the secret in the key file of s
          collector,    \* collector[s]: the identity in the state file of s
          pin,          \* the deployment file
          transitions,  \* transition records: previous and new collector
          loaded,       \* loaded[c]: the deployment c has loaded
          proposed,     \* proposed[c]: the one c is about to write
          bundle,       \* bundle[c]: the evidence c has in hand
          pins,         \* history: every deployment there has been
          clash         \* whether a first start overwrote a file of another ("yes")

files == <<secret, collector>>
vars == <<kind, pc, files, pin, transitions, loaded, proposed, bundle, pins, clash>>

Kinds == {"start", "refresh", "rotate", "reenroll", "collect", "adopt"}
Slots == Calls \cup {"default"}
Values == Calls \cup {"none"}
Pins == [slot : Slots, collector : Calls, digest : Calls]
Unpinned == [slot |-> "none", collector |-> "none", digest |-> "none"]
Bundles == [collector : Calls, key : Calls, request : Calls]
NoBundle == [collector |-> "none", key |-> "none", request |-> "none"]

Making == {"minting", "stating"}
Replacing == {"enrolling", "recording", "replacing"}
Gathering == {"collecting", "verifying"}
Ended == {"accepted", "done", "failed", "dead"}
Phases == {"begin", "ensuring", "absent", "pinning", "writing"}
            \cup Making \cup Replacing \cup Gathering \cup Ended

TypeOK == /\ kind \in [Calls -> Kinds]
          /\ pc \in [Calls -> Phases]
          /\ secret \in [Slots -> Values]
          /\ collector \in [Slots -> Values]
          /\ pin \in Pins \cup {Unpinned}
          /\ transitions \subseteq Calls \X Calls
          /\ loaded \in [Calls -> Pins \cup {Unpinned}]
          /\ proposed \in [Calls -> Pins \cup {Unpinned}]
          /\ bundle \in [Calls -> Bundles \cup {NoBundle}]
          /\ pins \subseteq Pins
          /\ clash \in {"no", "yes"}

Init == /\ kind \in [Calls -> Kinds]
        /\ pc = [c \in Calls |-> "begin"]
        /\ secret = [s \in Slots |-> "none"] /\ collector = [s \in Slots |-> "none"]
        /\ pin = Unpinned
        /\ transitions = {}
        /\ loaded = [c \in Calls |-> Unpinned]
        /\ proposed = [c \in Calls |-> Unpinned]
        /\ bundle = [c \in Calls |-> NoBundle]
        /\ pins = {}
        /\ clash = "no"

Goto(c, p) == pc' = [pc EXCEPT ![c] = p]

\* Files of its own for each refresh and rotation, the default ones for a start.
Slot(c) == IF kind[c] = "start" THEN "default" ELSE c

\* load_collector_state finds the collector of p, with some secret ...
Active(p) == collector[p.slot] = p.collector /\ secret[p.slot] # "none"

\* ... and with the one that p pins.
Intact(p) == collector[p.slot] = p.collector /\ secret[p.slot] = p.digest

-----------------------------------------------------------------------------
(* The deployment is looked up *)

\* A first look: a start without a deployment makes one, others need one.
Look(c) ==
  /\ pc[c] = "begin"
  /\ loaded' = [loaded EXCEPT ![c] = pin]
  /\ \/ pin = Unpinned /\ Goto(c, IF kind[c] = "start" THEN "absent" ELSE "failed")
     \/ /\ pin # Unpinned
        /\ \/ kind[c] = "start" /\ Goto(c, "ensuring")
           \/ kind[c] = "refresh" /\ Goto(c, "minting")
           \/ kind[c] = "rotate" /\ Goto(c, IF Active(pin) THEN "minting" ELSE "failed")
           \/ kind[c] = "reenroll" /\ Goto(c, "enrolling")
           \/ kind[c] = "collect" /\ Goto(c, "collecting")
     \/ kind[c] = "adopt" /\ pin # Unpinned /\ Goto(c, "verifying")
  /\ \/ kind[c] # "adopt" /\ UNCHANGED bundle
     \/ kind[c] = "adopt" /\ \E d \in Calls : bundle' = [bundle EXCEPT ![c] = bundle[d]]
  /\ UNCHANGED <<kind, files, pin, transitions, proposed, pins, clash>>

\* The files the deployment names hold what it pins: it is loaded once more.
Ensure(c) ==
  /\ pc[c] = "ensuring"
  /\ \/ /\ pin.slot = loaded[c].slot /\ Intact(pin)
        /\ Goto(c, "collecting")
        /\ loaded' = [loaded EXCEPT ![c] = pin]
     \/ /\ ~(pin.slot = loaded[c].slot /\ Intact(pin))
        /\ Goto(c, "failed") /\ UNCHANGED loaded
  /\ UNCHANGED <<kind, files, pin, transitions, proposed, bundle, pins, clash>>

\* An enrollment that was left half-way needs explicit recovery.
CheckFiles(c) ==
  /\ pc[c] = "absent"
  /\ Goto(c, IF secret["default"] = "none" /\ collector["default"] = "none" THEN "minting"
             ELSE "failed")
  /\ UNCHANGED <<kind, files, pin, transitions, loaded, proposed, bundle, pins, clash>>

-----------------------------------------------------------------------------
(* A collector is made *)

Overwrites(file) == clash' = IF file = "none" THEN clash ELSE "yes"

WriteSecret(c) == /\ pc[c] = "minting"
                  /\ Goto(c, "stating")
                  /\ secret' = [secret EXCEPT ![Slot(c)] = c]
                  /\ Overwrites(secret[Slot(c)])
                  /\ UNCHANGED <<kind, collector, pin, transitions, loaded, proposed, bundle, pins>>

WriteState(c) == /\ pc[c] = "stating"
                 /\ \/ kind[c] = "start" /\ Goto(c, "pinning")
                    \/ kind[c] = "refresh" /\ Goto(c, "enrolling")
                    \/ kind[c] = "rotate" /\ Goto(c, "done")
                 /\ collector' = [collector EXCEPT ![Slot(c)] = c]
                 /\ Overwrites(collector[Slot(c)])
                 /\ UNCHANGED <<kind, secret, pin, transitions, loaded, proposed, bundle, pins>>

\* The state cannot be written: the secret goes again.
StateFails(c) == /\ pc[c] = "stating"
                 /\ Goto(c, "failed")
                 /\ secret' = [secret EXCEPT ![Slot(c)] = "none"]
                 /\ UNCHANGED <<kind, collector, pin, transitions, loaded, proposed, bundle, pins, clash>>

-----------------------------------------------------------------------------
(* ... and pinned, for the first time *)

Configurable(c) == collector["default"] = c /\ secret["default"] # "none"

Configure(c) ==
  /\ pc[c] = "pinning" /\ pin = Unpinned /\ Configurable(c)
  /\ Goto(c, "writing")
  /\ proposed' = [proposed EXCEPT ![c] = [slot |-> "default", collector |-> c,
                                          digest |-> secret["default"]]]
  /\ UNCHANGED <<kind, files, pin, transitions, loaded, bundle, pins, clash>>

Pin(c) == /\ pc[c] = "writing"
          /\ Goto(c, "collecting")
          /\ pin' = proposed[c] /\ loaded' = [loaded EXCEPT ![c] = proposed[c]]
          /\ pins' = pins \cup {pin'}
          /\ Overwrites(pin.collector)
          /\ UNCHANGED <<kind, files, transitions, proposed, bundle>>

-----------------------------------------------------------------------------
(* ... or in place of another one *)

\* Descriptors c can present: its own, or of a staged or an earlier collector.
Own(c) == [slot |-> c, collector |-> c, digest |-> c]
Staged == {Own(d) : d \in {e \in Calls : kind[e] = "rotate" /\ pc[e] = "done"}}
Presented(c) == IF kind[c] = "refresh" THEN {Own(c)} ELSE Staged \cup pins

(***************************************************************************)
(* The deployment is loaded again, and must pin what the operator expects. *)
(* Another collector or other credentials must replace it.                 *)
(***************************************************************************)
Enroll(c) ==
  /\ pc[c] = "enrolling" /\ pin.collector = loaded[c].collector
  /\ \E p \in Presented(c) :
       /\ Active(p)
       /\ proposed' = [proposed EXCEPT ![c] = [p EXCEPT !.digest = secret[p.slot]]]
       /\ proposed'[c] # pin
  /\ Goto(c, "recording")
  /\ UNCHANGED <<kind, files, pin, transitions, loaded, bundle, pins, clash>>

\* A slip: the deployment is replaced without a record.
Due_Unrecorded(c) == {}
Due(c) == {<<loaded[c].collector, proposed[c].collector>>}

Record(c) == /\ pc[c] = "recording"
             /\ Goto(c, "replacing")
             /\ transitions' = transitions \cup Due(c)
             /\ UNCHANGED <<kind, files, pin, loaded, proposed, bundle, pins, clash>>

Replace(c) == /\ pc[c] = "replacing"
              /\ Goto(c, "done")
              /\ pin' = proposed[c]
              /\ pins' = pins \cup {pin'}
              /\ UNCHANGED <<kind, files, transitions, loaded, proposed, bundle, clash>>

\* A slip: an exception after the replacement discards what is pinned now.
Undone_Late == Making \cup Replacing \cup {"done"}
Undone == Making \cup Replacing

\* Whatever goes wrong in a refresh, it takes the files it has staged away again.
UndoRefresh(c) ==
  /\ kind[c] = "refresh" /\ pc[c] \in Undone
  /\ Goto(c, "failed")
  /\ secret' = [secret EXCEPT ![c] = "none"] /\ collector' = [collector EXCEPT ![c] = "none"]
  /\ UNCHANGED <<kind, pin, transitions, loaded, proposed, bundle, pins, clash>>

-----------------------------------------------------------------------------
(* Evidence *)

\* collect --collector-state may name another collector's state file.
Collect(c, s) ==
  /\ pc[c] = "collecting"
  /\ s = loaded[c].slot \/ kind[c] = "collect"
  /\ collector[s] # "none" /\ secret[s] # "none"
  /\ Goto(c, "verifying")
  /\ bundle' = [bundle EXCEPT ![c] = [collector |-> collector[s], key |-> secret[s],
                                      request |-> c]]
  /\ UNCHANGED <<kind, files, pin, transitions, loaded, proposed, pins, clash>>

(***************************************************************************)
(* verify_evidence_bundle: a stored bundle has no request to answer.       *)
(***************************************************************************)
Authentic(c) == /\ bundle[c] # NoBundle
                /\ bundle[c].collector = loaded[c].collector
                /\ kind[c] # "adopt" => bundle[c].request = c
                /\ secret[loaded[c].slot] = loaded[c].digest
                /\ bundle[c].key = loaded[c].digest

Verify(c) == /\ pc[c] = "verifying"
             /\ Goto(c, IF Authentic(c) THEN "accepted" ELSE "failed")
             /\ UNCHANGED <<kind, files, pin, transitions, loaded, proposed, bundle, pins, clash>>

(***************************************************************************)
(* Changed allowlists or setup files, another pin than expected, files     *)
(* that do not fit together, an unreadable or unwritable file, stale       *)
(* evidence: what was written stays for an explicit recovery.              *)
(***************************************************************************)
Refuse(c) == /\ pc[c] \notin Ended \cup {"stating"}
             /\ kind[c] # "refresh" \/ pc[c] \notin Undone
             /\ Goto(c, "failed")
             /\ UNCHANGED <<kind, files, pin, transitions, loaded, proposed, bundle, pins, clash>>

Crash(c) == /\ pc[c] \notin Ended
            /\ Goto(c, "dead")
            /\ UNCHANGED <<kind, files, pin, transitions, loaded, proposed, bundle, pins, clash>>

-----------------------------------------------------------------------------
Step(c) == \/ Look(c) \/ Ensure(c) \/ CheckFiles(c) \/ WriteSecret(c) \/ WriteState(c)
           \/ StateFails(c) \/ Configure(c) \/ Pin(c) \/ Enroll(c) \/ Record(c) \/ Replace(c)
           \/ UndoRefresh(c) \/ (\E s \in Slots : Collect(c, s)) \/ Verify(c) \/ Refuse(c)
           \/ Crash(c)

Next == \E c \in Calls : Step(c)

Spec == Init /\ [][Next]_vars

-----------------------------------------------------------------------------
(* Properties *)

(***************************************************************************)
(* No first start has overwritten a file of another one: each looks for    *)
(* the files before it writes them, but nothing keeps two of them from     *)
(* looking first.                                                          *)
(***************************************************************************)
Orderly == clash = "no"

(***************************************************************************)
(* The credentials of a collector that was ever pinned stay what they were *)
(* when it was, whichever refreshes and rotations race, fail or die: the   *)
(* deployment can always be used, and so can the one a call under way has  *)
(* loaded.                                                                 *)
(***************************************************************************)
PinsStand == Orderly => \A p \in pins : Intact(p)

(***************************************************************************)
(* "Explicitly replace a pinned deployment and preserve an immutable       *)
(* transition record", and accept evidence of the pinned collector only:   *)
(* the calls implement CollectorPin.                                       *)
(***************************************************************************)
identityOf == [c \in Calls |-> <<loaded[c].collector, loaded[c].digest>>]
nobody == <<"none", "none">>
Asking == Gathering \cup {"accepted"}
Abstract == INSTANCE CollectorPin WITH
  pinned <- <<pin.collector, pin.digest>>,
  ever <- {p.collector : p \in pins},
  records <- transitions,
  asked <- [c \in Calls |-> IF pc[c] \in Asking THEN identityOf[c] ELSE nobody],
  heard <- [c \in Calls |-> IF pc[c] = "accepted" THEN <<bundle[c].collector, bundle[c].key>>
                            ELSE nobody],
  order <- IF clash = "no" THEN "kept" ELSE "lost"
ImplementsPin == Abstract!PinSpec
=============================================================================

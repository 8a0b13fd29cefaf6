----------------------------- MODULE AgentAdvice -----------------------------
(***************************************************************************)
(* What the discovery agents are allowed to be: advisers.  Evidence is     *)
(* collected first; opinions are given as one whole about the evidence     *)
(* that stands then; at the end either all of those that survive           *)
(* deterministic validation, and concern candidates that asked for review, *)
(* become decisions, or none does.                                         *)
(*                                                                         *)
(* "Raw Agent output never mutates eligibility" (src/rolo/stages/adapt/    *)
(* proposal_orchestration.py, apply_validated_semantic_dispositions).      *)
(* HeuristicDiscovery implements this specification.                       *)
(***************************************************************************)
CONSTANTS Operations,  \* operations of the target slice
          Probes       \* definitions of read-only probes

VARIABLES review,      \* candidates that require semantic review
          evidence,    \* probes whose results the evidence holds
          basis,       \* the evidence the opinions are about
          opinion,     \* opinion[o]: the agent's proposal, as validation sees it
          decision,    \* decision[o]: what is applied to o's candidate
          standing     \* "open" until the advice is concluded

Valid == {"ACCEPT", "DEFER", "REJECT"}
Opinions == Valid \cup {"none", "INVALID"}
NoOpinion == [o \in Operations |-> "none"]

AdviceInit == /\ review \in SUBSET Operations
              /\ evidence = {}
              /\ basis = {}
              /\ opinion = NoOpinion
              /\ decision = NoOpinion
              /\ standing = "open"

\* A probe's result is frozen; never after the agent has been heard.
Observe == /\ standing = "open" /\ opinion = NoOpinion
           /\ \E P \in SUBSET Probes : evidence' = evidence \cup P
           /\ UNCHANGED <<review, basis, opinion, decision, standing>>

Advise == /\ standing = "open"
          /\ opinion' \in [Operations -> Opinions]
          /\ basis' = evidence
          /\ UNCHANGED <<review, evidence, decision, standing>>

\* Everything valid is applied, to the candidates under review, or nothing is.
Conclude ==
  /\ standing = "open"
  /\ standing' = "closed"
  /\ \/ decision' = NoOpinion
     \/ /\ basis = evidence
        /\ decision' = [o \in Operations |-> IF o \in review /\ opinion[o] \in Valid
                                             THEN opinion[o] ELSE "none"]
  /\ UNCHANGED <<review, evidence, basis, opinion>>

AdviceNext == Observe \/ Advise \/ Conclude
AdviceSpec ==
  AdviceInit /\ [][AdviceNext]_<<review, evidence, basis, opinion, decision, standing>>
=============================================================================

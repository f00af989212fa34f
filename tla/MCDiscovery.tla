------------------------------ MODULE MCDiscovery ------------------------------
(* One flow candidate, read by the flow worker from an observe_only source and from   *)
(* another one, and by a backfill; and social confirmation of two tokens of a chain,  *)
(* which share a slot.                                                                *)
EXTENDS Discovery

CONSTANTS
    flowLive, backfill, socialConfirmation,
    observed, live, file, requests,
    inflow, inflow2, outflow, confirmA, unmatchedA, confirmB,
    Flow, SocialA, SocialB

MCCandidateOf ==
    [s \in Snapshots |->
       CASE s \in {confirmA, unmatchedA} -> SocialA [] s = confirmB -> SocialB [] OTHER -> Flow]

MCVerdict ==
    [s \in Snapshots |-> IF s \in {outflow, unmatchedA} THEN "OBSERVED" ELSE "QUALIFIED"]

MCAllQualified == [s \in Snapshots |-> "QUALIFIED"]

MCSlotOf == [c \in Candidates |-> IF c = Flow THEN Flow ELSE SocialA]

MCWorkerOf ==
    [src \in Sources |->
       CASE src = file -> backfill [] src = requests -> socialConfirmation [] OTHER -> flowLive]

MCFeed ==
    [src \in Sources |->
       CASE src = observed -> {inflow} [] src = live -> {outflow}
         [] src = file -> {inflow2} [] src = requests -> {confirmA, unmatchedA, confirmB}]
=============================================================================

---------------------------- MODULE MCNotifications ----------------------------
(* Two candidates: one announced by two events that are both wanted, one by an event below  *)
(* min_score and by a wanted one.                                                           *)
EXTENDS Notifications

CONSTANTS first, second, low, high, A, B

MCCandidateOf == [e \in Events |-> IF e \in {first, second} THEN A ELSE B]

MCTokenOf == [e \in Events |-> IF e \in {first, second} THEN "a" ELSE "b"]
=============================================================================

---------------------------- MODULE MCOrderPipeline ----------------------------
(* Two tokens; token A is bought and exited, token B is bought. *)
EXTENDS OrderPipeline

CONSTANTS buyA, exitA, buyB, A, B

MCIntents  == {buyA, exitA, buyB}
MCTokenOf  == [i \in MCIntents |-> IF i = buyB THEN B ELSE A]
MCActionOf == [i \in MCIntents |-> IF i = exitA THEN "EXIT" ELSE "BUY"]
=============================================================================

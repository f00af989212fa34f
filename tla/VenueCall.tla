------------------------------- MODULE VenueCall -------------------------------
(***************************************************************************)
(* What the pipeline worker takes for granted about adapter.prepare and    *)
(* adapter.execute (_dispatch_execution of core/pipeline.py): a call is    *)
(* one attempt, it ends in a report or an exception, a report that is not  *)
(* FAILED has an order behind it, an exception leaves none or one, and no  *)
(* call leaves two.                                                        *)
(*                                                                         *)
(* VenueAnswers and VenueRaises of OrderPipeline are the ends of such a    *)
(* call; Adapters, which carries it out, implements this specification.    *)
(***************************************************************************)
EXTENDS Integers

VARIABLES
    calls,      \* calls begun
    inCall,     \* a call is under way
    fills       \* orders the ended calls have left with the venue

vars == <<calls, inCall, fills>>

Init ==
    /\ calls = 0
    /\ inCall = FALSE
    /\ fills = 0

\* The adapter is called.
Call ==
    /\ ~inCall
    /\ calls' = calls + 1
    /\ inCall' = TRUE
    /\ UNCHANGED fills

\* It returns a report of an order that traded, in full or in part.
Trades ==
    /\ inCall
    /\ inCall' = FALSE
    /\ fills' = fills + 1
    /\ UNCHANGED calls

\* It returns a FAILED report, raises, or dies with its process.
Fails ==
    /\ inCall
    /\ inCall' = FALSE
    /\ fills' \in {fills, fills + 1}
    /\ UNCHANGED calls

Next == Call \/ Trades \/ Fails

Spec == Init /\ [][Next]_vars

\* The venue holds at most one order for each call that was made.
OneOrderPerCall == fills <= calls /\ (inCall => fills < calls)
================================================================================

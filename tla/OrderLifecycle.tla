----------------------------- MODULE OrderLifecycle -----------------------------
(***************************************************************************)
(* What the pipeline worker promises about one row of the orders table,    *)
(* whatever crashes, retries and redeliveries do to the worker: which      *)
(* status may follow which, that an attempt is counted before it is made   *)
(* and is never made twice, and that REJECTED and RECONCILED are final.    *)
(*                                                                         *)
(* This is the abstract specification OrderPipeline implements.  A status  *)
(* that is not terminal is an invitation to try again: FAILED and          *)
(* PARTIAL_FILL belong to those, as in TERMINAL_ORDER_STATUSES.            *)
(***************************************************************************)
EXTENDS Integers

CONSTANTS
    Intents,        \* the intent ids the router can derive
    MaxRetries      \* settings.execution.max_retries

VARIABLES
    orderStatus,    \* status column, "NONE" while there is no row
    attempts        \* execution_attempts column

vars == <<orderStatus, attempts>>

TerminalStatuses == {"FILLED", "RECONCILED", "REJECTED"}
AnswerStatuses   == {"FILLED", "PARTIAL_FILL", "FAILED"}
MaxAttempts      == MaxRetries + 1

Init ==
    /\ orderStatus = [i \in Intents |-> "NONE"]
    /\ attempts = [i \in Intents |-> 0]

\* The order is recorded, before anything is sent.
Submit(i) ==
    /\ orderStatus[i] = "NONE"
    /\ orderStatus' = [orderStatus EXCEPT ![i] = "SUBMITTED"]
    /\ UNCHANGED attempts

\* An attempt is spent.
Try(i) ==
    /\ orderStatus[i] \notin TerminalStatuses \cup {"NONE"}
    /\ attempts[i] < MaxAttempts
    /\ attempts' = [attempts EXCEPT ![i] = @ + 1]
    /\ UNCHANGED orderStatus

\* The venue answered an attempt.
Answer(i, status) ==
    /\ orderStatus[i] \notin TerminalStatuses \cup {"NONE"}
    /\ attempts[i] > 0
    /\ orderStatus' = [orderStatus EXCEPT ![i] = status]
    /\ UNCHANGED attempts

\* The venue raised: retry, or reject when the attempts are used up.
Fail(i) ==
    /\ orderStatus[i] \notin TerminalStatuses \cup {"NONE"}
    /\ attempts[i] > 0
    /\ orderStatus' = [orderStatus EXCEPT ![i] =
                         IF attempts[i] >= MaxAttempts THEN "REJECTED" ELSE "RETRY"]
    /\ UNCHANGED attempts

\* The risk engine refuses the intent.
Refuse(i) ==
    /\ orderStatus[i] \notin TerminalStatuses
    /\ orderStatus' = [orderStatus EXCEPT ![i] = "REJECTED"]
    /\ UNCHANGED attempts

\* Recovery has booked an answered order.
Reconcile(i) ==
    /\ orderStatus[i] \in AnswerStatuses
    /\ orderStatus' = [orderStatus EXCEPT ![i] = "RECONCILED"]
    /\ UNCHANGED attempts

Next ==
    \E i \in Intents :
        \/ Submit(i)
        \/ Try(i)
        \/ \E status \in AnswerStatuses : Answer(i, status)
        \/ Fail(i)
        \/ Refuse(i)
        \/ Reconcile(i)

Spec == Init /\ [][Next]_vars
=============================================================================

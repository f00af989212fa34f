----------------------------- MODULE OrderPipeline -----------------------------
(***************************************************************************)
(* The pipeline worker from a routed intent to a booked one:               *)
(* PipelineWorker of core/pipeline.py over the repositories of             *)
(* infra/repository.py.                                                    *)
(*                                                                         *)
(* Every repository call commits a transaction of its own, so the worker   *)
(* is a sequence of steps (pc), one per commit or venue call, and it may   *)
(* die between any two of them.  A restart runs the start-up recovery      *)
(* before the first poll.  A batch of stream messages is named by the      *)
(* intent the router derives from it: intent ids are a hash of the batch's *)
(* chain, token, timestamp, state, venue and action, so a batch delivered  *)
(* again, from a dead-letter replay or from its source, derives the same   *)
(* intent.  A batch that routes to no intent writes back the position and  *)
(* portfolio it has just read and is left out.                             *)
(***************************************************************************)
EXTENDS Portfolio, FiniteSetsExt, FiniteSets

CONSTANTS
    Intents,            \* intent ids
    Tokens,
    TokenOf,            \* the token an intent trades
    ActionOf,           \* "BUY" or "EXIT"
    NoIntent,           \* no intent in hand
    MaxRetries,         \* settings.execution.max_retries
    MaxBatches,         \* bound: batches delivered in all
    MaxCrashes,         \* bound: deaths of the worker process
    MaxStoreErrors      \* bound: exceptions raised by a repository or by Redis

ASSUME PipelineAssumption ==
    /\ TokenOf \in [Intents -> Tokens]
    /\ ActionOf \in [Intents -> Actions]
    /\ NoIntent \notin Intents
    /\ MaxRetries \in Nat
    /\ MaxBatches \in Nat
    /\ MaxCrashes \in Nat
    /\ MaxStoreErrors \in Nat

VARIABLES
    \* the database
    orderStatus,        \* orders.status, "NONE" while there is no row
    attempts,           \* orders.execution_attempts
    notional,           \* orders.adjusted_notional_usd
    ledger,             \* the statuses in execution_ledger that recovery asks for
    report,             \* the latest row of execution_reports
    positions,          \* positions, by token
    portfolio,          \* portfolio_state
    \* the worker process
    pc,                 \* the next step
    recovering,         \* the step belongs to recover_pending_executions
    cur,                \* the intent in hand
    todo,               \* recoverable intents not yet looked at
    sized,              \* risk.adjusted_notional_usd
    execution,          \* the execution report in hand
    memPosition,        \* self.position_state
    memPortfolio,       \* self.portfolio_snapshot
    \* outside
    fills,              \* orders the venue has accepted, by intent
    announced,          \* intents with a report on the executions stream
    deadLettered,       \* intents whose batch went to the dead-letter stream
    \* history and bounds
    applied,            \* times an execution was booked into the position row
    batches, crashes, storeErrors

database  == <<orderStatus, attempts, notional, ledger, report, positions, portfolio>>
worker    == <<pc, recovering, cur, todo, sized, execution, memPosition, memPortfolio>>
outside   == <<fills, announced, deadLettered>>
bounds    == <<batches, crashes, storeErrors>>
vars      == <<database, worker, outside, applied, bounds>>

MaxAttempts      == MaxRetries + 1
TerminalStatuses == {"FILLED", "RECONCILED", "REJECTED"}
AnswerStatuses   == {"FILLED", "PARTIAL_FILL", "FAILED"}
OrderStatuses    == {"NONE", "SUBMITTED", "RETRY"} \cup TerminalStatuses \cup AnswerStatuses
LedgerStatuses   == {"SUBMITTED", "REJECTED", "RECONCILED"}

Reports  == [status : AnswerStatuses, executed : Nat]
NoReport == [status |-> "NONE", executed |-> 0]

ProcessSteps ==
    {"record_order", "record_submission", "attempt", "dispatch", "dispatch_failed",
     "mark_answer", "save_report", "publish", "persist_ledger", "persist_order",
     "persist_position", "persist_portfolio"}
RecoverySteps ==
    {"recover_next", "attempt", "dispatch", "dispatch_failed", "mark_answer", "save_report",
     "recover_position", "recover_portfolio", "recover_order", "recover_ledger"}
Steps == {"down", "idle", "dead_letter"} \cup ProcessSteps \cup RecoverySteps

Init ==
    /\ orderStatus = [i \in Intents |-> "NONE"]
    /\ attempts = [i \in Intents |-> 0]
    /\ notional = [i \in Intents |-> 0]
    /\ ledger = [i \in Intents |-> {}]
    /\ report = [i \in Intents |-> NoReport]
    /\ positions = [t \in Tokens |-> NoPosition]
    /\ portfolio = EmptyPortfolio
    /\ pc = "down"
    /\ recovering = FALSE
    /\ cur = NoIntent
    /\ todo = {}
    /\ sized = 0
    /\ execution = NoReport
    /\ memPosition = NoPosition
    /\ memPortfolio = EmptyPortfolio
    /\ fills = [i \in Intents |-> 0]
    /\ announced = {}
    /\ deadLettered = {}
    /\ applied = [i \in Intents |-> 0]
    /\ batches = 0
    /\ crashes = 0
    /\ storeErrors = 0

-----------------------------------------------------------------------------
(* Moving the worker along. *)

\* To step l with the same intent in hand.
Goto(l) ==
    /\ pc' = l
    /\ UNCHANGED <<recovering, cur, todo, sized, execution, memPosition, memPortfolio>>

\* The intent is done with.  What stays in memory is loaded again before its next use.
Release(l) ==
    /\ pc' = l
    /\ cur' = NoIntent
    /\ sized' = 0
    /\ execution' = NoReport
    /\ memPosition' = NoPosition
    /\ memPortfolio' = EmptyPortfolio

\* load_position and load_portfolio for intent i.
Load(i) ==
    /\ cur' = i
    /\ memPosition' = positions[TokenOf[i]]
    /\ memPortfolio' = portfolio

\* reconcile_execution, in memory.
Reconcile(exec) ==
    /\ execution' = exec
    /\ memPosition' = ReconciledPosition(memPosition, ActionOf[cur], exec.executed)
    /\ memPortfolio' = ReconciledPortfolio(memPortfolio, ActionOf[cur], exec.executed)

-----------------------------------------------------------------------------
(* poll_once and process_events up to the decision. *)

\* The router derives an EXIT intent only for an open position.
Delivered(i) ==
    /\ pc = "idle"
    /\ batches < MaxBatches
    /\ ActionOf[i] = "EXIT" => positions[TokenOf[i]].open
    /\ batches' = batches + 1

\* An order in a terminal status is not touched again.
SkipDuplicate(i) ==
    /\ Delivered(i)
    /\ orderStatus[i] \in TerminalStatuses
    /\ UNCHANGED <<database, worker, outside, applied, crashes, storeErrors>>

AllowDuplicate(i) ==
    /\ Delivered(i)
    /\ RiskAllows(ActionOf[i], positions[TokenOf[i]], portfolio)
    /\ Load(i)
    /\ sized' = SizedNotional(ActionOf[i], portfolio)
    /\ pc' = "record_order"
    /\ UNCHANGED <<database, recovering, todo, execution, outside, applied, crashes, storeErrors>>

\* Every policy that reads position or portfolio holds; so do the others.
Allow(i) ==
    /\ Delivered(i)
    /\ orderStatus[i] \notin TerminalStatuses
    /\ RiskAllows(ActionOf[i], positions[TokenOf[i]], portfolio)
    /\ Load(i)
    /\ sized' = SizedNotional(ActionOf[i], portfolio)
    /\ pc' = "record_order"
    /\ UNCHANGED <<database, recovering, todo, execution, outside, applied, crashes, storeErrors>>

\* Some policy is violated: liquidity, kill switch, cooldown, balance and daily loss
\* are not modelled and may refuse any intent.  Nothing is executed.
Refuse(i) ==
    /\ Delivered(i)
    /\ orderStatus[i] \notin TerminalStatuses
    /\ Load(i)
    /\ pc' = "publish"
    /\ UNCHANGED <<database, recovering, todo, sized, execution, outside, applied, crashes,
                   storeErrors>>

-----------------------------------------------------------------------------
(* _record_submission *)

RecordOrderResettingAttempts ==
    /\ pc = "record_order"
    /\ orderStatus' = [orderStatus EXCEPT ![cur] = IF @ = "NONE" THEN "SUBMITTED" ELSE @]
    /\ notional' = [notional EXCEPT ![cur] = sized]
    /\ attempts' = [attempts EXCEPT ![cur] = 0]
    /\ Goto("record_submission")
    /\ UNCHANGED <<ledger, report, positions, portfolio, outside, applied, bounds>>

\* upsert_order keeps the status and the attempts of a row that exists.
RecordOrder ==
    /\ pc = "record_order"
    /\ orderStatus' = [orderStatus EXCEPT ![cur] = IF @ = "NONE" THEN "SUBMITTED" ELSE @]
    /\ notional' = [notional EXCEPT ![cur] = sized]
    /\ Goto("record_submission")
    /\ UNCHANGED <<attempts, ledger, report, positions, portfolio, outside, applied, bounds>>

RecordSubmissionNothing ==
    /\ pc = "record_submission"
    /\ Goto("attempt")
    /\ UNCHANGED <<database, outside, applied, bounds>>

RecordSubmission ==
    /\ pc = "record_submission"
    /\ ledger' = [ledger EXCEPT ![cur] = @ \cup {"SUBMITTED"}]
    /\ Goto("attempt")
    /\ UNCHANGED <<orderStatus, attempts, notional, report, positions, portfolio, outside, applied,
                   bounds>>

-----------------------------------------------------------------------------
(* _execute_intent *)

CountAttemptOnceTooOften ==
    /\ pc = "attempt"
    /\ attempts[cur] <= MaxAttempts
    /\ attempts' = [attempts EXCEPT ![cur] = @ + 1]
    /\ Goto("dispatch")
    /\ UNCHANGED <<orderStatus, notional, ledger, report, positions, portfolio, outside, applied,
                   bounds>>

\* increment_execution_attempts, before anything is sent.
CountAttempt ==
    /\ pc = "attempt"
    /\ attempts[cur] < MaxAttempts
    /\ attempts' = [attempts EXCEPT ![cur] = @ + 1]
    /\ Goto("dispatch")
    /\ UNCHANGED <<orderStatus, notional, ledger, report, positions, portfolio, outside, applied,
                   bounds>>

\* The loop ends without a report: recovery goes on with the next intent, while
\* process_events raises and its batch goes to the dead letters.
Exhausted ==
    /\ pc = "attempt"
    /\ attempts[cur] >= MaxAttempts
    /\ IF recovering
         THEN Release("recover_next") /\ UNCHANGED <<recovering, todo>>
         ELSE Goto("dead_letter")
    /\ UNCHANGED <<database, outside, applied, bounds>>

\* The adapter answers.  A FAILED order has not traded; the others have, up to the
\* requested notional (0 for an EXIT).
VenueAnswers ==
    /\ pc = "dispatch"
    /\ \E exec \in [status : {"FILLED", "PARTIAL_FILL"}, executed : 0 .. sized]
                     \cup {[status |-> "FAILED", executed |-> 0]} :
         /\ execution' = exec
         /\ fills' = [fills EXCEPT ![cur] = IF exec.status = "FAILED" THEN @ ELSE @ + 1]
    /\ pc' = "mark_answer"
    /\ UNCHANGED <<database, recovering, cur, todo, sized, memPosition, memPortfolio, announced,
                   deadLettered, applied, bounds>>

\* The adapter raises, before or after the venue accepted the order.
VenueRaises ==
    /\ pc = "dispatch"
    /\ \E accepted \in 0 .. 1 : fills' = [fills EXCEPT ![cur] = @ + accepted]
    /\ Goto("dispatch_failed")
    /\ UNCHANGED <<database, announced, deadLettered, applied, bounds>>

MarkFailureAlwaysRetry ==
    /\ pc = "dispatch_failed"
    /\ orderStatus' = [orderStatus EXCEPT ![cur] = "RETRY"]
    /\ Goto("attempt")
    /\ UNCHANGED <<attempts, notional, ledger, report, positions, portfolio, outside, applied,
                   bounds>>

\* Also appends RETRYABLE_ERROR to the ledger, a status nothing asks for.
MarkFailure ==
    /\ pc = "dispatch_failed"
    /\ orderStatus' = [orderStatus EXCEPT ![cur] =
                         IF attempts[cur] >= MaxAttempts THEN "REJECTED" ELSE "RETRY"]
    /\ Goto("attempt")
    /\ UNCHANGED <<attempts, notional, ledger, report, positions, portfolio, outside, applied,
                   bounds>>

MarkAnswer ==
    /\ pc = "mark_answer"
    /\ orderStatus' = [orderStatus EXCEPT ![cur] = execution.status]
    /\ Goto("save_report")
    /\ UNCHANGED <<attempts, notional, ledger, report, positions, portfolio, outside, applied,
                   bounds>>

\* _execute_intent returns, and its caller reconciles in memory.
SaveReport ==
    /\ pc = "save_report"
    /\ report' = [report EXCEPT ![cur] = execution]
    /\ Reconcile(execution)
    /\ pc' = IF recovering THEN "recover_position" ELSE "publish"
    /\ UNCHANGED <<orderStatus, attempts, notional, ledger, positions, portfolio, recovering, cur,
                   todo, sized, outside, applied, bounds>>

-----------------------------------------------------------------------------
(* The end of process_events. *)

\* publish_decision_bundle and, when there is a report, the executions stream.
Publish ==
    /\ pc = "publish"
    /\ announced' = announced \cup (IF execution = NoReport THEN {} ELSE {cur})
    /\ Goto("persist_ledger")
    /\ UNCHANGED <<database, fills, deadLettered, applied, bounds>>

PersistLedgerUnreconciled ==
    /\ pc = "persist_ledger"
    /\ ledger' = [ledger EXCEPT ![cur] = @ \cup
                    ({"SUBMITTED"} \cup IF execution = NoReport THEN {"REJECTED"} ELSE {})]
    /\ Goto("persist_order")
    /\ UNCHANGED <<orderStatus, attempts, notional, report, positions, portfolio, outside, applied,
                   bounds>>

\* _build_execution_ledger: without a report the intent was refused, with one it has been
\* reconciled in memory.
ExecutionLedger == {"SUBMITTED", IF execution = NoReport THEN "REJECTED" ELSE "RECONCILED"}

\* save_pipeline_result: the ledger, written after the audit rows and the report, which is
\* the one already stored.
PersistLedger ==
    /\ pc = "persist_ledger"
    /\ ledger' = [ledger EXCEPT ![cur] = @ \cup ExecutionLedger]
    /\ Goto("persist_order")
    /\ UNCHANGED <<orderStatus, attempts, notional, report, positions, portfolio, outside, applied,
                   bounds>>

\* save_order_from_pipeline_result
PersistOrder ==
    /\ pc = "persist_order"
    /\ orderStatus' = [orderStatus EXCEPT ![cur] =
                         IF execution = NoReport THEN "REJECTED" ELSE execution.status]
    /\ notional' = [notional EXCEPT ![cur] = sized]
    /\ Goto("persist_position")
    /\ UNCHANGED <<attempts, ledger, report, positions, portfolio, outside, applied, bounds>>

\* save_position: memPosition is the loaded one when nothing was executed.
PersistPosition ==
    /\ pc = "persist_position"
    /\ positions' = [positions EXCEPT ![TokenOf[cur]] = memPosition]
    /\ applied' = [applied EXCEPT ![cur] = @ + (IF execution = NoReport THEN 0 ELSE 1)]
    /\ Goto("persist_portfolio")
    /\ UNCHANGED <<orderStatus, attempts, notional, ledger, report, portfolio, outside, bounds>>

\* save_portfolio; then the batch is acknowledged.
PersistPortfolio ==
    /\ pc = "persist_portfolio"
    /\ portfolio' = memPortfolio
    /\ Release("idle")
    /\ UNCHANGED <<orderStatus, attempts, notional, ledger, report, positions, recovering, todo,
                   outside, applied, bounds>>

\* The handler of poll_once: the batch is dead-lettered and acknowledged.
DeadLetter ==
    /\ pc = "dead_letter"
    /\ deadLettered' = deadLettered \cup {cur}
    /\ Release("idle")
    /\ UNCHANGED <<database, recovering, todo, fills, announced, applied, bounds>>

-----------------------------------------------------------------------------
(* ensure_streams and recover_pending_executions. *)

RecoverableUnlessRetry(i) ==
    /\ orderStatus[i] \in {"SUBMITTED", "FILLED"}
    /\ "SUBMITTED" \in ledger[i]
    /\ "RECONCILED" \notin ledger[i]
    /\ "REJECTED" \notin ledger[i]

\* load_recoverable_intents
Recoverable(i) ==
    /\ orderStatus[i] \in {"SUBMITTED", "FILLED", "RETRY"}
    /\ "SUBMITTED" \in ledger[i]
    /\ "RECONCILED" \notin ledger[i]
    /\ "REJECTED" \notin ledger[i]

Start ==
    /\ pc = "down"
    /\ pc' = "recover_next"
    /\ recovering' = TRUE
    /\ todo' = {i \in Intents : Recoverable(i)}
    /\ UNCHANGED <<database, cur, sized, execution, memPosition, memPortfolio, outside, applied,
                   bounds>>

\* A pending order is executed again, with the notional it was submitted with.  Each
\* recovered intent also gets a RECOVERED ledger entry, a status nothing asks for.
RecoverPending(i) ==
    /\ pc = "recover_next"
    /\ i \in todo
    /\ orderStatus[i] # "FILLED"
    /\ todo' = todo \ {i}
    /\ Load(i)
    /\ sized' = notional[i]
    /\ pc' = "attempt"
    /\ UNCHANGED <<database, recovering, execution, outside, applied, bounds>>

\* A filled order is booked from its stored report.
RecoverFilled(i) ==
    /\ pc = "recover_next"
    /\ i \in todo
    /\ orderStatus[i] = "FILLED"
    /\ report[i] # NoReport
    /\ todo' = todo \ {i}
    /\ cur' = i
    /\ execution' = report[i]
    /\ memPosition' = ReconciledPosition(positions[TokenOf[i]], ActionOf[i], report[i].executed)
    /\ memPortfolio' = ReconciledPortfolio(portfolio, ActionOf[i], report[i].executed)
    /\ pc' = "recover_position"
    /\ UNCHANGED <<database, recovering, sized, outside, applied, bounds>>

RecoverWithoutReportWaiting(i) ==
    /\ pc = "recover_next"
    /\ i \in todo
    /\ orderStatus[i] = "FILLED"
    /\ report[i] = NoReport
    /\ UNCHANGED <<database, worker, outside, applied, bounds>>

\* load_latest_execution_report finds none: the order is passed over.
RecoverWithoutReport(i) ==
    /\ pc = "recover_next"
    /\ i \in todo
    /\ orderStatus[i] = "FILLED"
    /\ report[i] = NoReport
    /\ todo' = todo \ {i}
    /\ UNCHANGED <<database, pc, recovering, cur, sized, execution, memPosition, memPortfolio,
                   outside, applied, bounds>>

RecoverPosition ==
    /\ pc = "recover_position"
    /\ positions' = [positions EXCEPT ![TokenOf[cur]] = memPosition]
    /\ applied' = [applied EXCEPT ![cur] = @ + 1]
    /\ Goto("recover_portfolio")
    /\ UNCHANGED <<orderStatus, attempts, notional, ledger, report, portfolio, outside, bounds>>

RecoverPortfolio ==
    /\ pc = "recover_portfolio"
    /\ portfolio' = memPortfolio
    /\ Goto("recover_order")
    /\ UNCHANGED <<orderStatus, attempts, notional, ledger, report, positions, outside, applied,
                   bounds>>

RecoverOrder ==
    /\ pc = "recover_order"
    /\ orderStatus' = [orderStatus EXCEPT ![cur] = "RECONCILED"]
    /\ Goto("recover_ledger")
    /\ UNCHANGED <<attempts, notional, ledger, report, positions, portfolio, outside, applied,
                   bounds>>

RecoverLedger ==
    /\ pc = "recover_ledger"
    /\ ledger' = [ledger EXCEPT ![cur] = @ \cup {"RECONCILED"}]
    /\ Release("recover_next")
    /\ UNCHANGED <<orderStatus, attempts, notional, report, positions, portfolio, recovering, todo,
                   outside, applied, bounds>>

RecoveryDone ==
    /\ pc = "recover_next"
    /\ todo = {}
    /\ pc' = "idle"
    /\ recovering' = FALSE
    /\ UNCHANGED <<database, cur, todo, sized, execution, memPosition, memPortfolio, outside,
                   applied, bounds>>

-----------------------------------------------------------------------------
(* What may go wrong. *)

\* The process dies; only the database and the streams remain.
Crash ==
    /\ pc # "down"
    /\ crashes < MaxCrashes
    /\ crashes' = crashes + 1
    /\ Release("down")
    /\ recovering' = FALSE
    /\ todo' = {}
    /\ UNCHANGED <<database, outside, applied, batches, storeErrors>>

\* A repository or Redis raises in process_events, outside the adapter call.  The worker
\* lives on: the batch is dead-lettered, and recovery does not run.
StoreError ==
    /\ ~recovering
    /\ pc \in ProcessSteps \ {"dispatch"}
    /\ storeErrors < MaxStoreErrors
    /\ storeErrors' = storeErrors + 1
    /\ Goto("dead_letter")
    /\ UNCHANGED <<database, outside, applied, batches, crashes>>

-----------------------------------------------------------------------------
Execute ==
    \/ CountAttempt
    \/ Exhausted
    \/ VenueAnswers
    \/ VenueRaises
    \/ MarkFailure
    \/ MarkAnswer
    \/ SaveReport

Process ==
    \/ RecordOrder
    \/ RecordSubmission
    \/ Publish
    \/ PersistLedger
    \/ PersistOrder
    \/ PersistPosition
    \/ PersistPortfolio
    \/ DeadLetter

Recover ==
    \/ Start
    \/ \E i \in Intents : RecoverPending(i) \/ RecoverFilled(i) \/ RecoverWithoutReport(i)
    \/ RecoverPosition
    \/ RecoverPortfolio
    \/ RecoverOrder
    \/ RecoverLedger
    \/ RecoveryDone

Deliver == \E i \in Intents : SkipDuplicate(i) \/ Allow(i) \/ Refuse(i)

Next ==
    \/ Deliver
    \/ Execute
    \/ Process
    \/ Recover
    \/ Crash
    \/ StoreError

\* The worker keeps running what it has in hand and is restarted when it dies
\* (restart: always).  No batch need ever arrive, and nothing need fail.
Fairness == WF_vars(Execute) /\ WF_vars(Process) /\ WF_vars(Recover)

Spec == Init /\ [][Next]_vars
FairSpec == Spec /\ Fairness

-----------------------------------------------------------------------------
(* Properties. *)

TypeOK ==
    /\ orderStatus \in [Intents -> OrderStatuses]
    /\ attempts \in [Intents -> Nat]
    /\ notional \in [Intents -> Nat]
    /\ ledger \in [Intents -> SUBSET LedgerStatuses]
    /\ report \in [Intents -> Reports \cup {NoReport}]
    /\ positions \in [Tokens -> PositionStates]
    /\ portfolio \in PortfolioSnapshots
    /\ pc \in Steps
    /\ recovering \in BOOLEAN
    /\ cur \in Intents \cup {NoIntent}
    /\ todo \in SUBSET Intents
    /\ sized \in Nat
    /\ execution \in Reports \cup {NoReport}
    /\ memPosition \in PositionStates
    /\ memPortfolio \in PortfolioSnapshots
    /\ fills \in [Intents -> Nat]
    /\ announced \in SUBSET Intents
    /\ deadLettered \in SUBSET Intents
    /\ applied \in [Intents -> Nat]
    /\ batches \in Nat /\ crashes \in Nat /\ storeErrors \in Nat

\* Steps that can only be reached from poll_once, and only from recovery.
OnlyProcess == {"idle", "dead_letter", "record_order", "record_submission", "publish",
                "persist_ledger", "persist_order", "persist_position", "persist_portfolio"}
OnlyRecovery == {"recover_next", "recover_position", "recover_portfolio", "recover_order",
                 "recover_ledger"}
BeforeAnswer == {"down", "idle", "recover_next", "record_order", "record_submission", "attempt",
                 "dispatch", "dispatch_failed"}
Undecided(i) == orderStatus[i] \notin TerminalStatuses \cup {"NONE"}

\* What the worker knows at each step, in terms of what the database says of the intent
\* in hand: the inductive strengthening of the safety invariants below.  Nothing in the
\* code asserts it; each repository call relies on it.
WorkerInv ==
    /\ IF pc \in {"down", "idle", "recover_next"} THEN cur = NoIntent ELSE cur \in Intents
    /\ pc \in OnlyProcess \cup {"down"} => ~recovering
    /\ pc \in OnlyRecovery => recovering
    /\ ~recovering => todo = {}
    /\ cur \notin todo
    /\ \A i \in todo : /\ orderStatus[i] \in {"SUBMITTED", "FILLED", "RETRY"}
                      /\ "SUBMITTED" \in ledger[i]
    /\ pc \in BeforeAnswer => execution = NoReport
    /\ pc = "record_order" => orderStatus[cur] \notin TerminalStatuses
    /\ pc = "record_submission" => Undecided(cur)
    /\ pc = "attempt" =>
         /\ orderStatus[cur] # "NONE"
         /\ "SUBMITTED" \in ledger[cur]
         /\ orderStatus[cur] \notin TerminalStatuses \/ attempts[cur] >= MaxAttempts
    /\ pc = "dispatch" => fills[cur] < attempts[cur]
    /\ pc \in {"dispatch", "dispatch_failed", "mark_answer"} =>
         Undecided(cur) /\ "SUBMITTED" \in ledger[cur] /\ attempts[cur] > 0
    /\ pc \in {"mark_answer", "save_report"} => execution \in Reports
    /\ pc = "save_report" => orderStatus[cur] = execution.status
    /\ pc \in {"publish", "persist_ledger", "persist_order"} =>
         IF execution = NoReport THEN orderStatus[cur] \notin TerminalStatuses
                                 ELSE orderStatus[cur] = execution.status
    /\ pc \in {"recover_position", "recover_portfolio", "recover_order"} =>
         orderStatus[cur] \in AnswerStatuses

OpenTokens == {t \in Tokens : positions[t].open}
HeldExposure == MapThenSumSet(LAMBDA t : positions[t].exposure, Tokens)
Faults == crashes + storeErrors
Distance(a, b) == IF a < b THEN b - a ELSE a - b

\* The retry limit of an order holds over its whole life: restarts, recoveries and
\* redeliveries continue the count of _execute_intent and never start it again.
AttemptsBounded == \A i \in Intents : attempts[i] <= MaxAttempts

\* The venue holds at most one order for every attempt on record, whatever step the
\* worker died in: the attempt is committed before the adapter is called.
FillsBacked == \A i \in Intents : fills[i] <= attempts[i]

\* An order the venue has accepted is one recovery can see: its row and its SUBMITTED
\* ledger entry were committed before the adapter was first called.
VisibleToRecovery ==
    \A i \in Intents : fills[i] > 0 => /\ orderStatus[i] # "NONE"
                                     /\ "SUBMITTED" \in ledger[i]

\* An order in a terminal status is never sent again, by a redelivered batch or by
\* recovery.
TerminalNeverDispatched ==
    [][\A i \in Intents : orderStatus[i] \in TerminalStatuses => attempts'[i] = attempts[i]]_vars

\* An execution is booked into the position at most once per attempt, and once more for
\* every crash after the first: process_events books under a RECONCILED ledger entry it
\* has already written, so only a recovery that dies between save_position and the
\* RECONCILED mark is followed by one that books the same report again.
BookedPerAttempt ==
    \A i \in Intents : applied[i] <= attempts[i] + AtLeastZero(crashes - 1)

\* While nothing fails, the worker gives up on a batch only when its order has an
\* answer: no order that is still pending is left to nobody.
ExhaustedIsAnswered ==
    (Faults = 0 /\ pc = "dead_letter") => orderStatus[cur] \notin {"SUBMITTED", "RETRY"}

\* The counter the max-positions policy reads and the position rows it stands for are
\* written in separate transactions.  Between batches they differ by at most one
\* position for every crash or store error there has been; in particular they agree
\* when nothing failed.
OpenCountDrift ==
    pc = "idle" => Distance(portfolio.open, Cardinality(OpenTokens)) <= Faults

\* Sizing keeps the portfolio under its exposure limit, and the positions under the
\* portfolio's exposure, for as long as nothing fails.
ExposureWithinLimit ==
    (Faults = 0 /\ pc = "idle") => /\ portfolio.exposure <= ExposureLimit
                                  /\ HeldExposure <= portfolio.exposure

\* docs/risk-policy.md:34: no more positions than the limit are open at once.
ConcurrentPositionsLimit == Cardinality(OpenTokens) <= MaxConcurrentPositions

\* Recovery ends: a worker that starts gets to its first poll, for its attempts are
\* bounded and every intent is looked at once.
StartReachesPoll == pc = "down" ~> pc = "idle"

\* Submitted, without an answer, and with attempts left.
Pending(i) ==
    /\ orderStatus[i] \in {"SUBMITTED", "RETRY"}
    /\ attempts[i] < MaxAttempts

\* A pending order gets an answer, is rejected or has no attempt left, unless a store
\* error sent its batch to the dead letters while the worker lives on: nobody looks at it
\* then before a redelivery or the next start.  Every start settles what it finds pending,
\* but for an order with a REJECTED entry, left by a worker that died between the ledger
\* and the order of a refused redelivery.
PendingIsSettled ==
    \A i \in Intents :
        LET left == Pending(i) /\ ledger[i] = {"SUBMITTED"} IN
        /\ left ~> (~Pending(i) \/ (storeErrors > 0 /\ i \in deadLettered))
        /\ (pc = "down" /\ left) ~> ~Pending(i)

\* Refinement: the orders table behaves as OrderLifecycle says.
Lifecycle == INSTANCE OrderLifecycle
    WITH Intents <- Intents, MaxRetries <- MaxRetries,
         orderStatus <- orderStatus, attempts <- attempts
ImplementsLifecycle == Lifecycle!Spec
=============================================================================

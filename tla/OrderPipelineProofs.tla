-------------------------- MODULE OrderPipelineProofs --------------------------
(***************************************************************************)
(* Theorems about OrderPipeline, for every set of intents and tokens,      *)
(* every retry limit and any number of batches, crashes and store errors.  *)
(*                                                                         *)
(* Everything rests on one inductive invariant, Inv: the types, the two    *)
(* counting invariants and what the worker knows at each step (WorkerInv). *)
(***************************************************************************)
EXTENDS OrderPipeline, CommonLemmas

Inv == TypeOK /\ WorkerInv /\ AttemptsBounded /\ FillsBacked /\ VisibleToRecovery

-----------------------------------------------------------------------------
(* The portfolio arithmetic. *)

\* AtLeastZero returns a natural number.
LEMMA AtLeastZeroType == \A n \in Int : AtLeastZero(n) \in Nat
  BY DEF AtLeastZero

\* The sized notional of an intent is a natural number.
LEMMA SizedType ==
  ASSUME NEW action \in Actions, NEW pf \in PortfolioSnapshots
  PROVE  SizedNotional(action, pf) \in Nat
  BY AtLeastZeroType, PortfolioAssumption
  DEF SizedNotional, RequestedNotional, PortfolioSnapshots

\* Reconciling a report keeps a position a position and a portfolio a portfolio.
LEMMA ReconciledType ==
  ASSUME NEW action \in Actions, NEW executed \in Nat,
         NEW position \in PositionStates, NEW pf \in PortfolioSnapshots
  PROVE  /\ ReconciledPosition(position, action, executed) \in PositionStates
         /\ ReconciledPortfolio(pf, action, executed) \in PortfolioSnapshots
  BY AtLeastZeroType
  DEF ReconciledPosition, ReconciledPortfolio, PositionStates, PortfolioSnapshots, NoPosition

\* The two constant records of an idle worker have their types, and no report of the
\* venue is the absent one.
LEMMA EmptyTypes ==
  /\ NoPosition \in PositionStates
  /\ EmptyPortfolio \in PortfolioSnapshots
  /\ NoReport \notin Reports
  /\ \A exec \in Reports \cup {NoReport} : exec.executed \in Nat
  BY DEF NoPosition, EmptyPortfolio, PositionStates, PortfolioSnapshots, NoReport, Reports,
         AnswerStatuses

-----------------------------------------------------------------------------
(* The initial states. *)

\* The worker starts with Inv.
LEMMA InitInv == Init => Inv
  <1> SUFFICES ASSUME Init PROVE Inv
    OBVIOUS
  <1>1. TypeOK
    <2>1. pc \in Steps
      BY DEF Init, Steps
    <2>2. orderStatus \in [Intents -> OrderStatuses]
      BY DEF Init, OrderStatuses
    <2>3. QED
      BY <2>1, <2>2, EmptyTypes DEF Init, TypeOK
  <1>2. WorkerInv
    BY PipelineAssumption DEF Init, WorkerInv, OnlyProcess, OnlyRecovery, BeforeAnswer
  <1>3. AttemptsBounded
    BY PipelineAssumption DEF Init, AttemptsBounded, MaxAttempts
  <1>4. FillsBacked /\ VisibleToRecovery
    BY DEF Init, FillsBacked, VisibleToRecovery
  <1>5. QED
    BY <1>1, <1>2, <1>3, <1>4 DEF Inv


-----------------------------------------------------------------------------
(* The steps.  Each action is taken apart into what it may disturb: the types, what the *)
(* worker knows, and the counting invariants.                                           *)

\* Taking up a batch keeps Inv.
LEMMA DeliverInv ==
  ASSUME Inv, Deliver
  PROVE  Inv'
  <1> USE PipelineAssumption DEF Inv, TypeOK, database, outside, bounds
  <1>1. ASSUME NEW i \in Intents, SkipDuplicate(i) PROVE Inv'
    <2>1. TypeOK'
      BY <1>1 DEF SkipDuplicate, Delivered, worker, Steps
    <2>2. WorkerInv'
      BY <1>1
      DEF SkipDuplicate, Delivered, worker, WorkerInv, Undecided, BeforeAnswer, OnlyProcess,
          OnlyRecovery, MaxAttempts, TerminalStatuses, AnswerStatuses
    <2>3. AttemptsBounded' /\ FillsBacked' /\ VisibleToRecovery'
      BY <1>1
      DEF SkipDuplicate, Delivered, worker, AttemptsBounded, FillsBacked, VisibleToRecovery,
          MaxAttempts
    <2>4. QED
      BY <2>1, <2>2, <2>3
  <1>2. ASSUME NEW i \in Intents, Allow(i) PROVE Inv'
    <2>1. TypeOK'
      BY <1>2, SizedType DEF Allow, Delivered, Load, Steps, ProcessSteps
    <2>2. WorkerInv'
      BY <1>2
      DEF Allow, Delivered, Load, WorkerInv, Undecided, BeforeAnswer, OnlyProcess, OnlyRecovery,
          MaxAttempts, TerminalStatuses, AnswerStatuses
    <2>3. AttemptsBounded' /\ FillsBacked' /\ VisibleToRecovery'
      BY <1>2
      DEF Allow, Delivered, Load, AttemptsBounded, FillsBacked, VisibleToRecovery, MaxAttempts
    <2>4. QED
      BY <2>1, <2>2, <2>3
  <1>3. ASSUME NEW i \in Intents, Refuse(i) PROVE Inv'
    <2>1. TypeOK'
      BY <1>3 DEF Refuse, Delivered, Load, Steps, ProcessSteps
    <2>2. WorkerInv'
      BY <1>3
      DEF Refuse, Delivered, Load, WorkerInv, Undecided, BeforeAnswer, OnlyProcess, OnlyRecovery,
          MaxAttempts, TerminalStatuses, AnswerStatuses
    <2>3. AttemptsBounded' /\ FillsBacked' /\ VisibleToRecovery'
      BY <1>3
      DEF Refuse, Delivered, Load, AttemptsBounded, FillsBacked, VisibleToRecovery, MaxAttempts
    <2>4. QED
      BY <2>1, <2>2, <2>3
  <1>4. QED
    BY <1>1, <1>2, <1>3 DEF Deliver

\* Executing an intent keeps Inv.
LEMMA ExecuteInv ==
  ASSUME Inv, Execute
  PROVE  Inv'
  <1> USE PipelineAssumption DEF Inv, TypeOK, database, outside, bounds
  <1>1. CASE CountAttempt
    <2>1. cur \in Intents
      BY <1>1 DEF CountAttempt, WorkerInv
    <2>2. TypeOK'
      BY <1>1, <2>1 DEF CountAttempt, Goto, Steps, ProcessSteps
    <2>3. WorkerInv'
      BY <1>1, <2>1
      DEF CountAttempt, Goto, WorkerInv, Undecided, BeforeAnswer, OnlyProcess, OnlyRecovery,
          MaxAttempts, TerminalStatuses, AnswerStatuses, FillsBacked
    <2>4. AttemptsBounded' /\ FillsBacked' /\ VisibleToRecovery'
      BY <1>1, <2>1
      DEF CountAttempt, Goto, AttemptsBounded, FillsBacked, VisibleToRecovery, MaxAttempts
    <2>5. QED
      BY <2>2, <2>3, <2>4
  <1>2. CASE Exhausted
    <2>1. cur \in Intents
      BY <1>2 DEF Exhausted, WorkerInv
    <2>2. TypeOK'
      BY <1>2, <2>1, EmptyTypes DEF Exhausted, Goto, Release, Steps, RecoverySteps
    <2>3. WorkerInv'
      BY <1>2, <2>1
      DEF Exhausted, Goto, Release, WorkerInv, Undecided, BeforeAnswer, OnlyProcess, OnlyRecovery,
          MaxAttempts, TerminalStatuses, AnswerStatuses
    <2>4. AttemptsBounded' /\ FillsBacked' /\ VisibleToRecovery'
      BY <1>2, <2>1
      DEF Exhausted, Goto, Release, AttemptsBounded, FillsBacked, VisibleToRecovery, MaxAttempts
    <2>5. QED
      BY <2>2, <2>3, <2>4
  <1>3. CASE VenueAnswers
    <2>1. cur \in Intents
      BY <1>3 DEF VenueAnswers, WorkerInv
    <2>2. TypeOK'
      BY <1>3, <2>1 DEF VenueAnswers, Steps, ProcessSteps, Reports, AnswerStatuses
    <2>3. WorkerInv'
      BY <1>3, <2>1, EmptyTypes
      DEF VenueAnswers, WorkerInv, Undecided, BeforeAnswer, OnlyProcess, OnlyRecovery,
          MaxAttempts, TerminalStatuses, AnswerStatuses, Reports
    <2>4. AttemptsBounded' /\ FillsBacked' /\ VisibleToRecovery'
      BY <1>3, <2>1
      DEF VenueAnswers, AttemptsBounded, FillsBacked, VisibleToRecovery, MaxAttempts, WorkerInv,
          Undecided
    <2>5. QED
      BY <2>2, <2>3, <2>4
  <1>4. CASE VenueRaises
    <2>1. cur \in Intents
      BY <1>4 DEF VenueRaises, WorkerInv
    <2>2. TypeOK'
      BY <1>4, <2>1 DEF VenueRaises, Goto, Steps, ProcessSteps
    <2>3. WorkerInv'
      BY <1>4, <2>1
      DEF VenueRaises, Goto, WorkerInv, Undecided, BeforeAnswer, OnlyProcess, OnlyRecovery,
          MaxAttempts, TerminalStatuses, AnswerStatuses
    <2>4. AttemptsBounded' /\ FillsBacked' /\ VisibleToRecovery'
      BY <1>4, <2>1
      DEF VenueRaises, Goto, AttemptsBounded, FillsBacked, VisibleToRecovery, MaxAttempts,
          WorkerInv, Undecided
    <2>5. QED
      BY <2>2, <2>3, <2>4
  <1>5. CASE MarkFailure
    <2>1. cur \in Intents
      BY <1>5 DEF MarkFailure, WorkerInv
    <2>2. TypeOK'
      BY <1>5, <2>1
      DEF MarkFailure, Goto, Steps, ProcessSteps, OrderStatuses, TerminalStatuses, AnswerStatuses
    <2>3. WorkerInv'
      BY <1>5, <2>1
      DEF MarkFailure, Goto, WorkerInv, Undecided, BeforeAnswer, OnlyProcess, OnlyRecovery,
          MaxAttempts, TerminalStatuses, AnswerStatuses
    <2>4. AttemptsBounded' /\ FillsBacked' /\ VisibleToRecovery'
      BY <1>5, <2>1
      DEF MarkFailure, Goto, AttemptsBounded, FillsBacked, VisibleToRecovery, MaxAttempts
    <2>5. QED
      BY <2>2, <2>3, <2>4
  <1>6. CASE MarkAnswer
    <2>1. cur \in Intents
      BY <1>6 DEF MarkAnswer, WorkerInv
    <2>2. TypeOK'
      BY <1>6, <2>1
      DEF MarkAnswer, Goto, Steps, ProcessSteps, OrderStatuses, TerminalStatuses, AnswerStatuses,
          WorkerInv, Reports
    <2>3. WorkerInv'
      BY <1>6, <2>1
      DEF MarkAnswer, Goto, WorkerInv, Undecided, BeforeAnswer, OnlyProcess, OnlyRecovery,
          MaxAttempts, TerminalStatuses, AnswerStatuses, Reports
    <2>4. AttemptsBounded' /\ FillsBacked' /\ VisibleToRecovery'
      BY <1>6, <2>1
      DEF MarkAnswer, Goto, AttemptsBounded, FillsBacked, VisibleToRecovery, MaxAttempts,
          AnswerStatuses, Reports, WorkerInv
    <2>5. QED
      BY <2>2, <2>3, <2>4
  <1>7. CASE SaveReport
    <2>1. cur \in Intents
      BY <1>7 DEF SaveReport, WorkerInv
    <2>2. TypeOK'
      <3>1. pc' \in Steps
        BY <1>7 DEF SaveReport, Steps, ProcessSteps, RecoverySteps
      <3>2. /\ execution' \in Reports \cup {NoReport}
            /\ report' \in [Intents -> Reports \cup {NoReport}]
        BY <1>7, <2>1 DEF SaveReport, Reconcile
      <3>3. execution \in Reports /\ ActionOf[cur] \in Actions
        BY <1>7, <2>1 DEF SaveReport, WorkerInv
      <3>4. execution.executed \in Nat
        BY <3>3 DEF Reports
      <3>5. memPosition' \in PositionStates /\ memPortfolio' \in PortfolioSnapshots
        BY <1>7, <3>3, <3>4, ReconciledType DEF SaveReport, Reconcile
      <3>6. QED
        BY <1>7, <3>1, <3>2, <3>5 DEF SaveReport, Reconcile
    <2>3. WorkerInv'
      BY <1>7, <2>1, EmptyTypes
      DEF SaveReport, Reconcile, WorkerInv, Undecided, BeforeAnswer, OnlyProcess, OnlyRecovery,
          MaxAttempts, TerminalStatuses, AnswerStatuses, Reports
    <2>4. AttemptsBounded' /\ FillsBacked' /\ VisibleToRecovery'
      BY <1>7, <2>1
      DEF SaveReport, Reconcile, AttemptsBounded, FillsBacked, VisibleToRecovery, MaxAttempts
    <2>5. QED
      BY <2>2, <2>3, <2>4
  <1>8. QED
    BY <1>1, <1>2, <1>3, <1>4, <1>5, <1>6, <1>7 DEF Execute

\* Recording and persisting keeps Inv.
LEMMA ProcessInv ==
  ASSUME Inv, Process
  PROVE  Inv'
  <1> USE PipelineAssumption DEF Inv, TypeOK, database, outside, bounds
  <1>1. CASE RecordOrder
    <2>1. cur \in Intents
      BY <1>1 DEF RecordOrder, WorkerInv
    <2>2. TypeOK'
      BY <1>1, <2>1
      DEF RecordOrder, Goto, Steps, ProcessSteps, OrderStatuses, TerminalStatuses, AnswerStatuses
    <2>3. WorkerInv'
      BY <1>1, <2>1
      DEF RecordOrder, Goto, WorkerInv, Undecided, BeforeAnswer, OnlyProcess, OnlyRecovery,
          MaxAttempts, TerminalStatuses, AnswerStatuses
    <2>4. AttemptsBounded' /\ FillsBacked' /\ VisibleToRecovery'
      BY <1>1, <2>1
      DEF RecordOrder, Goto, AttemptsBounded, FillsBacked, VisibleToRecovery, MaxAttempts
    <2>5. QED
      BY <2>2, <2>3, <2>4
  <1>2. CASE RecordSubmission
    <2>1. cur \in Intents
      BY <1>2 DEF RecordSubmission, WorkerInv
    <2>2. TypeOK'
      BY <1>2, <2>1 DEF RecordSubmission, Goto, Steps, ProcessSteps, LedgerStatuses
    <2>3. WorkerInv'
      BY <1>2, <2>1
      DEF RecordSubmission, Goto, WorkerInv, Undecided, BeforeAnswer, OnlyProcess, OnlyRecovery,
          MaxAttempts, TerminalStatuses, AnswerStatuses
    <2>4. AttemptsBounded' /\ FillsBacked' /\ VisibleToRecovery'
      BY <1>2, <2>1
      DEF RecordSubmission, Goto, AttemptsBounded, FillsBacked, VisibleToRecovery, MaxAttempts
    <2>5. QED
      BY <2>2, <2>3, <2>4
  <1>3. CASE Publish
    <2>1. cur \in Intents
      BY <1>3 DEF Publish, WorkerInv
    <2>2. TypeOK'
      BY <1>3, <2>1 DEF Publish, Goto, Steps, ProcessSteps
    <2>3. WorkerInv'
      BY <1>3, <2>1
      DEF Publish, Goto, WorkerInv, Undecided, BeforeAnswer, OnlyProcess, OnlyRecovery,
          MaxAttempts, TerminalStatuses, AnswerStatuses
    <2>4. AttemptsBounded' /\ FillsBacked' /\ VisibleToRecovery'
      BY <1>3, <2>1
      DEF Publish, Goto, AttemptsBounded, FillsBacked, VisibleToRecovery, MaxAttempts
    <2>5. QED
      BY <2>2, <2>3, <2>4
  <1>4. CASE PersistLedger
    <2>1. cur \in Intents
      BY <1>4 DEF PersistLedger, ExecutionLedger, WorkerInv
    <2>2. TypeOK'
      BY <1>4, <2>1 DEF PersistLedger, ExecutionLedger, Goto, Steps, ProcessSteps, LedgerStatuses
    <2>3. WorkerInv'
      BY <1>4, <2>1
      DEF PersistLedger, ExecutionLedger, Goto, WorkerInv, Undecided, BeforeAnswer, OnlyProcess,
          OnlyRecovery, MaxAttempts, TerminalStatuses, AnswerStatuses
    <2>4. AttemptsBounded' /\ FillsBacked' /\ VisibleToRecovery'
      BY <1>4, <2>1
      DEF PersistLedger, ExecutionLedger, Goto, AttemptsBounded, FillsBacked, VisibleToRecovery,
          MaxAttempts
    <2>5. QED
      BY <2>2, <2>3, <2>4
  <1>5. CASE PersistOrder
    <2>1. cur \in Intents
      BY <1>5 DEF PersistOrder, WorkerInv
    <2>2. TypeOK'
      BY <1>5, <2>1
      DEF PersistOrder, Goto, Steps, ProcessSteps, OrderStatuses, TerminalStatuses,
          AnswerStatuses, Reports
    <2>3. WorkerInv'
      BY <1>5, <2>1, EmptyTypes
      DEF PersistOrder, Goto, WorkerInv, Undecided, BeforeAnswer, OnlyProcess, OnlyRecovery,
          MaxAttempts, TerminalStatuses, AnswerStatuses
    <2>4. AttemptsBounded' /\ FillsBacked' /\ VisibleToRecovery'
      BY <1>5, <2>1
      DEF PersistOrder, Goto, AttemptsBounded, FillsBacked, VisibleToRecovery, MaxAttempts,
          AnswerStatuses, Reports, WorkerInv
    <2>5. QED
      BY <2>2, <2>3, <2>4
  <1>6. CASE PersistPosition
    <2>1. cur \in Intents
      BY <1>6 DEF PersistPosition, WorkerInv
    <2>2. TypeOK'
      BY <1>6, <2>1 DEF PersistPosition, Goto, Steps, ProcessSteps
    <2>3. WorkerInv'
      BY <1>6, <2>1
      DEF PersistPosition, Goto, WorkerInv, Undecided, BeforeAnswer, OnlyProcess, OnlyRecovery,
          MaxAttempts, TerminalStatuses, AnswerStatuses
    <2>4. AttemptsBounded' /\ FillsBacked' /\ VisibleToRecovery'
      BY <1>6, <2>1
      DEF PersistPosition, Goto, AttemptsBounded, FillsBacked, VisibleToRecovery, MaxAttempts
    <2>5. QED
      BY <2>2, <2>3, <2>4
  <1>7. CASE PersistPortfolio
    <2>1. cur \in Intents
      BY <1>7 DEF PersistPortfolio, WorkerInv
    <2>2. TypeOK'
      BY <1>7, <2>1, EmptyTypes DEF PersistPortfolio, Release, Steps
    <2>3. WorkerInv'
      BY <1>7, <2>1
      DEF PersistPortfolio, Release, WorkerInv, Undecided, BeforeAnswer, OnlyProcess,
          OnlyRecovery, MaxAttempts, TerminalStatuses, AnswerStatuses
    <2>4. AttemptsBounded' /\ FillsBacked' /\ VisibleToRecovery'
      BY <1>7, <2>1
      DEF PersistPortfolio, Release, AttemptsBounded, FillsBacked, VisibleToRecovery, MaxAttempts
    <2>5. QED
      BY <2>2, <2>3, <2>4
  <1>8. CASE DeadLetter
    <2>1. cur \in Intents
      BY <1>8 DEF DeadLetter, WorkerInv
    <2>2. TypeOK'
      BY <1>8, <2>1, EmptyTypes DEF DeadLetter, Release, Steps
    <2>3. WorkerInv'
      BY <1>8, <2>1
      DEF DeadLetter, Release, WorkerInv, Undecided, BeforeAnswer, OnlyProcess, OnlyRecovery,
          MaxAttempts, TerminalStatuses, AnswerStatuses
    <2>4. AttemptsBounded' /\ FillsBacked' /\ VisibleToRecovery'
      BY <1>8, <2>1
      DEF DeadLetter, Release, AttemptsBounded, FillsBacked, VisibleToRecovery, MaxAttempts
    <2>5. QED
      BY <2>2, <2>3, <2>4
  <1>9. QED
    BY <1>1, <1>2, <1>3, <1>4, <1>5, <1>6, <1>7, <1>8 DEF Process

\* Recovering at start-up keeps Inv.
LEMMA RecoverInv ==
  ASSUME Inv, Recover
  PROVE  Inv'
  <1> USE PipelineAssumption DEF Inv, TypeOK, database, outside, bounds
  <1>1. CASE Start
    <2>1. TypeOK'
      BY <1>1 DEF Start, Recoverable, Steps, RecoverySteps
    <2>2. WorkerInv'
      BY <1>1
      DEF Start, Recoverable, WorkerInv, Undecided, BeforeAnswer, OnlyProcess, OnlyRecovery,
          MaxAttempts, TerminalStatuses, AnswerStatuses
    <2>3. AttemptsBounded' /\ FillsBacked' /\ VisibleToRecovery'
      BY <1>1 DEF Start, Recoverable, AttemptsBounded, FillsBacked, VisibleToRecovery, MaxAttempts
    <2>4. QED
      BY <2>1, <2>2, <2>3
  <1>2. ASSUME NEW i \in Intents, RecoverPending(i) PROVE Inv'
    <2>1. TypeOK'
      BY <1>2 DEF RecoverPending, Load, Steps, RecoverySteps
    <2>2. WorkerInv'
      BY <1>2
      DEF RecoverPending, Load, WorkerInv, Undecided, BeforeAnswer, OnlyProcess, OnlyRecovery,
          MaxAttempts, TerminalStatuses, AnswerStatuses
    <2>3. AttemptsBounded' /\ FillsBacked' /\ VisibleToRecovery'
      BY <1>2
      DEF RecoverPending, Load, AttemptsBounded, FillsBacked, VisibleToRecovery, MaxAttempts
    <2>4. QED
      BY <2>1, <2>2, <2>3
  <1>3. ASSUME NEW i \in Intents, RecoverFilled(i) PROVE Inv'
    <2>1. TypeOK'
      BY <1>3, ReconciledType, EmptyTypes DEF RecoverFilled, Steps, RecoverySteps
    <2>2. WorkerInv'
      BY <1>3
      DEF RecoverFilled, WorkerInv, Undecided, BeforeAnswer, OnlyProcess, OnlyRecovery,
          MaxAttempts, TerminalStatuses, AnswerStatuses
    <2>3. AttemptsBounded' /\ FillsBacked' /\ VisibleToRecovery'
      BY <1>3 DEF RecoverFilled, AttemptsBounded, FillsBacked, VisibleToRecovery, MaxAttempts
    <2>4. QED
      BY <2>1, <2>2, <2>3
  <1>4. ASSUME NEW i \in Intents, RecoverWithoutReport(i) PROVE Inv'
    <2>1. TypeOK'
      BY <1>4 DEF RecoverWithoutReport, Steps
    <2>2. WorkerInv'
      BY <1>4
      DEF RecoverWithoutReport, WorkerInv, Undecided, BeforeAnswer, OnlyProcess, OnlyRecovery,
          MaxAttempts, TerminalStatuses, AnswerStatuses
    <2>3. AttemptsBounded' /\ FillsBacked' /\ VisibleToRecovery'
      BY <1>4
      DEF RecoverWithoutReport, AttemptsBounded, FillsBacked, VisibleToRecovery, MaxAttempts
    <2>4. QED
      BY <2>1, <2>2, <2>3
  <1>5. CASE RecoverPosition
    <2>1. cur \in Intents
      BY <1>5 DEF RecoverPosition, WorkerInv
    <2>2. TypeOK'
      BY <1>5, <2>1 DEF RecoverPosition, Goto, Steps, RecoverySteps
    <2>3. WorkerInv'
      BY <1>5, <2>1
      DEF RecoverPosition, Goto, WorkerInv, Undecided, BeforeAnswer, OnlyProcess, OnlyRecovery,
          MaxAttempts, TerminalStatuses, AnswerStatuses
    <2>4. AttemptsBounded' /\ FillsBacked' /\ VisibleToRecovery'
      BY <1>5, <2>1
      DEF RecoverPosition, Goto, AttemptsBounded, FillsBacked, VisibleToRecovery, MaxAttempts
    <2>5. QED
      BY <2>2, <2>3, <2>4
  <1>6. CASE RecoverPortfolio
    <2>1. cur \in Intents
      BY <1>6 DEF RecoverPortfolio, WorkerInv
    <2>2. TypeOK'
      BY <1>6, <2>1 DEF RecoverPortfolio, Goto, Steps, RecoverySteps
    <2>3. WorkerInv'
      BY <1>6, <2>1
      DEF RecoverPortfolio, Goto, WorkerInv, Undecided, BeforeAnswer, OnlyProcess, OnlyRecovery,
          MaxAttempts, TerminalStatuses, AnswerStatuses
    <2>4. AttemptsBounded' /\ FillsBacked' /\ VisibleToRecovery'
      BY <1>6, <2>1
      DEF RecoverPortfolio, Goto, AttemptsBounded, FillsBacked, VisibleToRecovery, MaxAttempts
    <2>5. QED
      BY <2>2, <2>3, <2>4
  <1>7. CASE RecoverOrder
    <2>1. cur \in Intents
      BY <1>7 DEF RecoverOrder, WorkerInv
    <2>2. TypeOK'
      BY <1>7, <2>1
      DEF RecoverOrder, Goto, Steps, RecoverySteps, OrderStatuses, TerminalStatuses,
          AnswerStatuses
    <2>3. WorkerInv'
      BY <1>7, <2>1
      DEF RecoverOrder, Goto, WorkerInv, Undecided, BeforeAnswer, OnlyProcess, OnlyRecovery,
          MaxAttempts, TerminalStatuses, AnswerStatuses
    <2>4. AttemptsBounded' /\ FillsBacked' /\ VisibleToRecovery'
      BY <1>7, <2>1
      DEF RecoverOrder, Goto, AttemptsBounded, FillsBacked, VisibleToRecovery, MaxAttempts,
          AnswerStatuses, Reports, WorkerInv
    <2>5. QED
      BY <2>2, <2>3, <2>4
  <1>8. CASE RecoverLedger
    <2>1. cur \in Intents
      BY <1>8 DEF RecoverLedger, WorkerInv
    <2>2. TypeOK'
      BY <1>8, <2>1, EmptyTypes DEF RecoverLedger, Release, Steps, RecoverySteps, LedgerStatuses
    <2>3. WorkerInv'
      BY <1>8, <2>1
      DEF RecoverLedger, Release, WorkerInv, Undecided, BeforeAnswer, OnlyProcess, OnlyRecovery,
          MaxAttempts, TerminalStatuses, AnswerStatuses
    <2>4. AttemptsBounded' /\ FillsBacked' /\ VisibleToRecovery'
      BY <1>8, <2>1
      DEF RecoverLedger, Release, AttemptsBounded, FillsBacked, VisibleToRecovery, MaxAttempts
    <2>5. QED
      BY <2>2, <2>3, <2>4
  <1>9. CASE RecoveryDone
    <2>1. TypeOK'
      BY <1>9 DEF RecoveryDone, Steps
    <2>2. WorkerInv'
      BY <1>9
      DEF RecoveryDone, WorkerInv, Undecided, BeforeAnswer, OnlyProcess, OnlyRecovery,
          MaxAttempts, TerminalStatuses, AnswerStatuses
    <2>3. AttemptsBounded' /\ FillsBacked' /\ VisibleToRecovery'
      BY <1>9 DEF RecoveryDone, AttemptsBounded, FillsBacked, VisibleToRecovery, MaxAttempts
    <2>4. QED
      BY <2>1, <2>2, <2>3
  <1>10. QED
    BY <1>1, <1>2, <1>3, <1>4, <1>5, <1>6, <1>7, <1>8, <1>9 DEF Recover

\* A crash or a store error keeps Inv.
LEMMA FailInv ==
  ASSUME Inv, Crash \/ StoreError
  PROVE  Inv'
  <1> USE PipelineAssumption DEF Inv, TypeOK, database, outside, bounds
  <1>1. CASE Crash
    <2>1. TypeOK'
      <3>1. pc' \in Steps /\ cur' \in Intents \cup {NoIntent}
        BY <1>1 DEF Crash, Release, Steps
      <3>2. sized' \in Nat /\ execution' \in Reports \cup {NoReport} /\ crashes' \in Nat
        BY <1>1 DEF Crash, Release
      <3>3. memPosition' \in PositionStates /\ memPortfolio' \in PortfolioSnapshots
        BY <1>1, EmptyTypes DEF Crash, Release
      <3>4. QED
        BY <1>1, <3>1, <3>2, <3>3 DEF Crash
    <2>2. WorkerInv'
      BY <1>1
      DEF Crash, Release, WorkerInv, Undecided, BeforeAnswer, OnlyProcess, OnlyRecovery,
          MaxAttempts, TerminalStatuses, AnswerStatuses
    <2>3. AttemptsBounded' /\ FillsBacked' /\ VisibleToRecovery'
      BY <1>1 DEF Crash, Release, AttemptsBounded, FillsBacked, VisibleToRecovery, MaxAttempts
    <2>4. QED
      BY <2>1, <2>2, <2>3
  <1>2. CASE StoreError
    <2>1. cur \in Intents
      BY <1>2 DEF StoreError, WorkerInv, ProcessSteps
    <2>2. TypeOK'
      <3>1. pc' \in Steps /\ storeErrors' \in Nat
        BY <1>2 DEF StoreError, Goto, Steps
      <3>2. QED
        BY <1>2, <3>1 DEF StoreError, Goto
    <2>3. WorkerInv'
      BY <1>2, <2>1
      DEF StoreError, Goto, WorkerInv, Undecided, BeforeAnswer, OnlyProcess, OnlyRecovery,
          MaxAttempts, TerminalStatuses, AnswerStatuses, ProcessSteps
    <2>4. AttemptsBounded' /\ FillsBacked' /\ VisibleToRecovery'
      BY <1>2, <2>1
      DEF StoreError, Goto, AttemptsBounded, FillsBacked, VisibleToRecovery, MaxAttempts
    <2>5. QED
      BY <2>2, <2>3, <2>4
  <1>3. QED
    BY <1>1, <1>2

\* A step that changes nothing keeps Inv.
LEMMA StutterInv == ASSUME Inv, UNCHANGED vars PROVE Inv'
  BY DEF Inv, TypeOK, WorkerInv, AttemptsBounded, FillsBacked, VisibleToRecovery, Undecided, vars,
         database, worker, outside, bounds

\* Every reachable state satisfies Inv.
THEOREM Invariance == Spec => []Inv
  <1>1. Inv /\ [Next]_vars => Inv'
    BY DeliverInv, ExecuteInv, ProcessInv, RecoverInv, FailInv, StutterInv DEF Next
  <1>2. QED
    BY InitInv, <1>1, PTL DEF Spec

-----------------------------------------------------------------------------
(* What follows from the invariant. *)

\* Every variable keeps its type (the repositories' columns and the worker's fields).
THEOREM TypeCorrectness == Spec => []TypeOK
  <1>1. Inv => TypeOK
    BY DEF Inv
  <1>2. QED
    BY <1>1, Invariance, PTL

\* What the worker relies on at each step of process_events and of recovery does hold.
THEOREM WorkerCorrectness == Spec => []WorkerInv
  <1>1. Inv => WorkerInv
    BY DEF Inv
  <1>2. QED
    BY <1>1, Invariance, PTL

\* The retry limit of _execute_intent bounds the attempts of an order over its life.
THEOREM RetryLimit == Spec => []AttemptsBounded
  <1>1. Inv => AttemptsBounded
    BY DEF Inv
  <1>2. QED
    BY <1>1, Invariance, PTL

\* The venue never holds more orders of an intent than attempts are on record.
THEOREM EveryFillCounted == Spec => []FillsBacked
  <1>1. Inv => FillsBacked
    BY DEF Inv
  <1>2. QED
    BY <1>1, Invariance, PTL

\* An order the venue accepted has its row and its SUBMITTED ledger entry.
THEOREM EveryFillVisible == Spec => []VisibleToRecovery
  <1>1. Inv => VisibleToRecovery
    BY DEF Inv
  <1>2. QED
    BY <1>1, Invariance, PTL

-----------------------------------------------------------------------------
(* How orderStatus and attempts may change. *)

\* An attempt for an order that has a row and may still be tried.
SpendsAttempt ==
  /\ CountAttempt
  /\ cur \in Intents
  /\ orderStatus[cur] \notin TerminalStatuses \cup {"NONE"}

\* Only CountAttempt touches the attempts, and it finds an order that is not terminal.
LEMMA AttemptStep ==
  ASSUME Inv, [Next]_vars
  PROVE  \/ attempts' = attempts
         \/ SpendsAttempt
  <1>1. CASE CountAttempt
    <2>1. cur \in Intents /\ attempts[cur] \in Nat
      BY <1>1 DEF CountAttempt, Inv, WorkerInv, TypeOK
    <2>2. ~(attempts[cur] >= MaxAttempts)
      BY <1>1, <2>1, PipelineAssumption DEF CountAttempt, MaxAttempts
    <2>3. QED
      BY <1>1, <2>1, <2>2 DEF CountAttempt, Inv, WorkerInv, SpendsAttempt
  <1>2. CASE Deliver
    BY <1>2 DEF Deliver, SkipDuplicate, Allow, Refuse, database
  <1>3. CASE Execute /\ ~CountAttempt
    BY <1>3
    DEF Execute, Exhausted, VenueAnswers, VenueRaises, MarkFailure, MarkAnswer, SaveReport, database
  <1>4. CASE Process
    BY <1>4
    DEF Process, RecordOrder, RecordSubmission, Publish, PersistLedger, PersistOrder,
        PersistPosition, PersistPortfolio, DeadLetter, database
  <1>5. CASE Recover
    BY <1>5
    DEF Recover, Start, RecoverPending, RecoverFilled, RecoverWithoutReport, RecoverPosition,
        RecoverPortfolio, RecoverOrder, RecoverLedger, RecoveryDone, database
  <1>6. CASE Crash \/ StoreError \/ UNCHANGED vars
    BY <1>6 DEF Crash, StoreError, vars, database
  <1>7. QED
    BY <1>1, <1>2, <1>3, <1>4, <1>5, <1>6 DEF Next

\* No attempt is made for an order in a terminal status: neither a redelivered batch nor
\* a recovery gets past the duplicate check, the recoverable statuses and the attempt count.
THEOREM TerminalIsFinal == Spec => TerminalNeverDispatched
  <1> DEFINE Kept ==
        \A i \in Intents : orderStatus[i] \in TerminalStatuses => attempts'[i] = attempts[i]
  <1>1. ASSUME Inv, [Next]_vars PROVE [Kept]_vars
    <2>1. CASE attempts' = attempts
      BY <2>1
    <2>2. CASE SpendsAttempt
      BY <1>1, <2>2 DEF CountAttempt, SpendsAttempt, Inv, TypeOK
    <2>3. QED
      BY <1>1, <2>1, <2>2, AttemptStep
  <1>2. QED
    BY <1>1, Invariance, PTL DEF Spec, TerminalNeverDispatched

-----------------------------------------------------------------------------
(* Refinement. *)

\* An action that writes an order's status does what the lifecycle allows.
LEMMA StatusStep ==
  ASSUME Inv, RecordOrder \/ MarkFailure \/ MarkAnswer \/ PersistOrder \/ RecoverOrder
  PROVE  [Lifecycle!Next]_(Lifecycle!vars)
  <1> USE DEF Inv, TypeOK, Lifecycle!vars
  <1>1. CASE RecordOrder
    <2>1. cur \in Intents /\ attempts' = attempts
      BY <1>1 DEF RecordOrder, WorkerInv
    <2>2. CASE orderStatus[cur] = "NONE"
      <3>1. Lifecycle!Submit(cur)
        BY <1>1, <2>1, <2>2 DEF RecordOrder, Lifecycle!Submit
      <3>2. QED
        BY <2>1, <3>1 DEF Lifecycle!Next
    <2>3. CASE orderStatus[cur] # "NONE"
      <3>1. orderStatus' = orderStatus
        BY <1>1, <2>1, <2>3 DEF RecordOrder
      <3>2. QED
        BY <2>1, <3>1
    <2>4. QED
      BY <2>2, <2>3
  <1>2. CASE MarkFailure
    <2>1. cur \in Intents
      BY <1>2 DEF MarkFailure, WorkerInv
    <2>2. Lifecycle!Fail(cur)
      BY <1>2, <2>1
      DEF MarkFailure, WorkerInv, Undecided, MaxAttempts, TerminalStatuses, Lifecycle!Fail,
          Lifecycle!MaxAttempts, Lifecycle!TerminalStatuses
    <2>3. QED
      BY <2>1, <2>2 DEF Lifecycle!Next
  <1>3. CASE MarkAnswer
    <2>1. cur \in Intents /\ execution.status \in AnswerStatuses
      BY <1>3 DEF MarkAnswer, WorkerInv, Reports
    <2>2. Lifecycle!Answer(cur, execution.status)
      BY <1>3, <2>1
      DEF MarkAnswer, WorkerInv, Undecided, TerminalStatuses, Lifecycle!Answer,
          Lifecycle!TerminalStatuses
    <2>3. QED
      BY <2>1, <2>2 DEF Lifecycle!Next, AnswerStatuses, Lifecycle!AnswerStatuses
  <1>4. CASE PersistOrder
    <2>1. cur \in Intents /\ attempts' = attempts
      BY <1>4 DEF PersistOrder, WorkerInv
    <2>2. CASE execution = NoReport
      <3>1. Lifecycle!Refuse(cur)
        BY <1>4, <2>1, <2>2
        DEF PersistOrder, WorkerInv, TerminalStatuses, Lifecycle!Refuse,
            Lifecycle!TerminalStatuses
      <3>2. QED
        BY <2>1, <3>1 DEF Lifecycle!Next
    <2>3. CASE execution # NoReport
      <3>1. orderStatus' = orderStatus
        BY <1>4, <2>1, <2>3 DEF PersistOrder, WorkerInv
      <3>2. QED
        BY <2>1, <3>1
    <2>4. QED
      BY <2>2, <2>3
  <1>5. CASE RecoverOrder
    <2>1. cur \in Intents
      BY <1>5 DEF RecoverOrder, WorkerInv
    <2>2. Lifecycle!Reconcile(cur)
      BY <1>5, <2>1
      DEF RecoverOrder, WorkerInv, AnswerStatuses, Lifecycle!Reconcile, Lifecycle!AnswerStatuses
    <2>3. QED
      BY <2>1, <2>2 DEF Lifecycle!Next
  <1>6. QED
    BY <1>1, <1>2, <1>3, <1>4, <1>5

\* Every other action leaves the orders table alone or spends an attempt.
LEMMA OtherStep ==
  ASSUME Inv, [Next]_vars,
         ~(RecordOrder \/ MarkFailure \/ MarkAnswer \/ PersistOrder \/ RecoverOrder)
  PROVE  [Lifecycle!Next]_(Lifecycle!vars)
  <1>1. orderStatus' = orderStatus
    <2>1. CASE Deliver
      BY <2>1 DEF Deliver, SkipDuplicate, Allow, Refuse, database
    <2>2. CASE Execute
      BY <2>2
      DEF Execute, CountAttempt, Exhausted, VenueAnswers, VenueRaises, SaveReport, database
    <2>3. CASE Process
      BY <2>3
      DEF Process, RecordSubmission, Publish, PersistLedger, PersistPosition, PersistPortfolio,
          DeadLetter, database
    <2>4. CASE Recover
      BY <2>4
      DEF Recover, Start, RecoverPending, RecoverFilled, RecoverWithoutReport, RecoverPosition,
          RecoverPortfolio, RecoverLedger, RecoveryDone, database
    <2>5. CASE Crash \/ StoreError \/ UNCHANGED vars
      BY <2>5 DEF Crash, StoreError, vars, database
    <2>6. QED
      BY <2>1, <2>2, <2>3, <2>4, <2>5 DEF Next
  <1>2. CASE attempts' = attempts
    BY <1>1, <1>2 DEF Lifecycle!vars
  <1>3. CASE SpendsAttempt
    <2>1. Lifecycle!Try(cur)
      BY <1>1, <1>3
      DEF CountAttempt, SpendsAttempt, MaxAttempts, TerminalStatuses, Lifecycle!Try,
          Lifecycle!MaxAttempts, Lifecycle!TerminalStatuses
    <2>2. QED
      BY <1>3, <2>1 DEF Lifecycle!Next, SpendsAttempt
  <1>4. QED
    BY <1>2, <1>3, AttemptStep

\* Whatever crashes, store errors and redeliveries do to the worker, a row of the orders
\* table only ever moves as OrderLifecycle says.
THEOREM Refinement == Spec => ImplementsLifecycle
  <1>1. Init => Lifecycle!Init
    BY DEF Init, Lifecycle!Init
  <1>2. Inv /\ [Next]_vars => [Lifecycle!Next]_(Lifecycle!vars)
    BY StatusStep, OtherStep
  <1>3. QED
    BY <1>1, <1>2, Invariance, PTL DEF Spec, ImplementsLifecycle, Lifecycle!Spec

-----------------------------------------------------------------------------
(* While nothing fails.  What the history of an order says of its rows. *)

\* What an order that was tried has left in the database.
TriedInv ==
    \A i \in Intents : attempts[i] > 0 => orderStatus[i] # "NONE" /\ "SUBMITTED" \in ledger[i]

\* While nothing fails, an order with no attempt left is pending in the hand of the worker
\* only, which waits for its answer.
AnsweredInv ==
    Faults = 0 =>
        \A i \in Intents :
            attempts[i] >= MaxAttempts /\ orderStatus[i] \in {"SUBMITTED", "RETRY"} =>
                i = cur /\ pc \in {"dispatch", "dispatch_failed", "mark_answer"}

\* Actions that write a row of the orders or of the ledger.
WritesRows ==
    \/ RecordOrder \/ RecordSubmission \/ CountAttempt \/ MarkFailure \/ MarkAnswer
    \/ PersistLedger \/ PersistOrder \/ RecoverOrder \/ RecoverLedger

\* Actions that write none of these, one by one.
ReadsRows ==
    \/ \E i \in Intents : SkipDuplicate(i) \/ Allow(i) \/ Refuse(i)
    \/ Exhausted \/ VenueAnswers \/ VenueRaises \/ SaveReport
    \/ Publish \/ PersistPosition \/ PersistPortfolio \/ DeadLetter
    \/ Start
    \/ \E i \in Intents : RecoverPending(i) \/ RecoverFilled(i) \/ RecoverWithoutReport(i)
    \/ RecoverPosition \/ RecoverPortfolio \/ RecoveryDone
    \/ Crash \/ StoreError \/ UNCHANGED vars

\* They leave the rows alone.
LEMMA RowsStep ==
  ASSUME [Next]_vars
  PROVE  WritesRows \/ (ReadsRows /\ UNCHANGED <<orderStatus, attempts, ledger>>)
  <1>1. WritesRows \/ ReadsRows
    BY DEF Next, Deliver, Execute, Process, Recover, WritesRows, ReadsRows
  <1>2. ASSUME NEW i \in Intents,
               \/ SkipDuplicate(i) \/ Allow(i) \/ Refuse(i)
               \/ RecoverPending(i) \/ RecoverFilled(i) \/ RecoverWithoutReport(i)
        PROVE  UNCHANGED <<orderStatus, attempts, ledger>>
    BY <1>2 DEF SkipDuplicate, Allow, Refuse, RecoverPending, RecoverFilled, RecoverWithoutReport,
                database
  <1>3. ASSUME \/ Exhausted \/ VenueAnswers \/ VenueRaises \/ SaveReport \/ Publish
               \/ PersistPosition \/ PersistPortfolio \/ DeadLetter \/ Start \/ RecoverPosition
               \/ RecoverPortfolio \/ RecoveryDone \/ Crash \/ StoreError \/ UNCHANGED vars
        PROVE  UNCHANGED <<orderStatus, attempts, ledger>>
    BY <1>3 DEF Exhausted, VenueAnswers, VenueRaises, SaveReport, Publish, PersistPosition,
                PersistPortfolio, DeadLetter, Start, RecoverPosition, RecoverPortfolio,
                RecoveryDone, Crash, StoreError, vars, database
  <1>4. QED
    BY <1>1, <1>2, <1>3 DEF ReadsRows

\* An order that was tried has its row and its entry from then on.
LEMMA TriedKept ==
  ASSUME Inv, TriedInv, [Next]_vars
  PROVE  TriedInv'
  <1> USE PipelineAssumption DEF Inv, TypeOK, TriedInv
  <1>1. CASE UNCHANGED <<orderStatus, attempts, ledger>>
    BY <1>1
  <1>2. CASE WritesRows
    <2>1. cur \in Intents
      BY <1>2 DEF WritesRows, WorkerInv, RecordOrder, RecordSubmission, CountAttempt, MarkFailure,
                  MarkAnswer, PersistLedger, PersistOrder, RecoverOrder, RecoverLedger
    <2>2. CASE RecordOrder \/ RecordSubmission \/ PersistLedger \/ RecoverLedger
      BY <2>1, <2>2 DEF RecordOrder, RecordSubmission, PersistLedger, RecoverLedger
    <2>3. CASE CountAttempt
      BY <2>1, <2>3 DEF CountAttempt, WorkerInv
    <2>4. CASE MarkFailure \/ MarkAnswer \/ PersistOrder \/ RecoverOrder
      <3>1. execution # NoReport => execution.status # "NONE"
        BY DEF Reports, AnswerStatuses
      <3>2. CASE MarkAnswer
        BY <2>1, <3>1, <3>2, EmptyTypes DEF MarkAnswer, WorkerInv
      <3>3. CASE MarkFailure \/ PersistOrder \/ RecoverOrder
        BY <2>1, <3>1, <3>3 DEF MarkFailure, PersistOrder, RecoverOrder
      <3>4. QED
        BY <2>4, <3>2, <3>3
    <2>5. QED
      BY <1>2, <2>2, <2>3, <2>4 DEF WritesRows
  <1>3. QED
    BY <1>1, <1>2, RowsStep

\* Faults are counted.
LEMMA FaultsGrow ==
  ASSUME Inv, [Next]_vars
  PROVE  /\ crashes \in Nat /\ storeErrors \in Nat /\ Faults \in Nat
         /\ Crash => crashes' = crashes + 1 /\ storeErrors' = storeErrors
         /\ StoreError => crashes' = crashes /\ storeErrors' = storeErrors + 1
         /\ ~Crash /\ ~StoreError => UNCHANGED <<crashes, storeErrors>>
  <1>1. crashes \in Nat /\ storeErrors \in Nat
    BY DEF Inv, TypeOK
  <1>2. ASSUME NEW i \in Intents,
               \/ SkipDuplicate(i) \/ Allow(i) \/ Refuse(i)
               \/ RecoverPending(i) \/ RecoverFilled(i) \/ RecoverWithoutReport(i)
        PROVE  UNCHANGED <<crashes, storeErrors>>
    BY <1>2 DEF SkipDuplicate, Allow, Refuse, RecoverPending, RecoverFilled, RecoverWithoutReport,
                bounds
  <1>3. WritesRows => UNCHANGED <<crashes, storeErrors>>
    BY DEF WritesRows, RecordOrder, RecordSubmission, CountAttempt, MarkFailure, MarkAnswer,
           PersistLedger, PersistOrder, RecoverOrder, RecoverLedger, bounds
  <1>4. ASSUME \/ Exhausted \/ VenueAnswers \/ VenueRaises \/ SaveReport \/ Publish
               \/ PersistPosition \/ PersistPortfolio \/ DeadLetter \/ Start \/ RecoverPosition
               \/ RecoverPortfolio \/ RecoveryDone \/ UNCHANGED vars
        PROVE  UNCHANGED <<crashes, storeErrors>>
    BY <1>4 DEF Exhausted, VenueAnswers, VenueRaises, SaveReport, Publish, PersistPosition,
                PersistPortfolio, DeadLetter, Start, RecoverPosition, RecoverPortfolio,
                RecoveryDone, vars, bounds
  <1>5. ~Crash /\ ~StoreError => UNCHANGED <<crashes, storeErrors>>
    BY <1>2, <1>3, <1>4, RowsStep DEF ReadsRows
  <1>6. QED
    BY <1>1, <1>5 DEF Crash, StoreError, Faults

\* Without a fault an order runs out of attempts in the hand of the worker.
LEMMA AnsweredKept ==
  ASSUME Inv, TriedInv, AnsweredInv, [Next]_vars
  PROVE  AnsweredInv'
  <1> USE PipelineAssumption DEF Inv, TypeOK, AnsweredInv, MaxAttempts
  <1>1. SUFFICES ASSUME Faults' = 0
                 PROVE  \A i \in Intents :
                          /\ attempts'[i] >= MaxAttempts
                          /\ orderStatus'[i] \in {"SUBMITTED", "RETRY"}
                          => i = cur' /\ pc' \in {"dispatch", "dispatch_failed", "mark_answer"}
    OBVIOUS
  <1>2. Faults = 0 /\ ~Crash /\ ~StoreError
    BY <1>1, FaultsGrow DEF Faults
  <1>3. \A i \in Intents :
           attempts[i] >= MaxAttempts /\ orderStatus[i] \in {"SUBMITTED", "RETRY"} =>
                i = cur /\ pc \in {"dispatch", "dispatch_failed", "mark_answer"}
    BY <1>2
  <1>4. CASE VenueAnswers \/ VenueRaises
    BY <1>3, <1>4 DEF VenueAnswers, VenueRaises, Goto, database
  <1>5. CASE /\ ReadsRows /\ UNCHANGED <<orderStatus, attempts, ledger>>
             /\ ~VenueAnswers /\ ~VenueRaises
    <2>1. CASE UNCHANGED vars
      BY <1>3, <2>1 DEF vars, worker, database
    <2>2. CASE ~UNCHANGED vars
      <3>1. pc \notin {"dispatch", "dispatch_failed", "mark_answer"}
        BY <1>2, <1>5, <2>2
           DEF ReadsRows, SkipDuplicate, Allow, Refuse, Delivered, Exhausted, SaveReport, Publish,
               PersistPosition, PersistPortfolio, DeadLetter, Start, RecoverPending, RecoverFilled,
               RecoverWithoutReport, RecoverPosition, RecoverPortfolio, RecoveryDone
      <3>2. QED
        BY <1>3, <1>5, <3>1
    <2>3. QED
      BY <2>1, <2>2
  <1>6. CASE WritesRows
    <2>1. cur \in Intents
      BY <1>6 DEF WritesRows, WorkerInv, RecordOrder, RecordSubmission, CountAttempt, MarkFailure,
                  MarkAnswer, PersistLedger, PersistOrder, RecoverOrder, RecoverLedger
    <2>2. CASE RecordOrder
      BY <1>3, <2>1, <2>2 DEF RecordOrder, TriedInv
    <2>3. CASE RecordSubmission \/ PersistLedger \/ RecoverLedger
      BY <1>3, <2>3 DEF RecordSubmission, PersistLedger, RecoverLedger
    <2>4. CASE CountAttempt
      BY <1>3, <2>1, <2>4 DEF CountAttempt, Goto
    <2>5. CASE MarkFailure
      BY <1>3, <2>1, <2>5 DEF MarkFailure
    <2>6. CASE MarkAnswer
      BY <1>3, <2>1, <2>6 DEF MarkAnswer, WorkerInv, Reports, AnswerStatuses
    <2>7. CASE PersistOrder
      BY <1>3, <2>1, <2>7 DEF PersistOrder, Reports, AnswerStatuses
    <2>8. CASE RecoverOrder
      BY <1>3, <2>1, <2>8 DEF RecoverOrder
    <2>9. QED
      BY <1>6, <2>2, <2>3, <2>4, <2>5, <2>6, <2>7, <2>8 DEF WritesRows
  <1>7. QED
    BY <1>4, <1>5, <1>6, RowsStep

\* While nothing fails, a batch is given up only when its order has an answer: of the
\* orders whose attempts are used up (the end of the loop of _execute_intent) none is
\* left pending for nobody to recover.
THEOREM GivenUpIsAnswered == Spec => []ExhaustedIsAnswered
  <1> DEFINE Quiet == Faults = 0 /\ pc = "dead_letter" => attempts[cur] >= MaxAttempts
  <1>1. Init => TriedInv /\ AnsweredInv /\ Quiet
    BY PipelineAssumption DEF Init, TriedInv, AnsweredInv, MaxAttempts
  <1>2. Inv /\ Quiet /\ [Next]_vars => Quiet'
    <2>1. SUFFICES ASSUME Inv, Quiet, [Next]_vars, Faults' = 0, pc' = "dead_letter"
                   PROVE  attempts'[cur'] >= MaxAttempts
      BY DEF MaxAttempts
    <2>2. Faults = 0 /\ ~Crash /\ ~StoreError
      BY <2>1, FaultsGrow DEF Faults
    <2>3. CASE WritesRows
      BY <2>1, <2>3 DEF WritesRows, RecordOrder, RecordSubmission, CountAttempt, MarkFailure,
             MarkAnswer, PersistLedger, PersistOrder, RecoverOrder, RecoverLedger, Goto, Release
    <2>4. CASE Exhausted
      BY <2>1, <2>4 DEF Exhausted, Goto, Release, database
    <2>5. CASE UNCHANGED vars
      BY <2>1, <2>2, <2>5 DEF vars, database, worker
    <2>6. CASE ReadsRows /\ ~Exhausted /\ ~UNCHANGED vars
      BY <2>1, <2>2, <2>6
         DEF ReadsRows, SkipDuplicate, Allow, Refuse, Delivered, VenueAnswers, VenueRaises,
             SaveReport, Publish, PersistPosition, PersistPortfolio, DeadLetter, Start,
             RecoverPending, RecoverFilled, RecoverWithoutReport, RecoverPosition,
             RecoverPortfolio, RecoveryDone, Goto, Release, worker
    <2>7. QED
      BY <2>1, <2>3, <2>4, <2>5, <2>6, RowsStep
  <1>3. Inv /\ AnsweredInv /\ Quiet => ExhaustedIsAnswered
    <2>1. Inv /\ pc = "dead_letter" => cur \in Intents
      BY DEF Inv, WorkerInv
    <2>2. QED
      BY <2>1 DEF AnsweredInv, ExhaustedIsAnswered
  <1>4. QED
    BY <1>1, <1>2, <1>3, TriedKept, AnsweredKept, Invariance, PTL DEF Spec

-----------------------------------------------------------------------------
(* Booking. *)

\* The first start finds nothing to recover.
FreshInv ==
    crashes = 0 /\ (recovering \/ pc = "down") =>
        /\ cur = NoIntent /\ todo = {}
        /\ \A i \in Intents : ledger[i] = {}

\* The ledger is closed before the position is written.
LedgerInv ==
    pc \in {"persist_order", "persist_position", "persist_portfolio"} =>
        IF execution = NoReport THEN "REJECTED" \in ledger[cur] ELSE "RECONCILED" \in ledger[cur]

\* What is still to be looked at is still to be recovered.
TodoInv == \A i \in todo : Recoverable(i)

\* Crashes after the first.
Rebookings == AtLeastZero(crashes - 1)

\* Booked by the recovery that is under way.
Booked(i) == i = cur /\ pc \in {"recover_portfolio", "recover_order", "recover_ledger"}

\* There is an execution in hand that is not booked yet, or will be.
HasExecution ==
    \/ pc \in {"dispatch", "mark_answer", "save_report", "recover_position"}
    \/ /\ pc \in {"publish", "persist_ledger", "persist_order", "persist_position"}
       /\ execution # NoReport

\* Every booking to come has an attempt, or a crash after the first, to go with it.
BookingInv ==
    /\ \A i \in Intents : applied[i] <= attempts[i] + Rebookings
    /\ \A i \in Intents :
         orderStatus[i] = "FILLED" /\ "RECONCILED" \notin ledger[i] /\ ~Booked(i) =>
             applied[i] < attempts[i] + Rebookings
    /\ HasExecution => applied[cur] < attempts[cur] + Rebookings

\* Only a start after a crash has anything in hand.
LEMMA FreshKept ==
  ASSUME Inv, FreshInv, [Next]_vars
  PROVE  FreshInv'
  <1> USE PipelineAssumption DEF Inv, TypeOK, WorkerInv, FreshInv
  <1>1. SUFFICES ASSUME crashes' = 0, recovering' \/ pc' = "down"
                 PROVE  /\ cur' = NoIntent /\ todo' = {}
                        /\ \A i \in Intents : ledger'[i] = {}
    OBVIOUS
  <1>2. crashes = 0 /\ ~Crash
    BY <1>1, FaultsGrow
  <1>3. CASE UNCHANGED vars
    BY <1>1, <1>2, <1>3 DEF vars, worker, database
  <1>4. CASE Start
    <2>1. cur = NoIntent /\ todo = {} /\ \A i \in Intents : ledger[i] = {}
      BY <1>2, <1>4 DEF Start
    <2>2. \A i \in Intents : ~Recoverable(i)
      BY <2>1 DEF Recoverable
    <2>3. QED
      BY <1>4, <2>1, <2>2 DEF Start, database
  <1>5. CASE WritesRows
    <2>1. cur \in Intents /\ recovering' = recovering /\ pc' # "down"
      BY <1>5 DEF WritesRows, RecordOrder, RecordSubmission, CountAttempt, MarkFailure, MarkAnswer,
                  PersistLedger, PersistOrder, RecoverOrder, RecoverLedger, Goto, Release
    <2>2. QED
      BY <1>1, <1>2, <2>1
  <1>6. CASE \/ Exhausted \/ VenueAnswers \/ VenueRaises \/ SaveReport \/ Publish \/ PersistPosition
             \/ PersistPortfolio \/ DeadLetter \/ RecoverPosition \/ RecoverPortfolio \/ StoreError
    <2>1. cur \in Intents /\ recovering' = recovering /\ pc' # "down"
      BY <1>6 DEF Exhausted, VenueAnswers, VenueRaises, SaveReport, Publish, PersistPosition,
                  PersistPortfolio, DeadLetter, RecoverPosition, RecoverPortfolio, StoreError,
                  Goto, Release, ProcessSteps
    <2>2. QED
      BY <1>1, <1>2, <2>1
  <1>7. CASE RecoveryDone
    BY <1>1, <1>7 DEF RecoveryDone
  <1>8. ASSUME NEW i \in Intents, RecoverPending(i) \/ RecoverFilled(i) \/ RecoverWithoutReport(i)
        PROVE  FALSE
    BY <1>2, <1>8 DEF RecoverPending, RecoverFilled, RecoverWithoutReport, OnlyRecovery
  <1>9. ASSUME NEW i \in Intents, SkipDuplicate(i) \/ Allow(i) \/ Refuse(i)
        PROVE  FALSE
    <2>1. pc = "idle" /\ ~recovering /\ recovering' = recovering /\ pc' # "down"
      BY <1>9 DEF SkipDuplicate, Allow, Refuse, Delivered, OnlyProcess, worker
    <2>2. QED
      BY <1>1, <2>1
  <1>10. QED
    BY <1>2, <1>3, <1>4, <1>5, <1>6, <1>7, <1>8, <1>9, RowsStep DEF ReadsRows

\* What PersistLedger writes stays.
LEMMA LedgerKept ==
  ASSUME Inv, LedgerInv, [Next]_vars
  PROVE  LedgerInv'
  <1> USE PipelineAssumption DEF Inv, TypeOK, LedgerInv
  <1>1. CASE UNCHANGED vars
    BY <1>1 DEF vars, worker, database
  <1>2. CASE PersistLedger
    <2>1. cur \in Intents
      BY <1>2 DEF PersistLedger, WorkerInv
    <2>2. QED
      BY <1>2, <2>1 DEF PersistLedger, ExecutionLedger, Goto
  <1>3. CASE PersistOrder \/ PersistPosition
    BY <1>3 DEF PersistOrder, PersistPosition, Goto
  <1>4. SUFFICES ASSUME ~UNCHANGED vars, ~PersistLedger, ~PersistOrder, ~PersistPosition
                 PROVE  pc' \notin {"persist_order", "persist_position", "persist_portfolio"}
    BY <1>1, <1>2, <1>3
  <1>5. CASE WritesRows
    BY <1>4, <1>5 DEF WritesRows, RecordOrder, RecordSubmission, CountAttempt, MarkFailure,
           MarkAnswer, RecoverOrder, RecoverLedger, Goto, Release
  <1>6. CASE ReadsRows
    BY <1>4, <1>6
       DEF ReadsRows, SkipDuplicate, Allow, Refuse, Delivered, Exhausted, VenueAnswers, VenueRaises,
           SaveReport, Publish, PersistPortfolio, DeadLetter, Start, RecoverPending, RecoverFilled,
           RecoverWithoutReport, RecoverPosition, RecoverPortfolio, RecoveryDone, Crash, StoreError,
           Goto, Release, worker
  <1>7. QED
    BY <1>5, <1>6, RowsStep

\* Recovery writes the rows of the order in hand only.
LEMMA TodoKept ==
  ASSUME Inv, TodoInv, [Next]_vars
  PROVE  TodoInv'
  <1> USE PipelineAssumption DEF Inv, TypeOK, TodoInv, Recoverable
  <1>1. CASE WritesRows
    <2>1. cur \in Intents /\ cur \notin todo /\ todo' = todo
      BY <1>1 DEF WorkerInv, WritesRows, RecordOrder, RecordSubmission, CountAttempt, MarkFailure,
                  MarkAnswer, PersistLedger, PersistOrder, RecoverOrder, RecoverLedger,
                  Goto, Release
    <2>2. \A i \in Intents \ {cur} : orderStatus'[i] = orderStatus[i] /\ ledger'[i] = ledger[i]
      BY <1>1, <2>1
         DEF WritesRows, RecordOrder, RecordSubmission, CountAttempt, MarkFailure, MarkAnswer,
             PersistLedger, PersistOrder, RecoverOrder, RecoverLedger
    <2>3. QED
      BY <2>1, <2>2
  <1>2. CASE UNCHANGED <<orderStatus, ledger>> /\ todo' \subseteq todo
    BY <1>2
  <1>3. CASE UNCHANGED <<orderStatus, ledger>> /\ Start
    BY <1>3 DEF Start
  <1>4. ASSUME ReadsRows, ~Start
        PROVE  todo' \subseteq todo
    BY <1>4
       DEF ReadsRows, SkipDuplicate, Allow, Refuse, Delivered, Exhausted, VenueAnswers, VenueRaises,
           SaveReport, Publish, PersistPosition, PersistPortfolio, DeadLetter, RecoverPending,
           RecoverFilled, RecoverWithoutReport, RecoverPosition, RecoverPortfolio, RecoveryDone,
           Crash, StoreError, Goto, Release, worker, vars
  <1>5. QED
    BY <1>1, <1>2, <1>3, <1>4, RowsStep

\* Crashes after the first are counted.
LEMMA RebookingsGrow ==
  ASSUME Inv, [Next]_vars
  PROVE  /\ Rebookings \in Nat /\ Rebookings' \in Nat /\ Rebookings' >= Rebookings
         /\ ~Crash => Rebookings' = Rebookings
         /\ Crash /\ crashes # 0 => Rebookings' = Rebookings + 1
  <1>1. crashes \in Nat
    BY FaultsGrow
  <1>2. CASE Crash
    BY <1>1, <1>2, FaultsGrow DEF Rebookings, AtLeastZero
  <1>3. CASE ~Crash
    BY <1>1, <1>3, FaultsGrow DEF Rebookings, AtLeastZero
  <1>4. QED
    BY <1>2, <1>3

\* Every booking is one that was due.
LEMMA BookingKept ==
  ASSUME Inv, FreshInv, LedgerInv, TodoInv, BookingInv, [Next]_vars
  PROVE  BookingInv'
  <1> DEFINE R == Rebookings
  <1> USE PipelineAssumption DEF Inv, TypeOK
  <1>1. R \in Nat /\ R' \in Nat /\ R' >= R /\ (~Crash => R' = R)
    BY RebookingsGrow
  <1>2. /\ \A i \in Intents : applied[i] <= attempts[i] + R
        /\ \A i \in Intents :
             orderStatus[i] = "FILLED" /\ "RECONCILED" \notin ledger[i] /\ ~Booked(i) =>
                 applied[i] < attempts[i] + R
        /\ HasExecution => applied[cur] < attempts[cur] + R
    BY DEF BookingInv
  <1>3. SUFFICES /\ \A i \in Intents : applied'[i] <= attempts'[i] + R'
                 /\ \A i \in Intents :
                      /\ orderStatus'[i] = "FILLED" /\ "RECONCILED" \notin ledger'[i]
                      /\ ~(i = cur' /\ pc' \in {"recover_portfolio", "recover_order",
                                                "recover_ledger"})
                      => applied'[i] < attempts'[i] + R'
                 /\ HasExecution' => applied'[cur'] < attempts'[cur'] + R'
    BY DEF BookingInv, Booked
  <1> HIDE DEF R
  <1>4. CASE Crash
    <2>1. /\ pc' = "down" /\ cur' = NoIntent /\ ~HasExecution'
          /\ UNCHANGED <<applied, attempts, orderStatus, ledger>>
      BY <1>4 DEF Crash, Release, database, HasExecution
    <2>2. ASSUME NEW i \in Intents, orderStatus[i] = "FILLED", "RECONCILED" \notin ledger[i]
          PROVE  applied[i] < attempts[i] + R'
      <3>1. CASE ~Booked(i)
        BY <1>1, <1>2, <2>2, <3>1
      <3>2. CASE Booked(i)
        <4>1. recovering /\ cur # NoIntent
          BY <3>2 DEF Booked, WorkerInv, OnlyRecovery
        <4>2. crashes # 0
          BY <4>1 DEF FreshInv
        <4>3. R' = R + 1
          BY <1>4, <4>2, RebookingsGrow DEF R
        <4>4. QED
          BY <1>1, <1>2, <4>3
      <3>3. QED
        BY <3>1, <3>2
    <2>3. QED
      BY <1>1, <1>2, <2>1, <2>2
  <1>5. CASE UNCHANGED vars
    BY <1>1, <1>2, <1>5 DEF vars, database, worker, bounds, HasExecution, Booked, Crash
  <1>6. ASSUME ~Crash, ~HasExecution', UNCHANGED <<applied, attempts, orderStatus, ledger>>,
               \A i \in Intents : ~Booked(i)
        PROVE  BookingInv'
    BY <1>1, <1>2, <1>6 DEF BookingInv, Booked, R
  <1>7. ASSUME NEW i \in Intents,
               \/ SkipDuplicate(i) \/ Allow(i) \/ Refuse(i)
               \/ RecoverPending(i) \/ RecoverWithoutReport(i)
        PROVE  BookingInv'
    <2>1. /\ ~Crash /\ UNCHANGED <<applied, attempts, orderStatus, ledger>>
          /\ \A j \in Intents : ~Booked(j)
      BY <1>7 DEF SkipDuplicate, Allow, Refuse, RecoverPending, RecoverWithoutReport, Delivered,
                  database, bounds, Booked, Crash
    <2>2. ~HasExecution'
      BY <1>7 DEF SkipDuplicate, Allow, Refuse, RecoverPending, RecoverWithoutReport, Delivered,
                  Load, worker, HasExecution, WorkerInv, BeforeAnswer
    <2>3. QED
      BY <1>6, <2>1, <2>2
  <1>8. ASSUME NEW i \in Intents, RecoverFilled(i)
        PROVE  BookingInv'
    <2>1. /\ ~Crash /\ UNCHANGED <<applied, attempts, orderStatus, ledger>>
          /\ \A j \in Intents : ~Booked(j)
      BY <1>8 DEF RecoverFilled, database, bounds, Booked, Crash
    <2>2. cur' = i /\ orderStatus[i] = "FILLED" /\ "RECONCILED" \notin ledger[i]
      BY <1>8 DEF RecoverFilled, TodoInv, Recoverable
    <2>3. applied'[cur'] < attempts'[cur'] + R'
      BY <1>1, <1>2, <2>1, <2>2
    <2>4. QED
      BY <1>1, <1>2, <2>1, <2>3 DEF BookingInv, Booked, R
  <1>9. ASSUME \/ Exhausted \/ VenueRaises \/ PersistPortfolio \/ DeadLetter \/ Start
               \/ RecoveryDone \/ StoreError
        PROVE  BookingInv'
    <2>1. /\ ~Crash /\ UNCHANGED <<applied, attempts, orderStatus, ledger>>
          /\ \A j \in Intents : ~Booked(j)
      BY <1>9 DEF Exhausted, VenueRaises, PersistPortfolio, DeadLetter, Start, RecoveryDone,
                  StoreError, database, Booked, Crash, bounds, ProcessSteps
    <2>2. ~HasExecution'
      BY <1>9 DEF Exhausted, VenueRaises, PersistPortfolio, DeadLetter, Start, RecoveryDone,
                  StoreError, Goto, Release, HasExecution
    <2>3. QED
      BY <1>6, <2>1, <2>2
  <1>10. CASE VenueAnswers \/ SaveReport \/ Publish
    <2>1. /\ ~Crash /\ UNCHANGED <<applied, attempts, orderStatus, ledger, cur>>
          /\ \A j \in Intents : ~Booked(j)
      BY <1>10 DEF VenueAnswers, SaveReport, Publish, Goto, database, Booked, Crash, bounds
    <2>2. HasExecution' => HasExecution
      BY <1>10 DEF VenueAnswers, SaveReport, Publish, Goto, HasExecution
    <2>3. QED
      BY <1>1, <1>2, <2>1, <2>2 DEF BookingInv, Booked, R
  <1>11. (cur \in Intents /\ ~Crash)
         \/ ~(WritesRows \/ PersistPosition \/ RecoverPosition \/ RecoverPortfolio)
    BY DEF WorkerInv, WritesRows, RecordOrder, RecordSubmission, CountAttempt, MarkFailure,
           MarkAnswer, PersistLedger, PersistOrder, RecoverOrder, RecoverLedger, PersistPosition,
           RecoverPosition, RecoverPortfolio, Crash, bounds
  <1>12. CASE RecordOrder \/ RecordSubmission
    <2>1. ~HasExecution' /\ \A j \in Intents : ~Booked(j)
      BY <1>12 DEF RecordOrder, RecordSubmission, Goto, HasExecution, Booked
    <2>2. /\ UNCHANGED <<applied, attempts>>
          /\ \A i \in Intents : orderStatus'[i] = "FILLED" => orderStatus[i] = "FILLED"
          /\ \A i \in Intents : "RECONCILED" \in ledger[i] => "RECONCILED" \in ledger'[i]
      BY <1>11, <1>12 DEF RecordOrder, RecordSubmission, WritesRows
    <2>3. QED
      BY <1>1, <1>2, <1>11, <1>12, <2>1, <2>2 DEF WritesRows
  <1>13. CASE CountAttempt
    <2>1. /\ \A i \in Intents : attempts'[i] = IF i = cur THEN attempts[i] + 1 ELSE attempts[i]
          /\ cur' = cur /\ cur \in Intents /\ UNCHANGED <<applied, orderStatus, ledger>>
          /\ \A j \in Intents : ~Booked(j)
      BY <1>11, <1>13 DEF CountAttempt, Goto, WritesRows, Booked
    <2>2. R' = R
      BY <1>1, <1>11, <1>13 DEF WritesRows
    <2>3. QED
      BY <1>1, <1>2, <2>1, <2>2
  <1>14. CASE MarkFailure
    <2>1. /\ UNCHANGED <<applied, attempts, ledger>>
          /\ ~HasExecution' /\ \A j \in Intents : ~Booked(j)
          /\ \A i \in Intents : orderStatus'[i] = "FILLED" => orderStatus[i] = "FILLED"
      BY <1>11, <1>14 DEF MarkFailure, Goto, HasExecution, Booked, WritesRows
    <2>2. QED
      BY <1>1, <1>2, <1>11, <1>14, <2>1 DEF WritesRows
  <1>15. CASE MarkAnswer \/ PersistLedger \/ PersistOrder
    <2>1. /\ UNCHANGED <<applied, attempts, cur, execution>> /\ cur \in Intents
          /\ \A j \in Intents : ~Booked(j)
          /\ HasExecution' => HasExecution
      BY <1>11, <1>15
         DEF MarkAnswer, PersistLedger, PersistOrder, Goto, HasExecution, Booked, WritesRows
    <2>2. /\ \A i \in Intents : orderStatus'[i] = "FILLED" =>
                orderStatus[i] = "FILLED" \/ (i = cur /\ HasExecution)
          /\ \A i \in Intents : "RECONCILED" \in ledger[i] => "RECONCILED" \in ledger'[i]
      BY <1>15, <2>1 DEF MarkAnswer, PersistLedger, PersistOrder, HasExecution
    <2>3. R' = R
      BY <1>1, <1>11, <1>15 DEF WritesRows
    <2>4. QED
      BY <1>1, <1>2, <2>1, <2>2, <2>3
  <1>16. CASE PersistPosition
    <2>1. /\ cur \in Intents /\ UNCHANGED <<attempts, orderStatus, ledger>> /\ ~HasExecution'
          /\ \A i \in Intents \ {cur} : applied'[i] = applied[i]
          /\ execution = NoReport => applied'[cur] = applied[cur]
          /\ execution # NoReport => applied'[cur] = applied[cur] + 1
          /\ \A j \in Intents : ~Booked(j)
      BY <1>11, <1>16 DEF PersistPosition, Goto, HasExecution, Booked
    <2>2. execution # NoReport => HasExecution /\ "RECONCILED" \in ledger[cur]
      BY <1>16 DEF PersistPosition, LedgerInv, HasExecution
    <2>3. R' = R
      BY <1>1, <1>11, <1>16
    <2>4. CASE execution = NoReport
      <3>1. applied' = applied
        BY <1>16, <2>4 DEF PersistPosition
      <3>2. QED
        BY <1>2, <2>1, <2>3, <3>1
    <2>5. CASE execution # NoReport
      <3>1. applied'[cur] <= attempts[cur] + R
        BY <1>1, <1>2, <2>1, <2>2, <2>5
      <3>2. \A i \in Intents : applied'[i] <= attempts[i] + R
        BY <1>2, <2>1, <3>1
      <3>3. \A i \in Intents :
               orderStatus[i] = "FILLED" /\ "RECONCILED" \notin ledger[i] =>
                 applied'[i] < attempts[i] + R
        BY <1>2, <2>1, <2>2, <2>5
      <3>4. QED
        BY <2>1, <2>3, <3>2, <3>3
    <2>6. QED
      BY <2>4, <2>5
  <1>17. CASE RecoverPosition
    <2>1. /\ cur \in Intents /\ UNCHANGED <<attempts, orderStatus, ledger, cur>> /\ ~HasExecution'
          /\ \A i \in Intents \ {cur} : applied'[i] = applied[i]
          /\ applied'[cur] = applied[cur] + 1
          /\ pc' = "recover_portfolio" /\ HasExecution
          /\ \A j \in Intents : ~Booked(j)
      BY <1>11, <1>17 DEF RecoverPosition, Goto, HasExecution, Booked
    <2>2. R' = R
      BY <1>1, <1>11, <1>17
    <2>3. applied'[cur] <= attempts[cur] + R
      BY <1>1, <1>2, <2>1
    <2>4. QED
      BY <1>2, <2>1, <2>2, <2>3
  <1>18. CASE RecoverPortfolio \/ RecoverOrder \/ RecoverLedger
    <2>1. /\ cur \in Intents /\ UNCHANGED <<applied, attempts>> /\ ~HasExecution'
          /\ \A i \in Intents \ {cur} : orderStatus'[i] = orderStatus[i] /\ ledger'[i] = ledger[i]
      BY <1>11, <1>18
         DEF RecoverPortfolio, RecoverOrder, RecoverLedger, Goto, Release, HasExecution, WritesRows
    <2>2. \/ cur' = cur /\ pc' \in {"recover_order", "recover_ledger"}
          \/ "RECONCILED" \in ledger'[cur]
      BY <1>18, <2>1 DEF RecoverPortfolio, RecoverOrder, RecoverLedger, Goto
    <2>3. R' = R
      BY <1>1, <1>11, <1>18 DEF WritesRows
    <2>4. QED
      BY <1>2, <2>1, <2>2, <2>3 DEF Booked
  <1>19. CASE BookingInv'
    BY <1>19 DEF BookingInv, Booked, R
  <1>20. QED
    BY <1>4, <1>5, <1>7, <1>8, <1>9, <1>10, <1>12, <1>13, <1>14, <1>15, <1>16, <1>17, <1>18, <1>19,
       RowsStep DEF ReadsRows, WritesRows

\* A report is booked into the position once for its attempt; only a recovery that dies
\* after booking makes the next one book it again (recover_pending_executions).
THEOREM BookingsAreBacked == Spec => []BookedPerAttempt
  <1> DEFINE IInv == FreshInv /\ LedgerInv /\ TodoInv /\ BookingInv
  <1>1. Init => IInv
    BY DEF Init, FreshInv, LedgerInv, TodoInv, BookingInv, Rebookings, AtLeastZero, HasExecution,
           Booked
  <1>2. Inv /\ IInv /\ [Next]_vars => IInv'
    BY FreshKept, LedgerKept, TodoKept, BookingKept
  <1>3. IInv => BookedPerAttempt
    BY DEF BookingInv, Rebookings, BookedPerAttempt
  <1>4. QED
    BY <1>1, <1>2, <1>3, Invariance, PTL DEF Spec

-----------------------------------------------------------------------------
(* The counter of open positions.                                            *)

\* What the worker has in hand of the books: the loaded rows until an execution is
\* reconciled, and the reconciled ones after.
Loaded == {"record_order", "record_submission", "attempt", "dispatch", "dispatch_failed",
           "mark_answer", "save_report"}
Writing == {"publish", "persist_ledger", "persist_order", "persist_position"}
Executed == pc = "recover_position" \/ (pc \in Writing /\ execution # NoReport)

InMemory == memPosition = positions[TokenOf[cur]] /\ memPortfolio = portfolio
Reconciled ==
    /\ memPosition.open = (ActionOf[cur] = "BUY")
    /\ memPortfolio.open = IF ActionOf[cur] = "BUY" THEN portfolio.open + 1
                                                    ELSE AtLeastZero(portfolio.open - 1)

MemoryInv ==
    /\ pc \in Loaded \/ (pc \in Writing /\ execution = NoReport) => InMemory
    /\ Executed => Reconciled
    /\ ~recovering /\ (pc \in Loaded \/ Executed) =>
         PreflightHolds(ActionOf[cur], positions[TokenOf[cur]])

\* Steps of process_events at which the order in hand is not left to recovery.
InProgress ==
    /\ ~recovering
    /\ \/ pc \in {"record_order", "record_submission", "attempt"} /\ attempts[cur] < MaxAttempts
       \/ pc \in {"dispatch", "dispatch_failed", "mark_answer", "save_report", "publish",
                  "persist_ledger"}

\* Orders that a start would recover, except the one in hand while it is worked on.
LeftOver == {i \in Intents : Recoverable(i) /\ ~(i = cur /\ (InProgress \/ recovering))}

\* Recovery has an order in hand and has not booked it.
ToBook == recovering /\ cur # NoIntent /\ ~Booked(cur)

\* How far a counter n is from the open positions, and can get by recovering what is left.
Drift(n) == Distance(n, Cardinality(OpenTokens)) + Cardinality(LeftOver)

\* Every fault leaves one order to be recovered or one of the two writes undone, and
\* recovering an order uses up what the fault that left it there has counted.
DriftInv ==
    /\ IsFiniteSet(OpenTokens) /\ IsFiniteSet(LeftOver)
    /\ pc # "persist_portfolio" => Drift(portfolio.open) <= Faults
    /\ ToBook => Drift(portfolio.open) < Faults
    /\ pc \in {"persist_portfolio", "recover_portfolio"} => Drift(memPortfolio.open) <= Faults
    /\ pc = "persist_portfolio" => Drift(portfolio.open) <= Faults + 1

\* Which orders a step leaves to recovery: none that was not left before, except the one
\* in hand when a fault, or an exhausted recovery, ends the work on it.
LEMMA LeftOverStep ==
  ASSUME Inv, TriedInv, LedgerInv, TodoInv, [Next]_vars
  PROVE  /\ LeftOver' \subseteq LeftOver \cup {cur}
         /\ ~Crash /\ ~StoreError /\ ~(Exhausted /\ recovering) => LeftOver' \subseteq LeftOver
         /\ pc = "persist_portfolio" => LeftOver' \subseteq LeftOver
         /\ \A i \in Intents :
              RecoverPending(i) \/ RecoverFilled(i) =>
                  i \in LeftOver /\ LeftOver' \subseteq LeftOver \ {i}
  <1> USE PipelineAssumption DEF Inv, TypeOK, LeftOver, Recoverable
  <1>1. CASE WritesRows
    <2>1. /\ cur \in Intents /\ cur' \in {cur, NoIntent} /\ recovering' = recovering
          /\ \A i \in Intents \ {cur} : /\ orderStatus'[i] = orderStatus[i]
                                        /\ ledger'[i] = ledger[i]
      BY <1>1 DEF WorkerInv, WritesRows, RecordOrder, RecordSubmission, CountAttempt, MarkFailure,
                  MarkAnswer, PersistLedger, PersistOrder, RecoverOrder, RecoverLedger,
                  Goto, Release
    <2>2. cur \in LeftOver' => cur \in LeftOver
      <3>1. CASE RecordOrder
        BY <2>1, <3>1
           DEF RecordOrder, TriedInv, InProgress, MaxAttempts, Goto, OnlyProcess, WorkerInv
      <3>2. CASE RecordSubmission
        BY <2>1, <3>2
           DEF RecordSubmission, TriedInv, InProgress, MaxAttempts, Goto, OnlyProcess, WorkerInv
      <3>3. CASE CountAttempt
        BY <2>1, <3>3 DEF CountAttempt, InProgress, Goto
      <3>4. CASE MarkFailure
        BY <2>1, <3>4 DEF MarkFailure, InProgress, MaxAttempts, Goto
      <3>5. CASE MarkAnswer
        BY <2>1, <3>5 DEF MarkAnswer, InProgress, Goto
      <3>6. CASE PersistLedger
        BY <2>1, <3>6 DEF PersistLedger, ExecutionLedger, Goto
      <3>7. CASE PersistOrder
        BY <2>1, <3>7 DEF PersistOrder, LedgerInv, Goto
      <3>8. CASE RecoverOrder
        BY <2>1, <3>8 DEF RecoverOrder
      <3>9. CASE RecoverLedger
        BY <2>1, <3>9 DEF RecoverLedger
      <3>10. QED
        BY <1>1, <3>1, <3>2, <3>3, <3>4, <3>5, <3>6, <3>7, <3>8, <3>9 DEF WritesRows
    <2>3. LeftOver' \subseteq LeftOver
      BY <2>1, <2>2
    <2>4. pc # "recover_next"
      BY <2>1 DEF WorkerInv
    <2>5. QED
      BY <2>3, <2>4 DEF RecoverPending, RecoverFilled
  <1>2. ASSUME UNCHANGED <<orderStatus, ledger>>
        PROVE  \A i \in Intents : Recoverable(i)' <=> Recoverable(i)
    BY <1>2
  <1>3. ASSUME NEW i \in Intents, RecoverPending(i) \/ RecoverFilled(i)
        PROVE  i \in LeftOver /\ LeftOver' \subseteq LeftOver \ {i}
    <2>1. /\ UNCHANGED <<orderStatus, ledger>> /\ cur = NoIntent /\ cur' = i /\ recovering'
          /\ i \in todo
      BY <1>3 DEF RecoverPending, RecoverFilled, Load, WorkerInv, OnlyRecovery, database
    <2>2. QED
      BY <2>1 DEF TodoInv
  <1>4. CASE UNCHANGED <<orderStatus, attempts, ledger>> /\ ReadsRows
    <2>1. \A i \in Intents : i # cur => (i \in LeftOver' => i \in LeftOver)
      BY <1>4
    <2>2. ASSUME cur \in Intents, ~Crash, ~StoreError, ~(Exhausted /\ recovering), cur \in LeftOver'
          PROVE  cur \in LeftOver
      <3>1. CASE Exhausted
        <4>1. ~recovering /\ pc = "attempt" /\ attempts[cur] >= MaxAttempts
          BY <2>2, <3>1 DEF Exhausted
        <4>2. ~InProgress
          BY <2>2, <4>1 DEF InProgress, MaxAttempts
        <4>3. QED
          BY <1>4, <2>2, <4>1, <4>2
      <3>2. CASE VenueAnswers \/ VenueRaises \/ SaveReport \/ Publish
        <4>1. cur' = cur /\ recovering' = recovering /\ (InProgress \/ recovering)
          BY <3>2 DEF VenueAnswers, VenueRaises, SaveReport, Publish, Goto, InProgress
        <4>2. InProgress' \/ recovering'
          BY <3>2, <4>1 DEF VenueAnswers, VenueRaises, SaveReport, Publish, Goto, InProgress
        <4>3. QED
          BY <2>2, <4>1, <4>2
      <3>3. CASE PersistPosition \/ PersistPortfolio
        BY <1>4, <2>2, <3>3 DEF PersistPosition, PersistPortfolio, LedgerInv
      <3>4. CASE DeadLetter
        BY <1>4, <2>2, <3>4 DEF DeadLetter, InProgress, WorkerInv, OnlyProcess
      <3>5. CASE RecoverPosition \/ RecoverPortfolio
        BY <2>2, <3>5 DEF RecoverPosition, RecoverPortfolio, Goto, WorkerInv, OnlyRecovery
      <3>6. CASE \/ \E i \in Intents : SkipDuplicate(i) \/ Allow(i) \/ Refuse(i)
                 \/ \E i \in Intents : RecoverPending(i) \/ RecoverFilled(i)
                 \/ \E i \in Intents : RecoverWithoutReport(i)
                 \/ Start \/ RecoveryDone
        <4>1. pc \in {"down", "idle", "recover_next"}
          BY <3>6 DEF SkipDuplicate, Allow, Refuse, Delivered, RecoverPending, RecoverFilled,
                      RecoverWithoutReport, Start, RecoveryDone
        <4>2. QED
          BY <2>2, <4>1 DEF WorkerInv
      <3>7. CASE UNCHANGED vars
        BY <1>4, <2>2, <3>7 DEF vars, worker, InProgress, MaxAttempts
      <3>8. QED
        BY <1>4, <2>2, <3>1, <3>2, <3>3, <3>4, <3>5, <3>6, <3>7 DEF ReadsRows
    <2>3. ASSUME pc = "persist_portfolio"
          PROVE  cur \notin LeftOver' /\ cur \in Intents
      BY <1>4, <2>3 DEF LedgerInv, WorkerInv
    <2>4. QED
      BY <1>3, <2>1, <2>2, <2>3
  <1>5. QED
    BY <1>1, <1>4, RowsStep

\* What is in memory is what was loaded, or that reconciled with the report.
LEMMA MemoryKept ==
  ASSUME Inv, MemoryInv, [Next]_vars
  PROVE  MemoryInv'
  <1> USE PipelineAssumption DEF Inv, TypeOK, database, Loaded, Writing
  <1>1. SUFFICES /\ pc' \in Loaded \/ (pc' \in Writing /\ execution' = NoReport) =>
                      memPosition' = positions'[TokenOf[cur']] /\ memPortfolio' = portfolio'
                 /\ Executed' => Reconciled'
                 /\ ~recovering' /\ (pc' \in Loaded \/ Executed') =>
                      PreflightHolds(ActionOf[cur'], positions'[TokenOf[cur']])
    BY DEF MemoryInv, InMemory, PreflightHolds
  <1>2. CASE UNCHANGED vars
    BY <1>2 DEF vars, worker, MemoryInv, InMemory, Executed, Reconciled, PreflightHolds
  <1>3. CASE \E i \in Intents : SkipDuplicate(i)
    BY <1>3 DEF SkipDuplicate, Delivered, worker, Executed
  <1>4. ASSUME NEW i \in Intents, Allow(i)
        PROVE  MemoryInv'
    BY <1>4 DEF Allow, Delivered, Load, MemoryInv, InMemory, Executed, RiskAllows, PreflightHolds
  <1>5. ASSUME NEW i \in Intents, Refuse(i)
        PROVE  MemoryInv'
    <2>1. execution' = NoReport /\ pc' = "publish"
      BY <1>5 DEF Refuse, Delivered, WorkerInv, BeforeAnswer
    <2>2. QED
      BY <1>5, <2>1 DEF Refuse, Load, MemoryInv, InMemory, Executed
  <1>6. ASSUME NEW i \in Intents, RecoverPending(i)
        PROVE  MemoryInv'
    BY <1>6 DEF RecoverPending, Load, MemoryInv, InMemory, Executed, WorkerInv, OnlyRecovery
  <1>7. ASSUME NEW i \in Intents, RecoverFilled(i)
        PROVE  MemoryInv'
    <2>1. /\ pc' = "recover_position" /\ cur' = i /\ portfolio' = portfolio /\ recovering'
          /\ memPosition' = ReconciledPosition(positions[TokenOf[i]], ActionOf[i],
                                               report[i].executed)
          /\ memPortfolio' = ReconciledPortfolio(portfolio, ActionOf[i], report[i].executed)
      BY <1>7 DEF RecoverFilled, WorkerInv, OnlyRecovery
    <2>2. Reconciled'
      BY <2>1 DEF Reconciled, ReconciledPosition, ReconciledPortfolio, NoPosition, AtLeastZero,
                  Actions
    <2>3. QED
      BY <2>1, <2>2 DEF MemoryInv, Executed
  <1>8. CASE \/ RecordOrder \/ RecordSubmission \/ CountAttempt \/ VenueRaises \/ MarkFailure
             \/ MarkAnswer \/ Publish \/ PersistLedger \/ PersistOrder
    <2>1. /\ UNCHANGED <<positions, portfolio, cur, recovering, execution>>
          /\ UNCHANGED <<memPosition, memPortfolio>>
          /\ pc' \in Loaded => pc \in Loaded
          /\ pc' \in Writing => pc \in Writing
          /\ pc' # "recover_position"
      BY <1>8 DEF RecordOrder, RecordSubmission, CountAttempt, VenueRaises, MarkFailure, MarkAnswer,
                  Publish, PersistLedger, PersistOrder, Goto
    <2>2. QED
      BY <2>1 DEF MemoryInv, InMemory, Executed, Reconciled, PreflightHolds
  <1>9. CASE VenueAnswers
    <2>1. /\ UNCHANGED <<positions, portfolio, cur, recovering, memPosition, memPortfolio>>
          /\ pc' \in Loaded /\ pc \in Loaded /\ ~Executed'
      BY <1>9 DEF VenueAnswers, Executed
    <2>2. QED
      BY <2>1 DEF MemoryInv, InMemory, PreflightHolds
  <1>10. CASE SaveReport
    <2>1. /\ UNCHANGED <<positions, portfolio, cur, recovering, execution>>
          /\ pc' \in {"recover_position", "publish"} /\ execution # NoReport
          /\ memPosition' = ReconciledPosition(memPosition, ActionOf[cur], execution.executed)
          /\ memPortfolio' = ReconciledPortfolio(memPortfolio, ActionOf[cur], execution.executed)
      BY <1>10, EmptyTypes DEF SaveReport, Reconcile, WorkerInv
    <2>2. InMemory /\ (~recovering => PreflightHolds(ActionOf[cur], positions[TokenOf[cur]]))
      BY <1>10 DEF MemoryInv, SaveReport
    <2>3. Reconciled'
      BY <2>1, <2>2 DEF Reconciled, InMemory, ReconciledPosition, ReconciledPortfolio, NoPosition,
                        AtLeastZero, Actions
    <2>4. QED
      BY <2>1, <2>2, <2>3 DEF MemoryInv, Executed, PreflightHolds
  <1>11. CASE \/ Exhausted \/ PersistPosition \/ PersistPortfolio \/ DeadLetter \/ Start
              \/ RecoverPosition \/ RecoverPortfolio \/ RecoverOrder \/ RecoverLedger
              \/ RecoveryDone \/ Crash \/ StoreError
    <2>1. pc' \notin Loaded \cup Writing \cup {"recover_position"}
      BY <1>11 DEF Exhausted, PersistPosition, PersistPortfolio, DeadLetter, Start,
                   RecoverPosition, RecoverPortfolio, RecoverOrder, RecoverLedger, RecoveryDone,
                   Crash, StoreError, Goto, Release
    <2>2. QED
      BY <2>1 DEF Executed
  <1>12. CASE \E i \in Intents : RecoverWithoutReport(i)
    BY <1>12 DEF RecoverWithoutReport, Executed
  <1>13. CASE MemoryInv'
    BY <1>13 DEF MemoryInv, InMemory, PreflightHolds
  <1>14. QED
    BY <1>2, <1>3, <1>4, <1>5, <1>6, <1>7, <1>8, <1>9, <1>10, <1>11, <1>12, <1>13
       DEF Next, Deliver, Execute, Process, Recover

\* A write of the position changes the open positions by its token at most.
LEMMA OpenStep ==
  ASSUME Inv, IsFiniteSet(OpenTokens), cur \in Intents,
         positions' = [positions EXCEPT ![TokenOf[cur]] = memPosition]
  PROVE  LET t == TokenOf[cur] IN
         /\ IsFiniteSet(OpenTokens')
         /\ Cardinality(OpenTokens) \in Nat /\ Cardinality(OpenTokens') \in Nat
         /\ memPosition.open /\ ~positions[t].open =>
              Cardinality(OpenTokens') = Cardinality(OpenTokens) + 1
         /\ ~memPosition.open /\ positions[t].open =>
              Cardinality(OpenTokens') = Cardinality(OpenTokens) - 1
         /\ (memPosition.open <=> positions[t].open) =>
              Cardinality(OpenTokens') = Cardinality(OpenTokens)
  <1> DEFINE t == TokenOf[cur]
  <1>1. t \in Tokens /\ positions \in [Tokens -> PositionStates]
    BY PipelineAssumption DEF Inv, TypeOK
  <1>2. /\ OpenTokens \ {t} = OpenTokens' \ {t}
        /\ t \in OpenTokens <=> positions[t].open
        /\ t \in OpenTokens' <=> memPosition.open
    BY <1>1 DEF OpenTokens
  <1>3. QED
    BY <1>2, OneApart, Zenon

\* Booking an execution moves the counter and the open positions the same way, by one at
\* most; together when the position preflight held.
LEMMA BookingStep ==
  ASSUME Inv, MemoryInv, Executed, IsFiniteSet(OpenTokens),
         positions' = [positions EXCEPT ![TokenOf[cur]] = memPosition]
  PROVE  LET o == Cardinality(OpenTokens)
             p == Cardinality(OpenTokens')
             n == portfolio.open
             m == memPortfolio.open
         IN  /\ IsFiniteSet(OpenTokens')
             /\ Distance(m, p) <= Distance(n, o) + 1
             /\ Distance(n, p) <= Distance(n, o) + 1
             /\ ~recovering => Distance(m, p) <= Distance(n, o)
  <1> DEFINE o == Cardinality(OpenTokens)
             p == Cardinality(OpenTokens')
             n == portfolio.open
             m == memPortfolio.open
             t == TokenOf[cur]
  <1>1. cur \in Intents /\ ActionOf[cur] \in Actions
    BY PipelineAssumption DEF Inv, TypeOK, WorkerInv, Executed, Writing
  <1>2. n \in Nat /\ m \in Nat
    BY DEF Inv, TypeOK, PortfolioSnapshots
  <1>3. /\ IsFiniteSet(OpenTokens') /\ o \in Nat /\ p \in Nat
        /\ memPosition.open /\ ~positions[t].open => p = o + 1
        /\ ~memPosition.open /\ positions[t].open => p = o - 1
        /\ (memPosition.open <=> positions[t].open) => p = o
    BY <1>1, OpenStep, Zenon
  <1>4. Reconciled /\ (~recovering => PreflightHolds(ActionOf[cur], positions[t]))
    BY DEF MemoryInv
  <1>5. CASE ActionOf[cur] = "BUY"
    <2>1. memPosition.open /\ m = n + 1 /\ (~recovering => ~positions[t].open)
      BY <1>4, <1>5 DEF Reconciled, PreflightHolds
    <2>2. p \in {o, o + 1} /\ (~recovering => p = o + 1)
      BY <1>3, <2>1
    <2> HIDE DEF o, p, n, m
    <2>3. QED
      BY <1>2, <1>3, <2>1, <2>2 DEF Distance, o, p, n, m
  <1>6. CASE ActionOf[cur] = "EXIT"
    <2>1. /\ ~memPosition.open /\ m = AtLeastZero(n - 1)
          /\ ~recovering => positions[t].open
      BY <1>4, <1>6 DEF Reconciled, PreflightHolds
    <2>2. p \in {o, o - 1} /\ (~recovering => p = o - 1)
      BY <1>3, <2>1
    <2>3. QED
      BY <1>2, <1>3, <2>1, <2>2 DEF Distance, AtLeastZero
  <1>7. QED
    BY <1>1, <1>5, <1>6 DEF Actions

\* The same, in numbers.
LEMMA LeftOverCount ==
  ASSUME Inv, TriedInv, LedgerInv, TodoInv, [Next]_vars, IsFiniteSet(LeftOver)
  PROVE  LET l == Cardinality(LeftOver)
             k == Cardinality(LeftOver')
         IN  /\ IsFiniteSet(LeftOver') /\ l \in Nat /\ k \in Nat
             /\ k <= l + 1
             /\ ~Crash /\ ~StoreError /\ ~(Exhausted /\ recovering) => k <= l
             /\ pc = "persist_portfolio" => k <= l
             /\ \A i \in Intents : RecoverPending(i) \/ RecoverFilled(i) => k <= l - 1
  <1> DEFINE l == Cardinality(LeftOver)
             k == Cardinality(LeftOver')
  <1>1. /\ IsFiniteSet(LeftOver \cup {cur})
        /\ Cardinality(LeftOver \cup {cur}) = IF cur \in LeftOver THEN l ELSE l + 1
    BY FS_AddElement
  <1>2. LeftOver' \subseteq LeftOver \cup {cur}
    BY LeftOverStep
  <1>3. IsFiniteSet(LeftOver') /\ k <= Cardinality(LeftOver \cup {cur})
    BY <1>1, <1>2, FS_Subset
  <1>4. l \in Nat /\ k \in Nat
    BY <1>3, FS_CardinalityType
  <1>5. k <= l + 1
    BY <1>1, <1>3, <1>4
  <1>6. LeftOver' \subseteq LeftOver => k <= l
    BY FS_Subset
  <1>7. ASSUME NEW i \in Intents, RecoverPending(i) \/ RecoverFilled(i)
        PROVE  k <= l - 1
    <2>1. i \in LeftOver /\ LeftOver' \subseteq LeftOver \ {i}
      BY <1>7, LeftOverStep
    <2>2. IsFiniteSet(LeftOver \ {i}) /\ Cardinality(LeftOver \ {i}) = l - 1
      BY <2>1, FS_RemoveElement
    <2>3. k <= Cardinality(LeftOver \ {i})
      BY <2>1, <2>2, FS_Subset
    <2>4. QED
      BY <2>2, <2>3
  <1>8. /\ ~Crash /\ ~StoreError /\ ~(Exhausted /\ recovering) => k <= l
        /\ pc = "persist_portfolio" => k <= l
    BY <1>6, LeftOverStep
  <1>9. QED
    BY <1>3, <1>4, <1>5, <1>7, <1>8

\* Every fault is good for one position of drift.
LEMMA DriftKept ==
  ASSUME Inv, TriedInv, LedgerInv, TodoInv, MemoryInv, DriftInv, [Next]_vars
  PROVE  DriftInv'
  <1> DEFINE l == Cardinality(LeftOver)
             k == Cardinality(LeftOver')
             o == Cardinality(OpenTokens)
             p == Cardinality(OpenTokens')
             n == portfolio.open
             m == memPortfolio.open
             n1 == portfolio'.open
             m1 == memPortfolio'.open
             F == Faults
             G == Faults'
  <1>1. /\ IsFiniteSet(OpenTokens) /\ IsFiniteSet(LeftOver)
        /\ pc # "persist_portfolio" => Distance(n, o) + l <= F
        /\ ToBook => Distance(n, o) + l < F
        /\ pc \in {"persist_portfolio", "recover_portfolio"} => Distance(m, o) + l <= F
        /\ pc = "persist_portfolio" => Distance(n, o) + l <= F + 1
    BY DEF DriftInv, Drift
  <1>2. SUFFICES /\ IsFiniteSet(OpenTokens') /\ IsFiniteSet(LeftOver')
                 /\ pc' # "persist_portfolio" => Distance(n1, p) + k <= G
                 /\ ToBook' => Distance(n1, p) + k < G
                 /\ pc' \in {"persist_portfolio", "recover_portfolio"} => Distance(m1, p) + k <= G
                 /\ pc' = "persist_portfolio" => Distance(n1, p) + k <= G + 1
    BY DEF DriftInv, Drift, Distance
  <1>3. /\ IsFiniteSet(LeftOver') /\ l \in Nat /\ k \in Nat
        /\ k <= l + 1
        /\ ~Crash /\ ~StoreError /\ ~(Exhausted /\ recovering) => k <= l
        /\ pc = "persist_portfolio" => k <= l
        /\ \A i \in Intents : RecoverPending(i) \/ RecoverFilled(i) => k <= l - 1
    BY <1>1, LeftOverCount, Zenon
  <1>4. o \in Nat /\ F \in Nat /\ G \in Nat /\ (Crash \/ StoreError => G = F + 1)
        /\ (~Crash /\ ~StoreError => G = F)
    <2>1. o \in Nat
      BY <1>1, FS_CardinalityType
    <2>2. QED
      BY <2>1, FaultsGrow DEF Faults
  <1>5. n \in Nat /\ m \in Nat
    BY DEF Inv, TypeOK, PortfolioSnapshots
  <1>6. positions' = positions => OpenTokens' = OpenTokens /\ p = o
    BY DEF OpenTokens
  <1>7. pc \notin {"down", "idle", "recover_next"} => cur \in Intents /\ cur # NoIntent
    BY PipelineAssumption DEF Inv, WorkerInv
  <1> HIDE DEF l, k, o, p, n, m, F, G
  <1>8. CASE Crash
    <2>1. positions' = positions /\ n1 = n /\ pc' = "down" /\ ~ToBook' /\ G = F + 1
      BY <1>4, <1>8 DEF Crash, Release, database, ToBook, n
    <2>2. Distance(n, o) + k <= F + 1
      BY <1>1, <1>3, <1>4, <1>5 DEF Distance
    <2>3. QED
      BY <1>1, <1>3, <1>6, <2>1, <2>2
  <1>9. CASE StoreError
    <2>1. /\ positions' = positions /\ n1 = n /\ pc' = "dead_letter" /\ ~ToBook' /\ G = F + 1
      BY <1>4, <1>9 DEF StoreError, Goto, database, ToBook, n
    <2>2. Distance(n, o) + k <= F + 1
      BY <1>1, <1>3, <1>4, <1>5 DEF Distance
    <2>3. QED
      BY <1>1, <1>3, <1>6, <2>1, <2>2
  <1>10. ASSUME ~Crash, ~StoreError, positions' = positions, n1 = n, pc # "persist_portfolio",
                pc' \notin {"persist_portfolio", "recover_portfolio"},
                ToBook' => ToBook, k <= l \/ (ToBook /\ ~ToBook')
         PROVE  DriftInv'
    <2>1. IsFiniteSet(OpenTokens') /\ p = o /\ G = F
      BY <1>1, <1>4, <1>6, <1>10
    <2>2. Distance(n, o) + k <= F /\ (ToBook' => Distance(n, o) + k < F)
      BY <1>1, <1>3, <1>4, <1>5, <1>10 DEF Distance
    <2>3. QED
      BY <1>3, <1>10, <2>1, <2>2 DEF DriftInv, Drift, p, k, G, n
  <1>11. ASSUME \/ \E i \in Intents : SkipDuplicate(i) \/ Allow(i) \/ Refuse(i)
                \/ \E i \in Intents : RecoverWithoutReport(i)
                \/ Start \/ RecoveryDone
         PROVE  DriftInv'
    <2>1. /\ positions' = positions /\ n1 = n /\ pc # "persist_portfolio" /\ ~Crash /\ ~StoreError
          /\ pc' \notin {"persist_portfolio", "recover_portfolio"}
      BY <1>11 DEF SkipDuplicate, Allow, Refuse, Delivered, RecoverWithoutReport, Start,
                   RecoveryDone, Load, database, bounds, worker, n, Crash, StoreError, Inv, TypeOK
    <2>2. ~ToBook'
      BY <1>11 DEF SkipDuplicate, Allow, Refuse, Delivered, RecoverWithoutReport, Start,
                   RecoveryDone, worker, ToBook, Inv, WorkerInv, OnlyProcess
    <2>3. ~Exhausted
      BY <1>11 DEF SkipDuplicate, Allow, Refuse, Delivered, RecoverWithoutReport, Start,
                   RecoveryDone, Exhausted
    <2>4. QED
      BY <1>3, <1>10, <2>1, <2>2, <2>3
  <1>12. ASSUME NEW i \in Intents, RecoverPending(i) \/ RecoverFilled(i)
         PROVE  DriftInv'
    <2>1. /\ positions' = positions /\ n1 = n /\ ~Crash /\ ~StoreError
          /\ pc = "recover_next" /\ pc' \in {"attempt", "recover_position"}
      BY <1>12 DEF RecoverPending, RecoverFilled, Load, database, bounds, n, Crash, StoreError, Inv,
                   TypeOK
    <2>2. k <= l - 1
      BY <1>3, <1>12
    <2>3. IsFiniteSet(OpenTokens') /\ p = o /\ G = F
      BY <1>1, <1>4, <1>6, <2>1
    <2>4. Distance(n, o) + k < F
      BY <1>1, <1>3, <1>4, <1>5, <2>1, <2>2 DEF Distance
    <2>5. Distance(n, o) + k <= F
      BY <1>3, <1>4, <1>5, <2>4 DEF Distance
    <2>6. QED
      BY <1>3, <2>1, <2>3, <2>4, <2>5 DEF DriftInv, Drift, p, k, G, n
  <1>13. CASE UNCHANGED vars
    <2>1. /\ positions' = positions /\ n1 = n /\ m1 = m /\ pc' = pc /\ G = F
          /\ ToBook' <=> ToBook
      BY <1>13 DEF vars, database, worker, bounds, n, m, F, G, Faults, ToBook, Booked
    <2>2. LeftOver' = LeftOver
      BY <1>13 DEF vars, database, worker, LeftOver, Recoverable, InProgress, MaxAttempts
    <2>3. k = l
      BY <2>2 DEF k, l
    <2>4. QED
      BY <1>1, <1>3, <1>6, <2>1, <2>3
  <1>14. ASSUME \/ RecordOrder \/ RecordSubmission \/ CountAttempt \/ Exhausted \/ VenueAnswers
                \/ VenueRaises \/ MarkFailure \/ MarkAnswer \/ SaveReport \/ Publish
                \/ PersistLedger \/ PersistOrder \/ DeadLetter \/ RecoverOrder \/ RecoverLedger
         PROVE  DriftInv'
    <2>1. /\ UNCHANGED <<positions, portfolio, crashes, storeErrors>> /\ pc # "persist_portfolio"
          /\ pc' \notin {"persist_portfolio", "recover_portfolio"}
      BY <1>14 DEF RecordOrder, RecordSubmission, CountAttempt, Exhausted, VenueAnswers,
                   VenueRaises, MarkFailure, MarkAnswer, SaveReport, Publish, PersistLedger,
                   PersistOrder, DeadLetter, RecoverOrder, RecoverLedger, Goto, Release,
                   database, bounds
    <2>2. ~Crash /\ ~StoreError /\ n1 = n
      BY <2>1 DEF Crash, StoreError, Inv, TypeOK, n
    <2>3. CASE Exhausted /\ recovering
      <3>1. ToBook /\ ~ToBook'
        BY <1>7, <2>3 DEF Exhausted, Release, ToBook, Booked
      <3>2. QED
        BY <1>10, <2>1, <2>2, <3>1
    <2>4. CASE ~(Exhausted /\ recovering)
      <3>1. ToBook' => ToBook
        BY <1>14, <2>4
           DEF RecordOrder, RecordSubmission, CountAttempt, Exhausted, VenueAnswers, VenueRaises,
               MarkFailure, MarkAnswer, SaveReport, Publish, PersistLedger, PersistOrder,
               DeadLetter, RecoverOrder, RecoverLedger, Goto, Release, ToBook, Booked
      <3>2. QED
        BY <1>3, <1>10, <2>1, <2>2, <2>4, <3>1
    <2>5. QED
      BY <2>3, <2>4
  <1>15. CASE PersistPosition
    <2>1. /\ pc' = "persist_portfolio" /\ n1 = n /\ m1 = m /\ ~ToBook' /\ pc = "persist_position"
          /\ UNCHANGED <<crashes, storeErrors>> /\ ~recovering /\ ~Exhausted
      BY <1>15 DEF PersistPosition, Goto, bounds, n, m, ToBook, Exhausted, Inv, WorkerInv,
                   OnlyProcess
    <2>2. ~Crash /\ ~StoreError /\ G = F /\ k <= l /\ Distance(n, o) + l <= F
      BY <1>1, <1>3, <1>4, <2>1 DEF Crash, StoreError, Inv, TypeOK
    <2>3. CASE execution = NoReport
      <3>1. memPosition = positions[TokenOf[cur]] /\ m = n
        BY <2>1, <2>3 DEF MemoryInv, InMemory, Writing, n, m
      <3>2. positions' = positions
        BY <1>15, <3>1 DEF PersistPosition, Inv, TypeOK
      <3>3. Distance(n, o) + k <= F
        BY <1>3, <1>4, <1>5, <2>2 DEF Distance
      <3>4. QED
        BY <1>1, <1>3, <1>4, <1>5, <1>6, <2>1, <2>2, <3>1, <3>2, <3>3 DEF Distance
    <2>4. CASE execution # NoReport
      <3>1. Executed /\ positions' = [positions EXCEPT ![TokenOf[cur]] = memPosition]
        BY <1>15, <2>4 DEF PersistPosition, Executed, Writing
      <3>2. /\ IsFiniteSet(OpenTokens') /\ p \in Nat
            /\ Distance(m, p) <= Distance(n, o) /\ Distance(n, p) <= Distance(n, o) + 1
        <4>1. /\ IsFiniteSet(OpenTokens')
              /\ Distance(m, p) <= Distance(n, o) /\ Distance(n, p) <= Distance(n, o) + 1
          BY <1>1, <2>1, <3>1, BookingStep DEF m, n, o, p
        <4>2. QED
          BY <4>1, FS_CardinalityType DEF p
      <3>3. Distance(m, p) \in Nat /\ Distance(n, p) \in Nat /\ Distance(n, o) \in Nat
        BY <1>4, <1>5, <3>2 DEF Distance
      <3>4. QED
        BY <1>3, <1>4, <2>1, <2>2, <3>2, <3>3
    <2>5. QED
      BY <2>3, <2>4
  <1>16. CASE RecoverPosition
    <2>1. /\ pc' = "recover_portfolio" /\ n1 = n /\ m1 = m /\ ~ToBook' /\ pc = "recover_position"
          /\ UNCHANGED <<crashes, storeErrors>> /\ ~Exhausted /\ Executed
          /\ positions' = [positions EXCEPT ![TokenOf[cur]] = memPosition]
      BY <1>16 DEF RecoverPosition, Goto, bounds, n, m, ToBook, Booked, Exhausted, Executed
    <2>2. ToBook
      BY <1>7, <2>1 DEF ToBook, Booked, Inv, WorkerInv, OnlyRecovery
    <2>3. ~Crash /\ ~StoreError /\ G = F /\ k <= l /\ Distance(n, o) + l < F
      BY <1>1, <1>3, <1>4, <2>1, <2>2 DEF Crash, StoreError, Inv, TypeOK
    <2>4. /\ IsFiniteSet(OpenTokens') /\ p \in Nat
          /\ Distance(m, p) <= Distance(n, o) + 1 /\ Distance(n, p) <= Distance(n, o) + 1
      <3>1. /\ IsFiniteSet(OpenTokens')
            /\ Distance(m, p) <= Distance(n, o) + 1 /\ Distance(n, p) <= Distance(n, o) + 1
        BY <1>1, <2>1, BookingStep DEF m, n, o, p
      <3>2. QED
        BY <3>1, FS_CardinalityType DEF p
    <2>5. Distance(m, p) \in Nat /\ Distance(n, p) \in Nat /\ Distance(n, o) \in Nat
      BY <1>4, <1>5, <2>4 DEF Distance
    <2>6. QED
      BY <1>3, <1>4, <2>1, <2>3, <2>4, <2>5
  <1>17. CASE PersistPortfolio \/ RecoverPortfolio
    <2>1. /\ pc \in {"persist_portfolio", "recover_portfolio"} /\ positions' = positions /\ n1 = m
          /\ pc' \notin {"persist_portfolio", "recover_portfolio"} /\ ~ToBook' /\ ~Exhausted
          /\ UNCHANGED <<crashes, storeErrors>>
      BY <1>17 DEF PersistPortfolio, RecoverPortfolio, Goto, Release, bounds, n, m, ToBook, Booked,
                   Exhausted
    <2>2. ~Crash /\ ~StoreError /\ G = F /\ k <= l
      BY <1>3, <1>4, <2>1 DEF Crash, StoreError, Inv, TypeOK
    <2>3. Distance(m, o) + k <= F
      BY <1>1, <1>3, <1>4, <1>5, <2>1, <2>2 DEF Distance
    <2>4. QED
      BY <1>1, <1>3, <1>6, <2>1, <2>2, <2>3
  <1>18. CASE DriftInv'
    BY <1>18 DEF DriftInv, Drift, Distance, k, p, m, n, G
  <1>19. QED
    BY <1>8, <1>9, <1>11, <1>12, <1>13, <1>14, <1>15, <1>16, <1>17, <1>18
       DEF Next, Deliver, Execute, Process, Recover

\* Between batches the counter of open positions and the position rows are at most one
\* apart for every crash or store error there has been (save_position and save_portfolio
\* are separate transactions); without one they agree.
THEOREM CountersStayTogether == Spec => []OpenCountDrift
  <1> DEFINE IInv == TriedInv /\ LedgerInv /\ TodoInv /\ MemoryInv /\ DriftInv
  <1>1. Init => IInv
    <2>1. SUFFICES ASSUME Init PROVE IInv
      OBVIOUS
    <2>2. TriedInv /\ LedgerInv /\ TodoInv
      BY <2>1 DEF Init, TriedInv, LedgerInv, TodoInv
    <2>3. MemoryInv
      BY <2>1 DEF Init, MemoryInv, Loaded, Writing, Executed
    <2>4. OpenTokens = {} /\ LeftOver = {} /\ portfolio.open = 0 /\ Faults = 0
      BY <2>1 DEF Init, OpenTokens, LeftOver, Recoverable, EmptyPortfolio, Faults, NoPosition
    <2>5. Drift(portfolio.open) = 0 /\ IsFiniteSet(OpenTokens) /\ IsFiniteSet(LeftOver)
      BY <2>4, FS_EmptySet DEF Drift, Distance
    <2>6. DriftInv
      BY <2>1, <2>4, <2>5 DEF Init, DriftInv, ToBook
    <2>7. QED
      BY <2>2, <2>3, <2>6
  <1>2. Inv /\ IInv /\ [Next]_vars => IInv'
    BY TriedKept, LedgerKept, TodoKept, MemoryKept, DriftKept
  <1>3. Inv /\ IInv => OpenCountDrift
    <2>1. SUFFICES ASSUME Inv, DriftInv, pc = "idle"
                   PROVE  Distance(portfolio.open, Cardinality(OpenTokens)) <= Faults
      BY DEF OpenCountDrift
    <2>2. /\ Cardinality(OpenTokens) \in Nat /\ Cardinality(LeftOver) \in Nat
          /\ portfolio.open \in Nat /\ Faults \in Nat
      BY <2>1, FS_CardinalityType DEF DriftInv, Inv, TypeOK, PortfolioSnapshots, Faults
    <2>3. Distance(portfolio.open, Cardinality(OpenTokens)) + Cardinality(LeftOver) <= Faults
      BY <2>1 DEF DriftInv, Drift
    <2>4. QED
      BY <2>2, <2>3 DEF Distance
  <1>4. QED
    BY <1>1, <1>2, <1>3, Invariance, PTL DEF Spec

-----------------------------------------------------------------------------
(* Exposure.                                                                 *)

\* The exposure of the positions in the rows pos.
HeldOf(pos) == MapThenSumSet(LAMBDA t : pos[t].exposure, Tokens)

\* It is a sum over the tokens.
LEMMA HeldIsSum ==
  ASSUME IsFiniteSet(Tokens), NEW pos \in [Tokens -> PositionStates]
  PROVE  \E g : /\ SumOf(g, [t \in Tokens |-> pos[t].exposure], Tokens)
                /\ HeldOf(pos) = g[Tokens]
  <1> DEFINE f == [t \in Tokens |-> pos[t].exposure]
             Same(g) == g = [s \in SUBSET Tokens |-> IF s = {} THEN 0
                               ELSE LET x == CHOOSE x \in s : TRUE
                                    IN  pos[x].exposure + g[s \ {x}]]
  <1>1. HeldOf(pos) = (CHOOSE g : Same(g))[Tokens]
    BY DEF HeldOf, MapThenSumSet, MapThenFoldSet
  <1>2. ASSUME NEW g
        PROVE  Same(g) <=> SumOf(g, f, Tokens)
    <2>1. \A s \in SUBSET Tokens : s # {} => f[Chosen(s)] = pos[Chosen(s)].exposure
      <3>1. \A s \in SUBSET Tokens : s # {} => Chosen(s) \in Tokens
        BY DEF Chosen
      <3>2. QED
        BY <3>1
    <2>2. [s \in SUBSET Tokens |-> IF s = {} THEN 0
             ELSE pos[Chosen(s)].exposure + g[s \ {Chosen(s)}]]
          = [s \in SUBSET Tokens |-> IF s = {} THEN 0 ELSE f[Chosen(s)] + g[s \ {Chosen(s)}]]
      <3> HIDE DEF f
      <3>1. QED
        BY <2>1
    <2>3. QED
      BY <2>2 DEF SumOf, Chosen
  <1>3. \E g : SumOf(g, f, Tokens)
    BY SumExists
  <1> HIDE DEF Same, f
  <1>4. Same(CHOOSE g : Same(g))
    BY <1>2, <1>3
  <1>5. QED
    BY <1>1, <1>2, <1>4 DEF f

\* Writing one row changes the sum by what it changes the row.
LEMMA HeldStep ==
  ASSUME IsFiniteSet(Tokens), NEW pos \in [Tokens -> PositionStates],
         NEW t \in Tokens, NEW row \in PositionStates
  PROVE  /\ HeldOf(pos) \in Nat /\ HeldOf([pos EXCEPT ![t] = row]) \in Nat
         /\ HeldOf([pos EXCEPT ![t] = row]) = HeldOf(pos) - pos[t].exposure + row.exposure
  <1> DEFINE new == [pos EXCEPT ![t] = row]
             f == [x \in Tokens |-> pos[x].exposure]
             e == [x \in Tokens |-> new[x].exposure]
  <1>1. new \in [Tokens -> PositionStates] /\ f \in [Tokens -> Nat] /\ e \in [Tokens -> Nat]
    BY DEF PositionStates
  <1>2. PICK g : SumOf(g, f, Tokens) /\ HeldOf(pos) = g[Tokens]
    BY HeldIsSum
  <1>3. PICK h : SumOf(h, e, Tokens) /\ HeldOf(new) = h[Tokens]
    BY <1>1, HeldIsSum
  <1>4. /\ \A x \in Tokens \ {t} : e[x] = f[x]
        /\ f[t] = pos[t].exposure /\ e[t] = row.exposure
    OBVIOUS
  <1> HIDE DEF new, f, e
  <1>5. /\ g[Tokens] \in Nat /\ h[Tokens] \in Nat
        /\ h[Tokens] = g[Tokens] - f[t] + e[t]
    BY <1>1, <1>2, <1>3, <1>4, SumOneChanged
  <1>6. QED
    BY <1>2, <1>3, <1>4, <1>5 DEF new

\* Nothing is held at the start.
LEMMA HeldNothing ==
  ASSUME IsFiniteSet(Tokens)
  PROVE  HeldOf([t \in Tokens |-> NoPosition]) = 0
  <1> DEFINE pos == [t \in Tokens |-> NoPosition]
             f == [t \in Tokens |-> pos[t].exposure]
  <1>1. pos \in [Tokens -> PositionStates] /\ \A t \in Tokens : f[t] = 0
    BY EmptyTypes DEF NoPosition
  <1>2. PICK g : SumOf(g, f, Tokens) /\ HeldOf(pos) = g[Tokens]
    BY <1>1, HeldIsSum
  <1> HIDE DEF pos, f
  <1>3. g[Tokens] = 0
    BY <1>1, <1>2, SumOfZeros
  <1>4. QED
    BY <1>2, <1>3 DEF pos

\* What keeps the books under a limit while nothing fails: the intent in hand is sized to
\* what was left under it, the venue trades no more than that, and the books in memory
\* are those of the database with the execution added.
Covered(exposure) == exposure <= ExposureLimit /\ HeldOf(positions) <= exposure

ExposureInv ==
    Faults = 0 =>
        /\ pc # "persist_portfolio" => Covered(portfolio.exposure)
        /\ pc = "persist_portfolio" => Covered(memPortfolio.exposure)
        /\ pc \in Loaded => sized = SizedNotional(ActionOf[cur], portfolio)
        /\ pc \in {"mark_answer", "save_report"} => execution.executed <= sized
        /\ Executed =>
             /\ execution.executed <= SizedNotional(ActionOf[cur], portfolio)
             /\ memPosition = ReconciledPosition(positions[TokenOf[cur]], ActionOf[cur],
                                                 execution.executed)
             /\ memPortfolio = ReconciledPortfolio(portfolio, ActionOf[cur], execution.executed)

\* The sized notional fits under the limit; an EXIT asks for nothing.
LEMMA SizedFits ==
  ASSUME NEW action \in Actions, NEW pf \in PortfolioSnapshots, pf.exposure <= ExposureLimit
  PROVE  /\ SizedNotional(action, pf) \in Nat
         /\ pf.exposure + SizedNotional(action, pf) <= ExposureLimit
         /\ action = "EXIT" => SizedNotional(action, pf) = 0
  BY PortfolioAssumption
  DEF SizedNotional, RequestedNotional, PortfolioSnapshots, AtLeastZero, Actions

\* Booking an execution that was sized keeps the books covered.
LEMMA CoveredStep ==
  ASSUME IsFiniteSet(Tokens), Inv, NEW pos \in [Tokens -> PositionStates], NEW t \in Tokens,
         NEW action \in Actions, NEW pf \in PortfolioSnapshots, NEW executed \in Nat,
         pf.exposure <= ExposureLimit, HeldOf(pos) <= pf.exposure,
         executed <= SizedNotional(action, pf)
  PROVE  LET row  == ReconciledPosition(pos[t], action, executed)
             next == ReconciledPortfolio(pf, action, executed)
         IN  /\ next.exposure <= ExposureLimit
             /\ HeldOf([pos EXCEPT ![t] = row]) <= next.exposure
  <1> DEFINE row  == ReconciledPosition(pos[t], action, executed)
             next == ReconciledPortfolio(pf, action, executed)
             now  == HeldOf([pos EXCEPT ![t] = row])
  <1>1. pos[t] \in PositionStates /\ pf.exposure \in Nat /\ pos[t].exposure \in Nat
    BY DEF PositionStates, PortfolioSnapshots
  <1>2. row \in PositionStates
    BY <1>1, ReconciledType
  <1>3. HeldOf(pos) \in Nat /\ now \in Nat /\ now = HeldOf(pos) - pos[t].exposure + row.exposure
    BY <1>2, HeldStep
  <1>4. /\ SizedNotional(action, pf) \in Nat /\ ExposureLimit \in Nat
        /\ pf.exposure + SizedNotional(action, pf) <= ExposureLimit
        /\ action = "EXIT" => SizedNotional(action, pf) = 0
    BY SizedFits, PortfolioAssumption
  <1>5. CASE action = "BUY"
    <2>1. row.exposure = pos[t].exposure + executed /\ next.exposure = pf.exposure + executed
      BY <1>5 DEF ReconciledPosition, ReconciledPortfolio
    <2> HIDE DEF row, next, now
    <2>2. QED
      BY <1>1, <1>3, <1>4, <2>1 DEF row, next, now
  <1>6. CASE action = "EXIT"
    <2>1. executed = 0 /\ row.exposure = 0 /\ next.exposure = pf.exposure
      BY <1>1, <1>4, <1>6 DEF ReconciledPosition, ReconciledPortfolio, NoPosition, AtLeastZero
    <2> HIDE DEF row, next, now
    <2>2. QED
      BY <1>1, <1>3, <1>4, <2>1 DEF row, next, now
  <1>7. QED
    BY <1>5, <1>6 DEF Actions

\* While nothing fails the books stay covered.
LEMMA ExposureKept ==
  ASSUME IsFiniteSet(Tokens), Inv, FreshInv, MemoryInv, ExposureInv, [Next]_vars
  PROVE  ExposureInv'
  <1> USE PipelineAssumption DEF Inv, TypeOK
  <1>1. SUFFICES ASSUME Faults' = 0
                 PROVE  ExposureInv'
    BY DEF ExposureInv
  <1>2. Faults = 0 /\ ~Crash /\ ~StoreError /\ crashes = 0
    BY <1>1, FaultsGrow DEF Faults
  <1>3. /\ pc # "persist_portfolio" => Covered(portfolio.exposure)
        /\ pc = "persist_portfolio" => Covered(memPortfolio.exposure)
        /\ pc \in Loaded => sized = SizedNotional(ActionOf[cur], portfolio)
        /\ pc \in {"mark_answer", "save_report"} => execution.executed <= sized
        /\ Executed =>
             /\ execution.executed <= SizedNotional(ActionOf[cur], portfolio)
             /\ memPosition = ReconciledPosition(positions[TokenOf[cur]], ActionOf[cur],
                                                 execution.executed)
             /\ memPortfolio = ReconciledPortfolio(portfolio, ActionOf[cur], execution.executed)
    BY <1>2 DEF ExposureInv
  <1>4. (recovering \/ pc = "down") => cur = NoIntent /\ todo = {}
    BY <1>2 DEF FreshInv
  <1>5. CASE UNCHANGED vars
    BY <1>3, <1>5 DEF vars, database, worker, ExposureInv, Covered, Executed
  <1>6. ASSUME UNCHANGED <<positions, portfolio>>, pc # "persist_portfolio",
               pc' \notin Loaded \cup {"persist_portfolio"}, ~Executed'
        PROVE  ExposureInv'
    BY <1>3, <1>6 DEF ExposureInv, Covered, Loaded
  <1>7. ASSUME NEW i \in Intents, SkipDuplicate(i) \/ Refuse(i)
        PROVE  ExposureInv'
    <2>1. UNCHANGED <<positions, portfolio>> /\ pc = "idle"
      BY <1>7 DEF SkipDuplicate, Refuse, Delivered, database
    <2>2. pc' \in {"idle", "publish"} /\ execution' = NoReport
      BY <1>7 DEF SkipDuplicate, Refuse, Delivered, worker, WorkerInv, BeforeAnswer
    <2>3. QED
      BY <1>6, <2>1, <2>2 DEF Executed, Loaded
  <1>8. ASSUME NEW i \in Intents, Allow(i)
        PROVE  ExposureInv'
    <2>1. /\ UNCHANGED <<positions, portfolio>> /\ pc = "idle" /\ pc' = "record_order"
          /\ cur' = i /\ sized' = SizedNotional(ActionOf[i], portfolio)
      BY <1>8 DEF Allow, Delivered, Load, database
    <2>2. QED
      BY <1>3, <2>1 DEF ExposureInv, Covered, Executed, Writing
  <1>9. CASE RecordOrder \/ RecordSubmission \/ CountAttempt \/ VenueRaises \/ MarkFailure
    <2>1. /\ UNCHANGED <<positions, portfolio, cur, sized>> /\ pc \in Loaded
          /\ pc' \in Loaded \ {"mark_answer", "save_report"} /\ pc # "persist_portfolio"
      BY <1>9 DEF RecordOrder, RecordSubmission, CountAttempt, VenueRaises, MarkFailure, Goto,
                  database, Loaded
    <2>2. pc' # "persist_portfolio" /\ ~Executed'
      BY <2>1 DEF Executed, Writing, Loaded
    <2>3. QED
      BY <1>3, <2>1, <2>2 DEF ExposureInv, Covered
  <1>10. CASE VenueAnswers
    <2>1. /\ UNCHANGED <<positions, portfolio, cur, sized>> /\ pc = "dispatch"
          /\ pc' = "mark_answer" /\ execution'.executed \in 0 .. sized
      BY <1>10 DEF VenueAnswers, database
    <2>2. QED
      BY <1>3, <2>1 DEF ExposureInv, Covered, Executed, Writing, Loaded
  <1>11. CASE MarkAnswer
    <2>1. /\ UNCHANGED <<positions, portfolio, cur, sized, execution>> /\ pc = "mark_answer"
          /\ pc' = "save_report"
      BY <1>11 DEF MarkAnswer, Goto
    <2>2. QED
      BY <1>3, <2>1 DEF ExposureInv, Covered, Executed, Writing, Loaded
  <1>12. CASE SaveReport
    <2>1. /\ UNCHANGED <<positions, portfolio, cur, execution>> /\ pc = "save_report"
          /\ pc' \notin Loaded \cup {"persist_portfolio"}
          /\ memPosition' = ReconciledPosition(memPosition, ActionOf[cur], execution.executed)
          /\ memPortfolio' = ReconciledPortfolio(memPortfolio, ActionOf[cur], execution.executed)
      BY <1>12 DEF SaveReport, Reconcile, Loaded
    <2>2. InMemory
      BY <2>1 DEF MemoryInv, Loaded
    <2>3. execution.executed <= SizedNotional(ActionOf[cur], portfolio)
      BY <1>3, <2>1 DEF Loaded
    <2>4. QED
      BY <1>3, <2>1, <2>2, <2>3 DEF ExposureInv, Covered, InMemory, Loaded
  <1>13. CASE Publish \/ PersistLedger \/ PersistOrder
    <2>1. /\ UNCHANGED <<positions, portfolio, cur, execution, memPosition, memPortfolio>>
          /\ pc \in Writing /\ pc' \in Writing
      BY <1>13 DEF Publish, PersistLedger, PersistOrder, Goto, database, Writing
    <2>2. QED
      BY <1>3, <2>1 DEF ExposureInv, Covered, Executed, Writing, Loaded
  <1>14. CASE PersistPosition
    <2>1. /\ pc = "persist_position" /\ pc' = "persist_portfolio"
          /\ positions' = [positions EXCEPT ![TokenOf[cur]] = memPosition]
          /\ UNCHANGED <<portfolio, memPortfolio>>
          /\ cur \in Intents /\ TokenOf[cur] \in Tokens /\ ActionOf[cur] \in Actions
      BY <1>14 DEF PersistPosition, Goto, WorkerInv
    <2>2. Covered(portfolio.exposure)
      BY <1>3, <2>1
    <2>3. SUFFICES Covered(memPortfolio.exposure)'
      BY <2>1 DEF ExposureInv, Executed, Writing, Loaded
    <2>4. CASE execution = NoReport
      <3>1. positions' = positions /\ memPortfolio' = portfolio
        BY <2>1, <2>4 DEF MemoryInv, InMemory, Writing
      <3>2. QED
        BY <2>2, <3>1 DEF Covered
    <2>5. CASE execution # NoReport
      <3>1. /\ execution.executed <= SizedNotional(ActionOf[cur], portfolio)
            /\ memPosition = ReconciledPosition(positions[TokenOf[cur]], ActionOf[cur],
                                                execution.executed)
            /\ memPortfolio = ReconciledPortfolio(portfolio, ActionOf[cur], execution.executed)
        BY <1>3, <2>1, <2>5 DEF Executed, Writing
      <3>2. execution.executed \in Nat
        BY EmptyTypes
      <3>3. /\ memPortfolio.exposure <= ExposureLimit
            /\ HeldOf([positions EXCEPT ![TokenOf[cur]] = memPosition]) <= memPortfolio.exposure
        BY <2>1, <2>2, <3>1, <3>2, CoveredStep DEF Covered
      <3>4. QED
        BY <2>1, <3>3 DEF Covered
    <2>6. QED
      BY <2>4, <2>5
  <1>15. CASE PersistPortfolio
    <2>1. /\ pc = "persist_portfolio" /\ pc' = "idle" /\ positions' = positions
          /\ portfolio' = memPortfolio
      BY <1>15 DEF PersistPortfolio, Release
    <2>2. QED
      BY <1>3, <2>1 DEF ExposureInv, Covered, Executed, Writing, Loaded
  <1>16. CASE DeadLetter \/ Exhausted \/ Start \/ RecoveryDone
    <2>1. /\ UNCHANGED <<positions, portfolio>> /\ pc # "persist_portfolio"
          /\ pc' \in {"idle", "dead_letter", "recover_next"}
      BY <1>16 DEF DeadLetter, Exhausted, Start, RecoveryDone, database, Goto, Release
    <2>2. QED
      BY <1>6, <2>1 DEF Executed, Writing, Loaded
  <1>17. ASSUME \/ \E i \in Intents : \/ RecoverPending(i) \/ RecoverFilled(i)
                                      \/ RecoverWithoutReport(i)
                \/ RecoverPosition \/ RecoverPortfolio \/ RecoverOrder \/ RecoverLedger
         PROVE  FALSE
    <2>1. pc \in OnlyRecovery /\ (pc # "recover_next" \/ todo # {})
      BY <1>17 DEF RecoverPending, RecoverFilled, RecoverWithoutReport, RecoverPosition,
                   RecoverPortfolio, RecoverOrder, RecoverLedger, OnlyRecovery
    <2>2. QED
      BY <1>4, <2>1 DEF WorkerInv, OnlyRecovery
  <1>18. QED
    BY <1>2, <1>5, <1>7, <1>8, <1>9, <1>10, <1>11, <1>12, <1>13, <1>14, <1>15, <1>16, <1>17
       DEF Next, Deliver, Execute, Process, Recover

\* While nothing fails, the sizing of the risk engine (_size_notional) keeps the portfolio
\* under its exposure limit and the positions under the portfolio's exposure, whatever the
\* venue trades of what it is asked for.
THEOREM SizedUnderTheLimit ==
  ASSUME IsFiniteSet(Tokens)
  PROVE  Spec => []ExposureWithinLimit
  <1> DEFINE IInv == FreshInv /\ MemoryInv /\ ExposureInv
  <1>1. Init => IInv
    <2>1. SUFFICES ASSUME Init PROVE IInv
      OBVIOUS
    <2>2. FreshInv
      BY <2>1 DEF Init, FreshInv
    <2>3. MemoryInv
      BY <2>1 DEF Init, MemoryInv, Loaded, Writing, Executed
    <2>4. ExposureInv
      <3>1. HeldOf(positions) = 0
        BY <2>1, HeldNothing DEF Init
      <3>2. Covered(portfolio.exposure)
        BY <2>1, <3>1, PortfolioAssumption DEF Init, Covered, EmptyPortfolio
      <3>3. QED
        BY <2>1, <3>2 DEF Init, ExposureInv, Loaded, Writing, Executed
    <2>5. QED
      BY <2>2, <2>3, <2>4
  <1>2. Inv /\ IInv /\ [Next]_vars => IInv'
    BY FreshKept, MemoryKept, ExposureKept
  <1>3. IInv => ExposureWithinLimit
    <2>1. HeldExposure = HeldOf(positions)
      BY DEF HeldExposure, HeldOf, MapThenSumSet, MapThenFoldSet
    <2>2. QED
      BY <2>1 DEF ExposureInv, Covered, ExposureWithinLimit
  <1>4. QED
    BY <1>1, <1>2, <1>3, Invariance, PTL DEF Spec
=============================================================================

------------------------------- MODULE Portfolio -------------------------------
(***************************************************************************)
(* The portfolio arithmetic that every execution passes through: the part  *)
(* of portfolio/risk_engine.py that reads the position and the portfolio,  *)
(* and execution/reconciliation.py.  Both are pure functions there and     *)
(* operators here.                                                         *)
(*                                                                         *)
(* Exposure is counted in units of notional.  The code keeps two exposures *)
(* of the portfolio, token_exposure and chain_exposure, adds and subtracts *)
(* the same fraction to both and never resets either, so they are always   *)
(* equal: one field stands for both, and ExposureLimit is the smaller of   *)
(* their two limits.                                                       *)
(***************************************************************************)
EXTENDS Integers

CONSTANTS
    MaxConcurrentPositions,     \* settings.risk.max_concurrent_positions
    ExposureLimit,              \* min(max_token_exposure, max_chain_exposure)
    TargetNotional              \* what the router asks for in a BUY intent

ASSUME PortfolioAssumption ==
    /\ MaxConcurrentPositions \in Nat \ {0}
    /\ ExposureLimit \in Nat \ {0}
    /\ TargetNotional \in Nat \ {0}

Actions == {"BUY", "EXIT"}

PositionStates == [open : BOOLEAN, exposure : Nat]
PortfolioSnapshots == [exposure : Nat, open : Nat]

NoPosition == [open |-> FALSE, exposure |-> 0]
EmptyPortfolio == [exposure |-> 0, open |-> 0]

AtLeastZeroUnclamped(n) == n

AtLeastZero(n) == IF n < 0 THEN 0 ELSE n

-----------------------------------------------------------------------------
(* The risk engine. *)

\* An EXIT intent is built with a target of 0.
RequestedNotional(action) == IF action = "BUY" THEN TargetNotional ELSE 0

SizedNotionalIgnoringExposure(action, portfolio) == RequestedNotional(action)

\* _size_notional: the target, cut down to what is left under the limit.
SizedNotional(action, portfolio) ==
    LET headroom == AtLeastZero(ExposureLimit - portfolio.exposure)
        target   == RequestedNotional(action)
    IN  IF target < headroom THEN target ELSE headroom

\* _exposure_policy and _post_sizing_policy, which look at BUY intents only.
ExposurePolicyHolds(action, portfolio) ==
    action = "BUY" => /\ portfolio.exposure < ExposureLimit
                      /\ SizedNotional(action, portfolio) > 0

\* The position preflight of _operational_policy (enforced by default).
PreflightHolds(action, position) ==
    /\ action = "BUY"  => ~position.open
    /\ action = "EXIT" => position.open

MaxPositionsHolds(position, portfolio) ==
    portfolio.open < MaxConcurrentPositions \/ position.open

RiskAllows(action, position, portfolio) ==
    /\ ExposurePolicyHolds(action, portfolio)
    /\ PreflightHolds(action, position)
    /\ MaxPositionsHolds(position, portfolio)

-----------------------------------------------------------------------------
(* Reconciliation of an execution report, whatever its status says. *)

ReconciledPosition(position, action, executed) ==
    IF action = "BUY"
      THEN [open |-> TRUE, exposure |-> position.exposure + executed]
      ELSE NoPosition

ReconciledPortfolioNoExit(portfolio, action, executed) ==
    IF action = "BUY"
      THEN [exposure |-> portfolio.exposure + executed, open |-> portfolio.open + 1]
      ELSE [portfolio EXCEPT !.exposure = AtLeastZero(@ - executed)]

ReconciledPortfolio(portfolio, action, executed) ==
    IF action = "BUY"
      THEN [exposure |-> portfolio.exposure + executed, open |-> portfolio.open + 1]
      ELSE [exposure |-> AtLeastZero(portfolio.exposure - executed),
            open     |-> AtLeastZero(portfolio.open - 1)]
=============================================================================

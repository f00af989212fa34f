--------------------------- MODULE MCTradingDecision ---------------------------
(* A market fit to enter, one nobody trades in any more, and no market figures at all. *)
EXTENDS TradingDecision

Healthy == [liquidity |-> "deep", volume |-> "high", structure |-> "fair", deteriorated |-> FALSE,
            inflow |-> FALSE, listed |-> FALSE, alpha |-> TRUE, candidate |-> "none"]
Fading  == [liquidity |-> "deep", volume |-> "low", structure |-> "weak", deteriorated |-> TRUE,
            inflow |-> FALSE, listed |-> FALSE, alpha |-> FALSE, candidate |-> "none"]

MCObservedSignals == {Healthy, Fading, BareSignal}
=============================================================================

------------------------------ MODULE MCAdapters ------------------------------
(* Constants for checking Adapters with TLC. *)
EXTENDS Adapters

MCSpenders == {"router", "router v2"}
MCCredentials == {{"evm"}, {"evm", "solana"}, {"okx", "binance"}}
MCNativePrices == {0, 1}
================================================================================

---------------------------- MODULE MCMeasurement ----------------------------
(* Constants for checking Measurement with TLC. *)
EXTENDS Measurement

MCTokens == {"a", "b"}
================================================================================

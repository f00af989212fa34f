---------------------------- MODULE MCAlphaPipeline ----------------------------
(* Constants for checking AlphaPipeline with TLC. *)
EXTENDS AlphaPipeline

MCTimes == {1, 3}
================================================================================

----------------------------- MODULE MCEventStream -----------------------------
(* The pipeline worker and the social-confirmation worker, whose loops differ in   *)
(* all three respects: dead letters, order of the acknowledgement, unit of work.   *)
EXTENDS EventStream

CONSTANTS signalWorkers, socialConfirmation, A, B
=============================================================================

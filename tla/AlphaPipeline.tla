------------------------------ MODULE AlphaPipeline ------------------------------
(***************************************************************************)
(* The alpha pipeline (core/alpha_pipeline.py): a worker of its own that   *)
(* takes cross-dimension snapshots from the raw-event stream and is to run *)
(* each through signal, state machine, router, risk engine and execution,  *)
(* on the position and the portfolio it shares with the pipeline worker.   *)
(*                                                                         *)
(* One token.  A snapshot is the state its signal derives and whether its  *)
(* score reaches the router's 0.55.  Two steps of the code never succeed:  *)
(* _save_fsm_checkpoint names a module that is not imported, and           *)
(* RiskEngine.evaluate is called with arguments it does not have.  What    *)
(* would come after them is therefore not modelled.                        *)
(***************************************************************************)
EXTENDS Integers, Sequences

CONSTANTS
    Times,              \* timestamps of the events
    Interval,           \* risk.min_transition_interval_seconds
    Count,              \* poll_once(count=10)
    MaxFaults           \* bound: errors of the store or of Redis, and deaths

VARIABLES
    repository,         \* the worker has a store (run_alpha_pipeline_live gives it one)
    events,             \* what is on the raw-event stream
    read,               \* entries delivered to the group
    \* the worker
    pc,
    batch,              \* positions of the entries in hand
    state,              \* the state of the token after the transition
    limited,            \* the last transition was less than Interval ago
    \* the store
    checkpoint,         \* fsm_state:<chain>:<token>, which the pipeline worker writes
    position,           \* the position of the token is open
    \* what is left behind
    acknowledged, signals, routed, letters,
    faults

stream == <<repository, events>>
worker == <<pc, batch, state, limited>>
store  == <<checkpoint, position>>
trace  == <<signals, routed, letters>>
vars   == <<stream, read, worker, store, trace, acknowledged, faults>>

States == {"UNKNOWN", "EARLY_LIQUIDITY", "DISTRIBUTION"}
Events == [snapshot : BOOLEAN, derives : States, attractive : BOOLEAN, time : Times]

\* The time of the last transition the checkpoint holds, none without a checkpoint.
Checkpoints == {{}} \cup {{t} : t \in Times}

Init ==
    /\ repository \in BOOLEAN
    /\ events \in UNION {[1 .. n -> Events] : n \in 1 .. 2}
    /\ read = 0
    /\ pc = "read"
    /\ batch = <<>>
    /\ state = "UNKNOWN"
    /\ limited = FALSE
    /\ checkpoint \in Checkpoints
    /\ position \in BOOLEAN
    /\ acknowledged = {}
    /\ signals = {}
    /\ routed = {}
    /\ letters = {}
    /\ faults = 0

Held == Head(batch)
Event == events[Held]

\* poll_once: up to count entries that the group has not seen.
Read ==
    /\ pc = "read"
    /\ read < Len(events)
    /\ \E n \in 1 .. Count :
         /\ read + n <= Len(events)
         /\ batch' = [i \in 1 .. n |-> read + i]
         /\ read' = read + n
    /\ pc' = "handle"
    /\ UNCHANGED <<stream, state, limited, store, trace, acknowledged, faults>>

\* Acknowledge the entry in hand and go on with the next.
Acknowledge ==
    /\ acknowledged' = acknowledged \cup {Held}
    /\ batch' = Tail(batch)
    /\ pc' = IF Tail(batch) = <<>> THEN "read" ELSE "handle"

\* Whatever is no snapshot is for the other pipeline.
PassOver ==
    /\ pc = "handle"
    /\ ~Event.snapshot
    /\ Acknowledge
    /\ UNCHANGED <<stream, read, state, limited, store, trace, faults>>

\* Position and portfolio are loaded, the signal is published, the checkpoint is loaded: it
\* is the pipeline worker's, in which there is no previous_state.
Signal ==
    /\ pc = "handle"
    /\ Event.snapshot
    /\ signals' = signals \cup {Held}
    /\ state' = "UNKNOWN"
    /\ limited' = (repository /\ \E t \in checkpoint : Event.time - t < Interval)
    /\ pc' = "state"
    /\ UNCHANGED <<stream, read, batch, store, routed, letters, acknowledged, faults>>

\* The state machine.
Transition ==
    /\ pc = "state"
    /\ state' = IF limited THEN state ELSE Event.derives
    /\ pc' = "save"
    /\ UNCHANGED <<stream, read, batch, limited, store, trace, acknowledged, faults>>

\* An exception: a dead letter, and the entry is acknowledged.
Raise ==
    /\ letters' = letters \cup {Held}
    /\ Acknowledge
    /\ UNCHANGED <<stream, read, state, limited, store, signals, routed>>

\* Without a store there is nothing to save; with one, the name infra is not defined.
SaveCheckpoint ==
    /\ pc = "save"
    /\ ~repository
    /\ pc' = "route"
    /\ UNCHANGED <<stream, read, batch, state, limited, store, trace, acknowledged, faults>>

SaveCheckpointRaises ==
    /\ pc = "save"
    /\ repository
    /\ Raise
    /\ UNCHANGED faults

\* An entry state buys, an open position leaves a distribution.  An intent goes on.
HasIntent ==
    \/ state = "EARLY_LIQUIDITY" /\ Event.attractive
    \/ state = "DISTRIBUTION" /\ repository /\ position

Route ==
    /\ pc = "route"
    /\ routed' = routed \cup {Held}
    /\ IF HasIntent
         THEN pc' = "risk" /\ UNCHANGED <<batch, acknowledged>>
         ELSE Acknowledge
    /\ UNCHANGED <<stream, read, state, limited, store, signals, letters, faults>>

\* evaluate(intent, position, portfolio, fsm_context=...) is a TypeError, so no intent is
\* allowed, refused or executed.
RiskRaises ==
    /\ pc = "risk"
    /\ Raise
    /\ UNCHANGED faults

\* The store, Redis or the shape of the payload.
Fails ==
    /\ pc \in {"handle", "state"}
    /\ Event.snapshot
    /\ faults < MaxFaults
    /\ faults' = faults + 1
    /\ Raise

Die ==
    /\ pc # "read"
    /\ faults < MaxFaults
    /\ faults' = faults + 1
    /\ batch' = <<>>
    /\ pc' = "read"
    /\ UNCHANGED <<stream, read, state, limited, store, trace, acknowledged>>

Next ==
    \/ Read \/ PassOver \/ Signal \/ Transition
    \/ SaveCheckpoint \/ SaveCheckpointRaises
    \/ Route \/ RiskRaises
    \/ Fails \/ Die

Spec == Init /\ [][Next]_vars

\* core/worker.py:655: the worker "runs signal -> state -> route -> risk -> execution".
\* Without a fault every snapshot that was acknowledged has reached the router.
SnapshotsAreRouted ==
    faults = 0 => \A e \in acknowledged : events[e].snapshot => e \in routed
================================================================================

---------------------------- MODULE TradingDecision ----------------------------
(***************************************************************************)
(* How the pipeline worker decides for one token of one chain: the signal  *)
(* of a batch (core/signal_engine.py), the state machine with its rate     *)
(* limit and its checkpoint (core/state_engine.py, core/pipeline.py), the  *)
(* router, the parts of the risk engine that read the signal and the       *)
(* position, and the loop by which a change of state asks the              *)
(* social-confirmation worker for a snapshot that comes back as an event.  *)
(*                                                                         *)
(* The order of process_events is kept: an intent is executed before the   *)
(* decision is published, and the checkpoint is saved last, so a batch may *)
(* fail between any two steps.  It then becomes dead letters, or is lost   *)
(* when the process dies, and the orders it leaves behind are recovered at *)
(* the next start.  How an order is retried, answered and booked in detail *)
(* is OrderPipeline; here it is submitted, answered and booked.            *)
(***************************************************************************)
EXTENDS Integers, Sequences, FiniteSets, FiniteSetsExt, SequencesExt

CONSTANTS
    ObservedSignals,        \* the snapshots the sources may publish
    MinTransitionInterval,  \* settings.risk.min_transition_interval_seconds
    Cooldown,               \* settings.risk.cooldown_minutes
    BatchCount,             \* count of poll_once
    MaxTime,                \* bound: the clock
    MaxEvents,              \* bound: events from outside
    MaxFaults,              \* bound: exceptions and deaths of the worker
    MaxReplays              \* bound: replays of the dead letters

TokenStates == {"UNKNOWN", "PRE_LAUNCH", "EARLY_LIQUIDITY", "NARRATIVE_EXPLOSION",
                "CEX_LISTING", "DISTRIBUTION"}
EntryStates == TokenStates \ {"UNKNOWN", "DISTRIBUTION"}
SocialConfirmationTriggerStates == {"PRE_LAUNCH", "EARLY_LIQUIDITY", "NARRATIVE_EXPLOSION"}

\* What the thresholds of the engines tell apart.  liquidity: below 5000, below
\* min_liquidity_usd, or enough; volume: at least 25000 or not; structure, the
\* market_structure score: below 0.45, or from 0.74 up, or between; deteriorated: an
\* outflow, a buy pressure, a slippage or a feature quality beyond its limit or, where the
\* structure is not weak, the last two of these; candidate:
\* the state the catalyst, flow or launch scores name, if any; alpha: at least 0.55.
SignalShapes ==
    [liquidity : {"none", "thin", "deep"}, volume : {"low", "high"},
     structure : {"weak", "fair", "strong"}, deteriorated : BOOLEAN, inflow : BOOLEAN,
     listed : BOOLEAN, alpha : BOOLEAN,
     candidate : {"none", "PRE_LAUNCH", "EARLY_LIQUIDITY", "NARRATIVE_EXPLOSION"}]

\* With 100000 of liquidity and 25000 of volume the market structure scores 0.55 or more.
Signals == {s \in SignalShapes :
              s.liquidity = "deep" /\ s.volume = "high" => s.structure # "weak"}

\* A batch of social events alone: every market figure defaults to 0.
BareSignal ==
    [liquidity |-> "none", volume |-> "low", structure |-> "weak", deteriorated |-> TRUE,
     inflow |-> FALSE, listed |-> FALSE, alpha |-> FALSE, candidate |-> "none"]

ASSUME DecisionAssumption ==
    /\ ObservedSignals \subseteq Signals \cup {BareSignal}
    /\ MinTransitionInterval \in Nat /\ Cooldown \in Nat
    /\ BatchCount \in Nat \ {0}
    /\ MaxTime \in Nat /\ MaxEvents \in Nat /\ MaxFaults \in Nat /\ MaxReplays \in Nat

VARIABLES
    checkpoint,     \* fsm_state:<chain>:<token>: the state and its last transition
    position,       \* the position row: open, and when it was last closed
    settled,        \* intents whose order is in a terminal status
    unfilled,       \* intents whose order was last answered FAILED or PARTIAL_FILL
    pending,        \* intents whose order is submitted and has no answer
    unbooked,       \* intents filled but not yet booked, with the time of the report
    saved,          \* social requests in the raw-event store
    requests,       \* social requests on the stream the social worker has not answered
    queue,          \* events on the stream the pipeline has not read
    letters,        \* events on the dead-letter stream
    pc, batch, decision,            \* the pipeline worker
    now, events, faults, replays,   \* the clock and the bounds
    changedAt,      \* history: the last change of state in a checkpoint
    exitRefused,    \* history: an exit was refused since the position was opened
    exitedAt,       \* history: when a venue last answered an exit
    enteredEarly,   \* history: an entry was sent within the cooldown after an exit
    asked           \* history: requests saved since market figures were last read

orders  == <<settled, unfilled, pending, unbooked>>
worker  == <<pc, batch, decision>>
bounds  == <<now, events, faults, replays>>
history == <<changedAt, exitRefused, exitedAt, enteredEarly, asked>>
vars    == <<checkpoint, position, orders, saved, requests, queue, letters, worker, bounds,
             history>>

NoTime == -1
Times == Nat \cup {NoTime}
NoDecision ==
    [signal |-> BareSignal, at |-> NoTime, state |-> "UNKNOWN", changed |-> FALSE,
     action |-> "NONE", answeredAt |-> NoTime]

Init ==
    /\ checkpoint = [state |-> "UNKNOWN", last |-> NoTime]
    /\ position = [open |-> FALSE, lastExit |-> NoTime]
    /\ settled = {} /\ unfilled = {} /\ pending = {} /\ unbooked = {}
    /\ saved = {} /\ requests = {}
    /\ queue = <<>> /\ letters = <<>>
    /\ pc = "idle" /\ batch = <<>> /\ decision = NoDecision
    /\ now = 0 /\ events = 0 /\ faults = 0 /\ replays = 0
    /\ changedAt = NoTime /\ exitRefused = FALSE
    /\ exitedAt = NoTime /\ enteredEarly = FALSE /\ asked = 0

-----------------------------------------------------------------------------
(* The engines. *)

\* build_signal: payloads are merged in order, and only on-chain ones carry market
\* figures; the signal has the time of the latest event.
SignalOf(evs) ==
    LET k == SelectLastInSeq(evs, LAMBDA e : e.signal # BareSignal)
    IN  IF k = 0 THEN BareSignal ELSE evs[k].signal

SignalTime(evs) == Max({e.at : e \in ToSet(evs)})

\* _classify_state: the first rule that applies.  (An outflow counts for the state engine
\* only, but what it decides does not depend on the candidate then.)
StateCandidate(s) ==
    IF s.liquidity = "none"                           THEN "PRE_LAUNCH"
    ELSE IF s.listed                                  THEN "CEX_LISTING"
    ELSE IF s.candidate # "none"                      THEN s.candidate
    ELSE IF s.deteriorated                            THEN "DISTRIBUTION"
    ELSE IF s.structure = "strong" /\ s.inflow        THEN "NARRATIVE_EXPLOSION"
    ELSE IF s.structure # "weak" /\ s.volume = "high" THEN "EARLY_LIQUIDITY"
    ELSE "UNKNOWN"

RespectedCandidates == {"PRE_LAUNCH", "EARLY_LIQUIDITY", "NARRATIVE_EXPLOSION"}

DerivedStateOfConfirmedLaunch(previous, s) ==
    IF s.liquidity = "none" /\ previous = "PRE_LAUNCH"     THEN "EARLY_LIQUIDITY"
    ELSE IF s.liquidity = "none"                           THEN "PRE_LAUNCH"
    ELSE IF s.listed                                       THEN "CEX_LISTING"
    ELSE IF s.structure = "weak" /\ s.deteriorated         THEN "DISTRIBUTION"
    ELSE IF StateCandidate(s) \in RespectedCandidates      THEN StateCandidate(s)
    ELSE IF s.structure = "strong" /\ s.inflow             THEN "NARRATIVE_EXPLOSION"
    ELSE IF s.structure # "weak" /\ s.volume = "high"      THEN "EARLY_LIQUIDITY"
    ELSE previous

\* _derive_state: the rules of the state engine, which takes up a candidate of the signal
\* where it names an entry, and does not believe in DISTRIBUTION unless the structure is
\* weak.
DerivedState(previous, s) ==
    IF s.liquidity = "none"                                THEN "PRE_LAUNCH"
    ELSE IF s.listed                                       THEN "CEX_LISTING"
    ELSE IF s.structure = "weak" /\ s.deteriorated         THEN "DISTRIBUTION"
    ELSE IF StateCandidate(s) \in RespectedCandidates      THEN StateCandidate(s)
    ELSE IF s.structure = "strong" /\ s.inflow             THEN "NARRATIVE_EXPLOSION"
    ELSE IF s.structure # "weak" /\ s.volume = "high"      THEN "EARLY_LIQUIDITY"
    ELSE previous

\* Without a recorded change 120 seconds stand for the time since, which is taken to be
\* enough: the interval is 30 by default.
RateLimited(cp, at) ==
    cp.last # NoTime /\ Max({at - cp.last, 0}) < MinTransitionInterval

\* StateEngine.transition
NextState(cp, s, at) ==
    IF RateLimited(cp, at) THEN cp.state ELSE DerivedState(cp.state, s)

RouteScoreFirst(state, s, pos) ==
    IF s.alpha = FALSE                                THEN "NONE"
    ELSE IF state = "DISTRIBUTION" /\ pos.open        THEN "EXIT"
    ELSE IF state \in EntryStates                     THEN "BUY"
    ELSE "NONE"

\* Router.route, with the venues ready.
Route(state, s, pos) ==
    IF state = "DISTRIBUTION" /\ pos.open        THEN "EXIT"
    ELSE IF s.alpha /\ state \in EntryStates     THEN "BUY"
    ELSE "NONE"

\* _liquidity_policy
LiquidityPolicy(action, s) == action = "BUY" => s.liquidity = "deep" /\ s.volume = "high"

\* Position preflight and cooldown of _operational_policy, on the wall clock.
PositionPolicy(action, pos) ==
    /\ action = "EXIT" => pos.open
    /\ action = "BUY"  => /\ ~pos.open
                          /\ pos.lastExit = NoTime \/ now - pos.lastExit >= Cooldown

BookedForgettingExit(pos, action, at) == [pos EXCEPT !.open = action = "BUY"]

\* reconcile_execution, whatever the status of the report, with its time.
Booked(pos, action, at) ==
    IF action = "BUY" THEN [pos EXCEPT !.open = TRUE] ELSE [open |-> FALSE, lastExit |-> at]

Intent(d) == [at |-> d.at, state |-> d.state, action |-> d.action]

\* There is an intent, and its order is in no terminal status yet.
HasIntent(d) == d.action # "NONE" /\ Intent(d) \notin settled

-----------------------------------------------------------------------------
(* process_events *)

\* poll_once reads what there is, and process_events derives the state and the route.
Poll ==
    /\ pc = "idle"
    /\ queue # <<>>
    /\ LET n     == Min({BatchCount, Len(queue)})
           read  == SubSeq(queue, 1, n)
           s     == SignalOf(read)
           at    == SignalTime(read)
           state == NextState(checkpoint, s, at)
       IN  /\ batch' = read
           /\ queue' = SubSeq(queue, n + 1, Len(queue))
           /\ decision' = [NoDecision EXCEPT !.signal = s, !.at = at, !.state = state,
                             !.changed = state # checkpoint.state,
                             !.action = Route(state, s, position)]
           /\ asked' = IF s = BareSignal THEN asked ELSE 0
    /\ pc' = IF HasIntent(decision') THEN "execute" ELSE "publish"
    /\ UNCHANGED <<checkpoint, position, orders, saved, requests, letters, bounds, changedAt,
                   exitRefused, exitedAt, enteredEarly>>

\* Some policy refuses; those that look at neither signal nor position may always do so.
Refuse ==
    /\ pc = "execute"
    /\ exitRefused' = (exitRefused \/ decision.action = "EXIT")
    /\ pc' = "publish"
    /\ UNCHANGED <<checkpoint, position, orders, saved, requests, queue, letters, batch, decision,
                   bounds, changedAt, exitedAt, enteredEarly, asked>>

\* An entry that is sent now is within the cooldown.
Early(action) == action = "BUY" /\ exitedAt # NoTime /\ now - exitedAt < Cooldown

\* The risk engine allows the intent.  _record_submission keeps the status of an order
\* that failed before, so that one does not become pending again.
Submit ==
    /\ pc = "execute"
    /\ LiquidityPolicy(decision.action, decision.signal)
    /\ PositionPolicy(decision.action, position)
    /\ pending' = pending \cup ({Intent(decision)} \ unfilled)
    /\ enteredEarly' = (enteredEarly \/ Early(decision.action))
    /\ pc' = "dispatch"
    /\ UNCHANGED <<checkpoint, position, settled, unfilled, unbooked, saved, requests, queue,
                   letters, batch, decision, bounds, changedAt, exitRefused, exitedAt, asked>>

\* The venue answers: FILLED, which is terminal, or FAILED or PARTIAL_FILL.
Answer ==
    /\ pc = "dispatch"
    /\ pending' = pending \ {Intent(decision)}
    /\ \/ /\ settled' = settled \cup {Intent(decision)}
          /\ unfilled' = unfilled \ {Intent(decision)}
          /\ unbooked' = unbooked \cup {[intent |-> Intent(decision), at |-> now]}
       \/ /\ unfilled' = unfilled \cup {Intent(decision)}
          /\ UNCHANGED <<settled, unbooked>>
    /\ decision' = [decision EXCEPT !.answeredAt = now]
    /\ exitedAt' = IF decision.action = "EXIT" THEN now ELSE exitedAt
    /\ pc' = "publish"
    /\ UNCHANGED <<checkpoint, position, saved, requests, queue, letters, batch, bounds,
                   changedAt, exitRefused, enteredEarly, asked>>

Request == [state |-> decision.state, at |-> decision.at]

AsksForConfirmationAlways ==
    /\ decision.changed
    /\ Request \notin saved

\* A change to one of the trigger states, asked for under a key that is not saved yet.
AsksForConfirmation ==
    /\ decision.changed
    /\ decision.state \in SocialConfirmationTriggerStates
    /\ Request \notin saved

\* publish_decision_bundle
Publish ==
    /\ pc = "publish"
    /\ pc' = IF AsksForConfirmation THEN "request" ELSE "persist"
    /\ UNCHANGED <<checkpoint, position, orders, saved, requests, queue, letters, batch, decision,
                   bounds, history>>

\* _emit_social_confirmation_requests, first half: the raw-event store.
SaveRequest ==
    /\ pc = "request"
    /\ saved' = saved \cup {Request}
    /\ asked' = asked + 1
    /\ pc' = "send"
    /\ UNCHANGED <<checkpoint, position, orders, requests, queue, letters, batch, decision,
                   bounds, changedAt, exitRefused, exitedAt, enteredEarly>>

\* Second half: the stream.
SendRequest ==
    /\ pc = "send"
    /\ requests' = requests \cup {Request}
    /\ pc' = "persist"
    /\ UNCHANGED <<checkpoint, position, orders, saved, queue, letters, batch, decision, bounds,
                   history>>

\* persist_pipeline_result: an intent that was refused is REJECTED, a report is booked; of
\* a duplicate that was skipped there is nothing to write.
Persist ==
    /\ pc = "persist"
    /\ IF HasIntent(decision) /\ decision.answeredAt = NoTime
         THEN settled' = settled \cup {Intent(decision)} /\ pending' = pending \ {Intent(decision)}
         ELSE UNCHANGED <<settled, pending>>
    /\ IF decision.answeredAt # NoTime
         THEN /\ position' = Booked(position, decision.action, decision.answeredAt)
              /\ unbooked' = {r \in unbooked : r.intent # Intent(decision)}
         ELSE UNCHANGED <<position, unbooked>>
    /\ exitRefused' = (exitRefused /\ position'.open)
    /\ pc' = "checkpoint"
    /\ UNCHANGED <<checkpoint, unfilled, saved, requests, queue, letters, batch, decision, bounds,
                   changedAt, exitedAt, enteredEarly, asked>>

SaveCheckpointForgetting ==
    /\ pc = "checkpoint"
    /\ checkpoint' = [state |-> decision.state,
                      last |-> IF decision.changed THEN decision.at ELSE NoTime]
    /\ changedAt' = IF decision.changed THEN decision.at ELSE changedAt
    /\ pc' = "idle" /\ batch' = <<>> /\ decision' = NoDecision
    /\ UNCHANGED <<position, orders, saved, requests, queue, letters, bounds,
                   exitRefused, exitedAt, enteredEarly, asked>>

\* _save_fsm_checkpoint, which keeps the time of the last change.
SaveCheckpoint ==
    /\ pc = "checkpoint"
    /\ checkpoint' = [state |-> decision.state,
                      last |-> IF decision.changed THEN decision.at ELSE checkpoint.last]
    /\ changedAt' = IF decision.changed THEN decision.at ELSE changedAt
    /\ pc' = "idle" /\ batch' = <<>> /\ decision' = NoDecision
    /\ UNCHANGED <<position, orders, saved, requests, queue, letters, bounds,
                   exitRefused, exitedAt, enteredEarly, asked>>

-----------------------------------------------------------------------------
(* Failures and recovery. *)

Drop(l) == pc' = l /\ batch' = <<>> /\ decision' = NoDecision

\* The next step raises: poll_once makes dead letters of the batch.
Raise ==
    /\ pc \notin {"idle", "recover"}
    /\ faults < MaxFaults
    /\ faults' = faults + 1
    /\ letters' = letters \o batch
    /\ Drop("idle")
    /\ UNCHANGED <<checkpoint, position, orders, saved, requests, queue, now, events, replays,
                   history>>

\* No attempt is answered: the order is REJECTED, and _execute raises.
Exhaust ==
    /\ pc = "dispatch"
    /\ faults < MaxFaults
    /\ faults' = faults + 1
    /\ settled' = settled \cup {Intent(decision)}
    /\ unfilled' = unfilled \ {Intent(decision)}
    /\ pending' = pending \ {Intent(decision)}
    /\ letters' = letters \o batch
    /\ Drop("idle")
    /\ UNCHANGED <<checkpoint, position, unbooked, saved, requests, queue, now, events, replays,
                   history>>

\* The worker dies, with its batch, and starts again.
Die ==
    /\ faults < MaxFaults
    /\ faults' = faults + 1
    /\ Drop("recover")
    /\ UNCHANGED <<checkpoint, position, orders, saved, requests, queue, letters, now, events,
                   replays, history>>

\* recover_pending_executions executes a pending order again, without asking the risk
\* engine, and books the answer.
RecoverPending(i) ==
    /\ pc = "recover"
    /\ pending' = pending \ {i}
    /\ settled' = settled \cup {i}
    /\ enteredEarly' = (enteredEarly \/ Early(i.action))
    /\ \/ /\ position' = Booked(position, i.action, now)
          /\ exitedAt' = IF i.action = "EXIT" THEN now ELSE exitedAt
       \/ UNCHANGED <<position, exitedAt>>      \* its attempts are exhausted
    /\ exitRefused' = (exitRefused /\ position'.open)
    /\ UNCHANGED <<checkpoint, unfilled, unbooked, saved, requests, queue, letters, worker, bounds,
                   changedAt, asked>>

\* A filled order is booked as of its report, whatever was booked since.
RecoverFilled(r) ==
    /\ pc = "recover"
    /\ unbooked' = unbooked \ {r}
    /\ position' = Booked(position, r.intent.action, r.at)
    /\ exitRefused' = (exitRefused /\ position'.open)
    /\ UNCHANGED <<checkpoint, settled, unfilled, pending, saved, requests, queue, letters, worker,
                   bounds, changedAt, exitedAt, enteredEarly, asked>>

RecoveryDone ==
    /\ pc = "recover"
    /\ pending = {} /\ unbooked = {}
    /\ pc' = "idle"
    /\ UNCHANGED <<checkpoint, position, orders, saved, requests, queue, letters, batch, decision,
                   bounds, history>>

-----------------------------------------------------------------------------
(* Around the worker. *)

\* A source publishes a snapshot.
Observe(s) ==
    /\ events < MaxEvents
    /\ events' = events + 1
    /\ queue' = Append(queue, [signal |-> s, at |-> now])
    /\ UNCHANGED <<checkpoint, position, orders, saved, requests, letters, worker, now, faults,
                   replays, history>>

\* The social-confirmation worker answers with a snapshot, or has nothing to say.
Confirm(r) ==
    /\ requests' = requests \ {r}
    /\ queue' \in {queue, Append(queue, [signal |-> BareSignal, at |-> now])}
    /\ UNCHANGED <<checkpoint, position, orders, saved, letters, worker, bounds, history>>

Replay ==
    /\ letters # <<>>
    /\ replays < MaxReplays
    /\ replays' = replays + 1
    /\ queue' = queue \o letters
    /\ UNCHANGED <<checkpoint, position, orders, saved, requests, letters, worker, now, events,
                   faults, history>>

Tick ==
    /\ now < MaxTime
    /\ now' = now + 1
    /\ UNCHANGED <<checkpoint, position, orders, saved, requests, queue, letters, worker, events,
                   faults, replays, history>>

-----------------------------------------------------------------------------
Process ==
    \/ Poll
    \/ Refuse
    \/ Submit
    \/ Answer
    \/ Publish
    \/ SaveRequest
    \/ SendRequest
    \/ Persist
    \/ SaveCheckpoint
    \/ \E i \in pending : RecoverPending(i)
    \/ \E r \in unbooked : RecoverFilled(r)
    \/ RecoveryDone

Next ==
    \/ Process
    \/ Raise
    \/ Exhaust
    \/ Die
    \/ \E s \in ObservedSignals : Observe(s)
    \/ \E r \in requests : Confirm(r)
    \/ Replay
    \/ Tick

Spec == Init /\ [][Next]_vars

-----------------------------------------------------------------------------
(* Properties. *)

Events == [signal : ObservedSignals \cup {BareSignal}, at : Nat]
Steps == {"idle", "execute", "dispatch", "publish", "request", "send", "persist", "checkpoint",
          "recover"}
Intents == [at : Nat, state : TokenStates, action : {"BUY", "EXIT"}]
Requests == [state : SocialConfirmationTriggerStates, at : Nat]

TypeOK ==
    /\ checkpoint \in [state : TokenStates, last : Times]
    /\ position \in [open : BOOLEAN, lastExit : Times]
    /\ settled \subseteq Intents /\ unfilled \subseteq Intents /\ pending \subseteq Intents
    /\ unbooked \subseteq [intent : settled, at : Nat]
    /\ saved \subseteq Requests
    /\ requests \subseteq saved
    /\ queue \in Seq(Events) /\ letters \in Seq(Events) /\ batch \in Seq(Events)
    /\ pc \in Steps
    /\ decision \in [signal : ObservedSignals \cup {BareSignal}, at : Times, state : TokenStates,
                     changed : BOOLEAN, action : {"NONE", "BUY", "EXIT"}, answeredAt : Times]
    /\ now \in Nat /\ events \in Nat /\ faults \in Nat /\ replays \in Nat
    /\ changedAt \in Times /\ exitedAt \in Times
    /\ exitRefused \in BOOLEAN /\ enteredEarly \in BOOLEAN /\ asked \in Nat

\* core/config.py:59: checkpointed changes of state are at least the interval apart, in
\* event time, whatever fails in between and however late or often an event arrives.  (An
\* interval of 0 is no limit, and a late event may then take the time back.)
ChangesSpaced ==
    [][(changedAt' # changedAt /\ changedAt # NoTime)
          => changedAt' >= changedAt + MinTransitionInterval]_vars

\* It takes two faults to break that: one that keeps an answered exit or a submitted
\* entry from being booked, and a later start that recovers it.
ReentryCooled == enteredEarly => faults > 1

\* While nothing fails, a token that is in DISTRIBUTION between batches has no open
\* position, unless the exit was refused: the state is entered and held only together
\* with the exit, and no entry is routed from it.  (With an interval of 0 two exits may have
\* one time, and so one key: the second is then taken for the first, and not sent.)
DistributionIsFlat ==
    (pc = "idle" /\ faults = 0 /\ checkpoint.state = "DISTRIBUTION" /\ position.open)
        => exitRefused

\* The loop through the social worker does not feed itself.  What market figures bring about
\* asks for confirmation once, and the answers once more, for they lead to PRE_LAUNCH, where
\* the next one changes nothing; and so until there are new figures.  A fault between the
\* request and the checkpoint may repeat one.
ConfirmationsDieOut == asked <= 2 + faults
=============================================================================

------------------------- MODULE TradingDecisionProofs -------------------------
(***************************************************************************)
(* Theorems about TradingDecision, for every kind of market, any number of *)
(* events, faults and replays, and any cooldown: that changes of state are *)
(* spaced and a token in DISTRIBUTION is not held, where the interval      *)
(* between changes is not 0, and that an exit is followed by its cooldown. *)
(***************************************************************************)
EXTENDS TradingDecision, CommonLemmas, SequenceTheorems
-----------------------------------------------------------------------------
(* The inductive invariant. *)

Working == pc \notin {"idle", "recover"}

\* Events have times that have passed.
ClockInv ==
    /\ \A i \in DOMAIN queue : queue[i].at <= now
    /\ \A i \in DOMAIN letters : letters[i].at <= now
    /\ \A i \in DOMAIN batch : batch[i].at <= now

\* What is decided about a batch, and how far that is carried out.
DecisionInv ==
    /\ ~Working => decision = NoDecision /\ batch = <<>>
    /\ Working => decision.at # NoTime
    /\ Working => decision.changed = (decision.state # checkpoint.state)
    /\ decision.changed => ~RateLimited(checkpoint, decision.at)
    /\ decision.action = "EXIT" => decision.state = "DISTRIBUTION"
    /\ decision.action = "BUY" => decision.state \in EntryStates
    /\ pc \in {"execute", "dispatch"} => decision.action # "NONE" /\ decision.answeredAt = NoTime
    /\ pc \in {"request", "send"} => decision.state \in SocialConfirmationTriggerStates
    /\ pc = "send" => Request \in saved
    /\ changedAt = checkpoint.last

\* An exit is for an open position, until it is booked at the time of its answer.
ExitInv ==
    /\ pc = "dispatch" /\ decision.action = "EXIT" => position.open
    /\ decision.answeredAt # NoTime =>
         /\ pc \in {"publish", "request", "send", "persist", "checkpoint"}
         /\ decision.action # "NONE"
         /\ decision.action = "EXIT" =>
              exitedAt = decision.answeredAt /\ (pc # "checkpoint" => position.open)

\* Before the first fault the orders in between belong to the batch.
OrdersBeforeFaults ==
    faults = 0 =>
        /\ pc # "recover"
        /\ pending # {} => pc = "dispatch" /\ pending = {Intent(decision)}
        /\ \A r \in unbooked :
             /\ pc \in {"publish", "request", "send", "persist"}
             /\ r.intent = Intent(decision)
             /\ decision.answeredAt = r.at

\* After a death that is the first fault there is one of them at most to recover.
OrdersToRecover ==
    faults = 1 /\ pc = "recover" =>
        /\ pending = {} \/ unbooked = {}
        /\ \A i, j \in pending : i = j
        /\ \A i \in pending : ~Early(i.action)
        /\ \A r \in unbooked : r.intent.action = "EXIT" => exitedAt = r.at

\* With one fault a closed position knows of the latest exit.
CooldownInv ==
    faults <= 1 =>
        /\ ~enteredEarly
        /\ pc = "dispatch" => ~Early(decision.action)
        /\ ~position.open /\ exitedAt # NoTime =>
             position.lastExit # NoTime /\ position.lastExit >= exitedAt

\* A state other than PRE_LAUNCH leaves room for the request of one answer: those lead to
\* PRE_LAUNCH, and from there nowhere.
AskInv ==
    /\ asked <= 2 + faults
    /\ pc \notin {"send", "persist", "checkpoint"} =>
         (checkpoint.state # "PRE_LAUNCH" => asked <= 1 + faults)
    /\ pc \in {"execute", "dispatch", "publish", "request"} =>
         (decision.state # "PRE_LAUNCH" =>
            asked <= 1 + faults /\ (decision.changed => asked <= faults))
    /\ pc = "request" => decision.changed
    /\ pc \in {"send", "persist", "checkpoint"} =>
         (decision.state # "PRE_LAUNCH" => asked <= 1 + faults)

Inv == TypeOK /\ ClockInv /\ DecisionInv /\ ExitInv /\ OrdersBeforeFaults /\ OrdersToRecover
       /\ CooldownInv /\ AskInv

\* While nothing fails, events are read in the order of their times.
OrderInv ==
    faults = 0 =>
        /\ letters = <<>>
        /\ \A i, j \in DOMAIN queue : i < j => queue[i].at <= queue[j].at
        /\ \A i \in DOMAIN queue :
             /\ Working => decision.at <= queue[i].at
             /\ checkpoint.last <= queue[i].at
             /\ \A x \in settled : x.at <= queue[i].at
        /\ Working => /\ checkpoint.last <= decision.at /\ decision.at <= now
                      /\ \A x \in settled : x.at <= decision.at
        /\ checkpoint.last <= now /\ \A x \in settled : x.at <= now

\* The exits that are behind came before the change to the state that is no DISTRIBUTION.
ExitsBehind ==
    faults = 0 /\ checkpoint.state # "DISTRIBUTION" =>
        \A x \in settled :
            x.action = "EXIT" => x.at <= checkpoint.last \/ (Working /\ x = Intent(decision))

\* An exit is under way, answered or refused.
FlatInv ==
    faults = 0 =>
        /\ pc = "idle" /\ checkpoint.state = "DISTRIBUTION" /\ position.open => exitRefused
        /\ pc \in {"execute", "dispatch"} /\ decision.state = "DISTRIBUTION" =>
             decision.action = "EXIT"
        /\ pc \in {"publish", "request", "send", "persist", "checkpoint"}
           /\ decision.state = "DISTRIBUTION" /\ position.open =>
             \/ exitRefused
             \/ decision.action = "EXIT" /\ decision.answeredAt # NoTime /\ pc # "checkpoint"

-----------------------------------------------------------------------------
(* The engines. *)

Signal == ObservedSignals \cup {BareSignal}

\* The engine derives a state (_derive_state), whatever the signal.
LEMMA StateIs ==
  ASSUME NEW cp, cp.state \in TokenStates, NEW s, NEW at
  PROVE  NextState(cp, s, at) \in TokenStates
  BY Zenon DEF NextState, DerivedState, RespectedCandidates, TokenStates

\* What the router may answer: an exit from DISTRIBUTION only, an entry from the others.
LEMMA RouteIs ==
  ASSUME NEW state, NEW s, NEW pos
  PROVE  /\ Route(state, s, pos) \in {"NONE", "BUY", "EXIT"}
         /\ Route(state, s, pos) = "EXIT" <=> (state = "DISTRIBUTION" /\ pos.open)
         /\ Route(state, s, pos) = "BUY" => state \in EntryStates
  BY DEF Route, EntryStates

\* build_signal makes one of the signals there are.
LEMMA SignalIs ==
  ASSUME NEW evs \in Seq(Events)
  PROVE  SignalOf(evs) \in Signal
<1> DEFINE I == {i \in 1 .. Len(evs) : evs[i].signal # BareSignal}
<1> DEFINE k == IF I # {} THEN Max(I) ELSE 0
<1>1. SelectLastInSeq(evs, LAMBDA e : e.signal # BareSignal) = k
  BY DEF SelectLastInSeq
<1>2. SignalOf(evs) = IF k = 0 THEN BareSignal ELSE evs[k].signal
  BY <1>1, Zenon DEF SignalOf
<1>3. CASE k = 0
  BY <1>2, <1>3 DEF Signal
<1>4. CASE k # 0
  <2>1. I # {}
    BY <1>4
  <2>2. I \in SUBSET Nat /\ Len(evs) \in Nat /\ \A y \in I : y <= Len(evs)
    OBVIOUS
  <2>3. Max(I) \in I
    BY <2>1, <2>2, MaxIsGreatest, Zenon
  <2>4. k \in 1 .. Len(evs)
    BY <2>1, <2>3
  <2>5. evs[k] \in Events
    BY <2>4
  <2>6. QED
    BY <1>2, <1>4, <2>5 DEF Events, Signal
<1>5. QED
  BY <1>3, <1>4

\* Its time is that of the latest event.
LEMMA SignalTimeIs ==
  ASSUME NEW evs \in Seq(Events), evs # <<>>, NEW bound \in Nat,
         \A i \in DOMAIN evs : evs[i].at <= bound
  PROVE  /\ SignalTime(evs) \in Nat
         /\ \E i \in DOMAIN evs : SignalTime(evs) = evs[i].at
         /\ \A i \in DOMAIN evs : evs[i].at <= SignalTime(evs)
<1> DEFINE T == {e.at : e \in ToSet(evs)}
<1>1. ToSet(evs) = {evs[i] : i \in DOMAIN evs}
  BY DEF ToSet
<1>2. \A i \in DOMAIN evs : evs[i] \in Events
  OBVIOUS
<1>3. \A t : t \in T <=> \E i \in DOMAIN evs : t = evs[i].at
  BY <1>1
<1>4. T \in SUBSET Nat /\ T # {} /\ \A y \in T : y <= bound
  <2>1. T \in SUBSET Nat
    BY <1>2, <1>3 DEF Events
  <2>2. 1 \in DOMAIN evs
    OBVIOUS
  <2>3. QED
    BY <1>3, <2>1, <2>2
<1>5. Max(T) \in T /\ \A y \in T : y <= Max(T)
  BY <1>4, MaxIsGreatest, Zenon
<1>6. SignalTime(evs) = Max(T)
  BY DEF SignalTime
<1>7. QED
  BY <1>3, <1>4, <1>5, <1>6

\* The rate limit, without Max.
LEMMA RateLimitIs ==
  ASSUME NEW cp, cp.last \in Times, NEW at \in Nat, ~ RateLimited(cp, at)
  PROVE  \/ cp.last = NoTime
         \/ MinTransitionInterval = 0
         \/ cp.last \in Nat /\ at >= cp.last + MinTransitionInterval
<1>1. cp.last # NoTime => cp.last \in Nat
  BY DEF Times, NoTime
<1>2. MinTransitionInterval \in Nat
  BY DecisionAssumption
<1>3. SUFFICES ASSUME cp.last \in Nat, cp.last # NoTime, MinTransitionInterval # 0
               PROVE  at >= cp.last + MinTransitionInterval
  BY <1>1
<1>4. at - cp.last \in Int
  BY <1>3
<1>5. Max({at - cp.last, 0}) = IF at - cp.last >= 0 THEN at - cp.last ELSE 0
  BY <1>4, MaxWithZero, Zenon
<1>6. ~ (Max({at - cp.last, 0}) < MinTransitionInterval)
  BY <1>3 DEF RateLimited
<1>7. QED
  BY <1>2, <1>3, <1>5, <1>6

-----------------------------------------------------------------------------
(* Types. *)

Decisions ==
    [signal : Signal, at : Times, state : TokenStates, changed : BOOLEAN,
     action : {"NONE", "BUY", "EXIT"}, answeredAt : Times]

\* A batch is the first n events of the queue, and the decision is made on it and on the
\* checkpoint and the position as they are then.
LEMMA Polled ==
  ASSUME TypeOK, ClockInv, Poll
  PROVE  \E n \in 1 .. Len(queue) :
           /\ batch' \in Seq(Events) /\ queue' \in Seq(Events)
           /\ DOMAIN batch' = 1 .. n /\ \A i \in 1 .. n : batch'[i] = queue[i]
           /\ \A i \in DOMAIN queue' : i + n \in DOMAIN queue /\ queue'[i] = queue[i + n]
           /\ decision' \in Decisions
           /\ decision'.at \in Nat /\ decision'.at <= now
           /\ \E j \in 1 .. n : decision'.at = queue[j].at
           /\ \A j \in 1 .. n : queue[j].at <= decision'.at
           /\ decision'.state = NextState(checkpoint, decision'.signal, decision'.at)
           /\ decision'.changed = (decision'.state # checkpoint.state)
           /\ decision'.action = Route(decision'.state, decision'.signal, position)
           /\ decision'.answeredAt = NoTime
<1> DEFINE n == Min({BatchCount, Len(queue)})
<1> DEFINE read == SubSeq(queue, 1, n)
<1> DEFINE s == SignalOf(read)
<1> DEFINE at == SignalTime(read)
<1> DEFINE state == NextState(checkpoint, s, at)
<1>1. queue \in Seq(Events) /\ Len(queue) \in Nat \ {0} /\ BatchCount \in Nat \ {0}
  BY DecisionAssumption DEF TypeOK, Poll
<1>2. n \in 1 .. Len(queue)
  <2>1. n = IF BatchCount <= Len(queue) THEN BatchCount ELSE Len(queue)
    BY <1>1, MinOfTwo, Zenon
  <2> HIDE DEF n
  <2>2. QED
    BY <1>1, <2>1
<1>3. /\ batch' = read
      /\ queue' = SubSeq(queue, n + 1, Len(queue))
      /\ decision' = [NoDecision EXCEPT !.signal = s, !.at = at, !.state = state,
                        !.changed = (state # checkpoint.state),
                        !.action = Route(state, s, position)]
  BY Zenon DEF Poll
<1> HIDE DEF n
<1>4. /\ read \in Seq(Events) /\ Len(read) = n
      /\ \A i \in 1 .. n : read[i] = queue[i]
  BY <1>1, <1>2
<1>5. /\ queue' \in Seq(Events)
      /\ \A i \in DOMAIN queue' : i + n \in DOMAIN queue /\ queue'[i] = queue[i + n]
  BY <1>1, <1>2, <1>3
<1> HIDE DEF read
<1>6. DOMAIN read = 1 .. n /\ read # <<>>
  BY <1>2, <1>4
<1>7. now \in Nat /\ \A i \in DOMAIN read : read[i].at <= now
  BY <1>1, <1>2, <1>4, <1>6 DEF TypeOK, ClockInv
<1>8. /\ at \in Nat
      /\ \E j \in DOMAIN read : at = read[j].at
      /\ \A j \in DOMAIN read : read[j].at <= at
  BY <1>4, <1>6, <1>7, SignalTimeIs, Zenon
<1>9. s \in Signal
  BY <1>4, SignalIs, Zenon
<1> HIDE DEF s, at
<1>10. state \in TokenStates
  BY StateIs DEF TypeOK
<1>11. Route(state, s, position) \in {"NONE", "BUY", "EXIT"}
  BY RouteIs, Zenon
<1> HIDE DEF state
<1>12. /\ decision'.signal = s /\ decision'.at = at /\ decision'.state = state
       /\ decision'.changed = (state # checkpoint.state)
       /\ decision'.action = Route(state, s, position) /\ decision'.answeredAt = NoTime
  BY <1>3 DEF NoDecision
<1>13. decision' \in Decisions
  <2>1. decision' = [signal |-> s, at |-> at, state |-> state,
                     changed |-> (state # checkpoint.state),
                     action |-> Route(state, s, position), answeredAt |-> NoTime]
    BY <1>3 DEF NoDecision
  <2>2. (state # checkpoint.state) \in BOOLEAN
    OBVIOUS
  <2>3. at \in Times /\ NoTime \in Times
    BY <1>8 DEF Times
  <2>4. QED
    BY <1>9, <1>10, <1>11, <2>1, <2>2, <2>3, Zenon DEF Decisions
<1>14. at <= now
  BY <1>7, <1>8
<1>15. state = NextState(checkpoint, s, at)
  BY DEF state
<1>16. batch' \in Seq(Events) /\ DOMAIN batch' = 1 .. n /\ \A i \in 1 .. n : batch'[i] = queue[i]
  BY <1>3, <1>4, <1>6
<1>17. (\E j \in 1 .. n : at = queue[j].at) /\ \A j \in 1 .. n : queue[j].at <= at
  BY <1>4, <1>6, <1>8
<1>18. QED
  BY <1>2, <1>5, <1>8, <1>12, <1>13, <1>14, <1>15, <1>16, <1>17, Zenon

\* What is booked (reconcile_execution) is a position.
LEMMA BookedIs ==
  ASSUME position \in [open : BOOLEAN, lastExit : Times], NEW action, NEW at \in Nat
  PROVE  /\ Booked(position, action, at) \in [open : BOOLEAN, lastExit : Times]
         /\ action = "BUY" => Booked(position, action, at).open
         /\ action # "BUY" => /\ ~ Booked(position, action, at).open
                              /\ Booked(position, action, at).lastExit = at
  BY DEF Booked, Times

\* The intent of a decision under way.
LEMMA IntentIs ==
  ASSUME TypeOK, DecisionInv, Working, decision.action # "NONE"
  PROVE  Intent(decision) \in Intents
<1>1. decision \in Decisions
  BY DEF TypeOK, Decisions, Signal
<1>2. decision.at \in Nat /\ decision.state \in TokenStates /\ decision.action \in {"BUY", "EXIT"}
  BY <1>1 DEF Decisions, DecisionInv, Times, NoTime
<1>3. QED
  BY <1>2 DEF Intent, Intents

\* A batch is dropped.
LEMMA Dropped ==
  ASSUME TypeOK, NEW step \in {"idle", "recover"}, Drop(step)
  PROVE  /\ pc' \in Steps /\ batch' \in Seq(Events) /\ decision' \in Decisions
         /\ pc' = step /\ batch' = <<>> /\ decision' = NoDecision
<1>1. NoDecision \in Decisions
  BY DEF NoDecision, Decisions, Signal, TokenStates, Times
<1>2. QED
  BY <1>1 DEF Drop, Steps

\* Every step keeps the types.
LEMMA TypesKept ==
  ASSUME TypeOK, ClockInv, DecisionInv, ExitInv, [Next]_vars
  PROVE  TypeOK'
<1> USE DEF TypeOK, orders, worker, bounds, history
<1>a. decision \in Decisions
  BY DEF Decisions, Signal
<1>b. TypeOK' <=> /\ checkpoint' \in [state : TokenStates, last : Times]
                  /\ position' \in [open : BOOLEAN, lastExit : Times]
                  /\ settled' \subseteq Intents /\ unfilled' \subseteq Intents
                  /\ pending' \subseteq Intents
                  /\ unbooked' \subseteq [intent : settled', at : Nat]
                  /\ saved' \subseteq Requests /\ requests' \subseteq saved'
                  /\ queue' \in Seq(Events) /\ letters' \in Seq(Events)
                  /\ batch' \in Seq(Events) /\ pc' \in Steps /\ decision' \in Decisions
                  /\ now' \in Nat /\ events' \in Nat /\ faults' \in Nat /\ replays' \in Nat
                  /\ changedAt' \in Times /\ exitedAt' \in Times
                  /\ exitRefused' \in BOOLEAN /\ enteredEarly' \in BOOLEAN /\ asked' \in Nat
  BY DEF Decisions, Signal
<1>1. CASE Poll
  <2>1. batch' \in Seq(Events) /\ queue' \in Seq(Events) /\ decision' \in Decisions
    BY <1>1, Polled
  <2>2. pc' \in Steps
    BY <1>1 DEF Poll, Steps
  <2>3. UNCHANGED <<checkpoint, position, orders, saved, requests, letters, bounds, changedAt,
                    exitRefused, exitedAt, enteredEarly>>
    BY <1>1 DEF Poll
  <2>4. asked' \in Nat
    BY <1>1 DEF Poll
  <2>5. QED
    BY <1>b, <2>1, <2>2, <2>3, <2>4
<1>2. CASE Refuse
  <2>1. pc' \in Steps
    BY <1>2 DEF Refuse, Steps
  <2>2. exitRefused' \in BOOLEAN
    BY <1>2, Zenon DEF Refuse
  <2>3. UNCHANGED <<checkpoint, position, orders, saved, requests, queue, letters, batch, decision,
                    bounds, changedAt, exitedAt, enteredEarly, asked>>
    BY <1>2 DEF Refuse
  <2>4. QED
    BY <2>1, <2>2, <2>3
<1>3. CASE Submit
  <2>1. Intent(decision) \in Intents
    BY <1>3, IntentIs DEF Submit, DecisionInv, Working
  <2>2. pc' \in Steps /\ pending' \subseteq Intents
    BY <1>3, <2>1 DEF Submit, Steps
  <2>3. enteredEarly' \in BOOLEAN
    BY <1>3, Zenon DEF Submit
  <2>4. QED
    BY <1>3, <2>2, <2>3 DEF Submit
<1>4. CASE Answer
  <2>1. Intent(decision) \in Intents
    BY <1>4, IntentIs DEF Answer, DecisionInv, Working
  <2>2. pc' \in Steps /\ pending' \subseteq Intents /\ exitedAt' \in Times
    BY <1>4 DEF Answer, Steps, Times
  <2>3. /\ settled' \subseteq Intents /\ unfilled' \subseteq Intents
        /\ unbooked' \subseteq [intent : settled', at : Nat]
    BY <1>4, <2>1 DEF Answer
  <2>4. decision' \in Decisions
    BY <1>4, <1>a DEF Answer, Decisions, Times
  <2>5. UNCHANGED <<checkpoint, position, saved, requests, queue, letters, batch, bounds,
                    changedAt, exitRefused, enteredEarly, asked>>
    BY <1>4 DEF Answer
  <2>6. QED
    BY <1>b, <2>2, <2>3, <2>4, <2>5
<1>5. CASE Publish
  <2>1. pc' \in Steps
    BY <1>5 DEF Publish, Steps
  <2>2. QED
    BY <1>5, <2>1 DEF Publish
<1>6. CASE SaveRequest
  <2>1. Request \in Requests
    BY <1>6, <1>a DEF SaveRequest, DecisionInv, Working, Request, Requests, Decisions, Times, NoTime
  <2>2. saved' \subseteq Requests /\ requests' \subseteq saved' /\ pc' \in Steps
    BY <1>6, <2>1 DEF SaveRequest, Steps
  <2>3. QED
    BY <1>6, <2>2 DEF SaveRequest
<1>7. CASE SendRequest
  <2>1. requests' \subseteq saved' /\ pc' \in Steps
    BY <1>7 DEF SendRequest, DecisionInv, Steps
  <2>2. QED
    BY <1>7, <2>1 DEF SendRequest
<1>8. CASE Persist
  <2>1. settled' \subseteq Intents /\ pending' \subseteq Intents /\ settled \subseteq settled'
    <3>1. HasIntent(decision) => Intent(decision) \in Intents
      BY <1>8, IntentIs DEF HasIntent, Persist, Working
    <3>2. QED
      BY <1>8, <3>1 DEF Persist
  <2>2. unbooked' \subseteq [intent : settled', at : Nat]
    BY <1>8, <2>1 DEF Persist
  <2>3. position' \in [open : BOOLEAN, lastExit : Times]
    <3>1. CASE decision.answeredAt # NoTime
      <4>1. decision.answeredAt \in Nat
        BY <1>a, <3>1 DEF Decisions, Times, NoTime
      <4>2. QED
        BY <1>8, <3>1, <4>1, BookedIs DEF Persist
    <3>2. CASE decision.answeredAt = NoTime
      BY <1>8, <3>2 DEF Persist
    <3>3. QED
      BY <3>1, <3>2
  <2>4. exitRefused' \in BOOLEAN
    BY <1>8, Zenon DEF Persist
  <2>5. pc' \in Steps
    BY <1>8 DEF Persist, Steps
  <2>6. QED
    BY <1>8, <2>1, <2>2, <2>3, <2>4, <2>5 DEF Persist
<1>9. CASE SaveCheckpoint
  <2>1. checkpoint' \in [state : TokenStates, last : Times] /\ changedAt' \in Times
    BY <1>9, <1>a DEF SaveCheckpoint, Decisions
  <2>2. pc' \in Steps /\ batch' \in Seq(Events) /\ decision' \in Decisions
    BY <1>9, Dropped DEF SaveCheckpoint, Drop
  <2>3. UNCHANGED <<position, orders, saved, requests, queue, letters, bounds,
                    exitRefused, exitedAt, enteredEarly, asked>>
    BY <1>9 DEF SaveCheckpoint
  <2>4. QED
    BY <1>b, <2>1, <2>2, <2>3
<1>10. CASE Raise \/ Exhaust \/ Die
  <2>1. PICK step \in {"idle", "recover"} : Drop(step)
    BY <1>10 DEF Raise, Exhaust, Die
  <2>2. pc' \in Steps /\ batch' \in Seq(Events) /\ decision' \in Decisions
    BY <2>1, Dropped
  <2>3. letters' \in Seq(Events) /\ faults' \in Nat
    <3>1. letters \o batch \in Seq(Events)
      BY ConcatProperties
    <3>2. letters' = letters \/ letters' = letters \o batch
      BY <1>10, Zenon DEF Raise, Exhaust, Die
    <3>3. faults' = faults + 1
      BY <1>10, Zenon DEF Raise, Exhaust, Die
    <3>4. letters \in Seq(Events) /\ faults + 1 \in Nat
      OBVIOUS
    <3>5. QED
      BY <3>1, <3>2, <3>3, <3>4, Zenon
  <2>4. /\ settled' \subseteq Intents /\ unfilled' \subseteq Intents /\ pending' \subseteq Intents
        /\ settled \subseteq settled'
    <3>1. CASE Exhaust
      <4>1. Working /\ decision.action # "NONE"
        BY <3>1 DEF Exhaust, DecisionInv, Working
      <4>2. Intent(decision) \in Intents
        BY <4>1, IntentIs
      <4>3. QED
        BY <3>1, <4>2 DEF Exhaust
    <3>2. CASE Raise \/ Die
      BY <3>2 DEF Raise, Die
    <3>3. QED
      BY <1>10, <3>1, <3>2
  <2>5. UNCHANGED <<checkpoint, position, unbooked, saved, requests, queue, now, events, replays,
                    history>>
    BY <1>10 DEF Raise, Exhaust, Die
  <2>6. unbooked' \subseteq [intent : settled', at : Nat]
    BY <2>4, <2>5
  <2>7. QED
    BY <1>b, <2>2, <2>3, <2>4, <2>5, <2>6
<1>11. ASSUME NEW i \in pending, RecoverPending(i)
       PROVE  TypeOK'
  <2>1. position' \in [open : BOOLEAN, lastExit : Times] /\ exitedAt' \in Times
    BY <1>11, BookedIs DEF RecoverPending, Times
  <2>2. /\ settled' \subseteq Intents /\ pending' \subseteq Intents
        /\ unbooked' \subseteq [intent : settled', at : Nat]
    BY <1>11 DEF RecoverPending
  <2>3. enteredEarly' \in BOOLEAN /\ exitRefused' \in BOOLEAN
    BY <1>11, Zenon DEF RecoverPending
  <2>4. QED
    BY <1>11, <2>1, <2>2, <2>3 DEF RecoverPending
<1>12. ASSUME NEW r \in unbooked, RecoverFilled(r)
       PROVE  TypeOK'
  <2>1. r.at \in Nat
    OBVIOUS
  <2>2. position' \in [open : BOOLEAN, lastExit : Times]
    BY <1>12, <2>1, BookedIs DEF RecoverFilled
  <2>3. unbooked' \subseteq [intent : settled', at : Nat]
    BY <1>12 DEF RecoverFilled
  <2>4. exitRefused' \in BOOLEAN
    BY <1>12, Zenon DEF RecoverFilled
  <2>5. QED
    BY <1>12, <2>2, <2>3, <2>4 DEF RecoverFilled
<1>13. CASE RecoveryDone
  BY <1>13 DEF RecoveryDone, Steps
<1>14. ASSUME NEW s \in ObservedSignals, Observe(s)
       PROVE  TypeOK'
  <2>1. [signal |-> s, at |-> now] \in Events
    BY DEF Events
  <2>2. queue' \in Seq(Events) /\ events' \in Nat
    BY <1>14, <2>1 DEF Observe
  <2>3. QED
    BY <1>14, <2>2 DEF Observe
<1>15. ASSUME NEW r \in requests, Confirm(r)
       PROVE  TypeOK'
  <2>1. [signal |-> BareSignal, at |-> now] \in Events
    BY DEF Events
  <2>2. queue' \in Seq(Events) /\ requests' \subseteq saved'
    <3>1. queue' = queue \/ queue' = Append(queue, [signal |-> BareSignal, at |-> now])
      BY <1>15 DEF Confirm
    <3>2. Append(queue, [signal |-> BareSignal, at |-> now]) \in Seq(Events)
      BY <2>1, AppendProperties
    <3>3. requests' \subseteq saved'
      BY <1>15 DEF Confirm
    <3>4. queue \in Seq(Events)
      OBVIOUS
    <3>5. QED
      BY <3>1, <3>2, <3>3, <3>4, Zenon
  <2>3. QED
    BY <1>15, <2>2 DEF Confirm
<1>16. CASE Replay
  <2>1. queue \o letters \in Seq(Events)
    BY ConcatProperties
  <2>2. queue' \in Seq(Events) /\ replays' \in Nat
    BY <1>16, <2>1 DEF Replay
  <2>3. QED
    BY <1>16, <2>2 DEF Replay
<1>17. CASE Tick
  BY <1>17 DEF Tick
<1>18. CASE UNCHANGED vars
  BY <1>18 DEF vars
<1>19. QED
  BY <1>1, <1>2, <1>3, <1>4, <1>5, <1>6, <1>7, <1>8, <1>9, <1>10, <1>11, <1>12, <1>13, <1>14,
     <1>15, <1>16, <1>17, <1>18
     DEF Next, Process

-----------------------------------------------------------------------------
(* The decision and the batch. *)

\* What the sources, the social worker, a replay and the clock leave alone.
Outside ==
    /\ UNCHANGED <<checkpoint, position, orders, saved, letters, worker, faults, history>>
    /\ now' = now \/ now' = now + 1

LateSteps == {"publish", "request", "send", "persist", "checkpoint"}

\* A step is one of the pipeline worker, or leaves it alone.
LEMMA StepKinds ==
  ASSUME TypeOK, [Next]_vars
  PROVE  \/ Poll \/ Refuse \/ Submit \/ Answer \/ Publish \/ SaveRequest \/ SendRequest
         \/ Persist \/ SaveCheckpoint
         \/ \E i \in pending : RecoverPending(i)
         \/ \E r \in unbooked : RecoverFilled(r)
         \/ RecoveryDone \/ Raise \/ Exhaust \/ Die
         \/ Outside
<1>1. ASSUME NEW s \in ObservedSignals, Observe(s)
      PROVE  Outside
  BY <1>1 DEF Observe, Outside
<1>2. ASSUME NEW r \in requests, Confirm(r)
      PROVE  Outside
  BY <1>2 DEF Confirm, Outside, bounds
<1>3. Replay => Outside
  BY DEF Replay, Outside
<1>4. Tick => Outside
  BY DEF Tick, Outside
<1>5. UNCHANGED vars => Outside
  BY DEF vars, Outside, bounds
<1>6. QED
  BY <1>1, <1>2, <1>3, <1>4, <1>5 DEF Next, Process

\* No event comes from the future.
LEMMA ClockKept ==
  ASSUME TypeOK, ClockInv, DecisionInv, [Next]_vars
  PROVE  ClockInv'
<1>a. /\ queue \in Seq(Events) /\ letters \in Seq(Events) /\ batch \in Seq(Events) /\ now \in Nat
      /\ \A i \in DOMAIN queue : queue[i].at \in Nat
      /\ \A i \in DOMAIN letters : letters[i].at \in Nat
      /\ \A i \in DOMAIN batch : batch[i].at \in Nat
  <2>1. queue \in Seq(Events) /\ letters \in Seq(Events) /\ batch \in Seq(Events) /\ now \in Nat
    BY DEF TypeOK
  <2>2. /\ \A i \in DOMAIN queue : queue[i] \in Events
        /\ \A i \in DOMAIN letters : letters[i] \in Events
        /\ \A i \in DOMAIN batch : batch[i] \in Events
    BY <2>1
  <2>3. QED
    BY <2>1, <2>2 DEF Events
<1>1. CASE UNCHANGED <<queue, letters, batch, now>>
  BY <1>1 DEF ClockInv
<1>2. CASE Poll
  <2>1. UNCHANGED <<letters, now>>
    BY <1>2 DEF Poll, bounds
  <2>2. PICK n \in 1 .. Len(queue) :
           /\ DOMAIN batch' = 1 .. n /\ \A i \in 1 .. n : batch'[i] = queue[i]
           /\ \A i \in DOMAIN queue' : i + n \in DOMAIN queue /\ queue'[i] = queue[i + n]
    BY <1>2, Polled
  <2>3. \A i \in 1 .. n : i \in DOMAIN queue
    BY <1>a, <2>2
  <2>4. QED
    BY <2>1, <2>2, <2>3 DEF ClockInv
<1>3. CASE SaveCheckpoint \/ Die
  <2>1. batch' = <<>> /\ UNCHANGED <<queue, letters, now>>
    BY <1>3 DEF SaveCheckpoint, Die, Drop, bounds
  <2>2. QED
    BY <2>1 DEF ClockInv
<1>4. CASE Raise \/ Exhaust
  <2>1. batch' = <<>> /\ UNCHANGED <<queue, now>> /\ letters' = letters \o batch
    BY <1>4 DEF Raise, Exhaust, Drop
  <2>2. ASSUME NEW i \in DOMAIN letters'
        PROVE  letters'[i].at <= now
    <3>1. /\ i \in 1 .. Len(letters) + Len(batch)
          /\ letters'[i] = IF i <= Len(letters) THEN letters[i] ELSE batch[i - Len(letters)]
      BY <1>a, <2>1, <2>2, ConcatProperties
    <3>2. CASE i <= Len(letters)
      BY <1>a, <3>1, <3>2 DEF ClockInv
    <3>3. CASE i > Len(letters)
      <4>1. i - Len(letters) \in DOMAIN batch
        BY <1>a, <3>1, <3>3
      <4>2. letters'[i] = batch[i - Len(letters)]
        BY <1>a, <3>1, <3>3
      <4>3. QED
        BY <4>1, <4>2 DEF ClockInv
    <3>4. QED
      BY <1>a, <3>1, <3>2, <3>3
  <2>3. QED
    BY <2>1, <2>2 DEF ClockInv
<1>5. ASSUME NEW s, queue' = Append(queue, [signal |-> s, at |-> now]),
             UNCHANGED <<letters, batch, now>>
      PROVE  ClockInv'
  <2>1. ASSUME NEW i \in DOMAIN queue'
        PROVE  queue'[i].at <= now
    <3>1. CASE i \in DOMAIN queue
      BY <1>a, <1>5, <3>1 DEF ClockInv
    <3>2. CASE i \notin DOMAIN queue
      <4>1. queue'[i] = [signal |-> s, at |-> now]
        BY <1>a, <1>5, <2>1, <3>2
      <4>2. QED
        BY <1>a, <4>1
    <3>3. QED
      BY <3>1, <3>2
  <2>2. QED
    BY <1>5, <2>1 DEF ClockInv
<1>6. CASE Replay
  <2>1. UNCHANGED <<letters, batch, now>> /\ queue' = queue \o letters
    BY <1>6 DEF Replay, worker
  <2>2. ASSUME NEW i \in DOMAIN queue'
        PROVE  queue'[i].at <= now
    <3>1. /\ i \in 1 .. Len(queue) + Len(letters)
          /\ queue'[i] = IF i <= Len(queue) THEN queue[i] ELSE letters[i - Len(queue)]
      BY <1>a, <2>1, <2>2, ConcatProperties
    <3>2. CASE i <= Len(queue)
      BY <1>a, <3>1, <3>2 DEF ClockInv
    <3>3. CASE i > Len(queue)
      <4>1. i - Len(queue) \in DOMAIN letters
        BY <1>a, <3>1, <3>3
      <4>2. queue'[i] = letters[i - Len(queue)]
        BY <1>a, <3>1, <3>3
      <4>3. QED
        BY <4>1, <4>2 DEF ClockInv
    <3>4. QED
      BY <1>a, <3>1, <3>2, <3>3
  <2>3. QED
    BY <2>1, <2>2 DEF ClockInv
<1>7. CASE Tick
  <2>1. UNCHANGED <<queue, letters, batch>> /\ now' = now + 1
    BY <1>7 DEF Tick, worker
  <2>2. /\ \A i \in DOMAIN queue : queue[i].at <= now + 1
        /\ \A i \in DOMAIN letters : letters[i].at <= now + 1
        /\ \A i \in DOMAIN batch : batch[i].at <= now + 1
    BY <1>a DEF ClockInv
  <2>3. QED
    BY <2>1, <2>2 DEF ClockInv
<1>8. ASSUME NEW s \in ObservedSignals, Observe(s)
      PROVE  ClockInv'
  BY <1>5, <1>8 DEF Observe, worker
<1>9. ASSUME NEW r \in requests, Confirm(r)
      PROVE  ClockInv'
  BY <1>1, <1>5, <1>9 DEF Confirm, worker, bounds
<1>10. CASE \/ Refuse \/ Submit \/ Answer \/ Publish \/ SaveRequest \/ SendRequest \/ Persist
            \/ RecoveryDone \/ UNCHANGED vars
  BY <1>1, <1>10 DEF Refuse, Submit, Answer, Publish, SaveRequest, SendRequest, Persist,
                     RecoveryDone, vars, worker, bounds
<1>11. CASE (\E i \in pending : RecoverPending(i)) \/ (\E r \in unbooked : RecoverFilled(r))
  BY <1>1, <1>11 DEF RecoverPending, RecoverFilled, worker, bounds
<1>12. QED
  BY <1>2, <1>3, <1>4, <1>6, <1>7, <1>8, <1>9, <1>10, <1>11 DEF Next, Process

\* A decision is carried out as it was made, up to the checkpoint (process_events).
LEMMA DecisionKept ==
  ASSUME TypeOK, ClockInv, DecisionInv, [Next]_vars
  PROVE  DecisionInv'
<1> USE DEF DecisionInv, Working
<1>1. CASE Outside
  <2>1. UNCHANGED <<checkpoint, saved, pc, batch, decision, changedAt>>
    BY <1>1 DEF Outside, worker, history
  <2>2. RateLimited(checkpoint, decision.at)' = RateLimited(checkpoint, decision.at)
    BY <2>1 DEF RateLimited
  <2>3. Request' = Request
    BY <2>1 DEF Request
  <2>4. QED
    BY <2>1, <2>2, <2>3
<1>2. CASE Poll
  <2>1. /\ decision' \in Decisions
        /\ decision'.at \in Nat
        /\ decision'.state = NextState(checkpoint, decision'.signal, decision'.at)
        /\ decision'.changed = (decision'.state # checkpoint.state)
        /\ decision'.action = Route(decision'.state, decision'.signal, position)
        /\ decision'.answeredAt = NoTime
    BY <1>2, Polled
  <2>2. UNCHANGED <<checkpoint, saved, changedAt>> /\ pc' \in {"execute", "publish"}
    BY <1>2 DEF Poll, history
  <2>3. pc' = "execute" => decision'.action # "NONE"
    BY <1>2 DEF Poll, HasIntent
  <2>4. /\ decision'.action = "EXIT" => decision'.state = "DISTRIBUTION"
        /\ decision'.action = "BUY" => decision'.state \in EntryStates
    BY <2>1, RouteIs, Zenon
  <2>5. decision'.changed => ~ RateLimited(checkpoint, decision'.at)
    BY <2>1 DEF NextState
  <2>6. decision'.at # NoTime
    BY <2>1 DEF NoTime
  <2>7. RateLimited(checkpoint, decision.at)' = RateLimited(checkpoint, decision'.at)
    BY <2>2 DEF RateLimited
  <2>8. QED
    BY <2>1, <2>2, <2>3, <2>4, <2>5, <2>6, <2>7
<1>3. CASE Refuse \/ Submit \/ Persist \/ Publish \/ SaveRequest \/ SendRequest
  <2>1. UNCHANGED <<checkpoint, decision, changedAt>>
    BY <1>3 DEF Refuse, Submit, Persist, Publish, SaveRequest, SendRequest, history
  <2>2. RateLimited(checkpoint, decision.at)' = RateLimited(checkpoint, decision.at)
    BY <2>1 DEF RateLimited
  <2>3. Request' = Request
    BY <2>1 DEF Request
  <2>4. pc \notin {"idle", "recover"} /\ pc' \notin {"idle", "recover", "execute"}
    BY <1>3 DEF Refuse, Submit, Persist, Publish, SaveRequest, SendRequest
  <2>5. pc' = "dispatch" => pc = "execute"
    BY <1>3 DEF Refuse, Submit, Persist, Publish, SaveRequest, SendRequest
  <2>6. pc' \in {"request", "send"} => decision.state \in SocialConfirmationTriggerStates
    BY <1>3 DEF Refuse, Submit, Persist, Publish, SaveRequest, SendRequest, AsksForConfirmation
  <2>7. pc' = "send" => Request \in saved'
    BY <1>3 DEF Refuse, Submit, Persist, Publish, SaveRequest, SendRequest
  <2>8. QED
    BY <2>1, <2>2, <2>3, <2>4, <2>5, <2>6, <2>7
<1>4. CASE Answer
  <2>1. decision \in Decisions
    BY DEF TypeOK, Decisions, Signal
  <2>2. /\ decision'.at = decision.at /\ decision'.state = decision.state
        /\ decision'.changed = decision.changed /\ decision'.action = decision.action
    BY <1>4, <2>1 DEF Answer, Decisions
  <2>3. UNCHANGED <<checkpoint, saved, changedAt>> /\ pc = "dispatch" /\ pc' = "publish"
    BY <1>4 DEF Answer
  <2>4. RateLimited(checkpoint, decision.at)' = RateLimited(checkpoint, decision.at)
    BY <2>2, <2>3 DEF RateLimited
  <2>5. QED
    BY <2>2, <2>3, <2>4
<1>5. CASE SaveCheckpoint
  <2>1. pc' = "idle" /\ batch' = <<>> /\ decision' = NoDecision
    BY <1>5 DEF SaveCheckpoint
  <2>2. changedAt' = checkpoint'.last
    BY <1>5 DEF SaveCheckpoint
  <2>3. QED
    BY <2>1, <2>2 DEF NoDecision
<1>6. CASE Raise \/ Exhaust \/ Die
  <2>1. pc' \in {"idle", "recover"} /\ batch' = <<>> /\ decision' = NoDecision
    BY <1>6 DEF Raise, Exhaust, Die, Drop
  <2>2. UNCHANGED <<checkpoint, changedAt>>
    BY <1>6 DEF Raise, Exhaust, Die, history
  <2>3. QED
    BY <2>1, <2>2 DEF NoDecision
<1>7. CASE (\E i \in pending : RecoverPending(i)) \/ (\E r \in unbooked : RecoverFilled(r))
           \/ RecoveryDone
  <2>1. /\ pc = "recover" /\ pc' \in {"idle", "recover"}
        /\ UNCHANGED <<batch, decision, checkpoint, changedAt>>
    BY <1>7 DEF RecoverPending, RecoverFilled, RecoveryDone, worker, history
  <2>2. QED
    BY <2>1 DEF NoDecision
<1>8. QED
  BY <1>1, <1>2, <1>3, <1>4, <1>5, <1>6, <1>7, StepKinds

\* An exit that is sent is for an open position, which stays until the answer is booked.
LEMMA ExitKept ==
  ASSUME TypeOK, ClockInv, DecisionInv, ExitInv, [Next]_vars
  PROVE  ExitInv'
<1> USE DEF ExitInv
<1>1. CASE Outside
  BY <1>1 DEF Outside, worker, history
<1>2. CASE Poll
  <2>1. decision'.answeredAt = NoTime /\ pc' # "dispatch"
    BY <1>2, Polled DEF Poll
  <2>2. QED
    BY <2>1
<1>3. CASE Refuse \/ Submit
  <2>1. decision.answeredAt = NoTime
    BY <1>3 DEF Refuse, Submit, DecisionInv
  <2>2. UNCHANGED <<decision, position>>
    BY <1>3 DEF Refuse, Submit
  <2>3. pc' = "dispatch" /\ decision.action = "EXIT" => position.open
    BY <1>3 DEF Refuse, Submit, PositionPolicy
  <2>4. QED
    BY <2>1, <2>2, <2>3
<1>4. CASE Answer
  <2>1. decision \in Decisions
    BY DEF TypeOK, Decisions, Signal
  <2>2. /\ decision'.action = decision.action /\ decision'.answeredAt = now
        /\ pc = "dispatch" /\ pc' = "publish" /\ position' = position
        /\ decision.action = "EXIT" => exitedAt' = now
    BY <1>4, <2>1 DEF Answer, Decisions
  <2>3. QED
    BY <2>2 DEF DecisionInv
<1>5. CASE Publish \/ SaveRequest \/ SendRequest
  <2>1. /\ UNCHANGED <<decision, position, exitedAt>>
        /\ pc \in {"publish", "request", "send"} /\ pc' \in {"request", "send", "persist"}
    BY <1>5 DEF Publish, SaveRequest, SendRequest, history
  <2>2. QED
    BY <2>1
<1>6. CASE Persist
  <2>1. UNCHANGED <<decision, exitedAt>> /\ pc = "persist" /\ pc' = "checkpoint"
    BY <1>6 DEF Persist
  <2>2. QED
    BY <2>1
<1>7. CASE SaveCheckpoint \/ Raise \/ Exhaust \/ Die
  <2>1. decision' = NoDecision /\ pc' # "dispatch"
    BY <1>7 DEF SaveCheckpoint, Raise, Exhaust, Die, Drop
  <2>2. QED
    BY <2>1 DEF NoDecision
<1>8. CASE (\E i \in pending : RecoverPending(i)) \/ (\E r \in unbooked : RecoverFilled(r))
           \/ RecoveryDone
  <2>1. pc = "recover" /\ pc' \in {"idle", "recover"} /\ decision' = decision
    BY <1>8 DEF RecoverPending, RecoverFilled, RecoveryDone, worker
  <2>2. decision = NoDecision
    BY <2>1 DEF DecisionInv, Working
  <2>3. QED
    BY <2>1, <2>2 DEF NoDecision
<1>9. QED
  BY <1>1, <1>2, <1>3, <1>4, <1>5, <1>6, <1>7, <1>8, StepKinds

-----------------------------------------------------------------------------
(* Orders between submission and booking. *)

\* Faults are counted.
LEMMA FaultsGrow ==
  ASSUME TypeOK, [Next]_vars
  PROVE  /\ faults' = faults \/ faults' = faults + 1
         /\ Raise \/ Exhaust \/ Die => faults' = faults + 1
         /\ faults \in Nat
<1>1. Raise \/ Exhaust \/ Die => faults' = faults + 1
  BY DEF Raise, Exhaust, Die
<1>2. \/ Poll \/ Refuse \/ Submit \/ Answer \/ Publish \/ SaveRequest \/ SendRequest
      \/ Persist \/ SaveCheckpoint
      \/ (\E i \in pending : RecoverPending(i))
      \/ (\E r \in unbooked : RecoverFilled(r))
      \/ RecoveryDone \/ Outside
      => faults' = faults
  BY DEF Poll, Refuse, Submit, Answer, Publish, SaveRequest, SendRequest, Persist, SaveCheckpoint,
         RecoverPending, RecoverFilled, RecoveryDone, Outside, bounds
<1>3. QED
  BY <1>1, <1>2, StepKinds DEF TypeOK

\* What is early now was early before, unless an exit was answered.
LEMMA EarlyFades ==
  ASSUME TypeOK, NEW action, exitedAt' = exitedAt, now' = now \/ now' = now + 1, Early(action)'
  PROVE  Early(action)
<1>1. now \in Nat /\ Cooldown \in Nat /\ (exitedAt # NoTime => exitedAt \in Nat)
  BY DecisionAssumption DEF TypeOK, Times, NoTime
<1>2. action = "BUY" /\ exitedAt # NoTime /\ now' - exitedAt < Cooldown
  BY DEF Early
<1>3. now - exitedAt < Cooldown
  BY <1>1, <1>2
<1>4. QED
  BY <1>2, <1>3 DEF Early

\* Without a fault an order is answered and booked with the batch that submitted it.
LEMMA BeforeFaultsKept ==
  ASSUME TypeOK, ClockInv, DecisionInv, ExitInv, OrdersBeforeFaults, [Next]_vars
  PROVE  OrdersBeforeFaults'
<1> USE DEF OrdersBeforeFaults
<1>1. SUFFICES ASSUME faults' = 0
               PROVE  /\ pc' # "recover"
                      /\ pending' # {} => pc' = "dispatch" /\ pending' = {Intent(decision')}
                      /\ \A r \in unbooked' :
                           /\ pc' \in {"publish", "request", "send", "persist"}
                           /\ r.intent = Intent(decision')
                           /\ decision'.answeredAt = r.at
  BY DEF Intent
<1>2. faults = 0 /\ ~ (Raise \/ Exhaust \/ Die)
  BY <1>1, FaultsGrow
<1>3. CASE Outside
  BY <1>2, <1>3 DEF Outside, worker, orders
<1>4. CASE Poll \/ Refuse
  <2>1. pending = {} /\ unbooked = {}
    BY <1>2, <1>4 DEF Poll, Refuse
  <2>2. pending' = {} /\ unbooked' = {} /\ pc' # "recover"
    BY <1>4, <2>1 DEF Poll, Refuse, orders
  <2>3. QED
    BY <2>2
<1>5. CASE Submit
  <2>1. pending = {} /\ unbooked = {}
    BY <1>2, <1>5 DEF Submit
  <2>2. /\ pending' \subseteq {Intent(decision)} /\ unbooked' = {} /\ pc' = "dispatch"
        /\ decision' = decision
    BY <1>5, <2>1 DEF Submit
  <2>3. QED
    BY <2>2
<1>6. CASE Answer
  <2>1. pending \subseteq {Intent(decision)} /\ unbooked = {}
    BY <1>2, <1>6 DEF Answer
  <2>2. decision \in Decisions
    BY DEF TypeOK, Decisions, Signal
  <2>3. Intent(decision') = Intent(decision) /\ decision'.answeredAt = now
    BY <1>6, <2>2 DEF Answer, Intent, Decisions
  <2>4. pc' = "publish" /\ pending' = {}
    BY <1>6, <2>1 DEF Answer
  <2>5. \A r \in unbooked' : r = [intent |-> Intent(decision), at |-> now]
    BY <1>6, <2>1 DEF Answer
  <2>6. QED
    BY <2>3, <2>4, <2>5
<1>7. CASE Publish \/ SaveRequest \/ SendRequest
  <2>1. pending = {}
    BY <1>2, <1>7 DEF Publish, SaveRequest, SendRequest
  <2>2. /\ UNCHANGED <<pending, unbooked, decision>>
        /\ pc' \in {"request", "send", "persist"}
    BY <1>7 DEF Publish, SaveRequest, SendRequest, orders
  <2>3. QED
    BY <1>2, <2>1, <2>2
<1>8. CASE Persist
  <2>1. /\ pending = {}
        /\ \A r \in unbooked : r.intent = Intent(decision) /\ decision.answeredAt = r.at
    BY <1>2, <1>8 DEF Persist
  <2>2. unbooked = {} \/ decision.answeredAt # NoTime
    BY <2>1 DEF TypeOK, NoTime
  <2>3. pending' = {} /\ pc' = "checkpoint"
    BY <1>8, <2>1 DEF Persist
  <2>4. unbooked' = {}
    BY <1>8, <2>1, <2>2 DEF Persist
  <2>5. QED
    BY <2>3, <2>4
<1>9. CASE SaveCheckpoint
  <2>1. pending = {} /\ unbooked = {}
    BY <1>2, <1>9 DEF SaveCheckpoint
  <2>2. pending' = {} /\ unbooked' = {} /\ pc' = "idle"
    BY <1>9, <2>1 DEF SaveCheckpoint, orders
  <2>3. QED
    BY <2>2
<1>10. CASE (\E i \in pending : RecoverPending(i)) \/ (\E r \in unbooked : RecoverFilled(r))
            \/ RecoveryDone
  BY <1>2, <1>10 DEF RecoverPending, RecoverFilled, RecoveryDone
<1>11. QED
  BY <1>2, <1>3, <1>4, <1>5, <1>6, <1>7, <1>8, <1>9, <1>10, StepKinds

\* What the start after a first death finds.
LEMMA ToRecoverKept ==
  ASSUME Inv, [Next]_vars
  PROVE  OrdersToRecover'
<1> USE DEF Inv, OrdersToRecover
<1>1. SUFFICES ASSUME faults' = 1, pc' = "recover"
               PROVE  /\ pending' = {} \/ unbooked' = {}
                      /\ \A i, j \in pending' : i = j
                      /\ \A i \in pending' : ~ Early(i.action)'
                      /\ \A r \in unbooked' : r.intent.action = "EXIT" => exitedAt' = r.at
  BY DEF Early
<1>2. CASE Die
  <2>1. faults = 0
    BY <1>1, <1>2, FaultsGrow
  <2>2. UNCHANGED <<pending, unbooked, exitedAt, now>>
    BY <1>2 DEF Die, orders, history
  <2>3. \A i \in pending : pc = "dispatch" /\ i = Intent(decision) /\ i.action = decision.action
    BY <2>1 DEF OrdersBeforeFaults, Intent
  <2>4. \A i \in pending : ~ Early(i.action)
    <3>1. pc = "dispatch" => ~ Early(decision.action)
      BY <2>1 DEF CooldownInv
    <3>2. QED
      BY <2>3, <3>1, Zenon
  <2>5. ASSUME NEW i \in pending
        PROVE  ~ Early(i.action)'
    BY <2>2, <2>4, EarlyFades
  <2>6. ASSUME NEW r \in unbooked, r.intent.action = "EXIT"
        PROVE  exitedAt = r.at
    <3>1. r.intent = Intent(decision) /\ decision.answeredAt = r.at
      BY <2>1 DEF OrdersBeforeFaults
    <3>2. decision.action = "EXIT"
      BY <2>6, <3>1 DEF Intent
    <3>3. r.at # NoTime
      BY DEF TypeOK, NoTime
    <3>4. QED
      BY <3>1, <3>2, <3>3 DEF ExitInv
  <2>7. pending = {} \/ unbooked = {}
    BY <2>1 DEF OrdersBeforeFaults
  <2>8. \A i, j \in pending : i = j
    BY <2>3
  <2>9. QED
    BY <2>2, <2>5, <2>6, <2>7, <2>8
<1>3. CASE Outside
  <2>1. UNCHANGED <<pending, unbooked, exitedAt, pc, faults>> /\ (now' = now \/ now' = now + 1)
    BY <1>3 DEF Outside, orders, history, worker
  <2>2. faults = 1 /\ pc = "recover"
    BY <1>1, <2>1
  <2>3. ASSUME NEW i \in pending
        PROVE  ~ Early(i.action)'
    BY <2>1, <2>2, EarlyFades
  <2>4. QED
    BY <2>1, <2>2, <2>3
<1>4. ASSUME NEW i \in pending, RecoverPending(i)
      PROVE  pending' = {} /\ unbooked' = {}
  <2>1. faults = 1 /\ pc = "recover"
    BY <1>1, <1>4 DEF RecoverPending, bounds
  <2>2. pending \subseteq {i} /\ unbooked = {}
    BY <2>1
  <2>3. QED
    BY <1>4, <2>2 DEF RecoverPending
<1>5. ASSUME NEW r \in unbooked, RecoverFilled(r)
      PROVE  pending' = {} /\ unbooked' \subseteq unbooked /\ exitedAt' = exitedAt
             /\ faults = 1 /\ pc = "recover"
  BY <1>1, <1>5 DEF RecoverFilled, bounds
<1>6. CASE \/ Poll \/ Refuse \/ Submit \/ Answer \/ Publish \/ SaveRequest \/ SendRequest
           \/ Persist \/ SaveCheckpoint \/ RecoveryDone \/ Raise \/ Exhaust
  BY <1>1, <1>6 DEF Poll, Refuse, Submit, Answer, Publish, SaveRequest, SendRequest, Persist,
                    SaveCheckpoint, RecoveryDone, Raise, Exhaust, Drop
<1>7. QED
  BY <1>2, <1>3, <1>4, <1>5, <1>6, StepKinds

\* Up to one fault, nobody enters within the cooldown.
LEMMA CooldownKept ==
  ASSUME Inv, [Next]_vars
  PROVE  CooldownInv'
<1> USE DEF Inv
<1>1. SUFFICES ASSUME faults' <= 1
               PROVE  /\ ~ enteredEarly'
                      /\ pc' = "dispatch" => ~ Early(decision.action)'
                      /\ ~ position'.open /\ exitedAt' # NoTime =>
                           position'.lastExit # NoTime /\ position'.lastExit >= exitedAt'
  BY DEF CooldownInv, Early
<1>2. /\ faults <= 1 /\ ~ enteredEarly
      /\ pc = "dispatch" => ~ Early(decision.action)
      /\ ~ position.open /\ exitedAt # NoTime =>
           position.lastExit # NoTime /\ position.lastExit >= exitedAt
  BY <1>1, FaultsGrow DEF CooldownInv
<1>3. CASE UNCHANGED <<position, exitedAt, enteredEarly>> /\ pc' # "dispatch"
  BY <1>2, <1>3
<1>4. CASE Outside
  <2>1. /\ UNCHANGED <<position, exitedAt, enteredEarly, pc, decision>>
        /\ now' = now \/ now' = now + 1
    BY <1>4 DEF Outside, history, worker
  <2>2. pc' = "dispatch" => ~ Early(decision.action)'
    BY <1>2, <2>1, EarlyFades DEF Early
  <2>3. QED
    BY <1>2, <2>1, <2>2
<1>5. CASE Submit
  <2>1. UNCHANGED <<position, exitedAt, decision, now>> /\ PositionPolicy(decision.action, position)
    BY <1>5 DEF Submit, bounds
  <2>2. ~ Early(decision.action)
    <3>1. SUFFICES ASSUME decision.action = "BUY", exitedAt # NoTime
                   PROVE  ~ (now - exitedAt < Cooldown)
      BY DEF Early
    <3>2. position.lastExit # NoTime /\ position.lastExit >= exitedAt
      BY <1>2, <2>1, <3>1 DEF PositionPolicy
    <3>3. now - position.lastExit >= Cooldown
      BY <2>1, <3>1, <3>2 DEF PositionPolicy
    <3>4. now \in Nat /\ exitedAt \in Nat /\ position.lastExit \in Nat /\ Cooldown \in Nat
      BY <3>1, <3>2, DecisionAssumption DEF TypeOK, Times, NoTime
    <3>5. QED
      BY <3>2, <3>3, <3>4
  <2>3. ~ enteredEarly'
    BY <1>2, <1>5, <2>2, Zenon DEF Submit
  <2>4. ~ Early(decision.action)'
    BY <2>1, <2>2 DEF Early
  <2>5. QED
    BY <1>2, <2>1, <2>3, <2>4
<1>6. CASE Answer
  <2>1. UNCHANGED <<position, enteredEarly>> /\ pc' = "publish"
    BY <1>6 DEF Answer
  <2>2. CASE decision.action = "EXIT"
    BY <1>2, <1>6, <2>1, <2>2 DEF Answer, ExitInv
  <2>3. CASE decision.action # "EXIT"
    BY <1>2, <1>6, <2>1, <2>3 DEF Answer
  <2>4. QED
    BY <2>2, <2>3
<1>7. CASE Persist
  <2>1. UNCHANGED <<exitedAt, enteredEarly>> /\ pc = "persist" /\ pc' = "checkpoint"
    BY <1>7 DEF Persist
  <2>2. CASE decision.answeredAt = NoTime
    BY <1>2, <1>7, <2>1, <2>2 DEF Persist
  <2>3. CASE decision.answeredAt # NoTime
    <3>1. position' = Booked(position, decision.action, decision.answeredAt)
      BY <1>7, <2>3 DEF Persist
    <3>2. decision.answeredAt \in Nat
      BY <2>3 DEF TypeOK, Times, NoTime
    <3>3. CASE decision.action = "BUY"
      BY <1>2, <2>1, <3>1, <3>2, <3>3, BookedIs DEF TypeOK
    <3>4. CASE decision.action # "BUY"
      <4>1. decision.action = "EXIT"
        BY <2>3, <3>4 DEF ExitInv, TypeOK
      <4>2. exitedAt = decision.answeredAt
        BY <2>3, <4>1 DEF ExitInv
      <4>3. position'.lastExit = decision.answeredAt
        BY <3>1, <3>2, <3>4, BookedIs DEF TypeOK
      <4>4. QED
        BY <1>2, <2>1, <3>2, <4>2, <4>3 DEF NoTime
    <3>5. QED
      BY <3>3, <3>4
  <2>4. QED
    BY <2>2, <2>3
<1>8. ASSUME NEW i \in pending, RecoverPending(i)
      PROVE  /\ ~ enteredEarly' /\ pc' # "dispatch"
             /\ ~ position'.open /\ exitedAt' # NoTime =>
                  position'.lastExit # NoTime /\ position'.lastExit >= exitedAt'
  <2>1. pc = "recover" /\ pc' = "recover" /\ faults = 1
    <3>1. pc = "recover" /\ pc' = "recover"
      BY <1>8 DEF RecoverPending, worker
    <3>2. faults # 0
      BY <3>1 DEF OrdersBeforeFaults
    <3>3. QED
      BY <1>2, <3>1, <3>2 DEF TypeOK
  <2>2. ~ Early(i.action)
    BY <2>1 DEF OrdersToRecover
  <2>3. ~ enteredEarly'
    BY <1>2, <1>8, <2>2, Zenon DEF RecoverPending
  <2>4. CASE UNCHANGED <<position, exitedAt>>
    BY <1>2, <2>1, <2>3, <2>4
  <2>5. CASE /\ position' = Booked(position, i.action, now)
             /\ exitedAt' = IF i.action = "EXIT" THEN now ELSE exitedAt
    <3>1. now \in Nat /\ i.action \in {"BUY", "EXIT"}
      BY DEF TypeOK, Intents
    <3>2. CASE i.action = "BUY"
      BY <2>1, <2>3, <2>5, <3>1, <3>2, BookedIs DEF TypeOK
    <3>3. CASE i.action = "EXIT"
      <4>1. position'.lastExit = now /\ exitedAt' = now
        BY <2>5, <3>1, <3>3, BookedIs DEF TypeOK
      <4>2. QED
        BY <2>1, <2>3, <3>1, <4>1 DEF NoTime
    <3>4. QED
      BY <3>1, <3>2, <3>3
  <2>6. QED
    BY <1>8, <2>4, <2>5 DEF RecoverPending
<1>9. ASSUME NEW r \in unbooked, RecoverFilled(r)
      PROVE  /\ ~ enteredEarly' /\ pc' # "dispatch"
             /\ ~ position'.open /\ exitedAt' # NoTime =>
                  position'.lastExit # NoTime /\ position'.lastExit >= exitedAt'
  <2>1. pc = "recover" /\ pc' = "recover" /\ UNCHANGED <<exitedAt, enteredEarly>>
    BY <1>9 DEF RecoverFilled, worker
  <2>2. faults = 1
    <3>1. faults # 0
      BY <2>1 DEF OrdersBeforeFaults
    <3>2. QED
      BY <1>2, <3>1 DEF TypeOK
  <2>3. position' = Booked(position, r.intent.action, r.at)
    BY <1>9 DEF RecoverFilled
  <2>4. r.at \in Nat /\ r.intent.action \in {"BUY", "EXIT"}
    BY DEF TypeOK, Intents
  <2>5. CASE r.intent.action = "BUY"
    BY <1>2, <2>1, <2>3, <2>4, <2>5, BookedIs DEF TypeOK
  <2>6. CASE r.intent.action = "EXIT"
    <3>1. exitedAt = r.at
      BY <2>1, <2>2, <2>6 DEF OrdersToRecover
    <3>2. position'.lastExit = r.at
      BY <2>3, <2>4, <2>6, BookedIs DEF TypeOK
    <3>3. QED
      BY <1>2, <2>1, <2>4, <3>1, <3>2 DEF NoTime
  <2>7. QED
    BY <2>4, <2>5, <2>6
<1>10. CASE \/ Poll \/ Refuse \/ Publish \/ SaveRequest \/ SendRequest \/ SaveCheckpoint
            \/ RecoveryDone \/ Raise \/ Exhaust \/ Die
  BY <1>3, <1>10 DEF Poll, Refuse, Publish, SaveRequest, SendRequest, SaveCheckpoint, RecoveryDone,
                     Raise, Exhaust, Die, Drop, history
<1>11. QED
  BY <1>4, <1>5, <1>6, <1>7, <1>8, <1>9, <1>10, StepKinds

\* A batch without market figures leads to PRE_LAUNCH, or nowhere.
LEMMA BareLeadsToPreLaunch ==
  ASSUME NEW cp, NEW at
  PROVE  NextState(cp, BareSignal, at) \in {cp.state, "PRE_LAUNCH"}
BY DEF NextState, DerivedState, BareSignal

\* The requests since the last market figures are as few as AskInv says, whatever fails
\* (_emit_social_confirmation_requests).
LEMMA AskKept ==
  ASSUME TypeOK, DecisionInv, AskInv, [Next]_vars
  PROVE  AskInv'
<1> USE DEF AskInv
<1>1. asked \in Nat /\ faults \in Nat /\ pc \in Steps
  BY DEF TypeOK
<1>2. CASE Poll
  <2> DEFINE n == Min({BatchCount, Len(queue)})
             s == SignalOf(SubSeq(queue, 1, n))
             at == SignalTime(SubSeq(queue, 1, n))
             state == NextState(checkpoint, s, at)
  <2>1. /\ decision'.state = state /\ decision'.changed = (state # checkpoint.state)
        /\ asked' = IF s = BareSignal THEN asked ELSE 0
        /\ pc = "idle" /\ pc' \in {"execute", "publish"}
        /\ UNCHANGED <<checkpoint, faults>>
    BY <1>2 DEF Poll, NoDecision, bounds
  <2> HIDE DEF n, s, at, state
  <2>2. CASE s = BareSignal
    <3>1. state \in {checkpoint.state, "PRE_LAUNCH"}
      BY <2>2, BareLeadsToPreLaunch DEF state
    <3>2. QED
      BY <1>1, <2>1, <2>2, <3>1
  <2>3. CASE s # BareSignal
    BY <1>1, <2>1, <2>3
  <2>4. QED
    BY <2>2, <2>3
<1>3. CASE Refuse \/ Submit
  BY <1>1, <1>3 DEF Refuse, Submit, bounds
<1>4. CASE Answer
  <2>1. decision'.state = decision.state /\ decision'.changed = decision.changed
    BY <1>4 DEF Answer, TypeOK
  <2>2. QED
    BY <1>1, <1>4, <2>1 DEF Answer, bounds
<1>5. CASE Publish
  BY <1>1, <1>5 DEF Publish, AsksForConfirmation, bounds, history, DecisionInv, Working
<1>6. CASE SaveRequest
  <2>1. decision.state # checkpoint.state
    BY <1>6 DEF SaveRequest, DecisionInv, Working
  <2>2. QED
    BY <1>1, <1>6, <2>1 DEF SaveRequest, bounds
<1>7. CASE SendRequest \/ Persist
  BY <1>1, <1>7 DEF SendRequest, Persist, bounds, history
<1>8. CASE SaveCheckpoint
  BY <1>1, <1>8 DEF SaveCheckpoint, bounds
<1>9. CASE Raise \/ Exhaust \/ Die
  <2>1. /\ asked' = asked /\ faults' = faults + 1 /\ checkpoint' = checkpoint
        /\ pc' \in {"idle", "recover"}
    BY <1>9 DEF Raise, Exhaust, Die, Drop, history
  <2>2. QED
    BY <1>1, <2>1
<1>10. CASE \/ \E i \in pending : RecoverPending(i)
            \/ \E r \in unbooked : RecoverFilled(r)
            \/ RecoveryDone
  <2>1. /\ UNCHANGED <<asked, faults, checkpoint>>
        /\ pc = "recover" /\ pc' \in {"idle", "recover"}
    BY <1>10 DEF RecoverPending, RecoverFilled, RecoveryDone, bounds, history, worker
  <2>2. QED
    BY <1>1, <2>1
<1>11. CASE Outside
  BY <1>11 DEF Outside, worker, history
<1>12. QED
  BY <1>2, <1>3, <1>4, <1>5, <1>6, <1>7, <1>8, <1>9, <1>10, <1>11, StepKinds

\* Every behaviour of the pipeline worker keeps the invariant.
THEOREM Invariance == Spec => []Inv
<1>1. Init => Inv
  <2>1. ASSUME Init
        PROVE  TypeOK
    <3>1. queue \in Seq(Events) /\ letters \in Seq(Events) /\ batch \in Seq(Events)
      BY <2>1 DEF Init
    <3>2. /\ checkpoint \in [state : TokenStates, last : Times]
          /\ position \in [open : BOOLEAN, lastExit : Times]
          /\ changedAt \in Times /\ exitedAt \in Times
      BY <2>1 DEF Init, TokenStates, Times
    <3>3. decision \in Decisions
      BY <2>1 DEF Init, NoDecision, Decisions, Signal, TokenStates, Times
    <3>4. pc \in Steps /\ exitRefused \in BOOLEAN /\ enteredEarly \in BOOLEAN
      BY <2>1 DEF Init, Steps
    <3>5. /\ settled \subseteq Intents /\ unfilled \subseteq Intents /\ pending \subseteq Intents
          /\ unbooked \subseteq [intent : settled, at : Nat]
          /\ saved \subseteq Requests /\ requests \subseteq saved
          /\ now \in Nat /\ events \in Nat /\ faults \in Nat /\ replays \in Nat
          /\ asked \in Nat
      BY <2>1 DEF Init
    <3>6. QED
      BY <3>1, <3>2, <3>3, <3>4, <3>5 DEF TypeOK, Decisions, Signal
  <2>2. Init => ClockInv
    BY DEF Init, ClockInv
  <2>3. Init => DecisionInv /\ ExitInv
    BY DEF Init, NoDecision, DecisionInv, ExitInv, Working
  <2>4. Init => OrdersBeforeFaults /\ OrdersToRecover /\ CooldownInv
    BY DEF Init, OrdersBeforeFaults, OrdersToRecover, CooldownInv
  <2>5. Init => AskInv
    BY DEF Init, AskInv
  <2>6. QED
    BY <2>1, <2>2, <2>3, <2>4, <2>5 DEF Inv
<1>2. Inv /\ [Next]_vars => Inv'
  BY TypesKept, ClockKept, DecisionKept, ExitKept, BeforeFaultsKept, ToRecoverKept, CooldownKept,
     AskKept
     DEF Inv
<1>3. QED
  BY <1>1, <1>2, PTL DEF Spec

-----------------------------------------------------------------------------
(* What follows. *)

\* The variables keep their types, whatever the market, the faults and the replays do
\* (pipeline.py, worker.py).
THEOREM TypeCorrectness == Spec => []TypeOK
<1>1. Inv => TypeOK
  BY DEF Inv
<1>2. QED
  BY <1>1, Invariance, PTL

\* As long as at most one fault occurs, no entry is sent within the cooldown after an exit
\* (_operational_policy), the start that recovers orders without asking it included.
THEOREM CooledAfterExit == Spec => []ReentryCooled
<1>1. Inv => ReentryCooled
  BY DEF Inv, CooldownInv, ReentryCooled, TypeOK
<1>2. QED
  BY <1>1, Invariance, PTL

\* The social confirmations that the answers to social confirmations bring about die out,
\* whatever the market, the interval and the order of events (_derive_state,
\* _emit_social_confirmation_requests): there are two for each reading of the market and one
\* for each fault.
THEOREM AnswersAskNoMore == Spec => []ConfirmationsDieOut
<1>1. Inv => ConfirmationsDieOut
  BY DEF Inv, AskInv, ConfirmationsDieOut
<1>2. QED
  BY <1>1, Invariance, PTL

\* Checkpointed changes of state are the interval apart in event time, through faults,
\* replays and events that come late (_rate_limited and _save_fsm_checkpoint).  With an
\* interval of 0 there is no rate limit, and an event that comes late takes the time back.
THEOREM ChangesAreSpaced ==
  ASSUME MinTransitionInterval > 0
  PROVE  Spec => ChangesSpaced
<1> DEFINE Spaced == changedAt' # changedAt /\ changedAt # NoTime
                       => changedAt' >= changedAt + MinTransitionInterval
<1>1. Inv /\ [Next]_vars => Spaced
  <2>1. SUFFICES ASSUME Inv, [Next]_vars, changedAt' # changedAt, changedAt # NoTime
                 PROVE  changedAt' >= changedAt + MinTransitionInterval
    OBVIOUS
  <2>2. SaveCheckpoint
    BY <2>1, StepKinds
       DEF Inv, Poll, Refuse, Submit, Answer, Publish, SaveRequest, SendRequest, Persist,
           RecoverPending, RecoverFilled, RecoveryDone, Raise, Exhaust, Die, Outside, history
  <2>3. decision.changed /\ changedAt' = decision.at
    BY <2>1, <2>2 DEF SaveCheckpoint
  <2>4. /\ ~ RateLimited(checkpoint, decision.at) /\ changedAt = checkpoint.last
        /\ checkpoint.last \in Times /\ decision.at # NoTime /\ decision.at \in Times
    BY <2>1, <2>2, <2>3 DEF Inv, DecisionInv, Working, SaveCheckpoint, TypeOK
  <2>5. decision.at \in Nat /\ checkpoint.last \in Nat
    BY <2>1, <2>4 DEF Times
  <2>6. decision.at >= checkpoint.last + MinTransitionInterval \/ MinTransitionInterval = 0
    BY <2>1, <2>4, <2>5, RateLimitIs
  <2>7. QED
    BY <2>3, <2>4, <2>5, <2>6, DecisionAssumption
<1>2. QED
  BY <1>1, Invariance, PTL DEF Spec, ChangesSpaced

-----------------------------------------------------------------------------
(* While nothing fails. *)

\* The stream is read at its head and appended to with the time.
LEMMA QueueSteps ==
  ASSUME TypeOK, letters = <<>>, [Next]_vars
  PROVE  \/ Poll \/ queue' = queue
         \/ \E s \in Signal : queue' = Append(queue, [signal |-> s, at |-> now])
<1>1. ASSUME NEW s \in ObservedSignals, Observe(s)
      PROVE  \E z \in Signal : queue' = Append(queue, [signal |-> z, at |-> now])
  BY <1>1 DEF Observe, Signal
<1>2. ASSUME NEW r \in requests, Confirm(r)
      PROVE  queue' = queue \/ \E s \in Signal : queue' = Append(queue, [signal |-> s, at |-> now])
  BY <1>2 DEF Confirm, Signal
<1>3. ~ Replay
  BY DEF Replay
<1>4. ASSUME NEW i \in pending, RecoverPending(i)
      PROVE  queue' = queue
  BY <1>4 DEF RecoverPending
<1>5. ASSUME NEW r \in unbooked, RecoverFilled(r)
      PROVE  queue' = queue
  BY <1>5 DEF RecoverFilled
<1>6. \/ Refuse \/ Submit \/ Answer \/ Publish \/ SaveRequest \/ SendRequest \/ Persist
      \/ SaveCheckpoint \/ RecoveryDone \/ Raise \/ Exhaust \/ Die \/ Tick \/ UNCHANGED vars
      => queue' = queue
  BY DEF Refuse, Submit, Answer, Publish, SaveRequest, SendRequest, Persist, SaveCheckpoint,
         RecoveryDone, Raise, Exhaust, Die, Tick, vars
<1>7. QED
  BY <1>1, <1>2, <1>3, <1>4, <1>5, <1>6 DEF Next, Process

\* What a step within a batch does to the times there are.
Within ==
    /\ UNCHANGED <<checkpoint, queue, letters, now>>
    /\ pc \notin {"idle", "recover"} /\ pc' \notin {"idle", "recover"}
    /\ settled' \subseteq settled \cup {Intent(decision)}
    /\ decision' = [decision EXCEPT !.answeredAt = decision'.answeredAt]

\* Without a fault a step begins a batch, works on it, ends it, or is of somebody else.
LEMMA QuietSteps ==
  ASSUME Inv, [Next]_vars, faults' = 0
  PROVE  /\ faults = 0
         /\ Poll \/ Within \/ SaveCheckpoint \/ Outside
<1>1. faults = 0 /\ ~ (Raise \/ Exhaust \/ Die)
  BY FaultsGrow DEF Inv
<1>2. decision \in Decisions
  BY DEF Inv, TypeOK, Decisions, Signal
<1>3. decision = [decision EXCEPT !.answeredAt = decision.answeredAt]
  BY <1>2 DEF Decisions
<1>4. CASE Refuse \/ Submit \/ Publish \/ SaveRequest \/ SendRequest
  <2>1. UNCHANGED <<checkpoint, queue, letters, now, settled, decision>>
    BY <1>4 DEF Refuse, Submit, Publish, SaveRequest, SendRequest, bounds, orders
  <2>2. pc \notin {"idle", "recover"} /\ pc' \notin {"idle", "recover"}
    BY <1>4 DEF Refuse, Submit, Publish, SaveRequest, SendRequest
  <2>3. QED
    BY <1>1, <1>3, <2>1, <2>2 DEF Within
<1>5. CASE Answer
  <2>1. UNCHANGED <<checkpoint, queue, letters, now>> /\ pc = "dispatch" /\ pc' = "publish"
    BY <1>5 DEF Answer, bounds
  <2>2. settled' \subseteq settled \cup {Intent(decision)}
    BY <1>5 DEF Answer
  <2>3. decision' = [decision EXCEPT !.answeredAt = decision'.answeredAt]
    BY <1>2, <1>5 DEF Answer, Decisions
  <2>4. QED
    BY <1>1, <2>1, <2>2, <2>3 DEF Within
<1>6. CASE Persist
  <2>1. /\ UNCHANGED <<checkpoint, queue, letters, now, decision>>
        /\ pc = "persist" /\ pc' = "checkpoint"
    BY <1>6 DEF Persist, bounds
  <2>2. settled' \subseteq settled \cup {Intent(decision)}
    BY <1>6 DEF Persist
  <2>3. QED
    BY <1>1, <1>3, <2>1, <2>2 DEF Within
<1>7. pc # "recover"
  BY <1>1 DEF Inv, OrdersBeforeFaults
<1>8. /\ ~ RecoveryDone /\ \A i \in pending : ~ RecoverPending(i)
     /\ \A r \in unbooked : ~ RecoverFilled(r)
  BY <1>7 DEF RecoveryDone, RecoverPending, RecoverFilled
<1>9. QED
  BY <1>1, <1>4, <1>5, <1>6, <1>8, StepKinds DEF Inv

\* What a step within a batch leaves of its decision.
LEMMA WithinIs ==
  ASSUME Inv, Within
  PROVE  /\ decision'.at = decision.at /\ decision'.state = decision.state
         /\ decision'.action = decision.action /\ decision'.changed = decision.changed
         /\ Intent(decision') = Intent(decision)
         /\ \A x \in settled' : x \in settled \/ (x = Intent(decision) /\ x.at = decision.at)
<1>1. decision \in Decisions
  BY DEF Inv, TypeOK, Decisions, Signal
<1>2. /\ decision'.at = decision.at /\ decision'.state = decision.state
      /\ decision'.action = decision.action /\ decision'.changed = decision.changed
  BY <1>1 DEF Within, Decisions
<1>3. \A x \in settled' : x \in settled \/ (x = Intent(decision) /\ x.at = decision.at)
  BY DEF Within, Intent
<1>4. QED
  BY <1>2, <1>3 DEF Intent

\* The numbers the times are.
LEMMA TimesAre ==
  ASSUME Inv
  PROVE  /\ queue \in Seq(Events) /\ now \in Nat
         /\ \A i \in DOMAIN queue : queue[i].at \in Nat /\ queue[i].at <= now
         /\ \A x \in settled : x.at \in Nat
         /\ checkpoint.last \in Int /\ decision.at \in Int
         /\ checkpoint.last # NoTime => checkpoint.last \in Nat
<1>1. queue \in Seq(Events) /\ now \in Nat /\ settled \subseteq Intents
  BY DEF Inv, TypeOK
<1>2. checkpoint.last \in Times /\ decision.at \in Times
  BY DEF Inv, TypeOK
<1>3. \A i \in DOMAIN queue : queue[i] \in Events
  BY <1>1
<1>4. \A i \in DOMAIN queue : queue[i].at \in Nat /\ queue[i].at <= now
  BY <1>3 DEF Events, Inv, ClockInv
<1>5. \A x \in settled : x.at \in Nat
  BY <1>1 DEF Intents
<1>6. QED
  BY <1>1, <1>2, <1>4, <1>5 DEF Times, NoTime

\* Events are read in order, and what is decided about them is as late as they are.
LEMMA OrderKept ==
  ASSUME Inv, OrderInv, [Next]_vars
  PROVE  OrderInv'
<1>1. SUFFICES ASSUME faults' = 0
               PROVE  OrderInv'
  BY DEF OrderInv
<1>2. /\ letters = <<>>
      /\ \A i, j \in DOMAIN queue : i < j => queue[i].at <= queue[j].at
      /\ \A i \in DOMAIN queue :
           /\ Working => decision.at <= queue[i].at
           /\ checkpoint.last <= queue[i].at
           /\ \A x \in settled : x.at <= queue[i].at
      /\ Working => /\ checkpoint.last <= decision.at /\ decision.at <= now
                    /\ \A x \in settled : x.at <= decision.at
      /\ checkpoint.last <= now /\ \A x \in settled : x.at <= now
  BY <1>1, QuietSteps DEF OrderInv
<1>3. CASE Within
  <2>1. Working /\ Working' /\ UNCHANGED <<checkpoint, queue, letters, now>>
    BY <1>3 DEF Within, Working
  <2>2. /\ decision'.at = decision.at
        /\ \A x \in settled' : x \in settled \/ x.at = decision.at
    BY <1>3, WithinIs
  <2>3. \A x \in settled' : x.at <= decision.at /\ x.at <= now
                            /\ \A i \in DOMAIN queue : x.at <= queue[i].at
    BY <1>2, <2>1, <2>2, TimesAre
  <2>4. QED
    BY <1>2, <2>1, <2>2, <2>3 DEF OrderInv
<1>4. CASE SaveCheckpoint
  <2>1. /\ Working /\ ~ Working' /\ UNCHANGED <<queue, letters, now, settled>>
        /\ checkpoint'.last = decision.at \/ checkpoint'.last = checkpoint.last
    BY <1>4 DEF SaveCheckpoint, Working, bounds, orders
  <2>2. QED
    BY <1>2, <2>1 DEF OrderInv
<1>5. CASE Poll
  <2>1. /\ ~ Working /\ UNCHANGED <<letters, now, settled, checkpoint>>
    BY <1>5 DEF Poll, Working, bounds, orders
  <2>2. PICK n \in 1 .. Len(queue) :
           /\ \A i \in DOMAIN queue' : i + n \in DOMAIN queue /\ queue'[i] = queue[i + n]
           /\ queue' \in Seq(Events)
           /\ decision'.at \in Nat /\ decision'.at <= now
           /\ \E j \in 1 .. n : decision'.at = queue[j].at
    BY <1>5, Polled DEF Inv
  <2>3. PICK j \in 1 .. n : decision'.at = queue[j].at
    BY <2>2
  <2>4. j \in DOMAIN queue /\ DOMAIN queue = 1 .. Len(queue) /\ Len(queue) \in Nat
    BY <2>2, <2>3, TimesAre
  <2>5. ASSUME NEW i \in DOMAIN queue'
        PROVE  /\ decision'.at <= queue'[i].at /\ checkpoint'.last <= queue'[i].at
               /\ \A x \in settled' : x.at <= queue'[i].at
    <3>1. i \in Nat \ {0} /\ i + n \in DOMAIN queue /\ queue'[i] = queue[i + n]
      BY <2>2
    <3>2. j < i + n
      BY <2>2, <2>3, <3>1
    <3>3. queue[j].at <= queue[i + n].at
      BY <1>2, <2>4, <3>1, <3>2
    <3>4. QED
      BY <1>2, <2>1, <2>3, <3>1, <3>3
  <2>6. ASSUME NEW i \in DOMAIN queue', NEW k \in DOMAIN queue', i < k
        PROVE  queue'[i].at <= queue'[k].at
    <3>1. /\ i + n \in DOMAIN queue /\ queue'[i] = queue[i + n]
          /\ k + n \in DOMAIN queue /\ queue'[k] = queue[k + n]
      BY <2>2
    <3>2. i + n < k + n
      BY <2>2, <2>6
    <3>3. QED
      BY <1>2, <3>1, <3>2
  <2>7. checkpoint.last <= decision'.at /\ \A x \in settled : x.at <= decision'.at
    BY <1>2, <2>3, <2>4
  <2>8. QED
    BY <1>2, <2>1, <2>2, <2>5, <2>6, <2>7 DEF OrderInv
<1>6. CASE Outside /\ queue' = queue
  <2>1. UNCHANGED <<checkpoint, letters, pc, decision, settled>> /\ (now' = now \/ now' = now + 1)
    BY <1>6 DEF Outside, worker, orders
  <2>2. /\ Working => decision.at <= now'
        /\ checkpoint.last <= now' /\ \A x \in settled : x.at <= now'
    BY <1>2, <2>1, TimesAre
  <2>3. QED
    BY <1>2, <1>6, <2>1, <2>2 DEF OrderInv, Working
<1>7. ASSUME Outside, NEW z \in Signal, queue' = Append(queue, [signal |-> z, at |-> now])
      PROVE  OrderInv'
  <2>1. UNCHANGED <<checkpoint, letters, pc, decision, settled>> /\ (now' = now \/ now' = now + 1)
    BY <1>7 DEF Outside, worker, orders
  <2>2. /\ Working => decision.at <= now'
        /\ checkpoint.last <= now' /\ \A x \in settled : x.at <= now'
    BY <1>2, <2>1, TimesAre
  <2>3. queue \in Seq(Events) /\ Len(queue) \in Nat /\ DOMAIN queue = 1 .. Len(queue)
    BY TimesAre
  <2>4. \A i \in DOMAIN queue' :
           \/ i \in DOMAIN queue /\ queue'[i] = queue[i]
           \/ i = Len(queue) + 1 /\ queue'[i] = [signal |-> z, at |-> now]
    BY <1>7, <2>3
  <2>5. ASSUME NEW i \in DOMAIN queue'
        PROVE  /\ Working => decision.at <= queue'[i].at
               /\ checkpoint.last <= queue'[i].at
               /\ \A x \in settled : x.at <= queue'[i].at
    <3>1. CASE i \in DOMAIN queue /\ queue'[i] = queue[i]
      BY <1>2, <3>1
    <3>2. CASE queue'[i] = [signal |-> z, at |-> now]
      BY <1>2, <3>2
    <3>3. QED
      BY <2>4, <3>1, <3>2
  <2>6. ASSUME NEW i \in DOMAIN queue', NEW k \in DOMAIN queue', i < k
        PROVE  queue'[i].at <= queue'[k].at
    <3>1. i \in DOMAIN queue /\ queue'[i] = queue[i]
      BY <1>7, <2>3, <2>4, <2>6
    <3>2. CASE k \in DOMAIN queue /\ queue'[k] = queue[k]
      BY <1>2, <2>6, <3>1, <3>2
    <3>3. CASE queue'[k] = [signal |-> z, at |-> now]
      BY <3>1, <3>3, TimesAre
    <3>4. QED
      BY <2>4, <3>2, <3>3
  <2>7. QED
    BY <1>2, <2>1, <2>2, <2>5, <2>6 DEF OrderInv, Working
<1>8. Poll \/ queue' = queue \/ \E s \in Signal : queue' = Append(queue, [signal |-> s, at |-> now])
  BY <1>2, QueueSteps DEF Inv
<1>9. QED
  BY <1>1, <1>3, <1>4, <1>5, <1>6, <1>7, <1>8, QuietSteps

\* A change to another state leaves the exits behind it.
LEMMA ExitsStayBehind ==
  ASSUME Inv, OrderInv, ExitsBehind, [Next]_vars
  PROVE  ExitsBehind'
<1>1. SUFFICES ASSUME faults' = 0, checkpoint'.state # "DISTRIBUTION",
                      NEW x \in settled', x.action = "EXIT"
               PROVE  x.at <= checkpoint'.last \/ (Working' /\ x = Intent(decision'))
  BY DEF ExitsBehind, Intent
<1>2. /\ faults = 0
      /\ Poll \/ Within \/ SaveCheckpoint \/ Outside
  BY <1>1, QuietSteps
<1>3. CASE Poll
  <2>1. ~ Working /\ UNCHANGED <<settled, checkpoint>>
    BY <1>3 DEF Poll, Working, orders
  <2>2. QED
    BY <1>1, <1>2, <2>1 DEF ExitsBehind
<1>4. CASE Within
  <2>1. Working /\ Working' /\ checkpoint' = checkpoint
    BY <1>4 DEF Within, Working
  <2>2. Intent(decision') = Intent(decision) /\ (x \in settled \/ x = Intent(decision))
    BY <1>4, WithinIs
  <2>3. QED
    BY <1>1, <1>2, <2>1, <2>2 DEF ExitsBehind
<1>5. CASE SaveCheckpoint
  <2>1. /\ Working /\ x \in settled /\ checkpoint'.state = decision.state
        /\ checkpoint'.last = IF decision.changed THEN decision.at ELSE checkpoint.last
    BY <1>5 DEF SaveCheckpoint, Working, orders
  <2>2. x.at <= decision.at /\ checkpoint.last <= decision.at
    BY <1>2, <2>1 DEF OrderInv
  <2>3. CASE checkpoint.state = "DISTRIBUTION"
    <3>1. decision.changed
      BY <1>1, <2>1, <2>3 DEF Inv, DecisionInv
    <3>2. QED
      BY <2>1, <2>2, <3>1
  <2>4. CASE checkpoint.state # "DISTRIBUTION"
    <3>1. x # Intent(decision)
      BY <1>1, <2>1 DEF Inv, DecisionInv, Intent
    <3>2. x.at <= checkpoint.last
      BY <1>1, <1>2, <2>1, <2>4, <3>1 DEF ExitsBehind
    <3>3. x.at \in Nat /\ checkpoint.last \in Int /\ decision.at \in Int
      BY <2>1, TimesAre
    <3>4. QED
      BY <2>1, <2>2, <3>2, <3>3
  <2>5. QED
    BY <2>3, <2>4
<1>6. CASE Outside
  <2>1. UNCHANGED <<checkpoint, settled, pc, decision>>
    BY <1>6 DEF Outside, worker, orders
  <2>2. QED
    BY <1>1, <1>2, <2>1 DEF ExitsBehind, Working
<1>7. QED
  BY <1>2, <1>3, <1>4, <1>5, <1>6

\* An exit there already was is no reason to skip this one: it came before the change to
\* the state that this one leaves.
LEMMA ExitIsNew ==
  ASSUME MinTransitionInterval > 0, Inv, OrderInv, ExitsBehind, Poll, [Next]_vars, faults = 0,
         checkpoint.state # "DISTRIBUTION", decision'.state = "DISTRIBUTION",
         decision'.action = "EXIT"
  PROVE  Intent(decision') \notin settled
<1>1. SUFFICES ASSUME Intent(decision') \in settled
               PROVE  FALSE
  OBVIOUS
<1>2. /\ decision'.at \in Nat /\ decision'.changed = (decision'.state # checkpoint.state)
      /\ checkpoint' = checkpoint /\ ~ Working
  BY Polled DEF Inv, Poll, Working
<1>3. decision'.at <= checkpoint.last
  <2>1. Intent(decision').at = decision'.at /\ Intent(decision').action = "EXIT"
    BY DEF Intent
  <2>2. QED
    BY <1>1, <1>2, <2>1 DEF ExitsBehind
<1>4. ~ RateLimited(checkpoint, decision'.at)
  <2>1. DecisionInv'
    BY DecisionKept DEF Inv
  <2>2. ~ RateLimited(checkpoint', decision'.at)
    BY <1>2, <2>1 DEF DecisionInv, RateLimited
  <2>3. QED
    BY <1>2, <2>2
<1>5. checkpoint.last \in Times
  BY DEF Inv, TypeOK
<1>6. checkpoint.last \in Nat /\ checkpoint.last # NoTime
  BY <1>2, <1>3, <1>5 DEF Times, NoTime
<1>7. decision'.at >= checkpoint.last + MinTransitionInterval
  BY <1>2, <1>4, <1>5, <1>6, RateLimitIs, DecisionAssumption
<1>8. QED
  BY <1>2, <1>3, <1>6, <1>7, DecisionAssumption

\* The position is left with the change to DISTRIBUTION.
LEMMA FlatKept ==
  ASSUME MinTransitionInterval > 0, Inv, OrderInv, ExitsBehind, FlatInv, [Next]_vars
  PROVE  FlatInv'
<1> USE DEF Inv
<1>1. SUFFICES ASSUME faults' = 0
               PROVE  /\ pc' = "idle" /\ checkpoint'.state = "DISTRIBUTION" /\ position'.open =>
                           exitRefused'
                      /\ pc' \in {"execute", "dispatch"} /\ decision'.state = "DISTRIBUTION" =>
                           decision'.action = "EXIT"
                      /\ pc' \in LateSteps /\ decision'.state = "DISTRIBUTION" /\ position'.open =>
                           \/ exitRefused'
                           \/ /\ decision'.action = "EXIT" /\ decision'.answeredAt # NoTime
                              /\ pc' # "checkpoint"
  BY DEF FlatInv, LateSteps
<1>2. /\ faults = 0 /\ ~ (Raise \/ Exhaust \/ Die) /\ pc # "recover"
      /\ pc = "idle" /\ checkpoint.state = "DISTRIBUTION" /\ position.open => exitRefused
      /\ pc \in {"execute", "dispatch"} /\ decision.state = "DISTRIBUTION" =>
           decision.action = "EXIT"
      /\ pc \in LateSteps /\ decision.state = "DISTRIBUTION" /\ position.open =>
           \/ exitRefused
           \/ decision.action = "EXIT" /\ decision.answeredAt # NoTime /\ pc # "checkpoint"
  BY <1>1, QuietSteps, FaultsGrow DEF FlatInv, LateSteps, OrdersBeforeFaults
<1>3. CASE Poll
  <2>1. /\ pc = "idle" /\ UNCHANGED <<checkpoint, position, exitRefused, settled>>
        /\ pc' = IF HasIntent(decision') THEN "execute" ELSE "publish"
    BY <1>3 DEF Poll, orders, history
  <2>2. decision'.action = Route(decision'.state, decision'.signal, position)
    BY <1>3, Polled
  <2>3. /\ decision'.action = "EXIT" <=> (decision'.state = "DISTRIBUTION" /\ position.open)
        /\ decision'.action \in {"NONE", "BUY", "EXIT"}
        /\ decision'.action = "BUY" => decision'.state \in EntryStates
    BY <2>2, RouteIs
  <2>4. CASE pc' = "execute"
    <3>1. decision'.action # "NONE"
      BY <2>1, <2>4 DEF HasIntent
    <3>2. QED
      BY <2>3, <2>4, <3>1 DEF EntryStates, LateSteps
  <2>5. CASE pc' = "publish"
    <3>1. SUFFICES ASSUME decision'.state = "DISTRIBUTION", position.open
                   PROVE  exitRefused
      BY <2>1, <2>5
    <3>2. decision'.action = "EXIT"
      BY <2>3, <3>1
    <3>3. ~ HasIntent(decision')
      BY <2>1, <2>5
    <3>4. Intent(decision') \in settled
      BY <2>1, <3>2, <3>3 DEF HasIntent
    <3>5. checkpoint.state = "DISTRIBUTION"
      BY <1>2, <1>3, <3>1, <3>2, <3>4, ExitIsNew
    <3>6. QED
      BY <1>2, <2>1, <3>1, <3>5
  <2>6. QED
    BY <2>1, <2>4, <2>5
<1>4. CASE Refuse
  <2>1. /\ pc = "execute" /\ pc' = "publish" /\ UNCHANGED <<decision, position>>
    BY <1>4 DEF Refuse
  <2>2. decision.action = "EXIT" => exitRefused'
    BY <1>4, Zenon DEF Refuse
  <2>3. QED
    BY <1>2, <2>1, <2>2
<1>5. CASE Submit
  BY <1>2, <1>5 DEF Submit, LateSteps
<1>6. CASE Answer
  <2>1. decision \in Decisions /\ now \in Nat
    BY DEF TypeOK, Decisions, Signal
  <2>2. /\ pc = "dispatch" /\ pc' = "publish" /\ decision'.answeredAt = now
        /\ decision'.state = decision.state /\ decision'.action = decision.action
    BY <1>6, <2>1 DEF Answer, Decisions
  <2>3. QED
    BY <1>2, <2>1, <2>2 DEF NoTime
<1>7. CASE Publish \/ SaveRequest \/ SendRequest
  <2>1. /\ pc \in LateSteps /\ pc' \in {"request", "send", "persist"}
        /\ UNCHANGED <<decision, position, exitRefused>>
    BY <1>7 DEF Publish, SaveRequest, SendRequest, LateSteps, history
  <2>2. QED
    BY <1>2, <2>1
<1>8. CASE Persist
  <2>1. pc = "persist" /\ pc' = "checkpoint" /\ decision' = decision
    BY <1>8 DEF Persist
  <2>2. SUFFICES ASSUME decision.state = "DISTRIBUTION", position'.open
                 PROVE  exitRefused'
    BY <2>1
  <2>3. decision.answeredAt = NoTime
    <3>1. SUFFICES ASSUME decision.answeredAt # NoTime
                   PROVE  FALSE
      OBVIOUS
    <3>2. decision.action # "BUY" /\ decision.answeredAt \in Nat
      BY <2>2, <3>1 DEF DecisionInv, EntryStates, TypeOK, Times
    <3>3. position' = Booked(position, decision.action, decision.answeredAt)
      BY <1>8, <3>1 DEF Persist
    <3>4. ~ position'.open
      BY <3>2, <3>3, BookedIs DEF TypeOK
    <3>5. QED
      BY <2>2, <3>4
  <2>4. position' = position
    BY <1>8, <2>3 DEF Persist
  <2>5. exitRefused
    BY <1>2, <2>1, <2>2, <2>3, <2>4 DEF LateSteps
  <2>6. QED
    BY <1>8, <2>2, <2>5, Zenon DEF Persist
<1>9. CASE SaveCheckpoint
  <2>1. /\ pc = "checkpoint" /\ pc' = "idle" /\ UNCHANGED <<position, exitRefused>>
        /\ checkpoint'.state = decision.state
    BY <1>9 DEF SaveCheckpoint
  <2>2. QED
    BY <1>2, <2>1 DEF LateSteps
<1>10. CASE Outside
  <2>1. UNCHANGED <<checkpoint, position, pc, decision, exitRefused>>
    BY <1>10 DEF Outside, worker, history
  <2>2. QED
    BY <1>2, <2>1
<1>11. /\ ~ RecoveryDone /\ \A i \in pending : ~ RecoverPending(i)
       /\ \A r \in unbooked : ~ RecoverFilled(r)
  BY <1>2 DEF RecoveryDone, RecoverPending, RecoverFilled
<1>12. QED
  BY <1>2, <1>3, <1>4, <1>5, <1>6, <1>7, <1>8, <1>9, <1>10, <1>11, StepKinds

\* While nothing fails, a token whose checkpoint says DISTRIBUTION is not held, unless the
\* exit was refused, however events and social snapshots come in (process_events).  With an
\* interval of 0 an exit can have the key of an earlier one at the same time, and is then
\* taken for done.
THEOREM DistributionIsNotHeld ==
  ASSUME MinTransitionInterval > 0
  PROVE  Spec => []DistributionIsFlat
<1> DEFINE QuietInv == OrderInv /\ ExitsBehind /\ FlatInv
<1>1. Init => QuietInv
  BY DEF Init, OrderInv, ExitsBehind, FlatInv, Working, NoTime
<1>2. Inv /\ QuietInv /\ [Next]_vars => QuietInv'
  BY OrderKept, ExitsStayBehind, FlatKept
<1>3. QuietInv => DistributionIsFlat
  BY DEF FlatInv, DistributionIsFlat
<1>4. QED
  BY <1>1, <1>2, <1>3, Invariance, PTL DEF Spec
================================================================================

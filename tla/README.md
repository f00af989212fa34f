# Verification of signalengine

TLA+ models of the event-driven trading core of this repository, their TLC
configurations, and proofs checked by TLAPS. Paths below are relative to the
repository's root.

Run from this directory:

    tlc -workers 2 -config Faults.cfg MCOrderPipeline
    tlapm OrderPipelineProofs.tla

## 1. The system

Separate worker processes share one Redis stream, `raw-events`, and one
database. Each worker reads the stream through its own consumer group, and
publishes what it finds back to it, so that discovery, measurement, social
confirmation and trading feed each other only through events.

| Component | State | Operations | Talks to |
|---|---|---|---|
| Pipeline worker (`core/pipeline.py`) | one position and the portfolio in memory, reloaded for each batch | `poll_once`, `process_events`, `recover_pending_executions` | stream, all repositories, execution adapters |
| Order store (`infra/repository.py`) | `orders`, `execution_ledger`, `execution_reports`, `positions`, `portfolio_state` | one transaction per method | pipeline worker, alpha pipeline |
| Risk engine, reconciliation (`portfolio/risk_engine.py`, `execution/reconciliation.py`) | none, pure | `evaluate`, `reconcile_execution` | called by the pipeline worker |
| Signal, state machine, router (`core/signal_engine.py`, `core/state_engine.py`, `core/router.py`) | none; the state machine's checkpoint is a row of `collector_checkpoints` | `build_signal`, `transition`, `route` | called by the pipeline worker |
| Stream (`infra/redis_stream.py`) | entries; cursor and pending list of each group; dead letters | `publish_model`, `read_group_models`, `acknowledge_message`, `publish_dead_letter`, `replay_dead_letters` | every worker |
| Social confirmation (`core/worker.py:700-803`) | requests accepted in memory | `run_social_confirmation_live` | stream, social source, LLM |
| Telegram publisher (`notifications/telegram_publisher.py`) | delivery rows | `process_once` | stream, Telegram |
| Alpha collector (`core/alpha_collector.py`) | cooldown per token, in memory | `process_once` | stream, data sources |
| Alpha pipeline (`core/alpha_pipeline.py`) | as the pipeline worker | `poll_once` | stream, order store |
| Discovery (`discovery/service.py`) | candidates and snapshots | four `ingest` operations | stream, discovery store |
| Measurement profiles (`sentinel/onchain_live_sources.py`, `run_measurement_bridge`) | addresses of a token, in memory and in Redis | `consume_discovery_events_for_measurement`, `build_live_sources` | stream, Redis, DexScreener |
| Live sources and features (`core/worker.py`, `sentinel/onchain_feature_sync.py`, `infra/feature_store.py`) | cursor of each source, failures and delay of each source name; raw events, facts, windows, samples, curves, snapshots | `run_onchain_feature_live_sync`, `ingest_trade`, `ingest_quote` | outside APIs, stream, feature store |
| Wallet intelligence (`sentinel/wallet_*`) | registry, flows, one sync state | `run_wallet_intelligence_sync`, `run_wallet_flow_projection` | outside APIs, stream |
| Execution adapters (`execution/*`) | none of their own; the chain's | `quote`, `prepare`, `execute` | venues |
| Replay tools (`replay/*`) | files | offline evaluation | none |

What is hard, and what makes each part correct:

- **Orders.** A batch ends in about ten transactions and a venue call, and the
  process may die between any two. Correct: an order is tried a bounded number
  of times in its whole life, whoever tries it; nothing a venue accepted is
  invisible to recovery; a settled order is never sent again; an execution is
  booked once; limits hold.
- **Decisions.** State is read, an order executed, decisions published, books
  written and the checkpoint saved, in that order. Correct: changes of state
  keep their distance, a token that is being distributed is not held, an entry
  keeps its distance from the last exit, and the loop through social
  confirmation does not feed itself.
- **Stream.** Delivery is at most once, because pending entries are never read
  again, while replays deliver again on purpose. Correct: bounded loss, no
  double work, order per token, no group left behind.
- **Discovery.** A candidate is stored, then announced, by several workers that
  hold nothing against each other. Correct: every time the table sees a
  candidate become QUALIFIED is announced, or lost for a known reason; a
  snapshot is never marked as seen before it was ingested.
- **Notifications.** The message goes out, then its row is written. Correct: one
  message per candidate and one per snapshot, but for faults, and a failure is
  made good by the next announcement.
- **Adapters.** A call of the pipeline worker is up to a dozen requests, whose
  answers may be lost while the transaction lives on in a pool. Correct: a call
  leaves at most one order, a live FILLED stands for a swap that was mined, a swap
  is signed under an allowance of its own, nothing is signed on paper, and every call ends.
- **Features.** A record passes through five transactions and two messages, and
  is passed over for good once the first of them is done. Correct: a fault loses
  at most what was in hand, a cursor passes nothing that is not stored, and the
  trades of tracked wallets become flows although two workers share one cursor.
- **Measurement.** Two processes are one consumer of one group, and each keeps in
  memory what it made of its share of the events.

`PROJECT.json` lists the hazards one by one, with the line where each bites.

## 2. Modules

| Module | Models | Needs |
|---|---|---|
| `Portfolio` | sizing, exposure policy, preflight, max positions, reconciliation, as operators | |
| `OrderLifecycle` | abstract: what one row of `orders` may go through | |
| `OrderPipeline` | one worker from a routed intent to a booked report, with start-up recovery | `Portfolio`, `OrderLifecycle` (refinement) |
| `OrderPipelineProofs` | theorems about `OrderPipeline` | `OrderPipeline`, `CommonLemmas`, `TLAPS` |
| `EventStream` | consumer groups, dead letters, replay, the three kinds of poll loop | |
| `EventStreamProofs` | theorems about `EventStream` | `EventStream`, `CommonLemmas`, `TLAPS` |
| `TradingDecision` | signal to checkpoint for one token, recovery, and the social loop | |
| `TradingDecisionProofs` | theorems about `TradingDecision` | `TradingDecision`, `CommonLemmas`, `TLAPS` |
| `Discovery` | ingestion of launch, catalyst, flow and social snapshots, and the loops of their workers | |
| `DiscoveryProofs` | theorems about `Discovery` | `Discovery`, `CommonLemmas`, `TLAPS` |
| `Notifications` | what the collector and the Telegram publisher make of announcements | |
| `NotificationsProofs` | theorems about `Notifications` | `Notifications`, `CommonLemmas`, `TLAPS` |
| `VenueCall` | abstract: what the pipeline worker takes for granted about a call of an adapter | |
| `Adapters` | switches and preflight, choice of the adapter, the requests of a call, and the chain | `VenueCall` (refinement) |
| `AdaptersProofs` | theorems about `Adapters` and its refinement | `Adapters`, `CommonLemmas`, `TLAPS` |
| `FeatureSync` | live sources, backfill, features, and the two wallet workers | |
| `FeatureSyncProofs` | theorems about `FeatureSync` | `FeatureSync`, `CommonLemmas`, `TLAPS` |
| `Measurement` | the registry of measurement profiles in the live worker and in the bridge | |
| `AlphaPipeline` | the second trading worker, as far as it gets | |
| `CommonLemmas` | sums over finite sets, least elements, intervals, sequences | `TLAPS` |
| `MC...` | constants for TLC | |

They meet as follows. `OrderPipeline` makes calls (`VenueAnswers`, `VenueRaises`)
that `VenueCall` specifies and `Adapters` carries out. `TradingDecision` derives
the intents that are the input of `OrderPipeline`, from events that `EventStream`
delivers and `Discovery` and `FeatureSync` publish. `Notifications` consumes the
announcements of `Discovery`; `Measurement` makes the sources that `FeatureSync`
polls. In each module the neighbour is an environment that may do more than the
other module lets it: an intent may come at any time and again, an announcement
likewise, a venue may answer anything.

### OrderPipeline

The variables are the database's columns (`orderStatus`, `attempts`,
`notional`, `ledger`, `report`, `positions`, `portfolio`), the worker's memory
(`pc`, `cur`, `sized`, `execution`, `memPosition`, `memPortfolio`, ...), what is
outside (`fills`, `announced`, `deadLettered`), and bounds. There is one action
per transaction or venue call, in the order of `process_events`:

    Allow -> RecordOrder -> RecordSubmission -> CountAttempt -> VenueAnswers | VenueRaises
      -> MarkAnswer -> SaveReport -> Publish -> PersistLedger -> PersistOrder
      -> PersistPosition -> PersistPortfolio

and of `recover_pending_executions`: `Start`, `RecoverPending` or
`RecoverFilled`, the same attempts, then `RecoverPosition`, `RecoverPortfolio`,
`RecoverOrder`, `RecoverLedger`. `Crash` is possible at every step and leaves
the database; `StoreError` is an exception of a repository or of Redis, which
sends the batch to the dead letters while the worker goes on. A batch is named
by the intent it derives (intent ids are hashes of what the batch decides), so
delivering the same intent again is a redelivery.

Abstracted: amounts are small numbers; the policies that read neither position
nor portfolio are a nondeterministic refusal; token and chain exposure, which
the code always changes together, are one number. The ledger keeps the three
statuses recovery asks for. The signals stream, the metrics and the alerts are
left out. `MCOrderPipeline` has three intents of two tokens: a buy and an exit
of one, a buy of the other.

### EventStream

A group is one worker with one consumer, as deployed. `Read` delivers up to
`BatchCount` entries beyond the cursor; a unit of the batch is handled
(`Handle`), or fails into the dead letters (`HandleFails`), and is acknowledged
in the `finally` clause; social confirmation acknowledges first (`Accept`) and
works afterwards (`HandleAccepted`). `DeadLetterFails` is the exception inside
the exception handler of `poll_once`, which ends the worker. `starts` counts how
often a worker began an entry.

### TradingDecision

One token, a clock, and snapshots described by what the thresholds of the
engines tell apart (`SignalShapes`). The signal engine names a candidate state
(`StateCandidate`), the state machine derives its own (`DerivedState`) and
follows the candidate in three cases only (`RespectedCandidates`): in particular
it believes in a distribution only while the market structure is weak.
`Poll` computes signal, transition and route; then `Refuse` or `Submit` and `Answer`; `Publish`; `SaveRequest` and
`SendRequest`; `Persist`; `SaveCheckpoint`. `Raise`, `Exhaust` and `Die` interrupt
it at any step, and `Die` is followed by recovery. Orders are reduced to four
sets (`settled`, `unfilled`, `pending`, `unbooked`); their steps are
`OrderPipeline`'s subject. `Confirm` is the social worker's answer. Times are
event times for the state machine and wall-clock times for the cooldown, as in
the code. `_load_fsm_checkpoint` takes 120 seconds to have passed when no change
is on record; the model takes this to be enough, which holds for every interval
up to 120 (the default is 30).

`asked` counts the requests saved since market figures were last read. The module
has no fairness: that the loop through social confirmation ends is stated as a
bound, `ConfirmationsDieOut`, which no bound of the clock makes true by itself.

### Discovery

`Load`, `Upsert`, `Keep`, `Publish` and `Announce` are the steps of the four
ingest operations of `discovery/service.py`, which differ in their parameters
only: a flow source that is `observe_only` ends at `Keep`, and a social
candidate that was QUALIFIED stays so (`Evaluated`). `Row` is the unique index on
`(chain, pool_address)`: storing a candidate evicts another one of its slot,
which is possible for candidates that share a venue and for all social
candidates of a chain. Around them is the loop of a worker over its sources:
`Skip` and `FetchFails` for the retry delay, `FetchKept` and `EndSource` for the
checkpoint of seen ids. `FetchAll` is for launch and momentum sources and for
backfills, which keep no such checkpoint and ingest all that is offered, the same
records too, in every round; `FetchOnce` for social requests, which are
acknowledged before they are worked on. `RequestFails` is the exception social confirmation logs;
elsewhere an exception ends the worker, as `Crash` does.

Abstracted: a snapshot carries the verdict of its scanner; `save_snapshot`,
`append_event` and `raw_events.save`, idempotent upserts of different tables,
are one step; the retry delay and the longer cooldown after repeated failures
are both `resting`. The smart-money check after a launch writes nothing that is
modelled. `MCDiscovery` has one flow candidate that three sources of two workers
see, and two social candidates that share a slot.

### Notifications

The collector reads announcements, passes over tokens in its cooldown cache
(`cooled`, emptied by each poll, since `run_alpha_collector_live` makes a new
orchestrator) and everything while the host is young (`recentBoot`), and appends
snapshots. The publisher reads both kinds one entry at a time: `Check`, `Send`,
`Record`, `Acknowledge`. `SendFails` is a call that raises, with or without a
message in the chat; `StoreFails` an error of the delivery table; both lead to
`RecordFailed`, which writes over whatever a candidate's row says, and writes
nothing for a snapshot. `RecordFailedFails` raises inside the exception handler.
The environment may announce any event at any time, again too, which covers
replayed dead letters and what `Discovery` announces twice. Missing credentials
and the text of messages are left out.

### Adapters

`settings` is the venue of the intents and what `AppSettings` says of paper and
live trading, the preflight and the credentials. `Permitted` is the part of the
risk engine that looks at them; `Executor` and `Mode` choose the adapter and
whether it signs. A call then goes

    Call -> Prepare... -> Build... -> [CheckAllowance -> SignApproval -> Sent -> ConfirmApproval]
      -> SignSwap -> Sent -> Confirm

with the bracket on the EVM only. Requests that only read are one step for each
decision taken on their answers. `Lost` and `NoAnswer` are a request whose
answer does not come, with the two nested retry loops as one bound (`MaxTries`):
the same bytes are sent again. `InvalidAnswer`, `SendRefused`, `Unconfirmed`,
`FailedOnChain`, `NoPrice` and `NoRoute` raise; `Die` is the process. The chain
goes on by itself: `Pool`, `Mine` (in the order of nonces, for a fee, with
success or not) and `Forget`, also when the call that sent the transaction is
long over. `TransactionCount` is the node's answer for the next nonce, so a new
call may reuse the nonce of a forgotten transaction.

`allowance` is a set of pairs of token and spender. An entry sells the quote token of
the route and an exit the token itself (`SellToken`), and the assembled swap names
the spender (`Spenders`), so the approval of an entry does nothing for the exit of its
position. The adapter approves 2^256 - 1 and nothing else, so an allowance is there
or it is not; one of another amount, made by other hands, counts as none. The caller
is reduced to "an entry or the exit of the open position", which it books whatever
the report says, as `reconcile_execution` does.

Abstracted: amounts, gas prices, slippage limits and routes. The router builds an
exit with a notional of 0 (core/router.py:45), for which the live adapters sell one
atomic unit (execution/evm_adapter.py:194, execution/solana_adapter.py:198) and
report FILLED, so the position is closed in the books and unsold on the chain. No
document says what a live exit sells, so this is a hazard without a property. The
preflight asks for the wallet's native balance and refuses
exits as well as entries; for a CEX there is no balance to ask for, so a live CEX
intent is never permitted while the preflight is on, which is the default.
Recovery calls the adapters without asking the preflight, which the settings
without a preflight stand for. `EvmDexAdapter` does not look at
`live_trading_enabled`, so outside the environment `live` only
`paper_execution_enabled` keeps it from signing.
`HasDexCredentials` asks for Solana or OKX credentials whatever the chain.

### FeatureSync

Sources are polled in order, each under the delay of its *name*
(`failures`, `delay`), which sources of one symbol on two chains share: the
failures of one hold the other back, and its success clears them. `Fetch` reads
a range beyond the source's cursor, `Collect...` stores the raw event, and the
steps of `ingest_trade` and `ingest_quote` follow one commit at a time:

    CollectTrade -> PublishFact -> UpsertFact
      -> (Rebuild -> UpsertWindow -> SaveBuyPressure) for each window
      -> PublishLatest -> Done
    CollectQuote -> AppendSample -> LoadSamples -> UpsertCurve -> SaveSlippage
      -> PublishLatest -> Done

The loop over `trade_windows` (sentinel/feature_aggregator.py:42) is `nth` running
through `Spans`: each window is loaded, saved and made a snapshot of by itself, and
an error may come between two of them. `FactsOf` is `load_trade_facts`: of the facts
in a window, the `FactLimit` oldest, in the order of time and trade id (`rank`); the
code's limit is 5000.

A record that is stored already goes from `Collect` to `Done`. The backfill does
the same with the records of its file, without a cursor, so it repeats the file
and relies on the duplicates; a record it cannot classify ends it
(`ClassifyRaises`). The wallet workers `Resolve` the sync state, `Import` and
`Refresh` (one of them), `Project` a range of the stream into flows, publish, and
`SaveSyncState`. Time passes while the live worker sleeps, so no delay ends
within a sync.

A window, curve or snapshot is the set of records it has counted; the figures
are sums over it. Left out: rows of `feature_quality`, committed before a
snapshot and read by nothing that is modelled; the refreshed wallet states; the
scores; the direction filter of the projection
(sentinel/wallet_intelligence_sync.py:189), which drops
trades whose direction is neither inflow nor outflow. Of the five kinds of sources the loop can poll, `build_live_sources`
makes only the two profile kinds, and neither ever ingests anything: the Solana
profile has no address to watch and its fetch raises, the trades of an EVM pool
have no wallet and the collector refuses them. `EvmTransferTradeSource`,
`JupiterQuoteSource` and `EvmQuoteSource` are made by tests only. The model has
the profile kinds as they are and the wallet kinds as the loop and its tests
intend them; quotes come from a backfill only. What the program can store with the
sources it does make is the question of the run `profile_sources`.

### Measurement

Two processes, `live` and `bridge`, read one group as one consumer: each entry
goes to one of them. `Lookup` asks the registry, which loads Redis once
(`Known`) and drops what is stale (`Look`), from Redis too, even when another
process has put a fresher profile there meanwhile; `Register` or `Unresolved`
follows, and the event counts as handled in any case. `BuildSources` makes a
source of every profile the live worker knows. The registry of the bridge is new
in each poll.

### AlphaPipeline

One token, from the read to the acknowledgement. Two steps can not succeed:
`_save_fsm_checkpoint` uses the name `infra`, which the module does not import,
and `RiskEngine.evaluate` is called with parameters it does not have. Whatever
would come after them (`save_position` and `save_portfolio` beside the pipeline
worker) is never reached and not modelled; this is why its interleaving with
`OrderPipeline` on the portfolio row is not listed as a hazard.

## 3. Runs

| Run | Question | Bounds |
|---|---|---|
| `faults` | What survives crashes, store errors, raising venues and redeliveries? | 3 intents, 2 batches, 2 crashes, 1 store error, 1 retry |
| `steady` | Do the limits hold until the first fault, does recovery end, when is a pending order settled? | 3 intents, 2 batches, 1 crash, 1 store error |
| `stream` | What is begun, lost and ordered; does every group catch up? | 2 groups, 3 entries, batches of 3, 2 deaths |
| `decision` | Spacing, cooldown, exits, and how often confirmation is asked for | 2 events from outside, times 0..4, 1 fault, 1 replay |
| `discovery` | Which announcements are made or lost; what do seen ids guarantee? | 3 workers, 4 sources, 6 snapshots of 3 candidates, 1 fault, 1 id kept |
| `notifications` | How often does the chat hear of one thing, what leaves a row, is a failure made good? | 4 events of 2 candidates, 3 entries, batches of 2, 2 faults |
| `adapters` | What does a report stand for, what may be signed, does a call end, is it one `VenueCall`? | 3 calls, 4 venues, 3 sets of credentials, 2 spenders, all switches, 2 tries and 2 polls |
| `features` | What is lost between raw event and features, what does a cursor pass, do published trades become flows? | 2 sources, 4 trades, 3 quotes, 2 blocks, windows of 1 and 2 blocks, 2 facts loaded, 5 deployments, 1 fault |
| `position_limit` | Does docs/risk-policy.md:34 hold? No. | as `faults`, limit 1 |
| `alpha_route` | Does core/worker.py:655 hold? No. | 2 events, 2 faults |
| `profile_sources` | Does README.md:178 hold for the sources that are made? No. | 2 profile sources, 2 blocks, no fault |
| `shared_profiles` | Does the comment at sentinel/onchain_live_sources.py:715 hold? No. | 2 tokens, 3 entries, times 0..3 |

Why the bounds are enough for the cases that matter: two crashes let recovery
itself die and be repeated, which is the case in which a report is booked twice;
two batches of three intents include the redelivery of one intent, and a second
intent that meets the books of the first. One retry gives a first, a repeated
and an exhausted attempt. In `steady` one store error and one crash leave an
order pending under a worker that lives on, and settle it at the next start; the
second buy is cut down to what is left under the limit of exposure. A batch of
three entries of two tokens is regrouped into a unit of two and one of one (A B
A). In `decision`, an event that is confirmed, replayed or merged with another
yields entry, exit and re-entry from two events of outside. In `discovery`, a
candidate rises, falls and rises again from the three snapshots about it, read
by two workers at once, and the other two candidates evict each other; the
checkpoint keeps one id, as many as a feed offers. In `adapters`, three calls
are an entry, its exit and a second entry, or three attempts whose transactions
meet in the pool; the wallet has four fees, so it can run dry; two tries are a
lost answer and a repeated request. In `features`, two trades share a block, a
source's limit is as large as what it may find, a slippage curve holds one
sample and a file three, the longer window has three trades of which two are
loaded, and a batch of two holds one new entry when the last one read is in the
range; each deployment is a set of processes that share what the question is
about (live and projection; live and backfill; backfill, sync and projection).
In `notifications`, two faults are enough for a lost answer and a lost row, and
three entries for a candidate that is announced, announced again, and collected.

Deadlock is not checked: every run is bounded, and ends when its bounds are
used up and nothing is left to do.

**Passing properties**, beyond the type invariants:

- `AttemptsBounded`, `FillsBacked`, `VisibleToRecovery`, `ImplementsLifecycle`:
  the audit trail is always ahead of the venue.
- `BookedPerAttempt`: booking a report more than once takes a recovery that dies.
- `OpenCountDrift`: counter and positions differ by at most one per fault.
- `ExhaustedIsAnswered`, `ExposureWithinLimit`; `StartReachesPoll` (liveness).
- `PendingIsSettled` (liveness): a pending order is answered, rejected or out of
  attempts in the end, with one exception. A store error after the submission sends
  the batch to the dead letters (core/pipeline.py:239) while the worker lives on, and
  recovery runs at the start only (core/worker.py:1473): such an order stays
  SUBMITTED or RETRY until a redelivery or the next start, which settles whatever it
  finds pending.
- `StartedOnce`, `LossBounded`, `TokenOrder`, `EveryEntryDelivered` (liveness).
- `ChangesSpaced`, `DistributionIsFlat`, `ReentryCooled`.
- `ConfirmationsDieOut`: between two readings of market figures at most two
  confirmations are asked for, and one more per fault. The answer to a request is an
  event without market figures; it leads to PRE_LAUNCH, which asks once more, and the
  answer to that one changes nothing. A state machine that moved on such answers would
  ask for ever.
- `AnnouncementsConserved`: announcements made, pending and lost add up to the
  times a candidate became QUALIFIED. `SeenWasIngested`, `SocialNeverDemotes`.
- `MessagesBounded`: a message is repeated at most once per fault.
  `AcknowledgedIsRecorded`, `UnreadIsSent` (liveness).
- `FilledIsMined`: a live FILLED is this call's own swap, mined, though calls
  share nonces and forgotten transactions come back. `SwapAfterApproval`: a swap is
  signed under an allowance for the token it sells and the spender it names.
  `PaperNeverSigns`, `ImplementsVenueCall`, `CallEnds` (liveness).
- `StoredIsPublished`: a fault loses at most one record to the stream or the
  features. Without a fault a stored trade misses a window only if as many older
  facts as `load_trade_facts` returns keep it out (`CrowdedOut`).
- `CursorPassesStored`; `ProjectionSkipsNothing`: two workers may set
  the shared sync state back, never past what is projected.
- `PublishedBecomesFlow` (liveness): a fact of a tracked wallet that is on the stream
  becomes a flow, whoever published it and whatever fails. The property makes an
  exception of `Count = 1`, since XRANGE begins with the entry read last
  (infra/redis_stream.py:120): a `raw_event_batch_size` of 1 reads that entry for
  ever. The run has a batch of two, of which one entry is new.

**Disagreements with the documents** (the four runs that must fail):

1. `position_limit`: a crash between `save_position` and `save_portfolio` lets
   more positions open than the limit of docs/risk-policy.md:34.
2. `alpha_route`: with a repository, every snapshot the alpha pipeline takes as
   far as its checkpoint raises (core/alpha_pipeline.py:374; line 261 would raise
   next), is written to the dead letters and acknowledged. core/worker.py:655
   says that it runs signal, state, route, risk and execution.
3. `profile_sources`: the sources of the live mode are made from measurement profiles
   only (sentinel/onchain_live_sources.py:1086), and fail at every poll, so the live
   mode stores no trade at all. README.md:178 says that it "polls configured real
   sources, persists normalized raw events".
4. `shared_profiles`: the live worker looks into Redis once
   (sentinel/onchain_live_sources.py:783), so a profile the bridge registers
   later never gets a source. The comment at line 715 says that profiles are
   shared across workers.

Disagreements the models contain, without a run of their own:

- An exit never lowers the portfolio's exposure (execution/reconciliation.py:55),
  since its notional is 0; portfolio/exposure_tracker.py:31 expects "the latest
  reconciled positions" there.
- A FAILED report of a buy opens a position (execution/reconciliation.py:43);
  README.md:168 speaks of
  fills.
- Recovery sends a pending entry without asking the risk engine
  (core/pipeline.py:145), so within the cooldown of docs/risk-policy.md:41, if an
  exit was booked meanwhile. `ReentryCooled` says that this takes two faults.
- A worker that dies between storing a candidate as QUALIFIED and announcing it
  (discovery/service.py:254) never announces it, since the repeated ingestion
  finds it QUALIFIED; README.md:211. `AnnouncementsConserved` counts these.
- infra/settings.yaml:32 calls `live_trading_enabled` the master switch. The risk
  engine asks for it in the environment `live` only, the Solana adapter always,
  and the EVM adapter never: in another environment, with paper execution off,
  it signs. `PaperNeverSigns` is therefore about `paper_execution_enabled`.

More that the models show, without a document that says otherwise: the
collector's cooldown holds within one batch only (core/worker.py:646), and on a
young host it keeps back everything; the balance preflight refuses exits as well
as entries; a row that says "sent" can be overwritten by "failed"; an
announcement below `min_score` leaves "skipped", which no later and better
announcement of the candidate changes.

**Fairness.** Liveness assumes that a worker keeps executing what it can
(`while not stop_event.is_set()` in `core/worker.py:1495`) and is started again
when it dies (`restart: always` in `docker-compose.aliyun.yml`). No event need
ever arrive, nothing need fail, be replayed or answered well. A venue call is
assumed to end (`OrderPipeline`), which `Adapters` shows as `CallEnds` from weak
fairness of the adapter alone: every request has a timeout, the retry loops and
the polling are bounded, and the chain need not do anything. `FeatureSync`
assumes weak fairness of each loop by itself (the live worker, the projection
worker, the sync worker and its import) and of time, which passes while the live
worker sleeps; blocks need not be mined, and the backfill need not run.

## 4. Proofs

Every invariant that a passing run checks is proved, for all constants that meet
the named assumptions, and so are the action properties and the refinements:
`tlapm` checks each of the modules below by itself. `PROJECT.json` lists the
theorems with the property each one states.

| Module | Theorems, beside `Invariance` and `TypeCorrectness` |
|---|---|
| `OrderPipelineProofs` | `WorkerCorrectness`, `RetryLimit`, `EveryFillCounted`, `EveryFillVisible`, `TerminalIsFinal`, `Refinement`, `GivenUpIsAnswered`, `BookingsAreBacked`, `CountersStayTogether`, `SizedUnderTheLimit` |
| `EventStreamProofs` | `NothingStartedTwice`, `ACrashLosesABatch`, `OrderWithinToken` |
| `TradingDecisionProofs` | `CooledAfterExit`, `ChangesAreSpaced`, `DistributionIsNotHeld`, `AnswersAskNoMore` |
| `DiscoveryProofs` | `NoAnnouncementUnaccounted`, `NeverSkipped`, `NeverDemoted` |
| `NotificationsProofs` | `OnceAndFaults`, `NothingForgotten` |
| `AdaptersProofs` | `NothingSignedOnPaper`, `NoSwapWithoutAllowance`, `AnsweredIsMined`, `AdapterIsAVenueCall`, `OneOrder` |
| `FeatureSyncProofs` | `NoFactPassedOver`, `NothingPassedUnstored`, `OneRowPerFault` |

In each module `Invariance` is `Spec => []Inv` for an inductive `Inv`, with a lemma
for each action or group of actions; where a property needs more, further
invariants are proved on top of `Inv`, so that each is read for one purpose. What
follows says why the properties are not inductive, and what the strengthening adds.

**OrderPipeline** (`PipelineAssumption`, `PortfolioAssumption`: constants have
their types, limits are positive). That a dispatch is backed by an attempt depends
on the worker having counted one since the last fill, which only `pc` shows.
`WorkerInv` says it for each step (`pc = "dispatch" => fills[cur] < attempts[cur]`,
and so on), and holds across a crash because a dead worker has nothing in hand.
The refinement of `OrderLifecycle` needs no mapping but the identity on
`orderStatus` and `attempts`; `AttemptStep`, `StatusStep` and `OtherStep` match
each action with the lifecycle step it makes. Then:

- `GivenUpIsAnswered`: `AnsweredInv`, an order without an attempt left is pending
  only in the hand of a worker that waits for its answer, until the first fault.
- `BookingsAreBacked`: `BookingInv`, every booking still to come (a FILLED order
  that is not RECONCILED, or an execution in hand) has an attempt or a crash after
  the first to go with it; `FreshInv` (the first start finds nothing) is why one
  crash is free, `LedgerInv` why `process_events` books once.
- `CountersStayTogether`: the distance of counter and positions alone is not
  enough, since recovering an order of an earlier batch moves both. `DriftInv`
  bounds the distance *plus the orders left to recovery* (`LeftOver`) by the
  faults: a fault leaves one order or one write undone, and a recovery uses up
  what was counted when it was left.
- `SizedUnderTheLimit`, for finitely many tokens (a sum is taken over them):
  `ExposureInv`, the books in memory are those of the database with an execution
  added that was sized to what was left under the limit.

**EventStream** (`StreamAssumption`). `WorkerInv` says where an entry can be, and
that it is begun when it leaves `hand` or `accepted`; `LossInv` bounds what is in
hand by a batch, which is why a crash loses no more.

**TradingDecision** (`DecisionAssumption`). For the cooldown: which orders exist
before the first fault and after a death that is the first one
(`OrdersBeforeFaults`, `OrdersToRecover`), so that a closed position knows of the
latest exit (`CooldownInv`). `ChangesAreSpaced` and `DistributionIsNotHeld` assume
`MinTransitionInterval > 0` and are false without it: with an interval of 0 the
state changes twice at one time, and an exit can have the key of an earlier one and
be taken for done. `min_transition_interval_seconds` (core/config.py:59) is a
plain integer, 30 by default, so nothing but the settings keeps 0 out.
`DistributionIsNotHeld` further needs that events are read in the order of their
times while nothing fails (`OrderInv`), and that exits already settled lie behind
the last change (`ExitsBehind`), so that a new exit has a key of its own.
`AnswersAskNoMore` rests on `AskInv`: of the two requests one is in reserve as long as
the state, on record or decided, is not PRE_LAUNCH, and both while a change is decided
and not yet asked about.

**Discovery** (`DiscoveryAssumption`). `WorkerInv`: what is published is kept, what is
announced is published. `CountInv`: announcements made, held and lost add up, with
finitely many workers that hold one. `NeverDemoted` rests on `SocialAssumption`,
that one worker does social confirmation, of snapshots of its own, as deployed
(`docker-compose.aliyun.yml`): two such workers could each read a candidate before
the other stores it.

**Notifications** (`NotificationsAssumption`). `MessageInv`: a row that does not
settle its message leaves only as many messages as there were faults, unless the
message is just out. `UnrecordedInv` counts what is about to be acknowledged
without a row among the faults.

**Adapters** (`AdaptersAssumption`). `TxsInv`: a call signs one transaction of a
kind, at its step, so a swap in a pool belongs to a call that ended or that waits
for it; `AllowanceInv`: a call approves the pair of token and spender its own swap
needs, and a mined approval stays an allowance of that pair. From these every step,
those of the chain included, is one of `VenueCall` or a stutter
(`AdapterIsAVenueCall`), and `OneOrder` is `VenueCall`'s own bound under the
refinement: the venue never holds more orders than there were calls, which is what
`FillsBacked` of `OrderPipeline` expects of it.

**FeatureSync** (`FeatureSyncAssumption`, `DeploymentsAssumption`: the trades of a
chain are finitely many, ordered within a source as their blocks are, each at a
place of its own). `HandInv` says what a process has in hand at each step.

- `NoFactPassedOver`: `MadeInv`, facts are made not only up to the sync state but up
  to every place a worker has read it from or may set it to, so that either may set
  it back.
- `NothingPassedUnstored`: `PassedInv` is the property for records in hand too, and
  `AheadInv` says that these are in order and ahead of the cursor, or behind another
  one of its block; that is the case in which the code lets a trade be passed.
- `OneRowPerFault`: `CountInv`, what the one process that ingests holds between
  two commits is what the store holds, so a record in hand is counted by its next
  steps: it is counted in each window behind `nth`, or crowded out of it, which it
  stays, since facts are never deleted (`CrowdedOutStays`). Then a step that is no
  fault loses nothing, and a fault at most the row in the hand of its process.

`CommonLemmas` has what several of them need: that a non-empty set of numbers has a
least element, sums over a finite set when one of its terms changes, and sets that
differ by one element.

Only model-checked, since the prover cannot state or reach them: liveness
(`StartReachesPoll`, `PendingIsSettled`, `EveryEntryDelivered`, `UnreadIsSent`,
`CallEnds`, `PublishedBecomesFlow`), and anything with ENABLED. The
four runs that must fail are counterexamples, of which there is nothing to prove.
`Measurement` and `AlphaPipeline` are checked by such runs alone and have no
theorems.

## 5. Not modelled, and the plan

Left out for good: the parsing of outside data (`discovery/*_sources.py`, the
decoding in `sentinel/onchain_live_sources.py`, `sentinel/social_live_sources.py`)
and the LLM analysis, whose results enter the models as snapshots, trades and
verdicts; feature and score arithmetic; metrics, alerts, logging, configuration
and schemas, which keep no state a step depends on; the sources of quotes and
wallet transfers, which only tests make; and the replay and rehearsal tools
(`replay/*`), which evaluate recorded events offline and share no state with the
workers.

What remains, in this order:

1. An abstract specification of a notification (told once, or recorded as not
   told), and a proof that `Notifications` implements it; the same for what a
   consumer group promises (`EventStream`).
2. Theorems about the operators of `Measurement`: what a registry may drop.
3. Positive statements about `AlphaPipeline`, should its two defects be repaired.

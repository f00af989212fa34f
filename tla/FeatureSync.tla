------------------------------- MODULE FeatureSync -------------------------------
(***************************************************************************)
(* From trades and quotes to features and wallet flows: the loop over live *)
(* sources and the backfill (core/worker.py), the collectors, aggregators  *)
(* and the publisher (sentinel/onchain_feature_sync.py and what it calls), *)
(* and the two workers that project published trade facts into the flows   *)
(* of tracked wallets (sentinel/wallet_intelligence_sync.py).              *)
(*                                                                         *)
(* The loop knows five kinds of sources; build_live_sources makes the two  *)
(* profile kinds, the others are what the loop and its tests are written   *)
(* for.  Quotes come from the file of a backfill only: nothing makes a     *)
(* source of quotes.  One token.  Every commit to the store, every message *)
(* to the stream and every request to the outside is a step; any step may  *)
(* fail, and any process may die between two.                              *)
(***************************************************************************)
EXTENDS Integers, Sequences, FiniteSets, FiniteSetsExt, SequencesExt

CONSTANTS
    Sources,            \* the live sources, in the order they are polled
    Name,               \* source_name of each: the key of its failures and its delay
    Trades,             \* what the chain will hold: [source, at, block, rank, wallet, large]
    Unclear,            \* records of a file whose side or mid price cannot be told
    MaxHeight,          \* blocks that will be mined
    PollLimit,          \* poll_limit of a Solana source
    Lookback,           \* initial_lookback_blocks of an EVM source
    Spans,              \* trade_windows, in the order they are rebuilt: blocks in each
    FactLimit,          \* limit of load_trade_facts
    SampleLimit,        \* samples in a slippage curve
    Backoff, Cooldown,  \* failure_backoff_seconds, source_cooldown_seconds
    MaxFailures,        \* max_consecutive_live_source_failures
    Count,              \* raw_event_batch_size
    Tracked,            \* wallets of the registry at first
    Leaderboard,        \* wallets an import may add
    Deployments,        \* which processes run together, their sources and the file
    MaxOthers,          \* bound: entries of the stream that are no trade facts
    MaxFaults           \* bound: errors and deaths

\* The trades of a source are told apart by their place on its chain, which their blocks
\* follow; rank is the place of a trade in the order of observed_at and trade_id.
ASSUME FeatureSyncAssumption ==
    /\ Len(Sources) \in Nat /\ DOMAIN Sources = 1 .. Len(Sources)
    /\ IsFiniteSet(Trades)
    /\ \A t \in Trades :
         t.source \in DOMAIN Sources /\ t.at \in Nat \ {0} /\ t.block \in 1 .. MaxHeight
    /\ \A t, u \in Trades : t.source = u.source /\ t.at < u.at => t.block <= u.block
    /\ \A t, u \in Trades : t.source = u.source /\ t.at = u.at => t = u
    /\ \A t \in Trades : t.rank \in Nat
    /\ \A t, u \in Trades : t.rank < u.rank => t.block <= u.block
    /\ \A t, u \in Trades : t.rank = u.rank => t = u
    /\ Spans \in Seq(Nat \ {0}) /\ Spans # <<>>
    /\ {PollLimit, Lookback, FactLimit, SampleLimit} \subseteq Nat \ {0}
    /\ {Backoff, Cooldown, MaxFailures, Count} \subseteq Nat \ {0}
    /\ {MaxHeight, MaxOthers, MaxFaults} \subseteq Nat

VARIABLES
    running, kind,      \* the processes that run; the kinds of the sources
    file,               \* what the backfill reads
    height,             \* blocks mined
    \* the store
    cursor,             \* of each source: a block (EVM) or a trade (Solana), 0 for none
    failures, delay,    \* of each source name: consecutive failures, time to wait
    raw,                \* raw events, by source name and record
    facts, samples,     \* dex_trade_facts, dex_quote_samples
    windows,            \* token_trade_windows: the facts counted, by window and last block
    curves,             \* slippage_curves: the samples counted, by last block
    pressures,          \* feature_snapshots of buy_pressure, by window and last block
    slippages,          \* feature_snapshots of estimated_slippage_bps, by last block
    registry,           \* tracked_wallet_registry
    flows,              \* wallet_token_flows
    synced,             \* last_raw_event_id, which both wallet workers use
    \* the raw-event stream
    stream,             \* trade facts, and None for every other event
    \* the live worker and the backfill
    pc, queue, loaded,  \* of each: its step, the records in hand, what it has loaded
    nth,                \* of each: the trade window it is at
    left,               \* the sources the live worker has still to poll
    \* the wallet workers
    wpc, from, last,    \* of each: its step, where it began to read and how far it came
    faults

feed      == <<cursor, failures, delay, left>>
trades    == <<facts, windows>>
quotes    == <<samples, curves>>
snapshots == <<pressures, slippages>>
tables    == <<raw, trades, quotes, snapshots>>
ingest    == <<pc, queue, loaded, nth>>
wallets   == <<registry, flows, synced, wpc, from, last>>
world     == <<running, kind, file, height>>
vars      == <<world, feed, tables, stream, ingest, wallets, faults>>

Ingesters     == {"live", "backfill"}
WalletWorkers == {"sync", "project"}
Names         == {Name[s] : s \in DOMAIN Sources}
None          == [source |-> 0]
Empty         == [b \in 1 .. MaxHeight |-> {}]

\* A quote says how much a fixed notional would buy at a time.
Quote(b)   == [source |-> 0, at |-> b, block |-> b]
Quotes     == {Quote(b) : b \in 1 .. MaxHeight}
IsQuote(r) == r.source = 0
Records    == Trades \cup Quotes \cup Unclear

\* A file is a sequence of records; sources of quotes are in no deployment.
ASSUME DeploymentsAssumption ==
    \A d \in Deployments :
        /\ d.file \in Seq(Records)
        /\ \A s \in DOMAIN Sources :
             d.kind[s] \in {"solana", "evm", "profile_solana", "profile_evm"}

Init ==
    /\ \E d \in Deployments : running = d.running /\ kind = d.kind /\ file = d.file
    /\ height = 0
    /\ cursor = [s \in DOMAIN Sources |-> 0]
    /\ failures = [n \in Names |-> 0]
    /\ delay = [n \in Names |-> 0]
    /\ raw = {}
    /\ facts = {}
    /\ samples = {}
    /\ windows = [i \in DOMAIN Spans |-> Empty]
    /\ curves = Empty
    /\ pressures = [i \in DOMAIN Spans |-> Empty]
    /\ slippages = Empty
    /\ registry = Tracked
    /\ flows = {}
    /\ synced = 0
    /\ stream = <<>>
    /\ pc = [p \in Ingesters |-> "idle"]
    /\ queue = [p \in Ingesters |-> <<>>]
    /\ loaded = [p \in Ingesters |-> {}]
    /\ nth = [p \in Ingesters |-> 1]
    /\ left = <<>>
    /\ wpc = [w \in WalletWorkers |-> "idle"]
    /\ from = [w \in WalletWorkers |-> 0]
    /\ last = [w \in WalletWorkers |-> 0]
    /\ faults = 0

Others == Cardinality({i \in DOMAIN stream : stream[i] = None})

\* An event that is no trade fact goes to the stream, on which only its place counts.
PublishOther == stream' = IF Others < MaxOthers THEN Append(stream, None) ELSE stream

-----------------------------------------------------------------------------
(* The world outside. *)

\* Only the live worker looks at the chain.
Mine ==
    /\ "live" \in running
    /\ height < MaxHeight
    /\ height' = height + 1
    /\ UNCHANGED <<running, kind, file, feed, tables, stream, ingest, wallets, faults>>

\* Time passes while the live worker sleeps.
Tick ==
    /\ pc["live"] = "idle"
    /\ \E n \in Names : delay[n] > 0
    /\ delay' = [n \in Names |-> IF delay[n] > 0 THEN delay[n] - 1 ELSE 0]
    /\ UNCHANGED <<world, cursor, failures, left, tables, stream, ingest, wallets, faults>>

-----------------------------------------------------------------------------
(* The sources. *)

OnChain(s) == {t \in Trades : t.source = s /\ t.block <= height}

\* From the oldest.
InOrder(S) ==
    CHOOSE q \in [1 .. Cardinality(S) -> S] :
        /\ \A i, j \in DOMAIN q : i < j => q[i].at < q[j].at
        /\ \A t \in S : \E i \in DOMAIN q : q[i] = t

\* getSignaturesForAddress until the cursor gives the newest ones, which are worked on
\* from the oldest.
SignaturesNewestFirst(s) ==
    LET newer == {t \in OnChain(s) : t.at > cursor[s]}
    IN  Reverse(InOrder({t \in newer : Cardinality({u \in newer : u.at > t.at}) < PollLimit}))

Signatures(s) ==
    LET newer == {t \in OnChain(s) : t.at > cursor[s]}
    IN  InOrder({t \in newer : Cardinality({u \in newer : u.at > t.at}) < PollLimit})

\* eth_getLogs from the block after the cursor.
StartBlock(s) ==
    IF cursor[s] # 0 THEN cursor[s] + 1 ELSE Max({0, height - Lookback + 1})

Logs(s) == InOrder({t \in OnChain(s) : t.block >= StartBlock(s)})

\* fetch_trades.
Fetched(s) ==
    IF kind[s] = "solana" THEN Signatures(s) ELSE Logs(s)

\* Sources made from a profile: the Solana one has no address to watch, the trades of an
\* EVM pool have no wallet, which the collector insists on.
CannotFetch(s)   == kind[s] = "profile_solana"
CannotCollect(s) == kind[s] = "profile_evm"

CursorOf(t) == IF kind[t.source] = "solana" THEN t.at ELSE t.block

-----------------------------------------------------------------------------
(* The loop over the live sources. *)

Source == Head(left)

BeginSync ==
    /\ "live" \in running
    /\ pc["live"] = "idle"
    /\ pc' = [pc EXCEPT !["live"] = "source"]
    /\ left' = [s \in DOMAIN Sources |-> s]
    /\ UNCHANGED <<world, cursor, failures, delay, tables, stream, queue, loaded, nth, wallets,
                   faults>>

EndSync ==
    /\ pc["live"] = "source"
    /\ left = <<>>
    /\ pc' = [pc EXCEPT !["live"] = "idle"]
    /\ UNCHANGED <<world, feed, tables, stream, queue, loaded, nth, wallets, faults>>

\* In its delay.
SkipSource ==
    /\ pc["live"] = "source"
    /\ left # <<>>
    /\ delay[Name[Source]] > 0
    /\ left' = Tail(left)
    /\ UNCHANGED <<world, cursor, failures, delay, tables, stream, ingest, wallets, faults>>

\* _source_retry_delay.
RetryDelay(n) == IF n >= MaxFailures THEN Cooldown ELSE Backoff

\* Any exception while a source is polled: its failures are counted, and the next one
\* is polled.
SourceFails ==
    /\ LET n == failures[Name[Source]] + 1 IN
         /\ failures' = [failures EXCEPT ![Name[Source]] = Min({n, MaxFailures})]
         /\ delay' = [delay EXCEPT ![Name[Source]] = RetryDelay(n)]
    /\ left' = Tail(left)
    /\ pc' = [pc EXCEPT !["live"] = "source"]
    /\ queue' = [queue EXCEPT !["live"] = <<>>]
    /\ UNCHANGED <<world, cursor, tables, stream, loaded, nth, wallets>>

Fetch ==
    /\ pc["live"] = "source"
    /\ left # <<>>
    /\ delay[Name[Source]] = 0
    /\ IF CannotFetch(Source)
         THEN SourceFails
         ELSE /\ queue' = [queue EXCEPT !["live"] = Fetched(Source)]
              /\ pc' = [pc EXCEPT !["live"] = "record"]
              /\ UNCHANGED <<world, feed, tables, stream, loaded, nth, wallets>>
    /\ UNCHANGED faults

\* All records are ingested.
SourceDone ==
    /\ pc["live"] = "record"
    /\ queue["live"] = <<>>
    /\ failures' = [failures EXCEPT ![Name[Source]] = 0]
    /\ delay' = [delay EXCEPT ![Name[Source]] = 0]
    /\ left' = Tail(left)
    /\ pc' = [pc EXCEPT !["live"] = "source"]
    /\ UNCHANGED <<world, cursor, tables, stream, queue, loaded, nth, wallets, faults>>

-----------------------------------------------------------------------------
(* ingest_trade and ingest_quote, by the live worker or the backfill. *)

Goto(p, step) == pc' = [pc EXCEPT ![p] = step]

\* The backfill reads its file from the first line, again and again.
BeginBackfill ==
    /\ "backfill" \in running
    /\ pc["backfill"] = "idle"
    /\ queue' = [queue EXCEPT !["backfill"] = file]
    /\ Goto("backfill", "record")
    /\ UNCHANGED <<world, feed, tables, stream, loaded, nth, wallets, faults>>

EndBackfill ==
    /\ pc["backfill"] = "record"
    /\ queue["backfill"] = <<>>
    /\ Goto("backfill", "idle")
    /\ UNCHANGED <<world, feed, tables, stream, queue, loaded, nth, wallets, faults>>

Record(p) == Head(queue[p])
Row(p, r) == <<IF p = "live" THEN Name[r.source] ELSE "backfill", r>>

\* collect_trade and collect_quote: an event the source has stored before is a duplicate
\* and goes no further, though the cursor moves on.
CollectAll(p, stored, next) ==
    /\ pc[p] = "record"
    /\ raw' = raw \cup {Row(p, queue[p][i]) : i \in DOMAIN queue[p]}
    /\ Goto(p, IF stored THEN "done" ELSE next)
    /\ UNCHANGED <<world, feed, trades, quotes, snapshots, stream, queue, loaded, nth, wallets,
                   faults>>

Collect(p, stored, next) ==
    /\ pc[p] = "record"
    /\ raw' = raw \cup {Row(p, Record(p))}
    /\ Goto(p, IF stored THEN "done" ELSE next)
    /\ UNCHANGED <<world, feed, trades, quotes, snapshots, stream, queue, loaded, nth, wallets,
                   faults>>

CollectTrade(p) ==
    /\ queue[p] # <<>>
    /\ p = "live" => ~CannotCollect(Source)
    /\ ~IsQuote(Record(p))
    /\ Collect(p, Row(p, Record(p)) \in raw, "fact")

CollectQuote(p) ==
    /\ p = "backfill"
    /\ queue[p] # <<>>
    /\ IsQuote(Record(p))
    /\ Collect(p, Row(p, Record(p)) \in raw, "sample")

CollectRaises ==
    /\ pc["live"] = "record"
    /\ queue["live"] # <<>>
    /\ CannotCollect(Source)
    /\ SourceFails
    /\ UNCHANGED faults

\* Trades of min_trade_notional_usd and more are published as onchain.trade_fact.
PublishFact(p) ==
    /\ pc[p] = "fact"
    /\ stream' = IF Record(p).large THEN Append(stream, Record(p)) ELSE stream
    /\ Goto(p, "upsert")
    /\ UNCHANGED <<world, feed, tables, queue, loaded, nth, wallets, faults>>

\* ingest_raw_trade: the fact, then the windows that end with its block, one by one.
UpsertFact(p) ==
    /\ pc[p] = "upsert"
    /\ Record(p) \notin Unclear
    /\ facts' = facts \cup {Record(p)}
    /\ nth' = [nth EXCEPT ![p] = 1]
    /\ Goto(p, "rebuild")
    /\ UNCHANGED <<world, feed, raw, windows, quotes, snapshots, stream, queue, loaded, wallets,
                   faults>>

\* load_trade_facts: of the facts in the i-th window up to block b, the oldest.
InWindow(i, b) == {t \in facts : b - Spans[i] < t.block /\ t.block <= b}
Older(t, i, b) == {u \in InWindow(i, b) : u.rank < t.rank}
FactsOf(i, b)  == {t \in InWindow(i, b) : Cardinality(Older(t, i, b)) < FactLimit}

Rebuild(p) ==
    /\ pc[p] = "rebuild"
    /\ loaded' = [loaded EXCEPT ![p] = FactsOf(nth[p], Record(p).block)]
    /\ Goto(p, "window")
    /\ UNCHANGED <<world, feed, tables, stream, queue, nth, wallets, faults>>

UpsertWindow(p) ==
    /\ pc[p] = "window"
    /\ windows' = [windows EXCEPT ![nth[p]][Record(p).block] = loaded[p]]
    /\ Goto(p, "snapshot")
    /\ UNCHANGED <<world, feed, raw, facts, quotes, snapshots, stream, queue, loaded, nth,
                   wallets, faults>>

\* ingest_raw_quote: the sample, then the curve of the latest samples.
AppendSample(p) ==
    /\ pc[p] = "sample"
    /\ Record(p) \notin Unclear
    /\ samples' = samples \cup {Record(p)}
    /\ Goto(p, "load")
    /\ UNCHANGED <<world, feed, raw, trades, curves, snapshots, stream, queue, loaded, nth,
                   wallets, faults>>

Newer(q) == {u \in samples : u.at > q.at}

LoadSamples(p) ==
    /\ pc[p] = "load"
    /\ loaded' = [loaded EXCEPT ![p] = {q \in samples : Cardinality(Newer(q)) < SampleLimit}]
    /\ Goto(p, "curve")
    /\ UNCHANGED <<world, feed, tables, stream, queue, nth, wallets, faults>>

LastBlock(S) == Max({r.block : r \in S})

UpsertCurve(p) ==
    /\ pc[p] = "curve"
    /\ curves' = [curves EXCEPT ![LastBlock(loaded[p])] = loaded[p]]
    /\ Goto(p, "snapshot")
    /\ UNCHANGED <<world, feed, raw, trades, samples, snapshots, stream, queue, loaded, nth,
                   wallets, faults>>

\* save_snapshot.  The row of feature_quality that is committed before it is left out.
SaveSnapshot(p, next) ==
    /\ loaded' = [loaded EXCEPT ![p] = {}]
    /\ Goto(p, next)
    /\ UNCHANGED <<world, feed, raw, trades, quotes, stream, queue, wallets, faults>>

\* As of the end of the window, and on to the next one.
SaveBuyPressure(p) ==
    /\ pc[p] = "snapshot"
    /\ ~IsQuote(Record(p))
    /\ pressures' = [pressures EXCEPT ![nth[p]][Record(p).block] = loaded[p]]
    /\ IF nth[p] < Len(Spans)
         THEN SaveSnapshot(p, "rebuild") /\ nth' = [nth EXCEPT ![p] = @ + 1]
         ELSE SaveSnapshot(p, "latest") /\ nth' = nth
    /\ UNCHANGED slippages

\* As of the curve.
SaveSlippage(p) ==
    /\ pc[p] = "snapshot"
    /\ IsQuote(Record(p))
    /\ slippages' = [slippages EXCEPT ![LastBlock(loaded[p])] = loaded[p]]
    /\ SaveSnapshot(p, "latest")
    /\ UNCHANGED <<pressures, nth>>

\* publish_latest: the latest snapshots, as an onchain.liquidity_snapshot.
PublishLatest(p) ==
    /\ pc[p] = "latest"
    /\ PublishOther
    /\ Goto(p, "done")
    /\ UNCHANGED <<world, feed, tables, queue, loaded, nth, wallets, faults>>

\* On to the next record; the live worker saves the cursor of this one first.
Done(p) ==
    /\ pc[p] = "done"
    /\ cursor' = IF p = "live"
                   THEN [cursor EXCEPT ![Source] = CursorOf(Record(p))]
                   ELSE cursor
    /\ queue' = [queue EXCEPT ![p] = Tail(@)]
    /\ Goto(p, "record")
    /\ UNCHANGED <<world, failures, delay, left, tables, stream, loaded, nth, wallets, faults>>

-----------------------------------------------------------------------------
(* The wallet workers. *)

\* Where to go on: the sync state.
Resolve(w) ==
    /\ w \in running
    /\ wpc[w] = "idle"
    /\ from' = [from EXCEPT ![w] = synced]
    /\ wpc' = [wpc EXCEPT ![w] = IF w = "sync" THEN "import" ELSE "project"]
    /\ UNCHANGED <<world, feed, tables, stream, ingest, registry, flows, synced, last, faults>>

\* upsert_registry_entries: a wallet the registry has is written again.
Upserted(S) == registry \cup S

\* The leaderboard adds wallets to the registry.
Import ==
    /\ wpc["sync"] = "import"
    /\ \E S \in SUBSET Leaderboard : registry' = Upserted(S)
    /\ wpc' = [wpc EXCEPT !["sync"] = "refresh"]
    /\ UNCHANGED <<world, feed, tables, stream, ingest, flows, synced, from, last, faults>>

\* refresh_wallets passes over a wallet that cannot be asked about; nothing reads the
\* states that are saved.
Refresh ==
    /\ wpc["sync"] = "refresh"
    /\ wpc' = [wpc EXCEPT !["sync"] = "project"]
    /\ UNCHANGED <<world, feed, tables, stream, ingest, registry, flows, synced, from, last,
                   faults>>

BatchSkippingOne(w) ==
    {i \in DOMAIN stream : from[w] + 1 < i /\ i <= from[w] + Count}

BatchOfOneLess(w) ==
    {i \in DOMAIN stream : from[w] < i /\ i < Max({from[w], 1}) + Count - 1}

\* XRANGE from the last entry read, which is in the range and counts.
Batch(w) ==
    {i \in DOMAIN stream : from[w] < i /\ i < Max({from[w], 1}) + Count}

\* _project_wallet_flows: the trade facts of the wallets list_active_registry_entries has.
InRegistry(t) == t.wallet \in registry

FlowsIn(B) == {t \in {stream[i] : i \in B} \ {None} : InRegistry(t)}

\* append_wallet_flows: a flow has the id of its trade.
Project(w) ==
    /\ wpc[w] = "project"
    /\ flows' = flows \cup FlowsIn(Batch(w))
    /\ last' = [last EXCEPT ![w] = Max(Batch(w) \cup {from[w]})]
    /\ wpc' = [wpc EXCEPT ![w] = "publish"]
    /\ UNCHANGED <<world, feed, tables, stream, ingest, registry, synced, from, faults>>

\* The wallet.cluster_snapshot of the flows.
PublishSnapshot(w) ==
    /\ wpc[w] = "publish"
    /\ PublishOther
    /\ wpc' = [wpc EXCEPT ![w] = "save"]
    /\ UNCHANGED <<world, feed, tables, ingest, registry, flows, synced, from, last, faults>>

SaveSyncStateByCount(w) ==
    /\ wpc[w] = "save"
    /\ synced' = from[w] + Count
    /\ wpc' = [wpc EXCEPT ![w] = "idle"]
    /\ from' = [from EXCEPT ![w] = 0]
    /\ last' = [last EXCEPT ![w] = 0]
    /\ UNCHANGED <<world, feed, tables, stream, ingest, registry, flows, faults>>

SaveSyncState(w) ==
    /\ wpc[w] = "save"
    /\ synced' = last[w]
    /\ wpc' = [wpc EXCEPT ![w] = "idle"]
    /\ from' = [from EXCEPT ![w] = 0]
    /\ last' = [last EXCEPT ![w] = 0]
    /\ UNCHANGED <<world, feed, tables, stream, ingest, registry, flows, faults>>

-----------------------------------------------------------------------------
(* Errors and deaths. *)

\* An error of the store, the stream or the network, at any request of a live source.
LiveRaises ==
    /\ pc["live"] # "idle"
    /\ left # <<>>
    /\ ~(pc["live"] = "record" /\ queue["live"] = <<>>)
    /\ delay[Name[Source]] = 0
    /\ SourceFails

\* A process dies, or raises where nothing catches: it begins anew.
IngesterDies(p) ==
    /\ pc[p] # "idle"
    /\ Goto(p, "idle")
    /\ queue' = [queue EXCEPT ![p] = <<>>]
    /\ loaded' = [loaded EXCEPT ![p] = {}]
    /\ left' = IF p = "live" THEN <<>> ELSE left
    /\ UNCHANGED <<world, cursor, failures, delay, tables, stream, nth, wallets>>

\* classify_trade or classify_quote raises: nothing catches that for the backfill.
ClassifyRaises ==
    /\ pc["backfill"] \in {"upsert", "sample"}
    /\ Record("backfill") \in Unclear
    /\ IngesterDies("backfill")
    /\ UNCHANGED faults

\* A wallet worker catches every exception of an iteration, and begins the next.
WorkerRaises(w) ==
    /\ wpc[w] # "idle"
    /\ wpc' = [wpc EXCEPT ![w] = "idle"]
    /\ from' = [from EXCEPT ![w] = 0]
    /\ last' = [last EXCEPT ![w] = 0]
    /\ UNCHANGED <<world, feed, tables, stream, ingest, registry, flows, synced>>

Fault ==
    /\ faults < MaxFaults
    /\ faults' = faults + 1
    /\ \/ LiveRaises
       \/ \E p \in Ingesters : IngesterDies(p)
       \/ \E w \in WalletWorkers : WorkerRaises(w)

-----------------------------------------------------------------------------

Ingest(p) ==
    \/ CollectTrade(p) \/ PublishFact(p) \/ UpsertFact(p) \/ Rebuild(p) \/ UpsertWindow(p)
    \/ CollectQuote(p) \/ AppendSample(p) \/ LoadSamples(p) \/ UpsertCurve(p)
    \/ SaveBuyPressure(p) \/ SaveSlippage(p) \/ PublishLatest(p) \/ Done(p)

Live == BeginSync \/ EndSync \/ SkipSource \/ Fetch \/ SourceDone \/ CollectRaises \/ Ingest("live")

Backfill == BeginBackfill \/ EndBackfill \/ ClassifyRaises \/ Ingest("backfill")

Wallet(w) == Resolve(w) \/ Project(w) \/ PublishSnapshot(w) \/ SaveSyncState(w)

Next ==
    \/ Mine \/ Tick \/ Live \/ Backfill \/ Import \/ Refresh
    \/ \E w \in WalletWorkers : Wallet(w)
    \/ Fault

\* Every worker is a loop that sleeps and goes on, and time passes.
Fairness ==
    /\ WF_vars(Tick)
    /\ WF_vars(Live)
    /\ WF_vars(Import \/ Refresh)
    /\ \A w \in WalletWorkers : WF_vars(Wallet(w))

Spec == Init /\ [][Next]_vars /\ Fairness

-----------------------------------------------------------------------------
(* Properties. *)

TypeOK ==
    /\ cursor \in [DOMAIN Sources -> Nat]
    /\ failures \in [Names -> 0 .. MaxFailures]
    /\ delay \in [Names -> 0 .. Max({Backoff, Cooldown})]
    /\ raw \subseteq (Names \cup {"backfill"}) \X Records
    /\ facts \subseteq Trades
    /\ samples \subseteq Quotes
    /\ \A b \in 1 .. MaxHeight :
         /\ \A i \in DOMAIN Spans : windows[i][b] \cup pressures[i][b] \subseteq facts
         /\ curves[b] \cup slippages[b] \subseteq samples
    /\ flows \subseteq Records
    /\ synced \in 0 .. Len(stream)
    /\ \A i \in DOMAIN stream : stream[i] \in Records \cup {None}
    /\ \A p \in Ingesters :
         /\ queue[p] \in Seq(Records)
         /\ loaded[p] \subseteq facts \cup samples
         /\ nth[p] \in DOMAIN Spans

InHand(p, r) == pc[p] \notin {"idle", "source", "record", "done"} /\ Record(p) = r

\* A large trade is on the stream, whatever comes of its features.
Published(r) == ~IsQuote(r) /\ r.large => \E i \in DOMAIN stream : stream[i] = r

\* FactLimit older facts keep a trade out of its i-th window.
CrowdedOut(r, i) == Cardinality(Older(r, i, r.block)) >= FactLimit

\* A trade is in each window it ends and in the snapshot made of it, unless it is crowded
\* out; a quote is in the snapshot of a curve, unless SampleLimit newer ones came before.
CountedIn(r, i) ==
    CrowdedOut(r, i) \/ (r \in windows[i][r.block] /\ r \in pressures[i][r.block])

Counted(r) ==
    \/ r \in Unclear
    \/ ~IsQuote(r) /\ \A i \in DOMAIN Spans : CountedIn(r, i)
    \/ /\ IsQuote(r)
       /\ \/ Cardinality(Newer(r)) >= SampleLimit
          \/ \E b \in 1 .. MaxHeight : r \in curves[b] /\ r \in slippages[b]

\* A record that was stored as a raw event is never looked at again, so an ingestion that
\* breaks off, between two windows too, loses it to the stream or to the features.  Each
\* fault loses one at most: everything else that is stored and not in hand was published,
\* and is counted in its features as long as no other process computes the same ones, but
\* for the newest trades of a window that holds more than load_trade_facts returns.
StoredIsPublished ==
    LET lost == {row \in raw : /\ \A p \in Ingesters : ~(InHand(p, row[2]) /\ row = Row(p, row[2]))
                               /\ \/ ~Published(row[2])
                                  \/ ~Counted(row[2]) /\ ~(Ingesters \subseteq running)}
    IN  Cardinality(lost) <= faults

\* What a source may miss without a fault: blocks before its first poll's lookback (EVM),
\* trades behind the newest a request returns (Solana).
OutOfReach(t) ==
    IF kind[t.source] = "solana"
      THEN Cardinality({u \in OnChain(t.source) : u.at > t.at}) >= PollLimit
      ELSE t.block + Lookback <= height

\* The cursor of a source passes nothing in its reach that is neither stored nor in hand,
\* unless a fault came between it and an earlier trade of its block (EVM).
CursorPassesStored ==
    \A t \in Trades :
        cursor[t.source] >= CursorOf(t) =>
            \/ <<Name[t.source], t>> \in raw
            \/ \E i \in DOMAIN queue["live"] : queue["live"][i] = t
            \/ OutOfReach(t)
            \/ /\ kind[t.source] = "evm"
               /\ faults > 0
               /\ \E u \in Trades : u.source = t.source /\ u.block = t.block /\ u.at < t.at

\* The sync state passes no fact of a wallet that was tracked all along without making it
\* a flow, though two workers set it and each may set it back.
ProjectionSkipsNothing ==
    \A i \in 1 .. synced :
        stream[i] # None /\ stream[i].wallet \in Tracked => stream[i] \in flows

\* A large trade of a tracked wallet that is on the stream becomes a flow, whatever errors
\* and deaths the wallet workers go through, as long as one of them runs: it reads on from
\* the sync state, which the other may set back.  A worker that reads one entry at a time
\* reads the last one again for ever.
PublishedBecomesFlow ==
    \A t \in {u \in Trades : u.large /\ u.wallet \in Tracked} :
        (WalletWorkers \cap running # {} /\ \E i \in DOMAIN stream : stream[i] = t)
        ~> (t \in flows \/ Count = 1)

\* README.md:178: the live mode polls configured sources and persists their raw events.
\* While no fault happens, a trade that a live source can reach is stored.
ConfiguredSourcesStore ==
    \A t \in Trades :
        (/\ "live" \in running
         /\ t \in OnChain(t.source))
        ~> (<<Name[t.source], t>> \in raw \/ OutOfReach(t) \/ faults > 0)
================================================================================

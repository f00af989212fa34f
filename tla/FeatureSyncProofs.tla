---------------------------- MODULE FeatureSyncProofs ----------------------------
(***************************************************************************)
(* Theorems about FeatureSync, for any sources, trades and deployments,    *)
(* any limits, and any number of faults.                                   *)
(***************************************************************************)
EXTENDS FeatureSync, CommonLemmas, SequenceTheorems

-----------------------------------------------------------------------------
(* What is fetched.                                                          *)

\* A list q of the records S, from the oldest.
Listed(q, S) ==
    /\ q \in [1 .. Cardinality(S) -> S]
    /\ \A i, j \in DOMAIN q : i < j => q[i].at < q[j].at
    /\ \A t \in S : \E i \in DOMAIN q : q[i] = t

\* A trade has a place in its source and a block.
LEMMA TradePlaces ==
  \A t \in Trades : t.at \in Nat \ {0} /\ t.block \in Nat \ {0} /\ t.block \in 1 .. MaxHeight
  <1>1. MaxHeight \in Nat
    BY FeatureSyncAssumption
  <1>2. \A t \in Trades : t.at \in Nat \ {0} /\ t.block \in 1 .. MaxHeight
    BY FeatureSyncAssumption
  <1>3. QED
    BY <1>1, <1>2

\* Records of different times can be listed: size by size, the oldest one goes first.
LEMMA ListExists ==
  ASSUME NEW S, IsFiniteSet(S),
         \A t \in S : t.at \in Nat,
         \A t, u \in S : t.at = u.at => t = u
  PROVE  \E q : Listed(q, S)
  <1> DEFINE Unlisted == {T \in SUBSET S : ~ \E q : Listed(q, T)}
             Sizes == {Cardinality(T) : T \in Unlisted}
  <1>1. SUFFICES ASSUME Unlisted # {} PROVE FALSE
    <2>1. S \in Unlisted \/ \E q : Listed(q, S)
      <3>1. S \in SUBSET S
        OBVIOUS
      <3>2. QED
        BY <3>1
    <2> HIDE DEF Unlisted
    <2>2. QED
      BY <2>1
  <1>2. Sizes \in SUBSET Nat /\ Sizes # {}
    <2>1. \A T \in SUBSET S : Cardinality(T) \in Nat
      BY FS_Subset, FS_CardinalityType
    <2>2. Unlisted \subseteq SUBSET S
      OBVIOUS
    <2> HIDE DEF Unlisted
    <2>3. QED
      BY <1>1, <2>1, <2>2
  <1>3. PICK n \in Sizes : \A m \in Sizes : n <= m
    <2> HIDE DEF Sizes
    <2>1. QED
      BY <1>2, LeastExists
  <1>4. PICK T \in Unlisted : Cardinality(T) = n
    BY <1>3
  <1>5. IsFiniteSet(T) /\ n \in Nat /\ T \in SUBSET S
    BY <1>2, <1>4, FS_Subset
  <1>6. T # {}
    <2>1. ASSUME T = {} PROVE Listed(<<>>, T)
      <3>1. Cardinality(T) = 0
        BY <2>1, FS_EmptySet
      <3>2. QED
        BY <2>1, <3>1 DEF Listed
    <2>2. ~Listed(<<>>, T)
      BY <1>4
    <2>3. QED
      BY <2>1, <2>2
  <1>7. PICK oldest \in T : \A t \in T : oldest.at <= t.at
    <2> DEFINE Times == {t.at : t \in T}
    <2>1. Times \in SUBSET Nat /\ Times # {}
      BY <1>5, <1>6
    <2>2. \E m \in Times : \A k \in Times : m <= k
      <3> HIDE DEF Times
      <3>1. QED
        BY <2>1, LeastExists
    <2>3. QED
      BY <2>2
  <1> DEFINE R == T \ {oldest}
  <1>8. /\ IsFiniteSet(R) /\ Cardinality(R) = n - 1 /\ R \in SUBSET S /\ n - 1 \in Nat
    <2>1. IsFiniteSet(R) /\ Cardinality(R) = n - 1
      BY <1>4, <1>5, <1>7, FS_RemoveElement
    <2>2. n - 1 \in Nat
      BY <2>1, FS_CardinalityType
    <2>3. QED
      BY <1>5, <2>1, <2>2
  <1>9. PICK q : Listed(q, R)
    <2>1. ~(n <= n - 1)
      BY <1>5
    <2>2. R \in Unlisted => Cardinality(R) \in Sizes
      OBVIOUS
    <2>3. n - 1 \notin Sizes
      BY <1>3, <2>1
    <2>4. R \notin Unlisted
      BY <1>8, <2>2, <2>3
    <2>5. QED
      BY <1>8, <2>4
  <1> DEFINE r == [i \in 1 .. n |-> IF i = 1 THEN oldest ELSE q[i - 1]]
  <1>10. q \in [1 .. n - 1 -> R] /\ n \in Nat /\ n # 0
    <2>1. n # 0
      BY <1>5, <1>8
    <2>2. q \in [1 .. n - 1 -> R]
      BY <1>8, <1>9 DEF Listed
    <2>3. QED
      BY <1>5, <2>1, <2>2
  <1>11. r \in [1 .. n -> T]
    BY <1>7, <1>10
  <1>12. ASSUME NEW i \in 1 .. n, NEW j \in 1 .. n, i < j
         PROVE  r[i].at < r[j].at
    <2>1. j - 1 \in 1 .. n - 1 /\ r[j] = q[j - 1] /\ q[j - 1] \in R
      BY <1>10, <1>12
    <2>2. CASE i = 1
      <3>1. q[j - 1] \in T /\ q[j - 1] # oldest
        BY <2>1
      <3>2. /\ oldest.at <= q[j - 1].at /\ q[j - 1].at # oldest.at
            /\ q[j - 1].at \in Nat /\ oldest.at \in Nat
        BY <1>5, <1>7, <3>1
      <3>3. r[i] = oldest
        BY <2>2
      <3> HIDE DEF r
      <3>4. QED
        BY <2>1, <3>2, <3>3
    <2>3. CASE i # 1
      <3>1. i - 1 \in 1 .. n - 1 /\ r[i] = q[i - 1] /\ i - 1 < j - 1
        BY <1>10, <1>12, <2>3
      <3>2. q[i - 1].at < q[j - 1].at
        BY <1>9, <1>10, <2>1, <3>1 DEF Listed
      <3>3. QED
        BY <2>1, <3>1, <3>2
    <2>4. QED
      BY <2>2, <2>3
  <1>13. ASSUME NEW t \in T
         PROVE  \E i \in 1 .. n : r[i] = t
    <2>1. CASE t = oldest
      BY <1>10, <2>1
    <2>2. CASE t # oldest
      <3>1. PICK i \in 1 .. n - 1 : q[i] = t
        BY <1>9, <1>10, <2>2 DEF Listed
      <3>2. i + 1 \in 1 .. n /\ r[i + 1] = t
        BY <1>10, <3>1
      <3>3. QED
        BY <3>2
    <2>3. QED
      BY <2>1, <2>2
  <1> HIDE DEF r
  <1>14. Listed(r, T)
    BY <1>4, <1>11, <1>12, <1>13 DEF Listed
  <1>15. QED
    BY <1>4, <1>14

\* InOrder is such a list.
LEMMA InOrderIsList ==
  ASSUME NEW S \in SUBSET Trades, \A t, u \in S : t.source = u.source
  PROVE  /\ Listed(InOrder(S), S) /\ InOrder(S) \in Seq(S)
         /\ DOMAIN InOrder(S) = 1 .. Cardinality(S)
  <1>1. IsFiniteSet(S) /\ Cardinality(S) \in Nat
    BY FeatureSyncAssumption, FS_Subset, FS_CardinalityType
  <1>2. (\A t \in S : t.at \in Nat) /\ (\A t, u \in S : t.at = u.at => t = u)
    BY FeatureSyncAssumption
  <1>3. \E q : Listed(q, S)
    BY <1>1, <1>2, ListExists
  <1>4. Listed(InOrder(S), S)
    BY <1>3 DEF Listed, InOrder
  <1>5. InOrder(S) \in [1 .. Cardinality(S) -> S]
    BY <1>4 DEF Listed
  <1>6. QED
    BY <1>1, <1>4, <1>5

\* The trades of a source that have happened, and what is fetched of them: trades of the
\* source, from the oldest.
LEMMA FetchedIsList ==
  ASSUME NEW s \in DOMAIN Sources
  PROVE  \E S \in SUBSET OnChain(s) :
            /\ Listed(Fetched(s), S) /\ Fetched(s) \in Seq(S)
            /\ DOMAIN Fetched(s) = 1 .. Cardinality(S)
            /\ kind[s] = "solana" =>
                 LET newer == {t \in OnChain(s) : t.at > cursor[s]}
                 IN  S = {t \in newer : Cardinality({u \in newer : u.at > t.at}) < PollLimit}
            /\ kind[s] # "solana" => S = {t \in OnChain(s) : t.block >= StartBlock(s)}
  <1>1. ASSUME NEW S \in SUBSET OnChain(s)
        PROVE  /\ Listed(InOrder(S), S) /\ InOrder(S) \in Seq(S)
               /\ DOMAIN InOrder(S) = 1 .. Cardinality(S)
    <2>1. S \in SUBSET Trades /\ \A t, u \in S : t.source = u.source
      BY DEF OnChain
    <2>2. QED
      BY <2>1, InOrderIsList
  <1> DEFINE newer == {t \in OnChain(s) : t.at > cursor[s]}
             S1 == {t \in newer : Cardinality({u \in newer : u.at > t.at}) < PollLimit}
             S2 == {t \in OnChain(s) : t.block >= StartBlock(s)}
  <1>2. S1 \in SUBSET OnChain(s) /\ S2 \in SUBSET OnChain(s)
    OBVIOUS
  <1>3. kind[s] = "solana" => Fetched(s) = InOrder(S1)
    BY DEF Fetched, Signatures
  <1>4. kind[s] # "solana" => Fetched(s) = InOrder(S2)
    BY DEF Fetched, Logs
  <1> HIDE DEF newer, S1, S2
  <1>5. CASE kind[s] = "solana"
    <2>1. /\ Listed(Fetched(s), S1) /\ Fetched(s) \in Seq(S1)
          /\ DOMAIN Fetched(s) = 1 .. Cardinality(S1)
      BY <1>1, <1>2, <1>3, <1>5
    <2>2. QED
      BY <1>2, <1>5, <2>1 DEF S1, newer
  <1>6. CASE kind[s] # "solana"
    <2>1. /\ Listed(Fetched(s), S2) /\ Fetched(s) \in Seq(S2)
          /\ DOMAIN Fetched(s) = 1 .. Cardinality(S2)
      BY <1>1, <1>2, <1>4, <1>6
    <2>2. QED
      BY <1>2, <1>6, <2>1 DEF S2
  <1>7. QED
    BY <1>5, <1>6

-----------------------------------------------------------------------------
(* Types, and what is in hand at each step.                                  *)

Steps == {"idle", "source", "record", "fact", "upsert", "rebuild", "window", "sample", "load",
          "curve", "snapshot", "latest", "done"}
WithTrade == {"fact", "upsert", "rebuild", "window"}
WithQuote == {"sample", "load", "curve"}
WithRecord == WithTrade \cup WithQuote \cup {"snapshot", "latest", "done"}

\* The longest time to wait.
MaxDelay == Max({Backoff, Cooldown})

\* The processes and what they read.
FeedTyped ==
    /\ height \in Nat /\ faults \in Nat
    /\ file \in Seq(Records)
    /\ cursor \in [DOMAIN Sources -> Nat]
    /\ failures \in [Names -> 0 .. MaxFailures]
    /\ delay \in [Names -> 0 .. MaxDelay]
    /\ left \in Seq(DOMAIN Sources)

\* A record is in hand from the raw event to its features, a trade on one way and a quote
\* on the other; what the live worker has in hand is of the source it polls.
HandInv ==
    /\ pc \in [Ingesters -> Steps]
    /\ queue \in [Ingesters -> Seq(Records)]
    /\ loaded \in [Ingesters -> SUBSET (facts \cup samples)]
    /\ pc["backfill"] # "source"
    /\ pc["live"] \notin {"idle", "source"} => left # <<>>
    /\ \A i \in DOMAIN queue["live"] :
         queue["live"][i] \in Trades /\ queue["live"][i].source = Source
    /\ \A p \in Ingesters :
         /\ pc[p] \in WithRecord => queue[p] # <<>>
         /\ pc[p] \in {"idle", "source"} => queue[p] = <<>>
         /\ pc[p] \in WithTrade => ~IsQuote(Record(p))
         /\ pc[p] \in WithQuote => IsQuote(Record(p))
         /\ pc[p] \in {"window", "snapshot"} /\ ~IsQuote(Record(p)) => loaded[p] \subseteq facts
         /\ pc[p] \in {"curve", "snapshot"} /\ IsQuote(Record(p)) => loaded[p] \subseteq samples

\* The store.
TablesTyped ==
    /\ raw \subseteq (Names \cup {"backfill"}) \X Records
    /\ facts \subseteq Trades
    /\ samples \subseteq Quotes
    /\ windows \in [DOMAIN Spans -> [1 .. MaxHeight -> SUBSET facts]]
    /\ curves \in [1 .. MaxHeight -> SUBSET samples]
    /\ pressures \in [DOMAIN Spans -> [1 .. MaxHeight -> SUBSET facts]]
    /\ slippages \in [1 .. MaxHeight -> SUBSET samples]

\* The stream and those who read it.
StreamTyped ==
    /\ stream \in Seq(Records \cup {None})
    /\ wpc \in [WalletWorkers -> {"idle", "import", "refresh", "project", "publish", "save"}]
    /\ Tracked \subseteq registry
    /\ flows \subseteq Records
    /\ synced \in 0 .. Len(stream)
    /\ from \in [WalletWorkers -> 0 .. Len(stream)]
    /\ last \in [WalletWorkers -> 0 .. Len(stream)]

\* The window a process is at.
NthTyped == nth \in [Ingesters -> DOMAIN Spans]

Inv == FeedTyped /\ HandInv /\ TablesTyped /\ StreamTyped /\ NthTyped

\* Limits are positive.
LEMMA Limits ==
  /\ Backoff \in Nat \ {0} /\ Cooldown \in Nat \ {0} /\ MaxFailures \in Nat \ {0}
  /\ Count \in Nat \ {0} /\ PollLimit \in Nat \ {0} /\ Lookback \in Nat \ {0}
  /\ MaxHeight \in Nat /\ SampleLimit \in Nat \ {0} /\ FactLimit \in Nat \ {0}
  /\ MaxDelay \in Nat /\ Backoff <= MaxDelay /\ Cooldown <= MaxDelay
  <1>1. /\ Backoff \in Nat \ {0} /\ Cooldown \in Nat \ {0} /\ MaxFailures \in Nat \ {0}
        /\ Count \in Nat \ {0} /\ PollLimit \in Nat \ {0} /\ Lookback \in Nat \ {0}
        /\ MaxHeight \in Nat /\ SampleLimit \in Nat \ {0} /\ FactLimit \in Nat \ {0}
    BY FeatureSyncAssumption
  <1> DEFINE S == {Backoff, Cooldown}
             top == Backoff + Cooldown
  <1>2. S \in SUBSET Nat /\ S # {} /\ top \in Nat /\ \A y \in S : y <= top
    BY <1>1
  <1> HIDE DEF S, top
  <1>3. Max(S) \in S /\ \A y \in S : y <= Max(S)
    BY <1>2, MaxIsGreatest
  <1>4. QED
    BY <1>1, <1>3 DEF S, MaxDelay

\* There is a trade window, and each has blocks.
LEMMA SpansAre ==
  /\ DOMAIN Spans = 1 .. Len(Spans) /\ Len(Spans) \in Nat \ {0} /\ 1 \in DOMAIN Spans
  /\ \A i \in DOMAIN Spans : Spans[i] \in Nat \ {0}
  <1>1. Spans \in Seq(Nat \ {0}) /\ Spans # <<>>
    BY FeatureSyncAssumption
  <1>2. QED
    BY <1>1

\* Trades are no quotes.
LEMMA TradesAreTrades == \A t \in Trades : ~IsQuote(t) /\ t \in Records
  BY FeatureSyncAssumption DEF IsQuote, Records

\* The first state.
LEMMA InitInv == Init => Inv
  <1> SUFFICES ASSUME Init PROVE Inv
    OBVIOUS
  <1>1. FeedTyped
    <2>1. file \in Seq(Records)
      BY DeploymentsAssumption DEF Init
    <2>2. QED
      BY <2>1, Limits DEF Init, FeedTyped
  <1>2. HandInv
    BY DEF Init, HandInv, Steps, Ingesters, WithRecord, WithTrade, WithQuote
  <1>3. TablesTyped
    BY DEF Init, TablesTyped, Empty
  <1>4. StreamTyped
    BY DEF Init, StreamTyped, WalletWorkers
  <1>5. NthTyped
    BY SpansAre DEF Init, NthTyped
  <1>6. QED
    BY <1>1, <1>2, <1>3, <1>4, <1>5 DEF Inv

\* The steps one by one.  CollectRaises and LiveRaises are failures of the source, and
\* ClassifyRaises is the end of the backfill.
LEMMA StepsOneByOne ==
  ASSUME [Next]_vars
  PROVE  \/ Mine \/ Tick \/ BeginSync \/ EndSync \/ SkipSource \/ Fetch \/ SourceDone
         \/ CollectRaises \/ BeginBackfill \/ EndBackfill \/ Import \/ Refresh
         \/ \E p \in Ingesters : Ingest(p)
         \/ \E p \in Ingesters : /\ IngesterDies(p) /\ faults' \in {faults, faults + 1}
                                 /\ p = "live" => faults' = faults + 1
                                 /\ faults' = faults + 1 \/ ClassifyRaises
         \/ LiveRaises /\ faults' = faults + 1
         \/ \E w \in WalletWorkers :
              Wallet(w) \/ (WorkerRaises(w) /\ faults' = faults + 1)
         \/ UNCHANGED vars
  <1>1. "live" \in Ingesters /\ "backfill" \in Ingesters
    BY DEF Ingesters
  <1>2. ClassifyRaises => IngesterDies("backfill") /\ faults' = faults /\ "backfill" # "live"
    BY DEF ClassifyRaises
  <1>3. QED
    BY <1>1, <1>2 DEF Next, Live, Backfill, Fault

\* A failure of a source leaves the feed in its types.
LEMMA SourceFailsTyped ==
  ASSUME FeedTyped, left # <<>>, SourceFails, faults' \in {faults, faults + 1}
  PROVE  FeedTyped'
  <1>1. Source \in DOMAIN Sources /\ Tail(left) \in Seq(DOMAIN Sources)
    BY DEF FeedTyped, Source
  <1>2. Name[Source] \in Names
    BY <1>1 DEF Names
  <1> DEFINE n == failures[Name[Source]] + 1
  <1>3. n \in Nat
    BY <1>2 DEF FeedTyped
  <1>4. Min({n, MaxFailures}) \in 0 .. MaxFailures
    BY <1>3, Limits, MinOfTwo
  <1>5. RetryDelay(n) \in 0 .. MaxDelay
    BY Limits DEF RetryDelay
  <1>6. /\ failures' = [failures EXCEPT ![Name[Source]] = Min({n, MaxFailures})]
        /\ delay' = [delay EXCEPT ![Name[Source]] = RetryDelay(n)]
        /\ left' = Tail(left) /\ UNCHANGED <<height, file, cursor>>
    BY DEF SourceFails, world
  <1> DEFINE f == Min({n, MaxFailures})
             d == RetryDelay(n)
             name == Name[Source]
  <1>7. f \in 0 .. MaxFailures /\ d \in 0 .. MaxDelay /\ name \in Names
    BY <1>2, <1>4, <1>5
  <1>8. failures' = [failures EXCEPT ![name] = f] /\ delay' = [delay EXCEPT ![name] = d]
    BY <1>6
  <1> HIDE DEF n, f, d, name
  <1>9. faults' \in Nat
    BY DEF FeedTyped
  <1>10. failures' \in [Names -> 0 .. MaxFailures] /\ delay' \in [Names -> 0 .. MaxDelay]
    BY <1>7, <1>8 DEF FeedTyped
  <1>11. QED
    BY <1>1, <1>6, <1>9, <1>10 DEF FeedTyped

\* Every step keeps the types of the feed.
LEMMA FeedKept ==
  ASSUME Inv, [Next]_vars
  PROVE  FeedTyped'
  <1> USE DEF Inv
  <1>1. CASE Mine \/ UNCHANGED vars
    BY <1>1 DEF Mine, vars, feed, world, FeedTyped
  <1>2. CASE Tick
    <2>1. /\ delay' = [n \in Names |-> IF delay[n] > 0 THEN delay[n] - 1 ELSE 0]
          /\ UNCHANGED <<height, file, cursor, failures, left, faults>>
      BY <1>2 DEF Tick, world
    <2>2. delay' \in [Names -> 0 .. MaxDelay]
      BY <2>1, Limits DEF FeedTyped
    <2>3. QED
      BY <2>1, <2>2 DEF FeedTyped
  <1>3. CASE BeginSync
    <2>1. [s \in DOMAIN Sources |-> s] \in Seq(DOMAIN Sources)
      BY FeatureSyncAssumption
    <2>2. QED
      BY <1>3, <2>1 DEF BeginSync, world, FeedTyped
  <1>4. CASE EndSync \/ BeginBackfill \/ EndBackfill \/ Import \/ Refresh
    BY <1>4 DEF EndSync, BeginBackfill, EndBackfill, Import, Refresh, world, feed, FeedTyped
  <1>5. CASE SkipSource
    BY <1>5 DEF SkipSource, world, FeedTyped
  <1>6. CASE Fetch
    <2>1. CASE CannotFetch(Source)
      BY <1>6, <2>1, SourceFailsTyped DEF Fetch
    <2>2. CASE ~CannotFetch(Source)
      BY <1>6, <2>2 DEF Fetch, world, feed, FeedTyped
    <2>3. QED
      BY <2>1, <2>2
  <1>7. CASE SourceDone
    <2>1. left # <<>>
      BY <1>7 DEF SourceDone, HandInv
    <2>2. Source \in DOMAIN Sources /\ Tail(left) \in Seq(DOMAIN Sources)
      BY <2>1 DEF FeedTyped, Source
    <2>3. QED
      BY <1>7, <2>2, Limits DEF SourceDone, world, FeedTyped, Names
  <1>8. CASE CollectRaises
    <2>1. left # <<>>
      BY <1>8 DEF CollectRaises, HandInv
    <2>2. QED
      BY <1>8, <2>1, SourceFailsTyped DEF CollectRaises
  <1>9. CASE LiveRaises /\ faults' = faults + 1
    BY <1>9, SourceFailsTyped DEF LiveRaises
  <1>10. ASSUME NEW p \in Ingesters, Ingest(p)
         PROVE  FeedTyped'
    <2>1. CASE ~Done(p)
      BY <1>10, <2>1
         DEF Ingest, CollectTrade, CollectQuote, Collect, PublishFact, UpsertFact, Rebuild,
             UpsertWindow, AppendSample, LoadSamples, UpsertCurve, SaveBuyPressure, SaveSlippage,
             SaveSnapshot, PublishLatest, world, feed, FeedTyped
    <2>2. CASE Done(p)
      <3>1. p = "live" => /\ Source \in DOMAIN Sources /\ Record(p) \in Trades
        <4>1. ASSUME p = "live" PROVE left # <<>> /\ queue["live"] # <<>>
          BY <2>2, <4>1 DEF Done, HandInv, WithRecord
        <4>2. ASSUME p = "live" PROVE Record(p) = queue["live"][1] /\ 1 \in DOMAIN queue["live"]
          BY <4>1, <4>2 DEF HandInv, Record, Ingesters
        <4>3. QED
          BY <4>1, <4>2 DEF HandInv, FeedTyped, Source
      <3>2. p = "live" => CursorOf(Record(p)) \in Nat
        BY <3>1, TradePlaces DEF CursorOf
      <3>3. cursor' = IF p = "live" THEN [cursor EXCEPT ![Source] = CursorOf(Record(p))]
                                    ELSE cursor
        BY <2>2 DEF Done
      <3>4. UNCHANGED <<height, file, failures, delay, left, faults>>
        BY <2>2 DEF Done, world
      <3>5. cursor' \in [DOMAIN Sources -> Nat]
        BY <3>1, <3>2, <3>3 DEF FeedTyped
      <3>6. QED
        BY <3>4, <3>5 DEF FeedTyped
    <2>3. QED
      BY <2>1, <2>2
  <1>11. ASSUME NEW p \in Ingesters, IngesterDies(p), faults' \in {faults, faults + 1}
         PROVE  FeedTyped'
    <2>1. left' \in Seq(DOMAIN Sources) /\ faults' \in Nat
      <3>1. left' \in {<<>>, left} /\ left \in Seq(DOMAIN Sources)
        BY <1>11 DEF IngesterDies, FeedTyped
      <3>2. faults' \in Nat
        BY <1>11 DEF FeedTyped
      <3>3. <<>> \in Seq(DOMAIN Sources)
        BY EmptySeq, Zenon
      <3>4. QED
        BY <3>1, <3>2, <3>3, Zenon
    <2>2. UNCHANGED <<height, file, cursor, failures, delay>>
      BY <1>11 DEF IngesterDies, world
    <2>3. QED
      BY <2>1, <2>2 DEF FeedTyped
  <1>12. ASSUME NEW w \in WalletWorkers,
                Wallet(w) \/ (WorkerRaises(w) /\ faults' = faults + 1)
         PROVE  FeedTyped'
    BY <1>12 DEF Wallet, Resolve, Project, PublishSnapshot, SaveSyncState, WorkerRaises, world,
                 feed, FeedTyped
  <1>13. QED
    BY <1>1, <1>2, <1>3, <1>4, <1>5, <1>6, <1>7, <1>8, <1>9, <1>10, <1>11, <1>12, StepsOneByOne

\* A process moves on with the record it has in hand.
LEMMA OneHandMoves ==
  ASSUME HandInv, NEW p \in Ingesters, NEW to \in Steps, NEW set \in SUBSET (facts' \cup samples'),
         pc' = [pc EXCEPT ![p] = to], loaded' = [loaded EXCEPT ![p] = set],
         UNCHANGED <<queue, left>>, facts \subseteq facts', samples \subseteq samples',
         queue[p] # <<>>, p = "live" => left # <<>>, to \notin {"idle", "source"},
         to \in WithTrade => ~IsQuote(Record(p)),
         to \in WithQuote => IsQuote(Record(p)),
         to \in {"window", "snapshot"} /\ ~IsQuote(Record(p)) => set \subseteq facts',
         to \in {"curve", "snapshot"} /\ IsQuote(Record(p)) => set \subseteq samples'
  PROVE  HandInv'
  <1>1. Source' = Source /\ \A q \in Ingesters : Record(q)' = Record(q) /\ queue'[q] = queue[q]
    BY DEF Source, Record
  <1>2. \A r : IsQuote(r)' = IsQuote(r)
    BY DEF IsQuote
  <1>3. pc' \in [Ingesters -> Steps] /\ queue' \in [Ingesters -> Seq(Records)]
    BY DEF HandInv
  <1>4. loaded' \in [Ingesters -> SUBSET (facts' \cup samples')]
    BY DEF HandInv
  <1>5. /\ "live" \in Ingesters /\ "backfill" \in Ingesters
        /\ pc'["backfill"] # "source"
        /\ pc'["live"] \notin {"idle", "source"} => left' # <<>>
    BY DEF HandInv, Ingesters
  <1>6. \A i \in DOMAIN queue'["live"] :
          queue'["live"][i] \in Trades /\ queue'["live"][i].source = Source'
    BY <1>1, <1>5 DEF HandInv
  <1>7. ASSUME NEW q \in Ingesters
        PROVE  /\ pc'[q] \in WithRecord => queue'[q] # <<>>
               /\ pc'[q] \in {"idle", "source"} => queue'[q] = <<>>
               /\ pc'[q] \in WithTrade => ~IsQuote(Record(q))
               /\ pc'[q] \in WithQuote => IsQuote(Record(q))
               /\ pc'[q] \in {"window", "snapshot"} /\ ~IsQuote(Record(q))
                    => loaded'[q] \subseteq facts'
               /\ pc'[q] \in {"curve", "snapshot"} /\ IsQuote(Record(q))
                    => loaded'[q] \subseteq samples'
    <2>1. CASE q = p
      <3>1. pc'[q] = to /\ loaded'[q] = set /\ queue'[q] = queue[p] /\ q = p
        BY <2>1 DEF HandInv
      <3>2. QED
        BY <3>1
    <2>2. CASE q # p
      <3>1. pc'[q] = pc[q] /\ loaded'[q] = loaded[q] /\ queue'[q] = queue[q]
        BY <2>2 DEF HandInv
      <3>2. /\ pc[q] \in WithRecord => queue[q] # <<>>
            /\ pc[q] \in {"idle", "source"} => queue[q] = <<>>
            /\ pc[q] \in WithTrade => ~IsQuote(Record(q))
            /\ pc[q] \in WithQuote => IsQuote(Record(q))
            /\ pc[q] \in {"window", "snapshot"} /\ ~IsQuote(Record(q)) => loaded[q] \subseteq facts
            /\ pc[q] \in {"curve", "snapshot"} /\ IsQuote(Record(q)) => loaded[q] \subseteq samples
        BY DEF HandInv
      <3>3. QED
        BY <3>1, <3>2
    <2>3. QED
      BY <2>1, <2>2
  <1>8. QED
    BY <1>1, <1>2, <1>3, <1>4, <1>5, <1>6, <1>7 DEF HandInv

\* A process comes to a list of records, an empty one when it ends or fails.
LEMMA OneHandFills ==
  ASSUME HandInv, NEW p \in Ingesters, NEW to \in {"idle", "source", "record"},
         NEW list \in Seq(Records),
         pc' = [pc EXCEPT ![p] = to], queue' = [queue EXCEPT ![p] = list],
         loaded' = loaded \/ loaded' = [loaded EXCEPT ![p] = {}],
         UNCHANGED <<facts, samples>>,
         p = "backfill" => left' = left /\ to # "source",
         to # "record" => list = <<>>,
         p = "live" => /\ to = "record" => left' # <<>>
                       /\ \A i \in DOMAIN list : list[i] \in Trades /\ list[i].source = Source'
  PROVE  HandInv'
  <1>1. /\ "live" \in Ingesters /\ "backfill" \in Ingesters
        /\ p \in {"live", "backfill"}
        /\ to \in Steps /\ to \notin WithRecord \cup WithTrade \cup WithQuote
        /\ to \notin {"window", "snapshot", "curve"}
    BY DEF HandInv, Ingesters, Steps, WithRecord, WithTrade, WithQuote
  <1>2. \A r : IsQuote(r)' = IsQuote(r)
    BY DEF IsQuote
  <1>3. pc' \in [Ingesters -> Steps] /\ queue' \in [Ingesters -> Seq(Records)]
    BY <1>1 DEF HandInv
  <1>4. loaded' \in [Ingesters -> SUBSET (facts' \cup samples')]
    <2>1. loaded \in [Ingesters -> SUBSET (facts \cup samples)] /\ facts' = facts
          /\ samples' = samples
      BY DEF HandInv
    <2>2. QED
      BY <2>1
  <1>5. /\ pc'["backfill"] # "source"
        /\ pc'["live"] \notin {"idle", "source"} => left' # <<>>
    BY <1>1 DEF HandInv
  <1>6. \A i \in DOMAIN queue'["live"] :
          queue'["live"][i] \in Trades /\ queue'["live"][i].source = Source'
    <2>1. CASE p = "live"
      <3>1. queue'["live"] = list
        BY <1>1, <2>1 DEF HandInv
      <3>2. QED
        BY <2>1, <3>1
    <2>2. CASE p = "backfill"
      <3>1. queue'["live"] = queue["live"] /\ Source' = Source
        BY <1>1, <2>2 DEF HandInv, Source
      <3>2. QED
        BY <3>1 DEF HandInv
    <2>3. QED
      BY <1>1, <2>1, <2>2
  <1>7. ASSUME NEW q \in Ingesters
        PROVE  /\ pc'[q] \in WithRecord => queue'[q] # <<>>
               /\ pc'[q] \in {"idle", "source"} => queue'[q] = <<>>
               /\ pc'[q] \in WithTrade => ~IsQuote(Record(q)')
               /\ pc'[q] \in WithQuote => IsQuote(Record(q)')
               /\ pc'[q] \in {"window", "snapshot"} /\ ~IsQuote(Record(q)')
                    => loaded'[q] \subseteq facts'
               /\ pc'[q] \in {"curve", "snapshot"} /\ IsQuote(Record(q)')
                    => loaded'[q] \subseteq samples'
    <2>1. CASE q = p
      <3>1. pc'[q] = to /\ queue'[q] = list
        BY <2>1 DEF HandInv
      <3>2. QED
        BY <1>1, <3>1
    <2>2. CASE q # p
      <3>1. pc'[q] = pc[q] /\ loaded'[q] = loaded[q] /\ queue'[q] = queue[q]
        BY <2>2 DEF HandInv
      <3>2. Record(q)' = Record(q)
        BY <3>1 DEF Record
      <3>3. /\ pc[q] \in WithRecord => queue[q] # <<>>
            /\ pc[q] \in {"idle", "source"} => queue[q] = <<>>
            /\ pc[q] \in WithTrade => ~IsQuote(Record(q))
            /\ pc[q] \in WithQuote => IsQuote(Record(q))
            /\ pc[q] \in {"window", "snapshot"} /\ ~IsQuote(Record(q)) => loaded[q] \subseteq facts
            /\ pc[q] \in {"curve", "snapshot"} /\ IsQuote(Record(q)) => loaded[q] \subseteq samples
        BY DEF HandInv
      <3>4. QED
        BY <3>1, <3>2, <3>3
    <2>3. QED
      BY <2>1, <2>2
  <1>8. QED
    BY <1>2, <1>3, <1>4, <1>5, <1>6, <1>7 DEF HandInv

\* The record in hand.
LEMMA HandTyped ==
  ASSUME HandInv, NEW p \in Ingesters, queue[p] # <<>>
  PROVE  /\ Record(p) \in Records
         /\ Record(p) \notin Unclear => IF IsQuote(Record(p)) THEN Record(p) \in Quotes
                                                             ELSE Record(p) \in Trades
         /\ p = "live" => Record(p) \in Trades /\ Record(p).source = Source
         /\ Tail(queue[p]) \in Seq(Records)
         /\ p = "live" =>
              \A i \in DOMAIN Tail(queue["live"]) : /\ Tail(queue["live"])[i] \in Trades
                                                    /\ Tail(queue["live"])[i].source = Source
  <1>1. queue[p] \in Seq(Records) /\ Len(queue[p]) \in Nat /\ Len(queue[p]) > 0
    BY DEF HandInv
  <1>2. Record(p) = queue[p][1] /\ 1 \in DOMAIN queue[p] /\ Tail(queue[p]) \in Seq(Records)
    BY <1>1 DEF Record
  <1>3. Record(p) \in Records
    BY <1>1, <1>2
  <1>4. Record(p) \notin Unclear => IF IsQuote(Record(p)) THEN Record(p) \in Quotes
                                                         ELSE Record(p) \in Trades
    <2>1. \A q \in Quotes : IsQuote(q)
      BY DEF Quotes, Quote, IsQuote
    <2>2. QED
      BY <1>3, <2>1, TradesAreTrades DEF Records
  <1>5. p = "live" => Record(p) \in Trades /\ Record(p).source = Source
    BY <1>2 DEF HandInv
  <1>6. ASSUME p = "live", NEW i \in DOMAIN Tail(queue["live"])
        PROVE  /\ Tail(queue["live"])[i] \in Trades
               /\ Tail(queue["live"])[i].source = Source
    <2>1. Tail(queue["live"])[i] = queue["live"][i + 1] /\ i + 1 \in DOMAIN queue["live"]
      BY <1>1, <1>6
    <2>2. QED
      BY <2>1 DEF HandInv
  <1>7. QED
    BY <1>2, <1>3, <1>4, <1>5, <1>6

\* Every step of an ingestion keeps what is known of the hands.
LEMMA IngestHand ==
  ASSUME Inv, NEW p \in Ingesters, Ingest(p)
  PROVE  HandInv'
  <1> DEFINE set == loaded[p]
  <1>1. HandInv /\ (pc[p] \in WithRecord => queue[p] # <<>>)
    BY DEF Inv, HandInv
  <1>2. /\ HandInv /\ set \in SUBSET (facts \cup samples) /\ loaded = [loaded EXCEPT ![p] = set]
        /\ p = "live" /\ pc[p] \notin {"idle", "source"} => left # <<>>
    BY DEF Inv, HandInv
  <1> HIDE DEF set
  <1>3. CASE CollectTrade(p) \/ CollectQuote(p)
    <2>1. PICK to \in {"fact", "done", "sample"} :
            /\ pc' = [pc EXCEPT ![p] = to] /\ pc[p] = "record" /\ queue[p] # <<>>
            /\ to = "fact" => ~IsQuote(Record(p))
            /\ to = "sample" => IsQuote(Record(p))
            /\ UNCHANGED <<queue, left, facts, samples, loaded>>
      BY <1>3 DEF CollectTrade, CollectQuote, Collect, Goto, feed, trades, quotes
    <2>2. /\ to \in Steps /\ to \notin {"idle", "source"}
          /\ to \in WithTrade => to = "fact"
          /\ to \in WithQuote => to = "sample"
          /\ to \notin {"window", "snapshot", "curve"}
      BY <2>1 DEF Steps, WithTrade, WithQuote
    <2>3. QED
      BY <1>2, <2>1, <2>2, OneHandMoves
  <1>4. CASE PublishFact(p) \/ UpsertFact(p)
    <2>1. PICK to \in {"upsert", "rebuild"} :
            /\ pc' = [pc EXCEPT ![p] = to] /\ pc[p] \in {"fact", "upsert"}
            /\ UNCHANGED <<queue, left, samples, loaded>> /\ facts \subseteq facts'
      BY <1>4 DEF PublishFact, UpsertFact, Goto, feed, trades, quotes, tables
    <2>2. /\ to \in Steps /\ to \notin {"idle", "source"} /\ to \notin WithQuote
          /\ to \notin {"window", "snapshot", "curve"}
          /\ pc[p] \in WithTrade \cap WithRecord
      BY <2>1 DEF Steps, WithRecord, WithTrade, WithQuote
    <2>3. queue[p] # <<>> /\ ~IsQuote(Record(p))
      BY <1>1, <2>2 DEF Inv, HandInv
    <2>4. set \in SUBSET (facts' \cup samples') /\ loaded' = [loaded EXCEPT ![p] = set]
      BY <1>2, <2>1
    <2>5. QED
      BY <1>2, <2>1, <2>2, <2>3, <2>4, OneHandMoves
  <1>5. CASE Rebuild(p) \/ UpsertWindow(p)
    <2>1. PICK to \in {"window", "snapshot"}, new \in SUBSET facts :
            /\ pc' = [pc EXCEPT ![p] = to] /\ pc[p] \in {"rebuild", "window"}
            /\ loaded' = [loaded EXCEPT ![p] = new]
            /\ UNCHANGED <<queue, left, facts, samples>>
      <3>1. CASE Rebuild(p)
        BY <3>1 DEF Rebuild, FactsOf, InWindow, Goto, feed, trades, quotes, tables
      <3>2. CASE UpsertWindow(p)
        <4>1. pc[p] = "window" /\ ~IsQuote(Record(p))
          BY <3>2 DEF UpsertWindow, Inv, HandInv, WithTrade
        <4>2. set \in SUBSET facts
          BY <4>1 DEF Inv, HandInv, set
        <4>3. QED
          BY <1>2, <3>2, <4>2 DEF UpsertWindow, Goto, feed, quotes
      <3>3. QED
        BY <1>5, <3>1, <3>2
    <2>2. /\ to \in Steps /\ to \notin {"idle", "source"} /\ to \notin WithQuote
          /\ pc[p] \in WithTrade \cap WithRecord
      BY <2>1 DEF Steps, WithRecord, WithTrade, WithQuote
    <2>3. queue[p] # <<>> /\ ~IsQuote(Record(p))
      BY <1>1, <2>2 DEF Inv, HandInv
    <2>4. new \in SUBSET (facts' \cup samples') /\ new \subseteq facts'
      BY <2>1
    <2>5. QED
      BY <1>2, <2>1, <2>2, <2>3, <2>4, OneHandMoves
  <1>6. CASE AppendSample(p)
    <2>1. /\ pc' = [pc EXCEPT ![p] = "load"] /\ pc[p] = "sample"
          /\ UNCHANGED <<queue, left, facts, loaded>> /\ samples \subseteq samples'
      BY <1>6 DEF AppendSample, Goto, feed, trades
    <2>2. /\ "load" \in Steps /\ "load" \notin WithTrade
          /\ pc[p] \in WithQuote \cap WithRecord
      BY <2>1 DEF Steps, WithRecord, WithTrade, WithQuote
    <2>3. queue[p] # <<>> /\ IsQuote(Record(p))
      BY <1>1, <2>2 DEF Inv, HandInv
    <2>4. set \in SUBSET (facts' \cup samples') /\ loaded' = [loaded EXCEPT ![p] = set]
      BY <1>2, <2>1
    <2>5. QED
      BY <1>2, <2>1, <2>2, <2>3, <2>4, OneHandMoves
  <1>7. CASE LoadSamples(p) \/ UpsertCurve(p)
    <2>1. PICK to \in {"curve", "snapshot"}, new \in SUBSET samples :
            /\ pc' = [pc EXCEPT ![p] = to] /\ pc[p] \in {"load", "curve"}
            /\ loaded' = [loaded EXCEPT ![p] = new]
            /\ UNCHANGED <<queue, left, facts, samples>>
      <3>1. CASE LoadSamples(p)
        BY <3>1 DEF LoadSamples, Goto, feed, trades, quotes, tables
      <3>2. CASE UpsertCurve(p)
        <4>1. pc[p] = "curve" /\ IsQuote(Record(p))
          BY <3>2 DEF UpsertCurve, Inv, HandInv, WithQuote
        <4>2. set \in SUBSET samples
          BY <4>1 DEF Inv, HandInv, set
        <4>3. QED
          BY <1>2, <3>2, <4>2 DEF UpsertCurve, Goto, feed, trades
      <3>3. QED
        BY <1>7, <3>1, <3>2
    <2>2. /\ to \in Steps /\ to \notin {"idle", "source"} /\ to \notin WithTrade
          /\ pc[p] \in WithQuote \cap WithRecord
      BY <2>1 DEF Steps, WithRecord, WithTrade, WithQuote
    <2>3. queue[p] # <<>> /\ IsQuote(Record(p))
      BY <1>1, <2>2 DEF Inv, HandInv
    <2>4. new \in SUBSET (facts' \cup samples') /\ new \subseteq samples'
      BY <2>1
    <2>5. QED
      BY <1>2, <2>1, <2>2, <2>3, <2>4, OneHandMoves
  <1>8. CASE SaveBuyPressure(p) \/ SaveSlippage(p) \/ PublishLatest(p)
    <2>1. PICK to \in {"rebuild", "latest", "done"}, new \in SUBSET (facts \cup samples) :
            /\ pc' = [pc EXCEPT ![p] = to] /\ pc[p] \in {"snapshot", "latest"}
            /\ loaded' = [loaded EXCEPT ![p] = new]
            /\ UNCHANGED <<queue, left, facts, samples>>
            /\ to = "rebuild" => ~IsQuote(Record(p))
      <3>1. CASE SaveBuyPressure(p)
        <4>1. PICK to \in {"rebuild", "latest"} : SaveSnapshot(p, to)
          BY <3>1 DEF SaveBuyPressure
        <4>2. pc[p] = "snapshot" /\ ~IsQuote(Record(p))
          BY <3>1 DEF SaveBuyPressure
        <4>3. QED
          BY <4>1, <4>2 DEF SaveSnapshot, Goto, feed, trades, quotes
      <3>2. CASE SaveSlippage(p)
        BY <3>2 DEF SaveSlippage, SaveSnapshot, Goto, feed, trades, quotes
      <3>3. CASE PublishLatest(p)
        BY <1>2, <3>3 DEF PublishLatest, Goto, feed, trades, quotes, tables
      <3>4. QED
        BY <1>8, <3>1, <3>2, <3>3
    <2>2. /\ to \in Steps /\ to \notin {"idle", "source"} /\ to \notin WithQuote
          /\ to \in WithTrade => to = "rebuild"
          /\ to \notin {"window", "snapshot", "curve"} /\ pc[p] \in WithRecord
      BY <2>1 DEF Steps, WithRecord, WithTrade, WithQuote
    <2>3. queue[p] # <<>>
      BY <1>1, <2>2
    <2>4. new \in SUBSET (facts' \cup samples')
      BY <2>1
    <2>5. QED
      BY <1>2, <2>1, <2>2, <2>3, <2>4, OneHandMoves
  <1>9. CASE Done(p)
    <2> DEFINE list == Tail(queue[p])
    <2>1. /\ pc' = [pc EXCEPT ![p] = "record"] /\ pc[p] = "done"
          /\ queue' = [queue EXCEPT ![p] = list]
          /\ UNCHANGED <<left, facts, samples, loaded>>
      BY <1>9 DEF Done, Goto, trades, quotes, tables
    <2>2. queue[p] # <<>>
      BY <1>1, <2>1 DEF WithRecord
    <2>3. /\ list \in Seq(Records)
          /\ p = "live" =>
               /\ left' # <<>>
               /\ \A i \in DOMAIN list : list[i] \in Trades /\ list[i].source = Source'
      BY <1>2, <2>1, <2>2, HandTyped DEF Source
    <2> HIDE DEF list
    <2>4. QED
      BY <1>2, <2>1, <2>3, OneHandFills
  <1>10. QED
    BY <1>3, <1>4, <1>5, <1>6, <1>7, <1>8, <1>9 DEF Ingest

\* What the live worker fetches is of the source it polls.
LEMMA FetchedTyped ==
  ASSUME NEW s \in DOMAIN Sources
  PROVE  /\ Fetched(s) \in Seq(Records)
         /\ \A i \in DOMAIN Fetched(s) : Fetched(s)[i] \in OnChain(s)
         /\ \A t \in OnChain(s) : t \in Trades /\ t.source = s
  <1>1. PICK S \in SUBSET OnChain(s) : Fetched(s) \in Seq(S)
    BY FetchedIsList
  <1>2. \A t \in OnChain(s) : t \in Trades /\ t.source = s
    BY DEF OnChain
  <1>3. S \subseteq Records
    BY <1>2, TradesAreTrades
  <1>4. QED
    BY <1>1, <1>2, <1>3

\* A failure of a source empties the hand of the live worker.
LEMMA SourceFailsHand ==
  ASSUME HandInv, SourceFails
  PROVE  HandInv'
  <1>1. "live" \in Ingesters /\ <<>> \in Seq(Records)
    BY DEF Ingesters
  <1>2. /\ pc' = [pc EXCEPT !["live"] = "source"] /\ queue' = [queue EXCEPT !["live"] = <<>>]
        /\ UNCHANGED <<facts, samples, loaded>>
    BY DEF SourceFails, tables, trades, quotes
  <1> DEFINE list == <<>>
  <1>3. list \in Seq(Records) /\ list = <<>> /\ DOMAIN list = {}
    BY <1>1
  <1>4. queue' = [queue EXCEPT !["live"] = list]
    BY <1>2
  <1> HIDE DEF list
  <1>5. \A i \in DOMAIN list : list[i] \in Trades /\ list[i].source = Source'
    BY <1>3
  <1>6. QED
    BY <1>1, <1>2, <1>3, <1>4, <1>5, OneHandFills

\* The death of a process empties its hand.
LEMMA DiesHand ==
  ASSUME HandInv, NEW p \in Ingesters, IngesterDies(p)
  PROVE  HandInv'
  <1> DEFINE list == <<>>
  <1>1. list \in Seq(Records) /\ list = <<>> /\ DOMAIN list = {}
    OBVIOUS
  <1>2. /\ pc' = [pc EXCEPT ![p] = "idle"] /\ queue' = [queue EXCEPT ![p] = list]
        /\ UNCHANGED <<facts, samples>> /\ loaded' = [loaded EXCEPT ![p] = {}]
        /\ p = "backfill" => left' = left
    BY DEF IngesterDies, Goto, tables, trades, quotes
  <1> HIDE DEF list
  <1>3. \A i \in DOMAIN list : list[i] \in Trades /\ list[i].source = Source'
    BY <1>1
  <1>4. QED
    BY <1>1, <1>2, <1>3, OneHandFills

\* The steps of the wallet workers, of the chain and of the clock leave the hands alone.
LEMMA OthersLeaveHands ==
  ASSUME \/ Mine \/ Tick \/ Import \/ Refresh \/ UNCHANGED vars
         \/ \E w \in WalletWorkers : Wallet(w) \/ WorkerRaises(w)
  PROVE  UNCHANGED <<cursor, left, tables, ingest>>
  <1>1. CASE Mine \/ Tick \/ Import \/ Refresh \/ UNCHANGED vars
    BY <1>1 DEF Mine, Tick, Import, Refresh, vars, feed
  <1>2. ASSUME NEW w \in WalletWorkers, Wallet(w) \/ WorkerRaises(w)
        PROVE  UNCHANGED <<cursor, left, tables, ingest>>
    BY <1>2 DEF Wallet, Resolve, Project, PublishSnapshot, SaveSyncState, WorkerRaises, feed
  <1>3. QED
    BY <1>1, <1>2

\* Every step keeps what is known of the hands.
LEMMA HandKept ==
  ASSUME Inv, [Next]_vars
  PROVE  HandInv'
  <1> DEFINE list == <<>>
  <1>1. list \in Seq(Records) /\ list = <<>> /\ DOMAIN list = {}
    OBVIOUS
  <1>2. "live" \in Ingesters /\ "backfill" \in Ingesters
    BY DEF Ingesters
  <1>3. HandInv /\ queue \in [Ingesters -> Seq(Records)]
    BY DEF Inv, HandInv
  <1>4. HandInv /\ (pc["live"] = "idle" => queue["live"] = list)
    BY <1>1, <1>2 DEF Inv, HandInv
  <1> HIDE DEF list
  <1>5. \A s : \A i \in DOMAIN list : list[i] \in Trades /\ list[i].source = s
    BY <1>1
  <1>6. CASE \/ Mine \/ Tick \/ Import \/ Refresh \/ UNCHANGED vars
             \/ \E w \in WalletWorkers : Wallet(w) \/ WorkerRaises(w)
    <2>1. UNCHANGED <<left, facts, samples, pc, queue, loaded>>
      BY <1>6, OthersLeaveHands DEF tables, trades, quotes, ingest
    <2>2. QED
      BY <1>3, <2>1 DEF HandInv, Record, IsQuote, Source
  <1>7. CASE BeginSync
    <2>1. /\ pc' = [pc EXCEPT !["live"] = "source"] /\ queue' = queue /\ loaded' = loaded
          /\ UNCHANGED <<facts, samples>> /\ pc["live"] = "idle"
      BY <1>7 DEF BeginSync, tables, trades, quotes
    <2>2. queue' = [queue EXCEPT !["live"] = list]
      BY <1>2, <1>3, <1>4, <2>1
    <2>3. QED
      BY <1>1, <1>2, <1>3, <1>5, <2>1, <2>2, OneHandFills
  <1>8. CASE EndSync \/ SkipSource
    <2>1. PICK to \in {"idle", "source"} :
            /\ pc' = [pc EXCEPT !["live"] = to] /\ queue' = queue /\ loaded' = loaded
            /\ UNCHANGED <<facts, samples>> /\ pc["live"] = "source"
      <3>1. pc = [pc EXCEPT !["live"] = pc["live"]]
        BY <1>2, <1>3 DEF HandInv
      <3>2. QED
        BY <1>8, <3>1 DEF EndSync, SkipSource, tables, trades, quotes, ingest
    <2>2. queue["live"] = list
      BY <1>1, <1>2, <1>3, <2>1 DEF HandInv
    <2>3. queue' = [queue EXCEPT !["live"] = list]
      BY <1>2, <1>3, <2>1, <2>2
    <2>4. QED
      BY <1>1, <1>2, <1>3, <1>5, <2>1, <2>3, OneHandFills
  <1>9. CASE Fetch
    <2>1. CASE CannotFetch(Source)
      BY <1>3, <1>9, <2>1, SourceFailsHand DEF Fetch
    <2>2. CASE ~CannotFetch(Source)
      <3> DEFINE new == Fetched(Source)
      <3>1. Source \in DOMAIN Sources /\ left # <<>>
        BY <1>9 DEF Fetch, Inv, FeedTyped, Source
      <3>2. /\ pc' = [pc EXCEPT !["live"] = "record"] /\ queue' = [queue EXCEPT !["live"] = new]
            /\ UNCHANGED <<left, facts, samples, loaded>>
        BY <1>9, <2>2 DEF Fetch, feed, tables, trades, quotes
      <3>3. /\ new \in Seq(Records)
            /\ \A i \in DOMAIN new : new[i] \in Trades /\ new[i].source = Source
        BY <3>1, FetchedTyped
      <3>4. Source' = Source
        BY <3>2 DEF Source
      <3> HIDE DEF new
      <3>5. QED
        BY <1>2, <1>3, <3>1, <3>2, <3>3, <3>4, OneHandFills
    <2>3. QED
      BY <2>1, <2>2
  <1>10. CASE SourceDone
    <2>1. /\ pc' = [pc EXCEPT !["live"] = "source"] /\ queue' = queue /\ loaded' = loaded
          /\ UNCHANGED <<facts, samples>> /\ queue["live"] = list
      BY <1>1, <1>10 DEF SourceDone, tables, trades, quotes
    <2>2. queue' = [queue EXCEPT !["live"] = list]
      BY <1>2, <1>3, <2>1
    <2>3. QED
      BY <1>1, <1>2, <1>3, <1>5, <2>1, <2>2, OneHandFills
  <1>11. CASE CollectRaises \/ LiveRaises
    BY <1>3, <1>11, SourceFailsHand DEF CollectRaises, LiveRaises
  <1>12. CASE BeginBackfill
    <2>1. /\ pc' = [pc EXCEPT !["backfill"] = "record"]
          /\ queue' = [queue EXCEPT !["backfill"] = file] /\ loaded' = loaded
          /\ UNCHANGED <<left, facts, samples>>
      BY <1>12 DEF BeginBackfill, Goto, feed, tables, trades, quotes
    <2>2. file \in Seq(Records)
      BY DEF Inv, FeedTyped
    <2>3. QED
      BY <1>2, <1>3, <2>1, <2>2, OneHandFills
  <1>13. CASE EndBackfill
    <2>1. /\ pc' = [pc EXCEPT !["backfill"] = "idle"] /\ queue' = queue /\ loaded' = loaded
          /\ UNCHANGED <<left, facts, samples>> /\ queue["backfill"] = list
      BY <1>1, <1>13 DEF EndBackfill, Goto, feed, tables, trades, quotes
    <2>2. queue' = [queue EXCEPT !["backfill"] = list]
      BY <1>2, <1>3, <2>1
    <2>3. QED
      BY <1>1, <1>2, <1>3, <2>1, <2>2, OneHandFills
  <1>14. ASSUME NEW p \in Ingesters, Ingest(p) \/ IngesterDies(p)
         PROVE  HandInv'
    BY <1>3, <1>14, IngestHand, DiesHand
  <1>15. QED
    BY <1>6, <1>7, <1>8, <1>9, <1>10, <1>11, <1>12, <1>13, <1>14, StepsOneByOne

\* The steps that write no table.
LEMMA TablesLeft ==
  ASSUME [Next]_vars,
         \A p \in Ingesters : ~ \/ CollectTrade(p) \/ CollectQuote(p) \/ UpsertFact(p)
                                \/ UpsertWindow(p) \/ AppendSample(p) \/ UpsertCurve(p)
                                \/ SaveBuyPressure(p) \/ SaveSlippage(p)
  PROVE  UNCHANGED tables
  <1>1. CASE \/ Mine \/ Tick \/ Import \/ Refresh \/ UNCHANGED vars
             \/ \E w \in WalletWorkers : Wallet(w) \/ WorkerRaises(w)
    BY <1>1, OthersLeaveHands
  <1>2. CASE BeginSync \/ EndSync \/ SkipSource \/ SourceDone \/ BeginBackfill \/ EndBackfill
    BY <1>2 DEF BeginSync, EndSync, SkipSource, SourceDone, BeginBackfill, EndBackfill
  <1>3. CASE Fetch \/ CollectRaises \/ LiveRaises
    BY <1>3 DEF Fetch, CollectRaises, LiveRaises, SourceFails
  <1>4. ASSUME NEW p \in Ingesters, IngesterDies(p)
        PROVE  UNCHANGED tables
    BY <1>4 DEF IngesterDies
  <1>5. ASSUME NEW p \in Ingesters, Ingest(p)
        PROVE  UNCHANGED tables
    <2>1. PublishFact(p) \/ Rebuild(p) \/ LoadSamples(p) \/ PublishLatest(p) \/ Done(p)
      BY <1>5 DEF Ingest
    <2>2. QED
      BY <2>1 DEF PublishFact, Rebuild, LoadSamples, PublishLatest, Done
  <1>6. QED
    BY <1>1, <1>2, <1>3, <1>4, <1>5, StepsOneByOne

\* Every step keeps the types of the tables.
LEMMA TablesKept ==
  ASSUME Inv, [Next]_vars
  PROVE  TablesTyped'
  <1>1. TablesTyped /\ HandInv /\ FeedTyped
    BY DEF Inv
  <1>2. ASSUME NEW p \in Ingesters, CollectTrade(p) \/ CollectQuote(p)
        PROVE  TablesTyped'
    <2>1. /\ raw' = raw \cup {Row(p, Record(p))} /\ queue[p] # <<>>
          /\ UNCHANGED <<facts, samples, windows, curves, pressures, slippages>>
      BY <1>2 DEF CollectTrade, CollectQuote, Collect, trades, quotes, snapshots
    <2>2. Record(p) \in Records /\ (p = "live" => Record(p) \in Trades)
      BY <1>1, <2>1, HandTyped
    <2>3. p = "live" => Name[Record(p).source] \in Names
      BY <2>2, FeatureSyncAssumption DEF Names
    <2>4. Row(p, Record(p)) \in (Names \cup {"backfill"}) \X Records
      BY <2>2, <2>3 DEF Row
    <2>5. raw' \subseteq (Names \cup {"backfill"}) \X Records
      BY <1>1, <2>1, <2>4 DEF TablesTyped
    <2>6. QED
      BY <1>1, <2>1, <2>5 DEF TablesTyped
  <1>3. ASSUME NEW p \in Ingesters, UpsertFact(p)
        PROVE  TablesTyped'
    <2>1. /\ facts' = facts \cup {Record(p)} /\ Record(p) \notin Unclear /\ pc[p] = "upsert"
          /\ UNCHANGED <<raw, samples, windows, curves, pressures, slippages>>
      BY <1>3 DEF UpsertFact, quotes, snapshots
    <2>2. queue[p] # <<>> /\ ~IsQuote(Record(p))
      BY <1>1, <2>1 DEF HandInv, WithRecord, WithTrade
    <2>3. Record(p) \in Trades
      BY <1>1, <2>1, <2>2, HandTyped
    <2>4. QED
      BY <1>1, <2>1, <2>3 DEF TablesTyped
  <1>4. ASSUME NEW p \in Ingesters, UpsertWindow(p)
        PROVE  TablesTyped'
    <2> DEFINE b == Record(p).block
               i == nth[p]
    <2>1. /\ windows' = [windows EXCEPT ![i][b] = loaded[p]] /\ pc[p] = "window"
          /\ UNCHANGED <<raw, facts, samples, curves, pressures, slippages>>
      BY <1>4 DEF UpsertWindow, quotes, snapshots
    <2>2. loaded[p] \subseteq facts
      BY <1>1, <2>1 DEF HandInv, WithTrade
    <2> HIDE DEF b, i
    <2>3. windows' \in [DOMAIN Spans -> [1 .. MaxHeight -> SUBSET facts]]
      BY <1>1, <2>1, <2>2 DEF TablesTyped
    <2>4. QED
      BY <1>1, <2>1, <2>3 DEF TablesTyped
  <1>5. ASSUME NEW p \in Ingesters, AppendSample(p)
        PROVE  TablesTyped'
    <2>1. /\ samples' = samples \cup {Record(p)} /\ Record(p) \notin Unclear /\ pc[p] = "sample"
          /\ UNCHANGED <<raw, facts, windows, curves, pressures, slippages>>
      BY <1>5 DEF AppendSample, trades, snapshots
    <2>2. queue[p] # <<>> /\ IsQuote(Record(p))
      BY <1>1, <2>1 DEF HandInv, WithRecord, WithQuote
    <2>3. Record(p) \in Quotes
      BY <1>1, <2>1, <2>2, HandTyped
    <2>4. QED
      BY <1>1, <2>1, <2>3 DEF TablesTyped
  <1>6. ASSUME NEW p \in Ingesters, UpsertCurve(p)
        PROVE  TablesTyped'
    <2> DEFINE b == LastBlock(loaded[p])
    <2>1. /\ curves' = [curves EXCEPT ![b] = loaded[p]] /\ pc[p] = "curve"
          /\ UNCHANGED <<raw, facts, samples, windows, pressures, slippages>>
      BY <1>6 DEF UpsertCurve, trades, snapshots
    <2>2. loaded[p] \subseteq samples
      BY <1>1, <2>1 DEF HandInv, WithQuote
    <2> HIDE DEF b
    <2>3. QED
      BY <1>1, <2>1, <2>2 DEF TablesTyped
  <1>7. ASSUME NEW p \in Ingesters, SaveBuyPressure(p)
        PROVE  TablesTyped'
    <2> DEFINE b == Record(p).block
               i == nth[p]
    <2>1. /\ pressures' = [pressures EXCEPT ![i][b] = loaded[p]] /\ pc[p] = "snapshot"
          /\ UNCHANGED <<raw, facts, samples, windows, curves, slippages>>
      BY <1>7 DEF SaveBuyPressure, SaveSnapshot, trades, quotes
    <2>2. loaded[p] \subseteq facts
      BY <1>1, <1>7 DEF SaveBuyPressure, HandInv
    <2> HIDE DEF b, i
    <2>3. pressures' \in [DOMAIN Spans -> [1 .. MaxHeight -> SUBSET facts]]
      BY <1>1, <2>1, <2>2 DEF TablesTyped
    <2>4. QED
      BY <1>1, <2>1, <2>3 DEF TablesTyped
  <1>8. ASSUME NEW p \in Ingesters, SaveSlippage(p)
        PROVE  TablesTyped'
    <2> DEFINE b == LastBlock(loaded[p])
    <2>1. /\ slippages' = [slippages EXCEPT ![b] = loaded[p]] /\ pc[p] = "snapshot"
          /\ UNCHANGED <<raw, facts, samples, windows, curves, pressures>>
      BY <1>8 DEF SaveSlippage, SaveSnapshot, trades, quotes
    <2>2. loaded[p] \subseteq samples
      BY <1>1, <1>8 DEF SaveSlippage, HandInv
    <2> HIDE DEF b
    <2>3. QED
      BY <1>1, <2>1, <2>2 DEF TablesTyped
  <1>9. CASE UNCHANGED tables
    BY <1>1, <1>9 DEF tables, trades, quotes, snapshots, TablesTyped
  <1>10. QED
    BY <1>2, <1>3, <1>4, <1>5, <1>6, <1>7, <1>8, <1>9, TablesLeft

\* Every step leaves each process at a window there is.
LEMMA NthKept ==
  ASSUME Inv, [Next]_vars
  PROVE  NthTyped'
  <1>1. NthTyped /\ \A p \in Ingesters : nth[p] \in 1 .. Len(Spans)
    BY SpansAre DEF Inv, NthTyped
  <1>2. CASE nth' = nth
    BY <1>1, <1>2 DEF NthTyped
  <1>3. ASSUME NEW p \in Ingesters, UpsertFact(p)
        PROVE  NthTyped'
    BY <1>1, <1>3, SpansAre DEF UpsertFact, NthTyped
  <1>4. ASSUME NEW p \in Ingesters, SaveBuyPressure(p)
        PROVE  NthTyped'
    <2> DEFINE n == nth[p] + 1
    <2>1. nth' = nth \/ (nth[p] < Len(Spans) /\ nth' = [nth EXCEPT ![p] = n])
      BY <1>4 DEF SaveBuyPressure
    <2>2. nth[p] < Len(Spans) => n \in DOMAIN Spans
      BY <1>1, SpansAre
    <2> HIDE DEF n
    <2>3. QED
      BY <1>1, <2>1, <2>2 DEF NthTyped
  <1>5. CASE \/ Mine \/ Tick \/ Import \/ Refresh \/ UNCHANGED vars
             \/ \E w \in WalletWorkers : Wallet(w) \/ WorkerRaises(w)
    BY <1>2, <1>5, OthersLeaveHands DEF ingest
  <1>6. CASE BeginSync \/ EndSync \/ SkipSource \/ SourceDone \/ BeginBackfill \/ EndBackfill
    BY <1>2, <1>6 DEF BeginSync, EndSync, SkipSource, SourceDone, BeginBackfill, EndBackfill,
                      ingest
  <1>7. CASE Fetch \/ CollectRaises \/ LiveRaises
    BY <1>2, <1>7 DEF Fetch, CollectRaises, LiveRaises, SourceFails
  <1>8. ASSUME NEW p \in Ingesters, IngesterDies(p)
        PROVE  NthTyped'
    BY <1>2, <1>8 DEF IngesterDies
  <1>9. ASSUME NEW p \in Ingesters, Ingest(p), ~UpsertFact(p), ~SaveBuyPressure(p)
        PROVE  NthTyped'
    <2>1. CASE CollectTrade(p) \/ CollectQuote(p) \/ PublishFact(p) \/ Rebuild(p) \/ UpsertWindow(p)
      BY <1>2, <2>1 DEF CollectTrade, CollectQuote, Collect, PublishFact, Rebuild, UpsertWindow
    <2>2. CASE \/ AppendSample(p) \/ LoadSamples(p) \/ UpsertCurve(p) \/ SaveSlippage(p)
               \/ PublishLatest(p) \/ Done(p)
      BY <1>2, <2>2 DEF AppendSample, LoadSamples, UpsertCurve, SaveSlippage, PublishLatest, Done
    <2>3. QED
      BY <1>9, <2>1, <2>2 DEF Ingest
  <1>10. QED
    BY <1>3, <1>4, <1>5, <1>6, <1>7, <1>8, <1>9, StepsOneByOne

\* A batch goes on from where it began, and not past the end of the stream.
LEMMA BatchEnds ==
  ASSUME Inv, NEW w \in WalletWorkers
  PROVE  LET end == Max(Batch(w) \cup {from[w]}) IN
         /\ end \in from[w] .. Len(stream) /\ end \in Nat
         /\ \A i \in from[w] + 1 .. end : i \in Batch(w)
  <1>1. from[w] \in Nat /\ Len(stream) \in Nat /\ from[w] <= Len(stream)
        /\ DOMAIN stream = 1 .. Len(stream)
    BY DEF Inv, StreamTyped
  <1> DEFINE S == Batch(w) \cup {from[w]}
  <1>2. S \in SUBSET Nat /\ S # {} /\ \A y \in S : y <= Len(stream)
    BY <1>1 DEF Batch
  <1> HIDE DEF S
  <1>3. Max(S) \in S /\ \A y \in S : y <= Max(S)
    BY <1>1, <1>2, MaxIsGreatest
  <1>4. PICK end \in S : end = Max(S)
    BY <1>3
  <1>5. end \in Nat /\ from[w] <= end /\ end <= Len(stream)
    BY <1>2, <1>3, <1>4 DEF S
  <1>6. ASSUME NEW i \in from[w] + 1 .. end
        PROVE  i \in Batch(w)
    <2>1. end # from[w] /\ end \in Batch(w)
      BY <1>1, <1>4, <1>5, <1>6 DEF S
    <2> DEFINE top == Max({from[w], 1}) + Count
    <2>2. Batch(w) = {j \in DOMAIN stream : from[w] < j /\ j < top}
      BY DEF Batch
    <2>3. top \in Nat
      <3>1. from[w] \in Nat /\ 1 \in Nat
        BY <1>1
      <3> DEFINE T == {from[w], 1}
                 big == from[w] + 1
      <3>2. T \in SUBSET Nat /\ T # {} /\ big \in Nat /\ \A y \in T : y <= big
        BY <3>1
      <3> HIDE DEF T, big
      <3>3. Max(T) \in T
        BY <3>2, MaxIsGreatest
      <3>4. Max(T) \in Nat
        BY <3>2, <3>3
      <3>5. QED
        BY <3>4, Limits DEF T
    <2> HIDE DEF top
    <2>4. QED
      BY <1>1, <1>5, <1>6, <2>1, <2>2, <2>3
  <1>7. end = Max(Batch(w) \cup {from[w]})
    BY <1>4 DEF S
  <1>8. end \in from[w] .. Len(stream)
    BY <1>1, <1>5
  <1>9. QED
    BY <1>5, <1>6, <1>7, <1>8, Zenon

\* Entries are appended to the stream; no flow is taken back and no wallet leaves the
\* registry.
LEMMA StreamGrows ==
  ASSUME Inv, [Next]_vars
  PROVE  /\ \/ stream' = stream
            \/ \E e \in Records \cup {None} : stream' = Append(stream, e)
         /\ registry \subseteq registry' /\ flows \subseteq flows'
  <1> DEFINE Grown == /\ \/ stream' = stream
                         \/ \E e \in Records \cup {None} : stream' = Append(stream, e)
                      /\ registry \subseteq registry' /\ flows \subseteq flows'
  <1> SUFFICES Grown
    OBVIOUS
  <1>1. CASE Mine \/ Tick \/ BeginSync \/ EndSync \/ SkipSource \/ UNCHANGED vars
    BY <1>1 DEF Mine, Tick, BeginSync, EndSync, SkipSource, vars, wallets
  <1>2. CASE SourceDone \/ BeginBackfill \/ EndBackfill
    BY <1>2 DEF SourceDone, BeginBackfill, EndBackfill, wallets
  <1>3. CASE Fetch \/ CollectRaises \/ LiveRaises
    BY <1>3 DEF Fetch, CollectRaises, LiveRaises, SourceFails, wallets
  <1>4. CASE Import \/ Refresh
    BY <1>4 DEF Import, Refresh, Upserted
  <1>5. PublishOther => \/ stream' = stream
                        \/ \E e \in Records \cup {None} : stream' = Append(stream, e)
    BY DEF PublishOther
  <1>6. ASSUME NEW p \in Ingesters, Ingest(p) \/ IngesterDies(p)
        PROVE  Grown
    <2>1. CASE PublishFact(p)
      <3>1. pc[p] = "fact" /\ HandInv
        BY <2>1 DEF PublishFact, Inv
      <3>2. Record(p) \in Records
        BY <3>1, HandTyped DEF HandInv, WithRecord, WithTrade
      <3>3. stream' \in {stream, Append(stream, Record(p))} /\ UNCHANGED <<registry, flows>>
        BY <2>1 DEF PublishFact, wallets
      <3>4. QED
        BY <3>2, <3>3
    <2>2. CASE PublishLatest(p)
      BY <1>5, <2>2 DEF PublishLatest, wallets
    <2>3. CASE \/ CollectTrade(p) \/ CollectQuote(p) \/ UpsertFact(p) \/ Rebuild(p)
               \/ UpsertWindow(p) \/ AppendSample(p)
      BY <2>3 DEF CollectTrade, CollectQuote, Collect, UpsertFact, Rebuild, UpsertWindow,
                  AppendSample, wallets
    <2>4. CASE \/ LoadSamples(p) \/ UpsertCurve(p) \/ SaveBuyPressure(p) \/ SaveSlippage(p)
               \/ Done(p) \/ IngesterDies(p)
      BY <2>4 DEF LoadSamples, UpsertCurve, SaveBuyPressure, SaveSlippage, SaveSnapshot, Done,
                  IngesterDies, wallets
    <2>5. QED
      BY <1>6, <2>1, <2>2, <2>3, <2>4 DEF Ingest
  <1>7. ASSUME NEW w \in WalletWorkers, Wallet(w) \/ WorkerRaises(w)
        PROVE  Grown
    <2>1. CASE PublishSnapshot(w)
      BY <1>5, <2>1 DEF PublishSnapshot
    <2>2. CASE Resolve(w) \/ Project(w) \/ SaveSyncState(w) \/ WorkerRaises(w)
      BY <2>2 DEF Resolve, Project, SaveSyncState, WorkerRaises
    <2>3. QED
      BY <1>7, <2>1, <2>2 DEF Wallet
  <1> HIDE DEF Grown
  <1>8. QED
    BY <1>1, <1>2, <1>3, <1>4, <1>6, <1>7, StepsOneByOne

\* What is on the stream stays there.
LEMMA StreamStays ==
  ASSUME Inv, [Next]_vars
  PROVE  /\ stream' \in Seq(Records \cup {None})
         /\ Len(stream) \in Nat /\ Len(stream') \in Nat /\ Len(stream) <= Len(stream')
         /\ \A i \in 1 .. Len(stream) : stream'[i] = stream[i]
  <1>1. stream \in Seq(Records \cup {None})
    BY DEF Inv, StreamTyped
  <1>2. CASE stream' = stream
    BY <1>1, <1>2
  <1>3. ASSUME NEW e \in Records \cup {None}, stream' = Append(stream, e)
        PROVE  /\ stream' \in Seq(Records \cup {None})
               /\ Len(stream) \in Nat /\ Len(stream') \in Nat /\ Len(stream) <= Len(stream')
               /\ \A i \in 1 .. Len(stream) : stream'[i] = stream[i]
    BY <1>1, <1>3
  <1>4. QED
    BY <1>2, <1>3, StreamGrows

\* Where the wallet workers stand changes by their own steps.
LEMMA WalletsLeft ==
  ASSUME [Next]_vars, ~ Import, ~ Refresh,
         \A w \in WalletWorkers : ~ Wallet(w) /\ ~ WorkerRaises(w)
  PROVE  UNCHANGED wallets
  <1>1. CASE Mine \/ Tick \/ BeginSync \/ EndSync \/ SkipSource \/ UNCHANGED vars
    BY <1>1 DEF Mine, Tick, BeginSync, EndSync, SkipSource, vars
  <1>2. CASE SourceDone \/ BeginBackfill \/ EndBackfill
    BY <1>2 DEF SourceDone, BeginBackfill, EndBackfill
  <1>3. CASE Fetch \/ CollectRaises \/ LiveRaises
    BY <1>3 DEF Fetch, CollectRaises, LiveRaises, SourceFails
  <1>4. ASSUME NEW p \in Ingesters, Ingest(p) \/ IngesterDies(p)
        PROVE  UNCHANGED wallets
    <2>1. CASE \/ CollectTrade(p) \/ CollectQuote(p) \/ PublishFact(p) \/ UpsertFact(p)
               \/ Rebuild(p) \/ UpsertWindow(p) \/ AppendSample(p)
      BY <2>1 DEF CollectTrade, CollectQuote, Collect, PublishFact, UpsertFact, Rebuild,
                  UpsertWindow, AppendSample
    <2>2. CASE \/ LoadSamples(p) \/ UpsertCurve(p) \/ SaveBuyPressure(p) \/ SaveSlippage(p)
               \/ PublishLatest(p) \/ Done(p) \/ IngesterDies(p)
      BY <2>2 DEF LoadSamples, UpsertCurve, SaveBuyPressure, SaveSlippage, SaveSnapshot,
                  PublishLatest, Done, IngesterDies
    <2>3. QED
      BY <1>4, <2>1, <2>2 DEF Ingest
  <1>5. QED
    BY <1>1, <1>2, <1>3, <1>4, StepsOneByOne

\* The steps of the wallet workers, by what becomes of the places they keep.
LEMMA WalletMoves ==
  ASSUME Inv, [Next]_vars
  PROVE  /\ wpc' \in [WalletWorkers -> {"idle", "import", "refresh", "project", "publish", "save"}]
         /\ \/ UNCHANGED <<synced, from, last>>
            \/ \E w \in WalletWorkers : from' = [from EXCEPT ![w] = synced]
                                        /\ UNCHANGED <<synced, last, flows>>
            \/ \E w \in WalletWorkers :
                 /\ last' = [last EXCEPT ![w] = Max(Batch(w) \cup {from[w]})]
                 /\ flows' = flows \cup FlowsIn(Batch(w))
                 /\ UNCHANGED <<synced, from, stream>>
            \/ \E w \in WalletWorkers : /\ synced' \in {synced, last[w]}
                                        /\ from' = [from EXCEPT ![w] = 0]
                                        /\ last' = [last EXCEPT ![w] = 0]
                                        /\ UNCHANGED flows
  <1>1. wpc \in [WalletWorkers -> {"idle", "import", "refresh", "project", "publish", "save"}]
    BY DEF Inv, StreamTyped
  <1> DEFINE Moved ==
            \/ UNCHANGED <<synced, from, last>>
            \/ \E w \in WalletWorkers : from' = [from EXCEPT ![w] = synced]
                                        /\ UNCHANGED <<synced, last, flows>>
            \/ \E w \in WalletWorkers :
                 /\ last' = [last EXCEPT ![w] = Max(Batch(w) \cup {from[w]})]
                 /\ flows' = flows \cup FlowsIn(Batch(w))
                 /\ UNCHANGED <<synced, from, stream>>
            \/ \E w \in WalletWorkers : /\ synced' \in {synced, last[w]}
                                        /\ from' = [from EXCEPT ![w] = 0]
                                        /\ last' = [last EXCEPT ![w] = 0]
                                        /\ UNCHANGED flows
             Goes == wpc' = wpc \/ \E w \in WalletWorkers :
                       \E to \in {"idle", "import", "refresh", "project", "publish", "save"} :
                          wpc' = [wpc EXCEPT ![w] = to]
  <1>2. Goes => wpc' \in [WalletWorkers ->
                          {"idle", "import", "refresh", "project", "publish", "save"}]
    BY <1>1
  <1>3. ASSUME NEW w \in WalletWorkers, Wallet(w) \/ WorkerRaises(w)
        PROVE  Moved /\ Goes
    <2>1. CASE Resolve(w)
      BY <2>1 DEF Resolve
    <2>2. CASE Project(w)
      BY <2>2 DEF Project
    <2>3. CASE PublishSnapshot(w)
      BY <2>3 DEF PublishSnapshot
    <2>4. CASE SaveSyncState(w) \/ WorkerRaises(w)
      BY <2>4 DEF SaveSyncState, WorkerRaises
    <2>5. QED
      BY <1>3, <2>1, <2>2, <2>3, <2>4 DEF Wallet
  <1>4. Moved /\ Goes
    <2> HIDE DEF Moved, Goes
    <2>1. UNCHANGED wallets => Moved /\ Goes
      BY DEF Moved, Goes, wallets
    <2>2. Import \/ Refresh => Moved /\ Goes
      BY DEF Moved, Goes, Import, Refresh, WalletWorkers
    <2>3. QED
      BY <1>3, <2>1, <2>2, WalletsLeft
  <1>5. QED
    BY <1>2, <1>4

\* Every step keeps the types of the stream and of those who read it.
LEMMA StreamKept ==
  ASSUME Inv, [Next]_vars
  PROVE  StreamTyped'
  <1>1. StreamTyped /\ TablesTyped
    BY DEF Inv
  <1>2. /\ stream' \in Seq(Records \cup {None}) /\ registry \subseteq registry'
        /\ wpc' \in [WalletWorkers -> {"idle", "import", "refresh", "project", "publish", "save"}]
    BY StreamStays, StreamGrows, WalletMoves
  <1>3. Len(stream) \in Nat /\ Len(stream') \in Nat /\ Len(stream) <= Len(stream')
    BY StreamStays
  <1>4. \A n \in 0 .. Len(stream) : n \in 0 .. Len(stream')
    BY <1>3
  <1>5. \A w \in WalletWorkers : Max(Batch(w) \cup {from[w]}) \in 0 .. Len(stream)
    <2>1. ASSUME NEW w \in WalletWorkers
          PROVE  Max(Batch(w) \cup {from[w]}) \in 0 .. Len(stream)
      <3>1. from[w] \in Nat
        BY <1>1, <1>3 DEF StreamTyped
      <3>2. Max(Batch(w) \cup {from[w]}) \in from[w] .. Len(stream)
        BY BatchEnds
      <3>3. QED
        BY <1>3, <3>1, <3>2
    <2>2. QED
      BY <2>1
  <1>6. /\ synced' \in 0 .. Len(stream')
        /\ from' \in [WalletWorkers -> 0 .. Len(stream')]
        /\ last' \in [WalletWorkers -> 0 .. Len(stream')]
    <2>1. /\ synced \in 0 .. Len(stream) /\ 0 \in 0 .. Len(stream)
          /\ from \in [WalletWorkers -> 0 .. Len(stream)]
          /\ last \in [WalletWorkers -> 0 .. Len(stream)]
      BY <1>1, <1>3 DEF StreamTyped
    <2> DEFINE Places == 0 .. Len(stream)
               PlacesThen == 0 .. Len(stream')
    <2>2. /\ synced \in Places /\ 0 \in Places /\ from \in [WalletWorkers -> Places]
          /\ last \in [WalletWorkers -> Places] /\ Places \subseteq PlacesThen
          /\ \A w \in WalletWorkers : Max(Batch(w) \cup {from[w]}) \in Places
      BY <1>4, <1>5, <2>1
    <2> HIDE DEF Places, PlacesThen
    <2>3. /\ synced' \in Places
          /\ from' \in [WalletWorkers -> Places]
          /\ last' \in [WalletWorkers -> Places]
      BY <2>2, WalletMoves, ZenonT(30)
    <2>4. QED
      BY <2>2, <2>3 DEF PlacesThen
  <1>7. flows' \subseteq Records
    <2>1. ASSUME NEW w \in WalletWorkers
          PROVE  FlowsIn(Batch(w)) \subseteq Records
      <3>1. \A i \in Batch(w) : stream[i] \in Records \cup {None}
        BY <1>1 DEF Batch, StreamTyped
      <3>2. QED
        BY <3>1 DEF FlowsIn
    <2>2. UNCHANGED flows \/ \E w \in WalletWorkers : flows' = flows \cup FlowsIn(Batch(w))
      <3>1. CASE UNCHANGED wallets \/ Import \/ Refresh
        BY <3>1 DEF wallets, Import, Refresh
      <3>2. ASSUME NEW w \in WalletWorkers, Wallet(w) \/ WorkerRaises(w)
            PROVE  UNCHANGED flows \/ flows' = flows \cup FlowsIn(Batch(w))
        BY <3>2 DEF Wallet, Resolve, Project, PublishSnapshot, SaveSyncState, WorkerRaises
      <3>3. QED
        BY <3>1, <3>2, WalletsLeft
    <2>3. QED
      BY <1>1, <2>1, <2>2 DEF StreamTyped
  <1>8. QED
    BY <1>1, <1>2, <1>6, <1>7 DEF StreamTyped

\* Every step keeps the invariant.
LEMMA Kept == Inv /\ [Next]_vars => Inv'
  BY FeedKept, HandKept, TablesKept, StreamKept, NthKept DEF Inv

\* In every reachable state the types hold, and each process has in hand what its step
\* needs.
THEOREM Invariance == Spec => []Inv
  <1>1. Init => Inv
    BY InitInv
  <1>2. Inv /\ [Next]_vars => Inv'
    BY Kept
  <1>3. QED
    BY <1>1, <1>2, PTL DEF Spec

\* Every variable stays in its type: a window or a snapshot counts stored facts only, a
\* curve stored samples, and the sync state never runs past the stream.
THEOREM TypeCorrectness == Spec => []TypeOK
  <1>1. Inv => TypeOK
    <2> SUFFICES ASSUME Inv PROVE TypeOK
      OBVIOUS
    <2>1. FeedTyped /\ HandInv /\ TablesTyped /\ StreamTyped /\ NthTyped
      BY DEF Inv
    <2>2. /\ cursor \in [DOMAIN Sources -> Nat]
          /\ failures \in [Names -> 0 .. MaxFailures]
          /\ delay \in [Names -> 0 .. Max({Backoff, Cooldown})]
      BY <2>1 DEF FeedTyped, MaxDelay
    <2>3. /\ raw \subseteq (Names \cup {"backfill"}) \X Records
          /\ facts \subseteq Trades
          /\ samples \subseteq Quotes
      BY <2>1 DEF TablesTyped
    <2>4. \A b \in 1 .. MaxHeight :
            /\ \A i \in DOMAIN Spans : windows[i][b] \cup pressures[i][b] \subseteq facts
            /\ curves[b] \cup slippages[b] \subseteq samples
      BY <2>1 DEF TablesTyped
    <2>5. /\ flows \subseteq Records
          /\ synced \in 0 .. Len(stream)
          /\ \A i \in DOMAIN stream : stream[i] \in Records \cup {None}
      BY <2>1 DEF StreamTyped
    <2>6. \A p \in Ingesters : /\ queue[p] \in Seq(Records)
                               /\ loaded[p] \subseteq facts \cup samples
                               /\ nth[p] \in DOMAIN Spans
      BY <2>1 DEF HandInv, NthTyped
    <2>7. QED
      BY <2>2, <2>3, <2>4, <2>5, <2>6, Zenon DEF TypeOK
  <1>2. QED
    BY <1>1, Invariance, PTL

-----------------------------------------------------------------------------
(* Projection.                                                               *)

\* The facts of tracked wallets among the first n entries are flows.
MadeIn(n, entries, made) ==
    \A i \in 1 .. n :
        entries[i] # None /\ entries[i].wallet \in Tracked => entries[i] \in made

Made(n) == MadeIn(n, stream, flows)

\* Each place the sync state may be set to, by the worker that set it or by the other one
\* from an older batch, has its facts made.
MadeInv == Made(synced) /\ \A w \in WalletWorkers : Made(from[w]) /\ Made(last[w])

\* What is made stays made.
LEMMA MadeStays ==
  ASSUME Inv, [Next]_vars, NEW n \in 0 .. Len(stream), Made(n)
  PROVE  MadeIn(n, stream', flows')
  <1>1. flows \subseteq flows' /\ \A i \in 1 .. n : stream'[i] = stream[i]
    BY StreamStays, StreamGrows
  <1>2. QED
    BY <1>1 DEF Made, MadeIn

\* A batch makes what it passes.
LEMMA BatchMakes ==
  ASSUME Inv, NEW w \in WalletWorkers, Made(from[w])
  PROVE  MadeIn(Max(Batch(w) \cup {from[w]}), stream, flows \cup FlowsIn(Batch(w)))
  <1> DEFINE end == Max(Batch(w) \cup {from[w]})
             made == flows \cup FlowsIn(Batch(w))
  <1>1. /\ end \in Nat /\ from[w] <= end /\ from[w] \in Nat
        /\ \A i \in from[w] + 1 .. end : i \in Batch(w)
    <2>1. from[w] \in Nat
      BY DEF Inv, StreamTyped
    <2>2. /\ end \in from[w] .. Len(stream) /\ end \in Nat
          /\ \A i \in from[w] + 1 .. end : i \in Batch(w)
      BY BatchEnds
    <2> HIDE DEF end
    <2>3. QED
      BY <2>1, <2>2
  <1>2. Tracked \subseteq registry
    BY DEF Inv, StreamTyped
  <1>3. ASSUME NEW i \in Batch(w), stream[i] # None, stream[i].wallet \in Tracked
        PROVE  stream[i] \in made
    BY <1>2, <1>3 DEF FlowsIn, InRegistry
  <1>4. ASSUME NEW i \in 1 .. from[w], stream[i] # None, stream[i].wallet \in Tracked
        PROVE  stream[i] \in made
    BY <1>4 DEF Made, MadeIn
  <1> HIDE DEF end, made
  <1>5. ASSUME NEW i \in 1 .. end, stream[i] # None, stream[i].wallet \in Tracked
        PROVE  stream[i] \in made
    <2>1. CASE i <= from[w]
      <3>1. i \in 1 .. from[w]
        BY <1>1, <2>1
      <3>2. QED
        BY <1>4, <1>5, <3>1
    <2>2. CASE from[w] < i
      <3>1. i \in Batch(w)
        BY <1>1, <2>2
      <3>2. QED
        BY <1>3, <1>5, <3>1
    <2>3. QED
      BY <1>1, <2>1, <2>2
  <1>6. MadeIn(end, stream, made)
    BY <1>5 DEF MadeIn
  <1>7. QED
    BY <1>6 DEF end, made

\* Every step keeps what is made.
LEMMA MadeKept ==
  ASSUME Inv, MadeInv, [Next]_vars
  PROVE  MadeInv'
  <1> DEFINE MadeThen(n) == MadeIn(n, stream', flows')
             Places == {n \in 0 .. Len(stream) : Made(n)}
  <1>1. /\ synced \in 0 .. Len(stream) /\ 0 \in 0 .. Len(stream)
        /\ \A w \in WalletWorkers : from[w] \in 0 .. Len(stream) /\ last[w] \in 0 .. Len(stream)
    BY DEF Inv, StreamTyped
  <1>2. \A n \in Places : MadeThen(n)
    BY MadeStays
  <1>3. Made(0)
    BY DEF Made, MadeIn
  <1>4. /\ synced \in Places /\ 0 \in Places
        /\ \A w \in WalletWorkers : from[w] \in Places /\ last[w] \in Places
    BY <1>1, <1>3 DEF MadeInv
  <1>5. ASSUME NEW w \in WalletWorkers, stream' = stream, flows' = flows \cup FlowsIn(Batch(w))
        PROVE  MadeThen(Max(Batch(w) \cup {from[w]}))
    <2>1. Made(from[w])
      BY <1>4
    <2>2. QED
      BY <1>5, <2>1, BatchMakes, Zenon
  <1>6. /\ from \in [WalletWorkers -> 0 .. Len(stream)]
        /\ last \in [WalletWorkers -> 0 .. Len(stream)]
    BY DEF Inv, StreamTyped
  <1> HIDE DEF MadeThen, Places
  <1>7. MadeThen(synced') /\ \A w \in WalletWorkers : MadeThen(from'[w]) /\ MadeThen(last'[w])
    <2>1. CASE UNCHANGED <<synced, from, last>>
      BY <1>2, <1>4, <2>1
    <2>2. ASSUME NEW w \in WalletWorkers, from' = [from EXCEPT ![w] = synced],
                 UNCHANGED <<synced, last>>
          PROVE  /\ MadeThen(synced')
                 /\ \A v \in WalletWorkers : MadeThen(from'[v]) /\ MadeThen(last'[v])
      BY <1>2, <1>4, <1>6, <2>2
    <2>3. ASSUME NEW w \in WalletWorkers,
                 last' = [last EXCEPT ![w] = Max(Batch(w) \cup {from[w]})],
                 flows' = flows \cup FlowsIn(Batch(w)), UNCHANGED <<synced, from, stream>>
          PROVE  /\ MadeThen(synced')
                 /\ \A v \in WalletWorkers : MadeThen(from'[v]) /\ MadeThen(last'[v])
      <3> DEFINE end == Max(Batch(w) \cup {from[w]})
      <3>1. MadeThen(end) /\ last' = [last EXCEPT ![w] = end]
        BY <1>5, <2>3
      <3> HIDE DEF end
      <3>2. QED
        BY <1>2, <1>4, <1>6, <2>3, <3>1
    <2>4. ASSUME NEW w \in WalletWorkers, synced' \in {synced, last[w]},
                 from' = [from EXCEPT ![w] = 0], last' = [last EXCEPT ![w] = 0]
          PROVE  /\ MadeThen(synced')
                 /\ \A v \in WalletWorkers : MadeThen(from'[v]) /\ MadeThen(last'[v])
      BY <1>2, <1>4, <1>6, <2>4
    <2>5. QED
      BY <2>1, <2>2, <2>3, <2>4, WalletMoves
  <1>8. QED
    BY <1>7 DEF MadeThen, MadeInv, Made

\* The sync state passes no fact of a wallet that was tracked from the first without making
\* it a flow, although two workers read and set it and each may set it back.
THEOREM NoFactPassedOver == Spec => []ProjectionSkipsNothing
  <1>1. Init => Inv /\ MadeInv
    <2>1. Init => MadeInv
      BY DEF Init, MadeInv, Made, MadeIn
    <2>2. QED
      BY <2>1, InitInv
  <1>2. Inv /\ MadeInv /\ [Next]_vars => (Inv /\ MadeInv)'
    BY Kept, MadeKept
  <1>3. MadeInv => ProjectionSkipsNothing
    BY DEF MadeInv, Made, MadeIn, ProjectionSkipsNothing
  <1>4. QED
    BY <1>1, <1>2, <1>3, PTL DEF Spec

-----------------------------------------------------------------------------
(* Cursors.                                                                  *)

IsStored(t) == <<Name[t.source], t>> \in raw
IsQueued(t) == \E i \in DOMAIN queue["live"] : queue["live"][i] = t
HasEarlier(t) == \E u \in Trades : u.source = t.source /\ u.block = t.block /\ u.at < t.at
IsBroken(t) == kind[t.source] = "evm" /\ faults > 0 /\ HasEarlier(t)

\* A cursor may pass t.
MayPass(t) == IsStored(t) \/ IsQueued(t) \/ OutOfReach(t) \/ IsBroken(t)

\* What has been passed, and what will be when the records in hand are done.
PassedInv ==
    /\ \A t \in Trades : cursor[t.source] >= CursorOf(t) => MayPass(t)
    /\ \A i \in DOMAIN queue["live"] : \A t \in Trades :
         t.source = queue["live"][i].source /\ CursorOf(t) <= CursorOf(queue["live"][i])
           => MayPass(t)

\* The records in hand are in order and ahead of the cursor, or in the cursor's own block
\* behind another one.
AheadInv ==
    /\ \A i, j \in DOMAIN queue["live"] : i < j => queue["live"][i].at < queue["live"][j].at
    /\ \A i \in DOMAIN queue["live"] :
         LET t == queue["live"][i] IN
         /\ kind[t.source] # "profile_solana"
         /\ \/ cursor[t.source] < CursorOf(t)
            \/ kind[t.source] = "evm" /\ HasEarlier(t)

\* The live worker goes on with a record that is stored, of a source that can ingest; the
\* cursors of the others never move.
StoredInv ==
    /\ \A s \in DOMAIN Sources :
         /\ kind[s] \in {"solana", "evm", "profile_solana", "profile_evm"}
         /\ kind[s] \in {"profile_solana", "profile_evm"} => cursor[s] = 0
    /\ pc["live"] \in WithRecord =>
         /\ IsStored(Record("live"))
         /\ kind[Record("live").source] # "profile_evm"

CursorInv == PassedInv /\ AheadInv /\ StoredInv

\* Places and blocks are positive, and blocks follow places.
LEMMA CursorsGrow ==
  ASSUME NEW t \in Trades, NEW u \in Trades, t.source = u.source
  PROVE  /\ t.at \in Nat \ {0} /\ t.block \in Nat \ {0} /\ CursorOf(t) \in Nat \ {0}
         /\ t.at <= u.at => t.block <= u.block
         /\ t.at <= u.at => CursorOf(t) <= CursorOf(u)
         /\ CursorOf(t) <= CursorOf(u) => t.block <= u.block
  <1>1. /\ t.at \in Nat \ {0} /\ t.block \in Nat \ {0} /\ u.at \in Nat \ {0}
        /\ u.block \in Nat \ {0}
    BY TradePlaces
  <1>2. t.at < u.at => t.block <= u.block
    BY FeatureSyncAssumption
  <1>3. t.at = u.at => t = u
    BY FeatureSyncAssumption
  <1>4. t.at <= u.at => t.block <= u.block
    BY <1>1, <1>2, <1>3
  <1>5. CASE kind[t.source] = "solana"
    <2>1. CursorOf(t) = t.at /\ CursorOf(u) = u.at
      BY <1>5 DEF CursorOf
    <2>2. QED
      BY <1>1, <1>4, <2>1
  <1>6. CASE kind[t.source] # "solana"
    <2>1. CursorOf(t) = t.block /\ CursorOf(u) = u.block
      BY <1>6 DEF CursorOf
    <2>2. QED
      BY <1>1, <1>4, <2>1
  <1>7. QED
    BY <1>5, <1>6

\* What is out of reach stays out of reach.
LEMMA OutOfReachStays ==
  ASSUME NEW t \in Trades, OutOfReach(t), kind' = kind,
         height \in Nat, height' \in Nat, height <= height'
  PROVE  OutOfReach(t)'
  <1> DEFINE Newer1 == {u \in Trades : u.source = t.source /\ u.block <= height /\ u.at > t.at}
             Newer2 == {u \in Trades : u.source = t.source /\ u.block <= height' /\ u.at > t.at}
  <1>1. IF kind[t.source] = "solana" THEN Cardinality(Newer1) >= PollLimit
                                    ELSE t.block + Lookback <= height
    <2>1. {u \in OnChain(t.source) : u.at > t.at} = Newer1
      BY DEF OnChain
    <2>2. QED
      BY <2>1 DEF OutOfReach
  <1>2. (IF kind[t.source] = "solana" THEN Cardinality(Newer2) >= PollLimit
                                     ELSE t.block + Lookback <= height')
          => OutOfReach(t)'
    <2>1. ({u \in OnChain(t.source) : u.at > t.at})' = Newer2
      BY DEF OnChain
    <2>2. QED
      BY <2>1 DEF OutOfReach
  <1>3. /\ Cardinality(Newer1) <= Cardinality(Newer2)
        /\ Cardinality(Newer1) \in Nat /\ Cardinality(Newer2) \in Nat
    <2>1. \A u \in Trades : u.block \in Nat
      BY TradePlaces
    <2>2. Newer1 \subseteq Newer2 /\ Newer2 \subseteq Trades
      BY <2>1
    <2> HIDE DEF Newer1, Newer2
    <2>3. IsFiniteSet(Newer2)
      BY <2>2, FeatureSyncAssumption, FS_Subset
    <2>4. IsFiniteSet(Newer1) /\ Cardinality(Newer1) <= Cardinality(Newer2)
      BY <2>2, <2>3, FS_Subset
    <2>5. QED
      BY <2>3, <2>4, FS_CardinalityType
  <1>4. t.block \in Nat
    BY TradePlaces
  <1> HIDE DEF Newer1, Newer2
  <1>5. IF kind[t.source] = "solana" THEN Cardinality(Newer2) >= PollLimit
                                    ELSE t.block + Lookback <= height'
    BY <1>1, <1>3, <1>4, Limits
  <1>6. QED
    BY <1>2, <1>5, Zenon

\* What may be passed may be passed later, unless it was in hand only and is let go.
LEMMA MayPassStays ==
  ASSUME NEW t \in Trades, MayPass(t), kind' = kind, raw \subseteq raw',
         height \in Nat, height' \in Nat, height <= height',
         faults \in Nat, faults' \in Nat, faults <= faults',
         IsQueued(t) => IsStored(t)' \/ IsQueued(t)' \/ IsBroken(t)'
  PROVE  MayPass(t)'
  <1>1. CASE IsStored(t)
    <2>1. IsStored(t)'
      BY <1>1 DEF IsStored
    <2>2. QED
      BY <2>1 DEF MayPass
  <1>2. CASE IsQueued(t)
    BY <1>2 DEF MayPass
  <1>3. CASE OutOfReach(t)
    BY <1>3, OutOfReachStays DEF MayPass
  <1>4. CASE IsBroken(t)
    <2>1. HasEarlier(t)' = HasEarlier(t)
      BY DEF HasEarlier
    <2>2. IsBroken(t)'
      BY <1>4, <2>1 DEF IsBroken
    <2>3. QED
      BY <2>2 DEF MayPass
  <1>5. QED
    BY <1>1, <1>2, <1>3, <1>4 DEF MayPass

\* A cursor is what it was for as long as the kind is.
LEMMA CursorOfStays == ASSUME kind' = kind PROVE \A t : CursorOf(t)' = CursorOf(t)
  BY DEF CursorOf

\* A step that neither moves a cursor nor touches what the live worker has in hand.
LEMMA CursorsLeft ==
  ASSUME PassedInv, AheadInv, kind' = kind, raw \subseteq raw', cursor' = cursor,
         queue'["live"] = queue["live"],
         height \in Nat, height' \in Nat, height <= height',
         faults \in Nat, faults' \in Nat, faults <= faults'
  PROVE  PassedInv' /\ AheadInv'
  <1>1. ASSUME NEW t \in Trades, MayPass(t)
        PROVE  MayPass(t)'
    <2>1. IsQueued(t)' = IsQueued(t)
      BY DEF IsQueued
    <2>2. QED
      BY <1>1, <2>1, MayPassStays
  <1>2. \A t : CursorOf(t)' = CursorOf(t) /\ HasEarlier(t)' = HasEarlier(t)
    BY CursorOfStays DEF HasEarlier
  <1>3. PassedInv'
    <2>1. ASSUME NEW t \in Trades, cursor'[t.source] >= CursorOf(t)' PROVE MayPass(t)'
      <3>1. cursor[t.source] >= CursorOf(t)
        BY <1>2, <2>1
      <3>2. MayPass(t)
        BY <3>1 DEF PassedInv
      <3>3. QED
        BY <1>1, <3>2
    <2>2. ASSUME NEW i \in DOMAIN queue'["live"], NEW t \in Trades,
                 t.source = queue'["live"][i].source,
                 CursorOf(t)' <= CursorOf(queue["live"][i])'
          PROVE  MayPass(t)'
      <3>1. i \in DOMAIN queue["live"] /\ t.source = queue["live"][i].source
            /\ CursorOf(t) <= CursorOf(queue["live"][i])
        BY <1>2, <2>2
      <3>2. MayPass(t)
        BY <3>1 DEF PassedInv
      <3>3. QED
        BY <1>1, <3>2
    <2>3. QED
      BY <2>1, <2>2 DEF PassedInv, CursorOf
  <1>4. AheadInv'
    BY DEF AheadInv, CursorOf, HasEarlier
  <1>5. QED
    BY <1>3, <1>4

\* Processes and kinds stay, and raw events, blocks and faults only grow.
LEMMA WorldGrows ==
  ASSUME Inv, [Next]_vars
  PROVE  /\ running' = running /\ kind' = kind /\ raw \subseteq raw'
         /\ height \in Nat /\ height' \in Nat /\ height <= height'
         /\ faults \in Nat /\ faults' \in Nat /\ faults <= faults'
  <1>1. height \in Nat /\ faults \in Nat
    BY DEF Inv, FeedTyped
  <1>2. raw \subseteq raw'
    <2>1. CASE UNCHANGED tables
      BY <2>1 DEF tables
    <2>2. ASSUME NEW p \in Ingesters,
                 \/ CollectTrade(p) \/ CollectQuote(p) \/ UpsertFact(p) \/ UpsertWindow(p)
                 \/ AppendSample(p) \/ UpsertCurve(p) \/ SaveBuyPressure(p) \/ SaveSlippage(p)
          PROVE  raw \subseteq raw'
      BY <2>2 DEF CollectTrade, CollectQuote, Collect, UpsertFact, UpsertWindow, AppendSample,
                  UpsertCurve, SaveBuyPressure, SaveSlippage, SaveSnapshot
    <2>3. QED
      BY <2>1, <2>2, TablesLeft
  <1> DEFINE Grown == running' = running /\ kind' = kind /\ height' \in {height, height + 1}
                      /\ faults' \in {faults, faults + 1}
  <1>3. CASE Mine \/ Tick \/ BeginSync \/ EndSync \/ SkipSource \/ UNCHANGED vars
    <2>1. Grown
      BY <1>3 DEF Mine, Tick, BeginSync, EndSync, SkipSource, vars, world
    <2>2. QED
      BY <1>1, <1>2, <2>1
  <1>4. ASSUME \/ SourceDone \/ BeginBackfill \/ EndBackfill \/ Import \/ Refresh
        PROVE  Grown
    BY <1>4 DEF SourceDone, BeginBackfill, EndBackfill, Import, Refresh, world
  <1>5. ASSUME Fetch \/ CollectRaises \/ (LiveRaises /\ faults' = faults + 1)
        PROVE  Grown
    BY <1>5 DEF Fetch, CollectRaises, LiveRaises, SourceFails, world
  <1>6. ASSUME NEW p \in Ingesters,
               Ingest(p) \/ (IngesterDies(p) /\ faults' \in {faults, faults + 1})
        PROVE  Grown
    <2>1. CASE \/ CollectTrade(p) \/ CollectQuote(p) \/ PublishFact(p) \/ UpsertFact(p)
               \/ Rebuild(p) \/ UpsertWindow(p) \/ AppendSample(p)
      BY <2>1 DEF CollectTrade, CollectQuote, Collect, PublishFact, UpsertFact, Rebuild,
                  UpsertWindow, AppendSample, world
    <2>2. CASE \/ LoadSamples(p) \/ UpsertCurve(p) \/ SaveBuyPressure(p) \/ SaveSlippage(p)
               \/ PublishLatest(p) \/ Done(p)
               \/ (IngesterDies(p) /\ faults' \in {faults, faults + 1})
      BY <2>2 DEF LoadSamples, UpsertCurve, SaveBuyPressure, SaveSlippage, SaveSnapshot,
                  PublishLatest, Done, IngesterDies, world
    <2>3. QED
      BY <1>6, <2>1, <2>2 DEF Ingest
  <1>7. ASSUME NEW w \in WalletWorkers,
               Wallet(w) \/ (WorkerRaises(w) /\ faults' = faults + 1)
        PROVE  Grown
    BY <1>7 DEF Wallet, Resolve, Project, PublishSnapshot, SaveSyncState, WorkerRaises, world
  <1>8. CASE Grown
    BY <1>1, <1>2, <1>8
  <1> HIDE DEF Grown
  <1>9. QED
    BY <1>3, <1>4, <1>5, <1>6, <1>7, <1>8, StepsOneByOne

\* The records in hand, and their order.
LEMMA InHandTrades ==
  ASSUME Inv
  PROVE  /\ queue["live"] \in Seq(Records) /\ Len(queue["live"]) \in Nat
         /\ DOMAIN queue["live"] = 1 .. Len(queue["live"])
         /\ \A i \in DOMAIN queue["live"] :
              queue["live"][i] \in Trades /\ queue["live"][i].source = Source
         /\ cursor \in [DOMAIN Sources -> Nat]
         /\ \A t \in Trades : t.source \in DOMAIN Sources /\ cursor[t.source] \in Nat
                              /\ CursorOf(t) \in Nat \ {0}
  <1>1. "live" \in Ingesters
    BY DEF Ingesters
  <1>2. queue["live"] \in Seq(Records) /\ cursor \in [DOMAIN Sources -> Nat]
    BY <1>1 DEF Inv, HandInv, FeedTyped
  <1>3. \A t \in Trades : CursorOf(t) \in Nat \ {0} /\ t.source \in DOMAIN Sources
    BY CursorsGrow, FeatureSyncAssumption
  <1>4. \A i \in DOMAIN queue["live"] :
          queue["live"][i] \in Trades /\ queue["live"][i].source = Source
    BY DEF Inv, HandInv
  <1>5. QED
    BY <1>2, <1>3, <1>4

\* The live worker lets go what it has in hand: a fault, unless it had nothing or could
\* not ingest it.
LEMMA LetGo ==
  ASSUME Inv, CursorInv, [Next]_vars,
         queue'["live"] = <<>>, cursor' = cursor, pc'["live"] \notin WithRecord,
         \/ queue["live"] = <<>>
         \/ faults' > 0
         \/ kind[Source] = "profile_evm"
  PROVE  CursorInv'
  <1>1. /\ kind' = kind /\ raw \subseteq raw'
        /\ height \in Nat /\ height' \in Nat /\ height <= height'
        /\ faults \in Nat /\ faults' \in Nat /\ faults <= faults'
    BY WorldGrows
  <1>2. ASSUME NEW t \in Trades, cursor[t.source] >= CursorOf(t)
        PROVE  MayPass(t)'
    <2>1. MayPass(t)
      BY <1>2 DEF CursorInv, PassedInv
    <2>2. ASSUME IsQueued(t)
          PROVE  IsBroken(t)'
      <3>1. PICK i \in DOMAIN queue["live"] : queue["live"][i] = t
        BY <2>2 DEF IsQueued
      <3>2. ~(cursor[t.source] < CursorOf(t)) /\ t.source = Source
        BY <1>2, <3>1, InHandTrades
      <3>3. kind[t.source] = "evm" /\ HasEarlier(t)
        BY <3>1, <3>2 DEF CursorInv, AheadInv
      <3>4. faults' > 0
        BY <3>1, <3>2, <3>3
      <3>5. QED
        BY <1>1, <3>3, <3>4 DEF IsBroken, HasEarlier
    <2>3. QED
      BY <1>1, <2>1, <2>2, MayPassStays
  <1>3. \A t : CursorOf(t)' = CursorOf(t)
    BY <1>1, CursorOfStays
  <1>4. DOMAIN queue'["live"] = {}
    OBVIOUS
  <1>5. PassedInv'
    BY <1>2, <1>3, <1>4 DEF PassedInv
  <1>6. AheadInv'
    BY <1>4 DEF AheadInv
  <1>7. StoredInv'
    BY <1>1 DEF CursorInv, StoredInv
  <1>8. QED
    BY <1>5, <1>6, <1>7 DEF CursorInv

\* What is fetched is ahead of the cursor, and complete as far as it goes.
LEMMA FetchKeepsCursors ==
  ASSUME Inv, CursorInv, [Next]_vars, Fetch, ~CannotFetch(Source)
  PROVE  CursorInv'
  <1> DEFINE s == Source
             new == Fetched(s)
  <1>1. /\ kind' = kind /\ raw \subseteq raw'
        /\ height \in Nat /\ height' \in Nat /\ height <= height'
        /\ faults \in Nat /\ faults' \in Nat /\ faults <= faults'
    BY WorldGrows
  <1>2. s \in DOMAIN Sources /\ cursor[s] \in Nat
    BY DEF Fetch, Inv, FeedTyped, Source
  <1>3. /\ queue["live"] = <<>> /\ queue'["live"] = new /\ cursor' = cursor
        /\ pc'["live"] = "record" /\ kind[s] # "profile_solana" /\ height' = height
        /\ raw' = raw /\ faults' = faults
    <2>1. "live" \in Ingesters
      BY DEF Ingesters
    <2>2. pc["live"] = "source"
      BY DEF Fetch
    <2>3. QED
      BY <2>1, <2>2 DEF Fetch, Inv, HandInv, feed, tables, world, CannotFetch
  <1>4. PICK S \in SUBSET OnChain(s) :
          /\ Listed(new, S) /\ DOMAIN new = 1 .. Cardinality(S)
          /\ kind[s] = "solana" =>
               LET newer == {t \in OnChain(s) : t.at > cursor[s]}
               IN  S = {t \in newer : Cardinality({u \in newer : u.at > t.at}) < PollLimit}
          /\ kind[s] # "solana" => S = {t \in OnChain(s) : t.block >= StartBlock(s)}
    BY <1>2, FetchedIsList
  <1> HIDE DEF new
  <1>5. /\ \A t \in S : t \in Trades /\ t.source = s /\ t.block <= height
        /\ \A i \in DOMAIN new : new[i] \in S
        /\ \A t \in S : \E i \in DOMAIN new : new[i] = t
    BY <1>4 DEF OnChain, Listed
  <1>6. \A t \in Trades : \A i \in DOMAIN new :
          t.source = s /\ CursorOf(t) <= CursorOf(new[i]) => t \in OnChain(s)
    <2>1. ASSUME NEW t \in Trades, NEW i \in DOMAIN new, t.source = s,
                 CursorOf(t) <= CursorOf(new[i])
          PROVE  t \in OnChain(s)
      <3>1. new[i] \in Trades /\ new[i].source = t.source /\ new[i].block <= height
        BY <1>5, <2>1
      <3>2. t.block <= new[i].block /\ t.block \in Nat /\ new[i].block \in Nat
        BY <2>1, <3>1, CursorsGrow
      <3>3. t.block <= height
        BY <1>1, <3>1, <3>2
      <3>4. QED
        BY <2>1, <3>3 DEF OnChain
    <2>2. QED
      BY <2>1
  <1>7. ASSUME NEW t \in Trades, cursor[t.source] >= CursorOf(t)
        PROVE  MayPass(t)'
    <2>1. MayPass(t)
      BY <1>7 DEF CursorInv, PassedInv
    <2>2. ~IsQueued(t)
      BY <1>3 DEF IsQueued
    <2>3. QED
      BY <1>1, <2>1, <2>2, MayPassStays
  <1>8. ASSUME NEW t \in OnChain(s)
        PROVE  MayPass(t)'
    <2>1. t \in Trades /\ t.source = s /\ t.block \in Nat \ {0} /\ t.at \in Nat \ {0}
          /\ CursorOf(t) \in Nat
      BY CursorsGrow DEF OnChain
    <2>2. CASE t \in S
      <3>1. IsQueued(t)'
        BY <1>3, <1>5, <2>2 DEF IsQueued
      <3>2. QED
        BY <3>1 DEF MayPass
    <2>3. CASE t \notin S /\ cursor[t.source] >= CursorOf(t)
      BY <1>7, <2>1, <2>3
    <2>4. ASSUME t \notin S, ~(cursor[t.source] >= CursorOf(t)), kind[s] = "solana"
          PROVE  OutOfReach(t)
      <3> DEFINE newer == {u \in OnChain(s) : u.at > cursor[s]}
                 Newer1 == {u \in newer : u.at > t.at}
                 Newer2 == {u \in OnChain(s) : u.at > t.at}
      <3>1. t \in newer
        BY <1>2, <2>1, <2>4 DEF CursorOf
      <3>2. ~(Cardinality(Newer1) < PollLimit)
        BY <1>4, <2>4, <3>1
      <3>3. Newer1 \subseteq Newer2 /\ Newer2 \subseteq Trades
        BY DEF OnChain
      <3> HIDE DEF Newer1, newer
      <3>4. OutOfReach(t) <=> Cardinality(Newer2) >= PollLimit
        BY <2>1, <2>4 DEF OutOfReach
      <3> HIDE DEF Newer2
      <3>5. IsFiniteSet(Newer2) /\ IsFiniteSet(Newer1)
        BY <3>3, FeatureSyncAssumption, FS_Subset
      <3>6. Cardinality(Newer1) <= Cardinality(Newer2)
        BY <3>3, <3>5, FS_Subset
      <3>7. Cardinality(Newer1) \in Nat /\ Cardinality(Newer2) \in Nat
        BY <3>5, FS_CardinalityType
      <3>8. Cardinality(Newer2) >= PollLimit
        BY <3>2, <3>6, <3>7, Limits
      <3>9. QED
        BY <3>4, <3>8
    <2>5. ASSUME t \notin S, ~(cursor[t.source] >= CursorOf(t)), kind[s] # "solana"
          PROVE  OutOfReach(t)
      <3>1. ~(t.block >= StartBlock(s)) /\ ~(cursor[s] >= t.block)
        BY <1>4, <2>1, <2>5 DEF CursorOf
      <3>2. cursor[s] = 0
        BY <1>2, <2>1, <3>1 DEF StartBlock
      <3> DEFINE low == height - Lookback + 1
                 T == {0, low}
      <3>3. Max(T) \in T \/ ~(\E m \in T : \A y \in T : y <= m)
        BY DEF Max
      <3>4. low \in Int
        BY <1>1, Limits
      <3>5. \E m \in T : \A y \in T : y <= m
        BY <3>4
      <3>6. Max(T) = 0 \/ Max(T) = low
        BY <3>3, <3>5
      <3>7. StartBlock(s) = Max(T)
        BY <3>2 DEF StartBlock
      <3> HIDE DEF T
      <3>8. t.block < low
        BY <2>1, <3>1, <3>4, <3>6, <3>7
      <3>9. t.block + Lookback <= height
        BY <1>1, <2>1, <3>8, Limits
      <3>10. QED
        BY <2>1, <2>5, <3>9 DEF OutOfReach
    <2>6. CASE OutOfReach(t)
      <3>1. OutOfReach(t)'
        BY <1>1, <2>1, <2>6, OutOfReachStays
      <3>2. QED
        BY <3>1 DEF MayPass
    <2>7. QED
      BY <2>2, <2>3, <2>4, <2>5, <2>6
  <1>9. PassedInv'
    <2>1. ASSUME NEW i \in DOMAIN new, NEW t \in Trades, t.source = new[i].source,
                 CursorOf(t) <= CursorOf(new[i])
          PROVE  MayPass(t)'
      <3>1. t \in OnChain(s)
        BY <1>5, <1>6, <2>1
      <3>2. QED
        BY <1>8, <3>1
    <2>2. QED
      BY <1>1, <1>3, <1>7, <2>1 DEF PassedInv, CursorOf
  <1>10. ASSUME NEW i \in DOMAIN new
         PROVE  cursor[new[i].source] < CursorOf(new[i]) /\ kind[new[i].source] # "profile_solana"
    <2>1. new[i] \in S /\ new[i] \in Trades /\ new[i].source = s
      BY <1>5
    <2>2. new[i].at \in Nat \ {0} /\ new[i].block \in Nat \ {0}
      BY <2>1, CursorsGrow
    <2>3. CASE kind[s] = "solana"
      BY <1>2, <1>3, <1>4, <2>1, <2>3 DEF CursorOf
    <2>4. CASE kind[s] # "solana"
      <3>1. new[i].block >= StartBlock(s)
        BY <1>4, <2>1, <2>4
      <3>2. CASE cursor[s] # 0
        BY <1>2, <1>3, <2>1, <2>2, <2>4, <3>1, <3>2 DEF CursorOf, StartBlock
      <3>3. CASE cursor[s] = 0
        BY <1>2, <1>3, <2>1, <2>2, <2>4, <3>3 DEF CursorOf
      <3>4. QED
        BY <3>2, <3>3
    <2>5. QED
      BY <2>3, <2>4
  <1>11. AheadInv'
    <2>1. \A i, j \in DOMAIN new : i < j => new[i].at < new[j].at
      BY <1>4 DEF Listed
    <2>2. QED
      BY <1>1, <1>3, <1>10, <2>1 DEF AheadInv, CursorOf
  <1>12. StoredInv'
    BY <1>1, <1>3 DEF CursorInv, StoredInv, WithRecord, WithTrade, WithQuote
  <1>13. QED
    BY <1>9, <1>11, <1>12 DEF CursorInv

\* The cursor follows the record that is done.
LEMMA DoneKeepsCursors ==
  ASSUME Inv, CursorInv, [Next]_vars, Done("live")
  PROVE  CursorInv'
  <1> DEFINE r == Record("live")
             list == queue["live"]
             rest == Tail(list)
  <1>1. /\ kind' = kind /\ raw \subseteq raw'
        /\ height \in Nat /\ height' \in Nat /\ height <= height'
        /\ faults \in Nat /\ faults' \in Nat /\ faults <= faults'
    BY WorldGrows
  <1>2. "live" \in Ingesters /\ pc["live"] = "done" /\ pc["live"] \in WithRecord
    BY DEF Done, Ingesters, WithRecord
  <1>3. /\ list \in Seq(Records) /\ list # <<>> /\ queue'["live"] = rest
        /\ pc'["live"] = "record" /\ cursor' = [cursor EXCEPT ![Source] = CursorOf(r)]
    BY <1>2 DEF Inv, HandInv, Done, Goto
  <1>4. /\ \A i \in DOMAIN list : list[i] \in Trades /\ list[i].source = Source
        /\ cursor \in [DOMAIN Sources -> Nat] /\ DOMAIN list = 1 .. Len(list)
        /\ \A t \in Trades : t.source \in DOMAIN Sources /\ cursor[t.source] \in Nat
                             /\ CursorOf(t) \in Nat \ {0}
    BY InHandTrades
  <1>5. /\ 1 \in DOMAIN list /\ r = list[1] /\ r \in Trades /\ r.source = Source
        /\ IsStored(r) /\ kind[Source] # "profile_evm" /\ kind[Source] # "profile_solana"
    <2>1. 1 \in DOMAIN list /\ r = list[1]
      BY <1>3 DEF Record
    <2>2. r \in Trades /\ r.source = Source
      BY <1>4, <2>1
    <2>3. IsStored(r) /\ kind[r.source] # "profile_evm"
      BY <1>2 DEF CursorInv, StoredInv
    <2>4. kind[r.source] # "profile_solana"
      BY <2>1 DEF CursorInv, AheadInv
    <2>5. QED
      BY <2>1, <2>2, <2>3, <2>4
  <1>6. /\ \A i \in DOMAIN rest : i + 1 \in DOMAIN list /\ rest[i] = list[i + 1]
        /\ \A i \in DOMAIN list : i # 1 => i - 1 \in DOMAIN rest /\ rest[i - 1] = list[i]
        /\ DOMAIN rest \subseteq Nat
    BY <1>3
  <1>7. ASSUME NEW t \in Trades, MayPass(t)
        PROVE  MayPass(t)'
    <2>1. ASSUME IsQueued(t)
          PROVE  IsStored(t)' \/ IsQueued(t)'
      <3>1. PICK i \in DOMAIN list : list[i] = t
        BY <2>1 DEF IsQueued
      <3>2. CASE i = 1
        BY <1>1, <1>5, <3>1, <3>2 DEF IsStored
      <3>3. CASE i # 1
        <4>1. i - 1 \in DOMAIN queue'["live"] /\ queue'["live"][i - 1] = t
          BY <1>3, <1>6, <3>1, <3>3
        <4>2. IsQueued(t)'
          BY <4>1 DEF IsQueued
        <4>3. QED
          BY <4>2
      <3>4. QED
        BY <3>2, <3>3
    <2>2. QED
      BY <1>1, <1>7, <2>1, MayPassStays
  <1>8. PassedInv'
    <2>1. ASSUME NEW t \in Trades, cursor'[t.source] >= CursorOf(t)
          PROVE  MayPass(t)'
      <3>1. CASE t.source = Source
        <4>1. CursorOf(t) <= CursorOf(list[1]) /\ t.source = list[1].source
          BY <1>3, <1>4, <1>5, <2>1, <3>1
        <4>2. MayPass(t)
          BY <1>5, <4>1 DEF CursorInv, PassedInv
        <4>3. QED
          BY <1>7, <4>2
      <3>2. CASE t.source # Source
        <4>1. cursor[t.source] >= CursorOf(t)
          BY <1>3, <1>4, <2>1, <3>2
        <4>2. MayPass(t)
          BY <4>1 DEF CursorInv, PassedInv
        <4>3. QED
          BY <1>7, <4>2
      <3>3. QED
        BY <3>1, <3>2
    <2>2. ASSUME NEW i \in DOMAIN rest, NEW t \in Trades, t.source = rest[i].source,
                 CursorOf(t) <= CursorOf(rest[i])
          PROVE  MayPass(t)'
      <3>1. i + 1 \in DOMAIN list /\ rest[i] = list[i + 1]
        BY <1>6
      <3>2. MayPass(t)
        BY <2>2, <3>1 DEF CursorInv, PassedInv
      <3>3. QED
        BY <1>7, <3>2
    <2> HIDE DEF rest, list, r
    <2>3. QED
      BY <1>1, <1>3, <2>1, <2>2 DEF PassedInv, CursorOf
  <1>9. ASSUME NEW i \in DOMAIN rest
        PROVE  /\ kind[rest[i].source] # "profile_solana"
               /\ \/ cursor'[rest[i].source] < CursorOf(rest[i])
                  \/ kind[rest[i].source] = "evm" /\ HasEarlier(rest[i])
    <2>1. i + 1 \in DOMAIN list /\ rest[i] = list[i + 1] /\ 1 < i + 1
      BY <1>4, <1>6
    <2>2. PICK t \in Trades : t = rest[i] /\ t = list[i + 1] /\ t.source = Source
      BY <1>4, <2>1
    <2>3. r.at < t.at
      BY <1>5, <2>1, <2>2 DEF CursorInv, AheadInv
    <2>4. /\ r.at \in Nat /\ t.at \in Nat /\ r.block \in Nat /\ t.block \in Nat
          /\ r.block <= t.block
      <3>1. /\ r.at \in Nat /\ t.at \in Nat /\ r.block \in Nat /\ t.block \in Nat
        BY <1>5, TradePlaces
      <3>2. r.block <= t.block
        BY <1>5, <2>2, <2>3, FeatureSyncAssumption
      <3>3. QED
        BY <3>1, <3>2
    <2>5. cursor'[t.source] = CursorOf(r)
      BY <1>3, <1>4, <2>2
    <2>6. kind[Source] \in {"solana", "evm"}
      <3>1. Source \in DOMAIN Sources
        BY <1>4, <1>5
      <3>2. QED
        BY <1>5, <3>1 DEF CursorInv, StoredInv
    <2>7. CASE kind[Source] = "solana"
      <3>1. CursorOf(r) = r.at /\ CursorOf(t) = t.at
        BY <1>5, <2>2, <2>7 DEF CursorOf
      <3>2. QED
        BY <2>2, <2>3, <2>5, <2>7, <3>1
    <2>8. CASE kind[Source] = "evm"
      <3>1. CursorOf(r) = r.block /\ CursorOf(t) = t.block
        BY <1>5, <2>2, <2>8 DEF CursorOf
      <3>2. r.block = t.block => HasEarlier(t)
        BY <1>5, <2>2, <2>3 DEF HasEarlier
      <3>3. r.block # t.block => CursorOf(r) < CursorOf(t)
        BY <2>4, <3>1
      <3>4. QED
        BY <2>2, <2>5, <2>8, <3>2, <3>3
    <2>9. QED
      BY <2>6, <2>7, <2>8
  <1>10. AheadInv'
    <2>1. ASSUME NEW i \in DOMAIN rest, NEW j \in DOMAIN rest, i < j
          PROVE  rest[i].at < rest[j].at
      <3>1. /\ i + 1 \in DOMAIN list /\ rest[i] = list[i + 1]
            /\ j + 1 \in DOMAIN list /\ rest[j] = list[j + 1]
            /\ i + 1 < j + 1
        BY <1>6, <2>1
      <3>2. QED
        BY <3>1 DEF CursorInv, AheadInv
    <2> HIDE DEF rest
    <2>2. QED
      BY <1>1, <1>3, <1>9, <2>1 DEF AheadInv, CursorOf, HasEarlier
  <1>11. StoredInv'
    <2>1. \A s \in DOMAIN Sources :
            /\ kind'[s] \in {"solana", "evm", "profile_solana", "profile_evm"}
            /\ kind'[s] \in {"profile_solana", "profile_evm"} => cursor'[s] = 0
      <3> HIDE DEF r
      <3>1. QED
        BY <1>1, <1>3, <1>4, <1>5 DEF CursorInv, StoredInv
    <2>2. pc'["live"] \notin WithRecord
      BY <1>3 DEF WithRecord, WithTrade, WithQuote
    <2>3. QED
      BY <2>1, <2>2 DEF StoredInv
  <1>12. QED
    BY <1>8, <1>10, <1>11 DEF CursorInv

\* What the live worker goes on with was stored before.
LEMMA StoredKept ==
  ASSUME Inv, CursorInv, [Next]_vars, cursor' = cursor, queue'["live"] = queue["live"],
         pc'["live"] \in WithRecord =>
           \/ pc["live"] \in WithRecord
           \/ /\ Row("live", Record("live")) \in raw' /\ queue["live"] # <<>>
              /\ ~CannotCollect(Source)
  PROVE  StoredInv'
  <1>1. kind' = kind /\ raw \subseteq raw'
    BY WorldGrows
  <1>2. Record("live")' = Record("live")
    BY DEF Record
  <1>3. ASSUME pc'["live"] \in WithRecord
        PROVE  IsStored(Record("live"))' /\ kind'[Record("live").source] # "profile_evm"
    <2>1. CASE pc["live"] \in WithRecord
      <3>1. IsStored(Record("live")) /\ kind[Record("live").source] # "profile_evm"
        BY <2>1 DEF CursorInv, StoredInv
      <3>2. QED
        BY <1>1, <1>2, <3>1 DEF IsStored
    <2>2. CASE pc["live"] \notin WithRecord
      <3>1. /\ Row("live", Record("live")) \in raw' /\ queue["live"] # <<>>
            /\ ~CannotCollect(Source)
        BY <1>3, <2>2
      <3>2. Record("live") = queue["live"][1] /\ 1 \in DOMAIN queue["live"]
        BY <3>1, InHandTrades DEF Record
      <3>3. Record("live").source = Source
        BY <3>2, InHandTrades
      <3>4. IsStored(Record("live"))'
        BY <1>2, <3>1 DEF IsStored, Row
      <3>5. QED
        BY <1>1, <3>1, <3>3, <3>4 DEF CannotCollect
    <2>3. QED
      BY <2>1, <2>2
  <1>4. QED
    BY <1>1, <1>2, <1>3 DEF CursorInv, StoredInv

\* Every step keeps the cursors right.
LEMMA CursorKept ==
  ASSUME Inv, CursorInv, [Next]_vars
  PROVE  CursorInv'
  <1>1. "live" \in Ingesters /\ "backfill" \in Ingesters /\ Ingesters = {"live", "backfill"}
    BY DEF Ingesters
  <1>2. pc \in [Ingesters -> Steps] /\ queue \in [Ingesters -> Seq(Records)]
    BY DEF Inv, HandInv
  <1>3. ASSUME cursor' = cursor, queue'["live"] = queue["live"],
               pc'["live"] \in WithRecord =>
                 \/ pc["live"] \in WithRecord
                 \/ /\ Row("live", Record("live")) \in raw' /\ queue["live"] # <<>>
                    /\ ~CannotCollect(Source)
        PROVE  CursorInv'
    <2>1. StoredInv'
      BY <1>3, StoredKept
    <2>2. PassedInv' /\ AheadInv'
      BY <1>3, WorldGrows, CursorsLeft DEF CursorInv
    <2>3. QED
      BY <2>1, <2>2 DEF CursorInv
  <1>4. CASE \/ Mine \/ Tick \/ Import \/ Refresh \/ UNCHANGED vars
             \/ \E w \in WalletWorkers : Wallet(w) \/ WorkerRaises(w)
    <2>1. UNCHANGED <<cursor, pc, queue>>
      BY <1>4, OthersLeaveHands DEF ingest
    <2>2. QED
      BY <1>3, <2>1
  <1>5. CASE BeginSync \/ EndSync \/ SkipSource \/ SourceDone \/ BeginBackfill \/ EndBackfill
    <2>1. cursor' = cursor /\ queue'["live"] = queue["live"]
      BY <1>1, <1>2, <1>5 DEF BeginSync, EndSync, SkipSource, SourceDone, BeginBackfill,
                              EndBackfill, feed, ingest
    <2>2. pc'["live"] \in WithRecord => pc["live"] \in WithRecord
      BY <1>1, <1>2, <1>5 DEF BeginSync, EndSync, SkipSource, SourceDone, BeginBackfill,
                              EndBackfill, Goto, ingest, WithRecord, WithTrade, WithQuote
    <2>3. QED
      BY <1>3, <2>1, <2>2
  <1>6. ASSUME SourceFails
        PROVE  /\ queue'["live"] = <<>> /\ cursor' = cursor /\ pc'["live"] \notin WithRecord
    BY <1>1, <1>2, <1>6 DEF SourceFails, WithRecord, WithTrade, WithQuote
  <1>7. CASE Fetch
    <2>1. CASE CannotFetch(Source)
      <3>1. queue["live"] = <<>> /\ SourceFails
        BY <1>1, <1>7, <2>1 DEF Fetch, Inv, HandInv
      <3>2. QED
        BY <1>6, <3>1, LetGo
    <2>2. CASE ~CannotFetch(Source)
      BY <1>7, <2>2, FetchKeepsCursors
    <2>3. QED
      BY <2>1, <2>2
  <1>8. CASE CollectRaises
    <2>1. SourceFails /\ kind[Source] = "profile_evm"
      BY <1>8 DEF CollectRaises, CannotCollect
    <2>2. QED
      BY <1>6, <2>1, LetGo
  <1>9. CASE LiveRaises /\ faults' = faults + 1
    <2>1. SourceFails /\ faults' > 0
      BY <1>9 DEF LiveRaises, Inv, FeedTyped
    <2>2. QED
      BY <1>6, <2>1, LetGo
  <1>10. ASSUME NEW p \in Ingesters, IngesterDies(p), faults' \in {faults, faults + 1},
                p = "live" => faults' = faults + 1
         PROVE  CursorInv'
    <2>1. cursor' = cursor
      BY <1>10 DEF IngesterDies
    <2>2. CASE p = "live"
      <3>1. queue'["live"] = <<>> /\ pc'["live"] \notin WithRecord
        BY <1>1, <1>2, <1>10, <2>2 DEF IngesterDies, Goto, WithRecord, WithTrade, WithQuote
      <3>2. faults' > 0
        BY <1>10, <2>2 DEF Inv, FeedTyped
      <3>3. QED
        BY <2>1, <3>1, <3>2, LetGo
    <2>3. CASE p = "backfill"
      <3>1. queue'["live"] = queue["live"] /\ pc'["live"] = pc["live"]
        BY <1>1, <1>2, <1>10, <2>3 DEF IngesterDies, Goto
      <3>2. QED
        BY <1>3, <2>1, <3>1
    <2>4. QED
      BY <1>1, <2>2, <2>3
  <1>11. ASSUME NEW p \in Ingesters, Ingest(p)
         PROVE  CursorInv'
    <2>1. CASE CollectTrade(p) \/ CollectQuote(p)
      <3>1. /\ UNCHANGED <<cursor, queue>> /\ queue[p] # <<>>
            /\ Row(p, Record(p)) \in raw'
            /\ p = "live" => ~CannotCollect(Source)
        BY <2>1 DEF CollectTrade, CollectQuote, Collect, feed
      <3>2. p # "live" => pc'["live"] = pc["live"]
        BY <1>1, <1>2, <2>1 DEF CollectTrade, CollectQuote, Collect, Goto
      <3>3. QED
        BY <1>3, <3>1, <3>2
    <2>2. CASE \/ PublishFact(p) \/ UpsertFact(p) \/ Rebuild(p) \/ UpsertWindow(p)
      <3>1. UNCHANGED <<cursor, queue>>
        BY <2>2 DEF PublishFact, UpsertFact, Rebuild, UpsertWindow, feed
      <3>2. pc'["live"] = pc["live"] \/ pc["live"] \in WithRecord
        BY <1>1, <1>2, <2>2 DEF PublishFact, UpsertFact, Rebuild, UpsertWindow, Goto, WithRecord,
                                WithTrade
      <3>3. QED
        BY <1>3, <3>1, <3>2
    <2>3. CASE \/ AppendSample(p) \/ LoadSamples(p) \/ UpsertCurve(p)
      <3>1. UNCHANGED <<cursor, queue>>
        BY <2>3 DEF AppendSample, LoadSamples, UpsertCurve, feed
      <3>2. pc'["live"] = pc["live"] \/ pc["live"] \in WithRecord
        BY <1>1, <1>2, <2>3 DEF AppendSample, LoadSamples, UpsertCurve, Goto, WithRecord, WithQuote
      <3>3. QED
        BY <1>3, <3>1, <3>2
    <2>4. CASE SaveBuyPressure(p) \/ SaveSlippage(p) \/ PublishLatest(p)
      <3>1. UNCHANGED <<cursor, queue>>
        BY <2>4 DEF SaveBuyPressure, SaveSlippage, SaveSnapshot, PublishLatest, feed
      <3>2. pc'["live"] = pc["live"] \/ pc["live"] \in WithRecord
        BY <1>1, <1>2, <2>4 DEF SaveBuyPressure, SaveSlippage, SaveSnapshot, PublishLatest, Goto,
                                WithRecord
      <3>3. QED
        BY <1>3, <3>1, <3>2
    <2>5. CASE Done(p)
      <3>1. CASE p = "live"
        BY <2>5, <3>1, DoneKeepsCursors
      <3>2. CASE p = "backfill"
        <4>1. /\ cursor' = cursor /\ queue'["live"] = queue["live"]
              /\ pc'["live"] = pc["live"]
          BY <1>1, <1>2, <2>5, <3>2 DEF Done, Goto
        <4>2. QED
          BY <1>3, <4>1
      <3>3. QED
        BY <1>1, <3>1, <3>2
    <2>6. QED
      BY <1>11, <2>1, <2>2, <2>3, <2>4, <2>5 DEF Ingest
  <1>12. QED
    BY <1>4, <1>5, <1>7, <1>8, <1>9, <1>10, <1>11, StepsOneByOne

\* The cursor of a source passes nothing in its reach that is neither stored nor in hand,
\* unless a fault came between it and an earlier trade of its block.
THEOREM NothingPassedUnstored == Spec => []CursorPassesStored
  <1>1. ASSUME Init PROVE CursorInv
    <2>1. \A t \in Trades : ~(cursor[t.source] >= CursorOf(t))
      <3>1. \A t \in Trades : cursor[t.source] = 0
        BY <1>1, FeatureSyncAssumption DEF Init
      <3>2. \A t \in Trades : CursorOf(t) \in Nat \ {0}
        BY CursorsGrow
      <3>3. QED
        BY <3>1, <3>2
    <2>2. DOMAIN queue["live"] = {} /\ pc["live"] \notin WithRecord
      BY <1>1 DEF Init, Ingesters, WithRecord, WithTrade, WithQuote
    <2>3. \A s \in DOMAIN Sources :
            /\ kind[s] \in {"solana", "evm", "profile_solana", "profile_evm"} /\ cursor[s] = 0
      BY <1>1, DeploymentsAssumption DEF Init
    <2>4. QED
      BY <2>1, <2>2, <2>3 DEF CursorInv, PassedInv, AheadInv, StoredInv
  <1>2. Init => Inv /\ CursorInv
    BY <1>1, InitInv
  <1>3. Inv /\ CursorInv /\ [Next]_vars => (Inv /\ CursorInv)'
    BY Kept, CursorKept
  <1>4. CursorInv => CursorPassesStored
    <2>1. CursorInv => \A t \in Trades : cursor[t.source] >= CursorOf(t) => MayPass(t)
      BY DEF CursorInv, PassedInv
    <2>2. QED
      BY <2>1 DEF CursorPassesStored, MayPass, IsStored, IsQueued, IsBroken, HasEarlier
  <1>5. QED
    BY <1>2, <1>3, <1>4, PTL DEF Spec

-----------------------------------------------------------------------------
(* What is lost.                                                             *)

\* One process, at most, ingests.
Solo == ~(Ingesters \subseteq running)

\* The samples a curve is made of.
Recent == {q \in samples : Cardinality(Newer(q)) < SampleLimit}

\* A process that does not run has nothing in hand; a record in hand that is past its
\* publication is published; raw events are stored one by one.
RunningInv ==
    /\ \A p \in Ingesters :
         /\ p \notin running => pc[p] = "idle"
         /\ pc[p] \in WithRecord \ {"fact", "done"} => Published(Record(p))
    /\ IsFiniteSet(raw)

\* Between two steps of the one process that ingests, its hand holds what the store does,
\* and a trade is counted in the windows that are behind.
HandCounts(p) ==
    /\ pc[p] \in {"rebuild", "window", "snapshot"} /\ ~IsQuote(Record(p)) =>
         Record(p) \in facts /\ \A i \in DOMAIN Spans : i < nth[p] => CountedIn(Record(p), i)
    /\ pc[p] \in {"window", "snapshot"} /\ ~IsQuote(Record(p)) =>
         loaded[p] = FactsOf(nth[p], Record(p).block)
    /\ pc[p] = "snapshot" /\ ~IsQuote(Record(p)) =>
         windows[nth[p]][Record(p).block] = loaded[p]
    /\ pc[p] \in {"load", "curve", "snapshot"} /\ IsQuote(Record(p)) => Record(p) \in samples
    /\ pc[p] \in {"curve", "snapshot"} /\ IsQuote(Record(p)) => loaded[p] = Recent
    /\ pc[p] = "snapshot" /\ IsQuote(Record(p)) => curves[LastBlock(loaded[p])] = loaded[p]
    /\ pc[p] = "latest" => Counted(Record(p))

CountInv == Solo => \A p \in Ingesters : HandCounts(p)

\* What was stored and is neither in hand nor published and counted.
Lost == {row \in raw : /\ \A p \in Ingesters : ~(InHand(p, row[2]) /\ row = Row(p, row[2]))
                       /\ \/ ~Published(row[2])
                          \/ ~Counted(row[2]) /\ Solo}

\* What is published stays so.
LEMMA PublishedStays ==
  ASSUME Inv, [Next]_vars, NEW r, Published(r)
  PROVE  Published(r)'
  <1>1. \A i \in DOMAIN stream : i \in DOMAIN stream' /\ stream'[i] = stream[i]
    <2>1. /\ stream \in Seq(Records \cup {None}) /\ stream' \in Seq(Records \cup {None})
          /\ Len(stream) \in Nat /\ Len(stream') \in Nat /\ Len(stream) <= Len(stream')
          /\ \A i \in 1 .. Len(stream) : stream'[i] = stream[i]
      BY StreamStays DEF Inv, StreamTyped
    <2>2. DOMAIN stream = 1 .. Len(stream) /\ DOMAIN stream' = 1 .. Len(stream')
      BY <2>1
    <2>3. QED
      BY <2>1, <2>2
  <1>2. QED
    BY <1>1 DEF Published, IsQuote

\* Quotes are finitely many.
LEMMA QuotesFinite == IsFiniteSet(Quotes) /\ \A q \in Quotes : q.at \in 1 .. MaxHeight
  <1>1. \A q \in Quotes : q.at \in 1 .. MaxHeight /\ q = Quote(q.at)
    BY DEF Quotes, Quote
  <1>2. \A q \in Quotes : \A u \in Quotes : q.at = u.at => q = u
    BY <1>1, Zenon
  <1>3. IsFiniteSet(1 .. MaxHeight)
    <2>1. MaxHeight \in Nat
      BY FeatureSyncAssumption
    <2>2. QED
      BY <2>1, FS_Interval
  <1> DEFINE at == [q \in Quotes |-> q.at]
  <1>4. at \in Injection(Quotes, 1 .. MaxHeight)
    BY <1>1, <1>2 DEF Injection, IsInjective
  <1> HIDE DEF at
  <1>5. IsFiniteSet(Quotes)
    BY <1>3, <1>4, FS_Injection
  <1>6. QED
    BY <1>1, <1>5

\* Samples are finitely many, and the newest of them are recent.
LEMMA SamplesFinite ==
  ASSUME TablesTyped
  PROVE  /\ \A q : IsFiniteSet(Newer(q)) /\ Cardinality(Newer(q)) \in Nat
         /\ SampleLimit \in Nat \ {0}
         /\ samples # {} => \E q \in samples : Newer(q) = {}
  <1>1. IsFiniteSet(samples) /\ \A q \in samples : q.at \in 1 .. MaxHeight
    <2>1. samples \subseteq Quotes
      BY DEF TablesTyped
    <2>2. QED
      BY <2>1, QuotesFinite, FS_Subset
  <1>2. ASSUME NEW q
        PROVE  IsFiniteSet(Newer(q)) /\ Cardinality(Newer(q)) \in Nat
    <2>1. Newer(q) \subseteq samples
      BY DEF Newer
    <2>2. QED
      BY <1>1, <2>1, FS_Subset, FS_CardinalityType
  <1>3. ASSUME samples # {}
        PROVE  \E q \in samples : Newer(q) = {}
    <2> DEFINE Times == {q.at : q \in samples}
    <2>1. Times \in SUBSET Nat /\ Times # {} /\ MaxHeight \in Nat /\ \A y \in Times : y <= MaxHeight
      BY <1>1, <1>3, Limits
    <2>2. \E m \in Times : \A y \in Times : y <= m
      <3> HIDE DEF Times
      <3>1. QED
        BY <2>1, MaxIsGreatest
    <2>3. PICK q \in samples : \A u \in samples : u.at <= q.at
      BY <2>2
    <2>4. \A u \in samples : ~(u.at > q.at)
      BY <1>1, <2>3
    <2>5. QED
      BY <2>4 DEF Newer
  <1>4. QED
    BY <1>2, <1>3, Limits

\* The last block of some samples is one that may be.
LEMMA LastBlockIn ==
  ASSUME TablesTyped, NEW S \in SUBSET samples, S # {}
  PROVE  LastBlock(S) \in 1 .. MaxHeight
  <1>1. \A q \in samples : q.block \in 1 .. MaxHeight
    BY DEF TablesTyped, Quotes, Quote
  <1> DEFINE Blocks == {q.block : q \in S}
  <1>2. /\ Blocks \in SUBSET Nat /\ Blocks # {} /\ MaxHeight \in Nat
        /\ \A y \in Blocks : y \in 1 .. MaxHeight /\ y <= MaxHeight
    BY <1>1, Limits
  <1>3. LastBlock(S) = Max(Blocks)
    BY DEF LastBlock
  <1> HIDE DEF Blocks
  <1>4. Max(Blocks) \in Blocks
    BY <1>2, MaxIsGreatest
  <1>5. QED
    BY <1>2, <1>3, <1>4

\* The older facts of a window are finitely many.
LEMMA OlderFinite ==
  ASSUME TablesTyped, NEW t, NEW i, NEW b
  PROVE  /\ IsFiniteSet(Older(t, i, b)) /\ Cardinality(Older(t, i, b)) \in Nat
         /\ FactLimit \in Nat \ {0}
  <1>1. IsFiniteSet(Trades) /\ facts \subseteq Trades
    BY FeatureSyncAssumption DEF TablesTyped
  <1>2. Older(t, i, b) \subseteq Trades
    BY <1>1 DEF Older, InWindow
  <1>3. QED
    BY <1>1, <1>2, FS_Subset, FS_CardinalityType, Limits

\* A stored fact is among the oldest of a window it ends, or others crowd it out.
LEMMA LoadedOrCrowdedOut ==
  ASSUME TablesTyped, NEW r \in facts, NEW i \in DOMAIN Spans
  PROVE  r \in FactsOf(i, r.block) \/ CrowdedOut(r, i)
  <1>1. r.block \in Nat
    BY TradePlaces DEF TablesTyped
  <1>2. r \in InWindow(i, r.block)
    BY <1>1, SpansAre DEF InWindow
  <1>3. Cardinality(Older(r, i, r.block)) \in Nat /\ FactLimit \in Nat \ {0}
    BY OlderFinite
  <1>4. QED
    BY <1>2, <1>3 DEF FactsOf, CrowdedOut

\* The tables of facts and samples grow.
LEMMA StoreGrows ==
  ASSUME Inv, [Next]_vars
  PROVE  facts \subseteq facts' /\ samples \subseteq samples' /\ TablesTyped'
  <1>1. CASE UNCHANGED tables
    BY <1>1, TablesKept DEF tables, trades, quotes
  <1>2. ASSUME NEW p \in Ingesters,
               \/ CollectTrade(p) \/ CollectQuote(p) \/ UpsertFact(p) \/ UpsertWindow(p)
               \/ AppendSample(p) \/ UpsertCurve(p) \/ SaveBuyPressure(p) \/ SaveSlippage(p)
        PROVE  facts \subseteq facts' /\ samples \subseteq samples'
    BY <1>2 DEF CollectTrade, CollectQuote, Collect, UpsertFact, AppendSample, UpsertCurve,
                UpsertWindow, SaveBuyPressure, SaveSlippage, SaveSnapshot, trades, quotes
  <1>3. QED
    BY <1>1, <1>2, TablesLeft, TablesKept

\* Who is crowded out stays out.
LEMMA CrowdedOutStays ==
  ASSUME Inv, [Next]_vars, NEW r, NEW i, CrowdedOut(r, i)
  PROVE  CrowdedOut(r, i)'
  <1> DEFINE In1 == {t \in facts : r.block - Spans[i] < t.block /\ t.block <= r.block}
             In2 == {t \in facts' : r.block - Spans[i] < t.block /\ t.block <= r.block}
             Older1 == {u \in In1 : u.rank < r.rank}
             Older2 == {u \in In2 : u.rank < r.rank}
  <1>1. facts \subseteq facts' /\ TablesTyped /\ facts' \subseteq Trades
    BY StoreGrows DEF Inv, TablesTyped
  <1>2. Older(r, i, r.block) = Older1 /\ Older(r, i, r.block)' = Older2
    BY DEF Older, InWindow
  <1>3. Older1 \subseteq Older2 /\ Older2 \subseteq Trades
    BY <1>1
  <1> HIDE DEF In1, In2, Older1, Older2
  <1>4. IsFiniteSet(Older2)
    BY <1>3, FS_Subset, FeatureSyncAssumption
  <1>5. Cardinality(Older1) \in Nat /\ FactLimit \in Nat
    BY <1>1, <1>2, OlderFinite
  <1>6. Cardinality(Older1) <= Cardinality(Older2) /\ Cardinality(Older2) \in Nat
    BY <1>3, <1>4, FS_Subset, FS_CardinalityType
  <1>7. Cardinality(Older1) >= FactLimit
    BY <1>2 DEF CrowdedOut
  <1>8. Cardinality(Older2) >= FactLimit
    BY <1>5, <1>6, <1>7
  <1>9. QED
    BY <1>2, <1>8 DEF CrowdedOut

\* While one process ingests, a trade that is counted in a window stays so: the window is
\* replaced by one that counts it too, or others have crowded it out.
LEMMA CountedInStays ==
  ASSUME Inv, CountInv, Solo, [Next]_vars, NEW r \in Trades, NEW i \in DOMAIN Spans,
         CountedIn(r, i)
  PROVE  CountedIn(r, i)'
  <1> DEFINE b == r.block
  <1>1. /\ TablesTyped /\ \A p \in Ingesters : HandCounts(p)
        /\ nth \in [Ingesters -> DOMAIN Spans]
        /\ b \in 1 .. MaxHeight
    BY TradePlaces DEF Inv, CountInv, NthTyped
  <1>2. CASE CrowdedOut(r, i)
    BY <1>2, CrowdedOutStays DEF CountedIn
  <1>3. CASE ~CrowdedOut(r, i)
    <2>1. r \in windows[i][b] /\ r \in pressures[i][b]
      BY <1>3 DEF CountedIn
    <2>2. r \in FactsOf(i, b)
      <3>1. r \in facts
        BY <1>1, <2>1 DEF TablesTyped
      <3>2. QED
        BY <1>1, <1>3, <3>1, LoadedOrCrowdedOut
    <2> HIDE DEF b
    <2>3. windows' = windows \/ \E p \in Ingesters : UpsertWindow(p)
      <3>1. CASE UNCHANGED tables
        BY <3>1 DEF tables, trades
      <3>2. ASSUME NEW p \in Ingesters,
                   \/ CollectTrade(p) \/ CollectQuote(p) \/ UpsertFact(p)
                   \/ AppendSample(p) \/ UpsertCurve(p) \/ SaveBuyPressure(p) \/ SaveSlippage(p)
            PROVE  windows' = windows
        BY <3>2 DEF CollectTrade, CollectQuote, Collect, UpsertFact, AppendSample, UpsertCurve,
                    SaveBuyPressure, SaveSlippage, SaveSnapshot, trades
      <3>3. QED
        BY <3>1, <3>2, TablesLeft
    <2>4. pressures' = pressures \/ \E p \in Ingesters : SaveBuyPressure(p)
      <3>1. CASE UNCHANGED tables
        BY <3>1 DEF tables, snapshots
      <3>2. ASSUME NEW p \in Ingesters,
                   \/ CollectTrade(p) \/ CollectQuote(p) \/ UpsertFact(p) \/ UpsertWindow(p)
                   \/ AppendSample(p) \/ UpsertCurve(p) \/ SaveSlippage(p)
            PROVE  pressures' = pressures
        BY <3>2 DEF CollectTrade, CollectQuote, Collect, UpsertFact, AppendSample, UpsertCurve,
                    UpsertWindow, SaveSlippage, snapshots
      <3>3. QED
        BY <3>1, <3>2, TablesLeft
    <2>5. ASSUME NEW p \in Ingesters, pc[p] \in {"window", "snapshot"}, ~IsQuote(Record(p)),
                 NEW table \in [DOMAIN Spans -> [1 .. MaxHeight -> SUBSET facts]],
                 r \in table[i][b]
          PROVE  r \in [table EXCEPT ![nth[p]][Record(p).block] = loaded[p]][i][b]
      <3> DEFINE n == nth[p]
                 c == Record(p).block
      <3>1. HandCounts(p)
        BY <1>1
      <3>2. loaded[p] = FactsOf(n, c) /\ n \in DOMAIN Spans
        BY <1>1, <2>5, <3>1 DEF HandCounts
      <3> HIDE DEF n, c
      <3>3. n = i /\ c = b => r \in loaded[p]
        BY <2>2, <3>2
      <3>4. QED
        BY <1>1, <2>5, <3>2, <3>3 DEF n, c
    <2>6. r \in windows'[i][b]
      <3>1. ASSUME NEW p \in Ingesters, UpsertWindow(p)
            PROVE  r \in windows'[i][b]
        <4>1. /\ windows' = [windows EXCEPT ![nth[p]][Record(p).block] = loaded[p]]
              /\ pc[p] = "window"
          BY <3>1 DEF UpsertWindow
        <4>2. ~IsQuote(Record(p))
          BY <4>1 DEF Inv, HandInv, WithTrade
        <4>3. windows \in [DOMAIN Spans -> [1 .. MaxHeight -> SUBSET facts]]
          BY <1>1 DEF TablesTyped
        <4>4. QED
          BY <2>1, <2>5, <4>1, <4>2, <4>3
      <3>2. QED
        BY <2>1, <2>3, <3>1
    <2>7. r \in pressures'[i][b]
      <3>1. ASSUME NEW p \in Ingesters, SaveBuyPressure(p)
            PROVE  r \in pressures'[i][b]
        <4>1. /\ pressures' = [pressures EXCEPT ![nth[p]][Record(p).block] = loaded[p]]
              /\ pc[p] = "snapshot" /\ ~IsQuote(Record(p))
          BY <3>1 DEF SaveBuyPressure
        <4>2. pressures \in [DOMAIN Spans -> [1 .. MaxHeight -> SUBSET facts]]
          BY <1>1 DEF TablesTyped
        <4>3. QED
          BY <2>1, <2>5, <4>1, <4>2
      <3>2. QED
        BY <2>1, <2>4, <3>1
    <2>8. QED
      BY <2>6, <2>7 DEF CountedIn, b
  <1>4. QED
    BY <1>2, <1>3

\* While one process ingests, what is counted stays so: a sample leaves a curve for newer
\* ones only.
LEMMA CountedStays ==
  ASSUME Inv, CountInv, Solo, [Next]_vars, NEW r \in Records, Counted(r)
  PROVE  Counted(r)'
  <1>1. TablesTyped /\ \A p \in Ingesters : HandCounts(p)
    BY DEF Inv, CountInv
  <1>2. IsQuote(r)' = IsQuote(r)
    BY DEF IsQuote
  <1>3. CASE r \in Unclear
    BY <1>3 DEF Counted
  <1>4. CASE r \notin Unclear /\ ~IsQuote(r)
    <2>1. r \in Trades
      BY <1>4 DEF Records, Quotes, Quote, IsQuote
    <2>2. \A i \in DOMAIN Spans : CountedIn(r, i)
      BY <1>4 DEF Counted
    <2>3. \A i \in DOMAIN Spans : CountedIn(r, i)'
      BY <2>1, <2>2, CountedInStays
    <2>4. QED
      BY <1>4, <2>3 DEF Counted, IsQuote
  <1>5. CASE r \notin Unclear /\ IsQuote(r)
    <2>1. samples \subseteq samples' /\ TablesTyped'
      BY StoreGrows
    <2>2. ASSUME Cardinality(Newer(r)) >= SampleLimit
          PROVE  Cardinality(Newer(r)') >= SampleLimit
      <3> DEFINE Newer1 == {u \in samples : u.at > r.at}
                 Newer2 == {u \in samples' : u.at > r.at}
      <3>1. Newer(r) = Newer1 /\ Newer(r)' = Newer2
        BY DEF Newer
      <3>2. Newer1 \subseteq Newer2
        BY <2>1
      <3> HIDE DEF Newer1, Newer2
      <3>3. IsFiniteSet(Newer2) /\ Cardinality(Newer1) \in Nat
        <4>1. IsFiniteSet(samples')
          <5>1. samples' \subseteq Quotes
            BY <2>1 DEF TablesTyped
          <5>2. QED
            BY <5>1, QuotesFinite, FS_Subset
        <4>2. Newer2 \subseteq samples'
          BY DEF Newer2
        <4>3. QED
          BY <1>1, <3>1, <4>1, <4>2, FS_Subset, SamplesFinite
      <3>4. Cardinality(Newer1) <= Cardinality(Newer2) /\ Cardinality(Newer2) \in Nat
        BY <3>2, <3>3, FS_Subset, FS_CardinalityType
      <3>5. QED
        BY <2>2, <3>1, <3>3, <3>4, Limits
    <2>3. CASE Cardinality(Newer(r)) >= SampleLimit
      BY <1>5, <2>2, <2>3 DEF Counted, IsQuote
    <2>4. CASE ~(Cardinality(Newer(r)) >= SampleLimit)
      <3>1. PICK b \in 1 .. MaxHeight :
              r \in curves[b] /\ r \in slippages[b]
        BY <1>5, <2>4 DEF Counted
      <3>2. r \in Recent
        <4>1. r \in samples
          BY <1>1, <3>1 DEF TablesTyped
        <4>2. Cardinality(Newer(r)) < SampleLimit
          BY <1>1, <2>4, SamplesFinite
        <4>3. QED
          BY <4>1, <4>2 DEF Recent
      <3>3. r \in curves'[b]
        <4>1. ASSUME NEW p \in Ingesters, UpsertCurve(p)
              PROVE  r \in curves'[b]
          <5> DEFINE c == LastBlock(loaded[p])
          <5>1. curves' = [curves EXCEPT ![c] = loaded[p]] /\ pc[p] = "curve"
            BY <4>1 DEF UpsertCurve
          <5>2. IsQuote(Record(p)) /\ HandCounts(p)
            BY <1>1, <5>1 DEF Inv, HandInv, WithQuote
          <5>3. loaded[p] = Recent
            BY <5>1, <5>2 DEF HandCounts
          <5> HIDE DEF c
          <5>4. QED
            BY <1>1, <3>1, <3>2, <5>1, <5>3 DEF TablesTyped
        <4>2. CASE UNCHANGED tables
          BY <3>1, <4>2 DEF tables, quotes
        <4>3. ASSUME NEW p \in Ingesters,
                     \/ CollectTrade(p) \/ CollectQuote(p) \/ UpsertFact(p) \/ UpsertWindow(p)
                     \/ AppendSample(p) \/ SaveBuyPressure(p) \/ SaveSlippage(p)
              PROVE  curves' = curves
          BY <4>3 DEF CollectTrade, CollectQuote, Collect, UpsertFact, AppendSample,
                      UpsertWindow, SaveBuyPressure, SaveSlippage, SaveSnapshot, quotes
        <4>4. QED
          BY <3>1, <4>1, <4>2, <4>3, TablesLeft
      <3>4. r \in slippages'[b]
        <4>1. ASSUME NEW p \in Ingesters, SaveSlippage(p)
              PROVE  r \in slippages'[b]
          <5> DEFINE c == LastBlock(loaded[p])
          <5>1. /\ slippages' = [slippages EXCEPT ![c] = loaded[p]]
                /\ pc[p] = "snapshot" /\ IsQuote(Record(p))
            BY <4>1 DEF SaveSlippage
          <5>2. HandCounts(p)
            BY <1>1
          <5>3. loaded[p] = Recent
            BY <5>1, <5>2 DEF HandCounts
          <5> HIDE DEF c
          <5>4. QED
            BY <1>1, <3>1, <3>2, <5>1, <5>3 DEF TablesTyped
        <4>2. CASE UNCHANGED tables
          BY <3>1, <4>2 DEF tables, snapshots
        <4>3. ASSUME NEW p \in Ingesters,
                     \/ CollectTrade(p) \/ CollectQuote(p) \/ UpsertFact(p) \/ UpsertWindow(p)
                     \/ AppendSample(p) \/ UpsertCurve(p) \/ SaveBuyPressure(p)
              PROVE  slippages' = slippages
          BY <4>3 DEF CollectTrade, CollectQuote, Collect, UpsertFact, AppendSample, UpsertCurve,
                      UpsertWindow, SaveBuyPressure, snapshots
        <4>4. QED
          BY <3>1, <4>1, <4>2, <4>3, TablesLeft
      <3>5. QED
        BY <1>5, <3>3, <3>4 DEF Counted, IsQuote
    <2>5. QED
      BY <2>3, <2>4
  <1>6. QED
    BY <1>3, <1>4, <1>5

\* One process only is not idle while one ingests.
LEMMA Alone ==
  ASSUME RunningInv, Solo, NEW p \in Ingesters, pc[p] # "idle", NEW q \in Ingesters, q # p
  PROVE  pc[q] = "idle"
  BY DEF RunningInv, Solo, Ingesters

\* A hand that a step leaves as it was.
AsItWas(p) ==
    pc'[p] = pc[p] /\ queue'[p] = queue[p] /\ loaded'[p] = loaded[p] /\ nth'[p] = nth[p]

\* A hand that a step leaves as it is, or empties, and tables that it leaves.
LEMMA HandLeft ==
  ASSUME NEW p \in Ingesters, HandCounts(p), UNCHANGED tables,
         \/ pc'[p] \notin WithRecord \ {"done"}
         \/ AsItWas(p)
  PROVE  HandCounts(p)'
  <1>1. CASE pc'[p] \notin WithRecord \ {"done"}
    BY <1>1 DEF HandCounts, WithRecord, WithTrade, WithQuote
  <1>2. CASE AsItWas(p)
    <2>1. /\ pc'[p] = pc[p] /\ loaded'[p] = loaded[p] /\ nth'[p] = nth[p]
          /\ Record(p)' = Record(p)
          /\ UNCHANGED <<facts, samples, windows, curves, pressures, slippages>>
      BY <1>2 DEF AsItWas, Record, tables, trades, quotes, snapshots
    <2>2. \A q : Newer(q)' = Newer(q)
      BY <2>1 DEF Newer
    <2>3. Recent' = Recent
      BY <2>1 DEF Recent, Newer
    <2>4. LastBlock(loaded[p])' = LastBlock(loaded[p])
      BY <2>1 DEF LastBlock
    <2>5. \A r, i : CountedIn(r, i)' = CountedIn(r, i)
      BY <2>1 DEF CountedIn, CrowdedOut, Older, InWindow
    <2>6. \A i \in DOMAIN Spans : CountedIn(Record(p), i)' = CountedIn(Record(p), i)
      BY <2>1 DEF CountedIn, CrowdedOut, Older, InWindow
    <2>7. Counted(Record(p))' = Counted(Record(p))
      BY <2>1, <2>2, <2>6 DEF Counted, IsQuote, Newer
    <2>8. FactsOf(nth[p], Record(p).block)' = FactsOf(nth[p], Record(p).block)
      BY <2>1 DEF FactsOf, Older, InWindow
    <2>9. QED
      BY <2>1, <2>3, <2>4, <2>6, <2>7, <2>8, HandCounts(p) DEF HandCounts, IsQuote
  <1>3. QED
    BY <1>1, <1>2

\* The steps of ingestion that write no table of features.
Quiet(p) == CollectTrade(p) \/ CollectQuote(p) \/ PublishFact(p) \/ PublishLatest(p) \/ Done(p)

\* Every other step of an ingestion keeps what the hand of its process has counted.
LEMMA HandCountsKept ==
  ASSUME Inv, CountInv, Solo, [Next]_vars, NEW p \in Ingesters, Ingest(p)
  PROVE  HandCounts(p)'
  <1> DEFINE r == Record(p)
             b == r.block
             n == nth[p]
  <1>1. HandInv /\ TablesTyped /\ HandCounts(p)
    BY DEF Inv, CountInv
  <1>2. /\ pc \in [Ingesters -> Steps] /\ loaded \in [Ingesters -> SUBSET (facts \cup samples)]
        /\ nth \in [Ingesters -> DOMAIN Spans] /\ nth[p] \in 1 .. Len(Spans)
    BY SpansAre DEF Inv, HandInv, NthTyped
  <1>3. ASSUME Quiet(p)
        PROVE  HandCounts(p)'
    <2>1. pc'[p] \in {"fact", "sample", "done", "upsert", "record"}
      BY <1>2, <1>3 DEF Quiet, CollectTrade, CollectQuote, Collect, PublishFact, PublishLatest,
                        Done, Goto
    <2>2. QED
      BY <2>1 DEF HandCounts
  <1>4. CASE UpsertFact(p)
    <2>1. /\ pc'[p] = "rebuild" /\ facts' = facts \cup {r} /\ queue' = queue /\ nth'[p] = 1
      BY <1>2, <1>4 DEF UpsertFact, Goto
    <2>2. Record(p)' = r
      BY <2>1 DEF Record
    <2>3. \A i \in DOMAIN Spans : ~(i < nth'[p])
      BY <2>1, SpansAre
    <2>4. QED
      BY <2>1, <2>2, <2>3 DEF HandCounts
  <1>5. CASE Rebuild(p) \/ UpsertWindow(p)
    <2>1. /\ pc[p] \in {"rebuild", "window"} /\ pc'[p] \in {"window", "snapshot"}
          /\ loaded'[p] = FactsOf(n, b)
          /\ pc'[p] = "snapshot" => windows'[n][b] = loaded'[p]
          /\ UNCHANGED <<queue, facts, nth>>
      <3>1. CASE Rebuild(p)
        BY <1>2, <3>1 DEF Rebuild, Goto, tables, trades
      <3>2. CASE UpsertWindow(p)
        <4>1. /\ pc[p] = "window" /\ pc'[p] = "snapshot" /\ loaded' = loaded
              /\ windows' = [windows EXCEPT ![n][b] = loaded[p]]
              /\ UNCHANGED <<queue, facts, nth>>
          BY <1>2, <3>2 DEF UpsertWindow, Goto
        <4>2. ~IsQuote(r)
          BY <1>1, <4>1 DEF HandInv, WithTrade
        <4>3. r \in facts /\ loaded[p] = FactsOf(n, b)
          BY <1>1, <4>1, <4>2 DEF HandCounts
        <4>4. b \in 1 .. MaxHeight /\ n \in DOMAIN Spans
          BY <1>1, <1>2, <4>3, TradePlaces DEF TablesTyped
        <4> HIDE DEF r, b, n
        <4>5. windows'[n][b] = loaded[p]
          BY <1>1, <4>1, <4>4 DEF TablesTyped
        <4>6. QED
          BY <4>1, <4>3, <4>5
      <3>3. QED
        BY <1>5, <3>1, <3>2
    <2>2. ~IsQuote(r)
      BY <1>1, <2>1 DEF HandInv, WithTrade
    <2>3. r \in facts /\ \A i \in DOMAIN Spans : i < n => CountedIn(r, i)
      BY <1>1, <2>1, <2>2 DEF HandCounts
    <2>4. r \in Trades
      BY <1>1, <2>3 DEF TablesTyped
    <2> HIDE DEF r
    <2>5. PICK x \in Trades : x = r
      BY <2>4
    <2>6. Record(p)' = x /\ nth'[p] = n /\ Record(p)'.block = b
      BY <2>1, <2>5 DEF Record, r
    <2> HIDE DEF b, n
    <2>7. \A i \in DOMAIN Spans : i < nth'[p] => CountedIn(Record(p), i)'
      <3>1. \A i \in DOMAIN Spans : i < n => CountedIn(x, i)'
        BY <2>3, <2>5, CountedInStays
      <3>2. QED
        BY <2>6, <3>1 DEF CountedIn, CrowdedOut, Older, InWindow
    <2>8. FactsOf(nth[p], Record(p).block)' = FactsOf(n, b)
      BY <2>1, <2>6 DEF FactsOf, Older, InWindow
    <2>9. QED
      BY <2>1, <2>2, <2>3, <2>5, <2>6, <2>7, <2>8 DEF HandCounts, IsQuote
  <1>7. CASE AppendSample(p)
    <2>1. /\ pc[p] = "sample" /\ pc'[p] = "load" /\ samples' = samples \cup {r} /\ queue' = queue
      BY <1>2, <1>7 DEF AppendSample, Goto
    <2>2. Record(p)' = r
      BY <2>1 DEF Record
    <2>3. QED
      BY <2>1, <2>2 DEF HandCounts
  <1>8. CASE LoadSamples(p)
    <2>1. /\ pc[p] = "load" /\ pc'[p] = "curve" /\ loaded'[p] = Recent
          /\ UNCHANGED <<queue, samples>>
      BY <1>2, <1>8 DEF LoadSamples, Recent, Goto, tables, quotes
    <2>2. Record(p)' = r
      BY <2>1 DEF Record
    <2>3. r \in samples /\ IsQuote(r)
      BY <1>1, <2>1 DEF HandCounts, HandInv, WithQuote
    <2>4. Recent' = Recent
      BY <2>1 DEF Recent, Newer
    <2> HIDE DEF r
    <2>5. QED
      BY <2>1, <2>2, <2>3, <2>4 DEF HandCounts, IsQuote
  <1>9. CASE UpsertCurve(p)
    <2> DEFINE c == LastBlock(loaded[p])
    <2>1. /\ pc[p] = "curve" /\ pc'[p] = "snapshot" /\ loaded' = loaded
          /\ curves' = [curves EXCEPT ![c] = loaded[p]]
          /\ UNCHANGED <<queue, samples>>
      BY <1>2, <1>9 DEF UpsertCurve, Goto
    <2>2. Record(p)' = r
      BY <2>1 DEF Record
    <2>3. IsQuote(r)
      BY <1>1, <2>1 DEF HandInv, WithQuote
    <2>4. r \in samples /\ loaded[p] = Recent
      BY <1>1, <2>1, <2>3 DEF HandCounts
    <2>5. Recent' = Recent
      BY <2>1 DEF Recent, Newer
    <2>6. c \in 1 .. MaxHeight
      <3>1. PICK q \in samples : Newer(q) = {}
        BY <1>1, <2>4, SamplesFinite
      <3>2. Cardinality(Newer(q)) = 0 /\ SampleLimit \in Nat \ {0}
        BY <1>1, <3>1, FS_EmptySet, SamplesFinite
      <3>3. q \in Recent /\ Recent \subseteq samples
        BY <3>2 DEF Recent
      <3>4. QED
        BY <1>1, <2>4, <3>3, LastBlockIn
    <2>7. LastBlock(loaded[p])' = c
      BY <2>1 DEF LastBlock
    <2> HIDE DEF r, c
    <2>8. curves'[c] = loaded[p]
      BY <1>1, <2>1, <2>6 DEF TablesTyped
    <2>9. QED
      BY <2>1, <2>2, <2>3, <2>4, <2>5, <2>7, <2>8 DEF HandCounts, IsQuote
  <1>10. CASE SaveBuyPressure(p)
    <2>1. /\ pc[p] = "snapshot" /\ ~IsQuote(r)
          /\ pressures' = [pressures EXCEPT ![n][b] = loaded[p]]
          /\ \/ pc'[p] = "rebuild" /\ n < Len(Spans) /\ nth'[p] = n + 1
             \/ pc'[p] = "latest" /\ ~(n < Len(Spans)) /\ nth'[p] = n
          /\ UNCHANGED <<queue, facts, windows>>
      BY <1>2, <1>10 DEF SaveBuyPressure, SaveSnapshot, Goto, trades
    <2>2. /\ r \in facts /\ loaded[p] = FactsOf(n, b) /\ windows[n][b] = loaded[p]
          /\ \A i \in DOMAIN Spans : i < n => CountedIn(r, i)
      BY <1>1, <2>1 DEF HandCounts
    <2>3. r \in Trades /\ r.block \in 1 .. MaxHeight /\ n \in DOMAIN Spans
      BY <1>1, <1>2, <2>2, TradePlaces DEF TablesTyped
    <2>4. PICK x \in facts : x = r
      BY <2>2
    <2>5. PICK m \in DOMAIN Spans : m = n
      BY <2>3
    <2>6. Record(p)' = x /\ b = x.block /\ x \in Trades
      BY <2>1, <2>3, <2>4 DEF Record
    <2> HIDE DEF r, n, b
    <2>7. CountedIn(x, m)'
      <3>1. pressures'[m][x.block] = FactsOf(m, x.block)
        BY <1>1, <2>1, <2>2, <2>3, <2>4, <2>5, <2>6 DEF TablesTyped
      <3>2. windows'[m][x.block] = FactsOf(m, x.block)
        BY <2>1, <2>2, <2>5, <2>6
      <3>3. x \in FactsOf(m, x.block) \/ CrowdedOut(x, m)
        BY <1>1, LoadedOrCrowdedOut
      <3>4. CASE x \in FactsOf(m, x.block)
        BY <3>1, <3>2, <3>4 DEF CountedIn
      <3>5. CASE CrowdedOut(x, m)
        BY <3>5, CrowdedOutStays DEF CountedIn
      <3>6. QED
        BY <3>3, <3>4, <3>5
    <2>8. \A i \in DOMAIN Spans : i < m => CountedIn(x, i)'
      BY <2>2, <2>4, <2>5, <2>6, CountedInStays
    <2>9. \A i \in DOMAIN Spans : i <= n => CountedIn(x, i)'
      <3>1. \A i \in DOMAIN Spans : i <= n => i < m \/ i = m
        BY <2>5, SpansAre
      <3>2. QED
        BY <2>7, <2>8, <3>1
    <2>10. CASE pc'[p] = "rebuild"
      <3>1. \A i \in DOMAIN Spans : i < nth'[p] => i <= n
        BY <2>1, <2>3, <2>10, SpansAre
      <3>2. \A i \in DOMAIN Spans : i < nth'[p] => CountedIn(Record(p), i)'
        BY <2>6, <2>9, <3>1 DEF CountedIn, CrowdedOut, Older, InWindow
      <3>3. Record(p)' \in facts'
        BY <2>1, <2>6
      <3>4. QED
        BY <2>10, <3>2, <3>3 DEF HandCounts
    <2>11. CASE pc'[p] = "latest"
      <3>1. \A i \in DOMAIN Spans : i <= n
        BY <2>1, <2>3, <2>11, SpansAre
      <3>2. \A i \in DOMAIN Spans : CountedIn(Record(p), i)'
        BY <2>6, <2>9, <3>1 DEF CountedIn, CrowdedOut, Older, InWindow
      <3>3. Counted(Record(p))'
        BY <2>1, <2>4, <2>6, <3>2 DEF Counted, IsQuote
      <3>4. QED
        BY <2>11, <3>3 DEF HandCounts
    <2>12. QED
      BY <2>1, <2>10, <2>11
  <1>11. CASE SaveSlippage(p)
    <2> DEFINE c == LastBlock(loaded[p])
    <2>1. /\ pc[p] = "snapshot" /\ pc'[p] = "latest" /\ IsQuote(r)
          /\ slippages' = [slippages EXCEPT ![c] = loaded[p]]
          /\ UNCHANGED <<queue, samples, curves>>
      <3>1. pc[p] = "snapshot" /\ IsQuote(r) /\ slippages' = [slippages EXCEPT ![c] = loaded[p]]
        BY <1>11 DEF SaveSlippage
      <3>2. SaveSnapshot(p, "latest")
        BY <1>11 DEF SaveSlippage
      <3> HIDE DEF r, c
      <3>3. QED
        BY <1>2, <3>1, <3>2 DEF SaveSnapshot, Goto, quotes
    <2>2. Record(p)' = r
      BY <2>1 DEF Record
    <2>3. r \in samples /\ loaded[p] = Recent /\ curves[c] = loaded[p]
      BY <1>1, <2>1 DEF HandCounts
    <2>4. CASE r \in Recent
      <3>1. c \in 1 .. MaxHeight
        <4>1. Recent \subseteq samples /\ Recent # {}
          BY <2>4 DEF Recent
        <4>2. QED
          BY <1>1, <2>3, <4>1, LastBlockIn
      <3>2. slippages'[c] = loaded[p]
        <4> HIDE DEF r, c
        <4>1. QED
          BY <1>1, <2>1, <3>1 DEF TablesTyped
      <3> HIDE DEF r, c
      <3>3. Counted(Record(p))'
        BY <2>1, <2>2, <2>3, <2>4, <3>1, <3>2 DEF Counted, IsQuote
      <3>4. QED
        BY <2>1, <3>3 DEF HandCounts
    <2>5. CASE r \notin Recent
      <3>1. Cardinality(Newer(r)) >= SampleLimit
        BY <1>1, <2>3, <2>5, SamplesFinite DEF Recent
      <3>2. Newer(Record(p))' = Newer(r)
        BY <2>1, <2>2 DEF Newer
      <3> HIDE DEF r
      <3>3. Counted(Record(p))'
        BY <2>1, <2>2, <3>1, <3>2 DEF Counted, IsQuote
      <3>4. QED
        BY <2>1, <3>3 DEF HandCounts
    <2>6. QED
      BY <2>4, <2>5
  <1>12. QED
    BY <1>3, <1>4, <1>5, <1>7, <1>8, <1>9, <1>10, <1>11 DEF Ingest, Quiet

\* A step of an ingestion is of a process that has a list, and leaves the other alone.
LEMMA IngestAlone ==
  ASSUME Inv, NEW p \in Ingesters, Ingest(p)
  PROVE  /\ pc[p] \in WithRecord \cup {"record"}
         /\ \A q \in Ingesters : q # p => /\ pc'[q] = pc[q] /\ queue'[q] = queue[q]
                                          /\ loaded'[q] = loaded[q] /\ nth'[q] = nth[q]
  <1>1. /\ pc \in [Ingesters -> Steps] /\ queue \in [Ingesters -> Seq(Records)]
        /\ loaded \in [Ingesters -> SUBSET (facts \cup samples)]
        /\ nth \in [Ingesters -> DOMAIN Spans]
    BY DEF Inv, HandInv, NthTyped
  <1>2. CASE \/ CollectTrade(p) \/ CollectQuote(p) \/ PublishFact(p) \/ PublishLatest(p) \/ Done(p)
    BY <1>1, <1>2 DEF CollectTrade, CollectQuote, Collect, PublishFact, PublishLatest, Done, Goto,
                      WithRecord, WithTrade
  <1>3. CASE UpsertFact(p) \/ Rebuild(p) \/ UpsertWindow(p)
    BY <1>1, <1>3 DEF UpsertFact, Rebuild, UpsertWindow, Goto, WithRecord, WithTrade
  <1>4. CASE AppendSample(p) \/ LoadSamples(p) \/ UpsertCurve(p)
    BY <1>1, <1>4 DEF AppendSample, LoadSamples, UpsertCurve, Goto, WithRecord, WithQuote
  <1>5. CASE SaveBuyPressure(p) \/ SaveSlippage(p)
    BY <1>1, <1>5 DEF SaveBuyPressure, SaveSlippage, SaveSnapshot, Goto, WithRecord
  <1>6. QED
    BY <1>2, <1>3, <1>4, <1>5 DEF Ingest

\* A hand without a record that has been begun, of a process that runs if it has something
\* to do.
Begins(p)  == pc'[p] \in {"source", "record"} /\ (p \in running \/ pc[p] # "idle")

\* The steps that are no ingestion leave each hand as it was, or begin, or let go.
LEMMA NoIngest ==
  ASSUME Inv, [Next]_vars, \A p \in Ingesters : ~Ingest(p)
  PROVE  /\ UNCHANGED tables
         /\ \A p \in Ingesters : AsItWas(p) \/ Begins(p) \/ pc'[p] = "idle"
  <1>1. /\ pc \in [Ingesters -> Steps] /\ queue \in [Ingesters -> Seq(Records)]
        /\ loaded \in [Ingesters -> SUBSET (facts \cup samples)]
        /\ Ingesters = {"live", "backfill"}
    BY DEF Inv, HandInv, Ingesters
  <1>2. UNCHANGED tables
    BY TablesLeft DEF Ingest
  <1> DEFINE Free == \A p \in Ingesters : AsItWas(p) \/ Begins(p) \/ pc'[p] = "idle"
  <1>3. ASSUME \/ Mine \/ Tick \/ Import \/ Refresh \/ UNCHANGED vars
               \/ \E w \in WalletWorkers : Wallet(w) \/ WorkerRaises(w)
        PROVE  Free
    BY <1>3, OthersLeaveHands DEF ingest, AsItWas
  <1>4. ASSUME BeginSync \/ EndSync \/ SkipSource \/ SourceDone
        PROVE  Free
    BY <1>1, <1>4 DEF BeginSync, EndSync, SkipSource, SourceDone, ingest, AsItWas, Begins
  <1>5. ASSUME BeginBackfill \/ EndBackfill
        PROVE  Free
    BY <1>1, <1>5 DEF BeginBackfill, EndBackfill, Goto, AsItWas, Begins
  <1>6. ASSUME Fetch \/ CollectRaises \/ LiveRaises
        PROVE  Free
    BY <1>1, <1>6 DEF Fetch, CollectRaises, LiveRaises, SourceFails, AsItWas, Begins
  <1>7. ASSUME NEW p \in Ingesters, IngesterDies(p)
        PROVE  Free
    BY <1>1, <1>7 DEF IngesterDies, Goto, AsItWas
  <1>8. Free
    <2> HIDE DEF Free
    <2>1. QED
      BY <1>3, <1>4, <1>5, <1>6, <1>7, StepsOneByOne
  <1>9. QED
    BY <1>2, <1>8

\* Every step keeps what is known of the running processes.
LEMMA RunningKept ==
  ASSUME Inv, RunningInv, [Next]_vars
  PROVE  RunningInv'
  <1>1. running' = running
    BY WorldGrows
  <1>2. /\ pc \in [Ingesters -> Steps] /\ HandInv
    BY DEF Inv, HandInv
  <1>3. IsFiniteSet(raw')
    <2>1. CASE UNCHANGED tables
      BY <2>1 DEF RunningInv, tables
    <2>2. ASSUME NEW p \in Ingesters, CollectTrade(p) \/ CollectQuote(p)
          PROVE  IsFiniteSet(raw')
      <3>1. raw' = raw \cup {Row(p, Record(p))} /\ IsFiniteSet(raw)
        BY <2>2 DEF CollectTrade, CollectQuote, Collect, RunningInv
      <3>2. QED
        BY <3>1, FS_AddElement
    <2>3. ASSUME NEW p \in Ingesters,
                 \/ UpsertFact(p) \/ UpsertWindow(p) \/ AppendSample(p) \/ UpsertCurve(p)
                 \/ SaveBuyPressure(p) \/ SaveSlippage(p)
          PROVE  raw' = raw
      BY <2>3 DEF UpsertFact, UpsertWindow, AppendSample, UpsertCurve, SaveBuyPressure,
                  SaveSlippage, SaveSnapshot
    <2>4. QED
      BY <2>1, <2>2, <2>3, TablesLeft DEF RunningInv
  <1>4. ASSUME NEW p \in Ingesters, AsItWas(p)
        PROVE  /\ p \notin running' => pc'[p] = "idle"
               /\ pc'[p] \in WithRecord \ {"fact", "done"} => Published(Record(p))'
    <2>1. /\ p \notin running => pc[p] = "idle"
          /\ pc[p] \in WithRecord \ {"fact", "done"} => Published(Record(p))
      BY DEF RunningInv
    <2>2. Record(p)' = Record(p)
      BY <1>4 DEF AsItWas, Record
    <2> DEFINE r == Record(p)
    <2>3. Published(r) => Published(Record(p))'
      <3>1. ASSUME Published(r) PROVE Published(Record(p))'
        <4>1. PICK x : x = r
          OBVIOUS
        <4>2. Published(x)'
          BY <3>1, <4>1, PublishedStays
        <4>3. QED
          BY <2>2, <4>1, <4>2 DEF Published, IsQuote
      <3>2. QED
        BY <3>1
    <2>4. QED
      BY <1>1, <1>4, <2>1, <2>3 DEF AsItWas
  <1>5. ASSUME NEW p \in Ingesters, Begins(p) \/ pc'[p] = "idle"
        PROVE  /\ p \notin running' => pc'[p] = "idle"
               /\ pc'[p] \in WithRecord \ {"fact", "done"} => Published(Record(p))'
    BY <1>1, <1>5 DEF Begins, RunningInv, WithRecord, WithTrade, WithQuote
  <1>6. ASSUME NEW p \in Ingesters, Ingest(p)
        PROVE  /\ p \notin running' => pc'[p] = "idle"
               /\ pc'[p] \in WithRecord \ {"fact", "done"} => Published(Record(p))'
    <2>1. pc[p] \in WithRecord \cup {"record"} /\ pc[p] # "idle" /\ p \in running
      <3>1. pc[p] \in WithRecord \cup {"record"}
        BY <1>6, IngestAlone
      <3>2. pc[p] # "idle"
        BY <3>1 DEF WithRecord, WithTrade, WithQuote
      <3>3. QED
        BY <3>1, <3>2 DEF RunningInv
    <2>2. CASE CollectTrade(p) \/ CollectQuote(p)
      <3>1. /\ pc'[p] \in {"fact", "done", "sample"} /\ queue' = queue
            /\ pc'[p] = "sample" => IsQuote(Record(p))
        BY <1>2, <2>2 DEF CollectTrade, CollectQuote, Collect, Goto
      <3>2. Record(p)' = Record(p)
        BY <3>1 DEF Record
      <3>3. pc'[p] = "sample" => Published(Record(p))'
        BY <3>1, <3>2 DEF Published, IsQuote
      <3>4. QED
        BY <1>1, <2>1, <3>1, <3>3
    <2>3. CASE PublishFact(p)
      <3> DEFINE r == Record(p)
      <3>1. /\ pc'[p] = "upsert" /\ queue' = queue /\ stream \in Seq(Records \cup {None})
            /\ stream' = IF r.large THEN Append(stream, r) ELSE stream
        BY <1>2, <2>3 DEF PublishFact, Goto, Inv, StreamTyped
      <3>2. Record(p)' = r
        BY <3>1 DEF Record
      <3>3. r \in Records /\ pc[p] = "fact"
        <4>1. pc[p] = "fact"
          BY <2>3 DEF PublishFact
        <4>2. queue[p] # <<>>
          BY <1>2, <4>1 DEF HandInv, WithRecord, WithTrade
        <4>3. QED
          BY <1>2, <4>1, <4>2, HandTyped
      <3> HIDE DEF r
      <3>4. r.large => \E i \in DOMAIN stream' : stream'[i] = r
        <4>1. ASSUME r.large PROVE \E i \in DOMAIN stream' : stream'[i] = r
          <5> DEFINE n == Len(stream) + 1
          <5>1. n \in DOMAIN stream' /\ stream'[n] = r
            BY <3>1, <3>3, <4>1
          <5>2. QED
            BY <5>1
        <4>2. QED
          BY <4>1
      <3>5. Published(Record(p))'
        BY <3>2, <3>4 DEF Published, IsQuote
      <3>6. QED
        BY <1>1, <2>1, <3>5
    <2>4. CASE Done(p)
      BY <1>1, <1>2, <2>1, <2>4 DEF Done, Goto, WithRecord, WithTrade, WithQuote
    <2>5. CASE ~ \/ CollectTrade(p) \/ CollectQuote(p) \/ PublishFact(p) \/ Done(p)
      <3>1. /\ pc[p] \in WithRecord \ {"fact", "done"} /\ queue' = queue
        BY <1>6, <2>5
           DEF Ingest, UpsertFact, Rebuild, UpsertWindow, AppendSample, LoadSamples, UpsertCurve,
               SaveBuyPressure, SaveSlippage, SaveSnapshot, PublishLatest, WithRecord, WithTrade,
               WithQuote
      <3>2. Published(Record(p)) /\ Record(p)' = Record(p)
        BY <3>1 DEF RunningInv, Record
      <3>3. PICK x : x = Record(p)
        OBVIOUS
      <3>4. Published(x)'
        BY <3>2, <3>3, PublishedStays
      <3>5. Published(Record(p))'
        BY <3>2, <3>3, <3>4 DEF Published, IsQuote
      <3>6. QED
        BY <1>1, <2>1, <3>5
    <2>6. QED
      BY <2>2, <2>3, <2>4, <2>5
  <1>7. ASSUME NEW p \in Ingesters
        PROVE  /\ p \notin running' => pc'[p] = "idle"
               /\ pc'[p] \in WithRecord \ {"fact", "done"} => Published(Record(p))'
    <2>1. CASE Ingest(p)
      BY <1>6, <2>1
    <2>2. ASSUME NEW q \in Ingesters, q # p, Ingest(q)
          PROVE  AsItWas(p)
      BY <2>2, IngestAlone DEF AsItWas
    <2>3. CASE \A q \in Ingesters : ~Ingest(q)
      BY <1>4, <1>5, <2>3, NoIngest
    <2>4. QED
      BY <1>4, <2>1, <2>2, <2>3
  <1>8. QED
    BY <1>3, <1>7 DEF RunningInv

\* Every step keeps what is counted.
LEMMA CountKept ==
  ASSUME Inv, RunningInv, CountInv, [Next]_vars
  PROVE  CountInv'
  <1>1. running' = running
    BY WorldGrows
  <1>2. CASE ~Solo
    BY <1>1, <1>2 DEF CountInv, Solo
  <1>3. CASE Solo
    <2>1. \A p \in Ingesters : HandCounts(p)
      BY <1>3 DEF CountInv
    <2>2. ASSUME NEW p \in Ingesters
          PROVE  HandCounts(p)'
      <3>1. CASE Ingest(p)
        BY <1>3, <3>1, HandCountsKept
      <3>2. ASSUME NEW q \in Ingesters, q # p, Ingest(q)
            PROVE  HandCounts(p)'
        <4>1. pc[q] # "idle" /\ pc'[p] = pc[p]
          BY <3>2, IngestAlone DEF WithRecord, WithTrade, WithQuote
        <4>2. pc'[p] = "idle"
          BY <1>3, <3>2, <4>1, Alone
        <4>3. QED
          BY <4>2 DEF HandCounts
      <3>3. CASE \A q \in Ingesters : ~Ingest(q)
        <4>1. UNCHANGED tables /\ (AsItWas(p) \/ Begins(p) \/ pc'[p] = "idle")
          BY <3>3, NoIngest
        <4>2. Begins(p) \/ pc'[p] = "idle" => pc'[p] \notin WithRecord \ {"done"}
          BY DEF Begins, WithRecord, WithTrade, WithQuote
        <4>3. HandCounts(p)
          BY <2>1
        <4>4. QED
          BY <4>1, <4>2, <4>3, HandLeft DEF AsItWas
      <3>4. QED
        BY <3>1, <3>2, <3>3
    <2>3. QED
      BY <2>2 DEF CountInv
  <1>4. QED
    BY <1>2, <1>3

\* A row in hand.
Holds(p, row) == InHand(p, row[2]) /\ row = Row(p, row[2])

\* What has come through is published, and counted where one process ingests.
Through(r) == Published(r) /\ (Solo => Counted(r))

\* A row is lost from one hand only, by a fault.
LEMMA LostFromHand ==
  ASSUME Inv, RunningInv, CountInv, [Next]_vars, NEW row \in Lost'
  PROVE  \/ row \in Lost
         \/ /\ row \in raw
            /\ \E p \in Ingesters : Holds(p, row) /\ ~Ingest(p) /\ ~AsItWas(p) /\ ~ClassifyRaises
  <1>1. running' = running /\ TablesTyped /\ pc \in [Ingesters -> Steps]
    BY WorldGrows DEF Inv, HandInv
  <1>2. /\ row \in raw' /\ \A p \in Ingesters : ~(InHand(p, row[2])' /\ row = Row(p, row[2]))
        /\ ~Published(row[2])' \/ (~Counted(row[2])' /\ Solo)
    BY <1>1 DEF Lost, Row, Solo
  <1>3. ASSUME row \in raw
        PROVE  row[2] \in Records
    BY <1>1, <1>3 DEF TablesTyped
  <1>4. ASSUME row \in raw, Through(row[2])
        PROVE  FALSE
    <2>1. Published(row[2])'
      <3>1. PICK x : x = row[2]
        OBVIOUS
      <3>2. Published(x)'
        BY <1>4, <3>1, PublishedStays DEF Through
      <3>3. QED
        BY <3>1, <3>2
    <2>2. ASSUME Solo PROVE Counted(row[2])'
      BY <1>3, <1>4, <2>2, CountedStays DEF Through
    <2>3. QED
      BY <1>2, <2>1, <2>2
  <1>5. row \in raw
    <2>1. CASE UNCHANGED tables
      BY <1>2, <2>1 DEF tables
    <2>2. ASSUME NEW p \in Ingesters, CollectTrade(p) \/ CollectQuote(p), row \notin raw
          PROVE  FALSE
      <3>1. row = Row(p, Record(p)) /\ row[2] = Record(p)
        BY <1>2, <2>2 DEF CollectTrade, CollectQuote, Collect, Row
      <3>2. pc'[p] \in {"fact", "sample"} /\ queue' = queue
        BY <1>1, <2>2, <3>1 DEF CollectTrade, CollectQuote, Collect, Goto
      <3>3. InHand(p, row[2])'
        BY <3>1, <3>2 DEF InHand, Record
      <3>4. QED
        BY <1>2, <3>1, <3>3
    <2>3. ASSUME NEW p \in Ingesters,
                 \/ UpsertFact(p) \/ UpsertWindow(p) \/ AppendSample(p) \/ UpsertCurve(p)
                 \/ SaveBuyPressure(p) \/ SaveSlippage(p)
          PROVE  raw' = raw
      BY <2>3 DEF UpsertFact, UpsertWindow, AppendSample, UpsertCurve, SaveBuyPressure,
                  SaveSlippage, SaveSnapshot
    <2>4. QED
      BY <1>2, <2>1, <2>2, <2>3, TablesLeft
  <1>6. CASE \A p \in Ingesters : ~Holds(p, row)
    <2>1. row \in Lost \/ Through(row[2])
      BY <1>5, <1>6 DEF Lost, Holds, Through
    <2>2. QED
      BY <1>4, <1>5, <2>1
  <1>7. ASSUME NEW p \in Ingesters, Holds(p, row)
        PROVE  ~Ingest(p) /\ ~AsItWas(p) /\ ~ClassifyRaises
    <2>1. ~InHand(p, row[2])' /\ InHand(p, row[2]) /\ row[2] = Record(p)
      BY <1>2, <1>7 DEF Holds, InHand
    <2>2. ~AsItWas(p)
      BY <2>1 DEF AsItWas, InHand, Record
    <2>3. ASSUME Ingest(p)
          PROVE  FALSE
      <3>1. pc[p] \notin {"idle", "source", "record", "done"}
        BY <2>1 DEF InHand
      <3>2. CASE PublishLatest(p)
        <4>1. pc[p] = "latest"
          BY <3>2 DEF PublishLatest
        <4>2. Published(row[2])
          BY <2>1, <4>1 DEF RunningInv, WithRecord
        <4>3. ASSUME Solo PROVE Counted(row[2])
          BY <2>1, <4>1, <4>3 DEF CountInv, HandCounts
        <4>4. QED
          BY <1>4, <1>5, <4>2, <4>3 DEF Through
      <3>3. CASE ~PublishLatest(p)
        <4>1. \/ PublishFact(p) \/ UpsertFact(p) \/ Rebuild(p) \/ UpsertWindow(p)
              \/ AppendSample(p) \/ LoadSamples(p) \/ UpsertCurve(p)
              \/ SaveBuyPressure(p) \/ SaveSlippage(p)
          BY <2>3, <3>1, <3>3 DEF Ingest, CollectTrade, CollectQuote, Collect, Done
        <4>2. queue' = queue /\ pc'[p] \notin {"idle", "source", "record", "done"}
          BY <1>1, <4>1
             DEF PublishFact, UpsertFact, Rebuild, UpsertWindow, AppendSample, LoadSamples,
                 UpsertCurve, SaveBuyPressure, SaveSlippage, SaveSnapshot, Goto
        <4>3. InHand(p, row[2])'
          BY <2>1, <4>2 DEF InHand, Record
        <4>4. QED
          BY <2>1, <4>3
      <3>4. QED
        BY <3>2, <3>3
    <2>4. ASSUME ClassifyRaises
          PROVE  FALSE
      <3>1. CASE p = "backfill"
        <4>1. pc[p] \in {"upsert", "sample"} /\ Record(p) \in Unclear
          BY <2>4, <3>1 DEF ClassifyRaises
        <4>2. Published(row[2]) /\ Counted(row[2])
          BY <2>1, <4>1 DEF RunningInv, WithRecord, WithTrade, WithQuote, Counted
        <4>3. QED
          BY <1>4, <1>5, <4>2 DEF Through
      <3>2. CASE p # "backfill"
        <4>1. AsItWas(p)
          BY <1>1, <2>4, <3>2 DEF ClassifyRaises, IngesterDies, Goto, AsItWas, Inv, HandInv,
                                  Ingesters
        <4>2. QED
          BY <2>2, <4>1
      <3>3. QED
        BY <3>1, <3>2
    <2>5. QED
      BY <2>2, <2>3, <2>4
  <1>8. QED
    BY <1>5, <1>6, <1>7

\* A step that is no fault loses nothing, and a fault loses one row at most.
LEMMA LosesOne ==
  ASSUME Inv, RunningInv, CountInv, [Next]_vars
  PROVE  \/ Lost' \subseteq Lost
         \/ faults' = faults + 1 /\ \E row : Lost' \subseteq Lost \cup {row}
  <1>1. /\ pc \in [Ingesters -> Steps] /\ queue \in [Ingesters -> Seq(Records)]
        /\ loaded \in [Ingesters -> SUBSET (facts \cup samples)]
        /\ Ingesters = {"live", "backfill"}
    BY DEF Inv, HandInv, Ingesters
  <1>2. \A p \in Ingesters : \A row : Holds(p, row) => row = Row(p, Record(p)) /\ pc[p] # "idle"
                                                       /\ pc[p] \notin {"source", "record", "done"}
    BY DEF Holds, InHand
  <1>3. ASSUME \A p \in Ingesters : \A row :
                 Holds(p, row) => Ingest(p) \/ AsItWas(p) \/ ClassifyRaises
        PROVE  Lost' \subseteq Lost
    BY <1>3, LostFromHand
  <1>4. ASSUME NEW p \in Ingesters, faults' = faults + 1,
               \A q \in Ingesters : q # p => AsItWas(q)
        PROVE  faults' = faults + 1 /\ \E row : Lost' \subseteq Lost \cup {row}
    <2>1. \A row \in Lost' : row \in Lost \/ row = Row(p, Record(p))
      BY <1>2, <1>4, LostFromHand
    <2>2. QED
      BY <1>4, <2>1
  <1>5. CASE \/ Mine \/ Tick \/ Import \/ Refresh \/ UNCHANGED vars
             \/ \E w \in WalletWorkers : Wallet(w) \/ WorkerRaises(w)
    <2>1. \A p \in Ingesters : AsItWas(p)
      BY <1>5, OthersLeaveHands DEF ingest, AsItWas
    <2>2. QED
      BY <1>3, <2>1
  <1>6. CASE BeginSync \/ EndSync \/ SkipSource \/ SourceDone \/ Fetch \/ CollectRaises
    <2>1. pc["live"] \in {"idle", "source", "record"}
      BY <1>6 DEF BeginSync, EndSync, SkipSource, SourceDone, Fetch, CollectRaises
    <2>2. \A row : ~Holds("live", row)
      BY <1>1, <1>2, <2>1
    <2>3. AsItWas("backfill")
      BY <1>1, <1>6 DEF BeginSync, EndSync, SkipSource, SourceDone, Fetch, CollectRaises,
                        SourceFails, ingest, AsItWas
    <2>4. QED
      BY <1>1, <1>3, <2>2, <2>3
  <1>7. CASE BeginBackfill \/ EndBackfill
    <2>1. pc["backfill"] \in {"idle", "record"}
      BY <1>7 DEF BeginBackfill, EndBackfill
    <2>2. \A row : ~Holds("backfill", row)
      BY <1>1, <1>2, <2>1
    <2>3. AsItWas("live")
      BY <1>1, <1>7 DEF BeginBackfill, EndBackfill, Goto, AsItWas
    <2>4. QED
      BY <1>1, <1>3, <2>2, <2>3
  <1>8. CASE LiveRaises /\ faults' = faults + 1
    <2>1. AsItWas("backfill")
      BY <1>1, <1>8 DEF LiveRaises, SourceFails, AsItWas
    <2>2. QED
      BY <1>1, <1>4, <1>8, <2>1
  <1>9. ASSUME NEW p \in Ingesters, IngesterDies(p), faults' = faults + 1 \/ ClassifyRaises
        PROVE  \/ Lost' \subseteq Lost
               \/ faults' = faults + 1 /\ \E row : Lost' \subseteq Lost \cup {row}
    <2>1. CASE ClassifyRaises
      BY <1>3, <2>1
    <2>2. CASE faults' = faults + 1
      <3>1. \A q \in Ingesters : q # p => AsItWas(q)
        BY <1>1, <1>9 DEF IngesterDies, Goto, AsItWas
      <3>2. QED
        BY <1>4, <2>2, <3>1
    <2>3. QED
      BY <1>9, <2>1, <2>2
  <1>10. ASSUME NEW p \in Ingesters, Ingest(p)
         PROVE  Lost' \subseteq Lost
    <2>1. \A q \in Ingesters : q # p => AsItWas(q)
      BY <1>10, IngestAlone DEF AsItWas
    <2>2. QED
      BY <1>3, <1>10, <2>1
  <1>11. QED
    BY <1>5, <1>6, <1>7, <1>8, <1>9, <1>10, StepsOneByOne

\* Each fault loses one row at most, so what is stored, and not in hand, was published and,
\* where no other process computes the same features, is counted in every trade window but
\* those where FactLimit older trades crowd it out, but for as many rows as there were faults.
THEOREM OneRowPerFault == Spec => []StoredIsPublished
  <1> DEFINE LostInv == Cardinality(Lost) <= faults
  <1>1. Init => Inv /\ RunningInv /\ CountInv /\ LostInv
    <2> SUFFICES ASSUME Init PROVE RunningInv /\ CountInv /\ LostInv
      BY InitInv
    <2>1. \A p \in Ingesters : pc[p] = "idle"
      BY DEF Init
    <2>2. RunningInv
      BY <2>1, FS_EmptySet DEF RunningInv, Init, WithRecord, WithTrade, WithQuote
    <2>3. CountInv
      BY <2>1 DEF CountInv, HandCounts, Init
    <2>4. Lost = {}
      BY DEF Lost, Init
    <2>5. LostInv
      BY <2>4, FS_EmptySet DEF Init
    <2>6. QED
      BY <2>2, <2>3, <2>5
  <1>2. ASSUME Inv, RunningInv, CountInv, LostInv, [Next]_vars
        PROVE  (Inv /\ RunningInv /\ CountInv /\ LostInv)'
    <2>1. Inv' /\ RunningInv' /\ CountInv'
      BY <1>2, Kept, RunningKept, CountKept
    <2>2. IsFiniteSet(Lost) /\ Cardinality(Lost) \in Nat
      <3>1. IsFiniteSet(raw) /\ Lost \subseteq raw
        BY <1>2 DEF RunningInv, Lost
      <3>2. QED
        BY <3>1, FS_Subset, FS_CardinalityType
    <2>3. faults \in Nat /\ faults' \in Nat /\ faults <= faults'
      BY <1>2, WorldGrows
    <2>4. CASE Lost' \subseteq Lost
      <3>1. IsFiniteSet(Lost') /\ Cardinality(Lost') <= Cardinality(Lost)
        BY <2>2, <2>4, FS_Subset
      <3>2. Cardinality(Lost') \in Nat
        BY <3>1, FS_CardinalityType
      <3>3. Cardinality(Lost') <= faults'
        BY <1>2, <2>2, <2>3, <3>1, <3>2
      <3>4. QED
        BY <2>1, <3>3
    <2>5. ASSUME faults' = faults + 1, NEW row, Lost' \subseteq Lost \cup {row}
          PROVE  (Inv /\ RunningInv /\ CountInv /\ LostInv)'
      <3>1. /\ IsFiniteSet(Lost \cup {row})
            /\ Cardinality(Lost \cup {row}) \in {Cardinality(Lost), Cardinality(Lost) + 1}
        BY <2>2, FS_AddElement
      <3>2. IsFiniteSet(Lost') /\ Cardinality(Lost') <= Cardinality(Lost \cup {row})
        BY <2>5, <3>1, FS_Subset
      <3>3. Cardinality(Lost') \in Nat
        BY <3>2, FS_CardinalityType
      <3>4. Cardinality(Lost') <= faults'
        BY <1>2, <2>2, <2>3, <2>5, <3>1, <3>2, <3>3
      <3>5. QED
        BY <2>1, <3>4
    <2>6. QED
      BY <1>2, <2>4, <2>5, LosesOne
  <1>3. LostInv => StoredIsPublished
    BY DEF StoredIsPublished, Lost, Solo
  <1> DEFINE All == Inv /\ RunningInv /\ CountInv /\ LostInv
  <1>4. Init => All
    BY <1>1
  <1>5. All /\ [Next]_vars => All'
    BY <1>2
  <1>6. All => StoredIsPublished
    BY <1>3
  <1> HIDE DEF All
  <1>7. QED
    BY <1>4, <1>5, <1>6, PTL DEF Spec
=============================================================================

---------------------------- MODULE DiscoveryProofs ----------------------------
(***************************************************************************)
(* Theorems about Discovery, for every set of workers and sources, every   *)
(* feed, any sharing of slots and any number of faults.                    *)
(***************************************************************************)
EXTENDS Discovery, CommonLemmas, SequenceTheorems

-----------------------------------------------------------------------------
(* The inductive invariant. *)

\* seen and memory are functions, which TypeOK does not say.
Types ==
    /\ TypeOK
    /\ seen \in [KeptSources -> Seq(Snapshots)]
    /\ memory \in [Workers -> Seq(Snapshots)]

\* What has gone all the way, from a source.
Ingested(src) == {s \in kept : src \in SilentSources \/ s \in published}

\* A worker remembers what it has ingested; at each step it has the snapshot it works on,
\* which is kept before it is published and published before it is announced.
WorkerInv(w) ==
    /\ pc[w] # "idle" => reading[w] \in Sources
    /\ pc[w] # "idle" /\ reading[w] \in KeptSources =>
         ToSet(memory[w]) \subseteq Ingested(reading[w])
    /\ pc[w] \notin {"idle", "loop"} => current[w] \in Snapshots
    /\ pc[w] \in {"publish", "announce"} =>
         current[w] \in kept /\ reading[w] \notin SilentSources
    /\ pc[w] = "announce" => current[w] \in published /\ Due(w)

IngestInv ==
    /\ \A src \in KeptSources : ToSet(seen[src]) \subseteq Ingested(src)
    /\ \A w \in Workers : WorkerInv(w)

\* AnnouncementsConserved counts the workers that hold an announcement: finitely many.
CountInv ==
    /\ AnnouncementsConserved
    /\ \A c \in Candidates : IsFiniteSet(Holders(c))

Inv == Types /\ IngestInv /\ CountInv

\* A worker reads sources of its own, and has snapshots of the source it reads.
ReadingInv ==
    /\ \A src \in Sources : available[src] \subseteq Feed[src]
    /\ \A w \in Workers :
         /\ \A src \in todo[w] : WorkerOf[src] = w
         /\ pc[w] # "idle" => WorkerOf[reading[w]] = w /\ batch[w] \subseteq Feed[reading[w]]
         /\ pc[w] \notin {"idle", "loop"} => current[w] \in Feed[reading[w]]

\* Social confirmation has not missed that its candidate became QUALIFIED.
SocialInv ==
    \A w \in Workers :
        pc[w] = "upsert" /\ Candidate(w) \in SocialCandidates
            => (stored[Candidate(w)] = "QUALIFIED" => previous[w] = "QUALIFIED")

-----------------------------------------------------------------------------
(* The lists of ids. *)

\* The elements of a list are of its set.
LEMMA ListRange ==
  ASSUME NEW S, NEW ids \in Seq(S)
  PROVE  ToSet(ids) \subseteq S
  BY DEF ToSet

\* The elements of an empty list, and of one with one element more.
LEMMA ListElements ==
  ASSUME NEW S, NEW ids \in Seq(S), NEW id \in S
  PROVE  /\ ToSet(<<>>) = {}
         /\ Append(ids, id) \in Seq(S)
         /\ ToSet(Append(ids, id)) = ToSet(ids) \cup {id}
<1>1. ToSet(<<>>) = {}
  BY DEF ToSet
<1>2. /\ Append(ids, id) \in Seq(S)
      /\ DOMAIN Append(ids, id) = 1 .. Len(ids) + 1
      /\ \A i \in 1 .. Len(ids) : Append(ids, id)[i] = ids[i]
      /\ Append(ids, id)[Len(ids) + 1] = id
  OBVIOUS
<1>3. DOMAIN ids = 1 .. Len(ids) /\ Len(ids) \in Nat
  OBVIOUS
<1>4. ToSet(Append(ids, id)) = ToSet(ids) \cup {id}
  BY <1>2, <1>3 DEF ToSet
<1>5. QED
  BY <1>1, <1>2, <1>4

\* LastIds keeps no more than SeenLimit of the ids, and no others.
LEMMA LastIdsType ==
  ASSUME NEW ids \in Seq(Snapshots)
  PROVE  /\ LastIds(ids) \in Seq(Snapshots)
         /\ Len(LastIds(ids)) <= SeenLimit
         /\ ToSet(LastIds(ids)) \subseteq ToSet(ids)
<1> DEFINE first == IF Len(ids) > SeenLimit THEN Len(ids) - SeenLimit + 1 ELSE 1
<1>1. /\ Len(ids) \in Nat /\ SeenLimit \in Nat /\ first \in 1 .. Len(ids) + 1
      /\ Len(ids) - first + 1 <= SeenLimit
  BY DiscoveryAssumption
<1>2. \A i \in first .. Len(ids) : ids[i] \in ToSet(ids) /\ ids[i] \in Snapshots
  BY <1>1 DEF ToSet
<1> HIDE DEF first
<1>3. /\ SubSeq(ids, first, Len(ids)) \in Seq(Snapshots)
      /\ SubSeq(ids, first, Len(ids)) \in Seq(ToSet(ids))
      /\ Len(SubSeq(ids, first, Len(ids)))
           = IF first <= Len(ids) THEN Len(ids) - first + 1 ELSE 0
  BY <1>1, <1>2, SubSeqProperties
<1>4. LastIds(ids) = SubSeq(ids, first, Len(ids))
  BY DEF LastIds, first
<1>5. Len(LastIds(ids)) <= SeenLimit
  BY <1>1, <1>3, <1>4
<1>6. ToSet(LastIds(ids)) \subseteq ToSet(ids)
  BY <1>3, <1>4, ListRange
<1>7. QED
  BY <1>3, <1>4, <1>5, <1>6

-----------------------------------------------------------------------------
(* Types. *)

\* The worker evaluates to a status, and works on a candidate.
LEMMA EvaluatedType ==
  ASSUME Types, IngestInv, NEW w \in Workers, pc[w] \notin {"idle", "loop"}
  PROVE  /\ Candidate(w) \in Candidates
         /\ Evaluated(w) \in Statuses
         /\ reading[w] \in Sources
         /\ current[w] \in Snapshots
<1>1. current[w] \in Snapshots /\ reading[w] \in Sources
  BY DEF IngestInv, WorkerInv
<1>2. CandidateOf[current[w]] \in Candidates
  BY <1>1, DiscoveryAssumption
<1>3. Verdict[current[w]] \in Statuses /\ "QUALIFIED" \in Statuses
  BY <1>1, DiscoveryAssumption DEF Statuses
<1>4. QED
  BY <1>1, <1>2, <1>3, Zenon DEF Candidate, Evaluated

\* A counter that goes up by one, or not, is a counter.
LEMMA CountType ==
  ASSUME NEW counter \in [Candidates -> Nat], NEW c \in Candidates, NEW condition
  PROVE  Count(counter, c, condition) \in [Candidates -> Nat]
  BY DEF Count

\* The workers start with the types.
LEMMA InitTypes == Init => Types
  BY DiscoveryAssumption DEF Init, Types, TypeOK, Statuses

\* Going on to the next snapshot, or to the next step of the same, keeps the types.
LEMMA LocalTypes ==
  ASSUME Types, NEW w \in Workers, current[w] \in Snapshots,
         NEW next \in {"publish", "announce"}, Done(w) \/ Continue(w, next)
  PROVE  /\ batch' \in [Workers -> SUBSET Snapshots]
         /\ memory' \in [Workers -> Seq(Snapshots)]
         /\ pc' \in [Workers -> {"idle", "loop", "upsert", "keep", "publish", "announce"}]
         /\ current' \in [Workers -> Snapshots \cup {Nothing}]
         /\ previous' \in [Workers -> Statuses]
<1> USE DEF Types, TypeOK
<1>1. CASE Done(w)
  <2>1. Append(memory[w], current[w]) \in Seq(Snapshots)
    OBVIOUS
  <2>2. memory' \in [Workers -> Seq(Snapshots)]
    BY <1>1, <2>1 DEF Done
  <2>3. QED
    BY <1>1, <2>2 DEF Done, Statuses
<1>2. CASE Continue(w, next)
  BY <1>2 DEF Continue
<1>3. QED
  BY <1>1, <1>2

\* A step keeps the types.
LEMMA NextTypes == ASSUME Types, IngestInv, [Next]_vars PROVE Types'
<1> USE DEF Types, TypeOK, store, inputs, local, record
<1>1. ASSUME NEW src \in Sources, NEW s \in Snapshots, Appear(src, s)
      PROVE  Types'
  BY <1>1, DiscoveryAssumption DEF Appear
<1>2. ASSUME NEW src \in Sources, RestOver(src)
      PROVE  Types'
  BY <1>2, DiscoveryAssumption DEF RestOver
<1>3. ASSUME NEW w \in Workers, NEW src \in Sources
      PROVE  ToRead(w) \subseteq Sources
  BY DEF ToRead
<1>4. ASSUME NEW w \in Workers, NEW src \in Sources, Skip(w, src)
      PROVE  Types'
  BY <1>3, <1>4 DEF Skip
<1>5. ASSUME NEW w \in Workers, NEW src \in Sources, FetchKept(w, src)
      PROVE  Types'
  BY <1>3, <1>5 DEF FetchKept, Open
<1>6. ASSUME NEW w \in Workers, NEW src \in Sources, FetchAll(w, src) \/ FetchOnce(w, src)
      PROVE  Types'
  <2>1. CASE FetchAll(w, src)
    BY <1>3, <2>1 DEF FetchAll, Open
  <2>2. CASE FetchOnce(w, src)
    BY <1>3, <2>2 DEF FetchOnce, Open
  <2>3. QED
    BY <1>6, <2>1, <2>2
<1>7. ASSUME NEW w \in Workers, NEW src \in Sources, FetchFails(w, src)
      PROVE  Types'
  BY <1>3, <1>7, DiscoveryAssumption DEF FetchFails
<1>8. ASSUME NEW w \in Workers, EndSource(w)
      PROVE  Types'
  <2>1. LastIds(memory[w]) \in Seq(Snapshots) /\ Len(LastIds(memory[w])) <= SeenLimit
    BY LastIdsType
  <2>2. /\ seen' \in [KeptSources -> Seq(Snapshots)]
        /\ \A src \in KeptSources : Len(seen'[src]) <= SeenLimit
    BY <1>8, <2>1 DEF EndSource
  <2>3. memory' \in [Workers -> Seq(Snapshots)]
    BY <1>8 DEF EndSource
  <2>4. QED
    BY <1>8, <2>2, <2>3 DEF EndSource
<1>9. ASSUME NEW w \in Workers, NEW s \in Snapshots, Load(w, s)
      PROVE  Types'
  <2>1. stored[CandidateOf[s]] \in Statuses
    BY DiscoveryAssumption
  <2>2. QED
    BY <1>9, <2>1 DEF Load
<1>10. ASSUME NEW w \in Workers, Upsert(w)
       PROVE  Types'
  <2>1. Candidate(w) \in Candidates /\ Evaluated(w) \in Statuses
    BY <1>10, EvaluatedType DEF Upsert
  <2>2. \A d \in Candidates : Row(w, d) \in Statuses
    BY <2>1 DEF Row, Statuses
  <2>3. stored' \in [Candidates -> Statuses]
    BY <1>10, <2>2 DEF Upsert
  <2>4. /\ rises' \in [Candidates -> Nat]
        /\ stale' \in [Candidates -> Nat]
        /\ lost' \in [Candidates -> Nat]
    BY <1>10, <2>1, CountType DEF Upsert
  <2>5. QED
    BY <1>10, <2>3, <2>4 DEF Upsert
<1>11. ASSUME NEW w \in Workers, Keep(w)
       PROVE  Types'
  <2>1. Candidate(w) \in Candidates /\ current[w] \in Snapshots
    BY <1>11, EvaluatedType DEF Keep
  <2>2. lost' \in [Candidates -> Nat] /\ kept' \subseteq Snapshots
    BY <1>11, <2>1, CountType DEF Keep
  <2>3. Done(w) \/ Continue(w, "publish")
    BY <1>11 DEF Keep
  <2>4. QED
    BY <1>11, <2>1, <2>2, <2>3, LocalTypes DEF Keep
<1>12. ASSUME NEW w \in Workers, Publish(w)
       PROVE  Types'
  <2>1. Candidate(w) \in Candidates /\ current[w] \in Snapshots
    BY <1>12, EvaluatedType DEF Publish
  <2>2. Done(w) \/ Continue(w, "announce")
    BY <1>12 DEF Publish
  <2>3. QED
    BY <1>12, <2>1, <2>2, LocalTypes DEF Publish
<1>13. ASSUME NEW w \in Workers, Announce(w)
       PROVE  Types'
  <2>1. Candidate(w) \in Candidates /\ current[w] \in Snapshots
    BY <1>13, EvaluatedType DEF Announce
  <2>2. QED
    BY <1>13, <2>1, LocalTypes DEF Announce
<1>14. ASSUME NEW w \in Workers, Abandon(w), pc[w] # "idle"
       PROVE  faults' \in 0 .. MaxFaults /\ lost' \in [Candidates -> Nat]
  <2>1. Holds(w) => Candidate(w) \in Candidates
    BY EvaluatedType DEF Holds
  <2>2. faults' \in 0 .. MaxFaults
    BY <1>14, DiscoveryAssumption DEF Abandon
  <2>3. CASE Holds(w)
    <3>1. Count(lost, Candidate(w), TRUE) \in [Candidates -> Nat]
      BY <2>1, <2>3, CountType, Zenon
    <3>2. QED
      BY <1>14, <2>2, <2>3, <3>1 DEF Abandon
  <2>4. CASE ~ Holds(w)
    BY <1>14, <2>2, <2>4 DEF Abandon
  <2>5. QED
    BY <2>3, <2>4
<1>15. ASSUME NEW w \in Workers, RequestFails(w)
       PROVE  Types'
  <2>1. current[w] \in Snapshots
    BY <1>15, EvaluatedType DEF RequestFails
  <2>2. QED
    BY <1>14, <1>15, <2>1, LocalTypes DEF RequestFails
<1>16. ASSUME NEW w \in Workers, Crash(w)
       PROVE  Types'
  BY <1>14, <1>16 DEF Crash, Statuses
<1>17. CASE UNCHANGED vars
  BY <1>17 DEF vars
<1>18. QED
  BY <1>1, <1>2, <1>4, <1>5, <1>6, <1>7, <1>8, <1>9, <1>10, <1>11, <1>12, <1>13, <1>15, <1>16,
     <1>17 DEF Next, Step

-----------------------------------------------------------------------------
(* What is ingested, what is seen, and where each worker is. *)

\* The tables and the stream only grow.
LEMMA StoreGrows ==
  ASSUME [Next]_vars
  PROVE  /\ kept \subseteq kept' /\ published \subseteq published'
         /\ \A src : Ingested(src) \subseteq Ingested(src)'
<1>1. kept \subseteq kept' /\ published \subseteq published'
  BY DEF Next, Appear, RestOver, Step, Skip, FetchKept, FetchAll, FetchOnce, EndSource, Load,
         Upsert, Keep, Publish, Announce, RequestFails, Crash, Abandon, FetchFails, vars, store
<1>2. QED
  BY <1>1 DEF Ingested

\* Nothing happens to the worker.
Same(w) ==
    /\ todo'[w] = todo[w]
    /\ reading'[w] = reading[w]
    /\ batch'[w] = batch[w]
    /\ memory'[w] = memory[w]
    /\ pc'[w] = pc[w]
    /\ current'[w] = current[w]
    /\ previous'[w] = previous[w]

Moves(w) ==
    \/ Step(w) \/ RequestFails(w) \/ Crash(w)
    \/ \E src \in Sources : FetchFails(w, src)

\* A step of one worker leaves the others where they are.
LEMMA OthersStay ==
  ASSUME Types, NEW w \in Workers, NEW v \in Workers, Moves(v), v # w
  PROVE  Same(w)
  BY ZenonT(30)
  DEF Moves, Step, Skip, FetchKept, FetchAll, FetchOnce, Open, EndSource, Load, Upsert, Keep,
      Publish, Announce, RequestFails, Crash, FetchFails, Done, Continue, Same, local, Types, TypeOK

\* A worker that makes no step is left where it is.
LEMMA OnlyOneMoves ==
  ASSUME Types, [Next]_vars, NEW w \in Workers, ~ Moves(w)
  PROVE  Same(w)
<1>1. CASE UNCHANGED local
  BY <1>1 DEF local, Same
<1>2. QED
  BY <1>1, OthersStay DEF Next, Moves, Appear, RestOver, vars

\* And what it knows stays true while the tables grow.
LEMMA SameWorkerInv ==
  ASSUME [Next]_vars, NEW w \in Workers, WorkerInv(w), Same(w)
  PROVE  WorkerInv(w)'
  BY StoreGrows DEF WorkerInv, Same, Due, Evaluated

\* Done adds the snapshot to what the worker remembers of a kept source.
LEMMA DoneWorkerInv ==
  ASSUME Types, NEW w \in Workers, WorkerInv(w), [Next]_vars, Done(w),
         pc[w] \notin {"idle", "loop"}, UNCHANGED reading,
         reading[w] \in KeptSources => current[w] \in Ingested(reading[w])'
  PROVE  WorkerInv(w)'
<1>1. /\ pc'[w] = "loop"
      /\ memory'[w] = IF reading[w] \in KeptSources THEN Append(memory[w], current[w])
                                                   ELSE memory[w]
  BY DEF Done, Types, TypeOK
<1>2. memory[w] \in Seq(Snapshots) /\ current[w] \in Snapshots
  BY DEF Types, WorkerInv
<1>3. ASSUME reading[w] \in KeptSources
      PROVE  ToSet(memory[w])' \subseteq Ingested(reading[w])'
  <2>1. ToSet(memory[w]) \subseteq Ingested(reading[w])
    BY <1>3 DEF WorkerInv
  <2>2. Ingested(reading[w]) \subseteq Ingested(reading[w])'
    BY StoreGrows DEF Ingested
  <2>3. ToSet(memory[w])' = ToSet(memory[w]) \cup {current[w]}
    BY <1>1, <1>2, <1>3, ListElements
  <2>4. QED
    BY <1>3, <2>1, <2>2, <2>3
<1>4. QED
  BY <1>1, <1>3 DEF WorkerInv

\* What a worker does keeps its own invariant.
LEMMA StepWorkerInv ==
  ASSUME Types, IngestInv, [Next]_vars, NEW w \in Workers, Moves(w)
  PROVE  WorkerInv(w)'
<1>1. /\ WorkerInv(w)
      /\ \A src \in KeptSources : ToSet(seen[src]) \subseteq Ingested(src)
      /\ \A src : Ingested(src) \subseteq Ingested(src)'
  BY StoreGrows DEF IngestInv
<1>2. ASSUME NEW src \in Sources, Skip(w, src) \/ FetchFails(w, src)
      PROVE  WorkerInv(w)'
  BY <1>2 DEF Skip, FetchFails, WorkerInv
<1>3. ASSUME NEW src \in Sources, FetchKept(w, src)
      PROVE  WorkerInv(w)'
  <2>1. pc'[w] = "loop" /\ reading'[w] = src /\ memory'[w] = seen[src] /\ src \in KeptSources
    BY <1>3 DEF FetchKept, Open, Types, TypeOK
  <2>2. QED
    BY <1>1, <2>1 DEF WorkerInv
<1>4. ASSUME NEW src \in Sources, FetchAll(w, src) \/ FetchOnce(w, src)
      PROVE  WorkerInv(w)'
  <2>1. pc'[w] = "loop" /\ reading'[w] = src /\ src \notin KeptSources
    BY <1>4, DiscoveryAssumption DEF FetchAll, FetchOnce, Open, Types, TypeOK
  <2>2. QED
    BY <2>1 DEF WorkerInv
<1>5. CASE EndSource(w) \/ Crash(w)
  <2>1. pc'[w] = "idle"
    BY <1>5 DEF EndSource, Crash, Types, TypeOK
  <2>2. QED
    BY <2>1 DEF WorkerInv
<1>6. ASSUME NEW s \in Snapshots, Load(w, s)
      PROVE  WorkerInv(w)'
  <2>1. /\ pc[w] = "loop" /\ pc'[w] = "upsert" /\ current'[w] = s
        /\ UNCHANGED <<reading, memory>>
    BY <1>6 DEF Load, Types, TypeOK
  <2>2. QED
    BY <1>1, <2>1 DEF WorkerInv
<1>7. CASE Upsert(w)
  <2>1. /\ pc[w] = "upsert" /\ pc'[w] = "keep"
        /\ UNCHANGED <<reading, memory, current>>
    BY <1>7 DEF Upsert, Types, TypeOK
  <2>2. QED
    BY <1>1, <2>1 DEF WorkerInv
<1>8. CASE Keep(w)
  <2>1. /\ pc[w] = "keep" /\ reading' = reading
        /\ kept' = kept \cup {current[w]}
    BY <1>8 DEF Keep
  <2>2. CASE reading[w] \in SilentSources
    <3>1. current[w] \in Ingested(reading[w])'
      BY <1>1, <2>1, <2>2, EvaluatedType DEF Ingested
    <3>2. Done(w)
      BY <1>8, <2>2 DEF Keep
    <3>3. QED
      BY <1>1, <2>1, <3>1, <3>2, DoneWorkerInv
  <2>3. CASE reading[w] \notin SilentSources
    <3>1. pc'[w] = "publish" /\ UNCHANGED <<memory, current>>
      BY <1>8, <2>3 DEF Keep, Continue, Types, TypeOK
    <3>2. QED
      BY <1>1, <2>1, <2>3, <3>1 DEF WorkerInv
  <2>4. QED
    BY <2>2, <2>3
<1>9. CASE Publish(w)
  <2>1. /\ pc[w] = "publish" /\ reading' = reading /\ kept' = kept
        /\ published' = published \cup {current[w]}
    BY <1>9 DEF Publish
  <2>2. CASE Due(w)
    <3>1. pc'[w] = "announce" /\ UNCHANGED <<memory, current, previous>>
      BY <1>9, <2>2 DEF Publish, Continue, Types, TypeOK
    <3>2. Due(w)'
      BY <2>1, <2>2, <3>1 DEF Due, Evaluated
    <3>3. QED
      BY <1>1, <2>1, <3>1, <3>2 DEF WorkerInv
  <2>3. CASE ~ Due(w)
    <3>1. Done(w)
      BY <1>9, <2>3 DEF Publish
    <3>2. current[w] \in Ingested(reading[w])'
      BY <1>1, <2>1 DEF Ingested, WorkerInv
    <3>3. QED
      BY <1>1, <2>1, <3>1, <3>2, DoneWorkerInv
  <2>4. QED
    BY <2>2, <2>3
<1>10. CASE Announce(w)
  <2>1. pc[w] = "announce" /\ Done(w) /\ UNCHANGED <<reading, kept, published>>
    BY <1>10 DEF Announce
  <2>2. current[w] \in Ingested(reading[w])'
    BY <1>1, <2>1 DEF Ingested, WorkerInv
  <2>3. QED
    BY <1>1, <2>1, <2>2, DoneWorkerInv
<1>11. CASE RequestFails(w)
  <2>1. /\ Done(w) /\ UNCHANGED reading /\ pc[w] \notin {"idle", "loop"}
        /\ reading[w] \notin KeptSources
    BY <1>11, DiscoveryAssumption DEF RequestFails
  <2>2. QED
    BY <1>1, <2>1, DoneWorkerInv
<1>12. QED
  BY <1>2, <1>3, <1>4, <1>5, <1>6, <1>7, <1>8, <1>9, <1>10, <1>11 DEF Moves, Step

\* A step keeps what is ingested and seen.
LEMMA NextIngest == ASSUME Types, IngestInv, [Next]_vars PROVE IngestInv'
<1>1. ASSUME NEW w \in Workers
      PROVE  WorkerInv(w)'
  <2>1. CASE Moves(w)
    BY <2>1, StepWorkerInv
  <2>2. CASE ~ Moves(w)
    BY <2>2, OnlyOneMoves, SameWorkerInv DEF IngestInv
  <2>3. QED
    BY <2>1, <2>2
<1>2. ASSUME NEW src \in KeptSources
      PROVE  (ToSet(seen[src]) \subseteq Ingested(src))'
  <2>1. ToSet(seen[src]) \subseteq Ingested(src) /\ Ingested(src) \subseteq Ingested(src)'
    BY StoreGrows DEF IngestInv
  <2>2. CASE seen'[src] = seen[src]
    BY <2>1, <2>2
  <2>3. ASSUME NEW w \in Workers, EndSource(w), seen'[src] # seen[src]
        PROVE  (ToSet(seen[src]) \subseteq Ingested(src))'
    <3>1. seen'[src] = LastIds(memory[w]) /\ src = reading[w] /\ pc[w] = "loop"
      BY <2>3 DEF EndSource
    <3>2. ToSet(memory[w]) \subseteq Ingested(src)
      BY <3>1 DEF IngestInv, WorkerInv
    <3>3. ToSet(seen[src])' \subseteq ToSet(memory[w])
      BY <3>1, LastIdsType DEF Types
    <3>4. QED
      BY <2>1, <3>2, <3>3
  <2>4. seen'[src] = seen[src] \/ \E w \in Workers : EndSource(w)
    BY DEF Next, Appear, RestOver, Step, Skip, FetchKept, FetchAll, FetchOnce, Load, Upsert, Keep,
           Publish, Announce, RequestFails, Crash, FetchFails, vars, inputs
  <2>5. QED
    BY <2>2, <2>3, <2>4
<1>3. QED
  BY <1>1, <1>2 DEF IngestInv

-----------------------------------------------------------------------------
(* Counting the announcements. *)

\* A counter goes up for the candidate it is about, if the condition holds.
LEMMA CountAt ==
  ASSUME NEW counter \in [Candidates -> Nat], NEW c \in Candidates, NEW d \in Candidates,
         NEW condition
  PROVE  Count(counter, c, condition)[d]
           = IF d = c /\ condition THEN counter[d] + 1 ELSE counter[d]
  BY DEF Count

\* Of the workers that hold an announcement for a candidate, a step of one worker adds or
\* removes that one.
LEMMA HoldersMove ==
  ASSUME Types, NEW w \in Workers, Moves(w)
  PROVE  \A c : Holders(c) \ {w} = Holders(c)' \ {w}
<1>1. ASSUME NEW v \in Workers \ {w}
      PROVE  Holds(v)' = Holds(v) /\ Candidate(v)' = Candidate(v)
  <2>1. Same(v)
    BY OthersStay
  <2>2. QED
    BY <2>1 DEF Same, Holds, Due, Evaluated, Candidate
<1>2. QED
  BY <1>1 DEF Holders

\* AnnouncementsConserved, for one candidate.
Conserved(c) == announced[c] + Cardinality(Holders(c)) + lost[c] = rises[c] + stale[c]

\* A worker's step adds as much on one side as on the other.
LEMMA StepConserved ==
  ASSUME Types, IngestInv, NEW w \in Workers, Moves(w),
         NEW c \in Candidates, Conserved(c), IsFiniteSet(Holders(c))
  PROVE  Conserved(c)' /\ IsFiniteSet(Holders(c))'
<1> DEFINE in == w \in Holders(c)
           inAfter == w \in Holders(c)'
           before == Cardinality(Holders(c))
           after == Cardinality(Holders(c))'
<1>1. /\ IsFiniteSet(Holders(c)')
      /\ before \in Nat /\ after \in Nat
      /\ in /\ ~ inAfter => after = before - 1
      /\ ~ in /\ inAfter => after = before + 1
      /\ (in <=> inAfter) => after = before
  <2>1. Holders(c) \ {w} = Holders(c)' \ {w}
    BY HoldersMove
  <2>2. QED
    BY <2>1, OneApart, Zenon
<1>2. /\ announced[c] \in Nat /\ lost[c] \in Nat /\ rises[c] \in Nat /\ stale[c] \in Nat
      /\ announced[c] + before + lost[c] = rises[c] + stale[c]
  BY DEF Types, TypeOK, Conserved
<1>3. /\ in <=> Holds(w) /\ Candidate(w) = c
      /\ inAfter <=> Holds(w)' /\ Candidate(w)' = c
  BY DEF Holders
<1> HIDE DEF in, inAfter, before, after
<1>4. SUFFICES announced'[c] + after + lost'[c] = rises'[c] + stale'[c]
  BY <1>1 DEF Conserved, after
<1>5. ASSUME UNCHANGED <<announced, lost, rises, stale>>, ~ Holds(w), ~ Holds(w)'
      PROVE  announced'[c] + after + lost'[c] = rises'[c] + stale'[c]
  BY <1>1, <1>2, <1>3, <1>5
<1>6. CASE \/ \E src \in Sources : \/ Skip(w, src) \/ FetchKept(w, src)
                                  \/ FetchAll(w, src) \/ FetchOnce(w, src)
                                  \/ FetchFails(w, src)
           \/ EndSource(w)
           \/ \E s \in Snapshots : Load(w, s)
  <2>1. pc[w] \in {"idle", "loop"} /\ pc'[w] \in {"idle", "loop", "upsert"}
    BY <1>6
    DEF Skip, FetchKept, FetchAll, FetchOnce, FetchFails, Open, EndSource, Load, Types, TypeOK
  <2>2. UNCHANGED <<announced, lost, rises, stale>>
    BY <1>6
    DEF Skip, FetchKept, FetchAll, FetchOnce, FetchFails, Open, EndSource, Load, store, record
  <2>3. QED
    BY <1>5, <2>1, <2>2 DEF Holds
<1>7. ASSUME pc[w] \notin {"idle", "loop"}
      PROVE  Candidate(w) \in Candidates
  BY <1>7, EvaluatedType
<1>8. ASSUME pc'[w] \in {"idle", "loop"}
      PROVE  ~ Holds(w)'
  BY <1>8 DEF Holds
<1>9. ASSUME UNCHANGED <<reading, current, previous>>
      PROVE  (Due(w)' <=> Due(w)) /\ Candidate(w)' = Candidate(w)
  BY <1>9 DEF Due, Evaluated, Candidate
<1>10. /\ lost \in [Candidates -> Nat] /\ announced \in [Candidates -> Nat]
       /\ rises \in [Candidates -> Nat] /\ stale \in [Candidates -> Nat]
  BY DEF Types, TypeOK
<1>11. CASE Upsert(w)
  <2> DEFINE d == Candidate(w)
             qualified == Evaluated(w) = "QUALIFIED"
             rise == qualified /\ stored[d] # "QUALIFIED"
             again == qualified /\ previous[w] # "QUALIFIED" /\ ~ rise
             missed == rise /\ previous[w] = "QUALIFIED"
  <2>1. /\ pc[w] = "upsert" /\ pc'[w] = "keep"
        /\ UNCHANGED <<announced, reading, current, previous>>
        /\ rises' = Count(rises, d, rise)
        /\ stale' = Count(stale, d, again)
        /\ lost' = Count(lost, d, missed)
    BY <1>11 DEF Upsert, inputs, Types, TypeOK
  <2>2. ~ Holds(w) /\ Candidate(w)' = d /\ (Holds(w)' <=> qualified /\ previous[w] # "QUALIFIED")
    BY <1>9, <2>1 DEF Holds, Due
  <2>3. d \in Candidates
    BY <1>7, <2>1
  <2> HIDE DEF d, rise, again, missed
  <2>4. /\ rises'[c] = IF c = d /\ rise THEN rises[c] + 1 ELSE rises[c]
        /\ stale'[c] = IF c = d /\ again THEN stale[c] + 1 ELSE stale[c]
        /\ lost'[c] = IF c = d /\ missed THEN lost[c] + 1 ELSE lost[c]
    BY <1>10, <2>1, <2>3, CountAt
  <2>5. CASE c # d
    BY <1>1, <1>2, <1>3, <2>1, <2>2, <2>4, <2>5
  <2>6. CASE c = d
    BY <1>1, <1>2, <1>3, <2>1, <2>2, <2>4, <2>6 DEF d, rise, again, missed
  <2>7. QED
    BY <2>5, <2>6
<1>12. CASE Keep(w)
  <2> DEFINE d == Candidate(w)
             withheld == reading[w] \in SilentSources /\ Due(w)
  <2>1. /\ pc[w] = "keep" /\ UNCHANGED <<announced, rises, stale, reading>>
        /\ lost' = Count(lost, d, withheld)
    BY <1>12 DEF Keep, inputs
  <2>2. d \in Candidates /\ (Holds(w) <=> Due(w))
    BY <1>7, <2>1 DEF Holds
  <2>3. lost'[c] = IF c = d /\ withheld THEN lost[c] + 1 ELSE lost[c]
    <3> HIDE DEF d, withheld
    <3>1. QED
      BY <1>10, <2>1, <2>2, CountAt
  <2>4. CASE reading[w] \in SilentSources
    <3>1. pc'[w] = "loop"
      BY <1>12, <2>4 DEF Keep, Done, Types, TypeOK
    <3>2. QED
      BY <1>1, <1>2, <1>3, <1>8, <2>1, <2>2, <2>3, <2>4, <3>1
  <2>5. CASE reading[w] \notin SilentSources
    <3>1. pc'[w] = "publish" /\ UNCHANGED <<current, previous>>
      BY <1>12, <2>5 DEF Keep, Continue, Types, TypeOK
    <3>2. Holds(w)' <=> Due(w)
      BY <1>9, <2>1, <3>1 DEF Holds
    <3>3. QED
      BY <1>1, <1>2, <1>3, <1>9, <2>1, <2>2, <2>3, <2>5, <3>1, <3>2
  <2>6. QED
    BY <2>4, <2>5
<1>13. CASE Publish(w)
  <2>1. pc[w] = "publish" /\ UNCHANGED <<announced, rises, stale, lost, reading>>
    BY <1>13 DEF Publish, record
  <2>2. Holds(w) <=> Due(w)
    BY <2>1 DEF Holds
  <2>3. CASE Due(w)
    <3>1. pc'[w] = "announce" /\ UNCHANGED <<current, previous>>
      BY <1>13, <2>3 DEF Publish, Continue, Types, TypeOK
    <3>2. Holds(w)'
      BY <1>9, <2>1, <2>3, <3>1 DEF Holds
    <3>3. QED
      BY <1>1, <1>2, <1>3, <1>9, <2>1, <2>2, <2>3, <3>1, <3>2
  <2>4. CASE ~ Due(w)
    <3>1. pc'[w] = "loop"
      BY <1>13, <2>4 DEF Publish, Done, Types, TypeOK
    <3>2. QED
      BY <1>5, <1>8, <2>1, <2>2, <2>4, <3>1
  <2>5. QED
    BY <2>3, <2>4
<1>14. CASE Announce(w)
  <2>1. /\ pc[w] = "announce" /\ pc'[w] = "loop"
        /\ announced' = [announced EXCEPT ![Candidate(w)] = @ + 1]
        /\ UNCHANGED <<rises, stale, lost>>
    BY <1>14 DEF Announce, Done, record, Types, TypeOK
  <2>2. Holds(w)
    BY <2>1 DEF IngestInv, WorkerInv, Holds
  <2>3. announced'[c] = IF c = Candidate(w) THEN announced[c] + 1 ELSE announced[c]
    BY <1>10, <2>1
  <2>4. QED
    BY <1>1, <1>2, <1>3, <1>8, <2>1, <2>2, <2>3
<1>15. CASE RequestFails(w) \/ Crash(w)
  <2>1. /\ pc[w] # "idle" /\ pc'[w] \in {"idle", "loop"}
        /\ lost' = IF Holds(w) THEN Count(lost, Candidate(w), TRUE) ELSE lost
        /\ UNCHANGED <<announced, rises, stale>>
    BY <1>15 DEF RequestFails, Crash, Abandon, Done, store, Types, TypeOK
  <2>2. CASE Holds(w)
    <3>1. Candidate(w) \in Candidates
      BY <1>7, <2>2 DEF Holds
    <3>2. lost'[c] = IF c = Candidate(w) THEN lost[c] + 1 ELSE lost[c]
      BY <1>10, <2>1, <2>2, <3>1 DEF Count
    <3>3. ~ inAfter /\ (in <=> c = Candidate(w))
      BY <1>3, <1>8, <2>1, <2>2
    <3>4. announced'[c] = announced[c] /\ rises'[c] = rises[c] /\ stale'[c] = stale[c]
      BY <2>1
    <3>5. CASE c = Candidate(w)
      BY <1>1, <1>2, <3>2, <3>3, <3>4, <3>5
    <3>6. CASE c # Candidate(w)
      BY <1>1, <1>2, <3>2, <3>3, <3>4, <3>6
    <3>7. QED
      BY <3>5, <3>6
  <2>3. CASE ~ Holds(w)
    BY <1>5, <1>8, <2>1, <2>3
  <2>4. QED
    BY <2>2, <2>3
<1>16. QED
  BY <1>6, <1>11, <1>12, <1>13, <1>14, <1>15 DEF Moves, Step

\* The workers start with Inv.
LEMMA InitInv == Init => Inv
<1> SUFFICES ASSUME Init
             PROVE  Inv
  OBVIOUS
<1>1. IngestInv
  <2>1. \A src \in KeptSources : ToSet(seen[src]) = {}
    BY DEF Init, ToSet
  <2>2. QED
    BY <2>1 DEF Init, IngestInv, WorkerInv
<1>2. ASSUME NEW c \in Candidates
      PROVE  Holders(c) = {} /\ IsFiniteSet(Holders(c)) /\ Conserved(c)
  <2>1. Holders(c) = {}
    BY DEF Init, Holders, Holds
  <2>2. IsFiniteSet(Holders(c)) /\ Cardinality(Holders(c)) = 0
    BY <2>1, FS_EmptySet
  <2>3. QED
    BY <2>1, <2>2 DEF Init, Conserved
<1>3. QED
  BY <1>1, <1>2, InitTypes DEF Inv, CountInv, AnnouncementsConserved, Conserved

\* A step keeps Inv.
LEMMA NextInv == ASSUME Inv, [Next]_vars PROVE Inv'
<1>1. Types' /\ IngestInv'
  BY NextTypes, NextIngest DEF Inv
<1>2. ASSUME NEW c \in Candidates
      PROVE  Conserved(c)' /\ IsFiniteSet(Holders(c))'
  <2>1. Conserved(c) /\ IsFiniteSet(Holders(c))
    BY DEF Inv, CountInv, AnnouncementsConserved, Conserved
  <2>2. CASE \E w \in Workers : Moves(w)
    BY <2>1, <2>2, StepConserved DEF Inv
  <2>3. CASE UNCHANGED <<announced, rises, stale, lost, pc, reading, current, previous>>
    <3>1. Holders(c)' = Holders(c)
      BY <2>3 DEF Holders, Holds, Due, Evaluated, Candidate
    <3>2. QED
      BY <2>1, <2>3, <3>1 DEF Conserved
  <2>4. QED
    BY <2>2, <2>3 DEF Next, Moves, Appear, RestOver, vars, store, local, record
<1>3. QED
  BY <1>1, <1>2 DEF Inv, CountInv, AnnouncementsConserved, Conserved

\* Every reachable state satisfies Inv.
THEOREM Invariance == Spec => []Inv
  BY InitInv, NextInv, PTL DEF Spec

\* The types; a checkpoint holds SeenLimit ids at most.
THEOREM TypeCorrectness == Spec => []TypeOK
<1>1. Inv => TypeOK
  BY DEF Inv, Types
<1>2. QED
  BY <1>1, Invariance, PTL

\* Whatever the workers do to each other's rows between the load and the upsert of
\* ingest_snapshot, each time a candidate becomes QUALIFIED is one announcement, made, to
\* come, or lost in one of three known ways (_publish_qualified_candidate_event).
THEOREM NoAnnouncementUnaccounted == Spec => []AnnouncementsConserved
<1>1. Inv => AnnouncementsConserved
  BY DEF Inv, CountInv
<1>2. QED
  BY <1>1, Invariance, PTL

\* A death at any point has a snapshot ingested again, never skipped: the checkpoint of seen
\* ids (_save_seen_source_event_ids) is written behind the ingestion.
THEOREM NeverSkipped == Spec => []SeenWasIngested
<1>1. Inv => SeenWasIngested
  BY DEF Inv, IngestInv, Ingested, SeenWasIngested
<1>2. QED
  BY <1>1, Invariance, PTL

-----------------------------------------------------------------------------
(* Social confirmation. *)

\* ReadingInv, for one worker.
OwnReading(w) ==
    /\ \A src \in todo[w] : WorkerOf[src] = w
    /\ pc[w] # "idle" => WorkerOf[reading[w]] = w /\ batch[w] \subseteq Feed[reading[w]]
    /\ pc[w] \notin {"idle", "loop"} => current[w] \in Feed[reading[w]]

\* A step keeps every worker with its own sources.
LEMMA NextReading == ASSUME Types, IngestInv, ReadingInv, [Next]_vars PROVE ReadingInv'
<1>1. \A src \in Sources : available'[src] \subseteq Feed[src]
  <2>1. ASSUME NEW src \in Sources, NEW s \in Snapshots, Appear(src, s)
        PROVE  \A other \in Sources : available'[other] \subseteq Feed[other]
    BY <2>1 DEF Appear, ReadingInv, Types, TypeOK
  <2>2. ASSUME NEW w \in Workers, NEW src \in Sources, FetchOnce(w, src)
        PROVE  \A other \in Sources : available'[other] \subseteq Feed[other]
    BY <2>2 DEF FetchOnce, ReadingInv, Types, TypeOK
  <2>3. CASE available' = available
    BY <2>3 DEF ReadingInv
  <2>4. QED
    BY <2>1, <2>2, <2>3
    DEF Next, RestOver, Step, Skip, FetchKept, FetchAll, EndSource, Load, Upsert, Keep, Publish,
        Announce, RequestFails, Crash, FetchFails, vars, inputs
<1>2. ASSUME NEW w \in Workers, Moves(w)
      PROVE  OwnReading(w)'
  <2> USE DEF Types, TypeOK, OwnReading
  <2>1. OwnReading(w) /\ \A src \in Sources : available[src] \subseteq Feed[src]
    BY DEF ReadingInv
  <2>2. \A src \in ToRead(w) : WorkerOf[src] = w
    BY <2>1 DEF ToRead
  <2>3. ASSUME NEW src \in Sources, Skip(w, src) \/ FetchFails(w, src)
        PROVE  OwnReading(w)'
    BY <2>2, <2>3 DEF Skip, FetchFails
  <2>4. ASSUME NEW src \in Sources, FetchKept(w, src)
        PROVE  OwnReading(w)'
    BY <2>1, <2>2, <2>4 DEF FetchKept, Open
  <2>5. ASSUME NEW src \in Sources, FetchAll(w, src) \/ FetchOnce(w, src)
        PROVE  OwnReading(w)'
    BY <2>1, <2>2, <2>5 DEF FetchAll, FetchOnce, Open
  <2>6. CASE EndSource(w)
    BY <2>1, <2>6 DEF EndSource
  <2>7. ASSUME NEW s \in Snapshots, Load(w, s)
        PROVE  OwnReading(w)'
    BY <2>1, <2>7 DEF Load
  <2>8. CASE Upsert(w)
    BY <2>1, <2>8 DEF Upsert
  <2>9. CASE Keep(w) \/ Publish(w)
    BY <2>1, <2>9 DEF Keep, Publish, Done, Continue
  <2>10. CASE Announce(w) \/ RequestFails(w)
    BY <2>1, <2>10 DEF Announce, RequestFails, Done
  <2>11. CASE Crash(w)
    BY <2>11 DEF Crash
  <2>12. QED
    BY <1>2, <2>3, <2>4, <2>5, <2>6, <2>7, <2>8, <2>9, <2>10, <2>11 DEF Moves, Step
<1>3. ASSUME NEW w \in Workers, ~ Moves(w)
      PROVE  OwnReading(w)'
  <2>1. Same(w) /\ OwnReading(w)
    BY <1>3, OnlyOneMoves DEF ReadingInv, OwnReading
  <2>2. QED
    BY <2>1 DEF Same, OwnReading
<1>4. QED
  BY <1>1, <1>2, <1>3 DEF ReadingInv, OwnReading

\* A candidate of social confirmation is worked on for a social source, by one worker.
LEMMA SocialReader ==
  ASSUME Types, IngestInv, ReadingInv, NEW w \in Workers, pc[w] \notin {"idle", "loop"},
         Candidate(w) \in SocialCandidates
  PROVE  reading[w] \in SocialSources /\ WorkerOf[reading[w]] = w
<1>1. current[w] \in Snapshots /\ reading[w] \in Sources
  BY EvaluatedType
<1>2. current[w] \in SocialSnapshots
  BY <1>1 DEF SocialCandidates, Candidate
<1>3. PICK src \in SocialSources : current[w] \in Feed[src]
  BY <1>2 DEF SocialSnapshots
<1>4. current[w] \in Feed[reading[w]] /\ WorkerOf[reading[w]] = w
  BY DEF ReadingInv
<1>5. reading[w] \in SocialSources
  BY <1>1, <1>3, <1>4, SocialAssumption
<1>6. QED
  BY <1>4, <1>5

\* What a step does to the row of a social candidate: evicted, left alone, or stored by the
\* social worker, which never takes QUALIFIED back.
LEMMA SocialRow ==
  ASSUME Types, IngestInv, ReadingInv, SocialInv, [Next]_vars, NEW c \in SocialCandidates
  PROVE  \/ stored'[c] = stored[c]
         \/ stored'[c] = "ABSENT"
         \/ \E w \in Workers :
                /\ Upsert(w) /\ Candidate(w) = c
                /\ stored[c] = "QUALIFIED" => stored'[c] = "QUALIFIED"
<1>1. CASE stored' = stored
  BY <1>1
<1>2. ASSUME NEW w \in Workers, Upsert(w)
      PROVE  \/ stored'[c] = stored[c]
             \/ stored'[c] = "ABSENT"
             \/ Candidate(w) = c /\ (stored[c] = "QUALIFIED" => stored'[c] = "QUALIFIED")
  <2>1. stored'[c] = Row(w, c) /\ pc[w] = "upsert"
    BY <1>2 DEF Upsert, SocialCandidates
  <2>2. CASE Candidate(w) # c
    BY <2>1, <2>2 DEF Row
  <2>3. CASE Candidate(w) = c
    <3>1. reading[w] \in SocialSources
      BY <2>1, <2>3, SocialReader
    <3>2. stored[c] = "QUALIFIED" => previous[w] = "QUALIFIED"
      BY <2>1, <2>3 DEF SocialInv
    <3>3. QED
      BY <2>1, <2>3, <3>1, <3>2 DEF Row, Evaluated
  <2>4. QED
    BY <2>2, <2>3
<1>3. stored' = stored \/ \E w \in Workers : Upsert(w)
  BY DEF Next, Appear, RestOver, Step, Skip, FetchKept, FetchAll, FetchOnce, EndSource, Load, Keep,
         Publish, Announce, RequestFails, Crash, FetchFails, vars, store
<1>4. QED
  BY <1>1, <1>2, <1>3

\* A step keeps SocialInv: only the worker itself could make its candidate QUALIFIED.
LEMMA NextSocial ==
  ASSUME Types, IngestInv, ReadingInv, SocialInv, [Next]_vars PROVE SocialInv'
<1> SUFFICES ASSUME NEW w \in Workers, pc'[w] = "upsert", Candidate(w)' \in SocialCandidates,
                    stored'[Candidate(w)'] = "QUALIFIED"
             PROVE  previous'[w] = "QUALIFIED"
  BY DEF SocialInv, SocialCandidates, SocialSnapshots
<1>1. CASE Moves(w)
  <2>1. PICK s \in Snapshots : Load(w, s)
    BY <1>1 
    DEF Moves, Step, Skip, FetchKept, FetchAll, FetchOnce, Open, EndSource, Upsert, Keep, Publish,
        Announce, RequestFails, Crash, FetchFails, Done, Continue, Types, TypeOK
  <2>2. current'[w] = s /\ previous'[w] = stored[CandidateOf[s]] /\ stored' = stored
    BY <2>1 DEF Load, store, Types, TypeOK
  <2>3. QED
    BY <2>2 DEF Candidate
<1>2. CASE ~ Moves(w)
  <2> DEFINE c == Candidate(w)
  <2>1. Same(w)
    BY <1>2, OnlyOneMoves
  <2>2. pc[w] = "upsert" /\ Candidate(w)' = c /\ c \in SocialCandidates
    BY <2>1 DEF Same, Candidate
  <2>3. ASSUME NEW v \in Workers, Upsert(v), Candidate(v) = c
        PROVE  v = w
    <3>1. /\ reading[w] \in SocialSources /\ WorkerOf[reading[w]] = w
          /\ reading[v] \in SocialSources /\ WorkerOf[reading[v]] = v
      BY <2>2, <2>3, SocialReader DEF Upsert
    <3>2. QED
      BY <3>1, SocialAssumption
  <2>4. ~ Upsert(w)
    BY <1>2 DEF Moves, Step
  <2>5. stored'[c] = "QUALIFIED" => stored[c] = "QUALIFIED"
    BY <2>2, <2>3, <2>4, SocialRow
  <2>6. QED
    BY <2>1, <2>2, <2>5 DEF Same, SocialInv
<1>3. QED
  BY <1>1, <1>2

\* Social confirmation never takes QUALIFIED back (ingest_analysis_event and
\* _build_social_candidate of discovery/service.py), as long as one worker does it: a candidate
\* of its own loses the status only with its row.
THEOREM NeverDemoted == Spec => SocialNeverDemotes
<1> DEFINE SocialAll == Inv /\ ReadingInv /\ SocialInv
<1>1. Init => SocialAll
  <2>1. Init => ReadingInv /\ SocialInv
    BY DEF Init, ReadingInv, SocialInv
  <2>2. QED
    BY <2>1, InitInv
<1>2. SocialAll /\ [Next]_vars => SocialAll'
  BY NextInv, NextReading, NextSocial DEF Inv
<1>3. SocialAll /\ [Next]_vars
        => [\A c \in SocialCandidates :
              stored[c] = "QUALIFIED" => stored'[c] \in {"QUALIFIED", "ABSENT"}]_vars
  BY SocialRow DEF Inv
<1>4. QED
  BY <1>1, <1>2, <1>3, PTL DEF Spec, SocialNeverDemotes
================================================================================

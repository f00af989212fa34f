------------------------------- MODULE Discovery -------------------------------
(***************************************************************************)
(* Discovery of candidates: the ingest operations of discovery/service.py, *)
(* the alpha_candidates table of discovery/repository.py, and the workers  *)
(* that feed them (core/worker.py).                                        *)
(*                                                                         *)
(* An ingestion is a row of transactions and publications: the candidate   *)
(* as it was is loaded, the candidate is stored, the observation is kept   *)
(* and published, and if the candidate has become QUALIFIED that is kept   *)
(* and announced.  Nothing holds these steps together, and several workers *)
(* run at once.  The table has one row for a chain and pool_address, so    *)
(* storing a candidate evicts another of the same slot; catalysts use the  *)
(* venue for their pool, and social candidates one pool for all.           *)
(*                                                                         *)
(* The workers differ in what they read.  The catalyst and flow workers    *)
(* read feeds that offer a snapshot for a long time; they keep the ids     *)
(* they have ingested in a checkpoint and let a failing source rest.  The  *)
(* launch worker, and a backfill without --once, ingest all they are       *)
(* offered in every round.  Social confirmation reads requests, each of    *)
(* them once, and survives a failing one.                                  *)
(* Scores are left out: a snapshot carries the verdict of its scanner.     *)
(***************************************************************************)
EXTENDS Integers, Sequences, FiniteSets, SequencesExt

CONSTANTS
    Snapshots,
    Candidates,
    CandidateOf,        \* the candidate a snapshot is about
    Verdict,            \* what the scanner makes of it
    SlotOf,             \* the chain and pool_address a candidate is stored under
    Workers,
    Sources,
    WorkerOf,           \* the worker that reads a source
    Feed,               \* the snapshots a source may offer
    KeptSources,        \* feeds with a checkpoint of seen ids
    SilentSources,      \* of those, the ones that are observe_only
    SocialSources,      \* requests for social confirmation
    Nothing,            \* no snapshot, no source
    SeenLimit,          \* ids kept in a checkpoint (200)
    MaxFaults           \* bound: crashes, failed fetches and failed requests, in all

ASSUME DiscoveryAssumption ==
    /\ CandidateOf \in [Snapshots -> Candidates]
    /\ Verdict \in [Snapshots -> {"OBSERVED", "REJECTED", "QUALIFIED"}]
    /\ DOMAIN SlotOf = Candidates
    /\ WorkerOf \in [Sources -> Workers]
    /\ Feed \in [Sources -> SUBSET Snapshots]
    /\ SilentSources \subseteq KeptSources
    /\ KeptSources \subseteq Sources
    /\ SocialSources \subseteq Sources \ KeptSources
    /\ Nothing \notin Snapshots \cup Sources
    /\ SeenLimit \in Nat \ {0}
    /\ MaxFaults \in Nat

\* One worker does social confirmation (docker-compose.aliyun.yml), of snapshots of its own.
ASSUME SocialAssumption ==
    /\ \A src, other \in SocialSources : WorkerOf[src] = WorkerOf[other]
    /\ \A src \in SocialSources, other \in Sources \ SocialSources :
         Feed[src] \cap Feed[other] = {}

VARIABLES
    stored,     \* alpha_candidates: the status of each candidate that has a row
    kept,       \* alpha_snapshots and alpha_candidate_events: observations
    published,  \* raw-events: snapshots published as an observation
    announced,  \* raw-events: alpha.candidate_qualified events of each candidate
    available,  \* what each source offers, or has not yet handed out of its requests
    seen,       \* seen ids in the checkpoint of each kept source
    resting,    \* kept sources whose next_eligible_at lies ahead
    todo,       \* sources each worker has still to read in this round
    reading,    \* the source it is reading
    batch,      \* the snapshots it has fetched and not ingested
    memory,     \* its seen_ids
    pc,         \* where it is in an ingestion
    current,    \* the snapshot it ingests
    previous,   \* the status the candidate had when it was loaded
    rises,      \* history: how often each candidate became QUALIFIED in the table
    stale,      \* history: how often it was stored on the strength of an older status
    lost,       \* history: announcements that were due and were never made
    faults      \* history: crashes and failures

store  == <<stored, kept, published, announced>>
inputs == <<available, seen, resting>>
local  == <<todo, reading, batch, memory, pc, current, previous>>
record == <<rises, stale, lost, faults>>
vars   == <<store, inputs, local, record>>

Init ==
    /\ stored = [c \in Candidates |-> "ABSENT"]
    /\ kept = {}
    /\ published = {}
    /\ announced = [c \in Candidates |-> 0]
    /\ available = [src \in Sources |-> IF src \in SocialSources THEN Feed[src] ELSE {}]
    /\ seen = [src \in KeptSources |-> <<>>]
    /\ resting = {}
    /\ todo = [w \in Workers |-> {}]
    /\ reading = [w \in Workers |-> Nothing]
    /\ batch = [w \in Workers |-> {}]
    /\ memory = [w \in Workers |-> <<>>]
    /\ pc = [w \in Workers |-> "idle"]
    /\ current = [w \in Workers |-> Nothing]
    /\ previous = [w \in Workers |-> "ABSENT"]
    /\ rises = [c \in Candidates |-> 0]
    /\ stale = [c \in Candidates |-> 0]
    /\ lost = [c \in Candidates |-> 0]
    /\ faults = 0

-----------------------------------------------------------------------------
(* The outside world. *)

\* A feed shows one more snapshot, or a file has one more line, and keeps it.
Appear(src, s) ==
    /\ src \notin SocialSources
    /\ s \in Feed[src] \ available[src]
    /\ available' = [available EXCEPT ![src] = @ \cup {s}]
    /\ UNCHANGED <<store, seen, resting, local, record>>

\* The retry delay of a source is over.
RestOver(src) ==
    /\ src \in resting
    /\ resting' = resting \ {src}
    /\ UNCHANGED <<store, available, seen, local, record>>

-----------------------------------------------------------------------------
(* The loop of a worker over its sources. *)

\* What is left of the round; after the last source the next round begins.
ToRead(w) == IF todo[w] = {} THEN {src \in Sources : WorkerOf[src] = w} ELSE todo[w]

Skip(w, src) ==
    /\ pc[w] = "idle"
    /\ src \in ToRead(w) \cap resting
    /\ todo' = [todo EXCEPT ![w] = ToRead(w) \ {src}]
    /\ UNCHANGED <<store, inputs, reading, batch, memory, pc, current, previous, record>>

Open(w, src, fetched) ==
    /\ pc[w] = "idle"
    /\ src \in ToRead(w)
    /\ todo' = [todo EXCEPT ![w] = ToRead(w) \ {src}]
    /\ reading' = [reading EXCEPT ![w] = src]
    /\ batch' = [batch EXCEPT ![w] = fetched]
    /\ pc' = [pc EXCEPT ![w] = "loop"]

FetchKeptMarkingSeen(w, src) ==
    /\ src \in KeptSources \ resting
    /\ Open(w, src, available[src] \ ToSet(seen[src]))
    /\ memory' = [memory EXCEPT ![w] = seen[src]]
    /\ seen' = [seen EXCEPT ![src] = SetToSeq(available[src])]
    /\ UNCHANGED <<store, available, resting, current, previous, record>>

\* A source that does not rest is read; what its checkpoint has seen is passed over.
FetchKept(w, src) ==
    /\ src \in KeptSources \ resting
    /\ Open(w, src, available[src] \ ToSet(seen[src]))
    /\ memory' = [memory EXCEPT ![w] = seen[src]]
    /\ UNCHANGED <<store, inputs, current, previous, record>>

\* Without a checkpoint everything on offer is ingested again, in every round.  (With --once
\* a backfill ends after the first one.)
FetchAll(w, src) ==
    /\ src \notin KeptSources \cup SocialSources
    /\ Open(w, src, available[src])
    /\ UNCHANGED <<store, inputs, memory, current, previous, record>>

\* The requests of social confirmation are acknowledged before they are worked on.
FetchOnce(w, src) ==
    /\ src \in SocialSources
    /\ Open(w, src, available[src])
    /\ available' = [available EXCEPT ![src] = {}]
    /\ UNCHANGED <<store, seen, resting, memory, current, previous, record>>

FetchFailsAnySource(w, src) ==
    /\ faults < MaxFaults
    /\ pc[w] = "idle"
    /\ src \in ToRead(w) \ resting
    /\ resting' = resting \cup {src}
    /\ todo' = [todo EXCEPT ![w] = ToRead(w) \ {src}]
    /\ faults' = faults + 1
    /\ UNCHANGED <<store, available, seen, reading, batch, memory, pc, current, previous,
                   rises, stale, lost>>

\* fetch_snapshots raises: the source rests, and the worker goes on to the next one.
FetchFails(w, src) ==
    /\ faults < MaxFaults
    /\ pc[w] = "idle"
    /\ src \in ToRead(w) \cap KeptSources
    /\ src \notin resting
    /\ resting' = resting \cup {src}
    /\ todo' = [todo EXCEPT ![w] = ToRead(w) \ {src}]
    /\ faults' = faults + 1
    /\ UNCHANGED <<store, available, seen, reading, batch, memory, pc, current, previous,
                   rises, stale, lost>>

LastIds(ids) == SubSeq(ids, IF Len(ids) > SeenLimit THEN Len(ids) - SeenLimit + 1 ELSE 1, Len(ids))

\* The batch is done: the checkpoint of ids is saved, and the state of the source.
EndSource(w) ==
    /\ pc[w] = "loop"
    /\ batch[w] = {}
    /\ seen' = [src \in KeptSources |->
                  IF src = reading[w] THEN LastIds(memory[w]) ELSE seen[src]]
    /\ resting' = resting \ {reading[w]}
    /\ reading' = [reading EXCEPT ![w] = Nothing]
    /\ memory' = [memory EXCEPT ![w] = <<>>]
    /\ pc' = [pc EXCEPT ![w] = "idle"]
    /\ UNCHANGED <<store, available, todo, batch, current, previous, record>>

-----------------------------------------------------------------------------
(* One ingestion. *)

Candidate(w) == CandidateOf[current[w]]

EvaluatedAlone(w) == Verdict[current[w]]

\* The scanner's verdict; a social candidate that was QUALIFIED stays so.
Evaluated(w) ==
    IF reading[w] \in SocialSources /\ previous[w] = "QUALIFIED"
      THEN "QUALIFIED"
      ELSE Verdict[current[w]]

DueAlways(w) == Evaluated(w) = "QUALIFIED"

\* _publish_qualified_candidate_event has something to do.
Due(w) == Evaluated(w) = "QUALIFIED" /\ previous[w] # "QUALIFIED"

Load(w, s) ==
    /\ pc[w] = "loop"
    /\ s \in batch[w]
    /\ current' = [current EXCEPT ![w] = s]
    /\ previous' = [previous EXCEPT ![w] = stored[CandidateOf[s]]]
    /\ pc' = [pc EXCEPT ![w] = "upsert"]
    /\ UNCHANGED <<store, inputs, todo, reading, batch, memory, record>>

\* upsert_candidate: one row for a slot, whoever had it.
Row(w, d) ==
    CASE d = Candidate(w) -> Evaluated(w)
      [] d # Candidate(w) /\ SlotOf[d] = SlotOf[Candidate(w)] -> "ABSENT"
      [] OTHER -> stored[d]

Count(counter, c, condition) == [counter EXCEPT ![c] = @ + (IF condition THEN 1 ELSE 0)]

Upsert(w) ==
    LET c == Candidate(w)
        rise == Evaluated(w) = "QUALIFIED" /\ stored[c] # "QUALIFIED"
    IN  /\ pc[w] = "upsert"
        /\ stored' = [d \in Candidates |-> Row(w, d)]
        /\ rises' = Count(rises, c, rise)
        /\ stale' = Count(stale, c,
                          /\ Evaluated(w) = "QUALIFIED" /\ previous[w] # "QUALIFIED"
                          /\ ~rise)
        /\ lost' = Count(lost, c, rise /\ previous[w] = "QUALIFIED")
        /\ pc' = [pc EXCEPT ![w] = "keep"]
        /\ UNCHANGED <<kept, published, announced, inputs, todo, reading, batch, memory,
                       current, previous, faults>>

\* The loop goes on to the next snapshot.
Done(w) ==
    /\ batch' = [batch EXCEPT ![w] = @ \ {current[w]}]
    /\ memory' = [memory EXCEPT ![w] =
                    IF reading[w] \in KeptSources THEN Append(@, current[w]) ELSE @]
    /\ pc' = [pc EXCEPT ![w] = "loop"]
    /\ current' = [current EXCEPT ![w] = Nothing]
    /\ previous' = [previous EXCEPT ![w] = "ABSENT"]

Continue(w, next) ==
    /\ pc' = [pc EXCEPT ![w] = next]
    /\ UNCHANGED <<batch, memory, current, previous>>

\* save_snapshot, append_event and raw_events.save.  What observe_only keeps to itself
\* ends here, publish_event being false.
Keep(w) ==
    LET silent == reading[w] \in SilentSources
    IN  /\ pc[w] = "keep"
        /\ kept' = kept \cup {current[w]}
        /\ lost' = Count(lost, Candidate(w), silent /\ Due(w))
        /\ IF silent THEN Done(w) ELSE Continue(w, "publish")
        /\ UNCHANGED <<stored, published, announced, inputs, todo, reading, rises, stale,
                       faults>>

Publish(w) ==
    /\ pc[w] = "publish"
    /\ published' = published \cup {current[w]}
    /\ IF Due(w) THEN Continue(w, "announce") ELSE Done(w)
    /\ UNCHANGED <<stored, kept, announced, inputs, todo, reading, record>>

\* The qualification is appended to the candidate's events, then announced.
Announce(w) ==
    /\ pc[w] = "announce"
    /\ announced' = [announced EXCEPT ![Candidate(w)] = @ + 1]
    /\ Done(w)
    /\ UNCHANGED <<stored, kept, published, inputs, todo, reading, record>>

-----------------------------------------------------------------------------
(* Faults. *)

\* The candidate is stored as QUALIFIED, the announcement is still to come.
Holds(w) == pc[w] \in {"keep", "publish", "announce"} /\ Due(w)

Abandon(w) ==
    /\ faults < MaxFaults
    /\ faults' = faults + 1
    /\ lost' = IF Holds(w) THEN Count(lost, Candidate(w), TRUE) ELSE lost

\* A request raises: it is logged, and the next one is taken up.
RequestFails(w) ==
    /\ reading[w] \in SocialSources
    /\ pc[w] \in {"upsert", "keep", "publish", "announce"}
    /\ Abandon(w)
    /\ Done(w)
    /\ UNCHANGED <<store, inputs, todo, reading, rises, stale>>

\* A worker dies, or an ingestion raises where nothing catches it, which ends the worker
\* as well; it is started again.
Crash(w) ==
    /\ pc[w] # "idle"
    /\ Abandon(w)
    /\ todo' = [todo EXCEPT ![w] = {}]
    /\ reading' = [reading EXCEPT ![w] = Nothing]
    /\ batch' = [batch EXCEPT ![w] = {}]
    /\ memory' = [memory EXCEPT ![w] = <<>>]
    /\ pc' = [pc EXCEPT ![w] = "idle"]
    /\ current' = [current EXCEPT ![w] = Nothing]
    /\ previous' = [previous EXCEPT ![w] = "ABSENT"]
    /\ UNCHANGED <<store, inputs, rises, stale>>

-----------------------------------------------------------------------------
Step(w) ==
    \/ \E src \in Sources :
         Skip(w, src) \/ FetchKept(w, src) \/ FetchAll(w, src) \/ FetchOnce(w, src)
    \/ EndSource(w)
    \/ \E s \in Snapshots : Load(w, s)
    \/ Upsert(w)
    \/ Keep(w)
    \/ Publish(w)
    \/ Announce(w)

Next ==
    \/ \E src \in Sources, s \in Snapshots : Appear(src, s)
    \/ \E src \in Sources : RestOver(src)
    \/ \E w \in Workers : Step(w) \/ RequestFails(w) \/ Crash(w)
    \/ \E w \in Workers, src \in Sources : FetchFails(w, src)

Spec == Init /\ [][Next]_vars

-----------------------------------------------------------------------------
(* Properties. *)

Statuses == {"ABSENT", "OBSERVED", "REJECTED", "QUALIFIED"}

TypeOK ==
    /\ stored \in [Candidates -> Statuses]
    /\ kept \subseteq Snapshots
    /\ published \subseteq Snapshots
    /\ announced \in [Candidates -> Nat]
    /\ available \in [Sources -> SUBSET Snapshots]
    /\ \A src \in KeptSources : seen[src] \in Seq(Snapshots) /\ Len(seen[src]) <= SeenLimit
    /\ resting \subseteq KeptSources
    /\ todo \in [Workers -> SUBSET Sources]
    /\ reading \in [Workers -> Sources \cup {Nothing}]
    /\ batch \in [Workers -> SUBSET Snapshots]
    /\ \A w \in Workers : memory[w] \in Seq(Snapshots)
    /\ pc \in [Workers -> {"idle", "loop", "upsert", "keep", "publish", "announce"}]
    /\ current \in [Workers -> Snapshots \cup {Nothing}]
    /\ previous \in [Workers -> Statuses]
    /\ rises \in [Candidates -> Nat]
    /\ stale \in [Candidates -> Nat]
    /\ lost \in [Candidates -> Nat]
    /\ faults \in 0 .. MaxFaults

Holders(c) == {w \in Workers : Holds(w) /\ Candidate(w) = c}

\* Announcements are conserved: each time the table sees a candidate become QUALIFIED, and
\* each time that is stored again on the strength of an older status, is one announcement,
\* made, still to be made, or lost in a known way (a fault between the upsert and the
\* announcement, an observe_only source, a status that was overwritten after it was read).
AnnouncementsConserved ==
    \A c \in Candidates :
        announced[c] + Cardinality(Holders(c)) + lost[c] = rises[c] + stale[c]

\* An id is in the checkpoint of seen ids only when its snapshot has gone all the way: a
\* death of the worker at any point has it ingested again, never skipped.
SeenWasIngested ==
    \A src \in KeptSources : \A s \in ToSet(seen[src]) :
        s \in kept /\ (src \in SilentSources \/ s \in published)

SocialSnapshots == UNION {Feed[src] : src \in SocialSources}

SocialCandidates ==
    {c \in Candidates : {s \in Snapshots : CandidateOf[s] = c} \subseteq SocialSnapshots}

\* Social confirmation never takes QUALIFIED back: its candidate keeps the status for as
\* long as it keeps its row, whatever later requests and their failures bring.
SocialNeverDemotes ==
    [][\A c \in SocialCandidates :
         stored[c] = "QUALIFIED" => stored'[c] \in {"QUALIFIED", "ABSENT"}]_vars

=============================================================================

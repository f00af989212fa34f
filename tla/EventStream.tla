------------------------------ MODULE EventStream ------------------------------
(***************************************************************************)
(* The raw-events stream and its consumer groups: infra/redis_stream.py    *)
(* and the poll loops of its consumers.  Every group is one worker with    *)
(* one consumer and reads with ">", so an entry handed to a worker that    *)
(* then dies stays in the group's pending list and is never read again.    *)
(*                                                                         *)
(* The loops differ in three respects, which are constants: whether a unit *)
(* that fails goes to the dead letters (the pipeline worker, the alpha     *)
(* pipeline) or is only logged; whether the batch is acknowledged before   *)
(* it is worked on (social confirmation, which dead-letters what it cannot *)
(* parse) or unit by unit afterwards; and whether a unit is one entry or,  *)
(* as in the pipeline worker, all entries of one token in the batch.  An   *)
(* entry is known by its position and carries a token; entries a worker    *)
(* discards by their type are handled like the others, with nothing to do. *)
(***************************************************************************)
EXTENDS Integers, Sequences, FiniteSets, FiniteSetsExt

CONSTANTS
    Groups,             \* consumer groups, with one consumer each
    DeadLetterGroups,   \* those that dead-letter what fails
    AckFirstGroups,     \* those that acknowledge before they work
    TokenGroups,        \* those that work token by token
    Tokens,
    BatchCount,         \* count of xreadgroup
    ReplayCount,        \* count of replay_dead_letters
    MaxEntries,         \* bound: entries ever added to the stream
    MaxCrashes          \* bound: deaths of workers, in all

ASSUME StreamAssumption ==
    /\ DeadLetterGroups \subseteq Groups
    /\ TokenGroups \subseteq Groups
    /\ AckFirstGroups \subseteq Groups \ (DeadLetterGroups \cup TokenGroups)
    /\ BatchCount \in Nat \ {0}
    /\ ReplayCount \in Nat \ {0}
    /\ MaxEntries \in Nat
    /\ MaxCrashes \in Nat

VARIABLES
    stream,     \* the tokens of the entries
    letters,    \* the tokens of the dead letters
    cursor,     \* last-delivered-id of each group
    pending,    \* its pending entries list
    hand,       \* entries its worker has read and not yet begun
    accepted,   \* entries its worker has acknowledged and not yet begun
    finished,   \* entries its worker is done with and has not acknowledged
    starts,     \* history: how often its worker has begun each entry
    crashes     \* history: how often its worker has died

worker == <<hand, accepted, finished>>
vars   == <<stream, letters, cursor, pending, worker, starts, crashes>>

Ids == 1 .. MaxEntries

Init ==
    /\ stream = <<>>
    /\ letters = <<>>
    /\ cursor = [g \in Groups |-> 0]
    /\ pending = [g \in Groups |-> {}]
    /\ hand = [g \in Groups |-> {}]
    /\ accepted = [g \in Groups |-> {}]
    /\ finished = [g \in Groups |-> {}]
    /\ starts = [g \in Groups |-> [id \in Ids |-> 0]]
    /\ crashes = [g \in Groups |-> 0]

-----------------------------------------------------------------------------
(* Producers. *)

\* publish_raw_events
Publish(token) ==
    /\ Len(stream) < MaxEntries
    /\ stream' = Append(stream, token)
    /\ UNCHANGED <<letters, cursor, pending, worker, starts, crashes>>

\* replay_dead_letters, run by an operator: always from the first dead letter, and
\* none is removed.
Replay ==
    LET replayed == SubSeq(letters, 1, Min({ReplayCount, Len(letters)}))
    IN  /\ letters # <<>>
        /\ Len(stream) + Len(replayed) <= MaxEntries
        /\ stream' = stream \o replayed
        /\ UNCHANGED <<letters, cursor, pending, worker, starts, crashes>>

-----------------------------------------------------------------------------
(* Consumers. *)

Idle(g) == hand[g] = {} /\ accepted[g] = {} /\ finished[g] = {}

Deliver(g, read) ==
    /\ cursor' = [cursor EXCEPT ![g] = Max(read)]
    /\ pending' = [pending EXCEPT ![g] = @ \cup read]
    /\ hand' = [hand EXCEPT ![g] = read]
    /\ UNCHANGED <<stream, letters, accepted, finished, starts, crashes>>

ReadPastEnd(g) ==
    /\ Idle(g)
    /\ cursor[g] < Len(stream)
    /\ Deliver(g, cursor[g] + 1 .. cursor[g] + BatchCount)

ReadWithPending(g) ==
    /\ Idle(g)
    /\ cursor[g] < Len(stream)
    /\ Deliver(g, pending[g] \cup cursor[g] + 1 .. Min({cursor[g] + BatchCount, Len(stream)}))

ReadFullBatch(g) ==
    /\ Idle(g)
    /\ cursor[g] + BatchCount <= Len(stream)
    /\ Deliver(g, cursor[g] + 1 .. cursor[g] + BatchCount)

\* read_group_models: entries never delivered to the group, up to count.
Read(g) ==
    /\ Idle(g)
    /\ cursor[g] < Len(stream)
    /\ Deliver(g, cursor[g] + 1 .. Min({cursor[g] + BatchCount, Len(stream)}))

\* The first loop of run_social_confirmation_live: an entry is parsed and acknowledged.
Accept(g) ==
    /\ g \in AckFirstGroups
    /\ hand[g] # {}
    /\ pending' = [pending EXCEPT ![g] = @ \ {Min(hand[g])}]
    /\ accepted' = [accepted EXCEPT ![g] = @ \cup {Min(hand[g])}]
    /\ hand' = [hand EXCEPT ![g] = @ \ {Min(@)}]
    /\ UNCHANGED <<stream, letters, cursor, finished, starts, crashes>>

UnitFromLast(g) ==
    IF g \in TokenGroups
      THEN {Max({id \in hand[g] : stream[id] = stream[Min(hand[g])]})}
      ELSE {Min(hand[g])}

\* What a worker takes up next: its first entry, or all entries of the first token.
Unit(g) ==
    IF g \in TokenGroups
      THEN {id \in hand[g] : stream[id] = stream[Min(hand[g])]}
      ELSE {Min(hand[g])}

Started(g, unit) ==
    [starts EXCEPT ![g] = [id \in Ids |-> @[id] + (IF id \in unit THEN 1 ELSE 0)]]

\* A unit is worked on: its handler returns, or raises where that is only logged.
Handle(g) ==
    /\ g \notin AckFirstGroups
    /\ hand[g] # {} /\ finished[g] = {}
    /\ hand' = [hand EXCEPT ![g] = @ \ Unit(g)]
    /\ finished' = [finished EXCEPT ![g] = Unit(g)]
    /\ starts' = Started(g, Unit(g))
    /\ UNCHANGED <<stream, letters, cursor, pending, accepted, crashes>>

\* Its second loop, over what has been accepted: there is nothing left to acknowledge.
HandleAccepted(g) ==
    /\ hand[g] = {}
    /\ accepted[g] # {}
    /\ accepted' = [accepted EXCEPT ![g] = @ \ {Min(@)}]
    /\ starts' = Started(g, {Min(accepted[g])})
    /\ UNCHANGED <<stream, letters, cursor, pending, hand, finished, crashes>>

\* The first n entries of unit as dead letters; they have the token of the unit.
Letters(unit, n) == [k \in 1 .. n |-> stream[Min(unit)]]

\* The handler raises: each entry of the unit becomes a dead letter.
HandleFails(g) ==
    /\ g \in DeadLetterGroups
    /\ hand[g] # {} /\ finished[g] = {}
    /\ letters' = letters \o Letters(Unit(g), Cardinality(Unit(g)))
    /\ hand' = [hand EXCEPT ![g] = @ \ Unit(g)]
    /\ finished' = [finished EXCEPT ![g] = Unit(g)]
    /\ starts' = Started(g, Unit(g))
    /\ UNCHANGED <<stream, cursor, pending, accepted, crashes>>

\* An entry cannot be parsed: the first loop makes a dead letter of it and acknowledges it.
AcceptFails(g) ==
    /\ g \in AckFirstGroups
    /\ hand[g] # {}
    /\ letters' = letters \o Letters({Min(hand[g])}, 1)
    /\ pending' = [pending EXCEPT ![g] = @ \ {Min(hand[g])}]
    /\ hand' = [hand EXCEPT ![g] = @ \ {Min(@)}]
    /\ starts' = Started(g, {Min(hand[g])})
    /\ UNCHANGED <<stream, cursor, accepted, finished, crashes>>

Deaths == MapThenSumSet(LAMBDA g : crashes[g], Groups)

\* Writing a dead letter raises as well: the unit is acknowledged all the same, and the
\* exception leaves the poll loop and ends the worker.
DeadLetterFails(g) ==
    /\ g \in DeadLetterGroups
    /\ Deaths < MaxCrashes
    /\ hand[g] # {} /\ finished[g] = {}
    /\ \E n \in 0 .. Cardinality(Unit(g)) - 1 : letters' = letters \o Letters(Unit(g), n)
    /\ pending' = [pending EXCEPT ![g] = @ \ Unit(g)]
    /\ starts' = Started(g, Unit(g))
    /\ hand' = [hand EXCEPT ![g] = {}]
    /\ crashes' = [crashes EXCEPT ![g] = @ + 1]
    /\ UNCHANGED <<stream, cursor, accepted, finished>>

AcknowledgeOne(g) ==
    /\ finished[g] # {}
    /\ pending' = [pending EXCEPT ![g] = @ \ {Min(finished[g])}]
    /\ finished' = [finished EXCEPT ![g] = {}]
    /\ UNCHANGED <<stream, letters, cursor, hand, accepted, starts, crashes>>

\* The finally clause: the unit is acknowledged, entry by entry, however its handler ended.
Acknowledge(g) ==
    /\ finished[g] # {}
    /\ pending' = [pending EXCEPT ![g] = @ \ {Min(finished[g])}]
    /\ finished' = [finished EXCEPT ![g] = @ \ {Min(@)}]
    /\ UNCHANGED <<stream, letters, cursor, hand, accepted, starts, crashes>>

\* The worker dies and is started again.  ensure_consumer_group finds its group there
\* (BUSYGROUP), with the cursor and the pending list it had.
Crash(g) ==
    /\ ~Idle(g)
    /\ Deaths < MaxCrashes
    /\ crashes' = [crashes EXCEPT ![g] = @ + 1]
    /\ hand' = [hand EXCEPT ![g] = {}]
    /\ accepted' = [accepted EXCEPT ![g] = {}]
    /\ finished' = [finished EXCEPT ![g] = {}]
    /\ UNCHANGED <<stream, letters, cursor, pending, starts>>

-----------------------------------------------------------------------------
Work(g) ==
    \/ Read(g)
    \/ Accept(g)
    \/ AcceptFails(g)
    \/ Handle(g)
    \/ HandleAccepted(g)
    \/ HandleFails(g)
    \/ Acknowledge(g)

Next ==
    \/ \E token \in Tokens : Publish(token)
    \/ Replay
    \/ \E g \in Groups : Work(g) \/ DeadLetterFails(g) \/ Crash(g)

\* Each worker keeps polling; nothing need ever be published, replayed or fail.
Fairness == \A g \in Groups : WF_vars(Work(g))

Spec == Init /\ [][Next]_vars
FairSpec == Spec /\ Fairness

-----------------------------------------------------------------------------
(* Properties. *)

\* The entries a group has been given, whatever became of them.
Delivered(g) == 1 .. cursor[g]

TypeOK ==
    /\ stream \in Seq(Tokens) /\ Len(stream) <= MaxEntries
    /\ letters \in Seq(Tokens)
    /\ cursor \in [Groups -> 0 .. Len(stream)]
    /\ pending \in [Groups -> SUBSET Ids]
    /\ hand \in [Groups -> SUBSET Ids]
    /\ accepted \in [Groups -> SUBSET Ids]
    /\ finished \in [Groups -> SUBSET Ids]
    /\ starts \in [Groups -> [Ids -> Nat]]
    /\ crashes \in [Groups -> Nat]

\* A worker begins an entry at most once, whatever it or another worker goes through:
\* ">" hands an entry out once, and the pending list is never read (only a replay makes
\* new entries of the same events).
StartedOnce == \A g \in Groups : \A id \in Ids : starts[g][id] <= 1

\* A delivered entry is in its worker's hands, or it has been begun and acknowledged, or
\* it went down with a crash, which takes one batch at most.
LossBounded ==
    \A g \in Groups :
        LET inHand == hand[g] \cup accepted[g] \cup finished[g]
            served == {id \in Delivered(g) : starts[g][id] = 1 /\ id \notin pending[g]}
        IN  Cardinality(Delivered(g) \ (inHand \cup served)) <= BatchCount * crashes[g]

\* A worker takes the entries of one token in the order of the stream, even where it
\* regroups its batch by token (one that accepts first may reject a later entry before
\* it works on an earlier one).
TokenOrder ==
    \A g \in Groups \ AckFirstGroups : \A early, late \in Delivered(g) :
        (early < late /\ stream[early] = stream[late] /\ starts[g][late] = 1)
            => early \notin hand[g]

\* A group that is behind catches up: no entry is held back, and a batch in the worker's
\* hands never keeps it from the next one for good.
EveryEntryDelivered ==
    \A g \in Groups : cursor[g] < Len(stream) ~> cursor[g] = Len(stream)
=============================================================================

---------------------------- MODULE Notifications ----------------------------
(***************************************************************************)
(* What becomes of a qualified candidate: the alpha collector              *)
(* (core/alpha_collector.py) adds a cross-dimension snapshot to the        *)
(* stream, and the Telegram publisher (notifications/telegram_publisher.py)*)
(* tells the chat of both, once each, by a row of notification_deliveries. *)
(*                                                                         *)
(* The message and the row that records it are two steps, the row may not  *)
(* be readable or writable, and a call to Telegram may fail although the   *)
(* message went out.  Discovery announces a candidate more than once (see  *)
(* Discovery), and a replay of dead letters brings the same event again:   *)
(* any event of the environment may come at any time, again and again.     *)
(*                                                                         *)
(* A row is keyed by the candidate for alpha.candidate_qualified and by    *)
(* the id of the snapshot, one for each event, for                         *)
(* alpha.cross_dimension_snapshot.                                         *)
(***************************************************************************)
EXTENDS Integers, Sequences, FiniteSets, FiniteSetsExt

CONSTANTS
    Events,         \* alpha.candidate_qualified events, by event_id
    Candidates,
    Tokens,
    CandidateOf,    \* the candidate an event is about
    TokenOf,        \* its chain and token
    WantedEvents,   \* of a published alpha_type, and of at least min_score
    Idle,           \* no entry
    BatchCount,     \* count of xreadgroup
    MaxEntries,     \* bound: entries ever added to the stream
    MaxFaults       \* bound: crashes, store errors and failed calls, in all

ASSUME NotificationsAssumption ==
    /\ CandidateOf \in [Events -> Candidates]
    /\ TokenOf \in [Events -> Tokens]
    /\ WantedEvents \subseteq Events
    /\ Idle \notin Nat
    /\ BatchCount \in Nat \ {0}
    /\ MaxEntries \in Nat
    /\ MaxFaults \in Nat

VARIABLES
    stream,         \* raw-events: the entries of the two kinds
    delivery,       \* notification_deliveries: the status of each row
    messages,       \* messages the chat has received, for each row
    collected,      \* the collector: last-delivered-id of its group
    collecting,     \* the entries it has read and not yet worked on
    cooled,         \* tokens in its _cooldown_cache that are not due
    recentBoot,     \* the host has been up for less than the cooldown
    read,           \* the publisher: last-delivered-id of its group
    hand,           \* the entries it has read and not yet begun
    current,        \* the entry it works on
    pc,             \* where it is
    acknowledged,   \* history: the entries it has acknowledged
    faults          \* history: crashes and failures

collector == <<collected, collecting, cooled, recentBoot>>
publisher == <<read, hand, current, pc>>
vars == <<stream, delivery, messages, collector, publisher, acknowledged, faults>>

Entries == [kind : {"qualified", "snapshot"}, event : Events]
Keys    == ({"qualified"} \X Candidates) \cup ({"snapshot"} \X Events)

Init ==
    /\ stream = <<>>
    /\ delivery = [k \in Keys |-> "none"]
    /\ messages = [k \in Keys |-> 0]
    /\ collected = 0
    /\ collecting = {}
    /\ cooled = {}
    /\ recentBoot \in BOOLEAN
    /\ read = 0
    /\ hand = {}
    /\ current = Idle
    /\ pc = "poll"
    /\ acknowledged = {}
    /\ faults = 0

Qualify(e) ==
    /\ Len(stream) < MaxEntries
    /\ stream' = Append(stream, [kind |-> "qualified", event |-> e])
    /\ UNCHANGED <<delivery, messages, collector, publisher, acknowledged, faults>>

BatchPastEnd(cursor) == cursor + 1 .. cursor + BatchCount

Batch(cursor) == cursor + 1 .. Min({cursor + BatchCount, Len(stream)})

\* Anything that goes wrong is counted.
Fault == faults < MaxFaults /\ faults' = faults + 1

-----------------------------------------------------------------------------
(* The alpha collector. *)

\* run_alpha_collector_live makes a new orchestrator for each poll, and with it a new
\* cooldown cache.
PollCollector ==
    /\ collecting = {}
    /\ collected < Len(stream)
    /\ collecting' = Batch(collected)
    /\ collected' = Max(Batch(collected))
    /\ cooled' = {}
    /\ UNCHANGED <<stream, delivery, messages, recentBoot, publisher, acknowledged, faults>>

\* The next entry is done with; its acknowledgement has no further effect, since the group
\* is read with ">" only.
TakeUp ==
    /\ collecting # {}
    /\ collecting' = collecting \ {Min(collecting)}

Found == stream[Min(collecting)]

\* last_collected is 0 for a token that is not in the cache, and the clock counts from the
\* start of the host: for one cooldown after that nothing is collected.
Due == Found.kind = "qualified" /\ ~recentBoot /\ TokenOf[Found.event] \notin cooled

\* An entry of the other kind, or the cooldown check returns.
PassOver ==
    /\ TakeUp
    /\ ~Due
    /\ UNCHANGED <<stream, delivery, messages, collected, cooled, recentBoot, publisher,
                   acknowledged, faults>>

\* The token enters the cache before anything is collected.
Collect ==
    /\ TakeUp
    /\ Due
    /\ Len(stream) < MaxEntries
    /\ stream' = Append(stream, [kind |-> "snapshot", event |-> Found.event])
    /\ cooled' = cooled \cup {TokenOf[Found.event]}
    /\ UNCHANGED <<delivery, messages, collected, recentBoot, publisher, acknowledged, faults>>

\* It raises, or dies, before the snapshot is published: the rest of the batch is taken up,
\* or lost.
CollectFails ==
    /\ TakeUp
    /\ Due
    /\ Fault
    /\ cooled' = cooled \cup {TokenOf[Found.event]}
    /\ UNCHANGED <<stream, delivery, messages, collected, recentBoot, publisher, acknowledged>>

CollectorDies ==
    /\ collecting # {}
    /\ Fault
    /\ collecting' = {}
    /\ UNCHANGED <<stream, delivery, messages, collected, cooled, recentBoot, publisher,
                   acknowledged>>

\* Time passes: a cooldown is over, the host is no longer young.
TimePasses ==
    /\ \/ cooled' \in {cooled \ {t} : t \in cooled} /\ UNCHANGED recentBoot
       \/ recentBoot /\ recentBoot' = FALSE /\ UNCHANGED cooled
    /\ UNCHANGED <<stream, delivery, messages, collected, collecting, publisher, acknowledged,
                   faults>>

-----------------------------------------------------------------------------
(* The Telegram publisher. *)

Event == stream[current].event

KeyOf(entry) ==
    IF entry.kind = "qualified" THEN <<"qualified", CandidateOf[entry.event]>>
                                ELSE <<"snapshot", entry.event>>

Key == KeyOf(stream[current])

\* The next step of the same entry.
Goto(step) ==
    /\ pc' = step
    /\ UNCHANGED <<read, hand, current>>

PollPublisher ==
    /\ pc = "poll"
    /\ hand = {}
    /\ read < Len(stream)
    /\ hand' = Batch(read)
    /\ read' = Max(Batch(read))
    /\ UNCHANGED <<stream, delivery, messages, collector, current, pc, acknowledged, faults>>

Begin ==
    /\ pc = "poll"
    /\ hand # {}
    /\ current' = Min(hand)
    /\ hand' = hand \ {Min(hand)}
    /\ pc' = "check"
    /\ UNCHANGED <<stream, delivery, messages, collector, read, acknowledged, faults>>

SettledFailedToo == {"sent", "skipped", "failed"}

SettledSkippedOnly == {"skipped"}

\* The statuses of a row that end the matter.
Settled == {"sent", "skipped"}

CheckUnrecorded ==
    /\ pc = "check"
    /\ Goto(IF delivery[Key] \in Settled \/ Event \notin WantedEvents
              THEN "acknowledge" ELSE "send")
    /\ UNCHANGED <<stream, delivery, messages, collector, acknowledged, faults>>

\* The row is looked up, then the alpha_type and the score.
Check ==
    /\ pc = "check"
    /\ Goto(CASE delivery[Key] \in Settled -> "acknowledge"
              [] delivery[Key] \notin Settled /\ Event \notin WantedEvents -> "record_skipped"
              [] OTHER -> "send")
    /\ UNCHANGED <<stream, delivery, messages, collector, acknowledged, faults>>

\* The call to Telegram returns the id of the message.
Send ==
    /\ pc = "send"
    /\ messages' = [messages EXCEPT ![Key] = @ + 1]
    /\ Goto("record_sent")
    /\ UNCHANGED <<stream, delivery, collector, acknowledged, faults>>

\* It raises: the message did not go out, or only the answer to it was lost.
SendFails ==
    /\ pc = "send"
    /\ Fault
    /\ messages' \in {messages, [messages EXCEPT ![Key] = @ + 1]}
    /\ Goto("record_failed")
    /\ UNCHANGED <<stream, delivery, collector, acknowledged>>

\* save_delivery with the outcome.
Record ==
    /\ pc \in {"record_sent", "record_skipped"}
    /\ delivery' = [delivery EXCEPT ![Key] = IF pc = "record_sent" THEN "sent" ELSE "skipped"]
    /\ Goto("acknowledge")
    /\ UNCHANGED <<stream, messages, collector, acknowledged, faults>>

\* A store error, in load_delivery or in save_delivery, whose row may be there or not.
StoreFails ==
    /\ pc \in {"check", "record_sent", "record_skipped"}
    /\ Fault
    /\ delivery' \in {delivery} \cup
         (IF pc = "check" THEN {}
          ELSE {[delivery EXCEPT ![Key] = IF pc = "record_sent" THEN "sent" ELSE "skipped"]})
    /\ Goto("record_failed")
    /\ UNCHANGED <<stream, messages, collector, acknowledged>>

\* _record_failed_delivery writes over any row of a candidate.  The payload of a snapshot
\* has no candidate_id: nothing is recorded.
RecordFailed ==
    /\ pc = "record_failed"
    /\ delivery' = IF stream[current].kind = "qualified"
                     THEN [delivery EXCEPT ![Key] = "failed"]
                     ELSE delivery
    /\ Goto("acknowledge")
    /\ UNCHANGED <<stream, messages, collector, acknowledged, faults>>

Acknowledge ==
    /\ pc = "acknowledge"
    /\ acknowledged' = acknowledged \cup {current}
    /\ current' = Idle
    /\ pc' = "poll"
    /\ UNCHANGED <<stream, delivery, messages, collector, read, hand, faults>>

\* What is in hand when a publisher dies is delivered to nobody again.
Die ==
    /\ hand' = {}
    /\ current' = Idle
    /\ pc' = "poll"
    /\ UNCHANGED <<stream, messages, collector, read>>

\* _record_failed_delivery raises itself: the entry is acknowledged, the exception ends
\* the worker.
RecordFailedFails ==
    /\ pc = "record_failed"
    /\ stream[current].kind = "qualified"
    /\ Fault
    /\ acknowledged' = acknowledged \cup {current}
    /\ Die
    /\ UNCHANGED delivery

Crash ==
    /\ hand # {} \/ pc # "poll"
    /\ Fault
    /\ Die
    /\ UNCHANGED <<delivery, acknowledged>>

-----------------------------------------------------------------------------
Collector == PollCollector \/ PassOver \/ Collect \/ CollectFails \/ CollectorDies \/ TimePasses

Progress ==
    PollPublisher \/ Begin \/ Check \/ Send \/ Record \/ RecordFailed \/ Acknowledge

Next ==
    \/ \E e \in Events : Qualify(e)
    \/ Collector
    \/ Progress
    \/ SendFails \/ StoreFails \/ RecordFailedFails \/ Crash

\* The publisher is polled in a loop and started again when it ends; a poll or a call to
\* Telegram that does not fail returns.
Fairness == WF_vars(Progress)

Spec == Init /\ [][Next]_vars /\ Fairness

-----------------------------------------------------------------------------
(* Properties. *)

\* Types, and the positions a group has in hand are positions it has read.
TypeOK ==
    /\ stream \in Seq(Entries) /\ Len(stream) <= MaxEntries
    /\ delivery \in [Keys -> {"none", "sent", "skipped", "failed"}]
    /\ messages \in [Keys -> Nat]
    /\ collected \in 0 .. Len(stream)
    /\ collecting \subseteq 1 .. collected
    /\ cooled \subseteq Tokens
    /\ recentBoot \in BOOLEAN
    /\ read \in 0 .. Len(stream)
    /\ hand \subseteq 1 .. read
    /\ current \in (1 .. read) \cup {Idle}
    /\ pc \in {"poll", "check", "send", "record_sent", "record_skipped", "record_failed",
               "acknowledge"}
    /\ (pc = "poll") = (current = Idle)
    /\ acknowledged \subseteq 1 .. read
    /\ faults \in 0 .. MaxFaults

\* The chat reads each message once, however often the event is announced or replayed, and
\* once more for each fault: a lost answer, a row not written or written over, a crash
\* between the message and its row.
MessagesBounded == \A k \in Keys : messages[k] <= 1 + faults

\* What has been acknowledged has left a row, whatever its outcome; without one are only as
\* many as there were faults (a snapshot that failed, a failure that could not be recorded).
AcknowledgedIsRecorded ==
    Cardinality({k \in {KeyOf(stream[i]) : i \in acknowledged} : delivery[k] = "none"}) <= faults

AllWanted(c) == {e \in Events : CandidateOf[e] = c} \subseteq WantedEvents

Unread(c) ==
    \E i \in read + 1 .. Len(stream) :
        stream[i].kind = "qualified" /\ CandidateOf[stream[i].event] = c

\* A candidate whose announcement has still to be read ends up as sent, unless a fault comes
\* first: an earlier failure, or a message whose row was lost, does not close the matter.
UnreadIsSent ==
    \A c \in {d \in Candidates : AllWanted(d)} : \A f \in 0 .. MaxFaults :
        (Unread(c) /\ faults = f) ~> (delivery[<<"qualified", c>>] = "sent" \/ faults # f)
=============================================================================

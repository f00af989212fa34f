-------------------------- MODULE NotificationsProofs --------------------------
(***************************************************************************)
(* Theorems about Notifications, for every set of events and candidates,   *)
(* any stream and any number of faults.                                    *)
(*                                                                         *)
(* MessagesBounded is not inductive: what a message costs depends on where *)
(* the publisher is.  MessageInv says it for each row that is not settled. *)
(***************************************************************************)
EXTENDS Notifications, CommonLemmas

-----------------------------------------------------------------------------
(* Types. *)

\* A batch is not empty, begins after the cursor and ends within the stream.
LEMMA BatchWithin ==
  ASSUME NEW cursor \in Nat, stream \in Seq(Entries), cursor < Len(stream)
  PROVE  /\ Max(Batch(cursor)) \in cursor + 1 .. Len(stream)
         /\ Batch(cursor) \subseteq 1 .. Max(Batch(cursor))
<1>1. Len(stream) \in Nat /\ BatchCount \in Nat \ {0}
  BY NotificationsAssumption
<1>2. PICK end \in cursor + 1 .. Len(stream) :
          /\ Batch(cursor) = cursor + 1 .. end
          /\ Max(Batch(cursor)) = end
          /\ end <= cursor + BatchCount
  BY <1>1, BatchInterval, Zenon DEF Batch
<1>3. QED
  BY <1>2

\* The first of a nonempty set of positions is one of them.
LEMMA FirstIn ==
  ASSUME NEW last \in Nat, NEW S \in SUBSET (1 .. last), S # {}
  PROVE  Min(S) \in S
  BY MinIsLeast

\* The key of an entry is the key of a row.
LEMMA KeyType ==
  ASSUME NEW entry \in Entries
  PROVE  KeyOf(entry) \in Keys
  BY NotificationsAssumption, Zenon DEF KeyOf, Keys, Entries

\* The entry the publisher works on is an entry of the stream, with a row of its own.
LEMMA KeyInKeys ==
  ASSUME TypeOK, pc # "poll"
  PROVE  /\ current \in 1 .. Len(stream)
         /\ stream[current] \in Entries
         /\ Key \in Keys
<1>1. current \in 1 .. Len(stream)
  BY DEF TypeOK
<1>2. stream[current] \in Entries
  BY <1>1 DEF TypeOK
<1>3. QED
  BY <1>1, <1>2, KeyType DEF Key

\* The entry the collector takes up is an entry of the stream, about some token.
LEMMA FoundType ==
  ASSUME TypeOK, collecting # {}
  PROVE  /\ Found \in Entries
         /\ TokenOf[Found.event] \in Tokens
         /\ [kind |-> "snapshot", event |-> Found.event] \in Entries
<1>1. collected \in Nat /\ collecting \in SUBSET (1 .. collected)
  BY DEF TypeOK
<1>2. Min(collecting) \in collecting
  BY <1>1, FirstIn, Zenon
<1>3. \A i \in collecting : stream[i] \in Entries
  BY DEF TypeOK
<1>4. Found \in Entries
  BY <1>2, <1>3, Zenon DEF Found
<1>5. Found.event \in Events
  BY <1>4 DEF Entries
<1>6. TokenOf[Found.event] \in Tokens
  BY <1>5, NotificationsAssumption
<1>7. [kind |-> "snapshot", event |-> Found.event] \in Entries
  BY <1>5 DEF Entries
<1>8. QED
  BY <1>4, <1>6, <1>7

\* The worker starts with the types.
LEMMA InitTypes == Init => TypeOK
  BY NotificationsAssumption DEF Init, TypeOK

\* A step keeps the types.
LEMMA NextTypes == ASSUME TypeOK, [Next]_vars PROVE TypeOK'
<1> USE NotificationsAssumption DEF TypeOK
<1>1. ASSUME NEW e \in Events, Qualify(e)
      PROVE  TypeOK'
  BY <1>1 DEF Qualify, collector, publisher, Entries
<1>2. CASE PollCollector
  <2>1. collected \in Nat /\ collected < Len(stream) /\ stream \in Seq(Entries)
    BY <1>2 DEF PollCollector
  <2>2. /\ Max(Batch(collected)) \in collected + 1 .. Len(stream)
        /\ Batch(collected) \subseteq 1 .. Max(Batch(collected))
    BY <2>1, BatchWithin, Zenon
  <2>3. QED
    BY <1>2, <2>1, <2>2 DEF PollCollector, publisher
<1>3. CASE PassOver
  BY <1>3 DEF PassOver, TakeUp, publisher
<1>4. ASSUME TakeUp, Due
      PROVE  /\ Found \in Entries
             /\ cooled \cup {TokenOf[Found.event]} \subseteq Tokens
             /\ collecting' \subseteq 1 .. collected
  BY <1>4, FoundType DEF TakeUp
<1>5. CASE Collect
  <2>1. PICK entry \in Entries : stream' = Append(stream, entry)
    BY <1>5, FoundType DEF Collect, TakeUp
  <2>2. cooled' \subseteq Tokens /\ collecting' \subseteq 1 .. collected
    BY <1>4, <1>5 DEF Collect
  <2>3. stream' \in Seq(Entries) /\ Len(stream') = Len(stream) + 1 /\ Len(stream) < MaxEntries
    BY <1>5, <2>1 DEF Collect
  <2>4. QED
    BY <1>5, <2>2, <2>3 DEF Collect, publisher
<1>6. CASE CollectFails
  BY <1>4, <1>6 DEF CollectFails, TakeUp, Fault, publisher
<1>7. CASE CollectorDies
  BY <1>7 DEF CollectorDies, Fault, publisher
<1>8. CASE TimePasses
  BY <1>8 DEF TimePasses, publisher
<1>9. CASE PollPublisher
  <2>1. read \in Nat /\ read < Len(stream) /\ stream \in Seq(Entries)
    BY <1>9 DEF PollPublisher
  <2>2. /\ Max(Batch(read)) \in read + 1 .. Len(stream)
        /\ Batch(read) \subseteq 1 .. Max(Batch(read))
    BY <2>1, BatchWithin, Zenon
  <2>3. QED
    BY <1>9, <2>1, <2>2 DEF PollPublisher, collector
<1>10. CASE Begin
  <2>1. read \in Nat /\ hand \in SUBSET (1 .. read) /\ hand # {}
    BY <1>10 DEF Begin
  <2>2. Min(hand) \in hand
    BY <2>1, FirstIn, Zenon
  <2>3. PICK first \in hand : current' = first /\ hand' = hand \ {first}
    BY <1>10, <2>2 DEF Begin
  <2>4. /\ current' \in 1 .. read
        /\ hand' \subseteq 1 .. read
        /\ current' # Idle
    BY <2>1, <2>3
  <2>5. /\ pc' = "check"
        /\ UNCHANGED <<stream, delivery, messages, collector, read, acknowledged, faults>>
    BY <1>10 DEF Begin
  <2>6. QED
    BY <2>4, <2>5 DEF collector
<1>11. CASE Check
  <2>1. pc' \in {"acknowledge", "record_skipped", "send"}
    BY <1>11 DEF Check, Goto
  <2>2. QED
    BY <1>11, <2>1 DEF Check, Goto, collector
<1>12. CASE Send
  <2>1. Key \in Keys
    BY <1>12, KeyInKeys DEF Send
  <2>2. QED
    BY <1>12, <2>1 DEF Send, Goto, collector
<1>13. CASE Record
  BY <1>13 DEF Record, Goto, collector
<1>14. CASE RecordFailed
  BY <1>14 DEF RecordFailed, Goto, collector
<1>15. CASE Acknowledge
  BY <1>15 DEF Acknowledge, collector
<1>16. CASE SendFails
  <2>1. Key \in Keys
    BY <1>16, KeyInKeys DEF SendFails
  <2>2. messages' \in [Keys -> Nat]
    BY <1>16, <2>1 DEF SendFails
  <2>3. faults' \in 0 .. MaxFaults
    BY <1>16 DEF SendFails, Fault
  <2>4. QED
    BY <1>16, <2>2, <2>3 DEF SendFails, Goto, collector
<1>17. CASE StoreFails
  <2>1. delivery' \in [Keys -> {"none", "sent", "skipped", "failed"}]
    BY <1>17 DEF StoreFails
  <2>2. QED
    BY <1>17, <2>1 DEF StoreFails, Goto, Fault, collector
<1>18. CASE RecordFailedFails
  BY <1>18 DEF RecordFailedFails, Die, Fault, collector
<1>19. CASE Crash
  BY <1>19 DEF Crash, Die, Fault, collector
<1>20. CASE UNCHANGED vars
  BY <1>20 DEF vars, collector, publisher
<1>21. QED
  BY <1>1, <1>2, <1>3, <1>5, <1>6, <1>7, <1>8, <1>9, <1>10, <1>11, <1>12, <1>13, <1>14,
     <1>15, <1>16, <1>17, <1>18, <1>19, <1>20 DEF Next, Collector, Progress
-----------------------------------------------------------------------------
(* The chat. *)

Unsettled(k) == delivery[k] \notin Settled

\* A row that is not settled is that of a message that was paid for by faults alone, unless
\* its message is just out; and the publisher sends for a row that is not settled.
MessageInv ==
    /\ MessagesBounded
    /\ \A k \in Keys : Unsettled(k) /\ ~ (pc = "record_sent" /\ Key = k) => messages[k] <= faults
    /\ pc = "send" => Unsettled(Key)
    /\ pc = "record_failed" => messages[Key] <= faults

AcknowledgedKeys == {KeyOf(stream[i]) : i \in acknowledged}

\* Without a row: what has been acknowledged, and what is about to be.
Unrecorded ==
    {k \in Keys :
        /\ delivery[k] = "none"
        /\ k \in AcknowledgedKeys \/ (pc \in {"record_failed", "acknowledge"} /\ k = Key)}

\* Each of them is one of the faults.
UnrecordedInv == IsFiniteSet(Unrecorded) /\ Cardinality(Unrecorded) <= faults

Inv == TypeOK /\ MessageInv /\ UnrecordedInv

\* The worker starts with Inv.
LEMMA InitInv == Init => Inv
<1> SUFFICES ASSUME Init
             PROVE  Inv
  OBVIOUS
<1>1. MessageInv
  BY DEF Init, MessageInv, MessagesBounded
<1>2. AcknowledgedKeys = {} /\ Unrecorded = {}
  BY DEF Init, AcknowledgedKeys, Unrecorded
<1>3. UnrecordedInv
  <2>1. IsFiniteSet({}) /\ Cardinality({}) = 0
    BY FS_EmptySet
  <2>2. QED
    BY <1>2, <2>1 DEF UnrecordedInv, Init
<1>4. QED
  BY <1>1, <1>3, InitTypes DEF Inv

\* A step that adds no row to the unrecorded ones, or one for a fault, keeps them counted.
LEMMA CountedByFaults ==
  ASSUME UnrecordedInv, faults \in Nat, faults' \in Nat, NEW k,
         \/ Unrecorded' \subseteq Unrecorded /\ faults <= faults'
         \/ Unrecorded' \subseteq Unrecorded \cup {k} /\ faults' = faults + 1
  PROVE  UnrecordedInv'
<1>1. IsFiniteSet(Unrecorded) /\ Cardinality(Unrecorded) \in Nat
  BY FS_CardinalityType DEF UnrecordedInv
<1>2. ASSUME NEW bound, IsFiniteSet(bound), Cardinality(bound) <= faults',
             Unrecorded' \subseteq bound
      PROVE  UnrecordedInv'
  <2>1. IsFiniteSet(Unrecorded') /\ Cardinality(Unrecorded') <= Cardinality(bound)
    BY <1>2, FS_Subset
  <2>2. Cardinality(bound) \in Nat /\ Cardinality(Unrecorded') \in Nat
    BY <1>2, <2>1, FS_CardinalityType
  <2>3. QED
    BY <1>2, <2>1, <2>2 DEF UnrecordedInv
<1>3. CASE Unrecorded' \subseteq Unrecorded /\ faults <= faults'
  BY <1>1, <1>2, <1>3 DEF UnrecordedInv
<1>4. CASE Unrecorded' \subseteq Unrecorded \cup {k} /\ faults' = faults + 1
  <2>1. /\ IsFiniteSet(Unrecorded \cup {k})
        /\ \/ Cardinality(Unrecorded \cup {k}) = Cardinality(Unrecorded)
           \/ Cardinality(Unrecorded \cup {k}) = Cardinality(Unrecorded) + 1
    BY <1>1, FS_AddElement
  <2>2. Cardinality(Unrecorded \cup {k}) <= faults'
    BY <1>1, <1>4, <2>1 DEF UnrecordedInv
  <2>3. QED
    BY <1>2, <1>4, <2>1, <2>2
<1>5. QED
  BY <1>3, <1>4

\* The stream only grows: what the other two actors do changes no key and no row.
LEMMA OthersInv ==
  ASSUME Inv, TypeOK', (\E e \in Events : Qualify(e)) \/ Collector
  PROVE  MessageInv' /\ UnrecordedInv'
<1>1. /\ UNCHANGED <<delivery, messages, current, pc, acknowledged>>
      /\ faults' \in {faults, faults + 1}
  BY DEF Qualify, Collector, PollCollector, PassOver, Collect, CollectFails, CollectorDies,
         TimePasses, Fault, publisher
<1>2. faults \in Nat /\ faults' \in Nat /\ faults <= faults'
  BY <1>1, NotificationsAssumption DEF Inv, TypeOK
<1>3. stream' = stream \/ \E entry : stream' = Append(stream, entry)
  BY DEF Qualify, Collector, PollCollector, PassOver, Collect, CollectFails, CollectorDies,
         TimePasses
<1>4. \A i \in 1 .. Len(stream) : stream'[i] = stream[i]
  BY <1>3, SMTT(30) DEF Inv, TypeOK
<1>5. acknowledged \subseteq 1 .. Len(stream)
  BY DEF Inv, TypeOK
<1>6. AcknowledgedKeys' = AcknowledgedKeys
  BY <1>1, <1>4, <1>5, Zenon DEF AcknowledgedKeys
<1>7. pc # "poll" => Key' = Key
  BY <1>1, <1>4, KeyInKeys DEF Inv, Key
<1>8. MessageInv'
  <2>1. MessageInv /\ messages \in [Keys -> Nat]
    BY DEF Inv, TypeOK
  <2>2. pc # "poll" => Key \in Keys
    BY KeyInKeys DEF Inv
  <2>3. QED
    BY <1>1, <1>2, <1>7, <2>1, <2>2 DEF MessageInv, MessagesBounded, Unsettled, Settled
<1>9. Unrecorded' = Unrecorded
  BY <1>1, <1>6, <1>7 DEF Unrecorded
<1>10. QED
  BY <1>2, <1>8, <1>9, CountedByFaults DEF Inv

Publisher == Progress \/ SendFails \/ StoreFails \/ RecordFailedFails \/ Crash

\* What the publisher does keeps each message paid for.
LEMMA PublisherMessageInv == ASSUME Inv, TypeOK', Publisher PROVE MessageInv'
<1> USE DEF MessageInv, MessagesBounded, Unsettled, Settled
<1>1. /\ TypeOK /\ MessageInv
      /\ faults \in Nat
      /\ messages \in [Keys -> Nat]
      /\ delivery \in [Keys -> {"none", "sent", "skipped", "failed"}]
      /\ pc # "poll" => Key \in Keys
  <2>1. TypeOK
    BY DEF Inv
  <2>2. pc # "poll" => Key \in Keys
    BY <2>1, KeyInKeys
  <2>3. QED
    BY <2>1, <2>2, NotificationsAssumption, SMTT(30) DEF Inv, TypeOK
<1>2. UNCHANGED <<stream, current>> => Key' = Key
  BY DEF Key
<1>3. CASE PollPublisher
  BY <1>1, <1>3 DEF PollPublisher
<1>4. CASE Begin
  BY <1>1, <1>4 DEF Begin
<1>5. CASE Check
  BY <1>1, <1>2, <1>5 DEF Check, Goto
<1>6. CASE Send
  BY <1>1, <1>2, <1>6 DEF Send, Goto
<1>7. CASE Record
  BY <1>1, <1>2, <1>7 DEF Record, Goto
<1>8. CASE RecordFailed
  BY <1>1, <1>2, <1>8 DEF RecordFailed, Goto
<1>9. CASE Acknowledge
  BY <1>1, <1>9 DEF Acknowledge
<1>10. CASE SendFails
  BY <1>1, <1>2, <1>10 DEF SendFails, Goto, Fault
<1>11. CASE StoreFails
  BY <1>1, <1>2, <1>11 DEF StoreFails, Goto, Fault
<1>12. CASE RecordFailedFails
  BY <1>1, <1>12 DEF RecordFailedFails, Die, Fault
<1>13. CASE Crash
  BY <1>1, <1>13 DEF Crash, Die, Fault
<1>14. QED
  BY <1>3, <1>4, <1>5, <1>6, <1>7, <1>8, <1>9, <1>10, <1>11, <1>12, <1>13
  DEF Publisher, Progress

\* What the publisher does adds a row to the unrecorded ones only with a fault.
LEMMA PublisherUnrecordedInv == ASSUME Inv, TypeOK', Publisher PROVE UnrecordedInv'
<1>1. /\ TypeOK /\ UnrecordedInv
      /\ faults \in Nat /\ faults' \in Nat
      /\ delivery \in [Keys -> {"none", "sent", "skipped", "failed"}]
      /\ pc # "poll" => Key \in Keys
  <2>1. TypeOK
    BY DEF Inv
  <2>2. pc # "poll" => Key \in Keys
    BY <2>1, KeyInKeys
  <2>3. QED
    BY <2>1, <2>2, NotificationsAssumption, SMTT(30) DEF Inv, TypeOK
<1>2. UNCHANGED <<stream, current>> => Key' = Key
  BY DEF Key
<1>3. stream' = stream
  BY DEF Publisher, Progress, PollPublisher, Begin, Check, Send, Record, RecordFailed,
         Acknowledge, SendFails, StoreFails, RecordFailedFails, Crash, Die
<1>4. acknowledged' = acknowledged => AcknowledgedKeys' = AcknowledgedKeys
  BY <1>3 DEF AcknowledgedKeys
<1>5. pc # "poll" /\ acknowledged' = acknowledged \cup {current}
        => AcknowledgedKeys' = AcknowledgedKeys \cup {Key}
  BY <1>3 DEF AcknowledgedKeys, Key
<1> USE DEF Unrecorded
<1> DEFINE kept == Unrecorded' \subseteq Unrecorded /\ faults <= faults'
           added == Unrecorded' \subseteq Unrecorded \cup {Key} /\ faults' = faults + 1
<1>6. CASE PollPublisher
  <2>1. kept
    BY <1>1, <1>4, <1>6 DEF PollPublisher
  <2>2. QED
    BY <1>1, <2>1, CountedByFaults
<1>7. CASE Begin
  <2>1. kept
    BY <1>1, <1>4, <1>7 DEF Begin
  <2>2. QED
    BY <1>1, <2>1, CountedByFaults
<1>8. CASE Check
  <2>1. kept
    BY <1>1, <1>2, <1>4, <1>8 DEF Check, Goto, Settled
  <2>2. QED
    BY <1>1, <2>1, CountedByFaults
<1>9. CASE Send
  <2>1. kept
    BY <1>1, <1>2, <1>4, <1>9 DEF Send, Goto
  <2>2. QED
    BY <1>1, <2>1, CountedByFaults
<1>10. CASE Record
  <2>1. kept
    BY <1>1, <1>2, <1>4, <1>10 DEF Record, Goto
  <2>2. QED
    BY <1>1, <2>1, CountedByFaults
<1>11. CASE RecordFailed
  <2>1. kept
    BY <1>1, <1>2, <1>4, <1>11 DEF RecordFailed, Goto
  <2>2. QED
    BY <1>1, <2>1, CountedByFaults
<1>12. CASE Acknowledge
  <2>1. kept
    BY <1>1, <1>2, <1>5, <1>12 DEF Acknowledge
  <2>2. QED
    BY <1>1, <2>1, CountedByFaults
<1>13. CASE SendFails
  <2>1. added
    BY <1>1, <1>2, <1>4, <1>13 DEF SendFails, Goto, Fault
  <2>2. QED
    BY <1>1, <2>1, CountedByFaults
<1>14. CASE StoreFails
  <2>1. added
    BY <1>1, <1>2, <1>4, <1>14 DEF StoreFails, Goto, Fault
  <2>2. QED
    BY <1>1, <2>1, CountedByFaults
<1>15. CASE RecordFailedFails
  <2>1. kept
    BY <1>1, <1>2, <1>5, <1>15 DEF RecordFailedFails, Die, Fault
  <2>2. QED
    BY <1>1, <2>1, CountedByFaults
<1>16. CASE Crash
  <2>1. kept
    BY <1>1, <1>4, <1>16 DEF Crash, Die, Fault
  <2>2. QED
    BY <1>1, <2>1, CountedByFaults
<1>17. QED
  BY <1>6, <1>7, <1>8, <1>9, <1>10, <1>11, <1>12, <1>13, <1>14, <1>15, <1>16
  DEF Publisher, Progress

-----------------------------------------------------------------------------
(* The theorems. *)

\* A step keeps Inv.
LEMMA NextInv == ASSUME Inv, [Next]_vars PROVE Inv'
<1>1. TypeOK'
  BY NextTypes DEF Inv
<1>2. CASE (\E e \in Events : Qualify(e)) \/ Collector
  BY <1>1, <1>2, OthersInv DEF Inv
<1>3. CASE Publisher
  BY <1>1, <1>3, PublisherMessageInv, PublisherUnrecordedInv DEF Inv
<1>4. CASE UNCHANGED vars
  BY <1>1, <1>4
  DEF vars, collector, publisher, Inv, MessageInv, MessagesBounded, Unsettled, Settled,
      UnrecordedInv, Unrecorded, AcknowledgedKeys, Key, KeyOf
<1>5. QED
  BY <1>2, <1>3, <1>4 DEF Next, Publisher

\* Every reachable state satisfies Inv.
THEOREM Invariance == Spec => []Inv
<1>1. QED
  BY InitInv, NextInv, PTL DEF Spec

\* The types, and the positions of the two groups: a group has in hand what it has read
\* (the poll loops of alpha_collector.py and telegram_publisher.py).
THEOREM TypeCorrectness == Spec => []TypeOK
<1>1. Inv => TypeOK
  BY DEF Inv
<1>2. QED
  BY <1>1, Invariance, PTL

\* The chat reads each message once, and once more for each fault, however often the event
\* comes (TelegramPublisher.publish): load_delivery before the call and save_delivery after
\* it are enough, whatever is written over a row later.
THEOREM OnceAndFaults == Spec => []MessagesBounded
<1>1. Inv => MessagesBounded
  BY DEF Inv, MessageInv
<1>2. QED
  BY <1>1, Invariance, PTL

\* What is acknowledged has left a row, but for one row for each fault.
THEOREM NothingForgotten == Spec => []AcknowledgedIsRecorded
<1>1. Inv => AcknowledgedIsRecorded
  <2> SUFFICES ASSUME Inv
               PROVE  AcknowledgedIsRecorded
    OBVIOUS
  <2> DEFINE left == {k \in AcknowledgedKeys : delivery[k] = "none"}
  <2>1. AcknowledgedKeys \subseteq Keys
    <3>1. \A i \in acknowledged : stream[i] \in Entries
      BY DEF Inv, TypeOK
    <3>2. QED
      BY <3>1, KeyType DEF AcknowledgedKeys
  <2>2. left \subseteq Unrecorded
    BY <2>1 DEF Unrecorded
  <2>3. IsFiniteSet(Unrecorded) /\ Cardinality(Unrecorded) <= faults
    BY DEF Inv, UnrecordedInv
  <2>4. IsFiniteSet(left) /\ Cardinality(left) <= Cardinality(Unrecorded)
    BY <2>2, <2>3, FS_Subset, Zenon
  <2>5. Cardinality(left) \in Nat /\ Cardinality(Unrecorded) \in Nat /\ faults \in Nat
    BY <2>3, <2>4, FS_CardinalityType, NotificationsAssumption DEF Inv, TypeOK
  <2>6. Cardinality(left) <= faults
    BY <2>3, <2>4, <2>5
  <2>7. QED
    BY <2>6, Zenon DEF AcknowledgedIsRecorded, AcknowledgedKeys
<1>2. QED
  BY <1>1, Invariance, PTL
================================================================================

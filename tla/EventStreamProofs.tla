--------------------------- MODULE EventStreamProofs ---------------------------
(***************************************************************************)
(* Theorems about EventStream, for every set of groups of the three kinds, *)
(* every batch and replay size, any stream and any number of crashes.      *)
(*                                                                         *)
(* None of the three properties is inductive.  GroupInv adds where an      *)
(* entry can be (WorkerInv) and bounds the batch in hand, so that a crash, *)
(* which loses what is in hand, loses no more than a batch.                *)
(***************************************************************************)
EXTENDS EventStream, CommonLemmas, SequenceTheorems

-----------------------------------------------------------------------------
(* The inductive invariant, group by group. *)

InHand(g) == hand[g] \cup accepted[g] \cup finished[g]

\* What went down with a crash: nobody has it, and it was not begun and acknowledged.
Lost(g) == {id \in Delivered(g) \ InHand(g) : starts[g][id] = 0 \/ id \in pending[g]}

\* A worker has entries it was given, each in one place.  It begins one when it leaves hand
\* or accepted, and what it accepted is not pending.
WorkerInv(g) ==
    /\ InHand(g) \cup pending[g] \subseteq Delivered(g)
    /\ hand[g] \cap accepted[g] = {}
    /\ finished[g] \cap (hand[g] \cup accepted[g]) = {}
    /\ accepted[g] \cap pending[g] = {}
    /\ g \in AckFirstGroups \/ accepted[g] = {}
    /\ \A id \in Ids : starts[g][id] \in {0, 1}
    /\ \A id \in Ids : starts[g][id] = 1 => id \in Delivered(g) \ (hand[g] \cup accepted[g])
    /\ \A id \in finished[g] : starts[g][id] = 1

\* TokenOrder, for one group.
OrderInv(g) ==
    g \in AckFirstGroups
        \/ \A early, late \in Delivered(g) :
            early < late /\ stream[early] = stream[late] /\ starts[g][late] = 1
                => early \notin hand[g]

\* A batch is in hand at most, and each crash lost one at most.
LossInv(g) ==
    /\ Cardinality(InHand(g)) <= BatchCount
    /\ Cardinality(Lost(g)) <= BatchCount * crashes[g]

GroupInv(g) == WorkerInv(g) /\ OrderInv(g) /\ LossInv(g)

Inv == TypeOK /\ \A g \in Groups : GroupInv(g)

-----------------------------------------------------------------------------
(* What a step needs to know. *)

\* What a worker takes up next is in hand, and no other entry in hand of the same token
\* comes before it.
LEMMA UnitType ==
  ASSUME NEW g \in Groups, TypeOK, hand[g] # {}
  PROVE  /\ Min(hand[g]) \in hand[g]
         /\ Unit(g) \subseteq hand[g]
         /\ Min(Unit(g)) \in hand[g]
         /\ \A late \in Unit(g), early \in hand[g] \ Unit(g) :
                early < late => stream[early] # stream[late]
<1>1. hand[g] \in SUBSET Nat
  BY StreamAssumption DEF TypeOK, Ids
<1>2. Min(hand[g]) \in hand[g] /\ \A id \in hand[g] : Min(hand[g]) <= id
  BY <1>1, MinIsLeast
<1>3. PICK first \in hand[g] : first = Min(hand[g]) /\ \A id \in hand[g] : first <= id
  BY <1>2
<1>4. Unit(g) = IF g \in TokenGroups THEN {id \in hand[g] : stream[id] = stream[first]}
                                     ELSE {first}
  BY <1>3 DEF Unit
<1>5. Unit(g) \subseteq hand[g] /\ Unit(g) # {}
  BY <1>4
<1>6. Min(Unit(g)) \in Unit(g)
  BY <1>1, <1>5, MinIsLeast
<1>7. ASSUME NEW late \in Unit(g), NEW early \in hand[g] \ Unit(g), early < late
      PROVE  stream[early] # stream[late]
  BY <1>1, <1>3, <1>4, <1>7
<1>8. QED
  BY <1>2, <1>5, <1>6, <1>7

\* Dead letters of entries of the stream have their tokens.
LEMMA LettersType ==
  ASSUME NEW unit, NEW n \in Nat, stream[Min(unit)] \in Tokens
  PROVE  Letters(unit, n) \in Seq(Tokens)
  BY DEF Letters

\* What is replayed is a sequence of tokens.
LEMMA ReplayedType ==
  ASSUME letters \in Seq(Tokens), letters # <<>>
  PROVE  SubSeq(letters, 1, Min({ReplayCount, Len(letters)})) \in Seq(Tokens)
<1> DEFINE n == Min({ReplayCount, Len(letters)})
<1>1. ReplayCount \in Nat /\ Len(letters) \in Nat
  BY StreamAssumption
<1>2. n = IF ReplayCount <= Len(letters) THEN ReplayCount ELSE Len(letters)
  BY <1>1, MinOfTwo, Zenon
<1> HIDE DEF n
<1>3. n \in Int /\ \A i \in 1 .. n : letters[i] \in Tokens
  BY <1>1, <1>2
<1>4. SubSeq(letters, 1, n) \in Seq(Tokens)
  BY <1>3, SubSeqProperties
<1>5. QED
  BY <1>4 DEF n

\* The stream only grows.
LEMMA StreamGrows ==
  ASSUME TypeOK, [Next]_vars
  PROVE  /\ stream' \in Seq(Tokens) /\ Len(stream') <= MaxEntries
         /\ Len(stream) <= Len(stream')
         /\ \A i \in 1 .. Len(stream) : stream'[i] = stream[i]
<1>1. stream \in Seq(Tokens) /\ Len(stream) \in Nat /\ Len(stream) <= MaxEntries
  BY DEF TypeOK
<1>2. ASSUME NEW token \in Tokens, Publish(token)
      PROVE  /\ stream' \in Seq(Tokens) /\ Len(stream') = Len(stream) + 1
             /\ \A i \in 1 .. Len(stream) : stream'[i] = stream[i]
             /\ Len(stream') <= MaxEntries
  BY <1>1, <1>2, StreamAssumption DEF Publish
<1>3. CASE Replay
  <2> DEFINE replayed == SubSeq(letters, 1, Min({ReplayCount, Len(letters)}))
  <2>1. replayed \in Seq(Tokens)
    BY <1>3, ReplayedType DEF Replay, TypeOK
  <2>2. stream' = stream \o replayed /\ Len(stream) + Len(replayed) <= MaxEntries
    BY <1>3 DEF Replay
  <2> HIDE DEF replayed
  <2>3. Len(replayed) \in Nat
    BY <2>1
  <2>4. /\ stream \o replayed \in Seq(Tokens)
        /\ Len(stream \o replayed) = Len(stream) + Len(replayed)
        /\ \A i \in 1 .. Len(stream) + Len(replayed) :
              (stream \o replayed)[i] = IF i <= Len(stream) THEN stream[i]
                                                            ELSE replayed[i - Len(stream)]
    BY <1>1, <2>1, ConcatProperties
  <2>5. QED
    BY <1>1, <2>2, <2>3, <2>4
<1>4. CASE UNCHANGED stream
  BY <1>1, <1>4
<1>5. (\E token \in Tokens : Publish(token)) \/ Replay \/ UNCHANGED stream
  BY DEF Next, Work, Read, Deliver, Accept, AcceptFails, Handle, HandleAccepted, HandleFails,
         Acknowledge, DeadLetterFails, Crash, vars
<1>6. QED
  BY <1>1, <1>2, <1>3, <1>4, <1>5

\* Nothing happens to the group.
Same(g) ==
    /\ cursor'[g] = cursor[g]
    /\ pending'[g] = pending[g]
    /\ hand'[g] = hand[g]
    /\ accepted'[g] = accepted[g]
    /\ finished'[g] = finished[g]
    /\ starts'[g] = starts[g]
    /\ crashes'[g] = crashes[g]

Step(g) == Work(g) \/ DeadLetterFails(g) \/ Crash(g)

\* A worker's step leaves the other groups alone; Publish and Replay leave all of them.
LEMMA OnlyOneMoves ==
  ASSUME TypeOK, [Next]_vars, NEW g \in Groups, ~ Step(g)
  PROVE  Same(g)
<1>1. CASE UNCHANGED <<cursor, pending, worker, starts, crashes>>
  BY <1>1 DEF Same, worker
<1>2. ASSUME NEW h \in Groups, Step(h)
      PROVE  Same(g)
  <2>1. h # g
    BY <1>2
  <2>2. QED
    BY <1>2, <2>1 
    DEF Step, Work, Read, Deliver, Accept, AcceptFails, Handle, HandleAccepted, HandleFails,
        Acknowledge, DeadLetterFails, Crash, Started, Same, TypeOK
<1>3. QED
  BY <1>1, <1>2 DEF Next, Step, Publish, Replay, vars

\* A group that nothing happens to keeps its invariant while the stream grows.
LEMMA SameInv ==
  ASSUME TypeOK, [Next]_vars, NEW g \in Groups, GroupInv(g), Same(g)
  PROVE  GroupInv(g)'
<1>1. /\ Delivered(g)' = Delivered(g)
      /\ InHand(g)' = InHand(g)
      /\ Lost(g)' = Lost(g)
  BY DEF Same, Delivered, InHand, Lost
<1>2. \A i \in Delivered(g) : stream'[i] = stream[i]
  <2>1. Delivered(g) \subseteq 1 .. Len(stream)
    BY DEF Delivered, TypeOK
  <2>2. QED
    BY <2>1, StreamGrows
<1>3. WorkerInv(g)'
  BY <1>1 DEF GroupInv, WorkerInv, Same, Ids
<1>4. OrderInv(g)'
  BY <1>1, <1>2 DEF GroupInv, OrderInv, Same
<1>5. LossInv(g)'
  BY <1>1 DEF GroupInv, LossInv, Same
<1>6. QED
  BY <1>3, <1>4, <1>5 DEF GroupInv

\* What a group has in hand, and what it has lost, is finite.
LEMMA FiniteParts ==
  ASSUME TypeOK, NEW g \in Groups, WorkerInv(g)
  PROVE  IsFiniteSet(InHand(g)) /\ IsFiniteSet(Lost(g))
<1>1. IsFiniteSet(Delivered(g))
  <2>1. cursor[g] \in Int
    BY DEF TypeOK
  <2>2. QED
    BY <2>1, FS_Interval DEF Delivered
<1>2. InHand(g) \in SUBSET Delivered(g) /\ Lost(g) \in SUBSET Delivered(g)
  BY DEF WorkerInv, Lost
<1>3. QED
  BY <1>1, <1>2, FS_Subset

\* A step that takes nothing new in hand and loses nothing keeps the two counts.
LEMMA NothingLost ==
  ASSUME TypeOK, NEW g \in Groups, GroupInv(g), crashes'[g] = crashes[g],
         InHand(g)' \subseteq InHand(g), Lost(g)' \subseteq Lost(g)
  PROVE  LossInv(g)'
<1>1. IsFiniteSet(InHand(g)) /\ IsFiniteSet(Lost(g))
  BY FiniteParts DEF GroupInv
<1>2. /\ Cardinality(InHand(g)') <= Cardinality(InHand(g))
      /\ Cardinality(Lost(g)') <= Cardinality(Lost(g))
      /\ IsFiniteSet(InHand(g)') /\ IsFiniteSet(Lost(g)')
  BY <1>1, FS_Subset
<1>3. /\ Cardinality(InHand(g)) \in Nat /\ Cardinality(Lost(g)) \in Nat
      /\ Cardinality(InHand(g)') \in Nat /\ Cardinality(Lost(g)') \in Nat
  BY <1>1, <1>2, FS_CardinalityType
<1>4. BatchCount * crashes[g] \in Nat
  BY StreamAssumption DEF TypeOK
<1>5. QED
  BY <1>2, <1>3, <1>4, StreamAssumption DEF GroupInv, LossInv

\* A crash loses what was in hand, a batch at most.
LEMMA BatchLost ==
  ASSUME TypeOK, NEW g \in Groups, GroupInv(g), crashes'[g] = crashes[g] + 1,
         InHand(g)' = {}, Lost(g)' \subseteq Lost(g) \cup InHand(g)
  PROVE  LossInv(g)'
<1>1. IsFiniteSet(InHand(g)) /\ IsFiniteSet(Lost(g))
  BY FiniteParts DEF GroupInv
<1>2. /\ Cardinality(Lost(g)') <= Cardinality(Lost(g)) + Cardinality(InHand(g))
      /\ Cardinality(Lost(g)') \in Nat
  BY <1>1, WithinUnion
<1>3. Cardinality(InHand(g)) \in Nat /\ Cardinality(Lost(g)) \in Nat
  BY <1>1, FS_CardinalityType
<1>4. Cardinality(InHand(g)') = 0
  BY FS_EmptySet
<1>5. /\ BatchCount \in Nat
      /\ BatchCount * crashes[g] \in Nat
      /\ BatchCount * (crashes[g] + 1) = BatchCount * crashes[g] + BatchCount
  <2>1. BatchCount \in Nat /\ crashes[g] \in Nat
    BY StreamAssumption DEF TypeOK
  <2>2. QED
    BY <2>1, OneMore
<1>6. QED
  BY <1>2, <1>3, <1>4, <1>5 DEF GroupInv, LossInv

\* Beginning a unit that nobody began before.
LEMMA Began ==
  ASSUME TypeOK, NEW g \in Groups, WorkerInv(g), NEW unit \in SUBSET (hand[g] \cup accepted[g]),
         starts' = Started(g, unit)
  PROVE  \A id \in Ids : starts'[g][id] = IF id \in unit THEN 1 ELSE starts[g][id]
<1>1. \A id \in unit : id \in Ids /\ starts[g][id] = 0
  BY DEF WorkerInv, TypeOK
<1>2. \A id \in Ids : starts'[g][id] = starts[g][id] + (IF id \in unit THEN 1 ELSE 0)
  BY DEF Started, TypeOK
<1>3. \A id \in Ids : starts[g][id] \in Nat
  BY DEF TypeOK
<1>4. QED
  BY <1>1, <1>2, <1>3

\* What a worker does keeps the invariant of its group.
LEMMA StepInv ==
  ASSUME TypeOK, NEW g \in Groups, GroupInv(g), Step(g)
  PROVE  GroupInv(g)'
<1> USE DEF InHand, Lost, Delivered
<1>1. /\ cursor[g] \in Nat
      /\ hand[g] \subseteq Ids /\ accepted[g] \subseteq Ids /\ finished[g] \subseteq Ids
      /\ 1 .. cursor[g] \subseteq Ids
      /\ \A id \in Ids : starts[g][id] \in {0, 1}
      /\ WorkerInv(g) /\ OrderInv(g) /\ LossInv(g)
  <2>1. cursor[g] \in Nat /\ 1 .. cursor[g] \subseteq Ids
    BY StreamAssumption DEF TypeOK, Ids
  <2>2. QED
    BY <2>1 DEF TypeOK, GroupInv, WorkerInv
<1>2. CASE Read(g)
  <2>1. PICK end \in cursor[g] + 1 .. Len(stream) :
            /\ cursor'[g] = end
            /\ pending'[g] = pending[g] \cup cursor[g] + 1 .. end
            /\ hand'[g] = cursor[g] + 1 .. end
            /\ end <= cursor[g] + BatchCount
    <3>1. /\ cursor[g] \in Nat /\ BatchCount \in Nat \ {0} /\ Len(stream) \in Nat
          /\ cursor[g] < Len(stream)
      BY <1>2, StreamAssumption DEF Read, TypeOK
    <3> DEFINE batch == cursor[g] + 1 .. Min({cursor[g] + BatchCount, Len(stream)})
    <3>2. \E end \in cursor[g] + 1 .. Len(stream) :
              batch = cursor[g] + 1 .. end /\ Max(batch) = end /\ end <= cursor[g] + BatchCount
      BY <3>1, BatchInterval, Zenon
    <3>3. /\ cursor'[g] = Max(batch)
          /\ pending'[g] = pending[g] \cup batch
          /\ hand'[g] = batch
      BY <1>2 DEF Read, Deliver, TypeOK
    <3> HIDE DEF batch
    <3>4. QED
      BY <3>2, <3>3
  <2>2. /\ hand[g] = {} /\ accepted[g] = {} /\ finished[g] = {}
        /\ UNCHANGED <<stream, accepted, finished, starts, crashes>>
    BY <1>2 DEF Read, Deliver, Idle
  <2>3. WorkerInv(g)'
    BY <1>1, <2>1, <2>2 DEF WorkerInv, Ids
  <2>4. OrderInv(g)'
    <3>1. ASSUME NEW late \in 1 .. end, starts[g][late] = 1
          PROVE  late <= cursor[g]
      <4>1. late \in Ids
        BY <1>1, <2>1, StreamAssumption DEF TypeOK, Ids
      <4>2. QED
        BY <1>1, <3>1, <4>1 DEF WorkerInv
    <3>2. QED
      BY <1>1, <2>1, <2>2, <3>1 DEF OrderInv
  <2>5. LossInv(g)'
    <3>1. InHand(g)' = cursor[g] + 1 .. end
      BY <2>1, <2>2
    <3>2. Cardinality(InHand(g)') <= BatchCount
      <4>1. Cardinality(cursor[g] + 1 .. end) = end - cursor[g]
        <5>1. cursor[g] + 1 \in Int /\ end \in Int /\ cursor[g] + 1 <= end
          BY <1>1, <2>1
        <5>2. Cardinality(cursor[g] + 1 .. end)
                = IF cursor[g] + 1 > end THEN 0 ELSE end - (cursor[g] + 1) + 1
          BY <5>1, FS_Interval, Zenon
        <5>3. QED
          BY <1>1, <5>1, <5>2
      <4>2. Cardinality(InHand(g)') = Cardinality(cursor[g] + 1 .. end)
        BY <3>1, Zenon
      <4>3. end - cursor[g] <= BatchCount
        BY <1>1, <2>1, StreamAssumption
      <4>4. QED
        BY <4>1, <4>2, <4>3, Zenon
    <3>3. Lost(g)' \subseteq Lost(g)
      BY <1>1, <2>1, <2>2, <3>1
    <3>4. IsFiniteSet(Lost(g))
      BY <1>1, FiniteParts
    <3>5. Cardinality(Lost(g)') <= Cardinality(Lost(g)) /\ IsFiniteSet(Lost(g)')
      BY <3>3, <3>4, FS_Subset
    <3>6. /\ Cardinality(Lost(g)') \in Nat /\ Cardinality(Lost(g)) \in Nat
          /\ BatchCount * crashes[g] \in Nat
      BY <3>4, <3>5, FS_CardinalityType, StreamAssumption DEF TypeOK
    <3> HIDE DEF InHand, Lost
    <3>7. QED
      BY <1>1, <2>2, <3>2, <3>5, <3>6 DEF LossInv
  <2>6. QED
    BY <2>3, <2>4, <2>5 DEF GroupInv
<1>3. CASE Accept(g)
  <2>1. PICK first \in hand[g] :
            /\ pending'[g] = pending[g] \ {first}
            /\ accepted'[g] = accepted[g] \cup {first}
            /\ hand'[g] = hand[g] \ {first}
    BY <1>3, UnitType DEF Accept, TypeOK
  <2>2. /\ g \in AckFirstGroups
        /\ UNCHANGED <<stream, cursor, finished, starts, crashes>>
    BY <1>3 DEF Accept
  <2>3. WorkerInv(g)'
    BY <1>1, <2>1, <2>2 DEF WorkerInv, Ids
  <2>4. OrderInv(g)'
    BY <2>2 DEF OrderInv
  <2>5. LossInv(g)'
    <3>1. InHand(g)' \subseteq InHand(g) /\ Lost(g)' \subseteq Lost(g)
      BY <2>1, <2>2
    <3>2. QED
      BY <2>2, <3>1, NothingLost
  <2>6. QED
    BY <2>3, <2>4, <2>5 DEF GroupInv
<1>4. CASE AcceptFails(g)
  <2>1. PICK first \in hand[g] :
            /\ pending'[g] = pending[g] \ {first}
            /\ hand'[g] = hand[g] \ {first}
            /\ starts' = Started(g, {first})
    BY <1>4, UnitType DEF AcceptFails, TypeOK
  <2>2. /\ g \in AckFirstGroups
        /\ UNCHANGED <<stream, cursor, accepted, finished, crashes>>
    BY <1>4 DEF AcceptFails
  <2>3. \A id \in Ids : starts'[g][id] = IF id \in {first} THEN 1 ELSE starts[g][id]
    <3>1. {first} \in SUBSET (hand[g] \cup accepted[g]) /\ starts' = Started(g, {first})
      BY <2>1
    <3>2. QED
      BY <1>1, <3>1, Began
  <2>4. WorkerInv(g)'
    BY <1>1, <2>1, <2>2, <2>3 DEF WorkerInv, Ids
  <2>5. OrderInv(g)'
    BY <2>2 DEF OrderInv
  <2>6. LossInv(g)'
    <3>1. InHand(g)' \subseteq InHand(g)
      BY <2>1, <2>2
    <3>2. Lost(g)' \subseteq Lost(g)
      BY <1>1, <2>1, <2>2, <2>3
    <3>3. QED
      BY <2>2, <3>1, <3>2, NothingLost
  <2>7. QED
    BY <2>4, <2>5, <2>6 DEF GroupInv
<1>5. CASE Handle(g) \/ HandleFails(g)
  <2> DEFINE unit == Unit(g)
  <2>1. /\ hand[g] # {} /\ finished[g] = {}
        /\ hand'[g] = hand[g] \ unit
        /\ finished'[g] = unit
        /\ starts' = Started(g, unit)
        /\ UNCHANGED <<stream, cursor, pending, accepted, crashes>>
    BY <1>5 DEF Handle, HandleFails, TypeOK
  <2>2. /\ unit \subseteq hand[g]
        /\ \A late \in unit, early \in hand[g] \ unit :
              early < late => stream[early] # stream[late]
    BY <2>1, UnitType
  <2> HIDE DEF unit
  <2>3. \A id \in Ids : starts'[g][id] = IF id \in unit THEN 1 ELSE starts[g][id]
    BY <1>1, <2>1, <2>2, Began
  <2>4. WorkerInv(g)'
    BY <1>1, <2>1, <2>2, <2>3 DEF WorkerInv, Ids
  <2>5. OrderInv(g)'
    BY <1>1, <2>1, <2>2, <2>3 DEF OrderInv, WorkerInv, Ids
  <2>6. LossInv(g)'
    <3>1. InHand(g)' \subseteq InHand(g)
      BY <2>1, <2>2
    <3>2. Lost(g)' \subseteq Lost(g)
      BY <1>1, <2>1, <2>2, <2>3
    <3>3. QED
      BY <2>1, <3>1, <3>2, NothingLost
  <2>7. QED
    BY <2>4, <2>5, <2>6 DEF GroupInv
<1>6. CASE HandleAccepted(g)
  <2>1. PICK first \in accepted[g] :
            /\ accepted'[g] = accepted[g] \ {first}
            /\ starts' = Started(g, {first})
    <3>1. accepted[g] \in SUBSET Nat /\ accepted[g] # {}
      BY <1>1, <1>6, StreamAssumption DEF HandleAccepted, Ids
    <3>2. Min(accepted[g]) \in accepted[g]
      BY <3>1, MinIsLeast
    <3>3. QED
      BY <1>6, <3>2 DEF HandleAccepted, TypeOK
  <2>2. /\ hand[g] = {}
        /\ UNCHANGED <<stream, cursor, pending, hand, finished, crashes>>
    BY <1>6 DEF HandleAccepted
  <2>3. \A id \in Ids : starts'[g][id] = IF id \in {first} THEN 1 ELSE starts[g][id]
    <3>1. {first} \in SUBSET (hand[g] \cup accepted[g]) /\ starts' = Started(g, {first})
      BY <2>1
    <3>2. QED
      BY <1>1, <3>1, Began
  <2>4. WorkerInv(g)'
    BY <1>1, <2>1, <2>2, <2>3 DEF WorkerInv, Ids
  <2>5. OrderInv(g)'
    BY <1>1, <2>1, <2>2 DEF OrderInv
  <2>6. LossInv(g)'
    <3>1. InHand(g)' \subseteq InHand(g)
      BY <2>1, <2>2
    <3>2. Lost(g)' \subseteq Lost(g)
      BY <1>1, <2>1, <2>2, <2>3 DEF WorkerInv
    <3>3. QED
      BY <2>2, <3>1, <3>2, NothingLost
  <2>7. QED
    BY <2>4, <2>5, <2>6 DEF GroupInv
<1>7. CASE DeadLetterFails(g)
  <2> DEFINE unit == Unit(g)
  <2>1. /\ hand[g] # {} /\ finished[g] = {} /\ g \in DeadLetterGroups
        /\ hand'[g] = {}
        /\ pending'[g] = pending[g] \ unit
        /\ starts' = Started(g, unit)
        /\ crashes'[g] = crashes[g] + 1
        /\ UNCHANGED <<stream, cursor, accepted, finished>>
    BY <1>7 DEF DeadLetterFails, TypeOK
  <2>2. unit \subseteq hand[g] /\ accepted[g] = {}
    BY <1>1, <2>1, UnitType, StreamAssumption DEF WorkerInv
  <2> HIDE DEF unit
  <2>3. \A id \in Ids : starts'[g][id] = IF id \in unit THEN 1 ELSE starts[g][id]
    BY <1>1, <2>1, <2>2, Began
  <2>4. WorkerInv(g)'
    BY <1>1, <2>1, <2>2, <2>3 DEF WorkerInv, Ids
  <2>5. OrderInv(g)'
    BY <2>1 DEF OrderInv
  <2>6. LossInv(g)'
    <3>1. InHand(g)' = {}
      BY <2>1, <2>2
    <3>2. Lost(g)' \subseteq Lost(g) \cup InHand(g)
      BY <1>1, <2>1, <2>2, <2>3
    <3>3. QED
      BY <2>1, <3>1, <3>2, BatchLost
  <2>7. QED
    BY <2>4, <2>5, <2>6 DEF GroupInv
<1>8. CASE Acknowledge(g)
  <2>1. PICK first \in finished[g] :
            /\ pending'[g] = pending[g] \ {first}
            /\ finished'[g] = finished[g] \ {first}
    <3>1. finished[g] \in SUBSET Nat /\ finished[g] # {}
      BY <1>1, <1>8, StreamAssumption DEF Acknowledge, Ids
    <3>2. Min(finished[g]) \in finished[g]
      BY <3>1, MinIsLeast
    <3>3. QED
      BY <1>8, <3>2 DEF Acknowledge, TypeOK
  <2>2. UNCHANGED <<stream, cursor, hand, accepted, starts, crashes>>
    BY <1>8 DEF Acknowledge
  <2>3. WorkerInv(g)'
    BY <1>1, <2>1, <2>2 DEF WorkerInv, Ids
  <2>4. OrderInv(g)'
    BY <1>1, <2>2 DEF OrderInv
  <2>5. LossInv(g)'
    <3>1. InHand(g)' \subseteq InHand(g)
      BY <2>1, <2>2
    <3>2. Lost(g)' \subseteq Lost(g)
      BY <1>1, <2>1, <2>2 DEF WorkerInv
    <3>3. QED
      BY <2>2, <3>1, <3>2, NothingLost
  <2>6. QED
    BY <2>3, <2>4, <2>5 DEF GroupInv
<1>9. CASE Crash(g)
  <2>1. /\ hand'[g] = {} /\ accepted'[g] = {} /\ finished'[g] = {}
        /\ crashes'[g] = crashes[g] + 1
        /\ UNCHANGED <<stream, cursor, pending, starts>>
    BY <1>9 DEF Crash, TypeOK
  <2>2. WorkerInv(g)'
    BY <1>1, <2>1 DEF WorkerInv, Ids
  <2>3. OrderInv(g)'
    BY <2>1 DEF OrderInv
  <2>4. LossInv(g)'
    <3>1. InHand(g)' = {} /\ Lost(g)' \subseteq Lost(g) \cup InHand(g)
      BY <2>1
    <3>2. QED
      BY <2>1, <3>1, BatchLost
  <2>5. QED
    BY <2>2, <2>3, <2>4 DEF GroupInv
<1>10. QED
  BY <1>2, <1>3, <1>4, <1>5, <1>6, <1>7, <1>8, <1>9 DEF Step, Work

-----------------------------------------------------------------------------
(* The theorems. *)

\* The workers start with the invariant: nothing is in hand, nothing is lost.
LEMMA InitInv == Init => Inv
<1> SUFFICES ASSUME Init
             PROVE  Inv
  OBVIOUS
<1>1. TypeOK
  BY StreamAssumption DEF Init, TypeOK, Ids
<1>2. ASSUME NEW g \in Groups
      PROVE  GroupInv(g)
  <2>1. InHand(g) = {} /\ Lost(g) = {} /\ Delivered(g) = {}
    BY <1>2 DEF Init, InHand, Lost, Delivered
  <2>2. WorkerInv(g)
    BY <1>2, <2>1 DEF Init, WorkerInv
  <2>3. OrderInv(g)
    BY <2>1 DEF OrderInv
  <2>4. LossInv(g)
    <3>1. Cardinality(InHand(g)) = 0 /\ Cardinality(Lost(g)) = 0
      BY <2>1, FS_EmptySet
    <3>2. BatchCount \in Nat /\ crashes[g] = 0
      BY <1>2, StreamAssumption DEF Init
    <3>3. QED
      BY <3>1, <3>2 DEF LossInv
  <2>5. QED
    BY <2>2, <2>3, <2>4 DEF GroupInv
<1>3. QED
  BY <1>1, <1>2 DEF Inv

\* The types of what a worker's step changes.
WorkerTypes ==
    /\ cursor' \in [Groups -> 0 .. Len(stream)]
    /\ pending' \in [Groups -> SUBSET Ids]
    /\ hand' \in [Groups -> SUBSET Ids]
    /\ accepted' \in [Groups -> SUBSET Ids]
    /\ finished' \in [Groups -> SUBSET Ids]
    /\ starts' \in [Groups -> [Ids -> Nat]]
    /\ crashes' \in [Groups -> Nat]

\* The counts of what a worker begins.
LEMMA StartedType ==
  ASSUME TypeOK, NEW g \in Groups, NEW unit
  PROVE  Started(g, unit) \in [Groups -> [Ids -> Nat]]
  BY DEF Started, TypeOK

\* A worker's step keeps their types.
LEMMA StepTypes ==
  ASSUME Inv, NEW g \in Groups, Step(g)
  PROVE  WorkerTypes
<1> USE DEF WorkerTypes
<1>1. TypeOK /\ GroupInv(g)
  BY DEF Inv
<1>2. CASE Read(g)
  <2>1. /\ cursor[g] \in Nat /\ BatchCount \in Nat \ {0} /\ Len(stream) \in Nat
        /\ cursor[g] < Len(stream) /\ Len(stream) <= MaxEntries
    BY <1>1, <1>2, StreamAssumption DEF Read, TypeOK
  <2> DEFINE batch == cursor[g] + 1 .. Min({cursor[g] + BatchCount, Len(stream)})
  <2>2. PICK end \in cursor[g] + 1 .. Len(stream) :
            batch = cursor[g] + 1 .. end /\ Max(batch) = end /\ end <= cursor[g] + BatchCount
    BY <2>1, BatchInterval, Zenon
  <2>3. Deliver(g, batch)
    BY <1>2 DEF Read
  <2> HIDE DEF batch
  <2>4. end \in 0 .. Len(stream) /\ batch \subseteq Ids
    BY <2>1, <2>2, StreamAssumption DEF Ids
  <2>5. QED
    BY <1>1, <2>2, <2>3, <2>4 DEF Deliver, TypeOK
<1>3. CASE Accept(g)
  BY <1>1, <1>3, UnitType DEF Accept, TypeOK
<1>4. CASE AcceptFails(g)
  BY <1>1, <1>4, StartedType, UnitType DEF AcceptFails, TypeOK
<1>5. CASE Handle(g)
  <2>1. Unit(g) \subseteq Ids
    BY <1>1, <1>5, UnitType DEF Handle, TypeOK
  <2>2. QED
    BY <1>1, <1>5, <2>1, StartedType DEF Handle, TypeOK
<1>6. CASE HandleAccepted(g)
  BY <1>1, <1>6, StartedType DEF HandleAccepted, TypeOK
<1>7. CASE HandleFails(g)
  <2>1. Unit(g) \subseteq Ids
    BY <1>1, <1>7, UnitType DEF HandleFails, TypeOK
  <2>2. QED
    BY <1>1, <1>7, <2>1, StartedType DEF HandleFails, TypeOK
<1>8. CASE Acknowledge(g)
  BY <1>1, <1>8 DEF Acknowledge, TypeOK
<1>9. CASE DeadLetterFails(g)
  <2>1. Unit(g) \subseteq Ids
    BY <1>1, <1>9, UnitType DEF DeadLetterFails, TypeOK
  <2>2. QED
    BY <1>1, <1>9, <2>1, StartedType DEF DeadLetterFails, TypeOK
<1>10. CASE Crash(g)
  BY <1>1, <1>10 DEF Crash, TypeOK
<1>11. QED
  BY <1>2, <1>3, <1>4, <1>5, <1>6, <1>7, <1>8, <1>9, <1>10 DEF Step, Work

\* A unit is finite, and its letters have a token.
LEMMA UnitLetters ==
  ASSUME Inv, NEW g \in Groups, hand[g] # {}
  PROVE  /\ Cardinality(Unit(g)) \in Nat
         /\ stream[Min(Unit(g))] \in Tokens
         /\ stream[Min({Min(hand[g])})] \in Tokens
<1>1. TypeOK /\ hand[g] \subseteq Delivered(g)
  BY DEF Inv, GroupInv, WorkerInv, InHand
<1>2. cursor[g] \in 0 .. Len(stream) /\ Len(stream) \in Nat
  BY <1>1 DEF TypeOK
<1>3. \A id \in hand[g] : id \in Nat /\ stream[id] \in Tokens
  BY <1>1, <1>2 DEF Delivered, TypeOK
<1>4. Min(hand[g]) \in hand[g] /\ Unit(g) \subseteq hand[g] /\ Min(Unit(g)) \in hand[g]
  BY <1>1, UnitType
<1>5. Min({Min(hand[g])}) \in hand[g]
  <2>1. {Min(hand[g])} \in SUBSET Nat /\ {Min(hand[g])} # {}
    BY <1>3, <1>4, Zenon
  <2>2. Min({Min(hand[g])}) \in {Min(hand[g])}
    BY <2>1, MinIsLeast, Zenon
  <2>3. QED
    BY <1>4, <2>2, Zenon
<1>6. Cardinality(Unit(g)) \in Nat
  <2>1. cursor[g] \in Int /\ Unit(g) \in SUBSET (1 .. cursor[g])
    BY <1>1, <1>2, <1>4 DEF Delivered
  <2>2. IsFiniteSet(Unit(g))
    BY <2>1, FS_Interval, FS_Subset
  <2>3. QED
    BY <2>2, FS_CardinalityType
<1>7. QED
  BY <1>3, <1>4, <1>5, <1>6, Zenon

\* A step keeps the types.
LEMMA NextTypes == ASSUME Inv, [Next]_vars PROVE TypeOK'
<1> USE DEF Inv
<1>1. /\ stream' \in Seq(Tokens) /\ Len(stream') <= MaxEntries
      /\ Len(stream) <= Len(stream')
  BY StreamGrows
<1>2. letters' \in Seq(Tokens)
  <2>1. ASSUME NEW g \in Groups, AcceptFails(g) \/ HandleFails(g) \/ DeadLetterFails(g)
        PROVE  letters' \in Seq(Tokens)
    <3>1. hand[g] # {}
      BY <2>1 DEF AcceptFails, HandleFails, DeadLetterFails
    <3>2. /\ Cardinality(Unit(g)) \in Nat
          /\ stream[Min(Unit(g))] \in Tokens
          /\ stream[Min({Min(hand[g])})] \in Tokens
      BY <3>1, UnitLetters
    <3>3. PICK more \in Seq(Tokens) : letters' = letters \o more
      <4>1. CASE AcceptFails(g)
        <5>1. Letters({Min(hand[g])}, 1) \in Seq(Tokens)
          BY <3>2, LettersType
        <5>2. QED
          BY <4>1, <5>1 DEF AcceptFails
      <4>2. CASE HandleFails(g)
        <5>1. Letters(Unit(g), Cardinality(Unit(g))) \in Seq(Tokens)
          BY <3>2, LettersType
        <5>2. QED
          BY <4>2, <5>1 DEF HandleFails
      <4>3. CASE DeadLetterFails(g)
        <5>1. PICK n \in 0 .. Cardinality(Unit(g)) - 1 : letters' = letters \o Letters(Unit(g), n)
          BY <4>3 DEF DeadLetterFails
        <5>2. n \in Nat
          BY <3>2
        <5>3. Letters(Unit(g), n) \in Seq(Tokens)
          BY <3>2, <5>2, LettersType
        <5>4. QED
          BY <5>1, <5>3
      <4>4. QED
        BY <2>1, <4>1, <4>2, <4>3
    <3>4. letters \in Seq(Tokens)
      BY DEF TypeOK
    <3>5. letters \o more \in Seq(Tokens)
      BY <3>4, ConcatProperties
    <3>6. QED
      BY <3>3, <3>5
  <2>2. ASSUME ~ \E g \in Groups : AcceptFails(g) \/ HandleFails(g) \/ DeadLetterFails(g)
        PROVE  letters' = letters
    BY <2>2
    DEF Next, Work, Publish, Replay, Read, Deliver, Accept, Handle, HandleAccepted, Acknowledge,
        Crash, vars
  <2>3. QED
    BY <2>1, <2>2 DEF TypeOK
<1>3. WorkerTypes
  <2>1. ASSUME NEW g \in Groups, Step(g)
        PROVE  WorkerTypes
    BY <2>1, StepTypes
  <2>2. CASE UNCHANGED <<cursor, pending, worker, starts, crashes>>
    BY <2>2 DEF worker, TypeOK, WorkerTypes
  <2>3. QED
    BY <2>1, <2>2 DEF Next, Step, Publish, Replay, vars
<1>4. cursor' \in [Groups -> 0 .. Len(stream')]
  <2>1. /\ cursor' \in [Groups -> 0 .. Len(stream)]
        /\ Len(stream) \in Nat /\ Len(stream') \in Nat
    BY <1>1, <1>3 DEF WorkerTypes, TypeOK
  <2>2. 0 .. Len(stream) \subseteq 0 .. Len(stream')
    BY <1>1, <2>1
  <2>3. QED
    BY <2>1, <2>2
<1>5. QED
  BY <1>1, <1>2, <1>3, <1>4 DEF TypeOK, WorkerTypes

\* A step keeps the invariant.
LEMMA NextInv == ASSUME Inv, [Next]_vars PROVE Inv'
<1>1. ASSUME NEW g \in Groups
      PROVE  GroupInv(g)'
  <2>1. CASE Step(g)
    BY <2>1, StepInv DEF Inv
  <2>2. CASE ~ Step(g)
    BY <2>2, OnlyOneMoves, SameInv DEF Inv
  <2>3. QED
    BY <2>1, <2>2
<1>2. QED
  BY <1>1, NextTypes DEF Inv

\* Every reachable state satisfies Inv.
THEOREM Invariance == Spec => []Inv
  BY InitInv, NextInv, PTL DEF Spec

\* The types, and a cursor within the stream.
THEOREM TypeCorrectness == Spec => []TypeOK
<1>1. Inv => TypeOK
  BY DEF Inv
<1>2. QED
  BY <1>1, Invariance, PTL

\* No worker begins an entry twice, whatever crashes and replays there are: ">" hands an
\* entry out once and the pending list is never read (read_group_models of redis_stream.py).
THEOREM NothingStartedTwice == Spec => []StartedOnce
<1>1. Inv => StartedOnce
  BY DEF Inv, GroupInv, WorkerInv, StartedOnce
<1>2. QED
  BY <1>1, Invariance, PTL

\* A crash loses what its worker has in hand, a batch at most, and nothing else is lost
\* (the poll loops of worker.py, one acknowledgement for each unit in a finally clause).
THEOREM ACrashLosesABatch == Spec => []LossBounded
<1>1. Inv => LossBounded
  <2> SUFFICES ASSUME Inv, NEW g \in Groups
               PROVE  LET inHand == hand[g] \cup accepted[g] \cup finished[g]
                          served == {id \in Delivered(g) :
                                        starts[g][id] = 1 /\ id \notin pending[g]}
                      IN  Cardinality(Delivered(g) \ (inHand \cup served))
                            <= BatchCount * crashes[g]
    BY DEF LossBounded
  <2> DEFINE served == {id \in Delivered(g) : starts[g][id] = 1 /\ id \notin pending[g]}
  <2>1. Delivered(g) \subseteq Ids
    BY StreamAssumption DEF Inv, TypeOK, Delivered, Ids
  <2>2. \A id \in Ids : starts[g][id] \in {0, 1}
    BY DEF Inv, GroupInv, WorkerInv
  <2>3. Delivered(g) \ (InHand(g) \cup served) = Lost(g)
    BY <2>1, <2>2 DEF Lost
  <2>4. Cardinality(Lost(g)) <= BatchCount * crashes[g]
    BY DEF Inv, GroupInv, LossInv
  <2>5. QED
    BY <2>3, <2>4, Zenon DEF InHand
<1>2. QED
  BY <1>1, Invariance, PTL

\* A worker takes the entries of a token in the order of the stream, also where it regroups
\* its batch by token (run_pipeline_live of worker.py).
THEOREM OrderWithinToken == Spec => []TokenOrder
<1>1. Inv => TokenOrder
  BY DEF Inv, GroupInv, OrderInv, TokenOrder
<1>2. QED
  BY <1>1, Invariance, PTL
================================================================================

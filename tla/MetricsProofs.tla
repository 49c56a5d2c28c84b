--------------------------- MODULE MetricsProofs ---------------------------
(***************************************************************************)
(* Proofs about what is measured.  What the Kafka streamer counts is       *)
(* counted before it is gone, and more than once only after a failure, for *)
(* any number of namespaces, messages and failures; no sample of a         *)
(* worker's metrics is lost on its way but by a named failure, for any     *)
(* limits and times.                                                       *)
(***************************************************************************)
EXTENDS KafkaStreamer, MetricsPipeline, FiniteSetTheorems, TLAPS

-----------------------------------------------------------------------------
(* The Kafka streamer *)

\* The kinds of message differ: one that counts is not passed over.
LEMMA KindsDiffer ==
  /\ "ignored" \notin Namespaces /\ "poison" \notin Namespaces
  /\ MaxMessages \in Nat
  /\ MaxStreamerFailures \in Nat
BY KafkaAssumption

\* The daemon's variables keep to their values: the streamer never commits or
\* deletes past the end of the topic.
LEMMA StreamerTypeInit == StreamerInit => StreamerTypeOK
<1> SUFFICES ASSUME StreamerInit PROVE StreamerTypeOK
  OBVIOUS
<1>1. topic \in Seq(MessageKinds) /\ Len(topic) = 0
  BY DEF StreamerInit
<1>2. counted \in [Messages -> Nat]
  BY DEF StreamerInit
<1>3. isLastCommit \in BOOLEAN
  BY Zenon DEF StreamerInit
<1> QED
  BY <1>1, <1>2, <1>3, KindsDiffer DEF StreamerInit, StreamerTypeOK

\* A produced message has the next offset of its partition, and its type.
LEMMA ProduceType ==
  ASSUME StreamerTypeOK, NEW kind \in MessageKinds, Produce(kind)
  PROVE  StreamerTypeOK'
<1>1. topic' \in Seq(MessageKinds) /\ Len(topic') = Len(topic) + 1
  BY DEF Produce, StreamerTypeOK
<1>2. Len(topic') <= MaxMessages
  BY <1>1, KindsDiffer DEF Produce, StreamerTypeOK
<1>3. Len(topic) \in Nat
  BY DEF StreamerTypeOK
<1> QED
  BY <1>1, <1>2, <1>3 DEF Produce, StreamerTypeOK, iterationVars, Messages

\* Every step keeps the types.
LEMMA StreamerStepType ==
  ASSUME StreamerTypeOK,
         \/ StreamerDaemon
         \/ \E isInterrupt \in BOOLEAN : StreamerFails(isInterrupt)
  PROVE  StreamerTypeOK'
<1>0. Len(topic) \in Nat
  BY DEF StreamerTypeOK
<1> USE <1>0 DEF StreamerTypeOK, iterationVars, kafkaVars, Messages
<1>1. CASE Subscribe
  BY <1>1 DEF Subscribe, StartPosition
<1>2. CASE PollMessage
  BY <1>2, KindsDiffer DEF PollMessage, IsCountable
<1>3. CASE PoisonRaises
  <2>1. isLastCommit' \in BOOLEAN
    BY <1>3, Zenon DEF PoisonRaises
  <2> QED
    BY <1>3, <2>1 DEF PoisonRaises
<1>4. CASE StartCommit
  BY <1>4 DEF StartCommit
<1>5. CASE \E namespace \in Namespaces : IncrementCounters(namespace)
  BY <1>5 DEF IncrementCounters
<1>6. CASE CommitPosition
  <2>1. isLastCommit' \in BOOLEAN
    BY <1>6, Zenon DEF CommitPosition
  <2>2. streamerPhase' \in {"idle", "poll", "commit", "delete"}
    BY <1>6 DEF CommitPosition
  <2>3. streamerFailures' \in 0 .. MaxStreamerFailures
    BY <1>6, KindsDiffer DEF CommitPosition
  <2>4. committed' \in 0 .. Len(topic)
    BY <1>6 DEF CommitPosition
  <2>5. aggData' = {} /\ incremented' = {}
    BY <1>6 DEF CommitPosition, ClearedAggData
  <2>6. UNCHANGED <<topic, deletedUpTo, position, latestOffset, counted, discarded>>
    BY <1>6 DEF CommitPosition
  <2> QED
    BY <2>1, <2>2, <2>3, <2>4, <2>5, <2>6
<1>7. CASE DeleteRecords
  BY <1>7 DEF DeleteRecords, LastDeleted
<1>8. CASE \E isInterrupt \in BOOLEAN : StreamerFails(isInterrupt)
  <2>1. isLastCommit' \in BOOLEAN
    BY <1>8, Zenon DEF StreamerFails
  <2>2. streamerPhase' \in {"idle", "poll", "commit", "delete"}
    BY <1>8 DEF StreamerFails
  <2>3. streamerFailures' \in 0 .. MaxStreamerFailures
    BY <1>8, KindsDiffer DEF StreamerFails
  <2>4. position' \in 0 .. Len(topic) /\ latestOffset' \in 0 .. Len(topic)
    BY <1>8 DEF StreamerFails
  <2>5. discarded' \subseteq Messages
    BY <1>8 DEF StreamerFails
  <2>6. aggData' = {} /\ incremented' = {} /\ UNCHANGED <<topic, deletedUpTo, committed, counted>>
    BY <1>8 DEF StreamerFails
  <2> QED
    BY <2>1, <2>2, <2>3, <2>4, <2>5, <2>6
<1> QED
  BY <1>1, <1>2, <1>3, <1>4, <1>5, <1>6, <1>7, <1>8 DEF StreamerDaemon

\* The streamer's variables keep to their values: it never commits or deletes
\* past the end of the topic.
THEOREM StreamerTypeCorrect == StreamerSpec => []StreamerTypeOK
<1>1. StreamerTypeOK /\ [StreamerNext]_streamerVars => StreamerTypeOK'
  <2> SUFFICES ASSUME StreamerTypeOK, [StreamerNext]_streamerVars
               PROVE  StreamerTypeOK'
    OBVIOUS
  <2>1. CASE \E kind \in MessageKinds : Produce(kind)
    BY <2>1, ProduceType
  <2>2. CASE StreamerDaemon \/ \E isInterrupt \in BOOLEAN : StreamerFails(isInterrupt)
    BY <2>2, StreamerStepType
  <2>3. CASE UNCHANGED streamerVars
    BY <2>3 DEF streamerVars, kafkaVars, iterationVars, StreamerTypeOK
  <2> QED
    BY <2>1, <2>2, <2>3 DEF StreamerNext
<1> QED
  BY StreamerTypeInit, <1>1, PTL DEF StreamerSpec

-----------------------------------------------------------------------------
(* What is counted *)

\* What was polled is not committed yet, and is kept until it is.
AggDataInv ==
  /\ streamerPhase \notin {"poll", "commit"} => aggData = {}
  /\ streamerPhase # "commit" => incremented = {}
  /\ streamerPhase \in {"poll", "commit"} => committed <= position /\ latestOffset <= position
  /\ streamerPhase = "idle" => latestOffset = 0
  /\ \A m \in aggData : IsCountable(m) /\ committed < m /\ m <= position

IsUpdated(m) == m \in aggData /\ topic[m] \in incremented

\* A message that is not committed has one count less, until this commit
\* updates its counter.
CountInv ==
  /\ CountedOncePerFailure
  /\ \A m \in Messages :
       m > committed => counted[m] <= streamerFailures \/ IsUpdated(m)

IsDone(m) == IsCountable(m) => counted[m] > 0 \/ m \in discarded

\* What the consumer is past is counted or in aggData; what is going to be
\* deleted is counted.
GoneInv ==
  /\ \A m \in Messages :
       /\ m <= committed \/ m <= deletedUpTo => IsDone(m)
       /\ streamerPhase \in {"poll", "commit"} /\ m <= position => IsDone(m) \/ m \in aggData
       /\ streamerPhase = "delete" /\ m <= latestOffset => IsDone(m)
  /\ \A m \in aggData : topic[m] \in incremented => counted[m] > 0

StreamerInv == StreamerTypeOK /\ AggDataInv /\ CountInv /\ GoneInv

\* StreamerInv holds at the start, when nothing is produced or counted.
LEMMA StreamerInvInit == StreamerInit => StreamerInv
<1> SUFFICES ASSUME StreamerInit PROVE StreamerInv
  OBVIOUS
<1>1. StreamerTypeOK
  BY StreamerTypeInit
<1>2. AggDataInv /\ CountInv /\ GoneInv
  BY <1>1, KindsDiffer DEF StreamerInit, AggDataInv, CountInv, CountedOncePerFailure, GoneInv, IsDone,
     IsCountable, IsUpdated, StreamerTypeOK, Messages
<1> QED
  BY <1>1, <1>2 DEF StreamerInv

\* Appending leaves the messages that were there, and what was done of them.
LEMMA ProduceInv ==
  ASSUME StreamerInv, NEW kind \in MessageKinds, Produce(kind)
  PROVE  StreamerInv'
<1>1. /\ topic \in Seq(MessageKinds) /\ Len(topic) \in Nat
      /\ {committed, deletedUpTo, position, latestOffset} \subseteq 0 .. Len(topic)
  BY DEF StreamerInv, StreamerTypeOK
<1>2. topic' = Append(topic, kind)
      /\ UNCHANGED <<deletedUpTo, committed, streamerPhase, position, latestOffset, aggData,
                     incremented, streamerFailures, counted, discarded>>
  BY DEF Produce, iterationVars
<1>3. DOMAIN topic = 1 .. Len(topic) /\ DOMAIN topic' = 1 .. Len(topic) + 1
  BY <1>1, <1>2
<1>4. \A m \in 1 .. Len(topic) : topic'[m] = topic[m]
  BY <1>1, <1>2
<1>5. \A m \in 1 .. Len(topic) : IsCountable(m)' <=> IsCountable(m)
  BY <1>1, <1>3, <1>4 DEF IsCountable
<1>6. aggData \subseteq 1 .. Len(topic)
  BY <1>3 DEF StreamerInv, AggDataInv, IsCountable
<1>7. StreamerTypeOK'
  BY ProduceType DEF StreamerInv
<1>8. AggDataInv'
  BY <1>2, <1>5, <1>6 DEF StreamerInv, AggDataInv
<1>9. CountInv'
  BY <1>2, <1>4, <1>6 DEF StreamerInv, CountInv, CountedOncePerFailure, IsUpdated
<1>10. GoneInv'
  <2>1. \A m \in Messages : m <= Len(topic) => m \in 1 .. Len(topic)
    BY <1>1, KindsDiffer DEF Messages
  <2>2. \A m \in 1 .. Len(topic) : IsDone(m) => IsDone(m)'
    BY <1>2, <1>5 DEF IsDone
  <2>3. \A m \in Messages :
          m <= committed \/ m <= deletedUpTo \/ m <= position \/ m <= latestOffset =>
            m \in 1 .. Len(topic)
    BY <1>1, <2>1, KindsDiffer DEF Messages
  <2> QED
    BY <1>2, <1>4, <1>6, <2>2, <2>3 DEF StreamerInv, GoneInv
<1> QED
  BY <1>7, <1>8, <1>9, <1>10 DEF StreamerInv

\* The consumer starts where everything before is counted.
LEMMA SubscribeInv == StreamerInv /\ Subscribe => StreamerInv'
<1> SUFFICES ASSUME StreamerInv, Subscribe PROVE StreamerInv'
  OBVIOUS
<1> USE DEF StreamerInv
<1>1. StreamerTypeOK'
  BY StreamerStepType DEF StreamerDaemon
<1>2. /\ streamerPhase = "idle" /\ streamerPhase' = "poll" /\ position' = StartPosition
      /\ UNCHANGED <<topic, deletedUpTo, committed, latestOffset, aggData, incremented,
                     streamerFailures, counted, discarded>>
  BY DEF Subscribe, kafkaVars
<1>3. {committed, deletedUpTo} \subseteq Nat /\ Messages \subseteq Nat
  BY KindsDiffer DEF StreamerTypeOK, Messages
<1>4. AggDataInv'
  BY <1>2, <1>3 DEF AggDataInv, StartPosition, IsCountable
<1>5. CountInv'
  BY <1>2 DEF CountInv, CountedOncePerFailure, IsUpdated
<1>6. GoneInv'
  BY <1>2, <1>3 DEF GoneInv, IsDone, IsCountable, StartPosition
<1> QED
  BY <1>1, <1>4, <1>5, <1>6

\* What a message adds to agg_data is not committed, and not counted yet.
LEMMA PollMessageInv == StreamerInv /\ PollMessage => StreamerInv'
<1> SUFFICES ASSUME StreamerInv, PollMessage PROVE StreamerInv'
  OBVIOUS
<1> USE DEF StreamerInv
<1>1. StreamerTypeOK'
  BY StreamerStepType DEF StreamerDaemon
<1>2. /\ streamerPhase = "poll" /\ position' = position + 1 /\ latestOffset' = position + 1
      /\ incremented = {}
      /\ aggData' = IF IsCountable(position + 1) THEN aggData \union {position + 1} ELSE aggData
      /\ UNCHANGED <<topic, deletedUpTo, committed, streamerPhase, incremented,
                     streamerFailures, counted, discarded>>
  BY DEF PollMessage, kafkaVars, AggDataInv
<1>3. /\ {committed, deletedUpTo, position, latestOffset} \subseteq Nat
      /\ Messages \subseteq Nat /\ aggData \subseteq Messages
  BY KindsDiffer DEF StreamerTypeOK, Messages
<1>4. AggDataInv'
  BY <1>2, <1>3 DEF AggDataInv, IsCountable
<1>5. CountInv'
  BY <1>2 DEF CountInv, CountedOncePerFailure, IsUpdated
<1>6. GoneInv'
  BY <1>2, <1>3 DEF GoneInv, IsDone, IsCountable
<1> QED
  BY <1>1, <1>4, <1>5, <1>6

\* A commit counts the messages in agg_data, each namespace's once.
LEMMA CommitInv ==
  ASSUME StreamerInv, StartCommit \/ \E namespace \in Namespaces : IncrementCounters(namespace)
  PROVE  StreamerInv'
<1> USE DEF StreamerInv
<1>1. StreamerTypeOK'
  BY StreamerStepType DEF StreamerDaemon
<1>2. CASE StartCommit
  <2>1. /\ streamerPhase = "poll" /\ streamerPhase' = "commit"
        /\ UNCHANGED <<topic, deletedUpTo, committed, position, latestOffset, aggData,
                       incremented, streamerFailures, counted, discarded>>
    BY <1>2, Zenon DEF StartCommit, kafkaVars
  <2>2. AggDataInv'
    BY <2>1 DEF AggDataInv, IsCountable
  <2>3. CountInv' /\ GoneInv'
    BY <2>1 DEF CountInv, CountedOncePerFailure, IsUpdated, GoneInv, IsDone, IsCountable
  <2> QED
    BY <1>1, <2>2, <2>3
<1>3. ASSUME NEW namespace \in Namespaces, IncrementCounters(namespace)
      PROVE  StreamerInv'
  <2>1. /\ streamerPhase = "commit" /\ namespace \notin incremented
        /\ incremented' = incremented \union {namespace}
        /\ \A m \in Messages :
             counted'[m] = IF m \in aggData /\ topic[m] = namespace THEN counted[m] + 1 ELSE counted[m]
        /\ UNCHANGED <<topic, deletedUpTo, committed, streamerPhase, position, latestOffset,
                       aggData, streamerFailures, discarded>>
    BY <1>3 DEF IncrementCounters, MessagesOf, kafkaVars
  <2>2. /\ aggData \subseteq Messages /\ streamerFailures \in Nat
        /\ \A m \in Messages : counted[m] \in Nat
        /\ committed \in Nat /\ Messages \subseteq Nat
    BY KindsDiffer DEF StreamerTypeOK, Messages
  <2>3. AggDataInv'
    BY <2>1 DEF AggDataInv, IsCountable
  <2>4. CountInv'
    <3>1. \A m \in aggData : topic[m] = namespace => counted[m] <= streamerFailures
      BY <2>1, <2>2 DEF AggDataInv, CountInv, IsUpdated
    <3> QED
      BY <2>1, <2>2, <3>1 DEF CountInv, CountedOncePerFailure, IsUpdated
  <2>5. GoneInv'
    <3>1. \A m \in Messages : IsDone(m) => IsDone(m)'
      <4>1. \A m \in Messages : counted[m] > 0 => counted'[m] > 0
        BY <2>1, <2>2
      <4>2. UNCHANGED <<topic, discarded>>
        BY <2>1
      <4> QED
        BY <4>1, <4>2 DEF IsDone, IsCountable
    <3>2. \A m \in Messages :
            /\ m <= committed \/ m <= deletedUpTo => IsDone(m)'
            /\ m <= position => IsDone(m)' \/ m \in aggData
      BY <2>1, <3>1 DEF GoneInv
    <3>3. \A m \in aggData : topic[m] \in incremented' => counted'[m] > 0
      BY <2>1, <2>2 DEF GoneInv
    <3>4. /\ streamerPhase' # "delete"
          /\ UNCHANGED <<topic, deletedUpTo, committed, position, aggData>>
      BY <2>1
    <3> QED
      BY <3>2, <3>3, <3>4, Zenon DEF GoneInv
  <2> QED
    BY <1>1, <2>3, <2>4, <2>5
<1> QED
  BY <1>2, <1>3

\* When the offsets are committed, all that was polled is counted; when the
\* commit is lost, it will be counted again.
LEMMA CommitPositionInv == StreamerInv /\ CommitPosition => StreamerInv'
<1> SUFFICES ASSUME StreamerInv, CommitPosition PROVE StreamerInv'
  OBVIOUS
<1> USE DEF StreamerInv
<1>1. StreamerTypeOK'
  BY StreamerStepType DEF StreamerDaemon
<1>2. /\ streamerPhase = "commit" /\ streamerPhase' \in {"poll", "delete"}
      /\ \A m \in aggData : topic[m] \in incremented
      /\ \/ committed' = position /\ streamerFailures' = streamerFailures
         \/ committed' = committed /\ streamerFailures' = streamerFailures + 1
      /\ aggData' = {} /\ incremented' = {}
      /\ UNCHANGED <<topic, deletedUpTo, position, latestOffset, counted, discarded>>
  BY Zenon DEF CommitPosition, ClearedAggData
<1>3. /\ {committed, deletedUpTo, position, latestOffset} \subseteq Nat
      /\ Messages \subseteq Nat /\ streamerFailures \in Nat
      /\ \A m \in Messages : counted[m] \in Nat
  BY KindsDiffer DEF StreamerTypeOK, Messages
<1>4. AggDataInv'
  BY <1>2, <1>3 DEF AggDataInv
<1>5. CountInv'
  BY <1>2, <1>3 DEF AggDataInv, CountInv, CountedOncePerFailure, IsUpdated
<1>6. GoneInv'
  <2>1. \A m \in Messages : m <= position => IsDone(m)
    BY <1>2 DEF GoneInv, IsDone
  <2>2. \A m \in Messages : IsDone(m) => IsDone(m)'
    BY <1>2 DEF IsDone, IsCountable
  <2> QED
    BY <1>2, <1>3, <2>1, <2>2 DEF GoneInv, AggDataInv
<1> QED
  BY <1>1, <1>4, <1>5, <1>6

\* The records deleted are before the last one that was polled.
LEMMA DeleteRecordsInv == StreamerInv /\ DeleteRecords => StreamerInv'
<1> SUFFICES ASSUME StreamerInv, DeleteRecords PROVE StreamerInv'
  OBVIOUS
<1> USE DEF StreamerInv
<1>1. StreamerTypeOK'
  BY StreamerStepType DEF StreamerDaemon
<1>2. /\ streamerPhase = "delete" /\ streamerPhase' = "idle"
      /\ deletedUpTo' \in {deletedUpTo, latestOffset - 1}
      /\ position' = 0 /\ latestOffset' = 0
      /\ UNCHANGED <<topic, committed, aggData, incremented, streamerFailures, counted, discarded>>
  BY DEF DeleteRecords, LastDeleted
<1>3. {deletedUpTo, latestOffset} \subseteq Nat /\ Messages \subseteq Nat
  BY KindsDiffer DEF StreamerTypeOK, Messages
<1>4. AggDataInv'
  BY <1>2 DEF AggDataInv
<1>5. CountInv'
  BY <1>2 DEF CountInv, CountedOncePerFailure, IsUpdated
<1>6. GoneInv'
  <2>1. \A m \in Messages : IsDone(m) => IsDone(m)'
    BY <1>2 DEF IsDone, IsCountable
  <2>2. \A m \in Messages : m <= deletedUpTo' => IsDone(m)
    BY <1>2, <1>3 DEF GoneInv
  <2>3. aggData = {}
    BY <1>2 DEF AggDataInv
  <2> QED
    BY <1>2, <2>1, <2>2, <2>3 DEF GoneInv
<1> QED
  BY <1>1, <1>4, <1>5, <1>6

\* A message that cannot be parsed throws away what was not committed.
LEMMA PoisonInv == StreamerInv /\ PoisonRaises => StreamerInv'
<1> SUFFICES ASSUME StreamerInv, PoisonRaises PROVE StreamerInv'
  OBVIOUS
<1> USE DEF StreamerInv
<1>1. StreamerTypeOK'
  BY StreamerStepType DEF StreamerDaemon
<1>2. /\ streamerPhase = "poll" /\ streamerPhase' = "idle"
      /\ latestOffset' = 0 /\ aggData' = {} /\ incremented' = {}
      /\ UNCHANGED <<topic, deletedUpTo, committed, streamerFailures, counted, discarded>>
  BY Zenon DEF PoisonRaises, kafkaVars
<1>3. AggDataInv'
  BY <1>2 DEF AggDataInv
<1>4. CountInv'
  BY <1>2 DEF AggDataInv, CountInv, CountedOncePerFailure, IsUpdated
<1>5. GoneInv'
  <2>1. \A m \in Messages : IsDone(m) => IsDone(m)'
    BY <1>2 DEF IsDone, IsCountable
  <2> QED
    BY <1>2, <2>1 DEF GoneInv
<1> QED
  BY <1>1, <1>3, <1>4, <1>5

\* So does a failure, which may have what is counted already counted again; an
\* interrupt discards what is not counted.
LEMMA StreamerFailsInv ==
  ASSUME StreamerInv, NEW isInterrupt \in BOOLEAN, StreamerFails(isInterrupt)
  PROVE  StreamerInv'
<1> USE DEF StreamerInv
<1>1. StreamerTypeOK'
  BY StreamerStepType
<1>2. /\ streamerPhase \in {"poll", "commit", "delete"}
      /\ streamerFailures' = streamerFailures + 1
      /\ aggData' = {} /\ incremented' = {}
      /\ UNCHANGED <<topic, deletedUpTo, committed, counted>>
      /\ discarded \subseteq discarded'
  BY Zenon DEF StreamerFails, kafkaVars
<1>3. \/ streamerPhase' = "idle" /\ latestOffset' = 0
      \/ /\ streamerPhase' = "delete" /\ latestOffset' = latestOffset
         /\ streamerPhase \in {"poll", "commit"}
         /\ \A m \in aggData : topic[m] \in incremented \/ m \in discarded'
  BY Zenon DEF StreamerFails
<1>4. /\ streamerFailures \in Nat /\ position \in Nat /\ latestOffset \in Nat
      /\ Messages \subseteq Nat /\ \A m \in Messages : counted[m] \in Nat
  BY KindsDiffer DEF StreamerTypeOK, Messages
<1>5. AggDataInv'
  BY <1>2, <1>3 DEF AggDataInv
<1>6. CountInv'
  BY <1>2, <1>4 DEF CountInv, CountedOncePerFailure, IsUpdated
<1>7. GoneInv'
  <2>1. \A m \in Messages : IsDone(m) => IsDone(m)'
    BY <1>2 DEF IsDone, IsCountable
  <2>2. ASSUME streamerPhase' = "delete", NEW m \in Messages, m <= latestOffset
        PROVE  IsDone(m)'
    <3>1. m <= position
      BY <1>3, <1>4, <2>2 DEF AggDataInv
    <3>2. IsDone(m) \/ m \in aggData
      BY <1>3, <2>2, <3>1 DEF GoneInv
    <3>3. m \in aggData => counted[m] > 0 \/ m \in discarded'
      BY <1>3, <2>2 DEF GoneInv
    <3> QED
      BY <1>2, <2>1, <3>2, <3>3 DEF IsDone
  <2> QED
    BY <1>2, <1>3, <2>1, <2>2 DEF GoneInv
<1> QED
  BY <1>1, <1>5, <1>6, <1>7

\* The invariant the two properties follow from.
THEOREM StreamerInvariant == StreamerSpec => []StreamerInv
<1>1. StreamerInv /\ [StreamerNext]_streamerVars => StreamerInv'
  <2> SUFFICES ASSUME StreamerInv, [StreamerNext]_streamerVars
               PROVE  StreamerInv'
    OBVIOUS
  <2>1. CASE UNCHANGED streamerVars
    BY <2>1 DEF streamerVars, kafkaVars, iterationVars, StreamerInv, StreamerTypeOK, AggDataInv,
       CountInv, CountedOncePerFailure, IsUpdated, GoneInv, IsDone, IsCountable
  <2> QED
    BY <2>1, ProduceInv, SubscribeInv, PollMessageInv, CommitInv, CommitPositionInv,
       DeleteRecordsInv, PoisonInv, StreamerFailsInv DEF StreamerNext, StreamerDaemon
<1> QED
  BY StreamerInvInit, <1>1, PTL DEF StreamerSpec

\* A request is in the counters at most once more than there were failures,
\* for any topic and any number of restarts.
THEOREM CountedOncePerFailureHolds == StreamerSpec => []CountedOncePerFailure
<1>1. StreamerInv => CountedOncePerFailure
  BY DEF StreamerInv, CountInv
<1> QED
  BY <1>1, StreamerInvariant, PTL

\* No offset is committed and no record deleted before the requests up to it
\* are counted, unless an interrupt discarded them.
THEOREM CountedBeforeGoneHolds == StreamerSpec => []CountedBeforeGone
<1>1. StreamerInv => CountedBeforeGone
  <2> SUFFICES ASSUME StreamerInv, NEW m \in 1 .. Len(topic),
                      m <= committed \/ m <= deletedUpTo
               PROVE  IsDone(m)
    BY DEF CountedBeforeGone, IsDone
  <2>1. m \in Messages
    BY KindsDiffer DEF StreamerInv, StreamerTypeOK, Messages
  <2> QED
    BY <2>1 DEF StreamerInv, GoneInv
<1> QED
  BY <1>1, StreamerInvariant, PTL

-----------------------------------------------------------------------------
(* The metrics *)

\* The types, and that the sender has read something when it sends it.
MetricsTypeInv == MetricsTypeOK /\ (senderPhase # "idle" => sending # <<>>)

\* Every step keeps the types.
LEMMA MetricsStepType ==
  ASSUME MetricsTypeInv, [MetricsNext]_metricsVars
  PROVE  MetricsTypeInv'
<1> USE DEF MetricsTypeInv, MetricsTypeOK
<1>0. <<>> \in Seq(Times)
  OBVIOUS
<1>1. CASE MetricsTick
  <2>1. metricsClock + 1 \in Times
    BY <1>1, MetricsAssumption DEF MetricsTick, Times
  <2> QED
    BY <1>1, <2>1 DEF MetricsTick, metricsKeys, metricsHistory
<1>2. CASE TakeMetrics \/ PutMetrics
  BY <1>0, <1>2 DEF TakeMetrics, PutMetrics, metricsHistory
<1>3. CASE TakeSample
  <2>1. takenMetrics' \in Seq(Times)
    <3>1. Append(takenMetrics, metricsClock) \in Seq(Times) /\ Append(takenMetrics, metricsClock) # <<>>
      OBVIOUS
    <3>2. AppendSample(takenMetrics) \in Seq(Times)
      BY <3>1 DEF AppendSample
    <3> QED
      BY <1>3, <3>2 DEF TakeSample
  <2>2. samples' \subseteq Times
    BY <1>3 DEF TakeSample
  <2>3. skipped' \subseteq Times
    <3>1. CASE Len(takenMetrics) = SampleLimit
      <4>1. takenMetrics[1] \in Times
        BY <3>1, MetricsAssumption
      <4> QED
        BY <1>3, <4>1 DEF TakeSample
    <3>2. CASE Len(takenMetrics) # SampleLimit
      BY <1>3, <3>2 DEF TakeSample
    <3> QED
      BY <3>1, <3>2
  <2> QED
    BY <1>3, <2>1, <2>2, <2>3 DEF TakeSample, metricsKeys
<1>4. CASE MetricsFail
  <2>1. TimesOf(takenMetrics) \subseteq Times
    BY DEF TimesOf
  <2> QED
    BY <1>0, <1>4, <2>1 DEF MetricsFail, metricsKeys
<1>5. CASE ReadMetrics \/ SendFails
  BY <1>0, <1>5 DEF ReadMetrics, SendFails, metricsKeys, metricsHistory
<1>6. CASE SendMetrics \/ StoreLastSent
  <2>1. sending \in Seq(Times) /\ sending # <<>>
    BY <1>6 DEF SendMetrics, StoreLastSent
  <2>2. LastOf(sending) \in Times
    BY <2>1 DEF LastOf
  <2>3. Measurements(sending) \in Seq(Times)
    BY <2>1, MetricsAssumption DEF Measurements
  <2>4. TimesOf(Measurements(sending)) \subseteq Times
    BY <2>3 DEF TimesOf
  <2> QED
    BY <1>0, <1>6, <2>1, <2>2, <2>4 DEF SendMetrics, StoreLastSent, metricsKeys, metricsHistory
<1>7. CASE UNCHANGED metricsVars
  BY <1>7 DEF metricsVars, metricsKeys, metricsHistory
<1> QED
  BY <1>1, <1>2, <1>3, <1>4, <1>5, <1>6, <1>7 DEF MetricsNext, MetricsUpdaterStep, SenderStep

\* The types of the metrics pipeline: no sample is ever read off an empty list.
THEOREM MetricsTypeCorrect == MetricsSpec => []MetricsTypeOK
<1>1. MetricsInit => MetricsTypeInv
  <2>1. 0 \in Times /\ 1 \in Times /\ <<>> \in Seq(Times)
    BY MetricsAssumption DEF Times
  <2> QED
    BY <2>1 DEF MetricsInit, MetricsTypeInv, MetricsTypeOK
<1>2. MetricsTypeInv => MetricsTypeOK
  BY DEF MetricsTypeInv
<1> QED
  BY <1>1, <1>2, MetricsStepType, PTL DEF MetricsSpec

\* The metrics as they are in Redis, or will be when they are put back.
CurrentMetrics == IF metricsPhase = "idle" THEN aggMetrics ELSE takenMetrics

IsIncreasing(list) == \A i, j \in 1 .. Len(list) : i < j => list[i] < list[j]

\* The list holds samples in their order, and all there are between its ends.
IsWindow(list) ==
  /\ list \in Seq(Nat) /\ Len(list) <= SampleLimit
  /\ IsIncreasing(list)
  /\ \A i \in 1 .. Len(list) : list[i] \in samples
  /\ list # <<>> =>
       \A s \in samples : list[1] <= s /\ s <= LastOf(list) => s \in TimesOf(list)

MetricsTimes ==
  /\ metricsClock \in Nat \ {0}
  /\ samples \subseteq 1 .. metricsClock
  /\ reported \in 0 .. metricsClock
  /\ metricsPhase \in {"idle", "taken", "put"}
  /\ metricsPhase = "idle" => takenMetrics = <<>>
  /\ metricsPhase # "idle" => aggMetrics = <<>>

WindowsInv ==
  /\ IsWindow(CurrentMetrics)
  /\ CurrentMetrics # <<>> => \A s \in samples : s <= LastOf(CurrentMetrics)
  /\ senderPhase = "send" => IsWindow(sending) /\ sending # <<>>
  /\ senderPhase = "send" /\ CurrentMetrics # <<>> => sending[1] <= CurrentMetrics[1]

SamplesSince(x) == {s \in samples : x <= s /\ s <= reported}

\* Of the samples at the last send those were sent that are next to leave.
OldestSent ==
  /\ reported # 0 => reported \in samples
  /\ reported # 0 /\ SampleLimit <= SendLimit => reported \in sent
  /\ \A i \in 1 .. Len(CurrentMetrics) :
       /\ CurrentMetrics[i] <= reported
       /\ Cardinality(SamplesSince(CurrentMetrics[i])) > SampleLimit - SendLimit
       => CurrentMetrics[i] \in sent

MetricsInv == MetricsTimes /\ WindowsInv /\ OldestSent /\ SamplesAccountedFor

\* The samples of an increasing list from place j on are as many as places.
LEMMA SuffixCardinality ==
  ASSUME NEW list \in Seq(Nat), IsIncreasing(list), NEW j \in 1 .. Len(list)
  PROVE  LET suffix == {list[i] : i \in j .. Len(list)}
         IN  IsFiniteSet(suffix) /\ Cardinality(suffix) = Len(list) - j + 1
<1> DEFINE places == j .. Len(list)
           suffix == {list[i] : i \in places}
           f == [i \in places |-> list[i]]
<1>1. IsFiniteSet(places) /\ Cardinality(places) = Len(list) - j + 1
  BY FS_Interval
<1>2. \A i, k \in places : i # k => list[i] # list[k]
  <2> SUFFICES ASSUME NEW i \in places, NEW k \in places, i < k PROVE list[i] # list[k]
    OBVIOUS
  <2>1. list[i] \in Nat /\ list[k] \in Nat /\ list[i] < list[k]
    BY DEF IsIncreasing
  <2> QED
    BY <2>1
<1>3. f \in Bijection(places, suffix)
  BY <1>2 DEF Bijection, Injection, Surjection, IsInjective
<1>4. ExistsBijection(places, suffix)
  BY <1>3 DEF ExistsBijection
<1> QED
  BY <1>1, <1>4, FS_Bijection

\* Samples are finitely many.
LEMMA SamplesFinite ==
  ASSUME MetricsTimes, NEW S \in SUBSET samples
  PROVE  IsFiniteSet(S) /\ Cardinality(S) \in Nat
<1>1. IsFiniteSet(1 .. metricsClock)
  BY FS_Interval DEF MetricsTimes
<1>2. IsFiniteSet(S)
  BY <1>1, FS_Subset DEF MetricsTimes
<1> QED
  BY <1>2, FS_CardinalityType

\* What a new sample makes of the list.
LEMMA AppendedSample ==
  ASSUME MetricsInv, metricsPhase = "taken"
  PROVE  \E drop \in {0, 1} :
           /\ drop = 1 <=> Len(takenMetrics) = SampleLimit
           /\ AppendSample(takenMetrics) \in Seq(Nat)
           /\ Len(AppendSample(takenMetrics)) = Len(takenMetrics) + 1 - drop
           /\ \A i \in 1 .. Len(AppendSample(takenMetrics)) :
                \/ /\ i + drop \in 1 .. Len(takenMetrics)
                   /\ AppendSample(takenMetrics)[i] = takenMetrics[i + drop]
                \/ i + drop = Len(takenMetrics) + 1 /\ AppendSample(takenMetrics)[i] = metricsClock
<1> USE MetricsAssumption
<1>1. takenMetrics \in Seq(Nat) /\ Len(takenMetrics) <= SampleLimit /\ metricsClock \in Nat
  BY DEF MetricsInv, MetricsTimes, WindowsInv, IsWindow, CurrentMetrics
<1> DEFINE longer == Append(takenMetrics, metricsClock)
<1>2. /\ longer \in Seq(Nat) /\ Len(longer) = Len(takenMetrics) + 1
      /\ \A i \in 1 .. Len(longer) :
           longer[i] = IF i <= Len(takenMetrics) THEN takenMetrics[i] ELSE metricsClock
  BY <1>1
<1> HIDE DEF longer
<1>3. AppendSample(takenMetrics) = IF Len(longer) > SampleLimit THEN Tail(longer) ELSE longer
  BY DEF AppendSample, longer
<1>4. CASE Len(takenMetrics) = SampleLimit
  <2>1. AppendSample(takenMetrics) = Tail(longer) /\ longer # <<>>
    BY <1>1, <1>2, <1>3, <1>4
  <2>2. /\ Tail(longer) \in Seq(Nat) /\ Len(Tail(longer)) = Len(takenMetrics)
        /\ \A i \in 1 .. Len(Tail(longer)) : Tail(longer)[i] = longer[i + 1]
    BY <1>1, <1>2, <2>1
  <2> QED
    BY <1>1, <1>2, <1>4, <2>1, <2>2
<1>5. CASE Len(takenMetrics) # SampleLimit
  <2>1. AppendSample(takenMetrics) = longer
    BY <1>1, <1>2, <1>3, <1>5
  <2> QED
    BY <1>1, <1>2, <1>5, <2>1
<1> QED
  BY <1>4, <1>5

\* A sample that leaves a full list was sent, or enough were taken since.
LEMMA DroppedSample ==
  ASSUME MetricsInv, SendLimit <= SampleLimit, metricsPhase = "taken",
         Len(takenMetrics) = SampleLimit,
         Cardinality({s \in samples : s > reported}) < SendLimit
  PROVE  takenMetrics[1] \in sent
<1> USE MetricsAssumption
<1> DEFINE later == {s \in samples : s > reported}
           since == SamplesSince(takenMetrics[1])
           all == {takenMetrics[i] : i \in 1 .. Len(takenMetrics)}
<1>1. CurrentMetrics = takenMetrics
  BY DEF CurrentMetrics
<1>2. takenMetrics \in Seq(Nat) /\ IsIncreasing(takenMetrics) /\ all \subseteq samples
  BY <1>1 DEF MetricsInv, WindowsInv, IsWindow
<1>3. IsFiniteSet(all) /\ Cardinality(all) = SampleLimit
  <2>1. 1 \in 1 .. Len(takenMetrics)
    OBVIOUS
  <2>2. IsFiniteSet(all) /\ Cardinality(all) = Len(takenMetrics) - 1 + 1
    <3> HIDE MetricsAssumption DEF later, since
    <3> QED
      BY <1>2, <2>1, SuffixCardinality, ZenonT(30)
  <2> QED
    BY <1>2, <2>2
<1>4. /\ IsFiniteSet(later) /\ Cardinality(later) \in Nat
      /\ IsFiniteSet(since) /\ Cardinality(since) \in Nat
  <2>1. later \in SUBSET samples /\ since \in SUBSET samples
    BY DEF SamplesSince
  <2> QED
    BY <2>1, SamplesFinite DEF MetricsInv
<1>5. all \subseteq later \union since
  <2> SUFFICES ASSUME NEW i \in 1 .. Len(takenMetrics)
               PROVE  takenMetrics[i] \in later \union since
    OBVIOUS
  <2>1. takenMetrics[1] <= takenMetrics[i]
    BY <1>2 DEF IsIncreasing
  <2>2. takenMetrics[i] \in samples /\ takenMetrics[i] \in Nat /\ reported \in Nat
    BY <1>2 DEF MetricsInv, MetricsTimes
  <2> QED
    BY <2>1, <2>2 DEF SamplesSince
<1>6. /\ IsFiniteSet(later \union since)
      /\ Cardinality(later \union since) <= Cardinality(later) + Cardinality(since)
  <2>1. /\ IsFiniteSet(later \union since)
        /\ Cardinality(later \union since) =
             Cardinality(later) + Cardinality(since) - Cardinality(later \cap since)
    BY <1>4, FS_Union
  <2>2. Cardinality(later \cap since) \in Nat
    BY <1>4, FS_Intersection, FS_CardinalityType
  <2> QED
    BY <1>4, <2>1, <2>2
<1>7. Cardinality(all) <= Cardinality(later \union since)
  BY <1>5, <1>6, FS_Subset
<1>8. Cardinality(later \union since) \in Nat
  BY <1>6, FS_CardinalityType
<1>9. Cardinality(later) < SendLimit
  OBVIOUS
<1> HIDE DEF later, since, all
<1>10. Cardinality(since) > SampleLimit - SendLimit
  BY <1>3, <1>4, <1>6, <1>7, <1>8, <1>9
<1>11. since # {}
  BY <1>4, <1>10, FS_EmptySet
<1>12. takenMetrics[1] <= reported
  <2>1. PICK s \in samples : takenMetrics[1] <= s /\ s <= reported
    BY <1>11 DEF since, SamplesSince
  <2>2. takenMetrics[1] \in Nat /\ s \in Nat /\ reported \in Nat
    BY <1>2 DEF MetricsInv, MetricsTimes
  <2> QED
    BY <2>1, <2>2
<1>13. 1 \in 1 .. Len(CurrentMetrics)
  BY <1>1
<1> QED
  BY <1>1, <1>10, <1>12, <1>13 DEF since, MetricsInv, OldestSent

\* MetricsInv reads none of the other variables.
metricsRead == <<metricsClock, aggMetrics, metricsPhase, takenMetrics, samples, sent, lost, skipped,
                 reported>>

\* Nothing changes that MetricsInv reads but what the updater is about to send.
LEMMA SenderKeepsMetricsInv ==
  ASSUME MetricsInv, UNCHANGED metricsRead,
         \/ senderPhase' # "send"
         \/ UNCHANGED <<senderPhase, sending>>
         \/ sending' = aggMetrics /\ aggMetrics # <<>> /\ metricsPhase = "idle"
  PROVE  MetricsInv'
<1>1. UNCHANGED <<CurrentMetrics, metricsClock, samples, sent, lost, skipped, reported, metricsPhase,
                  aggMetrics, takenMetrics>>
  BY DEF CurrentMetrics, metricsRead
<1>2. MetricsTimes' /\ SamplesAccountedFor'
  BY <1>1 DEF MetricsInv, MetricsTimes, SamplesAccountedFor, TimesOf
<1>3. OldestSent'
  BY <1>1 DEF MetricsInv, OldestSent, SamplesSince
<1>4. WindowsInv'
  <2>1. \A list : IsWindow(list) => IsWindow(list)'
    BY <1>1 DEF IsWindow
  <2>2. CASE senderPhase' # "send"
    BY <1>1, <2>2 DEF MetricsInv, WindowsInv, IsWindow
  <2>3. CASE UNCHANGED <<senderPhase, sending>>
    BY <1>1, <2>3 DEF MetricsInv, WindowsInv, IsWindow
  <2>4. CASE sending' = aggMetrics /\ aggMetrics # <<>> /\ metricsPhase = "idle"
    <3>1. CurrentMetrics = aggMetrics /\ sending' = CurrentMetrics /\ CurrentMetrics' = CurrentMetrics
      BY <1>1, <2>4 DEF CurrentMetrics
    <3>2. IsWindow(CurrentMetrics)' /\ IsWindow(sending)'
      BY <1>1, <3>1 DEF MetricsInv, WindowsInv, IsWindow
    <3>3. CurrentMetrics[1] \in Nat
      BY <2>4, <3>1 DEF MetricsInv, WindowsInv, IsWindow
    <3> QED
      BY <1>1, <2>4, <3>1, <3>2, <3>3 DEF MetricsInv, WindowsInv
  <2> QED
    BY <2>2, <2>3, <2>4
<1> QED
  BY <1>2, <1>3, <1>4 DEF MetricsInv

\* The metrics are lost, or move between Redis and the metrics updater.
LEMMA MoveKeepsMetricsInv ==
  ASSUME MetricsInv, TakeMetrics \/ PutMetrics \/ MetricsFail
  PROVE  MetricsInv'
<1>1. UNCHANGED <<metricsClock, samples, sent, reported, skipped, senderPhase, sending>>
  BY DEF TakeMetrics, PutMetrics, MetricsFail, metricsKeys, metricsHistory
<1>2. MetricsTimes'
  BY <1>1 DEF MetricsInv, MetricsTimes, TakeMetrics, PutMetrics, MetricsFail, metricsKeys
<1>3. \/ CurrentMetrics' = CurrentMetrics /\ UNCHANGED lost
      \/ CurrentMetrics' = <<>> /\ lost' = lost \union (TimesOf(CurrentMetrics) \ sent)
  BY DEF MetricsInv, MetricsTimes, CurrentMetrics, TakeMetrics, PutMetrics, MetricsFail, metricsKeys,
         metricsHistory
<1>4. SamplesAccountedFor <=> samples \subseteq TimesOf(CurrentMetrics) \union sent \union lost \union skipped
  BY DEF MetricsInv, MetricsTimes, SamplesAccountedFor, CurrentMetrics, TimesOf
<1>5. SamplesAccountedFor' <=>
        samples' \subseteq TimesOf(CurrentMetrics') \union sent' \union lost' \union skipped'
  BY <1>2 DEF MetricsTimes, SamplesAccountedFor, CurrentMetrics, TimesOf
<1>6. SamplesAccountedFor'
  BY <1>1, <1>3, <1>4, <1>5 DEF MetricsInv, TimesOf
<1>7. OldestSent'
  BY <1>1, <1>3 DEF MetricsInv, OldestSent, SamplesSince
<1>8. WindowsInv'
  <2>1. senderPhase = "send" => IsWindow(sending)' /\ sending' # <<>>
    BY <1>1 DEF MetricsInv, WindowsInv, IsWindow
  <2>2. CASE CurrentMetrics' = CurrentMetrics
    BY <1>1, <2>1, <2>2 DEF MetricsInv, WindowsInv, IsWindow
  <2>3. CASE CurrentMetrics' = <<>>
    <3>1. IsWindow(<<>>)'
      BY MetricsAssumption DEF IsWindow, IsIncreasing
    <3>2. IsWindow(CurrentMetrics)'
      BY <2>3, <3>1 DEF IsWindow
    <3> QED
      BY <1>1, <2>1, <2>3, <3>2 DEF WindowsInv
  <2> QED
    BY <1>3, <2>2, <2>3
<1> QED
  BY <1>2, <1>6, <1>7, <1>8 DEF MetricsInv

\* Of what the updater sends, the samples that are next to leave are the first.
LEMMA SendKeepsMetricsInv == ASSUME MetricsInv, SendMetrics PROVE MetricsInv'
<1> USE MetricsAssumption
<1>1. /\ UNCHANGED <<metricsClock, aggMetrics, metricsPhase, takenMetrics, sending, samples, lost, skipped>>
      /\ senderPhase = "send" /\ senderPhase' = "sent"
      /\ sent' = sent \union TimesOf(Measurements(sending))
      /\ reported' = LastOf(sending)
  BY DEF SendMetrics, metricsKeys
<1>2. CurrentMetrics' = CurrentMetrics
  BY <1>1 DEF CurrentMetrics
<1>3. /\ sending \in Seq(Nat) /\ sending # <<>> /\ Len(sending) <= SampleLimit
      /\ Len(sending) \in Nat \ {0}
      /\ IsIncreasing(sending)
      /\ \A i \in 1 .. Len(sending) : sending[i] \in samples
      /\ \A s \in samples : sending[1] <= s /\ s <= LastOf(sending) => s \in TimesOf(sending)
  BY <1>1 DEF MetricsInv, WindowsInv, IsWindow
<1>4. /\ samples \subseteq Nat
      /\ LastOf(sending) \in samples /\ LastOf(sending) \in 1 .. metricsClock
  BY <1>3 DEF LastOf, MetricsInv, MetricsTimes
<1>5. \A j \in 1 .. Len(sending) : j <= SendLimit => sending[j] \in sent'
  <2> SUFFICES ASSUME NEW j \in 1 .. Len(sending), j <= SendLimit
               PROVE  sending[j] \in TimesOf(Measurements(sending))
    BY <1>1
  <2> DEFINE n == IF Len(sending) < SendLimit THEN Len(sending) ELSE SendLimit
  <2>1. n \in 1 .. Len(sending) /\ j \in 1 .. n
    BY <1>3
  <2> HIDE DEF n
  <2>2. Len(SubSeq(sending, 1, n)) = n /\ SubSeq(sending, 1, n)[j] = sending[j]
    BY <1>3, <2>1
  <2>3. Measurements(sending) = SubSeq(sending, 1, n)
    BY DEF Measurements, n
  <2> QED
    BY <2>1, <2>2, <2>3 DEF TimesOf
<1>6. SampleLimit <= SendLimit => reported' \in sent'
  BY <1>1, <1>3, <1>5 DEF LastOf
<1>7. ASSUME NEW i \in 1 .. Len(CurrentMetrics),
             CurrentMetrics[i] <= LastOf(sending),
             Cardinality({s \in samples : CurrentMetrics[i] <= s /\ s <= LastOf(sending)})
               > SampleLimit - SendLimit
      PROVE  CurrentMetrics[i] \in sent'
  <2>1. /\ CurrentMetrics \in Seq(Nat) /\ IsIncreasing(CurrentMetrics) /\ CurrentMetrics # <<>>
        /\ CurrentMetrics[i] \in samples
        /\ sending[1] <= CurrentMetrics[1]
    BY <1>1 DEF MetricsInv, WindowsInv, IsWindow
  <2>2. sending[1] <= CurrentMetrics[i]
    BY <1>3, <1>4, <2>1 DEF IsIncreasing
  <2>3. PICK j \in 1 .. Len(sending) : sending[j] = CurrentMetrics[i]
    BY <1>3, <1>7, <2>1, <2>2 DEF TimesOf
  <2> DEFINE since == {s \in samples : sending[j] <= s /\ s <= LastOf(sending)}
             suffix == {sending[k] : k \in j .. Len(sending)}
  <2>4. since = suffix
    <3>1. ASSUME NEW s \in since PROVE s \in suffix
      <4>1. s \in samples /\ sending[j] <= s /\ s <= LastOf(sending) /\ s \in Nat
        BY <1>4
      <4>2. sending[1] <= s
        BY <1>3, <1>4, <2>2, <2>3, <4>1
      <4>3. PICK k \in 1 .. Len(sending) : sending[k] = s
        BY <1>3, <4>1, <4>2 DEF TimesOf
      <4>4. k >= j
        BY <1>3, <4>1, <4>3 DEF IsIncreasing
      <4> QED
        BY <4>3, <4>4
    <3>2. ASSUME NEW k \in j .. Len(sending) PROVE sending[k] \in since
      <4>1. k \in 1 .. Len(sending) /\ sending[k] \in samples /\ sending[k] \in Nat /\ sending[j] \in Nat
        BY <1>3, <1>4
      <4>2. sending[j] <= sending[k] /\ sending[k] <= sending[Len(sending)]
        BY <1>3, <4>1 DEF IsIncreasing
      <4> QED
        BY <4>1, <4>2 DEF LastOf
    <3> QED
      BY <3>1, <3>2
  <2>5. Cardinality(suffix) = Len(sending) - j + 1
    BY <1>3, SuffixCardinality, ZenonT(30)
  <2>6. Cardinality(since) > SampleLimit - SendLimit
    BY <1>7, <2>3
  <2> HIDE DEF since, suffix
  <2>7. Len(sending) - j + 1 > SampleLimit - SendLimit
    BY <2>4, <2>5, <2>6
  <2>8. j <= SendLimit
    BY <1>3, <2>7
  <2> QED
    BY <1>5, <2>3, <2>8
<1>8. OldestSent'
  BY <1>1, <1>2, <1>4, <1>6, <1>7 DEF OldestSent, SamplesSince
<1>9. MetricsTimes'
  BY <1>1, <1>4 DEF MetricsInv, MetricsTimes
<1>10. WindowsInv'
  BY <1>1, <1>2 DEF MetricsInv, WindowsInv, IsWindow
<1>11. SamplesAccountedFor'
  BY <1>1 DEF MetricsInv, SamplesAccountedFor, TimesOf
<1> QED
  BY <1>8, <1>9, <1>10, <1>11 DEF MetricsInv

\* A new sample is the latest there is; one that leaves was sent or is named.
LEMMA SampleKeepsMetricsInv ==
  ASSUME MetricsInv, TakeSample, SendLimit <= SampleLimit
  PROVE  MetricsInv'
<1> USE MetricsAssumption
<1> DEFINE new == AppendSample(takenMetrics)
<1>1. /\ UNCHANGED <<metricsClock, aggMetrics, senderPhase, sending, sent, lost, reported>>
      /\ metricsPhase = "taken" /\ metricsPhase' = "put"
  BY DEF TakeSample, metricsKeys
<1>2. CurrentMetrics = takenMetrics /\ CurrentMetrics' = takenMetrics'
  BY <1>1 DEF CurrentMetrics
<1>3. CASE UNCHANGED <<takenMetrics, samples, skipped>>
  <2>1. MetricsTimes'
    BY <1>1, <1>3 DEF MetricsInv, MetricsTimes
  <2>2. WindowsInv' /\ OldestSent'
    BY <1>1, <1>2, <1>3 DEF MetricsInv, WindowsInv, IsWindow, OldestSent, SamplesSince
  <2>3. SamplesAccountedFor'
    BY <1>1, <1>3 DEF MetricsInv, SamplesAccountedFor, TimesOf
  <2> QED
    BY <2>1, <2>2, <2>3 DEF MetricsInv
<1>4. CASE /\ takenMetrics = <<>> \/ metricsClock >= LastOf(takenMetrics) + UpdateInterval
           /\ takenMetrics' = new
           /\ samples' = samples \union {metricsClock}
           /\ skipped' = IF Len(takenMetrics) = SampleLimit
                            /\ Cardinality({s \in samples : s > reported}) >= SendLimit
                         THEN skipped \union ({takenMetrics[1]} \ sent)
                         ELSE skipped
  <2>1. PICK drop \in {0, 1} :
          /\ drop = 1 <=> Len(takenMetrics) = SampleLimit
          /\ new \in Seq(Nat) /\ Len(new) = Len(takenMetrics) + 1 - drop
          /\ \A i \in 1 .. Len(new) :
               \/ i + drop \in 1 .. Len(takenMetrics) /\ new[i] = takenMetrics[i + drop]
               \/ i + drop = Len(takenMetrics) + 1 /\ new[i] = metricsClock
    BY <1>1, AppendedSample
  <2> HIDE DEF new
  <2>2. /\ takenMetrics \in Seq(Nat) /\ Len(takenMetrics) <= SampleLimit /\ IsIncreasing(takenMetrics)
        /\ \A i \in 1 .. Len(takenMetrics) : takenMetrics[i] \in samples /\ takenMetrics[i] \in Nat
        /\ takenMetrics # <<>> =>
             \A s \in samples :
               /\ s <= LastOf(takenMetrics)
               /\ takenMetrics[1] <= s => s \in TimesOf(takenMetrics)
    BY <1>2 DEF MetricsInv, WindowsInv, IsWindow
  <2>3. /\ metricsClock \in Nat \ {0} /\ samples \subseteq 1 .. metricsClock
        /\ samples' \subseteq 1 .. metricsClock /\ reported \in 0 .. metricsClock
    BY <1>4 DEF MetricsInv, MetricsTimes
  <2>4. \A i \in 1 .. Len(takenMetrics) : takenMetrics[i] < metricsClock
    <3> SUFFICES ASSUME NEW i \in 1 .. Len(takenMetrics) PROVE takenMetrics[i] < metricsClock
      OBVIOUS
    <3>1. takenMetrics # <<>> /\ LastOf(takenMetrics) \in Nat
      BY <2>2 DEF LastOf
    <3>2. takenMetrics[i] <= LastOf(takenMetrics) /\ takenMetrics[i] \in Nat
      BY <2>2, <3>1
    <3> QED
      BY <1>4, <2>3, <3>1, <3>2
  <2>5. /\ Len(new) \in Nat \ {0} /\ Len(new) <= SampleLimit /\ new # <<>>
        /\ Len(new) + drop = Len(takenMetrics) + 1
        /\ new[Len(new)] = metricsClock
    BY <2>1, <2>2
  <2>6. ASSUME NEW i \in 1 .. Len(new)
         PROVE  \/ i + drop \in 1 .. Len(takenMetrics) /\ new[i] = takenMetrics[i + drop]
                \/ i = Len(new) /\ new[i] = metricsClock
    BY <2>1, <2>5
  <2>7. ASSUME NEW k \in 1 .. Len(takenMetrics), k > drop
         PROVE  k - drop \in 1 .. Len(new) /\ new[k - drop] = takenMetrics[k]
    <3>1. k - drop \in 1 .. Len(new) /\ (k - drop) + drop = k
      BY <2>2, <2>5, <2>7
    <3>2. \/ (k - drop) + drop \in 1 .. Len(takenMetrics) /\ new[k - drop] = takenMetrics[(k - drop) + drop]
          \/ (k - drop) + drop = Len(takenMetrics) + 1 /\ new[k - drop] = metricsClock
      BY <2>1, <3>1
    <3> QED
      BY <2>2, <3>1, <3>2
  <2>8. IsIncreasing(new)
    <3> SUFFICES ASSUME NEW i \in 1 .. Len(new), NEW j \in 1 .. Len(new), i < j
                 PROVE  new[i] < new[j]
      BY DEF IsIncreasing
    <3>1. i + drop \in 1 .. Len(takenMetrics) /\ new[i] = takenMetrics[i + drop]
      BY <2>5, <2>6
    <3>2. CASE j + drop \in 1 .. Len(takenMetrics) /\ new[j] = takenMetrics[j + drop]
      <4>1. i + drop < j + drop
        OBVIOUS
      <4> QED
        BY <2>2, <3>1, <3>2, <4>1 DEF IsIncreasing
    <3>3. CASE new[j] = metricsClock
      BY <2>4, <3>1, <3>3
    <3> QED
      BY <2>6, <3>2, <3>3
  <2>9. \A i \in 1 .. Len(new) : new[i] \in samples'
    BY <1>4, <2>2, <2>6
  <2>10. \A s \in samples : new[1] <= s => s \in TimesOf(new)
    <3> SUFFICES ASSUME NEW s \in samples, new[1] <= s PROVE s \in TimesOf(new)
      OBVIOUS
    <3>1. s \in Nat /\ s <= metricsClock
      BY <2>3
    <3>2. CASE s = metricsClock
      BY <2>5, <3>2 DEF TimesOf
    <3>3. CASE s # metricsClock
      <4>1. 1 + drop <= Len(takenMetrics) /\ new[1] = takenMetrics[1 + drop]
        BY <2>1, <2>5, <3>1, <3>3
      <4>2. takenMetrics # <<>> /\ takenMetrics[1] <= takenMetrics[1 + drop]
        BY <2>1, <2>2, <4>1 DEF IsIncreasing
      <4>3. takenMetrics[1] <= s
        BY <2>1, <2>2, <3>1, <4>1, <4>2
      <4>4. PICK k \in 1 .. Len(takenMetrics) : takenMetrics[k] = s
        BY <2>2, <4>2, <4>3 DEF TimesOf
      <4>5. k >= 1 + drop
        BY <2>1, <2>2, <3>1, <4>1, <4>4 DEF IsIncreasing
      <4>6. k - drop \in 1 .. Len(new) /\ new[k - drop] = s
        BY <2>7, <4>4, <4>5
      <4> QED
        BY <4>6 DEF TimesOf
    <3> QED
      BY <3>2, <3>3
  <2>11. IsWindow(takenMetrics)'
    BY <1>4, <2>1, <2>5, <2>8, <2>9, <2>10 DEF IsWindow, TimesOf
  <2>12. \A s \in samples' : s <= LastOf(takenMetrics')
    BY <1>4, <2>3, <2>5 DEF LastOf
  <2>13. senderPhase = "send" => IsWindow(sending)' /\ sending' # <<>> /\ sending'[1] <= takenMetrics'[1]
    <3> SUFFICES ASSUME senderPhase = "send"
                 PROVE  IsWindow(sending)' /\ sending # <<>> /\ sending[1] <= new[1]
      BY <1>1, <1>4
    <3>1. /\ IsWindow(sending) /\ sending # <<>>
          /\ takenMetrics # <<>> => sending[1] <= takenMetrics[1]
      BY <1>2 DEF MetricsInv, WindowsInv
    <3>2. /\ sending[1] \in samples /\ sending[1] \in Nat
          /\ LastOf(sending) \in samples /\ LastOf(sending) <= metricsClock /\ LastOf(sending) \in Nat
      BY <2>3, <3>1 DEF IsWindow, LastOf
    <3>3. \A s \in samples' : s <= LastOf(sending) => s \in samples
      BY <1>4, <2>3, <3>2
    <3>4. IsWindow(sending)'
      BY <1>1, <1>4, <3>1, <3>3 DEF IsWindow, TimesOf
    <3>5. sending[1] <= new[1]
      <4>1. CASE 1 + drop <= Len(takenMetrics)
        <5>1. new[1] = takenMetrics[1 + drop] /\ takenMetrics # <<>>
          BY <2>1, <2>5, <4>1
        <5>2. takenMetrics[1] <= takenMetrics[1 + drop]
          BY <2>2, <4>1, <5>1 DEF IsIncreasing
        <5>3. takenMetrics[1] \in Nat /\ takenMetrics[1 + drop] \in Nat
          BY <2>2, <4>1
        <5> QED
          BY <3>1, <3>2, <5>1, <5>2, <5>3
      <4>2. CASE ~(1 + drop <= Len(takenMetrics))
        BY <2>1, <2>3, <2>5, <3>2, <4>2
      <4> QED
        BY <4>1, <4>2
    <3> QED
      BY <3>1, <3>4, <3>5
  <2>14. WindowsInv'
    BY <1>1, <1>2, <2>11, <2>12, <2>13 DEF WindowsInv, IsWindow
  <2>15. MetricsTimes'
    BY <1>1, <1>4, <2>3 DEF MetricsInv, MetricsTimes
  <2>16. \A s \in samples' : s <= reported => s \in samples
    BY <1>4, <2>3 DEF MetricsInv, OldestSent
  <2>17. OldestSent'
    <3>1. /\ reported # 0 => reported \in samples'
          /\ reported # 0 /\ SampleLimit <= SendLimit => reported \in sent
      BY <1>4 DEF MetricsInv, OldestSent
    <3>2. \A x : SamplesSince(x)' = SamplesSince(x)
      BY <1>1, <1>4, <2>16 DEF SamplesSince
    <3>3. ASSUME NEW i \in 1 .. Len(new), new[i] <= reported,
                 Cardinality(SamplesSince(new[i])) > SampleLimit - SendLimit
          PROVE  new[i] \in sent
      <4>1. CASE i + drop \in 1 .. Len(takenMetrics) /\ new[i] = takenMetrics[i + drop]
        BY <1>2, <3>3, <4>1 DEF MetricsInv, OldestSent
      <4>2. CASE new[i] = metricsClock
        <5>1. reported = metricsClock /\ reported \in samples
          BY <2>3, <3>3, <4>2 DEF MetricsInv, OldestSent
        <5>2. SamplesSince(new[i]) = {metricsClock}
          <6>1. SamplesSince(metricsClock) = {s \in samples : metricsClock <= s /\ s <= metricsClock}
            BY <5>1 DEF SamplesSince
          <6>2. \A s \in samples : s \in Nat /\ s <= metricsClock
            BY <2>3
          <6>3. \A s \in samples : metricsClock <= s /\ s <= metricsClock <=> s = metricsClock
            BY <2>3, <6>2
          <6>4. {s \in samples : metricsClock <= s /\ s <= metricsClock} = {metricsClock}
            BY <5>1, <6>3
          <6> QED
            BY <4>2, <5>1, <6>1, <6>4
        <5>3. Cardinality(SamplesSince(new[i])) = 1
          BY <5>2, FS_Singleton
        <5>4. SampleLimit <= SendLimit
          BY <3>3, <5>3
        <5> QED
          BY <2>3, <3>1, <4>2, <5>1, <5>4
      <4> QED
        BY <2>6, <4>1, <4>2
    <3> QED
      BY <1>1, <1>2, <1>4, <3>1, <3>2, <3>3 DEF OldestSent
  <2>18. takenMetrics # <<>> /\ drop = 1 => takenMetrics[1] \in sent \union skipped'
    <3> SUFFICES ASSUME drop = 1 PROVE takenMetrics[1] \in sent \union skipped'
      OBVIOUS
    <3>1. Len(takenMetrics) = SampleLimit
      BY <2>1
    <3>2. Cardinality({s \in samples : s > reported}) \in Nat
      BY SamplesFinite DEF MetricsInv
    <3>3. CASE Cardinality({s \in samples : s > reported}) >= SendLimit
      BY <1>4, <3>1, <3>3
    <3>4. CASE Cardinality({s \in samples : s > reported}) < SendLimit
      BY <1>1, <3>1, <3>4, DroppedSample
    <3> QED
      BY <3>2, <3>3, <3>4
  <2>19. SamplesAccountedFor'
    <3> SUFFICES ASSUME NEW s \in samples'
                 PROVE  s \in TimesOf(new) \union sent \union lost \union skipped'
      BY <1>1, <1>4 DEF SamplesAccountedFor, TimesOf
    <3>1. CASE s = metricsClock
      BY <2>5, <3>1 DEF TimesOf
    <3>2. CASE s \in sent \union lost \union skipped
      BY <1>4, <3>2
    <3>3. CASE s \in TimesOf(takenMetrics)
      <4>1. PICK k \in 1 .. Len(takenMetrics) : takenMetrics[k] = s
        BY <3>3 DEF TimesOf
      <4>2. CASE k - drop >= 1
        <5>1. k - drop \in 1 .. Len(new) /\ new[k - drop] = s
          BY <2>7, <4>1, <4>2
        <5> QED
          BY <5>1 DEF TimesOf
      <4>3. CASE ~(k - drop >= 1)
        BY <2>1, <2>18, <4>1, <4>3
      <4> QED
        BY <4>2, <4>3
    <3>4. s \in samples => s \in TimesOf(takenMetrics) \union sent \union lost \union skipped
      BY <1>1 DEF MetricsInv, MetricsTimes, SamplesAccountedFor, TimesOf
    <3> QED
      BY <1>4, <3>1, <3>2, <3>3, <3>4
  <2> QED
    BY <2>14, <2>15, <2>17, <2>19 DEF MetricsInv
<1> QED
  BY <1>3, <1>4 DEF TakeSample

\* Every sample is on its way, was sent, or was lost by a named failure, for
\* any limits, clock and failures, as long as no more is sent than is kept
\* (update_agg_metrics keeps twice what send_agg_metrics sends).
THEOREM SamplesAccountedForHolds ==
  ASSUME SendLimit <= SampleLimit
  PROVE  MetricsSpec => []SamplesAccountedFor
<1>1. MetricsInit => MetricsInv
  BY MetricsAssumption
     DEF MetricsInit, MetricsInv, MetricsTimes, WindowsInv, OldestSent, SamplesAccountedFor,
         CurrentMetrics, IsWindow, IsIncreasing
<1>2. MetricsInv /\ [MetricsNext]_metricsVars => MetricsInv'
  <2> SUFFICES ASSUME MetricsInv, [MetricsNext]_metricsVars PROVE MetricsInv'
    OBVIOUS
  <2>1. CASE MetricsTick
    <3>1. MetricsTimes'
      BY <2>1 DEF MetricsTick, MetricsInv, MetricsTimes, metricsKeys, metricsHistory
    <3>2. UNCHANGED <<CurrentMetrics, samples, sent, lost, skipped, reported, aggMetrics, takenMetrics,
                      sending, senderPhase>>
      BY <2>1 DEF MetricsTick, CurrentMetrics, metricsKeys, metricsHistory
    <3>3. WindowsInv' /\ OldestSent'
      BY <3>2 DEF MetricsInv, WindowsInv, IsWindow, OldestSent, SamplesSince
    <3>4. SamplesAccountedFor'
      BY <3>2 DEF MetricsInv, SamplesAccountedFor, TimesOf
    <3> QED
      BY <3>1, <3>3, <3>4 DEF MetricsInv
  <2>2. CASE TakeMetrics \/ PutMetrics \/ MetricsFail
    BY <2>2, MoveKeepsMetricsInv
  <2>3. CASE TakeSample
    BY <2>3, SampleKeepsMetricsInv
  <2>4. CASE SendMetrics
    BY <2>4, SendKeepsMetricsInv
  <2>5. CASE ReadMetrics
    <3>1. metricsPhase = "idle"
      BY <2>5 DEF ReadMetrics, MetricsInv, MetricsTimes
    <3> QED
      BY <2>5, <3>1, SenderKeepsMetricsInv DEF ReadMetrics, metricsRead, metricsKeys, metricsHistory
  <2>6. CASE StoreLastSent \/ SendFails \/ UNCHANGED metricsVars
    BY <2>6, SenderKeepsMetricsInv
       DEF StoreLastSent, SendFails, metricsVars, metricsRead, metricsKeys, metricsHistory
  <2> QED
    BY <2>1, <2>2, <2>3, <2>4, <2>5, <2>6 DEF MetricsNext, MetricsUpdaterStep, SenderStep
<1>3. MetricsInv => SamplesAccountedFor
  BY DEF MetricsInv
<1> QED
  BY <1>1, <1>2, <1>3, PTL DEF MetricsSpec
=============================================================================

--------------------------- MODULE KafkaStreamer ---------------------------
(***************************************************************************)
(* The Kafka streamer daemon (kafka_streamer.py) on one partition of the   *)
(* MinIO audit log: an iteration polls messages for a minute, adds them up *)
(* per namespace, adds the sums to the counters in Redis and commits its   *)
(* position whenever a poll comes back empty and once at the end, and then *)
(* has Kafka delete the records before the last one it polled.             *)
(***************************************************************************)
EXTENDS Naturals, Sequences

CONSTANTS
  Namespaces,
  MaxMessages,         \* bound on the length of the topic
  MaxStreamerFailures  \* bound on failed iterations and lost commits

ASSUME KafkaAssumption ==
  /\ "ignored" \notin Namespaces /\ "poison" \notin Namespaces
  /\ MaxMessages \in Nat /\ MaxStreamerFailures \in Nat

VARIABLES
  topic,             \* the namespace each message counts for, or its kind
  deletedUpTo,       \* the messages Kafka has deleted
  committed,         \* the messages before the group's committed offset
  streamerPhase,     \* where in run_single_iteration the daemon is
  position,          \* the messages before the consumer's position
  latestOffset,      \* latest_partition_offset, 0 when nothing was polled
  aggData,           \* the messages added up in agg_data
  incremented,       \* namespaces whose counters this commit has updated
  isLastCommit,      \* the commit under way is the one after the loop
  streamerFailures,  \* failures so far
  counted,           \* history: how often each message is in the counters
  discarded          \* history: messages to be deleted before they are counted

kafkaVars == <<topic, deletedUpTo, committed>>
iterationVars == <<position, latestOffset, aggData, incremented, isLastCommit>>
streamerVars == <<kafkaVars, streamerPhase, iterationVars, streamerFailures, counted, discarded>>

Messages == 1 .. MaxMessages

\* A message counts for a namespace, for none, or cannot be parsed.
MessageKinds == Namespaces \union {"ignored", "poison"}

IsCountable(m) == m \in DOMAIN topic /\ topic[m] \in Namespaces

StreamerTypeOK ==
  /\ topic \in Seq(MessageKinds) /\ Len(topic) <= MaxMessages
  /\ deletedUpTo \in 0 .. Len(topic)
  /\ committed \in 0 .. Len(topic)
  /\ streamerPhase \in {"idle", "poll", "commit", "delete"}
  /\ position \in 0 .. Len(topic)
  /\ latestOffset \in 0 .. Len(topic)
  /\ aggData \subseteq Messages
  /\ incremented \subseteq Namespaces
  /\ isLastCommit \in BOOLEAN
  /\ streamerFailures \in 0 .. MaxStreamerFailures
  /\ counted \in [Messages -> Nat]
  /\ discarded \subseteq Messages

StreamerInit ==
  /\ topic = <<>>
  /\ deletedUpTo = 0 /\ committed = 0
  /\ streamerPhase = "idle"
  /\ position = 0 /\ latestOffset = 0
  /\ aggData = {} /\ incremented = {} /\ isLastCommit = FALSE
  /\ streamerFailures = 0
  /\ counted = [m \in Messages |-> 0]
  /\ discarded = {}

\* MinIO logs a request.
Produce(kind) ==
  /\ Len(topic) < MaxMessages
  /\ topic' = Append(topic, kind)
  /\ UNCHANGED <<deletedUpTo, committed, streamerPhase, iterationVars, streamerFailures,
                 counted, discarded>>

-----------------------------------------------------------------------------
\* Where a new consumer starts, with a mistake: at the end ("latest").
LatestPosition == Len(topic)

\* At the committed offset, or at the earliest record if that one is deleted
\* ("auto.offset.reset").
StartPosition == IF committed < deletedUpTo THEN deletedUpTo ELSE committed

Subscribe ==
  /\ streamerPhase = "idle"
  /\ streamerPhase' = "poll"
  /\ position' = StartPosition
  /\ UNCHANGED <<kafkaVars, latestOffset, aggData, incremented, isLastCommit,
                 streamerFailures, counted, discarded>>

\* A message that cannot be parsed raises, see StreamerFails.
PollMessage ==
  /\ streamerPhase = "poll"
  /\ position < Len(topic)
  /\ topic[position + 1] # "poison"
  /\ position' = position + 1
  /\ latestOffset' = position + 1
  /\ aggData' = IF IsCountable(position + 1) THEN aggData \union {position + 1} ELSE aggData
  /\ UNCHANGED <<kafkaVars, streamerPhase, incremented, isLastCommit, streamerFailures,
                 counted, discarded>>

\* A poll times out, or the minute is over or the pod to terminate.
StartCommit ==
  /\ streamerPhase = "poll"
  /\ streamerPhase' = "commit"
  /\ isLastCommit' \in BOOLEAN
  /\ UNCHANGED <<kafkaVars, position, latestOffset, aggData, incremented, streamerFailures,
                 counted, discarded>>

MessagesOf(namespace) == {m \in aggData : topic[m] = namespace}

\* update_deployment_api_metrics, its five counters in one.
IncrementCounters(namespace) ==
  /\ streamerPhase = "commit"
  /\ namespace \notin incremented
  /\ MessagesOf(namespace) # {}
  /\ incremented' = incremented \union {namespace}
  /\ counted' = [m \in Messages |-> IF m \in MessagesOf(namespace) THEN counted[m] + 1 ELSE counted[m]]
  /\ UNCHANGED <<kafkaVars, streamerPhase, position, latestOffset, aggData, isLastCommit,
                 streamerFailures, discarded>>

\* What a commit leaves of agg_data, with a mistake and without.
KeptAggData == aggData

ClearedAggData == {}

\* consumer.commit() does not wait for the answer: it may be lost.
CommitPosition ==
  /\ streamerPhase = "commit"
  /\ \A m \in aggData : topic[m] \in incremented
  /\ \/ /\ committed' = position
        /\ UNCHANGED streamerFailures
     \/ /\ streamerFailures < MaxStreamerFailures
        /\ streamerFailures' = streamerFailures + 1
        /\ UNCHANGED committed
  /\ aggData' = ClearedAggData
  /\ incremented' = {}
  /\ streamerPhase' = IF isLastCommit THEN "delete" ELSE "poll"
  /\ isLastCommit' = FALSE
  /\ UNCHANGED <<topic, deletedUpTo, position, latestOffset, counted, discarded>>

\* LastDeleted with a mistake: the records an iteration finds are its own.
LastInTopic == Len(topic)

\* The offset given to kafka-delete-records is the first that stays.
LastDeleted == latestOffset - 1

DeleteRecords ==
  /\ streamerPhase = "delete"
  /\ deletedUpTo' = IF latestOffset > 0 /\ LastDeleted > deletedUpTo THEN LastDeleted ELSE deletedUpTo
  /\ streamerPhase' = "idle"
  /\ position' = 0 /\ latestOffset' = 0
  /\ UNCHANGED <<topic, committed, aggData, incremented, isLastCommit, streamerFailures,
                 counted, discarded>>

\* An exception or the death of the pod ends the iteration and loses what is
\* in memory; a keyboard interrupt does so too, and then deletes the records.
StreamerFails(isInterrupt) ==
  /\ \/ streamerPhase \in {"poll", "commit"}
     \/ streamerPhase = "delete" /\ ~isInterrupt
  /\ streamerFailures < MaxStreamerFailures
  /\ streamerFailures' = streamerFailures + 1
  /\ aggData' = {} /\ incremented' = {} /\ isLastCommit' = FALSE
  /\ IF isInterrupt
     THEN /\ streamerPhase' = "delete"
          /\ discarded' = discarded \union {m \in aggData : topic[m] \notin incremented}
          /\ UNCHANGED <<position, latestOffset>>
     ELSE /\ streamerPhase' = "idle"
          /\ position' = 0 /\ latestOffset' = 0
          /\ UNCHANGED discarded
  /\ UNCHANGED <<kafkaVars, counted>>

\* json.loads raises, in every iteration that comes to the message.
PoisonRaises ==
  /\ streamerPhase = "poll"
  /\ position < Len(topic)
  /\ topic[position + 1] = "poison"
  /\ streamerPhase' = "idle"
  /\ position' = 0 /\ latestOffset' = 0
  /\ aggData' = {} /\ incremented' = {} /\ isLastCommit' = FALSE
  /\ UNCHANGED <<kafkaVars, streamerFailures, counted, discarded>>

StreamerDaemon ==
  \/ Subscribe
  \/ PollMessage
  \/ PoisonRaises
  \/ StartCommit
  \/ \E namespace \in Namespaces : IncrementCounters(namespace)
  \/ CommitPosition
  \/ DeleteRecords

StreamerNext ==
  \/ \E kind \in MessageKinds : Produce(kind)
  \/ StreamerDaemon
  \/ \E isInterrupt \in BOOLEAN : StreamerFails(isInterrupt)

StreamerSpec == StreamerInit /\ [][StreamerNext]_streamerVars

-----------------------------------------------------------------------------
(* Properties *)

\* A request is counted before its message is passed by for good, committed
\* or deleted: however an iteration ends, it is read again.  The exception is
\* an interrupt, which deletes what was polled and not yet committed.
CountedBeforeGone ==
  \A m \in 1 .. Len(topic) :
    m <= committed \/ m <= deletedUpTo =>
      ~IsCountable(m) \/ counted[m] > 0 \/ m \in discarded

\* A request is counted once and at most once more for every failure: a commit
\* whose counters are updated and whose offset is not is all that repeats it.
CountedOncePerFailure == \A m \in Messages : counted[m] <= 1 + streamerFailures

\* Every request is counted in the end, unless an interrupt discarded it or
\* there is a message that cannot be parsed, which stays in the way of those
\* after it for ever, and of those before it while they are polled with it.
RequestsCounted ==
  \A m \in Messages :
    IsCountable(m) ~>
      \/ counted[m] > 0 \/ m \in discarded
      \/ \E p \in DOMAIN topic : p <= MaxMessages /\ topic[p] = "poison"
=============================================================================

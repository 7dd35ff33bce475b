------------------------------ MODULE OutputKafka ------------------------------
(***************************************************************************)
(* src-plugins/logpipe-output-kafka.c: every block becomes a message for    *)
(* librdkafka, which sends it in threads of its own and keeps a report for  *)
(* each until rd_kafka_poll hands it to dr_msg_cb.  Messages and reports    *)
(* share the queue; when it is full WriteOutputPlugin polls and tries       *)
(* again.                                                                   *)
(*                                                                         *)
(* A message is the number of the block it was made of.                     *)
(***************************************************************************)
EXTENDS Worker

CONSTANT QueueMax       \* queue.buffering.max.messages of librdkafka

ASSUME KafkaOutAssumption == QueueMax \in Nat \ {0}

VARIABLES
    kafka,      \* "none", "open" or "destroyed"
    queue,      \* messages that wait for the broker
    reports,    \* delivery reports that wait for rd_kafka_poll
    topic,      \* what the broker has
    undelivered \* messages whose delivery failed or that were dropped at the end

kafkaOutVars == <<kafka, queue, reports, topic, undelivered>>

KafkaOutInit ==
    /\ kafka = "none"
    /\ queue = <<>> /\ reports = 0 /\ topic = <<>> /\ undelivered = {}

Members(s) == {s[i] : i \in DOMAIN s}

KafkaOutTypeOK ==
    /\ kafka \in {"none", "open", "destroyed"}
    /\ Len(queue) + reports \in 0 .. QueueMax
    /\ kafka # "open" => queue = <<>>

Kafka == conf.output = "kafka"

\* InitOutputPluginContext
CreateProducer ==
    /\ Kafka /\ hook = "initOutput"
    /\ \/ Return("ok") /\ kafka' = "open" /\ faults' = faults
       \/ Return("hard") /\ kafka' = kafka /\ Fault
    /\ UNCHANGED <<loopVars, watched, queue, reports, topic, undelivered>>

BeginKafka ==
    /\ Kafka /\ hook = "before"
    /\ Return("ok")
    /\ UNCHANGED <<loopVars, watched, faults, kafkaOutVars>>

QueueFull == Len(queue) + reports = QueueMax

\* rd_kafka_produce, and then rd_kafka_poll.
Produce ==
    /\ Kafka /\ hook = "write" /\ ~QueueFull
    /\ queue' = Append(queue, Len(accepted) + 1)
    /\ reports' = 0
    /\ Return("ok")
    /\ UNCHANGED <<loopVars, watched, faults, kafka, topic, undelivered>>

\* Mutant: RD_KAFKA_RESP_ERR__QUEUE_FULL is tried again without a poll.
PollWhenFull_Skipped == reports

\* rd_kafka_poll( p_plugin_ctx->kafka , 1000 )
PollWhenFull == 0

\* Mutant: a block the queue has no room for counts as written.
RetryWhenFull_GivesUp == Return("ok")

\* goto _GOTO_RETRY_PRODUCE
RetryWhenFull == UNCHANGED <<hook, accepted>>

Full ==
    /\ Kafka /\ hook = "write" /\ QueueFull
    /\ reports' = PollWhenFull
    /\ RetryWhenFull
    /\ UNCHANGED <<loopVars, watched, faults, kafka, queue, topic, undelivered>>

\* Another error of rd_kafka_produce, or a block that cannot be uncompressed.
ProduceFails ==
    /\ Kafka /\ hook = "write"
    /\ Fault
    /\ Return("soft") \/ Return("hard")
    /\ UNCHANGED <<loopVars, watched, kafkaOutVars>>

\* OnOutputPluginIdle
PollIdle ==
    /\ Kafka /\ hook = "idle"
    /\ reports' = 0
    /\ Return("ok")
    /\ UNCHANGED <<loopVars, watched, faults, kafka, queue, topic, undelivered>>

\* CleanOutputPluginContext: rd_kafka_flush gives up after ten seconds, and
\* rd_kafka_destroy drops what is in the queue then.
Destroy ==
    /\ Kafka /\ hook = "cleanOutput"
    /\ \E n \in 0 .. Len(queue) :
        /\ topic' = topic \o SubSeq(queue, 1, n)
        /\ undelivered' = undelivered \cup Members(SubSeq(queue, n + 1, Len(queue)))
    /\ queue' = <<>> /\ reports' = 0
    /\ kafka' = "destroyed"
    /\ Return("ok")
    /\ UNCHANGED <<loopVars, watched, faults>>

\* The threads of librdkafka: the first message is delivered, or its time is
\* over.  dr_msg_cb only logs which.
Deliver ==
    /\ kafka = "open" /\ hook # "exit" /\ queue # <<>>
    /\ queue' = Tail(queue)
    /\ reports' = reports + 1
    /\ \/ topic' = Append(topic, Head(queue)) /\ undelivered' = undelivered /\ faults' = faults
       \/ topic' = topic /\ undelivered' = undelivered \cup {Head(queue)} /\ Fault
    /\ UNCHANGED <<loopVars, watched, hook, accepted, kafka>>

KafkaOutHooks ==
    CreateProducer \/ BeginKafka \/ Produce \/ Full \/ ProduceFails \/ PollIdle \/ Destroy

\* WriteOutputPlugin: a block it returned 0 for is on its way, delivered, or known
\* to be undelivered, whatever the queue was like when it was written: exactly one
\* of them, and the broker gets the messages in the order of the blocks.
KafkaAccounts ==
    /\ \A i, j \in DOMAIN topic : i < j => topic[i] < topic[j]
    /\ \A i \in DOMAIN topic, j \in DOMAIN queue : topic[i] < queue[j]
    /\ (Members(topic) \cup Members(queue)) \cap undelivered = {}
    /\ Kafka => Members(topic) \cup Members(queue) \cup undelivered = 1 .. Len(accepted)
=============================================================================

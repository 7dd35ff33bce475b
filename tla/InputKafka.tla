------------------------------ MODULE InputKafka ------------------------------
(***************************************************************************)
(* src-plugins/logpipe-input-kafka.c: a block input plugin.  Its            *)
(* OnInputPluginEvent never waits for events, so the worker never comes to  *)
(* its event loop and CleanInputPluginContext is never called.              *)
(***************************************************************************)
EXTENDS Worker

CONSTANT MaxPolls       \* bound: polls of the consumer

ASSUME KafkaInAssumption == MaxPolls \in Nat

VARIABLES polls, consumed       \* polls, and messages they returned

kafkaInVars == <<polls, consumed>>

KafkaInInit == polls = 0 /\ consumed = 0

KafkaInTypeOK == polls \in 0 .. MaxPolls /\ consumed \in 0 .. polls

\* InitInputPluginContext: librdkafka or ZooKeeper may refuse.
Subscribe ==
    /\ Blocking /\ hook = "initInput"
    /\ \/ Return("ok") /\ faults' = faults
       \/ Return("hard") /\ Fault
    /\ UNCHANGED <<loopVars, watched, kafkaInVars>>

\* ReadInputPlugin.  A poll that times out passes on an empty block; a message
\* is copied to the block, but returned with LOGPIPE_READ_END_FROM_INPUT, which
\* ends the message of logpipe without passing the block on.
Poll ==
    /\ Blocking /\ hook = "read"
    /\ polls < MaxPolls
    /\ polls' = polls + 1
    /\ \/ consumed' = consumed /\ Return("ok")
       \/ consumed' = consumed + 1 /\ Return("end")
    /\ block' = <<>>
    /\ UNCHANGED <<conf, batch, watched, quitPipe, quit_flag, faults>>

KafkaInHooks == Subscribe \/ Poll
=============================================================================

-------------------------------- MODULE Plugins --------------------------------
(***************************************************************************)
(* The worker with the plugins for commands, Kafka, files and ingeek peers: *)
(* each behaviour is one of the configurations of Confs from the start of   *)
(* a worker to its end.                                                     *)
(***************************************************************************)
EXTENDS InputExec, InputKafka, OutputFile, OutputKafka, OutputIngeek

\* PARSE_BUFFER_SIZE is twice LOGPIPE_OUTPUT_BUFSIZE, and a block is no longer than
\* LOGPIPE_INPUT_BUFSIZE.
ASSUME PluginsAssumption == BlockSize <= ParseSize

inputVars == <<execVars, kafkaInVars>>
outputVars == <<fileVars, kafkaOutVars, ingeekVars>>
vars == <<workerVars, inputVars, outputVars>>

Init ==
    /\ WorkerInit
    /\ ExecInit /\ KafkaInInit
    /\ FileInit /\ KafkaOutInit /\ IngeekInit

Ready == ChildEvents \cup PeerEvents

\* The event loop, and the callbacks of the events.
Loop ==
    /\ \/ EventLoop(Ready)
       \/ HandleEvent({Child}, "before")
       \/ HandleEvent({Sock(c) : c \in 1 .. conns}, "onOutput")
    /\ UNCHANGED <<inputVars, outputVars>>

InputHooks ==
    \/ ExecHooks /\ UNCHANGED <<kafkaInVars, outputVars>>
    \/ KafkaInHooks /\ UNCHANGED <<execVars, outputVars>>

OutputHooks ==
    \/ FileHooks /\ UNCHANGED <<inputVars, kafkaOutVars, ingeekVars>>
    \/ KafkaOutHooks /\ UNCHANGED <<inputVars, fileVars, ingeekVars>>
    \/ IngeekHooks /\ UNCHANGED <<inputVars, fileVars, kafkaOutVars>>

\* What the worker does by itself.
Work == Loop \/ InputHooks \/ OutputHooks

Outside ==
    \/ PipeCloses /\ UNCHANGED <<inputVars, outputVars>>
    \/ Command /\ UNCHANGED <<workerVars, kafkaInVars, outputVars>>
    \/ Others /\ UNCHANGED <<inputVars, kafkaOutVars, ingeekVars>>
    \/ PeerCloses /\ UNCHANGED <<inputVars, fileVars, kafkaOutVars>>

\* librdkafka works through its queue, and time passes.
Delivery == Deliver /\ UNCHANGED <<inputVars, fileVars, ingeekVars>>
Enabled == Enable /\ UNCHANGED <<inputVars, fileVars, kafkaOutVars>>

Next == Work \/ Outside \/ Delivery \/ Enabled

\* The worker runs; librdkafka delivers a message or gives it up after
\* message.timeout.ms; disable_timeout ends; and of peers that are tried again and
\* again one accepts.
Fairness ==
    /\ WF_vars(Work) /\ WF_vars(Delivery) /\ WF_vars(Enabled)
    /\ SF_vars(Accepted /\ UNCHANGED <<inputVars, fileVars, kafkaOutVars>>)

Spec == Init /\ [][Next]_vars /\ Fairness

-----------------------------------------------------------------------------
(* Properties *)

\* The type invariant.
TypeOK ==
    /\ WorkerTypeOK /\ ExecTypeOK /\ KafkaInTypeOK
    /\ FileTypeOK /\ KafkaOutTypeOK /\ IngeekTypeOK

\* The quit pipe: a worker with an event loop ends after the monitor has closed it,
\* in whatever callback it is then, with a full queue or without any peer.
QuitHeard == quitPipe /\ ~Blocking ~> hook = "exit"
=============================================================================

----------------------------- MODULE Plugins_proofs -----------------------------
(***************************************************************************)
(* What holds of one worker with any of the plugins, for texts, blocks,     *)
(* queues, files, peers and faults of any number and size.                  *)
(***************************************************************************)
EXTENDS Plugins, FiniteSetTheorems, SequenceTheorems, WellFoundedInduction, TLAPS

-----------------------------------------------------------------------------
(* The inductive invariant *)

HookValues == Hooks \cup {"wait", "batch", "exit"}

WorkerOK ==
    /\ WorkerTypeOK
    /\ QuitEvent \in batch => quitPipe
    /\ block \in Seq(Nat) /\ accepted \in Seq(Seq(Nat))

InputOK == ExecTypeOK /\ KafkaInTypeOK

\* Only output-ingeek does several things in one WriteOutputPlugin.
StepOK == step # "idle" => hook = "write" /\ Ingeek

-----------------------------------------------------------------------------
(* The worker *)

LEMMA OnwardOK ==
    ASSUME NEW h \in Hooks
    PROVE  Onward[h] \in HookValues /\ (Onward[h] = "write" => h = "read")
BY DEF Hooks, HookValues, Onward

\* A callback returns.
LEMMA ReturnOK ==
    ASSUME NEW r, hook \in Hooks, Return(r),
           block \in Seq(Nat), accepted \in Seq(Seq(Nat))
    PROVE  /\ hook' \in HookValues
           /\ hook' = "write" => hook = "read" /\ r = "ok"
           /\ accepted' \in Seq(Seq(Nat))
           /\ hook # "write" \/ r # "ok" => accepted' = accepted
           /\ hook = "write" /\ r = "ok" => accepted' = Append(accepted, block)
<1>1. Onward[hook] \in HookValues /\ (Onward[hook] = "write" => hook = "read")
  BY OnwardOK
<1>2. hook' \in HookValues /\ (hook' = "write" => hook = "read" /\ r = "ok")
  BY <1>1 DEF Return, HookValues, Hooks, MessageEnds
<1> QED
  BY <1>2 DEF Return

\* A callback that leaves the event loop alone.
LEMMA CallbackOK ==
    ASSUME WorkerOK, UNCHANGED loopVars, faults' = faults \/ Fault,
           \/ hook \in Hooks /\ \E r : Return(r)
           \/ UNCHANGED <<hook, accepted>>
           \/ hook' = "exit" /\ accepted' = accepted
    PROVE  WorkerOK'
<1>1. faults' \in 0 .. MaxFaults
  BY WorkerAssumption DEF WorkerOK, WorkerTypeOK, Fault
<1>2. hook' \in HookValues /\ accepted' \in Seq(Seq(Nat))
  <2>1. CASE hook \in Hooks /\ \E r : Return(r)
    BY <2>1, ReturnOK DEF WorkerOK
  <2> QED
    BY <2>1 DEF WorkerOK, WorkerTypeOK, HookValues
<1> QED
  BY <1>1, <1>2 DEF WorkerOK, WorkerTypeOK, HookValues, loopVars

LEMMA ReadyOK == QuitEvent \notin Ready
BY DEF Ready, ChildEvents, PeerEvents, QuitEvent, Event, Child, Sock

LEMMA LoopOK == WorkerOK /\ Loop => WorkerOK'
<1> SUFFICES ASSUME WorkerOK, Loop PROVE WorkerOK'
  OBVIOUS
<1> USE DEF WorkerOK, WorkerTypeOK
<1>1. CASE EpollWait(Ready)
  BY <1>1, ReadyOK DEF EpollWait
<1>2. CASE Timeout(Ready)
  BY <1>2 DEF Timeout, Hooks
<1>3. CASE HandleQuit
  BY <1>3 DEF HandleQuit
<1>4. CASE BatchEnds
  BY <1>4 DEF BatchEnds, AfterBatch, Hooks
<1>5. CASE \E fds : HandleEvent(fds, "before") \/ HandleEvent(fds, "onOutput")
  <2>1. PICK fds : HandleEvent(fds, "before") \/ HandleEvent(fds, "onOutput")
    BY <1>5
  <2>2. hook' \in {"before", "onOutput", "exit"} /\ batch' \subseteq batch
        /\ UNCHANGED <<conf, quitPipe, quit_flag, block, accepted, faults>>
    BY <2>1 DEF HandleEvent
  <2> QED
    BY <2>2 DEF Hooks
<1> QED
  BY <1>1, <1>2, <1>3, <1>4, <1>5 DEF Loop, EventLoop

LEMMA InputHooksOK == WorkerOK /\ InputOK /\ (ExecHooks \/ KafkaInHooks) => WorkerOK'
<1> SUFFICES ASSUME WorkerOK, InputOK, ExecHooks \/ KafkaInHooks PROVE WorkerOK'
  OBVIOUS
<1>1. CASE StartCommand \/ CleanCommand \/ Subscribe
  BY <1>1, CallbackOK DEF StartCommand, CleanCommand, Subscribe, Hooks
<1>2. CASE ReadCommand
  <2>1. block' \in Seq(Nat)
    <3>1. read \in Nat /\ Available \in Nat
      BY WorkerAssumption, ExecAssumption DEF InputOK, ExecTypeOK, Available
    <3>2. \A i \in 1 .. Available : read + i \in Nat
      BY <3>1
    <3> QED
      BY <1>2, <3>1, <3>2 DEF ReadCommand
  <2>2. hook' \in HookValues /\ accepted' \in Seq(Seq(Nat))
    BY <1>2, ReturnOK DEF ReadCommand, WorkerOK, Hooks
  <2>3. faults' \in 0 .. MaxFaults
    BY <1>2, WorkerAssumption DEF ReadCommand, WorkerOK, WorkerTypeOK, Fault
  <2> QED
    BY <1>2, <2>1, <2>2, <2>3 DEF ReadCommand, WorkerOK, WorkerTypeOK, HookValues
<1>3. CASE Poll
  <2>1. block' \in Seq(Nat)
    BY <1>3 DEF Poll
  <2>2. hook' \in HookValues /\ accepted' \in Seq(Seq(Nat))
    BY <1>3, ReturnOK DEF Poll, WorkerOK, Hooks
  <2> QED
    BY <1>3, <2>1, <2>2 DEF Poll, WorkerOK, WorkerTypeOK, HookValues
<1> QED
  BY <1>1, <1>2, <1>3 DEF ExecHooks, KafkaInHooks

LEMMA FileHooksOK == WorkerOK /\ (FileHooks \/ Others) => WorkerOK'
<1> SUFFICES ASSUME WorkerOK, FileHooks \/ Others PROVE WorkerOK'
  OBVIOUS
<1>1. CASE NoHook \/ UseCached \/ OpenAnew \/ OpenFails
  BY <1>1, CallbackOK DEF NoHook, UseCached, OpenAnew, OpenFails, Hooks
<1>2. CASE WriteBlock \/ WriteAndRotate \/ RotateFails
  BY <1>2, CallbackOK DEF WriteBlock, WriteAndRotate, RotateFails, Writing, Hooks
<1>3. CASE WriteFails \/ UncompressFails \/ WriteFreed
  BY <1>3, CallbackOK DEF WriteFails, UncompressFails, WriteFreed, Writing, Hooks
<1>4. CASE Others
  BY <1>4, CallbackOK DEF Others, MoveAway, CreateEmpty
<1> QED
  BY <1>1, <1>2, <1>3, <1>4 DEF FileHooks

LEMMA KafkaOutHooksOK == WorkerOK /\ (KafkaOutHooks \/ Deliver) => WorkerOK'
<1> SUFFICES ASSUME WorkerOK, KafkaOutHooks \/ Deliver PROVE WorkerOK'
  OBVIOUS
<1>1. CASE CreateProducer \/ BeginKafka \/ PollIdle \/ Destroy
  BY <1>1, CallbackOK DEF CreateProducer, BeginKafka, PollIdle, Destroy, Hooks
<1>2. CASE Produce \/ ProduceFails \/ Full \/ Deliver
  BY <1>2, CallbackOK DEF Produce, ProduceFails, Full, RetryWhenFull, Deliver, Hooks
<1> QED
  BY <1>1, <1>2 DEF KafkaOutHooks

LEMMA IngeekHooksOK ==
    WorkerOK /\ StepOK /\ (IngeekHooks \/ PeerCloses \/ Enable) => WorkerOK'
<1> SUFFICES ASSUME WorkerOK, StepOK, IngeekHooks \/ PeerCloses \/ Enable PROVE WorkerOK'
  OBVIOUS
<1>1. CASE ConnectAll \/ BeginIngeek \/ CloseGone \/ CleanIngeek
  BY <1>1, CallbackOK DEF ConnectAll, BeginIngeek, CloseGone, CleanIngeek, Hooks
<1>6. CASE EndWrite
  BY <1>6, CallbackOK DEF EndWrite, InLines, StepOK, Hooks
<1>2. CASE Accepted \/ NoSocket \/ SendFails \/ PeerCloses
  BY <1>2, CallbackOK DEF Accepted, NoSocket, SendFails, PeerCloses, Seeking, Sending, Hooks
<1>3. UNCHANGED workerVars => WorkerOK'
  BY DEF workerVars, WorkerOK, WorkerTypeOK
<1>4. CASE PassOver \/ Take \/ Refused \/ Combine \/ ForceLine
  BY <1>4, <1>3 DEF PassOver, Take, Refused, Combine, ForceLine
<1>5. CASE Replace \/ SendLine \/ SendBatch \/ Enable
  BY <1>5, <1>3 DEF Replace, SendLine, SendBatch, Enable
<1> QED
  BY <1>1, <1>2, <1>4, <1>5, <1>6 DEF IngeekHooks

LEMMA WorkerStep == WorkerOK /\ InputOK /\ StepOK /\ [Next]_vars => WorkerOK'
<1> SUFFICES ASSUME WorkerOK, InputOK, StepOK, [Next]_vars PROVE WorkerOK'
  OBVIOUS
<1>1. CASE Work
  BY <1>1, LoopOK, InputHooksOK, FileHooksOK, KafkaOutHooksOK, IngeekHooksOK
     DEF Work, InputHooks, OutputHooks
<1>2. CASE Outside
  <2>1. CASE PipeCloses
    BY <2>1 DEF PipeCloses, WorkerOK, WorkerTypeOK
  <2>2. UNCHANGED workerVars => WorkerOK'
    BY DEF workerVars, WorkerOK, WorkerTypeOK
  <2> QED
    BY <1>2, <2>1, <2>2, FileHooksOK, IngeekHooksOK DEF Outside
<1>3. CASE Delivery \/ Enabled
  BY <1>3, KafkaOutHooksOK, IngeekHooksOK DEF Delivery, Enabled
<1>4. CASE UNCHANGED vars
  BY <1>4 DEF vars, workerVars, WorkerOK, WorkerTypeOK
<1> QED
  BY <1>1, <1>2, <1>3, <1>4 DEF Next

LEMMA InputStep == WorkerOK /\ InputOK /\ [Next]_vars => InputOK'
<1> SUFFICES ASSUME WorkerOK, InputOK, [Next]_vars PROVE InputOK'
  OBVIOUS
<1> USE WorkerAssumption, ExecAssumption, KafkaInAssumption DEF InputOK, ExecTypeOK, KafkaInTypeOK
<1>1. CASE ReadCommand /\ UNCHANGED kafkaInVars
  BY <1>1 DEF ReadCommand, Available, kafkaInVars
<1>2. CASE Poll /\ UNCHANGED execVars
  BY <1>2 DEF Poll, execVars
<1>3. CASE Command /\ UNCHANGED kafkaInVars
  <2>1. CASE CommandWrites
    <3>1. written' \in written + 1 .. TextLen
      BY <2>1 DEF CommandWrites
    <3>2. written' \in 0 .. TextLen /\ read \in 0 .. written'
      BY <3>1
    <3> QED
      BY <1>3, <2>1, <3>2 DEF CommandWrites, kafkaInVars
  <2>2. CASE CommandEnds
    BY <1>3, <2>2 DEF CommandEnds, kafkaInVars
  <2> QED
    BY <1>3, <2>1, <2>2 DEF Command
<1>4. CASE UNCHANGED inputVars
  BY <1>4 DEF inputVars, execVars, kafkaInVars
<1>5. CASE InputHooks
  BY <1>5, <1>1, <1>2, <1>4
     DEF InputHooks, ExecHooks, KafkaInHooks, StartCommand, CleanCommand, Subscribe, inputVars
<1>6. CASE Loop \/ OutputHooks \/ Outside \/ Delivery \/ Enabled \/ UNCHANGED vars
  BY <1>6, <1>3, <1>4 DEF Loop, OutputHooks, Outside, Delivery, Enabled, vars
<1> QED
  BY <1>5, <1>6 DEF Next, Work

LEMMA LoopElsewhere == Loop \/ InputHooks => hook # "write"
BY DEF Loop, EventLoop, EpollWait, Timeout, HandleQuit, BatchEnds, HandleEvent, InputHooks,
       ExecHooks, StartCommand, ReadCommand, CleanCommand, KafkaInHooks, Subscribe, Poll

\* The configuration never changes.
LEMMA ConfConstant == [Next]_vars => conf' = conf
<1> SUFFICES ASSUME [Next]_vars PROVE conf' = conf
  OBVIOUS
<1> USE DEF loopVars, workerVars
<1>1. CASE Loop \/ InputHooks
  BY <1>1 DEF Loop, EventLoop, EpollWait, Timeout, HandleQuit, BatchEnds, HandleEvent, InputHooks,
       ExecHooks, StartCommand, ReadCommand, CleanCommand, KafkaInHooks, Subscribe, Poll
<1>2. CASE FileHooks \/ Others
  BY <1>2 DEF FileHooks, NoHook, UseCached, OpenAnew, OpenFails, WriteBlock, WriteAndRotate,
       RotateFails, WriteFails, UncompressFails, WriteFreed, Others, MoveAway, CreateEmpty
<1>3. CASE KafkaOutHooks \/ Deliver
  BY <1>3 DEF KafkaOutHooks, CreateProducer, BeginKafka, Produce, Full, ProduceFails, PollIdle,
       Destroy, Deliver
<1>4. CASE IngeekHooks \/ PeerCloses \/ Enable
  BY <1>4 DEF IngeekHooks, ConnectAll, PassOver, Take, Refused, Accepted, NoSocket, BeginIngeek,
       Combine, ForceLine, Replace, SendLine, EndWrite, SendBatch, SendFails, CloseGone,
       CleanIngeek, PeerCloses, Enable
<1>5. CASE PipeCloses \/ UNCHANGED workerVars
  BY <1>5 DEF PipeCloses
<1> QED
  BY <1>1, <1>2, <1>3, <1>4, <1>5
     DEF Next, Work, OutputHooks, Outside, Delivery, Enabled, vars

LEMMA FileHooksFile == FileHooks \/ Others => File
BY DEF FileHooks, NoHook, UseCached, OpenAnew, OpenFails, WriteBlock, WriteAndRotate,
       RotateFails, WriteFails, UncompressFails, WriteFreed, Others, MoveAway, CreateEmpty, Writing

LEMMA KafkaOutHooksKafka == KafkaOutHooks => Kafka
BY DEF KafkaOutHooks, CreateProducer, BeginKafka, Produce, Full, ProduceFails, PollIdle, Destroy

\* Only in a callback of output-ingeek does "step" change, and only in
\* WriteOutputPlugin is it not "idle".
LEMMA StepStep == WorkerOK /\ StepOK /\ [Next]_vars => StepOK'
<1> SUFFICES ASSUME WorkerOK, StepOK, [Next]_vars PROVE StepOK'
  OBVIOUS
<1>0. Ingeek' = Ingeek
  BY ConfConstant DEF Ingeek
<1>1. CASE Ingeek /\ hook = "write" /\ hook' = hook
  BY <1>0, <1>1 DEF StepOK
<1>2. CASE step' = "idle"
  BY <1>2 DEF StepOK
<1>3. CASE UNCHANGED step /\ step # "idle"
  <2>1. hook = "write" /\ Ingeek /\ ~File /\ ~Kafka
    BY <1>3 DEF StepOK, Ingeek, File, Kafka
  <2>2. ~Loop /\ ~InputHooks /\ ~FileHooks /\ ~Others /\ ~KafkaOutHooks
    BY <2>1, LoopElsewhere, FileHooksFile, KafkaOutHooksKafka
  <2>3. CASE IngeekHooks
    BY <1>3, <2>1, <2>3, <1>0 DEF IngeekHooks, ConnectAll, PassOver, Take, Refused, Accepted, NoSocket, BeginIngeek,
       Combine, ForceLine, Replace, SendLine, EndWrite, SendBatch, SendFails, CloseGone,
       CleanIngeek, StepOK, workerVars
  <2>4. CASE ~IngeekHooks
    <3>1. UNCHANGED hook
      BY <2>2, <2>4 DEF Next, Work, OutputHooks, Outside, Delivery, Enabled, vars, workerVars,
           PipeCloses, PeerCloses, Deliver, Enable
    <3> QED
      BY <3>1, <1>0, <1>3, <2>1 DEF StepOK
  <2> QED
    BY <2>3, <2>4
<1>4. CASE step' # step
  <2>1. IngeekHooks
    BY <1>4 DEF Next, Work, Loop, InputHooks, OutputHooks, Outside, Delivery, Enabled, vars,
         outputVars, ingeekVars, PeerCloses, Enable
  <2>2. CASE Combine \/ ForceLine
    BY <2>2, <1>1 DEF Combine, ForceLine, workerVars
  <2>3. CASE SendLine
    BY <2>3, <1>1 DEF SendLine, InLines, StepOK, workerVars
  <2>4. CASE SendBatch \/ SendFails \/ Take \/ Accepted
    BY <2>4, <1>1, <1>2 DEF SendBatch, SendFails, Sending, Take, Accepted, Seeking, workerVars
  <2>5. CASE EndWrite \/ NoSocket
    BY <2>5, <1>2 DEF EndWrite, NoSocket
  <2> QED
    BY <1>4, <2>1, <2>2, <2>3, <2>4, <2>5 DEF IngeekHooks, ConnectAll, PassOver, Refused, BeginIngeek, Replace,
       CloseGone, CleanIngeek, ingeekVars
<1> QED
  BY <1>2, <1>3, <1>4

-----------------------------------------------------------------------------
(* The producer of output-kafka *)

Ascending(s) == \A i, j \in DOMAIN s : i < j => s[i] < s[j]

KafkaOK ==
    /\ queue \in Seq(Nat) /\ topic \in Seq(Nat) /\ undelivered \subseteq Nat /\ reports \in Nat
    /\ KafkaOutTypeOK
    /\ kafka # "none" => Kafka
    /\ Kafka /\ hook \notin {"initOutput", "exit"} => kafka = "open"
    /\ Ascending(queue)
    /\ KafkaAccounts

Below(s, t) == \A i \in DOMAIN s, j \in DOMAIN t : s[i] < t[j]

LEMMA AscendingAppend ==
    ASSUME NEW s \in Seq(Nat), NEW e \in Nat, Ascending(s), \A i \in DOMAIN s : s[i] < e
    PROVE  Ascending(Append(s, e))
<1>1. /\ Len(s) \in Nat /\ DOMAIN s = 1 .. Len(s) /\ DOMAIN Append(s, e) = 1 .. Len(s) + 1
      /\ \A i \in 1 .. Len(s) : Append(s, e)[i] = s[i] /\ s[i] \in Nat
      /\ Append(s, e)[Len(s) + 1] = e
  OBVIOUS
<1>2. SUFFICES ASSUME NEW i \in 1 .. Len(s) + 1, NEW j \in 1 .. Len(s) + 1, i < j
               PROVE  Append(s, e)[i] < Append(s, e)[j]
  BY <1>1 DEF Ascending
<1>3. i \in 1 .. Len(s) /\ (j \in 1 .. Len(s) \/ j = Len(s) + 1)
  BY <1>1, <1>2
<1>4. CASE j \in 1 .. Len(s)
  BY <1>1, <1>2, <1>3, <1>4 DEF Ascending
<1>5. CASE j = Len(s) + 1
  BY <1>1, <1>3, <1>5
<1> QED
  BY <1>3, <1>4, <1>5

LEMMA AscendingTail ==
    ASSUME NEW s \in Seq(Nat), s # <<>>, Ascending(s)
    PROVE  /\ Head(s) \in Nat /\ Tail(s) \in Seq(Nat) /\ Len(Tail(s)) = Len(s) - 1
           /\ Ascending(Tail(s))
           /\ \A i \in DOMAIN Tail(s) : Head(s) < Tail(s)[i]
<1>1. /\ Len(s) \in Nat \ {0} /\ DOMAIN s = 1 .. Len(s) /\ DOMAIN Tail(s) = 1 .. Len(s) - 1
      /\ Head(s) = s[1] /\ Head(s) \in Nat /\ Tail(s) \in Seq(Nat) /\ Len(Tail(s)) = Len(s) - 1
      /\ \A i \in 1 .. Len(s) - 1 : Tail(s)[i] = s[i + 1]
  OBVIOUS
<1>2. \A i, j \in 1 .. Len(s) - 1 : i < j => Tail(s)[i] < Tail(s)[j]
  <2>1. SUFFICES ASSUME NEW i \in 1 .. Len(s) - 1, NEW j \in 1 .. Len(s) - 1, i < j
                 PROVE  s[i + 1] < s[j + 1]
    BY <1>1
  <2>2. i + 1 \in 1 .. Len(s) /\ j + 1 \in 1 .. Len(s) /\ i + 1 < j + 1
    BY <1>1, <2>1
  <2> QED
    BY <1>1, <2>2 DEF Ascending
<1>3. \A i \in 1 .. Len(s) - 1 : Head(s) < Tail(s)[i]
  <2>1. \A i \in 1 .. Len(s) - 1 : 1 \in 1 .. Len(s) /\ i + 1 \in 1 .. Len(s) /\ 1 < i + 1
    BY <1>1
  <2> QED
    BY <1>1, <2>1 DEF Ascending
<1> QED
  BY <1>1, <1>2, <1>3 DEF Ascending

LEMMA AppendElements ==
    ASSUME NEW q \in Seq(Nat), NEW e \in Nat, NEW i \in DOMAIN Append(q, e)
    PROVE  Append(q, e)[i] = e \/ (i \in DOMAIN q /\ Append(q, e)[i] = q[i])
<1>1. /\ Len(q) \in Nat /\ DOMAIN q = 1 .. Len(q) /\ i \in 1 .. Len(q) + 1
      /\ \A j \in 1 .. Len(q) : Append(q, e)[j] = q[j]
      /\ Append(q, e)[Len(q) + 1] = e
  OBVIOUS
<1>2. i \in 1 .. Len(q) \/ i = Len(q) + 1
  BY <1>1
<1> QED
  BY <1>1, <1>2

\* A number between the members of two sequences may be appended to either.
LEMMA BelowAppend ==
    ASSUME NEW s \in Seq(Nat), NEW t \in Seq(Nat), NEW e \in Nat, Below(s, t)
    PROVE  /\ (\A i \in DOMAIN s : s[i] < e) => Below(s, Append(t, e))
           /\ (\A j \in DOMAIN t : e < t[j]) => Below(Append(s, e), t)
<1>1. ASSUME \A i \in DOMAIN s : s[i] < e, NEW i \in DOMAIN s, NEW j \in DOMAIN Append(t, e)
      PROVE  s[i] < Append(t, e)[j]
  <2>1. Append(t, e)[j] = e \/ (j \in DOMAIN t /\ Append(t, e)[j] = t[j])
    BY AppendElements
  <2> QED
    BY <1>1, <2>1 DEF Below
<1>2. ASSUME \A j \in DOMAIN t : e < t[j], NEW i \in DOMAIN Append(s, e), NEW j \in DOMAIN t
      PROVE  Append(s, e)[i] < t[j]
  <2>1. Append(s, e)[i] = e \/ (i \in DOMAIN s /\ Append(s, e)[i] = s[i])
    BY AppendElements
  <2> QED
    BY <1>2, <2>1 DEF Below
<1> QED
  BY <1>1, <1>2 DEF Below

LEMMA MembersAppend ==
    ASSUME NEW s \in Seq(Nat), NEW e \in Nat
    PROVE  Members(Append(s, e)) = Members(s) \cup {e}
<1>1. /\ DOMAIN Append(s, e) = 1 .. Len(s) + 1 /\ DOMAIN s = 1 .. Len(s)
      /\ \A i \in 1 .. Len(s) : Append(s, e)[i] = s[i]
      /\ Append(s, e)[Len(s) + 1] = e
      /\ Len(s) \in Nat
  OBVIOUS
<1>2. \A i \in 1 .. Len(s) + 1 : i \in 1 .. Len(s) \/ i = Len(s) + 1
  BY <1>1
<1>3. 1 .. Len(s) \subseteq 1 .. Len(s) + 1 /\ Len(s) + 1 \in 1 .. Len(s) + 1
  BY <1>1
<1> QED
  BY <1>1, <1>2, <1>3, Zenon DEF Members

LEMMA MembersSubSeq ==
    ASSUME NEW s \in Seq(Nat), NEW m \in 1 .. Len(s) + 1, NEW n \in 0 .. Len(s)
    PROVE  Members(SubSeq(s, m, n)) = {s[i] : i \in m .. n}
<1>1. Len(s) \in Nat
  OBVIOUS
<1>2. CASE n < m
  <2>1. SubSeq(s, m, n) = <<>> /\ m .. n = {}
    BY <1>1, <1>2
  <2> QED
    BY <2>1 DEF Members
<1>3. CASE m <= n
  <2>1. DOMAIN SubSeq(s, m, n) = 1 .. n - m + 1
        /\ \A i \in 1 .. n - m + 1 : SubSeq(s, m, n)[i] = s[m + i - 1]
    BY <1>1, <1>3
  <2>2. \A i \in 1 .. n - m + 1 : m + i - 1 \in m .. n
    BY <1>1, <1>3
  <2>3. \A k \in m .. n : k - m + 1 \in 1 .. n - m + 1 /\ m + (k - m + 1) - 1 = k
    BY <1>1, <1>3
  <2>4. \A k \in m .. n : s[k] \in Members(SubSeq(s, m, n))
    <3>1. TAKE k \in m .. n
    <3>2. SubSeq(s, m, n)[k - m + 1] = s[k]
      BY <2>1, <2>3
    <3> QED
      BY <2>1, <2>3, <3>2, Zenon DEF Members
  <2>5. \A i \in 1 .. n - m + 1 : SubSeq(s, m, n)[i] \in {s[k] : k \in m .. n}
    BY <2>1, <2>2, Zenon
  <2>6. Members(SubSeq(s, m, n)) \subseteq {s[k] : k \in m .. n}
    BY <2>1, <2>5, Zenon DEF Members
  <2> QED
    BY <2>4, <2>6, Zenon
<1> QED
  BY <1>1, <1>2, <1>3

LEMMA MembersTail ==
    ASSUME NEW s \in Seq(Nat), s # <<>>
    PROVE  Members(s) = {Head(s)} \cup Members(Tail(s))
<1>1. /\ Len(s) \in Nat \ {0} /\ DOMAIN s = 1 .. Len(s) /\ DOMAIN Tail(s) = 1 .. Len(s) - 1
      /\ Head(s) = s[1]
      /\ \A i \in 1 .. Len(s) - 1 : Tail(s)[i] = s[i + 1]
  OBVIOUS
<1>2. \A i \in DOMAIN s : s[i] = Head(s) \/ \E j \in DOMAIN Tail(s) : Tail(s)[j] = s[i]
  <2>1. TAKE i \in DOMAIN s
  <2>2. i = 1 \/ (i - 1 \in DOMAIN Tail(s) /\ (i - 1) + 1 = i)
    BY <1>1
  <2> QED
    BY <1>1, <2>2
<1>3. \A i \in DOMAIN Tail(s) : i + 1 \in DOMAIN s /\ Tail(s)[i] = s[i + 1]
  BY <1>1
<1>4. 1 \in DOMAIN s
  BY <1>1
<1>5. Members(s) \subseteq {Head(s)} \cup Members(Tail(s))
  BY <1>2, Zenon DEF Members
<1>6. {Head(s)} \cup Members(Tail(s)) \subseteq Members(s)
  BY <1>1, <1>3, <1>4, Zenon DEF Members
<1> QED
  BY <1>5, <1>6, Zenon

\* rd_kafka_produce gives the block a number above all there are.
LEMMA ProduceOK == WorkerOK /\ KafkaOK /\ Produce => KafkaOK'
<1> SUFFICES ASSUME WorkerOK, KafkaOK, Produce PROVE KafkaOK'
  OBVIOUS
<1> USE KafkaOutAssumption
<1> DEFINE n == Len(accepted) + 1
<1>1. /\ Kafka /\ Kafka' /\ hook' = "read" /\ kafka = "open"
      /\ queue' = Append(queue, n) /\ reports' = 0
      /\ accepted' = Append(accepted, block)
      /\ UNCHANGED <<kafka, topic, undelivered>>
  BY DEF Produce, Return, Onward, KafkaOK, Kafka, loopVars
<1>2. n \in Nat /\ Len(accepted) \in Nat /\ Len(accepted') = n
  BY <1>1 DEF WorkerOK
<1>3. \A m \in Members(topic) \cup Members(queue) \cup undelivered : m \in Nat /\ m < n
  BY <1>1, <1>2 DEF KafkaOK, KafkaAccounts
<1>4. queue' \in Seq(Nat) /\ Len(queue') = Len(queue) + 1 /\ Len(queue) \in Nat
  BY <1>1, <1>2 DEF KafkaOK
<1>5. KafkaOutTypeOK'
  BY <1>1, <1>4 DEF KafkaOK, KafkaOutTypeOK, Produce, QueueFull
<1>6. /\ \A i \in DOMAIN queue : queue[i] < n
      /\ \A i \in DOMAIN topic : topic[i] < n
  BY <1>3, Zenon DEF Members
<1>7. Ascending(queue')
  BY <1>1, <1>2, <1>6, AscendingAppend DEF KafkaOK
<1>8. Below(topic, queue')
  BY <1>1, <1>2, <1>6, BelowAppend DEF KafkaOK, KafkaAccounts, Below
<1>9. Members(queue') = Members(queue) \cup {n} /\ n \notin undelivered
  BY <1>1, <1>2, <1>3, MembersAppend DEF KafkaOK
<1>10. 1 .. n = 1 .. Len(accepted) \cup {n}
  BY <1>2
<1>11. KafkaAccounts'
  <2>1. (Members(topic) \cup Members(queue')) \cap undelivered = {}
    BY <1>9 DEF KafkaOK, KafkaAccounts
  <2>2. Members(topic) \cup Members(queue') \cup undelivered = 1 .. n
    BY <1>1, <1>9, <1>10 DEF KafkaOK, KafkaAccounts
  <2>3. Members(queue)' = Members(queue') /\ Members(topic)' = Members(topic)
    BY <1>1 DEF Members
  <2> QED
    BY <1>1, <1>2, <1>8, <2>1, <2>2, <2>3 DEF KafkaOK, KafkaAccounts, Below
<1>12. Ascending(queue)'
  BY <1>7 DEF Ascending
<1> QED
  BY <1>1, <1>4, <1>5, <1>12, <1>11 DEF KafkaOK

\* The first message of the queue moves on.
LEMMA DeliverOK == WorkerOK /\ KafkaOK /\ Deliver /\ UNCHANGED conf => KafkaOK'
<1> SUFFICES ASSUME WorkerOK, KafkaOK, Deliver, UNCHANGED conf PROVE KafkaOK'
  OBVIOUS
<1> USE KafkaOutAssumption
<1> DEFINE h == Head(queue)
<1>1. /\ kafka = "open" /\ Kafka /\ Kafka' /\ queue # <<>> /\ queue \in Seq(Nat) /\ topic \in Seq(Nat)
      /\ queue' = Tail(queue) /\ reports' = reports + 1
      /\ UNCHANGED <<hook, accepted, kafka>>
  BY DEF Deliver, KafkaOK, Kafka
<1>2. /\ h \in Nat /\ queue' \in Seq(Nat) /\ Len(queue') = Len(queue) - 1 /\ Len(queue) \in Nat
      /\ Ascending(queue') /\ \A i \in DOMAIN queue' : h < queue'[i]
  BY <1>1, AscendingTail DEF KafkaOK
<1>3. Ascending(queue)'
  BY <1>2 DEF Ascending
<1>4. Members(queue) = {h} \cup Members(queue')
  BY <1>1, MembersTail
<1>5. h \notin Members(queue')
  <2>1. \A i \in DOMAIN queue' : h # queue'[i]
    BY <1>2
  <2> QED
    BY <2>1, Zenon DEF Members
<1>6. KafkaOutTypeOK'
  BY <1>1, <1>2 DEF KafkaOK, KafkaOutTypeOK
<1>7. \A i \in DOMAIN topic : topic[i] < h
  <2>1. 1 \in DOMAIN queue /\ h = queue[1]
    BY <1>1
  <2> QED
    BY <2>1 DEF KafkaOK, KafkaAccounts
<1>8. h \notin Members(topic) /\ h \notin undelivered
  <2>1. \A i \in DOMAIN topic : topic[i] # h
    BY <1>1, <1>2, <1>7
  <2>2. h \notin Members(topic)
    BY <2>1, Zenon DEF Members
  <2> QED
    BY <1>4, <2>2 DEF KafkaOK, KafkaAccounts
<1>9. Members(queue)' = Members(queue') /\ Members(topic)' = Members(topic')
  BY DEF Members
<1>10. Below(topic, queue')
  <2>1. \A j \in DOMAIN queue' : \E k \in DOMAIN queue : queue'[j] = queue[k]
    BY <1>1
  <2> QED
    BY <2>1 DEF KafkaOK, KafkaAccounts, Below
<1>11. CASE topic' = Append(topic, h) /\ undelivered' = undelivered
  <2>1. topic' \in Seq(Nat) /\ Members(topic') = Members(topic) \cup {h}
    BY <1>1, <1>2, <1>11, MembersAppend
  <2>2. Ascending(topic')
    BY <1>1, <1>2, <1>7, <1>11, AscendingAppend DEF KafkaOK, KafkaAccounts, Ascending
  <2>3. Below(topic', queue')
    BY <1>1, <1>2, <1>10, <1>11, BelowAppend
  <2>4. (Members(topic') \cup Members(queue')) \cap undelivered' = {}
        /\ Members(topic') \cup Members(queue') \cup undelivered' = 1 .. Len(accepted')
    BY <1>1, <1>4, <1>5, <1>8, <1>11, <2>1 DEF KafkaOK, KafkaAccounts
  <2>5. KafkaAccounts'
    BY <1>9, <2>2, <2>3, <2>4 DEF KafkaAccounts, Ascending, Below
  <2> QED
    BY <1>1, <1>2, <1>3, <1>6, <1>11, <2>1, <2>5 DEF KafkaOK
<1>12. CASE topic' = topic /\ undelivered' = undelivered \cup {h}
  <2>1. (Members(topic') \cup Members(queue')) \cap undelivered' = {}
        /\ Members(topic') \cup Members(queue') \cup undelivered' = 1 .. Len(accepted')
    BY <1>1, <1>4, <1>5, <1>8, <1>12 DEF KafkaOK, KafkaAccounts
  <2>2. KafkaAccounts'
    BY <1>9, <1>10, <1>12, <2>1 DEF KafkaOK, KafkaAccounts, Below
  <2>3. undelivered' \subseteq Nat /\ topic' \in Seq(Nat)
    BY <1>1, <1>2, <1>12 DEF KafkaOK
  <2>4. reports' \in Nat
    BY <1>1 DEF KafkaOK
  <2> QED
    BY <1>1, <1>2, <1>3, <1>6, <2>2, <2>3, <2>4 DEF KafkaOK
<1> QED
  BY <1>11, <1>12 DEF Deliver

LEMMA ConcatElements ==
    ASSUME NEW t \in Seq(Nat), NEW q \in Seq(Nat), NEW n \in 0 .. Len(q)
    PROVE  /\ t \o SubSeq(q, 1, n) \in Seq(Nat)
           /\ DOMAIN (t \o SubSeq(q, 1, n)) = 1 .. Len(t) + n
           /\ \A i \in 1 .. Len(t) : (t \o SubSeq(q, 1, n))[i] = t[i]
           /\ \A i \in Len(t) + 1 .. Len(t) + n :
                (t \o SubSeq(q, 1, n))[i] = q[i - Len(t)] /\ i - Len(t) \in 1 .. n
<1>1. /\ SubSeq(q, 1, n) \in Seq(Nat) /\ Len(SubSeq(q, 1, n)) = n
      /\ \A i \in 1 .. n : SubSeq(q, 1, n)[i] = q[i]
      /\ Len(t) \in Nat /\ n \in Nat
  OBVIOUS
<1>2. \A i \in Len(t) + 1 .. Len(t) + n : i - Len(t) \in 1 .. n
  BY <1>1
<1> QED
  BY <1>1, <1>2

\* What rd_kafka_flush could send, and the rest.
LEMMA FlushOK ==
    ASSUME NEW t \in Seq(Nat), NEW q \in Seq(Nat), NEW n \in 0 .. Len(q),
           Ascending(t), Ascending(q), Below(t, q)
    PROVE  /\ t \o SubSeq(q, 1, n) \in Seq(Nat)
           /\ Ascending(t \o SubSeq(q, 1, n))
           /\ Members(t \o SubSeq(q, 1, n)) = Members(t) \cup Members(SubSeq(q, 1, n))
           /\ Members(q) = Members(SubSeq(q, 1, n)) \cup Members(SubSeq(q, n + 1, Len(q)))
           /\ Members(SubSeq(q, 1, n)) \cap Members(SubSeq(q, n + 1, Len(q))) = {}
<1> DEFINE p == t \o SubSeq(q, 1, n)
<1>1. /\ p \in Seq(Nat) /\ DOMAIN p = 1 .. Len(t) + n
      /\ \A i \in 1 .. Len(t) : p[i] = t[i]
      /\ \A i \in Len(t) + 1 .. Len(t) + n : p[i] = q[i - Len(t)] /\ i - Len(t) \in 1 .. n
  BY ConcatElements
<1>2. /\ Len(t) \in Nat /\ DOMAIN t = 1 .. Len(t) /\ \A i \in 1 .. Len(t) : t[i] \in Nat
      /\ Len(q) \in Nat /\ DOMAIN q = 1 .. Len(q) /\ \A i \in 1 .. Len(q) : q[i] \in Nat
      /\ n \in Nat /\ n <= Len(q)
  OBVIOUS
<1> HIDE DEF p
<1>3. /\ Members(SubSeq(q, 1, n)) = {q[i] : i \in 1 .. n}
      /\ Members(SubSeq(q, n + 1, Len(q))) = {q[i] : i \in n + 1 .. Len(q)}
  <2>1. 1 \in 1 .. Len(q) + 1 /\ n + 1 \in 1 .. Len(q) + 1 /\ Len(q) \in 0 .. Len(q)
    BY <1>2
  <2>2. Members(SubSeq(q, 1, n)) = {q[i] : i \in 1 .. n}
    BY <2>1, MembersSubSeq
  <2>3. Members(SubSeq(q, n + 1, Len(q))) = {q[i] : i \in n + 1 .. Len(q)}
    BY <2>1, MembersSubSeq
  <2> QED
    BY <2>2, <2>3
<1>4. Ascending(p)
  <2>1. SUFFICES ASSUME NEW i \in 1 .. Len(t) + n, NEW j \in 1 .. Len(t) + n, i < j
                 PROVE  p[i] < p[j]
    BY <1>1 DEF Ascending
  <2>2. CASE j \in 1 .. Len(t)
    <3>1. i \in 1 .. Len(t)
      BY <1>2, <2>1, <2>2
    <3> QED
      BY <1>1, <1>2, <2>1, <2>2, <3>1 DEF Ascending
  <2>3. CASE i \in 1 .. Len(t) /\ j \in Len(t) + 1 .. Len(t) + n
    <3>0. p[j] = q[j - Len(t)] /\ j - Len(t) \in 1 .. n /\ p[i] = t[i]
      BY <1>1, <2>3, Zenon
    <3>1. j - Len(t) \in DOMAIN q /\ p[j] = q[j - Len(t)] /\ p[i] = t[i]
      BY <1>2, <3>0
    <3> QED
      BY <1>2, <2>3, <3>1 DEF Below
  <2>4. CASE i \in Len(t) + 1 .. Len(t) + n /\ j \in Len(t) + 1 .. Len(t) + n
    <3>1. /\ j - Len(t) \in DOMAIN q /\ p[j] = q[j - Len(t)]
          /\ i - Len(t) \in DOMAIN q /\ p[i] = q[i - Len(t)]
      BY <1>1, <1>2, <2>4
    <3>2. i - Len(t) < j - Len(t)
      BY <1>2, <2>1
    <3> QED
      BY <3>1, <3>2 DEF Ascending
  <2> QED
    BY <1>2, <2>1, <2>2, <2>3, <2>4
<1>5. Members(p) = Members(t) \cup {q[i] : i \in 1 .. n}
  <2>1. \A i \in DOMAIN p : p[i] \in Members(t) \cup {q[k] : k \in 1 .. n}
    <3>1. TAKE i \in DOMAIN p
    <3>2. CASE i \in 1 .. Len(t)
      BY <1>1, <1>2, <3>2, Zenon DEF Members
    <3>3. CASE i \in Len(t) + 1 .. Len(t) + n
      BY <1>1, <3>3, Zenon
    <3>4. i \in 1 .. Len(t) \/ i \in Len(t) + 1 .. Len(t) + n
      BY <1>1, <1>2
    <3> QED
      BY <3>2, <3>3, <3>4
  <2>2. \A i \in 1 .. Len(t) : i \in DOMAIN p /\ p[i] = t[i]
    BY <1>1, <1>2
  <2>3. \A k \in 1 .. n : \E i \in DOMAIN p : p[i] = q[k]
    <3>1. TAKE k \in 1 .. n
    <3>2. k + Len(t) \in Len(t) + 1 .. Len(t) + n /\ (k + Len(t)) - Len(t) = k
          /\ k + Len(t) \in DOMAIN p
      BY <1>1, <1>2
    <3> QED
      BY <1>1, <3>2
  <2>4. Members(p) \subseteq Members(t) \cup {q[i] : i \in 1 .. n}
    BY <2>1, Zenon DEF Members
  <2>5. Members(t) \cup {q[i] : i \in 1 .. n} \subseteq Members(p)
    BY <1>2, <2>2, <2>3, Zenon DEF Members
  <2> QED
    BY <2>4, <2>5, Zenon
<1>6. Members(q) = {q[i] : i \in 1 .. n} \cup {q[i] : i \in n + 1 .. Len(q)}
  <2>1. 1 .. Len(q) = 1 .. n \cup n + 1 .. Len(q)
    BY <1>2
  <2> QED
    BY <1>2, <2>1, Zenon DEF Members
<1>7. {q[i] : i \in 1 .. n} \cap {q[i] : i \in n + 1 .. Len(q)} = {}
  <2>1. \A i \in 1 .. n, j \in n + 1 .. Len(q) : q[i] # q[j]
    <3>1. TAKE i \in 1 .. n, j \in n + 1 .. Len(q)
    <3>2. i \in DOMAIN q /\ j \in DOMAIN q /\ i < j /\ q[i] \in Nat /\ q[j] \in Nat
      BY <1>2
    <3>3. q[i] < q[j]
      BY <3>2 DEF Ascending
    <3> QED
      BY <3>2, <3>3
  <2> QED
    BY <2>1, Zenon
<1> QED
  BY <1>1, <1>3, <1>4, <1>5, <1>6, <1>7 DEF p

LEMMA DestroyOK == WorkerOK /\ KafkaOK /\ Destroy => KafkaOK'
<1> SUFFICES ASSUME WorkerOK, KafkaOK, Destroy PROVE KafkaOK'
  OBVIOUS
<1> USE KafkaOutAssumption
<1>1. PICK n \in 0 .. Len(queue) :
        /\ topic' = topic \o SubSeq(queue, 1, n)
        /\ undelivered' = undelivered \cup Members(SubSeq(queue, n + 1, Len(queue)))
  BY DEF Destroy
<1> DEFINE gone1 == Members(SubSeq(queue, 1, n))
           rest == Members(SubSeq(queue, n + 1, Len(queue)))
<1>2. /\ Kafka /\ Kafka' /\ hook' = "exit" /\ accepted' = accepted
      /\ queue' = <<>> /\ reports' = 0 /\ kafka' = "destroyed"
  BY DEF Destroy, Return, Onward, Kafka, loopVars
<1>3. queue \in Seq(Nat) /\ topic \in Seq(Nat) /\ Ascending(queue) /\ Ascending(topic) /\ Below(topic, queue)
  BY DEF KafkaOK, KafkaAccounts, Ascending, Below
<1>4. /\ topic' \in Seq(Nat) /\ Ascending(topic') /\ Members(topic') = Members(topic) \cup gone1
      /\ Members(queue) = gone1 \cup rest /\ gone1 \cap rest = {}
  BY <1>1, <1>3, FlushOK
<1>5. Members(queue') = {} /\ queue' \in Seq(Nat) /\ Ascending(queue') /\ Below(topic', queue')
  BY <1>2 DEF Members, Ascending, Below
<1>6. Members(topic) \cap rest = {}
  <2>1. \A i \in DOMAIN topic, j \in DOMAIN queue : topic[i] # queue[j]
    BY <1>3 DEF Below
  <2>2. Members(topic) \cap Members(queue) = {}
    BY <2>1, Zenon DEF Members
  <2> QED
    BY <1>4, <2>2
<1> HIDE DEF gone1
<1>7. undelivered' = undelivered \cup rest
  BY <1>1
<1> HIDE DEF rest
<1>8. (Members(topic') \cup Members(queue')) \cap undelivered' = {}
      /\ Members(topic') \cup Members(queue') \cup undelivered' = 1 .. Len(accepted')
  BY <1>2, <1>4, <1>5, <1>6, <1>7 DEF KafkaOK, KafkaAccounts
<1>9. KafkaAccounts'
  <2>1. Members(queue)' = Members(queue') /\ Members(topic)' = Members(topic')
    BY DEF Members
  <2> QED
    BY <1>4, <1>5, <1>8, <2>1 DEF KafkaAccounts, Ascending, Below
<1>10. undelivered' \subseteq Nat
  <2>1. Members(queue) \subseteq 1 .. Len(accepted)
    BY <1>2 DEF KafkaOK, KafkaAccounts
  <2>2. 1 .. Len(accepted) \subseteq Nat /\ undelivered \subseteq Nat
    BY DEF KafkaOK
  <2> QED
    BY <1>4, <1>7, <2>1, <2>2, Zenon
<1>11. KafkaOutTypeOK' /\ Ascending(queue)'
  BY <1>2, <1>5 DEF KafkaOutTypeOK, Ascending
<1> QED
  BY <1>2, <1>4, <1>5, <1>9, <1>10, <1>11 DEF KafkaOK

\* The event loop and the callbacks of the input write no block.
LEMMA ElsewhereOK ==
    (Loop \/ InputHooks) => accepted' = accepted /\ hook \notin {"initOutput", "exit"}
BY DEF Loop, EventLoop, EpollWait, Timeout, HandleQuit, BatchEnds, HandleEvent, InputHooks,
       ExecHooks, StartCommand, ReadCommand, CleanCommand, KafkaInHooks, Subscribe, Poll, Return

LEMMA IngeekHooksIngeek == StepOK /\ IngeekHooks => Ingeek
BY DEF IngeekHooks, ConnectAll, PassOver, Take, Refused, Accepted, NoSocket, BeginIngeek,
       Combine, ForceLine, Replace, SendLine, EndWrite, SendBatch, SendFails, CloseGone,
       CleanIngeek, Seeking, InLines, Sending

LEMMA KafkaStep == WorkerOK /\ StepOK /\ KafkaOK /\ [Next]_vars => KafkaOK'
<1> SUFFICES ASSUME WorkerOK, StepOK, KafkaOK, [Next]_vars PROVE KafkaOK'
  OBVIOUS
<1> USE KafkaOutAssumption
<1>0. conf' = conf /\ Kafka' = Kafka
  BY ConfConstant DEF Kafka
<1>1. CASE Produce \/ Deliver \/ Destroy
  BY <1>0, <1>1, ProduceOK, DeliverOK, DestroyOK
<1>2. ASSUME UNCHANGED <<queue, topic, undelivered>>, reports' \in {0, reports},
             kafka' # "none" => Kafka, kafka' \in {kafka, "open"},
             Kafka => accepted' = accepted,
             Kafka /\ hook' \notin {"initOutput", "exit"} => kafka' = "open"
      PROVE  KafkaOK'
  <2>1. KafkaOutTypeOK' /\ reports' \in Nat
    BY <1>2 DEF KafkaOK, KafkaOutTypeOK
  <2>2. KafkaAccounts'
    BY <1>0, <1>2 DEF KafkaOK, KafkaAccounts, Members
  <2> QED
    BY <1>0, <1>2, <2>1, <2>2 DEF KafkaOK, Ascending
<1>3. CASE CreateProducer
  BY <1>2, <1>3 DEF CreateProducer, Return, Onward, InMessage, KafkaOK
<1>4. CASE BeginKafka \/ PollIdle \/ ProduceFails \/ Full
  <2>1. Kafka /\ kafka = "open" /\ accepted' = accepted /\ UNCHANGED <<kafka, queue, topic, undelivered>>
        /\ reports' \in {0, reports}
    BY <1>4 DEF BeginKafka, PollIdle, ProduceFails, Full, RetryWhenFull, PollWhenFull, Return, KafkaOK, kafkaOutVars
  <2> QED
    BY <1>2, <2>1
<1>5. ASSUME ~KafkaOutHooks, ~Deliver PROVE KafkaOK'
  <2>1. UNCHANGED kafkaOutVars
    BY <1>5 DEF Next, Work, Loop, InputHooks, OutputHooks, Outside, Delivery, Enabled, outputVars, vars
  <2>2. Kafka => accepted' = accepted /\ (hook \in {"initOutput", "exit"} => hook' \in {"initOutput", "exit"})
    <3>1. SUFFICES ASSUME Kafka
                   PROVE  accepted' = accepted
                          /\ (hook \in {"initOutput", "exit"} => hook' \in {"initOutput", "exit"})
      OBVIOUS
    <3>2. ~File /\ ~Ingeek
      BY <3>1 DEF Kafka, File, Ingeek
    <3>3. ~FileHooks /\ ~Others /\ ~IngeekHooks
      BY <3>2, FileHooksFile, IngeekHooksIngeek
    <3>4. Loop \/ InputHooks \/ PipeCloses \/ UNCHANGED workerVars \/ PeerCloses \/ Enable
      BY <1>5, <3>3 DEF Next, Work, OutputHooks, Outside, Delivery, Enabled, vars
    <3> QED
      BY <3>4, ElsewhereOK DEF PipeCloses, workerVars, PeerCloses, Enable
  <2> QED
    BY <1>2, <2>1, <2>2 DEF kafkaOutVars, KafkaOK
<1> QED
  BY <1>1, <1>3, <1>4, <1>5 DEF KafkaOutHooks

-----------------------------------------------------------------------------
(* The buffers of output-ingeek *)

BlockOK == Len(block) <= BlockSize

Entry == [at : Int, len : Int]

IngeekOK ==
    /\ IngeekTypeOK
    /\ sendCount \in Nat \ {0} /\ conns \in Nat
    /\ sock \in [Peers -> Nat]
    /\ parse \in Seq(Nat)
    /\ iov \in Seq(Entry)

LEMMA BlockStep == WorkerOK /\ InputOK /\ BlockOK /\ [Next]_vars => BlockOK'
<1> SUFFICES ASSUME WorkerOK, InputOK, BlockOK, [Next]_vars PROVE BlockOK'
  OBVIOUS
<1>1. CASE ReadCommand
  <2>1. Available \in Nat /\ Available <= BlockSize /\ block' = [i \in 1 .. Available |-> read + i]
    BY <1>1, ExecAssumption DEF ReadCommand, Available, InputOK, ExecTypeOK
  <2>2. Len(block') = Available
    BY <2>1
  <2> QED
    BY <2>1, <2>2 DEF BlockOK
<1>2. CASE Poll
  <2>1. Len(block') = 0
    BY <1>2 DEF Poll
  <2> QED
    BY <2>1, ExecAssumption DEF BlockOK
<1>3. CASE UNCHANGED block
  BY <1>3 DEF BlockOK
<1>4. CASE Loop \/ (InputHooks /\ ~ReadCommand /\ ~Poll) \/ PipeCloses \/ UNCHANGED workerVars
  BY <1>3, <1>4 DEF Loop, EventLoop, EpollWait, Timeout, HandleQuit, BatchEnds, HandleEvent, InputHooks,
       ExecHooks, StartCommand, CleanCommand, KafkaInHooks, Subscribe, PipeCloses, loopVars, workerVars
<1>5. CASE FileHooks \/ Others
  BY <1>3, <1>5 DEF FileHooks, NoHook, UseCached, OpenAnew, OpenFails, WriteBlock, WriteAndRotate,
       RotateFails, WriteFails, UncompressFails, WriteFreed, Others, MoveAway, CreateEmpty, loopVars
<1>6. CASE KafkaOutHooks \/ Deliver
  BY <1>3, <1>6 DEF KafkaOutHooks, CreateProducer, BeginKafka, Produce, Full, ProduceFails, PollIdle,
       Destroy, Deliver, loopVars
<1>7. CASE IngeekHooks \/ PeerCloses \/ Enable
  BY <1>3, <1>7 DEF IngeekHooks, ConnectAll, PassOver, Take, Refused, Accepted, NoSocket, BeginIngeek,
       Combine, ForceLine, Replace, SendLine, EndWrite, SendBatch, SendFails, CloseGone,
       CleanIngeek, PeerCloses, Enable, loopVars, workerVars
<1> QED
  BY <1>1, <1>2, <1>4, <1>5, <1>6, <1>7 DEF Next, Work, OutputHooks, Outside, Delivery, Enabled, vars

\* There is a next newline, with none before it, when there is one at all.
LEMMA MinOK ==
    ASSUME NEW S \in SUBSET Nat, S # {}
    PROVE  Min(S) \in S /\ \A y \in S : Min(S) <= y
<1>1. PICK x \in S : \A y \in S : <<y, x>> \notin OpToRel(<, Nat)
  BY NatLessThanWellFounded, WFMin
<1>2. \A y \in S : x <= y
  <2>1. TAKE y \in S
  <2>2. <<y, x>> \in Nat \X Nat /\ <<y, x>>[1] = y /\ <<y, x>>[2] = x
    OBVIOUS
  <2>3. ~(y < x)
    BY <1>1, <2>2 DEF OpToRel
  <2> QED
    BY <2>3
<1> QED
  BY <1>2 DEF Min

LEMMA AddLineOK ==
    ASSUME IngeekOK, NEW at \in Int, NEW len \in Int, NEW no, NEW flush, AddLine(at, len, no, flush)
    PROVE  /\ iov' \in Seq(Entry) /\ Len(iov') <= sendCount
           /\ step' \in {"connect", "lines"}
<1> DEFINE slot == Len(iov) + 1
           two == <<[at |-> at, len |-> len], [at |-> slot, len |-> -1]>>
<1>1. slot \in Nat /\ sendCount \in Nat /\ iov \in Seq(Entry)
  BY DEF IngeekOK
<1>2. two \in Seq(Entry) /\ Len(two) = 2
  BY <1>1 DEF Entry
<1> HIDE DEF two
<1>3. iov \o two \in Seq(Entry) /\ Len(iov \o two) = Len(iov) + 2
  <2>1. iov \in Seq(Entry) /\ two \in Seq(Entry)
    BY <1>1, <1>2
  <2>2. iov \o two \in Seq(Entry) /\ Len(iov \o two) = Len(iov) + Len(two)
    BY <2>1, ConcatProperties, Zenon
  <2> QED
    BY <1>2, <2>2
<1>4. CASE slot >= sendCount
  <2>1. iov' = <<>>
    BY <1>4 DEF AddLine, NoRoom
  <2> QED
    BY <1>1, <2>1 DEF AddLine
<1>5. CASE ~(slot >= sendCount)
  <2>1. iov' = iov \o two
    BY <1>5 DEF AddLine, NoRoom, two
  <2>2. Len(iov) \in Nat
    BY <1>1
  <2>3. Len(iov') <= sendCount
    BY <1>1, <1>3, <1>5, <2>1, <2>2
  <2>4. step' \in {"connect", "lines"}
    BY DEF AddLine
  <2> QED
    BY <1>3, <2>1, <2>3, <2>4
<1> QED
  BY <1>4, <1>5

\* Callbacks that leave the buffers alone.
LEMMA PeersOK ==
    ASSUME IngeekOK, StepOK', UNCHANGED <<sendCount, parse>>,
           step' \in {"idle", "lines", "connect", "send"}, index' \in 0 .. PeerCount,
           conns' \in Nat, conns <= conns', sock' \in [Peers -> Nat],
           \A p \in Peers : sock'[p] \in 0 .. conns',
           from' \in {1, from}, iov' \in {<<>>, iov}
    PROVE  IngeekOK'
<1>1. Len(parse) \in Nat /\ from' \in 1 .. Len(parse') + 1
  BY DEF IngeekOK, IngeekTypeOK
<1>2. iov' \in Seq(Entry) /\ Len(iov') <= sendCount'
  <2>1. <<>> \in Seq(Entry) /\ Len(<<>>) = 0
    OBVIOUS
  <2>2. iov \in Seq(Entry) /\ Len(iov) <= sendCount /\ sendCount' = sendCount /\ sendCount \in Nat
    BY DEF IngeekOK, IngeekTypeOK
  <2>3. CASE iov' = iov
    BY <2>2, <2>3
  <2>4. CASE iov' = <<>>
    BY <2>1, <2>2, <2>4
  <2> QED
    BY <2>3, <2>4
<1> QED
  BY <1>1, <1>2 DEF IngeekOK, IngeekTypeOK, StepOK

LEMMA SockClosed ==
    ASSUME IngeekOK, NEW q, conns' = conns, sock' = [sock EXCEPT ![q] = 0]
    PROVE  /\ conns' \in Nat /\ conns <= conns' /\ sock' \in [Peers -> Nat]
           /\ \A p \in Peers : sock'[p] \in 0 .. conns'
<1>1. conns \in Nat /\ sock \in [Peers -> Nat] /\ \A p \in Peers : sock[p] \in 0 .. conns
  BY DEF IngeekOK, IngeekTypeOK
<1>2. \A p \in Peers : sock'[p] \in {0, sock[p]}
  BY <1>1
<1>3. \A p \in Peers : sock'[p] \in 0 .. conns
  BY <1>1, <1>2
<1>4. sock' \in [Peers -> Nat]
  BY <1>1
<1> QED
  BY <1>1, <1>3, <1>4

LEMMA SockMade ==
    ASSUME IngeekOK, NEW q, Connected(q)
    PROVE  /\ conns' \in Nat /\ conns <= conns' /\ sock' \in [Peers -> Nat]
           /\ \A p \in Peers : sock'[p] \in 0 .. conns'
<1>1. conns \in Nat /\ sock \in [Peers -> Nat] /\ \A p \in Peers : sock[p] \in 0 .. conns
  BY DEF IngeekOK, IngeekTypeOK
<1>2. conns' = conns + 1 /\ sock' = [sock EXCEPT ![q] = conns + 1]
  BY DEF Connected
<1>3. \A p \in Peers : sock'[p] \in {conns + 1, sock[p]}
  BY <1>1, <1>2
<1>4. \A p \in Peers : sock'[p] \in 0 .. conns + 1
  BY <1>1, <1>3
<1>5. sock' \in [Peers -> Nat]
  <2>1. conns + 1 \in Nat
    BY <1>1
  <2>2. [sock EXCEPT ![q] = conns + 1] \in [Peers -> Nat]
    BY <1>1, <2>1, Zenon
  <2> QED
    BY <1>2, <2>2
<1>6. conns' \in Nat /\ conns <= conns'
  BY <1>1, <1>2
<1> QED
  BY <1>2, <1>4, <1>5, <1>6

LEMMA IngeekPeers ==
    ASSUME WorkerOK, StepOK, StepOK', IngeekOK,
           \/ ConnectAll \/ PassOver \/ Take \/ Refused \/ Accepted \/ NoSocket
           \/ BeginIngeek \/ SendBatch \/ SendFails \/ CloseGone \/ CleanIngeek
           \/ PeerCloses \/ Enable
    PROVE  IngeekOK'
<1> USE IngeekAssumption
<1>1. /\ index \in 0 .. PeerCount /\ conns \in Nat /\ sock \in [Peers -> Nat]
      /\ \A p \in Peers : sock[p] \in 0 .. conns
      /\ step \in {"idle", "lines", "connect", "send"}
      /\ NextIndex \in 0 .. PeerCount
  BY DEF IngeekOK, IngeekTypeOK, NextIndex
<1>4. UNCHANGED <<conns, sock>> =>
        /\ conns' \in Nat /\ conns <= conns' /\ sock' \in [Peers -> Nat]
        /\ \A p \in Peers : sock'[p] \in 0 .. conns'
  BY <1>1
<1>5. CASE ConnectAll
  <2>1. UNCHANGED <<sendCount, parse, from, iov, step>> /\ index' \in {index, 1}
    BY <1>5 DEF ConnectAll, lineVars, iovVars
  <2>2. (\E q : Connected(q)) \/ UNCHANGED <<conns, sock>>
    BY <1>5 DEF ConnectAll
  <2>3. index' \in 0 .. PeerCount
    BY <1>1, <2>1
  <2> QED
    BY <1>1, <1>4, <2>1, <2>2, <2>3, SockMade, PeersOK
<1>6. CASE PassOver \/ Take \/ Refused \/ NoSocket
  <2>1. /\ UNCHANGED <<sendCount, parse, conns, sock>> /\ index' = NextIndex
        /\ step' \in {step, "send", "idle"} /\ from' \in {1, from} /\ iov' \in {<<>>, iov}
    BY <1>6 DEF PassOver, Take, Refused, NoSocket, lineVars, iovVars
  <2> QED
    BY <1>1, <1>4, <2>1, PeersOK
<1>7. CASE Accepted
  <2>1. /\ UNCHANGED <<sendCount, parse, from, iov>> /\ index' = NextIndex /\ step' = "send"
        /\ Connected(NextIndex)
    BY <1>7 DEF Accepted, lineVars, iovVars
  <2> QED
    BY <1>1, <2>1, SockMade, PeersOK
<1>8. CASE BeginIngeek \/ SendBatch \/ PeerCloses \/ Enable
  <2>1. /\ UNCHANGED <<sendCount, parse, from, index, conns, sock>>
        /\ step' \in {step, "lines"} /\ iov' \in {<<>>, iov}
    BY <1>8 DEF BeginIngeek, SendBatch, PeerCloses, Enable, lineVars, iovVars, peerVars, ingeekVars
  <2> QED
    BY <1>1, <1>4, <2>1, PeersOK
<1>9. CASE SendFails \/ CleanIngeek
  <2>1. /\ UNCHANGED <<sendCount, parse, from, index, conns>> /\ step' \in {step, "lines"}
        /\ iov' \in {<<>>, iov} /\ sock' = [sock EXCEPT ![index] = 0]
    BY <1>9 DEF SendFails, CloseBroken, CleanIngeek, lineVars, iovVars
  <2> QED
    BY <1>1, <2>1, SockClosed, PeersOK
<1>10. CASE CloseGone
  <2>1. /\ UNCHANGED <<sendCount, parse, from, index, conns, step, iov>>
        /\ sock' = [p \in Peers |-> IF sock[p] \in gone THEN 0 ELSE sock[p]]
    BY <1>10 DEF CloseGone, lineVars, iovVars
  <2>2. sock' \in [Peers -> Nat] /\ \A p \in Peers : sock'[p] \in 0 .. conns'
    BY <1>1, <2>1
  <2> QED
    BY <1>1, <2>1, <2>2, PeersOK
<1> QED
  BY <1>5, <1>6, <1>7, <1>8, <1>9, <1>10

LEMMA IngeekLines ==
    ASSUME WorkerOK, BlockOK, StepOK', IngeekOK,
           Combine \/ ForceLine \/ Replace \/ SendLine \/ EndWrite
    PROVE  IngeekOK'
<1> USE IngeekAssumption
<1>1. /\ parse \in Seq(Nat) /\ Len(parse) \in Nat /\ Len(parse) <= ParseSize /\ ParseSize \in Nat
      /\ from \in 1 .. Len(parse) + 1 /\ sendCount \in Nat \ {0}
      /\ iov \in Seq(Entry) /\ Len(iov) <= sendCount /\ block \in Seq(Nat) /\ Len(block) \in Nat
  BY DEF IngeekOK, IngeekTypeOK, WorkerOK
<1>2. UNCHANGED <<sendCount, peerVars>>
  BY DEF Combine, ForceLine, Replace, SendLine, EndWrite
<1>3. ASSUME parse' \in Seq(Nat), Len(parse') <= ParseSize, from' \in 1 .. Len(parse') + 1,
             iov' \in Seq(Entry), Len(iov') <= sendCount,
             step' \in {"idle", "lines", "connect", "send"}
      PROVE  IngeekOK'
  BY <1>2, <1>3 DEF IngeekOK, IngeekTypeOK, StepOK, peerVars
<1>4. CASE Combine
  <2>1. parse' = parse \o block /\ from' = 1 /\ iov' = iov /\ step' = "lines"
        /\ Len(parse) + Len(block) <= ParseSize
    BY <1>4 DEF Combine, iovVars
  <2>2. parse' \in Seq(Nat) /\ Len(parse') = Len(parse) + Len(block)
    BY <1>1, <2>1
  <2>3. from' \in 1 .. Len(parse') + 1
    BY <1>1, <2>1, <2>2
  <2> QED
    BY <1>1, <1>3, <2>1, <2>2, <2>3
<1>5. CASE ForceLine
  <2>1. parse' = parse /\ from' = Len(parse) + 1 /\ AddLine(1, Len(parse), 0, TRUE)
    BY <1>5 DEF ForceLine
  <2>2. 1 \in Int /\ Len(parse) \in Int
    BY <1>1
  <2>3. iov' \in Seq(Entry) /\ Len(iov') <= sendCount /\ step' \in {"connect", "lines"}
    BY <2>1, <2>2, AddLineOK
  <2> QED
    BY <1>1, <1>3, <2>1, <2>3
<1>6. CASE Replace
  <2>1. parse' = block /\ from' = 1 /\ UNCHANGED <<iov, step>>
    BY <1>6 DEF Replace, iovVars
  <2>2. Len(block) <= ParseSize
    BY <1>1, PluginsAssumption, ExecAssumption DEF BlockOK
  <2>3. step \in {"idle", "lines", "connect", "send"}
    BY DEF IngeekOK, IngeekTypeOK
  <2> QED
    BY <1>1, <1>3, <2>1, <2>2, <2>3
<1>7. CASE SendLine
  <2> DEFINE end == Min(NewlinesFrom(from))
  <2>1. /\ NewlinesFrom(from) # {}
        /\ AddLine(from, end - from, lineAdd + 1, IsLast(end))
        /\ parse' = [parse EXCEPT ![end] = 0] /\ from' = end + 1
    BY <1>7 DEF SendLine
  <2>2. NewlinesFrom(from) \subseteq 1 .. Len(parse) /\ NewlinesFrom(from) \in SUBSET Nat
    BY <1>1 DEF NewlinesFrom
  <2>3. end \in 1 .. Len(parse)
    BY <2>1, <2>2, MinOK
  <2> HIDE DEF end
  <2>4. end - from \in Int /\ from \in Int
    BY <1>1, <2>3
  <2>5. iov' \in Seq(Entry) /\ Len(iov') <= sendCount /\ step' \in {"connect", "lines"}
    BY <2>1, <2>4, AddLineOK
  <2>6. parse' \in Seq(Nat) /\ Len(parse') = Len(parse)
    BY <1>1, <2>1, <2>3
  <2>7. from' \in 1 .. Len(parse') + 1
    BY <1>1, <2>1, <2>3, <2>6
  <2> QED
    BY <1>1, <1>3, <2>5, <2>6, <2>7
<1>8. CASE EndWrite
  <2>1. parse' = SubSeq(parse, from, Len(parse)) /\ from' = 1 /\ iov' = iov /\ step' = "idle"
    BY <1>8 DEF EndWrite, iovVars
  <2>2. parse' \in Seq(Nat) /\ Len(parse') \in Nat /\ Len(parse') <= Len(parse)
    BY <1>1, <2>1
  <2>3. from' \in 1 .. Len(parse') + 1
    BY <2>1, <2>2
  <2> QED
    BY <1>1, <1>3, <2>1, <2>2, <2>3
<1> QED
  BY <1>4, <1>5, <1>6, <1>7, <1>8

LEMMA IngeekStep ==
    ASSUME WorkerOK, BlockOK, StepOK, StepOK', IngeekOK, [Next]_vars
    PROVE  IngeekOK'
<1>1. CASE UNCHANGED ingeekVars
  BY <1>1 DEF ingeekVars, peerVars, lineVars, iovVars, IngeekOK, IngeekTypeOK, StepOK
<1>2. CASE IngeekHooks \/ PeerCloses \/ Enable
  BY <1>2, IngeekPeers, IngeekLines DEF IngeekHooks
<1> QED
  BY <1>1, <1>2 DEF Next, Work, Loop, InputHooks, OutputHooks, Outside, Delivery, Enabled, vars, outputVars

-----------------------------------------------------------------------------
(* The theorems *)

IInv == WorkerOK /\ InputOK /\ StepOK /\ KafkaOK /\ BlockOK /\ IngeekOK

LEMMA InitIInv == Init => IInv
<1> SUFFICES ASSUME Init PROVE IInv
  OBVIOUS
<1>1. WorkerOK /\ InputOK /\ StepOK
  <2>1. WorkerTypeOK
    <3>1. /\ conf \in Confs /\ hook = "initOutput" /\ faults = 0
          /\ quitPipe = FALSE /\ quit_flag = FALSE
      BY DEF Init, WorkerInit
    <3>2. 0 \in 0 .. MaxFaults
      BY WorkerAssumption
    <3> QED
      BY <3>1, <3>2, Zenon DEF WorkerTypeOK, Hooks
  <2>2. WorkerOK
    BY <2>1 DEF Init, WorkerInit, WorkerOK
  <2>3. InputOK
    <3>1. written = 0 /\ read = 0 /\ ended = FALSE /\ polls = 0 /\ consumed = 0
      BY DEF Init, ExecInit, KafkaInInit
    <3>2. 0 \in 0 .. TextLen /\ 0 \in 0 .. MaxPolls /\ 0 \in 0 .. 0
      BY ExecAssumption, KafkaInAssumption
    <3> QED
      BY <3>1, <3>2, Zenon DEF InputOK, ExecTypeOK, KafkaInTypeOK
  <2>4. StepOK
    BY DEF Init, IngeekInit, StepOK
  <2> QED
    BY <2>2, <2>3, <2>4
<1>2. /\ queue = <<>> /\ topic = <<>> /\ accepted = <<>> /\ undelivered = {} /\ reports = 0
      /\ kafka = "none" /\ hook = "initOutput"
  BY DEF Init, WorkerInit, KafkaOutInit
<1>3. Members(topic) = {} /\ Members(queue) = {} /\ 1 .. Len(accepted) = {}
  BY <1>2 DEF Members
<1>4. KafkaAccounts
  BY <1>2, <1>3 DEF KafkaAccounts
<1>5. KafkaOK
  BY <1>2, <1>4, KafkaOutAssumption DEF KafkaOK, KafkaOutTypeOK, Ascending
<1>6. BlockOK
  <2>1. Len(block) = 0
    BY DEF Init, WorkerInit
  <2> QED
    BY <2>1, ExecAssumption DEF BlockOK
<1>7. IngeekOK
  <2>1. /\ step = "idle" /\ index = 0 /\ sock = [p \in Peers |-> 0] /\ conns = 0
        /\ parse = <<>> /\ from = 1 /\ iov = <<>>
    BY DEF Init, IngeekInit
  <2>2. sendCount \in Nat \ {0}
    BY IngeekAssumption DEF Init, IngeekInit
  <2>3. Len(parse) = 0 /\ Len(iov) = 0 /\ parse \in Seq(Nat) /\ iov \in Seq(Entry)
    BY <2>1
  <2>4. sock \in [Peers -> Nat] /\ \A p \in Peers : sock[p] \in 0 .. conns
    BY <2>1
  <2> QED
    BY <2>1, <2>2, <2>3, <2>4, IngeekAssumption DEF IngeekOK, IngeekTypeOK
<1> QED
  BY <1>1, <1>5, <1>6, <1>7 DEF IInv

LEMMA StepIInv == IInv /\ [Next]_vars => IInv'
BY WorkerStep, InputStep, StepStep, KafkaStep, BlockStep, IngeekStep DEF IInv

\* The invariant holds of every behaviour of a worker, whatever its plugins are.
THEOREM IInvAlways == Spec => []IInv
<1>1. Init => IInv
  BY InitIInv
<1>2. IInv /\ [Next]_vars => IInv'
  BY StepIInv
<1> QED
  BY <1>1, <1>2, PTL DEF Spec

\* However often the queue is full, the poll is repeated, deliveries fail or the
\* producer is destroyed before they are over: each block that WriteOutputPlugin
\* of output-kafka returned 0 for is in exactly one of the queue, the topic and
\* what librdkafka reported or dropped, and the topic keeps the order.
THEOREM KafkaAccountsAlways == Spec => []KafkaAccounts
<1>1. IInv => KafkaAccounts
  BY DEF IInv, KafkaOK
<1> QED
  BY <1>1, IInvAlways, PTL

-----------------------------------------------------------------------------
(* The files output-file writes, whatever others do to them meanwhile: they *)
(* are sequences of bytes.                                                 *)

Ordered(fs) ==
    \A f, g \in DOMAIN fs : \A i \in DOMAIN fs[f], j \in DOMAIN fs[g] :
        f < g \/ (f = g /\ i < j) => fs[f][i] < fs[g][j]

AtMost(fs, n) == \A f \in DOMAIN fs : \A i \in DOMAIN fs[f] : fs[f][i] <= n

\* No file behind x, unless x is 0, has a byte.
LastIs(fs, x) == x = 0 \/ \A g \in DOMAIN fs : fs[g] # <<>> => g <= x

Holds(fs, bs) == \A b \in Bytes(bs) : \E f \in Bytes(fs) : Bytes(b) \subseteq Bytes(f)

\* The bytes of a block that come after "base".
Follow(w, base) == \A i \in DOMAIN w : w[i] = base + i

LEMMA InBytes == \A s, e : e \in Bytes(s) <=> \E i \in DOMAIN s : s[i] = e
BY Zenon DEF Bytes

LEMMA BytesWithin ==
    ASSUME NEW s, NEW t, \A i \in DOMAIN s : \E j \in DOMAIN t : t[j] = s[i]
    PROVE  Bytes(s) \subseteq Bytes(t)
<1>1. SUFFICES ASSUME NEW e \in Bytes(s) PROVE e \in Bytes(t)
  OBVIOUS
<1>2. PICK i \in DOMAIN s : s[i] = e
  BY InBytes, Zenon
<1>3. PICK j \in DOMAIN t : t[j] = s[i]
  OBVIOUS
<1> QED
  BY <1>2, <1>3, InBytes, Zenon

LEMMA NewFile ==
    ASSUME NEW fs \in Seq(Seq(Nat))
    PROVE  LET new == Append(fs, <<>>) IN
           /\ new \in Seq(Seq(Nat)) /\ Len(new) = Len(fs) + 1 /\ DOMAIN new = 1 .. Len(fs) + 1
           /\ DOMAIN fs = 1 .. Len(fs)
           /\ \A f \in DOMAIN fs : new[f] = fs[f]
           /\ \A f \in DOMAIN new : new[f] = <<>> \/ (f \in DOMAIN fs /\ new[f] = fs[f])
<1> DEFINE new == Append(fs, <<>>)
<1>1. /\ Len(fs) \in Nat /\ DOMAIN fs = 1 .. Len(fs) /\ DOMAIN new = 1 .. Len(fs) + 1
      /\ new \in Seq(Seq(Nat)) /\ Len(new) = Len(fs) + 1
      /\ \A f \in 1 .. Len(fs) : new[f] = fs[f]
      /\ new[Len(fs) + 1] = <<>>
  OBVIOUS
<1>2. \A f \in 1 .. Len(fs) + 1 : f \in 1 .. Len(fs) \/ f = Len(fs) + 1
  BY <1>1
<1> HIDE DEF new
<1>3. \A f \in DOMAIN new : new[f] = <<>> \/ (f \in DOMAIN fs /\ new[f] = fs[f])
  BY <1>1, <1>2
<1> QED
  BY <1>1, <1>3 DEF new

\* A file that is created disturbs nothing.
LEMMA NewFileKeeps ==
    ASSUME NEW fs \in Seq(Seq(Nat)), NEW bs, NEW n, NEW x
    PROVE  LET new == Append(fs, <<>>) IN
           /\ Ordered(fs) => Ordered(new)
           /\ AtMost(fs, n) => AtMost(new, n)
           /\ Holds(fs, bs) => Holds(new, bs)
           /\ LastIs(fs, x) => LastIs(new, x)
           /\ LastIs(new, Len(fs) + 1)
<1> DEFINE new == Append(fs, <<>>)
<1>1. /\ DOMAIN new = 1 .. Len(fs) + 1 /\ DOMAIN fs = 1 .. Len(fs) /\ Len(fs) \in Nat
      /\ \A f \in DOMAIN fs : new[f] = fs[f]
      /\ \A f \in DOMAIN new : new[f] = <<>> \/ (f \in DOMAIN fs /\ new[f] = fs[f])
  BY NewFile
<1>2. \A f \in DOMAIN fs : f \in DOMAIN new
  BY <1>1
<1> HIDE DEF new
<1>3. DOMAIN <<>> = {}
  OBVIOUS
<1>4. \A f \in DOMAIN new : \A i \in DOMAIN new[f] : f \in DOMAIN fs /\ new[f] = fs[f]
  BY <1>1, <1>3
<1>5. Ordered(fs) => Ordered(new)
  BY <1>4 DEF Ordered
<1>6. AtMost(fs, n) => AtMost(new, n)
  BY <1>4 DEF AtMost
<1>7. Bytes(fs) \subseteq Bytes(new)
  BY <1>1, <1>2 DEF Bytes
<1>8. Holds(fs, bs) => Holds(new, bs)
  BY <1>7 DEF Holds
<1>9. LastIs(fs, x) => LastIs(new, x)
  BY <1>1 DEF LastIs
<1>10. LastIs(new, Len(fs) + 1)
  BY <1>1 DEF LastIs
<1> QED
  BY <1>5, <1>6, <1>8, <1>9, <1>10 DEF new

LEMMA Written ==
    ASSUME NEW fs \in Seq(Seq(Nat)), NEW k \in DOMAIN fs, NEW w \in Seq(Nat)
    PROVE  LET new == [fs EXCEPT ![k] = @ \o w] IN
           /\ new \in Seq(Seq(Nat)) /\ Len(new) = Len(fs) /\ DOMAIN new = DOMAIN fs
           /\ \A f \in DOMAIN fs : f # k => new[f] = fs[f]
           /\ fs[k] \in Seq(Nat) /\ new[k] \in Seq(Nat)
           /\ Len(new[k]) = Len(fs[k]) + Len(w)
           /\ \A i \in DOMAIN fs[k] : i \in DOMAIN new[k] /\ new[k][i] = fs[k][i]
           /\ \A i \in DOMAIN new[k] :
                IF i <= Len(fs[k]) THEN i \in DOMAIN fs[k] /\ new[k][i] = fs[k][i]
                ELSE i - Len(fs[k]) \in DOMAIN w /\ new[k][i] = w[i - Len(fs[k])]
           /\ \A i \in DOMAIN w : \E j \in DOMAIN new[k] : new[k][j] = w[i]
<1> DEFINE new == [fs EXCEPT ![k] = @ \o w]
<1>1. DOMAIN new = DOMAIN fs /\ new[k] = fs[k] \o w /\ \A f \in DOMAIN fs : f # k => new[f] = fs[f]
  OBVIOUS
<1>2. fs[k] \in Seq(Nat) /\ DOMAIN fs = 1 .. Len(fs) /\ Len(fs) \in Nat
  OBVIOUS
<1>3. /\ fs[k] \o w \in Seq(Nat) /\ Len(fs[k] \o w) = Len(fs[k]) + Len(w)
      /\ DOMAIN (fs[k] \o w) = 1 .. Len(fs[k]) + Len(w)
      /\ DOMAIN fs[k] = 1 .. Len(fs[k]) /\ DOMAIN w = 1 .. Len(w)
      /\ Len(fs[k]) \in Nat /\ Len(w) \in Nat
      /\ \A i \in 1 .. Len(fs[k]) : (fs[k] \o w)[i] = fs[k][i]
      /\ \A i \in Len(fs[k]) + 1 .. Len(fs[k]) + Len(w) : (fs[k] \o w)[i] = w[i - Len(fs[k])]
  BY <1>2
<1>4. new \in Seq(Seq(Nat)) /\ Len(new) = Len(fs)
  BY <1>3
<1> HIDE DEF new
<1> DEFINE a == Len(fs[k])
           b == Len(w)
<1>5. \A i \in 1 .. a + b : IF i <= a THEN i \in 1 .. a ELSE i - a \in 1 .. b /\ i \in a + 1 .. a + b
  BY <1>3
<1>6. \A i \in 1 .. b : a + i \in a + 1 .. a + b /\ a + i \in 1 .. a + b /\ (a + i) - a = i
  BY <1>3
<1>7. \A i \in 1 .. a : i \in 1 .. a + b
  BY <1>3
<1> HIDE DEF a, b
<1>8. \A i \in DOMAIN w : \E j \in DOMAIN new[k] : new[k][j] = w[i]
  <2>1. TAKE i \in DOMAIN w
  <2>2. a + i \in DOMAIN new[k] /\ new[k][a + i] = w[i]
    BY <1>1, <1>3, <1>6 DEF a, b
  <2> QED
    BY <2>2
<1>9. \A i \in DOMAIN new[k] :
        IF i <= a THEN i \in DOMAIN fs[k] /\ new[k][i] = fs[k][i]
        ELSE i - a \in DOMAIN w /\ new[k][i] = w[i - a]
  BY <1>1, <1>3, <1>5 DEF a, b
<1>10. \A i \in DOMAIN fs[k] : i \in DOMAIN new[k] /\ new[k][i] = fs[k][i]
  BY <1>1, <1>3, <1>7 DEF a, b
<1> QED
  BY <1>1, <1>2, <1>3, <1>4, <1>8, <1>9, <1>10 DEF new, a

\* Bytes behind all others are written to a file behind all others.
LEMMA WrittenKeeps ==
    ASSUME NEW fs \in Seq(Seq(Nat)), NEW k \in DOMAIN fs, NEW w \in Seq(Nat),
           NEW base \in Nat, NEW bs, NEW x \in Nat,
           Ordered(fs), AtMost(fs, base), Holds(fs, bs), LastIs(fs, k), LastIs(fs, x),
           Follow(w, base)
    PROVE  LET new == [fs EXCEPT ![k] = @ \o w] IN
           /\ Ordered(new)
           /\ AtMost(new, base + Len(w))
           /\ Holds(new, bs)
           /\ x = 0 \/ k <= x => LastIs(new, x)
           /\ new[k] \in Bytes(new) /\ Bytes(w) \subseteq Bytes(new[k])
<1> DEFINE new == [fs EXCEPT ![k] = @ \o w]
<1>1. /\ DOMAIN new = DOMAIN fs
      /\ \A f \in DOMAIN fs : f # k => new[f] = fs[f]
      /\ fs[k] \in Seq(Nat) /\ new[k] \in Seq(Nat)
      /\ \A i \in DOMAIN fs[k] : i \in DOMAIN new[k] /\ new[k][i] = fs[k][i]
      /\ \A i \in DOMAIN new[k] :
            IF i <= Len(fs[k]) THEN i \in DOMAIN fs[k] /\ new[k][i] = fs[k][i]
            ELSE i - Len(fs[k]) \in DOMAIN w /\ new[k][i] = w[i - Len(fs[k])]
      /\ \A i \in DOMAIN w : \E j \in DOMAIN new[k] : new[k][j] = w[i]
  BY Written
<1> HIDE DEF new
<1> DEFINE a == Len(fs[k])
<1>2. /\ a \in Nat /\ k \in Nat \ {0} /\ DOMAIN fs \subseteq Nat
      /\ DOMAIN fs[k] = 1 .. a /\ DOMAIN new[k] \subseteq Nat /\ DOMAIN w = 1 .. Len(w) /\ Len(w) \in Nat
      /\ \A f \in DOMAIN fs : \A i \in DOMAIN fs[f] : fs[f][i] \in Nat
  BY <1>1
<1>3. \A i \in DOMAIN new[k] : i <= a \/ (new[k][i] = base + (i - a) /\ i > a /\ i - a <= Len(w))
  BY <1>1, <1>2 DEF Follow
<1>4. \A f \in DOMAIN fs : \A i \in DOMAIN fs[f] : f <= k /\ fs[f][i] <= base
  <2>1. \A f \in DOMAIN fs : \A i \in DOMAIN fs[f] : fs[f] # <<>>
    OBVIOUS
  <2> QED
    BY <1>2, <2>1 DEF AtMost, LastIs
<1>5. \A f \in DOMAIN new : \A i \in DOMAIN new[f] :
        \/ i \in DOMAIN fs[f] /\ new[f][i] = fs[f][i] /\ (f = k => i <= a)
        \/ f = k /\ new[f][i] = base + (i - a) /\ i > a /\ i - a <= Len(w) /\ i \in Nat
  BY <1>1, <1>2, <1>3
<1>6. Ordered(new)
  <2>1. SUFFICES ASSUME NEW f \in DOMAIN new, NEW g \in DOMAIN new,
                        NEW i \in DOMAIN new[f], NEW j \in DOMAIN new[g],
                        f < g \/ (f = g /\ i < j)
                 PROVE  new[f][i] < new[g][j]
    BY DEF Ordered
  <2>2. CASE i \in DOMAIN fs[f] /\ new[f][i] = fs[f][i] /\ j \in DOMAIN fs[g] /\ new[g][j] = fs[g][j]
    BY <1>1, <2>1, <2>2 DEF Ordered
  <2>3. CASE i \in DOMAIN fs[f] /\ new[f][i] = fs[f][i]
             /\ g = k /\ new[g][j] = base + (j - a) /\ j > a /\ j \in Nat
    <3>1. fs[f][i] <= base /\ fs[f][i] \in Nat
      BY <1>1, <1>2, <1>4, <2>3
    <3> QED
      BY <1>2, <2>3, <3>1
  <2>4. CASE f = k /\ new[f][i] = base + (i - a) /\ i > a /\ i \in Nat
    <3>1. CASE j \in DOMAIN fs[g] /\ new[g][j] = fs[g][j] /\ (g = k => j <= a)
      <4>1. g <= k /\ g \in Nat /\ g # k
        <5>1. g <= k /\ g \in Nat
          BY <1>1, <1>2, <1>4, <3>1
        <5>2. g = k => j \in Nat /\ i < j /\ j <= a
          BY <1>2, <2>1, <2>4, <3>1
        <5> QED
          BY <1>2, <2>4, <5>1, <5>2
      <4> QED
        BY <1>2, <2>1, <2>4, <4>1
    <3>2. CASE g = k /\ new[g][j] = base + (j - a) /\ j > a /\ j \in Nat
      BY <1>2, <2>1, <2>4, <3>2
    <3> QED
      BY <1>5, <3>1, <3>2
  <2> QED
    BY <1>5, <2>2, <2>3, <2>4
<1>7. AtMost(new, base + Len(w))
  <2>1. SUFFICES ASSUME NEW f \in DOMAIN new, NEW i \in DOMAIN new[f]
                 PROVE  new[f][i] <= base + Len(w)
    BY DEF AtMost
  <2>2. CASE i \in DOMAIN fs[f] /\ new[f][i] = fs[f][i]
    BY <1>1, <1>2, <1>4, <2>2
  <2>3. CASE f = k /\ new[f][i] = base + (i - a) /\ i > a /\ i - a <= Len(w) /\ i \in Nat
    BY <1>2, <2>3
  <2> QED
    BY <1>5, <2>2, <2>3
<1>8. \A f \in DOMAIN fs : Bytes(fs[f]) \subseteq Bytes(new[f])
  <2>1. TAKE f \in DOMAIN fs
  <2>2. CASE f # k
    BY <1>1, <2>2
  <2>3. CASE f = k
    <3>1. \A i \in DOMAIN fs[k] : i \in DOMAIN new[k] /\ new[k][i] = fs[k][i]
      BY <1>1
    <3>2. Bytes(fs[k]) \subseteq Bytes(new[k])
      BY <3>1, BytesWithin
    <3> QED
      BY <2>3, <3>2
  <2> QED
    BY <2>2, <2>3
<1>9. Holds(new, bs)
  <2>1. ASSUME NEW f \in Bytes(fs) PROVE \E g \in Bytes(new) : Bytes(f) \subseteq Bytes(g)
    <3>1. PICK n \in DOMAIN fs : fs[n] = f
      BY InBytes, Zenon
    <3>2. new[n] \in Bytes(new)
      BY <1>1, InBytes, Zenon
    <3> QED
      BY <1>8, <3>1, <3>2
  <2> QED
    BY <2>1, Zenon DEF Holds
<1>10. ASSUME x = 0 \/ k <= x PROVE LastIs(new, x)
  <2>1. \A g \in DOMAIN new : new[g] # <<>> /\ x # 0 => g <= x
    BY <1>1, <1>10 DEF LastIs
  <2> QED
    BY <2>1 DEF LastIs
<1>11. Bytes(w) \subseteq Bytes(new[k]) /\ new[k] \in Bytes(new)
  <2>1. \A i \in DOMAIN w : \E j \in DOMAIN new[k] : new[k][j] = w[i]
    BY <1>1
  <2>2. Bytes(w) \subseteq Bytes(new[k])
    BY <2>1, BytesWithin
  <2>3. new[k] \in Bytes(new)
    BY <1>1, InBytes, Zenon
  <2> QED
    BY <2>2, <2>3
<1> QED
  BY <1>6, <1>7, <1>9, <1>10, <1>11 DEF new

-----------------------------------------------------------------------------
(* The inductive invariant *)

\* The bytes that were written, or not, before this block.
Base == IF hook = "write" THEN read - Len(block) ELSE read

FilesOK ==
    /\ files \in Seq(Seq(Nat))
    /\ FileTypeOK
    /\ 0 \notin rotated /\ fd \notin rotated

\* The block that is being written is behind all that was; only the file that is
\* open, and the one that has the name, which is not older, may be the last.
BytesOK ==
    /\ hook = "write" => Follow(block, Base) /\ Base \in Nat
    /\ Ordered(files) /\ AtMost(files, Base) /\ Holds(files, accepted)
    /\ LastIs(files, path) /\ LastIs(files, fd)
    /\ fd # 0 /\ path # 0 => fd <= path

FileOK == FilesOK /\ (IF File THEN BytesOK ELSE files = <<>>)

LEMMA Primed ==
    /\ Ordered(files)' <=> Ordered(files')
    /\ AtMost(files, Base)' <=> AtMost(files', Base')
    /\ Holds(files, accepted)' <=> Holds(files', accepted')
    /\ LastIs(files, path)' <=> LastIs(files', path')
    /\ LastIs(files, fd)' <=> LastIs(files', fd')
    /\ Follow(block, Base)' <=> Follow(block', Base')
BY DEF Ordered, AtMost, Holds, LastIs, Follow, Bytes

\* Nothing of it changes.
LEMMA QuietOK ==
    ASSUME FileOK, UNCHANGED <<conf, fileVars>>,
           File => UNCHANGED <<read, block, accepted>> /\ (hook' = "write" <=> hook = "write")
    PROVE  FileOK'
<1>1. FilesOK' /\ File' = File
  BY DEF FileOK, FilesOK, fileVars, FileTypeOK, File
<1>2. CASE File
  <2>1. Base' = Base
    BY <1>2 DEF Base
  <2>2. BytesOK'
    BY <1>2, <2>1, Primed DEF FileOK, BytesOK, fileVars
  <2> QED
    BY <1>1, <1>2, <2>2 DEF FileOK
<1>3. CASE ~File
  BY <1>1, <1>3 DEF FileOK, fileVars
<1> QED
  BY <1>2, <1>3

\* No byte is written, and it is not begun to write.
LEMMA UnwrittenOK ==
    ASSUME FileOK, InputOK, WorkerOK, File, File', FilesOK', UNCHANGED <<read, accepted>>,
           files' \in {files, Append(files, <<>>)},
           path' \in {0, path} \/ (path' = Len(files) + 1 /\ files' # files),
           fd' \in {0, fd} \/ fd' = path',
           fd' # 0 /\ path' # 0 => fd' <= path',
           hook' # "write" \/ (hook' = hook /\ block' = block)
    PROVE  FileOK'
<1>1. read \in Nat /\ block \in Seq(Nat) /\ Len(block) \in Nat /\ files \in Seq(Seq(Nat))
  BY DEF InputOK, ExecTypeOK, WorkerOK, FileOK, FilesOK
<1>2. Base' \in Nat /\ Base \in Nat /\ Base <= Base' /\ Base' \in {Base, read}
  <2>1. Base \in Nat /\ Base <= read
    BY <1>1 DEF Base, FileOK, BytesOK
  <2>2. Base' = Base \/ Base' = read
    BY DEF Base
  <2> QED
    BY <1>1, <2>1, <2>2
<1>3. hook' = "write" => Follow(block', Base') /\ Base' \in Nat
  BY <1>2 DEF Base, FileOK, BytesOK
<1>4. Ordered(files) /\ AtMost(files, Base) /\ Holds(files, accepted)
      /\ LastIs(files, path) /\ LastIs(files, fd)
  BY DEF FileOK, BytesOK
<1>5. Ordered(files') /\ AtMost(files', Base) /\ Holds(files', accepted)
      /\ LastIs(files', path) /\ LastIs(files', fd)
      /\ (files' # files => LastIs(files', Len(files) + 1))
  <2>1. CASE files' = files
    BY <1>4, <2>1
  <2>2. CASE files' = Append(files, <<>>)
    BY <1>1, <1>4, <2>2, NewFileKeeps
  <2> QED
    BY <2>1, <2>2
<1>6. LastIs(files', path') /\ LastIs(files', fd')
  <2>1. LastIs(files', 0)
    BY DEF LastIs
  <2> QED
    BY <1>5, <2>1
<1>7. AtMost(files', Base')
  <2>1. \A f \in DOMAIN files' : \A i \in DOMAIN files'[f] : files'[f][i] \in Nat
    BY <1>1 DEF FilesOK
  <2> QED
    BY <1>2, <1>5, <2>1 DEF AtMost
<1>8. BytesOK'
  BY <1>3, <1>5, <1>6, <1>7, Primed DEF BytesOK
<1> QED
  BY <1>8 DEF FileOK

LEMMA FilesTyped ==
    ASSUME FilesOK
    PROVE  /\ files \in Seq(Seq(Nat)) /\ Len(files) \in Nat /\ DOMAIN files = 1 .. Len(files)
           /\ path \in 0 .. Len(files) /\ fd \in 0 .. Len(files) /\ rotated \subseteq 0 .. Len(files)
           /\ Append(files, <<>>) \in Seq(Seq(Nat)) /\ Len(Append(files, <<>>)) = Len(files) + 1
           /\ path \notin rotated /\ fd \notin rotated /\ 0 \notin rotated /\ Len(files) + 1 \notin rotated
           /\ 0 .. Len(files) \subseteq 0 .. Len(files) + 1 /\ Len(files) + 1 \in 0 .. Len(files) + 1
<1>1. files \in Seq(Seq(Nat)) /\ Len(files) \in Nat /\ DOMAIN files = 1 .. Len(files)
  BY DEF FilesOK
<1>2. path \in 0 .. Len(files) /\ fd \in 0 .. Len(files) /\ rotated \subseteq 0 .. Len(files)
  BY DEF FilesOK, FileTypeOK
<1>3. Append(files, <<>>) \in Seq(Seq(Nat)) /\ Len(Append(files, <<>>)) = Len(files) + 1
  BY <1>1, NewFile
<1>4. Len(files) + 1 \notin 0 .. Len(files)
      /\ 0 .. Len(files) \subseteq 0 .. Len(files) + 1 /\ Len(files) + 1 \in 0 .. Len(files) + 1
  BY <1>1
<1> QED
  BY <1>1, <1>2, <1>3, <1>4 DEF FilesOK, FileTypeOK

\* The hooks and the deeds of others that write nothing.
LEMMA UnwrittenSteps ==
    ASSUME WorkerOK, InputOK, FileOK, UNCHANGED <<conf, read>>,
           NoHook \/ UseCached \/ OpenAnew \/ OpenFails \/ UncompressFails \/ WriteFreed \/ Others
    PROVE  FileOK'
<1>0. File /\ File' /\ FilesOK
  BY FileHooksFile DEF FileHooks, FileOK, File
<1>1. /\ files \in Seq(Seq(Nat)) /\ Len(files) \in Nat
      /\ path \in 0 .. Len(files) /\ fd \in 0 .. Len(files) /\ rotated \subseteq 0 .. Len(files)
      /\ Append(files, <<>>) \in Seq(Seq(Nat)) /\ Len(Append(files, <<>>)) = Len(files) + 1
      /\ path \notin rotated /\ fd \notin rotated /\ 0 \notin rotated /\ Len(files) + 1 \notin rotated
      /\ 0 .. Len(files) \subseteq 0 .. Len(files) + 1 /\ Len(files) + 1 \in 0 .. Len(files) + 1
  BY <1>0, FilesTyped
<1>2. /\ fd # 0 /\ path # 0 => fd <= path
      /\ traced \in BOOLEAN /\ dangling \in BOOLEAN /\ (~traced => fd = 0)
  BY <1>0 DEF FileOK, BytesOK, FilesOK, FileTypeOK
<1>3. block \in Seq(Nat) /\ accepted \in Seq(Seq(Nat))
  BY DEF WorkerOK
<1>4. CASE NoHook \/ UseCached
  <2>1. /\ hook \in {"initOutput", "cleanOutput", "before"} /\ Return("ok")
        /\ UNCHANGED <<files, path, traced, fd, rotated>> /\ dangling' \in BOOLEAN
    BY <1>2, <1>4 DEF NoHook, UseCached, fileVars
  <2>2. hook' # "write" /\ accepted' = accepted
    BY <1>3, <2>1, ReturnOK DEF Hooks
  <2>3. FilesOK'
    BY <1>0, <1>1, <1>2, <2>1 DEF FilesOK, FileTypeOK
  <2> QED
    BY <1>0, <1>2, <2>1, <2>2, <2>3, UnwrittenOK
<1>5. CASE OpenAnew
  <2>1. /\ hook = "before" /\ Return("ok") /\ rotated' = rotated /\ traced' = TRUE /\ dangling' = FALSE
        /\ files' = IF path = 0 THEN Append(files, <<>>) ELSE files
        /\ path' = (IF path = 0 THEN Len(files) + 1 ELSE path) /\ fd' = path'
    BY <1>5 DEF OpenAnew, OpenFile
  <2>2. hook' # "write" /\ accepted' = accepted
    BY <1>3, <2>1, ReturnOK DEF Hooks
  <2>3. FilesOK'
    <3>1. CASE path = 0
      <4>1. files' = Append(files, <<>>) /\ path' = Len(files) + 1 /\ fd' = path'
        BY <2>1, <3>1
      <4> QED
        BY <1>1, <2>1, <4>1 DEF FilesOK, FileTypeOK
    <3>2. CASE path # 0
      BY <1>0, <1>1, <2>1, <3>2 DEF FilesOK, FileTypeOK
    <3> QED
      BY <3>1, <3>2
  <2>4. path' \in {0, path} \/ (path' = Len(files) + 1 /\ files' # files)
    <3>1. Append(files, <<>>) # files
      BY <1>1
    <3> QED
      BY <2>1, <3>1
  <2>5. fd' <= path'
    BY <1>1, <2>1
  <2> QED
    BY <1>0, <2>1, <2>2, <2>3, <2>4, <2>5, UnwrittenOK
<1>6. CASE OpenFails \/ UncompressFails
  <2>1. /\ hook \in {"before", "write"} /\ (Return("soft") \/ Return("hard"))
        /\ UNCHANGED <<files, path, rotated>> /\ traced' = FALSE /\ fd' = 0 /\ dangling' = TRUE
    BY <1>6 DEF OpenFails, UncompressFails, FreeTrace, Writing
  <2>2. hook' # "write" /\ accepted' = accepted
    BY <1>3, <2>1, ReturnOK DEF Hooks
  <2>3. FilesOK'
    <3>1. {path', fd'} \cup rotated' \subseteq 0 .. Len(files')
      BY <1>1, <2>1
    <3> QED
      BY <1>1, <2>1, <3>1 DEF FilesOK, FileTypeOK
  <2> QED
    BY <1>0, <2>1, <2>2, <2>3, UnwrittenOK
<1>7. CASE WriteFreed
  <2>1. hook = "write" /\ UNCHANGED fileVars /\ ((hook' = "exit" /\ accepted' = accepted) \/ Return("soft"))
    BY <1>7 DEF WriteFreed
  <2>2. hook' # "write" /\ accepted' = accepted
    BY <1>3, <2>1, ReturnOK DEF Hooks
  <2>3. FilesOK'
    BY <1>0, <2>1 DEF FilesOK, FileTypeOK, fileVars
  <2> QED
    BY <1>0, <1>2, <2>1, <2>2, <2>3, UnwrittenOK DEF fileVars
<1>8. CASE MoveAway
  <2>1. path' = 0 /\ UNCHANGED <<hook, block, accepted, files, traced, fd, dangling, rotated>>
    BY <1>8 DEF MoveAway, loopVars
  <2>2. FilesOK'
    BY <1>0, <1>1, <2>1 DEF FilesOK, FileTypeOK
  <2> QED
    BY <1>0, <2>1, <2>2, UnwrittenOK
<1>9. CASE CreateEmpty
  <2>1. /\ path = 0 /\ files' = Append(files, <<>>) /\ path' = Len(files) + 1
        /\ UNCHANGED <<hook, block, accepted, traced, fd, dangling, rotated>>
    BY <1>9 DEF CreateEmpty, loopVars
  <2>2. FilesOK'
    <3>1. Len(files') = Len(files) + 1 /\ files' \in Seq(Seq(Nat))
      BY <1>1, <2>1
    <3>2. {path', fd'} \cup rotated' \subseteq 0 .. Len(files')
      BY <1>1, <2>1, <3>1
    <3> QED
      BY <1>1, <1>2, <2>1, <3>1, <3>2 DEF FilesOK, FileTypeOK
  <2>3. fd' <= path' /\ files' # files
    BY <1>1, <2>1
  <2> QED
    BY <1>0, <2>1, <2>2, <2>3, UnwrittenOK
<1> QED
  BY <1>4, <1>5, <1>6, <1>7, <1>8, <1>9 DEF Others

\* The block, or the first bytes of it, is written to the file that is open.
LEMMA AppendOK ==
    ASSUME WorkerOK, InputOK, FileOK, Writing, fd # 0, NEW n \in 0 .. Len(block)
    PROVE  LET w == SubSeq(block, 1, n)
               new == [files EXCEPT ![fd] = @ \o w]
           IN  /\ new \in Seq(Seq(Nat)) /\ Len(new) = Len(files)
               /\ Ordered(new) /\ AtMost(new, read) /\ Holds(new, accepted)
               /\ LastIs(new, path) /\ LastIs(new, fd)
               /\ \E f \in Bytes(new) : Bytes(w) \subseteq Bytes(f)
               /\ \A f \in rotated : new[f] = files[f]
<1> DEFINE w == SubSeq(block, 1, n)
           new == [files EXCEPT ![fd] = @ \o w]
<1>1. /\ File /\ FilesOK /\ BytesOK /\ hook = "write"
      /\ block \in Seq(Nat) /\ read \in Nat
  BY DEF Writing, FileOK, WorkerOK, InputOK, ExecTypeOK
<1>2. /\ files \in Seq(Seq(Nat)) /\ fd \in DOMAIN files /\ fd \in Nat /\ path \in Nat
      /\ rotated \subseteq 0 .. Len(files) /\ 0 \notin rotated /\ fd \notin rotated
      /\ DOMAIN files = 1 .. Len(files) /\ Len(files) \in Nat
  <2>1. /\ files \in Seq(Seq(Nat)) /\ Len(files) \in Nat /\ DOMAIN files = 1 .. Len(files)
        /\ path \in 0 .. Len(files) /\ fd \in 0 .. Len(files) /\ rotated \subseteq 0 .. Len(files)
        /\ fd \notin rotated /\ 0 \notin rotated
    BY <1>1, FilesTyped
  <2> QED
    BY <2>1
<1>3. /\ w \in Seq(Nat) /\ Len(w) = n /\ n \in Nat /\ n <= Len(block) /\ Len(block) \in Nat
      /\ \A i \in DOMAIN w : i \in DOMAIN block /\ w[i] = block[i]
  BY <1>1
<1>4. Base = read - Len(block) /\ Base \in Nat /\ Follow(block, Base)
  BY <1>1 DEF Base, BytesOK
<1>5. Follow(w, Base)
  BY <1>3, <1>4 DEF Follow
<1> HIDE DEF w
<1>6. /\ Ordered(files) /\ AtMost(files, Base) /\ Holds(files, accepted)
      /\ LastIs(files, path) /\ LastIs(files, fd) /\ (path = 0 \/ fd <= path)
  BY <1>1 DEF BytesOK
<1>7. /\ Ordered(new) /\ AtMost(new, Base + Len(w)) /\ Holds(new, accepted)
      /\ LastIs(new, path)
      /\ \E f \in Bytes(new) : Bytes(w) \subseteq Bytes(f)
  <2>1. path = 0 \/ fd <= path => LastIs(new, path)
    BY <1>2, <1>3, <1>4, <1>5, <1>6, WrittenKeeps
  <2>2. Ordered(new)
    BY <1>2, <1>3, <1>4, <1>5, <1>6, WrittenKeeps
  <2>3. AtMost(new, Base + Len(w))
    BY <1>2, <1>3, <1>4, <1>5, <1>6, WrittenKeeps
  <2>4. Holds(new, accepted)
    BY <1>2, <1>3, <1>4, <1>5, <1>6, WrittenKeeps
  <2>5. new[fd] \in Bytes(new) /\ Bytes(w) \subseteq Bytes(new[fd])
    BY <1>2, <1>3, <1>4, <1>5, <1>6, WrittenKeeps
  <2> HIDE DEF new
  <2> QED
    BY <1>6, <2>1, <2>2, <2>3, <2>4, <2>5
<1>8. LastIs(new, fd)
  <2>1. fd <= fd
    BY <1>2
  <2> QED
    BY <1>2, <1>3, <1>4, <1>5, <1>6, <2>1, WrittenKeeps
<1>9. /\ new \in Seq(Seq(Nat)) /\ Len(new) = Len(files) /\ DOMAIN new = DOMAIN files
      /\ \A f \in DOMAIN files : f # fd => new[f] = files[f]
  BY <1>2, <1>3, Written
<1> HIDE DEF new
<1>10. AtMost(new, read)
  <2>1. Base + Len(w) \in Nat /\ Base + Len(w) <= read
    BY <1>1, <1>3, <1>4
  <2>2. \A f \in DOMAIN new : \A i \in DOMAIN new[f] : new[f][i] \in Nat
    BY <1>9
  <2> QED
    BY <1>1, <1>7, <2>1, <2>2 DEF AtMost
<1>11. \A f \in rotated : new[f] = files[f]
  <2>1. \A f \in rotated : f \in DOMAIN files /\ f # fd
    BY <1>2
  <2> QED
    BY <1>9, <2>1
<1> QED
  BY <1>7, <1>8, <1>9, <1>10, <1>11 DEF new, w

\* What WriteOutputPlugin returned 0 for.
LEMMA HoldsMore ==
    ASSUME NEW fs, NEW bs \in Seq(Seq(Nat)), NEW b \in Seq(Nat), Holds(fs, bs),
           \E f \in Bytes(fs) : Bytes(b) \subseteq Bytes(f)
    PROVE  Holds(fs, Append(bs, b))
<1>1. SUFFICES ASSUME NEW c \in Bytes(Append(bs, b))
               PROVE  \E f \in Bytes(fs) : Bytes(c) \subseteq Bytes(f)
  BY DEF Holds
<1>2. PICK i \in DOMAIN Append(bs, b) : Append(bs, b)[i] = c
  BY InBytes, Zenon
<1>3. i \in DOMAIN bs \/ c = b
  <2>1. /\ Len(bs) \in Nat /\ DOMAIN bs = 1 .. Len(bs) /\ i \in 1 .. Len(bs) + 1
        /\ Append(bs, b)[Len(bs) + 1] = b
    OBVIOUS
  <2>2. i \in 1 .. Len(bs) \/ i = Len(bs) + 1
    BY <2>1
  <2> QED
    BY <1>2, <2>1, <2>2
<1>4. CASE i \in DOMAIN bs
  <2>1. bs[i] = c
    BY <1>2, <1>4
  <2>2. c \in Bytes(bs)
    BY <1>4, <2>1, InBytes, Zenon
  <2> QED
    BY <2>2 DEF Holds
<1> QED
  BY <1>3, <1>4

\* WriteOutputPlugin wrote the first n bytes of the block, and returns.
LEMMA WroteOK ==
    ASSUME WorkerOK, InputOK, FileOK, Writing, fd # 0, File', FilesOK', UNCHANGED read,
           NEW n \in 0 .. Len(block),
           LET new == [files EXCEPT ![fd] = @ \o SubSeq(block, 1, n)]
           IN  /\ files' \in {new, Append(new, <<>>)}
               /\ path' \in {0, path} \/ (path' = Len(files) + 1 /\ files' # new)
               /\ fd' \in {0, fd} \/ (fd' = Len(files) + 1 /\ files' # new),
           fd' # 0 /\ path' # 0 => fd' <= path',
           (Return("ok") /\ n = Len(block)) \/ Return("soft")
    PROVE  FileOK' /\ \A f \in rotated : files'[f] = files[f]
<1> DEFINE w == SubSeq(block, 1, n)
           new == [files EXCEPT ![fd] = @ \o w]
<1>1. /\ new \in Seq(Seq(Nat)) /\ Len(new) = Len(files)
      /\ Ordered(new) /\ AtMost(new, read) /\ Holds(new, accepted)
      /\ LastIs(new, path) /\ LastIs(new, fd)
      /\ \E f \in Bytes(new) : Bytes(w) \subseteq Bytes(f)
      /\ \A f \in rotated : new[f] = files[f]
  BY AppendOK
<1>2. block \in Seq(Nat) /\ accepted \in Seq(Seq(Nat)) /\ hook = "write" /\ read \in Nat
  BY DEF WorkerOK, Writing, InputOK, ExecTypeOK
<1>3. hook' # "write" /\ accepted' \in {accepted, Append(accepted, block)}
      /\ (accepted' # accepted => n = Len(block))
  BY <1>2, ReturnOK DEF Hooks
<1>4. n = Len(block) => w = block
  BY <1>2
<1>5. /\ files' \in {new, Append(new, <<>>)}
      /\ path' \in {0, path} \/ (path' = Len(new) + 1 /\ files' # new)
      /\ fd' \in {0, fd} \/ (fd' = Len(new) + 1 /\ files' # new)
  BY <1>1
<1> HIDE DEF new, w
<1>6. Holds(new, accepted')
  BY <1>1, <1>2, <1>3, <1>4, HoldsMore
<1>7. /\ Ordered(files') /\ AtMost(files', read) /\ Holds(files', accepted')
      /\ LastIs(files', path) /\ LastIs(files', fd) /\ LastIs(files', 0)
      /\ (files' # new => LastIs(files', Len(new) + 1))
  <2>1. LastIs(files', 0)
    BY DEF LastIs
  <2>2. CASE files' = new
    BY <1>1, <1>6, <2>1, <2>2
  <2>3. CASE files' = Append(new, <<>>)
    BY <1>1, <1>6, <2>1, <2>3, NewFileKeeps
  <2> QED
    BY <1>5, <2>2, <2>3
<1>8. LastIs(files', path') /\ LastIs(files', fd')
  BY <1>5, <1>7
<1>9. Base' = read
  BY <1>3 DEF Base
<1>10. BytesOK'
  BY <1>3, <1>7, <1>8, <1>9, Primed DEF BytesOK
<1>11. \A f \in rotated : files'[f] = files[f]
  <2>1. \A f \in rotated : f \in DOMAIN new
    <3>1. FilesOK
      BY DEF FileOK
    <3>2. rotated \subseteq 0 .. Len(files) /\ 0 \notin rotated /\ Len(files) \in Nat
      BY <3>1, FilesTyped
    <3>3. DOMAIN new = 1 .. Len(files)
      BY <1>1
    <3> QED
      BY <3>2, <3>3
  <2>2. \A f \in DOMAIN new : Append(new, <<>>)[f] = new[f]
    BY <1>1, NewFile
  <2> QED
    BY <1>1, <1>5, <2>1, <2>2
<1> QED
  BY <1>10, <1>11 DEF FileOK

LEMMA WritingSteps ==
    ASSUME WorkerOK, InputOK, FileOK, UNCHANGED <<conf, read>>,
           WriteBlock \/ WriteAndRotate \/ RotateFails \/ WriteFails
    PROVE  FileOK' /\ \A f \in rotated : files'[f] = files[f]
<1>0. File /\ File' /\ FilesOK /\ Writing
  BY DEF FileOK, File, WriteBlock, WriteAndRotate, RotateFails, WriteFails, Writing
<1>1. /\ files \in Seq(Seq(Nat)) /\ Len(files) \in Nat /\ DOMAIN files = 1 .. Len(files)
      /\ path \in 0 .. Len(files) /\ fd \in 0 .. Len(files) /\ rotated \subseteq 0 .. Len(files)
      /\ path \notin rotated /\ fd \notin rotated /\ 0 \notin rotated /\ Len(files) + 1 \notin rotated
      /\ 0 .. Len(files) \subseteq 0 .. Len(files) + 1 /\ Len(files) + 1 \in 0 .. Len(files) + 1
  BY <1>0, FilesTyped
<1>2. /\ fd # 0 /\ path # 0 => fd <= path
      /\ traced \in BOOLEAN /\ dangling \in BOOLEAN /\ (~traced => fd = 0)
  BY <1>0 DEF FileOK, BytesOK, FilesOK, FileTypeOK
<1>3. block \in Seq(Nat) /\ Len(block) \in Nat /\ SubSeq(block, 1, Len(block)) = block
      /\ Len(block) \in 0 .. Len(block)
  BY DEF WorkerOK
<1>4. ASSUME fd # 0, NEW n \in 0 .. Len(block)
      PROVE  LET new == [files EXCEPT ![fd] = @ \o SubSeq(block, 1, n)] IN
             /\ new \in Seq(Seq(Nat)) /\ Len(new) = Len(files)
             /\ Append(new, <<>>) \in Seq(Seq(Nat)) /\ Len(Append(new, <<>>)) = Len(files) + 1
             /\ Append(new, <<>>) # new
  <2> DEFINE new == [files EXCEPT ![fd] = @ \o SubSeq(block, 1, n)]
  <2>1. new \in Seq(Seq(Nat)) /\ Len(new) = Len(files)
    BY <1>0, <1>4, AppendOK
  <2> HIDE DEF new
  <2>2. Append(new, <<>>) \in Seq(Seq(Nat)) /\ Len(Append(new, <<>>)) = Len(files) + 1
    BY <2>1, NewFile
  <2>3. Append(new, <<>>) # new
    BY <1>1, <2>1, <2>2
  <2> QED
    BY <2>1, <2>2, <2>3 DEF new
<1> DEFINE all == [files EXCEPT ![fd] = @ \o SubSeq(block, 1, Len(block))]
<1>5. Appended(block) = all
  BY <1>3 DEF Appended
<1>6. fd # 0 => /\ all \in Seq(Seq(Nat)) /\ Len(all) = Len(files)
                /\ Append(all, <<>>) \in Seq(Seq(Nat)) /\ Len(Append(all, <<>>)) = Len(files) + 1
                /\ Append(all, <<>>) # all
  BY <1>3, <1>4
<1>7. CASE WriteBlock
  <2>1. fd # 0 /\ files' = all /\ Return("ok") /\ UNCHANGED <<path, traced, fd, dangling, rotated>>
    BY <1>5, <1>7 DEF WriteBlock
  <2>2. FilesOK'
    BY <1>0, <1>6, <2>1 DEF FilesOK, FileTypeOK
  <2> QED
    BY <1>0, <1>2, <1>3, <2>1, <2>2, WroteOK
<1>8. CASE WriteAndRotate
  <2>1. /\ fd # 0 /\ path # 0 /\ Return("ok") /\ UNCHANGED <<traced, dangling>>
        /\ rotated' = rotated \cup {path}
        /\ \/ files' = Append(all, <<>>) /\ path' = Len(files) + 1 /\ fd' = path'
           \/ files' = all /\ path' = 0 /\ fd' = 0
    BY <1>5, <1>8 DEF WriteAndRotate, Reopen
  <2>2. Len(files') \in Nat /\ Len(files) <= Len(files') /\ files' \in Seq(Seq(Nat))
        /\ path' \in 0 .. Len(files') /\ fd' = path' /\ path' \notin rotated' /\ 0 \notin rotated'
    <3>1. CASE files' = Append(all, <<>>) /\ path' = Len(files) + 1 /\ fd' = path'
      <4>1. path' \notin rotated' /\ 0 \notin rotated'
        BY <1>1, <2>1, <3>1
      <4>2. Len(files') = Len(files) + 1 /\ files' \in Seq(Seq(Nat))
        BY <1>6, <2>1, <3>1
      <4> HIDE DEF all
      <4> QED
        BY <1>1, <3>1, <4>1, <4>2
    <3>2. CASE files' = all /\ path' = 0 /\ fd' = 0
      <4>1. path' \notin rotated' /\ 0 \notin rotated'
        BY <1>1, <2>1, <3>2
      <4>2. Len(files') = Len(files) /\ files' \in Seq(Seq(Nat))
        BY <1>6, <2>1, <3>2
      <4> HIDE DEF all
      <4> QED
        BY <1>1, <3>2, <4>1, <4>2
    <3> QED
      BY <2>1, <3>1, <3>2
  <2>3. {path', fd'} \cup rotated' \subseteq 0 .. Len(files')
    <3>1. 0 .. Len(files) \subseteq 0 .. Len(files')
      BY <1>1, <2>2
    <3> QED
      BY <1>1, <2>1, <2>2, <3>1
  <2>4. FilesOK'
    <3>1. ~traced' => fd' = 0
      BY <1>2, <2>1
    <3> QED
      BY <1>2, <2>1, <2>2, <2>3, <3>1 DEF FilesOK, FileTypeOK
  <2>5. fd' # 0 /\ path' # 0 => fd' <= path'
    BY <1>1, <2>2
  <2>6. /\ files' \in {all, Append(all, <<>>)}
        /\ path' \in {0, path} \/ (path' = Len(files) + 1 /\ files' # all)
        /\ fd' \in {0, fd} \/ (fd' = Len(files) + 1 /\ files' # all)
    BY <1>6, <2>1
  <2> QED
    BY <1>0, <1>3, <2>1, <2>4, <2>5, <2>6, WroteOK
<1>9. CASE RotateFails
  <2>1. /\ fd # 0 /\ files' = all /\ Return("ok") /\ UNCHANGED <<path, rotated>>
        /\ traced' = FALSE /\ fd' = 0 /\ dangling' = TRUE
    BY <1>5, <1>9 DEF RotateFails, FreeTrace
  <2>2. FilesOK'
    <3>1. Len(files') = Len(files) /\ files' \in Seq(Seq(Nat))
      BY <1>6, <2>1
    <3> HIDE DEF all
    <3>2. {path', fd'} \cup rotated' \subseteq 0 .. Len(files')
      BY <1>1, <2>1, <3>1
    <3> QED
      BY <1>1, <2>1, <3>1, <3>2 DEF FilesOK, FileTypeOK
  <2> QED
    BY <1>0, <1>3, <2>1, <2>2, WroteOK
<1>10. CASE WriteFails /\ fd # 0
  <2>1. /\ Return("soft") /\ UNCHANGED <<path, rotated>>
        /\ traced' = FALSE /\ fd' = 0 /\ dangling' = TRUE
        /\ \E n \in 0 .. Len(block) - 1 : files' = Appended(SubSeq(block, 1, n))
    BY <1>10 DEF WriteFails, FreeTrace
  <2>2. PICK n \in 0 .. Len(block) - 1 : files' = [files EXCEPT ![fd] = @ \o SubSeq(block, 1, n)]
    BY <2>1 DEF Appended
  <2>3. n \in 0 .. Len(block)
    BY <1>3
  <2>4. files' \in Seq(Seq(Nat)) /\ Len(files') = Len(files)
    BY <1>4, <1>10, <2>2, <2>3
  <2>5. FilesOK'
    <3>1. {path', fd'} \cup rotated' \subseteq 0 .. Len(files')
      BY <1>1, <2>1, <2>4
    <3> QED
      BY <1>1, <2>1, <2>4, <3>1 DEF FilesOK, FileTypeOK
  <2> QED
    BY <1>0, <1>10, <2>1, <2>2, <2>3, <2>5, WroteOK
<1>11. CASE WriteFails /\ fd = 0
  <2>1. /\ Return("soft") /\ UNCHANGED <<files, path, rotated>> /\ hook = "write"
        /\ traced' = FALSE /\ fd' = 0 /\ dangling' = TRUE
    BY <1>11 DEF WriteFails, FreeTrace, Writing
  <2>2. hook' # "write" /\ accepted' = accepted
    BY <2>1, ReturnOK DEF Hooks, WorkerOK
  <2>3. FilesOK'
    <3>1. {path', fd'} \cup rotated' \subseteq 0 .. Len(files')
      BY <1>1, <2>1
    <3> QED
      BY <1>1, <2>1, <3>1 DEF FilesOK, FileTypeOK
  <2> QED
    BY <1>0, <2>1, <2>2, <2>3, UnwrittenOK
<1> QED
  BY <1>7, <1>8, <1>9, <1>10, <1>11

-----------------------------------------------------------------------------
(* Every step *)

\* A block is read: it begins behind all that was read before.
LEMMA ReadOK ==
    ASSUME WorkerOK, InputOK, FileOK, UNCHANGED <<conf, fileVars>>,
           \/ ReadCommand
           \/ Poll /\ UNCHANGED execVars
    PROVE  FileOK'
<1>1. /\ FilesOK' /\ File' = File /\ hook = "read" /\ accepted' = accepted
      /\ read \in Nat /\ block \in Seq(Nat)
  BY DEF FileOK, FilesOK, fileVars, FileTypeOK, File, ReadCommand, Poll, Return, WorkerOK,
         InputOK, ExecTypeOK
<1>2. CASE ~File
  BY <1>1, <1>2 DEF FileOK, fileVars
<1>3. CASE File
  <2>1. Base = read /\ BytesOK
    BY <1>1, <1>3 DEF Base, FileOK
  <2>2. read' \in Nat /\ read <= read' /\ (hook' = "write" => Follow(block', read) /\ Base' = read)
        /\ (hook' # "write" => Base' = read')
    <3>1. CASE ReadCommand
      <4>1. Available \in Nat /\ read' = read + Available /\ block' = [i \in 1 .. Available |-> read + i]
        BY <1>1, <3>1, ExecAssumption DEF ReadCommand, Available, InputOK, ExecTypeOK
      <4>2. Len(block') = Available /\ Follow(block', read)
        BY <4>1 DEF Follow
      <4> QED
        BY <1>1, <4>1, <4>2 DEF Base
    <3>2. CASE Poll /\ UNCHANGED execVars
      <4>1. read' = read /\ block' = <<>>
        BY <3>2 DEF Poll, execVars
      <4>2. Len(block') = 0 /\ Follow(block', read)
        BY <4>1 DEF Follow
      <4> QED
        BY <1>1, <4>1, <4>2 DEF Base
    <3> QED
      BY <3>1, <3>2
  <2>3. AtMost(files', Base')
    <3>1. \A f \in DOMAIN files : \A i \in DOMAIN files[f] : files[f][i] \in Nat
      BY DEF FileOK, FilesOK
    <3>2. AtMost(files, read') /\ AtMost(files, read)
      BY <1>1, <2>1, <2>2, <3>1 DEF BytesOK, AtMost
    <3> QED
      BY <2>2, <3>2 DEF fileVars
  <2>4. hook' = "write" => Follow(block', Base') /\ Base' \in Nat
    BY <1>1, <2>2
  <2>5. BytesOK'
    BY <1>1, <2>1, <2>3, <2>4, Primed DEF BytesOK, fileVars
  <2> QED
    BY <1>1, <1>3, <2>5 DEF FileOK
<1> QED
  BY <1>2, <1>3

\* What is no callback of output-file, nobody's deed to a file, and no read.
LEMMA QuietSteps ==
    ASSUME WorkerOK, StepOK, [Next]_vars, ~ReadCommand, ~(Poll /\ UNCHANGED execVars),
           ~(FileHooks /\ UNCHANGED inputVars), ~(Others /\ UNCHANGED inputVars), File
    PROVE  UNCHANGED <<read, block, accepted>> /\ (hook' = "write" <=> hook = "write")
<1>1. ~KafkaOutHooks /\ ~IngeekHooks
  BY KafkaOutHooksKafka, IngeekHooksIngeek DEF File, Kafka, Ingeek
<1>2. CASE Loop
  BY <1>2 DEF Loop, EventLoop, EpollWait, Timeout, HandleQuit, BatchEnds, HandleEvent, AfterBatch,
       inputVars, execVars
<1>3. CASE InputHooks
  <2>1. StartCommand \/ CleanCommand \/ (Subscribe /\ UNCHANGED execVars)
    BY <1>3 DEF InputHooks, ExecHooks, KafkaInHooks
  <2>2. hook \in {"initInput", "cleanInput"} /\ (Return("ok") \/ Return("hard")) /\ UNCHANGED <<read, block>>
    BY <2>1 DEF StartCommand, CleanCommand, Subscribe, execVars, loopVars
  <2> QED
    BY <2>2, ReturnOK DEF WorkerOK, Hooks
<1>4. CASE PipeCloses /\ UNCHANGED <<inputVars, outputVars>>
  BY <1>4 DEF PipeCloses, inputVars, execVars
<1>5. CASE Command /\ UNCHANGED workerVars
  BY <1>5 DEF Command, CommandWrites, CommandEnds, workerVars
<1>6. CASE (PeerCloses \/ Deliver \/ Enable) /\ UNCHANGED inputVars
  BY <1>6 DEF PeerCloses, Deliver, Enable, inputVars, execVars, loopVars, workerVars
<1>7. CASE UNCHANGED vars
  BY <1>7 DEF vars, workerVars, inputVars, execVars
<1> QED
  BY <1>1, <1>2, <1>3, <1>4, <1>5, <1>6, <1>7 DEF Next, Work, OutputHooks, Outside, Delivery, Enabled

LEMMA FileStep ==
    ASSUME WorkerOK, InputOK, StepOK, FileOK, [Next]_vars
    PROVE  FileOK' /\ \A f \in rotated : files'[f] = files[f]
<1>0. UNCHANGED conf
  BY ConfConstant
<1>1. CASE FileHooks /\ UNCHANGED inputVars
  <2>1. UNCHANGED read
    BY <1>1 DEF inputVars, execVars
  <2>2. CASE WriteBlock \/ WriteAndRotate \/ RotateFails \/ WriteFails
    BY <1>0, <2>1, <2>2, WritingSteps
  <2>3. CASE NoHook \/ UseCached \/ OpenAnew \/ OpenFails \/ UncompressFails \/ WriteFreed
    <3>1. FileOK'
      BY <1>0, <2>1, <2>3, UnwrittenSteps
    <3>2. files' \in {files, Append(files, <<>>)}
      BY <2>3 DEF NoHook, UseCached, OpenAnew, OpenFile, OpenFails, UncompressFails, WriteFreed, fileVars
    <3>3. \A f \in rotated : f \in DOMAIN files
      <4>1. rotated \subseteq 0 .. Len(files) /\ 0 \notin rotated /\ DOMAIN files = 1 .. Len(files)
            /\ Len(files) \in Nat
        BY FilesTyped DEF FileOK
      <4> QED
        BY <4>1
    <3>4. \A f \in DOMAIN files : Append(files, <<>>)[f] = files[f]
      BY NewFile DEF FileOK, FilesOK
    <3> QED
      BY <3>1, <3>2, <3>3, <3>4
  <2> QED
    BY <1>1, <2>2, <2>3 DEF FileHooks
<1>2. CASE Others /\ UNCHANGED inputVars
  <2>1. UNCHANGED read
    BY <1>2 DEF inputVars, execVars
  <2>2. FileOK'
    BY <1>0, <1>2, <2>1, UnwrittenSteps
  <2>3. files' \in {files, Append(files, <<>>)}
    BY <1>2 DEF Others, MoveAway, CreateEmpty
  <2>4. \A f \in rotated : f \in DOMAIN files
    <3>1. rotated \subseteq 0 .. Len(files) /\ 0 \notin rotated /\ DOMAIN files = 1 .. Len(files)
          /\ Len(files) \in Nat
      BY FilesTyped DEF FileOK
    <3> QED
      BY <3>1
  <2>5. \A f \in DOMAIN files : Append(files, <<>>)[f] = files[f]
    BY NewFile DEF FileOK, FilesOK
  <2> QED
    BY <2>2, <2>3, <2>4, <2>5
<1>3. CASE UNCHANGED fileVars /\ ~(FileHooks /\ UNCHANGED inputVars) /\ ~(Others /\ UNCHANGED inputVars)
  <2>1. CASE ReadCommand \/ (Poll /\ UNCHANGED execVars)
    BY <1>0, <1>3, <2>1, ReadOK DEF fileVars
  <2>2. CASE ~ReadCommand /\ ~(Poll /\ UNCHANGED execVars)
    BY <1>0, <1>3, <2>2, QuietSteps, QuietOK DEF fileVars
  <2> QED
    BY <2>1, <2>2
<1> QED
  BY <1>1, <1>2, <1>3 DEF Next, Work, Loop, InputHooks, OutputHooks, Outside, Delivery, Enabled, vars, outputVars

-----------------------------------------------------------------------------
(* The theorems *)

FInv == IInv /\ FileOK

LEMMA InitFile == Init => FileOK
<1> SUFFICES ASSUME Init PROVE FileOK
  OBVIOUS
<1>1. /\ files = <<>> /\ path = 0 /\ fd = 0 /\ traced = FALSE /\ dangling = FALSE /\ rotated = {}
      /\ hook = "initOutput" /\ accepted = <<>>
  BY DEF Init, FileInit, WorkerInit
<1>2. Len(files) = 0 /\ DOMAIN files = {} /\ files \in Seq(Seq(Nat))
  BY <1>1
<1>3. FilesOK
  <2>1. 0 \in 0 .. 0
    OBVIOUS
  <2>2. {path, fd} \cup rotated \subseteq 0 .. Len(files)
    BY <1>1, <1>2, <2>1
  <2>3. 0 \notin rotated /\ fd \notin rotated /\ path \notin rotated
    BY <1>1
  <2>4. traced \in BOOLEAN /\ dangling \in BOOLEAN /\ (~traced => fd = 0)
    BY <1>1
  <2> QED
    BY <1>2, <2>2, <2>3, <2>4 DEF FilesOK, FileTypeOK
<1>4. Bytes(accepted) = {}
  BY <1>1 DEF Bytes
<1>5. BytesOK
  BY <1>1, <1>2, <1>4 DEF BytesOK, Ordered, AtMost, Holds, LastIs
<1> QED
  BY <1>1, <1>3, <1>5 DEF FileOK

\* With the part about files, too.
THEOREM FInvAlways == Spec => []FInv
<1>1. Init => FInv
  BY InitIInv, InitFile DEF FInv
<1>2. FInv /\ [Next]_vars => FInv'
  BY StepIInv, FileStep DEF FInv, IInv
<1> QED
  BY <1>1, <1>2, PTL DEF Spec

\* The type invariant: iov_array and parse_buffer of output-ingeek never overflow,
\* the queue of librdkafka is no longer than allowed, and no file that was rotated
\* away has the message's name again.
THEOREM TypeOKAlways == Spec => []TypeOK
<1>1. FInv => TypeOK
  BY DEF FInv, IInv, WorkerOK, InputOK, FileOK, FilesOK, KafkaOK, IngeekOK, TypeOK
<1> QED
  BY <1>1, FInvAlways, PTL

\* However rotations, failed opens and writes, structures that were freed too early
\* and files that others move away or create follow one another: each block that
\* WriteOutputPlugin of output-file returned 0 for is in one file, whole; no byte is
\* written twice; and the files, in the order they were created, hold the bytes in
\* order.
THEOREM FilesKeepAlways == Spec => []FilesKeep
<1>1. FInv => FilesKeep
  <2> SUFFICES ASSUME FInv PROVE FilesKeep
    OBVIOUS
  <2>1. CASE File
    <3>1. Ordered(files) /\ Holds(files, accepted)
      BY <2>1 DEF FInv, FileOK, BytesOK
    <3> QED
      BY <3>1 DEF FilesKeep, Ordered, Holds
  <2>2. CASE ~File
    <3>1. DOMAIN files = {}
      BY <2>2 DEF FInv, FileOK
    <3> QED
      BY <2>2, <3>1 DEF FilesKeep
  <2> QED
    BY <2>1, <2>2
<1> QED
  BY <1>1, FInvAlways, PTL

\* A file that RotatingFile renamed does not grow any more, and a message for which
\* BeforeWriteOutputPlugin returned 0 begins with the file that has its name,
\* unless somebody else put another one there.
THEOREM FileStepsAlways == Spec => FileSteps
<1>1. FInv /\ [Next]_vars =>
        [/\ \A f \in rotated : files'[f] = files[f]
         /\ File /\ hook = "before" /\ hook' = "read" /\ path \in {0, fd} => fd' = path' /\ fd' # 0]_<<hook, fileVars>>
  <2> SUFFICES ASSUME FInv, [Next]_vars
               PROVE  /\ \A f \in rotated : files'[f] = files[f]
                      /\ File /\ hook = "before" /\ hook' = "read" /\ path \in {0, fd} =>
                            fd' = path' /\ fd' # 0
    OBVIOUS
  <2>1. \A f \in rotated : files'[f] = files[f]
    BY FileStep DEF FInv, IInv
  <2>2. ASSUME File, hook = "before", hook' = "read", path \in {0, fd}
        PROVE  fd' = path' /\ fd' # 0
    <3>1. ~KafkaOutHooks /\ ~IngeekHooks
      BY <2>2, KafkaOutHooksKafka, IngeekHooksIngeek DEF File, Kafka, Ingeek, FInv, IInv
    <3>2. ~Loop /\ ~InputHooks
      BY <2>2 DEF Loop, EventLoop, EpollWait, Timeout, HandleQuit, BatchEnds, HandleEvent,
           InputHooks, ExecHooks, StartCommand, ReadCommand, CleanCommand, KafkaInHooks, Subscribe, Poll
    <3>3. FileHooks
      BY <2>2, <3>1, <3>2 DEF Next, Work, OutputHooks, Outside, Delivery, Enabled, vars, workerVars,
           PipeCloses, Others, MoveAway, CreateEmpty, PeerCloses, Deliver, Enable
    <3>4. UseCached \/ OpenAnew
      BY <2>2, <3>3 DEF FileHooks, NoHook, OpenFails, Return, InMessage, MessageEnds, Writing,
           WriteBlock, WriteAndRotate, RotateFails, WriteFails, UncompressFails, WriteFreed
    <3>5. CASE UseCached
      BY <2>2, <3>5 DEF UseCached, Cached
    <3>6. CASE OpenAnew
      <4>1. Len(files) \in Nat /\ path \in Nat
        BY FilesTyped DEF FInv, FileOK
      <4> QED
        BY <3>6, <4>1 DEF OpenAnew, OpenFile
    <3> QED
      BY <3>4, <3>5, <3>6
  <2> QED
    BY <2>1, <2>2
<1> QED
  BY <1>1, FInvAlways, PTL DEF Spec, FileSteps

-----------------------------------------------------------------------------
(* Sequences of sequences.  FlattenSeq folds over them; what it gives is     *)
(* proved by induction, for the set of the numbers that have a property: the *)
(* least number outside it would have its predecessor inside.                *)

\* Induction, for a set that a property defines.
LEMMA NatInd ==
    ASSUME NEW S \in SUBSET Nat, 0 \in S, \A n \in S : n + 1 \in S
    PROVE  S = Nat
<1>1. SUFFICES ASSUME Nat \ S # {} PROVE FALSE
  OBVIOUS
<1>2. PICK x \in Nat \ S : \A y \in Nat \ S : x <= y
  <2>1. PICK x \in Nat \ S : \A y \in Nat \ S : <<y, x>> \notin OpToRel(<, Nat)
    BY <1>1, NatLessThanWellFounded, WFMin
  <2>2. ASSUME NEW y \in Nat \ S PROVE x <= y
    <3>1. <<y, x>> \in Nat \X Nat /\ <<y, x>>[1] = y /\ <<y, x>>[2] = x
      OBVIOUS
    <3>2. ~(y < x)
      BY <2>1, <3>1 DEF OpToRel
    <3> QED
      BY <3>2
  <2> QED
    BY <2>2
<1>3. x # 0 /\ x - 1 \in Nat
  BY <1>2
<1>4. x - 1 \in S
  BY <1>2, <1>3
<1>5. (x - 1) + 1 = x
  BY <1>2
<1> QED
  BY <1>2, <1>4, <1>5

\* The concatenation of the first sequences of a sequence of sequences.
Running(f, s, n) ==
    f = [i \in 1 .. n |-> IF i = 1 THEN s[i] ELSE f[i - 1] \o s[i]]

\* There are such concatenations.
LEMMA RunningExists ==
    ASSUME NEW s, NEW m \in Nat
    PROVE  \E f : Running(f, s, m)
<1> DEFINE S == {n \in Nat : \E f : Running(f, s, n)}
<1>1. 0 \in S
  <2>1. Running(<<>>, s, 0)
    BY 1 .. 0 = {} DEF Running
  <2> QED
    BY <2>1
<1>2. ASSUME NEW n \in S PROVE n + 1 \in S
  <2>1. PICK f : Running(f, s, n)
    OBVIOUS
  <2> DEFINE g == [i \in 1 .. n + 1 |-> IF i <= n THEN f[i]
                                        ELSE IF i = 1 THEN s[i] ELSE f[i - 1] \o s[i]]
             h == [i \in 1 .. n + 1 |-> IF i = 1 THEN s[i] ELSE g[i - 1] \o s[i]]
  <2>2. ASSUME NEW i \in 1 .. n + 1 PROVE g[i] = h[i]
    <3>1. CASE i <= n
      <4>1. i \in 1 .. n /\ (i # 1 => i - 1 \in 1 .. n + 1 /\ i - 1 <= n)
        BY <3>1
      <4>2. f[i] = IF i = 1 THEN s[i] ELSE f[i - 1] \o s[i]
        BY <2>1, <4>1 DEF Running
      <4>3. g[i] = f[i] /\ (i # 1 => g[i - 1] = f[i - 1])
        BY <3>1, <4>1
      <4> QED
        BY <4>2, <4>3
    <3>2. CASE ~(i <= n)
      <4>1. i # 1 => i - 1 \in 1 .. n + 1 /\ i - 1 <= n
        BY <3>2
      <4> QED
        BY <3>2, <4>1
    <3> QED
      BY <3>1, <3>2
  <2>3. g = h
    BY <2>2
  <2>4. Running(g, s, n + 1)
    BY <2>3 DEF Running
  <2>5. n + 1 \in Nat
    OBVIOUS
  <2> QED
    BY <2>4, <2>5
<1>3. S = Nat
  <2> HIDE DEF S
  <2>1. S \in SUBSET Nat
    BY DEF S
  <2> QED
    BY <1>1, <1>2, <2>1, NatInd
<1>4. m \in S
  BY <1>3
<1> QED
  BY <1>4

\* Each one is the one before it with the next sequence behind.
LEMMA RunningStep ==
    ASSUME NEW s, NEW n \in Nat, NEW f, Running(f, s, n)
    PROVE  /\ n > 0 => f[1] = s[1]
           /\ \A i \in 1 .. n : i + 1 \in 1 .. n => f[i + 1] = f[i] \o s[i + 1]
<1>1. \A i \in 1 .. n : f[i] = IF i = 1 THEN s[i] ELSE f[i - 1] \o s[i]
  BY DEF Running
<1>2. n > 0 => 1 \in 1 .. n
  OBVIOUS
<1>3. ASSUME NEW i \in 1 .. n, i + 1 \in 1 .. n PROVE f[i + 1] = f[i] \o s[i + 1]
  <2>1. (i + 1) - 1 = i /\ i + 1 # 1
    OBVIOUS
  <2> QED
    BY <1>1, <1>3, <2>1
<1> QED
  BY <1>1, <1>2, <1>3

\* They are sequences of the same values.
LEMMA RunningType ==
    ASSUME NEW T, NEW s, NEW n \in Nat, \A i \in 1 .. n : s[i] \in Seq(T),
           NEW f, Running(f, s, n)
    PROVE  \A i \in 1 .. n : f[i] \in Seq(T)
<1>1. /\ n > 0 => f[1] = s[1]
      /\ \A i \in 1 .. n : i + 1 \in 1 .. n => f[i + 1] = f[i] \o s[i + 1]
  BY RunningStep
<1> DEFINE S == {k \in Nat : k + 1 \in 1 .. n => f[k + 1] \in Seq(T)}
<1>2. 0 \in S
  BY <1>1
<1>3. ASSUME NEW k \in S PROVE k + 1 \in S
  <2>1. k \in Nat /\ k + 1 \in Nat /\ (k + 1) + 1 = k + 2
    OBVIOUS
  <2>2. ASSUME k + 2 \in 1 .. n PROVE f[k + 2] \in Seq(T)
    <3>1. k + 1 \in 1 .. n /\ (k + 1) + 1 \in 1 .. n
      BY <2>1, <2>2
    <3>2. f[k + 1] \in Seq(T) /\ s[k + 2] \in Seq(T)
      BY <2>2, <3>1
    <3>3. f[k + 2] = f[k + 1] \o s[k + 2]
      BY <1>1, <2>1, <3>1
    <3> QED
      BY <3>2, <3>3
  <2> QED
    BY <2>1, <2>2
<1>4. S = Nat
  <2> HIDE DEF S
  <2>1. S \in SUBSET Nat
    BY DEF S
  <2> QED
    BY <1>2, <1>3, <2>1, NatInd
<1>5. ASSUME NEW i \in 1 .. n PROVE f[i] \in Seq(T)
  <2>1. i - 1 \in Nat /\ (i - 1) + 1 = i
    OBVIOUS
  <2>2. i - 1 \in S
    BY <1>4, <2>1
  <2> QED
    BY <2>1, <2>2
<1> QED
  BY <1>5

\* It depends on those sequences only.
LEMMA RunningUnique ==
    ASSUME NEW s, NEW m \in Nat, NEW f, Running(f, s, m),
           NEW t, NEW n \in Nat, NEW g, Running(g, t, n),
           m <= n, \A i \in 1 .. m : s[i] = t[i]
    PROVE  \A i \in 1 .. m : f[i] = g[i]
<1>1. /\ m > 0 => f[1] = s[1]
      /\ \A i \in 1 .. m : i + 1 \in 1 .. m => f[i + 1] = f[i] \o s[i + 1]
  BY RunningStep
<1>2. /\ n > 0 => g[1] = t[1]
      /\ \A i \in 1 .. n : i + 1 \in 1 .. n => g[i + 1] = g[i] \o t[i + 1]
  BY RunningStep
<1> DEFINE S == {k \in Nat : k + 1 \in 1 .. m => f[k + 1] = g[k + 1]}
<1>3. 0 \in S
  BY <1>1, <1>2
<1>4. ASSUME NEW k \in S PROVE k + 1 \in S
  <2>1. k \in Nat /\ k + 1 \in Nat /\ (k + 1) + 1 = k + 2
    OBVIOUS
  <2>2. ASSUME k + 2 \in 1 .. m PROVE f[k + 2] = g[k + 2]
    <3>1. k + 1 \in 1 .. m /\ (k + 1) + 1 \in 1 .. m /\ k + 1 \in 1 .. n /\ (k + 1) + 1 \in 1 .. n
      BY <2>1, <2>2
    <3>2. f[k + 1] = g[k + 1] /\ s[k + 2] = t[k + 2]
      BY <2>2, <3>1
    <3>3. f[k + 2] = f[k + 1] \o s[k + 2] /\ g[k + 2] = g[k + 1] \o t[k + 2]
      BY <1>1, <1>2, <2>1, <3>1
    <3> QED
      BY <3>2, <3>3
  <2> QED
    BY <2>1, <2>2
<1>5. S = Nat
  <2> HIDE DEF S
  <2>1. S \in SUBSET Nat
    BY DEF S
  <2> QED
    BY <1>3, <1>4, <2>1, NatInd
<1>6. ASSUME NEW i \in 1 .. m PROVE f[i] = g[i]
  <2>1. i - 1 \in Nat /\ (i - 1) + 1 = i
    OBVIOUS
  <2>2. i - 1 \in S
    BY <1>5, <2>1
  <2> QED
    BY <2>1, <2>2
<1> QED
  BY <1>6

\* FlattenSeq gives the last of them.
LEMMA FlattenRunning ==
    ASSUME NEW s, Len(s) \in Nat, Len(s) # 0
    PROVE  \E f : Running(f, s, Len(s)) /\ FlattenSeq(s) = f[Len(s)]
<1> DEFINE f == CHOOSE f : Running(f, s, Len(s))
<1>1. Running(f, s, Len(s))
  BY RunningExists, Zenon
<1>2. FlattenSeq(s) = f[Len(s)]
  BY DEF FlattenSeq, Running
<1> QED
  BY <1>1, <1>2

\* What FlattenSeq does.
LEMMA FlattenEmpty == FlattenSeq(<<>>) = <<>>
BY DEF FlattenSeq

\* It concatenates sequences of T to a sequence of T.
LEMMA FlattenType ==
    ASSUME NEW T, NEW s \in Seq(Seq(T))
    PROVE  FlattenSeq(s) \in Seq(T)
<1>1. CASE s = <<>>
  <2>1. FlattenSeq(s) = <<>>
    BY <1>1, FlattenEmpty
  <2> QED
    BY <2>1
<1>2. CASE s # <<>>
  <2>1. Len(s) \in Nat /\ Len(s) # 0 /\ Len(s) \in 1 .. Len(s) /\ \A i \in 1 .. Len(s) : s[i] \in Seq(T)
    BY <1>2
  <2>2. PICK f : Running(f, s, Len(s)) /\ FlattenSeq(s) = f[Len(s)]
    BY <2>1, FlattenRunning
  <2>3. \A i \in 1 .. Len(s) : f[i] \in Seq(T)
    BY <2>1, <2>2, RunningType
  <2> QED
    BY <2>1, <2>2, <2>3
<1> QED
  BY <1>1, <1>2

\* A sequence appended to the sequences comes last in their concatenation.
LEMMA FlattenAppend ==
    ASSUME NEW T, NEW s \in Seq(Seq(T)), NEW x \in Seq(T)
    PROVE  FlattenSeq(Append(s, x)) = FlattenSeq(s) \o x
<1> DEFINE t == Append(s, x)
           n == Len(s)
<1>1. n \in Nat /\ n + 1 \in Nat /\ n + 1 # 0 /\ n <= n + 1 /\ (n # 0 => n \in 1 .. n)
      /\ (n # 0 => n \in 1 .. n + 1) /\ n + 1 \in 1 .. n + 1 /\ (n = 0 <=> s = <<>>)
  OBVIOUS
<1>2. Len(t) = n + 1 /\ t[n + 1] = x /\ \A i \in 1 .. n : s[i] = t[i]
  <2>1. Append(s, x) \in Seq(Seq(T)) /\ Len(Append(s, x)) = Len(s) + 1
        /\ (\A i \in 1 .. Len(s) : Append(s, x)[i] = s[i]) /\ Append(s, x)[Len(s) + 1] = x
    BY AppendProperties
  <2> QED
    BY <2>1
<1> HIDE DEF t, n
<1>3. PICK g : Running(g, t, n + 1) /\ FlattenSeq(t) = g[n + 1]
  BY <1>1, <1>2, FlattenRunning
<1>4. /\ n + 1 > 0 => g[1] = t[1]
      /\ \A i \in 1 .. n + 1 : i + 1 \in 1 .. n + 1 => g[i + 1] = g[i] \o t[i + 1]
  BY <1>1, <1>3, RunningStep
<1>5. CASE n = 0
  <2>1. n + 1 = 1 /\ n + 1 > 0
    BY <1>5
  <2>2. FlattenSeq(t) = x
    BY <1>2, <1>3, <1>4, <2>1
  <2>3. FlattenSeq(s) = <<>>
    BY <1>1, <1>5, FlattenEmpty
  <2>4. <<>> \o x = x
    OBVIOUS
  <2> QED
    BY <2>2, <2>3, <2>4 DEF t
<1>6. CASE n # 0
  <2>1. PICK f : Running(f, s, n) /\ FlattenSeq(s) = f[n]
    BY <1>1, <1>6, FlattenRunning DEF n
  <2>2. \A i \in 1 .. n : f[i] = g[i]
    BY <1>1, <1>2, <1>3, <2>1, RunningUnique
  <2>3. f[n] = g[n]
    BY <1>1, <1>6, <2>2
  <2>4. g[n + 1] = g[n] \o t[n + 1]
    BY <1>1, <1>4, <1>6
  <2> QED
    BY <1>2, <1>3, <2>1, <2>3, <2>4 DEF t
<1> QED
  BY <1>5, <1>6

-----------------------------------------------------------------------------
(* Lines and their tails *)

\* The end of a stream is the end of a line.
Whole(s) == s = <<>> \/ s[Len(s)] < 0

\* Max of a set of numbers that has a greatest.
LEMMA MaxIs ==
    ASSUME NEW S \in SUBSET Int, NEW m \in S, \A x \in S : x <= m
    PROVE  Max(S) = m
<1>1. Max(S) \in S /\ \A x \in S : Max(S) >= x
  <2>1. m \in S /\ \A x \in S : m >= x
    OBVIOUS
  <2> HIDE DEF Max
  <2> QED
    BY <2>1, Zenon DEF Max
<1>2. Max(S) \in Int /\ m \in Int /\ Max(S) >= m /\ Max(S) <= m
  BY <1>1
<1> QED
  BY <1>2

\* A set of numbers up to n has a greatest one.
LEMMA MaxIn ==
    ASSUME NEW n \in Nat, NEW S \in SUBSET (1 .. n), S # {}
    PROVE  Max(S) \in S /\ \A x \in S : x <= Max(S)
<1> DEFINE T == {n - x : x \in S}
<1>1. T \in SUBSET Nat /\ T # {}
  <2>1. ASSUME NEW z \in T PROVE z \in Nat
    <3>1. PICK x \in S : z = n - x
      OBVIOUS
    <3>2. x \in 1 .. n
      OBVIOUS
    <3> QED
      BY <3>1, <3>2
  <2>2. PICK x : x \in S
    OBVIOUS
  <2>3. n - x \in T
    BY <2>2
  <2> QED
    BY <2>1, <2>3
<1>2. PICK y \in T : \A z \in T : y <= z
  <2>1. PICK y \in T : \A z \in T : <<z, y>> \notin OpToRel(<, Nat)
    BY <1>1, NatLessThanWellFounded, WFMin
  <2>2. ASSUME NEW z \in T PROVE y <= z
    <3>1. <<z, y>> \in Nat \X Nat /\ <<z, y>>[1] = z /\ <<z, y>>[2] = y
      BY <1>1
    <3>2. ~(z < y)
      BY <2>1, <3>1 DEF OpToRel
    <3> QED
      BY <1>1, <3>2
  <2> QED
    BY <2>2
<1>3. PICK m \in S : y = n - m
  BY <1>2
<1>4. \A x \in S : n - x \in T /\ x \in Int
  OBVIOUS
<1>5. \A x \in S : x <= m
  BY <1>2, <1>3, <1>4
<1>6. S \in SUBSET Int
  OBVIOUS
<1>7. Max(S) = m
  BY <1>5, <1>6, MaxIs
<1> QED
  BY <1>3, <1>5, <1>7

\* Where a line begins there is no earlier tail but right before it.
LEMMA StartIn ==
    ASSUME NEW s \in Seq(Int), NEW t \in DOMAIN s
    PROVE  /\ LineStart(s, t) \in 1 .. t
           /\ LineStart(s, t) = 1 \/ LineStart(s, t) - 1 \in Tails(s)
           /\ \A u \in Tails(s) : u < t => u < LineStart(s, t)
<1> DEFINE S == {u + 1 : u \in {u \in Tails(s) : u < t}} \cup {1}
<1>1. t \in Nat /\ 1 <= t /\ \A u \in Tails(s) : u \in Nat /\ 1 <= u
  BY DEF Tails
<1>2. S \in SUBSET (1 .. t) /\ S # {}
  <2>1. ASSUME NEW x \in S PROVE x \in 1 .. t
    BY <1>1
  <2> QED
    BY <2>1
<1>3. Max(S) \in S /\ \A x \in S : x <= Max(S)
  BY <1>1, <1>2, MaxIn
<1>4. LineStart(s, t) = Max(S)
  BY DEF LineStart
<1> DEFINE m == LineStart(s, t)
<1>5. m \in S /\ \A x \in S : x <= m
  BY <1>3, <1>4
<1> HIDE DEF m
<1>6. m \in 1 .. t
  BY <1>2, <1>5
<1>7. m = 1 \/ m - 1 \in Tails(s)
  BY <1>1, <1>5
<1>8. ASSUME NEW u \in Tails(s), u < t PROVE u < m
  <2>1. u + 1 \in S
    BY <1>8
  <2>2. u + 1 <= m
    BY <1>5, <2>1
  <2> QED
    BY <1>1, <1>6, <2>2
<1> QED
  BY <1>6, <1>7, <1>8 DEF m

\* A place with no tail behind it before t, and a tail right before it, is where the line of t begins.
LEMMA StartIs ==
    ASSUME NEW s \in Seq(Int), NEW t \in DOMAIN s, NEW m \in 1 .. t,
           m = 1 \/ m - 1 \in Tails(s), \A u \in Tails(s) : u < t => u < m
    PROVE  LineStart(s, t) = m
<1>1. t \in Nat /\ 1 <= t /\ \A u \in Tails(s) : u \in Nat /\ 1 <= u
  BY DEF Tails
<1> DEFINE S == {u + 1 : u \in {u \in Tails(s) : u < t}} \cup {1}
<1>2. m \in S
  <2>1. CASE m = 1
    BY <2>1
  <2>2. CASE m - 1 \in Tails(s)
    <3>1. m - 1 < t /\ (m - 1) + 1 = m
      BY <1>1
    <3> QED
      BY <2>2, <3>1
  <2> QED
    BY <2>1, <2>2
<1>3. ASSUME NEW x \in S PROVE x \in Int /\ x <= m
  <2>1. CASE x = 1
    BY <2>1
  <2>2. CASE x # 1
    <3>1. PICK u \in Tails(s) : u < t /\ x = u + 1
      BY <2>2
    <3> QED
      BY <1>1, <3>1
  <2> QED
    BY <2>1, <2>2
<1>4. S \in SUBSET Int
  BY <1>3
<1> HIDE DEF S
<1>5. Max(S) = m
  BY <1>2, <1>3, <1>4, MaxIs
<1> QED
  BY <1>5 DEF LineStart, S

\* r has a copy of what s has from begin to t, d places behind.
Copied(r, s, begin, t, d) == \A k \in begin .. t : r[k + d] = s[k]

\* So have their parts.
LEMMA Moved ==
    ASSUME NEW a \in Int, NEW b \in Int, NEW d \in Int, NEW i \in Int, NEW k \in (a + d) .. (b + d)
    PROVE  /\ k - d \in Int /\ k - d \in a .. b /\ (k - d) + d = k
           /\ i + ((k - d) - a) = i + (k - (a + d))
OBVIOUS

\* A line is right wherever in a stream it is.
LEMMA ShiftRight ==
    ASSUME NEW s \in Seq(Int), NEW r, NEW t \in DOMAIN s, NEW begin \in 1 .. t, NEW d \in Int,
           Copied(r, s, begin, t, d), LineRight(s, begin, t), Passed \in Seq(Nat)
    PROVE  LineRight(r, begin + d, t + d)
<1>1. begin \in Int /\ t \in Int /\ t - 1 \in Int /\ begin \in begin .. t /\ t \in begin .. t
      /\ (t - 1) + d = (t + d) - 1 /\ \A k \in begin .. t - 1 : k \in begin .. t
  OBVIOUS
<1>2. CASE begin = t
  BY <1>2 DEF LineRight
<1>3. CASE begin # t
  <2>1. PICK i \in {i \in DOMAIN Passed : Passed[i] = s[begin]} :
          /\ \A k \in begin .. t - 1 : s[k] = Passed[i + (k - begin)]
          /\ BeginsRight(i)
          /\ i + (t - begin) \in DOMAIN Passed
          /\ EndsRight(Passed[i + (t - begin)], TailOf(s[t]))
    BY <1>3 DEF LineRight
  <2>2. r[begin + d] = s[begin] /\ r[t + d] = s[t]
    BY <1>1, Zenon DEF Copied
  <2>3. i \in Int
    BY <2>1
  <2>4. ASSUME NEW k \in begin + d .. (t + d) - 1
        PROVE  r[k] = Passed[i + (k - (begin + d))]
    <3> DEFINE j == k - d
    <3>1. j \in begin .. t - 1 /\ j + d = k /\ i + (j - begin) = i + (k - (begin + d))
      BY <1>1, <2>3, Moved
    <3> HIDE DEF j
    <3>2. s[j] = Passed[i + (j - begin)]
      BY <2>1, <3>1, Zenon
    <3>3. r[j + d] = s[j]
      BY <1>1, <3>1, Zenon DEF Copied
    <3> QED
      BY <3>1, <3>2, <3>3
  <2>5. i + ((t + d) - (begin + d)) = i + (t - begin)
    BY <1>1, <2>3
  <2>6. /\ BeginsRight(i)
        /\ i + ((t + d) - (begin + d)) \in DOMAIN Passed
        /\ EndsRight(Passed[i + ((t + d) - (begin + d))], TailOf(r[t + d]))
    BY <2>1, <2>2, <2>5
  <2>7. i \in {j \in DOMAIN Passed : Passed[j] = r[begin + d]}
    BY <2>1, <2>2
  <2> QED
    BY <2>4, <2>6, <2>7, Zenon DEF LineRight
<1> QED
  BY <1>2, <1>3

\* A right line that was copied behind whole lines is right.
LEMMA RightCopied ==
    ASSUME NEW s \in Seq(Int), NEW r \in Seq(Int), NEW t \in Tails(s), NEW d \in Nat,
           d = 0 \/ d \in Tails(r), t + d \in DOMAIN r, Copied(r, s, 1, t, d),
           LinesRight(s), Passed \in Seq(Nat)
    PROVE  LineRight(r, LineStart(r, t + d), t + d)
<1> DEFINE m == LineStart(s, t)
<1>1. t \in DOMAIN s /\ s[t] < 0 /\ t \in Nat /\ DOMAIN s = 1 .. Len(s)
  BY DEF Tails
<1>2. /\ m \in 1 .. t
      /\ m = 1 \/ m - 1 \in Tails(s)
      /\ \A u \in Tails(s) : u < t => u < m
  BY <1>1, StartIn
<1>3. LineRight(s, m, t)
  BY DEF LinesRight
<1> HIDE DEF m
<1>4. \A k \in 1 .. t : r[k + d] = s[k]
  BY DEF Copied
<1>5. Copied(r, s, m, t, d)
  <2>1. m .. t \subseteq 1 .. t
    BY <1>1, <1>2
  <2> QED
    BY <1>4, <2>1, Zenon DEF Copied
<1>6. \A k \in 1 .. t : k + d \in DOMAIN r
  BY <1>1
<1>7. m + d \in 1 .. t + d
  BY <1>1, <1>2
<1>8. m + d = 1 \/ (m + d) - 1 \in Tails(r)
  <2>1. CASE m = 1
    <3>1. d = 0 => m + d = 1
      BY <2>1
    <3>2. (m + d) - 1 = d
      BY <2>1
    <3> QED
      BY <3>1, <3>2
  <2>2. CASE m # 1
    <3>1. m - 1 \in 1 .. t /\ s[m - 1] < 0 /\ (m - 1) + d = (m + d) - 1
      BY <1>1, <1>2, <2>2 DEF Tails
    <3>2. r[(m - 1) + d] = s[m - 1] /\ (m - 1) + d \in DOMAIN r
      BY <1>4, <1>6, <3>1
    <3> QED
      BY <3>1, <3>2 DEF Tails
  <2> QED
    BY <2>1, <2>2
<1>9. ASSUME NEW u \in Tails(r), u < t + d PROVE u < m + d
  <2>1. u \in Nat /\ r[u] < 0
    BY DEF Tails
  <2>2. CASE u <= d
    BY <1>1, <1>2, <2>1, <2>2
  <2>3. CASE u > d
    <3>1. u - d \in 1 .. t /\ (u - d) + d = u /\ u - d < t
      BY <1>1, <1>9, <2>1, <2>3
    <3>2. s[u - d] < 0
      BY <1>4, <2>1, <3>1
    <3>3. u - d \in Tails(s)
      BY <1>1, <3>1, <3>2 DEF Tails
    <3>4. u - d < m
      BY <1>2, <3>1, <3>3
    <3> QED
      BY <1>1, <1>2, <2>1, <3>4
  <2> QED
    BY <2>1, <2>2, <2>3
<1>10. LineStart(r, t + d) = m + d
  BY <1>7, <1>8, <1>9, StartIs
<1>11. LineRight(r, m + d, t + d)
  BY <1>1, <1>2, <1>3, <1>5, ShiftRight
<1> QED
  BY <1>10, <1>11

\* What was sent of a stream of lines is one.
LEMMA PrefixRight ==
    ASSUME NEW s \in Seq(Int), NEW n \in 0 .. Len(s), LinesRight(s), Passed \in Seq(Nat)
    PROVE  LinesRight(SubSeq(s, 1, n))
<1> DEFINE r == SubSeq(s, 1, n)
<1>1. r \in Seq(Int) /\ DOMAIN r = 1 .. n /\ \A i \in 1 .. n : r[i] = s[i]
  OBVIOUS
<1> HIDE DEF r
<1>2. SUFFICES ASSUME NEW t \in Tails(r) PROVE LineRight(r, LineStart(r, t), t)
  BY DEF LinesRight, r
<1>3. t \in 1 .. n /\ t \in DOMAIN s /\ t \in Tails(s) /\ t + 0 = t
  BY <1>1 DEF Tails
<1>4. Copied(r, s, 1, t, 0)
  BY <1>1, <1>3 DEF Copied
<1>5. 0 \in Nat /\ (0 = 0 \/ 0 \in Tails(r)) /\ t + 0 \in DOMAIN r
  BY <1>1, <1>3
<1>6. LineRight(r, LineStart(r, t + 0), t + 0)
  BY <1>1, <1>3, <1>4, <1>5, RightCopied
<1> QED
  BY <1>3, <1>6

\* The elements of a concatenation.
LEMMA ConcatIs ==
    ASSUME NEW T, NEW s \in Seq(T), NEW b \in Seq(T)
    PROVE  /\ s \o b \in Seq(T) /\ Len(s \o b) = Len(s) + Len(b) /\ Len(s) \in Nat /\ Len(b) \in Nat
           /\ DOMAIN s = 1 .. Len(s) /\ DOMAIN b = 1 .. Len(b) /\ DOMAIN (s \o b) = 1 .. Len(s) + Len(b)
           /\ \A i \in 1 .. Len(s) : (s \o b)[i] = s[i]
           /\ \A i \in 1 .. Len(b) : (s \o b)[i + Len(s)] = b[i] /\ i + Len(s) \in 1 .. Len(s) + Len(b)
           /\ \A i \in 1 .. Len(s) + Len(b) :
                i \in 1 .. Len(s) \/ (i - Len(s) \in 1 .. Len(b) /\ (i - Len(s)) + Len(s) = i)
OBVIOUS

\* Lines behind whole lines.
LEMMA ConcatRight ==
    ASSUME NEW s \in Seq(Int), NEW b \in Seq(Int), Whole(s), LinesRight(s), LinesRight(b),
           Passed \in Seq(Nat)
    PROVE  LinesRight(s \o b) /\ (Whole(b) => Whole(s \o b))
<1> DEFINE r == s \o b
           n == Len(s)
           m == Len(b)
<1>1. /\ r \in Seq(Int) /\ Len(r) = n + m /\ n \in Nat /\ m \in Nat
      /\ DOMAIN s = 1 .. n /\ DOMAIN b = 1 .. m /\ DOMAIN r = 1 .. n + m
      /\ \A i \in 1 .. n : r[i] = s[i]
      /\ \A i \in 1 .. m : r[i + n] = b[i]
      /\ \A i \in 1 .. n + m : i \in 1 .. n \/ (i - n \in 1 .. m /\ (i - n) + n = i)
  BY ConcatIs
<1>2. s = <<>> <=> n = 0
  OBVIOUS
<1>3. b = <<>> <=> m = 0
  OBVIOUS
<1>4. Whole(s) <=> n = 0 \/ s[n] < 0
  BY <1>2 DEF Whole
<1>5. Whole(b) <=> m = 0 \/ b[m] < 0
  BY <1>3 DEF Whole
<1> HIDE DEF r, n, m
<1>6. n = 0 \/ n \in Tails(r)
  BY <1>1, <1>4 DEF Tails
<1>7. ASSUME NEW t \in Tails(r) PROVE LineRight(r, LineStart(r, t), t)
  <2>1. t \in 1 .. n + m /\ r[t] < 0
    BY <1>1 DEF Tails
  <2>2. CASE t \in 1 .. n
    <3>1. t \in Tails(s) /\ t + 0 = t /\ t + 0 \in DOMAIN r
      BY <1>1, <2>1, <2>2 DEF Tails
    <3>2. Copied(r, s, 1, t, 0)
      <4>1. ASSUME NEW k \in 1 .. t PROVE r[k + 0] = s[k]
        <5>1. k + 0 = k /\ k \in 1 .. n
          BY <1>1, <2>2
        <5> QED
          BY <1>1, <5>1
      <4> QED
        BY <4>1 DEF Copied
    <3>3. LineRight(r, LineStart(r, t + 0), t + 0)
      BY <1>1, <3>1, <3>2, RightCopied
    <3> QED
      BY <3>1, <3>3
  <2>3. CASE t \notin 1 .. n
    <3> DEFINE u == t - n
    <3>1. u \in 1 .. m /\ u + n = t
      BY <1>1, <2>1, <2>3
    <3> HIDE DEF u
    <3>2. u \in Tails(b)
      BY <1>1, <2>1, <3>1 DEF Tails
    <3>3. Copied(r, b, 1, u, n)
      <4>1. 1 .. u \subseteq 1 .. m
        BY <1>1, <3>1
      <4> QED
        BY <1>1, <4>1, Zenon DEF Copied
    <3>4. u + n \in DOMAIN r
      BY <1>1, <2>1, <3>1
    <3>5. LineRight(r, LineStart(r, u + n), u + n)
      BY <1>1, <1>6, <3>2, <3>3, <3>4, RightCopied
    <3> QED
      BY <3>1, <3>5
  <2> QED
    BY <2>2, <2>3
<1>8. LinesRight(r)
  BY <1>7 DEF LinesRight
<1>9. ASSUME Whole(b) PROVE Whole(r)
  <2>1. CASE m = 0
    <3>1. n + m = n
      BY <1>1, <2>1
    <3>2. CASE n = 0
      <4>1. Len(r) = 0
        BY <1>1, <3>1, <3>2
      <4>2. r = <<>>
        BY <1>1, <4>1
      <4> QED
        BY <4>2 DEF Whole
    <3>3. CASE n # 0
      <4>1. r[n] < 0
        BY <1>1, <1>4, <3>3
      <4> QED
        BY <1>1, <3>1, <4>1 DEF Whole
    <3> QED
      BY <3>2, <3>3
  <2>2. CASE m # 0
    <3>1. m \in 1 .. m /\ m + n = n + m
      BY <1>1, <2>2
    <3>2. r[m + n] < 0
      BY <1>1, <1>5, <1>9, <2>2, <3>1
    <3> QED
      BY <1>1, <3>1, <3>2 DEF Whole
  <2> QED
    BY <2>1, <2>2
<1> QED
  BY <1>8, <1>9 DEF r

\* A line and its tail.
LEMMA OneLine ==
    ASSUME Passed \in Seq(Nat), NEW line \in Seq(Nat \ {0}), NEW i \in Nat, NEW no \in Nat,
           \A k \in 1 .. Len(line) : i + (k - 1) \in DOMAIN Passed /\ line[k] = Passed[i + (k - 1)],
           BeginsRight(i), i + Len(line) \in DOMAIN Passed, EndsRight(Passed[i + Len(line)], no)
    PROVE  /\ Append(line, TailOf(no)) \in Seq(Int)
           /\ LinesRight(Append(line, TailOf(no))) /\ Whole(Append(line, TailOf(no)))
<1> DEFINE s == Append(line, TailOf(no))
           l == Len(line)
<1>0. TailOf(no) \in Int /\ TailOf(no) < 0 /\ TailOf(TailOf(no)) = no
  BY DEF TailOf
<1>1. /\ s \in Seq(Int) /\ l \in Nat /\ Len(s) = l + 1 /\ DOMAIN s = 1 .. l + 1
      /\ \A k \in 1 .. l : s[k] = line[k] /\ s[k] \in Nat \ {0}
      /\ s[l + 1] = TailOf(no) /\ s # <<>>
  <2>1. line \in Seq(Int) /\ \A k \in 1 .. l : line[k] \in Nat \ {0}
    OBVIOUS
  <2> QED
    BY <1>0, <2>1, AppendProperties
<1>2. Whole(s)
  BY <1>0, <1>1 DEF Whole
<1>3. ASSUME NEW t \in Tails(s) PROVE t = l + 1
  <2>1. t \in 1 .. l + 1 /\ s[t] < 0
    BY <1>1 DEF Tails
  <2>2. t \in 1 .. l \/ t = l + 1
    BY <1>1, <2>1
  <2>3. t \notin 1 .. l
    BY <1>1, <2>1
  <2> QED
    BY <2>2, <2>3
<1> HIDE DEF s, l
<1>4. LineStart(s, l + 1) = 1
  <2>1. l + 1 \in DOMAIN s /\ 1 \in 1 .. l + 1
    BY <1>1
  <2>2. \A u \in Tails(s) : u < l + 1 => u < 1
    BY <1>1, <1>3
  <2> QED
    BY <1>1, <2>1, <2>2, StartIs
<1>5. LineRight(s, 1, l + 1)
  <2>1. CASE l = 0
    BY <2>1 DEF LineRight
  <2>2. CASE l # 0
    <3>1. 1 \in 1 .. l /\ i + (1 - 1) = i /\ (l + 1) - 1 = l
      BY <1>1, <2>2
    <3>2. i \in {j \in DOMAIN Passed : Passed[j] = s[1]}
      BY <1>1, <3>1 DEF l
    <3>3. \A k \in 1 .. (l + 1) - 1 : s[k] = Passed[i + (k - 1)]
      BY <1>1, <3>1 DEF l
    <3>4. i + ((l + 1) - 1) \in DOMAIN Passed
          /\ EndsRight(Passed[i + ((l + 1) - 1)], TailOf(s[l + 1]))
      BY <1>0, <1>1, <3>1 DEF l
    <3> QED
      BY <3>2, <3>3, <3>4, Zenon DEF LineRight
  <2> QED
    BY <2>1, <2>2
<1>6. LinesRight(s)
  BY <1>3, <1>4, <1>5 DEF LinesRight
<1> QED
  BY <1>1, <1>2, <1>6 DEF s

-----------------------------------------------------------------------------
(* The order of what is sent *)

\* No byte of the text is there twice or before an earlier one.
Rising(s) == \A i, j \in DOMAIN s : i < j /\ s[i] > 0 /\ s[j] > 0 => s[i] < s[j]

\* All bytes are among the first ones of the text.
Within(text, s, top) == \A i \in DOMAIN s : s[i] > 0 => \E k \in 1 .. top : text[k] = s[i]

\* Two such sequences make one when the second has only later bytes.
LEMMA RisingConcat ==
    ASSUME NEW s \in Seq(Int), NEW b \in Seq(Int), Rising(s), Rising(b),
           \A i \in DOMAIN s, j \in DOMAIN b : s[i] > 0 /\ b[j] > 0 => s[i] < b[j]
    PROVE  Rising(s \o b)
<1> DEFINE r == s \o b
           n == Len(s)
           m == Len(b)
<1>1. /\ r \in Seq(Int) /\ n \in Nat /\ m \in Nat
      /\ DOMAIN s = 1 .. n /\ DOMAIN b = 1 .. m /\ DOMAIN r = 1 .. n + m
      /\ \A i \in 1 .. n : r[i] = s[i]
      /\ \A i \in 1 .. m : r[i + n] = b[i]
      /\ \A i \in 1 .. n + m : i \in 1 .. n \/ (i - n \in 1 .. m /\ (i - n) + n = i)
  BY ConcatIs
<1> HIDE DEF r, n, m
<1>2. ASSUME NEW i \in 1 .. n + m, NEW j \in 1 .. n + m, i < j, r[i] > 0, r[j] > 0
      PROVE  r[i] < r[j]
  <2>1. CASE j \in 1 .. n
    <3>1. i \in 1 .. n
      BY <1>1, <1>2, <2>1
    <3> QED
      BY <1>1, <1>2, <2>1, <3>1 DEF Rising
  <2>2. CASE j \notin 1 .. n
    <3>1. j - n \in 1 .. m /\ (j - n) + n = j
      BY <1>1, <2>2
    <3>2. r[j] = b[j - n]
      BY <1>1, <3>1
    <3>3. CASE i \in 1 .. n
      BY <1>1, <1>2, <3>1, <3>2, <3>3
    <3>4. CASE i \notin 1 .. n
      <4>1. i - n \in 1 .. m /\ (i - n) + n = i /\ i - n < j - n
        BY <1>1, <1>2, <3>1, <3>4
      <4>2. r[i] = b[i - n]
        BY <1>1, <4>1
      <4> QED
        BY <1>1, <1>2, <3>1, <3>2, <4>1, <4>2 DEF Rising
    <3> QED
      BY <3>3, <3>4
  <2> QED
    BY <2>1, <2>2
<1> QED
  BY <1>1, <1>2 DEF Rising, r

\* Less of the batch.
LEMMA OrderPrefix ==
    ASSUME NEW w \in Seq(Int), NEW b \in Seq(Int), NEW n \in 0 .. Len(b), NEW top, NEW text
    PROVE  /\ w \o SubSeq(b, 1, n) \in Seq(Int)
           /\ Rising(w \o b) => Rising(w \o SubSeq(b, 1, n))
           /\ Within(text, w \o b, top) => Within(text, w \o SubSeq(b, 1, n), top)
<1> DEFINE c == SubSeq(b, 1, n)
           r == w \o b
           q == w \o c
<1>1. c \in Seq(Int) /\ Len(c) = n /\ n \in Nat /\ \A i \in 1 .. n : c[i] = b[i] /\ i \in 1 .. Len(b)
  OBVIOUS
<1>2. /\ Len(w) \in Nat /\ DOMAIN r = 1 .. Len(w) + Len(b) /\ Len(b) \in Nat
      /\ \A i \in 1 .. Len(w) : r[i] = w[i]
      /\ \A i \in 1 .. Len(b) : r[i + Len(w)] = b[i]
  BY ConcatIs
<1> HIDE DEF c
<1>3. /\ q \in Seq(Int) /\ DOMAIN q = 1 .. Len(w) + n
      /\ \A i \in 1 .. Len(w) : q[i] = w[i]
      /\ \A i \in 1 .. n : q[i + Len(w)] = c[i]
      /\ \A i \in 1 .. Len(w) + n : i \in 1 .. Len(w) \/ (i - Len(w) \in 1 .. n /\ (i - Len(w)) + Len(w) = i)
  <2>1. c \in Seq(Int)
    BY <1>1
  <2>2. /\ w \o c \in Seq(Int) /\ DOMAIN (w \o c) = 1 .. Len(w) + Len(c)
        /\ \A i \in 1 .. Len(w) : (w \o c)[i] = w[i]
        /\ \A i \in 1 .. Len(c) : (w \o c)[i + Len(w)] = c[i]
        /\ \A i \in 1 .. Len(w) + Len(c) :
              i \in 1 .. Len(w) \/ (i - Len(w) \in 1 .. Len(c) /\ (i - Len(w)) + Len(w) = i)
    BY <2>1, ConcatIs
  <2> QED
    BY <1>1, <2>2
<1> HIDE DEF q, r
<1>4. \A i \in DOMAIN q : i \in DOMAIN r /\ q[i] = r[i]
  <2>1. TAKE i \in DOMAIN q
  <2>2. i \in DOMAIN r
    BY <1>1, <1>2, <1>3
  <2>3. CASE i \in 1 .. Len(w)
    BY <1>2, <1>3, <2>2, <2>3
  <2>4. CASE i \notin 1 .. Len(w)
    <3>1. i - Len(w) \in 1 .. n /\ (i - Len(w)) + Len(w) = i
      BY <1>3, <2>4
    <3>2. q[i] = c[i - Len(w)] /\ r[i] = b[i - Len(w)] /\ c[i - Len(w)] = b[i - Len(w)]
      BY <1>1, <1>2, <1>3, <3>1
    <3> QED
      BY <2>2, <3>2
  <2> QED
    BY <2>3, <2>4
<1>5. Rising(r) => Rising(q)
  BY <1>4, Zenon DEF Rising
<1>6. Within(text, r, top) => Within(text, q, top)
  BY <1>4, Zenon DEF Within
<1> QED
  BY <1>3, <1>5, <1>6 DEF q, r, c

-----------------------------------------------------------------------------
(* The text *)

\* What was passed on after a step is that of the blocks after it.
LEMMA Primes ==
    /\ Passed' = FlattenSeq(Blocks')
    /\ Blocks' = IF hook' = "write" THEN Append(accepted', block') ELSE accepted'
BY DEF Passed, Blocks, FlattenSeq

\* What was passed on is a text.
LEMMA TextTypes ==
    ASSUME WorkerOK
    PROVE  /\ Blocks \in Seq(Seq(Nat)) /\ Passed \in Seq(Nat) /\ FlattenSeq(accepted) \in Seq(Nat)
           /\ hook = "write" => Passed = FlattenSeq(accepted) \o block
           /\ hook # "write" => Passed = FlattenSeq(accepted)
<1>1. block \in Seq(Nat) /\ accepted \in Seq(Seq(Nat))
  BY DEF WorkerOK
<1>2. Blocks \in Seq(Seq(Nat))
  <2>1. Append(accepted, block) \in Seq(Seq(Nat))
    BY <1>1, AppendProperties
  <2> QED
    BY <1>1, <2>1 DEF Blocks
<1>3. FlattenSeq(Append(accepted, block)) = FlattenSeq(accepted) \o block
  BY <1>1, FlattenAppend
<1> QED
  BY <1>1, <1>2, <1>3, FlattenType DEF Passed, Blocks

\* What was passed on before stays what it is.
Grows ==
    /\ Blocks \in Seq(Seq(Nat)) /\ newlines' = newlines
    /\ Blocks' = Blocks \/ \E b \in Seq(Nat) : Blocks' = Append(Blocks, b)

\* The text of more blocks begins with the text there was.
LEMMA GrowsText ==
    ASSUME Grows
    PROVE  /\ {Blocks[k] : k \in DOMAIN Blocks} \subseteq {Blocks'[k] : k \in DOMAIN Blocks'}
           /\ Passed \in Seq(Nat) /\ Passed' \in Seq(Nat) /\ DOMAIN Passed \subseteq DOMAIN Passed'
           /\ \A i \in DOMAIN Passed : Passed'[i] = Passed[i]
<1>1. Passed' = FlattenSeq(Blocks')
  BY Primes
<1>2. Passed \in Seq(Nat)
  BY FlattenType DEF Grows, Passed
<1>3. CASE Blocks' = Blocks
  BY <1>1, <1>2, <1>3 DEF Passed
<1>4. CASE \E b \in Seq(Nat) : Blocks' = Append(Blocks, b)
  <2>1. PICK b \in Seq(Nat) : Blocks' = Append(Blocks, b)
    BY <1>4
  <2>2. Passed' = Passed \o b
    BY <1>1, <2>1, FlattenAppend DEF Grows, Passed
  <2>3. \A k \in DOMAIN Blocks : k \in DOMAIN Append(Blocks, b) /\ Append(Blocks, b)[k] = Blocks[k]
    <3>1. /\ Len(Append(Blocks, b)) = Len(Blocks) + 1 /\ Append(Blocks, b) \in Seq(Seq(Nat))
          /\ \A i \in 1 .. Len(Blocks) : Append(Blocks, b)[i] = Blocks[i]
      BY AppendProperties DEF Grows
    <3>2. DOMAIN Blocks = 1 .. Len(Blocks) /\ DOMAIN Append(Blocks, b) = 1 .. Len(Blocks) + 1 /\ Len(Blocks) \in Nat
      BY <3>1 DEF Grows
    <3>3. 1 .. Len(Blocks) \subseteq 1 .. Len(Blocks) + 1
      BY <3>2
    <3> QED
      BY <3>1, <3>2, <3>3, Zenon
  <2>4. {Blocks[k] : k \in DOMAIN Blocks} \subseteq {Blocks'[k] : k \in DOMAIN Blocks'}
    BY <2>1, <2>3, Zenon
  <2>5. /\ Passed \o b \in Seq(Nat) /\ DOMAIN (Passed \o b) = 1 .. Len(Passed) + Len(b)
        /\ Len(Passed) \in Nat /\ Len(b) \in Nat /\ DOMAIN Passed = 1 .. Len(Passed)
        /\ \A i \in 1 .. Len(Passed) : (Passed \o b)[i] = Passed[i]
    BY <1>2, ConcatIs
  <2>6. DOMAIN Passed \subseteq DOMAIN (Passed \o b)
    BY <2>5
  <2> QED
    BY <1>2, <2>2, <2>4, <2>5, <2>6, Zenon
<1> QED
  BY <1>3, <1>4 DEF Grows

\* EndsRight, with the blocks and the newlines there are.
EndsIn(blocks, nls, next, no) ==
    \E b \in blocks :
        IF no = 0 THEN b # <<>> /\ next = BlockStart(b)
        ELSE /\ next \in nls
             /\ \E i \in DOMAIN b : b[i] = next /\ no = Cardinality({j \in 1 .. i : b[j] \in nls})

\* A line that ends as it should still does.
LEMMA GrowsEnds ==
    ASSUME NEW s, NEW t, NEW k, NEW n, EndsIn(s, n, t, k), NEW r, s \subseteq r
    PROVE  EndsIn(r, n, t, k)
BY DEF EndsIn

\* A line that begins as it should still does.
LEMMA GrowsBegins ==
    ASSUME Grows, NEW i \in DOMAIN Passed, BeginsRight(i)
    PROVE  BeginsRight(i)'
<1>1. /\ {Blocks[k] : k \in DOMAIN Blocks} \subseteq {Blocks'[k] : k \in DOMAIN Blocks'} /\ newlines' = newlines
      /\ Passed \in Seq(Nat) /\ Passed' \in Seq(Nat)
      /\ \A k \in DOMAIN Passed : Passed'[k] = Passed[k]
  BY GrowsText DEF Grows
<1>2. i \in Nat /\ 1 <= i /\ \A k \in 1 .. i : k \in DOMAIN Passed
  BY <1>1
<1>3. CASE i = 1
  BY <1>3 DEF BeginsRight
<1>4. CASE i # 1 /\ Passed[i - 1] \in newlines
  <2>1. i - 1 \in DOMAIN Passed
    BY <1>2, <1>4
  <2> QED
    BY <1>1, <1>4, <2>1 DEF BeginsRight
<1>5. CASE \E b \in {Blocks[k] : k \in DOMAIN Blocks} :
             /\ b # <<>> /\ BlockStart(b) = Passed[i]
             /\ Cardinality({j \in 1 .. i - 1 : \A k \in j .. i - 1 : Passed[k] \notin newlines})
                  + Len(b) > ParseSize
  <2>1. \A j \in 1 .. i - 1 : \A k \in j .. i - 1 : Passed'[k] = Passed[k]
    BY <1>1, <1>2
  <2>2. {j \in 1 .. i - 1 : \A k \in j .. i - 1 : Passed'[k] \notin newlines'}
          = {j \in 1 .. i - 1 : \A k \in j .. i - 1 : Passed[k] \notin newlines}
    BY <1>1, <2>1
  <2>3. Passed'[i] = Passed[i]
    BY <1>1
  <2> QED
    BY <1>1, <1>5, <2>2, <2>3 DEF BeginsRight, BlockStart
<1> QED
  BY <1>3, <1>4, <1>5 DEF BeginsRight

\* Lines that are right still are.
LEMMA GrowsRight ==
    ASSUME Grows, NEW s \in Seq(Int), LinesRight(s)
    PROVE  LinesRight(s)'
<1>1. /\ Passed \in Seq(Nat) /\ Passed' \in Seq(Nat) /\ DOMAIN Passed \subseteq DOMAIN Passed'
      /\ \A i \in DOMAIN Passed : Passed'[i] = Passed[i]
  BY GrowsText
<1>2. ASSUME NEW t \in Nat, NEW begin \in 1 .. t, LineRight(s, begin, t), begin # t
      PROVE  LineRight(s, begin, t)'
  <2>1. PICK i \in {i \in DOMAIN Passed : Passed[i] = s[begin]} :
          /\ \A k \in begin .. t - 1 : s[k] = Passed[i + (k - begin)]
          /\ BeginsRight(i)
          /\ i + (t - begin) \in DOMAIN Passed
          /\ EndsRight(Passed[i + (t - begin)], TailOf(s[t]))
    BY <1>2 DEF LineRight
  <2>2. i \in Nat /\ 1 <= i /\ t \in Nat /\ begin \in Nat /\ begin <= t
    <3>1. i \in DOMAIN Passed
      OBVIOUS
    <3> QED
      BY <1>1, <3>1
  <2>3. \A k \in begin .. t - 1 : i + (k - begin) \in 1 .. i + (t - begin)
    BY <2>2
  <2>4. 1 .. i + (t - begin) \subseteq DOMAIN Passed
    BY <1>1, <2>1, <2>2
  <2>5. \A k \in begin .. t - 1 : s[k] = Passed'[i + (k - begin)]
    BY <1>1, <2>1, <2>3, <2>4
  <2>6. i \in {j \in DOMAIN Passed' : Passed'[j] = s[begin]}
    BY <1>1, <2>1
  <2>7. BeginsRight(i)' /\ i + (t - begin) \in DOMAIN Passed'
    BY <1>1, <2>1, GrowsBegins
  <2>8. EndsRight(Passed[i + (t - begin)], TailOf(s[t]))'
    <3>1. EndsIn({Blocks[k] : k \in DOMAIN Blocks}, newlines, Passed[i + (t - begin)], TailOf(s[t]))
      BY <2>1 DEF EndsRight, EndsIn
    <3>2. /\ {Blocks[k] : k \in DOMAIN Blocks} \subseteq {Blocks'[k] : k \in DOMAIN Blocks'}
          /\ Passed'[i + (t - begin)] = Passed[i + (t - begin)] /\ newlines' = newlines
      BY <1>1, <2>1, GrowsText DEF Grows
    <3>3. EndsIn({Blocks'[k] : k \in DOMAIN Blocks'}, newlines', Passed'[i + (t - begin)], TailOf(s[t]))
      BY <3>1, <3>2, GrowsEnds
    <3> QED
      BY <3>3 DEF EndsRight, EndsIn, BlockStart, TailOf
  <2> QED
    BY <2>5, <2>6, <2>7, <2>8, Zenon DEF LineRight
<1>3. ASSUME NEW t \in Tails(s) PROVE LineRight(s, LineStart(s, t), t)'
  <2>1. t \in Nat /\ LineStart(s, t) \in 1 .. t
    BY StartIn DEF Tails
  <2>2. LineRight(s, LineStart(s, t), t)
    BY DEF LinesRight
  <2>3. CASE LineStart(s, t) = t
    BY <2>3 DEF LineRight
  <2> QED
    BY <1>2, <2>1, <2>2, <2>3
<1> QED
  BY <1>3 DEF LinesRight, Tails

-----------------------------------------------------------------------------
(* What the buffers and the wire say, as functions of them *)

\* The bytes that were sent on connection c, and those that were sent on any.
StreamOf(w, c) == FlattenSeq([i \in DOMAIN w |-> IF w[i].conn = c THEN w[i].bytes ELSE <<>>])
SentOf(w) == FlattenSeq([i \in DOMAIN w |-> w[i].bytes])

\* The bytes of an entry of iov_array, and those of all entries.
BytesIn(ts, p, e) == IF e.len < 0 THEN <<ts[e.at]>> ELSE SubSeq(p, e.at, e.at + e.len - 1)
BatchOf(v, ts, p) == FlattenSeq([i \in DOMAIN v |-> BytesIn(ts, p, v[i])])

\* What writev3 sends.
Batch == [conn : Nat, bytes : Seq(Int)]

\* The elements of a sequence with one more.
LEMMA AppendIs ==
    ASSUME NEW T, NEW s \in Seq(T), NEW x \in T, NEW t \in Seq(T),
           DOMAIN t = 1 .. Len(s) + 1,
           \A i \in 1 .. Len(s) : t[i] = s[i], t[Len(s) + 1] = x
    PROVE  t = Append(s, x)
<1>1. /\ Append(s, x) \in Seq(T) /\ Len(Append(s, x)) = Len(s) + 1 /\ Len(s) \in Nat
      /\ \A i \in 1 .. Len(s) : Append(s, x)[i] = s[i]
      /\ Append(s, x)[Len(s) + 1] = x
  BY AppendProperties
<1>2. DOMAIN Append(s, x) = 1 .. Len(s) + 1
  BY <1>1
<1>3. ASSUME NEW i \in 1 .. Len(s) + 1 PROVE t[i] = Append(s, x)[i]
  <2>1. i \in 1 .. Len(s) \/ i = Len(s) + 1
    BY <1>1
  <2> QED
    BY <1>1, <2>1
<1> QED
  BY <1>1, <1>2, <1>3, SeqEqual

\* A batch goes to the end of its connection's stream, and of no other.
LEMMA WireAppend ==
    ASSUME NEW w \in Seq(Batch), NEW r \in Batch, NEW c
    PROVE  /\ StreamOf(w, c) \in Seq(Int) /\ SentOf(w) \in Seq(Int)
           /\ SentOf(Append(w, r)) = SentOf(w) \o r.bytes
           /\ StreamOf(Append(w, r), c) = IF r.conn = c THEN StreamOf(w, c) \o r.bytes ELSE StreamOf(w, c)
<1> DEFINE t == Append(w, r)
           n == Len(w)
           F(v) == [i \in DOMAIN v |-> IF v[i].conn = c THEN v[i].bytes ELSE <<>>]
           G(v) == [i \in DOMAIN v |-> v[i].bytes]
           x == IF r.conn = c THEN r.bytes ELSE <<>>
<1>1. /\ t \in Seq(Batch) /\ n \in Nat /\ DOMAIN w = 1 .. n /\ DOMAIN t = 1 .. n + 1
      /\ \A i \in 1 .. n : t[i] = w[i] /\ w[i] \in Batch /\ i \in 1 .. n + 1
      /\ t[n + 1] = r /\ n + 1 \in 1 .. n + 1
  <2>1. t \in Seq(Batch) /\ Len(t) = n + 1 /\ (\A i \in 1 .. n : t[i] = w[i]) /\ t[n + 1] = r
    BY AppendProperties
  <2> QED
    BY <2>1
<1>2. \A b \in Batch : b.bytes \in Seq(Int)
  BY DEF Batch
<1>3. <<>> \in Seq(Int)
  OBVIOUS
<1>4. \A i \in 1 .. n + 1 : t[i] \in Batch
  BY <1>1
<1> HIDE DEF t, n
<1>5. F(w) \in Seq(Seq(Int)) /\ Len(F(w)) = n
  <2>1. \A i \in 1 .. n : F(w)[i] \in Seq(Int)
    BY <1>1, <1>2, <1>3
  <2> QED
    BY <1>1, <2>1
<1>6. F(t) \in Seq(Seq(Int))
  <2>1. \A i \in 1 .. n + 1 : F(t)[i] \in Seq(Int)
    BY <1>1, <1>2, <1>3, <1>4
  <2>2. n + 1 \in Nat
    BY <1>1
  <2> QED
    BY <1>1, <2>1, <2>2
<1>7. G(w) \in Seq(Seq(Int)) /\ Len(G(w)) = n
  <2>1. \A i \in 1 .. n : G(w)[i] \in Seq(Int)
    BY <1>1, <1>2
  <2> QED
    BY <1>1, <2>1
<1>8. G(t) \in Seq(Seq(Int))
  <2>1. \A i \in 1 .. n + 1 : G(t)[i] \in Seq(Int)
    BY <1>1, <1>2, <1>4
  <2>2. n + 1 \in Nat
    BY <1>1
  <2> QED
    BY <1>1, <2>1, <2>2
<1>9. x \in Seq(Int) /\ r.bytes \in Seq(Int)
  BY <1>2, <1>3
<1>10. F(t) = Append(F(w), x)
  <2>1. DOMAIN F(t) = 1 .. n + 1 /\ (\A i \in 1 .. n : F(t)[i] = F(w)[i]) /\ F(t)[n + 1] = x
    BY <1>1
  <2> HIDE DEF F, x
  <2> QED
    BY <1>5, <1>6, <1>9, <2>1, AppendIs
<1>11. G(t) = Append(G(w), r.bytes)
  <2>1. DOMAIN G(t) = 1 .. n + 1 /\ (\A i \in 1 .. n : G(t)[i] = G(w)[i]) /\ G(t)[n + 1] = r.bytes
    BY <1>1
  <2> HIDE DEF G
  <2> QED
    BY <1>7, <1>8, <1>9, <2>1, AppendIs
<1>12. StreamOf(w, c) = FlattenSeq(F(w)) /\ StreamOf(t, c) = FlattenSeq(F(t))
       /\ SentOf(w) = FlattenSeq(G(w)) /\ SentOf(t) = FlattenSeq(G(t))
  BY DEF StreamOf, SentOf
<1>13. x = IF r.conn = c THEN r.bytes ELSE <<>>
  OBVIOUS
<1> HIDE DEF F, G, x
<1>14. FlattenSeq(F(w)) \in Seq(Int) /\ FlattenSeq(G(w)) \in Seq(Int)
  BY <1>5, <1>7, FlattenType
<1>15. FlattenSeq(Append(F(w), x)) = FlattenSeq(F(w)) \o x
  BY <1>5, <1>9, FlattenAppend
<1>16. FlattenSeq(Append(G(w), r.bytes)) = FlattenSeq(G(w)) \o r.bytes
  BY <1>7, <1>9, FlattenAppend
<1>17. StreamOf(w, c) \o <<>> = StreamOf(w, c)
  BY <1>12, <1>14
<1>18. StreamOf(t, c) = StreamOf(w, c) \o x /\ SentOf(t) = SentOf(w) \o r.bytes
  BY <1>10, <1>11, <1>12, <1>15, <1>16
<1> QED
  BY <1>12, <1>13, <1>14, <1>17, <1>18 DEF t

\* The streams of no connection.
LEMMA WireUnused ==
    ASSUME NEW w \in Seq(Batch), NEW c, \A i \in DOMAIN w : w[i].conn # c
    PROVE  StreamOf(w, c) = <<>>
<1> DEFINE F == [i \in DOMAIN w |-> IF w[i].conn = c THEN w[i].bytes ELSE <<>>]
<1>1. F \in Seq(Seq({}))
  <2>1. \A i \in DOMAIN w : F[i] = <<>>
    OBVIOUS
  <2>2. <<>> \in Seq({})
    OBVIOUS
  <2>3. DOMAIN w = 1 .. Len(w) /\ Len(w) \in Nat
    OBVIOUS
  <2>4. \A i \in 1 .. Len(w) : F[i] \in Seq({})
    BY <2>1, <2>2, <2>3
  <2>5. F = [i \in 1 .. Len(w) |-> F[i]]
    BY <2>3
  <2> HIDE DEF F
  <2> QED
    BY <2>3, <2>4, <2>5
<1>2. StreamOf(w, c) = FlattenSeq(F)
  BY DEF StreamOf
<1> HIDE DEF F
<1>3. FlattenSeq(F) \in Seq({})
  BY <1>1, FlattenType
<1> QED
  BY <1>2, <1>3

\* No entry refers to what is not there or will be written to.
Settled(v, top) ==
    \A e \in DOMAIN v :
        IF v[e].len < 0 THEN v[e].at \in 1 .. Len(v)
        ELSE 1 <= v[e].at /\ v[e].at + v[e].len <= top

-----------------------------------------------------------------------------
(* Entries *)

\* What a part of a sequence is.
LEMMA SubSeqIs ==
    ASSUME NEW p \in Seq(Nat), NEW m \in Int, NEW n \in Int, 1 <= m, n <= Len(p)
    PROVE  /\ SubSeq(p, m, n) \in Seq(Nat) /\ SubSeq(p, m, n) \in Seq(Int)
           /\ m <= n + 1 => Len(SubSeq(p, m, n)) = n - m + 1
           /\ \A i \in 1 .. n - m + 1 : SubSeq(p, m, n)[i] = p[m + (i - 1)]
OBVIOUS

\* A part of what is as it was is as it was.
LEMMA SubSeqSame ==
    ASSUME NEW p \in Seq(Nat), NEW q \in Seq(Nat), NEW m \in Int, NEW n \in Int, 1 <= m, n <= Len(p),
           Len(q) = Len(p), \A i \in 1 .. n : q[i] = p[i]
    PROVE  SubSeq(q, m, n) = SubSeq(p, m, n)
<1>1. CASE m <= n + 1
  <2>1. /\ SubSeq(p, m, n) \in Seq(Nat) /\ SubSeq(q, m, n) \in Seq(Nat)
        /\ Len(SubSeq(p, m, n)) = n - m + 1 /\ Len(SubSeq(q, m, n)) = n - m + 1
        /\ \A i \in 1 .. n - m + 1 : SubSeq(p, m, n)[i] = p[m + (i - 1)]
        /\ \A i \in 1 .. n - m + 1 : SubSeq(q, m, n)[i] = q[m + (i - 1)]
    BY <1>1, SubSeqIs
  <2>2. \A i \in 1 .. n - m + 1 : m + (i - 1) \in 1 .. n
    BY <1>1
  <2>3. \A i \in 1 .. n - m + 1 : SubSeq(q, m, n)[i] = SubSeq(p, m, n)[i]
    BY <2>1, <2>2
  <2> QED
    BY <2>1, <2>3, SeqEqual
<1>2. CASE ~(m <= n + 1)
  <2>1. m .. n = {} /\ 1 .. (1 + n) - m = {}
    BY <1>2
  <2>2. SubSeq(p, m, n) = <<>> /\ SubSeq(q, m, n) = <<>>
    BY <1>2
  <2> QED
    BY <2>2
<1> QED
  BY <1>1, <1>2

\* The fields of an entry.
LEMMA EntryIs ==
    ASSUME NEW v \in Seq(Entry), NEW top \in Int, Settled(v, top), NEW i \in 1 .. Len(v)
    PROVE  /\ v[i].at \in Int /\ v[i].len \in Int
           /\ v[i].len < 0 => v[i].at \in 1 .. Len(v)
           /\ ~(v[i].len < 0) => 1 <= v[i].at /\ v[i].at + v[i].len <= top
<1>1. v[i] \in Entry /\ i \in DOMAIN v
  OBVIOUS
<1>2. v[i].at \in Int /\ v[i].len \in Int
  BY <1>1, Zenon DEF Entry
<1> QED
  BY <1>1, <1>2, Zenon DEF Settled

\* The bytes of the entries are bytes.
LEMMA BatchType ==
    ASSUME NEW v \in Seq(Entry), NEW n \in Nat, NEW ts \in [1 .. n -> Int], NEW p \in Seq(Nat),
           NEW top \in 1 .. Len(p) + 1, Settled(v, top), Len(v) <= n
    PROVE  /\ [i \in DOMAIN v |-> BytesIn(ts, p, v[i])] \in Seq(Seq(Int))
           /\ Len([i \in DOMAIN v |-> BytesIn(ts, p, v[i])]) = Len(v)
           /\ BatchOf(v, ts, p) \in Seq(Int)
<1> DEFINE F == [i \in DOMAIN v |-> BytesIn(ts, p, v[i])]
<1>1. DOMAIN v = 1 .. Len(v) /\ Len(v) \in Nat /\ Len(p) \in Nat
  OBVIOUS
<1>2. ASSUME NEW i \in 1 .. Len(v) PROVE F[i] \in Seq(Int)
  <2> DEFINE at == v[i].at
             len == v[i].len
  <2>1. /\ at \in Int /\ len \in Int /\ top \in Int
        /\ len < 0 => at \in 1 .. Len(v)
        /\ ~(len < 0) => 1 <= at /\ at + len <= top
    <3>1. top \in Int
      BY <1>1
    <3> QED
      BY <3>1, EntryIs
  <2> HIDE DEF at, len, F
  <2>2. CASE v[i].len < 0
    <3>1. at \in 1 .. n
      BY <1>1, <2>1, <2>2 DEF len
    <3>2. <<ts[at]>> \in Seq(Int)
      BY <3>1
    <3>3. F[i] = <<ts[at]>>
      BY <1>1, <2>2 DEF BytesIn, F, at
    <3> QED
      BY <3>2, <3>3
  <2>3. CASE ~(v[i].len < 0)
    <3>1. 1 <= at /\ at + len - 1 <= Len(p) /\ at + len - 1 \in Int
      BY <1>1, <2>1, <2>3 DEF len
    <3>2. SubSeq(p, at, at + len - 1) \in Seq(Int)
      BY <2>1, <3>1, SubSeqIs
    <3>3. F[i] = SubSeq(p, at, at + len - 1)
      BY <1>1, <2>3 DEF BytesIn, F, at, len
    <3> QED
      BY <3>2, <3>3
  <2> QED
    BY <2>2, <2>3
<1>3. F = [i \in 1 .. Len(v) |-> F[i]]
  BY <1>1
<1>4. BatchOf(v, ts, p) = FlattenSeq(F)
  BY DEF BatchOf
<1> HIDE DEF F
<1>5. F \in Seq(Seq(Int)) /\ Len(F) = Len(v)
  BY <1>1, <1>2, <1>3
<1> QED
  BY <1>4, <1>5, FlattenType DEF F

\* The start of a buffer is as it was.
Same(p, q, n) == Len(q) = Len(p) /\ \A i \in 1 .. n : q[i] = p[i]

\* Concatenation is associative.
LEMMA ConcatThree ==
    \A f, g, h \in Seq(Int) : (f \o g) \o h = f \o (g \o h)
<1>1. SUFFICES ASSUME NEW f \in Seq(Int), NEW g \in Seq(Int), NEW h \in Seq(Int)
               PROVE  (f \o g) \o h = f \o (g \o h)
  OBVIOUS
<1> QED
  OBVIOUS

\* The numbers up to n + 2.
LEMMA LastTwo ==
    \A n \in Nat : \A i \in 1 .. n + 2 : i \in 1 .. n \/ i = n + 1 \/ i = n + 2
OBVIOUS

\* The entries r are those of v, one for a line and one for its tail.
EntriesAre(r, v, at, len) == r = v \o <<[at |-> at, len |-> len], [at |-> Len(v) + 1, len |-> -1]>>
\* The tail is in its slot of tail_array.
TailsAre(ss, ts, slot, tail) == ss = [ts EXCEPT ![slot] = tail]

\* There is room for a line of q and its tail behind the entries v, and r and ss are
\* the entries and the tails with them.
RoomFor(v, n, ts, p, top, q, at, len, tail, r, ss) ==
    /\ v \in Seq(Entry) /\ n \in Nat /\ ts \in [1 .. n -> Int] /\ p \in Seq(Nat)
    /\ top \in 1 .. Len(p) + 1 /\ Settled(v, top) /\ Len(v) + 1 <= n
    /\ q \in Seq(Nat) /\ Same(p, q, top - 1)
    /\ at \in Int /\ len \in Int /\ 1 <= at /\ 0 <= len /\ at + len - 1 <= Len(p)
    /\ tail \in Int
    /\ EntriesAre(r, v, at, len) /\ TailsAre(ss, ts, Len(v) + 1, tail)

\* The bytes c are the bytes b, the line and its tail.
Joined(b, c, q, at, len, tail) == c = b \o Append(SubSeq(q, at, at + len - 1), tail)

\* A line and its tail join the batch.
LEMMA BatchGrows ==
    ASSUME NEW v, NEW n, NEW ts, NEW p, NEW top, NEW q, NEW at, NEW len, NEW tail,
           NEW r, NEW ss, RoomFor(v, n, ts, p, top, q, at, len, tail, r, ss)
    PROVE  Joined(BatchOf(v, ts, p), BatchOf(r, ss, q), q, at, len, tail)
<1> DEFINE slot == Len(v) + 1
           a == [at |-> at, len |-> len]
           b == [at |-> slot, len |-> -1]
           line == SubSeq(q, at, at + len - 1)
           F == [i \in DOMAIN v |-> BytesIn(ts, p, v[i])]
           G == [i \in DOMAIN r |-> BytesIn(ss, q, r[i])]
<1> SUFFICES ASSUME v \in Seq(Entry), n \in Nat, ts \in [1 .. n -> Int], p \in Seq(Nat),
                      top \in 1 .. Len(p) + 1, Settled(v, top), Len(v) + 1 <= n,
                      q \in Seq(Nat), Same(p, q, top - 1),
                      at \in Int, len \in Int, 1 <= at, 0 <= len, at + len - 1 <= Len(p),
                      tail \in Int, EntriesAre(r, v, at, len), TailsAre(ss, ts, slot, tail)
               PROVE  Joined(BatchOf(v, ts, p), BatchOf(r, ss, q), q, at, len, tail)
  BY DEF RoomFor
<1>1. /\ DOMAIN v = 1 .. Len(v) /\ Len(v) \in Nat /\ Len(p) \in Nat /\ slot \in 1 .. n
      /\ DOMAIN q = 1 .. Len(q) /\ slot \in Int
      /\ Len(q) = Len(p) /\ \A i \in 1 .. top - 1 : q[i] = p[i]
  <2>1. /\ DOMAIN v = 1 .. Len(v) /\ Len(v) \in Nat /\ Len(p) \in Nat /\ slot \in 1 .. n
        /\ DOMAIN q = 1 .. Len(q) /\ slot \in Int
    OBVIOUS
  <2>2. Len(q) = Len(p) /\ \A i \in 1 .. top - 1 : q[i] = p[i]
    BY Zenon DEF Same
  <2> QED
    BY <2>1, <2>2
<1>2. F \in Seq(Seq(Int)) /\ Len(F) = Len(v)
  <2>1. Len(v) <= n
    BY <1>1
  <2> QED
    BY <2>1, BatchType
<1>3. line \in Seq(Int)
  <2>1. at \in Int /\ at + len - 1 \in Int /\ 1 <= at /\ at + len - 1 <= Len(q) /\ q \in Seq(Nat)
    BY <1>1
  <2> QED
    BY <2>1, SubSeqIs
<1>4. /\ r \in Seq(Entry) /\ DOMAIN r = 1 .. Len(v) + 2 /\ (\A i \in 1 .. Len(v) : r[i] = v[i])
      /\ r[Len(v) + 1] = a /\ r[Len(v) + 2] = b
  <2>1. <<a, b>> \in Seq(Entry) /\ Len(<<a, b>>) = 2 /\ <<a, b>>[1] = a /\ <<a, b>>[2] = b
    BY <1>1 DEF Entry
  <2> DEFINE two == <<a, b>>
  <2>2. two \in Seq(Entry) /\ Len(two) = 2 /\ two[1] = a /\ two[2] = b /\ r = v \o two
    BY <2>1 DEF EntriesAre
  <2> HIDE DEF two, a, b
  <2>3. /\ v \o two \in Seq(Entry) /\ DOMAIN (v \o two) = 1 .. Len(v) + Len(two)
        /\ (\A i \in 1 .. Len(v) : (v \o two)[i] = v[i])
        /\ \A i \in 1 .. Len(two) : (v \o two)[i + Len(v)] = two[i]
    <3>1. v \in Seq(Entry) /\ two \in Seq(Entry)
      BY <2>2
    <3> QED
      BY <3>1, ConcatIs
  <2>4. 1 \in 1 .. Len(two) /\ 2 \in 1 .. Len(two) /\ 1 + Len(v) = Len(v) + 1 /\ 2 + Len(v) = Len(v) + 2
    BY <1>1, <2>2
  <2> QED
    BY <2>2, <2>3, <2>4
<1>5. ss \in [1 .. n -> Int] /\ ss[slot] = tail /\ \A i \in 1 .. Len(v) : ss[i] = ts[i]
  BY <1>1 DEF TailsAre
<1> HIDE DEF a, b, line
<1>6. ASSUME NEW i \in 1 .. Len(v) PROVE G[i] = F[i]
  <2> DEFINE x == v[i].at
             y == v[i].len
             m == x + y - 1
  <2>1. /\ x \in Int /\ y \in Int /\ top \in Int
        /\ y < 0 => x \in 1 .. Len(v)
        /\ ~(y < 0) => 1 <= x /\ x + y <= top
    <3>1. top \in Int
      BY <1>1
    <3> QED
      BY <3>1, EntryIs
  <2>2. r[i] = v[i] /\ i \in DOMAIN r /\ i \in DOMAIN v
    BY <1>1, <1>4
  <2>3. BytesIn(ss, q, v[i]) = BytesIn(ts, p, v[i])
    <3> HIDE DEF F, G, x, y
    <3>1. CASE y < 0
      <4>1. ss[x] = ts[x]
        BY <1>5, <2>1, <3>1
      <4> QED
        BY <3>1, <4>1 DEF BytesIn, x, y
    <3>2. CASE ~(y < 0)
      <4>1. 1 <= x /\ m <= Len(p) /\ m \in Int /\ m <= top - 1
        BY <1>1, <2>1, <3>2
      <4> HIDE DEF m
      <4>2. \A k \in 1 .. m : q[k] = p[k]
        <5>1. \A k \in 1 .. m : k \in 1 .. top - 1
          BY <4>1
        <5> QED
          BY <1>1, <5>1
      <4>3. SubSeq(q, x, m) = SubSeq(p, x, m)
        BY <2>1, <4>1, <4>2, SubSeqSame
      <4> QED
        BY <3>2, <4>3 DEF BytesIn, x, y, m
    <3> QED
      BY <3>1, <3>2
  <2> QED
    BY <2>2, <2>3
<1>7. G[Len(v) + 1] = line
  <2>1. Len(v) + 1 \in DOMAIN r
    BY <1>1, <1>4
  <2>2. a.len = len /\ a.at = at /\ ~(len < 0)
    BY DEF a
  <2>3. BytesIn(ss, q, a) = line
    BY <2>2 DEF BytesIn, line
  <2> QED
    BY <1>4, <2>1, <2>3
<1>8. G[Len(v) + 2] = <<tail>>
  <2>1. Len(v) + 2 \in DOMAIN r
    BY <1>1, <1>4
  <2>2. b.len < 0 /\ b.at = slot
    BY DEF b
  <2> HIDE DEF slot
  <2>3. BytesIn(ss, q, b) = <<tail>>
    BY <1>5, <2>2 DEF BytesIn
  <2> QED
    BY <1>4, <2>1, <2>3
<1>9. BatchOf(v, ts, p) = FlattenSeq(F) /\ BatchOf(r, ss, q) = FlattenSeq(G)
  BY DEF BatchOf
<1>10. DOMAIN G = 1 .. Len(v) + 2
  BY <1>4
<1>11. <<tail>> \in Seq(Int)
  OBVIOUS
<1> HIDE DEF F, G
<1> DEFINE H == Append(F, line)
<1>12. /\ H \in Seq(Seq(Int)) /\ Len(H) = Len(v) + 1 /\ (\A i \in 1 .. Len(v) : H[i] = F[i])
       /\ H[Len(v) + 1] = line
  BY <1>2, <1>3, AppendProperties
<1>13. Len(H) + 1 = Len(v) + 2 /\ Len(H) \in Nat
  BY <1>1, <1>12
<1> HIDE DEF H
<1>14. \A i \in 1 .. Len(H) : G[i] = H[i]
  <2>1. \A i \in 1 .. Len(H) : i \in 1 .. Len(v) \/ i = Len(v) + 1
    BY <1>1, <1>12
  <2> QED
    BY <1>6, <1>7, <1>12, <2>1
<1>15. G \in Seq(Seq(Int))
  <2>1. \A i \in 1 .. Len(v) + 2 : i \in 1 .. Len(v) \/ i = Len(v) + 1 \/ i = Len(v) + 2
    <3>1. Len(v) \in Nat
      BY <1>1
    <3> QED
      BY <3>1, LastTwo
  <2>2. \A i \in 1 .. Len(v) : F[i] \in Seq(Int)
    BY <1>2
  <2>3. \A i \in 1 .. Len(v) + 2 : G[i] \in Seq(Int)
    BY <1>3, <1>6, <1>7, <1>8, <1>11, <2>1, <2>2
  <2>4. Len(v) + 2 \in Nat /\ G = [i \in 1 .. Len(v) + 2 |-> G[i]]
    BY <1>1, <1>10 DEF G
  <2> QED
    BY <2>3, <2>4
<1>16. G = Append(H, <<tail>>)
  <2>1. DOMAIN G = 1 .. Len(H) + 1 /\ G[Len(H) + 1] = <<tail>>
    BY <1>8, <1>10, <1>13
  <2>2. H \in Seq(Seq(Int))
    BY <1>12
  <2> QED
    BY <1>11, <1>14, <1>15, <2>1, <2>2, AppendIs
<1>17. FlattenSeq(G) = FlattenSeq(H) \o <<tail>>
  BY <1>11, <1>12, <1>16, FlattenAppend
<1>18. FlattenSeq(H) = FlattenSeq(F) \o line
  BY <1>2, <1>3, FlattenAppend DEF H
<1>19. FlattenSeq(F) \in Seq(Int)
  BY <1>2, FlattenType
<1>20. (FlattenSeq(F) \o line) \o <<tail>> = FlattenSeq(F) \o (line \o <<tail>>)
  <2> DEFINE f == FlattenSeq(F)
             z == <<tail>>
  <2>1. f \in Seq(Int) /\ z \in Seq(Int)
    BY <1>11, <1>19
  <2> HIDE DEF f, z
  <2>2. (f \o line) \o z = f \o (line \o z)
    BY <1>3, <2>1, ConcatThree, Zenon
  <2> QED
    BY <2>2 DEF f, z
<1>21. line \o <<tail>> = Append(line, tail)
  BY <1>3, AppendIsConcat
<1>22. BatchOf(r, ss, q) = BatchOf(v, ts, p) \o Append(line, tail)
  BY <1>9, <1>17, <1>18, <1>20, <1>21
<1> QED
  BY <1>22 DEF line, Joined

-----------------------------------------------------------------------------
(* The lines of a text, as a function of its blocks *)

\* BeginsRight, LineRight and LinesRight, with the blocks and the newlines there are.
BeginsIn(blocks, nls, i) ==
    LET text == FlattenSeq(blocks)
    IN  \/ i = 1 \/ text[i - 1] \in nls
        \/ \E b \in {blocks[k] : k \in DOMAIN blocks} :
            /\ b # <<>> /\ BlockStart(b) = text[i]
            /\ Cardinality({j \in 1 .. i - 1 : \A k \in j .. i - 1 : text[k] \notin nls})
                  + Len(b) > ParseSize

LineIn(blocks, nls, s, begin, t) ==
    LET text == FlattenSeq(blocks)
    IN  \/ begin = t
        \/ \E i \in {i \in DOMAIN text : text[i] = s[begin]} :
            /\ \A k \in begin .. t - 1 : s[k] = text[i + (k - begin)]
            /\ BeginsIn(blocks, nls, i)
            /\ i + (t - begin) \in DOMAIN text
            /\ EndsIn({blocks[k] : k \in DOMAIN blocks}, nls, text[i + (t - begin)], TailOf(s[t]))

LinesIn(blocks, nls, s) == \A t \in Tails(s) : LineIn(blocks, nls, s, LineStart(s, t), t)

\* They say the same of the state.
LEMMA BeginIn ==
    ASSUME NEW i
    PROVE  BeginsRight(i) <=> BeginsIn(Blocks, newlines, i)
BY DEF BeginsRight, BeginsIn, Passed

LEMMA EndIn ==
    ASSUME NEW next, NEW no
    PROVE  EndsRight(next, no) <=> EndsIn({Blocks[k] : k \in DOMAIN Blocks}, newlines, next, no)
BY DEF EndsRight, EndsIn

LEMMA RightIn ==
    ASSUME NEW s
    PROVE  LinesRight(s) <=> LinesIn(Blocks, newlines, s)
<1>1. ASSUME NEW t, NEW begin
      PROVE  LineRight(s, begin, t) <=> LineIn(Blocks, newlines, s, begin, t)
  BY BeginIn, EndIn DEF LineRight, LineIn, Passed
<1> QED
  BY <1>1 DEF LinesRight, LinesIn

\* And of the next one.
LEMMA RightPrimed ==
    ASSUME NEW s
    PROVE  LinesRight(s)' <=> LinesIn(Blocks', newlines', s)
<1>1. ASSUME NEW i
      PROVE  BeginsRight(i)' <=> BeginsIn(Blocks', newlines', i)
  BY DEF BeginsRight, BeginsIn, Passed
<1>2. ASSUME NEW next, NEW no
      PROVE  EndsRight(next, no)' <=> EndsIn({Blocks'[k] : k \in DOMAIN Blocks'}, newlines', next, no)
  BY DEF EndsRight, EndsIn
<1>3. ASSUME NEW t, NEW begin
      PROVE  LineRight(s, begin, t)' <=> LineIn(Blocks', newlines', s, begin, t)
  BY <1>1, <1>2 DEF LineRight, LineIn, Passed
<1> QED
  BY <1>3 DEF LinesRight, LinesIn

\* Lines of a text are lines of a longer one.
LEMMA GrowsIn ==
    ASSUME Grows
    PROVE  /\ \A s \in Seq(Int) : LinesIn(Blocks, newlines, s) => LinesIn(Blocks', newlines', s)
           /\ \A i \in DOMAIN Passed : BeginsIn(Blocks, newlines, i) => BeginsIn(Blocks', newlines', i)
<1>1. ASSUME NEW s \in Seq(Int), LinesIn(Blocks, newlines, s)
      PROVE  LinesIn(Blocks', newlines', s)
  BY <1>1, RightIn, RightPrimed, GrowsRight
<1>2. ASSUME NEW i \in DOMAIN Passed, BeginsIn(Blocks, newlines, i)
      PROVE  BeginsIn(Blocks', newlines', i)
  <2>1. BeginsRight(i)'
    BY <1>2, BeginIn, GrowsBegins
  <2> QED
    BY <2>1 DEF BeginsRight, BeginsIn, Passed
<1> QED
  BY <1>1, <1>2

-----------------------------------------------------------------------------
(* The invariant of the lines *)

\* The text that is, or was, in parse_buffer.  After a line that was forced out the
\* block is not there yet.
Fed == FlattenSeq(accepted)
Pending == step # "idle" /\ lineAdd = 0 /\ from > 1
Known == IF step = "idle" \/ Pending THEN Fed ELSE Passed

\* parse[i] is, or was, the byte Off + i of the text; what is before Here was sent.
Off == Len(Known) - Len(parse)
Here == Off + from

\* The text is the input's bytes in order, and a block is a part of it.
TextOK ==
    /\ Ascending(Passed)
    /\ \A i \in DOMAIN Passed : Passed[i] \in 1 .. read
    /\ hook = "write" => \A i \in DOMAIN block : block[i] = block[1] + (i - 1)

\* From from on parse_buffer holds the text; the rest of the last line has no newline; and
\* lineAdd counts the newlines of the block behind from.
ParseOK ==
    /\ Off \in Nat
    /\ step = "idle" => from = 1 /\ lineAdd = 0
    /\ Pending => from = Len(parse) + 1
    /\ \A i \in from .. Len(parse) :
        /\ parse[i] = Known[Off + i]
        /\ Off + i <= Len(Fed) => parse[i] \notin newlines
    /\ step # "idle" /\ ~Pending =>
        lineAdd = Cardinality({j \in 1 .. Here - 1 - Len(Fed) : block[j] \in newlines})

\* Here is where a line begins.
BeginOK ==
    \/ Here = 1 \/ Passed[Here - 1] \in newlines
    \/ Here \in DOMAIN Passed /\ BeginsIn(Blocks, newlines, Here)

\* The batch is made of whole lines.
BatchOK ==
    LET b == BatchOf(iov, tails, parse) IN LinesIn(Blocks, newlines, b) /\ Whole(b)

\* What was sent and what will be, in order.
OrderOK ==
    LET s == SentOf(wire) \o BatchOf(iov, tails, parse)
    IN  Rising(s) /\ Within(Passed, s, Here - 1)

\* A peer has a connection of its own, which no peer had before.
PeerOK ==
    /\ wire \in Seq(Batch)
    /\ \A w \in DOMAIN wire : wire[w].conn \in 1 .. conns
    /\ \A p, q \in Peers : sock[p] = sock[q] /\ sock[p] # 0 => p = q
    /\ step = "send" => index \in Peers /\ sock[index] # 0

\* What is open ends with a tail, and all was sent in whole lines.
StreamsOK ==
    /\ \A p \in Peers : sock[p] # 0 => Whole(StreamOf(wire, sock[p]))
    /\ \A c \in Nat : LinesIn(Blocks, newlines, StreamOf(wire, c))

\* The batch is gone before the buffers are written to for another block.
FlushedOK ==
    /\ lineAdd \in Nat /\ tails \in [1 .. sendCount -> Int]
    /\ step = "idle" => iov = <<>>
    /\ step = "lines" /\ (Pending \/ NewlinesFrom(from) = {}) => iov = <<>>

\* What holds of output-ingeek as long as no block is stuck in parse_buffer.
LineInv ==
    /\ TextOK /\ ParseOK /\ BeginOK
    /\ Settled(iov, from) /\ BatchOK /\ OrderOK
    /\ PeerOK /\ StreamsOK

\* What holds of any worker.  FlushedOK holds even after a block was stuck.
LinesOK ==
    /\ FlushedOK
    /\ IF Ingeek THEN ~stuck => LineInv ELSE wire = <<>> /\ iov = <<>>

\* The types of the state that the lines are about.
LEMMA StateTypes ==
    ASSUME WorkerOK, IngeekOK
    PROVE  /\ Fed \in Seq(Nat) /\ Passed \in Seq(Nat) /\ Known \in Seq(Nat) /\ parse \in Seq(Nat)
           /\ block \in Seq(Nat) /\ Blocks \in Seq(Seq(Nat))
           /\ Len(Fed) \in Nat /\ Len(Passed) \in Nat /\ Len(Known) \in Nat /\ Len(parse) \in Nat
           /\ Len(block) \in Nat /\ Off \in Int /\ Here \in Int
           /\ from \in 1 .. Len(parse) + 1 /\ iov \in Seq(Entry)
           /\ hook = "write" => Passed = Fed \o block /\ Len(Passed) = Len(Fed) + Len(block)
           /\ hook # "write" => Passed = Fed
           /\ Len(Fed) <= Len(Passed) /\ Len(Known) <= Len(Passed)
           /\ \A i \in 1 .. Len(Fed) : Passed[i] = Fed[i]
           /\ \A i \in 1 .. Len(Known) : Passed[i] = Known[i]
<1>1. /\ Fed \in Seq(Nat) /\ Passed \in Seq(Nat) /\ Known \in Seq(Nat) /\ Blocks \in Seq(Seq(Nat))
      /\ hook = "write" => Passed = Fed \o block
      /\ hook # "write" => Passed = Fed
  BY TextTypes DEF Fed, Known
<1>2. parse \in Seq(Nat) /\ block \in Seq(Nat) /\ from \in 1 .. Len(parse) + 1 /\ iov \in Seq(Entry)
  BY DEF WorkerOK, IngeekOK, IngeekTypeOK
<1>3. /\ Len(Fed \o block) = Len(Fed) + Len(block) /\ Len(Fed) \in Nat /\ Len(block) \in Nat
      /\ \A i \in 1 .. Len(Fed) : (Fed \o block)[i] = Fed[i]
  BY <1>1, <1>2, ConcatIs
<1>4. Len(Fed) <= Len(Passed) /\ \A i \in 1 .. Len(Fed) : Passed[i] = Fed[i]
  BY <1>1, <1>3
<1>5. Known = Fed \/ Known = Passed
  BY DEF Known
<1>6. Len(Passed) \in Nat /\ Len(parse) \in Nat /\ Len(Known) \in Nat
  BY <1>1, <1>2
<1>7. Off \in Int /\ Here \in Int
  BY <1>2, <1>6 DEF Off, Here
<1>8. Len(Known) <= Len(Passed) /\ \A i \in 1 .. Len(Known) : Passed[i] = Known[i]
  BY <1>4, <1>5, <1>6
<1> QED
  BY <1>1, <1>2, <1>3, <1>4, <1>6, <1>7, <1>8

\* The text is as it was.
LEMMA SameText ==
    ASSUME Blocks' = Blocks, newlines' = newlines, accepted' = accepted
    PROVE  Passed' = Passed /\ Fed' = Fed
BY Primes DEF Passed, Fed

\* A step that leaves parse_buffer alone.
LEMMA QuietText ==
    ASSUME TextOK, ParseOK, BeginOK,
           UNCHANGED <<read, block, accepted, newlines, parse, from, lineAdd>>,
           hook' = "write" <=> hook = "write",
           step' = "idle" <=> step = "idle"
    PROVE  /\ TextOK' /\ ParseOK' /\ BeginOK'
           /\ Blocks' = Blocks /\ Passed' = Passed /\ Here' = Here /\ Pending' = Pending
<1>1. Blocks' = Blocks
  BY DEF Blocks
<1>2. Passed' = Passed /\ Fed' = Fed
  BY <1>1, SameText
<1>3. Pending' = Pending
  BY DEF Pending
<1>4. Known' = Known
  BY <1>2, <1>3 DEF Known
<1>5. Off' = Off /\ Here' = Here
  BY <1>4 DEF Off, Here
<1>6. TextOK'
  BY <1>2 DEF TextOK, Ascending
<1>7. ParseOK'
  BY <1>2, <1>3, <1>4, <1>5 DEF ParseOK
<1>8. BeginOK'
  BY <1>1, <1>2, <1>5 DEF BeginOK
<1> QED
  BY <1>1, <1>2, <1>3, <1>5, <1>6, <1>7, <1>8

\* A step that leaves the buffers alone.
LEMMA QuietLines ==
    ASSUME TextOK, ParseOK, BeginOK, Settled(iov, from), BatchOK, OrderOK, FlushedOK,
           UNCHANGED <<read, block, accepted, sendCount, newlines, parse, from, lineAdd, iov, tails, wire>>,
           hook' = "write" <=> hook = "write",
           step' = "idle" <=> step = "idle", step' = "lines" => step = "lines"
    PROVE  TextOK' /\ ParseOK' /\ BeginOK' /\ Settled(iov, from)' /\ BatchOK' /\ OrderOK' /\ FlushedOK'
           /\ Blocks' = Blocks
<1>1. /\ TextOK' /\ ParseOK' /\ BeginOK'
      /\ Blocks' = Blocks /\ Passed' = Passed /\ Here' = Here /\ Pending' = Pending
  BY QuietText
<1>2. BatchOK' /\ OrderOK' /\ Settled(iov, from)'
  BY <1>1 DEF BatchOK, OrderOK
<1>3. FlushedOK'
  <2>1. NewlinesFrom(from)' = NewlinesFrom(from)
    BY DEF NewlinesFrom
  <2> QED
    BY <1>1, <2>1 DEF FlushedOK
<1> QED
  BY <1>1, <1>2, <1>3

-----------------------------------------------------------------------------
(* The input: the next block *)

\* The streams and what was sent are sequences of bytes.
LEMMA StreamType ==
    ASSUME PeerOK, NEW c
    PROVE  StreamOf(wire, c) \in Seq(Int) /\ SentOf(wire) \in Seq(Int)
<1>1. [conn |-> 0, bytes |-> <<>>] \in Batch
  BY DEF Batch
<1>2. wire \in Seq(Batch)
  BY DEF PeerOK
<1> QED
  BY <1>1, <1>2, WireAppend, Zenon

\* So is the batch.
LEMMA BatchIs ==
    ASSUME IngeekOK, FlushedOK, Settled(iov, from)
    PROVE  BatchOf(iov, tails, parse) \in Seq(Int)
<1>1. /\ iov \in Seq(Entry) /\ sendCount \in Nat /\ tails \in [1 .. sendCount -> Int]
      /\ parse \in Seq(Nat) /\ from \in 1 .. Len(parse) + 1 /\ Len(iov) <= sendCount
  BY DEF IngeekOK, IngeekTypeOK, FlushedOK
<1> QED
  BY <1>1, BatchType

\* Where from points to is in the text, or next to it.
LEMMA HereIn ==
    ASSUME WorkerOK, IngeekOK, ParseOK
    PROVE  /\ Off \in Nat /\ Here \in 1 .. Len(Known) + 1 /\ Here - 1 \in Nat /\ Here \in Nat
           /\ Off + Len(parse) = Len(Known)
           /\ 1 .. Here - 1 \subseteq DOMAIN Passed /\ DOMAIN Passed = 1 .. Len(Passed)
<1>1. /\ Known \in Seq(Nat) /\ Passed \in Seq(Nat) /\ Len(Known) \in Nat /\ Len(parse) \in Nat
      /\ Len(Passed) \in Nat /\ Len(Known) <= Len(Passed) /\ from \in 1 .. Len(parse) + 1
  BY StateTypes
<1>2. Off \in Nat
  BY DEF ParseOK
<1> QED
  BY <1>1, <1>2 DEF Off, Here

\* What the next block is.
LEMMA NextBlock ==
    ASSUME WorkerOK, InputOK, TextOK, ReadCommand \/ (Poll /\ UNCHANGED execVars)
    PROVE  /\ hook = "read" /\ accepted' = accepted /\ read \in Nat /\ read' \in Nat /\ read <= read'
           /\ block' \in Seq(Nat) /\ \A i \in DOMAIN block' : block'[i] = read + i /\ read + i <= read'
<1>1. hook = "read" /\ read \in Nat /\ accepted' = accepted
  BY DEF ReadCommand, Poll, Return, InputOK, ExecTypeOK
<1>2. CASE ReadCommand
  <2>1. Available \in Nat
    BY ExecAssumption DEF Available, InputOK, ExecTypeOK
  <2>2. read' = read + Available /\ block' = [i \in 1 .. Available |-> read + i]
    BY <1>2 DEF ReadCommand
  <2>3. block' \in Seq(Nat)
    <3>1. \A i \in 1 .. Available : read + i \in Nat
      BY <1>1, <2>1
    <3> QED
      BY <2>1, <2>2, <3>1
  <2> QED
    BY <1>1, <2>1, <2>2, <2>3
<1>3. CASE Poll /\ UNCHANGED execVars
  <2>1. block' = <<>> /\ read' = read
    BY <1>3 DEF Poll, execVars
  <2> QED
    BY <1>1, <2>1
<1> QED
  BY <1>2, <1>3

\* A block that is passed on continues the text.
LEMMA NextText ==
    ASSUME WorkerOK, InputOK, IngeekOK, TextOK, ReadCommand \/ (Poll /\ UNCHANGED execVars),
           newlines' = newlines
    PROVE  TextOK' /\ Grows /\ Fed' = Fed /\ Passed = Fed
<1>1. /\ hook = "read" /\ accepted' = accepted /\ read \in Nat /\ read' \in Nat /\ read <= read'
      /\ block' \in Seq(Nat) /\ \A i \in DOMAIN block' : block'[i] = read + i /\ read + i <= read'
  BY NextBlock
<1>2. Fed \in Seq(Nat) /\ Passed \in Seq(Nat) /\ Blocks \in Seq(Seq(Nat)) /\ Passed = Fed /\ Blocks = accepted
  BY <1>1, StateTypes DEF Blocks
<1>3. Fed' = Fed
  BY <1>1 DEF Fed
<1>4. Blocks' = Blocks \/ Blocks' = Append(Blocks, block')
  BY <1>1, <1>2, Primes
<1>5. Grows
  BY <1>1, <1>2, <1>4 DEF Grows
<1>6. hook' = "write" => \A i \in DOMAIN block' : block'[i] = block'[1] + (i - 1)
  <2>1. \A i \in DOMAIN block' : 1 \in DOMAIN block' /\ i \in Nat
    BY <1>1
  <2> QED
    BY <1>1, <2>1
<1>7. Passed' \in {Passed, Passed \o block'}
  <2>1. Passed' = FlattenSeq(Blocks')
    BY Primes
  <2>2. FlattenSeq(Append(Blocks, block')) = Passed \o block'
    BY <1>1, <1>2, FlattenAppend DEF Passed
  <2> QED
    BY <1>4, <2>1, <2>2 DEF Passed
<1>8. Ascending(Passed) /\ \A i \in DOMAIN Passed : Passed[i] \in 1 .. read
  BY DEF TextOK
<1>9. Ascending(Passed') /\ \A i \in DOMAIN Passed' : Passed'[i] \in 1 .. read'
  <2>1. CASE Passed' = Passed
    BY <1>1, <1>8, <2>1
  <2>2. CASE Passed' = Passed \o block'
    <3> DEFINE t == Passed \o block'
               n == Len(Passed)
               b == block'
    <3>1. /\ n \in Nat /\ Len(b) \in Nat /\ DOMAIN Passed = 1 .. n /\ DOMAIN b = 1 .. Len(b)
          /\ DOMAIN t = 1 .. n + Len(b)
          /\ \A i \in 1 .. n : t[i] = Passed[i]
          /\ \A i \in 1 .. Len(b) : t[i + n] = b[i]
          /\ \A i \in 1 .. n + Len(b) : i \in 1 .. n \/ (i - n \in 1 .. Len(b) /\ (i - n) + n = i)
      BY <1>1, <1>2, ConcatIs
    <3>2. \A i \in 1 .. Len(b) : b[i] = read + i /\ read + i <= read'
      BY <1>1, <3>1
    <3> HIDE DEF t, n, b
    <3>3. \A i \in 1 .. n : t[i] \in 1 .. read
      BY <1>8, <3>1
    <3>4. \A i \in 1 .. n + Len(b) :
            i \in 1 .. n \/ (i - n \in 1 .. Len(b) /\ t[i] = read + (i - n) /\ read + (i - n) <= read')
      BY <3>1, <3>2
    <3>5. \A i \in DOMAIN t : t[i] \in 1 .. read'
      BY <1>1, <3>1, <3>3, <3>4
    <3>6. ASSUME NEW i \in DOMAIN t, NEW j \in DOMAIN t, i < j PROVE t[i] < t[j]
      <4>1. CASE j \in 1 .. n
        <5>1. i \in 1 .. n
          BY <3>1, <3>6, <4>1
        <5> QED
          BY <1>8, <3>1, <3>6, <4>1, <5>1 DEF Ascending
      <4>2. CASE j \notin 1 .. n
        BY <1>1, <3>1, <3>3, <3>4, <3>6, <4>2
      <4> QED
        BY <4>1, <4>2
    <3>7. Ascending(t)
      BY <3>6 DEF Ascending
    <3> QED
      BY <2>2, <3>5, <3>7 DEF t
  <2> QED
    BY <1>7, <2>1, <2>2
<1>10. TextOK'
  BY <1>6, <1>9 DEF TextOK, Ascending
<1> QED
  BY <1>2, <1>3, <1>5, <1>10

\* The next block of the text.
LEMMA ReadLines ==
    ASSUME WorkerOK, InputOK, StepOK, IngeekOK, FlushedOK, LineInv, UNCHANGED ingeekVars,
           ReadCommand \/ (Poll /\ UNCHANGED execVars)
    PROVE  FlushedOK' /\ LineInv'
<1>1. /\ UNCHANGED <<sendCount, newlines, step, index, sock, conns, parse, from, lineAdd, iov, tails, wire>>
      /\ hook = "read" /\ accepted' = accepted
  BY NextBlock DEF ingeekVars, peerVars, lineVars, iovVars, LineInv
<1>2. TextOK' /\ Grows /\ Fed' = Fed /\ Passed = Fed
  BY <1>1, NextText DEF LineInv
<1>3. step = "idle" /\ step' = "idle"
  BY <1>1 DEF StepOK
<1>4. Known = Fed /\ Known' = Fed /\ ~Pending /\ ~Pending'
  BY <1>2, <1>3 DEF Known, Pending
<1>5. Off' = Off /\ Here' = Here
  BY <1>1, <1>4 DEF Off, Here
<1>6. FlushedOK'
  BY <1>1, <1>3 DEF FlushedOK
<1>7. ParseOK'
  BY <1>1, <1>2, <1>3, <1>4, <1>5 DEF ParseOK, LineInv
<1>8. /\ 1 .. Here - 1 \subseteq DOMAIN Passed /\ Here \in 1 .. Len(Known) + 1
      /\ DOMAIN Passed = 1 .. Len(Passed)
  BY HereIn DEF LineInv
<1>9. /\ DOMAIN Passed \subseteq DOMAIN Passed' /\ \A i \in DOMAIN Passed : Passed'[i] = Passed[i]
  BY <1>2, GrowsText
<1>10. BeginOK'
  <2>1. CASE Here = 1
    BY <1>5, <2>1 DEF BeginOK
  <2>2. CASE Here # 1 /\ Passed[Here - 1] \in newlines
    <3>1. Here - 1 \in 1 .. Here - 1
      BY <1>8, <2>2
    <3>2. Passed'[Here - 1] = Passed[Here - 1]
      BY <1>8, <1>9, <3>1
    <3> QED
      BY <1>1, <1>5, <2>2, <3>2 DEF BeginOK
  <2>3. CASE Here \in DOMAIN Passed /\ BeginsIn(Blocks, newlines, Here)
    <3>1. Here \in DOMAIN Passed' /\ BeginsIn(Blocks', newlines', Here)
      BY <1>2, <1>9, <2>3, GrowsIn
    <3> QED
      BY <1>5, <3>1 DEF BeginOK
  <2> QED
    BY <2>1, <2>2, <2>3 DEF BeginOK, LineInv
<1>11. \A s \in Seq(Int) : LinesIn(Blocks, newlines, s) => LinesIn(Blocks', newlines', s)
  BY <1>2, GrowsIn
<1>12. Settled(iov, from)' /\ BatchOK'
  <2>1. BatchOf(iov, tails, parse) \in Seq(Int)
    BY BatchIs DEF LineInv
  <2> QED
    BY <1>1, <1>11, <2>1 DEF BatchOK, LineInv
<1>13. OrderOK'
  <2> DEFINE s == SentOf(wire) \o BatchOf(iov, tails, parse)
  <2>1. Rising(s) /\ Within(Passed, s, Here - 1)
    BY DEF OrderOK, LineInv
  <2> HIDE DEF s
  <2>2. Within(Passed', s, Here - 1)
    BY <1>8, <1>9, <2>1, Zenon DEF Within
  <2> QED
    BY <1>1, <1>5, <2>1, <2>2 DEF OrderOK, s
<1>14. PeerOK'
  BY <1>1, <1>3 DEF PeerOK, LineInv
<1>15. StreamsOK'
  <2>1. \A c \in Nat : StreamOf(wire, c) \in Seq(Int)
    BY StreamType DEF LineInv
  <2>2. \A c \in Nat : LinesIn(Blocks', newlines', StreamOf(wire, c))
    BY <1>11, <2>1 DEF StreamsOK, LineInv
  <2> QED
    BY <1>1, <2>2 DEF StreamsOK, LineInv
<1> QED
  BY <1>2, <1>6, <1>7, <1>10, <1>12, <1>13, <1>14, <1>15 DEF LineInv

\* The peers come and go.
LEMMA PeersLines ==
    ASSUME IngeekOK, LineInv, FlushedOK,
           UNCHANGED <<read, block, accepted, sendCount, newlines, parse, from, lineAdd, iov, tails, wire>>,
           hook' = "write" <=> hook = "write",
           step' = "idle" <=> step = "idle", step' = "lines" => step = "lines",
           conns' \in Nat, conns <= conns',
           \A p \in Peers : sock'[p] # 0 => sock'[p] = sock[p] \/ sock'[p] = conns + 1,
           \A p, q \in Peers : sock'[p] = sock'[q] /\ sock'[p] # 0 => p = q,
           step' = "send" => index' \in Peers /\ sock'[index'] # 0
    PROVE  FlushedOK' /\ LineInv'
<1>1. TextOK' /\ ParseOK' /\ BeginOK' /\ Settled(iov, from)' /\ BatchOK' /\ OrderOK' /\ FlushedOK'
      /\ Blocks' = Blocks
  BY QuietLines DEF LineInv
<1>2. conns \in Nat
  BY DEF IngeekOK
<1>3. PeerOK'
  <2>1. /\ wire \in Seq(Batch) /\ \A w \in DOMAIN wire : wire[w].conn \in 1 .. conns
    BY DEF PeerOK, LineInv
  <2>2. 1 .. conns \subseteq 1 .. conns'
    BY <1>2
  <2> QED
    BY <2>1, <2>2 DEF PeerOK
<1>4. StreamsOK'
  <2>1. \A c \in Nat : LinesIn(Blocks', newlines', StreamOf(wire', c))
    BY <1>1 DEF StreamsOK, LineInv
  <2>2. ASSUME NEW p \in Peers, sock'[p] # 0 PROVE Whole(StreamOf(wire', sock'[p]))
    <3>1. CASE sock'[p] = sock[p]
      BY <2>2, <3>1 DEF StreamsOK, LineInv
    <3>2. CASE sock'[p] = conns + 1
      <4>1. wire \in Seq(Batch) /\ \A w \in DOMAIN wire : wire[w].conn # conns + 1
        BY <1>2 DEF PeerOK, LineInv
      <4>2. StreamOf(wire, conns + 1) = <<>>
        BY <4>1, WireUnused
      <4> QED
        BY <3>2, <4>2 DEF Whole
    <3> QED
      BY <2>2, <3>1, <3>2
  <2> QED
    BY <2>1, <2>2 DEF StreamsOK
<1> QED
  BY <1>1, <1>3, <1>4 DEF LineInv

-----------------------------------------------------------------------------
(* The peers *)

\* The next peer is a peer.
LEMMA NextPeer ==
    ASSUME IngeekOK
    PROVE  NextIndex \in Peers
BY IngeekAssumption DEF IngeekOK, IngeekTypeOK, NextIndex, Peers

\* A new connection is one of its own.
LEMMA NewSock ==
    ASSUME IngeekOK, PeerOK, NEW q \in Peers, Connected(q)
    PROVE  /\ conns' \in Nat /\ conns <= conns' /\ sock'[q] = conns + 1 /\ sock'[q] # 0
           /\ \A p \in Peers : sock'[p] = sock[p] \/ sock'[p] = conns + 1
           /\ \A p, r \in Peers : sock'[p] = sock'[r] /\ sock'[p] # 0 => p = r
<1>1. conns \in Nat /\ sock \in [Peers -> Nat] /\ \A p \in Peers : sock[p] \in 0 .. conns
  BY DEF IngeekOK, IngeekTypeOK
<1>2. conns' = conns + 1 /\ sock'[q] = conns + 1 /\ \A p \in Peers \ {q} : sock'[p] = sock[p]
  BY <1>1 DEF Connected
<1>3. \A p \in Peers : sock[p] # conns + 1
  BY <1>1
<1>4. ASSUME NEW p \in Peers, NEW r \in Peers, sock'[p] = sock'[r], sock'[p] # 0 PROVE p = r
  <2>1. CASE p = q \/ r = q
    BY <1>2, <1>3, <1>4, <2>1
  <2>2. CASE p # q /\ r # q
    <3>1. sock[p] = sock[r] /\ sock[p] # 0
      BY <1>2, <1>4, <2>2
    <3> QED
      BY <3>1 DEF PeerOK
  <2> QED
    BY <2>1, <2>2
<1>5. conns' \in Nat /\ conns <= conns' /\ conns + 1 # 0
  BY <1>1, <1>2
<1> QED
  BY <1>2, <1>4, <1>5

\* Connections that are closed.
LEMMA LostSock ==
    ASSUME PeerOK, \A p \in Peers : sock'[p] \in {0, sock[p]}
    PROVE  /\ \A p \in Peers : sock'[p] # 0 => sock'[p] = sock[p]
           /\ \A p, r \in Peers : sock'[p] = sock'[r] /\ sock'[p] # 0 => p = r
<1>1. ASSUME NEW p \in Peers, NEW r \in Peers, sock'[p] = sock'[r], sock'[p] # 0 PROVE p = r
  <2>1. sock[p] = sock'[p] /\ sock[r] = sock'[r]
    BY <1>1
  <2>2. sock[p] = sock[r] /\ sock[p] # 0
    BY <1>1, <2>1
  <2> QED
    BY <2>2 DEF PeerOK
<1> QED
  BY <1>1

\* The steps that make and lose connections.
LEMMA PeerSteps ==
    ASSUME WorkerOK, StepOK, IngeekOK, LineInv, FlushedOK, read' = read,
           \/ ConnectAll \/ PassOver \/ Take \/ Refused \/ Accepted
           \/ BeginIngeek \/ CloseGone \/ CleanIngeek \/ PeerCloses \/ Enable
    PROVE  FlushedOK' /\ LineInv'
<1>1. conns \in Nat /\ sock \in [Peers -> Nat] /\ PeerOK
  BY DEF IngeekOK, LineInv
<1>2. /\ \A p \in Peers : sock[p] # 0 => sock[p] = sock[p]
      /\ \A p, r \in Peers : sock[p] = sock[r] /\ sock[p] # 0 => p = r
      /\ conns <= conns
      /\ step = "send" => index \in Peers /\ sock[index] # 0
  BY <1>1 DEF PeerOK
<1>3. NextIndex \in Peers
  BY NextPeer
<1>4. CASE ConnectAll
  <2>1. /\ UNCHANGED <<block, accepted, sendCount, newlines, step, parse, from, lineAdd, iov, tails, wire>>
        /\ hook = "initOutput" /\ step = "idle"
    BY <1>4 DEF ConnectAll, Return, lineVars, iovVars, loopVars, StepOK
  <2>2. hook' # "write"
    BY <1>4, <2>1 DEF ConnectAll, Return, Onward, InMessage
  <2>3. (\E q \in Peers : Connected(q)) \/ UNCHANGED <<conns, sock>>
    <3>1. CASE Unconnected # {} /\ Connected(Min(Unconnected))
      <4>1. Unconnected \in SUBSET Nat /\ Unconnected \subseteq Peers
        BY DEF Unconnected, Peers
      <4>2. Min(Unconnected) \in Peers
        BY <3>1, <4>1, MinOK
      <4> QED
        BY <3>1, <4>2
    <3> QED
      BY <1>4, <3>1 DEF ConnectAll
  <2>4. CASE \E q \in Peers : Connected(q)
    <3>1. PICK q \in Peers : Connected(q)
      BY <2>4
    <3>2. /\ conns' \in Nat /\ conns <= conns'
          /\ \A p \in Peers : sock'[p] = sock[p] \/ sock'[p] = conns + 1
          /\ \A p, r \in Peers : sock'[p] = sock'[r] /\ sock'[p] # 0 => p = r
      BY <1>1, <3>1, NewSock
    <3> QED
      BY <2>1, <2>2, <3>2, PeersLines
  <2>5. CASE UNCHANGED <<conns, sock>>
    BY <1>1, <1>2, <2>1, <2>2, <2>5, PeersLines
  <2> QED
    BY <2>3, <2>4, <2>5
<1>5. CASE PassOver \/ Refused
  <2>1. /\ UNCHANGED <<hook, block, accepted, sendCount, newlines, step, parse, from, lineAdd, iov, tails, wire>>
        /\ UNCHANGED <<conns, sock>> /\ step = "connect"
    BY <1>5 DEF PassOver, Refused, Seeking, lineVars, iovVars, workerVars
  <2> QED
    BY <1>1, <1>2, <2>1, PeersLines
<1>6. CASE Take
  <2>1. /\ UNCHANGED <<hook, block, accepted, sendCount, newlines, parse, from, lineAdd, iov, tails, wire>>
        /\ UNCHANGED <<conns, sock>> /\ step = "connect" /\ step' = "send" /\ index' = NextIndex
        /\ sock[NextIndex] # 0
    BY <1>6 DEF Take, Seeking, Usable, lineVars, iovVars, workerVars
  <2> QED
    BY <1>1, <1>2, <1>3, <2>1, PeersLines
<1>7. CASE Accepted
  <2>1. /\ UNCHANGED <<hook, block, accepted, sendCount, newlines, parse, from, lineAdd, iov, tails, wire>>
        /\ step = "connect" /\ step' = "send" /\ index' = NextIndex /\ Connected(NextIndex)
    BY <1>7 DEF Accepted, Seeking, lineVars, iovVars, loopVars
  <2>2. /\ conns' \in Nat /\ conns <= conns' /\ sock'[NextIndex] # 0
        /\ \A p \in Peers : sock'[p] = sock[p] \/ sock'[p] = conns + 1
        /\ \A p, r \in Peers : sock'[p] = sock'[r] /\ sock'[p] # 0 => p = r
    BY <1>1, <1>3, <2>1, NewSock
  <2> QED
    BY <1>3, <2>1, <2>2, PeersLines
<1>8. CASE BeginIngeek
  <2>1. /\ UNCHANGED <<block, accepted, sendCount, newlines, step, parse, from, lineAdd, iov, tails, wire>>
        /\ UNCHANGED <<conns, sock>> /\ hook = "before" /\ hook' = "read" /\ step = "idle"
    BY <1>8 DEF BeginIngeek, Return, Onward, ingeekVars, peerVars, lineVars, iovVars, loopVars, StepOK
  <2> QED
    BY <1>1, <1>2, <2>1, PeersLines
<1>9. CASE CloseGone
  <2>1. /\ UNCHANGED <<block, accepted, sendCount, newlines, step, parse, from, lineAdd, iov, tails, wire>>
        /\ conns' = conns /\ hook = "onOutput" /\ hook' = "batch" /\ step = "idle"
        /\ sock' = [p \in Peers |-> IF sock[p] \in gone THEN 0 ELSE sock[p]]
    BY <1>9 DEF CloseGone, Return, Onward, lineVars, iovVars, loopVars, StepOK
  <2>2. \A p \in Peers : sock'[p] \in {0, sock[p]}
    BY <2>1
  <2>3. /\ \A p \in Peers : sock'[p] # 0 => sock'[p] = sock[p]
        /\ \A p, r \in Peers : sock'[p] = sock'[r] /\ sock'[p] # 0 => p = r
    BY <1>1, <2>2, LostSock
  <2> QED
    BY <1>1, <1>2, <2>1, <2>3, PeersLines
<1>10. CASE CleanIngeek
  <2>1. /\ UNCHANGED <<block, accepted, sendCount, newlines, step, parse, from, lineAdd, iov, tails, wire>>
        /\ conns' = conns /\ hook = "cleanOutput" /\ hook' = "exit" /\ step = "idle"
        /\ sock' = [sock EXCEPT ![index] = 0]
    BY <1>10 DEF CleanIngeek, Return, Onward, lineVars, iovVars, loopVars, StepOK
  <2>2. \A p \in Peers : sock'[p] \in {0, sock[p]}
    BY <1>1, <2>1
  <2>3. /\ \A p \in Peers : sock'[p] # 0 => sock'[p] = sock[p]
        /\ \A p, r \in Peers : sock'[p] = sock'[r] /\ sock'[p] # 0 => p = r
    BY <1>1, <2>2, LostSock
  <2> QED
    BY <1>1, <1>2, <2>1, <2>3, PeersLines
<1>11. CASE PeerCloses \/ Enable
  <2>1. /\ UNCHANGED <<hook, block, accepted, sendCount, newlines, step, parse, from, lineAdd, iov, tails, wire>>
        /\ UNCHANGED <<conns, sock, index>>
    BY <1>11 DEF PeerCloses, Enable, lineVars, iovVars, workerVars, loopVars
  <2> QED
    BY <1>1, <1>2, <2>1, PeersLines
<1> QED
  BY <1>4, <1>5, <1>6, <1>7, <1>8, <1>9, <1>10, <1>11

-----------------------------------------------------------------------------
(* Sending *)

\* BatchBytes of the module, as a function.
LEMMA BatchBytesIs == BatchBytes = BatchOf(iov, tails, parse)
BY DEF BatchBytes, BatchOf, EntryBytes, BytesIn

\* No entries, no bytes.
LEMMA NoBatch ==
    ASSUME NEW ts, NEW p
    PROVE  BatchOf(<<>>, ts, p) = <<>> /\ \A s \in Seq(Int) : s \o <<>> = s
<1>1. [i \in DOMAIN <<>> |-> BytesIn(ts, p, <<>>[i])] = <<>>
  OBVIOUS
<1>2. BatchOf(<<>>, ts, p) = FlattenSeq(<<>>)
  BY <1>1 DEF BatchOf
<1> QED
  BY <1>2, FlattenEmpty

\* No bytes, no lines.
LEMMA NoLines ==
    ASSUME NEW blocks, NEW nls
    PROVE  LinesIn(blocks, nls, <<>>) /\ Whole(<<>>) /\ \A top : Settled(<<>>, top)
BY DEF LinesIn, Tails, Whole, Settled

\* The batch is sent, or what was taken of it before the connection broke.
LEMMA SentLines ==
    ASSUME WorkerOK, IngeekOK, LineInv, FlushedOK, step = "send", step' = "lines", iov' = <<>>,
           NEW n \in 0 .. Len(BatchOf(iov, tails, parse)),
           wire' = Append(wire, [conn |-> sock[index],
                                 bytes |-> SubSeq(BatchOf(iov, tails, parse), 1, n)]),
           UNCHANGED <<read, hook, block, accepted, sendCount, newlines, parse, from, lineAdd, tails, conns>>,
           \A p \in Peers : sock'[p] \in {0, sock[p]},
           sock'[index] # 0 => n = Len(BatchOf(iov, tails, parse))
    PROVE  FlushedOK' /\ LineInv'
<1> DEFINE b == BatchOf(iov, tails, parse)
           r == SubSeq(b, 1, n)
           a == sock[index]
<1>1. /\ TextOK' /\ ParseOK' /\ BeginOK'
      /\ Blocks' = Blocks /\ Passed' = Passed /\ Here' = Here /\ Pending' = Pending
  BY QuietText DEF LineInv
<1>2. b \in Seq(Int) /\ Passed \in Seq(Nat)
  BY BatchIs, StateTypes DEF LineInv
<1>3. /\ wire \in Seq(Batch) /\ (\A w \in DOMAIN wire : wire[w].conn \in 1 .. conns)
      /\ index \in Peers /\ a # 0 /\ a \in Nat /\ a \in 1 .. conns
  BY DEF LineInv, PeerOK, IngeekOK, IngeekTypeOK
<1>4. LinesIn(Blocks, newlines, b) /\ Whole(b)
  BY DEF LineInv, BatchOK
<1> DEFINE w == SentOf(wire)
<1>5. Rising(w \o b) /\ Within(Passed, w \o b, Here - 1) /\ w \in Seq(Int)
  BY StreamType DEF LineInv, OrderOK
<1>6. /\ \A p \in Peers : sock[p] # 0 => Whole(StreamOf(wire, sock[p]))
      /\ \A c \in Nat : LinesIn(Blocks, newlines, StreamOf(wire, c)) /\ StreamOf(wire, c) \in Seq(Int)
  BY StreamType DEF LineInv, StreamsOK
<1>7. n \in 0 .. Len(b) /\ (sock'[index] # 0 => n = Len(b)) /\ wire' = Append(wire, [conn |-> a, bytes |-> r])
  OBVIOUS
<1> HIDE DEF b, a, w
<1>8. r \in Seq(Int) /\ (n = Len(b) => r = b)
  BY <1>2, <1>7
<1>9. LinesIn(Blocks, newlines, r)
  <2>1. LinesRight(b)
    BY <1>4, RightIn
  <2>2. LinesRight(SubSeq(b, 1, n))
    BY <1>2, <1>7, <2>1, PrefixRight
  <2> QED
    BY <2>2, RightIn
<1>10. /\ w \o r \in Seq(Int) /\ Rising(w \o r) /\ Within(Passed, w \o r, Here - 1)
  BY <1>2, <1>5, <1>7, OrderPrefix
<1> HIDE DEF r
<1> DEFINE m == [conn |-> a, bytes |-> r]
<1>11. m \in Batch /\ m.conn = a /\ m.bytes = r
  BY <1>3, <1>8 DEF Batch
<1>12. wire' = Append(wire, m)
  BY <1>7
<1> HIDE DEF m
<1>13. SentOf(wire') = w \o r
  BY <1>3, <1>11, <1>12, WireAppend DEF w
<1>14. \A c \in Nat : StreamOf(wire', c) = IF a = c THEN StreamOf(wire, c) \o r ELSE StreamOf(wire, c)
  <2>1. TAKE c \in Nat
  <2>2. StreamOf(Append(wire, m), c) = IF m.conn = c THEN StreamOf(wire, c) \o m.bytes ELSE StreamOf(wire, c)
    BY <1>3, <1>11, WireAppend
  <2> QED
    BY <1>11, <1>12, <2>2
<1>15. BatchOf(iov', tails', parse') = <<>>
  BY NoBatch
<1>16. Settled(iov, from)' /\ BatchOK'
  BY <1>15, NoLines DEF BatchOK
<1>17. OrderOK'
  <2>1. (w \o r) \o <<>> = w \o r
    BY <1>10, NoBatch
  <2> QED
    BY <1>1, <1>10, <1>13, <1>15, <2>1 DEF OrderOK
<1>18. PeerOK'
  <2>1. /\ wire' \in Seq(Batch) /\ Len(wire') = Len(wire) + 1 /\ Len(wire) \in Nat
        /\ \A i \in 1 .. Len(wire) : wire'[i] = wire[i]
        /\ wire'[Len(wire) + 1] = m
    BY <1>3, <1>11, <1>12, AppendProperties
  <2>2. ASSUME NEW i \in DOMAIN wire' PROVE wire'[i].conn \in 1 .. conns'
    <3>1. i \in 1 .. Len(wire) \/ i = Len(wire) + 1
      BY <2>1
    <3>2. DOMAIN wire = 1 .. Len(wire)
      BY <1>3
    <3> QED
      BY <1>3, <1>11, <2>1, <3>1, <3>2
  <2>3. \A p, q \in Peers : sock'[p] = sock'[q] /\ sock'[p] # 0 => p = q
    BY LostSock DEF LineInv
  <2> QED
    BY <2>1, <2>2, <2>3 DEF PeerOK
<1>19. StreamsOK'
  <2>1. Whole(StreamOf(wire, a))
    BY <1>3, <1>6 DEF a
  <2>2. LinesRight(StreamOf(wire, a)) /\ LinesRight(r) /\ StreamOf(wire, a) \in Seq(Int)
    BY <1>3, <1>6, <1>9, RightIn
  <2>3. /\ LinesRight(StreamOf(wire, a) \o r)
        /\ Whole(r) => Whole(StreamOf(wire, a) \o r)
    BY <1>2, <1>8, <2>1, <2>2, ConcatRight
  <2>4. LinesIn(Blocks, newlines, StreamOf(wire, a) \o r)
    BY <2>3, RightIn
  <2>5. \A c \in Nat : LinesIn(Blocks', newlines', StreamOf(wire', c))
    BY <1>1, <1>6, <1>14, <2>4
  <2>6. ASSUME NEW p \in Peers, sock'[p] # 0 PROVE Whole(StreamOf(wire', sock'[p]))
    <3>1. sock'[p] = sock[p] /\ sock[p] \in Nat
      BY <2>6 DEF IngeekOK
    <3>2. CASE sock[p] = a
      <4>1. p = index
        BY <1>3, <3>2 DEF PeerOK, LineInv, a
      <4>2. r = b
        BY <1>7, <1>8, <2>6, <4>1
      <4> QED
        BY <1>4, <1>14, <2>3, <3>1, <3>2, <4>2
    <3>3. CASE sock[p] # a
      BY <1>6, <1>14, <2>6, <3>1, <3>3
    <3> QED
      BY <3>2, <3>3
  <2> QED
    BY <2>5, <2>6 DEF StreamsOK
<1>20. FlushedOK'
  BY DEF FlushedOK
<1> QED
  BY <1>1, <1>16, <1>17, <1>18, <1>19, <1>20 DEF LineInv

\* The steps that send the batch or fail to.
LEMMA SendSteps ==
    ASSUME WorkerOK, IngeekOK, LineInv, FlushedOK, read' = read, SendBatch \/ SendFails
    PROVE  FlushedOK' /\ LineInv'
<1> DEFINE b == BatchOf(iov, tails, parse)
<1>1. BatchBytes = b
  BY BatchBytesIs
<1>2. b \in Seq(Int)
  BY BatchIs DEF LineInv
<1>3. sock \in [Peers -> Nat] /\ index \in 0 .. PeerCount
  BY DEF IngeekOK, IngeekTypeOK
<1> HIDE DEF b
<1>4. /\ step = "send" /\ step' = "lines" /\ iov' = <<>>
      /\ UNCHANGED <<hook, block, accepted, sendCount, newlines, parse, from, lineAdd, tails, conns>>
  BY DEF SendBatch, SendFails, Sending, workerVars, loopVars, peerVars, lineVars
<1>5. index \in Peers /\ sock[index] # 0
  BY <1>4 DEF LineInv, PeerOK
<1>6. CASE SendBatch
  <2>1. wire' = Append(wire, [conn |-> sock[index], bytes |-> SubSeq(b, 1, Len(b))]) /\ sock' = sock
    BY <1>1, <1>6 DEF SendBatch, Sent, peerVars
  <2>2. Len(b) \in 0 .. Len(b)
    BY <1>2
  <2> QED
    BY <1>4, <2>1, <2>2, SentLines DEF b
<1>7. CASE SendFails
  <2>1. PICK n \in 0 .. Len(b) - 1 :
          wire' = Append(wire, [conn |-> sock[index], bytes |-> SubSeq(b, 1, n)])
    BY <1>1, <1>7 DEF SendFails, Sent
  <2>2. sock' = [sock EXCEPT ![index] = 0]
    BY <1>7 DEF SendFails, CloseBroken
  <2>3. (\A p \in Peers : sock'[p] \in {0, sock[p]}) /\ sock'[index] = 0
    BY <1>3, <1>5, <2>2
  <2>4. n \in 0 .. Len(b)
    BY <1>2
  <2> QED
    BY <1>4, <2>1, <2>3, <2>4, SentLines DEF b
<1> QED
  BY <1>6, <1>7

-----------------------------------------------------------------------------
(* Lines that join the batch *)

\* A byte of a line of m bytes that begins at h is among the first g.
LEMMA PlaceIn ==
    ASSUME NEW h \in Int, 1 <= h, NEW m \in Int, NEW g \in Int, h + m - 1 <= g,
           NEW a \in Int, 1 <= a, a <= m
    PROVE  h + (a - 1) \in 1 .. g
OBVIOUS

\* The next line of the text, behind all that was sent or will be.
LEMMA LineBehind ==
    ASSUME Passed \in Seq(Nat), Ascending(Passed), NEW s \in Seq(Int), NEW h \in Nat, h # 0,
           Rising(s), Within(Passed, s, h - 1), 1 .. h - 1 \subseteq DOMAIN Passed,
           NEW line \in Seq(Nat), NEW tail \in Int, tail < 0, NEW g \in Nat, h + Len(line) - 1 <= g,
           \A k \in 1 .. Len(line) : h + (k - 1) \in DOMAIN Passed /\ line[k] = Passed[h + (k - 1)]
    PROVE  LET l == Append(line, tail)
           IN  Rising(s \o l) /\ Within(Passed, s \o l, g)
<1> DEFINE l == Append(line, tail)
           n == Len(s)
           m == Len(line)
<1>1. line \in Seq(Int) /\ m \in Nat /\ n \in Nat /\ DOMAIN s = 1 .. n /\ DOMAIN line = 1 .. m
      /\ h + m - 1 <= g /\ 1 <= h /\ h \in Int /\ g \in Int
  OBVIOUS
<1>2. /\ l \in Seq(Int) /\ DOMAIN l = 1 .. m + 1 /\ Len(l) = m + 1
      /\ (\A k \in 1 .. m : l[k] = line[k]) /\ l[m + 1] = tail
      /\ \A k \in 1 .. m + 1 : k \in 1 .. m \/ k = m + 1
  <2>1. /\ Append(line, tail) \in Seq(Int) /\ Len(Append(line, tail)) = Len(line) + 1
        /\ \A k \in 1 .. Len(line) : Append(line, tail)[k] = line[k]
        /\ Append(line, tail)[Len(line) + 1] = tail
    BY <1>1, AppendProperties
  <2> QED
    BY <1>1, <2>1
<1> HIDE DEF l, n, m
<1>3. \A k \in 1 .. m + 1 : l[k] > 0 =>
        k \in 1 .. m /\ h + (k - 1) \in DOMAIN Passed /\ l[k] = Passed[h + (k - 1)]
  BY <1>2 DEF m
<1>4. Rising(l)
  <2>1. ASSUME NEW i \in 1 .. m + 1, NEW j \in 1 .. m + 1, i < j, l[i] > 0, l[j] > 0
        PROVE  l[i] < l[j]
    <3>1. h + (i - 1) < h + (j - 1)
      BY <1>1, <2>1
    <3> QED
      BY <1>3, <2>1, <3>1 DEF Ascending
  <2> QED
    BY <1>2, <2>1 DEF Rising
<1>5. ASSUME NEW i \in DOMAIN s, NEW j \in DOMAIN l, s[i] > 0, l[j] > 0 PROVE s[i] < l[j]
  <2>1. PICK k \in 1 .. h - 1 : Passed[k] = s[i]
    BY <1>5 DEF Within
  <2>2. k \in DOMAIN Passed
    BY <2>1
  <2>3. h + (j - 1) \in DOMAIN Passed /\ l[j] = Passed[h + (j - 1)] /\ j \in 1 .. m
    BY <1>2, <1>3, <1>5
  <2>4. k < h + (j - 1)
    BY <1>1, <2>3
  <2> QED
    BY <2>1, <2>2, <2>3, <2>4 DEF Ascending
<1>6. Rising(s \o l)
  BY <1>2, <1>4, <1>5, RisingConcat
<1>7. Within(Passed, s \o l, g)
  <2> DEFINE r == s \o l
  <2>1. /\ DOMAIN r = 1 .. n + (m + 1)
        /\ \A i \in 1 .. n : r[i] = s[i]
        /\ \A i \in 1 .. m + 1 : r[i + n] = l[i]
        /\ \A i \in 1 .. n + (m + 1) : i \in 1 .. n \/ (i - n \in 1 .. m + 1 /\ (i - n) + n = i)
    <3>1. /\ DOMAIN (s \o l) = 1 .. Len(s) + Len(l)
          /\ \A i \in 1 .. Len(s) : (s \o l)[i] = s[i]
          /\ \A i \in 1 .. Len(l) : (s \o l)[i + Len(s)] = l[i]
          /\ \A i \in 1 .. Len(s) + Len(l) :
                i \in 1 .. Len(s) \/ (i - Len(s) \in 1 .. Len(l) /\ (i - Len(s)) + Len(s) = i)
      <4>1. l \in Seq(Int)
        BY <1>2
      <4> QED
        BY <4>1, ConcatIs
    <3> QED
      BY <1>2, <3>1 DEF n
  <2> HIDE DEF r
  <2>2. ASSUME NEW i \in 1 .. n + (m + 1), r[i] > 0 PROVE \E k \in 1 .. g : Passed[k] = r[i]
    <3>1. CASE i \in 1 .. n
      <4>1. r[i] = s[i] /\ i \in DOMAIN s
        BY <1>1, <2>1, <3>1
      <4>2. PICK k \in 1 .. h - 1 : Passed[k] = s[i]
        BY <2>2, <4>1 DEF Within
      <4>3. k \in 1 .. g
        BY <1>1 DEF m
      <4> QED
        BY <4>1, <4>2, <4>3
    <3>2. CASE i \notin 1 .. n
      <4>1. i - n \in 1 .. m + 1 /\ r[i] = l[i - n]
        BY <2>1, <3>2
      <4>2. i - n \in 1 .. m /\ r[i] = Passed[h + ((i - n) - 1)]
        BY <1>3, <2>2, <4>1
      <4>3. h + ((i - n) - 1) \in 1 .. g
        <5>1. i - n \in Int /\ 1 <= i - n /\ i - n <= m
          BY <1>1, <4>2
        <5> QED
          BY <1>1, <5>1, PlaceIn
      <4> QED
        BY <4>2, <4>3
    <3> QED
      BY <3>1, <3>2
  <2> QED
    BY <2>1, <2>2 DEF Within, r
<1> QED
  BY <1>6, <1>7 DEF l

\* What q has from at on is the next line of the text, which begins at h.
NextLine(q, at, len, h, no) ==
    /\ \A k \in 1 .. len :
         h + (k - 1) \in DOMAIN Passed /\ q[at + (k - 1)] = Passed[h + (k - 1)]
    /\ h + len \in DOMAIN Passed /\ BeginsIn(Blocks, newlines, h)
    /\ EndsIn({Blocks[k] : k \in DOMAIN Blocks}, newlines, Passed[h + len], no)

\* The next line is behind all that was sent.
LEMMA NextPlace ==
    ASSUME NEW h \in Nat, h # 0, NEW len \in Int, 0 <= len, NEW g \in Int, h + len <= g
    PROVE  /\ g \in Nat /\ g - 1 \in Nat /\ 1 .. h - 1 \subseteq 1 .. g - 1 /\ h + len - 1 <= g - 1
OBVIOUS

\* A line is put into iov_array with its tail, or all is given up.
LEMMA LineAdded ==
    ASSUME WorkerOK, IngeekOK, LineInv, FlushedOK,
           NEW h \in Int, h = Here, NEW g \in Int, g = Here',
           NEW at \in Int, NEW len \in Int, NEW no \in Nat, NEW flush, AddLine(at, len, no, flush),
           UNCHANGED <<sendCount, newlines, wire>>, Blocks' = Blocks, Passed' = Passed,
           NEW q \in Seq(Nat), parse' = q, Same(parse, q, from - 1),
           1 <= at, 0 <= len, from' \in 1 .. Len(parse) + 1, from <= from', at + len <= from',
           NextLine(q, at, len, h, no), h + len <= g
    PROVE  /\ Settled(iov, from)' /\ BatchOK' /\ OrderOK' /\ tails' \in [1 .. sendCount -> Int]
<1> DEFINE slot == Len(iov) + 1
           b == BatchOf(iov, tails, parse)
           w == SentOf(wire)
           line == SubSeq(q, at, at + len - 1)
           l == Append(line, TailOf(no))
<1>1. /\ iov \in Seq(Entry) /\ Len(iov) \in Nat /\ slot \in Nat /\ Len(iov) <= sendCount
      /\ sendCount \in Nat /\ parse \in Seq(Nat) /\ from \in 1 .. Len(parse) + 1
      /\ tails \in [1 .. sendCount -> Int] /\ Settled(iov, from) /\ Len(parse) \in Nat
      /\ TailOf(no) \in Int /\ TailOf(no) < 0 /\ from' \in Int /\ Len(q) = Len(parse)
  BY DEF IngeekOK, IngeekTypeOK, LineInv, FlushedOK, TailOf, Same
<1>2. b \in Seq(Int) /\ w \in Seq(Int) /\ Passed \in Seq(Nat)
  BY BatchIs, StreamType, StateTypes DEF LineInv
<1>3. /\ tails' = [tails EXCEPT ![slot] = TailOf(no)]
      /\ iov' = IF slot >= sendCount THEN <<>>
                ELSE iov \o <<[at |-> at, len |-> len], [at |-> slot, len |-> -1]>>
  BY DEF AddLine, NoRoom
<1>4. tails' \in [1 .. sendCount -> Int]
  BY <1>1, <1>3
<1>5. /\ Rising(w \o b) /\ Within(Passed, w \o b, h - 1)
      /\ LinesIn(Blocks, newlines, b) /\ Whole(b)
  BY DEF LineInv, OrderOK, BatchOK
<1>6. /\ h \in Nat /\ h # 0 /\ 1 .. h - 1 \subseteq DOMAIN Passed
      /\ Ascending(Passed) /\ \A i \in DOMAIN Passed : Passed[i] \in 1 .. read
      /\ g - 1 \in Nat /\ 1 .. h - 1 \subseteq 1 .. g - 1 /\ h + len - 1 <= g - 1
  <2>1. h \in Nat /\ h # 0 /\ 1 .. h - 1 \subseteq DOMAIN Passed
    BY HereIn DEF LineInv
  <2>2. Ascending(Passed) /\ \A i \in DOMAIN Passed : Passed[i] \in 1 .. read
    BY DEF LineInv, TextOK
  <2>3. g - 1 \in Nat /\ 1 .. h - 1 \subseteq 1 .. g - 1 /\ h + len - 1 <= g - 1
    BY <2>1, NextPlace, Zenon
  <2> QED
    BY <2>1, <2>2, <2>3
<1> HIDE DEF b, w, line, l
<1>7. CASE slot >= sendCount
  <2>1. iov' = <<>>
    BY <1>3, <1>7
  <2>2. BatchOf(iov', tails', parse') = <<>>
    BY <2>1, NoBatch
  <2>3. Settled(iov, from)' /\ BatchOK'
    <3>1. Settled(iov', from')
      BY <2>1, NoLines
    <3>2. LinesIn(Blocks', newlines', <<>>) /\ Whole(<<>>)
      BY NoLines
    <3> QED
      BY <2>2, <3>1, <3>2 DEF BatchOK
  <2>4. 0 \in 0 .. Len(b) /\ SubSeq(b, 1, 0) = <<>>
    BY <1>2
  <2>5. Rising(w \o <<>>) /\ Within(Passed, w \o <<>>, h - 1)
    <3>1. Rising(w \o SubSeq(b, 1, 0)) /\ Within(Passed, w \o SubSeq(b, 1, 0), h - 1)
      BY <1>2, <1>5, <2>4, OrderPrefix
    <3> QED
      BY <2>4, <3>1
  <2>6. Within(Passed, w \o <<>>, g - 1)
    BY <1>6, <2>5, Zenon DEF Within
  <2> QED
    BY <1>4, <2>2, <2>3, <2>5, <2>6 DEF OrderOK, w
<1>8. CASE ~(slot >= sendCount)
  <2>1. slot <= sendCount
    BY <1>1, <1>8
  <2>2. BatchOf(iov', tails', parse') = b \o l
    <3>1. Len(iov) + 1 <= sendCount
      BY <2>1
    <3>2. at + len - 1 <= Len(parse)
      BY <1>1
    <3>3. RoomFor(iov, sendCount, tails, parse, from, q, at, len, TailOf(no), iov', tails')
      <4>1. iov' = iov \o <<[at |-> at, len |-> len], [at |-> Len(iov) + 1, len |-> -1]>>
        BY <1>3, <1>8
      <4>2. tails' = [tails EXCEPT ![Len(iov) + 1] = TailOf(no)]
        BY <1>3
      <4>3. TailOf(no) \in Int /\ Settled(iov, from) /\ iov \in Seq(Entry) /\ sendCount \in Nat
            /\ tails \in [1 .. sendCount -> Int] /\ parse \in Seq(Nat) /\ from \in 1 .. Len(parse) + 1
        BY <1>1
      <4> HIDE DEF slot
      <4> QED
        BY <3>1, <3>2, <4>1, <4>2, <4>3 DEF RoomFor, EntriesAre, TailsAre
    <3>4. Joined(BatchOf(iov, tails, parse), BatchOf(iov', tails', q), q, at, len, TailOf(no))
      BY <3>3, BatchGrows, Zenon
    <3> QED
      BY <3>4 DEF b, l, line, Joined
  <2>3. /\ line \in Seq(Nat) /\ Len(line) = len /\ len \in Nat
        /\ \A k \in 1 .. Len(line) : h + (k - 1) \in DOMAIN Passed /\ line[k] = Passed[h + (k - 1)]
    <3>1. at + len - 1 \in Int /\ at + len - 1 <= Len(q) /\ at <= (at + len - 1) + 1
          /\ (at + len - 1) - at + 1 = len /\ len \in Nat
      BY <1>1
    <3>2. /\ line \in Seq(Nat) /\ Len(line) = (at + len - 1) - at + 1
          /\ \A k \in 1 .. (at + len - 1) - at + 1 : line[k] = q[at + (k - 1)]
      BY <3>1, SubSeqIs DEF line
    <3>3. \A k \in 1 .. len : h + (k - 1) \in DOMAIN Passed /\ q[at + (k - 1)] = Passed[h + (k - 1)]
      BY DEF NextLine
    <3> QED
      BY <3>1, <3>2, <3>3
  <2>4. line \in Seq(Nat \ {0})
    <3>1. \A k \in 1 .. Len(line) : line[k] \in Nat \ {0}
      <4>1. TAKE k \in 1 .. Len(line)
      <4>2. h + (k - 1) \in DOMAIN Passed /\ line[k] = Passed[h + (k - 1)] /\ line[k] \in Nat
        BY <2>3
      <4>3. Passed[h + (k - 1)] \in 1 .. read
        BY <1>6, <4>2
      <4> QED
        BY <4>2, <4>3
    <3>2. line = [k \in 1 .. Len(line) |-> line[k]] /\ Len(line) \in Nat
      BY <2>3
    <3> QED
      BY <3>1, <3>2
  <2>5. l \in Seq(Int) /\ LinesRight(l) /\ Whole(l)
    <3>1. BeginsRight(h) /\ EndsRight(Passed[h + Len(line)], no) /\ h + Len(line) \in DOMAIN Passed
      BY <2>3, BeginIn, EndIn DEF NextLine
    <3> QED
      BY <1>2, <1>6, <2>3, <2>4, <3>1, OneLine DEF l
  <2>6. LinesRight(b \o l) /\ Whole(b \o l)
    <3>1. LinesRight(b)
      BY <1>5, RightIn
    <3> QED
      BY <1>2, <1>5, <2>5, <3>1, ConcatRight
  <2>7. BatchOK'
    <3>1. LinesIn(Blocks, newlines, b \o l)
      BY <2>6, RightIn
    <3> QED
      BY <2>2, <2>6, <3>1 DEF BatchOK
  <2>8. OrderOK'
    <3> DEFINE s == w \o b
    <3>1. s \in Seq(Int) /\ Rising(s) /\ Within(Passed, s, h - 1)
      BY <1>2, <1>5, ConcatIs
    <3> HIDE DEF s
    <3>2. Rising(s \o l) /\ Within(Passed, s \o l, g - 1)
      <4>1. h + Len(line) - 1 <= g - 1
        BY <1>6, <2>3
      <4> QED
        BY <1>1, <1>2, <1>6, <2>3, <3>1, <4>1, LineBehind DEF l
    <3>3. s \o l = w \o (b \o l)
      BY <1>2, <2>5, ConcatThree DEF s
    <3> QED
      BY <2>2, <3>2, <3>3 DEF OrderOK, w
  <2>9. Settled(iov, from)'
    <3> DEFINE v == iov \o <<[at |-> at, len |-> len], [at |-> slot, len |-> -1]>>
               two == <<[at |-> at, len |-> len], [at |-> slot, len |-> -1]>>
    <3>1. two \in Seq(Entry) /\ Len(two) = 2 /\ two[1].at = at /\ two[1].len = len
          /\ two[2].at = slot /\ two[2].len = -1
      BY <1>1 DEF Entry
    <3>2. v = iov \o two
      OBVIOUS
    <3> HIDE DEF two, v
    <3>3. /\ Len(v) = Len(iov) + 2 /\ DOMAIN v = 1 .. Len(iov) + 2
          /\ \A i \in 1 .. Len(iov) : v[i] = iov[i]
          /\ v[Len(iov) + 1] = two[1] /\ v[Len(iov) + 2] = two[2]
      <4>1. /\ DOMAIN (iov \o two) = 1 .. Len(iov) + Len(two)
            /\ Len(iov \o two) = Len(iov) + Len(two)
            /\ \A i \in 1 .. Len(iov) : (iov \o two)[i] = iov[i]
            /\ \A i \in 1 .. Len(two) : (iov \o two)[i + Len(iov)] = two[i]
        <5>1. iov \in Seq(Entry) /\ two \in Seq(Entry)
          BY <1>1, <3>1
        <5> QED
          BY <5>1, ConcatIs
      <4>2. 1 \in 1 .. Len(two) /\ 2 \in 1 .. Len(two) /\ 1 + Len(iov) = Len(iov) + 1
            /\ 2 + Len(iov) = Len(iov) + 2
        BY <1>1, <3>1
      <4> QED
        BY <3>1, <3>2, <4>1, <4>2
    <3>4. ASSUME NEW e \in 1 .. Len(iov) + 2
          PROVE  IF v[e].len < 0 THEN v[e].at \in 1 .. Len(v)
                 ELSE 1 <= v[e].at /\ v[e].at + v[e].len <= from'
      <4>1. CASE e \in 1 .. Len(iov)
        <5> DEFINE x == iov[e].at
                   y == iov[e].len
        <5>1. /\ x \in Int /\ y \in Int
              /\ y < 0 => x \in 1 .. Len(iov)
              /\ ~(y < 0) => 1 <= x /\ x + y <= from
          <6>1. from \in Int
            BY <1>1
          <6> QED
            BY <1>1, <4>1, <6>1, EntryIs
        <5>2. v[e].at = x /\ v[e].len = y
          BY <3>3, <4>1
        <5> HIDE DEF x, y
        <5>3. Len(iov) \in Nat /\ from \in Int /\ from' \in Int /\ from <= from'
          BY <1>1
        <5>4. Len(v) = Len(iov) + 2
          BY <3>3
        <5>5. ASSUME y < 0 PROVE x \in 1 .. Len(v)
          BY <5>1, <5>3, <5>4, <5>5
        <5>6. ASSUME ~(y < 0) PROVE 1 <= x /\ x + y <= from'
          BY <5>1, <5>3, <5>6
        <5> QED
          BY <5>2, <5>5, <5>6
      <4>2. CASE e = Len(iov) + 1
        BY <3>1, <3>3, <4>2
      <4>3. CASE e = Len(iov) + 2
        <5>1. slot \in 1 .. Len(v)
          BY <1>1, <3>3
        <5> QED
          BY <3>1, <3>3, <4>3, <5>1
      <4>4. e \in 1 .. Len(iov) \/ e = Len(iov) + 1 \/ e = Len(iov) + 2
        <5>1. Len(iov) \in Nat
          BY <1>1
        <5> QED
          BY <5>1
      <4> QED
        BY <4>1, <4>2, <4>3, <4>4
    <3>5. iov' = v
      BY <1>3, <1>8 DEF v
    <3> QED
      BY <3>3, <3>4, <3>5 DEF Settled
  <2> QED
    BY <1>4, <2>7, <2>8, <2>9
<1> QED
  BY <1>7, <1>8

-----------------------------------------------------------------------------
(* The rest of the last line *)

\* The steps within a write.
LEMMA RestLines ==
    ASSUME PeerOK, StreamsOK, UNCHANGED <<wire, sock, conns, newlines>>, Blocks' = Blocks,
           step' # "send"
    PROVE  PeerOK' /\ StreamsOK'
<1>1. PeerOK'
  BY DEF PeerOK
<1>2. StreamsOK'
  BY DEF StreamsOK
<1> QED
  BY <1>1, <1>2

\* No entry is there, before and after.
LEMMA EmptyLines ==
    ASSUME OrderOK, iov = <<>>, iov' = <<>>, UNCHANGED <<wire, newlines>>,
           Blocks' = Blocks, Passed' = Passed, Here' = Here
    PROVE  Settled(iov, from)' /\ BatchOK' /\ OrderOK'
<1>1. BatchOf(iov, tails, parse) = <<>>
  BY NoBatch
<1>2. BatchOf(iov', tails', parse') = <<>>
  BY NoBatch
<1>3. Settled(iov', from') /\ LinesIn(Blocks', newlines', <<>>) /\ Whole(<<>>)
  BY NoLines
<1>4. BatchOK'
  BY <1>2, <1>3 DEF BatchOK
<1>5. OrderOK'
  BY <1>1, <1>2 DEF OrderOK
<1> QED
  BY <1>3, <1>4, <1>5

\* TextOK is about the text only.
LEMMA SameTextOK ==
    ASSUME TextOK, Passed' = Passed, UNCHANGED <<read, block>>, hook' = "write" => hook = "write"
    PROVE  TextOK'
BY DEF TextOK, Ascending

\* BeginOK is about the text and the place in it.
LEMMA SameBegin ==
    ASSUME BeginOK, Passed' = Passed, Blocks' = Blocks, newlines' = newlines, Here' = Here
    PROVE  BeginOK'
BY DEF BeginOK

\* Combine: the block goes behind the rest of the last line.
LEMMA CombineLines ==
    ASSUME WorkerOK, IngeekOK, FlushedOK, LineInv, read' = read, Combine
    PROVE  FlushedOK' /\ LineInv'
<1>1. /\ step = "idle" /\ hook = "write" /\ hook' = hook /\ accepted' = accepted /\ block' = block
      /\ UNCHANGED <<sendCount, newlines, sock, conns, iov, tails, wire>>
      /\ parse' = parse \o block /\ from' = 1 /\ lineAdd' = 0 /\ step' = "lines"
  BY DEF Combine, workerVars, peerVars, iovVars
<1>2. Blocks' = Blocks /\ Passed' = Passed /\ Fed' = Fed
  BY <1>1, SameText DEF Blocks
<1>3. iov = <<>> /\ from = 1 /\ Known = Fed /\ ~Pending' /\ Known' = Passed
  BY <1>1, <1>2 DEF FlushedOK, LineInv, ParseOK, Known, Pending
<1>4. /\ Fed \in Seq(Nat) /\ block \in Seq(Nat) /\ parse \in Seq(Nat) /\ Passed = Fed \o block
      /\ Len(Fed) \in Nat /\ Len(parse) \in Nat /\ Len(block) \in Nat
      /\ Len(Passed) = Len(Fed) + Len(block)
  BY <1>1, StateTypes
<1>5. /\ Len(parse \o block) = Len(parse) + Len(block)
      /\ \A i \in 1 .. Len(parse) : (parse \o block)[i] = parse[i]
      /\ \A i \in 1 .. Len(block) : (parse \o block)[i + Len(parse)] = block[i]
      /\ \A i \in 1 .. Len(parse) + Len(block) :
            i \in 1 .. Len(parse) \/ (i - Len(parse) \in 1 .. Len(block) /\ (i - Len(parse)) + Len(parse) = i)
  BY <1>4, ConcatIs
<1>6. /\ \A i \in 1 .. Len(Fed) : Passed[i] = Fed[i]
      /\ \A i \in 1 .. Len(block) : Passed[i + Len(Fed)] = block[i]
  BY <1>4, ConcatIs
<1>7. Off = Len(Fed) - Len(parse) /\ Off' = Off /\ Here = Off + 1 /\ Here' = Here /\ Off \in Nat
  <2>1. Off = Len(Fed) - Len(parse) /\ Here = Off + 1
    BY <1>3 DEF Off, Here
  <2>2. Off' = Len(Passed) - Len(parse \o block)
    BY <1>1, <1>3 DEF Off
  <2>3. Off' = Off
    BY <1>4, <1>5, <2>1, <2>2
  <2>4. Here' = Off' + 1
    BY <1>1 DEF Here
  <2> QED
    BY <2>1, <2>3, <2>4 DEF LineInv, ParseOK
<1>8. ParseOK'
  <2>1. \A i \in 1 .. Len(parse) : parse[i] = Fed[Off + i] /\ parse[i] \notin newlines
    <3>1. \A i \in from .. Len(parse) : parse[i] = Known[Off + i] /\ (Off + i <= Len(Fed) => parse[i] \notin newlines)
      BY DEF LineInv, ParseOK
    <3>2. \A i \in 1 .. Len(parse) : Off + i <= Len(Fed)
      BY <1>4, <1>7
    <3> QED
      BY <1>3, <3>1, <3>2
  <2>2. ASSUME NEW i \in 1 .. Len(parse) + Len(block)
        PROVE  /\ parse'[i] = Passed[Off + i]
               /\ Off + i <= Len(Fed) => parse'[i] \notin newlines
    <3>1. CASE i \in 1 .. Len(parse)
      <4>1. Off + i \in 1 .. Len(Fed)
        BY <1>4, <1>7, <3>1
      <4> QED
        BY <1>1, <1>5, <1>6, <2>1, <3>1, <4>1
    <3>2. CASE i \notin 1 .. Len(parse)
      <4>1. i - Len(parse) \in 1 .. Len(block) /\ parse'[i] = block[i - Len(parse)]
        BY <1>1, <1>5, <3>2
      <4>2. Off + i = (i - Len(parse)) + Len(Fed) /\ ~(Off + i <= Len(Fed))
        BY <1>4, <1>7, <4>1
      <4> QED
        BY <1>6, <4>1, <4>2
    <3> QED
      BY <3>1, <3>2
  <2>3. Len(parse') = Len(parse) + Len(block)
    BY <1>1, <1>5
  <2>4. 0 = Cardinality({j \in 1 .. Here - 1 - Len(Fed) : block[j] \in newlines})
    <3>1. Here - 1 - Len(Fed) \in Int /\ Here - 1 - Len(Fed) <= 0
      BY <1>4, <1>7
    <3>2. {j \in 1 .. Here - 1 - Len(Fed) : block[j] \in newlines} = {}
      BY <3>1
    <3> QED
      BY <3>2, FS_EmptySet
  <2>5. \A i \in from' .. Len(parse') : parse'[i] = Known'[Off' + i] /\ (Off' + i <= Len(Fed') => parse'[i] \notin newlines')
    BY <1>1, <1>2, <1>3, <1>7, <2>2, <2>3
  <2> QED
    BY <1>1, <1>2, <1>3, <1>7, <2>4, <2>5 DEF ParseOK
<1>9. TextOK' /\ BeginOK'
  BY <1>1, <1>2, <1>7, SameTextOK, SameBegin DEF LineInv
<1>10. Settled(iov, from)' /\ BatchOK' /\ OrderOK'
  BY <1>1, <1>2, <1>3, <1>7, EmptyLines DEF LineInv
<1>11. PeerOK' /\ StreamsOK'
  BY <1>1, <1>2, RestLines DEF LineInv
<1>12. FlushedOK'
  BY <1>1, <1>3 DEF FlushedOK
<1> QED
  BY <1>8, <1>9, <1>10, <1>11, <1>12 DEF LineInv

\* Replace: the block takes the place of the rest that was forced out.
LEMMA ReplaceLines ==
    ASSUME WorkerOK, IngeekOK, FlushedOK, LineInv, read' = read, Replace
    PROVE  FlushedOK' /\ LineInv'
<1>1. /\ step = "lines" /\ lineAdd = 0 /\ from > 1 /\ hook' = hook /\ accepted' = accepted
      /\ UNCHANGED <<block, sendCount, newlines, sock, conns, iov, tails, wire>>
      /\ parse' = block /\ from' = 1 /\ lineAdd' = 0 /\ step' = "lines"
  BY DEF Replace, Forced, workerVars, peerVars, iovVars
<1>2. Blocks' = Blocks /\ Passed' = Passed /\ Fed' = Fed
  BY <1>1, SameText DEF Blocks
<1>3. /\ Pending /\ iov = <<>> /\ from = Len(parse) + 1 /\ Known = Fed /\ ~Pending' /\ Known' = Passed
      /\ hook = "write"
  BY <1>1, <1>2 DEF FlushedOK, LineInv, ParseOK, Known, Pending, IngeekOK, IngeekTypeOK
<1>4. /\ Fed \in Seq(Nat) /\ block \in Seq(Nat) /\ Passed = Fed \o block
      /\ Len(Fed) \in Nat /\ Len(parse) \in Nat /\ Len(block) \in Nat
      /\ Len(Passed) = Len(Fed) + Len(block)
  BY <1>3, StateTypes
<1>5. \A i \in 1 .. Len(block) : Passed[i + Len(Fed)] = block[i]
  BY <1>4, ConcatIs
<1>6. Off' = Len(Fed) /\ Here = Len(Fed) + 1 /\ Here' = Here
  <2>1. Off = Len(Fed) - Len(parse) /\ Here = Off + (Len(parse) + 1)
    BY <1>3 DEF Off, Here
  <2>2. Off' = Len(Passed) - Len(block)
    BY <1>1, <1>3 DEF Off
  <2>3. Here' = Off' + 1
    BY <1>1 DEF Here
  <2> QED
    BY <1>4, <2>1, <2>2, <2>3
<1>7. ParseOK'
  <2>1. 0 = Cardinality({j \in 1 .. Here - 1 - Len(Fed) : block[j] \in newlines})
    <3>1. {j \in 1 .. Here - 1 - Len(Fed) : block[j] \in newlines} = {}
      BY <1>4, <1>6
    <3> QED
      BY <3>1, FS_EmptySet
  <2>2. \A i \in 1 .. Len(block) : block[i] = Passed[Len(Fed) + i] /\ ~(Len(Fed) + i <= Len(Fed))
    BY <1>4, <1>5
  <2>3. \A i \in from' .. Len(parse') : parse'[i] = Known'[Off' + i] /\ (Off' + i <= Len(Fed') => parse'[i] \notin newlines')
    BY <1>1, <1>2, <1>3, <1>6, <2>2
  <2> QED
    BY <1>1, <1>2, <1>3, <1>4, <1>6, <2>1, <2>3 DEF ParseOK
<1>8. TextOK' /\ BeginOK'
  BY <1>1, <1>2, <1>6, SameTextOK, SameBegin DEF LineInv
<1>9. Settled(iov, from)' /\ BatchOK' /\ OrderOK'
  BY <1>1, <1>2, <1>3, <1>6, EmptyLines DEF LineInv
<1>10. PeerOK' /\ StreamsOK'
  BY <1>1, <1>2, RestLines DEF LineInv
<1>11. FlushedOK'
  BY <1>1, <1>3 DEF FlushedOK
<1> QED
  BY <1>7, <1>8, <1>9, <1>10, <1>11 DEF LineInv

\* What is between the lines of a block and its end: not the text of the last block.
LEMMA InLinesIs ==
    ASSUME IngeekOK, ~Forced, step = "lines"
    PROVE  ~Pending /\ Known = Passed /\ hook = "write"
BY DEF Forced, Pending, Known, IngeekOK, IngeekTypeOK

\* EndWrite: what has no newline stays for the next block.
LEMMA EndLines ==
    ASSUME WorkerOK, IngeekOK, FlushedOK, LineInv, read' = read, EndWrite
    PROVE  FlushedOK' /\ LineInv'
<1>1. /\ step = "lines" /\ ~Forced /\ NewlinesFrom(from) = {} /\ parse' = SubSeq(parse, from, Len(parse))
      /\ from' = 1 /\ lineAdd' = 0 /\ step' = "idle"
      /\ UNCHANGED <<block, sendCount, newlines, sock, conns, iov, tails, wire>>
  BY DEF EndWrite, InLines, loopVars, peerVars, iovVars
<1>2. ~Pending /\ Known = Passed /\ hook = "write"
  BY <1>1, InLinesIs
<1>3. hook' = "read" /\ accepted' = Append(accepted, block)
  BY <1>2 DEF EndWrite, Return, Onward
<1>4. Blocks' = Blocks
  BY <1>2, <1>3 DEF Blocks
<1>5. Passed' = Passed /\ Fed' = Passed
  <2>1. Passed' = FlattenSeq(Blocks')
    BY Primes
  <2>2. Fed' = FlattenSeq(accepted')
    BY DEF Fed, FlattenSeq
  <2> QED
    BY <1>2, <1>3, <1>4, <2>1, <2>2 DEF Passed, Blocks
<1>6. /\ parse \in Seq(Nat) /\ Len(parse) \in Nat /\ from \in 1 .. Len(parse) + 1 /\ Len(Passed) \in Nat
      /\ Off \in Nat
  BY StateTypes DEF LineInv, ParseOK
<1>7. /\ Len(parse') = Len(parse) - from + 1
      /\ \A i \in 1 .. Len(parse) - from + 1 : parse'[i] = parse[from + (i - 1)]
  BY <1>1, <1>6, SubSeqIs
<1>8. ~Pending' /\ Known' = Passed
  BY <1>1, <1>5 DEF Pending, Known
<1>9. Off' = Off + (from - 1) /\ Here' = Here
  <2>1. Off = Len(Passed) - Len(parse) /\ Here = Off + from
    BY <1>2 DEF Off, Here
  <2>2. Off' = Len(Passed) - Len(parse') /\ Here' = Off' + 1
    BY <1>1, <1>8 DEF Off, Here
  <2> QED
    BY <1>6, <1>7, <2>1, <2>2
<1>10. ParseOK'
  <2>1. \A i \in from .. Len(parse) : parse[i] = Passed[Off + i]
    BY <1>2 DEF LineInv, ParseOK
  <2>2. \A i \in 1 .. Len(parse) - from + 1 : /\ from + (i - 1) \in from .. Len(parse)
                                             /\ Off + (from + (i - 1)) = (Off + (from - 1)) + i
    BY <1>6
  <2>3. \A i \in from .. Len(parse) : parse[i] \notin newlines
    BY <1>1 DEF NewlinesFrom
  <2>4. \A i \in 1 .. Len(parse') : parse'[i] = Known'[Off' + i] /\ parse'[i] \notin newlines
    BY <1>7, <1>8, <1>9, <2>1, <2>2, <2>3
  <2>5. Off' \in Nat
    BY <1>6, <1>9
  <2> QED
    BY <1>1, <1>8, <2>4, <2>5 DEF ParseOK
<1>11. TextOK' /\ BeginOK'
  BY <1>1, <1>3, <1>4, <1>5, <1>9, SameTextOK, SameBegin DEF LineInv
<1>12. iov = <<>>
  BY <1>1 DEF FlushedOK
<1>13. Settled(iov, from)' /\ BatchOK' /\ OrderOK'
  BY <1>1, <1>4, <1>5, <1>9, <1>12, EmptyLines DEF LineInv
<1>14. PeerOK' /\ StreamsOK'
  BY <1>1, <1>4, RestLines DEF LineInv
<1>15. FlushedOK'
  BY <1>1, <1>12 DEF FlushedOK
<1> QED
  BY <1>10, <1>11, <1>13, <1>14, <1>15 DEF LineInv

-----------------------------------------------------------------------------
(* A line that is forced out *)

\* The block is one of those passed on.
LEMMA BlockIn ==
    ASSUME WorkerOK, hook = "write"
    PROVE  block \in {Blocks[k] : k \in DOMAIN Blocks}
<1>1. Blocks = Append(accepted, block) /\ accepted \in Seq(Seq(Nat)) /\ block \in Seq(Nat)
  BY DEF Blocks, WorkerOK
<1>2. Len(accepted) + 1 \in DOMAIN Append(accepted, block)
      /\ Append(accepted, block)[Len(accepted) + 1] = block
  BY <1>1, AppendProperties
<1> QED
  BY <1>1, <1>2

\* A block begins with its first byte.
LEMMA StartOfBlock ==
    ASSUME NEW b \in Seq(Nat), b # <<>>, \A i \in DOMAIN b : b[i] = b[1] + (i - 1)
    PROVE  BlockStart(b) = b[1]
<1> DEFINE S == {b[i] : i \in DOMAIN b}
<1>1. 1 \in DOMAIN b /\ DOMAIN b = 1 .. Len(b) /\ Len(b) \in Nat
  OBVIOUS
<1>2. S \in SUBSET Nat /\ S # {} /\ b[1] \in S /\ b[1] \in Nat
  BY <1>1
<1>3. \A y \in S : b[1] <= y
  BY <1>1, <1>2
<1>4. BlockStart(b) = Min(S)
  BY DEF BlockStart
<1> HIDE DEF S
<1>5. Min(S) \in S /\ Min(S) <= b[1]
  BY <1>2, MinOK
<1>6. b[1] <= Min(S) /\ Min(S) \in Nat
  BY <1>2, <1>3, <1>5
<1> QED
  BY <1>2, <1>4, <1>5, <1>6

\* The bytes of parse_buffer, or some other sequence, as many as it has, make a
\* line too long.
LEMMA Enough ==
    ASSUME NEW a \in Nat, NEW n \in Nat, NEW S \in SUBSET (1 .. a + n), (a + 1) .. (a + n) \subseteq S
    PROVE  Cardinality(S) \in Nat /\ n <= Cardinality(S)
<1>1. IsFiniteSet(1 .. a + n) /\ Cardinality((a + 1) .. (a + n)) = n
  <2>1. a + 1 \in Int /\ a + n \in Int /\ 1 \in Int
    OBVIOUS
  <2>2. IsFiniteSet(1 .. a + n) /\ Cardinality((a + 1) .. (a + n)) = IF a + 1 > a + n THEN 0 ELSE (a + n) - (a + 1) + 1
    BY <2>1, FS_Interval
  <2> QED
    BY <2>2
<1>2. IsFiniteSet(S)
  BY <1>1, FS_Subset
<1>3. Cardinality((a + 1) .. (a + n)) <= Cardinality(S)
  BY <1>2, FS_Subset
<1> QED
  BY <1>1, <1>2, <1>3, FS_CardinalityType

\* BeginOK says that the next line begins right, when there is a next byte.
LEMMA NextBegins ==
    ASSUME BeginOK
    PROVE  BeginsIn(Blocks, newlines, Here)
BY DEF BeginOK, BeginsIn, Passed

\* ForceLine: the rest that leaves no room for the block goes out as a line with
\* no newline of its own.
LEMMA ForceLines ==
    ASSUME WorkerOK, BlockOK, IngeekOK, FlushedOK, LineInv, read' = read, ForceLine
    PROVE  FlushedOK' /\ LineInv'
<1> DEFINE n == Len(parse)
<1>1. /\ step = "idle" /\ hook = "write" /\ hook' = hook /\ accepted' = accepted /\ block' = block
      /\ UNCHANGED <<sendCount, newlines, sock, conns, parse, wire>>
      /\ from' = n + 1 /\ lineAdd' = 0 /\ AddLine(1, n, 0, TRUE)
      /\ n + Len(block) > ParseSize
  BY DEF ForceLine, workerVars, peerVars
<1>2. Blocks' = Blocks /\ Passed' = Passed /\ Fed' = Fed
  BY <1>1, SameText DEF Blocks
<1>3. iov = <<>> /\ from = 1 /\ Known = Fed
  BY <1>1 DEF FlushedOK, LineInv, ParseOK, Known
<1>4. /\ Fed \in Seq(Nat) /\ block \in Seq(Nat) /\ parse \in Seq(Nat) /\ Passed = Fed \o block
      /\ Len(Fed) \in Nat /\ n \in Nat /\ Len(block) \in Nat /\ Passed \in Seq(Nat)
      /\ Len(Passed) = Len(Fed) + Len(block) /\ \A i \in 1 .. Len(Fed) : Passed[i] = Fed[i]
  BY <1>1, StateTypes
<1>5. 1 <= n /\ 1 <= Len(block) /\ ParseSize \in Nat
  <2>1. n <= ParseSize /\ ParseSize \in Nat
    BY IngeekAssumption DEF IngeekOK, IngeekTypeOK
  <2>2. Len(block) <= BlockSize /\ BlockSize <= ParseSize /\ BlockSize \in Nat
    BY PluginsAssumption, ExecAssumption DEF BlockOK
  <2> QED
    BY <1>1, <1>4, <2>1, <2>2
<1>6. step' \in {"connect", "lines"} /\ (step' = "lines" => iov' = <<>>)
  BY <1>1 DEF AddLine
<1>7. Pending' /\ Known' = Fed
  BY <1>1, <1>2, <1>4, <1>5, <1>6 DEF Pending, Known
<1>8. /\ Off \in Nat /\ Off = Len(Fed) - n /\ Off' = Off /\ Here = Off + 1 /\ Here' = Len(Fed) + 1
      /\ Off + n = Len(Fed)
  <2>1. Off = Len(Fed) - n /\ Here = Off + 1 /\ Off' = Off /\ Here' = Off' + (n + 1)
    BY <1>1, <1>3, <1>7 DEF Off, Here
  <2>2. Off \in Nat
    BY DEF LineInv, ParseOK
  <2> QED
    BY <1>4, <2>1, <2>2
<1>9. \A i \in 1 .. n : parse[i] = Fed[Off + i] /\ parse[i] \notin newlines /\ Off + i \in 1 .. Len(Fed)
  <2>1. \A i \in from .. Len(parse) : parse[i] = Known[Off + i] /\ (Off + i <= Len(Fed) => parse[i] \notin newlines)
    BY DEF LineInv, ParseOK
  <2>2. \A i \in 1 .. n : Off + i \in 1 .. Len(Fed) /\ Off + i <= Len(Fed)
    BY <1>4, <1>8
  <2> QED
    BY <1>3, <2>1, <2>2
<1>10. /\ DOMAIN Passed = 1 .. Len(Passed) /\ Len(Fed) + 1 \in DOMAIN Passed
       /\ \A i \in 1 .. Len(Fed) : i \in DOMAIN Passed
       /\ Passed[Len(Fed) + 1] = block[1]
  <2>1. \A i \in 1 .. Len(block) : Passed[i + Len(Fed)] = block[i]
    BY <1>4, ConcatIs
  <2>2. 1 \in 1 .. Len(block) /\ 1 + Len(Fed) = Len(Fed) + 1
    BY <1>4, <1>5
  <2>3. DOMAIN Passed = 1 .. Len(Passed) /\ Len(Fed) + 1 \in 1 .. Len(Passed)
        /\ \A i \in 1 .. Len(Fed) : i \in 1 .. Len(Passed)
    BY <1>4, <1>5
  <2> QED
    BY <2>1, <2>2, <2>3
<1>11. /\ block \in {Blocks[k] : k \in DOMAIN Blocks} /\ block # <<>>
       /\ BlockStart(block) = Passed[Len(Fed) + 1]
  <2>1. block # <<>>
    BY <1>5
  <2>2. \A i \in DOMAIN block : block[i] = block[1] + (i - 1)
    BY <1>1 DEF LineInv, TextOK
  <2> QED
    BY <1>1, <1>4, <1>10, <2>1, <2>2, BlockIn, StartOfBlock
<1>12. NextLine(parse, 1, n, Here, 0)
  <2>1. ASSUME NEW k \in 1 .. n
        PROVE  Here + (k - 1) \in DOMAIN Passed /\ parse[1 + (k - 1)] = Passed[Here + (k - 1)]
    <3>1. Here + (k - 1) = Off + k /\ 1 + (k - 1) = k
      BY <1>8
    <3> QED
      BY <1>4, <1>9, <1>10, <3>1
  <2>2. Here + n = Len(Fed) + 1
    BY <1>4, <1>8
  <2>3. EndsIn({Blocks[k] : k \in DOMAIN Blocks}, newlines, Passed[Here + n], 0)
    BY <1>11, <2>2 DEF EndsIn
  <2>4. BeginsIn(Blocks, newlines, Here)
    BY NextBegins DEF LineInv
  <2> QED
    BY <1>10, <2>1, <2>2, <2>3, <2>4 DEF NextLine
<1>13. Settled(iov, from)' /\ BatchOK' /\ OrderOK' /\ tails' \in [1 .. sendCount -> Int]
  <2>1. /\ Here \in Int /\ Here' \in Int /\ 1 \in Int /\ n \in Int /\ 0 \in Nat
        /\ 1 <= 1 /\ 0 <= n /\ from' \in 1 .. Len(parse) + 1 /\ from <= from' /\ 1 + n <= from'
        /\ Here + n <= Here'
    BY <1>1, <1>3, <1>4, <1>8
  <2>2. Same(parse, parse, from - 1) /\ parse' = parse
    BY <1>1 DEF Same
  <2>3. UNCHANGED <<sendCount, newlines, wire>>
    BY <1>1
  <2> HIDE DEF n
  <2> QED
    BY <1>1, <1>2, <1>4, <1>12, <2>1, <2>2, <2>3, LineAdded
<1>14. ParseOK'
  <2>1. from' .. Len(parse') = {}
    BY <1>1, <1>4
  <2>2. step' # "idle" /\ from' = Len(parse') + 1 /\ Off' \in Nat
    BY <1>1, <1>6, <1>8
  <2> QED
    BY <1>7, <2>1, <2>2 DEF ParseOK
<1>15. BeginOK'
  <2> DEFINE S == {j \in 1 .. Len(Fed) : \A k \in j .. Len(Fed) : Passed[k] \notin newlines}
  <2>1. Here' - 1 = Len(Fed)
    BY <1>4, <1>8
  <2>2. S \in SUBSET (1 .. Off + n)
    BY <1>8
  <2>3. (Off + 1) .. (Off + n) \subseteq S
    <3>1. ASSUME NEW j \in (Off + 1) .. (Off + n) PROVE j \in S
      <4>1. j \in 1 .. Len(Fed)
        BY <1>4, <1>8
      <4>2. ASSUME NEW k \in j .. Len(Fed) PROVE Passed[k] \notin newlines
        <5>1. k - Off \in 1 .. n /\ Off + (k - Off) = k
          BY <1>4, <1>8
        <5> QED
          BY <1>4, <1>9, <5>1
      <4> QED
        BY <4>1, <4>2
    <3> QED
      BY <3>1
  <2>4. Cardinality(S) \in Nat /\ n <= Cardinality(S)
    <3> HIDE DEF S, n
    <3> QED
      BY <1>4, <1>8, <2>2, <2>3, Enough
  <2>5. Cardinality(S) + Len(block) > ParseSize
    <3> HIDE DEF S
    <3> QED
      BY <1>1, <1>4, <1>5, <2>4
  <2>6. BeginsIn(Blocks, newlines, Here')
    <3>1. Passed[Here'] = BlockStart(block)
      BY <1>8, <1>11
    <3> QED
      BY <1>11, <2>1, <2>5, <3>1 DEF BeginsIn, Passed
  <2> QED
    BY <1>1, <1>2, <1>8, <1>10, <2>6 DEF BeginOK
<1>16. TextOK'
  BY <1>1, <1>2, SameTextOK DEF LineInv
<1>17. PeerOK' /\ StreamsOK'
  BY <1>1, <1>2, <1>6, RestLines DEF LineInv
<1>18. FlushedOK'
  BY <1>1, <1>6, <1>13 DEF FlushedOK
<1> QED
  BY <1>13, <1>14, <1>15, <1>16, <1>17, <1>18 DEF LineInv

-----------------------------------------------------------------------------
(* A line that ends *)

\* The newlines among the first n bytes of b.
NewlinesTo(b, nls, n) == {j \in 1 .. n : b[j] \in nls}

\* The number of the next newline.
LEMMA CountNext ==
    ASSUME NEW m \in Int, NEW i \in Int, 1 <= i, m < i, NEW b, NEW nls,
           b[i] \in nls, \A j \in 1 .. i - 1 : m < j => b[j] \notin nls
    PROVE  /\ Cardinality(NewlinesTo(b, nls, m)) \in Nat
           /\ Cardinality(NewlinesTo(b, nls, i)) = Cardinality(NewlinesTo(b, nls, m)) + 1
<1> DEFINE A(n) == {j \in 1 .. n : b[j] \in nls}
<1>1. IsFiniteSet(A(m))
  <2>1. IsFiniteSet(1 .. m)
    BY FS_Interval
  <2>2. A(m) \in SUBSET (1 .. m)
    OBVIOUS
  <2> HIDE DEF A
  <2> QED
    BY <2>1, <2>2, FS_Subset
<1>2. A(i) = A(m) \cup {i}
  <2>1. ASSUME NEW j \in A(i) PROVE j \in A(m) \cup {i}
    <3>1. j \in 1 .. i /\ b[j] \in nls
      BY <2>1
    <3>2. j = i \/ (j \in 1 .. i - 1 /\ ~(m < j))
      BY <3>1
    <3>3. j = i \/ j \in 1 .. m
      BY <3>2
    <3> QED
      BY <3>1, <3>3
  <2>2. ASSUME NEW j \in A(m) \cup {i} PROVE j \in A(i)
    <3>1. j = i \/ (j \in 1 .. m /\ b[j] \in nls)
      BY <2>2
    <3>2. j \in 1 .. i /\ b[j] \in nls
      BY <3>1
    <3> QED
      BY <3>2
  <2> HIDE DEF A
  <2> QED
    BY <2>1, <2>2
<1>3. i \notin A(m)
  OBVIOUS
<1> HIDE DEF A
<1>4. Cardinality(A(i)) = Cardinality(A(m)) + 1 /\ Cardinality(A(m)) \in Nat
  BY <1>1, <1>2, <1>3, FS_AddElement, FS_CardinalityType
<1> QED
  BY <1>4 DEF A, NewlinesTo

\* Where a line from s to the newline e of parse_buffer is in the text, of which f
\* bytes were there before the block; o is the difference.
LEMMA Places ==
    ASSUME NEW o \in Nat, NEW n \in Nat, NEW f \in Nat, NEW b \in Nat, NEW s \in 1 .. n + 1,
           NEW e \in s .. n, f + b = o + n, ~(o + e <= f),
           NEW i, i = (o + e) - f, NEW m, m = (o + s) - 1 - f
    PROVE  /\ i \in Int /\ m \in Int /\ 1 <= i /\ m < i /\ i \in 1 .. b /\ i + f = o + e
           /\ o + e \in 1 .. f + b /\ (o + (e + 1)) - 1 - f = i /\ (o + (e + 1)) - 1 = o + e
           /\ \A j \in 1 .. i - 1 : m < j =>
                /\ j \in 1 .. b /\ (j + f) - o \in s .. n /\ (j + f) - o < e
                /\ o + ((j + f) - o) = j + f
           /\ \A k \in 1 .. e - s :
                /\ s + (k - 1) \in s .. n /\ s + (k - 1) # e /\ s + (k - 1) \in 1 .. n
                /\ (o + s) + (k - 1) = o + (s + (k - 1)) /\ (o + s) + (k - 1) \in 1 .. f + b
           /\ (o + s) + (e - s) = o + e
           /\ o + s \in Int /\ o + (e + 1) \in Int /\ s \in Int /\ e - s \in Int /\ 1 <= s /\ 0 <= e - s
           /\ e + 1 \in 1 .. n + 1 /\ s <= e + 1 /\ s + (e - s) <= e + 1 /\ (o + s) + (e - s) <= o + (e + 1)
           /\ \A j \in 1 .. s - 1 : j \in 1 .. n /\ j # e
           /\ \A j \in e + 1 .. n : j \in s .. n /\ j \in 1 .. n /\ j # e
OBVIOUS

\* SendLine: the text up to the next newline joins the batch.
LEMMA NextLines ==
    ASSUME WorkerOK, IngeekOK, FlushedOK, LineInv, read' = read, SendLine
    PROVE  FlushedOK' /\ LineInv'
<1> DEFINE end == Min(NewlinesFrom(from))
           q == [parse EXCEPT ![end] = 0]
           n == Len(parse)
           f == Len(Fed)
           i == (Off + end) - f
           m == (Off + from) - 1 - f
<1>1. /\ step = "lines" /\ ~Forced /\ hook' = hook /\ accepted' = accepted /\ block' = block
      /\ UNCHANGED <<sendCount, newlines, sock, conns, wire>>
      /\ AddLine(from, end - from, lineAdd + 1, IsLast(end))
      /\ parse' = q /\ from' = end + 1 /\ lineAdd' = lineAdd + 1
  BY DEF SendLine, InLines, workerVars, peerVars
<1>2. Blocks' = Blocks /\ Passed' = Passed /\ Fed' = Fed
  BY <1>1, SameText DEF Blocks
<1>3. ~Pending /\ Known = Passed /\ hook = "write"
  BY <1>1, InLinesIs
<1>4. /\ Fed \in Seq(Nat) /\ block \in Seq(Nat) /\ parse \in Seq(Nat) /\ Passed = Fed \o block
      /\ f \in Nat /\ n \in Nat /\ Len(block) \in Nat /\ Passed \in Seq(Nat)
      /\ Len(Passed) = f + Len(block) /\ from \in 1 .. n + 1 /\ lineAdd \in Nat
  BY <1>3, StateTypes DEF FlushedOK
<1>5. end \in from .. n /\ parse[end] \in newlines /\ \A j \in from .. n : j < end => parse[j] \notin newlines
  <2> DEFINE S == NewlinesFrom(from)
  <2>1. S # {}
    BY DEF SendLine
  <2>2. S \in SUBSET Nat
    BY <1>4 DEF NewlinesFrom
  <2>3. end = Min(S)
    OBVIOUS
  <2> HIDE DEF S, end
  <2>4. end \in S /\ \A y \in S : end <= y
    BY <2>1, <2>2, <2>3, MinOK
  <2>5. \A j \in from .. n : parse[j] \in newlines => j \in S
    BY DEF S, NewlinesFrom
  <2>6. end \in from .. n /\ parse[end] \in newlines
    BY <2>4 DEF S, NewlinesFrom
  <2>7. \A j \in from .. n : j < end => ~(end <= j)
    BY <1>4, <2>6
  <2> QED
    BY <2>4, <2>5, <2>6, <2>7
<1> HIDE DEF end
<1>6. /\ q \in Seq(Nat) /\ Len(q) = n /\ \A j \in 1 .. n : j # end => q[j] = parse[j]
      /\ end \in Nat /\ end \in 1 .. n /\ from \in Nat
  BY <1>4, <1>5
<1> HIDE DEF q
<1>7. /\ step' \in {"connect", "lines"} /\ (step' = "lines" /\ IsLast(end) => iov' = <<>>)
      /\ lineAdd + 1 # 0 /\ lineAdd + 1 \in Nat
  BY <1>1, <1>4 DEF AddLine
<1>8. ~Pending' /\ Known' = Passed
  BY <1>1, <1>2, <1>7 DEF Pending, Known
<1>9. /\ Off \in Nat /\ Off = Len(Passed) - n /\ Off' = Off /\ Here = Off + from
      /\ Here' = Off + (end + 1)
  <2>1. Off = Len(Passed) - n /\ Here = Off + from
    BY <1>3 DEF Off, Here
  <2>2. Off' = Off /\ Here' = Off' + (end + 1)
    BY <1>1, <1>6, <1>8, <2>1 DEF Off, Here
  <2>3. Off \in Nat
    BY DEF LineInv, ParseOK
  <2> QED
    BY <2>1, <2>2, <2>3
<1>10. \A j \in from .. n : parse[j] = Passed[Off + j] /\ (Off + j <= f => parse[j] \notin newlines)
  BY <1>3 DEF LineInv, ParseOK
<1>11. /\ \A j \in 1 .. f : Passed[j] = Fed[j]
       /\ \A j \in 1 .. Len(block) : Passed[j + f] = block[j]
  BY <1>4, ConcatIs
<1>12. /\ Off \in Nat /\ n \in Nat /\ f \in Nat /\ Len(block) \in Nat /\ from \in 1 .. n + 1 /\ end \in from .. n
       /\ f + Len(block) = Off + n /\ ~(Off + end <= f) /\ i = (Off + end) - f /\ m = (Off + from) - 1 - f
       /\ DOMAIN Passed = 1 .. f + Len(block) /\ DOMAIN block = 1 .. Len(block)
  <2>1. ~(Off + end <= f)
    BY <1>5, <1>10
  <2>2. f + Len(block) = Off + n
    BY <1>4, <1>9
  <2>3. DOMAIN Passed = 1 .. f + Len(block) /\ DOMAIN block = 1 .. Len(block)
    BY <1>4
  <2> QED
    BY <1>4, <1>5, <1>9, <2>1, <2>2, <2>3
<1> HIDE DEF i, m, n, f
<1>13. /\ i \in Int /\ m \in Int /\ 1 <= i /\ m < i /\ i \in 1 .. Len(block) /\ i + f = Off + end
       /\ Off + end \in 1 .. f + Len(block) /\ (Off + (end + 1)) - 1 - f = i /\ (Off + (end + 1)) - 1 = Off + end
  BY <1>12, Places
<1>14. \A j \in 1 .. i - 1 : m < j =>
         /\ j \in 1 .. Len(block) /\ (j + f) - Off \in from .. n /\ (j + f) - Off < end
         /\ Off + ((j + f) - Off) = j + f
  BY <1>12, Places
<1>15. \A k \in 1 .. end - from :
         /\ from + (k - 1) \in from .. n /\ from + (k - 1) # end /\ from + (k - 1) \in 1 .. n
         /\ (Off + from) + (k - 1) = Off + (from + (k - 1)) /\ (Off + from) + (k - 1) \in 1 .. f + Len(block)
  BY <1>12, Places
<1>16. /\ (Off + from) + (end - from) = Off + end /\ Off + from \in Int /\ Off + (end + 1) \in Int
       /\ from \in Int /\ end - from \in Int
       /\ 1 <= from /\ 0 <= end - from /\ end + 1 \in 1 .. n + 1 /\ from <= end + 1
       /\ from + (end - from) <= end + 1 /\ (Off + from) + (end - from) <= Off + (end + 1)
  BY <1>12, Places
<1>17. /\ \A j \in 1 .. from - 1 : j \in 1 .. n /\ j # end
       /\ \A j \in end + 1 .. n : j \in from .. n /\ j \in 1 .. n /\ j # end
  BY <1>12, Places
<1>18. Off + end \in DOMAIN Passed /\ Passed[Off + end] = parse[end]
       /\ i \in DOMAIN block /\ block[i] = Passed[Off + end]
  <2>1. Passed[i + f] = block[i]
    BY <1>11, <1>13 DEF f
  <2> QED
    BY <1>5, <1>10, <1>12, <1>13, <2>1
<1>19. \A j \in 1 .. i - 1 : m < j => block[j] \notin newlines
  <2>1. TAKE j \in 1 .. i - 1
  <2>2. SUFFICES ASSUME m < j PROVE block[j] \notin newlines
    OBVIOUS
  <2>3. j \in 1 .. Len(block) /\ (j + f) - Off \in from .. n /\ (j + f) - Off < end
        /\ Off + ((j + f) - Off) = j + f
    BY <1>14, <2>2
  <2>4. parse[(j + f) - Off] \notin newlines /\ parse[(j + f) - Off] = Passed[j + f]
    BY <1>5, <1>10, <2>3 DEF n
  <2> QED
    BY <1>11, <2>3, <2>4 DEF f
<1> DEFINE A(k) == {j \in 1 .. k : block[j] \in newlines}
<1>20. Cardinality(A(i)) = lineAdd + 1
  <2>1. lineAdd = Cardinality(A(Here - 1 - f))
    BY <1>1, <1>3 DEF LineInv, ParseOK, f
  <2>2. Here - 1 - f = m
    BY <1>9, <1>12
  <2>3. Cardinality(A(m)) \in Nat /\ Cardinality(A(i)) = Cardinality(A(m)) + 1
    <3>1. block[i] \in newlines
      BY <1>5, <1>18
    <3>2. m \in Int /\ i \in Int /\ 1 <= i /\ m < i
      BY <1>13
    <3>3. \A j \in 1 .. i - 1 : m < j => block[j] \notin newlines
      BY <1>19
    <3>4. /\ Cardinality(NewlinesTo(block, newlines, m)) \in Nat
          /\ Cardinality(NewlinesTo(block, newlines, i)) = Cardinality(NewlinesTo(block, newlines, m)) + 1
      BY <3>1, <3>2, <3>3, CountNext
    <3> QED
      BY <3>4 DEF NewlinesTo
  <2> QED
    BY <2>1, <2>2, <2>3
<1>21. NextLine(q, from, end - from, Here, lineAdd + 1)
  <2>1. ASSUME NEW k \in 1 .. end - from
        PROVE  Here + (k - 1) \in DOMAIN Passed /\ q[from + (k - 1)] = Passed[Here + (k - 1)]
    <3>1. /\ from + (k - 1) \in from .. n /\ from + (k - 1) # end /\ from + (k - 1) \in 1 .. n
          /\ (Off + from) + (k - 1) = Off + (from + (k - 1)) /\ (Off + from) + (k - 1) \in DOMAIN Passed
      BY <1>12, <1>15
    <3>2. /\ parse[from + (k - 1)] = Passed[Off + (from + (k - 1))]
          /\ q[from + (k - 1)] = parse[from + (k - 1)]
      BY <1>6, <1>10, <3>1 DEF n
    <3> QED
      BY <1>9, <3>1, <3>2
  <2>2. Here + (end - from) = Off + end
    BY <1>9, <1>16
  <2>3. EndsIn({Blocks[k] : k \in DOMAIN Blocks}, newlines, Passed[Off + end], lineAdd + 1)
    <3>1. block \in {Blocks[k] : k \in DOMAIN Blocks}
      BY <1>3, BlockIn
    <3>2. Passed[Off + end] \in newlines
      BY <1>5, <1>18
    <3>3. lineAdd + 1 = Cardinality({j \in 1 .. i : block[j] \in newlines})
      BY <1>20
    <3> QED
      BY <1>7, <1>18, <3>1, <3>2, <3>3 DEF EndsIn
  <2>4. BeginsIn(Blocks, newlines, Here)
    BY NextBegins DEF LineInv
  <2> QED
    BY <1>18, <2>1, <2>2, <2>3, <2>4 DEF NextLine
<1>22. Settled(iov, from)' /\ BatchOK' /\ OrderOK' /\ tails' \in [1 .. sendCount -> Int]
  <2>1. /\ Here \in Int /\ Here' \in Int /\ from \in Int /\ end - from \in Int /\ lineAdd + 1 \in Nat
        /\ 1 <= from /\ 0 <= end - from /\ from' \in 1 .. Len(parse) + 1 /\ from <= from'
        /\ from + (end - from) <= from' /\ Here + (end - from) <= Here'
    BY <1>1, <1>7, <1>9, <1>16 DEF n
  <2>2. Same(parse, q, from - 1) /\ parse' = q
    <3>1. \A j \in 1 .. from - 1 : q[j] = parse[j]
      BY <1>6, <1>17 DEF n
    <3> QED
      BY <1>1, <1>6, <3>1 DEF Same, n
  <2>3. UNCHANGED <<sendCount, newlines, wire>> /\ AddLine(from, end - from, lineAdd + 1, IsLast(end))
    BY <1>1
  <2> QED
    BY <1>2, <1>6, <1>21, <2>1, <2>2, <2>3, LineAdded
<1>23. ParseOK'
  <2>1. \A j \in from' .. Len(parse') : j \in from .. n /\ j \in 1 .. n /\ j # end
    BY <1>1, <1>6, <1>17 DEF n
  <2>2. \A j \in from' .. Len(parse') : parse'[j] = Known'[Off' + j] /\ (Off' + j <= Len(Fed') => parse'[j] \notin newlines')
    BY <1>1, <1>2, <1>6, <1>8, <1>9, <1>10, <2>1 DEF n, f
  <2>3. Here' - 1 - Len(Fed') = i
    BY <1>2, <1>9, <1>13 DEF f
  <2>4. lineAdd' = Cardinality({j \in 1 .. Here' - 1 - Len(Fed') : block'[j] \in newlines'})
    <3>1. lineAdd' = Cardinality({j \in 1 .. i : block[j] \in newlines})
      BY <1>1, <1>20
    <3> QED
      BY <1>1, <2>3, <3>1
  <2> QED
    BY <1>7, <1>8, <1>9, <2>2, <2>4 DEF ParseOK
<1>24. BeginOK'
  <2>1. Here' - 1 = Off + end
    BY <1>9, <1>13
  <2> QED
    BY <1>1, <1>2, <1>5, <1>18, <2>1 DEF BeginOK
<1>25. TextOK'
  BY <1>1, <1>2, SameTextOK DEF LineInv
<1>26. PeerOK' /\ StreamsOK'
  BY <1>1, <1>2, <1>7, RestLines DEF LineInv
<1>27. FlushedOK'
  <2>1. NewlinesFrom(from)' = {} => IsLast(end)
    <3>1. \A j \in end + 1 .. n : q[j] = parse[j]
      BY <1>6, <1>17 DEF n
    <3>2. NewlinesFrom(from)' = {j \in end + 1 .. n : q[j] \in newlines}
      BY <1>1, <1>6 DEF NewlinesFrom, n
    <3> QED
      BY <3>1, <3>2 DEF IsLast, NewlinesFrom, n
  <2> QED
    BY <1>1, <1>7, <1>8, <1>22, <2>1 DEF FlushedOK
<1> QED
  BY <1>22, <1>23, <1>24, <1>25, <1>26, <1>27 DEF LineInv

-----------------------------------------------------------------------------
(* Every step *)

\* A step that leaves the buffers alone leaves none behind.
LEMMA QuietFlushed ==
    ASSUME FlushedOK, UNCHANGED <<sendCount, newlines, parse, from, lineAdd, tails>>,
           iov' \in {iov, <<>>}, step' = "idle" <=> step = "idle", step' = "lines" => step = "lines" \/ iov' = <<>>
    PROVE  FlushedOK'
<1>1. NewlinesFrom(from)' = NewlinesFrom(from) /\ Pending' = Pending
  BY DEF NewlinesFrom, Pending
<1> QED
  BY <1>1 DEF FlushedOK

\* With the last newline, iov_array is sent or given up.
LEMMA LastFlushed ==
    ASSUME IngeekOK, FlushedOK, SendLine
    PROVE  FlushedOK'
<1> DEFINE end == Min(NewlinesFrom(from))
           q == [parse EXCEPT ![end] = 0]
<1>1. /\ AddLine(from, end - from, lineAdd + 1, IsLast(end)) /\ parse' = q /\ from' = end + 1
      /\ lineAdd' = lineAdd + 1 /\ newlines' = newlines /\ sendCount' = sendCount
  BY DEF SendLine
<1>2. lineAdd \in Nat /\ tails \in [1 .. sendCount -> Int] /\ parse \in Seq(Nat) /\ Len(parse) \in Nat
      /\ from \in 1 .. Len(parse) + 1
  BY DEF FlushedOK, IngeekOK, IngeekTypeOK
<1>3. end \in 1 .. Len(parse)
  <2> DEFINE S == NewlinesFrom(from)
  <2>1. S # {} /\ S \in SUBSET Nat /\ S \subseteq 1 .. Len(parse)
    BY <1>2 DEF SendLine, NewlinesFrom
  <2> HIDE DEF S
  <2>2. Min(S) \in S
    BY <2>1, MinOK
  <2> QED
    BY <2>1, <2>2 DEF S
<1> HIDE DEF end
<1>4. \A j \in end + 1 .. Len(parse) : q[j] = parse[j]
  BY <1>2, <1>3
<1>5. Len(q) = Len(parse)
  BY <1>2
<1>6. NewlinesFrom(from)' = {} => IsLast(end)
  <2>1. NewlinesFrom(from)' = {j \in end + 1 .. Len(parse) : q[j] \in newlines}
    BY <1>1, <1>5 DEF NewlinesFrom
  <2> QED
    BY <1>4, <2>1 DEF IsLast, NewlinesFrom
<1>7. tails' \in [1 .. sendCount -> Int]
  <2>1. TailOf(lineAdd + 1) \in Int
    BY <1>2 DEF TailOf
  <2>2. tails' = [tails EXCEPT ![Len(iov) + 1] = TailOf(lineAdd + 1)]
    BY <1>1 DEF AddLine
  <2> QED
    BY <1>2, <2>1, <2>2
<1>8. step' \in {"connect", "lines"} /\ (step' = "lines" /\ IsLast(end) => iov' = <<>>)
  BY <1>1 DEF AddLine
<1>9. lineAdd' \in Nat /\ lineAdd' # 0
  BY <1>1, <1>2
<1> QED
  BY <1>1, <1>6, <1>7, <1>8, <1>9 DEF FlushedOK, Pending

\* No entry outlives the buffers, whatever happens.
LEMMA FlushedStep ==
    ASSUME IngeekOK, StepOK, FlushedOK, [Next]_vars
    PROVE  FlushedOK'
<1>1. CASE UNCHANGED <<sendCount, newlines, step, parse, from, lineAdd, iov, tails>>
  BY <1>1, QuietFlushed
<1>2. CASE UNCHANGED ingeekVars \/ PeerCloses \/ Enable
  BY <1>1, <1>2 DEF ingeekVars, peerVars, lineVars, iovVars, PeerCloses, Enable
<1>3. CASE ConnectAll \/ PassOver \/ Refused \/ BeginIngeek \/ CloseGone \/ CleanIngeek
  BY <1>1, <1>3 DEF ingeekVars, peerVars, lineVars, iovVars, ConnectAll, PassOver, Refused, BeginIngeek,
       CloseGone, CleanIngeek
<1>4. CASE Take \/ Accepted
  BY <1>4, QuietFlushed DEF Take, Accepted, Seeking, lineVars, iovVars
<1>5. CASE SendBatch \/ SendFails
  BY <1>5, QuietFlushed DEF SendBatch, SendFails, Sending, lineVars
<1>6. CASE NoSocket
  BY <1>6 DEF NoSocket, FlushedOK
<1>7. CASE Combine
  <2>1. step = "idle" /\ from' = 1 /\ lineAdd' = 0 /\ step' = "lines" /\ UNCHANGED <<sendCount, iov, tails>>
    BY <1>7 DEF Combine, iovVars
  <2> QED
    BY <2>1 DEF FlushedOK
<1>8. CASE ForceLine
  <2>1. AddLine(1, Len(parse), 0, TRUE) /\ lineAdd' = 0 /\ sendCount' = sendCount
    BY <1>8 DEF ForceLine
  <2>2. tails' = [tails EXCEPT ![Len(iov) + 1] = TailOf(0)] /\ TailOf(0) \in Int
    BY <2>1 DEF AddLine, TailOf
  <2>3. step' \in {"connect", "lines"} /\ (step' = "lines" => iov' = <<>>)
    BY <2>1 DEF AddLine
  <2> QED
    BY <2>1, <2>2, <2>3 DEF FlushedOK
<1>9. CASE Replace
  <2>1. step = "lines" /\ Pending /\ UNCHANGED <<sendCount, step, lineAdd, iov, tails>>
    BY <1>9 DEF Replace, Forced, Pending, iovVars
  <2> QED
    BY <2>1 DEF FlushedOK
<1>10. CASE SendLine
  BY <1>10, LastFlushed
<1>11. CASE EndWrite
  <2>1. step = "lines" /\ NewlinesFrom(from) = {} /\ step' = "idle" /\ lineAdd' = 0
        /\ UNCHANGED <<sendCount, iov, tails>>
    BY <1>11 DEF EndWrite, InLines, iovVars
  <2> QED
    BY <2>1 DEF FlushedOK
<1> QED
  BY <1>2, <1>3, <1>4, <1>5, <1>6, <1>7, <1>8, <1>9, <1>10, <1>11
     DEF Next, Work, Loop, InputHooks, OutputHooks, Outside, Delivery, Enabled, vars, outputVars, IngeekHooks

\* What is no callback of output-ingeek and no read.
LEMMA QuietIngeek ==
    ASSUME WorkerOK, StepOK, [Next]_vars, ~ReadCommand, ~(Poll /\ UNCHANGED execVars),
           ~(IngeekHooks /\ UNCHANGED inputVars), Ingeek
    PROVE  UNCHANGED <<read, block, accepted>> /\ (hook' = "write" <=> hook = "write")
<1>1. ~KafkaOutHooks /\ ~FileHooks /\ ~Others
  BY KafkaOutHooksKafka, FileHooksFile DEF File, Kafka, Ingeek
<1>2. CASE Loop
  BY <1>2 DEF Loop, EventLoop, EpollWait, Timeout, HandleQuit, BatchEnds, HandleEvent, AfterBatch,
       inputVars, execVars
<1>3. CASE InputHooks
  <2>1. StartCommand \/ CleanCommand \/ (Subscribe /\ UNCHANGED execVars)
    BY <1>3 DEF InputHooks, ExecHooks, KafkaInHooks
  <2>2. hook \in {"initInput", "cleanInput"} /\ (Return("ok") \/ Return("hard")) /\ UNCHANGED <<read, block>>
    BY <2>1 DEF StartCommand, CleanCommand, Subscribe, execVars, loopVars
  <2> QED
    BY <2>2, ReturnOK DEF WorkerOK, Hooks
<1>4. CASE PipeCloses /\ UNCHANGED <<inputVars, outputVars>>
  BY <1>4 DEF PipeCloses, inputVars, execVars
<1>5. CASE Command /\ UNCHANGED workerVars
  BY <1>5 DEF Command, CommandWrites, CommandEnds, workerVars
<1>6. CASE (PeerCloses \/ Deliver \/ Enable) /\ UNCHANGED inputVars
  BY <1>6 DEF PeerCloses, Deliver, Enable, inputVars, execVars, loopVars, workerVars
<1>7. CASE UNCHANGED vars
  BY <1>7 DEF vars, workerVars, inputVars, execVars
<1> QED
  BY <1>1, <1>2, <1>3, <1>4, <1>5, <1>6, <1>7 DEF Next, Work, OutputHooks, Outside, Delivery, Enabled

\* Every step.
LEMMA LinesStep ==
    ASSUME WorkerOK, InputOK, StepOK, BlockOK, IngeekOK, LinesOK, [Next]_vars
    PROVE  LinesOK'
<1>1. FlushedOK' /\ FlushedOK
  BY FlushedStep DEF LinesOK
<1>2. Ingeek' = Ingeek
  BY ConfConstant DEF Ingeek
<1>3. \/ IngeekHooks /\ UNCHANGED inputVars
      \/ (PeerCloses \/ Enable) /\ UNCHANGED inputVars
      \/ UNCHANGED ingeekVars /\ ~(IngeekHooks /\ UNCHANGED inputVars)
  BY DEF Next, Work, Loop, InputHooks, OutputHooks, Outside, Delivery, Enabled, vars, outputVars
<1>4. CASE ~Ingeek
  <2>1. ~IngeekHooks
    BY <1>4, IngeekHooksIngeek
  <2>2. UNCHANGED <<wire, iov>>
    BY <1>3, <2>1 DEF PeerCloses, Enable, ingeekVars, iovVars
  <2> QED
    BY <1>1, <1>2, <1>4, <2>2 DEF LinesOK
<1>5. CASE Ingeek /\ stuck
  <2>1. stuck'
    BY <1>3, <1>5 DEF PeerCloses, Enable, ingeekVars, IngeekHooks, ConnectAll, PassOver, Take, Refused,
         Accepted, NoSocket, BeginIngeek, Combine, ForceLine, Replace, SendLine, EndWrite, SendBatch,
         SendFails, CloseGone, CleanIngeek
  <2> QED
    BY <1>1, <1>2, <1>5, <2>1 DEF LinesOK
<1>6. CASE Ingeek /\ ~stuck
  <2>1. LineInv
    BY <1>6 DEF LinesOK
  <2>2. CASE NoSocket
    <3>1. stuck'
      BY <2>2 DEF NoSocket
    <3> QED
      BY <1>1, <1>2, <1>6, <3>1 DEF LinesOK
  <2>3. CASE IngeekHooks /\ UNCHANGED inputVars /\ ~NoSocket
    <3>1. read' = read
      BY <2>3 DEF inputVars, execVars
    <3>2. LineInv'
      BY <1>1, <2>1, <2>3, <3>1, PeerSteps, CombineLines, ReplaceLines, EndLines, ForceLines, NextLines, SendSteps
         DEF IngeekHooks
    <3> QED
      BY <1>1, <1>2, <1>6, <3>2 DEF LinesOK
  <2>4. CASE (PeerCloses \/ Enable) /\ UNCHANGED inputVars
    <3>1. read' = read
      BY <2>4 DEF inputVars, execVars
    <3>2. LineInv'
      BY <1>1, <2>1, <2>4, <3>1, PeerSteps
    <3> QED
      BY <1>1, <1>2, <1>6, <3>2 DEF LinesOK
  <2>5. CASE UNCHANGED ingeekVars /\ ~(IngeekHooks /\ UNCHANGED inputVars)
    <3>1. CASE ReadCommand \/ (Poll /\ UNCHANGED execVars)
      <4>1. LineInv'
        BY <1>1, <2>1, <2>5, <3>1, ReadLines
      <4> QED
        BY <1>1, <1>2, <1>6, <4>1 DEF LinesOK
    <3>2. CASE ~ReadCommand /\ ~(Poll /\ UNCHANGED execVars)
      <4>1. UNCHANGED <<read, block, accepted>> /\ (hook' = "write" <=> hook = "write")
        BY <1>6, <2>5, <3>2, QuietIngeek
      <4>2. UNCHANGED <<sendCount, newlines, step, index, sock, conns, parse, from, lineAdd, iov, tails, wire>>
        BY <2>5 DEF ingeekVars, peerVars, lineVars, iovVars
      <4>3. /\ \A p, q \in Peers : sock[p] = sock[q] /\ sock[p] # 0 => p = q
            /\ step = "send" => index \in Peers /\ sock[index] # 0
            /\ conns \in Nat /\ conns <= conns
        BY <2>1 DEF LineInv, PeerOK, IngeekOK
      <4>4. LineInv'
        BY <1>1, <2>1, <4>1, <4>2, <4>3, PeersLines
      <4> QED
        BY <1>1, <1>2, <1>6, <4>4 DEF LinesOK
    <3> QED
      BY <2>5, <3>1, <3>2
  <2> QED
    BY <1>3, <2>2, <2>3, <2>4, <2>5
<1> QED
  BY <1>4, <1>5, <1>6

\* The initial states.
LEMMA InitLines == Init => LinesOK
<1> SUFFICES ASSUME Init PROVE LinesOK
  OBVIOUS
<1>1. /\ hook = "initOutput" /\ block = <<>> /\ accepted = <<>> /\ step = "idle" /\ index = 0
      /\ sock = [p \in Peers |-> 0] /\ conns = 0 /\ parse = <<>> /\ from = 1 /\ lineAdd = 0
      /\ iov = <<>> /\ tails = [i \in 1 .. sendCount |-> 0] /\ wire = <<>> /\ read = 0
  BY DEF Init, WorkerInit, IngeekInit, ExecInit
<1>2. WorkerOK /\ IngeekOK
  BY InitIInv DEF IInv
<1>3. FlushedOK
  <2>1. tails \in [1 .. sendCount -> Int]
    BY <1>1
  <2> QED
    BY <1>1, <2>1 DEF FlushedOK
<1>4. Blocks = <<>> /\ Fed = <<>> /\ Passed = <<>> /\ Known = <<>>
  <2>1. <<>> \in Seq(Seq(Nat)) /\ FlattenSeq(<<>>) = <<>>
    BY FlattenEmpty
  <2> QED
    BY <1>1, <2>1 DEF Blocks, Fed, Passed, Known
<1>5. Off = 0 /\ Here = 1 /\ Len(<<>>) = 0
  BY <1>1, <1>4 DEF Off, Here
<1>6. TextOK
  BY <1>1, <1>4 DEF TextOK, Ascending
<1>7. ParseOK
  BY <1>1, <1>4, <1>5 DEF ParseOK, Pending
<1>8. BeginOK
  BY <1>5 DEF BeginOK
<1>9. BatchOf(iov, tails, parse) = <<>>
  BY <1>1, NoBatch
<1>10. Settled(iov, from) /\ BatchOK
  BY <1>1, <1>9, NoLines DEF BatchOK
<1>11. wire \in Seq(Batch) /\ \A w \in DOMAIN wire : wire[w].conn \in 1 .. conns
  BY <1>1
<1>12. PeerOK
  BY <1>1, <1>11 DEF PeerOK
<1>13. \A c \in Nat : StreamOf(wire, c) = <<>>
  <2>1. \A i \in DOMAIN wire : FALSE
    BY <1>1
  <2> QED
    BY <1>11, <2>1, WireUnused
<1>14. StreamsOK
  BY <1>1, <1>13, NoLines DEF StreamsOK
<1>15. OrderOK
  <2>1. SentOf(wire) = <<>>
    <3>1. [i \in DOMAIN wire |-> wire[i].bytes] = <<>>
      BY <1>1
    <3> QED
      BY <3>1, FlattenEmpty DEF SentOf
  <2>2. SentOf(wire) \o BatchOf(iov, tails, parse) = <<>>
    BY <1>9, <2>1
  <2> QED
    BY <2>2 DEF OrderOK, Rising, Within
<1>16. LineInv
  BY <1>6, <1>7, <1>8, <1>10, <1>12, <1>14, <1>15 DEF LineInv
<1> QED
  BY <1>1, <1>3, <1>16 DEF LinesOK

\* The inductive invariant, with the lines.
LInv == IInv /\ LinesOK

\* The invariant holds, with the part about the lines of output-ingeek, too.
THEOREM LInvAlways == Spec => []LInv
<1>1. Init => LInv
  BY InitIInv, InitLines DEF LInv
<1>2. LInv /\ [Next]_vars => LInv'
  BY StepIInv, LinesStep DEF LInv, IInv
<1> QED
  BY <1>1, <1>2, PTL DEF Spec

\* output-ingeek with any blocks, peers and faults (SendLineBuffer, writev3): an open
\* connection carries whole lines of the text, each with its own tail; no line is sent
\* twice or late on any connection; no entry of iov_array outlives the buffers it
\* points into.
THEOREM LinesWholeAlways == Spec => []LinesWhole
<1>1. LInv => LinesWhole
  <2> SUFFICES ASSUME LInv PROVE LinesWhole
    OBVIOUS
  <2>1. step = "idle" => iov = <<>>
    BY DEF LInv, LinesOK, FlushedOK
  <2>2. \A c : Stream(c) = StreamOf(wire, c)
    BY DEF Stream, StreamOf
  <2>3. CASE Ingeek /\ ~stuck
    <3>1. LineInv /\ FlushedOK /\ IngeekOK
      BY <2>3 DEF LInv, LinesOK, IInv
    <3>2. \A p \in Peers : sock[p] # 0 =>
            LET s == Stream(sock[p]) IN s = <<>> \/ s[Len(s)] < 0
      BY <2>2, <3>1 DEF LineInv, StreamsOK, Whole
    <3>3. \A c \in 1 .. conns : LinesRight(Stream(c))
      <4>1. TAKE c \in 1 .. conns
      <4>2. c \in Nat
        BY <3>1 DEF IngeekOK
      <4>3. LinesIn(Blocks, newlines, StreamOf(wire, c))
        BY <3>1, <4>2 DEF LineInv, StreamsOK
      <4> QED
        BY <2>2, <4>3, RightIn
    <3>4. Rising(SentOf(wire))
      <4> DEFINE w == SentOf(wire)
                 b == BatchOf(iov, tails, parse)
      <4>1. Rising(w \o b) /\ w \in Seq(Int) /\ b \in Seq(Int)
        BY <3>1, StreamType, BatchIs DEF LineInv, OrderOK
      <4> HIDE DEF w, b
      <4>2. 0 \in 0 .. Len(b) /\ SubSeq(b, 1, 0) = <<>> /\ w \o <<>> = w
        BY <4>1
      <4>3. Rising(w \o SubSeq(b, 1, 0))
        BY <4>1, <4>2, OrderPrefix
      <4> QED
        BY <4>2, <4>3 DEF w
    <3> QED
      BY <2>1, <3>2, <3>3, <3>4 DEF LinesWhole, Rising, SentOf
  <2>4. CASE ~Ingeek
    <3>1. wire = <<>>
      BY <2>4 DEF LInv, LinesOK
    <3>2. /\ \A c : StreamOf(wire, c) = <<>>
          /\ FlattenSeq([i \in DOMAIN wire |-> wire[i].bytes]) = <<>>
      <4>1. /\ [i \in DOMAIN wire |-> wire[i].bytes] = <<>>
            /\ \A c : [i \in DOMAIN wire |-> IF wire[i].conn = c THEN wire[i].bytes ELSE <<>>] = <<>>
        BY <3>1
      <4> QED
        BY <4>1, FlattenEmpty DEF StreamOf
    <3>3. \A c : LinesRight(Stream(c))
      BY <2>2, <3>2, RightIn, NoLines
    <3> QED
      BY <2>1, <2>2, <3>2, <3>3 DEF LinesWhole
  <2>5. CASE stuck
    BY <2>1, <2>5 DEF LinesWhole
  <2> QED
    BY <2>3, <2>4, <2>5
<1> QED
  BY <1>1, LInvAlways, PTL
=============================================================================

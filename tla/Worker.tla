-------------------------------- MODULE Worker --------------------------------
(***************************************************************************)
(* src/worker.c, src/env.c and src/idle.c: one worker process with one      *)
(* input and one output plugin, from InitEnvironment to its end.  The       *)
(* worker is one thread; "hook" is the callback it is in, and a callback    *)
(* that is over goes on with Return.  What the callbacks do is in the       *)
(* modules of the plugins, which extend this one.                           *)
(*                                                                         *)
(* The text an input passes on is a sequence of bytes, and a byte is        *)
(* written as its place in it: a block is a sequence of numbers.  Monitor   *)
(* and restart are in Supervisor, several plugins at once in Dispatch.      *)
(***************************************************************************)
EXTENDS Integers, Sequences, FiniteSets

CONSTANTS
    Confs,      \* configurations: an input plugin and an output plugin
    MaxFaults   \* bound: faults of the system, the network or the data

ASSUME WorkerAssumption ==
    /\ Confs \subseteq [input : {"exec", "kafka"}, output : {"file", "kafka", "ingeek"}]
    /\ MaxFaults \in Nat

VARIABLES
    conf,       \* the configuration of this worker
    hook,       \* the callback it is in, "wait" or "batch" in the event loop, "exit"
    batch,      \* events of the last epoll_wait that are not handled yet
    watched,    \* descriptors that are registered with epoll
    quitPipe,   \* the monitor has closed its end
    quit_flag,
    block,      \* block_buf
    accepted,   \* history: the blocks for which WriteOutputPlugin returned 0
    faults

workerVars == <<conf, hook, batch, watched, quitPipe, quit_flag, block, accepted, faults>>

\* What a callback of the output plugin leaves alone, but for Return.
loopVars == <<conf, batch, quitPipe, quit_flag, block>>

Hooks == {"initOutput", "initInput", "before", "read", "write", "onOutput", "idle",
          "cleanInput", "cleanOutput"}

WorkerTypeOK ==
    /\ conf \in Confs
    /\ hook \in Hooks \cup {"wait", "batch", "exit"}
    /\ quitPipe \in BOOLEAN /\ quit_flag \in BOOLEAN
    /\ quit_flag => quitPipe
    /\ faults \in 0 .. MaxFaults

WorkerInit ==
    /\ conf \in Confs
    /\ hook = "initOutput"
    /\ batch = {} /\ watched = {}
    /\ quitPipe = FALSE /\ quit_flag = FALSE
    /\ block = <<>> /\ accepted = <<>>
    /\ faults = 0

Fault == faults < MaxFaults /\ faults' = faults + 1

\* InitEnvironment: an input plugin without a descriptor, p_block_input_plugin
Blocking == conf.input = "kafka"

\* idle_processing_flag: the plugin has an OnOutputPluginIdle
Idles == conf.output = "kafka"

-----------------------------------------------------------------------------
(* What follows a callback *)

InMessage == {"before", "read", "write"}

\* WriteAllOutputPlugins returns.  OnInputPluginEvent of input-exec ignores the
\* result, that of input-kafka begins the next message, at once or called again,
\* but for -1.
MessageEnds(r) ==
    IF ~Blocking THEN "batch" ELSE IF r = "hard" THEN "exit" ELSE "before"

Onward ==
    [initOutput |-> "initInput", initInput |-> IF Blocking THEN "before" ELSE "wait",
     before |-> "read", read |-> "write", write |-> "read",
     onOutput |-> "batch", idle |-> "wait",
     cleanInput |-> "cleanOutput", cleanOutput |-> "exit"]

\* A callback returns 0 ("ok"), > 0 ("soft"), < 0 ("hard") or "end" of input.
Return(r) ==
    /\ hook' = IF r = "ok" \/ (r = "soft" /\ hook \in {"onOutput", "idle"})
               THEN Onward[hook]
               ELSE IF hook \in InMessage THEN MessageEnds(r) ELSE "exit"
    /\ accepted' = IF hook = "write" /\ r = "ok" THEN Append(accepted, block) ELSE accepted

-----------------------------------------------------------------------------
(* The event loop *)

QuitEvent == <<<<"pipe", 0>>, TRUE>>
Event(fd, in) == <<fd, in>>

\* The monitor was told to stop.
PipeCloses ==
    /\ ~quitPipe /\ hook # "exit"
    /\ quitPipe' = TRUE
    /\ UNCHANGED <<conf, hook, batch, watched, quit_flag, block, accepted, faults>>

\* epoll_wait returns what is ready at this time.
EpollWait(ready) ==
    /\ hook = "wait"
    /\ batch' = ready \cup (IF quitPipe THEN {QuitEvent} ELSE {})
    /\ batch' # {}
    /\ hook' = "batch"
    /\ UNCHANGED <<conf, watched, quitPipe, quit_flag, block, accepted, faults>>

\* Nothing within a second: ProcessOnIdle.
Timeout(ready) ==
    /\ hook = "wait"
    /\ Idles
    /\ ready = {} /\ ~quitPipe
    /\ hook' = "idle"
    /\ UNCHANGED <<conf, batch, watched, quitPipe, quit_flag, block, accepted, faults>>

\* quit_flag is looked at when all of the batch is handled.
HandleQuit ==
    /\ hook = "batch"
    /\ QuitEvent \in batch
    /\ batch' = batch \ {QuitEvent}
    /\ quit_flag' = TRUE
    /\ UNCHANGED <<conf, hook, watched, quitPipe, block, accepted, faults>>

\* The next event of a descriptor of a plugin: its callback, or -1 if it is not
\* readable.
HandleEvent(fds, callback) ==
    /\ hook = "batch"
    /\ \E e \in batch \ {QuitEvent} :
        /\ e[1] \in fds
        /\ batch' = batch \ {e}
        /\ hook' = IF e[2] THEN callback ELSE "exit"
    /\ UNCHANGED <<conf, watched, quitPipe, quit_flag, block, accepted, faults>>

\* while( quit_flag == 0 ), and then CleanEnvironment
AfterBatch == IF quit_flag THEN "cleanInput" ELSE "wait"

BatchEnds ==
    /\ hook = "batch"
    /\ batch = {}
    /\ hook' = AfterBatch
    /\ UNCHANGED <<conf, batch, watched, quitPipe, quit_flag, block, accepted, faults>>

EventLoop(ready) ==
    EpollWait(ready) \/ Timeout(ready) \/ HandleQuit \/ BatchEnds
=============================================================================

# logpipe in TLA+

logpipe is a log collector: a *monitor* process forks and supervises one *worker*
process; the worker is a single thread around `epoll`, in which *input plugins*
produce messages, *filter plugins* transform their blocks and *output plugins*
write them away. This directory holds TLA+ models of its core, the
configurations that model-check them with TLC, and proofs checked by TLAPS.

Paths below are relative to the repository: `src/` is the program, `src-plugins/`
the plugins. Line numbers are those of the modelled commit (`PROJECT.json`, whose
paths have one more `src/` in front, names the lines of every definition).

## The system

### Components

| Component | State it keeps | Operations | Properties that make it correct |
|---|---|---|---|
| monitor (`src/monitor.c`) | `g_QUIT_flag`, the write end of the quit pipe, the pid it waits for, the start-once environment | fork a worker, `waitpid`, on `EINTR` close the pipe and later `SIGKILL`, restart | one worker at a time, restarted when it ends, stopped on request, killed only as a second resort, only the first one collects a full dose |
| worker loop (`src/worker.c`) | epoll set, `quit_flag`, next idle time | wait for events, call the plugin an event belongs to, call the idle hooks, exit on hangup of the quit pipe | notices the stop, does not outlive the monitor, gives no plugin's event to another |
| environment (`src/env.c`) | plugin lists, sessions of input-tcp, p_block_input_plugin | initialise and clean plugins, add and remove epoll events | every descriptor is registered once and removed before it is closed |
| dispatch (`src/output.c`) | `nret`, the block and its tags | `WriteAllOutputPlugins`: Before hooks, read/filter/write loop, After hooks | every plugin gets every block in order; hooks are paired; a failure is confined to one message |
| idle (`src/idle.c`) | – | calls each plugin's idle hook, stops at the first result that is not 0 | every plugin gets its turn |
| configuration, command line (`src/config.c`, `src/main.c`) | the environment | parse, `dlopen`, daemonise | start-up code |
| utilities, compression (`src/util.c`, `src/crypto.c`) | split-line buffer | `readn`, `writen`, string expansion, time differences, zlib | pure functions |
| file input (`logpipe-input-file.c`) | one trace per collected file in three red-black trees (path, watch descriptor, watch time), the list of `IN_MOVED_FROM`s, the inotify instance | load a directory, handle create / move / delete / file events, check a file's offset and send its blocks, idle checks | no block lost or sent twice, no trace dropped early, no trace behind its file without a wake-up, trees consistent |
| command input (`logpipe-input-exec.c`) | a pipe to a child | read what there is of the child's output | every byte once, in order; the worker ends with the command |
| Kafka input (`logpipe-input-kafka.c`) | a consumer | a loop without events around a poll | – |
| TCP output and input (`logpipe-output-tcp.c`, `logpipe-input-tcp.c`) | sessions, the current one, disable times; one session per accepted connection | framing `head, (length, data)*, 0`; reconnect, round robin | what is received is what was sent |
| file output (`logpipe-output-file.c`) | one cached descriptor per name | append a block, rotate by size, reopen | a block accepted is whole in one file, nothing twice or out of order, rotated files stay as they are |
| Kafka output (`logpipe-output-kafka.c`) | a librdkafka producer | produce, poll, flush | a block accepted is accounted for, in order; a full queue does not hang the worker |
| Elasticsearch output (`logpipe-output-es.c`) with the HTTP client (`fasterhttp.c`) | the rest of the last line, the bulk buffer, one connection and its parser | cut into lines, fill the template, post until answered | each line one document, posted in order at least once; the answer read is that of the request |
| ingeek output (`logpipe-output-ingeek.c`) | the rest of the last line, an iovec, a connection per peer | cut into lines, add a tail to each, send batches to the peers in turn | a connection carries whole lines with their tails; no line twice |
| HDFS, stdout, line-mode template | – | – | – |
| filters (`log`, `pack-metadata`, `unpack-metadata`) | a buffer | transform one block | lengths agree with contents |
| libraries | `rbtree`, `list`, `LOGC`, `fasterjson`, ZooKeeper lookup | – | – |

### How they interact

* The operator sends `SIGTERM` to the monitor; the monitor closes its end of the
  quit pipe; `epoll` reports the hangup to the worker, which finishes its batch
  of events and exits. `waitpid` reports the worker's end to the monitor.
* The kernel queues inotify events for the file input. The worker reads them in
  batches while applications go on writing, renaming and deleting, so that every
  event is old news when it is handled. File watches are one-shot
  (`IN_ONESHOT`): the event removes the watch and the handler has to put it back
  *before* it looks at the file's size.
* An input plugin calls `WriteAllOutputPlugins`, which calls the hooks of that
  input and of all filters and outputs. The result goes back to the input
  plugin, which decides whether the worker exits.
* An output that sends to a peer does so inside the hook: it connects, resends or
  polls until it is done, and nothing else of the worker runs meanwhile.
* The worker shares nothing with another thread but the queue of librdkafka. All
  other concurrency is between processes: monitor and worker, worker and
  applications, worker and peers.

### What is hard

Signals between two statements of the monitor; crashes and restarts; applications
that act between two system calls of a handler (`access` and `fstat`, `open` and
`inotify_add_watch`, `fstat` and the re-arm); a rename that arrives as two events
between others; reuse of watch descriptors and names; failures of one of several
outputs in the middle of a message; answers cut anywhere, late, or for a request that
is repeated; a batch that was sent half; a cached descriptor whose name is another file by now. The list with lines is in `PROJECT.json`,
under `hazards`.

## The modules

| Module | Models |
|---|---|
| `Supervisor` | `monitor()` and its signal handler, the worker's life as the monitor and the quit pipe see it |
| `Supervisor_proofs` | theorems about `Supervisor` |
| `WatchedDir` | external: the watched directory, applications, the kernel's inotify queue |
| `InputFile` | the file input plugin, on top of `WatchedDir` |
| `InputFile_proofs` | theorems about `InputFile`: types and keys, whatever happens; with calm applications, that no file and no wake-up is lost |
| `MCInputFile` | two names and the symmetry set for TLC |
| `Dispatch` | `WriteAllOutputPlugins` and what its callers make of its result |
| `Dispatch_proofs` | theorems about `Dispatch` |
| `MCDispatch` | the input plugins for TLC |
| `TcpForward` | output-tcp in one worker, connections that break, input-tcp in the workers of several servers |
| `TcpForward_proofs` | theorems about `TcpForward`, and that it refines `MessageChannel` |
| `MessageChannel` | abstract: what the far end's outputs may rely on, with its theorem; `TcpForward` refines it |
| `HttpClient` | `RequestHttp` and the part of the HTTP parser that output-es uses |
| `OutputEs` | the Elasticsearch output, on top of `HttpClient` |
| `HttpClient_proofs` | lemmas about `HttpClient`: what each label of the parser makes of a well-formed answer |
| `OutputEs_proofs` | theorems about `OutputEs`: it refines `AtLeastOnce`, and a result of 0 is the answer to this request |
| `AtLeastOnce` | abstract: the order in which documents are served; `OutputEs` refines it |
| `MCOutputEs` | answers, blocks and a template for TLC |
| `Worker` | the event loop with one input and one output plugin |
| `InputExec`, `InputKafka`, `OutputFile`, `OutputKafka`, `OutputIngeek` | the callbacks of these plugins, on top of `Worker` |
| `Plugins` | the worker with any pair of them |
| `Plugins_proofs` | theorems about `Plugins` |
| `MCPlugins` | configurations and newlines for TLC |

### Supervisor

`monitor` is the place in `monitor()` where the process is: `check` (the loop's
condition), `call` (about to call `waitpid`), `waiting` (asleep in it),
`interrupted` (returned with `EINTR`), `exited`, `failed`. The distinction of `call` and
`waiting` is the point of the model: a signal that arrives in `call` only sets
`g_QUIT_flag`, one that arrives in `waiting` also interrupts. `Fork` is `pipe`,
`fork` and `UnsetStartOnceEnv` in the parent; the child has the environment as
it was. `worker` is `init` (in `InitEnvironment`), `loop` (in `epoll_wait`),
`busy` (handling a batch), `block` (the endless loop around a block input
plugin), `ended` (a zombie) or `none`. The environment sends up to `MaxTerms`
SIGTERMs and causes up to `MaxFaults` faults: a worker crash (or any handler
returning -1), a failing `pipe`/`fork`, a `kill -9` of the monitor
(`shbin/logpipe.sh` falls back to it).

### WatchedDir and InputFile

A file is an inode with a length in blocks. `dir` binds names to inodes, `watch`
holds the armed one-shot watches, `queue` the pending events. `InputFile` adds
the worker: `live` and `trace` are `struct TraceFile` in the trees, `moved` is
`movefrom_filename_list`, `batch` the events read but not yet handled, `job` the
running `CheckFileOffset` with its caller, and `pc` the system call it is at:

| Action | Code |
|---|---|
| `Init`, `LoadEntry`, `LoadDone` | `InitInputPluginContext`, `LoadAllFilesToInotifyWdTree` |
| `OpenFile`, `WatchFile` | `AddFileWatcher` up to the path tree, and its `inotify_add_watch` |
| `CheckSize`, `BeginRound`, `WriteBlock`, `SoftFailure`, `HardFailure`, `EndRound`, `CheckAgain` | `CheckFileOffset` with the read hook of the plugin |
| `ReadEvents` | the `read` in `OnInputPluginEvent` |
| `OnCreate`, `OnMovedFrom`, `OnMovedTo`, `OnDelete`, `OnFile` | the handlers of one event |
| `Idle`, `CleanMoved` | `OnInputPluginIdle` |
| `Die`, `Restart` | a handler returned -1; the monitor forks the next worker |
| `AppCreate` ... `AppMoveIn` | what applications do between any two of these |

Abstractions: contents are block numbers; `IN_MODIFY` and `IN_CLOSE_WRITE` are one
kind of event because the plugin treats them alike; watch times are abstract – a
trace with a positive `watch_count` may be found due at any idle time, which
includes every order the real times allow; `rotate_size` is 0, no compression,
no line mode. The two events of a rename are queued one behind the other and fetched together, which inotify
does not promise (`Rename`). A trace whose new descriptor collides after a move is removed, without what
`SendCloseWriteEvent` does with the freed structure afterwards (`Relocate`).
The result of the outputs is one of `ok`, `before` (a Before hook
refused), `soft` (> 0 for a block) and `hard` (< 0). `got` and `twice` are history:
the blocks of an inode that every output took, and took again.

*Calm* applications create nothing while the worker first reads the directory,
act on a name only when the worker has adopted what it stands for, and rename
only files the worker is done with (`Adopted`, `Settled`). The promises about lost
and duplicated blocks are made for them. Outside, the code
does not keep them, and the model shows why: a file created while the directory
is read comes both from `readdir` and as `IN_CREATE`, the second `AddFileWatcher`
fails to link, and the worker exits; a file created and deleted before
`inotify_add_watch` has the same effect; create, unlink and create under one name
reads the second file once per `IN_CREATE`; a rename that falls between the
last read of the queue and an idle check loses the file (below, *Findings*).

### Dispatch

One action per kind of hook: `Before`, `Read`, `Handle` (filters and outputs in
their order), `After`. Each may return 0, > 0 or < 0, but for the Before hook of the input: only input-file
has one, and it returns 0. 0 is `Onward`, > 0 is
`GotoAfter` (`goto _GOTO_AFTER_OUTPUT`), < 0 is `Return` (`return -1` on the spot,
without After hooks). `open` is the set of plugins between their Before and
After hook, `did` the blocks each has handled. `Fatal` are the inputs whose
`OnInputPluginEvent` passes the -1 on, so that the worker exits (input-tcp,
input-kafka); input-file turns it into the 0 of `RemoveFileWatcher` and
input-exec ignores it.

### TcpForward and MessageChannel

The units of the code's `writen` and `readn` are tokens: `head` (magic, name length
and name), `len`, `data` and `eob` (a length of 0). A connection (`link`) has the
tokens written and not yet read, whether what is written still arrives, and what
its server reads next. When it breaks, a prefix of the tokens remains, the last of
them possibly cut off at any byte. Names of connections are reused.

| Action | Code |
|---|---|
| `InitConnect`, `TryNext`, `SocketFails` | `InitOutputPluginContext`, one turn of the loop of `CheckAndConnectForwardSocket`; `resume` is the place it returns to |
| `Message`, `Refused`, `GoesOn`, `GivenUp` | what `WriteAllOutputPlugins` and the input plugin on the sender's side do next |
| `SendHead`, `SendLen`, `SendData`, `SendEob` | `BeforeWriteOutputPlugin`, the two halves of `WriteOutputPlugin`, `AfterWriteOutputPlugin`; a write succeeds (also on a connection whose peer is gone), or fails and the same part is sent again on the next connection, `SendEob` excepted |
| `OnOutputPluginEvent` | closes what `poll` reports, between messages |
| `Accept`, `ReadHead`, `ReadLen`, `ReadData`, `Rejects` | input-tcp: accept, `OnInputPluginEvent_accepted_session`, `ReadInputPlugin_accepted_session`, and a message that another plugin of the server breaks off |
| `Break`, `SenderRestarts`, `ServerRestarts` | faults of the network and of the processes |

A server is one thread: while a session is inside a message (`Busy`) no other
session of that server is read. Of a length that was cut off anything may be
left, so it may be taken for a length, for 0, or for too much. A session that its own Read hook gives up is freed while
`WriteAllOutputPlugins` still has to look for its After hook (`output.c:284`); the model takes it that none is found there (`Removed`).

`TcpForward` knows more than the wire does, and makes assumptions about contents:
no block is empty (a zero length is the end of the message) or larger than the
receiver's buffer (`LOGPIPE_INPUT_BUFSIZE`, 100 KiB, while filters may produce
200 KiB; such a block makes the server drop the session); no block begins with `@`, which
would be taken for a head when it is sent again on a new connection; and the
first four bytes of a head or a block exceed the buffer's size when taken for a length, as text does.

`MessageChannel` is what remains true across all that: each message is seen at most
once and at one server, its blocks in order, none twice, nothing of another
message among them; it may be missing, end early, or end in a block that was cut
off. `Forwards` maps `begun`, `got` and the sessions to it. The histories stop when
a message is *skipped*: given up without its `AfterWriteOutputPlugin`, because
another plugin returned a negative result and the input plugin went on. Its connection
stays in the middle of a message, and from there on no promise holds: the next
head is taken for a length and the session dropped, or, after a failover, a
length sent again on that connection continues the wrong message.

### HttpClient, OutputEs and AtLeastOnce

`HttpClient` is `RequestHttp` as a state machine: `http` is the place it is in (send,
receive, parse, done, failed), `env` is `struct HttpEnv` with the buffer and the parser, which
stops when it needs more (`NeedMore`) and goes on from `process_ptr`. Every label of
`ParseHttpBuffer` that a response uses is an action. A character is a model value, and the network
hands over any part of what is on its way (`Receive`). What a server may answer is
stated, not listed: `WellFormed` describes the text of an answer as far as the parser depends on it, with the places of its headers and
chunks, and the answers of the run `es` satisfy it (`AnswerAssumption`). A value loses the blanks behind it
before it is compared (`Trimmed`), as in the code. Where the parser accepts more than such an answer has, one word stands for
all: `H` is any version that it lets pass, which includes words of eight bytes that do not begin with `HTTP/1`.

The response buffer has `BufSize` places, of which `recv` leaves the last one free (`Room`), and grows when these are used up
(`Grow`). `ReallocHttpBuffer` moves `base`, `fill_ptr` and `process_ptr` when `realloc` moves the buffer, and most of what the parser
keeps is offsets. `chunked_body` and `chunked_body_end` are not: a buffer that is moved within a chunked body leaves them
in the block that was freed (`env.dangling`). Whether it moves is a choice. What follows is what the code does with them: it measures
the chunk from one block to the other, so that it may wait for ever or go on anywhere (`ParseFreedChunk`), and copies it where nobody
sees it (`MoveChunk`). From then on the parser is `astray`. The model has no memory outside of the buffer: what such a copy overwrites, what is read there,
and a crash of the worker, which is a behaviour that stops in the middle of the request. A request in which the parser lost its place this way may run into its time-out at no fault (`TimesOut`).

| Action | Code |
|---|---|
| `WriteOutputPlugin`, `Fits`, `Forced`, `Replace`, `Line`, `Shift`, `LastLine` | `BeforeWriteOutputPlugin`, `WriteOutputPlugin`, `CombineToParseBuffer` |
| `ParseCombineBuffer`, `Fields`, `FormatOutputTemplate` (operators) | the functions of these names: grep, translation, fields, template |
| `StartRequest`, `StrcpyFails`, `InRequest`, `Reconnect`, `SocketFails`, `Posted` | `PostToEs` with its loop from `_GOTO_RESEND` |
| `Connect`, `EpollWait`, `OnOutputPluginEvent` | `ConnectElasticSearchServer` and the event handler, which may see an event of a socket that was replaced since |
| `Send`, `SendFails`, `TimesOut`, `Grow`, `Receive`, `ReceiveFails`, `Parse...` | `fasterhttp.c` |
| `Serve`, `Closes` | external: the server answers once a request is complete, or the connection ends and what is on the wire arrives or not |

`AtLeastOnce` is the promise to the server's side: each request served begins where the
last one began, with at least its documents, or right behind its last one. `served` is mapped to it.

### Worker and its plugins

`Worker` is one thread: `hook` is the callback it is in, or `wait` and `batch` in the event loop,
and `Return` is what the loop, `WriteAllOutputPlugins` and the input plugin make of a
callback's result. `batch` holds the events of one `epoll_wait`; `quit_flag` is looked at when all of
them are handled, and a descriptor that has hung up without data ends the worker. The
text of an input is the sequence 1, 2, 3, ...: a byte is its place, so that a block
tells what was lost, repeated or moved.

| Module | Actions | Code |
|---|---|---|
| `Worker` | `EpollWait`, `Timeout`, `HandleQuit`, `HandleEvent`, `BatchEnds`, `PipeCloses` | the loop of `worker()`, `ProcessOnIdle` |
| `InputExec` | `StartCommand`, `ReadCommand`, `CleanCommand`; external `CommandWrites`, `CommandEnds` | `popen`, `fread` without blocking, clean-up |
| `InputKafka` | `Subscribe`, `Poll` | the block input plugin |
| `OutputFile` | `UseCached`, `OpenAnew`, `OpenFails`; `WriteBlock`, `WriteAndRotate`, `RotateFails`, `WriteFails`, `UncompressFails`, `WriteFreed`; external `MoveAway`, `CreateEmpty` | the Before hook; the Write hook with `RotatingFile`; other programs |
| `OutputKafka` | `CreateProducer`, `Produce`, `Full`, `ProduceFails`, `PollIdle`, `Destroy`; external `Deliver` | the hooks; the threads of librdkafka |
| `OutputIngeek` | `ConnectAll`, `PassOver`, `Take`, `Refused`, `Accepted`, `NoSocket`; `Combine`, `ForceLine`, `Replace`, `SendLine`, `EndWrite`; `SendBatch`, `SendFails`; `CloseGone`, `CleanIngeek`; external `PeerCloses`, `Enable` | `CheckAndConnectForwardSocket`; `CombineToParseBuffer`, `SendLineBuffer`; `writev3`; the event handler and clean-up |

A file of `OutputFile` is a number, whatever name it has: `path` is the file that has the
message's name, `fd` the one that is open. `dangling` says that `p_trace_file` points to freed
memory, which is used when a block follows one whose rotation failed: the outcome is a crash or a
failed write. In `OutputIngeek` an entry of the iovec refers to `parse_buffer` or
`tail_array`, and what is sent is what is there when it is sent. A tail is one byte and fits its place; in the code one that is longer than
`MAX_TAIL_BUF` (256) gets the length that `snprintf` asked for, and bytes behind its place are sent.

## The runs

| Run | Question | Instance |
|---|---|---|
| `input_calm` | Are blocks lost or sent twice, traces dropped early, wake-ups missed, does a handler give up? | two names, two inodes, two blocks; create, append, close, unlink, rename; calm |
| `input_live` | Is every appended block handed over in the end? | two names, two inodes of one block; create, append, unlink, rename; calm; fair |
| `input_churn` | With applications that act at any moment, is every file covered, does any trace lag for ever? | one name, two inodes, two blocks; create, append, close, truncate, unlink; fair |
| `input_wild` | Do the trees stay consistent under everything at once? | two names; also replace, move in, move out, failing outputs, a queue of 3 that overflows, restarts |
| `input_rename` | Is a renamed file always followed? (no) | one inode, two names; append, rename at any moment |
| `supervisor` | Restart, stop, kill, start-once, orphans | 3 SIGTERMs, 3 faults; fair |
| `supervisor_lost` | Is one SIGTERM always enough? (no) | 1 SIGTERM, no fault; fair |
| `dispatch` | Blocks in lockstep, hooks paired | one input of either kind, 3 filters and outputs, up to 3 blocks |
| `tcp_forward` | Is what the servers pass on a `MessageChannel`, whatever breaks? Does a server stay blocked inside a message? | 2 servers, 3 connection names, 2 messages of up to 2 blocks, 1 fault; fair |
| `es` | Is each line one document, posted in order and at least once, and is the answer of the request the one that is read? | 2 blocks of 3, buffers of 5 and 12 characters, a response buffer of 10 that grows, 4 answers, 1 fault; bulk or `fields_strictly`; fair |
| `plugins` | Do the outputs keep what they accept, and does the worker stop, for each pair of a command or Kafka input and a file, Kafka or ingeek output? | 4 bytes in blocks of 2, files of 2, a queue of 1, 2 peers, an iovec of 3 or 4, 2 faults; fair |
| `dispatch_swallow` | Does a negative result always restart the worker? (no) | as above |

Every property of a passing run has a mutant in `PROJECT.json`: a plausible bug of
the code, under which TLC finds the property violated.

### What the properties say

* `WakeUpPending`: a trace behind its file has an event, a watch time or a move
  on its way that will have it looked at. It is the heart of the one-shot watch
  protocol: re-arm first, then look, and leave a note (`SendCloseWriteEvent`)
  when the look must end early.
* `Covered`: every file of the directory is traced or about to be. `Drained`: a
  trace is dropped only when nothing is left to read. `Followed`: a trace is not
  dropped while its file is still in the directory. `AtMostOnce`, `Alive`.
* `Collected`, `CaughtUp`: the liveness counterparts.
* `IndexUnique`: two traces share neither a path nor a live descriptor.
* `KilledOnSecond`, `OneDose`, `OneWorker`, `Restarted`, `Stops`, `NoOrphan`: see
  the comments in `Supervisor`. `Hangs` is part of `Stops` and `NoOrphan`: a worker
  stuck in a handler (an output that connects or resends for ever) does not stop.
* `Lockstep`, `Delivered`, `Paired`, `Balanced`: see `Dispatch`.
* `LenThenData`: a server that accepted a length finds its data next. `InStep`: no
  connection but the current one is in the middle of a message, which is why the
  next server rejects the part sent again after a failover instead of mixing it in.
  `Forwards` is the refinement of `MessageChannel`; `Unblocked` says that a server's
  thread leaves every message it has begun.
* `AnswerRead`: when `RequestHttp` returns 0 the server has answered, and status and body are those of the answer to this
  very request, wherever the network cut it, whatever the buffer kept of the last one and however often it grew. Two cases are excepted, in
  which the code does read something else (`env.astray`): a cut between the CR and the LF of the empty line, and a buffer that was moved within a
  chunked body. `RepeatsExcused`, `InOrder` and `PostEnds` have no such exception; a worker that crashed does not go on, and `PostEnds` does not speak of it.
  `Documents`: the documents are those of the lines that grep wants, computed from the whole text at once.
  `InOrder` is the refinement of `AtLeastOnce`; `RepeatsExcused`: a repetition costs a fault; `PostEnds`:
  the resend loop ends.
* `FilesKeep`: a block that output-file accepted is whole in one file, and the files hold the bytes in order,
  none twice. `FileSteps`: what was rotated away does not grow, and a message begins with
  the file that has its name.
* `KafkaAccounts`: each block accepted is queued, delivered or known to be undelivered, exactly one of them,
  and the broker gets them in order.
* `LinesWhole`: an open connection of output-ingeek carries whole lines of the text, each with
  its own tail; no line is sent twice or late; no iovec entry outlives the buffers it points to.
* `QuitHeard`: a worker with an event loop ends after the pipe was closed, from inside
  whatever hook it is in: with a full producer queue, or without any peer.

### Bounds

All bounds are constants: `MaxInodes`, `MaxSize`, `MaxWd`, `MaxCookie`, `MaxQueue`,
`MaxTerms`, `MaxFaults`, `Handlers`, `MaxBlocks`, `MaxAppendCount`, `MaxWatchCount`.
Two names and two inodes are what a rename, a reuse of a name and a collision in a
tree need; two blocks are what is needed to be behind, to catch up and to be
behind again. Descriptors and cookies are handed out least-free-first among those
nobody remembers, which stands for the kernel's cyclic counters; `MaxWd` is one
more than are ever in use, so allocation never blocks. The queue of 6 or 8 never fills up in the runs that
promise delivery (in `input_calm` it never holds more than 6 events, so that with 8 places
`Room`, the hypothesis of the theorems, holds in each of its states); in `input_wild` its 3 places do. Three SIGTERMs cover the close,
the kill and one more; three faults cover two crashes and a failed monitor.
Three handlers are a first, a middle and a last.
In `TcpForward` two servers are what a failover needs, two messages what a mix-up
needs, two blocks what a repetition or a gap needs; three connection names leave
one for a connection the sender has closed and the server still reads.
In `es` the blocks cut a line in the middle, at its end and with two lines at once, and the parse buffer
of 5 is small enough that a rest is forced out; the answers are one with a length, one without a
body, one in two chunks and one in a single chunk. A response buffer of 10 places holds the one without a body and grows for the others; for the
one with two chunks twice, the second time right behind the size of its first chunk, for the last one within the size; a request is sent in up to two pieces; the numbers in the answers have
one digit, except a length of 2 with anything cut. `MaxFaults` counts a connection that ends, a time-out, a missing
memory, a chunked answer and a cut between the CR and the LF of the empty line; a `socket` that
fails is free. That a document is too long for the format buffer does not happen in the instance.
In `plugins` four bytes in blocks of two are one block behind another, and with `CommandWrites` any
smaller pieces; the newlines are bytes 3 and 4, an end of a line that may or may not fit the
`ParseSize` of 3, and an empty line; an iovec of 3 or 4 is one with an odd and one with an even
size; a queue of 1 is full at the second block. Two faults are what a
failed rotation and the use of what it freed, or a close and a failed send need. `CreateEmpty` needs no
fault; it follows `MoveAway`, which does, or comes before the first message.
`MaxFaults` = 1 counts network breaks, restarts, a refused Before hook and a
rejecting server; failing to connect and a failing `socket` are free, as is the
discovery that a connection is down. With two faults the invariant of the proofs
was checked on one-block messages only.

### Fairness

* `InputFile!FairSpec`: the worker goes on when it can, and the monitor forks a new
  one. Applications never block the worker (`read`, `fstat` and the inotify calls on
  regular files do not wait), and outputs return in the fair runs
  (`Outcomes = {"ok"}`). No fairness for applications.
* `TcpForward!FairSpec`: within a message the sender goes on, since it is one thread whose
  loops and `writen` return; the servers read what is there. Not assumed: that a
  `connect` ever succeeds (`TryNext` may fail for ever), that a new message is begun, that the
  event handler runs. The
  code sets no keepalive: a peer that vanishes without closing blocks `readn` for
  ever, which fairness of `Read` leaves out.
* `OutputEs!Spec`: a worker in `PostToEs` goes on, and the server answers a complete request that stays
  complete. That `ConnectElasticSearchServer` succeeds after some attempts is part of
  `Reconnect`. Nothing is assumed of inputs, of events or of other faults.
* `Plugins!Spec`: the worker goes on when it can (`Work`; the peers that `InitOutputPluginContext` waits for accept in the
  end); librdkafka delivers a message or gives it up after `message.timeout.ms`
  (`Delivery`); `disable_timeout` ends (`Enabled`); and of peers that are tried again and again one
  accepts: strong fairness of `Accepted`, because `CheckAndConnectForwardSocket` never stops trying and has no
  other way to end. Without it `QuitHeard` does not hold, and the code does not stop then.
* `Supervisor!FairSpec`: the monitor is scheduled, and `epoll_wait` returns once the
  quit pipe has hung up. That `InitEnvironment` or a handler returns is *not*
  assumed. Nothing is assumed of the environment.

`CHECK_DEADLOCK FALSE` is set where the system may stop: the applications may have
used up their bounds with the worker idle, and the monitor may have exited.
In `TcpForward` all messages may have been sent, in `OutputEs` all blocks, and in `Plugins` the
worker has ended or its Kafka input has used up its polls. `Dispatch` never stops.

## The proofs

TLAPS checks, for all values of the constants that satisfy the modules' `ASSUME`s
(numbers are naturals, options are Booleans, the input plugins whose errors are
fatal are among the input plugins, `NoName` is no name, a block fits the parse buffer):

* `InputFile_proofs`: `TypeCorrect` and `UniqueKeys`. Types are not inductive by
  themselves: `Return` blanks the trace of the running job and `WriteBlock` indexes
  the sizes by its inode. `IInv` adds that a running check is of a live trace
  (`JobOK`) and that live traces have an inode and a path (`TracesOK`).
  `UniqueKeys` then shows `[]IndexUnique` relative to `IInv`: every action either keeps
  the keys (`KeysKept`), removes traces (`RemoveUnique`, `ReturnUnique`), adds
  one under a free path without a descriptor (`OpenFileUnique`), or changes one key
  after its collision test (`SetWdUnique`, `RelocateUnique`). No assumption
  about applications, queue length or outputs is made.
* Also in `InputFile_proofs`, second part: `CalmWakeUp`, `CalmCovered`, `CalmOnce`, `CalmAlive`, `CalmDrained`, `CalmFollowed`, which state the six
  properties of `input_calm` for every number of names, inodes, sizes, descriptors, renames and events.
  There are two hypotheses. `CalmSystem` is the regime of that run: applications that create, append, close, delete
  and rename, but leave a file alone while the worker has something to learn about it, and
  outputs that take every block. Without it the properties do not hold of the code (`input_rename` refutes
  `Followed`, and a soft failure leaves a trace without a wake-up). `Room` says that there are places in the queue for the two events of one step: the code does
  not look at `IN_Q_OVERFLOW`, and what the kernel drops is lost. `CalmInductive` proves the
  invariant `Good`, which TLC checked on the run's instance before. Its idea is the phase of a trace, of which there are four: the file
  is at the trace's path and no event has that name (`Home`); it was deleted and the event is on its way
  (`Doomed`); the worker is reading it out because of that event (`Ending`); it was renamed
  and the pair of events is ahead, or the second event is the next one (`Moving`). Events are looked at as one `Line`,
  the batch in the worker's hands followed by the kernel's queue, since nothing that matters happens when events are
  fetched, but the two halves of a rename are never parted by the end of a batch (`ToOK`). `EventsOK` says what each kind
  of event promises of the events behind it and of the directory; `MovedOK` that a move without its other half
  is completed by the very next event; `WatchOK` whose each watch is, with the reused descriptor of a deleted file
  that is read out, and that a trace without its watch has a file event in the line; `CheckOK` what
  is known while a trace is checked; `GotOK` how blocks read, offsets and sizes are related.
  One lemma per handler shows what it does to the phases (`Advanced...` for those that take an event,
  `NamesChange` for the applications). `Drained` and `Followed` are action properties: `DropsDone`
  shows them of the only steps that drop a trace.
* `Supervisor_proofs`: `SupervisorTypeCorrect`, `SecondResort`, `FirstWorkerOnly`, `NeverTwoWorkers`.
  `Resorts` counts: an interrupted `waitpid` has cost one SIGTERM, and so has a
  closed pipe while a worker is watched, and both at once have cost two. `Doses`
  relates the environment and the history variable.
* `Dispatch_proofs`: `DispatchTypeCorrect`, `BlocksInLockstep`, `DeliveredToAll`,
  `HooksPaired`, `HooksBalanced`. The invariant `Counts` fixes `did` at every point of the
  loop: plugins before `at` have the current block, the others do not
  (`Progress`). `Opened` says which plugins are open while the Before and After
  loops run.

* `MessageChannel`: `BlocksInOrder`, what the refinement is good for.
* `TcpForward_proofs`: `TypeCorrect` and `LengthThenData`. Types alone are not inductive:
  `got` takes whatever `ReadData` finds, which is a block only if lengths and data
  alternate, although the two are sent and sent again separately.
  `StreamOK` states this of one connection: in its pipe data follows each length,
  only the last token may be cut off and only when the connection is down, and a session that
  waits for data finds data first. `Owes` is a connection on which a length was the last thing
  sent; `DataNext` says that it is the current one and the sender is about to send the data.
  `SocksOK` gives each socket a connection of its own, so that closing one leaves
  the others alone, and `SenderOK` ties `step` and `resume` to `current`, `msg` and `blk`. The lemmas
  `AppendOK`, `CutAppendOK`, `RemainsOK`, `ReadOK`, `ClosedOK`, `RemovedOK` say what each kind of
  change does to one connection. The invariant needs no exception for
  messages that were given up.
  `InStepAlways` needs `Middle` on top of it: as long as no message was given up, the only
  live connection on which a message has begun and not ended is the current one, and there is none
  between messages (`Outside`).
  `ForwardsAlways` is the refinement of `MessageChannel` for all constants. With `BlocksInOrder`
  this gives the outputs of the servers together each message's first blocks in order and none twice,
  for any number of servers, connections, messages, blocks and faults, until a message is given up. `JInv` is
  inductive (`tcp_forward`'s instance satisfies it as well). Its parts are: `HooksOK` and `OneBusy`, a server is in one message at a time, so
  that its restart cuts off at most one; `HeadsOK`, the whole head of a
  message is written once and read once, whatever is sent again, which holds of messages that are given
  up too; `Flow`, each token in a pipe follows the one before it (`Follows`), and the first one follows
  what the outputs have (`Behind`); `Ready`, what the sender writes next follows the end of the current
  pipe. `Flow` and `Ready` rest on `InStep`, since a new message may begin only on a connection where none is open.
* `HttpClient_proofs` and `OutputEs_proofs`: `AnswerReadAlways`, `RepeatsExcusedAlways`, `InOrderAlways`, `TypeOKAlways`, from
  `AllInvAlways`, whose invariant has three parts.
  `IInv` is what the server knows. `Base` is
  the number of the last document that is done with. `Numbered`: those in `post_buffer` have the numbers that follow it;
  `Known`: the server has all that is done with, and perhaps the first of those in `post_buffer`; `Underway`: no request
  is half-way to the server outside of `RequestHttp`, so that none is served after its documents are given back;
  `AllKnown`: an answered request had all of `post_buffer`.
  `TypeInv` is the types: for any answers, cuts and buffer sizes the last place of the response buffer stays free, the parser's pointers stay within what was received, unless
  `p` was taken from a pointer into a freed block, and the text of `parse_buffer` stays within that buffer. `EnvOK` is the invariant of `struct HttpEnv`, with one lemma for each
  label of the parser; besides the types it needs that a body that is being read begins within the buffer, since
  the end of the answer is computed from there. `Digits` is a recursive function so that `Number` can be shown to be one
  (`NumberType`). `BufferOK` keeps the end of the line that is cut off within the text while its document is posted
  in between. Numbers in the model have no sign and do not wrap: a length that an `int` does not hold is left out.
  `ReadInv` is what `AnswerRead` takes, and both of the others need it: without it a result of 0 could belong to no request.
  Its idea is the `Stream`, the buffer followed by what is underway, in which the answer begins behind some `b` characters
  (`ReadFrom`), whatever the network has cut. `Reading` says where the parser is with it: still `Before` it, among what the last
  answer left; in its status line, its headers or its body, each with a relation between the fields of `struct HttpEnv` and
  the places of the answer (`InStatusLine`, `InHeaders`, `InBody`, the last with the chunks that were moved to the front, so that the stream
  is the answer no more, `Carries`); or `Astray`, after it went back from the middle of an empty line or used a pointer that dangles (`env.astray`). There is
  one lemma per label and a decision at each of them: waits, goes on, gives up or ends with the answer (`Ended`).
  A chunked answer leaves its end in the buffer. `Quiet` says that nothing in what is kept can be taken for a status line, which is
  why the next answer is still read. For `RepeatsExcused` the same invariant keeps accounts: a
  request that was served and whose answer is not to be had any more has a fault to its name that no repetition has used (`Owed`,
  `DebtOK`). Each way to lose an answer is followed to its fault: a close, a time-out, an answer in chunks, which counts as one because
  its end may make the next request fail and because the parser may lose its place in it when the buffer moves, or a cut in the empty line.
  The statements are about all answers that are well formed (`AnswerAssumption`), which is what the code
  asks of a server: a status line, headers with a value, the body framed by its length or in chunks with sizes the parser can read, and no
  second version in the text. TLC evaluates it for the answers of the run `es`.
* `Plugins_proofs`: `IInvAlways` and `KafkaAccountsAlways`, with one step for each callback of each plugin.
  The types of `parse_buffer` and `iov_array` of output-ingeek are bounds that three
  functions keep together: `IngeekOK` needs that a block fits the buffer when it replaces a rest
  (`BlockOK`, the named assumption `PluginsAssumption`), that only output-ingeek is inside a Write hook with a
  step of its own (`StepOK`) and that an entry and its tail are both tested for room before they
  are put in. `KafkaAccounts` is inductive only with the queue in ascending order (`KafkaOK`) and the
  producer open as long as a block can be accepted.
  For output-file, `FInvAlways`, `TypeOKAlways`, `FilesKeepAlways`, `FileStepsAlways`: `Base` is what was read before the block
  that is being written. `BytesOK` says that the files hold only bytes up to it (`AtMost`), so that the block
  belongs behind all of them, and that no file behind the open one, or behind the one that has the
  name, holds a byte (`LastIs`): others may create files, but only empty ones, and the plugin never goes back to
  an older one. The freed structure needs no exception: what it does is a failed write or the end.
  For output-ingeek, `LInvAlways` and `LinesWholeAlways`, for any text, blocks, newlines, buffers, peers and faults.
  Whole lines on the wire come of lines and tails put into `iov_array` in pieces, by four functions that
  disagree about where the text in `parse_buffer` begins, so that the invariant `LinesOK` says first which text that is:
  `Known` is what was accepted, with the block under way unless a line that was forced out has yet to make room for it, and
  `ParseOK` puts each byte of `parse_buffer` from `from` on at its place in it (`Off`), with no newline
  in the rest of the last line and `lineAdd` newlines of the block behind. `BeginOK`: where `from` points (`Here`) a line begins.
  `Settled` and `BatchOK`: each entry points below `from`, where nothing is written any more before the batch goes,
  and the batch is whole lines with their tails. `OrderOK`: what was sent and the batch together have the
  bytes of the text in order and none from `Here` on, so that a batch that is given up is not sent again.
  `PeerOK`: no two peers share a connection, so that a partial send, after which it is closed, breaks only a
  stream that is never continued; with `StreamsOK`, whole lines on all connections, a tail last on the open ones.
  `FlushedOK` sends the batch before the block returns. The lemmas under "Sequences of sequences" say what `FlattenSeq` does, and
  those under "Lines and their tails" that lines stay right when they are copied, cut off at a prefix or put behind others.

Only model-checked: the liveness properties (the prover has no rules for
fairness and `ENABLED` here); `WakeUpPending` and `Covered` for the applications of `input_churn`, which change a file while
the worker is at it, and so break the phases of those proofs;
`Documents`: what fields, grep and template make of a line is computed by folds with an operator as a parameter (`FoldLeft`), of which
no library theorem can be instantiated here; everything about particular bounds. A fold that is defined
by a recursive function is within reach: the library's induction theorems have an operator as a parameter,
but the set of the numbers for which a statement holds is all of `Nat` because `<` is well-founded there (`WFMin`), which is how
`Plugins_proofs` proves its lemmas about `FlattenSeq` (`NatInd`).

## Findings

`PROJECT.json` quotes the documentation; each has a violation run.

* A rename between the worker's last look at the inotify queue and its idle check
  makes the check find the old path gone: it reads what is left and drops the
  trace, the two move events find no trace, and the renamed file is not
  collected any more (`input_rename`, `Followed`). The file event handler has the same window
  at its `inotify_add_watch`.
* A SIGTERM between the test of `g_QUIT_flag` and the sleep in `waitpid` is lost
  (`supervisor_lost`, `TermStops`); a second one is needed.
* A callback's negative result does not restart the worker when the message
  came from input-file or input-exec (`dispatch_swallow`, `HardRestarts`); the After hooks of the
  plugins that were begun are skipped.

Also seen while modelling, without a run of their own: the comment on the TCP
protocol (`logpipe-output-tcp.c:4`) gives block lengths 2 bytes and the end 4, the code sends 8 for
both; `AfterWriteOutputPlugin` is also called for a message that was never begun,
and its lone zero length makes the server drop a healthy session; after a soft failure of an
output the file input steps over the block and sets no watch time, so the
remainder waits for the next write; a file moved in from elsewhere is never
traced, because only a move with its other half in the list is handled; a restarted worker begins at the
end of each file, so what was appended meanwhile is never collected; a worker with a block input plugin
never looks at the quit pipe and is stopped by SIGKILL only (`Stops` and `NoOrphan` are
therefore checked with `BlockInput = FALSE`, while the theorems hold for both).

In the plugins: input-kafka returns every message of its consumer as the end of the input
(`logpipe-input-kafka.c:251`), so that `WriteAllOutputPlugins` never passes one on. The branches of
input-exec for an `fread` of -1 are never taken (`fread` returns a `size_t`), and
a command that ends ends the worker, which the monitor starts again together with the command. After a
rotation that failed, output-file frees its structure and returns 0, so that the next block of the message uses
it. In `RotatingFile` the rename takes whatever file has the name, also one that was created anew
meanwhile. output-ingeek gives a line up when an odd `iov_send_count` leaves no room
for its tail, gives a batch up after a time-out with result 0 for the block, and leaves NULs in `parse_buffer` when no socket is to be
had. The field scan of output-es goes on behind the end of a line with too few fields, and
its grep searches behind the end of a line that was forced out. The HTTP parser counts
the size of a chunk to the base 10, returns from the middle of the empty line without
saving its place, leaves the end of a chunked answer unread, and uses `chunked_body` and `chunked_body_end` after the buffer was moved (`env.astray`). The status of an answer is not looked
at: documents that the server refuses are done with (`Posted`).

In code that is not modelled: `logpipe-filter-pack-metadata.c:152` adds the length of the block, not of the
metadata, to the length; `tag` is declared as 65 tags of 8 bytes (`logpipe_in.h:146`), so that the test of the index at `output.c:80` is not the bound
of `tag_len`, which has 8 places; `logpipe-output-hdfs.c` does not compile.

## Not modelled

Name patterns, compression, line mode and rotation of the file input; the order of
the idle walk, which begins at the latest time and stops at the first trace that is not due, so that others may wait
for long; several input plugins in one epoll batch; the bytes of the TCP protocol; the HDFS
output, which does not compile, the stdout output and the line-mode template, which keep no state
of their own, and the filters, beyond "a hook that returns something"; the parts of `fasterhttp.c` for servers, SSL and
compressed bodies; configuration, command line, logging, the ZooKeeper lookup and
the bundled libraries. `PROJECT.json` gives the reason per component.

## Plan

1. `Supervisor`, `WatchedDir`/`InputFile`, `Dispatch` with their first theorems – done.
2. `TcpForward` with `MessageChannel`, the theorem that lengths and data alternate, and the
   refinement's proof – done.
3. `HttpClient`, `OutputEs` and `AtLeastOnce` with the proof of its refinement, which needs
   the numbers in `post_buffer` and `AnswerRead`, and of `AnswerRead`, which needs the parser – done.
4. `Worker` with `OutputFile`, `OutputKafka`, `OutputIngeek` and their theorems, `LinesWhole`
   among them – done.
5. An abstract tail (per file a position that only grows, blocks handed over in order)
   refined by `InputFile`; an abstract hook protocol refined by `Dispatch`.
6. `IdleTimers`: the watch-time tree and the idle walk, starvation; soft failures
   and rotation by size in the path index.
7. Pure algorithms: split-line buffer, the glob matcher of name patterns, metadata
   packing, string expansion, time differences.
8. Proofs: `WakeUpPending`, `Covered`, `AtMostOnce`, `Alive`, `Drained` and `Followed` for calm
   applications, and `AnswerRead` and `RepeatsExcused` for any well-formed answers – done. Left: the first two for the
   applications of `input_churn`, `Documents`, the refinements of 5.

------------------------------ MODULE InputFile ------------------------------
(***************************************************************************)
(* src-plugins/logpipe-input-file.c: the worker's side of tailing one      *)
(* directory.  The worker reads the inotify queue in batches, keeps one    *)
(* trace per collected file (struct TraceFile), re-arms the one-shot file  *)
(* watch before it looks at the file, and hands what was appended to the   *)
(* outputs, block by block.  Between any two of its system calls that      *)
(* matter here the applications of WatchedDir may act.                     *)
(*                                                                         *)
(* Configuration modelled: no compression, no line mode, rotate_size 0.    *)
(* Watch times are abstract: a trace whose watch_count is positive may be  *)
(* found due at any idle time (see README.md).                             *)
(***************************************************************************)
EXTENDS WatchedDir

CONSTANTS
    MaxAppendCount, \* config max_append_count, 0 by default
    MaxWatchCount,  \* config max_watch_count
    Outcomes,       \* what WriteAllOutputPlugins may return
    StartFull,      \* --start-once-for-env "start_once_for_full_dose 1"
    Ops,            \* what the applications do
    Calm            \* TRUE: they leave a file alone until the worker is done with it

AllOutcomes == {"ok", "before", "soft", "hard"}

ASSUME InputAssumption ==
    /\ MaxAppendCount \in Nat /\ MaxWatchCount \in Nat
    /\ Outcomes \subseteq AllOutcomes
    /\ StartFull \in BOOLEAN /\ Calm \in BOOLEAN

VARIABLES
    pc,     \* where the worker is
    todo,   \* the names readdir has not returned yet
    full,   \* start_once_for_full_dose of this worker
    batch,  \* the events read from the inotify fd and not yet handled
    live,   \* the traces in the plugin's trees
    trace,  \* struct TraceFile
    moved,  \* movefrom_filename_list
    job,    \* the running CheckFileOffset: its trace, its caller, its locals
    got,    \* history: the blocks of each inode handed to all outputs
    twice   \* history: those of them handed over more than once

workerVars == <<pc, todo, full, batch, live, trace, moved, job, got, twice>>
vars == <<dir, born, size, watch, queue, pc, todo, full, batch, live, trace, moved, job,
          got, twice>>

\* Paths are unique among the live traces, so one more than Names suffices.
Traces == 1 .. Cardinality(Names) + 1

TraceFile ==
    [ino : Inodes \cup {NoInode}, path : Names \cup {NoName}, offset : 0 .. MaxSize,
     wd : Wds \cup {NoWd}, count : Nat]

Blank == [ino |-> NoInode, path |-> NoName, offset |-> 0, wd |-> NoWd, count |-> 0]

Callers == {"none", "load", "create", "event", "gone", "delete", "idle", "lost"}

Job == [t : Traces \cup {0}, caller : Callers, remain : 0 .. MaxSize, appends : Nat]

NoJob == [t |-> 0, caller |-> "none", remain |-> 0, appends |-> 0]

CheckBy(t, caller) == [t |-> t, caller |-> caller, remain |-> 0, appends |-> 0]

MovedFrom == [path : Names, cookie : Cookies]

\* The type invariant: an offset never exceeds what a file can hold, a live
\* watch has a descriptor, a list entry of a move has a name and a cookie.
TypeOK ==
    /\ dir \in [Names -> Inodes \cup {NoInode}]
    /\ born \in 0 .. MaxInodes
    /\ size \in [Inodes -> 0 .. MaxSize]
    /\ watch \in [Inodes -> Wds \cup {NoWd}]
    /\ queue \in Seq(Event)
    /\ pc \in {"load", "loop", "watch", "check", "begin", "round", "recheck", "dead"}
    /\ todo \in SUBSET Names
    /\ full \in BOOLEAN
    /\ batch \in Seq(Event)
    /\ live \in SUBSET Traces
    /\ trace \in [Traces -> TraceFile]
    /\ moved \in SUBSET MovedFrom
    /\ job \in Job
    /\ got \in [Inodes -> SUBSET (1 .. MaxSize)]
    /\ twice \in [Inodes -> SUBSET (1 .. MaxSize)]

-----------------------------------------------------------------------------
(* Lookups in the plugin's trees, and what is still on its way to them. *)

\* QueryTraceFilePathFilenameTreeNode and QueryTraceFileInotifyWdTreeNode
TraceAt(n) == {t \in live : trace[t].path = n}
TraceOfWd(w) == {t \in live : trace[t].wd = w}

InSeq(q) == {q[k] : k \in 1 .. Len(q)}
Pending == InSeq(queue) \cup InSeq(batch)
Awaited(mask, n) == \E e \in Pending : e.mask = mask /\ e.name = n
FileAwaited(w) == \E e \in Pending : e.mask = "FILE" /\ e.wd = w

\* Descriptors that the kernel's cyclic allocation would not hand out now.
UsedWds ==
    {watch[i] : i \in Inodes} \cup {trace[t].wd : t \in live} \cup {e.wd : e \in Pending}

UsedCookies == {e.cookie : e \in Pending} \cup {m.cookie : m \in moved}

FreshCookie(c) ==
    /\ c \in Cookies \ UsedCookies
    /\ \A d \in Cookies \ UsedCookies : c <= d

NewTrace(t) == t \in Traces \ live /\ \A u \in Traces \ live : t <= u

-----------------------------------------------------------------------------
(* InitInputPluginContext adds the directory watch first and reads the     *)
(* directory afterwards.                                                   *)

Init ==
    /\ \/ dir = [n \in Names |-> NoInode] /\ born = 0
       \/ /\ MaxInodes > 0 /\ born = 1
          /\ \E m \in Names : dir = [n \in Names |-> IF n = m THEN 1 ELSE NoInode]
    /\ \E k \in 0 .. MaxSize : size = [i \in Inodes |-> IF i <= born THEN k ELSE 0]
    /\ watch = [i \in Inodes |-> NoWd]
    /\ queue = <<>>
    /\ pc = "load"
    /\ todo = Names
    /\ full = StartFull
    /\ batch = <<>>
    /\ live = {}
    /\ trace = [t \in Traces |-> Blank]
    /\ moved = {}
    /\ job = NoJob
    /\ got = [i \in Inodes |-> {}]
    /\ twice = [i \in Inodes |-> {}]

\* A handler returned -1: the worker process exits and its trees, its
\* watches and its queue go with it.
Die ==
    /\ pc' = "dead"
    /\ todo' = {} /\ batch' = <<>> /\ queue' = <<>> /\ live' = {} /\ moved' = {}
    /\ trace' = [t \in Traces |-> Blank]
    /\ watch' = [i \in Inodes |-> NoWd]
    /\ job' = NoJob
    /\ UNCHANGED <<dir, born, size, full, got, twice>>

\* The monitor forks the next worker, with the start-once variables unset and
\* an inotify instance of its own.
Restart ==
    /\ pc = "dead"
    /\ pc' = "load"
    /\ todo' = Names
    /\ full' = FALSE
    /\ queue' = <<>>
    /\ UNCHANGED <<dir, born, size, watch, batch, live, trace, moved, job, got, twice>>

-----------------------------------------------------------------------------
(* AddFileWatcher *)

\* open and fstat, the offset to start from, and the two name trees.
OpenFile(n, whole, caller) ==
    /\ dir[n] # NoInode
    /\ TraceAt(n) = {}
    /\ \E t \in Traces :
          /\ NewTrace(t)
          /\ live' = live \cup {t}
          /\ trace' = [trace EXCEPT ![t] =
                          [ino |-> dir[n], path |-> n, wd |-> NoWd, count |-> 0,
                           offset |-> IF whole THEN 0 ELSE size[dir[n]]]]
          /\ job' = CheckBy(t, caller)
    /\ pc' = "watch"
    /\ UNCHANGED <<dir, born, size, watch, queue, full, moved, got, twice>>

\* inotify_add_watch and the wd tree; CheckFileOffset follows.
WatchFile ==
    /\ pc = "watch"
    /\ LET n == trace[job.t].path IN
       \E w \in Wds \cup {NoWd} :
          /\ AddWatchReturns(watch, n, w, UsedWds)
          /\ IF w = NoWd \/ TraceOfWd(w) # {}
             THEN Die
             ELSE /\ watch' = Armed(watch, n, w)
                  /\ trace' = [trace EXCEPT ![job.t].wd = w]
                  /\ pc' = "check"
                  /\ UNCHANGED <<dir, born, size, queue, todo, full, batch, live, moved,
                                 job, got, twice>>

-----------------------------------------------------------------------------
(* CheckFileOffset *)

\* Mutants: a file is dropped after any idle check; a deleted one is kept.
Removes_AfterIdle(ok) ==
    job.caller \in {"gone", "delete", "lost", "idle"} \/ (job.caller = "event" /\ ~ok)
Removes_NotDeleted(ok) ==
    job.caller \in {"gone", "lost"} \/ (job.caller \in {"event", "idle"} /\ ~ok)

\* Does the caller of the check go on to RemoveFileWatcher?  Where the file
\* is gone it does; the two callers that watch a file do when it failed.
Removes(ok) ==
    \/ job.caller \in {"gone", "delete", "lost"}
    \/ job.caller \in {"event", "idle"} /\ ~ok

\* CheckFileOffset returns to its caller with the traces tr, the watches ws
\* and, in ok, whether it returned 0.  A handler of a file event leaves the
\* rest of its batch when the check failed.
Return(ok, tr, ws) ==
    LET t == job.t
    IN  /\ live' = IF Removes(ok) THEN live \ {t} ELSE live
        /\ trace' = IF Removes(ok) THEN [tr EXCEPT ![t] = Blank] ELSE tr
        /\ watch' = IF Removes(ok) THEN Disarmed(ws, tr[t].wd) ELSE ws
        /\ batch' = IF job.caller \in {"event", "gone"} /\ ~ok THEN <<>> ELSE batch
        /\ pc' = IF job.caller = "load" THEN "load" ELSE "loop"
        /\ job' = NoJob
        /\ UNCHANGED <<dir, born, size, todo, full, moved>>

\* APPEND_COUNT_INFINITED: these callers read until nothing is left.
Unlimited == job.caller \in {"delete", "lost"}

NextCount(c) == IF c + 1 <= MaxWatchCount THEN c + 1 ELSE 0

\* fstat, and the three cases of the size against trace_offset.
CheckSize ==
    /\ pc = "check"
    /\ LET t == job.t
           f == trace[t]
       IN  \/ /\ size[f.ino] < f.offset
              /\ Return(TRUE, [trace EXCEPT ![t].offset = size[f.ino], ![t].count = 1], watch)
              /\ UNCHANGED <<queue, got, twice>>
           \/ /\ size[f.ino] = f.offset
              /\ Return(TRUE, [trace EXCEPT ![t].count = NextCount(f.count)], watch)
              /\ UNCHANGED <<queue, got, twice>>
           \/ /\ size[f.ino] > f.offset
              /\ job' = [job EXCEPT !.remain = size[f.ino] - f.offset]
              /\ pc' = "begin"
              /\ UNCHANGED <<dir, born, size, watch, queue, todo, full, batch, live, trace,
                             moved, got, twice>>

\* WriteAllOutputPlugins begins a message: every plugin's Before function.
BeginRound ==
    /\ pc = "begin"
    /\ pc' = "round"
    /\ UNCHANGED <<dir, born, size, watch, queue, todo, full, batch, live, trace, moved, job,
                   got, twice>>

\* Mutants: the last block is left; one block is read past the end.
MoreToRead_OneShort == job.remain > 1 /\ trace[job.t].offset < size[trace[job.t].ino]
MoreToRead_PastEnd == job.remain >= 0 /\ trace[job.t].offset <= size[trace[job.t].ino]

\* read() finds a block after trace_offset.
MoreToRead == job.remain > 0 /\ trace[job.t].offset < size[trace[job.t].ino]

\* One turn of its loop: a block is read and every output takes it.
WriteBlock ==
    /\ pc = "round"
    /\ MoreToRead
    /\ "ok" \in Outcomes
    /\ LET t == job.t
           i == trace[t].ino
           p == trace[t].offset + 1
       IN  /\ trace' = [trace EXCEPT ![t].offset = p]
           /\ job' = [job EXCEPT !.remain = @ - 1]
           /\ got' = [got EXCEPT ![i] = @ \cup {p}]
           /\ twice' = [twice EXCEPT ![i] = IF p \in got[i] THEN @ \cup {p} ELSE @]
    /\ UNCHANGED <<dir, born, size, watch, queue, pc, todo, full, batch, live, moved>>

\* A plugin returned > 0: in a Before function, with nothing consumed, or for
\* a block, which AfterReadInputPlugin then steps over.  CheckFileOffset
\* returns 0 without a second look at the size.
SoftFailure ==
    /\ \/ /\ pc = "begin" /\ "before" \in Outcomes
          /\ Return(TRUE, trace, watch)
       \/ /\ pc = "round" /\ "soft" \in Outcomes
          /\ MoreToRead
          /\ Return(TRUE, [trace EXCEPT ![job.t].offset = @ + 1], watch)
    /\ UNCHANGED <<queue, got, twice>>

\* A plugin returned < 0: CheckFileOffset fails, trace_offset stays.
HardFailure ==
    /\ "hard" \in Outcomes
    /\ pc = "begin" \/ (pc = "round" /\ MoreToRead)
    /\ Return(FALSE, trace, watch)
    /\ UNCHANGED <<queue, got, twice>>

\* remain_len is 0, or read() met the end of a file cut short meanwhile.
EndRound ==
    /\ pc = "round"
    /\ ~MoreToRead
    /\ pc' = "recheck"
    /\ UNCHANGED <<dir, born, size, watch, queue, todo, full, batch, live, trace, moved, job,
                   got, twice>>

\* SendCloseWriteEvent: open(path, O_WRONLY|O_APPEND) and close raise an
\* IN_CLOSE_WRITE on whatever file the path names, if that one is watched.
SelfNotified(n, ws) == dir[n] # NoInode /\ ws[dir[n]] # NoWd

\* Mutant: the file is not opened for writing, so its close raises nothing.
SendCloseWrite_Silent(n, ws, q) == [watch |-> ws, queue |-> q]

SendCloseWrite(n, ws, q) ==
    IF SelfNotified(n, ws)
    THEN [watch |-> [ws EXCEPT ![dir[n]] = NoWd], queue |-> Enqueue(q, FileEvent(ws[dir[n]]))]
    ELSE [watch |-> ws, queue |-> q]

\* The second fstat: another round, a note to self, or done for now.
CheckAgain ==
    /\ pc = "recheck"
    /\ LET t == job.t
           f == trace[t]
           more == size[f.ino] > f.offset
           again == Unlimited \/ job.appends + 1 <= MaxAppendCount
           note == SendCloseWrite(f.path, watch, queue)
       IN  \/ /\ more /\ again
              /\ job' = [job EXCEPT !.remain = size[f.ino] - f.offset,
                                    !.appends = IF Unlimited THEN 0 ELSE @ + 1]
              /\ pc' = "begin"
              /\ UNCHANGED <<dir, born, size, watch, queue, todo, full, batch, live, trace,
                             moved>>
           \/ /\ more /\ ~again
              /\ Return(TRUE, trace, note.watch)
              /\ queue' = note.queue
           \/ /\ ~more
              /\ Return(TRUE, [trace EXCEPT ![t].count = 1], watch)
              /\ UNCHANGED queue
    /\ UNCHANGED <<got, twice>>

-----------------------------------------------------------------------------
(* LoadAllFilesToInotifyWdTree *)

\* readdir need not list a file that was created after opendir.
LoadEntry ==
    /\ pc = "load"
    /\ \E n \in todo :
          /\ todo' = todo \ {n}
          /\ \/ /\ dir[n] = NoInode \/ Awaited("CREATE", n)
                /\ UNCHANGED <<dir, born, size, watch, queue, pc, full, live, trace, moved, job,
                               got, twice>>
             \/ OpenFile(n, full, "load")
    /\ UNCHANGED batch

LoadDone ==
    /\ pc = "load" /\ todo = {}
    /\ pc' = "loop"
    /\ UNCHANGED <<dir, born, size, watch, queue, todo, full, batch, live, trace, moved, job,
                   got, twice>>

-----------------------------------------------------------------------------
(* OnInputPluginEvent *)

ReadEvents ==
    /\ pc = "loop" /\ batch = <<>> /\ queue # <<>>
    /\ batch' = queue
    /\ queue' = <<>>
    /\ UNCHANGED <<dir, born, size, watch, pc, todo, full, live, trace, moved, job, got, twice>>

\* The next event of the batch.
NextIs(mask) == pc = "loop" /\ batch # <<>> /\ Head(batch).mask = mask

\* RemoveFileWatcher of t when the watches are ws and t's descriptor is w.
Remove(t, ws, w) ==
    /\ live' = live \ {t}
    /\ trace' = [trace EXCEPT ![t] = Blank]
    /\ watch' = Disarmed(ws, w)

\* A name that is already traced fails to link, and the handler with it.
OnCreate ==
    /\ NextIs("CREATE")
    /\ LET n == Head(batch).name IN
       \/ /\ dir[n] = NoInode
          /\ batch' = Tail(batch)
          /\ UNCHANGED <<dir, born, size, watch, queue, pc, todo, full, live, trace, moved, job,
                         got, twice>>
       \/ /\ dir[n] # NoInode /\ TraceAt(n) # {}
          /\ Die
       \/ /\ OpenFile(n, TRUE, "create")
          /\ batch' = Tail(batch)
          /\ UNCHANGED todo

\* ProcessingMoveFromFileEvent
OnMovedFrom ==
    /\ NextIs("MOVED_FROM")
    /\ LET e == Head(batch) IN
       moved' = IF TraceAt(e.name) = {} THEN moved
                ELSE moved \cup {[path |-> e.name, cookie |-> e.cookie]}
    /\ batch' = Tail(batch)
    /\ UNCHANGED <<dir, born, size, watch, queue, pc, todo, full, live, trace, job, got, twice>>

\* Mutant: only the descriptor is checked.
Collides_WdOnly(t, n, w) == TraceOfWd(w) \ {t} # {}

\* Another trace has the path or the descriptor, and the link fails.
Collides(t, n, w) == TraceAt(n) \ {t} # {} \/ TraceOfWd(w) \ {t} # {}

\* Mutants: the wd tree keeps the old key; the file is taken for a new one.
Moved_OldWd(t, n, w) == [trace EXCEPT ![t].path = n]
Moved_FromStart(t, n, w) == [trace EXCEPT ![t].path = n, ![t].wd = w, ![t].offset = 0]

Moved(t, n, w) == [trace EXCEPT ![t].path = n, ![t].wd = w]

\* ProcessingMoveToFileEvent: trace t is now called n.  The watch of the old
\* name goes before the one of the new name is added.  When the descriptor
\* collides, SendCloseWriteEvent is still called with the trace that was just
\* freed; taken to have no effect, as if its path named no file any more.
Relocate(t, n) ==
    LET ws == Disarmed(watch, trace[t].wd) IN
    \E w \in Wds \cup {NoWd} :
       /\ AddWatchReturns(ws, n, w, UsedWds)
       /\ \/ /\ w = NoWd
             /\ Remove(t, ws, NoWd)
             /\ UNCHANGED queue
          \/ /\ w # NoWd /\ Collides(t, n, w)
             /\ Remove(t, Armed(ws, n, w), w)
             /\ UNCHANGED queue
          \/ /\ w # NoWd /\ ~Collides(t, n, w)
             /\ LET note == SendCloseWrite(n, Armed(ws, n, w), queue)
                IN  watch' = note.watch /\ queue' = note.queue
             /\ trace' = Moved(t, n, w)
             /\ UNCHANGED live

\* Only the head of a pair leaves the list here; a file moved in from
\* elsewhere matches nothing.
OnMovedTo ==
    /\ NextIs("MOVED_TO")
    /\ LET e == Head(batch)
           ms == {m \in moved : m.cookie = e.cookie}
           ts == {t \in live : \E m \in ms : trace[t].path = m.path}
       IN  /\ moved' = moved \ ms
           /\ \/ /\ ts = {}
                 /\ UNCHANGED <<live, trace, watch, queue>>
              \/ \E t \in ts : Relocate(t, e.name)
    /\ batch' = Tail(batch)
    /\ UNCHANGED <<dir, born, size, pc, todo, full, job, got, twice>>

\* ProcessingDeleteFileEvent
OnDelete ==
    /\ NextIs("DELETE")
    /\ LET ts == TraceAt(Head(batch).name) IN
       \/ /\ ts = {}
          /\ UNCHANGED <<pc, job>>
       \/ /\ \E t \in ts : job' = CheckBy(t, "delete")
          /\ pc' = "check"
    /\ batch' = Tail(batch)
    /\ UNCHANGED <<dir, born, size, watch, queue, todo, full, live, trace, moved, got, twice>>

\* Mutant: the watch is thought to outlive its event.
Rearmed_Not(t, w) == watch

Rearmed(t, w) == Armed(watch, trace[t].path, w)

\* IN_MODIFY or IN_CLOSE_WRITE: the one-shot watch is put back, on the file
\* the traced path names now, before the size is looked at.
OnFile ==
    /\ NextIs("FILE")
    /\ LET ts == TraceOfWd(Head(batch).wd) IN
       \/ /\ ts = {}
          /\ batch' = Tail(batch)
          /\ UNCHANGED <<watch, live, trace, pc, job>>
       \/ \E t \in ts, w \in Wds \cup {NoWd} :
             /\ AddWatchReturns(watch, trace[t].path, w, UsedWds)
             /\ \/ /\ w # NoWd /\ TraceOfWd(w) \ {t} # {}
                   /\ Remove(t, Armed(watch, trace[t].path, w), w)
                   /\ batch' = <<>>
                   /\ UNCHANGED <<pc, job>>
                \/ /\ w = NoWd
                   /\ job' = CheckBy(t, "gone")
                   /\ pc' = "check"
                   /\ batch' = Tail(batch)
                   /\ UNCHANGED <<watch, live, trace>>
                \/ /\ w # NoWd /\ TraceOfWd(w) \ {t} = {}
                   /\ watch' = Rearmed(t, w)
                   /\ trace' = [trace EXCEPT ![t].wd = w]
                   /\ job' = CheckBy(t, "event")
                   /\ pc' = "check"
                   /\ batch' = Tail(batch)
                   /\ UNCHANGED live
    /\ UNCHANGED <<dir, born, size, queue, todo, full, moved, got, twice>>

-----------------------------------------------------------------------------
(* OnInputPluginIdle *)

\* A trace whose watch time has come is checked again.
Idle ==
    /\ pc = "loop" /\ batch = <<>>
    /\ \E t \in live :
          /\ trace[t].count > 0
          /\ job' = CheckBy(t, IF dir[trace[t].path] = NoInode THEN "lost" ELSE "idle")
    /\ pc' = "check"
    /\ UNCHANGED <<dir, born, size, watch, queue, todo, full, batch, live, trace, moved, got,
                   twice>>

\* CleanOldMoveFromFile: TIME_TO_FREE_ELAPSE seconds after IN_MOVED_FROM.  An
\* entry whose path is no longer traced stays in the list.
CleanMoved ==
    /\ pc = "loop" /\ batch = <<>>
    /\ \E m \in moved, t \in live :
          /\ trace[t].path = m.path
          /\ moved' = moved \ {m}
          /\ Remove(t, watch, trace[t].wd)
    /\ UNCHANGED <<dir, born, size, queue, pc, todo, full, batch, job, got, twice>>

-----------------------------------------------------------------------------
(* The applications.  A calm one creates nothing while the worker reads the *)
(* directory, leaves a name alone until the worker has adopted it, and does *)
(* not rename a file the worker still has to look at.                       *)

Started == pc # "load" /\ job.caller # "load"

Adopted(n) ==
    /\ n \notin todo
    /\ ~Awaited("CREATE", n) /\ ~Awaited("MOVED_TO", n)
    /\ pc = "watch" => trace[job.t].path # n

Settled(n) ==
    /\ Adopted(n)
    /\ ~Awaited("DELETE", n) /\ ~Awaited("MOVED_FROM", n)
    /\ \A t \in TraceAt(n) :
          job.t # t /\ trace[t].count = 0 /\ ~FileAwaited(trace[t].wd)

Named(i) == \E n \in Names : dir[n] = i

AppCreate ==
    /\ "create" \in Ops
    /\ \E n \in Names : (Calm => Started) /\ Create(n)
    /\ UNCHANGED workerVars

AppAppend ==
    /\ "append" \in Ops
    /\ \E i \in Inodes : (Calm => Named(i)) /\ AppendBlock(i)
    /\ UNCHANGED workerVars

AppClose == "close" \in Ops /\ (\E i \in Inodes : CloseWrite(i)) /\ UNCHANGED workerVars

\* What was collected of the old content is forgotten with it.
AppTruncate ==
    /\ "truncate" \in Ops
    /\ \E i \in Inodes :
          /\ Truncate(i)
          /\ got' = [got EXCEPT ![i] = {}]
          /\ twice' = [twice EXCEPT ![i] = {}]
    /\ UNCHANGED <<pc, todo, full, batch, live, trace, moved, job>>

AppUnlink ==
    /\ "unlink" \in Ops
    /\ \E n \in Names : (Calm => Adopted(n)) /\ Unlink(n)
    /\ UNCHANGED workerVars

AppRename ==
    /\ "rename" \in Ops
    /\ \E n, m \in Names, c \in Cookies :
          /\ dir[m] = NoInode \/ "replace" \in Ops
          /\ Calm => Settled(n) /\ Settled(m)
          /\ FreshCookie(c)
          /\ Rename(n, m, c)
    /\ UNCHANGED workerVars

AppMoveOut ==
    /\ "moveout" \in Ops
    /\ \E n \in Names, c \in Cookies : FreshCookie(c) /\ MoveOut(n, c)
    /\ UNCHANGED workerVars

AppMoveIn ==
    /\ "movein" \in Ops
    /\ \E n \in Names, c \in Cookies : FreshCookie(c) /\ MoveIn(n, c)
    /\ UNCHANGED workerVars

Applications ==
    \/ AppCreate \/ AppAppend \/ AppClose \/ AppTruncate
    \/ AppUnlink \/ AppRename \/ AppMoveOut \/ AppMoveIn

-----------------------------------------------------------------------------

Worker ==
    \/ LoadEntry \/ LoadDone \/ ReadEvents
    \/ OnCreate \/ OnMovedFrom \/ OnMovedTo \/ OnDelete \/ OnFile
    \/ Idle \/ CleanMoved
    \/ WatchFile \/ CheckSize \/ BeginRound \/ WriteBlock \/ EndRound \/ CheckAgain
    \/ SoftFailure \/ HardFailure

Next == Worker \/ Restart \/ Applications

Spec == Init /\ [][Next]_vars

\* The worker's loop and the monitor are never blocked by the applications.
FairSpec == Spec /\ WF_vars(Worker) /\ WF_vars(Restart)

-----------------------------------------------------------------------------
(* Safety *)

\* The three trees keep their keys unique: no two traces share a path or a
\* live watch descriptor, so every lookup finds the trace it means.
IndexUnique ==
    \A t, u \in live :
        t # u => /\ trace[t].path # trace[u].path
                 /\ trace[t].wd = trace[u].wd => trace[t].wd = NoWd

\* A trace that lags behind its file will be looked at again without any
\* further help of the application: the watch was consumed by an event that
\* is still to be handled, a watch time is set, or an event that names the
\* trace's path is on its way.
WakeUpPending ==
    \A t \in live \ {job.t} :
        size[trace[t].ino] > trace[t].offset =>
            \/ trace[t].count > 0
            \/ FileAwaited(trace[t].wd)
            \/ Awaited("DELETE", trace[t].path) \/ Awaited("MOVED_FROM", trace[t].path)
            \/ \E m \in moved : m.path = trace[t].path

\* Every file of the directory is traced, or about to be.
Covered ==
    pc # "dead" =>
        \A n \in Names :
            dir[n] # NoInode =>
                \/ n \in todo
                \/ Awaited("CREATE", n)
                \/ \E t \in live : trace[t].ino = dir[n]

\* No block is handed to the outputs a second time.
AtMostOnce == \A i \in Inodes : twice[i] = {}

\* No handler gives the worker process up.
Alive == pc # "dead"

\* A trace is only dropped when the file has nothing left for it.
Drained ==
    [][\A t \in live \ live' : trace[t].offset = size[trace[t].ino]]_vars

\* A trace is only dropped when its file has left the directory: a rename
\* inside the directory is followed.
Followed ==
    [][\A t \in live \ live' : pc' = "dead" \/ ~Named(trace[t].ino)]_vars

-----------------------------------------------------------------------------
(* Liveness *)

\* Every block that is ever appended is handed to the outputs.
Collected == \A i \in Inodes : \A p \in 1 .. MaxSize : size[i] >= p ~> p \in got[i]

\* A trace does not lag behind its file for ever.
CaughtUp ==
    \A t \in Traces :
        (t \in live /\ trace[t].offset < size[trace[t].ino])
            ~> (t \notin live \/ trace[t].offset >= size[trace[t].ino])
=============================================================================

--------------------------- MODULE InputFile_proofs ---------------------------
(***************************************************************************)
(* Theorems about InputFile, for every number of names, files, blocks and  *)
(* descriptors: first for every behaviour of the applications and every    *)
(* outcome of the outputs, then beside calm applications.                  *)
(***************************************************************************)
EXTENDS InputFile, TLAPS

Watches == [Inodes -> Wds \cup {NoWd}]

\* While the worker checks a file, it checks one of its traces; a trace in
\* the trees is of an inode and has a path.
Checking == {"watch", "check", "begin", "round", "recheck"}

TracesOK == \A t \in live : trace[t].ino \in Inodes /\ trace[t].path \in Names

JobOK == pc \in Checking => job.t \in live

IInv == TypeOK /\ TracesOK /\ JobOK

-----------------------------------------------------------------------------
(* The operators the actions are built from. *)

LEMMA EnqueueType ==
    ASSUME NEW q \in Seq(Event), NEW e \in Event
    PROVE  Enqueue(q, e) \in Seq(Event)
BY DEF Enqueue

LEMMA FileEventType == ASSUME NEW w \in Wds PROVE FileEvent(w) \in Event
BY DEF FileEvent, Event

LEMMA DirEventType ==
    ASSUME NEW n \in Names, NEW c \in Cookies
    PROVE  /\ DirEvent("CREATE", n, NoCookie) \in Event
           /\ DirEvent("DELETE", n, NoCookie) \in Event
           /\ DirEvent("MOVED_FROM", n, c) \in Event
           /\ DirEvent("MOVED_TO", n, c) \in Event
BY DEF DirEvent, Event

LEMMA NotifyType ==
    ASSUME NEW i \in Inodes, watch \in Watches, queue \in Seq(Event), Notify(i)
    PROVE  watch' \in Watches /\ queue' \in Seq(Event)
<1>1. CASE watch[i] = NoWd
  BY <1>1 DEF Notify
<1>2. CASE watch[i] # NoWd
  <2>1. watch[i] \in Wds
    BY <1>2 DEF Watches
  <2>2. queue' \in Seq(Event)
    BY <1>2, <2>1, EnqueueType, FileEventType DEF Notify
  <2>3. watch' \in Watches
    BY <1>2 DEF Notify, Watches
  <2> QED BY <2>2, <2>3
<1> QED BY <1>1, <1>2

LEMMA DisarmedType ==
    ASSUME NEW ws \in Watches, NEW w
    PROVE  Disarmed(ws, w) \in Watches
BY DEF Disarmed, Watches

LEMMA ArmedType ==
    ASSUME NEW ws \in Watches, NEW n, NEW w \in Wds
    PROVE  Armed(ws, n, w) \in Watches
BY DEF Armed, Watches

LEMMA SendCloseWriteType ==
    ASSUME NEW n \in Names, NEW ws \in Watches, NEW q \in Seq(Event),
           dir \in [Names -> Inodes \cup {NoInode}]
    PROVE  /\ SendCloseWrite(n, ws, q).watch \in Watches
           /\ SendCloseWrite(n, ws, q).queue \in Seq(Event)
<1>1. CASE SelfNotified(n, ws)
  <2>1. dir[n] \in Inodes /\ ws[dir[n]] \in Wds
    BY <1>1 DEF SelfNotified, Watches
  <2>2. Enqueue(q, FileEvent(ws[dir[n]])) \in Seq(Event)
    BY <2>1, EnqueueType, FileEventType
  <2>3. [ws EXCEPT ![dir[n]] = NoWd] \in Watches
    BY DEF Watches
  <2> QED BY <1>1, <2>2, <2>3 DEF SendCloseWrite
<1>2. CASE ~SelfNotified(n, ws)
  BY <1>2 DEF SendCloseWrite
<1> QED BY <1>1, <1>2

LEMMA BlankType == Blank \in TraceFile
BY InputAssumption, DirAssumption DEF Blank, TraceFile

LEMMA SetWdType ==
    ASSUME trace \in [Traces -> TraceFile], NEW t \in Traces, NEW w \in Wds
    PROVE  [trace EXCEPT ![t].wd = w] \in [Traces -> TraceFile]
<1>1. trace[t] \in TraceFile
  OBVIOUS
<1>2. [trace[t] EXCEPT !.wd = w] \in TraceFile
  BY <1>1 DEF TraceFile
<1> QED BY <1>2

\* What every trace of the tree has, for a trace function tr.
Sound(tr) == \A t \in live : tr[t].ino \in Inodes /\ tr[t].path \in Names

LEMMA ReturnType ==
    ASSUME IInv, NEW ok, NEW tr \in [Traces -> TraceFile], NEW ws \in Watches,
           Sound(tr), Return(ok, tr, ws), queue' \in Seq(Event),
           got' \in [Inodes -> SUBSET (1 .. MaxSize)],
           twice' \in [Inodes -> SUBSET (1 .. MaxSize)]
    PROVE  IInv'
<1> USE DEF IInv, TypeOK, Return
<1>1. live' \in SUBSET Traces
  OBVIOUS
<1>2. trace' \in [Traces -> TraceFile]
  BY BlankType
<1>3. watch' \in [Inodes -> Wds \cup {NoWd}]
  BY DisarmedType DEF Watches
<1>4. batch' \in Seq(Event)
  OBVIOUS
<1>5. pc' \in {"load", "loop"}
  OBVIOUS
<1>6. job' \in Job
  BY InputAssumption, DirAssumption DEF NoJob, Job, Callers
<1>7. TracesOK'
  BY DEF Sound, TracesOK
<1>8. JobOK'
  BY <1>5 DEF JobOK, Checking
<1> QED BY <1>1, <1>2, <1>3, <1>4, <1>5, <1>6, <1>7, <1>8

LEMMA RemoveType ==
    ASSUME IInv, NEW t, NEW ws \in Watches, NEW w, Remove(t, ws, w)
    PROVE  /\ live' \in SUBSET Traces
           /\ trace' \in [Traces -> TraceFile]
           /\ watch' \in Watches
           /\ TracesOK'
<1>1. trace' \in [Traces -> TraceFile]
  BY BlankType DEF IInv, TypeOK, Remove
<1>2. watch' \in Watches
  BY DisarmedType DEF Remove
<1>3. live' \in SUBSET Traces /\ TracesOK'
  BY DEF IInv, TypeOK, TracesOK, Remove
<1> QED BY <1>1, <1>2, <1>3

LEMMA DieType == ASSUME IInv, Die PROVE IInv'
<1>1. trace' \in [Traces -> TraceFile]
  BY BlankType DEF Die
<1>2. watch' \in [Inodes -> Wds \cup {NoWd}]
  BY DEF Die
<1>3. job' \in Job
  BY InputAssumption, DirAssumption DEF Die, NoJob, Job, Callers
<1>4. queue' \in Seq(Event) /\ batch' \in Seq(Event)
  BY DEF Die
<1>5. TracesOK' /\ JobOK'
  BY DEF Die, TracesOK, JobOK, Checking
<1> QED BY <1>1, <1>2, <1>3, <1>4, <1>5 DEF IInv, TypeOK, Die

LEMMA OpenFileType ==
    ASSUME IInv, NEW n \in Names, NEW whole \in BOOLEAN, NEW caller \in Callers,
           OpenFile(n, whole, caller), todo' \in SUBSET Names, batch' \in Seq(Event)
    PROVE  IInv'
<1> USE DEF IInv, TypeOK, OpenFile
<1>1. PICK t \in Traces :
          /\ live' = live \cup {t}
          /\ trace' = [trace EXCEPT ![t] =
                          [ino |-> dir[n], path |-> n, wd |-> NoWd, count |-> 0,
                           offset |-> IF whole THEN 0 ELSE size[dir[n]]]]
          /\ job' = CheckBy(t, caller)
  OBVIOUS
<1>2. dir[n] \in Inodes /\ size[dir[n]] \in 0 .. MaxSize
  OBVIOUS
<1>3. [ino |-> dir[n], path |-> n, wd |-> NoWd, count |-> 0,
       offset |-> IF whole THEN 0 ELSE size[dir[n]]] \in TraceFile
  BY <1>2, InputAssumption, DirAssumption DEF TraceFile
<1>4. trace' \in [Traces -> TraceFile] /\ live' \in SUBSET Traces
  BY <1>1, <1>3
<1>5. job' \in Job
  BY <1>1, InputAssumption, DirAssumption DEF CheckBy, Job
<1>6. TracesOK'
  BY <1>1, <1>2 DEF TracesOK
<1>7. JobOK'
  BY <1>1 DEF JobOK, CheckBy
<1> QED BY <1>4, <1>5, <1>6, <1>7

-----------------------------------------------------------------------------
(* The steps of the worker. *)

LEMMA WatchFileType == ASSUME IInv, WatchFile PROVE IInv'
<1> USE DEF WatchFile
<1>1. CASE Die
  BY <1>1, DieType
<1>2. CASE ~Die
  <2>1. PICK w \in Wds \cup {NoWd} :
            /\ w # NoWd
            /\ watch' = Armed(watch, trace[job.t].path, w)
            /\ trace' = [trace EXCEPT ![job.t].wd = w]
            /\ pc' = "check"
            /\ UNCHANGED <<dir, born, size, queue, todo, full, batch, live, moved, job, got,
                           twice>>
    BY <1>2
  <2>2. job.t \in live
    BY DEF IInv, JobOK, Checking
  <2>3. watch' \in Watches
    BY <2>1, ArmedType DEF IInv, TypeOK, Watches
  <2>4. trace' \in [Traces -> TraceFile]
    <3>1. w \in Wds /\ job.t \in Traces
      BY <2>1, <2>2 DEF IInv, TypeOK
    <3> QED BY <2>1, <3>1, SetWdType DEF IInv, TypeOK
  <2>5. TracesOK' /\ JobOK'
    BY <2>1, <2>2 DEF IInv, TypeOK, TracesOK, JobOK
  <2> QED BY <2>1, <2>3, <2>4, <2>5 DEF IInv, TypeOK, Watches
<1> QED BY <1>1, <1>2

LEMMA CheckSizeType == ASSUME IInv, CheckSize PROVE IInv'
<1> DEFINE f == trace[job.t]
<1>1. job.t \in live /\ f \in TraceFile /\ f.ino \in Inodes
  BY DEF IInv, TypeOK, JobOK, TracesOK, Checking, CheckSize
<1>2. size[f.ino] \in 0 .. MaxSize /\ f.offset \in 0 .. MaxSize /\ f.count \in Nat
  BY <1>1 DEF IInv, TypeOK, TraceFile
<1>3. CASE /\ Return(TRUE, [trace EXCEPT ![job.t].offset = size[f.ino], ![job.t].count = 1], watch)
           /\ UNCHANGED <<queue, got, twice>>
  <2> DEFINE tr == [trace EXCEPT ![job.t].offset = size[f.ino], ![job.t].count = 1]
  <2>1. tr \in [Traces -> TraceFile] /\ Sound(tr)
    BY <1>1, <1>2 DEF IInv, TypeOK, TracesOK, TraceFile, Sound
  <2> QED BY <1>3, <2>1, ReturnType DEF IInv, TypeOK, Watches
<1>4. CASE /\ Return(TRUE, [trace EXCEPT ![job.t].count = NextCount(f.count)], watch)
           /\ UNCHANGED <<queue, got, twice>>
  <2> DEFINE tr == [trace EXCEPT ![job.t].count = NextCount(f.count)]
  <2>1. NextCount(f.count) \in Nat
    BY <1>2 DEF NextCount
  <2>2. tr \in [Traces -> TraceFile] /\ Sound(tr)
    BY <1>1, <2>1 DEF IInv, TypeOK, TracesOK, TraceFile, Sound
  <2> QED BY <1>4, <2>2, ReturnType DEF IInv, TypeOK, Watches
<1>5. CASE /\ size[f.ino] > f.offset
           /\ job' = [job EXCEPT !.remain = size[f.ino] - f.offset]
           /\ pc' = "begin"
           /\ UNCHANGED <<dir, born, size, watch, queue, todo, full, batch, live, trace,
                          moved, got, twice>>
  <2>1. size[f.ino] - f.offset \in 0 .. MaxSize
    BY <1>2, <1>5, DirAssumption
  <2>2. job' \in Job /\ job'.t = job.t
    BY <1>5, <2>1 DEF IInv, TypeOK, Job
  <2>3. TracesOK' /\ JobOK'
    BY <1>1, <1>5, <2>2 DEF IInv, TracesOK, JobOK
  <2> QED BY <1>5, <2>2, <2>3 DEF IInv, TypeOK
<1> QED BY <1>3, <1>4, <1>5 DEF CheckSize

LEMMA BeginRoundType == ASSUME IInv, BeginRound PROVE IInv'
BY DEF IInv, TypeOK, TracesOK, JobOK, Checking, BeginRound

\* The trace a round works on.
LEMMA RoundFacts ==
    ASSUME IInv, pc \in Checking
    PROVE  /\ job.t \in live /\ job.t \in Traces
           /\ trace[job.t] \in TraceFile
           /\ trace[job.t].ino \in Inodes
           /\ trace[job.t].offset \in 0 .. MaxSize
           /\ size[trace[job.t].ino] \in 0 .. MaxSize
BY DEF IInv, TypeOK, TracesOK, JobOK, TraceFile

\* Stepping over a block that was read.
LEMMA StepOver ==
    ASSUME IInv, pc \in Checking, MoreToRead
    PROVE  /\ trace[job.t].offset + 1 \in 1 .. MaxSize
           /\ [trace EXCEPT ![job.t].offset = @ + 1] \in [Traces -> TraceFile]
           /\ Sound([trace EXCEPT ![job.t].offset = @ + 1])
<1> DEFINE p == trace[job.t].offset + 1
<1>1. p \in 1 .. MaxSize /\ p \in 0 .. MaxSize
  BY RoundFacts, DirAssumption DEF MoreToRead
<1>2. [trace[job.t] EXCEPT !.offset = p] \in TraceFile
  BY <1>1, RoundFacts DEF TraceFile
<1>3. [trace EXCEPT ![job.t].offset = p] \in [Traces -> TraceFile]
  BY <1>2 DEF IInv, TypeOK
<1>4. Sound([trace EXCEPT ![job.t].offset = p])
  BY RoundFacts DEF IInv, TypeOK, TracesOK, TraceFile, Sound
<1> QED BY <1>1, <1>3, <1>4

LEMMA WriteBlockType == ASSUME IInv, WriteBlock PROVE IInv'
<1> DEFINE i == trace[job.t].ino
           p == trace[job.t].offset + 1
<1>1. pc \in Checking /\ MoreToRead
  BY DEF WriteBlock, Checking
<1>2. trace' \in [Traces -> TraceFile] /\ Sound(trace')
  BY <1>1, StepOver DEF WriteBlock
<1>3. job' \in Job /\ job'.t = job.t
  <2>1. job.remain - 1 \in 0 .. MaxSize
    BY <1>1, DirAssumption DEF IInv, TypeOK, Job, MoreToRead
  <2>2. job' = [job EXCEPT !.remain = job.remain - 1]
    BY DEF WriteBlock
  <2> QED BY <2>1, <2>2 DEF IInv, TypeOK, Job
<1>4. got' \in [Inodes -> SUBSET (1 .. MaxSize)]
  <2>1. got' = [got EXCEPT ![i] = got[i] \cup {p}]
    BY DEF WriteBlock
  <2> QED BY <2>1, <1>1, StepOver, RoundFacts DEF IInv, TypeOK
<1>5. twice' \in [Inodes -> SUBSET (1 .. MaxSize)]
  <2>1. twice' = [twice EXCEPT ![i] = IF p \in got[i] THEN twice[i] \cup {p} ELSE twice[i]]
    BY DEF WriteBlock
  <2> QED BY <2>1, <1>1, StepOver, RoundFacts DEF IInv, TypeOK
<1>6. TracesOK' /\ JobOK'
  BY <1>1, <1>2, <1>3, RoundFacts DEF TracesOK, JobOK, Sound, WriteBlock
<1> QED BY <1>2, <1>3, <1>4, <1>5, <1>6 DEF IInv, TypeOK, WriteBlock

LEMMA TraceSound == ASSUME IInv PROVE Sound(trace)
BY DEF IInv, TracesOK, Sound

LEMMA SoftFailureType == ASSUME IInv, SoftFailure PROVE IInv'
<1>1. CASE Return(TRUE, trace, watch)
  BY <1>1, ReturnType, TraceSound DEF IInv, TypeOK, Watches, SoftFailure
<1>2. CASE /\ pc = "round" /\ MoreToRead
           /\ Return(TRUE, [trace EXCEPT ![job.t].offset = @ + 1], watch)
  <2>1. pc \in Checking
    BY <1>2 DEF Checking
  <2> QED BY <1>2, <2>1, StepOver, ReturnType DEF IInv, TypeOK, Watches, SoftFailure
<1> QED BY <1>1, <1>2 DEF SoftFailure

LEMMA HardFailureType == ASSUME IInv, HardFailure PROVE IInv'
BY ReturnType, TraceSound DEF IInv, TypeOK, Watches, HardFailure

LEMMA EndRoundType == ASSUME IInv, EndRound PROVE IInv'
BY DEF IInv, TypeOK, TracesOK, JobOK, Checking, EndRound

LEMMA CheckAgainType == ASSUME IInv, CheckAgain PROVE IInv'
<1> DEFINE f == trace[job.t]
           note == SendCloseWrite(f.path, watch, queue)
<1>1. pc \in Checking
  BY DEF CheckAgain, Checking
<1>2. f.path \in Names
  BY <1>1, RoundFacts DEF IInv, TracesOK
<1>3. CASE /\ size[f.ino] > f.offset
           /\ job' = [job EXCEPT !.remain = size[f.ino] - f.offset,
                                 !.appends = IF Unlimited THEN 0 ELSE @ + 1]
           /\ pc' = "begin"
           /\ UNCHANGED <<dir, born, size, watch, queue, todo, full, batch, live, trace,
                          moved, got, twice>>
  <2>1. size[f.ino] - f.offset \in 0 .. MaxSize
    BY <1>1, <1>3, RoundFacts, DirAssumption
  <2>2. job' \in Job /\ job'.t = job.t
    <3> DEFINE a == IF Unlimited THEN 0 ELSE job.appends + 1
    <3>1. a \in Nat /\ job \in Job
      BY DEF IInv, TypeOK, Job
    <3>2. job' = [job EXCEPT !.remain = size[f.ino] - f.offset, !.appends = a]
      BY <1>3
    <3> HIDE DEF a
    <3> QED BY <3>1, <3>2, <2>1 DEF Job
  <2>3. TracesOK' /\ JobOK'
    BY <1>1, <1>3, <2>2, RoundFacts DEF IInv, TracesOK, JobOK
  <2> QED BY <1>3, <2>2, <2>3 DEF IInv, TypeOK
<1>4. CASE /\ Return(TRUE, trace, note.watch)
           /\ queue' = note.queue
           /\ UNCHANGED <<got, twice>>
  <2>1. note.watch \in Watches /\ note.queue \in Seq(Event)
    BY <1>2, SendCloseWriteType DEF IInv, TypeOK, Watches
  <2> QED BY <1>4, <2>1, ReturnType, TraceSound DEF IInv, TypeOK
<1>5. CASE /\ Return(TRUE, [trace EXCEPT ![job.t].count = 1], watch)
           /\ UNCHANGED <<queue, got, twice>>
  <2> DEFINE tr == [trace EXCEPT ![job.t].count = 1]
  <2>1. tr \in [Traces -> TraceFile] /\ Sound(tr)
    BY <1>1, RoundFacts DEF IInv, TypeOK, TracesOK, TraceFile, Sound
  <2> QED BY <1>5, <2>1, ReturnType DEF IInv, TypeOK, Watches
<1> QED BY <1>3, <1>4, <1>5 DEF CheckAgain

LEMMA LoadEntryType == ASSUME IInv, LoadEntry PROVE IInv'
<1>1. PICK n \in todo : \/ UNCHANGED <<dir, born, size, watch, queue, pc, full, live, trace,
                                       moved, job, got, twice>>
                        \/ OpenFile(n, full, "load")
  BY DEF LoadEntry
<1>2. todo' \in SUBSET Names /\ batch' \in Seq(Event) /\ pc \notin Checking
  BY DEF LoadEntry, IInv, TypeOK, Checking
<1>3. CASE OpenFile(n, full, "load")
  BY <1>2, <1>3, OpenFileType DEF IInv, TypeOK, Callers
<1>4. CASE UNCHANGED <<dir, born, size, watch, queue, pc, full, live, trace, moved, job, got,
                      twice>>
  BY <1>2, <1>4 DEF IInv, TypeOK, TracesOK, JobOK
<1> QED BY <1>1, <1>3, <1>4

LEMMA LoadDoneType == ASSUME IInv, LoadDone PROVE IInv'
BY DEF IInv, TypeOK, TracesOK, JobOK, Checking, LoadDone

LEMMA ReadEventsType == ASSUME IInv, ReadEvents PROVE IInv'
BY DEF IInv, TypeOK, TracesOK, JobOK, Checking, ReadEvents

\* The event at the head of the batch, and what is left of it.
LEMMA HeadFacts ==
    ASSUME IInv, NEW m, NextIs(m)
    PROVE  /\ Head(batch) \in Event /\ Head(batch).mask = m
           /\ Tail(batch) \in Seq(Event)
           /\ pc = "loop" /\ pc \notin Checking
BY DEF IInv, TypeOK, NextIs, Checking

LEMMA OnCreateType == ASSUME IInv, OnCreate PROVE IInv'
<1> DEFINE n == Head(batch).name
<1>1. n \in Names /\ Tail(batch) \in Seq(Event) /\ pc \notin Checking
  BY HeadFacts DEF OnCreate, Event
<1>2. CASE Die
  BY <1>2, DieType
<1>3. CASE OpenFile(n, TRUE, "create") /\ batch' = Tail(batch) /\ UNCHANGED todo
  BY <1>1, <1>3, OpenFileType DEF IInv, TypeOK, Callers
<1>4. CASE /\ batch' = Tail(batch)
           /\ UNCHANGED <<dir, born, size, watch, queue, pc, todo, full, live, trace, moved, job,
                         got, twice>>
  BY <1>1, <1>4 DEF IInv, TypeOK, TracesOK, JobOK
<1> QED BY <1>2, <1>3, <1>4 DEF OnCreate

LEMMA OnMovedFromType == ASSUME IInv, OnMovedFrom PROVE IInv'
<1> DEFINE e == Head(batch)
<1>1. e.name \in Names /\ e.cookie \in Cookies
  BY HeadFacts DEF OnMovedFrom, Event
<1>2. Tail(batch) \in Seq(Event) /\ pc \notin Checking
  BY HeadFacts DEF OnMovedFrom
<1>3. moved' \in SUBSET MovedFrom
  BY <1>1 DEF OnMovedFrom, IInv, TypeOK, MovedFrom
<1> QED BY <1>2, <1>3 DEF OnMovedFrom, IInv, TypeOK, TracesOK, JobOK

LEMMA RelocateType ==
    ASSUME IInv, NEW t \in live, NEW n \in Names, Relocate(t, n)
    PROVE  /\ live' \in SUBSET Traces
           /\ trace' \in [Traces -> TraceFile]
           /\ watch' \in Watches
           /\ queue' \in Seq(Event)
           /\ TracesOK'
<1> DEFINE ws == Disarmed(watch, trace[t].wd)
<1>1. ws \in Watches
  BY DisarmedType DEF IInv, TypeOK, Watches
<1>2. PICK w \in Wds \cup {NoWd} :
        \/ w = NoWd /\ Remove(t, ws, NoWd) /\ UNCHANGED queue
        \/ w # NoWd /\ Remove(t, Armed(ws, n, w), w) /\ UNCHANGED queue
        \/ /\ w # NoWd
           /\ LET note == SendCloseWrite(n, Armed(ws, n, w), queue)
              IN  watch' = note.watch /\ queue' = note.queue
           /\ trace' = Moved(t, n, w)
           /\ UNCHANGED live
  BY DEF Relocate
<1>3. w # NoWd => Armed(ws, n, w) \in Watches
  BY <1>1, ArmedType
<1>4. queue \in Seq(Event) /\ dir \in [Names -> Inodes \cup {NoInode}]
  BY DEF IInv, TypeOK
<1>5. CASE w = NoWd /\ Remove(t, ws, NoWd) /\ UNCHANGED queue
  BY <1>1, <1>4, <1>5, RemoveType
<1>6. CASE w # NoWd /\ Remove(t, Armed(ws, n, w), w) /\ UNCHANGED queue
  BY <1>3, <1>4, <1>6, RemoveType
<1>7. CASE /\ w # NoWd
           /\ LET note == SendCloseWrite(n, Armed(ws, n, w), queue)
              IN  watch' = note.watch /\ queue' = note.queue
           /\ trace' = Moved(t, n, w)
           /\ UNCHANGED live
  <2>1. watch' \in Watches /\ queue' \in Seq(Event)
    BY <1>3, <1>4, <1>7, SendCloseWriteType
  <2>2. t \in Traces /\ trace[t] \in TraceFile
    BY DEF IInv, TypeOK
  <2>3. [trace[t] EXCEPT !.path = n, !.wd = w] \in TraceFile
    BY <2>2 DEF TraceFile
  <2>4. trace' = [trace EXCEPT ![t] = [trace[t] EXCEPT !.path = n, !.wd = w]]
    BY <1>7, <2>2 DEF Moved, IInv, TypeOK
  <2>5. trace' \in [Traces -> TraceFile]
    BY <2>3, <2>4 DEF IInv, TypeOK
  <2>6. TracesOK'
    BY <1>7, <2>2, <2>4 DEF IInv, TypeOK, TracesOK, TraceFile
  <2> QED BY <1>7, <2>1, <2>5, <2>6 DEF IInv, TypeOK
<1> QED BY <1>2, <1>5, <1>6, <1>7

LEMMA OnMovedToType == ASSUME IInv, OnMovedTo PROVE IInv'
<1> DEFINE e == Head(batch)
<1>1. e.name \in Names /\ Tail(batch) \in Seq(Event) /\ pc \notin Checking
  BY HeadFacts DEF OnMovedTo, Event
<1>2. moved' \in SUBSET MovedFrom
  BY DEF OnMovedTo, IInv, TypeOK
<1>3. /\ live' \in SUBSET Traces
      /\ trace' \in [Traces -> TraceFile]
      /\ watch' \in Watches
      /\ queue' \in Seq(Event)
      /\ TracesOK'
  <2>1. CASE UNCHANGED <<live, trace, watch, queue>>
    BY <2>1 DEF IInv, TypeOK, TracesOK, Watches
  <2>2. CASE \E t \in live : Relocate(t, e.name)
    BY <1>1, <2>2, RelocateType
  <2> QED BY <2>1, <2>2 DEF OnMovedTo
<1> QED BY <1>1, <1>2, <1>3 DEF OnMovedTo, IInv, TypeOK, JobOK, Watches

LEMMA CheckByType ==
    ASSUME NEW t \in Traces, NEW caller \in Callers
    PROVE  CheckBy(t, caller) \in Job /\ CheckBy(t, caller).t = t
BY DirAssumption DEF CheckBy, Job

LEMMA OnDeleteType == ASSUME IInv, OnDelete PROVE IInv'
<1>1. Tail(batch) \in Seq(Event) /\ pc \notin Checking
  BY HeadFacts DEF OnDelete
<1>2. CASE UNCHANGED <<pc, job>>
  BY <1>1, <1>2 DEF OnDelete, IInv, TypeOK, TracesOK, JobOK
<1>3. CASE pc' = "check" /\ \E t \in live : job' = CheckBy(t, "delete")
  <2>1. job' \in Job /\ job'.t \in live
    BY <1>3, CheckByType DEF Callers, IInv, TypeOK
  <2> QED BY <1>1, <1>3, <2>1 DEF OnDelete, IInv, TypeOK, TracesOK, JobOK
<1> QED BY <1>2, <1>3 DEF OnDelete, TraceAt

LEMMA OnFileType == ASSUME IInv, OnFile PROVE IInv'
<1> USE DEF OnFile
<1>1. Tail(batch) \in Seq(Event) /\ pc \notin Checking /\ <<>> \in Seq(Event)
  BY HeadFacts
<1>2. CASE batch' = Tail(batch) /\ UNCHANGED <<watch, live, trace, pc, job>>
  BY <1>1, <1>2 DEF IInv, TypeOK, TracesOK, JobOK
<1>3. CASE \E t \in TraceOfWd(Head(batch).wd), w \in Wds \cup {NoWd} :
             \/ /\ w # NoWd
                /\ Remove(t, Armed(watch, trace[t].path, w), w)
                /\ batch' = <<>>
                /\ UNCHANGED <<pc, job>>
             \/ /\ job' = CheckBy(t, "gone")
                /\ pc' = "check"
                /\ batch' = Tail(batch)
                /\ UNCHANGED <<watch, live, trace>>
             \/ /\ w # NoWd
                /\ watch' = Rearmed(t, w)
                /\ trace' = [trace EXCEPT ![t].wd = w]
                /\ job' = CheckBy(t, "event")
                /\ pc' = "check"
                /\ batch' = Tail(batch)
                /\ UNCHANGED live
  <2>1. PICK t \in live, w \in Wds \cup {NoWd} :
             \/ /\ w # NoWd
                /\ Remove(t, Armed(watch, trace[t].path, w), w)
                /\ batch' = <<>>
                /\ UNCHANGED <<pc, job>>
             \/ /\ job' = CheckBy(t, "gone")
                /\ pc' = "check"
                /\ batch' = Tail(batch)
                /\ UNCHANGED <<watch, live, trace>>
             \/ /\ w # NoWd
                /\ watch' = Rearmed(t, w)
                /\ trace' = [trace EXCEPT ![t].wd = w]
                /\ job' = CheckBy(t, "event")
                /\ pc' = "check"
                /\ batch' = Tail(batch)
                /\ UNCHANGED live
    BY <1>3 DEF TraceOfWd
  <2>2. t \in Traces
    BY DEF IInv, TypeOK
  <2>3. w # NoWd => Armed(watch, trace[t].path, w) \in Watches
    BY ArmedType DEF IInv, TypeOK, Watches
  <2>4. CASE /\ w # NoWd /\ Remove(t, Armed(watch, trace[t].path, w), w)
             /\ batch' = <<>> /\ UNCHANGED <<pc, job>>
    BY <1>1, <2>3, <2>4, RemoveType DEF IInv, TypeOK, JobOK, Watches
  <2>5. CASE /\ job' = CheckBy(t, "gone") /\ pc' = "check" /\ batch' = Tail(batch)
             /\ UNCHANGED <<watch, live, trace>>
    <3>1. job' \in Job /\ job'.t = t
      BY <2>2, <2>5, CheckByType DEF Callers
    <3> QED BY <1>1, <2>5, <3>1 DEF IInv, TypeOK, TracesOK, JobOK
  <2>6. CASE /\ w # NoWd
             /\ watch' = Rearmed(t, w)
             /\ trace' = [trace EXCEPT ![t].wd = w]
             /\ job' = CheckBy(t, "event")
             /\ pc' = "check"
             /\ batch' = Tail(batch)
             /\ UNCHANGED live
    <3>1. job' \in Job /\ job'.t = t
      BY <2>2, <2>6, CheckByType DEF Callers
    <3>2. watch' \in Watches
      BY <2>3, <2>6 DEF Rearmed
    <3>3. trace' \in [Traces -> TraceFile]
      BY <2>2, <2>6, SetWdType DEF IInv, TypeOK
    <3>4. TracesOK' /\ JobOK'
      BY <2>2, <2>6, <3>1 DEF IInv, TypeOK, TracesOK, JobOK, TraceFile
    <3> QED BY <1>1, <2>6, <3>1, <3>2, <3>3, <3>4 DEF IInv, TypeOK, Watches
  <2> QED BY <2>1, <2>4, <2>5, <2>6
<1> QED BY <1>2, <1>3

LEMMA IdleType == ASSUME IInv, Idle PROVE IInv'
<1>1. PICK t \in live, c \in {"idle", "lost"} : job' = CheckBy(t, c)
  BY DEF Idle
<1>2. job' \in Job /\ job'.t \in live
  BY <1>1, CheckByType DEF Callers, IInv, TypeOK
<1> QED BY <1>2 DEF Idle, IInv, TypeOK, TracesOK, JobOK

LEMMA CleanMovedType == ASSUME IInv, CleanMoved PROVE IInv'
<1>1. PICK t : Remove(t, watch, trace[t].wd)
  BY DEF CleanMoved
<1>2. watch \in Watches
  BY DEF IInv, TypeOK, Watches
<1>3. /\ live' \in SUBSET Traces
      /\ trace' \in [Traces -> TraceFile]
      /\ watch' \in Watches
      /\ TracesOK'
  BY <1>1, <1>2, RemoveType
<1> QED BY <1>3 DEF CleanMoved, IInv, TypeOK, JobOK, Checking, Watches

LEMMA RestartType == ASSUME IInv, Restart PROVE IInv'
<1>1. queue' \in Seq(Event) /\ pc' = "load" /\ todo' \in SUBSET Names
  BY DEF Restart
<1>2. full' \in BOOLEAN
  BY Zenon DEF Restart
<1>3. UNCHANGED <<dir, born, size, watch, batch, live, trace, moved, job, got, twice>>
  BY DEF Restart
<1>4. TracesOK' /\ JobOK'
  BY <1>1, <1>3 DEF IInv, TracesOK, JobOK, Checking
<1> QED BY <1>1, <1>2, <1>3, <1>4 DEF IInv, TypeOK

-----------------------------------------------------------------------------
(* The steps of the applications. *)

LEMMA ApplicationsType == ASSUME IInv, Applications PROVE IInv'
<1> USE DEF IInv, TypeOK
<1>1. /\ watch \in Watches /\ queue \in Seq(Event)
      /\ \A n \in Names, c \in Cookies :
            /\ Enqueue(queue, DirEvent("CREATE", n, NoCookie)) \in Seq(Event)
            /\ Enqueue(queue, DirEvent("DELETE", n, NoCookie)) \in Seq(Event)
            /\ Enqueue(queue, DirEvent("MOVED_FROM", n, c)) \in Seq(Event)
            /\ Enqueue(queue, DirEvent("MOVED_TO", n, c)) \in Seq(Event)
  BY DirEventType, EnqueueType DEF Watches
<1>2. \A n \in Names :
         /\ Enqueue(queue, DirEvent("CREATE", n, NoCookie)) \in Seq(Event)
         /\ Enqueue(queue, DirEvent("DELETE", n, NoCookie)) \in Seq(Event)
  <2> TAKE n \in Names
  <2>1. DirEvent("CREATE", n, NoCookie) \in Event /\ DirEvent("DELETE", n, NoCookie) \in Event
    BY DEF DirEvent, Event
  <2> QED BY <2>1, EnqueueType
<1>3. CASE UNCHANGED workerVars
  <2> DEFINE Typed ==
         /\ dir' \in [Names -> Inodes \cup {NoInode}]
         /\ born' \in 0 .. MaxInodes
         /\ size' \in [Inodes -> 0 .. MaxSize]
         /\ watch' \in Watches
         /\ queue' \in Seq(Event)
  <2>1. ASSUME Typed PROVE IInv'
    BY <1>3, <2>1 DEF workerVars, TracesOK, JobOK, Watches
  <2>2. CASE AppCreate
    BY <1>1, <1>2, <2>1, <2>2, DirAssumption, SMTT(30) DEF AppCreate, Create, Inodes
  <2>3. CASE AppAppend
    <3>1. PICK i \in Inodes : AppendBlock(i)
      BY <2>3 DEF AppAppend
    <3> QED BY <2>1, <3>1, NotifyType, <1>1, DirAssumption DEF AppendBlock
  <2>4. CASE AppClose
    <3>1. PICK i \in Inodes : CloseWrite(i)
      BY <2>4 DEF AppClose
    <3> QED BY <2>1, <3>1, NotifyType, <1>1 DEF CloseWrite
  <2>5. CASE AppUnlink
    BY <1>1, <1>2, <2>1, <2>5 DEF AppUnlink, Unlink
  <2>6. CASE AppRename
    <3>1. PICK n \in Names, m \in Names, c \in Cookies : Rename(n, m, c)
      BY <2>6 DEF AppRename, FreshCookie
    <3>2. Enqueue(Enqueue(queue, DirEvent("MOVED_FROM", n, c)),
                  DirEvent("MOVED_TO", m, c)) \in Seq(Event)
      BY <1>1, DirEventType, EnqueueType
    <3> QED BY <1>1, <2>1, <3>1, <3>2 DEF Rename
  <2>7. CASE AppMoveOut
    <3>1. PICK n \in Names, c \in Cookies : MoveOut(n, c)
      BY <2>7 DEF AppMoveOut
    <3> QED BY <1>1, <2>1, <3>1 DEF MoveOut
  <2>8. CASE AppMoveIn
    <3>1. PICK n \in Names, c \in Cookies : MoveIn(n, c)
      BY <2>8 DEF AppMoveIn
    <3>2. born + 1 \in Inodes /\ born' \in 0 .. MaxInodes
      BY <3>1, DirAssumption DEF MoveIn, Inodes
    <3>3. dir' \in [Names -> Inodes \cup {NoInode}] /\ size' \in [Inodes -> 0 .. MaxSize]
      BY <3>1, <3>2 DEF MoveIn
    <3> QED BY <1>1, <2>1, <3>1, <3>2, <3>3 DEF MoveIn
  <2>9. CASE AppTruncate
    <3>1. PICK i \in Inodes : Truncate(i)
      BY <2>9 DEF AppTruncate
    <3> QED BY <2>1, <3>1, NotifyType, <1>1, DirAssumption DEF Truncate
  <2> QED BY <2>2, <2>3, <2>4, <2>5, <2>6, <2>7, <2>8, <2>9 DEF Applications
<1>4. CASE AppTruncate
  <2>1. PICK i \in Inodes : /\ Truncate(i)
                            /\ got' = [got EXCEPT ![i] = {}]
                            /\ twice' = [twice EXCEPT ![i] = {}]
    BY <1>4 DEF AppTruncate
  <2>2. /\ got' \in [Inodes -> SUBSET (1 .. MaxSize)]
        /\ twice' \in [Inodes -> SUBSET (1 .. MaxSize)]
    BY <2>1
  <2>3. watch' \in Watches /\ queue' \in Seq(Event)
    BY <1>1, <2>1, NotifyType DEF Truncate
  <2>4. size' \in [Inodes -> 0 .. MaxSize] /\ UNCHANGED <<dir, born>>
    BY <2>1, DirAssumption DEF Truncate
  <2> QED BY <1>4, <2>2, <2>3, <2>4 DEF AppTruncate, TracesOK, JobOK, Watches
<1> QED BY <1>3, <1>4 DEF Applications, AppCreate, AppAppend, AppClose, AppUnlink, AppRename,
                          AppMoveOut, AppMoveIn

-----------------------------------------------------------------------------

LEMMA InitType == ASSUME Init PROVE IInv
<1>1. Traces \subseteq Nat /\ trace \in [Traces -> TraceFile]
  BY BlankType DEF Init, Traces
<1>2. job \in Job
  BY DirAssumption DEF Init, NoJob, Job, Callers
<1>3. size \in [Inodes -> 0 .. MaxSize]
  BY DirAssumption DEF Init
<1>4. dir \in [Names -> Inodes \cup {NoInode}] /\ born \in 0 .. MaxInodes
  BY DirAssumption DEF Init, Inodes
<1> QED BY <1>1, <1>2, <1>3, <1>4, InputAssumption
        DEF Init, IInv, TypeOK, TracesOK, JobOK, Checking

LEMMA NextType == ASSUME IInv, [Next]_vars PROVE IInv'
<1>1. CASE Worker
  BY <1>1, LoadEntryType, LoadDoneType, ReadEventsType, OnCreateType, OnMovedFromType,
     OnMovedToType, OnDeleteType, OnFileType, IdleType, CleanMovedType, WatchFileType,
     CheckSizeType, BeginRoundType, WriteBlockType, EndRoundType, CheckAgainType,
     SoftFailureType, HardFailureType DEF Worker
<1>2. CASE UNCHANGED vars
  BY <1>2 DEF vars, IInv, TypeOK, TracesOK, JobOK
<1> QED BY <1>1, <1>2, RestartType, ApplicationsType DEF Next

\* The inductive invariant: types, and that the worker only ever checks a
\* trace that is in its trees.
THEOREM Inductive == Spec => []IInv
BY InitType, NextType, PTL DEF Spec

\* Every variable keeps its type, for every choice of the constants.
THEOREM TypeCorrect == Spec => []TypeOK
<1>1. IInv => TypeOK
  BY DEF IInv
<1> QED BY <1>1, Inductive, PTL

-----------------------------------------------------------------------------
(* Unique keys. *)

LEMMA KeysKept ==
    ASSUME IndexUnique, live' \subseteq live,
           \A t \in live' : trace'[t].path = trace[t].path /\ trace'[t].wd = trace[t].wd
    PROVE  IndexUnique'
BY DEF IndexUnique

LEMMA RemoveUnique ==
    ASSUME IInv, IndexUnique, NEW t, NEW ws, NEW w, Remove(t, ws, w)
    PROVE  IndexUnique'
BY KeysKept DEF Remove, IInv, TypeOK

LEMMA ReturnUnique ==
    ASSUME IInv, IndexUnique, NEW ok, NEW tr, NEW ws, DOMAIN tr = Traces,
           \A t \in live : tr[t].path = trace[t].path /\ tr[t].wd = trace[t].wd,
           Return(ok, tr, ws)
    PROVE  IndexUnique'
<1>1. live' \subseteq live /\ \A t \in live' : trace'[t] = tr[t]
  BY DEF Return, IInv, TypeOK
<1> QED BY <1>1, KeysKept

LEMMA DieUnique == ASSUME Die PROVE IndexUnique'
BY DEF Die, IndexUnique

\* AddFileWatcher links a new path only when no trace has it.
LEMMA OpenFileUnique ==
    ASSUME IInv, IndexUnique, NEW n, NEW whole, NEW caller, OpenFile(n, whole, caller)
    PROVE  IndexUnique'
<1>1. PICK t \in Traces \ live :
          /\ live' = live \cup {t}
          /\ trace' = [trace EXCEPT ![t] =
                          [ino |-> dir[n], path |-> n, wd |-> NoWd, count |-> 0,
                           offset |-> IF whole THEN 0 ELSE size[dir[n]]]]
  BY DEF OpenFile, NewTrace
<1>2. trace'[t].path = n /\ trace'[t].wd = NoWd
  BY <1>1 DEF IInv, TypeOK
<1>3. \A u \in live : trace'[u] = trace[u] /\ trace[u].path # n
  BY <1>1 DEF IInv, TypeOK, OpenFile, TraceAt
<1> QED BY <1>1, <1>2, <1>3 DEF IndexUnique

\* A new descriptor that no other trace has keeps the descriptors unique.
LEMMA SetWdUnique ==
    ASSUME IInv, IndexUnique, NEW t \in live, NEW w, TraceOfWd(w) \ {t} = {},
           trace' = [trace EXCEPT ![t].wd = w], UNCHANGED live
    PROVE  IndexUnique'
<1>1. trace'[t].path = trace[t].path /\ trace'[t].wd = w
  BY DEF IInv, TypeOK, TraceFile
<1>2. \A u \in live \ {t} : trace'[u] = trace[u] /\ trace[u].wd # w
  BY DEF IInv, TypeOK, TraceOfWd
<1> QED BY <1>1, <1>2 DEF IndexUnique

LEMMA RelocateUnique ==
    ASSUME IInv, IndexUnique, NEW t \in live, NEW n, Relocate(t, n)
    PROVE  IndexUnique'
<1>1. CASE \E ws, w : Remove(t, ws, w)
  BY <1>1, RemoveUnique
<1>2. CASE \E w : ~Collides(t, n, w) /\ trace' = Moved(t, n, w) /\ UNCHANGED live
  <2>1. PICK w : ~Collides(t, n, w) /\ trace' = Moved(t, n, w) /\ UNCHANGED live
    BY <1>2
  <2>2. trace'[t].path = n /\ trace'[t].wd = w
    BY <2>1 DEF Moved, IInv, TypeOK, TraceFile
  <2>3. \A u \in live \ {t} : trace'[u] = trace[u] /\ trace[u].path # n /\ trace[u].wd # w
    BY <2>1 DEF Moved, IInv, TypeOK, Collides, TraceAt, TraceOfWd
  <2> QED BY <2>1, <2>2, <2>3 DEF IndexUnique
<1> QED BY <1>1, <1>2 DEF Relocate

LEMMA NextUnique == ASSUME IInv, IndexUnique, [Next]_vars PROVE IndexUnique'
<1>1. CASE UNCHANGED <<live, trace>>
  BY <1>1 DEF IndexUnique
<1>2. CASE LoadEntry
  BY <1>1, <1>2, OpenFileUnique DEF LoadEntry
<1>3. CASE OnCreate
  BY <1>1, <1>3, OpenFileUnique, DieUnique DEF OnCreate
<1>4. CASE OnMovedTo
  BY <1>1, <1>4, RelocateUnique DEF OnMovedTo
<1>5. CASE OnFile
  <2>1. CASE \E t, ws, w : Remove(t, ws, w)
    BY <2>1, RemoveUnique
  <2>2. CASE \E t \in live : \E w : /\ TraceOfWd(w) \ {t} = {}
                                  /\ trace' = [trace EXCEPT ![t].wd = w]
                                  /\ UNCHANGED live
    BY <2>2, SetWdUnique
  <2> QED BY <1>1, <1>5, <2>1, <2>2 DEF OnFile, TraceOfWd
<1>6. CASE CleanMoved
  BY <1>6, RemoveUnique DEF CleanMoved
<1>7. CASE WatchFile
  <2>1. job.t \in live
    BY <1>7 DEF WatchFile, IInv, JobOK, Checking
  <2>2. CASE Die
    BY <2>2, DieUnique
  <2>3. CASE \E w : /\ TraceOfWd(w) = {}
                    /\ trace' = [trace EXCEPT ![job.t].wd = w]
                    /\ UNCHANGED live
    BY <2>1, <2>3, SetWdUnique
  <2> QED BY <1>7, <2>2, <2>3 DEF WatchFile
<1>8. CASE WriteBlock
  <2>1. \A t \in live : trace'[t].path = trace[t].path /\ trace'[t].wd = trace[t].wd
    BY <1>8 DEF WriteBlock, IInv, TypeOK, TraceFile
  <2> QED BY <1>8, <2>1, KeysKept DEF WriteBlock
<1>9. CASE CheckSize
  <2> DEFINE tr1 == [trace EXCEPT ![job.t].offset = size[trace[job.t].ino], ![job.t].count = 1]
             tr2 == [trace EXCEPT ![job.t].count = NextCount(trace[job.t].count)]
  <2>1. DOMAIN tr1 = Traces /\ DOMAIN tr2 = Traces
    BY DEF IInv, TypeOK
  <2>2. \A t \in live : /\ tr1[t].path = trace[t].path /\ tr1[t].wd = trace[t].wd
                        /\ tr2[t].path = trace[t].path /\ tr2[t].wd = trace[t].wd
    BY DEF IInv, TypeOK, TraceFile
  <2>3. CASE Return(TRUE, tr1, watch)
    BY <2>1, <2>2, <2>3, ReturnUnique, ZenonT(30)
  <2>4. CASE Return(TRUE, tr2, watch)
    BY <2>1, <2>2, <2>4, ReturnUnique
  <2> QED BY <1>1, <1>9, <2>3, <2>4 DEF CheckSize
<1>10. CASE SoftFailure
  <2> DEFINE tr == [trace EXCEPT ![job.t].offset = @ + 1]
  <2>1. DOMAIN tr = Traces /\ DOMAIN trace = Traces
    BY DEF IInv, TypeOK
  <2>2. \A t \in live : tr[t].path = trace[t].path /\ tr[t].wd = trace[t].wd
    BY DEF IInv, TypeOK, TraceFile
  <2>3. CASE Return(TRUE, trace, watch)
    BY <2>1, <2>3, ReturnUnique
  <2>4. CASE Return(TRUE, tr, watch)
    BY <2>1, <2>2, <2>4, ReturnUnique
  <2> QED BY <1>10, <2>3, <2>4 DEF SoftFailure
<1>11. CASE HardFailure
  <2>1. DOMAIN trace = Traces
    BY DEF IInv, TypeOK
  <2> QED BY <1>11, <2>1, ReturnUnique DEF HardFailure
<1>12. CASE CheckAgain
  <2> DEFINE tr == [trace EXCEPT ![job.t].count = 1]
  <2>1. DOMAIN tr = Traces /\ DOMAIN trace = Traces
    BY DEF IInv, TypeOK
  <2>2. \A t \in live : tr[t].path = trace[t].path /\ tr[t].wd = trace[t].wd
    BY DEF IInv, TypeOK, TraceFile
  <2>3. CASE \E ws : Return(TRUE, trace, ws)
    BY <2>1, <2>3, ReturnUnique
  <2>4. CASE Return(TRUE, tr, watch)
    BY <2>1, <2>2, <2>4, ReturnUnique
  <2> QED BY <1>1, <1>12, <2>3, <2>4 DEF CheckAgain
<1>13. CASE LoadDone \/ ReadEvents \/ OnMovedFrom \/ OnDelete \/ Idle \/ BeginRound \/ EndRound
  BY <1>1, <1>13 DEF LoadDone, ReadEvents, OnMovedFrom, OnDelete, Idle, BeginRound, EndRound
<1>14. CASE Restart \/ Applications \/ UNCHANGED vars
  BY <1>1, <1>14 DEF Restart, Applications, AppCreate, AppAppend, AppClose, AppTruncate,
     AppUnlink, AppRename, AppMoveOut, AppMoveIn, workerVars, vars
<1> QED BY <1>2, <1>3, <1>4, <1>5, <1>6, <1>7, <1>8, <1>9, <1>10, <1>11, <1>12, <1>13, <1>14
        DEF Next, Worker

\* No two traces ever share a path or a watch descriptor, whatever the
\* applications and the outputs do: every event that names a path or a
\* descriptor finds at most one trace.
THEOREM UniqueKeys == Spec => []IndexUnique
<1>1. Init => IndexUnique
  BY DEF Init, IndexUnique
<1>2. IInv /\ IndexUnique /\ [Next]_vars => IndexUnique'
  BY NextUnique
<1> QED BY <1>1, <1>2, Inductive, PTL DEF Spec

-----------------------------------------------------------------------------
(***************************************************************************)
(* InputFile beside applications that leave a file alone                   *)
(* until the worker is done with it, outputs that take every block and an  *)
(* inotify queue that never overflows, for every number of names, files,   *)
(* blocks and descriptors: each file is traced and each trace that lags is *)
(* woken up, no block is handed over twice, a trace is only dropped when   *)
(* its file has left and is read to its end, and the worker does not die.  *)
(*                                                                         *)
(* The invariant follows each trace through what may have happened to its  *)
(* file since the worker last heard of it: it is at home under the trace's *)
(* path, deleted with the event on its way, deleted with the event in the  *)
(* worker's hands, or renamed with the pair of events still ahead.         *)
(***************************************************************************)

-----------------------------------------------------------------------------
(* The inductive invariant *)

\* The events in the order in which they are handled.
Line == batch \o queue
Spots == 1 .. Len(Line)

IsEvent(k, mask) == Line[k].mask = mask

Quiet(n) == \A k \in Spots : Line[k].name # n

Traced(i) == \E t \in live : trace[t].ino = i

\* The file is where its trace believes it to be.
Home(t) == dir[trace[t].path] = trace[t].ino /\ Quiet(trace[t].path)

\* The file was deleted, and the worker will be told.
Doomed(t) ==
    /\ ~Named(trace[t].ino)
    /\ \E k \in Spots : IsEvent(k, "DELETE") /\ Line[k].name = trace[t].path

\* The worker has been told.
Ending(t) ==
    /\ ~Named(trace[t].ino)
    /\ pc \in Checking /\ job.t = t /\ job.caller = "delete"

\* The file was renamed, and the pair of events is at k and k + 1 ...
Leaves(t, k) ==
    /\ IsEvent(k, "MOVED_FROM") /\ Line[k].name = trace[t].path
    /\ dir[Line[k + 1].name] = trace[t].ino
    /\ \A j \in Spots : Line[j].name = trace[t].path => j = k \/ IsEvent(j, "CREATE")
    /\ \A j \in 1 .. k - 1 : Line[j] # FileEvent(trace[t].wd)

\* ... or the second one is the next event.
Arrives(t) ==
    /\ Line # <<>> /\ IsEvent(1, "MOVED_TO")
    /\ dir[Line[1].name] = trace[t].ino
    /\ moved = {[path |-> trace[t].path, cookie |-> Line[1].cookie]}

Moving(t) ==
    /\ trace[t].count = 0 /\ job.t # t
    /\ Arrives(t) \/ \E k \in Spots : Leaves(t, k)

Phases == \A t \in live : Home(t) \/ Doomed(t) \/ Ending(t) \/ Moving(t)

CreateOK(k) ==
    IsEvent(k, "CREATE") =>
        /\ dir[Line[k].name] # NoInode /\ ~Traced(dir[Line[k].name])
        /\ \A j \in Spots : j > k => Line[j].name # Line[k].name

FromOK(k) ==
    IsEvent(k, "MOVED_FROM") =>
        /\ k + 1 \in Spots /\ IsEvent(k + 1, "MOVED_TO")
        /\ Line[k + 1].cookie = Line[k].cookie

ToOK(k) ==
    IsEvent(k, "MOVED_TO") =>
        /\ dir[Line[k].name] # NoInode
        /\ k # Len(batch) + 1
        /\ \A j \in Spots : Line[j].name = Line[k].name => j = k
        /\ \A t \in TraceAt(Line[k].name) : k > 1 /\ Arrives(t)

EventsOK == \A k \in Spots : CreateOK(k) /\ FromOK(k) /\ ToOK(k)

MovedOK ==
    moved # {} =>
        /\ pc = "loop" /\ Line # <<>> /\ IsEvent(1, "MOVED_TO")
        /\ \E p \in Names : moved = {[path |-> p, cookie |-> Line[1].cookie]}

DirOK ==
    /\ \A n, m \in Names : dir[n] = dir[m] /\ dir[n] # NoInode => n = m
    /\ \A n \in Names : dir[n] <= born
    /\ \A t \in live : trace[t].ino <= born
    /\ \A t, u \in live : trace[t].ino = trace[u].ino => t = u

TodoOK ==
    /\ \A n \in todo : Quiet(n) /\ TraceAt(n) = {} /\ ~Traced(dir[n])
    /\ todo # {} => pc = "load" \/ job.caller = "load"

\* Whose watch it is.
WatchOK ==
    /\ \A i, j \in Inodes : watch[i] = watch[j] /\ watch[i] # NoWd => i = j
    /\ \A i \in Inodes : watch[i] # NoWd =>
          /\ ~FileAwaited(watch[i])
          /\ \E t \in live :
                /\ trace[t].wd = watch[i]
                /\ trace[t].ino = i \/ (dir[trace[t].path] = i /\ (Doomed(t) \/ Ending(t)))
    /\ \A t \in live : (pc = "watch" => t # job.t) =>
          /\ trace[t].wd # NoWd
          /\ Named(trace[t].ino) => watch[trace[t].ino] = trace[t].wd \/ FileAwaited(trace[t].wd)

CheckOK ==
    /\ pc \notin Checking => job = NoJob
    /\ pc \in Checking => job.caller # "none"
    /\ pc = "watch" => Home(job.t) /\ trace[job.t].wd = NoWd /\ job.caller \in {"load", "create"}
    /\ job.caller \in {"gone", "lost"} => Doomed(job.t)
    /\ job.caller = "delete" => Ending(job.t)
    /\ job.caller = "gone" /\ pc \in {"begin", "round"} =>
          trace[job.t].offset + job.remain = size[trace[job.t].ino]
    /\ job.caller = "gone" /\ pc = "recheck" => trace[job.t].offset = size[trace[job.t].ino]

GotOK ==
    /\ \A i \in Inodes : got[i] \subseteq 1 .. size[i]
    /\ \A i \in Inodes : i > born => got[i] = {}
    /\ \A t \in live : trace[t].offset <= size[trace[t].ino]
                       /\ got[trace[t].ino] \subseteq 1 .. trace[t].offset
    /\ \A n \in Names : dir[n] # NoInode /\ ~Traced(dir[n]) => got[dir[n]] = {}

CalmInv ==
    /\ pc # "dead"
    /\ Phases /\ EventsOK /\ MovedOK /\ DirOK /\ TodoOK /\ WatchOK /\ CheckOK /\ GotOK
    /\ Covered /\ AtMostOnce /\ WakeUpPending

Good == IInv /\ IndexUnique /\ CalmInv

\* The applications of CalmInv and the outputs it is about.
CalmOps == {"create", "append", "close", "unlink", "rename"}
CalmSystem == Calm /\ Ops \subseteq CalmOps /\ Outcomes \subseteq {"ok"}

\* The kernel has room for the events of one more step.
Room == Len(queue) + 2 <= MaxQueue

-----------------------------------------------------------------------------
(* The line of events *)

LEMMA LineFacts ==
    ASSUME IInv
    PROVE  /\ Line \in Seq(Event) /\ Len(Line) = Len(batch) + Len(queue)
           /\ Len(Line) \in Nat /\ Len(batch) \in Nat
           /\ \A k \in Spots : Line[k] \in Event
           /\ \A k \in 1 .. Len(batch) : Line[k] = batch[k]
           /\ \A k \in 1 .. Len(queue) : Line[Len(batch) + k] = queue[k]
BY DEF IInv, TypeOK, Line, Spots

\* What the handlers look up is on the line.
OnLine ==
    /\ Pending = {Line[k] : k \in Spots}
    /\ \A w : FileAwaited(w) <=> \E k \in Spots : IsEvent(k, "FILE") /\ Line[k].wd = w
    /\ \A mask, n : Awaited(mask, n) <=>
          \E k \in Spots : IsEvent(k, mask) /\ Line[k].name = n

LEMMA PendingIsLine == IInv => OnLine
<1> SUFFICES ASSUME IInv PROVE OnLine
  OBVIOUS
<1>1. Pending = {Line[k] : k \in Spots}
  <2>1. ASSUME NEW e \in Pending PROVE \E k \in Spots : Line[k] = e
    <3>1. CASE \E k \in 1 .. Len(batch) : batch[k] = e
      BY <3>1, LineFacts DEF Spots
    <3>2. CASE \E k \in 1 .. Len(queue) : queue[k] = e
      <4>1. PICK k \in 1 .. Len(queue) : queue[k] = e
        BY <3>2
      <4>2. Len(batch) + k \in Spots /\ Line[Len(batch) + k] = e
        BY <4>1, LineFacts DEF Spots, IInv, TypeOK
      <4> QED BY <4>2
    <3> QED BY <2>1, <3>1, <3>2 DEF Pending, InSeq
  <2>2. ASSUME NEW k \in Spots PROVE Line[k] \in Pending
    <3>1. CASE k <= Len(batch)
      BY <3>1, LineFacts DEF Spots, Pending, InSeq
    <3>2. CASE k > Len(batch)
      <4>1. k - Len(batch) \in 1 .. Len(queue) /\ Line[k] = queue[k - Len(batch)]
        BY <3>2, LineFacts, SMTT(30) DEF Spots, IInv, TypeOK
      <4> QED BY <4>1 DEF Pending, InSeq
    <3> QED BY <3>1, <3>2, LineFacts DEF Spots
  <2> QED BY <2>1, <2>2
<1>2. \A w : FileAwaited(w) <=> \E k \in Spots : IsEvent(k, "FILE") /\ Line[k].wd = w
  BY <1>1 DEF FileAwaited, IsEvent
<1>3. \A mask, n : Awaited(mask, n) <=> \E k \in Spots : IsEvent(k, mask) /\ Line[k].name = n
  BY <1>1 DEF Awaited, IsEvent
<1> QED BY <1>1, <1>2, <1>3 DEF OnLine

\* The next event has been handled.
Popped ==
    /\ Len(Line) > 0 /\ Len(Line') = Len(Line) - 1
    /\ Line[1] = Head(batch)
    /\ \A k \in 1 .. Len(Line') : Line'[k] = Line[k + 1]

LEMMA PopFacts ==
    ASSUME IInv, batch # <<>>, batch' = Tail(batch), queue' = queue
    PROVE  Popped /\ Len(batch') = Len(batch) - 1 /\ Len(batch) > 0
<1> DEFINE b == Tail(batch)
<1>1. batch \in Seq(Event) /\ queue \in Seq(Event) /\ b \in Seq(Event)
  BY DEF IInv, TypeOK
<1>2. Len(b) = Len(batch) - 1 /\ Len(batch) > 0
  BY <1>1
<1>3. Line' = b \o queue
  BY DEF Line
<1>4. \A k \in 1 .. Len(Line') : Line'[k] = Line[k + 1]
  BY <1>1, <1>2, <1>3 DEF Line
<1>5. Line[1] = Head(batch)
  BY <1>1, <1>2 DEF Line
<1> QED BY <1>1, <1>2, <1>3, <1>4, <1>5 DEF Popped, Line

\* An event has come.
Pushed(e) ==
    /\ Len(Line') = Len(Line) + 1 /\ Line'[Len(Line) + 1] = e
    /\ \A k \in Spots : Line'[k] = Line[k]

LEMMA PushFacts ==
    ASSUME IInv, Room, NEW e \in Event, batch' = batch, queue' = Enqueue(queue, e)
    PROVE  Pushed(e)
<1>1. queue' = Append(queue, e)
  BY DirAssumption DEF Room, Enqueue, IInv, TypeOK
<1>2. batch \in Seq(Event) /\ queue \in Seq(Event)
  BY DEF IInv, TypeOK
<1>3. Line' = batch \o Append(queue, e)
  BY <1>1 DEF Line
<1> QED BY <1>2, <1>3 DEF Pushed, Line, Spots

LEMMA EventFacts ==
    ASSUME IInv, NEW k \in Spots
    PROVE  /\ Line[k].mask \in {"CREATE", "DELETE", "MOVED_FROM", "MOVED_TO", "FILE"}
           /\ Line[k].mask = "FILE" => Line[k].name = NoName /\ Line[k].wd \in Wds
                                       /\ Line[k].name \notin Names
           /\ Line[k].mask # "FILE" => Line[k].name \in Names
           /\ NoWd \notin Wds
BY LineFacts, DirAssumption DEF Event, Wds, NoWd

-----------------------------------------------------------------------------
(* What follows from the invariant *)

LEMMA TraceFacts ==
    ASSUME Good, NEW t \in live
    PROVE  /\ t \in Traces /\ trace[t] \in TraceFile /\ t # 0
           /\ trace[t].ino \in Inodes /\ trace[t].path \in Names
           /\ trace[t].wd \in Wds \cup {NoWd} /\ trace[t].count \in Nat
           /\ trace[t].offset \in Nat /\ size[trace[t].ino] \in Nat
           /\ trace[t].offset <= size[trace[t].ino]
           /\ dir[trace[t].path] \in Inodes \cup {NoInode}
           /\ trace[t].ino # NoInode
<1>1. t \in Traces /\ trace[t] \in TraceFile
  BY DEF Good, IInv, TypeOK
<1>2. trace[t].ino \in Inodes /\ trace[t].path \in Names
  BY DEF Good, IInv, TracesOK
<1>3. size[trace[t].ino] \in Nat /\ dir[trace[t].path] \in Inodes \cup {NoInode}
  BY <1>2, DirAssumption DEF Good, IInv, TypeOK
<1>4. trace[t].offset <= size[trace[t].ino]
  BY DEF Good, CalmInv, GotOK
<1>5. t # 0 /\ trace[t].ino # NoInode
  BY <1>1, <1>2 DEF Traces, Inodes, NoInode
<1> QED BY <1>1, <1>2, <1>3, <1>4, <1>5, DirAssumption DEF TraceFile

LEMMA NamedPhase ==
    ASSUME Good, NEW t \in live
    PROVE  /\ Named(trace[t].ino) => Home(t) \/ Moving(t)
           /\ ~Named(trace[t].ino) => Doomed(t) \/ Ending(t)
           /\ Home(t) \/ Moving(t) => Named(trace[t].ino)
<1>1. Home(t) => Named(trace[t].ino)
  BY TraceFacts DEF Home, Named
<1>2. Moving(t) => Named(trace[t].ino)
  <2>1. ASSUME Arrives(t) PROVE Named(trace[t].ino)
    <3>1. 1 \in Spots
      BY <2>1, LineFacts DEF Arrives, Spots, Good
    <3> QED BY <2>1, <3>1, EventFacts DEF Arrives, IsEvent, Named, Good
  <2>2. ASSUME NEW k \in Spots, Leaves(t, k) PROVE Named(trace[t].ino)
    <3>1. k + 1 \in Spots /\ IsEvent(k + 1, "MOVED_TO")
      BY <2>2 DEF Leaves, Good, CalmInv, EventsOK, FromOK
    <3> QED BY <2>2, <3>1, EventFacts DEF Leaves, IsEvent, Named, Good
  <2> QED BY <2>1, <2>2 DEF Moving
<1> QED BY <1>1, <1>2 DEF Good, CalmInv, Phases, Doomed, Ending

\* Two traces of one path are one.
LEMMA OnePath ==
    ASSUME Good, NEW t \in live, NEW u \in live, trace[t].path = trace[u].path
    PROVE  t = u
BY DEF Good, IndexUnique

\* A trace at home has its file's name to itself.
LEMMA HomeFacts ==
    ASSUME Good, NEW n \in Names, dir[n] # NoInode
    PROVE  /\ n \in todo \/ Awaited("CREATE", n) => ~Traced(dir[n])
           /\ n \notin todo /\ ~Awaited("CREATE", n) =>
                 \E t \in live : trace[t].ino = dir[n] /\ (Home(t) \/ Moving(t))
<1>1. n \in todo => ~Traced(dir[n])
  BY DEF Good, CalmInv, TodoOK
<1>2. Awaited("CREATE", n) => ~Traced(dir[n])
  BY PendingIsLine DEF OnLine, Good, CalmInv, EventsOK, CreateOK
<1>3. ASSUME n \notin todo, ~Awaited("CREATE", n)
      PROVE  \E t \in live : trace[t].ino = dir[n] /\ (Home(t) \/ Moving(t))
  <2>1. PICK t \in live : trace[t].ino = dir[n]
    BY <1>3 DEF Good, CalmInv, Covered
  <2>2. Named(trace[t].ino)
    BY <2>1 DEF Named
  <2> QED BY <2>1, <2>2, NamedPhase
<1> QED BY <1>1, <1>2, <1>3

\* A file that was moved in the directory is known by its old name, and the
\* event before tells of it.
LEMMA MoverFacts ==
    ASSUME Good, NEW k \in Spots, IsEvent(k, "MOVED_TO")
    PROVE  \E t \in live : /\ trace[t].ino = dir[Line[k].name] /\ Moving(t)
                           /\ (k = 1 /\ Arrives(t)) \/ (k - 1 \in Spots /\ Leaves(t, k - 1))
<1> DEFINE n == Line[k].name
<1>1. n \in Names /\ dir[n] # NoInode /\ \A j \in Spots : Line[j].name = n => j = k
  BY EventFacts DEF Good, CalmInv, EventsOK, ToOK, IsEvent
<1>2. n \notin todo /\ ~Awaited("CREATE", n) /\ ~Quiet(n)
  BY <1>1, PendingIsLine DEF OnLine, Good, CalmInv, TodoOK, Quiet, IsEvent
<1>3. PICK t \in live : trace[t].ino = dir[n] /\ (Home(t) \/ Moving(t))
  BY <1>1, <1>2, HomeFacts
<1>4. \A m \in Names : dir[m] = dir[n] => m = n
  BY <1>1 DEF Good, CalmInv, DirOK
<1>5. Moving(t)
  BY <1>2, <1>3, <1>4, TraceFacts DEF Home
<1>6. CASE Arrives(t)
  <2>1. 1 \in Spots
    BY LineFacts DEF Spots, Good
  <2>2. Line[1].name = n
    BY <1>3, <1>4, <1>6, <2>1, EventFacts DEF Arrives, IsEvent, Good
  <2> QED BY <1>1, <1>3, <1>5, <1>6, <2>1, <2>2
<1>7. ASSUME NEW j \in Spots, Leaves(t, j) PROVE j + 1 = k
  <2>1. j + 1 \in Spots /\ IsEvent(j + 1, "MOVED_TO")
    BY <1>7 DEF Leaves, Good, CalmInv, EventsOK, FromOK
  <2>2. Line[j + 1].name = n
    BY <1>3, <1>4, <1>7, <2>1, EventFacts DEF Leaves, IsEvent, Good
  <2> QED BY <1>1, <2>1, <2>2
<1>8. ASSUME NEW j \in Spots, Leaves(t, j) PROVE k - 1 \in Spots /\ Leaves(t, k - 1)
  <2>1. k - 1 = j
    BY <1>7, <1>8, LineFacts DEF Spots, Good
  <2> QED BY <1>8, <2>1
<1> QED BY <1>3, <1>5, <1>6, <1>8 DEF Moving

-----------------------------------------------------------------------------
(* Steps that leave the line, the directory, the watches and the trees alone *)

\* The keys of the traces are the same.
SameKeys(t) ==
    /\ trace'[t].ino = trace[t].ino /\ trace'[t].path = trace[t].path
    /\ trace'[t].wd = trace[t].wd

\* A trace on the move is left alone, and one that ends still does.
SameCourse(t) ==
    /\ Moving(t) => trace'[t].count = trace[t].count /\ job'.t # t
    /\ Ending(t) => pc' \in Checking /\ job'.t = t /\ job'.caller = "delete"

LEMMA PhaseKept ==
    ASSUME NEW t, SameKeys(t), SameCourse(t), dir' = dir, Line' = Line, moved' = moved,
           Home(t) \/ Doomed(t) \/ Ending(t) \/ Moving(t)
    PROVE  (Home(t) \/ Doomed(t) \/ Ending(t) \/ Moving(t))'
<1>1. Named(trace[t].ino)' <=> Named(trace[t].ino)
  BY DEF SameKeys, Named
<1>2. Home(t) => Home(t)'
  BY DEF SameKeys, Home, Quiet, Spots
<1>3. Doomed(t) => Doomed(t)'
  BY <1>1 DEF SameKeys, Doomed, Spots, IsEvent
<1>4. Ending(t) => Ending(t)'
  BY <1>1 DEF SameCourse, Ending
<1>5. Arrives(t) => Arrives(t)'
  BY DEF SameKeys, Arrives, IsEvent
<1>6. \A k : Leaves(t, k) => Leaves(t, k)'
  BY DEF SameKeys, Leaves, IsEvent, Spots, FileEvent
<1>7. Moving(t) => Moving(t)'
  BY <1>5, <1>6 DEF SameCourse, Moving, Spots
<1> QED BY <1>2, <1>3, <1>4, <1>7

\* A step inside the worker.
Inside ==
    /\ UNCHANGED <<dir, born, watch, moved, live>>
    /\ todo' \subseteq todo
    /\ \A n \in todo \ todo' : dir[n] = NoInode \/ Awaited("CREATE", n)
    /\ Line' = Line
    /\ \A k \in Spots : IsEvent(k, "MOVED_TO") => k # Len(batch') + 1
    /\ \A t \in live : SameKeys(t) /\ SameCourse(t)
    /\ pc # "watch" /\ pc' # "watch"
    /\ moved # {} => pc' = "loop"
    /\ todo' # {} => pc' = "load" \/ job'.caller = "load"

LEMMA ArrivesKept ==
    ASSUME NEW t, SameKeys(t), dir' = dir, Line' = Line, moved' = moved, Arrives(t)
    PROVE  Arrives(t)'
BY DEF SameKeys, Arrives, IsEvent

LEMMA TracedKept ==
    ASSUME live' = live, \A t \in live : SameKeys(t)
    PROVE  /\ \A i : Traced(i)' <=> Traced(i)
           /\ \A n : TraceAt(n)' = TraceAt(n)
<1>1. \A i : Traced(i)' <=> Traced(i)
  BY DEF Traced, SameKeys
<1>2. ASSUME NEW n PROVE TraceAt(n)' = TraceAt(n)
  BY DEF TraceAt, SameKeys
<1> QED BY <1>1, <1>2

LEMMA OnLineNext == IInv' => OnLine'
<1>1. (IInv => OnLine)'
  BY PendingIsLine, PTL
<1> QED BY <1>1

LEMMA AwaitedKept ==
    ASSUME IInv, IInv', Line' = Line
    PROVE  /\ \A w : FileAwaited(w)' <=> FileAwaited(w)
           /\ \A mask, n : Awaited(mask, n)' <=> Awaited(mask, n)
<1>1. OnLine /\ OnLine'
  BY PendingIsLine, OnLineNext
<1> QED BY <1>1 DEF OnLine, Spots, IsEvent

LEMMA LineFactsNext ==
    ASSUME IInv'
    PROVE  /\ Line' \in Seq(Event) /\ Len(Line') \in Nat /\ Len(batch') \in Nat
           /\ Len(Line') = Len(batch') + Len(queue')
BY DEF IInv, TypeOK, Line

\* The part of the invariant that is about the directory, the line, the trees
\* and the watches.
Shape == Phases /\ EventsOK /\ MovedOK /\ DirOK /\ TodoOK /\ WatchOK /\ Covered

LEMMA InsideShape ==
    ASSUME Good, IInv', Inside, pc' # "dead"
    PROVE  Shape'
<1> USE DEF Good
<1>1. \A t \in live : SameKeys(t) /\ SameCourse(t)
  BY DEF Inside
<1>2. UNCHANGED <<dir, born, watch, moved, live>> /\ Line' = Line /\ todo' \subseteq todo
  BY DEF Inside
<1>3. /\ \A i : Traced(i)' <=> Traced(i)
      /\ \A n : TraceAt(n)' = TraceAt(n)
  BY <1>1, <1>2, TracedKept
<1>4. Phases'
  BY <1>1, <1>2, PhaseKept DEF Phases, CalmInv
<1>5. EventsOK'
  <2> SUFFICES ASSUME NEW k \in Spots PROVE CreateOK(k)' /\ FromOK(k)' /\ ToOK(k)'
    BY <1>2 DEF EventsOK, Spots
  <2>1. CreateOK(k) /\ FromOK(k) /\ ToOK(k)
    BY DEF CalmInv, EventsOK
  <2>2. CreateOK(k)'
    BY <1>2, <1>3, <2>1 DEF CreateOK, IsEvent, Spots
  <2>3. FromOK(k)'
    BY <1>2, <2>1 DEF FromOK, IsEvent, Spots
  <2>4. ToOK(k)'
    <3> SUFFICES ASSUME IsEvent(k, "MOVED_TO") PROVE ToOK(k)'
      BY <1>2 DEF ToOK, IsEvent
    <3>1. \A t \in TraceAt(Line[k].name) : k > 1 /\ Arrives(t)'
      BY <1>1, <1>2, <2>1, ArrivesKept DEF ToOK, TraceAt
    <3>2. k # Len(batch') + 1
      BY DEF Inside
    <3> QED BY <1>2, <1>3, <2>1, <3>1, <3>2 DEF ToOK, IsEvent, Spots
  <2> QED BY <2>2, <2>3, <2>4
<1>6. MovedOK'
  BY <1>2 DEF CalmInv, MovedOK, Inside, IsEvent
<1>7. DirOK'
  BY <1>1, <1>2 DEF CalmInv, DirOK, SameKeys
<1>8. TodoOK'
  BY <1>2, <1>3 DEF CalmInv, TodoOK, Inside, Quiet, Spots
<1>9. \A i : Named(i)' <=> Named(i)
  BY <1>2 DEF Named
<1>10. WatchOK'
  <2>1. \A w : FileAwaited(w)' <=> FileAwaited(w)
    BY <1>2, AwaitedKept
  <2>2. \A t \in live : Doomed(t) => Doomed(t)'
    BY <1>1, <1>2, <1>9 DEF SameKeys, Doomed, Spots, IsEvent
  <2>3. \A t \in live : Ending(t) => Ending(t)'
    BY <1>1, <1>9 DEF SameKeys, SameCourse, Ending
  <2>4. \A i, j \in Inodes : watch'[i] = watch'[j] /\ watch'[i] # NoWd => i = j
    BY <1>2 DEF CalmInv, WatchOK
  <2>5. ASSUME NEW i \in Inodes, watch'[i] # NoWd
        PROVE  /\ ~FileAwaited(watch[i])
               /\ \E t \in live :
                    /\ trace'[t].wd = watch[i]
                    /\ trace'[t].ino = i
                       \/ (dir[trace'[t].path] = i /\ (Doomed(t)' \/ Ending(t)'))
    BY <1>1, <1>2, <2>2, <2>3, <2>5 DEF CalmInv, WatchOK, SameKeys
  <2>6. ASSUME NEW t \in live
        PROVE  /\ trace'[t].wd # NoWd
               /\ Named(trace'[t].ino) =>
                    watch[trace'[t].ino] = trace'[t].wd \/ FileAwaited(trace'[t].wd)
    BY <1>1, <2>6 DEF CalmInv, WatchOK, SameKeys, Inside
  <2> QED BY <1>2, <1>9, <2>1, <2>4, <2>5, <2>6 DEF WatchOK
<1>11. Covered'
  BY <1>1, <1>2, AwaitedKept DEF CalmInv, Covered, SameKeys, Inside
<1> QED BY <1>4, <1>5, <1>6, <1>7, <1>8, <1>10, <1>11 DEF Shape

\* The trace will be looked at again, seen on the line.
Awakened(t) ==
    \/ trace[t].count > 0
    \/ \E k \in Spots : IsEvent(k, "FILE") /\ Line[k].wd = trace[t].wd
    \/ \E k \in Spots : IsEvent(k, "DELETE") /\ Line[k].name = trace[t].path
    \/ \E k \in Spots : IsEvent(k, "MOVED_FROM") /\ Line[k].name = trace[t].path
    \/ \E m \in moved : m.path = trace[t].path

AllAwakened ==
    \A t \in live \ {job.t} : size[trace[t].ino] > trace[t].offset => Awakened(t)

LEMMA WakeIsLine == IInv => (WakeUpPending <=> AllAwakened)
BY PendingIsLine DEF OnLine, WakeUpPending, AllAwakened, Awakened

LEMMA WakeIsLineNext == IInv' => (WakeUpPending' <=> AllAwakened')
<1>1. (IInv => (WakeUpPending <=> AllAwakened))'
  BY WakeIsLine, PTL
<1> QED BY <1>1

LEMMA InsideWake ==
    ASSUME Good, IInv', Inside, size' = size,
           \A t \in live : t # job'.t =>
              \/ trace'[t].offset = trace[t].offset /\ trace'[t].count = trace[t].count /\ t # job.t
              \/ trace'[t].offset = size[trace[t].ino]
              \/ trace'[t].count > 0
    PROVE  WakeUpPending'
<1> SUFFICES ASSUME NEW t \in live, t # job'.t, size[trace[t].ino] > trace'[t].offset
             PROVE  Awakened(t)'
  BY WakeIsLineNext DEF AllAwakened, Inside, SameKeys
<1>1. CASE trace'[t].count > 0
  BY <1>1 DEF Awakened
<1>2. CASE trace'[t].offset = trace[t].offset /\ trace'[t].count = trace[t].count /\ t # job.t
  <2>1. Awakened(t)
    BY <1>2, WakeIsLine DEF Good, CalmInv, AllAwakened
  <2> QED BY <1>2, <2>1 DEF Awakened, Inside, SameKeys, Spots, IsEvent
<1> QED BY <1>1, <1>2, TraceFacts

LEMMA GotKept ==
    ASSUME Good, UNCHANGED <<dir, born, size, got, twice>>, live' \subseteq live,
           \A i : Traced(i)' <=> Traced(i),
           \A t \in live' : trace'[t].ino = trace[t].ino /\ trace'[t].offset = trace[t].offset
    PROVE  GotOK' /\ AtMostOnce'
BY DEF Good, CalmInv, GotOK, AtMostOnce

-----------------------------------------------------------------------------
(* CheckFileOffset *)

LEMMA CheckedTrace ==
    ASSUME Good, pc \in Checking
    PROVE  /\ job.t \in live /\ job \in Job /\ ~Moving(job.t) /\ moved = {}
           /\ job.remain \in Nat
           /\ pc \notin {"loop", "load", "dead"}
           /\ job.t # 0
<1>1. job.t \in live /\ job \in Job
  BY DEF Good, IInv, JobOK, TypeOK
<1>2. moved = {}
  BY DEF Good, CalmInv, MovedOK, Checking
<1> QED BY <1>1, <1>2, TraceFacts, DirAssumption DEF Moving, Checking, Job

LEMMA SplitKept ==
    ASSUME Good, batch' = batch
    PROVE  \A k \in Spots : IsEvent(k, "MOVED_TO") => k # Len(batch') + 1
BY DEF Good, CalmInv, EventsOK, ToOK

LEMMA CheckGoesOn ==
    ASSUME Good, IInv', pc \in Checking, pc # "watch", pc' \in {"begin", "round", "recheck"},
           job'.t = job.t, job'.caller = job.caller,
           UNCHANGED <<dir, born, watch, queue, todo, batch, live, moved>>,
           \A t \in live : SameKeys(t) /\ trace'[t].count = trace[t].count
    PROVE  Inside /\ Shape'
<1>1. Line' = Line
  BY DEF Line
<1>2. \A t \in live : SameCourse(t)
  BY DEF SameCourse, Moving, Ending, Checking
<1>3. todo # {} => job.caller = "load"
  BY CheckedTrace DEF Good, CalmInv, TodoOK
<1>4. Inside
  BY <1>1, <1>2, <1>3, SplitKept, CheckedTrace DEF Inside
<1> QED BY <1>4, InsideShape

LEMMA CheckedPhase ==
    ASSUME Good, pc \in Checking, job.caller \in {"gone", "lost", "delete"}
    PROVE  ~Named(trace[job.t].ino) /\ (Doomed(job.t) \/ Ending(job.t))
BY DEF Good, CalmInv, CheckOK, Doomed, Ending

LEMMA CheckGoesOnJob ==
    ASSUME Good, IInv', pc \in Checking, pc # "watch", pc' \in {"begin", "round", "recheck"},
           job'.t = job.t, job'.caller = job.caller,
           UNCHANGED <<dir, queue, batch>>,
           \A t \in live : SameKeys(t) /\ trace'[t].count = trace[t].count,
           job.caller = "gone" /\ pc' \in {"begin", "round"} =>
              trace'[job.t].offset + job'.remain = size'[trace[job.t].ino],
           job.caller = "gone" /\ pc' = "recheck" => trace'[job.t].offset = size'[trace[job.t].ino]
    PROVE  CheckOK'
<1>1. Line' = Line /\ job.t \in live
  BY CheckedTrace DEF Line
<1>2. Doomed(job.t) => Doomed(job.t)'
  BY <1>1 DEF Doomed, SameKeys, Named, Spots, IsEvent
<1>3. Ending(job.t) => Ending(job.t)'
  BY <1>1 DEF Ending, SameKeys, Named, Checking
<1>4. pc' \in Checking /\ pc' # "watch"
  BY DEF Checking
<1> QED BY <1>1, <1>2, <1>3, <1>4 DEF Good, CalmInv, CheckOK, SameKeys

LEMMA CalmParts ==
    ASSUME Shape', CheckOK', GotOK', AtMostOnce', WakeUpPending', pc' # "dead"
    PROVE  CalmInv'
BY DEF Shape, CalmInv

\* CheckFileOffset is done, and the trace stays.
LEMMA ReturnStays ==
    ASSUME Good, IInv', pc \in Checking, pc # "watch", NEW tr, Return(TRUE, tr, watch),
           UNCHANGED <<queue, got, twice>>,
           ~Removes(TRUE),
           \A t \in live : /\ tr[t].ino = trace[t].ino /\ tr[t].path = trace[t].path
                           /\ tr[t].wd = trace[t].wd /\ tr[t].offset = trace[t].offset
                           /\ t # job.t => tr[t] = trace[t],
           trace[job.t].offset = size[trace[job.t].ino]
    PROVE  CalmInv'
<1>1. /\ live' = live /\ trace' = tr /\ watch' = watch /\ batch' = batch /\ job' = NoJob
      /\ pc' = (IF job.caller = "load" THEN "load" ELSE "loop")
      /\ UNCHANGED <<dir, born, size, todo, full, moved>>
  BY DEF Return
<1>2. Line' = Line /\ job'.t = 0 /\ job'.caller = "none" /\ pc' \notin Checking /\ pc' # "dead"
  BY <1>1 DEF Line, NoJob, Checking
<1>3. \A t \in live : SameKeys(t) /\ SameCourse(t)
  <2> SUFFICES ASSUME NEW t \in live PROVE SameKeys(t) /\ SameCourse(t)
    OBVIOUS
  <2>1. SameKeys(t)
    BY <1>1 DEF SameKeys
  <2>2. Moving(t) => t # job.t
    BY CheckedTrace
  <2>3. ~Ending(t)
    BY DEF Removes, Ending
  <2> QED BY <1>1, <1>2, <2>1, <2>2, <2>3, TraceFacts DEF SameCourse
<1>4. todo # {} => pc' = "load"
  BY <1>1, CheckedTrace DEF Good, CalmInv, TodoOK
<1>5. Inside
  BY <1>1, <1>2, <1>3, <1>4, SplitKept, CheckedTrace, LineFacts DEF Inside, Checking
<1>6. Shape'
  BY <1>2, <1>5, InsideShape
<1>7. WakeUpPending'
  BY <1>1, <1>5, InsideWake
<1>8. GotOK' /\ AtMostOnce'
  <2>1. \A i : Traced(i)' <=> Traced(i)
    BY <1>1, <1>3, TracedKept
  <2> QED BY <1>1, <2>1, GotKept
<1>9. CheckOK'
  BY <1>1, <1>2 DEF CheckOK, Checking
<1> QED BY <1>2, <1>6, <1>7, <1>8, <1>9, CalmParts

LEMMA ShrinkTraced ==
    ASSUME live' \subseteq live, \A u \in live' : trace'[u] = trace[u]
    PROVE  /\ \A i : Traced(i)' => Traced(i)
           /\ \A n : TraceAt(n)' \subseteq TraceAt(n)
<1>1. \A i : Traced(i)' => Traced(i)
  BY DEF Traced
<1>2. ASSUME NEW n PROVE TraceAt(n)' \subseteq TraceAt(n)
  BY DEF TraceAt
<1> QED BY <1>1, <1>2

\* CheckFileOffset is done, and the trace of a file that has left is dropped,
\* with nothing left to read.
LEMMA ReturnDrops ==
    ASSUME Good, IInv', pc \in Checking, pc # "watch", NEW tr, Return(TRUE, tr, watch),
           UNCHANGED <<queue, got, twice>>,
           Removes(TRUE),
           \A t \in live : /\ t # job.t => tr[t] = trace[t]
                           /\ tr[t].wd = trace[t].wd
    PROVE  CalmInv'
<1> DEFINE d == job.t
<1>1. /\ live' = live \ {d} /\ trace' = [tr EXCEPT ![d] = Blank]
      /\ watch' = Disarmed(watch, trace[d].wd) /\ batch' = batch /\ job' = NoJob
      /\ pc' = (IF job.caller = "load" THEN "load" ELSE "loop")
      /\ UNCHANGED <<dir, born, size, todo, full, moved>>
  BY CheckedTrace DEF Return
<1>2. Line' = Line /\ job'.t = 0 /\ job'.caller = "none" /\ pc' \notin Checking /\ pc' # "dead"
  BY <1>1 DEF Line, NoJob, Checking
<1>3. d \in live /\ ~Named(trace[d].ino) /\ job.caller \in {"gone", "lost", "delete"} /\ moved = {}
  BY CheckedTrace, CheckedPhase DEF Removes
<1>4. \A t \in live' : t \in live /\ t # d /\ trace'[t] = trace[t]
  BY <1>1 DEF Good, IInv, TypeOK
<1>5. \A t \in live' : SameKeys(t) /\ SameCourse(t)
  <2> SUFFICES ASSUME NEW t \in live' PROVE SameKeys(t) /\ SameCourse(t)
    OBVIOUS
  <2>1. ~Ending(t) /\ job'.t # t
    BY <1>2, <1>4, TraceFacts DEF Ending
  <2> QED BY <1>4, <2>1 DEF SameCourse, SameKeys
<1>6. /\ \A i : Traced(i)' => Traced(i)
      /\ \A n : TraceAt(n)' \subseteq TraceAt(n)
  BY <1>1, <1>4, ShrinkTraced
<1>7. \A n \in Names : dir[n] # NoInode => (Traced(dir[n])' <=> Traced(dir[n]))
  BY <1>1, <1>3, <1>4, <1>6 DEF Traced, Named
<1>8. Phases'
  BY <1>1, <1>2, <1>4, <1>5, PhaseKept DEF Phases, Good, CalmInv
<1>9. EventsOK'
  <2> SUFFICES ASSUME NEW k \in Spots PROVE CreateOK(k)' /\ FromOK(k)' /\ ToOK(k)'
    BY <1>2 DEF EventsOK, Spots
  <2>1. CreateOK(k) /\ FromOK(k) /\ ToOK(k)
    BY DEF Good, CalmInv, EventsOK
  <2>2. CreateOK(k)'
    BY <1>1, <1>2, <1>6, <2>1 DEF CreateOK, IsEvent, Spots
  <2>3. FromOK(k)'
    BY <1>2, <2>1 DEF FromOK, IsEvent, Spots
  <2>4. ToOK(k)'
    <3>1. \A t : ~Arrives(t)
      BY <1>3 DEF Arrives
    <3>2. ASSUME IsEvent(k, "MOVED_TO"), NEW n, n = Line[k].name PROVE TraceAt(n)' = {}
      BY <1>6, <2>1, <3>1, <3>2 DEF ToOK
    <3> QED BY <1>1, <1>2, <2>1, <3>2 DEF ToOK, IsEvent, Spots
  <2> QED BY <2>2, <2>3, <2>4
<1>10. MovedOK'
  BY <1>1, <1>3 DEF MovedOK
<1>11. DirOK'
  BY <1>1, <1>4 DEF Good, CalmInv, DirOK
<1>12. TodoOK'
  <2>1. todo # {} => pc' = "load"
    BY <1>1, CheckedTrace DEF Good, CalmInv, TodoOK
  <2>2. \A n : Quiet(n)' <=> Quiet(n)
    BY <1>2 DEF Quiet, Spots
  <2> QED BY <1>1, <1>6, <2>1, <2>2 DEF Good, CalmInv, TodoOK
<1>13. WatchOK'
  <2>1. \A w : FileAwaited(w)' <=> FileAwaited(w)
    BY <1>2, AwaitedKept DEF Good
  <2>2. \A i \in Inodes : watch'[i] # NoWd => watch'[i] = watch[i] /\ watch[i] # trace[d].wd
    BY <1>1 DEF Disarmed
  <2>3. \A t \in live' : (Doomed(t) => Doomed(t)') /\ (Ending(t) => Ending(t)')
    <3> SUFFICES ASSUME NEW t \in live' PROVE (Doomed(t) => Doomed(t)') /\ (Ending(t) => Ending(t)')
      OBVIOUS
    <3>1. Named(trace[t].ino)' <=> Named(trace[t].ino)
      BY <1>1, <1>4 DEF Named
    <3> QED BY <1>1, <1>2, <1>4, <1>5, <3>1 DEF Doomed, Ending, SameCourse, Spots, IsEvent
  <2>4. ASSUME NEW i \in Inodes, watch'[i] # NoWd
        PROVE  \E t \in live' :
                  /\ trace'[t].wd = watch'[i]
                  /\ trace'[t].ino = i
                     \/ (dir[trace'[t].path] = i /\ (Doomed(t)' \/ Ending(t)'))
    <3>1. PICK t \in live :
             /\ trace[t].wd = watch[i]
             /\ trace[t].ino = i \/ (dir[trace[t].path] = i /\ (Doomed(t) \/ Ending(t)))
      BY <2>2, <2>4 DEF Good, CalmInv, WatchOK
    <3>2. t \in live'
      BY <1>1, <2>2, <2>4, <3>1
    <3> QED BY <1>4, <2>2, <2>3, <2>4, <3>1, <3>2
  <2>5. ASSUME NEW t \in live'
        PROVE  /\ trace'[t].wd # NoWd
               /\ Named(trace[t].ino) =>
                    watch'[trace[t].ino] = trace[t].wd \/ FileAwaited(trace[t].wd)
    <3>1. t \in live /\ t # d /\ trace'[t] = trace[t]
      BY <1>4
    <3>2. /\ trace[t].wd # NoWd
          /\ Named(trace[t].ino) =>
                    watch[trace[t].ino] = trace[t].wd \/ FileAwaited(trace[t].wd)
      BY <3>1 DEF Good, CalmInv, WatchOK
    <3>3. trace[t].wd # trace[d].wd
      BY <1>3, <3>1, <3>2 DEF Good, IndexUnique
    <3> QED BY <1>1, <3>1, <3>2, <3>3, TraceFacts DEF Disarmed
  <2>6. \A i : Named(i)' <=> Named(i)
    BY <1>1 DEF Named
  <2>7. \A i \in Inodes : watch'[i] # NoWd => ~FileAwaited(watch'[i])
    BY <2>2 DEF Good, CalmInv, WatchOK
  <2>8. \A i, j \in Inodes : watch'[i] = watch'[j] /\ watch'[i] # NoWd => i = j
    BY <2>2 DEF Good, CalmInv, WatchOK
  <2>9. \A t \in live' : trace'[t] = trace[t]
    BY <1>4
  <2> QED BY <1>1, <1>2, <2>1, <2>4, <2>5, <2>6, <2>7, <2>8, <2>9 DEF WatchOK
<1>14. Covered'
  <2>1. \A mask, n : Awaited(mask, n)' <=> Awaited(mask, n)
    BY <1>2, AwaitedKept DEF Good
  <2>2. \A n \in Names, t \in live : dir[n] # NoInode /\ trace[t].ino = dir[n] => t \in live'
    BY <1>1, <1>3 DEF Named
  <2> QED BY <1>1, <1>4, <2>1, <2>2 DEF Good, CalmInv, Covered
<1>15. WakeUpPending'
  <2> SUFFICES ASSUME NEW t \in live', size[trace[t].ino] > trace[t].offset
               PROVE  Awakened(t)'
    BY <1>1, <1>4, WakeIsLineNext DEF AllAwakened
  <2>1. t \in live \ {d} /\ trace'[t] = trace[t]
    BY <1>4
  <2>2. Awakened(t)
    BY <2>1, WakeIsLine DEF Good, CalmInv, AllAwakened
  <2> QED BY <1>1, <1>2, <2>1, <2>2 DEF Awakened, Spots, IsEvent
<1>16. GotOK' /\ AtMostOnce'
  BY <1>1, <1>4, <1>7 DEF Good, CalmInv, GotOK, AtMostOnce
<1>17. CheckOK'
  BY <1>1, <1>2 DEF CheckOK, Checking
<1> QED
  BY <1>2, <1>8, <1>9, <1>10, <1>11, <1>12, <1>13, <1>14, <1>15, <1>16, <1>17, CalmParts DEF Shape

-----------------------------------------------------------------------------
(* A watched file changes *)

\* The one-shot watch of i makes an event, and nothing else changes that
\* matters to the directory and the trees.
Notified(i) ==
    /\ watch[i] # NoWd
    /\ watch' = [watch EXCEPT ![i] = NoWd]
    /\ Pushed(FileEvent(watch[i])) /\ batch' = batch
    /\ UNCHANGED <<dir, born, moved, todo, live>>
    /\ \A t \in live : SameKeys(t) /\ SameCourse(t)
    /\ \A t \in live : pc = "watch" /\ t = job.t => pc' = "watch" /\ t = job'.t
    /\ moved # {} => pc' = "loop"
    /\ todo # {} => pc' = "load" \/ job'.caller = "load"

\* A file event on the line is of no name.
LEMMA FilePushed ==
    ASSUME IInv, NEW w, Pushed(FileEvent(w))
    PROVE  /\ Spots' = Spots \cup {Len(Line) + 1} /\ Len(Line) + 1 \notin Spots
           /\ \A k \in Spots' : (k \in Spots /\ Line'[k] = Line[k])
                                \/ (k = Len(Line) + 1 /\ Line'[k] = FileEvent(w))
           /\ \A n \in Names : Quiet(n)' <=> Quiet(n)
<1>1. Len(Line) \in Nat
  BY LineFacts
<1>2. Spots' = Spots \cup {Len(Line) + 1} /\ Len(Line) + 1 \notin Spots
  BY <1>1 DEF Pushed, Spots
<1>3. \A k \in Spots' : (k \in Spots /\ Line'[k] = Line[k])
                        \/ (k = Len(Line) + 1 /\ Line'[k] = FileEvent(w))
  BY <1>2 DEF Pushed
<1>4. \A n \in Names : FileEvent(w).name # n
  BY DirAssumption DEF FileEvent
<1>5. \A n \in Names : Quiet(n)' <=> Quiet(n)
  BY <1>2, <1>3, <1>4 DEF Quiet
<1> QED BY <1>2, <1>3, <1>5

LEMMA NotifiedShape ==
    ASSUME Good, IInv', NEW i \in Inodes, Notified(i), pc' # "dead"
    PROVE  Shape'
<1> DEFINE w == watch[i]
           new == Len(Line) + 1
<1>1. \A t \in live : SameKeys(t) /\ SameCourse(t)
  BY DEF Notified
<1>2. UNCHANGED <<dir, born, moved, todo, live, batch>>
  BY DEF Notified
<1>3. /\ Spots' = Spots \cup {new} /\ new \notin Spots
      /\ \A k \in Spots' : (k \in Spots /\ Line'[k] = Line[k])
                           \/ (k = new /\ Line'[k] = FileEvent(w))
      /\ \A n \in Names : Quiet(n)' <=> Quiet(n)
  BY FilePushed DEF Notified, Good
<1>4. /\ \A j : Traced(j)' <=> Traced(j)
      /\ \A n : TraceAt(n)' = TraceAt(n)
      /\ \A j : Named(j)' <=> Named(j)
  BY <1>1, <1>2, TracedKept DEF Named
<1>5. /\ \A v : FileAwaited(v)' <=> FileAwaited(v) \/ v = w
      /\ \A mask, n : n \in Names => (Awaited(mask, n)' <=> Awaited(mask, n))
  <2>1. OnLine /\ OnLine'
    BY PendingIsLine, OnLineNext DEF Good
  <2>2. FileEvent(w).mask = "FILE" /\ FileEvent(w).wd = w /\ FileEvent(w).name \notin Names
    BY DirAssumption DEF FileEvent
  <2>3. \A v : FileAwaited(v)' <=> FileAwaited(v) \/ v = w
    BY <1>3, <2>1, <2>2 DEF OnLine, IsEvent
  <2>4. \A mask, n : n \in Names => (Awaited(mask, n)' <=> Awaited(mask, n))
    BY <1>3, <2>1, <2>2 DEF OnLine, IsEvent
  <2> QED BY <2>3, <2>4
<1>6. 1 \in Spots => Line'[1] = Line[1] /\ Line' # <<>>
  BY <1>3, LineFacts, LineFactsNext DEF Good, Spots
<1>7. \A t : Arrives(t) => 1 \in Spots
  BY LineFacts DEF Arrives, Spots, Good
<1>8. \A t \in live : Arrives(t) => Arrives(t)'
  BY <1>1, <1>2, <1>6, <1>7 DEF SameKeys, Arrives, IsEvent
<1>9. ASSUME NEW t \in live, NEW k \in Spots, Leaves(t, k) PROVE Leaves(t, k)'
  <2>1. k + 1 \in Spots /\ Line'[k + 1] = Line[k + 1] /\ Line'[k] = Line[k]
    BY <1>3, <1>9 DEF Leaves, Good, CalmInv, EventsOK, FromOK
  <2>2. \A j \in 1 .. k - 1 : j \in Spots /\ Line'[j] = Line[j]
    BY <1>3, LineFacts DEF Spots, Good
  <2>3. FileEvent(w).name # trace[t].path
    BY TraceFacts, DirAssumption DEF FileEvent
  <2> QED BY <1>1, <1>2, <1>3, <1>9, <2>1, <2>2, <2>3 DEF SameKeys, Leaves, IsEvent, FileEvent
<1>10. \A t \in live : (Home(t) => Home(t)') /\ (Doomed(t) => Doomed(t)')
                       /\ (Ending(t) => Ending(t)') /\ (Moving(t) => Moving(t)')
  <2> SUFFICES ASSUME NEW t \in live
               PROVE (Home(t) => Home(t)') /\ (Doomed(t) => Doomed(t)')
                     /\ (Ending(t) => Ending(t)') /\ (Moving(t) => Moving(t)')
    OBVIOUS
  <2>0. SameKeys(t) /\ SameCourse(t) /\ (Named(trace[t].ino)' <=> Named(trace[t].ino))
    BY <1>1, <1>2 DEF SameKeys, Named
  <2>1. Home(t) => Home(t)'
    BY <1>2, <1>3, <2>0, TraceFacts DEF SameKeys, Home
  <2>2. Doomed(t) => Doomed(t)'
    BY <1>3, <2>0 DEF SameKeys, Doomed, IsEvent
  <2>3. Ending(t) => Ending(t)'
    BY <2>0 DEF SameCourse, SameKeys, Ending
  <2>4. Moving(t) => Moving(t)'
    BY <1>3, <1>8, <1>9, <2>0 DEF SameCourse, Moving
  <2> QED BY <2>1, <2>2, <2>3, <2>4
<1>11. Phases'
  BY <1>2, <1>10 DEF Phases, Good, CalmInv
<1>12. EventsOK'
  <2>1. ASSUME NEW k \in Spots PROVE CreateOK(k)' /\ FromOK(k)' /\ ToOK(k)'
    <3>1. CreateOK(k) /\ FromOK(k) /\ ToOK(k)
      BY DEF Good, CalmInv, EventsOK
    <3>2. Line'[k] = Line[k] /\ k \in Spots'
      BY <1>3
    <3>3. FileEvent(w).name \notin Names /\ FileEvent(w).mask = "FILE"
      BY DirAssumption DEF FileEvent
    <3>4. IsEvent(k, "CREATE") \/ IsEvent(k, "MOVED_TO") => Line[k].name \in Names
      BY EventFacts DEF IsEvent, Good
    <3>5. CreateOK(k)'
      BY <1>2, <1>3, <1>4, <3>1, <3>2, <3>3, <3>4 DEF CreateOK, IsEvent
    <3>6. FromOK(k)'
      BY <1>3, <3>1, <3>2 DEF FromOK, IsEvent
    <3>7. ToOK(k)'
      <4> SUFFICES ASSUME IsEvent(k, "MOVED_TO") PROVE ToOK(k)'
        BY <3>2 DEF ToOK, IsEvent
      <4>1. \A t \in TraceAt(Line[k].name) : k > 1 /\ Arrives(t)'
        BY <1>8, <3>1 DEF ToOK, TraceAt
      <4>2. \A j \in Spots' : Line'[j].name = Line'[k].name => j = k
        BY <1>3, <3>1, <3>2, <3>3, <3>4 DEF ToOK
      <4> QED BY <1>2, <1>4, <3>1, <3>2, <4>1, <4>2 DEF ToOK, IsEvent
    <3> QED BY <3>5, <3>6, <3>7
  <2>2. ASSUME NEW k, k = new PROVE CreateOK(k)' /\ FromOK(k)' /\ ToOK(k)'
    BY <1>3, <2>2 DEF CreateOK, FromOK, ToOK, IsEvent, FileEvent, Notified, Pushed
  <2> QED BY <1>3, <2>1, <2>2 DEF EventsOK
<1>13. MovedOK'
  BY <1>2, <1>3, <1>6, LineFacts, SMTT(30) DEF Good, CalmInv, MovedOK, Notified, IsEvent, Spots
<1>14. DirOK'
  BY <1>1, <1>2 DEF Good, CalmInv, DirOK, SameKeys
<1>15. TodoOK'
  <2>1. todo \subseteq Names
    BY DEF Good, IInv, TypeOK
  <2> QED BY <1>2, <1>3, <1>4, <2>1 DEF Good, CalmInv, TodoOK, Notified
<1>16. /\ watch' = [watch EXCEPT ![i] = NoWd] /\ w # NoWd
       /\ \A j \in Inodes : watch'[j] = IF j = i THEN NoWd ELSE watch[j]
  BY DEF Notified, Good, IInv, TypeOK
<1>17. WatchOK'
  <2>1. \A j \in Inodes : watch'[j] # NoWd => watch'[j] = watch[j] /\ watch[j] # w
    BY <1>16 DEF Good, CalmInv, WatchOK
  <2>2. \A j \in Inodes : watch'[j] # NoWd => ~FileAwaited(watch'[j]) /\ watch'[j] # w
    BY <2>1 DEF Good, CalmInv, WatchOK
  <2>3. \A j, k \in Inodes : watch'[j] = watch'[k] /\ watch'[j] # NoWd => j = k
    BY <2>1 DEF Good, CalmInv, WatchOK
  <2>4. ASSUME NEW j \in Inodes, watch'[j] # NoWd
        PROVE  \E t \in live' :
                  /\ trace'[t].wd = watch'[j]
                  /\ trace'[t].ino = j
                     \/ (dir'[trace'[t].path] = j /\ (Doomed(t)' \/ Ending(t)'))
    BY <1>1, <1>2, <1>10, <2>1, <2>4 DEF Good, CalmInv, WatchOK, SameKeys
  <2>5. ASSUME NEW t \in live, pc' = "watch" => t # job'.t
        PROVE  /\ trace'[t].wd # NoWd
               /\ Named(trace'[t].ino) =>
                    \/ watch'[trace'[t].ino] = trace'[t].wd
                    \/ FileAwaited(trace'[t].wd) \/ trace'[t].wd = w
    <3>1. SameKeys(t) /\ trace[t].ino \in Inodes
      BY <1>1, TraceFacts
    <3>2. /\ trace[t].wd # NoWd
          /\ Named(trace[t].ino) =>
                    watch[trace[t].ino] = trace[t].wd \/ FileAwaited(trace[t].wd)
      BY <2>5 DEF Good, CalmInv, WatchOK, Notified
    <3> QED BY <1>16, <3>1, <3>2 DEF SameKeys
  <2> QED BY <1>2, <1>4, <1>5, <2>2, <2>3, <2>4, <2>5 DEF WatchOK
<1>18. Covered'
  BY <1>1, <1>2, <1>5 DEF Good, CalmInv, Covered, SameKeys
<1> QED BY <1>11, <1>12, <1>13, <1>14, <1>15, <1>17, <1>18 DEF Shape

\* A trace is told of by an event or by a watch that is still armed.
LEMMA TraceTold ==
    ASSUME Good, NEW t \in live, pc = "watch" => t # job.t, ~Ending(t)
    PROVE  Awakened(t) \/ (Named(trace[t].ino) /\ watch[trace[t].ino] = trace[t].wd
                           /\ trace[t].wd # NoWd)
<1>1. CASE Named(trace[t].ino)
  <2>1. /\ trace[t].wd # NoWd
        /\ watch[trace[t].ino] = trace[t].wd \/ FileAwaited(trace[t].wd)
    BY <1>1 DEF Good, CalmInv, WatchOK
  <2>2. OnLine
    BY PendingIsLine DEF Good
  <2> QED BY <1>1, <2>1, <2>2 DEF OnLine, Awakened
<1>2. CASE ~Named(trace[t].ino)
  BY <1>2, NamedPhase DEF Doomed, Awakened
<1> QED BY <1>1, <1>2

\* What wakes a trace up stays on the line when an event is added.
LEMMA AwakenedPushed ==
    ASSUME IInv, NEW t, NEW w, Pushed(FileEvent(w)), SameKeys(t), moved' = moved,
           trace'[t].count = trace[t].count,
           Awakened(t) \/ trace[t].wd = w
    PROVE  Awakened(t)'
<1>1. /\ Spots' = Spots \cup {Len(Line) + 1}
      /\ \A k \in Spots : Line'[k] = Line[k]
      /\ Line'[Len(Line) + 1] = FileEvent(w)
  BY FilePushed DEF Pushed
<1>2. CASE trace[t].wd = w
  BY <1>1, <1>2 DEF Awakened, IsEvent, FileEvent, SameKeys
<1>3. CASE Awakened(t)
  BY <1>1, <1>3 DEF Awakened, IsEvent, SameKeys
<1> QED BY <1>2, <1>3

\* Shape is about these variables.
LEMMA ShapeKept ==
    ASSUME Shape, UNCHANGED <<dir, born, watch, queue, pc, todo, batch, live, trace, moved, job>>
    PROVE  Shape'
<1>1. Line' = Line /\ Spots' = Spots
  BY DEF Line, Spots
<1>2. /\ \A n : TraceAt(n)' = TraceAt(n)
      /\ \A i : Traced(i)' <=> Traced(i)
      /\ \A i : Named(i)' <=> Named(i)
      /\ \A n : Quiet(n)' <=> Quiet(n)
      /\ \A k, mask : IsEvent(k, mask)' <=> IsEvent(k, mask)
      /\ \A w : FileAwaited(w)' <=> FileAwaited(w)
      /\ \A mask, n : Awaited(mask, n)' <=> Awaited(mask, n)
  BY <1>1 DEF TraceAt, Traced, Named, Quiet, IsEvent, FileAwaited, Awaited, Pending
<1>3. /\ \A t : Home(t)' <=> Home(t)
      /\ \A t : Doomed(t)' <=> Doomed(t)
      /\ \A t : Ending(t)' <=> Ending(t)
  BY <1>1, <1>2 DEF Home, Doomed, Ending
<1>4. /\ \A t : Arrives(t)' <=> Arrives(t)
      /\ \A t, k : Leaves(t, k)' <=> Leaves(t, k)
  BY <1>1, <1>2 DEF Arrives, Leaves
<1>5. \A t : Moving(t)' <=> Moving(t)
  BY <1>1, <1>4 DEF Moving
<1>6. Phases'
  BY <1>3, <1>5 DEF Shape, Phases
<1>7. EventsOK'
  <2>1. \A k : (CreateOK(k)' <=> CreateOK(k)) /\ (FromOK(k)' <=> FromOK(k))
    BY <1>1, <1>2 DEF CreateOK, FromOK
  <2>2. \A k : ToOK(k)' <=> ToOK(k)
    BY <1>1, <1>2, <1>4 DEF ToOK
  <2> QED BY <1>1, <2>1, <2>2 DEF Shape, EventsOK
<1>8. MovedOK' /\ DirOK'
  BY <1>1, <1>2 DEF Shape, MovedOK, DirOK
<1>9. TodoOK'
  BY <1>2 DEF Shape, TodoOK
<1>10. WatchOK'
  BY <1>2, <1>3 DEF Shape, WatchOK
<1>11. Covered'
  BY <1>2 DEF Shape, Covered
<1> QED BY <1>6, <1>7, <1>8, <1>9, <1>10, <1>11 DEF Shape

\* An application writes to a file, or closes it.
LEMMA NotifyStep ==
    ASSUME Good, IInv', Room, UNCHANGED workerVars, UNCHANGED <<dir, born>>,
           NEW i \in Inodes, Notify(i),
           size' = size \/ (Named(i) /\ size' = [size EXCEPT ![i] = @ + 1])
    PROVE  CalmInv'
<1>1. UNCHANGED <<pc, todo, full, batch, live, trace, moved, job, got, twice>> /\ pc # "dead"
  BY DEF workerVars, Good, CalmInv
<1>2. \A t \in live : SameKeys(t) /\ SameCourse(t)
  BY <1>1 DEF SameKeys, SameCourse, Moving, Ending
<1>3. todo # {} => pc = "load" \/ job.caller = "load"
  BY DEF Good, CalmInv, TodoOK
<1>4. moved # {} => pc = "loop"
  BY DEF Good, CalmInv, MovedOK
<1>5. watch[i] # NoWd => Notified(i)
  <2> SUFFICES ASSUME watch[i] # NoWd PROVE Notified(i)
    OBVIOUS
  <2>1. FileEvent(watch[i]) \in Event
    BY FileEventType DEF Good, IInv, TypeOK
  <2>2. queue' = Enqueue(queue, FileEvent(watch[i])) /\ watch' = [watch EXCEPT ![i] = NoWd]
    BY DEF Notify
  <2>3. Pushed(FileEvent(watch[i]))
    BY <1>1, <2>1, <2>2, PushFacts DEF Good
  <2> QED BY <1>1, <1>2, <1>3, <1>4, <2>2, <2>3 DEF Notified
<1>6. watch[i] = NoWd => UNCHANGED <<watch, queue>>
  BY DEF Notify
<1>7. Shape'
  <2>1. CASE watch[i] # NoWd
    BY <1>1, <1>5, <2>1, NotifiedShape
  <2>2. CASE watch[i] = NoWd
    BY <1>1, <1>6, <2>2, ShapeKept DEF Good, CalmInv, Shape
  <2> QED BY <2>1, <2>2
<1>8. \A j \in Inodes : /\ size[j] \in Nat /\ size'[j] >= size[j] /\ size'[j] \in Nat
                        /\ size'[j] # size[j] => j = i /\ Named(i)
  BY DirAssumption DEF Good, IInv, TypeOK
<1>9. WakeUpPending'
  <2> SUFFICES ASSUME NEW t \in live, t # job.t, size'[trace[t].ino] > trace[t].offset
               PROVE  Awakened(t)'
    BY <1>1, WakeIsLineNext DEF AllAwakened
  <2>1. Awakened(t) \/ (trace[t].ino = i /\ watch[i] = trace[t].wd /\ watch[i] # NoWd)
    <3>1. CASE size'[trace[t].ino] = size[trace[t].ino]
      BY <3>1, WakeIsLine DEF Good, CalmInv, AllAwakened
    <3>2. CASE size'[trace[t].ino] # size[trace[t].ino]
      BY <1>8, <3>2, TraceFacts, TraceTold DEF Ending
    <3> QED BY <3>1, <3>2
  <2>2. SameKeys(t)
    BY <1>2
  <2>3. CASE watch[i] # NoWd
    BY <1>1, <1>5, <2>1, <2>2, <2>3, AwakenedPushed DEF Notified, Good
  <2>4. CASE watch[i] = NoWd
    BY <1>1, <1>6, <2>1, <2>4 DEF Awakened, Line, Spots, IsEvent
  <2> QED BY <2>3, <2>4
<1>10. GotOK' /\ AtMostOnce'
  <2>1. /\ \A j \in Inodes : got[j] \subseteq 1 .. size'[j]
        /\ \A t \in live : trace[t].offset <= size'[trace[t].ino]
    BY <1>8, TraceFacts DEF Good, CalmInv, GotOK
  <2>2. \A j : Traced(j)' <=> Traced(j)
    BY <1>1 DEF Traced
  <2> QED BY <1>1, <2>1, <2>2 DEF Good, CalmInv, GotOK, AtMostOnce
<1>11. CheckOK'
  <2>1. job.caller = "gone" /\ pc \in Checking => size'[trace[job.t].ino] = size[trace[job.t].ino]
    BY <1>8, CheckedTrace, CheckedPhase, TraceFacts
  <2>2. \A t \in live : Named(trace[t].ino)' <=> Named(trace[t].ino)
    BY <1>1 DEF Named
  <2>3. \A t \in live : Home(t) => Home(t)'
    <3>1. CASE watch[i] # NoWd
      BY <1>1, <1>5, <3>1, FilePushed, TraceFacts DEF Home, Notified, Good
    <3>2. CASE watch[i] = NoWd
      BY <1>1, <1>6, <3>2 DEF Home, Quiet, Line, Spots
    <3> QED BY <3>1, <3>2
  <2>4. \A t \in live : Doomed(t) => Doomed(t)'
    <3>1. CASE watch[i] # NoWd
      BY <1>1, <1>5, <2>2, <3>1, FilePushed DEF Doomed, IsEvent, Notified, Good
    <3>2. CASE watch[i] = NoWd
      BY <1>1, <1>6, <2>2, <3>2 DEF Doomed, IsEvent, Line, Spots
    <3> QED BY <3>1, <3>2
  <2>5. \A t \in live : Ending(t) => Ending(t)'
    BY <1>1, <2>2 DEF Ending
  <2>6. job.caller \in {"gone", "lost", "delete"} => pc \in Checking
    BY DEF Good, CalmInv, CheckOK, NoJob
  <2>7. pc \in Checking => job.t \in live
    BY CheckedTrace
  <2>8. pc = "watch" => pc \in Checking
    BY DEF Checking
  <2>9. pc \in {"begin", "round", "recheck"} => pc \in Checking
    BY DEF Checking
  <2>10. CheckOK
    BY DEF Good, CalmInv
  <2> QED BY <1>1, <2>1, <2>3, <2>4, <2>5, <2>6, <2>7, <2>8, <2>9, <2>10 DEF CheckOK
<1> QED BY <1>1, <1>7, <1>9, <1>10, <1>11, CalmParts

-----------------------------------------------------------------------------
(* The steps of CheckFileOffset *)

\* A step that only moves the check on.
LEMMA CheckOnward ==
    ASSUME Good, IInv', pc \in Checking, pc # "watch", pc' \in {"begin", "round", "recheck"},
           job'.t = job.t, job'.caller = job.caller,
           UNCHANGED <<dir, born, size, watch, queue, todo, batch, live, trace, moved, got, twice>>,
           job.caller = "gone" /\ pc' \in {"begin", "round"} =>
              trace[job.t].offset + job'.remain = size[trace[job.t].ino],
           job.caller = "gone" /\ pc' = "recheck" => trace[job.t].offset = size[trace[job.t].ino]
    PROVE  CalmInv'
<1>1. \A t \in live : SameKeys(t) /\ trace'[t].count = trace[t].count
                      /\ trace'[t].offset = trace[t].offset
  BY DEF SameKeys
<1>2. Inside /\ Shape'
  BY <1>1, CheckGoesOn
<1>3. CheckOK'
  BY <1>1, CheckGoesOnJob
<1>4. WakeUpPending'
  BY <1>1, <1>2, InsideWake
<1>5. GotOK' /\ AtMostOnce'
  <2>1. \A i : Traced(i)' <=> Traced(i)
    BY DEF Traced
  <2> QED BY <1>1, <2>1, GotKept
<1> QED BY <1>2, <1>3, <1>4, <1>5, CalmParts

LEMMA CheckSizeCalm == ASSUME Good, IInv', CheckSize PROVE CalmInv'
<1> DEFINE t == job.t
           f == trace[t]
           tr == [trace EXCEPT ![t].count = NextCount(f.count)]
<1>1. pc \in Checking /\ pc = "check" /\ t \in live /\ f.offset <= size[f.ino] /\ f.offset \in Nat
      /\ size[f.ino] \in Nat
  BY CheckedTrace, TraceFacts DEF CheckSize, Checking
<1>2. CASE /\ size[f.ino] = f.offset
           /\ Return(TRUE, tr, watch)
           /\ UNCHANGED <<queue, got, twice>>
  <2>1. Return(TRUE, tr, watch) /\ UNCHANGED <<queue, got, twice>>
    BY <1>2
  <2>2. /\ \A u \in live : /\ tr[u].ino = trace[u].ino /\ tr[u].path = trace[u].path
                           /\ tr[u].wd = trace[u].wd /\ tr[u].offset = trace[u].offset
                           /\ u # t => tr[u] = trace[u]
    BY TraceFacts DEF Good, IInv, TypeOK, TraceFile
  <2>3. CASE Removes(TRUE)
    BY <1>1, <2>1, <2>2, <2>3, ReturnDrops
  <2>4. CASE ~Removes(TRUE)
    BY <1>1, <1>2, <2>1, <2>2, <2>4, ReturnStays
  <2> QED BY <2>3, <2>4
<1>3. CASE /\ size[f.ino] > f.offset
           /\ job' = [job EXCEPT !.remain = size[f.ino] - f.offset]
           /\ pc' = "begin"
           /\ UNCHANGED <<dir, born, size, watch, queue, todo, full, batch, live, trace, moved,
                          got, twice>>
  <2>2. job'.t = job.t /\ job'.caller = job.caller /\ f.offset + job'.remain = size[f.ino]
    BY <1>1, <1>3, CheckedTrace DEF Job
  <2> QED BY <1>1, <1>3, <2>2, CheckOnward
<1>4. ~(size[f.ino] < f.offset)
  BY <1>1
<1> QED BY <1>2, <1>3, <1>4 DEF CheckSize

LEMMA BeginRoundCalm == ASSUME Good, IInv', BeginRound PROVE CalmInv'
<1>1. job.caller = "gone" => trace[job.t].offset + job.remain = size[trace[job.t].ino]
  BY DEF BeginRound, Good, CalmInv, CheckOK
<1> QED BY <1>1, CheckOnward DEF BeginRound, Checking

LEMMA EndRoundCalm == ASSUME Good, IInv', EndRound PROVE CalmInv'
<1>1. job.caller = "gone" => trace[job.t].offset + job.remain = size[trace[job.t].ino]
  BY DEF EndRound, Good, CalmInv, CheckOK
<1>2. job.caller = "gone" => trace[job.t].offset = size[trace[job.t].ino]
  BY <1>1, CheckedTrace, TraceFacts DEF EndRound, MoreToRead, Checking
<1> QED BY <1>2, CheckOnward DEF EndRound, Checking

\* A block is read for the first time, as what was handed over before lies
\* before trace_offset.
LEMMA WriteBlockCalm == ASSUME Good, IInv', WriteBlock PROVE CalmInv'
<1> DEFINE t == job.t
           i == trace[t].ino
           p == trace[t].offset + 1
<1>1. /\ pc = "round" /\ pc' = "round" /\ pc \in Checking /\ t \in live
      /\ job.remain > 0 /\ trace[t].offset < size[i]
      /\ trace' = [trace EXCEPT ![t].offset = p]
      /\ job' = [job EXCEPT !.remain = @ - 1]
      /\ got' = [got EXCEPT ![i] = @ \cup {p}]
      /\ twice' = [twice EXCEPT ![i] = IF p \in got[i] THEN @ \cup {p} ELSE @]
      /\ UNCHANGED <<dir, born, size, watch, queue, pc, todo, full, batch, live, moved>>
  BY CheckedTrace DEF WriteBlock, MoreToRead, Checking
<1>2. /\ i \in Inodes /\ p \in Nat /\ p <= size[i] /\ size[i] \in Nat /\ trace[t].offset \in Nat
      /\ job \in Job /\ job.remain \in Nat
  BY <1>1, CheckedTrace, TraceFacts
<1>3. \A u \in live : /\ trace'[u].ino = trace[u].ino /\ trace'[u].path = trace[u].path
                      /\ trace'[u].wd = trace[u].wd /\ trace'[u].count = trace[u].count
                      /\ trace'[u].offset = IF u = t THEN p ELSE trace[u].offset
  <2>1. trace \in [Traces -> TraceFile] /\ t \in Traces /\ live \subseteq Traces
    BY <1>1, TraceFacts DEF Good, IInv, TypeOK
  <2>2. TAKE u \in live
  <2>3. trace[u] \in TraceFile /\ u \in Traces
    BY <2>1
  <2>4. trace'[u] = IF u = t THEN [trace[t] EXCEPT !.offset = p] ELSE trace[u]
    BY <1>1, <2>1, <2>3
  <2> HIDE DEF p
  <2> QED
    BY <2>3, <2>4 DEF TraceFile
<1>4. job'.t = job.t /\ job'.caller = job.caller /\ job'.remain = job.remain - 1
  BY <1>1, <1>2 DEF Job
<1>5. \A u \in live : SameKeys(u) /\ trace'[u].count = trace[u].count
  BY <1>3 DEF SameKeys
<1>6. Inside /\ Shape'
  BY <1>1, <1>4, <1>5, CheckGoesOn
<1>7. job.caller = "gone" => trace[t].offset + job.remain = size[i]
  BY <1>1 DEF Good, CalmInv, CheckOK
<1>8. CheckOK'
  <2>1. job.caller = "gone" => trace'[t].offset + job'.remain = size'[i]
    BY <1>1, <1>2, <1>3, <1>4, <1>7
  <2> QED BY <1>1, <1>4, <1>5, <2>1, CheckGoesOnJob
<1>9. WakeUpPending'
  BY <1>1, <1>3, <1>4, <1>6, InsideWake
<1>10. got[i] \subseteq 1 .. trace[t].offset
  BY <1>1 DEF Good, CalmInv, GotOK
<1>11. AtMostOnce'
  BY <1>1, <1>2, <1>10 DEF AtMostOnce, Good, CalmInv, IInv, TypeOK
<1>12. GotOK'
  <2>1. \A j \in Inodes : got'[j] = IF j = i THEN got[i] \cup {p} ELSE got[j]
    BY <1>1 DEF Good, IInv, TypeOK
  <2>2. got'[i] \subseteq 1 .. p
    BY <1>2, <1>10, <2>1
  <2>3. \A j \in Inodes : got'[j] \subseteq 1 .. size[j]
    BY <1>2, <2>1, <2>2 DEF Good, CalmInv, GotOK
  <2>4. i <= born
    BY <1>1 DEF Good, CalmInv, DirOK
  <2>5. \A u \in live : trace[u].ino = i => u = t
    BY <1>1 DEF Good, CalmInv, DirOK
  <2>6. \A u \in live : trace'[u].offset <= size[trace[u].ino]
                        /\ got'[trace[u].ino] \subseteq 1 .. trace'[u].offset
    BY <1>2, <1>3, <2>1, <2>2, <2>5, TraceFacts DEF Good, CalmInv, GotOK
  <2>7. \A j : Traced(j)' <=> Traced(j)
    BY <1>1, <1>3 DEF Traced
  <2>8. \A n \in Names : dir[n] # NoInode => dir[n] \in Inodes
    BY DEF Good, IInv, TypeOK
  <2>9. Traced(i)
    BY <1>1 DEF Traced
  <2>10. born \in Nat
    BY DEF Good, IInv, TypeOK
  <2>11. \A j \in Inodes : j > born => got'[j] = {}
    BY <1>2, <2>1, <2>4, <2>10 DEF Good, CalmInv, GotOK, Inodes
  <2>12. \A n \in Names : dir[n] # NoInode /\ ~Traced(dir[n]) => got'[dir[n]] = {}
    BY <2>1, <2>8, <2>9 DEF Good, CalmInv, GotOK
  <2> QED BY <1>1, <1>3, <2>3, <2>6, <2>7, <2>11, <2>12 DEF GotOK
<1> QED BY <1>1, <1>6, <1>8, <1>9, <1>11, <1>12, CalmParts

LEMMA CheckAgainCalm == ASSUME Good, IInv', Room, CheckAgain PROVE CalmInv'
<1> DEFINE t == job.t
           f == trace[t]
           n == f.path
           note == SendCloseWrite(n, watch, queue)
           tr == [trace EXCEPT ![t].count = 1]
<1>1. /\ pc = "recheck" /\ pc \in Checking /\ t \in live
      /\ f.offset <= size[f.ino] /\ f.offset \in Nat /\ size[f.ino] \in Nat
      /\ n \in Names /\ dir[n] \in Inodes \cup {NoInode}
  BY CheckedTrace, TraceFacts DEF CheckAgain, Checking
<1>2. job.caller = "gone" => f.offset = size[f.ino]
  BY <1>1 DEF Good, CalmInv, CheckOK
<1>3. CASE /\ size[f.ino] > f.offset
           /\ job' = [job EXCEPT !.remain = size[f.ino] - f.offset,
                                 !.appends = IF Unlimited THEN 0 ELSE @ + 1]
           /\ pc' = "begin"
           /\ UNCHANGED <<dir, born, size, watch, queue, todo, full, batch, live, trace, moved,
                          got, twice>>
  <2>1. job'.t = job.t /\ job'.caller = job.caller
    BY <1>1, <1>3, CheckedTrace DEF Job
  <2>2. job.caller # "gone"
    BY <1>1, <1>2, <1>3
  <2> QED BY <1>1, <1>3, <2>1, <2>2, CheckOnward
<1>4. CASE /\ size[f.ino] > f.offset
           /\ ~Unlimited
           /\ Return(TRUE, trace, note.watch)
           /\ queue' = note.queue
           /\ UNCHANGED <<got, twice>>
  <2>1. ~Removes(TRUE) /\ job.caller # "delete"
    BY <1>1, <1>2, <1>4 DEF Unlimited, Removes
  <2>2. /\ live' = live /\ trace' = trace /\ watch' = note.watch /\ batch' = batch /\ job' = NoJob
        /\ pc' = (IF job.caller = "load" THEN "load" ELSE "loop")
        /\ UNCHANGED <<dir, born, size, todo, full, moved>>
    BY <1>4, <2>1 DEF Return
  <2>3. job'.t = 0 /\ job'.caller = "none" /\ pc' \notin Checking /\ pc' # "dead" /\ moved = {}
    BY <1>1, <2>2, CheckedTrace DEF NoJob, Checking
  <2>4. \A u \in live : SameKeys(u) /\ SameCourse(u)
    BY <2>1, <2>2, <2>3, TraceFacts DEF SameKeys, SameCourse, Ending
  <2>5. todo # {} => pc' = "load"
    BY <1>1, <2>2, CheckedTrace DEF Good, CalmInv, TodoOK
  <2>6. CheckOK'
    BY <2>2, <2>3 DEF CheckOK, Checking
  <2>7. GotOK' /\ AtMostOnce'
    <3>1. \A j : Traced(j)' <=> Traced(j)
      BY <2>2 DEF Traced
    <3> QED BY <1>4, <2>2, <3>1, GotKept
  <2>8. CASE SelfNotified(n, watch)
    <3> DEFINE i == dir[n]
               w == watch[i]
    <3>1. i \in Inodes /\ w \in Wds /\ w # NoWd
      BY <1>1, <2>8 DEF SelfNotified, Good, IInv, TypeOK
    <3>2. watch' = [watch EXCEPT ![i] = NoWd] /\ queue' = Enqueue(queue, FileEvent(w))
      BY <1>4, <2>2, <2>8 DEF SendCloseWrite
    <3>3. Pushed(FileEvent(w))
      BY <2>2, <3>1, <3>2, FileEventType, PushFacts DEF Good
    <3>4. Notified(i)
      BY <1>1, <2>2, <2>3, <2>4, <2>5, <3>1, <3>2, <3>3 DEF Notified
    <3>5. Shape'
      BY <2>3, <3>1, <3>4, NotifiedShape
    <3>6. WakeUpPending'
      <4> SUFFICES ASSUME NEW u \in live, size[trace[u].ino] > trace[u].offset
                   PROVE  Awakened(u)'
        BY <2>2, WakeIsLineNext DEF AllAwakened
      <4>1. Awakened(u) \/ trace[u].wd = w
        <5>1. CASE u # t
          BY <5>1, WakeIsLine DEF Good, CalmInv, AllAwakened
        <5>2. CASE u = t
          <6>1. ~Ending(u)
            BY <2>1 DEF Ending
          <6>2. Named(f.ino) => Home(t)
            BY <1>1, NamedPhase, CheckedTrace
          <6> QED BY <1>1, <5>2, <6>1, <6>2, TraceTold DEF Home
        <5> QED BY <5>1, <5>2
      <4> QED BY <2>2, <2>4, <3>3, <4>1, AwakenedPushed DEF Good
    <3> QED BY <2>3, <2>6, <2>7, <3>5, <3>6, CalmParts
  <2>9. CASE ~SelfNotified(n, watch)
    <3>1. watch' = watch /\ queue' = queue
      BY <1>4, <2>2, <2>9 DEF SendCloseWrite
    <3>2. Line' = Line
      BY <2>2, <3>1 DEF Line
    <3>3. Inside
      BY <1>1, <2>2, <2>3, <2>4, <2>5, <3>1, <3>2, SplitKept DEF Inside, Checking
    <3>4. Shape'
      BY <2>3, <3>3, InsideShape
    <3>5. WakeUpPending'
      <4> SUFFICES ASSUME NEW u \in live, size[trace[u].ino] > trace[u].offset
                   PROVE  Awakened(u)'
        BY <2>2, WakeIsLineNext DEF AllAwakened
      <4>1. Awakened(u)
        <5>1. CASE u # t
          BY <5>1, WakeIsLine DEF Good, CalmInv, AllAwakened
        <5>2. CASE u = t
          <6>1. ~Ending(u)
            BY <2>1 DEF Ending
          <6>2. Named(f.ino) => Home(t)
            BY <1>1, NamedPhase, CheckedTrace
          <6> QED BY <1>1, <2>9, <5>2, <6>1, <6>2, TraceTold, TraceFacts DEF Home, SelfNotified
        <5> QED BY <5>1, <5>2
      <4> QED BY <2>2, <3>2, <4>1 DEF Awakened, Spots, IsEvent
    <3> QED BY <2>3, <2>6, <2>7, <3>4, <3>5, CalmParts
  <2> QED BY <2>8, <2>9
<1>5. CASE /\ ~(size[f.ino] > f.offset)
           /\ Return(TRUE, tr, watch)
           /\ UNCHANGED <<queue, got, twice>>
  <2>1. \A u \in live : /\ tr[u].ino = trace[u].ino /\ tr[u].path = trace[u].path
                        /\ tr[u].wd = trace[u].wd /\ tr[u].offset = trace[u].offset
                        /\ u # t => tr[u] = trace[u]
    BY TraceFacts DEF Good, IInv, TypeOK, TraceFile
  <2>2. size[f.ino] = f.offset
    BY <1>1, <1>5
  <2>3. CASE Removes(TRUE)
    BY <1>1, <1>5, <2>1, <2>3, ReturnDrops
  <2>4. CASE ~Removes(TRUE)
    BY <1>1, <1>5, <2>1, <2>2, <2>4, ReturnStays
  <2> QED BY <2>3, <2>4
<1> QED BY <1>3, <1>4, <1>5 DEF CheckAgain

-----------------------------------------------------------------------------
(* The other steps that leave the line and the trees alone *)

LEMMA InsideStep ==
    ASSUME Good, IInv', Inside, UNCHANGED <<size, trace, got, twice>>,
           \A t \in live : t # job'.t => t # job.t,
           CheckOK', pc' # "dead"
    PROVE  CalmInv'
<1>1. Shape'
  BY InsideShape
<1>2. WakeUpPending'
  BY InsideWake
<1>3. GotOK' /\ AtMostOnce'
  <2>1. live' = live /\ UNCHANGED <<dir, born>>
    BY DEF Inside
  <2>2. \A i : Traced(i)' <=> Traced(i)
    BY <2>1 DEF Traced
  <2> QED BY <2>1, <2>2, GotKept
<1> QED BY <1>1, <1>2, <1>3, CalmParts

\* Between two checks there is no job, and no trace is at its end.
LEMMA NoCheck ==
    ASSUME Good, pc \notin Checking
    PROVE  job = NoJob /\ job.t = 0 /\ job.caller = "none" /\ pc # "watch"
           /\ (\A t : ~Ending(t)) /\ (todo # {} => pc = "load")
           /\ (pc # "loop" => moved = {})
<1>1. job = NoJob
  BY DEF Good, CalmInv, CheckOK
<1>2. job.t = 0 /\ job.caller = "none"
  BY <1>1 DEF NoJob
<1> QED BY <1>1, <1>2 DEF Good, CalmInv, Ending, Checking, TodoOK, MovedOK

\* With the batch at its end, no pair of a move is split.
LEMMA NoSplit ==
    ASSUME Good, batch = <<>>
    PROVE  moved = {}
<1> SUFFICES ASSUME moved # {} PROVE FALSE
  OBVIOUS
<1>1. Line # <<>> /\ IsEvent(1, "MOVED_TO")
  BY DEF Good, CalmInv, MovedOK
<1>2. 1 \in Spots /\ Len(batch) = 0
  BY <1>1, LineFacts DEF Spots, Good
<1> QED BY <1>1, <1>2 DEF Good, CalmInv, EventsOK, ToOK

LEMMA SkipCalm ==
    ASSUME Good, IInv', pc = "load", NEW n \in todo, todo' = todo \ {n},
           dir[n] = NoInode \/ Awaited("CREATE", n),
           UNCHANGED <<dir, born, size, watch, queue, pc, full, batch, live, trace, moved, job,
                       got, twice>>
    PROVE  CalmInv'
<1>1. pc \notin Checking
  BY DEF Checking
<1>2. Line' = Line
  BY DEF Line
<1>3. \A t \in live : SameKeys(t) /\ SameCourse(t)
  BY DEF SameKeys, SameCourse, Moving, Ending
<1>4. Inside
  BY <1>1, <1>2, <1>3, NoCheck, SplitKept DEF Inside
<1>5. CheckOK'
  BY <1>1, NoCheck DEF CheckOK, NoJob, Checking
<1> QED BY <1>4, <1>5, InsideStep

LEMMA LoadDoneCalm == ASSUME Good, IInv', LoadDone PROVE CalmInv'
<1> USE DEF LoadDone
<1>1. pc \notin Checking /\ pc' \notin Checking
  BY DEF Checking
<1>2. Line' = Line
  BY DEF Line
<1>3. \A t \in live : SameKeys(t) /\ SameCourse(t)
  BY <1>1, NoCheck DEF SameKeys, SameCourse, Moving
<1>4. Inside
  BY <1>1, <1>2, <1>3, NoCheck, SplitKept DEF Inside
<1>5. CheckOK'
  BY <1>1, NoCheck DEF CheckOK, NoJob, Checking
<1> QED BY <1>4, <1>5, InsideStep

LEMMA ReadEventsCalm == ASSUME Good, IInv', ReadEvents PROVE CalmInv'
<1> USE DEF ReadEvents
<1>1. pc \notin Checking /\ pc' \notin Checking
  BY DEF Checking
<1>2. Line' = Line /\ Len(batch') = Len(Line)
  BY DEF Line, Good, IInv, TypeOK
<1>3. \A t \in live : SameKeys(t) /\ SameCourse(t)
  BY <1>1, NoCheck DEF SameKeys, SameCourse, Moving
<1>4. \A k \in Spots : k # Len(batch') + 1
  BY <1>2, LineFacts DEF Spots, Good
<1>5. Inside
  BY <1>1, <1>2, <1>3, <1>4, NoCheck DEF Inside
<1>6. CheckOK'
  BY <1>1, NoCheck DEF CheckOK, NoJob, Checking
<1> QED BY <1>5, <1>6, InsideStep

LEMMA IdleCalm == ASSUME Good, IInv', Idle PROVE CalmInv'
<1>1. PICK t \in live :
         /\ trace[t].count > 0
         /\ job' = CheckBy(t, IF dir[trace[t].path] = NoInode THEN "lost" ELSE "idle")
  BY DEF Idle
<1>2. /\ pc = "loop" /\ batch = <<>> /\ pc' = "check"
      /\ UNCHANGED <<dir, born, size, watch, queue, todo, full, batch, live, trace, moved, got,
                     twice>>
  BY DEF Idle
<1>3. pc \notin Checking /\ pc' \in Checking /\ pc' # "dead"
  BY <1>2 DEF Checking
<1>4. Line' = Line
  BY <1>2 DEF Line
<1>5. job'.t = t /\ job'.caller = IF dir[trace[t].path] = NoInode THEN "lost" ELSE "idle"
  BY <1>1 DEF CheckBy
<1>6. ~Moving(t)
  BY <1>1 DEF Moving
<1>7. \A u \in live : SameKeys(u) /\ SameCourse(u)
  BY <1>2, <1>3, <1>5, <1>6, NoCheck DEF SameKeys, SameCourse
<1>8. Inside
  BY <1>2, <1>3, <1>4, <1>7, NoCheck, NoSplit, SplitKept DEF Inside
<1>9. dir[trace[t].path] = NoInode => Doomed(t)
  BY <1>3, <1>6, NoCheck, TraceFacts DEF Good, CalmInv, Phases, Home
<1>10. Doomed(t) => Doomed(t)'
  BY <1>2, <1>4 DEF Doomed, Named, Spots, IsEvent
<1>11. CheckOK'
  BY <1>2, <1>3, <1>5, <1>9, <1>10 DEF CheckOK
<1> QED BY <1>2, <1>3, <1>5, <1>8, <1>11, InsideStep, NoCheck, TraceFacts

-----------------------------------------------------------------------------
(* An event is handled *)

LEMMA PopLine ==
    ASSUME Good, IInv', Popped
    PROVE  /\ 1 \in Spots
           /\ \A k \in Spots' : k + 1 \in Spots /\ Line'[k] = Line[k + 1] /\ k + 1 # 1
           /\ \A k \in Spots : k = 1 \/ (k - 1 \in Spots' /\ Line'[k - 1] = Line[k])
           /\ \A n : Quiet(n) => Quiet(n)'
           /\ \A w : FileAwaited(w)' => FileAwaited(w)
           /\ \A w : FileAwaited(w) =>
                 FileAwaited(w)' \/ (IsEvent(1, "FILE") /\ Line[1].wd = w)
           /\ \A mask, n : Awaited(mask, n)' => Awaited(mask, n)
           /\ \A mask, n : Awaited(mask, n) =>
                 Awaited(mask, n)' \/ (IsEvent(1, mask) /\ Line[1].name = n)
<1>1. Len(Line) \in Nat /\ Len(Line') \in Nat /\ Len(Line) > 0 /\ Len(Line') = Len(Line) - 1
      /\ \A k \in Spots' : Line'[k] = Line[k + 1]
  BY LineFacts, LineFactsNext DEF Good, Popped, Spots
<1>2. OnLine /\ OnLine'
  BY PendingIsLine, OnLineNext DEF Good
<1>3. 1 \in Spots /\ \A k \in Spots' : k + 1 \in Spots /\ k + 1 # 1
  BY <1>1 DEF Spots
<1>4. \A k \in Spots : k = 1 \/ (k - 1 \in Spots' /\ Line'[k - 1] = Line[k])
  <2> SUFFICES ASSUME NEW k \in Spots, k # 1 PROVE k - 1 \in Spots' /\ Line'[k - 1] = Line[k]
    OBVIOUS
  <2>1. k - 1 \in Spots' /\ (k - 1) + 1 = k
    BY <1>1 DEF Spots
  <2> QED BY <1>1, <2>1
<1>5. \A n : Quiet(n) => Quiet(n)'
  BY <1>1, <1>3 DEF Quiet
<1>6. \A w : FileAwaited(w)' => FileAwaited(w)
  BY <1>1, <1>2, <1>3 DEF OnLine, IsEvent
<1>7. \A w : FileAwaited(w) => FileAwaited(w)' \/ (IsEvent(1, "FILE") /\ Line[1].wd = w)
  BY <1>2, <1>4 DEF OnLine, IsEvent
<1>8. \A mask, n : Awaited(mask, n)' => Awaited(mask, n)
  BY <1>1, <1>2, <1>3 DEF OnLine, IsEvent
<1>9. \A mask, n : Awaited(mask, n) => Awaited(mask, n)' \/ (IsEvent(1, mask) /\ Line[1].name = n)
  BY <1>2, <1>4 DEF OnLine, IsEvent
<1> QED BY <1>1, <1>3, <1>4, <1>5, <1>6, <1>7, <1>8, <1>9

\* An event is gone, and a file event may have come.
Advanced ==
    /\ 1 \in Spots
    /\ \A k \in Spots : k = 1 \/ (k - 1 \in Spots' /\ Line'[k - 1] = Line[k])
    /\ \A k \in Spots' : \/ k + 1 \in Spots /\ Line'[k] = Line[k + 1]
                         \/ k + 1 \notin Spots /\ Line'[k].mask = "FILE" /\ Line'[k].name = NoName

LEMMA PopAdvances == ASSUME Good, IInv', Popped PROVE Advanced
BY PopLine DEF Advanced

LEMMA AdvancedPhase ==
    ASSUME Good, IInv', Advanced, NEW t \in live, SameKeys(t), dir' = dir
    PROVE  /\ Home(t) => Home(t)'
           /\ Doomed(t) =>
                 Doomed(t)' \/ (IsEvent(1, "DELETE") /\ Line[1].name = trace[t].path)
           /\ \A k \in Spots : Leaves(t, k) /\ k # 1 => k - 1 \in Spots' /\ Leaves(t, k - 1)'
<1>1. trace[t].path \in Names /\ trace[t].path # NoName
  BY TraceFacts, DirAssumption
<1>2. Home(t) => Home(t)'
  BY <1>1 DEF Advanced, Home, Quiet, SameKeys
<1>3. Named(trace[t].ino)' <=> Named(trace[t].ino)
  BY DEF Named, SameKeys
<1>4. Doomed(t) => Doomed(t)' \/ (IsEvent(1, "DELETE") /\ Line[1].name = trace[t].path)
  BY <1>3 DEF Advanced, Doomed, SameKeys, IsEvent
<1>5. ASSUME NEW k \in Spots, Leaves(t, k), k # 1, NEW p, p = k - 1
      PROVE  p \in Spots' /\ Leaves(t, p)'
  <2>1. p \in Spots' /\ Line'[p] = Line[k] /\ p \in Nat /\ k = p + 1 /\ k \in Nat
    BY <1>5 DEF Advanced, Spots
  <2>2. k + 1 \in Spots /\ Line'[p + 1] = Line[k + 1]
    <3>1. k + 1 \in Spots /\ k + 1 # 1
      BY <1>5, <2>1 DEF Good, CalmInv, EventsOK, FromOK, Leaves
    <3>2. (k + 1) - 1 = p + 1
      BY <2>1
    <3> QED BY <3>1, <3>2 DEF Advanced
  <2>3. \A j \in Spots' : Line'[j].name = trace[t].path => j = p \/ Line'[j].mask = "CREATE"
    <3> SUFFICES ASSUME NEW j \in Spots', Line'[j].name = trace[t].path, j # p
                 PROVE  Line'[j].mask = "CREATE"
      OBVIOUS
    <3>1. j + 1 \in Spots /\ Line'[j] = Line[j + 1] /\ j \in Nat
      BY <1>1 DEF Advanced, Spots
    <3> QED BY <1>5, <2>1, <3>1 DEF Leaves, IsEvent
  <2>4. \A j \in 1 .. p - 1 : Line'[j] # FileEvent(trace[t].wd)
    <3> SUFFICES ASSUME NEW j \in 1 .. p - 1 PROVE Line'[j] # FileEvent(trace[t].wd)
      OBVIOUS
    <3>1. j + 1 \in 1 .. k - 1 /\ j + 1 \in Spots /\ j \in Nat
      BY <2>1, LineFacts DEF Spots, Good
    <3>2. (j + 1) - 1 = j /\ j + 1 # 1
      BY <3>1
    <3>3. Line'[j] = Line[j + 1]
      BY <3>1, <3>2 DEF Advanced
    <3> QED BY <1>5, <3>1, <3>3 DEF Leaves
  <2> QED BY <1>5, <2>1, <2>2, <2>3, <2>4 DEF Leaves, IsEvent, SameKeys, FileEvent
<1> QED BY <1>2, <1>4, <1>5

LEMMA PopPhase ==
    ASSUME Good, IInv', Popped, NEW t \in live, SameKeys(t), dir' = dir
    PROVE  /\ Home(t) => Home(t)'
           /\ Doomed(t) =>
                 Doomed(t)' \/ (IsEvent(1, "DELETE") /\ Line[1].name = trace[t].path)
           /\ \A k \in Spots : Leaves(t, k) /\ k # 1 => k - 1 \in Spots' /\ Leaves(t, k - 1)'
BY PopAdvances, AdvancedPhase

\* The events that stay on the line are in order, given what the handler did
\* to the trees.
LEMMA AdvancedEvents ==
    ASSUME Good, IInv', Advanced, Len(batch') = Len(batch) - 1, dir' = dir,
           \A k \in Spots : \A i : IsEvent(k, "CREATE") /\ k # 1 /\ i = dir[Line[k].name] =>
              ~Traced(i)',
           \A k \in Spots : \A n : IsEvent(k, "MOVED_TO") /\ k # 1 /\ n = Line[k].name =>
              TraceAt(n)' = {}
    PROVE  EventsOK'
<1> SUFFICES ASSUME NEW k \in Spots' PROVE CreateOK(k)' /\ FromOK(k)' /\ ToOK(k)'
  BY DEF EventsOK
<1> DEFINE q == k + 1
<1>0. CASE Line'[k].mask = "FILE"
  BY <1>0 DEF CreateOK, FromOK, ToOK, IsEvent
<1> SUFFICES ASSUME Line'[k].mask # "FILE" PROVE CreateOK(k)' /\ FromOK(k)' /\ ToOK(k)'
  BY <1>0
<1>1. q \in Spots /\ Line'[k] = Line[q] /\ q # 1 /\ k \in Nat
  BY DEF Advanced, Spots
<1>2. CreateOK(q) /\ FromOK(q) /\ ToOK(q)
  BY <1>1 DEF Good, CalmInv, EventsOK
<1>3. \A j \in Spots' : /\ j \in Nat
                        /\ \/ j + 1 \in Spots /\ Line'[j] = Line[j + 1]
                           \/ Line'[j].name = NoName
  BY DEF Advanced, Spots
<1>8. Line'[k].mask \in {"CREATE", "MOVED_TO"} => Line'[k].name # NoName
  BY <1>1, EventFacts, DirAssumption DEF Good
<1>4. ASSUME Line'[k].mask = "CREATE" PROVE CreateOK(k)'
  <2>1. dir[Line[q].name] # NoInode /\ \A j \in Spots : j > q => Line[j].name # Line[q].name
    BY <1>1, <1>2, <1>4 DEF CreateOK, IsEvent
  <2>2. \A i : i = dir[Line[q].name] => ~Traced(i)'
    BY <1>1, <1>4 DEF IsEvent
  <2>3. \A j \in Spots' : j > k => Line'[j].name # Line'[k].name
    BY <1>1, <1>3, <1>4, <1>8, <2>1
  <2> QED BY <1>1, <2>1, <2>2, <2>3 DEF CreateOK
<1>5. ASSUME Line'[k].mask = "MOVED_FROM" PROVE FromOK(k)'
  <2>1. q + 1 \in Spots /\ Line[q + 1].mask = "MOVED_TO" /\ Line[q + 1].cookie = Line[q].cookie
    BY <1>1, <1>2, <1>5 DEF FromOK, IsEvent
  <2>2. q + 1 # 1 /\ (q + 1) - 1 = k + 1
    BY <1>1
  <2>3. k + 1 \in Spots' /\ Line'[k + 1] = Line[q + 1]
    BY <2>1, <2>2 DEF Advanced
  <2> QED BY <1>1, <2>1, <2>3 DEF FromOK, IsEvent
<1>6. ASSUME Line'[k].mask = "MOVED_TO" PROVE ToOK(k)'
  <2>1. /\ dir[Line[q].name] # NoInode /\ q # Len(batch) + 1
        /\ \A j \in Spots : Line[j].name = Line[q].name => j = q
    BY <1>1, <1>2, <1>6 DEF ToOK, IsEvent
  <2>2. \A n : n = Line[q].name => TraceAt(n)' = {}
    BY <1>1, <1>6 DEF IsEvent
  <2>3. \A j \in Spots' : Line'[j].name = Line'[k].name => j = k
    BY <1>1, <1>3, <1>6, <1>8, <2>1
  <2>4. k # Len(batch') + 1
    BY <1>1, <2>1, LineFacts, LineFactsNext DEF Good
  <2> QED BY <1>1, <2>1, <2>2, <2>3, <2>4 DEF ToOK
<1>7. /\ ~(Line'[k].mask = "CREATE") => CreateOK(k)'
      /\ ~(Line'[k].mask = "MOVED_FROM") => FromOK(k)'
      /\ ~(Line'[k].mask = "MOVED_TO") => ToOK(k)'
  BY DEF CreateOK, FromOK, ToOK, IsEvent
<1> QED BY <1>4, <1>5, <1>6, <1>7

LEMMA PopEvents ==
    ASSUME Good, IInv', Popped, Len(batch') = Len(batch) - 1, dir' = dir,
           \A k \in Spots : \A i : IsEvent(k, "CREATE") /\ k # 1 /\ i = dir[Line[k].name] =>
              ~Traced(i)',
           \A k \in Spots : \A n : IsEvent(k, "MOVED_TO") /\ k # 1 /\ n = Line[k].name =>
              TraceAt(n)' = {}
    PROVE  EventsOK'
BY PopAdvances, AdvancedEvents

\* The handler finds nothing to move, or only starts a check.
LEMMA PopShape ==
    ASSUME Good, IInv', Popped, Len(batch') = Len(batch) - 1,
           UNCHANGED <<dir, born, watch, todo, live, trace, moved>>,
           pc = "loop", pc' \in {"loop", "check"},
           IsEvent(1, "FILE") \/ IsEvent(1, "DELETE"),
           \A t \in live : Moving(t) => job'.t # t,
           \A t \in live : IsEvent(1, "FILE") /\ Line[1].wd = trace[t].wd => ~Named(trace[t].ino),
           \A t \in live : IsEvent(1, "DELETE") /\ Line[1].name = trace[t].path /\ Doomed(t) =>
              Ending(t)'
    PROVE  Shape'
<1>0. 1 \in Spots
  BY PopLine
<1>1. pc \notin Checking /\ todo = {} /\ moved = {}
  BY <1>0, NoCheck DEF Checking, Good, CalmInv, MovedOK, IsEvent
<1>2. \A t \in live : SameKeys(t)
  BY DEF SameKeys
<1>3. /\ \A j : Traced(j)' <=> Traced(j)
      /\ \A n : TraceAt(n)' = TraceAt(n)
      /\ \A j : Named(j)' <=> Named(j)
  BY DEF Traced, TraceAt, Named
<1>4. \A t : ~Arrives(t)
  BY <1>1 DEF Arrives
<1>5. ASSUME NEW t \in live
      PROVE  /\ Home(t) => Home(t)'
             /\ Doomed(t) => Doomed(t)' \/ Ending(t)'
             /\ ~Ending(t)
             /\ Moving(t) => Moving(t)'
  <2>1. Home(t) => Home(t)'
    BY <1>2, PopPhase
  <2>2. Doomed(t) => Doomed(t)' \/ Ending(t)'
    BY <1>2, PopPhase
  <2>3. Moving(t) => Moving(t)'
    <3> SUFFICES ASSUME Moving(t) PROVE Moving(t)'
      OBVIOUS
    <3>1. PICK k \in Spots : Leaves(t, k)
      BY <1>4 DEF Moving
    <3>2. k # 1
      BY <3>1 DEF Leaves, IsEvent
    <3>3. \E p \in Spots' : Leaves(t, p)'
      <4>1. ASSUME NEW p, p = k - 1 PROVE p \in Spots' /\ Leaves(t, p)'
        BY <1>2, <3>1, <3>2, <4>1, PopPhase
      <4> QED BY <4>1
    <3> QED BY <3>3 DEF Moving
  <2> QED BY <1>1, <2>1, <2>2, <2>3, NoCheck
<1>6. Phases'
  BY <1>5 DEF Phases, Good, CalmInv
<1>7. EventsOK'
  <2>1. \A k \in Spots : \A n : IsEvent(k, "MOVED_TO") /\ n = Line[k].name => TraceAt(n)' = {}
    BY <1>3, <1>4 DEF Good, CalmInv, EventsOK, ToOK
  <2>2. \A k \in Spots : \A j : IsEvent(k, "CREATE") /\ j = dir[Line[k].name] => ~Traced(j)'
    BY <1>3 DEF Good, CalmInv, EventsOK, CreateOK
  <2> QED BY <2>1, <2>2, PopEvents
<1>8. MovedOK' /\ TodoOK'
  BY <1>1 DEF MovedOK, TodoOK
<1>9. DirOK'
  BY DEF Good, CalmInv, DirOK
<1>10. WatchOK'
  <2>1. /\ \A v : FileAwaited(v)' => FileAwaited(v)
        /\ \A v : FileAwaited(v) =>
                    FileAwaited(v)' \/ (IsEvent(1, "FILE") /\ Line[1].wd = v)
    BY PopLine
  <2>2. ASSUME NEW j \in Inodes, watch[j] # NoWd
        PROVE  \E t \in live : /\ trace[t].wd = watch[j]
                               /\ trace[t].ino = j
                                  \/ (dir[trace[t].path] = j /\ (Doomed(t)' \/ Ending(t)'))
    BY <1>5, <2>2 DEF Good, CalmInv, WatchOK
  <2>3. ASSUME NEW t \in live
        PROVE  /\ trace[t].wd # NoWd
               /\ Named(trace[t].ino) => \/ watch[trace[t].ino] = trace[t].wd
                                         \/ /\ FileAwaited(trace[t].wd)
                                             /\ ~(IsEvent(1, "FILE") /\ Line[1].wd = trace[t].wd)
    BY DEF Good, CalmInv, WatchOK
  <2> QED BY <1>3, <2>1, <2>2, <2>3 DEF Good, CalmInv, WatchOK
<1>11. Covered'
  <2>1. \A n : Awaited("CREATE", n) => Awaited("CREATE", n)'
    BY PopLine DEF IsEvent
  <2> QED BY <2>1 DEF Good, CalmInv, Covered
<1> QED BY <1>6, <1>7, <1>8, <1>9, <1>10, <1>11 DEF Shape

\* The event wakes at most the trace that is checked next.
LEMMA PopWake ==
    ASSUME Good, IInv', Popped, UNCHANGED <<size, live>>, moved \subseteq moved',
           \A t \in live : t # job'.t =>
              /\ t # job.t /\ trace'[t] = trace[t]
              /\ IsEvent(1, "FILE") => Line[1].wd # trace[t].wd
              /\ IsEvent(1, "DELETE") => Line[1].name # trace[t].path
              /\ IsEvent(1, "MOVED_FROM") => Line[1].name # trace[t].path
                    \/ \E m \in moved' : m.path = trace[t].path
    PROVE  WakeUpPending'
<1> SUFFICES ASSUME NEW t \in live, t # job'.t, size[trace[t].ino] > trace[t].offset
             PROVE  Awakened(t)'
  BY WakeIsLineNext DEF AllAwakened
<1>1. Awakened(t) /\ trace'[t] = trace[t]
  BY WakeIsLine DEF Good, CalmInv, AllAwakened
<1>2. \A k \in Spots : k = 1 \/ (k - 1 \in Spots' /\ Line'[k - 1] = Line[k])
  BY PopLine
<1>3. CASE \E k \in Spots : IsEvent(k, "FILE") /\ Line[k].wd = trace[t].wd
  <2>1. PICK k \in Spots : IsEvent(k, "FILE") /\ Line[k].wd = trace[t].wd
    BY <1>3
  <2>2. k # 1
    BY <2>1
  <2> QED BY <1>1, <1>2, <2>1, <2>2 DEF Awakened, IsEvent
<1>4. CASE \E k \in Spots : IsEvent(k, "DELETE") /\ Line[k].name = trace[t].path
  <2>1. PICK k \in Spots : IsEvent(k, "DELETE") /\ Line[k].name = trace[t].path
    BY <1>4
  <2>2. k # 1
    BY <2>1
  <2> QED BY <1>1, <1>2, <2>1, <2>2 DEF Awakened, IsEvent
<1>5. CASE \E k \in Spots : IsEvent(k, "MOVED_FROM") /\ Line[k].name = trace[t].path
  <2>1. PICK k \in Spots : IsEvent(k, "MOVED_FROM") /\ Line[k].name = trace[t].path
    BY <1>5
  <2>2. CASE k = 1
    BY <1>1, <2>1, <2>2 DEF Awakened
  <2>3. CASE k # 1
    BY <1>1, <1>2, <2>1, <2>3 DEF Awakened, IsEvent
  <2> QED BY <2>2, <2>3
<1>6. CASE trace[t].count > 0 \/ \E m \in moved : m.path = trace[t].path
  BY <1>1, <1>6 DEF Awakened
<1> QED BY <1>1, <1>3, <1>4, <1>5, <1>6 DEF Awakened

LEMMA HeadPopped ==
    ASSUME Good, IInv', NEW mask, NextIs(mask), batch' = Tail(batch), queue' = queue
    PROVE  /\ Popped /\ Len(batch') = Len(batch) - 1
           /\ 1 \in Spots /\ Line[1] = Head(batch) /\ IsEvent(1, mask)
           /\ pc = "loop" /\ pc \notin Checking
<1>1. Popped /\ Len(batch') = Len(batch) - 1
  BY PopFacts DEF NextIs, Good
<1> QED BY <1>1, PopLine DEF NextIs, Checking, Popped, IsEvent

\* The event of a name or a watch tells what has become of its trace.
LEMMA HeadPhase ==
    ASSUME Good, 1 \in Spots, pc = "loop", NEW t \in live,
           \/ IsEvent(1, "FILE") /\ Line[1].wd = trace[t].wd
           \/ IsEvent(1, "DELETE") /\ Line[1].name = trace[t].path
    PROVE  /\ ~Moving(t) /\ ~Ending(t)
           /\ IsEvent(1, "DELETE") => Doomed(t) /\ ~Home(t)
<1>1. ~Ending(t)
  BY DEF Ending, Checking
<1>2. ~Arrives(t)
  BY DEF Arrives, IsEvent
<1>3. ASSUME NEW k \in Spots, Leaves(t, k) PROVE FALSE
  <2>1. CASE IsEvent(1, "FILE")
    <3>1. k # 1 /\ k \in Nat /\ k >= 1
      BY <1>3, <2>1 DEF Leaves, IsEvent, Spots
    <3>2. 1 \in 1 .. k - 1
      BY <3>1
    <3>3. Line[1] = FileEvent(trace[t].wd)
      <4>1. Line[1] \in Event
        BY LineFacts DEF Good
      <4> QED BY <2>1, <4>1 DEF Event, FileEvent, IsEvent
    <3> QED BY <1>3, <3>2, <3>3 DEF Leaves
  <2>2. CASE IsEvent(1, "DELETE")
    BY <1>3, <2>2 DEF Leaves, IsEvent
  <2> QED BY <2>1, <2>2
<1>4. IsEvent(1, "DELETE") => ~Home(t)
  BY DEF Home, Quiet, IsEvent
<1> QED BY <1>1, <1>2, <1>3, <1>4 DEF Moving, Good, CalmInv, Phases

LEMMA OnDeleteCalm == ASSUME Good, IInv', OnDelete PROVE CalmInv'
<1> DEFINE n == Head(batch).name
<1>1. /\ NextIs("DELETE") /\ batch' = Tail(batch)
      /\ UNCHANGED <<dir, born, size, watch, queue, todo, full, live, trace, moved, got, twice>>
  BY DEF OnDelete
<1>2. /\ Popped /\ Len(batch') = Len(batch) - 1
      /\ 1 \in Spots /\ Line[1].name = n /\ IsEvent(1, "DELETE")
      /\ pc = "loop" /\ pc \notin Checking
  BY <1>1, HeadPopped
<1>3. \A j : Traced(j)' <=> Traced(j)
  BY <1>1 DEF Traced
<1>4. GotOK' /\ AtMostOnce'
  BY <1>1, <1>3, GotKept
<1>5. ~IsEvent(1, "FILE") /\ ~IsEvent(1, "MOVED_FROM")
  BY <1>2 DEF IsEvent
<1>6. CASE TraceAt(n) = {} /\ UNCHANGED <<pc, job>>
  <2>1. \A t \in live : trace[t].path # n
    BY <1>6 DEF TraceAt
  <2>2. \A t \in live : Moving(t) => job'.t # t
    BY <1>2, <1>6, NoCheck, TraceFacts
  <2>3. Shape'
    BY <1>1, <1>2, <1>5, <1>6, <2>1, <2>2, PopShape
  <2>4. WakeUpPending'
    BY <1>1, <1>2, <1>5, <1>6, <2>1, PopWake, NoCheck, TraceFacts
  <2>5. CheckOK'
    BY <1>2, <1>6, NoCheck DEF CheckOK, NoJob, Checking
  <2> QED BY <1>2, <1>4, <1>6, <2>3, <2>4, <2>5, CalmParts
<1>7. ASSUME NEW t \in TraceAt(n), job' = CheckBy(t, "delete"), pc' = "check" PROVE CalmInv'
  <2>1. t \in live /\ trace[t].path = n /\ \A u \in live : trace[u].path = n => u = t
    BY OnePath DEF TraceAt
  <2>2. ~Moving(t) /\ ~Ending(t) /\ Doomed(t)
    BY <1>2, <2>1, HeadPhase
  <2>3. job'.t = t /\ job'.caller = "delete" /\ pc' \in Checking
    BY <1>7 DEF CheckBy, Checking
  <2>4. Ending(t)'
    BY <1>1, <2>2, <2>3 DEF Ending, Doomed, Named
  <2>5. Shape'
    BY <1>1, <1>2, <1>5, <1>7, <2>1, <2>2, <2>3, <2>4, PopShape
  <2>6. WakeUpPending'
    BY <1>1, <1>2, <1>5, <2>1, <2>3, PopWake, NoCheck, TraceFacts
  <2>7. CheckOK'
    BY <1>7, <2>3, <2>4 DEF CheckOK
  <2> QED BY <1>4, <1>7, <2>5, <2>6, <2>7, CalmParts
<1> QED BY <1>6, <1>7 DEF OnDelete

\* The watch is put back on a file that has none, with a descriptor that no
\* trace and no event knows.
LEMMA RearmFacts ==
    ASSUME Good, 1 \in Spots, pc = "loop", IsEvent(1, "FILE"), NEW t \in live,
           Line[1].wd = trace[t].wd,
           NEW w, w # NoWd, AddWatchReturns(watch, trace[t].path, w, UsedWds)
    PROVE  /\ dir[trace[t].path] \in Inodes /\ watch[dir[trace[t].path]] = NoWd
           /\ w \in Wds /\ ~FileAwaited(w)
           /\ \A i \in Inodes : watch[i] # w
           /\ \A u \in live : trace[u].wd # w
           /\ \A u \in live : trace[u].ino = dir[trace[t].path] => u = t
           /\ \A u \in live : dir[trace[u].path] = dir[trace[t].path] => u = t
<1> DEFINE n == trace[t].path
           i == dir[n]
<1>1. ~Moving(t) /\ ~Ending(t)
  BY HeadPhase
<1>2. i \in Inodes /\ i # NoInode /\ n \in Names
  BY TraceFacts DEF AddWatchReturns
<1>3. \A u \in live : dir[trace[u].path] = i => u = t
  BY <1>2, TraceFacts, OnePath DEF Good, CalmInv, DirOK
<1>4. ASSUME NEW u \in live, trace[u].ino = i PROVE u = t
  <2>1. Named(trace[u].ino)
    BY <1>2, <1>4 DEF Named
  <2>2. Home(u) => u = t
    BY <1>3, <1>4 DEF Home
  <2>3. ~Arrives(u)
    BY DEF Arrives, IsEvent
  <2>4. ASSUME NEW k \in Spots, Leaves(u, k) PROVE FALSE
    <3>1. k + 1 \in Spots /\ IsEvent(k + 1, "MOVED_TO") /\ dir[Line[k + 1].name] = i
      BY <1>4, <2>4 DEF Leaves, Good, CalmInv, EventsOK, FromOK
    <3>2. Line[k + 1].name = n
      BY <1>2, <3>1, EventFacts DEF IsEvent, Good, CalmInv, DirOK
    <3>3. t \in TraceAt(Line[k + 1].name)
      BY <3>2 DEF TraceAt
    <3>4. Arrives(t)
      BY <3>1, <3>3 DEF Good, CalmInv, EventsOK, ToOK
    <3> QED BY <3>4 DEF Arrives, IsEvent
  <2> QED BY <2>1, <2>2, <2>3, <2>4, NamedPhase DEF Moving
<1>5. FileAwaited(trace[t].wd)
  BY PendingIsLine DEF OnLine, Good
<1>6. watch[i] = NoWd
  <2> SUFFICES ASSUME watch[i] # NoWd PROVE FALSE
    OBVIOUS
  <2>1. ~FileAwaited(watch[i])
    BY <1>2 DEF Good, CalmInv, WatchOK
  <2>2. PICK u \in live : trace[u].wd = watch[i] /\ (trace[u].ino = i \/ dir[trace[u].path] = i)
    BY <1>2 DEF Good, CalmInv, WatchOK
  <2> QED BY <1>3, <1>4, <1>5, <2>1, <2>2
<1>7. w \in Wds \ UsedWds
  BY <1>2, <1>6 DEF AddWatchReturns
<1>8. ~FileAwaited(w)
  BY <1>7 DEF UsedWds, FileAwaited
<1> QED BY <1>2, <1>3, <1>4, <1>6, <1>7, <1>8 DEF UsedWds

LEMMA RearmCalm ==
    ASSUME Good, IInv', NextIs("FILE"), batch' = Tail(batch), NEW t \in live,
           trace[t].wd = Head(batch).wd, NEW w, w # NoWd,
           AddWatchReturns(watch, trace[t].path, w, UsedWds),
           watch' = Armed(watch, trace[t].path, w),
           trace' = [trace EXCEPT ![t].wd = w],
           job' = CheckBy(t, "event"), pc' = "check",
           UNCHANGED <<dir, born, size, queue, todo, full, live, moved, got, twice>>
    PROVE  CalmInv'
<1> DEFINE n == trace[t].path
           i == dir[n]
           v == trace[t].wd
<1>1. /\ Popped /\ Len(batch') = Len(batch) - 1
      /\ 1 \in Spots /\ Line[1].wd = v /\ IsEvent(1, "FILE")
      /\ pc = "loop" /\ pc \notin Checking
  BY HeadPopped
<1>2. /\ i \in Inodes /\ watch[i] = NoWd /\ w \in Wds /\ ~FileAwaited(w)
      /\ \A j \in Inodes : watch[j] # w
      /\ \A u \in live : trace[u].wd # w
      /\ \A u \in live : trace[u].ino = i => u = t
      /\ \A u \in live : dir[trace[u].path] = i => u = t
  BY <1>1, RearmFacts
<1>3. ~Moving(t) /\ ~Ending(t) /\ (Home(t) \/ Doomed(t))
  BY <1>1, HeadPhase DEF Good, CalmInv, Phases
<1>4. todo = {} /\ moved = {} /\ job = NoJob /\ job.t = 0
  BY <1>1, NoCheck DEF Good, CalmInv, MovedOK, IsEvent
<1>5. job'.t = t /\ job'.caller = "event" /\ pc' \in Checking
  BY DEF CheckBy, Checking
<1>6. \A u \in live : /\ trace'[u].ino = trace[u].ino /\ trace'[u].path = trace[u].path
                      /\ trace'[u].offset = trace[u].offset /\ trace'[u].count = trace[u].count
                      /\ trace'[u].wd = IF u = t THEN w ELSE trace[u].wd
                      /\ u # t => trace'[u] = trace[u]
  BY TraceFacts DEF Good, IInv, TypeOK, TraceFile
<1>7. \A j \in Inodes : watch'[j] = IF j = i THEN w ELSE watch[j]
  BY DEF Armed, Good, IInv, TypeOK
<1>8. \A u \in live : u # t => SameKeys(u)
  BY <1>6 DEF SameKeys
<1>9. /\ \A j : Traced(j)' <=> Traced(j)
      /\ \A m : TraceAt(m)' = TraceAt(m)
      /\ \A j : Named(j)' <=> Named(j)
  BY <1>6 DEF Traced, TraceAt, Named
<1>10. \A u : ~Arrives(u)
  BY <1>4 DEF Arrives
<1>11. ASSUME NEW u \in live, u # t
       PROVE  /\ Home(u) => Home(u)'
              /\ Doomed(u) => Doomed(u)'
              /\ ~Ending(u)
              /\ Moving(u) => Moving(u)'
  <2>1. (Home(u) => Home(u)') /\ (Doomed(u) => Doomed(u)')
    BY <1>1, <1>8, <1>11, PopPhase DEF IsEvent
  <2>2. ASSUME Moving(u) PROVE Moving(u)'
    <3>1. PICK k \in Spots : Leaves(u, k)
      BY <1>10, <2>2 DEF Moving
    <3>2. k # 1
      BY <1>1, <3>1 DEF Leaves, IsEvent
    <3>3. ASSUME NEW p, p = k - 1 PROVE p \in Spots' /\ Leaves(u, p)'
      BY <1>1, <1>8, <1>11, <3>1, <3>2, <3>3, PopPhase
    <3>4. trace'[u].count = 0 /\ job'.t # u
      BY <1>5, <1>6, <1>11, <2>2 DEF Moving
    <3> QED BY <3>3, <3>4 DEF Moving
  <2> QED BY <1>1, <2>1, <2>2, NoCheck
<1>12. (Home(t) => Home(t)') /\ (Doomed(t) => Doomed(t)')
  <2>1. \A m : Quiet(m) => Quiet(m)'
    BY <1>1, PopLine
  <2>2. \A k \in Spots : k = 1 \/ (k - 1 \in Spots' /\ Line'[k - 1] = Line[k])
    BY <1>1, PopLine
  <2>3. Home(t) => Home(t)'
    BY <1>6, <2>1 DEF Home
  <2>4. Doomed(t) => Doomed(t)'
    BY <1>1, <1>6, <1>9, <2>2 DEF Doomed, IsEvent
  <2> QED BY <2>3, <2>4
<1>13. Phases'
  BY <1>3, <1>11, <1>12 DEF Phases, Good, CalmInv
<1>14. EventsOK'
  <2>1. \A k \in Spots : \A m : IsEvent(k, "MOVED_TO") /\ m = Line[k].name => TraceAt(m)' = {}
    BY <1>9, <1>10 DEF Good, CalmInv, EventsOK, ToOK
  <2>2. \A k \in Spots : \A j : IsEvent(k, "CREATE") /\ j = dir[Line[k].name] => ~Traced(j)'
    BY <1>9 DEF Good, CalmInv, EventsOK, CreateOK
  <2> QED BY <1>1, <2>1, <2>2, PopEvents
<1>15. MovedOK' /\ TodoOK'
  BY <1>4 DEF MovedOK, TodoOK
<1>16. DirOK'
  BY <1>6 DEF Good, CalmInv, DirOK
<1>17. WatchOK'
  <2>1. /\ \A x : FileAwaited(x)' => FileAwaited(x)
        /\ \A x : FileAwaited(x) => FileAwaited(x)' \/ x = v
    BY <1>1, PopLine
  <2>2. \A j, k \in Inodes : watch'[j] = watch'[k] /\ watch'[j] # NoWd => j = k
    BY <1>2, <1>7 DEF Good, CalmInv, WatchOK
  <2>3. \A j \in Inodes : watch'[j] # NoWd => ~FileAwaited(watch'[j])
    BY <1>2, <1>7 DEF Good, CalmInv, WatchOK
  <2>4. FileAwaited(v)
    BY <1>1, PendingIsLine DEF OnLine, Good
  <2>5. ASSUME NEW j \in Inodes, watch'[j] # NoWd
        PROVE  \E u \in live : /\ trace'[u].wd = watch'[j]
                               /\ trace'[u].ino = j
                                  \/ (dir[trace'[u].path] = j /\ (Doomed(u)' \/ Ending(u)'))
    <3>1. CASE j = i
      <4>1. trace[t].ino = i \/ (dir[trace[t].path] = i /\ Doomed(t)')
        BY <1>3, <1>12 DEF Home
      <4> QED BY <1>6, <1>7, <3>1, <4>1
    <3>2. CASE j # i
      <4>1. PICK u \in live : /\ trace[u].wd = watch[j]
                              /\ trace[u].ino = j
                                 \/ (dir[trace[u].path] = j /\ (Doomed(u) \/ Ending(u)))
        BY <1>7, <2>5, <3>2 DEF Good, CalmInv, WatchOK
      <4>2. u # t
        BY <1>7, <2>3, <2>4, <2>5, <3>2, <4>1
      <4> QED BY <1>6, <1>7, <1>11, <3>2, <4>1, <4>2
    <3> QED BY <3>1, <3>2
  <2>6. ASSUME NEW u \in live
        PROVE  /\ trace'[u].wd # NoWd
               /\ Named(trace[u].ino) =>
                     \/ watch'[trace[u].ino] = trace'[u].wd
                     \/ FileAwaited(trace'[u].wd) /\ trace'[u].wd # v
    <3>1. /\ trace[u].wd # NoWd
          /\ Named(trace[u].ino) => watch[trace[u].ino] = trace[u].wd \/ FileAwaited(trace[u].wd)
      BY <1>1 DEF Good, CalmInv, WatchOK
    <3>2. CASE u = t
      <4>1. Named(trace[t].ino) => trace[t].ino = i
        BY <1>3 DEF Home, Doomed
      <4>2. w # NoWd /\ trace'[t].wd = w
        BY <1>6
      <4> QED BY <1>2, <1>7, <3>2, <4>1, <4>2
    <3>3. CASE u # t
      <4>1. trace[u].wd # v
        BY <3>1, <3>3 DEF Good, IndexUnique
      <4>2. trace[u].ino # i
        BY <1>2, <3>3
      <4> QED BY <1>6, <1>7, <3>1, <3>3, <4>1, <4>2, TraceFacts
    <3> QED BY <3>2, <3>3
  <2> QED BY <1>6, <1>9, <2>1, <2>2, <2>3, <2>5, <2>6 DEF WatchOK
<1>18. Covered'
  <2>1. \A m : Awaited("CREATE", m) => Awaited("CREATE", m)'
    BY <1>1, PopLine DEF IsEvent
  <2> QED BY <1>6, <2>1 DEF Good, CalmInv, Covered
<1>19. WakeUpPending'
  <2>1. \A u \in live : u # t => trace[u].wd # v
    BY <1>1 DEF Good, IndexUnique, CalmInv, WatchOK
  <2> QED BY <1>1, <1>4, <1>5, <1>6, <2>1, PopWake, TraceFacts DEF IsEvent
<1>20. GotOK' /\ AtMostOnce'
  BY <1>6, <1>9, GotKept
<1>21. CheckOK'
  BY <1>5 DEF CheckOK
<1> QED
  BY <1>13, <1>14, <1>15, <1>16, <1>17, <1>18, <1>19, <1>20, <1>21, CalmParts DEF Shape

LEMMA OnFileCalm == ASSUME Good, IInv', OnFile PROVE CalmInv'
<1> DEFINE v == Head(batch).wd
<1>1. NextIs("FILE") /\ UNCHANGED <<dir, born, size, queue, todo, full, moved, got, twice>>
  BY DEF OnFile
<1>2. /\ 1 \in Spots /\ Line[1] = Head(batch) /\ IsEvent(1, "FILE")
      /\ pc = "loop" /\ pc \notin Checking
  <2>1. batch # <<>> /\ Len(batch) \in Nat /\ Len(batch) > 0 /\ Line[1] = batch[1]
    BY <1>1, LineFacts DEF NextIs, Good, IInv, TypeOK
  <2> QED BY <1>1, <2>1, LineFacts DEF NextIs, Spots, Good, IsEvent, Checking
<1>3. v \in Wds /\ v # NoWd
  BY <1>2, EventFacts DEF IsEvent, Good
<1>4. \A t, u \in live : trace[t].wd = v /\ trace[u].wd = v => t = u
  BY <1>3 DEF Good, IndexUnique
<1>5. ASSUME batch' = Tail(batch), UNCHANGED <<watch, live, trace>>, pc' \in {"loop", "check"},
             \/ job' = job /\ pc' = pc /\ TraceOfWd(v) = {}
             \/ \E t \in TraceOfWd(v) : /\ dir[trace[t].path] = NoInode
                                        /\ job' = CheckBy(t, "gone") /\ pc' = "check"
      PROVE  CalmInv'
  <2>1. Popped /\ Len(batch') = Len(batch) - 1
    BY <1>1, <1>5, HeadPopped
  <2>2. \A t \in live : trace[t].wd = v => ~Moving(t) /\ ~Ending(t)
    BY <1>2, HeadPhase
  <2>3. \A t \in live : trace[t].wd = v => job'.t = t /\ Doomed(t)
    BY <1>4, <1>5, <2>2, TraceFacts DEF TraceOfWd, CheckBy, Good, CalmInv, Phases, Home
  <2>4. Shape'
    <3>1. \A t \in live : Moving(t) => job'.t # t
      BY <1>2, <1>5, <2>2, NoCheck, TraceFacts DEF TraceOfWd, CheckBy
    <3>2. \A t \in live : Line[1].wd = trace[t].wd => ~Named(trace[t].ino)
      BY <1>2, <2>3 DEF Doomed
    <3>3. ~IsEvent(1, "DELETE")
      BY <1>2 DEF IsEvent
    <3> QED BY <1>1, <1>2, <1>5, <2>1, <3>1, <3>2, <3>3, PopShape
  <2>5. WakeUpPending'
    BY <1>1, <1>2, <1>5, <2>1, <2>3, PopWake, NoCheck, TraceFacts DEF IsEvent
  <2>6. CheckOK'
    <3>1. CASE job' = job /\ pc' = pc
      BY <1>2, <3>1, NoCheck DEF CheckOK, NoJob, Checking
    <3>2. ASSUME NEW t \in TraceOfWd(v), job' = CheckBy(t, "gone"), pc' = "check" PROVE CheckOK'
      <4>1. Doomed(t) /\ t \in live
        BY <2>3 DEF TraceOfWd
      <4>2. Doomed(t)'
        BY <1>1, <1>2, <1>5, <2>1, <4>1, PopPhase DEF SameKeys, IsEvent
      <4> QED BY <3>2, <4>2 DEF CheckOK, CheckBy, Checking
    <3> QED BY <1>5, <3>1, <3>2
  <2>7. GotOK' /\ AtMostOnce'
    BY <1>1, <1>5, GotKept DEF Traced
  <2> QED BY <1>5, <2>4, <2>5, <2>6, <2>7, CalmParts
<1>6. ASSUME NEW t \in TraceOfWd(v), NEW w, AddWatchReturns(watch, trace[t].path, w, UsedWds)
      PROVE  /\ w = NoWd => dir[trace[t].path] = NoInode
             /\ w # NoWd => TraceOfWd(w) \ {t} = {}
  <2>1. t \in live /\ trace[t].wd = v
    BY DEF TraceOfWd
  <2>2. w = NoWd => dir[trace[t].path] = NoInode
    BY <1>6, DirAssumption DEF AddWatchReturns, Wds, NoWd
  <2>3. w # NoWd => \A u \in live : trace[u].wd # w
    BY <1>2, <1>6, <2>1, RearmFacts
  <2> QED BY <2>2, <2>3 DEF TraceOfWd
<1>7. ASSUME NEW t \in TraceOfWd(v), NEW w, AddWatchReturns(watch, trace[t].path, w, UsedWds),
             w # NoWd, watch' = Rearmed(t, w), trace' = [trace EXCEPT ![t].wd = w],
             job' = CheckBy(t, "event"), pc' = "check", batch' = Tail(batch), live' = live
      PROVE  CalmInv'
  BY <1>1, <1>7, RearmCalm DEF Rearmed, TraceOfWd
<1>8. ASSUME NEW t \in TraceOfWd(v), NEW w, AddWatchReturns(watch, trace[t].path, w, UsedWds),
             w = NoWd, job' = CheckBy(t, "gone"), pc' = "check", batch' = Tail(batch),
             UNCHANGED <<watch, live, trace>>
      PROVE  CalmInv'
  BY <1>5, <1>6, <1>8
<1>9. ASSUME TraceOfWd(v) = {}, batch' = Tail(batch), UNCHANGED <<watch, live, trace, pc, job>>
      PROVE  CalmInv'
  BY <1>2, <1>5, <1>9
<1> QED BY <1>6, <1>7, <1>8, <1>9 DEF OnFile

-----------------------------------------------------------------------------
(* A file is adopted *)

\* The line when n is adopted: LoadEntry leaves it alone, OnCreate takes n's
\* event, and no other event is of n.
AdoptsFrom(n) ==
    /\ Quiet(n)'
    /\ \/ Line' = Line /\ batch' = batch /\ todo \subseteq todo' \cup {n}
       \/ /\ Popped /\ Len(batch') = Len(batch) - 1
          /\ IsEvent(1, "CREATE") /\ Line[1].name = n /\ todo' = todo

LEMMA AdoptLine ==
    ASSUME Good, IInv', NEW n \in Names, AdoptsFrom(n), UNCHANGED <<dir, moved, watch>>, moved = {},
           \A u \in live : SameKeys(u) /\ trace'[u].count = trace[u].count /\ job'.t # u
    PROVE  /\ \A u \in live : /\ Home(u) => Home(u)'
                              /\ Doomed(u) => Doomed(u)'
                              /\ Moving(u) => Moving(u)'
                              /\ Awakened(u) => Awakened(u)'
           /\ \A m : Quiet(m) => Quiet(m)'
           /\ \A w : FileAwaited(w)' <=> FileAwaited(w)
           /\ \A m : Awaited("CREATE", m) => Awaited("CREATE", m)' \/ m = n
<1>1. \A u : ~Arrives(u)
  BY DEF Arrives
<1>2. CASE Line' = Line
  <2>1. ASSUME NEW u \in live
        PROVE  /\ Home(u) => Home(u)'
               /\ Doomed(u) => Doomed(u)'
               /\ Awakened(u) => Awakened(u)'
               /\ Moving(u) => Moving(u)'
    <3>1. Named(trace[u].ino)' <=> Named(trace[u].ino)
      BY DEF Named, SameKeys
    <3>2. Home(u) => Home(u)'
      BY <1>2 DEF Home, Quiet, Spots, SameKeys
    <3>3. Doomed(u) => Doomed(u)'
      BY <1>2, <3>1 DEF Doomed, Spots, IsEvent, SameKeys
    <3>4. Awakened(u) => Awakened(u)'
      BY <1>2 DEF Awakened, Spots, IsEvent, SameKeys
    <3>5. \A k : Leaves(u, k) => Leaves(u, k)'
      BY <1>2 DEF SameKeys, Leaves, IsEvent, Spots, FileEvent
    <3>6. Moving(u) => Moving(u)'
      BY <1>1, <1>2, <3>5 DEF Moving, Spots
    <3> QED BY <3>2, <3>3, <3>4, <3>6
  <2>2. \A m : Quiet(m) => Quiet(m)'
    BY <1>2 DEF Quiet, Spots
  <2> QED BY <1>2, <2>1, <2>2, AwaitedKept DEF Good
<1>3. CASE Popped /\ IsEvent(1, "CREATE") /\ Line[1].name = n
  <2>1. \A k \in Spots : k = 1 \/ (k - 1 \in Spots' /\ Line'[k - 1] = Line[k])
    BY <1>3, PopLine
  <2>2. ASSUME NEW u \in live
        PROVE  /\ Home(u) => Home(u)'
               /\ Doomed(u) => Doomed(u)'
               /\ Moving(u) => Moving(u)'
    <3>1. (Home(u) => Home(u)') /\ (Doomed(u) => Doomed(u)')
      BY <1>3, PopPhase DEF IsEvent
    <3>2. ASSUME Moving(u) PROVE Moving(u)'
      <4>1. PICK k \in Spots : Leaves(u, k)
        BY <1>1, <3>2 DEF Moving
      <4>2. k # 1
        BY <1>3, <4>1 DEF Leaves, IsEvent
      <4>3. ASSUME NEW p, p = k - 1 PROVE p \in Spots' /\ Leaves(u, p)'
        BY <1>3, <4>1, <4>2, <4>3, PopPhase
      <4> QED BY <3>2, <4>3 DEF Moving
    <3> QED BY <3>1, <3>2
  <2>3. ASSUME NEW u \in live, Awakened(u) PROVE Awakened(u)'
    <3>1. \A k \in Spots : \A mask : IsEvent(k, mask) /\ mask # "CREATE" => k # 1
      BY <1>3 DEF IsEvent
    <3>2. /\ \A k \in Spots : k # 1 => k - 1 \in Spots' /\ Line'[k - 1] = Line[k]
          /\ SameKeys(u) /\ trace'[u].count = trace[u].count
      BY <2>1
    <3>3. CASE \E k \in Spots : IsEvent(k, "FILE") /\ Line[k].wd = trace[u].wd
      BY <3>1, <3>2, <3>3 DEF Awakened, IsEvent, SameKeys
    <3>4. CASE \E k \in Spots : IsEvent(k, "DELETE") /\ Line[k].name = trace[u].path
      BY <3>1, <3>2, <3>4 DEF Awakened, IsEvent, SameKeys
    <3>5. CASE \E k \in Spots : IsEvent(k, "MOVED_FROM") /\ Line[k].name = trace[u].path
      BY <3>1, <3>2, <3>5 DEF Awakened, IsEvent, SameKeys
    <3>6. CASE trace[u].count > 0 \/ \E m \in moved : m.path = trace[u].path
      BY <3>2, <3>6 DEF Awakened, SameKeys
    <3> QED BY <2>3, <3>3, <3>4, <3>5, <3>6 DEF Awakened
  <2>4. \A w : FileAwaited(w)' <=> FileAwaited(w)
    BY <1>3, PopLine DEF IsEvent
  <2>5. \A m : Awaited("CREATE", m) => Awaited("CREATE", m)' \/ m = n
    BY <1>3, PopLine
  <2>6. \A m : Quiet(m) => Quiet(m)'
    BY <1>3, PopLine
  <2> QED BY <2>2, <2>3, <2>4, <2>5, <2>6
<1> QED BY <1>2, <1>3 DEF AdoptsFrom

LEMMA AdoptEvents ==
    ASSUME Good, IInv', NEW n \in Names, AdoptsFrom(n), UNCHANGED <<dir, moved>>, moved = {},
           dir[n] # NoInode,
           \A i : Traced(i)' => Traced(i) \/ i = dir[n],
           \A m : TraceAt(m) = {} /\ m # n => TraceAt(m)' = {}
    PROVE  EventsOK'
<1>1. \A u : ~Arrives(u)
  BY DEF Arrives
<1>2. \A k \in Spots : IsEvent(k, "MOVED_TO") => TraceAt(Line[k].name) = {}
  BY <1>1 DEF Good, CalmInv, EventsOK, ToOK
<1>3. \A k \in Spots : \A i : IsEvent(k, "CREATE") /\ Line[k].name # n /\ i = dir[Line[k].name] =>
         ~Traced(i)'
  <2> SUFFICES ASSUME NEW k \in Spots, IsEvent(k, "CREATE"), Line[k].name # n
               PROVE  ~Traced(dir[Line[k].name]) /\ dir[Line[k].name] # dir[n]
    OBVIOUS
  <2>1. Line[k].name \in Names
    BY EventFacts DEF IsEvent, Good
  <2> QED BY <2>1 DEF Good, CalmInv, EventsOK, CreateOK, DirOK
<1>4. \A k \in Spots : \A m : IsEvent(k, "MOVED_TO") /\ Line[k].name # n /\ m = Line[k].name =>
         TraceAt(m)' = {}
  BY <1>2
<1>5. CASE Line' = Line /\ batch' = batch
  <2> SUFFICES ASSUME NEW k \in Spots PROVE CreateOK(k)' /\ FromOK(k)' /\ ToOK(k)'
    BY <1>5 DEF EventsOK, Spots
  <2>1. CreateOK(k) /\ FromOK(k) /\ ToOK(k)
    BY DEF Good, CalmInv, EventsOK
  <2>2. Line[k].name # n
    BY <1>5 DEF AdoptsFrom, Quiet, Spots
  <2>3. CreateOK(k)'
    BY <1>3, <1>5, <2>1, <2>2 DEF CreateOK, IsEvent, Spots
  <2>4. FromOK(k)'
    BY <1>5, <2>1 DEF FromOK, IsEvent, Spots
  <2>5. ToOK(k)'
    BY <1>4, <1>5, <2>1, <2>2 DEF ToOK, IsEvent, Spots
  <2> QED BY <2>3, <2>4, <2>5
<1>6. CASE Popped /\ Len(batch') = Len(batch) - 1
  <2>1. \A k \in Spots : k # 1 => Line[k].name # n
    <3> SUFFICES ASSUME NEW k \in Spots, k # 1 PROVE Line[k].name # n
      OBVIOUS
    <3>1. k - 1 \in Spots' /\ Line'[k - 1] = Line[k]
      BY <1>6, PopLine
    <3> QED BY <3>1 DEF AdoptsFrom, Quiet
  <2> QED BY <1>3, <1>4, <1>6, <2>1, PopEvents
<1> QED BY <1>5, <1>6 DEF AdoptsFrom

LEMMA AdoptCalm ==
    ASSUME Good, IInv', NEW n \in Names, NEW whole, NEW caller \in {"load", "create"},
           OpenFile(n, whole, caller), pc \notin Checking, moved = {}, AdoptsFrom(n),
           ~Traced(dir[n]), todo' \subseteq todo \ {n}, todo' # {} => caller = "load"
    PROVE  CalmInv'
<1>1. PICK t \in Traces :
         /\ NewTrace(t)
         /\ live' = live \cup {t}
         /\ trace' = [trace EXCEPT ![t] =
                         [ino |-> dir[n], path |-> n, wd |-> NoWd, count |-> 0,
                          offset |-> IF whole THEN 0 ELSE size[dir[n]]]]
         /\ job' = CheckBy(t, caller)
  BY DEF OpenFile
<1>2. /\ dir[n] # NoInode /\ TraceAt(n) = {} /\ pc' = "watch" /\ t \notin live
      /\ UNCHANGED <<dir, born, size, watch, queue, full, moved, got, twice>>
  BY <1>1 DEF OpenFile, NewTrace
<1>3. dir[n] \in Inodes /\ size[dir[n]] \in Nat /\ dir[n] <= born
  BY <1>2, DirAssumption DEF Good, IInv, TypeOK, CalmInv, DirOK
<1>4. /\ trace'[t].ino = dir[n] /\ trace'[t].path = n /\ trace'[t].wd = NoWd
      /\ trace'[t].count = 0 /\ trace'[t].offset \in Nat /\ trace'[t].offset <= size[dir[n]]
      /\ \A u \in live : trace'[u] = trace[u] /\ u # t
  BY <1>1, <1>2, <1>3 DEF Good, IInv, TypeOK
<1>5. /\ job'.t = t /\ job'.caller = caller /\ pc' \in Checking
      /\ job = NoJob /\ \A u \in live : u # job.t
  BY <1>1, <1>2, NoCheck, TraceFacts DEF CheckBy, Checking
<1>6. /\ \A i : Traced(i)' <=> Traced(i) \/ i = dir[n]
      /\ \A m : TraceAt(m)' = IF m = n THEN {t} ELSE TraceAt(m)
      /\ \A i : Named(i)' <=> Named(i)
  <2>1. \A i : Traced(i)' <=> Traced(i) \/ i = dir[n]
    BY <1>1, <1>4 DEF Traced
  <2>2. ASSUME NEW m PROVE TraceAt(m)' = IF m = n THEN {t} ELSE TraceAt(m)
    BY <1>1, <1>2, <1>4 DEF TraceAt
  <2> QED BY <1>2, <2>1, <2>2 DEF Named
<1>7. \A u \in live : SameKeys(u) /\ trace'[u].count = trace[u].count /\ job'.t # u
  BY <1>4, <1>5 DEF SameKeys
<1>8. /\ \A u \in live : /\ Home(u) => Home(u)'
                         /\ Doomed(u) => Doomed(u)'
                         /\ Moving(u) => Moving(u)'
                         /\ Awakened(u) => Awakened(u)'
      /\ \A m : Quiet(m) => Quiet(m)'
      /\ \A w : FileAwaited(w)' <=> FileAwaited(w)
      /\ \A m : Awaited("CREATE", m) => Awaited("CREATE", m)' \/ m = n
  BY <1>2, <1>7, AdoptLine
<1>9. Home(t)'
  BY <1>2, <1>4 DEF Home, AdoptsFrom
<1>10. \A u \in live : ~Ending(u)
  BY NoCheck
<1>11. Phases'
  BY <1>1, <1>8, <1>9, <1>10 DEF Phases, Good, CalmInv
<1>12. EventsOK'
  BY <1>2, <1>6, AdoptEvents
<1>13. MovedOK'
  BY <1>2 DEF MovedOK
<1>14. DirOK'
  <2>1. \A u \in live : trace[u].ino # dir[n]
    BY DEF Traced
  <2> QED BY <1>1, <1>2, <1>3, <1>4, <2>1 DEF Good, CalmInv, DirOK
<1>15. TodoOK'
  <2>1. ASSUME NEW m \in todo'
        PROVE  Quiet(m)' /\ TraceAt(m)' = {} /\ ~Traced(dir[m]) /\ dir[m] # dir[n]
    <3>1. m \in todo /\ m # n /\ m \in Names
      BY <2>1 DEF Good, IInv, TypeOK
    <3>2. Quiet(m) /\ TraceAt(m) = {} /\ ~Traced(dir[m])
      BY <3>1 DEF Good, CalmInv, TodoOK
    <3>3. dir[m] # dir[n]
      BY <1>2, <3>1 DEF Good, CalmInv, DirOK
    <3> QED BY <1>6, <1>8, <3>1, <3>2, <3>3
  <2> QED BY <1>2, <1>5, <1>6, <2>1 DEF TodoOK
<1>16. WatchOK'
  <2>1. ASSUME NEW i \in Inodes, watch[i] # NoWd
        PROVE  \E u \in live' : /\ trace'[u].wd = watch[i]
                                /\ trace'[u].ino = i
                                   \/ (dir[trace'[u].path] = i /\ (Doomed(u)' \/ Ending(u)'))
    BY <1>1, <1>4, <1>8, <1>10, <2>1 DEF Good, CalmInv, WatchOK
  <2>2. ASSUME NEW u \in live', u # job'.t
        PROVE  /\ trace'[u].wd # NoWd
               /\ Named(trace'[u].ino) =>
                    watch[trace'[u].ino] = trace'[u].wd \/ FileAwaited(trace'[u].wd)
    BY <1>1, <1>4, <1>5, <2>2 DEF Good, CalmInv, WatchOK
  <2> QED BY <1>2, <1>6, <1>8, <2>1, <2>2 DEF Good, CalmInv, WatchOK
<1>17. Covered'
  <2>1. todo \subseteq todo' \cup {n}
    BY DEF AdoptsFrom
  <2>2. \A m \in Names : dir[m] # NoInode =>
           m \in todo \/ Awaited("CREATE", m) \/ \E u \in live : trace[u].ino = dir[m]
    BY DEF Good, CalmInv, Covered
  <2>3. \A m \in Names : dir[m] # NoInode =>
           m \in todo' \/ Awaited("CREATE", m)' \/ \E u \in live' : trace'[u].ino = dir[m]
    BY <1>1, <1>4, <1>8, <2>1, <2>2
  <2> QED BY <1>2, <2>3 DEF Covered
<1>18. WakeUpPending'
  <2> SUFFICES ASSUME NEW u \in live', u # job'.t, size[trace'[u].ino] > trace'[u].offset
               PROVE  Awakened(u)'
    BY <1>2, WakeIsLineNext DEF AllAwakened
  <2>1. u \in live /\ trace'[u] = trace[u] /\ u # job.t
    BY <1>1, <1>4, <1>5
  <2> QED BY <1>8, <2>1, WakeIsLine DEF Good, CalmInv, AllAwakened
<1>19. GotOK' /\ AtMostOnce'
  <2>1. got[dir[n]] = {}
    BY <1>2 DEF Good, CalmInv, GotOK
  <2>2. \A u \in live' : trace'[u].offset <= size[trace'[u].ino]
                         /\ got[trace'[u].ino] \subseteq 1 .. trace'[u].offset
    BY <1>1, <1>4, <2>1 DEF Good, CalmInv, GotOK
  <2> QED BY <1>2, <1>6, <2>2 DEF Good, CalmInv, GotOK, AtMostOnce
<1>20. CheckOK'
  BY <1>2, <1>4, <1>5, <1>9 DEF CheckOK
<1> QED
  BY <1>2, <1>11, <1>12, <1>13, <1>14, <1>15, <1>16, <1>17, <1>18, <1>19, <1>20, CalmParts
  DEF Shape

LEMMA LoadEntryCalm == ASSUME Good, IInv', LoadEntry PROVE CalmInv'
<1>1. PICK n \in todo :
         /\ todo' = todo \ {n}
         /\ \/ /\ dir[n] = NoInode \/ Awaited("CREATE", n)
               /\ UNCHANGED <<dir, born, size, watch, queue, pc, full, live, trace, moved, job,
                              got, twice>>
            \/ OpenFile(n, full, "load")
  BY DEF LoadEntry
<1>2. pc = "load" /\ pc \notin Checking /\ batch' = batch
  BY DEF LoadEntry, Checking
<1>3. CASE OpenFile(n, full, "load")
  <2>1. n \in Names /\ Quiet(n) /\ ~Traced(dir[n])
    BY DEF Good, IInv, TypeOK, CalmInv, TodoOK
  <2>2. queue' = queue
    BY <1>3 DEF OpenFile
  <2>3. Line' = Line
    BY <1>2, <2>2 DEF Line
  <2>4. AdoptsFrom(n)
    BY <1>1, <1>2, <2>1, <2>3 DEF AdoptsFrom, Quiet, Spots
  <2>5. moved = {}
    BY <1>2, NoCheck
  <2> QED BY <1>1, <1>2, <1>3, <2>1, <2>4, <2>5, AdoptCalm
<1>4. CASE /\ dir[n] = NoInode \/ Awaited("CREATE", n)
           /\ UNCHANGED <<dir, born, size, watch, queue, pc, full, live, trace, moved, job,
                          got, twice>>
  BY <1>1, <1>2, <1>4, SkipCalm
<1> QED BY <1>1, <1>3, <1>4

\* An event of a new file finds the file, and no trace of its name.
LEMMA OnCreateCalm == ASSUME Good, IInv', OnCreate PROVE CalmInv'
<1>0. PICK n : n = Head(batch).name
  OBVIOUS
<1>1. NextIs("CREATE")
  BY DEF OnCreate
<1>2. /\ 1 \in Spots /\ Line[1] = Head(batch) /\ IsEvent(1, "CREATE")
      /\ pc = "loop" /\ pc \notin Checking
  <2>1. batch # <<>> /\ Len(batch) \in Nat /\ Len(batch) > 0 /\ Line[1] = batch[1]
    BY <1>1, LineFacts DEF NextIs, Good, IInv, TypeOK
  <2> QED BY <1>1, <2>1, LineFacts DEF NextIs, Spots, Good, IsEvent, Checking
<1>3. n \in Names /\ dir[n] # NoInode /\ ~Traced(dir[n])
      /\ \A j \in Spots : j > 1 => Line[j].name # n
  BY <1>0, <1>2, EventFacts DEF IsEvent, Good, CalmInv, EventsOK, CreateOK
<1>4. moved = {} /\ todo = {}
  BY <1>2, NoCheck DEF Good, CalmInv, MovedOK, IsEvent
<1>5. TraceAt(n) = {}
  <2> SUFFICES ASSUME NEW t \in live, trace[t].path = n PROVE FALSE
    BY DEF TraceAt
  <2>1. \A k \in Spots : Line[k].name = n => k = 1
    BY <1>3, LineFacts DEF Spots, Good
  <2>2. ~Home(t)
    BY <1>0, <1>2 DEF Home, Quiet
  <2>3. ~Doomed(t)
    BY <1>2, <2>1 DEF Doomed, IsEvent
  <2>4. ~Moving(t)
    BY <1>2, <2>1 DEF Moving, Arrives, Leaves, IsEvent
  <2> QED BY <1>2, <2>2, <2>3, <2>4, NoCheck DEF Good, CalmInv, Phases
<1>6. CASE /\ OpenFile(n, TRUE, "create")
           /\ batch' = Tail(batch)
           /\ UNCHANGED todo
  <2>1. queue' = queue
    BY <1>6 DEF OpenFile
  <2>2. Popped /\ Len(batch') = Len(batch) - 1
    BY <1>1, <1>6, <2>1, HeadPopped
  <2>3. Quiet(n)'
    BY <1>3, <2>2, PopLine DEF Quiet, Spots
  <2>4. AdoptsFrom(n)
    BY <1>0, <1>2, <1>6, <2>2, <2>3 DEF AdoptsFrom
  <2> QED BY <1>2, <1>3, <1>4, <1>6, <2>4, AdoptCalm
<1> QED BY <1>0, <1>3, <1>5, <1>6 DEF OnCreate

-----------------------------------------------------------------------------
(* A file is renamed *)

\* The event before the pair's second finds the trace by its old name.
LEMMA OnMovedFromCalm == ASSUME Good, IInv', OnMovedFrom PROVE CalmInv'
<1>0. PICK p, c : p = Head(batch).name /\ c = Head(batch).cookie
  OBVIOUS
<1>1. /\ NextIs("MOVED_FROM") /\ batch' = Tail(batch)
      /\ moved' = IF TraceAt(p) = {} THEN moved ELSE moved \cup {[path |-> p, cookie |-> c]}
      /\ UNCHANGED <<dir, born, size, watch, queue, pc, todo, full, live, trace, job, got, twice>>
  BY <1>0 DEF OnMovedFrom
<1>2. /\ Popped /\ Len(batch') = Len(batch) - 1
      /\ 1 \in Spots /\ Line[1].name = p /\ Line[1].cookie = c /\ IsEvent(1, "MOVED_FROM")
      /\ pc = "loop" /\ pc \notin Checking
  BY <1>0, <1>1, HeadPopped
<1>3. moved = {} /\ todo = {} /\ job = NoJob /\ job.t = 0 /\ p \in Names
  BY <1>2, NoCheck, EventFacts DEF Good, CalmInv, MovedOK, IsEvent
<1>4. 2 \in Spots /\ IsEvent(2, "MOVED_TO") /\ Line[2].cookie = c
  BY <1>2 DEF Good, CalmInv, EventsOK, FromOK
<1>5. PICK t \in live : trace[t].ino = dir[Line[2].name] /\ Moving(t) /\ Leaves(t, 1)
  BY <1>4, MoverFacts
<1>6. trace[t].path = p /\ \A u \in live : trace[u].path = p => u = t
  BY <1>2, <1>5, OnePath DEF Leaves
<1>7. moved' = {[path |-> p, cookie |-> c]}
  BY <1>1, <1>3, <1>6 DEF TraceAt
<1>8. 1 \in Spots' /\ Line'[1] = Line[2]
  BY <1>2, <1>4, PopLine
<1>9. \A u \in live : SameKeys(u)
  BY <1>1 DEF SameKeys
<1>10. \A u : ~Arrives(u)
  BY <1>3 DEF Arrives
<1>11. Arrives(t)'
  BY <1>1, <1>4, <1>5, <1>6, <1>7, <1>8, LineFactsNext DEF Arrives, Spots, IsEvent
<1>12. ASSUME NEW u \in live
       PROVE  /\ Home(u) => Home(u)'
              /\ Doomed(u) => Doomed(u)'
              /\ ~Ending(u)
              /\ Moving(u) => Moving(u)'
  <2>1. (Home(u) => Home(u)') /\ (Doomed(u) => Doomed(u)')
    BY <1>1, <1>2, <1>9, PopPhase DEF IsEvent
  <2>2. ASSUME Moving(u) PROVE Moving(u)'
    <3>1. PICK k \in Spots : Leaves(u, k)
      BY <1>10, <2>2 DEF Moving
    <3>2. trace'[u].count = 0 /\ job'.t # u
      BY <1>1, <2>2 DEF Moving
    <3>3. CASE k = 1
      BY <1>2, <1>6, <1>11, <3>1, <3>2, <3>3 DEF Leaves, Moving
    <3>4. CASE k # 1
      <4>1. ASSUME NEW q, q = k - 1 PROVE q \in Spots' /\ Leaves(u, q)'
        BY <1>1, <1>2, <1>9, <3>1, <3>4, <4>1, PopPhase
      <4> QED BY <3>2, <4>1 DEF Moving
    <3> QED BY <3>3, <3>4
  <2> QED BY <1>2, <2>1, <2>2, NoCheck
<1>13. Phases'
  BY <1>1, <1>12 DEF Phases, Good, CalmInv
<1>14. /\ \A j : Traced(j)' <=> Traced(j)
       /\ \A n : TraceAt(n)' = TraceAt(n)
       /\ \A j : Named(j)' <=> Named(j)
  BY <1>1 DEF Traced, TraceAt, Named
<1>15. EventsOK'
  <2>1. \A k \in Spots : \A n : IsEvent(k, "MOVED_TO") /\ n = Line[k].name => TraceAt(n)' = {}
    BY <1>10, <1>14 DEF Good, CalmInv, EventsOK, ToOK
  <2>2. \A k \in Spots : \A j : IsEvent(k, "CREATE") /\ j = dir[Line[k].name] => ~Traced(j)'
    BY <1>14 DEF Good, CalmInv, EventsOK, CreateOK
  <2> QED BY <1>1, <1>2, <2>1, <2>2, PopEvents
<1>16. MovedOK'
  BY <1>1, <1>2, <1>3, <1>4, <1>7, <1>8, LineFactsNext DEF MovedOK, Spots, IsEvent
<1>17. TodoOK' /\ DirOK'
  BY <1>1, <1>3 DEF TodoOK, Good, CalmInv, DirOK
<1>18. \A w : FileAwaited(w)' <=> FileAwaited(w)
  BY <1>2, PopLine DEF IsEvent
<1>19. WatchOK'
  <2>1. ASSUME NEW i \in Inodes, watch[i] # NoWd
        PROVE  \E u \in live : /\ trace[u].wd = watch[i]
                               /\ trace[u].ino = i
                                  \/ (dir[trace[u].path] = i /\ (Doomed(u)' \/ Ending(u)'))
    BY <1>12, <2>1 DEF Good, CalmInv, WatchOK
  <2> QED BY <1>1, <1>14, <1>18, <2>1 DEF Good, CalmInv, WatchOK
<1>20. Covered'
  <2>1. \A n : Awaited("CREATE", n) => Awaited("CREATE", n)'
    BY <1>2, PopLine DEF IsEvent
  <2> QED BY <1>1, <2>1 DEF Good, CalmInv, Covered
<1>21. WakeUpPending'
  <2>1. \E m \in moved' : m.path = p
    BY <1>7
  <2>2. ~IsEvent(1, "FILE") /\ ~IsEvent(1, "DELETE") /\ moved \subseteq moved'
    BY <1>2, <1>3 DEF IsEvent
  <2>3. \A u \in live : u # job.t /\ trace'[u] = trace[u]
    BY <1>1, <1>3, TraceFacts
  <2> QED BY <1>1, <1>2, <2>1, <2>2, <2>3, PopWake
<1>22. GotOK' /\ AtMostOnce'
  BY <1>1, <1>14, GotKept
<1>23. CheckOK'
  BY <1>1, <1>2, <1>3 DEF CheckOK, NoJob, Checking
<1> QED
  BY <1>1, <1>2, <1>13, <1>15, <1>16, <1>17, <1>19, <1>20, <1>21, <1>22, <1>23, CalmParts DEF Shape

LEMMA ConcatAt ==
    ASSUME NEW S, NEW a \in Seq(S), NEW b \in Seq(S), NEW k \in 1 .. Len(a) + Len(b)
    PROVE  (a \o b)[k] = IF k <= Len(a) THEN a[k] ELSE b[k - Len(a)]
OBVIOUS

\* The line after an event was handled and a file event came.
LEMMA PopPushFacts ==
    ASSUME Good, IInv', Room, batch # <<>>, batch' = Tail(batch), NEW w \in Wds,
           queue' = Enqueue(queue, FileEvent(w))
    PROVE  /\ Advanced /\ Len(batch') = Len(batch) - 1
           /\ \E k \in Spots' : Line'[k] = FileEvent(w)
           /\ \A k \in Spots' : \/ k + 1 \in Spots /\ Line'[k] = Line[k + 1]
                                \/ Line'[k] = FileEvent(w)
<1> DEFINE l == Len(Line)
<1>1. /\ batch \in Seq(Event) /\ queue \in Seq(Event) /\ batch' \in Seq(Event)
      /\ Len(batch') = Len(batch) - 1 /\ Len(batch) > 0 /\ Len(batch) \in Nat /\ Len(queue) \in Nat
      /\ \A k \in 1 .. Len(batch') : batch'[k] = batch[k + 1]
      /\ FileEvent(w) \in Event
  BY FileEventType DEF Good, IInv, TypeOK
<1>2. queue' = Append(queue, FileEvent(w))
  BY <1>1, DirAssumption DEF Room, Enqueue
<1>3. /\ queue' \in Seq(Event) /\ Len(queue') = Len(queue) + 1
      /\ \A k \in 1 .. Len(queue) : queue'[k] = queue[k]
      /\ queue'[Len(queue) + 1] = FileEvent(w)
  BY <1>1, <1>2
<1>4. /\ l \in Nat /\ l > 0 /\ l = Len(batch) + Len(queue)
      /\ \A k \in 1 .. l : Line[k] = IF k <= Len(batch) THEN batch[k] ELSE queue[k - Len(batch)]
  BY <1>1, ConcatAt DEF Line
<1>5. /\ Len(Line') = l
       /\ \A k \in 1 .. l :
             Line'[k] = IF k <= Len(batch') THEN batch'[k] ELSE queue'[k - Len(batch')]
  <2>1. Line' = batch' \o queue'
    BY DEF Line
  <2>3. \A a, b \in Seq(Event) : Len(a \o b) = Len(a) + Len(b)
    OBVIOUS
  <2>2. Len(batch') + Len(queue') = l
    BY <1>1, <1>3, <1>4
  <2>4. \A k \in 1 .. Len(batch') + Len(queue') :
           (batch' \o queue')[k] =
              IF k <= Len(batch') THEN batch'[k] ELSE queue'[k - Len(batch')]
    BY <1>1, <1>3, ConcatAt
  <2>5. Len(Line') = l
    BY <1>1, <1>3, <2>1, <2>2, <2>3
  <2> QED BY <2>1, <2>2, <2>4, <2>5
<1>6. Spots' = 1 .. l /\ Spots = 1 .. l
  BY <1>5 DEF Spots
<1>7. \A k \in 1 .. l : k # l => Line'[k] = Line[k + 1]
  <2> SUFFICES ASSUME NEW k \in 1 .. l, k # l PROVE Line'[k] = Line[k + 1]
    OBVIOUS
  <2>1. k + 1 \in 1 .. l /\ k \in Nat
    BY <1>4
  <2>2. CASE k <= Len(batch')
    <3>1. k + 1 <= Len(batch) /\ k \in 1 .. Len(batch')
      BY <1>1, <2>1, <2>2
    <3>2. Line[k + 1] = batch[k + 1] /\ Line'[k] = batch'[k]
      BY <1>4, <1>5, <2>1, <2>2, <3>1
    <3> QED BY <1>1, <3>1, <3>2
  <2>3. CASE k > Len(batch')
    <3>1. ~(k + 1 <= Len(batch)) /\ ~(k <= Len(batch')) /\ (k + 1) - Len(batch) = k - Len(batch')
          /\ k - Len(batch') \in 1 .. Len(queue)
      BY <1>1, <1>4, <2>1, <2>3
    <3>2. Line[k + 1] = queue[k - Len(batch')] /\ Line'[k] = queue'[k - Len(batch')]
      BY <1>4, <1>5, <2>1, <3>1
    <3> QED BY <1>3, <3>1, <3>2
  <2> QED BY <1>1, <2>1, <2>2, <2>3
<1>8. Line'[l] = FileEvent(w) /\ l \in 1 .. l
  <2>1. l \in 1 .. l /\ ~(l <= Len(batch')) /\ l - Len(batch') = Len(queue) + 1
    BY <1>1, <1>4
  <2>2. Line'[l] = queue'[l - Len(batch')]
    BY <1>5, <2>1
  <2> QED BY <1>3, <2>1, <2>2
<1> HIDE DEF l
<1>9. \A k \in Spots : k = 1 \/ (k - 1 \in Spots' /\ Line'[k - 1] = Line[k])
  <2> SUFFICES ASSUME NEW k \in Spots, k # 1 PROVE k - 1 \in Spots' /\ Line'[k - 1] = Line[k]
    OBVIOUS
  <2>1. k - 1 \in 1 .. l /\ k - 1 # l /\ (k - 1) + 1 = k
    BY <1>4, <1>6
  <2> QED BY <1>6, <1>7, <2>1
<1>10. \A k \in Spots' : \/ k + 1 \in Spots /\ Line'[k] = Line[k + 1]
                         \/ k + 1 \notin Spots /\ Line'[k] = FileEvent(w)
  BY <1>4, <1>6, <1>7, <1>8
<1>11. Advanced
  <2>1. 1 \in Spots
    BY <1>4, <1>6
  <2> QED BY <1>9, <1>10, <2>1 DEF Advanced, FileEvent
<1>12. \E k \in Spots' : Line'[k] = FileEvent(w)
  BY <1>6, <1>8
<1> QED BY <1>1, <1>10, <1>11, <1>12

\* The second event of the pair finds the trace by its old name in the list,
\* and the file under the new name, unwatched.
LEMMA RelocateFacts ==
    ASSUME Good, NextIs("MOVED_TO")
    PROVE  \E t \in live :
              /\ Arrives(t) /\ Moving(t) /\ trace[t].ino = dir[Head(batch).name]
              /\ moved = {[path |-> trace[t].path, cookie |-> Head(batch).cookie]}
              /\ {u \in live : \E m \in moved : trace[u].path = m.path} = {t}
              /\ {m \in moved : m.cookie = Head(batch).cookie} = moved
              /\ 1 \in Spots /\ Line[1] = Head(batch) /\ Head(batch).name \in Names
              /\ TraceAt(Head(batch).name) = {}
              /\ \A j \in Spots : Line[j].name = Head(batch).name => j = 1
              /\ Disarmed(watch, trace[t].wd)[trace[t].ino] = NoWd
<1>1. /\ 1 \in Spots /\ Line[1] = Head(batch) /\ IsEvent(1, "MOVED_TO")
      /\ pc = "loop" /\ pc \notin Checking
  <2>1. batch # <<>> /\ Len(batch) \in Nat /\ Len(batch) > 0 /\ Line[1] = batch[1]
    BY LineFacts DEF NextIs, Good, IInv, TypeOK
  <2> QED BY <2>1, LineFacts DEF NextIs, Spots, Good, IsEvent, Checking
<1>2. PICK n, c : n = Line[1].name /\ c = Line[1].cookie
  OBVIOUS
<1>3. n \in Names
  BY <1>1, <1>2, EventFacts DEF IsEvent, Good
<1>4. PICK t \in live : trace[t].ino = dir[n] /\ Moving(t) /\ Arrives(t)
  <2>1. 1 - 1 \notin Spots
    BY DEF Spots
  <2> QED BY <1>1, <1>2, <2>1, MoverFacts
<1>5. moved = {[path |-> trace[t].path, cookie |-> c]}
  BY <1>2, <1>4 DEF Arrives
<1>6. {u \in live : \E m \in moved : trace[u].path = m.path} = {t}
  BY <1>4, <1>5, OnePath
<1>7. {m \in moved : m.cookie = c} = moved
  BY <1>5
<1>8. ToOK(1)
  BY <1>1 DEF Good, CalmInv, EventsOK
<1>9. TraceAt(n) = {} /\ \A j \in Spots : Line[j].name = n => j = 1
  BY <1>1, <1>2, <1>8 DEF ToOK
<1>10. Disarmed(watch, trace[t].wd)[trace[t].ino] = NoWd
  <2> DEFINE i == trace[t].ino
  <2>1. i \in Inodes /\ i = dir[n]
    BY <1>4, TraceFacts
  <2>2. \A u \in live : trace[u].ino = i => u = t
    BY DEF Good, CalmInv, DirOK
  <2>3. ASSUME NEW u \in live, dir[trace[u].path] = i, Doomed(u) \/ Ending(u) PROVE FALSE
    <3>1. trace[u].path = n
      BY <1>3, <2>1, <2>3, TraceFacts DEF Good, CalmInv, DirOK
    <3> QED BY <1>9, <3>1 DEF TraceAt
  <2>4. watch[i] # NoWd => watch[i] = trace[t].wd
    BY <2>1, <2>2, <2>3 DEF Good, CalmInv, WatchOK
  <2> QED BY <2>1, <2>4 DEF Disarmed
<1> QED BY <1>1, <1>2, <1>3, <1>4, <1>5, <1>6, <1>7, <1>9, <1>10

\* The trace gets the new name and a descriptor that nothing knows yet, and
\* stays in the trees.
LEMMA RelocateFollows ==
    ASSUME Good, OnMovedTo, NEW n, NEW c, n = Head(batch).name, c = Head(batch).cookie
    PROVE  \E t \in live, w \in Wds :
              /\ Arrives(t) /\ Moving(t) /\ trace[t].ino = dir[n]
              /\ moved = {[path |-> trace[t].path, cookie |-> c]}
              /\ 1 \in Spots /\ Line[1] = Head(batch) /\ n \in Names
              /\ TraceAt(n) = {}
              /\ \A j \in Spots : Line[j].name = n => j = 1
              /\ Disarmed(watch, trace[t].wd)[trace[t].ino] = NoWd
              /\ w \notin UsedWds /\ w # NoWd
              /\ LET note == SendCloseWrite(n, Armed(Disarmed(watch, trace[t].wd), n, w), queue)
                 IN  watch' = note.watch /\ queue' = note.queue
              /\ moved' = {} /\ trace' = Moved(t, n, w) /\ live' = live
<1>1. NextIs("MOVED_TO")
  BY DEF OnMovedTo
<1>2. PICK t \in live :
         /\ Arrives(t) /\ Moving(t) /\ trace[t].ino = dir[n]
         /\ moved = {[path |-> trace[t].path, cookie |-> c]}
         /\ {u \in live : \E m \in moved : trace[u].path = m.path} = {t}
         /\ {m \in moved : m.cookie = c} = moved
         /\ 1 \in Spots /\ Line[1] = Head(batch) /\ n \in Names
         /\ TraceAt(n) = {}
         /\ \A j \in Spots : Line[j].name = n => j = 1
         /\ Disarmed(watch, trace[t].wd)[trace[t].ino] = NoWd
  BY <1>1, RelocateFacts
<1> DEFINE i == trace[t].ino
           v == trace[t].wd
           ws == Disarmed(watch, v)
<1>3. moved' = {} /\ \E u \in {t} : Relocate(u, n)
  <2> DEFINE ms == {m \in moved : m.cookie = c}
             ts == {u \in live : \E m \in ms : trace[u].path = m.path}
  <2>0. /\ {m \in moved : m.cookie = c} = moved
        /\ {u \in live : \E m \in moved : trace[u].path = m.path} = {t}
    BY <1>2
  <2>1. ms = moved /\ ts = {t}
    BY ONLY <2>0
  <2>2. moved' = moved \ ms /\ (ts = {} \/ \E u \in ts : Relocate(u, n))
    BY DEF OnMovedTo
  <2> HIDE DEF ms, ts
  <2> QED BY <2>1, <2>2
<1>4. dir[n] = i /\ i # NoInode /\ ws[i] = NoWd
  BY <1>2, TraceFacts
<1>6. PICK w \in Wds \cup {NoWd} :
         /\ AddWatchReturns(ws, n, w, UsedWds)
         /\ \/ /\ w = NoWd
               /\ Remove(t, ws, NoWd)
               /\ UNCHANGED queue
            \/ /\ w # NoWd /\ Collides(t, n, w)
               /\ Remove(t, Armed(ws, n, w), w)
               /\ UNCHANGED queue
            \/ /\ w # NoWd /\ ~Collides(t, n, w)
               /\ LET note == SendCloseWrite(n, Armed(ws, n, w), queue)
                  IN  watch' = note.watch /\ queue' = note.queue
               /\ trace' = Moved(t, n, w)
               /\ UNCHANGED live
  BY <1>3 DEF Relocate
<1>7. w \in Wds \ UsedWds /\ w # NoWd
  BY <1>4, <1>6, DirAssumption DEF AddWatchReturns, Wds, NoWd
<1>8. \A u \in live : trace[u].wd # w
  BY <1>7 DEF UsedWds
<1>9. ~Collides(t, n, w)
  BY <1>2, <1>8 DEF Collides, TraceOfWd
<1> QED BY <1>2, <1>3, <1>6, <1>7, <1>9

LEMMA OnMovedToCalm == ASSUME Good, IInv', Room, OnMovedTo PROVE CalmInv'
<1>0. PICK n, c : n = Head(batch).name /\ c = Head(batch).cookie
  OBVIOUS
<1>1. /\ NextIs("MOVED_TO") /\ batch' = Tail(batch)
      /\ UNCHANGED <<dir, born, size, pc, todo, full, job, got, twice>>
  BY DEF OnMovedTo
<1>2. PICK t \in live, w \in Wds :
         /\ Arrives(t) /\ Moving(t) /\ trace[t].ino = dir[n]
         /\ moved = {[path |-> trace[t].path, cookie |-> c]}
         /\ 1 \in Spots /\ Line[1] = Head(batch) /\ n \in Names
         /\ TraceAt(n) = {}
         /\ \A j \in Spots : Line[j].name = n => j = 1
         /\ Disarmed(watch, trace[t].wd)[trace[t].ino] = NoWd
         /\ w \notin UsedWds /\ w # NoWd
         /\ LET note == SendCloseWrite(n, Armed(Disarmed(watch, trace[t].wd), n, w), queue)
            IN  watch' = note.watch /\ queue' = note.queue
         /\ moved' = {} /\ trace' = Moved(t, n, w) /\ live' = live
  BY <1>0, RelocateFollows
<1> DEFINE i == trace[t].ino
           v == trace[t].wd
           ws == Disarmed(watch, v)
<1>3. moved' = {}
  BY <1>2
<1>4. /\ i \in Inodes /\ i # NoInode /\ dir[n] = i /\ ws[i] = NoWd
      /\ pc = "loop" /\ pc \notin Checking /\ IsEvent(1, "MOVED_TO")
      /\ ws \in [Inodes -> Wds \cup {NoWd}]
  BY <1>1, <1>2, TraceFacts, DisarmedType DEF NextIs, Checking, IsEvent, Watches, Good, IInv, TypeOK
<1>5. todo = {} /\ job = NoJob /\ job.t = 0 /\ \A u \in live : ~Ending(u) /\ u # 0
  BY <1>4, NoCheck, TraceFacts
<1>7. w \in Wds \ UsedWds /\ w # NoWd
  BY <1>2
<1>8. /\ ~FileAwaited(w) /\ \A j \in Inodes : watch[j] # w
      /\ \A u \in live : trace[u].wd # w
  BY <1>7 DEF UsedWds, FileAwaited
<1>10. /\ watch' = SendCloseWrite(n, Armed(ws, n, w), queue).watch
       /\ queue' = SendCloseWrite(n, Armed(ws, n, w), queue).queue
       /\ trace' = Moved(t, n, w) /\ live' = live
  BY <1>2
<1>11. /\ watch' = [Armed(ws, n, w) EXCEPT ![i] = NoWd]
       /\ queue' = Enqueue(queue, FileEvent(w))
  <2>1. Armed(ws, n, w)[i] = w
    BY <1>4 DEF Armed
  <2> QED BY <1>4, <1>7, <1>10, <2>1 DEF SendCloseWrite, SelfNotified
<1>12. \A j \in Inodes : watch'[j] = IF watch[j] = v THEN NoWd ELSE watch[j]
  <2>1. \A j \in Inodes : watch'[j] = IF j = i THEN NoWd ELSE ws[j]
    BY <1>4, <1>11 DEF Armed
  <2> QED BY <1>4, <2>1 DEF Disarmed
<1>13. /\ Advanced /\ Len(batch') = Len(batch) - 1
       /\ \E k \in Spots' : Line'[k] = FileEvent(w)
       /\ \A k \in Spots' : (k + 1 \in Spots /\ Line'[k] = Line[k + 1]) \/ Line'[k] = FileEvent(w)
  BY <1>1, <1>7, <1>11, PopPushFacts DEF NextIs
<1>14. \A u \in live : /\ trace'[u].ino = trace[u].ino
                       /\ trace'[u].offset = trace[u].offset /\ trace'[u].count = trace[u].count
                       /\ trace'[u].path = IF u = t THEN n ELSE trace[u].path
                       /\ trace'[u].wd = IF u = t THEN w ELSE trace[u].wd
                       /\ u # t => trace'[u] = trace[u] /\ SameKeys(u)
  <2>1. t \in Traces /\ trace \in [Traces -> TraceFile] /\ trace[t] \in TraceFile
    BY TraceFacts DEF Good, IInv, TypeOK
  <2>2. trace'[t] = [trace[t] EXCEPT !.path = n, !.wd = w]
    BY <1>10, <2>1 DEF Moved
  <2>3. /\ trace'[t].ino = trace[t].ino /\ trace'[t].offset = trace[t].offset
        /\ trace'[t].count = trace[t].count /\ trace'[t].path = n /\ trace'[t].wd = w
    BY <2>1, <2>2 DEF TraceFile
  <2>4. \A u \in live : u # t => trace'[u] = trace[u]
    BY <1>10, <2>1, TraceFacts DEF Moved
  <2> QED BY <2>3, <2>4 DEF SameKeys
<1>15. /\ \A j : Traced(j)' <=> Traced(j)
       /\ \A j : Named(j)' <=> Named(j)
       /\ \A m : TraceAt(m) \subseteq {t} /\ m # n => TraceAt(m)' = {}
  BY <1>1, <1>10, <1>14 DEF Traced, Named, TraceAt
<1>16. \A u \in live : Arrives(u) => u = t
  BY <1>2 DEF Arrives, Good, CalmInv, DirOK
<1>17. Home(t)'
  <2>1. Quiet(n)'
    <3> SUFFICES ASSUME NEW k \in Spots' PROVE Line'[k].name # n
      BY DEF Quiet
    <3>1. FileEvent(w).name # n
      BY <1>2, DirAssumption DEF FileEvent
    <3>2. k + 1 # 1
      BY LineFactsNext DEF Spots
    <3> QED BY <1>2, <1>13, <3>1, <3>2
  <2> QED BY <1>1, <1>4, <1>14, <2>1 DEF Home
<1>18. ASSUME NEW u \in live, u # t
       PROVE  /\ Home(u) => Home(u)'
              /\ Doomed(u) => Doomed(u)'
              /\ Moving(u) => Moving(u)'
  <2>1. (Home(u) => Home(u)') /\ (Doomed(u) => Doomed(u)')
    BY <1>1, <1>4, <1>13, <1>14, <1>18, AdvancedPhase DEF IsEvent
  <2>2. ASSUME Moving(u) PROVE Moving(u)'
    <3>1. PICK k \in Spots : Leaves(u, k)
      BY <1>16, <1>18, <2>2 DEF Moving
    <3>2. k # 1
      BY <1>4, <3>1 DEF Leaves, IsEvent
    <3>3. ASSUME NEW p, p = k - 1 PROVE p \in Spots' /\ Leaves(u, p)'
      BY <1>1, <1>13, <1>14, <1>18, <3>1, <3>2, <3>3, AdvancedPhase
    <3>4. trace'[u].count = 0 /\ job'.t # u
      BY <1>1, <1>14, <2>2 DEF Moving
    <3> QED BY <3>3, <3>4 DEF Moving
  <2> QED BY <2>1, <2>2
<1>19. Phases'
  BY <1>5, <1>10, <1>17, <1>18 DEF Phases, Good, CalmInv
<1>20. EventsOK'
  <2>1. ASSUME NEW k \in Spots, IsEvent(k, "MOVED_TO"), k # 1, NEW m, m = Line[k].name
        PROVE  TraceAt(m)' = {}
    <3>1. m # n
      BY <1>2, <2>1
    <3>2. TraceAt(m) \subseteq {t}
      BY <1>16, <2>1 DEF Good, CalmInv, EventsOK, ToOK, TraceAt
    <3> QED BY <1>15, <3>1, <3>2
  <2>2. \A k \in Spots : \A j : IsEvent(k, "CREATE") /\ j = dir[Line[k].name] => ~Traced(j)'
    BY <1>15 DEF Good, CalmInv, EventsOK, CreateOK
  <2> QED BY <1>1, <1>13, <2>1, <2>2, AdvancedEvents
<1>21. MovedOK' /\ TodoOK'
  BY <1>1, <1>3, <1>5 DEF MovedOK, TodoOK
<1>22. DirOK'
  BY <1>1, <1>10, <1>14 DEF Good, CalmInv, DirOK
<1>23. /\ \A x : FileAwaited(x)' <=> FileAwaited(x) \/ x = w
       /\ \A mask, m : mask \notin {"MOVED_TO", "FILE"} /\ Awaited(mask, m) => Awaited(mask, m)'
  <2>1. OnLine /\ OnLine'
    BY PendingIsLine, OnLineNext DEF Good
  <2>2. FileEvent(w).mask = "FILE" /\ FileEvent(w).wd = w
    BY DEF FileEvent
  <2>3. \A k \in Spots : IsEvent(k, "MOVED_TO") \/ (k - 1 \in Spots' /\ Line'[k - 1] = Line[k])
    BY <1>4, <1>13 DEF Advanced
  <2>4. \A x : FileAwaited(x)' => FileAwaited(x) \/ x = w
    BY <1>13, <2>1, <2>2 DEF OnLine, IsEvent
  <2>5. \A x : FileAwaited(x) => FileAwaited(x)'
    BY <2>1, <2>3 DEF OnLine, IsEvent
  <2>6. FileAwaited(w)'
    BY <1>13, <2>1, <2>2 DEF OnLine, IsEvent
  <2>7. \A mask, m : mask \notin {"MOVED_TO", "FILE"} /\ Awaited(mask, m) => Awaited(mask, m)'
    BY <2>1, <2>3 DEF OnLine, IsEvent
  <2> QED BY <2>4, <2>5, <2>6, <2>7
<1>24. WatchOK'
  <2>1. \A j \in Inodes : watch'[j] # NoWd => watch'[j] = watch[j] /\ watch[j] # v
    BY <1>12
  <2>2. \A j, k \in Inodes : watch'[j] = watch'[k] /\ watch'[j] # NoWd => j = k
    BY <2>1 DEF Good, CalmInv, WatchOK
  <2>3. \A j \in Inodes : watch'[j] # NoWd => ~FileAwaited(watch'[j]) /\ watch'[j] # w
    BY <1>8, <2>1 DEF Good, CalmInv, WatchOK
  <2>4. ASSUME NEW j \in Inodes, watch'[j] # NoWd
        PROVE  \E u \in live : /\ trace'[u].wd = watch'[j]
                               /\ trace'[u].ino = j
                                  \/ (dir[trace'[u].path] = j /\ (Doomed(u)' \/ Ending(u)'))
    <3>1. PICK u \in live : /\ trace[u].wd = watch[j]
                            /\ trace[u].ino = j
                               \/ (dir[trace[u].path] = j /\ (Doomed(u) \/ Ending(u)))
      BY <2>1, <2>4 DEF Good, CalmInv, WatchOK
    <3>2. u # t
      BY <2>1, <2>4, <3>1
    <3> QED BY <1>5, <1>14, <1>18, <2>1, <2>4, <3>1, <3>2
  <2>5. ASSUME NEW u \in live
        PROVE  /\ trace'[u].wd # NoWd
               /\ Named(trace[u].ino) =>
                     \/ watch'[trace[u].ino] = trace'[u].wd
                     \/ FileAwaited(trace'[u].wd) \/ trace'[u].wd = w
    <3>1. /\ trace[u].wd # NoWd
          /\ Named(trace[u].ino) => watch[trace[u].ino] = trace[u].wd \/ FileAwaited(trace[u].wd)
      BY <1>4 DEF Good, CalmInv, WatchOK
    <3>2. CASE u = t
      BY <1>7, <1>14, <3>2
    <3>3. CASE u # t
      <4>1. trace[u].wd # v
        BY <3>1, <3>3 DEF Good, IndexUnique
      <4> QED BY <1>12, <1>14, <3>1, <3>3, <4>1, TraceFacts
    <3> QED BY <3>2, <3>3
  <2> QED BY <1>1, <1>10, <1>14, <1>15, <1>23, <2>2, <2>3, <2>4, <2>5 DEF WatchOK
<1>25. Covered'
  BY <1>1, <1>10, <1>14, <1>23 DEF Good, CalmInv, Covered
<1>26. WakeUpPending'
  <2> SUFFICES ASSUME NEW u \in live, size[trace[u].ino] > trace[u].offset
               PROVE  Awakened(u)'
    BY <1>1, <1>10, <1>14, WakeIsLineNext DEF AllAwakened
  <2>1. CASE u = t
    BY <1>13, <1>14, <2>1 DEF Awakened, IsEvent, FileEvent
  <2>2. CASE u # t
    <3>1. Awakened(u)
      BY <1>5, WakeIsLine DEF Good, CalmInv, AllAwakened
    <3>2. ~(\E m \in moved : m.path = trace[u].path)
      BY <1>2, <2>2, OnePath
    <3>3. \A k \in Spots : IsEvent(k, "MOVED_TO") \/ (k - 1 \in Spots' /\ Line'[k - 1] = Line[k])
      BY <1>4, <1>13 DEF Advanced
    <3>4. CASE \E k \in Spots : IsEvent(k, "FILE") /\ Line[k].wd = trace[u].wd
      BY <1>14, <2>2, <3>3, <3>4 DEF Awakened, IsEvent
    <3>5. CASE \E k \in Spots : IsEvent(k, "DELETE") /\ Line[k].name = trace[u].path
      BY <1>14, <2>2, <3>3, <3>5 DEF Awakened, IsEvent
    <3>6. CASE \E k \in Spots : IsEvent(k, "MOVED_FROM") /\ Line[k].name = trace[u].path
      BY <1>14, <2>2, <3>3, <3>6 DEF Awakened, IsEvent
    <3>7. CASE trace[u].count > 0
      BY <1>14, <3>7 DEF Awakened
    <3> QED BY <3>1, <3>2, <3>4, <3>5, <3>6, <3>7 DEF Awakened
  <2> QED BY <2>1, <2>2
<1>27. GotOK' /\ AtMostOnce'
  BY <1>1, <1>10, <1>14, <1>15, GotKept
<1>28. CheckOK'
  BY <1>1, <1>4, <1>5 DEF CheckOK, NoJob, Checking
<1> QED
  BY <1>1, <1>4, <1>19, <1>20, <1>21, <1>22, <1>24, <1>25, <1>26, <1>27, <1>28, CalmParts
  DEF Shape

-----------------------------------------------------------------------------
(* The applications change names *)

\* The names T change hands: the events that come are of them, no file is
\* about to be adopted by one of them.
NamesChange(T) ==
    /\ UNCHANGED workerVars /\ UNCHANGED <<size, watch>>
    /\ Spots \subseteq Spots'
    /\ \A k \in Spots : Line'[k] = Line[k]
    /\ \A k \in Spots' \ Spots : Line'[k].name \in T /\ Line'[k].mask # "FILE"
    /\ \A k \in Spots : IsEvent(k, "CREATE") \/ IsEvent(k, "MOVED_TO") => Line[k].name \notin T
    /\ \A x \in Names \ T : dir'[x] = dir[x]
    /\ todo \cap T = {}

LEMMA ChangeLine ==
    ASSUME Good, IInv', NEW T \in SUBSET Names, NamesChange(T)
    PROVE  /\ \A w : FileAwaited(w)' <=> FileAwaited(w)
           /\ \A n : Awaited("CREATE", n) => Awaited("CREATE", n)'
           /\ \A n : n \notin T /\ Quiet(n) => Quiet(n)'
           /\ \A u \in live : Awakened(u) => Awakened(u)'
           /\ \A u \in live : Arrives(u) => Arrives(u)'
<1>1. OnLine /\ OnLine'
  BY PendingIsLine, OnLineNext DEF Good
<1>2. \A w : FileAwaited(w)' <=> FileAwaited(w)
  BY <1>1 DEF NamesChange, OnLine, IsEvent
<1>3. \A n : Awaited("CREATE", n) => Awaited("CREATE", n)'
  BY <1>1 DEF NamesChange, OnLine, IsEvent
<1>4. \A n : n \notin T /\ Quiet(n) => Quiet(n)'
  BY DEF NamesChange, Quiet
<1>5. \A u \in live : Awakened(u) => Awakened(u)'
  BY DEF NamesChange, workerVars, Awakened, IsEvent
<1>6. ASSUME NEW u \in live, Arrives(u) PROVE Arrives(u)'
  <2>1. 1 \in Spots
    BY <1>6, LineFacts DEF Arrives, Spots, Good
  <2>2. Line[1].name \in Names \ T
    BY <1>6, <2>1, EventFacts DEF Arrives, NamesChange, IsEvent, Good
  <2>3. Line'[1] = Line[1] /\ dir'[Line[1].name] = dir[Line[1].name] /\ 1 \in Spots'
    BY <2>1, <2>2 DEF NamesChange
  <2>4. Line' # <<>>
    BY <2>3, LineFactsNext DEF Spots
  <2> QED BY <1>6, <2>3, <2>4 DEF Arrives, NamesChange, workerVars, IsEvent
<1> QED BY <1>2, <1>3, <1>4, <1>5, <1>6

LEMMA ChangePhase ==
    ASSUME Good, IInv', NEW T \in SUBSET Names, NamesChange(T), NEW u \in live,
           Named(trace[u].ino)' => Named(trace[u].ino)
    PROVE  /\ Home(u) /\ trace[u].path \notin T => Home(u)'
           /\ Doomed(u) => Doomed(u)'
           /\ Ending(u) => Ending(u)'
           /\ Moving(u) /\ (\/ Arrives(u)
                            \/ \A k \in Spots' \ Spots : Line'[k].name = trace[u].path =>
                                  Line'[k].mask = "CREATE")
                 => Moving(u)'
<1>1. UNCHANGED <<pc, todo, full, batch, live, trace, moved, job, got, twice>>
  BY DEF NamesChange, workerVars
<1>2. trace[u].path \in Names
  BY TraceFacts
<1>3. Home(u) /\ trace[u].path \notin T => Home(u)'
  BY <1>1, <1>2, ChangeLine DEF Home, NamesChange
<1>4. Doomed(u) => Doomed(u)'
  BY <1>1 DEF Doomed, NamesChange, IsEvent
<1>5. Ending(u) => Ending(u)'
  BY <1>1 DEF Ending
<1>6. ASSUME NEW k \in Spots, Leaves(u, k),
             \A j \in Spots' \ Spots : Line'[j].name = trace[u].path => Line'[j].mask = "CREATE"
      PROVE  Leaves(u, k)'
  <2>1. k + 1 \in Spots /\ IsEvent(k + 1, "MOVED_TO")
    BY <1>6 DEF Leaves, Good, CalmInv, EventsOK, FromOK
  <2>2. Line[k + 1].name \in Names \ T
    BY <2>1, EventFacts DEF NamesChange, IsEvent, Good
  <2>3. dir'[Line[k + 1].name] = dir[Line[k + 1].name] /\ Line'[k + 1] = Line[k + 1]
        /\ Line'[k] = Line[k]
    BY <2>1, <2>2 DEF NamesChange
  <2>4. \A j \in Spots' : Line'[j].name = trace[u].path => j = k \/ Line'[j].mask = "CREATE"
    BY <1>6 DEF Leaves, NamesChange, IsEvent
  <2>5. \A j \in 1 .. k - 1 : Line'[j] # FileEvent(trace[u].wd)
    <3> SUFFICES ASSUME NEW j \in 1 .. k - 1 PROVE Line'[j] # FileEvent(trace[u].wd)
      OBVIOUS
    <3>1. j \in Spots
      BY LineFacts DEF Spots, Good
    <3> QED BY <1>6, <3>1 DEF Leaves, NamesChange
  <2> QED BY <1>1, <1>6, <2>3, <2>4, <2>5 DEF Leaves, IsEvent, FileEvent
<1> DEFINE Unhurt == \A k \in Spots' \ Spots : Line'[k].name = trace[u].path =>
                        Line'[k].mask = "CREATE"
<1>7. Moving(u) /\ (Arrives(u) \/ Unhurt) => Moving(u)'
  <2> SUFFICES ASSUME Moving(u), Arrives(u) \/ Unhurt PROVE Moving(u)'
    OBVIOUS
  <2>1. CASE Arrives(u)
    <3>1. Arrives(u)'
      BY <2>1, ChangeLine
    <3> QED BY <1>1, <3>1 DEF Moving
  <2>2. CASE Unhurt /\ \E k \in Spots : Leaves(u, k)
    <3>1. \E k \in Spots' : Leaves(u, k)'
      BY <1>6, <2>2 DEF NamesChange
    <3> QED BY <1>1, <3>1 DEF Moving
  <2> QED BY <2>1, <2>2 DEF Moving
<1> QED BY <1>3, <1>4, <1>5, <1>7

LEMMA ChangeCalm ==
    ASSUME Good, IInv', NEW T \in SUBSET Names, NEW X, NamesChange(T),
           born <= born',
           \A u \in live : Named(trace[u].ino)' => Named(trace[u].ino),
           \A u \in live : u \notin X /\ Home(u) => trace[u].path \notin T,
           \A u \in live : u \notin X /\ Moving(u) =>
              \/ Arrives(u)
              \/ \A k \in Spots' \ Spots : Line'[k].name = trace[u].path =>
                    Line'[k].mask = "CREATE",
           \A u \in live : u \in X => Doomed(u)' \/ Moving(u)',
           \A u \in live : (Doomed(u) \/ Ending(u)) /\ dir[trace[u].path] # NoInode =>
              trace[u].path \notin T,
           \A k \in Spots' \ Spots : CreateOK(k)' /\ FromOK(k)' /\ ToOK(k)',
           \A x \in T : dir'[x] # NoInode =>
              Traced(dir'[x]) \/ (Awaited("CREATE", x)' /\ got[dir'[x]] = {}),
           pc = "watch" => job.t \notin X,
           DirOK'
    PROVE  CalmInv'
<1>1. UNCHANGED <<pc, todo, full, batch, live, trace, moved, job, got, twice, size, watch>>
  BY DEF NamesChange, workerVars
<1>2. /\ \A j : Traced(j)' <=> Traced(j)
      /\ \A m : TraceAt(m)' = TraceAt(m)
  BY <1>1 DEF Traced, TraceAt
<1>3. ASSUME NEW u \in live
      PROVE  /\ Doomed(u) => Doomed(u)'
             /\ Ending(u) => Ending(u)'
             /\ u \notin X /\ Home(u) => Home(u)'
             /\ u \notin X /\ Moving(u) => Moving(u)'
  BY ChangePhase
<1>4. Phases'
  BY <1>1, <1>3 DEF Phases, Good, CalmInv
<1>5. EventsOK'
  <2>1. ASSUME NEW k \in Spots PROVE CreateOK(k)' /\ FromOK(k)' /\ ToOK(k)'
    <3>1. CreateOK(k) /\ FromOK(k) /\ ToOK(k)
      BY DEF Good, CalmInv, EventsOK
    <3>2. Line'[k] = Line[k]
      BY DEF NamesChange
    <3>3. IsEvent(k, "CREATE") \/ IsEvent(k, "MOVED_TO") =>
             /\ Line[k].name \in Names \ T /\ dir'[Line[k].name] = dir[Line[k].name]
             /\ \A j \in Spots' \ Spots : Line'[j].name # Line[k].name
      BY EventFacts DEF NamesChange, IsEvent, Good
    <3>4. CreateOK(k)'
      BY <1>2, <3>1, <3>2, <3>3 DEF CreateOK, IsEvent, NamesChange
    <3>5. FromOK(k)'
      BY <3>1, <3>2 DEF FromOK, IsEvent, NamesChange
    <3>6. ToOK(k)'
      <4> SUFFICES ASSUME IsEvent(k, "MOVED_TO") PROVE ToOK(k)'
        BY <3>2 DEF ToOK, IsEvent
      <4>1. \A t \in TraceAt(Line[k].name) : k > 1 /\ Arrives(t)'
        BY <3>1, ChangeLine DEF ToOK, TraceAt
      <4>2. \A j \in Spots' : Line'[j].name = Line'[k].name => j = k
        BY <3>1, <3>2, <3>3 DEF ToOK, NamesChange
      <4> QED BY <1>1, <1>2, <3>1, <3>2, <3>3, <4>1, <4>2 DEF ToOK, IsEvent
    <3> QED BY <3>4, <3>5, <3>6
  <2> QED BY <2>1 DEF EventsOK
<1>6. MovedOK'
  <2> SUFFICES ASSUME moved # {} PROVE MovedOK'
    BY <1>1 DEF MovedOK
  <2>1. Line # <<>>
    BY DEF Good, CalmInv, MovedOK
  <2>2. 1 \in Spots
    BY <2>1, LineFacts DEF Spots, Good
  <2>3. Line'[1] = Line[1] /\ 1 \in Spots'
    BY <2>2 DEF NamesChange
  <2>4. Line' # <<>>
    BY <2>3, LineFactsNext DEF Spots
  <2> QED BY <1>1, <2>3, <2>4 DEF Good, CalmInv, MovedOK, IsEvent
<1>7. TodoOK'
  <2>1. \A x \in todo : x \in Names /\ x \notin T
    BY DEF NamesChange, Good, IInv, TypeOK
  <2>2. \A x \in todo : Quiet(x)' /\ TraceAt(x) = {} /\ ~Traced(dir'[x])
    BY <2>1, ChangeLine DEF Good, CalmInv, TodoOK, NamesChange
  <2> QED BY <1>1, <1>2, <2>2 DEF Good, CalmInv, TodoOK
<1>8. WatchOK'
  <2>1. ASSUME NEW i \in Inodes, watch[i] # NoWd
        PROVE  \E u \in live : /\ trace[u].wd = watch[i]
                               /\ trace[u].ino = i
                                  \/ (dir'[trace[u].path] = i /\ (Doomed(u)' \/ Ending(u)'))
    <3>1. PICK u \in live :
             /\ trace[u].wd = watch[i]
             /\ trace[u].ino = i \/ (dir[trace[u].path] = i /\ (Doomed(u) \/ Ending(u)))
      BY <2>1 DEF Good, CalmInv, WatchOK
    <3>2. i # NoInode
      BY DEF Inodes, NoInode
    <3>3. dir[trace[u].path] = i /\ (Doomed(u) \/ Ending(u)) => dir'[trace[u].path] = i
      BY <3>2, TraceFacts DEF NamesChange
    <3> QED BY <1>3, <3>1, <3>3
  <2>2. \A u \in live : (pc = "watch" => u # job.t) =>
           /\ trace[u].wd # NoWd
           /\ Named(trace[u].ino)' =>
                watch[trace[u].ino] = trace[u].wd \/ FileAwaited(trace[u].wd)
    BY DEF Good, CalmInv, WatchOK
  <2>3. \A w : FileAwaited(w)' <=> FileAwaited(w)
    BY ChangeLine
  <2> QED BY <1>1, <2>1, <2>2, <2>3 DEF Good, CalmInv, WatchOK
<1>9. Covered'
  <2> SUFFICES ASSUME NEW x \in Names, dir'[x] # NoInode
               PROVE  x \in todo \/ Awaited("CREATE", x)' \/ \E u \in live : trace[u].ino = dir'[x]
    BY <1>1 DEF Covered
  <2>1. CASE x \in T
    BY <2>1 DEF Traced
  <2>2. CASE x \notin T
    <3>1. dir'[x] = dir[x]
      BY <2>2 DEF NamesChange
    <3> QED BY <3>1, ChangeLine DEF Good, CalmInv, Covered
  <2> QED BY <2>1, <2>2
<1>10. WakeUpPending'
  <2> SUFFICES ASSUME NEW u \in live, u # job.t, size[trace[u].ino] > trace[u].offset
               PROVE  Awakened(u)'
    BY <1>1, WakeIsLineNext DEF AllAwakened
  <2> QED BY ChangeLine, WakeIsLine DEF Good, CalmInv, AllAwakened
<1>11. GotOK' /\ AtMostOnce'
  <2>1. \A x \in Names : dir'[x] # NoInode /\ ~Traced(dir'[x]) => got[dir'[x]] = {}
    BY DEF NamesChange, Good, CalmInv, GotOK
  <2>2. \A i \in Inodes : i > born' => i > born
    BY DEF Good, IInv, TypeOK, Inodes
  <2> QED BY <1>1, <1>2, <2>1, <2>2 DEF Good, CalmInv, GotOK, AtMostOnce
<1>12. CheckOK'
  <2> DEFINE u == job.t
  <2>1. CheckOK /\ JobOK
    BY DEF Good, CalmInv, IInv
  <2>2. pc = "watch" \/ job.caller \in {"gone", "lost", "delete"} => u \in live
    BY <2>1 DEF CheckOK, JobOK, NoJob, Checking
  <2>3. /\ pc = "watch" => (\A t \in live : t = u => Home(t)')
        /\ job.caller \in {"gone", "lost"} => (\A t \in live : t = u => Doomed(t)')
        /\ job.caller = "delete" => (\A t \in live : t = u => Ending(t)')
    BY <1>3, <2>1 DEF CheckOK
  <2>4. job' = job
    BY <1>1
  <2>5. pc = "watch" => Home(job.t)'
    BY <1>1, <2>2, <2>3 DEF Home, Quiet
  <2>6. job.caller \in {"gone", "lost"} => Doomed(job.t)'
    BY <1>1, <2>2, <2>3 DEF Doomed
  <2>7. job.caller = "delete" => Ending(job.t)'
    BY <1>1, <2>2, <2>3 DEF Ending
  <2> QED BY <1>1, <2>1, <2>5, <2>6, <2>7 DEF CheckOK
<1> QED
  BY <1>1, <1>4, <1>5, <1>6, <1>7, <1>8, <1>9, <1>10, <1>11, <1>12, CalmParts
  DEF Shape, Good, CalmInv

LEMMA AppAppendCalm ==
    ASSUME Good, IInv', Room, CalmSystem, AppAppend PROVE CalmInv'
<1>1. PICK i \in Inodes : Named(i) /\ AppendBlock(i)
  BY DEF AppAppend, CalmSystem
<1>2. UNCHANGED workerVars /\ UNCHANGED <<dir, born>> /\ Notify(i)
      /\ size' = [size EXCEPT ![i] = @ + 1]
  BY <1>1 DEF AppendBlock, AppAppend
<1> QED BY <1>1, <1>2, NotifyStep

LEMMA AppCloseCalm ==
    ASSUME Good, IInv', Room, AppClose PROVE CalmInv'
<1>1. PICK i \in Inodes : CloseWrite(i)
  BY DEF AppClose
<1>2. UNCHANGED workerVars /\ UNCHANGED <<dir, born, size>> /\ Notify(i)
  BY <1>1 DEF CloseWrite, AppClose
<1> QED BY <1>1, <1>2, NotifyStep

LEMMA AppCreateCalm ==
    ASSUME Good, IInv', Room, CalmSystem, AppCreate PROVE CalmInv'
<1>1. PICK n \in Names : Started /\ Create(n)
  BY DEF AppCreate, CalmSystem
<1> DEFINE b == born + 1
           e == DirEvent("CREATE", n, NoCookie)
           new == Len(Line) + 1
<1>2. /\ dir[n] = NoInode /\ born < MaxInodes /\ born' = b
      /\ dir' = [dir EXCEPT ![n] = b] /\ queue' = Enqueue(queue, e)
      /\ UNCHANGED <<size, watch>> /\ UNCHANGED workerVars
  BY <1>1 DEF Create, AppCreate
<1>3. UNCHANGED <<pc, todo, full, batch, live, trace, moved, job, got, twice>>
  BY <1>2 DEF workerVars
<1>4. born \in Nat /\ b \in Inodes /\ b # NoInode /\ dir \in [Names -> Inodes \cup {NoInode}]
  BY <1>2, DirAssumption DEF Good, IInv, TypeOK, Inodes, NoInode
<1>5. dir'[n] = b /\ \A x \in Names \ {n} : dir'[x] = dir[x]
  BY <1>2, <1>4
<1>6. todo = {}
  BY <1>1 DEF Started, Good, CalmInv, TodoOK
<1>7. e \in Event
  BY DEF DirEvent, Event
<1>8. Pushed(e) /\ e.mask = "CREATE" /\ e.name = n
  BY <1>2, <1>3, <1>7, PushFacts DEF Good, DirEvent
<1>9. /\ Spots \subseteq Spots' /\ Spots' \ Spots = {new} /\ new \in Spots'
      /\ Line'[new] = e /\ \A k \in Spots : Line'[k] = Line[k]
      /\ \A k \in Spots' : k <= new
  BY <1>8, LineFacts DEF Pushed, Spots, Good
<1>10. ~Traced(b) /\ \A u \in live : trace[u].ino # b /\ trace[u].ino # NoInode
  BY <1>4, TraceFacts DEF Traced, Good, CalmInv, DirOK, Inodes
<1>11. \A k \in Spots : IsEvent(k, "CREATE") \/ IsEvent(k, "MOVED_TO") => Line[k].name # n
  BY <1>2 DEF Good, CalmInv, EventsOK, CreateOK, ToOK
<1>12. NamesChange({n})
  BY <1>2, <1>5, <1>6, <1>8, <1>9, <1>11 DEF NamesChange
<1>13. \A u \in live : Named(trace[u].ino)' => Named(trace[u].ino)
  BY <1>3, <1>5, <1>10 DEF Named
<1>14. \A u \in live : Home(u) => trace[u].path # n
  BY <1>2, <1>10 DEF Home
<1>16. Awaited("CREATE", n)' /\ got[b] = {}
  <2>1. OnLine'
    BY OnLineNext
  <2>2. b > born
    BY <1>4
  <2> QED BY <1>4, <1>8, <1>9, <2>1, <2>2 DEF OnLine, IsEvent, Good, CalmInv, GotOK
<1>17. DirOK'
  <2>1. \A x \in Names : dir[x] <= born
    BY DEF Good, CalmInv, DirOK
  <2>2. \A x, y \in Names : dir'[x] = dir'[y] /\ dir'[x] # NoInode => x = y
    <3>1. \A x \in Names : dir[x] # b
      BY <1>4, <2>1 DEF Inodes
    <3> QED BY <1>5, <3>1 DEF Good, CalmInv, DirOK
  <2>3. \A x \in Names : dir'[x] <= born'
    <3> SUFFICES ASSUME NEW x \in Names PROVE dir'[x] <= born'
      OBVIOUS
    <3>1. dir[x] \in Nat
      BY <1>4 DEF Inodes, NoInode
    <3> QED BY <1>2, <1>4, <1>5, <2>1, <3>1
  <2>4. \A u \in live : trace[u].ino <= born'
    <3> SUFFICES ASSUME NEW u \in live PROVE trace[u].ino <= born'
      OBVIOUS
    <3>1. trace[u].ino \in Nat /\ trace[u].ino <= born
      BY TraceFacts DEF Inodes, Good, CalmInv, DirOK
    <3> QED BY <1>2, <1>4, <3>1
  <2> QED BY <1>3, <2>2, <2>3, <2>4 DEF DirOK, Good, CalmInv
<1>18. born <= born'
  BY <1>2, <1>4
<1>19. \A u \in live : dir[trace[u].path] # NoInode => trace[u].path \notin {n}
  BY <1>2
<1>20. \A k \in Spots' \ Spots :
          /\ CreateOK(k)' /\ FromOK(k)' /\ ToOK(k)'
          /\ Line'[k].mask = "CREATE"
  <2> SUFFICES ASSUME NEW k \in Spots', k = new
               PROVE  /\ CreateOK(k)' /\ FromOK(k)' /\ ToOK(k)'
                      /\ Line'[k].mask = "CREATE"
    BY <1>9
  <2>1. Line'[k].mask = "CREATE" /\ Line'[k].name = n /\ dir'[Line'[k].name] = b
    BY <1>5, <1>8, <1>9
  <2>2. FromOK(k)' /\ ToOK(k)'
    BY <2>1 DEF FromOK, ToOK, IsEvent
  <2>3. ~(\E u \in live' : trace'[u].ino = dir'[Line'[k].name])
    BY <1>3, <1>10, <2>1
  <2>4. \A j \in Spots' : ~(j > k)
    BY <1>9, LineFactsNext DEF Spots
  <2>5. CreateOK(k)'
    BY <1>4, <2>1, <2>3, <2>4 DEF CreateOK, Traced
  <2> QED BY <2>1, <2>2, <2>5
<1> DEFINE X == {}
<1>21. \A u \in live : u \notin X
  OBVIOUS
<1>22. \A x \in {n} : dir'[x] # NoInode =>
          Traced(dir'[x]) \/ (Awaited("CREATE", x)' /\ got[dir'[x]] = {})
  BY <1>5, <1>16
<1> HIDE DEF X
<1> QED
  BY <1>12, <1>13, <1>14, <1>17, <1>18, <1>19, <1>20, <1>21, <1>22, ChangeCalm

\* A name the worker has adopted is the path of its file's trace.
LEMMA AdoptedHome ==
    ASSUME Good, NEW n \in Names, dir[n] # NoInode, Adopted(n)
    PROVE  \E t \in live : trace[t].ino = dir[n] /\ trace[t].path = n /\ Home(t)
<1>1. PICK t \in live : trace[t].ino = dir[n] /\ (Home(t) \/ Moving(t))
  BY HomeFacts DEF Adopted
<1>2. \A m \in Names : dir[m] = dir[n] => m = n
  BY DEF Good, CalmInv, DirOK
<1>3. ASSUME NEW k \in Spots, IsEvent(k, "MOVED_TO"), dir[Line[k].name] = dir[n] PROVE FALSE
  <2>1. Line[k].name = n
    BY <1>2, <1>3, EventFacts DEF IsEvent, Good
  <2> QED BY <1>3, <2>1, PendingIsLine DEF OnLine, Adopted, Good
<1>4. ~Arrives(t)
  <2> SUFFICES ASSUME Arrives(t) PROVE FALSE
    OBVIOUS
  <2>1. 1 \in Spots
    BY LineFacts DEF Arrives, Spots, Good
  <2> QED BY <1>1, <1>3, <2>1 DEF Arrives
<1>5. \A k \in Spots : ~Leaves(t, k)
  <2> SUFFICES ASSUME NEW k \in Spots, Leaves(t, k) PROVE FALSE
    OBVIOUS
  <2>1. k + 1 \in Spots /\ IsEvent(k + 1, "MOVED_TO")
    BY DEF Leaves, Good, CalmInv, EventsOK, FromOK
  <2> QED BY <1>1, <1>3, <2>1 DEF Leaves
<1>6. Home(t)
  BY <1>1, <1>4, <1>5 DEF Moving
<1> QED BY <1>1, <1>2, <1>6, TraceFacts DEF Home

LEMMA AppUnlinkCalm ==
    ASSUME Good, IInv', Room, CalmSystem, AppUnlink PROVE CalmInv'
<1>1. PICK n \in Names : Adopted(n) /\ Unlink(n)
  BY DEF AppUnlink, CalmSystem
<1> DEFINE e == DirEvent("DELETE", n, NoCookie)
           new == Len(Line) + 1
<1>2. /\ dir[n] # NoInode /\ dir' = [dir EXCEPT ![n] = NoInode] /\ queue' = Enqueue(queue, e)
      /\ UNCHANGED <<born, size, watch>> /\ UNCHANGED workerVars
  BY <1>1 DEF Unlink, AppUnlink
<1>3. UNCHANGED <<pc, todo, full, batch, live, trace, moved, job, got, twice>>
  BY <1>2 DEF workerVars
<1>4. born \in Nat /\ dir \in [Names -> Inodes \cup {NoInode}]
  BY DEF Good, IInv, TypeOK
<1>5. dir'[n] = NoInode /\ \A x \in Names \ {n} : dir'[x] = dir[x]
  BY <1>2, <1>4
<1>6. PICK t \in live : trace[t].ino = dir[n] /\ trace[t].path = n /\ Home(t)
  BY <1>1, <1>2, AdoptedHome
<1>7. e \in Event
  BY DEF DirEvent, Event
<1>8. Pushed(e) /\ e.mask = "DELETE" /\ e.name = n
  BY <1>2, <1>3, <1>7, PushFacts DEF Good, DirEvent
<1>9. /\ Spots \subseteq Spots' /\ Spots' \ Spots = {new} /\ new \in Spots'
      /\ Line'[new] = e /\ \A k \in Spots : Line'[k] = Line[k]
  BY <1>8, LineFacts DEF Pushed, Spots, Good
<1>10. \A u \in live : trace[u].path = n => u = t
  BY <1>6, OnePath
<1>11. \A k \in Spots : IsEvent(k, "CREATE") \/ IsEvent(k, "MOVED_TO") => Line[k].name # n
  BY <1>1, PendingIsLine DEF Good, OnLine, Adopted
<1>12. NamesChange({n})
  BY <1>1, <1>2, <1>5, <1>8, <1>9, <1>11 DEF NamesChange, Adopted
<1>13. \A i : i # NoInode => (Named(i)' => Named(i))
  BY <1>5 DEF Named
<1>14. Named(trace[t].ino) /\ ~Named(trace[t].ino)'
  BY <1>2, <1>3, <1>5, <1>6 DEF Named, Good, CalmInv, DirOK
<1>15. Doomed(t)'
  BY <1>3, <1>6, <1>8, <1>9, <1>14 DEF Doomed, IsEvent
<1>16. \A k \in Spots' \ Spots : CreateOK(k)' /\ FromOK(k)' /\ ToOK(k)'
  BY <1>8, <1>9 DEF CreateOK, FromOK, ToOK, IsEvent
<1>17. DirOK'
  <2>1. \A x \in Names : dir'[x] <= born
    BY <1>4, <1>5 DEF Good, CalmInv, DirOK, NoInode
  <2>2. \A x, y \in Names : dir'[x] = dir'[y] /\ dir'[x] # NoInode => x = y
    BY <1>5 DEF Good, CalmInv, DirOK
  <2> QED BY <1>2, <1>3, <2>1, <2>2 DEF DirOK, Good, CalmInv
<1>18. born <= born'
  BY <1>2, <1>4
<1>19. \A u \in live : Named(trace[u].ino)' => Named(trace[u].ino)
  BY <1>3, <1>13, TraceFacts
<1>20. pc = "watch" => job.t # t
  BY <1>1, <1>6 DEF Adopted
<1> DEFINE X == {t}
<1>21. \A u \in live : /\ u \notin X => trace[u].path # n
                       /\ u \in X => Doomed(u)'
  BY <1>10, <1>15
<1>22. \A u \in live : Doomed(u) \/ Ending(u) => trace[u].path # n
  BY <1>10, <1>14 DEF Doomed, Ending
<1>23. pc = "watch" => job.t \notin X
  BY <1>20
<1>24. \A k \in Spots' \ Spots : Line'[k].name = n
  BY <1>8, <1>9
<1> HIDE DEF X
<1> QED
  BY <1>5, <1>12, <1>16, <1>17, <1>18, <1>19, <1>21, <1>22, <1>23, <1>24, ChangeCalm

\* Two events have come.
LEMMA PushTwo ==
    ASSUME IInv, IInv', Room, NEW e \in Event, NEW g \in Event, batch' = batch,
           queue' = Enqueue(Enqueue(queue, e), g)
    PROVE  /\ Spots \subseteq Spots'
           /\ Spots' \ Spots = {Len(Line) + 1, Len(Line) + 2}
           /\ Line'[Len(Line) + 1] = e /\ Line'[Len(Line) + 2] = g
           /\ \A k \in Spots : Line'[k] = Line[k]
           /\ Len(Line') = Len(Line) + 2
<1>1. batch \in Seq(Event) /\ queue \in Seq(Event) /\ MaxQueue \in Nat
  BY DirAssumption DEF IInv, TypeOK
<1>2. Enqueue(queue, e) = Append(queue, e)
  BY <1>1 DEF Room, Enqueue
<1>3. Append(queue, e) \in Seq(Event) /\ Len(Append(queue, e)) = Len(queue) + 1
  BY <1>1
<1>4. queue' = Append(Append(queue, e), g)
  BY <1>1, <1>2, <1>3 DEF Room, Enqueue
<1>5. Line' = batch \o Append(Append(queue, e), g)
  BY <1>4 DEF Line
<1>6. Len(Line') = Len(Line) + 2
  BY <1>1, <1>5 DEF Line
<1>7. \A k \in Spots : Line'[k] = Line[k]
  BY <1>1, <1>5 DEF Line, Spots
<1>8. Line'[Len(Line) + 1] = e /\ Line'[Len(Line) + 2] = g
  BY <1>1, <1>5 DEF Line
<1>9. Len(Line) \in Nat
  BY LineFacts
<1> QED BY <1>6, <1>7, <1>8, <1>9 DEF Spots

\* A trace at a name that is settled and free again is that of a file whose
\* arrival at its next name is the next event.
LEMMA SettledFree ==
    ASSUME Good, NEW m \in Names, dir[m] = NoInode, Settled(m)
    PROVE  Quiet(m) /\ \A u \in TraceAt(m) : Moving(u) /\ Arrives(u)
<1>1. Quiet(m)
  <2> SUFFICES ASSUME NEW k \in Spots PROVE Line[k].name # m
    BY DEF Quiet
  <2> QED BY EventFacts, PendingIsLine DEF OnLine, Settled, Adopted, IsEvent, Good
<1>2. ASSUME NEW u \in TraceAt(m) PROVE Moving(u) /\ Arrives(u)
  <2>1. u \in live /\ trace[u].path = m /\ job.t # u
    BY DEF TraceAt, Settled
  <2>2. ~Home(u)
    BY <2>1, TraceFacts DEF Home
  <2>3. ~Doomed(u) /\ ~Ending(u) /\ \A k \in Spots : ~Leaves(u, k)
    BY <1>1, <2>1 DEF Doomed, Ending, Leaves, Quiet
  <2> QED BY <2>1, <2>2, <2>3 DEF Moving, Good, CalmInv, Phases
<1> QED BY <1>1, <1>2

LEMMA AppRenameCalm ==
    ASSUME Good, IInv', Room, CalmSystem, AppRename PROVE CalmInv'
<1>1. PICK n \in Names, m \in Names, c \in Cookies :
         dir[m] = NoInode /\ Settled(n) /\ Settled(m) /\ Rename(n, m, c)
  <2>1. "replace" \notin Ops
    BY DEF CalmSystem, CalmOps
  <2> QED BY <2>1 DEF AppRename, CalmSystem
<1> DEFINE e == DirEvent("MOVED_FROM", n, c)
           g == DirEvent("MOVED_TO", m, c)
           fst == Len(Line) + 1
           snd == Len(Line) + 2
<1>2. /\ n # m /\ dir[n] # NoInode
      /\ dir' = [dir EXCEPT ![m] = dir[n], ![n] = NoInode]
      /\ queue' = Enqueue(Enqueue(queue, e), g)
      /\ UNCHANGED <<born, size, watch>> /\ UNCHANGED workerVars
  BY <1>1 DEF Rename, AppRename
<1>3. UNCHANGED <<pc, todo, full, batch, live, trace, moved, job, got, twice>>
  BY <1>2 DEF workerVars
<1>4. born \in Nat /\ dir \in [Names -> Inodes \cup {NoInode}] /\ Len(Line) \in Nat
  BY LineFacts DEF Good, IInv, TypeOK
<1>5. dir'[n] = NoInode /\ dir'[m] = dir[n] /\ \A x \in Names \ {n, m} : dir'[x] = dir[x]
  BY <1>2, <1>4
<1>6. PICK t \in live : trace[t].ino = dir[n] /\ trace[t].path = n /\ Home(t)
  BY <1>1, <1>2, AdoptedHome DEF Settled
<1>7. job.t # t /\ trace[t].count = 0 /\ ~FileAwaited(trace[t].wd)
  BY <1>1, <1>6 DEF Settled, TraceAt
<1>8. Quiet(m) /\ \A u \in TraceAt(m) : Moving(u) /\ Arrives(u)
  BY <1>1, SettledFree
<1>9. /\ e \in Event /\ e.mask = "MOVED_FROM" /\ e.name = n /\ e.cookie = c
      /\ g \in Event /\ g.mask = "MOVED_TO" /\ g.name = m /\ g.cookie = c
  BY DEF DirEvent, Event
<1>10. /\ Spots \subseteq Spots' /\ Spots' \ Spots = {fst, snd}
       /\ Line'[fst] = e /\ Line'[snd] = g
       /\ \A k \in Spots : Line'[k] = Line[k]
  BY <1>2, <1>3, <1>9, PushTwo DEF Good
<1>11. \A k \in Spots : IsEvent(k, "CREATE") \/ IsEvent(k, "MOVED_TO") => Line[k].name \notin {n, m}
  BY <1>1, PendingIsLine DEF Good, OnLine, Settled, Adopted
<1>12. NamesChange({n, m})
  BY <1>1, <1>2, <1>5, <1>9, <1>10, <1>11 DEF NamesChange, Settled, Adopted
<1>13. \A i : Named(i)' /\ i # NoInode => Named(i)
  BY <1>5 DEF Named
<1>14. \A u \in live : Named(trace[u].ino)' => Named(trace[u].ino)
  BY <1>3, <1>13, TraceFacts
<1>15. \A u \in live : trace[u].path = n => u = t
  BY <1>6, OnePath
<1>16. Moving(t)'
  <2>1. Line'[fst + 1] = g /\ fst + 1 = snd
    BY <1>4, <1>10
  <2>2. \A j \in Spots' : Line'[j].name = n => j = fst
    BY <1>2, <1>6, <1>9, <1>10 DEF Home, Quiet
  <2>3. \A j \in Spots : Line[j] # FileEvent(trace[t].wd)
    BY <1>7, PendingIsLine DEF OnLine, IsEvent, FileEvent, Good
  <2>4. \A j \in 1 .. fst - 1 : Line'[j] # FileEvent(trace[t].wd)
    BY <1>4, <1>10, <2>3 DEF Spots
  <2>5. \A k : k = fst => Leaves(t, k)'
    <3> SUFFICES ASSUME NEW k, k = fst PROVE Leaves(t, k)'
      OBVIOUS
    <3> QED
      BY <1>3, <1>5, <1>6, <1>9, <1>10, <2>1, <2>2, <2>4 DEF Leaves, IsEvent, FileEvent
  <2> QED BY <1>3, <1>7, <1>10, <2>5 DEF Moving
<1>17. \A k \in Spots' \ Spots : CreateOK(k)' /\ FromOK(k)' /\ ToOK(k)'
  <2> SUFFICES ASSUME NEW k \in Spots', k = fst \/ k = snd
               PROVE  CreateOK(k)' /\ FromOK(k)' /\ ToOK(k)'
    BY <1>10
  <2>1. CASE k = fst
    <3>1. Line'[k] = e /\ Line'[k + 1] = g /\ k + 1 \in Spots'
      BY <1>4, <1>10, <2>1
    <3> QED BY <1>9, <3>1 DEF CreateOK, FromOK, ToOK, IsEvent
  <2>2. CASE k = snd
    <3>1. Line'[k] = g /\ k # Len(batch') + 1 /\ k > 1
      BY <1>3, <1>4, <1>10, <2>2, LineFacts DEF Good
    <3>2. \A j \in Spots' : Line'[j].name = m => j = k
      BY <1>2, <1>8, <1>9, <1>10, <2>2 DEF Quiet
    <3>3. \A u \in TraceAt(m) : u \in live
      BY DEF TraceAt
    <3>4. \A u \in TraceAt(m) : Arrives(u)'
      BY <1>8, <1>12, <3>3, ChangeLine
    <3>5. \A x : TraceAt(x)' = TraceAt(x)
      BY <1>3 DEF TraceAt
    <3> QED
      BY <1>2, <1>5, <1>9, <3>1, <3>2, <3>4, <3>5 DEF CreateOK, FromOK, ToOK, IsEvent
  <2> QED BY <2>1, <2>2
<1>18. DirOK'
  <2>1. \A x \in Names : dir[x] <= born /\ 0 <= born
    BY <1>4 DEF Good, CalmInv, DirOK
  <2>2. \A x \in Names : dir'[x] <= born
    BY <1>5, <2>1 DEF NoInode
  <2>3. \A x, y \in Names : dir'[x] = dir'[y] /\ dir'[x] # NoInode => x = y
    <3>1. \A x, y \in Names : dir[x] = dir[y] /\ dir[x] # NoInode => x = y
      BY DEF Good, CalmInv, DirOK
    <3> SUFFICES ASSUME NEW x \in Names, NEW y \in Names,
                        dir'[x] = dir'[y], dir'[x] # NoInode
                 PROVE  x = y
      OBVIOUS
    <3>2. x # n /\ y # n
      BY <1>5
    <3>3. x = m \/ dir'[x] = dir[x]
      BY <1>5, <3>2
    <3>4. y = m \/ dir'[y] = dir[y]
      BY <1>5, <3>2
    <3> QED BY <1>2, <1>5, <3>1, <3>2, <3>3, <3>4
  <2> QED BY <1>2, <1>3, <2>2, <2>3 DEF DirOK, Good, CalmInv
<1>19. born <= born'
  BY <1>2, <1>4
<1> DEFINE X == {t}
           T == {n, m}
<1>20. \A u \in live : u \notin X /\ Home(u) => trace[u].path \notin T
  BY <1>1, <1>15, TraceFacts DEF Home
<1>21. \A u \in live : u \notin X /\ Moving(u) =>
          \/ Arrives(u)
          \/ \A k \in Spots' \ Spots : Line'[k].name = trace[u].path => Line'[k].mask = "CREATE"
  BY <1>8, <1>9, <1>10, <1>15 DEF TraceAt
<1>22. \A u \in live : u \in X => Doomed(u)' \/ Moving(u)'
  BY <1>16
<1>23. \A u \in live : (Doomed(u) \/ Ending(u)) /\ dir[trace[u].path] # NoInode =>
          trace[u].path \notin T
  <2>1. ~Doomed(t) /\ ~Ending(t)
    BY <1>6, NamedPhase DEF Doomed, Ending
  <2> QED BY <1>1, <1>15, <2>1
<1>24. \A x \in T : dir'[x] # NoInode =>
          Traced(dir'[x]) \/ (Awaited("CREATE", x)' /\ got[dir'[x]] = {})
  BY <1>5, <1>6 DEF Traced
<1>25. pc = "watch" => job.t \notin X
  BY <1>7
<1>26. NamesChange(T) /\ T \in SUBSET Names
  BY <1>12
<1> HIDE DEF X, T
<1> QED
  BY <1>14, <1>17, <1>18, <1>19, <1>20, <1>21, <1>22, <1>23, <1>24, <1>25, <1>26, ChangeCalm

-----------------------------------------------------------------------------
(* The watch of a file that was just opened *)

\* The descriptor is new, and the file is where its trace believes it to be.
LEMMA FreshWatch ==
    ASSUME Good, pc = "watch", NEW t \in live, t = job.t, NEW w \in Wds \cup {NoWd},
           AddWatchReturns(watch, trace[t].path, w, UsedWds)
    PROVE  /\ w \in Wds /\ w # NoWd /\ TraceOfWd(w) = {} /\ ~FileAwaited(w)
           /\ watch[trace[t].ino] = NoWd /\ dir[trace[t].path] = trace[t].ino
           /\ \A i \in Inodes : watch[i] # w
<1> DEFINE n == trace[t].path
           i == trace[t].ino
<1>1. Home(t) /\ trace[t].wd = NoWd
  BY DEF Good, CalmInv, CheckOK
<1>2. dir[n] = i /\ i \in Inodes /\ i # NoInode
  BY <1>1, TraceFacts DEF Home
<1>3. watch[i] = NoWd
  <2> SUFFICES ASSUME watch[i] # NoWd PROVE FALSE
    OBVIOUS
  <2>1. PICK u \in live : trace[u].wd = watch[i]
                          /\ \/ trace[u].ino = i
                             \/ dir[trace[u].path] = i /\ (Doomed(u) \/ Ending(u))
    BY <1>2 DEF Good, CalmInv, WatchOK
  <2>2. u # t
    BY <1>1, <2>1
  <2>3. trace[u].ino # i
    BY <2>2 DEF Good, CalmInv, DirOK
  <2>4. dir[trace[u].path] # i
    BY <1>2, <2>2, TraceFacts, OnePath DEF Good, CalmInv, DirOK
  <2> QED BY <2>1, <2>3, <2>4
<1>4. w \in Wds \ UsedWds
  BY <1>2, <1>3 DEF AddWatchReturns
<1>5. w # NoWd
  BY <1>4, DirAssumption DEF Wds, NoWd
<1> QED BY <1>2, <1>3, <1>4, <1>5 DEF UsedWds, TraceOfWd, FileAwaited

LEMMA WatchFileCalm == ASSUME Good, IInv', WatchFile PROVE CalmInv'
<1>1. PICK t \in live : t = job.t
  BY CheckedTrace DEF WatchFile, Checking
<1> DEFINE n == trace[t].path
           i == trace[t].ino
<1>2. PICK w \in Wds \cup {NoWd} :
         /\ AddWatchReturns(watch, n, w, UsedWds)
         /\ IF w = NoWd \/ TraceOfWd(w) # {}
            THEN Die
            ELSE /\ watch' = Armed(watch, n, w)
                 /\ trace' = [trace EXCEPT ![t].wd = w]
                 /\ pc' = "check"
                 /\ UNCHANGED <<dir, born, size, queue, todo, full, batch, live, moved,
                                job, got, twice>>
  BY <1>1 DEF WatchFile
<1>3. /\ w \in Wds /\ w # NoWd /\ TraceOfWd(w) = {} /\ ~FileAwaited(w)
      /\ watch[i] = NoWd /\ dir[n] = i
      /\ \A j \in Inodes : watch[j] # w
  BY <1>1, <1>2, FreshWatch DEF WatchFile
<1>4. /\ watch' = [watch EXCEPT ![i] = w] /\ trace' = [trace EXCEPT ![t].wd = w] /\ pc' = "check"
      /\ UNCHANGED <<dir, born, size, queue, todo, full, batch, live, moved, job, got, twice>>
  BY <1>2, <1>3 DEF Armed
<1>5. /\ pc = "watch" /\ Home(t) /\ job.caller \in {"load", "create"} /\ moved = {}
  BY <1>1, CheckedTrace DEF WatchFile, Good, CalmInv, CheckOK, Checking
<1>6. i \in Inodes /\ trace \in [Traces -> TraceFile] /\ watch \in [Inodes -> Wds \cup {NoWd}]
      /\ \A u \in live : u \in Traces
  BY TraceFacts DEF Good, IInv, TypeOK
<1>7. /\ \A u \in live : /\ trace'[u].ino = trace[u].ino /\ trace'[u].path = trace[u].path
                         /\ trace'[u].offset = trace[u].offset
                         /\ trace'[u].count = trace[u].count
                         /\ u # t => trace'[u] = trace[u]
      /\ trace'[t].wd = w
      /\ watch'[i] = w /\ \A j \in Inodes \ {i} : watch'[j] = watch[j]
  <2>1. trace[t] \in TraceFile
    BY <1>6
  <2>2. trace'[t] = [trace[t] EXCEPT !.wd = w]
    BY <1>4, <1>6
  <2>3. /\ trace'[t].ino = trace[t].ino /\ trace'[t].path = trace[t].path
        /\ trace'[t].offset = trace[t].offset /\ trace'[t].count = trace[t].count
        /\ trace'[t].wd = w
    BY <2>1, <2>2 DEF TraceFile
  <2>4. \A u \in live : u # t => trace'[u] = trace[u]
    BY <1>4, <1>6
  <2> QED BY <1>4, <1>6, <2>3, <2>4
<1>8. Line' = Line /\ \A j : Named(j)' <=> Named(j)
  BY <1>4 DEF Line, Named
<1>9. /\ \A j : Traced(j)' <=> Traced(j)
      /\ \A m : TraceAt(m)' = TraceAt(m)
  BY <1>4, <1>7 DEF Traced, TraceAt
<1>10. Home(t)'
  BY <1>4, <1>5, <1>7, <1>8 DEF Home, Quiet, Spots
<1>11. ASSUME NEW u \in live, u # t
       PROVE  /\ Home(u) => Home(u)'
              /\ Doomed(u) => Doomed(u)'
              /\ ~Ending(u)
              /\ Arrives(u) => Arrives(u)'
              /\ Moving(u) => Moving(u)'
  <2>1. trace'[u] = trace[u]
    BY <1>7, <1>11
  <2>2. Home(u) => Home(u)'
    BY <1>4, <1>8, <2>1 DEF Home, Quiet, Spots
  <2>3. Doomed(u) => Doomed(u)'
    BY <1>8, <2>1 DEF Doomed, Spots, IsEvent, Named
  <2>4. ~Ending(u)
    BY <1>5 DEF Ending
  <2>5. Arrives(u) => Arrives(u)'
    BY <1>4, <1>8, <2>1 DEF Arrives, IsEvent
  <2>6. \A k : Leaves(u, k) => Leaves(u, k)'
    BY <1>4, <1>8, <2>1 DEF Leaves, IsEvent, Spots, FileEvent
  <2>7. Moving(u) => Moving(u)'
    BY <1>4, <1>8, <2>1, <2>5, <2>6 DEF Moving, Spots
  <2> QED BY <2>2, <2>3, <2>4, <2>5, <2>7
<1>12. ~Moving(t) /\ ~Doomed(t) /\ ~Ending(t)
  BY <1>1, <1>5, NamedPhase DEF Moving, Doomed, Ending
<1>13. Phases'
  BY <1>4, <1>10, <1>11 DEF Phases, Good, CalmInv
<1>14. EventsOK'
  <2> SUFFICES ASSUME NEW k \in Spots PROVE CreateOK(k)' /\ FromOK(k)' /\ ToOK(k)'
    BY <1>8 DEF EventsOK, Spots
  <2>1. CreateOK(k) /\ FromOK(k) /\ ToOK(k)
    BY DEF Good, CalmInv, EventsOK
  <2>2. CreateOK(k)' /\ FromOK(k)'
    BY <1>4, <1>8, <1>9, <2>1 DEF CreateOK, FromOK, IsEvent, Spots
  <2>3. ASSUME IsEvent(k, "MOVED_TO"), NEW u \in TraceAt(Line[k].name) PROVE k > 1 /\ Arrives(u)'
    <3>1. u \in live /\ k > 1 /\ Arrives(u)
      BY <2>1, <2>3 DEF ToOK, TraceAt
    <3>2. u # t
      BY <1>5, <2>3 DEF Home, Quiet, TraceAt
    <3> QED BY <1>11, <3>1, <3>2
  <2>4. ToOK(k)'
    BY <1>4, <1>8, <1>9, <2>1, <2>3 DEF ToOK, IsEvent, Spots
  <2> QED BY <2>2, <2>4
<1>15. MovedOK' /\ TodoOK'
  <2>1. MovedOK'
    BY <1>4, <1>5 DEF MovedOK
  <2>2. \A m : Quiet(m)' <=> Quiet(m)
    BY <1>8 DEF Quiet, Spots
  <2> QED BY <1>4, <1>5, <1>9, <2>1, <2>2 DEF TodoOK, Good, CalmInv
<1>16. DirOK'
  BY <1>4, <1>7 DEF Good, CalmInv, DirOK
<1>17. WatchOK'
  <2>1. \A x : FileAwaited(x)' <=> FileAwaited(x)
    BY <1>8, AwaitedKept DEF Good
  <2>2. \A j, k \in Inodes : watch'[j] = watch'[k] /\ watch'[j] # NoWd => j = k
    <3>1. \A j, k \in Inodes : watch[j] = watch[k] /\ watch[j] # NoWd => j = k
      BY DEF Good, CalmInv, WatchOK
    <3> QED BY <1>3, <1>7, <3>1
  <2>3. \A j \in Inodes : watch'[j] # NoWd => ~FileAwaited(watch'[j])
    BY <1>3, <1>7 DEF Good, CalmInv, WatchOK
  <2>4. ASSUME NEW j \in Inodes, watch'[j] # NoWd
        PROVE  \E u \in live : /\ trace'[u].wd = watch'[j]
                               /\ trace'[u].ino = j
                                  \/ (dir[trace'[u].path] = j /\ (Doomed(u)' \/ Ending(u)'))
    <3>1. CASE j = i
      BY <1>7, <3>1
    <3>2. CASE j # i
      <4>1. PICK u \in live : /\ trace[u].wd = watch[j]
                              /\ trace[u].ino = j
                                 \/ (dir[trace[u].path] = j /\ (Doomed(u) \/ Ending(u)))
        BY <1>7, <2>4, <3>2 DEF Good, CalmInv, WatchOK
      <4>2. u # t
        BY <1>3, <1>12, <3>2, <4>1
      <4> QED BY <1>7, <1>11, <3>2, <4>1, <4>2
    <3> QED BY <3>1, <3>2
  <2>5. ASSUME NEW u \in live
        PROVE  /\ trace'[u].wd # NoWd
               /\ Named(trace[u].ino) =>
                     \/ watch'[trace[u].ino] = trace'[u].wd
                     \/ FileAwaited(trace'[u].wd)
    <3>1. CASE u = t
      BY <1>3, <1>7, <3>1
    <3>2. CASE u # t
      <4>1. /\ trace[u].wd # NoWd
            /\ Named(trace[u].ino) => watch[trace[u].ino] = trace[u].wd \/ FileAwaited(trace[u].wd)
        BY <1>1, <3>2 DEF Good, CalmInv, WatchOK
      <4>2. trace[u].ino # i
        BY <3>2 DEF Good, CalmInv, DirOK
      <4> QED BY <1>7, <3>2, <4>1, <4>2, TraceFacts
    <3> QED BY <3>1, <3>2
  <2> QED BY <1>4, <1>7, <1>8, <2>1, <2>2, <2>3, <2>4, <2>5 DEF WatchOK
<1>18. Covered'
  <2>1. \A m : Awaited("CREATE", m) => Awaited("CREATE", m)'
    BY <1>8, AwaitedKept DEF Good
  <2> QED BY <1>4, <1>7, <2>1 DEF Good, CalmInv, Covered
<1>19. WakeUpPending'
  <2> SUFFICES ASSUME NEW u \in live, u # t, size[trace[u].ino] > trace[u].offset
               PROVE  Awakened(u)'
    BY <1>1, <1>4, <1>7, WakeIsLineNext DEF AllAwakened
  <2>1. Awakened(u)
    BY <1>1, WakeIsLine DEF Good, CalmInv, AllAwakened
  <2>2. trace'[u] = trace[u]
    BY <1>7
  <2> QED BY <1>4, <1>8, <2>1, <2>2 DEF Awakened, IsEvent, Spots
<1>20. GotOK' /\ AtMostOnce'
  BY <1>4, <1>7, <1>9, GotKept
<1>21. CheckOK'
  BY <1>4, <1>5 DEF CheckOK, Checking
<1>22. Shape'
  BY <1>13, <1>14, <1>15, <1>16, <1>17, <1>18 DEF Shape
<1> QED BY <1>4, <1>19, <1>20, <1>21, <1>22, CalmParts

-----------------------------------------------------------------------------
(* The invariant *)

LEMMA InitCalm == ASSUME Init, IInv PROVE CalmInv
<1>1. /\ Line = <<>> /\ Len(Line) = 0 /\ Spots = {} /\ live = {} /\ job = NoJob /\ moved = {}
      /\ pc = "load" /\ todo = Names
  BY DEF Init, Line, Spots
<1>2. \A i : ~Traced(i)
  BY <1>1 DEF Traced
<1>3. \A n : TraceAt(n) = {} /\ Quiet(n)
  BY <1>1 DEF TraceAt, Quiet
<1>4. \A i \in Inodes : watch[i] = NoWd /\ got[i] = {} /\ twice[i] = {}
  BY DEF Init
<1>5. Phases /\ EventsOK /\ MovedOK /\ TodoOK /\ Covered /\ AtMostOnce
  BY <1>1, <1>2, <1>3, <1>4
     DEF Phases, EventsOK, MovedOK, TodoOK, Covered, AtMostOnce
<1>6. DirOK
  BY <1>1, DirAssumption DEF Init, DirOK, NoInode
<1>7. WatchOK
  BY <1>1, <1>4 DEF WatchOK
<1>8. CheckOK
  BY <1>1 DEF CheckOK, NoJob, Checking
<1>9. GotOK
  <2>1. \A n \in Names : dir[n] # NoInode => dir[n] \in Inodes
    BY DEF IInv, TypeOK
  <2> QED BY <1>1, <1>4, <2>1 DEF GotOK
<1>10. WakeUpPending
  BY <1>1 DEF WakeUpPending
<1> QED BY <1>1, <1>5, <1>6, <1>7, <1>8, <1>9, <1>10 DEF CalmInv

\* The list of moves is empty when the worker cleans it, the outputs take
\* every block, and the worker is alive.
LEMMA NoOtherStep ==
    ASSUME Good, CalmSystem
    PROVE  ~CleanMoved /\ ~SoftFailure /\ ~HardFailure /\ ~Restart
<1>1. ~CleanMoved
  BY NoSplit DEF CleanMoved
<1>2. "before" \notin Outcomes /\ "soft" \notin Outcomes /\ "hard" \notin Outcomes
  BY DEF CalmSystem
<1>3. pc # "dead"
  BY DEF Good, CalmInv
<1> QED BY <1>1, <1>2, <1>3 DEF SoftFailure, HardFailure, Restart

LEMMA ApplicationsCalm ==
    ASSUME Good, IInv', Room, CalmSystem, Applications PROVE CalmInv'
<1>1. "truncate" \notin Ops /\ "moveout" \notin Ops /\ "movein" \notin Ops
  BY DEF CalmSystem, CalmOps
<1>2. ~AppTruncate /\ ~AppMoveOut /\ ~AppMoveIn
  BY <1>1 DEF AppTruncate, AppMoveOut, AppMoveIn
<1> QED
  BY <1>2, AppCreateCalm, AppAppendCalm, AppCloseCalm, AppUnlinkCalm, AppRenameCalm
  DEF Applications

LEMMA StutterCalm == ASSUME CalmInv, UNCHANGED vars PROVE CalmInv'
<1>1. UNCHANGED <<dir, born, size, watch, queue, pc, todo, full, batch, live, trace, moved, job,
                  got, twice>>
  BY DEF vars
<1>2. Line' = Line /\ Spots' = Spots
  BY <1>1 DEF Line, Spots
<1>3. /\ \A i : Named(i)' <=> Named(i)
      /\ \A i : Traced(i)' <=> Traced(i)
      /\ \A n : TraceAt(n)' = TraceAt(n)
      /\ \A n : Quiet(n)' <=> Quiet(n)
      /\ \A n, mask : Awaited(mask, n)' <=> Awaited(mask, n)
      /\ \A w : FileAwaited(w)' <=> FileAwaited(w)
  BY <1>1, <1>2 DEF Named, Traced, TraceAt, Quiet, Awaited, FileAwaited, Pending, InSeq
<1>4. ASSUME NEW t
      PROVE  /\ Home(t)' <=> Home(t)
             /\ Doomed(t)' <=> Doomed(t)
             /\ Ending(t)' <=> Ending(t)
             /\ Arrives(t)' <=> Arrives(t)
             /\ Moving(t)' <=> Moving(t)
  <2>1. Arrives(t)' <=> Arrives(t)
    BY <1>1, <1>2 DEF Arrives, IsEvent
  <2>2. \A k : Leaves(t, k)' <=> Leaves(t, k)
    BY <1>1, <1>2 DEF Leaves, IsEvent
  <2> QED BY <1>1, <1>2, <1>3, <2>1, <2>2 DEF Home, Doomed, Ending, Moving, IsEvent, Quiet
<1>5. \A k : /\ CreateOK(k)' <=> CreateOK(k)
             /\ FromOK(k)' <=> FromOK(k)
             /\ ToOK(k)' <=> ToOK(k)
  BY <1>1, <1>2, <1>3, <1>4 DEF CreateOK, FromOK, ToOK, IsEvent, Traced
<1>6. Phases' /\ EventsOK' /\ MovedOK'
  BY <1>1, <1>2, <1>4, <1>5 DEF CalmInv, Phases, EventsOK, MovedOK, IsEvent
<1>7. DirOK' /\ TodoOK'
  BY <1>1, <1>3 DEF CalmInv, DirOK, TodoOK, Traced
<1>8. WatchOK'
  BY <1>1, <1>3, <1>4 DEF CalmInv, WatchOK, FileAwaited, Named
<1>9. CheckOK'
  <2>1. Home(job.t) => Home(job.t)'
    BY <1>1, <1>2 DEF Home, Quiet
  <2>2. Doomed(job.t) => Doomed(job.t)'
    BY <1>1, <1>2 DEF Doomed, Named, IsEvent
  <2>3. Ending(job.t) => Ending(job.t)'
    BY <1>1 DEF Ending, Named
  <2> QED BY <1>1, <2>1, <2>2, <2>3 DEF CalmInv, CheckOK
<1>10. GotOK' /\ AtMostOnce'
  BY <1>1, <1>3 DEF CalmInv, GotOK, AtMostOnce, Traced
<1>11. Covered' /\ WakeUpPending'
  BY <1>1, <1>3 DEF CalmInv, Covered, WakeUpPending, Awaited, FileAwaited, Pending, InSeq
<1> QED BY <1>1, <1>6, <1>7, <1>8, <1>9, <1>10, <1>11 DEF CalmInv

LEMMA NextCalm ==
    ASSUME Good, IInv', Room, CalmSystem, [Next]_vars PROVE CalmInv'
<1>1. CASE Worker
  BY <1>1, NoOtherStep, LoadEntryCalm, LoadDoneCalm, ReadEventsCalm, OnCreateCalm,
     OnMovedFromCalm, OnMovedToCalm, OnDeleteCalm, OnFileCalm, IdleCalm, WatchFileCalm,
     CheckSizeCalm, BeginRoundCalm, WriteBlockCalm, EndRoundCalm, CheckAgainCalm DEF Worker
<1>2. CASE UNCHANGED vars
  BY <1>2, StutterCalm DEF Good
<1> QED BY <1>1, <1>2, NoOtherStep, ApplicationsCalm DEF Next

LEMMA NextGood ==
    ASSUME Good, Room, CalmSystem, [Next]_vars PROVE Good'
<1>1. IInv' /\ IndexUnique'
  BY NextType, NextUnique DEF Good
<1> QED BY <1>1, NextCalm DEF Good

\* Types, unique keys and the four phases of a file hold in every state, so
\* long as the applications are calm, the outputs take every block and the
\* kernel has room for the events of one more step.
THEOREM CalmInductive == CalmSystem /\ Spec /\ []Room => []Good
<1> SUFFICES ASSUME CalmSystem PROVE Spec /\ []Room => []Good
  OBVIOUS
<1>1. Init => Good
  BY InitType, InitCalm DEF Good, Init, IndexUnique
<1>2. Good /\ Room /\ [Next]_vars => Good'
  BY NextGood
<1> QED BY <1>1, <1>2, PTL DEF Spec

\* A trace that lags behind its file will be looked at again: its watch is
\* never consumed, removed or put on another file without an event or a watch
\* time left behind, through re-arming, renames and the notes to self.
THEOREM CalmWakeUp == CalmSystem /\ Spec /\ []Room => []WakeUpPending
<1>1. Good => WakeUpPending
  BY DEF Good, CalmInv
<1> QED BY <1>1, CalmInductive, PTL

\* No file is lost between the directory scan, the creations while it runs,
\* and the renames: it is traced, or an event that will make it so is queued.
THEOREM CalmCovered == CalmSystem /\ Spec /\ []Room => []Covered
<1>1. Good => Covered
  BY DEF Good, CalmInv
<1> QED BY <1>1, CalmInductive, PTL

\* No block is read a second time: a rename keeps the offset, and a file is
\* adopted only while no trace of it exists.
THEOREM CalmOnce == CalmSystem /\ Spec /\ []Room => []AtMostOnce
<1>1. Good => AtMostOnce
  BY DEF Good, CalmInv
<1> QED BY <1>1, CalmInductive, PTL

\* No handler gives the worker up: no name is linked twice, and no descriptor
\* is handed out while a trace or an event still carries it.
THEOREM CalmAlive == CalmSystem /\ Spec /\ []Room => []Alive
<1>1. Good => Alive
  BY DEF Good, CalmInv, Alive
<1> QED BY <1>1, CalmInductive, PTL

\* A handler of a file event keeps every trace.
LEMMA OnFileStays == ASSUME Good, OnFile PROVE live' = live
<1> DEFINE v == Head(batch).wd
<1>0. NextIs("FILE")
  BY DEF OnFile
<1>1. 1 \in Spots /\ Line[1] = Head(batch) /\ IsEvent(1, "FILE") /\ pc = "loop"
  <2>1. batch # <<>> /\ Len(batch) \in Nat /\ Len(batch) > 0 /\ Line[1] = batch[1]
    BY <1>0, LineFacts DEF NextIs, Good, IInv, TypeOK
  <2> QED BY <1>0, <2>1, LineFacts DEF NextIs, Spots, Good, IsEvent
<1>2. ASSUME NEW t \in TraceOfWd(v), NEW w, AddWatchReturns(watch, trace[t].path, w, UsedWds),
             w # NoWd
      PROVE  TraceOfWd(w) \ {t} = {}
  BY <1>1, <1>2, RearmFacts DEF TraceOfWd
<1> QED BY <1>2 DEF OnFile

\* Only CheckFileOffset drops a trace, on behalf of a caller that has learnt
\* that the file is gone, and only when the file is read to its end.
LEMMA DropsDone ==
    ASSUME Good, Good', CalmSystem, [Next]_vars, NEW t \in live, t \notin live'
    PROVE  trace[t].offset = size[trace[t].ino] /\ ~Named(trace[t].ino)
<1>1. pc' # "dead" /\ ~Die
  BY DEF Good, CalmInv, Die
<1>2. ASSUME pc \in Checking, NEW tr, NEW ws, Return(TRUE, tr, ws)
      PROVE  t = job.t /\ Removes(TRUE) /\ ~Named(trace[t].ino)
  <2>1. t = job.t /\ Removes(TRUE)
    BY <1>2 DEF Return
  <2> QED BY <1>2, <2>1, CheckedPhase DEF Removes
<1>3. CASE CheckSize
  <2> DEFINE f == trace[job.t]
             tr == [trace EXCEPT ![job.t].count = NextCount(f.count)]
  <2>1. pc \in Checking /\ job.t \in live
    BY <1>3, CheckedTrace DEF CheckSize, Checking
  <2>2. f.offset <= size[f.ino] /\ f.offset \in Nat /\ size[f.ino] \in Nat
    BY <2>1, TraceFacts
  <2>3. ~(size[f.ino] < f.offset)
    BY <2>2
  <2>4. Return(TRUE, tr, watch) /\ size[f.ino] = f.offset
    BY <1>3, <2>3 DEF CheckSize
  <2> QED BY <1>2, <2>1, <2>4
<1>4. CASE CheckAgain
  <2>1. pc \in Checking /\ pc = "recheck"
    BY <1>4 DEF CheckAgain, Checking
  <2>2. /\ trace[t].offset <= size[trace[t].ino]
        /\ trace[t].offset \in Nat /\ size[trace[t].ino] \in Nat
    BY TraceFacts
  <2>3. PICK tr, ws : /\ Return(TRUE, tr, ws)
                      /\ \/ size[trace[job.t].ino] > trace[job.t].offset /\ ~Unlimited
                         \/ ~(size[trace[job.t].ino] > trace[job.t].offset)
    BY <1>4 DEF CheckAgain
  <2>4. t = job.t /\ Removes(TRUE) /\ ~Named(trace[t].ino)
    BY <1>2, <2>1, <2>3
  <2>5. ~Unlimited => job.caller = "gone"
    BY <2>4 DEF Unlimited, Removes
  <2>6. job.caller = "gone" => trace[t].offset = size[trace[t].ino]
    BY <2>1, <2>4 DEF Good, CalmInv, CheckOK
  <2> QED BY <2>2, <2>3, <2>4, <2>5, <2>6
<1>5. ~LoadEntry /\ ~OnCreate /\ ~WatchFile
  BY <1>1 DEF LoadEntry, OnCreate, OpenFile, WatchFile
<1>6. ~OnMovedTo
  BY RelocateFollows
<1>7. ~OnFile
  BY OnFileStays
<1>8. ~(LoadDone \/ ReadEvents \/ OnMovedFrom \/ OnDelete \/ Idle \/ BeginRound \/ WriteBlock
        \/ EndRound)
  BY DEF LoadDone, ReadEvents, OnMovedFrom, OnDelete, Idle, BeginRound, WriteBlock, EndRound
<1>9. ~Applications
  BY DEF Applications, AppCreate, AppAppend, AppClose, AppTruncate, AppUnlink, AppRename,
         AppMoveOut, AppMoveIn, workerVars
<1>10. ~(UNCHANGED vars)
  BY DEF vars
<1> QED BY <1>3, <1>4, <1>5, <1>6, <1>7, <1>8, <1>9, <1>10, NoOtherStep DEF Next, Worker

\* A trace is only dropped when its file was read to its end.
THEOREM CalmDrained == CalmSystem /\ Spec /\ []Room => Drained
<1> SUFFICES ASSUME CalmSystem PROVE Spec /\ []Room => Drained
  OBVIOUS
<1>1. Good /\ Good' /\ [Next]_vars =>
         [\A t \in live \ live' : trace[t].offset = size[trace[t].ino]]_vars
  BY DropsDone
<1> QED BY <1>1, CalmInductive, PTL DEF Spec, Drained

\* A trace is only dropped when its file has no name in the directory any
\* more: a renamed file keeps its trace.
THEOREM CalmFollowed == CalmSystem /\ Spec /\ []Room => Followed
<1> SUFFICES ASSUME CalmSystem PROVE Spec /\ []Room => Followed
  OBVIOUS
<1>1. Good /\ Good' /\ [Next]_vars =>
         [\A t \in live \ live' : pc' = "dead" \/ ~Named(trace[t].ino)]_vars
  BY DropsDone
<1> QED BY <1>1, CalmInductive, PTL DEF Spec, Followed

=============================================================================

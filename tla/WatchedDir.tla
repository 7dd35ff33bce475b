------------------------------ MODULE WatchedDir ------------------------------
(***************************************************************************)
(* The surroundings of logpipe-input-file: one watched directory, the      *)
(* applications that create, append to, truncate, rename and delete files  *)
(* in it, and the kernel's inotify instance of the worker.  Nothing here   *)
(* is code of the repository; each operator is modelled from the way       *)
(* src-plugins/logpipe-input-file.c uses it (its two watch masks, and the  *)
(* one-shot bit of the file mask in particular).                           *)
(*                                                                         *)
(* A file's content is abstracted to its length in blocks: block p of      *)
(* inode i is the p-th block ever appended to i since its last truncation. *)
(***************************************************************************)
EXTENDS Naturals, Sequences, FiniteSets

CONSTANTS
    Names,      \* the file names that pass the plugin's name patterns
    NoName,     \* the name field of an event on a file watch
    MaxInodes,  \* bound: how many files the applications ever create
    MaxSize,    \* bound: how many blocks a file ever holds
    MaxWd,      \* bound: how many watch descriptors are ever in use at once
    MaxCookie,  \* bound: how many rename cookies are ever in use at once
    MaxQueue    \* fs.inotify.max_queued_events

ASSUME DirAssumption ==
    /\ NoName \notin Names
    /\ MaxInodes \in Nat /\ MaxSize \in Nat /\ MaxWd \in Nat
    /\ MaxCookie \in Nat /\ MaxQueue \in Nat

VARIABLES
    dir,    \* dir[n]: the inode the name n is bound to, NoInode if none
    born,   \* how many inodes exist; they are numbered 1..born
    size,   \* size[i]: the length of inode i, in blocks
    watch,  \* watch[i]: the descriptor of the armed one-shot watch on i
    queue   \* the events the kernel holds for the worker's inotify fd

dirVars == <<dir, born, size, watch, queue>>

NoInode == 0
NoWd == 0
NoCookie == 0

Inodes == 1 .. MaxInodes
Wds == 1 .. MaxWd
Cookies == 1 .. MaxCookie

Event ==
    [mask : {"CREATE", "DELETE"}, name : Names, wd : {NoWd}, cookie : {NoCookie}]
    \cup [mask : {"MOVED_FROM", "MOVED_TO"}, name : Names, wd : {NoWd}, cookie : Cookies]
    \cup [mask : {"FILE"}, name : {NoName}, wd : Wds, cookie : {NoCookie}]

\* An event on the directory watch.
DirEvent(mask, n, c) == [mask |-> mask, name |-> n, wd |-> NoWd, cookie |-> c]

\* IN_MODIFY or IN_CLOSE_WRITE on a file watch: the plugin treats both alike.
FileEvent(w) == [mask |-> "FILE", name |-> NoName, wd |-> w, cookie |-> NoCookie]

\* A full queue drops the event (the kernel leaves one overflow mark, with
\* wd -1, which the plugin looks up in its wd tree and does not find).
Enqueue(q, e) == IF Len(q) < MaxQueue THEN Append(q, e) ELSE q

\* The file watches carry IN_ONESHOT: the first event removes the watch.
Notify(i) ==
    IF watch[i] = NoWd
    THEN UNCHANGED <<watch, queue>>
    ELSE /\ watch' = [watch EXCEPT ![i] = NoWd]
         /\ queue' = Enqueue(queue, FileEvent(watch[i]))

\* w is what inotify_add_watch(path n) returns when the watches are ws and
\* the descriptors in used must not be handed out again: NoWd when n does
\* not exist, the descriptor the inode already has, or the least free one.
AddWatchReturns(ws, n, w, used) ==
    \/ /\ dir[n] = NoInode
       /\ w = NoWd
    \/ /\ dir[n] # NoInode /\ ws[dir[n]] # NoWd
       /\ w = ws[dir[n]]
    \/ /\ dir[n] # NoInode /\ ws[dir[n]] = NoWd
       /\ w \in Wds \ used
       /\ \A v \in Wds \ used : w <= v

\* The watches ws after inotify_add_watch(path n) returned w # NoWd.
Armed(ws, n, w) == [ws EXCEPT ![dir[n]] = w]

\* The watches ws after inotify_rm_watch(w).
Disarmed(ws, w) == [i \in Inodes |-> IF ws[i] = w THEN NoWd ELSE ws[i]]

-----------------------------------------------------------------------------
(* What the applications do. *)

Create(n) ==
    /\ dir[n] = NoInode
    /\ born < MaxInodes
    /\ born' = born + 1
    /\ dir' = [dir EXCEPT ![n] = born + 1]
    /\ queue' = Enqueue(queue, DirEvent("CREATE", n, NoCookie))
    /\ UNCHANGED <<size, watch>>

\* An application may hold a file open after it was renamed or deleted.
AppendBlock(i) ==
    /\ i <= born
    /\ size[i] < MaxSize
    /\ size' = [size EXCEPT ![i] = @ + 1]
    /\ Notify(i)
    /\ UNCHANGED <<dir, born>>

CloseWrite(i) ==
    /\ watch[i] # NoWd
    /\ Notify(i)
    /\ UNCHANGED <<dir, born, size>>

Truncate(i) ==
    /\ size[i] > 0
    /\ size' = [size EXCEPT ![i] = 0]
    /\ Notify(i)
    /\ UNCHANGED <<dir, born>>

Unlink(n) ==
    /\ dir[n] # NoInode
    /\ dir' = [dir EXCEPT ![n] = NoInode]
    /\ queue' = Enqueue(queue, DirEvent("DELETE", n, NoCookie))
    /\ UNCHANGED <<born, size, watch>>

\* rename(n, m); a file m that existed is replaced without an IN_DELETE.  Assumed,
\* not promised by inotify: nothing is queued between the two events, and no read
\* returns one without the other.
Rename(n, m, c) ==
    /\ n # m
    /\ dir[n] # NoInode
    /\ dir' = [dir EXCEPT ![m] = dir[n], ![n] = NoInode]
    /\ queue' = Enqueue(Enqueue(queue, DirEvent("MOVED_FROM", n, c)),
                        DirEvent("MOVED_TO", m, c))
    /\ UNCHANGED <<born, size, watch>>

MoveOut(n, c) ==
    /\ dir[n] # NoInode
    /\ dir' = [dir EXCEPT ![n] = NoInode]
    /\ queue' = Enqueue(queue, DirEvent("MOVED_FROM", n, c))
    /\ UNCHANGED <<born, size, watch>>

MoveIn(n, c) ==
    /\ dir[n] = NoInode
    /\ born < MaxInodes
    /\ born' = born + 1
    /\ dir' = [dir EXCEPT ![n] = born + 1]
    /\ \E k \in 0 .. MaxSize : size' = [size EXCEPT ![born + 1] = k]
    /\ queue' = Enqueue(queue, DirEvent("MOVED_TO", n, c))
    /\ UNCHANGED watch
=============================================================================

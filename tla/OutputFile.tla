------------------------------- MODULE OutputFile -------------------------------
(***************************************************************************)
(* src-plugins/logpipe-output-file.c: the blocks of a message are appended  *)
(* to a file of the message's name.  The file stays open between messages,  *)
(* in a tree of TraceFile structures by path; when it has reached           *)
(* rotate_size it is renamed and the next one is opened.  Meanwhile others  *)
(* may remove, move or create files.                                        *)
(*                                                                         *)
(* input-exec and input-kafka give all their messages one name, so the      *)
(* tree has one structure at most.  A file is a number, whatever name it    *)
(* has; p_trace_file may point to a structure that was freed.               *)
(***************************************************************************)
EXTENDS Worker

CONSTANT RotateSize     \* rotate_size, or 0

ASSUME FileAssumption == RotateSize \in Nat

VARIABLES
    files,      \* the contents of all files there ever were
    path,       \* the file that has the message's name, or 0
    traced,     \* there is a structure in the tree
    fd,         \* its file, or 0 for -1
    dangling,   \* p_trace_file points to freed memory
    rotated     \* files that RotatingFile renamed

fileVars == <<files, path, traced, fd, dangling, rotated>>

FileInit ==
    /\ files = <<>> /\ path = 0
    /\ traced = FALSE /\ fd = 0 /\ dangling = FALSE
    /\ rotated = {}

FileTypeOK ==
    /\ {path, fd} \cup rotated \subseteq 0 .. Len(files)
    /\ path \notin rotated
    /\ traced \in BOOLEAN /\ dangling \in BOOLEAN
    /\ ~traced => fd = 0

File == conf.output = "file"

\* There is no Init and no event of this plugin, and its tree dies with it.
NoHook ==
    /\ File /\ hook \in {"initOutput", "cleanOutput"}
    /\ Return("ok")
    /\ UNCHANGED <<loopVars, watched, faults, fileVars>>

\* Mutant: the file is opened with O_TRUNC, too.
OpenFile_Truncates(named) ==
    /\ files' = IF named = 0 THEN Append(files, <<>>) ELSE [files EXCEPT ![named] = <<>>]
    /\ path' = IF named = 0 THEN Len(files) + 1 ELSE named
    /\ fd' = path'

\* open with O_CREAT
OpenFile(named) ==
    /\ files' = IF named = 0 THEN Append(files, <<>>) ELSE files
    /\ path' = IF named = 0 THEN Len(files) + 1 ELSE named
    /\ fd' = path'

\* UnlinkTraceFilePathFilenameTreeNode, CloseFile, FreeTraceFile
FreeTrace == traced' = FALSE /\ fd' = 0 /\ dangling' = TRUE

-----------------------------------------------------------------------------
(* BeforeWriteOutputPlugin *)

\* Mutant: access is not asked whether the file is still there.
Cached_Unchecked == traced

\* The structure is in the tree, and access finds a file of its name.
Cached == traced /\ path # 0

UseCached ==
    /\ File /\ hook = "before" /\ Cached
    /\ dangling' = FALSE
    /\ Return("ok")
    /\ UNCHANGED <<loopVars, watched, faults, files, path, traced, fd, rotated>>

OpenAnew ==
    /\ File /\ hook = "before" /\ ~Cached
    /\ OpenFile(path)
    /\ traced' = TRUE /\ dangling' = FALSE
    /\ Return("ok")
    /\ UNCHANGED <<loopVars, watched, faults, rotated>>

OpenFails ==
    /\ File /\ hook = "before" /\ ~Cached
    /\ Fault
    /\ FreeTrace
    /\ Return("soft")
    /\ UNCHANGED <<loopVars, watched, files, path, rotated>>

-----------------------------------------------------------------------------
(* WriteOutputPlugin *)

Writing == File /\ hook = "write" /\ ~dangling

Appended(bytes) == [files EXCEPT ![fd] = @ \o bytes]

\* st_size >= rotate_size
Reached == RotateSize > 0 /\ Len(files[fd]) + Len(block) >= RotateSize

WriteBlock ==
    /\ Writing /\ fd # 0 /\ ~Reached
    /\ files' = Appended(block)
    /\ Return("ok")
    /\ UNCHANGED <<loopVars, watched, faults, path, traced, fd, dangling, rotated>>

\* OpenFile, after the rename
Reopen == files' = Append(Appended(block), <<>>) /\ path' = Len(files) + 1 /\ fd' = path'

\* RotatingFile: close, rename, open; the file of this name need not be that of fd.
WriteAndRotate ==
    /\ Writing /\ fd # 0 /\ Reached /\ path # 0
    /\ rotated' = rotated \cup {path}
    /\ \/ Reopen /\ faults' = faults
       \/ files' = Appended(block) /\ path' = 0 /\ fd' = 0 /\ Fault
    /\ Return("ok")
    /\ UNCHANGED <<loopVars, watched, traced, dangling>>

\* fstat or rename fails, rename also when the file was moved away.  The result is
\* 0, and the next block of this message finds p_trace_file freed.
RotateFails ==
    /\ Writing /\ fd # 0 /\ Reached
    /\ files' = Appended(block)
    /\ FreeTrace
    /\ IF path = 0 THEN faults' = faults ELSE Fault
    /\ Return("ok")
    /\ UNCHANGED <<loopVars, watched, path, rotated>>

\* writen fails after some bytes, or at once without a descriptor.
WriteFails ==
    /\ Writing
    /\ IF fd = 0 THEN files' = files /\ faults' = faults
       ELSE /\ \E n \in 0 .. Len(block) - 1 : files' = Appended(SubSeq(block, 1, n))
            /\ Fault
    /\ FreeTrace
    /\ Return("soft")
    /\ UNCHANGED <<loopVars, watched, path, rotated>>

\* UncompressInputPluginData fails.
UncompressFails ==
    /\ Writing
    /\ Fault
    /\ FreeTrace
    /\ Return("hard")
    /\ UNCHANGED <<loopVars, watched, files, path, rotated>>

\* Undefined: the worker dies or, when the freed memory still says -1, the write
\* fails.
WriteFreed ==
    /\ File /\ hook = "write" /\ dangling
    /\ \/ hook' = "exit" /\ accepted' = accepted
       \/ Return("soft")
    /\ UNCHANGED <<loopVars, watched, faults, fileVars>>

FileHooks ==
    \/ NoHook \/ UseCached \/ OpenAnew \/ OpenFails
    \/ WriteBlock \/ WriteAndRotate \/ RotateFails \/ WriteFails \/ UncompressFails
    \/ WriteFreed

-----------------------------------------------------------------------------
(* Others *)

\* unlink or rename, by exec_after_rotating or anybody
MoveAway ==
    /\ File /\ path # 0 /\ hook # "exit"
    /\ Fault
    /\ path' = 0
    /\ UNCHANGED <<loopVars, watched, hook, accepted, files, traced, fd, dangling, rotated>>

CreateEmpty ==
    /\ File /\ path = 0 /\ hook # "exit"
    /\ files' = Append(files, <<>>)
    /\ path' = Len(files) + 1
    /\ UNCHANGED <<loopVars, watched, hook, accepted, faults, traced, fd, dangling, rotated>>

Others == MoveAway \/ CreateEmpty

-----------------------------------------------------------------------------
(* Properties *)

Bytes(s) == {s[i] : i \in DOMAIN s}

\* WriteOutputPlugin: a block it returned 0 for is in one file, whole; no byte is
\* written twice, and the files in the order they were created, and each from its
\* start, hold the bytes in order, however rotations, failed writes, files moved
\* away and files freed too early interleave.
FilesKeep ==
    /\ File => \A b \in Bytes(accepted) : \E f \in Bytes(files) : Bytes(b) \subseteq Bytes(f)
    /\ \A f, g \in DOMAIN files :
        \A i \in DOMAIN files[f], j \in DOMAIN files[g] :
            f < g \/ (f = g /\ i < j) => files[f][i] < files[g][j]

\* RotatingFile and BeforeWriteOutputPlugin: what was rotated away does not grow
\* any more, and a message whose file nobody else created anew begins with the
\* file that has its name.
FileSteps ==
    [][/\ \A f \in rotated : files'[f] = files[f]
       /\ File /\ hook = "before" /\ hook' = "read" /\ path \in {0, fd} => fd' = path' /\ fd' # 0]_<<hook, fileVars>>
=============================================================================

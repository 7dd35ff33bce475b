------------------------------- MODULE InputExec -------------------------------
(***************************************************************************)
(* src-plugins/logpipe-input-exec.c: the worker reads what a command it     *)
(* started with popen writes to its pipe.  When the command has ended and   *)
(* the pipe is empty epoll reports a hang-up that is not readable, which    *)
(* ends the worker, and the next worker starts the command again.           *)
(*                                                                         *)
(* fread returns the number of bytes, 0 at an error too: the branches of    *)
(* ReadInputPlugin for -1 are never taken, and pp stays open.  popen is     *)
(* repeated until it succeeds.                                              *)
(***************************************************************************)
EXTENDS Worker

CONSTANTS
    TextLen,    \* bound: bytes the command writes
    BlockSize   \* block_buf_size - 1

ASSUME ExecAssumption == TextLen \in Nat /\ BlockSize \in Nat \ {0}

VARIABLES
    written,    \* bytes the command has written
    read,       \* bytes that were read
    ended       \* the command has ended

execVars == <<written, read, ended>>

ExecInit == written = 0 /\ read = 0 /\ ended = FALSE

ExecTypeOK == written \in 0 .. TextLen /\ read \in 0 .. written /\ ended \in BOOLEAN

Exec == conf.input = "exec"

Child == <<"child", 0>>

\* Readable with bytes in the pipe, hung up without.
ChildEvents ==
    IF Child \in watched /\ (written > read \/ ended)
    THEN {Event(Child, written > read)} ELSE {}

CommandWrites ==
    /\ Exec /\ Child \in watched /\ hook # "exit"
    /\ ~ended /\ written < TextLen
    /\ written' \in written + 1 .. TextLen
    /\ UNCHANGED <<read, ended>>

CommandEnds ==
    /\ Exec /\ Child \in watched /\ hook # "exit"
    /\ ~ended
    /\ ended' = TRUE
    /\ UNCHANGED <<written, read>>

\* InitInputPluginContext
StartCommand ==
    /\ Exec /\ hook = "initInput"
    /\ watched' = watched \cup {Child}
    /\ Return("ok")
    /\ UNCHANGED <<loopVars, faults, execVars>>

\* fread on a descriptor that does not block
Available == IF written - read < BlockSize THEN written - read ELSE BlockSize

\* ReadInputPlugin; a block that cannot be compressed is lost.
ReadCommand ==
    /\ Exec /\ hook = "read"
    /\ read' = read + Available
    /\ block' = [i \in 1 .. Available |-> read + i]
    /\ \/ Available = 0 /\ Return("end") /\ faults' = faults
       \/ Available > 0 /\ Return("ok") /\ faults' = faults
       \/ Available > 0 /\ Return("hard") /\ Fault
    /\ UNCHANGED <<conf, batch, watched, quitPipe, quit_flag, written, ended>>

\* CleanInputPluginContext, before it epoll_ctl DEL; pclose is not called.
CleanCommand ==
    /\ Exec /\ hook = "cleanInput"
    /\ watched' = watched \ {Child}
    /\ Return("ok")
    /\ UNCHANGED <<loopVars, faults, execVars>>

ExecHooks == StartCommand \/ ReadCommand \/ CleanCommand

Command == CommandWrites \/ CommandEnds
=============================================================================

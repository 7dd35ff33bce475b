------------------------------ MODULE Supervisor ------------------------------
(***************************************************************************)
(* src/monitor.c and src/worker.c: the monitor process forks one worker,   *)
(* waits for it and forks the next one when it ended, until a SIGTERM has  *)
(* set g_QUIT_flag.  The worker notices the stop as end of file on the     *)
(* quit pipe, whose only write end the monitor holds.                      *)
(*                                                                         *)
(* Signals arrive between any two steps; a SIGTERM interrupts waitpid only *)
(* while the monitor sleeps in it.  Faults are crashes of the worker, a    *)
(* pipe or fork that fails, and a kill -9 of the monitor, which is what    *)
(* shbin/logpipe.sh falls back to.                                         *)
(***************************************************************************)
EXTENDS Naturals

CONSTANTS
    MaxTerms,    \* how many SIGTERMs the operator sends
    MaxFaults,   \* how many faults there are
    BlockInput   \* TRUE: an input plugin without a descriptor, InitEnvironment's
                 \* p_block_input_plugin, is configured

ASSUME SupervisorAssumption ==
    MaxTerms \in Nat /\ MaxFaults \in Nat /\ BlockInput \in BOOLEAN

VARIABLES
    monitor,    \* where the monitor is
    g_QUIT_flag,
    quit_pipe,  \* its write end: "open" or "closed"; "closed" is -1 or no monitor
    once,       \* the start-once variables are in the monitor's environment
    worker,     \* where the worker is; "ended" until it is waited for
    quit_flag,  \* worker's: the quit pipe was among the events of this batch
    terms,      \* how many SIGTERMs were sent
    faults,     \* how many faults there were
    killed,     \* history: the monitor has sent SIGKILL
    doses       \* history: workers forked with the start-once variables

vars == <<monitor, g_QUIT_flag, quit_pipe, once, worker, quit_flag, terms, faults, killed,
          doses>>

Alive == {"init", "block", "loop", "busy"}

\* The monitor returned 0; it returned -1 or was killed.
Over == monitor \in {"exited", "failed"}

\* The type invariant: monitor() is at one of its system calls, the worker has
\* one of its states.
TypeOK ==
    /\ monitor \in {"check", "call", "waiting", "interrupted", "exited", "failed"}
    /\ g_QUIT_flag \in BOOLEAN
    /\ quit_pipe \in {"open", "closed"}
    /\ once \in BOOLEAN
    /\ worker \in Alive \cup {"none", "ended"}
    /\ quit_flag \in BOOLEAN
    /\ terms \in 0 .. MaxTerms
    /\ faults \in 0 .. MaxFaults
    /\ killed \in BOOLEAN
    /\ doses \in Nat

\* SetStartOnceEnv, before the loop
Init ==
    /\ monitor = "check"
    /\ g_QUIT_flag = FALSE
    /\ quit_pipe = "closed"
    /\ once \in BOOLEAN
    /\ worker = "none"
    /\ quit_flag = FALSE
    /\ terms = 0 /\ faults = 0
    /\ killed = FALSE
    /\ doses = 0

-----------------------------------------------------------------------------
(* The environment *)

\* sig_set_flag.  Asleep in waitpid the monitor is woken with EINTR.
Term ==
    /\ ~Over
    /\ terms < MaxTerms
    /\ terms' = terms + 1
    /\ g_QUIT_flag' = TRUE
    /\ monitor' = IF monitor = "waiting" THEN "interrupted" ELSE monitor
    /\ UNCHANGED <<quit_pipe, once, worker, quit_flag, faults, killed, doses>>

Fault ==
    /\ faults < MaxFaults
    /\ faults' = faults + 1

\* The process is gone and the kernel closes its end of the pipe.
KillMonitor ==
    /\ ~Over
    /\ Fault
    /\ monitor' = "failed"
    /\ quit_pipe' = "closed"
    /\ UNCHANGED <<g_QUIT_flag, once, worker, quit_flag, terms, killed, doses>>

\* A handler, an idle function or InitEnvironment failed, or the process died.
Crash ==
    /\ worker \in Alive
    /\ Fault
    /\ worker' = "ended"
    /\ UNCHANGED <<monitor, g_QUIT_flag, quit_pipe, once, quit_flag, terms, killed, doses>>

-----------------------------------------------------------------------------
(* monitor *)

\* The loop's condition is false: return 0.
Quit ==
    /\ monitor = "check"
    /\ g_QUIT_flag
    /\ monitor' = "exited"
    /\ UNCHANGED <<g_QUIT_flag, quit_pipe, once, worker, quit_flag, terms, faults, killed,
                   doses>>

\* Mutant: UnsetStartOnceEnv is not called.
Forked_KeepsOnce == once' = once

Forked == once' = FALSE

\* pipe and fork; the parent unsets the start-once variables, the child has
\* them as they were.
Fork ==
    /\ monitor = "check"
    /\ ~g_QUIT_flag
    /\ quit_pipe' = "open"
    /\ worker' = "init"
    /\ quit_flag' = FALSE
    /\ doses' = IF once THEN doses + 1 ELSE doses
    /\ Forked
    /\ monitor' = "call"
    /\ UNCHANGED <<g_QUIT_flag, terms, faults, killed>>

\* pipe or fork failed: return -1.
ForkFails ==
    /\ monitor = "check"
    /\ ~g_QUIT_flag
    /\ Fault
    /\ monitor' = "failed"
    /\ UNCHANGED <<g_QUIT_flag, quit_pipe, once, worker, quit_flag, terms, killed, doses>>

\* waitpid finds the worker running and sleeps, whatever g_QUIT_flag says.
Wait ==
    /\ monitor = "call"
    /\ worker \in Alive
    /\ monitor' = "waiting"
    /\ UNCHANGED <<g_QUIT_flag, quit_pipe, once, worker, quit_flag, terms, faults, killed,
                   doses>>

\* Mutant: the monitor waits for one worker only.
Reap_Once ==
    /\ monitor \in {"call", "waiting"}
    /\ worker = "ended"
    /\ worker' = "none"
    /\ quit_pipe' = "closed"
    /\ monitor' = "exited"
    /\ UNCHANGED <<g_QUIT_flag, once, quit_flag, terms, faults, killed, doses>>

\* waitpid returns the worker; the pipe is closed if it still is open, and
\* after sleep(1) the loop's condition comes next.
Reap ==
    /\ monitor \in {"call", "waiting"}
    /\ worker = "ended"
    /\ worker' = "none"
    /\ quit_pipe' = "closed"
    /\ monitor' = "check"
    /\ UNCHANGED <<g_QUIT_flag, once, quit_flag, terms, faults, killed, doses>>

\* Mutant: EINTR kills the worker without asking it to stop.
Interrupted_AtOnce ==
    /\ monitor = "interrupted"
    /\ monitor' = "call"
    /\ quit_pipe' = "closed"
    /\ killed' = TRUE
    /\ worker' = "ended"
    /\ UNCHANGED <<g_QUIT_flag, once, quit_flag, terms, faults, doses>>

\* Mutant: after EINTR waitpid is not called again.
Interrupted_NoWait ==
    /\ monitor = "interrupted"
    /\ monitor' = "check"
    /\ quit_pipe' = "closed"
    /\ UNCHANGED <<g_QUIT_flag, once, worker, quit_flag, terms, faults, killed, doses>>

\* EINTR with g_QUIT_flag set: the pipe is closed the first time, SIGKILL
\* follows the next time, and waitpid is called again.
Interrupted ==
    /\ monitor = "interrupted"
    /\ monitor' = "call"
    /\ \/ /\ quit_pipe = "open"
          /\ quit_pipe' = "closed"
          /\ UNCHANGED <<worker, killed>>
       \/ /\ quit_pipe = "closed"
          /\ killed' = TRUE
          /\ worker' = "ended"
          /\ UNCHANGED quit_pipe
    /\ UNCHANGED <<g_QUIT_flag, once, quit_flag, terms, faults, doses>>

Monitor == Quit \/ Fork \/ Wait \/ Reap \/ Interrupted

-----------------------------------------------------------------------------
(* worker *)

\* InitEnvironment; the quit pipe is watched unless a block input plugin is
\* there, whose event function the worker then calls for ever.
Started ==
    /\ worker = "init"
    /\ worker' = IF BlockInput THEN "block" ELSE "loop"
    /\ UNCHANGED <<monitor, g_QUIT_flag, quit_pipe, once, quit_flag, terms, faults, killed,
                   doses>>

\* Mutant: end of file on the quit pipe is taken for one more event.
Hangup_Ignored == FALSE

\* epoll reports the hangup of the quit pipe with whatever else there is.
Hangup == quit_pipe = "closed"

\* epoll_wait returns events or times out.
EpollWait ==
    /\ worker = "loop"
    /\ worker' = "busy"
    /\ quit_flag' = Hangup
    /\ UNCHANGED <<monitor, g_QUIT_flag, quit_pipe, once, terms, faults, killed, doses>>

\* The batch is handled; with quit_flag set CleanEnvironment and the exit follow.
Handled ==
    /\ worker = "busy"
    /\ worker' = IF quit_flag THEN "ended" ELSE "loop"
    /\ UNCHANGED <<monitor, g_QUIT_flag, quit_pipe, once, quit_flag, terms, faults, killed,
                   doses>>

Next ==
    \/ Term \/ KillMonitor \/ Crash
    \/ Quit \/ Fork \/ ForkFails \/ Wait \/ Reap \/ Interrupted
    \/ Started \/ EpollWait \/ Handled

Spec == Init /\ [][Next]_vars

\* The monitor is scheduled, and epoll_wait returns once the quit pipe has
\* hung up.  That InitEnvironment or a handler returns is not assumed: an
\* output may connect, or send again, for ever.
FairSpec == Spec /\ WF_vars(Monitor) /\ WF_vars(EpollWait /\ quit_pipe = "closed")

-----------------------------------------------------------------------------
(* Properties *)

\* SIGKILL is the second resort: the monitor sends it only when at least two
\* SIGTERMs have arrived (the branch on quit_pipe[1] after EINTR, monitor.c).
KilledOnSecond == killed => terms >= 2

\* However often the worker is restarted, only one ever starts with the
\* start-once variables, so a full dose of a directory is collected once
\* (SetStartOnceEnv before the loop, UnsetStartOnceEnv after the fork).
OneDose == doses <= 1

\* The monitor forks only when no worker is left, running or unreaped, from
\* the turn before: two workers would collect and send everything twice.
OneWorker == monitor = "check" => worker = "none"

\* A worker that ended without a stop having been asked for is followed by
\* another one (README.md: the monitor restarts a crashed worker), unless the
\* monitor itself failed.
Restarted == worker = "ended" ~> (worker \in Alive \/ g_QUIT_flag \/ monitor = "failed")

\* The worker never returns from InitEnvironment or from a handler.
Hangs == [](worker \in {"init", "busy"})

\* A SIGTERM that interrupts waitpid stops both processes, unless the worker
\* hangs (the quit pipe from monitor.c to the epoll loop of worker.c).
Stops == monitor = "interrupted" ~> ((Over /\ worker \notin Alive) \/ Hangs)

\* A worker does not outlive its monitor, however that ended, unless it hangs:
\* only the monitor holds the write end of the quit pipe.
NoOrphan == Over ~> (worker \notin Alive \/ Hangs)

\* README.md on stopping: find the pid of the manager process, send it TERM.
TermStops == g_QUIT_flag ~> (Over \/ Hangs)
=============================================================================

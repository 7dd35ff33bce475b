------------------------------- MODULE Dispatch -------------------------------
(***************************************************************************)
(* src/output.c, WriteAllOutputPlugins: one message is read from an input  *)
(* plugin block by block, every block passes all filters and then all      *)
(* outputs, and the hooks of all plugins are called before and after it.   *)
(* With it, what the caller, OnInputPluginEvent of the input plugin, does  *)
(* with the result.  The worker is one thread: messages do not overlap.    *)
(*                                                                         *)
(* A hook may return 0, > 0 or < 0; a hook a plugin does not export counts *)
(* as one that returns 0.  Of the input plugins only input-file has a      *)
(* Before hook, which always returns 0.  What is in a block is left out.   *)
(***************************************************************************)
EXTENDS Integers

CONSTANTS
    Inputs,     \* the input plugins
    Fatal,      \* those whose OnInputPluginEvent hands a -1 on to the event loop:
                \* input-tcp and input-kafka do, input-file and input-exec do not
    Handlers,   \* how many filter and output plugins there are, in their order
    MaxBlocks   \* bound: blocks of one message

ASSUME DispatchAssumption ==
    Fatal \subseteq Inputs /\ Handlers \in Nat /\ MaxBlocks \in Nat

VARIABLES
    phase,      \* "idle", "before", "block", "after", or "dead": the worker exits
    input,      \* the input plugin of the message
    at,         \* whose hook is next: 0 the input, then the filters and outputs
    nret,       \* how the message ended or, while it runs, "ok"
    reads,      \* blocks read
    did,        \* blocks each filter and output has returned 0 for
    open        \* the plugins that had their Before and not yet their After hook

vars == <<phase, input, at, nret, reads, did, open>>

Plugins == 0 .. Handlers

\* The type invariant: the loops of WriteAllOutputPlugins stay within the lists
\* of plugins.
TypeOK ==
    /\ phase \in {"idle", "before", "block", "after", "dead"}
    /\ input \in Inputs
    /\ at \in Plugins
    /\ nret \in {"ok", "soft", "hard"}
    /\ reads \in 0 .. MaxBlocks
    /\ did \in [1 .. Handlers -> 0 .. MaxBlocks]
    /\ open \in SUBSET Plugins

Init ==
    /\ phase = "idle"
    /\ input \in Inputs
    /\ at = 0
    /\ nret = "ok"
    /\ reads = 0
    /\ did = [p \in 1 .. Handlers |-> 0]
    /\ open = {}

-----------------------------------------------------------------------------
(* How a hook's result is treated *)

\* < 0: return -1 at once.  Either the worker exits, and what the plugins had
\* open is gone with it, or the input plugin goes on.
Return ==
    /\ nret' = "hard"
    /\ phase' = IF input \in Fatal THEN "dead" ELSE "idle"
    /\ at' = 0
    /\ UNCHANGED <<input, reads, did, open>>

\* Mutant: a broken message returns without the After hooks.
GotoAfter_Returns(r) ==
    /\ phase' = IF r = "ok" THEN "after" ELSE "idle"
    /\ at' = 0
    /\ nret' = r
    /\ UNCHANGED <<input, reads, did, open>>

\* > 0, or the end of the message: on to _GOTO_AFTER_OUTPUT.
GotoAfter(r) ==
    /\ phase' = "after"
    /\ at' = 0
    /\ nret' = r
    /\ UNCHANGED <<input, reads, did, open>>

\* Mutant: the loop runs past the last plugin.
Onward_TooFar ==
    IF at <= Handlers
    THEN at' = at + 1 /\ phase' = phase
    ELSE at' = 0 /\ phase' = "block"

\* The loops over the plugins go on with the next one and then to the next
\* phase: the first Read after the Before hooks and after the last output.
Onward ==
    IF at < Handlers
    THEN at' = at + 1 /\ phase' = phase
    ELSE at' = 0 /\ phase' = "block"

-----------------------------------------------------------------------------
(* The hooks *)

\* OnInputPluginEvent calls WriteAllOutputPlugins.
Message ==
    /\ phase = "idle"
    /\ phase' = "before"
    /\ input' \in Inputs
    /\ at' = 0 /\ nret' = "ok" /\ reads' = 0
    /\ did' = [p \in 1 .. Handlers |-> 0]
    /\ UNCHANGED open

\* Mutant: a Before hook that returned > 0 does not break the message.
Refused_GoesOn == Onward /\ UNCHANGED <<input, nret, reads, did, open>>

Refused == GotoAfter("soft")

\* BeforeReadInputPlugin, BeforeProcessFilterPlugin, BeforeWriteOutputPlugin: all but
\* the first can fail.
Before ==
    /\ phase = "before"
    /\ \/ /\ open' = open \cup {at}
          /\ Onward
          /\ UNCHANGED <<input, nret, reads, did>>
       \/ at > 0 /\ Refused
       \/ at > 0 /\ Return

\* ReadInputPlugin: a block, the end, > 0 or < 0.
Read ==
    /\ phase = "block" /\ at = 0
    /\ \/ /\ reads < MaxBlocks
          /\ reads' = reads + 1
          /\ Onward
          /\ UNCHANGED <<input, nret, did, open>>
       \/ GotoAfter("ok")
       \/ GotoAfter("soft")
       \/ Return

\* Mutant: an output that returned > 0 is passed over.
Failed_NextPlugin == Onward /\ UNCHANGED <<input, nret, reads, did, open>>

Failed == GotoAfter("soft")

\* ProcessFilterPlugin and WriteOutputPlugin
Handle ==
    /\ phase = "block" /\ at > 0
    /\ \/ /\ did' = [did EXCEPT ![at] = @ + 1]
          /\ Onward
          /\ UNCHANGED <<input, nret, reads, open>>
       \/ Failed
       \/ Return

\* AfterReadInputPlugin, AfterProcessFilterPlugin, AfterWriteOutputPlugin of
\* every plugin, begun or not; their results are only logged.
After ==
    /\ phase = "after"
    /\ open' = open \ {at}
    /\ IF at < Handlers
       THEN at' = at + 1 /\ phase' = "after"
       ELSE at' = 0 /\ phase' = "idle"
    /\ UNCHANGED <<input, nret, reads, did>>

\* The monitor forks the next worker.
Restart ==
    /\ phase = "dead"
    /\ phase' = "idle"
    /\ open' = {}
    /\ nret' = "ok"
    /\ UNCHANGED <<input, at, reads, did>>

Next == Message \/ Before \/ Read \/ Handle \/ After \/ Restart

Spec == Init /\ [][Next]_vars

-----------------------------------------------------------------------------
(* Properties *)

\* The block every filter and output sees next: no plugin is ahead of the
\* reader or of a plugin before it, none is more than one block behind (the
\* loop of WriteAllOutputPlugins), whatever any plugin returned.
Lockstep ==
    /\ \A p \in 1 .. Handlers : reads - did[p] \in {0, 1}
    /\ \A p, q \in 1 .. Handlers : p < q => did[p] - did[q] \in {0, 1}

\* A message that WriteAllOutputPlugins reports as delivered went through every
\* filter and to every output, block for block.
Delivered == nret = "ok" /\ phase = "after" => \A p \in 1 .. Handlers : did[p] = reads

\* While blocks pass every plugin's Before hook has returned 0, and once one was
\* read, or the message was empty, every After hook closes what its Before hook
\* opened.  (When a Before hook breaks the message, plugins that were never
\* begun get their After hook too.)
Paired ==
    /\ phase = "block" => open = Plugins
    /\ phase = "after" /\ (nret = "ok" \/ reads > 0) => open = at .. Handlers

\* Between two messages no plugin has one open, so that none is begun inside
\* another, unless an input plugin went on after a -1: only the early returns of
\* WriteAllOutputPlugins skip the After hooks.
Balanced == phase = "idle" /\ nret # "hard" => open = {}

\* README.md on the plugin interfaces: a callback that returns less than 0
\* has the worker process restarted.
HardRestarts == [][nret' = "hard" /\ nret # "hard" => phase' = "dead"]_vars
=============================================================================

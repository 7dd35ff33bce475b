--------------------------- MODULE Dispatch_proofs ---------------------------
(***************************************************************************)
(* What WriteAllOutputPlugins guarantees for any number of input, filter   *)
(* and output plugins and of blocks, whatever the hooks return.            *)
(***************************************************************************)
EXTENDS Dispatch, TLAPS

\* How many blocks plugin p has handled when the plugins before q have the
\* current block and those from q on do not have it yet.
Progress(p, q) == IF p < q THEN reads ELSE reads - 1

\* The loop at the plugin at: nothing is handled before the first Read, and all
\* of a block is handled before the next one.
Counts ==
    /\ phase = "before" => reads = 0 /\ \A p \in 1 .. Handlers : did[p] = 0
    /\ phase = "block" /\ at = 0 => \A p \in 1 .. Handlers : did[p] = reads
    /\ phase = "block" /\ at > 0 =>
          reads > 0 /\ \A p \in 1 .. Handlers : did[p] = Progress(p, at)

\* The After hooks run in the plugins' order and close all that was opened.
Opened ==
    /\ phase = "before" => \A p \in Plugins : p < at => p \in open
    /\ phase = "after" => open \subseteq at .. Handlers

IInv == TypeOK /\ Counts /\ Opened /\ Lockstep /\ Delivered /\ Paired /\ Balanced

LEMMA InitInv == Init => IInv
BY DispatchAssumption
   DEF Init, IInv, TypeOK, Counts, Opened, Lockstep, Delivered, Paired, Balanced, Plugins

\* The three ways a hook's result is treated, from any phase that has hooks.
LEMMA ReturnInv ==
    ASSUME IInv, Return PROVE IInv'
BY DispatchAssumption
   DEF Return, IInv, TypeOK, Counts, Opened, Lockstep, Delivered, Paired, Balanced, Plugins

LEMMA GotoAfterInv ==
    ASSUME IInv, NEW r \in {"ok", "soft"}, GotoAfter(r), phase \in {"before", "block"},
           r = "ok" => phase = "block" /\ at = 0
    PROVE  IInv'
<1> USE DispatchAssumption DEF GotoAfter, IInv, TypeOK, Plugins
<1>1. TypeOK'
  OBVIOUS
<1>2. Counts' /\ Opened'
  BY DEF Counts, Opened
<1>3. Lockstep'
  BY DEF Lockstep
<1>4. Delivered'
  BY DEF Delivered, Counts
<1>5. Paired' /\ Balanced'
  BY DEF Paired, Balanced, Counts
<1> QED
  BY <1>1, <1>2, <1>3, <1>4, <1>5

LEMMA MessageInv == IInv /\ Message => IInv'
BY DispatchAssumption
   DEF Message, IInv, TypeOK, Counts, Opened, Lockstep, Delivered, Paired, Balanced, Plugins

LEMMA BeforeInv == IInv /\ Before => IInv'
<1> SUFFICES ASSUME IInv, Before PROVE IInv'
  OBVIOUS
<1> USE DispatchAssumption DEF Before, IInv, TypeOK, Plugins
<1>1. CASE open' = open \cup {at} /\ Onward /\ UNCHANGED <<input, nret, reads, did>>
  <2> USE <1>1 DEF Onward
  <2>1. TypeOK'
    OBVIOUS
  <2>2. Counts' /\ Lockstep' /\ Delivered' /\ Balanced'
    BY DEF Counts, Lockstep, Delivered, Balanced
  <2>3. Opened'
    BY DEF Opened
  <2>4. Paired'
    <3>1. ASSUME at = Handlers PROVE open' = Plugins
      <4>1. phase = "before" /\ open' \subseteq Plugins
        OBVIOUS
      <4>2. ASSUME NEW p \in Plugins PROVE p \in open'
        <5>1. p < at \/ p = at
          BY <3>1, <4>2
        <5>2. p < at => p \in open
          BY <4>1, <4>2 DEF Opened
        <5> QED
          BY <5>1, <5>2
      <4> QED
        BY <4>1, <4>2
    <3> QED
      BY <3>1 DEF Paired
  <2> QED
    BY <2>1, <2>2, <2>3, <2>4
<1>2. CASE Refused
  BY <1>2, GotoAfterInv DEF Refused
<1>3. CASE Return
  BY <1>3, ReturnInv
<1> QED
  BY <1>1, <1>2, <1>3

LEMMA ReadInv == IInv /\ Read => IInv'
<1> SUFFICES ASSUME IInv, Read PROVE IInv'
  OBVIOUS
<1> USE DispatchAssumption DEF Read
<1>1. CASE reads < MaxBlocks /\ reads' = reads + 1 /\ Onward
           /\ UNCHANGED <<input, nret, did, open>>
  <2> USE <1>1 DEF Onward, IInv, TypeOK, Plugins
  <2>1. TypeOK'
    OBVIOUS
  <2>2. Counts'
    BY DEF Counts, Progress
  <2>3. Lockstep'
    BY DEF Lockstep, Counts
  <2>4. Opened' /\ Delivered' /\ Paired' /\ Balanced'
    BY DEF Opened, Delivered, Paired, Balanced
  <2> QED
    BY <2>1, <2>2, <2>3, <2>4
<1>2. CASE GotoAfter("ok")
  BY <1>2, GotoAfterInv
<1>3. CASE GotoAfter("soft")
  BY <1>3, GotoAfterInv
<1>4. CASE Return
  BY <1>4, ReturnInv
<1> QED
  BY <1>1, <1>2, <1>3, <1>4

LEMMA HandleInv == IInv /\ Handle => IInv'
<1> SUFFICES ASSUME IInv, Handle PROVE IInv'
  OBVIOUS
<1> USE DispatchAssumption DEF Handle
<1>1. CASE did' = [did EXCEPT ![at] = @ + 1] /\ Onward
           /\ UNCHANGED <<input, nret, reads, open>>
  <2> USE <1>1 DEF Onward, IInv, TypeOK, Plugins
  <2>1. \A p \in 1 .. Handlers : did[p] = Progress(p, at)
    BY DEF Counts
  <2>2. \A p \in 1 .. Handlers : did'[p] = Progress(p, at + 1)
    BY <2>1 DEF Progress
  <2>3. TypeOK'
    BY <2>1 DEF Progress, Counts
  <2>4. Counts'
    BY <2>2 DEF Counts, Progress
  <2>5. Lockstep'
    BY <2>2 DEF Lockstep, Progress
  <2>6. Opened' /\ Delivered' /\ Paired' /\ Balanced'
    BY DEF Opened, Delivered, Paired, Balanced
  <2> QED
    BY <2>3, <2>4, <2>5, <2>6
<1>2. CASE Failed
  BY <1>2, GotoAfterInv DEF Failed
<1>3. CASE Return
  BY <1>3, ReturnInv
<1> QED
  BY <1>1, <1>2, <1>3

LEMMA AfterInv == IInv /\ After => IInv'
<1> SUFFICES ASSUME IInv, After PROVE IInv'
  OBVIOUS
<1> USE DispatchAssumption DEF After, IInv, TypeOK, Plugins
<1>1. TypeOK'
  OBVIOUS
<1>2. Counts' /\ Lockstep' /\ Delivered'
  BY DEF Counts, Lockstep, Delivered
<1>3. open' \subseteq (at + 1) .. Handlers
  BY DEF Opened
<1>4. Opened' /\ Balanced'
  BY <1>3 DEF Opened, Balanced
<1>5. Paired'
  BY <1>3 DEF Paired
<1> QED
  BY <1>1, <1>2, <1>4, <1>5

LEMMA RestartInv == IInv /\ Restart => IInv'
BY DispatchAssumption
   DEF Restart, IInv, TypeOK, Counts, Opened, Lockstep, Delivered, Paired, Balanced, Plugins

LEMMA StutterInv == IInv /\ UNCHANGED vars => IInv'
BY DEF vars, IInv, TypeOK, Counts, Opened, Lockstep, Delivered, Paired, Balanced, Plugins,
       Progress

\* The inductive invariant of the dispatcher.
THEOREM DispatchInductive == Spec => []IInv
<1>1. IInv /\ [Next]_vars => IInv'
  BY MessageInv, BeforeInv, ReadInv, HandleInv, AfterInv, RestartInv, StutterInv DEF Next
<1> QED
  BY InitInv, <1>1, PTL DEF Spec

\* Every variable keeps its type.
THEOREM DispatchTypeCorrect == Spec => []TypeOK
BY DispatchInductive, PTL DEF IInv

\* No plugin is more than one block behind, whatever the hooks return.
THEOREM BlocksInLockstep == Spec => []Lockstep
BY DispatchInductive, PTL DEF IInv

\* A message reported as delivered went through every plugin, block for block.
THEOREM DeliveredToAll == Spec => []Delivered
BY DispatchInductive, PTL DEF IInv

\* The After hooks of a message that got as far as a block match its Before hooks.
THEOREM HooksPaired == Spec => []Paired
BY DispatchInductive, PTL DEF IInv

\* Unless a -1 was swallowed no message is begun inside another one.
THEOREM HooksBalanced == Spec => []Balanced
BY DispatchInductive, PTL DEF IInv
=============================================================================

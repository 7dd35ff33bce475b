-------------------------- MODULE Supervisor_proofs --------------------------
(***************************************************************************)
(* What monitor guarantees for any number of SIGTERMs, faults and          *)
(* restarts, with either kind of worker.                                   *)
(***************************************************************************)
EXTENDS Supervisor, TLAPS

\* The monitor is past a fork whose worker it has not reaped.
Watching == monitor \in {"call", "waiting", "interrupted"}

\* Each SIGTERM moves the monitor at most one resort further: one is needed to
\* be interrupted or to have closed the pipe, two for both.
Resorts ==
    /\ monitor = "interrupted" => terms >= 1
    /\ Watching /\ quit_pipe = "closed" => terms >= 1
    /\ monitor = "interrupted" /\ quit_pipe = "closed" => terms >= 2
    /\ killed => terms >= 2

\* The start-once variables are in the environment until the first fork.
Doses == doses <= 1 /\ (once => doses = 0)

IInv == TypeOK /\ Resorts /\ Doses /\ OneWorker

LEMMA InitInv == Init => IInv
<1> SUFFICES ASSUME Init PROVE IInv
  OBVIOUS
<1> USE SupervisorAssumption DEF Init
<1>1. TypeOK
  <2>1. terms \in 0 .. MaxTerms /\ faults \in 0 .. MaxFaults /\ doses \in Nat
    OBVIOUS
  <2> QED
    BY <2>1, Zenon DEF TypeOK
<1>2. Resorts
  BY DEF Resorts, Watching
<1>3. 0 <= 1
  OBVIOUS
<1>4. Doses /\ OneWorker
  BY <1>3, Zenon DEF Doses, OneWorker
<1> QED
  BY <1>1, <1>2, <1>4 DEF IInv

LEMMA StepInv == IInv /\ [Next]_vars => IInv'
<1> SUFFICES ASSUME IInv, [Next]_vars PROVE IInv'
  OBVIOUS
<1> USE SupervisorAssumption
    DEF IInv, TypeOK, Resorts, Watching, Doses, OneWorker, Alive
<1>1. CASE Term
  BY <1>1 DEF Term, Over
<1>2. CASE KillMonitor
  BY <1>2 DEF KillMonitor, Fault, Over
<1>3. CASE Crash
  BY <1>3 DEF Crash, Fault
<1>4. CASE Quit
  BY <1>4 DEF Quit
<1>5. CASE Fork
  <2> USE <1>5 DEF Fork, Forked
  <2>1. TypeOK'
    <3>1. doses' \in Nat
      OBVIOUS
    <3>2. killed' \in BOOLEAN /\ g_QUIT_flag' \in BOOLEAN /\ once' \in BOOLEAN
          /\ quit_flag' \in BOOLEAN
      BY Zenon
    <3>3. terms' \in 0 .. MaxTerms /\ faults' \in 0 .. MaxFaults
      OBVIOUS
    <3> QED
      BY <3>1, <3>2, <3>3, Zenon
  <2>2. Resorts'
    OBVIOUS
  <2>3. Doses' /\ OneWorker'
    OBVIOUS
  <2> QED
    BY <2>1, <2>2, <2>3
<1>6. CASE ForkFails
  BY <1>6 DEF ForkFails, Fault
<1>7. CASE Wait
  BY <1>7 DEF Wait
<1>8. CASE Reap
  BY <1>8 DEF Reap
<1>9. CASE Interrupted
  <2> USE <1>9 DEF Interrupted
  <2>1. TypeOK'
    OBVIOUS
  <2>2. Resorts'
    OBVIOUS
  <2>3. Doses' /\ OneWorker'
    OBVIOUS
  <2> QED
    BY <2>1, <2>2, <2>3
<1>10. CASE Started
  BY <1>10 DEF Started
<1>11. CASE EpollWait
  BY <1>11 DEF EpollWait, Hangup
<1>12. CASE Handled
  BY <1>12 DEF Handled
<1>13. CASE UNCHANGED vars
  BY <1>13 DEF vars
<1> QED
  BY <1>1, <1>2, <1>3, <1>4, <1>5, <1>6, <1>7, <1>8, <1>9, <1>10, <1>11, <1>12, <1>13
     DEF Next

\* The inductive invariant of the supervisor.
THEOREM SupervisorInductive == Spec => []IInv
BY InitInv, StepInv, PTL DEF Spec

\* Every variable keeps its type.
THEOREM SupervisorTypeCorrect == Spec => []TypeOK
BY SupervisorInductive, PTL DEF IInv

\* The monitor kills its worker only after at least two SIGTERMs.
THEOREM SecondResort == Spec => []KilledOnSecond
<1>1. IInv => KilledOnSecond
  BY DEF IInv, Resorts, KilledOnSecond
<1> QED
  BY <1>1, SupervisorInductive, PTL

\* At most one worker ever starts with the start-once variables.
THEOREM FirstWorkerOnly == Spec => []OneDose
<1>1. IInv => OneDose
  BY DEF IInv, Doses, OneDose
<1> QED
  BY <1>1, SupervisorInductive, PTL

\* The monitor never forks a worker beside another one.
THEOREM NeverTwoWorkers == Spec => []OneWorker
<1>1. IInv => OneWorker
  BY DEF IInv
<1> QED
  BY <1>1, SupervisorInductive, PTL
=============================================================================

---------------------------- MODULE MessageChannel ----------------------------
(***************************************************************************)
(* What one logpipe may rely on when it forwards messages to others over   *)
(* TCP: the outputs at the far end see each message at most once, at one   *)
(* server only, its blocks in order and none of them twice, and nothing of *)
(* another message in it.  A message may be missing, end early, or end in  *)
(* a block that was cut off.                                               *)
(***************************************************************************)
EXTENDS Naturals, Sequences, TLAPS

CONSTANTS
    Messages,  \* the messages
    MaxBlocks  \* bound: blocks of one message

VARIABLES
    got,    \* the blocks of each message that the outputs have seen
    state   \* "new", "open", "torn" after a block that was cut off, "closed"

vars == <<got, state>>

\* Block k of message m, whole or cut off.
Block == [m : Messages, k : 1 .. MaxBlocks, cut : BOOLEAN]

Init ==
    /\ got = [m \in Messages |-> <<>>]
    /\ state = [m \in Messages |-> "new"]

\* The Before hooks of the far end are called.
Begin(m) ==
    /\ state[m] = "new"
    /\ state' = [state EXCEPT ![m] = "open"]
    /\ UNCHANGED got

\* The next block, or what there is of it.
Take(m) ==
    /\ state[m] = "open"
    /\ Len(got[m]) < MaxBlocks
    /\ \E cut \in BOOLEAN :
          /\ got' = [got EXCEPT ![m] = Append(@, [m |-> m, k |-> Len(@) + 1, cut |-> cut])]
          /\ state' = [state EXCEPT ![m] = IF cut THEN "torn" ELSE "open"]

\* The After hooks are called.
End(m) ==
    /\ state[m] \in {"open", "torn"}
    /\ state' = [state EXCEPT ![m] = "closed"]
    /\ UNCHANGED got

Next == \E m \in Messages : Begin(m) \/ Take(m) \/ End(m)

Spec == Init /\ [][Next]_vars

-----------------------------------------------------------------------------
(* What follows from it. *)

\* The type invariant.
TypeOK ==
    /\ got \in [Messages -> Seq(Block)]
    /\ state \in [Messages -> {"new", "open", "torn", "closed"}]

\* A message is seen as its first blocks in their order, each once, and only the
\* last of them may be cut off.
InOrder ==
    \A m \in Messages : \A n \in 1 .. Len(got[m]) :
        /\ got[m][n].m = m /\ got[m][n].k = n
        /\ got[m][n].cut => n = Len(got[m])

\* While a message may go on none of its blocks was cut off.
Whole == \A m \in Messages : state[m] = "open" => \A n \in 1 .. Len(got[m]) : ~got[m][n].cut

IInv == TypeOK /\ InOrder /\ Whole /\ (\A m \in Messages : state[m] = "new" => got[m] = <<>>)

LEMMA TakeInv ==
    ASSUME MaxBlocks \in Nat, IInv, NEW m \in Messages, Take(m)
    PROVE  IInv'
<1> USE DEF IInv, Take
<1>1. PICK cut \in BOOLEAN :
          /\ got' = [got EXCEPT ![m] = Append(@, [m |-> m, k |-> Len(@) + 1, cut |-> cut])]
          /\ state' = [state EXCEPT ![m] = IF cut THEN "torn" ELSE "open"]
  OBVIOUS
<1> DEFINE b == [m |-> m, k |-> Len(got[m]) + 1, cut |-> cut]
<1>2. b \in Block /\ got[m] \in Seq(Block)
  <2>1. got[m] \in Seq(Block)
    BY DEF TypeOK
  <2>2. Len(got[m]) + 1 \in 1 .. MaxBlocks
    BY <2>1
  <2> QED
    BY <2>1, <2>2 DEF Block
<1>3. /\ got'[m] = Append(got[m], b)
      /\ \A p \in Messages \ {m} : got'[p] = got[p] /\ state'[p] = state[p]
      /\ state'[m] = IF cut THEN "torn" ELSE "open"
  BY <1>1 DEF TypeOK
<1>4. /\ Len(got'[m]) = Len(got[m]) + 1
      /\ got'[m][Len(got[m]) + 1] = b
      /\ \A n \in 1 .. Len(got[m]) : got'[m][n] = got[m][n]
  BY <1>2, <1>3
<1>5. TypeOK'
  BY <1>1, <1>2 DEF TypeOK
<1>6. \A n \in 1 .. Len(got[m]) : ~got[m][n].cut
  BY DEF Whole
<1>7. InOrder'
  BY <1>2, <1>3, <1>4, <1>6 DEF InOrder
<1>8. Whole'
  BY <1>2, <1>3, <1>4, <1>6 DEF Whole
<1>9. \A p \in Messages : state'[p] = "new" => got'[p] = <<>>
  BY <1>3
<1> QED
  BY <1>5, <1>7, <1>8, <1>9

\* What the refinement of TcpForward gives a reader of the far end's outputs.
THEOREM BlocksInOrder ==
    ASSUME MaxBlocks \in Nat
    PROVE  Spec => []InOrder
<1>1. Init => IInv
  BY DEF Init, IInv, TypeOK, InOrder, Whole
<1>2. ASSUME IInv, NEW m \in Messages, Begin(m) PROVE IInv'
  BY <1>2 DEF Begin, IInv, TypeOK, InOrder, Whole
<1>3. ASSUME IInv, NEW m \in Messages, End(m) PROVE IInv'
  BY <1>3 DEF End, IInv, TypeOK, InOrder, Whole
<1>4. IInv /\ UNCHANGED vars => IInv'
  BY DEF vars, IInv, TypeOK, InOrder, Whole
<1>5. IInv /\ [Next]_vars => IInv'
  BY <1>2, <1>3, <1>4, TakeInv DEF Next
<1>6. IInv => InOrder
  BY DEF IInv
<1> QED
  BY <1>1, <1>5, <1>6, PTL DEF Spec
=============================================================================

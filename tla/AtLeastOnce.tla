----------------------------- MODULE AtLeastOnce ------------------------------
(***************************************************************************)
(* What output-es promises of the documents it makes of the lines, numbered *)
(* in their order: the server receives them in order and without a gap, and *)
(* may receive the latest request again, perhaps with more documents.       *)
(***************************************************************************)
EXTENDS Integers

VARIABLE last  \* the first and the last document of the latest request

Init == last = [from |-> 1, to |-> 0]

Repeat == last' \in [from : {last.from}, to : Nat] /\ last'.to >= last.to

Advance == last' \in [from : {last.to + 1}, to : Nat] /\ last'.to > last.to

Next == Repeat \/ Advance

Spec == Init /\ [][Next]_last
=============================================================================

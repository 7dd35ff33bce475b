------------------------------ MODULE MCDispatch ------------------------------
(* Instances of Dispatch for TLC. *)
EXTENDS Dispatch

CONSTANTS tcp, file  \* an input plugin of either kind
=============================================================================

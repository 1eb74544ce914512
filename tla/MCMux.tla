-------------------------------- MODULE MCMux --------------------------------
(***************************************************************************)
(* Instances of Mux for TLC: which machine's processes use the link.       *)
(***************************************************************************)
EXTENDS Mux

\* Only processes of the far machine do, more of them than the channel has slots.
OneWay == [near |-> 0, far |-> 3]

\* Both do, and more than the channel has slots.
BothWays == [near |-> 1, far |-> 2]
=============================================================================

--------------------------- MODULE MCControlSetup ---------------------------
(* Constants for model checking ControlSetup. *)
EXTENDS ControlSetup

CONSTANTS c1, c2, c3

\* Three control addresses, in the order in which Setup tries them.
MCAddress == <<c1, c2, c3>>

=============================================================================

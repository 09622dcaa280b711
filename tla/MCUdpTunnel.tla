---------------------------- MODULE MCUdpTunnel -----------------------------
(* Constants for model checking UdpTunnel. *)
EXTENDS UdpTunnel

CONSTANTS a1, a2, t1

\* The channel an embedding program has stored in Details.Value.
MCPreset == [addr |-> a1, token |-> t1]

\* The AddrHistory it has stored there: none, or one former address.
MCHistory == {<< >>, <<a2>>}

\* What AssignUdpTunnel leaves.
MCNoHistory == {<< >>}

=============================================================================

------------------------------ MODULE MCBuffers ------------------------------
(***************************************************************************)
(* The two buffers that are used again from call to call: the one of the   *)
(* control channel and the one a relay keeps for ReceiveFrom and Send.     *)
(* They share nothing, so a behaviour is one of either.                    *)
(***************************************************************************)
EXTENDS FeedBuffer, FlowBuffer

MCInit == Init /\ RelayInit

\* The relay starts beside one of the channel's first buffers only.
MCNext ==
    \/ RelayInit /\ Next /\ UNCHANGED relayVars
    \/ /\ ops = 1 /\ \E r \in Request : Len(buff) = r + Chunk - 1
       /\ RelayNext /\ UNCHANGED vars

MCSpec == MCInit /\ [][MCNext]_<<vars, relayVars>>

=============================================================================

------------------------------- MODULE MCCalls -------------------------------
(***************************************************************************)
(* The calls of the package that wait for somebody outside, without a      *)
(* timeout: Connect for the tunnel server, ClaimAgentSecret for the user,  *)
(* CreateTunnel for the service.  Tunnels are those of an agent that has   *)
(* its secret; the three share nothing else, so a behaviour is one of a    *)
(* single kind.                                                            *)
(***************************************************************************)
EXTENDS TcpTunnel, Claim, Tunnels

MCInit == Init /\ ClaimInit /\ TunnelsInit

MCNext ==
    \/ ClaimInit /\ TunnelsInit /\ Next /\ UNCHANGED <<claimVars, tunnelVars>>
    \/ Init /\ TunnelsInit /\ ClaimNext /\ UNCHANGED <<vars, tunnelVars>>
    \/ Init /\ ClaimInit /\ TunnelsNext /\ UNCHANGED <<vars, claimVars>>

MCSpec ==
    /\ MCInit /\ [][MCNext]_<<vars, claimVars, tunnelVars>>
    /\ Fairness /\ ClaimFairness /\ TunnelsFairness

\* Connect, ClaimAgentSecret and CreateTunnel return, or the program panics,
\* once the one they wait for has acted: the server answered or hung up, the
\* user decided, the service allocated or disabled the tunnel.
CallsReturn == ConnectReturns /\ ClaimReturns /\ CreateReturns

=============================================================================

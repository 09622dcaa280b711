------------------------------- MODULE MCLocal -------------------------------
(***************************************************************************)
(* Where the traffic of a client goes on the agent's side: the lookup of   *)
(* its server and the sockets to it.  Neither touches the state of the     *)
(* other, so a behaviour is one of the lookups or one of the sockets.  The *)
(* local addresses of the sockets are those of LanAddress.                 *)
(***************************************************************************)
EXTENDS LanAddress, LanSocket, AddressLookup

\* Four clients: the hashes of 7 and 9 are equal, so that three share a local
\* address, two of them also a port modulo 24000; 70 is given 127.0.0.1.  The
\* ports reach both ends of the range.
MCPeer ==
    {[addr |-> <<7>>, port |-> 7], [addr |-> <<9>>, port |-> 24007],
     [addr |-> <<9>>, port |-> 25999], [addr |-> <<70>>, port |-> 65535]}

\* The local addresses of the clients, as LanAddress computes them.
LocalAddress == [ip \in {p.addr : p \in MCPeer} |-> mapToLocalIP4(ip)]

MCLocalOf == LocalAddress

MCLoopback == Prefix + 1

MCInit == Init /\ LookupInit

MCNext ==
    \/ LookupInit /\ Next /\ UNCHANGED lookupVars
    \/ Init /\ allLocal /\ LookupNext /\ UNCHANGED vars

MCSpec == MCInit /\ [][MCNext]_<<vars, lookupVars>>

-----------------------------------------------------------------------------
\* Where special addresses work, shuffle loses nothing, so clients share one
\* only through the mask: each host stands for as many IPv4 clients as there
\* are prefixes, 127.0.0.1 for twice as many and 127.0.0.0, the network, for
\* none.  It is given to no client of IPv6 either.
ClientsSpreadEvenly ==
    allLocal =>
        LET share == 2^(Bits \div 4)
        IN  /\ Load = [h \in Host |-> CASE h = 0 -> 0 [] h = 1 -> 2 * share [] OTHER -> share]
            /\ Local6 \subseteq {Prefix + h : h \in Host \ {0}}

=============================================================================

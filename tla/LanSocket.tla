------------------------------ MODULE LanSocket ------------------------------
(***************************************************************************)
(* TcpSocket and UdpSocket (tunnel/lan_address.go): a socket to the local  *)
(* server for a client of the tunnel.  With SpecialLan it is bound to the  *)
(* client's own loopback address, and for UDP to a port derived from the   *)
(* client's, "to have connections survive agent restart".                  *)
(*                                                                         *)
(* External: the system's sockets.  Linux accepts every address of         *)
(* 127.0.0.0/8, other systems only 127.0.0.1 unless configured.            *)
(***************************************************************************)
EXTENDS Naturals, FiniteSets

CONSTANTS
    Peer,         \* clients: records of an address and a port
    LocalOf,      \* mapToLocalIP4, for the addresses of clients
    Loopback,     \* 127.0.0.1 as such a local address
    MaxSockets    \* bound: sockets open at once

UInt16 == 0..65535

ASSUME LanSocketAssumption ==
    /\ MaxSockets \in Nat
    /\ \A p \in Peer : LocalOf[p.addr] \in Nat \ {0} /\ p.port \in UInt16

VARIABLES
    allLocal,   \* the system accepts every loopback address
    sockets,    \* sockets of the agent: <<client, local address, local port>>
    foreign,    \* UDP addresses other programs hold
    home,       \* the last special UDP address of each client
    result      \* the last call: how it ended, with its arguments

vars == <<allLocal, sockets, foreign, home, result>>

Hosts == {"127.0.0.1", "::1", "192.168.0.2"}

IsLoopback(host) == host \in {"127.0.0.1", "::1"}

local_port(peer) == (40000 + (peer.port % 24000)) % 65536

Preferred(peer) == <<LocalOf[peer.addr], local_port(peer)>>

Held(addr) == addr \in foreign \/ \E s \in sockets : s[2] = addr[1] /\ s[3] = addr[2]

\* Whether DialUDP or DialTCP succeeds in binding a special local address:
\* udp4 and tcp4 do not reach ::1.  Port 0 stands for one that is free, and
\* address 0 for the system's choice.
CanBind(addr, host) ==
    /\ allLocal \/ addr[1] = Loopback
    /\ host = "127.0.0.1"
    /\ addr[2] # 0 => ~ Held(addr)

\* Mutant: a free port is good enough.
FreePortFirst(peer, host) ==
    LET any == <<LocalOf[peer.addr], 0>>
    IN  IF CanBind(any, host) THEN {any} ELSE {}

\* Mutant: the second attempt asks for the same port.
SamePortAgain(peer, host) ==
    IF CanBind(Preferred(peer), host) THEN {Preferred(peer)} ELSE {}

\* The attempts of UdpSocket with SpecialLan, in order; the last one, without
\* any address, is refused by package net.
SpecialUdp(peer, host) ==
    LET any == <<LocalOf[peer.addr], 0>>
    IN  IF CanBind(Preferred(peer), host) THEN {Preferred(peer)}
        ELSE IF CanBind(any, host) THEN {any} ELSE {}

Init ==
    /\ allLocal \in BOOLEAN
    /\ sockets = {} /\ foreign = {}
    /\ home = [p \in Peer |-> <<>>]
    /\ result = [of |-> "none"]

Done(of, special, peer, host, got) ==
    result' = [of |-> of, special |-> special, local |-> LocalOf[peer.addr], host |-> host,
               ok |-> got # {}]

Open(peer, got) == sockets' = sockets \cup {<<peer, a[1], a[2]>> : a \in got}

\* The addresses UdpSocket can end with.  Without SpecialLan there is one
\* dial, which fails when the system has no way to the server.
UdpOutcomes(special, peer, host) ==
    IF IsLoopback(host) /\ special THEN {SpecialUdp(peer, host)} ELSE {{}, {<<0, 0>>}}

UdpSocket(special, peer, host) ==
    \E got \in UdpOutcomes(special, peer, host) :
        /\ Cardinality(sockets) < MaxSockets
        /\ Open(peer, got)
        /\ home' = IF IsLoopback(host) /\ special /\ got # {}
                   THEN [home EXCEPT ![peer] = CHOOSE a \in got : TRUE] ELSE home
        /\ Done("udp", special, peer, host, got)
        /\ UNCHANGED <<allLocal, foreign>>

\* A TCP dial also fails when no server listens; there is no second attempt.
\* Its sockets share no port with those of UDP and are not kept.
TcpSocket(special, peer, host) ==
    LET any == IF IsLoopback(host) /\ special THEN <<LocalOf[peer.addr], 0>> ELSE <<0, 0>>
    IN  /\ \E up \in BOOLEAN :
              Done("tcp", special, peer, host,
                   IF up /\ (any[1] = 0 \/ CanBind(any, host)) THEN {any} ELSE {})
        /\ UNCHANGED <<allLocal, sockets, foreign, home>>

Close(s) ==
    /\ s \in sockets
    /\ sockets' = sockets \ {s}
    /\ UNCHANGED <<allLocal, foreign, home, result>>

\* The agent's process ends, and with it its sockets.
Restart ==
    /\ sockets' = {}
    /\ UNCHANGED <<allLocal, foreign, home, result>>

\* Another program takes or gives back the address of a client.
Foreign(addr) ==
    /\ foreign' = IF addr \in foreign THEN foreign \ {addr} ELSE foreign \cup {addr}
    /\ addr \notin foreign => ~ Held(addr)
    /\ UNCHANGED <<allLocal, sockets, home, result>>

Next ==
    \/ \E special \in BOOLEAN, peer \in Peer, host \in Hosts :
          UdpSocket(special, peer, host) \/ TcpSocket(special, peer, host)
    \/ \E s \in sockets : Close(s)
    \/ Restart
    \/ \E peer \in Peer : Foreign(Preferred(peer))

Spec == Init /\ [][Next]_vars

-----------------------------------------------------------------------------
\* A client keeps its UDP address over restarts of the agent: a new socket
\* has another one only while its own is held, by another program, by a
\* client with the same hash whose port is equal modulo 24000 or by an earlier
\* socket of its own, or when it returns to it.
AddressSurvivesRestart ==
    [][\A p \in Peer :
          home'[p] # home[p] => home'[p] = Preferred(p) \/ Held(Preferred(p))]_vars

\* For a special local address UdpSocket fails in two cases only, a server on
\* ::1 and a system that does not accept the client's loopback address, and in
\* these always, whatever the log line "in-game ip banning will not work" says
\* of going on without it; a port that is taken is no reason.
UdpFailsByFamilyOrSystem ==
    result.of = "udp" /\ result.special /\ IsLoopback(result.host) =>
        LET accepted == allLocal \/ result.local = Loopback
        IN  result.ok <=> result.host # "::1" /\ accepted

=============================================================================

---------------------------- MODULE Local_proofs ----------------------------
(***************************************************************************)
(* Where the traffic of a client goes: for every table of overrides and    *)
(* every sequence of lookups, and for every hash of client addresses, set  *)
(* of clients and number of sockets.                                       *)
(***************************************************************************)
EXTENDS AddressLookup, LanSocket, WellFoundedInduction, TLAPS

-----------------------------------------------------------------------------
(* AddressLookup.                                                          *)

\* A set of numbers has the least element that Min asks for.
LEMMA LeastOf ==
    ASSUME NEW S \in SUBSET Nat, S # {}
    PROVE  Min(S) \in S /\ \A y \in S : Min(S) <= y
  <1>1. PICK x \in S : \A y \in S : <<y, x>> \notin OpToRel(<, Nat)
    BY WFMin, NatLessThanWellFounded
  <1>2. \A y \in S : x <= y
    <2> TAKE y \in S
    <2>1. x \in Nat /\ y \in Nat
      OBVIOUS
    <2>2. ~ (y < x)
      BY <1>1, <2>1 DEF OpToRel
    <2> QED BY <2>1, <2>2
  <1> QED BY <1>2 DEF Min

\* The override that answers is the first one that matches, and there is none
\* only when none matches.
LEMMA ChosenIsFirst ==
    ASSUME overrides \in Seq(MappingOverride), NEW ip, NEW port, NEW proto
    PROVE  LET Fits(i) == overrides[i].proto = proto /\ Matches(overrides[i], ip, port)
               c == Chosen(ip, port, proto)
           IN  \/ c \in 1..Len(overrides) /\ Fits(c) /\ \A i \in 1..(c - 1) : ~ Fits(i)
               \/ c = 0 /\ \A i \in 1..Len(overrides) : ~ Fits(i)
  <1> DEFINE Fits(i) == overrides[i].proto = proto /\ Matches(overrides[i], ip, port)
             I == {i \in 1..Len(overrides) : Fits(i)}
             c == Chosen(ip, port, proto)
  <1>1. Len(overrides) \in Nat
    OBVIOUS
  <1>2. c = IF I # {} THEN Min(I) ELSE 0
    BY DEF Chosen, SelectInSeq
  <1>3. ASSUME I = {} PROVE c = 0 /\ \A i \in 1..Len(overrides) : ~ Fits(i)
    <2>1. c = 0
      BY <1>2, <1>3
    <2> HIDE DEF c, Fits
    <2> QED BY <1>3, <2>1
  <1>4. ASSUME I # {}
        PROVE  c \in 1..Len(overrides) /\ Fits(c) /\ \A i \in 1..(c - 1) : ~ Fits(i)
    <2>1. c \in I /\ \A y \in I : c <= y
      <3>1. I \in SUBSET Nat
        BY <1>1
      <3> HIDE DEF I, c
      <3> QED BY <1>2, <1>4, <3>1, LeastOf
    <2> HIDE DEF Fits, c
    <2>2. c \in 1..Len(overrides) /\ Fits(c)
      BY <2>1
    <2>3. ASSUME NEW i \in 1..(c - 1) PROVE ~ Fits(i)
      <3>1. i \in 1..Len(overrides) /\ i < c
        BY <1>1, <2>2
      <3>2. i \in I => c <= i
        BY <2>1
      <3> QED BY <1>1, <2>2, <3>1, <3>2
    <2> QED BY <2>2, <2>3
  <1> QED BY <1>3, <1>4

\* An answer that an override gave is one to the address, port and protocol
\* of the override; the table does not change once there is an answer.
Answered(a) ==
    a.by # 0 => /\ a.by \in 1..Len(overrides)
                /\ Matches(overrides[a.by], a.ip, a.port)
                /\ overrides[a.by].proto = a.proto

\* What it answers.
Answers(a) == a.answer = AddressValue(a.by, a.port)

LookupInv ==
    /\ overrides \in Seq(MappingOverride)
    /\ \A a \in answers : Answered(a) /\ Answers(a)

\* Every override and every lookup keeps the invariant.
LEMMA LookupNextInv == LookupInv /\ [LookupNext]_lookupVars => LookupInv'
  <1> SUFFICES ASSUME LookupInv, [LookupNext]_lookupVars PROVE LookupInv'
    OBVIOUS
  <1> USE DEF LookupInv, Answered, Answers
  <1>1. ASSUME NEW o \in MappingOverride, Override(o) PROVE LookupInv'
    BY <1>1 DEF Override
  <1>2. ASSUME NEW ip \in IP, NEW port \in Port, NEW proto \in Proto, Lookup(ip, port, proto)
        PROVE  LookupInv'
    <2> DEFINE c == Chosen(ip, port, proto)
               new == [ip |-> ip, port |-> port, proto |-> proto, by |-> c,
                       answer |-> AddressValue(c, port)]
    <2>1. overrides' = overrides /\ answers' = answers \cup {new}
      BY <1>2 DEF Lookup
    <2>2. c # 0 => /\ c \in 1..Len(overrides)
                   /\ Matches(overrides[c], ip, port)
                   /\ overrides[c].proto = proto
      BY ChosenIsFirst
    <2>3. /\ new.by = c /\ new.ip = ip /\ new.port = port /\ new.proto = proto
          /\ new.answer = AddressValue(c, port)
      OBVIOUS
    <2> HIDE DEF new, c
    <2>4. Answered(new) /\ Answers(new)
      BY <2>2, <2>3
    <2>5. \A a \in answers' : Answered(a) /\ Answers(a)
      BY <2>1, <2>4
    <2> QED BY <2>1, <2>5 DEF Matches, AddressValue
  <1>3. CASE UNCHANGED lookupVars
    BY <1>3 DEF lookupVars, Matches, AddressValue
  <1> QED BY <1>1, <1>2, <1>3 DEF LookupNext

\* Every answer of LookupWithOverrides that came from an override is for its
\* address, port and protocol.
THEOREM LookupInvAlways == LookupSpec => []LookupInv
  <1>1. LookupInit => LookupInv
    BY DEF LookupInit, LookupInv
  <1> QED BY <1>1, LookupNextInv, PTL DEF LookupSpec

\* However wide the range of an override is, the other ports of it get the
\* default, or what an override of their own says: for every table and every
\* order of its entries.
THEOREM RangeIsNotServedAlways == LookupSpec => []RangeIsNotServed
  <1>1. LookupInv => RangeIsNotServed
    <2> SUFFICES ASSUME LookupInv, NEW a \in answers, NEW b \in answers,
                        a.by # 0, b.port # a.port, b.answer # Default(b.port)
                 PROVE  /\ b.by \notin {0, a.by}
                        /\ overrides[b.by].port = b.port /\ b.answer.value = overrides[b.by].local
      BY DEF RangeIsNotServed
    <2>1. Answered(a) /\ Answered(b) /\ b.answer = AddressValue(b.by, b.port)
      BY DEF LookupInv, Answers
    <2>2. b.by # 0 /\ b.answer.value = overrides[b.by].local
      BY <2>1 DEF AddressValue
    <2> QED BY <2>1, <2>2 DEF Answered, Matches
  <1> QED BY <1>1, LookupInvAlways, PTL

-----------------------------------------------------------------------------
(* LanSocket.                                                              *)

\* The sum of UdpSocket's port does not leave 16 bits: a preferred port is
\* never 0, which would ask the system for one.
HighPort == {n \in Nat : 40000 <= n /\ n < 64000}

\* The remainder of a port ...
LEMMA Remainder == ASSUME NEW n \in Nat PROVE n % 24000 \in Nat /\ n % 24000 < 24000
  OBVIOUS

\* ... leaves room in 16 bits for the lowest port ...
LEMMA Unwrapped == ASSUME NEW r \in Nat, r < 24000 PROVE (40000 + r) % 65536 = 40000 + r
  OBVIOUS

\* ... and so does not reach 64000.
LEMMA SumInRange == ASSUME NEW r \in Nat, r < 24000 PROVE 40000 + r \in HighPort
  BY DEF HighPort

\* A client prefers a port from 40000 to 63999.
LEMMA PortInRange ==
    ASSUME NEW p \in Peer PROVE local_port(p) \in HighPort
  <1>1. p.port \in UInt16
    BY LanSocketAssumption, Zenon
  <1>2. UInt16 \subseteq Nat
    BY DEF UInt16
  <1>3. PICK n \in Nat : p.port = n
    BY <1>1, <1>2, Zenon
  <1>4. PICK r \in Nat : r = n % 24000 /\ r < 24000
    BY Remainder
  <1>5. local_port(p) = (40000 + r) % 65536
    BY <1>3, <1>4 DEF local_port
  <1>6. (40000 + r) % 65536 = 40000 + r /\ 40000 + r \in HighPort
    BY <1>4, Unwrapped, SumInRange
  <1> QED BY <1>5, <1>6

\* What the attempts of UdpSocket end in: the preferred address, or any port
\* of it while somebody holds that one, or nothing where the system or the
\* server's family stands against every port.
LEMMA Attempts ==
    ASSUME NEW p \in Peer, NEW host
    PROVE  LET accepted == (allLocal \/ LocalOf[p.addr] = Loopback) /\ host = "127.0.0.1"
           IN  \/ accepted /\ SpecialUdp(p, host) = {Preferred(p)}
               \/ /\ accepted /\ Held(Preferred(p))
                  /\ SpecialUdp(p, host) = {<<LocalOf[p.addr], 0>>}
               \/ ~ accepted /\ SpecialUdp(p, host) = {}
  <1> DEFINE any == <<LocalOf[p.addr], 0>>
             accepted == (allLocal \/ LocalOf[p.addr] = Loopback) /\ host = "127.0.0.1"
  <1>1. local_port(p) # 0
    <2>1. local_port(p) \in HighPort
      BY PortInRange
    <2>2. 0 \notin HighPort
      BY DEF HighPort
    <2> QED BY <2>1, <2>2, Zenon
  <1>2. CanBind(any, host) <=> accepted
    BY DEF CanBind
  <1>3. Preferred(p)[1] = LocalOf[p.addr] /\ Preferred(p)[2] # 0
    BY <1>1 DEF Preferred
  <1>4. CanBind(Preferred(p), host) <=> accepted /\ ~ Held(Preferred(p))
    BY <1>3 DEF CanBind
  <1>5. SpecialUdp(p, host) = IF CanBind(Preferred(p), host) THEN {Preferred(p)}
                              ELSE IF CanBind(any, host) THEN {any} ELSE {}
    BY DEF SpecialUdp
  <1> HIDE DEF accepted
  <1>6. \/ accepted /\ SpecialUdp(p, host) = {Preferred(p)}
        \/ accepted /\ Held(Preferred(p)) /\ SpecialUdp(p, host) = {any}
        \/ ~ accepted /\ SpecialUdp(p, host) = {}
    BY <1>2, <1>4, <1>5, Zenon
  <1> QED BY <1>6 DEF accepted

\* The step of UdpSocket: how it ends.
LEMMA UdpEnds ==
    ASSUME NEW special \in BOOLEAN, NEW p \in Peer, NEW host \in Hosts,
           UdpSocket(special, p, host)
    PROVE  UdpFailsByFamilyOrSystem'
  <1> DEFINE accepted == allLocal \/ LocalOf[p.addr] = Loopback
  <1>1. PICK got \in UdpOutcomes(special, p, host) :
          result' = [of |-> "udp", special |-> special, local |-> LocalOf[p.addr],
                     host |-> host, ok |-> got # {}]
    BY DEF UdpSocket, Done
  <1>2. special /\ IsLoopback(host) => (got # {} <=> host # "::1" /\ accepted)
    BY Attempts DEF IsLoopback, UdpOutcomes
  <1>4. allLocal' = allLocal
    BY DEF UdpSocket
  <1>3. /\ result'.special = special /\ result'.local = LocalOf[p.addr]
        /\ result'.host = host /\ (result'.ok <=> got # {})
    BY <1>1
  <1> QED BY <1>2, <1>3, <1>4 DEF UdpFailsByFamilyOrSystem

\* Every call of UdpSocket with SpecialLan fails exactly for a server on ::1
\* and on a system that does not accept the client's address, whatever else
\* is open: a taken port is never the reason.
THEOREM UdpFailsByFamilyOrSystemAlways == Spec => []UdpFailsByFamilyOrSystem
  <1>1. Init => UdpFailsByFamilyOrSystem
    BY DEF Init, UdpFailsByFamilyOrSystem
  <1>2. ASSUME UdpFailsByFamilyOrSystem, [Next]_vars PROVE UdpFailsByFamilyOrSystem'
    <2>1. ASSUME NEW special \in BOOLEAN, NEW p \in Peer, NEW host \in Hosts,
                 TcpSocket(special, p, host)
          PROVE  result'.of = "tcp"
      BY <2>1 DEF TcpSocket, Done
    <2>2. ASSUME UNCHANGED <<allLocal, result>> PROVE UdpFailsByFamilyOrSystem'
      BY <1>2, <2>2 DEF UdpFailsByFamilyOrSystem
    <2>3. CASE \/ \E s \in sockets : Close(s)
               \/ Restart
               \/ \E peer \in Peer : Foreign(Preferred(peer))
               \/ UNCHANGED vars
      BY <2>2, <2>3 DEF Close, Restart, Foreign, vars
    <2>4. CASE \E special \in BOOLEAN, p \in Peer, host \in Hosts :
                  UdpSocket(special, p, host) \/ TcpSocket(special, p, host)
      BY <2>1, <2>4, UdpEnds DEF UdpFailsByFamilyOrSystem
    <2> QED BY <1>2, <2>3, <2>4 DEF Next
  <1> QED BY <1>1, <1>2, PTL DEF Spec

\* home has an address for every client.
Homes == home = [p \in Peer |-> home[p]]

\* Homes holds in every state.
LEMMA HomesAlways == Spec => []Homes
  <1>1. Init => Homes
    BY DEF Init, Homes
  <1>2. ASSUME Homes, [Next]_vars PROVE Homes'
    <2>1. ASSUME NEW special, NEW p, NEW host, UdpSocket(special, p, host) PROVE Homes'
      <3>1. \/ home' = home
            \/ \E a : home' = [home EXCEPT ![p] = a]
        BY <2>1 DEF UdpSocket
      <3> QED BY <1>2, <3>1 DEF Homes
    <2>2. ASSUME home' = home PROVE Homes'
      BY <1>2, <2>2 DEF Homes
    <2> QED BY <1>2, <2>1, <2>2 DEF Next, TcpSocket, Close, Restart, Foreign, vars
  <1> QED BY <1>1, <1>2, PTL DEF Spec

\* Whatever the agent and the other programs did before, a client's new
\* special socket has its own UDP address, unless somebody holds that one at
\* the moment of the call: restarts do not change it.
THEOREM AddressSurvivesRestartAlways == Spec => AddressSurvivesRestart
  <1> DEFINE Kept(p) == home'[p] # home[p] => home'[p] = Preferred(p) \/ Held(Preferred(p))
  <1>1. ASSUME Homes, [Next]_vars PROVE [\A p \in Peer : Kept(p)]_vars
    <2>1. ASSUME home' = home PROVE \A p \in Peer : Kept(p)
      BY <2>1
    <2>2. ASSUME NEW special \in BOOLEAN, NEW q \in Peer, NEW host \in Hosts,
                 UdpSocket(special, q, host), home' # home
          PROVE  \A p \in Peer : Kept(p)
      <3> DEFINE got == SpecialUdp(q, host)
                 a == CHOOSE x \in got : TRUE
      <3>1. got # {} /\ home' = [home EXCEPT ![q] = a]
        BY <2>2 DEF UdpSocket, UdpOutcomes
      <3>2. got = {Preferred(q)} \/ Held(Preferred(q))
        BY <3>1, Attempts
      <3>3. a = Preferred(q) \/ Held(Preferred(q))
        BY <3>2
      <3> HIDE DEF a
      <3>4. home'[q] = a /\ \A p \in Peer \ {q} : home'[p] = home[p]
        BY <1>1, <3>1 DEF Homes
      <3> QED BY <3>3, <3>4
    <2> QED BY <1>1, <2>1, <2>2 DEF Next, TcpSocket, Close, Restart, Foreign, vars
  <1> QED BY <1>1, HomesAlways, PTL DEF Spec, AddressSurvivesRestart

=============================================================================

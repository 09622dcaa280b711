----------------------------- MODULE LanAddress -----------------------------
(***************************************************************************)
(* The local address that stands for a client (tunnel/lan_address.go), so  *)
(* that a server can ban it: a hash of the client's address in 127.0.0.0/8.*)
(*                                                                         *)
(* Words have Bits bits instead of 32; shifts, the mask and the prefix are *)
(* scaled with them (a half, three quarters, a quarter), and the factor is *)
(* the low byte of 0x45d9f3.  A host is the part of a local address after  *)
(* the prefix 127.                                                         *)
(***************************************************************************)
EXTENDS Naturals, Sequences, FiniteSets, Bitwise

CONSTANTS
    Bits,     \* 32, scaled down
    Factor,   \* 0x45d9f3, scaled down
    Sample    \* words of the IPv6 addresses tried

ASSUME LanAddressAssumption == Bits % 4 = 0 /\ Factor % 2 = 1 /\ Sample \subseteq 0..(2^Bits - 1)

Word == 0..(2^Bits - 1)

Host == 0..(2^(3 * (Bits \div 4)) - 1)

Prefix == (2^(Bits \div 4) \div 2 - 1) * 2^(3 * (Bits \div 4))    \* 0x7F000000

Fold(v) == (v \div 2^(Bits \div 2)) ^^ v

\* Mutant: an even factor.
ShuffleEven(v) ==
    LET round(x) == (Fold(x) * (Factor - 1)) % 2^Bits
    IN  Fold(round(round(v)))

shuffle(v) ==
    LET round(x) == (Fold(x) * Factor) % 2^Bits
    IN  Fold(round(round(v)))

asLocalMasked(ip) ==
    LET host == shuffle(ip) % 2^(3 * (Bits \div 4))
    IN  Prefix + (IF host = 0 THEN 1 ELSE host)

\* An address is a sequence of words, one for IPv4 and IPv4-in-IPv6.
mapToLocalIP4(ip) ==
    asLocalMasked(
        IF Len(ip) = 1 THEN ip[1]
        ELSE ((shuffle(ip[1]) ^^ shuffle(ip[2])) ^^ shuffle(ip[3])) ^^ shuffle(ip[4]))

-----------------------------------------------------------------------------
\* How many IPv4 clients share each host.
Load ==
    LET local == [w \in Word |-> mapToLocalIP4(<<w>>)]
    IN  [h \in Host |-> Cardinality({w \in Word : local[w] = Prefix + h})]

\* The local addresses of the sampled IPv6 clients.
Local6 == {mapToLocalIP4(ip) : ip \in [1..4 -> Sample]}

=============================================================================

----------------------------- MODULE FlowBuffer -----------------------------
(***************************************************************************)
(* The bytes behind ReceiveFrom and Send (tunnel/udp_tunnel.go) and the    *)
(* flow footer (tunnel/udp_proto.go).  The caller keeps one buffer for all *)
(* its calls: a datagram overwrites its beginning, and ReceiveFrom looks   *)
(* for the footer in what FOLLOWS the datagram, at the end of the buffer.  *)
(* A caller that relays sends from the same buffer, and the append of Send *)
(* writes the footer there while it fits.                                  *)
(*                                                                         *)
(* A cell is a word of 4 bytes, <<n, part>>: the part that operation n put *)
(* there.  Datagrams of other lengths, and data that looks like a footer,  *)
(* are left out.                                                           *)
(***************************************************************************)
EXTENDS Integers, Sequences

CONSTANTS
    Size,          \* words of the caller's buffer
    MaxRelayOps    \* bound: calls made with it

ASSUME FlowBufferAssumption == Size \in Nat /\ MaxRelayOps \in Nat

VARIABLES
    relay,      \* the buffer
    relayOps,   \* calls made
    filled,     \* calls that wrote the last word of the buffer
    received    \* what the last call, a ReceiveFrom, returned; excess is its
                \* length less that of the data

relayVars == <<relay, relayOps, filled, received>>

Cells(n, parts) == [i \in 1..Len(parts) |-> <<n, parts[i]>>]

Payload(k) == [i \in 1..k |-> "data"]

\* UdpFlow.WriteTo: addresses, ports, the flow label of IPv6 and the id.  The
\* id of IPv4 is REDIRECT_FLOW_4_FOOTER_ID_OLD.
FlowParts ==
    [V4 |-> <<"src", "dst", "ports", "OLD1", "OLD2">>,
     V6 |-> <<"src1", "src2", "src3", "src4", "dst1", "dst2", "dst3", "dst4",
              "ports", "label", "V6_1", "V6_2">>]

Family == DOMAIN FlowParts

Tail2(s) == <<s[Len(s) - 1][2], s[Len(s)][2]>>

LastCells(s, n) == SubSeq(s, Len(s) - n + 1, Len(s))

Nothing == [is |-> "none", src |-> << >>, dst |-> << >>, excess |-> 0]

Failure(what) == [Nothing EXCEPT !.is = what]

\* Every part of a flow is read by a reader of its own, from the first byte
\* of the slice on: source and destination are the same bytes.
ReadFlow(s, n) ==
    [Nothing EXCEPT !.is = "flow", !.src = SubSeq(s, 1, n), !.dst = SubSeq(s, 1, n)]

\* The case of IPv4 is the bitwise OR of its two ids, which is neither; any
\* other id yields a nil flow without an error, which ReceiveFrom dereferences.
FromTailUdpFlow(s) ==
    IF Len(s) < 2 THEN Failure("error")
    ELSE CASE Tail2(s) = <<"V4|OLD1", "V4|OLD2">> ->
                IF Len(s) < 5 THEN Failure("error") ELSE ReadFlow(LastCells(s, 5), 1)
           [] Tail2(s) = <<"V6_1", "V6_2">> ->
                IF Len(s) < 12 THEN Failure("error") ELSE ReadFlow(LastCells(s, 12), 4)
           [] OTHER -> Failure("panic")

\* Mutant: the footer is looked for in the datagram.
FooterInDatagram(b, n) == SubSeq(b, 1, n)

\* buff[byteSize:]
AfterDatagram(b, n) == SubSeq(b, n + 1, Size)

\* UdpFlow.Len
FlowLen(flow) == Len(FlowParts[IF Len(flow.src) = 1 THEN "V4" ELSE "V6"])

-----------------------------------------------------------------------------
RelayInit ==
    /\ relay = [i \in 1..Size |-> <<0, "zero">>]
    /\ relayOps = 0
    /\ filled = {}
    /\ received = Nothing

\* The cells c are written from position at + 1 on, as far as they fit.
Overwrite(at, c) ==
    /\ relay' = [i \in 1..Size |->
                  IF i - at \in 1..Len(c) THEN c[i - at] ELSE relay[i]]
    /\ filled' = IF at + Len(c) >= Size THEN filled \cup {relayOps'} ELSE filled

\* A datagram of k words of data and a flow arrives from the tunnel server;
\* it is not the token.  One that does not fit is cut; the test for "receive
\* buffer too small" never holds, as no read exceeds the buffer.
ReceiveFrom(k, fam) ==
    LET d == Cells(relayOps + 1, Payload(k) \o FlowParts[fam])
        size == IF Len(d) > Size THEN Size ELSE Len(d)
        flow == FromTailUdpFlow(AfterDatagram(relay', size))
    IN  /\ relayOps < MaxRelayOps
        /\ received.is # "panic"
        /\ relayOps' = relayOps + 1
        /\ Overwrite(0, d)
        /\ received' = IF flow.is = "flow"
                       THEN [flow EXCEPT !.excess = (size - FlowLen(flow)) - k] ELSE flow

\* Send(buff[:k], flow): append reuses the array when its capacity suffices
\* and copies otherwise.
SendFlow(k, fam) ==
    LET c == Cells(relayOps + 1, FlowParts[fam])
    IN  /\ relayOps < MaxRelayOps
        /\ received.is # "panic"
        /\ relayOps' = relayOps + 1
        /\ IF k + Len(c) <= Size THEN Overwrite(k, c) ELSE UNCHANGED <<relay, filled>>
        /\ received' = Nothing

RelayNext ==
    \E k \in 0..Size, fam \in Family : ReceiveFrom(k, fam) \/ SendFlow(k, fam)

RelaySpec == RelayInit /\ [][RelayNext]_relayVars

-----------------------------------------------------------------------------
\* A flow that ReceiveFrom returns is never that of the datagram it comes
\* with.  Its id is that of an IPv6 flow which an earlier datagram, or a
\* Send, wrote at the very end of the buffer; before that every packet is an
\* error or a panic.  Its addresses are earlier bytes too, one or several
\* datagrams', and the destination is the source.  The length returned with
\* it, that of the datagram less that of the flow, is therefore the length of
\* the data only if the datagram is of IPv6; for IPv4 it is 28 bytes short,
\* which with less data than that is a huge uint64.
FlowIsStale ==
    received.is = "flow" =>
        /\ \E n \in filled : n < relayOps /\ relay[Size] = <<n, "V6_2">>
        /\ \A i \in DOMAIN received.src : received.src[i][1] < relayOps
        /\ received.dst = received.src
        /\ received.excess = IF \E i \in 1..Size : relay[i] = <<relayOps, "V6_2">> THEN 0 ELSE -7

=============================================================================

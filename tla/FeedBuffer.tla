----------------------------- MODULE FeedBuffer -----------------------------
(***************************************************************************)
(* The bytes behind RecFeedMsg and Send (tunnel/control.go): Auth.Buff is  *)
(* what Authenticate left of its receive buffer, then the last request     *)
(* sent; every RecFeedMsg, also one that fails, makes it longer, and       *)
(* parses what FOLLOWS the datagram it has read into it.                   *)
(*                                                                         *)
(* A cell stands for four bytes and holds the number of the operation that *)
(* wrote it, 0 for zeros.  What older bytes parse to is not determined     *)
(* here; zeros are no ControlFeed.                                         *)
(***************************************************************************)
EXTENDS Naturals, Sequences

CONSTANTS
    Chunk,     \* 1024 bytes added by make
    Request,   \* lengths of requests
    Datagram,  \* lengths of datagrams the control server sends
    MaxOps     \* bound: operations

ASSUME FeedBufferAssumption ==
    /\ {Chunk, MaxOps} \subseteq Nat
    /\ Request \subseteq Nat
    /\ Datagram \subseteq Nat

VARIABLES
    buff,    \* Auth.Buff
    ops,     \* operations so far
    grown,   \* reads since Buff was last replaced
    result   \* the first cell of the message just returned, or nothing

vars == <<buff, ops, grown, result>>

Fill(n, v) == [i \in 1..n |-> v]

\* ReadFromUDP puts d cells, as many as fit, at the beginning.
ReadInto(b, d, v) == [i \in 1..Len(b) |-> IF i <= d THEN v ELSE b[i]]

Received(b, d) == IF d < Len(b) THEN d ELSE Len(b)

From(b, n) == SubSeq(b, n + 1, Len(b))

\* The receive buffer of a handshake: the request, and room behind it.
Authenticated(v, r, d) ==
    LET reciver == ReadInto(Fill(r, v) \o Fill(Chunk, 0), d, v)
    IN  From(reciver, Received(reciver, d))

Init ==
    /\ \E r \in Request, d \in Datagram : buff = Authenticated(1, r, d)
    /\ ops = 1
    /\ grown = 0
    /\ result = << >>

\* AuthenticatedControl.Authenticate, after a success.
Authenticate(r, d) ==
    /\ ops < MaxOps
    /\ ops' = ops + 1
    /\ buff' = Authenticated(ops', r, d)
    /\ grown' = 0
    /\ result' = << >>

RequestBuffer(b, r, v) == Fill(r, v)

Send(r) ==
    /\ ops < MaxOps
    /\ ops' = ops + 1
    /\ buff' = RequestBuffer(buff, r, ops')
    /\ grown' = 0
    /\ result' = << >>

Grow(b) == b \o Fill(Chunk, 0)

\* RecFeedMsg: the read fails, or the datagram is another sender's.
RecFails(d) ==
    /\ ops < MaxOps
    /\ ops' = ops + 1
    /\ buff' = ReadInto(Grow(buff), d, ops')
    /\ grown' = grown + 1
    /\ result' = << >>

\* Mutant: the datagram itself is parsed.
DatagramItself(b, d) == SubSeq(b, 1, d)

Parsed(b, d) == From(b, Received(b, d))

\* RecFeedMsg reads a datagram of the control server.
RecFeedMsg(d) ==
    LET b == ReadInto(Grow(buff), d, ops + 1)
        feed == Parsed(b, d)
    IN  /\ ops < MaxOps
        /\ ops' = ops + 1
        /\ buff' = b
        /\ grown' = grown + 1
        /\ \/ result' = << >>
           \/ feed # << >> /\ Head(feed) # 0 /\ result' = <<Head(feed)>>

Next ==
    \/ \E r \in Request : Send(r) \/ \E d \in Datagram : Authenticate(r, d)
    \/ \E d \in Datagram \cup {0} : RecFails(d)
    \/ \E d \in Datagram : RecFeedMsg(d)

Spec == Init /\ [][Next]_vars

-----------------------------------------------------------------------------
\* RecFeedMsg never returns the datagram it has received: a message is made
\* of the bytes of an earlier operation, those of a longer request or of a
\* longer datagram, read since the last request or handshake replaced the
\* buffer: no read in between, failed ones included, does.
MessageIsStale ==
    result # << >> => ops - grown <= Head(result) /\ Head(result) < ops

=============================================================================

-------------------------------- MODULE Wire --------------------------------
(***************************************************************************)
(* The messages between the agent and its control server: the WriteTo and  *)
(* ReadFrom methods of tunnel/control_message.go, control_feed.go, rpc.go, *)
(* lib.go, and the primitives of tunnel/bigint.go.                         *)
(*                                                                         *)
(* A message is written field by field, cut where the receive buffer ends  *)
(* (a longer UDP datagram is truncated silently), and read field by field. *)
(* A number is the sequence of its big-endian bytes, with the widths of    *)
(* the code; Sample gives the values tried for each kind of field.         *)
(***************************************************************************)
EXTENDS Naturals, Sequences

CONSTANT Sample(_)   \* the values a field of a kind takes

Byte == 0..255

\* How many bytes the values of each kind of field have; a pointer is the
\* empty sequence when it is nil.
Lengths ==
    [u16 |-> {2}, u32 |-> {4}, u64 |-> {8}, proto |-> {1}, ip |-> {4, 16},
     addr |-> {6, 18}, sig |-> {32}, token |-> Byte, opt32 |-> {0, 4},
     opt64 |-> {0, 8}, optSession |-> {0, 24}, found |-> {0, 24}]

Value(f) == {v \in Seq(Byte) : Len(v) \in Lengths[f]}

ASSUME SampleAssumption == \A f \in DOMAIN Lengths : Sample(f) \subseteq Value(f)

VARIABLES
    kind,   \* the message being sent
    pc,     \* "write", "read" or "done"
    vals,   \* the values of the fields written so far
    wire,   \* the bytes of the message that are still to be read
    cut,    \* the receive buffer was too small
    todo,   \* the fields still to be read
    as,     \* the message the reader takes it for
    got,    \* the values of its fields
    result  \* "pending", "ok", "error" or "panic"

vars == <<kind, pc, vals, wire, cut, todo, as, got, result>>

-----------------------------------------------------------------------------
(* The fields of each message, as its WriteTo and its ReadFrom have them.  *)

Session == <<"u64", "u64", "u64">>

PortRangeWriter == <<"ip", "u16", "u16", "proto">>
PortRangeReader == << >>   \* PortRange.ReadFrom reads nothing

PingWriter == <<"u64", "opt32", "optSession">>
PingReader == <<"u64", "u32">> \o Session   \* no option bytes

\* Mutant: the option byte is read.
PongOptionRead == <<"u64", "u64", "u64", "u32", "addr", "addr", "u8", "u64">>

PongWriter == <<"u64", "u64", "u64", "u32", "addr", "addr", "opt64">>
PongReader == <<"u64", "u64", "u64", "u32", "addr", "addr", "u64">>

AgentRegisterWriter == <<"u64", "u64", "u64", "u64", "addr", "addr", "sig">>
AgentRegisterReader == AgentRegisterWriter

CheckPortMappingWriter == Session \o PortRangeWriter
CheckPortMappingReader == Session \o PortRangeReader

AgentRegisteredWriter == Session \o <<"u64">>
AgentRegisteredReader == AgentRegisteredWriter

PortMappingWriter == PortRangeWriter \o <<"found">>
PortMappingReader == PortRangeReader \o <<"found">>

UdpChannelWriter == <<"addr", "token">>
UdpChannelReader == <<"addr", "token">>

ClaimInstructions == <<"addr", "token">>

\* Mutant: the last two fields in the order of a shorter struct.
NewClientSwapped == <<"addr", "addr">> \o ClaimInstructions \o <<"u32", "u64">>

NewClientWriter == <<"addr", "addr">> \o ClaimInstructions \o <<"u64", "u32">>
NewClientReader == <<"addr", "addr">> \o ClaimInstructions \o <<"u64", "u32">>

Writer ==
    [Ping |-> PingWriter, AgentRegister |-> AgentRegisterWriter,
     AgentKeepAlive |-> Session, SetupUdpChannel |-> Session,
     AgentCheckPortMapping |-> CheckPortMappingWriter,
     Pong |-> PongWriter, InvalidSignature |-> << >>, Unauthorized |-> << >>,
     RequestQueued |-> << >>, TryAgainLater |-> << >>,
     AgentRegistered |-> AgentRegisteredWriter,
     AgentPortMapping |-> PortMappingWriter,
     UdpChannelDetails |-> UdpChannelWriter, NewClient |-> NewClientWriter]

Reader ==
    [Ping |-> PingReader, AgentRegister |-> AgentRegisterReader,
     AgentKeepAlive |-> Session, SetupUdpChannel |-> Session,
     AgentCheckPortMapping |-> CheckPortMappingReader,
     Pong |-> PongReader, InvalidSignature |-> << >>, Unauthorized |-> << >>,
     RequestQueued |-> << >>, TryAgainLater |-> << >>,
     AgentRegistered |-> AgentRegisteredReader,
     AgentPortMapping |-> PortMappingReader,
     UdpChannelDetails |-> UdpChannelReader, NewClient |-> NewClientReader]

Kind == DOMAIN Writer

\* The ids of ControlRequest.WriteTo and ReadFrom.
RequestID ==
    [Ping |-> 6, AgentRegister |-> 2, AgentKeepAlive |-> 3,
     SetupUdpChannel |-> 4, AgentCheckPortMapping |-> 5]

RequestOf ==
    <<"Ping", "AgentRegister", "AgentKeepAlive", "SetupUdpChannel",
      "AgentCheckPortMapping">>

\* The ids of ControlResponse.WriteTo and ReadFrom.
ResponseID ==
    [Pong |-> 1, InvalidSignature |-> 2, Unauthorized |-> 3,
     RequestQueued |-> 4, TryAgainLater |-> 5, AgentRegistered |-> 6,
     AgentPortMapping |-> 7, UdpChannelDetails |-> 8]

ResponseOf ==
    <<"Pong", "InvalidSignature", "Unauthorized", "RequestQueued",
      "TryAgainLater", "AgentRegistered", "AgentPortMapping",
      "UdpChannelDetails">>

-----------------------------------------------------------------------------
(* The primitives.                                                         *)

Width == [u8 |-> 1, proto |-> 1, u16 |-> 2, u32 |-> 4, u64 |-> 8]

Zero(n) == [i \in 1..n |-> 0]

\* A number below 256 in w bytes.
Num(n, w) == [i \in 1..w |-> IF i = w THEN n ELSE 0]

\* AddressPort.WriteTo of the 4 or 16 bytes of the address and 2 of the port.
WriteAddr(a) == <<IF Len(a) = 18 THEN 6 ELSE 4>> \o a

WriteOption(v) == IF v = << >> THEN <<0>> ELSE <<1>> \o v

WriteToken(v) == Num(Len(v), 8) \o v

\* AgentPortMappingFound.WriteTo: nothing at all without an agent.
WriteFound(v) == IF v = << >> THEN << >> ELSE Num(1, 4) \o v

Write(f, v) ==
    CASE f \in DOMAIN Width \cup {"ip", "sig"}      -> v
      [] f = "addr"                                 -> WriteAddr(v)
      [] f \in {"opt32", "opt64", "optSession"}     -> WriteOption(v)
      [] f = "token"                                -> WriteToken(v)
      [] f = "found"                                -> WriteFound(v)

Drop(b, n) == SubSeq(b, n + 1, Len(b))

Take(b, n) == SubSeq(b, 1, n)

Ok(v, rest) == [is |-> "ok", val |-> v, rest |-> rest]

Fail(what) == [is |-> what, val |-> << >>, rest |-> << >>]

\* Mutant: a number that is cut short leaves its bytes to the next field.
ReadNumUnread(b, w) ==
    IF Len(b) < w THEN Ok(Zero(w), b) ELSE Ok(Take(b, w), Drop(b, w))

\* ReadU8 to ReadU64: the error of binary.Read is dropped; what there is of
\* a number that is cut short is consumed, and the number is 0.
ReadNum(b, w) ==
    IF Len(b) < w THEN Ok(Zero(w), << >>) ELSE Ok(Take(b, w), Drop(b, w))

\* ReadBuff fails when the bytes do not suffice.
ReadBuff(b, n) ==
    IF Len(b) < n THEN Fail("error") ELSE Ok(Take(b, n), Drop(b, n))

\* The port is read without an error.
ReadIPPort(b, n) ==
    LET ip == ReadBuff(b, n)
        port == ReadNum(ip.rest, 2)
    IN  IF ip.is = "ok" THEN Ok(ip.val \o port.val, port.rest) ELSE ip

ReadAddr(b) ==
    LET tag == ReadNum(b, 1)
    IN  CASE tag.val = <<4>> -> ReadIPPort(tag.rest, 4)
          [] tag.val = <<6>> -> ReadIPPort(tag.rest, 16)
          [] OTHER           -> Fail("error")

\* make([]byte, n) panics for an n that cannot be allocated.
ReadToken(b) ==
    LET n == ReadNum(b, 8)
    IN  IF n.val[1] # 0 THEN Fail("panic") ELSE ReadBuff(n.rest, n.val[8])

\* AgentPortMappingFound.ReadFrom on the nil Found of AgentPortMapping.
ReadFound(b) == Fail(IF ReadNum(b, 4).val = Num(1, 4) THEN "panic" ELSE "error")

Read(f, b) ==
    CASE f \in DOMAIN Width -> ReadNum(b, Width[f])
      [] f = "addr"         -> ReadAddr(b)
      [] f = "token"        -> ReadToken(b)
      [] f = "sig"          -> ReadBuff(b, 32)
      [] f = "found"        -> ReadFound(b)

-----------------------------------------------------------------------------
\* What precedes the fields: ControlRpcMessage with its RequestID around a
\* request, ControlFeed around a response in its own ControlRpcMessage or
\* around a NewClient.
Header(k) ==
    IF k \in DOMAIN RequestID THEN Num(9, 8) \o Num(RequestID[k], 4)
    ELSE IF k = "NewClient" THEN Num(2, 4)
    ELSE Num(1, 4) \o Num(9, 8) \o Num(ResponseID[k], 4)

Init ==
    /\ kind \in Kind
    /\ pc = "write"
    /\ vals = << >>
    /\ wire = Header(kind)
    /\ cut = FALSE
    /\ todo = << >> /\ as = "none" /\ got = << >> /\ result = "pending"

WriteField(v) ==
    /\ pc = "write"
    /\ Len(vals) < Len(Writer[kind])
    /\ vals' = Append(vals, v)
    /\ wire' = wire \o Write(Writer[kind][Len(vals')], v)
    /\ UNCHANGED <<kind, pc, cut, todo, as, got, result>>

\* External: the datagram arrives in a buffer of n bytes.  Both sides of the
\* protocol read it with the envelope they expect.
Receive(n) ==
    /\ pc = "write"
    /\ Len(vals) = Len(Writer[kind])
    /\ n \in 0..Len(wire)
    /\ wire' = Take(wire, n)
    /\ cut' = (n < Len(wire))
    /\ todo' = IF kind \in DOMAIN RequestID THEN <<"rpc request">> ELSE <<"feed">>
    /\ pc' = "read"
    /\ UNCHANGED <<kind, vals, as, got, result>>

Finish(what) ==
    /\ pc' = "done"
    /\ result' = what
    /\ UNCHANGED <<kind, vals, cut, as, got>>

\* ControlFeed.ReadFrom
ReadFeed ==
    /\ pc = "read" /\ todo = <<"feed">>
    /\ LET id == ReadNum(wire, 4)
       IN  /\ wire' = id.rest
           /\ \/ /\ id.val = Num(1, 4)
                 /\ todo' = <<"rpc response">>
                 /\ UNCHANGED <<kind, pc, vals, cut, as, got, result>>
              \/ /\ id.val = Num(2, 4)
                 /\ todo' = Reader["NewClient"] /\ as' = "NewClient"
                 /\ UNCHANGED <<kind, pc, vals, cut, got, result>>
              \/ /\ id.val \notin {Num(1, 4), Num(2, 4)}
                 /\ Finish("error") /\ UNCHANGED todo

\* ControlRpcMessage.ReadFrom, then the id of the content: of holds the
\* contents its ReadFrom knows.
ReadRpc(of) ==
    LET id == ReadNum(ReadNum(wire, 8).rest, 4)
        known == {i \in DOMAIN of : id.val = Num(i, 4)}
    IN  /\ wire' = id.rest
        /\ \/ \E i \in known : /\ todo' = Reader[of[i]] /\ as' = of[i]
                               /\ UNCHANGED <<kind, pc, vals, cut, got, result>>
           \/ known = {} /\ Finish("error") /\ UNCHANGED todo

ReadRequest == pc = "read" /\ todo = <<"rpc request">> /\ ReadRpc(RequestOf)

ReadResponse == pc = "read" /\ todo = <<"rpc response">> /\ ReadRpc(ResponseOf)

ReadField ==
    /\ pc = "read" /\ as # "none" /\ todo # << >>
    /\ LET r == Read(Head(todo), wire)
       IN  IF r.is = "ok"
           THEN /\ got' = Append(got, r.val)
                /\ wire' = r.rest
                /\ todo' = Tail(todo)
                /\ UNCHANGED <<kind, pc, vals, cut, as, result>>
           ELSE Finish(r.is) /\ UNCHANGED <<wire, todo>>

ReadEnds ==
    /\ pc = "read" /\ as # "none" /\ todo = << >>
    /\ Finish("ok")
    /\ UNCHANGED <<wire, todo>>

Next ==
    \/ \E v \in IF Len(vals) < Len(Writer[kind])
                THEN Sample(Writer[kind][Len(vals) + 1]) ELSE {} : WriteField(v)
    \/ \E n \in 0..Len(wire) : Receive(n)
    \/ ReadFeed
    \/ ReadRequest
    \/ ReadResponse
    \/ ReadField
    \/ ReadEnds

Spec == Init /\ [][Next]_vars

-----------------------------------------------------------------------------
\* The messages whose reader has the fields of its writer.
Symmetric == Kind \ {"Ping", "Pong", "AgentCheckPortMapping", "AgentPortMapping"}

\* Such a message is read back as it was written, field by field, when the
\* buffer holds all of it, and no message is ever taken for another.
RoundTrip ==
    /\ result = "ok" => as = kind
    /\ pc = "done" /\ ~cut /\ kind \in Symmetric => result = "ok" /\ got = vals

\* What a field of value v reads as where the bytes ran out.
Zeroed(f, v) ==
    CASE f = "addr"  -> Take(v, Len(v) - 2) \o Zero(2)
      [] f = "token" -> << >>
      [] OTHER       -> Zero(Len(v))

\* A datagram that the receive buffer cut is an error, or the message that
\* was sent with its last fields zeroed: no byte is read into another field.
\* And wherever it is cut, the only message that can make its reader panic is
\* AgentPortMapping, whose address is read as the id of its Found.
CutOnlyZeroes ==
    /\ pc = "done" /\ result = "ok" /\ kind \in Symmetric =>
         \E k \in 0..Len(vals) :
             \A i \in 1..Len(vals) :
                 got[i] = IF i <= k THEN vals[i] ELSE Zeroed(Writer[kind][i], vals[i])
    /\ result = "panic" => kind = "AgentPortMapping" /\ Take(vals[1], 4) = Num(1, 4)

\* WriteTo puts an option byte before the expiry of a Pong and ReadFrom does
\* not expect it: whatever the server names, the agent reads 0 or a time in
\* the far future.  AgentLoop takes its Expiry from here.
PongExpiryIsZeroOrFar ==
    result = "ok" /\ as = "Pong" =>
        LET expiry == got[Len(got)] IN expiry = Zero(8) \/ expiry[1] = 1

=============================================================================

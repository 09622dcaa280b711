----------------------------- MODULE UdpTunnel ------------------------------
(***************************************************************************)
(* The UDP channel of the agent: tunnel/udp_tunnel.go with the lock of     *)
(* tunnel/rwlock/rwlock.go.                                                *)
(*                                                                         *)
(* Any number of goroutines call the exported methods.  A call is split    *)
(* where another goroutine can intervene: at every acquisition of the      *)
(* RWMutex, at every atomic store, around the blocking read, and between   *)
(* taking a time stamp and storing it.  Calls that change nothing (IsSetup,*)
(* GetToken alone, Send, and calls that return an error at once) are not   *)
(* steps.                                                                  *)
(***************************************************************************)
EXTENDS UdpClock, Sequences

CONSTANTS
    Proc,         \* goroutines using the tunnel
    Addr4, Addr6, \* tunnel addresses of the two families
    Token,        \* session tokens
    Data,         \* a payload that is not a token
    HasUdp6,      \* AssignUdpTunnel got an IPv6 socket
    Preset,       \* the channel Details.Value holds at the start, or NoChannel
    PresetHistory,\* the values its AddrHistory may have at the start
    NoChannel,    \* a nil *UdpChannelDetails
    NoDatagram,   \* nothing read yet
    NoProc        \* no goroutine

Addr == Addr4 \cup Addr6

Channel == [addr : Addr, token : Token]

Datagram == [from : Addr, data : Token \cup {Data}]

ASSUME UdpTunnelAssumption ==
    /\ NoProc \notin Proc
    /\ NoChannel \notin Channel
    /\ NoDatagram \notin Datagram
    /\ Data \notin Token
    /\ HasUdp6 \in BOOLEAN
    /\ Preset \in Channel \cup {NoChannel}
    /\ PresetHistory \subseteq Seq(Addr)
    /\ Addr4 \cap Addr6 = {}

VARIABLES
    details,      \* Details.Value: the channel and the addresses it had before
    writer,       \* goroutine that called Details.Lock and has not unlocked
    readers,      \* read locks each goroutine holds on Details
    lastConfirm,  \* LastConfirm
    lastSend,     \* LastSend
    sec,          \* now_sec()
    sent,         \* <<address, token>> pairs written to the tunnel sockets
    pc,           \* where each goroutine is
    chan,         \* the channel the goroutine's call works on
    dgram,        \* ReceiveFrom: the datagram read, NoDatagram before
    stamp,        \* a value of now_sec() read and not stored yet
    crashed       \* a goroutine panicked: the process is gone

locals == <<chan, dgram, stamp>>
vars == <<details, writer, readers, lastConfirm, lastSend, sec, sent, pc,
          chan, dgram, stamp, crashed>>

PC == {"idle", "write", "send", "store", "invalidate",
       "read", "history", "token", "confirm"}

Range(s) == {s[i] : i \in 1..Len(s)}

\* The socket that serves an address is there.
HasSocket(a) == a \in Addr4 \/ HasUdp6

SameFamily(a, b) == (a \in Addr4) <=> (b \in Addr4)

-----------------------------------------------------------------------------
(* sync.RWMutex: a pending writer keeps every new reader out, also one     *)
(* that already holds a read lock; the writer waits for all readers.       *)

CanRLock == writer = NoProc

CanWrite(p) == writer = p /\ \A q \in Proc : readers[q] = 0

\* Rwlock.Write returns Value by value: what the caller assigns to the
\* struct it got is lost when the lock is released.
WriteBack(value, copy) == value

\* Mutant: a path that returns without running the unlock function.
RUnlockForgotten(p) == readers

\* The deferred unlock functions of the goroutine's call have run.
RUnlocked(p) == [readers EXCEPT ![p] = 0]

Return(p) ==
    /\ pc' = [pc EXCEPT ![p] = "idle"]
    /\ readers' = RUnlocked(p)
    /\ chan' = [chan EXCEPT ![p] = NoChannel]
    /\ dgram' = [dgram EXCEPT ![p] = NoDatagram]
    /\ stamp' = [stamp EXCEPT ![p] = 0]

-----------------------------------------------------------------------------
\* AssignUdpTunnel leaves an empty Details.  Details.Value is an exported
\* field: a program that fills it itself starts from its Preset channel and
\* from the former addresses it names in AddrHistory.
Init ==
    /\ details \in [udp : {Preset}, history : PresetHistory]
    /\ writer = NoProc
    /\ readers = [p \in Proc |-> 0]
    /\ lastConfirm = 0
    /\ lastSend = 0
    /\ sec \in Sec
    /\ sent = {}
    /\ pc = [p \in Proc |-> "idle"]
    /\ chan = [p \in Proc |-> NoChannel]
    /\ dgram = [p \in Proc |-> NoDatagram]
    /\ stamp = [p \in Proc |-> 0]
    /\ crashed = FALSE

\* SetUdpTunnel(d): Details.Write() announces the writer.
SetUdpTunnel(p, d) ==
    /\ pc[p] = "idle"
    /\ writer = NoProc
    /\ writer' = p
    /\ pc' = [pc EXCEPT ![p] = "write"]
    /\ chan' = [chan EXCEPT ![p] = d]
    /\ UNCHANGED <<details, readers, lastConfirm, lastSend, sec, sent, dgram,
                   stamp, crashed>>

\* What SetUdpTunnel makes of its copy of Details.Value.
UpdatedCopy(old, d) ==
    IF old.udp = NoChannel THEN old
    ELSE [udp |-> d,
          history |-> IF old.udp.addr = d.addr THEN old.history
                      ELSE Append(old.history, old.udp.addr)]

\* SetUdpTunnel between Lock and Unlock; a channel that is already the
\* current one needs no token.
WriteDetails(p) ==
    /\ pc[p] = "write"
    /\ CanWrite(p)
    /\ details' = WriteBack(details, UpdatedCopy(details, chan[p]))
    /\ writer' = NoProc
    /\ IF details.udp = chan[p]
       THEN Return(p)
       ELSE /\ pc' = [pc EXCEPT ![p] = "send"]
            /\ UNCHANGED <<readers, locals>>
    /\ UNCHANGED <<lastConfirm, lastSend, sec, sent, crashed>>

\* ResendToken with a known channel: the read lock is held over SendToken.
ResendToken(p) ==
    /\ pc[p] = "idle"
    /\ CanRLock
    /\ details.udp # NoChannel
    /\ readers' = [readers EXCEPT ![p] = 1]
    /\ chan' = [chan EXCEPT ![p] = details.udp]
    /\ pc' = [pc EXCEPT ![p] = "send"]
    /\ UNCHANGED <<details, writer, lastConfirm, lastSend, sec, sent, dgram,
                   stamp, crashed>>

\* SendToken: the datagram goes out, now_sec() is read.  The result of the
\* write is ignored: a lost token is a datagram the server never echoes.
SendToken(p) ==
    /\ pc[p] = "send"
    /\ HasSocket(chan[p].addr)
    /\ sent' = sent \cup {<<chan[p].addr, chan[p].token>>}
    /\ stamp' = [stamp EXCEPT ![p] = sec]
    /\ pc' = [pc EXCEPT ![p] = "store"]
    /\ UNCHANGED <<details, writer, readers, lastConfirm, lastSend, sec, chan,
                   dgram, crashed>>

\* SendToken: "ipv6 not supported".
SendTokenFails(p) ==
    /\ pc[p] = "send"
    /\ ~HasSocket(chan[p].addr)
    /\ Return(p)
    /\ UNCHANGED <<details, writer, lastConfirm, lastSend, sec, sent,
                   crashed>>

\* SendToken: LastSend.Store, then SetUdpTunnel or ResendToken returns.
StoreLastSend(p) ==
    /\ pc[p] = "store"
    /\ lastSend' = stamp[p]
    /\ Return(p)
    /\ UNCHANGED <<details, writer, lastConfirm, sec, sent, crashed>>

\* InvalidateSession: two stores, LastConfirm first.
InvalidateSession(p) ==
    /\ pc[p] = "idle"
    /\ lastConfirm' = 0
    /\ pc' = [pc EXCEPT ![p] = "invalidate"]
    /\ UNCHANGED <<details, writer, readers, lastSend, sec, sent, locals,
                   crashed>>

InvalidateLastSend(p) ==
    /\ pc[p] = "invalidate"
    /\ lastSend' = 0
    /\ pc' = [pc EXCEPT ![p] = "idle"]
    /\ UNCHANGED <<details, writer, readers, lastConfirm, sec, sent, locals,
                   crashed>>

-----------------------------------------------------------------------------
(* ReceiveFrom.                                                            *)

\* GetSock: the socket and the tunnel address, read under the read lock.
GetSock(p) ==
    /\ pc[p] = "idle"
    /\ CanRLock
    /\ details.udp # NoChannel
    /\ HasSocket(details.udp.addr)
    /\ chan' = [chan EXCEPT ![p] = details.udp]
    /\ pc' = [pc EXCEPT ![p] = "read"]
    /\ UNCHANGED <<details, writer, readers, lastConfirm, lastSend, sec, sent,
                   dgram, stamp, crashed>>

\* What can arrive: data from anywhere, and the tokens the tunnel server
\* echoes, any number of times and late.  External: the server.
Deliverable(m) == m.data = Data \/ <<m.from, m.data>> \in sent

\* ReadFromUDPAddrPort returns a datagram.
Read(p, m) ==
    /\ pc[p] = "read"
    /\ SameFamily(m.from, chan[p].addr)
    /\ Deliverable(m)
    /\ dgram' = [dgram EXCEPT ![p] = m]
    /\ pc' = [pc EXCEPT ![p] = IF m.from = chan[p].addr THEN "token" ELSE "history"]
    /\ UNCHANGED <<details, writer, readers, lastConfirm, lastSend, sec, sent,
                   chan, stamp, crashed>>

\* ReadFromUDPAddrPort fails.
ReadFails(p) ==
    /\ pc[p] = "read"
    /\ Return(p)
    /\ UNCHANGED <<details, writer, lastConfirm, lastSend, sec, sent,
                   crashed>>

\* Mutant: every source counts as an earlier address.
AnySource(a, history) == TRUE

KnownSource(a, history) == a \in Range(history)

\* The datagram is not from the tunnel address: the history is searched
\* under a read lock that is released only when ReceiveFrom returns.
CheckHistory(p) ==
    /\ pc[p] = "history"
    /\ CanRLock
    /\ IF KnownSource(dgram[p].from, details.history)
       THEN /\ readers' = [readers EXCEPT ![p] = 1]
            /\ pc' = [pc EXCEPT ![p] = "token"]
            /\ UNCHANGED locals
       ELSE Return(p)
    /\ UNCHANGED <<details, writer, lastConfirm, lastSend, sec, sent, crashed>>

IsToken(p) == details.udp # NoChannel /\ dgram[p].data = details.udp.token

\* GetToken takes a read lock of its own; the datagram is the token.
MatchToken(p) ==
    /\ pc[p] = "token"
    /\ CanRLock
    /\ IsToken(p)
    /\ stamp' = [stamp EXCEPT ![p] = sec]
    /\ pc' = [pc EXCEPT ![p] = "confirm"]
    /\ UNCHANGED <<details, writer, readers, lastConfirm, lastSend, sec, sent,
                   chan, dgram, crashed>>

\* LastConfirm.Store, then ReceiveFrom returns.
StoreLastConfirm(p) ==
    /\ pc[p] = "confirm"
    /\ lastConfirm' = stamp[p]
    /\ Return(p)
    /\ UNCHANGED <<details, writer, lastSend, sec, sent, crashed>>

\* FromTailUdpFlow on the bytes it is given: an error (fewer than 8 bytes, or
\* not enough for the flow), a flow, or, for a footer it does not know, a
\* nil flow without an error.
FromTailUdpFlow == {"error", "flow", "nil flow"}

\* Any other datagram.  The footer is looked for in buff[byteSize:], the
\* bytes of the buffer AFTER the datagram, so what was left there decides.
\* The nil flow is dereferenced.
ParseFooter(p) ==
    /\ pc[p] = "token"
    /\ CanRLock
    /\ ~IsToken(p)
    /\ Return(p)
    /\ \E r \in FromTailUdpFlow : crashed' = (r = "nil flow")
    /\ UNCHANGED <<details, writer, lastConfirm, lastSend, sec, sent>>

-----------------------------------------------------------------------------
\* A second passes.
Tick ==
    /\ sec' = NextSec(sec)
    /\ UNCHANGED <<details, writer, readers, lastConfirm, lastSend, sent, pc,
                   locals, crashed>>

\* The steps of a call that has begun, without the blocking read.
Continue(p) ==
    \/ WriteDetails(p)
    \/ SendToken(p)
    \/ SendTokenFails(p)
    \/ StoreLastSend(p)
    \/ InvalidateLastSend(p)
    \/ CheckHistory(p)
    \/ MatchToken(p)
    \/ StoreLastConfirm(p)
    \/ ParseFooter(p)

Call(p) ==
    \/ \E d \in Channel : SetUdpTunnel(p, d)
    \/ ResendToken(p)
    \/ InvalidateSession(p)
    \/ GetSock(p)

Step(p) ==
    \/ Call(p)
    \/ Continue(p)
    \/ \E m \in Datagram : Read(p, m)
    \/ ReadFails(p)

Next == ~crashed /\ (Tick \/ \E p \in Proc : Step(p))

Spec == Init /\ [][Next]_vars

\* The Go scheduler runs every goroutine that is not blocked; the read may
\* block for ever, and nobody is obliged to begin a call.
Fairness == \A p \in Proc : WF_vars(~crashed /\ Continue(p))

FairSpec == Spec /\ Fairness

-----------------------------------------------------------------------------
TypeOK ==
    /\ details \in [udp : Channel \cup {NoChannel}, history : Seq(Addr)]
    /\ writer \in Proc \cup {NoProc}
    /\ readers \in [Proc -> {0, 1}]
    /\ lastConfirm \in Sec
    /\ lastSend \in Sec
    /\ sec \in Sec
    /\ sent \subseteq Addr \X Token
    /\ pc \in [Proc -> PC]
    /\ chan \in [Proc -> Channel \cup {NoChannel}]
    /\ dgram \in [Proc -> Datagram \cup {NoDatagram}]
    /\ stamp \in [Proc -> Sec]
    /\ crashed \in BOOLEAN

\* The goroutine waits for a second read lock, in GetToken, while a writer
\* waits for the first: both wait for ever, and so does every later call.
Stuck(p) == pc[p] = "token" /\ readers[p] > 0 /\ writer # NoProc

\* ReceiveFrom keeps the lock of its history check over GetToken, which locks
\* again.  Only a datagram of a former address, one that AddrHistory names
\* and that is not the address of the channel, can lock up the tunnel that
\* way; SetUdpTunnel never makes an address a former one.
LockCycleNeedsHistory ==
    \A p \in Proc : Stuck(p) =>
        dgram[p].from # chan[p].addr /\ dgram[p].from \in Range(details.history)

\* The token of the stored channel was written to its address, or to one of
\* its former addresses.
Known ==
    /\ details.udp # NoChannel
    /\ \E a \in {details.udp.addr} \cup Range(details.history) :
         <<a, details.udp.token>> \in sent

\* A session counts as confirmed only when its own token was written before
\* to the address of its channel or to a former one: neither the echo of
\* another channel's token nor one from elsewhere confirms it.
ConfirmFollowsSend ==
    lastConfirm # 0 => Known

S == INSTANCE UdpSession
     WITH Stamp <- Sec, known <- Known, send <- lastSend, confirm <- lastConfirm

\* However the stores of InvalidateSession, SendToken and ReceiveFrom fall
\* between each other, with stamps that are old when they are stored, they
\* make up a session: none is confirmed before its token went out, and none
\* that the server knows is forgotten.
ImplementsSession == S!Spec

\* A SetUdpTunnel call that waits for the lock gets it, whatever readers do,
\* unless a ReceiveFrom has locked up the tunnel.
SetUdpTunnelReturns ==
    \A p \in Proc :
        pc[p] = "write" ~> (pc[p] # "write" \/ crashed \/ \E q \in Proc : Stuck(q))

\* What the log line "Updating Udp Tunnel" and the comment of Rwlock.Write
\* say: a channel whose token SetUdpTunnel sends is the one Details holds.
ChannelIsUpdated ==
    \A p \in Proc :
        pc[p] \in {"send", "store"} /\ readers[p] = 0 => details.udp = chan[p]

=============================================================================

---------------------------- MODULE ControlSetup ----------------------------
(***************************************************************************)
(* The handshake with a control server (tunnel/setup.go):                  *)
(* SetupFindSuitableChannel.Setup tries the addresses in order until one   *)
(* answers a ping, and ConnectedControl.Authenticate registers the agent   *)
(* on the socket that was found.  Update calls Authenticate again on a     *)
(* socket that has seen a registration before.                             *)
(*                                                                         *)
(* The network loses, repeats, delays and reorders datagrams, and other    *)
(* senders reach the socket.  Every read has a deadline of 5 ms.           *)
(***************************************************************************)
EXTENDS Integers, Sequences

CONSTANTS
    Address,    \* Setup.Address: a sequence of control addresses
    NoAddr,     \* not connected
    Stranger,   \* any other sender
    Session,    \* sessions the server can open for the agent
    NoSession,  \* no AgentRegistered
    PingMax,    \* 3 pings to an address
    AuthMax,    \* 5 registration requests
    ReadMax     \* 5 reads after each request

ASSUME ControlSetupAssumption ==
    /\ {PingMax, AuthMax, ReadMax} \subseteq Nat
    /\ 0 < PingMax
    /\ Address \in Seq({Address[i] : i \in DOMAIN Address})
    /\ NoAddr \notin {Address[i] : i \in DOMAIN Address}
    /\ Stranger \notin {Address[i] : i \in DOMAIN Address}
    /\ NoSession \notin Session

VARIABLES
    pc,         \* where the call is
    pos,        \* index of the address being tried
    socket,     \* the socket of each address
    attempt,    \* requests sent in the loop under way
    reads,      \* reads since the last request
    pinged,     \* positions a ping was sent to
    asked,      \* a registration request was sent
    issued,     \* sessions the server opened
    session,    \* the session accepted as AgentRegistered
    control,    \* ConnectedControl.ControlAddr
    outcome     \* what the call came to

vars == <<pc, pos, socket, attempt, reads, pinged, asked, issued, session,
          control, outcome>>
server == <<pinged, asked, issued>>

Pos == DOMAIN Address

Target == {Address[i] : i \in Pos}

RequestID == {"ping", "register", "other"}  \* 1, 10 and those of Update

Content == {"Pong", "InvalidSignature", "Unauthorized", "RequestQueued",
            "AgentRegistered", "Other", "NewClient", "Garbage"}

\* A datagram as ControlFeed.ReadFrom sees it; Garbage does not parse.
Message == [from : Target \cup {Stranger}, id : RequestID, content : Content,
            session : Session \cup {NoSession}]

\* External: what can be read from the socket.  A stranger sends anything;
\* a server answers what it was asked, and offers clients to a session.
Deliverable(m) ==
    /\ m.content = "AgentRegistered" <=> m.session # NoSession
    /\ m.from # Stranger =>
        /\ m.id = "ping" => pos \in pinged
        /\ m.id = "register" => asked
        /\ m.content = "AgentRegistered" => m.session \in issued
        /\ m.content = "NewClient" => issued # {}

-----------------------------------------------------------------------------
InitSetup ==
    /\ pc = "listen"
    /\ socket = [i \in Pos |-> "none"]
    /\ pos = 1
    /\ control = NoAddr
    /\ outcome = "pending"
    /\ pinged = {} /\ asked = FALSE /\ issued = {}

\* Authenticate on the socket of an established control channel.
InitAgain ==
    /\ pc = "token"
    /\ pos \in Pos
    /\ socket = [i \in Pos |-> IF i = pos THEN "open" ELSE "none"]
    /\ control = Address[pos]
    /\ outcome = "connected"
    /\ pinged = {pos} /\ asked = TRUE
    /\ \E s \in Session : issued = {s}

Init ==
    /\ attempt = 0 /\ reads = 0
    /\ session = NoSession
    /\ InitSetup \/ InitAgain

\* The call returns or panics.
End(o) ==
    /\ pc' = "done"
    /\ outcome' = o
    /\ attempt' = 0 /\ reads' = 0
    /\ UNCHANGED <<pos, socket, control, server>>

Fails == End("error") /\ UNCHANGED session

\* The next address, if any.
NextAddress ==
    /\ pc' = "listen"
    /\ pos' = pos + 1
    /\ attempt' = 0 /\ reads' = 0

\* net.ListenUDP
Listen ==
    /\ pc = "listen"
    /\ pos \in Pos
    /\ socket' = [socket EXCEPT ![pos] = "open"]
    /\ pc' = "ping"
    /\ UNCHANGED <<pos, attempt, reads, session, control, outcome, server>>

ListenFails ==
    /\ pc = "listen"
    /\ pos \in Pos
    /\ NextAddress
    /\ UNCHANGED <<socket, session, control, outcome, server>>

NoMoreAddress ==
    /\ pc = "listen"
    /\ pos \notin Pos
    /\ Fails

SendPing ==
    /\ pc = "ping"
    /\ attempt < PingMax
    /\ attempt' = attempt + 1
    /\ reads' = 0
    /\ pinged' = pinged \cup {pos}
    /\ pc' = "pong"
    /\ UNCHANGED <<pos, socket, asked, issued, session, control, outcome>>

\* Mutant: the attempts go on after the socket was closed.
SendPingFailsOnce ==
    /\ pc = "ping"
    /\ attempt < PingMax
    /\ socket' = [socket EXCEPT ![pos] = "closed"]
    /\ attempt' = attempt + 1
    /\ UNCHANGED <<pc, pos, reads, session, control, outcome, server>>

\* Mutant: the next address is tried without closing the socket.
SendPingFailsOpen ==
    /\ pc = "ping"
    /\ attempt < PingMax
    /\ NextAddress
    /\ UNCHANGED <<socket, session, control, outcome, server>>

\* The socket is closed and the next address is tried.
SendPingFails ==
    /\ pc = "ping"
    /\ attempt < PingMax
    /\ socket' = [socket EXCEPT ![pos] = "closed"]
    /\ NextAddress
    /\ UNCHANGED <<session, control, outcome, server>>

\* All pings unanswered: the next address, and the socket stays open.
PingsLost ==
    /\ pc = "ping"
    /\ attempt >= PingMax
    /\ NextAddress
    /\ UNCHANGED <<socket, session, control, outcome, server>>

\* Mutant: one read more than the loop allows.
ReadingOneMore == pc \in {"pong", "reply"} /\ reads <= ReadMax

Reading == pc \in {"pong", "reply"} /\ reads < ReadMax

\* The read was for nothing: read again.
ReadAgain ==
    /\ reads' = reads + 1
    /\ UNCHANGED <<pc, pos, socket, attempt, session, control, outcome,
                   server>>

\* Back to the next request of the loop.
NextAttempt ==
    /\ pc' = IF pc = "pong" THEN "ping" ELSE "register"
    /\ reads' = 0
    /\ UNCHANGED <<pos, socket, attempt, session, control, outcome, server>>

ReadsUsedUp == pc \in {"pong", "reply"} /\ reads >= ReadMax /\ NextAttempt

\* Setup goes on reading after a timeout, Authenticate asks again.
ReadTimeout ==
    /\ Reading
    /\ IF pc = "pong" THEN ReadAgain ELSE NextAttempt

ReadFails == Reading /\ Fails

\* Setup's tests of a datagram, in their order.
SetupVerdict(m) ==
    IF m.from # Address[pos] THEN "again"
    ELSE IF m.content \in {"Garbage", "NewClient"} THEN "error"
    ELSE IF m.id # "ping" THEN "again"
    ELSE IF m.content = "Pong" THEN "connected"
    ELSE "error"

ReadPong(m) ==
    /\ Reading /\ pc = "pong"
    /\ Deliverable(m)
    /\ \/ SetupVerdict(m) = "again" /\ ReadAgain
       \/ SetupVerdict(m) = "error" /\ Fails
       \/ /\ SetupVerdict(m) = "connected"
          /\ pc' = "token"
          /\ control' = Address[pos]
          /\ outcome' = "connected"
          /\ attempt' = 0 /\ reads' = 0
          /\ UNCHANGED <<pos, socket, session, server>>

-----------------------------------------------------------------------------
(* ConnectedControl.Authenticate.  The addresses of a Pong that was parsed *)
(* are always valid.                                                       *)

\* ProtoRegisterRegister signs the registration.
GetToken ==
    /\ pc = "token"
    /\ pc' = "register"
    /\ UNCHANGED <<pos, socket, attempt, reads, session, control, outcome,
                   server>>

GetTokenFails == pc = "token" /\ Fails

\* Mutant: the registration requests are not counted.
SendRegisterUncounted ==
    /\ pc = "register"
    /\ attempt < AuthMax
    /\ reads' = 0
    /\ asked' = TRUE
    /\ pc' = "reply"
    /\ UNCHANGED <<pos, socket, attempt, pinged, issued, session, control,
                   outcome>>

SendRegister ==
    /\ pc = "register"
    /\ attempt < AuthMax
    /\ attempt' = attempt + 1
    /\ reads' = 0
    /\ asked' = TRUE
    /\ pc' = "reply"
    /\ UNCHANGED <<pos, socket, pinged, issued, session, control, outcome>>

SendRegisterFails == pc = "register" /\ attempt < AuthMax /\ Fails

\* "failed1 to connect agent"
RegisterLost == pc = "register" /\ attempt >= AuthMax /\ Fails

\* Mutant: the sender of a datagram is not compared with ControlAddr.
AnswerOfAnyone(m) == TRUE

FromControl(m) == m.from = control

\* The tests of a datagram, in their order.  RequestID is read from
\* feed.Response before that is tested for nil: a NewClient feed panics.
AuthVerdict(m) ==
    IF ~FromControl(m) THEN "again"
    ELSE IF m.content = "Garbage" THEN "error"
    ELSE IF m.content = "NewClient" THEN "panic"
    ELSE IF m.id # "register" THEN "again"
    ELSE IF m.content \in {"InvalidSignature", "Unauthorized"} THEN "error"
    ELSE IF m.content = "AgentRegistered" THEN "authenticated"
    ELSE "again"

ReadReply(m) ==
    /\ Reading /\ pc = "reply"
    /\ Deliverable(m)
    /\ IF AuthVerdict(m) = "again"
       THEN ReadAgain
       ELSE /\ End(AuthVerdict(m))
            /\ session' = IF AuthVerdict(m) = "authenticated"
                          THEN m.session ELSE session

-----------------------------------------------------------------------------
\* External: the server opens a session for a registration it received.
ServerRegisters(s) ==
    /\ asked
    /\ issued' = issued \cup {s}
    /\ UNCHANGED <<pc, pos, socket, attempt, reads, pinged, asked, session,
                   control, outcome>>

Agent ==
    \/ Listen
    \/ ListenFails
    \/ NoMoreAddress
    \/ SendPing
    \/ SendPingFails
    \/ PingsLost
    \/ ReadsUsedUp
    \/ ReadTimeout
    \/ ReadFails
    \/ \E m \in Message : ReadPong(m)
    \/ GetToken
    \/ GetTokenFails
    \/ SendRegister
    \/ SendRegisterFails
    \/ RegisterLost
    \/ \E m \in Message : ReadReply(m)

Next == pc # "done" /\ (Agent \/ \E s \in Session : ServerRegisters(s))

Spec == Init /\ [][Next]_vars

\* The read deadline ends every read.  That the API answers is assumed: its
\* http.Client has no timeout.
FairSpec == Spec /\ WF_vars(Agent)

-----------------------------------------------------------------------------
TypeOK ==
    /\ pc \in {"listen", "ping", "pong", "token", "register", "reply", "done"}
    /\ pos \in 1..(Len(Address) + 1)
    /\ socket \in [Pos -> {"none", "open", "closed"}]
    /\ attempt \in Nat
    /\ reads \in 0..ReadMax
    /\ pinged \subseteq Pos
    /\ asked \in BOOLEAN
    /\ issued \subseteq Session
    /\ session \in Session \cup {NoSession}
    /\ control \in Target \cup {NoAddr}
    /\ outcome \in {"pending", "connected", "authenticated", "error", "panic"}

\* The agent takes only a session that the control server opened for it,
\* whatever other senders put on the socket.
AcceptedSessionIsIssued == session # NoSession => session \in issued

\* The handshake panics only when the server had already opened a session:
\* it is the answer to a registration, or to an earlier one, that was lost
\* or is late, and a client offered to that session that comes first.
PanicNeedsSession == outcome = "panic" => issued # {}

\* A channel that is connected has the socket it was found with, open.
ConnectedSocketIsOpen ==
    outcome \in {"connected", "authenticated"} =>
        pos \in Pos /\ control = Address[pos] /\ socket[pos] = "open"

\* The sockets that Setup leaves behind open, and nobody can close, are those
\* of servers that were asked and did not answer in time: an address that
\* cannot be written to costs no socket.
LeakedSocketWasPinged ==
    \A i \in Pos : socket[i] = "open" /\ i # pos => i \in pinged

H == INSTANCE Handshake
     WITH Target <- Target, NoAddr <- NoAddr, outcome <- outcome,
          control <- control

\* The handshake comes to one of the outcomes its callers know, and it ends.
ImplementsHandshake == H!Spec

\* What Authenticate checks, "feed.Response == nil": a feed that is not a
\* response ends in an error.
NoPanicWithoutResponse == outcome # "panic"

=============================================================================

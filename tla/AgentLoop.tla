----------------------------- MODULE AgentLoop ------------------------------
(***************************************************************************)
(* The running agent: TunnelRunner.Run (tunnel/runner.go), the             *)
(* SimplesTunnel it drives (tunnel/simples_tunnel.go) and the control      *)
(* channel (tunnel/control.go).                                            *)
(*                                                                         *)
(* Three goroutines take steps: Run itself, which sets the tunnel up and   *)
(* then waits on a channel; the loop goroutine, which alternates           *)
(* ReloadControlAddr and Update; and the one that handles os.Interrupt.    *)
(* When Embedder holds, the program around Run also uses the exported      *)
(* UdpTunnel: it stores a channel, sends its token and receives the echo.  *)
(*                                                                         *)
(* A step of the model ends where the code waits for the network, the API  *)
(* or a clock, or reads an atomic that another goroutine writes.  Time is  *)
(* counted in the seconds the thresholds are multiples of; the clock never *)
(* steps back.  The handshakes are seen by their outcomes.                 *)
(***************************************************************************)
EXTENDS UdpClock, FiniteSets

CONSTANTS
    Addr,            \* control addresses
    NoAddr,          \* a zero netip.AddrPort
    Expiry,          \* session expiry times a server can name
    Embedder,        \* the program around Run uses the UdpTunnel
    T0,              \* the time at which Run is called
    MaxTime,         \* bound: the clock stops here
    MaxStall,        \* bound: time between RequiresAuth and RequireResend
    PingAfter,       \* 1_000 of Update
    UdpAuthAfter,    \* 5_000: between two SetupUdpChannel requests
    TokenAfter,      \* 1_000: between two ResendToken calls
    KeepAliveAfter,  \* 10_000
    ExpirySoon,      \* 30_000: compared with the time till expiry
    PongAfter,       \* 6_000: without a pong the session is expired
    ReloadAfter,     \* 30_000 of Run
    RecvMax,         \* 30 feed messages an Update
    TimeoutMax       \* 10 failed reads an Update

\* The agent runs long after 1970, and it is not suspended for five seconds
\* between two adjacent calls.
ASSUME AgentLoopAssumption ==
    /\ {T0, MaxTime, MaxStall, RecvMax, TimeoutMax} \subseteq Nat
    /\ {PingAfter, UdpAuthAfter, TokenAfter, KeepAliveAfter, ExpirySoon,
        PongAfter, ReloadAfter} \subseteq Nat
    /\ Expiry \subseteq Nat
    /\ NoAddr \notin Addr
    /\ IsFiniteSet(Addr)
    /\ Embedder \in BOOLEAN
    /\ ExpirySoon <= T0
    /\ 0 < T0
    /\ T0 <= MaxTime
    /\ AuthAfter + MaxStall <= ResendAfter

VARIABLES
    now,          \* time.Now()
    sec,          \* now_sec()
    stall,        \* time since RequiresAuth was asked
    keepRunning,  \* TunnelRunner.KeepRunning
    run,          \* Run: "setup", "waiting" on the channel or "returned"
    exit,         \* "running", or the exit code: "interrupt" (1), "loop" (2)
    sig,          \* the os.Interrupt goroutine
    loop,         \* the loop goroutine
    lastControlUpdate,  \* local of the loop goroutine
    targets,      \* addresses the API gave the reload under way
    lastTargets,  \* lastControlTargets
    handshake,    \* history: the time of the last handshake that succeeded
    controlAddr,  \* ControlAddr, also of the ControlChannel
    open,         \* the socket of the ControlChannel is not closed
    connects,     \* control sockets that Setup and the reloads have left open
    deadline,     \* the read deadline of the socket may lie in the future
    forceExpired, \* ForceEpired
    expiresAt,    \* Registered.ExpiresAt
    updateNow,    \* local now of Update
    lastPing, lastPong, lastUdpAuth, lastKeepAlive,  \* stamps of SimplesTunnel
    lastSend, lastConfirm,                           \* stamps of the UdpTunnel
    hasChannel,   \* Details.Value.Udp is set
    touched,      \* history: the embedding program stored a stamp since the
                  \* session was made or invalidated
    iter,         \* messages asked for in this Update
    timeouts      \* local timeout of Update

clock   == <<now, sec, stall>>
runner  == <<keepRunning, run, exit, sig>>
reload  == <<lastControlUpdate, targets, lastTargets, handshake>>
channel == <<controlAddr, open, connects, deadline, forceExpired, expiresAt>>
stamps  == <<updateNow, lastPing, lastPong, lastUdpAuth, lastKeepAlive>>
session == <<lastSend, lastConfirm, hasChannel, touched>>
feed    == <<iter, timeouts>>

vars == <<clock, runner, loop, reload, channel, stamps, session, feed>>

Loop == {"none", "top", "reload", "connect", "update", "ping", "auth",
         "resend", "keepalive", "recv", "pong"}

Signal == {"none", "wait", "stop", "close", "exit"}

-----------------------------------------------------------------------------
\* KeepRunning is the embedding program's to set: Run never stores true.
Init ==
    /\ now = T0
    /\ sec \in Sec
    /\ stall = 0
    /\ keepRunning \in BOOLEAN
    /\ run = "setup" /\ exit = "running" /\ sig = "none" /\ loop = "none"
    /\ lastControlUpdate = 0
    /\ targets = {} /\ lastTargets = {} /\ handshake = 0
    /\ controlAddr = NoAddr
    /\ open = FALSE /\ connects = 0 /\ deadline = FALSE
    /\ forceExpired = FALSE /\ expiresAt = 0
    /\ updateNow = 0
    /\ lastPing = 0 /\ lastPong = 0 /\ lastUdpAuth = 0 /\ lastKeepAlive = 0
    /\ lastSend = 0 /\ lastConfirm = 0 /\ hasChannel = FALSE /\ touched = FALSE
    /\ iter = 0 /\ timeouts = 0

\* The sockets that the search for an address that answers leaves open: the
\* one of that address and those of the addresses before it whose pings were
\* all lost.  The API names an address once.
LeftOpen(addresses) == 1..Cardinality(addresses)

\* SimplesTunnel.Setup fails (sockets, API or handshake): Run returns.
SetupFails ==
    /\ run = "setup"
    /\ run' = "returned"
    /\ connects' \in {0} \cup LeftOpen(Addr)
    /\ UNCHANGED <<clock, keepRunning, exit, sig, loop, reload, controlAddr,
                   open, deadline, forceExpired, expiresAt, stamps, session,
                   feed>>

\* The channel that a successful Setup and Authenticate leave.
NewChannel(a, e) ==
    /\ controlAddr' = a
    /\ open' = TRUE
    /\ deadline' = TRUE
    /\ handshake' = now
    /\ forceExpired' = FALSE
    /\ expiresAt' = e

\* Setup succeeds; Run starts its goroutines and waits.  The addresses that
\* Setup used are not remembered in lastControlTargets.
SetupSucceeds(a, e) ==
    /\ run = "setup"
    /\ NewChannel(a, e)
    /\ connects' \in LeftOpen(Addr)
    /\ run' = "waiting"
    /\ sig' = "wait"
    /\ loop' = "top"
    /\ lastControlUpdate' = now
    /\ UNCHANGED <<clock, keepRunning, exit, targets, lastTargets, stamps,
                   session, feed>>

-----------------------------------------------------------------------------
(* The goroutine that waits for os.Interrupt.                              *)

Interrupt ==
    /\ sig = "wait"
    /\ sig' = "stop"
    /\ UNCHANGED <<clock, keepRunning, run, exit, loop, reload, channel,
                   stamps, session, feed>>

Stop ==
    /\ sig = "stop"
    /\ keepRunning' = FALSE
    /\ sig' = "close"
    /\ UNCHANGED <<clock, run, exit, loop, reload, channel, stamps, session,
                   feed>>

\* Whatever channel is current by now is the one that is closed.
CloseSocket ==
    /\ sig = "close"
    /\ open' = FALSE
    /\ sig' = "exit"
    /\ UNCHANGED <<clock, keepRunning, run, exit, loop, reload, controlAddr,
                   connects, deadline, forceExpired, expiresAt, stamps,
                   session, feed>>

\* Mutant: the goroutine returns without ending the process.
ExitForgotten ==
    /\ sig = "exit"
    /\ sig' = "none"
    /\ UNCHANGED <<clock, keepRunning, run, exit, loop, reload, channel,
                   stamps, session, feed>>

Exit1 ==
    /\ sig = "exit"
    /\ exit' = "interrupt"
    /\ UNCHANGED <<clock, keepRunning, run, sig, loop, reload, channel,
                   stamps, session, feed>>

-----------------------------------------------------------------------------
(* The loop goroutine.  It never ends alone: on return and on panic its    *)
(* deferred os.Exit(2) ends the process.                                   *)

Exit2 ==
    /\ exit' = "loop"
    /\ UNCHANGED <<clock, keepRunning, run, sig, loop, reload, channel,
                   stamps, session, feed>>

LoopEnds == loop = "top" /\ ~keepRunning /\ Exit2

\* Mutant: the time of the last reload is not noted.
LoopTurnsNoStamp ==
    /\ loop = "top"
    /\ keepRunning
    /\ loop' = IF ReloadAfter < now - lastControlUpdate THEN "reload" ELSE "update"
    /\ UNCHANGED <<clock, runner, reload, channel, stamps, session, feed>>

LoopTurns ==
    /\ loop = "top"
    /\ keepRunning
    /\ IF ReloadAfter < now - lastControlUpdate
       THEN lastControlUpdate' = now /\ loop' = "reload"
       ELSE UNCHANGED lastControlUpdate /\ loop' = "update"
    /\ UNCHANGED <<clock, runner, targets, lastTargets, handshake, channel,
                   stamps, session, feed>>

\* Mutant: the test of ReloadControlAddr without its negation.
SkipsReloadWhenKept(new) == lastTargets # {} /\ lastTargets \subseteq new

\* ReloadControlAddr gives up when a target it knew is no longer announced.
SkipsReload(new) == \E a \in lastTargets : a \notin new

\* What the API can name as targets.
ControlAddresses == SUBSET Addr

\* ReloadControlAddr: the API answers with the control addresses.
GetTargets(new) ==
    /\ loop = "reload"
    /\ IF SkipsReload(new)
       THEN loop' = "update" /\ UNCHANGED targets
       ELSE loop' = "connect" /\ targets' = new
    /\ UNCHANGED <<clock, runner, lastControlUpdate, lastTargets, handshake,
                   channel, stamps, session, feed>>

\* The API, the new handshake or its authentication fails, or panics.
ReloadFails == loop \in {"reload", "connect"} /\ Exit2

\* Setup reaches the address in use: nothing changes but the targets, and
\* the sockets it made stay open.
KeepControlAddr ==
    /\ loop = "connect"
    /\ controlAddr \in targets
    /\ \E n \in LeftOpen(targets) : connects' = connects + n
    /\ lastTargets' = targets
    /\ targets' = {}
    /\ loop' = "update"
    /\ UNCHANGED <<clock, runner, lastControlUpdate, handshake, controlAddr,
                   open, deadline, forceExpired, expiresAt, stamps, session, feed>>

\* Mutant: LastSend is not stored by InvalidateSession.
InvalidateConfirmOnly == lastConfirm' = 0 /\ UNCHANGED <<lastSend, hasChannel>>

\* The two stores of UdpTunnel.InvalidateSession, as one step: UdpTunnel has
\* them apart.
InvalidateSession ==
    lastConfirm' = 0 /\ lastSend' = 0 /\ UNCHANGED hasChannel

\* UpdateControlAddr with a new address.
UpdateControlAddr(a, e) ==
    /\ loop = "connect"
    /\ a \in targets
    /\ a # controlAddr
    /\ NewChannel(a, e)
    /\ \E n \in LeftOpen(targets) : connects' = connects + n
    /\ lastPing' = 0 /\ lastKeepAlive' = 0 /\ lastUdpAuth' = 0
    /\ InvalidateSession
    /\ touched' = FALSE
    /\ lastTargets' = targets
    /\ targets' = {}
    /\ loop' = "update"
    /\ UNCHANGED <<clock, runner, lastControlUpdate, updateNow, lastPong, feed>>

-----------------------------------------------------------------------------
(* Update.                                                                 *)

\* IsIspired: SessionExpireAt is never nil after a Pong was parsed, and
\* FlowChanged compares an address with itself.
IsExpired == forceExpired

StartUpdate ==
    /\ updateNow' = now
    /\ loop' = "ping"

SkipAuthenticate ==
    /\ loop = "update"
    /\ ~IsExpired
    /\ StartUpdate
    /\ UNCHANGED <<clock, runner, reload, channel, lastPing, lastPong,
                   lastUdpAuth, lastKeepAlive, session, feed>>

\* Mutant: a new registration ends the forced expiry.
RegisteredAfresh == FALSE

\* Authenticate renews the registration and leaves ForceEpired alone.
ExpiredAfterAuthenticate == forceExpired

Authenticate(e) ==
    /\ loop = "update"
    /\ IsExpired
    /\ open
    /\ expiresAt' = e
    /\ deadline' = TRUE
    /\ handshake' = now
    /\ forceExpired' = ExpiredAfterAuthenticate
    /\ StartUpdate
    /\ UNCHANGED <<clock, runner, lastControlUpdate, targets, lastTargets,
                   controlAddr, open, connects, lastPing, lastPong,
                   lastUdpAuth, lastKeepAlive, session, feed>>

\* Update sleeps two seconds and returns without an error.
AuthenticateFails ==
    /\ loop = "update"
    /\ IsExpired
    /\ deadline' = FALSE
    /\ loop' = "top"
    /\ UNCHANGED <<clock, runner, reload, controlAddr, open, connects,
                   forceExpired, expiresAt, stamps, session, feed>>

\* A NewClient message answers the registration: nil dereference.
AuthenticatePanics == loop = "update" /\ IsExpired /\ open /\ Exit2

SendPing ==
    /\ loop = "ping"
    /\ lastPing' = IF updateNow - lastPing > PingAfter THEN updateNow ELSE lastPing
    /\ loop' = "auth"
    /\ UNCHANGED <<clock, runner, reload, channel, updateNow, lastPong,
                   lastUdpAuth, lastKeepAlive, session, feed>>

\* RequiresAuth is asked; SendSetupUDPChannel if it is time.
CheckAuth ==
    /\ loop = "auth"
    /\ IF RequiresAuth(lastConfirm, lastSend, sec)
       THEN /\ lastUdpAuth' = IF UdpAuthAfter < updateNow - lastUdpAuth
                              THEN updateNow ELSE lastUdpAuth
            /\ loop' = "pong"
       ELSE UNCHANGED lastUdpAuth /\ loop' = "resend"
    /\ stall' = 0
    /\ UNCHANGED <<now, sec, runner, reload, channel, updateNow, lastPing,
                   lastPong, lastKeepAlive, session, feed>>

\* RequireResend is asked; ResendToken if it is time, which sends the token
\* of the stored channel and stamps LastSend.
CheckResend ==
    /\ loop = "resend"
    /\ IF RequireResend(lastConfirm, sec)
       THEN /\ loop' = "keepalive"
            /\ IF TokenAfter < updateNow - lastUdpAuth
               THEN /\ lastUdpAuth' = updateNow
                    /\ lastSend' = IF hasChannel THEN sec ELSE lastSend
               ELSE UNCHANGED <<lastUdpAuth, lastSend>>
       ELSE /\ loop' = "pong"
            /\ UNCHANGED <<lastUdpAuth, lastSend>>
    /\ stall' = 0
    /\ UNCHANGED <<now, sec, runner, reload, channel, updateNow, lastPing,
                   lastPong, lastKeepAlive, lastConfirm, hasChannel, touched,
                   feed>>

\* Mutant: the time that is left, as the name says.
TimeLeft(t) == IF expiresAt > t THEN expiresAt - t ELSE 0

\* timeTillExpire is the smaller of the two TIMES, not their difference.
TimeTillExpire(t) == IF expiresAt > t THEN t ELSE expiresAt

SendKeepAlive ==
    /\ loop = "keepalive"
    /\ lastKeepAlive' =
          IF KeepAliveAfter < updateNow - lastKeepAlive
             /\ TimeTillExpire(updateNow) < ExpirySoon
          THEN updateNow ELSE lastKeepAlive
    /\ loop' = "recv"
    /\ UNCHANGED <<clock, runner, reload, channel, updateNow, lastPing,
                   lastPong, lastUdpAuth, session, feed>>

-----------------------------------------------------------------------------
(* The receive loop of Update.  RecFeedMsg sets no read deadline: the 5 ms *)
(* one of the last handshake still stands, and once it has passed every    *)
(* read fails.  A read parses Buff[size:], the bytes after the datagram,   *)
(* so what it yields depends on what was in the buffer before.             *)

Receiving == loop = "recv" /\ iter < RecvMax /\ timeouts < TimeoutMax

\* Mutant: RecFeedMsg sets a deadline of its own.
CanReadAnyTime == Receiving /\ open

CanRead == Receiving /\ deadline /\ open

\* A message is taken; failed tells whether it counts as a timeout.
CountRead(failed) ==
    /\ iter' = iter + 1
    /\ timeouts' = IF failed THEN timeouts + 1 ELSE timeouts

\* A timeout, a closed socket, another sender or bytes that do not parse.
RecvFails ==
    /\ Receiving
    /\ CountRead(TRUE)
    /\ UNCHANGED <<clock, runner, loop, reload, channel, stamps, session>>

\* Update returns the client and Run panics with it.
RecvNewClient == CanRead /\ Exit2

\* Panicln comes before ForceEpired is set and the error is returned.
RecvUnauthorized == CanRead /\ Exit2

\* SetUdpTunnel sends the token and stamps LastSend; the stored channel
\* stays as it is.  An IPv6 channel without an IPv6 socket is an error.
RecvUdpChannelDetails(supported) ==
    /\ CanRead
    /\ lastSend' = IF supported THEN sec ELSE lastSend
    /\ CountRead(~supported)
    /\ UNCHANGED <<clock, runner, loop, reload, channel, stamps, lastConfirm,
                   hasChannel, touched>>

RecvPong(e) ==
    /\ CanRead
    /\ lastPong' = now
    /\ expiresAt' = e
    /\ CountRead(FALSE)
    /\ UNCHANGED <<clock, runner, loop, reload, controlAddr, open, connects,
                   deadline, forceExpired, updateNow, lastPing, lastUdpAuth,
                   lastKeepAlive, session>>

RecvAgentRegistered(e) ==
    /\ CanRead
    /\ expiresAt' = e
    /\ CountRead(FALSE)
    /\ UNCHANGED <<clock, runner, loop, reload, controlAddr, open, connects,
                   deadline, forceExpired, stamps, session>>

\* Any other response is logged.
RecvOther ==
    /\ CanRead
    /\ CountRead(FALSE)
    /\ UNCHANGED <<clock, runner, loop, reload, channel, stamps, session>>

RecvEnds ==
    /\ loop = "recv"
    /\ ~Receiving
    /\ loop' = "pong"
    /\ iter' = 0 /\ timeouts' = 0
    /\ UNCHANGED <<clock, runner, reload, channel, stamps, session>>

\* The end of Update: a pong that is too old expires the session.
CheckPong ==
    /\ loop = "pong"
    /\ IF lastPong # 0 /\ now - lastPong > PongAfter
       THEN lastPong' = 0 /\ forceExpired' = TRUE
       ELSE UNCHANGED <<lastPong, forceExpired>>
    /\ loop' = "top"
    /\ UNCHANGED <<clock, runner, reload, controlAddr, open, connects,
                   deadline, expiresAt, updateNow, lastPing, lastUdpAuth,
                   lastKeepAlive, session, feed>>

-----------------------------------------------------------------------------
(* The embedding program, which holds the exported fields of the tunnel.   *)
(* Its goroutines read now_sec() and store it a little later: a stamp may  *)
(* be a second old, and a reload may have come in between.                 *)

RecentSec == {s \in Sec : s = sec \/ NextSec(s) = sec}

EmbedderStops ==
    /\ Embedder
    /\ keepRunning
    /\ keepRunning' = FALSE
    /\ UNCHANGED <<clock, run, exit, sig, loop, reload, channel, stamps,
                   session, feed>>

\* It stores a channel in Details.Value and calls SendToken with it.
EmbedderSendsToken(s) ==
    /\ Embedder
    /\ run = "waiting"
    /\ hasChannel' = TRUE
    /\ touched' = TRUE
    /\ lastSend' = s
    /\ UNCHANGED <<clock, runner, loop, reload, channel, stamps, lastConfirm,
                   feed>>

\* ReceiveFrom returns the echo of the token.
EmbedderConfirms(s) ==
    /\ Embedder
    /\ hasChannel
    /\ touched' = TRUE
    /\ lastConfirm' = s
    /\ UNCHANGED <<clock, runner, loop, reload, channel, stamps, lastSend,
                   hasChannel, feed>>

-----------------------------------------------------------------------------
\* A second passes.  A 5 ms read deadline does not outlive it.  The two
\* adjacent calls RequiresAuth and RequireResend are at most MaxStall apart.
Tick ==
    /\ now < MaxTime
    /\ loop = "resend" => stall < MaxStall
    /\ now' = now + 1
    /\ sec' = NextSec(sec)
    /\ stall' = IF loop = "resend" THEN stall + 1 ELSE 0
    /\ deadline' = FALSE
    /\ UNCHANGED <<runner, loop, reload, controlAddr, open, connects,
                   forceExpired, expiresAt, stamps, session, feed>>

HandleSignal == Stop \/ CloseSocket \/ Exit1

\* What the loop goroutine does by itself.
LoopStep ==
    \/ LoopEnds
    \/ LoopTurns
    \/ SkipAuthenticate
    \/ SendPing
    \/ CheckAuth
    \/ CheckResend
    \/ SendKeepAlive
    \/ RecvFails
    \/ RecvEnds
    \/ CheckPong

\* What it does with an answer of the API or of the control server.
Answer ==
    \/ ReloadFails
    \/ KeepControlAddr
    \/ AuthenticateFails
    \/ AuthenticatePanics
    \/ \E new \in ControlAddresses : GetTargets(new)
    \/ \E e \in Expiry :
          \/ Authenticate(e)
          \/ RecvPong(e)
          \/ RecvAgentRegistered(e)
          \/ \E a \in Addr : UpdateControlAddr(a, e)
    \/ \E supported \in BOOLEAN : RecvUdpChannelDetails(supported)
    \/ RecvNewClient
    \/ RecvUnauthorized
    \/ RecvOther

Start ==
    \/ SetupFails
    \/ \E a \in Addr, e \in Expiry : SetupSucceeds(a, e)

EmbedderStep ==
    \/ EmbedderStops
    \/ \E s \in RecentSec : EmbedderSendsToken(s) \/ EmbedderConfirms(s)

Next ==
    /\ exit = "running"
    /\ run # "returned"
    /\ \/ Start
       \/ Interrupt
       \/ HandleSignal
       \/ LoopStep
       \/ Answer
       \/ EmbedderStep
       \/ Tick

Spec == Init /\ [][Next]_vars

Running(A) == exit = "running" /\ run # "returned" /\ A

\* The scheduler runs the goroutines and time passes.  The http.Client has
\* no timeout and the server owes no answer: Answer is not fair.
Fairness ==
    /\ WF_vars(Running(HandleSignal))
    /\ WF_vars(Running(LoopStep))
    /\ WF_vars(Running(Tick))

FairSpec == Spec /\ Fairness

\* The same while the API and the control server go on answering.
AnsweredSpec == FairSpec /\ WF_vars(Running(Answer))

-----------------------------------------------------------------------------
FlagTypeOK ==
    /\ keepRunning \in BOOLEAN
    /\ open \in BOOLEAN
    /\ deadline \in BOOLEAN
    /\ forceExpired \in BOOLEAN
    /\ hasChannel \in BOOLEAN
    /\ touched \in BOOLEAN

DataTypeOK ==
    /\ now \in T0..MaxTime
    /\ sec \in Sec
    /\ stall \in 0..MaxStall
    /\ run \in {"setup", "waiting", "returned"}
    /\ exit \in {"running", "interrupt", "loop"}
    /\ sig \in Signal
    /\ loop \in Loop
    /\ lastControlUpdate \in 0..now /\ updateNow \in 0..now
    /\ lastPing \in 0..now /\ lastPong \in 0..now
    /\ lastUdpAuth \in 0..now /\ lastKeepAlive \in 0..now
    /\ handshake \in 0..now
    /\ targets \subseteq Addr
    /\ lastTargets \subseteq Addr
    /\ controlAddr \in Addr \cup {NoAddr}
    /\ connects \in Nat
    /\ expiresAt \in Expiry \cup {0}
    /\ lastSend \in Sec
    /\ lastConfirm \in Sec
    /\ iter \in 0..RecvMax
    /\ timeouts \in 0..TimeoutMax

TypeOK == FlagTypeOK /\ DataTypeOK

\* Update reads the control feed only in its RequireResend branch, and a
\* UDP session that was never sent requires authentication first: unless
\* the embedding program sends a token itself, no pong, no client and no
\* channel ever arrives, and the session never expires.
FeedNeverRead ==
    ~Embedder =>
        /\ loop \notin {"keepalive", "recv"}
        /\ lastSend = 0
        /\ lastPong = 0
        /\ ~forceExpired

\* A session that UpdateControlAddr invalidated does not come back by
\* itself, whatever channel is stored: Update asks the new control server
\* for a channel but never gets to read its answer, until the embedding
\* program sends or confirms the token, or a store of it that was under way
\* lands on the new session.
InvalidatedSessionStaysDead ==
    ~touched => lastSend = 0 /\ lastConfirm = 0
                /\ loop \notin {"keepalive", "recv"}

\* RecFeedMsg inherits the read deadline of the last handshake: the agent
\* hears no pong after the second of that handshake, so that each channel
\* that once got a pong is bound to expire.
PongOnlyAtHandshake == lastPong <= handshake

\* Setup and ReloadControlAddr keep the socket of every address they try and
\* close none of them later, whether the address answers or not: what is open
\* is at most one socket an address, once and then for each ReloadAfter.
LeakBounded ==
    connects * (ReloadAfter + 1) <= Cardinality(Addr) * ((now - T0) + ReloadAfter + 1)

\* The signal goroutine stops the loop before it closes the socket under
\* it: the loop meets a closed socket in its last turn only.
ClosedOnlyWhenStopping ==
    run = "waiting" /\ ~open => ~keepRunning

\* The agent as shipped, when nobody stops it, ends in one way only: a reload
\* of the control addresses that fails, although the channel it has still
\* works.  No client, no refusal and no panic of Update ever gets that far.
OnlyReloadEndsAgent ==
    ~Embedder /\ keepRunning /\ exit = "loop" => loop \in {"reload", "connect"}

\* The targets only grow: while the API leaves out an address it announced
\* once, the control address is not reloaded.
TargetsOnlyGrow == [][lastTargets \subseteq lastTargets']_vars

\* A session that expired for want of a pong stays expired until the control
\* address changes: neither a pong that comes late nor the Authenticate that
\* every Update then repeats ends it.
ExpiredUntilNewAddress ==
    [][forceExpired /\ ~forceExpired' => controlAddr' # controlAddr]_vars

\* KeepAlive goes out only when the session expiry is within seconds of
\* 1970, as a Pong without expiry is read; a session that is about to
\* expire is not kept alive.
KeepAliveNeedsZeroExpiry ==
    [][lastKeepAlive' \notin {lastKeepAlive, 0} => expiresAt < ExpirySoon]_vars

\* An interrupted process ends, whatever the loop is waiting for.
InterruptEndsProcess == sig = "stop" ~> exit # "running"

\* What RequireResend promises, "send token every 10 seconds": a running
\* agent whose session is unconfirmed for so long sends the token.
TokenIsSent ==
    loop # "none" /\ RequireResend(lastConfirm, sec)
        ~> lastSend # 0 \/ exit # "running" \/ ~keepRunning

=============================================================================

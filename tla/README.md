# go-playit in TLA+

A verification project for the go-playit agent: the client side of a playit.gg
tunnel, in `api/` and `tunnel/`. Paths below are relative to the repository.

## The system

An agent asks a web API for the addresses of control servers, picks one that
answers a UDP ping, registers there, and then loops: it pings the server, asks
for a UDP channel, sends the token of that channel so that the tunnel server
learns its address, and reads the control feed for answers and new clients.

| Component | Source | State | Operations |
|---|---|---|---|
| UDP tunnel session | `tunnel/udp_tunnel.go`, `udp_proto.go`, `rwlock/rwlock.go` | `Details` (channel and address history) under an RWMutex; `LastConfirm`, `LastSend` as atomic second stamps; two sockets | `AssignUdpTunnel`, `SetUdpTunnel`, `ResendToken`, `SendToken`, `InvalidateSession`, `GetSock`, `ReceiveFrom`, `Send`, `RequiresAuth`, `RequireResend` |
| Control handshake | `tunnel/setup.go` | a socket per address tried, counters of requests and reads | `Setup`, `Authenticate` |
| Control channel | `tunnel/control.go` | socket, last pong, registration, `ForceEpired`, read buffer | `Send*`, `IsIspired`, `RecFeedMsg`, `Authenticate` |
| Tunnel update loop | `tunnel/simples_tunnel.go` | the control channel, the UDP tunnel, millisecond stamps, last targets | `Setup`, `ReloadControlAddr`, `UpdateControlAddr`, `Update` |
| Runner | `tunnel/runner.go` | `KeepRunning`, two goroutines, the result channel | `Run` |
| Wire format | `tunnel/bigint.go`, `lib.go`, `rpc.go`, `control_message.go`, `control_feed.go` | none | readers and writers of each message |
| Address lookup | `tunnel/address_lookup.go` | a list of port ranges | `Lookup` |
| Claiming an agent | `api/claim.go` | code and secret of the `Api`, without a lock; the claim at the service | `AiisgnClaimCode`, `ClaimAgentSecret` |
| Tunnels of an account | `api/tunnels.go` | none of its own; the tunnels at the service | `CreateTunnel`, `DeleteTunnel`, `ListTunnels` |
| API client | `api/api.go`, `request.go`, `others.go` | code and secret | one HTTP request each |
| LAN address choice | `tunnel/lan_address.go` | none of its own; sockets of the system | `TcpSocket`, `UdpSocket` |
| TCP tunnel | `tunnel/tcp_tunnel.go` | the stream being connected | `Connect` |

How they interact: `Run` calls `SimplesTunnel.Setup` (API, handshake) and starts
two goroutines, which share `KeepRunning` and the control socket. The loop
goroutine calls `ReloadControlAddr` (API and handshake again) and `Update`, which
uses the control channel and the UDP tunnel. `UdpTunnel` is exported and guarded
for concurrent use. Its receiver goroutine is commented out in `Run`, so a
program that embeds the package has to call `ReceiveFrom` itself. Address lookup,
claiming, tunnels, LAN sockets and TCP tunnels are called by the embedding
program and share nothing with the loop but the `Api`.

What is hard here, and where it is looked at (the full list is under `hazards`
in `PROJECT.json`):

- interleavings of the signal goroutine with the loop, and of callers of the
  `UdpTunnel` (its recursive read lock, its unlocked pairs of stores);
- datagrams lost, late, repeated, or from other senders during the handshake
  and while the echo of a token is awaited;
- deadlines and retry counts: the handshake must end; the feed reader inherits
  an old deadline;
- clocks: the second counter restarts at 0 after 2^32 ms while differences are
  taken modulo 2^32; a wall clock that is set back wraps the uint64 differences
  of `Update`;
- buffers that are used again: both receivers parse what lies *behind* the
  datagram, which is what an earlier call left there;
- reader and writer of a message that disagree, and datagrams cut by the buffer;
- polls of a service while the user, another goroutine or the website changes
  what is polled, and answers lost after the service has acted;
- long protocol sequences: which of `Update`'s branches a session can ever
  reach, what becomes of targets and sockets over many reloads.

What makes each part correct: a tunnel session is confirmed only by the echo of
its own token and its lock cannot deadlock (it can, for a program that fills the
exported `AddrHistory`, and then only there); a handshake ends, on an open socket
of one of the given addresses, with a session the server opened; the loop
refreshes the token, the registration and the control address without losing
them or using up sockets; an interrupt ends the process. A message is read as the
message that was written; a
code is exchanged only with the user's consent; `CreateTunnel` returns nil only for
a tunnel that is decided; clients get loopback addresses of their own that survive
a restart; `Connect` leaks no stream.

## Modules

| Module | Models | EXTENDS / INSTANCE |
|---|---|---|
| `UdpClock` | `now_sec`, `RequiresAuth`, `RequireResend` | |
| `UdpSession` | what the UDP session promises (abstract) | |
| `UdpTunnel` | the UDP tunnel session, any number of goroutines | `UdpClock`; instantiates `UdpSession` |
| `AgentLoop` | runner, update loop and control channel | `UdpClock` |
| `Handshake` | what the handshake promises its callers (abstract) | |
| `ControlSetup` | `Setup` and `Authenticate` against an unreliable network | instantiates `Handshake` |
| `WallClock` | the deadlines of `Run` and `Update` under a clock that is set back | |
| `Wire` | every control message: writer, cut, reader, on bytes | |
| `FlowBuffer` | the bytes of `ReceiveFrom` and `Send`, the flow footer | |
| `FeedBuffer` | the bytes of `RecFeedMsg`, requests and handshakes | |
| `AddressLookup` | `LookupWithOverrides` | |
| `Claim`, `Tunnels` | `api/claim.go` and `api/tunnels.go` against the service | |
| `LanAddress` | the hash of a client's address, as operators | |
| `LanSocket` | the sockets bound to that address, for any hash | |
| `TcpTunnel` | `Connect` | |
| `MCBuffers` | `FeedBuffer` and `FlowBuffer` in one run | `FeedBuffer`, `FlowBuffer` |
| `MCCalls` | `TcpTunnel`, `Claim` and `Tunnels` in one run | `TcpTunnel`, `Claim`, `Tunnels` |
| `MCLocal` | `LanSocket`, with the hash of `LanAddress`, and `AddressLookup` in one run | `LanAddress`, `LanSocket`, `AddressLookup` |
| `MCUdpTunnel`, `MCAgentLoop`, `MCControlSetup`, `MCWire` | the constants of the runs that are not plain sets, the symmetry of `AgentLoop` | |
| `UdpTunnel_proofs`, `AgentLoop_proofs`, `ControlSetup_proofs`, `WallClock_proofs`, `Wire_proofs` | theorems on the module of that name | that module |
| `Calls_proofs`, `Buffers_proofs`, `Local_proofs` | theorems on the components of `MCCalls`, `MCBuffers`, `MCLocal` | those components |

**UdpTunnel.** A call is cut where another goroutine can intervene: at each lock
acquisition, each atomic store, the blocking read, and between `now_sec()` and
the store of its value. `writer` is set when `Lock` is *called*, because from then
on Go's RWMutex admits no new reader. `WriteBack` is the heart of the model:
`Rwlock.Write` returns the value, not a pointer, so the fields `SetUdpTunnel`
assigns are lost. `sent` is a history variable from which the tunnel server may
echo any token, at any time and any number of times. `FromTailUdpFlow` is read on
the bytes behind the datagram, hence its three results are a free choice; the
nil flow is dereferenced and `crashed` ends the process. `Preset` and
`PresetHistory` are the channel and the address histories `Details` may start
with: `AssignUdpTunnel` leaves none, a program can store them in the exported
field. With a history the read lock of `ReceiveFrom`'s history check is kept while
`GetToken` locks again, and a `SetUdpTunnel` that waits in between locks up the
tunnel: that state, `Stuck`, is reached in the run.

**AgentLoop.** `loop` is the place in the loop goroutine: `top` of the `for`;
`reload` and `connect` in `ReloadControlAddr`, before the API's and the server's
answer; `update`, `ping`, `auth`, `resend`, `keepalive`, `recv`, `pong` in `Update`.
`sig` is the place in the signal goroutine and `exit` the exit code. Every failure
of the loop goroutine, return or panic, runs the deferred `os.Exit(2)`. A handshake
is seen by its outcome, which `ControlSetup` and `Handshake` justify. `Embedder`
tells whether the surrounding program uses the `UdpTunnel`; without it the agent
is the one `Run` starts. The two stores of `InvalidateSession` are one step here and
two in `UdpTunnel`.

A search for a control address leaves open the socket of the address that
answers and of each address before it that did not (`LeftOpen`; `ControlSetup` has
the search itself); an address is taken to be named once by the API.

**UdpSession**: a session is *known* once its token was written to its channel,
only a known session is confirmed, and the stamps are cleared together or one
after the other. `UdpTunnel` implements it with a step for every store. A store of
a stamp that was read before an invalidation may come after it and revive the
session; `UdpSession` allows that, since the code does. `AgentLoop` uses the stamps
of the session as the loop does, and is built on the outcomes of `Handshake`, which
`ControlSetup` implements.

**ControlSetup.** `attempt` and `reads` are the `for range` counters. A read is a
timeout, an error, or a datagram that `Deliverable` allows: anything from a
stranger; from a server only answers to what was asked, sessions it opened, and
`NewClient` feeds of an opened session. `SetupVerdict` and `AuthVerdict` are the
tests of the code in the code's order, the nil dereference included. `InitAgain` is
the call `Update` makes on an established channel. That a parsed Pong has valid
addresses and a non-nil expiry is read off `AddressPort.ReadFrom` and
`Pong.ReadFrom`.

**WallClock** takes out of `AgentLoop` what touches the three differences of
wall-clock stamps and keeps, beside each stamp, when that really was: the turn of
`Run`, a reload that keeps or replaces the channel, the `Authenticate` of an expired
session that fails, sleeps two seconds and returns without a ping, the wait for an
API without a timeout, and the rest of `Update`. The clock is set back at any point
of it. Besides waits and pauses a turn is taken to last a second.

**Wire.** `Writer` and `Reader` list, for each message, the fields its `WriteTo` and
its `ReadFrom` go through, in their order; `Write` and `Read` are the primitives of
`bigint.go`. They are two tables because the code disagrees with itself for
`Ping`, `Pong`, `AgentCheckPortMapping` and `AgentPortMapping`. `ReadNum` returns zero
where bytes are missing, as `ReadU8` to `ReadU64` do, which ignore the error.

**FlowBuffer, FeedBuffer.** A cell holds the number of the operation that wrote
it, so a property can say *whose* bytes a result is made of. `ReceiveFrom` and
`RecFeedMsg` both parse the buffer from the end of the datagram on. What
`RecFeedMsg` returns may thus be an older message; `AgentLoop` leaves free which
message is read, and covers that.

**AddressLookup** fills a table with up to two overrides and makes lookups of every
kind. `answers` is the history they are compared in.

**Claim, Tunnels.** A request is a step of the service, which may lose the answer
after acting, and a step of the caller. The `Api` has no lock, so `Claim` keeps
apart the two reads of `Api.Code` that `ClaimAgentSecret` makes, one before the
polls and one before the exchange. `Tunnels` has every argument that
`CreateTunnel` tells apart, and a website and other goroutines that delete. The
argument names the agent of the `Api`, another one or none, and then the service
chooses; `ListTunnels` shows only tunnels of the agent of the `Api`. No operation of
the API moves a tunnel to another agent, so `owner` is set once.

**LanAddress, LanSocket.** The hash with its shifts, factor and mask on narrower
words; the attempts of `TcpSocket` and `UdpSocket` in their order against a table
of addresses that the agent, its former sockets and other programs hold.
`DialUDP` without a remote address fails, as package `net` has it. The plain dial
without a special address may succeed or fail; a dial to a loopback server with an
address that can be bound succeeds, so a system that has run out of sockets is left
out.

**TcpTunnel.** A server that answers or hangs up, before or after the token is
written. `Connect` does not look at how much its one read returned, so the bytes
are left out.

**MCBuffers, MCCalls, MCLocal** put components that share no state into one run. A
component moves only while the others are in their initial state, so that the
state graph is the union of the components' graphs and not their product; since
no property speaks of two of them, nothing is lost.

## Runs

| Run | What it asks | Result |
|---|---|---|
| `udp_tunnel` | two goroutines on one tunnel, with and without a former address: only a datagram of a former address can lock up the tunnel; only the echo of the channel's own token, from its address or a former one, confirms; a waiting `SetUdpTunnel` gets its lock unless the tunnel is locked up; `UdpSession` is implemented | holds, 607,518 states |
| `udp_tunnel_update` | a channel whose token is sent is the one stored | violated (finding 1) |
| `agent_loop` | the agent as shipped: the feed is never read; leaked sockets are bounded by time and addresses; when nobody stops it, only a failed reload ends it; targets only grow; an interrupt ends the process | holds, 2.16 million states |
| `agent_loop_embedded` | the agent inside a program that confirms the session, so that the receive loop is reached: an invalidated session stays dead; a pong is read only under the deadline of the last handshake; a channel forced to expire stays expired until it is replaced; `KeepAlive` goes out only for an expiry near 1970 | holds, 9.44 million states |
| `agent_loop_token` | "send token every 10 seconds" | violated (finding 2) |
| `control_setup` | three addresses, the code's own counts: accepted sessions are genuine; a connected channel has its socket; a socket left open was pinged; `Handshake` is implemented, termination included | holds, 3,884 states |
| `control_setup_panic` | a feed without `Response` ends in the error the code has for it | violated (finding 3) |
| `wire` | symmetric messages are read as written; a cut only zeroes the last fields, and only `AgentPortMapping` can panic; the expiry of a Pong reads as 0 or far | holds, 211,469 states |
| `buffers` | the message `RecFeedMsg` returns is an earlier one's; the flow `ReceiveFrom` returns is an earlier one's, and the length it returns is right for IPv6 only | holds, 164,937 states |
| `calls` | `Connect` leaks no stream; codes and secrets are replaced only by overlapping calls, no code is exchanged without consent unless it was replaced; nil from `CreateTunnel` means decided, its panic needs a deletion when the call named its own agent; each of the three returns | holds, 121,015 states |
| `local` | the other ports of an override's range are not served by it; clients spread evenly over loopback addresses and never get 127.0.0.0; an address survives a restart unless it is taken; when `UdpSocket` fails for a special address | holds, 764,372 states |
| `wall_clock` | under a clock that is set back pings go on but for pauses and waits, reloads stay apart, and a session expires by silence or by a step beyond its last pong, never late by more than the steps | holds, 2.62 million states |

Some of the properties that hold describe what the code does rather than what
one would wish: `FeedNeverRead`, `TargetsOnlyGrow`, `OnlyReloadEndsAgent`, `LockCycleNeedsHistory`,
`KeepAliveNeedsZeroExpiry`, `PongOnlyAtHandshake`, `ExpiredUntilNewAddress`,
`PongExpiryIsZeroOrFar`, `FlowIsStale`, `MessageIsStale` and `RangeIsNotServed`
are facts a reader of the code would dispute, and each
tells a maintainer which branch is dead or which test is the wrong way round. No
comment of the repository contradicts them, so they are no findings.

`CHECK_DEADLOCK FALSE` is set throughout because the process may end: by exit, by
panic, or by the return of the modelled call. `TypeOK` is checked where every
action fires.

### Bounds

- `SecMax`, `U32`: the restart of `now_sec` (every 4294968 s) and the wrap of uint32
  are different numbers. The instances keep `SecMax < U32` with room for a wrapped
  difference to exceed both thresholds, and start at any second, so that every
  run meets the restart.
- Thresholds keep their order where the code compares them on one stamp
  (`AuthAfter < ResendAfter`); others are one or two units. Time is in whole
  units and the clock steps back in `WallClock` only.
- `MaxTime` leaves room for two reloads in `agent_loop` (the second meets targets that
  the first one stored), and in `agent_loop_embedded` for one reload and for a pong
  to grow too old.
- `MaxStall` bounds the time between the adjacent calls of `RequiresAuth` and
  `RequireResend` to `ResendAfter - AuthAfter`, five seconds in the code. A process
  suspended for longer exactly there, within five seconds of a restart of the
  counter, would reach the receive loop once.
- `RecvMax` and `TimeoutMax` are 2 for the code's 30 and 10: enough for a loop that
  ends by either count. `ControlSetup` uses the code's 3, 5 and 5.
- `udp_tunnel` starts with an empty history, and with one that holds the other IPv4
  address: enough for a read lock that is kept. Two goroutines, two IPv4 addresses, one IPv6 address without a socket and two
  tokens let a wrong address, a wrong token and a wrong family each be told
  from the right one. The proofs lift all of these bounds.
- `agent_loop_embedded` uses the symmetry of the control addresses: no constant,
  property or refinement names one of them, and the run has no liveness property.
- `Wire` has the code's widths; each kind of field takes two or three values whose
  bytes differ from each other and from the constants of the formats, so that a
  field read from the wrong place shows.
- `FlowBuffer`: cells of 4 bytes and a buffer of 25, just above the 24 that
  `FromTailUdpFlow` needs; three calls, so that a flow can mix two earlier ones.
  `FeedBuffer`: datagrams shorter and longer than a request, and longer than the
  chunk.
- `AddressLookup`: two ports, the higher of which wraps; two overrides, so that
  one can hide the other; pairs of lookups.
- `Claim`: five calls let two goroutines replace each other's code and secret and
  try again; `Tunnels`: two calls on one or two goroutines, so that the list of the
  wrong tunnel, a deletion and another agent's tunnel are met; the proofs lift it.
- `LanAddress`: words of 8 bits with the low byte of the factor. What makes `shuffle`
  a bijection, an odd factor and shifts by half a word, is kept.
- `LanSocket`: clients whose hashes are equal, with ports equal modulo 24000 and at
  both ends of the range, and one whose hash is 127.0.0.1; two sockets at once.
- `TcpTunnel`: three calls. `WallClock`: deadlines of 1, 2 and 3 units in their order,
  the pause of 2, `U64` far above every difference, two steps back between pings; the
  nine units of time hold two reloads, the expiry of a fresh pong, and a gap
  between pings as long as `PingsGoOn` allows.

### Fairness

- `UdpTunnel`: a goroutine that is not blocked and has begun a call goes on (the Go
  scheduler). No call need begin, and the blocking read may never return.
- `AgentLoop`, `FairSpec`: both goroutines go on and time passes. Answers of the API
  and of servers are *not* fair: the `http.Client` has no timeout.
  `AnsweredSpec` adds them and is used only to show that `TokenIsSent` fails even
  then.
- `ControlSetup`: the 5 ms read deadline ends every read; the API's answer is
  assumed, since without it `Authenticate` waits for ever.
- `Claim`, `Tunnels`, `TcpTunnel`: goroutines go on. That the service answers or the
  request fails, that the user decides, that a pending tunnel is decided, and
  that the tunnel server answers or hangs up are assumptions about the outside:
  none of these waits has a timeout.

## Findings

1. `SetUdpTunnel` updates a copy (`tunnel/udp_tunnel.go:100`): the channel whose
   token is sent is never stored, and `IsSetup` stays false.
2. The token is never sent by the agent (`tunnel/simples_tunnel.go:136`): the answer
   that would lead to it is read only in the branch that a session without a
   token does not reach. The counterexample of the run ends with the clock at its
   bound; `FeedNeverReadAlways` shows that no bound is to blame.
3. `Authenticate` reads `feed.Response.RequestID` before it tests `feed.Response` for
   nil (`tunnel/setup.go:158`), and panics on a `NewClient` feed.

Four more disagreements, with what an interface comment, the API description and
log lines say, are facts that passing properties state or their modules show:

- `Lookup` never returns nil (`tunnel/address_lookup.go:63`), which the comment on the
  interface promises for an unknown address: `AddressLookup!Default`.
- `CreateTunnel` dereferences `Alloc` (`api/tunnels.go:82`), which the API description
  does not require and the structure omits when empty: the first branch of
  `Tunnels!CreateTunnel`.
- The fallback of `UdpSocket` (`tunnel/lan_address.go:74`) always fails, so the log
  line about going on without the special address is never reached:
  `UdpFailsByFamilyOrSystem`.
- After a step back of the clock the age of the last pong wraps
  (`tunnel/simples_tunnel.go:206`), and "timeout waiting for pong" is logged of a
  session with a fresh one: `ExpiryIsTimely`, whose first part is false without its
  second disjunct.

## Proofs

All are proved for every value of the constants that meets the named
assumptions. For each component an inductive invariant is defined, `Init` and
every action are shown to keep it, and the theorems follow from it.

- **AgentLoop** (`AgentLoop_proofs`). `FeedNeverRead` is not inductive: that the
  `RequireResend` branch stays closed depends on the stamps both being 0 and, after
  `RequiresAuth` was false, on the counter having just restarted
  (`sec <= AuthAfter + stall`, in `FeedInv`). `LeakBounded` needs the accounting of
  `LeakInv`: the sockets of a search, one for each address at most, are paid for by
  the `lastControlUpdate` of the reload that opened them, in advance during a
  reload (`Paid`). `StopInv` orders the statements of
  the signal goroutine, `TargetInv` carries the test of `ReloadControlAddr` to the
  store two steps later, `UpdateInv` dates an `Update`, and `RunInv` says when the
  goroutines exist. Proved: `TypeCorrect`, `FeedNeverReadAlways`,
  `LeakBoundedAlways`, `ClosedOnlyWhenStoppingAlways`, `OnlyReloadEndsAgentAlways`
  (from `FeedInv`: the places where `Update` panics are not reached), `TargetsGrow`,
  `KeepAliveOnZeroExpiry`, `InvalidatedStaysDead`, `PongOnlyAtHandshakeAlways`,
  `ExpiredUntilReload`. `TurnEnds` and
  `StopIsFinal` are what a stop rests on: the statements left of a turn
  (`StepsLeft`), and within the receive loop the messages left (`MessagesLeft`), fall
  with every step of the loop, and no turn begins once `KeepRunning` is false.
  `InterruptAdvances` is `InterruptEndsProcess` but for fairness: the three statements
  of the signal goroutine (`SignalLeft`) are moved along by itself only.
- **UdpTunnel** (`UdpTunnel_proofs`), for any number of goroutines and any histories.
  `DetailsInv` says `Details` keeps what it started with; so a datagram that reaches
  the token test came from the channel's address, or from one of the history, and
  only then is the lock of the history check kept (`HoldsDatagram`, `HoldsLock`).
  Proved: `TypeCorrect`, `LockCycleNeedsHistoryAlways`, `NeverStuckWithoutHistory` (with
  the empty history that `AssignUdpTunnel` leaves there is no deadlock),
  `ConfirmFollowsSendAlways`, `NeverConfirmedWithoutChannel`, and `SessionImplemented`,
  with the two unlocked stores of `InvalidateSession` as two steps.
  `NoLockCycleAlways` and `ReadersDrainAlways` are what `SetUdpTunnelReturns` needs but
  for fairness: a waiting writer waits only for goroutines in `SendToken` or for one
  that is `Stuck`, nobody overtakes it, and each step of the others leads to an
  unlock; that the writer announced is the one that waits (`Pending`) is the
  invariant this takes. `DetailsNeverChange` states the cause of finding 1 by itself.
  Whoever repairs finding 1 fills the history, and has to release the read lock of
  `ReceiveFrom` first.
- **ControlSetup** (`ControlSetup_proofs`), for any list of addresses and any counts.
  `Progress` ties the outcome to the place in the code, `OnSocket` keeps the socket.
  Proved: `TypeCorrect` (which bounds the position and the reads, not the attempts),
  `AcceptedSessionIsIssuedAlways`, `PanicNeedsSessionAlways`,
  `ConnectedSocketIsOpenAlways`, `LeakedSocketWasPingedAlways`, and `HandshakeSafety`: the handshake implements
  the safety part of `Handshake`; so what that promises holds of the code
  (`OutcomeSettles`: an outcome is never taken back). `HandshakeDescends` is the
  termination in `ImplementsHandshake` but for fairness. The loops are nested (reads in
  requests in addresses), and a step of an outer loop restarts the counters of the
  inner ones, so the measure is lexicographic: `Phase`, `AddressesLeft`, `BeforeLoop`,
  `RequestsLeft`, `Waiting`, `ReadsLeft`. That its parts never fall below 0 is an
  invariant of its own (`WithinBounds`): it needs the bounds of the counters at the
  very place where each loop tests them.
- **WallClock** (`WallClock_proofs`), for any steps back. A clock that is only set back
  shows at most the real time since the last reload. `Aged` says that the difference
  of the clock and the stamp of a pong is its real age less the steps since; as a
  uint64 it is over the deadline when it is more, or negative (`OverMeans`, from
  `NoWrap` and `Wraps`), and `Timely` follows. `Pinged` keeps the account of the last
  ping: its real age without pauses and waits (`Busy`) exceeds the age the clock shows
  by at most one interval for each step back (`Hidden`), or the difference is
  negative and the next `Update` pings. Proved: `ReloadsAreSpacedAlways`,
  `ExpiryIsTimelyAlways`, `PingsGoOnAlways`.
- **Wire** (`Wire_proofs`), for all values of all fields and a receive buffer of any
  length. What was written is described without recursion: there is a sequence of
  suffixes, each the bytes of one field followed by the next suffix (`Suffixes`).
  The reader is at the beginning of a suffix, all fields before it read as written,
  or the bytes have run out and the fields since are zeroed (`Reading`). That one
  read keeps this rests on a lemma for each kind of field (`NumReadsBack`,
  `SigReadsBack`, `TokenReadsBack`, `AddrReadsBack`), and the envelopes on
  `IdReads` and `RpcReads`: an id that is cut short is 0, which is nobody's id.
  Proved: `WireInvAlways`, `RoundTripAlways`, `CutOnlyZeroesAlways`,
  `PongExpiryIsZeroOrFarAlways`. The proof corrected the panic clause of
  `CutOnlyZeroes`: not only the IPv4 address 0.0.0.1 makes the reader of
  `AgentPortMapping` panic, but every address that begins with these four bytes.
- **TcpTunnel** (`Calls_proofs`), for any number of calls. Streams are numbered
  (`Numbered`), so the one under way is not one handed out; `Accounted` says what is
  open in the middle of a call. Proved: `NoStreamLeaksAlways`.
- **Claim** (`Calls_proofs`), for any number of goroutines. A goroutine draws a code
  only while there is none, so those that may still write one were there before
  the first: codes written and goroutines drawing are together no more than the
  goroutines (`CodeBudget`; `SecretBudget` is the same for secrets). `Consent` follows
  the user's acceptance from the poll to the exchange. Proved:
  `ReplacedOnlyByOverlapAlways`, `ExchangeNeedsConsentAlways`; `SecretHasOneClaim`: the
  secrets that overlapping claims overwrite are different ones (`SecretOwned`);
  `ClaimEnds`: once the user has decided on the code that a claim polls for, every step
  of the claim comes nearer to its return.
- **Tunnels** (`Calls_proofs`), for any number of callers. `Knows` says what an answer
  that has not been acted on yet still tells of the tunnel: a decision is never
  taken back but by a deletion, what is deleted stays so, and a tunnel created for
  the agent of the `Api` is that agent's. Proved:
  `NilMeansDecidedAlways`, `PanicNeedsDeletionAlways`; `RetryMakesAnother`: tunnels are
  no more than calls, and no call takes up the tunnel of another (`UniqueIds`);
  `CreateTunnelEnds`: once the tunnel is decided, every step of the call that made it
  comes nearer to its return.
- **FeedBuffer, FlowBuffer** (`Buffers_proofs`), for every length of buffers, requests
  and datagrams. `FeedInv` bounds the operations whose bytes the buffer can hold by
  the one that replaced it; `RelayInv` says that the last cell, the only one where
  a footer can end, is zero or was written by a call that filled the buffer.
  Proved: `MessageIsStaleAlways`, `FlowIsStaleAlways`, and `BufferGrowsWithReads`: the
  length of the feed buffer is that of the reads since it was replaced
  (`BufferAccounted`), so it grows without bound on a feed that only fails.
- **AddressLookup, LanSocket** (`Local_proofs`), for tables of any length and for any
  hash. `ChosenIsFirst` is what the loop of `LookupWithOverrides` finds; it needs
  that a set of numbers has a least element (`LeastOf`). `Attempts` is what the attempts
  of `UdpSocket` end in, and needs that a preferred port is never 0 (`PortInRange`).
  Proved: `RangeIsNotServedAlways`, `UdpFailsByFamilyOrSystemAlways`,
  `AddressSurvivesRestartAlways`.

Assumptions: `UdpClockAssumption` and `UdpTunnelAssumption` (types and distinct
values), `AgentLoopAssumption` (the agent runs later than `ExpirySoon` after 1970;
the `MaxStall` bound above), `ControlSetupAssumption`, `TcpTunnelAssumption`,
`FeedBufferAssumption`, `FlowBufferAssumption` (lengths are naturals),
`ClaimAssumption`, `TunnelsAssumption` (finitely many goroutines),
`LanSocketAssumption` (ports of 16 bits), `SampleAssumption` (each field has the
number of bytes its Go type has), and `WallClockAssumption` (the intervals keep
their order, and time and intervals together stay below 2^64).

Proved only; no run repeats them: `ClosedOnlyWhenStoppingAlways`,
`PanicNeedsSessionAlways`, `HandshakeSafety`, `NeverConfirmedWithoutChannel`,
`NeverStuckWithoutHistory`; the
theorems that say why something ends (`NoLockCycleAlways`, `ReadersDrainAlways`,
`HandshakeDescends`, `TurnEnds`, `StopIsFinal`, `InterruptAdvances`,
`CreateTunnelEnds`, `ClaimEnds`); what a refinement hands down (`OutcomeSettles`);
and `DetailsNeverChange`, `BufferGrowsWithReads`,
`RetryMakesAnother` and `SecretHasOneClaim`.

Only model-checked: everything under fairness (`SetUdpTunnelReturns`,
`InterruptEndsProcess`, the termination in `ImplementsHandshake`, `CallsReturn`),
`ClientsSpreadEvenly`, and the violations. Liveness and `ENABLED` are out of the
prover's reach: what is proved of these four is the part without fairness, that the
steps still to be taken become fewer; that some step is enabled, and is taken, is left
to TLC. (`Connect`, the third call of `CallsReturn`, has two steps and no loop.)
`ClientsSpreadEvenly` counts the values of a hash of shifts and
exclusive ors, and `LanAddress` uses `Bitwise`.

## Not modelled

- the JSON and HTTP layers of `api/`: a call is its outcome (an answer, an error
  before or after the service acted, or none); statuses and required fields are
  read off `openapi.yaml`;
- the logger, and what is logged;
- helpers nothing calls: the buffer readers and `ReadOption` of `bigint.go`,
  `IntoRequiresAuth`, the setters and validity tests of port types;
- errors of the writers, whose target is memory; `UseSpecialLan`, which only panics;
- datagrams of lengths that are no multiple of a word, and data that looks like a
  footer, in `FlowBuffer`; what stale bytes parse to in `FeedBuffer`;
- the length of the tunnel server's answer to `Connect`: nothing says what it should
  be, and when it comes in pieces the rest is read as client data;
- a tunnel that is moved to another agent while `CreateTunnel` polls, and a system
  without free sockets;
- a clock that is set forward, and a process suspended beyond `MaxStall`.

## Plan

1. *Done:* the core (`UdpClock`, `UdpTunnel`, `AgentLoop`, `Handshake`, `ControlSetup`).
2. *Done:* wire format, buffers, address lookup, claiming, tunnels, LAN sockets, TCP
   tunnel, a clock that is set back; `UdpSession` and its implementation.
3. *Done:* theorems on the newer modules: every invariant and action property that a
   run checks is now proved, but for `ClientsSpreadEvenly`; the absence of lock
   cycles in `UdpTunnel`.
4. *Done:* the safety halves of the liveness properties (`ReadersDrainAlways`,
   `HandshakeDescends`, `InterruptAdvances`, `CreateTunnelEnds`, `ClaimEnds`), and theorems
   for two of the hazards that no run has a property for.
5. Left: `ClientsSpreadEvenly`, which needs a model of the hash without `Bitwise`.

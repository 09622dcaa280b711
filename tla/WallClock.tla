------------------------------ MODULE WallClock ------------------------------
(***************************************************************************)
(* The deadlines of Run (tunnel/runner.go) and Update                      *)
(* (tunnel/simples_tunnel.go) when the wall clock is set back, as by a     *)
(* time server.  Both compare UnixMilli stamps and lose the monotonic      *)
(* reading of time.Now: Update subtracts them as uint64, Run as int64.     *)
(* What else a turn of the loop does is in AgentLoop, whose clock only     *)
(* advances.                                                               *)
(*                                                                         *)
(* Time is in seconds, and the long deadlines are scaled down.  A turn of  *)
(* the loop takes a second, besides the time it waits for the API and the  *)
(* time it sleeps.  A reload that fails ends the process.                  *)
(***************************************************************************)
EXTENDS Integers

CONSTANTS
    PingAfter,     \* 1_000 ms
    PongAfter,     \* 6_000 ms, scaled down
    ReloadAfter,   \* 30_000 ms, scaled down
    AuthPause,     \* 2 seconds
    U64,           \* 2^64, scaled down
    T0,            \* the wall clock at the start of Run
    MaxReal,       \* bound: time that really passes
    MaxSteps       \* bound: how often the clock is set back after a ping

ASSUME WallClockAssumption ==
    /\ {PingAfter, PongAfter, ReloadAfter, AuthPause, U64, T0, MaxReal, MaxSteps} \subseteq Nat
    /\ PingAfter < T0
    /\ T0 + MaxReal + PingAfter < U64 /\ T0 + MaxReal + PongAfter < U64

VARIABLES
    real,                \* time really passed
    wall,                \* time.Now().UnixMilli()
    at,                  \* where the loop is: "run", "reload", "update" or "done"
    expired,             \* ForceEpired
    lastPing, lastPong, lastControlUpdate,    \* stamps of the program
    pingAt, pongAt, reloadAt,                 \* when that really was
    steps,               \* how often the clock was set back since the last ping
    idle,                \* how long the loop waited and slept since the last ping
    back,                \* by how much the clock was set back since the last pong
    reloadGap,           \* real time between the last two reloads
    pongGap, pongBack    \* the real age of the pong and back, when ForceEpired was last set

time == <<real, wall, steps, idle>>
pings == <<lastPing, pingAt>>
pongs == <<expired, lastPong, pongAt, back, pongGap, pongBack>>
reloads == <<lastControlUpdate, reloadAt, reloadGap>>
vars == <<time, at, pings, pongs, reloads>>

Init ==
    /\ real = 0 /\ wall = T0 /\ at = "run" /\ expired = FALSE
    /\ lastPing = 0 /\ lastPong = 0 /\ lastControlUpdate = T0
    /\ pingAt = 0 /\ pongAt = 0 /\ reloadAt = 0
    /\ steps = 0 /\ idle = 0 /\ back = 0
    /\ reloadGap = ReloadAfter + 1 /\ pongGap = PongAfter + 1 /\ pongBack = 0

\* Mutant: a signed difference.
SignedOver(a, b, limit) == a - b > limit

\* uint64 subtraction
Over(a, b, limit) == (a - b) % U64 > limit

\* Mutant: an unsigned difference.
ReloadDueUnsigned == ReloadAfter < (wall - lastControlUpdate) % U64

\* int64 subtraction
ReloadDue == ReloadAfter < wall - lastControlUpdate

\* The top of the loop of Run.
Run ==
    /\ at = "run"
    /\ IF ReloadDue
       THEN /\ at' = "reload"
            /\ lastControlUpdate' = wall
            /\ reloadAt' = real /\ reloadGap' = real - reloadAt
       ELSE at' = "update" /\ UNCHANGED reloads
    /\ UNCHANGED <<time, pings, pongs>>

\* ReloadControlAddr returns: nothing has changed, or a new control channel
\* resets LastPing and is not expired.
ReloadControlAddr ==
    /\ at = "reload"
    /\ at' = "update"
    /\ \/ UNCHANGED <<lastPing, expired>>
       \/ lastPing' = 0 /\ expired' = FALSE
    /\ UNCHANGED <<time, reloads, pingAt, lastPong, pongAt, back, pongGap, pongBack>>

\* The session is expired and Authenticate fails: Update sleeps and returns,
\* without a ping and without a look at the pong.
AuthenticateFails ==
    /\ at = "update" /\ expired
    /\ real + AuthPause <= MaxReal
    /\ at' = "run"
    /\ real' = real + AuthPause /\ wall' = wall + AuthPause /\ idle' = idle + AuthPause
    /\ UNCHANGED <<steps, pings, pongs, reloads>>

SendPing ==
    IF Over(wall, lastPing, PingAfter)
    THEN lastPing' = wall /\ pingAt' = real /\ steps' = 0 /\ idle' = 0
    ELSE UNCHANGED <<pings, steps, idle>>

\* The pong, if one is read, and the clock set back since: a new or the last one.
Pongs == {[stamp |-> wall, at |-> real, back |-> 0],
          [stamp |-> lastPong, at |-> pongAt, back |-> back]}

\* What Update notes of a pong and of a session that has timed out.
NotePong(p, timeout) ==
    /\ pongAt' = p.at /\ back' = p.back
    /\ IF timeout
       THEN lastPong' = 0 /\ expired' = TRUE /\ pongGap' = real - p.at /\ pongBack' = p.back
       ELSE lastPong' = p.stamp /\ UNCHANGED <<expired, pongGap, pongBack>>

\* Mutant: the timeout is that of the ping.
CheckPongEarly ==
    \E p \in Pongs : NotePong(p, p.stamp # 0 /\ Over(wall, p.stamp, PingAfter))

\* Perhaps a pong, and the timeout waiting for one, which sets ForceEpired.
CheckPong ==
    \E p \in Pongs : NotePong(p, p.stamp # 0 /\ Over(wall, p.stamp, PongAfter))

\* The rest of Update, when the session is not expired or Authenticate has
\* succeeded, which leaves ForceEpired alone.
Update ==
    /\ at = "update"
    /\ at' = "done"
    /\ SendPing
    /\ CheckPong
    /\ UNCHANGED <<real, wall, reloads>>

\* A turn of the loop has taken its second.
Turn ==
    /\ at = "done" /\ real < MaxReal
    /\ at' = "run"
    /\ real' = real + 1 /\ wall' = wall + 1
    /\ UNCHANGED <<steps, idle, pings, pongs, reloads>>

\* A second goes by while ReloadControlAddr or Authenticate wait for the API
\* or the control server.  The http.Client has no timeout.
Wait ==
    /\ at = "reload" \/ (at = "update" /\ expired)
    /\ real < MaxReal
    /\ real' = real + 1 /\ wall' = wall + 1 /\ idle' = idle + 1
    /\ UNCHANGED <<at, steps, pings, pongs, reloads>>

\* External: the clock is set back, at any time, but not to the first second
\* of 1970.
StepBack(d) ==
    /\ steps < MaxSteps /\ wall - d > PingAfter
    /\ wall' = wall - d /\ steps' = steps + 1 /\ back' = back + d
    /\ UNCHANGED <<real, at, idle, pings, expired, lastPong, pongAt, pongGap, pongBack, reloads>>

Next ==
    \/ Run \/ ReloadControlAddr \/ AuthenticateFails \/ Update \/ Turn \/ Wait
    \/ \E d \in 1..T0 : StepBack(d)

Spec == Init /\ [][Next]_vars

-----------------------------------------------------------------------------
\* However far and whenever the clock is set back, pings go on: the wrapped
\* difference sends one at once, and a step that stays after the last stamp
\* delays the next one by no more than the interval and a turn.  Only while
\* the loop sleeps, or waits for the API, is there no ping.
PingsGoOn == real - pingAt <= (PingAfter + 1) * (steps + 1) + idle

\* Reloads of the control address, each of which may replace the channel, are
\* really apart by more than the interval.  (The price: after a step back
\* there is none until the clock has caught up.)
ReloadsAreSpaced == reloadGap > ReloadAfter

\* What Update logs when it sets ForceEpired, "timeout waiting for pong": the
\* pong is older than the timeout by as much as the clock was set back since,
\* or, and then a fresh pong expires a working session, the clock was set back
\* beyond the pong.  And no silence goes unnoticed at the end of Update for
\* longer than the timeout and what the clock was set back.
ExpiryIsTimely ==
    /\ pongGap > PongAfter + pongBack \/ pongGap < pongBack
    /\ at = "done" /\ lastPong # 0 => real - pongAt <= PongAfter + back

=============================================================================

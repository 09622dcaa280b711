-------------------------- MODULE AgentLoop_proofs --------------------------
(***************************************************************************)
(* Proofs about AgentLoop, for every choice of the constants that meets    *)
(* the assumptions.  One inductive invariant serves all the theorems: the  *)
(* parts below name what each property needs to know of the goroutines'    *)
(* positions.  The types of the flags and the count of the sockets are     *)
(* proved apart from it.                                                   *)
(***************************************************************************)
EXTENDS AgentLoop, FiniteSetTheorems, TLAPS

USE DEF clock, runner, reload, channel, stamps, session, feed

\* The goroutines start when Run begins to wait.
RunInv ==
    /\ run # "waiting" => loop = "none" /\ sig = "none"
    /\ run = "setup" => controlAddr = NoAddr

\* The order of the three statements of the signal goroutine.
StopInv ==
    /\ sig \in {"close", "exit"} => ~keepRunning
    /\ run = "waiting" /\ ~open => sig = "exit"

\* A session that nobody sent or confirmed since it was made or invalidated
\* has both stamps 0, and when RequiresAuth has been false for it the counter
\* has just restarted.  Without an embedding program this is every session.
FeedInv ==
    /\ InvalidatedSessionStaysDead
    /\ ~touched /\ loop = "resend" => sec <= AuthAfter + stall
    /\ ~Embedder => ~touched /\ lastPong = 0 /\ ~forceExpired

\* A reload goes on only with all the targets it knew.
TargetInv == loop = "connect" => lastTargets \subseteq targets

\* The time an Update works with is that of its own beginning.
UpdateInv ==
    loop \in {"ping", "auth", "resend", "keepalive"} => T0 <= updateNow

\* A deadline that may lie in the future was set by a handshake just now.
PongInv == PongOnlyAtHandshake /\ (deadline => handshake = now)

Inv ==
    /\ DataTypeOK
    /\ RunInv
    /\ StopInv
    /\ FeedInv
    /\ TargetInv
    /\ UpdateInv
    /\ PongInv

-----------------------------------------------------------------------------
\* The flags keep their type in every step.
LEMMA FlagTypeStep == FlagTypeOK /\ [Next]_vars => FlagTypeOK'
<1> SUFFICES ASSUME FlagTypeOK, [Next]_vars PROVE FlagTypeOK'
  OBVIOUS
<1> USE DEF FlagTypeOK
<1>1. CASE SetupFails
  BY <1>1, Zenon DEF SetupFails
<1>2. ASSUME NEW a \in Addr, NEW e \in Expiry, SetupSucceeds(a, e)
      PROVE  FlagTypeOK'
  BY <1>2, Zenon DEF SetupSucceeds, NewChannel
<1>3. CASE Interrupt
  BY <1>3, Zenon DEF Interrupt
<1>4. CASE Stop
  BY <1>4, Zenon DEF Stop
<1>5. CASE CloseSocket
  BY <1>5, Zenon DEF CloseSocket
<1>6. CASE Exit1
  BY <1>6, Zenon DEF Exit1
<1>7. CASE LoopEnds
  BY <1>7, Zenon DEF LoopEnds, Exit2
<1>8. CASE LoopTurns
  BY <1>8, Zenon DEF LoopTurns
<1>9. ASSUME NEW new \in ControlAddresses, GetTargets(new) PROVE FlagTypeOK'
  BY <1>9, Zenon DEF GetTargets, ControlAddresses
<1>10. CASE ReloadFails
  BY <1>10, Zenon DEF ReloadFails, Exit2
<1>11. CASE KeepControlAddr
  BY <1>11, Zenon DEF KeepControlAddr
<1>12. ASSUME NEW a \in Addr, NEW e \in Expiry, UpdateControlAddr(a, e)
      PROVE  FlagTypeOK'
  BY <1>12, Zenon DEF UpdateControlAddr, NewChannel, InvalidateSession
<1>13. CASE SkipAuthenticate
  BY <1>13, Zenon DEF SkipAuthenticate, StartUpdate
<1>14. ASSUME NEW e \in Expiry, Authenticate(e) PROVE FlagTypeOK'
  BY <1>14, Zenon DEF Authenticate, StartUpdate, ExpiredAfterAuthenticate
<1>15. CASE AuthenticateFails
  BY <1>15, Zenon DEF AuthenticateFails
<1>16. CASE AuthenticatePanics
  BY <1>16, Zenon DEF AuthenticatePanics, Exit2
<1>17. CASE SendPing
  BY <1>17, Zenon DEF SendPing
<1>18. CASE CheckAuth
  BY <1>18, Zenon DEF CheckAuth
<1>19. CASE CheckResend
  BY <1>19, Zenon DEF CheckResend
<1>20. CASE SendKeepAlive
  BY <1>20, Zenon DEF SendKeepAlive
<1>21. CASE RecvFails
  BY <1>21, Zenon DEF RecvFails, CountRead, Receiving
<1>22. CASE RecvNewClient
  BY <1>22, Zenon DEF RecvNewClient, Exit2
<1>23. CASE RecvUnauthorized
  BY <1>23, Zenon DEF RecvUnauthorized, Exit2
<1>24. ASSUME NEW supported \in BOOLEAN, RecvUdpChannelDetails(supported)
      PROVE  FlagTypeOK'
  BY <1>24, Zenon DEF RecvUdpChannelDetails, CountRead, CanRead, Receiving
<1>25. ASSUME NEW e \in Expiry, RecvPong(e) PROVE FlagTypeOK'
  BY <1>25, Zenon DEF RecvPong, CountRead, CanRead, Receiving
<1>26. ASSUME NEW e \in Expiry, RecvAgentRegistered(e) PROVE FlagTypeOK'
  BY <1>26, Zenon DEF RecvAgentRegistered, CountRead, CanRead, Receiving
<1>27. CASE RecvOther
  BY <1>27, Zenon DEF RecvOther, CountRead, CanRead, Receiving
<1>28. CASE RecvEnds
  BY <1>28, Zenon DEF RecvEnds
<1>29. CASE CheckPong
  BY <1>29, Zenon DEF CheckPong
<1>30. CASE EmbedderStops
  BY <1>30, Zenon DEF EmbedderStops
<1>31. ASSUME NEW s \in RecentSec, EmbedderSendsToken(s) PROVE FlagTypeOK'
  BY <1>31, Zenon DEF EmbedderSendsToken
<1>32. ASSUME NEW s \in RecentSec, EmbedderConfirms(s) PROVE FlagTypeOK'
  BY <1>32, Zenon DEF EmbedderConfirms
<1>33. CASE Tick
  BY <1>33, Zenon DEF Tick, NextSec
<1>34. CASE UNCHANGED vars
  BY <1>34, Zenon DEF vars
<1> HIDE DEF FlagTypeOK
<1> QED
  BY <1>1, <1>2, <1>3, <1>4, <1>5, <1>6, <1>7, <1>8, <1>9, <1>10, <1>11,
  <1>12, <1>13, <1>14, <1>15, <1>16, <1>17, <1>18, <1>19, <1>20, <1>21, <1>22,
  <1>23, <1>24, <1>25, <1>26, <1>27, <1>28, <1>29, <1>30, <1>31, <1>32, <1>33,
  <1>34
     DEF Next, Start, HandleSignal, LoopStep, Answer, EmbedderStep

\* The invariant holds when Run is called: nothing is set up yet.
LEMMA InvInit == Init => Inv
BY AgentLoopAssumption, UdpClockAssumption
   DEF Init, Inv, DataTypeOK, RunInv, StopInv, FeedInv,
       InvalidatedSessionStaysDead, TargetInv, UpdateInv, PongInv,
        PongOnlyAtHandshake, Sec, Loop, Signal

\* The number of addresses is a natural number, and no set of targets has more.
LEMMA AddrCount ==
    /\ Cardinality(Addr) \in Nat
    /\ \A t \in SUBSET Addr : Cardinality(t) \in Nat /\ Cardinality(t) <= Cardinality(Addr)
BY AgentLoopAssumption, FS_CardinalityType, FS_Subset

\* What a round of connecting leaves open is a natural number.
LEMMA LeftOpenNat == \A t \in SUBSET Addr : LeftOpen(t) \subseteq Nat
BY AddrCount DEF LeftOpen

\* Every step of every goroutine, and of the clock, keeps the invariant.
LEMMA InvStep == Inv /\ [Next]_vars => Inv'
<1> SUFFICES ASSUME Inv, [Next]_vars PROVE Inv'
  OBVIOUS
<1> USE AgentLoopAssumption, UdpClockAssumption
    DEF Inv, DataTypeOK, RunInv, StopInv, FeedInv,
        InvalidatedSessionStaysDead, TargetInv, UpdateInv, PongInv,
        PongOnlyAtHandshake, Sec, Loop, Signal
<1>1. CASE SetupFails
  <2>1. connects' \in Nat
    BY <1>1, LeftOpenNat DEF SetupFails
  <2> QED
    BY <1>1, <2>1 DEF SetupFails
<1>2. ASSUME NEW a \in Addr, NEW e \in Expiry, SetupSucceeds(a, e) PROVE Inv'
  <2>1. connects' \in Nat
    BY <1>2, LeftOpenNat DEF SetupSucceeds
  <2> QED
    BY <1>2, <2>1 DEF SetupSucceeds, NewChannel
<1>3. CASE Interrupt
  BY <1>3 DEF Interrupt
<1>4. CASE Stop
  BY <1>4 DEF Stop
<1>5. CASE CloseSocket
  BY <1>5 DEF CloseSocket
<1>6. CASE Exit1
  BY <1>6 DEF Exit1
<1>7. CASE LoopEnds
  BY <1>7 DEF LoopEnds, Exit2
<1>8. CASE LoopTurns
  BY <1>8 DEF LoopTurns
<1>9. ASSUME NEW new \in ControlAddresses, GetTargets(new) PROVE Inv'
  BY <1>9 DEF GetTargets, ControlAddresses, SkipsReload
<1>10. CASE ReloadFails
  BY <1>10 DEF ReloadFails, Exit2
<1>11. CASE KeepControlAddr
  <2>1. connects' \in Nat
    BY <1>11, LeftOpenNat DEF KeepControlAddr
  <2> QED
    BY <1>11, <2>1 DEF KeepControlAddr
<1>12. ASSUME NEW a \in Addr, NEW e \in Expiry, UpdateControlAddr(a, e)
      PROVE  Inv'
  <2>1. connects' \in Nat
    BY <1>12, LeftOpenNat DEF UpdateControlAddr
  <2> QED
    BY <1>12, <2>1 DEF UpdateControlAddr, NewChannel, InvalidateSession
<1>13. CASE SkipAuthenticate
  BY <1>13 DEF SkipAuthenticate, StartUpdate
<1>14. ASSUME NEW e \in Expiry, Authenticate(e) PROVE Inv'
  BY <1>14 DEF Authenticate, StartUpdate, IsExpired, ExpiredAfterAuthenticate
<1>15. CASE AuthenticateFails
  BY <1>15 DEF AuthenticateFails, IsExpired
<1>16. CASE AuthenticatePanics
  BY <1>16 DEF AuthenticatePanics, Exit2
<1>17. CASE SendPing
  BY <1>17 DEF SendPing
<1>18. CASE CheckAuth
  BY <1>18 DEF CheckAuth, RequiresAuth, Sub32
<1>19. CASE CheckResend
  BY <1>19 DEF CheckResend, RequireResend, Sub32
<1>20. CASE SendKeepAlive
  BY <1>20 DEF SendKeepAlive
<1>21. CASE RecvFails
  BY <1>21 DEF RecvFails, CountRead, Receiving
<1>22. CASE RecvNewClient
  BY <1>22 DEF RecvNewClient, Exit2
<1>23. CASE RecvUnauthorized
  BY <1>23 DEF RecvUnauthorized, Exit2
<1>24. ASSUME NEW supported \in BOOLEAN, RecvUdpChannelDetails(supported)
      PROVE  Inv'
  BY <1>24 DEF RecvUdpChannelDetails, CountRead, CanRead, Receiving
<1>25. ASSUME NEW e \in Expiry, RecvPong(e) PROVE Inv'
  BY <1>25 DEF RecvPong, CountRead, CanRead, Receiving
<1>26. ASSUME NEW e \in Expiry, RecvAgentRegistered(e) PROVE Inv'
  BY <1>26 DEF RecvAgentRegistered, CountRead, CanRead, Receiving
<1>27. CASE RecvOther
  BY <1>27 DEF RecvOther, CountRead, CanRead, Receiving
<1>28. CASE RecvEnds
  BY <1>28 DEF RecvEnds
<1>29. CASE CheckPong
  BY <1>29 DEF CheckPong
<1>30. CASE EmbedderStops
  BY <1>30 DEF EmbedderStops
<1>31. ASSUME NEW s \in RecentSec, EmbedderSendsToken(s) PROVE Inv'
  BY <1>31 DEF EmbedderSendsToken, RecentSec
<1>32. ASSUME NEW s \in RecentSec, EmbedderConfirms(s) PROVE Inv'
  BY <1>32 DEF EmbedderConfirms, RecentSec
<1>33. CASE Tick
  BY <1>33 DEF Tick, NextSec
<1>34. CASE UNCHANGED vars
  BY <1>34 DEF vars
<1> HIDE DEF Inv
<1> QED
  BY <1>1, <1>2, <1>3, <1>4, <1>5, <1>6, <1>7, <1>8, <1>9, <1>10, <1>11,
  <1>12, <1>13, <1>14, <1>15, <1>16, <1>17, <1>18, <1>19, <1>20, <1>21, <1>22,
  <1>23, <1>24, <1>25, <1>26, <1>27, <1>28, <1>29, <1>30, <1>31, <1>32, <1>33,
  <1>34
     DEF Next, Start, HandleSignal, LoopStep, Answer, EmbedderStep

\* The invariant holds in every state of every run of the agent.
LEMMA InvAlways == Spec => []Inv
BY InvInit, InvStep, PTL DEF Spec

-----------------------------------------------------------------------------
\* Every variable keeps its type: no stamp lies in the future, the counters
\* of a receive loop stay within 30 messages and 10 timeouts, and the UDP
\* stamps stay values of now_sec().
THEOREM TypeCorrect == Spec => []TypeOK
<1>1. Init => FlagTypeOK
  BY Zenon DEF Init, FlagTypeOK
<1>2. Spec => []FlagTypeOK
  BY <1>1, FlagTypeStep, PTL DEF Spec
<1>3. Inv => DataTypeOK
  BY DEF Inv
<1> QED
  BY <1>2, <1>3, InvAlways, PTL DEF TypeOK

\* The agent as shipped never reads its control feed: Update gets to its
\* receive loop only when RequireResend holds and RequiresAuth does not, and
\* with a session that was never sent the one excludes the other.
THEOREM FeedNeverReadAlways == Spec => []FeedNeverRead
<1>1. Inv => FeedNeverRead
  BY DEF Inv, FeedInv, InvalidatedSessionStaysDead, FeedNeverRead
<1> QED
  BY <1>1, InvAlways, PTL

\* After a change of the control address the agent never revives its UDP
\* session: the same argument, from the stores of InvalidateSession on.
THEOREM InvalidatedStaysDead == Spec => []InvalidatedSessionStaysDead
<1>1. Inv => InvalidatedSessionStaysDead
  BY DEF Inv, FeedInv
<1> QED
  BY <1>1, InvAlways, PTL

\* A pong is heard only in the second of a handshake: no step but a handshake
\* makes the deadline good, and the next tick of the clock ends it.
THEOREM PongOnlyAtHandshakeAlways == Spec => []PongOnlyAtHandshake
<1>1. Inv => PongOnlyAtHandshake
  BY DEF Inv, PongInv
<1> QED
  BY <1>1, InvAlways, PTL

\* The rounds of connecting that the time up to the last reload allows: one
\* for Setup and one for each ReloadAfter, the reload under way not counted.
Paid ==
    (lastControlUpdate - T0)
    + (IF loop \in {"reload", "connect"} THEN 0 ELSE ReloadAfter + 1)

\* Every round leaves at most one socket an address.
LeakInv ==
    /\ run = "setup" => connects = 0
    /\ run = "returned" => connects <= Cardinality(Addr)
    /\ run = "waiting" =>
        T0 <= lastControlUpdate /\ connects * (ReloadAfter + 1) <= Cardinality(Addr) * Paid

\* Products of natural numbers grow with their factors.
LEMMA ProductGrows ==
    ASSUME NEW n \in Nat, NEW a \in Nat, NEW b \in Nat, a <= b PROVE n * a <= n * b
OBVIOUS

\* Another round of at most n sockets, each for r of time.
LEMMA RoundAdds ==
    ASSUME NEW n \in Nat, NEW r \in Nat, NEW c \in Nat, NEW d \in Nat, NEW k \in Nat,
           c * r <= n * d, k <= n
    PROVE  (c + k) * r <= n * (d + r)
<1>1. k * r <= n * r
  <2>1. r * k <= r * n
    BY ProductGrows
  <2> QED
    BY <2>1
<1>2. (c + k) * r = c * r + k * r /\ n * (d + r) = n * d + n * r
  OBVIOUS
<1>3. c * r \in Nat /\ k * r \in Nat /\ n * d \in Nat /\ n * r \in Nat
  OBVIOUS
<1> QED
  BY <1>1, <1>2, <1>3

\* Setup and each reload pay for the sockets they leave.
LEMMA LeakStep == Inv /\ LeakInv /\ [Next]_vars => LeakInv'
<1> SUFFICES ASSUME Inv, LeakInv, [Next]_vars PROVE LeakInv'
  OBVIOUS
<1> DEFINE N == Cardinality(Addr)
           R == ReloadAfter + 1
<1>1. /\ N \in Nat /\ R \in Nat /\ T0 \in Nat /\ now \in Nat /\ T0 <= now
      /\ connects \in Nat /\ lastControlUpdate \in Nat
      /\ run \in {"setup", "waiting", "returned"} /\ targets \subseteq Addr
      /\ run # "waiting" => loop = "none"
  BY AddrCount, AgentLoopAssumption DEF Inv, DataTypeOK, RunInv
<1>2. CASE SetupFails
  BY <1>1, <1>2 DEF SetupFails, LeakInv, LeftOpen
<1>3. ASSUME NEW a \in Addr, NEW e \in Expiry, SetupSucceeds(a, e) PROVE LeakInv'
  <2>1. /\ run' = "waiting" /\ lastControlUpdate' = now /\ loop' = "top"
        /\ connects' \in Nat /\ connects' <= N
    BY <1>1, <1>3 DEF SetupSucceeds, LeftOpen
  <2>2. connects' * R <= N * R
    <3>1. R * connects' <= R * N
      BY <1>1, <2>1, ProductGrows
    <3> QED
      BY <1>1, <2>1, <3>1
  <2>3. N * R <= N * ((now - T0) + R)
    BY <1>1, ProductGrows
  <2>4. Paid' = (now - T0) + R
    BY <2>1 DEF Paid
  <2>5. connects' * R \in Nat /\ N * R \in Nat /\ N * ((now - T0) + R) \in Nat
    BY <1>1, <2>1
  <2>6. connects' * R <= N * ((now - T0) + R)
    BY <2>2, <2>3, <2>5
  <2> QED
    BY <1>1, <2>1, <2>4, <2>6 DEF LeakInv
<1>4. ASSUME LoopTurns, run = "waiting" PROVE LeakInv'
  <2>1. /\ run' = "waiting" /\ connects' = connects /\ T0 <= lastControlUpdate
        /\ connects * R <= N * Paid
    BY <1>4 DEF LoopTurns, LeakInv
  <2>2. Paid = (lastControlUpdate - T0) + R
    BY <1>4 DEF LoopTurns, Paid
  <2>3. CASE ReloadAfter < now - lastControlUpdate
    <3>1. lastControlUpdate' = now /\ loop' = "reload"
      BY <1>4, <2>3 DEF LoopTurns
    <3>2. Paid' = now - T0
      BY <1>1, <3>1 DEF Paid
    <3>3. Paid \in Nat /\ Paid' \in Nat /\ Paid <= Paid'
      BY <1>1, <2>1, <2>2, <2>3, <3>2, AgentLoopAssumption
    <3>4. N * Paid <= N * Paid'
      BY <1>1, <3>3, ProductGrows
    <3>5. connects * R \in Nat /\ N * Paid \in Nat /\ N * Paid' \in Nat
      BY <1>1, <3>3
    <3>6. connects' * R <= N * Paid'
      BY <2>1, <3>4, <3>5
    <3> QED
      BY <1>1, <2>1, <3>1, <3>6 DEF LeakInv
  <2>4. CASE ~(ReloadAfter < now - lastControlUpdate)
    <3>1. lastControlUpdate' = lastControlUpdate /\ loop' = "update"
      BY <1>4, <2>4 DEF LoopTurns
    <3>2. Paid' = Paid
      BY <2>2, <3>1 DEF Paid
    <3> QED
      BY <2>1, <3>1, <3>2 DEF LeakInv
  <2> QED
    BY <2>3, <2>4
<1>5. ASSUME loop = "connect", loop' = "update", run' = run,
             lastControlUpdate' = lastControlUpdate,
             \E n \in LeftOpen(targets) : connects' = connects + n
      PROVE  LeakInv'
  <2>1. run = "waiting"
    BY <1>1, <1>5
  <2>2. PICK n \in LeftOpen(targets) : connects' = connects + n
    BY <1>5
  <2>3. n \in Nat /\ n <= N
    <3>1. Cardinality(targets) \in Nat /\ Cardinality(targets) <= N
      BY <1>1, AddrCount
    <3> QED
      BY <1>1, <2>2, <3>1 DEF LeftOpen
  <2>4. Paid = lastControlUpdate - T0 /\ Paid' = (lastControlUpdate - T0) + R
    BY <1>1, <1>5 DEF Paid
  <2>5. T0 <= lastControlUpdate /\ connects * R <= N * (lastControlUpdate - T0)
    BY <2>1, <2>4 DEF LeakInv
  <2>6. lastControlUpdate - T0 \in Nat
    BY <1>1, <2>5
  <2> HIDE DEF N, R
  <2>7. (connects + n) * R <= N * ((lastControlUpdate - T0) + R)
    BY <1>1, <2>3, <2>5, <2>6, RoundAdds
  <2> QED
    BY <1>5, <2>1, <2>2, <2>4, <2>5, <2>7 DEF LeakInv, N, R
<1>6. CASE KeepControlAddr
  BY <1>5, <1>6 DEF KeepControlAddr
<1>7. ASSUME NEW a \in Addr, NEW e \in Expiry, UpdateControlAddr(a, e) PROVE LeakInv'
  BY <1>5, <1>7 DEF UpdateControlAddr
<1>8. ASSUME UNCHANGED <<connects, lastControlUpdate, run>>,
             loop' \in {"reload", "connect"} => loop \in {"reload", "connect"}
      PROVE  LeakInv'
  <2>1. CASE run # "waiting"
    BY <1>8, <2>1 DEF LeakInv
  <2>2. CASE run = "waiting"
    <3>1. T0 <= lastControlUpdate /\ connects * R <= N * Paid
      BY <2>2 DEF LeakInv
    <3>2. Paid \in Nat /\ Paid' \in Nat /\ Paid <= Paid'
      BY <1>1, <1>8, <3>1 DEF Paid
    <3>3. N * Paid <= N * Paid'
      BY <1>1, <3>2, ProductGrows
    <3>4. connects * R \in Nat /\ N * Paid \in Nat /\ N * Paid' \in Nat
      BY <1>1, <3>2
    <3>5. connects' * R <= N * Paid'
      BY <1>8, <3>1, <3>3, <3>4
    <3> QED
      BY <1>8, <2>2, <3>1, <3>5 DEF LeakInv
  <2> QED
    BY <2>1, <2>2
<1>9. \/ SetupFails \/ (\E a \in Addr, e \in Expiry : SetupSucceeds(a, e))
      \/ LoopTurns /\ run = "waiting"
      \/ KeepControlAddr \/ (\E a \in Addr, e \in Expiry : UpdateControlAddr(a, e))
      \/ /\ UNCHANGED <<connects, lastControlUpdate, run>>
         /\ loop' \in {"reload", "connect"} => loop \in {"reload", "connect"}
  <2>1. LoopTurns => run = "waiting"
    BY <1>1 DEF LoopTurns
  <2> QED
    BY <2>1
       DEF Next, Start, HandleSignal, LoopStep, Answer, EmbedderStep, vars,
           Interrupt, Stop, CloseSocket, Exit1, Exit2, LoopEnds, GetTargets,
           ReloadFails, SkipAuthenticate, Authenticate, StartUpdate,
           AuthenticateFails, AuthenticatePanics, SendPing, CheckAuth,
           CheckResend, SendKeepAlive, RecvFails, RecvNewClient, RecvUnauthorized,
           RecvUdpChannelDetails, RecvPong, RecvAgentRegistered, RecvOther,
           RecvEnds, CheckPong, EmbedderStops, EmbedderSendsToken,
           EmbedderConfirms, Tick
<1> QED
  BY <1>2, <1>3, <1>4, <1>6, <1>7, <1>8, <1>9

\* The sockets left open are bounded by the addresses and the time the agent
\* has run: one an address for Setup and for each ReloadAfter.
THEOREM LeakBoundedAlways == Spec => []LeakBounded
<1>1. Init => LeakInv
  BY DEF Init, LeakInv
<1>2. Inv /\ LeakInv => LeakBounded
  <2> SUFFICES ASSUME Inv, LeakInv PROVE LeakBounded
    OBVIOUS
  <2> DEFINE N == Cardinality(Addr)
             R == ReloadAfter + 1
             Time == (now - T0) + R
  <2>1. /\ N \in Nat /\ R \in Nat /\ Time \in Nat /\ R <= Time /\ connects \in Nat
        /\ T0 \in Nat /\ now \in Nat
        /\ lastControlUpdate \in Nat /\ lastControlUpdate <= now
        /\ run \in {"setup", "waiting", "returned"}
    BY AddrCount, AgentLoopAssumption DEF Inv, DataTypeOK
  <2>2. CASE run = "waiting"
    <3>1. T0 <= lastControlUpdate /\ connects * R <= N * Paid
      BY <2>2 DEF LeakInv
    <3>2. Paid \in Nat /\ Paid <= Time
      BY <2>1, <3>1 DEF Paid
    <3>3. N * Paid <= N * Time
      BY <2>1, <3>2, ProductGrows
    <3>4. connects * R \in Nat /\ N * Paid \in Nat /\ N * Time \in Nat
      BY <2>1, <3>2
    <3>5. connects * R <= N * Time
      BY <3>1, <3>3, <3>4
    <3>6. Time = (now - T0) + ReloadAfter + 1
      BY <2>1, AgentLoopAssumption
    <3> QED
      BY <3>5, <3>6 DEF LeakBounded
  <2>3. CASE run # "waiting"
    <3>1. connects <= N
      BY <2>1, <2>3 DEF LeakInv
    <3>2. R * connects <= R * N /\ N * R <= N * Time
      BY <2>1, <3>1, ProductGrows
    <3>3. connects * R <= N * R
      BY <2>1, <3>2
    <3>4. connects * R \in Nat /\ N * R \in Nat /\ N * Time \in Nat
      BY <2>1
    <3>5. connects * R <= N * Time
      BY <3>2, <3>3, <3>4
    <3>6. Time = (now - T0) + ReloadAfter + 1
      BY <2>1, AgentLoopAssumption
    <3> QED
      BY <3>5, <3>6 DEF LeakBounded
  <2> QED
    BY <2>2, <2>3
<1> QED
  BY <1>1, <1>2, LeakStep, InvAlways, PTL DEF Spec

\* The loop goroutine sees the socket of its channel closed only after the
\* signal goroutine has told it to stop.
THEOREM ClosedOnlyWhenStoppingAlways == Spec => []ClosedOnlyWhenStopping
<1>1. Inv => ClosedOnlyWhenStopping
  BY DEF Inv, StopInv, ClosedOnlyWhenStopping
<1> QED
  BY <1>1, InvAlways, PTL

\* Only a failed reload ends an agent that nobody stops: the other ends of the
\* loop lie behind the feed, which such an agent never reads, or behind the
\* expiry of a session, which never comes.
THEOREM OnlyReloadEndsAgentAlways == Spec => []OnlyReloadEndsAgent
<1>1. Init => OnlyReloadEndsAgent
  BY DEF Init, OnlyReloadEndsAgent
<1>2. Inv /\ OnlyReloadEndsAgent /\ [Next]_vars => OnlyReloadEndsAgent'
  <2> SUFFICES ASSUME Inv, OnlyReloadEndsAgent, [Next]_vars, ~Embedder
               PROVE  OnlyReloadEndsAgent'
    BY DEF OnlyReloadEndsAgent
  <2>1. loop \notin {"keepalive", "recv"} /\ ~forceExpired
    BY DEF Inv, FeedInv, InvalidatedSessionStaysDead
  <2>2. CASE LoopEnds \/ ReloadFails
    BY <2>2 DEF LoopEnds, ReloadFails, Exit2, OnlyReloadEndsAgent
  <2>3. ~(AuthenticatePanics \/ RecvNewClient \/ RecvUnauthorized)
    BY <2>1 DEF AuthenticatePanics, IsExpired, RecvNewClient, RecvUnauthorized, CanRead,
                Receiving
  <2>4. CASE UNCHANGED vars
    BY <2>4 DEF vars, OnlyReloadEndsAgent
  <2>5. ASSUME Next, ~(LoopEnds \/ ReloadFails) PROVE exit' # "loop"
    BY <2>3, <2>5
       DEF Next, Start, HandleSignal, LoopStep, Answer, EmbedderStep,
           SetupFails, SetupSucceeds, Interrupt, Stop, CloseSocket,
           Exit1, LoopTurns, GetTargets,
           KeepControlAddr, UpdateControlAddr, SkipAuthenticate, Authenticate,
           AuthenticateFails, SendPing, CheckAuth,
           CheckResend, SendKeepAlive, RecvFails,
           RecvUdpChannelDetails, RecvPong, RecvAgentRegistered, RecvOther,
           RecvEnds, CheckPong, EmbedderStops, EmbedderSendsToken,
           EmbedderConfirms, Tick
  <2> QED
    BY <2>2, <2>4, <2>5 DEF OnlyReloadEndsAgent
<1> QED
  BY <1>1, <1>2, InvAlways, PTL DEF Spec

\* Only the two ends of a reload store targets, and a reload that lost one
\* of the old targets does not get there.
THEOREM TargetsGrow == Spec => TargetsOnlyGrow
<1>1. ASSUME Inv, [Next]_vars PROVE [lastTargets \subseteq lastTargets']_vars
  <2>1. CASE KeepControlAddr
    BY <1>1, <2>1 DEF Inv, TargetInv, KeepControlAddr
  <2>2. ASSUME NEW a \in Addr, NEW e \in Expiry, UpdateControlAddr(a, e)
        PROVE  lastTargets \subseteq lastTargets'
    BY <1>1, <2>2 DEF Inv, TargetInv, UpdateControlAddr
  <2>3. KeepControlAddr \/ (\E a \in Addr, e \in Expiry : UpdateControlAddr(a, e))
        \/ UNCHANGED lastTargets
    BY <1>1
       DEF Next, Start, HandleSignal, LoopStep, Answer, EmbedderStep,
           vars, SetupFails, SetupSucceeds, Interrupt, Stop, CloseSocket,
           Exit1, LoopEnds, LoopTurns, GetTargets, ReloadFails,
           UpdateControlAddr, SkipAuthenticate, Authenticate,
           AuthenticateFails, AuthenticatePanics, SendPing, CheckAuth,
           CheckResend, SendKeepAlive, RecvFails, RecvNewClient,
           RecvUnauthorized, RecvUdpChannelDetails, RecvPong,
           RecvAgentRegistered, RecvOther, RecvEnds, CheckPong, EmbedderStops,
           EmbedderSendsToken, EmbedderConfirms, Tick, Exit2
  <2> QED
    BY <2>1, <2>2, <2>3
<1> QED
  BY <1>1, InvAlways, PTL DEF Spec, TargetsOnlyGrow

\* ForceEpired is cleared only together with a new control address: by the
\* first Setup, before which nothing is expired, and by UpdateControlAddr.
THEOREM ExpiredUntilReload == Spec => ExpiredUntilNewAddress
<1>1. ASSUME Inv, [Next]_vars
      PROVE  [forceExpired /\ ~forceExpired' => controlAddr' # controlAddr]_vars
  <2>1. ASSUME NEW a \in Addr, NEW e \in Expiry, UpdateControlAddr(a, e)
        PROVE  controlAddr' # controlAddr
    BY <2>1 DEF UpdateControlAddr, NewChannel
  <2>2. ASSUME NEW a \in Addr, NEW e \in Expiry, SetupSucceeds(a, e)
        PROVE  controlAddr' # controlAddr
    BY <1>1, <2>2, AgentLoopAssumption
       DEF SetupSucceeds, NewChannel, Inv, RunInv
  <2>3. \/ \E a \in Addr, e \in Expiry : UpdateControlAddr(a, e)
        \/ \E a \in Addr, e \in Expiry : SetupSucceeds(a, e)
        \/ UNCHANGED forceExpired
        \/ forceExpired'
    BY <1>1
       DEF Next, Start, HandleSignal, LoopStep, Answer, EmbedderStep,
           vars, SetupFails, Interrupt, Stop, CloseSocket,
           Exit1, LoopEnds, LoopTurns, GetTargets, ReloadFails,
           KeepControlAddr, SkipAuthenticate, Authenticate,
           ExpiredAfterAuthenticate, AuthenticateFails, AuthenticatePanics,
           SendPing, CheckAuth, CheckResend, SendKeepAlive, RecvFails,
           RecvNewClient, RecvUnauthorized, RecvUdpChannelDetails, RecvPong,
           RecvAgentRegistered, RecvOther, RecvEnds, CheckPong, EmbedderStops,
           EmbedderSendsToken, EmbedderConfirms, Tick, Exit2
  <2> QED
    BY <2>1, <2>2, <2>3
<1> QED
  BY <1>1, InvAlways, PTL DEF Spec, ExpiredUntilNewAddress

\* KeepAlive is sent in one place, with the time of an Update that is later
\* than any expiry that counts as soon: the smaller of the two is soon only
\* when the expiry is.
THEOREM KeepAliveOnZeroExpiry == Spec => KeepAliveNeedsZeroExpiry
<1>1. ASSUME Inv, [Next]_vars
      PROVE  [lastKeepAlive' \notin {lastKeepAlive, 0} => expiresAt < ExpirySoon]_vars
  <2>1. CASE SendKeepAlive
    BY <1>1, <2>1, AgentLoopAssumption
       DEF Inv, DataTypeOK, UpdateInv, SendKeepAlive, TimeTillExpire
  <2>2. SendKeepAlive \/ UNCHANGED lastKeepAlive \/ lastKeepAlive' = 0
    BY <1>1
       DEF Next, Start, HandleSignal, LoopStep, Answer, EmbedderStep,
           vars, SetupFails, SetupSucceeds, Interrupt, Stop, CloseSocket,
           Exit1, LoopEnds, LoopTurns, GetTargets, ReloadFails,
           KeepControlAddr, UpdateControlAddr, SkipAuthenticate, Authenticate,
           AuthenticateFails, AuthenticatePanics, SendPing, CheckAuth,
           CheckResend, RecvFails, RecvNewClient, RecvUnauthorized,
           RecvUdpChannelDetails, RecvPong, RecvAgentRegistered, RecvOther,
           RecvEnds, CheckPong, EmbedderStops, EmbedderSendsToken,
           EmbedderConfirms, Tick, Exit2
  <2> QED
    BY <2>1, <2>2
<1> QED
  BY <1>1, InvAlways, PTL DEF Spec, KeepAliveNeedsZeroExpiry

-----------------------------------------------------------------------------
(* What the liveness of the agent rests on: measures that each goroutine's  *)
(* own steps make smaller and no other goroutine's step makes larger.       *)

\* The statements left of a turn of the loop: ReloadControlAddr, Update.
StepsLeft ==
    CASE loop = "reload" -> 9
      [] loop = "connect" -> 8
      [] loop = "update" -> 7
      [] loop = "ping" -> 6
      [] loop = "auth" -> 5
      [] loop = "resend" -> 4
      [] loop = "keepalive" -> 3
      [] loop = "recv" -> 2
      [] loop = "pong" -> 1
      [] OTHER -> 0

MessagesLeft == RecvMax - iter

TurnDescends ==
    \/ StepsLeft' < StepsLeft
    \/ StepsLeft' = StepsLeft /\ MessagesLeft' < MessagesLeft

\* A step of the loop goroutine brings the turn nearer to its end, or ends
\* the process; a step of anyone else leaves the turn where it is.
TurnStep ==
    IF LoopStep \/ Answer THEN TurnDescends \/ exit' # "running"
    ELSE UNCHANGED <<loop, iter>>

\* Within a turn no step of the loop goes back.
LEMMA LoopDescends ==
    ASSUME Inv, loop \notin {"none", "top"}, LoopStep \/ Answer
    PROVE  TurnDescends \/ exit' # "running"
<1> USE AgentLoopAssumption DEF Inv, DataTypeOK, TurnDescends, StepsLeft, MessagesLeft
<1>1. CASE LoopEnds \/ ReloadFails \/ AuthenticatePanics \/ RecvNewClient \/ RecvUnauthorized
  BY <1>1
     DEF LoopEnds, ReloadFails, AuthenticatePanics, RecvNewClient, RecvUnauthorized,
         Exit2
<1>2. CASE LoopTurns
  BY <1>2 DEF LoopTurns
<1>3. CASE SkipAuthenticate \/ AuthenticateFails \/ (\E e \in Expiry : Authenticate(e))
  BY <1>3 DEF SkipAuthenticate, AuthenticateFails, Authenticate, StartUpdate
<1>4. CASE SendPing \/ CheckAuth \/ CheckResend \/ SendKeepAlive \/ CheckPong
  BY <1>4 DEF SendPing, CheckAuth, CheckResend, SendKeepAlive, CheckPong
<1>5. CASE KeepControlAddr \/ (\E new \in ControlAddresses : GetTargets(new))
  BY <1>5 DEF KeepControlAddr, GetTargets
<1>6. ASSUME NEW a \in Addr, NEW e \in Expiry, UpdateControlAddr(a, e) PROVE TurnDescends
  BY <1>6 DEF UpdateControlAddr
<1>7. CASE RecvEnds
  BY <1>7 DEF RecvEnds
<1>8. ASSUME iter' = iter + 1, loop' = loop PROVE TurnDescends
  BY <1>8
<1>9. CASE RecvFails \/ RecvOther
            \/ (\E e \in Expiry : RecvPong(e) \/ RecvAgentRegistered(e))
            \/ (\E supported \in BOOLEAN : RecvUdpChannelDetails(supported))
  BY <1>8, <1>9, Zenon
     DEF RecvFails, RecvOther, RecvPong, RecvAgentRegistered, RecvUdpChannelDetails, CountRead
<1> HIDE DEF TurnDescends, Inv
<1> QED
  BY <1>1, <1>2, <1>3, <1>4, <1>5, <1>6, <1>7, <1>9, Zenon DEF LoopStep, Answer

\* The others do not touch the turn: Run has made its loop by then.
LEMMA TurnStepAlways ==
    Inv /\ [Next]_vars => [loop \notin {"none", "top"} => TurnStep]_vars
<1> SUFFICES ASSUME Inv, Next, loop \notin {"none", "top"} PROVE TurnStep
  OBVIOUS
<1>1. CASE LoopStep \/ Answer
  BY <1>1, LoopDescends DEF TurnStep
<1>2. ASSUME ~(LoopStep \/ Answer) PROVE UNCHANGED <<loop, iter>>
  <2>1. ~Start
    BY DEF Start, SetupFails, SetupSucceeds, Inv, RunInv
  <2>2. Interrupt \/ HandleSignal \/ EmbedderStep \/ Tick
    BY <1>2, <2>1 DEF Next
  <2> QED
    BY <2>2, Zenon
       DEF Interrupt, HandleSignal, Stop, CloseSocket, Exit1, EmbedderStep, EmbedderStops,
           EmbedderSendsToken, EmbedderConfirms, Tick
<1> QED
  BY <1>1, <1>2 DEF TurnStep

\* A turn of the loop ends: the statements left, and in the receive loop the
\* messages left, are natural numbers that every step of the loop makes
\* smaller, unless it ends the process, and that no interrupt, no call of
\* the embedding program and no tick of the clock makes larger.
THEOREM TurnEnds ==
    Spec => /\ [](StepsLeft \in Nat /\ MessagesLeft \in Nat)
            /\ [][loop \notin {"none", "top"} => TurnStep]_vars
<1>1. Inv => StepsLeft \in Nat /\ MessagesLeft \in Nat
  BY AgentLoopAssumption DEF Inv, DataTypeOK, StepsLeft, MessagesLeft
<1> QED
  BY <1>1, TurnStepAlways, InvAlways, PTL DEF Spec

\* A stop is final.  Neither goroutine sets KeepRunning again, and the loop
\* starts no other turn: with TurnEnds, it ends after the turn under way.
THEOREM StopIsFinal ==
    Spec => [][~keepRunning => ~keepRunning' /\ (loop = "top" => UNCHANGED <<loop, reload>>)]_vars
<1>1. Inv /\ [Next]_vars =>
        [~keepRunning => ~keepRunning' /\ (loop = "top" => UNCHANGED <<loop, reload>>)]_vars
  <2> SUFFICES ASSUME Inv, [Next]_vars, ~keepRunning
               PROVE  ~keepRunning' /\ (loop = "top" => UNCHANGED <<loop, reload>>)
    OBVIOUS
  <2>1. ~keepRunning'
    BY DEF Next, Start, HandleSignal, LoopStep, Answer, EmbedderStep,
           vars, SetupFails, SetupSucceeds, Interrupt, Stop, CloseSocket,
           Exit1, LoopEnds, LoopTurns, GetTargets, ReloadFails,
           KeepControlAddr, UpdateControlAddr, SkipAuthenticate, Authenticate,
           AuthenticateFails, AuthenticatePanics, SendPing, CheckAuth,
           CheckResend, SendKeepAlive, RecvFails, RecvNewClient, RecvUnauthorized,
           RecvUdpChannelDetails, RecvPong, RecvAgentRegistered, RecvOther,
           RecvEnds, CheckPong, EmbedderStops, EmbedderSendsToken,
           EmbedderConfirms, Tick, Exit2
  <2>2. ASSUME loop = "top" PROVE UNCHANGED <<loop, reload>>
    BY <2>2
       DEF Next, Start, HandleSignal, LoopStep, Answer, EmbedderStep, Inv, RunInv,
           vars, SetupFails, SetupSucceeds, Interrupt, Stop, CloseSocket,
           Exit1, LoopEnds, LoopTurns, GetTargets, ReloadFails,
           KeepControlAddr, UpdateControlAddr, SkipAuthenticate, Authenticate,
           AuthenticateFails, AuthenticatePanics, SendPing, CheckAuth,
           CheckResend, SendKeepAlive, RecvFails, RecvNewClient, RecvUnauthorized,
           RecvUdpChannelDetails, RecvPong, RecvAgentRegistered, RecvOther,
           RecvEnds, CheckPong, EmbedderStops, EmbedderSendsToken,
           EmbedderConfirms, Tick, Exit2, CanRead, Receiving
  <2> QED
    BY <2>1, <2>2
<1> QED
  BY <1>1, InvAlways, PTL DEF Spec

\* The statements left of the goroutine that handles os.Interrupt.
SignalLeft ==
    IF exit # "running" THEN 0
    ELSE IF sig = "exit" THEN 1
    ELSE IF sig = "close" THEN 2
    ELSE IF sig = "stop" THEN 3
    ELSE 4

Interrupted == sig \in {"stop", "close", "exit"}

\* The safety half of InterruptEndsProcess.  From the interrupt on, Run has
\* not returned, so that nothing keeps the goroutine from its next
\* statement; only it moves along them, in their order, and when it has done
\* the last the process has ended.
THEOREM InterruptAdvances ==
    Spec => /\ [](Interrupted => run = "waiting")
            /\ [][Interrupted =>
                    /\ Interrupted'
                    /\ IF HandleSignal THEN SignalLeft' = SignalLeft - 1
                                       ELSE UNCHANGED sig /\ exit' \in {exit, "loop"}]_vars
<1>1. Inv => (Interrupted => run = "waiting")
  BY DEF Inv, RunInv, Interrupted
<1>2. Inv /\ [Next]_vars =>
        [Interrupted =>
            /\ Interrupted'
            /\ IF HandleSignal THEN SignalLeft' = SignalLeft - 1
                               ELSE UNCHANGED sig /\ exit' \in {exit, "loop"}]_vars
  <2> SUFFICES ASSUME Inv, Next, Interrupted
               PROVE  /\ Interrupted'
                      /\ IF HandleSignal THEN SignalLeft' = SignalLeft - 1
                                         ELSE UNCHANGED sig /\ exit' \in {exit, "loop"}
    OBVIOUS
  <2>1. CASE HandleSignal
    <3>1. exit = "running"
      BY DEF Next
    <3>2. ASSUME Stop PROVE Interrupted' /\ SignalLeft' = SignalLeft - 1
      BY <3>1, <3>2 DEF Stop, SignalLeft, Interrupted
    <3>3. ASSUME CloseSocket PROVE Interrupted' /\ SignalLeft' = SignalLeft - 1
      BY <3>1, <3>3 DEF CloseSocket, SignalLeft, Interrupted
    <3>4. ASSUME Exit1 PROVE Interrupted' /\ SignalLeft' = SignalLeft - 1
      BY <3>1, <3>4 DEF Exit1, SignalLeft, Interrupted
    <3> QED
      BY <2>1, <3>2, <3>3, <3>4 DEF HandleSignal
  <2>2. ASSUME ~HandleSignal PROVE UNCHANGED sig /\ exit' \in {exit, "loop"}
    BY <1>1, <2>2
       DEF Next, Start, LoopStep, Answer, EmbedderStep, Interrupted,
           SetupFails, SetupSucceeds, Interrupt,
           LoopEnds, LoopTurns, GetTargets, ReloadFails,
           KeepControlAddr, UpdateControlAddr, SkipAuthenticate, Authenticate,
           AuthenticateFails, AuthenticatePanics, SendPing, CheckAuth,
           CheckResend, SendKeepAlive, RecvFails, RecvNewClient, RecvUnauthorized,
           RecvUdpChannelDetails, RecvPong, RecvAgentRegistered, RecvOther,
           RecvEnds, CheckPong, EmbedderStops, EmbedderSendsToken,
           EmbedderConfirms, Tick, Exit2
  <2> QED
    BY <2>1, <2>2 DEF Interrupted
<1> QED
  BY <1>1, <1>2, InvAlways, PTL DEF Spec

=============================================================================

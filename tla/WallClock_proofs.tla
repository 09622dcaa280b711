--------------------------- MODULE WallClock_proofs ---------------------------
(***************************************************************************)
(* The deadlines of Run and Update under any number of steps back of the   *)
(* wall clock, at any time and by any amount, for every length of the      *)
(* intervals and of the waits.                                             *)
(***************************************************************************)
EXTENDS WallClock, TLAPS

USE DEF time, pings, pongs, reloads

\* A clock that is only ever set back shows at most the time that has really
\* passed since the last reload.
Inv ==
    /\ real \in Int /\ wall \in Int
    /\ lastControlUpdate \in Int /\ reloadAt \in Int /\ reloadGap \in Int
    /\ wall - lastControlUpdate <= real - reloadAt
    /\ reloadGap > ReloadAfter

\* No step lets the clock run ahead of real time.
LEMMA NextInv == Inv /\ [Next]_vars => Inv'
  <1> SUFFICES ASSUME Inv, [Next]_vars PROVE Inv'
    OBVIOUS
  <1> USE WallClockAssumption DEF Inv
  <1>1. CASE Run
    <2>1. CASE ReloadDue
      BY <1>1, <2>1 DEF Run, ReloadDue
    <2>2. CASE ~ ReloadDue
      BY <1>1, <2>2 DEF Run
    <2> QED BY <2>1, <2>2
  <1>2. CASE ReloadControlAddr \/ Update
    BY <1>2 DEF ReloadControlAddr, Update
  <1>3. CASE AuthenticateFails \/ Turn \/ Wait
    BY <1>3 DEF AuthenticateFails, Turn, Wait
  <1>4. ASSUME NEW d \in 1..T0, StepBack(d) PROVE Inv'
    BY <1>4 DEF StepBack
  <1>5. CASE UNCHANGED vars
    BY <1>5 DEF vars
  <1> QED BY <1>1, <1>2, <1>3, <1>4, <1>5 DEF Next

\* Run's signed difference never reloads too early: the real time between two
\* reloads exceeds the interval whatever the clock shows.
THEOREM ReloadsAreSpacedAlways == Spec => []ReloadsAreSpaced
  <1>1. Init => Inv
    BY WallClockAssumption DEF Init, Inv
  <1>2. Inv => ReloadsAreSpaced
    BY DEF Inv, ReloadsAreSpaced
  <1> QED BY <1>1, <1>2, NextInv, PTL DEF Spec

-----------------------------------------------------------------------------
(* The unsigned differences of Update.                                     *)

\* A difference that is not negative stays what it is as a uint64.
LEMMA NoWrap ==
    ASSUME NEW a \in 0..(U64 - 1)
    PROVE  a % U64 = a
  BY WallClockAssumption

\* A negative difference of two clock readings is a huge uint64.
LEMMA Wraps ==
    ASSUME NEW a \in 1..(T0 + MaxReal), NEW b \in 0..(T0 + MaxReal), a < b,
           NEW limit \in {PingAfter, PongAfter}
    PROVE  Over(a, b, limit)
  <1>1. a - b + U64 \in 0..(U64 - 1) /\ a - b + U64 > limit
    BY WallClockAssumption
  <1>2. (a - b) % U64 = a - b + U64
    BY <1>1, WallClockAssumption
  <1> QED BY <1>1, <1>2 DEF Over

\* What the comparison says of two clock readings.
LEMMA OverMeans ==
    ASSUME NEW a \in 1..(T0 + MaxReal), NEW b \in 0..(T0 + MaxReal),
           NEW limit \in {PingAfter, PongAfter}
    PROVE  Over(a, b, limit) <=> a < b \/ a - b > limit
  <1>1. CASE a < b
    BY <1>1, Wraps
  <1>2. CASE a >= b
    <2>1. a - b \in 0..(U64 - 1)
      BY <1>2, WallClockAssumption
    <2> QED BY <1>2, <2>1, NoWrap DEF Over
  <1> QED BY <1>1, <1>2

\* Real time and the clock.
Clock ==
    /\ real \in 0..MaxReal
    /\ wall \in (PingAfter + 1)..(T0 + real)
    /\ steps \in Nat /\ idle \in Nat
    /\ at \in {"run", "reload", "update", "done"}

\* The clock never runs ahead and never gets to the first second of 1970.
LEMMA NextClock == Clock /\ [Next]_vars => Clock'
  <1> SUFFICES ASSUME Clock, [Next]_vars PROVE Clock'
    OBVIOUS
  <1> USE WallClockAssumption DEF Clock
  <1>1. CASE Run \/ ReloadControlAddr
    BY <1>1 DEF Run, ReloadControlAddr
  <1>2. CASE Update
    BY <1>2 DEF Update, SendPing
  <1>3. CASE AuthenticateFails \/ Turn \/ Wait
    BY <1>3 DEF AuthenticateFails, Turn, Wait
  <1>4. ASSUME NEW d \in 1..T0, StepBack(d) PROVE Clock'
    BY <1>4 DEF StepBack
  <1>5. CASE UNCHANGED vars
    BY <1>5 DEF vars
  <1> QED BY <1>1, <1>2, <1>3, <1>4, <1>5 DEF Next

-----------------------------------------------------------------------------
\* The age of the last pong on the clock is the real one less what the clock
\* was set back since.
Aged(stamp, when, lost) ==
    /\ stamp \in 0..(T0 + real) /\ when \in 0..real /\ lost \in Nat
    /\ stamp # 0 => wall - stamp = (real - when) - lost

Timely ==
    /\ Aged(lastPong, pongAt, back)
    /\ pongGap \in Int /\ pongBack \in Int
    /\ ExpiryIsTimely

\* Every step keeps the account of the last pong.
LEMMA NextTimely == Clock /\ Timely /\ [Next]_vars => Timely'
  <1> SUFFICES ASSUME Clock, Timely, [Next]_vars PROVE Timely'
    OBVIOUS
  <1> USE WallClockAssumption DEF Clock, Timely, Aged, ExpiryIsTimely
  <1>1. CASE Run \/ ReloadControlAddr
    BY <1>1 DEF Run, ReloadControlAddr
  <1>2. CASE Update
    <2>1. PICK p \in Pongs : NotePong(p, p.stamp # 0 /\ Over(wall, p.stamp, PongAfter))
      BY <1>2 DEF Update, CheckPong
    <2>2. real' = real /\ wall' = wall
      BY <1>2 DEF Update
    <2>3. Aged(p.stamp, p.at, p.back)
      BY <2>1 DEF Pongs
    <2>4. Over(wall, p.stamp, PongAfter) <=> wall < p.stamp \/ wall - p.stamp > PongAfter
      <3>1. wall \in 1..(T0 + MaxReal) /\ p.stamp \in 0..(T0 + MaxReal)
        BY <2>3
      <3> QED BY <3>1, OverMeans
    <2>5. pongAt' = p.at /\ back' = p.back
      BY <2>1 DEF NotePong
    <2>6. CASE p.stamp # 0 /\ Over(wall, p.stamp, PongAfter)
      <3>1. lastPong' = 0 /\ pongGap' = real - p.at /\ pongBack' = p.back
        BY <2>1, <2>6 DEF NotePong
      <3>2. real - p.at > PongAfter + p.back \/ real - p.at < p.back
        BY <2>3, <2>4, <2>6
      <3> QED BY <2>2, <2>3, <2>5, <3>1, <3>2
    <2>7. CASE ~ (p.stamp # 0 /\ Over(wall, p.stamp, PongAfter))
      <3>1. lastPong' = p.stamp /\ UNCHANGED <<pongGap, pongBack>>
        BY <2>1, <2>7 DEF NotePong
      <3>2. p.stamp # 0 => real - p.at <= PongAfter + p.back
        BY <2>3, <2>4, <2>7
      <3> QED BY <2>2, <2>3, <2>5, <3>1, <3>2
    <2> QED BY <2>6, <2>7
  <1>3. CASE AuthenticateFails \/ Turn \/ Wait
    BY <1>3 DEF AuthenticateFails, Turn, Wait
  <1>4. ASSUME NEW d \in 1..T0, StepBack(d) PROVE Timely'
    BY <1>4 DEF StepBack
  <1>5. CASE UNCHANGED vars
    BY <1>5 DEF vars
  <1> QED BY <1>1, <1>2, <1>3, <1>4, <1>5 DEF Next

\* ForceEpired is set for a pong that is too old by real time, or for a clock
\* that was set back beyond it, and never too late but by what the clock was
\* set back.
THEOREM ExpiryIsTimelyAlways == Spec => []ExpiryIsTimely
  <1>1. Init => Clock /\ Timely
    BY WallClockAssumption DEF Init, Clock, Timely, Aged, ExpiryIsTimely
  <1>2. Timely => ExpiryIsTimely
    BY DEF Timely
  <1> QED BY <1>1, <1>2, NextClock, NextTimely, PTL DEF Spec

-----------------------------------------------------------------------------
\* The time since the last ping in which the loop neither waited nor slept.
Busy == (real - pingAt) - idle

\* What the steps back since the last ping may hide of it: an interval and a
\* turn each.
Hidden == (PingAfter + 1) * steps

\* The age of the last ping, as the clock shows it and as it really is.  Busy
\* is Hidden and what the clock shows, at most; at the end of Update the clock
\* shows an interval at most, or was set back beyond the ping since.  A stamp
\* of zero is that of a reset, after which Update cannot but send a ping.
Pinged ==
    /\ pingAt \in 0..real /\ lastPing \in 0..(T0 + real)
    /\ Hidden \in Nat
    /\ Busy <= Hidden + PingAfter + 1
    /\ lastPing # 0 => Busy <= Hidden \/ Busy - (wall - lastPing) <= Hidden
    /\ at = "done" =>
         /\ lastPing # 0 /\ wall - lastPing <= PingAfter
         /\ Busy <= Hidden + PingAfter
         /\ wall < lastPing => Busy < Hidden

\* Every step keeps the account of the last ping, steps back included.
LEMMA NextPinged == Clock /\ Pinged /\ [Next]_vars => Pinged'
  <1> SUFFICES ASSUME Clock, Pinged, [Next]_vars PROVE Pinged'
    OBVIOUS
  <1> USE WallClockAssumption DEF Clock, Pinged, Busy
  <1>1. CASE Run \/ ReloadControlAddr
    <2>1. Hidden' = Hidden
      BY <1>1 DEF Run, ReloadControlAddr, Hidden
    <2> QED BY <1>1, <2>1 DEF Run, ReloadControlAddr
  <1>2. CASE Update
    <2>1. UNCHANGED <<real, wall>> /\ at' = "done" /\ SendPing
      BY <1>2 DEF Update
    <2>2. Over(wall, lastPing, PingAfter) <=> wall < lastPing \/ wall - lastPing > PingAfter
      <3>1. wall \in 1..(T0 + MaxReal) /\ lastPing \in 0..(T0 + MaxReal)
        OBVIOUS
      <3> QED BY <3>1, OverMeans
    <2>3. CASE Over(wall, lastPing, PingAfter)
      <3>1. lastPing' = wall /\ pingAt' = real /\ steps' = 0 /\ idle' = 0
        BY <2>1, <2>3 DEF SendPing
      <3>2. Hidden' = 0
        BY <3>1 DEF Hidden
      <3> QED BY <2>1, <3>1, <3>2
    <2>4. CASE ~ Over(wall, lastPing, PingAfter)
      <3>1. UNCHANGED <<lastPing, pingAt, steps, idle>>
        BY <2>1, <2>4 DEF SendPing
      <3>2. Hidden' = Hidden
        BY <3>1 DEF Hidden
      <3>3. wall >= lastPing /\ wall - lastPing <= PingAfter
        BY <2>2, <2>4
      <3> QED BY <2>1, <3>1, <3>2, <3>3
    <2> QED BY <2>3, <2>4
  <1>3. CASE AuthenticateFails \/ Wait
    <2>1. Hidden' = Hidden
      BY <1>3 DEF AuthenticateFails, Wait, Hidden
    <2> QED BY <1>3, <2>1 DEF AuthenticateFails, Wait
  <1>4. CASE Turn
    <2>1. Hidden' = Hidden
      BY <1>4 DEF Turn, Hidden
    <2> QED BY <1>4, <2>1 DEF Turn
  <1>5. ASSUME NEW d \in 1..T0, StepBack(d) PROVE Pinged'
    <2>1. /\ wall' = wall - d /\ steps' = steps + 1
          /\ UNCHANGED <<real, at, idle, pingAt, lastPing>>
      BY <1>5 DEF StepBack
    <2>2. Hidden' = Hidden + PingAfter + 1
      BY <2>1 DEF Hidden
    <2> QED BY <2>1, <2>2
  <1>6. CASE UNCHANGED vars
    BY <1>6 DEF vars, Hidden
  <1> QED BY <1>1, <1>2, <1>3, <1>4, <1>5, <1>6 DEF Next

\* The unsigned difference of Update keeps the pings coming: after any number
\* of steps back, of any size and at any time, the last ping is no older than
\* an interval and a turn for each of them and once more, the time in which
\* the loop waited for the API or slept not counted.
THEOREM PingsGoOnAlways == Spec => []PingsGoOn
  <1>1. Init => Clock /\ Pinged
    <2> SUFFICES ASSUME Init PROVE Clock /\ Pinged
      OBVIOUS
    <2>1. Hidden = 0
      BY WallClockAssumption DEF Init, Hidden
    <2> QED BY <2>1, WallClockAssumption DEF Init, Clock, Pinged, Busy
  <1>2. Clock /\ Pinged => PingsGoOn
    <2> SUFFICES ASSUME Clock, Pinged PROVE PingsGoOn
      OBVIOUS
    <2>1. (PingAfter + 1) * (steps + 1) = Hidden + PingAfter + 1
      BY WallClockAssumption DEF Clock, Hidden
    <2> QED BY <2>1, WallClockAssumption DEF Clock, Pinged, Busy, PingsGoOn
  <1> QED BY <1>1, <1>2, NextClock, NextPinged, PTL DEF Spec

=============================================================================

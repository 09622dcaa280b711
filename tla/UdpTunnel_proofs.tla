-------------------------- MODULE UdpTunnel_proofs --------------------------
(***************************************************************************)
(* Proofs about UdpTunnel, for any number of goroutines, addresses and     *)
(* tokens and every initial Details.  The key is that Details never        *)
(* changes: Rwlock.Write hands out a copy.  So the former addresses are    *)
(* those of the start, a datagram gets past the history check only from    *)
(* one of them, and the token it is compared with is the one of the start. *)
(***************************************************************************)
EXTENDS UdpTunnel, TLAPS

USE DEF locals

\* Details is what it was at the start.
DetailsInv == details \in [udp : {Preset}, history : PresetHistory]

\* A datagram of a former address, which had to pass the history check.
FromFormer(p) ==
    /\ dgram[p] \in Datagram
    /\ dgram[p].from # chan[p].addr
    /\ dgram[p].from \in Range(details.history)

\* What a goroutine holds where it works on a channel or a datagram.
HoldsChannel(p) ==
    /\ pc[p] \in {"write", "send", "store", "read", "history", "token"} =>
          chan[p] \in Channel
    /\ pc[p] \in {"read", "history", "token", "confirm"} =>
          Preset \in Channel /\ chan[p] = Preset

HoldsDatagram(p) ==
    /\ pc[p] \in {"history", "token"} =>
          dgram[p] \in Datagram /\ Deliverable(dgram[p])
    /\ pc[p] = "history" => dgram[p].from # chan[p].addr
    /\ pc[p] = "token" => dgram[p].from = chan[p].addr \/ FromFormer(p)
    /\ pc[p] = "confirm" => Known

\* Only ResendToken, and ReceiveFrom with a datagram of a former address,
\* keep a read lock from one step to the next.
HoldsLock(p) ==
    readers[p] # 0 => \/ pc[p] \in {"send", "store"}
                      \/ pc[p] \in {"token", "confirm"} /\ FromFormer(p)

Holds(p) == HoldsChannel(p) /\ HoldsDatagram(p) /\ HoldsLock(p)

Confirmed == lastConfirm # 0 => Known

DataTypeOK ==
    /\ writer \in Proc \cup {NoProc}
    /\ readers \in [Proc -> {0, 1}]
    /\ lastConfirm \in Sec
    /\ lastSend \in Sec
    /\ sec \in Sec
    /\ sent \subseteq Addr \X Token
    /\ pc \in [Proc -> PC]
    /\ chan \in [Proc -> Channel \cup {NoChannel}]
    /\ dgram \in [Proc -> Datagram \cup {NoDatagram}]
    /\ stamp \in [Proc -> Sec]

Inv ==
    /\ DataTypeOK
    /\ DetailsInv
    /\ \A p \in Proc : Holds(p)
    /\ Confirmed

-----------------------------------------------------------------------------
\* At the start every goroutine is idle and nothing was sent.
LEMMA InvInit == Init => Inv
BY UdpTunnelAssumption, UdpClockAssumption
   DEF Init, Inv, DataTypeOK, DetailsInv, Holds, HoldsChannel, HoldsDatagram,
       HoldsLock, Confirmed, Sec, PC, FromFormer

\* A call that returns leaves its goroutine idle, with no lock and nothing
\* in hand.
LEMMA ReturnKeepsInv ==
    ASSUME Inv, NEW p \in Proc, Return(p),
           UNCHANGED <<details, writer, sec, sent>>,
           lastSend' \in Sec, lastConfirm' \in Sec, Confirmed'
    PROVE  Inv'
<1> USE UdpTunnelAssumption, UdpClockAssumption
    DEF Inv, Return, RUnlocked, DataTypeOK
<1>1. DataTypeOK'
  BY DEF PC, Sec
<1>2. DetailsInv'
  BY DEF DetailsInv
<1>3. ASSUME NEW q \in Proc PROVE Holds(q)'
  BY <1>3 DEF Holds, HoldsChannel, HoldsDatagram, HoldsLock, Deliverable, FromFormer, Known
<1> QED
  BY <1>1, <1>2, <1>3

\* Every step of a goroutine keeps the invariant.
LEMMA InvStep == Inv /\ [Next]_vars => Inv'
<1> SUFFICES ASSUME Inv, [Next]_vars PROVE Inv'
  OBVIOUS
<1> USE UdpTunnelAssumption, UdpClockAssumption DEF Inv
<1>1. ASSUME NEW p \in Proc, NEW d \in Channel, SetUdpTunnel(p, d) PROVE Inv'
  <2>1. DataTypeOK'
    BY <1>1 DEF SetUdpTunnel, DataTypeOK, Holds, HoldsChannel, Sec, PC
  <2>2. DetailsInv'
    BY <1>1 DEF SetUdpTunnel, DetailsInv
  <2>3. ASSUME NEW q \in Proc PROVE Holds(q)'
    BY <1>1
       DEF SetUdpTunnel, DataTypeOK, Holds, HoldsChannel, HoldsDatagram,
           HoldsLock, Deliverable, FromFormer, Known
  <2>4. Confirmed'
    BY <1>1
       DEF SetUdpTunnel, Confirmed, Known
  <2> QED
    BY <2>1, <2>2, <2>3, <2>4
<1>2. ASSUME NEW p \in Proc, WriteDetails(p) PROVE Inv'
  <2>1. DataTypeOK'
    <3>1. CASE details.udp = chan[p]
      <4>1. 0 \in Sec /\ "idle" \in PC
        BY DEF Sec, PC
      <4>2. /\ Return(p) /\ writer' = NoProc
            /\ UNCHANGED <<lastConfirm, lastSend, sec, sent>>
        BY <1>2, <3>1 DEF WriteDetails
      <4> QED
        BY <4>1, <4>2 DEF DataTypeOK, Return, RUnlocked
    <3>2. CASE details.udp # chan[p]
      BY <1>2, <3>2 DEF WriteDetails, DataTypeOK, PC
    <3> QED
      BY <3>1, <3>2
  <2>2. DetailsInv'
    BY <1>2 DEF WriteDetails, DetailsInv, Return, RUnlocked, WriteBack
  <2>3. ASSUME NEW q \in Proc PROVE Holds(q)'
    BY <1>2
       DEF WriteDetails, DataTypeOK, Holds, HoldsChannel, HoldsDatagram,
           HoldsLock, Deliverable, FromFormer, Known, Return, RUnlocked, WriteBack
  <2>4. Confirmed'
    BY <1>2
       DEF WriteDetails, Confirmed, Known, Return, RUnlocked, WriteBack
  <2> QED
    BY <2>1, <2>2, <2>3, <2>4
<1>3. ASSUME NEW p \in Proc, ResendToken(p) PROVE Inv'
  <2>1. DataTypeOK'
    BY <1>3
       DEF ResendToken, DataTypeOK, Holds, HoldsChannel, Sec, PC, DetailsInv
  <2>2. DetailsInv'
    BY <1>3 DEF ResendToken, DetailsInv
  <2>3. ASSUME NEW q \in Proc PROVE Holds(q)'
    BY <1>3
       DEF ResendToken, DataTypeOK, Holds, HoldsChannel, HoldsDatagram,
           HoldsLock, Deliverable, FromFormer, Known, DetailsInv
  <2>4. Confirmed'
    BY <1>3
       DEF ResendToken, Confirmed, Known
  <2> QED
    BY <2>1, <2>2, <2>3, <2>4
<1>4. ASSUME NEW p \in Proc, SendToken(p) PROVE Inv'
  <2>1. DataTypeOK'
    BY <1>4 DEF SendToken, DataTypeOK, Holds, HoldsChannel, Sec, PC, Channel
  <2>2. DetailsInv'
    BY <1>4 DEF SendToken, DetailsInv
  <2>3. ASSUME NEW q \in Proc PROVE Holds(q)'
    BY <1>4
       DEF SendToken, DataTypeOK, Holds, HoldsChannel, HoldsDatagram,
           HoldsLock, Deliverable, FromFormer, Known
  <2>4. Confirmed'
    BY <1>4
       DEF SendToken, Confirmed, Known
  <2> QED
    BY <2>1, <2>2, <2>3, <2>4
<1>5. ASSUME NEW p \in Proc, SendTokenFails(p) PROVE Inv'
  BY <1>5, ReturnKeepsInv DEF SendTokenFails, DataTypeOK, Confirmed, Known
<1>6. ASSUME NEW p \in Proc, StoreLastSend(p) PROVE Inv'
  BY <1>6, ReturnKeepsInv DEF StoreLastSend, DataTypeOK, Confirmed, Known
<1>7. ASSUME NEW p \in Proc, InvalidateSession(p) PROVE Inv'
  <2>1. DataTypeOK'
    BY <1>7 DEF InvalidateSession, DataTypeOK, Holds, HoldsChannel, Sec, PC
  <2>2. DetailsInv'
    BY <1>7 DEF InvalidateSession, DetailsInv
  <2>3. ASSUME NEW q \in Proc PROVE Holds(q)'
    BY <1>7
       DEF InvalidateSession, DataTypeOK, Holds, HoldsChannel, HoldsDatagram,
           HoldsLock, Deliverable, FromFormer, Known
  <2>4. Confirmed'
    BY <1>7
       DEF InvalidateSession, Confirmed, Known
  <2> QED
    BY <2>1, <2>2, <2>3, <2>4
<1>8. ASSUME NEW p \in Proc, InvalidateLastSend(p) PROVE Inv'
  <2>1. DataTypeOK'
    BY <1>8 DEF InvalidateLastSend, DataTypeOK, Holds, HoldsChannel, Sec, PC
  <2>2. DetailsInv'
    BY <1>8 DEF InvalidateLastSend, DetailsInv
  <2>3. ASSUME NEW q \in Proc PROVE Holds(q)'
    BY <1>8
       DEF InvalidateLastSend, DataTypeOK, Holds, HoldsChannel,
           HoldsDatagram, HoldsLock, Deliverable, FromFormer, Known
  <2>4. Confirmed'
    BY <1>8
       DEF InvalidateLastSend, Confirmed, Known
  <2> QED
    BY <2>1, <2>2, <2>3, <2>4
<1>9. ASSUME NEW p \in Proc, GetSock(p) PROVE Inv'
  <2>1. DataTypeOK'
    BY <1>9 DEF GetSock, DataTypeOK, Holds, HoldsChannel, Sec, PC, DetailsInv
  <2>2. DetailsInv'
    BY <1>9 DEF GetSock, DetailsInv
  <2>3. ASSUME NEW q \in Proc PROVE Holds(q)'
    BY <1>9
       DEF GetSock, DataTypeOK, Holds, HoldsChannel, HoldsDatagram,
           HoldsLock, Deliverable, FromFormer, Known, DetailsInv
  <2>4. Confirmed'
    BY <1>9
       DEF GetSock, Confirmed, Known
  <2> QED
    BY <2>1, <2>2, <2>3, <2>4
<1>10. ASSUME NEW p \in Proc, NEW m \in Datagram, Read(p, m) PROVE Inv'
  <2>1. DataTypeOK'
    BY <1>10 DEF Read, DataTypeOK, Holds, HoldsChannel, Sec, PC
  <2>2. DetailsInv'
    BY <1>10 DEF Read, DetailsInv
  <2>3. ASSUME NEW q \in Proc PROVE Holds(q)'
    BY <1>10
       DEF Read, DataTypeOK, Holds, HoldsChannel, HoldsDatagram, HoldsLock,
           Deliverable, FromFormer, Known
  <2>4. Confirmed'
    BY <1>10
       DEF Read, Confirmed, Known
  <2> QED
    BY <2>1, <2>2, <2>3, <2>4
<1>11. ASSUME NEW p \in Proc, ReadFails(p) PROVE Inv'
  BY <1>11, ReturnKeepsInv DEF ReadFails, DataTypeOK, Confirmed, Known
<1>12. ASSUME NEW p \in Proc, CheckHistory(p) PROVE Inv'
  <2>1. CASE Return(p)
    BY <1>12, <2>1, ReturnKeepsInv DEF CheckHistory, DataTypeOK, Confirmed, Known
  <2>2. CASE ~Return(p)
    <3>1. /\ dgram[p].from \in Range(details.history)
          /\ readers' = [readers EXCEPT ![p] = 1] /\ pc' = [pc EXCEPT ![p] = "token"]
          /\ pc[p] = "history" /\ UNCHANGED <<details, writer, lastConfirm, lastSend, sec, sent>>
          /\ UNCHANGED <<chan, dgram, stamp>>
      BY <1>12, <2>2 DEF CheckHistory, KnownSource
    <3>2. DataTypeOK'
      BY <3>1 DEF DataTypeOK, PC
    <3>3. DetailsInv' /\ Confirmed'
      BY <3>1 DEF DetailsInv, Confirmed, Known
    <3>4. ASSUME NEW q \in Proc PROVE Holds(q)'
      BY <3>1 DEF DataTypeOK, Holds, HoldsChannel, HoldsDatagram, HoldsLock,
                  Deliverable, FromFormer, Known
    <3> QED
      BY <3>2, <3>3, <3>4
  <2> QED
    BY <2>1, <2>2
<1>13. ASSUME NEW p \in Proc, MatchToken(p) PROVE Inv'
  <2>1. DataTypeOK'
    BY <1>13 DEF MatchToken, DataTypeOK, Holds, HoldsChannel, Sec, PC
  <2>2. DetailsInv'
    BY <1>13 DEF MatchToken, DetailsInv
  <2>3. Known
    <3>1. /\ dgram[p] \in Datagram /\ Deliverable(dgram[p])
          /\ dgram[p].from \in {details.udp.addr} \cup Range(details.history)
      BY <1>13 DEF MatchToken, Holds, HoldsChannel, HoldsDatagram, FromFormer, DetailsInv
    <3>2. details.udp \in Channel /\ dgram[p].data = details.udp.token
      BY <1>13 DEF MatchToken, IsToken, DetailsInv
    <3>3. <<dgram[p].from, details.udp.token>> \in sent
      BY <3>1, <3>2 DEF Deliverable, Channel
    <3> QED
      BY <1>13, <3>1, <3>3 DEF MatchToken, IsToken, Known
  <2>4. ASSUME NEW q \in Proc PROVE Holds(q)'
    <3>1. Known'
      BY <1>13, <2>3 DEF MatchToken, Known
    <3>2. CASE q = p
      BY <1>13, <3>1, <3>2
         DEF MatchToken, DataTypeOK, Holds, HoldsChannel, HoldsDatagram,
             HoldsLock, FromFormer
    <3>3. CASE q # p
      BY <1>13, <3>1, <3>3
         DEF MatchToken, DataTypeOK, Holds, HoldsChannel, HoldsDatagram,
             HoldsLock, FromFormer, Deliverable
    <3> QED
      BY <3>2, <3>3
  <2>5. Confirmed'
    BY <1>13
       DEF MatchToken, Confirmed, Known
  <2> QED
    BY <2>1, <2>2, <2>4, <2>5
<1>14. ASSUME NEW p \in Proc, StoreLastConfirm(p) PROVE Inv'
  <2>1. Confirmed'
    BY <1>14 DEF StoreLastConfirm, Confirmed, Holds, HoldsDatagram, Known
  <2> QED
    BY <1>14, <2>1, ReturnKeepsInv DEF StoreLastConfirm, DataTypeOK
<1>15. ASSUME NEW p \in Proc, ParseFooter(p) PROVE Inv'
  BY <1>15, ReturnKeepsInv DEF ParseFooter, DataTypeOK, Confirmed, Known
<1>16. CASE Tick
  <2>1. DataTypeOK'
    BY <1>16 DEF Tick, NextSec, DataTypeOK, Sec
  <2>2. DetailsInv' /\ Confirmed'
    BY <1>16 DEF Tick, DetailsInv, Confirmed, Known
  <2>3. ASSUME NEW q \in Proc PROVE Holds(q)'
    BY <1>16 DEF Tick, Holds, HoldsChannel, HoldsDatagram, HoldsLock, Deliverable, FromFormer, Known
  <2> QED
    BY <2>1, <2>2, <2>3
<1>17. CASE UNCHANGED vars
  BY <1>17 DEF vars, DataTypeOK, DetailsInv, Confirmed,  Holds, HoldsChannel,
               HoldsDatagram, HoldsLock, Deliverable, FromFormer, Known
<1> HIDE DEF Inv
<1> QED
  BY <1>1, <1>2, <1>3, <1>4, <1>5, <1>6, <1>7, <1>8, <1>9, <1>10, <1>11,
     <1>12, <1>13, <1>14, <1>15, <1>16, <1>17
     DEF Next, Step, Call, Continue

\* The invariant holds in every state, for any number of goroutines.
LEMMA InvAlways == Spec => []Inv
BY InvInit, InvStep, PTL DEF Spec

-----------------------------------------------------------------------------
\* Every variable keeps its type; the read locks a goroutine holds are at
\* most one, and the stamps are values of now_sec().
THEOREM TypeCorrect == Spec => []TypeOK
<1>1. Init => crashed \in BOOLEAN
  BY Zenon DEF Init
<1>2. crashed \in BOOLEAN /\ [Next]_vars => (crashed \in BOOLEAN)'
  BY Zenon DEF Next, Tick, Step, Call, Continue, SetUdpTunnel, WriteDetails,
     ResendToken, SendToken, SendTokenFails, StoreLastSend,
     InvalidateSession, InvalidateLastSend, GetSock, Read, ReadFails,
     CheckHistory, MatchToken, StoreLastConfirm, ParseFooter, vars
<1>3. Spec => [](crashed \in BOOLEAN)
  BY <1>1, <1>2, PTL DEF Spec
<1>4. Inv => details \in [udp : Channel \cup {NoChannel}, history : Seq(Addr)]
  BY UdpTunnelAssumption DEF Inv, DetailsInv
<1>5. Inv /\ crashed \in BOOLEAN => TypeOK
  BY <1>4, Zenon DEF Inv, DataTypeOK, TypeOK
<1> QED
  BY <1>3, <1>5, InvAlways, PTL

\* ReceiveFrom, which locks again in GetToken, holds the read lock of its
\* history check there only for a datagram of a former address: whatever the
\* goroutines do, no other datagram locks up the tunnel.
THEOREM LockCycleNeedsHistoryAlways == Spec => []LockCycleNeedsHistory
<1>1. Inv => LockCycleNeedsHistory
  BY DEF Inv, DataTypeOK, Holds, HoldsLock, FromFormer, LockCycleNeedsHistory, Stuck
<1> QED
  BY <1>1, InvAlways, PTL

\* After AssignUdpTunnel, which leaves no former address, nothing locks up the
\* tunnel: SetUdpTunnel, which should record them, never does.
THEOREM NeverStuckWithoutHistory ==
    ASSUME PresetHistory = {<< >>} PROVE Spec => [](\A p \in Proc : ~Stuck(p))
<1>1. Inv => \A p \in Proc : ~Stuck(p)
  BY DEF Inv, DetailsInv, DataTypeOK, Holds, HoldsLock, FromFormer, Stuck, Range
<1> QED
  BY <1>1, InvAlways, PTL

\* Whoever asked for the write lock is still waiting for it, and nobody else
\* is.
Pending == \A p \in Proc : writer = p <=> pc[p] = "write"

\* What a waiting SetUdpTunnel waits for: nothing, goroutines whose next steps
\* take no lock, or one that a datagram of a former address has left stuck.
NoLockCycle ==
    /\ writer # NoProc => pc[writer] = "write" /\ readers[writer] = 0
    /\ \A p \in Proc : pc[p] = "write" =>
         \/ CanWrite(p)
         \/ \E q \in Proc \ {p} :
              readers[q] # 0 /\ pc[q] \in {"send", "store", "confirm"}
         \/ \E q \in Proc \ {p} : Stuck(q) /\ FromFormer(q)

\* While it waits no read lock is taken, and every step of a goroutine in its
\* way brings that goroutine nearer to the release of its own.
ReadersDrain ==
    \A p, q \in Proc :
        /\ writer = p /\ writer' = p => readers'[q] <= readers[q]
        /\ readers[q] # 0 /\ pc'[q] # pc[q] =>
             \/ readers'[q] = 0
             \/ pc[q] = "send" /\ pc'[q] = "store"
             \/ pc[q] = "token" /\ pc'[q] = "confirm"

\* Only SetUdpTunnel and WriteDetails touch the writer, each its own.
LEMMA PendingStep == Inv /\ Pending /\ [Next]_vars => Pending'
<1> SUFFICES ASSUME Inv, Pending, [Next]_vars PROVE Pending'
  OBVIOUS
<1> USE UdpTunnelAssumption DEF Pending
<1>1. pc \in [Proc -> PC] /\ writer \in Proc \cup {NoProc}
  BY DEF Inv, DataTypeOK
<1>2. ASSUME NEW p \in Proc, NEW d \in Channel, SetUdpTunnel(p, d) PROVE Pending'
  BY <1>1, <1>2 DEF SetUdpTunnel, CanRLock
<1>3. ASSUME NEW p \in Proc, WriteDetails(p) PROVE Pending'
  <2>1. writer = p /\ writer' = NoProc
    BY <1>3 DEF WriteDetails, CanWrite
  <2>2. pc' = [pc EXCEPT ![p] = "idle"] \/ pc' = [pc EXCEPT ![p] = "send"]
    BY <1>3 DEF WriteDetails, Return
  <2> QED
    BY <1>1, <2>1, <2>2
<1>4. ASSUME NEW p \in Proc, pc[p] # "write", writer' = writer,
             NEW l \in PC \ {"write"}, pc' = [pc EXCEPT ![p] = l]
      PROVE  Pending'
  BY <1>1, <1>4
<1>5. ASSUME NEW p \in Proc, Step(p) PROVE Pending'
  <2>1. CASE Call(p)
    <3>1. CASE ResendToken(p)
      BY <1>4, <3>1 DEF ResendToken, PC
    <3>2. CASE InvalidateSession(p)
      BY <1>4, <3>2 DEF InvalidateSession, PC
    <3>3. CASE GetSock(p)
      BY <1>4, <3>3 DEF GetSock, PC
    <3> QED
      BY <1>2, <2>1, <3>1, <3>2, <3>3 DEF Call
  <2>2. CASE Continue(p)
    <3>1. CASE SendToken(p)
      BY <1>4, <3>1 DEF SendToken, PC
    <3>2. CASE SendTokenFails(p)
      BY <1>4, <3>2 DEF SendTokenFails, Return, PC
    <3>3. CASE StoreLastSend(p)
      BY <1>4, <3>3 DEF StoreLastSend, Return, PC
    <3>4. CASE InvalidateLastSend(p)
      BY <1>4, <3>4 DEF InvalidateLastSend, PC
    <3>5. CASE CheckHistory(p)
      BY <1>4, <3>5 DEF CheckHistory, Return, PC
    <3>6. CASE MatchToken(p)
      BY <1>4, <3>6 DEF MatchToken, PC
    <3>7. CASE StoreLastConfirm(p)
      BY <1>4, <3>7 DEF StoreLastConfirm, Return, PC
    <3>8. CASE ParseFooter(p)
      BY <1>4, <3>8 DEF ParseFooter, Return, PC
    <3> QED
      BY <1>3, <2>2, <3>1, <3>2, <3>3, <3>4, <3>5, <3>6, <3>7, <3>8 DEF Continue
  <2>3. ASSUME NEW m \in Datagram, Read(p, m) PROVE Pending'
    <3>1. PICK l \in {"token", "history"} : pc' = [pc EXCEPT ![p] = l]
      BY <2>3 DEF Read
    <3> QED
      BY <1>4, <2>3, <3>1 DEF Read, PC
  <2>4. CASE ReadFails(p)
    BY <1>4, <2>4 DEF ReadFails, Return, PC
  <2> QED
    BY <1>5, <2>1, <2>2, <2>3, <2>4 DEF Step
<1>6. CASE Tick
  BY <1>6 DEF Tick
<1>7. CASE UNCHANGED vars
  BY <1>7 DEF vars
<1> QED
  BY <1>5, <1>6, <1>7 DEF Next

\* A SetUdpTunnel that waits for the lock waits for goroutines that wait for
\* nobody, or for a ReceiveFrom with a datagram of a former address: however
\* many goroutines there are, no others wait for each other.
THEOREM NoLockCycleAlways == Spec => []NoLockCycle
<1>1. Init => Pending
  BY UdpTunnelAssumption DEF Init, Pending
<1>2. Inv /\ Pending => NoLockCycle
  <2> SUFFICES ASSUME Inv, Pending PROVE NoLockCycle
    OBVIOUS
  <2>1. /\ readers \in [Proc -> {0, 1}] /\ writer \in Proc \cup {NoProc}
        /\ \A p \in Proc : HoldsLock(p)
    BY DEF Inv, DataTypeOK, Holds
  <2>2. writer # NoProc => pc[writer] = "write" /\ readers[writer] = 0
    BY <2>1 DEF Pending, HoldsLock
  <2>3. ASSUME NEW p \in Proc, pc[p] = "write", ~CanWrite(p)
        PROVE  \E q \in Proc \ {p} :
                  \/ readers[q] # 0 /\ pc[q] \in {"send", "store", "confirm"}
                  \/ Stuck(q) /\ FromFormer(q)
    <3>1. writer = p
      BY <2>3 DEF Pending
    <3>2. PICK q \in Proc : readers[q] # 0
      BY <2>3, <3>1 DEF CanWrite
    <3>3. q # p
      BY <2>2, <3>1, <3>2, UdpTunnelAssumption
    <3>4. CASE pc[q] = "token"
      BY <2>1, <3>1, <3>2, <3>3, <3>4, UdpTunnelAssumption DEF HoldsLock, Stuck
    <3> QED
      BY <2>1, <3>2, <3>3, <3>4 DEF HoldsLock
  <2> QED
    BY <2>2, <2>3 DEF NoLockCycle
<1> QED
  BY <1>1, <1>2, PendingStep, InvAlways, InvStep, PTL DEF Spec

\* Nobody overtakes a waiting SetUdpTunnel, and those it waits for come nearer
\* to their unlock with every step: what SetUdpTunnelReturns needs but for the
\* fairness of the scheduler.
THEOREM ReadersDrainAlways == Spec => [][ReadersDrain]_vars
<1>1. ASSUME Inv, Next PROVE ReadersDrain
  <2>1. /\ readers \in [Proc -> {0, 1}] /\ writer \in Proc \cup {NoProc} /\ pc \in [Proc -> PC]
        /\ \A p \in Proc : readers[p] # 0 => pc[p] \in {"send", "store", "token", "confirm"}
    BY <1>1 DEF Inv, DataTypeOK, Holds, HoldsLock
  <2>2. ASSUME NEW p \in Proc, Step(p) PROVE ReadersDrain
    <3>1. \A q \in Proc \ {p} : readers'[q] = readers[q] /\ pc'[q] = pc[q]
      BY <2>1, <2>2
         DEF Step, Call, Continue, SetUdpTunnel, ResendToken, InvalidateSession, GetSock,
             WriteDetails, SendToken, SendTokenFails, StoreLastSend, InvalidateLastSend,
             CheckHistory, MatchToken, StoreLastConfirm, ParseFooter, Read, ReadFails,
             Return, RUnlocked
    <3>2. readers'[p] \in {readers[p], 0} \/ (readers'[p] = 1 /\ writer = NoProc)
      BY <2>1, <2>2
         DEF Step, Call, Continue, SetUdpTunnel, ResendToken, InvalidateSession, GetSock,
             WriteDetails, SendToken, SendTokenFails, StoreLastSend, InvalidateLastSend,
             CheckHistory, MatchToken, StoreLastConfirm, ParseFooter, Read, ReadFails,
             Return, RUnlocked, CanRLock
    <3>3. pc[p] \in {"send", "store", "token", "confirm"} =>
            \/ readers'[p] = 0
            \/ pc[p] = "send" /\ pc'[p] = "store"
            \/ pc[p] = "token" /\ pc'[p] = "confirm"
      BY <2>1, <2>2
         DEF Step, Call, Continue, SetUdpTunnel, ResendToken, InvalidateSession, GetSock,
             WriteDetails, SendToken, SendTokenFails, StoreLastSend, InvalidateLastSend,
             CheckHistory, MatchToken, StoreLastConfirm, ParseFooter, Read, ReadFails,
             Return, RUnlocked
    <3> SUFFICES ASSUME NEW r \in Proc, NEW q \in Proc
                 PROVE  /\ writer = r /\ writer' = r => readers'[q] <= readers[q]
                        /\ readers[q] # 0 /\ pc'[q] # pc[q] =>
                             \/ readers'[q] = 0
                             \/ pc[q] = "send" /\ pc'[q] = "store"
                             \/ pc[q] = "token" /\ pc'[q] = "confirm"
      BY DEF ReadersDrain
    <3>4. CASE q # p
      BY <2>1, <3>1, <3>4
    <3>5. CASE q = p
      BY <2>1, <3>2, <3>3, <3>5, UdpTunnelAssumption
    <3> QED
      BY <3>4, <3>5
  <2>3. CASE Tick
    BY <2>1, <2>3 DEF Tick, ReadersDrain
  <2> QED
    BY <1>1, <2>2, <2>3 DEF Next
<1> QED
  BY <1>1, InvAlways, PTL DEF Spec

\* No step stores anything in Details.
LEMMA DetailsKept == [Next]_vars => UNCHANGED details
BY DEF Next, Tick, Step, Call, Continue, SetUdpTunnel, WriteDetails, WriteBack,
   ResendToken, SendToken, SendTokenFails, StoreLastSend, InvalidateSession,
   InvalidateLastSend, GetSock, Read, ReadFails, CheckHistory, MatchToken,
   StoreLastConfirm, ParseFooter, vars

\* A session is confirmed only by the echo of its own token, sent to the
\* address of its channel or to a former one.
THEOREM ConfirmFollowsSendAlways == Spec => []ConfirmFollowsSend
<1>1. Inv => ConfirmFollowsSend
  BY UdpTunnelAssumption DEF Inv, Confirmed, ConfirmFollowsSend
<1> QED
  BY <1>1, InvAlways, PTL

\* The tunnel implements the abstract UDP session, store by store: Details
\* does not change and the set of sent tokens only grows, so a session that
\* is known stays known, and the goroutine about to store LastConfirm holds
\* the proof that it is.
THEOREM SessionImplemented == Spec => ImplementsSession
<1>1. Init => S!Init
  <2>1. Init => Known \in BOOLEAN
    BY Zenon DEF Known
  <2> QED
    BY <2>1, Zenon DEF Init, S!Init
<1>2. ASSUME Inv, [Next]_vars PROVE [S!Next]_(S!session)
  <2> DEFINE Same == UNCHANGED <<lastSend, lastConfirm>>
  <2>2. Known => Known'
    <3>1. sent \subseteq sent'
      BY <1>2 DEF Next, Tick, Step, Call, Continue, SetUdpTunnel, WriteDetails,
         ResendToken, SendToken, SendTokenFails, StoreLastSend,
         InvalidateSession, InvalidateLastSend, GetSock, Read, ReadFails,
         CheckHistory, MatchToken, StoreLastConfirm, ParseFooter, vars
    <3> QED
      BY <1>2, <3>1, DetailsKept DEF Known
  <2>3. ASSUME NEW p \in Proc, StoreLastSend(p) PROVE S!Next
    <3>1. stamp[p] \in Sec /\ lastSend' = stamp[p] /\ lastConfirm' = lastConfirm
      BY <1>2, <2>3 DEF StoreLastSend, Inv, DataTypeOK
    <3>2. Known' <=> Known
      BY <2>3 DEF StoreLastSend, Known
    <3> QED
      BY <3>1, <3>2 DEF S!Next, S!Send
  <2>4. ASSUME NEW p \in Proc, StoreLastConfirm(p) PROVE S!Next
    <3>1. /\ stamp[p] \in Sec /\ lastConfirm' = stamp[p] /\ lastSend' = lastSend
      BY <1>2, <2>4 DEF StoreLastConfirm, Inv, DataTypeOK
    <3>2. Known' <=> Known
      BY <2>4 DEF StoreLastConfirm, Known
    <3>3. Known
      BY <1>2, <2>4, UdpTunnelAssumption
         DEF StoreLastConfirm, Inv, Holds, HoldsDatagram
    <3> QED
      BY <3>1, <3>2, <3>3 DEF S!Next, S!Confirm
  <2>5. ASSUME NEW p \in Proc, InvalidateSession(p) \/ InvalidateLastSend(p)
        PROVE  S!Next
    <3>1. Known' <=> Known
      BY <2>5 DEF InvalidateSession, InvalidateLastSend, Known
    <3> QED
      BY <2>5, <3>1
         DEF InvalidateSession, InvalidateLastSend, S!Next, S!Invalidate
  <2>6. \/ \E p \in Proc : \/ StoreLastSend(p)
                            \/ StoreLastConfirm(p)
                            \/ InvalidateSession(p) \/ InvalidateLastSend(p)
        \/ Same
    BY <1>2 DEF Next, Tick, Step, Call, Continue, SetUdpTunnel, WriteDetails,
       ResendToken, SendToken, SendTokenFails, GetSock, Read, ReadFails,
       CheckHistory, MatchToken, ParseFooter, vars
  <2>7. CASE Same
    <3>1. Known' = Known \/ Known' = TRUE
      BY <2>2, Zenon DEF Known
    <3> QED
      BY <2>7, <3>1, Zenon DEF S!Next, S!Announce, S!session
  <2> QED
    BY <2>3, <2>4, <2>5, <2>6, <2>7
<1> QED
  BY <1>1, <1>2, InvAlways, PTL DEF Spec, ImplementsSession, S!Spec

\* No call of any goroutine changes Details, in whatever order they run: the
\* channels that SetUdpTunnel is given, and the addresses of the ones before,
\* are written to the copy that Rwlock.Write hands out.
THEOREM DetailsNeverChange ==
    Spec => details \in [udp : {Preset}, history : PresetHistory] /\ [][UNCHANGED details]_vars
<1>1. Init => details \in [udp : {Preset}, history : PresetHistory]
  BY DEF Init
<1> QED
  BY <1>1, DetailsKept, PTL DEF Spec

\* In the program as shipped, where AssignUdpTunnel leaves no channel and
\* SetUdpTunnel stores none, no session is ever confirmed.
THEOREM NeverConfirmedWithoutChannel ==
    ASSUME Preset = NoChannel PROVE Spec => [](lastConfirm = 0)
<1>1. Inv => lastConfirm = 0
  BY UdpTunnelAssumption DEF Inv, DetailsInv, Confirmed, Known
<1> QED
  BY <1>1, InvAlways, PTL

=============================================================================

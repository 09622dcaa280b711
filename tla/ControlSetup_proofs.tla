------------------------ MODULE ControlSetup_proofs -------------------------
(***************************************************************************)
(* Proofs about ControlSetup, for any list of addresses and any number of  *)
(* attempts: the safety of the handshake, and that it implements the       *)
(* outcomes of Handshake.                                                  *)
(***************************************************************************)
EXTENDS ControlSetup, TLAPS

USE DEF server

\* The type invariant but for the one flag.
DataTypeOK ==
    /\ pc \in {"listen", "ping", "pong", "token", "register", "reply", "done"}
    /\ pos \in 1..(Len(Address) + 1)
    /\ socket \in [Pos -> {"none", "open", "closed"}]
    /\ attempt \in Nat
    /\ reads \in 0..ReadMax
    /\ pinged \subseteq Pos
    /\ issued \subseteq Session
    /\ session \in Session \cup {NoSession}
    /\ control \in Target \cup {NoAddr}
    /\ outcome \in {"pending", "connected", "authenticated", "error", "panic"}

\* How far the outcome has come at each place of the code.
Progress ==
    /\ pc \in {"listen", "ping", "pong"} => outcome = "pending" /\ control = NoAddr
    /\ pc \in {"token", "register", "reply"} => outcome = "connected"

\* The socket under way is that of the address, and it is open.
OnSocket ==
    /\ pc \in {"ping", "pong"} => pos \in Pos /\ socket[pos] = "open"
    /\ ConnectedSocketIsOpen

\* An address whose pings are being waited for, or used up, was pinged;
\* those that follow have no socket yet.
Pinged ==
    /\ pc = "pong" => pos \in pinged
    /\ pc = "ping" /\ attempt # 0 => pos \in pinged
    /\ pc \in {"listen", "token"} => attempt = 0
    /\ \A i \in Pos : pos < i \/ (pos = i /\ pc = "listen") => socket[i] = "none"
    /\ LeakedSocketWasPinged

Inv ==
    /\ DataTypeOK
    /\ Progress
    /\ OnSocket
    /\ Pinged
    /\ AcceptedSessionIsIssued
    /\ PanicNeedsSession

-----------------------------------------------------------------------------
\* The invariant holds before the first socket is made, and when Update
\* authenticates again on the socket it has.
LEMMA InvInit == Init => Inv
BY ControlSetupAssumption
   DEF Init, InitSetup, InitAgain, Inv, DataTypeOK, Progress, OnSocket,
       ConnectedSocketIsOpen, Pinged, LeakedSocketWasPinged,
       AcceptedSessionIsIssued, PanicNeedsSession, Pos, Target

\* The positions are those of a sequence.
LEMMA PosRange == Len(Address) \in Nat /\ Pos = 1..Len(Address)
BY ControlSetupAssumption DEF Pos

\* Every step of the handshake, and of the server, keeps the invariant.
LEMMA InvStep == Inv /\ [Next]_vars => Inv'
<1> SUFFICES ASSUME Inv, [Next]_vars PROVE Inv'
  OBVIOUS
<1> USE ControlSetupAssumption
    DEF Inv, DataTypeOK, Progress, OnSocket, ConnectedSocketIsOpen, Pinged,
        LeakedSocketWasPinged, AcceptedSessionIsIssued, PanicNeedsSession,
        Pos, Target
<1>1. CASE Listen
  BY <1>1 DEF Listen
<1>2. CASE ListenFails
  BY <1>2 DEF ListenFails, NextAddress
<1>3. CASE NoMoreAddress
  BY <1>3 DEF NoMoreAddress, Fails, End
<1>4. CASE SendPing
  BY <1>4 DEF SendPing
<1>5. CASE SendPingFails
  <2>1. pos \in Pos /\ pos' = pos + 1 /\ socket' = [socket EXCEPT ![pos] = "closed"]
    BY <1>5 DEF SendPingFails, NextAddress
  <2>2. \A i \in Pos : i # pos => socket'[i] = socket[i]
    BY <2>1
  <2>3. pos' \in 1..(Len(Address) + 1)
    BY <2>1, PosRange
  <2>4. DataTypeOK'
    BY <1>5, <2>1, <2>3 DEF SendPingFails, NextAddress
  <2>5. socket'[pos] = "closed"
    BY <2>1
  <2>6. ASSUME NEW i \in Pos, pos' <= i PROVE i # pos /\ pos < i
    BY <2>1, <2>6, SMTT(30)
  <2>7. ASSUME NEW i \in Pos, pos' <= i PROVE socket'[i] = "none"
    BY <2>2, <2>6, <2>7
  <2>8. pos' \in Int /\ \A i \in Pos : i \in Int
    BY <2>3, PosRange
  <2>9. LeakedSocketWasPinged'
    BY <1>5, <2>2, <2>5 DEF SendPingFails, NextAddress
  <2>10. Pinged'
    BY <1>5, <2>7, <2>8, <2>9 DEF SendPingFails, NextAddress
  <2> QED
    BY <1>5, <2>1, <2>4, <2>10 DEF SendPingFails, NextAddress
<1>6. CASE PingsLost
  BY <1>6 DEF PingsLost, NextAddress
<1>7. CASE ReadsUsedUp
  BY <1>7 DEF ReadsUsedUp, NextAttempt
<1>8. CASE ReadTimeout
  BY <1>8, SMTT(30) DEF ReadTimeout, Reading, ReadAgain, NextAttempt
<1>9. CASE ReadFails
  BY <1>9 DEF ReadFails, Reading, Fails, End
<1>10. ASSUME NEW m \in Message, ReadPong(m) PROVE Inv'
  BY <1>10 DEF ReadPong, Reading, SetupVerdict, ReadAgain, Fails, End
<1>11. CASE GetToken
  BY <1>11 DEF GetToken
<1>12. CASE GetTokenFails
  BY <1>12 DEF GetTokenFails, Fails, End
<1>13. CASE SendRegister
  BY <1>13 DEF SendRegister
<1>14. CASE SendRegisterFails
  BY <1>14 DEF SendRegisterFails, Fails, End
<1>15. CASE RegisterLost
  BY <1>15 DEF RegisterLost, Fails, End
<1>16. ASSUME NEW m \in Message, ReadReply(m) PROVE Inv'
  BY <1>16, SMTT(30) DEF ReadReply, Reading, AuthVerdict, FromControl, Deliverable, ReadAgain, End
<1>17. ASSUME NEW s \in Session, ServerRegisters(s) PROVE Inv'
  BY <1>17 DEF ServerRegisters
<1>18. CASE UNCHANGED vars
  BY <1>18 DEF vars
<1> HIDE DEF Inv
<1> QED
  BY <1>1, <1>2, <1>3, <1>4, <1>5, <1>6, <1>7, <1>8, <1>9, <1>10, <1>11,
     <1>12, <1>13, <1>14, <1>15, <1>16, <1>17, <1>18
     DEF Next, Agent

\* The invariant holds in every state of every handshake.
LEMMA InvAlways == Spec => []Inv
BY InvInit, InvStep, PTL DEF Spec

-----------------------------------------------------------------------------
\* Every variable keeps its type: the position never runs past the end of
\* the list, and no loop reads more often than it may.
THEOREM TypeCorrect == Spec => []TypeOK
<1>1. Init => asked \in BOOLEAN
  BY Zenon DEF Init, InitSetup, InitAgain
<1>2. asked \in BOOLEAN /\ [Next]_vars => (asked \in BOOLEAN)'
  <2> SUFFICES ASSUME asked \in BOOLEAN, [Next]_vars PROVE asked' \in BOOLEAN
    OBVIOUS
  <2>1. asked' = asked \/ asked' = TRUE
    BY DEF Next, Agent, vars, Listen, ListenFails, NextAddress, NoMoreAddress,
           Fails, End, SendPing, SendPingFails, PingsLost, ReadsUsedUp,
           ReadTimeout, ReadAgain, NextAttempt, ReadFails, ReadPong, GetToken,
           GetTokenFails, SendRegister, SendRegisterFails, RegisterLost,
           ReadReply, ServerRegisters
  <2> QED
    BY <2>1, Zenon
<1>3. Inv => DataTypeOK
  BY DEF Inv
<1>4. DataTypeOK /\ asked \in BOOLEAN => TypeOK
  BY Zenon DEF DataTypeOK, TypeOK
<1> QED
  BY <1>1, <1>2, <1>3, <1>4, InvAlways, PTL DEF Spec

\* The agent never takes a session from anyone but the control server.
THEOREM AcceptedSessionIsIssuedAlways == Spec => []AcceptedSessionIsIssued
<1>1. Inv => AcceptedSessionIsIssued
  BY DEF Inv
<1> QED
  BY <1>1, InvAlways, PTL

\* A panic of the handshake presupposes a session the server had opened.
THEOREM PanicNeedsSessionAlways == Spec => []PanicNeedsSession
<1>1. Inv => PanicNeedsSession
  BY DEF Inv
<1> QED
  BY <1>1, InvAlways, PTL

\* A connected or authenticated channel has the open socket of its address.
THEOREM ConnectedSocketIsOpenAlways == Spec => []ConnectedSocketIsOpen
<1>1. Inv => ConnectedSocketIsOpen
  BY DEF Inv, OnSocket
<1> QED
  BY <1>1, InvAlways, PTL

\* Only the sockets of servers that did not answer are left open.
THEOREM LeakedSocketWasPingedAlways == Spec => []LeakedSocketWasPinged
<1>1. Inv => LeakedSocketWasPinged
  BY DEF Inv, Pinged
<1> QED
  BY <1>1, InvAlways, PTL

\* The handshake implements Handshake, its termination apart: it connects
\* only to one of its addresses, and each outcome follows from one that
\* allows it.
THEOREM HandshakeSafety == Spec => H!Safety
<1>1. Init => H!Init
  BY DEF Init, InitSetup, InitAgain, H!Init, Target
<1>2. Inv /\ [Next]_vars => [H!Next]_<<outcome, control>>
  <2> SUFFICES ASSUME Inv, [Next]_vars PROVE [H!Next]_<<outcome, control>>
    OBVIOUS
  <2>1. ASSUME NEW m \in Message, ReadPong(m) PROVE [H!Next]_<<outcome, control>>
    BY <2>1 DEF ReadPong, Reading, ReadAgain, Fails, End, Inv, Progress, OnSocket,
                Pos, Target, H!Next, H!Connect, H!End
  <2>2. ASSUME NEW m \in Message, ReadReply(m) PROVE [H!Next]_<<outcome, control>>
    BY <2>2 DEF ReadReply, Reading, AuthVerdict, ReadAgain, End, Inv, Progress,
                H!Next, H!End
  <2>3. CASE NoMoreAddress \/ ReadFails \/ GetTokenFails \/ SendRegisterFails
             \/ RegisterLost
    BY <2>3 DEF NoMoreAddress, ReadFails, Reading, GetTokenFails,
                SendRegisterFails, RegisterLost, Fails, End, Inv, Progress,
                H!Next, H!End
  <2>4. CASE Listen \/ ListenFails \/ SendPing \/ SendPingFails \/ PingsLost
             \/ ReadsUsedUp \/ ReadTimeout \/ GetToken \/ SendRegister
             \/ (\E s \in Session : ServerRegisters(s)) \/ UNCHANGED vars
    BY <2>4 DEF Listen, ListenFails, SendPing, SendPingFails, PingsLost,
                ReadsUsedUp, ReadTimeout, GetToken, SendRegister,
                ServerRegisters, ReadAgain, NextAttempt, NextAddress, vars
  <2> QED
    BY <2>1, <2>2, <2>3, <2>4 DEF Next, Agent
<1> QED
  BY <1>1, <1>2, InvAlways, PTL DEF Spec, H!Safety

\* What the callers of the handshake rely on: an outcome that ends it does not
\* change again, nor does the address once there is one.
Settled ==
    /\ outcome \in {"authenticated", "error", "panic"} => UNCHANGED outcome
    /\ outcome # "pending" => UNCHANGED control

\* It holds for whatever implements Handshake.
LEMMA HandshakeSettles ==
    H!Safety => /\ [](outcome \in {"connected", "authenticated", "panic"} => control \in Target)
                /\ [][Settled]_<<outcome, control>>
<1> DEFINE Found == outcome \in {"connected", "authenticated", "panic"} => control \in Target
<1>1. H!Init => Found
  BY DEF H!Init
<1>2. Found /\ [H!Next]_<<outcome, control>> => Found'
  BY DEF H!Next, H!Connect, H!End
<1>3. [H!Next]_<<outcome, control>> => [Settled]_<<outcome, control>>
  BY DEF H!Next, H!Connect, H!End, Settled
<1> QED
  BY <1>1, <1>2, <1>3, PTL DEF H!Safety

\* So the handshake as coded never connects twice, and never takes back an
\* error or an authentication: by way of the abstract specification.
THEOREM OutcomeSettles ==
    Spec => /\ [](outcome \in {"connected", "authenticated", "panic"} => control \in Target)
            /\ [][Settled]_<<outcome, control>>
BY HandshakeSafety, HandshakeSettles, PTL

-----------------------------------------------------------------------------
(* Why the handshake ends.  Its loops are nested, so the measure is         *)
(* lexicographic: the phase, the addresses left, whether the request loop   *)
(* was entered, the requests left, whether an answer is being waited for,   *)
(* the reads left.  No component grows unless one before it shrinks.        *)

Phase ==
    IF pc \in {"listen", "ping", "pong"} THEN 2 ELSE IF pc = "done" THEN 0 ELSE 1

AddressesLeft == Len(Address) + 1 - pos

BeforeLoop == IF pc \in {"listen", "token"} THEN 1 ELSE 0

\* Pings while an address is looked for, registrations once it is found.
RequestMax == IF pc \in {"listen", "ping", "pong"} THEN PingMax ELSE AuthMax

RequestsLeft == RequestMax - attempt

Waiting == IF pc \in {"pong", "reply"} THEN 1 ELSE 0

ReadsLeft == ReadMax - reads

\* No loop sends more requests than its bound.
WithinBounds == attempt <= RequestMax

Measure == <<Phase, AddressesLeft, BeforeLoop, RequestsLeft, Waiting, ReadsLeft>>

\* The measure is one of natural numbers: the order is well-founded.
MeasureIsNatural ==
    {Phase, AddressesLeft, BeforeLoop, RequestsLeft, Waiting, ReadsLeft} \subseteq Nat

\* The step makes the measure smaller.
Descends ==
    \/ Phase' < Phase
    \/ /\ Phase' = Phase
       /\ \/ AddressesLeft' < AddressesLeft
          \/ /\ AddressesLeft' = AddressesLeft
             /\ \/ BeforeLoop' < BeforeLoop
                \/ /\ BeforeLoop' = BeforeLoop
                   /\ \/ RequestsLeft' < RequestsLeft
                      \/ /\ RequestsLeft' = RequestsLeft
                         /\ \/ Waiting' < Waiting
                            \/ Waiting' = Waiting /\ ReadsLeft' < ReadsLeft

\* No request was sent yet.
LEMMA WithinBoundsInit == Init => WithinBounds
BY ControlSetupAssumption DEF Init, WithinBounds, RequestMax

\* The bounds of the loops are all that the measure needs.
LEMMA BoundsGiveMeasure == Inv /\ WithinBounds => MeasureIsNatural
BY ControlSetupAssumption, PosRange
   DEF Inv, DataTypeOK, WithinBounds, MeasureIsNatural, Phase, AddressesLeft,
       BeforeLoop, RequestMax, RequestsLeft, Waiting, ReadsLeft

\* Every step of the agent makes the measure smaller and keeps the bounds.
LEMMA AgentDescends == Inv /\ WithinBounds /\ Agent => Descends /\ WithinBounds'
<1> SUFFICES ASSUME Inv, WithinBounds, Agent PROVE Descends /\ WithinBounds'
  OBVIOUS
<1> USE ControlSetupAssumption, PosRange
    DEF Inv, DataTypeOK, Pinged, WithinBounds, Descends, Phase, AddressesLeft, BeforeLoop,
        RequestMax, RequestsLeft, Waiting, ReadsLeft
<1>1. CASE Listen
  BY <1>1 DEF Listen
<1>2. CASE ListenFails
  BY <1>2 DEF ListenFails, NextAddress
<1>3. CASE NoMoreAddress
  BY <1>3 DEF NoMoreAddress, Fails, End
<1>4. CASE SendPing
  BY <1>4 DEF SendPing
<1>5. CASE SendPingFails
  BY <1>5 DEF SendPingFails, NextAddress, OnSocket
<1>6. CASE PingsLost
  BY <1>6 DEF PingsLost, NextAddress, OnSocket
<1>7. CASE ReadsUsedUp
  BY <1>7 DEF ReadsUsedUp, NextAttempt
<1>8. CASE ReadTimeout
  <2>1. CASE pc = "pong"
    BY <1>8, <2>1 DEF ReadTimeout, Reading, ReadAgain
  <2>2. CASE pc = "reply"
    BY <1>8, <2>2 DEF ReadTimeout, Reading, NextAttempt
  <2> QED
    BY <1>8, <2>1, <2>2, Zenon DEF ReadTimeout, Reading
<1>9. CASE ReadFails
  BY <1>9 DEF ReadFails, Reading, Fails, End
<1>10. ASSUME NEW m \in Message, ReadPong(m) PROVE Descends /\ WithinBounds'
  BY <1>10 DEF ReadPong, Reading, ReadAgain, Fails, End
<1>11. CASE GetToken
  BY <1>11 DEF GetToken
<1>12. CASE GetTokenFails
  BY <1>12 DEF GetTokenFails, Fails, End
<1>13. CASE SendRegister
  BY <1>13 DEF SendRegister
<1>14. CASE SendRegisterFails
  BY <1>14 DEF SendRegisterFails, Fails, End
<1>15. CASE RegisterLost
  BY <1>15 DEF RegisterLost, Fails, End
<1>16. ASSUME NEW m \in Message, ReadReply(m) PROVE Descends /\ WithinBounds'
  BY <1>16 DEF ReadReply, Reading, ReadAgain, End
<1> HIDE DEF Descends, WithinBounds
<1> QED
  BY <1>1, <1>2, <1>3, <1>4, <1>5, <1>6, <1>7, <1>8, <1>9, <1>10, <1>11,
     <1>12, <1>13, <1>14, <1>15, <1>16
     DEF Agent

\* A session the server opens does not give the agent more to do.
LEMMA ServerLeavesMeasure ==
    ASSUME NEW s \in Session, ServerRegisters(s)
    PROVE UNCHANGED <<Measure, attempt, RequestMax>>
BY DEF ServerRegisters, Measure, Phase, AddressesLeft, BeforeLoop, RequestMax, RequestsLeft,
       Waiting, ReadsLeft

\* The loops of Setup and Authenticate keep to their bounds: 3 pings to an
\* address, 5 registrations.
LEMMA WithinBoundsAlways == Spec => []WithinBounds
<1>1. Inv /\ WithinBounds /\ [Next]_vars => WithinBounds'
  <2> SUFFICES ASSUME Inv, WithinBounds, [Next]_vars PROVE WithinBounds'
    OBVIOUS
  <2>1. CASE \E s \in Session : ServerRegisters(s)
    <3>1. PICK s \in Session : ServerRegisters(s)
      BY <2>1
    <3> QED
      BY <3>1, ServerLeavesMeasure DEF WithinBounds
  <2>2. CASE UNCHANGED vars
    BY <2>2 DEF vars, WithinBounds, RequestMax
  <2> QED
    BY <2>1, <2>2, AgentDescends DEF Next
<1> QED
  BY <1>1, WithinBoundsInit, InvAlways, PTL DEF Spec

\* The handshake cannot go on for ever: the measure is one of natural
\* numbers, every step of the agent makes it smaller, and the only other
\* step, the server opening a session, leaves it as it is.
THEOREM HandshakeDescends ==
    Spec => /\ []MeasureIsNatural
            /\ [][Descends \/ ( /\ \E s \in Session : ServerRegisters(s)
                               /\ UNCHANGED Measure )]_vars
<1>1. Inv /\ WithinBounds /\ [Next]_vars =>
        [Descends \/ ( /\ \E s \in Session : ServerRegisters(s)
                      /\ UNCHANGED Measure )]_vars
  BY AgentDescends, ServerLeavesMeasure DEF Next
<1> QED
  BY <1>1, BoundsGiveMeasure, InvAlways, WithinBoundsAlways, PTL DEF Spec

=============================================================================

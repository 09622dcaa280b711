------------------------------ MODULE TcpTunnel ------------------------------
(***************************************************************************)
(* TcpTunnel.Connect (tunnel/tcp_tunnel.go): dial the tunnel server, write *)
(* the token of the ClaimInstructions, read once into 8 bytes, hand the    *)
(* stream to the caller.  How many bytes the read returned is not looked   *)
(* at: any number of them is an answer.                                    *)
(***************************************************************************)
EXTENDS Naturals

CONSTANT MaxDials    \* bound: calls of Connect

ASSUME TcpTunnelAssumption == MaxDials \in Nat

VARIABLES
    pc,       \* where Connect is
    dials,    \* streams dialled; the last one is Connect's
    open,     \* streams that are open
    given,    \* streams handed to the caller
    answered, \* external: something arrived on the last stream
    closed    \* external: the server closed it, or the network failed

vars == <<pc, dials, open, given, answered, closed>>

Init ==
    /\ pc = "idle" /\ dials = 0
    /\ open = {} /\ given = {}
    /\ answered = FALSE /\ closed = FALSE

\* DialTCP; a dial that fails leaves no socket.
Dial ==
    /\ pc = "idle"
    /\ dials < MaxDials
    /\ dials' = dials + 1
    /\ answered' = FALSE /\ closed' = FALSE
    /\ \/ pc' = "write" /\ open' = open \cup {dials'}
       \/ UNCHANGED <<pc, open>>
    /\ UNCHANGED given

\* Mutant: the error returns forget the stream.
JustReturn == pc' = "idle" /\ UNCHANGED open

\* stream.Close() and return the error
CloseAndReturn == pc' = "idle" /\ open' = open \ {dials}

\* stream.Write(Token): it may succeed though the server is gone.
Write ==
    /\ pc = "write"
    /\ \/ pc' = "read" /\ UNCHANGED open
       \/ closed /\ CloseAndReturn
    /\ UNCHANGED <<dials, given, answered, closed>>

\* The one Read into make([]byte, 8) returns what there is, or the error.
Read ==
    /\ pc = "read"
    /\ \/ /\ answered
          /\ pc' = "idle"
          /\ given' = given \cup {dials}
          /\ UNCHANGED open
       \/ /\ ~ answered /\ closed
          /\ CloseAndReturn
          /\ UNCHANGED given
    /\ UNCHANGED <<dials, answered, closed>>

\* Bytes arrive once the token is written.
Arrive ==
    /\ pc = "read" /\ ~ closed /\ ~ answered
    /\ answered' = TRUE
    /\ UNCHANGED <<pc, dials, open, given, closed>>

Hangup ==
    /\ pc \in {"write", "read"} /\ ~ closed
    /\ closed' = TRUE
    /\ UNCHANGED <<pc, dials, open, given, answered>>

Next == Dial \/ Write \/ Read \/ Arrive \/ Hangup

\* Connect sets no deadline: that the server answers or hangs up is an
\* assumption, without which Read blocks forever.
Fairness ==
    /\ WF_vars(Write) /\ WF_vars(Read)
    /\ WF_vars(~ answered /\ (Hangup \/ Arrive))

Spec == Init /\ [][Next]_vars /\ Fairness

-----------------------------------------------------------------------------
\* A stream that Connect does not hand out is closed when it returns, on
\* every path, however many calls fail.
NoStreamLeaks == pc = "idle" => open = given

\* Connect returns when the server answers or hangs up.
ConnectReturns == pc = "write" ~> pc = "idle"

=============================================================================

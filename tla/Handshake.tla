----------------------------- MODULE Handshake ------------------------------
(***************************************************************************)
(* What the handshake with a control server (tunnel/setup.go) promises its *)
(* callers: it connects to one of the given addresses, or fails; a         *)
(* connected one is authenticated, fails, or panics; and it ends.  These   *)
(* are the outcomes AgentLoop builds on.                                   *)
(***************************************************************************)
CONSTANTS
    Target,   \* the addresses to choose from
    NoAddr    \* not connected

VARIABLES
    outcome,  \* of the handshake
    control   \* the address connected to

Outcome == {"pending", "connected", "authenticated", "error", "panic"}

Init ==
    \/ outcome = "pending" /\ control = NoAddr
    \/ outcome = "connected" /\ control \in Target

Connect(a) ==
    /\ outcome = "pending"
    /\ outcome' = "connected"
    /\ control' = a

End(o) ==
    /\ outcome \in (IF o = "error" THEN {"pending", "connected"} ELSE {"connected"})
    /\ outcome' = o
    /\ UNCHANGED control

Next ==
    \/ \E a \in Target : Connect(a)
    \/ \E o \in {"authenticated", "error", "panic"} : End(o)

\* Each outcome follows from the ones before it.
Safety == Init /\ [][Next]_<<outcome, control>>

\* And the handshake ends.
Spec == Safety /\ WF_<<outcome, control>>(Next)

=============================================================================

----------------------------- MODULE UdpSession -----------------------------
(***************************************************************************)
(* What the UDP session of the agent promises, whoever works on it: it is  *)
(* known to the tunnel server once the token of its channel was written    *)
(* there and stays known; only a known session is confirmed; sending and   *)
(* confirming touch a stamp of their own; and the stamps are cleared       *)
(* together or one after the other.  UdpTunnel, with a step for every      *)
(* store, implements it.  A stamp may be old when it is stored: a store    *)
(* that follows an InvalidateSession revives the session, as in the code.  *)
(***************************************************************************)
EXTENDS Naturals

CONSTANT Stamp   \* values of now_sec()

VARIABLES
    known,    \* the server can echo the token of the channel
    send,     \* LastSend
    confirm   \* LastConfirm

session == <<known, send, confirm>>

Init == known \in BOOLEAN /\ send = 0 /\ confirm = 0

\* The token goes out; the stamp may follow.
Announce == known' = TRUE /\ UNCHANGED <<send, confirm>>

Send(s) ==
    /\ send' = s
    /\ known' \in {known, TRUE}
    /\ UNCHANGED confirm

Confirm(s) ==
    /\ known
    /\ confirm' = s
    /\ UNCHANGED <<known, send>>

Invalidate ==
    /\ send' \in {0, send}
    /\ confirm' \in {0, confirm}
    /\ UNCHANGED known

Next == Announce \/ Invalidate \/ \E s \in Stamp : Send(s) \/ Confirm(s)

Spec == Init /\ [][Next]_session

=============================================================================

------------------------------ MODULE UdpClock ------------------------------
(***************************************************************************)
(* The second counters of a UdpTunnel (tunnel/udp_tunnel.go) and the two   *)
(* questions Update asks of them.  LastConfirm and LastSend are uint32     *)
(* second stamps taken from now_sec(), which truncates the milliseconds to *)
(* uint32 BEFORE dividing by 1000: the counter restarts at 0 every 49.7    *)
(* days, while the subtractions wrap at 2^32.                              *)
(***************************************************************************)
EXTENDS Integers

CONSTANTS
    SecMax,       \* the last value of now_sec() before it restarts at 0 (4294967)
    U32,          \* the modulus of uint32 arithmetic (2^32)
    AuthAfter,    \* 5: seconds after a token was sent without a confirmation
    ResendAfter   \* 10: seconds after the last confirmation

\* The order of the thresholds and the room between the counter and 2^32.
ASSUME UdpClockAssumption ==
    /\ SecMax \in Nat
    /\ U32 \in Nat
    /\ AuthAfter \in Nat
    /\ ResendAfter \in Nat
    /\ SecMax < U32
    /\ AuthAfter < ResendAfter

Sec == 0..SecMax

\* Mutant: the milliseconds are divided before they are truncated.
NextSecLong(s) == s + 1

\* now_sec() one second later
NextSec(s) == IF s = SecMax THEN 0 ELSE s + 1

\* uint32 subtraction
Sub32(a, b) == IF a >= b THEN a - b ELSE (a - b) + U32

RequireResend(confirm, s) == ResendAfter < Sub32(s, confirm)

\* Mutant: an unsent token (stamp 0) is taken for one that is still awaited.
RequiresAuthOnlyAfterSend(confirm, send, s) ==
    /\ send # 0
    /\ ~(send < confirm)
    /\ AuthAfter < Sub32(s, send)

RequiresAuth(confirm, send, s) ==
    /\ ~(send < confirm)
    /\ AuthAfter < Sub32(s, send)

=============================================================================

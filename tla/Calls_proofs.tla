---------------------------- MODULE Calls_proofs ----------------------------
(***************************************************************************)
(* The calls that wait for somebody outside, Connect, ClaimAgentSecret and *)
(* CreateTunnel: Connect leaks no stream; claims and creations by any      *)
(* finite number of goroutines, and any number of calls.                   *)
(***************************************************************************)
EXTENDS TcpTunnel, Claim, Tunnels, FiniteSetTheorems, TLAPS

-----------------------------------------------------------------------------
(* TcpTunnel.                                                              *)

\* Streams are numbered, so the one being connected is not one handed out.
Numbered ==
    /\ pc \in {"idle", "write", "read"}
    /\ dials \in Nat
    /\ given \subseteq 1..dials
    /\ pc # "idle" => dials >= 1 /\ dials \notin given

\* What is open: the streams handed out and, during a call, the call's own.
Accounted ==
    open = IF pc = "idle" THEN given ELSE given \cup {dials}

StreamInv == Numbered /\ Accounted

\* Before the first call there is no stream.
LEMMA StreamInitInv == Init => StreamInv
  BY DEF Init, StreamInv, Numbered, Accounted

\* Every step of Connect and of the server keeps the invariant.
LEMMA StreamNextInv == StreamInv /\ [Next]_vars => StreamInv'
  <1> SUFFICES ASSUME StreamInv, [Next]_vars PROVE StreamInv'
    OBVIOUS
  <1> USE DEF StreamInv, Numbered, Accounted
  <1>1. CASE Dial
    BY <1>1, TcpTunnelAssumption DEF Dial
  <1>2. CASE Write
    BY <1>2 DEF Write, CloseAndReturn
  <1>3. CASE Read
    <2>1. CASE pc' = "idle" /\ given' = given \cup {dials} /\ UNCHANGED <<dials, open>>
      BY <1>3, <2>1 DEF Read
    <2>2. CASE CloseAndReturn /\ UNCHANGED <<dials, given>>
      BY <1>3, <2>2 DEF Read, CloseAndReturn
    <2> QED BY <1>3, <2>1, <2>2 DEF Read
  <1>4. CASE Arrive \/ Hangup
    BY <1>4 DEF Arrive, Hangup
  <1>5. CASE UNCHANGED vars
    BY <1>5 DEF vars
  <1> QED BY <1>1, <1>2, <1>3, <1>4, <1>5 DEF Next

\* The invariant of Connect holds in every state.
THEOREM StreamInvAlways == Spec => []StreamInv
  BY StreamInitInv, StreamNextInv, PTL DEF Spec

\* On every return of Connect the open streams are those handed out: both
\* error returns after the dial close theirs.
THEOREM NoStreamLeaksAlways == Spec => []NoStreamLeaks
  <1>1. StreamInv => NoStreamLeaks
    BY DEF StreamInv, Accounted, NoStreamLeaks
  <1> QED BY <1>1, StreamInvAlways, PTL

-----------------------------------------------------------------------------
(* Claim.                                                                  *)

\* Calls of AiisgnClaimCode between their test of the code and their write,
\* and claims that passed their test of the secret.
Drawing == {c \in Caller : claimPc[c] = "random"}

Claiming == {c \in Caller : claimPc[c] \in {"setup", "decide", "exchange", "store"}}

ClaimType ==
    /\ claimPc \in [Caller -> {"idle", "random", "setup", "decide", "exchange", "store"}]
    /\ body \in [Caller -> Nat] /\ DOMAIN claimAnswer = Caller
    /\ calls \in 0..MaxCalls /\ issued \in Nat /\ Secret \in Nat
    /\ DOMAIN user = Codes

\* Codes are numbered in the order they are drawn.
Numbering ==
    /\ Cardinality(codes) \in Nat /\ codes = 1..Cardinality(codes)
    /\ Code \in codes \/ (Code = 0 /\ codes = {})
    /\ exchanged \subseteq codes

\* A goroutine draws a code only while there is none, so those that may still
\* write one were there before the first; the same for secrets.  Each code
\* also took a call, so that their number stays within the bound.
CodeBudget ==
    /\ Cardinality(codes) + Cardinality(Drawing) <= Cardinality(Caller)
    /\ Cardinality(codes) + Cardinality(Drawing) <= calls

SecretBudget ==
    /\ IsFiniteSet(stored)
    /\ Secret = 0 => stored = {}
    /\ Cardinality(stored) + Cardinality(Claiming) <= Cardinality(Caller)

\* The consent to the code of a claim, from the answer of a poll to the
\* exchange, and in the answer of the exchange.
Consent ==
    \A c \in Caller :
        /\ claimPc[c] \in {"setup", "decide", "exchange"} => body[c] \in codes
        /\ claimPc[c] = "decide" /\ claimAnswer[c] = "UserAccepted" =>
             user[body[c]] = "UserAccepted"
        /\ claimPc[c] = "exchange" =>
             user[body[c]] = "UserAccepted" \/ Cardinality(codes) > 1
        /\ claimPc[c] = "store" /\ claimAnswer[c] = "secret" => body[c] # 0

ClaimInv ==
    ClaimType /\ Numbering /\ CodeBudget /\ SecretBudget /\ Consent /\ ExchangeNeedsConsent

\* Sizes of finite sets: of a part, with one element less or more.
LEMMA PartSize ==
    ASSUME NEW S, IsFiniteSet(S), NEW T \in SUBSET S
    PROVE  /\ IsFiniteSet(T) /\ Cardinality(S) \in Nat /\ Cardinality(T) \in Nat
           /\ Cardinality(T) <= Cardinality(S)
  BY FS_Subset, FS_CardinalityType

\* ... without one element.
LEMMA OneLess ==
    ASSUME NEW S, IsFiniteSet(S), NEW x \in S
    PROVE  Cardinality(S) \in Nat /\ Cardinality(S \ {x}) = Cardinality(S) - 1
  BY FS_RemoveElement, FS_CardinalityType

\* ... with one element more.
LEMMA OneMore ==
    ASSUME NEW S, IsFiniteSet(S), NEW x
    PROVE  /\ IsFiniteSet(S \cup {x}) /\ Cardinality(S) \in Nat
           /\ Cardinality(S \cup {x}) \in Nat /\ Cardinality(S \cup {x}) <= Cardinality(S) + 1
  BY FS_AddElement, FS_CardinalityType

\* What a caller's move does to the two groups.
LEMMA Regroup ==
    ASSUME ClaimType, NEW c \in Caller, NEW l, ClaimGoto(c, l)
    PROVE  /\ Drawing' = IF l = "random" THEN Drawing \cup {c} ELSE Drawing \ {c}
           /\ Claiming' = IF l \in {"setup", "decide", "exchange", "store"}
                          THEN Claiming \cup {c} ELSE Claiming \ {c}
           /\ \A d \in Caller \ {c} : claimPc'[d] = claimPc[d]
           /\ claimPc'[c] = l
  BY DEF ClaimType, ClaimGoto, Drawing, Claiming

\* A step that writes no code keeps the budget unless it starts to draw one.
LEMMA CodeBudgetKept ==
    ASSUME ClaimInv, codes' = codes, calls' \in Nat, calls' >= calls, Drawing' \subseteq Drawing
    PROVE  CodeBudget'
  <1>1. IsFiniteSet(Drawing)
    BY ClaimAssumption, PartSize DEF Drawing
  <1>2. /\ Cardinality(Drawing) \in Nat /\ Cardinality(Drawing') \in Nat
        /\ Cardinality(Drawing') <= Cardinality(Drawing)
    BY <1>1, PartSize
  <1>3. Cardinality(Caller) \in Nat
    BY ClaimAssumption, FS_CardinalityType
  <1> QED BY <1>2, <1>3 DEF ClaimInv, CodeBudget, Numbering, ClaimType

\* The same for the secrets.
LEMMA SecretBudgetKept ==
    ASSUME ClaimInv, UNCHANGED <<Secret, stored>>, Claiming' \subseteq Claiming
    PROVE  SecretBudget'
  <1>1. IsFiniteSet(Claiming)
    BY ClaimAssumption, PartSize DEF Claiming
  <1>2. /\ Cardinality(Claiming) \in Nat /\ Cardinality(Claiming') \in Nat
        /\ Cardinality(Claiming') <= Cardinality(Claiming)
    BY <1>1, PartSize
  <1>3. Cardinality(Caller) \in Nat /\ Cardinality(stored) \in Nat
    BY ClaimAssumption, FS_CardinalityType DEF ClaimInv, SecretBudget
  <1> QED BY <1>2, <1>3 DEF ClaimInv, SecretBudget

\* All codes are among those the user knows of.
LEMMA CodesKnown == ClaimInv => codes \subseteq Codes
  <1> SUFFICES ASSUME ClaimInv PROVE codes \subseteq Codes
    OBVIOUS
  <1>1. Cardinality(Drawing) \in Nat
    BY ClaimAssumption, PartSize DEF Drawing
  <1>2. Cardinality(codes) <= MaxCalls
    BY <1>1, ClaimAssumption DEF ClaimInv, CodeBudget, ClaimType, Numbering
  <1> QED BY <1>2, ClaimAssumption DEF ClaimInv, Numbering, Codes

-----------------------------------------------------------------------------
\* A goroutine begins to draw a code.
LEMMA AiisgnClaimCodeInv ==
    ASSUME ClaimInv, NEW c \in Caller, AiisgnClaimCode(c) PROVE ClaimInv'
  <1>1. /\ claimPc[c] = "idle" /\ Code = 0 /\ calls' = calls + 1 /\ calls < MaxCalls
        /\ ClaimGoto(c, "random")
        /\ UNCHANGED <<Code, Secret, body, claimAnswer, codes, exchanged, stored, user, issued>>
    BY DEF AiisgnClaimCode, Call, api, history, service
  <1>2. /\ Drawing' = Drawing \cup {c} /\ Claiming' = Claiming \ {c}
        /\ \A d \in Caller \ {c} : claimPc'[d] = claimPc[d]
        /\ claimPc'[c] = "random"
    BY <1>1, Regroup DEF ClaimInv
  <1>3. ClaimType'
    BY <1>1, ClaimAssumption DEF ClaimInv, ClaimType, ClaimGoto
  <1>4. Numbering'
    BY <1>1 DEF ClaimInv, Numbering
  <1>5. CodeBudget'
    <2>1. Cardinality(codes) = 0
      BY <1>1, FS_EmptySet DEF ClaimInv, Numbering
    <2>2. IsFiniteSet(Drawing) /\ Drawing' \in SUBSET Caller
      BY ClaimAssumption, PartSize DEF Drawing
    <2>3. /\ Cardinality(Caller) \in Nat /\ Cardinality(Drawing') \in Nat
          /\ Cardinality(Drawing') <= Cardinality(Caller)
      BY <2>2, ClaimAssumption, PartSize
    <2>4. Cardinality(Drawing) \in Nat /\ Cardinality(Drawing') <= Cardinality(Drawing) + 1
      BY <1>2, <2>2, OneMore
    <2>5. codes' = codes /\ calls' = calls + 1 /\ calls \in Nat /\ Cardinality(Drawing) <= calls
      BY <1>1, <2>1, <2>4, ClaimAssumption DEF ClaimInv, ClaimType, CodeBudget
    <2> QED BY <2>1, <2>3, <2>4, <2>5 DEF CodeBudget
  <1>6. SecretBudget'
    BY <1>1, <1>2, SecretBudgetKept
  <1>7. Consent'
    BY <1>1, <1>2 DEF ClaimInv, Consent
  <1>8. ExchangeNeedsConsent'
    BY <1>1 DEF ClaimInv, ExchangeNeedsConsent
  <1> QED BY <1>3, <1>4, <1>5, <1>6, <1>7, <1>8 DEF ClaimInv

\* It writes the code, over another one that was written meanwhile.
LEMMA AssignCodeInv ==
    ASSUME ClaimInv, NEW c \in Caller, AssignCode(c) PROVE ClaimInv'
  <1>1. /\ claimPc[c] = "random" /\ ClaimGoto(c, "idle")
        /\ UNCHANGED <<Secret, body, claimAnswer, calls, exchanged, stored, user, issued>>
    BY DEF AssignCode, service
  <1>2. /\ Drawing' = Drawing \ {c} /\ Claiming' = Claiming \ {c} /\ c \in Drawing
        /\ \A d \in Caller \ {c} : claimPc'[d] = claimPc[d]
        /\ claimPc'[c] = "idle"
    BY <1>1, Regroup DEF ClaimInv, Drawing
  <1>3. ClaimType'
    BY <1>1 DEF ClaimInv, ClaimType, ClaimGoto
  <1>4. SecretBudget'
    BY <1>1, <1>2, SecretBudgetKept
  <1>5. CASE UNCHANGED <<Code, codes>>
    <2>1. Numbering'
      BY <1>1, <1>5 DEF ClaimInv, Numbering
    <2>2. CodeBudget'
      BY <1>1, <1>2, <1>5, CodeBudgetKept DEF ClaimInv, ClaimType
    <2>3. Consent'
      BY <1>1, <1>2, <1>5 DEF ClaimInv, Consent
    <2>4. ExchangeNeedsConsent'
      BY <1>1, <1>5 DEF ClaimInv, ExchangeNeedsConsent
    <2> QED BY <1>3, <1>4, <2>1, <2>2, <2>3, <2>4 DEF ClaimInv
  <1>6. ASSUME Code' = Cardinality(codes) + 1, codes' = codes \cup {Cardinality(codes) + 1}
        PROVE  ClaimInv'
    <2>1. /\ Cardinality(codes) \in Nat /\ codes = 1..Cardinality(codes)
          /\ codes' = 1..(Cardinality(codes) + 1)
      BY <1>6 DEF ClaimInv, Numbering
    <2>2. Cardinality(codes') = Cardinality(codes) + 1
      BY <2>1, FS_Interval
    <2>3. Numbering'
      <3>1. exchanged' \subseteq codes'
        BY <1>1, <1>6 DEF ClaimInv, Numbering
      <3>2. Code' \in codes'
        BY <1>6
      <3>3. Cardinality(codes') \in Nat /\ codes' = 1..Cardinality(codes')
        BY <2>1, <2>2
      <3> QED BY <3>1, <3>2, <3>3 DEF Numbering
    <2>4. CodeBudget'
      <3>1. IsFiniteSet(Drawing) /\ Cardinality(Caller) \in Nat
        BY ClaimAssumption, PartSize, FS_CardinalityType DEF Drawing
      <3>2. Cardinality(Drawing) \in Nat /\ Cardinality(Drawing') = Cardinality(Drawing) - 1
        BY <1>2, <3>1, OneLess
      <3> QED BY <1>1, <2>1, <2>2, <3>1, <3>2 DEF ClaimInv, ClaimType, CodeBudget
    <2>5. Consent'
      BY <1>1, <1>2, <2>1, <2>2 DEF ClaimInv, Consent
    <2>6. ExchangeNeedsConsent'
      BY <1>1, <2>1, <2>2 DEF ClaimInv, ExchangeNeedsConsent
    <2> QED BY <1>3, <1>4, <2>3, <2>4, <2>5, <2>6 DEF ClaimInv
  <1> QED BY <1>5, <1>6 DEF AssignCode

\* A goroutine begins to claim, with the code there is.
LEMMA ClaimAgentSecretInv ==
    ASSUME ClaimInv, NEW c \in Caller, ClaimAgentSecret(c) PROVE ClaimInv'
  <1>1. /\ claimPc[c] = "idle" /\ Code # 0 /\ Secret = 0 /\ calls' = calls + 1 /\ calls < MaxCalls
        /\ ClaimGoto(c, "setup") /\ body' = [body EXCEPT ![c] = Code]
        /\ UNCHANGED <<Code, Secret, claimAnswer, codes, exchanged, stored, user, issued>>
    BY DEF ClaimAgentSecret, Call, api, history, service
  <1>2. /\ Drawing' = Drawing \ {c} /\ Claiming' = Claiming \cup {c}
        /\ \A d \in Caller \ {c} : claimPc'[d] = claimPc[d]
        /\ claimPc'[c] = "setup"
    BY <1>1, Regroup DEF ClaimInv
  <1>3. Code \in codes /\ Code \in Nat
    BY <1>1 DEF ClaimInv, Numbering
  <1>4. ClaimType'
    BY <1>1, <1>3, ClaimAssumption DEF ClaimInv, ClaimType, ClaimGoto
  <1>5. Numbering'
    BY <1>1 DEF ClaimInv, Numbering
  <1>6. CodeBudget'
    BY <1>1, <1>2, CodeBudgetKept DEF ClaimInv, ClaimType
  <1>7. SecretBudget'
    <2>1. stored = {} /\ Cardinality(stored) = 0
      BY <1>1, FS_EmptySet DEF ClaimInv, SecretBudget
    <2>2. /\ Cardinality(Caller) \in Nat /\ Cardinality(Claiming') \in Nat
          /\ Cardinality(Claiming') <= Cardinality(Caller)
      <3>1. Claiming' \in SUBSET Caller
        BY DEF Claiming
      <3> QED BY <3>1, ClaimAssumption, PartSize
    <2> QED BY <1>1, <2>1, <2>2, FS_EmptySet DEF SecretBudget
  <1>8. Consent'
    BY <1>1, <1>2, <1>3 DEF ClaimInv, Consent, ClaimType
  <1>9. ExchangeNeedsConsent'
    BY <1>1 DEF ClaimInv, ExchangeNeedsConsent
  <1> QED BY <1>4, <1>5, <1>6, <1>7, <1>8, <1>9 DEF ClaimInv

\* A poll of the claim: the service answers, or the answer is lost.
LEMMA SetupInv ==
    ASSUME ClaimInv, NEW c \in Caller, Setup(c) PROVE ClaimInv'
  <1>1. PICK a \in requestToApi(user[body[c]]) : claimAnswer' = [claimAnswer EXCEPT ![c] = a]
    BY DEF Setup
  <1>2. /\ claimPc[c] = "setup" /\ ClaimGoto(c, "decide")
        /\ UNCHANGED <<Code, Secret, body, calls, codes, exchanged, stored, user, issued>>
    BY DEF Setup, api, history, service
  <1>3. /\ Drawing' = Drawing \ {c} /\ Claiming' = Claiming
        /\ \A d \in Caller \ {c} : claimPc'[d] = claimPc[d]
        /\ claimPc'[c] = "decide"
    BY <1>2, Regroup DEF ClaimInv, Claiming
  <1>4. ClaimType'
    BY <1>1, <1>2 DEF ClaimInv, ClaimType, ClaimGoto
  <1>5. Numbering'
    BY <1>2 DEF ClaimInv, Numbering
  <1>6. CodeBudget'
    BY <1>2, <1>3, CodeBudgetKept DEF ClaimInv, ClaimType
  <1>7. SecretBudget'
    BY <1>2, <1>3, SecretBudgetKept
  <1>8. Consent'
    BY <1>1, <1>2, <1>3 DEF ClaimInv, Consent, ClaimType, requestToApi
  <1>9. ExchangeNeedsConsent'
    BY <1>2 DEF ClaimInv, ExchangeNeedsConsent
  <1> QED BY <1>4, <1>5, <1>6, <1>7, <1>8, <1>9 DEF ClaimInv

\* The code that Decide reads again is the code that was polled, unless
\* another was drawn.
LEMMA DecideInv ==
    ASSUME ClaimInv, NEW c \in Caller, Decide(c) PROVE ClaimInv'
  <1>1. /\ claimPc[c] = "decide"
        /\ UNCHANGED <<Code, Secret, claimAnswer, calls, codes, exchanged, stored, user, issued>>
    BY DEF Decide, api, history, service
  <1>2. PICK l \in {"idle", "setup", "exchange"} :
          /\ ClaimGoto(c, l)
          /\ IF l = "exchange"
             THEN claimAnswer[c] = "UserAccepted" /\ body' = [body EXCEPT ![c] = Code]
             ELSE UNCHANGED body
    BY DEF Decide
  <1>3. /\ Drawing' = Drawing \ {c} /\ Claiming' \subseteq Claiming
        /\ \A d \in Caller \ {c} : claimPc'[d] = claimPc[d]
        /\ claimPc'[c] = l
    BY <1>1, <1>2, Regroup DEF ClaimInv, Claiming
  <1>4. Code \in codes /\ body[c] \in codes /\ Code \in Nat
    BY <1>1 DEF ClaimInv, Consent, Numbering
  <1>5. ClaimType'
    BY <1>1, <1>2, <1>4 DEF ClaimInv, ClaimType, ClaimGoto
  <1>6. Numbering'
    BY <1>1 DEF ClaimInv, Numbering
  <1>7. CodeBudget'
    BY <1>1, <1>3, CodeBudgetKept DEF ClaimInv, ClaimType
  <1>8. SecretBudget'
    BY <1>1, <1>3, SecretBudgetKept
  <1>9. Consent'
    <2>1. CASE l = "exchange"
      <3>1. user[body[c]] = "UserAccepted"
        BY <1>1, <1>2, <2>1 DEF ClaimInv, Consent
      <3>2. Code = body[c] \/ Cardinality(codes) > 1
        BY <1>4 DEF ClaimInv, Numbering
      <3>3. body'[c] = Code /\ \A d \in Caller \ {c} : body'[d] = body[d]
        BY <1>2, <2>1 DEF ClaimInv, ClaimType
      <3> QED BY <1>1, <1>3, <1>4, <2>1, <3>1, <3>2, <3>3 DEF ClaimInv, Consent
    <2>2. CASE l # "exchange"
      BY <1>1, <1>2, <1>3, <2>2 DEF ClaimInv, Consent
    <2> QED BY <2>1, <2>2
  <1>10. ExchangeNeedsConsent'
    BY <1>1 DEF ClaimInv, ExchangeNeedsConsent
  <1> QED BY <1>5, <1>6, <1>7, <1>8, <1>9, <1>10 DEF ClaimInv

\* The exchange takes the code there is now.
LEMMA ExchangeInv ==
    ASSUME ClaimInv, NEW c \in Caller, Exchange(c) PROVE ClaimInv'
  <1>1. /\ claimPc[c] = "exchange" /\ ClaimGoto(c, "store")
        /\ exchanged' = exchanged \cup {body[c]}
        /\ UNCHANGED <<Code, Secret, calls, codes, stored, user>>
    BY DEF Exchange, api
  <1>2. /\ Drawing' = Drawing \ {c} /\ Claiming' = Claiming
        /\ \A d \in Caller \ {c} : claimPc'[d] = claimPc[d]
        /\ claimPc'[c] = "store"
    BY <1>1, Regroup DEF ClaimInv, Claiming
  <1>3. /\ issued' \in Nat /\ body' \in [Caller -> Nat] /\ DOMAIN claimAnswer' = Caller
        /\ \A d \in Caller \ {c} : body'[d] = body[d] /\ claimAnswer'[d] = claimAnswer[d]
        /\ claimAnswer'[c] = "secret" => body'[c] # 0
    <2>1. CASE user[body[c]] = "UserAccepted"
      BY <2>1 DEF Exchange, ClaimInv, ClaimType
    <2>2. CASE user[body[c]] # "UserAccepted"
      BY <2>2 DEF Exchange, ClaimInv, ClaimType
    <2> QED BY <2>1, <2>2
  <1>4. ClaimType'
    BY <1>1, <1>3 DEF ClaimInv, ClaimType, ClaimGoto
  <1>5. Numbering'
    BY <1>1 DEF ClaimInv, Numbering, Consent
  <1>6. CodeBudget'
    BY <1>1, <1>2, CodeBudgetKept DEF ClaimInv, ClaimType
  <1>7. SecretBudget'
    BY <1>1, <1>2, SecretBudgetKept
  <1>8. Consent'
    BY <1>1, <1>2, <1>3 DEF ClaimInv, Consent
  <1>9. ExchangeNeedsConsent'
    BY <1>1 DEF ClaimInv, ExchangeNeedsConsent, Consent
  <1> QED BY <1>4, <1>5, <1>6, <1>7, <1>8, <1>9 DEF ClaimInv

\* The secret is stored, or the error returned.
LEMMA StoreInv ==
    ASSUME ClaimInv, NEW c \in Caller, Store(c) PROVE ClaimInv'
  <1>1. /\ claimPc[c] = "store" /\ ClaimGoto(c, "idle")
        /\ UNCHANGED <<Code, body, claimAnswer, calls, codes, exchanged, user, issued>>
    BY DEF Store, service
  <1>2. /\ Drawing' = Drawing \ {c} /\ Claiming' = Claiming \ {c} /\ c \in Claiming
        /\ \A d \in Caller \ {c} : claimPc'[d] = claimPc[d]
        /\ claimPc'[c] = "idle"
    BY <1>1, Regroup DEF ClaimInv, Claiming
  <1>3. ClaimType'
    BY <1>1 DEF Store, ClaimInv, ClaimType, ClaimGoto
  <1>4. Numbering'
    BY <1>1 DEF ClaimInv, Numbering
  <1>5. CodeBudget'
    BY <1>1, <1>2, CodeBudgetKept DEF ClaimInv, ClaimType
  <1>6. SecretBudget'
    <2>1. CASE claimAnswer[c] = "secret"
      <3>1. Secret' = body[c] /\ stored' = stored \cup {body[c]} /\ body[c] # 0
        BY <1>1, <2>1 DEF Store, ClaimInv, Consent
      <3>2. /\ IsFiniteSet(stored') /\ Cardinality(stored) \in Nat
            /\ Cardinality(stored') \in Nat /\ Cardinality(stored') <= Cardinality(stored) + 1
        BY <3>1, OneMore DEF ClaimInv, SecretBudget
      <3>3. IsFiniteSet(Claiming) /\ Cardinality(Caller) \in Nat
        BY ClaimAssumption, PartSize, FS_CardinalityType DEF Claiming
      <3>4. Cardinality(Claiming) \in Nat /\ Cardinality(Claiming') = Cardinality(Claiming) - 1
        BY <1>2, <3>3, OneLess
      <3> QED BY <3>1, <3>2, <3>3, <3>4 DEF ClaimInv, SecretBudget
    <2>2. CASE claimAnswer[c] # "secret"
      <3>1. UNCHANGED <<Secret, stored>>
        BY <2>2 DEF Store
      <3> QED BY <1>2, <3>1, SecretBudgetKept
    <2> QED BY <2>1, <2>2
  <1>7. Consent'
    BY <1>1, <1>2 DEF ClaimInv, Consent
  <1>8. ExchangeNeedsConsent'
    BY <1>1 DEF ClaimInv, ExchangeNeedsConsent
  <1> QED BY <1>3, <1>4, <1>5, <1>6, <1>7, <1>8 DEF ClaimInv

\* The user never withdraws a decision.
LEMMA UserInv ==
    ASSUME ClaimInv, NEW x \in Codes, User(x) PROVE ClaimInv'
  <1>1. UNCHANGED <<Code, Secret, claimPc, body, claimAnswer, calls, codes, exchanged, stored,
                    issued>>
    BY DEF User, api, request, history
  <1>2. /\ DOMAIN user' = Codes
        /\ \A y \in Codes : user[y] = "UserAccepted" => user'[y] = "UserAccepted"
    BY DEF User, ClaimInv, ClaimType
  <1>3. codes \subseteq Codes
    BY CodesKnown
  <1>4. ClaimType' /\ Numbering'
    BY <1>1, <1>2 DEF ClaimInv, ClaimType, Numbering
  <1>5. CodeBudget' /\ SecretBudget'
    BY <1>1 DEF ClaimInv, CodeBudget, SecretBudget, Drawing, Claiming
  <1>6. Consent'
    BY <1>1, <1>2, <1>3 DEF ClaimInv, Consent
  <1>7. ExchangeNeedsConsent'
    BY <1>1, <1>2, <1>3 DEF ClaimInv, ExchangeNeedsConsent, Numbering
  <1> QED BY <1>4, <1>5, <1>6, <1>7 DEF ClaimInv

\* At first there is neither code nor secret.
LEMMA ClaimInitInv == ClaimInit => ClaimInv
  <1> SUFFICES ASSUME ClaimInit PROVE ClaimInv
    OBVIOUS
  <1>1. Drawing = {} /\ Claiming = {} /\ codes = {} /\ stored = {} /\ exchanged = {}
    BY DEF ClaimInit, Drawing, Claiming
  <1>2. Cardinality({}) = 0 /\ IsFiniteSet({}) /\ Cardinality(Caller) \in Nat
    BY ClaimAssumption, FS_EmptySet, FS_CardinalityType
  <1>3. ClaimType
    BY ClaimAssumption DEF ClaimInit, ClaimType
  <1>4. Numbering
    BY <1>1, <1>2 DEF ClaimInit, Numbering
  <1>5. CodeBudget /\ SecretBudget
    BY <1>1, <1>2 DEF ClaimInit, CodeBudget, SecretBudget
  <1>6. Consent /\ ExchangeNeedsConsent
    BY <1>1 DEF ClaimInit, Consent, ExchangeNeedsConsent
  <1> QED BY <1>3, <1>4, <1>5, <1>6 DEF ClaimInv

\* Every step of the callers, the service and the user keeps the invariant.
LEMMA ClaimNextInv == ClaimInv /\ [ClaimNext]_claimVars => ClaimInv'
  <1> SUFFICES ASSUME ClaimInv, [ClaimNext]_claimVars PROVE ClaimInv'
    OBVIOUS
  <1>1. ASSUME NEW c \in Caller,
               AiisgnClaimCode(c) \/ ClaimAgentSecret(c) \/ ClaimStep(c) \/ Service(c)
        PROVE  ClaimInv'
    BY <1>1, AiisgnClaimCodeInv, AssignCodeInv, ClaimAgentSecretInv, SetupInv, DecideInv,
       ExchangeInv, StoreInv DEF ClaimStep, Service
  <1>2. ASSUME NEW x \in Codes, User(x) PROVE ClaimInv'
    BY <1>2, UserInv
  <1>3. CASE UNCHANGED claimVars
    BY <1>3 DEF claimVars, api, request, history, service, ClaimInv, ClaimType, Numbering,
       CodeBudget, SecretBudget, Consent, ExchangeNeedsConsent, Drawing, Claiming
  <1> QED BY <1>1, <1>2, <1>3 DEF ClaimNext

\* However many goroutines share the Api, and however often they call, a code
\* or a secret is replaced only by calls that overlapped when the first was
\* assigned: neither is assigned more often than there are goroutines.
THEOREM ReplacedOnlyByOverlapAlways == ClaimSpec => []ReplacedOnlyByOverlap
  <1>1. ClaimInv => ReplacedOnlyByOverlap
    <2> SUFFICES ASSUME ClaimInv PROVE ReplacedOnlyByOverlap
      OBVIOUS
    <2>1. /\ Cardinality(Caller) \in Nat
          /\ Cardinality(Drawing) \in Nat /\ Cardinality(Claiming) \in Nat
      BY ClaimAssumption, PartSize DEF Drawing, Claiming
    <2>2. Cardinality(codes) \in Nat /\ Cardinality(stored) \in Nat
      BY FS_CardinalityType DEF ClaimInv, Numbering, SecretBudget
    <2> QED BY <2>1, <2>2 DEF ClaimInv, CodeBudget, SecretBudget, ReplacedOnlyByOverlap
  <1> QED BY <1>1, ClaimInitInv, ClaimNextInv, PTL DEF ClaimSpec

\* A code is never exchanged without the consent of its user unless a second
\* code was drawn.
THEOREM ExchangeNeedsConsentAlways == ClaimSpec => []ExchangeNeedsConsent
  <1>1. ClaimInv => ExchangeNeedsConsent
    BY DEF ClaimInv
  <1> QED BY <1>1, ClaimInitInv, ClaimNextInv, PTL DEF ClaimSpec

-----------------------------------------------------------------------------
(* Tunnels.                                                                *)

\* Calls of CreateTunnel whose tunnel is still to be made.
Creating == {c \in Creator : createPc[c] = "create"}

TunnelsType ==
    /\ createPc \in [Creator -> {"idle", "create", "info", "list", "act"}]
    /\ id \in [Creator -> 0..made]
    /\ wanted \in [Creator -> {"none", "self", "other"}]
    /\ DOMAIN listed = Creator /\ DOMAIN result = Creator
    /\ creates \in 0..MaxCreates /\ made \in Nat
    /\ status \in [ID -> {"none", "pending", "allocated", "disabled", "deleted"}]
    /\ owner \in [ID -> {"none", "self", "other"}]

\* Each tunnel took a call, so that their number stays within the bound.
CreateBudget == made + Cardinality(Creating) <= creates

Exists == \A x \in ID : x <= made => status[x] # "none"

\* What a caller knows of its tunnel: the status in its list may be old, but a
\* tunnel that is decided is never pending again, and a tunnel created for the
\* agent of the Api is that agent's.
Knows ==
    \A c \in Creator :
        /\ createPc[c] \in {"info", "list", "act"} =>
             id[c] # 0 /\ (wanted[c] = "self" => owner[id[c]] = "self")
        /\ createPc[c] = "act" =>
             /\ listed[c] \in {"error", "empty", "pending", "allocated", "disabled"}
             /\ listed[c] = "empty" /\ wanted[c] = "self" => status[id[c]] = "deleted"
             /\ listed[c] \in {"allocated", "disabled"} =>
                  status[id[c]] \in {"allocated", "disabled", "deleted"}

TunnelsInv ==
    /\ TunnelsType /\ CreateBudget /\ Exists /\ Knows
    /\ NilMeansDecided /\ PanicNeedsDeletion

\* Only finitely many callers are creating.
LEMMA CreatingFinite ==
    /\ IsFiniteSet(Creating) /\ Cardinality(Creating) \in Nat
    /\ IsFiniteSet(Creating') /\ Cardinality(Creating') \in Nat
  BY TunnelsAssumption, PartSize DEF Creating

\* The tunnels made are among those that have a status.
LEMMA MadeKnown ==
    ASSUME TunnelsInv
    PROVE  /\ 1..made \subseteq ID
           /\ \A c \in Creator : createPc[c] = "create" => made + 1 \in ID
  <1>1. made + Cardinality(Creating) <= MaxCreates /\ made \in Nat
    BY CreatingFinite, TunnelsAssumption DEF TunnelsInv, TunnelsType, CreateBudget
  <1>2. ASSUME NEW c \in Creator, createPc[c] = "create" PROVE Cardinality(Creating) >= 1
    <2>1. c \in Creating
      BY <1>2 DEF Creating
    <2>2. Cardinality(Creating) # 0
      BY <2>1, CreatingFinite, FS_EmptySet
    <2> QED BY <2>2, CreatingFinite
  <1> QED BY <1>1, <1>2, CreatingFinite, TunnelsAssumption DEF ID

\* Which callers are creating after one of them has moved.
LEMMA Recreating ==
    ASSUME TunnelsType, NEW c \in Creator, NEW l, createPc' = [createPc EXCEPT ![c] = l]
    PROVE  /\ Creating' = IF l = "create" THEN Creating \cup {c} ELSE Creating \ {c}
           /\ \A d \in Creator \ {c} : createPc'[d] = createPc[d]
           /\ createPc'[c] = l
  BY DEF TunnelsType, Creating

\* A step that creates no tunnel and starts no call keeps the budget.
LEMMA CreateBudgetKept ==
    ASSUME TunnelsInv, UNCHANGED <<made, creates>>, Creating' \subseteq Creating
    PROVE  CreateBudget'
  <1>1. Cardinality(Creating') <= Cardinality(Creating)
    BY CreatingFinite, PartSize
  <1> QED BY <1>1, CreatingFinite DEF TunnelsInv, TunnelsType, CreateBudget

\* CreateTunnel begins: it panics, fails, or goes on to its request.
LEMMA CreateTunnelInv ==
    ASSUME TunnelsInv, NEW c \in Creator, NEW tun \in Tunnel, CreateTunnel(c, tun)
    PROVE  TunnelsInv'
  <1>1. /\ createPc[c] = "idle" /\ panic = "no" /\ creates < MaxCreates
        /\ id' = [id EXCEPT ![c] = 0]
        /\ UNCHANGED <<listed, made, status, owner>>
    BY DEF CreateTunnel, At
  <1>2. /\ id' \in [Creator -> 0..made'] /\ id'[c] = 0
        /\ \A d \in Creator \ {c} : id'[d] = id[d]
    BY <1>1 DEF TunnelsInv, TunnelsType
  <1>3. Exists'
    BY <1>1 DEF TunnelsInv, Exists
  <1>4. CASE /\ tun.Alloc = "nil" /\ panic' = "nil Alloc"
             /\ UNCHANGED <<createPc, wanted, result, creates>>
    <2>1. TunnelsType' /\ CreateBudget' /\ PanicNeedsDeletion'
      BY <1>1, <1>2, <1>4 DEF TunnelsInv, TunnelsType, CreateBudget, Creating, PanicNeedsDeletion
    <2>2. Knows' /\ NilMeansDecided'
      BY <1>1, <1>2, <1>4 DEF TunnelsInv, Knows, NilMeansDecided
    <2> QED BY <1>3, <2>1, <2>2 DEF TunnelsInv
  <1>5. CASE Return(c, "error") /\ UNCHANGED <<panic, creates>>
    <2>1. /\ Creating' = Creating \ {c} /\ createPc'[c] = "idle"
          /\ \A d \in Creator \ {c} : createPc'[d] = createPc[d]
      BY <1>5, Recreating DEF TunnelsInv, Return
    <2>2. TunnelsType' /\ PanicNeedsDeletion'
      BY <1>1, <1>2, <1>5 DEF TunnelsInv, TunnelsType, PanicNeedsDeletion, Return
    <2>3. CreateBudget'
      BY <1>1, <1>5, <2>1, CreateBudgetKept
    <2>4. Knows' /\ NilMeansDecided'
      BY <1>1, <1>2, <1>5, <2>1 DEF TunnelsInv, TunnelsType, Knows, NilMeansDecided, Return
    <2> QED BY <1>3, <2>2, <2>3, <2>4 DEF TunnelsInv
  <1>6. CASE /\ createPc' = [createPc EXCEPT ![c] = "create"]
             /\ wanted' = [wanted EXCEPT ![c] = tun.Origin.Agent.ID]
             /\ creates' = creates + 1 /\ UNCHANGED <<result, panic>>
    <2>1. /\ Creating' = Creating \cup {c} /\ createPc'[c] = "create"
          /\ \A d \in Creator \ {c} : createPc'[d] = createPc[d]
      BY <1>6, Recreating DEF TunnelsInv
    <2>2. TunnelsType' /\ PanicNeedsDeletion'
      <3>1. tun.Origin.Agent.ID \in {"none", "self", "other"}
        BY DEF Tunnel, Agent
      <3> QED BY <1>1, <1>2, <1>6, <3>1, TunnelsAssumption
              DEF TunnelsInv, TunnelsType, PanicNeedsDeletion
    <2>3. CreateBudget'
      <3>1. Cardinality(Creating') <= Cardinality(Creating) + 1
        BY <2>1, CreatingFinite, OneMore
      <3> QED BY <1>1, <1>6, <3>1, CreatingFinite DEF TunnelsInv, TunnelsType, CreateBudget
    <2>4. Knows' /\ NilMeansDecided'
      BY <1>1, <1>2, <1>6, <2>1 DEF TunnelsInv, TunnelsType, Knows, NilMeansDecided
    <2> QED BY <1>3, <2>2, <2>3, <2>4 DEF TunnelsInv
  <1> QED BY <1>4, <1>5, <1>6 DEF CreateTunnel

\* The service creates the tunnel, and may lose its answer.
LEMMA CreateInv ==
    ASSUME TunnelsInv, NEW c \in Creator, Create(c) PROVE TunnelsInv'
  <1>1. /\ createPc[c] = "create" /\ panic = "no" /\ c \in Creating
        /\ UNCHANGED <<listed, panic, creates>>
    BY DEF Create, At, Creating
  <1>2. PanicNeedsDeletion'
    BY <1>1 DEF PanicNeedsDeletion
  <1>3. CASE Return(c, "error") /\ UNCHANGED <<made, id, status, owner>>
    <2>1. /\ Creating' = Creating \ {c} /\ createPc'[c] = "idle"
          /\ \A d \in Creator \ {c} : createPc'[d] = createPc[d]
      BY <1>3, Recreating DEF TunnelsInv, Return
    <2>2. TunnelsType' /\ Exists'
      BY <1>1, <1>3 DEF TunnelsInv, TunnelsType, Exists, Return
    <2>3. CreateBudget'
      BY <1>1, <1>3, <2>1, CreateBudgetKept
    <2>4. Knows' /\ NilMeansDecided'
      BY <1>1, <1>3, <2>1 DEF TunnelsInv, TunnelsType, Knows, NilMeansDecided, Return
    <2> QED BY <1>2, <2>2, <2>3, <2>4 DEF TunnelsInv
  <1>4. ASSUME made' = made + 1, status' = [status EXCEPT ![made'] = "pending"],
               \E a \in Owners(wanted[c]) : owner' = [owner EXCEPT ![made'] = a],
               \/ id' = [id EXCEPT ![c] = made'] /\ Goto(c, "info")
               \/ UNCHANGED id /\ Return(c, "error")
        PROVE  TunnelsInv'
    <2>1. made \in Nat /\ made + 1 \in ID /\ 1..made \subseteq ID
      BY <1>1, MadeKnown DEF TunnelsInv, TunnelsType
    <2>2. /\ \A x \in ID : x <= made => status'[x] = status[x] /\ owner'[x] = owner[x]
          /\ status'[made + 1] = "pending"
          /\ owner' \in [ID -> {"none", "self", "other"}]
          /\ wanted[c] = "self" => owner'[made + 1] = "self"
      BY <1>4, <2>1 DEF TunnelsInv, TunnelsType, ID, Owners
    <2>3. PICK l \in {"info", "idle"} :
            /\ createPc' = [createPc EXCEPT ![c] = l]
            /\ l = "info" => id' = [id EXCEPT ![c] = made'] /\ UNCHANGED <<wanted, result>>
            /\ l = "idle" => /\ UNCHANGED id /\ result' = [result EXCEPT ![c] = "error"]
                             /\ wanted' = [wanted EXCEPT ![c] = "none"]
      BY <1>4 DEF Goto, Return
    <2>4. /\ Creating' = Creating \ {c} /\ createPc'[c] = l
          /\ \A d \in Creator \ {c} : createPc'[d] = createPc[d]
      BY <2>3, Recreating DEF TunnelsInv
    <2>5. /\ id' \in [Creator -> 0..made']
          /\ wanted' \in [Creator -> {"none", "self", "other"}]
          /\ l = "info" => id'[c] = made + 1 /\ wanted'[c] = wanted[c]
          /\ \A d \in Creator \ {c} : id'[d] = id[d] /\ wanted'[d] = wanted[d]
      BY <1>4, <2>1, <2>3 DEF TunnelsInv, TunnelsType
    <2>6. TunnelsType'
      <3>1. createPc' \in [Creator -> {"idle", "create", "info", "list", "act"}]
        BY <2>3 DEF TunnelsInv, TunnelsType
      <3>2. DOMAIN listed' = Creator /\ DOMAIN result' = Creator
        BY <1>1, <2>3 DEF TunnelsInv, TunnelsType
      <3>3. status' \in [ID -> {"none", "pending", "allocated", "disabled", "deleted"}]
        BY <1>4, <2>1 DEF TunnelsInv, TunnelsType
      <3> QED BY <1>1, <1>4, <2>1, <2>2, <2>5, <3>1, <3>2, <3>3 DEF TunnelsInv, TunnelsType
    <2>7. CreateBudget'
      <3>1. Cardinality(Creating') = Cardinality(Creating) - 1
        BY <1>1, <2>4, CreatingFinite, OneLess
      <3> QED BY <1>1, <1>4, <3>1, CreatingFinite DEF TunnelsInv, TunnelsType, CreateBudget
    <2>8. Exists'
      <3> SUFFICES ASSUME NEW x \in ID, x <= made + 1 PROVE status'[x] # "none"
        BY <1>4 DEF Exists
      <3>1. x = made + 1 \/ x <= made
        BY <2>1 DEF ID
      <3> QED BY <2>2, <3>1 DEF TunnelsInv, Exists
    <2>9. \A d \in Creator : id[d] # 0 =>
            status'[id[d]] = status[id[d]] /\ owner'[id[d]] = owner[id[d]]
      BY <2>1, <2>2 DEF TunnelsInv, TunnelsType
    <2>10. Knows'
      <3> SUFFICES ASSUME NEW d \in Creator
                   PROVE  /\ createPc'[d] \in {"info", "list", "act"} =>
                               id'[d] # 0 /\ (wanted'[d] = "self" => owner'[id'[d]] = "self")
                          /\ createPc'[d] = "act" =>
                               /\ listed'[d] \in
                                    {"error", "empty", "pending", "allocated", "disabled"}
                               /\ listed'[d] = "empty" /\ wanted'[d] = "self" =>
                                    status'[id'[d]] = "deleted"
                               /\ listed'[d] \in {"allocated", "disabled"} =>
                                    status'[id'[d]] \in {"allocated", "disabled", "deleted"}
        BY DEF Knows
      <3>1. CASE d = c
        BY <2>1, <2>2, <2>3, <2>4, <2>5, <3>1
      <3>2. CASE d # c
        BY <1>1, <2>4, <2>5, <2>9, <3>2 DEF TunnelsInv, Knows
      <3> QED BY <3>1, <3>2
    <2>11. NilMeansDecided'
      BY <1>1, <2>3, <2>4, <2>5, <2>9 DEF TunnelsInv, TunnelsType, NilMeansDecided
    <2> QED BY <1>2, <2>6, <2>7, <2>8, <2>10, <2>11 DEF TunnelsInv
  <1> QED BY <1>3, <1>4 DEF Create

\* CreateTunnel asks for the id of the agent.
LEMMA AgentInfoInv ==
    ASSUME TunnelsInv, NEW c \in Creator, AgentInfo(c) PROVE TunnelsInv'
  <1>1. /\ createPc[c] = "info" /\ panic = "no"
        /\ UNCHANGED <<id, listed, panic, creates, made, status, owner>>
    BY DEF AgentInfo, At
  <1>2. PICK l \in {"list", "idle"} :
          /\ createPc' = [createPc EXCEPT ![c] = l]
          /\ l = "list" => UNCHANGED <<wanted, result>>
          /\ l = "idle" => /\ wanted' = [wanted EXCEPT ![c] = "none"]
                           /\ result' = [result EXCEPT ![c] = "error"]
    BY DEF AgentInfo, Goto, Return
  <1>3. /\ Creating' = Creating \ {c} /\ createPc'[c] = l
        /\ \A d \in Creator \ {c} : createPc'[d] = createPc[d]
    BY <1>2, Recreating DEF TunnelsInv
  <1>4. TunnelsType' /\ Exists' /\ PanicNeedsDeletion'
    BY <1>1, <1>2 DEF TunnelsInv, TunnelsType, Exists, PanicNeedsDeletion
  <1>5. CreateBudget'
    BY <1>1, <1>3, CreateBudgetKept
  <1>6. Knows'
    BY <1>1, <1>2, <1>3 DEF TunnelsInv, TunnelsType, Knows
  <1>7. NilMeansDecided'
    BY <1>1, <1>2, <1>3 DEF TunnelsInv, TunnelsType, NilMeansDecided
  <1> QED BY <1>4, <1>5, <1>6, <1>7 DEF TunnelsInv

\* The list holds the tunnel asked for, unless it is deleted or another
\* agent's.
LEMMA ListTunnelsInv ==
    ASSUME TunnelsInv, NEW c \in Creator, ListTunnels(c) PROVE TunnelsInv'
  <1>1. /\ createPc[c] = "list" /\ panic = "no" /\ Goto(c, "act")
        /\ UNCHANGED <<id, panic, creates, made, status, owner>>
    BY DEF ListTunnels, At
  <1>2. id[c] \in 1..made /\ id[c] \in ID
    BY <1>1, MadeKnown DEF TunnelsInv, TunnelsType, Knows
  <1>3. status[id[c]] \in {"pending", "allocated", "disabled", "deleted"}
    BY <1>2 DEF TunnelsInv, TunnelsType, Exists
  <1>4. PICK a : /\ listed' = [listed EXCEPT ![c] = a]
                 /\ a \in {"error", "empty", "pending", "allocated", "disabled"}
                 /\ a = "empty" /\ wanted[c] = "self" => status[id[c]] = "deleted"
                 /\ a \in {"pending", "allocated", "disabled"} => status[id[c]] = a
    <2> DEFINE list == TunnelList(id[c])
               head == IF list = {} THEN "empty" ELSE status[First(list)]
    <2>1. PICK a \in {head, "error"} : listed' = [listed EXCEPT ![c] = a]
      BY DEF ListTunnels
    <2>2. CASE status[id[c]] = "deleted" \/ owner[id[c]] # "self"
      <3>1. list = {}
        BY <2>2 DEF TunnelList
      <3>2. wanted[c] = "self" => status[id[c]] = "deleted"
        BY <1>1, <2>2 DEF TunnelsInv, Knows
      <3> QED BY <2>1, <3>1, <3>2
    <2>3. CASE ~(status[id[c]] = "deleted" \/ owner[id[c]] # "self")
      <3>1. list = {id[c]}
        BY <1>2, <2>3 DEF TunnelList
      <3>2. First({id[c]}) = id[c]
        BY <1>2 DEF First, ID
      <3>3. head = status[id[c]]
        BY <3>1, <3>2
      <3> QED BY <1>3, <2>1, <2>3, <3>3
    <2> QED BY <2>2, <2>3
  <1>5. /\ Creating' = Creating \ {c} /\ createPc'[c] = "act"
        /\ \A d \in Creator \ {c} : createPc'[d] = createPc[d]
    BY <1>1, Recreating DEF TunnelsInv, Goto
  <1>6. TunnelsType' /\ Exists' /\ PanicNeedsDeletion'
    BY <1>1, <1>4 DEF TunnelsInv, TunnelsType, Exists, PanicNeedsDeletion, Goto
  <1>7. CreateBudget'
    BY <1>1, <1>5, CreateBudgetKept
  <1>8. listed'[c] = a /\ \A d \in Creator \ {c} : listed'[d] = listed[d]
    BY <1>4 DEF TunnelsInv, TunnelsType
  <1>9. Knows'
    <2> SUFFICES ASSUME NEW d \in Creator
                 PROVE  /\ createPc'[d] \in {"info", "list", "act"} =>
                             id[d] # 0 /\ (wanted[d] = "self" => owner[id[d]] = "self")
                        /\ createPc'[d] = "act" =>
                             /\ listed'[d] \in
                                  {"error", "empty", "pending", "allocated", "disabled"}
                             /\ listed'[d] = "empty" /\ wanted[d] = "self" =>
                                  status[id[d]] = "deleted"
                             /\ listed'[d] \in {"allocated", "disabled"} =>
                                  status[id[d]] \in {"allocated", "disabled", "deleted"}
      BY <1>1 DEF Knows, Goto
    <2>1. CASE d = c
      BY <1>1, <1>2, <1>4, <1>8, <2>1 DEF TunnelsInv, Knows
    <2>2. CASE d # c
      BY <1>5, <1>8, <2>2 DEF TunnelsInv, Knows
    <2> QED BY <2>1, <2>2
  <1>10. NilMeansDecided'
    BY <1>1, <1>5 DEF TunnelsInv, NilMeansDecided, Goto
  <1> QED BY <1>6, <1>7, <1>9, <1>10 DEF TunnelsInv

\* CreateTunnel acts on what the poll returned.
LEMMA ActInv ==
    ASSUME TunnelsInv, NEW c \in Creator, Act(c) PROVE TunnelsInv'
  <1>1. /\ createPc[c] = "act" /\ panic = "no"
        /\ UNCHANGED <<id, listed, creates, made, status, owner>>
        /\ listed[c] \in {"error", "empty", "pending", "allocated", "disabled"}
    BY DEF Act, At, TunnelsInv, Knows
  <1>2. Exists'
    BY <1>1 DEF TunnelsInv, Exists
  <1>3. CASE listed[c] = "empty"
    <2>1. panic' = "Tunnels[0]" /\ UNCHANGED <<createPc, wanted, result>>
      BY <1>3 DEF Act
    <2>2. TunnelsType' /\ CreateBudget' /\ NilMeansDecided'
      BY <1>1, <2>1 DEF TunnelsInv, TunnelsType, CreateBudget, Creating, NilMeansDecided
    <2>3. Knows'
      BY <1>1, <2>1 DEF TunnelsInv, Knows
    <2>4. PanicNeedsDeletion'
      BY <1>1, <1>3, <2>1 DEF TunnelsInv, Knows, PanicNeedsDeletion
    <2> QED BY <1>2, <2>2, <2>3, <2>4 DEF TunnelsInv
  <1>4. CASE listed[c] # "empty"
    <2>1. PICK l \in {"list", "idle"}, r \in {"error", "nil"} :
            /\ createPc' = [createPc EXCEPT ![c] = l]
            /\ l = "list" => UNCHANGED <<wanted, result>>
            /\ l = "idle" => /\ wanted' = [wanted EXCEPT ![c] = "none"]
                             /\ result' = [result EXCEPT ![c] = r]
            /\ l = "idle" /\ r = "nil" => listed[c] \in {"allocated", "disabled"}
            /\ UNCHANGED panic
      BY <1>1, <1>4 DEF Act, Goto, Return
    <2>2. /\ Creating' = Creating \ {c} /\ createPc'[c] = l
          /\ \A d \in Creator \ {c} : createPc'[d] = createPc[d]
      BY <2>1, Recreating DEF TunnelsInv
    <2>3. TunnelsType' /\ PanicNeedsDeletion'
      BY <1>1, <2>1 DEF TunnelsInv, TunnelsType, PanicNeedsDeletion
    <2>4. CreateBudget'
      BY <1>1, <2>2, CreateBudgetKept
    <2>5. Knows'
      BY <1>1, <2>1, <2>2 DEF TunnelsInv, TunnelsType, Knows
    <2>6. NilMeansDecided'
      BY <1>1, <2>1, <2>2 DEF TunnelsInv, TunnelsType, Knows, NilMeansDecided
    <2> QED BY <1>2, <2>3, <2>4, <2>5, <2>6 DEF TunnelsInv
  <1> QED BY <1>3, <1>4

\* No tunnel that is decided becomes pending again, and none is undeleted.
LEMMA StatusInv ==
    ASSUME TunnelsInv, NEW x \in ID, x <= made, NEW s \in {"allocated", "disabled", "deleted"},
           status' = [status EXCEPT ![x] = s], status[x] = "pending" \/ s = "deleted",
           UNCHANGED <<caller, panic, creates, made, owner>>
    PROVE  TunnelsInv'
  <1>1. UNCHANGED <<createPc, wanted, id, listed, result>>
    BY DEF caller
  <1>2. TunnelsType' /\ CreateBudget'
    BY <1>1 DEF TunnelsInv, TunnelsType, CreateBudget, Creating
  <1>3. Exists'
    BY DEF TunnelsInv, TunnelsType, Exists
  <1>4. \A c \in Creator : id[c] # 0 =>
          /\ status[id[c]] = "deleted" => status'[id[c]] = "deleted"
          /\ status[id[c]] \in {"allocated", "disabled", "deleted"} =>
               status'[id[c]] \in {"allocated", "disabled", "deleted"}
    BY MadeKnown DEF TunnelsInv, TunnelsType
  <1>5. Knows'
    BY <1>1, <1>4 DEF TunnelsInv, Knows
  <1>6. NilMeansDecided'
    BY <1>1, <1>4 DEF TunnelsInv, NilMeansDecided
  <1>7. PanicNeedsDeletion'
    BY <1>1, <1>4 DEF TunnelsInv, PanicNeedsDeletion, Knows
  <1> QED BY <1>2, <1>3, <1>5, <1>6, <1>7 DEF TunnelsInv

\* At first there is no tunnel.
LEMMA TunnelsInitInv == TunnelsInit => TunnelsInv
  <1> SUFFICES ASSUME TunnelsInit PROVE TunnelsInv
    OBVIOUS
  <1>1. Creating = {} /\ Cardinality({}) = 0
    BY FS_EmptySet DEF TunnelsInit, Creating
  <1>2. TunnelsType
    BY TunnelsAssumption DEF TunnelsInit, TunnelsType
  <1>3. CreateBudget /\ Exists
    BY <1>1 DEF TunnelsInit, CreateBudget, Exists, ID
  <1>4. Knows /\ NilMeansDecided /\ PanicNeedsDeletion
    BY DEF TunnelsInit, Knows, NilMeansDecided, PanicNeedsDeletion
  <1> QED BY <1>2, <1>3, <1>4 DEF TunnelsInv

\* Every step of the callers, the service and the website keeps the invariant.
LEMMA TunnelsNextInv == TunnelsInv /\ [TunnelsNext]_tunnelVars => TunnelsInv'
  <1> SUFFICES ASSUME TunnelsInv, [TunnelsNext]_tunnelVars PROVE TunnelsInv'
    OBVIOUS
  <1>1. ASSUME NEW c \in Creator, NEW tun \in Tunnel, CreateTunnel(c, tun) PROVE TunnelsInv'
    BY <1>1, CreateTunnelInv
  <1>2. ASSUME NEW c \in Creator, CreateStep(c) PROVE TunnelsInv'
    BY <1>2, CreateInv, AgentInfoInv, ListTunnelsInv, ActInv DEF CreateStep
  <1>3. ASSUME NEW c \in Creator, NEW x \in ID, DeleteTunnel(c, x) PROVE TunnelsInv'
    BY <1>3, StatusInv DEF DeleteTunnel
  <1>4. ASSUME NEW x \in ID, Website(x) PROVE TunnelsInv'
    BY <1>4, StatusInv DEF Website
  <1>5. CASE UNCHANGED tunnelVars
    BY <1>5 DEF tunnelVars, caller, TunnelsInv, TunnelsType, CreateBudget, Creating, Exists,
       Knows, NilMeansDecided, PanicNeedsDeletion
  <1> QED BY <1>1, <1>2, <1>3, <1>4, <1>5 DEF TunnelsNext

\* The invariant of CreateTunnel and DeleteTunnel holds in every state.
THEOREM TunnelsInvAlways == TunnelsSpec => []TunnelsInv
  BY TunnelsInitInv, TunnelsNextInv, PTL DEF TunnelsSpec

\* When CreateTunnel returns nil its own tunnel is decided, and it stays so,
\* however many goroutines create and delete tunnels meanwhile.
THEOREM NilMeansDecidedAlways == TunnelsSpec => []NilMeansDecided
  <1>1. TunnelsInv => NilMeansDecided
    BY DEF TunnelsInv
  <1> QED BY <1>1, TunnelsInvAlways, PTL

\* The index into an empty list panics, for a call that names the agent of the
\* Api, only after the tunnel was deleted.
THEOREM PanicNeedsDeletionAlways == TunnelsSpec => []PanicNeedsDeletion
  <1>1. TunnelsInv => PanicNeedsDeletion
    BY DEF TunnelsInv
  <1> QED BY <1>1, TunnelsInvAlways, PTL

-----------------------------------------------------------------------------
(* What a failure after the creation costs: a tunnel for every call that    *)
(* passed the checks, and none that a later call could find again.          *)

\* No two calls know the same tunnel.
UniqueIds == \A c, d \in Creator : c # d /\ id[c] # 0 => id[c] # id[d]

\* A caller's id changes only when its call begins, and when the service
\* answers with a tunnel later than all before.
LEMMA IdStep ==
    ASSUME TunnelsInv, TunnelsNext
    PROVE  \/ UNCHANGED id
           \/ \E c \in Creator : id' = [id EXCEPT ![c] = 0]
           \/ \E c \in Creator : id' = [id EXCEPT ![c] = made + 1]
  BY DEF TunnelsNext, CreateTunnel, CreateStep, Create, AgentInfo, ListTunnels, Act,
         DeleteTunnel, Website, caller

\* Every tunnel took a call of its own, and no call that fails leaves its
\* tunnel to the next: a retry after an error makes another one.
THEOREM RetryMakesAnother ==
    TunnelsSpec =>
        /\ [](made <= creates /\ UniqueIds)
        /\ [][\A c \in Creator : id'[c] \in {id[c], 0} \/ id'[c] > made]_tunnelVars
  <1>1. TunnelsInit => UniqueIds
    BY DEF TunnelsInit, UniqueIds
  <1>2. ASSUME TunnelsInv, TunnelsNext
        PROVE  \A c \in Creator : id'[c] \in {id[c], 0} \/ id'[c] > made
    BY <1>2, IdStep DEF TunnelsInv, TunnelsType
  <1>3. TunnelsInv /\ UniqueIds /\ [TunnelsNext]_tunnelVars => UniqueIds'
    <2> SUFFICES ASSUME TunnelsInv, UniqueIds, [TunnelsNext]_tunnelVars PROVE UniqueIds'
      OBVIOUS
    <2>1. id \in [Creator -> 0..made] /\ made \in Nat
      BY DEF TunnelsInv, TunnelsType
    <2>2. CASE TunnelsNext
      BY <2>1, <2>2, IdStep DEF UniqueIds
    <2>3. CASE UNCHANGED tunnelVars
      BY <2>3 DEF tunnelVars, caller, UniqueIds
    <2> QED BY <2>2, <2>3
  <1>4. TunnelsInv => made <= creates
    BY CreatingFinite DEF TunnelsInv, TunnelsType, CreateBudget
  <1>5. TunnelsInv /\ [TunnelsNext]_tunnelVars =>
          [\A c \in Creator : id'[c] \in {id[c], 0} \/ id'[c] > made]_tunnelVars
    BY <1>2
  <1> QED BY <1>1, <1>3, <1>4, <1>5, TunnelsInvAlways, PTL DEF TunnelsSpec

-----------------------------------------------------------------------------
(* The safety halves of CallsReturn.  A call polls until somebody outside   *)
(* has decided.  A decision stands, and from then on every step of the call *)
(* makes smaller what is left of it.  A list, or an answer, that was given  *)
(* before the decision costs one poll more, so it counts for more than a    *)
(* new poll.                                                                *)

CreateLeft(c) ==
    IF createPc[c] = "create" THEN 5
    ELSE IF createPc[c] = "info" THEN 4
    ELSE IF createPc[c] = "act" /\ listed[c] = "pending" THEN 3
    ELSE IF createPc[c] = "list" THEN 2
    ELSE IF createPc[c] = "act" THEN 1
    ELSE 0

\* The service has decided on the tunnel, if the call waits for that.
ServiceDecided(c) == createPc[c] \in {"list", "act"} => status[id[c]] # "pending"

\* A step of the caller brings it nearer to its return, or panics; a step of
\* anyone else leaves it.
CreateDescends(c) ==
    IF CreateStep(c) THEN CreateLeft(c)' < CreateLeft(c) \/ panic' # "no"
    ELSE UNCHANGED <<createPc[c], listed[c], id[c]>>

\* A step of one caller leaves the others where they are.
LEMMA OtherCreators ==
    ASSUME TunnelsInv, NEW c \in Creator,
           CreateStep(c) \/ \E tun \in Tunnel : CreateTunnel(c, tun)
    PROVE  \A d \in Creator \ {c} : UNCHANGED <<createPc[d], listed[d], id[d]>>
  BY DEF TunnelsInv, TunnelsType, CreateStep, CreateTunnel, Create, AgentInfo, ListTunnels, Act,
         Goto, Return

\* The caller's own steps: the list it gets after the decision is not pending.
LEMMA CreateStepDescends ==
    ASSUME TunnelsInv, NEW c \in Creator, CreateStep(c), ServiceDecided(c)
    PROVE  CreateLeft(c)' < CreateLeft(c) \/ panic' # "no"
  <1>1. /\ createPc \in [Creator -> {"idle", "create", "info", "list", "act"}]
        /\ DOMAIN listed = Creator /\ id \in [Creator -> 0..made]
    BY DEF TunnelsInv, TunnelsType
  <1>2. CASE Create(c)
    BY <1>1, <1>2 DEF Create, At, Goto, Return, CreateLeft
  <1>3. CASE AgentInfo(c)
    BY <1>1, <1>3 DEF AgentInfo, At, Goto, Return, CreateLeft
  <1>4. CASE ListTunnels(c)
    <2>1. createPc[c] = "list" /\ status[id[c]] # "pending" /\ createPc'[c] = "act"
      BY <1>1, <1>4 DEF ListTunnels, At, Goto, ServiceDecided
    <2>2. TunnelList(id[c]) \in {{}, {id[c]}}
      BY DEF TunnelList
    <2>3. id[c] <= id[c]
      BY <1>1 DEF TunnelsInv, TunnelsType
    <2>4. First({id[c]}) = id[c]
      BY <2>3 DEF First
    <2>5. PICK a : listed' = [listed EXCEPT ![c] = a] /\ a # "pending"
      BY <1>4, <2>1, <2>2, <2>4 DEF ListTunnels
    <2>6. listed'[c] # "pending"
      BY <1>1, <2>5
    <2> QED BY <2>1, <2>6 DEF CreateLeft
  <1>5. CASE Act(c)
    BY <1>1, <1>5 DEF Act, At, Goto, Return, CreateLeft
  <1> QED BY <1>2, <1>3, <1>4, <1>5 DEF CreateStep

\* CreateTunnel polls as long as the service has not decided, and no longer:
\* a tunnel that is not pending never is again, and from then on every step
\* of the call that made it comes nearer to its return, or panics.
THEOREM CreateTunnelEnds ==
    TunnelsSpec =>
        [][/\ \A x \in 1..made : status[x] # "pending" => status'[x] # "pending"
           /\ \A c \in Creator : createPc[c] # "idle" /\ ServiceDecided(c) => CreateDescends(c)
          ]_tunnelVars
  <1>1. ASSUME TunnelsInv, TunnelsNext
        PROVE  \A x \in 1..made : status[x] # "pending" => status'[x] # "pending"
    <2>1. made \in Nat /\ 1..made \subseteq ID /\ DOMAIN status = ID
      BY <1>1, MadeKnown DEF TunnelsInv, TunnelsType
    <2>2. \/ UNCHANGED status
          \/ status' = [status EXCEPT ![made + 1] = "pending"]
          \/ \E x \in ID, s \in {"deleted", "allocated", "disabled"} :
               status' = [status EXCEPT ![x] = s]
      BY <1>1 DEF TunnelsNext, CreateTunnel, CreateStep, Create, AgentInfo, ListTunnels, Act,
                  DeleteTunnel, Website
    <2> QED BY <2>1, <2>2
  <1>2. ASSUME TunnelsInv, TunnelsNext, NEW c \in Creator, createPc[c] # "idle", ServiceDecided(c)
        PROVE  CreateDescends(c)
    <2>1. ASSUME NEW d \in Creator, CreateStep(d) PROVE CreateDescends(c)
      <3>1. CASE CreateStep(c)
        BY <1>2, <3>1, CreateStepDescends DEF CreateDescends
      <3>2. CASE ~CreateStep(c)
        BY <1>2, <2>1, <3>2, OtherCreators DEF CreateDescends
      <3> QED BY <3>1, <3>2
    <2>2. ASSUME NEW d \in Creator, NEW tun \in Tunnel, CreateTunnel(d, tun)
          PROVE  CreateDescends(c)
      <3>1. createPc[d] = "idle"
        BY <2>2 DEF CreateTunnel, At
      <3> QED BY <1>2, <2>2, <3>1, OtherCreators, CreateStepDescends DEF CreateDescends
    <2>3. ASSUME UNCHANGED caller PROVE CreateDescends(c)
      BY <1>2, <2>3, CreateStepDescends DEF caller, CreateDescends
    <2> QED BY <1>2, <2>1, <2>2, <2>3 DEF TunnelsNext, DeleteTunnel, Website
  <1>3. TunnelsInv /\ [TunnelsNext]_tunnelVars =>
          [/\ \A x \in 1..made : status[x] # "pending" => status'[x] # "pending"
           /\ \A c \in Creator : createPc[c] # "idle" /\ ServiceDecided(c) => CreateDescends(c)
          ]_tunnelVars
    BY <1>1, <1>2
  <1> QED BY <1>3, TunnelsInvAlways, PTL DEF TunnelsSpec

\* Answers after which a claim polls no more.
Final == {"UserAccepted", "UserRejected", "error"}

ClaimLeft(c) ==
    IF claimPc[c] = "decide" /\ claimAnswer[c] \notin Final THEN 5
    ELSE IF claimPc[c] = "setup" THEN 4
    ELSE IF claimPc[c] = "decide" THEN 3
    ELSE IF claimPc[c] = "exchange" THEN 2
    ELSE IF claimPc[c] = "idle" THEN 0
    ELSE 1

\* The user has decided on the code that the claim polls, if it still polls.
UserDecided(c) == claimPc[c] \in {"setup", "decide"} => user[body[c]] \in Final

\* A step for the caller brings it nearer to its return; others leave it.
ClaimDescends(c) ==
    IF ClaimStep(c) \/ Service(c) THEN ClaimLeft(c)' < ClaimLeft(c)
    ELSE UNCHANGED <<claimPc[c], claimAnswer[c], body[c]>>

\* A step of one caller leaves the requests of the others alone.
LEMMA OtherClaims ==
    ASSUME ClaimInv, NEW c \in Caller,
           AiisgnClaimCode(c) \/ ClaimAgentSecret(c) \/ ClaimStep(c) \/ Service(c)
    PROVE  \A d \in Caller \ {c} : UNCHANGED <<claimPc[d], claimAnswer[d], body[d]>>
  <1> USE DEF ClaimInv, ClaimType, ClaimGoto
  <1>1. CASE AiisgnClaimCode(c) \/ ClaimAgentSecret(c)
    BY <1>1 DEF AiisgnClaimCode, ClaimAgentSecret
  <1>2. CASE ClaimStep(c)
    BY <1>2 DEF ClaimStep, AssignCode, Decide, Store
  <1>3. CASE Service(c)
    BY <1>3 DEF Service, Setup, Exchange
  <1> QED BY <1>1, <1>2, <1>3

\* The answer to a poll made after the decision is final.
LEMMA ClaimStepDescends ==
    ASSUME ClaimInv, NEW c \in Caller, ClaimStep(c) \/ Service(c), UserDecided(c)
    PROVE  ClaimLeft(c)' < ClaimLeft(c)
  <1> USE DEF ClaimGoto, ClaimLeft, Final
  <1>1. /\ claimPc \in [Caller -> {"idle", "random", "setup", "decide", "exchange", "store"}]
        /\ DOMAIN claimAnswer = Caller
    BY DEF ClaimInv, ClaimType
  <1>2. CASE AssignCode(c)
    BY <1>1, <1>2 DEF AssignCode
  <1>3. CASE Decide(c)
    BY <1>1, <1>3 DEF Decide
  <1>4. CASE Store(c)
    BY <1>1, <1>4 DEF Store
  <1>5. CASE Setup(c)
    BY <1>1, <1>5 DEF Setup, requestToApi, UserDecided
  <1>6. CASE Exchange(c)
    BY <1>1, <1>6 DEF Exchange
  <1> QED BY <1>2, <1>3, <1>4, <1>5, <1>6 DEF ClaimStep, Service

\* ClaimAgentSecret polls as long as the user has not decided, and no longer:
\* the user decides once, and from then on every step for the claim brings it
\* nearer to its return, whatever other goroutines do to Api.Code meanwhile.
THEOREM ClaimEnds ==
    ClaimSpec =>
        [][/\ \A x \in Codes : user[x] \in Final => UNCHANGED user[x]
           /\ \A c \in Caller : claimPc[c] # "idle" /\ UserDecided(c) => ClaimDescends(c)
          ]_claimVars
  <1>1. ASSUME ClaimInv, ClaimNext PROVE \A x \in Codes : user[x] \in Final => UNCHANGED user[x]
    <2>1. DOMAIN user = Codes
      BY <1>1 DEF ClaimInv, ClaimType
    <2>2. \/ UNCHANGED user
          \/ \E x \in Codes : user[x] \notin Final /\ \E u : user' = [user EXCEPT ![x] = u]
      BY <1>1 DEF ClaimNext, AiisgnClaimCode, ClaimAgentSecret, ClaimStep, Service, AssignCode,
                  Decide, Store, Setup, Exchange, User, Final, service
    <2> QED BY <2>1, <2>2
  <1>2. ASSUME ClaimInv, ClaimNext, NEW c \in Caller, claimPc[c] # "idle", UserDecided(c)
        PROVE  ClaimDescends(c)
    <2>1. CASE ClaimStep(c) \/ Service(c)
      BY <1>2, <2>1, ClaimStepDescends DEF ClaimDescends
    <2>2. ASSUME ~(ClaimStep(c) \/ Service(c))
          PROVE  UNCHANGED <<claimPc[c], claimAnswer[c], body[c]>>
      <3>1. ~AiisgnClaimCode(c) /\ ~ClaimAgentSecret(c)
        BY <1>2 DEF AiisgnClaimCode, ClaimAgentSecret, Call
      <3>2. \/ \E d \in Caller \ {c} :
                AiisgnClaimCode(d) \/ ClaimAgentSecret(d) \/ ClaimStep(d) \/ Service(d)
            \/ \E x \in Codes : User(x)
        BY <1>2, <2>2, <3>1 DEF ClaimNext
      <3> QED BY <1>2, <3>2, OtherClaims DEF User, request
    <2> QED BY <2>1, <2>2 DEF ClaimDescends
  <1>3. ClaimInv /\ [ClaimNext]_claimVars =>
          [/\ \A x \in Codes : user[x] \in Final => UNCHANGED user[x]
           /\ \A c \in Caller : claimPc[c] # "idle" /\ UserDecided(c) => ClaimDescends(c)
          ]_claimVars
    BY <1>1, <1>2
  <1> QED BY <1>3, ClaimInitInv, ClaimNextInv, PTL DEF ClaimSpec

-----------------------------------------------------------------------------
\* A claim that has the answer to its exchange, with a secret.
Holding(c) == claimPc[c] = "store" /\ claimAnswer[c] = "secret"

\* Every secret that was issued belongs to one claim: the one that holds it,
\* or has stored it, or lost it with its answer.
SecretOwned ==
    /\ stored \subseteq 1..issued
    /\ \A c \in Caller : Holding(c) => body[c] \in (1..issued) \ stored
    /\ \A c, d \in Caller : c # d /\ Holding(c) /\ Holding(d) => body[c] # body[d]

\* Who holds a secret, and which, changes only for the claim that moves.
LEMMA SecretOwnedStep == ClaimInv /\ SecretOwned /\ [ClaimNext]_claimVars => SecretOwned'
  <1> SUFFICES ASSUME ClaimInv, SecretOwned, [ClaimNext]_claimVars PROVE SecretOwned'
    OBVIOUS
  <1>1. /\ claimPc \in [Caller -> {"idle", "random", "setup", "decide", "exchange", "store"}]
        /\ body \in [Caller -> Nat] /\ DOMAIN claimAnswer = Caller /\ issued \in Nat
    BY DEF ClaimInv, ClaimType
  <1>2. ASSUME NEW c \in Caller, UNCHANGED <<stored, issued>>, claimPc'[c] # "store",
               \A d \in Caller \ {c} : UNCHANGED <<claimPc[d], claimAnswer[d], body[d]>>
        PROVE  SecretOwned'
    BY <1>2 DEF SecretOwned, Holding
  <1>3. ASSUME NEW c \in Caller,
               AiisgnClaimCode(c) \/ ClaimAgentSecret(c) \/ AssignCode(c) \/ Decide(c) \/ Setup(c)
        PROVE  SecretOwned'
    <2>1. UNCHANGED <<stored, issued>> /\ claimPc'[c] # "store"
      BY <1>1, <1>3 DEF AiisgnClaimCode, ClaimAgentSecret, AssignCode, Decide, Setup, ClaimGoto,
                        history, service
    <2>2. \A d \in Caller \ {c} : UNCHANGED <<claimPc[d], claimAnswer[d], body[d]>>
      BY <1>3, OtherClaims DEF ClaimStep, Service
    <2> QED BY <1>2, <2>1, <2>2
  <1>4. ASSUME NEW c \in Caller, Exchange(c) PROVE SecretOwned'
    <2>1. \A d \in Caller \ {c} : UNCHANGED <<claimPc[d], claimAnswer[d], body[d]>>
      BY <1>4, OtherClaims DEF Service
    <2>2. UNCHANGED stored /\ claimPc'[c] = "store"
      BY <1>1, <1>4 DEF Exchange, ClaimGoto
    <2>3. CASE user[body[c]] = "UserAccepted"
      <3>1. issued' = issued + 1 /\ body'[c] = issued + 1
        BY <1>1, <1>4, <2>3 DEF Exchange
      <3> QED BY <1>1, <2>1, <2>2, <3>1 DEF SecretOwned, Holding
    <2>4. CASE user[body[c]] # "UserAccepted"
      <3>1. issued' = issued /\ claimAnswer'[c] = "error"
        BY <1>1, <1>4, <2>4 DEF Exchange
      <3> QED BY <1>1, <2>1, <2>2, <3>1 DEF SecretOwned, Holding
    <2> QED BY <2>3, <2>4
  <1>5. ASSUME NEW c \in Caller, Store(c) PROVE SecretOwned'
    <2>1. \A d \in Caller \ {c} : UNCHANGED <<claimPc[d], claimAnswer[d], body[d]>>
      BY <1>5, OtherClaims DEF ClaimStep
    <2>2. /\ UNCHANGED issued /\ claimPc[c] = "store" /\ claimPc'[c] = "idle"
          /\ stored' = IF Holding(c) THEN stored \cup {body[c]} ELSE stored
      BY <1>1, <1>5 DEF Store, ClaimGoto, Holding, service
    <2> QED BY <1>1, <2>1, <2>2 DEF SecretOwned, Holding
  <1>6. ASSUME UNCHANGED <<claimPc, claimAnswer, body, stored, issued>> PROVE SecretOwned'
    BY <1>6 DEF SecretOwned, Holding
  <1> QED BY <1>3, <1>4, <1>5, <1>6
          DEF ClaimNext, ClaimStep, Service, User, claimVars, request, history, service

\* No two goroutines ever get the same secret, and none stores a secret that
\* the service did not issue to it: what overlapping claims replace in
\* Api.Secret is a secret of its own, which the agent loses.
THEOREM SecretHasOneClaim == ClaimSpec => []SecretOwned
  <1>1. ClaimInit => SecretOwned
    BY DEF ClaimInit, SecretOwned, Holding
  <1> QED BY <1>1, SecretOwnedStep, ClaimInitInv, ClaimNextInv, PTL DEF ClaimSpec

=============================================================================

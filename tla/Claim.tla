-------------------------------- MODULE Claim --------------------------------
(***************************************************************************)
(* Claiming an agent (api/claim.go): AiisgnClaimCode makes a code, the     *)
(* user opens its ClaimUrl, ClaimAgentSecret polls /claim/setup until the  *)
(* user has decided and trades the code for a secret.  The Api structure   *)
(* has no lock; several goroutines of the embedding program may share it.  *)
(*                                                                         *)
(* A request is one step of the service, which may lose the answer, and    *)
(* one of the caller.                                                      *)
(***************************************************************************)
EXTENDS Naturals, FiniteSets

CONSTANTS
    Caller,      \* goroutines that share the Api structure
    MaxCalls     \* bound: calls made

ASSUME ClaimAssumption == IsFiniteSet(Caller) /\ MaxCalls \in Nat

VARIABLES
    Code,        \* Api.Code; 0 is the empty string
    Secret,      \* Api.Secret; 0 is the empty string
    claimPc,     \* where each caller is
    body,        \* the code in its request
    claimAnswer,  \* the answer to its request
    calls,       \* calls made
    user,        \* external: the decision of the user on each code
    codes,       \* codes ever assigned to Api.Code
    exchanged,   \* codes ever presented to /claim/exchange
    issued,      \* external: secrets issued
    stored       \* secrets ever assigned to Api.Secret

api == <<Code, Secret>>
request == <<claimPc, body, claimAnswer>>
history == <<codes, exchanged, stored>>
service == <<user, issued>>
claimVars == <<api, request, calls, history, service>>

Codes == 1..MaxCalls

ClaimInit ==
    /\ Code = 0 /\ Secret = 0
    /\ claimPc = [c \in Caller |-> "idle"]
    /\ body = [c \in Caller |-> 0]
    /\ claimAnswer = [c \in Caller |-> "none"]
    /\ calls = 0
    /\ user = [x \in Codes |-> "WaitingForUserVisit"]
    /\ codes = {} /\ exchanged = {} /\ issued = 0 /\ stored = {}

\* requestToApi gives the answer or an error: for a failure of the transport,
\* an undecodable body, a status of 300 and above, unfit data.
requestToApi(a) == {a, "error"}

ClaimGoto(c, l) == claimPc' = [claimPc EXCEPT ![c] = l]

Call(c) == claimPc[c] = "idle" /\ calls < MaxCalls /\ calls' = calls + 1

-----------------------------------------------------------------------------
\* AiisgnClaimCode finds no code.  (With a code it returns nil at once.)
AiisgnClaimCode(c) ==
    /\ Call(c)
    /\ Code = 0
    /\ ClaimGoto(c, "random")
    /\ UNCHANGED <<api, body, claimAnswer, history, service>>

\* ... and writes the random code it made, unless rand.Read fails.
AssignCode(c) ==
    /\ claimPc[c] = "random"
    /\ ClaimGoto(c, "idle")
    /\ \/ LET fresh == Cardinality(codes) + 1
          IN  Code' = fresh /\ codes' = codes \cup {fresh}
       \/ UNCHANGED <<Code, codes>>
    /\ UNCHANGED <<Secret, body, claimAnswer, calls, exchanged, stored, service>>

\* Mutant: an agent that has its secret may be claimed again.
ClaimAgain(c) ==
    /\ Call(c)
    /\ Code # 0
    /\ body' = [body EXCEPT ![c] = Code]
    /\ ClaimGoto(c, "setup")
    /\ UNCHANGED <<api, claimAnswer, history, service>>

\* ClaimAgentSecret with a valid type passes its guards and encodes the body
\* of all its polls.  (Otherwise it returns an error and changes nothing.)
ClaimAgentSecret(c) ==
    /\ Call(c)
    /\ Code # 0
    /\ Secret = 0
    /\ body' = [body EXCEPT ![c] = Code]
    /\ ClaimGoto(c, "setup")
    /\ UNCHANGED <<api, claimAnswer, history, service>>

\* The service answers a poll.
Setup(c) ==
    /\ claimPc[c] = "setup"
    /\ \E a \in requestToApi(user[body[c]]) : claimAnswer' = [claimAnswer EXCEPT ![c] = a]
    /\ ClaimGoto(c, "decide")
    /\ UNCHANGED <<api, body, calls, history, service>>

\* Mutant: a rejection is polled again like any other answer.
RejectionIgnored(c) ==
    /\ claimPc[c] = "decide"
    /\ CASE claimAnswer[c] = "error" -> ClaimGoto(c, "idle") /\ UNCHANGED body
         [] claimAnswer[c] = "UserAccepted" ->
              ClaimGoto(c, "exchange") /\ body' = [body EXCEPT ![c] = Code]
         [] OTHER -> ClaimGoto(c, "setup") /\ UNCHANGED body
    /\ UNCHANGED <<api, claimAnswer, calls, history, service>>

\* Mutant: a visit of the user is taken for consent.
VisitSuffices(c) ==
    /\ claimPc[c] = "decide"
    /\ CASE claimAnswer[c] \in {"error", "UserRejected"} -> ClaimGoto(c, "idle") /\ UNCHANGED body
         [] claimAnswer[c] \in {"UserAccepted", "WaitingForUser"} ->
              ClaimGoto(c, "exchange") /\ body' = [body EXCEPT ![c] = Code]
         [] OTHER -> ClaimGoto(c, "setup") /\ UNCHANGED body
    /\ UNCHANGED <<api, claimAnswer, calls, history, service>>

\* The caller acts on the answer: an error or a rejection ends the call; an
\* acceptance is followed by the exchange of Api.Code, which is read AGAIN;
\* anything else by a sleep of a second and another poll.
Decide(c) ==
    /\ claimPc[c] = "decide"
    /\ CASE claimAnswer[c] \in {"error", "UserRejected"} -> ClaimGoto(c, "idle") /\ UNCHANGED body
         [] claimAnswer[c] = "UserAccepted" ->
              ClaimGoto(c, "exchange") /\ body' = [body EXCEPT ![c] = Code]
         [] OTHER -> ClaimGoto(c, "setup") /\ UNCHANGED body
    /\ UNCHANGED <<api, claimAnswer, calls, history, service>>

\* The service trades an accepted code for a new secret and refuses others.
\* Its answer may be lost, and the secret with it.
Exchange(c) ==
    /\ claimPc[c] = "exchange"
    /\ exchanged' = exchanged \cup {body[c]}
    /\ IF user[body[c]] = "UserAccepted"
       THEN /\ issued' = issued + 1
            /\ \E a \in requestToApi("secret") : claimAnswer' = [claimAnswer EXCEPT ![c] = a]
            /\ body' = [body EXCEPT ![c] = issued']
       ELSE claimAnswer' = [claimAnswer EXCEPT ![c] = "error"] /\ UNCHANGED <<issued, body>>
    /\ ClaimGoto(c, "store")
    /\ UNCHANGED <<api, calls, codes, stored, user>>

\* The caller copies the secret of the answer, now in body, to the Api.
Store(c) ==
    /\ claimPc[c] = "store"
    /\ IF claimAnswer[c] = "secret"
       THEN Secret' = body[c] /\ stored' = stored \cup {body[c]}
       ELSE UNCHANGED <<Secret, stored>>
    /\ ClaimGoto(c, "idle")
    /\ UNCHANGED <<Code, body, claimAnswer, calls, codes, exchanged, service>>

\* The user opens the ClaimUrl of a code that was made, then decides.
User(x) ==
    /\ x \in codes
    /\ \/ user[x] = "WaitingForUserVisit" /\ user' = [user EXCEPT ![x] = "WaitingForUser"]
       \/ /\ user[x] = "WaitingForUser"
          /\ \E d \in {"UserAccepted", "UserRejected"} : user' = [user EXCEPT ![x] = d]
    /\ UNCHANGED <<api, request, calls, history, issued>>

ClaimStep(c) == AssignCode(c) \/ Decide(c) \/ Store(c)

Service(c) == Setup(c) \/ Exchange(c)

ClaimNext ==
    \/ \E c \in Caller : AiisgnClaimCode(c) \/ ClaimAgentSecret(c) \/ ClaimStep(c) \/ Service(c)
    \/ \E x \in Codes : User(x)

\* A goroutine keeps running; the http.Client has no timeout, so that every
\* request is answered or fails, and that the user decides, are assumptions.
ClaimFairness ==
    /\ \A c \in Caller : WF_claimVars(ClaimStep(c)) /\ WF_claimVars(Service(c))
    /\ \A x \in Codes : WF_claimVars(User(x))

ClaimSpec == ClaimInit /\ [][ClaimNext]_claimVars /\ ClaimFairness

-----------------------------------------------------------------------------
\* A code replaces another only when calls of AiisgnClaimCode overlap, and a
\* stored secret another only when claims do: over any number of calls there
\* are no more of either than goroutines.  (A secret that is replaced is lost
\* to the agent.)
ReplacedOnlyByOverlap ==
    /\ Cardinality(codes) <= Cardinality(Caller)
    /\ Cardinality(stored) <= Cardinality(Caller)

\* A code is presented to /claim/exchange only after its user accepted it,
\* unless overlapping calls of AiisgnClaimCode replaced the code that the
\* user saw: the code that was polled is then not the one exchanged.
ExchangeNeedsConsent ==
    \A x \in exchanged : user[x] = "UserAccepted" \/ Cardinality(codes) > 1

\* Once the user decides, and the API answers, every claim returns.
ClaimReturns ==
    \A c \in Caller : claimPc[c] = "setup" ~> claimPc[c] = "idle"

=============================================================================

------------------------------- MODULE Tunnels -------------------------------
(***************************************************************************)
(* Tunnels of an account (api/tunnels.go): CreateTunnel checks its         *)
(* argument, creates the tunnel, asks for the agent and polls the list of  *)
(* tunnels until the new one is no longer pending.  Meanwhile it may be    *)
(* deleted: by DeleteTunnel in another goroutine, or on the website.  The  *)
(* agent of the tunnel is "self", the one of the Api's secret, or "other": *)
(* as the argument names it, else as the service chooses, and no operation *)
(* of the API moves the tunnel later.                                      *)
(*                                                                         *)
(* Requests fail like those of Claim, before or after the service acted.   *)
(***************************************************************************)
EXTENDS Naturals, FiniteSets

CONSTANTS
    Creator,      \* goroutines that use the Api
    MaxCreates    \* bound: tunnels requested

ASSUME TunnelsAssumption == IsFiniteSet(Creator) /\ MaxCreates \in Nat

VARIABLES
    createPc,  \* where each caller is
    wanted,    \* the agent that the argument of its CreateTunnel names
    id,        \* the tunnel its CreateTunnel made, 0 before that
    listed,    \* the status of Tunnels[0] in the last list, or "empty", "error"
    result,    \* how its last CreateTunnel ended
    panic,     \* "no", or what ended the program
    creates,   \* calls of CreateTunnel that passed the checks
    made,      \* tunnels created so far
    status,    \* external: what became of each tunnel
    owner      \* external: the agent that each tunnel belongs to

caller == <<createPc, wanted, id, listed, result>>
tunnelVars == <<caller, panic, creates, made, status, owner>>

ID == 1..MaxCreates

-----------------------------------------------------------------------------
(* The argument of CreateTunnel: the dynamic types of its parts.           *)

Data == {"UseAllocDedicatedIp", "UseAllocPortAlloc", "UseRegion", "UseRegion invalid", "other"}

AgentOf ==
    [default |-> "AssignedDefaultCreate",
     agent   |-> "AssignedAgentCreate",
     managed |-> "AssignedManagedCreate"]

\* Each with the agent_id it may hold: the default has none, the managed may.
Agent ==
    [as : {AgentOf.default}, ID : {"none"}]
    \cup [as : {AgentOf.agent}, ID : {"self", "other"}]
    \cup [as : {AgentOf.managed}, ID : {"none", "self", "other"}]

Tunnel ==
    [Alloc  : Data \cup {"nil"},
     Origin : [Type : DOMAIN AgentOf \cup {"unknown"}, Agent : Agent],
     Type   : {"none", "known", "unknown"}]

\* TunnelCreateUseAllocation.Check; a nil allocation is dereferenced before.
AllocCheck(data) == data \in {"UseAllocDedicatedIp", "UseAllocPortAlloc", "UseRegion"}

\* TunnelOriginCreate.Check: a type that is none of the three passes.
OriginCheck(o) == o.Type \in DOMAIN AgentOf => o.Agent.as = AgentOf[o.Type]

Valid(tun) == AllocCheck(tun.Alloc) /\ OriginCheck(tun.Origin) /\ tun.Type # "unknown"

\* The agents that the service may give the tunnel to.
Owners(named) == IF named = "none" THEN {"self", "other"} ELSE {named}

-----------------------------------------------------------------------------
TunnelsInit ==
    /\ createPc = [c \in Creator |-> "idle"]
    /\ wanted = [c \in Creator |-> "none"]
    /\ id = [c \in Creator |-> 0]
    /\ listed = [c \in Creator |-> "none"]
    /\ result = [c \in Creator |-> "none"]
    /\ panic = "no" /\ creates = 0 /\ made = 0
    /\ status = [x \in ID |-> "none"]
    /\ owner = [x \in ID |-> "none"]

At(c, l) == createPc[c] = l /\ panic = "no"

Goto(c, l) == createPc' = [createPc EXCEPT ![c] = l] /\ UNCHANGED <<wanted, result>>

\* The argument goes out of scope.
Return(c, r) ==
    /\ createPc' = [createPc EXCEPT ![c] = "idle"]
    /\ wanted' = [wanted EXCEPT ![c] = "none"]
    /\ result' = [result EXCEPT ![c] = r]

CreateTunnel(c, tun) ==
    /\ At(c, "idle")
    /\ creates < MaxCreates
    /\ id' = [id EXCEPT ![c] = 0]
    /\ \/ /\ tun.Alloc = "nil"
          /\ panic' = "nil Alloc"
          /\ UNCHANGED <<createPc, wanted, result, creates>>
       \/ /\ tun.Alloc # "nil" /\ ~ Valid(tun)
          /\ Return(c, "error")
          /\ UNCHANGED <<panic, creates>>
       \/ /\ Valid(tun)
          /\ createPc' = [createPc EXCEPT ![c] = "create"]
          /\ wanted' = [wanted EXCEPT ![c] = tun.Origin.Agent.ID]
          /\ creates' = creates + 1
          /\ UNCHANGED <<result, panic>>
    /\ UNCHANGED <<listed, made, status, owner>>

\* /tunnels/create: the id stays in a copy of the argument, and is unknown to
\* the caller of CreateTunnel whether or not the call fails later.
Create(c) ==
    /\ At(c, "create")
    /\ \/ /\ made' = made + 1
          /\ status' = [status EXCEPT ![made'] = "pending"]
          /\ \E a \in Owners(wanted[c]) : owner' = [owner EXCEPT ![made'] = a]
          /\ \/ id' = [id EXCEPT ![c] = made'] /\ Goto(c, "info")
             \/ UNCHANGED id /\ Return(c, "error")
       \/ Return(c, "error") /\ UNCHANGED <<made, id, status, owner>>
    /\ UNCHANGED <<listed, panic, creates>>

\* AgentInfo: only its agent_id is used.
AgentInfo(c) ==
    /\ At(c, "info")
    /\ Goto(c, "list") \/ Return(c, "error")
    /\ UNCHANGED <<id, listed, panic, creates, made, status, owner>>

\* Mutant: the list is not restricted to the tunnel.
AllTunnels(x) == {y \in 1..made : status[y] # "deleted" /\ owner[y] = "self"}

\* Mutant: the ids of tunnel and agent are swapped, and nothing matches.
SwappedIds(x) == {}

\* ListTunnels(tun.ID, &info.ID): the tunnels, sorted by id, that have this
\* tunnel_id and belong to the agent of AgentInfo.
TunnelList(x) == {y \in 1..made : y = x /\ status[y] # "deleted" /\ owner[y] = "self"}

First(S) == CHOOSE x \in S : \A y \in S : x <= y

ListTunnels(c) ==
    LET list == TunnelList(id[c])
        head == IF list = {} THEN "empty" ELSE status[First(list)]
    IN  /\ At(c, "list")
        /\ \E a \in {head, "error"} : listed' = [listed EXCEPT ![c] = a]
        /\ Goto(c, "act")
        /\ UNCHANGED <<id, panic, creates, made, status, owner>>

\* The body of the loop after the list has come: pending sleeps two seconds
\* and polls again, any other status returns nil.
Act(c) ==
    /\ At(c, "act")
    /\ CASE listed[c] = "error"   -> Return(c, "error") /\ UNCHANGED panic
         [] listed[c] = "empty"   -> panic' = "Tunnels[0]" /\ UNCHANGED <<createPc, wanted, result>>
         [] listed[c] = "pending" -> Goto(c, "list") /\ UNCHANGED panic
         [] OTHER                 -> Return(c, "nil") /\ UNCHANGED panic
    /\ UNCHANGED <<id, listed, creates, made, status, owner>>

\* /tunnels/delete, of a tunnel that the caller found in a list.  (A request
\* that fails before the service acts changes nothing, and neither does the
\* nil id.)
DeleteTunnel(c, x) ==
    /\ At(c, "idle")
    /\ x <= made
    /\ status' = [status EXCEPT ![x] = "deleted"]
    /\ UNCHANGED <<caller, panic, creates, made, owner>>

\* The website and the allocation of the service.
Website(x) ==
    /\ x <= made
    /\ \/ status' = [status EXCEPT ![x] = "deleted"]
       \/ /\ status[x] = "pending"
          /\ \E s \in {"allocated", "disabled"} : status' = [status EXCEPT ![x] = s]
    /\ UNCHANGED <<caller, panic, creates, made, owner>>

CreateStep(c) == Create(c) \/ AgentInfo(c) \/ ListTunnels(c) \/ Act(c)

TunnelsNext ==
    \/ \E c \in Creator, tun \in Tunnel : CreateTunnel(c, tun)
    \/ \E c \in Creator : CreateStep(c)
    \/ \E c \in Creator, x \in ID : DeleteTunnel(c, x)
    \/ \E x \in ID : Website(x)

\* Goroutines run; that every request is answered or fails, and that the
\* service allocates or disables a pending tunnel, are assumptions: neither
\* the http.Client nor the loop has a timeout.
TunnelsFairness ==
    /\ \A c \in Creator : WF_tunnelVars(CreateStep(c))
    /\ \A x \in ID : WF_tunnelVars(Website(x) /\ status[x] = "pending")

TunnelsSpec == TunnelsInit /\ [][TunnelsNext]_tunnelVars /\ TunnelsFairness

-----------------------------------------------------------------------------
\* CreateTunnel returns nil only when its own tunnel is no longer pending,
\* whatever other tunnels the account has.
NilMeansDecided ==
    \A c \in Creator : result[c] = "nil" /\ id[c] # 0 /\ createPc[c] = "idle" =>
        status[id[c]] \in {"allocated", "disabled", "deleted"}

\* The program panics over Tunnels[0] of an empty list: a call that names the
\* agent of the Api gets there only when its tunnel was deleted between its
\* creation and a poll.  A call that names no agent, or another, may get there
\* though its tunnel is there: the list is restricted to the Api's own agent.
PanicNeedsDeletion ==
    panic = "Tunnels[0]" =>
        \E c \in Creator :
            /\ createPc[c] = "act" /\ listed[c] = "empty"
            /\ wanted[c] = "self" => status[id[c]] = "deleted"

\* A call returns, or the program panics, once the service has decided.
CreateReturns ==
    \A c \in Creator : createPc[c] = "create" ~> createPc[c] = "idle" \/ panic # "no"

=============================================================================

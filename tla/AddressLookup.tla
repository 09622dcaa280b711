---------------------------- MODULE AddressLookup ----------------------------
(***************************************************************************)
(* LookupWithOverrides (tunnel/address_lookup.go): the local address for a *)
(* client of the tunnel, from a table of overrides that its owner filled.  *)
(* Ports are those of a narrower machine: uint16 is 0..Ports-1.            *)
(***************************************************************************)
EXTENDS Naturals, SequencesExt

CONSTANTS
    IP,           \* addresses of the tunnel service
    Local,        \* addresses of local servers
    LocalHost,    \* 127.0.0.1
    Proto,        \* values of PortType
    Ports,        \* 2^16, scaled down
    MaxOverrides,  \* bound: entries of the table
    MaxLookups    \* bound: lookups made

VARIABLES
    overrides,    \* the table
    answers       \* the lookups made, with what they returned

lookupVars == <<overrides, answers>>

Port == 0..(Ports - 1)

\* MatchIp and its port, the protocol, the range of ports and the server.
MappingOverride ==
    [ip : IP, port : Port, proto : Proto, from : Port, to : Port, local : Local]

\* Mutant: the address alone is compared.
MatchesAddr(o, ip, port) == o.ip = ip

Matches(o, ip, port) == o.ip = ip /\ o.port = port

\* The index of the override that answers, 0 for none.
Chosen(ip, port, proto) ==
    SelectInSeq(overrides, LAMBDA o : o.proto = proto /\ Matches(o, ip, port))

Default(port) ==
    [value |-> <<LocalHost, port>>, FromPort |-> port, ToPort |-> (port + 1) % Ports]

AddressValue(i, port) ==
    IF i = 0 THEN Default(port)
    ELSE [value |-> overrides[i].local,
          FromPort |-> overrides[i].from, ToPort |-> overrides[i].to]

LookupInit == overrides = << >> /\ answers = {}

\* The owner adds an entry to the table, before the first lookup.
Override(o) ==
    /\ answers = {} /\ Len(overrides) < MaxOverrides
    /\ overrides' = Append(overrides, o)
    /\ UNCHANGED answers

Lookup(ip, port, proto) ==
    LET i == Chosen(ip, port, proto)
    IN  /\ Cardinality(answers) < MaxLookups
        /\ answers' = answers \cup
               {[ip |-> ip, port |-> port, proto |-> proto, by |-> i,
                 answer |-> AddressValue(i, port)]}
        /\ UNCHANGED overrides

LookupNext ==
    \/ \E o \in MappingOverride : Override(o)
    \/ \E ip \in IP, port \in Port, proto \in Proto : Lookup(ip, port, proto)

LookupSpec == LookupInit /\ [][LookupNext]_lookupVars

-----------------------------------------------------------------------------
\* An answer of an override names a range of ports, but the range takes no
\* part in the match: a client of another port in that range, of the same
\* address and protocol, is sent to its own port of 127.0.0.1, or to the
\* server of another override that has just this port.
RangeIsNotServed ==
    \A a, b \in answers :
        /\ a.by # 0 /\ a.ip = b.ip /\ a.proto = b.proto
        /\ b.port \in a.answer.FromPort..a.answer.ToPort /\ b.port # a.port
        => \/ b.answer = Default(b.port)
           \/ /\ b.by \notin {0, a.by}
              /\ overrides[b.by].port = b.port /\ b.answer.value = overrides[b.by].local

=============================================================================

----------------------------- MODULE StunClient -----------------------------
(***************************************************************************)
(* mesh/nat_traversal.go: DiscoverPublicAddress asks each STUN server in    *)
(* turn, every time from a new socket, and compares the answers; HolePunch  *)
(* sends and waits on a socket that it hands to its caller.  Servers and    *)
(* the NAT are external: a NAT gives a local socket its public address, the *)
(* same for all servers ("cone"), one per server ("symmetric"), or the      *)
(* socket's own ("none").                                                   *)
(***************************************************************************)
EXTENDS Integers, Sequences, FiniteSets

CONSTANTS
    NServers,   \* len(c.servers)
    Ports,      \* bound: local ports the host hands out
    Tries,      \* punch packets, 5
    Softs       \* bound: lengths of a software attribute

StunAssumption ==
    /\ NServers \in Nat \ {0} /\ Tries \in Nat \ {0}
    /\ Ports \subseteq Nat \ {0} /\ Softs \subseteq Nat

VARIABLES
    nat,        \* "unset", or the NAT in front of the host
    npc,        \* "idle", "ask", "judge", "punch", "wait" or "done"
    nserver,    \* the server of the loop, or the punch packets sent
    socks,      \* ports of the open sockets
    lastConn,   \* port of lastConn, or 0
    first,      \* firstAddr, <<>> if empty
    local,      \* result.LocalAddr
    stable,     \* result.MappingStable
    verdict,    \* result.NATType, or "error"
    answers     \* history: server -> public address, <<>> if it failed

nvars == <<nat, npc, nserver, socks, lastConn, first, local, stable, verdict, answers>>

Init ==
    /\ nat = "unset" /\ npc = "idle" /\ nserver = 0 /\ socks = {} /\ lastConn = 0
    /\ first = <<>> /\ local = <<>> /\ stable = FALSE /\ verdict = "unknown"
    /\ answers = [i \in 1 .. NServers |-> <<>>]

(* The public address of a local port, as a server sees it.                 *)
Mapped(port, server) ==
    CASE nat = "none" -> <<"host", port>>
      [] nat = "cone" -> <<"nat", port>>
      [] nat = "symmetric" -> <<"nat", port, server>>

Discover(n) ==
    /\ npc = "idle" /\ nat = "unset"
    /\ nat' = n /\ npc' = "ask" /\ nserver' = 1
    /\ UNCHANGED <<socks, lastConn, first, local, stable, verdict, answers>>

----------------------------------------------------------------------------
(* parseAddress.  A response is its length, the length its header claims,   *)
(* and attributes [at, type, len, family], at being the offset after the    *)
(* attribute's own header.  The walk stops at the first address attribute,  *)
(* or where an attribute would run past the datagram.                       *)

Padded(n) == IF n % 4 = 0 THEN n ELSE n + 4 - (n % 4)

(* Mutation: the padding after an attribute is not skipped.                 *)
NextOffsetUnpadded(offset, len) == offset + len

NextOffset(offset, len) == Padded(offset + len)

(* Offset of the first address attribute the walk meets, 0 if none: attrs   *)
(* maps the offset of each attribute in the datagram to the attribute.      *)
Walk(r) ==
    LET walk[o \in 0 .. r.size] ==
            IF o >= r.claimed + 20 \/ o + 4 > r.size THEN 0
            ELSE IF o \notin DOMAIN r.attrs THEN 0
            ELSE IF o + 4 + r.attrs[o].len > r.size THEN 0
            ELSE IF r.attrs[o].type \in {"xor", "mapped"} THEN o
            ELSE LET n == NextOffset(o + 4, r.attrs[o].len) IN
                 IF n > r.size THEN 0 ELSE walk[n]
    IN  walk[20]

(* The attribute decodes.  The XOR with the cookie undoes the server's.     *)
Decodes(attr) == attr.len >= 8 /\ attr.family = 4

parseAddress(r) ==       \* TRUE if an address is returned
    /\ r.size >= 20 /\ r.claimed + 20 <= r.size
    /\ Walk(r) > 0 /\ Decodes(r.attrs[Walk(r)])

(* Responses of a server: three attributes, each padded, of which any can be *)
(* the address, of either family and of either type, and the others are     *)
(* software texts of some length; the datagram may lack the end of the last *)
(* one, and the length in the header may leave it out.                      *)
Attribute(type, len, family) == [type |-> type, len |-> len, family |-> family]
Fronts == {Attribute("software", n, 0) : n \in Softs}
              \cup {Attribute("xor", 20, 6), Attribute("mapped", 8, 4)}
Lasts == {Attribute(type, IF family = 4 THEN 8 ELSE 20, family) :
             type \in {"xor", "mapped", "other"}, family \in {4, 6}}

Response(a, b, c, cut, less) ==
    LET atB == 24 + Padded(a.len)
        atC == atB + 4 + Padded(b.len)
        full == atC + 4 + c.len
    IN  [size |-> full - cut, claimed |-> full - 20 - less,
         attrs |-> [o \in {20, atB, atC} |-> IF o = 20 THEN a ELSE IF o = atB THEN b ELSE c]]
Responses ==
    {Response(a, b, c, cut, less) :
        a \in Fronts, b \in Fronts, c \in Lasts, cut \in {0, 4}, less \in {0, 4}}
NoneParses == \A r \in Responses : ~parseAddress(r)
AllParse == \A r \in Responses : parseAddress(r)

(* sendBindingRequest: an error closes its socket.  The address in a        *)
(* response that parses is the NAT's, whichever response it is.             *)
Answer(port) ==
    LET addr == Mapped(port, nserver) IN
    /\ npc = "ask" /\ nserver <= NServers /\ port \notin socks
    /\ ~NoneParses
    /\ answers' = [answers EXCEPT ![nserver] = addr]
    /\ socks' = (socks \cup {port}) \ {lastConn} /\ lastConn' = port
    /\ IF nserver = 1
       THEN first' = addr /\ local' = <<"host", port>> /\ UNCHANGED <<stable, verdict>>
       ELSE /\ stable' = (addr = first)
            /\ verdict' = IF addr # first THEN "symmetric" ELSE verdict
            /\ UNCHANGED <<first, local>>
    /\ nserver' = nserver + 1
    /\ UNCHANGED <<nat, npc>>

NoAnswer ==
    /\ npc = "ask" /\ nserver <= NServers
    /\ nserver' = nserver + 1
    /\ UNCHANGED <<nat, npc, socks, lastConn, first, local, stable, verdict, answers>>

Unparsed == ~AllParse /\ NoAnswer

(* The end of the loop and the verdict.                                     *)
Judge ==
    /\ npc = "ask" /\ nserver > NServers
    /\ npc' = "done" /\ socks' = socks \ {lastConn}
    /\ verdict' = IF first = <<>> THEN "error"
                  ELSE IF verdict = "symmetric" THEN verdict
                  ELSE IF first = local THEN "none"
                  ELSE IF stable THEN "full" ELSE "unknown"
    /\ UNCHANGED <<nat, nserver, lastConn, first, local, stable, answers>>

----------------------------------------------------------------------------
(* HolePunch, on a socket bound to a given port                             *)

HolePunch(port) ==
    /\ npc = "idle" /\ nat = "unset"
    /\ npc' = "punch" /\ nserver' = 0 /\ socks' = {port}
    /\ UNCHANGED <<nat, lastConn, first, local, stable, verdict, answers>>

Punch ==
    /\ npc = "punch"
    /\ nserver' = nserver + 1 /\ npc' = IF nserver' = Tries THEN "wait" ELSE "punch"
    /\ UNCHANGED <<nat, socks, lastConn, first, local, stable, verdict, answers>>

(* The context ends between two packets, or nothing comes back in time.     *)
PunchFails ==
    /\ npc \in {"punch", "wait"}
    /\ npc' = "done" /\ socks' = {} /\ verdict' = "error"
    /\ UNCHANGED <<nat, nserver, lastConn, first, local, stable, answers>>

Punched ==
    /\ npc = "wait"
    /\ npc' = "done" /\ verdict' = "punched"
    /\ UNCHANGED <<nat, nserver, socks, lastConn, first, local, stable, answers>>

Next ==
    \/ \E n \in {"none", "cone", "symmetric"} : Discover(n)
    \/ \E port \in Ports : Answer(port)
    \/ NoAnswer \/ Unparsed \/ Judge
    \/ \E port \in Ports : HolePunch(port)
    \/ Punch \/ PunchFails \/ Punched

----------------------------------------------------------------------------
Answered == {i \in 1 .. NServers : answers[i] # <<>>}

(* What holds of the verdict.  A symmetric NAT is never missed where there   *)
(* are two answers to compare with the first server's; that there is no NAT  *)
(* is only said when there is none; and there is an error when no server     *)
(* answered, and a verdict when the first one did.  ConeNotSymmetric and     *)
(* ErrorMeansUnreachable are what does not hold.                             *)
Verdict ==
    /\ 1 \in Answered => verdict # "error"
    /\ Answered = {} => verdict = "error"
    /\ nat = "symmetric" /\ 1 \in Answered /\ Cardinality(Answered) > 1 => verdict = "symmetric"
    /\ verdict = "none" => nat = "none"

(* A response is understood if and only if its header claims no more than    *)
(* the datagram holds and the first of its address attributes is a whole     *)
(* IPv4 address, whatever its length and that of the others: one of the      *)
(* other family in front of it hides it.                                     *)
Addresses(r) == {o \in DOMAIN r.attrs : r.attrs[o].type \in {"xor", "mapped"}}
Understood(r) ==
    parseAddress(r) <=>
        /\ r.claimed + 20 <= r.size
        /\ \E o \in Addresses(r) :
              /\ \A q \in Addresses(r) : o <= q
              /\ r.attrs[o].family = 4 /\ o + 4 + r.attrs[o].len <= r.size
AllUnderstood == \A r \in Responses : Understood(r)

(* The verdict, the responses it rests on, and the sockets: none is left     *)
(* open but the one that HolePunch returns.                                  *)
NatVerdict ==
    npc = "done" =>
        /\ nat # "unset" => Verdict /\ AllUnderstood
        /\ socks = {} \/ verdict = "punched"

(* "Compare mappings across servers to detect NAT type"                      *)
(* (nat_traversal.go:114): behind a NAT that gives a socket one address for  *)
(* all servers, or behind none, the mappings compared are not different.  It *)
(* does not hold: README section 4.                                          *)
ConeNotSymmetric ==
    npc = "done" /\ nat \in {"none", "cone"} => verdict # "symmetric"

(* "all STUN servers unreachable" (nat_traversal.go:129) is said only then.  *)
(* It does not hold: README section 4.                                       *)
ErrorMeansUnreachable ==
    npc = "done" /\ nat # "unset" /\ verdict = "error" => Answered = {}
=============================================================================

---------------------------- MODULE MCComponents ----------------------------
(***************************************************************************)
(* The bandwidth limiter and the components that share no state with the   *)
(* proxy, the daemon, the mesh or each other, for TLC in one run: a        *)
(* behaviour is a behaviour of one of them, the one that `part' names, and *)
(* the others stay as they began.  The configuration file gives the        *)
(* constants their values; an instance of a proof module is one of the     *)
(* component's module with the lemmas about it.                            *)
(***************************************************************************)
EXTENDS Integers, Sequences, FiniteSets

CONSTANTS
    Waiters, ByteCounts, Rates, Second, OverflowRate,   \* RateLimiter
    QuicConns, Streams, MaxStreams, MaxErrors,    \* Transport
    Sizes, Bufs, MaxFrames,                       \* SecureConn
    PacketSizes, MaxPackets,                      \* PacketStream
    MaxCrashes,                                   \* FirewallRules
    BanPeers, MaxTime, Bans, Levels,              \* PeerManager
    GeneralLimit, ImportLimit, Window, MaxClock,  \* ControlLimiter
    NServers, Ports, Tries, Softs,                \* StunClient
    Words, TTLs, TargetTTL,                       \* IPHeader
    Total, TempSize, RelayBuf, MinFrag, MaxFrag,  \* RelayPath
    Values, Lists, ShortLists                     \* Negotiation

OddLevels == {-5, 101}    \* trust levels that SetTrustLevel has to clamp
TwoValues == {<<>>, <<"a">>, <<"b">>, <<"a", "b">>, <<"b", "a">>}
DefaultOrder == {<<>>, <<"a">>, <<"a", "b">>}    \* two values in the order of the defaults

VARIABLES
    part,
    bytesPerSec, tokens, maxBurst, enabled, age, asked, sleep, clock,     \* RateLimiter
    tkind, listening, cancelled, lsock, watcher, recv, held, squeue, sclosed, stream, dialed,
    active, twg, shut, accErrors, panicked,                               \* Transport
    hname, hpc, hround, hwire, hopen, armed, keys, sent, nrecv, got, garbled,  \* SecureConn
    pwire, psent, pgot, pskew,                                            \* PacketStream
    impl, os, fw, kstate, kpc, kstep, stale, crashes,                     \* FirewallRules
    now, blocked, kicked, trust, askpc, status, ban, promise,             \* PeerManager
    cnow, requests, importing, admitted, spent, wrong,                    \* ControlLimiter
    nat, npc, nserver, socks, lastConn, first, local, stable, verdict, answers,  \* StunClient
    strategy, uaOn, fragOn, cread, inspected, ubuf, rpc, pend, reclen, wmode, nr, nw,
    out, want, headers, why,                                              \* RelayPath
    ipin, ipout, iperr,                                                   \* IPHeader
    ends, profiles                                                        \* Negotiation

Bandwidth == INSTANCE RateLimiterProofs WITH Sizes <- ByteCounts, want <- asked
Transports == INSTANCE TransportProofs
Secure == INSTANCE SecureConnProofs
Packets == INSTANCE PacketStream
Firewall == INSTANCE FirewallRules
Peers == INSTANCE PeerManager
Limiter == INSTANCE ControlLimiter
Stun == INSTANCE StunClient
Relay == INSTANCE RelayPathProofs
Header == INSTANCE IPHeader
Negotiate == INSTANCE Negotiation

(* The identifiers of connections and streams are positive; lengths, limits *)
(* and durations are not negative.                                          *)
ASSUME ComponentsAssumption ==
    /\ Bandwidth!LimiterAssumption
    /\ Transports!TransportAssumption /\ Secure!SecureAssumption
    /\ GeneralLimit \in Nat /\ ImportLimit \in Nat /\ Window \in Nat
    /\ MaxTime \in Nat /\ Bans \subseteq Nat /\ Levels \subseteq Int
    /\ Stun!StunAssumption /\ Relay!RelayAssumption /\ Header!HeaderAssumption
    /\ Negotiate!NegotiationAssumption

(* The length of a packet fits the four bytes before it.                    *)
ASSUME PacketAssumption == \A n \in PacketSizes : n \in Nat /\ n <= 2147483647

lv == <<bytesPerSec, tokens, maxBurst, enabled, age, asked, sleep, clock>>
tv == <<tkind, listening, cancelled, lsock, watcher, recv, held, squeue, sclosed, stream, dialed,
        active, twg, shut, accErrors, panicked>>
hv == <<hname, hpc, hround, hwire, hopen, armed, keys, sent, nrecv, got, garbled>>
pv == <<pwire, psent, pgot, pskew>>
fv == <<impl, os, fw, kstate, kpc, kstep, stale, crashes>>
bv == <<now, blocked, kicked, trust, askpc, status, ban, promise>>
cv == <<cnow, requests, importing, admitted, spent, wrong>>
nv == <<nat, npc, nserver, socks, lastConn, first, local, stable, verdict, answers>>
rv == <<strategy, uaOn, fragOn, cread, inspected, ubuf, rpc, pend, reclen, wmode, nr, nw,
        out, want, headers, why>>
iv == <<ipin, ipout, iperr>>
gv == <<ends, profiles>>
vars == <<part, lv, tv, hv, pv, fv, bv, cv, nv, rv, iv, gv>>

Init ==
    /\ part \in {"bandwidth", "transport", "secure", "packets", "firewall", "peers", "limiter",
                 "stun", "relay", "header", "negotiation"}
    /\ Bandwidth!Init /\ (part # "bandwidth" => bytesPerSec = 0)
    /\ Transports!Init /\ Secure!Init /\ Packets!Init /\ Firewall!Init /\ Peers!Init
    /\ Limiter!Init /\ Stun!Init /\ Relay!Init /\ Header!Init /\ Negotiate!Init

BandwidthNext ==
    /\ part = "bandwidth" /\ Bandwidth!Next
    /\ UNCHANGED <<part, tv, hv, pv, fv, bv, cv, nv, rv, iv, gv>>
TransportNext ==
    /\ part = "transport" /\ Transports!Next
    /\ UNCHANGED <<part, lv, hv, pv, fv, bv, cv, nv, rv, iv, gv>>
SecureNext ==
    /\ part = "secure" /\ Secure!Next
    /\ UNCHANGED <<part, lv, tv, pv, fv, bv, cv, nv, rv, iv, gv>>
PacketNext ==
    /\ part = "packets" /\ Packets!Next
    /\ UNCHANGED <<part, lv, tv, hv, fv, bv, cv, nv, rv, iv, gv>>
FirewallNext ==
    /\ part = "firewall" /\ Firewall!Next
    /\ UNCHANGED <<part, lv, tv, hv, pv, bv, cv, nv, rv, iv, gv>>
PeerNext ==
    /\ part = "peers" /\ Peers!Next
    /\ UNCHANGED <<part, lv, tv, hv, pv, fv, cv, nv, rv, iv, gv>>
LimiterNext ==
    /\ part = "limiter" /\ Limiter!Next
    /\ UNCHANGED <<part, lv, tv, hv, pv, fv, bv, nv, rv, iv, gv>>
StunNext ==
    /\ part = "stun" /\ Stun!Next
    /\ UNCHANGED <<part, lv, tv, hv, pv, fv, bv, cv, rv, iv, gv>>
RelayNext ==
    /\ part = "relay" /\ Relay!Next
    /\ UNCHANGED <<part, lv, tv, hv, pv, fv, bv, cv, nv, iv, gv>>
HeaderNext ==
    /\ part = "header" /\ Header!Next
    /\ UNCHANGED <<part, lv, tv, hv, pv, fv, bv, cv, nv, rv, gv>>
NegotiationNext ==
    /\ part = "negotiation" /\ Negotiate!Next
    /\ UNCHANGED <<part, lv, tv, hv, pv, fv, bv, cv, nv, rv, iv>>

Next ==
    \/ BandwidthNext \/ TransportNext \/ SecureNext \/ PacketNext \/ FirewallNext \/ PeerNext
    \/ LimiterNext \/ StunNext \/ RelayNext \/ HeaderNext \/ NegotiationNext

(* Time passes for the limiter, and a waiter that is awake and gets the     *)
(* mutex iterates.  The goroutines of a transport go on until the process dies; a QUIC       *)
(* connection ends once the context is done.  A handshake goes on, at the   *)
(* latest when its deadline passes.                                         *)
Limiting(A) == part = "bandwidth" /\ A /\ UNCHANGED <<part, tv, hv, pv, fv, bv, cv, nv, rv, iv, gv>>
Running(A) == part = "transport" /\ ~panicked /\ A /\ UNCHANGED <<part, lv, hv, pv, fv, bv, cv, nv, rv, iv, gv>>
Handshaking(A) == part = "secure" /\ A /\ UNCHANGED <<part, lv, tv, pv, fv, bv, cv, nv, rv, iv, gv>>

Spec == Init /\ [][Next]_vars

FairSpec ==
    /\ Spec
    /\ WF_vars(Limiting(Bandwidth!Tick))
    /\ \A w \in Waiters : WF_vars(Limiting(Bandwidth!WaitGrant(w) \/ Bandwidth!WaitSleep(w)))
    /\ WF_vars(Running(Transports!ListenStep))
    /\ WF_vars(Running(Transports!WatcherClose))
    /\ WF_vars(Running(Transports!LoopEnds))
    /\ \A r \in Transports!Receivers : WF_vars(Running(Transports!ReceiverStep(r)))
    /\ \A c \in QuicConns : WF_vars(Running(cancelled /\ Transports!ConnEnds(c)))
    /\ \A e \in Secure!Ends : WF_vars(Handshaking(Secure!HandshakeStep(e)))

----------------------------------------------------------------------------
(* The properties of the components, in force while the component runs.     *)

(* The limiter's numbers: no grant takes the tokens below zero, no division *)
(* by a zero rate (proxy/rate_limiter.go).                                  *)
TokensNatural == Bandwidth!TypeOK
(* It grants no more than a token bucket of its rate may ...                *)
ImplementsBucket == Bandwidth!ImplementsBucket
(* ... and, asked for no more than a burst, does not starve everybody.      *)
SomeoneServed == Bandwidth!SomeoneServed
(* ActiveStreams and t.wg count what they stand for (transport/quic.go).    *)
StreamsCounted == Transports!StreamsCounted
(* Accepted streams exceed MaxStreams only by racing QUIC receivers.        *)
StreamLimit == Transports!StreamLimit
(* After a QUIC Shutdown no goroutine accepts or delivers (quic.go).        *)
ShutdownQuiet == Transports!ShutdownQuiet
(* A Shutdown never makes a receiver panic (quic.go:296).                   *)
ShutdownGraceful == Transports!ShutdownGraceful
(* A send on the closed stream channel needs QUIC and a cancelled context.  *)
PanicOnlyInShutdown == Transports!PanicOnlyInShutdown
(* A cancelled transport releases its listener and ends its goroutines.     *)
ShutdownReleases == Transports!ShutdownReleases
(* Two ends with a connection hold matching keys (handshake/noise_conn.go). *)
KeysAgree == Secure!KeysAgree
(* Frames, and the packets of the transports, arrive in order without gaps. *)
FramesInOrder == Secure!FramesInOrder /\ Packets!PacketsInOrder
(* A Noise handshake ends, whatever the peer does.                          *)
HandshakeEnds == Secure!HandshakeEnds
(* The firewall's rules are those of the kill switch's state.               *)
RulesMatchState == Firewall!RulesMatchState
(* A peer is blocked while its last ban runs, not longer than its longest.  *)
BansHold == Peers!BansHold
(* No window of the control service admits more than its limit.             *)
WindowBound == Limiter!WindowBound
(* What the STUN answers lead to, and no socket leaks (nat_traversal.go).   *)
NatVerdict == Stun!NatVerdict
(* The target receives the client's bytes in order, and all of them, record *)
(* headers apart.                                                           *)
RelayExact == Relay!RelayExact
(* A rewritten IPv4 header has a valid checksum (privacy/ttl.go).           *)
ChecksumValid == Header!ChecksumValid
(* Two ends that negotiate on their own agree (protocol/negotiation.go).    *)
NegotiationAgrees == Negotiate!NegotiationAgrees
-----------------------------------------------------------------------------
(* What lines of the repository say and the code does not keep: as an       *)
(* INVARIANT of components.cfg TLC refutes each (README section 4).         *)

(* An enabled switch blocks what does not go through the tunnel             *)
(* (killswitch.go:38).                                                      *)
EnabledBlocks == Firewall!EnabledBlocks
(* BlockPeer blocks a peer permanently (peer_manager.go:57).                *)
BlockedForGood == Peers!BlockedForGood
(* Only a symmetric NAT is judged to be one (nat_traversal.go:114).         *)
ConeNotSymmetric == Stun!ConeNotSymmetric
(* The discovery fails only if every server did (nat_traversal.go:129).     *)
ErrorMeansUnreachable == Stun!ErrorMeansUnreachable
(* The fragments of a chunk are the chunk (privacy/fragment.go:120).        *)
FragmentsReproduce == Relay!FragmentsReproduce
=============================================================================

-------------------------------- MODULE Mesh --------------------------------
(***************************************************************************)
(* The mesh service of core/go/internal/mesh/libp2p.go and tcp_listener.go: *)
(* the table of connected peers, the connections in it, the goroutines that *)
(* accept, dial, read and time out, the subscribers, Start and Stop.        *)
(*                                                                          *)
(* A connection is a member of Conns from the moment it is accepted or      *)
(* dialed until it is closed and nobody reads it; then it is "free", and    *)
(* stands for another one.  An accepted connection has a reader goroutine,  *)
(* which knows its peer by ID; a dialed one has none.                       *)
(***************************************************************************)
EXTENDS Naturals, FiniteSets

CONSTANTS
    Peers,     \* peer IDs
    Conns,     \* bound: connections alive together
    Dialers,   \* concurrent callers of Connect
    Subs,      \* subscriptions
    Expiry     \* health-check periods after which a silent peer is dropped

ASSUME MeshAssumption ==
    /\ IsFiniteSet(Peers)
    /\ Expiry \in Nat
    /\ {"absent", "nil"} \cap Conns = {}

Absent == "absent"       \* no entry in s.peers
NilConn == "nil"         \* an entry whose conn is nil

VARIABLES
    phase,      \* where Start and Stop are
    ctxDone,    \* s.ctx is cancelled
    listener,   \* s.tcpListener: "none", "open" or "closed"
    tcp,        \* program counter of tcpListenerLoop
    udp,        \* s.udpConn: "none", "open" or "closed"
    gossiper,   \* program counter of gossipListenerLoop
    loops,      \* one of the other loops that s.wg counts still runs
    peers,      \* s.peers: a connection, NilConn or Absent for each ID
    age,        \* health-check periods since the entry's lastSeen
    connected,  \* stats.ConnectedPeers
    cstate,     \* state of each connection
    reader,     \* its reader goroutine: "none", "reading" or "failed"
    owner,      \* the ID its reader disconnects, or Absent
    dpc,        \* program counter of each dialer
    dpeer,      \* the ID it connects to, or Absent
    dconn,      \* the connection it obtained, NilConn or Absent
    listed,     \* subscriptions whose channel is in s.subscribers
    asking,     \* Subscribe calls that have read s.started and not gone on
    closed      \* subscriptions whose channel Stop has closed

lifecycle   == <<phase, ctxDone, listener, tcp, udp, gossiper, loops>>
table       == <<peers, age, connected>>
connections == <<cstate, reader, owner>>
dialers     == <<dpc, dpeer, dconn>>
subscribers == <<listed, asking, closed>>
vars == <<lifecycle, table, connections, dialers, subscribers>>

Phases == {"new", "started", "waiting", "closepeers", "closesubs", "stopped", "timedout"}
TcpStates == {"off", "binding", "check", "listening", "ended"}
GossipStates == {"off", "binding", "reading", "ended"}
SocketStates == {"none", "open", "closed"}
ConnStates == {"free", "handshake", "dialed", "open", "broken", "closed"}
Entries == {p \in Peers : peers[p] # Absent}
Started == phase = "started"

Init ==
    /\ phase = "new" /\ ctxDone = FALSE /\ loops = FALSE
    /\ listener = "none" /\ tcp = "off" /\ udp = "none" /\ gossiper = "off"
    /\ peers = [p \in Peers |-> Absent] /\ age = [p \in Peers |-> 0] /\ connected = 0
    /\ cstate = [c \in Conns |-> "free"] /\ reader = [c \in Conns |-> "none"]
    /\ owner = [c \in Conns |-> Absent]
    /\ dpc = [d \in Dialers |-> "idle"] /\ dpeer = [d \in Dialers |-> Absent]
    /\ dconn = [d \in Dialers |-> Absent]
    /\ listed = {} /\ asking = {} /\ closed = {}

----------------------------------------------------------------------------
(* The table, under s.peersMu                                               *)

(* What cstate becomes when the connections of gone are closed.             *)
Close(cs, gone) ==
    [c \in Conns |-> IF c \notin gone THEN cs[c]
                     ELSE IF reader[c] = "none" THEN "free" ELSE "closed"]

(* Mutations: the connection of the replaced entry is left open, or the     *)
(* metric is raised by one instead of being set.                            *)
InsertUnclosed(p, c) ==
    /\ peers' = [peers EXCEPT ![p] = c]
    /\ age' = [age EXCEPT ![p] = 0]
    /\ connected' = Cardinality(Entries \cup {p})
    /\ cstate' = [x \in Conns |-> IF x = c THEN "open" ELSE cstate[x]]

InsertCounted(p, c) ==
    /\ peers' = [peers EXCEPT ![p] = c]
    /\ age' = [age EXCEPT ![p] = 0]
    /\ connected' = connected + 1
    /\ cstate' = [x \in Conns |-> IF x = c THEN "open" ELSE Close(cstate, {peers[p]})[x]]

(* Store the entry of p; the connection of the one it replaces is closed.   *)
Insert(p, c) ==
    /\ peers' = [peers EXCEPT ![p] = c]
    /\ age' = [age EXCEPT ![p] = 0]
    /\ connected' = Cardinality(Entries \cup {p})
    /\ cstate' = [x \in Conns |-> IF x = c THEN "open" ELSE Close(cstate, {peers[p]})[x]]

Remove(gone) ==
    /\ peers' = [p \in Peers |-> IF p \in gone THEN Absent ELSE peers[p]]
    /\ age' = [p \in Peers |-> IF p \in gone THEN 0 ELSE age[p]]

UpdateLastSeen(p) == age' = [age EXCEPT ![p] = 0]

----------------------------------------------------------------------------
(* Start, and the loops it spawns                                           *)

Start ==
    /\ phase = "new"
    /\ phase' = "started"
    /\ tcp' = "binding" /\ gossiper' = "binding" /\ loops' = TRUE
    /\ UNCHANGED <<ctxDone, listener, udp, table, connections, dialers, subscribers>>

(* The daemon's context, the parent of s.ctx, is cancelled by a signal.     *)
ParentCancel ==
    /\ phase # "new"
    /\ ctxDone' = TRUE
    /\ UNCHANGED <<phase, listener, tcp, udp, gossiper, loops, table, connections, dialers, subscribers>>

(* The health, metrics, STUN and sending loops look at s.ctx between rounds.*)
LoopsExit ==
    /\ loops /\ ctxDone
    /\ loops' = FALSE
    /\ UNCHANGED <<phase, ctxDone, listener, tcp, udp, gossiper, table, connections, dialers, subscribers>>

(* tcpListenerLoop publishes its listener and then looks at s.ctx, while    *)
(* Stop cancels s.ctx and then looks at s.tcpListener.                      *)
TcpBind ==
    /\ tcp = "binding"
    /\ \/ listener' = "open" /\ tcp' = "check"
       \/ tcp' = "ended" /\ UNCHANGED listener
    /\ UNCHANGED <<phase, ctxDone, udp, gossiper, loops, table, connections, dialers, subscribers>>

(* Mutation: tcpListenerLoop does not look at s.ctx after it has bound.     *)
TcpCheckNothing ==
    /\ tcp = "check"
    /\ tcp' = "listening"
    /\ UNCHANGED <<phase, ctxDone, listener, udp, gossiper, loops, table, connections, dialers, subscribers>>

TcpCheck ==
    /\ tcp = "check"
    /\ IF ctxDone THEN listener' = "closed" /\ tcp' = "ended"
                  ELSE tcp' = "listening" /\ UNCHANGED listener
    /\ UNCHANGED <<phase, ctxDone, udp, gossiper, loops, table, connections, dialers, subscribers>>

Accept(c) ==
    /\ tcp = "listening" /\ listener = "open"
    /\ cstate[c] = "free"
    /\ cstate' = [cstate EXCEPT ![c] = "handshake"]
    /\ UNCHANGED <<lifecycle, table, reader, owner, dialers, subscribers>>

(* Any error of Accept ends the loop, not only that of a closed listener.   *)
AcceptError ==
    /\ tcp = "listening"
    /\ tcp' = "ended"
    /\ UNCHANGED <<phase, ctxDone, listener, udp, gossiper, loops, table, connections, dialers, subscribers>>

(* Mutation: stale entries are not dropped.                                 *)
HealthTickKeeps ==
    /\ loops
    /\ age' = [p \in Peers |-> IF peers[p] = NilConn THEN age[p] + 1 ELSE 0]
    /\ UNCHANGED <<lifecycle, peers, connected, connections, dialers, subscribers>>

(* Every 15 s: an entry with a connection counts as seen, one without is    *)
(* dropped when it was last seen more than 60 s ago.  With s.ctx cancelled  *)
(* and the ticker due, the select may still choose the tick.                *)
HealthTick ==
    /\ loops
    /\ LET gone == {p \in Peers : peers[p] = NilConn /\ age[p] >= Expiry}
       IN  /\ peers' = [p \in Peers |-> IF p \in gone THEN Absent ELSE peers[p]]
           /\ age' = [p \in Peers |-> IF peers[p] = NilConn /\ p \notin gone
                                      THEN age[p] + 1 ELSE 0]
           /\ connected' = Cardinality(Entries \ gone)
    /\ UNCHANGED <<lifecycle, connections, dialers, subscribers>>

(* gossipListenerLoop binds its UDP socket and publishes it in s.udpConn.    *)
GossipBind ==
    /\ gossiper = "binding"
    /\ \/ udp' = "open" /\ gossiper' = "reading"
       \/ gossiper' = "ended" /\ UNCHANGED udp
    /\ UNCHANGED <<phase, ctxDone, listener, tcp, loops, table, connections, dialers, subscribers>>

(* Between two reads of 100 ms it looks at s.ctx, and returns when that is   *)
(* done or the socket fails; neither way does it close the socket.          *)
GossipEnds ==
    /\ gossiper = "reading"
    /\ gossiper' = "ended"
    /\ UNCHANGED <<phase, ctxDone, listener, tcp, udp, loops, table, connections, dialers, subscribers>>

(* A gossip message of p, which may have been read before s.ctx was done;   *)
(* the events it gives rise to are sent to the listed channels without      *)
(* blocking and change nothing here.                                        *)
Gossip(p) ==
    /\ gossiper = "reading"
    /\ peers[p] # Absent
    /\ UpdateLastSeen(p)
    /\ UNCHANGED <<lifecycle, peers, connected, connections, dialers, subscribers>>

----------------------------------------------------------------------------
(* An accepted connection                                                   *)

(* The Noise handshake gives the peer's ID; a reader is spawned.            *)
HandshakeOK(c, p) ==
    /\ cstate[c] = "handshake"
    /\ Insert(p, c)
    /\ reader' = [reader EXCEPT ![c] = "reading"]
    /\ owner' = [owner EXCEPT ![c] = p]
    /\ UNCHANGED <<lifecycle, dialers, subscribers>>

HandshakeFails(c) ==
    /\ cstate[c] = "handshake"
    /\ cstate' = [cstate EXCEPT ![c] = "free"]
    /\ UNCHANGED <<lifecycle, table, reader, owner, dialers, subscribers>>

ReaderData(c) ==
    /\ reader[c] = "reading" /\ cstate[c] = "open"
    /\ UpdateLastSeen(owner[c])
    /\ UNCHANGED <<lifecycle, peers, connected, connections, dialers, subscribers>>

(* The remote end closes the connection, or the network drops it.           *)
RemoteClose(c) ==
    /\ cstate[c] = "open"
    /\ cstate' = [cstate EXCEPT ![c] = "broken"]
    /\ UNCHANGED <<lifecycle, table, reader, owner, dialers, subscribers>>

ReaderError(c) ==
    /\ reader[c] = "reading" /\ cstate[c] \in {"broken", "closed"}
    /\ reader' = [reader EXCEPT ![c] = "failed"]
    /\ UNCHANGED <<lifecycle, table, cstate, owner, dialers, subscribers>>

(* s.Disconnect(peerID): the entry of that ID is removed and its connection *)
(* closed, whichever connection that is; a missing entry is an error.       *)
Disconnect(p) ==
    IF p \in Entries
      THEN Remove({p}) /\ connected' = Cardinality(Entries \ {p})
      ELSE UNCHANGED table

(* Mutation: the reader returns without Disconnect.                         *)
ReaderReturns(c) ==
    /\ reader[c] = "failed"
    /\ cstate' = [cstate EXCEPT ![c] = IF @ = "closed" THEN "free" ELSE @]
    /\ reader' = [reader EXCEPT ![c] = "none"]
    /\ owner' = [owner EXCEPT ![c] = Absent]
    /\ UNCHANGED <<lifecycle, table, dialers, subscribers>>

ReaderDisconnect(c) ==
    /\ reader[c] = "failed"
    /\ Disconnect(owner[c])
    /\ LET cs == Close(cstate, {peers[owner[c]]})
       IN  cstate' = [cs EXCEPT ![c] = IF @ = "closed" THEN "free" ELSE @]
    /\ reader' = [reader EXCEPT ![c] = "none"]
    /\ owner' = [owner EXCEPT ![c] = Absent]
    /\ UNCHANGED <<lifecycle, dialers, subscribers>>

(* Disconnect as a call of its own.                                         *)
DisconnectPeer(p) ==
    /\ p \in Entries
    /\ Disconnect(p)
    /\ cstate' = Close(cstate, {peers[p]})
    /\ UNCHANGED <<lifecycle, reader, owner, dialers, subscribers>>

----------------------------------------------------------------------------
(* Connect                                                                  *)

ConnectCall(d, p) ==
    /\ dpc[d] = "idle" /\ Started
    /\ dpc' = [dpc EXCEPT ![d] = "dialing"]
    /\ dpeer' = [dpeer EXCEPT ![d] = p]
    /\ UNCHANGED <<lifecycle, table, connections, dconn, subscribers>>

Dialed(d, c) ==
    /\ dpc[d] = "dialing"
    /\ dpc' = [dpc EXCEPT ![d] = "insert"]
    /\ dconn' = [dconn EXCEPT ![d] = c]

(* One of the peer's addresses answered and completed the handshake ...     *)
DialOK(d, c) ==
    /\ Dialed(d, c)
    /\ cstate[c] = "free"
    /\ cstate' = [cstate EXCEPT ![c] = "dialed"]
    /\ UNCHANGED <<lifecycle, table, reader, owner, dpeer, subscribers>>

(* ... or none did, and the peer is entered all the same, without one.      *)
DialFails(d) ==
    /\ Dialed(d, NilConn)
    /\ UNCHANGED <<lifecycle, table, connections, dpeer, subscribers>>

ConnectInsert(d) ==
    /\ dpc[d] = "insert"
    /\ Insert(dpeer[d], dconn[d])
    /\ dpc' = [dpc EXCEPT ![d] = "idle"]
    /\ dpeer' = [dpeer EXCEPT ![d] = Absent]
    /\ dconn' = [dconn EXCEPT ![d] = Absent]
    /\ UNCHANGED <<lifecycle, reader, owner, subscribers>>

----------------------------------------------------------------------------
(* Subscribe                                                                *)

SubscribeCall(s) ==
    /\ s \notin asking \cup listed \cup closed /\ Started
    /\ asking' = asking \cup {s}
    /\ UNCHANGED <<lifecycle, table, connections, dialers, listed, closed>>

SubscribeAdd(s) ==
    /\ s \in asking
    /\ listed' = listed \cup {s}
    /\ asking' = asking \ {s}
    /\ UNCHANGED <<lifecycle, table, connections, dialers, closed>>

(* The subscriber's context is done: its channel is taken off the list.     *)
Unsubscribe(s) ==
    /\ s \in listed
    /\ listed' = listed \ {s}
    /\ UNCHANGED <<lifecycle, table, connections, dialers, asking, closed>>

----------------------------------------------------------------------------
(* Stop                                                                     *)

(* It cancels s.ctx and closes the sockets it finds in s.udpConn and        *)
(* s.tcpListener; a loop that publishes its own after that is not seen.     *)
StopCall ==
    /\ phase = "started"
    /\ phase' = "waiting"
    /\ ctxDone' = TRUE
    /\ udp' = IF udp = "open" THEN "closed" ELSE udp
    /\ listener' = IF listener = "open" THEN "closed" ELSE listener
    /\ UNCHANGED <<tcp, gossiper, loops, table, connections, dialers, subscribers>>

(* s.wg counts the loops, and neither the handshakes, nor the readers, nor  *)
(* the callers of Connect.                                                  *)
StopDrained ==
    /\ phase = "waiting"
    /\ ~loops /\ tcp = "ended" /\ gossiper = "ended"
    /\ phase' = "closepeers"
    /\ UNCHANGED <<ctxDone, listener, tcp, udp, gossiper, loops, table, connections, dialers, subscribers>>

(* The caller's context is done first: peers and subscribers stay.          *)
StopTimeout ==
    /\ phase = "waiting"
    /\ phase' = "timedout"
    /\ UNCHANGED <<ctxDone, listener, tcp, udp, gossiper, loops, table, connections, dialers, subscribers>>

(* The table is emptied; stats.ConnectedPeers is not touched.               *)
StopClosePeers ==
    /\ phase = "closepeers"
    /\ Remove(Peers)
    /\ cstate' = Close(cstate, {peers[p] : p \in Entries})
    /\ phase' = "closesubs"
    /\ UNCHANGED <<ctxDone, listener, tcp, udp, gossiper, loops, connected, reader, owner, dialers, subscribers>>

(* Mutation: the closed channels stay in s.subscribers.                     *)
StopCloseSubsListed ==
    /\ phase = "closesubs"
    /\ closed' = closed \cup listed
    /\ phase' = "stopped"
    /\ UNCHANGED <<ctxDone, listener, tcp, udp, gossiper, loops, table, connections, dialers, listed, asking>>

StopCloseSubs ==
    /\ phase = "closesubs"
    /\ closed' = closed \cup listed
    /\ listed' = {}
    /\ phase' = "stopped"
    /\ UNCHANGED <<ctxDone, listener, tcp, udp, gossiper, loops, table, connections, dialers, asking>>

----------------------------------------------------------------------------
TcpStep == TcpBind \/ TcpCheck
GossipStep == GossipBind \/ (ctxDone /\ GossipEnds)
ReaderStep(c) == ReaderError(c) \/ ReaderDisconnect(c)
StopStep == StopDrained \/ StopClosePeers \/ StopCloseSubs

Next ==
    \/ Start \/ ParentCancel \/ TcpStep \/ AcceptError \/ GossipBind \/ GossipEnds
    \/ HealthTick \/ LoopsExit
    \/ \E p \in Peers : Gossip(p) \/ DisconnectPeer(p)
    \/ \E c \in Conns :
          \/ Accept(c) \/ HandshakeFails(c) \/ ReaderData(c) \/ RemoteClose(c) \/ ReaderStep(c)
          \/ \E p \in Peers : HandshakeOK(c, p)
    \/ \E d \in Dialers :
          \/ DialFails(d) \/ ConnectInsert(d)
          \/ \E p \in Peers : ConnectCall(d, p)
          \/ \E c \in Conns : DialOK(d, c)
    \/ \E s \in Subs : SubscribeCall(s) \/ SubscribeAdd(s) \/ Unsubscribe(s)
    \/ StopCall \/ StopTimeout \/ StopStep

Spec == Init /\ [][Next]_vars

(* Goroutines that can run are run, and Accept fails on a closed listener.  *)
(* Nothing is assumed of the peers, of the callers or of their deadlines.   *)
(* Each subscript is a variable that every step of its action changes.      *)
Fairness ==
    /\ WF_tcp(TcpStep \/ (listener = "closed" /\ AcceptError))
    /\ WF_gossiper(GossipStep) /\ WF_loops(LoopsExit)
    /\ \A c \in Conns : WF_reader(ReaderStep(c))
    /\ WF_phase(StopStep)

FairSpec == Spec /\ Fairness

----------------------------------------------------------------------------
(* The types of the variables.                                              *)
TypeOK ==
    /\ phase \in Phases /\ ctxDone \in BOOLEAN /\ loops \in BOOLEAN
    /\ tcp \in TcpStates /\ listener \in SocketStates
    /\ gossiper \in GossipStates /\ udp \in SocketStates
    /\ peers \in [Peers -> Conns \cup {NilConn, Absent}]
    /\ age \in [Peers -> 0 .. Expiry] /\ connected \in Nat
    /\ cstate \in [Conns -> ConnStates]
    /\ reader \in [Conns -> {"none", "reading", "failed"}]
    /\ owner \in [Conns -> Peers \cup {Absent}]
    /\ dpc \in [Dialers -> {"idle", "dialing", "insert"}]
    /\ dpeer \in [Dialers -> Peers \cup {Absent}]
    /\ dconn \in [Dialers -> Conns \cup {NilConn, Absent}]
    /\ listed \subseteq Subs /\ asking \subseteq Subs /\ closed \subseteq Subs

(* No connection is lost or kept after its end: the established ones that    *)
(* nobody closed are exactly those in the table, each under one ID, however  *)
(* replacements, readers, Disconnect and Stop interleave.                    *)
TableOwnsConnections ==
    /\ \A c \in Conns : cstate[c] \in {"open", "broken"} <=> \E p \in Peers : peers[p] = c
    /\ \A p, q \in Peers : peers[p] = peers[q] /\ peers[p] \in Conns => p = q

(* ConnectedPeers is the size of the table until Stop empties it.            *)
PeerCountExact ==
    phase \notin {"closesubs", "stopped"} => connected = Cardinality(Entries)

(* No event is ever sent on a channel that Stop closed (it would panic), and *)
(* none is closed twice.                                                     *)
NoSendOnClosed == listed \cap closed = {}

(* When Stop has waited for the loops the TCP listener is not left open,     *)
(* whichever of Stop and tcpListenerLoop looked at what the other writes     *)
(* first.  The UDP socket may be: see GossipSocketClosed.                    *)
StopClosesListener ==
    phase \in {"closepeers", "closesubs", "stopped"} => listener # "open"

(* "Stop shuts down the mesh network gracefully" (libp2p.go:221): when it    *)
(* has waited for the loops the gossip socket is closed.  It does not hold:  *)
(* README section 4.                                                         *)
GossipSocketClosed ==
    phase \in {"closepeers", "closesubs", "stopped"} => udp # "open"

(* An accepted connection that broke is closed in the end, and with that its *)
(* peer is out of the table unless it has connected again.                   *)
DeadPeerRemoved ==
    \A c \in Conns : (cstate[c] = "broken" /\ reader[c] # "none") ~> cstate[c] # "broken"

(* Stop returns, whenever it is called, without its caller's deadline.       *)
StopReturns == phase = "waiting" ~> phase \in {"stopped", "timedout"}

(* A reader that detects the end of its connection removes that connection   *)
(* from the table, and never another one that works.                         *)
ReaderRemovesItsOwn ==
    [][\A c \in Conns, p \in Peers :
          reader[c] = "failed" /\ reader'[c] = "none" /\ peers[p] \in Conns \ {c} =>
              peers'[p] # Absent]_vars
=============================================================================

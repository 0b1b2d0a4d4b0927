----------------------------- MODULE MeshProofs -----------------------------
(* Theorems about Mesh, for every number of peers, connections, dialers and *)
(* subscriptions and every expiry.                                          *)
EXTENDS Mesh, FiniteSetTheorems, TLAPS

(* A new service is well typed.                                             *)
LEMMA InitTypes == Init => TypeOK
<1> SUFFICES ASSUME Init PROVE TypeOK
  OBVIOUS
<1>1. /\ phase \in Phases /\ ctxDone \in BOOLEAN /\ loops \in BOOLEAN
      /\ tcp \in TcpStates /\ listener \in SocketStates
      /\ gossiper \in GossipStates /\ udp \in SocketStates
  BY DEF Init, Phases, TcpStates, GossipStates, SocketStates
<1>2. /\ peers \in [Peers -> Conns \cup {NilConn, Absent}]
      /\ age \in [Peers -> 0 .. Expiry] /\ connected \in Nat
  BY MeshAssumption DEF Init
<1>3. /\ cstate \in [Conns -> ConnStates]
      /\ reader \in [Conns -> {"none", "reading", "failed"}]
      /\ owner \in [Conns -> Peers \cup {Absent}]
  BY DEF Init, ConnStates
<1>4. /\ dpc \in [Dialers -> {"idle", "dialing", "insert"}]
      /\ dpeer \in [Dialers -> Peers \cup {Absent}]
      /\ dconn \in [Dialers -> Conns \cup {NilConn, Absent}]
      /\ listed \subseteq Subs /\ asking \subseteq Subs /\ closed \subseteq Subs
  BY DEF Init
<1> QED
  BY <1>1, <1>2, <1>3, <1>4 DEF TypeOK

(* The table is finite, and so is every part of it.                         *)
LEMMA EntriesFinite ==
    ASSUME NEW gone \in SUBSET Peers
    PROVE  /\ IsFiniteSet(gone) /\ Cardinality(gone) \in Nat
           /\ IsFiniteSet(Entries) /\ Cardinality(Entries) \in Nat
           /\ Cardinality(Entries \cup gone) \in Nat
           /\ Cardinality(Entries \ gone) \in Nat
<1>1. Entries \subseteq Peers
  BY DEF Entries
<1>2. /\ IsFiniteSet(gone) /\ IsFiniteSet(Entries)
      /\ IsFiniteSet(Entries \cup gone) /\ IsFiniteSet(Entries \ gone)
  BY <1>1, MeshAssumption, FS_Subset
<1> QED
  BY <1>2, FS_CardinalityType

(* Closing connections leaves every connection in one of its states.        *)
LEMMA CloseType ==
    ASSUME NEW cs \in [Conns -> ConnStates], NEW gone
    PROVE  Close(cs, gone) \in [Conns -> ConnStates]
  BY DEF Close, ConnStates

(* Dropping entries keeps the types of what it changes.                     *)
LEMMA RemoveTypes ==
    ASSUME TypeOK, NEW gone \in SUBSET Peers, Remove(gone)
    PROVE  /\ peers' \in [Peers -> Conns \cup {NilConn, Absent}]
           /\ age' \in [Peers -> 0 .. Expiry]
  BY MeshAssumption DEF Remove, TypeOK

(* Disconnect keeps the types, whether or not there is an entry.            *)
LEMMA DisconnectTypes ==
    ASSUME TypeOK, NEW p, Disconnect(p)
    PROVE  /\ peers' \in [Peers -> Conns \cup {NilConn, Absent}]
           /\ age' \in [Peers -> 0 .. Expiry] /\ connected' \in Nat
<1>1. CASE p \in Entries
  <2>1. {p} \in SUBSET Peers
    BY <1>1 DEF Entries
  <2> QED
    BY <1>1, <2>1, RemoveTypes, EntriesFinite DEF Disconnect
<1>2. CASE p \notin Entries
  BY <1>2 DEF Disconnect, table, TypeOK
<1> QED
  BY <1>1, <1>2

(* Storing an entry keeps the types of what it changes.                     *)
LEMMA InsertTypes ==
    ASSUME TypeOK, NEW p \in Peers, NEW c \in Conns \cup {NilConn, Absent}, Insert(p, c)
    PROVE  /\ peers' \in [Peers -> Conns \cup {NilConn, Absent}]
           /\ age' \in [Peers -> 0 .. Expiry] /\ connected' \in Nat
           /\ cstate' \in [Conns -> ConnStates]
<1>1. Cardinality(Entries \cup {p}) \in Nat
  BY EntriesFinite
<1>2. Close(cstate, {peers[p]}) \in [Conns -> ConnStates]
  BY CloseType DEF TypeOK
<1>3. 0 \in 0 .. Expiry
  BY MeshAssumption
<1>4. \A x \in Conns : Close(cstate, {peers[p]})[x] \in ConnStates
  BY <1>2
<1>5. cstate' \in [Conns -> ConnStates]
  BY <1>4 DEF Insert, ConnStates
<1> QED
  BY <1>1, <1>3, <1>5 DEF Insert, TypeOK

----------------------------------------------------------------------------
(* Who holds a connection.  Only what is established has a reader, and a     *)
(* closed connection waits for its reader; a dialer between its two steps    *)
(* holds a connection that nobody else has.                                  *)
Holders ==
    /\ \A c \in Conns :
          /\ cstate[c] \in {"free", "handshake", "dialed"} => reader[c] = "none"
          /\ cstate[c] = "closed" => reader[c] # "none"
          /\ reader[c] # "none" => owner[c] \in Peers
    /\ \A d \in Dialers :
          /\ dpc[d] # "idle" => dpeer[d] \in Peers
          /\ dpc[d] = "insert" => dconn[d] # Absent
          /\ dpc[d] = "insert" /\ dconn[d] \in Conns => cstate[dconn[d]] = "dialed"
    /\ \A d, e \in Dialers :
          dpc[d] = "insert" /\ dpc[e] = "insert" /\ dconn[d] \in Conns /\ dconn[d] = dconn[e]
              => d = e

TableInv == TypeOK /\ Holders /\ TableOwnsConnections

(* Every step keeps the types.  That a dialer stores its entry under a peer  *)
(* ID is part of Holders.                                                    *)
LEMMA NextTypes == TypeOK /\ Holders /\ [Next]_vars => TypeOK'
<1> SUFFICES ASSUME TypeOK, Holders, [Next]_vars PROVE TypeOK'
  OBVIOUS
<1> USE DEF TypeOK, lifecycle, table, connections, dialers, subscribers
<1>1. CASE Start
  BY <1>1 DEF Start, Phases, TcpStates, GossipStates, SocketStates
<1>2. CASE ParentCancel
  BY <1>2 DEF ParentCancel, Phases, TcpStates, GossipStates, SocketStates
<1>3. CASE TcpBind
  BY <1>3 DEF TcpBind, Phases, TcpStates, GossipStates, SocketStates
<1>4. CASE TcpCheck
  BY <1>4 DEF TcpCheck, Phases, TcpStates, GossipStates, SocketStates
<1>5. CASE AcceptError
  BY <1>5 DEF AcceptError, Phases, TcpStates, GossipStates, SocketStates
<1>6. CASE HealthTick
  <2> DEFINE gone == {p \in Peers : peers[p] = NilConn /\ age[p] >= Expiry}
  <2>1. Cardinality(Entries \ gone) \in Nat
    BY EntriesFinite
  <2>2. peers' \in [Peers -> Conns \cup {NilConn, Absent}]
    BY <1>6 DEF HealthTick
  <2>3. age' \in [Peers -> 0 .. Expiry]
    BY <1>6, MeshAssumption DEF HealthTick
  <2> QED
    BY <1>6, <2>1, <2>2, <2>3 DEF HealthTick
<1>7. CASE LoopsExit
  BY <1>7 DEF LoopsExit, Phases, TcpStates, GossipStates, SocketStates
<1>8. ASSUME NEW p \in Peers, Gossip(p) PROVE TypeOK'
  BY <1>8, MeshAssumption DEF Gossip, UpdateLastSeen
<1>9. ASSUME NEW p \in Peers, DisconnectPeer(p) PROVE TypeOK'
  BY <1>9, DisconnectTypes, CloseType DEF DisconnectPeer
<1>10. ASSUME NEW c \in Conns, Accept(c) PROVE TypeOK'
  BY <1>10 DEF Accept, ConnStates
<1>11. ASSUME NEW c \in Conns, HandshakeFails(c) PROVE TypeOK'
  BY <1>11 DEF HandshakeFails, ConnStates
<1>12. ASSUME NEW c \in Conns, ReaderData(c) PROVE TypeOK'
  <2>1. owner[c] \in Peers
    BY <1>12 DEF ReaderData, Holders
  <2>2. age' \in [Peers -> 0 .. Expiry]
    BY <1>12, <2>1, MeshAssumption DEF ReaderData, UpdateLastSeen
  <2> QED
    BY <1>12, <2>2 DEF ReaderData
<1>13. ASSUME NEW c \in Conns, RemoteClose(c) PROVE TypeOK'
  BY <1>13 DEF RemoteClose, ConnStates
<1>14. ASSUME NEW c \in Conns, ReaderError(c) PROVE TypeOK'
  BY <1>14 DEF ReaderError, ConnStates
<1>15. ASSUME NEW c \in Conns, ReaderDisconnect(c) PROVE TypeOK'
  <2>1. Close(cstate, {peers[owner[c]]}) \in [Conns -> ConnStates]
    BY CloseType
  <2>2. cstate' \in [Conns -> ConnStates]
    BY <1>15, <2>1 DEF ReaderDisconnect, ConnStates
  <2> QED
    BY <1>15, <2>2, DisconnectTypes DEF ReaderDisconnect
<1>16. ASSUME NEW c \in Conns, NEW p \in Peers, HandshakeOK(c, p) PROVE TypeOK'
  BY <1>16, InsertTypes DEF HandshakeOK
<1>17. ASSUME NEW d \in Dialers, DialFails(d) PROVE TypeOK'
  BY <1>17 DEF DialFails, Dialed
<1>18. ASSUME NEW d \in Dialers, ConnectInsert(d) PROVE TypeOK'
  <2>1. dpeer[d] \in Peers /\ dconn[d] \in Conns \cup {NilConn, Absent}
    BY <1>18 DEF Holders, ConnectInsert
  <2> QED
    BY <1>18, <2>1, InsertTypes DEF ConnectInsert
<1>19. ASSUME NEW d \in Dialers, NEW p \in Peers, ConnectCall(d, p) PROVE TypeOK'
  BY <1>19 DEF ConnectCall
<1>20. ASSUME NEW d \in Dialers, NEW c \in Conns, DialOK(d, c) PROVE TypeOK'
  BY <1>20 DEF DialOK, Dialed, ConnStates
<1>21. ASSUME NEW s \in Subs, SubscribeCall(s) PROVE TypeOK'
  BY <1>21 DEF SubscribeCall
<1>22. ASSUME NEW s \in Subs, SubscribeAdd(s) PROVE TypeOK'
  BY <1>22 DEF SubscribeAdd
<1>23. ASSUME NEW s \in Subs, Unsubscribe(s) PROVE TypeOK'
  BY <1>23 DEF Unsubscribe
<1>24. CASE StopCall
  BY <1>24 DEF StopCall, Phases, TcpStates, GossipStates, SocketStates
<1>25. CASE StopTimeout
  BY <1>25 DEF StopTimeout, Phases, TcpStates, GossipStates, SocketStates
<1>26. CASE StopDrained
  BY <1>26 DEF StopDrained, Phases, TcpStates, GossipStates, SocketStates
<1>27. CASE StopClosePeers
  BY <1>27, RemoveTypes, CloseType DEF StopClosePeers, Phases
<1>28. CASE StopCloseSubs
  BY <1>28 DEF StopCloseSubs, Phases, TcpStates, GossipStates, SocketStates
<1>29. CASE UNCHANGED vars
  BY <1>29 DEF vars
<1>30. CASE GossipBind
  BY <1>30 DEF GossipBind, Phases, TcpStates, GossipStates, SocketStates
<1>31. CASE GossipEnds
  BY <1>31 DEF GossipEnds, Phases, TcpStates, GossipStates, SocketStates
<1> QED
  BY <1>1, <1>2, <1>3, <1>4, <1>5, <1>6, <1>7, <1>8, <1>9, <1>10, <1>11, <1>12, <1>13, <1>14, <1>15, <1>16, <1>17, <1>18, <1>19, <1>20, <1>21, <1>22, <1>23, <1>24, <1>25, <1>26, <1>27, <1>28, <1>29, <1>30, <1>31
     DEF Next, TcpStep, ReaderStep, StopStep

(* A service that has not started holds nothing.                            *)
LEMMA InitTable == Init => TableInv
<1> SUFFICES ASSUME Init PROVE TableInv
  OBVIOUS
<1>1. TypeOK
  BY InitTypes
<1>2. Holders
  BY DEF Init, Holders
<1>3. TableOwnsConnections
  BY MeshAssumption DEF Init, TableOwnsConnections, Absent
<1> QED
  BY <1>1, <1>2, <1>3 DEF TableInv
(* Storing the entry of p with a connection that is on nobody's side yet, or *)
(* with none: the table and the connections still agree.                     *)
LEMMA InsertOwns ==
    ASSUME TableInv, NEW p \in Peers, NEW c \in Conns \cup {NilConn}, Insert(p, c),
           c \in Conns => cstate[c] \in {"handshake", "dialed"}
    PROVE  TableOwnsConnections'
<1> USE DEF TableInv
<1>1. peers' = [peers EXCEPT ![p] = c]
  BY DEF Insert
<1>2. \A q \in Peers : peers[q] = c => c = NilConn
  BY DEF TypeOK, TableOwnsConnections
<1>3. NilConn \notin Conns /\ Absent \notin Conns
  BY MeshAssumption DEF NilConn, Absent
<1>4. ASSUME NEW x \in Conns
      PROVE  cstate'[x] \in {"open", "broken"} <=> \E q \in Peers : peers'[q] = x
  <2>1. CASE x = c
    BY <2>1, <1>1 DEF Insert, TypeOK
  <2>2. CASE x # c /\ x = peers[p]
    <3>1. cstate'[x] \in {"free", "closed"}
      BY <2>2 DEF Insert, Close
    <3>2. \A q \in Peers : peers'[q] # x
      BY <2>2, <1>1 DEF TypeOK, TableOwnsConnections
    <3> QED
      BY <3>1, <3>2
  <2>3. CASE x # c /\ x # peers[p]
    <3>1. cstate'[x] = cstate[x]
      BY <2>3 DEF Insert, Close
    <3>2. (\E q \in Peers : peers'[q] = x) <=> (\E q \in Peers : peers[q] = x)
      BY <2>3, <1>1 DEF TypeOK
    <3> QED
      BY <3>1, <3>2 DEF TableOwnsConnections
  <2> QED
    BY <2>1, <2>2, <2>3
<1>5. ASSUME NEW q \in Peers, NEW r \in Peers, peers'[q] = peers'[r], peers'[q] \in Conns
      PROVE  q = r
  BY <1>1, <1>2, <1>3, <1>5 DEF TypeOK, TableOwnsConnections
<1> QED
  BY <1>4, <1>5 DEF TableOwnsConnections

(* Dropping entries and closing exactly the connections they held.           *)
LEMMA RemoveOwns ==
    ASSUME TableInv, NEW gone \in SUBSET Peers, Remove(gone),
           \A x \in Conns :
              IF \E p \in gone : peers[p] = x THEN cstate'[x] \in {"free", "closed"}
              ELSE cstate'[x] \in {"open", "broken"} <=> cstate[x] \in {"open", "broken"}
    PROVE  TableOwnsConnections'
<1> USE DEF TableInv
<1>1. \A p \in Peers : peers'[p] = IF p \in gone THEN Absent ELSE peers[p]
  BY DEF Remove
<1>2. Absent \notin Conns
  BY MeshAssumption DEF Absent
<1>3. ASSUME NEW x \in Conns
      PROVE  cstate'[x] \in {"open", "broken"} <=> \E p \in Peers : peers'[p] = x
  <2>1. CASE \E p \in gone : peers[p] = x
    <3>1. \A p \in Peers : peers'[p] # x
      BY <2>1, <1>1, <1>2 DEF TableOwnsConnections
    <3> QED
      BY <2>1, <3>1
  <2>2. CASE ~ \E p \in gone : peers[p] = x
    <3>1. (\E p \in Peers : peers'[p] = x) <=> (\E p \in Peers : peers[p] = x)
      BY <2>2, <1>1, <1>2
    <3> QED
      BY <2>2, <3>1 DEF TableOwnsConnections
  <2> QED
    BY <2>1, <2>2
<1>4. ASSUME NEW p \in Peers, NEW q \in Peers, peers'[p] = peers'[q], peers'[p] \in Conns
      PROVE  p = q
  BY <1>1, <1>2, <1>4 DEF TableOwnsConnections
<1> QED
  BY <1>3, <1>4 DEF TableOwnsConnections

(* Every step keeps who holds which connection.                             *)
LEMMA NextHolders == TableInv /\ [Next]_vars => Holders'
<1> SUFFICES ASSUME TableInv, [Next]_vars PROVE Holders'
  OBVIOUS
<1> USE DEF TableInv, Holders, lifecycle, table, connections, dialers, subscribers
<1>1. CASE Start
  BY <1>1 DEF Start
<1>2. CASE ParentCancel
  BY <1>2 DEF ParentCancel
<1>3. CASE TcpBind
  BY <1>3 DEF TcpBind
<1>4. CASE TcpCheck
  BY <1>4 DEF TcpCheck
<1>5. CASE AcceptError
  BY <1>5 DEF AcceptError
<1>6. CASE HealthTick
  BY <1>6 DEF HealthTick
<1>7. CASE LoopsExit
  BY <1>7 DEF LoopsExit
<1>8. ASSUME NEW p \in Peers, Gossip(p) PROVE Holders'
  BY <1>8 DEF Gossip
<1>9. ASSUME NEW p \in Peers, DisconnectPeer(p) PROVE Holders'
  <2>1. \A x \in Conns : cstate'[x] = IF x # peers[p] THEN cstate[x]
                                         ELSE IF reader[x] = "none" THEN "free" ELSE "closed"
    BY <1>9 DEF DisconnectPeer, Close
  <2>2. peers[p] \in Conns => cstate[peers[p]] \in {"open", "broken"}
    BY DEF TableOwnsConnections
  <2>3. reader' = reader /\ owner' = owner /\ dpc' = dpc /\ dpeer' = dpeer /\ dconn' = dconn
    BY <1>9 DEF DisconnectPeer
  <2>4. \A d \in Dialers :
          /\ dpc'[d] # "idle" => dpeer'[d] \in Peers
          /\ dpc'[d] = "insert" => dconn'[d] # Absent
          /\ dpc'[d] = "insert" /\ dconn'[d] \in Conns => cstate'[dconn'[d]] = "dialed"
    BY <2>1, <2>2, <2>3
  <2>5. \A x \in Conns :
          /\ cstate'[x] \in {"free", "handshake", "dialed"} => reader'[x] = "none"
          /\ cstate'[x] = "closed" => reader'[x] # "none"
          /\ reader'[x] # "none" => owner'[x] \in Peers
    BY <2>1, <2>3
  <2>6. \A d, e \in Dialers :
          dpc'[d] = "insert" /\ dpc'[e] = "insert" /\ dconn'[d] \in Conns /\ dconn'[d] = dconn'[e]
              => d = e
    BY <2>3
  <2> QED
    BY <2>4, <2>5, <2>6
<1>10. ASSUME NEW c \in Conns, Accept(c) PROVE Holders'
  BY <1>10 DEF Accept, TypeOK
<1>11. ASSUME NEW c \in Conns, HandshakeFails(c) PROVE Holders'
  BY <1>11 DEF HandshakeFails, TypeOK
<1>12. ASSUME NEW c \in Conns, ReaderData(c) PROVE Holders'
  BY <1>12 DEF ReaderData
<1>13. ASSUME NEW c \in Conns, RemoteClose(c) PROVE Holders'
  BY <1>13 DEF RemoteClose, TypeOK
<1>14. ASSUME NEW c \in Conns, ReaderError(c) PROVE Holders'
  BY <1>14 DEF ReaderError, TypeOK
<1>15. ASSUME NEW c \in Conns, ReaderDisconnect(c) PROVE Holders'
  <2>1. owner[c] \in Peers
    BY <1>15 DEF ReaderDisconnect
  <2>2. \A x \in Conns \ {c} :
          cstate'[x] = IF x # peers[owner[c]] THEN cstate[x]
                       ELSE IF reader[x] = "none" THEN "free" ELSE "closed"
    BY <1>15 DEF ReaderDisconnect, Close
  <2>3. cstate'[c] \in {"free", "open", "broken"}
    BY <1>15 DEF ReaderDisconnect, Close, TypeOK, ConnStates
  <2>4. peers[owner[c]] \in Conns => cstate[peers[owner[c]]] \in {"open", "broken"}
    BY <2>1 DEF TableOwnsConnections
  <2>5. cstate[c] # "dialed"
    BY <1>15 DEF ReaderDisconnect
  <2>6. /\ reader' = [reader EXCEPT ![c] = "none"] /\ owner' = [owner EXCEPT ![c] = Absent]
        /\ UNCHANGED dialers
    BY <1>15 DEF ReaderDisconnect
  <2>7. \A x \in Conns :
          /\ cstate'[x] \in {"free", "handshake", "dialed"} => reader'[x] = "none"
          /\ cstate'[x] = "closed" => reader'[x] # "none"
          /\ reader'[x] # "none" => owner'[x] \in Peers
    BY <2>2, <2>3, <2>4, <2>6 DEF TypeOK
  <2>8. \A d \in Dialers : dpc'[d] = "insert" /\ dconn'[d] \in Conns => cstate'[dconn'[d]] = "dialed"
    BY <2>2, <2>4, <2>5, <2>6
  <2> QED
    BY <2>6, <2>7, <2>8
<1>16. ASSUME NEW c \in Conns, NEW p \in Peers, HandshakeOK(c, p) PROVE Holders'
  <2>1. \A x \in Conns : cstate'[x] = IF x = c THEN "open" ELSE IF x # peers[p] THEN cstate[x]
                                         ELSE IF reader[x] = "none" THEN "free" ELSE "closed"
    BY <1>16 DEF HandshakeOK, Insert, Close
  <2>2. peers[p] \in Conns => cstate[peers[p]] \in {"open", "broken"}
    BY DEF TableOwnsConnections
  <2> QED
    BY <1>16, <2>1, <2>2 DEF HandshakeOK, TypeOK
<1>17. ASSUME NEW d \in Dialers, DialFails(d) PROVE Holders'
  <2>1. NilConn # Absent /\ NilConn \notin Conns
    BY MeshAssumption DEF Absent, NilConn
  <2> QED
    BY <1>17, <2>1 DEF DialFails, Dialed, TypeOK
<1>18. ASSUME NEW d \in Dialers, ConnectInsert(d) PROVE Holders'
  <2>1. dpeer[d] \in Peers /\ dpc[d] = "insert"
    BY <1>18 DEF ConnectInsert
  <2>2. \A x \in Conns : cstate'[x] = IF x = dconn[d] THEN "open"
                                         ELSE IF x # peers[dpeer[d]] THEN cstate[x]
                                         ELSE IF reader[x] = "none" THEN "free" ELSE "closed"
    BY <1>18 DEF ConnectInsert, Insert, Close
  <2>3. peers[dpeer[d]] \in Conns => cstate[peers[dpeer[d]]] \in {"open", "broken"}
    BY <2>1 DEF TableOwnsConnections
  <2>4. /\ dpc' = [dpc EXCEPT ![d] = "idle"] /\ dpeer' = [dpeer EXCEPT ![d] = Absent]
        /\ dconn' = [dconn EXCEPT ![d] = Absent] /\ UNCHANGED <<reader, owner>>
    BY <1>18 DEF ConnectInsert
  <2> QED
    BY <2>1, <2>2, <2>3, <2>4 DEF TypeOK
<1>19. ASSUME NEW d \in Dialers, NEW p \in Peers, ConnectCall(d, p) PROVE Holders'
  BY <1>19 DEF ConnectCall, TypeOK
<1>20. ASSUME NEW d \in Dialers, NEW c \in Conns, DialOK(d, c) PROVE Holders'
  <2>1. \A x \in Conns : cstate'[x] = IF x = c THEN "dialed" ELSE cstate[x]
    BY <1>20 DEF DialOK, TypeOK
  <2>2. \A e \in Dialers : dpc[e] = "insert" => dconn[e] # c
    BY <1>20 DEF DialOK
  <2>3. c # Absent
    BY MeshAssumption DEF Absent
  <2> QED
    BY <1>20, <2>1, <2>2, <2>3 DEF DialOK, Dialed, TypeOK
<1>21. ASSUME NEW s \in Subs, SubscribeCall(s) PROVE Holders'
  BY <1>21 DEF SubscribeCall
<1>22. ASSUME NEW s \in Subs, SubscribeAdd(s) PROVE Holders'
  BY <1>22 DEF SubscribeAdd
<1>23. ASSUME NEW s \in Subs, Unsubscribe(s) PROVE Holders'
  BY <1>23 DEF Unsubscribe
<1>24. CASE StopCall
  BY <1>24 DEF StopCall
<1>25. CASE StopTimeout
  BY <1>25 DEF StopTimeout
<1>26. CASE StopDrained
  BY <1>26 DEF StopDrained
<1>27. CASE StopClosePeers
  <2> DEFINE gone == {peers[p] : p \in Entries}
  <2>1. \A x \in Conns : cstate'[x] = IF x \notin gone THEN cstate[x]
                                         ELSE IF reader[x] = "none" THEN "free" ELSE "closed"
    BY <1>27 DEF StopClosePeers, Close
  <2>2. \A x \in Conns : x \in gone => cstate[x] \in {"open", "broken"}
    BY DEF TableOwnsConnections, Entries
  <2> HIDE DEF gone
  <2> QED
    BY <1>27, <2>1, <2>2 DEF StopClosePeers, TypeOK
<1>28. CASE StopCloseSubs
  BY <1>28 DEF StopCloseSubs
<1>29. CASE UNCHANGED vars
  BY <1>29 DEF vars
<1>30. CASE GossipBind
  BY <1>30 DEF GossipBind
<1>31. CASE GossipEnds
  BY <1>31 DEF GossipEnds
<1> QED
  BY <1>1, <1>2, <1>3, <1>4, <1>5, <1>6, <1>7, <1>8, <1>9, <1>10, <1>11, <1>12, <1>13, <1>14, <1>15, <1>16, <1>17, <1>18, <1>19, <1>20, <1>21, <1>22, <1>23, <1>24, <1>25, <1>26, <1>27, <1>28, <1>29, <1>30, <1>31
     DEF Next, TcpStep, ReaderStep, StopStep

(* Every step keeps the table and the connections in agreement.             *)
LEMMA NextTable == TableInv /\ [Next]_vars => TableOwnsConnections'
<1> SUFFICES ASSUME TableInv, [Next]_vars PROVE TableOwnsConnections'
  OBVIOUS
<1> USE DEF lifecycle, table, connections, dialers, subscribers
<1>1. CASE Start
  BY <1>1 DEF Start, TableInv, TableOwnsConnections
<1>2. CASE ParentCancel
  BY <1>2 DEF ParentCancel, TableInv, TableOwnsConnections
<1>3. CASE TcpBind
  BY <1>3 DEF TcpBind, TableInv, TableOwnsConnections
<1>4. CASE TcpCheck
  BY <1>4 DEF TcpCheck, TableInv, TableOwnsConnections
<1>5. CASE AcceptError
  BY <1>5 DEF AcceptError, TableInv, TableOwnsConnections
<1>6. CASE HealthTick
  <2>1. \A x \in Conns : (\E p \in Peers : peers'[p] = x) <=> (\E p \in Peers : peers[p] = x)
    BY <1>6, MeshAssumption DEF HealthTick, Absent, NilConn
  <2>2. \A p \in Peers : peers'[p] \in Conns => peers'[p] = peers[p]
    BY <1>6, MeshAssumption DEF HealthTick, Absent
  <2> QED
    BY <1>6, <2>1, <2>2 DEF HealthTick, TableInv, TableOwnsConnections
<1>7. CASE LoopsExit
  BY <1>7 DEF LoopsExit, TableInv, TableOwnsConnections
<1>8. ASSUME NEW p \in Peers, Gossip(p) PROVE TableOwnsConnections'
  BY <1>8 DEF Gossip, TableInv, TableOwnsConnections
<1>9. ASSUME NEW p \in Peers, DisconnectPeer(p) PROVE TableOwnsConnections'
  <2>1. {p} \in SUBSET Peers /\ Remove({p})
    BY <1>9 DEF DisconnectPeer, Disconnect
  <2>2. \A x \in Conns : cstate'[x] = IF x # peers[p] THEN cstate[x]
                                         ELSE IF reader[x] = "none" THEN "free" ELSE "closed"
    BY <1>9 DEF DisconnectPeer, Close
  <2> QED
    BY <2>1, <2>2, RemoveOwns
<1>10. ASSUME NEW c \in Conns, Accept(c) PROVE TableOwnsConnections'
  BY <1>10 DEF Accept, TableInv, TypeOK, TableOwnsConnections
<1>11. ASSUME NEW c \in Conns, HandshakeFails(c) PROVE TableOwnsConnections'
  BY <1>11 DEF HandshakeFails, TableInv, TypeOK, TableOwnsConnections
<1>12. ASSUME NEW c \in Conns, ReaderData(c) PROVE TableOwnsConnections'
  BY <1>12 DEF ReaderData, TableInv, TableOwnsConnections
<1>13. ASSUME NEW c \in Conns, RemoteClose(c) PROVE TableOwnsConnections'
  BY <1>13 DEF RemoteClose, TableInv, TypeOK, TableOwnsConnections
<1>14. ASSUME NEW c \in Conns, ReaderError(c) PROVE TableOwnsConnections'
  BY <1>14 DEF ReaderError, TableInv, TableOwnsConnections
<1>15. ASSUME NEW c \in Conns, ReaderDisconnect(c) PROVE TableOwnsConnections'
  <2>1. owner[c] \in Peers
    BY <1>15 DEF ReaderDisconnect, TableInv, Holders
  <2>2. \A x \in Conns \ {c} :
          cstate'[x] = IF x # peers[owner[c]] THEN cstate[x]
                       ELSE IF reader[x] = "none" THEN "free" ELSE "closed"
    BY <1>15 DEF ReaderDisconnect, Close
  <2>3. cstate'[c] = IF c = peers[owner[c]] \/ cstate[c] = "closed" THEN "free" ELSE cstate[c]
    BY <1>15 DEF ReaderDisconnect, Close
  <2>4. CASE owner[c] \in Entries
    <3>1. Remove({owner[c]})
      BY <1>15, <2>4 DEF ReaderDisconnect, Disconnect
    <3> QED
      BY <2>1, <2>2, <2>3, <3>1, RemoveOwns
  <2>5. CASE owner[c] \notin Entries
    <3>1. peers[owner[c]] \notin Conns
      BY <2>1, <2>5, MeshAssumption DEF Entries, Absent
    <3>2. UNCHANGED peers
      BY <1>15, <2>5 DEF ReaderDisconnect, Disconnect
    <3>3. \A x \in Conns : cstate'[x] \in {"open", "broken"} <=> cstate[x] \in {"open", "broken"}
      BY <2>2, <2>3, <3>1
    <3> QED
      BY <3>2, <3>3 DEF TableInv, TableOwnsConnections
  <2> QED
    BY <2>4, <2>5
<1>16. ASSUME NEW c \in Conns, NEW p \in Peers, HandshakeOK(c, p) PROVE TableOwnsConnections'
  BY <1>16, InsertOwns DEF HandshakeOK
<1>17. ASSUME NEW d \in Dialers, DialFails(d) PROVE TableOwnsConnections'
  BY <1>17 DEF DialFails, TableInv, TableOwnsConnections
<1>18. ASSUME NEW d \in Dialers, ConnectInsert(d) PROVE TableOwnsConnections'
  <2>1. /\ dpeer[d] \in Peers /\ dconn[d] \in Conns \cup {NilConn}
        /\ dconn[d] \in Conns => cstate[dconn[d]] = "dialed"
    BY <1>18 DEF ConnectInsert, TableInv, TypeOK, Holders
  <2> QED
    BY <1>18, <2>1, InsertOwns DEF ConnectInsert
<1>19. ASSUME NEW d \in Dialers, NEW p \in Peers, ConnectCall(d, p) PROVE TableOwnsConnections'
  BY <1>19 DEF ConnectCall, TableInv, TableOwnsConnections
<1>20. ASSUME NEW d \in Dialers, NEW c \in Conns, DialOK(d, c) PROVE TableOwnsConnections'
  BY <1>20 DEF DialOK, TableInv, TypeOK, TableOwnsConnections
<1>21. ASSUME NEW s \in Subs, SubscribeCall(s) PROVE TableOwnsConnections'
  BY <1>21 DEF SubscribeCall, TableInv, TableOwnsConnections
<1>22. ASSUME NEW s \in Subs, SubscribeAdd(s) PROVE TableOwnsConnections'
  BY <1>22 DEF SubscribeAdd, TableInv, TableOwnsConnections
<1>23. ASSUME NEW s \in Subs, Unsubscribe(s) PROVE TableOwnsConnections'
  BY <1>23 DEF Unsubscribe, TableInv, TableOwnsConnections
<1>24. CASE StopCall
  BY <1>24 DEF StopCall, TableInv, TableOwnsConnections
<1>25. CASE StopTimeout
  BY <1>25 DEF StopTimeout, TableInv, TableOwnsConnections
<1>26. CASE StopDrained
  BY <1>26 DEF StopDrained, TableInv, TableOwnsConnections
<1>27. CASE StopClosePeers
  <2>1. \A x \in Conns : cstate'[x] = IF x \notin {peers[p] : p \in Entries} THEN cstate[x]
                                         ELSE IF reader[x] = "none" THEN "free" ELSE "closed"
    BY <1>27 DEF StopClosePeers, Close
  <2>2. \A x \in Conns : x \in {peers[p] : p \in Entries} <=> \E p \in Peers : peers[p] = x
    BY MeshAssumption DEF Entries, Absent
  <2> QED
    BY <1>27, <2>1, <2>2, RemoveOwns DEF StopClosePeers
<1>28. CASE StopCloseSubs
  BY <1>28 DEF StopCloseSubs, TableInv, TableOwnsConnections
<1>29. CASE UNCHANGED vars
  BY <1>29 DEF vars, TableInv, TableOwnsConnections
<1>30. CASE GossipBind
  BY <1>30 DEF GossipBind, TableInv, TableOwnsConnections
<1>31. CASE GossipEnds
  BY <1>31 DEF GossipEnds, TableInv, TableOwnsConnections
<1> QED
  BY <1>1, <1>2, <1>3, <1>4, <1>5, <1>6, <1>7, <1>8, <1>9, <1>10, <1>11, <1>12, <1>13, <1>14, <1>15, <1>16, <1>17, <1>18, <1>19, <1>20, <1>21, <1>22, <1>23, <1>24, <1>25, <1>26, <1>27, <1>28, <1>29, <1>30, <1>31
     DEF Next, TcpStep, ReaderStep, StopStep

(* The three parts of TableInv are invariant together.                      *)
LEMMA TableInvariant == Spec => []TableInv
<1>1. TableInv /\ [Next]_vars => TableInv'
  BY NextTypes, NextHolders, NextTable DEF TableInv
<1> QED
  BY InitTable, <1>1, PTL DEF Spec

(* The variables keep their types: no age passes the expiry and no dialer    *)
(* stores an entry without an ID (libp2p.go).                                *)
THEOREM TypeCorrect == Spec => []TypeOK
<1>1. TableInv => TypeOK
  BY DEF TableInv
<1> QED
  BY TableInvariant, <1>1, PTL

(* The connections in the table are exactly the ones established and not     *)
(* closed, each under one ID, for any interleaving of accepts, dials,        *)
(* readers, Disconnect and Stop (libp2p.go, tcp_listener.go).                *)
THEOREM TableCorrect == Spec => []TableOwnsConnections
<1>1. TableInv => TableOwnsConnections
  BY DEF TableInv
<1> QED
  BY TableInvariant, <1>1, PTL

----------------------------------------------------------------------------
(* The metric.  ConnectedPeers is set from the table in the step that changes it.  *)

(* Every step before Stop empties the table leaves the metric exact.        *)
LEMMA NextCount == TableInv /\ PeerCountExact /\ [Next]_vars => PeerCountExact'
<1> SUFFICES ASSUME TableInv, PeerCountExact, [Next]_vars PROVE PeerCountExact'
  OBVIOUS
<1> USE DEF PeerCountExact, lifecycle, table, connections, dialers, subscribers
<1>1. CASE Start
  BY <1>1 DEF Start, Entries
<1>2. CASE ParentCancel
  BY <1>2 DEF ParentCancel, Entries
<1>3. CASE TcpBind
  BY <1>3 DEF TcpBind, Entries
<1>4. CASE TcpCheck
  BY <1>4 DEF TcpCheck, Entries
<1>5. CASE AcceptError
  BY <1>5 DEF AcceptError, Entries
<1>6. CASE HealthTick
  <2> DEFINE gone == {p \in Peers : peers[p] = NilConn /\ age[p] >= Expiry}
  <2>1. Entries' = Entries \ gone
    BY <1>6 DEF HealthTick, Entries
  <2>2. connected' = Cardinality(Entries \ gone)
    BY <1>6 DEF HealthTick
  <2> QED
    BY <2>1, <2>2
<1>7. CASE LoopsExit
  BY <1>7 DEF LoopsExit, Entries
<1>8. ASSUME NEW p \in Peers, Gossip(p) PROVE PeerCountExact'
  BY <1>8 DEF Gossip, Entries
<1>9. ASSUME NEW p \in Peers, DisconnectPeer(p) PROVE PeerCountExact'
  <2>1. Entries' = Entries \ {p}
    BY <1>9 DEF DisconnectPeer, Disconnect, Remove, Entries
  <2> QED
    BY <1>9, <2>1 DEF DisconnectPeer, Disconnect
<1>10. ASSUME NEW c \in Conns, Accept(c) PROVE PeerCountExact'
  BY <1>10 DEF Accept, Entries
<1>11. ASSUME NEW c \in Conns, HandshakeFails(c) PROVE PeerCountExact'
  BY <1>11 DEF HandshakeFails, Entries
<1>12. ASSUME NEW c \in Conns, ReaderData(c) PROVE PeerCountExact'
  BY <1>12 DEF ReaderData, Entries
<1>13. ASSUME NEW c \in Conns, RemoteClose(c) PROVE PeerCountExact'
  BY <1>13 DEF RemoteClose, Entries
<1>14. ASSUME NEW c \in Conns, ReaderError(c) PROVE PeerCountExact'
  BY <1>14 DEF ReaderError, Entries
<1>15. ASSUME NEW c \in Conns, ReaderDisconnect(c) PROVE PeerCountExact'
  <2>1. CASE owner[c] \in Entries
    <3>1. Entries' = Entries \ {owner[c]}
      BY <1>15, <2>1 DEF ReaderDisconnect, Disconnect, Remove, Entries
    <3> QED
      BY <1>15, <2>1, <3>1 DEF ReaderDisconnect, Disconnect
  <2>2. CASE owner[c] \notin Entries
    BY <1>15, <2>2 DEF ReaderDisconnect, Disconnect, Entries
  <2> QED
    BY <2>1, <2>2
<1>16. ASSUME NEW c \in Conns, NEW p \in Peers, HandshakeOK(c, p) PROVE PeerCountExact'
  <2>1. Entries' = Entries \cup {p}
    BY <1>16, MeshAssumption DEF HandshakeOK, Insert, Entries, Absent, TableInv, TypeOK
  <2> QED
    BY <1>16, <2>1 DEF HandshakeOK, Insert
<1>17. ASSUME NEW d \in Dialers, DialFails(d) PROVE PeerCountExact'
  BY <1>17 DEF DialFails, Entries, Dialed
<1>18. ASSUME NEW d \in Dialers, ConnectInsert(d) PROVE PeerCountExact'
  <2>1. dpeer[d] \in Peers /\ dconn[d] # Absent
    BY <1>18 DEF ConnectInsert, TableInv, Holders
  <2>2. Entries' = Entries \cup {dpeer[d]}
    BY <1>18, <2>1 DEF ConnectInsert, Insert, Entries, TableInv, TypeOK
  <2> QED
    BY <1>18, <2>2 DEF ConnectInsert, Insert
<1>19. ASSUME NEW d \in Dialers, NEW p \in Peers, ConnectCall(d, p) PROVE PeerCountExact'
  BY <1>19 DEF ConnectCall, Entries
<1>20. ASSUME NEW d \in Dialers, NEW c \in Conns, DialOK(d, c) PROVE PeerCountExact'
  BY <1>20 DEF DialOK, Entries, Dialed
<1>21. ASSUME NEW s \in Subs, SubscribeCall(s) PROVE PeerCountExact'
  BY <1>21 DEF SubscribeCall, Entries
<1>22. ASSUME NEW s \in Subs, SubscribeAdd(s) PROVE PeerCountExact'
  BY <1>22 DEF SubscribeAdd, Entries
<1>23. ASSUME NEW s \in Subs, Unsubscribe(s) PROVE PeerCountExact'
  BY <1>23 DEF Unsubscribe, Entries
<1>24. CASE StopCall
  BY <1>24 DEF StopCall, Entries
<1>25. CASE StopTimeout
  BY <1>25 DEF StopTimeout, Entries
<1>26. CASE StopDrained
  BY <1>26 DEF StopDrained, Entries
<1>27. CASE StopClosePeers
  BY <1>27 DEF StopClosePeers
<1>28. CASE StopCloseSubs
  BY <1>28 DEF StopCloseSubs
<1>29. CASE UNCHANGED vars
  BY <1>29 DEF vars, Entries
<1>30. CASE GossipBind
  BY <1>30 DEF GossipBind, Entries
<1>31. CASE GossipEnds
  BY <1>31 DEF GossipEnds, Entries
<1> QED
  BY <1>1, <1>2, <1>3, <1>4, <1>5, <1>6, <1>7, <1>8, <1>9, <1>10, <1>11, <1>12, <1>13, <1>14, <1>15, <1>16, <1>17, <1>18, <1>19, <1>20, <1>21, <1>22, <1>23, <1>24, <1>25, <1>26, <1>27, <1>28, <1>29, <1>30, <1>31
     DEF Next, TcpStep, ReaderStep, StopStep

(* stats.ConnectedPeers is the number of entries in s.peers until Stop       *)
(* empties the table.                                                        *)
THEOREM CountCorrect == Spec => []PeerCountExact
<1>1. Init => PeerCountExact
  <2> SUFFICES ASSUME Init PROVE PeerCountExact
    OBVIOUS
  <2>1. Entries = {}
    BY DEF Init, Entries
  <2> QED
    BY <2>1, FS_EmptySet DEF Init, PeerCountExact
<1> QED
  BY <1>1, TableInvariant, NextCount, PTL DEF Spec

----------------------------------------------------------------------------
(* Subscribers and the TCP listener.  Most steps touch neither.                 *)

(* A subscription is asked for, listed or closed, never two of these.       *)
SubInv ==
    /\ NoSendOnClosed
    /\ asking \cap (listed \cup closed) = {}

(* The handshake between Stop and tcpListenerLoop: once Stop has looked for  *)
(* a listener to close, an open one belongs to a loop that has yet to look   *)
(* at the context, and the context is done.                                  *)
ListenerInv ==
    /\ phase = "new" => tcp = "off"
    /\ tcp \in {"off", "binding"} => listener = "none"
    /\ phase \notin {"new", "started"} => ctxDone
    /\ phase \notin {"new", "started"} /\ listener = "open" => tcp = "check"
    /\ phase \in {"closepeers", "closesubs", "stopped"} => tcp = "ended"

(* Every step keeps both.                                                   *)
LEMMA NextStop ==
    SubInv /\ ListenerInv /\ [Next]_vars => SubInv' /\ ListenerInv'
<1> SUFFICES ASSUME SubInv, ListenerInv, [Next]_vars PROVE SubInv' /\ ListenerInv'
  OBVIOUS
<1> USE DEF SubInv, NoSendOnClosed, ListenerInv, lifecycle, subscribers
<1>1. CASE Start
  BY <1>1 DEF Start
<1>2. CASE ParentCancel
  BY <1>2 DEF ParentCancel
<1>3. CASE TcpBind
  BY <1>3 DEF TcpBind
<1>4. CASE TcpCheck
  BY <1>4 DEF TcpCheck
<1>5. CASE AcceptError
  BY <1>5 DEF AcceptError
<1>6. CASE HealthTick
  BY <1>6 DEF HealthTick
<1>7. CASE LoopsExit
  BY <1>7 DEF LoopsExit
<1>8. ASSUME NEW p \in Peers, Gossip(p) PROVE SubInv' /\ ListenerInv'
  BY <1>8 DEF Gossip
<1>9. ASSUME NEW p \in Peers, DisconnectPeer(p) PROVE SubInv' /\ ListenerInv'
  BY <1>9 DEF DisconnectPeer
<1>10. ASSUME NEW c \in Conns, Accept(c) PROVE SubInv' /\ ListenerInv'
  BY <1>10 DEF Accept
<1>11. ASSUME NEW c \in Conns, HandshakeFails(c) PROVE SubInv' /\ ListenerInv'
  BY <1>11 DEF HandshakeFails
<1>12. ASSUME NEW c \in Conns, ReaderData(c) PROVE SubInv' /\ ListenerInv'
  BY <1>12 DEF ReaderData
<1>13. ASSUME NEW c \in Conns, RemoteClose(c) PROVE SubInv' /\ ListenerInv'
  BY <1>13 DEF RemoteClose
<1>14. ASSUME NEW c \in Conns, ReaderError(c) PROVE SubInv' /\ ListenerInv'
  BY <1>14 DEF ReaderError
<1>15. ASSUME NEW c \in Conns, ReaderDisconnect(c) PROVE SubInv' /\ ListenerInv'
  BY <1>15 DEF ReaderDisconnect
<1>16. ASSUME NEW c \in Conns, NEW p \in Peers, HandshakeOK(c, p) PROVE SubInv' /\ ListenerInv'
  BY <1>16 DEF HandshakeOK
<1>17. ASSUME NEW d \in Dialers, DialFails(d) PROVE SubInv' /\ ListenerInv'
  BY <1>17 DEF DialFails
<1>18. ASSUME NEW d \in Dialers, ConnectInsert(d) PROVE SubInv' /\ ListenerInv'
  BY <1>18 DEF ConnectInsert
<1>19. ASSUME NEW d \in Dialers, NEW p \in Peers, ConnectCall(d, p) PROVE SubInv' /\ ListenerInv'
  BY <1>19 DEF ConnectCall, Started
<1>20. ASSUME NEW d \in Dialers, NEW c \in Conns, DialOK(d, c) PROVE SubInv' /\ ListenerInv'
  BY <1>20 DEF DialOK
<1>21. ASSUME NEW s \in Subs, SubscribeCall(s) PROVE SubInv' /\ ListenerInv'
  BY <1>21 DEF SubscribeCall, Started
<1>22. ASSUME NEW s \in Subs, SubscribeAdd(s) PROVE SubInv' /\ ListenerInv'
  BY <1>22 DEF SubscribeAdd
<1>23. ASSUME NEW s \in Subs, Unsubscribe(s) PROVE SubInv' /\ ListenerInv'
  BY <1>23 DEF Unsubscribe
<1>24. CASE StopCall
  BY <1>24 DEF StopCall
<1>25. CASE StopTimeout
  BY <1>25 DEF StopTimeout
<1>26. CASE StopDrained
  BY <1>26 DEF StopDrained
<1>27. CASE StopClosePeers
  BY <1>27 DEF StopClosePeers
<1>28. CASE StopCloseSubs
  BY <1>28 DEF StopCloseSubs
<1>29. CASE UNCHANGED vars
  BY <1>29 DEF vars
<1>30. CASE GossipBind
  BY <1>30 DEF GossipBind
<1>31. CASE GossipEnds
  BY <1>31 DEF GossipEnds
<1> QED
  BY <1>1, <1>2, <1>3, <1>4, <1>5, <1>6, <1>7, <1>8, <1>9, <1>10, <1>11, <1>12, <1>13, <1>14, <1>15, <1>16, <1>17, <1>18, <1>19, <1>20, <1>21, <1>22, <1>23, <1>24, <1>25, <1>26, <1>27, <1>28, <1>29, <1>30, <1>31
     DEF Next, TcpStep, ReaderStep, StopStep

(* Both are invariant.                                                      *)
LEMMA StopInvariant == Spec => [](SubInv /\ ListenerInv)
<1>1. Init => SubInv /\ ListenerInv
  BY DEF Init, SubInv, NoSendOnClosed, ListenerInv
<1> QED
  BY <1>1, NextStop, PTL DEF Spec

(* No event is sent on a channel that Stop closed and none is closed twice,  *)
(* however subscribers come and leave during Stop (libp2p.go).               *)
THEOREM SubscribersCorrect == Spec => []NoSendOnClosed
<1>1. SubInv => NoSendOnClosed
  BY DEF SubInv
<1> QED
  BY StopInvariant, <1>1, PTL

(* When Stop has waited for the loops the TCP listener is not left open,     *)
(* whichever of Stop and tcpListenerLoop looks first (tcp_listener.go).      *)
THEOREM ListenerCorrect == Spec => []StopClosesListener
<1>1. ListenerInv => StopClosesListener
  BY DEF ListenerInv, StopClosesListener
<1> QED
  BY StopInvariant, <1>1, PTL
=============================================================================

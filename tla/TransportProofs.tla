-------------------------- MODULE TransportProofs --------------------------
(* Lemmas about Transport, for any number of connections and streams and     *)
(* any limit.  ComponentsProofs states the theorems that rest on them.       *)
EXTENDS Transport, FiniteSetTheorems, TLAPS

StreamStates == {"fresh", "held", "refused", "counted", "queued", "taken", "closed"}
ReceiverStates == {"off", "accept", "check", "count", "send", "ended"}
Working == {"check", "count", "send"}

Types ==
    /\ tkind \in {"none", "quic", "tls"} /\ listening \in {"no", "ctx", "up", "failed"}
    /\ cancelled \in BOOLEAN /\ lsock \in {"none", "open", "closed"}
    /\ recv \in [Receivers -> ReceiverStates] /\ held \in [Receivers -> Streams \cup {None}]
    /\ squeue \in Seq(Streams) /\ sclosed \in BOOLEAN /\ stream \in [Streams -> StreamStates]
    /\ dialed \subseteq Streams /\ active \in Int /\ twg \in Int
    /\ shut \in {"idle", "up", "early", "drained"} /\ panicked \in BOOLEAN

(* A stream between AcceptStream and the channel is in one receiver's hands.*)
Holding ==
    /\ \A r \in Receivers :
          /\ recv[r] \in {"check", "count"} => held[r] \in Streams /\ stream[held[r]] = "held"
          /\ recv[r] = "send" => held[r] \in Streams /\ stream[held[r]] = "counted"
    /\ \A r, q \in Receivers :
          recv[r] \in Working /\ recv[q] \in Working /\ held[r] = held[q] => r = q

(* The channel holds each stream once; what Dial returned never enters it.   *)
Queued ==
    /\ \A i \in 1 .. Len(squeue) : stream[squeue[i]] = "queued"
    /\ \A i, j \in 1 .. Len(squeue) : squeue[i] = squeue[j] => i = j
    /\ \A s \in dialed : stream[s] \in {"taken", "closed"}

(* Who runs in which phase of the transport, and when the channel is closed.*)
Phases ==
    /\ tkind = "none" => listening = "no" /\ \A s \in Streams : stream[s] = "fresh"
    /\ listening # "up" => \A r \in Receivers : recv[r] = "off"
    /\ listening = "up" => recv[Loop] # "off"
    /\ Quic => recv[Loop] \in {"off", "accept", "ended"}
    /\ ~Quic => \A c \in QuicConns : recv[c] = "off"
    /\ sclosed <=> recv[Loop] = "ended"
    /\ sclosed => cancelled
    /\ shut \in {"up", "drained"} => listening = "up"

LEMMA InitTypes == Init => Types /\ Holding /\ Queued /\ Phases
<1> SUFFICES ASSUME Init PROVE Types /\ Holding /\ Queued /\ Phases
  OBVIOUS
<1>1. Types
  <2>1. /\ tkind \in {"none", "quic", "tls"} /\ listening \in {"no", "ctx", "up", "failed"}
        /\ cancelled \in BOOLEAN /\ lsock \in {"none", "open", "closed"}
        /\ shut \in {"idle", "up", "early", "drained"} /\ panicked \in BOOLEAN
        /\ sclosed \in BOOLEAN
    BY DEF Init
  <2>2. /\ recv \in [Receivers -> ReceiverStates] /\ held \in [Receivers -> Streams \cup {None}]
        /\ stream \in [Streams -> StreamStates] /\ dialed \subseteq Streams
    BY DEF Init, StreamStates, ReceiverStates
  <2>3. active \in Int /\ twg \in Int
    BY DEF Init
  <2>4. squeue \in Seq(Streams)
    BY DEF Init
  <2> QED
    BY <2>1, <2>2, <2>3, <2>4 DEF Types
<1>2. Holding
  BY DEF Init, Holding, Working
<1>3. Queued
  BY DEF Init, Queued
<1>4. Phases
  BY DEF Init, Phases, Receivers, Loop, Quic
<1> QED
  BY <1>1, <1>2, <1>3, <1>4

(* Every step keeps the types.                                              *)
LEMMA NextTypes == Types /\ Holding /\ [Next]_tvars => Types'
<1> SUFFICES ASSUME Types, Holding, [Next]_tvars PROVE Types'
  OBVIOUS
<1>0. Loop \in Receivers /\ QuicConns \subseteq Receivers
  BY DEF Receivers
<1> USE <1>0 DEF Types, Holding, Quic, StreamStates, ReceiverStates, lvars, gvars, svars
<1>1. ASSUME NEW k \in {"quic", "tls"}, New(k) PROVE Types'
  BY <1>1 DEF New
<1>2. CASE ListenContext
  BY <1>2 DEF ListenContext
<1>3. CASE ListenUp
  BY <1>3 DEF ListenUp
<1>4. CASE ListenFailed
  BY <1>4 DEF ListenFailed
<1>5. CASE WatcherClose
  BY <1>5 DEF WatcherClose
<1>6. CASE AcceptError
  BY <1>6 DEF AcceptError
<1>7. CASE LoopEnds
  BY <1>7 DEF LoopEnds
<1>8. ASSUME NEW c \in QuicConns, AcceptConn(c) PROVE Types'
  BY <1>8 DEF AcceptConn, NextConn
<1>9. ASSUME NEW c \in QuicConns, ConnEnds(c) PROVE Types'
  BY <1>9 DEF ConnEnds
<1>10. ASSUME NEW r \in Receivers, CheckLimit(r) PROVE Types'
  BY <1>10 DEF CheckLimit
<1>11. ASSUME NEW r \in Receivers, CountStream(r) PROVE Types'
  BY <1>11 DEF CountStream
<1>12. ASSUME NEW r \in Receivers, SendStream(r) PROVE Types'
  <2>1. squeue' \in Seq(Streams)
    BY <1>12 DEF SendStream
  <2> QED
    BY <1>12, <2>1 DEF SendStream
<1>13. ASSUME NEW r \in Receivers, SendOnClosed(r) PROVE Types'
  BY <1>13 DEF SendOnClosed
<1>14. ASSUME NEW r \in Receivers, SendCancelled(r) PROVE Types'
  BY <1>14 DEF SendCancelled
<1>15. ASSUME NEW r \in Receivers, NEW s \in Streams, Receive(r, s) PROVE Types'
  BY <1>15 DEF Receive, NextStream
<1>16. ASSUME NEW s \in Streams, Dial(s) PROVE Types'
  BY <1>16 DEF Dial, NextStream
<1>17. ASSUME NEW s \in Streams, CloseStream(s) PROVE Types'
  BY <1>17 DEF CloseStream
<1>18. CASE Take
  <2>1. Head(squeue) \in Streams /\ Tail(squeue) \in Seq(Streams)
    BY <1>18 DEF Take
  <2> QED
    BY <1>18, <2>1 DEF Take
<1>19. CASE ShutdownCall
  BY <1>19 DEF ShutdownCall
<1>20. CASE ShutdownReturn
  BY <1>20 DEF ShutdownReturn
<1>21. CASE ParentCancel
  BY <1>21 DEF ParentCancel
<1>22. CASE UNCHANGED tvars
  BY <1>22 DEF tvars
<1> QED
  BY <1>1, <1>2, <1>3, <1>4, <1>5, <1>6, <1>7, <1>8, <1>9, <1>10, <1>11,
     <1>12, <1>13, <1>14, <1>15, <1>16, <1>17, <1>18, <1>19, <1>20, <1>21, <1>22
     DEF Next, ListenStep, ReceiverStep

(* Every step leaves each stream in one receiver's hands.                   *)
LEMMA NextHolding == Types /\ Holding /\ Queued /\ [Next]_tvars => Holding'
<1> SUFFICES ASSUME Types, Holding, Queued, [Next]_tvars PROVE Holding'
  OBVIOUS
<1> USE DEF Types, Holding, Working, lvars, gvars, svars
<1>1. ASSUME NEW k \in {"quic", "tls"}, New(k) PROVE Holding'
  BY <1>1 DEF New
<1>2. CASE ListenContext
  BY <1>2 DEF ListenContext
<1>3. CASE ListenUp
  BY <1>3 DEF ListenUp
<1>4. CASE ListenFailed
  BY <1>4 DEF ListenFailed
<1>5. CASE WatcherClose
  BY <1>5 DEF WatcherClose
<1>6. CASE AcceptError
  BY <1>6 DEF AcceptError
<1>7. CASE LoopEnds
  BY <1>7 DEF LoopEnds
<1>8. ASSUME NEW c \in QuicConns, AcceptConn(c) PROVE Holding'
  BY <1>8 DEF AcceptConn, NextConn
<1>9. ASSUME NEW c \in QuicConns, ConnEnds(c) PROVE Holding'
  BY <1>9 DEF ConnEnds
<1>10. ASSUME NEW r \in Receivers, CheckLimit(r) PROVE Holding'
  BY <1>10 DEF CheckLimit
<1>11. ASSUME NEW r \in Receivers, CountStream(r) PROVE Holding'
  BY <1>11 DEF CountStream
<1>12. ASSUME NEW r \in Receivers, SendStream(r) PROVE Holding'
  BY <1>12 DEF SendStream
<1>13. ASSUME NEW r \in Receivers, SendOnClosed(r) PROVE Holding'
  BY <1>13 DEF SendOnClosed
<1>14. ASSUME NEW r \in Receivers, SendCancelled(r) PROVE Holding'
  BY <1>14 DEF SendCancelled
<1>15. ASSUME NEW r \in Receivers, NEW s \in Streams, Receive(r, s) PROVE Holding'
  BY <1>15 DEF Receive, NextStream
<1>16. ASSUME NEW s \in Streams, Dial(s) PROVE Holding'
  BY <1>16 DEF Dial, NextStream
<1>17. ASSUME NEW s \in Streams, CloseStream(s) PROVE Holding'
  BY <1>17 DEF CloseStream
<1>18. CASE Take
  <2>1. Head(squeue) \in Streams /\ stream[Head(squeue)] = "queued"
    BY <1>18 DEF Take, Queued
  <2> QED
    BY <1>18, <2>1 DEF Take
<1>19. CASE ShutdownCall
  BY <1>19 DEF ShutdownCall
<1>20. CASE ShutdownReturn
  BY <1>20 DEF ShutdownReturn
<1>21. CASE ParentCancel
  BY <1>21 DEF ParentCancel
<1>22. CASE UNCHANGED tvars
  BY <1>22 DEF tvars
<1> QED
  BY <1>1, <1>2, <1>3, <1>4, <1>5, <1>6, <1>7, <1>8, <1>9, <1>10, <1>11,
     <1>12, <1>13, <1>14, <1>15, <1>16, <1>17, <1>18, <1>19, <1>20, <1>21, <1>22
     DEF Next, ListenStep, ReceiverStep

(* Every step keeps the channel's contents apart.                           *)
LEMMA NextQueued == Types /\ Holding /\ Queued /\ [Next]_tvars => Queued'
<1> SUFFICES ASSUME Types, Holding, Queued, [Next]_tvars PROVE Queued'
  OBVIOUS
<1> USE DEF Types, Holding, Queued, Working, lvars, gvars, svars
<1>1. ASSUME NEW k \in {"quic", "tls"}, New(k) PROVE Queued'
  BY <1>1 DEF New
<1>2. CASE ListenContext
  BY <1>2 DEF ListenContext
<1>3. CASE ListenUp
  BY <1>3 DEF ListenUp
<1>4. CASE ListenFailed
  BY <1>4 DEF ListenFailed
<1>5. CASE WatcherClose
  BY <1>5 DEF WatcherClose
<1>6. CASE AcceptError
  BY <1>6 DEF AcceptError
<1>7. CASE LoopEnds
  BY <1>7 DEF LoopEnds
<1>8. ASSUME NEW c \in QuicConns, AcceptConn(c) PROVE Queued'
  BY <1>8 DEF AcceptConn, NextConn
<1>9. ASSUME NEW c \in QuicConns, ConnEnds(c) PROVE Queued'
  BY <1>9 DEF ConnEnds
<1>10. ASSUME NEW r \in Receivers, CheckLimit(r) PROVE Queued'
  BY <1>10 DEF CheckLimit
<1>11. ASSUME NEW r \in Receivers, CountStream(r) PROVE Queued'
  BY <1>11 DEF CountStream
<1>12. ASSUME NEW r \in Receivers, SendStream(r) PROVE Queued'
  <2>1. \A i \in 1 .. Len(squeue) : squeue[i] # held[r]
    BY <1>12 DEF SendStream
  <2>2. /\ Len(squeue') = Len(squeue) + 1
        /\ \A i \in 1 .. Len(squeue') :
              squeue'[i] = IF i \in 1 .. Len(squeue) THEN squeue[i] ELSE held[r]
    BY <1>12 DEF SendStream
  <2>3. \A s \in Streams : stream'[s] = IF s = held[r] THEN "queued" ELSE stream[s]
    BY <1>12 DEF SendStream
  <2>4. \A i \in 1 .. Len(squeue) : squeue[i] \in Streams
    OBVIOUS
  <2>5. \A i \in 1 .. Len(squeue') : stream'[squeue'[i]] = "queued"
    BY <1>12, <2>2, <2>3, <2>4 DEF SendStream
  <2>6. \A i, j \in 1 .. Len(squeue') : squeue'[i] = squeue'[j] => i = j
    BY <2>1, <2>2
  <2>7. \A s \in dialed' : stream'[s] \in {"taken", "closed"}
    BY <1>12 DEF SendStream
  <2> QED
    BY <2>5, <2>6, <2>7
<1>13. ASSUME NEW r \in Receivers, SendOnClosed(r) PROVE Queued'
  BY <1>13 DEF SendOnClosed
<1>14. ASSUME NEW r \in Receivers, SendCancelled(r) PROVE Queued'
  BY <1>14 DEF SendCancelled
<1>15. ASSUME NEW r \in Receivers, NEW s \in Streams, Receive(r, s) PROVE Queued'
  BY <1>15 DEF Receive, NextStream
<1>16. ASSUME NEW s \in Streams, Dial(s) PROVE Queued'
  BY <1>16 DEF Dial, NextStream
<1>17. ASSUME NEW s \in Streams, CloseStream(s) PROVE Queued'
  BY <1>17 DEF CloseStream
<1>18. CASE Take
  <2>1. /\ Len(squeue') = Len(squeue) - 1
        /\ \A i \in 1 .. Len(squeue') : squeue'[i] = squeue[i + 1]
        /\ squeue[1] = Head(squeue)
    BY <1>18 DEF Take
  <2>2. \A i \in 1 .. Len(squeue') : squeue'[i] # Head(squeue) /\ squeue'[i] \in Streams
    BY <1>18, <2>1 DEF Take
  <2>3. \A s \in Streams : stream'[s] = IF s = Head(squeue) THEN "taken" ELSE stream[s]
    BY <1>18 DEF Take
  <2>4. \A i \in 1 .. Len(squeue') : stream'[squeue'[i]] = "queued"
    BY <2>1, <2>2, <2>3
  <2>5. ASSUME NEW i \in 1 .. Len(squeue'), NEW j \in 1 .. Len(squeue'), squeue'[i] = squeue'[j]
        PROVE  i = j
    <3>1. Len(squeue) \in Nat /\ i + 1 \in 1 .. Len(squeue) /\ j + 1 \in 1 .. Len(squeue)
      BY <2>1, <2>5
    <3>2. squeue[i + 1] = squeue[j + 1]
      BY <2>1, <2>5
    <3>3. i + 1 = j + 1
      BY <3>1, <3>2
    <3> QED
      BY <3>1, <3>3
  <2>6. \A s \in dialed' : stream'[s] \in {"taken", "closed"}
    BY <1>18, <2>3 DEF Take
  <2> QED
    BY <2>4, <2>5, <2>6
<1>19. CASE ShutdownCall
  BY <1>19 DEF ShutdownCall
<1>20. CASE ShutdownReturn
  BY <1>20 DEF ShutdownReturn
<1>21. CASE ParentCancel
  BY <1>21 DEF ParentCancel
<1>22. CASE UNCHANGED tvars
  BY <1>22 DEF tvars
<1> QED
  BY <1>1, <1>2, <1>3, <1>4, <1>5, <1>6, <1>7, <1>8, <1>9, <1>10, <1>11,
     <1>12, <1>13, <1>14, <1>15, <1>16, <1>17, <1>18, <1>19, <1>20, <1>21, <1>22
     DEF Next, ListenStep, ReceiverStep

(* Every step keeps the phases apart.                                       *)
LEMMA NextPhases ==
    ASSUME TransportAssumption PROVE Types /\ Holding /\ Queued /\ Phases /\ [Next]_tvars => Phases'
<1> SUFFICES ASSUME Types, Holding, Queued, Phases, [Next]_tvars PROVE Phases'
  OBVIOUS
<1>0. Loop \in Receivers /\ Loop \notin QuicConns /\ QuicConns \subseteq Receivers
      /\ \A r \in Receivers : r = Loop \/ r \in QuicConns
  BY DEF TransportAssumption, Loop, Receivers
<1> USE <1>0 DEF Types, Holding, Phases, Quic, lvars, gvars, svars
<1>1. ASSUME NEW k \in {"quic", "tls"}, New(k) PROVE Phases'
  BY <1>1 DEF New
<1>2. CASE ListenContext
  BY <1>2 DEF ListenContext
<1>3. CASE ListenUp
  BY <1>3 DEF ListenUp
<1>4. CASE ListenFailed
  BY <1>4 DEF ListenFailed
<1>5. CASE WatcherClose
  BY <1>5 DEF WatcherClose
<1>6. CASE AcceptError
  BY <1>6 DEF AcceptError
<1>7. CASE LoopEnds
  BY <1>7 DEF LoopEnds
<1>8. ASSUME NEW c \in QuicConns, AcceptConn(c) PROVE Phases'
  BY <1>8 DEF AcceptConn, NextConn
<1>9. ASSUME NEW c \in QuicConns, ConnEnds(c) PROVE Phases'
  BY <1>9 DEF ConnEnds
<1>10. ASSUME NEW r \in Receivers, CheckLimit(r) PROVE Phases'
  BY <1>10 DEF CheckLimit
<1>11. ASSUME NEW r \in Receivers, CountStream(r) PROVE Phases'
  BY <1>11 DEF CountStream
<1>12. ASSUME NEW r \in Receivers, SendStream(r) PROVE Phases'
  BY <1>12 DEF SendStream
<1>13. ASSUME NEW r \in Receivers, SendOnClosed(r) PROVE Phases'
  BY <1>13 DEF SendOnClosed
<1>14. ASSUME NEW r \in Receivers, SendCancelled(r) PROVE Phases'
  BY <1>14 DEF SendCancelled
<1>15. ASSUME NEW r \in Receivers, NEW s \in Streams, Receive(r, s) PROVE Phases'
  BY <1>15 DEF Receive, NextStream
<1>16. ASSUME NEW s \in Streams, Dial(s) PROVE Phases'
  BY <1>16 DEF Dial, NextStream
<1>17. ASSUME NEW s \in Streams, CloseStream(s) PROVE Phases'
  BY <1>17 DEF CloseStream
<1>18. CASE Take
  <2>1. Head(squeue) \in Streams /\ stream[Head(squeue)] = "queued"
    BY <1>18 DEF Take, Queued
  <2> QED
    BY <1>18, <2>1 DEF Take
<1>19. CASE ShutdownCall
  BY <1>19 DEF ShutdownCall
<1>20. CASE ShutdownReturn
  BY <1>20 DEF ShutdownReturn
<1>21. CASE ParentCancel
  BY <1>21 DEF ParentCancel
<1>22. CASE UNCHANGED tvars
  BY <1>22 DEF tvars
<1> QED
  BY <1>1, <1>2, <1>3, <1>4, <1>5, <1>6, <1>7, <1>8, <1>9, <1>10, <1>11,
     <1>12, <1>13, <1>14, <1>15, <1>16, <1>17, <1>18, <1>19, <1>20, <1>21, <1>22
     DEF Next, ListenStep, ReceiverStep

----------------------------------------------------------------------------
(* The counters.  A step changes the state of one stream and of one          *)
(* receiver at most: the lemmas say what that does to the sets counted.      *)

Running == {r \in Receivers : recv[r] \notin {"off", "ended"}}
Passed == {r \in Receivers : recv[r] = "count"}      \* below the limit, not yet counted
Started == {c \in QuicConns : recv[c] # "off"}

LEMMA OpenChange ==
    ASSUME Types, NEW x \in Streams, NEW v, stream' = [stream EXCEPT ![x] = v]
    PROVE  /\ v \in {"counted", "queued", "taken"} => Open' = Open \cup {x}
           /\ v \notin {"counted", "queued", "taken"} => Open' = Open \ {x}
<1>1. \A s \in Streams : stream'[s] = IF s = x THEN v ELSE stream[s]
  BY DEF Types
<1> QED
  BY <1>1 DEF Open

LEMMA ReceiverChange ==
    ASSUME Types, NEW x \in Receivers, NEW v, v # "off", recv' = [recv EXCEPT ![x] = v]
    PROVE  /\ v = "ended" => Running' = Running \ {x}
           /\ v # "ended" => Running' = Running \cup {x}
           /\ v # "count" => Passed' = Passed \ {x}
           /\ Started' = Started \cup ({x} \cap QuicConns)
<1>1. \A r \in Receivers : recv'[r] = IF r = x THEN v ELSE recv[r]
  BY DEF Types
<1> QED
  BY <1>1 DEF Running, Passed, Started, Receivers

(* A receiver that goes on to anything but the count has not passed.        *)
LEMMA NotPassed ==
    ASSUME Types, NEW x \in Receivers,
           \/ recv' = [recv EXCEPT ![x] = "accept"] \/ recv' = [recv EXCEPT ![x] = "check"]
           \/ recv' = [recv EXCEPT ![x] = "send"] \/ recv' = [recv EXCEPT ![x] = "ended"]
    PROVE  Passed' = Passed \ {x} /\ Started' = Started \cup ({x} \cap QuicConns)
<1>1. PICK v \in {"accept", "check", "send", "ended"} : recv' = [recv EXCEPT ![x] = v]
  OBVIOUS
<1>2. v # "off" /\ v # "count"
  OBVIOUS
<1> QED
  BY <1>1, <1>2, ReceiverChange

LEMMA CountedFinite ==
    ASSUME TransportAssumption
    PROVE  /\ IsFiniteSet(Open) /\ Cardinality(Open) \in Nat
           /\ IsFiniteSet(Open \ dialed) /\ Cardinality(Open \ dialed) \in Nat
           /\ IsFiniteSet(Running) /\ Cardinality(Running) \in Nat
           /\ IsFiniteSet(Passed) /\ Cardinality(Passed) \in Nat
           /\ IsFiniteSet(Started) /\ Cardinality(Started) \in Nat
<1>1. IsFiniteSet(Receivers)
  BY FS_AddElement DEF TransportAssumption, Receivers
<1>2. /\ Open \in SUBSET Streams /\ Open \ dialed \in SUBSET Streams
      /\ Running \in SUBSET Receivers /\ Passed \in SUBSET Receivers
      /\ Started \in SUBSET QuicConns
  BY DEF Open, Running, Passed, Started
<1>3. /\ IsFiniteSet(Open) /\ IsFiniteSet(Open \ dialed)
      /\ IsFiniteSet(Running) /\ IsFiniteSet(Passed) /\ IsFiniteSet(Started)
  BY <1>1, <1>2, FS_Subset DEF TransportAssumption
<1> QED
  BY <1>3, FS_CardinalityType

ActiveExact == active = Cardinality(Open)
WaitExact == twg = IF Quic THEN Cardinality(Running) ELSE 0

LEMMA CountedParts == StreamsCounted <=> ActiveExact /\ WaitExact
  BY DEF StreamsCounted, ActiveExact, WaitExact, Running

LEMMA InitCounts == Init => StreamsCounted
<1> SUFFICES ASSUME Init PROVE StreamsCounted
  OBVIOUS
<1>1. Open = {} /\ ~Quic
  BY DEF Init, Open, Quic
<1> QED
  BY <1>1, FS_EmptySet DEF Init, StreamsCounted

(* Every step keeps ActiveStreams exact.                                    *)
LEMMA NextActive ==
    ASSUME TransportAssumption, Types, Holding, Queued, ActiveExact, [Next]_tvars
    PROVE  ActiveExact'
<1>0. IsFiniteSet(Open) /\ Cardinality(Open) \in Nat
  BY CountedFinite
<1> USE <1>0 DEF ActiveExact, Types, lvars, gvars, svars
<1>1. ASSUME NEW k \in {"quic", "tls"}, New(k) PROVE ActiveExact'
  BY <1>1 DEF New, Open
<1>2. CASE ListenContext
  BY <1>2 DEF ListenContext, Open
<1>3. CASE ListenUp
  BY <1>3 DEF ListenUp, Open
<1>4. CASE ListenFailed
  BY <1>4 DEF ListenFailed, Open
<1>5. CASE WatcherClose
  BY <1>5 DEF WatcherClose, Open
<1>6. CASE AcceptError
  BY <1>6 DEF AcceptError, Open
<1>7. CASE LoopEnds
  BY <1>7 DEF LoopEnds, Open
<1>8. ASSUME NEW c \in QuicConns, AcceptConn(c) PROVE ActiveExact'
  BY <1>8 DEF AcceptConn, NextConn, Open
<1>9. ASSUME NEW c \in QuicConns, ConnEnds(c) PROVE ActiveExact'
  BY <1>9 DEF ConnEnds, Open
<1>10. ASSUME NEW r \in Receivers, CheckLimit(r) PROVE ActiveExact'
  <2>1. held[r] \in Streams /\ stream[held[r]] = "held"
    BY <1>10 DEF CheckLimit, Holding
  <2>2. stream' = stream \/ stream' = [stream EXCEPT ![held[r]] = "refused"]
    BY <1>10 DEF CheckLimit
  <2>3. Open' = Open
    <3>1. CASE stream' = stream
      BY <3>1 DEF Open
    <3>2. CASE stream' = [stream EXCEPT ![held[r]] = "refused"]
      BY <2>1, <3>2, OpenChange DEF Open
    <3> QED
      BY <2>2, <3>1, <3>2
  <2> QED
    BY <1>10, <2>3 DEF CheckLimit
<1>11. ASSUME NEW r \in Receivers, CountStream(r) PROVE ActiveExact'
  <2>1. held[r] \in Streams /\ stream' = [stream EXCEPT ![held[r]] = "counted"] /\ stream[held[r]] = "held"
    BY <1>11 DEF CountStream, Holding, Queued
  <2>2. Open' = Open \cup {held[r]} /\ held[r] \notin Open
    BY <2>1, OpenChange DEF Open
  <2> QED
    BY <1>11, <2>1, <2>2, FS_AddElement DEF CountStream
<1>12. ASSUME NEW r \in Receivers, SendStream(r) PROVE ActiveExact'
  <2>1. held[r] \in Streams /\ stream' = [stream EXCEPT ![held[r]] = "queued"] /\ stream[held[r]] = "counted"
    BY <1>12 DEF SendStream, Holding, Queued
  <2>2. Open' = Open
    BY <2>1, OpenChange DEF Open
  <2> QED
    BY <1>12, <2>1, <2>2 DEF SendStream
<1>13. ASSUME NEW r \in Receivers, SendOnClosed(r) PROVE ActiveExact'
  BY <1>13 DEF SendOnClosed, Open
<1>14. ASSUME NEW r \in Receivers, SendCancelled(r) PROVE ActiveExact'
  <2>1. held[r] \in Streams /\ stream' = [stream EXCEPT ![held[r]] = "closed"] /\ stream[held[r]] = "counted"
    BY <1>14 DEF SendCancelled, Holding, Queued
  <2>2. Open' = Open \ {held[r]} /\ held[r] \in Open
    BY <2>1, OpenChange DEF Open
  <2> QED
    BY <1>14, <2>1, <2>2, FS_RemoveElement DEF SendCancelled
<1>15. ASSUME NEW r \in Receivers, NEW s \in Streams, Receive(r, s) PROVE ActiveExact'
  <2>1. s \in Streams /\ stream' = [stream EXCEPT ![s] = "held"] /\ stream[s] = "fresh"
    BY <1>15 DEF Receive, NextStream, Holding, Queued
  <2>2. Open' = Open
    BY <2>1, OpenChange DEF Open
  <2> QED
    BY <1>15, <2>1, <2>2 DEF Receive
<1>16. ASSUME NEW s \in Streams, Dial(s) PROVE ActiveExact'
  <2>1. s \in Streams /\ stream' = [stream EXCEPT ![s] = "taken"] /\ stream[s] = "fresh"
    BY <1>16 DEF Dial, NextStream, Holding, Queued
  <2>2. Open' = Open \cup {s} /\ s \notin Open
    BY <2>1, OpenChange DEF Open
  <2> QED
    BY <1>16, <2>1, <2>2, FS_AddElement DEF Dial
<1>17. ASSUME NEW s \in Streams, CloseStream(s) PROVE ActiveExact'
  <2>1. \A x \in Streams : stream'[x] = IF x = s THEN "closed" ELSE stream[x]
    BY <1>17 DEF CloseStream
  <2>2. Open' = Open \ {s}
    BY <2>1 DEF Open
  <2>3. s \in Open <=> stream[s] = "taken"
    BY <1>17 DEF CloseStream, Open
  <2> QED
    BY <1>17, <2>2, <2>3, FS_RemoveElement DEF CloseStream
<1>18. CASE Take
  <2>1. Head(squeue) \in Streams /\ stream' = [stream EXCEPT ![Head(squeue)] = "taken"] /\ stream[Head(squeue)] = "queued"
    BY <1>18 DEF Take, Holding, Queued
  <2>2. Open' = Open
    BY <2>1, OpenChange DEF Open
  <2> QED
    BY <1>18, <2>1, <2>2 DEF Take
<1>19. CASE ShutdownCall
  BY <1>19 DEF ShutdownCall, Open
<1>20. CASE ShutdownReturn
  BY <1>20 DEF ShutdownReturn, Open
<1>21. CASE ParentCancel
  BY <1>21 DEF ParentCancel, Open
<1>22. CASE UNCHANGED tvars
  BY <1>22 DEF tvars, Open
<1> QED
  BY <1>1, <1>2, <1>3, <1>4, <1>5, <1>6, <1>7, <1>8, <1>9, <1>10, <1>11,
     <1>12, <1>13, <1>14, <1>15, <1>16, <1>17, <1>18, <1>19, <1>20, <1>21, <1>22
     DEF Next, ListenStep, ReceiverStep

(* Every step keeps t.wg exact.                                             *)
LEMMA NextWait ==
    ASSUME TransportAssumption, Types, Holding, Phases, WaitExact, [Next]_tvars
    PROVE  WaitExact'
<1>0. /\ IsFiniteSet(Running) /\ Cardinality(Running) \in Nat
      /\ Loop \in Receivers /\ QuicConns \subseteq Receivers
  BY CountedFinite DEF Receivers
<1>a. ~Quic => \A r \in Receivers : r = Loop \/ recv[r] = "off"
  BY DEF Phases, Receivers
<1> USE <1>0 DEF WaitExact, Types, Quic, lvars, gvars, svars
<1>1. ASSUME NEW k \in {"quic", "tls"}, New(k) PROVE WaitExact'
  <2>1. Running' = Running /\ Running = {}
    BY <1>1 DEF New, Running, Phases
  <2> QED
    BY <1>1, <2>1, FS_EmptySet DEF New
<1>2. CASE ListenContext
  BY <1>2 DEF ListenContext, Running
<1>3. CASE ListenUp
  <2>1. Loop \in Receivers /\ recv' = [recv EXCEPT ![Loop] = "accept"]
    BY <1>3 DEF ListenUp
  <2>2. Running' = Running \cup {Loop} /\ Loop \notin Running
    BY <1>3, <2>1, ReceiverChange DEF ListenUp, Running, Phases
  <2> QED
    BY <1>3, <2>1, <2>2, FS_AddElement DEF ListenUp, Phases
<1>4. CASE ListenFailed
  BY <1>4 DEF ListenFailed, Running
<1>5. CASE WatcherClose
  BY <1>5 DEF WatcherClose, Running
<1>6. CASE AcceptError
  BY <1>6 DEF AcceptError, Running
<1>7. CASE LoopEnds
  <2>1. Loop \in Receivers /\ recv' = [recv EXCEPT ![Loop] = "ended"]
    BY <1>7 DEF LoopEnds
  <2>2. Running' = Running \ {Loop} /\ Loop \in Running
    BY <1>7, <2>1, ReceiverChange DEF LoopEnds, Running
  <2> QED
    BY <1>7, <2>1, <2>2, FS_RemoveElement DEF LoopEnds
<1>8. ASSUME NEW c \in QuicConns, AcceptConn(c) PROVE WaitExact'
  <2>1. c \in Receivers /\ recv' = [recv EXCEPT ![c] = "accept"]
    BY <1>8 DEF AcceptConn, NextConn
  <2>2. Running' = Running \cup {c} /\ c \notin Running
    BY <1>8, <2>1, ReceiverChange DEF AcceptConn, NextConn, Running
  <2> QED
    BY <1>8, <2>1, <2>2, FS_AddElement DEF AcceptConn
<1>9. ASSUME NEW c \in QuicConns, ConnEnds(c) PROVE WaitExact'
  <2>1. c \in Receivers /\ recv' = [recv EXCEPT ![c] = "ended"]
    BY <1>9 DEF ConnEnds
  <2>2. Running' = Running \ {c} /\ c \in Running
    BY <1>9, <2>1, ReceiverChange DEF ConnEnds, Running, Phases
  <2> QED
    BY <1>9, <2>1, <2>2, FS_RemoveElement DEF ConnEnds, Phases
<1>10. ASSUME NEW r \in Receivers, CheckLimit(r) PROVE WaitExact'
  <2>1. PICK v \in {"accept", "count"} : recv' = [recv EXCEPT ![r] = v]
    BY <1>10 DEF CheckLimit
  <2>2. Running' = Running
    BY <1>10, <2>1, ReceiverChange DEF CheckLimit, Running
  <2> QED
    BY <1>10, <2>2 DEF CheckLimit
<1>11. ASSUME NEW r \in Receivers, CountStream(r) PROVE WaitExact'
  <2>1. r \in Receivers /\ recv' = [recv EXCEPT ![r] = "send"]
    BY <1>11 DEF CountStream
  <2>2. Running' = Running
    BY <1>11, <2>1, ReceiverChange DEF CountStream, Running
  <2> QED
    BY <1>11, <2>1, <2>2 DEF CountStream
<1>12. ASSUME NEW r \in Receivers, SendStream(r) PROVE WaitExact'
  <2>1. r \in Receivers /\ recv' = [recv EXCEPT ![r] = "accept"]
    BY <1>12 DEF SendStream
  <2>2. Running' = Running
    BY <1>12, <2>1, ReceiverChange DEF SendStream, Running
  <2> QED
    BY <1>12, <2>1, <2>2 DEF SendStream
<1>13. ASSUME NEW r \in Receivers, SendOnClosed(r) PROVE WaitExact'
  BY <1>13 DEF SendOnClosed, Running
<1>14. ASSUME NEW r \in Receivers, SendCancelled(r) PROVE WaitExact'
  <2>1. r \in Receivers /\ recv' = [recv EXCEPT ![r] = "ended"]
    BY <1>14 DEF SendCancelled
  <2>2. Running' = Running \ {r} /\ r \in Running
    BY <1>14, <2>1, ReceiverChange DEF SendCancelled, Running
  <2> QED
    BY <1>14, <2>1, <2>2, FS_RemoveElement DEF SendCancelled
<1>15. ASSUME NEW r \in Receivers, NEW s \in Streams, Receive(r, s) PROVE WaitExact'
  <2>1. r \in Receivers /\ recv' = [recv EXCEPT ![r] = "check"]
    BY <1>15 DEF Receive, NextStream
  <2>2. Running' = Running
    BY <1>15, <2>1, ReceiverChange DEF Receive, NextStream, Running
  <2> QED
    BY <1>15, <2>1, <2>2 DEF Receive
<1>16. ASSUME NEW s \in Streams, Dial(s) PROVE WaitExact'
  BY <1>16 DEF Dial, NextStream, Running
<1>17. ASSUME NEW s \in Streams, CloseStream(s) PROVE WaitExact'
  BY <1>17 DEF CloseStream, Running
<1>18. CASE Take
  BY <1>18 DEF Take, Running
<1>19. CASE ShutdownCall
  BY <1>19 DEF ShutdownCall, Running
<1>20. CASE ShutdownReturn
  BY <1>20 DEF ShutdownReturn, Running
<1>21. CASE ParentCancel
  BY <1>21 DEF ParentCancel, Running
<1>22. CASE UNCHANGED tvars
  BY <1>22 DEF tvars, Running
<1> QED
  BY <1>1, <1>2, <1>3, <1>4, <1>5, <1>6, <1>7, <1>8, <1>9, <1>10, <1>11,
     <1>12, <1>13, <1>14, <1>15, <1>16, <1>17, <1>18, <1>19, <1>20, <1>21, <1>22
     DEF Next, ListenStep, ReceiverStep

----------------------------------------------------------------------------
(* The limit.  Between its comparison and its count a receiver has passed    *)
(* for good: to bound what is counted, bound it with what has passed.  With  *)
(* QUIC as many receivers pass at once as there are connections, with TLS    *)
(* one does.                                                                 *)

Accepted == Open \ dialed
Width == IF Quic THEN Cardinality(Started) ELSE 1
LimitInv == Cardinality(Accepted) + Cardinality(Passed) <= MaxStreams - 1 + Width

LEMMA InitLimit == ASSUME TransportAssumption PROVE Init => LimitInv
<1> SUFFICES ASSUME Init PROVE LimitInv
  OBVIOUS
<1>1. Accepted = {} /\ Passed = {} /\ ~Quic
  BY DEF Init, Accepted, Open, Passed, Quic
<1> QED
  BY <1>1, FS_EmptySet DEF LimitInv, Width, TransportAssumption

(* Every step keeps the accepted streams and the receivers that have passed  *)
(* within the limit.                                                         *)
LEMMA NextLimit ==
    ASSUME TransportAssumption, Types, Holding, Queued, Phases, Phases', Types', ActiveExact,
           LimitInv, [Next]_tvars
    PROVE  LimitInv'
<1>0. /\ IsFiniteSet(Open) /\ Cardinality(Open) \in Nat
      /\ IsFiniteSet(Accepted) /\ Cardinality(Accepted) \in Nat
      /\ IsFiniteSet(Passed) /\ Cardinality(Passed) \in Nat
      /\ IsFiniteSet(Started) /\ Cardinality(Started) \in Nat
      /\ Loop \in Receivers /\ Loop \notin QuicConns /\ QuicConns \subseteq Receivers
      /\ MaxStreams \in Nat
  BY CountedFinite DEF Receivers, Accepted, TransportAssumption, Loop
<1>a. Width \in Nat
  BY <1>0 DEF Width
<1>b. ASSUME Accepted' = Accepted \/ (\E x : Accepted' = Accepted \ {x}),
             Passed' = Passed, Started' = Started, Quic' = Quic
      PROVE  LimitInv'
  <2>1. Cardinality(Accepted') <= Cardinality(Accepted) /\ Cardinality(Accepted') \in Nat
    <3>1. CASE Accepted' = Accepted
      BY <1>0, <3>1
    <3>2. ASSUME NEW x, Accepted' = Accepted \ {x}
          PROVE  Cardinality(Accepted') <= Cardinality(Accepted) /\ Cardinality(Accepted') \in Nat
      <4>1. Accepted \ {x} \in SUBSET Accepted
        OBVIOUS
      <4> QED
        BY <1>0, <3>2, <4>1, FS_Subset, FS_CardinalityType
    <3> QED
      BY <1>b, <3>1, <3>2
  <2>2. Width' = Width
    BY <1>b DEF Width
  <2> QED
    BY <1>0, <1>a, <1>b, <2>1, <2>2 DEF LimitInv
<1>d. /\ IsFiniteSet(Passed') /\ Cardinality(Passed') \in Nat
      /\ IsFiniteSet(Started') /\ Cardinality(Started') \in Nat
  <2>1. Passed' \in SUBSET Receivers /\ Started' \in SUBSET QuicConns
    BY DEF Passed, Started
  <2>2. IsFiniteSet(Receivers) /\ IsFiniteSet(QuicConns)
    BY FS_AddElement DEF TransportAssumption, Receivers
  <2> QED
    BY <2>1, <2>2, FS_Subset, FS_CardinalityType
<1>c. Cardinality(Passed') <= Width'
  <2>1. CASE Quic'
    <3>1. Passed' \in SUBSET Started'
      BY <2>1 DEF Phases, Passed, Started, Receivers, Quic
    <3> QED
      BY <2>1, <3>1, <1>d, FS_Subset DEF Width
  <2>2. CASE ~Quic'
    <3>1. Passed' \in SUBSET {Loop}
      BY <2>2 DEF Phases, Passed, Receivers, Quic
    <3>2. IsFiniteSet({Loop}) /\ Cardinality({Loop}) = 1
      BY FS_Singleton
    <3> QED
      BY <2>2, <3>1, <3>2, FS_Subset DEF Width
  <2> QED
    BY <2>1, <2>2
<1>1. ASSUME NEW k \in {"quic", "tls"}, New(k) PROVE LimitInv'
  <2>1. Accepted' = {} /\ Passed' = {}
    BY <1>1 DEF New, Phases, Accepted, Open, Passed, gvars, svars
  <2>2. Started' = {} \/ ~Quic'
    BY <1>1 DEF New, Phases, Started, gvars, Receivers
  <2>3. Width' \in Nat
    BY <2>2, FS_EmptySet DEF Width
  <2> QED
    BY <2>1, <2>3, FS_EmptySet DEF LimitInv, TransportAssumption
<1>2. CASE ListenContext
  <2>1. Accepted' = Accepted /\ Passed' = Passed /\ Started' = Started /\ Quic' = Quic
    BY <1>2 DEF ListenContext, Accepted, Open, Passed, Started, Quic, lvars, gvars, svars
  <2> QED
    BY <2>1, <1>b
<1>3. CASE ListenUp
  <2>1. Loop \in Receivers /\ recv' = [recv EXCEPT ![Loop] = "accept"] /\ Quic' = Quic
    BY <1>3, <1>0 DEF ListenUp, Quic, lvars
  <2>2. Passed' = Passed /\ Started' = Started
    <3>1. Passed' = Passed \ {Loop} /\ Started' = Started \cup ({Loop} \cap QuicConns)
      BY <2>1, NotPassed
    <3> QED
      BY <1>3, <1>0, <3>1 DEF ListenUp, Passed, Started, Phases
  <2>4. Accepted' = Accepted
    BY <1>3 DEF ListenUp, Accepted, Open, svars
  <2> QED
    BY <1>b, <2>1, <2>2, <2>4
<1>4. CASE ListenFailed
  <2>1. Accepted' = Accepted /\ Passed' = Passed /\ Started' = Started /\ Quic' = Quic
    BY <1>4 DEF ListenFailed, Accepted, Open, Passed, Started, Quic, lvars, gvars, svars
  <2> QED
    BY <2>1, <1>b
<1>5. CASE WatcherClose
  <2>1. Accepted' = Accepted /\ Passed' = Passed /\ Started' = Started /\ Quic' = Quic
    BY <1>5 DEF WatcherClose, Accepted, Open, Passed, Started, Quic, lvars, gvars, svars
  <2> QED
    BY <2>1, <1>b
<1>6. CASE AcceptError
  <2>1. Accepted' = Accepted /\ Passed' = Passed /\ Started' = Started /\ Quic' = Quic
    BY <1>6 DEF AcceptError, Accepted, Open, Passed, Started, Quic, lvars, gvars, svars
  <2> QED
    BY <2>1, <1>b
<1>7. CASE LoopEnds
  <2>1. Loop \in Receivers /\ recv' = [recv EXCEPT ![Loop] = "ended"] /\ Quic' = Quic
    BY <1>7, <1>0 DEF LoopEnds, Quic, lvars
  <2>2. Passed' = Passed /\ Started' = Started
    <3>1. Passed' = Passed \ {Loop} /\ Started' = Started \cup ({Loop} \cap QuicConns)
      BY <2>1, NotPassed
    <3> QED
      BY <1>7, <1>0, <3>1 DEF LoopEnds, Passed
  <2>3. Accepted' = Accepted
    BY <1>7 DEF LoopEnds, Accepted, Open
  <2> QED
    BY <1>b, <2>1, <2>2, <2>3
<1>8. ASSUME NEW c \in QuicConns, AcceptConn(c) PROVE LimitInv'
  <2>1. /\ c \in Receivers /\ recv[c] = "off"
        /\ recv' = [recv EXCEPT ![c] = "accept"] /\ Quic' = Quic
    BY <1>8, <1>0 DEF AcceptConn, NextConn, Quic, lvars
  <2>2. Passed' = Passed /\ Started' = Started \cup {c}
    <3>1. \A r \in Receivers : recv'[r] = IF r = c THEN "accept" ELSE recv[r]
      BY <2>1 DEF Types
    <3> QED
      BY <2>1, <3>1 DEF Passed, Started, Receivers
  <2>3. Width' >= Width /\ Width' \in Nat
    <3>1. Cardinality(Started') =
            IF c \in Started THEN Cardinality(Started) ELSE Cardinality(Started) + 1
      BY <1>0, <2>2, FS_AddElement
    <3> QED
      BY <1>0, <2>1, <3>1 DEF Width
  <2>4. Accepted' = Accepted
    BY <1>8 DEF AcceptConn, Accepted, Open, svars
  <2> QED
    BY <1>0, <1>a, <2>2, <2>3, <2>4 DEF LimitInv
<1>9. ASSUME NEW c \in QuicConns, ConnEnds(c) PROVE LimitInv'
  <2>1. c \in Receivers /\ recv' = [recv EXCEPT ![c] = "ended"] /\ Quic' = Quic
    BY <1>9, <1>0 DEF ConnEnds, Quic, lvars
  <2>2. Passed' = Passed /\ Started' = Started
    <3>1. Passed' = Passed \ {c} /\ Started' = Started \cup ({c} \cap QuicConns)
      BY <2>1, NotPassed
    <3> QED
      BY <1>9, <1>0, <3>1 DEF ConnEnds, Passed, Started, Phases
  <2>4. Accepted' = Accepted
    BY <1>9 DEF ConnEnds, Accepted, Open, svars
  <2> QED
    BY <1>b, <2>1, <2>2, <2>4
<1>10. ASSUME NEW r \in Receivers, CheckLimit(r) PROVE LimitInv'
  <2>1. held[r] \in Streams /\ stream[held[r]] = "held" /\ Quic' = Quic
    BY <1>10 DEF CheckLimit, Holding, Quic, lvars
  <2>2. CASE active >= MaxStreams
    <3>1. recv' = [recv EXCEPT ![r] = "accept"] /\ stream' = [stream EXCEPT ![held[r]] = "refused"]
          /\ dialed' = dialed
      BY <1>10, <2>2 DEF CheckLimit
    <3>2. Passed' = Passed /\ Started' = Started
      BY <1>10, <3>1, ReceiverChange DEF CheckLimit, Passed, Started, Receivers
    <3>3. Accepted' = Accepted
      BY <2>1, <3>1, OpenChange DEF Accepted, Open
    <3> QED
      BY <1>b, <2>1, <3>2, <3>3
  <2>3. CASE ~(active >= MaxStreams)
    <3>1. Accepted' = Accepted
      BY <1>10, <2>3 DEF CheckLimit, Accepted, Open
    <3>2. Accepted \in SUBSET Open
      BY DEF Accepted
    <3>3. Cardinality(Accepted) <= MaxStreams - 1
      BY <1>0, <2>3, <3>2, FS_Subset DEF ActiveExact, Types
    <3>4. Cardinality(Passed') <= Width'
      BY <1>c
    <3>5. Cardinality(Passed') \in Nat /\ Width' \in Nat
      BY <1>d DEF Width
    <3> QED
      BY <1>0, <3>1, <3>3, <3>4, <3>5 DEF LimitInv
  <2> QED
    BY <2>2, <2>3
<1>11. ASSUME NEW r \in Receivers, CountStream(r) PROVE LimitInv'
  <2>1. /\ held[r] \in Streams /\ stream[held[r]] = "held" /\ Quic' = Quic
        /\ recv' = [recv EXCEPT ![r] = "send"] /\ dialed' = dialed
        /\ stream' = [stream EXCEPT ![held[r]] = "counted"] /\ recv[r] = "count"
    BY <1>11 DEF CountStream, Holding, Quic, lvars
  <2>2. Passed' = Passed \ {r} /\ r \in Passed /\ Started' = Started
    <3>1. Passed' = Passed \ {r} /\ Started' = Started \cup ({r} \cap QuicConns)
      BY <2>1, NotPassed
    <3> QED
      BY <2>1, <3>1 DEF Passed, Started
  <2>3. Accepted' = Accepted \cup {held[r]} /\ held[r] \notin Accepted
    BY <2>1, OpenChange DEF Accepted, Open, Queued
  <2>4. /\ Cardinality(Passed') = Cardinality(Passed) - 1
        /\ Cardinality(Accepted') = Cardinality(Accepted) + 1
    BY <1>0, <2>2, <2>3, FS_AddElement, FS_RemoveElement
  <2>5. Width' = Width
    BY <2>1, <2>2 DEF Width
  <2> QED
    BY <1>0, <1>a, <2>4, <2>5 DEF LimitInv
<1>12. ASSUME NEW r \in Receivers, SendStream(r) PROVE LimitInv'
  <2>1. r \in Receivers /\ recv' = [recv EXCEPT ![r] = "accept"] /\ Quic' = Quic
    BY <1>12, <1>0 DEF SendStream, Quic, lvars
  <2>2. Passed' = Passed /\ Started' = Started
    <3>1. Passed' = Passed \ {r} /\ Started' = Started \cup ({r} \cap QuicConns)
      BY <2>1, NotPassed
    <3> QED
      BY <1>12, <1>0, <3>1 DEF SendStream, Passed, Started, Phases
  <2>3. held[r] \in Streams /\ stream[held[r]] = "counted"
    BY <1>12 DEF SendStream, Holding, Queued
  <2>4. Accepted' = Accepted
    <3>1. Open' = Open
      BY <1>12, <2>3, OpenChange DEF SendStream, Open
    <3> QED
      BY <1>12, <3>1 DEF SendStream, Accepted
  <2> QED
    BY <1>b, <2>1, <2>2, <2>4
<1>13. ASSUME NEW r \in Receivers, SendOnClosed(r) PROVE LimitInv'
  <2>1. Accepted' = Accepted /\ Passed' = Passed /\ Started' = Started /\ Quic' = Quic
    BY <1>13 DEF SendOnClosed, Accepted, Open, Passed, Started, Quic, lvars, gvars, svars
  <2> QED
    BY <2>1, <1>b
<1>14. ASSUME NEW r \in Receivers, SendCancelled(r) PROVE LimitInv'
  <2>1. r \in Receivers /\ recv' = [recv EXCEPT ![r] = "ended"] /\ Quic' = Quic
    BY <1>14, <1>0 DEF SendCancelled, Quic, lvars
  <2>2. Passed' = Passed /\ Started' = Started
    <3>1. Passed' = Passed \ {r} /\ Started' = Started \cup ({r} \cap QuicConns)
      BY <2>1, NotPassed
    <3> QED
      BY <1>14, <1>0, <3>1 DEF SendCancelled, Passed, Started, Phases
  <2>3. held[r] \in Streams /\ stream[held[r]] = "counted"
    BY <1>14 DEF SendCancelled, Holding, Queued
  <2>4. Accepted' = Accepted \ {held[r]}
    <3>1. Open' = Open \ {held[r]}
      BY <1>14, <2>3, OpenChange DEF SendCancelled, Open
    <3> QED
      BY <1>14, <3>1 DEF SendCancelled, Accepted
  <2> QED
    BY <1>b, <2>1, <2>2, <2>4
<1>15. ASSUME NEW r \in Receivers, NEW s \in Streams, Receive(r, s) PROVE LimitInv'
  <2>1. r \in Receivers /\ recv' = [recv EXCEPT ![r] = "check"] /\ Quic' = Quic
    BY <1>15, <1>0 DEF Receive, NextStream, Quic, lvars
  <2>2. Passed' = Passed /\ Started' = Started
    <3>1. Passed' = Passed \ {r} /\ Started' = Started \cup ({r} \cap QuicConns)
      BY <2>1, NotPassed
    <3> QED
      BY <1>15, <1>0, <3>1 DEF Receive, NextStream, Passed, Started, Phases
  <2>3. s \in Streams /\ stream[s] = "fresh"
    BY <1>15 DEF Receive, NextStream, Holding, Queued
  <2>4. Accepted' = Accepted
    <3>1. Open' = Open
      BY <1>15, <2>3, OpenChange DEF Receive, Open
    <3> QED
      BY <1>15, <3>1 DEF Receive, Accepted
  <2> QED
    BY <1>b, <2>1, <2>2, <2>4
<1>16. ASSUME NEW s \in Streams, Dial(s) PROVE LimitInv'
  <2>1. stream[s] = "fresh" /\ s \in Streams
    BY <1>16 DEF Dial, NextStream, Queued, Types
  <2>2. Accepted' = Accepted
    BY <1>16, <2>1, OpenChange DEF Dial, Accepted, Open
  <2>3. Passed' = Passed /\ Started' = Started /\ Quic' = Quic
    BY <1>16 DEF Dial, Passed, Started, Quic, lvars, gvars
  <2> QED
    BY <1>b, <2>2, <2>3
<1>17. ASSUME NEW s \in Streams, CloseStream(s) PROVE LimitInv'
  <2>1. \A x \in Streams : stream'[x] = IF x = s THEN "closed" ELSE stream[x]
    BY <1>17 DEF CloseStream, Types
  <2>2. Accepted' = Accepted \ {s}
    BY <1>17, <2>1 DEF CloseStream, Accepted, Open
  <2>3. Passed' = Passed /\ Started' = Started /\ Quic' = Quic
    BY <1>17 DEF CloseStream, Passed, Started, Quic, lvars, gvars
  <2> QED
    BY <1>b, <2>2, <2>3
<1>18. CASE Take
  <2>1. Head(squeue) \in Streams /\ stream[Head(squeue)] = "queued"
    BY <1>18 DEF Take, Queued, Types
  <2>2. Accepted' = Accepted
    BY <1>18, <2>1, OpenChange DEF Take, Accepted, Open
  <2>3. Passed' = Passed /\ Started' = Started /\ Quic' = Quic
    BY <1>18 DEF Take, Passed, Started, Quic, lvars, gvars
  <2> QED
    BY <1>b, <2>2, <2>3
<1>19. CASE ShutdownCall
  <2>1. Accepted' = Accepted /\ Passed' = Passed /\ Started' = Started /\ Quic' = Quic
    BY <1>19 DEF ShutdownCall, Accepted, Open, Passed, Started, Quic, lvars, gvars, svars
  <2> QED
    BY <2>1, <1>b
<1>20. CASE ShutdownReturn
  <2>1. Accepted' = Accepted /\ Passed' = Passed /\ Started' = Started /\ Quic' = Quic
    BY <1>20 DEF ShutdownReturn, Accepted, Open, Passed, Started, Quic, lvars, gvars, svars
  <2> QED
    BY <2>1, <1>b
<1>21. CASE ParentCancel
  <2>1. Accepted' = Accepted /\ Passed' = Passed /\ Started' = Started /\ Quic' = Quic
    BY <1>21 DEF ParentCancel, Accepted, Open, Passed, Started, Quic, lvars, gvars, svars
  <2> QED
    BY <2>1, <1>b
<1>22. CASE UNCHANGED tvars
  <2>1. Accepted' = Accepted /\ Passed' = Passed /\ Started' = Started /\ Quic' = Quic
    BY <1>22 DEF tvars, Accepted, Open, Passed, Started, Quic, lvars, gvars, svars
  <2> QED
    BY <2>1, <1>b
<1> QED
  BY <1>1, <1>2, <1>3, <1>4, <1>5, <1>6, <1>7, <1>8, <1>9, <1>10, <1>11,
     <1>12, <1>13, <1>14, <1>15, <1>16, <1>17, <1>18, <1>19, <1>20, <1>21, <1>22
     DEF Next, ListenStep, ReceiverStep

----------------------------------------------------------------------------
(* The inductive invariant of a transport, and what follows from it          *)

TransportInv ==
    /\ Types /\ Holding /\ Queued /\ Phases /\ StreamsCounted /\ LimitInv
    /\ ShutdownQuiet /\ PanicOnlyInShutdown

LEMMA InitTransport == ASSUME TransportAssumption PROVE Init => TransportInv
  BY InitTypes, InitCounts, InitLimit
     DEF TransportInv, Init, ShutdownQuiet, PanicOnlyInShutdown, Quic

(* Shutdown returns when t.wg is zero, and no goroutine accepts from then on.*)
LEMMA NextQuiet ==
    ASSUME TransportAssumption, Types, Holding, Phases, WaitExact, ShutdownQuiet, [Next]_tvars
    PROVE  ShutdownQuiet'
<1>0. /\ Loop \in Receivers /\ QuicConns \subseteq Receivers
      /\ IsFiniteSet(Running)
  BY CountedFinite DEF Receivers
<1> USE <1>0 DEF ShutdownQuiet, Types, Phases, Quic, lvars, gvars, svars
<1>1. ASSUME NEW k \in {"quic", "tls"}, New(k) PROVE ShutdownQuiet'
  BY <1>1 DEF New
<1>2. CASE ListenContext
  BY <1>2 DEF ListenContext
<1>3. CASE ListenUp
  BY <1>3 DEF ListenUp
<1>4. CASE ListenFailed
  BY <1>4 DEF ListenFailed
<1>5. CASE WatcherClose
  BY <1>5 DEF WatcherClose
<1>6. CASE AcceptError
  BY <1>6 DEF AcceptError
<1>7. CASE LoopEnds
  BY <1>7 DEF LoopEnds
<1>8. ASSUME NEW c \in QuicConns, AcceptConn(c) PROVE ShutdownQuiet'
  BY <1>8 DEF AcceptConn, NextConn
<1>9. ASSUME NEW c \in QuicConns, ConnEnds(c) PROVE ShutdownQuiet'
  BY <1>9 DEF ConnEnds
<1>10. ASSUME NEW r \in Receivers, CheckLimit(r) PROVE ShutdownQuiet'
  BY <1>10 DEF CheckLimit
<1>11. ASSUME NEW r \in Receivers, CountStream(r) PROVE ShutdownQuiet'
  BY <1>11 DEF CountStream
<1>12. ASSUME NEW r \in Receivers, SendStream(r) PROVE ShutdownQuiet'
  BY <1>12 DEF SendStream
<1>13. ASSUME NEW r \in Receivers, SendOnClosed(r) PROVE ShutdownQuiet'
  BY <1>13 DEF SendOnClosed
<1>14. ASSUME NEW r \in Receivers, SendCancelled(r) PROVE ShutdownQuiet'
  BY <1>14 DEF SendCancelled
<1>15. ASSUME NEW r \in Receivers, NEW s \in Streams, Receive(r, s) PROVE ShutdownQuiet'
  BY <1>15 DEF Receive, NextStream
<1>16. ASSUME NEW s \in Streams, Dial(s) PROVE ShutdownQuiet'
  BY <1>16 DEF Dial, NextStream
<1>17. ASSUME NEW s \in Streams, CloseStream(s) PROVE ShutdownQuiet'
  BY <1>17 DEF CloseStream
<1>18. CASE Take
  BY <1>18 DEF Take
<1>19. CASE ShutdownCall
  BY <1>19 DEF ShutdownCall
<1>20. CASE ShutdownReturn
  <2>1. CASE Quic /\ shut = "up"
    <3>1. Running = {}
      BY <1>20, <2>1, FS_EmptySet DEF ShutdownReturn, WaitExact
    <3>2. \A r \in Receivers : recv[r] \in {"off", "ended"}
      BY <3>1 DEF Running
    <3>3. sclosed
      BY <2>1, <3>2
    <3> QED
      BY <1>20, <3>2, <3>3 DEF ShutdownReturn
  <2>2. CASE ~(Quic /\ shut = "up")
    BY <1>20, <2>2 DEF ShutdownReturn
  <2> QED
    BY <2>1, <2>2
<1>21. CASE ParentCancel
  BY <1>21 DEF ParentCancel
<1>22. CASE UNCHANGED tvars
  BY <1>22 DEF tvars
<1> QED
  BY <1>1, <1>2, <1>3, <1>4, <1>5, <1>6, <1>7, <1>8, <1>9, <1>10, <1>11,
     <1>12, <1>13, <1>14, <1>15, <1>16, <1>17, <1>18, <1>19, <1>20, <1>21, <1>22
     DEF Next, ListenStep, ReceiverStep

(* A send on the closed channel needs QUIC, where the loop does not send,    *)
(* and the loop closes the channel only when the context is done.            *)
LEMMA NextPanic ==
    ASSUME TransportAssumption, Types, Phases, PanicOnlyInShutdown, [Next]_tvars
    PROVE  PanicOnlyInShutdown'
<1>0. \A r \in Receivers : r = Loop \/ r \in QuicConns
  BY DEF Receivers
<1> USE <1>0 DEF PanicOnlyInShutdown, Types, Phases, Quic, lvars, gvars, svars
<1>1. ASSUME NEW k \in {"quic", "tls"}, New(k) PROVE PanicOnlyInShutdown'
  BY <1>1 DEF New
<1>2. CASE ListenContext
  BY <1>2 DEF ListenContext
<1>3. CASE ListenUp
  BY <1>3 DEF ListenUp
<1>4. CASE ListenFailed
  BY <1>4 DEF ListenFailed
<1>5. CASE WatcherClose
  BY <1>5 DEF WatcherClose
<1>6. CASE AcceptError
  BY <1>6 DEF AcceptError
<1>7. CASE LoopEnds
  BY <1>7 DEF LoopEnds
<1>8. ASSUME NEW c \in QuicConns, AcceptConn(c) PROVE PanicOnlyInShutdown'
  BY <1>8 DEF AcceptConn, NextConn
<1>9. ASSUME NEW c \in QuicConns, ConnEnds(c) PROVE PanicOnlyInShutdown'
  BY <1>9 DEF ConnEnds
<1>10. ASSUME NEW r \in Receivers, CheckLimit(r) PROVE PanicOnlyInShutdown'
  BY <1>10 DEF CheckLimit
<1>11. ASSUME NEW r \in Receivers, CountStream(r) PROVE PanicOnlyInShutdown'
  BY <1>11 DEF CountStream
<1>12. ASSUME NEW r \in Receivers, SendStream(r) PROVE PanicOnlyInShutdown'
  BY <1>12 DEF SendStream
<1>13. ASSUME NEW r \in Receivers, SendOnClosed(r) PROVE PanicOnlyInShutdown'
  BY <1>13 DEF SendOnClosed
<1>14. ASSUME NEW r \in Receivers, SendCancelled(r) PROVE PanicOnlyInShutdown'
  BY <1>14 DEF SendCancelled
<1>15. ASSUME NEW r \in Receivers, NEW s \in Streams, Receive(r, s)
      PROVE  PanicOnlyInShutdown'
  BY <1>15 DEF Receive, NextStream
<1>16. ASSUME NEW s \in Streams, Dial(s) PROVE PanicOnlyInShutdown'
  BY <1>16 DEF Dial, NextStream
<1>17. ASSUME NEW s \in Streams, CloseStream(s) PROVE PanicOnlyInShutdown'
  BY <1>17 DEF CloseStream
<1>18. CASE Take
  BY <1>18 DEF Take
<1>19. CASE ShutdownCall
  BY <1>19 DEF ShutdownCall
<1>20. CASE ShutdownReturn
  BY <1>20 DEF ShutdownReturn
<1>21. CASE ParentCancel
  BY <1>21 DEF ParentCancel
<1>22. CASE UNCHANGED tvars
  BY <1>22 DEF tvars
<1> QED
  BY <1>1, <1>2, <1>3, <1>4, <1>5, <1>6, <1>7, <1>8, <1>9, <1>10, <1>11,
     <1>12, <1>13, <1>14, <1>15, <1>16, <1>17, <1>18, <1>19, <1>20, <1>21, <1>22
     DEF Next, ListenStep, ReceiverStep

LEMMA NextTransport ==
    ASSUME TransportAssumption PROVE TransportInv /\ [Next]_tvars => TransportInv'
<1> SUFFICES ASSUME TransportInv, [Next]_tvars PROVE TransportInv'
  OBVIOUS
<1>1. Types' /\ Holding' /\ Queued' /\ Phases'
  BY NextTypes, NextHolding, NextQueued, NextPhases DEF TransportInv
<1>2. ActiveExact /\ WaitExact
  BY CountedParts DEF TransportInv
<1>3. ActiveExact' /\ WaitExact'
  BY <1>2, NextActive, NextWait DEF TransportInv
<1>4. StreamsCounted'
  BY <1>3 DEF StreamsCounted, ActiveExact, WaitExact, Running
<1>5. LimitInv' /\ ShutdownQuiet' /\ PanicOnlyInShutdown'
  BY <1>1, <1>2, NextLimit, NextQuiet, NextPanic DEF TransportInv
<1> QED
  BY <1>1, <1>4, <1>5 DEF TransportInv

LEMMA LimitFollows == ASSUME TransportAssumption PROVE TransportInv => StreamLimit
<1> SUFFICES ASSUME TransportInv PROVE StreamLimit
  OBVIOUS
<1>1. /\ Cardinality(Accepted) \in Nat /\ Cardinality(Passed) \in Nat
      /\ Cardinality(Started) \in Nat /\ MaxStreams \in Nat
  BY CountedFinite DEF TransportAssumption, Accepted
<1> QED
  BY <1>1 DEF TransportInv, LimitInv, Width, Started, Accepted, StreamLimit
=============================================================================

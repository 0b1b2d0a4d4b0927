------------------------- MODULE ProxyServerProofs -------------------------
(* Theorems about ProxyServer, for every number of calls, callers,          *)
(* connections and users and every connection limit.                        *)
EXTENDS ProxyServer, FiniteSetTheorems, TLAPS

(* NewServer's state is well typed.                                         *)
LEMMA InitTypes == Init => StateTypes
<1> SUFFICES ASSUME Init PROVE StateTypes
  OBVIOUS
<1>1. /\ sctx \in CallOrNil /\ slistener \in CallOrNil
      /\ cancelled \subseteq Calls /\ open \subseteq Calls /\ parentDone \in BOOLEAN
      /\ lpc \in [Calls -> LoopStates] /\ lsock \in [Calls -> CallOrNil]
      /\ wpc \in [Calls -> WatchStates] /\ wctx \in [Calls -> CallOrNil]
  BY DEF Init, CallOrNil, LoopStates, WatchStates
<1>2. /\ conn \in [Conns -> ConnStates] /\ by \in [Conns -> CallOrNil]
      /\ hctx \in [Conns -> CallOrNil] /\ user \in [Conns -> Users \cup {NoUser}]
      /\ tokens \subseteq Users
  BY DEF Init, CallOrNil, ConnStates
<1>3. /\ wg \in Int /\ active \in Int /\ total \in Int
      /\ authFailures \in 0 .. MaxErrors /\ connErrors \in 0 .. MaxErrors
  BY ProxyAssumption DEF Init
<1>4. /\ spc \in [Stops -> ShutStates] /\ sdctx \in [Stops -> CallOrNil]
      /\ waiter \in [Stops -> WaitStates] /\ panicked \in Panics
  BY DEF Init, CallOrNil, ShutStates, WaitStates, Panics
<1> QED
  BY <1>1, <1>2, <1>3, <1>4 DEF StateTypes

(* Releasing those who wait for the handlers leaves them well typed.        *)
LEMMA ReleaseTypes ==
    StateTypes /\ Release => lpc' \in [Calls -> LoopStates] /\ waiter' \in [Stops -> WaitStates]
<1> SUFFICES ASSUME StateTypes, Release
             PROVE  lpc' \in [Calls -> LoopStates] /\ waiter' \in [Stops -> WaitStates]
  OBVIOUS
<1>1. lpc \in [Calls -> LoopStates] /\ waiter \in [Stops -> WaitStates]
  BY DEF StateTypes
<1>2. /\ \A g \in Calls : Woken(lpc[g]) \in LoopStates
      /\ \A w \in Stops : Woken(waiter[w]) \in WaitStates
  BY <1>1 DEF Woken, LoopStates, WaitStates
<1>3. \/ UNCHANGED <<lpc, waiter>>
      \/ /\ lpc' = [g \in Calls |-> Woken(lpc[g])]
         /\ waiter' = [w \in Stops |-> Woken(waiter[w])]
  BY DEF Release
<1> QED
  BY <1>1, <1>2, <1>3

(* Every step of the loops, watchers, handlers and callers keeps the types. *)
LEMMA NextTypes == StateTypes /\ [Next]_vars => StateTypes'
<1> SUFFICES ASSUME StateTypes, [Next]_vars PROVE StateTypes'
  OBVIOUS
<1>i. /\ active + 1 \in Int /\ active - 1 \in Int /\ total + 1 \in Int
      /\ wg + 1 \in Int /\ wg - 1 \in Int
  BY DEF StateTypes
<1>e. Saturating(connErrors) \in 0 .. MaxErrors /\ Saturating(authFailures) \in 0 .. MaxErrors
  BY ProxyAssumption DEF StateTypes, Saturating
<1> USE DEF StateTypes, CallOrNil, LoopStates, WatchStates, ConnStates,
        ShutStates, WaitStates, Panics, Handshake, fields, loops, watchers, handlers, metrics, shutdowns,
        LoopGoto, Goto, AddError, AddAuthFailure, NoUser
<1>1. ASSUME NEW g \in Calls, CallListenAndServe(g) PROVE StateTypes'
  BY <1>1 DEF CallListenAndServe
<1>2. ASSUME NEW g \in Calls, SetContext(g) PROVE StateTypes'
  BY <1>2 DEF SetContext
<1>3. ASSUME NEW g \in Calls, BindOK(g) PROVE StateTypes'
  BY <1>3 DEF BindOK
<1>4. ASSUME NEW g \in Calls, BindFailed(g) PROVE StateTypes'
  BY <1>4 DEF BindFailed
<1>5. ASSUME NEW g \in Calls, WatcherStart(g) PROVE StateTypes'
  BY <1>5 DEF WatcherStart
<1>6. ASSUME NEW g \in Calls, WatcherClose(g) PROVE StateTypes'
  BY <1>6 DEF WatcherClose
<1>7. ASSUME NEW g \in Calls, CallAccept(g) PROVE StateTypes'
  BY <1>7 DEF CallAccept
<1>8. ASSUME NEW g \in Calls, NEW c \in Conns, AcceptConn(g, c) PROVE StateTypes'
  BY <1>8 DEF AcceptConn
<1>9. ASSUME NEW g \in Calls, AcceptError(g) PROVE StateTypes'
  BY <1>9 DEF AcceptError
<1>10. ASSUME NEW g \in Calls, HandleAcceptError(g) PROVE StateTypes'
  BY <1>10, <1>e DEF HandleAcceptError
<1>11. ASSUME NEW g \in Calls, NEW c \in Conns, RefuseConn(g, c) PROVE StateTypes'
  BY <1>11, <1>e DEF RefuseConn
<1>12. ASSUME NEW g \in Calls, CheckLimit(g) PROVE StateTypes'
  BY <1>12 DEF CheckLimit
<1>13. ASSUME NEW g \in Calls, CountConn(g) PROVE StateTypes'
  BY <1>13, <1>i DEF CountConn
<1>14. ASSUME NEW g \in Calls, NEW c \in Conns, SpawnHandler(g, c) PROVE StateTypes'
  BY <1>14, <1>i DEF SpawnHandler
<1>15. ASSUME NEW g \in Calls, LoopReturn(g) PROVE StateTypes'
  BY <1>15 DEF LoopReturn
<1>16. ASSUME NEW c \in Conns, HandlerStart(c) PROVE StateTypes'
  BY <1>16 DEF HandlerStart
<1>17. ASSUME NEW c \in Conns, Negotiate(c) PROVE StateTypes'
  BY <1>17 DEF Negotiate
<1>18. ASSUME NEW c \in Conns, NEW u \in Users, AuthSucceeds(c, u) PROVE StateTypes'
  BY <1>18 DEF AuthSucceeds
<1>19. ASSUME NEW c \in Conns, AuthFails(c) PROVE StateTypes'
  BY <1>19, <1>e DEF AuthFails
<1>20. ASSUME NEW c \in Conns, ReadRequest(c) PROVE StateTypes'
  BY <1>20 DEF ReadRequest
<1>21. ASSUME NEW c \in Conns, HandshakeError(c) PROVE StateTypes'
  BY <1>21 DEF HandshakeError
<1>22. ASSUME NEW c \in Conns, DialOK(c) PROVE StateTypes'
  BY <1>22 DEF DialOK
<1>23. ASSUME NEW c \in Conns, DialFailed(c) PROVE StateTypes'
  BY <1>23, <1>e DEF DialFailed
<1>24. ASSUME NEW c \in Conns, RelayEnd(c) PROVE StateTypes'
  BY <1>24 DEF RelayEnd
<1>25. ASSUME NEW c \in Conns, HandlerClose(c) PROVE StateTypes'
  BY <1>25, <1>i DEF HandlerClose
<1>26. ASSUME NEW c \in Conns, HandlerDone(c) PROVE StateTypes'
  <2>1. /\ lpc' \in [Calls -> LoopStates] /\ waiter' \in [Stops -> WaitStates]
    BY <1>26, ReleaseTypes DEF HandlerDone
  <2> QED
    BY <1>26, <1>i, <2>1 DEF HandlerDone
<1>27. ASSUME NEW w \in Stops, ShutdownCancel(w) PROVE StateTypes'
  BY <1>27 DEF ShutdownCancel
<1>28. ASSUME NEW w \in Stops, ShutdownDrained(w) PROVE StateTypes'
  BY <1>28 DEF ShutdownDrained, WaitOver
<1>29. ASSUME NEW w \in Stops, ShutdownTimeout(w) PROVE StateTypes'
  BY <1>29 DEF ShutdownTimeout
<1>30. ASSUME NEW u \in Users, AddToken(u) PROVE StateTypes'
  BY <1>30 DEF AddToken
<1>31. ASSUME NEW u \in Users, RemoveToken(u) PROVE StateTypes'
  BY <1>31 DEF RemoveToken
<1>32. CASE ParentCancel
  BY <1>32 DEF ParentCancel
<1>33. CASE UNCHANGED vars
  BY <1>33 DEF vars
<1>34. ASSUME NEW g \in Calls, LoopWait(g) PROVE StateTypes'
  BY <1>34 DEF LoopWait
<1>35. ASSUME NEW c \in Conns, LimiterBlocks(c) PROVE StateTypes'
  BY <1>35 DEF LimiterBlocks
<1>36. ASSUME NEW c \in Conns, LimiterGrants(c) PROVE StateTypes'
  BY <1>36 DEF LimiterGrants
<1>37. ASSUME NEW w \in Stops, ShutdownWait(w) PROVE StateTypes'
  BY <1>37 DEF ShutdownWait, WaitOver
<1> QED
  BY <1>1, <1>2, <1>3, <1>4, <1>5, <1>6, <1>7, <1>8, <1>9, <1>10, <1>11, <1>12, <1>13, <1>14, <1>15, <1>16, <1>17, <1>18, <1>19, <1>20, <1>21, <1>22, <1>23, <1>24, <1>25, <1>26, <1>27, <1>28, <1>29, <1>30, <1>31, <1>32, <1>33, <1>34, <1>35, <1>36, <1>37
     DEF Next, LoopStep, WatcherStep, WaiterStep, HandlerStep, ClientStep, RelayCancelled

----------------------------------------------------------------------------
(* The counters.                                                            *)

(* The bounded calls of ListenAndServe are finitely many.                   *)
LEMMA CallsFinite == IsFiniteSet(Calls)
  BY ProxyAssumption, FS_Interval DEF Calls

(* The sets that the counters count are finite.                             *)
LEMMA CountedFinite ==
    /\ IsFiniteSet(Counted) /\ IsFiniteSet(Running) /\ IsFiniteSet(Finished)
    /\ IsFiniteSet(Spawning)
    /\ Cardinality(Counted) \in Nat /\ Cardinality(Running) \in Nat
    /\ Cardinality(Finished) \in Nat /\ Cardinality(Spawning) \in Nat
<1>1. Counted \subseteq Conns /\ Running \subseteq Conns /\ Finished \subseteq Conns
  BY DEF Counted, Running, Finished
<1>2. Spawning \subseteq Calls
  BY DEF Spawning
<1>3. /\ IsFiniteSet(Counted) /\ IsFiniteSet(Running) /\ IsFiniteSet(Finished)
      /\ IsFiniteSet(Spawning)
  BY <1>1, <1>2, CallsFinite, ProxyAssumption, FS_Subset
<1> QED
  BY <1>3, FS_CardinalityType

(* A step that moves no connection and no loop into or out of those sets.   *)
Recount ==
    /\ Counted' = Counted /\ Running' = Running /\ Finished' = Finished
    /\ Spawning' = Spawning
    /\ UNCHANGED <<wg, active, total>>

(* A step that moves no connection between the counted sets is harmless.    *)
LEMMA RecountKeeps == CountersExact /\ Recount => CountersExact'
  BY DEF CountersExact, Recount

(* A new server has nothing to count.                                       *)
LEMMA InitCounters == Init => CountersExact
<1> SUFFICES ASSUME Init PROVE CountersExact
  OBVIOUS
<1>1. Counted = {} /\ Running = {} /\ Finished = {} /\ Spawning = {}
  BY DEF Init, Counted, Running, Finished, Spawning, Serving, Handshake
<1> QED
  BY <1>1, FS_EmptySet DEF Init, CountersExact

(* The counters stay exact: one case for every step that moves one.         *)
LEMMA NextCounters == StateTypes /\ CountersExact /\ [Next]_vars => CountersExact'
<1> SUFFICES ASSUME StateTypes, CountersExact, [Next]_vars PROVE CountersExact'
  OBVIOUS
<1>f. /\ IsFiniteSet(Counted) /\ IsFiniteSet(Running) /\ IsFiniteSet(Finished)
      /\ IsFiniteSet(Spawning)
      /\ Cardinality(Counted) \in Nat /\ Cardinality(Running) \in Nat
      /\ Cardinality(Finished) \in Nat /\ Cardinality(Spawning) \in Nat
  BY CountedFinite
<1> USE DEF StateTypes, fields, loops, watchers, handlers, metrics, shutdowns, LoopGoto,
        Goto, Recount, Counted, Running, Finished, Spawning, Serving, Handshake
<1>1. ASSUME NEW g \in Calls, CallListenAndServe(g) PROVE CountersExact'
  <2>1. Recount
    BY <1>1 DEF CallListenAndServe
  <2> QED
    BY <2>1, RecountKeeps
<1>2. ASSUME NEW g \in Calls, SetContext(g) PROVE CountersExact'
  <2>1. Recount
    BY <1>2 DEF SetContext
  <2> QED
    BY <2>1, RecountKeeps
<1>3. ASSUME NEW g \in Calls, BindOK(g) PROVE CountersExact'
  <2>1. Recount
    BY <1>3 DEF BindOK
  <2> QED
    BY <2>1, RecountKeeps
<1>4. ASSUME NEW g \in Calls, BindFailed(g) PROVE CountersExact'
  <2>1. Recount
    BY <1>4 DEF BindFailed
  <2> QED
    BY <2>1, RecountKeeps
<1>5. ASSUME NEW g \in Calls, WatcherStart(g) PROVE CountersExact'
  <2>1. Recount
    BY <1>5 DEF WatcherStart
  <2> QED
    BY <2>1, RecountKeeps
<1>6. ASSUME NEW g \in Calls, WatcherClose(g) PROVE CountersExact'
  <2>1. Recount
    BY <1>6 DEF WatcherClose
  <2> QED
    BY <2>1, RecountKeeps
<1>7. ASSUME NEW g \in Calls, CallAccept(g) PROVE CountersExact'
  <2>1. Recount
    BY <1>7 DEF CallAccept
  <2> QED
    BY <2>1, RecountKeeps
<1>8. ASSUME NEW g \in Calls, NEW c \in Conns, AcceptConn(g, c) PROVE CountersExact'
  <2>1. Recount
    BY <1>8 DEF AcceptConn
  <2> QED
    BY <2>1, RecountKeeps
<1>9. ASSUME NEW g \in Calls, AcceptError(g) PROVE CountersExact'
  <2>1. Recount
    BY <1>9 DEF AcceptError
  <2> QED
    BY <2>1, RecountKeeps
<1>10. ASSUME NEW g \in Calls, HandleAcceptError(g) PROVE CountersExact'
  <2>1. Recount
    BY <1>10 DEF HandleAcceptError
  <2> QED
    BY <2>1, RecountKeeps
<1>11. ASSUME NEW g \in Calls, NEW c \in Conns, RefuseConn(g, c) PROVE CountersExact'
  <2>1. Recount
    BY <1>11 DEF RefuseConn, Holds
  <2> QED
    BY <2>1, RecountKeeps
<1>12. ASSUME NEW g \in Calls, CheckLimit(g) PROVE CountersExact'
  <2>1. Recount
    BY <1>12 DEF CheckLimit
  <2> QED
    BY <2>1, RecountKeeps
<1>13. ASSUME NEW g \in Calls, CountConn(g) PROVE CountersExact'
  <2>1. Counted' = Counted /\ Running' = Running /\ Finished' = Finished
    BY <1>13 DEF CountConn
  <2>2. Spawning' = Spawning \cup {g} /\ g \notin Spawning
    BY <1>13 DEF CountConn
  <2> HIDE DEF Counted, Running, Finished, Spawning
  <2>3. Cardinality(Spawning') = Cardinality(Spawning) + 1
    BY <2>2, <1>f, FS_AddElement
  <2> QED
    BY <1>13, <2>1, <2>3, <1>f DEF CountConn, CountersExact
<1>14. ASSUME NEW g \in Calls, NEW c \in Conns, SpawnHandler(g, c) PROVE CountersExact'
  <2>1. Counted' = Counted \cup {c} /\ c \notin Counted
    BY <1>14 DEF SpawnHandler, Holds
  <2>2. Running' = Running \cup {c} /\ c \notin Running
    BY <1>14 DEF SpawnHandler, Holds
  <2>3. Spawning' = Spawning \ {g} /\ g \in Spawning
    BY <1>14 DEF SpawnHandler
  <2>4. Finished' = Finished
    BY <1>14 DEF SpawnHandler, Holds
  <2> HIDE DEF Counted, Running, Finished, Spawning
  <2>5. /\ Cardinality(Counted') = Cardinality(Counted) + 1
        /\ Cardinality(Running') = Cardinality(Running) + 1
    BY <2>1, <2>2, <1>f, FS_AddElement
  <2>6. Cardinality(Spawning') = Cardinality(Spawning) - 1
    BY <2>3, <1>f, FS_RemoveElement
  <2> QED
    BY <1>14, <2>4, <2>5, <2>6, <1>f DEF SpawnHandler, CountersExact
<1>15. ASSUME NEW g \in Calls, LoopReturn(g) PROVE CountersExact'
  <2>1. Recount
    BY <1>15 DEF LoopReturn
  <2> QED
    BY <2>1, RecountKeeps
<1>16. ASSUME NEW c \in Conns, HandlerStart(c) PROVE CountersExact'
  <2>1. Recount
    BY <1>16 DEF HandlerStart
  <2> QED
    BY <2>1, RecountKeeps
<1>17. ASSUME NEW c \in Conns, Negotiate(c) PROVE CountersExact'
  <2>1. Recount
    BY <1>17 DEF Negotiate
  <2> QED
    BY <2>1, RecountKeeps
<1>18. ASSUME NEW c \in Conns, NEW u \in Users, AuthSucceeds(c, u) PROVE CountersExact'
  <2>1. Recount
    BY <1>18 DEF AuthSucceeds
  <2> QED
    BY <2>1, RecountKeeps
<1>19. ASSUME NEW c \in Conns, AuthFails(c) PROVE CountersExact'
  <2>1. Recount
    BY <1>19 DEF AuthFails
  <2> QED
    BY <2>1, RecountKeeps
<1>20. ASSUME NEW c \in Conns, ReadRequest(c) PROVE CountersExact'
  <2>1. Recount
    BY <1>20 DEF ReadRequest
  <2> QED
    BY <2>1, RecountKeeps
<1>21. ASSUME NEW c \in Conns, HandshakeError(c) PROVE CountersExact'
  <2>1. Recount
    BY <1>21 DEF HandshakeError
  <2> QED
    BY <2>1, RecountKeeps
<1>22. ASSUME NEW c \in Conns, DialOK(c) PROVE CountersExact'
  <2>1. Recount
    BY <1>22 DEF DialOK
  <2> QED
    BY <2>1, RecountKeeps
<1>23. ASSUME NEW c \in Conns, DialFailed(c) PROVE CountersExact'
  <2>1. Recount
    BY <1>23 DEF DialFailed
  <2> QED
    BY <2>1, RecountKeeps
<1>24. ASSUME NEW c \in Conns, RelayEnd(c) PROVE CountersExact'
  <2>1. Recount
    BY <1>24 DEF RelayEnd
  <2> QED
    BY <2>1, RecountKeeps
<1>25. ASSUME NEW c \in Conns, HandlerClose(c) PROVE CountersExact'
  <2>1. Counted' = Counted \ {c} /\ c \in Counted
    BY <1>25 DEF HandlerClose
  <2>2. Finished' = Finished \cup {c} /\ c \notin Finished
    BY <1>25 DEF HandlerClose
  <2>3. Running' = Running /\ Spawning' = Spawning
    BY <1>25 DEF HandlerClose
  <2> HIDE DEF Counted, Running, Finished, Spawning
  <2>4. Cardinality(Counted') = Cardinality(Counted) - 1
    BY <2>1, <1>f, FS_RemoveElement
  <2>5. Cardinality(Finished') = Cardinality(Finished) + 1
    BY <2>2, <1>f, FS_AddElement
  <2> QED
    BY <1>25, <2>3, <2>4, <2>5, <1>f DEF HandlerClose, CountersExact
<1>26. ASSUME NEW c \in Conns, HandlerDone(c) PROVE CountersExact'
  <2>1. Running' = Running \ {c} /\ c \in Running
    BY <1>26 DEF HandlerDone, Release, Woken
  <2>2. Counted' = Counted /\ Finished' = Finished /\ Spawning' = Spawning
    BY <1>26 DEF HandlerDone, Release, Woken
  <2> HIDE DEF Counted, Running, Finished, Spawning
  <2>3. Cardinality(Running') = Cardinality(Running) - 1
    BY <2>1, <1>f, FS_RemoveElement
  <2> QED
    BY <1>26, <2>2, <2>3, <1>f DEF HandlerDone, CountersExact
<1>27. ASSUME NEW w \in Stops, ShutdownCancel(w) PROVE CountersExact'
  <2>1. Recount
    BY <1>27 DEF ShutdownCancel
  <2> QED
    BY <2>1, RecountKeeps
<1>28. ASSUME NEW w \in Stops, ShutdownDrained(w) PROVE CountersExact'
  <2>1. Recount
    BY <1>28 DEF ShutdownDrained, WaitOver
  <2> QED
    BY <2>1, RecountKeeps
<1>29. ASSUME NEW w \in Stops, ShutdownTimeout(w) PROVE CountersExact'
  <2>1. Recount
    BY <1>29 DEF ShutdownTimeout
  <2> QED
    BY <2>1, RecountKeeps
<1>30. ASSUME NEW u \in Users, AddToken(u) PROVE CountersExact'
  <2>1. Recount
    BY <1>30 DEF AddToken
  <2> QED
    BY <2>1, RecountKeeps
<1>31. ASSUME NEW u \in Users, RemoveToken(u) PROVE CountersExact'
  <2>1. Recount
    BY <1>31 DEF RemoveToken
  <2> QED
    BY <2>1, RecountKeeps
<1>32. CASE ParentCancel
  <2>1. Recount
    BY <1>32 DEF ParentCancel
  <2> QED
    BY <2>1, RecountKeeps
<1>33. CASE UNCHANGED vars
  BY <1>33, RecountKeeps DEF vars, Recount
<1>34. ASSUME NEW g \in Calls, LoopWait(g) PROVE CountersExact'
  <2>1. Recount
    BY <1>34 DEF LoopWait
  <2> QED
    BY <2>1, RecountKeeps
<1>35. ASSUME NEW c \in Conns, LimiterBlocks(c) PROVE CountersExact'
  <2>1. Recount
    BY <1>35 DEF LimiterBlocks
  <2> QED
    BY <2>1, RecountKeeps
<1>36. ASSUME NEW c \in Conns, LimiterGrants(c) PROVE CountersExact'
  <2>1. Recount
    BY <1>36 DEF LimiterGrants
  <2> QED
    BY <2>1, RecountKeeps
<1>37. ASSUME NEW w \in Stops, ShutdownWait(w) PROVE CountersExact'
  <2>1. Recount
    BY <1>37 DEF ShutdownWait, WaitOver
  <2> QED
    BY <2>1, RecountKeeps
<1> QED
  BY <1>1, <1>2, <1>3, <1>4, <1>5, <1>6, <1>7, <1>8, <1>9, <1>10, <1>11, <1>12, <1>13, <1>14, <1>15, <1>16, <1>17, <1>18, <1>19, <1>20, <1>21, <1>22, <1>23, <1>24, <1>25, <1>26, <1>27, <1>28, <1>29, <1>30, <1>31, <1>32, <1>33, <1>34, <1>35, <1>36, <1>37
     DEF Next, LoopStep, WatcherStep, WaiterStep, HandlerStep, ClientStep, RelayCancelled

(* The counters of the metrics and the wait group are exact.                *)
THEOREM CountersCorrect == Spec => [](TypeOK /\ CountersExact)
<1>1. Init => StateTypes /\ CountersExact
  BY InitTypes, InitCounters
<1>2. StateTypes /\ CountersExact /\ [Next]_vars => (StateTypes /\ CountersExact)'
  BY NextTypes, NextCounters
<1>3. StateTypes /\ CountersExact => TypeOK
  BY CountedFinite DEF TypeOK, CountersExact
<1> QED
  BY <1>1, <1>2, <1>3, PTL DEF Spec

(* In particular s.wg and the metrics never go below zero.                  *)
THEOREM TypeCorrect == Spec => []TypeOK
  BY CountersCorrect, PTL

----------------------------------------------------------------------------
(* Authentication.                                                          *)

(* Only AuthSucceeds leads from the authentication to the request.          *)
LEMMA NextAuth == StateTypes /\ AuthBeforeRelay /\ [Next]_vars => AuthBeforeRelay'
<1> SUFFICES ASSUME StateTypes, AuthBeforeRelay, [Next]_vars PROVE AuthBeforeRelay'
  OBVIOUS
<1> USE ProxyAssumption DEF AuthBeforeRelay, StateTypes, handlers, Goto, NoUser, Handshake
<1>1. ASSUME NEW g \in Calls, CallListenAndServe(g) PROVE AuthBeforeRelay'
  BY <1>1 DEF CallListenAndServe
<1>2. ASSUME NEW g \in Calls, SetContext(g) PROVE AuthBeforeRelay'
  BY <1>2 DEF SetContext
<1>3. ASSUME NEW g \in Calls, BindOK(g) PROVE AuthBeforeRelay'
  BY <1>3 DEF BindOK
<1>4. ASSUME NEW g \in Calls, BindFailed(g) PROVE AuthBeforeRelay'
  BY <1>4 DEF BindFailed
<1>5. ASSUME NEW g \in Calls, WatcherStart(g) PROVE AuthBeforeRelay'
  BY <1>5 DEF WatcherStart
<1>6. ASSUME NEW g \in Calls, WatcherClose(g) PROVE AuthBeforeRelay'
  BY <1>6 DEF WatcherClose
<1>7. ASSUME NEW g \in Calls, CallAccept(g) PROVE AuthBeforeRelay'
  BY <1>7 DEF CallAccept
<1>8. ASSUME NEW g \in Calls, NEW c \in Conns, AcceptConn(g, c) PROVE AuthBeforeRelay'
  BY <1>8 DEF AcceptConn
<1>9. ASSUME NEW g \in Calls, AcceptError(g) PROVE AuthBeforeRelay'
  BY <1>9 DEF AcceptError
<1>10. ASSUME NEW g \in Calls, HandleAcceptError(g) PROVE AuthBeforeRelay'
  BY <1>10 DEF HandleAcceptError
<1>11. ASSUME NEW g \in Calls, NEW c \in Conns, RefuseConn(g, c) PROVE AuthBeforeRelay'
  BY <1>11 DEF RefuseConn
<1>12. ASSUME NEW g \in Calls, CheckLimit(g) PROVE AuthBeforeRelay'
  BY <1>12 DEF CheckLimit
<1>13. ASSUME NEW g \in Calls, CountConn(g) PROVE AuthBeforeRelay'
  BY <1>13 DEF CountConn
<1>14. ASSUME NEW g \in Calls, NEW c \in Conns, SpawnHandler(g, c) PROVE AuthBeforeRelay'
  BY <1>14 DEF SpawnHandler
<1>15. ASSUME NEW g \in Calls, LoopReturn(g) PROVE AuthBeforeRelay'
  BY <1>15 DEF LoopReturn
<1>16. ASSUME NEW c \in Conns, HandlerStart(c) PROVE AuthBeforeRelay'
  BY <1>16 DEF HandlerStart
<1>17. ASSUME NEW c \in Conns, Negotiate(c) PROVE AuthBeforeRelay'
  BY <1>17 DEF Negotiate
<1>18. ASSUME NEW c \in Conns, NEW u \in Users, AuthSucceeds(c, u) PROVE AuthBeforeRelay'
  BY <1>18 DEF AuthSucceeds
<1>19. ASSUME NEW c \in Conns, AuthFails(c) PROVE AuthBeforeRelay'
  BY <1>19 DEF AuthFails
<1>20. ASSUME NEW c \in Conns, ReadRequest(c) PROVE AuthBeforeRelay'
  BY <1>20 DEF ReadRequest
<1>21. ASSUME NEW c \in Conns, HandshakeError(c) PROVE AuthBeforeRelay'
  BY <1>21 DEF HandshakeError
<1>22. ASSUME NEW c \in Conns, DialOK(c) PROVE AuthBeforeRelay'
  BY <1>22 DEF DialOK
<1>23. ASSUME NEW c \in Conns, DialFailed(c) PROVE AuthBeforeRelay'
  BY <1>23 DEF DialFailed
<1>24. ASSUME NEW c \in Conns, RelayEnd(c) PROVE AuthBeforeRelay'
  BY <1>24 DEF RelayEnd
<1>25. ASSUME NEW c \in Conns, HandlerClose(c) PROVE AuthBeforeRelay'
  BY <1>25 DEF HandlerClose
<1>26. ASSUME NEW c \in Conns, HandlerDone(c) PROVE AuthBeforeRelay'
  BY <1>26 DEF HandlerDone, Release, Woken
<1>27. ASSUME NEW w \in Stops, ShutdownCancel(w) PROVE AuthBeforeRelay'
  BY <1>27 DEF ShutdownCancel
<1>28. ASSUME NEW w \in Stops, ShutdownDrained(w) PROVE AuthBeforeRelay'
  BY <1>28 DEF ShutdownDrained, WaitOver
<1>29. ASSUME NEW w \in Stops, ShutdownTimeout(w) PROVE AuthBeforeRelay'
  BY <1>29 DEF ShutdownTimeout
<1>30. ASSUME NEW u \in Users, AddToken(u) PROVE AuthBeforeRelay'
  BY <1>30 DEF AddToken
<1>31. ASSUME NEW u \in Users, RemoveToken(u) PROVE AuthBeforeRelay'
  BY <1>31 DEF RemoveToken
<1>32. CASE ParentCancel
  BY <1>32 DEF ParentCancel
<1>33. CASE UNCHANGED vars
  BY <1>33 DEF vars
<1>34. ASSUME NEW g \in Calls, LoopWait(g) PROVE AuthBeforeRelay'
  BY <1>34 DEF LoopWait
<1>35. ASSUME NEW c \in Conns, LimiterBlocks(c) PROVE AuthBeforeRelay'
  BY <1>35 DEF LimiterBlocks
<1>36. ASSUME NEW c \in Conns, LimiterGrants(c) PROVE AuthBeforeRelay'
  BY <1>36 DEF LimiterGrants
<1>37. ASSUME NEW w \in Stops, ShutdownWait(w) PROVE AuthBeforeRelay'
  BY <1>37 DEF ShutdownWait, WaitOver
<1> QED
  BY <1>1, <1>2, <1>3, <1>4, <1>5, <1>6, <1>7, <1>8, <1>9, <1>10, <1>11, <1>12, <1>13, <1>14, <1>15, <1>16, <1>17, <1>18, <1>19, <1>20, <1>21, <1>22, <1>23, <1>24, <1>25, <1>26, <1>27, <1>28, <1>29, <1>30, <1>31, <1>32, <1>33, <1>34, <1>35, <1>36, <1>37
     DEF Next, LoopStep, WatcherStep, WaiterStep, HandlerStep, ClientStep, RelayCancelled

(* No connection is relayed for a client that was not authenticated.        *)
THEOREM AuthCorrect == Spec => []AuthBeforeRelay
<1>1. Init => StateTypes /\ AuthBeforeRelay
  BY InitTypes DEF Init, AuthBeforeRelay
<1>2. StateTypes /\ AuthBeforeRelay /\ [Next]_vars => (StateTypes /\ AuthBeforeRelay)'
  BY NextTypes, NextAuth
<1> QED
  BY <1>1, <1>2, PTL DEF Spec

----------------------------------------------------------------------------
(* What is left running after a Shutdown.                                   *)

(* A context that s.ctx holds, or that a Shutdown cancelled, belongs to a    *)
(* call that has assigned it, so no later call assigns it again.             *)
ContextsUsed ==
    /\ sctx # Nil => lpc[sctx] \notin {"idle", "called"}
    /\ \A w \in Stops : sdctx[w] # Nil =>
          sdctx[w] \in cancelled /\ lpc[sdctx[w]] \notin {"idle", "called"}

(* After a drained Shutdown every handler was started with the cancelled     *)
(* context, so its dial cannot succeed.                                      *)
QuietInv ==
    /\ ContextsUsed
    /\ \A w \in Stops : spc[w] = "drained" /\ sdctx[w] # Nil /\ sdctx[w] = sctx =>
          \A c \in Conns :
              /\ conn[c] \notin {"relay", "limited"}
              /\ conn[c] \in Handshake \cup {"dial"} => hctx[c] = sctx

(* The strengthened invariant of a drained Shutdown is kept by every step.  *)
LEMMA NextQuiet == StateTypes /\ CountersExact /\ QuietInv /\ [Next]_vars => QuietInv'
<1> SUFFICES ASSUME StateTypes, CountersExact, QuietInv, [Next]_vars PROVE QuietInv'
  OBVIOUS
<1> USE DEF QuietInv, ContextsUsed, StateTypes, fields, loops, handlers, shutdowns, LoopGoto, Goto,
        Done, CallOrNil, Handshake
<1>d. wg = 0 => \A c \in Conns : conn[c] \notin Handshake \cup {"dial", "relay", "limited"}
  <2>1. wg = 0 => Running = {}
    BY CountedFinite, FS_EmptySet DEF CountersExact
  <2> QED
    BY <2>1 DEF Running, Serving
<1>1. ASSUME NEW g \in Calls, CallListenAndServe(g) PROVE QuietInv'
  BY <1>1 DEF CallListenAndServe
<1>2. ASSUME NEW g \in Calls, SetContext(g) PROVE QuietInv'
  BY <1>2 DEF SetContext
<1>3. ASSUME NEW g \in Calls, BindOK(g) PROVE QuietInv'
  BY <1>3 DEF BindOK
<1>4. ASSUME NEW g \in Calls, BindFailed(g) PROVE QuietInv'
  BY <1>4 DEF BindFailed
<1>5. ASSUME NEW g \in Calls, WatcherStart(g) PROVE QuietInv'
  BY <1>5 DEF WatcherStart
<1>6. ASSUME NEW g \in Calls, WatcherClose(g) PROVE QuietInv'
  BY <1>6 DEF WatcherClose
<1>7. ASSUME NEW g \in Calls, CallAccept(g) PROVE QuietInv'
  BY <1>7 DEF CallAccept
<1>8. ASSUME NEW g \in Calls, NEW c \in Conns, AcceptConn(g, c) PROVE QuietInv'
  BY <1>8 DEF AcceptConn
<1>9. ASSUME NEW g \in Calls, AcceptError(g) PROVE QuietInv'
  BY <1>9 DEF AcceptError
<1>10. ASSUME NEW g \in Calls, HandleAcceptError(g) PROVE QuietInv'
  BY <1>10 DEF HandleAcceptError
<1>11. ASSUME NEW g \in Calls, NEW c \in Conns, RefuseConn(g, c) PROVE QuietInv'
  BY <1>11 DEF RefuseConn
<1>12. ASSUME NEW g \in Calls, CheckLimit(g) PROVE QuietInv'
  BY <1>12 DEF CheckLimit
<1>13. ASSUME NEW g \in Calls, CountConn(g) PROVE QuietInv'
  BY <1>13 DEF CountConn
<1>14. ASSUME NEW g \in Calls, NEW c \in Conns, SpawnHandler(g, c) PROVE QuietInv'
  BY <1>14 DEF SpawnHandler
<1>15. ASSUME NEW g \in Calls, LoopReturn(g) PROVE QuietInv'
  BY <1>15 DEF LoopReturn
<1>16. ASSUME NEW c \in Conns, HandlerStart(c) PROVE QuietInv'
  BY <1>16 DEF HandlerStart
<1>17. ASSUME NEW c \in Conns, Negotiate(c) PROVE QuietInv'
  BY <1>17 DEF Negotiate
<1>18. ASSUME NEW c \in Conns, NEW u \in Users, AuthSucceeds(c, u) PROVE QuietInv'
  BY <1>18 DEF AuthSucceeds
<1>19. ASSUME NEW c \in Conns, AuthFails(c) PROVE QuietInv'
  BY <1>19 DEF AuthFails
<1>20. ASSUME NEW c \in Conns, ReadRequest(c) PROVE QuietInv'
  BY <1>20 DEF ReadRequest
<1>21. ASSUME NEW c \in Conns, HandshakeError(c) PROVE QuietInv'
  BY <1>21 DEF HandshakeError
<1>22. ASSUME NEW c \in Conns, DialOK(c) PROVE QuietInv'
  BY <1>22 DEF DialOK
<1>23. ASSUME NEW c \in Conns, DialFailed(c) PROVE QuietInv'
  BY <1>23 DEF DialFailed
<1>24. ASSUME NEW c \in Conns, RelayEnd(c) PROVE QuietInv'
  BY <1>24 DEF RelayEnd
<1>25. ASSUME NEW c \in Conns, HandlerClose(c) PROVE QuietInv'
  BY <1>25 DEF HandlerClose
<1>26. ASSUME NEW c \in Conns, HandlerDone(c) PROVE QuietInv'
  BY <1>26 DEF HandlerDone, Release, Woken
<1>27. ASSUME NEW w \in Stops, ShutdownCancel(w) PROVE QuietInv'
  BY <1>27 DEF ShutdownCancel
<1>28. ASSUME NEW w \in Stops, ShutdownDrained(w) PROVE QuietInv'
  <2>1. CASE wg = 0
    BY <1>28, <2>1, <1>d DEF ShutdownDrained, WaitOver
  <2>2. CASE wg # 0
    BY <1>28, <2>2 DEF ShutdownDrained
  <2> QED
    BY <2>1, <2>2
<1>29. ASSUME NEW w \in Stops, ShutdownTimeout(w) PROVE QuietInv'
  BY <1>29 DEF ShutdownTimeout
<1>30. ASSUME NEW u \in Users, AddToken(u) PROVE QuietInv'
  BY <1>30 DEF AddToken
<1>31. ASSUME NEW u \in Users, RemoveToken(u) PROVE QuietInv'
  BY <1>31 DEF RemoveToken
<1>32. CASE ParentCancel
  BY <1>32 DEF ParentCancel
<1>33. CASE UNCHANGED vars
  BY <1>33 DEF vars
<1>34. ASSUME NEW g \in Calls, LoopWait(g) PROVE QuietInv'
  BY <1>34 DEF LoopWait
<1>35. ASSUME NEW c \in Conns, LimiterBlocks(c) PROVE QuietInv'
  BY <1>35 DEF LimiterBlocks
<1>36. ASSUME NEW c \in Conns, LimiterGrants(c) PROVE QuietInv'
  BY <1>36 DEF LimiterGrants
<1>37. ASSUME NEW w \in Stops, ShutdownWait(w) PROVE QuietInv'
  <2>1. CASE wg = 0
    BY <1>37, <2>1, <1>d DEF ShutdownWait, WaitOver
  <2>2. CASE wg # 0
    BY <1>37, <2>2 DEF ShutdownWait
  <2> QED
    BY <2>1, <2>2
<1> QED
  BY <1>1, <1>2, <1>3, <1>4, <1>5, <1>6, <1>7, <1>8, <1>9, <1>10, <1>11, <1>12, <1>13, <1>14, <1>15, <1>16, <1>17, <1>18, <1>19, <1>20, <1>21, <1>22, <1>23, <1>24, <1>25, <1>26, <1>27, <1>28, <1>29, <1>30, <1>31, <1>32, <1>33, <1>34, <1>35, <1>36, <1>37
     DEF Next, LoopStep, WatcherStep, WaiterStep, HandlerStep, ClientStep, RelayCancelled

(* After a Shutdown that drained, nothing is relayed until the next start.  *)
THEOREM QuietCorrect == Spec => []QuietAfterShutdown
<1>1. Init => StateTypes /\ CountersExact /\ QuietInv
  BY InitTypes, InitCounters DEF Init, QuietInv, ContextsUsed
<1>2. StateTypes /\ CountersExact /\ QuietInv /\ [Next]_vars =>
        (StateTypes /\ CountersExact /\ QuietInv)'
  BY NextTypes, NextCounters, NextQuiet
<1>3. QuietInv => QuietAfterShutdown
  BY DEF QuietInv, QuietAfterShutdown
<1> QED
  BY <1>1, <1>2, <1>3, PTL DEF Spec

----------------------------------------------------------------------------
(* The connection limit.                                                    *)

(* Loops that passed the check and have not raised the counter yet.          *)
Admitting == {g \in Calls : lpc[g] = "admit"}

(* Their connections count as if they were active already.                   *)
LimitInv ==
    \/ active + Cardinality(Admitting) = 0
    \/ active + Cardinality(Admitting) <= MaxConnections + Cardinality(Unreturned) - 1

(* A step that none of the counts of LimitInv can see.                      *)
Readmit == Admitting' = Admitting /\ Unreturned' = Unreturned /\ active' = active

(* A step that touches neither the loops nor the metric keeps the limit.    *)
LEMMA ReadmitKeeps == LimitInv /\ Readmit => LimitInv'
  BY DEF LimitInv, Readmit

(* The accept loops counted by the limit are finitely many.                 *)
LEMMA AdmittingFinite ==
    /\ IsFiniteSet(Admitting) /\ IsFiniteSet(Unreturned)
    /\ Cardinality(Admitting) \in Nat /\ Cardinality(Unreturned) \in Nat
<1>1. Admitting \subseteq Calls /\ Unreturned \subseteq Calls
  BY DEF Admitting, Unreturned
<1>2. IsFiniteSet(Admitting) /\ IsFiniteSet(Unreturned)
  BY <1>1, CallsFinite, FS_Subset
<1> QED
  BY <1>2, FS_CardinalityType

(* A loop returns from its wait only when no handler is left to be counted. *)
LEMMA ReturnKeeps ==
    ASSUME StateTypes, CountersExact, wg = 0,
           NEW g \in Calls, lpc[g] \in {"wait", "woken"},
           LoopGoto(g, "returned"), active' = active
    PROVE  LimitInv'
<1>f. /\ IsFiniteSet(Admitting) /\ IsFiniteSet(Unreturned)
      /\ Cardinality(Admitting) \in Nat /\ Cardinality(Unreturned) \in Nat
  BY AdmittingFinite
<1> USE ProxyAssumption DEF LimitInv, StateTypes, LoopGoto, Admitting, Unreturned
<1>1. Admitting' = Admitting /\ Unreturned' = Unreturned \ {g}
  BY DEF StateTypes
<1>2. Spawning \cup Admitting \subseteq Unreturned \ {g} /\ Spawning \cap Admitting = {}
  BY DEF StateTypes, Spawning
<1>3. Counted \subseteq Running
  BY DEF Counted, Running
<1> HIDE DEF Admitting, Unreturned
<1>4. active = Cardinality(Spawning)
  <2>1. Running = {}
    BY CountedFinite, FS_EmptySet DEF CountersExact
  <2>2. Cardinality(Counted) = 0
    BY <2>1, <1>3, FS_EmptySet
  <2> QED
    BY <2>2, CountedFinite DEF CountersExact
<1>5. Cardinality(Spawning) + Cardinality(Admitting) <= Cardinality(Unreturned')
  <2>1. IsFiniteSet(Unreturned \ {g})
    BY <1>f, FS_RemoveElement
  <2>2. Cardinality(Spawning \cup Admitting) <= Cardinality(Unreturned \ {g})
    BY <2>1, <1>2, FS_Subset
  <2>3. Cardinality(Spawning \cup Admitting) = Cardinality(Spawning) + Cardinality(Admitting)
    <3>1. Cardinality(Spawning \cap Admitting) = 0
      BY <1>2, FS_EmptySet
    <3>2. IsFiniteSet(Spawning) /\ Cardinality(Spawning) \in Nat
      BY CountedFinite
    <3>3. Cardinality(Spawning \cup Admitting) = Cardinality(Spawning) + Cardinality(Admitting)
                                                 - Cardinality(Spawning \cap Admitting)
      BY <3>2, <1>f, FS_Union, Zenon
    <3> QED
      BY <3>1, <3>2, <3>3, <1>f
  <2> QED
    BY <2>2, <2>3, <1>1
<1>6. Cardinality(Unreturned') \in Nat
  BY <1>1, <1>f, FS_RemoveElement, FS_CardinalityType
<1> QED
  BY <1>1, <1>4, <1>5, <1>6, <1>f, CountedFinite

(* Every step keeps LimitInv; a loop that passes the check pays for itself. *)
LEMMA NextLimit == StateTypes /\ CountersExact /\ LimitInv /\ [Next]_vars => LimitInv'
<1> SUFFICES ASSUME StateTypes, CountersExact, LimitInv, [Next]_vars PROVE LimitInv'
  OBVIOUS
<1>f. /\ IsFiniteSet(Admitting) /\ IsFiniteSet(Unreturned)
      /\ Cardinality(Admitting) \in Nat /\ Cardinality(Unreturned) \in Nat
  BY AdmittingFinite
<1> USE ProxyAssumption DEF LimitInv, StateTypes, loops, metrics, LoopGoto, Readmit, Admitting, Unreturned
<1>1. ASSUME NEW g \in Calls, CallListenAndServe(g) PROVE LimitInv'
  <2>1. Readmit
    BY <1>1 DEF CallListenAndServe
  <2> QED
    BY <2>1, ReadmitKeeps
<1>2. ASSUME NEW g \in Calls, SetContext(g) PROVE LimitInv'
  <2>1. Readmit
    BY <1>2 DEF SetContext
  <2> QED
    BY <2>1, ReadmitKeeps
<1>3. ASSUME NEW g \in Calls, BindOK(g) PROVE LimitInv'
  <2>1. Admitting' = Admitting /\ Unreturned' = Unreturned \cup {g} /\ g \notin Unreturned
    BY <1>3 DEF BindOK
  <2> HIDE DEF Admitting, Unreturned
  <2>2. Cardinality(Unreturned') = Cardinality(Unreturned) + 1
    BY <2>1, <1>f, FS_AddElement
  <2> QED
    BY <1>3, <2>1, <2>2, <1>f DEF BindOK
<1>4. ASSUME NEW g \in Calls, BindFailed(g) PROVE LimitInv'
  <2>1. Readmit
    BY <1>4 DEF BindFailed
  <2> QED
    BY <2>1, ReadmitKeeps
<1>5. ASSUME NEW g \in Calls, WatcherStart(g) PROVE LimitInv'
  <2>1. Readmit
    BY <1>5 DEF WatcherStart
  <2> QED
    BY <2>1, ReadmitKeeps
<1>6. ASSUME NEW g \in Calls, WatcherClose(g) PROVE LimitInv'
  <2>1. Readmit
    BY <1>6 DEF WatcherClose
  <2> QED
    BY <2>1, ReadmitKeeps
<1>7. ASSUME NEW g \in Calls, CallAccept(g) PROVE LimitInv'
  <2>1. Readmit
    BY <1>7 DEF CallAccept
  <2> QED
    BY <2>1, ReadmitKeeps
<1>8. ASSUME NEW g \in Calls, NEW c \in Conns, AcceptConn(g, c) PROVE LimitInv'
  <2>1. Readmit
    BY <1>8 DEF AcceptConn
  <2> QED
    BY <2>1, ReadmitKeeps
<1>9. ASSUME NEW g \in Calls, AcceptError(g) PROVE LimitInv'
  <2>1. Readmit
    BY <1>9 DEF AcceptError
  <2> QED
    BY <2>1, ReadmitKeeps
<1>10. ASSUME NEW g \in Calls, HandleAcceptError(g) PROVE LimitInv'
  <2>1. Readmit
    BY <1>10 DEF HandleAcceptError
  <2> QED
    BY <2>1, ReadmitKeeps
<1>11. ASSUME NEW g \in Calls, NEW c \in Conns, RefuseConn(g, c) PROVE LimitInv'
  <2>1. Readmit
    BY <1>11 DEF RefuseConn
  <2> QED
    BY <2>1, ReadmitKeeps
<1>12. ASSUME NEW g \in Calls, CheckLimit(g) PROVE LimitInv'
  <2>1. Admitting' = Admitting \cup {g} /\ Unreturned' = Unreturned
    BY <1>12 DEF CheckLimit
  <2>2. Admitting' \subseteq Unreturned
    BY <1>12 DEF CheckLimit
  <2> HIDE DEF Admitting, Unreturned
  <2>3. Cardinality(Admitting') <= Cardinality(Unreturned) /\ Cardinality(Admitting') \in Nat
    BY <2>1, <2>2, <1>f, FS_Subset, FS_AddElement, FS_CardinalityType
  <2> QED
    BY <1>12, <2>1, <2>3, <1>f DEF CheckLimit
<1>13. ASSUME NEW g \in Calls, CountConn(g) PROVE LimitInv'
  <2>1. Admitting' = Admitting \ {g} /\ g \in Admitting /\ Unreturned' = Unreturned
    BY <1>13 DEF CountConn
  <2> HIDE DEF Admitting, Unreturned
  <2>2. Cardinality(Admitting') = Cardinality(Admitting) - 1
    BY <2>1, <1>f, FS_RemoveElement
  <2> QED
    BY <1>13, <2>1, <2>2, <1>f DEF CountConn
<1>14. ASSUME NEW g \in Calls, NEW c \in Conns, SpawnHandler(g, c) PROVE LimitInv'
  <2>1. Readmit
    BY <1>14 DEF SpawnHandler
  <2> QED
    BY <2>1, ReadmitKeeps
<1>15. ASSUME NEW g \in Calls, LoopReturn(g) PROVE LimitInv'
  <2>1. CASE wg = 0
    BY <1>15, <2>1, ReturnKeeps DEF LoopReturn
  <2>2. CASE wg # 0
    <3>1. Readmit
      BY <1>15, <2>2 DEF LoopReturn
    <3> QED
      BY <3>1, ReadmitKeeps
  <2> QED
    BY <2>1, <2>2
<1>16. ASSUME NEW c \in Conns, HandlerStart(c) PROVE LimitInv'
  <2>1. Readmit
    BY <1>16 DEF HandlerStart
  <2> QED
    BY <2>1, ReadmitKeeps
<1>17. ASSUME NEW c \in Conns, Negotiate(c) PROVE LimitInv'
  <2>1. Readmit
    BY <1>17 DEF Negotiate
  <2> QED
    BY <2>1, ReadmitKeeps
<1>18. ASSUME NEW c \in Conns, NEW u \in Users, AuthSucceeds(c, u) PROVE LimitInv'
  <2>1. Readmit
    BY <1>18 DEF AuthSucceeds
  <2> QED
    BY <2>1, ReadmitKeeps
<1>19. ASSUME NEW c \in Conns, AuthFails(c) PROVE LimitInv'
  <2>1. Readmit
    BY <1>19 DEF AuthFails
  <2> QED
    BY <2>1, ReadmitKeeps
<1>20. ASSUME NEW c \in Conns, ReadRequest(c) PROVE LimitInv'
  <2>1. Readmit
    BY <1>20 DEF ReadRequest
  <2> QED
    BY <2>1, ReadmitKeeps
<1>21. ASSUME NEW c \in Conns, HandshakeError(c) PROVE LimitInv'
  <2>1. Readmit
    BY <1>21 DEF HandshakeError
  <2> QED
    BY <2>1, ReadmitKeeps
<1>22. ASSUME NEW c \in Conns, DialOK(c) PROVE LimitInv'
  <2>1. Readmit
    BY <1>22 DEF DialOK
  <2> QED
    BY <2>1, ReadmitKeeps
<1>23. ASSUME NEW c \in Conns, DialFailed(c) PROVE LimitInv'
  <2>1. Readmit
    BY <1>23 DEF DialFailed
  <2> QED
    BY <2>1, ReadmitKeeps
<1>24. ASSUME NEW c \in Conns, RelayEnd(c) PROVE LimitInv'
  <2>1. Readmit
    BY <1>24 DEF RelayEnd
  <2> QED
    BY <2>1, ReadmitKeeps
<1>25. ASSUME NEW c \in Conns, HandlerClose(c) PROVE LimitInv'
  <2>1. Admitting' = Admitting /\ Unreturned' = Unreturned
    BY <1>25 DEF HandlerClose
  <2> HIDE DEF Admitting, Unreturned
  <2> QED
    BY <1>25, <2>1, <1>f DEF HandlerClose
<1>26. ASSUME NEW c \in Conns, HandlerDone(c) PROVE LimitInv'
  <2>1. Readmit
    BY <1>26 DEF HandlerDone, Release, Woken
  <2> QED
    BY <2>1, ReadmitKeeps
<1>27. ASSUME NEW w \in Stops, ShutdownCancel(w) PROVE LimitInv'
  <2>1. Readmit
    BY <1>27 DEF ShutdownCancel
  <2> QED
    BY <2>1, ReadmitKeeps
<1>28. ASSUME NEW w \in Stops, ShutdownDrained(w) PROVE LimitInv'
  <2>1. Readmit
    BY <1>28 DEF ShutdownDrained, WaitOver
  <2> QED
    BY <2>1, ReadmitKeeps
<1>29. ASSUME NEW w \in Stops, ShutdownTimeout(w) PROVE LimitInv'
  <2>1. Readmit
    BY <1>29 DEF ShutdownTimeout
  <2> QED
    BY <2>1, ReadmitKeeps
<1>30. ASSUME NEW u \in Users, AddToken(u) PROVE LimitInv'
  <2>1. Readmit
    BY <1>30 DEF AddToken
  <2> QED
    BY <2>1, ReadmitKeeps
<1>31. ASSUME NEW u \in Users, RemoveToken(u) PROVE LimitInv'
  <2>1. Readmit
    BY <1>31 DEF RemoveToken
  <2> QED
    BY <2>1, ReadmitKeeps
<1>32. CASE ParentCancel
  <2>1. Readmit
    BY <1>32 DEF ParentCancel
  <2> QED
    BY <2>1, ReadmitKeeps
<1>33. CASE UNCHANGED vars
  BY <1>33, ReadmitKeeps DEF vars
<1>34. ASSUME NEW g \in Calls, LoopWait(g) PROVE LimitInv'
  <2>1. CASE wg = 0
    BY <1>34, <2>1, ReturnKeeps DEF LoopWait
  <2>2. CASE wg # 0
    <3>1. Readmit
      BY <1>34, <2>2 DEF LoopWait
    <3> QED
      BY <3>1, ReadmitKeeps
  <2> QED
    BY <2>1, <2>2
<1>35. ASSUME NEW c \in Conns, LimiterBlocks(c) PROVE LimitInv'
  <2>1. Readmit
    BY <1>35 DEF LimiterBlocks
  <2> QED
    BY <2>1, ReadmitKeeps
<1>36. ASSUME NEW c \in Conns, LimiterGrants(c) PROVE LimitInv'
  <2>1. Readmit
    BY <1>36 DEF LimiterGrants
  <2> QED
    BY <2>1, ReadmitKeeps
<1>37. ASSUME NEW w \in Stops, ShutdownWait(w) PROVE LimitInv'
  <2>1. Readmit
    BY <1>37 DEF ShutdownWait, WaitOver
  <2> QED
    BY <2>1, ReadmitKeeps
<1> QED
  BY <1>1, <1>2, <1>3, <1>4, <1>5, <1>6, <1>7, <1>8, <1>9, <1>10, <1>11, <1>12, <1>13, <1>14, <1>15, <1>16, <1>17, <1>18, <1>19, <1>20, <1>21, <1>22, <1>23, <1>24, <1>25, <1>26, <1>27, <1>28, <1>29, <1>30, <1>31, <1>32, <1>33, <1>34, <1>35, <1>36, <1>37
     DEF Next, LoopStep, WatcherStep, WaiterStep, HandlerStep, ClientStep, RelayCancelled

(* ActiveConnections never exceeds MaxConnections by more than the number of *)
(* overlapping calls of ListenAndServe, less one.                            *)
THEOREM LimitCorrect == Spec => []ConnectionLimit
<1>1. Init => StateTypes /\ CountersExact /\ LimitInv
  <2> SUFFICES ASSUME Init PROVE LimitInv
    BY InitTypes, InitCounters
  <2>1. Admitting = {}
    BY DEF Init, Admitting
  <2> QED
    BY <2>1, FS_EmptySet DEF Init, LimitInv
<1>2. StateTypes /\ CountersExact /\ LimitInv /\ [Next]_vars =>
        (StateTypes /\ CountersExact /\ LimitInv)'
  BY NextTypes, NextCounters, NextLimit
<1>3. StateTypes /\ CountersExact /\ LimitInv => ConnectionLimit
  <2> SUFFICES ASSUME StateTypes, CountersExact, LimitInv PROVE ConnectionLimit
    OBVIOUS
  <2>1. active \in Nat
    BY CountedFinite DEF CountersExact
  <2> QED
    BY <2>1, AdmittingFinite, ProxyAssumption DEF LimitInv, ConnectionLimit
<1> QED
  BY <1>1, <1>2, <1>3, PTL DEF Spec

----------------------------------------------------------------------------
(* The listener that the loops and the watchers share.                      *)

(* The one way to lose it: a Listen failed, and assigned nil to s.listener,  *)
(* on a server that another call's watcher and accept loop still use.        *)
RebindFailed == \E f, g \in Calls : lpc[f] = "failed" /\ wpc[g] # "none"

(* A call has a watcher from the moment its Listen succeeded, and s.listener *)
(* is nil after that only if another Listen failed: the loops and watchers,  *)
(* which read the field, exist only then.                                    *)
ListenerInv ==
    /\ \A g \in Calls : (wpc[g] = "none") <=> (lpc[g] \in {"idle", "called", "bind", "failed"})
    /\ slistener = Nil /\ (\E g \in Calls : wpc[g] # "none") => RebindFailed
    /\ panicked = "nil listener" => RebindFailed

(* No call has the number of the nil listener.                              *)
LEMMA CallNumbers == \A g \in Calls : g # Nil
  BY ProxyAssumption DEF Calls, Nil

(* Only Listen assigns s.listener, and a failed call stays failed.           *)
LEMMA NextListener == StateTypes /\ ListenerInv /\ [Next]_vars => ListenerInv'
<1> SUFFICES ASSUME StateTypes, ListenerInv, [Next]_vars PROVE ListenerInv'
  OBVIOUS
<1> USE DEF ListenerInv, RebindFailed, StateTypes, fields, loops, watchers, LoopGoto
<1> DEFINE Before == {"idle", "called", "bind", "failed"}
\* A loop that goes on changes nothing of what the invariant speaks of.
<1>0. ASSUME NEW g \in Calls, lpc[g] \notin Before,
             NEW pc, pc \notin Before, lpc' = [lpc EXCEPT ![g] = pc],
             slistener' = slistener, wpc' = wpc,
             panicked' = panicked
      PROVE ListenerInv'
  <2>1. \A f \in Calls : lpc'[f] = IF f = g THEN pc ELSE lpc[f]
    BY <1>0
  <2>2. \A f \in Calls : /\ lpc'[f] \in Before <=> lpc[f] \in Before
                         /\ lpc'[f] = "failed" <=> lpc[f] = "failed"
    BY <2>1, <1>0
  <2>3. RebindFailed' <=> RebindFailed
    BY <2>2, <1>0
  <2> HIDE DEF RebindFailed
  <2> QED
    BY <2>2, <2>3, <1>0
<1>1. ASSUME NEW g \in Calls, CallListenAndServe(g) PROVE ListenerInv'
  BY <1>1 DEF CallListenAndServe
<1>2. ASSUME NEW g \in Calls, SetContext(g) PROVE ListenerInv'
  BY <1>2 DEF SetContext
<1>3. ASSUME NEW g \in Calls, BindOK(g) PROVE ListenerInv'
  <2>1. slistener' # Nil /\ panicked' = panicked
    BY <1>3, CallNumbers DEF BindOK
  <2>2. \A f \in Calls : /\ lpc'[f] = IF f = g THEN "loop" ELSE lpc[f]
                         /\ wpc'[f] = IF f = g THEN "start" ELSE wpc[f]
    BY <1>3 DEF BindOK
  <2>3. RebindFailed => RebindFailed'
    BY <1>3, <2>2 DEF BindOK
  <2> QED
    BY <2>1, <2>2, <2>3
<1>4. ASSUME NEW g \in Calls, BindFailed(g) PROVE ListenerInv'
  BY <1>4 DEF BindFailed
<1>5. ASSUME NEW g \in Calls, WatcherStart(g) PROVE ListenerInv'
  BY <1>5 DEF WatcherStart
<1>6. ASSUME NEW g \in Calls, WatcherClose(g) PROVE ListenerInv'
  BY <1>6 DEF WatcherClose
<1>7. ASSUME NEW g \in Calls, CallAccept(g) PROVE ListenerInv'
  BY <1>7 DEF CallAccept
<1>8. ASSUME NEW g \in Calls, NEW c \in Conns, AcceptConn(g, c) PROVE ListenerInv'
  BY <1>8 DEF AcceptConn
<1>9. ASSUME NEW g \in Calls, AcceptError(g) PROVE ListenerInv'
  BY <1>9 DEF AcceptError
<1>10. ASSUME NEW g \in Calls, HandleAcceptError(g) PROVE ListenerInv'
  <2> DEFINE pc == IF Done(sctx) THEN "wait" ELSE "loop"
  <2>1. /\ lpc[g] = "err" /\ lpc' = [lpc EXCEPT ![g] = pc]
        /\ UNCHANGED <<slistener, wpc, panicked>>
    BY <1>10 DEF HandleAcceptError
  <2>2. pc \notin Before
    OBVIOUS
  <2> QED
    BY <1>0, <2>1, <2>2
<1>11. ASSUME NEW g \in Calls, NEW c \in Conns, RefuseConn(g, c) PROVE ListenerInv'
  BY <1>11 DEF RefuseConn
<1>12. ASSUME NEW g \in Calls, CheckLimit(g) PROVE ListenerInv'
  BY <1>12 DEF CheckLimit
<1>13. ASSUME NEW g \in Calls, CountConn(g) PROVE ListenerInv'
  BY <1>13 DEF CountConn
<1>14. ASSUME NEW g \in Calls, NEW c \in Conns, SpawnHandler(g, c) PROVE ListenerInv'
  BY <1>14 DEF SpawnHandler
<1>15. ASSUME NEW g \in Calls, LoopReturn(g) PROVE ListenerInv'
  <2>1. CASE wg = 0
    <3>1. /\ lpc[g] = "woken" /\ lpc' = [lpc EXCEPT ![g] = "returned"]
          /\ UNCHANGED <<slistener, wpc, panicked>>
      BY <1>15, <2>1 DEF LoopReturn
    <3> QED
      BY <1>0, <3>1
  <2>2. CASE wg # 0
    <3>1. panicked' = "wait group" /\ UNCHANGED <<slistener, lpc, wpc>>
      BY <1>15, <2>2 DEF LoopReturn
    <3> QED
      BY <3>1
  <2> QED
    BY <2>1, <2>2
<1>16. ASSUME NEW c \in Conns, HandlerStart(c) PROVE ListenerInv'
  BY <1>16 DEF HandlerStart
<1>17. ASSUME NEW c \in Conns, Negotiate(c) PROVE ListenerInv'
  BY <1>17 DEF Negotiate
<1>18. ASSUME NEW c \in Conns, NEW u \in Users, AuthSucceeds(c, u) PROVE ListenerInv'
  BY <1>18 DEF AuthSucceeds
<1>19. ASSUME NEW c \in Conns, AuthFails(c) PROVE ListenerInv'
  BY <1>19 DEF AuthFails
<1>20. ASSUME NEW c \in Conns, ReadRequest(c) PROVE ListenerInv'
  BY <1>20 DEF ReadRequest
<1>21. ASSUME NEW c \in Conns, HandshakeError(c) PROVE ListenerInv'
  BY <1>21 DEF HandshakeError
<1>22. ASSUME NEW c \in Conns, DialOK(c) PROVE ListenerInv'
  BY <1>22 DEF DialOK
<1>23. ASSUME NEW c \in Conns, DialFailed(c) PROVE ListenerInv'
  BY <1>23 DEF DialFailed
<1>24. ASSUME NEW c \in Conns, RelayEnd(c) PROVE ListenerInv'
  BY <1>24 DEF RelayEnd
<1>25. ASSUME NEW c \in Conns, HandlerClose(c) PROVE ListenerInv'
  BY <1>25 DEF HandlerClose
<1>26. ASSUME NEW c \in Conns, HandlerDone(c) PROVE ListenerInv'
  <2>1. wpc' = wpc /\ slistener' = slistener /\ panicked' = panicked
    BY <1>26 DEF HandlerDone
  <2>2. \A f \in Calls : lpc'[f] = lpc[f] \/ (lpc[f] = "blocked" /\ lpc'[f] = "woken")
    BY <1>26 DEF HandlerDone, Release, Woken
  <2>3. \A f \in Calls : (lpc'[f] = "failed") <=> (lpc[f] = "failed")
    BY <2>2
  <2> QED
    BY <2>1, <2>2, <2>3
<1>27. ASSUME NEW w \in Stops, ShutdownCancel(w) PROVE ListenerInv'
  BY <1>27 DEF ShutdownCancel
<1>28. ASSUME NEW w \in Stops, ShutdownDrained(w) PROVE ListenerInv'
  BY <1>28 DEF ShutdownDrained, WaitOver
<1>29. ASSUME NEW w \in Stops, ShutdownTimeout(w) PROVE ListenerInv'
  BY <1>29 DEF ShutdownTimeout
<1>30. ASSUME NEW u \in Users, AddToken(u) PROVE ListenerInv'
  BY <1>30 DEF AddToken
<1>31. ASSUME NEW u \in Users, RemoveToken(u) PROVE ListenerInv'
  BY <1>31 DEF RemoveToken
<1>32. CASE ParentCancel
  BY <1>32 DEF ParentCancel
<1>33. CASE UNCHANGED vars
  BY <1>33 DEF vars
<1>34. ASSUME NEW g \in Calls, LoopWait(g) PROVE ListenerInv'
  BY <1>34 DEF LoopWait
<1>35. ASSUME NEW c \in Conns, LimiterBlocks(c) PROVE ListenerInv'
  BY <1>35 DEF LimiterBlocks
<1>36. ASSUME NEW c \in Conns, LimiterGrants(c) PROVE ListenerInv'
  BY <1>36 DEF LimiterGrants
<1>37. ASSUME NEW w \in Stops, ShutdownWait(w) PROVE ListenerInv'
  BY <1>37 DEF ShutdownWait, WaitOver
<1> QED
  BY <1>1, <1>2, <1>3, <1>4, <1>5, <1>6, <1>7, <1>8, <1>9, <1>10, <1>11, <1>12, <1>13, <1>14, <1>15, <1>16, <1>17, <1>18, <1>19, <1>20, <1>21, <1>22, <1>23, <1>24, <1>25, <1>26, <1>27, <1>28, <1>29, <1>30, <1>31, <1>32, <1>33, <1>34, <1>35, <1>36, <1>37
     DEF Next, LoopStep, WatcherStep, WaiterStep, HandlerStep, ClientStep, RelayCancelled

(* A method is called on a nil listener only after the Listen of another     *)
(* call has failed while an earlier call's goroutines were still there: this *)
(* is the only way in which a restart can bring the process down.            *)
THEOREM NilCorrect == Spec => [](NoNilListener \/ RebindFailed)
<1>1. Init => StateTypes /\ ListenerInv
  BY InitTypes DEF Init, ListenerInv
<1>2. StateTypes /\ ListenerInv /\ [Next]_vars => (StateTypes /\ ListenerInv)'
  BY NextTypes, NextListener
<1>3. ListenerInv => NoNilListener \/ RebindFailed
  BY DEF ListenerInv, NoNilListener
<1> QED
  BY <1>1, <1>2, <1>3, PTL DEF Spec

(* A server that is started once never calls a method on a nil listener,     *)
(* whatever the clients and the callers of Shutdown do.                      *)
THEOREM FirstStartCorrect == ASSUME NCalls = 1 PROVE Spec => []NoNilListener
<1>1. Init => StateTypes /\ ListenerInv
  BY InitTypes DEF Init, ListenerInv
<1>2. StateTypes /\ ListenerInv /\ [Next]_vars => (StateTypes /\ ListenerInv)'
  BY NextTypes, NextListener
<1>3. ListenerInv => NoNilListener
  <2>1. \A f, g \in Calls : f = g
    BY DEF Calls
  <2>2. ListenerInv => ~RebindFailed
    BY <2>1 DEF ListenerInv, RebindFailed
  <2> QED
    BY <2>2 DEF ListenerInv, NoNilListener
<1> QED
  BY <1>1, <1>2, <1>3, PTL DEF Spec
=============================================================================

---------------------------- MODULE ProxyServer ----------------------------
(***************************************************************************)
(* The SOCKS5 proxy server of core/go/internal/proxy/socks5.go: the calls   *)
(* of ListenAndServe with their accept loop and their watcher goroutine,    *)
(* the handler goroutine of every client connection, Shutdown, and the      *)
(* TokenAuthenticator.                                                      *)
(*                                                                          *)
(* One *Server outlives several calls of ListenAndServe: the daemon calls   *)
(* it again after every StopTunnel.  The fields s.ctx, s.cancel and         *)
(* s.listener are shared by all the calls, and the accept loop, the watcher *)
(* and the handlers read them again at every use.  A call is a number g of  *)
(* Calls; context g and listener g are the ones call g created.             *)
(***************************************************************************)
EXTENDS Integers, FiniteSets

CONSTANTS
    Conns,            \* the client connections
    Users,            \* the user names a client may present
    NCalls,           \* bound on the calls of ListenAndServe on this Server
    Stops,            \* the calls of Shutdown
    MaxConnections,   \* s.cfg.MaxConnections
    AuthRequired,     \* s.cfg.Auth # nil
    MaxErrors         \* bound: ConnectionErrors and AuthFailures saturate here

(* NewServer replaces a MaxConnections that is not positive (socks5.go:178).*)
ASSUME ProxyAssumption ==
    /\ IsFiniteSet(Conns)
    /\ NCalls \in Nat
    /\ MaxConnections \in Nat \ {0}
    /\ AuthRequired \in BOOLEAN
    /\ MaxErrors \in Nat
    /\ "none" \notin Users

Calls == 1 .. NCalls
Nil == 0                      \* a nil context, cancel function or listener
CallOrNil == Calls \cup {Nil}

VARIABLES
    sctx,         \* s.ctx and s.cancel: the call that assigned them, or Nil
    slistener,    \* s.listener: the call that assigned it, or Nil
    cancelled,    \* contexts cancelled by s.cancel
    parentDone,   \* the daemon's context, parent of all of them, is cancelled
    open,         \* listeners whose socket is open
    lpc,          \* program counter of each ListenAndServe
    lsock,        \* the listener its Accept is blocked on, or Nil
    wpc,          \* program counter of its watcher goroutine
    wctx,         \* the context its watcher waits for
    conn,         \* where each client connection is
    by,           \* the call whose accept loop holds it, or Nil
    hctx,         \* the context its handler was given
    user,         \* the user it authenticated as
    tokens,       \* TokenAuthenticator.tokens: the users with a valid token
    wg,           \* s.wg, the number of handlers
    active,       \* metrics.ActiveConnections
    total,        \* metrics.TotalConnections
    authFailures, \* metrics.AuthFailures, saturating at MaxErrors
    connErrors,   \* metrics.ConnectionErrors, saturating at MaxErrors
    spc,          \* what became of each call of Shutdown
    sdctx,        \* the context it cancelled
    waiter,       \* where the goroutine is that calls s.wg.Wait() for it
    panicked      \* why the process is gone, or "no"

fields    == <<sctx, slistener, cancelled, parentDone, open>>
loops     == <<lpc, lsock>>
watchers  == <<wpc, wctx>>
handlers  == <<conn, by, hctx, user>>
metrics   == <<active, total, authFailures, connErrors>>
shutdowns == <<spc, sdctx, waiter>>
vars == <<fields, loops, watchers, handlers, tokens, wg, metrics, shutdowns, panicked>>

NoUser == "none"

LoopStates  == {"idle", "called", "bind", "loop", "accept", "err", "got",
                "admit", "spawn", "wait", "blocked", "woken", "returned", "failed"}
WatchStates == {"none", "start", "waiting", "done"}
Handshake   == {"negotiate", "auth", "request"}
Serving     == Handshake \cup {"spawned", "dial", "relay", "limited", "closing"}
ConnStates  == Handshake \cup {"new", "accepted", "refused", "spawned", "dial", "relay",
                "limited", "closing", "leaving", "done"}
ShutStates  == {"idle", "waiting", "drained", "err"}
WaitStates  == {"none", "look", "blocked", "woken", "gone"}
Panics      == {"no", "nil listener", "wait group"}

Up == panicked = "no"

(* ctx.Err() # nil.                                                        *)
Done(ctx) == ctx # Nil /\ (ctx \in cancelled \/ parentDone)

(* metrics.ConnectionErrors.Add(1) and metrics.AuthFailures.Add(1).         *)
Saturating(n) == IF n < MaxErrors THEN n + 1 ELSE n
AddError == connErrors' = Saturating(connErrors)
AddAuthFailure == authFailures' = Saturating(authFailures)

(* Connections counted by ActiveConnections, and by s.wg.                   *)
Counted == {c \in Conns : conn[c] \in Serving}
Running == {c \in Conns : conn[c] \in Serving \cup {"leaving"}}
Finished == {c \in Conns : conn[c] \in {"leaving", "done"}}

(* Accept loops between the two metrics updates and s.wg.Add(1).            *)
Spawning == {g \in Calls : lpc[g] = "spawn"}

(* Calls of ListenAndServe that have bound and not returned.                *)
Unreturned == {g \in Calls : lpc[g] \notin {"idle", "called", "bind", "returned", "failed"}}

Init ==
    /\ sctx = Nil /\ slistener = Nil /\ cancelled = {} /\ parentDone = FALSE /\ open = {}
    /\ lpc = [g \in Calls |-> "idle"] /\ lsock = [g \in Calls |-> Nil]
    /\ wpc = [g \in Calls |-> "none"] /\ wctx = [g \in Calls |-> Nil]
    /\ conn = [c \in Conns |-> "new"] /\ by = [c \in Conns |-> Nil]
    /\ hctx = [c \in Conns |-> Nil] /\ user = [c \in Conns |-> NoUser]
    /\ tokens = {} /\ wg = 0
    /\ active = 0 /\ total = 0 /\ authFailures = 0 /\ connErrors = 0
    /\ spc = [w \in Stops |-> "idle"] /\ sdctx = [w \in Stops |-> Nil]
    /\ waiter = [w \in Stops |-> "none"]
    /\ panicked = "no"

----------------------------------------------------------------------------
(* ListenAndServe                                                           *)

LoopGoto(g, pc) == lpc' = [lpc EXCEPT ![g] = pc]

(* The daemon serialises its calls: a new one is made when no earlier one   *)
(* is pending and the last one failed to bind or a Shutdown has returned    *)
(* (StartTunnel does nothing while the tunnel is running).                  *)
CallListenAndServe(g) ==
    /\ lpc[g] = "idle"
    /\ \A f \in Calls : f < g => lpc[f] # "idle"
    /\ \/ g = 1
       \/ \E f \in Calls : f = g - 1 /\ lpc[f] = "failed"
       \/ \E w \in Stops : spc[w] \in {"drained", "err"}
    /\ LoopGoto(g, "called")
    /\ UNCHANGED <<fields, lsock, watchers, handlers, tokens, wg, metrics, shutdowns, panicked>>

SetContext(g) ==
    /\ lpc[g] = "called"
    /\ sctx' = g
    /\ LoopGoto(g, "bind")
    /\ UNCHANGED <<slistener, cancelled, parentDone, open, lsock, watchers,
                   handlers, tokens, wg, metrics, shutdowns, panicked>>

(* All the listeners have the same address: it is free when none is open.  *)
BindOK(g) ==
    /\ lpc[g] = "bind"
    /\ open = {}
    /\ slistener' = g
    /\ open' = {g}
    /\ wpc' = [wpc EXCEPT ![g] = "start"]
    /\ LoopGoto(g, "loop")
    /\ UNCHANGED <<sctx, cancelled, parentDone, lsock, wctx, handlers, tokens,
                   wg, metrics, shutdowns, panicked>>

(* Mutation: the error of Listen is not looked at.                          *)
BindFailedUnchecked(g) ==
    /\ lpc[g] = "bind"
    /\ slistener' = Nil
    /\ LoopGoto(g, "loop")
    /\ UNCHANGED <<sctx, cancelled, parentDone, open, lsock, watchers,
                   handlers, tokens, wg, metrics, shutdowns, panicked>>

(* Listen failed, with the address held by an open listener of an earlier   *)
(* call or by another program: it returned a nil listener, which is         *)
(* assigned to s.listener before the error is looked at.                    *)
BindFailed(g) ==
    /\ lpc[g] = "bind"
    /\ slistener' = Nil
    /\ LoopGoto(g, "failed")
    /\ UNCHANGED <<sctx, cancelled, parentDone, open, lsock, watchers,
                   handlers, tokens, wg, metrics, shutdowns, panicked>>

(* The watcher reads s.ctx when it is first scheduled ...                   *)
WatcherStart(g) ==
    /\ wpc[g] = "start"
    /\ wctx' = [wctx EXCEPT ![g] = sctx]
    /\ wpc' = [wpc EXCEPT ![g] = "waiting"]
    /\ UNCHANGED <<fields, loops, handlers, tokens, wg, metrics, shutdowns, panicked>>

(* ... and s.listener once that context is done.                            *)
WatcherClose(g) ==
    /\ wpc[g] = "waiting"
    /\ Done(wctx[g])
    /\ open' = open \ {slistener}
    /\ panicked' = IF slistener = Nil THEN "nil listener" ELSE panicked
    /\ wpc' = [wpc EXCEPT ![g] = "done"]
    /\ wctx' = [wctx EXCEPT ![g] = Nil]
    /\ UNCHANGED <<sctx, slistener, cancelled, parentDone, loops, handlers,
                   tokens, wg, metrics, shutdowns>>

(* s.listener.Accept(): the field is read at every iteration.               *)
CallAccept(g) ==
    /\ lpc[g] = "loop"
    /\ lsock' = [lsock EXCEPT ![g] = slistener]
    /\ panicked' = IF slistener = Nil THEN "nil listener" ELSE panicked
    /\ LoopGoto(g, "accept")
    /\ UNCHANGED <<fields, watchers, handlers, tokens, wg, metrics, shutdowns>>

AcceptConn(g, c) ==
    /\ lpc[g] = "accept"
    /\ lsock[g] \in open
    /\ conn[c] = "new"
    /\ conn' = [conn EXCEPT ![c] = "accepted"]
    /\ by' = [by EXCEPT ![c] = g]
    /\ lsock' = [lsock EXCEPT ![g] = Nil]
    /\ LoopGoto(g, "got")
    /\ UNCHANGED <<fields, watchers, hctx, user, tokens, wg, metrics, shutdowns, panicked>>

(* Accept fails for ever on a closed listener, and at times on an open one. *)
AcceptError(g) ==
    /\ lpc[g] = "accept"
    /\ lsock' = [lsock EXCEPT ![g] = Nil]
    /\ LoopGoto(g, "err")
    /\ UNCHANGED <<fields, watchers, handlers, tokens, wg, metrics, shutdowns, panicked>>

(* The loop ends when the context that s.ctx holds now is done.             *)
HandleAcceptError(g) ==
    /\ lpc[g] = "err"
    /\ IF Done(sctx)
         THEN LoopGoto(g, "wait") /\ UNCHANGED connErrors
         ELSE LoopGoto(g, "loop") /\ AddError
    /\ UNCHANGED <<fields, lsock, watchers, handlers, tokens, wg, active, total,
                   authFailures, shutdowns, panicked>>

Holds(g, c) == conn[c] = "accepted" /\ by[c] = g

RefuseConn(g, c) ==
    /\ lpc[g] = "got" /\ Holds(g, c)
    /\ active >= MaxConnections
    /\ AddError
    /\ conn' = [conn EXCEPT ![c] = "refused"]
    /\ by' = [by EXCEPT ![c] = Nil]
    /\ LoopGoto(g, "loop")
    /\ UNCHANGED <<fields, lsock, watchers, hctx, user, tokens, wg, active,
                   total, authFailures, shutdowns, panicked>>

(* Mutation: an off-by-one in the comparison with the limit.                *)
CheckLimitInclusive(g) ==
    /\ lpc[g] = "got"
    /\ active <= MaxConnections
    /\ LoopGoto(g, "admit")
    /\ UNCHANGED <<fields, lsock, watchers, handlers, tokens, wg, metrics, shutdowns, panicked>>

CheckLimit(g) ==
    /\ lpc[g] = "got"
    /\ active < MaxConnections
    /\ LoopGoto(g, "admit")
    /\ UNCHANGED <<fields, lsock, watchers, handlers, tokens, wg, metrics, shutdowns, panicked>>

CountConn(g) ==
    /\ lpc[g] = "admit"
    /\ total' = total + 1
    /\ active' = active + 1
    /\ LoopGoto(g, "spawn")
    /\ UNCHANGED <<fields, lsock, watchers, handlers, tokens, wg, authFailures,
                   connErrors, shutdowns, panicked>>

SpawnHandler(g, c) ==
    /\ lpc[g] = "spawn" /\ Holds(g, c)
    /\ wg' = wg + 1
    /\ conn' = [conn EXCEPT ![c] = "spawned"]
    /\ by' = [by EXCEPT ![c] = Nil]
    /\ LoopGoto(g, "loop")
    /\ UNCHANGED <<fields, lsock, watchers, hctx, user, tokens, metrics, shutdowns, panicked>>

(* s.wg.Wait() returns at once when the counter is zero and blocks the       *)
(* goroutine otherwise.                                                     *)
LoopWait(g) ==
    /\ lpc[g] = "wait"
    /\ LoopGoto(g, IF wg = 0 THEN "returned" ELSE "blocked")
    /\ UNCHANGED <<fields, lsock, watchers, handlers, tokens, wg, metrics, shutdowns, panicked>>

(* A goroutine that the last Done has released reads the counter again, and  *)
(* panics when another accept loop has raised it meanwhile ("WaitGroup is    *)
(* reused before previous Wait has returned").                              *)
LoopReturn(g) ==
    /\ lpc[g] = "woken"
    /\ IF wg = 0
         THEN LoopGoto(g, "returned") /\ UNCHANGED panicked
         ELSE panicked' = "wait group" /\ UNCHANGED lpc
    /\ UNCHANGED <<fields, lsock, watchers, handlers, tokens, wg, metrics, shutdowns>>

----------------------------------------------------------------------------
(* handleConnection                                                         *)

Goto(c, pc) == conn' = [conn EXCEPT ![c] = pc]

(* The goroutine reads s.ctx when it is first scheduled.                    *)
HandlerStart(c) ==
    /\ conn[c] = "spawned"
    /\ hctx' = [hctx EXCEPT ![c] = sctx]
    /\ Goto(c, "negotiate")
    /\ UNCHANGED <<fields, loops, watchers, by, user, tokens, wg, metrics, shutdowns, panicked>>

(* The client sent its greeting, offering the password method or not.       *)
Negotiate(c) ==
    /\ conn[c] = "negotiate"
    /\ \E offersPassword \in BOOLEAN :
          Goto(c, CASE ~AuthRequired -> "request"
                    [] AuthRequired /\ offersPassword -> "auth"
                    [] OTHER -> "closing")
    /\ UNCHANGED <<fields, loops, watchers, by, hctx, user, tokens, wg, metrics, shutdowns, panicked>>

(* authenticatePassword with a credential that Validate accepts ...         *)
AuthSucceeds(c, u) ==
    /\ conn[c] = "auth"
    /\ u \in tokens
    /\ user' = [user EXCEPT ![c] = u]
    /\ Goto(c, "request")
    /\ UNCHANGED <<fields, loops, watchers, by, hctx, tokens, wg, metrics, shutdowns, panicked>>

(* Mutation: a rejected credential does not end the handler.                *)
AuthFailsOpen(c) ==
    /\ conn[c] = "auth"
    /\ AddAuthFailure
    /\ Goto(c, "request")
    /\ UNCHANGED <<fields, loops, watchers, by, hctx, user, tokens, wg, active,
                   total, connErrors, shutdowns, panicked>>

(* ... and with one it rejects: an unknown user or a wrong password.        *)
AuthFails(c) ==
    /\ conn[c] = "auth"
    /\ AddAuthFailure
    /\ Goto(c, "closing")
    /\ UNCHANGED <<fields, loops, watchers, by, hctx, user, tokens, wg, active,
                   total, connErrors, shutdowns, panicked>>

(* readRequest of a CONNECT request with a known address type.              *)
ReadRequest(c) ==
    /\ conn[c] = "request"
    /\ Goto(c, "dial")
    /\ UNCHANGED <<fields, loops, watchers, by, hctx, user, tokens, wg, metrics, shutdowns, panicked>>

(* Mutation: the error path lowers the metric that the defer lowers too.    *)
HandshakeErrorUncounts(c) ==
    /\ conn[c] \in Handshake
    /\ active' = active - 1
    /\ Goto(c, "closing")
    /\ UNCHANGED <<fields, loops, watchers, by, hctx, user, tokens, wg, total,
                   authFailures, connErrors, shutdowns, panicked>>

(* A read or a write on the client's connection fails, or what was read is  *)
(* malformed: the three handshake functions return an error.                *)
HandshakeError(c) ==
    /\ conn[c] \in Handshake
    /\ Goto(c, "closing")
    /\ UNCHANGED <<fields, loops, watchers, by, hctx, user, tokens, wg, metrics, shutdowns, panicked>>

(* Mutation: the target is dialed without the context.                      *)
DialOKWithoutContext(c) ==
    /\ conn[c] = "dial"
    /\ Goto(c, "relay")
    /\ UNCHANGED <<fields, loops, watchers, by, hctx, user, tokens, wg, metrics, shutdowns, panicked>>

(* DialContext never succeeds once its context is done.                     *)
DialOK(c) ==
    /\ conn[c] = "dial"
    /\ ~Done(hctx[c])
    /\ Goto(c, "relay")
    /\ UNCHANGED <<fields, loops, watchers, by, hctx, user, tokens, wg, metrics, shutdowns, panicked>>

DialFailed(c) ==
    /\ conn[c] = "dial"
    /\ AddError
    /\ Goto(c, "closing")
    /\ UNCHANGED <<fields, loops, watchers, by, hctx, user, tokens, wg, active,
                   total, authFailures, shutdowns, panicked>>

(* relay returns when one of its ends stops, or when the watchdog that waits *)
(* for its context has expired the deadlines of both sockets.               *)
RelayEnd(c) ==
    /\ conn[c] = "relay"
    /\ Goto(c, "closing")
    /\ UNCHANGED <<fields, loops, watchers, by, hctx, user, tokens, wg, metrics, shutdowns, panicked>>

(* Mutation: the watchdog is gone by the time the context is done.          *)
RelayUnwatched(c) ==
    /\ ~Done(hctx[c])
    /\ RelayEnd(c)

RelayCancelled(c) ==
    /\ Done(hctx[c])
    /\ RelayEnd(c)

(* One direction of the relay is inside the rate limiter's Wait, which takes *)
(* no context and sees no deadline ...                                      *)
LimiterBlocks(c) ==
    /\ conn[c] = "relay"
    /\ Goto(c, "limited")
    /\ UNCHANGED <<fields, loops, watchers, by, hctx, user, tokens, wg, metrics, shutdowns, panicked>>

(* ... until the bucket holds what it asks for: never, when that is more     *)
(* than a full bucket and nobody raises the rate.                           *)
LimiterGrants(c) ==
    /\ conn[c] = "limited"
    /\ Goto(c, "relay")
    /\ UNCHANGED <<fields, loops, watchers, by, hctx, user, tokens, wg, metrics, shutdowns, panicked>>

(* Mutation: the metric is not lowered ...                                  *)
HandlerCloseUncounted(c) ==
    /\ conn[c] = "closing"
    /\ Goto(c, "leaving")
    /\ UNCHANGED <<fields, loops, watchers, by, hctx, user, tokens, wg, metrics, shutdowns, panicked>>

(* ... or s.wg.Done() is missing.                                           *)
HandlerDoneUnsignalled(c) ==
    /\ conn[c] = "leaving"
    /\ Goto(c, "done")
    /\ UNCHANGED <<fields, loops, watchers, by, hctx, user, tokens, wg, metrics, shutdowns, panicked>>

(* The deferred calls, last one first: conn.Close with the metric, s.wg.    *)
HandlerClose(c) ==
    /\ conn[c] = "closing"
    /\ active' = active - 1
    /\ Goto(c, "leaving")
    /\ UNCHANGED <<fields, loops, watchers, by, hctx, user, tokens, wg, total,
                   authFailures, connErrors, shutdowns, panicked>>

(* The Done that takes the counter to zero releases all who wait for it.     *)
Woken(pc) == IF pc = "blocked" THEN "woken" ELSE pc
Release ==
    IF wg = 1
      THEN /\ lpc' = [g \in Calls |-> Woken(lpc[g])]
           /\ waiter' = [w \in Stops |-> Woken(waiter[w])]
      ELSE UNCHANGED <<lpc, waiter>>

HandlerDone(c) ==
    /\ conn[c] = "leaving"
    /\ wg' = wg - 1
    /\ Release
    /\ Goto(c, "done")
    /\ hctx' = [hctx EXCEPT ![c] = Nil]
    /\ user' = [user EXCEPT ![c] = NoUser]
    /\ UNCHANGED <<fields, lsock, watchers, by, tokens, metrics, spc, sdctx, panicked>>

----------------------------------------------------------------------------
(* Shutdown, the authenticator's table and the daemon's context             *)

ShutdownCancel(w) ==
    /\ spc[w] = "idle"
    /\ cancelled' = IF sctx = Nil THEN cancelled ELSE cancelled \cup {sctx}
    /\ sdctx' = [sdctx EXCEPT ![w] = sctx]
    /\ spc' = [spc EXCEPT ![w] = "waiting"]
    /\ waiter' = [waiter EXCEPT ![w] = "look"]
    /\ UNCHANGED <<sctx, slistener, parentDone, open, loops, watchers, handlers,
                   tokens, wg, metrics, panicked>>

(* The goroutine's Wait has returned: it closes done, and a Shutdown that is *)
(* still there returns nil.                                                 *)
WaitOver(w) ==
    /\ waiter' = [waiter EXCEPT ![w] = "gone"]
    /\ spc' = IF spc[w] = "waiting" THEN [spc EXCEPT ![w] = "drained"] ELSE spc

ShutdownWait(w) ==
    /\ waiter[w] = "look"
    /\ IF wg = 0
         THEN WaitOver(w)
         ELSE waiter' = [waiter EXCEPT ![w] = "blocked"] /\ UNCHANGED spc
    /\ UNCHANGED <<fields, loops, watchers, handlers, tokens, wg, metrics, sdctx, panicked>>

(* The accept loop, still running, may have raised the counter of a server   *)
(* that had drained (a released goroutine reads it again, as in LoopReturn). *)
ShutdownDrained(w) ==
    /\ waiter[w] = "woken"
    /\ IF wg = 0
         THEN WaitOver(w) /\ UNCHANGED panicked
         ELSE panicked' = "wait group" /\ UNCHANGED <<spc, waiter>>
    /\ UNCHANGED <<fields, loops, watchers, handlers, tokens, wg, metrics, sdctx>>

(* The caller's context is done first: the goroutine stays behind.          *)
ShutdownTimeout(w) ==
    /\ spc[w] = "waiting"
    /\ spc' = [spc EXCEPT ![w] = "err"]
    /\ UNCHANGED <<fields, loops, watchers, handlers, tokens, wg, metrics, sdctx,
                   waiter, panicked>>

AddToken(u) ==
    /\ tokens' = tokens \cup {u}
    /\ UNCHANGED <<fields, loops, watchers, handlers, wg, metrics, shutdowns, panicked>>

RemoveToken(u) ==
    /\ tokens' = tokens \ {u}
    /\ UNCHANGED <<fields, loops, watchers, handlers, wg, metrics, shutdowns, panicked>>

(* Daemon.Stop cancels the context the daemon passes to ListenAndServe.     *)
ParentCancel ==
    /\ parentDone' = TRUE
    /\ UNCHANGED <<sctx, slistener, cancelled, open, loops, watchers, handlers,
                   tokens, wg, metrics, shutdowns, panicked>>

----------------------------------------------------------------------------
LoopStep(g) ==
    \/ SetContext(g) \/ BindOK(g) \/ BindFailed(g) \/ CallAccept(g)
    \/ HandleAcceptError(g) \/ CheckLimit(g) \/ CountConn(g) \/ LoopWait(g) \/ LoopReturn(g)
    \/ \E c \in Conns : RefuseConn(g, c) \/ SpawnHandler(g, c)

WatcherStep(g) == WatcherStart(g) \/ WatcherClose(g)

WaiterStep(w) == ShutdownWait(w) \/ ShutdownDrained(w)

(* The steps of a handler that wait for nothing but the dialer's timeout.   *)
HandlerStep(c) ==
    \/ HandlerStart(c) \/ DialOK(c) \/ DialFailed(c) \/ RelayCancelled(c)
    \/ HandlerClose(c) \/ HandlerDone(c)

(* The steps that depend on the client, the target or the limiter.          *)
ClientStep(c) ==
    \/ Negotiate(c) \/ AuthFails(c) \/ ReadRequest(c) \/ HandshakeError(c) \/ RelayEnd(c)
    \/ LimiterBlocks(c) \/ LimiterGrants(c)
    \/ \E u \in Users : AuthSucceeds(c, u)

Next ==
    /\ Up
    /\ \/ \E g \in Calls : CallListenAndServe(g) \/ LoopStep(g) \/ WatcherStep(g) \/ AcceptError(g)
       \/ \E g \in Calls, c \in Conns : AcceptConn(g, c)
       \/ \E c \in Conns : HandlerStep(c) \/ ClientStep(c)
       \/ \E w \in Stops : ShutdownCancel(w) \/ WaiterStep(w) \/ ShutdownTimeout(w)
       \/ \E u \in Users : AddToken(u) \/ RemoveToken(u)
       \/ ParentCancel

Spec == Init /\ [][Next]_vars

(* The Go scheduler runs every goroutine that can run, a closed listener    *)
(* fails its Accept and a dialer gives up after DialTimeout.  Nothing is    *)
(* assumed of the clients, the targets, the limiter or the daemon's calls.  *)
Fairness ==
    /\ \A g \in Calls :
          /\ WF_vars(Up /\ LoopStep(g))
          /\ WF_vars(Up /\ WatcherStep(g))
          /\ WF_vars(Up /\ lsock[g] \notin open /\ AcceptError(g))
    /\ \A c \in Conns : WF_vars(Up /\ HandlerStep(c))
    /\ \A w \in Stops : WF_vars(Up /\ WaiterStep(w))

FairSpec == Spec /\ Fairness

----------------------------------------------------------------------------
(* The types of all the variables, the counters being any integers.        *)
StateTypes ==
    /\ sctx \in CallOrNil /\ slistener \in CallOrNil
    /\ cancelled \subseteq Calls /\ open \subseteq Calls /\ parentDone \in BOOLEAN
    /\ lpc \in [Calls -> LoopStates] /\ lsock \in [Calls -> CallOrNil]
    /\ wpc \in [Calls -> WatchStates] /\ wctx \in [Calls -> CallOrNil]
    /\ conn \in [Conns -> ConnStates] /\ by \in [Conns -> CallOrNil]
    /\ hctx \in [Conns -> CallOrNil] /\ user \in [Conns -> Users \cup {NoUser}]
    /\ tokens \subseteq Users
    /\ wg \in Int /\ active \in Int /\ total \in Int
    /\ authFailures \in 0 .. MaxErrors /\ connErrors \in 0 .. MaxErrors
    /\ spc \in [Stops -> ShutStates] /\ sdctx \in [Stops -> CallOrNil]
    /\ waiter \in [Stops -> WaitStates] /\ panicked \in Panics

(* Every variable keeps its type, and no interleaving of the accept loops    *)
(* and the handlers takes s.wg (which would panic) or a metric below zero.   *)
TypeOK == StateTypes /\ wg \in Nat /\ active \in Nat /\ total \in Nat

(* The counters never drift, whatever the interleaving of the accept loops   *)
(* and the handlers' deferred calls: ActiveConnections is the number of      *)
(* connections being served, s.wg the number of handlers a Shutdown has to   *)
(* wait for, and every connection ever counted is served or finished.        *)
CountersExact ==
    /\ active = Cardinality(Counted) + Cardinality(Spawning)
    /\ wg = Cardinality(Running)
    /\ total = active + Cardinality(Finished)

(* The limit of MaxConnections is checked and the counter raised in two      *)
(* steps of one accept loop.  With one loop the limit is exact; every loop   *)
(* of an earlier call that has not returned can exceed it by one.            *)
ConnectionLimit == active = 0 \/ active <= MaxConnections + Cardinality(Unreturned) - 1

(* When an authenticator is configured, a connection is relayed only after   *)
(* its client presented a credential that was in the token table.            *)
AuthBeforeRelay ==
    AuthRequired =>
        \A c \in Conns : conn[c] \in {"request", "dial", "relay", "limited"} => user[c] # NoUser

(* A Shutdown that returned nil left the server quiet: until ListenAndServe  *)
(* is called again no connection is relayed, although the accept loop may    *)
(* still be running and may still have started handlers after the wait.      *)
QuietAfterShutdown ==
    \A w \in Stops : spc[w] = "drained" /\ sdctx[w] # Nil /\ sdctx[w] = sctx =>
        \A c \in Conns : conn[c] \notin {"relay", "limited"}

(* No method is called on a nil listener: a Server that was shut down can be *)
(* started again, whether its next Listen succeeds or fails.                 *)
NoNilListener == panicked # "nil listener"

(* "Shutdown gracefully shuts down the proxy server" (socks5.go:261): the    *)
(* Wait it makes for the handlers does not bring the process down.  It does  *)
(* not hold: README section 4.                                               *)
ShutdownGraceful == panicked # "wait group"

(* Once its context is cancelled, a handler that has left the handshake is   *)
(* over in the end, even with a client and a target that do nothing: only    *)
(* the rate limiter's Wait can still hold it (RateLimiter shows when that    *)
(* never returns), or a Shutdown's Wait takes the process down.             *)
CancelledHandlerEnds ==
    \A c \in Conns :
        (conn[c] \in {"dial", "relay"} /\ Done(hctx[c])) ~> (conn[c] \in {"limited", "done"} \/ ~Up)

(* A Shutdown of a serving server returns in the end, or its Wait panics,    *)
(* unless some client stays silent in the handshake, whose reads have no     *)
(* deadline, or some relay is inside the rate limiter's Wait, which takes no *)
(* context.                                                                 *)
ShutdownReturns ==
    \A w \in Stops :
        (spc[w] = "waiting" /\ sdctx[w] # Nil) ~>
            (spc[w] # "waiting" \/ ~Up \/ \E c \in Conns : conn[c] \in Handshake \cup {"limited"})
=============================================================================

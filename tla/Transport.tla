------------------------------ MODULE Transport ------------------------------
(***************************************************************************)
(* The two listening transports of core/go/internal/transport: QUIC         *)
(* (quic.go) and SOCKS5 over TLS (socks5_tls.go).  Listen spawns an accept  *)
(* loop and a goroutine that closes the listener when the context ends.     *)
(* With QUIC the accept loop spawns one receiver per connection, with TLS   *)
(* it receives itself; a receiver compares ActiveStreams with the limit,    *)
(* raises it and sends the stream on the channel that Listen returned.      *)
(* The loop closes that channel when it ends.  Nothing in the program       *)
(* constructs a transport: the callers here are any that use the interface  *)
(* of interfaces.go and call Listen once.                                   *)
(***************************************************************************)
EXTENDS Integers, Sequences, FiniteSets

CONSTANTS
    QuicConns,   \* bound: QUIC connections, numbered as they are accepted
    Streams,     \* bound: streams, numbered as they are received or dialed
    MaxStreams,  \* cfg.MaxStreams, cfg.MaxConnections
    MaxErrors    \* bound: Accept errors that are no shutdown

(* The bounds are finite, and the limit admits a stream (by default, 256).  *)
TransportAssumption ==
    /\ QuicConns \subseteq Nat \ {0} /\ IsFiniteSet(QuicConns)
    /\ Streams \subseteq Nat \ {0} /\ IsFiniteSet(Streams)
    /\ MaxStreams \in Nat \ {0}

Loop == 0                              \* the accept loop
Receivers == QuicConns \cup {Loop}

VARIABLES
    tkind,      \* "none", "quic" or "tls"
    listening,  \* where Listen is: "no", "ctx", "up" or "failed"
    cancelled,  \* t.ctx is done
    lsock,      \* t.listener: "none", "open" or "closed"
    watcher,    \* the goroutine that waits for t.ctx
    recv,       \* program counter of each receiver
    held,       \* the stream it works on, or None
    squeue,     \* contents of t.streamCh
    sclosed,    \* t.streamCh is closed
    stream,     \* state of each stream
    dialed,     \* streams that Dial returned
    active,     \* stats.ActiveStreams, stats.ActiveConnections
    twg,        \* t.wg
    shut,       \* where Shutdown is
    accErrors,  \* errors of Accept so far
    panicked    \* the process has died

lvars == <<tkind, listening, cancelled, lsock, watcher>>
gvars == <<recv, held, twg, accErrors>>
svars == <<squeue, sclosed, stream, dialed, active>>
tvars == <<lvars, gvars, svars, shut, panicked>>

None == 0
NextStream == {s \in Streams : stream[s] = "fresh" /\ \A q \in Streams : stream[q] = "fresh" => s <= q}
NextConn == {c \in QuicConns : recv[c] = "off" /\ \A q \in QuicConns : recv[q] = "off" => c <= q}
Quic == tkind = "quic"

Init ==
    /\ tkind = "none" /\ listening = "no" /\ cancelled = FALSE /\ lsock = "none"
    /\ watcher = "off" /\ recv = [r \in Receivers |-> "off"]
    /\ held = [r \in Receivers |-> None] /\ squeue = <<>> /\ sclosed = FALSE
    /\ stream = [s \in Streams |-> "fresh"] /\ dialed = {} /\ active = 0 /\ twg = 0
    /\ shut = "idle" /\ accErrors = 0 /\ panicked = FALSE

New(k) ==
    /\ tkind = "none"
    /\ tkind' = k
    /\ UNCHANGED <<listening, cancelled, lsock, watcher, gvars, svars, shut, panicked>>

----------------------------------------------------------------------------
(* Listen.  t.ctx is set under t.mu, the rest runs without it.              *)

ListenContext ==
    /\ tkind # "none" /\ listening = "no" /\ shut \in {"idle", "drained"}
    /\ listening' = "ctx"
    /\ UNCHANGED <<tkind, cancelled, lsock, watcher, gvars, svars, shut, panicked>>

ListenUp ==
    /\ listening = "ctx"
    /\ listening' = "up" /\ lsock' = "open" /\ watcher' = "on"
    /\ recv' = [recv EXCEPT ![Loop] = "accept"]
    /\ twg' = IF Quic THEN twg + 1 ELSE twg
    /\ UNCHANGED <<tkind, cancelled, held, accErrors, svars, shut, panicked>>

ListenFailed ==
    /\ listening = "ctx"
    /\ listening' = "failed"
    /\ UNCHANGED <<tkind, cancelled, lsock, watcher, gvars, svars, shut, panicked>>

(* Mutation: the goroutine that waits for the context closes nothing.       *)
WatcherCloseNothing ==
    /\ watcher = "on" /\ cancelled
    /\ watcher' = "done"
    /\ UNCHANGED <<tkind, listening, cancelled, lsock, gvars, svars, shut, panicked>>

WatcherClose ==
    /\ watcher = "on" /\ cancelled
    /\ watcher' = "done" /\ lsock' = "closed"
    /\ UNCHANGED <<tkind, listening, cancelled, gvars, svars, shut, panicked>>

----------------------------------------------------------------------------
(* The accept loop                                                          *)

(* Mutation: t.wg is raised by the new goroutine, too late, or never.       *)
AcceptConnUncounted(c) ==
    /\ Quic /\ recv[Loop] = "accept" /\ c \in NextConn /\ lsock = "open"
    /\ recv' = [recv EXCEPT ![c] = "accept"]
    /\ UNCHANGED <<lvars, held, twg, accErrors, svars, shut, panicked>>

AcceptConn(c) ==
    /\ Quic /\ recv[Loop] = "accept" /\ c \in NextConn /\ lsock = "open"
    /\ recv' = [recv EXCEPT ![c] = "accept"]
    /\ twg' = twg + 1
    /\ UNCHANGED <<lvars, held, accErrors, svars, shut, panicked>>

(* Mutation: the loop ends at any error, without looking at the context.    *)
AcceptErrorEnds ==
    /\ recv[Loop] = "accept" /\ ~cancelled /\ accErrors < MaxErrors
    /\ accErrors' = accErrors + 1
    /\ recv' = [recv EXCEPT ![Loop] = "ended"] /\ sclosed' = TRUE
    /\ twg' = IF Quic THEN twg - 1 ELSE twg
    /\ UNCHANGED <<lvars, held, squeue, stream, dialed, active, shut, panicked>>

AcceptError ==
    /\ recv[Loop] = "accept" /\ ~cancelled /\ accErrors < MaxErrors
    /\ accErrors' = accErrors + 1
    /\ UNCHANGED <<lvars, recv, held, twg, svars, shut, panicked>>

(* Accept fails, with QUIC as soon as the context is done, and the loop     *)
(* returns: its deferred calls close the channel and lower t.wg.            *)
LoopEnds ==
    /\ recv[Loop] = "accept" /\ cancelled
    /\ Quic \/ lsock = "closed"
    /\ recv' = [recv EXCEPT ![Loop] = "ended"] /\ sclosed' = TRUE
    /\ twg' = IF Quic THEN twg - 1 ELSE twg
    /\ UNCHANGED <<lvars, held, accErrors, squeue, stream, dialed, active, shut, panicked>>

----------------------------------------------------------------------------
(* A receiver: a QUIC connection's goroutine, or the loop itself with TLS   *)

Receive(r, s) ==
    /\ recv[r] = "accept" /\ s \in NextStream
    /\ IF Quic THEN r # Loop ELSE lsock = "open"
    /\ recv' = [recv EXCEPT ![r] = "check"] /\ held' = [held EXCEPT ![r] = s]
    /\ stream' = [stream EXCEPT ![s] = "held"]
    /\ UNCHANGED <<lvars, twg, accErrors, squeue, sclosed, dialed, active, shut, panicked>>

(* AcceptStream fails: the connection is gone or the context is done.       *)
ConnEnds(c) ==
    /\ recv[c] = "accept"
    /\ recv' = [recv EXCEPT ![c] = "ended"] /\ twg' = twg - 1
    /\ UNCHANGED <<lvars, held, accErrors, svars, shut, panicked>>

(* Mutation: the limit itself still passes.                                 *)
CheckLimitInclusive(r) ==
    /\ recv[r] = "check"
    /\ IF active > MaxStreams
       THEN /\ stream' = [stream EXCEPT ![held[r]] = "refused"]
            /\ recv' = [recv EXCEPT ![r] = "accept"] /\ held' = [held EXCEPT ![r] = None]
       ELSE recv' = [recv EXCEPT ![r] = "count"] /\ UNCHANGED <<stream, held>>
    /\ UNCHANGED <<lvars, twg, accErrors, squeue, sclosed, dialed, active, shut, panicked>>

CheckLimit(r) ==
    /\ recv[r] = "check"
    /\ IF active >= MaxStreams
       THEN /\ stream' = [stream EXCEPT ![held[r]] = "refused"]
            /\ recv' = [recv EXCEPT ![r] = "accept"] /\ held' = [held EXCEPT ![r] = None]
       ELSE recv' = [recv EXCEPT ![r] = "count"] /\ UNCHANGED <<stream, held>>
    /\ UNCHANGED <<lvars, twg, accErrors, squeue, sclosed, dialed, active, shut, panicked>>

CountStream(r) ==
    /\ recv[r] = "count"
    /\ recv' = [recv EXCEPT ![r] = "send"]
    /\ stream' = [stream EXCEPT ![held[r]] = "counted"] /\ active' = active + 1
    /\ UNCHANGED <<lvars, held, twg, accErrors, squeue, sclosed, dialed, shut, panicked>>

(* The select: of the cases that are ready Go takes any, and a send on a    *)
(* closed channel is ready and panics.                                      *)
SendStream(r) ==
    /\ recv[r] = "send" /\ ~sclosed /\ Len(squeue) < MaxStreams
    /\ squeue' = Append(squeue, held[r])
    /\ stream' = [stream EXCEPT ![held[r]] = "queued"]
    /\ recv' = [recv EXCEPT ![r] = "accept"] /\ held' = [held EXCEPT ![r] = None]
    /\ UNCHANGED <<lvars, twg, accErrors, sclosed, dialed, active, shut, panicked>>

SendOnClosed(r) ==
    /\ recv[r] = "send" /\ sclosed
    /\ panicked' = TRUE
    /\ UNCHANGED <<lvars, gvars, svars, shut>>

SendCancelled(r) ==
    /\ recv[r] = "send" /\ cancelled
    /\ stream' = [stream EXCEPT ![held[r]] = "closed"] /\ active' = active - 1
    /\ recv' = [recv EXCEPT ![r] = "ended"] /\ held' = [held EXCEPT ![r] = None]
    /\ sclosed' = (sclosed \/ r = Loop)
    /\ twg' = IF Quic THEN twg - 1 ELSE twg
    /\ UNCHANGED <<lvars, accErrors, squeue, dialed, shut, panicked>>

----------------------------------------------------------------------------
(* The users of streams.  Dial raises the counter without comparing it.     *)

Dial(s) ==
    /\ tkind # "none" /\ s \in NextStream
    /\ stream' = [stream EXCEPT ![s] = "taken"]
    /\ dialed' = dialed \cup {s} /\ active' = active + 1
    /\ UNCHANGED <<lvars, gvars, squeue, sclosed, shut, panicked>>

Take ==
    /\ squeue # <<>>
    /\ stream' = [stream EXCEPT ![Head(squeue)] = "taken"] /\ squeue' = Tail(squeue)
    /\ UNCHANGED <<lvars, gvars, sclosed, dialed, active, shut, panicked>>

(* Mutation: trackedStream.Close runs onClose every time.                   *)
CloseStreamAlways(s) ==
    /\ stream[s] \in {"taken", "closed"} /\ active > 0
    /\ stream' = [stream EXCEPT ![s] = "closed"] /\ active' = active - 1
    /\ UNCHANGED <<lvars, gvars, squeue, sclosed, dialed, shut, panicked>>

(* Close of a trackedStream, any number of times.                           *)
CloseStream(s) ==
    /\ stream[s] \in {"taken", "closed"}
    /\ stream' = [stream EXCEPT ![s] = "closed"]
    /\ active' = IF stream[s] = "taken" THEN active - 1 ELSE active
    /\ UNCHANGED <<lvars, gvars, squeue, sclosed, dialed, shut, panicked>>

----------------------------------------------------------------------------
(* Shutdown holds t.mu until it returns.  With QUIC it waits for t.wg; "up" *)
(* and "early" tell whether Listen had returned when it was called.         *)

ShutdownCall ==
    /\ tkind # "none" /\ shut \in {"idle", "drained"}
    /\ cancelled' = (cancelled \/ listening # "no")
    /\ shut' = IF listening = "up" THEN "up" ELSE "early"
    /\ UNCHANGED <<tkind, listening, lsock, watcher, gvars, svars, panicked>>

ShutdownReturn ==
    /\ shut \in {"up", "early"}
    /\ Quic => twg = 0
    /\ shut' = IF shut = "up" THEN "drained" ELSE "idle"
    /\ lsock' = IF lsock = "open" THEN "closed" ELSE lsock
    /\ UNCHANGED <<tkind, listening, cancelled, watcher, gvars, svars, panicked>>

(* The caller's context, the parent of t.ctx, ends.                         *)
ParentCancel ==
    /\ listening # "no" /\ ~cancelled
    /\ cancelled' = TRUE
    /\ UNCHANGED <<tkind, listening, lsock, watcher, gvars, svars, shut, panicked>>

----------------------------------------------------------------------------
ListenStep == ListenUp \/ ListenFailed
ReceiverStep(r) ==
    CheckLimit(r) \/ CountStream(r) \/ SendStream(r) \/ SendOnClosed(r) \/ SendCancelled(r)

Next ==
    /\ ~panicked
    /\ \/ \E k \in {"quic", "tls"} : New(k)
       \/ ListenContext \/ ListenStep \/ WatcherClose \/ AcceptError \/ LoopEnds
       \/ \E c \in QuicConns : AcceptConn(c) \/ ConnEnds(c)
       \/ \E r \in Receivers : ReceiverStep(r) \/ \E s \in Streams : Receive(r, s)
       \/ \E s \in Streams : Dial(s) \/ CloseStream(s)
       \/ Take \/ ShutdownCall \/ ShutdownReturn \/ ParentCancel

Spec == Init /\ [][Next]_tvars

----------------------------------------------------------------------------
Open == {s \in Streams : stream[s] \in {"counted", "queued", "taken"}}

(* ActiveStreams is the number of streams handed out, waiting in the channel *)
(* or about to be sent, and not closed, however often they are closed and    *)
(* whichever receiver gives one up at the shutdown; and t.wg, which Shutdown *)
(* waits for, counts the QUIC goroutines that run.                           *)
StreamsCounted ==
    /\ active = Cardinality(Open)
    /\ twg = IF Quic THEN Cardinality({r \in Receivers : recv[r] \notin {"off", "ended"}}) ELSE 0

(* The accepted streams stay within MaxStreams with TLS; with QUIC, where    *)
(* every connection's goroutine may pass the comparison before the others    *)
(* count, they exceed it by less than the number of connections.             *)
StreamLimit ==
    Cardinality(Open \ dialed) <=
        MaxStreams + IF Quic THEN Cardinality({c \in QuicConns : recv[c] # "off"}) - 1 ELSE 0

(* When a QUIC Shutdown called after Listen has returned, no goroutine that  *)
(* accepts is left and the channel is closed: nothing is delivered later.    *)
ShutdownQuiet ==
    Quic /\ shut = "drained" =>
        /\ sclosed /\ lsock # "open"
        /\ \A r \in Receivers : recv[r] \in {"off", "ended"}

(* "Shutdown gracefully shuts down the QUIC transport" (quic.go:296): no     *)
(* receiver sends on the channel that the accept loop has closed, which      *)
(* kills the process.                                                        *)
ShutdownGraceful == ~panicked

(* That happens only with QUIC and only once the context has been cancelled, *)
(* by Shutdown or by its parent: an error of Accept alone never leads there. *)
PanicOnlyInShutdown == panicked => Quic /\ cancelled

Released ==
    /\ lsock # "open"
    /\ \A r \in Receivers : recv[r] \in {"off", "ended"}

(* A cancelled transport releases its listener and ends its goroutines, also *)
(* when Shutdown overlaps the Listen it stops.                               *)
ShutdownReleases == cancelled ~> (panicked \/ (Released /\ listening # "ctx"))
=============================================================================

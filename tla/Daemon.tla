------------------------------- MODULE Daemon -------------------------------
(***************************************************************************)
(* The control plane: the tunnel life cycle of                              *)
(* core/go/internal/services/daemon.go as the gRPC handlers, the SIGHUP     *)
(* handler, the goroutines StartTunnel spawns and main's shutdown drive it, *)
(* with the kill switch of core/go/internal/security/killswitch.go.         *)
(*                                                                          *)
(* A proxy.Server appears here by what the daemon relies on (ProxyServer    *)
(* has its details): Shutdown cancels the context that the last             *)
(* ListenAndServe created and waits for the handlers, and a listener whose  *)
(* context is done gets closed.  That Shutdown may panic in its wait group   *)
(* is ProxyServer's matter, and left out here.  A slot k of Slots is a      *)
(* goroutine of StartTunnel, its ListenAndServe and the context of that call.*)
(***************************************************************************)
EXTENDS Naturals, FiniteSets

CONSTANTS
    Clients,    \* concurrent gRPC callers
    NSlots,     \* bound on the StartTunnel goroutines alive together
    Prompt      \* within its 100 ms a goroutine has called Listen and, when
                \* that failed, queued at d.mu

ASSUME DaemonAssumption ==
    /\ NSlots \in Nat
    /\ Prompt \in BOOLEAN
    /\ {"restarter", "free"} \cap Clients = {}

Restarter == "restarter"           \* the goroutine of UpdateDaemonConfig
Threads == Clients \cup {Restarter}
Free == "free"
Slots == 1 .. NSlots
None == 0

(* SECUREMESH_PROXY_ADDR cannot change under a running process, so one      *)
(* reload at most replaces main's server 1 by a server 2, at a new address. *)
Servers == {1, 2}

Roles == {"unspecified", "master", "client"}
Requests == {"master", "client"}   \* "unspecified" does what "client" does
TunnelStates == {"stopped", "starting", "running", "degraded"}
ThreadStates == {"idle", "setrole", "start", "starting", "reply", "stop", "stopping",
                 "streaming"}
SlotStates == {"none", "spawned", "bind", "failed", "serving"}
HupStates == {"idle", "shutdown", "draining", "replace", "check", "done"}
MainStates == {"serving", "signalled", "draining", "stop", "proxystop", "mark",
               "disarm", "closing", "exited"}

VARIABLES
    mu,           \* d.mu: the thread that holds it, or Free
    tunnelState,  \* d.tunnelState
    role,         \* d.role
    server,       \* d.proxyServer
    privacyCfg,   \* d.privacyCfg is no longer the zero value
    inForce,      \* the servers' settings: the new ones, or those of NewServer
    armed,        \* killSwitch.state = KillSwitchEnabled
    pc,           \* program counter of each thread
    want,         \* the role its StartTunnel request asks for
    spc,          \* program counter of each slot's goroutine
    sserver,      \* the server it called ListenAndServe on, or None
    cancelled,    \* the slots whose context was cancelled
    sctx,         \* s.ctx and s.cancel of each server: a slot, or None
    behind,       \* the slot of the last start, None when it needed no proxy
    bindErr,      \* that start's bindErrCh holds an error
    held,         \* the servers with a handler that no Shutdown ends
    hpc,          \* program counter of the SIGHUP handler
    mpc           \* program counter of main

tunnel  == <<tunnelState, role, armed>>
conf    == <<server, privacyCfg, inForce>>
threads == <<pc, want>>
slots   == <<spc, sserver, cancelled, sctx>>
start   == <<behind, bindErr>>
vars == <<mu, tunnel, conf, threads, slots, start, held, hpc, mpc>>

Init ==
    /\ mu = Free
    /\ tunnelState = "stopped" /\ role = "unspecified" /\ armed = FALSE
    /\ server = 1 /\ privacyCfg = FALSE /\ inForce = [s \in Servers |-> FALSE]
    /\ pc = [t \in Threads |-> "idle"] /\ want = [t \in Threads |-> "unspecified"]
    /\ spc = [k \in Slots |-> "none"] /\ sserver = [k \in Slots |-> None]
    /\ cancelled = {} /\ sctx = [s \in Servers |-> None]
    /\ behind = None /\ bindErr = FALSE /\ held = {} /\ hpc = "idle" /\ mpc = "serving"

(* The signal context is the parent of the daemon's, and so of every slot's.*)
DaemonDone == mpc # "serving"
Done(k) == k \in cancelled \/ DaemonDone

FreeSlots == {k \in Slots : spc[k] = "none"}
Goto(t, l) == pc' = [pc EXCEPT ![t] = l]

(* Mutations: Shutdown without the test for a nil s.cancel, or without it.  *)
CancelUnchecked(s) == cancelled' = cancelled \cup {sctx[s]}
CancelNothing(s)   == UNCHANGED cancelled

(* Server.Shutdown: it cancels what s.cancel holds, if anything, ...        *)
Cancel(s) == cancelled' = cancelled \cup ({sctx[s]} \ {None})
(* ... and waits for the handlers.                                          *)
Drained(s) == s \notin held

(* KillSwitch.Enable fails, with its rules taken back, where the platform   *)
(* refuses one, which the daemon only logs; Disable never fails.            *)
Enable == armed' \in {armed, TRUE}
Disable == armed' = FALSE

----------------------------------------------------------------------------
(* The gRPC handlers, and the methods of Daemon they share with Restarter   *)

(* Requests are taken until main calls GracefulStop.                        *)
Accepting(c) == pc[c] = "idle" /\ mpc \in {"serving", "signalled"}

(* StartTunnel of a client, bounded so that every start finds a free slot.  *)
RpcStart(c, r) ==
    /\ Accepting(c)
    /\ Cardinality(FreeSlots) >= 2 + Cardinality({t \in Clients : pc[t] \in {"setrole", "start"}})
    /\ want' = [want EXCEPT ![c] = r]
    /\ Goto(c, "setrole")
    /\ UNCHANGED <<mu, tunnel, conf, slots, start, held, hpc, mpc>>

(* Its SetRole, a critical section of its own before the one of StartTunnel.*)
StartSetRole(c) ==
    /\ pc[c] = "setrole" /\ mu = Free
    /\ role' = want[c]
    /\ want' = [want EXCEPT ![c] = "unspecified"]
    /\ Goto(c, "start")
    /\ UNCHANGED <<mu, tunnelState, armed, conf, slots, start, held, hpc, mpc>>

(* Where a thread goes when StartTunnel returns: the handler still reads the *)
(* tunnel's state for its reply, under the lock; Restarter is finished.     *)
AfterStart(t) == IF t = Restarter THEN "idle" ELSE "reply"

(* Mutation: the early return of StartTunnel leaves d.mu locked.            *)
StartNoopLocked(t) ==
    /\ pc[t] = "start" /\ mu = Free
    /\ tunnelState = "running"
    /\ mu' = t
    /\ Goto(t, AfterStart(t))
    /\ UNCHANGED <<tunnel, conf, want, slots, start, held, hpc, mpc>>

(* StartTunnel of a running tunnel returns at once, whatever the role.      *)
StartNoop(t) ==
    /\ pc[t] = "start" /\ mu = Free
    /\ tunnelState = "running"
    /\ Goto(t, AfterStart(t))
    /\ UNCHANGED <<mu, tunnel, conf, want, slots, start, held, hpc, mpc>>

(* d.mu hands itself to a goroutine that has waited for it more than 1 ms,  *)
(* after one other section at most; and the failed start left the tunnel    *)
(* running, so that section was a StopTunnel if the tunnel is not running.  *)
FailuresReported == Prompt => \A k \in Slots : spc[k] # "failed"

(* Otherwise it marks the tunnel starting, spawns the goroutine when the    *)
(* node is a master, and goes on with the lock held.                        *)
StartLock(t) ==
    /\ pc[t] = "start" /\ mu = Free
    /\ tunnelState # "running"
    /\ FailuresReported
    /\ mu' = t
    /\ tunnelState' = "starting"
    /\ IF role = "master"
         THEN \E k \in FreeSlots :
                 /\ \A j \in FreeSlots : k <= j
                 /\ spc' = [spc EXCEPT ![k] = "spawned"]
                 /\ behind' = k
         ELSE behind' = None /\ UNCHANGED spc
    /\ bindErr' = FALSE
    /\ Goto(t, "starting")
    /\ UNCHANGED <<role, armed, conf, want, sserver, cancelled, sctx, held, hpc, mpc>>

(* The wait for the bind error ends with the error, and StartTunnel returns  *)
(* it; or with the 100 ms, and the kill switch is armed.                    *)
StartFinish(t) ==
    /\ pc[t] = "starting"
    /\ Prompt /\ behind # None => spc[behind] \notin {"spawned", "bind"}
    /\ IF bindErr
         THEN UNCHANGED <<armed, tunnelState>>
         ELSE Enable /\ tunnelState' = "running"
    /\ mu' = Free
    /\ Goto(t, IF bindErr THEN "idle" ELSE AfterStart(t))
    /\ UNCHANGED <<role, conf, want, slots, start, held, hpc, mpc>>

StartReply(c) ==
    /\ pc[c] = "reply" /\ mu = Free
    /\ Goto(c, "idle")
    /\ UNCHANGED <<mu, tunnel, conf, want, slots, start, held, hpc, mpc>>

RpcStop(c) ==
    /\ Accepting(c)
    /\ Goto(c, "stop")
    /\ UNCHANGED <<mu, tunnel, conf, want, slots, start, held, hpc, mpc>>

(* Mutation: StopTunnel without killSwitch.Disable().                       *)
StopLockArmed(t) ==
    /\ pc[t] = "stop" /\ mu = Free
    /\ mu' = t
    /\ Cancel(server)
    /\ Goto(t, "stopping")
    /\ UNCHANGED <<tunnel, conf, want, spc, sserver, sctx, start, held, hpc, mpc>>

(* StopTunnel disarms the kill switch and shuts the proxy down, with d.mu   *)
(* held while it waits for the handlers.                                    *)
StopLock(t) ==
    /\ pc[t] = "stop" /\ mu = Free
    /\ mu' = t
    /\ Disable
    /\ Cancel(server)
    /\ Goto(t, "stopping")
    /\ UNCHANGED <<tunnelState, role, conf, want, spc, sserver, sctx, start, held, hpc, mpc>>

(* The wait ends when the handlers are gone or when the request's context   *)
(* is done; Restarter, which goes on to StartTunnel, waits with no limit.   *)
StopDone(t) ==
    /\ pc[t] = "stopping"
    /\ Drained(server) \/ t # Restarter
    /\ tunnelState' = "stopped"
    /\ mu' = Free
    /\ Goto(t, IF t = Restarter THEN "start" ELSE "idle")
    /\ UNCHANGED <<role, armed, conf, want, slots, start, held, hpc, mpc>>

RpcSetRole(c, r) ==
    /\ Accepting(c) /\ mu = Free
    /\ role' = r
    /\ UNCHANGED <<mu, tunnelState, armed, conf, threads, slots, start, held, hpc, mpc>>

(* SetPrivacyConfig records the settings and pushes them to the proxy.      *)
RpcSetPrivacy(c) ==
    /\ Accepting(c) /\ mu = Free
    /\ privacyCfg' = TRUE
    /\ inForce' = [inForce EXCEPT ![server] = TRUE]
    /\ UNCHANGED <<mu, tunnel, server, threads, slots, start, held, hpc, mpc>>

(* StreamTrafficStats runs until its client leaves, or breaks.               *)
RpcStream(c) ==
    /\ Accepting(c)
    /\ Goto(c, "streaming")
    /\ UNCHANGED <<mu, tunnel, conf, want, slots, start, held, hpc, mpc>>

StreamEnd(c) ==
    /\ pc[c] = "streaming"
    /\ Goto(c, "idle")
    /\ UNCHANGED <<mu, tunnel, conf, want, slots, start, held, hpc, mpc>>

----------------------------------------------------------------------------
(* The goroutine of StartTunnel                                             *)

(* It reads d.proxyServer, without the lock, when it is first scheduled.    *)
SlotCall(k) ==
    /\ spc[k] = "spawned"
    /\ sserver' = [sserver EXCEPT ![k] = server]
    /\ sctx' = [sctx EXCEPT ![server] = k]
    /\ spc' = [spc EXCEPT ![k] = "bind"]
    /\ UNCHANGED <<mu, tunnel, conf, threads, cancelled, start, held, hpc, mpc>>

(* The address is free unless a listener of the same server has it.         *)
SlotBound(k) ==
    /\ spc[k] = "bind"
    /\ \A j \in Slots : sserver[j] = sserver[k] => spc[j] # "serving"
    /\ spc' = [spc EXCEPT ![k] = "serving"]
    /\ UNCHANGED <<mu, tunnel, conf, threads, sserver, cancelled, sctx, start, held, hpc, mpc>>

SlotBindFailed(k) ==
    /\ spc[k] = "bind"
    /\ spc' = [spc EXCEPT ![k] = "failed"]
    /\ UNCHANGED <<mu, tunnel, conf, threads, sserver, cancelled, sctx, start, held, hpc, mpc>>

(* The goroutine is over and its slot can be used again.                    *)
SlotFree(k) ==
    /\ spc' = [spc EXCEPT ![k] = "none"]
    /\ sserver' = [sserver EXCEPT ![k] = None]
    /\ sctx' = [s \in Servers |-> IF sctx[s] = k THEN None ELSE sctx[s]]
    /\ cancelled' = cancelled \ {k}

(* Mutation: the error is logged and the tunnel's state left as it is.      *)
SlotDegradeUnmarked(k) ==
    /\ spc[k] = "failed" /\ mu = Free
    /\ SlotFree(k)
    /\ UNCHANGED <<mu, tunnel, conf, threads, start, held, hpc, mpc>>

(* The error path: whatever state the tunnel is in by then is overwritten,  *)
(* and only then does the error go into the channel.                        *)
SlotDegrade(k) ==
    /\ spc[k] = "failed" /\ mu = Free
    /\ tunnelState' = "degraded"
    /\ bindErr' = (bindErr \/ k = behind)
    /\ SlotFree(k)
    /\ UNCHANGED <<mu, role, armed, conf, threads, behind, held, hpc, mpc>>

SlotEnd(k) ==
    /\ spc[k] = "serving" /\ Done(k)
    /\ SlotFree(k)
    /\ UNCHANGED <<mu, tunnel, conf, threads, start, held, hpc, mpc>>

(* A handler waits where no cancelled context reaches it, or goes on: in the *)
(* handshake for a client that stopped talking, or in the rate limiter's     *)
(* Wait for more than the limiter will ever grant.                          *)
HandlerHeld(s) ==
    /\ \E k \in Slots : spc[k] = "serving" /\ sserver[k] = s
    /\ held' = held \cup {s}
    /\ UNCHANGED <<mu, tunnel, conf, threads, slots, start, hpc, mpc>>

HandlerFreed(s) ==
    /\ s \in held
    /\ held' = held \ {s}
    /\ UNCHANGED <<mu, tunnel, conf, threads, slots, start, hpc, mpc>>

----------------------------------------------------------------------------
(* UpdateDaemonConfig, called by the SIGHUP handler with a new address      *)

HupGoto(l) == hpc' = l

HupUpdate ==
    /\ hpc = "idle" /\ mu = Free
    /\ HupGoto("shutdown")
    /\ UNCHANGED <<mu, tunnel, conf, threads, slots, start, held, mpc>>

HupShutdown ==
    /\ hpc = "shutdown"
    /\ Cancel(server)
    /\ HupGoto("draining")
    /\ UNCHANGED <<mu, tunnel, conf, threads, spc, sserver, sctx, start, held, mpc>>

HupDrained ==
    /\ hpc = "draining"
    /\ Drained(server)
    /\ HupGoto("replace")
    /\ UNCHANGED <<mu, tunnel, conf, threads, slots, start, held, mpc>>

(* The new server is made without the settings SetPrivacyConfig pushed.     *)
HupReplace ==
    /\ hpc = "replace" /\ mu = Free
    /\ server' = 2
    /\ inForce' = [inForce EXCEPT ![2] = FALSE]
    /\ HupGoto("check")
    /\ UNCHANGED <<mu, tunnel, privacyCfg, threads, slots, start, held, mpc>>

HupCheck ==
    /\ hpc = "check" /\ mu = Free
    /\ IF tunnelState = "running" THEN Goto(Restarter, "stop") ELSE UNCHANGED pc
    /\ HupGoto("done")
    /\ UNCHANGED <<mu, tunnel, conf, want, slots, start, held, mpc>>

----------------------------------------------------------------------------
(* main: a signal, then its deferred calls in reverse order                 *)

MainGoto(l) == mpc' = l

Signal ==
    /\ mpc = "serving"
    /\ MainGoto("signalled")
    /\ UNCHANGED <<mu, tunnel, conf, threads, slots, start, held, hpc>>

(* GracefulStop: no new request is taken, and the ones under way, streams    *)
(* among them, have to finish.                                              *)
GracefulStop ==
    /\ mpc = "signalled"
    /\ MainGoto("draining")
    /\ UNCHANGED <<mu, tunnel, conf, threads, slots, start, held, hpc>>

(* Mutation: Stop instead of GracefulStop, the requests under way go on.    *)
GrpcStoppedAtOnce ==
    /\ mpc = "draining"
    /\ MainGoto("stop")
    /\ UNCHANGED <<mu, tunnel, conf, threads, slots, start, held, hpc>>

GrpcStopped ==
    /\ mpc = "draining"
    /\ \A c \in Clients : pc[c] = "idle"
    /\ MainGoto("stop")
    /\ UNCHANGED <<mu, tunnel, conf, threads, slots, start, held, hpc>>

(* Mutation: Daemon.Stop does not unlock before it waits for the proxy.     *)
DaemonStopLocked ==
    /\ mpc = "stop" /\ mu = Free
    /\ mu' = "main"
    /\ Cancel(server)
    /\ MainGoto("proxystop")
    /\ UNCHANGED <<tunnel, conf, threads, spc, sserver, sctx, start, held, hpc>>

(* Daemon.Stop cancels and shuts the proxy down without the lock, for at    *)
(* most the 10 seconds main gives it, ...                                   *)
DaemonStop ==
    /\ mpc = "stop" /\ mu = Free
    /\ Cancel(server)
    /\ MainGoto("proxystop")
    /\ UNCHANGED <<mu, tunnel, conf, threads, spc, sserver, sctx, start, held, hpc>>

DaemonProxyStopped ==
    /\ mpc = "proxystop"
    /\ MainGoto("mark")
    /\ UNCHANGED <<mu, tunnel, conf, threads, slots, start, held, hpc>>

(* ... and takes it again to mark the tunnel stopped.                       *)
DaemonMark ==
    /\ mpc = "mark" /\ mu = Free
    /\ tunnelState' = "stopped"
    /\ MainGoto("disarm")
    /\ UNCHANGED <<mu, role, armed, conf, threads, slots, start, held, hpc>>

MainDisarm ==
    /\ mpc = "disarm"
    /\ Disable
    /\ MainGoto("closing")
    /\ UNCHANGED <<mu, tunnelState, role, conf, threads, slots, start, held, hpc>>

(* The store and the tracer are closed: the process ends with all threads.  *)
MainExit ==
    /\ mpc = "closing"
    /\ MainGoto("exited")
    /\ UNCHANGED <<mu, tunnel, conf, threads, slots, start, held, hpc>>

----------------------------------------------------------------------------
Live == mpc # "exited"

(* The steps of a thread that take d.mu, and those that give it back.       *)
Enter(t) == StartNoop(t) \/ StartLock(t) \/ StopLock(t)
Leave(t) == StartFinish(t) \/ StopDone(t)

HandlerStep(c) == StartSetRole(c) \/ StartReply(c)

SlotStep(k) ==
    SlotCall(k) \/ SlotBound(k) \/ SlotBindFailed(k) \/ SlotDegrade(k) \/ SlotEnd(k)

HupStep == HupShutdown \/ HupDrained \/ HupReplace \/ HupCheck

MainStep ==
    \/ GracefulStop \/ GrpcStopped \/ DaemonStop \/ DaemonProxyStopped
    \/ DaemonMark \/ MainDisarm \/ MainExit

Next ==
    /\ Live
    /\ \/ \E c \in Clients :
             \/ \E r \in Requests : RpcStart(c, r) \/ RpcSetRole(c, r)
             \/ RpcStop(c) \/ RpcSetPrivacy(c) \/ RpcStream(c) \/ StreamEnd(c)
             \/ HandlerStep(c)
       \/ \E t \in Threads : Enter(t) \/ Leave(t)
       \/ \E k \in Slots : SlotStep(k)
       \/ \E s \in Servers : HandlerHeld(s) \/ HandlerFreed(s)
       \/ HupUpdate \/ HupStep
       \/ Signal \/ MainStep

Spec == Init /\ [][Next]_vars

(* Goroutines that can run are run; d.mu, a Go mutex, starves none of those  *)
(* that wait for it, hence strong fairness for them; a Shutdown returns once *)
(* the handlers are gone.  Nothing is assumed of the requests, their         *)
(* deadlines and their streams, of the signals, of a reload, or of the       *)
(* clients and the rate limiter of the proxy.                                *)
Fairness ==
    /\ \A c \in Clients : SF_vars(Live /\ (Enter(c) \/ HandlerStep(c)))
    /\ \A t \in Threads : WF_vars(Live /\ Drained(server) /\ Leave(t))
    /\ \A k \in Slots :
          /\ WF_vars(Live /\ (SlotCall(k) \/ SlotBound(k) \/ SlotBindFailed(k)))
          /\ SF_vars(Live /\ SlotDegrade(k))
    /\ SF_vars(Live /\ MainStep)

FairSpec == Spec /\ Fairness

----------------------------------------------------------------------------
(* The types of the variables.                                              *)
TypeOK ==
    /\ mu \in Threads \cup {Free}
    /\ tunnelState \in TunnelStates /\ role \in Roles /\ armed \in BOOLEAN
    /\ server \in Servers /\ privacyCfg \in BOOLEAN /\ inForce \in [Servers -> BOOLEAN]
    /\ pc \in [Threads -> ThreadStates] /\ want \in [Threads -> Roles]
    /\ spc \in [Slots -> SlotStates] /\ sserver \in [Slots -> Servers \cup {None}]
    /\ cancelled \subseteq Slots /\ sctx \in [Servers -> Slots \cup {None}]
    /\ behind \in Slots \cup {None} /\ bindErr \in BOOLEAN /\ held \subseteq Servers
    /\ hpc \in HupStates /\ mpc \in MainStates

(* The network is locked down by the kill switch only while the daemon says  *)
(* that there is a tunnel: with nobody inside StartTunnel or StopTunnel, a   *)
(* stopped tunnel leaves the switch disarmed, whatever stops, failed binds   *)
(* and reloads came before; main's shutdown has not reached its Disable yet. *)
LockedOnlyWithTunnel ==
    mu = Free /\ armed => tunnelState \in {"running", "degraded"} \/ mpc = "disarm"

(* A master's tunnel that is reported running has a goroutine behind it that *)
(* listens, or is about to, or is about to report that it failed, and that   *)
(* nobody told to stop, as long as there is no reload and no shutdown.       *)
MasterServes ==
    mu = Free /\ tunnelState = "running" /\ behind # None /\ hpc = "idle" /\ ~DaemonDone =>
        spc[behind] # "none" /\ behind \notin cancelled

(* After StopTunnel nothing listens but what has been told to stop, as long  *)
(* as there is no reload (whose new server forgets the old one's listeners). *)
StoppedQuiet ==
    mu = Free /\ tunnelState = "stopped" /\ hpc = "idle" =>
        \A k \in Slots : spc[k] = "serving" => Done(k)

(* The process never ends with the network locked down, even when a request  *)
(* started the tunnel after the signal, as long as there is no reload.       *)
ExitUnlocked == mpc = "exited" /\ hpc = "idle" => ~armed

(* A StartTunnel request is answered in the end unless a handler of the      *)
(* proxy is held, by a client silent in its handshake or by the limiter: a   *)
(* StopTunnel waits for it with d.mu held.                                  *)
StartReturns ==
    \A c \in Clients :
        pc[c] \in {"setrole", "start", "starting", "reply"} ~>
            (pc[c] = "idle" \/ held # {} \/ mpc = "exited")

(* After a signal the process ends, with the same exception and another:     *)
(* GracefulStop waits for as long as some client streams the statistics.     *)
Streaming == \E c \in Clients : pc[c] = "streaming"
MainExits == mpc = "signalled" ~> (mpc = "exited" \/ held # {} \/ Streaming)

(* "Press Ctrl+C to stop the daemon" (main.go:208): the signal ends the      *)
(* process when nothing holds a handler of the proxy.  It does not hold:     *)
(* README section 4.                                                         *)
SignalEnds == mpc = "signalled" ~> (mpc = "exited" \/ held # {})

(* What SetPrivacyConfig recorded, and GetPrivacyConfig reports, is what the *)
(* proxy works with.                                                         *)
PrivacyInForce == mu = Free => inForce[server] = privacyCfg

(* When StartTunnel has waited for the bind error and goes on to arm the     *)
(* kill switch, the bind has not failed.                                     *)
RunningAfterBind ==
    [][\A t \in Threads :
          pc[t] = "starting" /\ tunnelState' = "running" /\ behind # None =>
              spc[behind] # "failed"]_vars
=============================================================================

---------------------------- MODULE DaemonProofs ----------------------------
(* Theorems about Daemon, for every set of clients and any number of         *)
(* StartTunnel goroutines.                                                    *)
EXTENDS Daemon, TLAPS

(* A new daemon is well typed.                                              *)
LEMMA InitTypes == Init => TypeOK
<1> SUFFICES ASSUME Init PROVE TypeOK
  OBVIOUS
<1>1. pc \in [Threads -> ThreadStates] /\ want \in [Threads -> Roles]
  BY DEF Init, ThreadStates, Roles
<1>2. /\ spc \in [Slots -> SlotStates] /\ sserver \in [Slots -> Servers \cup {None}]
      /\ cancelled \subseteq Slots /\ sctx \in [Servers -> Slots \cup {None}]
  BY DEF Init, SlotStates
<1>3. /\ mu \in Threads \cup {Free}
      /\ tunnelState \in TunnelStates /\ role \in Roles /\ armed \in BOOLEAN
      /\ server \in Servers /\ privacyCfg \in BOOLEAN /\ inForce \in [Servers -> BOOLEAN]
  BY DEF Init, TunnelStates, Roles, Servers
<1>4. /\ behind \in Slots \cup {None} /\ bindErr \in BOOLEAN /\ held \subseteq Servers
      /\ hpc \in HupStates /\ mpc \in MainStates
  BY DEF Init, HupStates, MainStates
<1> QED
  BY <1>1, <1>2, <1>3, <1>4 DEF TypeOK

(* Shutdown cancels a slot, if anything.                                    *)
LEMMA CancelType ==
    ASSUME TypeOK, NEW s \in Servers, Cancel(s) PROVE cancelled' \subseteq Slots
  BY DEF TypeOK, Cancel

(* A slot that is given back leaves the slots' variables well typed.        *)
LEMMA SlotFreeTypes ==
    ASSUME TypeOK, NEW k \in Slots, SlotFree(k)
    PROVE  /\ spc' \in [Slots -> SlotStates] /\ sserver' \in [Slots -> Servers \cup {None}]
           /\ cancelled' \subseteq Slots /\ sctx' \in [Servers -> Slots \cup {None}]
  BY DEF TypeOK, SlotFree, SlotStates

(* Every step keeps the types.                                              *)
LEMMA NextTypes == TypeOK /\ [Next]_vars => TypeOK'
<1> SUFFICES ASSUME TypeOK, [Next]_vars PROVE TypeOK'
  OBVIOUS
<1> USE DEF TypeOK, tunnel, conf, threads, slots, start
<1>1. ASSUME NEW c \in Clients, NEW r \in Requests, RpcStart(c, r) PROVE TypeOK'
  BY <1>1 DEF RpcStart, Accepting, Goto, ThreadStates, Roles, Requests, Threads
<1>2. ASSUME NEW c \in Clients, NEW r \in Requests, RpcSetRole(c, r) PROVE TypeOK'
  BY <1>2 DEF RpcSetRole, Accepting, Requests, Roles
<1>3. ASSUME NEW c \in Clients, RpcStop(c) PROVE TypeOK'
  BY <1>3 DEF RpcStop, Accepting, Goto, ThreadStates
<1>4. ASSUME NEW c \in Clients, RpcSetPrivacy(c) PROVE TypeOK'
  BY <1>4 DEF RpcSetPrivacy, Accepting
<1>5. ASSUME NEW c \in Clients, StartSetRole(c) PROVE TypeOK'
  BY <1>5 DEF StartSetRole, Goto, ThreadStates, Roles, Threads
<1>6. ASSUME NEW c \in Clients, StartReply(c) PROVE TypeOK'
  BY <1>6 DEF StartReply, Goto, ThreadStates
<1>7. ASSUME NEW t \in Threads, StartNoop(t) PROVE TypeOK'
  BY <1>7 DEF StartNoop, Goto, AfterStart, ThreadStates
<1>8. ASSUME NEW t \in Threads, StartLock(t) PROVE TypeOK'
  <2>1. spc' \in [Slots -> SlotStates] /\ behind' \in Slots \cup {None}
    BY <1>8 DEF StartLock, FreeSlots, SlotStates
  <2> QED
    BY <1>8, <2>1 DEF StartLock, Goto, ThreadStates, TunnelStates
<1>9. ASSUME NEW t \in Threads, StopLock(t) PROVE TypeOK'
  <2>1. cancelled' \subseteq Slots
    BY <1>9, CancelType DEF StopLock
  <2> QED
    BY <1>9, <2>1 DEF StopLock, Goto, Disable, ThreadStates
<1>10. ASSUME NEW t \in Threads, StartFinish(t) PROVE TypeOK'
  BY <1>10 DEF StartFinish, Goto, AfterStart, Enable, ThreadStates, TunnelStates
<1>11. ASSUME NEW t \in Threads, StopDone(t) PROVE TypeOK'
  BY <1>11 DEF StopDone, Goto, ThreadStates, TunnelStates
<1>12. ASSUME NEW k \in Slots, SlotCall(k) PROVE TypeOK'
  BY <1>12 DEF SlotCall, SlotStates
<1>13. ASSUME NEW k \in Slots, SlotBound(k) PROVE TypeOK'
  BY <1>13 DEF SlotBound, SlotStates
<1>14. ASSUME NEW k \in Slots, SlotBindFailed(k) PROVE TypeOK'
  BY <1>14 DEF SlotBindFailed, SlotStates
<1>15. ASSUME NEW k \in Slots, SlotDegrade(k) PROVE TypeOK'
  <2>1. SlotFree(k)
    BY <1>15 DEF SlotDegrade
  <2> QED
    BY <1>15, <2>1, SlotFreeTypes DEF SlotDegrade, TunnelStates
<1>16. ASSUME NEW k \in Slots, SlotEnd(k) PROVE TypeOK'
  <2>1. SlotFree(k)
    BY <1>16 DEF SlotEnd
  <2> QED
    BY <1>16, <2>1, SlotFreeTypes DEF SlotEnd
<1>17. ASSUME NEW s \in Servers, HandlerHeld(s) PROVE TypeOK'
  BY <1>17 DEF HandlerHeld
<1>18. ASSUME NEW s \in Servers, HandlerFreed(s) PROVE TypeOK'
  BY <1>18 DEF HandlerFreed
<1>19. CASE HupUpdate
  BY <1>19 DEF HupUpdate, HupGoto, HupStates
<1>20. CASE HupShutdown
  <2>1. cancelled' \subseteq Slots
    BY <1>20, CancelType DEF HupShutdown
  <2> QED
    BY <1>20, <2>1 DEF HupShutdown, HupGoto, HupStates
<1>21. CASE HupDrained
  BY <1>21 DEF HupDrained, HupGoto, HupStates
<1>22. CASE HupReplace
  BY <1>22 DEF HupReplace, HupGoto, HupStates, Servers
<1>23. CASE HupCheck
  BY <1>23 DEF HupCheck, HupGoto, Goto, ThreadStates, Threads, HupStates
<1>24. CASE Signal
  BY <1>24 DEF Signal, MainGoto, MainStates
<1>25. CASE GracefulStop
  BY <1>25 DEF GracefulStop, MainGoto, MainStates
<1>26. CASE GrpcStopped
  BY <1>26 DEF GrpcStopped, MainGoto, MainStates
<1>27. CASE DaemonStop
  <2>1. cancelled' \subseteq Slots
    BY <1>27, CancelType DEF DaemonStop
  <2> QED
    BY <1>27, <2>1 DEF DaemonStop, MainGoto, MainStates
<1>28. CASE DaemonProxyStopped
  BY <1>28 DEF DaemonProxyStopped, MainGoto, MainStates
<1>29. CASE DaemonMark
  BY <1>29 DEF DaemonMark, MainGoto, MainStates, TunnelStates
<1>30. CASE MainDisarm
  BY <1>30 DEF MainDisarm, MainGoto, Disable, MainStates
<1>31. CASE MainExit
  BY <1>31 DEF MainExit, MainGoto, MainStates
<1>32. CASE UNCHANGED vars
  BY <1>32 DEF vars
<1>33. ASSUME NEW c \in Clients, RpcStream(c) PROVE TypeOK'
  BY <1>33 DEF RpcStream, Accepting, Goto, ThreadStates
<1>34. ASSUME NEW c \in Clients, StreamEnd(c) PROVE TypeOK'
  BY <1>34 DEF StreamEnd, Goto, ThreadStates
<1> QED
  BY <1>1, <1>2, <1>3, <1>4, <1>5, <1>6, <1>7, <1>8, <1>9, <1>10, <1>11,
     <1>12, <1>13, <1>14, <1>15, <1>16, <1>17, <1>18, <1>19, <1>20, <1>21, <1>22,
     <1>23, <1>24, <1>25, <1>26, <1>27, <1>28, <1>29, <1>30, <1>31, <1>32,
     <1>33, <1>34
     DEF Next, Enter, Leave, HandlerStep, SlotStep, HupStep, MainStep

(* The daemon's variables keep their types, with any number of callers.      *)
THEOREM TypeCorrect == Spec => []TypeOK
  BY InitTypes, NextTypes, PTL DEF Spec

----------------------------------------------------------------------------
(* The lock and the kill switch.  LockedOnlyWithTunnel speaks of the moments *)
(* at which d.mu is free; to be inductive it needs what holds inside the     *)
(* critical sections: who is inside one, that StopTunnel runs disarmed, and  *)
(* that StartTunnel never sees the bind error.                               *)

(* d.mu is held by the thread that waits in StartTunnel or in StopTunnel.   *)
LockHeld == \A t \in Threads : pc[t] \in {"starting", "stopping"} <=> mu = t

SwitchHeld ==
    /\ mu = Free => tunnelState # "starting"
    /\ \A t \in Threads : pc[t] = "starting" => ~bindErr
    /\ \A t \in Threads : pc[t] = "stopping" => ~armed

LockInv == TypeOK /\ LockHeld /\ SwitchHeld /\ LockedOnlyWithTunnel

(* No thread is called "free".                                              *)
LEMMA FreeIsNoThread == Free \notin Threads /\ Restarter \notin Clients
  BY DaemonAssumption DEF Free, Threads, Restarter

LEMMA InitLock == Init => LockInv
  BY InitTypes, FreeIsNoThread DEF Init, LockInv, LockHeld, SwitchHeld, LockedOnlyWithTunnel

(* Every step leaves d.mu with the thread inside the critical section.      *)
LEMMA NextLockHeld == TypeOK /\ LockHeld /\ [Next]_vars => LockHeld'
<1> SUFFICES ASSUME TypeOK, LockHeld, [Next]_vars PROVE LockHeld'
  OBVIOUS
<1> USE FreeIsNoThread DEF TypeOK, LockHeld, tunnel, conf, threads, slots, start
<1>1. ASSUME NEW c \in Clients, NEW r \in Requests, RpcStart(c, r) PROVE LockHeld'
  BY <1>1 DEF RpcStart, Accepting, Goto, Threads
<1>2. ASSUME NEW c \in Clients, NEW r \in Requests, RpcSetRole(c, r) PROVE LockHeld'
  BY <1>2 DEF RpcSetRole, Accepting, Requests
<1>3. ASSUME NEW c \in Clients, RpcStop(c) PROVE LockHeld'
  BY <1>3 DEF RpcStop, Accepting, Goto, Threads
<1>4. ASSUME NEW c \in Clients, RpcSetPrivacy(c) PROVE LockHeld'
  BY <1>4 DEF RpcSetPrivacy, Accepting
<1>5. ASSUME NEW c \in Clients, StartSetRole(c) PROVE LockHeld'
  BY <1>5 DEF StartSetRole, Goto, Threads
<1>6. ASSUME NEW c \in Clients, StartReply(c) PROVE LockHeld'
  BY <1>6 DEF StartReply, Goto, Threads
<1>7. ASSUME NEW t \in Threads, StartNoop(t) PROVE LockHeld'
  BY <1>7 DEF StartNoop, Goto, AfterStart
<1>8. ASSUME NEW t \in Threads, StartLock(t) PROVE LockHeld'
  BY <1>8 DEF StartLock, Goto, FreeSlots, FailuresReported
<1>9. ASSUME NEW t \in Threads, StopLock(t) PROVE LockHeld'
  BY <1>9 DEF StopLock, Goto, Cancel, Disable
<1>10. ASSUME NEW t \in Threads, StartFinish(t) PROVE LockHeld'
  BY <1>10 DEF StartFinish, Goto, AfterStart, Enable
<1>11. ASSUME NEW t \in Threads, StopDone(t) PROVE LockHeld'
  BY <1>11 DEF StopDone, Goto
<1>12. ASSUME NEW k \in Slots, SlotCall(k) PROVE LockHeld'
  BY <1>12 DEF SlotCall
<1>13. ASSUME NEW k \in Slots, SlotBound(k) PROVE LockHeld'
  BY <1>13 DEF SlotBound
<1>14. ASSUME NEW k \in Slots, SlotBindFailed(k) PROVE LockHeld'
  BY <1>14 DEF SlotBindFailed
<1>15. ASSUME NEW k \in Slots, SlotDegrade(k) PROVE LockHeld'
  BY <1>15 DEF SlotDegrade, SlotFree
<1>16. ASSUME NEW k \in Slots, SlotEnd(k) PROVE LockHeld'
  BY <1>16 DEF SlotEnd, SlotFree, Done, DaemonDone
<1>17. ASSUME NEW s \in Servers, HandlerHeld(s) PROVE LockHeld'
  BY <1>17 DEF HandlerHeld
<1>18. ASSUME NEW s \in Servers, HandlerFreed(s) PROVE LockHeld'
  BY <1>18 DEF HandlerFreed
<1>19. CASE HupUpdate
  BY <1>19 DEF HupUpdate, HupGoto
<1>20. CASE HupShutdown
  BY <1>20 DEF HupShutdown, HupGoto, Cancel
<1>21. CASE HupDrained
  BY <1>21 DEF HupDrained, HupGoto
<1>22. CASE HupReplace
  BY <1>22 DEF HupReplace, HupGoto
<1>23. CASE HupCheck
  <2>1. Restarter \in Threads /\ mu = Free
    BY <1>23 DEF HupCheck, Threads
  <2> QED
    BY <1>23, <2>1 DEF HupCheck, Goto
<1>24. CASE Signal
  BY <1>24 DEF Signal, MainGoto
<1>25. CASE GracefulStop
  BY <1>25 DEF GracefulStop, MainGoto
<1>26. CASE GrpcStopped
  BY <1>26 DEF GrpcStopped, MainGoto
<1>27. CASE DaemonStop
  BY <1>27 DEF DaemonStop, MainGoto, Cancel
<1>28. CASE DaemonProxyStopped
  BY <1>28 DEF DaemonProxyStopped, MainGoto
<1>29. CASE DaemonMark
  BY <1>29 DEF DaemonMark, MainGoto
<1>30. CASE MainDisarm
  BY <1>30 DEF MainDisarm, MainGoto, Disable
<1>31. CASE MainExit
  BY <1>31 DEF MainExit, MainGoto
<1>32. CASE UNCHANGED vars
  BY <1>32 DEF vars
<1>33. ASSUME NEW c \in Clients, RpcStream(c) PROVE LockHeld'
  BY <1>33 DEF RpcStream, Accepting, Goto, Threads
<1>34. ASSUME NEW c \in Clients, StreamEnd(c) PROVE LockHeld'
  BY <1>34 DEF StreamEnd, Goto, Threads
<1> QED
  BY <1>1, <1>2, <1>3, <1>4, <1>5, <1>6, <1>7, <1>8, <1>9, <1>10, <1>11,
     <1>12, <1>13, <1>14, <1>15, <1>16, <1>17, <1>18, <1>19, <1>20, <1>21, <1>22,
     <1>23, <1>24, <1>25, <1>26, <1>27, <1>28, <1>29, <1>30, <1>31, <1>32,
     <1>33, <1>34
     DEF Next, Enter, Leave, HandlerStep, SlotStep, HupStep, MainStep

(* Every step keeps the kill switch in step with the critical sections.     *)
LEMMA NextSwitch == LockInv /\ [Next]_vars => SwitchHeld' /\ LockedOnlyWithTunnel'
<1> SUFFICES ASSUME LockInv, [Next]_vars PROVE SwitchHeld' /\ LockedOnlyWithTunnel'
  OBVIOUS
<1> USE FreeIsNoThread
    DEF LockInv, TypeOK, LockHeld, SwitchHeld, LockedOnlyWithTunnel,
        tunnel, conf, threads, slots, start
<1>1. ASSUME NEW c \in Clients, NEW r \in Requests, RpcStart(c, r)
      PROVE  SwitchHeld' /\ LockedOnlyWithTunnel'
  BY <1>1 DEF RpcStart, Accepting, Goto, Threads
<1>2. ASSUME NEW c \in Clients, NEW r \in Requests, RpcSetRole(c, r)
      PROVE  SwitchHeld' /\ LockedOnlyWithTunnel'
  BY <1>2 DEF RpcSetRole, Accepting, Requests
<1>3. ASSUME NEW c \in Clients, RpcStop(c) PROVE SwitchHeld' /\ LockedOnlyWithTunnel'
  BY <1>3 DEF RpcStop, Accepting, Goto, Threads
<1>4. ASSUME NEW c \in Clients, RpcSetPrivacy(c) PROVE SwitchHeld' /\ LockedOnlyWithTunnel'
  BY <1>4 DEF RpcSetPrivacy, Accepting
<1>5. ASSUME NEW c \in Clients, StartSetRole(c) PROVE SwitchHeld' /\ LockedOnlyWithTunnel'
  BY <1>5 DEF StartSetRole, Goto, Threads
<1>6. ASSUME NEW c \in Clients, StartReply(c) PROVE SwitchHeld' /\ LockedOnlyWithTunnel'
  BY <1>6 DEF StartReply, Goto, Threads
<1>7. ASSUME NEW t \in Threads, StartNoop(t) PROVE SwitchHeld' /\ LockedOnlyWithTunnel'
  BY <1>7 DEF StartNoop, Goto, AfterStart
<1>8. ASSUME NEW t \in Threads, StartLock(t) PROVE SwitchHeld' /\ LockedOnlyWithTunnel'
  BY <1>8 DEF StartLock, Goto, FreeSlots, FailuresReported
<1>9. ASSUME NEW t \in Threads, StopLock(t) PROVE SwitchHeld' /\ LockedOnlyWithTunnel'
  BY <1>9 DEF StopLock, Goto, Cancel, Disable
<1>10. ASSUME NEW t \in Threads, StartFinish(t) PROVE SwitchHeld' /\ LockedOnlyWithTunnel'
  BY <1>10 DEF StartFinish, Goto, AfterStart, Enable
<1>11. ASSUME NEW t \in Threads, StopDone(t) PROVE SwitchHeld' /\ LockedOnlyWithTunnel'
  BY <1>11 DEF StopDone, Goto
<1>12. ASSUME NEW k \in Slots, SlotCall(k) PROVE SwitchHeld' /\ LockedOnlyWithTunnel'
  BY <1>12 DEF SlotCall
<1>13. ASSUME NEW k \in Slots, SlotBound(k) PROVE SwitchHeld' /\ LockedOnlyWithTunnel'
  BY <1>13 DEF SlotBound
<1>14. ASSUME NEW k \in Slots, SlotBindFailed(k) PROVE SwitchHeld' /\ LockedOnlyWithTunnel'
  BY <1>14 DEF SlotBindFailed
<1>15. ASSUME NEW k \in Slots, SlotDegrade(k) PROVE SwitchHeld' /\ LockedOnlyWithTunnel'
  BY <1>15 DEF SlotDegrade, SlotFree
<1>16. ASSUME NEW k \in Slots, SlotEnd(k) PROVE SwitchHeld' /\ LockedOnlyWithTunnel'
  BY <1>16 DEF SlotEnd, SlotFree, Done, DaemonDone
<1>17. ASSUME NEW s \in Servers, HandlerHeld(s) PROVE SwitchHeld' /\ LockedOnlyWithTunnel'
  BY <1>17 DEF HandlerHeld
<1>18. ASSUME NEW s \in Servers, HandlerFreed(s) PROVE SwitchHeld' /\ LockedOnlyWithTunnel'
  BY <1>18 DEF HandlerFreed
<1>19. CASE HupUpdate
  BY <1>19 DEF HupUpdate, HupGoto
<1>20. CASE HupShutdown
  BY <1>20 DEF HupShutdown, HupGoto, Cancel
<1>21. CASE HupDrained
  BY <1>21 DEF HupDrained, HupGoto
<1>22. CASE HupReplace
  BY <1>22 DEF HupReplace, HupGoto
<1>23. CASE HupCheck
  <2>1. Restarter \in Threads /\ mu = Free
    BY <1>23 DEF HupCheck, Threads
  <2> QED
    BY <1>23, <2>1 DEF HupCheck, Goto
<1>24. CASE Signal
  BY <1>24 DEF Signal, MainGoto
<1>25. CASE GracefulStop
  BY <1>25 DEF GracefulStop, MainGoto
<1>26. CASE GrpcStopped
  BY <1>26 DEF GrpcStopped, MainGoto
<1>27. CASE DaemonStop
  BY <1>27 DEF DaemonStop, MainGoto, Cancel
<1>28. CASE DaemonProxyStopped
  BY <1>28 DEF DaemonProxyStopped, MainGoto
<1>29. CASE DaemonMark
  BY <1>29 DEF DaemonMark, MainGoto
<1>30. CASE MainDisarm
  BY <1>30 DEF MainDisarm, MainGoto, Disable
<1>31. CASE MainExit
  BY <1>31 DEF MainExit, MainGoto
<1>32. CASE UNCHANGED vars
  BY <1>32 DEF vars
<1>33. ASSUME NEW c \in Clients, RpcStream(c) PROVE SwitchHeld' /\ LockedOnlyWithTunnel'
  BY <1>33 DEF RpcStream, Accepting, Goto, Threads
<1>34. ASSUME NEW c \in Clients, StreamEnd(c) PROVE SwitchHeld' /\ LockedOnlyWithTunnel'
  BY <1>34 DEF StreamEnd, Goto, Threads
<1> QED
  BY <1>1, <1>2, <1>3, <1>4, <1>5, <1>6, <1>7, <1>8, <1>9, <1>10, <1>11,
     <1>12, <1>13, <1>14, <1>15, <1>16, <1>17, <1>18, <1>19, <1>20, <1>21, <1>22,
     <1>23, <1>24, <1>25, <1>26, <1>27, <1>28, <1>29, <1>30, <1>31, <1>32,
     <1>33, <1>34
     DEF Next, Enter, Leave, HandlerStep, SlotStep, HupStep, MainStep

LEMMA NextLock == LockInv /\ [Next]_vars => LockInv'
  BY NextTypes, NextLockHeld, NextSwitch DEF LockInv

(* The kill switch locks the network down only while there is a tunnel,      *)
(* whatever stops, starts, failed binds and reloads race.                    *)
THEOREM LockCorrect == Spec => []LockedOnlyWithTunnel
<1>1. LockInv => LockedOnlyWithTunnel
  BY DEF LockInv
<1> QED
  BY InitLock, NextLock, <1>1, PTL DEF Spec

LEMMA LockInvariant == Spec => []LockInv
  BY InitLock, NextLock, PTL DEF Spec

----------------------------------------------------------------------------
(* The proxy behind the tunnel, before a reload: there is one server, and    *)
(* the goroutine of UpdateDaemonConfig has not been spawned.                 *)

(* The slot has called ListenAndServe.                                      *)
Called(k) == spc[k] \in {"bind", "failed", "serving"}

(* Only a context that ListenAndServe created is held or cancelled.         *)
Contexts ==
    /\ \A k \in cancelled : Called(k)
    /\ \A s \in Servers : sctx[s] # None => Called(sctx[s])

NoReload == hpc = "idle" => server = 1 /\ pc[Restarter] = "idle"

(* The goroutine of the last start, from its spawning until the tunnel is   *)
(* stopped or degraded.                                                     *)
BehindServes ==
    hpc = "idle" /\ ~DaemonDone /\ behind # None
    /\ ((mu = Free /\ tunnelState = "running") \/ \E t \in Threads : pc[t] = "starting")
        => spc[behind] # "none" /\ behind \notin cancelled

ServeInv == LockInv /\ Contexts /\ NoReload /\ BehindServes

LEMMA NoneIsNoSlot == None \notin Slots
  BY DaemonAssumption DEF None, Slots

LEMMA InitServe == Init => ServeInv
  BY InitLock DEF Init, ServeInv, Contexts, NoReload, BehindServes, Threads, Servers

(* Every step keeps s.ctx and s.cancel with calls that have begun.          *)
LEMMA NextContexts == TypeOK /\ Contexts /\ [Next]_vars => Contexts'
<1> SUFFICES ASSUME TypeOK, Contexts, [Next]_vars PROVE Contexts'
  OBVIOUS
<1> USE NoneIsNoSlot DEF TypeOK, Contexts, Called, tunnel, conf, threads, slots, start
<1>1. ASSUME NEW c \in Clients, NEW r \in Requests, RpcStart(c, r) PROVE Contexts'
  BY <1>1 DEF RpcStart, Accepting, Goto
<1>2. ASSUME NEW c \in Clients, NEW r \in Requests, RpcSetRole(c, r) PROVE Contexts'
  BY <1>2 DEF RpcSetRole, Accepting, Requests
<1>3. ASSUME NEW c \in Clients, RpcStop(c) PROVE Contexts'
  BY <1>3 DEF RpcStop, Accepting, Goto
<1>4. ASSUME NEW c \in Clients, RpcSetPrivacy(c) PROVE Contexts'
  BY <1>4 DEF RpcSetPrivacy, Accepting
<1>5. ASSUME NEW c \in Clients, StartSetRole(c) PROVE Contexts'
  BY <1>5 DEF StartSetRole, Goto
<1>6. ASSUME NEW c \in Clients, StartReply(c) PROVE Contexts'
  BY <1>6 DEF StartReply, Goto
<1>7. ASSUME NEW t \in Threads, StartNoop(t) PROVE Contexts'
  BY <1>7 DEF StartNoop, Goto, AfterStart
<1>8. ASSUME NEW t \in Threads, StartLock(t) PROVE Contexts'
  BY <1>8 DEF StartLock, Goto, FreeSlots, FailuresReported
<1>9. ASSUME NEW t \in Threads, StopLock(t) PROVE Contexts'
  BY <1>9 DEF StopLock, Goto, Cancel, Disable
<1>10. ASSUME NEW t \in Threads, StartFinish(t) PROVE Contexts'
  BY <1>10 DEF StartFinish, Goto, AfterStart, Enable
<1>11. ASSUME NEW t \in Threads, StopDone(t) PROVE Contexts'
  BY <1>11 DEF StopDone, Goto
<1>12. ASSUME NEW k \in Slots, SlotCall(k) PROVE Contexts'
  BY <1>12 DEF SlotCall
<1>13. ASSUME NEW k \in Slots, SlotBound(k) PROVE Contexts'
  BY <1>13 DEF SlotBound
<1>14. ASSUME NEW k \in Slots, SlotBindFailed(k) PROVE Contexts'
  BY <1>14 DEF SlotBindFailed
<1>15. ASSUME NEW k \in Slots, SlotDegrade(k) PROVE Contexts'
  BY <1>15 DEF SlotDegrade, SlotFree
<1>16. ASSUME NEW k \in Slots, SlotEnd(k) PROVE Contexts'
  BY <1>16 DEF SlotEnd, SlotFree, Done, DaemonDone
<1>17. ASSUME NEW s \in Servers, HandlerHeld(s) PROVE Contexts'
  BY <1>17 DEF HandlerHeld
<1>18. ASSUME NEW s \in Servers, HandlerFreed(s) PROVE Contexts'
  BY <1>18 DEF HandlerFreed
<1>19. CASE HupUpdate
  BY <1>19 DEF HupUpdate, HupGoto
<1>20. CASE HupShutdown
  BY <1>20 DEF HupShutdown, HupGoto, Cancel
<1>21. CASE HupDrained
  BY <1>21 DEF HupDrained, HupGoto
<1>22. CASE HupReplace
  BY <1>22 DEF HupReplace, HupGoto
<1>23. CASE HupCheck
  BY <1>23 DEF HupCheck, HupGoto, Goto
<1>24. CASE Signal
  BY <1>24 DEF Signal, MainGoto
<1>25. CASE GracefulStop
  BY <1>25 DEF GracefulStop, MainGoto
<1>26. CASE GrpcStopped
  BY <1>26 DEF GrpcStopped, MainGoto
<1>27. CASE DaemonStop
  BY <1>27 DEF DaemonStop, MainGoto, Cancel
<1>28. CASE DaemonProxyStopped
  BY <1>28 DEF DaemonProxyStopped, MainGoto
<1>29. CASE DaemonMark
  BY <1>29 DEF DaemonMark, MainGoto
<1>30. CASE MainDisarm
  BY <1>30 DEF MainDisarm, MainGoto, Disable
<1>31. CASE MainExit
  BY <1>31 DEF MainExit, MainGoto
<1>32. CASE UNCHANGED vars
  BY <1>32 DEF vars
<1>33. ASSUME NEW c \in Clients, RpcStream(c) PROVE Contexts'
  BY <1>33 DEF RpcStream, Accepting, Goto
<1>34. ASSUME NEW c \in Clients, StreamEnd(c) PROVE Contexts'
  BY <1>34 DEF StreamEnd, Goto
<1> QED
  BY <1>1, <1>2, <1>3, <1>4, <1>5, <1>6, <1>7, <1>8, <1>9, <1>10, <1>11,
     <1>12, <1>13, <1>14, <1>15, <1>16, <1>17, <1>18, <1>19, <1>20, <1>21, <1>22,
     <1>23, <1>24, <1>25, <1>26, <1>27, <1>28, <1>29, <1>30, <1>31, <1>32,
     <1>33, <1>34
     DEF Next, Enter, Leave, HandlerStep, SlotStep, HupStep, MainStep

(* UpdateDaemonConfig alone replaces the server and spawns Restarter.       *)
LEMMA NextNoReload == TypeOK /\ NoReload /\ [Next]_vars => NoReload'
<1> SUFFICES ASSUME TypeOK, NoReload, [Next]_vars PROVE NoReload'
  OBVIOUS
<1>0. Restarter \in Threads
  BY DEF Threads
<1> USE <1>0, FreeIsNoThread DEF TypeOK, NoReload, tunnel, conf, threads, slots, start
<1>1. ASSUME NEW c \in Clients, NEW r \in Requests, RpcStart(c, r) PROVE NoReload'
  BY <1>1 DEF RpcStart, Accepting, Goto
<1>2. ASSUME NEW c \in Clients, NEW r \in Requests, RpcSetRole(c, r) PROVE NoReload'
  BY <1>2 DEF RpcSetRole, Accepting, Requests
<1>3. ASSUME NEW c \in Clients, RpcStop(c) PROVE NoReload'
  BY <1>3 DEF RpcStop, Accepting, Goto
<1>4. ASSUME NEW c \in Clients, RpcSetPrivacy(c) PROVE NoReload'
  BY <1>4 DEF RpcSetPrivacy, Accepting
<1>5. ASSUME NEW c \in Clients, StartSetRole(c) PROVE NoReload'
  BY <1>5 DEF StartSetRole, Goto
<1>6. ASSUME NEW c \in Clients, StartReply(c) PROVE NoReload'
  BY <1>6 DEF StartReply, Goto
<1>7. ASSUME NEW t \in Threads, StartNoop(t) PROVE NoReload'
  BY <1>7 DEF StartNoop, Goto, AfterStart
<1>8. ASSUME NEW t \in Threads, StartLock(t) PROVE NoReload'
  BY <1>8 DEF StartLock, Goto, FreeSlots, FailuresReported
<1>9. ASSUME NEW t \in Threads, StopLock(t) PROVE NoReload'
  BY <1>9 DEF StopLock, Goto, Cancel, Disable
<1>10. ASSUME NEW t \in Threads, StartFinish(t) PROVE NoReload'
  BY <1>10 DEF StartFinish, Goto, AfterStart, Enable
<1>11. ASSUME NEW t \in Threads, StopDone(t) PROVE NoReload'
  BY <1>11 DEF StopDone, Goto
<1>12. ASSUME NEW k \in Slots, SlotCall(k) PROVE NoReload'
  BY <1>12 DEF SlotCall
<1>13. ASSUME NEW k \in Slots, SlotBound(k) PROVE NoReload'
  BY <1>13 DEF SlotBound
<1>14. ASSUME NEW k \in Slots, SlotBindFailed(k) PROVE NoReload'
  BY <1>14 DEF SlotBindFailed
<1>15. ASSUME NEW k \in Slots, SlotDegrade(k) PROVE NoReload'
  BY <1>15 DEF SlotDegrade, SlotFree
<1>16. ASSUME NEW k \in Slots, SlotEnd(k) PROVE NoReload'
  BY <1>16 DEF SlotEnd, SlotFree, Done, DaemonDone
<1>17. ASSUME NEW s \in Servers, HandlerHeld(s) PROVE NoReload'
  BY <1>17 DEF HandlerHeld
<1>18. ASSUME NEW s \in Servers, HandlerFreed(s) PROVE NoReload'
  BY <1>18 DEF HandlerFreed
<1>19. CASE HupUpdate
  BY <1>19 DEF HupUpdate, HupGoto
<1>20. CASE HupShutdown
  BY <1>20 DEF HupShutdown, HupGoto, Cancel
<1>21. CASE HupDrained
  BY <1>21 DEF HupDrained, HupGoto
<1>22. CASE HupReplace
  BY <1>22 DEF HupReplace, HupGoto
<1>23. CASE HupCheck
  BY <1>23 DEF HupCheck, HupGoto, Goto
<1>24. CASE Signal
  BY <1>24 DEF Signal, MainGoto
<1>25. CASE GracefulStop
  BY <1>25 DEF GracefulStop, MainGoto
<1>26. CASE GrpcStopped
  BY <1>26 DEF GrpcStopped, MainGoto
<1>27. CASE DaemonStop
  BY <1>27 DEF DaemonStop, MainGoto, Cancel
<1>28. CASE DaemonProxyStopped
  BY <1>28 DEF DaemonProxyStopped, MainGoto
<1>29. CASE DaemonMark
  BY <1>29 DEF DaemonMark, MainGoto
<1>30. CASE MainDisarm
  BY <1>30 DEF MainDisarm, MainGoto, Disable
<1>31. CASE MainExit
  BY <1>31 DEF MainExit, MainGoto
<1>32. CASE UNCHANGED vars
  BY <1>32 DEF vars
<1>33. ASSUME NEW c \in Clients, RpcStream(c) PROVE NoReload'
  BY <1>33 DEF RpcStream, Accepting, Goto
<1>34. ASSUME NEW c \in Clients, StreamEnd(c) PROVE NoReload'
  BY <1>34 DEF StreamEnd, Goto
<1> QED
  BY <1>1, <1>2, <1>3, <1>4, <1>5, <1>6, <1>7, <1>8, <1>9, <1>10, <1>11,
     <1>12, <1>13, <1>14, <1>15, <1>16, <1>17, <1>18, <1>19, <1>20, <1>21, <1>22,
     <1>23, <1>24, <1>25, <1>26, <1>27, <1>28, <1>29, <1>30, <1>31, <1>32,
     <1>33, <1>34
     DEF Next, Enter, Leave, HandlerStep, SlotStep, HupStep, MainStep

(* Nothing but StopTunnel stops the goroutine behind a running tunnel.      *)
LEMMA NextBehind == ServeInv /\ [Next]_vars => BehindServes'
<1> SUFFICES ASSUME ServeInv, [Next]_vars PROVE BehindServes'
  OBVIOUS
<1>0. Restarter \in Threads /\ Clients \subseteq Threads
  BY DEF Threads
<1> USE <1>0, FreeIsNoThread, NoneIsNoSlot
    DEF ServeInv, LockInv, TypeOK, LockHeld, SwitchHeld, Contexts, Called, NoReload,
        BehindServes, DaemonDone, tunnel, conf, threads, slots, start
<1>1. ASSUME NEW c \in Clients, NEW r \in Requests, RpcStart(c, r) PROVE BehindServes'
  BY <1>1 DEF RpcStart, Accepting, Goto
<1>2. ASSUME NEW c \in Clients, NEW r \in Requests, RpcSetRole(c, r) PROVE BehindServes'
  BY <1>2 DEF RpcSetRole, Accepting, Requests
<1>3. ASSUME NEW c \in Clients, RpcStop(c) PROVE BehindServes'
  BY <1>3 DEF RpcStop, Accepting, Goto
<1>4. ASSUME NEW c \in Clients, RpcSetPrivacy(c) PROVE BehindServes'
  BY <1>4 DEF RpcSetPrivacy, Accepting
<1>5. ASSUME NEW c \in Clients, StartSetRole(c) PROVE BehindServes'
  BY <1>5 DEF StartSetRole, Goto
<1>6. ASSUME NEW c \in Clients, StartReply(c) PROVE BehindServes'
  BY <1>6 DEF StartReply, Goto
<1>7. ASSUME NEW t \in Threads, StartNoop(t) PROVE BehindServes'
  BY <1>7 DEF StartNoop, Goto, AfterStart
<1>8. ASSUME NEW t \in Threads, StartLock(t) PROVE BehindServes'
  BY <1>8 DEF StartLock, Goto, FreeSlots, FailuresReported
<1>9. ASSUME NEW t \in Threads, StopLock(t) PROVE BehindServes'
  BY <1>9 DEF StopLock, Goto, Cancel, Disable
<1>10. ASSUME NEW t \in Threads, StartFinish(t) PROVE BehindServes'
  BY <1>10 DEF StartFinish, Goto, AfterStart, Enable
<1>11. ASSUME NEW t \in Threads, StopDone(t) PROVE BehindServes'
  BY <1>11 DEF StopDone, Goto
<1>12. ASSUME NEW k \in Slots, SlotCall(k) PROVE BehindServes'
  BY <1>12 DEF SlotCall
<1>13. ASSUME NEW k \in Slots, SlotBound(k) PROVE BehindServes'
  BY <1>13 DEF SlotBound
<1>14. ASSUME NEW k \in Slots, SlotBindFailed(k) PROVE BehindServes'
  BY <1>14 DEF SlotBindFailed
<1>15. ASSUME NEW k \in Slots, SlotDegrade(k) PROVE BehindServes'
  BY <1>15 DEF SlotDegrade, SlotFree
<1>16. ASSUME NEW k \in Slots, SlotEnd(k) PROVE BehindServes'
  BY <1>16 DEF SlotEnd, SlotFree, Done, DaemonDone
<1>17. ASSUME NEW s \in Servers, HandlerHeld(s) PROVE BehindServes'
  BY <1>17 DEF HandlerHeld
<1>18. ASSUME NEW s \in Servers, HandlerFreed(s) PROVE BehindServes'
  BY <1>18 DEF HandlerFreed
<1>19. CASE HupUpdate
  BY <1>19 DEF HupUpdate, HupGoto
<1>20. CASE HupShutdown
  BY <1>20 DEF HupShutdown, HupGoto, Cancel
<1>21. CASE HupDrained
  BY <1>21 DEF HupDrained, HupGoto
<1>22. CASE HupReplace
  BY <1>22 DEF HupReplace, HupGoto
<1>23. CASE HupCheck
  BY <1>23 DEF HupCheck, HupGoto, Goto
<1>24. CASE Signal
  BY <1>24 DEF Signal, MainGoto
<1>25. CASE GracefulStop
  BY <1>25 DEF GracefulStop, MainGoto
<1>26. CASE GrpcStopped
  BY <1>26 DEF GrpcStopped, MainGoto
<1>27. CASE DaemonStop
  BY <1>27 DEF DaemonStop, MainGoto, Cancel
<1>28. CASE DaemonProxyStopped
  BY <1>28 DEF DaemonProxyStopped, MainGoto
<1>29. CASE DaemonMark
  BY <1>29 DEF DaemonMark, MainGoto
<1>30. CASE MainDisarm
  BY <1>30 DEF MainDisarm, MainGoto, Disable
<1>31. CASE MainExit
  BY <1>31 DEF MainExit, MainGoto
<1>32. CASE UNCHANGED vars
  BY <1>32 DEF vars
<1>33. ASSUME NEW c \in Clients, RpcStream(c) PROVE BehindServes'
  BY <1>33 DEF RpcStream, Accepting, Goto
<1>34. ASSUME NEW c \in Clients, StreamEnd(c) PROVE BehindServes'
  BY <1>34 DEF StreamEnd, Goto
<1> QED
  BY <1>1, <1>2, <1>3, <1>4, <1>5, <1>6, <1>7, <1>8, <1>9, <1>10, <1>11,
     <1>12, <1>13, <1>14, <1>15, <1>16, <1>17, <1>18, <1>19, <1>20, <1>21, <1>22,
     <1>23, <1>24, <1>25, <1>26, <1>27, <1>28, <1>29, <1>30, <1>31, <1>32,
     <1>33, <1>34
     DEF Next, Enter, Leave, HandlerStep, SlotStep, HupStep, MainStep

LEMMA NextServe == ServeInv /\ [Next]_vars => ServeInv'
  BY NextLock, NextContexts, NextNoReload, NextBehind DEF ServeInv, LockInv

(* A master's running tunnel has a goroutine behind it that nobody told to   *)
(* stop, however late that goroutine is scheduled.                           *)
THEOREM MasterCorrect == Spec => []MasterServes
<1>1. ServeInv => MasterServes
  BY DEF ServeInv, BehindServes, MasterServes
<1> QED
  BY InitServe, NextServe, <1>1, PTL DEF Spec

----------------------------------------------------------------------------
(* What listens after StopTunnel.  The bound of 100 ms that Prompt states is *)
(* needed: a goroutine first scheduled after the stop would listen.          *)

(* Every serving slot has been told to stop.                                *)
Silenced == \A k \in Slots : spc[k] = "serving" => k \in cancelled

(* A slot nobody told to stop is the one of the last start, and s.cancel of  *)
(* the server reaches it as soon as it has called ListenAndServe.            *)
LastOnly ==
    \A k \in Slots : spc[k] # "none" /\ k \notin cancelled =>
        k = behind /\ (spc[k] = "spawned" \/ sctx[1] = k)

(* A slot binds while its StartTunnel waits, with no failure unreported.    *)
Binding ==
    \A k \in Slots : spc[k] \in {"spawned", "bind"} =>
        /\ k = behind
        /\ \E t \in Threads : pc[t] = "starting"
        /\ \A j \in Slots : spc[j] # "failed"

FailedQuiet == (\E k \in Slots : spc[k] = "failed") => Silenced

NotRunningQuiet ==
    (mu = Free /\ tunnelState # "running") \/ (\E t \in Threads : pc[t] = "stopping") =>
        Silenced

QuietParts == LastOnly /\ Binding /\ FailedQuiet /\ NotRunningQuiet

QuietInv == ServeInv /\ (hpc = "idle" /\ ~DaemonDone => QuietParts)

LEMMA InitQuiet == Init => QuietInv
<1> SUFFICES ASSUME Init PROVE QuietInv
  OBVIOUS
<1>1. \A k \in Slots : spc[k] = "none"
  BY DEF Init
<1> QED
  BY <1>1, InitServe
     DEF QuietInv, QuietParts, LastOnly, Binding, FailedQuiet, NotRunningQuiet, Silenced

(* With prompt goroutines every step before a reload or a shutdown keeps     *)
(* what may listen.                                                          *)
LEMMA NextQuiet ==
    ASSUME Prompt PROVE QuietInv /\ [Next]_vars => QuietInv'
<1> SUFFICES ASSUME QuietInv, [Next]_vars, hpc' = "idle", ~DaemonDone' PROVE QuietParts'
  BY NextServe DEF QuietInv
<1>0. Restarter \in Threads /\ Clients \subseteq Threads
  BY DEF Threads
<1> USE <1>0, FreeIsNoThread, NoneIsNoSlot
    DEF QuietInv, QuietParts, LastOnly, Binding, FailedQuiet, NotRunningQuiet, Silenced,
        ServeInv, LockInv, TypeOK, LockHeld, SwitchHeld, Contexts, Called, NoReload,
        BehindServes, DaemonDone, tunnel, conf, threads, slots, start
<1>1. ASSUME NEW c \in Clients, NEW r \in Requests, RpcStart(c, r) PROVE QuietParts'
  BY <1>1 DEF RpcStart, Accepting, Goto
<1>2. ASSUME NEW c \in Clients, NEW r \in Requests, RpcSetRole(c, r) PROVE QuietParts'
  BY <1>2 DEF RpcSetRole, Accepting, Requests
<1>3. ASSUME NEW c \in Clients, RpcStop(c) PROVE QuietParts'
  BY <1>3 DEF RpcStop, Accepting, Goto
<1>4. ASSUME NEW c \in Clients, RpcSetPrivacy(c) PROVE QuietParts'
  BY <1>4 DEF RpcSetPrivacy, Accepting
<1>5. ASSUME NEW c \in Clients, StartSetRole(c) PROVE QuietParts'
  BY <1>5 DEF StartSetRole, Goto
<1>6. ASSUME NEW c \in Clients, StartReply(c) PROVE QuietParts'
  BY <1>6 DEF StartReply, Goto
<1>7. ASSUME NEW t \in Threads, StartNoop(t) PROVE QuietParts'
  BY <1>7 DEF StartNoop, Goto, AfterStart
<1>8. ASSUME NEW t \in Threads, StartLock(t) PROVE QuietParts'
  BY <1>8 DEF StartLock, Goto, FreeSlots, FailuresReported
<1>9. ASSUME NEW t \in Threads, StopLock(t) PROVE QuietParts'
  BY <1>9 DEF StopLock, Goto, Cancel, Disable
<1>10. ASSUME NEW t \in Threads, StartFinish(t) PROVE QuietParts'
  <2>1. hpc = "idle" /\ ~DaemonDone /\ ~bindErr /\ tunnelState' = "running"
    BY <1>10 DEF StartFinish
  <2>2. UNCHANGED <<spc, cancelled, sctx, behind>>
    BY <1>10 DEF StartFinish
  <2>3. \A k \in Slots : spc[k] \notin {"spawned", "bind"}
    BY <1>10, <2>1 DEF StartFinish
  <2>4. \A u \in Threads : pc'[u] # "stopping"
    BY <1>10 DEF StartFinish, Goto, AfterStart
  <2> QED
    BY <2>1, <2>2, <2>3, <2>4
<1>11. ASSUME NEW t \in Threads, StopDone(t) PROVE QuietParts'
  BY <1>11 DEF StopDone, Goto
<1>12. ASSUME NEW k \in Slots, SlotCall(k) PROVE QuietParts'
  BY <1>12 DEF SlotCall
<1>13. ASSUME NEW k \in Slots, SlotBound(k) PROVE QuietParts'
  BY <1>13 DEF SlotBound
<1>14. ASSUME NEW k \in Slots, SlotBindFailed(k) PROVE QuietParts'
  BY <1>14 DEF SlotBindFailed
<1>15. ASSUME NEW k \in Slots, SlotDegrade(k) PROVE QuietParts'
  BY <1>15 DEF SlotDegrade, SlotFree
<1>16. ASSUME NEW k \in Slots, SlotEnd(k) PROVE QuietParts'
  BY <1>16 DEF SlotEnd, SlotFree, Done, DaemonDone
<1>17. ASSUME NEW s \in Servers, HandlerHeld(s) PROVE QuietParts'
  BY <1>17 DEF HandlerHeld
<1>18. ASSUME NEW s \in Servers, HandlerFreed(s) PROVE QuietParts'
  BY <1>18 DEF HandlerFreed
<1>19. CASE HupUpdate
  BY <1>19 DEF HupUpdate, HupGoto
<1>20. CASE HupShutdown
  BY <1>20 DEF HupShutdown, HupGoto, Cancel
<1>21. CASE HupDrained
  BY <1>21 DEF HupDrained, HupGoto
<1>22. CASE HupReplace
  BY <1>22 DEF HupReplace, HupGoto
<1>23. CASE HupCheck
  BY <1>23 DEF HupCheck, HupGoto, Goto
<1>24. CASE Signal
  BY <1>24 DEF Signal, MainGoto
<1>25. CASE GracefulStop
  BY <1>25 DEF GracefulStop, MainGoto
<1>26. CASE GrpcStopped
  BY <1>26 DEF GrpcStopped, MainGoto
<1>27. CASE DaemonStop
  BY <1>27 DEF DaemonStop, MainGoto, Cancel
<1>28. CASE DaemonProxyStopped
  BY <1>28 DEF DaemonProxyStopped, MainGoto
<1>29. CASE DaemonMark
  BY <1>29 DEF DaemonMark, MainGoto
<1>30. CASE MainDisarm
  BY <1>30 DEF MainDisarm, MainGoto, Disable
<1>31. CASE MainExit
  BY <1>31 DEF MainExit, MainGoto
<1>32. CASE UNCHANGED vars
  BY <1>32 DEF vars
<1>33. ASSUME NEW c \in Clients, RpcStream(c) PROVE QuietParts'
  BY <1>33 DEF RpcStream, Accepting, Goto
<1>34. ASSUME NEW c \in Clients, StreamEnd(c) PROVE QuietParts'
  BY <1>34 DEF StreamEnd, Goto
<1> QED
  BY <1>1, <1>2, <1>3, <1>4, <1>5, <1>6, <1>7, <1>8, <1>9, <1>10, <1>11,
     <1>12, <1>13, <1>14, <1>15, <1>16, <1>17, <1>18, <1>19, <1>20, <1>21, <1>22,
     <1>23, <1>24, <1>25, <1>26, <1>27, <1>28, <1>29, <1>30, <1>31, <1>32,
     <1>33, <1>34
     DEF Next, Enter, Leave, HandlerStep, SlotStep, HupStep, MainStep

(* Where a goroutine has bound, or queued at d.mu, within the 100 ms of      *)
(* StartTunnel, a stopped tunnel has no listener that was not told to stop.  *)
THEOREM StoppedCorrect == Prompt => (Spec => []StoppedQuiet)
<1> SUFFICES ASSUME Prompt PROVE Spec => []StoppedQuiet
  OBVIOUS
<1>1. QuietInv /\ [Next]_vars => QuietInv'
  BY NextQuiet
<1>2. QuietInv => StoppedQuiet
  BY DEF QuietInv, QuietParts, NotRunningQuiet, Silenced, StoppedQuiet, Done
<1> QED
  BY InitQuiet, <1>1, <1>2, PTL DEF Spec

----------------------------------------------------------------------------
(* The shutdown of the process                                              *)

(* GracefulStop has let the requests finish, ...                            *)
RequestsDone ==
    hpc = "idle" /\ mpc \notin {"serving", "signalled", "draining"} =>
        \A c \in Clients : pc[c] = "idle"

(* ... and no other thread starts a tunnel before a reload, so what main      *)
(* disarms stays disarmed.                                                    *)
StaysDisarmed == hpc = "idle" /\ mpc \in {"closing", "exited"} => ~armed

ExitInv == TypeOK /\ NoReload /\ RequestsDone /\ StaysDisarmed

LEMMA InitExit == Init => ExitInv
  BY InitTypes DEF Init, ExitInv, NoReload, RequestsDone, StaysDisarmed, Threads

LEMMA NextExit == ExitInv /\ [Next]_vars => ExitInv'
<1> SUFFICES ASSUME ExitInv, [Next]_vars PROVE RequestsDone' /\ StaysDisarmed'
  BY NextTypes, NextNoReload DEF ExitInv
<1> USE FreeIsNoThread
    DEF ExitInv, TypeOK, NoReload, RequestsDone, StaysDisarmed, Threads,
        tunnel, conf, threads, slots, start
<1>1. ASSUME NEW c \in Clients, NEW r \in Requests, RpcStart(c, r)
      PROVE  RequestsDone' /\ StaysDisarmed'
  BY <1>1 DEF RpcStart, Accepting, Goto
<1>2. ASSUME NEW c \in Clients, NEW r \in Requests, RpcSetRole(c, r)
      PROVE  RequestsDone' /\ StaysDisarmed'
  BY <1>2 DEF RpcSetRole, Accepting, Requests
<1>3. ASSUME NEW c \in Clients, RpcStop(c) PROVE RequestsDone' /\ StaysDisarmed'
  BY <1>3 DEF RpcStop, Accepting, Goto
<1>4. ASSUME NEW c \in Clients, RpcSetPrivacy(c) PROVE RequestsDone' /\ StaysDisarmed'
  BY <1>4 DEF RpcSetPrivacy, Accepting
<1>5. ASSUME NEW c \in Clients, StartSetRole(c) PROVE RequestsDone' /\ StaysDisarmed'
  BY <1>5 DEF StartSetRole, Goto
<1>6. ASSUME NEW c \in Clients, StartReply(c) PROVE RequestsDone' /\ StaysDisarmed'
  BY <1>6 DEF StartReply, Goto
<1>7. ASSUME NEW t \in Threads, StartNoop(t) PROVE RequestsDone' /\ StaysDisarmed'
  BY <1>7 DEF StartNoop, Goto, AfterStart
<1>8. ASSUME NEW t \in Threads, StartLock(t) PROVE RequestsDone' /\ StaysDisarmed'
  BY <1>8 DEF StartLock, Goto, FreeSlots, FailuresReported
<1>9. ASSUME NEW t \in Threads, StopLock(t) PROVE RequestsDone' /\ StaysDisarmed'
  BY <1>9 DEF StopLock, Goto, Cancel, Disable
<1>10. ASSUME NEW t \in Threads, StartFinish(t) PROVE RequestsDone' /\ StaysDisarmed'
  BY <1>10 DEF StartFinish, Goto, AfterStart, Enable
<1>11. ASSUME NEW t \in Threads, StopDone(t) PROVE RequestsDone' /\ StaysDisarmed'
  BY <1>11 DEF StopDone, Goto
<1>12. ASSUME NEW k \in Slots, SlotCall(k) PROVE RequestsDone' /\ StaysDisarmed'
  BY <1>12 DEF SlotCall
<1>13. ASSUME NEW k \in Slots, SlotBound(k) PROVE RequestsDone' /\ StaysDisarmed'
  BY <1>13 DEF SlotBound
<1>14. ASSUME NEW k \in Slots, SlotBindFailed(k) PROVE RequestsDone' /\ StaysDisarmed'
  BY <1>14 DEF SlotBindFailed
<1>15. ASSUME NEW k \in Slots, SlotDegrade(k) PROVE RequestsDone' /\ StaysDisarmed'
  BY <1>15 DEF SlotDegrade, SlotFree
<1>16. ASSUME NEW k \in Slots, SlotEnd(k) PROVE RequestsDone' /\ StaysDisarmed'
  BY <1>16 DEF SlotEnd, SlotFree, Done, DaemonDone
<1>17. ASSUME NEW s \in Servers, HandlerHeld(s) PROVE RequestsDone' /\ StaysDisarmed'
  BY <1>17 DEF HandlerHeld
<1>18. ASSUME NEW s \in Servers, HandlerFreed(s) PROVE RequestsDone' /\ StaysDisarmed'
  BY <1>18 DEF HandlerFreed
<1>19. CASE HupUpdate
  BY <1>19 DEF HupUpdate, HupGoto
<1>20. CASE HupShutdown
  BY <1>20 DEF HupShutdown, HupGoto, Cancel
<1>21. CASE HupDrained
  BY <1>21 DEF HupDrained, HupGoto
<1>22. CASE HupReplace
  BY <1>22 DEF HupReplace, HupGoto
<1>23. CASE HupCheck
  BY <1>23 DEF HupCheck, HupGoto, Goto
<1>24. CASE Signal
  BY <1>24 DEF Signal, MainGoto
<1>25. CASE GracefulStop
  BY <1>25 DEF GracefulStop, MainGoto
<1>26. CASE GrpcStopped
  BY <1>26 DEF GrpcStopped, MainGoto
<1>27. CASE DaemonStop
  BY <1>27 DEF DaemonStop, MainGoto, Cancel
<1>28. CASE DaemonProxyStopped
  BY <1>28 DEF DaemonProxyStopped, MainGoto
<1>29. CASE DaemonMark
  BY <1>29 DEF DaemonMark, MainGoto
<1>30. CASE MainDisarm
  BY <1>30 DEF MainDisarm, MainGoto, Disable
<1>31. CASE MainExit
  BY <1>31 DEF MainExit, MainGoto
<1>32. CASE UNCHANGED vars
  BY <1>32 DEF vars
<1>33. ASSUME NEW c \in Clients, RpcStream(c) PROVE RequestsDone' /\ StaysDisarmed'
  BY <1>33 DEF RpcStream, Accepting, Goto
<1>34. ASSUME NEW c \in Clients, StreamEnd(c) PROVE RequestsDone' /\ StaysDisarmed'
  BY <1>34 DEF StreamEnd, Goto
<1> QED
  BY <1>1, <1>2, <1>3, <1>4, <1>5, <1>6, <1>7, <1>8, <1>9, <1>10, <1>11,
     <1>12, <1>13, <1>14, <1>15, <1>16, <1>17, <1>18, <1>19, <1>20, <1>21, <1>22,
     <1>23, <1>24, <1>25, <1>26, <1>27, <1>28, <1>29, <1>30, <1>31, <1>32,
     <1>33, <1>34
     DEF Next, Enter, Leave, HandlerStep, SlotStep, HupStep, MainStep

(* Before a reload the process never ends with the network locked down,      *)
(* even when a request started the tunnel after the signal.                  *)
THEOREM ExitCorrect == Spec => []ExitUnlocked
<1>1. ExitInv => ExitUnlocked
  BY DEF ExitInv, StaysDisarmed, ExitUnlocked
<1> QED
  BY InitExit, NextExit, <1>1, PTL DEF Spec
=============================================================================

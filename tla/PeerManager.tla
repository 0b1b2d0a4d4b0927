----------------------------- MODULE PeerManager -----------------------------
(***************************************************************************)
(* mesh/peer_manager.go: bans with an end, kicks and trust levels, under    *)
(* one mutex; the time passes between and during the calls.  GetPeerStatus  *)
(* takes the mutex twice, and IsBlocked deletes a ban it finds expired.     *)
(***************************************************************************)
EXTENDS Integers, FiniteSets

CONSTANTS
    BanPeers,   \* peer identifiers
    MaxTime,    \* bound: the clock
    Bans,       \* ban durations given to KickPeer; 0 is no ban
    Levels      \* levels given to SetTrustLevel

Never == -1
Forever == 100 * MaxTime          \* BlockPeer: about 100 years

VARIABLES
    now,
    blocked,    \* end of the ban, or Never
    kicked,     \* peers in pm.kicked
    trust,      \* trust level, or Never
    askpc,      \* where a GetPeerStatus is: "idle" or the peer it asks about
    status,     \* what the last GetPeerStatus has returned
    ban,        \* history: the end of the last ban of each peer that nobody lifted
    promise     \* history: the latest end of its bans that nobody lifted

bvars == <<now, blocked, kicked, trust, askpc, status, ban, promise>>

Init ==
    /\ now = 0 /\ blocked = [p \in BanPeers |-> Never] /\ kicked = {}
    /\ trust = [p \in BanPeers |-> Never] /\ askpc = "idle" /\ status = "none"
    /\ ban = [p \in BanPeers |-> Never] /\ promise = [p \in BanPeers |-> Never]

Tick ==
    /\ now < MaxTime /\ now' = now + 1
    /\ UNCHANGED <<blocked, kicked, trust, askpc, status, ban, promise>>

Later(a, b) == IF a < b THEN b ELSE a
Promised(p, until) ==
    /\ ban' = [ban EXCEPT ![p] = until]
    /\ promise' = [promise EXCEPT ![p] = Later(@, until)]

(* A ban replaces an earlier one, also a longer one.  The callback, run in  *)
(* a goroutine of its own, is the caller's.                                 *)
KickPeer(p, d) ==
    /\ kicked' = kicked \cup {p}
    /\ IF d > 0 THEN blocked' = [blocked EXCEPT ![p] = now + d] /\ Promised(p, now + d)
                ELSE UNCHANGED <<blocked, ban, promise>>
    /\ UNCHANGED <<now, trust, askpc, status>>

BlockPeer(p) ==
    /\ blocked' = [blocked EXCEPT ![p] = now + Forever]
    /\ Promised(p, now + Forever)
    /\ UNCHANGED <<now, kicked, trust, askpc, status>>

UnblockPeer(p) ==
    /\ blocked' = [blocked EXCEPT ![p] = Never] /\ kicked' = kicked \ {p}
    /\ ban' = [ban EXCEPT ![p] = Never] /\ promise' = [promise EXCEPT ![p] = Never]
    /\ UNCHANGED <<now, trust, askpc, status>>

(* Mutation: a ban is dropped while it still runs.                          *)
ExpiredEarly(p) == now + 1 > blocked[p]

Expired(p) == now > blocked[p]           \* time.Now().After(blockedUntil)

(* IsBlocked, on its own or as the first half of GetPeerStatus.             *)
AskBlocked(p) ==
    /\ askpc = "idle"
    /\ blocked' = [blocked EXCEPT ![p] = IF Expired(p) THEN Never ELSE @]
    /\ IF Expired(p) THEN askpc' = p /\ UNCHANGED status
                     ELSE status' = "blocked" /\ UNCHANGED askpc
    /\ UNCHANGED <<now, kicked, trust, ban, promise>>

AskKicked ==
    /\ askpc # "idle"
    /\ status' = IF askpc \in kicked THEN "kicked" ELSE "active"
    /\ askpc' = "idle"
    /\ UNCHANGED <<now, blocked, kicked, trust, ban, promise>>

Clamp(l) == IF l < 0 THEN 0 ELSE IF l > 100 THEN 100 ELSE l

SetTrustLevel(p, l) ==
    /\ trust' = [trust EXCEPT ![p] = Clamp(l)]
    /\ UNCHANGED <<now, blocked, kicked, askpc, status, ban, promise>>

GetTrustLevel(p) == IF trust[p] = Never THEN 50 ELSE trust[p]

ListBlockedPeers == {p \in BanPeers : now < blocked[p]}

Next ==
    \/ Tick \/ AskKicked
    \/ \E p \in BanPeers :
          \/ \E d \in Bans : KickPeer(p, d)
          \/ BlockPeer(p) \/ UnblockPeer(p) \/ AskBlocked(p)
          \/ \E l \in Levels : SetTrustLevel(p, l)

----------------------------------------------------------------------------
(* Whatever queries came before, a peer is blocked while its last ban runs,  *)
(* whoever asks, and at most until the end of the last of its bans to end:   *)
(* asking never ends a ban early and none is revived.  The list agrees.  In  *)
(* between lies the peer whose longer ban a kick has replaced, of which      *)
(* BlockedForGood speaks.                                                    *)
BansHold ==
    /\ \A p \in BanPeers :
          /\ now <= ban[p] => ~Expired(p)
          /\ ~Expired(p) => now <= promise[p]
          /\ GetTrustLevel(p) \in 0 .. 100
    /\ {p \in BanPeers : now < ban[p]} \subseteq ListBlockedPeers
    /\ ListBlockedPeers \subseteq {p \in BanPeers : now < promise[p]}

(* "BlockPeer permanently blocks a peer from connecting"                     *)
(* (peer_manager.go:57): nothing but UnblockPeer ends such a block.  It does *)
(* not hold: README section 4.                                               *)
BlockedForGood == \A p \in BanPeers : promise[p] >= Forever => ~Expired(p)
=============================================================================

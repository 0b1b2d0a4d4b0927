# AirBridge 5G daemon: a TLA+ verification project

These modules model the concurrent core of the AirBridge 5G node, the Go daemon under
`core/go`: the SOCKS5 proxy server, its bandwidth limiter, the control plane that starts
and stops the tunnel, the mesh service with its secure connections, the kill switch's
rules, the transports and the computations beside them. TLC checks them on small
instances; TLAPS proves all the safety properties for every value of the constants.
`PROJECT.json` maps every definition to the lines it models and lists the runs, the
mutations that show each property can fail, the hazards, the findings and the theorems.

## 1. Inventory of the system

| Component | State | Operations | Hard behaviour |
|---|---|---|---|
| SOCKS5 proxy (`internal/proxy/socks5.go`) | `s.ctx`, `s.cancel`, `s.listener`, `s.wg`, metrics, token table | `ListenAndServe`, `Shutdown`, the handler per connection, `AddToken`, `RemoveToken` | one `Server` is started again after a stop while goroutines of the first call still read the shared fields; the accept loop adds to `s.wg` while `Shutdown` waits for it; handshake reads have no deadline |
| Bandwidth limiter (`internal/proxy/rate_limiter.go`) | tokens, rate, burst, `lastRefill`, `enabled` | `Wait`, `SetRate`, `refill` | integer rounding, rate changes under waiters, requests above the burst, overflow from the zero time |
| Control plane (`internal/services/daemon.go`, `grpc_server.go`) | role, tunnel state, privacy settings, current proxy server | `StartTunnel`, `StopTunnel`, `SetRole`, `SetPrivacyConfig`, `UpdateDaemonConfig`, `Stop` | one mutex held over waits; goroutines that report late; a reload beside requests; a stream that outlives the signal |
| Process entry (`cmd/securemesh-node/main.go`) | signal context, deferred calls | SIGINT/SIGTERM, SIGHUP | order of the deferred calls against requests under way |
| Kill switch (`internal/security/killswitch.go`) | enabled or not, firewall rules | `Enable`, `Disable` | must not outlive the tunnel or the process |
| Mesh service (`internal/mesh/libp2p.go`, `tcp_listener.go`) | peer table, connections, subscribers, TCP listener, UDP socket | `Start`, `Stop`, `Connect`, `Disconnect`, `Subscribe`, accept, reader, health, gossip and metrics loops | replacement of connections under one ID, `Stop` against every loop |
| Peer manager (`internal/mesh/peer_manager.go`) | bans with an end, kicks, trust levels | block, kick, unblock, query | queries delete expired bans; not constructed by the program |
| NAT traversal (`internal/mesh/nat_traversal.go`) | sockets, answers of STUN servers | `DiscoverPublicAddress`, `HolePunch` | servers that fail or answer oddly; sockets on every path |
| Noise handshake, secure connection (`internal/handshake`) | cipher states, deadline, raw connection | `UpgradeToSecure`, framed `Read` and `Write`, `Close` | silent or differently configured peers; a 16-bit length, short read buffers |
| QUIC and SOCKS5-over-TLS transports (`internal/transport`) | context, listener, stream channel, counters | `Listen`, `Dial`, `Shutdown`, packets | a channel closed under its senders, `Shutdown` beside `Listen`; not constructed by the program |
| Privacy engines (`internal/privacy`) | switches, strategy | fragment, rewrite a request's head, rewrite an IP header | a relay in progress while the switches change; checksum carry |
| Negotiation (`internal/protocol`) | none | pick from two lists | two ends that must agree without talking |
| Per-address limiter (`internal/services/grpc_server.go`) | times of the calls of each address | `allow` | the boundary of a sliding window; two windows for an import |
| Storage, platform settings, keys, tracing, Flutter and mobile applications | | | wrappers of libraries, system tools and user interface; not modelled |

How they interact: a gRPC handler calls methods of `Daemon`, each a critical section of
`d.mu`. `StartTunnel` of a master spawns a goroutine that calls `Server.ListenAndServe`
with the daemon's context and arms the kill switch; `StopTunnel` disarms it and calls
`Server.Shutdown` with `d.mu` held. `SetPrivacyConfig` pushes settings into the server
and its limiter. Relays call the limiter's `Wait`. SIGHUP runs `UpdateDaemonConfig` in a
goroutine of `main`, which may replace the server and restart the tunnel in yet another
goroutine. A signal cancels the context under everything, and then `main`'s deferred calls
run in reverse order: gRPC, daemon (proxy, mesh), kill switch, store, tracer.

What makes each part correct: the counters of the proxy are exact, its limit and its
authentication cannot be passed, a completed `Shutdown` leaves it quiet and returns; the
limiter grants no more than its rate earns and does not starve everybody; the kill switch
is up only with a tunnel, the reported tunnel state agrees with what listens, requests are
answered and the process ends; the mesh table and the open connections agree and `Stop` is
to end all that listens (it does for TCP, not always for UDP: section 4); a secure connection has
matching keys and delivers frames in order; the firewall's rules are those of the switch's
state also after failures; a transport counts its streams, and a cancelled one releases
what it holds; the relay passes on every byte however it is cut; bans, windows, verdicts
and checksums are what their definitions say.

## 2. Modules

| Module | Models | Checked by | Proofs |
|---|---|---|---|
| `ProxyServer` | the proxy server | `MCProxyServer` | `ProxyServerProofs` |
| `TokenBucket` | abstract: what a limiter promises | through `RateLimiter` | |
| `RateLimiter` | the limiter, implementing `TokenBucket` | `MCComponents`, `MCRateLimiter` | `RateLimiterProofs` |
| `Daemon` | control plane, `main`, kill switch, composed with what they rely on of the proxy | `MCDaemon` | `DaemonProofs` |
| `Mesh` | the mesh service | `MCMesh` | `MeshProofs` |
| `SecureConn` | Noise handshake and encrypted connection | `MCComponents` | `SecureConnProofs` |
| `Transport` | the two transports | `MCComponents` | `TransportProofs` |
| `PacketStream` | the packets of a stream | `MCComponents` | `ComponentsProofs` |
| `FirewallRules` | the kill switches' rules | `MCComponents` | `ComponentsProofs` |
| `RelayPath` | bytes from client to target through the privacy engines | `MCComponents` | `RelayPathProofs` |
| `IPHeader` | rewriting of TTL, hop limit and checksum | `MCComponents` | `ComponentsProofs` |
| `PeerManager` | bans, kicks, trust levels | `MCComponents` | `ComponentsProofs` |
| `ControlLimiter` | the windows before the control service | `MCComponents` | `ComponentsProofs` |
| `StunClient` | STUN discovery and hole punching | `MCComponents` | `ComponentsProofs` |
| `Negotiation` | capability negotiation at two ends | `MCComponents` | `ComponentsProofs` |

**ProxyServer.** A call of `ListenAndServe` is a number `g`; context `g` and listener `g`
are the ones that call created, and `sctx`, `slistener` are the shared fields. A program
counter `lpc[g]` steps through the accept loop one shared access at a time (`SetContext`,
`BindOK`/`BindFailed`, `CallAccept`, `AcceptConn`/`AcceptError`, `HandleAcceptError`,
`RefuseConn`/`CheckLimit`, `CountConn`, `SpawnHandler`, `LoopReturn`), `wpc[g]` through the
goroutine that closes the listener, `conn[c]` through a handler (`HandlerStart` reads
`s.ctx` when it is scheduled; `Negotiate`, `AuthSucceeds`/`AuthFails`, `ReadRequest`,
`DialOK`/`DialFailed`, `RelayEnd`/`RelayCancelled`, then the deferred calls). A relay may
be inside the limiter's `Wait` (`LimiterBlocks`, `LimiterGrants`), where neither the context
nor a deadline reaches it. `Stops` are the calls of `Shutdown`: `ShutdownCancel`, and then
`ShutdownDrained` by the goroutine (`waiter[w]`) that waits for `s.wg`, or
`ShutdownTimeout`. A `WaitGroup.Wait` is two looks at the counter, `ShutdownWait` or
`LoopWait` before it sleeps and `ShutdownDrained` or `LoopReturn` after the last `Done` has
released it (`Release`): when the counter is up again at the second look, the runtime
panics. A password is abstracted to whether `Validate` accepts it, and the bytes of a relay
are left out: no property is about them. `panicked` says which of the two panics, a nil
listener or the wait group, has stopped the process.

**RateLimiter.** Time is counted in ticks, `Second` to the second. Of `lastRefill` only
its age matters, and at an age of one second the bucket is full, so the age stops there;
`Ancient` is the age of the zero time of a limiter created disabled. `refill` is
`NewTokens`, `Refilled` and `Aged`, with the rounding of the code; the result of a
conversion that overflows `int64` is a choice between the outcomes of the two CPU
families. An iteration of `Wait`, under the mutex, is `WaitGrant` or `WaitSleep`.
`TokenBucket` keeps one number, its credit, in units of 1/`Second` byte. The refinement
maps the credit to `Potential`: the tokens and what the next refill would add.

**Daemon.** `mu` is `d.mu`; sections that do not wait are one action, `StartTunnel` and
`StopTunnel` are two each (`StartLock`/`StartFinish`, `StopLock`/`StopDone`) with the lock
held in between. `Threads` are the gRPC callers and the restart goroutine of a reload. A
slot is a goroutine of `StartTunnel` with the `ListenAndServe` it calls and its context.
The two steps of the gRPC `StartTunnel` handler, the role and the start, are separate
actions as in the code. `Enable` may fail, which the daemon only logs; `Disable` never
reports an error. Settings are one switch: pushed or not. Role *unspecified* behaves like
*client*. The environment of a process does not change, so a reload changes the proxy
address at most once, and there are two servers. Of the proxy's handlers only those
matter that a `Shutdown` waits for: `held` is the set of contexts one of whose handlers is
held up (`HandlerHeld`, `HandlerFreed`), by a client silent in the handshake or by the
limiter. A client may also have the statistics streamed (`RpcStream`) until it ends that
(`StreamEnd`); `GrpcStopped` waits for it as for every call. The panics of the proxy
(section 4) do not end the process in this module.

**Mesh.** A connection is a model value from its accept or dial until it is closed and
unread, and then stands for another one. An accepted connection has a reader that knows
its peer by ID (`HandshakeOK`, `ReaderData`, `ReaderError`, `ReaderDisconnect`); a dialed
one has none. `tcpListenerLoop` publishes its listener (`TcpBind`) and then looks at the
context (`TcpCheck`). `gossipListenerLoop` does the same with its UDP socket: `GossipBind`
binds it and stores it in `s.udpConn`, `GossipEnds` is its return on the done context,
which leaves the socket as it is. `StopCall` cancels and then looks at both, the listener
and the socket. The other loops that `s.wg` counts are a single flag. `main` configures no
bootstrap peers and starts and stops the service once.

**SecureConn.** Both ends of one TCP connection run `UpgradeToSecure` with configurations
that need not agree: pattern, AEAD and, for IK, the responder's key. `Upgrade` sets the
deadline; `WriteMessage` and `ReadMessage` alternate for the two (IK) or three (XX)
messages; `Timeout` and `PeerGone` end the handshake, after which every caller closes the
connection. `Split` is the order in which an end takes the two cipher states. A `Write` is
one frame whose length field keeps 16 bits of the ciphertext's size; `ReadFrame` delivers,
cuts to the reader's buffer, or fails, and after a wrong length the reader is inside a
frame for good. The Noise library is external: a message is accepted if it is the expected
one and what it authenticates agrees.

**Transport.** One module for both transports, as they differ in few places: with QUIC the
accept loop spawns a receiver per connection, which `t.wg` counts, and its `Accept` ends
with the context; with TLS the loop receives itself and ends when the listener is closed.
A receiver goes through `Receive`, `CheckLimit`, `CountStream` and the `select`
(`SendStream`, `SendOnClosed`, `SendCancelled`). `Listen` is `ListenContext` followed by
`ListenUp` or `ListenFailed`, because `t.mu` is released in between and `Shutdown` may
run there. **PacketStream** is the length prefix of four bytes, byte by byte (a shift by
8, 16 or 24 bits is a division by the power of two), and the payload by its length.

**FirewallRules.** The kill switch of `internal/security` and those of `internal/platform`
on three systems: the list of rules each adds, one command at a time (`AddRule`,
`AddFails`), and how each removes them (Windows by name, Linux by a flush of the chain,
macOS at once). The security switch's `Disable` on Linux is two commands, the flush and a
reset of the chain's policy, which may be somebody else's (`Policy`). On macOS that switch
adds no rule (`OnlyPf`): it turns `pf` on, and a failure to do so is a warning
(`PfWarning`). `Crash` is a death of the process between two commands. In `Daemon` the
switch is its state alone; `RulesMatchState` is what that state means for the host.

**RelayPath.** A byte of the client is an even number, the text by which a rewritten
request grows the odd number before its first byte, so order, loss and duplication are
visible; the five bytes of a TLS record header are one token, 0 if the code made it.
`InspectFirst`, `ReadRest` and `ReadClient` are the three ways through
`uaHarmonizingReader.Read`; `StartWrite` settles how `Fragment` cuts, `WriteFragment` is
one write to the target, `WriteReturns` the comparison of counts in the loop. `SetEnabled`
is the control service at work during the relay. What a rewritten request says is
abstracted to longer, shorter or the same.

**PeerManager, ControlLimiter, StunClient.** Time is a counter. History variables hold
what the properties compare with: the last ban (`ban`) and the latest end of all bans that
were not lifted (`promise`), the calls admitted, the answers. In `PeerManager` a
`GetPeerStatus` is two critical sections. In `ControlLimiter` an import is
two calls of `allow`, and the times that a bucket keeps are a function from the number of
the call to its time, so that what was kept can be compared with what was admitted: the
code's slice is that function in the order of the calls. In `StunClient` a NAT is a
function from local ports (and servers) to public addresses, and `parseAddress` walks
attributes at their offsets. A response (`Responses`) has three attributes: the first two
are software texts of any length or addresses, of IPv6 or IPv4, the third an address or
something else; the datagram may lack its last bytes, and the header may leave some out.

**IPHeader, Negotiation.** Pure computations, compared with the definition of a valid
checksum and of a common choice. `SumWords`, `FoldSum` and the `Walk` of `StunClient` are
recursive functions, one for each loop of the code; the search of `Negotiation` for the
first common value is the least position that holds one.

## 3. Runs

| Run | Expectation | What it shows |
|---|---|---|
| `proxy_safety` | pass | two calls of `ListenAndServe` that can overlap, two connections, limit 1, authentication: `CountersExact`, `ConnectionLimit`, `AuthBeforeRelay`, `QuietAfterShutdown` |
| `proxy_liveness` | pass | one call, two connections: `CancelledHandlerEnds`, `ShutdownReturns`, and no nil listener |
| `proxy_restart` | violation | with a second call, a failed `Listen` leaves a nil listener to the goroutines of the first |
| `limiter_starves` | violation | a request above one second's burst never returns |
| `daemon_safety` | pass | two callers, three goroutines, one reload, a shutdown: `LockedOnlyWithTunnel`, `MasterServes`, `StoppedQuiet`, `ExitUnlocked` |
| `daemon_liveness` | pass | one caller beside reload and shutdown: `StartReturns`, `MainExits` |
| `daemon_bind` | violation | `StartTunnel` arms and reports a running tunnel although the bind failed |
| `daemon_reload` | violation | the server of a reload works without the settings still reported |
| `mesh_peers` | pass | two peers, two connections, a dialer, a subscriber: `TableOwnsConnections`, `PeerCountExact`, `NoSendOnClosed`, `StopClosesListener`, `DeadPeerRemoved`, `StopReturns` |
| `mesh_reader` | violation | the reader of a replaced connection removes the one that replaced it |
| `components` | pass | the eleven modules of `MCComponents`, one per behaviour; see below |
| `quic_panic` | violation | a QUIC `Shutdown` with a stream arriving sends on a closed channel |

**The run `components`.** The parts it covers share no state with each other or with the
modules of the other runs, so their product would only multiply states. `MCComponents` is their sum:
the variable `part` names one, that one takes steps, the others stay at their initial
state. It declares the constants of all of them, `components.cfg` gives them values, and
the theorems hold for every value. Each property is that of one module (`FramesInOrder`
joins those of `SecureConn` and `PacketStream`):

- `TokensNatural`, `ImplementsBucket`, `SomeoneServed`: the bandwidth limiter, with its
  integer rounding, its rate changes and its unlocked flag, never has less than no tokens
  and implements a token bucket of one second's burst; of requests within the burst not
  all are starved.
- `StreamsCounted`, `StreamLimit`: `ActiveStreams` counts the open streams exactly, however
  often one is closed; accepted streams pass the limit only by racing QUIC receivers.
- `ShutdownQuiet`, `ShutdownReleases`: after a QUIC `Shutdown` nothing accepts or delivers;
  a cancelled transport releases its listener, also when `Listen` was under way, unless it
  panics first (`quic_panic`).
- `KeysAgree`, `HandshakeEnds`, `FramesInOrder`: the secure connection.
- `RulesMatchState`: a switch that says it is on has every rule in force, among them the
  one that blocks, except the security switch on macOS (section 4); the security
  switch that says it is off has left only rules whose removal failed or that survived a
  death of the process.
- `RelayExact`: the target receives the client's bytes in order, without a gap, and all of
  them at the client's end of file; record headers are left out of this, as the TLS
  strategy drops and makes them, and a relay that ends early on a count has that strategy
  (section 4).
- `BansHold`: a peer is blocked while its last ban runs, and no longer than the longest of
  its bans that was not lifted; a kick makes the two differ (section 4).
- `NatVerdict`: a symmetric NAT is recognised by two answers, *no NAT* is said only where
  there is none, there is an error when no server answered and never when the first did;
  a response is understood exactly if the first address in it is a whole IPv4 one; no socket
  leaks. What the verdict gets wrong is in section 4.
- `WindowBound`, `ChecksumValid`, `NegotiationAgrees`: each computation against its
  reference definition.

**Bounds and why they are enough.** The races of the proxy are between one old and one new
call, so two calls; a limit of one with two connections reaches refusal, the limit and the
limit exceeded by an overlapping loop; `MaxErrors` saturates two error metrics that no
property counts. Of the limiter, two
waiters; rates 2 and 4 with three ticks to the second make every refill round; the
overflow rate is the larger of them, so both kinds of first refill happen. Three slots
hold the goroutine of the running tunnel, a late failure and a restart at once; `RpcStart`
takes a request only when every start under way finds a slot. Two peers and two
connections let a peer replace its own connection and another keep one; `Expiry` 1 lets an
entry age and expire. In `components`: three streams over a limit of one and two QUIC connections
let two receivers pass the comparison together; slices of 0, 65519, 65520 and 70000 bytes
lie at and on both sides of the largest frame, read with the mesh's buffer of 1024 bytes
and with a large one; packets lie at every byte boundary of the length and at 2^20; one
death of the process at any command; a window of two ticks on a clock of four, so that
windows overlap and old times fall out; three servers, so that the first, a later one or
two may fail; five punch packets as in the code; four client tokens with buffers of three
and fragments of at most two, so that a chunk is cut, kept and grown; header words 0, 7871
and 65535, whose sums carry no, one and two times; lists of two values in every order.
Callers of the daemon, and connections of the proxy, are symmetric in the safety runs. The
peers are in `mesh_peers`, which also checks liveness: no temporal property and no fairness
condition of `Mesh` names a peer (they speak of connections and of the service), so a
permutation of the peers maps a counterexample to one. The other liveness runs use no
symmetry. Runs with `CHECK_DEADLOCK FALSE` are of parts that end: a
process that exited, a server out of connections.

**Fairness.** Weak fairness says that the Go scheduler runs a goroutine that can run, that
`Accept` fails on a closed listener, that a dial ends by its timeout and that time passes.
For the transports it also says that a QUIC connection's `AcceptStream` returns once the
context is done, and for a handshake that its next step, at the latest the deadline,
happens; a process that has panicked takes no more steps.
In `Daemon` the steps that take `d.mu` are strongly fair, because a Go mutex in starvation
mode hands itself to the longest waiter. Nothing is assumed of clients, targets, peers,
requests, their deadlines or signals, nor that the limiter ever grants what a relay asks
for (`limiter_starves` shows a `Wait` without end). Hence the exceptions that the liveness
properties name:

- `CancelledHandlerEnds`: the handler is inside the limiter's `Wait`.
- `ShutdownReturns`: a client stays silent in the SOCKS5 handshake, a relay is inside the
  limiter's `Wait`, or the process has panicked (section 4).
- `StartReturns`: a handler is held up in one of the first two ways, so that a `StopTunnel`
  keeps `d.mu`.
- `MainExits`: the same, or a client still streams the statistics, for which `GracefulStop`
  waits (section 4).

**Prompt.** The 100 ms that `StartTunnel` waits are a timing assumption of the code. With
`Prompt = TRUE`, the value in all runs, a spawned goroutine has called `Listen` within
them and, if that failed, is queued at `d.mu`, which then reaches it before the next
start. Without it a goroutine that is not scheduled for 100 ms can start listening after a
stop; the hazard is listed, no property claims otherwise.

**Why some properties exclude a reload.** `MasterServes`, `StoppedQuiet` and
`ExitUnlocked` hold while no reload has begun. A reload shuts the old server down outside
`d.mu` and then forgets it, so a tunnel started in between is left listening, and its
restart goroutine is not waited for by `main`. The code says of this path "For a full fix,
we would reinitialize the proxy and start it here" (`daemon.go:248`), so these are listed
as hazards and not as findings. `LockedOnlyWithTunnel` holds with reloads.

## 4. Findings

Each is a disagreement between the code and a line of the repository, which `PROJECT.json`
quotes; the run named first shows it.

1. `proxy_restart`: `s.listener, err = net.Listen(...)` assigns nil before the error is
   looked at; an accept loop or watcher of an earlier call then dereferences it.
2. `limiter_starves`: `refill` caps the tokens at one second's bytes, `Wait` asks for more
   when the rate is below one relay buffer per second, and never returns.
3. `daemon_bind`: the goroutine needs `d.mu` before it can send the bind error for which
   `StartTunnel` waits with `d.mu` held: the error never arrives in time.
4. `daemon_reload`: the replaced server has none of the settings `GetPrivacyConfig` reports.
5. `mesh_reader`: `Disconnect(peerID)` of an old reader removes the peer's new connection.
6. `quic_panic`: the accept loop closes the stream channel at a shutdown while the
   connections' goroutines may be sending on it.

**Disagreements without a run of their own.** Each is a definition that states what a line
of the repository says, and that the code does not keep. No passing property covers these
cases up: each of them names the case as an exception, or claims less. TLC finds the
counterexample when the definition takes the place of the properties in the named
configuration (as a PROPERTY for `SignalEnds`, as an INVARIANT for the others).

- `ProxyServer.ShutdownGraceful`, `proxy_safety.cfg`. "Shutdown gracefully shuts down the
  proxy server" (`socks5.go:261`), but the accept loop may add to `s.wg` (`:248`) while
  `Shutdown` waits for it (`:271`): between the last `Done` and the waiter's second look
  that makes the runtime panic. `ShutdownReturns` excepts a process that has panicked.
- `Daemon.SignalEnds`, `daemon_liveness.cfg`. "Press Ctrl+C to stop the daemon."
  (`main.go:208`), but `GracefulStop` (`grpc_server.go:71`), the first deferred call, waits
  for the statistics stream (`:232`) of a client that does not end it; meanwhile the tunnel
  stays up and the switch armed. `MainExits` excepts it.
- `Mesh.GossipSocketClosed`, `mesh_peers.cfg`. "Stop shuts down the mesh network
  gracefully." (`libp2p.go:221`), but the gossip loop may publish its UDP socket (`:688`)
  after `Stop` has looked for one (`:233`); it then finds the context done (`:694`) and
  returns without closing it, where `tcpListenerLoop` does (`tcp_listener.go:39`).
  `StopClosesListener` speaks of the TCP listener only.
- `EnabledBlocks`, `components.cfg`, as are the following. "Enable activates the kill
  switch, blocking all non-tunnel traffic." (`killswitch.go:38`; also `pfctl` in
  `src/docs/USER_GUIDE.md:32`), but on macOS `enableDarwin` turns `pf` on (`:206`), or warns
  that it could not, and adds no rule. `RulesMatchState` excepts that switch.
- `BlockedForGood`. "BlockPeer permanently blocks a peer from connecting"
  (`peer_manager.go:57`), but `KickPeer` (`:45`) overwrites the entry with a ban that
  expires. `BansHold` speaks of the last ban and of the longest.
- `ConeNotSymmetric`. "Compare mappings across servers to detect NAT type"
  (`nat_traversal.go:114`), with *No NAT* and *Full Cone* among the detected types
  (`src/docs/API.md:180-181`); but every request uses a new socket (`:154`) while the one
  before is open, so the addresses compared always differ: with two answers, of which the
  first server's is one, the verdict is *symmetric* behind every NAT and behind none, and
  *full cone* never occurs. `NatVerdict` claims neither of the two.
- `ErrorMeansUnreachable`. "all STUN servers unreachable" (`nat_traversal.go:129`) is
  returned when the first server failed, whatever the others answered (`:109`).
- `FragmentsReproduce`. "fragments that, when concatenated, reproduce the original
  payload" (`fragment.go:120`), but with the TLS strategy record headers are added or
  dropped (`:236-242`); the write returns another count than it was given and the relay
  ends on it (`socks5.go:655`). `main` configures another strategy; `RelayExact` excepts
  this one.

**Observations that are no findings**: behaviour worth knowing that does not contradict
what the repository says of itself.

- A `Write` above 65519 bytes succeeds and puts the reader out of step, as does a packet
  above 1 MiB; a frame above the reader's buffer loses its end (`FramesInOrder`). The
  mesh's reader uses 1024 bytes and ignores the content.
- A STUN response with an IPv6 address before the IPv4 one is not understood: the walk
  ends at the first address (`NatVerdict`).
- The platform kill switches do not undo a half-applied set; after a death of the process
  `Disable` finds its state off and leaves the rules; the Linux flush removes rules that
  the switch did not add (`RulesMatchState`).
- `InvalidateSessions` of the proxy only logs: it ends no session of a removed token.
- Two ends with differently ordered preferences both succeed with different choices
  (`NegotiationAgrees`).
- A dialed mesh connection has no reader, and the health loop refreshes every entry with a
  connection, so a dead one stays; `DeadPeerRemoved` is about accepted connections.
- `Wait` of the limiter promises no order among waiters: small requests can overtake a
  large one.

## 5. Proofs

Every invariant of a passing run is a theorem, and so is the refinement. A theorem `Spec
=> []P` rests on an inductive invariant: one lemma says that `Init` establishes it, one
(with a step per action) that each step keeps it, and `P` follows from it.

`ProxyServerProofs`, for any numbers of connections, users, calls, callers and any limit:

- `CountersCorrect`, `TypeCorrect`: types and `CountersExact`. `StateTypes` and
  `CountersExact` are together inductive; each action that moves a connection between the
  counted sets adds or removes one element of a finite set. That no counter goes below
  zero follows, as each is a cardinality.
- `AuthCorrect`: `AuthBeforeRelay` covers the states from the request to the relay and is
  inductive with the types.
- `QuietCorrect`: needs `QuietInv`. After a drained `Shutdown` a handler may still be
  spawned, so "nobody relays" is not inductive: one must know that each handler holds the
  cancelled context (its dial then fails) and that no later call assigns that context
  again (`ContextsUsed`).
- `LimitCorrect`: needs `LimitInv`, which counts the loops between the check and the
  increment as served already. A loop that passes the check sees `active` below the limit,
  and every other such loop accounts for one unreturned call.
- `NilCorrect`, `FirstStartCorrect`: the run `proxy_restart` shows that `NoNilListener`
  fails with two calls. The theorems say how far it holds: a nil listener is used only
  after `RebindFailed`, a `Listen` that failed on a server with goroutines of another
  call, hence never with one call. `ListenerInv` ties the existence of those goroutines to
  a `Listen` that succeeded.

`RateLimiterProofs`, for any waiters, sizes, rates and resolution of the clock that satisfy
`LimiterAssumption`, about a behaviour of `RateLimiter`; `ComponentsProofs` draws from it
`TokensCorrect` and `BucketCorrect`, the same of the sum that `components` checks:

- `TypeCorrect`: tokens never negative, no division by a zero rate.
- `LimiterImplementsBucket`: initial states map to initial states and every step to a
  bucket step or a stutter. The lemma `RefillPays` bounds what a refill with its rounding
  may add; `AncientEmpty` (a limiter never refilled has no tokens) closes the case of the
  zero time.

`MeshProofs`, for any peers, connections, dialers, subscribers and expiry:

- `TypeCorrect`, `TableCorrect`: the table and the open connections agree only because of
  who holds a connection that is in neither. `Holders` says it: a dialer that is about to
  insert holds a dialed connection that no other dialer holds; a closed connection is one
  whose reader has not noticed yet; only accepted ones have a reader.
- `CountCorrect`: by the effect of each insertion and removal on a finite set of entries.
- `SubscribersCorrect`: `SubInv` adds that a channel just being subscribed is neither
  listed nor closed.
- `ListenerCorrect`, of the TCP listener: `ListenerInv` is the argument for the two-sided
  race: once `Stop` has cancelled, an open listener means that `tcpListenerLoop` has yet
  to look at the context, and when `Stop` has waited that loop is over. The UDP socket has
  no such theorem: its loop looks at the context too, but does not close what it has bound
  (`GossipSocketClosed`, section 4).

`DaemonProofs`, for any callers and goroutines:

- `TypeCorrect`.
- `LockCorrect`: `LockHeld` says who holds `d.mu`, `SwitchHeld` what the holder may leave
  behind: a stop has disarmed before it waits, and no bind error can have been sent to the
  start that still waits for one.
- `MasterCorrect`: `Contexts` (only what was called is cancelled or assigned) and
  `BehindServes`, which extends the property over the time in which a start holds `d.mu`.
- `StoppedCorrect`: needs the timing assumption `Prompt` as a hypothesis. `QuietParts`:
  only the last goroutine may be uncancelled, one that has not bound is that of the start
  under way, and a failed one means that everything that serves was told to stop.
- `ExitCorrect`: before a reload, no request is alive once the gRPC server has drained
  (`RequestsDone`), so nothing arms again after the deferred `Disable`.

`TransportProofs`, `SecureConnProofs` and `RelayPathProofs` prove that the invariants of
their components are inductive. `MCComponents` instantiates them, and `ComponentsProofs`
draws the theorems and proves those of the smaller components: a step of the sum is a step
of the component or leaves it alone (the lemmas `TransportStep`, `SecureStep`, ...).

- `CountedCorrect`, `LimitCorrect`, `QuietCorrect`, `PanicCorrect`, for any connections,
  streams and `MaxStreams`: `TransportInv`. A stream is held by at most one receiver
  (`Holding`), is in the queue at most once (`Queued`), and receivers run only as `Listen`
  and `Shutdown` allow (`Phases`); the limit needs the receivers between comparison and
  count, as in the proxy (`LimitInv`). `PanicCorrect` says how far finding 6 reaches: the
  panic needs QUIC and a cancelled context.
- `KeysCorrect`: `SecureInv`. Each end is where its round says (`Progress`), what is on
  the wire is the other end's last message or its frames (`Wire`), at most one end is to
  write (`Turns`), and an end that has checked a message has the other's protocol
  (`Agreed`). The last is not inductive without the other three.
- `FramesCorrect`, for all sizes and buffers: `Received` on top of `SecureInv` for the
  frames. For the packets `RoundTrip` shows that the four bytes give back every length
  below 2^31, and `PacketInv` matches what was read with what was due, packet by packet.
- `RulesCorrect`, for any number of deaths of the process: `Adding` and `Undoing` say which
  prefix of the rules is in force, or gone, after each command. For the security switch on
  macOS the theorem claims nothing of an enabled switch (section 4).
- `BansCorrect`: `BanKept`: the map holds the last ban, or nothing once that has expired,
  and no ban ends after `promise`.
- `WindowCorrect`, for all limits and windows: `Book`. The times kept are those of calls
  that passed and include all the recent ones, so that their number decides rightly; a
  call that passes can fill only windows whose other calls are all recent.
- `RelayCorrect`, for all sizes of buffers and fragments, and engines switched at any
  moment: `RelayInv`. What the target has and what is on its way (`pend`, then `ubuf`) form
  a `Pipe`: together they are all the client's bytes but the record headers taken out, in
  order, below everything the client has yet to send. The property speaks of what came out
  only and is not inductive: a gap would show when the next byte follows. Each action is
  one of four lemmas about a pipe: it reads (`PipeReads`), drops or makes a header
  (`PipeDrops`, `PipeMakes`) or writes its front (`PipeWrites`), and `PipeExact` gives the
  property. A count that falls short needs the TLS strategy because with the others what
  is written and what is left add up to what was asked.
- `VerdictCorrect`, for any number of servers and ports and attributes of any length:
  `StunInv` keeps the socket of the first answer open until the second one is compared, so
  the addresses compared belong to two ports and differ (`MappedApart`); that *no NAT* is
  said only without one needs that the first address is the first socket's. Which
  responses are understood (`AllUnderstood`) is a lemma about the walk (`Understanding`):
  padding always lands on the next attribute (`PaddedOf`, `ResponseLaid`), and the walk
  ends at the first address or finds none (`WalkEnds`).
- `ChecksumCorrect`, for all words and TTLs: `FoldedSum` says that folding ends below 2^16
  and keeps the sum modulo 65535, `SumChanged` what one word contributes, `Recalculated`
  puts them together.
- `NegotiationCorrect`, for lists of any length: the first common value exists exactly if
  the two ends share one, and is the least position (`LeastOf`).

**Recursive functions.** That such a function is what its recursion says is itself a
proof: `SumExists`, `FoldExists` and `WalkEnds` give a function that obeys the recursion,
`SumIs`, `FoldedSum` and `WalkIs` say what follows for the one that the model means. The
induction is over a set of natural numbers, through the least element of its complement
(`NatSteps`, from the library's `WFMin`), as the library's induction rules with an
operator parameter cannot be instantiated.

**Assumptions.** `ProxyAssumption`, the assumptions of `Mesh` and `Daemon`,
`ComponentsAssumption` (identifiers positive, sizes and limits natural numbers, and
`LimiterAssumption`)
and `PacketAssumption` (a length is below 2^31: the code puts an `int` into four bytes).
TLC evaluates all of them in the runs. `Prompt` is a hypothesis of one theorem only.

**Only model-checked.** Liveness under fairness is out of the prover's reach:
`CancelledHandlerEnds`, `ShutdownReturns`, `SomeoneServed`, `StartReturns`, `MainExits`,
`DeadPeerRemoved`, `StopReturns`, `ShutdownReleases` and `HandshakeEnds` are checked on the
instances of section 3 only.

## 6. Mutations

Each property of a passing run has a mutation, an operator beside the one it changes: a
dropped check, a missing decrement, an off-by-one, a lock not released. With the mutated
operator in place TLC finds the property violated under the same configuration.

## 7. Plan

Done: every module above, and a proof of each of their invariants. What could follow is the
userspace TCP of the Android tunnel, a component of its own.

**Not modelled**, and why: the daemon's traffic history, QR credentials (handed out, never
entered in the token table) and read-only handlers, which change nothing that a property
speaks of; the copy from target to client, a plain loop; storage (single SQL statements);
the proxy and VPN settings of the platforms (single calls of system tools); certificates,
keys and AEAD, the nonce increment, tracing (wrappers of libraries without state);
generated protobuf code; the user interface. The texts that the User-Agent engine chooses
and the random numbers of the fragmenter are choices of the model.

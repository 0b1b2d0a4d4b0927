-------------------------- MODULE ComponentsProofs --------------------------
(* Theorems about the components that MCComponents composes, for every value *)
(* of their constants: each step of the composition is a step of a component *)
(* or leaves it as it is, so what the component's own steps preserve holds.  *)
EXTENDS MCComponents, FiniteSetTheorems, SequenceTheorems, WellFoundedInduction, TLAPS

----------------------------------------------------------------------------
(* The steps of the composition, seen by one component                       *)

LEMMA BandwidthStep == [Next]_vars => [Bandwidth!Next]_(Bandwidth!vars)
  BY DEF Next, vars, BandwidthNext, TransportNext, SecureNext, PacketNext, FirewallNext, PeerNext,
         LimiterNext, StunNext, RelayNext, HeaderNext, NegotiationNext, lv, Bandwidth!vars

LEMMA TransportStep == [Next]_vars => [Transports!Next]_(Transports!tvars)
  BY DEF Next, vars, BandwidthNext, TransportNext, SecureNext, PacketNext, FirewallNext, PeerNext, LimiterNext,
         StunNext, RelayNext, HeaderNext, NegotiationNext, tv,
         Transports!tvars, Transports!lvars, Transports!gvars, Transports!svars

LEMMA SecureStep == [Next]_vars => [Secure!Next]_(Secure!hvars)
  BY DEF Next, vars, BandwidthNext, TransportNext, SecureNext, PacketNext, FirewallNext, PeerNext, LimiterNext,
         StunNext, RelayNext, HeaderNext, NegotiationNext, hv, Secure!hvars

LEMMA PacketStep == [Next]_vars => [Packets!Next]_(Packets!pvars)
  BY DEF Next, vars, BandwidthNext, TransportNext, SecureNext, PacketNext, FirewallNext, PeerNext, LimiterNext,
         StunNext, RelayNext, HeaderNext, NegotiationNext, pv, Packets!pvars

LEMMA FirewallStep == [Next]_vars => [Firewall!Next]_(Firewall!fvars)
  BY DEF Next, vars, BandwidthNext, TransportNext, SecureNext, PacketNext, FirewallNext, PeerNext, LimiterNext,
         StunNext, RelayNext, HeaderNext, NegotiationNext, fv, Firewall!fvars

LEMMA PeerStep == [Next]_vars => [Peers!Next]_(Peers!bvars)
  BY DEF Next, vars, BandwidthNext, TransportNext, SecureNext, PacketNext, FirewallNext, PeerNext, LimiterNext,
         StunNext, RelayNext, HeaderNext, NegotiationNext, bv, Peers!bvars

LEMMA LimiterStep == [Next]_vars => [Limiter!Next]_(Limiter!cvars)
  BY DEF Next, vars, BandwidthNext, TransportNext, SecureNext, PacketNext, FirewallNext, PeerNext, LimiterNext,
         StunNext, RelayNext, HeaderNext, NegotiationNext, cv, Limiter!cvars

----------------------------------------------------------------------------
(* The bandwidth limiter, whose theorems are in RateLimiterProofs            *)

LEMMA BandwidthHolds == Spec => Bandwidth!Spec
<1>1. Init => Bandwidth!Init
  BY DEF Init
<1> QED
  BY <1>1, BandwidthStep, PTL DEF Spec, Bandwidth!Spec

(* For all waiters, sizes, rates and clocks the tokens never go below zero   *)
(* and an active limiter divides by a positive rate.                         *)
THEOREM TokensCorrect == Spec => []TokensNatural
<1>1. Bandwidth!LimiterAssumption
  BY ComponentsAssumption
<1>2. Bandwidth!Spec => []TokensNatural
  BY <1>1, Bandwidth!TypeCorrect DEF TokensNatural
<1> QED
  BY <1>2, BandwidthHolds

(* Every behaviour of the limiter is one of the token bucket: what is        *)
(* granted never exceeds what the rate has earned.                           *)
THEOREM BucketCorrect == Spec => ImplementsBucket
<1>1. Bandwidth!LimiterAssumption
  BY ComponentsAssumption
<1>2. Bandwidth!Spec => ImplementsBucket
  BY <1>1, Bandwidth!LimiterImplementsBucket DEF ImplementsBucket
<1> QED
  BY <1>2, BandwidthHolds

----------------------------------------------------------------------------
(* The transports                                                            *)

LEMMA TransportHolds == Spec => []Transports!TransportInv
<1>1. Init => Transports!TransportInv
  BY ComponentsAssumption, Transports!InitTransport DEF Init
<1>2. Transports!TransportInv /\ [Next]_vars => Transports!TransportInv'
  BY ComponentsAssumption, TransportStep, Transports!NextTransport
<1> QED
  BY <1>1, <1>2, PTL DEF Spec

(* ActiveStreams and t.wg always count what they stand for, for every number *)
(* of connections and streams, in quic.go as in socks5_tls.go.               *)
THEOREM CountedCorrect == Spec => []StreamsCounted
<1>1. Transports!TransportInv => StreamsCounted
  BY DEF Transports!TransportInv, StreamsCounted
<1> QED
  BY TransportHolds, <1>1, PTL

(* Accepted streams exceed MaxStreams at most by one for each QUIC receiver  *)
(* that passed the check before another one counted (quic.go).               *)
THEOREM LimitCorrect == Spec => []StreamLimit
<1>1. Transports!TransportInv => StreamLimit
  BY ComponentsAssumption, Transports!LimitFollows DEF StreamLimit
<1> QED
  BY TransportHolds, <1>1, PTL

(* After a QUIC Shutdown has returned no goroutine accepts or delivers.      *)
THEOREM QuietCorrect == Spec => []ShutdownQuiet
<1>1. Transports!TransportInv => ShutdownQuiet
  BY DEF Transports!TransportInv, ShutdownQuiet
<1> QED
  BY TransportHolds, <1>1, PTL

(* A send on the closed stream channel needs QUIC and a cancelled context.   *)
THEOREM PanicCorrect == Spec => []PanicOnlyInShutdown
<1>1. Transports!TransportInv => PanicOnlyInShutdown
  BY DEF Transports!TransportInv, PanicOnlyInShutdown
<1> QED
  BY TransportHolds, <1>1, PTL

----------------------------------------------------------------------------
(* The secure connection                                                     *)

LEMMA SecureHolds == Spec => [](Secure!SecureInv /\ Secure!Received)
<1>1. Init => Secure!SecureInv /\ Secure!Received
  BY Secure!InitSecure, Secure!InitReceived DEF Init
<1>2. Secure!SecureInv /\ Secure!Received /\ [Next]_vars => (Secure!SecureInv /\ Secure!Received)'
  BY ComponentsAssumption, SecureStep, Secure!NextSecure, Secure!NextReceived
<1> QED
  BY <1>1, <1>2, PTL DEF Spec

(* Two ends that both hold a connection after UpgradeToSecure, with whatever *)
(* configurations, have the same protocol and matching cipher states.        *)
THEOREM KeysCorrect == Spec => []KeysAgree
<1>1. Secure!SecureInv => KeysAgree
  BY Secure!AgreeFollows DEF KeysAgree
<1> QED
  BY SecureHolds, <1>1, PTL

----------------------------------------------------------------------------
(* The packets of a transport stream                                         *)

(* The four bytes before a packet give back its length.                      *)
LEMMA RoundTrip ==
    ASSUME NEW n \in Nat, n <= 2147483647
    PROVE  Packets!PktLen(Packets!LenBuf(n)) = n
<1>1. /\ n \div 256 \in Nat /\ n \div 65536 \in Nat /\ n \div 16777216 \in Nat
      /\ (n \div 256) \div 256 = n \div 65536 /\ (n \div 65536) \div 256 = n \div 16777216
      /\ n \div 16777216 <= 255 /\ n \div 1 = n
  BY SMT
<1>2. \A k \in Nat : k = 256 * (k \div 256) + (k % 256)
  BY SMT
<1> DEFINE q1 == n \div 256
           q2 == n \div 65536
           q3 == n \div 16777216
<1>3. n = 256 * q1 + (n % 256) /\ q1 = 256 * q2 + (q1 % 256) /\ q2 = 256 * q3 + (q2 % 256)
  BY <1>1, <1>2, SMT
<1>4. q3 % 256 = q3
  BY <1>1, SMT
<1>5. Packets!PktLen(Packets!LenBuf(n)) =
          (q3 % 256) * 16777216 + (q2 % 256) * 65536 + (q1 % 256) * 256 + (n % 256)
  BY <1>1, SMT DEF Packets!PktLen, Packets!LenBuf, Packets!Byte
<1>6. q1 \in Nat /\ q2 \in Nat /\ q3 \in Nat /\ q1 % 256 \in Nat /\ q2 % 256 \in Nat
      /\ n % 256 \in Nat
  BY <1>1, SMT
<1> DEFINE b0 == n % 256
           b1 == q1 % 256
           b2 == q2 % 256
<1> HIDE DEF q1, q2, q3, b0, b1, b2
<1>7. /\ Packets!PktLen(Packets!LenBuf(n)) = q3 * 16777216 + b2 * 65536 + b1 * 256 + b0
      /\ n = 256 * q1 + b0 /\ q1 = 256 * q2 + b1 /\ q2 = 256 * q3 + b2
      /\ q1 \in Nat /\ q2 \in Nat /\ q3 \in Nat /\ b0 \in Nat /\ b1 \in Nat /\ b2 \in Nat
  BY <1>3, <1>4, <1>5, <1>6, SMT DEF b0, b1, b2
<1> QED
  BY <1>7, SMT

(* The packets that ReadPacket must have returned when m were consumed, and  *)
(* the place of one of them among what it returned.                          *)
DueIn(s, m) ==
    {k \in 1 .. m : s[k] > 0 /\ \A j \in 1 .. k : s[j] <= Packets!MaxPacket}
Nth(D, k) == Cardinality({j \in D : j <= k})
Matches(s, m, g) ==
    /\ Len(g) >= Cardinality(DueIn(s, m))
    /\ \A k \in DueIn(s, m) : g[Nth(DueIn(s, m), k)] = s[k]

LEMMA DueFinite ==
    ASSUME NEW s, NEW m \in Nat
    PROVE  /\ IsFiniteSet(DueIn(s, m)) /\ Cardinality(DueIn(s, m)) \in Nat
           /\ \A k \in DueIn(s, m) : Nth(DueIn(s, m), k) \in 1 .. Cardinality(DueIn(s, m))
<1> DEFINE D == DueIn(s, m)
<1>1. IsFiniteSet(1 .. m) /\ D \subseteq 1 .. m
  BY FS_Interval DEF DueIn
<1>2. IsFiniteSet(D) /\ Cardinality(D) \in Nat
  BY <1>1, FS_Subset, FS_CardinalityType
<1>3. ASSUME NEW k \in D PROVE Nth(D, k) \in 1 .. Cardinality(D)
  <2> DEFINE B == {j \in D : j <= k}
  <2>1. B \subseteq D /\ k \in B
    BY <1>1
  <2>2. IsFiniteSet(B) /\ Cardinality(B) <= Cardinality(D) /\ Cardinality(B) \in Nat
    BY <1>2, <2>1, FS_Subset, FS_CardinalityType
  <2>3. Cardinality(B) # 0
    BY <2>1, <2>2, FS_EmptySet
  <2> HIDE DEF B
  <2>4. Cardinality(B) \in 1 .. Cardinality(D)
    BY <1>2, <2>2, <2>3
  <2> QED
    BY <2>4 DEF Nth, B
<1> QED
  BY <1>2, <1>3

(* A packet that is refused, or that follows a refused payload, is not due.  *)
LEMMA NotDue ==
    ASSUME NEW s, NEW m \in Nat,
           ~(s[m + 1] > 0) \/ \E j \in 1 .. m + 1 : ~(s[j] <= Packets!MaxPacket)
    PROVE  DueIn(s, m + 1) = DueIn(s, m)
<1>1. m + 1 \notin DueIn(s, m + 1)
  BY DEF DueIn
<1>2. \A k : k \in 1 .. m + 1 <=> k \in 1 .. m \/ k = m + 1
  OBVIOUS
<1>3. \A k : k \in DueIn(s, m + 1) <=> k \in DueIn(s, m)
  BY <1>1, <1>2 DEF DueIn
<1> QED
  BY <1>3

(* A packet that is accepted in step is the next one that is due.            *)
LEMMA NextDue ==
    ASSUME NEW s, NEW m \in Nat, s[m + 1] > 0, \A j \in 1 .. m + 1 : s[j] <= Packets!MaxPacket
    PROVE  /\ DueIn(s, m + 1) = DueIn(s, m) \cup {m + 1}
           /\ Cardinality(DueIn(s, m + 1)) = Cardinality(DueIn(s, m)) + 1
           /\ Nth(DueIn(s, m + 1), m + 1) = Cardinality(DueIn(s, m)) + 1
           /\ \A k \in DueIn(s, m) : Nth(DueIn(s, m + 1), k) = Nth(DueIn(s, m), k)
<1> DEFINE D == DueIn(s, m)
           E == DueIn(s, m + 1)
<1>1. \A k : k \in 1 .. m + 1 <=> k \in 1 .. m \/ k = m + 1
  OBVIOUS
<1>2. m + 1 \in E
  BY DEF DueIn
<1>3. \A k : k \in E <=> k \in D \/ k = m + 1
  BY <1>1, <1>2 DEF DueIn
<1>4. E = D \cup {m + 1}
  BY <1>3
<1>5. D \subseteq 1 .. m /\ m + 1 \notin D
  BY DEF DueIn
<1>6. Cardinality(E) = Cardinality(D) + 1
  BY <1>4, <1>5, DueFinite, FS_AddElement
<1> HIDE DEF D, E
<1>a. \A j \in E : j <= m + 1
  BY <1>4, <1>5
<1>7. {j \in E : j <= m + 1} = E
  BY <1>a
<1>8. \A k \in D : {j \in E : j <= k} = {j \in D : j <= k}
  BY <1>4, <1>5
<1> QED
  BY <1>4, <1>6, <1>7, <1>8 DEF Nth, D, E

LEMMA MatchesMore ==
    ASSUME NEW s, NEW m \in Nat, NEW g \in Seq(Int), NEW v \in Int, Matches(s, m, g)
    PROVE  Matches(s, m, Append(g, v))
<1> DEFINE D == DueIn(s, m)
<1>1. Cardinality(D) \in Nat /\ \A k \in D : Nth(D, k) \in 1 .. Cardinality(D)
  BY DueFinite
<1>2. Len(g) \in Nat /\ Len(g) >= Cardinality(D) /\ \A k \in D : g[Nth(D, k)] = s[k]
  BY DEF Matches
<1> HIDE DEF D
<1>3. /\ Len(Append(g, v)) = Len(g) + 1
      /\ \A i \in 1 .. Len(g) : Append(g, v)[i] = g[i]
  OBVIOUS
<1>4. \A k \in D : Nth(D, k) \in 1 .. Len(g)
  BY <1>1, <1>2
<1> QED
  BY <1>1, <1>2, <1>3, <1>4 DEF Matches, D

(* The instance's cardinality is that of the library's theorems.             *)
LEMMA SameCard == \A S : Packets!Cardinality(S) = Cardinality(S)
  BY DEF Packets!Cardinality, Cardinality, Packets!IsFiniteSet, IsFiniteSet

Lengths == {n \in Nat : n <= 2147483647}
Parcel(n) == [head |-> Packets!LenBuf(n), len |-> n]
Parcels == {Parcel(n) : n \in Lengths}
Consumed == Len(psent) - Len(pwire)

(* What is in flight are the packets written last, as they were written; the *)
(* reader is out of step exactly if it has passed one that is too long; and  *)
(* what it has returned is what was due, and nothing else while in step.     *)
PacketInv ==
    /\ psent \in Seq(Lengths) /\ pwire \in Seq(Parcels) /\ pgot \in Seq(Int) /\ pskew \in BOOLEAN
    /\ Len(pwire) <= Len(psent)
    /\ \A i \in 1 .. Len(pwire) : pwire[i] = Parcel(psent[Consumed + i])
    /\ pskew => \E k \in 1 .. Consumed : ~(psent[k] <= Packets!MaxPacket)
    /\ ~pskew => \A k \in 1 .. Consumed : psent[k] <= Packets!MaxPacket
    /\ Matches(psent, Consumed, pgot)
    /\ ~pskew => Len(pgot) = Cardinality(DueIn(psent, Consumed))

LEMMA ParcelFacts ==
    ASSUME NEW n \in Lengths
    PROVE  Packets!PktLen(Parcel(n).head) = n /\ Parcel(n).len = n /\ n \in Nat
<1>1. Parcel(n).head = Packets!LenBuf(n) /\ Parcel(n).len = n
  BY SMT DEF Parcel
<1>2. n \in Nat /\ n <= 2147483647
  BY SMT DEF Lengths
<1> QED
  BY <1>1, <1>2, RoundTrip, SMT

LEMMA InitPackets == Packets!Init => PacketInv
<1> SUFFICES ASSUME Packets!Init PROVE PacketInv
  OBVIOUS
<1>1. psent = <<>> /\ pwire = <<>> /\ pgot = <<>> /\ pskew = FALSE
  BY DEF Packets!Init
<1>2. psent \in Seq(Lengths) /\ pwire \in Seq(Parcels) /\ pgot \in Seq(Int)
  BY <1>1
<1>3. Len(psent) = 0 /\ Len(pwire) = 0 /\ Len(pgot) = 0 /\ Consumed = 0
  BY <1>1 DEF Consumed
<1>4. DueIn(psent, Consumed) = {}
  BY <1>3 DEF DueIn
<1>5. Cardinality(DueIn(psent, Consumed)) = 0
  BY <1>4, FS_EmptySet
<1>6. \A k \in 1 .. Consumed : FALSE
  BY <1>3
<1>7. Matches(psent, Consumed, pgot) /\ Len(pgot) = Cardinality(DueIn(psent, Consumed))
  BY <1>3, <1>4, <1>5 DEF Matches
<1>8. Len(pwire) <= Len(psent) /\ \A i \in 1 .. Len(pwire) : FALSE
  BY <1>3
<1> QED
  BY <1>1, <1>2, <1>6, <1>7, <1>8 DEF PacketInv

LEMMA WriteKeepsPackets ==
    ASSUME PacketInv, NEW n \in PacketSizes, Packets!WritePacket(n)
    PROVE  PacketInv'
<1>1. n \in Lengths
  BY PacketAssumption, SMT DEF Lengths
<1>2. /\ psent \in Seq(Lengths) /\ pwire \in Seq(Parcels) /\ Parcel(n) \in Parcels
      /\ Len(psent) \in Nat /\ Len(pwire) \in Nat /\ Len(pwire) <= Len(psent)
  BY <1>1 DEF PacketInv, Parcels
<1>3. /\ psent' = Append(psent, n) /\ pwire' = Append(pwire, Parcel(n))
      /\ pgot' = pgot /\ pskew' = pskew
  BY DEF Packets!WritePacket, Parcel
<1>4. /\ psent' \in Seq(Lengths) /\ pwire' \in Seq(Parcels)
      /\ Len(psent') = Len(psent) + 1 /\ Len(pwire') = Len(pwire) + 1
      /\ psent'[Len(psent) + 1] = n /\ pwire'[Len(pwire) + 1] = Parcel(n)
      /\ \A i \in 1 .. Len(psent) : psent'[i] = psent[i]
      /\ \A i \in 1 .. Len(pwire) : pwire'[i] = pwire[i]
  BY <1>1, <1>2, <1>3
<1>5. Consumed' = Consumed /\ Consumed \in Nat /\ Consumed <= Len(psent)
  BY <1>2, <1>4 DEF Consumed
<1>6. \A k \in 1 .. Consumed : k \in 1 .. Len(psent) /\ psent'[k] = psent[k]
  BY <1>2, <1>4, <1>5
<1>7. \A i \in 1 .. Len(pwire') : pwire'[i] = Parcel(psent'[Consumed' + i])
  <2> SUFFICES ASSUME NEW i \in 1 .. Len(pwire') PROVE pwire'[i] = Parcel(psent'[Consumed + i])
    BY <1>5
  <2>1. CASE i = Len(pwire) + 1
    <3>1. Consumed + i = Len(psent) + 1
      BY <1>2, <2>1 DEF Consumed
    <3> QED
      BY <1>4, <2>1, <3>1
  <2>2. CASE i # Len(pwire) + 1
    <3>1. i \in 1 .. Len(pwire) /\ Consumed + i \in 1 .. Len(psent)
      BY <1>2, <1>4, <2>2 DEF Consumed
    <3> QED
      BY <1>4, <3>1 DEF PacketInv
  <2> QED
    BY <2>1, <2>2
<1>8. DueIn(psent', Consumed) = DueIn(psent, Consumed)
  <2>1. \A k \in 1 .. Consumed : \A j \in 1 .. k : j \in 1 .. Consumed
    BY <1>5
  <2>2. \A k : k \in DueIn(psent', Consumed) <=> k \in DueIn(psent, Consumed)
    BY <1>6, <2>1 DEF DueIn
  <2> QED
    BY <2>2
<1>9. Matches(psent', Consumed, pgot)
  BY <1>6, <1>8 DEF PacketInv, Matches, DueIn
<1>10. /\ pskew' => \E k \in 1 .. Consumed' : ~(psent'[k] <= Packets!MaxPacket)
       /\ ~pskew' => \A k \in 1 .. Consumed' : psent'[k] <= Packets!MaxPacket
  BY <1>3, <1>5, <1>6 DEF PacketInv
<1>11. Len(pwire') <= Len(psent') /\ pgot' \in Seq(Int) /\ pskew' \in BOOLEAN
  BY <1>2, <1>3, <1>4 DEF PacketInv
<1>12. /\ Matches(psent', Consumed', pgot')
       /\ ~pskew' => Len(pgot') = Cardinality(DueIn(psent', Consumed'))
  BY <1>3, <1>5, <1>8, <1>9 DEF PacketInv
<1> QED
  BY <1>4, <1>7, <1>10, <1>11, <1>12 DEF PacketInv

LEMMA ReadKeepsPackets ==
    ASSUME PacketInv, Packets!ReadPacket
    PROVE  PacketInv'
<1> DEFINE m == Consumed
           n == psent[m + 1]
<1>1. /\ psent \in Seq(Lengths) /\ pwire \in Seq(Parcels) /\ pgot \in Seq(Int)
      /\ pskew \in BOOLEAN /\ pwire # <<>>
      /\ Len(psent) \in Nat /\ Len(pwire) \in Nat /\ Len(pwire) <= Len(psent)
  BY DEF PacketInv, Packets!ReadPacket
<1>2. Len(pwire) >= 1
  BY <1>1, EmptySeq
<1>3. psent' = psent /\ pwire' = Tail(pwire) /\ Head(pwire) = pwire[1]
  BY <1>1 DEF Packets!ReadPacket
<1>4. /\ pwire' \in Seq(Parcels) /\ Len(pwire') = Len(pwire) - 1
      /\ \A i \in 1 .. Len(pwire') : pwire'[i] = pwire[i + 1]
  BY <1>1, <1>2, <1>3
<1>5. m \in Nat /\ m + 1 \in 1 .. Len(psent) /\ Consumed' = m + 1
  BY <1>1, <1>2, <1>3, <1>4 DEF Consumed
<1>6. n \in Lengths /\ pwire[1] = Parcel(n)
  <2>1. 1 \in 1 .. Len(pwire)
    BY <1>1, <1>2
  <2> QED
    BY <1>1, <1>5, <2>1 DEF PacketInv
<1>7. Packets!PktLen(Head(pwire).head) = n /\ Head(pwire).len = n /\ n \in Nat
  BY <1>3, <1>6, ParcelFacts
<1>8. \A i \in 1 .. Len(pwire') : pwire'[i] = Parcel(psent'[Consumed' + i])
  <2> SUFFICES ASSUME NEW i \in 1 .. Len(pwire') PROVE pwire'[i] = Parcel(psent[m + 1 + i])
    BY <1>3, <1>5
  <2>1. i + 1 \in 1 .. Len(pwire) /\ m + (i + 1) = m + 1 + i
    BY <1>1, <1>2, <1>4, <1>5
  <2> QED
    BY <1>4, <2>1 DEF PacketInv
<1>9. Matches(psent, m, pgot) /\ (~pskew => Len(pgot) = Cardinality(DueIn(psent, m)))
  BY DEF PacketInv
<1>10. /\ pskew => \E k \in 1 .. m : ~(psent[k] <= Packets!MaxPacket)
       /\ ~pskew => \A k \in 1 .. m : psent[k] <= Packets!MaxPacket
  BY DEF PacketInv
<1>11. \A k : k \in 1 .. m + 1 <=> k \in 1 .. m \/ k = m + 1
  BY <1>5
<1>12. Cardinality(DueIn(psent, m)) \in Nat
       /\ \A k \in DueIn(psent, m) : Nth(DueIn(psent, m), k) \in 1 .. Cardinality(DueIn(psent, m))
  BY <1>5, DueFinite
<1> HIDE DEF m, n
<1>13. ASSUME pgot' \in Seq(Int), pskew' \in BOOLEAN, Matches(psent, m + 1, pgot'),
              ~pskew' => Len(pgot') = Cardinality(DueIn(psent, m + 1)),
              pskew' => \E k \in 1 .. m + 1 : ~(psent[k] <= Packets!MaxPacket),
              ~pskew' => \A k \in 1 .. m + 1 : psent[k] <= Packets!MaxPacket
       PROVE  PacketInv'
  <2>1. Len(pwire') <= Len(psent')
    BY <1>1, <1>3, <1>4
  <2> QED
    BY <1>1, <1>3, <1>4, <1>5, <1>8, <1>13, <2>1 DEF PacketInv
<1>14. CASE ~pskew /\ Packets!Accepted(n) /\ pgot' = Append(pgot, n) /\ UNCHANGED pskew
  <2>1. n > 0 /\ n <= Packets!MaxPacket
    BY <1>14 DEF Packets!Accepted
  <2>2. \A k \in 1 .. m + 1 : psent[k] <= Packets!MaxPacket
    BY <1>10, <1>11, <1>14, <2>1 DEF n
  <2>3. /\ DueIn(psent, m + 1) = DueIn(psent, m) \cup {m + 1}
        /\ Cardinality(DueIn(psent, m + 1)) = Cardinality(DueIn(psent, m)) + 1
        /\ Nth(DueIn(psent, m + 1), m + 1) = Cardinality(DueIn(psent, m)) + 1
        /\ \A k \in DueIn(psent, m) : Nth(DueIn(psent, m + 1), k) = Nth(DueIn(psent, m), k)
    BY <1>5, <2>1, <2>2, NextDue DEF n
  <2>4. /\ n \in Int /\ pgot' \in Seq(Int) /\ Len(pgot') = Len(pgot) + 1
        /\ pgot'[Len(pgot) + 1] = n /\ \A i \in 1 .. Len(pgot) : pgot'[i] = pgot[i]
    BY <1>1, <1>7, <1>14
  <2>5. Len(pgot) = Cardinality(DueIn(psent, m))
    BY <1>9, <1>14
  <2>6. \A k \in DueIn(psent, m) : pgot[Nth(DueIn(psent, m), k)] = psent[k]
    BY <1>9 DEF Matches
  <2>7. \A k \in DueIn(psent, m + 1) : pgot'[Nth(DueIn(psent, m + 1), k)] = psent[k]
    <3>1. \A k \in DueIn(psent, m) : pgot'[Nth(DueIn(psent, m + 1), k)] = psent[k]
      BY <1>12, <2>3, <2>4, <2>5, <2>6
    <3>2. pgot'[Nth(DueIn(psent, m + 1), m + 1)] = psent[m + 1]
      BY <2>3, <2>4, <2>5 DEF n
    <3> QED
      BY <2>3, <3>1, <3>2
  <2>8. Len(pgot') = Cardinality(DueIn(psent, m + 1))
    BY <2>3, <2>4, <2>5
  <2>9. Matches(psent, m + 1, pgot')
    BY <1>12, <2>3, <2>7, <2>8 DEF Matches
  <2> QED
    BY <1>1, <1>13, <1>14, <2>2, <2>4, <2>8, <2>9
<1>15. CASE ~pskew /\ ~Packets!Accepted(n) /\ pskew' = (n > 0) /\ UNCHANGED pgot
  <2>1. ~(n > 0) \/ ~(n <= Packets!MaxPacket)
    BY <1>15 DEF Packets!Accepted
  <2>2. DueIn(psent, m + 1) = DueIn(psent, m)
    BY <1>5, <1>11, <2>1, NotDue DEF n
  <2>3. Matches(psent, m + 1, pgot)
    BY <1>9, <2>2 DEF Matches
  <2>4. CASE n > 0
    <3>1. pskew' = TRUE /\ \E k \in 1 .. m + 1 : ~(psent[k] <= Packets!MaxPacket)
      BY <1>11, <1>15, <2>1, <2>4 DEF n
    <3> QED
      BY <1>1, <1>13, <1>15, <2>3, <3>1
  <2>5. CASE ~(n > 0)
    <3>1. 0 <= Packets!MaxPacket
      BY SMT DEF Packets!MaxPacket
    <3>2. n <= Packets!MaxPacket
      BY <1>7, <2>5, <3>1
    <3>3. ~pskew' /\ pskew' \in BOOLEAN
      <4>1. pskew' = (n > 0)
        BY <1>15
      <4>2. pskew' \in BOOLEAN
        BY <4>1
      <4> QED
        BY <2>5, <4>1, <4>2
    <3>4. \A k \in 1 .. m : psent[k] <= Packets!MaxPacket
      BY <1>10, <1>15
    <3>5. \A k \in 1 .. m + 1 : psent[k] <= Packets!MaxPacket
      BY <1>11, <3>2, <3>4 DEF n
    <3> QED
      BY <1>1, <1>9, <1>13, <1>15, <2>2, <2>3, <3>3, <3>5
  <2> QED
    BY <2>4, <2>5
<1>16. CASE pskew /\ pgot' \in {pgot, Append(pgot, Packets!Junk)} /\ UNCHANGED pskew
  <2>1. \E k \in 1 .. m + 1 : ~(psent[k] <= Packets!MaxPacket)
    BY <1>10, <1>11, <1>16
  <2>2. DueIn(psent, m + 1) = DueIn(psent, m)
    BY <1>5, <2>1, NotDue
  <2>3. Packets!Junk \in Int
    BY DEF Packets!Junk
  <2>4. pgot' \in Seq(Int) /\ Matches(psent, m, pgot')
    <3>1. CASE pgot' = pgot
      BY <1>1, <1>9, <3>1
    <3>2. CASE pgot' = Append(pgot, Packets!Junk)
      <4>1. Append(pgot, Packets!Junk) \in Seq(Int)
        BY <1>1, <2>3
      <4>2. Matches(psent, m, Append(pgot, Packets!Junk))
        BY <1>1, <1>5, <1>9, <2>3, MatchesMore
      <4> QED
        BY <3>2, <4>1, <4>2
    <3> QED
      BY <1>16, <3>1, <3>2
  <2>5. Matches(psent, m + 1, pgot')
    BY <2>2, <2>4 DEF Matches
  <2> QED
    BY <1>1, <1>13, <1>16, <2>1, <2>4, <2>5
<1> QED
  BY <1>7, <1>14, <1>15, <1>16 DEF Packets!ReadPacket

LEMMA OrderOfPackets == PacketInv => Packets!PacketsInOrder
<1> SUFFICES ASSUME PacketInv PROVE Packets!PacketsInOrder
  OBVIOUS
<1> DEFINE m == Len(psent) - Len(pwire)
           read == SubSeq(psent, 1, m)
           due == {k \in DOMAIN read : read[k] > 0 /\ \A j \in 1 .. k : read[j] <= Packets!MaxPacket}
           nth(k) == Packets!Cardinality({j \in due : j <= k})
<1>1. psent \in Seq(Lengths) /\ Len(psent) \in Nat /\ Len(pwire) \in Nat
      /\ Len(pwire) <= Len(psent) /\ m = Consumed
  BY DEF PacketInv, Consumed
<1>2. m \in Nat /\ m <= Len(psent)
  BY <1>1
<1> HIDE DEF m
<1>3. DOMAIN read = 1 .. m /\ \A k \in 1 .. m : read[k] = psent[k]
  BY <1>1, <1>2
<1> HIDE DEF read
<1>4. due = DueIn(psent, m)
  <2>1. \A k \in 1 .. m : \A j \in 1 .. k : j \in 1 .. m
    BY <1>2
  <2>2. \A k : k \in due <=> k \in DueIn(psent, m)
    BY <1>3, <2>1 DEF DueIn
  <2> QED
    BY <2>2
<1> HIDE DEF due
<1>5. /\ Len(pgot) >= Packets!Cardinality(due) /\ (~pskew => Len(pgot) = Packets!Cardinality(due))
      /\ \A k \in due : k \in 1 .. m /\ pgot[nth(k)] = psent[k]
  BY <1>1, <1>4, SameCard DEF PacketInv, Matches, Nth, DueIn
<1>6. \A k \in due : pgot[nth(k)] = read[k]
  BY <1>3, <1>5
<1> QED
  BY <1>5, <1>6 DEF Packets!PacketsInOrder, read, due, m

LEMMA PacketsHold == Spec => []PacketInv
<1>1. Init => PacketInv
  BY InitPackets DEF Init
<1>2. PacketInv /\ [Next]_vars => PacketInv'
  <2> SUFFICES ASSUME PacketInv, [Packets!Next]_(Packets!pvars) PROVE PacketInv'
    BY PacketStep
  <2>1. CASE UNCHANGED Packets!pvars
    BY <2>1 DEF Packets!pvars, PacketInv, Consumed
  <2> QED
    BY <2>1, ReadKeepsPackets, WriteKeepsPackets DEF Packets!Next
<1> QED
  BY <1>1, <1>2, PTL DEF Spec

(* What Read returns on a secure connection is what the peer wrote, in order *)
(* and from the first, for every length written, those that do not fit the   *)
(* 16-bit prefix included; and ReadPacket of a transport stream returns the  *)
(* packets written, up to the first that is too long.                        *)
THEOREM FramesCorrect == Spec => []FramesInOrder
<1>1. Secure!SecureInv /\ Secure!Received => Secure!FramesInOrder
  BY Secure!OrderFollows DEF Secure!SecureInv
<1>2. Secure!SecureInv /\ Secure!Received /\ PacketInv => FramesInOrder
  BY <1>1, OrderOfPackets DEF FramesInOrder
<1> QED
  BY SecureHolds, PacketsHold, <1>2, PTL

----------------------------------------------------------------------------
(* The kill switch's rules                                                   *)

RulesGoing == kpc \in {"undoing", "removing"}

FirewallTypes ==
    /\ impl \in Firewall!Switches /\ os \in Firewall!Systems /\ kstate \in BOOLEAN
    /\ kpc \in {"off", "idle", "adding", "undoing", "removing"} /\ kstep \in Nat

(* While Enable runs, the first kstep rules are in force, and a switch that  *)
(* was enabled before has them all; of the macOS security switch, which may  *)
(* fail to turn pf on and goes on, this says nothing.                        *)
RulesComing ==
    /\ kpc = "off" => ~kstate
    /\ kpc = "adding" => kstep <= Len(Firewall!Mine)
    /\ kpc = "adding" /\ ~Firewall!OnlyPf => \A k \in 1 .. kstep : Firewall!Mine[k] \in fw
    /\ kpc = "adding" /\ impl = "security" => ~kstate
    /\ kpc \in {"idle", "adding"} /\ kstate /\ ~Firewall!OnlyPf => Firewall!Own \subseteq fw

(* While Disable runs, or undoes an Enable, a rule that its turn has passed  *)
(* is in force only because its removal failed.  Until the first command the *)
(* rules of an enabled switch are whole: a failure may leave it enabled.     *)
RulesUndone ==
    /\ kpc = "undoing" => impl = "security"
    /\ RulesGoing => kstep <= Firewall!Commands
    /\ RulesGoing /\ os = "windows" =>
          \A k \in 1 .. kstep : Firewall!Mine[k] \in fw => Firewall!Mine[k] \in stale
    /\ RulesGoing /\ os # "windows" /\ kstep # 0 => fw \cap Firewall!Own \subseteq stale
    /\ kpc = "removing" /\ kstep = 0 /\ kstate /\ ~Firewall!OnlyPf => Firewall!Own \subseteq fw
    /\ kpc = "adding" /\ kstep = 0 /\ impl = "security" => fw \cap Firewall!Own \subseteq stale
    /\ kpc = "idle" /\ impl = "security" /\ ~kstate => fw \cap Firewall!Own \subseteq stale

FirewallInv == FirewallTypes /\ RulesComing /\ RulesUndone

(* The lists name no rule and no policy of others, and the one that has no   *)
(* rule has one command.                                                     *)
LEMMA RulesFacts ==
    ASSUME NEW i \in Firewall!Switches, NEW o \in Firewall!Systems
    PROVE  /\ Len(Firewall!Rules(i, o)) \in Nat
           /\ DOMAIN Firewall!Rules(i, o) = 1 .. Len(Firewall!Rules(i, o))
           /\ \A k \in 1 .. Len(Firewall!Rules(i, o)) :
                 Firewall!Rules(i, o)[k] \notin {Firewall!Foreign, Firewall!Policy}
           /\ o = "darwin" => Len(Firewall!Rules(i, o)) = 1
<1>1. CASE i = "security" /\ o = "windows"
  BY <1>1 DEF Firewall!Rules, Firewall!Foreign, Firewall!Policy
<1>2. CASE i = "platform" /\ o = "windows"
  BY <1>2 DEF Firewall!Rules, Firewall!Foreign, Firewall!Policy
<1>3. CASE i = "security" /\ o = "linux"
  BY <1>3 DEF Firewall!Rules, Firewall!Foreign, Firewall!Policy
<1>4. CASE i = "platform" /\ o = "linux"
  BY <1>4 DEF Firewall!Rules, Firewall!Foreign, Firewall!Policy
<1>5. CASE i = "security" /\ o = "darwin"
  BY <1>5 DEF Firewall!Rules, Firewall!Foreign, Firewall!Policy
<1>6. CASE i = "platform" /\ o = "darwin"
  BY <1>6 DEF Firewall!Rules, Firewall!Foreign, Firewall!Policy
<1> QED
  BY <1>1, <1>2, <1>3, <1>4, <1>5, <1>6 DEF Firewall!Switches, Firewall!Systems

(* The same of the rules of the switch at hand.                              *)
LEMMA MineFacts ==
    ASSUME FirewallTypes
    PROVE  /\ Len(Firewall!Mine) \in Nat
           /\ Firewall!Own = {Firewall!Mine[k] : k \in 1 .. Len(Firewall!Mine)}
           /\ Firewall!Foreign \notin Firewall!Own /\ Firewall!Policy \notin Firewall!Own
           /\ os = "darwin" => Len(Firewall!Mine) = 1
<1>1. /\ Len(Firewall!Mine) \in Nat /\ DOMAIN Firewall!Mine = 1 .. Len(Firewall!Mine)
      /\ \A k \in 1 .. Len(Firewall!Mine) :
            Firewall!Mine[k] \notin {Firewall!Foreign, Firewall!Policy}
      /\ os = "darwin" => Len(Firewall!Mine) = 1
  BY RulesFacts DEF Firewall!Mine, FirewallTypes
<1>2. Firewall!Own = {Firewall!Mine[k] : k \in 1 .. Len(Firewall!Mine)}
  BY <1>1 DEF Firewall!Own, Firewall!ToSet
<1> QED
  BY <1>1, <1>2

LEMMA InitFirewall == Firewall!Init => FirewallInv
<1> SUFFICES ASSUME Firewall!Init PROVE FirewallInv
  OBVIOUS
<1>1. FirewallTypes
  BY DEF Firewall!Init, FirewallTypes, Firewall!Switches, Firewall!Systems
<1>2. RulesComing /\ RulesUndone
  BY DEF Firewall!Init, RulesComing, RulesUndone, RulesGoing
<1> QED
  BY <1>1, <1>2 DEF FirewallInv

LEMMA NextFirewall ==
    ASSUME FirewallInv, [Firewall!Next]_(Firewall!fvars)
    PROVE  FirewallInv'
<1> USE DEF FirewallInv
<1>0. /\ Len(Firewall!Mine) \in Nat
      /\ Firewall!Own = {Firewall!Mine[k] : k \in 1 .. Len(Firewall!Mine)}
      /\ Firewall!Policy \notin Firewall!Own
      /\ os = "darwin" => Len(Firewall!Mine) = 1
  BY MineFacts
<1>a. ASSUME impl' = impl, os' = os
      PROVE  /\ Firewall!Mine' = Firewall!Mine /\ Firewall!Own' = Firewall!Own
             /\ Firewall!OnlyPf' <=> Firewall!OnlyPf
  BY <1>a DEF Firewall!Mine, Firewall!Own, Firewall!OnlyPf
<1>d. kstep \in Nat
  BY DEF FirewallTypes
<1>e. ASSUME os = "darwin", kstep < Len(Firewall!Mine)
      PROVE  kstep = 0 /\ Len(Firewall!Mine) = 1
  <2>1. Len(Firewall!Mine) = 1
    BY <1>0, <1>e
  <2> QED
    BY <1>d, <1>e, <2>1
<1>1. ASSUME NEW i \in Firewall!Switches, NEW o \in Firewall!Systems,
             NEW f \in SUBSET {Firewall!Foreign, Firewall!Policy}, Firewall!New(i, o, f)
      PROVE  FirewallInv'
  <2>1. FirewallTypes'
    BY <1>1 DEF Firewall!New, FirewallTypes
  <2>2. Firewall!Foreign \notin Firewall!Own' /\ Firewall!Policy \notin Firewall!Own'
    BY <2>1, RulesFacts DEF FirewallTypes, Firewall!Mine, Firewall!Own, Firewall!ToSet
  <2> QED
    BY <1>1, <2>1, <2>2 DEF Firewall!New, FirewallTypes, RulesComing, RulesUndone, RulesGoing
<1>2. CASE Firewall!Enable
  BY <1>0, <1>a, <1>2 DEF Firewall!Enable, FirewallTypes, RulesComing, RulesUndone, RulesGoing
<1>3. CASE Firewall!AddRule
  <2>1. /\ kpc = "adding" /\ kpc' = "adding" /\ kstep < Len(Firewall!Mine) /\ kstep' = kstep + 1
        /\ fw' = Firewall!Kept \cup {Firewall!Mine[kstep + 1]}
        /\ UNCHANGED <<impl, os, kstate>>
    BY <1>3 DEF Firewall!AddRule
  <2>2. FirewallTypes'
    BY <2>1 DEF FirewallTypes
  <2>3. CASE os = "darwin" /\ impl = "platform"
    <3>1. kstep = 0 /\ Len(Firewall!Mine) = 1
      BY <1>e, <2>1, <2>3
    <3>2. fw' = {Firewall!Mine[1]}
      BY <2>1, <2>3, <3>1 DEF Firewall!Kept
    <3>3. Firewall!Own = {Firewall!Mine[1]}
      <4>1. \A x : x \in {Firewall!Mine[k] : k \in 1 .. Len(Firewall!Mine)} <=> x = Firewall!Mine[1]
        BY <3>1
      <4> QED
        BY <1>0, <4>1
    <3> QED
      BY <1>0, <1>a, <2>1, <2>2, <2>3, <3>1, <3>2, <3>3 DEF FirewallTypes, RulesComing, RulesUndone, RulesGoing
  <2>4. CASE ~(os = "darwin" /\ impl = "platform")
    <3>1. fw' = fw \cup {Firewall!Mine[kstep + 1]}
      BY <2>1, <2>4 DEF Firewall!Kept
    <3> QED
      BY <1>0, <1>a, <2>1, <2>2, <3>1 DEF FirewallTypes, RulesComing, RulesUndone, RulesGoing
  <2> QED
    BY <2>3, <2>4
<1>4. CASE Firewall!Added
  BY <1>0, <1>a, <1>4 DEF Firewall!Added, FirewallTypes, RulesComing, RulesUndone, RulesGoing
<1>5. CASE Firewall!AddFails
  <2>1. /\ kpc = "adding" /\ kstep' = 0 /\ UNCHANGED <<impl, os, fw, kstate, stale>>
        /\ kpc' = IF impl = "security" /\ os # "darwin" THEN "undoing" ELSE "idle"
        /\ kstep < Len(Firewall!Mine)
    BY <1>5 DEF Firewall!AddFails, Firewall!OnlyPf
  <2>2. FirewallTypes' /\ RulesComing'
    BY <1>0, <1>a, <2>1 DEF FirewallTypes, RulesComing
  <2>3. Firewall!Commands' \in Nat
    BY <1>0, <1>a, <2>1 DEF Firewall!Commands
  <2>4. RulesUndone'
    <3>1. CASE impl = "security" /\ os # "darwin"
      BY <1>0, <1>a, <2>1, <2>3, <3>1 DEF RulesUndone, RulesGoing
    <3>2. CASE impl = "security" /\ os = "darwin"
      <4>1. kstep = 0
        BY <1>e, <2>1, <3>2
      <4>2. fw \cap Firewall!Own \subseteq stale
        BY <2>1, <3>2, <4>1 DEF RulesUndone
      <4>3. kpc' = "idle" /\ fw' = fw /\ stale' = stale /\ Firewall!Own' = Firewall!Own
        BY <1>a, <2>1, <3>2
      <4> QED
        BY <4>2, <4>3 DEF RulesUndone, RulesGoing
    <3>3. CASE impl # "security"
      BY <1>0, <1>a, <2>1, <3>3 DEF RulesUndone, RulesGoing
    <3> QED
      BY <3>1, <3>2, <3>3
  <2> QED
    BY <2>2, <2>4
<1>6. CASE Firewall!Disable
  BY <1>0, <1>a, <1>6 DEF Firewall!Disable, FirewallTypes, RulesComing, RulesUndone,
         RulesGoing, Firewall!Commands
<1>b. /\ os = "windows" => Firewall!Commands = Len(Firewall!Mine)
      /\ os # "windows" => Firewall!Commands \in {1, 2}
      /\ os # "windows" /\ impl = "platform" => Firewall!Commands = 1
      /\ os = "windows" => Firewall!Deleted = {Firewall!Mine[kstep + 1]}
      /\ os # "windows" /\ kstep = 0 => Firewall!Own \cap fw \subseteq Firewall!Deleted
  BY <1>0 DEF Firewall!Commands, Firewall!Deleted, FirewallTypes, Firewall!Systems
<1>c. ASSUME impl' = impl, os' = os PROVE Firewall!Commands' = Firewall!Commands
  BY <1>a, <1>c DEF Firewall!Commands
<1>7. CASE Firewall!RemoveRules
  <2>1. /\ RulesGoing /\ RulesGoing' /\ kpc' = kpc /\ kstep < Firewall!Commands
        /\ kstep' = kstep + 1 /\ fw' = fw \ Firewall!Deleted /\ stale' = stale \ Firewall!Deleted
        /\ UNCHANGED <<impl, os, kstate>>
    BY <1>7 DEF Firewall!RemoveRules, RulesGoing
  <2>2. FirewallTypes' /\ RulesComing'
    BY <1>a, <2>1 DEF FirewallTypes, RulesComing, RulesGoing
  <2>3. ASSUME os = "windows", NEW k \in 1 .. kstep', Firewall!Mine[k] \in fw'
        PROVE  Firewall!Mine[k] \in stale'
    <3>1. Firewall!Mine[k] \in fw /\ Firewall!Mine[k] # Firewall!Mine[kstep + 1]
      BY <1>b, <2>1, <2>3
    <3>2. k \in 1 .. kstep
      BY <2>1, <2>3, <3>1 DEF FirewallTypes
    <3> QED
      BY <1>b, <2>1, <2>3, <3>1, <3>2 DEF RulesUndone
  <2>4. ASSUME os # "windows" PROVE fw' \cap Firewall!Own \subseteq stale'
    <3>1. CASE kstep = 0
      BY <1>b, <2>1, <2>4, <3>1
    <3>2. CASE kstep # 0
      BY <2>1, <2>4, <3>2 DEF RulesUndone
    <3> QED
      BY <3>1, <3>2
  <2>5. kstep' # 0 /\ kstep' <= Firewall!Commands /\ (kpc = "undoing" => impl = "security")
    BY <1>0, <1>b, <2>1 DEF RulesUndone, FirewallTypes
  <2> QED
    BY <1>a, <1>c, <2>1, <2>2, <2>3, <2>4, <2>5 DEF RulesUndone, RulesGoing
<1>8. CASE Firewall!RemoveFails
  <2>1. /\ RulesGoing /\ kstep < Firewall!Commands /\ UNCHANGED <<impl, os, fw, kstate>>
    BY <1>8 DEF Firewall!RemoveFails, RulesGoing
  <2>2. CASE impl = "platform" /\ os # "windows"
    <3>1. kpc' = "idle" /\ kstep' = 0 /\ stale' = stale
      BY <1>8, <2>2 DEF Firewall!RemoveFails
    <3> QED
      BY <1>a, <1>b, <2>1, <2>2, <3>1
         DEF FirewallTypes, RulesComing, RulesUndone, RulesGoing, Firewall!OnlyPf
  <2>3. CASE ~(impl = "platform" /\ os # "windows")
    <3>1. /\ kpc' = kpc /\ kstep' = kstep + 1
          /\ stale' = stale \cup (fw \cap Firewall!Own \cap Firewall!Deleted)
      BY <1>8, <2>3 DEF Firewall!RemoveFails
    <3>2. FirewallTypes' /\ RulesComing'
      BY <1>a, <2>1, <3>1 DEF FirewallTypes, RulesComing, RulesGoing
    <3>3. ASSUME os = "windows", NEW k \in 1 .. kstep', Firewall!Mine[k] \in fw
          PROVE  Firewall!Mine[k] \in stale'
      <4>1. CASE k \in 1 .. kstep
        BY <2>1, <3>1, <3>3, <4>1 DEF RulesUndone
      <4>2. CASE k = kstep + 1
        <5>1. k \in 1 .. Len(Firewall!Mine)
          BY <1>0, <1>b, <2>1, <3>3, <4>2 DEF FirewallTypes
        <5>2. Firewall!Mine[k] \in Firewall!Own
          BY <1>0, <5>1
        <5> QED
          BY <1>b, <3>1, <3>3, <4>2, <5>2
      <4> QED
        BY <3>1, <3>3, <4>1, <4>2 DEF FirewallTypes
    <3>4. ASSUME os # "windows" PROVE fw \cap Firewall!Own \subseteq stale'
      <4>1. CASE kstep = 0
        BY <1>b, <3>1, <3>4, <4>1
      <4>2. CASE kstep # 0
        BY <2>1, <3>1, <3>4, <4>2 DEF RulesUndone
      <4> QED
        BY <4>1, <4>2
    <3>5. kstep' # 0 /\ kstep' <= Firewall!Commands /\ (kpc = "undoing" => impl = "security")
      BY <1>0, <1>b, <2>1, <3>1 DEF RulesUndone, FirewallTypes
    <3> QED
      BY <1>a, <1>c, <2>1, <3>1, <3>2, <3>3, <3>4, <3>5 DEF RulesUndone, RulesGoing
  <2> QED
    BY <2>2, <2>3
<1>9. CASE Firewall!Removed
  <2>1. /\ RulesGoing /\ kstep = Firewall!Commands /\ kstate' = FALSE /\ kpc' = "idle"
        /\ kstep' = 0 /\ UNCHANGED <<impl, os, fw, stale>>
    BY <1>9 DEF Firewall!Removed, RulesGoing
  <2>2. fw \cap Firewall!Own \subseteq stale
    <3>1. CASE os = "windows"
      BY <1>0, <1>b, <2>1, <3>1 DEF RulesUndone, RulesGoing
    <3>2. CASE os # "windows"
      BY <1>b, <2>1, <3>2 DEF RulesUndone, RulesGoing
    <3> QED
      BY <3>1, <3>2
  <2> QED
    BY <1>a, <2>1, <2>2 DEF FirewallTypes, RulesComing, RulesUndone, RulesGoing
<1>10. CASE Firewall!Crash
  BY <1>0, <1>a, <1>10 DEF Firewall!Crash, FirewallTypes, RulesComing, RulesUndone, RulesGoing
<1>11. CASE Firewall!PfWarning
  BY <1>0, <1>a, <1>11 DEF Firewall!PfWarning, FirewallTypes, RulesComing, RulesUndone, RulesGoing
<1>12. CASE UNCHANGED Firewall!fvars
  BY <1>a, <1>12 DEF Firewall!fvars, FirewallTypes, RulesComing, RulesUndone,
         RulesGoing, Firewall!Commands
<1> QED
  BY <1>1, <1>2, <1>3, <1>4, <1>5, <1>6, <1>7, <1>8, <1>9, <1>10, <1>11, <1>12 DEF Firewall!Next

LEMMA MatchFollows == FirewallInv => Firewall!RulesMatchState
  BY DEF FirewallInv, RulesComing, RulesUndone, Firewall!RulesMatchState


(* The firewall holds all rules of a switch that says it is enabled, unless  *)
(* it is the security switch of macOS, which has none; and of a disabled     *)
(* security switch only what it failed to remove or a dead process left,     *)
(* whatever commands fail and however often the process dies.                *)
THEOREM RulesCorrect == Spec => []RulesMatchState
<1>1. Init => FirewallInv
  BY InitFirewall DEF Init
<1>2. FirewallInv /\ [Next]_vars => FirewallInv'
  BY FirewallStep, NextFirewall
<1>3. FirewallInv => RulesMatchState
  BY MatchFollows DEF RulesMatchState
<1> QED
  BY <1>1, <1>2, <1>3, PTL DEF Spec

----------------------------------------------------------------------------
(* The peer manager                                                          *)

(* The map holds the last ban, unless a query has dropped it as expired, and *)
(* then it stays expired, since the clock does not go back.                  *)
BanKept(p) ==
    /\ blocked[p] \in Int /\ ban[p] \in Int /\ promise[p] \in Int /\ ban[p] <= promise[p]
    /\ blocked[p] = ban[p] \/ (blocked[p] = -1 /\ now > ban[p])

PeerInv ==
    /\ now \in Nat /\ DOMAIN blocked = BanPeers /\ DOMAIN ban = BanPeers
    /\ DOMAIN promise = BanPeers
    /\ DOMAIN trust = BanPeers
    /\ \A p \in BanPeers : BanKept(p) /\ trust[p] \in -1 .. 100

LEMMA NextPeers ==
    ASSUME PeerInv, [Peers!Next]_(Peers!bvars)
    PROVE  PeerInv'
<1> USE DEF PeerInv, BanKept
<1>1. CASE Peers!Tick
  BY <1>1 DEF Peers!Tick
<1>2. CASE Peers!AskKicked
  BY <1>2 DEF Peers!AskKicked
<1>3. ASSUME NEW p \in BanPeers, NEW d \in Bans, Peers!KickPeer(p, d) PROVE PeerInv'
  BY <1>3, ComponentsAssumption DEF Peers!KickPeer, Peers!Promised, Peers!Later
<1>4. ASSUME NEW p \in BanPeers, Peers!BlockPeer(p) PROVE PeerInv'
  <2>1. 100 * MaxTime \in Nat
    BY ComponentsAssumption
  <2> QED
    BY <1>4, <2>1 DEF Peers!BlockPeer, Peers!Forever, Peers!Promised, Peers!Later
<1>5. ASSUME NEW p \in BanPeers, Peers!UnblockPeer(p) PROVE PeerInv'
  BY <1>5 DEF Peers!UnblockPeer, Peers!Never
<1>6. ASSUME NEW p \in BanPeers, Peers!AskBlocked(p) PROVE PeerInv'
  BY <1>6 DEF Peers!AskBlocked, Peers!Expired, Peers!Never
<1>7. ASSUME NEW p \in BanPeers, NEW l \in Levels, Peers!SetTrustLevel(p, l) PROVE PeerInv'
  <2>1. Peers!Clamp(l) \in 0 .. 100
    BY ComponentsAssumption DEF Peers!Clamp
  <2> QED
    BY <1>7, <2>1 DEF Peers!SetTrustLevel
<1>8. CASE UNCHANGED Peers!bvars
  BY <1>8 DEF Peers!bvars
<1> QED
  BY <1>1, <1>2, <1>3, <1>4, <1>5, <1>6, <1>7, <1>8 DEF Peers!Next

(* Whatever is banned, lifted and asked, and however the time passes, a peer *)
(* is blocked while its last ban runs and not after the end of the longest   *)
(* of its bans (peer_manager.go).                                            *)
THEOREM BansCorrect == Spec => []BansHold
<1>1. Init => PeerInv
  BY DEF Init, Peers!Init, Peers!Never, PeerInv, BanKept
<1>2. PeerInv /\ [Next]_vars => PeerInv'
  BY PeerStep, NextPeers
<1>3. PeerInv => BansHold
  <2> SUFFICES ASSUME PeerInv PROVE BansHold
    OBVIOUS
  <2>1. \A p \in BanPeers : /\ now <= ban[p] => ~Peers!Expired(p)
                            /\ ~Peers!Expired(p) => now <= promise[p]
    BY DEF PeerInv, BanKept, Peers!Expired
  <2>2. \A p \in BanPeers : Peers!GetTrustLevel(p) \in 0 .. 100
    BY DEF PeerInv, Peers!GetTrustLevel, Peers!Never
  <2>3. \A p \in BanPeers : /\ now < ban[p] => now < blocked[p]
                            /\ now < blocked[p] => now < promise[p]
    BY DEF PeerInv, BanKept
  <2> QED
    BY <2>1, <2>2, <2>3 DEF BansHold, Peers!BansHold, Peers!ListBlockedPeers
<1> QED
  BY <1>1, <1>2, <1>3, PTL DEF Spec

----------------------------------------------------------------------------
(* The windows of the control service                                        *)

(* The calls of a bucket that passed in the window that begins at `from',    *)
(* and those that passed in the one that ends at t.                          *)
During(a, from) == {k \in DOMAIN a : a[k] \in from .. from + Window - 1}
Recent(a, t) == {k \in DOMAIN a : a[k] > t - Window}

(* A bucket at time t: what it keeps of the calls that passed (a) is right   *)
(* and holds all the recent ones, and no window has more than l of them.     *)
(* That the kept times are enough to count with is what makes it inductive.  *)
Book(r, a, t, l) ==
    /\ a \in Seq(Nat)
    /\ \A k \in DOMAIN a : a[k] <= t
    /\ \A k \in DOMAIN r : k \in DOMAIN a /\ r[k] = a[k]
    /\ Recent(a, t) \subseteq DOMAIN r
    /\ \A from \in Nat : Cardinality(During(a, from)) <= l

LimiterInv ==
    /\ cnow \in Nat /\ importing \in Nat /\ spent \in Nat /\ wrong = FALSE
    /\ requests = [b \in Limiter!Buckets |-> requests[b]]
    /\ admitted = [b \in Limiter!Buckets |-> admitted[b]]
    /\ \A b \in Limiter!Buckets : Book(requests[b], admitted[b], cnow, Limiter!Limit(b))
    /\ spent + importing <= Len(admitted["import"])

LEMMA LimiterCard == \A S : Limiter!Cardinality(S) = Cardinality(S)
  BY DEF Limiter!Cardinality, Cardinality, Limiter!IsFiniteSet, IsFiniteSet

LEMMA LimitNat == \A b : Limiter!Limit(b) \in Nat
  BY ComponentsAssumption DEF Limiter!Limit

LEMMA BookFinite ==
    ASSUME NEW a \in Seq(Nat), NEW t
    PROVE  /\ IsFiniteSet(Recent(a, t)) /\ Cardinality(Recent(a, t)) \in Nat
           /\ \A from : IsFiniteSet(During(a, from)) /\ Cardinality(During(a, from)) \in Nat
<1>1. DOMAIN a = 1 .. Len(a) /\ Len(a) \in Nat
  BY LenProperties
<1>2. IsFiniteSet(DOMAIN a)
  BY <1>1, FS_Interval
<1>3. Recent(a, t) \subseteq DOMAIN a /\ \A from : During(a, from) \subseteq DOMAIN a
  BY DEF Recent, During
<1> QED
  BY <1>2, <1>3, FS_Subset, FS_CardinalityType

(* What allow keeps are the times of the recent calls, all of them.          *)
LEMMA KeptIsRecent ==
    ASSUME NEW r, NEW a, NEW l, cnow \in Nat, Book(r, a, cnow, l)
    PROVE  /\ DOMAIN Limiter!Kept(r) = Recent(a, cnow)
           /\ \A k \in Recent(a, cnow) : Limiter!Kept(r)[k] = a[k]
  BY DEF Book, Recent, Limiter!Kept

(* As the clock goes on no call becomes recent.                              *)
LEMMA BookAdvances ==
    ASSUME NEW r, NEW a, NEW l, NEW t \in Nat, Book(r, a, t, l)
    PROVE  Book(r, a, t + 1, l)
<1>1. \A k \in DOMAIN a : a[k] \in Nat
  BY ElementOfSeq, LenProperties DEF Book
<1>2. Recent(a, t + 1) \subseteq Recent(a, t)
  BY <1>1, ComponentsAssumption DEF Recent
<1>3. \A k \in DOMAIN a : a[k] <= t + 1
  BY <1>1 DEF Book
<1> QED
  BY <1>2, <1>3 DEF Book

(* A refused call only drops times that are no longer recent.                *)
LEMMA BookRefuses ==
    ASSUME NEW r, NEW a, NEW l, cnow \in Nat, Book(r, a, cnow, l)
    PROVE  Book(Limiter!Kept(r), a, cnow, l)
<1>1. \A k \in DOMAIN Limiter!Kept(r) : k \in DOMAIN a /\ Limiter!Kept(r)[k] = a[k]
  BY KeptIsRecent DEF Recent
<1> QED
  BY <1>1, KeptIsRecent DEF Book

(* A call that passes when fewer than l are recent: only windows that begin  *)
(* within the last Window ticks hold it, and all their calls are recent.     *)
LEMMA BookAdmits ==
    ASSUME NEW r, NEW a, NEW l \in Nat, cnow \in Nat, Book(r, a, cnow, l),
           Cardinality(Recent(a, cnow)) < l
    PROVE  Book(Limiter!Stamped(Limiter!Kept(r), Len(a) + 1), Append(a, cnow), cnow, l)
<1> DEFINE n == Len(a) + 1
           e == Append(a, cnow)
           s == Limiter!Stamped(Limiter!Kept(r), n)
           R == Recent(a, cnow)
<1>1. /\ a \in Seq(Nat) /\ Len(a) \in Nat /\ DOMAIN a = 1 .. Len(a)
      /\ \A k \in DOMAIN a : a[k] \in Nat /\ a[k] <= cnow
  BY ElementOfSeq, LenProperties DEF Book
<1>2. /\ e \in Seq(Nat) /\ Len(e) = n /\ DOMAIN e = 1 .. n /\ e[n] = cnow
      /\ \A k \in DOMAIN a : e[k] = a[k]
  BY <1>1, AppendProperties, LenProperties
<1>3. DOMAIN e = DOMAIN a \cup {n} /\ n \notin DOMAIN a
  BY <1>1, <1>2
<1>4. /\ DOMAIN s = R \cup {n} /\ s[n] = cnow
      /\ \A k \in R : k # n => s[k] = a[k]
  BY KeptIsRecent DEF Limiter!Stamped
<1>5. R \subseteq DOMAIN a
  BY DEF Recent
<1> HIDE DEF n, e, s
<1>6. \A k \in DOMAIN s : k \in DOMAIN e /\ s[k] = e[k]
  BY <1>2, <1>3, <1>4, <1>5
<1>7. Recent(e, cnow) \subseteq DOMAIN s
  BY <1>2, <1>3, <1>4 DEF Recent
<1>8. ASSUME NEW k \in DOMAIN e PROVE e[k] <= cnow
  <2>1. CASE k \in DOMAIN a
    BY <1>1, <1>2, <2>1
  <2>2. CASE k = n
    BY <1>2, <2>2
  <2> QED
    BY <1>3, <2>1, <2>2
<1>9. ASSUME NEW from \in Nat PROVE Cardinality(During(e, from)) <= l
  <2>1. CASE from > cnow - Window
    <3>1. \A k \in DOMAIN a : a[k] >= from => k \in R
      BY <1>1, <2>1, ComponentsAssumption DEF Recent
    <3>2. ASSUME NEW k \in During(e, from) PROVE k \in R \cup {n}
      <4>1. k \in DOMAIN e /\ e[k] \in from .. from + Window - 1
        BY DEF During
      <4>2. e[k] >= from
        BY <4>1, ComponentsAssumption
      <4> QED
        BY <4>1, <4>2, <3>1, <1>2, <1>3
    <3>3. IsFiniteSet(R) /\ Cardinality(R) \in Nat
      BY <1>1, BookFinite
    <3>4. IsFiniteSet(R \cup {n}) /\ Cardinality(R \cup {n}) = Cardinality(R) + 1
      BY <3>3, <1>3, <1>5, FS_AddElement
    <3>a. During(e, from) \subseteq R \cup {n}
      BY <3>2
    <3>5. Cardinality(During(e, from)) <= Cardinality(R \cup {n})
      BY <3>a, <3>4, FS_Subset
    <3>6. Cardinality(During(e, from)) \in Nat
      BY <1>2, BookFinite
    <3> QED
      BY <3>3, <3>4, <3>5, <3>6
  <2>2. CASE ~(from > cnow - Window)
    <3>1. ~(cnow \in from .. from + Window - 1)
      BY <2>2, ComponentsAssumption
    <3>2. During(e, from) = During(a, from)
      BY <3>1, <1>2, <1>3 DEF During
    <3> QED
      BY <3>2 DEF Book
  <2> QED
    BY <2>1, <2>2
<1>10. Book(s, e, cnow, l)
  BY <1>2, <1>6, <1>7, <1>8, <1>9 DEF Book
<1> QED
  BY <1>10 DEF n, e, s

(* The two critical sections of an import count separately.                  *)
LEMMA AllowKeeps ==
    ASSUME LimiterInv, NEW b \in Limiter!Buckets, NEW ok \in BOOLEAN, Limiter!allow(b, ok)
    PROVE  /\ cnow' = cnow /\ wrong' = FALSE
           /\ requests' = [c \in Limiter!Buckets |-> requests'[c]]
           /\ admitted' = [c \in Limiter!Buckets |-> admitted'[c]]
           /\ \A c \in Limiter!Buckets : Book(requests'[c], admitted'[c], cnow, Limiter!Limit(c))
           /\ \A c \in Limiter!Buckets :
                 Len(admitted'[c]) = IF c = b /\ ok THEN Len(admitted[c]) + 1 ELSE Len(admitted[c])
<1> DEFINE r == requests[b]
           a == admitted[b]
           l == Limiter!Limit(b)
<1>1. cnow \in Nat /\ Book(r, a, cnow, l) /\ l \in Nat /\ a \in Seq(Nat)
  BY LimitNat DEF LimiterInv, Book
<1>2. Cardinality(Recent(a, cnow)) \in Nat
  BY <1>1, BookFinite
<1>3. Limiter!Cardinality(DOMAIN Limiter!Kept(r)) = Cardinality(Recent(a, cnow))
  BY <1>1, KeptIsRecent, LimiterCard
<1>4. Limiter!InWindow(b) = Cardinality(Recent(a, cnow))
  BY LimiterCard DEF Limiter!InWindow, Recent
<1>5. ok = (Cardinality(Recent(a, cnow)) < l)
  BY <1>3 DEF Limiter!allow
<1>6. wrong' = FALSE
  <2>1. wrong' = (wrong \/ (~ok /\ Limiter!InWindow(b) < Limiter!Limit(b))) /\ wrong = FALSE
    BY DEF Limiter!allow, LimiterInv
  <2>2. ~(~ok /\ Limiter!InWindow(b) < Limiter!Limit(b))
    BY <1>4, <1>5
  <2> QED
    BY <2>1, <2>2
<1> DEFINE r2 == IF ok THEN Limiter!Stamped(Limiter!Kept(r), Len(a) + 1) ELSE Limiter!Kept(r)
           a2 == IF ok THEN Append(a, cnow) ELSE a
<1>7. /\ requests' = [requests EXCEPT ![b] = r2] /\ admitted' = [admitted EXCEPT ![b] = a2]
      /\ cnow' = cnow
  BY DEF Limiter!allow
<1>8. Book(r2, a2, cnow, l)
  BY <1>1, <1>5, BookRefuses, BookAdmits
<1>9. Len(a2) = IF ok THEN Len(a) + 1 ELSE Len(a)
  BY <1>1, AppendProperties
<1> HIDE DEF r2, a2
<1>10. /\ requests' = [c \in Limiter!Buckets |-> requests'[c]]
       /\ admitted' = [c \in Limiter!Buckets |-> admitted'[c]]
       /\ \A c \in Limiter!Buckets : /\ requests'[c] = IF c = b THEN r2 ELSE requests[c]
                                     /\ admitted'[c] = IF c = b THEN a2 ELSE admitted[c]
  BY <1>7 DEF LimiterInv
<1>11. \A c \in Limiter!Buckets : Book(requests'[c], admitted'[c], cnow, Limiter!Limit(c))
  BY <1>8, <1>10 DEF LimiterInv
<1>12. \A c \in Limiter!Buckets :
          Len(admitted'[c]) = IF c = b /\ ok THEN Len(admitted[c]) + 1 ELSE Len(admitted[c])
  BY <1>9, <1>10
<1> QED
  BY <1>6, <1>7, <1>10, <1>11, <1>12

LEMMA NextLimiter ==
    ASSUME LimiterInv, [Limiter!Next]_(Limiter!cvars)
    PROVE  LimiterInv'
<1>0. /\ "general" \in Limiter!Buckets /\ "import" \in Limiter!Buckets
      /\ \A b \in Limiter!Buckets : Len(admitted[b]) \in Nat
  BY LenProperties DEF Limiter!Buckets, LimiterInv, Book
<1>1. CASE Limiter!Advance
  BY <1>1, BookAdvances DEF Limiter!Advance, LimiterInv
<1>2. ASSUME NEW ok \in BOOLEAN, Limiter!Call(ok) PROVE LimiterInv'
  <2>1. Limiter!allow("general", ok) /\ UNCHANGED <<importing, spent>>
    BY <1>2 DEF Limiter!Call
  <2> QED
    BY <1>0, <2>1, AllowKeeps DEF LimiterInv
<1>3. ASSUME NEW ok \in BOOLEAN, Limiter!ImportFirst(ok) PROVE LimiterInv'
  <2>1. /\ Limiter!allow("import", ok) /\ UNCHANGED spent
        /\ importing' = IF ok THEN importing + 1 ELSE importing
    BY <1>3 DEF Limiter!ImportFirst
  <2>2. /\ cnow' = cnow /\ wrong' = FALSE
        /\ requests' = [c \in Limiter!Buckets |-> requests'[c]]
        /\ admitted' = [c \in Limiter!Buckets |-> admitted'[c]]
        /\ \A c \in Limiter!Buckets : Book(requests'[c], admitted'[c], cnow, Limiter!Limit(c))
    BY <1>0, <2>1, AllowKeeps
  <2>3. Len(admitted'["import"]) = IF ok THEN Len(admitted["import"]) + 1 ELSE Len(admitted["import"])
    BY <1>0, <2>1, AllowKeeps
  <2>4. /\ importing' \in Nat /\ spent' \in Nat
        /\ spent' + importing' <= Len(admitted'["import"])
    BY <1>0, <2>1, <2>3 DEF LimiterInv
  <2> QED
    BY <2>2, <2>4 DEF LimiterInv
<1>4. ASSUME NEW ok \in BOOLEAN, Limiter!ImportSecond(ok) PROVE LimiterInv'
  <2>1. /\ Limiter!allow("general", ok) /\ importing > 0 /\ importing' = importing - 1
        /\ spent' = IF ok THEN spent ELSE spent + 1
    BY <1>4 DEF Limiter!ImportSecond
  <2>2. /\ cnow' = cnow /\ wrong' = FALSE
        /\ requests' = [c \in Limiter!Buckets |-> requests'[c]]
        /\ admitted' = [c \in Limiter!Buckets |-> admitted'[c]]
        /\ \A c \in Limiter!Buckets : Book(requests'[c], admitted'[c], cnow, Limiter!Limit(c))
    BY <1>0, <2>1, AllowKeeps
  <2>3. Len(admitted'["import"]) = Len(admitted["import"])
    BY <1>0, <2>1, AllowKeeps
  <2>4. /\ importing' \in Nat /\ spent' \in Nat
        /\ spent' + importing' <= Len(admitted'["import"])
    BY <1>0, <2>1, <2>3 DEF LimiterInv
  <2> QED
    BY <2>2, <2>4 DEF LimiterInv
<1>5. CASE UNCHANGED Limiter!cvars
  BY <1>5 DEF Limiter!cvars, LimiterInv
<1> QED
  BY <1>1, <1>2, <1>3, <1>4, <1>5 DEF Limiter!Next

(* In every stretch of Window ticks at most Limit calls of an address pass,  *)
(* whatever the limits and the window; none is refused while there is room;  *)
(* and an import's slot is used before it can be lost (grpc_server.go).      *)
THEOREM WindowCorrect == Spec => []WindowBound
<1>1. Init => LimiterInv
  <2> SUFFICES ASSUME Init PROVE LimiterInv
    OBVIOUS
  <2>1. /\ cnow = 0 /\ importing = 0 /\ spent = 0 /\ wrong = FALSE
        /\ requests = [b \in Limiter!Buckets |-> Limiter!NoTimes]
        /\ admitted = [b \in Limiter!Buckets |-> <<>>]
    BY DEF Init, Limiter!Init
  <2>2. /\ <<>> \in Seq(Nat) /\ DOMAIN Limiter!NoTimes = {} /\ Len(<<>>) = 0
        /\ \A k \in DOMAIN <<>> : FALSE
    BY EmptySeq, LenProperties DEF Limiter!NoTimes
  <2>3. \A from : During(<<>>, from) = {} /\ Recent(<<>>, from) = {}
    BY <2>2 DEF During, Recent
  <2>4. \A b \in Limiter!Buckets : Book(Limiter!NoTimes, <<>>, 0, Limiter!Limit(b))
    <3>1. Cardinality({}) = 0 /\ \A b : 0 <= Limiter!Limit(b)
      BY FS_EmptySet, LimitNat
    <3> QED
      BY <2>2, <2>3, <3>1 DEF Book
  <2> QED
    BY <2>1, <2>2, <2>4 DEF LimiterInv, Limiter!Buckets
<1>2. LimiterInv /\ [Next]_vars => LimiterInv'
  BY LimiterStep, NextLimiter
<1>3. LimiterInv => WindowBound
  <2> SUFFICES ASSUME LimiterInv PROVE Limiter!WindowBound
    BY DEF WindowBound
  <2>1. ASSUME NEW b \in Limiter!Buckets, NEW from \in 0 .. cnow
        PROVE  Limiter!Cardinality({k \in DOMAIN admitted[b] :
                   admitted[b][k] \in from .. from + Window - 1}) <= Limiter!Limit(b)
    <3>1. from \in Nat
      BY DEF LimiterInv
    <3> QED
      BY <3>1, LimiterCard DEF LimiterInv, Book, During
  <2> QED
    BY <2>1 DEF Limiter!WindowBound, LimiterInv
<1> QED
  BY <1>1, <1>2, <1>3, PTL DEF Spec
----------------------------------------------------------------------------
(* Least elements, from which what a function defined by recursion computes  *)
(* follows: the least argument at which it is wrong is a contradiction.      *)

LEMMA LeastOf ==
    ASSUME NEW T \in SUBSET Nat, T # {}
    PROVE  \E x \in T : \A y \in T : x <= y
<1> DEFINE less == {ss \in Nat \X Nat : ss[1] < ss[2]}
<1>1. IsWellFoundedOn(less, Nat)
  BY NatLessThanWellFounded DEF OpToRel
<1> HIDE DEF less
<1>2. PICK x \in T : \A y \in T : ~(<<y, x>> \in less)
  BY <1>1, WFMin
<1>3. \A y \in T : ~(y < x)
  BY <1>2 DEF less
<1>4. x \in Nat /\ \A y \in T : y \in Nat
  OBVIOUS
<1> QED
  BY <1>3, <1>4

LEMMA NatSteps ==
    ASSUME NEW G \in SUBSET Nat, 0 \in G, \A m \in G : m + 1 \in G
    PROVE  G = Nat
<1> SUFFICES ASSUME G # Nat PROVE FALSE
  OBVIOUS
<1>1. PICK x \in Nat \ G : \A y \in Nat \ G : x <= y
  <2>1. Nat \ G \in SUBSET Nat /\ Nat \ G # {}
    OBVIOUS
  <2> QED
    BY <2>1, LeastOf
<1>2. x # 0 /\ x - 1 \in Nat /\ ~(x <= x - 1)
  BY <1>1
<1>3. x - 1 \in G
  BY <1>1, <1>2
<1> QED
  BY <1>1, <1>2, <1>3

----------------------------------------------------------------------------
(* The negotiation                                                           *)

LEMMA NegotiationStep == [Next]_vars => [Negotiate!Next]_(Negotiate!gvars)
  BY DEF Next, vars, BandwidthNext, TransportNext, SecureNext, PacketNext, FirewallNext, PeerNext, LimiterNext,
         StunNext, RelayNext, HeaderNext, NegotiationNext, gv, Negotiate!gvars

LEMMA MinOf ==
    ASSUME NEW T \in SUBSET Nat, T # {}
    PROVE  Negotiate!Min(T) \in T /\ \A y \in T : Negotiate!Min(T) <= y
  BY LeastOf DEF Negotiate!Min

Preferences == Lists \cup ShortLists

(* The position of a value in a list is a position that holds it; a value    *)
(* has one position only.                                                    *)
LEMMA IndexOf ==
    ASSUME NEW s \in Preferences, NEW v \in Negotiate!ToSet(s)
    PROVE  /\ Negotiate!Index(s, v) \in DOMAIN s /\ s[Negotiate!Index(s, v)] = v
           /\ Negotiate!Index(s, v) \in Nat
           /\ \A k \in DOMAIN s : s[k] = v => Negotiate!Index(s, v) <= k
<1> DEFINE T == {k \in DOMAIN s : s[k] = v}
<1>1. s \in Seq(Values)
  BY ComponentsAssumption DEF Preferences, Negotiate!NegotiationAssumption
<1>2. T \in SUBSET Nat /\ T # {}
  BY <1>1 DEF Negotiate!ToSet
<1>3. Negotiate!Index(s, v) \in T /\ \A k \in T : Negotiate!Index(s, v) <= k
  BY <1>2, MinOf DEF Negotiate!Index
<1> QED
  BY <1>2, <1>3

(* What an end picks from a list: a value that both offer, and none of those *)
(* comes before it in the end's own list; "none" only if they share nothing. *)
LEMMA Picked ==
    ASSUME NEW mine \in Preferences, NEW theirs \in Preferences
    PROVE  LET shared == Negotiate!ToSet(mine) \cap Negotiate!ToSet(theirs)
               p == Negotiate!FirstCommon(mine, theirs)
           IN  /\ p = "none" <=> shared = {}
               /\ p # "none" => /\ p \in shared
                                /\ \A v \in shared :
                                      Negotiate!Index(mine, p) <= Negotiate!Index(mine, v)
<1> DEFINE shared == Negotiate!ToSet(mine) \cap Negotiate!ToSet(theirs)
           p == Negotiate!FirstCommon(mine, theirs)
           common == {k \in DOMAIN mine : mine[k] \in Negotiate!ToSet(theirs)}
<1>1. mine \in Seq(Values) /\ "none" \notin Values
  BY ComponentsAssumption DEF Preferences, Negotiate!NegotiationAssumption
<1>2. common \in SUBSET Nat /\ \A k \in common : mine[k] \in shared /\ mine[k] \in Values
  BY <1>1 DEF Negotiate!ToSet
<1>3. \A v \in shared : \E k \in common : mine[k] = v
  BY DEF Negotiate!ToSet
<1>4. CASE common = {}
  BY <1>3, <1>4 DEF Negotiate!FirstCommon
<1>5. CASE common # {}
  <2>1. PICK m \in common : p = mine[m] /\ \A k \in common : m <= k
    BY <1>2, <1>5, MinOf DEF Negotiate!FirstCommon
  <2>2. p \in shared /\ p # "none"
    BY <1>1, <1>2, <2>1
  <2>3. ASSUME NEW v \in shared PROVE Negotiate!Index(mine, p) <= Negotiate!Index(mine, v)
    <3>1. Negotiate!Index(mine, v) \in common /\ Negotiate!Index(mine, v) \in Nat
      BY <2>3, IndexOf DEF Negotiate!ToSet
    <3>2. Negotiate!Index(mine, p) <= m /\ Negotiate!Index(mine, p) \in Nat
      BY <2>1, <2>2, IndexOf
    <3> QED
      BY <1>2, <2>1, <3>1, <3>2
  <2> QED
    BY <2>2, <2>3
<1> QED
  BY <1>4, <1>5

(* Where two ends rank what they share alike they pick the same.             *)
LEMMA PickedAlike ==
    ASSUME NEW mine \in Preferences, NEW theirs \in Preferences,
           LET shared == Negotiate!ToSet(mine) \cap Negotiate!ToSet(theirs)
           IN  /\ shared # {}
               /\ \A v, w \in shared : Negotiate!Index(mine, v) < Negotiate!Index(mine, w)
                                         => Negotiate!Index(theirs, v) < Negotiate!Index(theirs, w)
    PROVE  Negotiate!FirstCommon(mine, theirs) = Negotiate!FirstCommon(theirs, mine)
<1> DEFINE shared == Negotiate!ToSet(mine) \cap Negotiate!ToSet(theirs)
           p == Negotiate!FirstCommon(mine, theirs)
           q == Negotiate!FirstCommon(theirs, mine)
<1>1. /\ p \in shared /\ \A v \in shared : Negotiate!Index(mine, p) <= Negotiate!Index(mine, v)
      /\ q \in shared /\ \A v \in shared : Negotiate!Index(theirs, q) <= Negotiate!Index(theirs, v)
  BY Picked
<1>2. /\ Negotiate!Index(mine, p) \in Nat /\ mine[Negotiate!Index(mine, p)] = p
      /\ Negotiate!Index(mine, q) \in Nat /\ mine[Negotiate!Index(mine, q)] = q
      /\ Negotiate!Index(theirs, p) \in Nat /\ Negotiate!Index(theirs, q) \in Nat
  BY <1>1, IndexOf
<1> HIDE DEF p, q
<1>3. ~(Negotiate!Index(mine, p) < Negotiate!Index(mine, q))
  BY <1>1, <1>2
<1>4. Negotiate!Index(mine, p) = Negotiate!Index(mine, q)
  BY <1>1, <1>2, <1>3
<1> QED
  BY <1>2, <1>4 DEF p, q

(* An end's outcome, by field: it fails if the versions differ or a field    *)
(* has nothing in common, and otherwise each field is picked on its own.     *)
LEMMA Outcome ==
    ASSUME NEW a \in Negotiate!Capabilities, NEW b \in Negotiate!Capabilities
    PROVE  LET p == Negotiate!NegotiateCapabilities(a, b)
               shared(f) == Negotiate!ToSet(a[f]) \cap Negotiate!ToSet(b[f])
           IN  /\ p = Negotiate!Failure <=>
                     a.version # b.version \/ \E f \in Negotiate!Fields : shared(f) = {}
               /\ p # Negotiate!Failure => \A f \in Negotiate!Fields :
                     shared(f) # {} /\ p[f] = Negotiate!FirstCommon(a[f], b[f])
<1> DEFINE p == Negotiate!NegotiateCapabilities(a, b)
           picked == [aead |-> Negotiate!FirstCommon(a.aead, b.aead),
                      transport |-> Negotiate!FirstCommon(a.transport, b.transport),
                      pattern |-> Negotiate!FirstCommon(a.pattern, b.pattern)]
<1>1. \A f \in Negotiate!Fields : /\ a[f] \in Preferences /\ b[f] \in Preferences
                                  /\ picked[f] = Negotiate!FirstCommon(a[f], b[f])
  BY DEF Negotiate!Fields, Negotiate!Capabilities, Preferences
<1>2. p = IF a.version # b.version \/ \E f \in Negotiate!Fields : picked[f] = "none"
          THEN Negotiate!Failure ELSE picked
  BY DEF Negotiate!NegotiateCapabilities
<1>3. \A f \in Negotiate!Fields :
         picked[f] = "none" <=> Negotiate!ToSet(a[f]) \cap Negotiate!ToSet(b[f]) = {}
  BY <1>1, Picked
<1>4. \A f \in Negotiate!Fields : Negotiate!Failure[f] = "none"
  BY DEF Negotiate!Failure, Negotiate!Fields
<1>5. "aead" \in Negotiate!Fields
  BY DEF Negotiate!Fields
<1> HIDE DEF picked, p
<1>6. (\A f \in Negotiate!Fields : picked[f] # "none") => picked # Negotiate!Failure
  BY <1>4, <1>5
<1> QED
  BY <1>1, <1>2, <1>3, <1>6 DEF p

(* Both ends know the other's capabilities and have picked.                  *)
NegotiationInv ==
    \/ ends = <<>> /\ profiles = <<>>
    \/ \E a, b \in Negotiate!Capabilities :
          /\ ends = <<a, b>>
          /\ profiles = <<Negotiate!NegotiateCapabilities(a, b),
                          Negotiate!NegotiateCapabilities(b, a)>>

LEMMA DefaultsAgree ==
    LET d == Negotiate!DefaultCapabilities
    IN  Negotiate!NegotiateCapabilities(d, d) # Negotiate!Failure
<1> DEFINE d == <<"a", "b">>
<1>1. DOMAIN d = {1, 2} /\ d[1] = "a" /\ d[2] = "b"
  OBVIOUS
<1>2. \A k \in DOMAIN d : d[k] \in Negotiate!ToSet(d) /\ d[k] # "none"
  BY <1>1 DEF Negotiate!ToSet
<1>3. DOMAIN d \in SUBSET Nat /\ DOMAIN d # {}
  BY <1>1
<1>4. Negotiate!FirstCommon(d, d) # "none"
  <2> HIDE DEF d
  <2>1. {k \in DOMAIN d : d[k] \in Negotiate!ToSet(d)} = DOMAIN d
    BY <1>2
  <2>2. Negotiate!FirstCommon(d, d) = d[Negotiate!Min(DOMAIN d)]
    BY <1>3, <2>1 DEF Negotiate!FirstCommon
  <2> QED
    BY <1>2, <1>3, <2>2, MinOf
<1> HIDE DEF d
<1>5. Negotiate!DefaultCapabilities = [aead |-> d, transport |-> d, pattern |-> d, version |-> 1]
  BY DEF Negotiate!DefaultCapabilities, d
<1>6. Negotiate!NegotiateCapabilities(Negotiate!DefaultCapabilities, Negotiate!DefaultCapabilities)
         = [aead |-> Negotiate!FirstCommon(d, d), transport |-> Negotiate!FirstCommon(d, d),
            pattern |-> Negotiate!FirstCommon(d, d)]
  BY <1>4, <1>5 DEF Negotiate!NegotiateCapabilities, Negotiate!Fields
<1> QED
  BY <1>4, <1>6 DEF Negotiate!Failure

LEMMA AgreementFollows == NegotiationInv => NegotiationAgrees
<1> SUFFICES ASSUME NegotiationInv, ends # <<>> PROVE NegotiationAgrees
  BY DEF NegotiationAgrees, Negotiate!NegotiationAgrees
<1>1. PICK a \in Negotiate!Capabilities, b \in Negotiate!Capabilities :
         /\ ends = <<a, b>>
         /\ profiles = <<Negotiate!NegotiateCapabilities(a, b),
                         Negotiate!NegotiateCapabilities(b, a)>>
  BY DEF NegotiationInv
<1> DEFINE shared(f) == Negotiate!ToSet(a[f]) \cap Negotiate!ToSet(b[f])
           p == profiles[1]
           q == profiles[2]
<1>2. ends[1] = a /\ ends[2] = b
  BY <1>1
<1>3. /\ p = Negotiate!Failure <=>
            a.version # b.version \/ \E f \in Negotiate!Fields : shared(f) = {}
      /\ p # Negotiate!Failure => \A f \in Negotiate!Fields :
            shared(f) # {} /\ p[f] = Negotiate!FirstCommon(a[f], b[f])
  BY <1>1, Outcome
<1>4. /\ q = Negotiate!Failure <=>
            b.version # a.version
            \/ \E f \in Negotiate!Fields : Negotiate!ToSet(b[f]) \cap Negotiate!ToSet(a[f]) = {}
      /\ q # Negotiate!Failure => \A f \in Negotiate!Fields :
            q[f] = Negotiate!FirstCommon(b[f], a[f])
  BY <1>1, Outcome
<1>5. p = Negotiate!Failure <=> q = Negotiate!Failure
  <2>1. \A f \in Negotiate!Fields :
           Negotiate!ToSet(b[f]) \cap Negotiate!ToSet(a[f])
             = Negotiate!ToSet(a[f]) \cap Negotiate!ToSet(b[f])
    OBVIOUS
  <2> QED
    BY <1>3, <1>4, <2>1
<1>6. \A f \in Negotiate!Fields : a[f] \in Preferences /\ b[f] \in Preferences
  BY DEF Negotiate!Fields, Negotiate!Capabilities, Preferences
<1> HIDE DEF p, q
<1>7. ASSUME NEW f \in Negotiate!Fields, p # Negotiate!Failure
      PROVE  /\ p[f] \in shared(f) /\ q[f] \in shared(f)
             /\ \A v \in shared(f) :
                   /\ Negotiate!Index(a[f], p[f]) <= Negotiate!Index(a[f], v)
                   /\ Negotiate!Index(b[f], q[f]) <= Negotiate!Index(b[f], v)
             /\ (\A v, w \in shared(f) : Negotiate!Index(a[f], v) < Negotiate!Index(a[f], w)
                                 => Negotiate!Index(b[f], v) < Negotiate!Index(b[f], w))
                  => p[f] = q[f]
             /\ (\A v, w \in shared(f) : Negotiate!Index(b[f], v) < Negotiate!Index(b[f], w)
                                 => Negotiate!Index(a[f], v) < Negotiate!Index(a[f], w))
                  => p[f] = q[f]
  <2>1. /\ p[f] = Negotiate!FirstCommon(a[f], b[f]) /\ q[f] = Negotiate!FirstCommon(b[f], a[f])
        /\ shared(f) # {} /\ a[f] \in Preferences /\ b[f] \in Preferences
    BY <1>3, <1>4, <1>5, <1>6, <1>7
  <2>2. Negotiate!ToSet(b[f]) \cap Negotiate!ToSet(a[f]) = shared(f)
    OBVIOUS
  <2>3. p[f] \in shared(f) /\ \A v \in shared(f) :
           Negotiate!Index(a[f], p[f]) <= Negotiate!Index(a[f], v)
    BY <2>1, Picked
  <2>4. q[f] \in shared(f) /\ \A v \in shared(f) :
           Negotiate!Index(b[f], q[f]) <= Negotiate!Index(b[f], v)
    BY <2>1, <2>2, Picked
  <2>5. (\A v, w \in shared(f) : Negotiate!Index(a[f], v) < Negotiate!Index(a[f], w)
                                 => Negotiate!Index(b[f], v) < Negotiate!Index(b[f], w))
           => p[f] = q[f]
    BY <2>1, PickedAlike
  <2>6. (\A v, w \in shared(f) : Negotiate!Index(b[f], v) < Negotiate!Index(b[f], w)
                                 => Negotiate!Index(a[f], v) < Negotiate!Index(a[f], w))
           => p[f] = q[f]
    BY <2>1, <2>2, PickedAlike
  <2> QED
    BY <2>3, <2>4, <2>5, <2>6
<1>8. ends = <<Negotiate!DefaultCapabilities, Negotiate!DefaultCapabilities>>
        => p # Negotiate!Failure
  <2>1. p = Negotiate!NegotiateCapabilities(a, b)
    BY <1>1 DEF p
  <2> QED
    BY <1>2, <2>1, DefaultsAgree
<1>9. ASSUME NEW i \in {1, 2}, NEW f \in Negotiate!Fields, profiles[i] # Negotiate!Failure
      PROVE  LET mine == ends[i][f]
                 common == Negotiate!ToSet(mine) \cap Negotiate!ToSet(ends[3 - i][f])
             IN  /\ profiles[i][f] \in common
                 /\ \A v \in common :
                       Negotiate!Index(mine, profiles[i][f]) <= Negotiate!Index(mine, v)
                 /\ (\A v, w \in common : Negotiate!Index(mine, v) < Negotiate!Index(mine, w)
                        => Negotiate!Index(ends[3 - i][f], v) < Negotiate!Index(ends[3 - i][f], w))
                      => profiles[1][f] = profiles[2][f]
  <2>1. CASE i = 1
    <3>1. ends[3 - i] = b
      BY <1>2, <2>1
    <3> QED
      BY <1>2, <1>7, <1>9, <2>1, <3>1 DEF p, q
  <2>2. CASE i = 2
    <3>1. ends[3 - i] = a
      BY <1>2, <2>2
    <3>2. Negotiate!ToSet(b[f]) \cap Negotiate!ToSet(a[f]) = shared(f)
      OBVIOUS
    <3> QED
      BY <1>2, <1>5, <1>7, <1>9, <2>2, <3>1, <3>2 DEF p, q
  <2> QED
    BY <2>1, <2>2
<1> QED
  BY <1>5, <1>8, <1>9 DEF NegotiationAgrees, Negotiate!NegotiationAgrees, p, q

(* Two ends that negotiate on their own, each by its own preference, fail or *)
(* succeed together, each with its first choice among what both offer, and   *)
(* they pick the same in every field whose shared values they rank alike.    *)
THEOREM NegotiationCorrect == Spec => []NegotiationAgrees
<1>1. Init => NegotiationInv
  BY DEF Init, Negotiate!Init, NegotiationInv
<1>2. NegotiationInv /\ [Next]_vars => NegotiationInv'
  <2>1. NegotiationInv /\ [Negotiate!Next]_(Negotiate!gvars) => NegotiationInv'
    BY DEF Negotiate!Next, Negotiate!gvars, Negotiate!Negotiate, NegotiationInv
  <2> QED
    BY <2>1, NegotiationStep
<1> QED
  BY <1>1, <1>2, AgreementFollows, PTL DEF Spec
----------------------------------------------------------------------------
(* The IPv4 checksum                                                         *)

LEMMA HeaderStep == [Next]_vars => [Header!Next]_(Header!ivars)
  BY DEF Next, vars, BandwidthNext, TransportNext, SecureNext, PacketNext, FirewallNext, PeerNext, LimiterNext,
         StunNext, RelayNext, HeaderNext, NegotiationNext, iv, Header!ivars

(* The recursion of SumWords, on the first m words.                          *)
SumTo(w, m, g) == g = [k \in 0 .. m |-> IF k = 0 THEN 0 ELSE g[k - 1] + w[k]]

LEMMA SumExists ==
    ASSUME NEW n \in Nat, NEW w \in [1 .. n -> Nat]
    PROVE  \E g \in [0 .. n -> Nat] : SumTo(w, n, g)
<1> DEFINE G == {m \in Nat : m <= n => \E g \in [0 .. m -> Nat] : SumTo(w, m, g)}
<1>1. 0 \in G
  <2> DEFINE g == [k \in 0 .. 0 |-> 0]
  <2>1. g \in [0 .. 0 -> Nat] /\ SumTo(w, 0, g)
    BY DEF SumTo
  <2> QED
    BY <2>1
<1>2. ASSUME NEW m \in G, m + 1 <= n
      PROVE  \E h \in [0 .. m + 1 -> Nat] : SumTo(w, m + 1, h)
  <2>0. m \in Nat /\ (m <= n => \E g \in [0 .. m -> Nat] : SumTo(w, m, g))
    OBVIOUS
  <2> HIDE DEF G
  <2>1. PICK g \in [0 .. m -> Nat] : SumTo(w, m, g)
    <3>1. m <= n
      BY <1>2, <2>0
    <3> QED
      BY <2>0, <3>1, Zenon
  <2> DEFINE h == [k \in 0 .. m + 1 |-> IF k = m + 1 THEN g[m] + w[m + 1] ELSE g[k]]
  <2>2. m \in Nat /\ m + 1 \in 1 .. n
    BY <1>2, <2>0
  <2>3. h \in [0 .. m + 1 -> Nat]
    BY <2>1, <2>2
  <2>4. ASSUME NEW k \in 0 .. m + 1
        PROVE  h[k] = IF k = 0 THEN 0 ELSE h[k - 1] + w[k]
    <3>1. CASE k = m + 1
      BY <2>2, <3>1
    <3>2. CASE k \in 0 .. m
      <4>1. g[k] = IF k = 0 THEN 0 ELSE g[k - 1] + w[k]
        BY <2>1, <3>2 DEF SumTo
      <4>2. h[k] = g[k] /\ (k # 0 => h[k - 1] = g[k - 1])
        BY <2>2, <3>2
      <4> QED
        BY <4>1, <4>2
    <3> QED
      BY <2>2, <3>1, <3>2
  <2> HIDE DEF h
  <2>5. SumTo(w, m + 1, h)
    BY <2>3, <2>4 DEF SumTo
  <2> QED
    BY <2>3, <2>5
<1>3. ASSUME NEW m \in G PROVE m + 1 \in G
  <2>1. m + 1 \in Nat
    OBVIOUS
  <2>2. m + 1 <= n => \E h \in [0 .. m + 1 -> Nat] : SumTo(w, m + 1, h)
    BY <1>2
  <2> QED
    BY <2>1, <2>2
<1>4. G \in SUBSET Nat
  OBVIOUS
<1> HIDE DEF G
<1>5. n \in G
  BY <1>1, <1>3, <1>4, NatSteps
<1> QED
  BY <1>5 DEF G

(* SumWords is the last value of a function that satisfies the recursion.    *)
LEMMA SumIs ==
    ASSUME NEW w \in Seq(Nat)
    PROVE  \E g \in [0 .. Len(w) -> Nat] :
              SumTo(w, Len(w), g) /\ Header!SumWords(w) = g[Len(w)]
<1> DEFINE n == Len(w)
           g == CHOOSE g : SumTo(w, n, g)
<1>1. n \in Nat /\ w \in [1 .. n -> Nat]
  OBVIOUS
<1>2. SumTo(w, n, g)
  BY <1>1, SumExists
<1>3. Header!SumWords(w) = g[n]
  BY DEF Header!SumWords, SumTo
<1> HIDE DEF g
<1>4. g = [k \in 0 .. n |-> g[k]] /\ \A k \in 0 .. n : g[k] = IF k = 0 THEN 0 ELSE g[k - 1] + w[k]
  BY <1>2 DEF SumTo
<1> DEFINE G == {m \in Nat : m <= n => g[m] \in Nat}
<1>5. 0 \in G
  BY <1>1, <1>4
<1>6. ASSUME NEW m \in G PROVE m + 1 \in G
  <2>1. m \in Nat /\ (m <= n => g[m] \in Nat)
    OBVIOUS
  <2>2. ASSUME m + 1 <= n PROVE g[m + 1] \in Nat
    <3>1. m + 1 \in 0 .. n /\ m + 1 \in 1 .. n /\ m + 1 # 0 /\ (m + 1) - 1 = m /\ m <= n
      BY <1>1, <2>1, <2>2
    <3>2. g[m + 1] = g[m] + w[m + 1]
      BY <1>4, <3>1
    <3> QED
      BY <1>1, <2>1, <3>1, <3>2
  <2> QED
    BY <2>1, <2>2
<1>7. G = Nat
  BY <1>5, <1>6, NatSteps
<1>8. \A k \in 0 .. n : g[k] \in Nat
  BY <1>1, <1>7
<1>9. g \in [0 .. n -> Nat]
  BY <1>4, <1>8
<1> QED
  BY <1>2, <1>3, <1>9

(* Changing one word changes the sum by the difference.                      *)
LEMMA SumChanged ==
    ASSUME NEW w \in Seq(Nat), NEW j \in 1 .. Len(w), NEW v \in Nat
    PROVE  /\ Header!SumWords(w) \in Nat
           /\ Header!SumWords([w EXCEPT ![j] = v]) = Header!SumWords(w) - w[j] + v
<1> DEFINE n == Len(w)
           u == [w EXCEPT ![j] = v]
<1>1. /\ n \in Nat /\ w \in [1 .. n -> Nat] /\ u \in Seq(Nat) /\ Len(u) = n /\ u[j] = v
      /\ \A k \in 1 .. n : k # j => u[k] = w[k]
  OBVIOUS
<1> HIDE DEF u, n
<1>2. PICK g \in [0 .. n -> Nat] : SumTo(w, n, g) /\ Header!SumWords(w) = g[n]
  BY SumIs DEF n
<1>3. PICK h \in [0 .. n -> Nat] : SumTo(u, n, h) /\ Header!SumWords(u) = h[n]
  BY <1>1, SumIs
<1>4. \A k \in 0 .. n : /\ g[k] = IF k = 0 THEN 0 ELSE g[k - 1] + w[k]
                        /\ h[k] = IF k = 0 THEN 0 ELSE h[k - 1] + u[k]
  BY <1>2, <1>3 DEF SumTo
<1> DEFINE G == {m \in Nat : m <= n => h[m] = g[m] + IF j <= m THEN v - w[j] ELSE 0}
<1>5. j \in 1 .. n /\ w[j] \in Nat
  BY <1>1 DEF n
<1>6. 0 \in G
  BY <1>1, <1>4, <1>5
<1>7. ASSUME NEW m \in G PROVE m + 1 \in G
  <2>1. m \in Nat /\ (m <= n => h[m] = g[m] + IF j <= m THEN v - w[j] ELSE 0)
    OBVIOUS
  <2>2. SUFFICES ASSUME m + 1 <= n
        PROVE  h[m + 1] = g[m + 1] + IF j <= m + 1 THEN v - w[j] ELSE 0
    BY <2>1
  <2> HIDE DEF G
  <2>3. m + 1 \in 1 .. n /\ m \in 0 .. n /\ m + 1 \in 0 .. n /\ m + 1 # 0 /\ (m + 1) - 1 = m
    BY <1>1, <2>1, <2>2
  <2>a. g[m + 1] = g[m] + w[m + 1] /\ h[m + 1] = h[m] + u[m + 1]
    BY <1>4, <2>3
  <2>4. g[m] \in Nat /\ w[m + 1] \in Nat
    BY <1>1, <1>2, <2>3
  <2>b. m <= n
    BY <1>1, <2>3
  <2>5. CASE m + 1 = j
    <3>1. u[m + 1] = v /\ w[m + 1] = w[j]
      BY <1>1, <2>5
    <3>a. j <= m + 1 /\ ~(j <= m)
      BY <1>1, <1>5, <2>1, <2>5
    <3>2. h[m] = g[m]
      BY <2>1, <2>4, <2>b, <3>a
    <3> QED
      <4>1. h[m + 1] = g[m] + v /\ g[m + 1] = g[m] + w[j]
        BY <2>a, <3>1, <3>2
      <4>2. g[m] + v = (g[m] + w[j]) + (v - w[j])
        BY <1>5, <2>4
      <4>3. h[m + 1] = g[m + 1] + (v - w[j])
        BY <4>1, <4>2
      <4> QED
        BY <3>a, <4>3
  <2>6. CASE m + 1 # j
    <3>1. u[m + 1] = w[m + 1]
      BY <1>1, <2>3, <2>6
    <3>2. j <= m + 1 <=> j <= m
      <4>1. j \in Int /\ m \in Int
        BY <1>1, <1>5, <2>1
      <4> QED
        BY <2>6, <4>1
    <3>3. h[m] = g[m] + IF j <= m THEN v - w[j] ELSE 0
      BY <2>1, <2>b
    <3>4. CASE j <= m
      <4>1. h[m] = g[m] + (v - w[j])
        BY <3>3, <3>4
      <4>2. h[m + 1] = (g[m] + (v - w[j])) + w[m + 1]
        BY <2>a, <3>1, <4>1
      <4>3. (g[m] + (v - w[j])) + w[m + 1] = (g[m] + w[m + 1]) + (v - w[j])
        BY <1>5, <2>4, SMTT(20)
      <4> QED
        BY <2>a, <3>2, <3>4, <4>2, <4>3
    <3>5. CASE ~(j <= m)
      <4>1. h[m] = g[m]
        BY <2>4, <3>3, <3>5
      <4>2. h[m + 1] = g[m + 1] + 0
        BY <2>4, <2>a, <3>1, <4>1
      <4> QED
        BY <3>2, <3>5, <4>2
    <3> QED
      BY <3>4, <3>5
  <2> QED
    BY <2>5, <2>6
<1>8. n \in G
  BY <1>1, <1>6, <1>7, NatSteps
<1>9. h[n] = g[n] + (v - w[j]) /\ g[n] \in Nat
  BY <1>1, <1>2, <1>5, <1>8
<1> QED
  BY <1>1, <1>2, <1>3, <1>5, <1>9 DEF u

(* Adding the carry back keeps the remainder modulo 65535, and the recursion *)
(* ends, since it makes the sum smaller.                                     *)
FoldEq(g) == g = [s \in Nat |-> IF s > 65535 THEN g[(s \div 65536) + (s % 65536)] ELSE s]

LEMMA CarryBack ==
    ASSUME NEW s \in Nat, s > 65535
    PROVE  LET t == (s \div 65536) + (s % 65536)
           IN  /\ t \in Nat /\ t < s /\ t > 0
               /\ t % 65535 = s % 65535 /\ (t - 1) % 65535 = (s - 1) % 65535
<1>1. PICK q \in Nat, r \in Nat : /\ s = 65536 * q + r /\ r < 65536
                                  /\ q = s \div 65536 /\ r = s % 65536
  BY SMT
<1>2. q > 0
  BY <1>1, SMT
<1>3. (q + r) % 65535 = (65536 * q + r) % 65535
  BY <1>1, SMT
<1>4. (q + r - 1) % 65535 = (65536 * q + r - 1) % 65535
  BY <1>1, <1>2, SMT
<1> QED
  BY <1>1, <1>2, <1>3, <1>4, SMT

LEMMA FoldsIf ==
    ASSUME NEW g, g = [s \in Nat |-> g[s]],
           \A s \in Nat : g[s] = IF s > 65535 THEN g[(s \div 65536) + (s % 65536)] ELSE s
    PROVE  FoldEq(g)
<1> DEFINE h == [s \in Nat |-> IF s > 65535 THEN g[(s \div 65536) + (s % 65536)] ELSE s]
<1>1. \A s \in Nat : h[s] = g[s]
  BY SMT
<1>2. h = [s \in Nat |-> h[s]]
  BY SMT
<1> HIDE DEF h
<1>3. h = g
  BY <1>1, <1>2, SMT
<1>4. FoldEq(g) <=> g = h
  BY SMT DEF FoldEq, h
<1> QED
  BY <1>3, <1>4, SMT

LEMMA FoldExists == \E g : FoldEq(g)
<1> DEFINE g == [s \in Nat |-> IF s = 0 THEN 0 ELSE ((s - 1) % 65535) + 1]
<1>1. ASSUME NEW s \in Nat
      PROVE  g[s] = IF s > 65535 THEN g[(s \div 65536) + (s % 65536)] ELSE s
  <2>1. CASE s > 65535
    <3> DEFINE t == (s \div 65536) + (s % 65536)
    <3>1. t \in Nat /\ t > 0 /\ (t - 1) % 65535 = (s - 1) % 65535
      BY <2>1, CarryBack
    <3> HIDE DEF t
    <3>2. g[t] = g[s]
      BY <2>1, <3>1, SMT
    <3> QED
      BY <2>1, <3>2, SMT DEF t
  <2>2. CASE s <= 65535
    <3>1. s > 0 => (s - 1) % 65535 = s - 1
      BY <2>2, SMT
    <3> QED
      BY <2>2, <3>1, SMT
  <2> QED
    BY <2>1, <2>2, SMT
<1> HIDE DEF g
<1>2. g = [s \in Nat |-> g[s]]
  BY SMT DEF g
<1>3. FoldEq(g)
  BY <1>1, <1>2, FoldsIf, SMT
<1> QED
  BY <1>3, SMT

LEMMA FoldOf ==
    ASSUME NEW g, FoldEq(g), NEW s \in Nat
    PROVE  g[s] \in Nat /\ g[s] <= 65535 /\ g[s] % 65535 = s % 65535
<1>1. \A x \in Nat : g[x] = IF x > 65535 THEN g[(x \div 65536) + (x % 65536)] ELSE x
  BY SMT DEF FoldEq
<1> DEFINE Folds(x) == g[x] \in Nat /\ g[x] <= 65535 /\ g[x] % 65535 = x % 65535
           Wrong == {x \in Nat : ~Folds(x)}
<1>2. ASSUME NEW x \in Nat, x <= 65535 PROVE Folds(x)
  BY <1>1, <1>2, SMT
<1>3. ASSUME NEW x \in Nat, x > 65535, \A y \in Nat : y < x => Folds(y) PROVE Folds(x)
  <2> DEFINE t == (x \div 65536) + (x % 65536)
  <2>1. t \in Nat /\ t < x /\ t % 65535 = x % 65535
    BY <1>3, CarryBack, SMT
  <2>2. g[x] = g[t]
    BY <1>1, <1>3, SMT
  <2> HIDE DEF t
  <2>3. Folds(t)
    BY <1>3, <2>1, SMT
  <2> QED
    BY <2>1, <2>2, <2>3, SMT
<1> HIDE DEF Folds
<1>4. ASSUME NEW x \in Nat, \A y \in Nat : y < x => Folds(y) PROVE Folds(x)
  BY <1>2, <1>3, <1>4
<1>5. Wrong \in SUBSET Nat
  OBVIOUS
<1>6. ASSUME Wrong # {} PROVE FALSE
  <2>1. PICK x \in Wrong : \A y \in Wrong : x <= y
    BY <1>5, <1>6, LeastOf
  <2>2. \A y \in Nat : y < x => Folds(y)
    BY <2>1
  <2> QED
    BY <1>4, <2>1, <2>2
<1> QED
  BY <1>6 DEF Folds

(* f is the sum s folded to 16 bits.                                         *)
Folded(s, f) == f \in Nat /\ f <= 65535 /\ f % 65535 = s % 65535

LEMMA FoldedSum == \A s \in Nat : Folded(s, Header!FoldSum(s))
<1> SUFFICES ASSUME NEW s \in Nat PROVE Folded(s, Header!FoldSum(s))
  BY Zenon
<1>1. FoldEq(CHOOSE g : FoldEq(g))
  BY FoldExists, SMT
<1>2. Header!FoldSum(s) = (CHOOSE g : FoldEq(g))[s]
  BY SMT DEF Header!FoldSum, FoldEq
<1> QED
  BY <1>1, <1>2, FoldOf, SMT DEF Folded

LEMMA Complement ==
    ASSUME NEW s \in Nat, NEW f, Folded(s, f)
    PROVE  /\ f \in Nat /\ f <= 65535
           /\ (s + (65535 - f)) % 65535 = 0
<1>1. f \in Nat /\ f <= 65535 /\ f % 65535 = s % 65535
  BY SMT DEF Folded
<1>2. PICK p \in Nat, q \in Nat, r \in Nat : f = 65535 * p + r /\ s = 65535 * q + r
  <2>1. /\ f \div 65535 \in Nat /\ f % 65535 \in Nat
        /\ f = 65535 * (f \div 65535) + (f % 65535)
    BY <1>1, SMT
  <2>2. s \div 65535 \in Nat /\ s = 65535 * (s \div 65535) + (s % 65535)
    BY SMT
  <2> QED
    BY <1>1, <2>1, <2>2, SMT
<1>3. s + (65535 - f) = 65535 * (q + 1 - p)
  BY <1>2, SMT
<1>4. (65535 * (q + 1 - p)) % 65535 = 0
  BY <1>2, SMT
<1> QED
  BY <1>1, <1>3, <1>4, SMT

(* A recalculated header sums to a multiple of 65535 and differs in no other *)
(* word.                                                                     *)
LEMMA Recalculated ==
    ASSUME NEW w \in Seq(Nat), NEW n \in Nat, 6 <= n, n <= Len(w)
    PROVE  LET u == Header!recalcIPv4Checksum(w, n)
           IN  /\ u \in Seq(Nat) /\ Len(u) = Len(w)
               /\ \A k \in 1 .. Len(w) : k # 6 => u[k] = w[k]
               /\ Header!SumWords(SubSeq(u, 1, n)) % 65535 = 0
<1> DEFINE z == [w EXCEPT ![6] = 0]
           t == SubSeq(z, 1, n)
           S == Header!SumWords(t)
           c == (65535 - Header!FoldSum(S)) % 65536
           u == [w EXCEPT ![6] = c]
<1>1. Header!recalcIPv4Checksum(w, n) = u
  BY SMT DEF Header!recalcIPv4Checksum
<1>2. Len(w) \in Nat /\ w \in [1 .. Len(w) -> Nat]
  OBVIOUS
<1>3. z \in Seq(Nat) /\ Len(z) = Len(w) /\ z[6] = 0 /\ \A k \in 1 .. Len(w) : k # 6 => z[k] = w[k]
  BY <1>2
<1> HIDE DEF z
<1>4. t \in Seq(Nat) /\ Len(t) = n /\ \A k \in 1 .. n : t[k] = z[k]
  BY <1>2, <1>3
<1> HIDE DEF t
<1>5. S \in Nat
  <2>1. 6 \in 1 .. Len(t) /\ 0 \in Nat
    BY <1>4
  <2> QED
    BY <1>4, <2>1, SumChanged
<1> HIDE DEF S
<1>6. c \in Nat /\ (S + c) % 65535 = 0
  <2> DEFINE f == Header!FoldSum(S)
  <2>1. Folded(S, f)
    BY <1>5, FoldedSum, Zenon
  <2> HIDE DEF f
  <2>2. f \in Nat /\ f <= 65535 /\ (S + (65535 - f)) % 65535 = 0
    BY <1>5, <2>1, Complement
  <2>3. (65535 - f) % 65536 = 65535 - f
    BY <2>2, SMT
  <2>4. c = 65535 - f
    BY <2>3, SMT DEF f
  <2> QED
    BY <2>2, <2>4, SMT
<1> HIDE DEF c
<1>7. u \in Seq(Nat) /\ Len(u) = Len(w) /\ u[6] = c /\ \A k \in 1 .. Len(w) : k # 6 => u[k] = w[k]
  BY <1>2, <1>6
<1> HIDE DEF u
<1>8. SubSeq(u, 1, n) = [t EXCEPT ![6] = c]
  <2> DEFINE a == SubSeq(u, 1, n)
             b == [t EXCEPT ![6] = c]
  <2>1. a \in Seq(Nat) /\ Len(a) = n /\ \A k \in 1 .. n : a[k] = u[k]
    BY <1>2, <1>7
  <2>2. b \in Seq(Nat) /\ Len(b) = n /\ b[6] = c /\ \A k \in 1 .. n : k # 6 => b[k] = t[k]
    BY <1>4, <1>6
  <2> HIDE DEF a, b
  <2>3. \A k \in 1 .. n : a[k] = b[k]
    <3> SUFFICES ASSUME NEW k \in 1 .. n PROVE a[k] = b[k]
      OBVIOUS
    <3>1. k \in 1 .. Len(w) /\ a[k] = u[k] /\ t[k] = z[k]
      BY <1>2, <1>4, <2>1
    <3>2. CASE k = 6
      BY <1>7, <2>2, <3>1, <3>2
    <3>3. CASE k # 6
      <4>1. u[k] = w[k] /\ z[k] = w[k] /\ b[k] = t[k]
        BY <1>3, <1>7, <2>2, <3>1, <3>3
      <4> QED
        BY <3>1, <4>1
    <3> QED
      BY <3>2, <3>3
  <2>4. a = b
    BY <2>1, <2>2, <2>3, SeqEqual
  <2> QED
    BY <2>4 DEF a, b
<1>9. Header!SumWords(SubSeq(u, 1, n)) = S - 0 + c
  <2>1. 6 \in 1 .. Len(t) /\ t[6] = 0
    BY <1>3, <1>4
  <2>a. t \in Seq(Nat) /\ c \in Nat
    BY <1>4, <1>6
  <2>2. Header!SumWords([t EXCEPT ![6] = c]) = Header!SumWords(t) - t[6] + c
    BY <2>1, <2>a, SumChanged
  <2>3. Header!SumWords([t EXCEPT ![6] = c]) = S - 0 + c
    BY <2>1, <2>2 DEF S
  <2> QED
    BY <1>8, <2>3
<1>10. S - 0 + c = S + c
  BY <1>5, <1>6
<1> QED
  BY <1>1, <1>6, <1>7, <1>9, <1>10

(* Enough words for an IHL, and the IHL in the first of them.                *)
HeaderOf(w, ihl) ==
    w \in Seq(Nat) /\ Len(w) = (IF ihl = 6 THEN 12 ELSE 10) /\ w[1] = (64 + ihl) * 256

LEMMA HeaderWords ==
    ASSUME NEW ihl \in {4, 5, 6}, NEW ttl \in TTLs, NEW sum \in Words, NEW a \in Words,
           NEW b \in Words
    PROVE  HeaderOf(Header!V4(ihl, ttl, sum, a, b), ihl)
<1> DEFINE v == <<(4 * 16 + ihl) * 256, a, b, a, ttl * 256 + 6, sum, b, a, a, b>>
           x == IF ihl = 6 THEN <<a, b>> ELSE <<>>
<1>1. ttl \in Nat /\ sum \in Nat /\ a \in Nat /\ b \in Nat
  BY ComponentsAssumption DEF Header!HeaderAssumption
<1>2. (4 * 16 + ihl) * 256 = (64 + ihl) * 256 /\ (64 + ihl) * 256 \in Nat /\ ttl * 256 + 6 \in Nat
  BY <1>1
<1>3. v \in Seq(Nat) /\ Len(v) = 10 /\ v[1] = (64 + ihl) * 256
  BY <1>1, <1>2
<1>4. x \in Seq(Nat) /\ Len(x) = IF ihl = 6 THEN 2 ELSE 0
  BY <1>1
<1>5. Header!V4(ihl, ttl, sum, a, b) = v \o x
  BY DEF Header!V4
<1> HIDE DEF v, x
<1>6. v \o x \in Seq(Nat) /\ Len(v \o x) = Len(v) + Len(x) /\ (v \o x)[1] = v[1]
  <2>1. Len(v) + Len(x) \in Nat /\ Len(v) + Len(x) >= 10 /\ 1 <= Len(v)
    BY <1>3, <1>4
  <2>2. 1 \in 1 .. Len(v) + Len(x)
    BY <2>1
  <2> QED
    <3>1. v \in Seq(Nat) /\ x \in Seq(Nat)
      BY <1>3, <1>4
    <3>2. Relay!Joined(v \o x, v, x)
      BY <3>1, Relay!Joins
    <3>3. 1 \in 1 .. Len(v)
      BY <1>3
    <3> QED
      BY <3>2, <3>3 DEF Relay!Joined
<1>7. Len(v \o x) = IF ihl = 6 THEN 12 ELSE 10
  BY <1>3, <1>4, <1>6
<1> QED
  BY <1>3, <1>5, <1>6, <1>7 DEF HeaderOf
(* A packet of the inputs that is rewritten as IPv4 has a header of whole    *)
(* words, at least ten.                                                      *)
LEMMA RewrittenHeader ==
    ASSUME NEW p \in Header!Packets, p.version = 4, ~Header!TooShort(p)
    PROVE  /\ p.words \in Seq(Nat) /\ Header!IHL(p) \in {5, 6}
           /\ 2 * Header!IHL(p) <= Len(p.words)
<1>1. PICK ihl \in {4, 5, 6}, ttl \in TTLs, sum \in Words, a \in Words, b \in Words :
         p.words = Header!V4(ihl, ttl, sum, a, b)
  BY DEF Header!Packets, Header!NoPacket
<1> DEFINE w == p.words
<1>2. /\ w \in Seq(Nat) /\ Len(w) = (IF ihl = 6 THEN 12 ELSE 10)
      /\ w[1] = (64 + ihl) * 256
  <2>1. HeaderOf(w, ihl)
    BY <1>1, HeaderWords, Zenon
  <2> HIDE DEF w
  <2> QED
    BY <2>1 DEF HeaderOf
<1>3. ((64 + ihl) * 256) \div 256 = 64 + ihl /\ (64 + ihl) % 16 = ihl
  OBVIOUS
<1>4. Header!IHL(p) = ihl
  BY <1>2, <1>3 DEF Header!IHL
<1>5. ihl # 4
  BY <1>4 DEF Header!TooShort
<1>6. ihl = 5 \/ ihl = 6
  BY <1>5
<1> QED
  BY <1>2, <1>4, <1>6

(* A word from a high byte and another word's low byte.                      *)
Word(t, b) == t * 256 + (b % 256)
WordOf(x, t, b) == x \in Nat /\ x \div 256 = t /\ x % 256 = b % 256

LEMMA HighByte ==
    ASSUME NEW t \in Nat, NEW b \in Nat
    PROVE  WordOf(Word(t, b), t, b)
<1>1. PICK r \in Nat : r = b % 256 /\ r < 256
  OBVIOUS
<1>2. t * 256 + r \in Nat /\ (t * 256 + r) \div 256 = t /\ (t * 256 + r) % 256 = r
  BY <1>1
<1> QED
  BY <1>1, <1>2 DEF Word, WordOf

LEMMA SequenceParts ==
    \A s \in Seq(Nat) : /\ Len(s) \in Nat /\ DOMAIN s = 1 .. Len(s)
                         /\ s \in [1 .. Len(s) -> Nat]
  OBVIOUS

(* The TTL's word, and the sum of the rewritten header.                      *)
LEMMA Rewritten ==
    ASSUME NEW p \in Header!Packets, p.version = 4, ~Header!TooShort(p)
    PROVE  LET q == Header!Normalized4(p)
               n == 2 * Header!IHL(p)
           IN  /\ q # p => /\ Header!SumWords(SubSeq(q.words, 1, n)) % 65535 = 0
                           /\ \A k \in DOMAIN p.words \ {5, 6} : q.words[k] = p.words[k]
               /\ q.words[5] \div 256 = TargetTTL /\ q.words[5] % 256 = p.words[5] % 256
<1> DEFINE w == p.words
           n == 2 * Header!IHL(p)
           x == Word(TargetTTL, w[5])
           v == [w EXCEPT ![5] = x]
           q == Header!Normalized4(p)
<1>1. w \in Seq(Nat) /\ n \in Nat /\ 6 <= n /\ n <= Len(w)
  <2>1. Header!IHL(p) = 5 \/ Header!IHL(p) = 6
    BY RewrittenHeader
  <2> QED
    BY <2>1, RewrittenHeader
<1>2. CASE w[5] \div 256 = TargetTTL
  BY <1>2 DEF Header!Normalized4
<1>3. CASE w[5] \div 256 # TargetTTL
  <2>1. TargetTTL \in Nat
    BY ComponentsAssumption DEF Header!HeaderAssumption
  <2>2. w[5] \in Nat /\ Len(w) \in Nat /\ DOMAIN w = 1 .. Len(w) /\ 5 \in 1 .. Len(w)
    <3>1. Len(w) \in Nat /\ DOMAIN w = 1 .. Len(w) /\ w \in [1 .. Len(w) -> Nat]
      BY <1>1, SequenceParts, Zenon
    <3>2. 5 \in 1 .. Len(w)
      BY <1>1, <3>1
    <3> QED
      BY <3>1, <3>2
  <2>3. WordOf(x, TargetTTL, w[5]) /\ x \in Nat
    <3>1. WordOf(x, TargetTTL, w[5])
      BY <2>1, <2>2, HighByte
    <3> QED
      BY <3>1 DEF WordOf
  <2>4. q.words = Header!recalcIPv4Checksum(v, n)
    <3>1. q = [p EXCEPT !.words = Header!recalcIPv4Checksum(v, n)]
      BY <1>3 DEF Header!Normalized4, Word
    <3>2. "words" \in DOMAIN p
      BY DEF Header!Packets, Header!NoPacket
    <3> QED
      BY <3>1, <3>2
  <2> HIDE DEF x, n, q
  <2>5. v \in Seq(Nat) /\ Len(v) = Len(w) /\ v[5] = x /\ \A k \in 1 .. Len(w) : k # 5 => v[k] = w[k]
    BY <1>1, <2>2, <2>3
  <2> HIDE DEF v
  <2>6. /\ Len(q.words) = Len(w)
        /\ \A k \in 1 .. Len(w) : k # 6 => q.words[k] = v[k]
        /\ Header!SumWords(SubSeq(q.words, 1, n)) % 65535 = 0
    BY <1>1, <2>4, <2>5, Recalculated
  <2>a. /\ \A k \in 1 .. Len(w) : k # 6 => q.words[k] = v[k]
        /\ \A k \in 1 .. Len(w) : k # 5 => v[k] = w[k]
        /\ v[5] = x
    BY <2>5, <2>6
  <2>7. q.words[5] = x
    BY <2>2, <2>a
  <2>8. \A k \in DOMAIN w \ {5, 6} : q.words[k] = w[k]
    BY <2>2, <2>a
  <2>9. q.words[5] \div 256 = TargetTTL /\ q.words[5] % 256 = w[5] % 256
    BY <2>3, <2>7 DEF WordOf
  <2>10. Header!SumWords(SubSeq(q.words, 1, n)) % 65535 = 0
    BY <2>6
  <2> QED
    BY <2>8, <2>9, <2>10 DEF n, q
<1> QED
  BY <1>2, <1>3

LEMMA RewrittenSix ==
    ASSUME NEW p \in Header!Packets, p.version = 6
    PROVE  Header!Normalized6(p).words = [p.words EXCEPT ![4] = @ - (@ % 256) + TargetTTL]
<1>1. PICK ttl \in TTLs : p.words = <<24576, 0, 0, 17 * 256 + ttl>>
  BY DEF Header!Packets, Header!NoPacket
<1>2. ttl \in Nat /\ TargetTTL \in Nat
  BY ComponentsAssumption DEF Header!HeaderAssumption
<1>3. p.words[4] = 17 * 256 + ttl /\ "words" \in DOMAIN p
  BY <1>1 DEF Header!Packets, Header!NoPacket
<1>4. p.words[4] \in Nat
  BY <1>2, <1>3
<1>5. (p.words[4] \div 256) * 256 + TargetTTL = p.words[4] - (p.words[4] % 256) + TargetTTL
  BY <1>2, <1>4
<1>6. Header!Normalized6(p).words = [p.words EXCEPT ![4] = (@ \div 256) * 256 + TargetTTL]
  BY <1>3 DEF Header!Normalized6
<1> QED
  BY <1>5, <1>6

LEMMA NormalizeKeeps ==
    ASSUME NEW p \in Header!Packets, NEW on \in BOOLEAN, Header!NormalizePacket(p, on)
    PROVE  Header!ChecksumValid'
<1>1. /\ ipin' = p
      /\ iperr' = "ok" => on /\ ~Header!TooShort(p) /\ p.version \in {4, 6}
      /\ iperr' # "ok" => ipout' = p
      /\ iperr' = "ok" /\ p.version = 4 => ipout' = Header!Normalized4(p)
      /\ iperr' = "ok" /\ p.version = 6 => ipout' = Header!Normalized6(p)
  BY DEF Header!NormalizePacket
<1>2. CASE iperr' = "ok" /\ p.version = 4
  BY <1>1, <1>2, Rewritten DEF Header!ChecksumValid
<1>3. CASE iperr' = "ok" /\ p.version = 6
  BY <1>1, <1>3, RewrittenSix DEF Header!ChecksumValid
<1>4. CASE iperr' # "ok"
  BY <1>1, <1>4 DEF Header!ChecksumValid
<1> QED
  BY <1>1, <1>2, <1>3, <1>4

(* A rewritten IPv4 header has a valid checksum, whatever its words are and  *)
(* however often the carry has to be added back, nothing but the TTL and the *)
(* checksum has changed, and a refused packet not at all.                    *)
THEOREM ChecksumCorrect == Spec => []ChecksumValid
<1>1. Init => Header!ChecksumValid
  BY DEF Init, Header!Init, Header!ChecksumValid
<1>2. Header!ChecksumValid /\ [Next]_vars => Header!ChecksumValid'
  <2>1. ASSUME Header!ChecksumValid, UNCHANGED Header!ivars PROVE Header!ChecksumValid'
    BY <2>1 DEF Header!ChecksumValid, Header!ivars
  <2> QED
    BY <2>1, HeaderStep, NormalizeKeeps DEF Header!Next, Header!NormalizeNext
<1> QED
  BY <1>1, <1>2, PTL DEF Spec, ChecksumValid
----------------------------------------------------------------------------
(* The STUN client                                                           *)

LEMMA StunStep == [Next]_vars => [Stun!Next]_(Stun!nvars)
  BY DEF Next, vars, BandwidthNext, TransportNext, SecureNext, PacketNext, FirewallNext, PeerNext, LimiterNext,
         StunNext, RelayNext, HeaderNext, NegotiationNext, nv, Stun!nvars

(* Padding reaches a multiple of four, and does not depend on the multiple   *)
(* of four that is counted from.                                             *)
LEMMA PaddedOf ==
    ASSUME NEW n \in Nat
    PROVE  /\ \E q \in Nat : Stun!Padded(n) = 4 * q /\ n <= 4 * q
           /\ \A p \in Nat : Stun!Padded(4 * p + n) = 4 * p + Stun!Padded(n)
<1>1. PICK q \in Nat, k \in 0 .. 3 : n = 4 * q + k /\ n % 4 = k
  <2>1. n \div 4 \in Nat /\ n % 4 \in 0 .. 3 /\ n = 4 * (n \div 4) + (n % 4)
    OBVIOUS
  <2> QED
    BY <2>1
<1>2. \A p \in Nat : (4 * p + n) % 4 = k
  BY <1>1
<1>3. CASE k = 0
  <2>1. Stun!Padded(n) = n
    BY <1>1, <1>3 DEF Stun!Padded
  <2>2. \A p \in Nat : Stun!Padded(4 * p + n) = 4 * p + n
    BY <1>2, <1>3 DEF Stun!Padded
  <2> QED
    BY <1>1, <1>3, <2>1, <2>2
<1>4. CASE k # 0
  <2>1. Stun!Padded(n) = n + 4 - k
    BY <1>1, <1>4 DEF Stun!Padded
  <2>2. \A p \in Nat : Stun!Padded(4 * p + n) = 4 * p + n + 4 - k
    BY <1>2, <1>4 DEF Stun!Padded
  <2>3. n + 4 - k = 4 * (q + 1) /\ q + 1 \in Nat /\ n <= 4 * (q + 1)
    BY <1>1
  <2>4. \E p \in Nat : Stun!Padded(n) = 4 * p /\ n <= 4 * p
    BY <2>1, <2>3
  <2>5. \A p \in Nat : Stun!Padded(4 * p + n) = 4 * p + Stun!Padded(n)
    BY <1>1, <2>1, <2>2
  <2> QED
    BY <2>4, <2>5
<1> QED
  BY <1>3, <1>4

(* The recursion of Walk.                                                    *)
WalkStep(r, f, o) ==
    IF o >= r.claimed + 20 \/ o + 4 > r.size THEN 0
    ELSE IF o \notin DOMAIN r.attrs THEN 0
    ELSE IF o + 4 + r.attrs[o].len > r.size THEN 0
    ELSE IF r.attrs[o].type \in {"xor", "mapped"} THEN o
    ELSE LET n == Stun!NextOffset(o + 4, r.attrs[o].len) IN
         IF n > r.size THEN 0 ELSE f[n]
WalkEq(r, f) == f = [o \in 0 .. r.size |-> WalkStep(r, f, o)]

LEMMA WalkIs ==
    ASSUME NEW r, NEW h, WalkEq(r, h)
    PROVE  \E f : WalkEq(r, f) /\ Stun!Walk(r) = f[20]
<1> DEFINE f == CHOOSE f : WalkEq(r, f)
<1>1. WalkEq(r, f)
  OBVIOUS
<1>2. Stun!Walk(r) = f[20]
  BY DEF Stun!Walk, WalkEq, WalkStep
<1> QED
  BY <1>1, <1>2

(* The attributes a, b and c of a response are at the offsets 20, p and q,   *)
(* each right behind the padding of the one before it.                       *)
Addressed(x) == x.type \in {"xor", "mapped"}
Laid(r, a, b, c, p, q, cut, less) ==
    /\ a.len \in Nat /\ b.len \in Nat /\ c.len \in {8, 20} /\ (c.family = 4 => c.len = 8)
    /\ Addressed(a) => a.len >= 8
    /\ Addressed(b) => b.len >= 8
    /\ cut \in {0, 4} /\ less \in {0, 4}
    /\ p \in Nat /\ q \in Nat /\ p >= 24 + a.len /\ q >= p + 4 + b.len
    /\ Stun!NextOffset(24, a.len) = p /\ Stun!NextOffset(p + 4, b.len) = q
    /\ Stun!NextOffset(q + 4, c.len) = q + 4 + c.len
    /\ r.size = q + 4 + c.len - cut /\ r.claimed = q + 4 + c.len - 20 - less
    /\ DOMAIN r.attrs = {20, p, q} /\ r.attrs[20] = a /\ r.attrs[p] = b /\ r.attrs[q] = c

LEMMA ResponseLaid ==
    ASSUME NEW r \in Stun!Responses
    PROVE  \E a, b, c, p, q, cut, less : Laid(r, a, b, c, p, q, cut, less)
<1>1. PICK a \in Stun!Fronts, b \in Stun!Fronts, c \in Stun!Lasts, cut \in {0, 4}, less \in {0, 4} :
           r = Stun!Response(a, b, c, cut, less)
  BY DEF Stun!Responses
<1>2. \A x \in Stun!Fronts : x.len \in Nat /\ (Addressed(x) => x.len >= 8)
  BY ComponentsAssumption DEF Stun!StunAssumption, Stun!Fronts, Stun!Attribute, Addressed
<1>3. a.len \in Nat /\ b.len \in Nat /\ (Addressed(a) => a.len >= 8) /\ (Addressed(b) => b.len >= 8)
  BY <1>2
<1>4. c.len \in {8, 20} /\ (c.family = 4 => c.len = 8)
  BY DEF Stun!Lasts, Stun!Attribute
<1> DEFINE p == 24 + Stun!Padded(a.len)
           q == p + 4 + Stun!Padded(b.len)
<1>5. /\ p \in Nat /\ p >= 24 + a.len /\ Stun!NextOffset(24, a.len) = p
      /\ q \in Nat /\ q >= p + 4 + b.len /\ Stun!NextOffset(p + 4, b.len) = q
      /\ Stun!NextOffset(q + 4, c.len) = q + 4 + c.len
  <2>1. PICK k \in Nat : Stun!Padded(a.len) = 4 * k /\ a.len <= 4 * k
    BY <1>3, PaddedOf
  <2>2. PICK m \in Nat : Stun!Padded(b.len) = 4 * m /\ b.len <= 4 * m
    BY <1>3, PaddedOf
  <2>3. /\ \A i \in Nat : Stun!Padded(4 * i + a.len) = 4 * i + 4 * k
        /\ \A i \in Nat : Stun!Padded(4 * i + b.len) = 4 * i + 4 * m
    BY <1>3, <2>1, <2>2, PaddedOf
  <2>4. p = 24 + 4 * k /\ q = 28 + 4 * k + 4 * m
    BY <2>1, <2>2
  <2>5. Stun!Padded(24 + a.len) = p
    <3>1. Stun!Padded(4 * 6 + a.len) = 4 * 6 + 4 * k
      BY <2>3
    <3> QED
      BY <2>4, <3>1
  <2>6. Stun!Padded((p + 4) + b.len) = q
    <3>1. k + 7 \in Nat /\ 4 * (k + 7) = p + 4
      BY <2>4
    <3>2. Stun!Padded(4 * (k + 7) + b.len) = 4 * (k + 7) + 4 * m
      BY <2>3, <3>1
    <3> QED
      BY <2>4, <3>1, <3>2
  <2>7. Stun!Padded((q + 4) + c.len) = q + 4 + c.len
    <3>1. ((q + 4) + c.len) % 4 = 0
      BY <1>4, <2>4
    <3> QED
      BY <3>1 DEF Stun!Padded
  <2>8. p \in Nat /\ p >= 24 + a.len /\ q \in Nat /\ q >= p + 4 + b.len
    BY <1>3, <2>1, <2>2, <2>4
  <2> QED
    BY <2>5, <2>6, <2>7, <2>8 DEF Stun!NextOffset
<1>6. r = [size |-> (q + 4 + c.len) - cut, claimed |-> (q + 4 + c.len) - 20 - less,
           attrs |-> [o \in {20, p, q} |-> IF o = 20 THEN a ELSE IF o = p THEN b ELSE c]]
  <2>1. r = Stun!Response(a, b, c, cut, less)
    BY <1>1
  <2> QED
    BY <2>1, Zenon DEF Stun!Response
<1> HIDE DEF p, q
<1>7. r.size = q + 4 + c.len - cut /\ r.claimed = q + 4 + c.len - 20 - less
  BY <1>4, <1>5, <1>6
<1>8. DOMAIN r.attrs = {20, p, q} /\ r.attrs[20] = a /\ r.attrs[p] = b /\ r.attrs[q] = c
  <2>1. 20 # p /\ 20 # q /\ p # q
    BY <1>3, <1>5
  <2> QED
    BY <1>6, <2>1
<1>9. Laid(r, a, b, c, p, q, cut, less)
  BY <1>3, <1>4, <1>5, <1>7, <1>8 DEF Laid
<1> QED
  BY <1>9
(* The walk ends at the first address attribute, if that is not the last one *)
(* of a datagram that is cut.                                                *)
LEMMA WalkEnds ==
    ASSUME NEW r, NEW a, NEW b, NEW c, NEW p, NEW q, NEW cut, NEW less,
           Laid(r, a, b, c, p, q, cut, less)
    PROVE  Stun!Walk(r) = IF Addressed(a) THEN 20
                          ELSE IF Addressed(b) THEN p
                          ELSE IF cut = 0 /\ Addressed(c) THEN q ELSE 0
<1> DEFINE C == IF cut = 0 /\ Addressed(c) THEN q ELSE 0
           B == IF Addressed(b) THEN p ELSE C
           A == IF Addressed(a) THEN 20 ELSE B
           h == [o \in 0 .. r.size |-> IF o = 20 THEN A ELSE IF o = p THEN B ELSE IF o = q THEN C ELSE 0]
           end == q + 4 + c.len
<1>1. /\ a.len \in Nat /\ b.len \in Nat /\ c.len \in {8, 20} /\ cut \in {0, 4} /\ less \in {0, 4}
      /\ p \in Nat /\ q \in Nat /\ p >= 24 + a.len /\ q >= p + 4 + b.len
      /\ r.size = q + 4 + c.len - cut /\ r.claimed = q + 4 + c.len - 20 - less
  BY DEF Laid
<1>2. /\ Stun!NextOffset(24, a.len) = p /\ Stun!NextOffset(p + 4, b.len) = q
      /\ Stun!NextOffset(q + 4, c.len) = end
      /\ DOMAIN r.attrs = {20, p, q} /\ r.attrs[20] = a /\ r.attrs[p] = b /\ r.attrs[q] = c
  BY DEF Laid
<1>3. /\ r.size \in Nat /\ r.size >= q + 8 /\ q > p /\ p > 20 /\ r.claimed + 20 >= q + 8
      /\ (end <= r.size <=> cut = 0) /\ (end > r.size <=> cut = 4) /\ end > q /\ end \in Nat
  BY <1>1
<1>4. ASSUME NEW f PROVE WalkStep(r, f, 20) = IF Addressed(a) THEN 20 ELSE f[p]
  <2>1. ~(20 >= r.claimed + 20) /\ ~(20 + 4 > r.size) /\ ~(20 + 4 + a.len > r.size) /\ ~(p > r.size)
    BY <1>1, <1>3
  <2>2. 20 + 4 = 24 /\ 20 \in DOMAIN r.attrs
    BY <1>2
  <2> QED
    BY <1>2, <2>1, <2>2 DEF WalkStep, Addressed
<1>5. ASSUME NEW f PROVE WalkStep(r, f, p) = IF Addressed(b) THEN p ELSE f[q]
  <2>1. ~(p >= r.claimed + 20) /\ ~(p + 4 > r.size) /\ ~(p + 4 + b.len > r.size) /\ ~(q > r.size)
    BY <1>1, <1>3
  <2>2. p \in DOMAIN r.attrs
    BY <1>2
  <2> QED
    BY <1>2, <2>1, <2>2 DEF WalkStep, Addressed
<1>6. ASSUME NEW f, cut = 0 => f[end] = 0 PROVE WalkStep(r, f, q) = C
  <2>1. ~(q >= r.claimed + 20) /\ ~(q + 4 > r.size) /\ q \in DOMAIN r.attrs
        /\ (q + 4 + c.len > r.size <=> cut = 4) /\ (cut = 0 => ~(end > r.size))
    BY <1>1, <1>2, <1>3
  <2>2. CASE cut = 4
    BY <1>2, <2>1, <2>2 DEF WalkStep
  <2>3. CASE cut # 4
    <3>1. cut = 0
      BY <1>1, <2>3
    <3> HIDE DEF end
    <3> QED
      BY <1>2, <1>6, <2>1, <3>1, 0 # 4 DEF WalkStep, Addressed
  <2> QED
    BY <2>2, <2>3
<1>7. ASSUME NEW f, NEW o \in 0 .. r.size, o # 20, o # p, o # q PROVE WalkStep(r, f, o) = 0
  BY <1>2, <1>7 DEF WalkStep
<1>8. /\ p \in 0 .. r.size /\ q \in 0 .. r.size /\ 20 \in 0 .. r.size /\ 20 # p /\ 20 # q /\ p # q
      /\ (cut = 0 => end \in 0 .. r.size /\ end # 20 /\ end # p /\ end # q)
  BY <1>1, <1>3
<1>9. WalkEq(r, h)
  <2>1. h[q] = C /\ h[p] = B /\ h[20] = A /\ (cut = 0 => h[end] = 0)
    <3> HIDE DEF A, B, C, end
    <3> QED
      BY <1>8
  <2>2. \A o \in 0 .. r.size : o # 20 /\ o # p /\ o # q => h[o] = 0
    OBVIOUS
  <2>3. h = [o \in 0 .. r.size |-> h[o]]
    OBVIOUS
  <2>4. A = (IF Addressed(a) THEN 20 ELSE B) /\ B = (IF Addressed(b) THEN p ELSE C)
    OBVIOUS
  <2> HIDE DEF h, A, B, C, end
  <2>5. \A o \in 0 .. r.size : h[o] = WalkStep(r, h, o)
    <3> SUFFICES ASSUME NEW o \in 0 .. r.size PROVE h[o] = WalkStep(r, h, o)
      OBVIOUS
    <3>1. CASE o = 20
      BY <1>4, <2>1, <2>4, <3>1
    <3>2. CASE o = p
      BY <1>5, <2>1, <2>4, <3>2
    <3>3. CASE o = q
      BY <1>6, <2>1, <3>3
    <3>4. CASE o # 20 /\ o # p /\ o # q
      BY <1>7, <2>2, <3>4
    <3> QED
      BY <3>1, <3>2, <3>3, <3>4
  <2> QED
    BY <2>3, <2>5 DEF WalkEq
<1>10. PICK f : WalkEq(r, f) /\ Stun!Walk(r) = f[20]
  BY <1>9, WalkIs
<1>11. \A o \in 0 .. r.size : f[o] = WalkStep(r, f, o)
  BY <1>10 DEF WalkEq
<1>12. cut = 0 => f[end] = 0
  <2> HIDE DEF end
  <2> QED
    BY <1>7, <1>8, <1>11
<1>13. /\ f[20] = IF Addressed(a) THEN 20 ELSE f[p]
       /\ f[p] = IF Addressed(b) THEN p ELSE f[q]
  BY <1>4, <1>5, <1>8, <1>11
<1>14. f[q] = C
  <2> HIDE DEF C, end
  <2> QED
    BY <1>6, <1>8, <1>11, <1>12
<1> QED
  BY <1>10, <1>13, <1>14

LEMMA Understanding == Stun!AllUnderstood
<1> SUFFICES ASSUME NEW r \in Stun!Responses PROVE Stun!Understood(r)
  BY DEF Stun!AllUnderstood
<1>1. PICK a, b, c, p, q, cut, less : Laid(r, a, b, c, p, q, cut, less)
  BY ResponseLaid
<1>2. Stun!Walk(r) = IF Addressed(a) THEN 20
                     ELSE IF Addressed(b) THEN p
                     ELSE IF cut = 0 /\ Addressed(c) THEN q ELSE 0
  BY <1>1, WalkEnds
<1>3. /\ a.len \in Nat /\ b.len \in Nat /\ c.len \in {8, 20} /\ cut \in {0, 4} /\ less \in {0, 4}
      /\ p \in Nat /\ q \in Nat /\ p >= 24 + a.len /\ q >= p + 4 + b.len
      /\ r.size = q + 4 + c.len - cut /\ r.claimed = q + 4 + c.len - 20 - less
  BY <1>1 DEF Laid
<1>4. /\ Addressed(a) => a.len >= 8
      /\ Addressed(b) => b.len >= 8
      /\ DOMAIN r.attrs = {20, p, q} /\ r.attrs[20] = a /\ r.attrs[p] = b /\ r.attrs[q] = c
  BY <1>1 DEF Laid
<1>5. /\ r.size >= 20 /\ 20 < p /\ p < q /\ 20 < q /\ ~(0 > 0) /\ 20 > 0 /\ p > 0 /\ q > 0
      /\ 20 + 4 + a.len <= r.size /\ p + 4 + b.len <= r.size /\ (q + 4 + c.len <= r.size <=> cut = 0)
      /\ a.len \in Int /\ b.len \in Int /\ c.len >= 8
  BY <1>3
<1> DEFINE Fits == r.claimed + 20 <= r.size
           First(o) == \A k \in Stun!Addresses(r) : o <= k
<1>6. \A o : o \in Stun!Addresses(r) <=> (o = 20 /\ Addressed(a)) \/ (o = p /\ Addressed(b)) \/ (o = q /\ Addressed(c))
  BY <1>4 DEF Stun!Addresses, Addressed
<1>7. Stun!parseAddress(r) <=> Fits /\ Stun!Walk(r) > 0 /\ Stun!Decodes(r.attrs[Stun!Walk(r)])
  BY <1>5 DEF Stun!parseAddress
<1>8. Stun!Understood(r) <=>
         (Stun!parseAddress(r) <=>
            Fits /\ \E o \in Stun!Addresses(r) :
                       First(o) /\ r.attrs[o].family = 4 /\ o + 4 + r.attrs[o].len <= r.size)
  BY DEF Stun!Understood
<1> HIDE DEF Fits, First
<1>9. CASE Addressed(a)
  <2>1. 20 \in Stun!Addresses(r) /\ First(20) /\ \A o \in Stun!Addresses(r) : First(o) => o = 20
    BY <1>3, <1>5, <1>6, <1>9 DEF First
  <2>2. Stun!Walk(r) = 20 /\ (Stun!Decodes(a) <=> a.family = 4)
    BY <1>2, <1>3, <1>4, <1>9 DEF Stun!Decodes
  <2> QED
    BY <1>4, <1>5, <1>7, <1>8, <2>1, <2>2
<1>10. CASE ~Addressed(a) /\ Addressed(b)
  <2>1. p \in Stun!Addresses(r) /\ First(p) /\ \A o \in Stun!Addresses(r) : First(o) => o = p
    BY <1>3, <1>5, <1>6, <1>10 DEF First
  <2>2. Stun!Walk(r) = p /\ (Stun!Decodes(b) <=> b.family = 4)
    BY <1>2, <1>3, <1>4, <1>10 DEF Stun!Decodes
  <2> QED
    BY <1>4, <1>5, <1>7, <1>8, <2>1, <2>2
<1>11. CASE ~Addressed(a) /\ ~Addressed(b) /\ Addressed(c)
  <2>1. q \in Stun!Addresses(r) /\ First(q) /\ \A o \in Stun!Addresses(r) : First(o) => o = q
    BY <1>3, <1>5, <1>6, <1>11 DEF First
  <2>2. Stun!Walk(r) = (IF cut = 0 THEN q ELSE 0) /\ (Stun!Decodes(c) <=> c.family = 4)
    BY <1>2, <1>5, <1>11 DEF Stun!Decodes
  <2>3. CASE cut = 0
    BY <1>4, <1>5, <1>7, <1>8, <2>1, <2>2, <2>3
  <2>4. CASE cut # 0
    BY <1>4, <1>5, <1>7, <1>8, <2>1, <2>2, <2>4
  <2> QED
    BY <2>3, <2>4
<1>12. CASE ~Addressed(a) /\ ~Addressed(b) /\ ~Addressed(c)
  <2>1. Stun!Addresses(r) = {} /\ Stun!Walk(r) = 0
    BY <1>2, <1>6, <1>12
  <2> QED
    BY <1>5, <1>7, <1>8, <2>1
<1> QED
  BY <1>9, <1>10, <1>11, <1>12

(* INSTANCE gives the component its own copy of the operator.                *)
LEMMA StunCardinality == \A S : Stun!Cardinality(S) = Cardinality(S)
  BY DEF Stun!Cardinality, Cardinality, Stun!IsFiniteSet, IsFiniteSet

(* Two ports get different addresses, whatever the NAT and the servers, and  *)
(* a NAT gives a port an address that is not the host's.                     *)
LEMMA MappedApart ==
    ASSUME nat \in {"none", "cone", "symmetric"}
    PROVE  /\ \A port, n : Stun!Mapped(port, n) # <<>>
           /\ \A port, q, n, k : port # q => Stun!Mapped(port, n) # Stun!Mapped(q, k)
           /\ nat # "none" => \A port, n : Stun!Mapped(port, n) # <<"host", port>>
  BY DEF Stun!Mapped

(* One answer compared is enough for the verdict: it comes from another      *)
(* port than the first one, whose socket is still open.                      *)
StunAsking ==
    /\ nat \in {"none", "cone", "symmetric"} /\ nserver \in 1 .. NServers + 1
    /\ DOMAIN answers = 1 .. NServers
    /\ \A i \in 1 .. NServers : answers[i] # <<>> => i < nserver
    /\ first = answers[1] /\ verdict \in {"unknown", "symmetric"}
    /\ nat # "none" /\ first # <<>> => first # local
    /\ socks = IF lastConn = 0 THEN {} ELSE {lastConn}
    /\ IF \E i \in 2 .. NServers : answers[i] # <<>> THEN verdict = "symmetric"
       ELSE /\ stable = FALSE
            /\ first # <<>> => lastConn # 0 /\ first = Stun!Mapped(lastConn, 1)
StunFresh ==
    /\ nat = "unset" /\ socks = {} /\ lastConn = 0 /\ first = <<>> /\ stable = FALSE
    /\ verdict = "unknown" /\ answers = [i \in 1 .. NServers |-> <<>>]
StunInv ==
    /\ npc \in {"idle", "ask", "punch", "wait", "done"}
    /\ npc = "ask" => StunAsking
    /\ npc = "idle" => StunFresh
    /\ npc \in {"punch", "wait"} => nat = "unset"
    /\ npc = "done" => /\ nat # "unset" => Stun!Verdict
                       /\ socks = {} \/ verdict = "punched"

LEMMA StunAnswers ==
    ASSUME NEW port \in Ports, StunInv, Stun!Answer(port)
    PROVE  StunInv'
<1>1. /\ npc = "ask" /\ npc' = "ask" /\ nat' = nat /\ nserver \in 1 .. NServers
      /\ nserver' = nserver + 1 /\ port \notin socks /\ lastConn' = port
      /\ socks' = (socks \cup {port}) \ {lastConn}
      /\ answers' = [answers EXCEPT ![nserver] = Stun!Mapped(port, nserver)]
      /\ StunAsking /\ port # 0 /\ NServers \in Nat \ {0}
  BY ComponentsAssumption DEF StunInv, StunAsking, Stun!Answer, Stun!StunAssumption
<1>2. /\ Stun!Mapped(port, nserver) # <<>>
      /\ \A q, k : port # q => Stun!Mapped(port, nserver) # Stun!Mapped(q, k)
      /\ nat # "none" => Stun!Mapped(port, 1) # <<"host", port>>
  BY <1>1, MappedApart DEF StunAsking
<1>3. socks' = {port} /\ port # lastConn
  BY <1>1 DEF StunAsking
<1>4. /\ DOMAIN answers' = 1 .. NServers /\ answers'[nserver] = Stun!Mapped(port, nserver)
      /\ \A i \in 1 .. NServers : i # nserver => answers'[i] = answers[i]
  BY <1>1 DEF StunAsking
<1>5. nserver' \in 1 .. NServers + 1 /\ \A i \in 1 .. NServers : answers'[i] # <<>> => i < nserver'
  BY <1>1, <1>4 DEF StunAsking
<1>6. CASE nserver = 1
  <2>1. /\ first' = Stun!Mapped(port, 1) /\ stable' = stable /\ verdict' = verdict
        /\ local' = <<"host", port>>
    BY <1>6 DEF Stun!Answer
  <2>2. \A i \in 2 .. NServers : answers[i] = <<>> /\ answers'[i] = <<>>
    <3> SUFFICES ASSUME NEW i \in 2 .. NServers PROVE answers[i] = <<>> /\ answers'[i] = <<>>
      OBVIOUS
    <3>1. i \in 1 .. NServers /\ i # nserver /\ ~(i < nserver)
      BY <1>1, <1>6
    <3> QED
      BY <1>1, <1>4, <3>1 DEF StunAsking
  <2>3. first' = answers'[1] /\ Stun!Mapped(lastConn, 1)' = Stun!Mapped(port, 1)
    BY <1>1, <1>4, <1>6, <2>1 DEF Stun!Mapped
  <2>4. stable = FALSE /\ verdict \in {"unknown", "symmetric"} /\ nat \in {"none", "cone", "symmetric"}
    BY <1>1, <2>2 DEF StunAsking
  <2>6. nat' # "none" => first' # local'
    BY <1>1, <1>2, <2>1
  <2>5. StunAsking'
    BY <1>1, <1>3, <1>4, <1>5, <2>1, <2>2, <2>3, <2>4, <2>6 DEF StunAsking
  <2> QED
    BY <1>1, <2>5 DEF StunInv
<1>7. CASE nserver # 1
  <2>1. /\ first' = first /\ local' = local
        /\ verdict' = IF Stun!Mapped(port, nserver) # first THEN "symmetric" ELSE verdict
    BY <1>7 DEF Stun!Answer
  <2>2. nserver \in 2 .. NServers /\ 1 \in 1 .. NServers /\ answers'[1] = answers[1]
    BY <1>1, <1>4, <1>7
  <2>3. \E i \in 2 .. NServers : answers'[i] # <<>>
    BY <1>2, <1>4, <2>2
  <2>4. verdict' = "symmetric"
    <3>1. CASE \E i \in 2 .. NServers : answers[i] # <<>>
      BY <1>1, <2>1, <3>1 DEF StunAsking
    <3>2. CASE ~\E i \in 2 .. NServers : answers[i] # <<>>
      <4>1. first # <<>> => first = Stun!Mapped(lastConn, 1)
        BY <1>1, <3>2 DEF StunAsking
      <4> QED
        BY <1>2, <1>3, <2>1, <4>1
    <3> QED
      BY <3>1, <3>2
  <2>5. /\ first' = answers'[1] /\ nat \in {"none", "cone", "symmetric"}
        /\ nat' # "none" /\ first' # <<>> => first' # local'
    BY <1>1, <2>1, <2>2 DEF StunAsking
  <2>6. StunAsking'
    BY <1>1, <1>3, <1>4, <1>5, <2>3, <2>4, <2>5 DEF StunAsking
  <2> QED
    BY <1>1, <2>6 DEF StunInv
<1> QED
  BY <1>6, <1>7

LEMMA StunJudges ==
    ASSUME StunInv, Stun!Judge
    PROVE  StunInv'
<1>1. /\ npc = "ask" /\ npc' = "done" /\ nat' = nat /\ answers' = answers /\ first' = first
      /\ socks' = socks \ {lastConn} /\ StunAsking /\ NServers \in Nat \ {0}
      /\ verdict' = IF first = <<>> THEN "error"
                    ELSE IF verdict = "symmetric" THEN verdict
                    ELSE IF first = local THEN "none"
                    ELSE IF stable THEN "full" ELSE "unknown"
  BY ComponentsAssumption DEF StunInv, Stun!Judge, Stun!StunAssumption
<1>2. socks' = {}
  BY <1>1 DEF StunAsking
<1>3. verdict' = "error" <=> first = <<>>
  BY <1>1 DEF StunAsking
<1>4. first = answers[1] /\ (1 \in Stun!Answered' <=> answers[1] # <<>>)
  BY <1>1 DEF StunAsking, Stun!Answered
<1>5. 1 \in Stun!Answered' /\ Stun!Cardinality(Stun!Answered') > 1 => verdict' = "symmetric"
  <2> SUFFICES ASSUME 1 \in Stun!Answered', Stun!Cardinality(Stun!Answered') > 1
               PROVE  verdict' = "symmetric"
    OBVIOUS
  <2>1. \E i \in 2 .. NServers : answers[i] # <<>>
    <3>1. SUFFICES ASSUME \A i \in 2 .. NServers : answers[i] = <<>> PROVE FALSE
      OBVIOUS
    <3>2. Stun!Answered' = {1}
      <4>1. \A i \in Stun!Answered' : i = 1
        BY <1>1, <3>1 DEF Stun!Answered
      <4> QED
        BY <4>1
    <3>3. Cardinality(Stun!Answered') = 1
      BY <3>2, FS_Singleton
    <3> QED
      BY <3>3, StunCardinality
  <2> QED
    BY <1>1, <1>4, <2>1 DEF StunAsking
<1>6. verdict' = "none" => nat' = "none"
  BY <1>1 DEF StunAsking
<1>7. /\ 1 \in Stun!Answered' => verdict' # "error"
      /\ Stun!Answered' = {} => verdict' = "error"
  <2>1. Stun!Answered' = {} => 1 \notin Stun!Answered'
    OBVIOUS
  <2> QED
    BY <1>3, <1>4, <2>1
<1>8. Stun!Verdict'
  BY <1>5, <1>6, <1>7 DEF Stun!Verdict
<1> QED
  BY <1>1, <1>2, <1>8 DEF StunInv

LEMMA StunKeeps == StunInv /\ [Stun!Next]_(Stun!nvars) => StunInv'
<1> SUFFICES ASSUME StunInv, [Stun!Next]_(Stun!nvars) PROVE StunInv'
  OBVIOUS
<1>a. NServers \in Nat \ {0}
  BY ComponentsAssumption DEF Stun!StunAssumption
<1>1. ASSUME NEW n \in {"none", "cone", "symmetric"}, Stun!Discover(n) PROVE StunInv'
  <2>1. StunAsking'
    BY <1>a, <1>1 DEF StunInv, StunFresh, StunAsking, Stun!Discover
  <2> QED
    BY <1>1, <2>1 DEF StunInv, Stun!Discover
<1>2. ASSUME Stun!NoAnswer PROVE StunInv'
  <2>1. StunAsking'
    BY <1>a, <1>2 DEF StunInv, StunAsking, Stun!NoAnswer, Stun!Mapped
  <2> QED
    BY <1>2, <2>1 DEF StunInv, Stun!NoAnswer
<1>3. ASSUME NEW port \in Ports, Stun!Answer(port) PROVE StunInv'
  BY <1>3, StunAnswers
<1>4. CASE Stun!Judge
  BY <1>4, StunJudges
<1>5. ASSUME NEW port \in Ports, Stun!HolePunch(port) PROVE StunInv'
  BY <1>5 DEF StunInv, StunFresh, Stun!HolePunch
<1>6. CASE Stun!Punch \/ Stun!PunchFails \/ Stun!Punched
  BY <1>6 DEF StunInv, Stun!Punch, Stun!PunchFails, Stun!Punched
<1>7. CASE UNCHANGED Stun!nvars
  BY <1>7 DEF StunInv, StunAsking, StunFresh, Stun!nvars, Stun!Verdict, Stun!Answered, Stun!Mapped
<1> QED
  BY <1>1, <1>2, <1>3, <1>4, <1>5, <1>6, <1>7 DEF Stun!Next, Stun!Unparsed

(* The first server's answer is enough for a verdict and nobody's for none,  *)
(* a symmetric NAT is recognised by two answers, and a host without a NAT    *)
(* only where there is none; a response of three attributes of any length is *)
(* understood exactly if the first address in it is a whole IPv4 one; and no *)
(* socket stays open but the one that HolePunch returns.                     *)
THEOREM VerdictCorrect == Spec => []NatVerdict
<1>1. Init => StunInv
  BY DEF Init, Stun!Init, StunInv, StunFresh
<1>2. StunInv /\ [Next]_vars => StunInv'
  BY StunStep, StunKeeps
<1>3. StunInv => NatVerdict
  BY Understanding DEF StunInv, NatVerdict, Stun!NatVerdict
<1> QED
  BY <1>1, <1>2, <1>3, PTL DEF Spec

----------------------------------------------------------------------------
(* The relay                                                                 *)

LEMMA RelayStep == [Next]_vars => [Relay!Next]_(Relay!rvars)
  BY DEF Next, vars, BandwidthNext, TransportNext, SecureNext, PacketNext, FirewallNext, PeerNext, LimiterNext,
         StunNext, RelayNext, HeaderNext, NegotiationNext, rv, Relay!rvars

(* Whatever the sizes of the buffers, the cuts, and the moments at which the *)
(* engines are switched, the target receives the client's bytes, as          *)
(* rewritten, in order and without a gap; all of them at the end of file.    *)
THEOREM RelayCorrect == Spec => []RelayExact
<1>1. Init => Relay!RelayInv
  BY ComponentsAssumption, Relay!InitRelay DEF Init
<1>2. Relay!RelayInv /\ [Next]_vars => Relay!RelayInv'
  BY ComponentsAssumption, RelayStep, Relay!NextRelay
<1>3. Relay!RelayInv => RelayExact
  BY Relay!ExactFollows DEF RelayExact
<1> QED
  BY <1>1, <1>2, <1>3, PTL DEF Spec
=============================================================================

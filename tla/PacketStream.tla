---------------------------- MODULE PacketStream ----------------------------
(***************************************************************************)
(* The packets of a transport stream (quicStream in transport/quic.go,      *)
(* socks5TLSStream in socks5_tls.go): four bytes of length, most            *)
(* significant first, then the payload.  WritePacket writes any length,     *)
(* ReadPacket refuses zero and more than 2^20 and leaves the payload there. *)
(* Length and payload go out in one Write, so a packet is never torn.       *)
(***************************************************************************)
EXTENDS Integers, Sequences, FiniteSets

CONSTANTS
    PacketSizes,  \* lengths given to WritePacket
    MaxPackets    \* bound: packets written

VARIABLES pwire, psent, pgot, pskew
    \* packets in flight, lengths written, lengths read, and whether the
    \* reader is inside a payload

pvars == <<pwire, psent, pgot, pskew>>

Init == pwire = <<>> /\ psent = <<>> /\ pgot = <<>> /\ pskew = FALSE

Byte(n, place) == (n \div place) % 256          \* byte(n >> k), place being 2^k
LenBuf(n) == <<Byte(n, 16777216), Byte(n, 65536), Byte(n, 256), Byte(n, 1)>>
PktLen(b) == b[1] * 16777216 + b[2] * 65536 + b[3] * 256 + b[4]

WritePacket(n) ==
    /\ Len(psent) < MaxPackets
    /\ pwire' = Append(pwire, [head |-> LenBuf(n), len |-> n])
    /\ psent' = Append(psent, n)
    /\ UNCHANGED <<pgot, pskew>>

MaxPacket == 1048576                            \* 1 << 20
Accepted(n) == n > 0 /\ n <= MaxPacket

(* A refused length consumes the prefix only; if a payload follows it, the  *)
(* next four bytes read are no length, and may or may not pass for one.     *)
Junk == -1

ReadPacket ==
    LET n == PktLen(Head(pwire).head) IN
    /\ pwire # <<>>
    /\ pwire' = Tail(pwire) /\ UNCHANGED psent
    /\ \/ ~pskew /\ Accepted(n) /\ pgot' = Append(pgot, n) /\ UNCHANGED pskew
       \/ ~pskew /\ ~Accepted(n) /\ pskew' = (Head(pwire).len > 0) /\ UNCHANGED pgot
       \/ pskew /\ pgot' \in {pgot, Append(pgot, Junk)} /\ UNCHANGED pskew

Next == ReadPacket \/ \E n \in PacketSizes : WritePacket(n)

----------------------------------------------------------------------------
(* ReadPacket returns what WritePacket was given, in order, up to the first  *)
(* packet that is too long, after which the two are out of step; an empty    *)
(* packet is an error to the reader and loses nothing else.                  *)
PacketsInOrder ==
    LET read == SubSeq(psent, 1, Len(psent) - Len(pwire))
        inStep(k) == \A j \in 1 .. k : read[j] <= MaxPacket
        due == {k \in DOMAIN read : read[k] > 0 /\ inStep(k)}
        nth(k) == Cardinality({j \in due : j <= k})
    IN  /\ Len(pgot) >= Cardinality(due)
        /\ ~pskew => Len(pgot) = Cardinality(due)
        /\ \A k \in due : pgot[nth(k)] = read[k]
=============================================================================

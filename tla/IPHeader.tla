------------------------------ MODULE IPHeader ------------------------------
(***************************************************************************)
(* privacy/ttl.go: NormalizePacket rewrites the TTL of an IPv4 packet and   *)
(* its header checksum, or the hop limit of an IPv6 packet, in place.  A    *)
(* header is its sequence of 16-bit words; the packet's length is in bytes. *)
(***************************************************************************)
EXTENDS Integers, Sequences

CONSTANTS
    Words,       \* values of the header words that the code only sums
    TTLs,        \* TTLs of the packets
    TargetTTL    \* cfg.TargetTTL

HeaderAssumption ==
    /\ \A x \in Words : x \in Nat /\ x <= 65535
    /\ \A t \in TTLs \cup {TargetTTL} : t \in Nat /\ t <= 255

VARIABLES ipin, ipout, iperr   \* the packet before and after, and the result

ivars == <<ipin, ipout, iperr>>
NoPacket == [version |-> 0, size |-> 0, words |-> <<>>]

Init == ipin = NoPacket /\ ipout = NoPacket /\ iperr = "none"

(* The packets: IPv4 headers of 20 and 24 bytes, some cut, with an IHL that *)
(* may be too small; IPv6 headers; and one that is neither.                 *)
V4(ihl, ttl, sum, a, b) ==
    <<(4 * 16 + ihl) * 256, a, b, a, ttl * 256 + 6, sum, b, a, a, b>>
        \o IF ihl = 6 THEN <<a, b>> ELSE <<>>
Packets ==
    [version : {4}, size : {19, 20, 24},
     words : {V4(ihl, ttl, sum, a, b) : ihl \in {4, 5, 6}, ttl \in TTLs, sum \in Words,
                                        a \in Words, b \in Words}]
    \cup [version : {6}, size : {39, 40},
          words : {<<24576, 0, 0, 17 * 256 + ttl>> : ttl \in TTLs}]
    \cup {[version |-> 5, size |-> 20, words |-> <<>>], NoPacket}

SumWords(w) ==
    LET sum[k \in 0 .. Len(w)] == IF k = 0 THEN 0 ELSE sum[k - 1] + w[k]
    IN  sum[Len(w)]

(* Mutation: the carry is added once.                                       *)
FoldOnce(sum) == (sum \div 65536) + (sum % 65536)

FoldSum(sum) ==
    LET fold[s \in Nat] == IF s > 65535 THEN fold[(s \div 65536) + (s % 65536)] ELSE s
    IN  fold[sum]

(* recalcIPv4Checksum, on the first n words.                                *)
recalcIPv4Checksum(w, n) ==
    LET zeroed == [w EXCEPT ![6] = 0]
    IN  [w EXCEPT ![6] = (65535 - FoldSum(SumWords(SubSeq(zeroed, 1, n)))) % 65536]

IHL(p) == (p.words[1] \div 256) % 16            \* in 32-bit words

Normalized4(p) ==
    LET w == [p.words EXCEPT ![5] = TargetTTL * 256 + (@ % 256)]
    IN  IF p.words[5] \div 256 = TargetTTL THEN p
        ELSE [p EXCEPT !.words = recalcIPv4Checksum(w, 2 * IHL(p))]
Normalized6(p) == [p EXCEPT !.words[4] = (@ \div 256) * 256 + TargetTTL]

TooShort(p) ==
    \/ p.size < 1
    \/ p.version = 4 /\ (p.size < 20 \/ IHL(p) < 5 \/ p.size < 4 * IHL(p))
    \/ p.version = 6 /\ p.size < 40

NormalizePacket(p, enabled) ==
    /\ ipin' = p
    /\ iperr' = CASE ~enabled -> "off"
                  [] enabled /\ TooShort(p) -> "short"
                  [] enabled /\ ~TooShort(p) /\ p.version \notin {4, 6} -> "not_ip"
                  [] OTHER -> "ok"
    /\ ipout' = IF iperr' # "ok" THEN p ELSE IF p.version = 4 THEN Normalized4(p) ELSE Normalized6(p)

NormalizeNext == ipin = NoPacket /\ iperr = "none" /\ \E p \in Packets, on \in BOOLEAN : NormalizePacket(p, on)
Next == NormalizeNext

----------------------------------------------------------------------------
(* A rewritten IPv4 header has a valid checksum, also when adding the carry  *)
(* produces another one: its words sum to a multiple of 65535, whatever the  *)
(* checksum was before.  Nothing but the TTL and the checksum changes, and a *)
(* refused packet not at all.                                                *)
ChecksumValid ==
    /\ iperr = "ok" /\ ipin.version = 4 /\ ipout # ipin =>
          /\ SumWords(SubSeq(ipout.words, 1, 2 * IHL(ipin))) % 65535 = 0
          /\ \A k \in DOMAIN ipin.words \ {5, 6} : ipout.words[k] = ipin.words[k]
    /\ iperr = "ok" /\ ipin.version = 4 =>
          /\ ipout.words[5] \div 256 = TargetTTL
          /\ ipout.words[5] % 256 = ipin.words[5] % 256
    /\ iperr = "ok" /\ ipin.version = 6 =>
          ipout.words = [ipin.words EXCEPT ![4] = @ - (@ % 256) + TargetTTL]
    /\ iperr # "ok" => ipout = ipin
=============================================================================

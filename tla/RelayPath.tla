----------------------------- MODULE RelayPath -----------------------------
(***************************************************************************)
(* The bytes on their way from client to target in one SOCKS5 relay: the    *)
(* loop in relay (proxy/socks5.go) reads through uaHarmonizingReader, which *)
(* may rewrite the first chunk it looks at, and writes through              *)
(* fragmentingWriter, which cuts what it is given (privacy/fragment.go).    *)
(* The control service switches both engines on and off at any moment.      *)
(* A byte, and a five-byte TLS record header alike, is a token: the         *)
(* client's are the even numbers from 2, in the order they were sent, the   *)
(* text by which a rewritten request grows is the odd number before its     *)
(* first token, and a header that the code makes is Made.                   *)
(***************************************************************************)
EXTENDS Integers, Sequences, SequencesExt

CONSTANTS
    Total,      \* bound: tokens the client sends
    TempSize,   \* the reader's first buffer, 4096 bytes
    RelayBuf,   \* cfg.RelayBufSize
    MinFrag, MaxFrag

RelayAssumption ==
    /\ Total \in Nat /\ TempSize \in Nat /\ RelayBuf \in Nat \ {0}
    /\ MinFrag \in Nat /\ MaxFrag \in Nat

Made == 0
Grown(t) == t % 2 = 1

VARIABLES
    strategy,   \* "none" before the relay starts, or the fragmenter's
    uaOn, fragOn,
    cread,      \* tokens read from the client
    inspected,  \* u.inspected
    ubuf,       \* u.buf[u.offset:]
    rpc,        \* the relay loop: "read", "write" or "ended"
    pend,       \* what Write has still to write
    reclen,     \* how much of pend is the payload of a TLS record
    wmode,      \* how this Write cuts
    nr, nw,
    out,        \* what the target has received
    want,       \* history: the tokens that came from the client, as rewritten
    headers,    \* history: record headers that were replaced or left out
    why         \* why the loop ended

rvars == <<strategy, uaOn, fragOn, cread, inspected, ubuf, rpc, pend, reclen, wmode,
           nr, nw, out, want, headers, why>>
engines == <<strategy, uaOn, fragOn>>

Init ==
    /\ strategy = "none" /\ uaOn = FALSE /\ fragOn = FALSE /\ cread = 0 /\ inspected = FALSE
    /\ ubuf = <<>> /\ rpc = "read" /\ pend = <<>> /\ reclen = 0 /\ wmode = "whole"
    /\ nr = 0 /\ nw = 0 /\ out = <<>> /\ want = {} /\ headers = {} /\ why = "none"

StartRelay(s) ==
    /\ strategy = "none" /\ strategy' = s
    /\ UNCHANGED <<uaOn, fragOn, cread, inspected, ubuf, rpc, pend, reclen, wmode, nr, nw, out, want, headers, why>>

SetEnabled ==
    /\ strategy # "none"
    /\ \/ uaOn' = ~uaOn /\ UNCHANGED fragOn
       \/ fragOn' = ~fragOn /\ UNCHANGED uaOn
    /\ UNCHANGED <<strategy, cread, inspected, ubuf, rpc, pend, reclen, wmode, nr, nw, out, want, headers, why>>

----------------------------------------------------------------------------
(* uaHarmonizingReader.Read(buf)                                            *)

Least(a, b) == IF a < b THEN a ELSE b
Chunk(n) == [k \in 1 .. n |-> 2 * (cread + k)]

(* HarmonizeRawHTTP: the chunk itself if it is no whole request, or one with *)
(* a longer or, its revealing headers stripped, a shorter head.             *)
Harmonized(c) == {c, <<c[1] - 1>> \o c} \cup IF Len(c) > 1 THEN {Tail(c)} ELSE {}

(* fragmentingWriter.Write(p): the mode is settled when Fragment returns.   *)
(* rec tokens of p are one whole TLS record, header included.  A record     *)
(* without payload and with nothing after it yields no fragment: p is       *)
(* written whole.                                                           *)
StartWrite(p) ==
    /\ rpc' = "write" /\ nr' = Len(p) /\ nw' = 0
    /\ \E rec \in IF Grown(p[1]) THEN {0} ELSE 0 .. Len(p) :
          LET tls == fragOn /\ strategy = "tls" /\ rec > 0 /\ p # <<p[1]>> IN
          /\ wmode' = IF ~fragOn \/ (rec = 1 /\ p = <<p[1]>>) THEN "whole"
                      ELSE IF strategy = "fixed" THEN "fixed" ELSE "random"
          /\ pend' = IF tls THEN Tail(p) ELSE p
          /\ reclen' = IF tls THEN rec - 1 ELSE 0
          /\ headers' = IF tls THEN headers \cup {p[1]} ELSE headers
    /\ UNCHANGED <<engines, out, why>>

(* Mutation: the rest of the first chunk is forgotten.                      *)
KeepNothing(c, n) == <<>>

KeepRest(c, n) == SubSeq(c, n + 1, Len(c))

InspectFirst(n) ==
    /\ rpc = "read" /\ strategy # "none" /\ uaOn /\ ~inspected
    /\ n \in 1 .. Least(TempSize, Total - cread)
    /\ \E c \in Harmonized(Chunk(n)) :
          LET m == Least(Len(c), RelayBuf) IN
          /\ ubuf' = KeepRest(c, m) /\ want' = want \cup ToSet(c)
          /\ StartWrite(SubSeq(c, 1, m))
    /\ inspected' = TRUE /\ cread' = cread + n

ReadRest ==
    /\ rpc = "read" /\ (~uaOn \/ inspected) /\ ubuf # <<>>
    /\ LET m == Least(Len(ubuf), RelayBuf) IN
       ubuf' = KeepRest(ubuf, m) /\ StartWrite(SubSeq(ubuf, 1, m))
    /\ UNCHANGED <<cread, inspected, want>>

ReadClient(n) ==
    /\ rpc = "read" /\ strategy # "none" /\ (~uaOn \/ inspected) /\ ubuf = <<>>
    /\ n \in 1 .. Least(RelayBuf, Total - cread)
    /\ StartWrite(Chunk(n)) /\ want' = want \cup ToSet(Chunk(n))
    /\ cread' = cread + n
    /\ UNCHANGED <<inspected, ubuf>>

(* The client has closed.  A first Read that finds nothing still counts as  *)
(* the inspection.                                                          *)
ReadEOF ==
    /\ rpc = "read" /\ strategy # "none" /\ ubuf = <<>>
    /\ rpc' = "ended" /\ why' = "eof"
    /\ inspected' = (inspected \/ uaOn)
    /\ UNCHANGED <<engines, cread, ubuf, pend, reclen, wmode, nr, nw, out, want, headers>>

----------------------------------------------------------------------------
(* The fragments, one Write of the target's connection each                 *)

Cuts ==
    IF reclen > 0 THEN 1 .. Least(MaxFrag - 1, reclen)
    ELSE CASE wmode = "whole" -> {Len(pend)}
           [] wmode = "fixed" -> {Least(MaxFrag, Len(pend))}
           [] wmode = "random" -> {Least(k, Len(pend)) : k \in MinFrag .. MaxFrag}

Fragment(n) == (IF reclen > 0 THEN <<Made>> ELSE <<>>) \o SubSeq(pend, 1, n)

WriteFragment(n) ==
    /\ rpc = "write" /\ pend # <<>>
    /\ out' = out \o Fragment(n) /\ nw' = nw + Len(Fragment(n))
    /\ pend' = SubSeq(pend, n + 1, Len(pend))
    /\ reclen' = IF reclen > 0 THEN reclen - n ELSE 0
    /\ UNCHANGED <<engines, cread, inspected, ubuf, rpc, wmode, nr, want, headers, why>>

WriteFails(n) ==
    /\ rpc = "write" /\ pend # <<>>
    /\ \E k \in 0 .. Len(Fragment(n)) - 1 : out' = out \o SubSeq(Fragment(n), 1, k)
    /\ rpc' = "ended" /\ why' = "error"
    /\ UNCHANGED <<engines, cread, inspected, ubuf, pend, reclen, wmode, nr, nw, want, headers>>

(* The loop breaks when the count is not the one it gave to Write.          *)
WriteReturns ==
    /\ rpc = "write" /\ pend = <<>>
    /\ rpc' = IF nr = nw THEN "read" ELSE "ended"
    /\ why' = IF nr = nw THEN why ELSE "count"
    /\ nr' = 0 /\ nw' = 0 /\ wmode' = "whole"
    /\ UNCHANGED <<engines, cread, inspected, ubuf, pend, reclen, out, want, headers>>

Next ==
    \/ \E s \in {"fixed", "random", "tls"} : StartRelay(s)
    \/ SetEnabled \/ ReadRest \/ ReadEOF \/ WriteReturns
    \/ \E n \in 1 .. Total : InspectFirst(n) \/ ReadClient(n)
    \/ \E n \in Cuts : WriteFragment(n) \/ WriteFails(n)

----------------------------------------------------------------------------
(* Whether a token is to reach the target: a record header may be made or   *)
(* replaced on the way.                                                     *)
Real(t) == t # Made /\ t \notin headers

(* However the chunks fall and whenever the engines are switched, the target *)
(* receives the client's bytes, as rewritten, in order, once and without a   *)
(* gap; at the client's end of file it has received all of them.  Record     *)
(* headers are left out of this: the TLS strategy, and it alone, replaces    *)
(* them, and the loop then gives up because of its count, which              *)
(* FragmentsReproduce says must not be.                                      *)
InOrder ==
    \A i, j \in DOMAIN out : i < j /\ Real(out[i]) /\ Real(out[j]) => out[i] < out[j]
Sent == \A i \in DOMAIN out : Real(out[i]) => out[i] \in want
NoGap ==
    \A i \in DOMAIN out, t \in want : Real(out[i]) /\ Real(t) /\ t < out[i] => t \in ToSet(out)

RelayExact ==
    /\ InOrder /\ Sent /\ NoGap
    /\ why = "eof" => \A t \in want : Real(t) => t \in ToSet(out)
    /\ why = "count" => strategy = "tls"

(* Fragment returns "a slice of fragments that, when concatenated, reproduce *)
(* the original payload" (fragment.go:120): together they are as long as     *)
(* what Write was given; when they are not, the relay's loop gives up.  It   *)
(* does not hold of TLS records: README section 4.                           *)
FragmentsReproduce == rpc = "write" /\ pend = <<>> => nw = nr
=============================================================================

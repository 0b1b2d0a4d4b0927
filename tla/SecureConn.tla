----------------------------- MODULE SecureConn -----------------------------
(***************************************************************************)
(* handshake/noise_conn.go: the Noise handshake over a TCP connection and   *)
(* the encrypted connection it yields.  The two ends of one connection run  *)
(* UpgradeToSecure, the initiator from the mesh Connect (or any other       *)
(* caller), the responder from the TCP listener or SecureListener.Accept,   *)
(* with configurations that need not agree.  Then both ends Write and Read  *)
(* frames, each with a 16-bit length before a ciphertext of any size.       *)
(* The Noise library is external: a message is read if it is the expected   *)
(* one and, unless it is the first of XX, which nothing authenticates, its  *)
(* writer has the same pattern, AEAD and responder key.                     *)
(***************************************************************************)
EXTENDS Integers, Sequences

CONSTANTS
    Sizes,      \* lengths of the slices that Write is given
    Bufs,       \* lengths of the buffers that Read is given
    MaxFrames   \* bound: frames written, by both ends together

Ends == {"ini", "res"}
Other(e) == IF e = "ini" THEN "res" ELSE "ini"
Tag == 16                                  \* bytes that the AEAD adds

(* What NewState builds from a Config.  The key counts in IK, where the     *)
(* initiator must know it in advance; "bad" is a pattern NewState refuses.  *)
Names == [pattern : {"IK"}, aead : {"chacha", "aes"}, key : {"right", "wrong"}]
         \cup [pattern : {"XX"}, aead : {"chacha", "aes"}, key : {"right"}]
BadName == [pattern |-> "bad", aead |-> "chacha", key |-> "right"]
NoName == [pattern |-> "none", aead |-> "none", key |-> "none"]

VARIABLES
    hname,      \* the protocol each end was configured with
    hpc,        \* "new", "write", "read", "up" or "failed"
    hround,     \* messages of the handshake each end has written or read
    hwire,      \* in flight to each end, in order
    hopen,      \* each end's raw connection
    armed,      \* the end's deadline is set
    keys,       \* the two cipher states: [send, recv]
    sent,       \* sizes written by each end
    nrecv,      \* nonce of the receiving cipher state
    got,        \* what Read returned at each end: [len, cut]
    garbled     \* the end reads from inside a frame

hvars == <<hname, hpc, hround, hwire, hopen, armed, keys, sent, nrecv, got, garbled>>
dvars == <<sent, nrecv, got, garbled>>

NoKeys == [send |-> "none", recv |-> "none"]
Messages(n) == IF n.pattern = "IK" THEN 2 ELSE 3

Init ==
    /\ hname = [e \in Ends |-> NoName] /\ hpc = [e \in Ends |-> "new"]
    /\ hround = [e \in Ends |-> 0] /\ hwire = [e \in Ends |-> <<>>]
    /\ hopen = [e \in Ends |-> TRUE] /\ armed = [e \in Ends |-> FALSE]
    /\ keys = [e \in Ends |-> NoKeys] /\ sent = [e \in Ends |-> <<>>]
    /\ nrecv = [e \in Ends |-> 0] /\ got = [e \in Ends |-> <<>>]
    /\ garbled = [e \in Ends |-> FALSE]

----------------------------------------------------------------------------
(* UpgradeToSecure                                                          *)

Turn(e, round) == IF (e = "ini") = (round % 2 = 0) THEN "write" ELSE "read"

(* Mutation: the handshake runs without a deadline.                         *)
UpgradeUnarmed(e, n) ==
    /\ hpc[e] = "new"
    /\ hname' = [hname EXCEPT ![e] = n] /\ UNCHANGED armed
    /\ hpc' = [hpc EXCEPT ![e] = Turn(e, 0)]
    /\ UNCHANGED <<hround, hwire, hopen, keys, dvars>>

Upgrade(e, n) ==
    /\ hpc[e] = "new"
    /\ hname' = [hname EXCEPT ![e] = n]
    /\ armed' = [armed EXCEPT ![e] = TRUE]
    /\ hpc' = [hpc EXCEPT ![e] = Turn(e, 0)]
    /\ UNCHANGED <<hround, hwire, hopen, keys, dvars>>

(* An error of NewState or of the handshake: the deferred call clears the   *)
(* deadline, and every caller closes the raw connection.                    *)
Fail(e) ==
    /\ hpc' = [hpc EXCEPT ![e] = "failed"] /\ armed' = [armed EXCEPT ![e] = FALSE]
    /\ hopen' = [hopen EXCEPT ![e] = FALSE]
    /\ UNCHANGED <<hname, hround, keys, dvars>>

BadConfig(e) ==
    /\ hpc[e] = "new"
    /\ hname' = [hname EXCEPT ![e] = BadName]
    /\ hpc' = [hpc EXCEPT ![e] = "failed"] /\ hopen' = [hopen EXCEPT ![e] = FALSE]
    /\ UNCHANGED <<hround, hwire, armed, keys, dvars>>

(* Mutation: the responder takes the states in the initiator's order.       *)
SplitSwapped(e) == [send |-> "cs1", recv |-> "cs2"]

(* The library returns the two states in the same order at both ends: the   *)
(* first is for what the initiator sends.                                   *)
Split(e) ==
    IF e = "ini" THEN [send |-> "cs1", recv |-> "cs2"]
                 ELSE [send |-> "cs2", recv |-> "cs1"]

(* The end has written or read one more message; after the last of the      *)
(* pattern it has its cipher states and the deadline is cleared.            *)
Advance(e) ==
    LET last == hround[e] + 1 = Messages(hname[e]) IN
    /\ hround' = [hround EXCEPT ![e] = @ + 1]
    /\ hpc' = [hpc EXCEPT ![e] = IF last THEN "up" ELSE Turn(e, hround[e] + 1)]
    /\ keys' = [keys EXCEPT ![e] = IF last THEN Split(e) ELSE @]
    /\ armed' = [armed EXCEPT ![e] = ~last]
    /\ UNCHANGED <<hname, dvars>>

WriteMessage(e) ==
    /\ hpc[e] = "write" /\ hopen[e]
    /\ hwire' = [hwire EXCEPT ![Other(e)] = Append(@, [round |-> hround[e], name |-> hname[e]])]
    /\ Advance(e)
    /\ UNCHANGED hopen

(* ReadMessage of the library: what the message authenticates must agree.   *)
Readable(e, m) ==
    /\ m.round = hround[e]
    /\ \/ m.name = hname[e]
       \/ m.round = 0 /\ hname[e].pattern = "XX"

ReadMessage(e) ==
    /\ hpc[e] = "read" /\ hwire[e] # <<>>
    /\ hwire' = [hwire EXCEPT ![e] = Tail(@)]
    /\ \/ Readable(e, Head(hwire[e])) /\ Advance(e) /\ UNCHANGED hopen
       \/ ~Readable(e, Head(hwire[e])) /\ Fail(e)

(* The deadline passes, or the connection ends, during the handshake.       *)
Timeout(e) ==
    /\ hpc[e] \in {"write", "read"} /\ armed[e]
    /\ Fail(e) /\ UNCHANGED hwire

PeerGone(e) ==
    /\ \/ hpc[e] = "read" /\ hwire[e] = <<>> /\ ~hopen[Other(e)]
       \/ hpc[e] = "write" /\ ~hopen[Other(e)]
    /\ Fail(e) /\ UNCHANGED hwire

HandshakeStep(e) == WriteMessage(e) \/ ReadMessage(e) \/ Timeout(e) \/ PeerGone(e)

----------------------------------------------------------------------------
(* The encrypted connection                                                 *)

(* Encrypt and the length prefix, which keeps 16 bits.                      *)
Frame(e, k, size) ==
    [key |-> keys[e].send, nonce |-> k, size |-> size + Tag, head |-> (size + Tag) % 65536]

Write(e, size) ==
    /\ hpc[e] = "up" /\ hopen[e]
    /\ Len(sent["ini"]) + Len(sent["res"]) < MaxFrames
    /\ hwire' = [hwire EXCEPT ![Other(e)] = Append(@, Frame(e, Len(sent[e]), size))]
    /\ sent' = [sent EXCEPT ![e] = Append(@, size)]
    /\ UNCHANGED <<hname, hpc, hround, hopen, armed, keys, nrecv, got, garbled>>

(* Decrypt succeeds on a whole ciphertext under the right state and nonce,  *)
(* and only then does the nonce advance.                                    *)
Decrypts(e, f) ==
    /\ ~garbled[e] /\ f.head = f.size
    /\ f.key = keys[e].recv /\ f.nonce = nrecv[e]

Least(a, b) == IF a < b THEN a ELSE b

(* Mutation: Read returns the length of the plaintext, not of the copy.     *)
CopiedAll(len, buf) == len

Copied(len, buf) == Least(len, buf)        \* n := copy(p, plaintext)

ReadFrame(e, buf) ==
    LET f == Head(hwire[e])
        len == f.size - Tag
    IN  /\ hpc[e] = "up" /\ hopen[e] /\ hwire[e] # <<>>
        /\ hwire' = [hwire EXCEPT ![e] = Tail(@)]
        /\ IF Decrypts(e, f)
           THEN /\ got' = [got EXCEPT ![e] = Append(@, [len |-> Copied(len, buf), buf |-> buf])]
                /\ nrecv' = [nrecv EXCEPT ![e] = @ + 1]
                /\ UNCHANGED garbled
           ELSE \* an error; with a wrong length the next Read starts inside a frame
                /\ garbled' = [garbled EXCEPT ![e] = @ \/ f.head # f.size]
                /\ UNCHANGED <<got, nrecv>>
        /\ UNCHANGED <<hname, hpc, hround, hopen, armed, keys, sent>>

(* Close by a user, or the end of the TCP connection: what is in flight to  *)
(* the other end may still arrive or be lost.                               *)
Close(e) ==
    /\ hopen[e] /\ hpc[e] \in {"new", "up"}
    /\ hopen' = [hopen EXCEPT ![e] = FALSE]
    /\ hpc' = [hpc EXCEPT ![e] = IF @ = "new" THEN "failed" ELSE @]
    /\ \E k \in 0 .. Len(hwire[Other(e)]) :
           hwire' = [hwire EXCEPT ![e] = <<>>, ![Other(e)] = SubSeq(@, 1, k)]
    /\ UNCHANGED <<hname, hround, armed, keys, dvars>>

Next ==
    \E e \in Ends :
        \/ \E n \in Names : Upgrade(e, n)
        \/ BadConfig(e)
        \/ HandshakeStep(e)
        \/ \E size \in Sizes : Write(e, size)
        \/ \E buf \in Bufs : ReadFrame(e, buf)
        \/ Close(e)

----------------------------------------------------------------------------
(* Two ends that both hold a connection have the same pattern, AEAD and key, *)
(* and each one's sending state is the other's receiving state.              *)
KeysAgree ==
    hpc["ini"] = "up" /\ hpc["res"] = "up" =>
        /\ hname["ini"] = hname["res"]
        /\ keys["ini"].send = keys["res"].recv /\ keys["res"].send = keys["ini"].recv

(* What Read has returned at one end is what the other wrote, in order and   *)
(* from the first: no frame is lost between two that are delivered, also     *)
(* when one is too long for its 16-bit length.  A frame is shorter than it   *)
(* was written only if it fills the reader's buffer.                         *)
FramesInOrder ==
    \A e \in Ends :
        LET s == sent[Other(e)] IN
        /\ Len(got[e]) <= Len(s)
        /\ \A k \in DOMAIN got[e] :
              got[e][k].len = Least(s[k], got[e][k].buf) /\ s[k] + Tag < 65536

(* A handshake that began ends, with a connection or with an error, also     *)
(* against a peer that never answers.                                        *)
HandshakeEnds == \A e \in Ends : hpc[e] \in {"write", "read"} ~> hpc[e] \in {"up", "failed"}
=============================================================================

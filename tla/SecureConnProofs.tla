-------------------------- MODULE SecureConnProofs --------------------------
(* Lemmas about SecureConn, for all lengths written and read and any number  *)
(* of frames.  ComponentsProofs states the theorems that rest on them.       *)
EXTENDS SecureConn, SequenceTheorems, TLAPS

SecureAssumption == Sizes \subseteq Nat /\ Bufs \subseteq Nat

Letters == [round : Nat, name : Names]
Frames == [key : {"none", "cs1", "cs2"}, nonce : Nat, size : Nat, head : Nat]
KeyPairs == [send : {"none", "cs1", "cs2"}, recv : {"none", "cs1", "cs2"}]

Types ==
    /\ hname \in [Ends -> Names \cup {BadName, NoName}]
    /\ hpc \in [Ends -> {"new", "write", "read", "up", "failed"}]
    /\ hround \in [Ends -> Nat] /\ hwire \in [Ends -> Seq(Letters \cup Frames)]
    /\ hopen \in [Ends -> BOOLEAN] /\ keys \in [Ends -> KeyPairs]
    /\ sent \in [Ends -> Seq(Nat)] /\ nrecv \in [Ends -> Nat]
    /\ got \in [Ends -> Seq([len : Nat, buf : Nat])] /\ garbled \in [Ends -> BOOLEAN]

Live(e) == hpc[e] \in {"new", "read", "write"}

(* Where an end is in its handshake, and what it has when that is over.      *)
Progress(e) ==
    /\ hpc[e] = "new" => hround[e] = 0
    /\ hpc[e] \in {"read", "write"} =>
          hname[e] \in Names /\ hpc[e] = Turn(e, hround[e]) /\ hround[e] < Messages(hname[e])
    /\ hpc[e] = "up" =>
          hname[e] \in Names /\ hround[e] = Messages(hname[e]) /\ keys[e] = Split(e)

(* A frame of one who wrote s: the nonce is the number of the frames before. *)
FrameOf(s, f) ==
    /\ f \in Frames
    /\ f.nonce + 1 \in 1 .. Len(s) /\ f.size = s[f.nonce + 1] + Tag
    /\ f.head = f.size % 65536

IsFrame(o, f) == FrameOf(sent[o], f)

(* What is in flight to an end: while its handshake lasts, at most the next  *)
(* message and, if that was the last one, frames after it; then only frames. *)
Wire(e) ==
    LET o == Other(e) IN
    /\ Live(e) /\ hwire[e] # <<>> =>
          /\ hpc[o] # "new" /\ hround[o] = hround[e] + 1
          /\ Head(hwire[e]) = [round |-> hround[e], name |-> hname[o]]
          /\ Len(hwire[e]) > 1 => hpc[o] = "up"
          /\ \A i \in 2 .. Len(hwire[e]) : IsFrame(o, hwire[e][i])
    /\ hpc[e] = "up" => \A i \in 1 .. Len(hwire[e]) : IsFrame(o, hwire[e][i])
    /\ hpc[e] = "write" => hwire[e] = <<>>

(* The ends take turns: while one writes the other waits for that message,   *)
(* and an end that is up has left its last message in flight.                *)
Turns(e) ==
    LET o == Other(e) IN
    /\ hpc[e] = "write" /\ Live(o) => hround[o] = hround[e] /\ hwire[o] = <<>>
    /\ hpc[e] = "up" => hpc[o] # "write"
    /\ hpc[e] = "up" /\ hopen[e] /\ Live(o) => hwire[o] # <<>>
    /\ e = "ini" /\ hpc[e] = "new" => hround[o] = 0 /\ hwire[o] = <<>>

(* An end that has read a message which authenticates the protocol: any, but *)
(* the first of XX.                                                          *)
Checked(e) ==
    \/ hpc[e] = "up"
    \/ /\ hpc[e] \in {"read", "write"}
       /\ IF e = "ini" THEN hround[e] >= 2 ELSE hround[e] >= 1 /\ hname[e].pattern = "IK"

Agreed(e) == Checked(e) => hname[e] = hname[Other(e)] /\ hpc[Other(e)] # "new"

SecureInv == Types /\ \A e \in Ends : Progress(e) /\ Wire(e) /\ Turns(e) /\ Agreed(e)

----------------------------------------------------------------------------
(* The two ends and their turns                                              *)

LEMMA OtherEnd ==
    ASSUME NEW e \in Ends
    PROVE  /\ Other(e) \in Ends /\ Other(e) # e /\ Other(Other(e)) = e
           /\ \A x \in Ends : x = e \/ x = Other(e)
  BY DEF Ends, Other

LEMMA TurnFacts ==
    ASSUME NEW e \in Ends, NEW n \in Nat
    PROVE  /\ Turn(e, n) \in {"write", "read"} /\ Turn(e, n + 1) # Turn(e, n)
           /\ Turn(Other(e), n) # Turn(e, n)
           /\ Turn("ini", 0) = "write" /\ Turn("res", 0) = "read"
           /\ Turn("ini", 1) = "read" /\ Turn("res", 1) = "write"
           /\ Turn("ini", 2) = "write" /\ Turn("res", 2) = "read"
  BY DEF Turn, Other, Ends

LEMMA NameFacts ==
    ASSUME NEW n \in Names
    PROVE  /\ n.pattern = "IK" => Messages(n) = 2
           /\ n.pattern # "IK" => Messages(n) = 3 /\ n.pattern = "XX"
           /\ n # BadName /\ n # NoName
  BY DEF Names, Messages, BadName, NoName

LEMMA OneLeft == \A n \in Nat : n # 0 /\ ~(n > 1) => n = 1
  OBVIOUS

LEMMA OnlyElement ==
    ASSUME NEW S, NEW q \in Seq(S), q # <<>>, ~(Len(q) > 1)
    PROVE  Tail(q) = <<>>
<1>0. Len(q) \in Nat /\ Len(q) # 0
  BY EmptySeq, LenProperties
<1>1. Len(q) = 1
  BY <1>0, OneLeft, Zenon
<1>2. Tail(q) \in Seq(S) /\ Len(Tail(q)) = 0
  BY <1>1
<1> QED
  BY <1>2, EmptySeq

LEMMA SplitType == ASSUME NEW e \in Ends PROVE Split(e) \in KeyPairs
  BY DEF Split, KeyPairs

LEMMA InitSecure == Init => SecureInv
<1> SUFFICES ASSUME Init PROVE SecureInv
  OBVIOUS
<1>1. /\ hname \in [Ends -> Names \cup {BadName, NoName}]
      /\ hpc \in [Ends -> {"new", "write", "read", "up", "failed"}]
      /\ hopen \in [Ends -> BOOLEAN] /\ garbled \in [Ends -> BOOLEAN]
  BY DEF Init
<1>2. hround \in [Ends -> Nat] /\ nrecv \in [Ends -> Nat]
  BY DEF Init
<1>3. keys \in [Ends -> KeyPairs]
  BY DEF Init, KeyPairs, NoKeys
<1>4. hwire \in [Ends -> Seq(Letters \cup Frames)] /\ sent \in [Ends -> Seq(Nat)]
      /\ got \in [Ends -> Seq([len : Nat, buf : Nat])]
  BY DEF Init
<1>5. Types
  BY <1>1, <1>2, <1>3, <1>4 DEF Types
<1>6. ASSUME NEW e \in Ends PROVE Progress(e) /\ Wire(e) /\ Turns(e) /\ Agreed(e)
  BY OtherEnd DEF Init, Progress, Wire, Turns, Agreed, Checked, Live
<1> QED
  BY <1>5, <1>6 DEF SecureInv

----------------------------------------------------------------------------
(* The types                                                                 *)

(* The fields of a frame are those of one write of its writer.              *)
LEMMA FrameParts ==
    ASSUME Types, NEW o \in Ends, NEW f, IsFrame(o, f)
    PROVE  /\ f.nonce \in Nat /\ f.nonce + 1 \in 1 .. Len(sent[o])
           /\ f.size - Tag \in Nat /\ f.size - Tag = sent[o][f.nonce + 1]
           /\ f.head = f.size % 65536
<1>1. sent[o] \in Seq(Nat)
  BY DEF Types
<1>2. f.nonce \in Nat /\ f.nonce + 1 \in 1 .. Len(sent[o]) /\ sent[o][f.nonce + 1] \in Nat
  BY <1>1 DEF IsFrame, FrameOf, Frames
<1>3. f.size = sent[o][f.nonce + 1] + 16 /\ f.head = f.size % 65536
  BY DEF IsFrame, FrameOf, Tag
<1>4. f.size - 16 \in Nat /\ f.size - 16 = sent[o][f.nonce + 1]
  <2> DEFINE n == sent[o][f.nonce + 1]
  <2>1. n \in Nat /\ f.size = n + 16
    BY <1>2, <1>3
  <2> HIDE DEF n
  <2>2. f.size - 16 = n
    BY <2>1
  <2> QED
    BY <2>1, <2>2 DEF n
<1> QED
  BY <1>2, <1>3, <1>4 DEF Tag

(* The next frame of an end that is up is one that the other end wrote.     *)
LEMMA HeadFrame ==
    ASSUME SecureInv, NEW e \in Ends, hpc[e] = "up", hwire[e] # <<>>
    PROVE  IsFrame(Other(e), Head(hwire[e])) /\ Head(hwire[e]).size - Tag \in Nat
<1> DEFINE f == Head(hwire[e])
<1>1. Types /\ Wire(e) /\ Other(e) \in Ends
  BY OtherEnd DEF SecureInv
<1>2. f = hwire[e][1] /\ 1 \in 1 .. Len(hwire[e])
  BY <1>1 DEF Types
<1>3. IsFrame(Other(e), f)
  BY <1>1, <1>2 DEF Wire
<1> HIDE DEF f
<1>4. f.size - Tag \in Nat
  BY <1>1, <1>3, FrameParts
<1> QED
  BY <1>3, <1>4 DEF f

LEMMA AdvanceTypes ==
    ASSUME Types, NEW e \in Ends, Advance(e)
    PROVE  /\ hname' = hname /\ hround' \in [Ends -> Nat] /\ keys' \in [Ends -> KeyPairs]
           /\ hpc' \in [Ends -> {"new", "write", "read", "up", "failed"}]
           /\ UNCHANGED dvars
<1>1. Turn(e, hround[e] + 1) \in {"write", "read"}
  BY TurnFacts DEF Types
<1> QED
  BY <1>1, SplitType DEF Types, Advance

LEMMA NextTypes ==
    ASSUME SecureAssumption, SecureInv, [Next]_hvars PROVE Types'
<1> USE DEF SecureInv, Types, dvars
<1>1. ASSUME NEW e \in Ends, NEW n \in Names, Upgrade(e, n) PROVE Types'
  BY <1>1, TurnFacts DEF Upgrade
<1>2. ASSUME NEW e \in Ends, BadConfig(e) PROVE Types'
  BY <1>2 DEF BadConfig
<1>3. ASSUME NEW e \in Ends, WriteMessage(e) PROVE Types'
  <2>1. [round |-> hround[e], name |-> hname[e]] \in Letters
    BY <1>3 DEF WriteMessage, Letters, Progress
  <2>2. hwire' \in [Ends -> Seq(Letters \cup Frames)]
    BY <1>3, <2>1, OtherEnd DEF WriteMessage
  <2> QED
    BY <1>3, <2>2, AdvanceTypes DEF WriteMessage
<1>4. ASSUME NEW e \in Ends, ReadMessage(e) PROVE Types'
  <2>1. hwire' \in [Ends -> Seq(Letters \cup Frames)]
    BY <1>4 DEF ReadMessage
  <2>2. CASE Advance(e) /\ UNCHANGED hopen
    BY <2>1, <2>2, AdvanceTypes
  <2>3. CASE Fail(e)
    BY <2>1, <2>3 DEF Fail
  <2> QED
    BY <1>4, <2>2, <2>3 DEF ReadMessage
<1>5. ASSUME NEW e \in Ends, Timeout(e) \/ PeerGone(e) PROVE Types'
  BY <1>5 DEF Timeout, PeerGone, Fail
<1>6. ASSUME NEW e \in Ends, NEW size \in Sizes, Write(e, size) PROVE Types'
  <2>1. size \in Nat /\ Frame(e, Len(sent[e]), size) \in Frames
    <3>1. size \in Nat /\ size + Tag \in Nat /\ (size + Tag) % 65536 \in Nat
      BY DEF SecureAssumption, Tag
    <3>2. keys[e].send \in {"none", "cs1", "cs2"} /\ Len(sent[e]) \in Nat
      BY DEF KeyPairs
    <3> QED
      BY <3>1, <3>2 DEF Frame, Frames
  <2>2. hwire' \in [Ends -> Seq(Letters \cup Frames)]
    <3> DEFINE q == Append(hwire[Other(e)], Frame(e, Len(sent[e]), size))
    <3>1. q \in Seq(Letters \cup Frames)
      BY <2>1, OtherEnd, AppendProperties
    <3>2. hwire' = [hwire EXCEPT ![Other(e)] = q]
      BY <1>6 DEF Write
    <3> HIDE DEF q
    <3> QED
      BY <3>1, <3>2
  <2>3. sent' \in [Ends -> Seq(Nat)]
    BY <1>6, <2>1 DEF Write
  <2> QED
    BY <1>6, <2>2, <2>3 DEF Write
<1>7. ASSUME NEW e \in Ends, NEW buf \in Bufs, ReadFrame(e, buf) PROVE Types'
  <2> DEFINE f == Head(hwire[e])
  <2>1. hwire' \in [Ends -> Seq(Letters \cup Frames)] /\ buf \in Nat
    BY <1>7 DEF ReadFrame, SecureAssumption
  <2>2. hpc[e] = "up" /\ hwire[e] # <<>>
    BY <1>7 DEF ReadFrame
  <2>4. f.size - Tag \in Nat
    BY <2>2, HeadFrame
  <2>5. Copied(f.size - Tag, buf) \in Nat
    BY <2>1, <2>4 DEF Copied, Least
  <2>6. got' \in [Ends -> Seq([len : Nat, buf : Nat])] /\ nrecv' \in [Ends -> Nat]
    <3>1. CASE Decrypts(e, f)
      <4>1. /\ got' = [got EXCEPT ![e] = Append(@, [len |-> Copied(f.size - Tag, buf), buf |-> buf])]
            /\ nrecv' = [nrecv EXCEPT ![e] = @ + 1]
        BY <1>7, <3>1 DEF ReadFrame
      <4> QED
        BY <2>1, <2>5, <4>1
    <3>2. CASE ~Decrypts(e, f)
      BY <1>7, <3>2 DEF ReadFrame
    <3> QED
      BY <3>1, <3>2
  <2>7. garbled' \in [Ends -> BOOLEAN]
    BY <1>7 DEF ReadFrame
  <2> QED
    BY <1>7, <2>1, <2>6, <2>7 DEF ReadFrame
<1>8. ASSUME NEW e \in Ends, Close(e) PROVE Types'
  <2>1. PICK k \in 0 .. Len(hwire[Other(e)]) :
            hwire' = [hwire EXCEPT ![e] = <<>>, ![Other(e)] = SubSeq(@, 1, k)]
    BY <1>8 DEF Close
  <2>2. SubSeq(hwire[Other(e)], 1, k) \in Seq(Letters \cup Frames)
    BY <2>1, OtherEnd
  <2>a. <<>> \in Seq(Letters \cup Frames) /\ Other(e) # e
    BY OtherEnd
  <2>b. hwire' = [[hwire EXCEPT ![e] = <<>>] EXCEPT ![Other(e)] = SubSeq(hwire[Other(e)], 1, k)]
    BY <2>1, <2>a
  <2>3. hwire' \in [Ends -> Seq(Letters \cup Frames)]
    BY <2>2, <2>a, <2>b
  <2> QED
    BY <1>8, <2>3 DEF Close
<1>9. CASE UNCHANGED hvars
  BY <1>9 DEF hvars
<1> QED
  BY <1>1, <1>2, <1>3, <1>4, <1>5, <1>6, <1>7, <1>8, <1>9 DEF Next, HandshakeStep

----------------------------------------------------------------------------
(* The handshake, action by action                                           *)

EndInv(x) == Progress(x) /\ Wire(x) /\ Turns(x) /\ Agreed(x)

LEMMA UpgradeKeeps ==
    ASSUME SecureInv, NEW e \in Ends, NEW n \in Names, Upgrade(e, n)
    PROVE  \A x \in Ends : EndInv(x)'
<1> DEFINE o == Other(e)
<1>0. o \in Ends /\ o # e /\ Other(e) = o /\ Other(o) = e /\ \A x \in Ends : x = e \/ x = o
  BY OtherEnd
<1>a. Types /\ Progress(e) /\ Wire(e) /\ Turns(e) /\ Agreed(e)
  BY DEF SecureInv
<1>b. Progress(o) /\ Wire(o) /\ Turns(o) /\ Agreed(o)
  BY <1>0 DEF SecureInv
<1>c. hpc[e] = "new" /\ hpc'[e] = Turn(e, 0) /\ hpc'[o] = hpc[o] /\ hname'[e] = n /\ hname'[o] = hname[o]
  BY <1>0, <1>a DEF Upgrade, Types
<1>d. /\ hround' = hround /\ hwire' = hwire /\ hopen' = hopen /\ keys' = keys /\ sent' = sent
      /\ hround[o] \in Nat /\ hround[e] = 0
  BY <1>0, <1>a DEF Upgrade, Types, dvars, Progress
<1>f. hpc'[e] \in {"write", "read"} /\ (hpc'[e] = "write" <=> e = "ini")
  BY <1>c, TurnFacts DEF Ends
<1>g. 0 < Messages(n)
  BY NameFacts
<1>h. (Live(o) => hwire[o] = <<>>) /\ hpc[o] # "up" /\ ~Checked(o)
  BY <1>0, <1>b, <1>c DEF Wire, Agreed, Checked
<1> HIDE DEF o
<1>1. Progress(e)'
  BY <1>0, <1>a, <1>b, <1>c, <1>d, <1>f, <1>g, <1>h DEF Progress
<1>2. Wire(e)'
  BY <1>0, <1>a, <1>b, <1>c, <1>d, <1>f, <1>g, <1>h DEF Progress, Wire, Turns, Agreed, Checked, Live, IsFrame
<1>3. Turns(e)'
  BY <1>0, <1>a, <1>b, <1>c, <1>d, <1>f, <1>g, <1>h DEF Progress, Wire, Turns, Agreed, Checked, Live
<1>4. Agreed(e)'
  BY <1>0, <1>a, <1>b, <1>c, <1>d, <1>f, <1>g, <1>h DEF Progress, Wire, Turns, Agreed, Checked, Live
<1>5. Progress(o)'
  BY <1>0, <1>a, <1>b, <1>c, <1>d, <1>f, <1>g, <1>h DEF Progress
<1>6. Wire(o)'
  BY <1>0, <1>a, <1>b, <1>c, <1>d, <1>f, <1>g, <1>h DEF Progress, Wire, Turns, Agreed, Checked, Live, IsFrame
<1>7. Turns(o)'
  BY <1>0, <1>a, <1>b, <1>c, <1>d, <1>f, <1>g, <1>h DEF Progress, Wire, Turns, Agreed, Checked, Live
<1>8. Agreed(o)'
  BY <1>0, <1>a, <1>b, <1>c, <1>d, <1>f, <1>g, <1>h DEF Progress, Wire, Turns, Agreed, Checked, Live
<1> QED
  BY <1>0, <1>1, <1>2, <1>3, <1>4, <1>5, <1>6, <1>7, <1>8 DEF EndInv

LEMMA BadConfigKeeps ==
    ASSUME SecureInv, NEW e \in Ends, BadConfig(e)
    PROVE  \A x \in Ends : EndInv(x)'
<1> DEFINE o == Other(e)
<1>0. o \in Ends /\ o # e /\ Other(e) = o /\ Other(o) = e /\ \A x \in Ends : x = e \/ x = o
  BY OtherEnd
<1>a. Types /\ Progress(e) /\ Wire(e) /\ Turns(e) /\ Agreed(e)
  BY DEF SecureInv
<1>b. Progress(o) /\ Wire(o) /\ Turns(o) /\ Agreed(o)
  BY <1>0 DEF SecureInv
<1>c. hpc[e] = "new" /\ hpc'[e] = "failed" /\ hpc'[o] = hpc[o] /\ hname'[o] = hname[o]
  BY <1>0, <1>a DEF BadConfig, Types
<1>d. hround' = hround /\ hwire' = hwire /\ hopen'[o] = hopen[o] /\ keys' = keys /\ sent' = sent
  BY <1>0, <1>a DEF BadConfig, Types, dvars
<1>f. (Live(o) => hwire[o] = <<>>) /\ hpc[o] # "up" /\ ~Checked(o)
  BY <1>0, <1>b, <1>c DEF Wire, Agreed, Checked
<1> HIDE DEF o
<1>1. Progress(e)'
  BY <1>0, <1>a, <1>b, <1>c, <1>d, <1>f DEF Progress
<1>2. Wire(e)'
  BY <1>0, <1>a, <1>b, <1>c, <1>d, <1>f DEF Progress, Wire, Turns, Agreed, Checked, Live, IsFrame
<1>3. Turns(e)'
  BY <1>0, <1>a, <1>b, <1>c, <1>d, <1>f DEF Progress, Wire, Turns, Agreed, Checked, Live
<1>4. Agreed(e)'
  BY <1>0, <1>a, <1>b, <1>c, <1>d, <1>f DEF Progress, Wire, Turns, Agreed, Checked, Live
<1>5. Progress(o)'
  BY <1>0, <1>a, <1>b, <1>c, <1>d, <1>f DEF Progress
<1>6. Wire(o)'
  BY <1>0, <1>a, <1>b, <1>c, <1>d, <1>f DEF Progress, Wire, Turns, Agreed, Checked, Live, IsFrame
<1>7. Turns(o)'
  BY <1>0, <1>a, <1>b, <1>c, <1>d, <1>f DEF Progress, Wire, Turns, Agreed, Checked, Live
<1>8. Agreed(o)'
  BY <1>0, <1>a, <1>b, <1>c, <1>d, <1>f DEF Progress, Wire, Turns, Agreed, Checked, Live
<1> QED
  BY <1>0, <1>1, <1>2, <1>3, <1>4, <1>5, <1>6, <1>7, <1>8 DEF EndInv

(* An end that gives up, also one that has just taken a message.            *)
LEMMA FailKeeps ==
    ASSUME SecureInv, NEW e \in Ends, Fail(e), hpc[e] \in {"read", "write"},
           hwire'[Other(e)] = hwire[Other(e)], hwire'[e] = hwire[e] \/ hwire[e] # <<>>
    PROVE  \A x \in Ends : EndInv(x)'
<1> DEFINE o == Other(e)
<1>0. o \in Ends /\ o # e /\ Other(e) = o /\ Other(o) = e /\ \A x \in Ends : x = e \/ x = o
  BY OtherEnd
<1>a. Types /\ Progress(e) /\ Wire(e) /\ Turns(e) /\ Agreed(e)
  BY DEF SecureInv
<1>b. Progress(o) /\ Wire(o) /\ Turns(o) /\ Agreed(o)
  BY <1>0 DEF SecureInv
<1>c. hpc'[e] = "failed" /\ hpc'[o] = hpc[o] /\ hname' = hname /\ hwire'[o] = hwire[o]
  BY <1>0, <1>a DEF Fail, Types
<1>d. hround' = hround /\ hopen'[o] = hopen[o] /\ keys' = keys /\ sent' = sent
  BY <1>0, <1>a DEF Fail, Types, dvars
<1> HIDE DEF o
<1>1. Progress(e)'
  BY <1>0, <1>a, <1>b, <1>c, <1>d DEF Progress
<1>2. Wire(e)'
  BY <1>0, <1>a, <1>b, <1>c, <1>d DEF Progress, Wire, Turns, Agreed, Checked, Live, IsFrame
<1>3. Turns(e)'
  BY <1>0, <1>a, <1>b, <1>c, <1>d DEF Progress, Wire, Turns, Agreed, Checked, Live
<1>4. Agreed(e)'
  BY <1>0, <1>a, <1>b, <1>c, <1>d DEF Progress, Wire, Turns, Agreed, Checked, Live
<1>5. Progress(o)'
  BY <1>0, <1>a, <1>b, <1>c, <1>d DEF Progress
<1>6. Wire(o)'
  BY <1>0, <1>a, <1>b, <1>c, <1>d DEF Progress, Wire, Turns, Agreed, Checked, Live, IsFrame
<1>7. Turns(o)'
  BY <1>0, <1>a, <1>b, <1>c, <1>d DEF Progress, Wire, Turns, Agreed, Checked, Live
<1>8. Agreed(o)'
  BY <1>0, <1>a, <1>b, <1>c, <1>d DEF Progress, Wire, Turns, Agreed, Checked, Live
<1> QED
  BY <1>0, <1>1, <1>2, <1>3, <1>4, <1>5, <1>6, <1>7, <1>8 DEF EndInv

LEMMA WriteMessageKeeps ==
    ASSUME SecureInv, NEW e \in Ends, WriteMessage(e)
    PROVE  \A x \in Ends : EndInv(x)'
<1> DEFINE o == Other(e)
<1>0. o \in Ends /\ o # e /\ Other(e) = o /\ Other(o) = e /\ \A x \in Ends : x = e \/ x = o
  BY OtherEnd
<1>a. Types /\ Progress(e) /\ Wire(e) /\ Turns(e) /\ Agreed(e)
  BY DEF SecureInv
<1>b. Progress(o) /\ Wire(o) /\ Turns(o) /\ Agreed(o)
  BY <1>0 DEF SecureInv
<1>c. /\ hpc[e] = "write" /\ hpc'[o] = hpc[o] /\ hname' = hname /\ hopen' = hopen /\ sent' = sent
      /\ hround'[e] = hround[e] + 1 /\ hround'[o] = hround[o] /\ keys'[o] = keys[o]
  BY <1>0, <1>a DEF WriteMessage, Advance, Types, dvars
<1>d. /\ hwire'[e] = hwire[e] /\ hwire[e] = <<>> /\ hwire[o] \in Seq(Letters \cup Frames)
      /\ hwire'[o] = Append(hwire[o], [round |-> hround[e], name |-> hname[e]])
  BY <1>0, <1>a DEF WriteMessage, Types, Wire
<1>f. hround[e] \in Nat /\ hround[o] \in Nat /\ hround[e] < Messages(hname[e]) /\ hname[e] \in Names
      /\ Messages(hname[e]) \in {2, 3} /\ (Messages(hname[e]) = 2 <=> hname[e].pattern = "IK")
  BY <1>0, <1>a, <1>c, NameFacts DEF Types, Progress
<1>g. hpc'[e] = IF hround[e] + 1 = Messages(hname[e]) THEN "up" ELSE "read"
  BY <1>a, <1>c, <1>f, TurnFacts DEF WriteMessage, Advance, Types, Progress
<1>h. hround[e] + 1 = Messages(hname[e]) => keys'[e] = Split(e)
  BY <1>a DEF WriteMessage, Advance, Types
<1>i. IF e = "ini" THEN hround[e] \in {0, 2} ELSE hround[e] = 1
  BY <1>a, <1>c, <1>f, TurnFacts DEF Progress, Ends
<1>j. Live(o) => /\ Len(hwire'[o]) = 1
                 /\ Head(hwire'[o]) = [round |-> hround[o], name |-> hname[e]]
                 /\ hround[o] = hround[e] /\ hpc[o] # "write"
  <2>1. ASSUME Live(o) PROVE hround[o] = hround[e] /\ hwire[o] = <<>> /\ hpc[o] # "write"
    <3>1. hround[o] = hround[e] /\ hwire[o] = <<>>
      BY <1>0, <1>a, <1>c, <2>1 DEF Turns
    <3>2. Turn(o, hround[e]) # Turn(e, hround[e])
      BY <1>0, <1>f, TurnFacts
    <3> QED
      BY <1>a, <1>b, <1>c, <3>1, <3>2 DEF Progress
  <2> DEFINE m == [round |-> hround[e], name |-> hname[e]]
  <2>2. hwire'[o] = Append(hwire[o], m)
    BY <1>d
  <2>3. ASSUME Live(o) PROVE m = [round |-> hround[o], name |-> hname[e]]
    BY <2>1, <2>3
  <2> HIDE DEF m
  <2>4. ASSUME Live(o) PROVE Len(hwire'[o]) = 1 /\ Head(hwire'[o]) = m
    BY <2>1, <2>2, <2>4
  <2> QED
    BY <2>1, <2>3, <2>4
<1>k. hpc[o] # "up" /\ hpc[o] # "write" /\ hwire'[o] # <<>>
  <2>1. hpc[o] # "write"
    BY <1>j DEF Live
  <2> QED
    BY <1>0, <1>b, <1>c, <1>d, <2>1 DEF Turns
<1> HIDE DEF o
<1>1. Progress(e)'
  <2>1. CASE hround[e] + 1 = Messages(hname[e])
    BY <1>c, <1>f, <1>g, <1>h, <2>1 DEF Progress
  <2>2. CASE hround[e] + 1 # Messages(hname[e])
    <3>1. Turn(e, hround[e]) = "write" /\ Turn(e, hround[e] + 1) = "read"
      BY <1>a, <1>c, <1>f, TurnFacts DEF Progress
    <3> QED
      BY <1>c, <1>f, <1>g, <2>2, <3>1 DEF Progress
  <2> QED
    BY <2>1, <2>2
<1>2. Wire(e)'
  BY <1>0, <1>a, <1>b, <1>c, <1>d, <1>f, <1>g, <1>h, <1>i, <1>j, <1>k DEF Progress, Wire, Turns, Agreed, Checked, Live, IsFrame
<1>3. Turns(e)'
  BY <1>0, <1>a, <1>b, <1>c, <1>d, <1>f, <1>g, <1>h, <1>i, <1>j, <1>k DEF Progress, Wire, Turns, Agreed, Checked, Live
<1>4. Agreed(e)'
  BY <1>0, <1>a, <1>b, <1>c, <1>d, <1>f, <1>g, <1>h, <1>i, <1>j, <1>k DEF Progress, Wire, Turns, Agreed, Checked, Live
<1>5. Progress(o)'
  BY <1>0, <1>a, <1>b, <1>c, <1>d, <1>f, <1>g, <1>h, <1>i, <1>j, <1>k DEF Progress
<1>6. Wire(o)'
  <2>1. CASE Live(o)
    <3>1. Len(hwire'[o]) = 1 /\ Head(hwire'[o]) = [round |-> hround[o], name |-> hname[e]]
      BY <1>j, <2>1
    <3> QED
      BY <1>0, <1>c, <1>d, <1>f, <1>g, <1>j, <1>k, <2>1, <3>1 DEF Wire, Live
  <2>2. CASE ~Live(o)
    BY <1>0, <1>c, <1>k, <2>2 DEF Wire, Live
  <2> QED
    BY <2>1, <2>2
<1>7. Turns(o)'
  BY <1>0, <1>a, <1>b, <1>c, <1>d, <1>f, <1>g, <1>h, <1>i, <1>j, <1>k DEF Progress, Wire, Turns, Agreed, Checked, Live
<1>8. Agreed(o)'
  BY <1>0, <1>a, <1>b, <1>c, <1>d, <1>f, <1>g, <1>h, <1>i, <1>j, <1>k DEF Progress, Wire, Turns, Agreed, Checked, Live
<1> QED
  BY <1>0, <1>1, <1>2, <1>3, <1>4, <1>5, <1>6, <1>7, <1>8 DEF EndInv

LEMMA ReadMessageKeeps ==
    ASSUME SecureInv, NEW e \in Ends, ReadMessage(e)
    PROVE  \A x \in Ends : EndInv(x)'
<1> DEFINE o == Other(e)
           last == hround[e] + 1 = Messages(hname[e])
<1>0. o \in Ends /\ o # e /\ Other(e) = o /\ Other(o) = e /\ \A x \in Ends : x = e \/ x = o
  BY OtherEnd
<1>a. Types /\ Progress(e) /\ Wire(e) /\ Turns(e) /\ Agreed(e)
  BY DEF SecureInv
<1>b. Progress(o) /\ Wire(o) /\ Turns(o) /\ Agreed(o)
  BY <1>0 DEF SecureInv
<1>c. /\ hpc[e] = "read" /\ hwire[e] # <<>> /\ hwire[e] \in Seq(Letters \cup Frames)
      /\ hwire'[e] = Tail(hwire[e]) /\ hwire'[o] = hwire[o]
  BY <1>0, <1>a DEF ReadMessage, Types
<1>d. CASE Fail(e)
  BY <1>c, <1>d, FailKeeps
<1>e. CASE Readable(e, Head(hwire[e])) /\ Advance(e) /\ UNCHANGED hopen
  <2>a. /\ hpc'[o] = hpc[o] /\ hname' = hname /\ hopen' = hopen /\ sent' = sent
        /\ hround'[e] = hround[e] + 1 /\ hround'[o] = hround[o] /\ keys'[o] = keys[o]
    BY <1>0, <1>a, <1>e DEF Advance, Types, dvars
  <2>b. /\ hround[e] \in Nat /\ hround[o] \in Nat /\ hname[e] \in Names
        /\ hround[e] < Messages(hname[e])
    BY <1>0, <1>a, <1>c DEF Types, Progress
  <2>c. /\ Messages(hname[e]) \in {2, 3} /\ (hname[e].pattern = "IK" <=> Messages(hname[e]) = 2)
        /\ (hname[e].pattern = "XX" <=> Messages(hname[e]) = 3)
    BY <2>b, NameFacts
  <2>d. /\ hpc[o] # "new" /\ hround[o] = hround[e] + 1
        /\ Head(hwire[e]) = [round |-> hround[e], name |-> hname[o]]
        /\ Len(hwire[e]) > 1 => hpc[o] = "up"
        /\ \A i \in 2 .. Len(hwire[e]) : IsFrame(o, hwire[e][i])
    BY <1>0, <1>a, <1>c DEF Wire, Live
  <2>e. hname[e] = hname[o] \/ (hround[e] = 0 /\ hname[e].pattern = "XX")
    BY <1>e, <2>d DEF Readable
  <2>f. ~(Live(o) /\ hwire[o] # <<>>)
    BY <1>0, <1>b, <2>b, <2>d DEF Wire
  <2>g. CASE last
    <3>a. hname[e] = hname[o] /\ hpc[o] \in {"up", "failed"}
      <4>1. hname[e] = hname[o]
        BY <2>b, <2>c, <2>e, <2>g
      <4>2. hround[o] = Messages(hname[o])
        BY <2>d, <2>g, <4>1
      <4>3. hpc[o] \in {"new", "write", "read", "up", "failed"}
        BY <1>0, <1>a DEF Types
      <4> QED
        BY <1>b, <2>b, <2>d, <4>1, <4>2, <4>3 DEF Progress
    <3>b. hpc'[e] = "up" /\ keys'[e] = Split(e)
      BY <1>a, <1>e, <2>g DEF Advance, Types
    <3>c. \A i \in 1 .. Len(hwire'[e]) : IsFrame(o, hwire'[e][i])
      <4>1. SUFFICES ASSUME NEW i \in 1 .. Len(hwire'[e]) PROVE IsFrame(o, hwire'[e][i])
        OBVIOUS
      <4>2. hwire'[e][i] = hwire[e][i + 1] /\ i + 1 \in 2 .. Len(hwire[e])
        BY <1>c
      <4> QED
        BY <2>d, <4>2
    <3> HIDE DEF o
    <3>1. Progress(e)' /\ Progress(o)'
      BY <1>b, <2>a, <2>b, <2>g, <3>a, <3>b DEF Progress
    <3>2. Wire(e)'
      BY <1>0, <2>a, <3>b, <3>c DEF Wire, Live, IsFrame
    <3>3. Wire(o)'
      BY <1>0, <1>b, <1>c, <2>a, <3>a DEF Wire, Live, IsFrame
    <3>4. Turns(e)' /\ Turns(o)'
      BY <1>0, <2>a, <3>a, <3>b DEF Turns, Live
    <3>5. Agreed(e)' /\ Agreed(o)'
      BY <1>0, <2>a, <3>a, <3>b DEF Agreed
    <3> QED
      BY <1>0, <3>1, <3>2, <3>3, <3>4, <3>5 DEF EndInv
  <2>h. CASE ~last
    <3>a. hpc[o] # "up"
      <4> SUFFICES ASSUME hpc[o] = "up" PROVE FALSE
        OBVIOUS
      <4>1. hround[o] = Messages(hname[o]) /\ hname[o] = hname[e]
        BY <1>0, <1>b DEF Progress, Agreed, Checked
      <4> QED
        BY <2>d, <2>h, <4>1
    <3>b. hwire'[e] = <<>>
      <4>1. ~(Len(hwire[e]) > 1)
        BY <2>d, <3>a
      <4> QED
        BY <1>c, <4>1, OnlyElement
    <3>c. hpc'[e] = "write" /\ hpc'[e] = Turn(e, hround[e] + 1)
      <4>1. hpc'[e] = Turn(e, hround[e] + 1)
        BY <1>a, <1>e, <2>h DEF Advance, Types
      <4> QED
        BY <1>a, <1>c, <2>b, <4>1, TurnFacts DEF Progress
    <3>d. hround[e] + 1 < Messages(hname[e])
      BY <2>b, <2>c, <2>h
    <3> HIDE DEF o
    <3>1. Progress(e)' /\ Progress(o)'
      BY <1>b, <2>a, <2>b, <3>a, <3>c, <3>d DEF Progress
    <3>2. Wire(e)'
      BY <1>0, <3>b, <3>c DEF Wire, Live
    <3>3. Wire(o)'
      BY <1>0, <1>b, <1>c, <2>a, <2>f, <3>a DEF Wire, Live
    <3>4. Turns(e)'
      BY <1>0, <1>c, <2>a, <2>d, <2>f, <3>c DEF Turns, Live
    <3>5. Turns(o)'
      BY <1>0, <2>a, <2>d, <3>a, <3>b, <3>c DEF Turns, Live
    <3>6. Agreed(e)'
      <4>1. Checked(e)' => hname[e] = hname[o]
        BY <2>a, <2>b, <2>c, <2>e, <3>c DEF Checked
      <4> QED
        BY <1>0, <2>a, <2>d, <4>1 DEF Agreed
    <3>7. Agreed(o)'
      BY <1>0, <1>b, <2>a, <3>c DEF Agreed, Checked
    <3> QED
      BY <1>0, <3>1, <3>2, <3>3, <3>4, <3>5, <3>6, <3>7 DEF EndInv
  <2> QED
    BY <2>g, <2>h
<1> QED
  BY <1>d, <1>e DEF ReadMessage

----------------------------------------------------------------------------
(* The encrypted connection, action by action                                *)

(* A frame stays one of its writer's when the writer goes on.                *)
LEMMA FrameKept ==
    ASSUME NEW s \in Seq(Nat), NEW k \in Nat, NEW f, FrameOf(s, f)
    PROVE  FrameOf(Append(s, k), f)
<1>1. f.nonce + 1 \in 1 .. Len(s) /\ Len(s) \in Nat /\ f.nonce \in Nat
  BY DEF FrameOf, Frames
<1>2. f.nonce + 1 \in 1 .. Len(Append(s, k)) /\ Append(s, k)[f.nonce + 1] = s[f.nonce + 1]
  BY <1>1
<1> QED
  BY <1>2 DEF FrameOf

LEMMA FrameWritten ==
    ASSUME Types, NEW e \in Ends, NEW size \in Nat
    PROVE  FrameOf(Append(sent[e], size), Frame(e, Len(sent[e]), size))
<1> DEFINE s == sent[e]
           f == Frame(e, Len(s), size)
<1>1. s \in Seq(Nat) /\ Len(s) \in Nat
  BY DEF Types
<1>2. f.nonce = Len(s) /\ f.size = size + Tag /\ f.head = f.size % 65536
  BY DEF Frame
<1>3. f \in Frames
  <2>1. size + Tag \in Nat /\ (size + Tag) % 65536 \in Nat
    BY DEF Tag
  <2>2. keys[e].send \in {"none", "cs1", "cs2"}
    BY DEF Types, KeyPairs
  <2> QED
    BY <1>1, <2>1, <2>2 DEF Frame, Frames
<1> HIDE DEF s, f
<1>4. Len(s) + 1 \in 1 .. Len(Append(s, size)) /\ Append(s, size)[Len(s) + 1] = size
  BY <1>1
<1> QED
  BY <1>2, <1>3, <1>4 DEF FrameOf, s, f

LEMMA WriteKeeps ==
    ASSUME SecureInv, NEW e \in Ends, NEW size \in Nat, Write(e, size)
    PROVE  \A x \in Ends : EndInv(x)'
<1> DEFINE o == Other(e)
           f == Frame(e, Len(sent[e]), size)
<1>0. o \in Ends /\ o # e /\ Other(e) = o /\ Other(o) = e /\ \A x \in Ends : x = e \/ x = o
  BY OtherEnd
<1>a. Types /\ Progress(e) /\ Wire(e) /\ Turns(e) /\ Agreed(e)
  BY DEF SecureInv
<1>b. Progress(o) /\ Wire(o) /\ Turns(o) /\ Agreed(o)
  BY <1>0 DEF SecureInv
<1>c. /\ hpc[e] = "up" /\ hopen[e]
      /\ hname' = hname /\ hpc' = hpc /\ hround' = hround /\ hopen' = hopen /\ keys' = keys
  BY DEF Write
<1>d. /\ hwire'[e] = hwire[e] /\ hwire'[o] = Append(hwire[o], f)
      /\ hwire[o] \in Seq(Letters \cup Frames) /\ Len(hwire[o]) \in Nat
      /\ sent'[o] = sent[o] /\ sent'[e] = Append(sent[e], size) /\ sent[e] \in Seq(Nat)
  BY <1>0, <1>a DEF Write, Types
<1>e. hpc[o] # "write" /\ (Live(o) => hwire[o] # <<>>)
  BY <1>0, <1>a, <1>c DEF Turns
<1>f. FrameOf(sent'[e], f)
  BY <1>a, <1>d, FrameWritten
<1>g. \A g : FrameOf(sent[e], g) => FrameOf(sent'[e], g)
  BY <1>d, FrameKept
<1> HIDE DEF o, f
<1>h. /\ Len(hwire'[o]) = Len(hwire[o]) + 1 /\ hwire'[o] # <<>>
      /\ hwire'[o][Len(hwire[o]) + 1] = f
      /\ \A i \in 1 .. Len(hwire[o]) : hwire'[o][i] = hwire[o][i]
      /\ hwire[o] # <<>> => Head(hwire'[o]) = Head(hwire[o])
  BY <1>d
<1>1. Progress(e)' /\ Progress(o)'
  BY <1>a, <1>b, <1>c DEF Progress
<1>2. Wire(e)'
  BY <1>0, <1>a, <1>c, <1>d DEF Wire, Live, IsFrame
<1>3. Wire(o)'
  <2>1. ASSUME NEW i \in 1 .. Len(hwire'[o]), i # Len(hwire[o]) + 1
        PROVE  i \in 1 .. Len(hwire[o]) /\ hwire'[o][i] = hwire[o][i]
    BY <1>d, <1>h, <2>1
  <2>2. ASSUME NEW i \in 1 .. Len(hwire'[o]), i \in 1 .. Len(hwire[o]) => IsFrame(e, hwire[o][i])
        PROVE  FrameOf(sent'[e], hwire'[o][i])
    BY <1>f, <1>g, <1>h, <2>1, <2>2 DEF IsFrame
  <2>3. CASE Live(o)
    <3>1. /\ hround[e] = hround[o] + 1
          /\ Head(hwire'[o]) = [round |-> hround[o], name |-> hname[e]]
          /\ \A i \in 2 .. Len(hwire[o]) : IsFrame(e, hwire[o][i])
      BY <1>0, <1>b, <1>e, <1>h, <2>3 DEF Wire
    <3>2. \A i \in 2 .. Len(hwire'[o]) : FrameOf(sent'[e], hwire'[o][i])
      BY <1>d, <1>h, <2>2, <3>1
    <3> QED
      BY <1>0, <1>c, <1>e, <2>3, <3>1, <3>2 DEF Wire, Live, IsFrame
  <2>4. CASE hpc[o] = "up"
    <3>1. \A i \in 1 .. Len(hwire'[o]) : FrameOf(sent'[e], hwire'[o][i])
      BY <1>0, <1>b, <2>2, <2>4 DEF Wire
    <3> QED
      BY <1>0, <1>c, <1>e, <2>4, <3>1 DEF Wire, Live, IsFrame
  <2> QED
    BY <1>c, <1>e, <2>3, <2>4 DEF Wire, Live
<1>4. Turns(e)'
  BY <1>0, <1>c, <1>e, <1>h DEF Turns, Live
<1>5. Turns(o)'
  BY <1>0, <1>b, <1>c, <1>d DEF Turns, Live
<1>6. Agreed(e)' /\ Agreed(o)'
  BY <1>0, <1>a, <1>b, <1>c DEF Agreed, Checked
<1> QED
  BY <1>0, <1>1, <1>2, <1>3, <1>4, <1>5, <1>6 DEF EndInv

LEMMA ReadFrameKeeps ==
    ASSUME SecureInv, NEW e \in Ends, NEW buf \in Bufs, ReadFrame(e, buf)
    PROVE  \A x \in Ends : EndInv(x)'
<1> DEFINE o == Other(e)
<1>0. o \in Ends /\ o # e /\ Other(e) = o /\ Other(o) = e /\ \A x \in Ends : x = e \/ x = o
  BY OtherEnd
<1>a. Types /\ Progress(e) /\ Wire(e) /\ Turns(e) /\ Agreed(e)
  BY DEF SecureInv
<1>b. Progress(o) /\ Wire(o) /\ Turns(o) /\ Agreed(o)
  BY <1>0 DEF SecureInv
<1>c. /\ hpc[e] = "up" /\ hwire[e] # <<>> /\ sent' = sent
      /\ hname' = hname /\ hpc' = hpc /\ hround' = hround /\ hopen' = hopen /\ keys' = keys
  BY DEF ReadFrame
<1>d. /\ hwire'[o] = hwire[o] /\ hwire'[e] = Tail(hwire[e])
      /\ hwire[e] \in Seq(Letters \cup Frames)
  BY <1>0, <1>a DEF ReadFrame, Types
<1>e. \A i \in 1 .. Len(hwire'[e]) : IsFrame(o, hwire'[e][i])
  <2>1. SUFFICES ASSUME NEW i \in 1 .. Len(hwire'[e]) PROVE IsFrame(o, hwire'[e][i])
    OBVIOUS
  <2>2. hwire'[e][i] = hwire[e][i + 1] /\ i + 1 \in 1 .. Len(hwire[e])
    BY <1>c, <1>d
  <2> QED
    BY <1>0, <1>a, <1>c, <2>2 DEF Wire
<1> HIDE DEF o
<1>1. Progress(e)' /\ Progress(o)'
  BY <1>a, <1>b, <1>c DEF Progress
<1>2. Wire(e)'
  BY <1>0, <1>c, <1>e DEF Wire, Live, IsFrame
<1>3. Wire(o)'
  BY <1>0, <1>b, <1>c, <1>d DEF Wire, Live, IsFrame
<1>4. Turns(e)' /\ Turns(o)'
  BY <1>0, <1>a, <1>b, <1>c, <1>d DEF Turns, Live
<1>5. Agreed(e)' /\ Agreed(o)'
  BY <1>0, <1>a, <1>b, <1>c DEF Agreed, Checked
<1> QED
  BY <1>0, <1>1, <1>2, <1>3, <1>4, <1>5 DEF EndInv

LEMMA CloseKeeps ==
    ASSUME SecureInv, NEW e \in Ends, Close(e)
    PROVE  \A x \in Ends : EndInv(x)'
<1> DEFINE o == Other(e)
<1>0. o \in Ends /\ o # e /\ Other(e) = o /\ Other(o) = e /\ \A x \in Ends : x = e \/ x = o
  BY OtherEnd
<1>a. Types /\ Progress(e) /\ Wire(e) /\ Turns(e) /\ Agreed(e)
  BY DEF SecureInv
<1>b. Progress(o) /\ Wire(o) /\ Turns(o) /\ Agreed(o)
  BY <1>0 DEF SecureInv
<1>c. /\ hpc[e] \in {"new", "up"} /\ hpc'[e] = (IF hpc[e] = "new" THEN "failed" ELSE hpc[e])
      /\ hpc'[o] = hpc[o] /\ hopen'[o] = hopen[o] /\ ~hopen'[e]
      /\ hname' = hname /\ hround' = hround /\ keys' = keys /\ sent' = sent
  BY <1>0, <1>a DEF Close, Types, dvars
<1>d. PICK k \in 0 .. Len(hwire[o]) :
          hwire' = [hwire EXCEPT ![e] = <<>>, ![o] = SubSeq(@, 1, k)]
  BY DEF Close
<1>e. /\ hwire'[e] = <<>> /\ hwire'[o] = SubSeq(hwire[o], 1, k)
      /\ hwire[o] \in Seq(Letters \cup Frames) /\ Len(hwire[o]) \in Nat
  BY <1>0, <1>a, <1>d DEF Types
<1> HIDE DEF o
<1>f. /\ Len(hwire'[o]) = k /\ k \in Nat /\ k <= Len(hwire[o])
      /\ \A i \in 1 .. k : hwire'[o][i] = hwire[o][i]
      /\ k = 0 => hwire'[o] = <<>>
  <2> DEFINE q == hwire[o]
  <2>1. q \in Seq(Letters \cup Frames) /\ k \in 0 .. Len(q) /\ Len(q) \in Nat
    BY <1>d, <1>e
  <2> HIDE DEF q
  <2>2. /\ SubSeq(q, 1, k) \in Seq(Letters \cup Frames) /\ Len(SubSeq(q, 1, k)) = k
        /\ \A i \in 1 .. k : SubSeq(q, 1, k)[i] = q[i]
    BY <2>1
  <2>3. k = 0 => SubSeq(q, 1, k) = <<>>
    BY <2>1, <2>2
  <2> QED
    BY <1>e, <2>1, <2>2, <2>3 DEF q
<1>g. hwire'[o] # <<>> => k >= 1 /\ hwire[o] # <<>> /\ Head(hwire'[o]) = Head(hwire[o])
  <2>1. ASSUME hwire'[o] # <<>> PROVE k >= 1
    BY <1>f, <2>1
  <2>2. ASSUME k >= 1 PROVE hwire[o] # <<>> /\ Head(hwire'[o]) = Head(hwire[o])
    <3>1. 1 \in 1 .. k /\ hwire'[o][1] = hwire[o][1] /\ hwire[o] # <<>>
      BY <1>e, <1>f, <2>2
    <3>2. Head(hwire'[o]) = hwire'[o][1] /\ Head(hwire[o]) = hwire[o][1]
      BY <1>e, <1>f, <2>2
    <3> QED
      BY <3>1, <3>2
  <2> QED
    BY <2>1, <2>2
<1>1. Progress(e)' /\ Progress(o)'
  BY <1>a, <1>b, <1>c DEF Progress
<1>2. Wire(e)'
  BY <1>c, <1>e DEF Wire, Live
<1>3. Wire(o)'
  <2>1. CASE Live(o) /\ hwire'[o] # <<>>
    <3>1. /\ hpc[e] # "new" /\ hround[e] = hround[o] + 1
          /\ Head(hwire'[o]) = [round |-> hround[o], name |-> hname[e]]
          /\ Len(hwire'[o]) > 1 => hpc[e] = "up"
          /\ \A i \in 2 .. Len(hwire[o]) : IsFrame(e, hwire[o][i])
      BY <1>0, <1>b, <1>e, <1>f, <1>g, <2>1 DEF Wire
    <3>2. \A i \in 2 .. Len(hwire'[o]) : IsFrame(e, hwire'[o][i])
      BY <1>e, <1>f, <3>1
    <3> QED
      BY <1>0, <1>b, <1>c, <1>g, <2>1, <3>1, <3>2 DEF Wire, Live, IsFrame
  <2>2. CASE hpc[o] = "up"
    <3>1. \A i \in 1 .. Len(hwire'[o]) : IsFrame(e, hwire'[o][i])
      BY <1>0, <1>b, <1>e, <1>f, <2>2 DEF Wire
    <3> QED
      BY <1>0, <1>c, <2>2, <3>1 DEF Wire, Live, IsFrame
  <2>3. CASE ~(Live(o) /\ hwire'[o] # <<>>) /\ hpc[o] # "up"
    BY <1>c, <2>3 DEF Wire, Live
  <2> QED
    BY <2>1, <2>2, <2>3
<1>4. Turns(e)'
  BY <1>0, <1>a, <1>c DEF Turns, Live
<1>5. Turns(o)'
  BY <1>0, <1>b, <1>c, <1>e DEF Turns, Live, Agreed, Checked
<1>6. Agreed(e)' /\ Agreed(o)'
  BY <1>0, <1>a, <1>b, <1>c DEF Agreed, Checked
<1> QED
  BY <1>0, <1>1, <1>2, <1>3, <1>4, <1>5, <1>6 DEF EndInv

----------------------------------------------------------------------------
(* Results                                                                   *)

LEMMA NextSecure ==
    ASSUME SecureAssumption, SecureInv, [Next]_hvars
    PROVE  SecureInv'
<1>1. Types'
  BY NextTypes
<1>2. \A x \in Ends : EndInv(x)'
  <2>1. ASSUME NEW e \in Ends, NEW n \in Names, Upgrade(e, n) PROVE \A x \in Ends : EndInv(x)'
    BY <2>1, UpgradeKeeps
  <2>2. ASSUME NEW e \in Ends, BadConfig(e) PROVE \A x \in Ends : EndInv(x)'
    BY <2>2, BadConfigKeeps
  <2>3. ASSUME NEW e \in Ends, WriteMessage(e) PROVE \A x \in Ends : EndInv(x)'
    BY <2>3, WriteMessageKeeps
  <2>4. ASSUME NEW e \in Ends, ReadMessage(e) PROVE \A x \in Ends : EndInv(x)'
    BY <2>4, ReadMessageKeeps
  <2>5. ASSUME NEW e \in Ends, Timeout(e) \/ PeerGone(e) PROVE \A x \in Ends : EndInv(x)'
    <3>1. Fail(e) /\ hpc[e] \in {"read", "write"} /\ hwire' = hwire
      BY <2>5 DEF Timeout, PeerGone
    <3> QED
      BY <3>1, FailKeeps
  <2>6. ASSUME NEW e \in Ends, NEW size \in Sizes, Write(e, size) PROVE \A x \in Ends : EndInv(x)'
    BY <2>6, WriteKeeps DEF SecureAssumption
  <2>7. ASSUME NEW e \in Ends, NEW buf \in Bufs, ReadFrame(e, buf) PROVE \A x \in Ends : EndInv(x)'
    BY <2>7, ReadFrameKeeps
  <2>8. ASSUME NEW e \in Ends, Close(e) PROVE \A x \in Ends : EndInv(x)'
    BY <2>8, CloseKeeps
  <2>9. CASE UNCHANGED hvars
    BY <2>9 DEF SecureInv, EndInv, hvars, Progress, Wire, Turns, Agreed, Checked, Live, IsFrame
  <2> QED
    BY <2>1, <2>2, <2>3, <2>4, <2>5, <2>6, <2>7, <2>8, <2>9 DEF Next, HandshakeStep
<1> QED
  BY <1>1, <1>2 DEF SecureInv, EndInv

(* Two ends that are up have read messages that authenticate the protocol.   *)
LEMMA AgreeFollows == SecureInv => KeysAgree
<1> SUFFICES ASSUME SecureInv, hpc["ini"] = "up", hpc["res"] = "up"
             PROVE  /\ hname["ini"] = hname["res"] /\ keys["ini"].send = keys["res"].recv
                    /\ keys["res"].send = keys["ini"].recv
  BY DEF KeysAgree
<1>1. keys["ini"] = Split("ini") /\ keys["res"] = Split("res")
  BY DEF SecureInv, Progress, Ends
<1>2. hname["ini"] = hname["res"]
  BY DEF SecureInv, Agreed, Checked, Ends, Other
<1> QED
  BY <1>1, <1>2 DEF Split

----------------------------------------------------------------------------
(* What Read returns                                                         *)

(* The nonce of the receiving state counts the frames that were returned.    *)
Fits(n, r) == r.len = Least(n, r.buf) /\ n + Tag < 65536
Delivered(s, g) == Len(g) <= Len(s) /\ \A k \in 1 .. Len(g) : Fits(s[k], g[k])

Received == \A e \in Ends : Len(got[e]) = nrecv[e] /\ Delivered(sent[Other(e)], got[e])

LEMMA DeliveredWrite ==
    ASSUME NEW s \in Seq(Nat), NEW g \in Seq([len : Nat, buf : Nat]), NEW n \in Nat,
           Delivered(s, g)
    PROVE  Delivered(Append(s, n), g)
<1>1. Len(s) \in Nat /\ Len(g) \in Nat /\ Len(Append(s, n)) = Len(s) + 1
  OBVIOUS
<1>2. \A k \in 1 .. Len(g) : Append(s, n)[k] = s[k]
  BY <1>1 DEF Delivered
<1>3. \A k \in 1 .. Len(g) : Fits(Append(s, n)[k], g[k])
  BY <1>2 DEF Delivered
<1>4. Len(g) <= Len(Append(s, n))
  BY <1>1 DEF Delivered
<1> QED
  BY <1>3, <1>4 DEF Delivered

LEMMA DeliveredRead ==
    ASSUME NEW s \in Seq(Nat), NEW R, NEW g \in Seq(R), NEW r \in R, Delivered(s, g),
           Len(g) + 1 \in 1 .. Len(s), Fits(s[Len(g) + 1], r)
    PROVE  Delivered(s, Append(g, r))
<1> DEFINE h == Append(g, r)
<1>2. Len(h) = Len(g) + 1 /\ Len(g) \in Nat /\ Len(s) \in Nat
  OBVIOUS
<1>3. (\A k \in 1 .. Len(g) : h[k] = g[k]) /\ h[Len(g) + 1] = r
  OBVIOUS
<1> HIDE DEF h
<1>4. ASSUME NEW k \in 1 .. Len(h)
      PROVE  Fits(s[k], h[k])
  <2>1. CASE k \in 1 .. Len(g)
    BY <1>3, <2>1 DEF Delivered
  <2>2. CASE k = Len(g) + 1
    BY <1>3, <2>2
  <2> QED
    BY <1>2, <1>4, <2>1, <2>2
<1> QED
  BY <1>2, <1>4 DEF Delivered, h

LEMMA InitReceived == Init => Received
  BY OtherEnd DEF Init, Received, Delivered

LEMMA NextReceived ==
    ASSUME SecureAssumption, SecureInv, Received, [Next]_hvars
    PROVE  Received'
<1>1. Types
  BY DEF SecureInv
<1>2. CASE UNCHANGED <<sent, nrecv, got>>
  BY <1>2 DEF Received
<1>3. ASSUME NEW e \in Ends, NEW size \in Sizes, Write(e, size) PROVE Received'
  <2>1. /\ sent'[e] = Append(sent[e], size) /\ sent'[Other(e)] = sent[Other(e)]
        /\ got' = got /\ nrecv' = nrecv /\ size \in Nat
    BY <1>1, <1>3, OtherEnd DEF Write, Types, SecureAssumption
  <2>2. sent[e] \in Seq(Nat) /\ \A x \in Ends : got[x] \in Seq([len : Nat, buf : Nat])
    BY <1>1 DEF Types
  <2>3. ASSUME NEW x \in Ends PROVE Delivered(sent'[Other(x)], got[x])
    <3>1. CASE x = e
      BY <2>1, <3>1 DEF Received
    <3>2. CASE x # e
      <4>1. Other(x) = e
        BY <3>2, OtherEnd
      <4> QED
        BY <2>1, <2>2, <4>1, DeliveredWrite DEF Received
    <3> QED
      BY <3>1, <3>2
  <2> QED
    BY <2>1, <2>3 DEF Received
<1>4. ASSUME NEW e \in Ends, NEW buf \in Bufs, ReadFrame(e, buf) PROVE Received'
  <2> DEFINE f == Head(hwire[e])
             o == Other(e)
             len == Copied(f.size - Tag, buf)
  <2>1. CASE ~Decrypts(e, f)
    BY <1>2, <1>4, <2>1 DEF ReadFrame
  <2>2. CASE Decrypts(e, f)
    <3>1. hpc[e] = "up" /\ f = hwire[e][1] /\ 1 \in 1 .. Len(hwire[e])
      BY <1>1, <1>4 DEF ReadFrame, Types
    <3>2. IsFrame(o, f)
      BY <3>1 DEF SecureInv, Wire
    <3>3. /\ f.nonce + 1 \in 1 .. Len(sent[o]) /\ f.size - Tag = sent[o][f.nonce + 1]
          /\ f.size - Tag \in Nat /\ f.head = f.size % 65536
      BY <1>1, <3>2, OtherEnd, FrameParts
    <3>4. f.nonce = nrecv[e] /\ f.size % 65536 = f.size
      BY <2>2, <3>3 DEF Decrypts
    <3>5. f.size < 65536
      <4>1. f.size \in Nat
        BY <3>2 DEF IsFrame, FrameOf, Frames
      <4> QED
        BY <3>4, <4>1
    <3>6. /\ Len(got[e]) = nrecv[e] /\ Delivered(sent[o], got[e]) /\ buf \in Nat
          /\ got[e] \in Seq([len : Nat, buf : Nat]) /\ sent[o] \in Seq(Nat)
      BY <1>1, OtherEnd DEF Received, Types, SecureAssumption
    <3>7. /\ got'[e] = Append(got[e], [len |-> len, buf |-> buf])
          /\ nrecv'[e] = nrecv[e] + 1 /\ sent' = sent
          /\ \A x \in Ends \ {e} : got'[x] = got[x] /\ nrecv'[x] = nrecv[x]
      BY <1>1, <1>4, <2>2 DEF ReadFrame, Types
    <3>8. /\ Len(got[e]) + 1 \in 1 .. Len(sent[o])
          /\ sent[o][Len(got[e]) + 1] = f.size - Tag
      <4>1. f.nonce = Len(got[e])
        BY <3>4, <3>6
      <4> QED
        BY <3>3, <4>1
    <3>9. len \in Nat /\ len = Least(sent[o][Len(got[e]) + 1], buf)
      BY <3>3, <3>6, <3>8 DEF Copied, Least
    <3>10. sent[o][Len(got[e]) + 1] + Tag < 65536
      <4>1. f.size \in Nat
        BY <3>2 DEF IsFrame, FrameOf, Frames
      <4> QED
        BY <3>5, <3>8, <4>1 DEF Tag
    <3> DEFINE R == [len : Nat, buf : Nat]
               r == [len |-> len, buf |-> buf]
    <3>a. r \in R /\ Fits(sent[o][Len(got[e]) + 1], r)
      BY <3>6, <3>9, <3>10 DEF Fits
    <3>b. got[e] \in Seq(R) /\ got'[e] = Append(got[e], r)
      BY <3>6, <3>7
    <3> HIDE DEF len, o, r, R
    <3>11. Delivered(sent[o], got'[e])
      BY <3>6, <3>8, <3>a, <3>b, DeliveredRead
    <3>12. Len(got'[e]) = nrecv'[e]
      BY <3>6, <3>7, <3>a, <3>b
    <3> QED
      BY <3>7, <3>11, <3>12 DEF Received, o
  <2> QED
    BY <2>1, <2>2
<1>5. ASSUME NEW e \in Ends, Advance(e) \/ Fail(e) PROVE UNCHANGED <<sent, nrecv, got>>
  BY <1>5 DEF Advance, Fail, dvars
<1>6. ASSUME NEW e \in Ends, HandshakeStep(e) PROVE Received'
  BY <1>2, <1>5, <1>6 DEF HandshakeStep, WriteMessage, ReadMessage, Timeout, PeerGone
<1>7. ASSUME NEW e \in Ends, NEW n \in Names, Upgrade(e, n) PROVE Received'
  BY <1>2, <1>7 DEF Upgrade, dvars
<1>8. ASSUME NEW e \in Ends, BadConfig(e) \/ Close(e) PROVE Received'
  BY <1>2, <1>8 DEF BadConfig, Close, dvars
<1>9. CASE UNCHANGED hvars
  BY <1>2, <1>9 DEF hvars
<1> QED
  BY <1>3, <1>4, <1>6, <1>7, <1>8, <1>9 DEF Next

LEMMA OrderFollows ==
    ASSUME Types, Received
    PROVE  FramesInOrder
<1> SUFFICES ASSUME NEW e \in Ends
             PROVE  /\ Len(got[e]) <= Len(sent[Other(e)])
                    /\ \A k \in DOMAIN got[e] :
                          /\ got[e][k].len = Least(sent[Other(e)][k], got[e][k].buf)
                          /\ sent[Other(e)][k] + Tag < 65536
  BY DEF FramesInOrder
<1>1. DOMAIN got[e] = 1 .. Len(got[e])
  BY DEF Types
<1> QED
  BY <1>1 DEF Received, Delivered, Fits

=============================================================================

-------------------------- MODULE RelayPathProofs --------------------------
(* Lemmas about RelayPath, for chunks, buffers and fragments of any size.    *)
(* ComponentsProofs states the theorem that rests on them.                   *)
EXTENDS RelayPath, SequenceTheorems, TLAPS

Rises(s) == \A j, k \in 1 .. Len(s) : j < k => s[j] < s[k]
In(t, s) == \E k \in 1 .. Len(s) : s[k] = t
RealIn(t, h) == t # Made /\ t \notin h

(* What the target has received, o, and what is still on its way to it, r,   *)
(* are together all of the client's tokens w but the record headers h, in    *)
(* order.  The tokens that the client has yet to send are greater than n.    *)
Pipe(o, r, w, h, n) ==
    /\ o \in Seq(Nat) /\ r \in Seq(Nat) /\ n \in Nat
    /\ \A t \in w \cup h : t \in Nat /\ 0 < t /\ t <= n
    /\ Rises(r)
    /\ \A k \in 1 .. Len(r) : r[k] \in w /\ r[k] \notin h
    /\ \A i \in 1 .. Len(o) : RealIn(o[i], h) => o[i] \in w
    /\ \A i \in 1 .. Len(o), k \in 1 .. Len(r) : RealIn(o[i], h) => o[i] < r[k]
    /\ \A i, j \in 1 .. Len(o) : i < j /\ RealIn(o[i], h) /\ RealIn(o[j], h) => o[i] < o[j]
    /\ \A t \in w : t \in h \/ In(t, o) \/ In(t, r)

(* Facts about sequences.                                                    *)
LEMMA Associates ==
    \A a, b, c \in Seq(Nat) : a \o (b \o c) = (a \o b) \o c
<1>1. ASSUME NEW a \in Seq(Nat), NEW b \in Seq(Nat), NEW c \in Seq(Nat)
      PROVE  (a \o b) \o c = a \o (b \o c)
  BY ConcatAssociative, SMTT(40)
<1> QED
  BY <1>1, Zenon

(* Where the members of a concatenation come from, and where they go.        *)
Joined(q, o, f) ==
    /\ q \in Seq(Nat) /\ Len(q) = Len(o) + Len(f)
    /\ \A i \in 1 .. Len(q) :
          \/ i \in 1 .. Len(o) /\ q[i] = o[i]
          \/ i > Len(o) /\ i - Len(o) \in 1 .. Len(f) /\ q[i] = f[i - Len(o)]
    /\ \A i \in 1 .. Len(o) : i \in 1 .. Len(q) /\ q[i] = o[i]
    /\ \A k \in 1 .. Len(f) : Len(o) + k \in 1 .. Len(q) /\ q[Len(o) + k] = f[k]

LEMMA Joins == ASSUME NEW o \in Seq(Nat), NEW f \in Seq(Nat) PROVE Joined(o \o f, o, f)
<1> DEFINE q == o \o f
<1>1. /\ q \in Seq(Nat) /\ Len(q) = Len(o) + Len(f) /\ Len(o) \in Nat /\ Len(f) \in Nat
      /\ \A i \in 1 .. Len(o) + Len(f) : q[i] = IF i <= Len(o) THEN o[i] ELSE f[i - Len(o)]
  BY ConcatProperties
<1> HIDE DEF q
<1>2. \A i \in 1 .. Len(o) : i \in 1 .. Len(q) /\ q[i] = o[i]
  BY <1>1
<1>3. ASSUME NEW k \in 1 .. Len(f) PROVE Len(o) + k \in 1 .. Len(q) /\ q[Len(o) + k] = f[k]
  <2>1. Len(o) + k \in 1 .. Len(o) + Len(f) /\ ~(Len(o) + k <= Len(o)) /\ (Len(o) + k) - Len(o) = k
    BY <1>1
  <2>2. q[Len(o) + k] = f[(Len(o) + k) - Len(o)]
    BY <1>1, <2>1
  <2> QED
    BY <1>1, <2>1, <2>2
<1>4. ASSUME NEW i \in 1 .. Len(q)
      PROVE  \/ i \in 1 .. Len(o) /\ q[i] = o[i]
             \/ i > Len(o) /\ i - Len(o) \in 1 .. Len(f) /\ q[i] = f[i - Len(o)]
  <2>1. i \in 1 .. Len(o) + Len(f) /\ q[i] = IF i <= Len(o) THEN o[i] ELSE f[i - Len(o)]
    BY <1>1
  <2>2. CASE i <= Len(o)
    <3>1. i \in 1 .. Len(o)
      BY <1>1, <2>1, <2>2
    <3> QED
      BY <2>1, <2>2, <3>1
  <2>3. CASE ~(i <= Len(o))
    <3>1. i > Len(o) /\ i - Len(o) \in 1 .. Len(f)
      BY <1>1, <2>1, <2>3
    <3> QED
      BY <2>1, <2>3, <3>1
  <2> QED
    BY <2>2, <2>3
<1>5. Joined(q, o, f)
  BY <1>1, <1>2, <1>3, <1>4 DEF Joined
<1> QED
  BY <1>5 DEF q

(* A chunk of new tokens is read.                                            *)
LEMMA PipeReads ==
    ASSUME NEW o, NEW w, NEW h, NEW n, Pipe(o, <<>>, w, h, n),
           NEW c \in Seq(Nat), Rises(c), NEW m \in Nat, n <= m,
           \A k \in 1 .. Len(c) : n < c[k] /\ c[k] <= m
    PROVE  Pipe(o, c, w \cup ToSet(c), h, m)
<1>1. \A t : t \in ToSet(c) <=> In(t, c)
  BY DEF ToSet, In
<1>2. o \in Seq(Nat) /\ n \in Nat /\ \A t \in w \cup h : t \in Nat /\ 0 < t /\ t <= n
  BY DEF Pipe
<1>3. \A t \in (w \cup ToSet(c)) \cup h : t \in Nat /\ 0 < t /\ t <= m
  <2>1. \A k \in 1 .. Len(c) : c[k] \in Nat /\ 0 < c[k] /\ c[k] <= m
    BY <1>2
  <2>2. \A t \in w \cup h : t \in Nat /\ 0 < t /\ t <= m
    BY <1>2
  <2> QED
    BY <1>1, <2>1, <2>2 DEF In
<1>4. ASSUME NEW k \in 1 .. Len(c) PROVE c[k] \in w \cup ToSet(c) /\ c[k] \notin h
  <2>1. c[k] \in ToSet(c)
    BY <1>1 DEF In
  <2>2. c[k] \in Nat /\ n < c[k]
    OBVIOUS
  <2>3. ~(c[k] <= n)
    BY <1>2, <2>2
  <2> QED
    BY <1>2, <2>1, <2>3
<1>5. \A i \in 1 .. Len(o) : RealIn(o[i], h) => o[i] \in w \cup ToSet(c)
  BY DEF Pipe
<1>6. \A i \in 1 .. Len(o), k \in 1 .. Len(c) : RealIn(o[i], h) => o[i] < c[k]
  <2>1. \A i \in 1 .. Len(o) : RealIn(o[i], h) => o[i] \in Nat /\ o[i] <= n
    BY <1>2 DEF Pipe
  <2> QED
    BY <1>2, <2>1
<1>7. \A t \in w \cup ToSet(c) : t \in h \/ In(t, o) \/ In(t, c)
  <2>1. \A t : ~In(t, <<>>)
    BY DEF In
  <2> QED
    BY <1>1, <2>1 DEF Pipe
<1> QED
  BY <1>2, <1>3, <1>4, <1>5, <1>6, <1>7 DEF Pipe

(* A record header is taken off the front.                                   *)
LEMMA PipeDrops ==
    ASSUME NEW o, NEW r, NEW w, NEW h, NEW n, Pipe(o, r, w, h, n), r # <<>>
    PROVE  Pipe(o, Tail(r), w, h \cup {r[1]}, n)
<1>1. /\ r \in Seq(Nat) /\ Len(r) \in Nat /\ Len(r) > 0
      /\ Tail(r) \in Seq(Nat) /\ Len(Tail(r)) = Len(r) - 1
      /\ \A k \in 1 .. Len(Tail(r)) : Tail(r)[k] = r[k + 1] /\ k + 1 \in 1 .. Len(r)
  BY HeadTailProperties DEF Pipe
<1>2. 1 \in 1 .. Len(r) /\ r[1] \in w /\ r[1] \in Nat
  BY <1>1 DEF Pipe
<1>3. Rises(Tail(r)) /\ \A k \in 1 .. Len(Tail(r)) : r[1] < Tail(r)[k]
  <2>1. Rises(Tail(r))
    BY <1>1 DEF Pipe, Rises
  <2>2. \A k \in 1 .. Len(Tail(r)) : r[1] < Tail(r)[k]
    BY <1>1, <1>2 DEF Pipe, Rises
  <2> QED
    BY <2>1, <2>2
<1>4. \A k \in 1 .. Len(Tail(r)) : Tail(r)[k] \in w /\ Tail(r)[k] \notin h \cup {r[1]}
  <2>1. \A k \in 1 .. Len(Tail(r)) : Tail(r)[k] \in w /\ Tail(r)[k] \notin h /\ Tail(r)[k] \in Nat
    BY <1>1 DEF Pipe
  <2> QED
    BY <1>2, <1>3, <2>1
<1>5. \A t : RealIn(t, h \cup {r[1]}) => RealIn(t, h)
  BY DEF RealIn
<1>6. \A i \in 1 .. Len(o), k \in 1 .. Len(Tail(r)) : RealIn(o[i], h \cup {r[1]}) => o[i] < Tail(r)[k]
  BY <1>1, <1>5 DEF Pipe
<1>7. \A t \in w : t \in h \cup {r[1]} \/ In(t, o) \/ In(t, Tail(r))
  <2>1. \A t : In(t, r) => t = r[1] \/ In(t, Tail(r))
    <3> SUFFICES ASSUME NEW k \in 1 .. Len(r), k # 1 PROVE In(r[k], Tail(r))
      BY DEF In
    <3>1. k - 1 \in 1 .. Len(Tail(r)) /\ Tail(r)[k - 1] = r[(k - 1) + 1]
      BY <1>1
    <3> QED
      BY <1>1, <3>1 DEF In
  <2> QED
    BY <2>1 DEF Pipe
<1>8. \A t \in w \cup (h \cup {r[1]}) : t \in Nat /\ 0 < t /\ t <= n
  BY <1>2 DEF Pipe
<1>9. /\ o \in Seq(Nat) /\ n \in Nat
      /\ \A i \in 1 .. Len(o) : RealIn(o[i], h \cup {r[1]}) => o[i] \in w
      /\ \A i, j \in 1 .. Len(o) :
            i < j /\ RealIn(o[i], h \cup {r[1]}) /\ RealIn(o[j], h \cup {r[1]}) => o[i] < o[j]
  BY <1>5 DEF Pipe
<1> QED
  BY <1>1, <1>3, <1>4, <1>6, <1>7, <1>8, <1>9 DEF Pipe

(* A record header is made.                                                  *)
LEMMA PipeMakes ==
    ASSUME NEW o, NEW r, NEW w, NEW h, NEW n, Pipe(o, r, w, h, n)
    PROVE  Pipe(o \o <<Made>>, r, w, h, n)
<1> DEFINE f == <<Made>>
           q == o \o f
<1>1. o \in Seq(Nat) /\ f \in Seq(Nat) /\ Len(o) \in Nat /\ \A k \in 1 .. Len(f) : f[k] = Made
  BY DEF Pipe, Made
<1> HIDE DEF f
<1>2. Joined(q, o, f)
  BY <1>1, Joins
<1> HIDE DEF q
<1>3. \A i \in 1 .. Len(q) : RealIn(q[i], h) => i \in 1 .. Len(o) /\ q[i] = o[i]
  BY <1>1, <1>2 DEF RealIn, Joined
<1>4. q \in Seq(Nat) /\ \A t : In(t, o) => In(t, q)
  BY <1>2 DEF In, Joined
<1>5. /\ \A i \in 1 .. Len(q) : RealIn(q[i], h) => q[i] \in w
      /\ \A i \in 1 .. Len(q), k \in 1 .. Len(r) : RealIn(q[i], h) => q[i] < r[k]
      /\ \A i, j \in 1 .. Len(q) : i < j /\ RealIn(q[i], h) /\ RealIn(q[j], h) => q[i] < q[j]
  BY <1>3 DEF Pipe
<1>6. Pipe(q, r, w, h, n)
  BY <1>4, <1>5 DEF Pipe
<1> QED
  BY <1>6 DEF q, f

(* The front is written.                                                     *)
LEMMA PipeWrites ==
    ASSUME NEW o, NEW r, NEW w, NEW h, NEW n, Pipe(o, r, w, h, n), NEW m \in 0 .. Len(r)
    PROVE  Pipe(o \o SubSeq(r, 1, m), SubSeq(r, m + 1, Len(r)), w, h, n)
<1> DEFINE f == SubSeq(r, 1, m)
           q == o \o f
           s == SubSeq(r, m + 1, Len(r))
<1>1. /\ o \in Seq(Nat) /\ r \in Seq(Nat) /\ Len(o) \in Nat /\ Len(r) \in Nat
      /\ m \in Nat /\ m <= Len(r)
  BY DEF Pipe
<1>2. f \in Seq(Nat) /\ Len(f) = m /\ \A k \in 1 .. m : f[k] = r[k] /\ k \in 1 .. Len(r)
  BY <1>1
<1>3. /\ s \in Seq(Nat) /\ Len(s) = Len(r) - m
      /\ \A k \in 1 .. Len(s) : s[k] = r[m + k] /\ m + k \in 1 .. Len(r)
  BY <1>1
<1> HIDE DEF f, s
<1>4. Joined(q, o, f)
  BY <1>1, <1>2, Joins
<1> HIDE DEF q
<1>r. \A j, k \in 1 .. Len(r) : j < k => r[j] < r[k]
  BY DEF Pipe, Rises
<1>5. Rises(s)
  <2> SUFFICES ASSUME NEW j \in 1 .. Len(s), NEW k \in 1 .. Len(s), j < k PROVE s[j] < s[k]
    BY DEF Rises
  <2>1. m + j < m + k
    BY <1>1
  <2>2. s[j] = r[m + j] /\ s[k] = r[m + k] /\ m + j \in 1 .. Len(r) /\ m + k \in 1 .. Len(r)
    BY <1>3
  <2> QED
    BY <1>r, <2>1, <2>2
<1>6. \A k \in 1 .. Len(s) : s[k] \in w /\ s[k] \notin h
  BY <1>3 DEF Pipe
<1>7. \A i \in 1 .. Len(q) : \/ i \in 1 .. Len(o) /\ q[i] = o[i]
                             \/ i > Len(o) /\ i - Len(o) \in 1 .. m /\ q[i] = r[i - Len(o)]
                                /\ i - Len(o) \in 1 .. Len(r)
  BY <1>1, <1>2, <1>4 DEF Joined
<1>8. \A i \in 1 .. Len(q) : RealIn(q[i], h) => q[i] \in w
  BY <1>7 DEF Pipe
<1>9. \A i \in 1 .. Len(q), k \in 1 .. Len(s) : RealIn(q[i], h) => q[i] < s[k]
  <2> SUFFICES ASSUME NEW i \in 1 .. Len(q), NEW k \in 1 .. Len(s), RealIn(q[i], h)
               PROVE  q[i] < s[k]
    OBVIOUS
  <2>1. s[k] = r[m + k] /\ m + k \in 1 .. Len(r)
    BY <1>3
  <2>2. CASE i \in 1 .. Len(o) /\ q[i] = o[i]
    BY <2>1, <2>2 DEF Pipe
  <2>3. CASE i - Len(o) \in 1 .. m /\ q[i] = r[i - Len(o)] /\ i - Len(o) \in 1 .. Len(r)
    <3>1. i - Len(o) < m + k
      BY <1>1, <2>3
    <3> QED
      BY <1>r, <2>1, <2>3, <3>1
  <2> QED
    BY <1>7, <2>2, <2>3
<1>10. \A i, j \in 1 .. Len(q) : i < j /\ RealIn(q[i], h) /\ RealIn(q[j], h) => q[i] < q[j]
  <2> SUFFICES ASSUME NEW i \in 1 .. Len(q), NEW j \in 1 .. Len(q), i < j,
                      RealIn(q[i], h), RealIn(q[j], h)
               PROVE  q[i] < q[j]
    OBVIOUS
  <2>1. CASE j \in 1 .. Len(o) /\ q[j] = o[j]
    <3>1. i \in 1 .. Len(o) /\ q[i] = o[i]
      BY <1>1, <1>7, <2>1
    <3> QED
      BY <2>1, <3>1 DEF Pipe
  <2>2. CASE j > Len(o) /\ q[j] = r[j - Len(o)] /\ j - Len(o) \in 1 .. Len(r)
    <3>1. CASE i \in 1 .. Len(o) /\ q[i] = o[i]
      BY <2>2, <3>1 DEF Pipe
    <3>2. CASE q[i] = r[i - Len(o)] /\ i - Len(o) \in 1 .. Len(r)
      <4>1. i - Len(o) < j - Len(o)
        BY <1>1
      <4> QED
        BY <1>r, <2>2, <3>2, <4>1
    <3> QED
      BY <1>7, <3>1, <3>2
  <2> QED
    BY <1>7, <2>1, <2>2
<1>11. \A t \in w : t \in h \/ In(t, q) \/ In(t, s)
  <2>1. \A t : In(t, o) => In(t, q)
    BY <1>4 DEF In, Joined
  <2>2. ASSUME NEW k \in 1 .. Len(r) PROVE In(r[k], q) \/ In(r[k], s)
    <3>1. CASE k <= m
      <4>1. k \in 1 .. Len(f) /\ f[k] = r[k]
        BY <1>1, <1>2, <3>1
      <4>2. q[Len(o) + k] = r[k] /\ Len(o) + k \in 1 .. Len(q)
        BY <1>4, <4>1 DEF Joined
      <4> QED
        BY <4>2 DEF In
    <3>2. CASE k > m
      <4>1. k - m \in 1 .. Len(s) /\ s[k - m] = r[m + (k - m)] /\ m + (k - m) = k
        BY <1>1, <1>3, <3>2
      <4> QED
        BY <4>1 DEF In
    <3> QED
      BY <1>1, <3>1, <3>2
  <2>3. \A t : In(t, r) => In(t, q) \/ In(t, s)
    BY <2>2 DEF In
  <2> QED
    BY <2>1, <2>3 DEF Pipe
<1>12. n \in Nat /\ \A t \in w \cup h : t \in Nat /\ 0 < t /\ t <= n
  BY DEF Pipe
<1>13. Pipe(q, s, w, h, n)
  <2>1. q \in Seq(Nat)
    BY <1>4 DEF Joined
  <2> QED
    BY <2>1, <1>3, <1>5, <1>6, <1>8, <1>9, <1>10, <1>11, <1>12 DEF Pipe
<1> QED
  BY <1>13 DEF q, s, f
(* What has left such a pipe is in order and without a gap, and nothing is   *)
(* missing once the pipe is empty.                                           *)
Exact(o, w, h) ==
    /\ \A i, j \in DOMAIN o : i < j /\ RealIn(o[i], h) /\ RealIn(o[j], h) => o[i] < o[j]
    /\ \A i \in DOMAIN o : RealIn(o[i], h) => o[i] \in w
    /\ \A i \in DOMAIN o, t \in w :
          RealIn(o[i], h) /\ RealIn(t, h) /\ t < o[i] => t \in ToSet(o)

LEMMA PipeExact ==
    ASSUME NEW o, NEW r, NEW w, NEW h, NEW n, Pipe(o, r, w, h, n)
    PROVE  /\ Exact(o, w, h)
           /\ r = <<>> => \A t \in w : RealIn(t, h) => t \in ToSet(o)
<1>1. DOMAIN o = 1 .. Len(o) /\ \A t : t \in ToSet(o) <=> In(t, o)
  BY DEF Pipe, ToSet, In
<1>2. ASSUME NEW i \in DOMAIN o, NEW t \in w, RealIn(o[i], h), RealIn(t, h), t < o[i]
      PROVE  t \in ToSet(o)
  <2>1. ASSUME NEW k \in 1 .. Len(r), r[k] = t PROVE FALSE
    <3>1. o[i] < r[k] /\ o[i] \in Nat /\ t \in Nat
      BY <1>1, <1>2 DEF Pipe
    <3> QED
      BY <1>2, <2>1, <3>1
  <2>2. ~In(t, r)
    BY <2>1 DEF In
  <2> QED
    BY <1>1, <1>2, <2>2 DEF Pipe, RealIn
<1>3. r = <<>> => \A t : ~In(t, r)
  BY DEF In
<1>4. r = <<>> => \A t \in w : RealIn(t, h) => t \in ToSet(o)
  BY <1>1, <1>3 DEF Pipe, RealIn
<1>5. Exact(o, w, h)
  BY <1>1, <1>2 DEF Exact, Pipe
<1> QED
  BY <1>4, <1>5

----------------------------------------------------------------------------
(* The chunk that is read first, harmonized or not, is new and in order.     *)
LEMMA ChunkNew ==
    ASSUME NEW n \in Nat \ {0}, cread \in Nat
    PROVE  /\ Chunk(n) \in Seq(Nat) /\ Len(Chunk(n)) = n /\ Rises(Chunk(n))
           /\ \A k \in 1 .. n : Chunk(n)[k] = 2 * (cread + k)
           /\ \A k \in 1 .. n : 2 * cread + 1 < Chunk(n)[k] /\ Chunk(n)[k] <= 2 * (cread + n)
  BY DEF Chunk, Rises

LEMMA HarmonizedNew ==
    ASSUME NEW n \in Nat \ {0}, cread \in Nat, NEW c \in Harmonized(Chunk(n))
    PROVE  /\ c \in Seq(Nat) /\ c # <<>> /\ Rises(c)
           /\ \A k \in 1 .. Len(c) : 2 * cread < c[k] /\ c[k] <= 2 * (cread + n)
<1> DEFINE b == Chunk(n)
<1>1. /\ b \in Seq(Nat) /\ Len(b) = n /\ Rises(b) /\ b # <<>> /\ b[1] = 2 * cread + 2
      /\ \A k \in 1 .. n : b[k] \in Nat /\ 2 * cread + 1 < b[k] /\ b[k] <= 2 * (cread + n)
  <2>1. /\ b \in Seq(Nat) /\ Len(b) = n /\ Rises(b)
        /\ \A k \in 1 .. n : b[k] = 2 * (cread + k)
        /\ \A k \in 1 .. n : 2 * cread + 1 < b[k] /\ b[k] <= 2 * (cread + n)
    BY ChunkNew
  <2> HIDE DEF b
  <2>2. 1 \in 1 .. n /\ b[1] = 2 * (cread + 1) /\ 2 * (cread + 1) = 2 * cread + 2
    BY <2>1
  <2>3. \A k \in 1 .. n : b[k] \in Nat
    BY <2>1
  <2>4. b # <<>>
    BY <2>1
  <2> QED
    BY <2>1, <2>2, <2>3, <2>4
<1> HIDE DEF b
<1>2. CASE c = b
  BY <1>1, <1>2
<1>3. CASE c = <<b[1] - 1>> \o b
  <2> DEFINE g == <<b[1] - 1>>
  <2>1. g \in Seq(Nat) /\ Len(g) = 1 /\ g[1] = 2 * cread + 1
    BY <1>1
  <2> HIDE DEF g
  <2>2. Joined(c, g, b)
    BY <1>1, <1>3, <2>1, Joins DEF g
  <2>3. /\ Len(c) = n + 1
        /\ \A i \in 1 .. Len(c) : \/ i = 1 /\ c[i] = 2 * cread + 1
                                  \/ i > 1 /\ i - 1 \in 1 .. n /\ c[i] = b[i - 1]
    BY <1>1, <2>1, <2>2 DEF Joined
  <2>4. Rises(c)
    <3> SUFFICES ASSUME NEW j \in 1 .. Len(c), NEW k \in 1 .. Len(c), j < k PROVE c[j] < c[k]
      BY DEF Rises
    <3>1. k > 1 /\ k - 1 \in 1 .. n /\ c[k] = b[k - 1]
      BY <2>3
    <3>2. CASE j = 1 /\ c[j] = 2 * cread + 1
      BY <1>1, <3>1, <3>2
    <3>3. CASE j > 1 /\ j - 1 \in 1 .. n /\ c[j] = b[j - 1]
      <4>1. j - 1 < k - 1
        OBVIOUS
      <4> QED
        BY <1>1, <3>1, <3>3, <4>1 DEF Rises
    <3> QED
      BY <2>3, <3>2, <3>3
  <2>5. ASSUME NEW i \in 1 .. Len(c) PROVE 2 * cread < c[i] /\ c[i] <= 2 * (cread + n)
    <3>1. CASE i = 1 /\ c[i] = 2 * cread + 1
      BY <3>1
    <3>2. CASE i - 1 \in 1 .. n /\ c[i] = b[i - 1]
      BY <1>1, <3>2
    <3> QED
      BY <2>3, <3>1, <3>2
  <2>6. c \in Seq(Nat) /\ c # <<>>
    BY <2>2, <2>3 DEF Joined
  <2> QED
    BY <2>4, <2>5, <2>6
<1>4. CASE Len(b) > 1 /\ c = Tail(b)
  <2>1. /\ c \in Seq(Nat) /\ Len(c) = n - 1 /\ c # <<>>
        /\ \A k \in 1 .. Len(c) : c[k] = b[k + 1] /\ k + 1 \in 1 .. n
    <3>1. Tail(b) \in Seq(Nat) /\ Len(Tail(b)) = Len(b) - 1
          /\ \A k \in 1 .. Len(Tail(b)) : Tail(b)[k] = b[k + 1]
      BY <1>1, HeadTailProperties
    <3>2. \A k \in 1 .. Len(c) : k + 1 \in 1 .. n
      BY <1>1, <1>4, <3>1
    <3>3. c # <<>>
      <4>1. Len(c) > 0
        BY <1>1, <1>4, <3>1
      <4> QED
        BY <4>1
    <3> QED
      BY <1>1, <1>4, <3>1, <3>2, <3>3
  <2>2. Rises(c)
    <3> SUFFICES ASSUME NEW j \in 1 .. Len(c), NEW k \in 1 .. Len(c), j < k PROVE c[j] < c[k]
      BY DEF Rises
    <3>1. j + 1 < k + 1 /\ c[j] = b[j + 1] /\ c[k] = b[k + 1] /\ j + 1 \in 1 .. n /\ k + 1 \in 1 .. n
      BY <2>1
    <3> QED
      BY <1>1, <3>1 DEF Rises
  <2>3. ASSUME NEW k \in 1 .. Len(c) PROVE 2 * cread < c[k] /\ c[k] <= 2 * (cread + n)
    <3>1. c[k] = b[k + 1] /\ k + 1 \in 1 .. n
      BY <2>1
    <3>2. c[k] \in Nat /\ 2 * cread + 1 < c[k] /\ c[k] <= 2 * (cread + n)
      BY <1>1, <3>1
    <3> QED
      BY <3>2
  <2> QED
    BY <2>1, <2>2, <2>3
<1> QED
  BY <1>2, <1>3, <1>4 DEF Harmonized, b

(* The two parts of a sequence.                                              *)
Parted(f, d, s, m) ==
    /\ f \in Seq(Nat) /\ Len(f) = m /\ \A k \in 1 .. m : f[k] = s[k]
    /\ d \in Seq(Nat) /\ Len(d) = Len(s) - m /\ \A k \in 1 .. Len(d) : d[k] = s[m + k]

LEMMA Parts ==
    ASSUME NEW s \in Seq(Nat), NEW m \in 0 .. Len(s)
    PROVE  Parted(SubSeq(s, 1, m), SubSeq(s, m + 1, Len(s)), s, m)
<1>1. m \in Nat /\ Len(s) \in Nat /\ m <= Len(s)
  OBVIOUS
<1>2. /\ SubSeq(s, 1, m) \in Seq(Nat) /\ Len(SubSeq(s, 1, m)) = m
      /\ \A k \in 1 .. m : SubSeq(s, 1, m)[k] = s[k]
  BY <1>1
<1>3. /\ SubSeq(s, m + 1, Len(s)) \in Seq(Nat) /\ Len(SubSeq(s, m + 1, Len(s))) = Len(s) - m
      /\ \A k \in 1 .. Len(s) - m : SubSeq(s, m + 1, Len(s))[k] = s[m + k]
  BY <1>1
<1> QED
  BY <1>2, <1>3 DEF Parted

(* A read hands over a first part and keeps the rest.                        *)
LEMMA Splits ==
    ASSUME NEW c \in Seq(Nat), NEW m \in 0 .. Len(c)
    PROVE  /\ SubSeq(c, 1, m) \in Seq(Nat) /\ Len(SubSeq(c, 1, m)) = m
           /\ SubSeq(c, m + 1, Len(c)) \in Seq(Nat)
           /\ SubSeq(c, 1, m) \o SubSeq(c, m + 1, Len(c)) = c
<1> DEFINE a == SubSeq(c, 1, m)
           b == SubSeq(c, m + 1, Len(c))
           q == a \o b
<1>1. m \in Nat /\ Len(c) \in Nat /\ m <= Len(c)
  OBVIOUS
<1>2. Parted(a, b, c, m)
  BY Parts
<1> HIDE DEF a, b
<1>3. a \in Seq(Nat) /\ b \in Seq(Nat) /\ Len(a) = m /\ Len(b) = Len(c) - m
  BY <1>2 DEF Parted
<1>4. Joined(q, a, b)
  BY <1>3, Joins
<1> HIDE DEF q
<1>5. q \in Seq(Nat) /\ Len(q) = Len(c)
  BY <1>1, <1>3, <1>4 DEF Joined
<1>6. ASSUME NEW i \in 1 .. Len(q) PROVE q[i] = c[i]
  <2>1. CASE i \in 1 .. Len(a) /\ q[i] = a[i]
    BY <1>2, <1>3, <2>1 DEF Parted
  <2>2. CASE i - Len(a) \in 1 .. Len(b) /\ q[i] = b[i - Len(a)]
    <3>1. m + (i - m) = i
      BY <1>1
    <3>2. b[i - m] = c[m + (i - m)]
      BY <1>2, <1>3, <2>2 DEF Parted
    <3> QED
      BY <1>3, <2>2, <3>1, <3>2
  <2> QED
    BY <1>4, <2>1, <2>2 DEF Joined
<1>7. \A i \in 1 .. Len(q) : q[i] = c[i]
  BY <1>6
<1>8. q = c
  BY <1>5, <1>7, SeqEqual
<1> QED
  BY <1>3, <1>8 DEF q, a, b

(* What is cut off the front of pend is cut off the front of the pipe.       *)
LEMMA Fronts ==
    ASSUME NEW a \in Seq(Nat), NEW b \in Seq(Nat), NEW m \in 0 .. Len(a)
    PROVE  /\ m \in 0 .. Len(a \o b)
           /\ SubSeq(a \o b, 1, m) = SubSeq(a, 1, m)
           /\ SubSeq(a \o b, m + 1, Len(a \o b)) = SubSeq(a, m + 1, Len(a)) \o b
<1> DEFINE q == a \o b
<1>1. Joined(q, a, b)
  BY Joins
<1> HIDE DEF q
<1>2. /\ q \in Seq(Nat) /\ Len(q) = Len(a) + Len(b) /\ Len(a) \in Nat /\ Len(b) \in Nat
      /\ m \in Nat /\ m <= Len(a) /\ m \in 0 .. Len(q)
  BY <1>1 DEF Joined
<1> DEFINE f == SubSeq(q, 1, m)
           s == SubSeq(q, m + 1, Len(q))
           g == SubSeq(a, 1, m)
           d == SubSeq(a, m + 1, Len(a))
           e == d \o b
<1>3. Parted(f, s, q, m)
  BY <1>2, Parts
<1>4. Parted(g, d, a, m)
  BY Parts
<1> HIDE DEF f, s, g, d
<1>5. Joined(e, d, b)
  BY <1>4, Joins DEF Parted
<1> HIDE DEF e
<1>6. /\ f \in Seq(Nat) /\ Len(f) = m /\ g \in Seq(Nat) /\ Len(g) = m
      /\ s \in Seq(Nat) /\ Len(s) = Len(q) - m /\ d \in Seq(Nat) /\ Len(d) = Len(a) - m
      /\ e \in Seq(Nat) /\ Len(e) = Len(d) + Len(b)
  BY <1>3, <1>4, <1>5 DEF Parted, Joined
<1>7. f = g
  <2>1. ASSUME NEW k \in 1 .. m PROVE f[k] = g[k]
    <3>1. f[k] = q[k] /\ g[k] = a[k]
      BY <1>3, <1>4 DEF Parted
    <3>2. k \in 1 .. Len(a)
      BY <1>2
    <3> QED
      BY <1>1, <3>1, <3>2 DEF Joined
  <2> QED
    BY <1>6, <2>1
<1>8. s = e
  <2>1. Len(e) = Len(s)
    BY <1>2, <1>6
  <2>2. ASSUME NEW k \in 1 .. Len(s) PROVE s[k] = e[k]
    <3>0. s[k] = q[m + k] /\ k \in 1 .. Len(e)
      BY <1>3, <2>1 DEF Parted
    <3>1. CASE k \in 1 .. Len(d)
      <4>1. m + k \in 1 .. Len(a)
        BY <1>2, <1>6, <3>1
      <4>2. q[m + k] = a[m + k]
        BY <1>1, <4>1 DEF Joined
      <4>3. e[k] = d[k] /\ d[k] = a[m + k]
        BY <1>4, <1>5, <3>1 DEF Parted, Joined
      <4> QED
        BY <3>0, <4>2, <4>3
    <3>2. CASE k \notin 1 .. Len(d)
      <4>1. k - Len(d) \in 1 .. Len(b) /\ e[k] = b[k - Len(d)]
        BY <1>5, <3>0, <3>2 DEF Joined
      <4>2. Len(a) + (k - Len(d)) = m + k
        BY <1>2, <1>6
      <4>3. q[Len(a) + (k - Len(d))] = b[k - Len(d)]
        BY <1>1, <4>1 DEF Joined
      <4> QED
        BY <3>0, <4>1, <4>2, <4>3
    <3> QED
      BY <3>1, <3>2
  <2>3. s \in Seq(Nat) /\ e \in Seq(Nat)
    BY <1>6
  <2>4. \A k \in 1 .. Len(s) : s[k] = e[k]
    BY <2>2
  <2> QED
    BY <2>1, <2>3, <2>4, SeqEqual
<1>9. m \in 0 .. Len(q) /\ f = g /\ s = e
  BY <1>2, <1>7, <1>8
<1> QED
  BY <1>9, Zenon DEF q, f, g, s, d, e
----------------------------------------------------------------------------
(* The relay loop: the pipe is what Write has still to write and what the    *)
(* reader has kept; the count that Write returns falls short only of a       *)
(* record header; and the loop that has ended has left an exact stream.      *)
RelayInv ==
    /\ strategy \in {"none", "fixed", "random", "tls"} /\ rpc \in {"read", "write", "ended"}
    /\ wmode \in {"whole", "fixed", "random"} /\ cread \in Nat
    /\ pend \in Seq(Nat) /\ ubuf \in Seq(Nat) /\ reclen \in Nat /\ nr \in Nat /\ nw \in Nat
    /\ rpc # "ended" => why = "none" /\ Pipe(out, pend \o ubuf, want, headers, 2 * cread)
    /\ ~inspected => ubuf = <<>>
    /\ strategy = "none" => rpc = "read" /\ ubuf = <<>>
    /\ rpc = "read" => pend = <<>>
    /\ rpc = "write" => reclen <= Len(pend)
    /\ rpc = "write" /\ strategy # "tls" => reclen = 0 /\ nw + Len(pend) = nr
    /\ Exact(out, want, headers)
    /\ why = "eof" => \A t \in want : RealIn(t, headers) => t \in ToSet(out)
    /\ why = "count" => strategy = "tls"

LEMMA InitRelay == RelayAssumption /\ Init => RelayInv
<1> SUFFICES ASSUME RelayAssumption, Init PROVE RelayInv
  OBVIOUS
<1>1. /\ out = <<>> /\ pend = <<>> /\ ubuf = <<>> /\ want = {} /\ headers = {} /\ cread = 0
      /\ why = "none"
  BY DEF Init
<1>2. <<>> \o <<>> = <<>> /\ <<>> \in Seq(Nat) /\ Len(<<>>) = 0
  OBVIOUS
<1>3. Pipe(<<>>, <<>>, {}, {}, 0)
  BY <1>2 DEF Pipe, Rises
<1>4. Pipe(out, pend \o ubuf, want, headers, 2 * cread)
  BY <1>1, <1>2, <1>3
<1>5. Exact(out, want, headers)
  BY <1>4, PipeExact
<1> QED
  BY <1>1, <1>2, <1>4, <1>5 DEF Init, RelayInv

LEMMA ExactFollows == RelayInv => RelayExact
  BY DEF RelayInv, Exact, RealIn, RelayExact, InOrder, Sent, NoGap, Real

(* Write is given the front of the pipe.                                     *)
Writing(u, w, n) ==
    /\ rpc' = "write" /\ pend' \in Seq(Nat) /\ reclen' \in Nat /\ reclen' <= Len(pend')
    /\ nr' \in Nat /\ nw' \in Nat /\ wmode' \in {"whole", "fixed", "random"}
    /\ out' = out /\ why' = why /\ strategy' = strategy
    /\ Pipe(out', pend' \o u, w, headers', n)
    /\ strategy # "tls" => reclen' = 0 /\ nw' + Len(pend') = nr'

LEMMA WriteStarts ==
    ASSUME NEW p \in Seq(Nat), p # <<>>, NEW u \in Seq(Nat), NEW w, NEW n,
           Pipe(out, p \o u, w, headers, n), StartWrite(p)
    PROVE  Writing(u, w, n)
<1>1. Len(p) \in Nat /\ Len(p) > 0
  OBVIOUS
<1>2. PICK rec \in IF Grown(p[1]) THEN {0} ELSE 0 .. Len(p) :
          LET tls == fragOn /\ strategy = "tls" /\ rec > 0 /\ p # <<p[1]>> IN
          /\ wmode' \in {"whole", "fixed", "random"}
          /\ pend' = IF tls THEN Tail(p) ELSE p
          /\ reclen' = IF tls THEN rec - 1 ELSE 0
          /\ headers' = IF tls THEN headers \cup {p[1]} ELSE headers
  BY DEF StartWrite
<1>3. /\ rpc' = "write" /\ nr' = Len(p) /\ nw' = 0
      /\ out' = out /\ why' = why /\ strategy' = strategy
  BY DEF StartWrite, engines
<1>4. rec \in Nat /\ rec <= Len(p)
  BY <1>1, <1>2
<1> DEFINE tls == fragOn /\ strategy = "tls" /\ rec > 0 /\ p # <<p[1]>>
<1>5. CASE ~tls
  <2>1. pend' = p /\ reclen' = 0 /\ headers' = headers
    BY <1>2, <1>5
  <2> QED
    BY <1>1, <1>2, <1>3, <2>1 DEF Writing
<1>6. CASE tls
  <2>1. pend' = Tail(p) /\ reclen' = rec - 1 /\ headers' = headers \cup {p[1]} /\ strategy = "tls"
        /\ rec > 0
    BY <1>2, <1>6
  <2>2. Tail(p) \in Seq(Nat) /\ Len(Tail(p)) = Len(p) - 1
    BY HeadTailProperties
  <2> DEFINE q == p \o u
  <2>3. q # <<>> /\ q[1] = p[1] /\ Tail(q) = Tail(p) \o u
    <3>1. Joined(q, p, u)
      BY Joins
    <3> HIDE DEF q
    <3>2. 1 \in 1 .. Len(p) /\ 1 \in 0 .. Len(p)
      BY <1>1
    <3>3. q[1] = p[1] /\ Len(q) > 0 /\ q \in Seq(Nat)
      BY <1>1, <3>1, <3>2 DEF Joined
    <3>4. q # <<>>
      BY <3>3
    <3>5. Tail(p) = SubSeq(p, 1 + 1, Len(p)) /\ Tail(q) = SubSeq(q, 1 + 1, Len(q))
      BY <3>3, <3>4, TailIsSubSeq
    <3>6. SubSeq(q, 1 + 1, Len(q)) = SubSeq(p, 1 + 1, Len(p)) \o u
      BY <3>2, Fronts DEF q
    <3> QED
      BY <3>3, <3>4, <3>5, <3>6
  <2>4. Pipe(out, Tail(q), w, headers \cup {q[1]}, n)
    BY <2>3, PipeDrops
  <2>5. Pipe(out', pend' \o u, w, headers', n)
    BY <1>3, <2>1, <2>3, <2>4
  <2>6. reclen' \in Nat /\ reclen' <= Len(pend') /\ pend' \in Seq(Nat)
    BY <1>1, <1>4, <2>1, <2>2
  <2> QED
    BY <1>1, <1>2, <1>3, <2>1, <2>5, <2>6 DEF Writing
<1> QED
  BY <1>5, <1>6

LEMMA Writes ==
    ASSUME RelayInv, strategy # "none", cread' \in Nat, ubuf' \in Seq(Nat), ~inspected' => ubuf' = <<>>,
           rpc = "read", Writing(ubuf', want', 2 * cread')
    PROVE  RelayInv'
<1>1. Exact(out', want', headers')
  BY PipeExact DEF Writing
<1>2. why' = "none"
  BY DEF RelayInv, Writing
<1> QED
  BY <1>1, <1>2 DEF RelayInv, Writing

LEMMA InspectKeeps ==
    ASSUME RelayAssumption, RelayInv, NEW n \in 1 .. Total, InspectFirst(n)
    PROVE  RelayInv'
<1>1. /\ rpc = "read" /\ strategy # "none" /\ ~inspected /\ n \in Nat \ {0} /\ cread \in Nat
      /\ inspected' /\ cread' = cread + n /\ RelayBuf \in Nat \ {0}
  BY DEF InspectFirst, RelayInv, RelayAssumption
<1>2. PICK c \in Harmonized(Chunk(n)) :
          LET m == Least(Len(c), RelayBuf) IN
          /\ ubuf' = KeepRest(c, m) /\ want' = want \cup ToSet(c)
          /\ StartWrite(SubSeq(c, 1, m))
  BY DEF InspectFirst
<1>3. /\ c \in Seq(Nat) /\ c # <<>> /\ Rises(c)
      /\ \A k \in 1 .. Len(c) : 2 * cread < c[k] /\ c[k] <= 2 * (cread + n)
  BY <1>1, <1>2, HarmonizedNew
<1>4. Pipe(out, <<>>, want, headers, 2 * cread)
  <2>1. pend = <<>> /\ ubuf = <<>> /\ <<>> \o <<>> = <<>>
    BY <1>1 DEF RelayInv
  <2> QED
    BY <1>1, <2>1 DEF RelayInv
<1>5. Pipe(out, c, want \cup ToSet(c), headers, 2 * cread')
  <2>1. 2 * (cread + n) \in Nat /\ 2 * cread <= 2 * (cread + n)
    BY <1>1
  <2> QED
    BY <1>1, <1>3, <1>4, <2>1, PipeReads
<1> DEFINE m == Least(Len(c), RelayBuf)
           p == SubSeq(c, 1, m)
<1>6. m \in 0 .. Len(c) /\ m > 0
  BY <1>1, <1>3 DEF Least
<1>7. /\ p \in Seq(Nat) /\ Len(p) = m /\ ubuf' \in Seq(Nat) /\ p \o ubuf' = c
      /\ want' = want \cup ToSet(c) /\ StartWrite(p)
  BY <1>2, <1>3, <1>6, Splits DEF KeepRest
<1> HIDE DEF m, p
<1>8. p # <<>>
  BY <1>6, <1>7
<1>9. Writing(ubuf', want', 2 * cread')
  BY <1>5, <1>7, <1>8, WriteStarts
<1>10. cread' \in Nat
  BY <1>1
<1> QED
  BY <1>1, <1>7, <1>9, <1>10, Writes

LEMMA RestKeeps ==
    ASSUME RelayAssumption, RelayInv, ReadRest
    PROVE  RelayInv'
<1>1. /\ rpc = "read" /\ ubuf # <<>> /\ RelayBuf \in Nat \ {0} /\ cread \in Nat
      /\ cread' = cread /\ inspected' = inspected /\ want' = want /\ ubuf \in Seq(Nat)
      /\ strategy # "none" /\ inspected
  BY DEF ReadRest, RelayInv, RelayAssumption
<1>2. Pipe(out, ubuf, want, headers, 2 * cread)
  <2>1. pend = <<>> /\ <<>> \o ubuf = ubuf
    BY <1>1, ConcatEmptySeq DEF RelayInv
  <2> QED
    BY <1>1, <2>1 DEF RelayInv
<1> DEFINE m == Least(Len(ubuf), RelayBuf)
           p == SubSeq(ubuf, 1, m)
<1>3. m \in 0 .. Len(ubuf) /\ m > 0
  BY <1>1 DEF Least
<1>4. p \in Seq(Nat) /\ Len(p) = m /\ ubuf' \in Seq(Nat) /\ p \o ubuf' = ubuf /\ StartWrite(p)
  BY <1>1, <1>3, Splits DEF ReadRest, KeepRest
<1> HIDE DEF m, p
<1>5. p # <<>>
  BY <1>3, <1>4
<1>6. Writing(ubuf', want', 2 * cread')
  BY <1>1, <1>2, <1>4, <1>5, WriteStarts
<1> QED
  BY <1>1, <1>4, <1>6, Writes

LEMMA ClientKeeps ==
    ASSUME RelayAssumption, RelayInv, NEW n \in 1 .. Total, ReadClient(n)
    PROVE  RelayInv'
<1> DEFINE c == Chunk(n)
<1>1. /\ rpc = "read" /\ strategy # "none" /\ n \in Nat \ {0} /\ cread \in Nat /\ ubuf = <<>>
      /\ cread' = cread + n /\ ubuf' = ubuf /\ want' = want \cup ToSet(c) /\ StartWrite(c)
  BY DEF ReadClient, RelayInv, RelayAssumption
<1>2. /\ c \in Seq(Nat) /\ Len(c) = n /\ Rises(c)
      /\ \A k \in 1 .. n : 2 * cread < c[k] /\ c[k] <= 2 * (cread + n)
  <2>1. /\ c \in Seq(Nat) /\ Len(c) = n /\ Rises(c)
        /\ \A k \in 1 .. n : 2 * cread + 1 < c[k] /\ c[k] <= 2 * (cread + n)
    BY <1>1, ChunkNew
  <2> HIDE DEF c
  <2>2. ASSUME NEW k \in 1 .. n PROVE 2 * cread < c[k]
    <3>1. c[k] \in Nat /\ 2 * cread + 1 < c[k]
      BY <2>1
    <3> QED
      BY <1>1, <3>1
  <2> QED
    BY <2>1, <2>2
<1> HIDE DEF c
<1>3. c # <<>> /\ c \o <<>> = c
  BY <1>1, <1>2, ConcatEmptySeq
<1>4. Pipe(out, <<>>, want, headers, 2 * cread)
  <2>1. pend = <<>> /\ <<>> \o <<>> = <<>>
    BY <1>1 DEF RelayInv
  <2> QED
    BY <1>1, <2>1 DEF RelayInv
<1>5. Pipe(out, c, want \cup ToSet(c), headers, 2 * cread')
  <2>1. 2 * (cread + n) \in Nat /\ 2 * cread <= 2 * (cread + n)
    BY <1>1
  <2> QED
    BY <1>1, <1>2, <1>4, <2>1, PipeReads
<1>6. ubuf' \in Seq(Nat) /\ ubuf' = <<>> /\ cread' \in Nat
  BY <1>1
<1>7. Writing(ubuf', want', 2 * cread')
  BY <1>1, <1>2, <1>3, <1>5, <1>6, WriteStarts
<1> QED
  BY <1>1, <1>6, <1>7, Writes

LEMMA EOFKeeps ==
    ASSUME RelayInv, ReadEOF
    PROVE  RelayInv'
<1>1. Pipe(out, <<>>, want, headers, 2 * cread)
  <2>1. pend = <<>> /\ ubuf = <<>> /\ <<>> \o <<>> = <<>> /\ rpc = "read"
    BY DEF RelayInv, ReadEOF
  <2> QED
    BY <2>1 DEF RelayInv
<1>2. \A t \in want : RealIn(t, headers) => t \in ToSet(out)
  BY <1>1, PipeExact
<1>3. /\ rpc' = "ended" /\ why' = "eof" /\ strategy # "none" /\ ubuf = <<>>
      /\ UNCHANGED <<strategy, cread, ubuf, pend, reclen, wmode, nr, nw, out, want, headers>>
  BY DEF ReadEOF, engines
<1>4. \A t \in want' : RealIn(t, headers') => t \in ToSet(out')
  BY <1>2, <1>3
<1>5. Exact(out', want', headers')
  BY <1>3 DEF RelayInv
<1>6. /\ strategy' \in {"none", "fixed", "random", "tls"} /\ wmode' \in {"whole", "fixed", "random"}
      /\ cread' \in Nat /\ pend' \in Seq(Nat) /\ ubuf' \in Seq(Nat) /\ ubuf' = <<>>
      /\ reclen' \in Nat /\ nr' \in Nat /\ nw' \in Nat /\ strategy' # "none"
  BY <1>3 DEF RelayInv
<1> QED
  BY <1>3, <1>4, <1>5, <1>6 DEF RelayInv

(* A fragment of a record payload has a new header before it; a write that   *)
(* fails leaves a prefix of its fragment.                                    *)
LEMMA CutsFit ==
    ASSUME RelayAssumption, RelayInv, rpc = "write", NEW n \in Cuts
    PROVE  /\ n \in 0 .. Len(pend)
           /\ reclen > 0 => n <= reclen
<1>1. /\ reclen \in Nat /\ reclen <= Len(pend) /\ Len(pend) \in Nat
      /\ MinFrag \in Nat /\ MaxFrag \in Nat /\ wmode \in {"whole", "fixed", "random"}
  BY DEF RelayInv, RelayAssumption
<1>2. CASE reclen > 0
  BY <1>1, <1>2 DEF Cuts, Least
<1>3. CASE ~(reclen > 0)
  BY <1>1, <1>3 DEF Cuts, Least
<1> QED
  BY <1>2, <1>3

LEMMA Sends ==
    ASSUME RelayInv, rpc = "write", NEW n \in 0 .. Len(pend)
    PROVE  /\ Pipe(out \o SubSeq(pend, 1, n), SubSeq(pend, n + 1, Len(pend)) \o ubuf,
                   want, headers, 2 * cread)
           /\ Pipe((out \o <<Made>>) \o SubSeq(pend, 1, n),
                   SubSeq(pend, n + 1, Len(pend)) \o ubuf, want, headers, 2 * cread)
<1> DEFINE r == pend \o ubuf
<1>1. Pipe(out, r, want, headers, 2 * cread) /\ pend \in Seq(Nat) /\ ubuf \in Seq(Nat)
  BY DEF RelayInv
<1>2. Pipe(out \o <<Made>>, r, want, headers, 2 * cread)
  BY <1>1, PipeMakes
<1>3. /\ n \in 0 .. Len(r) /\ SubSeq(r, 1, n) = SubSeq(pend, 1, n)
      /\ SubSeq(r, n + 1, Len(r)) = SubSeq(pend, n + 1, Len(pend)) \o ubuf
  BY <1>1, Fronts
<1> HIDE DEF r
<1>4. /\ Pipe(out \o SubSeq(r, 1, n), SubSeq(r, n + 1, Len(r)), want, headers, 2 * cread)
      /\ Pipe((out \o <<Made>>) \o SubSeq(r, 1, n), SubSeq(r, n + 1, Len(r)),
              want, headers, 2 * cread)
  BY <1>1, <1>2, <1>3, PipeWrites
<1> QED
  BY <1>3, <1>4

LEMMA FragmentKeeps ==
    ASSUME RelayAssumption, RelayInv, NEW n \in Cuts, WriteFragment(n)
    PROVE  RelayInv'
<1> DEFINE f == SubSeq(pend, 1, n)
           d == SubSeq(pend, n + 1, Len(pend))
<1>1. /\ rpc = "write" /\ out' = out \o Fragment(n) /\ nw' = nw + Len(Fragment(n)) /\ pend' = d
      /\ reclen' = IF reclen > 0 THEN reclen - n ELSE 0
      /\ UNCHANGED <<strategy, cread, inspected, ubuf, rpc, wmode, nr, want, headers, why>>
  BY DEF WriteFragment, engines
<1>2. n \in 0 .. Len(pend) /\ (reclen > 0 => n <= reclen)
  BY <1>1, CutsFit
<1>3. /\ Pipe(out \o f, d \o ubuf, want, headers, 2 * cread)
      /\ Pipe((out \o <<Made>>) \o f, d \o ubuf, want, headers, 2 * cread)
  BY <1>1, <1>2, Sends
<1>4. /\ out \in Seq(Nat) /\ pend \in Seq(Nat) /\ Len(pend) \in Nat /\ reclen \in Nat
      /\ reclen <= Len(pend) /\ nw \in Nat /\ nr \in Nat
  BY <1>1 DEF RelayInv, Pipe
<1>5. Parted(f, d, pend, n)
  BY <1>2, <1>4, Parts
<1> HIDE DEF f, d
<1>6. f \in Seq(Nat) /\ Len(f) = n /\ d \in Seq(Nat) /\ Len(d) = Len(pend) - n /\ n \in Nat
  BY <1>2, <1>5 DEF Parted
<1>7. CASE reclen > 0
  <2> DEFINE g == <<Made>>
  <2>1. Fragment(n) = g \o f /\ g \in Seq(Nat) /\ Len(g) = 1
    <3>1. Fragment(n) = g \o f
      BY <1>7 DEF Fragment, f
    <3>2. g \in Seq(Nat) /\ Len(g) = 1
      BY DEF Made
    <3> QED
      BY <3>1, <3>2
  <2>a. Pipe((out \o g) \o f, d \o ubuf, want, headers, 2 * cread)
    BY <1>3
  <2> HIDE DEF g
  <2>2. out' = (out \o g) \o f /\ Len(Fragment(n)) = n + 1
    <3>1. out \o (g \o f) = (out \o g) \o f
      BY <1>4, <1>6, <2>1, Associates, Zenon
    <3>2. Len(g \o f) = 1 + n
      <4>1. Joined(g \o f, g, f)
        BY <1>6, <2>1, Joins
      <4> QED
        BY <1>6, <2>1, <4>1 DEF Joined
    <3>3. Len(Fragment(n)) = n + 1
      BY <1>6, <2>1, <3>2
    <3>4. out' = (out \o g) \o f
      BY <1>1, <2>1, <3>1
    <3> QED
      BY <3>3, <3>4
  <2>3. Pipe(out', pend' \o ubuf', want', headers', 2 * cread')
    BY <1>1, <2>a, <2>2
  <2>4. Exact(out', want', headers')
    BY <2>3, PipeExact
  <2>5. nw' \in Nat /\ reclen' \in Nat /\ reclen' <= Len(pend') /\ pend' \in Seq(Nat)
    BY <1>1, <1>2, <1>4, <1>6, <1>7, <2>2
  <2> QED
    BY <1>1, <1>7, <2>3, <2>4, <2>5 DEF RelayInv
<1>8. CASE reclen = 0
  <2>1. Fragment(n) = f
    <3>1. Fragment(n) = <<>> \o f
      BY <1>8 DEF Fragment, f
    <3> QED
      BY <1>6, <3>1, ConcatEmptySeq
  <2>2. out' = out \o f /\ nw' = nw + n /\ reclen' = 0
    BY <1>1, <1>6, <1>8, <2>1
  <2>3. Pipe(out', pend' \o ubuf', want', headers', 2 * cread')
    BY <1>1, <1>3, <2>2
  <2>4. Exact(out', want', headers')
    BY <2>3, PipeExact
  <2>5. nw' \in Nat /\ reclen' \in Nat /\ reclen' <= Len(pend') /\ pend' \in Seq(Nat)
    BY <1>1, <1>2, <1>4, <1>6, <2>2
  <2>6. nw' + Len(pend') = nw + Len(pend)
    <3>1. nw' = nw + n /\ Len(pend') = Len(pend) - n
      BY <1>1, <1>6, <2>2
    <3>2. nw \in Nat /\ Len(pend) \in Nat /\ n \in Nat
      BY <1>4, <1>6
    <3> QED
      BY <3>1, <3>2
  <2> QED
    BY <1>1, <2>2, <2>3, <2>4, <2>5, <2>6 DEF RelayInv
<1> QED
  BY <1>4, <1>7, <1>8

LEMMA FailureKeeps ==
    ASSUME RelayAssumption, RelayInv, NEW n \in Cuts, WriteFails(n)
    PROVE  RelayInv'
<1>1. PICK k \in 0 .. Len(Fragment(n)) - 1 : out' = out \o SubSeq(Fragment(n), 1, k)
  BY DEF WriteFails
<1>2. /\ rpc = "write" /\ rpc' = "ended" /\ why' = "error"
      /\ UNCHANGED <<strategy, cread, inspected, ubuf, pend, reclen, wmode, nr, nw, want, headers>>
  BY DEF WriteFails, engines
<1>3. n \in 0 .. Len(pend) /\ out \in Seq(Nat) /\ pend \in Seq(Nat) /\ Len(pend) \in Nat
      /\ reclen \in Nat
  BY <1>2, CutsFit DEF RelayInv, Pipe
<1> DEFINE f == SubSeq(pend, 1, n)
<1>4. f \in Seq(Nat) /\ Len(f) = n /\ n \in Nat /\ n <= Len(pend)
  BY <1>3, Splits
<1>5. \A j \in 0 .. n : SubSeq(f, 1, j) = SubSeq(pend, 1, j)
  <2> SUFFICES ASSUME NEW j \in 0 .. n PROVE SubSeq(f, 1, j) = SubSeq(pend, 1, j)
    OBVIOUS
  <2> DEFINE a == SubSeq(f, 1, j)
             b == SubSeq(pend, 1, j)
  <2>1. j \in 0 .. Len(pend) /\ j \in 0 .. Len(f)
    BY <1>3, <1>4
  <2>2. Parted(f, SubSeq(pend, n + 1, Len(pend)), pend, n)
    BY <1>3, Parts
  <2>3. Parted(a, SubSeq(f, j + 1, Len(f)), f, j) /\ Parted(b, SubSeq(pend, j + 1, Len(pend)), pend, j)
    BY <1>3, <1>4, <2>1, Parts
  <2> HIDE DEF a, b, f
  <2>4. a \in Seq(Nat) /\ Len(a) = j /\ b \in Seq(Nat) /\ Len(b) = j
    BY <2>3 DEF Parted
  <2>5. ASSUME NEW i \in 1 .. Len(a) PROVE a[i] = b[i]
    <3>1. i \in 1 .. j /\ i \in 1 .. n
      BY <1>4, <2>4
    <3> QED
      BY <2>2, <2>3, <3>1 DEF Parted
  <2>6. \A i \in 1 .. Len(a) : a[i] = b[i]
    BY <2>5
  <2>7. a = b
    BY <2>4, <2>6, SeqEqual
  <2> QED
    BY <2>7 DEF a, b
<1>6. \/ out' = out
      \/ \E j \in 0 .. Len(pend) : \/ out' = out \o SubSeq(pend, 1, j)
                                   \/ out' = (out \o <<Made>>) \o SubSeq(pend, 1, j)
  <2>1. CASE reclen > 0
    <3> DEFINE g == <<Made>>
               q == g \o f
    <3>1. Fragment(n) = q
      BY <2>1 DEF Fragment
    <3>2. g \in Seq(Nat) /\ Len(g) = 1 /\ Made \in Nat
      BY DEF Made
    <3> HIDE DEF g, f
    <3>3. Joined(q, g, f)
      BY <1>4, <3>2, Joins
    <3> HIDE DEF q
    <3>4. k \in Nat /\ k <= n /\ Len(q) = n + 1 /\ q \in Seq(Nat)
      BY <1>1, <1>4, <3>1, <3>2, <3>3 DEF Joined
    <3>5. CASE k = 0
      <4>1. SubSeq(q, 1, k) = <<>>
        BY <3>4, <3>5, SubSeqEmpty
      <4> QED
        BY <1>1, <1>3, <3>1, <4>1, ConcatEmptySeq
    <3>6. CASE k > 0
      <4> DEFINE j == k - 1
                 b == SubSeq(f, 1, j)
                 a == SubSeq(q, 1, k)
                 e == g \o b
      <4>1. j \in 0 .. n /\ j \in 0 .. Len(pend) /\ j \in 0 .. Len(f) /\ k \in 0 .. Len(q)
            /\ k = 1 + j /\ j \in Nat
        BY <1>4, <3>4, <3>6
      <4> HIDE DEF j
      <4>2. Parted(b, SubSeq(f, j + 1, Len(f)), f, j) /\ Parted(a, SubSeq(q, k + 1, Len(q)), q, k)
        BY <1>4, <3>4, <4>1, Parts
      <4> HIDE DEF a, b
      <4>3. Joined(e, g, b)
        BY <3>2, <4>2, Joins DEF Parted
      <4> HIDE DEF e
      <4>4. /\ a \in Seq(Nat) /\ e \in Seq(Nat) /\ Len(a) = k /\ Len(e) = k
            /\ b \in Seq(Nat) /\ Len(b) = j
        BY <3>2, <4>1, <4>2, <4>3 DEF Parted, Joined
      <4>5. ASSUME NEW i \in 1 .. Len(a) PROVE a[i] = e[i]
        <5>1. a[i] = q[i] /\ i \in 1 .. Len(q) /\ i \in 1 .. Len(e)
          <6>1. i \in 1 .. k
            BY <4>4
          <6> QED
            <7>1. a[i] = q[i]
              BY <4>2, <6>1 DEF Parted
            <7>2. i \in 1 .. Len(q)
              BY <3>4, <4>1, <6>1
            <7> QED
              BY <4>4, <6>1, <7>1, <7>2
        <5>2. CASE i \in 1 .. Len(g)
          <6>1. q[i] = g[i] /\ e[i] = g[i]
            BY <3>3, <4>3, <5>2 DEF Joined
          <6> QED
            BY <5>1, <6>1
        <5>3. CASE i \notin 1 .. Len(g)
          <6>1. q[i] = f[i - Len(g)] /\ e[i] = b[i - Len(g)] /\ i - Len(g) \in 1 .. Len(b)
            BY <3>3, <4>3, <5>1, <5>3 DEF Joined
          <6>2. b[i - Len(g)] = f[i - Len(g)]
            BY <4>2, <4>4, <6>1 DEF Parted
          <6> QED
            BY <5>1, <6>1, <6>2
        <5> QED
          BY <5>2, <5>3
      <4>6. \A i \in 1 .. Len(a) : a[i] = e[i]
        BY <4>5
      <4>7. a = e
        BY <4>4, <4>6, SeqEqual
      <4>8. out \o (g \o b) = (out \o g) \o b
        <5>1. out \in Seq(Nat) /\ g \in Seq(Nat) /\ b \in Seq(Nat)
          BY <1>3, <3>2, <4>4
        <5> QED
          BY <5>1, Associates, Zenon
      <4>9. out' = (out \o <<Made>>) \o SubSeq(pend, 1, j)
        BY <1>1, <1>5, <3>1, <4>1, <4>7, <4>8 DEF a, b, e, g
      <4> QED
        BY <4>1, <4>9
    <3>7. k = 0 \/ k > 0
      BY <3>4
    <3> QED
      BY <3>5, <3>6, <3>7
  <2>2. CASE reclen = 0
    <3>1. Fragment(n) = f
      <4>1. Fragment(n) = <<>> \o f
        BY <2>2 DEF Fragment
      <4> QED
        BY <1>4, <4>1, ConcatEmptySeq
    <3>2. k \in 0 .. n /\ k \in 0 .. Len(pend)
      BY <1>1, <1>4, <3>1
    <3> HIDE DEF f
    <3>3. out' = out \o SubSeq(pend, 1, k)
      BY <1>1, <1>5, <3>1, <3>2
    <3> QED
      BY <3>2, <3>3
  <2>3. reclen > 0 \/ reclen = 0
    BY <1>3
  <2> QED
    BY <2>1, <2>2, <2>3
<1>7. Exact(out', want, headers)
  <2>1. CASE out' = out
    BY <2>1 DEF RelayInv
  <2>2. ASSUME NEW j \in 0 .. Len(pend), \/ out' = out \o SubSeq(pend, 1, j)
                                         \/ out' = (out \o <<Made>>) \o SubSeq(pend, 1, j)
        PROVE  Exact(out', want, headers)
    <3>1. Pipe(out', SubSeq(pend, j + 1, Len(pend)) \o ubuf, want, headers, 2 * cread)
      BY <1>2, <2>2, Sends
    <3> QED
      BY <3>1, PipeExact
  <2> QED
    BY <1>6, <2>1, <2>2
<1> QED
  BY <1>2, <1>7 DEF RelayInv

LEMMA ReturnKeeps ==
    ASSUME RelayInv, WriteReturns
    PROVE  RelayInv'
<1>1. /\ rpc = "write" /\ pend = <<>> /\ nr' = 0 /\ nw' = 0 /\ wmode' = "whole"
      /\ rpc' = IF nr = nw THEN "read" ELSE "ended"
      /\ why' = IF nr = nw THEN why ELSE "count"
      /\ UNCHANGED <<strategy, cread, inspected, ubuf, pend, reclen, out, want, headers>>
  BY DEF WriteReturns, engines
<1>2. strategy # "tls" => nr = nw
  <2>1. Len(pend) = 0 /\ nw \in Nat /\ nr \in Nat
    BY <1>1 DEF RelayInv
  <2> QED
    BY <1>1, <2>1 DEF RelayInv
<1>3. CASE nr = nw
  BY <1>1, <1>3 DEF RelayInv
<1>4. CASE nr # nw
  BY <1>1, <1>2, <1>4 DEF RelayInv
<1> QED
  BY <1>3, <1>4

LEMMA NextRelay == RelayAssumption /\ RelayInv /\ [Next]_rvars => RelayInv'
<1> SUFFICES ASSUME RelayAssumption, RelayInv, [Next]_rvars PROVE RelayInv'
  OBVIOUS
<1>1. ASSUME NEW s \in {"fixed", "random", "tls"}, StartRelay(s) PROVE RelayInv'
  BY <1>1 DEF StartRelay, RelayInv
<1>2. CASE SetEnabled
  BY <1>2 DEF SetEnabled, RelayInv
<1>3. CASE ReadRest \/ ReadEOF \/ WriteReturns
  BY <1>3, RestKeeps, EOFKeeps, ReturnKeeps
<1>4. ASSUME NEW n \in 1 .. Total, InspectFirst(n) \/ ReadClient(n) PROVE RelayInv'
  BY <1>4, InspectKeeps, ClientKeeps
<1>5. ASSUME NEW n \in Cuts, WriteFragment(n) \/ WriteFails(n) PROVE RelayInv'
  BY <1>5, FragmentKeeps, FailureKeeps
<1>6. CASE UNCHANGED rvars
  BY <1>6 DEF rvars, RelayInv
<1> QED
  BY <1>1, <1>2, <1>3, <1>4, <1>5, <1>6 DEF Next
=============================================================================

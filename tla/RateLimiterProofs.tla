------------------------- MODULE RateLimiterProofs -------------------------
(* Theorems about RateLimiter, for every set of waiters, sizes and rates    *)
(* and every resolution of the clock.                                       *)
EXTENDS RateLimiter, TLAPS

(* While nothing was refilled since the zero time, there are no tokens.     *)
AncientEmpty == age = Ancient => tokens = 0

(* The inductive invariant.                                                 *)
IInv == TypeOK /\ AncientEmpty

(* What integer division rounds away is less than one divisor.              *)
LEMMA DivFacts ==
    ASSUME NEW x \in Nat, NEW d \in Nat \ {0}
    PROVE  /\ x \div d \in Nat
           /\ d * (x \div d) <= x
           /\ x < d * (x \div d) + d
  OBVIOUS

(* Products of naturals, for the nonlinear terms below.                     *)
LEMMA ProductNat == \A a, b \in Nat : a * b \in Nat
  OBVIOUS

(* Multiplication keeps the order of naturals.                              *)
LEMMA Monotone == \A a, b, c \in Nat : a <= b => c * a <= c * b
  OBVIOUS

(* Multiplication distributes over sums and differences.                    *)
LEMMA Distribute == \A a, b, c \in Int : c * (a + b) = c * a + c * b /\ c * (a - b) = c * a - c * b
  OBVIOUS

----------------------------------------------------------------------------
(* Types.                                                                    *)

(* What refill computes, when the limiter has a rate.                        *)
LEMMA NewTokensFacts ==
    ASSUME LimiterAssumption, TypeOK, NEW new \in NewTokens
    PROVE  /\ new \in Int
           /\ age # Ancient => /\ new >= 0
                               /\ Second * new <= age * bytesPerSec
                               /\ age * bytesPerSec < Second * new + Second
           /\ age = Ancient => new \in {-1, Second * bytesPerSec}
<1> USE DEF LimiterAssumption
<1>1. bytesPerSec \in Nat /\ age \in Nat
  BY DEF TypeOK, Ancient
<1>2. age * bytesPerSec \in Nat /\ Second * bytesPerSec \in Nat
  BY <1>1, ProductNat
<1>3. CASE age # Ancient
  BY <1>1, <1>2, <1>3, DivFacts DEF NewTokens
<1>4. CASE age = Ancient
  BY <1>2, <1>4 DEF NewTokens
<1> QED
  BY <1>3, <1>4

(* What a waiter asks for is a natural number.                              *)
LEMMA WantNat ==
    ASSUME LimiterAssumption, TypeOK, NEW w \in Waiters
    PROVE  want[w] \in Nat
<1>1. want[w] \in Sizes \cup {0}
  BY DEF TypeOK
<1>2. CASE want[w] \in Sizes
  BY <1>2 DEF LimiterAssumption
<1>3. CASE want[w] = 0
  BY <1>3
<1> QED
  BY <1>1, <1>2, <1>3

(* NewRateLimiter establishes the invariant, enabled or not.                *)
LEMMA InitInv == ASSUME LimiterAssumption PROVE Init => IInv
<1> SUFFICES ASSUME Init PROVE IInv
  OBVIOUS
<1>1. PICK r \in Rates \cup {0} : NewRateLimiter(r)
  BY DEF Init
<1>2. r \in Nat /\ Second \in Nat \ {0}
  BY DEF LimiterAssumption
<1>3. /\ bytesPerSec \in Rates \cup {0} /\ maxBurst = bytesPerSec /\ tokens \in Nat
  BY <1>1, <1>2 DEF NewRateLimiter
<1>a. age \in 0 .. Ancient /\ (age = Ancient => tokens = 0)
  <2>1. CASE r > 0
    BY <1>1, <1>2, <2>1 DEF NewRateLimiter, Ancient
  <2>2. CASE ~(r > 0)
    BY <1>1, <1>2, <2>2 DEF NewRateLimiter, Ancient
  <2> QED
    BY <2>1, <2>2
<1>4. enabled \in BOOLEAN /\ (enabled => bytesPerSec > 0)
  <2>1. enabled = (r > 0) /\ bytesPerSec = r
    BY <1>1 DEF NewRateLimiter
  <2>2. enabled \in BOOLEAN
    BY <2>1
  <2>3. enabled => bytesPerSec > 0
    BY <2>1
  <2> QED
    BY <2>2, <2>3
<1>5. /\ want \in [Waiters -> Sizes \cup {0}] /\ sleep \in [Waiters -> Nat]
      /\ \A w \in Waiters : want[w] = 0
      /\ clock \in {0, 1}
  BY DEF Init
<1> QED
  BY <1>3, <1>a, <1>4, <1>5 DEF IInv, TypeOK, AncientEmpty

(* What refill does to the age of lastRefill.                                *)
LEMMA AgedFacts ==
    ASSUME LimiterAssumption, IInv, NEW new \in Int
    PROVE  /\ Aged(new) \in 0 .. Ancient
           /\ Refilled(new) \in Nat
           /\ Aged(new) = Ancient => Refilled(new) = 0
<1>1. Second \in Nat \ {0} /\ tokens \in Nat /\ maxBurst \in Nat /\ age \in 0 .. Ancient
  BY DEF LimiterAssumption, IInv, TypeOK
<1>2. age = Ancient => tokens = 0
  BY DEF IInv, AncientEmpty
<1>3. CASE new > 0
  BY <1>1, <1>3 DEF Aged, Refilled, Smaller, Ancient
<1>4. CASE ~(new > 0)
  BY <1>1, <1>2, <1>4 DEF Aged, Refilled
<1> QED
  BY <1>3, <1>4

(* SetRate, Disable, Wait and the clock keep the invariant.                 *)
LEMMA NextInv == ASSUME LimiterAssumption PROVE IInv /\ [Next]_vars => IInv'
<1> SUFFICES ASSUME IInv, [Next]_vars PROVE IInv'
  OBVIOUS
<1> USE DEF LimiterAssumption, IInv, TypeOK, AncientEmpty, Ancient
<1>1. ASSUME NEW r \in Rates, SetRate(r) PROVE IInv'
  BY <1>1 DEF SetRate
<1>2. CASE Disable
  BY <1>2 DEF Disable
<1>3. ASSUME NEW w \in Waiters, NEW n \in Sizes, CallWait(w, n) PROVE IInv'
  BY <1>3 DEF CallWait
<1>4. ASSUME NEW w \in Waiters, WaitGrant(w) PROVE IInv'
  <2>1. PICK new \in NewTokens : /\ Refilled(new) >= want[w]
                                 /\ tokens' = Refilled(new) - want[w]
                                 /\ age' = Aged(new)
    BY <1>4 DEF WaitGrant
  <2>2. new \in Int
    BY NewTokensFacts
  <2>3. want[w] \in Nat \ {0}
    BY <1>4 DEF WaitGrant
  <2>4. age' \in 0 .. Ancient /\ tokens' \in Nat /\ age' # Ancient
    BY <2>1, <2>2, <2>3, AgedFacts
  <2>5. /\ want' \in [Waiters -> Sizes \cup {0}]
        /\ \A v \in Waiters : want'[v] # 0 => want[v] # 0
        /\ UNCHANGED <<bytesPerSec, maxBurst, enabled, sleep, clock>>
    BY <1>4 DEF WaitGrant
  <2> HIDE DEF Ancient
  <2> QED
    BY <2>4, <2>5
<1>5. ASSUME NEW w \in Waiters, WaitSleep(w) PROVE IInv'
  <2>1. PICK new \in NewTokens :
          /\ Refilled(new) < want[w]
          /\ tokens' = Refilled(new)
          /\ age' = Aged(new)
          /\ LET nap == ((want[w] - Refilled(new)) * Second) \div bytesPerSec
             IN  sleep' = [sleep EXCEPT ![w] = IF nap < 1 THEN 1 ELSE nap]
    BY <1>5 DEF WaitSleep
  <2>2. new \in Int
    BY NewTokensFacts
  <2>3. tokens' \in Nat
    BY <2>1, <2>2, AgedFacts
  <2>4. age' \in 0 .. Ancient /\ (age' = Ancient => tokens' = 0)
    BY <2>1, <2>2, AgedFacts
  <2>a. bytesPerSec \in Nat \ {0} /\ want[w] \in Nat
    <3>1. want[w] # 0
      BY <1>5 DEF WaitSleep
    <3>2. bytesPerSec > 0
      BY <3>1
    <3>3. bytesPerSec \in Nat
      OBVIOUS
    <3>4. want[w] \in Nat
      BY WantNat
    <3> HIDE DEF IInv
    <3> QED
      BY <3>2, <3>3, <3>4
  <2>b. Refilled(new) \in Nat /\ Refilled(new) < want[w]
    BY <2>1, <2>2, AgedFacts
  <2>5. bytesPerSec \in Nat \ {0} /\ want[w] - Refilled(new) \in Nat
    BY <2>a, <2>b
  <2>6. (want[w] - Refilled(new)) * Second \in Nat
    BY <2>5, ProductNat
  <2>7. ((want[w] - Refilled(new)) * Second) \div bytesPerSec \in Nat
    BY <2>5, <2>6, DivFacts
  <2>8. sleep' \in [Waiters -> Nat]
    BY <2>1, <2>7
  <2> QED
    BY <1>5, <2>3, <2>4, <2>8 DEF WaitSleep
<1>6. CASE Tick
  <2>1. sleep' \in [Waiters -> Nat]
    BY <1>6 DEF Tick
  <2>2. age' \in 0 .. Ancient /\ (age' = Ancient => age = Ancient)
    BY <1>6 DEF Tick
  <2> QED
    BY <1>6, <2>1, <2>2 DEF Tick
<1>7. CASE UNCHANGED vars
  BY <1>7 DEF vars
<1> QED
  BY <1>1, <1>2, <1>3, <1>4, <1>5, <1>6, <1>7 DEF Next

(* The fields of the limiter keep their types; no wait divides by zero.     *)
THEOREM TypeCorrect == ASSUME LimiterAssumption PROVE Spec => []TypeOK
<1>1. IInv => TypeOK
  BY DEF IInv
<1>2. Init => IInv
  BY InitInv
<1>3. IInv /\ [Next]_vars => IInv'
  BY NextInv
<1> QED
  BY <1>1, <1>2, <1>3, PTL DEF Spec

----------------------------------------------------------------------------
(* The limiter implements the bucket.                                        *)

(* What is known of the numbers in every reachable state.                    *)
LEMMA Numbers ==
    ASSUME LimiterAssumption, IInv
    PROVE  /\ Second \in Nat \ {0} /\ bytesPerSec \in Nat /\ maxBurst = bytesPerSec
           /\ tokens \in Nat /\ age \in Nat /\ age <= Second + 1
           /\ Smaller(age, Second) \in Nat
           /\ age * bytesPerSec \in Nat /\ Second * bytesPerSec \in Nat
           /\ Smaller(age, Second) * bytesPerSec \in Nat
           /\ Second * tokens \in Nat
<1>1. /\ Second \in Nat \ {0} /\ bytesPerSec \in Nat /\ maxBurst = bytesPerSec
      /\ tokens \in Nat /\ age \in Nat /\ age <= Second + 1
  BY DEF LimiterAssumption, IInv, TypeOK, Ancient
<1>2. Smaller(age, Second) \in Nat
  BY <1>1 DEF Smaller
<1> QED
  BY <1>1, <1>2, ProductNat

(* An iteration of Wait pays for what it grants: after a refill the tokens   *)
(* less n leave at least Second * n less potential than there was.  With n   *)
(* zero, a refill by itself creates no credit.                               *)
LEMMA RefillPays ==
    ASSUME LimiterAssumption, IInv, bytesPerSec > 0, NEW new \in NewTokens, NEW n \in Nat, Refilled(new) >= n
    PROVE  /\ PotentialAt(Refilled(new) - n, Aged(new)) \in Nat
           /\ PotentialAt(Refilled(new) - n, Aged(new)) + Second * n <= Potential
<1> DEFINE e == Smaller(age, Second)
           tk == Refilled(new)
<1>1. /\ Second \in Nat \ {0} /\ bytesPerSec \in Nat /\ maxBurst = bytesPerSec
      /\ tokens \in Nat /\ age \in Nat /\ age <= Second + 1
      /\ e \in Nat /\ age * bytesPerSec \in Nat /\ Second * bytesPerSec \in Nat
      /\ e * bytesPerSec \in Nat /\ Second * tokens \in Nat
  BY Numbers
<1>2. /\ new \in Int
      /\ age # Ancient => /\ new >= 0
                          /\ Second * new <= age * bytesPerSec
                          /\ age * bytesPerSec < Second * new + Second
      /\ age = Ancient => new \in {-1, Second * bytesPerSec}
  BY NewTokensFacts DEF IInv
<1>3. age # Ancient => e = age
  BY <1>1 DEF Ancient, Smaller
<1>4. age = Ancient => e = Second /\ tokens = 0
  BY <1>1 DEF Ancient, Smaller, IInv, AncientEmpty
<1>5. tk \in Nat /\ Second * n \in Nat /\ tk - n \in Nat /\ Second * (tk - n) \in Nat
  BY <1>1, <1>2, ProductNat, AgedFacts
<1>6. Second * (tk - n) = Second * tk - Second * n
  BY <1>1, <1>5, Distribute
<1>7. CASE new > 0
  <2>1. tk = Smaller(tokens + new, bytesPerSec) /\ Aged(new) = 0
    BY <1>1, <1>7 DEF Refilled, Aged
  <2>2. Smaller(0, Second) * bytesPerSec = 0
    BY <1>1 DEF Smaller
  <2>3. PotentialAt(tk - n, 0) = Second * (tk - n)
    <3>1. tk - n <= bytesPerSec
      BY <2>1, <1>1, <1>2, <1>5 DEF Smaller
    <3>2. Second * (tk - n) <= Second * bytesPerSec
      BY <3>1, <1>1, <1>5, Monotone
    <3> QED
      BY <2>2, <3>2, <1>1, <1>5 DEF PotentialAt, Smaller
  <2>4. Second * tk <= Potential
    <3>1. Second * tk <= Second * bytesPerSec
      BY <2>1, <1>1, <1>2, <1>5, Monotone DEF Smaller
    <3>2. CASE tokens > bytesPerSec
      <4>1. Second * bytesPerSec <= Second * tokens
        BY <3>2, <1>1, Monotone
      <4>2. Potential \in Int /\ Potential >= Second * tokens
        BY <3>2, <1>1 DEF Potential, PotentialAt, Smaller
      <4> HIDE DEF e, tk
      <4> QED
        BY <3>1, <4>1, <4>2, <1>1, <1>5
    <3>3. CASE ~(tokens > bytesPerSec)
      <4>1. Second * tk <= Second * tokens + e * bytesPerSec
        <5>1. CASE age = Ancient
          BY <5>1, <3>1, <1>1, <1>4
        <5>2. CASE age # Ancient
          <6>1. tk <= tokens + new
            BY <2>1, <1>1, <1>2, <1>7 DEF Smaller
          <6>2. Second * tk <= Second * (tokens + new)
            BY <6>1, <1>1, <1>2, <1>5, <1>7, Monotone
          <6>3. Second * (tokens + new) = Second * tokens + Second * new
            BY <1>1, <1>2, Distribute
          <6>4. Second * new <= e * bytesPerSec
            BY <5>2, <1>2, <1>3
          <6> QED
            BY <6>2, <6>3, <6>4, <1>1, <1>2, <1>5
        <5> QED
          BY <5>1, <5>2
      <4>2. Potential = Smaller(Second * tokens + e * bytesPerSec,
                                Second * bytesPerSec + Second - 1)
        BY <3>3, <1>1 DEF Potential, PotentialAt
      <4> HIDE DEF e, tk
      <4> QED
        BY <3>1, <4>1, <4>2, <1>1, <1>5 DEF Smaller
    <3> QED
      BY <3>2, <3>3
  <2> HIDE DEF e, tk
  <2>5. PotentialAt(tk - n, Aged(new)) = Second * (tk - n)
    BY <2>1, <2>3
  <2>6. Potential \in Int
    BY <1>1 DEF Potential, PotentialAt, Smaller, e
  <2>7. PotentialAt(tk - n, Aged(new)) \in Nat /\ PotentialAt(tk - n, Aged(new)) + Second * n <= Potential
    BY <2>4, <2>5, <2>6, <1>1, <1>5, <1>6
  <2> QED
    BY <2>7 DEF tk
<1>8. CASE ~(new > 0)
  <2>1. tk = tokens /\ Aged(new) = age
    BY <1>8 DEF Refilled, Aged
  <2>2. CASE age = Ancient
    <3>1. tokens - n = tokens /\ n = 0
      BY <2>1, <2>2, <1>1, <1>4, <1>5
    <3>2. PotentialAt(tk - n, Aged(new)) = Potential
      BY <2>1, <3>1 DEF Potential
    <3>3. Potential \in Nat
      BY <1>1 DEF Potential, PotentialAt, Smaller
    <3>4. Second * n = 0
      BY <3>1, <1>1
    <3> QED
      BY <3>2, <3>3, <3>4
  <2>3. CASE age # Ancient
    <3>1. new = 0
      BY <2>3, <1>2, <1>8
    <3>2. e * bytesPerSec <= Second - 1
      BY <2>3, <3>1, <1>1, <1>2, <1>3
    <3>3. ASSUME NEW k \in Nat, Second * k \in Nat
          PROVE  PotentialAt(k, age) = Second * k + (IF k > bytesPerSec THEN Second - 1
                                                                        ELSE e * bytesPerSec)
      <4>1. CASE k > bytesPerSec
        BY <4>1, <1>1 DEF PotentialAt
      <4>2. CASE ~(k > bytesPerSec)
        <5>1. Second * k <= Second * bytesPerSec
          BY <4>2, <1>1, Monotone
        <5>2. PotentialAt(k, age) = Smaller(Second * k + e * bytesPerSec,
                                            Second * bytesPerSec + Second - 1)
          BY <4>2, <1>1 DEF PotentialAt
        <5> HIDE DEF e
        <5> QED
          BY <4>2, <3>2, <3>3, <5>1, <5>2, <1>1 DEF Smaller
      <4> QED
        BY <4>1, <4>2
    <3>4. Potential = Second * tokens + (IF tokens > bytesPerSec THEN Second - 1 ELSE e * bytesPerSec)
      BY <3>3, <1>1 DEF Potential
    <3>5. PotentialAt(tk - n, age) = Second * (tk - n) + (IF tk - n > bytesPerSec THEN Second - 1
                                                                                ELSE e * bytesPerSec)
      BY <3>3, <1>5
    <3> HIDE DEF e, tk
    <3>6. PotentialAt(tk - n, Aged(new)) \in Nat /\ PotentialAt(tk - n, Aged(new)) + Second * n <= Potential
      BY <2>1, <3>2, <3>4, <3>5, <1>1, <1>5, <1>6
    <3> QED
      BY <3>6 DEF tk
  <2> QED
    BY <2>2, <2>3
<1> QED
  BY <1>2, <1>7, <1>8

(* The level of the abstract bucket is a natural number.                    *)
LEMMA PotentialNat == ASSUME LimiterAssumption PROVE IInv => Potential \in Nat
  BY Numbers DEF Potential, PotentialAt, Smaller

(* A new limiter is a bucket that holds at most one second's burst.         *)
LEMMA InitBucket == ASSUME LimiterAssumption PROVE Init => Bucket!BucketInit
<1> SUFFICES ASSUME Init PROVE Bucket!BucketInit
  OBVIOUS
<1>1. PICK r \in Rates \cup {0} : NewRateLimiter(r)
  BY DEF Init
<1>2. IInv
  BY InitInv
<1>3. Potential = Second * bytesPerSec
  <2>1. bytesPerSec = r /\ tokens = r /\ maxBurst = r /\ r \in Nat
    BY <1>1 DEF LimiterAssumption, NewRateLimiter
  <2>2. Smaller(age, Second) * bytesPerSec = 0
    <3>1. CASE r > 0
      BY <1>1, <3>1, <2>1 DEF LimiterAssumption, NewRateLimiter, Smaller
    <3>2. CASE r = 0
      BY <3>2, <2>1, <1>2, Numbers
    <3> QED
      BY <3>1, <3>2, <2>1
  <2> QED
    BY <2>1, <2>2, <1>2, Numbers DEF Potential, PotentialAt, Smaller
<1>4. bytesPerSec \in Rates \cup {0} /\ want = [w \in Waiters |-> 0] /\ clock = 0
  BY <1>1 DEF Init, NewRateLimiter
<1> QED
  BY <1>2, <1>3, <1>4, Numbers DEF Bucket!BucketInit

(* Every step of the limiter is a step of the bucket or none.               *)
LEMMA NextBucket ==
    ASSUME LimiterAssumption
    PROVE  IInv /\ IInv' /\ [Next]_vars => [Bucket!BucketNext]_(Bucket!bucketVars)
<1>0. (IInv => Potential \in Nat)'
  <2>1. IInv => Potential \in Nat
    BY PotentialNat
  <2> QED
    BY <2>1, PTL
<1> SUFFICES ASSUME IInv, IInv', [Next]_vars
             PROVE  [Bucket!BucketNext]_(Bucket!bucketVars)
  OBVIOUS
<1>n. Potential \in Nat /\ Potential' \in Nat
  <2> QED
    BY <1>0, PotentialNat
<1>1. ASSUME NEW r \in Rates, SetRate(r)
      PROVE  Bucket!Reconfigure(r) \/ UNCHANGED Bucket!bucketVars
  <2>1. bytesPerSec' = r /\ maxBurst' = r /\ UNCHANGED <<tokens, age, want, clock>>
    BY <1>1 DEF SetRate
  <2>2. CASE r = bytesPerSec
    <3>1. UNCHANGED <<bytesPerSec, maxBurst, tokens, age, want, clock>>
      BY <2>1, <2>2, Numbers
    <3> QED
      BY <3>1 DEF Bucket!bucketVars, Potential, PotentialAt, Smaller
  <2>3. CASE r # bytesPerSec
    <3>1. r \in Nat /\ Second \in Nat \ {0} /\ Smaller(age, Second) \in Nat
      BY Numbers DEF LimiterAssumption
    <3>2. Second * r \in Nat /\ Smaller(age, Second) * r \in Nat
      BY <3>1, ProductNat
    <3>3. Second * tokens <= Potential
      <4>1. ~(tokens > bytesPerSec) => Second * tokens <= Second * bytesPerSec
        BY Numbers, Monotone
      <4> QED
        BY <4>1, Numbers DEF Potential, PotentialAt, Smaller
    <3>4. Potential' = IF tokens > r
                         THEN Second * tokens + Second - 1
                         ELSE Smaller(Second * tokens + Smaller(age, Second) * r, Second * r + Second - 1)
      BY <2>1 DEF Potential, PotentialAt, Smaller
    <3>5. Potential' <= (IF Potential >= Second * r THEN Potential ELSE Second * r) + Second - 1
      BY <3>1, <3>2, <3>3, <3>4, <1>n, Numbers DEF Smaller
    <3> QED
      BY <2>1, <2>3, <3>1, <3>2, <3>5, <1>n DEF Bucket!Reconfigure, Bucket!Larger
  <2> QED
    BY <2>2, <2>3
<1>2. CASE Disable
  <2>1. UNCHANGED <<bytesPerSec, tokens, maxBurst, age, want, clock>>
    BY <1>2 DEF Disable
  <2> QED
    BY <2>1 DEF Bucket!bucketVars, Potential, PotentialAt, Smaller
<1>3. ASSUME NEW w \in Waiters, NEW n \in Sizes, CallWait(w, n) PROVE Bucket!Request(w, n)
  BY <1>3 DEF CallWait, Bucket!Request, Potential, PotentialAt, Smaller
<1>4. ASSUME NEW w \in Waiters, WaitGrant(w) PROVE Bucket!Grant(w)
  <2>1. PICK new \in NewTokens : /\ Refilled(new) >= want[w]
                                 /\ tokens' = Refilled(new) - want[w]
                                 /\ age' = Aged(new)
    BY <1>4 DEF WaitGrant
  <2>2. UNCHANGED <<bytesPerSec, maxBurst, clock>> /\ want[w] # 0 /\ want' = [want EXCEPT ![w] = 0]
    BY <1>4 DEF WaitGrant
  <2>3. bytesPerSec > 0 /\ want[w] \in Nat
    <3>1. bytesPerSec > 0
      BY <2>2 DEF IInv, TypeOK
    <3>2. want[w] \in Nat
      BY WantNat DEF IInv
    <3> QED
      BY <3>1, <3>2
  <2>4. Potential' = PotentialAt(Refilled(new) - want[w], Aged(new))
    BY <2>1, <2>2 DEF Potential, PotentialAt, Smaller
  <2>5. Potential' + Second * want[w] <= Potential
    BY <2>1, <2>3, <2>4, RefillPays
  <2>6. Second * want[w] \in Nat
    BY <2>3, ProductNat DEF LimiterAssumption
  <2>7. Potential' \in 0 .. Potential - Second * want[w]
    BY <2>5, <2>6, <1>n
  <2> QED
    BY <2>2, <2>7 DEF Bucket!Grant
<1>5. ASSUME NEW w \in Waiters, WaitSleep(w) PROVE Bucket!Lose
  <2>1. PICK new \in NewTokens : /\ tokens' = Refilled(new)
                                 /\ age' = Aged(new)
    BY <1>5 DEF WaitSleep
  <2>2. UNCHANGED <<bytesPerSec, maxBurst, want, clock>> /\ want[w] # 0
    BY <1>5 DEF WaitSleep
  <2>3. bytesPerSec > 0
    BY <2>2 DEF IInv, TypeOK
  <2>4. new \in Int
    BY NewTokensFacts DEF IInv
  <2>5. Refilled(new) \in Nat /\ Refilled(new) - 0 = Refilled(new)
    BY <2>4, AgedFacts
  <2>6. Potential' = PotentialAt(Refilled(new) - 0, Aged(new))
    BY <2>1, <2>2, <2>5 DEF Potential, PotentialAt, Smaller
  <2>7. Potential' + Second * 0 <= Potential
    BY <2>3, <2>5, <2>6, RefillPays
  <2>a. Second * 0 = 0
    BY DEF LimiterAssumption
  <2>8. Potential' <= Potential
    BY <2>7, <2>a, <1>n
  <2> QED
    BY <2>2, <2>8, <1>n DEF Bucket!Lose
<1>6. CASE Tick
  <2>1. UNCHANGED <<bytesPerSec, tokens, maxBurst, want>> /\ clock' = 1 - clock
    BY <1>6 DEF Tick
  <2>2. age' = IF age < Second THEN age + 1 ELSE age
    BY <1>6 DEF Tick
  <2>3. \/ Smaller(age', Second) = Smaller(age, Second)
        \/ Smaller(age', Second) = Smaller(age, Second) + 1
    BY <2>2, Numbers DEF Smaller
  <2>4. /\ Smaller(age', Second) * bytesPerSec \in Nat
        /\ Smaller(age, Second) * bytesPerSec <= Smaller(age', Second) * bytesPerSec
        /\ Smaller(age', Second) * bytesPerSec <= Smaller(age, Second) * bytesPerSec + bytesPerSec
    BY <2>3, Numbers
  <2>5. Potential' = PotentialAt(tokens, age')
    BY <2>1 DEF Potential, PotentialAt, Smaller
  <2>6. Potential' <= Potential + bytesPerSec /\ Potential' <= Bucket!Larger(Potential, Bucket!Full(bytesPerSec))
    <3>1. CASE tokens > bytesPerSec
      <4>1. Potential' = Potential
        BY <3>1, <2>5, Numbers DEF Potential, PotentialAt
      <4> QED
        BY <4>1, <1>n, Numbers DEF Bucket!Larger, Bucket!Full
    <3>2. CASE ~(tokens > bytesPerSec)
      BY <3>2, <2>4, <2>5, <1>n, Numbers DEF Potential, PotentialAt, Smaller, Bucket!Larger, Bucket!Full
    <3> QED
      BY <3>1, <3>2
  <2>7. Bucket!Elapse
    BY <2>1, <2>6, <1>n, Numbers DEF Bucket!Elapse
  <2> QED
    BY <2>7 DEF Bucket!BucketNext
<1>7. CASE UNCHANGED vars
  BY <1>7 DEF vars, Bucket!bucketVars, Potential, PotentialAt, Smaller
<1> QED
  BY <1>1, <1>2, <1>3, <1>4, <1>5, <1>6, <1>7 DEF Next, Bucket!BucketNext

(* Every behaviour of the limiter is one of the token bucket: what is        *)
(* granted never exceeds what the rate has earned.                           *)
THEOREM LimiterImplementsBucket == ASSUME LimiterAssumption PROVE Spec => ImplementsBucket
<1>1. Init => IInv /\ Bucket!BucketInit
  BY InitInv, InitBucket
<1>2. IInv /\ [Next]_vars => IInv'
  BY NextInv
<1>3. IInv /\ IInv' /\ [Next]_vars => [Bucket!BucketNext]_(Bucket!bucketVars)
  BY NextBucket
<1> QED
  BY <1>1, <1>2, <1>3, PTL DEF Spec, ImplementsBucket, Bucket!BucketSpec
=============================================================================

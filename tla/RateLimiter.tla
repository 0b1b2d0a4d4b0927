---------------------------- MODULE RateLimiter ----------------------------
(***************************************************************************)
(* The token bucket of core/go/internal/proxy/rate_limiter.go that bounds   *)
(* the bandwidth of all the relays of a proxy server.  The goroutines of    *)
(* the relays call Wait through RateLimitedReader and RateLimitedWriter,    *)
(* the daemon calls SetRate.                                                *)
(*                                                                          *)
(* Time is a number of ticks, Second of them to the second.  Instead of     *)
(* lastRefill the model keeps its age.  It stops growing at one second:     *)
(* maxBurst is what the rate yields in one second, so the bucket is full at *)
(* that age and at every greater one.                                       *)
(***************************************************************************)
EXTENDS Integers

CONSTANTS
    Waiters,       \* the goroutines that call Wait
    Sizes,         \* the byte counts they pass
    Rates,         \* the positive rates that SetRate is given
    Second,        \* ticks in a second
    OverflowRate   \* rates at which refill overflows int64 on the zero time

LimiterAssumption ==
    /\ Sizes \subseteq Nat \ {0}
    /\ Rates \subseteq Nat \ {0}
    /\ Second \in Nat \ {0}
    /\ OverflowRate \in Nat

VARIABLES
    bytesPerSec, tokens, maxBurst, enabled,   \* the fields of RateLimiter
    age,           \* time since lastRefill, or Ancient when that is the zero time
    want,          \* the n of each waiter's Wait, 0 when it is in none
    sleep,         \* ticks each waiter still sleeps before its next iteration
    clock          \* the parity of the clock, which makes its ticks visible

vars == <<bytesPerSec, tokens, maxBurst, enabled, age, want, sleep, clock>>

Ancient == Second + 1

Smaller(a, b) == IF a <= b THEN a ELSE b

(* NewRateLimiter: a disabled limiter has the zero value in all its fields. *)
NewRateLimiter(r) ==
    /\ bytesPerSec = r /\ tokens = r /\ maxBurst = r
    /\ enabled = (r > 0)
    /\ age = IF r > 0 THEN 0 ELSE Ancient

Init ==
    /\ \E r \in Rates \cup {0} : NewRateLimiter(r)
    /\ want = [w \in Waiters |-> 0]
    /\ sleep = [w \in Waiters |-> 0]
    /\ clock = 0

(* What refill computes.  The time since the zero time is the largest       *)
(* Duration, 292 years: more than a full bucket at any rate, unless the     *)
(* product does not fit an int64.  The conversion then yields the least     *)
(* int64 on amd64 and the greatest one on arm64.                            *)
NewTokens ==
    IF age # Ancient THEN {(age * bytesPerSec) \div Second}
    ELSE IF bytesPerSec < OverflowRate THEN {Second * bytesPerSec}
    ELSE {-1, Second * bytesPerSec}

(* Mutations: lastRefill is never moved, or moved when nothing was added.   *)
AgedNever(new)  == age
AgedAlways(new) == 0

(* refill, given newTokens: the tokens it leaves, and the age of lastRefill.*)
Refilled(new) == IF new > 0 THEN Smaller(tokens + new, maxBurst) ELSE tokens
Aged(new)     == IF new > 0 THEN 0 ELSE age

(* SetRate; a rate that is not positive only disables the limiter.          *)
SetRate(r) ==
    /\ bytesPerSec' = r
    /\ maxBurst' = r
    /\ enabled' = TRUE
    /\ UNCHANGED <<tokens, age, want, sleep, clock>>

Disable ==
    /\ enabled' = FALSE
    /\ UNCHANGED <<bytesPerSec, tokens, maxBurst, age, want, sleep, clock>>

(* Wait, called by a RateLimitedWriter before it writes n bytes or by a     *)
(* RateLimitedReader after it read n, passes its first test.                *)
CallWait(w, n) ==
    /\ want[w] = 0
    /\ enabled
    /\ want' = [want EXCEPT ![w] = n]
    /\ UNCHANGED <<bytesPerSec, tokens, maxBurst, enabled, age, sleep, clock>>

(* Mutation: the tokens are taken without a look at how many there are.     *)
WaitGrantUnchecked(w) ==
    /\ want[w] # 0 /\ sleep[w] = 0
    /\ \E new \in NewTokens : tokens' = Refilled(new) - want[w] /\ age' = Aged(new)
    /\ want' = [want EXCEPT ![w] = 0]
    /\ UNCHANGED <<bytesPerSec, maxBurst, enabled, sleep, clock>>

(* An iteration of the loop of Wait that finds enough tokens ...            *)
WaitGrant(w) ==
    /\ want[w] # 0 /\ sleep[w] = 0
    /\ \E new \in NewTokens :
          /\ Refilled(new) >= want[w]
          /\ tokens' = Refilled(new) - want[w]
          /\ age' = Aged(new)
    /\ want' = [want EXCEPT ![w] = 0]
    /\ UNCHANGED <<bytesPerSec, maxBurst, enabled, sleep, clock>>

(* ... and one that does not: it sleeps, a tick at least, for the time the  *)
(* deficit takes at the present rate.                                       *)
WaitSleep(w) ==
    /\ want[w] # 0 /\ sleep[w] = 0
    /\ \E new \in NewTokens :
          /\ Refilled(new) < want[w]
          /\ tokens' = Refilled(new)
          /\ age' = Aged(new)
          /\ LET nap == ((want[w] - Refilled(new)) * Second) \div bytesPerSec
             IN  sleep' = [sleep EXCEPT ![w] = IF nap < 1 THEN 1 ELSE nap]
    /\ UNCHANGED <<bytesPerSec, maxBurst, enabled, want, clock>>

Tick ==
    /\ age' = IF age < Second THEN age + 1 ELSE age
    /\ sleep' = [w \in Waiters |-> IF sleep[w] > 0 THEN sleep[w] - 1 ELSE 0]
    /\ clock' = 1 - clock
    /\ UNCHANGED <<bytesPerSec, tokens, maxBurst, enabled, want>>

Next ==
    \/ \E r \in Rates : SetRate(r)
    \/ Disable
    \/ \E w \in Waiters : WaitGrant(w) \/ WaitSleep(w) \/ \E n \in Sizes : CallWait(w, n)
    \/ Tick

Spec == Init /\ [][Next]_vars

(* Time passes, and a waiter that is awake and gets the mutex iterates.      *)
Fairness ==
    /\ WF_vars(Tick)
    /\ \A w \in Waiters : WF_vars(WaitGrant(w) \/ WaitSleep(w))

FairSpec == Spec /\ Fairness

----------------------------------------------------------------------------
(* The fields keep their types, an enabled limiter divides by a positive     *)
(* rate, and no grant takes the tokens below zero.                           *)
TypeOK ==
    /\ bytesPerSec \in Rates \cup {0} /\ maxBurst = bytesPerSec
    /\ tokens \in Nat
    /\ enabled \in BOOLEAN
    /\ age \in 0 .. Ancient
    /\ want \in [Waiters -> Sizes \cup {0}]
    /\ sleep \in [Waiters -> Nat]
    /\ clock \in {0, 1}
    /\ (enabled \/ \E w \in Waiters : want[w] # 0) => bytesPerSec > 0

(* The credit the limiter can still give with tk tokens and a lastRefill of  *)
(* age ag: the tokens and what the next refill adds to them.  After SetRate  *)
(* lowered maxBurst the tokens may exceed it until the next refill.          *)
PotentialAt(tk, ag) ==
    LET pending == Smaller(ag, Second) * bytesPerSec
    IN  IF tk > maxBurst
          THEN Second * tk + Second - 1
          ELSE Smaller(Second * tk + pending, Second * maxBurst + Second - 1)

Potential == PotentialAt(tokens, age)

Bucket == INSTANCE TokenBucket WITH level <- Potential, rate <- bytesPerSec

(* The limiter never grants more than a token bucket of one second's burst   *)
(* may: no interleaving of the waiters spends a token twice, no rounding     *)
(* and no idle time earns more than the rate does, and SetRate hands out at  *)
(* most one fresh burst.                                                     *)
ImplementsBucket == Bucket!BucketSpec

(* When every waiter waits for no more than the burst of any rate, one of    *)
(* them is served in the end; except by a limiter that was created disabled  *)
(* and was given a rate at which the first refill overflows.                 *)
SomeoneServed ==
    (\A w \in Waiters : want[w] # 0)
        ~> \/ \E w \in Waiters : want[w] = 0
           \/ age = Ancient /\ bytesPerSec >= OverflowRate

(* Wait returns: "blocks until enough tokens are available for n bytes".     *)
WaitReturns == \A w \in Waiters : want[w] # 0 ~> want[w] = 0
=============================================================================

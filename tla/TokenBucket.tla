---------------------------- MODULE TokenBucket ----------------------------
(***************************************************************************)
(* What a bandwidth limiter promises: a bucket of credit that fills at the  *)
(* configured rate up to one second's worth of it, and from which every     *)
(* granted request is paid.  Over any period the bytes granted are at most  *)
(* what the bucket held plus what flowed in.  Credit is counted in fractions*)
(* of a byte, Second of them to the byte, so that one tick of the clock adds*)
(* exactly rate to it.                                                      *)
(***************************************************************************)
EXTENDS Integers

CONSTANTS
    Waiters,     \* the goroutines that ask for bytes
    Sizes,       \* the numbers of bytes they ask for
    Rates,       \* the rates that may be configured, in bytes per second
    Second       \* ticks of the clock in a second

VARIABLES
    level,       \* the credit in the bucket
    rate,        \* the configured rate, 0 before the first one
    want,        \* what each waiter is asking for, 0 when it is not waiting
    clock        \* the parity of the clock, which makes its ticks visible

bucketVars == <<level, rate, want, clock>>

Larger(a, b) == IF a >= b THEN a ELSE b

(* A full bucket holds one second's bytes and less than one byte more.      *)
Full(r) == Second * r + Second - 1

BucketInit ==
    /\ rate \in Rates \cup {0}
    /\ level \in 0 .. Second * rate
    /\ want = [w \in Waiters |-> 0]
    /\ clock = 0

(* A tick adds at most rate and never takes the bucket above full.          *)
Elapse ==
    /\ level' \in 0 .. level + rate
    /\ level' <= Larger(level, Full(rate))
    /\ clock' = 1 - clock
    /\ UNCHANGED <<rate, want>>

(* Credit may be lost at any time.                                          *)
Lose ==
    /\ level' \in 0 .. level
    /\ UNCHANGED <<rate, want, clock>>

Request(w, n) ==
    /\ want[w] = 0
    /\ want' = [want EXCEPT ![w] = n]
    /\ UNCHANGED <<level, rate, clock>>

Grant(w) ==
    /\ want[w] # 0
    /\ level' \in 0 .. level - Second * want[w]
    /\ want' = [want EXCEPT ![w] = 0]
    /\ UNCHANGED <<rate, clock>>

(* A new rate may come with a full bucket of its own, or with the old       *)
(* credit and less than one byte more.                                      *)
Reconfigure(r) ==
    /\ r # rate
    /\ rate' = r
    /\ level' \in 0 .. Larger(level, Second * r) + Second - 1
    /\ UNCHANGED <<want, clock>>

BucketNext ==
    \/ Elapse \/ Lose
    \/ \E w \in Waiters : Grant(w) \/ \E n \in Sizes : Request(w, n)
    \/ \E r \in Rates : Reconfigure(r)

BucketSpec == BucketInit /\ [][BucketNext]_bucketVars
=============================================================================

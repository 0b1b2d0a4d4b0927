\* One waiter asks for more than one second's bytes at the slower rate, as a
\* relay with its 32 KiB buffer does below 256 Kbit/s.
SPECIFICATION FairSpec
CONSTANTS
    Waiters = {w1}
    Sizes = {3}
    Rates = {2, 4}
    Second = 3
    OverflowRate = 5
PROPERTY WaitReturns

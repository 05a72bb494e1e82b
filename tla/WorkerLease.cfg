\* The lease with a clock: three workers, fences delayed by up to two ticks.
SPECIFICATION Spec
CONSTANTS
    Worker = {w1, w2, w3}
    Timeout = 3
    MaxDelay = 2
    MaxClock = 8
    None = None
INVARIANTS
    CallsAreExclusive

CONSTANTS
    i1 = i1
    i2 = i2
    p1 = p1
    t1 = t1
    zero = zero
    EventIds = {i1, i2}
    Events <- MCEvents
    Principals = {p1, Anonymous}
    Ticks = {t1, zero}
    Falsy = {zero}
    NoTimestamp = NoTimestamp
    NoTick = NoTick
    NoId = NoId
    Anonymous = Anonymous
    windowMs = 1
    bucketSizeMs = 2
    maxNoncesPerBucket = 2
    maxFutureMs = 1
    maxPastMs = 1
    capacity = 3
    refillRatePerMs = 1
    Token = 2
    rejectOnRateLimit = TRUE
    MaxTime = 5
SPECIFICATION Spec
INVARIANTS
    NeverFreshAgain
    NoEquivocation
    RateBounded
    NoncesBounded
CHECK_DEADLOCK FALSE

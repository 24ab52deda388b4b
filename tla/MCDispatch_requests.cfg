SPECIFICATION FairSpec
CONSTANTS
    Requests = {r1, r2}
    Deployments = {d1, d2}
    Group = {d1, d2}
    Large = {d2}
    Slots <- MCSlots
    Subjects = {s1, s2}
    Limit <- MCLimit
    Quote <- MCQuote
    Outcomes = {"ok", "upstream_5xx", "auth", "quota"}
    MaxHops = 1
    QueueWait = TRUE
    Hooks = TRUE
    Sweeps = TRUE
    FailureThreshold = 1
    Cooldown = 1
    HalfOpenProbes = 1
    AuthCooldown = 1
    RetryAfter = 1
    RateLimitCooldown = 1
    RateLimitCooldownMax = 2
    StrikeCap = 2
INVARIANTS SlotsMatch  
PROPERTIES Terminates

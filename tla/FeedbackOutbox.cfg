CONSTANTS
    r1 = r1
    r2 = r2
    r3 = r3
    visitor = visitor
    home = home
    away = away
    words = words
    Reports = {r1, r2, r3}
    Subject <- MCSubject
    Ip <- MCIp
    Content <- MCContent
    Mailers = {m}
    FREE = 1
    Limits <- MCLimits
    LEASE = 1
    BASE = 1
    DAY = 2
    WINDOW = 2
    LIFE = 3
    BATCH = 2
    MaxClock = 3
    MaxAttempts = 2
    MaxForce = 1
SPECIFICATION FBSpec
CHECK_DEADLOCK FALSE
INVARIANTS  MailIsKept

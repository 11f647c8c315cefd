SPECIFICATION SumSpec
CONSTANTS
    s1 = s1  s2 = s2  c1 = c1  c2 = c2  w1 = w1  w2 = w2
    Sessions <- TwoSessions
    RequestIds <- TwoIds
    Charges <- OneCharge
    MaxReadyBytes = 1
    Clients <- TwoClients
    Workers <- TwoWorkers
    Serves <- OwnSession
    NoSessionId = NoSessionId
    MaxOpens = 1
INVARIANTS
    PoolTypeOK
    NewestOnly
    RunOwnsSession
    QueuedAtMostOnce
    NoLostWakeup
    NoStrandedRequest
    ReadyBytesExact
    OthersAreSafe
PROPERTIES
    KeepsPromise
    RequeueOnlyForPending
    OthersGoOn
    MailboxKeepsPromise
CHECK_DEADLOCK FALSE

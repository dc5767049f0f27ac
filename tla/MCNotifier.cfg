CONSTANTS
    r1 = r1  r2 = r2  d1 = d1  d2 = d2  owner = owner
    Replicas = {r1, r2}
    Events = {1}
    Devices = {d1, d2}
    Accounts = {owner}
    Nobody = Nobody
    NoDevice = NoDevice
    Concerns <- MCConcerns
    BatchSize = 1
    MAX_RETRIES = 2
    MaxDisturbances = 1
SPECIFICATION FairSpec
CHECK_DEADLOCK FALSE
INVARIANTS PublishedReachedEveryDevice HistoryIsHonest
PROPERTIES EventsSettle ImplementsOutbox

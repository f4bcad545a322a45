SPECIFICATION FairSpec
CONSTANTS
    Host = {h1, h2}
    Sum = {s1, s2}
    Secrets = {s1, s2}
    NoSum = NoSum
    Gone = Gone
    Entry = {e1, e2, e3}
    NoEntry = NoEntry
    Readers = {reader}
    MaxChanges = 1
    Controllers = {"capacity", "webhook"}
    Subscribers = {"capacity"}
INVARIANTS
    OnlyServedRun
    AllSubscribed
PROPERTIES
    CacheAtomic
    StoreConverges
    ExitsOnSignal
CHECK_DEADLOCK FALSE

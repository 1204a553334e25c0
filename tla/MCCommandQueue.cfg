\* A Start and its Stop, one request thread, the worker, up to two attempts each.
SPECIFICATION FairSpec
CONSTANTS
    start = start
    stop = stop
    again = again
    alice = alice
    bob = bob
    NoRequest = NoRequest
    Requests = {start, stop}
    Stops = {stop}
    Author <- OneAuthor
    Supersedes <- PairSupersedes
    ApiThreads = {api}
    Workers = {worker}
    MaxAttempts = 2
INVARIANTS
    AlarmIffUnknown
    StopEmptiesQueue
    LateStartWithheld
PROPERTIES
    NoHastyRepeat
    EventuallyDecided
    KeepsPromise
\* Every command decided and no thread busy: the queue rests.
CHECK_DEADLOCK FALSE

\* Two connections and two goroutines, so that an abandoned goroutine meets the
\* next connection.
CONSTANTS
    k1 = k1  k2 = k2  w1 = w1  w2 = w2
    Conns = {k1, k2}
    Workers = {w1, w2}
    RetryNums <- AnyRetryNums
    MaxFaults = 1
SPECIFICATION FairSpec
INVARIANTS OneConnection ExchangesStayApart LimitIsKept
PROPERTIES Reconnects ConnectionsAreReleased
CHECK_DEADLOCK FALSE

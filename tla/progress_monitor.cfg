CONSTANTS
    a = a
    b = b
    Items = {a, b}
    attempts <- OneRetry
    max_iterations = 1
SPECIFICATION FairSpec
INVARIANTS ClosedAfterStop
PROPERTIES StallOfThisAttempt HungItemStopped

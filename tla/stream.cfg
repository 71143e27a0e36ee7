CONSTANT max_attempts = 2
SPECIFICATION StreamFairSpec
INVARIANTS EveryEventHandled
PROPERTIES LateStreamClosed CallEnds

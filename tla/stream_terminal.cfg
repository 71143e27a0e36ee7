CONSTANT max_attempts = 2
SPECIFICATION StreamSpec
INVARIANTS TextHasTerminal

CONSTANTS
    Turns <- MCTurns
    Bytes <- MCBytes
    Keeps <- MCKeeps
    Budgets = {1000, 3000}
    MaxEvents = 4
SPECIFICATION Spec
CHECK_DEADLOCK FALSE
INVARIANTS NothingLost StaysValid

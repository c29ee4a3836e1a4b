CONSTANT MaxAttempts = 16
SPECIFICATION Spec
PROPERTY BackoffNonDecreasing
CHECK_DEADLOCK FALSE

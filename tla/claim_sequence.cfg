\* Two processes of one oracle, two signals.
SPECIFICATION Spec
CONSTANTS
    MaxSignals = 2
    MaxStarts = 2
PROPERTY
    NumbersIncrease
CHECK_DEADLOCK FALSE

\* As 64 bits to 7 units of 10 bits and doubles of 53: a width that reaches
\* into the last unit, and numbers that a double has to round.  Every part of
\* totals about 100, 200 and 10000, where the percentages change.
CONSTANTS
    Width = 13
    Precision = 11
    KiloBits = 2
    Units = 7
    Totals = {0, 99, 100, 101, 150, 199, 200, 1000, 9999, 10000, 10001, 10099, 12345}
    Char = {a, hyphen, newline}
    HYPHEN = hyphen
    NUL = NUL
    MaxText = 6
SPECIFICATION Spec
INVARIANTS HumaneTells PercentClose BootIdBare
\* A behavior is one call.
CHECK_DEADLOCK FALSE

CONSTANTS
    Starts <- MCStarts
    MaxLen = 7
    Limit = 8
    MaxOrder = 4
    ToExpNeg <- MCToExpNeg
    ToExpPos = 3
SPECIFICATION Spec
INVARIANTS IntegersKept RoundTrip TruncationNoticed
CHECK_DEADLOCK FALSE

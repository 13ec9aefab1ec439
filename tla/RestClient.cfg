\* The limits of limits.go and client.go; a minute in which others use all
\* that is below the first margin.
CONSTANTS
    Cap = 6000
    Margins <- MCMargins
    Delays <- MCDelays
    MaxAttempts = 6
    Cost = 25
    Others = 5499
    RetryAfters = {0, 20}
    Latencies = {0, 1}
SPECIFICATION Spec
INVARIANTS
    WeightStaysUnderCap
    LimitErrorHasBody
PROPERTY RequestEnds

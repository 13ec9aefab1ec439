SPECIFICATION FairSpec
CONSTANTS
    NumMarkets = 1
    NumFrames = 1
    MaxTicks = 1
    MaxAsked = 1
INVARIANT TableIsRefreshed

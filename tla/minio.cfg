SPECIFICATION FairSpec
CONSTANT MaxOutages = 2
INVARIANT PairMatches
PROPERTY ManagedLive

SPECIFICATION FairSpec
CONSTANTS
    Keys <- MCKeys
    Limit = 2
INVARIANTS ListingIsComplete
PROPERTIES ListingEnds

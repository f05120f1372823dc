CONSTANTS
    Tunnels = {t1, t2}
    CandidateRanges <- Ranges
    ForeignNetworks <- Foreign
    BlockSize = 4
    MaxTries = 2
    None = None
SPECIFICATION FairSpec
INVARIANTS TypeOK ApartFromWhatWasUp
PROPERTY SearchEnds

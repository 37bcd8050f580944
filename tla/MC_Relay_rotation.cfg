CONSTANTS
    NUM_TAGS = 2
    Records = {r1, r2}
    Malformed = {}
    Short = {}
    Zeroed = Zeroed
    Garbage = Garbage
    None = None
    MaxRadioFailures = 0
SPECIFICATION FairSpec
INVARIANT AdvertisedIsSelected
PROPERTY StableStoreRotates
PROPERTY BeaconRefined

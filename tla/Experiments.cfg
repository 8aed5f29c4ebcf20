SPECIFICATION ExperimentsSpec
CONSTANTS
    Policies = {"formal", "core", "memory"}
    MaxHead = 2
    MaxCrashes = 1
    MaxChanges = 1
    MaxRepeats = 1
    Budget = 7
    Modes = {"open", "hotspot"}
    MaxPoints = 2
    MaxFaults = 1
    MaxLapses = 1
INVARIANTS
    CampaignsAreSound
    PassedCampaignIsWhole
    SamplesAreTrue
    NothingIsHandedOn
PROPERTIES
    PointEnds
CHECK_DEADLOCK FALSE

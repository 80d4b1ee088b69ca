CONSTANTS
    OurId = OurId
    NoId = NoId
    Unset = Unset
    NoPong = NoPong
    MaxStep = 1
    RangeLeft = 10
    StepInterval = 5
    MaxOffline = 1
    MaxCommand = 2
    MaxFault = 1
SPECIFICATION Spec
INVARIANTS
    TypeOK
    AnnouncedIsComplete
    QuietPlayerObeys
PROPERTIES
    ShownFollowsPlayer

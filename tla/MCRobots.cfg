SPECIFICATION RobotsSpec
CONSTANTS
    Described <- MCDescribed
    Protocols = {5, 6, 8, 9}
    MaxInFlight = 2
    MaxDrops = 2
    Code <- MCCode
    LineSets <- MCLineSets
    Capacity = 1
    MaxCommands = 3
    Layouts <- MCLayouts
    MemorySize = 4
    MaxRequest = 2
    MaxChanges = 3
    MaxLost = 1
    MaxReplies = 1
    PortOrder <- MCPortOrder
    Compatible = {"p", "q"}
    NoPort = "none"
    Platforms = {"osx", "win32"}
    MaxTroubles = 2
    UsbOrder <- MCUsbOrder
    NoDevice = "none"
    MaxUsbEvents = 3
    Contacts <- MCContacts
    SessionIds = {1, 2, 3}
    MaxAnnounced = 3
    PageCount = 3
    LinkKinds = {"serial", "usb"}
    MaxFailures = 3
    FwRobots = {"old", "new", "mid"}
    FwVersion <- MCFwVersion
    LastVersion = 14
    MaxHttpErrors = 1
    HeaderSize = 2
    ReadSize = 2
    Growth = 2
    PayloadSizes = {0, 1, 3}
    MaxMessages = 3
    MaxEarly = 2
    MaxPosted = 6
    MaxBatches = 3
    MaxSize = 3
    PingPeriod = 1
    CheckPeriod = 5
    Patience <- MCPatience
    Latency = 3
    MaxAbsences = 2
INVARIANTS
    DescriptionFaithful
    ViewFollowsNode
    UpgradeAlone
    UsbOffersFree
    OneEndpointPerContact
     
    MessagesIntact
    InOrder
    OneWrite
PROPERTIES
    DiscoveryCompletes
    ReportedAreSet CommandsAnswered
    WatcherConverges
    ServedInTheEnd
    UsbServedInTheEnd
    FirmwareArrives
    CancelEndsRead
    Delivered
    Answered
    ResponsiveKept FoundAgain
CHECK_DEADLOCK FALSE

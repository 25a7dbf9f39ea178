SPECIFICATION ClientsSpec
CONSTANTS
    e1 = e1
    e2 = e2
    r1 = r1
    r2 = r2
    NoRobot = NoRobot
    NoGroup = NoGroup
    Hosts <- MCHosts
    NativeIds <- MCNativeIds
    RobotNames <- MCRobotNames
    Files <- MCFiles
    EventNames = {"ev"}
    MaxSettings = 2
    MaxPosted = 1
    Clients = {"a", "b"}
    MachineLocal = {"a"}
    Thymios = {"r"}
    GroupId <- MCGroupId
    Menus <- MCMenus
    MaxLosses = 1
    Servers = {"tcp", "ws"}
    Interfaces <- MCInterfaces
    Peers <- MCPeers
    RemoteOption = {TRUE, FALSE}
    MaxConnections = 3
    DongleKeys = {"k1", "k2"}
    DongleIds = {1, 2}
    PairClients = {"c1", "c2"}
    PairRobots = {"new", "old"}
    RobotProtocol <- MCRobotProtocol
    Networks = {0, 1}
    Channels = {1, 3}
    MaxDongleEvents = 6
    PageSize = 4
    HexRecords <- MCHexRecords
    MaxRecords = 3
    Target <- MCTarget
    Common <- MCCommon
    Constants <- MCConstants
    Variables <- MCVariables
    Pieces <- MCPieces
    EventName = "tick"
    SubName = "s"
    MaxPieces = 2
    Inputs <- MCInputs
INVARIANTS
     PadsMatched CompletedIsLast
     WatchersCurrent
    AwakeUnlessDropped
     DonglesShown
    PagesFaithful
    CompiledMeaning
CHECK_DEADLOCK FALSE

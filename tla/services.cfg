SPECIFICATION Spec
CONSTANTS
    LabelConns = {"c1", "c2"}
    LabelNodes = {"n1", "n2"}
    FirstNode = "n1"
    LabelRequests <- LabelTexts
    LabelDefault <- DefaultText
    MaxLabelLen = 2
    MaxLabelRequests = 3
    MaxLabelFaults = 1
    CredentialNames = {"default", "delete", "", "home"}
    Networks = {"net1", "net2"}
    Secrets = {"", "pw"}
    MaxCredentialOps = 4
    IcdConns = {"c1", "c2"}
    IcdNodes = {"i1", "i2"}
    Vendors <- AdminVendors
    OurVendor = "ours"
    CounterRange = 2
    MaxKeys = 2
    MaxCheckIns = 2
    MaxIcdFaults = 1
    Hosts = {"h"}
    Slots = 1
    UploadTtl = 1
    CacheTtl = 1
    FirmwareVersions = {2, 3}
    FirstVersion = 1
    Blocks = 2
    MaxNow = 1
    MaxTickets = 1
    MaxBytes = 2
    MaxUpdates = 1
    MeshNodes = {"m1", "m2"}
    Anonymous = {"m1", "m2"}
    MaxConcurrent = 2
    AttemptsPerNode = 2
    ProbeAnswers <- RouterAnswers
    MaxSweeps = 2
    MaxStamps = 2
    MaxDiagFaults = 1
    Callers = {"k1", "k2"}
    Ops = {"local", "read", "write", "invoke", "ping"}
    ChannelSize = 1
    MaxCalls = 2
    MaxChunks = 2
    ContextPaths <- Contexts
    ContextKeys = {"k"}
    ImportIds = {1, 2}
    Peers <- PeerNames
    MaxLines = 3
    MaxSegments = 2
    TopoNodes <- MeshOrder
    ExtAddress <- MeshAddresses
    AccessPoints = {"ap"}
    Entries <- TableEntries
    Signals = {0}
    MaxTopoRefreshes = 1
    Answers <- Responses
    Interfaces <- InterfaceLists
    MaxAnswers = 3
    NameCells <- MessageCells
    NameLength = 3
    MaxJumps = 2
    MeshDevices <- MeshNodes_
    MaxSpoilt = 4
    Askers = {"c1", "c2"}
    Accessories = {"d1"}
    HighSpan = 2
    LowSpan = 2
    Draws = {1, 2, 7}
    PasscodeModulus = 4
    Forbidden = {1}
    MaxWindows = 2
    HttpRequests <- ClientRequests
    ChunkSize = 3
    MaxHeadLen = 8
    FabricIdentities = {"a", "b"}
    FabricCreationAttempts = 2
    MaxStarts = 3
    MaxKilledStarts = 2
INVARIANTS
    OneLabel
    CredentialsAreKept
    CheckInsAreHeardOnce
    ImagesAreGenuine
    SweepsAreSound
    AnswersAreTrue
    ImportIsFaithful
    GraphIsTrue
    BrowseIsWhole
    ItemsAreReadAlike
    CodesWork
    HeadEndsWhereItEnds
    FabricIsKept
PROPERTIES
    SweepsAdvance
CHECK_DEADLOCK FALSE

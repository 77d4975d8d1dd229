SPECIFICATION MCReadingSpec
CONSTANTS
    Missing = Missing
    Sessions = {"s1", "s2"}
    Streams = {"a", "b"}
    Homes <- MCHomes
    Registrars = {"r1", "r2"}
    Offers <- MCOffers
    SourceRef = "src"
    ParserRef = "csv"
    Emits <- MCEmits
    Failures = {"cancelled", "policy"}
    MaxRecords = 3
    MaxObjects = 6
    MaxBatches = 3
    MaxRefs = 2
    WithClosers = {"a"}
    Registrations <- MCRegistrations
    Probes <- MCProbes
    Declared = "csv"
    MaxFrame = 2
    MaxResult = 3
    MaxDepth = 1
    Frames <- MCFrames
    Inodes = {"i1", "i2"}
    Pieces = {"x", "blank"}
    MaxPieces = 2
    MaxFileTime = 2
    NoFile = NoFile
    MaxEntries = 1
    MaxPerDistribution = 2
    Installations <- MCInstallations
INVARIANTS AcceptedIsExtraction LeasesHold ContentDecides SandboxIsSettled DiscoveryIsSound
PROPERTIES NothingAfterClose
CHECK_DEADLOCK FALSE

CONSTANTS
    Chunks = 5
    Buffer = 2
    VolumeSize = 2
    Snapshots = 3
    aws = aws
    b2 = b2
    gcs = gcs
    Tags <- MCTags
    Release <- MCRelease
    Faults = {"source", "create", "upload", "contents", "lost", "cancel"}
SPECIFICATION FairSpec
INVARIANTS
    PublishedOnlyComplete
    ContentsAreLast
    ReleasedAfterRead
    OkIsOver
    OkReleases
    Invariant
PROPERTIES
    ArchivesTheOutput
    Returns
    NothingLeftRunning

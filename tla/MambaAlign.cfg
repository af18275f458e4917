SPECIFICATION MCSpec
CONSTANTS
    KernelSize = 3
    Dilation = 1
    NumSpec = 2
    BlockSize = 3
    MaxTokens = 8
    MaxHits = 1
    CompressRatio = 4
    RingSize = 6
    NumDrafts = 3
    MaxPosition = 14
    MaxChunk = 8
    Programs = {4, 5, 8, 31, 32, 256, 257, 513}
    Widths = {1, 15, 17, 33, 100, 130}
    GroupSizes = {8, 12}
    Caches = {"bf16", "nvfp4"}
    NumDraftReqs = 3
    MaxRowsOf = 2
    LastStep = 2
    MaxRounds = 2
    NumMtpLayers = 1
    VocabSizes = {1, 3, 5}
    DraftRanks = {1, 2, 3}
    PadTo = 2
    MaxLines = 3
    SizeLists <- MCSizeLists
    QueryLens = {1, 3, 4}
    TpSizes = {1, 2}
    HeadSizes = {16, 32}
    KernelBlocks = {4, 16}
    BlockFactors = {1, 2}
    UserBlocks = {6, 8, 24}
    MambaPages = {0, 144, 250, 720}
    ChunkSizes = {6}
    IndexerAligns = {0, 48}
    Shards = {"s1", "s2", "s3"}
    Placed <- MCPlaced
    Undividable <- MCUndividable
    NumHidden = 2
    DownloadMode = "600"
    MaxRuns = 2
    LinearAlgos = {"FP8"}
    ExpertAlgos = {"NVFP4", "FP8_BLOCK_SCALES"}
    NumLayers = 1
    NumDraftLayers = 1
INVARIANTS TypeOK ReadsItsOwnState CachedHoldsBoundary SavesIntoItsBlocks GroupsAreTheirRows SelectedOnce RowsAttendOwnSelection DraftScoresChosen  SizesHoldWholeRequests PiecewiseStaysPiecewise PagesAgreeUnlessExact StatesFitTheirPages PreparedIsWhole SnapshotKeepsContents LoadsWhatIsStored LoadedAsQuantized
PROPERTIES CachedIsFrozen ServesWhatWasProfiled
CHECK_DEADLOCK FALSE

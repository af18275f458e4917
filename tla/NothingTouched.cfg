SPECIFICATION CheckpointSpec
CONSTANTS
    Shards = {"s1", "s2", "s3"}
    Placed <- MCPlaced
    Undividable <- MCUndividable
    NumHidden = 2
    DownloadMode = "600"
    MaxRuns = 2
INVARIANTS NothingTouched
CHECK_DEADLOCK FALSE

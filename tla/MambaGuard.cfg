SPECIFICATION Spec
CONSTANTS
    KernelSize = 2
    Dilation = 1
    NumSpec = 1
    BlockSize = 2
    MaxTokens = 6
    MaxHits = 1
INVARIANTS
    StaleStaysPrivate

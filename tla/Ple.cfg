SPECIFICATION MCSpec
CONSTANTS
    MaxTokens = 3
    MaxSteps = 4
    ChunkRows = 2
    MinCapacity = 2
    NumReqs = 2
    NgramSize = 4
    Eos = 0
    Tokens = {0, 1}
    MaxLen = 4
    MaxChunk = 2
    Vocabs = {3, 5}
    MaxParts = 4
    MaxIds = 3
    ReadChunk = 2
    FastRows = 2
    SliceChunk = 2
    NumRanks = 2
    IntMax = 127
    UnigramVocabs = {1, 7, 50, 100, 127}
    Mixed = {0, 1, 8, 62, 200}
    Bases = {1, 2, 60, 191, 1670}
    NumHeads = 2
    NumLayers = 3
    Divisor = 8
    KernelSize = 3
    Dilation = 2
    NumSpec = 2
    ConvTokens = 7
INVARIANTS ConvTypeOK WindowHoldsHistory PinnedIsStable CopiesOwnRows IdsAreRight TableReadsTheRows ProductsFit SizesArePrimes IdsInOwnRows
PROPERTIES ImplementsCausalConv ForwardReadsItsStep StepsComplete
CHECK_DEADLOCK FALSE

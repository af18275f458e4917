INIT HybridInit
NEXT HybridNext
CONSTANTS
    HeadSizes = {16, 32}
    KernelBlocks = {4, 16}
    BlockFactors = {1, 2}
    UserBlocks = {6, 8, 24}
    MambaPages = {0, 144, 250, 720}
    ChunkSizes = {6}
    IndexerAligns = {0, 48}
INVARIANTS PagesAgree
CHECK_DEADLOCK FALSE

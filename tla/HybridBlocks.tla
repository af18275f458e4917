---------------------------- MODULE HybridBlocks ----------------------------
(***************************************************************************)
(* The sizes of blocks and pages of a hybrid model's KV cache              *)
(* (platforms_interface.py; the page geometry is the QSA backend's, in     *)
(* qsa.py).  Attention and Mamba layers, and layers that keep the model's  *)
(* type when the cache is quantized, take pages from one pool, so that all *)
(* pages must be equal: the attention block grows until its page holds a   *)
(* Mamba state, then until it holds a page of a skipped layer, and the     *)
(* others are padded.                                                      *)
(*                                                                         *)
(* Pages are in bytes, 0 stands for None.  The branches of MLA and of      *)
(* TurboQuant, which this model does not use, are left out.                *)
(***************************************************************************)
EXTENDS Integers, FiniteSets, FiniteSetsExt

CONSTANTS
    HeadSizes,      \* head_size, a multiple of 16
    KernelBlocks,   \* the smallest kernel block of the backend
    BlockFactors,   \* the block size that a backend prefers, in kernel blocks
    UserBlocks,     \* --block-size, which nothing here compares with the kernel's
    MambaPages,     \* largest page of the Mamba layers; 0 for none
    ChunkSizes,     \* mamba chunk or block size, for the mode "all"
    IndexerAligns   \* multiple that a sparse indexer wants; 0 for none

ASSUME HybridAssumption ==
    /\ HeadSizes \subseteq {16 * n : n \in 1 .. 64} /\ KernelBlocks \subseteq Nat \ {0}
    /\ BlockFactors \subseteq Nat \ {0} /\ UserBlocks \subseteq Nat \ {0}
    /\ MambaPages \subseteq Nat
    /\ ChunkSizes \subseteq Nat \ {0} /\ IndexerAligns \subseteq Nat
    /\ \A a \in IndexerAligns, k \in KernelBlocks : a % k = 0

VARIABLE cache      \* cache_config, and what it was made for

NoCache == [stage |-> "unset"]
HybridInit == cache = NoCache

CeilDiv(a, b) == (a + b - 1) \div b
Lcm(a, b) == Min({m \in 1 .. a * b : m % a = 0 /\ m % b = 0})

-----------------------------------------------------------------------------
\* A spec of one token in one head; content is state_content_bytes.
Spec1(head, quant) ==
    [head |-> head, quant |-> quant, slots |-> 1, content |-> 0,
     bytes |-> IF quant = "none" THEN 2 ELSE 1]

\* nvfp4_kv_cache_full_dim: a nibble per value and a scale per 16.
FullDim(head) == head \div 2 + head \div 16

\* Variant, for a mutation: customizing twice doubles the head slots.
Customized_Twice(s) ==
    IF s.quant # "nvfp4" THEN s
    ELSE [s EXCEPT !.slots = 2 * @, !.content = FullDim(s.head) * s.bytes]

\* _nvfp4_attention_spec.
Customized(s) ==
    IF s.content # 0 \/ s.quant # "nvfp4" THEN s
    ELSE [s EXCEPT !.slots = 2, !.content = FullDim(s.head) * s.bytes]

\* page_size_bytes: keys and values in one row, unless the content is given.
PageBytes(s) == IF s.content # 0 THEN s.slots * s.content ELSE s.slots * 2 * s.head * s.bytes

\* The owner of the layer customizes its spec, and the model runner does so again.
RunnerPage(c) == PageBytes(Customized(Customized(Spec1(c.head, c.quant))))
SkipPage(c) == PageBytes(Customized(Spec1(c.head, "none")))

-----------------------------------------------------------------------------
\* Variant, for a mutation: the block covers the page only almost.
BlocksFor_Floor(page, unit, token) == Max({unit, unit * (page \div (unit * token))})

\* The smallest multiple of unit whose page, of token bytes each, holds page.
BlocksFor(page, unit, token) == unit * CeilDiv(page, unit * token)

Grown(c, block) == [c EXCEPT !.block = Max({@, block})]

\* _align_hybrid_block_size.
AlignHybrid(c) ==
    LET token == PageBytes(Customized(Spec1(c.head, c.quant)))
        unit == Max({c.kernel, c.block})
        chunk == Lcm(c.chunk, unit)
        wanted == IF c.mode = "all" THEN chunk * CeilDiv(CeilDiv(c.mamba, token), chunk)
                  ELSE LET n == BlocksFor(c.mamba, unit, token)
                       IN  IF c.indexer = 0 THEN n ELSE c.indexer * CeilDiv(n, c.indexer)
        grown == Grown(c, wanted)
        page == grown.block * token
    IN  IF c.mamba = 0 THEN c
        ELSE [grown EXCEPT
                !.mambaBlock = CASE c.mode = "all" -> wanted
                                 [] c.mode = "align" -> grown.block
                                 [] OTHER -> @,
                !.mambaPadded = IF page = c.mamba THEN @ ELSE page]

\* _align_heterogeneous_kv_block_size.
AlignHeterogeneous(c) ==
    LET token == PageBytes(Customized(Spec1(c.head, c.quant)))
        unit == Max({c.kernel, c.block})
        required == Max({SkipPage(c) * c.kernel, c.mambaPadded})
        grown == Grown(c, BlocksFor(required, unit, token))
        shared == grown.block * token
    IN  IF SkipPage(c) = token THEN c
        ELSE [grown EXCEPT !.skipPadded = shared,
                           !.mambaPadded = IF @ # 0 THEN shared ELSE 0]

Configurations ==
    [stage : {"given"}, head : HeadSizes, quant : {"none", "fp8", "nvfp4"},
     kernel : KernelBlocks, asked : {0}, block : {0}, mamba : MambaPages, chunk : ChunkSizes,
     indexer : IndexerAligns, mode : {"none", "align", "all"}, skipLayers : BOOLEAN,
     mambaBlock : {0}, mambaPadded : {0}, skipPadded : {0}]

\* Phase 1 of update_block_size_for_backend: a block of the user's stays as it is, whatever
\* the kernel can address; else the backend's preferred one is taken.
GivenBlocks(c) == UserBlocks \cup {factor * c.kernel : factor \in BlockFactors}

Give(c, size) ==
    /\ cache = NoCache
    /\ cache' = [c EXCEPT !.asked = size, !.block = size]

\* Phases 2 and 3.
UpdateBlockSize ==
    LET aligned == AlignHybrid(cache)
    IN  /\ cache.stage = "given"
        /\ cache' = [IF cache.skipLayers THEN AlignHeterogeneous(aligned) ELSE aligned
                     EXCEPT !.stage = "updated"]

HybridNext ==
    \/ \E c \in Configurations : \E size \in GivenBlocks(c) : Give(c, size)
    \/ UpdateBlockSize

HybridSpec == HybridInit /\ [][HybridNext]_cache

-----------------------------------------------------------------------------
Updated == cache.stage = "updated"

AttentionPage(c) == c.block * RunnerPage(c)
MambaPage(c) == IF c.mambaPadded # 0 THEN c.mambaPadded ELSE c.mamba

\* Bytes of a page of the skipped layers: their own block and type, padded when told so.
SkippedPage(c) == IF c.skipPadded # 0 THEN c.skipPadded ELSE c.block * SkipPage(c)

\* All pages of the pool are equal ("unify then sees equal pages and stays trivial",
\* platforms_interface.py:673).
PagesAgree ==
    Updated =>
        /\ cache.mamba # 0 => MambaPage(cache) = AttentionPage(cache)
        /\ cache.skipLayers => SkippedPage(cache) = AttentionPage(cache)

\* They are unless the Mamba page was, to the byte, the attention page before the
\* skipped layers made that one larger (platforms_interface.py:654-764, 778-982).
PagesAgreeUnlessExact ==
    Updated =>
        /\ cache.mamba # 0 =>
             \/ MambaPage(cache) = AttentionPage(cache)
             \/ cache.mambaPadded = 0 /\ cache.skipPadded > cache.mamba
        /\ cache.skipLayers => SkippedPage(cache) = AttentionPage(cache)

\* The kernel can address the blocks, but for one that a user asked for: a block that is no
\* multiple of the kernel's stays, or is multiplied, unless a Mamba page makes it grow from
\* less than the kernel's, and never when a sparse indexer aligns it.
Addressable(c) ==
    \/ c.block % c.kernel = 0
    \/ /\ c.asked % c.kernel # 0 /\ c.block % c.asked = 0
       /\ c.mamba # 0 => c.kernel < c.asked /\ (c.indexer # 0 => c.mode = "all")

\* Padding never cuts a state or a skipped layer's rows short, the kernel can address the
\* blocks unless a user asked for others (platforms_interface.py:629), and the block the
\* prefix cache saves states at is the attention block, but for a growth after it was set
\* (platforms_interface.py:930-960).
StatesFitTheirPages ==
    Updated =>
        /\ Addressable(cache)
        /\ cache.mamba <= AttentionPage(cache)
        /\ cache.skipLayers =>
             \/ SkippedPage(cache) >= cache.kernel * SkipPage(cache)
             \/ cache.skipPadded = 0 /\ cache.block = cache.asked /\ cache.asked < cache.kernel
        /\ cache.mode = "align" /\ cache.mamba # 0 =>
             \/ cache.mambaBlock = cache.block
             \/ cache.skipPadded # 0 /\ cache.mambaBlock < cache.block
=============================================================================

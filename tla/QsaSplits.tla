----------------------------- MODULE QsaSplits -----------------------------
(***************************************************************************)
(* How the sparse attention of QSA (ops_qsa.py) cuts the columns of a      *)
(* row's selection into tiles and the tiles into splits, one program per   *)
(* split, and merges their results.  The profile depends on the number of  *)
(* programs and on the kind of cache.  A column of the selection may be    *)
(* empty; a split whose columns all are weighs nothing.                    *)
(*                                                                         *)
(* A program's result is the bag of columns it attends; the arithmetic of  *)
(* the softmax is left out.                                                *)
(***************************************************************************)
EXTENDS Integers, FiniteSets, FiniteSetsExt

CONSTANTS
    Programs,       \* rows of a batch times key heads, for TLC
    Widths,         \* columns of a selection
    GroupSizes,     \* query heads per key head
    Caches          \* kinds of cache: "bf16", "fp8", "nvfp4"

ASSUME SplitsAssumption ==
    /\ Programs \subseteq Nat \ {0} /\ Widths \subseteq Nat \ {0}
    /\ GroupSizes \subseteq Nat \ {0} /\ Caches \subseteq {"bf16", "fp8", "nvfp4"}

-----------------------------------------------------------------------------
\* triton.next_power_of_2 and int.bit_length.
NextPowerOf2(n) == CHOOSE m \in {2 ^ k : k \in 0 .. 10} : n <= m /\ m < 2 * n

BitLength(n) == CHOOSE k \in 1 .. n : 2 ^ (k - 1) <= n /\ n < 2 ^ k

SmallProfileLimit(group) == IF NextPowerOf2(group) <= 8 THEN 8 ELSE 4

\* Columns of a tile and wanted splits, by the number of programs.
Profile(programs, group) ==
    IF programs <= SmallProfileLimit(group) THEN [block |-> 16, splits |-> 64]
    ELSE IF programs < 32 THEN [block |-> 16, splits |-> 32]
    ELSE IF programs <= 256 THEN [block |-> 64, splits |-> 8]
    ELSE IF programs <= 512 THEN [block |-> 64, splits |-> 4]
    ELSE [block |-> 64, splits |-> 1]

BlockN(block, cache) == IF cache = "nvfp4" /\ block > 16 THEN 32 ELSE block

\* Variant, for a mutation: a partial tile at the end is forgotten.
NumTiles_Floor(width, block) == Max({1, width \div block})

NumTiles(width, block) == (width + block - 1) \div block

\* No more splits than tiles, and a power of two.
NumSplits(tiles, wanted) == Min({2 ^ (BitLength(tiles) - 1), wanted})

-----------------------------------------------------------------------------
VARIABLE launch     \* what the kernel was launched with

NoLaunch == [width |-> 0]

SplitsInit == launch = NoLaunch

\* qsa_sparse_paged_attention is called; only the first `filled` columns select a token.
Attend(programs, width, group, cache, filled) ==
    LET profile == Profile(programs, group)
        block == BlockN(profile.block, cache)
        tiles == NumTiles(width, block)
    IN  /\ launch = NoLaunch
        /\ launch' = [width |-> width, filled |-> filled, block |-> block, tiles |-> tiles,
                      splits |-> NumSplits(tiles, profile.splits)]

SplitsNext ==
    \E programs \in Programs, width \in Widths, group \in GroupSizes, cache \in Caches :
        \E filled \in {0, 1, width \div 2, width} : Attend(programs, width, group, cache, filled)

SplitsSpec == SplitsInit /\ [][SplitsNext]_launch

SplitStart(s, tiles, splits) == (s * tiles) \div splits
SplitTiles(s, tiles, splits) == SplitStart(s, tiles, splits) .. SplitStart(s + 1, tiles, splits) - 1

\* Split s attends column c: the tile of c is one of its own, and c selects a token.
Attends(x, s, c) ==
    /\ c < x.width /\ c < x.filled
    /\ c \div x.block \in SplitTiles(s, x.tiles, x.splits)

\* How often a column weighs in the row's output.  One split writes it directly; the
\* merge loads next_power_of_2(NumSplits) partial results and masks the surplus.
Merged(x, c) ==
    Cardinality({s \in 0 .. NextPowerOf2(x.splits) - 1 : s < x.splits /\ Attends(x, s, c)})

-----------------------------------------------------------------------------
\* Whatever the profile, each selected token weighs in the row's output once: no tile
\* is skipped or attended twice between splits (ops_qsa.py:146-148 and 663-698).
SelectedOnce ==
    launch # NoLaunch =>
        \A c \in 0 .. launch.width - 1 :
            Merged(launch, c) = IF c < launch.filled THEN 1 ELSE 0
=============================================================================

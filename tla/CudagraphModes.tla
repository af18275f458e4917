--------------------------- MODULE CudagraphModes ---------------------------
(***************************************************************************)
(* Which CUDA graphs vLLM captures, and of which sizes (compilation.py).   *)
(* The requested mode passes through three steps: the choice of splitting  *)
(* ops, which may take piecewise graphs away; the sorting of the capture   *)
(* sizes; and the resolution against what the attention backend supports,  *)
(* done twice, to profile memory and then to serve.                        *)
(*                                                                         *)
(* Splitting ops are three classes: the attention ops (the PLE gather is   *)
(* one), the updates of the KV cache, and others.  Compile sizes, custom   *)
(* ops and hashes are left out; the runner and the order of the steps are  *)
(* vLLM's.                                                                 *)
(***************************************************************************)
EXTENDS Integers, Sequences, FiniteSets, FiniteSetsExt, SequencesExt, Functions, Sorting

CONSTANTS
    SizeLists,      \* capture sizes that may be asked for
    QueryLens,      \* rows of a request in a decode batch: 1 + drafts
    TpSizes         \* tensor_parallel_size

ASSUME CudagraphAssumption ==
    /\ SizeLists \subseteq Seq(Nat \ {0}) \ {<< >>}
    /\ QueryLens \subseteq Nat \ {0} /\ TpSizes \subseteq Nat \ {0}

VARIABLES
    asked,          \* the configuration as it was asked for
    config,         \* CompilationConfig
    runner,         \* arguments of the first resolution
    stage           \* what has been done

cudagraphVars == <<asked, config, runner, stage>>

\* The modes as pairs: of decode batches and of mixed ones.
Modes == {"NONE", "PIECEWISE", "FULL", "FULL_DECODE_ONLY", "FULL_AND_PIECEWISE"}
DecodeMode(m) == IF m \in {"FULL_DECODE_ONLY", "FULL_AND_PIECEWISE"} THEN "FULL" ELSE m
MixedMode(m) == CASE m = "FULL_DECODE_ONLY" -> "NONE"
                  [] m = "FULL_AND_PIECEWISE" -> "PIECEWISE"
                  [] OTHER -> m
HasPiecewise(m) == m \in {"PIECEWISE", "FULL_AND_PIECEWISE"}
HasFull(m) == DecodeMode(m) = "FULL"

\* AttentionCGSupport, in its order.
Support == [NEVER |-> 0, UNIFORM_SINGLE_TOKEN_DECODE |-> 1, UNIFORM_BATCH |-> 2, ALWAYS |-> 3]

Splittings == {[given |-> FALSE, ops |-> {}]}
    \cup [given : {TRUE}, ops : {{}, {"other"}, {"attention"}, {"attention", "cache"}}]
PassSets == {{}, {"sp"}, {"gemm_comms"}, {"attn_quant"}, {"rope_kvcache"}, {"sp", "attn_quant"}}

NoRunner == [support |-> "NEVER", queryLen |-> 1, v2 |-> FALSE, tp |-> 1]

Configs == [mode : Modes, compiled : BOOLEAN, splitting : Splittings,
            partition : BOOLEAN, passes : PassSets, sizes : {<< >>}, maxSize : {0}]

CudagraphInit ==
    /\ config = [mode |-> "NONE", compiled |-> FALSE, partition |-> FALSE, passes |-> {},
                 splitting |-> [given |-> FALSE, ops |-> {}], sizes |-> << >>, maxSize |-> 0]
    /\ asked = config /\ runner = NoRunner /\ stage = "unset"

AskFor(c) ==
    /\ stage = "unset"
    /\ asked' = c /\ config' = c /\ stage' = "asked" /\ UNCHANGED runner

Raise ==
    stage' = "raised" /\ UNCHANGED <<asked, config, runner>>

-----------------------------------------------------------------------------
Contain(c, op) == c.splitting.given /\ op \in c.splitting.ops

With(c, mode, ops) == [c EXCEPT !.mode = mode, !.splitting = [given |-> TRUE, ops |-> ops]]

\* set_splitting_ops_for_attn_fusion.
ForAttnFusion(c) ==
    IF c.splitting.given THEN c
    ELSE With(c, IF HasPiecewise(c.mode) THEN "FULL" ELSE c.mode, {})

\* Variant, for a mutation: piecewise graphs without splits become full ones.
WithoutSplits_Full(mode) == IF HasPiecewise(mode) THEN "FULL" ELSE mode

\* The mode when nothing splits the graph.
WithoutSplits(mode) ==
    CASE mode = "PIECEWISE" -> "NONE" [] mode = "FULL_AND_PIECEWISE" -> "FULL" [] OTHER -> mode

\* No splitting ops were asked for: attention and, unless inductor splits, cache updates.
DefaultSplits(c) ==
    With([c EXCEPT !.passes = IF c.partition THEN @ ELSE @ \ {"rope_kvcache"}], c.mode,
         {"attention"} \cup IF c.partition THEN {} ELSE {"cache"})

ChosenSplits(c) ==
    IF "attn_quant" \in c.passes /\ ~c.partition THEN ForAttnFusion(c)
    ELSE IF ~c.splitting.given THEN DefaultSplits(c)
    ELSE IF c.splitting.ops = {} THEN With(c, WithoutSplits(c.mode), {})
    ELSE c

\* Sequence parallelism wants the graph in one piece.
ForSequenceParallelism(c) ==
    IF ~c.partition /\ c.passes \cap {"sp", "gemm_comms"} # {} /\ c.splitting.ops # {}
    THEN With(c, IF HasPiecewise(c.mode) THEN "FULL" ELSE c.mode, {})
    ELSE c

\* set_splitting_ops_for_v1.
SetSplittingOps(deepep) ==
    LET c == config
        chosen == ForSequenceParallelism(ChosenSplits(c))
        fuses == "attn_quant" \in c.passes /\ ~c.partition
    IN  /\ stage = "asked"
        /\ IF ~c.compiled THEN
             /\ config' = [c EXCEPT !.splitting.given = TRUE]
             /\ stage' = "split" /\ UNCHANGED <<asked, runner>>
           ELSE IF fuses /\ Contain(ForAttnFusion(c), "attention") THEN Raise
           ELSE /\ config' = IF deepep THEN [chosen EXCEPT !.mode = "NONE"] ELSE chosen
                /\ stage' = "split" /\ UNCHANGED <<asked, runner>>

\* post_init_cudagraph_sizes; VllmConfig has set the largest size before.
PostInitSizes(list) ==
    /\ stage = "split"
    /\ config' = [config EXCEPT !.sizes = Sorted(list), !.maxSize = Max(Range(list))]
    /\ asked' = [asked EXCEPT !.maxSize = Max(Range(list))]
    /\ stage' = "sized" /\ UNCHANGED runner

-----------------------------------------------------------------------------
\* A mixed batch needs a backend that supports any batch.
AfterMixedCheck(m, c, r) ==
    IF MixedMode(m) = "FULL" /\ r.support # "ALWAYS"
    THEN IF Contain(c, "attention") THEN "FULL_AND_PIECEWISE" ELSE "FULL_DECODE_ONLY"
    ELSE m

\* A decode batch needs a backend that supports one.
AfterDecodeCheck(m, c, r) ==
    IF DecodeMode(m) = "FULL" /\ r.support = "NEVER"
    THEN IF c.compiled /\ (Contain(c, "attention") \/ c.partition) THEN "PIECEWISE" ELSE "NONE"
    ELSE m

\* Variant, for a mutation: several rows per request are no different from one.
AfterDraftCheck_Skipped(m, c, r) == m

\* One of several rows per request needs one that supports uniform batches.
AfterDraftCheck(m, c, r) ==
    IF DecodeMode(m) = "FULL" /\ r.queryLen > 1
       /\ Support[r.support] < Support["UNIFORM_BATCH"]
    THEN IF Contain(c, "attention") THEN "PIECEWISE" ELSE "NONE"
    ELSE m

Resolved(m, c, r) == AfterDraftCheck(AfterDecodeCheck(AfterMixedCheck(m, c, r), c, r), c, r)

MultipleOf(c, r) ==
    IF r.tp > 1 /\ "sp" \in c.passes THEN Max({r.queryLen, r.tp}) ELSE r.queryLen

\* Variant, for a mutation: a multiple is rounded up to the next one.
RoundUp_Next(n, k) == (n \div k + 1) * k

RoundUp(n, k) == ((n + k - 1) \div k) * k

\* Variant, for a mutation: the rounded sizes may pass the largest.
Rounded_PastLargest(c, r) == {RoundUp(c.sizes[i], MultipleOf(c, r)) : i \in DOMAIN c.sizes}

Rounded(c, r) ==
    LET k == MultipleOf(c, r)
        up == {RoundUp(c.sizes[i], k) : i \in DOMAIN c.sizes}
        fit == {n \in up : n <= c.maxSize}
    IN  IF fit = {} /\ k <= c.maxSize THEN {k} ELSE fit

\* adjust_cudagraph_sizes_for_spec_decode.
Adjusts(m, r) == ~r.v2 /\ DecodeMode(m) = "FULL" /\ r.queryLen > 1
CanAdjust(c, r) ==
    /\ MultipleOf(c, r) % r.queryLen = 0
    /\ r.tp > 1 /\ "sp" \in c.passes => MultipleOf(c, r) % r.tp = 0
    /\ Rounded(c, r) # {}
Adjusted(c, r) ==
    [c EXCEPT !.sizes = Ascending(Rounded(c, r)), !.maxSize = Max(Rounded(c, r))]

\* What it raises for; a shortage of Mamba blocks counts only when it is to serve.
ResolveFails(r, enoughBlocks) ==
    LET m == Resolved(config.mode, config, r)
    IN  /\ config.mode # "NONE"
        /\ \/ MixedMode(config.mode) = "FULL" /\ r.support = "NEVER"
           \/ Adjusts(m, r) /\ ~CanAdjust(config, r)
           \/ stage = "profiled" /\ HasFull(m) /\ ~enoughBlocks

\* resolve_cudagraph_mode_and_sizes, first to profile and then to serve.
Resolve(r, enoughBlocks) ==
    LET m == Resolved(config.mode, config, r)
        sized == IF Adjusts(m, r) THEN Adjusted(config, r) ELSE config
    IN  /\ stage = "sized" \/ (stage = "profiled" /\ r = runner)
        /\ IF ResolveFails(r, enoughBlocks) THEN Raise
           ELSE /\ config' = IF config.mode = "NONE" THEN config ELSE [sized EXCEPT !.mode = m]
                /\ runner' = r
                /\ stage' = IF stage = "sized" THEN "profiled" ELSE "resolved"
                /\ UNCHANGED asked

Runners == [support : DOMAIN Support, queryLen : QueryLens, v2 : BOOLEAN, tp : TpSizes]

CudagraphNext ==
    \/ \E c \in Configs : AskFor(c)
    \/ \E deepep \in BOOLEAN : SetSplittingOps(deepep)
    \/ \E list \in SizeLists : PostInitSizes(list)
    \/ \E r \in Runners, enoughBlocks \in BOOLEAN : Resolve(r, enoughBlocks)

CudagraphSpec == CudagraphInit /\ [][CudagraphNext]_cudagraphVars

-----------------------------------------------------------------------------
\* No downgrade leaves a graph that the attention backend cannot run, and one to piecewise
\* graphs, which nobody asked for, is made only where the model is split at its attention
\* (compilation.py:1396-1478).  Whether a graph asked for as piecewise is split is decided
\* before, in part outside this code.
GraphsAreSupported ==
    stage \in {"profiled", "resolved"} =>
        /\ MixedMode(config.mode) = "FULL" => runner.support = "ALWAYS"
        /\ HasFull(config.mode) =>
             Support[runner.support] >= IF runner.queryLen > 1 THEN 2 ELSE 1
        /\ HasPiecewise(config.mode) /\ ~HasPiecewise(asked.mode) =>
             Contain(config, "attention") \/ (config.compiled /\ config.partition)

\* Full decode graphs of the old runner are captured for whole requests, in rising sizes
\* none of which is larger than asked for (compilation.py:1526-1571).
SizesHoldWholeRequests ==
    stage \in {"profiled", "resolved"} /\ Adjusts(config.mode, runner) =>
        LET s == config.sizes
        IN  /\ s # << >> /\ s[Len(s)] = config.maxSize /\ config.maxSize <= asked.maxSize
            /\ \A i \in DOMAIN s : s[i] % runner.queryLen = 0
            /\ \A i \in 2 .. Len(s) : s[i - 1] < s[i]

\* Serving captures the graphs that profiling measured (compilation.py:1376-1524).
ServesWhatWasProfiled ==
    [][stage = "profiled" => config' = config]_cudagraphVars

\* Asked for piecewise graphs, as the disk-backed gather inside the pass requires, vLLM
\* captures no full graph unless a pass that wants the whole graph is enabled
\* (compilation.py:1192-1235; vllm_ple_mmap.py:22-23).
PiecewiseStaysPiecewise ==
    asked.mode = "PIECEWISE" /\ asked.passes \cap {"sp", "gemm_comms", "attn_quant"} = {}
    => ~HasFull(config.mode)
=============================================================================

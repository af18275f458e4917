----------------------------- MODULE MambaAlign -----------------------------
(***************************************************************************)
(* The recurrent state of one request in the columns of its block table,   *)
(* moved before and after every forward pass so that full blocks can be    *)
(* reused as a cached prefix (mamba_utils_guarded.py, mode "align").       *)
(*                                                                         *)
(* A step: preprocess picks the running column, the programs of the        *)
(* pre-copy kernel migrate the state into it, the forward pass reads it and*)
(* writes one column per row, the programs of the post-process kernel save *)
(* the state at a block boundary that accepted drafts ran past.  A program *)
(* is one state tensor: a convolution window or a temporal state.          *)
(*                                                                         *)
(* A temporal state is the number of right tokens it has seen, or Bad.  The*)
(* window and the tokens are those of ConvWindow.  Scheduling, block       *)
(* allocation, acceptance and the prefix cache are vLLM's.                 *)
(***************************************************************************)
EXTENDS ConvWindow, FiniteSets

CONSTANTS
    BlockSize,      \* tokens of a mamba block
    MaxTokens,      \* bound: tokens of a request
    MaxHits         \* bound: copies the guard skips

\* A block is longer than a step of verification (1600 against a handful).
ASSUME BlockAssumption == BlockSize \in Nat /\ BlockSize > NumSpec
ASSUME AlignBoundAssumption == MaxTokens \in Nat \ {0} /\ MaxHits \in Nat

VARIABLES
    pc,         \* idle, precopy, forward, post: what the GPU runs next for the request
    todo,       \* programs of the running kernel that have not run
    temporal,   \* column -> temporal state
    conv,       \* column -> convolution window
    prompt,     \* tokens to prefill
    computed,   \* num_computed_tokens
    stateIdx,   \* the running column, -1 before the first
    accepted,   \* num_accepted_tokens
    snapshot,   \* num_accepted_tokens as the post-process kernel reads it
    srcCol, srcOff,     \* staged for the pre-copy kernel
    base,       \* num_computed_tokens when the step was staged
    query,      \* rows of the step
    drafts,     \* of which so many are drafts
    kept,       \* columns that have a block of their own, cached when full
    hits,       \* guard_hits: copies skipped
    skipped     \* one of them was this request's

tables == <<temporal, conv>>
guard == <<hits, skipped>>
staged == <<srcCol, srcOff, base, query, drafts, snapshot>>
vars == <<pc, todo, tables, prompt, computed, stateIdx, accepted, staged, kept, guard>>

States == {"conv", "temporal"}
StateZero == "conv"     \* state_idx = 0

CDiv(a, b) == (a + b - 1) \div b

LastCol == CDiv(MaxTokens, BlockSize) - 1 + NumSpec
Cols == 0 .. LastCol

Bad == -1
Junk == -(MaxTokens + 1)

TypeOK ==
    /\ pc \in {"idle", "precopy", "forward", "post"}
    /\ todo \subseteq States
    /\ temporal \in [Cols -> {Bad} \union 0 .. MaxTokens]
    /\ conv \in [Cols -> Window]
    /\ prompt \in 1 .. MaxTokens /\ computed \in 0 .. MaxTokens
    /\ stateIdx \in -1 .. LastCol - NumSpec
    /\ accepted \in 0 .. SpecQueryLen /\ snapshot \in 0 .. SpecQueryLen
    /\ srcCol \in -1 .. LastCol - NumSpec /\ srcOff \in 0 .. NumSpec
    /\ base \in 0 .. MaxTokens /\ query \in 0 .. MaxTokens /\ drafts \in 0 .. NumSpec
    /\ kept \subseteq Cols
    /\ hits \in 0 .. MaxHits /\ skipped \in BOOLEAN

Init ==
    /\ pc = "idle" /\ todo = {}
    /\ temporal = [c \in Cols |-> Bad]
    /\ conv = [c \in Cols |-> [i \in Cells |-> Junk]]
    /\ prompt \in 1 .. MaxTokens /\ computed = 0
    /\ stateIdx = -1 /\ accepted = 1 /\ snapshot = 1
    /\ srcCol = -1 /\ srcOff = 0 /\ base = 0 /\ query = 0 /\ drafts = 0
    /\ kept = {} /\ hits = 0 /\ skipped = FALSE

Full(c) == (c + 1) * BlockSize <= computed

\* Variant, for a mutation: the seed is computed with the smallest block size of all
\* groups, which is what the patch puts right.
SeedCol_SmallBlock(n) == (n - 1) \div CDiv(BlockSize, 2)

\* The column of a request that starts with n computed tokens; -1 for none.
SeedCol(n) == (n - 1) \div BlockSize

\* A request, new or resumed, that the first k columns of this one serve as a cached
\* prefix; its other blocks may hold anything.
Admit(k, p) ==
    /\ pc = "idle"
    /\ k = 0 \/ (k - 1 \in kept /\ Full(k - 1))
    /\ k * BlockSize < p
    /\ prompt' = p /\ computed' = k * BlockSize
    /\ stateIdx' = SeedCol(k * BlockSize)
    /\ accepted' = 1
    /\ kept' = {c \in kept : c < k}
    /\ temporal' = [c \in Cols |-> IF c < k THEN temporal[c] ELSE Bad]
    /\ conv' = [c \in Cols |-> IF c < k THEN conv[c] ELSE [i \in Cells |-> Junk]]
    /\ skipped' = FALSE
    /\ UNCHANGED <<pc, todo, staged, hits>>

-----------------------------------------------------------------------------
(* Before the forward pass.                                                *)

\* Variant, for a mutation: the rows of the step are left out.
RunningCol_BeforeStep(q) == IF computed = 0 THEN 0 ELSE CDiv(computed, BlockSize) - 1

\* The last column that the q rows of a step reach.
RunningCol(q) == CDiv(computed + q, BlockSize) - 1

\* Variant, for a mutation: nothing accepted is taken for one rejected.
SrcOff_Unclamped == accepted - 1

\* The rows of the last step that were accepted after its first.
SrcOff == IF accepted > 1 THEN accepted - 1 ELSE 0

\* What the scheduler says of the step, put aside for the post-process kernel.
StageInputs(q, d) == base' = computed /\ query' = q /\ drafts' = d

\* preprocess_mamba_align_fused_kernel; preprocess_mamba stages the same columns from
\* the host, and only for a request that migrates.
Preprocess(q, d) ==
    LET new == RunningCol(q)
        moves == stateIdx >= 0 /\ stateIdx # new
    IN  /\ \/ /\ srcCol' = stateIdx
              /\ srcOff' = SrcOff
           \/ /\ accepted >= 1
              /\ srcCol' = IF moves THEN stateIdx ELSE -1
              /\ srcOff' = IF moves THEN accepted - 1 ELSE 0
        /\ stateIdx' = new
        /\ accepted' = IF moves THEN 1 ELSE accepted
        /\ kept' = kept \union {new}
        /\ StageInputs(q, d)
        /\ pc' = "precopy" /\ todo' = States
        /\ UNCHANGED <<tables, prompt, computed, snapshot, guard>>

\* Chunks of a prompt end on block boundaries or with the prompt.
SchedulePrefill(q) ==
    /\ pc = "idle" /\ computed < prompt
    /\ \/ computed + q = prompt
       \/ computed + q < prompt /\ (computed + q) % BlockSize = 0
    /\ Preprocess(q, 0)

\* A sampled token with its drafts.
ScheduleDecode(d) ==
    /\ pc = "idle" /\ computed >= prompt /\ computed + 1 + d <= MaxTokens
    /\ Preprocess(1 + d, d)

CopyConv(src, dst, bias) ==
    conv' = [conv EXCEPT ![dst] =
                [i \in Cells |-> IF i + bias <= Width - 1 THEN conv[src][i + bias] ELSE @[i]]]

\* _copy_mamba_state_block, for the state s: a window is shifted by the bias, of the
\* temporal states the one `bias` columns on is taken.  A block id out of range is
\* counted and the copy skipped.
CopyBlock(s, src, dst, bias) ==
    \/ /\ s = "conv" /\ CopyConv(src, dst, bias)
       /\ UNCHANGED <<temporal, guard>>
    \/ /\ s = "temporal" /\ temporal' = [temporal EXCEPT ![dst] = temporal[src + bias]]
       /\ UNCHANGED <<conv, guard>>
    \/ /\ hits < MaxHits /\ hits' = hits + 1 /\ skipped' = TRUE
       /\ UNCHANGED tables

\* The kernel's programs run in any order; the next kernel follows the last of them.
Retire(s, next) ==
    /\ s \in todo
    /\ todo' = todo \ {s}
    /\ pc' = IF todo = {s} THEN next ELSE pc

\* precopy_mamba_align_fused_kernel
Precopy(s) ==
    /\ pc = "precopy" /\ Retire(s, "forward")
    /\ IF srcCol < 0 \/ srcCol = stateIdx
       THEN UNCHANGED <<tables, guard>>
       ELSE CopyBlock(s, srcCol, stateIdx, srcOff)
    /\ UNCHANGED <<prompt, computed, stateIdx, accepted, staged, kept>>

-----------------------------------------------------------------------------
(* The forward pass.                                                       *)

\* The kernels find the state of the computed tokens so many columns on.
Offset == IF accepted > 1 THEN accepted - 1 ELSE 0

\* The q rows after the computed tokens, of which the first ok are accepted.
RowsAfter(q, ok) ==
    [j \in 1 .. q |-> IF j <= ok THEN computed + j ELSE -(computed + j)]

\* What j rows make of the temporal state s.
Consume(s, j, ok) == IF s = computed /\ j <= ok THEN computed + j ELSE Bad

\* The post-process kernel is launched on a copy of the counts that acceptance left.
LaunchPostprocess == snapshot' = accepted' /\ pc' = "post" /\ todo' = States

\* One state and one window for all rows.
ForwardPrompt ==
    LET s == IF computed = 0 THEN 0 ELSE temporal[stateIdx]
    IN  /\ pc = "forward" /\ computed < prompt
        /\ temporal' = [temporal EXCEPT ![stateIdx] = Consume(s, query, query)]
        /\ conv' = [conv EXCEPT ![stateIdx] =
                       PrefillWindow(@, RowsAfter(query, query), computed > 0)]
        /\ computed' = computed + query
        /\ accepted' \in IF computed + query = prompt THEN {1} ELSE {0, 1}
        /\ LaunchPostprocess
        /\ UNCHANGED <<prompt, stateIdx, srcCol, srcOff, base, query, drafts, kept, guard>>

\* The state after the j-th row goes to the j-th column from the running one.
ForwardVerify(ok) ==
    LET s == temporal[stateIdx + Offset]
    IN  /\ pc = "forward" /\ computed >= prompt
        /\ temporal' = [c \in Cols |->
                           IF c - stateIdx \in 0 .. query - 1
                           THEN Consume(s, c - stateIdx + 1, ok) ELSE temporal[c]]
        /\ conv' = [conv EXCEPT ![stateIdx] = SpecWindow(@, RowsAfter(query, ok), accepted)]
        /\ computed' = computed + ok
        /\ accepted' = ok
        /\ LaunchPostprocess
        /\ UNCHANGED <<prompt, stateIdx, srcCol, srcOff, base, query, drafts, kept, guard>>

-----------------------------------------------------------------------------
(* After the forward pass.                                                 *)

\* Variant, for a mutation: a program reads the count that another one has reset.
CountRead_InPlace == accepted

\* The count that the programs read: a copy, since one of them resets it.
CountRead == snapshot

\* Tokens seen by the state in the running column: as the scheduler staged them for
\* the first runner, and as the second derives them from the advanced count.
RunningTokens ==
    {computed - CountRead + 1} \union (IF CountRead >= 1 THEN {base + query - drafts} ELSE {})

\* The last block boundary that the step reached.
Aligned(running) == ((running + CountRead - 1) \div BlockSize) * BlockSize

\* Variant, for a mutation: the column after the boundary instead of the one before.
DestCol_After(running) == Aligned(running) \div BlockSize

DestCol(running) == Aligned(running) \div BlockSize - 1

\* How far the boundary is from what the running column holds: drafts to leave out.
Bias(running) == Aligned(running) - running

\* Variant, for a mutation: a boundary that the sampled token itself reached is missed.
NeedsCopy_Past(running) == Aligned(running) > running

NeedsCopy(running) == Aligned(running) >= running

\* postprocess_mamba_fused_kernel
Postprocess(s, running) ==
    LET here == stateIdx = DestCol(running)
    IN  /\ pc = "post" /\ Retire(s, "idle")
        /\ accepted' = IF NeedsCopy(running) /\ here /\ s = StateZero THEN 1 ELSE accepted
        /\ IF NeedsCopy(running) /\ ~(here /\ Bias(running) = 0)
           THEN CopyBlock(s, stateIdx, DestCol(running), Bias(running))
           ELSE UNCHANGED <<tables, guard>>
        /\ UNCHANGED <<prompt, computed, stateIdx, staged, kept>>

-----------------------------------------------------------------------------
Next ==
    \/ \E k \in Cols, p \in 1 .. MaxTokens : Admit(k, p)
    \/ \E q \in 1 .. MaxTokens : SchedulePrefill(q)
    \/ \E d \in 0 .. NumSpec : ScheduleDecode(d)
    \/ ForwardPrompt
    \/ \E ok \in 1 .. query : ForwardVerify(ok)
    \/ \E s \in States : Precopy(s)
    \/ \E s \in States, running \in RunningTokens : Postprocess(s, running)

Spec == Init /\ [][Next]_vars

-----------------------------------------------------------------------------
(* Properties.                                                             *)

\* The window w, read from cell `off`, is the history of the first n tokens.
History(w, off, n) ==
    \A i \in 0 .. StateLen - 1 :
        w[off + i] = IF n - StateLen + 1 + i <= 0 THEN 0 ELSE n - StateLen + 1 + i

\* As long as no copy was skipped, the forward pass finds the state of exactly the
\* computed tokens where it reads it, whatever was accepted, migrated back and forth or
\* resumed before (preprocess, pre-copy and post-process taken together).
ReadsItsOwnState ==
    pc = "forward" /\ computed > 0 /\ hits = 0 =>
        /\ temporal[stateIdx + Offset] = computed
        /\ History(conv[stateIdx], SlotOff(accepted), computed)
        /\ computed < prompt => accepted <= 1

\* As long as no copy was skipped, a column that another request may take for its cached
\* prefix holds the state at its last token: drafts that ran past the boundary do not
\* show (postprocess_mamba_fused_kernel).
CachedHoldsBoundary ==
    pc = "idle" /\ hits = 0 =>
        \A c \in kept : Full(c) =>
            /\ temporal[c] = (c + 1) * BlockSize
            /\ History(conv[c], 0, (c + 1) * BlockSize)

\* No step writes to a column that was already cached when the step was scheduled,
\* whatever the guard skips: other requests may be reading it (the columns that
\* preprocess and post-process choose).
CachedIsFrozen ==
    [][\A c \in kept : pc # "idle" /\ (c + 1) * BlockSize <= base =>
          temporal'[c] = temporal[c] /\ conv'[c] = conv[c]]_vars

\* The post-process kernel only writes to a column that has a block of its own, and
\* never to the null block of a column that the request jumped over.
SavesIntoItsBlocks ==
    pc = "post" =>
        \A running \in RunningTokens : NeedsCopy(running) => DestCol(running) \in kept

\* "Skipping the copy leaves one request with a stale mamba state": a request none of
\* whose own copies was skipped reads a right state (_copy_mamba_state_block).
StaleStaysPrivate ==
    pc = "forward" /\ computed > 0 /\ ~skipped => temporal[stateIdx + Offset] = computed
=============================================================================

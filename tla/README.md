# TLA+ models of the Qwen3.8 Flash Next server for DGX Spark

The repository serves one model on one machine. Two kinds of its code have state
that is hard to test: the public gateway (`scripts/gateway.py`), a long-lived
asyncio process whose configuration file other programs write too, and the changes
it makes to vLLM (`src/full-recipe-patch`, `src/*.py`), where kernels keep
per-request state in cache slots that outlive requests, drafts and steps, host,
read pool and device run at their own pace, and a checkpoint is rewritten in
place. This directory models them, checks the models with TLC on small instances, and
proves the main theorems with TLAPS for every value of the constants.

## Inventory

Paths are relative to the repository. Every component is also in `PROJECT.json`.

| Component | State | Operations | Interacts with |
|---|---|---|---|
| Gateway configuration (`scripts/gateway.py`, `Config`) | `gateway.json`; the document in memory; the identity (`stamp`) of the file last read or written; `warned` | `__init__`, `_normalize`, `save`, `reload_if_changed` | handlers, watcher, whoever edits the file |
| Gateway process | `dirty`, tick, the watcher task, a label request that awaits its body | `proxy`, `api_config`, `api_keys`, `api_key_op`, `admin_guard`, `watcher`, `on_start`, `on_stop` | clients, the operator, vLLM upstream |
| Launcher (`scripts/serve-public.sh`, `serve.sh`) | the container; a deadline | reuse a healthy server, start one, poll, exec the gateway | Docker, the gateway |
| PLE short convolution (`ple_layer.py`, `ops_ple.py`) | a window of past rows per cache slot | decode, prefill, verification of drafts | vLLM's metadata, Mamba alignment |
| PLE n-gram ids (`ple_layer.py`, `ops_ple.py`) | the requests' tokens and computed counts, which it reads | `prepare_inputs`, `compute_ngram_ids` (kernel and host code), primes, offsets and multipliers of the hash | the gather |
| PLE gather and disk table (`model_state.py`, `ple_layer.py`, `ple_mmap.py`, `vllm_ple_mmap.py`) | pinned host buffer, staging buffer, read tasks, the device's stream; shards on disk | stage, gather, copy, clear the padding, replay; open, slice, look up | n-gram ids, the forward pass |
| Mamba state alignment (`mamba_utils_guarded.py`, `patch_mamba_block_size.py`) | `mamba_state_idx` and block tables per request, accepted counts, a count of skipped copies | preprocess, precopy, postprocess, cleanup, the guarded block copy | short convolution, prefix cache |
| QSA cache (`ops_qsa.py`, `qsa.py`) | a ring of raw rows per request, compressed groups, the selection of each row | store, compress, select, attend in splits, merge | scheduler's slots, draft steps |
| MTP draft head (`mtp_draft_vocab.py`) | selections kept from step 0, `skip_topk`; a reduced head and its ids | run a draft step, compact selections; logits of the chosen ids | drafts, QSA, quantization |
| Hybrid checkpoint (`prepare-hybrid.sh`, `fp8_convert.py`, `vllm_fp8_hybrid_modelopt.py`) | a directory of links, shards and an index; `.prepared` | copy links, detach the index, convert a shard, write the index, mark; scan | loading of weights |
| Quantization algorithms (`modelopt.py`) | lists of algorithms and exclusions by name | map names, renumber, resolve | draft head, loading of weights |
| Capture of CUDA graphs (`compilation.py`) | mode, splitting ops and capture sizes | choose splits, sort sizes, resolve for profiling and for serving | the gather inside a pass, drafts |
| Hybrid blocks (`platforms_interface.py`, page geometry of `qsa.py`) | block sizes, padded pages | align to Mamba pages, align to skipped layers | KV cache pool |
| Dashboard, benchmarks, image build, the rest of the vendored vLLM files | none of their own, or third-party | | |

What is hard in each, and what makes it correct:

- **Gateway.** A handler is atomic between its awaits, but `save()` is a write, a
  rename and a `stat`, between which other processes act, the disk may fill up and
  the machine may stop. Correct means: what the API acknowledged (a key issued, a
  key revoked) is true for ever after, through crashes and reloads; counters never
  go back; an edit is noticed and never lost; nobody is locked out; counters reach
  the disk.
- **Short convolution.** One slot serves one request after another and is never
  cleared, and a verified draft writes rows that are then rejected. Correct means
  that each row sees the accepted tokens before it, as in a causal convolution.
- **Mamba alignment.** State moves between cache blocks on either side of a forward
  pass, at a column that depends on how many drafts were accepted. Correct means
  that a step reads the state after exactly the computed tokens, and that a cached
  block holds the state at its boundary.
- **Gather of rows.** The host fills one pinned buffer for step after step, through a
  pool of read tasks, while the device still has to execute the copy of the step before;
  the staging buffer is shared by padded batches, profiling and replayed graphs. Correct
  means that a pass reads the rows of its own step, and zeros in its padding.
- **Ids and tables.** Two implementations of one hash, chunks cut anywhere, drafts rolled
  back; shards, chunks and slices that end in different places. Correct means: as a
  reference over the whole request, or the whole table.
- **QSA and drafts.** A group is compressed from rows of which some are in a ring that
  rejected drafts were written to; draft steps after the first reuse the
  selections of the first, from compacted rows. Correct means that a group is pooled from
  its own rows, and that a draft attends what was selected for its own request in its own round.
- **Hybrid checkpoint.** The script may die between any two steps and be run again, most
  entries are links into a snapshot that must not change, and names differ between
  checkpoint, model and draft head. Correct means that what is marked prepared is whole.
- **Capture modes and pages.** A mode passes through three rewrites and is resolved twice;
  three kinds of layers must end up with equal pages. Correct means that no graph is
  captured that cannot run, and that serving does as profiling measured.
- **Launcher.** A timeout races a container that exits or becomes healthy.

## Modules

| Module | What it is |
|---|---|
| `GatewayConfig` | the document in `gateway.json` and the pure part of `Config`: `new_key`, `_normalize`, the merge of counters in `reload_if_changed` |
| `Gateway` | the process, the file and its other writers: one action per handler, per step of `save()`, per outcome of a watcher tick |
| `MCGateway` | label sets, urls and sets of mishaps for TLC |
| `GatewayProofs` | type correctness, acknowledgements, counters; nobody is locked out; clean means persisted |
| `ConvWindow` | pure: what each mode of `ple_conv` reads from a window and writes back |
| `CausalConv` | abstract: a causal convolution over the accepted tokens |
| `ShortConv` | one cache slot and its requests; implements `CausalConv` |
| `ShortConvProofs` | the window is the accepted history; the refinement |
| `ConvWindowProofs` | lemmas: each write-back takes a window that holds to one that holds |
| `MambaAlign` | one request's recurrent state in the columns of its block table, before and after every forward pass, and the requests that take its full blocks as a prefix |
| `MambaAlignProofs` | layout and contents of the columns: its five theorems |
| `StepInputs` | abstract: a pass finds the rows of its own step |
| `PleStaging` | host, read pool, pinned buffer, stream and staging buffer; implements `StepInputs` |
| `NgramIds` | the n-gram ids of a batch, by the kernel and by the host code, against a reference |
| `HashLayout` | multipliers, primes, offsets and row ids of the hash |
| `PleTable` | the three readers of the table |
| `PleProofs` | what each queued pass will find and the refinement; widths and rows of the hash; ids of a batch; rows of a table |
| `MCPle` | the five PLE parts, the short convolution among them, in one run |
| `QsaRing` | the ring that groups are compressed from |
| `QsaSplits` | tiles, splits and their merge |
| `DraftSteps` | a round of the draft head and the selections its steps share |
| `DraftVocab` | the reduced vocabulary and its sharded logits |
| `QsaProofs` | why the ring's width is enough; each column in one split; selections of a round; scores of the chosen tokens |
| `HybridCheckpoint` | preparation of the hybrid copy, with stops; the scan for fp8 layers |
| `QuantAlgo` | the algorithm that each layer of a mixed checkpoint gets |
| `CudagraphModes` | modes, splitting ops and sizes of captured graphs |
| `HybridBlocks` | blocks and pages of a hybrid cache |
| `StartupProofs` | what is decided before the server answers: checkpoint, graphs, pages, quantization |
| `Sorting` | a sorted list, and a set as a list in ascending order |
| `NatLemmas` | lemmas about numbers, sums, powers, sorted lists and concatenations that the proofs share |
| `MCCheckpoint` | a small checkpoint for `HybridCheckpoint` |
| `MCParts` | the parts that share no state, `MambaAlign` among them, in one run |

A behaviour of `MCPle` or `MCParts` belongs to one part; the others stay in their initial states.

### The gateway

State: `file` is `gateway.json` (its shape, and its document when it is JSON);
`mem` is `Config.data`; `seen` and `warned` say that `Config.stamp` and
`Config.warned` are the identity of the file as it stands; `dirty`, `tick` and
`watching` are the application state and the watcher task; `labelling` is the
`api_key_op` frame that awaits its body; `pc` and `saving` say where a `save()`
is and who called it; `editor` is the copy that a person has open. `retired`,
`retiring`, `granted`, `granting` and `pending` are history variables: what the
API has acknowledged or is about to, and an edit that nobody has read.

Actions: `Boot`, `InitReturns`, `MainReturns` are `Config.__init__` and `main`;
`Stop`, `StopReturns`, `Crash` the ends of the process; `Proxy`, `ApiConfig`,
`ApiKeys`, `Revoke`, `Rotate`, `LabelBegin`, `LabelEnd` the handlers; `TickNothingNew`,
`TickUnparseable`, `TickMalformed`, `TickReload` a watcher tick; `Replace` and
the `...Returns` actions the two steps of `save()`, `SaveFails` its `OSError`; `Editor...`
what the rest of the world does to the file. `save()` does not await, so while it
runs only `Editor...` (the mishap `race`) and `Crash` interleave with it.

What a configuration allows the surroundings is the constant `Mishaps`. Three
properties are false under some mishaps and true without them, and both halves
are runs: a wrong-shaped file locks everyone out (`gateway_bad_edit`), a failed flush
ends the watcher (`gateway_failed_flush`), and a save overwrites an edit
that the next tick would have read (`gateway_lost_edit`).

Left out: `created` and `last_used`, read-only handlers, headers and streams, and
forwarding (a request is counted before it is forwarded, and nothing that happens
upstream changes the gateway's state). Only one label request waits at a time, edits
never give two keys one id, and a tick's remainder stands for the tick.

### The short convolution

A row is a number, since channels are alike: the token at position `p` is `p` if it is
the one that stays in the request and `-p` if it is a draft that is rejected, and
a cell of a slot that was never written holds another negative number. So the
window shows whose token each cell holds. `PrefillWindow`, `DecodeWindow` and
`SpecWindow` are the three write-backs, `Taps` the reads; both kernels read ahead of
their own writes, which makes the in-place update a function of the old window.
`Prefill`, `Decode` and `Verify` are the three calls of
`_short_conv_dilated_dispatch`. Which of them a step makes, `has_initial` and the
accepted count are prepared by vLLM, outside the repository; the model
takes every choice that metadata can make: a prompt in chunks of any size (whose
last step alone samples a token), decodes in the middle of a prompt, verifications of
any length with any number accepted. The slot may go to a new request at any time.

`CausalConv` has no window and no slot. `ImplementsCausalConv` says that the rows and
taps of every launch, and the accepted tokens, are those of `CausalConv`.

### The alignment of recurrent state

A request's state lives in *columns* of its block table, one per `BlockSize` tokens
and a few for drafts. A *program* of the copy kernels moves one tensor, and the model has
two: a temporal state, which is the number of right tokens it has seen or `Bad`, and a
convolution window, as in `ConvWindow`. `kept` are the columns with a block of their own,
which vLLM caches once it is full (`Full`).

A step goes round `pc`. `SchedulePrefill` and `ScheduleDecode` are vLLM's choice of rows
followed by `Preprocess`, which picks the running column and stages the migration; the two
runners stage it differently (`preprocess_mamba_align_fused_kernel`, `preprocess_mamba`)
and are its two disjuncts. `Precopy` is one program of the kernel that migrates, `ForwardPrompt`
and `ForwardVerify` are the forward pass, `Postprocess` is one program of the kernel that saves
a block boundary which accepted drafts ran past; `RunningTokens` has the two ways it gets
at its position. Programs run in any order, and one of them resets the accepted count, while
all decide by `snapshot`, the copy of it that both launches make. `CopyBlock` is the
guarded copy: for a bad block id, which nothing in the model explains, it counts and does nothing.
`Admit` is the next request, new or resumed, that starts from a cached column of this one,
or from nothing; `SeedCol` is where `patch_mamba_block_size.py` makes it look for its state.

`StageInputs` and `LaunchPostprocess` are what the host puts aside for the post-process kernel and the copy it launches it on.

vLLM's part is taken from what the code relies on: chunks of a prompt end on block
boundaries or with the prompt (the scheduler's split, which the patch repairs); a verification
writes the state after each row to a column of its own; a decode without drafts is the
verification of one row; a column is a block from its first use as running column on.
`BlockAssumption` (a block is longer than a step) holds with 1600 tokens against a handful.
Without skipped copies, two requests never share more than full blocks, so one
request and the prefix it leaves behind are enough.

Left out: `cleanup_mamba_state_idx` (`Admit` seeds the column anew), the "all" mode, the unfused
copies, the tiles of a temporal copy, and the report of `guard_hits`.

### Rows of the PLE table

**`PleStaging`.** A row is the number of the step it was gathered for, 0 a cleared one. The host
thread goes round `host`: `PrepareInputs` enqueues the ids, `WaitForIds` waits until the device
is done with all that came before them, `ReadRows` are the tasks of the pool, which finish in
any order, `CopyRows` enqueues the copy and the clearing of the padding, `Launch` the forward
pass or the replay of its graph. `Execute` is the device, which takes the operations of its
stream in order and reads the pinned buffer only when it executes the copy. `PrepareDummy` is a
profiling batch, an empty one or a capture. `ReadFails` is a short read or an `OSError`, after which
the other tasks of the step still write. The values of `path` are three implementations:
`staged` (before the pass), `lookup` (an operator inside it) and `placeholder`
(`vllm_ple_mmap.py`, whose tasks fill an array of the call first).

`StepInputs` has no stream and no buffer: passes run in the order of their steps, each with its
own rows and zeros after them. `ForwardReadsItsStep == Steps!StepsSpec` is the refinement.

**`NgramIds`.** `Prepare` is `prepare_inputs` with a chunk per request and the context read from
the request's tokens; `Reject` rolls drafts back. `KernelIds` has the binary search for a row's
request and the walk over its predecessors, `HostIds` the packed rows and shifts. An id is the tuple
of the tokens that the hash mixes, so that equal ids mean equal tuples; both are compared with
`Reference`, which looks at the whole request.

**`HashLayout`.** The arithmetic of the same hash: odd multipliers small enough not to overflow,
a prime of its own for each head of each layer by Miller-Rabin, offsets, the row of a signed hash.
`splitmix64` is any number. The width is `IntMax`.

**`PleTable`.** A lookup is a checkpoint cut into shards, the number of shards that the configuration
expects, a shard that may be missing, and ids. The readers are the memory-mapped table with its
chunked gather, the slices that ranks keep resident and add up, and the placeholder with its sorted
unique ids cut at shards and chunks. Prewarming, readahead and the fp8 scale are left out.

### Sparse attention and drafts

**`QsaRing`.** A row is its position, or `Stale` when it was rejected or belongs to an earlier request.
`Step` pools the groups that end in the step, from the step's rows and the ring, and then stores the rows,
of which only the last `RingSize` have a slot (`HasSlot`: the slot mapping is vLLM's, the kernel skips rows without one). `AdmitRequest` hands the block on without clearing
it. The code checks `RingSize >= CompressRatio` (`ops_qsa.py:879`); what a batch with drafts needs is
`CompressRatio + NumDrafts - 1`, which `RingAssumption` states and the proof uses.

**`QsaSplits`.** Pure: which columns of a selection each program attends, for every profile, and the merge.

**`DraftSteps`.** A selection is named after the round, the request and the position it was made for.
Step 0 selects for all rows of the target's batch; `AcceptTarget` moves the selection of each
request's last accepted row to the front (`Compacted`) and sets `skip_topk`; further steps attend what is
there. `ProfileQsa` is a pass without metadata. The loop that calls these is vLLM's.

**`DraftVocab`.** Pure: ids from a count or a file, cut over the ranks of the head, logits summed and spread
over the full vocabulary.

### Checkpoint, quantization, capture, pages

**`HybridCheckpoint`.** One action per step of `prepare-hybrid.sh` and of the converter: an entry is absent,
a link or a file, moving a shard away and saving its conversion are two steps, and so are emptying and
writing the index. `Stop` may come before any of them (failure or power loss), and the script may be
run again. Writing to an entry that is a link writes to the snapshot, and so does changing its mode:
`OpenEntry` is the `chmod` of one entry, and `modes` are those of the snapshot's files, which the download made with
`DownloadMode`. The modes of the copy's own files are left out. `IsFp8Layer` is how the server then
tells which layers to load as fp8, by names cut at `layers.`. The loader takes both types and scales from the headers of the
shards; `Scanned` looks for the scales in the index, which lists the same ones once the copy is prepared, and
`LoadsWhatIsStored` speaks of prepared copies only.

**`QuantAlgo`.** A checkpoint is made with an algorithm for each part of each layer, listed under names of
its own; vLLM's names are mapped, fused and, for the draft head, renumbered. `Methods` is what
`get_quant_method` then finds. A name is the sequence of its components.

**`CudagraphModes`.** `SetSplittingOps`, `PostInitSizes` and twice `Resolve`, for any configuration, backend
support, number of rows per request and runner.

**`HybridBlocks`.** `UpdateBlockSize` for any head size, cache type, Mamba page and mode; pages in bytes. `Give` is phase 1: the
block is the backend's, a multiple of the kernel's, or the user's (`UserBlocks`), which nothing compares with the kernel's.

## Runs

| Run | Question | Instance | Result |
|---|---|---|---|
| `gateway_mishaps` | does what the API acknowledged stay true, and do counters never go back, under every mishap? | 2 drawn secrets beyond the first, 1 counted request per key, 2 edits, 1 failed save, flush every 2nd tick | holds |
| `gateway_tame` | is someone always let in, does a clean gateway agree with the file, and is an unread edit ever taken for the gateway's own write? | the same with 2 requests; files that do not parse or vanish | holds |
| `gateway_live` | are counters flushed and edits read, whatever the file looks like? | 1 edit, no failed save | holds |
| `gateway_bad_edit` | does a bad edit leave the configuration alone? | 1 malformed edit | violated |
| `gateway_lost_edit` | is an edit picked up? | 1 edit | violated |
| `gateway_label` | does a label reach the key of its request? | 2 labels | violated |
| `gateway_failed_flush` | are counters persisted after one failed flush? | 1 failed save | violated |
| `ple_step` | does a pass read its own step's rows and is every prepared step executed; are ids, rows of the table and the hash right; is the convolution's window the accepted history, and is the convolution causal? | see below | holds |
| `mamba_align` | nine parts: states over columns, ring, splits, draft steps and vocabulary, capture, pages, hybrid checkpoint, quantization | see below | holds |
| `mamba_guard` | does a skipped copy hurt only its own request? | 2 taps, 1 draft, blocks of 2, 6 tokens, 1 skipped copy | violated |
| `hybrid_pages` | do all layers end up with equal pages? | as in `mamba_align` | violated |
| `nothing_touched` | is nothing in the snapshot touched, modes included? | as in `mamba_align`, files downloaded with mode 600 | violated |

Why the bounds are enough. The proofs named below do not depend on any of them.

- *Gateway.* `FlushEvery` is 10 in the code; with 2, both kinds of tick occur and the counter
  wraps. Two fresh secrets after the one of the first start allow a key to be issued and
  rotated, or two issued and one revoked; two edits allow an old copy to be written back
  over what happened since it was opened.
- *Short convolution.* With 3 taps, dilation 2 and 2 drafts the window has 4 cells and 2 more
  for drafts: a chunk may be shorter than, as long as or longer than the window, and 7
  tokens overrun it after any of the three modes.
- *Alignment.* 8 tokens in blocks of 3 are two full blocks and a part of a third, so that a request
  migrates twice and its second prefix hit is longer than the first; with 2 drafts a
  boundary is hit by the sampled token, the first or the second draft. One copy may be
  skipped; `ReadsItsOwnState` and `CachedHoldsBoundary` speak of behaviours without it.
- *Staging.* Batches of up to 3 rows in tasks of 2 are one or two tasks, the last of them partial; a
  buffer of 2 rows is reused and grown; 4 steps hold every order of three normal and dummy
  steps with one more behind them, so that a copy, its padding and the pass it belongs to meet those of the steps
  on both sides.
- *Ids.* 2 requests with chunks of up to 2 tokens, one of which may be absent; 4 tokens against n-grams of 4,
  so that a context is partly before the request, wholly inside it, or crosses an end of sequence.
- *Hash.* An 8-bit width with vocabularies from 1 to the largest that fits; bases before the smallest
  primes, in gaps between them, and before a square of a prime that the trial divisions let pass (1681); every 8-bit hash. The primes of the code are larger
  by orders of magnitude and found by the same test.
- *Table.* 3 or 5 rows in up to 4 shards leave the last shard short or empty; tasks and slices of 2 rows end inside,
  at and across shards; lookups of up to 3 ids are on either side of the inline limit 2.
- *Ring.* Groups of 4 and 3 drafts in the narrowest ring of 6 rows; 14 positions go round it twice; steps of up to 8 rows are longer than the ring.
- *Splits.* Numbers of programs on either side of every threshold, widths on either side of a tile.
- *Drafts.* 3 requests, of which some may be out of the round, so that compaction both moves and keeps rows;
  two rounds and two steps after the first, so that a selection could be stale in three ways.
- *Vocabulary.* 1, 3 and 5 tokens over 1 to 3 ranks leave ranks without an own row; files of up to 3 ids are
  unsorted, repeated, out of range.
- *Capture.* Lists that are unsorted with a repetition, shorter than a multiple, past the largest; 1, 3 and 4 rows per request.
- *Pages.* A Mamba page that is absent, exactly full, and not a multiple of a token; two head sizes and kernels (4 and 16); blocks
  of the user's: a multiple of neither kernel (6), and of the smaller only (8 below the larger, 24 above it).
- *Checkpoint.* A shard with a layer split over two files and an undividable tensor, a draft shard with a layer
  number of the model, a shard with nothing to convert, whose link stays, and two runs of the script.

Fairness. `gateway_live` and `gateway_failed_flush` assume that `save()` returns
(it does not wait for anything; a crash may still come first) and strong fairness of
the watcher's tick: `asyncio.sleep(1)` ends and the loop runs the task,
however many requests keep arriving and start saves in between. Nothing
obliges anyone to start the gateway, to send requests or to edit the file.
`ple_step` assumes weak fairness of the host thread once a step is begun (`HostStep`), of each read task
(`ReadRows`: the pool has threads, a task waits for nothing but the disk) and of the device (`Execute`: a stream is
executed in order). Nothing obliges a new step to be prepared or a read to fail.

Deadlock is checked except in `gateway_mishaps`, `gateway_live` and `gateway_bad_edit`, where a
malformed file keeps the gateway from starting for ever once the edits are spent, and in
`ple_step`, `mamba_align`, `nothing_touched` and `hybrid_pages`, whose parts end: a lookup, a configuration or
the bounded steps and runs are done, a failed read has ended its process, a raised error the start.

## Findings

The seven violated runs are disagreements between the code and what it says of
itself; `PROJECT.json` quotes the lines.

1. `reload_if_changed` empties the configuration before `update()` can raise, so a file
   that is JSON but no object locks out every client and the operator, while the
   watcher reports that it keeps the current configuration.
2. `save()` never looks at the file, so an admin request or a shutdown within a second of
   an edit overwrites it.
3. A label request computes an index before it awaits its body and uses it
   afterwards.
4. The periodic flush is outside the watcher's `try`: one `OSError` ends the task.
5. The guard's comment says that a skipped copy leaves one request with a stale state. The
   request goes on computing and its blocks are cached as any others, so later requests start
   from the stale state too.
6. The alignment of blocks leaves no padding hint for a Mamba page that equals the attention
   page to the byte. If skipped layers then make the attention block grow, the hint is still
   not set, and the Mamba page stays smaller than the others.
7. `prepare-hybrid.sh` says that nothing in the original snapshot is touched, but its `chmod 644` follows the links of the shards
   that were not converted: the mode of the snapshot's files changes if the download gave them another. Their contents
   never change (`SnapshotKeepsContents`, checked and proved).

Noticed while modelling, and not the subject of a run:

- The double check of `resolve_cudagraph_mode_and_sizes` after its downgrades
  (`compilation.py:1470-1480`) never fires: a backend without support has already lost its full graphs or raised.
- A user who asks for `PIECEWISE`, as the gather inside a pass requires, gets `FULL` if attention
  is fused with quantization or sequence parallelism is on; `PiecewiseStaysPiecewise` names these exceptions.
- `RowsAttendOwnSelection` does not hold for a draft head of two layers, whose later steps would read
  a buffer that its layer did not fill; the model served has one, and so has the run.
- `LoadedAsQuantized` does not hold for two draft layers either. `modelopt.py:1710-1722` looks a draft layer up under all numbers
  from 0 on, to offer its own number in the checkpoint for "single- and multi-layer MTP"; the first one listed wins. With
  `NumDraftLayers = 2`, `NumLayers = 1` and no algorithm for linear layers, TLC under `QuantSpec` finds that experts of draft
  layer 1 made with FP8_BLOCK_SCALES are loaded as NVFP4, the algorithm of draft layer 0.
- Nothing in `src/` compares the block of a user's `--block-size` with what the kernel can address (`platforms_interface.py:629`
  skips phase 1 for it), although the docstring at line 611 speaks of a compatible size and the comments at 668 and 745 of a
  kernel-aligned block. A block of 24 with `MultipleOf(16)` makes phase 2 grow the block in steps of 24; a block of 6 or 8 without a Mamba page is kept.
  `StatesFitTheirPages` states this case: it is the second disjunct of `Addressable`, and TLC reaches it. vLLM may refuse such
  a block elsewhere.
- `GraphsAreSupported` says nothing of piecewise graphs that were asked for: with compilation off, or a model without splits, the resolution
  keeps such a mode (`compilation.py:1394-1480` looks at full graphs only). Whether it is possible is decided before, in part by vLLM.
- The ring check at `ops_qsa.py:879` admits widths that rejected drafts can spoil; who allocates
  the ring has to know better.
- A linear layer listed with `FP8_BLOCK_SCALES` is loaded unquantized without a word.
- An exclusion is a part of a name: `layers.1` is also a part of `layers.10`. The model compares
  components, so this is outside it.
- `fp8_convert.py` run again by hand on a converted shard would convert it twice; `prepare-hybrid.sh`
  clears the copy first, and that is what `PreparedIsWhole` rests on.

## Proofs

All are checked by TLAPS from the named assumptions on constants, each beside the CONSTANTS of its
module. Most say that sizes are naturals and that defaults belong to their sets. The ones with content:

- `BlockAssumption`: a block is longer than a verification.
- `RingAssumption`: the ring holds a group and the drafts that may follow it.
- `CheckpointAssumption`: no tensor is in two shards, the index is no shard, and a layer of the model has a number
  below `NumHidden`, which is where those of draft layers begin.
- `QuantAssumption`: no algorithm is called as the model's own outcomes are, and the model has a layer.
- `HybridAssumption`: head sizes are multiples of 16, as the kernels want, and the kernel block divides the
  indexer's alignment.
- `CudagraphAssumption`: a list of capture sizes is not empty and has no zero.

Where a theorem holds under a condition only, the condition is in its statement or in the property it states. What vLLM does is not an
assumption but part of the models, as the sections above say: its scheduler's chunks, the slots of the ring, the specs of pages.

**`GatewayProofs`.** `TypeCorrect` is one lemma per action. `RetiredStaysDead` and
`IssuedIsDurable` are not inductive: between the change of memory and the
return of `save()` a secret is neither in use nor acknowledged. `AckInv` follows it
through: at `stamp` the file already says what memory says of the secrets of the call
in progress, a call in progress is an admin save, and no secret anywhere is one
still to be drawn, without which a rotation could draw a retired secret again. The
theorems `RevocationIsPermanent` and `IssueIsDurable` are its conjuncts.

`CountersOnlyGrow` is about steps: a reload gives each key on disk the larger of its counter and that of the key in memory with
the same `id`. Its invariant `IdsInv` is therefore that ids are unique
and drawn already, in memory, in the file and in the copy that an editor has open, since any of them may come back.

`ServesSomeone` assumes that no malformed file turns up:
`KeysInv` says that a document in memory while the process runs has a token and a
key, except before `_normalize`. `CleanIsPersisted` assumes that nobody writes
inside a `save()` and no write fails; its invariant `PersistInv` adds what holds inside a
save: at `stamp` the file is what memory holds.

`EditsStandOut` assumes that nobody writes inside a `save()`: `UnreadInv` adds that
no edit is unread at `stamp`, where the identity of the file is taken. `NextTickReads` is
what the comment of `Config` promises, with a tick for its second: the first look of the watcher
after an edit reads it. `WatcherFlushes` assumes that no write fails. The watcher then lives as
long as the gateway serves (`WatcherLives` says so of the saves as well), nothing but the watcher moves its
tick, and a tick on a gateway with counters to flush saves or is one nearer to the tick that does. These two are
all of `EditIsNoticed` and `DirtyIsFlushed` but that ticks go on coming and saves return, which is what the fairness says.

**`ConvWindowProofs`, `ShortConvProofs`.** `Holds(w, off, n)` says that `w` read from `off` is the history
of `n` accepted tokens. `PrefillHolds`, `DecodeHolds` and `SpecHolds` say that each
write-back takes a window that holds to one that holds; `TapsAreCausal` that a launch
reading a window that holds has causal taps. The invariant needs one thing more:
after a chunk that does not complete the prompt there is nothing to roll back
(`NothingToRollBack`), since the next chunk reads from cell 0. The refinement
`ConvolutionIsCausal` then maps each of the actions to `Launch` or `Admit`.

**`MambaAlignProofs`.** `AlignInv` has two halves. `Layout` is about columns and counts only: the
running column is that of the last row of the step (`StepFits`), a prompt in progress has filled whole columns, and
only the running one of those with a block is not full (`PromptFillsColumns`), the last token's column has a block
(`LastTokenKept`), and the counts of a step agree with each other on either side of the pass. It is inductive
alone, skipped copies or not, and gives `AlignTyped`, `SavesStayInBlocks` and `CachedStaysFrozen`. `Contents`
says what the tensors hold while no copy was skipped: full columns are right, and for each program that has
or has not run, where the state of the computed tokens is (`StateBefore`, `StateAfterT`,
`StateAfterC`). It uses the lemmas of `ConvWindowProofs`, and gives `StateIsFound` and
`CachedIsBoundary`. Division by `BlockSize` is kept out of the provers' way by `Upto(k)`, the tokens of the
first `k` columns, and a few linear lemmas about it; `NewlyFull`, `SavedColumnIsKept` and
`OneMoreColumn` carry the argument that what becomes full in a step is either written by it or saved after it.

**`PleProofs`.** *Staging.* Neither `PinnedIsStable` nor `CopiesOwnRows` is inductive. `StagingInv` adds that the stream is empty while rows
are gathered (`GatherAlone`), which rows have arrived (`RowsOnTheWay`), that queued passes come in the order of their
steps (`PassesInOrder`), and the central `PassesFindRows`: what each queued pass will find in the staging buffer once
the operations before it have run. `StagingImplementsSteps` follows, as `Execute` of a pass is `Forward` of
`StepInputs` and all else a stutter.

The argument for `StepsComplete` is proved except for its last step. `NobodyWaitsInACircle`: while a step is neither
executed nor failed, the guard of the host, of a read task or of the device holds; its
invariant `PassIsQueued` says that a host with nothing to do has enqueued the pass of its last step.
`WorkRunsOut`: what is left to do (`Work`: of the host, the tasks, the stream) is a natural number, and every step but the
preparation of a new one makes it smaller. What remains is that whoever can move does, the fairness.

*Hash.* `ProductsStayInWidth`: the multiplier is odd and below `IntMax \div vocab`, or 1. `SizesStayPrimes` has two
hypotheses: the test is right up to some limit (`TestIsExact`), and every base has as many primes up to that limit as
there are heads (`EnoughPrimes`). For 2^64 the first is a fact of number theory, known from the complete list of the composites
below 2^64 that pass for base 2, and the second holds of every base in use; TLC confirms both for the instance (`PrimesAreFound`, up to 3000).
What is proved from them is what the code adds: `search` is a
recursion that nothing bounds, so that there is such a function at all needs a proof (`SearchExists`); it finds the first
number that passes in steps of two (`SearchFinds`), which loses no prime (`NextPrimeIs`); and the k-th number
taken is the k-th prime from the base on (`NextTaken`, `NthPrimeIs`), so that heads counted across layers
share none. `IdsStayInOwnRows` holds while the sizes are primes, and uses of them that they are positive;
`TestedIdsStayInOwnRows` joins the two. The offsets are partial sums of the sizes
(`PartialSums`), so a row between two of them belongs to one head.

*Ids.* `NgramInv` (`BatchStaysCarried`) says that the rows of the last batch carry the requests' tokens: where each request's rows
start, which position they continue, what the context holds. `IdsStayRight` follows from it: the kernel's
binary search, a recursive function, is followed by induction, its interval being halved in each of its steps, to the one request whose rows
include the row, empty requests or not; its walk back and the host's packed rows and shifts are both the reference.

*Table.* `RowsStayReadable` has one lemma for each reader (`DiskIsRight`, `ResidentIsRight`, `PlaceholderIsRight`). Shards of one size,
the last ones shorter or empty, hold each row where quotient and remainder say (`ShardHasRow`); exactly one rank has a row, so
that the sum is that row (`SumOfOne`); and the tasks of the placeholder, which end at shards and at chunks, cover the
sorted distinct ids (`TasksCoverIds`).

**`QsaProofs`.** *Ring.* `RingInv` joins the property with `RingHoldsGroup`: the rows that the next group still needs are in
their cells. That a rejected draft cannot reach these cells is arithmetic modulo the ring's size,
kept in lemmas about quotients and remainders.

*Splits.* `EachSelectedOnce`: the tiles cover the width, split `s` begins at tile `(s * tiles) \div splits`, and these starts rise from 0 to
`tiles`, so that the tile of a column lies in one split, and in one that the merge does not mask.

*Draft steps.* `DraftsAttendTheirOwn` has the hypothesis `NumMtpLayers = 1`, which is the model served; it is false for
two (see above). `DraftInv` says that indices are reused exactly after step 0, and that then the first rows of the buffer are the
selections of the step's rows; that `rowsOf` fits the buffer is `MaxRowsOf` rows for each request, added up.

*Vocabulary.* `ChosenStayScored`: the ids are distinct and in order, each has one owner among the ranks, as `ShardStart` is
monotonic from 0 to the size of the vocabulary, so the sum over ranks has one term that is not 0.

**`StartupProofs`.** *Checkpoint.* `CheckpointInv`: the index has become a file before it is written (`MadeOfLinks`), every
shard that is not pending has been converted once (`Converting`), and `listed` has the scales of the shards done
(`Listing`). It gives `PreparedStaysWhole`, and with `LinkedInv` (a shard whose mode has changed has nothing to convert)
`SnapshotStaysWhole`, for any number of shards, tensors and stops.
`LoadsOnlyWhatIsStored` is about the scan of a whole copy: a draft layer and a layer of the model never share a number.

*Graphs.* `CudaInv` follows a mode through its rewrites. `GraphsStaySupported` and `StaysPiecewise` are what is left of it at the end; the first needs
`SplitInv` besides, that piecewise graphs which nobody asked for are of a model split at its attention. `SizesStayWhole`
is about rounding and sorting (`SortedKeeps`), and `ServesTheProfiled` is an action property: resolving a second
time changes nothing, because the rewrites are idempotent and rounded sizes are multiples already.

*Pages.* `Unified` relates the three pages of an updated configuration, the exception of finding 6 included; it gives `PagesStayEqual`
and `StatesStayWhole`. Block sizes are rounded up in three places, and the lemmas follow a configuration through them; `Addressable` is
kept by each (`AlignHybridAligns`, `AlignHeterogeneousUnifies`): what a user's block makes the kernel unable to address is a multiple of that block.

*Quantization.* `LayersLoadAsQuantized` has the hypothesis of at most one draft layer, which holds for the model served; the counterexample
without it is among the remarks above. A name is a root, a number and a path, and names agree only if all three do (`NamesMap` and the
lemmas before it). `QuantInv` says, for each of the three stages, what the lists hold in the names of that stage: `GivenInv`
those of the checkpoint, `MappedInv` those of vLLM, `ReadyInv` those of the draft head. From `ReadyInv`, looking up a layer
under any of its candidates finds entries of that layer and part only, and excluded is what has no algorithm.

**`NatLemmas`.** The library's induction takes an operator as a parameter, so induction is stated here for sets: `NatInSet` (a set with 0 and the
successors of its members has all naturals), from `LeastNat`, and with it `RecursionUpTo` (a function
defined by recursion on an interval is what its equation says). Sums over sets (`SumTakesOut`, `PartialSums`, `SumOfOne`), powers of two,
quotients, and sorting (`SortedKeeps`, `AscendingNames`) rest on these two.

Only model-checked: the liveness properties `DirtyIsFlushed`, `EditIsNoticed` and `StepsComplete`. There is no prover for
fairness here; what they rest on besides is proved, as said above. Of the invariants that the runs check, each is stated by a
theorem.

## Not modelled

- *Launcher.* Its state is the container's and its answers are Docker's and vLLM's, of which the repository says nothing.
- *Numerical kernels*: scores and top-k of the selection, softmax, rotary embedding, gating, block quantization. They keep no state;
  what they read and write is modelled where it is.
- *Alignment*: `cleanup_mamba_state_idx` (`Admit` seeds the column anew), the "all" mode, the unfused
  copies, the tiles of a temporal copy, and the report of `guard_hits`, which lags by 512 steps.
- *vLLM files*: the branches of MLA and TurboQuant, the other ModelOpt configurations and weight loaders, custom ops,
  compile sizes, hashes and platform queries.
- *Draft head*: the arithmetic of the head and the renaming of its weights.
- The dashboard's HTML and read-only handlers, downloads, benchmarks and the image build: no state of their own.

What would come next: an abstract ledger of acknowledged keys that `Gateway` implements; a refinement of `CausalConv` by requests that start from a cached prefix.

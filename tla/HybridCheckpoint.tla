-------------------------- MODULE HybridCheckpoint --------------------------
(***************************************************************************)
(* The hybrid checkpoint: a copy of the snapshot whose dense layers are    *)
(* rewritten as blockwise fp8, one shard after the other                   *)
(* (scripts/prepare-hybrid.sh, tools/fp8_convert.py), and how the server   *)
(* tells the layers it must load as fp8 (vllm_fp8_hybrid_modelopt.py).     *)
(* The machine may stop between any two steps, and the script be run again.*)
(*                                                                         *)
(* The copy is made of links; an entry that is not a link has contents of  *)
(* its own.  A shard is its tensors, the index the scales it lists.        *)
(***************************************************************************)
EXTENDS Integers, FiniteSets

CONSTANTS
    Shards,         \* names of the shards
    Placed(_),      \* shard -> its tensors, [root, layer, unit]
    Undividable,    \* tensors whose shape is not a multiple of 128
    NumHidden,      \* num_hidden_layers
    DownloadMode,   \* mode of the downloaded files, which the umask of the download decides
    MaxRuns         \* bound: runs of the script

Tensors == UNION {Placed(f) : f \in Shards}

Index == "model.safetensors.index.json"
Entries == Shards \cup {Index}

ASSUME CheckpointAssumption ==
    /\ Undividable \subseteq Tensors /\ NumHidden \in Nat \ {0} /\ MaxRuns \in Nat
    /\ \A f, g \in Shards : f # g => Placed(f) \cap Placed(g) = {}
    /\ Tensors \subseteq [root : {"model", "mtp"}, layer : Nat, unit : STRING]
    /\ \A t \in Tensors : t.root = "model" => t.layer < NumHidden
    /\ Index \notin Shards

\* An entry of the copy: missing, a link to where the snapshot's own links point, a file.
Absent == [kind |-> "absent", data |-> {}]
Link == [kind |-> "link", data |-> {}]
File(data) == [kind |-> "file", data |-> data]

VARIABLES
    job,        \* what the container does next; "none" when it does not run
    inHand,     \* the shard whose entry was moved away, and its converted tensors
    runs,       \* of the script
    blobs,      \* contents of the snapshot's files
    modes,      \* and their permissions
    copy,       \* entries of the copy
    backup,     \* entries <shard>.bf16.bak
    listed,     \* scales of the index in the converter's memory
    pending,    \* shards it has still to convert
    prepared    \* .prepared exists

checkpointVars == <<job, inHand, runs, blobs, modes, copy, backup, listed, pending,
                    prepared>>

\* A shard is a set of pairs of a tensor and its type.
Published == [e \in Entries |-> IF e = Index THEN {} ELSE Placed(e) \X {"bf16"}]

CheckpointInit ==
    /\ job = "none" /\ inHand = <<>> /\ runs = 0 /\ prepared = FALSE
    /\ blobs = Published /\ modes = [e \in Entries |-> DownloadMode]
    /\ copy = [e \in Entries |-> Absent] /\ backup = [f \in Shards |-> Absent]
    /\ listed = {} /\ pending = {}

\* TARGETS: the dense layers of the target model.
DenseUnits == {"linear_attn.in_proj_qkv", "linear_attn.in_proj_z", "linear_attn.out_proj",
               "self_attn.q_proj", "self_attn.k_proj", "self_attn.v_proj", "self_attn.o_proj",
               "mlp.shared_expert.gate_proj", "mlp.shared_expert.up_proj",
               "mlp.shared_expert.down_proj"}
TARGETS == {t \in Tensors : t.root = "model" /\ t.unit \in DenseUnits}

ReadEntry(e) == IF copy[e] = Link THEN blobs[e] ELSE copy[e].data

-----------------------------------------------------------------------------
\* The container's name keeps a second run out while one is under way.
Prepare ==
    /\ job = "none" /\ ~prepared /\ runs < MaxRuns
    /\ job' = "clear" /\ runs' = runs + 1
    /\ UNCHANGED <<inHand, blobs, modes, copy, backup, listed, pending, prepared>>

\* Variant, for a mutation: what an earlier run left is kept.
Cleared_Kept == copy

\* rm -rf.
Cleared == [e \in Entries |-> Absent]

Clear ==
    /\ job = "clear" /\ job' = "links"
    /\ copy' = Cleared /\ backup' = [f \in Shards |-> Absent] /\ prepared' = FALSE
    /\ UNCHANGED <<inHand, runs, blobs, modes, listed, pending>>

\* cp -a, an entry at a time.
CopyLinks ==
    LET missing == {e \in Entries : copy[e] = Absent}
    IN  /\ job = "links"
        /\ \/ \E e \in missing : copy' = [copy EXCEPT ![e] = Link] /\ UNCHANGED job
           \/ missing = {} /\ job' = "detach" /\ UNCHANGED copy
        /\ UNCHANGED <<inHand, runs, blobs, modes, backup, listed, pending, prepared>>

\* Variant, for a mutation: the index stays a link.
Detached_Not == copy

\* cp --remove-destination: the index becomes a file of the copy.
Detached == [copy EXCEPT ![Index] = File(ReadEntry(Index))]

DetachIndex ==
    /\ job = "detach" /\ job' = "load"
    /\ copy' = Detached
    /\ UNCHANGED <<inHand, runs, blobs, modes, backup, listed, pending, prepared>>

LoadIndex ==
    /\ job = "load" /\ job' = "convert"
    /\ listed' = ReadEntry(Index)
    /\ pending' = {f \in Shards : Placed(f) \cap TARGETS # {}}
    /\ UNCHANGED <<inHand, runs, blobs, modes, copy, backup, prepared>>

\* block_quant reads any type as values: an fp8 tensor loses its scale.
Quantized(t, type) ==
    IF t \notin TARGETS \/ t \in Undividable THEN type
    ELSE IF type = "bf16" THEN "fp8" ELSE "broken"

Converted(f) == {<<p[1], Quantized(p[1], p[2])>> : p \in ReadEntry(f)}

\* The shard was read and converted; its entry moves to .bf16.bak.
MoveShard ==
    \E f \in pending :
        /\ job = "convert" /\ copy[f] # Absent
        /\ job' = "save" /\ inHand' = <<f, Converted(f)>>
        /\ listed' = listed \cup ((Placed(f) \cap TARGETS) \ Undividable)
        /\ backup' = [backup EXCEPT ![f] = copy[f]]
        /\ copy' = [copy EXCEPT ![f] = Absent]
        /\ UNCHANGED <<runs, blobs, modes, pending, prepared>>

SaveShard ==
    /\ job = "save" /\ job' = "convert" /\ inHand' = <<>>
    /\ copy' = [copy EXCEPT ![inHand[1]] = File(inHand[2])]
    /\ pending' = pending \ {inHand[1]}
    /\ UNCHANGED <<runs, blobs, modes, backup, listed, prepared>>

\* Writing to an entry goes through a link.
WriteIndex(scales) ==
    IF copy[Index] = Link
    THEN blobs' = [blobs EXCEPT ![Index] = scales] /\ UNCHANGED copy
    ELSE copy' = [copy EXCEPT ![Index] = File(scales)] /\ UNCHANGED blobs

\* open(path, "w") empties the index before it is written.
TruncateIndex ==
    /\ job = "convert" /\ pending = {} /\ job' = "dump"
    /\ WriteIndex({})
    /\ UNCHANGED <<inHand, runs, modes, backup, listed, pending, prepared>>

DumpIndex ==
    /\ job = "dump" /\ job' = "check"
    /\ WriteIndex(listed)
    /\ UNCHANGED <<inHand, runs, modes, backup, listed, pending, prepared>>

\* The script counts the scales before it goes on.
CountScales ==
    /\ job = "check" /\ job' = "chmod" /\ ReadEntry(Index) # {}
    /\ UNCHANGED <<inHand, runs, blobs, modes, copy, backup, listed, pending, prepared>>

\* chmod 644 follows links: it reaches the snapshot's own file where an entry is one.
\* The glob leaves the .bf16.bak alone; the modes of the copy's files are left out.
Unopened == {e \in Entries : copy[e] = Link /\ modes[e] # "644"}

OpenEntry ==
    \E e \in Unopened :
        /\ job = "chmod" /\ modes' = [modes EXCEPT ![e] = "644"]
        /\ UNCHANGED <<job, inHand, runs, blobs, copy, backup, listed, pending, prepared>>

MarkPrepared ==
    /\ job = "chmod" /\ Unopened = {}
    /\ job' = "none" /\ prepared' = TRUE
    /\ UNCHANGED <<inHand, runs, blobs, modes, copy, backup, listed, pending>>

\* A step fails (a full disk, the round-trip assertion, no scales at all), or the
\* machine stops: set -e ends the script there.
Stop ==
    /\ job # "none" /\ job' = "none" /\ inHand' = <<>>
    /\ listed' = {} /\ pending' = {}
    /\ UNCHANGED <<runs, blobs, modes, copy, backup, prepared>>

CheckpointNext ==
    \/ Prepare \/ Clear \/ CopyLinks \/ DetachIndex \/ LoadIndex
    \/ MoveShard \/ SaveShard \/ TruncateIndex \/ DumpIndex
    \/ CountScales \/ OpenEntry \/ MarkPrepared \/ Stop

CheckpointSpec == CheckpointInit /\ [][CheckpointNext]_checkpointVars

-----------------------------------------------------------------------------
\* The scan of the safetensors headers: fp8 weights that have a scale.  The scales are
\* looked for in the index, which lists what the headers hold once the copy is prepared.
Scanned == {t \in Tensors : \E f \in Shards :
              <<t, "fp8">> \in ReadEntry(f) /\ t \in ReadEntry(Index)}

\* A layer of the server: its root, number and the units fused in it.
FusedUnits == {{"self_attn.q_proj", "self_attn.k_proj", "self_attn.v_proj"},
               {"linear_attn.in_proj_qkv", "linear_attn.in_proj_z"},
               {"mlp.shared_expert.gate_proj", "mlp.shared_expert.up_proj"}}
UnitsOf(t) ==
    LET held == {u.unit : u \in {v \in Tensors : v.root = t.root /\ v.layer = t.layer}}
        fused == {g \in FusedUnits : t.unit \in g /\ g \subseteq held}
    IN  IF fused = {} THEN {t.unit} ELSE UNION fused

\* The draft layers are numbered after those of the model.
RuntimeLayer(t) == IF t.root = "mtp" THEN NumHidden + t.layer ELSE t.layer

\* Variant, for a mutation: one shard is enough.
IsFp8Layer_Any(layer, units) ==
    \E u \in units : \E s \in Scanned : s.layer = layer /\ s.unit = u

\* _is_fp8_layer: names are compared from "layers." on.
IsFp8Layer(layer, units) ==
    \A u \in units : \E s \in Scanned : s.layer = layer /\ s.unit = u

\* Once .prepared exists the copy is whole: every shard is there, converted exactly once
\* where it should be, and the index lists its scales (prepare-hybrid.sh:31,
\* serve-legacy.sh:93).
PreparedIsWhole ==
    prepared =>
        /\ \A f \in Shards : ReadEntry(f) = {<<t, Quantized(t, "bf16")>> : t \in Placed(f)}
        /\ ReadEntry(Index) = TARGETS \ Undividable

\* No contents of the original snapshot change, though most of the copy is links into it;
\* what changes is the mode of shards that have nothing to convert (prepare-hybrid.sh:13).
SnapshotKeepsContents ==
    /\ blobs = Published
    /\ \A e \in Entries : modes[e] # DownloadMode =>
           modes[e] = "644" /\ e # Index /\ Placed(e) \cap TARGETS = {}

\* "Nothing in the original snapshot is touched" (prepare-hybrid.sh:13): the chmod of the
\* copy's shards reaches those that are links.
NothingTouched == blobs = Published /\ modes = [e \in Entries |-> DownloadMode]

\* The layers the server loads as fp8 are those whose tensors are all fp8
\* (vllm_fp8_hybrid_modelopt.py:72-124).
LoadsWhatIsStored ==
    prepared => \A t \in Tensors :
        IsFp8Layer(RuntimeLayer(t), UnitsOf(t)) <=>
            \A u \in Tensors : (u.root = t.root /\ u.layer = t.layer /\ u.unit \in UnitsOf(t)) =>
                \E f \in Shards : <<u, "fp8">> \in ReadEntry(f)
=============================================================================

------------------------------ MODULE QuantAlgo ------------------------------
(***************************************************************************)
(* Which quantization each layer is loaded with, in a checkpoint of mixed  *)
(* precision (modelopt.py, ModelOptMixedPrecisionConfig; the draft head's  *)
(* names are those of mtp_draft_vocab.py).  The checkpoint lists algorithms*)
(* and exclusions by names of its own; vLLM's layers have other names and  *)
(* fuse several of the checkpoint's.                                       *)
(*                                                                         *)
(* A name is the sequence of its components, from the root: one is a part  *)
(* of another's text when it is a prefix.  The name mapper and the matching*)
(* of fused names in exclusions are vLLM's.  The cache's scales are left   *)
(* out.                                                                    *)
(***************************************************************************)
EXTENDS Integers, Sequences, FiniteSets, SequencesExt

CONSTANTS
    LinearAlgos, ExpertAlgos,   \* quant_algo of linear layers and of routed experts
    NumLayers,                  \* num_hidden_layers
    NumDraftLayers              \* mtp_num_hidden_layers

ASSUME QuantAssumption ==
    /\ {"none", "mixed", "error"} \cap (LinearAlgos \cup ExpertAlgos) = {}
    /\ NumLayers \in Nat \ {0} /\ NumDraftLayers \in Nat

VARIABLE quant      \* the quantization configuration
QuantInit == quant = [stage |-> "unset"]

-----------------------------------------------------------------------------
\* A layer of the checkpoint, and what one holds: the kind of a part, its name in vLLM,
\* the names of its weights in the checkpoint.
CheckpointLayers == ({"model"} \X (0 .. NumLayers - 1)) \cup ({"mtp"} \X (0 .. NumDraftLayers - 1))

packed_modules_mapping(proj) ==
    CASE proj = "qkv_proj" -> {"q_proj", "k_proj", "v_proj"}
      [] proj = "gate_up_proj" -> {"gate_proj", "up_proj"}
      [] OTHER -> {}

Fused(name) == {Front(name) \o <<proj>> : proj \in packed_modules_mapping(Last(name))}

Linear(name) == [kind |-> "linear", name |-> name, units |-> Fused(name)]
Parts == {Linear(<<"self_attn", "qkv_proj">>), Linear(<<"mlp", "shared_expert", "gate_up_proj">>),
          [kind |-> "experts", name |-> <<"mlp", "experts">>,
           units |-> {<<"mlp", "experts", "0", proj>> : proj \in {"up_proj", "down_proj"}}]}

TargetRoot == <<"language_model", "model", "layers">>
HfRoot == <<"model", "language_model", "layers">>
DraftRoot == <<"mtp", "layers">>

HfName(l, path) == (IF l[1] = "mtp" THEN DraftRoot ELSE HfRoot) \o <<l[2]>> \o path

Mapped(name) == IF IsPrefix(HfRoot, name) THEN TargetRoot \o SubSeq(name, 4, Len(name)) ELSE name

\* A draft layer is numbered after those of the model.
Prefix(l, part) ==
    (IF l[1] = "mtp" THEN DraftRoot \o <<NumLayers + l[2]>> ELSE TargetRoot \o <<l[2]>>) \o part.name

\* The checkpoint was made with algorithm how[l, part] ("mixed": the weights of the part
\* differ).  Experts are listed one by one or as a whole; what is not quantized is
\* excluded, by its names or, with its whole draft layer, by a wildcard.
MakeCheckpoint(how, whole, wild) ==
    LET names(part) == IF part.kind = "experts" /\ whole THEN {part.name} ELSE part.units
        algo(l, part, u) == IF how[l, part] # "mixed" THEN how[l, part]
                            ELSE IF u = CHOOSE v \in part.units : TRUE THEN "NVFP4" ELSE "FP8"
        bare(l) == wild /\ l[1] = "mtp" /\ \A part \in Parts : how[l, part] = "none"
        listed == UNION {{<<HfName(x[1], u), algo(x[1], x[2], u)>> : u \in names(x[2])} :
                           x \in {y \in CheckpointLayers \X Parts : how[y] # "none"}}
        excluded == UNION {{HfName(x[1], u) : u \in names(x[2])} :
                             x \in {y \in CheckpointLayers \X Parts : how[y] = "none" /\ ~bare(y[1])}}
    IN  quant' =
          [stage |-> "given", how |-> how, quantized_layers |-> listed,
           exclude_modules |-> excluded,
           wildcards |-> {HfName(l, <<>>) : l \in {m \in CheckpointLayers : bare(m)}}]

\* apply_vllm_mapper: names are mapped; "path*" becomes "path" and "path.*".
ApplyMapper ==
    /\ quant.stage = "given"
    /\ quant' = [quant EXCEPT
         !.stage = "mapped",
         !.quantized_layers = {<<Mapped(e[1]), e[2]>> : e \in @},
         !.exclude_modules = {Mapped(n) : n \in @ \cup quant.wildcards},
         !.wildcards = {Mapped(n) : n \in @}]

\* _remap_ignored_layers, for the draft head's configuration.
Remapped(name) ==
    IF name[1] = "mtp" THEN [name EXCEPT ![3] = NumLayers + @] ELSE name

MakeDraftConfig ==
    /\ quant.stage = "mapped"
    /\ quant' = [quant EXCEPT !.stage = "ready",
                              !.exclude_modules = {Remapped(n) : n \in @},
                              !.wildcards = {Remapped(n) : n \in @}]

HowMade ==
    {how \in [CheckpointLayers \X Parts -> LinearAlgos \cup ExpertAlgos \cup {"none", "mixed"}] :
        \A x \in CheckpointLayers \X Parts :
            how[x] \in {"none"} \cup IF x[2].kind = "linear" THEN LinearAlgos \cup {"mixed"}
                                    ELSE ExpertAlgos}

QuantNext ==
    \/ /\ quant.stage = "unset"
       /\ \E how \in HowMade, whole, wild \in BOOLEAN : MakeCheckpoint(how, whole, wild)
    \/ ApplyMapper \/ MakeDraftConfig

QuantSpec == QuantInit /\ [][QuantNext]_quant

-----------------------------------------------------------------------------
\* is_layer_skipped: all of a fused layer's names, or any name of the experts.
IsLayerSkipped(prefix) ==
    CASE Fused(prefix) # {} -> Fused(prefix) \subseteq quant.exclude_modules
      [] Last(prefix) = "experts" -> \E n \in quant.exclude_modules : IsPrefix(prefix, n)
      [] OTHER -> prefix \in quant.exclude_modules

IsLayerExcluded(prefix) ==
    \/ IsLayerSkipped(prefix)
    \/ \E n \in quant.exclude_modules : n # prefix /\ IsPrefix(n, prefix)
    \/ \E n \in quant.wildcards : IsStrictPrefix(n, prefix)

\* Variant, for a mutation: draft layers are looked up by vLLM's number only.
Candidates_NoDraft(prefix) ==
    IF IsPrefix(TargetRoot, prefix) THEN <<prefix, HfRoot \o SubSeq(prefix, 4, Len(prefix))>>
    ELSE <<prefix>>

\* _quantized_layer_prefix_candidates: for a draft layer also the numbers from 0 on.
DraftCandidates(prefix) ==
    LET k == prefix[3]
    IN  <<prefix>> \o [j \in 1 .. IF k < 9 THEN k ELSE 9 |-> [prefix EXCEPT ![3] = j - 1]]

Candidates(prefix) ==
    CASE prefix[1] = "mtp" -> DraftCandidates(prefix)
      [] IsPrefix(TargetRoot, prefix) -> <<prefix, HfRoot \o SubSeq(prefix, 4, Len(prefix))>>
      [] OTHER -> <<prefix>>

AlgosAt(names) == {e[2] : e \in {x \in quant.quantized_layers : x[1] \in names}}
AlgosBelow(name) == {e[2] : e \in {x \in quant.quantized_layers : IsStrictPrefix(name, x[1])}}

\* The first that is not empty.
FirstOf(found) ==
    LET hits == {i \in DOMAIN found : found[i] # {}}
    IN  IF hits = {} THEN {} ELSE found[CHOOSE i \in hits : \A j \in hits : i <= j]

\* _resolve_quant_algo: the name itself, the names fused in it, those below it, those
\* beside it for experts, and fused names again; no algorithm is {}, several are an
\* error for fused names, and any of them otherwise.
ResolvedAlgos(prefix) ==
    LET candidates == Candidates(prefix)
        direct == FirstOf([i \in DOMAIN candidates |-> AlgosAt({candidates[i]})])
        fused == AlgosAt(UNION {Fused(candidates[i]) : i \in DOMAIN candidates})
        below == FirstOf([i \in DOMAIN candidates |-> AlgosBelow(candidates[i])])
        beside == IF Last(prefix) = "experts" THEN AlgosBelow(Front(prefix)) ELSE {}
        fallback == FirstOf([i \in DOMAIN candidates |-> AlgosAt(Fused(candidates[i]))])
        algos == FirstOf(<<direct, fused, below, beside, fallback>>)
    IN  IF Fused(prefix) # {} /\ Cardinality(algos) > 1 THEN {"error"} ELSE algos

\* get_quant_method: the algorithms the layer may be loaded with.
Methods(kind, prefix) ==
    LET algos == IF IsLayerExcluded(prefix) THEN {} ELSE ResolvedAlgos(prefix)
        known == {"error"} \cup IF kind = "linear" THEN LinearAlgos ELSE ExpertAlgos
    IN  IF algos = {} THEN {"none"} ELSE {IF a \in known THEN a ELSE "none" : a \in algos}

\* Each part of each layer is loaded with the algorithm its weights were made with, under
\* whichever of its names that is listed, and with none when it has none; a fused layer
\* whose weights differ is refused (modelopt.py:1608-1804, mtp_draft_vocab.py:74-89).
LoadedAsQuantized ==
    quant.stage = "ready" =>
        \A l \in CheckpointLayers, part \in Parts :
            Methods(part.kind, Prefix(l, part)) =
                {IF quant.how[l, part] = "mixed" THEN "error" ELSE quant.how[l, part]}
=============================================================================

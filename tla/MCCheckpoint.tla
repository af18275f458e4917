---------------------------- MODULE MCCheckpoint -----------------------------
(***************************************************************************)
(* A checkpoint for TLC.                                                   *)
(***************************************************************************)
EXTENDS HybridCheckpoint

\* Two layers of the model over two shards, one of whose tensors cannot be divided into
\* blocks, and a draft layer with the number of a layer of the model.
Tensor(root, layer, unit) == [root |-> root, layer |-> layer, unit |-> unit]
MCPlaced(shard) ==
    CASE shard = "s1" -> {Tensor("model", 0, "self_attn.q_proj"), Tensor("model", 0, "self_attn.k_proj"),
                          Tensor("model", 0, "mlp.experts")}
      [] shard = "s2" -> {Tensor("model", 0, "self_attn.v_proj"), Tensor("model", 1, "self_attn.o_proj")}
                    \cup {Tensor("model", 1, p) :
                            p \in {"self_attn.q_proj", "self_attn.k_proj", "self_attn.v_proj"}}
      [] OTHER -> {Tensor("mtp", 0, p) :
                     p \in {"self_attn.q_proj", "self_attn.k_proj", "self_attn.v_proj"}}
MCUndividable == {Tensor("model", 1, "self_attn.k_proj")}
=============================================================================

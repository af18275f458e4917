------------------------------- MODULE MCParts -------------------------------
(***************************************************************************)
(* The parts of the runtime that share no state, for TLC: a behaviour is   *)
(* one of a part, and the others stay as they are.                         *)
(***************************************************************************)
EXTENDS MambaAlign, QsaRing, QsaSplits, DraftSteps, DraftVocab, CudagraphModes,
        HybridBlocks, MCCheckpoint, QuantAlgo

VARIABLE part

\* Capture sizes as a user may give them: unordered, short, past the limit.
MCSizeLists == {<<4, 1, 8, 4>>, <<2>>, <<16, 10>>}

partVars == <<part, vars, ringVars, launch, draftVars, drafting, cudagraphVars, cache,
              checkpointVars, quant>>

MCInit ==
    /\ part \in {"mamba", "ring", "splits", "draft", "vocab", "cudagraph", "blocks",
                 "checkpoint", "quant"}
    /\ Init /\ (part = "mamba" \/ prompt = 1)
    /\ RingInit /\ SplitsInit /\ DraftInit /\ VocabInit /\ CudagraphInit
    /\ HybridInit /\ CheckpointInit /\ QuantInit

Rests(p, v) == IF part = p THEN TRUE ELSE UNCHANGED v

MCNext ==
    /\ UNCHANGED part
    /\ \/ part = "mamba" /\ Next
       \/ part = "ring" /\ RingNext
       \/ part = "splits" /\ SplitsNext
       \/ part = "draft" /\ DraftNext
       \/ part = "vocab" /\ VocabNext
       \/ part = "cudagraph" /\ CudagraphNext
       \/ part = "blocks" /\ HybridNext
       \/ part = "checkpoint" /\ CheckpointNext
       \/ part = "quant" /\ QuantNext
    /\ Rests("mamba", vars) /\ Rests("ring", ringVars) /\ Rests("splits", launch)
    /\ Rests("draft", draftVars) /\ Rests("vocab", drafting)
    /\ Rests("cudagraph", cudagraphVars) /\ Rests("blocks", cache)
    /\ Rests("checkpoint", checkpointVars) /\ Rests("quant", quant)

MCSpec == MCInit /\ [][MCNext]_partVars
=============================================================================

-------------------------------- MODULE MCPle --------------------------------
(***************************************************************************)
(* The parts of the per-layer embeddings, for TLC: a behaviour is one of   *)
(* staging, n-gram ids, table, hash and short convolution; the others stay *)
(* as they are.                                                            *)
(***************************************************************************)
EXTENDS PleStaging, NgramIds, PleTable, HashLayout, ShortConv

\* What the proofs suppose of the test of primes is so for the numbers of this instance.
ASSUME PrimesAreFound == TestIsExact(3000) /\ EnoughPrimes(3000)

VARIABLE part

partVars == <<part, stagingVars, ngramVars, lookup, layer, convVars>>

MCInit ==
    /\ part \in {"staging", "ngram", "table", "hash", "conv"}
    /\ StagingInit /\ NgramInit /\ TableInit /\ HashInit /\ ConvInit
    /\ part = "staging" \/ path = "staged"
    /\ part = "conv" \/ prompt = 1

Rests(p, v) == IF part = p THEN TRUE ELSE UNCHANGED v

MCNext ==
    /\ UNCHANGED part
    /\ \/ part = "staging" /\ StagingNext
       \/ part = "ngram" /\ NgramNext
       \/ part = "table" /\ TableNext
       \/ part = "hash" /\ HashNext
       \/ part = "conv" /\ ConvNext
    /\ Rests("staging", stagingVars) /\ Rests("ngram", ngramVars) /\ Rests("table", lookup)
    /\ Rests("hash", layer) /\ Rests("conv", convVars)

MCSpec == MCInit /\ [][MCNext]_partVars /\ StagingFairness
=============================================================================

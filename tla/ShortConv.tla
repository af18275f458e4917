----------------------------- MODULE ShortConv ------------------------------
(***************************************************************************)
(* One cache slot of the PLE short convolution and the requests that use   *)
(* it one after the other: chunks of a prompt, single decodes, and         *)
(* verifications of drafts of which some are accepted.                     *)
(* (_short_conv_dilated_dispatch of ple_layer.py and ple_conv of           *)
(* ops_ple.py; which of the three modes a step takes, and has_initial and  *)
(* num_accepted, are metadata that vLLM prepares outside this repository.) *)
(*                                                                         *)
(* Tokens are numbered as in CausalConv, which this module implements.     *)
(***************************************************************************)
EXTENDS ConvWindow

CONSTANT ConvTokens     \* bound: tokens of a request

ASSUME ConvTokensAssumption == ConvTokens \in Nat \ {0}

VARIABLES
    window,     \* conv_state[slot]
    prompt,     \* tokens the request came with
    inState,    \* tokens of the request that are in its state
    accepted,   \* num_accepted_tokens of the last step
    convOut     \* the rows and taps of the last launch

convVars == <<window, prompt, inState, accepted, convOut>>

C == INSTANCE CausalConv WITH MaxTokens <- ConvTokens, computed <- inState, out <- convOut

Stale == -(ConvTokens + 1)

ConvTypeOK ==
    /\ window \in Window
    /\ prompt \in 1 .. ConvTokens
    /\ inState \in 0 .. ConvTokens
    /\ accepted \in 0 .. SpecQueryLen
    /\ convOut.base + Len(convOut.rows) <= ConvTokens

ConvInit ==
    /\ window = [i \in Cells |-> Stale]
    /\ prompt \in 1 .. ConvTokens
    /\ inState = 0 /\ accepted = 1
    /\ convOut = C!NoOut

Emit(rows, taps) == convOut' = [base |-> inState, rows |-> rows, taps |-> taps]

\* The slot goes to another request, and nobody clears the window.
Admit(p) ==
    /\ prompt' = p /\ inState' = 0 /\ accepted' = 1
    /\ convOut' = C!NoOut
    /\ UNCHANGED window

\* A chunk of q prompt tokens; only a step that samples a token sets the count to 1.
Prefill(q) ==
    LET rows == C!RowsAfter(inState, q, q)
        hasInit == inState > 0
    IN  /\ inState + q <= prompt
        /\ Emit(rows, Taps(window, rows, 0, hasInit))
        /\ window' = PrefillWindow(window, rows, hasInit)
        /\ inState' = inState + q
        /\ accepted' \in IF inState + q = prompt THEN {1} ELSE {0, 1}
        /\ UNCHANGED prompt

\* One row, of a prompt or generated, after a step that left nothing to roll back.
Decode ==
    LET rows == C!RowsAfter(inState, 1, 1)
        hasInit == inState > 0
    IN  /\ inState < ConvTokens /\ accepted <= 1
        /\ Emit(rows, Taps(window, rows, 0, hasInit))
        /\ window' = DecodeWindow(window, rows[1], hasInit)
        /\ inState' = inState + 1
        /\ accepted' = 1
        /\ UNCHANGED prompt

\* Variant, for a mutation: the sampled token is counted as an accepted draft too.
Verify_CountsTwice(q, ok) ==
    LET rows == C!RowsAfter(inState, q, ok)
    IN  /\ inState >= prompt /\ inState + q <= ConvTokens
        /\ Emit(rows, Taps(window, rows, SlotOff(accepted), TRUE))
        /\ window' = SpecWindow(window, rows, accepted)
        /\ inState' = inState + ok
        /\ accepted' = ok + 1
        /\ UNCHANGED prompt

\* The sampled token and q - 1 drafts are verified, ok of the rows count.
Verify(q, ok) ==
    LET rows == C!RowsAfter(inState, q, ok)
    IN  /\ inState >= prompt /\ inState + q <= ConvTokens
        /\ Emit(rows, Taps(window, rows, SlotOff(accepted), TRUE))
        /\ window' = SpecWindow(window, rows, accepted)
        /\ inState' = inState + ok
        /\ accepted' = ok
        /\ UNCHANGED prompt

ConvNext ==
    \/ \E p \in 1 .. ConvTokens : Admit(p)
    \/ \E q \in 1 .. ConvTokens : Prefill(q)
    \/ Decode
    \/ \E q \in 1 .. SpecQueryLen : \E ok \in 1 .. q : Verify(q, ok)

ConvSpec == ConvInit /\ [][ConvNext]_convVars

-----------------------------------------------------------------------------
\* From the cell that the next step starts reading at, the window holds the last
\* StateLen accepted tokens and nothing else: no rejected draft, no token of the
\* slot's previous request, zeros before the first (ple_conv, both kernels).
WindowHoldsHistory ==
    inState > 0 =>
        \A i \in 0 .. StateLen - 1 :
            window[SlotOff(accepted) + i] = C!ValueAt(inState - StateLen + 1 + i, inState, << >>)

\* Whatever mixture of chunks, decodes and partly rejected drafts, the convolution
\* computes what a causal convolution over the accepted tokens would (the comment of
\* _ple_conv_kernel: "Roll back draft state to the last accepted token").
ImplementsCausalConv == C!Spec
=============================================================================

----------------------------- MODULE StepInputs -----------------------------
(***************************************************************************)
(* What the PLE gather promises the model: a forward pass finds, for each  *)
(* of its tokens, the table row gathered for that very step, and zeros in  *)
(* the rows that pad its batch.  Steps run in the order they were          *)
(* prepared.  No stream, no staging buffer, no worker.                     *)
(***************************************************************************)
EXTENDS Integers

CONSTANTS
    MaxTokens,      \* tokens of the largest batch (max_num_batched_tokens)
    MaxSteps        \* bound: steps prepared

VARIABLE out        \* the last forward pass: its step and the rows it read

NoForward == [step |-> 0, rows |-> << >>]

\* Row i of step s: s itself for a token of the batch, 0 for padding.
Rows(s, tokens, padded) == [i \in 1 .. padded |-> IF i <= tokens THEN s ELSE 0]

StepsInit == out = NoForward

Forward(s, tokens, padded) ==
    /\ s > out.step
    /\ out' = [step |-> s, rows |-> Rows(s, tokens, padded)]

StepsNext ==
    \E s \in 1 .. MaxSteps, padded \in 1 .. MaxTokens :
        \E tokens \in 0 .. padded : Forward(s, tokens, padded)

StepsSpec == StepsInit /\ [][StepsNext]_out
=============================================================================

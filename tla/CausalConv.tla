----------------------------- MODULE CausalConv -----------------------------
(***************************************************************************)
(* What the short convolution of ple_layer.py promises: the taps of every  *)
(* row are the tokens before it, those the request has accepted and those  *)
(* of the same launch, and zero before the first.  No window, no slot, no  *)
(* rollback.                                                               *)
(*                                                                         *)
(* The model's own output is a fixed sequence: the token at position p is  *)
(* p when it is the one that ends up in the request, and -p when it is a   *)
(* draft that verification rejects.                                        *)
(***************************************************************************)
EXTENDS Integers, Sequences

CONSTANTS
    KernelSize, Dilation, NumSpec,
    MaxTokens       \* bound: tokens of a request

VARIABLES
    computed,   \* accepted tokens the state of the request has seen
    out         \* the last launch: its first position, its rows and their taps

cvars == <<computed, out>>

NoOut == [base |-> 0, rows |-> << >>, taps |-> << >>]

\* The q rows after position n, of which the first ok are accepted.
RowsAfter(n, q, ok) == [j \in 1 .. q |-> IF j <= ok THEN n + j ELSE -(n + j)]

\* The value at position p for the rows launched after position n.
ValueAt(p, n, rows) ==
    IF p <= 0 THEN 0 ELSE IF p <= n THEN p ELSE rows[p - n]

CausalTaps(n, rows) ==
    [j \in 0 .. Len(rows) - 1 |->
        [k \in 0 .. KernelSize - 1 |->
            ValueAt(n + j + 1 - Dilation * (KernelSize - 1 - k), n, rows)]]

Init == computed = 0 /\ out = NoOut

Admit == computed' = 0 /\ out' = NoOut

Launch(q, ok) ==
    LET rows == RowsAfter(computed, q, ok)
    IN  /\ out' = [base |-> computed, rows |-> rows, taps |-> CausalTaps(computed, rows)]
        /\ computed' = computed + ok

Next == Admit \/ \E q \in 1 .. MaxTokens : \E ok \in 1 .. q : Launch(q, ok)

Spec == Init /\ [][Next]_cvars
=============================================================================

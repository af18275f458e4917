----------------------------- MODULE ConvWindow -----------------------------
(***************************************************************************)
(* The window that the dilated short convolution keeps in a cache slot,    *)
(* and what one launch of the kernels of ops_ple.py does to it for one     *)
(* request: which values the taps of a row read, and what is written back. *)
(*                                                                         *)
(* Channels are independent and alike, so a row is one number.  The kernels*)
(* write in place, but every read is ahead of the writes of its own loop,  *)
(* so the new window is a function of the old one.  A tuple of rows is     *)
(* numbered from 1, the rows of the kernels (j) and the window from 0.     *)
(***************************************************************************)
EXTENDS Integers, Sequences

CONSTANTS
    KernelSize,     \* taps of the convolution
    Dilation,       \* tokens between two taps (ngram_size)
    NumSpec         \* draft tokens verified in one step

ASSUME KernelAssumption == KernelSize \in Nat \ {0} /\ Dilation \in Nat \ {0}
ASSUME SpecAssumption == NumSpec \in Nat

StateLen == (KernelSize - 1) * Dilation
Width == StateLen + NumSpec
SpecQueryLen == NumSpec + 1

Cells == 0 .. Width - 1
Window == [Cells -> Int]

\* Variant, for a mutation: the window is not rolled back to the accepted token.
SlotOff_NoRollback(accepted) == 0

\* Where the accepted history starts after a step of which `accepted` rows counted.
SlotOff(accepted) ==
    IF accepted <= 1 THEN 0
    ELSE IF accepted - 1 <= NumSpec THEN accepted - 1 ELSE NumSpec

\* The value tap k of row j reads, the window being read from `off` if at all.
Tap(w, rows, off, readable, j, k) ==
    LET h == j + Dilation * k
    IN  IF h > StateLen - 1 THEN rows[h - StateLen + 1]
        ELSE IF readable THEN w[h + off] ELSE 0

Taps(w, rows, off, readable) ==
    [j \in 0 .. Len(rows) - 1 |->
        [k \in 0 .. KernelSize - 1 |-> Tap(w, rows, off, readable, j, k)]]

\* Decode: one row enters, whatever there was of a window moves down by one.
DecodeWindow(w, row, hasInit) ==
    [i \in Cells |->
        IF i > StateLen - 1 THEN w[i]
        ELSE IF i = StateLen - 1 THEN row
        ELSE IF hasInit THEN w[i + 1] ELSE 0]

\* Variant, for a mutation: a chunk shorter than the window keeps the cells of
\* whoever had the slot before.
PrefillWindow_Unmasked(w, rows, hasInit) ==
    [i \in Cells |->
        IF i > StateLen - 1 THEN w[i]
        ELSE IF Len(rows) + i > StateLen - 1 THEN rows[Len(rows) + i - StateLen + 1]
        ELSE w[Len(rows) + i]]

\* Prefill: the last StateLen values of window and chunk.
PrefillWindow(w, rows, hasInit) ==
    [i \in Cells |->
        IF i > StateLen - 1 THEN w[i]
        ELSE IF Len(rows) + i > StateLen - 1 THEN rows[Len(rows) + i - StateLen + 1]
        ELSE IF hasInit THEN w[Len(rows) + i] ELSE 0]

\* Verification: the accepted window without its oldest value, then every row, the
\* rejected ones included; what the rows do not reach keeps its value.
SpecWindow(w, rows, accepted) ==
    [i \in Cells |->
        IF i >= StateLen + Len(rows) - 1 THEN w[i]
        ELSE IF i + 1 > StateLen - 1 THEN rows[i + 1 - StateLen + 1]
        ELSE w[SlotOff(accepted) + 1 + i]]
=============================================================================

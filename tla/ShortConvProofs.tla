-------------------------- MODULE ShortConvProofs ---------------------------
(***************************************************************************)
(* ShortConv implements the causal convolution for every kernel size,      *)
(* dilation, number of drafts and length of requests.                      *)
(***************************************************************************)
EXTENDS ShortConv, ConvWindowProofs

-----------------------------------------------------------------------------
(* Rows and windows.                                                       *)

LEMMA Rows ==
    ASSUME NEW n \in Nat, NEW q \in Nat, NEW ok \in Nat
    PROVE  /\ C!RowsAfter(n, q, ok) \in Seq(Int)
           /\ Len(C!RowsAfter(n, q, ok)) = q
           /\ \A j \in 1 .. q : C!RowsAfter(n, q, ok)[j] = IF j <= ok THEN n + j ELSE -(n + j)
<1> DEFINE rows == C!RowsAfter(n, q, ok)
<1>1. rows = [j \in 1 .. q |-> IF j <= ok THEN n + j ELSE -(n + j)]
  BY DEF C!RowsAfter
<1>2. rows \in [1 .. q -> Int]
  BY <1>1
<1>3. rows \in Seq(Int) /\ Len(rows) = q
  <2> HIDE DEF rows
  <2> QED  BY <1>2, RowsOf
<1> QED  BY <1>1, <1>3

LEMMA HoldsIsHistory ==
    ASSUME inState \in Nat
    PROVE  WindowHoldsHistory <=> (inState > 0 => Holds(window, SlotOff(accepted), inState))
BY Reach DEF WindowHoldsHistory, Holds, C!ValueAt

\* A launch that reads the history, or nothing before the first token, has causal taps.
LEMMA TapsAreCausal ==
    ASSUME NEW n \in Nat, NEW rows \in Seq(Int), NEW w, NEW off \in Nat, NEW readable \in BOOLEAN,
           n > 0 => readable /\ Holds(w, off, n),
           n = 0 => ~readable
    PROVE  Taps(w, rows, off, readable) = C!CausalTaps(n, rows)
<1>1. Len(rows) \in Nat
  BY LenProperties
<1>2. ASSUME NEW j \in 0 .. Len(rows) - 1, NEW k \in 0 .. KernelSize - 1
      PROVE  Tap(w, rows, off, readable, j, k)
               = C!ValueAt(n + j + 1 - Dilation * (KernelSize - 1 - k), n, rows)
  <2> DEFINE d == Dilation * k
             h == j + d
             p == n + j + 1 - Dilation * (KernelSize - 1 - k)
  <2>1. StateLen \in Nat /\ d \in Nat /\ p = n + h + 1 - StateLen /\ h \in Nat
    BY <1>1, Reach, SMTT(60)
  <2> HIDE DEF d, p
  <2>2. CASE h > StateLen - 1
    <3>1. p > n /\ p > 0 /\ p - n = h - StateLen + 1
      BY <2>1, <2>2
    <3>2. C!ValueAt(p, n, rows) = rows[p - n]
      BY <2>1, <3>1 DEF C!ValueAt
    <3>3. Tap(w, rows, off, readable, j, k) = rows[h - StateLen + 1]
      BY <2>2 DEF Tap, d
    <3> QED  BY <3>1, <3>2, <3>3 DEF p
  <2>3. CASE ~(h > StateLen - 1)
    <3>1. h \in 0 .. StateLen - 1 /\ p <= n /\ p = n - StateLen + 1 + h
      BY <2>1, <2>3
    <3>2. C!ValueAt(p, n, rows) = IF p <= 0 THEN 0 ELSE p
      BY <3>1 DEF C!ValueAt
    <3>3. Tap(w, rows, off, readable, j, k) = IF readable THEN w[h + off] ELSE 0
      BY <2>3 DEF Tap, d
    <3>4. CASE n > 0
      <4>1. w[off + h] = IF p <= 0 THEN 0 ELSE p
        BY <3>1, <3>4 DEF Holds
      <4>2. h + off = off + h
        BY <2>1
      <4> QED  BY <3>2, <3>3, <3>4, <4>1, <4>2 DEF p
    <3>5. CASE n = 0
      BY <2>1, <3>1, <3>2, <3>3, <3>5 DEF p
    <3> QED  BY <3>4, <3>5
  <2> QED  BY <2>1, <2>2, <2>3
<1> QED  BY <1>2 DEF Taps, C!CausalTaps

-----------------------------------------------------------------------------
(* The slot: what every step of every request preserves.                   *)

\* A chunk leaves nothing to roll back, so that the next chunk may read from cell 0.
NothingToRollBack == inState < prompt => accepted <= 1

IInv == ConvTypeOK /\ NothingToRollBack /\ WindowHoldsHistory

LEMMA Scalars ==
    ASSUME IInv
    PROVE  /\ ConvTokens \in Nat /\ NumSpec \in Nat /\ SpecQueryLen \in Nat
           /\ inState \in Nat /\ prompt \in Nat /\ prompt >= 1
           /\ accepted \in Nat /\ accepted <= SpecQueryLen
           /\ inState <= ConvTokens /\ prompt <= ConvTokens
           /\ window \in [Cells -> Int]
BY ConvTokensAssumption, SpecAssumption DEF IInv, ConvTypeOK, SpecQueryLen, Window

LEMMA InitInv == ConvInit => IInv
<1> SUFFICES ASSUME ConvInit PROVE IInv
  OBVIOUS
<1>1. ConvTokens \in Nat /\ NumSpec \in Nat /\ prompt \in 1 .. ConvTokens
  BY ConvTokensAssumption, SpecAssumption DEF ConvInit
<1>2. inState = 0 /\ accepted = 1 /\ convOut = C!NoOut
  BY DEF ConvInit
<1>3. window \in Window
  BY <1>1 DEF ConvInit, Window, Stale
<1>4. convOut.base = 0 /\ Len(convOut.rows) = 0
  BY <1>2 DEF C!NoOut
<1>5. ConvTypeOK
  BY <1>1, <1>2, <1>3, <1>4 DEF ConvTypeOK, SpecQueryLen
<1>6. NothingToRollBack /\ WindowHoldsHistory
  BY <1>2 DEF NothingToRollBack, WindowHoldsHistory
<1> QED  BY <1>5, <1>6 DEF IInv

\* What a launch owes: the invariant again, and an output with causal taps.
LEMMA AdmitStep ==
    ASSUME IInv, NEW p \in 1 .. ConvTokens, Admit(p)
    PROVE  IInv' /\ C!Admit
<1>1. ConvTokens \in Nat /\ NumSpec \in Nat
  BY Scalars
<1>2. window' \in Window
  BY DEF IInv, ConvTypeOK, Admit
<1>3. prompt' = p /\ inState' = 0 /\ accepted' = 1 /\ convOut' = C!NoOut
  BY DEF Admit
<1>4. convOut'.base = 0 /\ Len(convOut'.rows) = 0
  BY <1>3 DEF C!NoOut
<1>5. ConvTypeOK'
  BY <1>1, <1>2, <1>3, <1>4 DEF ConvTypeOK, SpecQueryLen
<1>6. NothingToRollBack' /\ WindowHoldsHistory'
  BY <1>3 DEF NothingToRollBack, WindowHoldsHistory
<1> QED  BY <1>3, <1>5, <1>6 DEF IInv, C!Admit

LEMMA PrefillStep ==
    ASSUME IInv, NEW q \in 1 .. ConvTokens, Prefill(q)
    PROVE  IInv' /\ C!Launch(q, q)
<1> DEFINE rows == C!RowsAfter(inState, q, q)
           hasInit == inState > 0
<1>1. q \in Nat \ {0} /\ q \in Nat /\ inState \in Nat /\ prompt \in Nat /\ StateLen \in Nat
  BY Scalars, Reach
<1>2. rows \in Seq(Int) /\ Len(rows) = q
  BY <1>1, Rows
<1>3. /\ inState + q <= prompt /\ prompt' = prompt
      /\ convOut' = [base |-> inState, rows |-> rows, taps |-> Taps(window, rows, 0, hasInit)]
      /\ window' = PrefillWindow(window, rows, hasInit)
      /\ inState' = inState + q
      /\ accepted' \in {0, 1}
  BY DEF Prefill, Emit
<1>4. hasInit => Holds(window, 0, inState)
  <2> SUFFICES ASSUME hasInit PROVE Holds(window, 0, inState)
    OBVIOUS
  <2>1. accepted = 0 \/ accepted = 1
    BY <1>1, <1>3, Scalars DEF IInv, NothingToRollBack
  <2> QED  BY <1>1, <2>1, NeutralOff, HoldsIsHistory DEF IInv
<1>5. Taps(window, rows, 0, hasInit) = C!CausalTaps(inState, rows)
  <2>1. hasInit \in BOOLEAN /\ 0 \in Nat /\ (inState = 0 => ~hasInit)
    BY <1>1
  <2> HIDE DEF rows
  <2> QED  BY <1>1, <1>2, <1>4, <2>1, TapsAreCausal, ZenonT(60)
<1>6. C!Launch(q, q)
  BY <1>3, <1>5 DEF C!Launch
<1>7. ConvTypeOK'
  <2>1. window' \in Window
    <3>1. window \in Window /\ Len(rows) >= 1 /\ hasInit \in BOOLEAN
      BY <1>1, <1>2, Scalars DEF Window
    <3> HIDE DEF rows, hasInit
    <3> QED  BY <1>2, <1>3, <3>1, PrefillIsWindow
  <2>2. convOut'.base = inState /\ Len(convOut'.rows) = q
    BY <1>2, <1>3
  <2>3. accepted' \in 0 .. SpecQueryLen
    BY <1>3, Scalars DEF SpecQueryLen
  <2> QED  BY <1>1, <1>3, <2>1, <2>2, <2>3, Scalars DEF ConvTypeOK
<1>8. NothingToRollBack'
  BY <1>3 DEF NothingToRollBack
<1>9. WindowHoldsHistory'
  <2>1. Holds(window', 0, inState')
    <3>1. \A j \in 1 .. q : rows[j] = inState + j
      BY <1>1 DEF C!RowsAfter
    <3> HIDE DEF rows
    <3> QED  BY <1>1, <1>2, <1>3, <1>4, <3>1, PrefillHolds
  <2>2. SlotOff(accepted') = 0
    BY <1>3, NeutralOff
  <2>3. \A i \in 0 .. StateLen - 1 :
          window'[0 + i] = C!ValueAt(inState' - StateLen + 1 + i, inState', << >>)
    BY <1>1, <1>3, <2>1 DEF Holds, C!ValueAt
  <2> QED  BY <2>2, <2>3 DEF WindowHoldsHistory, SlotOff, C!ValueAt
<1> QED  BY <1>6, <1>7, <1>8, <1>9 DEF IInv

LEMMA DecodeStep ==
    ASSUME IInv, Decode
    PROVE  IInv' /\ C!Launch(1, 1)
<1> DEFINE rows == C!RowsAfter(inState, 1, 1)
           hasInit == inState > 0
<1>1. inState \in Nat /\ prompt \in Nat /\ StateLen \in Nat
  BY Scalars, Reach
<1>2. rows \in Seq(Int) /\ Len(rows) = 1 /\ rows[1] = inState + 1
  <2>1. 1 \in Nat /\ 1 \in 1 .. 1
    OBVIOUS
  <2>2. /\ rows \in Seq(Int) /\ Len(rows) = 1
        /\ \A j \in 1 .. 1 : rows[j] = IF j <= 1 THEN inState + j ELSE -(inState + j)
    BY <1>1, <2>1, Rows, ZenonT(60)
  <2> HIDE DEF rows
  <2> QED  BY <2>1, <2>2
<1>3. /\ inState < ConvTokens /\ accepted <= 1 /\ prompt' = prompt
      /\ convOut' = [base |-> inState, rows |-> rows, taps |-> Taps(window, rows, 0, hasInit)]
      /\ window' = DecodeWindow(window, rows[1], hasInit)
      /\ inState' = inState + 1
      /\ accepted' = 1
  BY DEF Decode, Emit
<1>4. hasInit => Holds(window, 0, inState)
  <2> SUFFICES ASSUME hasInit PROVE Holds(window, 0, inState)
    OBVIOUS
  <2>1. accepted = 0 \/ accepted = 1
    BY <1>3, Scalars
  <2> QED  BY <1>1, <2>1, NeutralOff, HoldsIsHistory DEF IInv
<1>5. Taps(window, rows, 0, hasInit) = C!CausalTaps(inState, rows)
  <2>1. hasInit \in BOOLEAN /\ 0 \in Nat /\ (inState = 0 => ~hasInit)
    BY <1>1
  <2> HIDE DEF rows
  <2> QED  BY <1>1, <1>2, <1>4, <2>1, TapsAreCausal, ZenonT(60)
<1>6. C!Launch(1, 1)
  BY <1>3, <1>5 DEF C!Launch
<1>7. ConvTypeOK'
  <2>1. window' \in Window
    <3>1. window \in [Cells -> Int] /\ inState + 1 \in Int
      BY <1>1, Scalars
    <3>2. ASSUME NEW i \in Cells PROVE DecodeWindow(window, inState + 1, hasInit)[i] \in Int
      <4>1. i \in Nat
        BY <1>1, Scalars DEF Cells, Width
      <4>2. i < StateLen - 1 => i + 1 \in Cells
        BY <1>1, <4>1, Scalars DEF Cells, Width
      <4> QED  BY <1>1, <3>1, <4>1, <4>2 DEF DecodeWindow
    <3> QED  BY <1>2, <1>3, <3>2 DEF DecodeWindow, Window
  <2>2. convOut'.base = inState /\ Len(convOut'.rows) = 1
    BY <1>2, <1>3
  <2>3. accepted' \in 0 .. SpecQueryLen
    BY <1>3, Scalars DEF SpecQueryLen
  <2>4. inState' \in 0 .. ConvTokens /\ prompt' \in 1 .. ConvTokens
    BY <1>1, <1>3, Scalars
  <2>5. convOut'.base + Len(convOut'.rows) <= ConvTokens
    <3>1. inState + 1 <= ConvTokens
      BY <1>1, <1>3, Scalars
    <3> QED  BY <2>2, <3>1
  <2> QED  BY <2>1, <2>3, <2>4, <2>5 DEF ConvTypeOK
<1>8. NothingToRollBack'
  BY <1>3 DEF NothingToRollBack
<1>9. WindowHoldsHistory'
  <2>1. Holds(window', 0, inState')
    BY <1>1, <1>2, <1>3, <1>4, DecodeHolds
  <2>2. SlotOff(accepted') = 0
    BY <1>3, NeutralOff
  <2>3. \A i \in 0 .. StateLen - 1 :
          window'[0 + i] = C!ValueAt(inState' - StateLen + 1 + i, inState', << >>)
    BY <1>1, <1>3, <2>1 DEF Holds, C!ValueAt
  <2> QED  BY <2>2, <2>3 DEF WindowHoldsHistory, SlotOff, C!ValueAt
<1> QED  BY <1>6, <1>7, <1>8, <1>9 DEF IInv

LEMMA VerifyStep ==
    ASSUME IInv, NEW q \in 1 .. SpecQueryLen, NEW ok \in 1 .. q, Verify(q, ok)
    PROVE  IInv' /\ C!Launch(q, ok)
<1> DEFINE rows == C!RowsAfter(inState, q, ok)
           off == SlotOff(accepted)
<1>1. /\ inState \in Nat /\ prompt \in Nat /\ StateLen \in Nat
      /\ q \in Nat /\ ok \in Nat /\ 1 <= ok /\ ok <= q /\ q <= SpecQueryLen
      /\ SpecQueryLen \in Nat /\ NumSpec \in Nat /\ ConvTokens \in Nat
  BY Scalars, Reach
<1>2. rows \in Seq(Int) /\ Len(rows) = q
  BY <1>1, Rows
<1>3. /\ inState >= prompt /\ inState + q <= ConvTokens /\ prompt' = prompt
      /\ convOut' = [base |-> inState, rows |-> rows, taps |-> Taps(window, rows, off, TRUE)]
      /\ window' = SpecWindow(window, rows, accepted)
      /\ inState' = inState + ok
      /\ accepted' = ok
  BY DEF Verify, Emit
<1>4. inState > 0 /\ accepted \in 0 .. SpecQueryLen /\ off \in Nat /\ off <= NumSpec
  BY <1>1, <1>3, Scalars, OffRange
<1>5. Holds(window, off, inState)
  BY <1>1, <1>4, HoldsIsHistory DEF IInv
<1>6. Taps(window, rows, off, TRUE) = C!CausalTaps(inState, rows)
  <2>1. TRUE \in BOOLEAN /\ ~(inState = 0)
    BY <1>4
  <2> HIDE DEF rows, off
  <2> QED  BY <1>1, <1>2, <1>4, <1>5, <2>1, TapsAreCausal, ZenonT(60)
<1>7. C!Launch(q, ok)
  BY <1>3, <1>6 DEF C!Launch
<1>8. ConvTypeOK'
  <2>1. window' \in Window
    <3>1. window \in Window /\ Len(rows) \in 1 .. SpecQueryLen
      BY <1>1, <1>2, Scalars DEF Window
    <3> HIDE DEF rows
    <3> QED  BY <1>2, <1>3, <1>4, <3>1, SpecIsWindow
  <2>2. convOut'.base = inState /\ Len(convOut'.rows) = q
    BY <1>2, <1>3
  <2>3. accepted' \in 0 .. SpecQueryLen /\ inState' \in 0 .. ConvTokens
    BY <1>1, <1>3
  <2>4. prompt' \in 1 .. ConvTokens
    BY <1>1, <1>3, Scalars
  <2> QED  BY <1>1, <1>3, <2>1, <2>2, <2>3, <2>4 DEF ConvTypeOK
<1>9. NothingToRollBack'
  BY <1>1, <1>3 DEF NothingToRollBack
<1>10. WindowHoldsHistory'
  <2>1. Holds(window', SlotOff(ok), inState')
    <3>1. \A j \in 1 .. ok : rows[j] = inState + j
      BY <1>1 DEF C!RowsAfter
    <3> HIDE DEF rows
    <3> QED  BY <1>1, <1>2, <1>3, <1>4, <1>5, <3>1, SpecHolds
  <2>2. \A i \in 0 .. StateLen - 1 :
          window'[SlotOff(ok) + i] = C!ValueAt(inState' - StateLen + 1 + i, inState', << >>)
    BY <1>1, <1>3, <2>1 DEF Holds, C!ValueAt
  <2> QED  BY <1>3, <2>2 DEF WindowHoldsHistory, SlotOff, C!ValueAt
<1> QED  BY <1>7, <1>8, <1>9, <1>10 DEF IInv

-----------------------------------------------------------------------------
(* The theorems.                                                           *)

LEMMA Inductive == ConvSpec => []IInv
<1>1. ConvInit => IInv
  BY InitInv
<1>2. IInv /\ [ConvNext]_convVars => IInv'
  <2> SUFFICES ASSUME IInv, [ConvNext]_convVars PROVE IInv'
    OBVIOUS
  <2>1. CASE \E p \in 1 .. ConvTokens : Admit(p)
    BY <2>1, AdmitStep
  <2>2. CASE \E q \in 1 .. ConvTokens : Prefill(q)
    BY <2>2, PrefillStep
  <2>3. CASE Decode
    BY <2>3, DecodeStep
  <2>4. CASE \E q \in 1 .. SpecQueryLen : \E ok \in 1 .. q : Verify(q, ok)
    BY <2>4, VerifyStep
  <2>5. CASE UNCHANGED convVars
    BY <2>5 DEF convVars, IInv, ConvTypeOK, NothingToRollBack, WindowHoldsHistory, C!ValueAt
  <2> QED  BY <2>1, <2>2, <2>3, <2>4, <2>5 DEF ConvNext
<1> QED  BY <1>1, <1>2, PTL DEF ConvSpec

\* The window never has a value of another kind, and no request outgrows its bound.
THEOREM SlotTypeCorrect == ConvSpec => []ConvTypeOK
<1>1. IInv => ConvTypeOK
  BY DEF IInv
<1> QED  BY <1>1, Inductive, PTL

\* For every kernel size, dilation and number of drafts: whatever sequence of chunks,
\* decodes and rollbacks came before, the window is the accepted history.
THEOREM WindowIsHistory == ConvSpec => []WindowHoldsHistory
<1>1. IInv => WindowHoldsHistory
  BY DEF IInv
<1> QED  BY <1>1, Inductive, PTL

\* The kernels implement the causal convolution: every launch is a launch of CausalConv.
THEOREM ConvolutionIsCausal == ConvSpec => ImplementsCausalConv
<1>1. ConvInit => C!Init
  BY DEF ConvInit, C!Init
<1>2. IInv /\ [ConvNext]_convVars => [C!Next]_C!cvars
  <2> SUFFICES ASSUME IInv, [ConvNext]_convVars PROVE [C!Next]_C!cvars
    OBVIOUS
  <2>0. ConvTokens \in Nat /\ SpecQueryLen \in Nat /\ inState \in Nat
    BY Scalars
  <2>1. CASE \E p \in 1 .. ConvTokens : Admit(p)
    BY <2>1, AdmitStep DEF C!Next
  <2>2. ASSUME NEW q \in 1 .. ConvTokens, Prefill(q) PROVE C!Next
    <3>1. q \in 1 .. q
      BY <2>0
    <3> QED  BY <2>2, <3>1, PrefillStep DEF C!Next
  <2>3. CASE Decode
    <3>1. 1 \in 1 .. ConvTokens /\ 1 \in 1 .. 1
      BY <2>0, ConvTokensAssumption
    <3> QED  BY <2>3, <3>1, DecodeStep DEF C!Next
  <2>4. ASSUME NEW q \in 1 .. SpecQueryLen, NEW ok \in 1 .. q, Verify(q, ok) PROVE C!Next
    <3>1. q \in 1 .. ConvTokens
      BY <2>0, <2>4 DEF Verify
    <3> QED  BY <2>4, <3>1, VerifyStep DEF C!Next
  <2>5. CASE UNCHANGED convVars
    BY <2>5 DEF convVars, C!cvars
  <2> QED  BY <2>1, <2>2, <2>3, <2>4, <2>5 DEF ConvNext
<1> QED  BY <1>1, <1>2, Inductive, PTL DEF ConvSpec, ImplementsCausalConv, C!Spec

=============================================================================

-------------------------- MODULE ConvWindowProofs --------------------------
(***************************************************************************)
(* What the write-backs of ConvWindow leave of the history of a request,   *)
(* for every kernel size, dilation and number of drafts.                   *)
(***************************************************************************)
EXTENDS ConvWindow, SequenceTheorems, TLAPS

\* The taps reach back over the whole window and no further.
LEMMA Reach ==
    /\ StateLen \in Nat /\ Width \in Nat
    /\ \A k \in 0 .. KernelSize - 1 :
          /\ Dilation * k \in Nat
          /\ Dilation * k <= StateLen
          /\ Dilation * (KernelSize - 1 - k) = StateLen - Dilation * k
<1>1. KernelSize - 1 \in Nat /\ Dilation \in Nat /\ NumSpec \in Nat
  BY KernelAssumption, SpecAssumption
<1>2. \A a, b \in Nat : a * b \in Nat
  OBVIOUS
<1>3. StateLen \in Nat
  BY <1>1, <1>2 DEF StateLen
<1>4. ASSUME NEW k \in 0 .. KernelSize - 1
      PROVE  /\ Dilation * k \in Nat
             /\ Dilation * k <= StateLen
             /\ Dilation * (KernelSize - 1 - k) = StateLen - Dilation * k
  <2>1. k \in Nat /\ KernelSize - 1 - k \in Nat
    BY <1>1
  <2>2. Dilation * k \in Nat /\ Dilation * (KernelSize - 1 - k) \in Nat
    BY <1>1, <1>2, <2>1
  <2>3. Dilation * (KernelSize - 1 - k) = StateLen - Dilation * k
    BY <1>1, <2>1 DEF StateLen
  <2> QED  BY <1>3, <2>2, <2>3
<1> QED  BY <1>1, <1>3, <1>4 DEF Width

\* Rows given as a function of their numbers are a sequence.
LEMMA RowsOf ==
    ASSUME NEW q \in Nat, NEW rows \in [1 .. q -> Int]
    PROVE  rows \in Seq(Int) /\ Len(rows) = q
<1>1. rows \in Seq(Int) /\ DOMAIN rows = 1 .. q
  BY SeqDef
<1> QED  BY <1>1, LenProperties

\* The window, read from `off`, is the history of n accepted tokens.
Holds(w, off, n) ==
    \A i \in 0 .. StateLen - 1 :
        w[off + i] = IF n - StateLen + 1 + i <= 0 THEN 0 ELSE n - StateLen + 1 + i

LEMMA NeutralOff == SlotOff(0) = 0 /\ SlotOff(1) = 0
BY DEF SlotOff

LEMMA OffRange ==
    ASSUME NEW a \in 0 .. SpecQueryLen
    PROVE  /\ SlotOff(a) \in 0 .. NumSpec
           /\ a >= 1 => SlotOff(a) = a - 1
BY SpecAssumption DEF SlotOff, SpecQueryLen

\* What the three write-backs leave, of rows that are the tokens after the first n.
LEMMA PrefillHolds ==
    ASSUME NEW n \in Nat, NEW q \in Nat \ {0}, NEW w, n > 0 => Holds(w, 0, n),
           NEW rows, Len(rows) = q, \A j \in 1 .. q : rows[j] = n + j
    PROVE  Holds(PrefillWindow(w, rows, n > 0), 0, n + q)
<1> DEFINE new == PrefillWindow(w, rows, n > 0)
<1>1. Len(rows) = q /\ \A j \in 1 .. q : rows[j] = n + j
  OBVIOUS
<1>2. StateLen \in Nat /\ NumSpec \in Nat
  BY Reach, SpecAssumption
<1>3. ASSUME NEW i \in 0 .. StateLen - 1
      PROVE  new[0 + i] = IF n + q - StateLen + 1 + i <= 0 THEN 0 ELSE n + q - StateLen + 1 + i
  <2>1. i \in Cells
    BY <1>2 DEF Cells, Width
  <2>2. new[i] = IF q + i > StateLen - 1 THEN rows[q + i - StateLen + 1]
                 ELSE IF n > 0 THEN w[q + i] ELSE 0
    BY <1>1, <1>2, <2>1 DEF PrefillWindow
  <2>3. CASE q + i > StateLen - 1
    <3>1. q + i - StateLen + 1 \in 1 .. q
      BY <1>2, <2>3
    <3> QED  BY <1>1, <1>2, <2>2, <2>3, <3>1
  <2>4. CASE q + i <= StateLen - 1 /\ n > 0
    <3>1. q + i \in 0 .. StateLen - 1 /\ 0 + (q + i) = q + i
      BY <1>2, <2>4
    <3>2. w[q + i] = IF n - StateLen + 1 + (q + i) <= 0 THEN 0 ELSE n - StateLen + 1 + (q + i)
      BY <2>4, <3>1 DEF Holds
    <3> QED  BY <1>2, <2>2, <2>4, <3>2
  <2>5. CASE q + i <= StateLen - 1 /\ n = 0
    BY <1>2, <2>2, <2>5
  <2> QED  BY <1>2, <2>3, <2>4, <2>5
<1>4. Holds(new, 0, n + q)
  <2> HIDE DEF new
  <2> QED  BY <1>2, <1>3 DEF Holds
<1> QED  BY <1>4

LEMMA DecodeHolds ==
    ASSUME NEW n \in Nat, NEW w, n > 0 => Holds(w, 0, n)
    PROVE  Holds(DecodeWindow(w, n + 1, n > 0), 0, n + 1)
<1> DEFINE new == DecodeWindow(w, n + 1, n > 0)
<1>1. StateLen \in Nat /\ NumSpec \in Nat
  BY Reach, SpecAssumption
<1>2. ASSUME NEW i \in 0 .. StateLen - 1
      PROVE  new[0 + i] = IF n + 1 - StateLen + 1 + i <= 0 THEN 0 ELSE n + 1 - StateLen + 1 + i
  <2>1. i \in Cells
    BY <1>1 DEF Cells, Width
  <2>2. new[i] = IF i = StateLen - 1 THEN n + 1 ELSE IF n > 0 THEN w[i + 1] ELSE 0
    BY <1>1, <2>1 DEF DecodeWindow
  <2>3. CASE i = StateLen - 1
    BY <1>1, <2>2, <2>3
  <2>4. CASE i # StateLen - 1 /\ n > 0
    <3>1. i + 1 \in 0 .. StateLen - 1 /\ 0 + (i + 1) = i + 1
      BY <1>1, <2>4
    <3>2. w[i + 1] = IF n - StateLen + 1 + (i + 1) <= 0 THEN 0 ELSE n - StateLen + 1 + (i + 1)
      BY <2>4, <3>1 DEF Holds
    <3> QED  BY <1>1, <2>2, <2>4, <3>2
  <2>5. CASE i # StateLen - 1 /\ n = 0
    BY <1>1, <2>2, <2>5
  <2> QED  BY <2>3, <2>4, <2>5
<1>3. Holds(new, 0, n + 1)
  <2> HIDE DEF new
  <2> QED  BY <1>1, <1>2 DEF Holds
<1> QED  BY <1>3

\* Of a verification, any number of the accepted rows may be taken for all of them: the
\* cells further on are what the rows after those left.
LEMMA SpecHolds ==
    ASSUME NEW n \in Nat, NEW q \in 1 .. SpecQueryLen, NEW ok \in 1 .. q, NEW a \in 0 .. SpecQueryLen,
           NEW w, Holds(w, SlotOff(a), n),
           NEW rows, Len(rows) = q, \A j \in 1 .. ok : rows[j] = n + j
    PROVE  Holds(SpecWindow(w, rows, a), SlotOff(ok), n + ok)
<1> DEFINE new == SpecWindow(w, rows, a)
           off == SlotOff(a)
<1>1. StateLen \in Nat /\ NumSpec \in Nat
  BY Reach, SpecAssumption
<1>2. q \in Nat /\ ok \in Nat /\ 1 <= ok /\ ok <= q /\ q <= NumSpec + 1
  BY <1>1 DEF SpecQueryLen
<1>3. Len(rows) = q /\ \A j \in 1 .. ok : rows[j] = n + j
  OBVIOUS
<1>4. off \in Nat /\ SlotOff(ok) = ok - 1
  BY <1>1, <1>2, OffRange DEF SpecQueryLen
<1> HIDE DEF off
<1>5. ASSUME NEW i \in 0 .. StateLen - 1
      PROVE  new[ok - 1 + i]
               = IF n + ok - StateLen + 1 + i <= 0 THEN 0 ELSE n + ok - StateLen + 1 + i
  <2> DEFINE c == ok - 1 + i
  <2>1. c \in Cells /\ c < StateLen + q - 1 /\ c \in Nat
    BY <1>1, <1>2 DEF Cells, Width
  <2> HIDE DEF c
  <2>2. new[c] = IF c + 1 > StateLen - 1 THEN rows[c + 1 - StateLen + 1] ELSE w[off + 1 + c]
    BY <1>1, <1>2, <1>3, <2>1 DEF SpecWindow, off
  <2>3. CASE c + 1 > StateLen - 1
    <3>1. c + 1 - StateLen + 1 \in 1 .. ok
      BY <1>1, <1>2, <2>3 DEF c
    <3>2. new[c] = n + (c + 1 - StateLen + 1)
      BY <1>3, <2>2, <2>3, <3>1
    <3> QED  BY <1>1, <1>2, <3>1, <3>2 DEF c
  <2>4. CASE ~(c + 1 > StateLen - 1)
    <3>1. 1 + c \in 0 .. StateLen - 1 /\ off + (1 + c) = off + 1 + c
      BY <1>1, <1>4, <2>1, <2>4
    <3>2. w[off + 1 + c] = IF n - StateLen + 1 + (1 + c) <= 0 THEN 0 ELSE n - StateLen + 1 + (1 + c)
      BY <3>1 DEF Holds, off
    <3> QED  BY <1>1, <1>2, <2>2, <2>4, <3>2 DEF c
  <2> QED  BY <2>3, <2>4
<1>6. Holds(new, ok - 1, n + ok)
  <2> HIDE DEF new
  <2> QED  BY <1>1, <1>2, <1>5 DEF Holds
<1> QED  BY <1>4, <1>6

\* The write-backs leave windows.
LEMMA PrefillIsWindow ==
    ASSUME NEW w \in Window, NEW rows \in Seq(Int), Len(rows) >= 1, NEW hasInit \in BOOLEAN
    PROVE  PrefillWindow(w, rows, hasInit) \in Window
<1>1. StateLen \in Nat /\ NumSpec \in Nat /\ Len(rows) \in Nat
  BY Reach, SpecAssumption
<1>2. w \in [Cells -> Int] /\ \A j \in 1 .. Len(rows) : rows[j] \in Int
  BY DEF Window
<1>3. ASSUME NEW i \in Cells PROVE PrefillWindow(w, rows, hasInit)[i] \in Int
  <2>1. i \in Nat /\ i <= StateLen + NumSpec - 1
    BY <1>1 DEF Cells, Width
  <2>2. PrefillWindow(w, rows, hasInit)[i]
          = IF i > StateLen - 1 THEN w[i]
            ELSE IF Len(rows) + i > StateLen - 1 THEN rows[Len(rows) + i - StateLen + 1]
            ELSE IF hasInit THEN w[Len(rows) + i] ELSE 0
    BY DEF PrefillWindow
  <2>3. CASE i > StateLen - 1
    BY <1>2, <2>2, <2>3
  <2>4. CASE ~(i > StateLen - 1) /\ Len(rows) + i > StateLen - 1
    <3>1. Len(rows) + i - StateLen + 1 \in 1 .. Len(rows)
      BY <1>1, <2>1, <2>4
    <3> QED  BY <1>2, <2>2, <2>4, <3>1
  <2>5. CASE ~(i > StateLen - 1) /\ ~(Len(rows) + i > StateLen - 1)
    <3>1. Len(rows) + i \in Cells
      BY <1>1, <2>1, <2>5 DEF Cells, Width
    <3> QED  BY <1>2, <2>2, <2>5, <3>1
  <2> QED  BY <2>3, <2>4, <2>5
<1> QED  BY <1>3 DEF PrefillWindow, Window

LEMMA SpecIsWindow ==
    ASSUME NEW w \in Window, NEW rows \in Seq(Int), NEW a \in 0 .. SpecQueryLen,
           Len(rows) \in 1 .. SpecQueryLen
    PROVE  SpecWindow(w, rows, a) \in Window
<1> DEFINE off == SlotOff(a)
<1>1. /\ StateLen \in Nat /\ NumSpec \in Nat /\ Len(rows) \in Nat /\ Len(rows) >= 1
      /\ off \in Nat /\ off <= NumSpec
  BY Reach, SpecAssumption, OffRange
<1>2. w \in [Cells -> Int] /\ \A j \in 1 .. Len(rows) : rows[j] \in Int
  BY DEF Window
<1>3. ASSUME NEW i \in Cells PROVE SpecWindow(w, rows, a)[i] \in Int
  <2>1. i \in Nat
    BY <1>1 DEF Cells, Width
  <2>2. SpecWindow(w, rows, a)[i]
          = IF i >= StateLen + Len(rows) - 1 THEN w[i]
            ELSE IF i + 1 > StateLen - 1 THEN rows[i + 1 - StateLen + 1]
            ELSE w[off + 1 + i]
    BY DEF SpecWindow
  <2>3. CASE i >= StateLen + Len(rows) - 1
    BY <1>2, <2>2, <2>3
  <2>4. CASE ~(i >= StateLen + Len(rows) - 1) /\ i + 1 > StateLen - 1
    <3>1. i + 1 - StateLen + 1 \in 1 .. Len(rows)
      BY <1>1, <2>1, <2>4
    <3> QED  BY <1>2, <2>2, <2>4, <3>1
  <2>5. CASE ~(i >= StateLen + Len(rows) - 1) /\ ~(i + 1 > StateLen - 1)
    <3>1. off + 1 + i \in Cells
      <4> HIDE DEF off
      <4> QED  BY <1>1, <2>1, <2>5 DEF Cells, Width
    <3> QED  BY <1>2, <2>2, <2>5, <3>1
  <2> QED  BY <2>3, <2>4, <2>5
<1> QED  BY <1>3 DEF SpecWindow, Window

=============================================================================

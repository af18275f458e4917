-------------------------- MODULE MambaAlignProofs --------------------------
(***************************************************************************)
(* MambaAlign for every block size, kernel, number of drafts and length of *)
(* requests: where a request's state is at each point of a step, and that  *)
(* every cached column holds the state at its boundary and is left alone.  *)
(***************************************************************************)
EXTENDS MambaAlign, ConvWindowProofs

\* Tokens of the first k columns.
Upto(k) == k * BlockSize

\* The columns are decided by the tokens before the step.
Start == IF pc = "idle" THEN computed ELSE base

\* Position of the first accepted row of a verification, or of the last row of a chunk:
\* what the running column holds after the forward pass (RunningTokens).
Run == computed - snapshot + 1

\* The last column whose boundary the step reached, and whether its programs copy.
Dest == computed \div BlockSize - 1
Saves == Upto(Dest + 1) >= Run
Resets == Saves /\ Dest = stateIdx

\* Rows after the first one of those accepted.
Past(a) == IF a > 1 THEN a - 1 ELSE 0

\* Before the end of the prompt, the tokens fill columns, and all columns with a block are
\* full but the running one.
PromptFillsColumns ==
    Start < prompt =>
        /\ \E k \in Nat : Start = Upto(k)
        /\ \A c \in kept : Upto(c + 1) <= Start \/ (pc # "idle" /\ c = stateIdx)

\* The column of the last token has a block.
LastTokenKept == Start > 0 => CDiv(Start, BlockSize) - 1 \in kept

\* A step and its running column.
StepFits ==
    pc # "idle" =>
        /\ query \in 1 .. MaxTokens /\ base + query <= MaxTokens
        /\ stateIdx = CDiv(base + query, BlockSize) - 1 /\ stateIdx \in kept /\ stateIdx >= 0
        /\ base < prompt =>
             /\ drafts = 0 /\ base + query <= prompt
             /\ base + query < prompt => \E k \in Nat : base + query = Upto(k)
        /\ base >= prompt => query = drafts + 1
        /\ pc \in {"precopy", "forward"} => base = computed

\* What the forward pass counted.
CountsAfter ==
    pc = "post" =>
        /\ \/ base < prompt /\ computed = base + query /\ snapshot \in {0, 1}
              /\ (computed = prompt => snapshot = 1)
           \/ base >= prompt /\ computed = base + snapshot /\ snapshot \in 1 .. query
        /\ accepted = IF "conv" \notin todo /\ Resets THEN 1 ELSE snapshot

CountsBefore ==
    /\ pc = "idle" /\ computed > 0 => stateIdx >= 0
    /\ pc # "post" /\ computed < prompt => accepted <= 1
    /\ pc = "precopy" /\ srcCol >= 0 /\ srcCol # stateIdx => accepted = 1

Layout ==
    /\ TypeOK /\ kept \subseteq 0 .. LastCol - NumSpec
    /\ PromptFillsColumns /\ LastTokenKept /\ StepFits /\ CountsAfter /\ CountsBefore

-----------------------------------------------------------------------------
\* What column c holds when it is full: its temporal state, its window.
RightT(c) == temporal[c] = Upto(c + 1)
RightC(c) == Holds(conv[c], 0, Upto(c + 1))

\* Both tensors of the columns that were full before the step.
FullAreRight == \A c \in kept : Upto(c + 1) <= Start => RightT(c) /\ RightC(c)

\* The state of the computed tokens, so many rows on from column c.
StateT(c, off) == temporal[c + off] = computed
StateC(c, off) == Holds(conv[c], off, computed)

\* A tensor still to be migrated.
Moves(s) == s \in todo /\ srcCol >= 0 /\ srcCol # stateIdx

StateBefore ==
    /\ pc \in {"idle", "forward"} /\ computed > 0 =>
         StateT(stateIdx, Past(accepted)) /\ StateC(stateIdx, Past(accepted))
    /\ pc = "precopy" /\ computed > 0 =>
         /\ IF Moves("temporal") THEN StateT(srcCol, srcOff) ELSE StateT(stateIdx, Past(accepted))
         /\ IF Moves("conv") THEN StateC(srcCol, srcOff) ELSE StateC(stateIdx, Past(accepted))

\* After the forward pass the state of every accepted row can be found, until the
\* programs have saved the one at the boundary.
StateAfterT ==
    IF "temporal" \in todo
    THEN /\ \A j \in 1 .. snapshot : temporal[stateIdx + j - 1] = Run + j - 1
         /\ snapshot = 0 => temporal[stateIdx] = computed
    ELSE /\ StateT(stateIdx, IF Resets THEN 0 ELSE Past(snapshot))
         /\ Saves => RightT(Dest)

StateAfterC ==
    IF "conv" \in todo
    THEN /\ \A j \in 1 .. snapshot : Holds(conv[stateIdx], j - 1, Run + j - 1)
         /\ snapshot = 0 => Holds(conv[stateIdx], 0, computed)
    ELSE /\ StateC(stateIdx, IF Resets THEN 0 ELSE Past(snapshot))
         /\ Saves => RightC(Dest)

Contents ==
    hits = 0 =>
        /\ FullAreRight /\ StateBefore
        /\ pc = "post" => StateAfterT /\ StateAfterC

AlignInv == Layout /\ Contents

-----------------------------------------------------------------------------
(* Columns and tokens.                                                     *)

LEMMA Sizes ==
    /\ BlockSize \in Nat /\ NumSpec \in Nat /\ BlockSize > NumSpec /\ BlockSize >= 1
    /\ MaxTokens \in Nat /\ MaxTokens >= 1 /\ MaxHits \in Nat
    /\ StateLen \in Nat /\ Width = StateLen + NumSpec /\ SpecQueryLen = NumSpec + 1
BY BlockAssumption, AlignBoundAssumption, SpecAssumption, Reach DEF Width, SpecQueryLen

LEMMA UptoStep ==
    /\ Upto(0) = 0
    /\ \A k \in Int : Upto(k) \in Int /\ Upto(k + 1) = Upto(k) + BlockSize
                   /\ Upto(k - 1) = Upto(k) - BlockSize
<1>1. BlockSize \in Int
  BY Sizes
<1>2. ASSUME NEW k \in Int
      PROVE  /\ Upto(k) \in Int /\ Upto(k + 1) = Upto(k) + BlockSize
             /\ Upto(k - 1) = Upto(k) - BlockSize
  BY <1>1, SMT DEF Upto
<1> QED
  BY <1>1, <1>2 DEF Upto

LEMMA UptoMono ==
    ASSUME NEW i \in Int, NEW j \in Int, i < j
    PROVE  Upto(i) + BlockSize <= Upto(j)
<1>1. BlockSize \in Nat
  BY Sizes
<1>2. PICK d \in Nat : j = i + 1 + d
  <2>1. j - i - 1 \in Nat /\ j = i + 1 + (j - i - 1)
    OBVIOUS
  <2> QED
    BY <2>1
<1>3. j * BlockSize = i * BlockSize + BlockSize + d * BlockSize
  BY <1>1, <1>2, SMT
<1>4. d * BlockSize \in Nat /\ i * BlockSize \in Int
  BY <1>1, SMT
<1> QED
  BY <1>1, <1>3, <1>4 DEF Upto

LEMMA UptoInjective ==
    ASSUME NEW i \in Int, NEW j \in Int, Upto(i) < Upto(j) + BlockSize, Upto(j) < Upto(i) + BlockSize
    PROVE  i = j
<1>1. Upto(i) \in Int /\ Upto(j) \in Int /\ BlockSize \in Nat
  BY UptoStep, Sizes
<1>2. ~(i < j)
  <2>1. i < j => Upto(i) + BlockSize <= Upto(j)
    BY UptoMono
  <2> QED
    BY <1>1, <2>1
<1>3. ~(j < i)
  <2>1. j < i => Upto(j) + BlockSize <= Upto(i)
    BY UptoMono
  <2> QED
    BY <1>1, <2>1
<1> QED
  BY <1>2, <1>3

\* Comparing columns is comparing their tokens.
LEMMA UptoOrder ==
    ASSUME NEW i \in Int, NEW j \in Int
    PROVE  /\ Upto(i) < Upto(j) => i < j
           /\ i <= j => Upto(i) <= Upto(j)
<1>1. Upto(i) \in Int /\ Upto(j) \in Int /\ BlockSize \in Nat
  BY UptoStep, Sizes
<1>2. j < i => Upto(j) + BlockSize <= Upto(i)
  BY UptoMono
<1>3. i < j => Upto(i) + BlockSize <= Upto(j)
  BY UptoMono
<1> QED
  BY <1>1, <1>2, <1>3

LEMMA Floor ==
    ASSUME NEW x \in Int
    PROVE  /\ x \div BlockSize \in Int
           /\ Upto(x \div BlockSize) <= x /\ x < Upto(x \div BlockSize) + BlockSize
<1>1. BlockSize \in Nat \ {0}
  BY Sizes
<1>2. /\ x \div BlockSize \in Int
      /\ x = BlockSize * (x \div BlockSize) + (x % BlockSize) /\ x % BlockSize \in 0 .. BlockSize - 1
  BY <1>1, SMT
<1>3. Upto(x \div BlockSize) = BlockSize * (x \div BlockSize)
  BY <1>1, <1>2, SMT DEF Upto
<1>4. Upto(x \div BlockSize) \in Int
  BY <1>2, UptoStep
<1> QED
  BY <1>1, <1>2, <1>3, <1>4

LEMMA Ceiling ==
    ASSUME NEW x \in Nat
    PROVE  /\ CDiv(x, BlockSize) \in Nat
           /\ x <= Upto(CDiv(x, BlockSize)) /\ Upto(CDiv(x, BlockSize)) < x + BlockSize
           /\ x > 0 => CDiv(x, BlockSize) >= 1
<1> DEFINE y == x + BlockSize - 1
           k == y \div BlockSize
<1>1. BlockSize \in Nat /\ BlockSize >= 1 /\ y \in Int
  BY Sizes
<1>2. k \in Int /\ Upto(k) <= y /\ y < Upto(k) + BlockSize
  BY <1>1, Floor
<1>3. CDiv(x, BlockSize) = k
  BY DEF CDiv
<1> HIDE DEF k
<1>4. Upto(k) \in Int
  BY <1>2, UptoStep
<1>5. x <= Upto(k) /\ Upto(k) < x + BlockSize
  BY <1>1, <1>2, <1>4
<1>6. Upto(0) = 0 /\ Upto(-1) = 0 - BlockSize
  BY <1>1, UptoStep
<1>7. Upto(-1) < Upto(k) /\ (x > 0 => Upto(0) < Upto(k))
  BY <1>1, <1>4, <1>5, <1>6
<1>8. -1 < k /\ (x > 0 => 0 < k)
  BY <1>2, <1>7, UptoOrder
<1> QED
  BY <1>2, <1>3, <1>5, <1>8

\* The last column of x tokens is the one they end in.
LEMMA CeilingIs ==
    ASSUME NEW x \in Nat, NEW k \in Int, x <= Upto(k), Upto(k) < x + BlockSize
    PROVE  CDiv(x, BlockSize) = k
<1>1. /\ CDiv(x, BlockSize) \in Nat
      /\ x <= Upto(CDiv(x, BlockSize)) /\ Upto(CDiv(x, BlockSize)) < x + BlockSize
  BY Ceiling
<1>2. Upto(CDiv(x, BlockSize)) \in Int /\ Upto(k) \in Int /\ BlockSize \in Nat
  BY <1>1, UptoStep, Sizes
<1> QED
  BY <1>1, <1>2, UptoInjective

LEMMA FloorIs ==
    ASSUME NEW x \in Int, NEW k \in Int, Upto(k) <= x, x < Upto(k) + BlockSize
    PROVE  x \div BlockSize = k
<1>1. /\ x \div BlockSize \in Int
      /\ Upto(x \div BlockSize) <= x /\ x < Upto(x \div BlockSize) + BlockSize
  BY Floor
<1>2. Upto(x \div BlockSize) \in Int /\ Upto(k) \in Int /\ BlockSize \in Nat
  BY <1>1, UptoStep, Sizes
<1> QED
  BY <1>1, <1>2, UptoInjective

LEMMA CeilingOrder ==
    ASSUME NEW x \in Nat, NEW y \in Nat, x <= y
    PROVE  CDiv(x, BlockSize) <= CDiv(y, BlockSize)
<1>1. /\ CDiv(x, BlockSize) \in Nat /\ CDiv(y, BlockSize) \in Nat
      /\ Upto(CDiv(x, BlockSize)) < x + BlockSize /\ y <= Upto(CDiv(y, BlockSize))
  BY Ceiling
<1>2. /\ Upto(CDiv(x, BlockSize)) \in Int /\ Upto(CDiv(y, BlockSize)) \in Int /\ BlockSize \in Nat
  BY <1>1, UptoStep, Sizes
<1>3. CDiv(y, BlockSize) < CDiv(x, BlockSize)
        => Upto(CDiv(y, BlockSize)) + BlockSize <= Upto(CDiv(x, BlockSize))
  BY <1>1, UptoMono
<1> QED
  BY <1>1, <1>2, <1>3

\* The columns of the model.
LEMMA ColumnRange ==
    /\ LastCol \in Nat /\ LastCol - NumSpec \in Nat
    /\ \A c \in Int : c \in Cols <=> 0 <= c /\ c <= LastCol
    /\ \A x \in Nat : x <= MaxTokens => CDiv(x, BlockSize) - 1 <= LastCol - NumSpec
<1>1. CDiv(MaxTokens, BlockSize) \in Nat /\ CDiv(MaxTokens, BlockSize) >= 1
  BY Sizes, Ceiling
<1>2. LastCol = CDiv(MaxTokens, BlockSize) - 1 + NumSpec
  BY DEF LastCol
<1>3. \A x \in Nat : x <= MaxTokens => CDiv(x, BlockSize) <= CDiv(MaxTokens, BlockSize)
  BY Sizes, CeilingOrder
<1>4. \A x \in Nat : CDiv(x, BlockSize) \in Nat
  BY Ceiling
<1> QED
  BY <1>1, <1>2, <1>3, <1>4, Sizes DEF Cols

LEMMA HistoryIsHolds ==
    ASSUME NEW w, NEW off, NEW n PROVE History(w, off, n) <=> Holds(w, off, n)
BY DEF History, Holds

-----------------------------------------------------------------------------
(* The columns of a step.                                                  *)

LEMMA StepColumn ==
    ASSUME Layout, pc # "idle"
    PROVE  /\ base \in Nat /\ query \in Nat \ {0} /\ base + query <= MaxTokens
           /\ stateIdx \in Cols /\ 0 <= stateIdx /\ stateIdx <= LastCol - NumSpec
           /\ Upto(stateIdx + 1) \in Int /\ base + query <= Upto(stateIdx + 1)
           /\ Upto(stateIdx + 1) < base + query + BlockSize
<1>1. /\ base \in 0 .. MaxTokens /\ query \in 1 .. MaxTokens /\ base + query <= MaxTokens
      /\ stateIdx = CDiv(base + query, BlockSize) - 1 /\ stateIdx >= 0
      /\ stateIdx \in -1 .. LastCol - NumSpec
  BY DEF Layout, TypeOK, StepFits
<1>2. base + query \in Nat
  BY <1>1, Sizes
<1>3. /\ CDiv(base + query, BlockSize) \in Nat
      /\ base + query <= Upto(CDiv(base + query, BlockSize))
      /\ Upto(CDiv(base + query, BlockSize)) < base + query + BlockSize
  BY <1>2, Ceiling
<1>4. stateIdx + 1 = CDiv(base + query, BlockSize)
  BY <1>1, <1>3
<1>5. Upto(stateIdx + 1) \in Int
  BY <1>3, <1>4, UptoStep
<1>6. stateIdx \in Cols /\ stateIdx <= LastCol - NumSpec
  BY <1>1, ColumnRange, Sizes
<1> QED
  BY <1>1, <1>3, <1>4, <1>5, <1>6, Sizes

\* A verification is no longer than a block: it reaches one column more at most.
LEMMA OneMoreColumn ==
    ASSUME NEW x \in Nat, NEW q \in Nat, q <= BlockSize
    PROVE  CDiv(x + q, BlockSize) <= CDiv(x, BlockSize) + 1
<1> DEFINE a == CDiv(x, BlockSize)
           b == CDiv(x + q, BlockSize)
<1>1. a \in Nat /\ b \in Nat /\ x <= Upto(a) /\ Upto(b) < x + q + BlockSize
  BY Ceiling, x + q \in Nat
<1> HIDE DEF a, b
<1>2. Upto(a) \in Int /\ Upto(b) \in Int /\ Upto(a + 1) = Upto(a) + BlockSize
  BY <1>1, UptoStep
<1>3. a + 1 < b => Upto(a + 1) + BlockSize <= Upto(b)
  BY <1>1, UptoMono
<1>4. ~(a + 1 < b)
  BY <1>1, <1>2, <1>3, Sizes
<1>5. b <= a + 1
  BY <1>1, <1>4
<1> QED
  BY <1>5 DEF a, b

LEMMA Counted ==
    ASSUME Layout, pc = "post"
    PROVE  /\ computed \in Nat /\ snapshot \in 0 .. SpecQueryLen /\ Run \in Int
           /\ Run = computed - snapshot + 1 /\ base < Run
           /\ base < computed /\ computed <= base + query
           /\ base < prompt => computed = base + query /\ snapshot \in {0, 1}
           /\ base >= prompt => /\ Run = base + 1 /\ snapshot >= 1
                                /\ query <= BlockSize /\ query <= SpecQueryLen
<1>1. /\ computed \in 0 .. MaxTokens /\ snapshot \in 0 .. SpecQueryLen
      /\ prompt \in 1 .. MaxTokens /\ drafts \in 0 .. NumSpec
  BY DEF Layout, TypeOK
<1>2. base \in Nat /\ query \in Nat \ {0}
  BY StepColumn
<1>3. /\ base >= prompt => query = drafts + 1
      /\ \/ base < prompt /\ computed = base + query /\ snapshot \in {0, 1}
         \/ base >= prompt /\ computed = base + snapshot /\ snapshot \in 1 .. query
  BY DEF Layout, StepFits, CountsAfter
<1>4. Run = computed - snapshot + 1
  BY DEF Run
<1> QED
  BY <1>1, <1>2, <1>3, <1>4, Sizes

LEMMA Boundary ==
    ASSUME Layout, pc = "post"
    PROVE  /\ Dest \in Int /\ Upto(Dest + 1) \in Int
           /\ Upto(Dest + 1) <= computed /\ computed < Upto(Dest + 1) + BlockSize
           /\ Dest <= stateIdx
           /\ Dest = stateIdx => computed = Upto(Dest + 1)
<1>1. computed \in Nat /\ computed <= base + query
  BY Counted
<1>2. /\ base \in Nat /\ query \in Nat \ {0} /\ stateIdx \in Cols /\ 0 <= stateIdx
      /\ Upto(stateIdx + 1) \in Int /\ base + query <= Upto(stateIdx + 1)
  BY StepColumn
<1>3. stateIdx \in Int
  BY <1>2, ColumnRange DEF Cols
<1>4. /\ computed \div BlockSize \in Int /\ Upto(computed \div BlockSize) <= computed
      /\ computed < Upto(computed \div BlockSize) + BlockSize
  BY <1>1, Floor
<1>5. Dest \in Int /\ Dest + 1 = computed \div BlockSize
  BY <1>4 DEF Dest
<1>6. Upto(Dest + 1) \in Int
  BY <1>5, UptoStep
<1>7. stateIdx + 1 < Dest + 1 => Upto(stateIdx + 1) + BlockSize <= Upto(Dest + 1)
  BY <1>3, <1>5, UptoMono
<1>8. Dest <= stateIdx
  BY <1>1, <1>2, <1>3, <1>4, <1>5, <1>6, <1>7, Sizes
<1>9. Dest = stateIdx => computed = Upto(Dest + 1)
  BY <1>1, <1>2, <1>4, <1>5, <1>6
<1> QED
  BY <1>4, <1>5, <1>6, <1>8, <1>9

\* The column the boundary belongs to has a block: it is the running one, or that of the
\* last token before the step.
LEMMA SavedColumnIsKept ==
    ASSUME Layout, pc = "post", Saves
    PROVE  Dest \in kept
<1>1. /\ Dest \in Int /\ Upto(Dest + 1) \in Int /\ Upto(Dest + 1) <= computed /\ Dest <= stateIdx
      /\ Upto(Dest + 1) >= Run
  BY Boundary DEF Saves
<1>2. /\ base \in Nat /\ query \in Nat \ {0} /\ stateIdx \in kept /\ stateIdx \in Int
      /\ stateIdx + 1 = CDiv(base + query, BlockSize)
      /\ Upto(stateIdx + 1) \in Int /\ Upto(stateIdx + 1) < base + query + BlockSize
      /\ prompt \in Nat \ {0}
  <2>1. CDiv(base + query, BlockSize) \in Nat
    BY StepColumn, Ceiling, base + query \in Nat
  <2> QED
    BY <2>1, StepColumn DEF Layout, StepFits, TypeOK
<1>3. /\ computed \in Nat /\ Run \in Int /\ base < Run
      /\ base < prompt => computed = base + query /\ snapshot \in {0, 1}
      /\ base >= prompt => query <= BlockSize
      /\ Run = computed - snapshot + 1
  BY Counted
<1>4. CASE base < prompt
  <2>1. Upto(Dest + 1) = base + query
    BY <1>1, <1>2, <1>3, <1>4
  <2>2. base + query \in Nat /\ Upto(Dest + 1) < base + query + BlockSize
    BY <1>2, <2>1, Sizes
  <2>3. CDiv(base + query, BlockSize) = Dest + 1
    BY <1>1, <2>1, <2>2, CeilingIs
  <2> QED
    BY <1>1, <1>2, <2>3
<1>5. CASE base >= prompt
  <2> DEFINE last == CDiv(base, BlockSize) - 1
  <2>1. /\ last \in Int /\ last + 1 = CDiv(base, BlockSize)
        /\ base <= Upto(last + 1) /\ Upto(last + 1) < base + BlockSize
    <3>1. CDiv(base, BlockSize) \in Nat /\ CDiv(base, BlockSize) - 1 + 1 = CDiv(base, BlockSize)
      BY <1>2, Ceiling
    <3>2. /\ base <= Upto(CDiv(base, BlockSize))
          /\ Upto(CDiv(base, BlockSize)) < base + BlockSize
      BY <1>2, Ceiling
    <3> QED
      BY <3>1, <3>2
  <2>2. last \in kept
    <3>1. Start = base
      BY DEF Start
    <3> QED
      BY <1>2, <1>5, <3>1 DEF Layout, LastTokenKept
  <2> HIDE DEF last
  <2>3. stateIdx + 1 <= last + 1 + 1
    <3>1. CDiv(base + query, BlockSize) <= CDiv(base, BlockSize) + 1
      BY <1>2, <1>3, <1>5, OneMoreColumn
    <3> QED
      BY <1>2, <2>1, <3>1
  <2>4. last \in Int
    BY <2>1
  <2>5. Upto(last + 1) \in Int /\ (Dest + 1 < last + 1 => Upto(Dest + 1) + BlockSize <= Upto(last + 1))
    <3>1. last + 1 \in Int /\ Dest + 1 \in Int
      BY <1>1, <2>4
    <3> QED
      BY <3>1, UptoStep, UptoMono
  <2>6. ~(Dest < last)
    BY <1>1, <1>2, <1>3, <2>1, <2>4, <2>5, Sizes
  <2>7. Dest = last \/ Dest = stateIdx
    BY <1>1, <1>2, <2>3, <2>4, <2>6
  <2> QED
    BY <1>2, <2>2, <2>7
<1> QED
  BY <1>2, <1>3, <1>4, <1>5

\* Both runners copy from the same place to the same place.
LEMMA OneRunning ==
    ASSUME Layout, pc = "post", NEW running \in RunningTokens
    PROVE  /\ running = Run /\ DestCol(running) = Dest
           /\ NeedsCopy(running) <=> Saves
           /\ Bias(running) = Upto(Dest + 1) - Run
<1>1. /\ computed \in Nat /\ snapshot \in Nat /\ base \in Nat /\ query \in Nat /\ drafts \in Nat
      /\ prompt \in Nat
  BY Counted, StepColumn, Sizes DEF Layout, TypeOK
<1>2. /\ base < prompt => drafts = 0
      /\ base >= prompt => query = drafts + 1
      /\ \/ base < prompt /\ computed = base + query /\ snapshot \in {0, 1}
         \/ base >= prompt /\ computed = base + snapshot /\ snapshot \in 1 .. query
  BY DEF Layout, StepFits, CountsAfter
<1>3. running = Run
  <2>1. \/ running = computed - snapshot + 1
        \/ snapshot >= 1 /\ running = base + query - drafts
    BY DEF RunningTokens, CountRead
  <2> QED
    BY <1>1, <1>2, <2>1 DEF Run
<1>4. running + CountRead - 1 = computed
  BY <1>1, <1>3 DEF Run, CountRead
<1>5. Dest \in Int /\ Dest + 1 = computed \div BlockSize
  BY <1>1, Floor DEF Dest
<1>6. Aligned(running) = Upto(Dest + 1)
  BY <1>4, <1>5 DEF Aligned, Upto
<1>7. DestCol(running) = Dest
  <2>1. BlockSize \in Nat \ {0} /\ Upto(Dest + 1) \in Int
    BY <1>5, Sizes, UptoStep
  <2>2. Upto(Dest + 1) \div BlockSize = Dest + 1
    BY <1>5, <2>1, FloorIs
  <2> QED
    BY <1>5, <1>6, <2>2 DEF DestCol
<1> QED
  BY <1>3, <1>6, <1>7 DEF NeedsCopy, Saves, Bias

-----------------------------------------------------------------------------
(* Where the state is.                                                     *)

LEMMA WindowsAreTyped ==
    ASSUME NEW w \in Window, NEW rows, Len(rows) \in Nat,
           \A j \in 1 .. Len(rows) : rows[j] \in Int, NEW b \in BOOLEAN, NEW a \in 0 .. SpecQueryLen
    PROVE  PrefillWindow(w, rows, b) \in Window /\ SpecWindow(w, rows, a) \in Window
<1>1. StateLen \in Nat /\ NumSpec \in Nat /\ Width = StateLen + NumSpec
  BY Sizes
<1>2. SlotOff(a) \in 0 .. NumSpec
  BY OffRange
<1> DEFINE q == Len(rows)
           off == SlotOff(a)
<1>3. q \in Nat /\ off \in 0 .. NumSpec /\ \A j \in 1 .. q : rows[j] \in Int
  BY <1>2
<1>4. \A i \in Cells : w[i] \in Int
  BY DEF Window
<1> HIDE DEF q, off
<1>5. ASSUME NEW i \in Cells
      PROVE  (IF i > StateLen - 1 THEN w[i]
              ELSE IF q + i > StateLen - 1 THEN rows[q + i - StateLen + 1]
              ELSE IF b THEN w[q + i] ELSE 0) \in Int
  <2>1. i \in Nat /\ i <= StateLen + NumSpec - 1
    BY <1>1 DEF Cells
  <2>2. i <= StateLen - 1 /\ q + i > StateLen - 1 => q + i - StateLen + 1 \in 1 .. q
    BY <1>1, <1>3, <2>1
  <2>3. q + i <= StateLen - 1 => q + i \in Cells
    BY <1>1, <1>3, <2>1 DEF Cells
  <2>4. i > StateLen - 1 \/ i <= StateLen - 1
    BY <1>1, <2>1
  <2>5. q + i > StateLen - 1 \/ q + i <= StateLen - 1
    BY <1>1, <1>3, <2>1
  <2> QED
    BY <1>3, <1>4, <2>2, <2>3, <2>4, <2>5
<1>6. ASSUME NEW i \in Cells
      PROVE  (IF i >= StateLen + q - 1 THEN w[i]
              ELSE IF i + 1 > StateLen - 1 THEN rows[i + 1 - StateLen + 1]
              ELSE w[off + 1 + i]) \in Int
  <2>1. i \in Nat /\ i <= StateLen + NumSpec - 1
    BY <1>1 DEF Cells
  <2>2. ~(i >= StateLen + q - 1) /\ i + 1 > StateLen - 1 => i + 1 - StateLen + 1 \in 1 .. q
    BY <1>1, <1>3, <2>1
  <2>3. i + 1 <= StateLen - 1 => off + 1 + i \in Cells
    BY <1>1, <1>3, <2>1 DEF Cells
  <2>4. i + 1 > StateLen - 1 \/ i + 1 <= StateLen - 1
    BY <1>1, <2>1
  <2> QED
    BY <1>3, <1>4, <2>2, <2>3, <2>4
<1> QED
  BY <1>5, <1>6 DEF PrefillWindow, SpecWindow, Window, q, off

LEMMA LayoutInit == Init => Layout
<1> SUFFICES ASSUME Init PROVE Layout
  OBVIOUS
<1>1. /\ LastCol - NumSpec \in Nat /\ SpecQueryLen \in Nat /\ SpecQueryLen >= 1
      /\ MaxTokens \in Nat /\ MaxTokens >= 1 /\ MaxHits \in Nat /\ NumSpec \in Nat
  BY ColumnRange, Sizes
<1>2. Junk \in Int
  BY <1>1 DEF Junk
<1>3. temporal \in [Cols -> {Bad} \union 0 .. MaxTokens] /\ conv \in [Cols -> Window]
  BY <1>2 DEF Init, Window
<1>4. TypeOK
  <2>1. /\ stateIdx \in -1 .. LastCol - NumSpec /\ srcCol \in -1 .. LastCol - NumSpec
        /\ accepted \in 0 .. SpecQueryLen /\ snapshot \in 0 .. SpecQueryLen
    BY <1>1 DEF Init
  <2>2. /\ computed \in 0 .. MaxTokens /\ base \in 0 .. MaxTokens /\ query \in 0 .. MaxTokens
        /\ srcOff \in 0 .. NumSpec /\ drafts \in 0 .. NumSpec /\ hits \in 0 .. MaxHits
    BY <1>1 DEF Init
  <2> QED
    BY <1>3, <2>1, <2>2 DEF Init, TypeOK
<1>5. Start = 0
  BY DEF Start, Init
<1>6. PromptFillsColumns /\ LastTokenKept
  <2>1. 0 \in Nat /\ Upto(0) = 0
    BY UptoStep
  <2> QED
    BY <1>5, <2>1 DEF PromptFillsColumns, LastTokenKept, Init
<1>7. StepFits /\ CountsAfter /\ CountsBefore
  BY DEF Init, StepFits, CountsAfter, CountsBefore
<1> QED
  BY <1>4, <1>6, <1>7 DEF Init, Layout

LEMMA SeedColumn ==
    ASSUME NEW k \in Nat
    PROVE  k * BlockSize = Upto(k) /\ SeedCol(k * BlockSize) = k - 1
<1>1. Upto(k) \in Int /\ Upto(k - 1) = Upto(k) - BlockSize /\ BlockSize \in Nat /\ BlockSize >= 1
  BY k \in Int, UptoStep, Sizes
<1>2. (Upto(k) - 1) \div BlockSize = k - 1
  BY <1>1, FloorIs
<1> QED
  BY <1>2 DEF SeedCol, Upto

LEMMA LayoutAdmit ==
    ASSUME Layout, NEW k \in Cols, NEW p \in 1 .. MaxTokens, Admit(k, p)
    PROVE  Layout'
<1>1. /\ pc = "idle" /\ pc' = "idle" /\ prompt' = p /\ computed' = Upto(k) /\ stateIdx' = k - 1
      /\ accepted' = 1 /\ kept' = {c \in kept : c < k} /\ Upto(k) < p
      /\ k = 0 \/ k - 1 \in kept
  <2>1. k \in Nat
    BY ColumnRange DEF Cols
  <2> QED
    BY <2>1, SeedColumn DEF Admit
<1>2. k \in Nat /\ k - 1 <= LastCol - NumSpec /\ LastCol \in Nat /\ NumSpec \in Nat
  BY <1>1, ColumnRange, Sizes DEF Layout, Cols
<1>3. Upto(k) \in 0 .. MaxTokens
  <2>1. Upto(k) \in Int /\ Upto(0) = 0 /\ Upto(0) <= Upto(k)
    BY <1>2, UptoStep, UptoOrder
  <2> QED
    BY <1>1, <2>1, Sizes
<1>4. temporal' \in [Cols -> {Bad} \union 0 .. MaxTokens] /\ conv' \in [Cols -> Window]
  <2>1. Junk \in Int
    BY Sizes DEF Junk
  <2>2. \A c \in Cols : (IF c < k THEN conv[c] ELSE [i \in Cells |-> Junk]) \in Window
    BY <2>1 DEF Layout, TypeOK, Window
  <2>3. \A c \in Cols : (IF c < k THEN temporal[c] ELSE Bad) \in {Bad} \union 0 .. MaxTokens
    BY DEF Layout, TypeOK
  <2> QED
    BY <2>2, <2>3 DEF Admit
<1>5. TypeOK'
  <2>1. stateIdx' \in -1 .. LastCol - NumSpec /\ accepted' \in 0 .. SpecQueryLen
    BY <1>1, <1>2, Sizes
  <2>2. UNCHANGED <<pc, todo, staged, hits>> /\ skipped' = FALSE
    BY DEF Admit
  <2> QED
    BY <1>1, <1>3, <1>4, <2>1, <2>2 DEF Layout, TypeOK, staged
<1>6. Start' = Upto(k)
  BY <1>1 DEF Start
<1>7. PromptFillsColumns'
  <2>1. ASSUME NEW c \in kept' PROVE Upto(c + 1) <= Upto(k)
    <3>1. c \in Int /\ c + 1 <= k
      BY <1>1, <1>2 DEF Layout, TypeOK, Cols
    <3> QED
      BY <1>2, <3>1, UptoOrder
  <2> QED
    BY <1>1, <1>2, <1>6, <2>1 DEF PromptFillsColumns
<1>8. LastTokenKept'
  <2> SUFFICES ASSUME Upto(k) > 0 PROVE CDiv(Upto(k), BlockSize) - 1 \in kept'
    BY <1>6 DEF LastTokenKept
  <2>1. CDiv(Upto(k), BlockSize) = k
    <3>1. Upto(k) \in Nat /\ Upto(k) < Upto(k) + BlockSize
      BY <1>3, Sizes
    <3> QED
      BY <1>2, <3>1, CeilingIs
  <2>2. k # 0
    BY UptoStep
  <2> QED
    BY <1>1, <1>2, <2>1, <2>2
<1>9. CountsBefore'
  <2>1. Upto(k) > 0 => k >= 1
    BY <1>2, UptoStep
  <2> QED
    BY <1>1, <1>2, <2>1 DEF CountsBefore
<1> QED
  BY <1>1, <1>5, <1>7, <1>8, <1>9 DEF Layout, StepFits, CountsAfter

\* The two ways a step is scheduled.
LEMMA LayoutPreprocess ==
    ASSUME Layout, pc = "idle", NEW q \in 1 .. MaxTokens, NEW d \in 0 .. NumSpec,
           computed + q <= MaxTokens, Preprocess(q, d),
           computed < prompt =>
               /\ d = 0 /\ computed + q <= prompt
               /\ computed + q < prompt => \E k \in Nat : computed + q = Upto(k),
           computed >= prompt => q = d + 1
    PROVE  Layout'
<1> DEFINE new == CDiv(computed + q, BlockSize) - 1
<1>1. computed \in Nat /\ stateIdx \in -1 .. LastCol - NumSpec /\ accepted \in 0 .. SpecQueryLen
  BY Sizes DEF Layout, TypeOK
<1>2. new \in Nat /\ new <= LastCol - NumSpec
  <2>1. computed + q \in Nat /\ computed + q > 0
    BY <1>1
  <2>2. CDiv(computed + q, BlockSize) \in Nat /\ CDiv(computed + q, BlockSize) >= 1
    BY <2>1, Ceiling
  <2> QED
    BY <2>1, <2>2, ColumnRange
<1>3. /\ stateIdx' = new /\ kept' = kept \union {new}
      /\ base' = computed /\ query' = q /\ drafts' = d /\ pc' = "precopy" /\ todo' = States
      /\ temporal' = temporal /\ conv' = conv /\ prompt' = prompt /\ computed' = computed
      /\ snapshot' = snapshot /\ hits' = hits /\ skipped' = skipped
      /\ accepted' = IF stateIdx >= 0 /\ stateIdx # new THEN 1 ELSE accepted
      /\ \/ srcCol' = stateIdx /\ srcOff' = SrcOff
         \/ /\ accepted >= 1
            /\ srcCol' = IF stateIdx >= 0 /\ stateIdx # new THEN stateIdx ELSE -1
            /\ srcOff' = IF stateIdx >= 0 /\ stateIdx # new THEN accepted - 1 ELSE 0
  BY DEF Preprocess, StageInputs, RunningCol, tables, guard
<1> HIDE DEF new
<1>4. TypeOK'
  <2>1. srcCol' \in -1 .. LastCol - NumSpec /\ srcOff' \in 0 .. NumSpec
    BY <1>1, <1>2, <1>3, Sizes, ColumnRange DEF SrcOff
  <2>2. accepted' \in 0 .. SpecQueryLen /\ stateIdx' \in -1 .. LastCol - NumSpec
    BY <1>1, <1>2, <1>3, Sizes, ColumnRange
  <2>3. kept' \subseteq Cols
    BY <1>2, <1>3, ColumnRange, Sizes DEF Layout, TypeOK
  <2>4. base' \in 0 .. MaxTokens /\ query' \in 0 .. MaxTokens
    BY <1>1, <1>3, Sizes DEF Layout, TypeOK
  <2> QED
    BY <1>3, <2>1, <2>2, <2>3, <2>4 DEF Layout, TypeOK
<1>5. Start' = Start
  BY <1>3 DEF Start
<1>6. PromptFillsColumns' /\ LastTokenKept'
  BY <1>3, <1>5 DEF Layout, PromptFillsColumns, LastTokenKept
<1>7. StepFits'
  BY <1>2, <1>3 DEF StepFits, new
<1>8. CountsAfter' /\ CountsBefore'
  BY <1>1, <1>3 DEF Layout, CountsAfter, CountsBefore
<1>9. kept' \subseteq 0 .. LastCol - NumSpec
  BY <1>2, <1>3, ColumnRange DEF Layout
<1> QED
  BY <1>4, <1>6, <1>7, <1>8, <1>9 DEF Layout

LEMMA LayoutSchedulePrefill ==
    ASSUME Layout, NEW q \in 1 .. MaxTokens, SchedulePrefill(q)
    PROVE  Layout'
<1>1. computed \in Nat /\ prompt \in 1 .. MaxTokens /\ 0 \in 0 .. NumSpec
  BY Sizes DEF Layout, TypeOK
<1>2. /\ pc = "idle" /\ computed < prompt /\ Preprocess(q, 0) /\ computed + q <= prompt
      /\ computed + q < prompt => (computed + q) % BlockSize = 0
  BY <1>1 DEF SchedulePrefill
<1>3. ASSUME computed + q < prompt PROVE \E k \in Nat : computed + q = Upto(k)
  <2> DEFINE x == computed + q
  <2>1. x \in Nat /\ x % BlockSize = 0 /\ BlockSize \in Nat \ {0}
    BY <1>1, <1>2, <1>3, Sizes
  <2> HIDE DEF x
  <2>2. x = BlockSize * (x \div BlockSize) + (x % BlockSize) /\ x \div BlockSize \in Nat
    BY <2>1, SMT
  <2>3. x = Upto(x \div BlockSize)
    BY <2>1, <2>2, SMT DEF Upto
  <2> QED
    BY <2>2, <2>3 DEF x
<1>4. /\ computed < prompt =>
             /\ 0 = 0 /\ computed + q <= prompt
             /\ computed + q < prompt => \E k \in Nat : computed + q = Upto(k)
      /\ computed >= prompt => q = 0 + 1
      /\ computed + q <= MaxTokens
  BY <1>1, <1>2, <1>3, Sizes
<1> QED
  BY <1>1, <1>2, <1>4, LayoutPreprocess

LEMMA LayoutScheduleDecode ==
    ASSUME Layout, NEW d \in 0 .. NumSpec, ScheduleDecode(d)
    PROVE  Layout'
<1>1. computed \in Nat /\ prompt \in 1 .. MaxTokens /\ d \in Nat
  BY Sizes DEF Layout, TypeOK
<1>2. /\ pc = "idle" /\ computed >= prompt /\ computed + (1 + d) <= MaxTokens
      /\ Preprocess(1 + d, d)
  BY <1>1 DEF ScheduleDecode
<1>3. 1 + d \in 1 .. MaxTokens /\ ~(computed < prompt) /\ 1 + d = d + 1
  BY <1>1, <1>2, Sizes
<1> QED
  BY <1>2, <1>3, LayoutPreprocess

Tables(t, w) == t \in [Cols -> {Bad} \union 0 .. MaxTokens] /\ w \in [Cols -> Window]

LEMMA Copied ==
    ASSUME TypeOK, NEW s \in States, NEW src \in 0 .. LastCol - NumSpec, NEW dst,
           NEW bias \in 0 .. NumSpec, CopyBlock(s, src, dst, bias)
    PROVE  /\ Tables(temporal', conv') /\ hits' \in 0 .. MaxHits /\ skipped' \in BOOLEAN
           /\ \A c \in Cols : c # dst => temporal'[c] = temporal[c] /\ conv'[c] = conv[c]
<1>1. Tables(temporal, conv) /\ hits \in 0 .. MaxHits /\ skipped \in BOOLEAN
  BY DEF TypeOK, Tables
<1>2. src + bias \in Cols /\ src \in Cols
  BY ColumnRange, Sizes
<1>3. CASE s = "conv" /\ CopyConv(src, dst, bias) /\ UNCHANGED <<temporal, guard>>
  <2> DEFINE new(at) == [i \in Cells |-> IF i + bias <= Width - 1 THEN conv[src][i + bias] ELSE at[i]]
  <2>1. ASSUME NEW at \in Window PROVE new(at) \in Window
    <3>1. \A i \in Cells : i + bias <= Width - 1 => i + bias \in Cells
      BY Sizes DEF Cells
    <3>2. conv[src] \in Window
      BY <1>1, <1>2 DEF Tables
    <3> QED
      BY <3>1, <3>2 DEF Window
  <2>2. conv' = [conv EXCEPT ![dst] = new(conv[dst])]
    BY <1>3 DEF CopyConv
  <2> HIDE DEF new
  <2>3. conv' \in [Cols -> Window]
    BY <1>1, <2>1, <2>2 DEF Tables
  <2>4. \A c \in Cols : c # dst => conv'[c] = conv[c]
    BY <1>1, <2>2 DEF Tables
  <2> QED
    BY <1>1, <1>3, <2>3, <2>4 DEF Tables, guard
<1>4. CASE s = "temporal" /\ temporal' = [temporal EXCEPT ![dst] = temporal[src + bias]]
             /\ UNCHANGED <<conv, guard>>
  <2>1. temporal[src + bias] \in {Bad} \union 0 .. MaxTokens
    BY <1>1, <1>2 DEF Tables
  <2> QED
    BY <1>1, <1>4, <2>1 DEF Tables, guard
<1>5. CASE hits < MaxHits /\ hits' = hits + 1 /\ skipped' = TRUE /\ UNCHANGED tables
  BY <1>1, <1>5, Sizes DEF Tables, tables
<1> QED
  BY <1>3, <1>4, <1>5 DEF CopyBlock

\* What a column has been given before the step, no step touches.
Frozen == \A c \in kept : Upto(c + 1) <= base => temporal'[c] = temporal[c] /\ conv'[c] = conv[c]

LEMMA RunningColumnIsNew ==
    ASSUME Layout, pc # "idle", NEW c \in Cols, Upto(c + 1) <= base
    PROVE  c < stateIdx
<1>1. /\ base \in Nat /\ query \in Nat \ {0} /\ stateIdx \in Cols
      /\ Upto(stateIdx + 1) \in Int /\ base + query <= Upto(stateIdx + 1)
  BY StepColumn
<1>2. c \in Int /\ stateIdx \in Int
  BY <1>1, ColumnRange DEF Cols
<1>3. stateIdx + 1 <= c + 1 => Upto(stateIdx + 1) <= Upto(c + 1)
  BY <1>2, UptoOrder
<1>4. Upto(c + 1) \in Int
  BY <1>2, UptoStep, c + 1 \in Int
<1>5. ~(stateIdx <= c)
  BY <1>1, <1>2, <1>3, <1>4
<1> QED
  BY <1>2, <1>5

LEMMA LayoutPrecopy ==
    ASSUME Layout, NEW s \in States, Precopy(s)
    PROVE  Layout' /\ Frozen
<1>1. /\ pc = "precopy" /\ pc' \in {"precopy", "forward"} /\ todo' = todo \ {s}
      /\ UNCHANGED <<prompt, computed, stateIdx, accepted, staged, kept>>
  BY DEF Precopy, Retire
<1>2. /\ Tables(temporal', conv') /\ hits' \in 0 .. MaxHits /\ skipped' \in BOOLEAN
      /\ \A c \in Cols : c # stateIdx => temporal'[c] = temporal[c] /\ conv'[c] = conv[c]
  <2>1. CASE srcCol < 0 \/ srcCol = stateIdx
    BY <2>1 DEF Precopy, tables, guard, Layout, TypeOK, Tables
  <2>2. CASE ~(srcCol < 0 \/ srcCol = stateIdx)
    <3>1. srcCol \in 0 .. LastCol - NumSpec /\ srcOff \in 0 .. NumSpec
      BY <2>2, ColumnRange DEF Layout, TypeOK
    <3>2. CopyBlock(s, srcCol, stateIdx, srcOff)
      BY <2>2 DEF Precopy
    <3> QED
      BY <3>1, <3>2, Copied DEF Layout
  <2> QED
    BY <2>1, <2>2
<1>3. TypeOK'
  BY <1>1, <1>2 DEF Layout, TypeOK, Tables, staged
<1>4. Start' = Start
  BY <1>1 DEF Start, staged
<1>5. PromptFillsColumns' /\ LastTokenKept'
  BY <1>1, <1>4 DEF Layout, PromptFillsColumns, LastTokenKept
<1>6. StepFits'
  BY <1>1 DEF Layout, StepFits, staged
<1>7. CountsAfter' /\ CountsBefore'
  BY <1>1 DEF Layout, CountsAfter, CountsBefore, staged
<1>8. Frozen
  <2>1. ASSUME NEW c \in kept, Upto(c + 1) <= base
        PROVE  temporal'[c] = temporal[c] /\ conv'[c] = conv[c]
    <3>1. c \in Cols /\ c # stateIdx
      BY <1>1, <2>1, RunningColumnIsNew, StepColumn DEF Layout, TypeOK
    <3> QED
      BY <1>2, <3>1
  <2> QED
    BY <2>1 DEF Frozen
<1> QED
  BY <1>1, <1>3, <1>5, <1>6, <1>7, <1>8 DEF Layout

\* What the forward pass leaves of the counts, whatever kind of step it was.
LEMMA LayoutForward ==
    ASSUME Layout, pc = "forward", pc' = "post", todo' = States,
           UNCHANGED <<prompt, stateIdx, srcCol, srcOff, base, query, drafts, kept, guard>>,
           Tables(temporal', conv'),
           computed' \in 0 .. MaxTokens, accepted' \in 0 .. SpecQueryLen, snapshot' = accepted',
           \/ base < prompt /\ computed' = base + query /\ snapshot' \in {0, 1}
              /\ (computed' = prompt => snapshot' = 1)
           \/ base >= prompt /\ computed' = base + snapshot' /\ snapshot' \in 1 .. query
    PROVE  Layout'
<1>1. TypeOK'
  BY DEF Layout, TypeOK, Tables, guard
<1>2. Start' = Start
  BY DEF Start
<1>3. PromptFillsColumns' /\ LastTokenKept'
  BY <1>2 DEF Layout, PromptFillsColumns, LastTokenKept
<1>4. StepFits'
  BY DEF Layout, StepFits
<1>5. CountsAfter'
  BY DEF CountsAfter, States
<1>6. CountsBefore'
  BY DEF CountsBefore
<1> QED
  BY <1>1, <1>3, <1>4, <1>5, <1>6 DEF Layout

LEMMA RowsAreNumbers ==
    ASSUME computed \in Nat, NEW q \in Nat, NEW ok \in Nat
    PROVE  /\ Len(RowsAfter(q, ok)) = q
           /\ \A j \in 1 .. q : RowsAfter(q, ok)[j] \in Int
           /\ \A j \in 1 .. q : j <= ok => RowsAfter(q, ok)[j] = computed + j
<1>1. \A j \in 1 .. q : (IF j <= ok THEN computed + j ELSE -(computed + j)) \in Int
  OBVIOUS
<1>2. RowsAfter(q, ok) \in [1 .. q -> Int]
  BY <1>1 DEF RowsAfter
<1>3. Len(RowsAfter(q, ok)) = q
  BY <1>2, RowsOf
<1>4. \A j \in 1 .. q : j <= ok => RowsAfter(q, ok)[j] = computed + j
  BY DEF RowsAfter
<1> QED
  BY <1>2, <1>3, <1>4

LEMMA LayoutForwardPrompt ==
    ASSUME Layout, ForwardPrompt
    PROVE  Layout' /\ Frozen
<1> DEFINE t == temporal[stateIdx]
           rows == RowsAfter(query, query)
           new == PrefillWindow(conv[stateIdx], rows, computed > 0)
<1>1. /\ pc = "forward" /\ computed < prompt /\ base = computed /\ computed \in Nat
      /\ query \in Nat \ {0} /\ stateIdx \in Cols /\ computed + query <= MaxTokens
      /\ prompt \in Nat
      /\ base + query < prompt \/ base + query = prompt
  BY StepColumn, Sizes DEF ForwardPrompt, LaunchPostprocess, Layout, TypeOK, StepFits
<1>2. conv[stateIdx] \in Window /\ Tables(temporal, conv)
  BY <1>1 DEF Layout, TypeOK, Tables
<1>3. new \in Window
  <2>1. Len(rows) \in Nat /\ \A j \in 1 .. Len(rows) : rows[j] \in Int
    BY <1>1, RowsAreNumbers
  <2>2. (computed > 0) \in BOOLEAN /\ 0 \in 0 .. SpecQueryLen
    BY Sizes
  <2> HIDE DEF rows
  <2> QED
    BY <1>2, <2>1, <2>2, WindowsAreTyped
<1>4. conv' = [conv EXCEPT ![stateIdx] = new]
  BY DEF ForwardPrompt, LaunchPostprocess
<1>5. PICK v \in {Bad} \union 0 .. MaxTokens : temporal' = [temporal EXCEPT ![stateIdx] = v]
  <2> DEFINE s == IF computed = 0 THEN 0 ELSE t
  <2>1. Consume(s, query, query) \in {Bad} \union 0 .. MaxTokens
    BY <1>1, Sizes DEF Consume
  <2>2. temporal' = [temporal EXCEPT ![stateIdx] = Consume(s, query, query)]
    BY DEF ForwardPrompt, LaunchPostprocess
  <2> QED
    BY <2>1, <2>2
<1> HIDE DEF new
<1>6. Tables(temporal', conv')
  BY <1>2, <1>3, <1>4, <1>5 DEF Tables
<1>7. /\ computed' = computed + query /\ snapshot' = accepted' /\ accepted' \in {0, 1}
      /\ computed' = prompt => accepted' = 1
      /\ UNCHANGED <<prompt, stateIdx, srcCol, srcOff, base, query, drafts, kept, guard>>
      /\ pc' = "post" /\ todo' = States
  BY DEF ForwardPrompt, LaunchPostprocess
<1>8. computed' \in 0 .. MaxTokens /\ accepted' \in 0 .. SpecQueryLen
  BY <1>1, <1>7, Sizes
<1>9. Layout'
  BY <1>1, <1>6, <1>7, <1>8, LayoutForward
<1>10. Frozen
  <2>1. ASSUME NEW c \in kept, Upto(c + 1) <= base
        PROVE  temporal'[c] = temporal[c] /\ conv'[c] = conv[c]
    <3>1. c \in Cols /\ c # stateIdx
      BY <1>1, <2>1, RunningColumnIsNew, ColumnRange DEF Layout, TypeOK
    <3> QED
      BY <1>2, <1>4, <1>5, <3>1 DEF Tables
  <2> QED
    BY <2>1 DEF Frozen
<1> QED
  BY <1>9, <1>10

\* A verification and where its rows go.
LEMMA Verification ==
    ASSUME Layout, NEW ok \in 1 .. query, ForwardVerify(ok)
    PROVE  /\ pc = "forward" /\ base = computed /\ computed \in Nat \ {0} /\ ok \in Nat \ {0}
           /\ ok <= query /\ query \in 1 .. SpecQueryLen /\ base + query <= MaxTokens
           /\ base >= prompt /\ computed >= prompt
           /\ stateIdx \in Cols /\ 0 <= stateIdx /\ stateIdx <= LastCol - NumSpec
           /\ accepted \in 0 .. SpecQueryLen
<1>1. /\ pc = "forward" /\ computed >= prompt /\ prompt \in 1 .. MaxTokens /\ base = computed
      /\ base >= prompt => query = drafts + 1
      /\ drafts \in 0 .. NumSpec /\ computed \in 0 .. MaxTokens
      /\ accepted \in 0 .. SpecQueryLen
  BY DEF ForwardVerify, LaunchPostprocess, Layout, TypeOK, StepFits
<1>2. /\ base \in Nat /\ query \in Nat \ {0} /\ base + query <= MaxTokens
      /\ stateIdx \in Cols /\ 0 <= stateIdx /\ stateIdx <= LastCol - NumSpec
  BY <1>1, StepColumn
<1> QED
  BY <1>1, <1>2, Sizes

LEMMA LayoutForwardVerify ==
    ASSUME Layout, NEW ok \in 1 .. query, ForwardVerify(ok)
    PROVE  Layout' /\ Frozen
<1> DEFINE s == temporal[stateIdx + Offset]
           rows == RowsAfter(query, ok)
           new == SpecWindow(conv[stateIdx], rows, accepted)
<1>1. /\ pc = "forward" /\ base = computed /\ computed \in Nat \ {0} /\ ok \in Nat \ {0}
      /\ ok <= query /\ query \in 1 .. SpecQueryLen /\ base + query <= MaxTokens
      /\ base >= prompt /\ stateIdx \in Cols /\ 0 <= stateIdx /\ accepted \in 0 .. SpecQueryLen
      /\ stateIdx \in Int
  BY Verification, ColumnRange DEF Cols
<1>2. conv[stateIdx] \in Window /\ Tables(temporal, conv)
  BY <1>1 DEF Layout, TypeOK, Tables
<1>3. new \in Window
  <2>1. query \in Nat /\ ok \in Nat
    BY <1>1, Sizes
  <2>2. Len(rows) \in Nat /\ \A j \in 1 .. Len(rows) : rows[j] \in Int
    BY <1>1, <2>1, RowsAreNumbers
  <2> HIDE DEF rows
  <2> QED
    BY <1>1, <1>2, <2>2, WindowsAreTyped, TRUE \in BOOLEAN
<1>4. conv' = [conv EXCEPT ![stateIdx] = new]
  BY DEF ForwardVerify, LaunchPostprocess
<1> HIDE DEF new
<1>5. temporal' = [c \in Cols |-> IF c - stateIdx \in 0 .. query - 1
                                  THEN Consume(s, c - stateIdx + 1, ok) ELSE temporal[c]]
  BY DEF ForwardVerify, LaunchPostprocess
<1> HIDE DEF s
<1>6. temporal' \in [Cols -> {Bad} \union 0 .. MaxTokens]
  <2>1. ASSUME NEW c \in Cols, c - stateIdx \in 0 .. query - 1
        PROVE  Consume(s, c - stateIdx + 1, ok) \in {Bad} \union 0 .. MaxTokens
    <3>1. c \in Int
      BY ColumnRange DEF Cols
    <3>2. c - stateIdx + 1 <= ok => computed + (c - stateIdx + 1) \in 0 .. MaxTokens
      BY <1>1, <2>1, <3>1, Sizes
    <3> QED
      BY <3>2 DEF Consume
  <2>2. \A c \in Cols : temporal[c] \in {Bad} \union 0 .. MaxTokens
    BY <1>2 DEF Tables
  <2> QED
    BY <1>5, <2>1, <2>2
<1>7. Tables(temporal', conv')
  BY <1>2, <1>3, <1>4, <1>6 DEF Tables
<1>8. /\ computed' = computed + ok /\ accepted' = ok /\ snapshot' = ok
      /\ UNCHANGED <<prompt, stateIdx, srcCol, srcOff, base, query, drafts, kept, guard>>
      /\ pc' = "post" /\ todo' = States
  BY DEF ForwardVerify, LaunchPostprocess
<1>9. /\ computed' \in 0 .. MaxTokens /\ accepted' \in 0 .. SpecQueryLen
      /\ snapshot' \in 1 .. query /\ computed' = base + snapshot' /\ snapshot' = accepted'
  BY <1>1, <1>8, Sizes
<1>10. Layout'
  BY <1>1, <1>7, <1>8, <1>9, LayoutForward
<1>11. Frozen
  <2>1. ASSUME NEW c \in kept, Upto(c + 1) <= base
        PROVE  temporal'[c] = temporal[c] /\ conv'[c] = conv[c]
    <3>1. c \in Cols /\ c < stateIdx
      BY <1>1, <2>1, RunningColumnIsNew DEF Layout, TypeOK
    <3>2. c \in Int
      BY <3>1, ColumnRange DEF Cols
    <3>3. c # stateIdx /\ ~(c - stateIdx \in 0 .. query - 1)
      BY <1>1, <3>1, <3>2
    <3> QED
      BY <1>2, <1>4, <1>5, <3>1, <3>3 DEF Tables
  <2> QED
    BY <2>1 DEF Frozen
<1> QED
  BY <1>10, <1>11

-----------------------------------------------------------------------------
\* What a program of the post-process kernel does, in terms of the boundary.
Saved(s) ==
    IF Saves /\ ~(Dest = stateIdx /\ Upto(Dest + 1) = Run)
    THEN CopyBlock(s, stateIdx, Dest, Upto(Dest + 1) - Run)
    ELSE UNCHANGED <<tables, guard>>

LEMMA PostprocessIs ==
    ASSUME Layout, NEW s \in States, NEW running \in RunningTokens, Postprocess(s, running)
    PROVE  /\ pc = "post" /\ s \in todo /\ todo' = todo \ {s}
           /\ pc' = IF todo = {s} THEN "idle" ELSE "post"
           /\ accepted' = IF Resets /\ s = "conv" THEN 1 ELSE accepted
           /\ Saved(s)
           /\ UNCHANGED <<prompt, computed, stateIdx, staged, kept>>
<1>1. pc = "post"
  BY DEF Postprocess
<1>2. /\ running = Run /\ DestCol(running) = Dest /\ (NeedsCopy(running) <=> Saves)
      /\ Bias(running) = Upto(Dest + 1) - Run
  BY <1>1, OneRunning
<1>3. Bias(running) = 0 <=> Upto(Dest + 1) = Run
  BY <1>1, <1>2, Boundary, Counted
<1>4. /\ s \in todo /\ todo' = todo \ {s} /\ pc' = IF todo = {s} THEN "idle" ELSE "post"
      /\ UNCHANGED <<prompt, computed, stateIdx, staged, kept>>
  BY <1>1 DEF Postprocess, Retire
<1>5. accepted' = IF Resets /\ s = "conv" THEN 1 ELSE accepted
  BY <1>2 DEF Postprocess, StateZero, Resets
<1>6. Saved(s)
  BY <1>2, <1>3 DEF Postprocess, Saved
<1> QED
  BY <1>1, <1>4, <1>5, <1>6

\* The boundary lies among the rows that were accepted.
LEMMA SavedRow ==
    ASSUME Layout, pc = "post", Saves
    PROVE  /\ Upto(Dest + 1) - Run \in 0 .. NumSpec /\ Upto(Dest + 1) - Run < snapshot
           /\ Dest \in Cols /\ base < Upto(Dest + 1)
<1>1. /\ Run \in Int /\ Run = computed - snapshot + 1 /\ computed \in Nat
      /\ snapshot \in 0 .. SpecQueryLen /\ base < Run /\ base \in Nat
  BY Counted, StepColumn
<1>2. Upto(Dest + 1) \in Int /\ Upto(Dest + 1) <= computed /\ Upto(Dest + 1) >= Run
  BY Boundary DEF Saves
<1>3. Dest \in Cols
  BY SavedColumnIsKept DEF Layout, TypeOK
<1> QED
  BY <1>1, <1>2, <1>3, Sizes

\* A column with a block that is full by now was full before the step or has been
\* filled by it: then it is the one that the programs save into.
LEMMA NewlyFull ==
    ASSUME Layout, pc = "post", NEW c \in kept, Upto(c + 1) <= computed, ~(Upto(c + 1) <= base)
    PROVE  /\ c = Dest
           /\ Saves \/ (snapshot = 0 /\ c = stateIdx /\ Upto(c + 1) = computed)
<1>1. /\ computed \in Nat /\ Run \in Int /\ Run = computed - snapshot + 1 /\ base < computed
      /\ computed <= base + query /\ snapshot \in 0 .. SpecQueryLen
      /\ base < prompt => computed = base + query /\ snapshot \in {0, 1}
      /\ base >= prompt => Run = base + 1 /\ query <= BlockSize
      /\ base \in Nat /\ query \in Nat \ {0} /\ prompt \in Nat
  BY Counted, StepColumn DEF Layout, TypeOK
<1>2. /\ Dest \in Int /\ Upto(Dest + 1) \in Int /\ Upto(Dest + 1) <= computed
      /\ computed < Upto(Dest + 1) + BlockSize
      /\ Dest = stateIdx => computed = Upto(Dest + 1)
  BY Boundary
<1>3. /\ stateIdx \in Cols /\ Upto(stateIdx + 1) \in Int /\ base + query <= Upto(stateIdx + 1)
  BY StepColumn
<1>4. c \in Int /\ Upto(c + 1) \in Int
  <2>1. c \in Int
    BY ColumnRange DEF Layout, TypeOK, Cols
  <2> QED
    BY <2>1, UptoStep, c + 1 \in Int
<1>5. CASE base < prompt
  <2>1. c = stateIdx
    BY <1>5 DEF Layout, PromptFillsColumns, Start
  <2>2. Upto(c + 1) = computed
    BY <1>1, <1>3, <1>4, <1>5, <2>1
  <2>3. c = Dest
    <3>1. c + 1 = Dest + 1
      BY <1>1, <1>2, <1>4, <2>2, UptoInjective, Sizes, c + 1 \in Int, Dest + 1 \in Int
    <3> QED
      BY <1>2, <1>4, <3>1
  <2>4. snapshot = 1 => Saves
    BY <1>1, <2>2, <2>3 DEF Saves
  <2> QED
    BY <1>1, <1>5, <2>1, <2>2, <2>3, <2>4
<1>6. CASE base >= prompt
  <2>1. Upto(Dest + 1) >= Upto(c + 1)
    <3>1. Dest + 1 < c + 1 => Upto(Dest + 1) + BlockSize <= Upto(c + 1)
      BY <1>2, <1>4, UptoMono, c + 1 \in Int, Dest + 1 \in Int
    <3>2. c + 1 <= Dest + 1 => Upto(c + 1) <= Upto(Dest + 1)
      BY <1>2, <1>4, UptoOrder, c + 1 \in Int, Dest + 1 \in Int
    <3> QED
      BY <1>1, <1>2, <1>4, <3>1, <3>2, Sizes
  <2>2. Saves
    BY <1>1, <1>2, <1>4, <1>6, <2>1 DEF Saves
  <2>3. c + 1 = Dest + 1
    <3>1. Upto(Dest + 1) < Upto(c + 1) + BlockSize /\ Upto(c + 1) < Upto(Dest + 1) + BlockSize
      BY <1>1, <1>2, <1>4, <1>6, <2>1, Sizes
    <3> QED
      BY <1>2, <1>4, <3>1, UptoInjective, c + 1 \in Int, Dest + 1 \in Int
  <2> QED
    BY <1>2, <1>4, <2>2, <2>3
<1> QED
  BY <1>1, <1>5, <1>6

\* The step is over: its tokens are the request's.
LEMMA StepEnds ==
    ASSUME Layout, pc = "post"
    PROVE  /\ computed > 0 => CDiv(computed, BlockSize) - 1 \in kept
           /\ computed < prompt =>
                /\ \E k \in Nat : computed = Upto(k)
                /\ \A c \in kept : Upto(c + 1) <= computed
                /\ snapshot <= 1
<1>1. /\ computed \in Nat /\ base < computed /\ computed <= base + query
      /\ base < prompt => computed = base + query /\ snapshot \in {0, 1}
      /\ base >= prompt => query <= BlockSize
      /\ base \in Nat /\ query \in Nat \ {0} /\ prompt \in Nat \ {0}
      /\ stateIdx = CDiv(base + query, BlockSize) - 1 /\ stateIdx \in kept
      /\ Upto(stateIdx + 1) \in Int /\ base + query <= Upto(stateIdx + 1)
      /\ Upto(stateIdx + 1) < base + query + BlockSize /\ stateIdx \in Cols
  BY Counted, StepColumn DEF Layout, TypeOK, StepFits
<1>2. stateIdx \in Int
  BY <1>1, ColumnRange DEF Cols
<1>3. CASE base < prompt
  <2>1. CDiv(computed, BlockSize) - 1 \in kept
    BY <1>1, <1>3
  <2>2. ASSUME computed < prompt
        PROVE  /\ \E k \in Nat : computed = Upto(k)
               /\ \A c \in kept : Upto(c + 1) <= computed
    <3>1. PICK k \in Nat : computed = Upto(k)
      BY <1>1, <1>3, <2>2 DEF Layout, StepFits
    <3>2. stateIdx + 1 = k
      <4>1. k \in Int /\ stateIdx + 1 \in Int /\ BlockSize \in Nat /\ BlockSize >= 1
        BY <1>2, Sizes
      <4>2. Upto(k) < Upto(stateIdx + 1) + BlockSize /\ Upto(stateIdx + 1) < Upto(k) + BlockSize
        BY <1>1, <1>3, <3>1, <4>1
      <4> QED
        BY <4>1, <4>2, UptoInjective
    <3>3. ASSUME NEW c \in kept PROVE Upto(c + 1) <= computed
      <4>1. Upto(c + 1) <= base \/ c = stateIdx
        BY <1>3 DEF Layout, PromptFillsColumns, Start
      <4>2. Upto(c + 1) \in Int
        <5>1. c + 1 \in Int
          BY ColumnRange DEF Layout, TypeOK, Cols
        <5> QED
          BY <5>1, UptoStep
      <4>3. Upto(stateIdx + 1) = computed
        BY <3>1, <3>2
      <4> QED
        BY <1>1, <4>1, <4>2, <4>3
    <3> QED
      BY <3>1, <3>3
  <2> QED
    BY <1>1, <1>3, <2>1, <2>2
<1>4. CASE base >= prompt
  <2> DEFINE last == CDiv(base, BlockSize)
             now == CDiv(computed, BlockSize)
             end == CDiv(base + query, BlockSize)
  <2>1. last \in Nat /\ now \in Nat /\ end \in Nat
    BY <1>1, Ceiling, base + query \in Nat
  <2>2. last <= now /\ now <= end
    BY <1>1, CeilingOrder, base + query \in Nat
  <2>3. end <= last + 1
    BY <1>1, <1>4, OneMoreColumn
  <2>4. last - 1 \in kept
    <3>1. Start = base /\ base > 0
      BY <1>1, <1>4 DEF Start
    <3> QED
      BY <3>1 DEF Layout, LastTokenKept
  <2>5. end - 1 \in kept
    BY <1>1
  <2> HIDE DEF last, now, end
  <2>6. now = last \/ now = end
    BY <2>1, <2>2, <2>3
  <2>7. now - 1 \in kept
    BY <2>4, <2>5, <2>6
  <2> QED
    BY <1>1, <1>4, <2>7 DEF now
<1> QED
  BY <1>1, <1>3, <1>4

LEMMA LayoutPostprocess ==
    ASSUME Layout, NEW s \in States, NEW running \in RunningTokens, Postprocess(s, running)
    PROVE  Layout' /\ Frozen
<1>1. /\ pc = "post" /\ s \in todo /\ todo' = todo \ {s}
      /\ pc' = IF todo = {s} THEN "idle" ELSE "post"
      /\ accepted' = IF Resets /\ s = "conv" THEN 1 ELSE accepted
      /\ Saved(s)
      /\ UNCHANGED <<prompt, computed, stateIdx, staged, kept>>
  BY PostprocessIs
<1>2. /\ Tables(temporal', conv') /\ hits' \in 0 .. MaxHits /\ skipped' \in BOOLEAN
      /\ \A c \in Cols : ~(Saves /\ c = Dest) => temporal'[c] = temporal[c] /\ conv'[c] = conv[c]
  <2>1. CASE Saves /\ ~(Dest = stateIdx /\ Upto(Dest + 1) = Run)
    <3>1. CopyBlock(s, stateIdx, Dest, Upto(Dest + 1) - Run)
      BY <1>1, <2>1 DEF Saved
    <3>2. stateIdx \in 0 .. LastCol - NumSpec
      <4>1. stateIdx \in Int
        BY <1>1, StepColumn, ColumnRange DEF Cols
      <4> QED
        BY <1>1, <4>1, StepColumn, ColumnRange
    <3>3. Upto(Dest + 1) - Run \in 0 .. NumSpec
      BY <1>1, <2>1, SavedRow
    <3> QED
      BY <2>1, <3>1, <3>2, <3>3, Copied DEF Layout
  <2>2. CASE ~(Saves /\ ~(Dest = stateIdx /\ Upto(Dest + 1) = Run))
    <3>1. UNCHANGED <<tables, guard>>
      BY <1>1, <2>2 DEF Saved
    <3> QED
      BY <3>1 DEF tables, guard, Layout, TypeOK, Tables
  <2> QED
    BY <2>1, <2>2
<1>3. TypeOK'
  <2>1. accepted' \in 0 .. SpecQueryLen
    BY <1>1, Sizes DEF Layout, TypeOK
  <2> QED
    BY <1>1, <1>2, <2>1 DEF Layout, TypeOK, Tables, staged
<1>4. Frozen
  <2>1. ASSUME NEW c \in kept, Upto(c + 1) <= base
        PROVE  temporal'[c] = temporal[c] /\ conv'[c] = conv[c]
    <3>1. c \in Cols
      BY DEF Layout, TypeOK
    <3>2. ~(Saves /\ c = Dest)
      <4>1. base \in Nat
        BY <1>1, StepColumn
      <4>2. Saves => base < Upto(Dest + 1) /\ Upto(Dest + 1) \in Int
        BY <1>1, SavedRow, Boundary
      <4> QED
        BY <2>1, <4>1, <4>2
    <3> QED
      BY <1>2, <3>1, <3>2
  <2> QED
    BY <2>1 DEF Frozen
<1>5. Resets' = Resets
  BY <1>1 DEF Resets, Saves, Run, Dest, staged
<1>6. accepted = IF "conv" \notin todo /\ Resets THEN 1 ELSE snapshot
  BY <1>1 DEF Layout, CountsAfter
<1>7. accepted' = IF "conv" \notin todo' /\ Resets THEN 1 ELSE snapshot
  BY <1>1, <1>6 DEF States
<1>8. CASE pc' = "post"
  <2>1. Start' = Start
    BY <1>1, <1>8 DEF Start, staged
  <2>2. PromptFillsColumns' /\ LastTokenKept'
    BY <1>1, <1>8, <2>1 DEF Layout, PromptFillsColumns, LastTokenKept
  <2>3. StepFits' /\ CountsBefore'
    BY <1>1, <1>8 DEF Layout, StepFits, CountsBefore, staged
  <2>4. CountsAfter'
    BY <1>1, <1>5, <1>7, <1>8 DEF Layout, CountsAfter, staged
  <2> QED
    BY <1>1, <1>3, <1>4, <2>2, <2>3, <2>4 DEF Layout
<1>9. CASE pc' = "idle"
  <2>1. Start' = computed
    BY <1>1, <1>9 DEF Start
  <2>2. PromptFillsColumns' /\ LastTokenKept'
    BY <1>1, <1>9, <2>1, StepEnds DEF PromptFillsColumns, LastTokenKept
  <2>3. StepFits' /\ CountsAfter'
    BY <1>9 DEF StepFits, CountsAfter
  <2>4. CountsBefore'
    <3>1. 0 <= stateIdx
      BY <1>1, StepColumn
    <3>2. computed < prompt => accepted' <= 1
      BY <1>1, <1>7, StepEnds
    <3> QED
      BY <1>1, <1>9, <3>1, <3>2 DEF CountsBefore
  <2> QED
    BY <1>1, <1>3, <1>4, <2>2, <2>3, <2>4 DEF Layout
<1> QED
  BY <1>1, <1>8, <1>9

\* The invariant of the layout, and that cached columns are left alone.
LEMMA LayoutStep ==
    ASSUME Layout, [Next]_vars
    PROVE  Layout' /\ (pc # "idle" => Frozen)
<1>1. ASSUME NEW k \in Cols, NEW p \in 1 .. MaxTokens, Admit(k, p)
      PROVE  Layout' /\ pc = "idle"
  BY <1>1, LayoutAdmit DEF Admit
<1>2. ASSUME NEW q \in 1 .. MaxTokens, SchedulePrefill(q) PROVE Layout' /\ pc = "idle"
  BY <1>2, LayoutSchedulePrefill DEF SchedulePrefill
<1>3. ASSUME NEW d \in 0 .. NumSpec, ScheduleDecode(d) PROVE Layout' /\ pc = "idle"
  BY <1>3, LayoutScheduleDecode DEF ScheduleDecode
<1>4. CASE ForwardPrompt
  BY <1>4, LayoutForwardPrompt
<1>5. ASSUME NEW ok \in 1 .. query, ForwardVerify(ok) PROVE Layout' /\ Frozen
  BY <1>5, LayoutForwardVerify
<1>6. ASSUME NEW s \in States, Precopy(s) PROVE Layout' /\ Frozen
  BY <1>6, LayoutPrecopy
<1>7. ASSUME NEW s \in States, NEW running \in RunningTokens, Postprocess(s, running)
      PROVE  Layout' /\ Frozen
  BY <1>7, LayoutPostprocess
<1>8. CASE UNCHANGED vars
  BY <1>8 DEF vars, tables, staged, guard, Frozen, Layout, TypeOK, PromptFillsColumns,
      LastTokenKept, StepFits, CountsAfter, CountsBefore, Start, Resets, Saves, Run, Dest
<1> QED
  BY <1>1, <1>2, <1>3, <1>4, <1>5, <1>6, <1>7, <1>8 DEF Next

\* All variables stay in their sets (TypeOK).
THEOREM AlignTyped == Spec => []TypeOK
<1>1. Init => Layout
  BY LayoutInit
<1>2. Layout /\ [Next]_vars => Layout'
  BY LayoutStep
<1>3. Layout => TypeOK
  BY DEF Layout
<1> QED
  BY <1>1, <1>2, <1>3, PTL DEF Spec

\* The post-process kernel writes to columns with a block of their own only
\* (postprocess_mamba_fused_kernel, SavesIntoItsBlocks).
THEOREM SavesStayInBlocks == Spec => []SavesIntoItsBlocks
<1>1. Init => Layout
  BY LayoutInit
<1>2. Layout /\ [Next]_vars => Layout'
  BY LayoutStep
<1>3. Layout => SavesIntoItsBlocks
  BY OneRunning, SavedColumnIsKept DEF SavesIntoItsBlocks
<1> QED
  BY <1>1, <1>2, <1>3, PTL DEF Spec

\* No step, and no skipped copy, touches a column that was cached before the step
\* (CachedIsFrozen).
THEOREM CachedStaysFrozen == Spec => CachedIsFrozen
<1>1. Init => Layout
  BY LayoutInit
<1>2. Layout /\ [Next]_vars => Layout'
  BY LayoutStep
<1>3. Layout /\ [Next]_vars
        => [\A c \in kept : pc # "idle" /\ (c + 1) * BlockSize <= base =>
               temporal'[c] = temporal[c] /\ conv'[c] = conv[c]]_vars
  BY LayoutStep DEF Frozen, Upto
<1> QED
  BY <1>1, <1>2, <1>3, PTL DEF Spec, CachedIsFrozen

-----------------------------------------------------------------------------
(* What the columns hold, as long as no copy is skipped.                   *)

LEMMA PastIsSmall ==
    ASSUME NEW a \in 0 .. SpecQueryLen
    PROVE  Past(a) \in 0 .. NumSpec /\ Past(a) = SlotOff(a) /\ Past(1) = 0
<1>1. SpecQueryLen = NumSpec + 1 /\ NumSpec \in Nat
  BY Sizes
<1> QED
  BY <1>1 DEF Past, SlotOff

\* Columns that were full before the step stay right when none of their cells is written.
LEMMA FrozenStayRight ==
    ASSUME FullAreRight, Frozen, kept' = kept, Start = base, Start' = base', base' = base
    PROVE  FullAreRight'
BY DEF FullAreRight, Frozen, RightT, RightC, Holds

LEMMA ContentsInit == Init => Contents
BY DEF Init, Contents, FullAreRight, StateBefore

LEMMA ContentsAdmit ==
    ASSUME AlignInv, NEW k \in Cols, NEW p \in 1 .. MaxTokens, Admit(k, p)
    PROVE  Contents'
<1>1. k \in Nat /\ \A c \in Cols : c \in Nat
  BY ColumnRange DEF Cols
<1>2. /\ pc = "idle" /\ pc' = "idle" /\ computed' = Upto(k) /\ stateIdx' = k - 1 /\ accepted' = 1
      /\ kept' = {c \in kept : c < k} /\ hits' = hits
      /\ k = 0 \/ (k - 1 \in kept /\ Upto(k) <= computed)
      /\ temporal' = [c \in Cols |-> IF c < k THEN temporal[c] ELSE Bad]
      /\ conv' = [c \in Cols |-> IF c < k THEN conv[c] ELSE [i \in Cells |-> Junk]]
  <2>1. Full(k - 1) <=> Upto(k) <= computed
    BY <1>1, k - 1 + 1 = k DEF Full, Upto
  <2> QED
    BY <1>1, <2>1, SeedColumn DEF Admit
<1>3. Start = computed /\ Start' = Upto(k) /\ computed \in Nat
  BY <1>2, Sizes DEF Start, AlignInv, Layout, TypeOK
<1> SUFFICES ASSUME hits = 0 PROVE FullAreRight' /\ StateBefore'
  BY <1>2 DEF Contents
<1>4. ASSUME NEW c \in kept, c < k, Upto(c + 1) <= Upto(k)
      PROVE  /\ temporal'[c] = Upto(c + 1) /\ Holds(conv'[c], 0, Upto(c + 1))
  <2>1. c \in Cols /\ c \in Nat
    BY <1>1 DEF AlignInv, Layout, TypeOK
  <2>2. temporal'[c] = temporal[c] /\ conv'[c] = conv[c]
    BY <1>2, <1>4, <2>1
  <2>3. Upto(c + 1) <= Start
    <3>1. k # 0 /\ Upto(k) \in Int /\ Upto(c + 1) \in Int
      BY <1>1, <1>4, <2>1, UptoStep, k \in Int, c + 1 \in Int
    <3> QED
      BY <1>2, <1>3, <1>4, <3>1
  <2>4. RightT(c) /\ RightC(c)
    BY <2>3 DEF AlignInv, Contents, FullAreRight
  <2> QED
    BY <2>2, <2>4 DEF RightT, RightC
<1>5. FullAreRight'
  BY <1>2, <1>3, <1>4 DEF FullAreRight, RightT, RightC
<1>6. StateBefore'
  <2>1. ASSUME Upto(k) > 0
        PROVE  temporal'[k - 1] = Upto(k) /\ Holds(conv'[k - 1], 0, Upto(k))
    <3>1. k # 0 /\ k - 1 + 1 = k
      BY <1>1, <2>1, UptoStep
    <3>2. k - 1 \in kept /\ k - 1 < k /\ Upto(k - 1 + 1) <= Upto(k)
      BY <1>1, <1>2, <3>1, UptoStep, k \in Int
    <3> QED
      BY <1>4, <3>1, <3>2
  <2>2. Past(1) = 0 /\ k - 1 + 0 = k - 1
    BY <1>1 DEF Past
  <2>3. computed' > 0 => temporal'[stateIdx' + Past(accepted')] = computed'
                         /\ Holds(conv'[stateIdx'], Past(accepted'), computed')
    BY <1>2, <2>1, <2>2
  <2> QED
    BY <1>2, <2>3 DEF StateBefore, StateT, StateC
<1> QED
  BY <1>5, <1>6

LEMMA ContentsPreprocess ==
    ASSUME AlignInv, pc = "idle", NEW q \in 1 .. MaxTokens, NEW d \in 0 .. NumSpec,
           computed + q <= MaxTokens, Preprocess(q, d)
    PROVE  Contents'
<1> DEFINE new == CDiv(computed + q, BlockSize) - 1
<1>1. computed \in Nat /\ stateIdx \in -1 .. LastCol - NumSpec /\ accepted \in 0 .. SpecQueryLen
  BY Sizes DEF AlignInv, Layout, TypeOK
<1>2. new \in Nat /\ Upto(new + 1) \in Int /\ computed < Upto(new + 1)
  <2>1. computed + q \in Nat /\ computed + q > 0
    BY <1>1
  <2>2. /\ CDiv(computed + q, BlockSize) \in Nat /\ CDiv(computed + q, BlockSize) >= 1
        /\ computed + q <= Upto(CDiv(computed + q, BlockSize))
    BY <2>1, Ceiling
  <2>3. new + 1 = CDiv(computed + q, BlockSize)
    BY <2>2
  <2>4. Upto(CDiv(computed + q, BlockSize)) \in Int
    BY <2>2, UptoStep
  <2> QED
    BY <1>1, <2>2, <2>3, <2>4
<1>3. /\ stateIdx' = new /\ kept' = kept \union {new}
      /\ base' = computed /\ pc' = "precopy" /\ todo' = States
      /\ temporal' = temporal /\ conv' = conv /\ computed' = computed /\ hits' = hits
      /\ accepted' = IF stateIdx >= 0 /\ stateIdx # new THEN 1 ELSE accepted
      /\ \/ srcCol' = stateIdx /\ srcOff' = SrcOff
         \/ /\ accepted >= 1
            /\ srcCol' = IF stateIdx >= 0 /\ stateIdx # new THEN stateIdx ELSE -1
            /\ srcOff' = IF stateIdx >= 0 /\ stateIdx # new THEN accepted - 1 ELSE 0
  BY DEF Preprocess, StageInputs, RunningCol, tables, guard
<1> HIDE DEF new
<1> SUFFICES ASSUME hits = 0 PROVE FullAreRight' /\ StateBefore'
  BY <1>3 DEF Contents
<1>4. FullAreRight /\ StateBefore
  BY DEF AlignInv, Contents
<1>5. Start = computed /\ Start' = computed
  BY <1>3 DEF Start
<1>6. FullAreRight'
  <2>1. ASSUME NEW c \in kept', Upto(c + 1) <= computed
        PROVE  c \in kept
    BY <1>1, <1>2, <1>3, <2>1
  <2> QED
    BY <1>3, <1>4, <1>5, <2>1 DEF FullAreRight, RightT, RightC
<1>7. StateBefore'
  <2> SUFFICES ASSUME computed > 0
               PROVE  /\ IF Moves("temporal")' THEN StateT(srcCol, srcOff)'
                         ELSE StateT(stateIdx, Past(accepted))'
                      /\ IF Moves("conv")' THEN StateC(srcCol, srcOff)'
                         ELSE StateC(stateIdx, Past(accepted))'
    BY <1>3 DEF StateBefore
  <2>1. stateIdx >= 0 /\ StateT(stateIdx, Past(accepted)) /\ StateC(stateIdx, Past(accepted))
    BY <1>4 DEF AlignInv, Layout, CountsBefore, StateBefore
  <2>2. CASE stateIdx = new
    <3>1. ~Moves("temporal")' /\ ~Moves("conv")' /\ accepted' = accepted
      BY <1>3, <2>2 DEF Moves
    <3> QED
      BY <1>3, <2>1, <2>2, <3>1 DEF StateT, StateC
  <2>3. CASE stateIdx # new
    <3>1. srcCol' = stateIdx /\ srcOff' = Past(accepted)
      BY <1>1, <1>3, <2>1, <2>3 DEF SrcOff, Past
    <3>2. Moves("temporal")' /\ Moves("conv")'
      BY <1>3, <2>1, <2>3, <3>1 DEF Moves, States
    <3> QED
      BY <1>3, <2>1, <3>1, <3>2 DEF StateT, StateC
  <2> QED
    BY <2>2, <2>3
<1> QED
  BY <1>6, <1>7

\* A copied window is the source from the bias on, as far as it is history.
LEMMA CopiedWindow ==
    ASSUME Tables(temporal, conv), NEW src \in Cols, NEW dst \in Cols, NEW bias \in 0 .. NumSpec,
           CopyConv(src, dst, bias), NEW n, Holds(conv[src], bias, n)
    PROVE  Holds(conv'[dst], 0, n)
<1>1. conv'[dst] = [i \in Cells |-> IF i + bias <= Width - 1 THEN conv[src][i + bias] ELSE conv[dst][i]]
  BY DEF CopyConv, Tables
<1>2. ASSUME NEW i \in 0 .. StateLen - 1
      PROVE  conv'[dst][0 + i] = conv[src][bias + i]
  <2>1. i \in Cells /\ i + bias <= Width - 1 /\ 0 + i = i /\ i + bias = bias + i
    BY Sizes DEF Cells
  <2> QED
    BY <1>1, <2>1
<1> QED
  BY <1>2 DEF Holds

LEMMA ContentsPrecopy ==
    ASSUME AlignInv, NEW s \in States, Precopy(s)
    PROVE  Contents'
<1>1. /\ pc = "precopy" /\ s \in todo /\ todo' = todo \ {s}
      /\ pc' = IF todo = {s} THEN "forward" ELSE "precopy"
      /\ UNCHANGED <<prompt, computed, stateIdx, accepted, staged, kept>>
  BY DEF Precopy, Retire
<1>2. Layout /\ Frozen /\ stateIdx \in Cols /\ computed \in Nat
  BY <1>1, LayoutPrecopy, StepColumn, Sizes DEF AlignInv, Layout, TypeOK
<1> SUFFICES ASSUME hits' = 0 PROVE FullAreRight' /\ StateBefore'
  BY <1>1 DEF Contents
<1>3. hits = 0
  <2>1. hits \in Nat
    BY <1>2, Sizes DEF Layout, TypeOK
  <2> QED
    BY <2>1 DEF Precopy, CopyBlock, guard
<1>4. FullAreRight /\ StateBefore
  BY <1>3 DEF AlignInv, Contents
<1>5. FullAreRight'
  BY <1>1, <1>2, <1>4, FrozenStayRight DEF Start, staged
<1>6. todo \subseteq States
  BY <1>2 DEF Layout, TypeOK
<1>7. CASE computed = 0
  BY <1>1, <1>5, <1>7 DEF StateBefore
<1>8. CASE computed > 0
  <2> DEFINE off == Past(accepted)
  <2>1. /\ IF Moves("temporal") THEN StateT(srcCol, srcOff) ELSE StateT(stateIdx, off)
        /\ IF Moves("conv") THEN StateC(srcCol, srcOff) ELSE StateC(stateIdx, off)
    BY <1>1, <1>4, <1>8 DEF StateBefore
  <2>2. CASE srcCol < 0 \/ srcCol = stateIdx
    <3>1. UNCHANGED <<tables, guard>>
      BY <2>2 DEF Precopy
    <3>2. srcCol \in Int
      BY <1>2, ColumnRange DEF Layout, TypeOK
    <3>3. ~Moves("temporal") /\ ~Moves("conv") /\ ~Moves("temporal")' /\ ~Moves("conv")'
      BY <1>1, <2>2, <3>2 DEF Moves, staged
    <3>4. StateT(stateIdx, off)' /\ StateC(stateIdx, off)'
      BY <1>1, <2>1, <3>1, <3>3 DEF StateT, StateC, tables
    <3> QED
      BY <1>1, <3>3, <3>4, <1>5 DEF StateBefore
  <2>3. CASE ~(srcCol < 0 \/ srcCol = stateIdx)
    <3>1. CopyBlock(s, srcCol, stateIdx, srcOff)
      BY <2>3 DEF Precopy
    <3>2. srcCol \in 0 .. LastCol - NumSpec /\ srcCol \in Cols /\ srcOff \in 0 .. NumSpec
      BY <1>2, <2>3, ColumnRange, Sizes DEF Layout, TypeOK
    <3>3. accepted = 1 /\ off = 0 /\ stateIdx + 0 = stateIdx
      <4>1. accepted = 1
        BY <1>1, <1>2, <2>3, <3>2 DEF Layout, CountsBefore
      <4>2. stateIdx \in Int
        BY <1>2, ColumnRange DEF Cols
      <4> QED
        BY <4>1, <4>2 DEF Past
    <3>4. Tables(temporal, conv)
      BY <1>2 DEF Layout, TypeOK, Tables
    <3>5. Moves(s)
      BY <1>1, <2>3, <3>2 DEF Moves
    <3>6. ~Moves(s)' /\ \A r \in States : r # s => Moves(r)' = Moves(r)
      BY <1>1 DEF Moves, staged
    <3>7. CASE s = "temporal"
      <4>1. temporal' = [temporal EXCEPT ![stateIdx] = temporal[srcCol + srcOff]] /\ conv' = conv
        BY <1>3, <3>1, <3>7, hits' = 0 DEF CopyBlock
      <4>2. temporal'[stateIdx] = computed
        BY <1>2, <2>1, <3>4, <3>5, <3>7, <4>1 DEF StateT, Tables
      <4>3. StateT(stateIdx, off)'
        BY <1>1, <3>3, <4>2 DEF StateT
      <4>4. IF Moves("conv")' THEN StateC(srcCol, srcOff)' ELSE StateC(stateIdx, off)'
        BY <1>1, <2>1, <3>6, <3>7, <4>1 DEF StateC, staged, States
      <4>5. pc' = "forward" => ~Moves("conv")'
        BY <1>1, <3>7 DEF Moves
      <4>6. ~Moves("temporal")'
        BY <3>6, <3>7
      <4> QED
        BY <1>1, <1>5, <4>3, <4>4, <4>5, <4>6 DEF StateBefore
    <3>8. CASE s = "conv"
      <4>1. CopyConv(srcCol, stateIdx, srcOff) /\ temporal' = temporal
        BY <1>3, <3>1, <3>8 DEF CopyBlock
      <4>2. Holds(conv[srcCol], srcOff, computed)
        BY <2>1, <3>5, <3>8 DEF StateC
      <4>3. Holds(conv'[stateIdx], 0, computed)
        BY <1>2, <3>2, <3>4, <4>1, <4>2, CopiedWindow
      <4>4. StateC(stateIdx, off)'
        BY <1>1, <3>3, <4>3 DEF StateC
      <4>5. IF Moves("temporal")' THEN StateT(srcCol, srcOff)' ELSE StateT(stateIdx, off)'
        BY <1>1, <2>1, <3>6, <3>8, <4>1 DEF StateT, staged, States
      <4>6. pc' = "forward" => ~Moves("temporal")'
        BY <1>1, <3>8 DEF Moves
      <4>7. ~Moves("conv")'
        BY <3>6, <3>8
      <4> QED
        BY <1>1, <1>5, <4>4, <4>5, <4>6, <4>7 DEF StateBefore
    <3> QED
      BY <3>7, <3>8 DEF States
  <2> QED
    BY <2>2, <2>3
<1> QED
  BY <1>2, <1>7, <1>8, <1>5

LEMMA ContentsForwardPrompt ==
    ASSUME AlignInv, ForwardPrompt
    PROVE  Contents'
<1>1. /\ pc = "forward" /\ computed < prompt /\ base = computed /\ computed \in Nat
      /\ query \in Nat \ {0} /\ stateIdx \in Cols /\ stateIdx \in Int
      /\ accepted \in 0 .. SpecQueryLen /\ accepted <= 1
  BY StepColumn, Sizes, ColumnRange
     DEF ForwardPrompt, LaunchPostprocess, AlignInv, Layout, TypeOK, StepFits, CountsBefore, Cols
<1>2. /\ pc' = "post" /\ todo' = States /\ computed' = computed + query /\ snapshot' = accepted'
      /\ accepted' \in {0, 1} /\ UNCHANGED <<stateIdx, base, kept, guard>>
  BY DEF ForwardPrompt, LaunchPostprocess
<1>3. Tables(temporal, conv) /\ Frozen
  BY LayoutForwardPrompt DEF AlignInv, Layout, TypeOK, Tables
<1> SUFFICES ASSUME hits = 0 PROVE FullAreRight' /\ StateBefore' /\ StateAfterT' /\ StateAfterC'
  BY <1>2 DEF Contents, guard
<1>4. FullAreRight /\ StateBefore
  BY DEF AlignInv, Contents
<1>5. FullAreRight'
  BY <1>1, <1>2, <1>3, <1>4, FrozenStayRight DEF Start
<1>6. computed > 0 => temporal[stateIdx] = computed /\ Holds(conv[stateIdx], 0, computed)
  <2>1. Past(accepted) = 0 /\ stateIdx + 0 = stateIdx
    BY <1>1 DEF Past
  <2> QED
    BY <1>1, <1>4, <2>1 DEF StateBefore, StateT, StateC
<1>7. temporal'[stateIdx] = computed + query
  <2> DEFINE t == IF computed = 0 THEN 0 ELSE temporal[stateIdx]
  <2>1. t = computed
    BY <1>1, <1>6
  <2>2. temporal'[stateIdx] = Consume(t, query, query)
    BY <1>1, <1>3 DEF ForwardPrompt, LaunchPostprocess, Tables
  <2> HIDE DEF t
  <2>3. query <= query
    BY <1>1
  <2> QED
    BY <2>1, <2>2, <2>3 DEF Consume
<1>8. Holds(conv'[stateIdx], 0, computed + query)
  <2> DEFINE rows == RowsAfter(query, query)
  <2>1. conv'[stateIdx] = PrefillWindow(conv[stateIdx], rows, computed > 0)
    BY <1>1, <1>3 DEF ForwardPrompt, LaunchPostprocess, Tables
  <2>2. Len(rows) = query /\ \A j \in 1 .. query : rows[j] = computed + j
    <3>1. query \in Nat /\ \A j \in 1 .. query : j <= query
      BY <1>1
    <3> QED
      BY <1>1, <3>1, RowsAreNumbers
  <2> HIDE DEF rows
  <2>3. Holds(PrefillWindow(conv[stateIdx], rows, computed > 0), 0, computed + query)
    BY <1>1, <1>6, <2>2, PrefillHolds
  <2> QED
    BY <2>1, <2>3
<1>9. snapshot' \in {0, 1} /\ Run' = computed' - snapshot' + 1
  BY <1>2 DEF Run
<1>10. ASSUME NEW j \in 1 .. snapshot'
       PROVE  /\ stateIdx + j - 1 = stateIdx /\ Run' + j - 1 = computed + query /\ j - 1 = 0
  <2>1. snapshot' = 1 /\ j = 1
    BY <1>9
  <2>2. computed' = computed + query /\ computed' \in Nat
    BY <1>1, <1>2
  <2>3. Run' = computed' - 1 + 1
    BY <1>9, <2>1
  <2> QED
    BY <1>1, <2>1, <2>2, <2>3
<1>11. StateAfterT'
  <2>1. \A j \in 1 .. snapshot' : temporal'[stateIdx' + j - 1] = Run' + j - 1
    BY <1>2, <1>7, <1>10
  <2>2. temporal'[stateIdx'] = computed' /\ "temporal" \in todo'
    BY <1>2, <1>7 DEF States
  <2> QED
    BY <2>1, <2>2 DEF StateAfterT
<1>12. StateAfterC'
  <2>1. \A j \in 1 .. snapshot' : Holds(conv'[stateIdx'], j - 1, Run' + j - 1)
    BY <1>2, <1>8, <1>10
  <2>2. Holds(conv'[stateIdx'], 0, computed') /\ "conv" \in todo'
    BY <1>2, <1>8 DEF States
  <2> QED
    BY <2>1, <2>2 DEF StateAfterC
<1>13. StateBefore'
  BY <1>2 DEF StateBefore
<1> QED
  BY <1>5, <1>11, <1>12, <1>13

LEMMA ContentsForwardVerify ==
    ASSUME AlignInv, NEW ok \in 1 .. query, ForwardVerify(ok)
    PROVE  Contents'
<1>1. /\ pc = "forward" /\ base = computed /\ computed \in Nat \ {0} /\ ok \in Nat \ {0}
      /\ ok <= query /\ query \in 1 .. SpecQueryLen /\ stateIdx \in Cols /\ 0 <= stateIdx
      /\ stateIdx <= LastCol - NumSpec /\ accepted \in 0 .. SpecQueryLen /\ stateIdx \in Int
      /\ query \in Nat
  BY Verification, ColumnRange, Sizes DEF AlignInv, Cols
<1>2. /\ pc' = "post" /\ todo' = States /\ computed' = computed + ok /\ snapshot' = ok
      /\ UNCHANGED <<stateIdx, base, kept, guard>>
  BY DEF ForwardVerify, LaunchPostprocess
<1>3. Tables(temporal, conv) /\ Frozen
  BY LayoutForwardVerify DEF AlignInv, Layout, TypeOK, Tables
<1> SUFFICES ASSUME hits = 0 PROVE FullAreRight' /\ StateBefore' /\ StateAfterT' /\ StateAfterC'
  BY <1>2 DEF Contents, guard
<1>4. FullAreRight /\ StateBefore
  BY DEF AlignInv, Contents
<1>5. FullAreRight'
  BY <1>1, <1>2, <1>3, <1>4, FrozenStayRight DEF Start
<1>6. temporal[stateIdx + Offset] = computed /\ Holds(conv[stateIdx], SlotOff(accepted), computed)
  <2>1. Past(accepted) = Offset /\ Past(accepted) = SlotOff(accepted)
    BY <1>1, PastIsSmall DEF Offset, Past
  <2> QED
    BY <1>1, <1>4, <2>1 DEF StateBefore, StateT, StateC
<1>7. Run' = computed + 1
  BY <1>1, <1>2 DEF Run
<1>8. ASSUME NEW j \in 1 .. ok
      PROVE  /\ temporal'[stateIdx + j - 1] = computed + j
             /\ Holds(conv'[stateIdx], j - 1, computed + j)
  <2>1. j \in Nat /\ 1 <= j /\ j <= ok /\ j \in 1 .. query
    BY <1>1
  <2>2. /\ stateIdx + j - 1 \in Cols /\ stateIdx + j - 1 - stateIdx \in 0 .. query - 1
        /\ stateIdx + j - 1 - stateIdx + 1 = j
    BY <1>1, <2>1, ColumnRange, Sizes
  <2>3. temporal'[stateIdx + j - 1] = computed + j
    <3> DEFINE s == temporal[stateIdx + Offset]
               c == stateIdx + j - 1
    <3>1. temporal' = [x \in Cols |-> IF x - stateIdx \in 0 .. query - 1
                                      THEN Consume(s, x - stateIdx + 1, ok) ELSE temporal[x]]
      BY DEF ForwardVerify, LaunchPostprocess
    <3>2. s = computed
      BY <1>6
    <3> HIDE DEF s
    <3>3. c \in Cols /\ c - stateIdx \in 0 .. query - 1 /\ c - stateIdx + 1 = j
      BY <1>1, <2>1, <2>2
    <3> HIDE DEF c
    <3>4. temporal'[c] = Consume(s, j, ok)
      BY <3>1, <3>3
    <3>5. temporal'[c] = computed + j
      BY <2>1, <3>2, <3>4 DEF Consume
    <3> QED
      BY <3>5 DEF c
  <2>4. Holds(conv'[stateIdx], j - 1, computed + j)
    <3> DEFINE rows == RowsAfter(query, ok)
               w == conv[stateIdx]
    <3>1. conv'[stateIdx] = SpecWindow(w, rows, accepted)
      BY <1>1, <1>3 DEF ForwardVerify, LaunchPostprocess, Tables
    <3>2. Len(rows) = query /\ \A i \in 1 .. j : rows[i] = computed + i
      <4>1. ok \in Nat /\ query \in Nat /\ \A i \in 1 .. j : i \in 1 .. query /\ i <= ok
        BY <1>1, <2>1
      <4> QED
        BY <1>1, <4>1, RowsAreNumbers
    <3>3. Holds(w, SlotOff(accepted), computed)
      BY <1>6
    <3> HIDE DEF rows, w
    <3>4. Holds(SpecWindow(w, rows, accepted), SlotOff(j), computed + j)
      BY <1>1, <2>1, <3>2, <3>3, SpecHolds, computed \in Nat
    <3>5. SlotOff(j) = j - 1
      BY <1>1, <2>1, OffRange, Sizes, j \in 0 .. SpecQueryLen
    <3> QED
      BY <3>1, <3>4, <3>5
  <2> QED
    BY <2>3, <2>4
<1>9. \A j \in 1 .. ok : Run' + j - 1 = computed + j
  BY <1>1, <1>7
<1>10. StateAfterT'
  BY <1>1, <1>2, <1>8, <1>9 DEF StateAfterT, States
<1>11. StateAfterC'
  BY <1>1, <1>2, <1>8, <1>9 DEF StateAfterC, States
<1>12. StateBefore'
  BY <1>2 DEF StateBefore
<1> QED
  BY <1>5, <1>10, <1>11, <1>12

\* What a program leaves of its tensor when it has run after the forward pass.
DoneT == StateT(stateIdx, IF Resets THEN 0 ELSE Past(snapshot)) /\ (Saves => RightT(Dest))
DoneC == StateC(stateIdx, IF Resets THEN 0 ELSE Past(snapshot)) /\ (Saves => RightC(Dest))

\* The numbers of a save, for both tensors.
LEMMA SaveNumbers ==
    ASSUME Layout, pc = "post"
    PROVE  /\ stateIdx \in Cols /\ stateIdx \in Nat /\ stateIdx <= LastCol - NumSpec
           /\ snapshot \in Nat /\ computed \in Nat /\ Run \in Int
           /\ Dest \in Int /\ Upto(Dest + 1) \in Int
           /\ Resets => Saves /\ computed = Upto(Dest + 1)
           /\ Dest <= stateIdx
           /\ snapshot >= 1 => /\ Past(snapshot) = snapshot - 1
                               /\ Run + snapshot - 1 = computed
           /\ snapshot = 0 => Past(snapshot) = 0 /\ ~Saves
           /\ Past(snapshot) \in Nat /\ Past(snapshot) <= NumSpec
<1>1. /\ snapshot \in 0 .. SpecQueryLen /\ computed \in Nat /\ Run \in Int
      /\ Run = computed - snapshot + 1
  BY Counted
<1>2. /\ Dest \in Int /\ Upto(Dest + 1) \in Int /\ Upto(Dest + 1) <= computed /\ Dest <= stateIdx
      /\ Dest = stateIdx => computed = Upto(Dest + 1)
  BY Boundary
<1>3. stateIdx \in Cols /\ 0 <= stateIdx /\ stateIdx <= LastCol - NumSpec /\ stateIdx \in Nat
  BY StepColumn, ColumnRange DEF Cols
<1>4. snapshot = 0 => ~Saves
  BY <1>1, <1>2 DEF Saves
<1> QED
  BY <1>1, <1>2, <1>3, <1>4, Sizes DEF Resets, Past

LEMMA TemporalSaved ==
    ASSUME Layout, pc = "post", "temporal" \in todo, Saved("temporal"), StateAfterT, hits' = hits,
           UNCHANGED <<stateIdx, computed, snapshot>>
    PROVE  DoneT' /\ conv' = conv
<1>1. /\ stateIdx \in Cols /\ stateIdx \in Nat /\ snapshot \in Nat /\ computed \in Nat /\ Run \in Int
      /\ stateIdx <= LastCol - NumSpec
      /\ Dest \in Int /\ Upto(Dest + 1) \in Int
      /\ Resets => Saves /\ computed = Upto(Dest + 1)
      /\ Dest <= stateIdx
      /\ snapshot >= 1 => Past(snapshot) = snapshot - 1 /\ Run + snapshot - 1 = computed
      /\ snapshot = 0 => Past(snapshot) = 0 /\ ~Saves
      /\ Past(snapshot) \in Nat /\ Past(snapshot) <= NumSpec
  BY SaveNumbers
<1>2. temporal \in [Cols -> {Bad} \union 0 .. MaxTokens] /\ hits \in Nat
  BY Sizes DEF Layout, TypeOK
<1>3. /\ \A j \in 1 .. snapshot : temporal[stateIdx + j - 1] = Run + j - 1
      /\ snapshot = 0 => temporal[stateIdx] = computed
  BY DEF StateAfterT
<1>4. temporal[stateIdx + Past(snapshot)] = computed
  <2>1. CASE snapshot = 0
    <3>1. stateIdx + Past(snapshot) = stateIdx
      BY <1>1, <2>1
    <3> QED
      BY <1>3, <2>1, <3>1
  <2>2. CASE snapshot >= 1
    <3>1. snapshot \in 1 .. snapshot /\ stateIdx + Past(snapshot) = stateIdx + snapshot - 1
      BY <1>1, <2>2
    <3>2. temporal[stateIdx + snapshot - 1] = Run + snapshot - 1
      BY <1>3, <3>1
    <3> QED
      BY <1>1, <2>2, <3>1, <3>2
  <2> QED
    BY <1>1, <2>1, <2>2
<1>5. stateIdx + Past(snapshot) \in Cols /\ stateIdx + 0 = stateIdx
  BY <1>1, ColumnRange, Sizes
<1>6. Run' = Run /\ Dest' = Dest /\ Saves' = Saves /\ Resets' = Resets
  BY DEF Run, Dest, Saves, Resets
<1> SUFFICES /\ conv' = conv
             /\ temporal'[stateIdx + (IF Resets THEN 0 ELSE Past(snapshot))] = computed
             /\ Saves => temporal'[Dest] = Upto(Dest + 1)
  BY <1>6 DEF DoneT, StateT, RightT
<1>7. CASE ~Saves
  <2>1. temporal' = temporal /\ conv' = conv
    BY <1>7 DEF Saved, tables
  <2>2. ~Resets
    BY <1>7 DEF Resets
  <2> QED
    BY <1>4, <1>7, <2>1, <2>2
<1>8. CASE Saves /\ Dest = stateIdx /\ Upto(Dest + 1) = Run
  <2>1. temporal' = temporal /\ conv' = conv
    BY <1>8 DEF Saved, tables
  <2>2. Resets
    BY <1>8 DEF Resets
  <2>3. 1 \in 1 .. snapshot /\ stateIdx + 1 - 1 = stateIdx /\ Run + 1 - 1 = Run
    BY <1>1, <1>8
  <2>4. temporal[stateIdx] = Run
    BY <1>3, <2>3
  <2> QED
    BY <1>1, <1>5, <1>8, <2>1, <2>2, <2>4
<1>9. CASE Saves /\ ~(Dest = stateIdx /\ Upto(Dest + 1) = Run)
  <2> DEFINE bias == Upto(Dest + 1) - Run
  <2>1. CopyBlock("temporal", stateIdx, Dest, bias)
    BY <1>9 DEF Saved
  <2>2. temporal' = [temporal EXCEPT ![Dest] = temporal[stateIdx + bias]] /\ conv' = conv
    BY <1>2, <2>1 DEF CopyBlock
  <2>3. bias \in 0 .. NumSpec /\ bias < snapshot /\ Dest \in Cols
    BY <1>9, SavedRow
  <2>4. temporal[stateIdx + bias] = Upto(Dest + 1)
    <3>1. /\ bias + 1 \in 1 .. snapshot /\ stateIdx + (bias + 1) - 1 = stateIdx + bias
          /\ Run + (bias + 1) - 1 = Upto(Dest + 1)
      BY <1>1, <2>3, Sizes
    <3> HIDE DEF bias
    <3>2. temporal[stateIdx + (bias + 1) - 1] = Run + (bias + 1) - 1
      BY <1>3, <3>1
    <3> QED
      BY <3>1, <3>2
  <2> HIDE DEF bias
  <2>5. temporal'[Dest] = Upto(Dest + 1)
    BY <1>2, <2>2, <2>3, <2>4
  <2>6. CASE Dest = stateIdx
    <3>1. Resets
      BY <1>9, <2>6 DEF Resets
    <3> QED
      BY <1>1, <1>5, <2>2, <2>5, <2>6, <3>1
  <2>7. CASE Dest # stateIdx
    <3>1. ~Resets /\ Dest # stateIdx + Past(snapshot)
      BY <1>1, <2>7 DEF Resets
    <3> QED
      BY <1>2, <1>4, <1>5, <2>2, <2>5, <3>1
  <2> QED
    BY <2>6, <2>7
<1> QED
  BY <1>7, <1>8, <1>9

LEMMA WindowSaved ==
    ASSUME Layout, pc = "post", "conv" \in todo, Saved("conv"), StateAfterC, hits' = hits,
           UNCHANGED <<stateIdx, computed, snapshot>>
    PROVE  DoneC' /\ temporal' = temporal
<1>1. /\ stateIdx \in Cols /\ stateIdx \in Nat /\ snapshot \in Nat /\ computed \in Nat /\ Run \in Int
      /\ Dest \in Int /\ Upto(Dest + 1) \in Int
      /\ Resets => Saves /\ computed = Upto(Dest + 1)
      /\ snapshot >= 1 => Past(snapshot) = snapshot - 1 /\ Run + snapshot - 1 = computed
      /\ snapshot = 0 => Past(snapshot) = 0 /\ ~Saves
  BY SaveNumbers
<1>2. Tables(temporal, conv) /\ hits \in Nat
  BY Sizes DEF Layout, TypeOK, Tables
<1>3. /\ \A j \in 1 .. snapshot : Holds(conv[stateIdx], j - 1, Run + j - 1)
      /\ snapshot = 0 => Holds(conv[stateIdx], 0, computed)
  BY DEF StateAfterC
<1>4. Holds(conv[stateIdx], Past(snapshot), computed)
  <2>1. CASE snapshot = 0
    BY <1>1, <1>3, <2>1
  <2>2. CASE snapshot >= 1
    <3>1. snapshot \in 1 .. snapshot
      BY <1>1, <2>2
    <3>2. Holds(conv[stateIdx], snapshot - 1, Run + snapshot - 1)
      BY <1>3, <3>1
    <3> QED
      BY <1>1, <2>2, <3>2
  <2> QED
    BY <1>1, <2>1, <2>2
<1>5. Run' = Run /\ Dest' = Dest /\ Saves' = Saves /\ Resets' = Resets
  BY DEF Run, Dest, Saves, Resets
<1> SUFFICES /\ temporal' = temporal
             /\ Holds(conv'[stateIdx], IF Resets THEN 0 ELSE Past(snapshot), computed)
             /\ Saves => Holds(conv'[Dest], 0, Upto(Dest + 1))
  BY <1>5 DEF DoneC, StateC, RightC
<1>6. CASE ~Saves
  <2>1. temporal' = temporal /\ conv' = conv
    BY <1>6 DEF Saved, tables
  <2>2. ~Resets
    BY <1>6 DEF Resets
  <2> QED
    BY <1>4, <1>6, <2>1, <2>2
<1>7. CASE Saves /\ Dest = stateIdx /\ Upto(Dest + 1) = Run
  <2>1. temporal' = temporal /\ conv' = conv
    BY <1>7 DEF Saved, tables
  <2>2. Resets
    BY <1>7 DEF Resets
  <2>3. 1 \in 1 .. snapshot /\ 1 - 1 = 0 /\ Run + 1 - 1 = Run
    BY <1>1, <1>7
  <2>4. Holds(conv[stateIdx], 0, Run)
    BY <1>3, <2>3
  <2> QED
    BY <1>1, <1>7, <2>1, <2>2, <2>4
<1>8. CASE Saves /\ ~(Dest = stateIdx /\ Upto(Dest + 1) = Run)
  <2> DEFINE bias == Upto(Dest + 1) - Run
  <2>1. CopyBlock("conv", stateIdx, Dest, bias)
    BY <1>8 DEF Saved
  <2>2. CopyConv(stateIdx, Dest, bias) /\ temporal' = temporal
    BY <1>2, <2>1 DEF CopyBlock
  <2>3. bias \in 0 .. NumSpec /\ bias < snapshot /\ Dest \in Cols
    BY <1>8, SavedRow
  <2>4. Holds(conv[stateIdx], bias, Upto(Dest + 1))
    <3>1. /\ bias + 1 \in 1 .. snapshot /\ (bias + 1) - 1 = bias
          /\ Run + (bias + 1) - 1 = Upto(Dest + 1)
      BY <1>1, <2>3, Sizes
    <3> HIDE DEF bias
    <3>2. Holds(conv[stateIdx], (bias + 1) - 1, Run + (bias + 1) - 1)
      BY <1>3, <3>1
    <3> QED
      BY <3>1, <3>2
  <2> HIDE DEF bias
  <2>5. Holds(conv'[Dest], 0, Upto(Dest + 1))
    BY <1>1, <1>2, <2>2, <2>3, <2>4, CopiedWindow
  <2>6. CASE Dest = stateIdx
    <3>1. Resets
      BY <1>8, <2>6 DEF Resets
    <3> QED
      BY <1>1, <2>2, <2>5, <2>6, <3>1
  <2>7. CASE Dest # stateIdx
    <3>1. ~Resets
      BY <2>7 DEF Resets
    <3>2. conv'[stateIdx] = conv[stateIdx]
      BY <1>1, <1>2, <2>2, <2>7 DEF CopyConv, Tables
    <3> QED
      BY <1>4, <2>2, <2>5, <3>1, <3>2
  <2> QED
    BY <2>6, <2>7
<1> QED
  BY <1>6, <1>7, <1>8

LEMMA ContentsPostprocess ==
    ASSUME AlignInv, NEW s \in States, NEW running \in RunningTokens, Postprocess(s, running)
    PROVE  Contents'
<1>1. /\ pc = "post" /\ s \in todo /\ todo' = todo \ {s}
      /\ pc' = IF todo = {s} THEN "idle" ELSE "post"
      /\ accepted' = IF Resets /\ s = "conv" THEN 1 ELSE accepted
      /\ Saved(s)
      /\ UNCHANGED <<prompt, computed, stateIdx, staged, kept>>
  BY PostprocessIs DEF AlignInv
<1>2. Layout /\ Frozen /\ Tables(temporal, conv) /\ todo \subseteq States /\ hits \in Nat
  BY LayoutPostprocess, Sizes DEF AlignInv, Layout, TypeOK, Tables
<1> SUFFICES ASSUME hits' = 0
             PROVE  FullAreRight' /\ StateBefore' /\ (pc' = "post" => StateAfterT' /\ StateAfterC')
  BY DEF Contents
<1>3. hits = 0 /\ hits' = hits
  BY <1>1, <1>2 DEF Saved, CopyBlock, guard
<1>4. FullAreRight /\ StateAfterT /\ StateAfterC
  BY <1>1, <1>3 DEF AlignInv, Contents
<1>5. Run' = Run /\ Dest' = Dest /\ Saves' = Saves /\ Resets' = Resets
  BY <1>1 DEF Run, Dest, Saves, Resets, staged
<1>6. StateAfterT' /\ ("temporal" \notin todo' => DoneT')
  <2>1. CASE s = "temporal"
    <3>1. DoneT'
      BY <1>1, <1>2, <1>3, <1>4, <2>1, TemporalSaved DEF staged
    <3>2. "temporal" \notin todo'
      BY <1>1, <2>1
    <3> QED
      BY <3>1, <3>2 DEF StateAfterT, DoneT
  <2>2. CASE s = "conv"
    <3>1. temporal' = temporal /\ ("temporal" \in todo' <=> "temporal" \in todo)
      BY <1>1, <1>2, <1>3, <1>4, <2>2, WindowSaved DEF staged
    <3> QED
      BY <1>1, <1>4, <1>5, <3>1 DEF StateAfterT, DoneT, StateT, RightT, staged
  <2> QED
    BY <2>1, <2>2 DEF States
<1>7. StateAfterC' /\ ("conv" \notin todo' => DoneC')
  <2>1. CASE s = "conv"
    <3>1. DoneC'
      BY <1>1, <1>2, <1>3, <1>4, <2>1, WindowSaved DEF staged
    <3>2. "conv" \notin todo'
      BY <1>1, <2>1
    <3> QED
      BY <3>1, <3>2 DEF StateAfterC, DoneC
  <2>2. CASE s = "temporal"
    <3>1. conv' = conv /\ ("conv" \in todo' <=> "conv" \in todo)
      BY <1>1, <1>2, <1>3, <1>4, <2>2, TemporalSaved DEF staged
    <3> QED
      BY <1>1, <1>4, <1>5, <3>1 DEF StateAfterC, DoneC, StateC, RightC, staged
  <2> QED
    BY <2>1, <2>2 DEF States
<1>8. CASE pc' = "post"
  <2>1. FullAreRight'
    BY <1>1, <1>2, <1>4, <1>8, FrozenStayRight DEF Start, staged
  <2>2. StateBefore'
    BY <1>8 DEF StateBefore
  <2> QED
    BY <1>6, <1>7, <2>1, <2>2
<1>9. CASE pc' = "idle"
  <2>1. todo' = {}
    BY <1>1, <1>9
  <2>2. DoneT' /\ DoneC'
    BY <1>6, <1>7, <2>1
  <2>3. /\ stateIdx \in Nat /\ computed \in Nat
        /\ temporal'[stateIdx + (IF Resets THEN 0 ELSE Past(snapshot))] = computed
        /\ Holds(conv'[stateIdx], IF Resets THEN 0 ELSE Past(snapshot), computed)
        /\ Saves => temporal'[Dest] = Upto(Dest + 1) /\ Holds(conv'[Dest], 0, Upto(Dest + 1))
    BY <1>1, <1>2, <1>5, <2>2, SaveNumbers DEF DoneT, DoneC, StateT, StateC, RightT, RightC, staged
  <2>4. StateBefore'
    <3>1. accepted = IF "conv" \notin todo /\ Resets THEN 1 ELSE snapshot
      BY <1>1, <1>2 DEF Layout, CountsAfter
    <3>2. accepted' = IF Resets THEN 1 ELSE snapshot
      BY <1>1, <2>1, <3>1 DEF States
    <3>3. Past(accepted') = IF Resets THEN 0 ELSE Past(snapshot)
      BY <3>2 DEF Past
    <3>4. StateT(stateIdx, Past(accepted))' /\ StateC(stateIdx, Past(accepted))'
      BY <1>1, <2>3, <3>3 DEF StateT, StateC
    <3> QED
      BY <1>9, <3>4 DEF StateBefore
  <2>5. FullAreRight'
    <3>1. Start' = computed /\ Start = base /\ kept' = kept
      BY <1>1, <1>9 DEF Start
    <3>2. ASSUME NEW c \in kept, Upto(c + 1) <= computed
          PROVE  temporal'[c] = Upto(c + 1) /\ Holds(conv'[c], 0, Upto(c + 1))
      <4>1. CASE Upto(c + 1) <= base
        <5>1. temporal'[c] = temporal[c] /\ conv'[c] = conv[c]
          BY <1>2, <4>1 DEF Frozen
        <5>2. RightT(c) /\ RightC(c)
          BY <1>4, <3>1, <4>1 DEF FullAreRight
        <5> QED
          BY <5>1, <5>2 DEF RightT, RightC
      <4>2. CASE ~(Upto(c + 1) <= base)
        <5>1. c = Dest /\ (Saves \/ (snapshot = 0 /\ c = stateIdx /\ Upto(c + 1) = computed))
          BY <1>1, <1>2, <3>2, <4>2, NewlyFull
        <5>2. CASE Saves
          BY <2>3, <5>1, <5>2
        <5>3. CASE snapshot = 0 /\ c = stateIdx /\ Upto(c + 1) = computed
          <6>1. ~Resets /\ Past(snapshot) = 0 /\ stateIdx + 0 = stateIdx
            BY <1>1, <1>2, <2>3, <5>3, SaveNumbers DEF Resets
          <6> QED
            BY <2>3, <5>3, <6>1
        <5> QED
          BY <5>1, <5>2, <5>3
      <4> QED
        BY <4>1, <4>2
    <3> QED
      BY <3>1, <3>2 DEF FullAreRight, RightT, RightC
  <2> QED
    BY <1>9, <2>4, <2>5
<1> QED
  BY <1>1, <1>8, <1>9

LEMMA AlignInvStep == AlignInv /\ [Next]_vars => AlignInv'
<1> SUFFICES ASSUME AlignInv, [Next]_vars PROVE Contents'
  BY LayoutStep DEF AlignInv
<1>1. ASSUME NEW k \in Cols, NEW p \in 1 .. MaxTokens, Admit(k, p) PROVE Contents'
  BY <1>1, ContentsAdmit
<1>2. ASSUME NEW q \in 1 .. MaxTokens, SchedulePrefill(q) PROVE Contents'
  <2>1. computed \in Nat /\ prompt \in 1 .. MaxTokens /\ 0 \in 0 .. NumSpec
    BY Sizes DEF AlignInv, Layout, TypeOK
  <2>2. pc = "idle" /\ Preprocess(q, 0) /\ computed + q <= MaxTokens
    BY <1>2, <2>1, Sizes DEF SchedulePrefill
  <2> QED
    BY <2>1, <2>2, ContentsPreprocess
<1>3. ASSUME NEW d \in 0 .. NumSpec, ScheduleDecode(d) PROVE Contents'
  <2>1. computed \in Nat /\ d \in Nat
    BY Sizes DEF AlignInv, Layout, TypeOK
  <2>2. pc = "idle" /\ Preprocess(1 + d, d) /\ computed + (1 + d) <= MaxTokens
    BY <1>3, <2>1 DEF ScheduleDecode
  <2>3. 1 + d \in 1 .. MaxTokens
    BY <2>1, <2>2, Sizes
  <2> QED
    BY <2>2, <2>3, ContentsPreprocess
<1>4. CASE ForwardPrompt
  BY <1>4, ContentsForwardPrompt
<1>5. ASSUME NEW ok \in 1 .. query, ForwardVerify(ok) PROVE Contents'
  BY <1>5, ContentsForwardVerify
<1>6. ASSUME NEW s \in States, Precopy(s) PROVE Contents'
  BY <1>6, ContentsPrecopy
<1>7. ASSUME NEW s \in States, NEW running \in RunningTokens, Postprocess(s, running)
      PROVE  Contents'
  BY <1>7, ContentsPostprocess
<1>8. CASE UNCHANGED vars
  BY <1>8 DEF vars, tables, staged, guard, AlignInv, Contents, FullAreRight, StateBefore,
      StateAfterT, StateAfterC, RightT, RightC, StateT, StateC, Moves, Start, Run, Dest, Saves, Resets,
      Holds
<1> QED
  BY <1>1, <1>2, <1>3, <1>4, <1>5, <1>6, <1>7, <1>8 DEF Next

\* The forward pass finds the state of exactly the computed tokens (preprocess, pre-copy
\* and post-process taken together, ReadsItsOwnState).
THEOREM StateIsFound == Spec => []ReadsItsOwnState
<1>1. Init => AlignInv
  BY LayoutInit, ContentsInit DEF AlignInv
<1>2. AlignInv => ReadsItsOwnState
  <2> SUFFICES ASSUME AlignInv, pc = "forward", computed > 0, hits = 0
               PROVE  /\ temporal[stateIdx + Offset] = computed
                      /\ History(conv[stateIdx], SlotOff(accepted), computed)
                      /\ computed < prompt => accepted <= 1
    BY DEF ReadsItsOwnState
  <2>1. Past(accepted) = Offset /\ Past(accepted) = SlotOff(accepted)
    BY PastIsSmall DEF Offset, Past, AlignInv, Layout, TypeOK
  <2>2. StateT(stateIdx, Past(accepted)) /\ StateC(stateIdx, Past(accepted))
    BY DEF AlignInv, Contents, StateBefore
  <2>3. computed < prompt => accepted <= 1
    BY DEF AlignInv, Layout, CountsBefore
  <2> QED
    BY <2>1, <2>2, <2>3, HistoryIsHolds DEF StateT, StateC
<1> QED
  BY <1>1, <1>2, AlignInvStep, PTL DEF Spec

\* A full column, which another request may take for its prefix, holds the state at its
\* last token (postprocess_mamba_fused_kernel, CachedHoldsBoundary).
THEOREM CachedIsBoundary == Spec => []CachedHoldsBoundary
<1>1. Init => AlignInv
  BY LayoutInit, ContentsInit DEF AlignInv
<1>2. AlignInv => CachedHoldsBoundary
  <2> SUFFICES ASSUME AlignInv, pc = "idle", hits = 0, NEW c \in kept, Full(c)
               PROVE  temporal[c] = Upto(c + 1) /\ History(conv[c], 0, Upto(c + 1))
    BY DEF CachedHoldsBoundary, Upto
  <2>1. Upto(c + 1) <= Start
    BY DEF Full, Start, Upto
  <2>2. RightT(c) /\ RightC(c)
    BY <2>1 DEF AlignInv, Contents, FullAreRight
  <2> QED
    BY <2>2, HistoryIsHolds DEF RightT, RightC
<1> QED
  BY <1>1, <1>2, AlignInvStep, PTL DEF Spec

=============================================================================

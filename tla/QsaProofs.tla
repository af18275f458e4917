----------------------------- MODULE QsaProofs -----------------------------
(***************************************************************************)
(* The parts of the sparse attention of QSA.                               *)
(*                                                                         *)
(* The ring of QsaRing, for every group size, ring and number of drafts:   *)
(* what the next group still needs survives the drafts stored after it, so *)
(* that a group is pooled from its own accepted rows only.                 *)
(*                                                                         *)
(* The splits of QsaSplits, for every batch, width, group and cache: the   *)
(* tiles are shared out so that each column is in one split.               *)
(*                                                                         *)
(* The draft head of DraftSteps, for a head of one layer and any numbers   *)
(* of requests, rows and steps: what a row attends was selected for it.    *)
(*                                                                         *)
(* The scores of DraftVocab, for every vocabulary, number of ranks and     *)
(* choice of tokens.                                                       *)
(***************************************************************************)
EXTENDS QsaRing, QsaSplits, DraftSteps, DraftVocab, NatLemmas, SequenceTheorems, TLAPS

\* A request starts at the boundary of a group.
StartsAGroup == first % CompressRatio = 0

RingInv == RingTypeOK /\ StartsAGroup /\ RingHoldsGroup /\ GroupsAreTheirRows

-----------------------------------------------------------------------------
\* Division with remainder.
LEMMA DivMod ==
    ASSUME NEW R \in Nat \ {0}, NEW a \in Nat
    PROVE  /\ a % R \in 0 .. R - 1 /\ a \div R \in Nat
           /\ a = R * (a \div R) + (a % R)
BY SMT

\* A larger quotient is a whole divisor larger.
LEMMA NextMultiple ==
    ASSUME NEW R \in Nat \ {0}, NEW q \in Nat, NEW p \in Nat, p > q
    PROVE  R * p >= R * q + R
<1>1. PICK d \in Nat : p = q + 1 + d
  BY SMT
<1>2. R * p = R * q + R + R * d
  BY <1>1, SMT
<1>3. R * d >= 0
  BY SMT
<1> QED
  BY <1>2, <1>3, SMT

\* Two positions less than a ring apart never share a cell (ops_qsa.py:518).
LEMMA CellsDiffer ==
    ASSUME NEW R \in Nat \ {0}, NEW a \in Nat, NEW b \in Nat,
           b < a, a < b + R
    PROVE  a % R # b % R
<1> DEFINE qa == a \div R
           qb == b \div R
<1>1. /\ qa \in Nat /\ a = R * qa + (a % R) /\ a % R \in 0 .. R - 1
      /\ qb \in Nat /\ b = R * qb + (b % R) /\ b % R \in 0 .. R - 1
  BY DivMod
<1> HIDE DEF qa, qb
<1>2. SUFFICES ASSUME a % R = b % R PROVE FALSE
  OBVIOUS
<1>3. CASE qa > qb
  <2>1. R * qa >= R * qb + R
    BY <1>1, <1>3, NextMultiple
  <2>2. R * qa \in Nat /\ R * qb \in Nat
    BY <1>1, SMT
  <2> QED
    BY <1>1, <1>2, <2>1, <2>2, SMT
<1>4. CASE qa <= qb
  <2>1. R * qa <= R * qb
    <3>1. CASE qa = qb
      BY <1>1, <3>1, SMT
    <3>2. CASE qa < qb
      <4>1. R * qb >= R * qa + R
        BY <1>1, <3>2, NextMultiple
      <4>2. R * qa \in Nat /\ R * qb \in Nat
        BY <1>1, SMT
      <4> QED
        BY <4>1, <4>2, SMT
    <3> QED
      BY <1>1, <1>4, <3>1, <3>2, SMT
  <2>2. R * qa \in Nat /\ R * qb \in Nat
    BY <1>1, SMT
  <2> QED
    BY <1>1, <1>2, <2>1, <2>2, SMT
<1> QED
  BY <1>1, <1>3, <1>4, SMT

\* A group that ends after the first row of a request starts in the request.
LEMMA GroupInRequest ==
    ASSUME NEW R \in Nat \ {0}, NEW f \in Nat, NEW e \in Nat,
           f % R = 0, e % R = R - 1, f <= e
    PROVE  f <= e - (R - 1)
<1> DEFINE qf == f \div R
           qe == e \div R
<1>1. /\ qf \in Nat /\ f = R * qf + (f % R)
      /\ qe \in Nat /\ e = R * qe + (e % R)
  BY DivMod
<1> HIDE DEF qf, qe
<1>2. R * qf \in Nat /\ R * qe \in Nat
  BY <1>1, SMT
<1>3. f = R * qf /\ e - (R - 1) = R * qe
  BY <1>1, <1>2, SMT
<1>4. CASE qf <= qe
  <2>1. CASE qf = qe
    BY <1>3, <2>1, <1>2, SMT
  <2>2. CASE qf < qe
    <3>1. R * qe >= R * qf + R
      BY <1>1, <2>2, NextMultiple
    <3> QED
      BY <1>2, <1>3, <3>1, SMT
  <2> QED
    BY <1>1, <1>4, <2>1, <2>2, SMT
<1>5. CASE qf > qe
  <2>1. R * qf >= R * qe + R
    BY <1>1, <1>5, NextMultiple
  <2> QED
    BY <1>2, <1>3, <2>1, SMT
<1> QED
  BY <1>1, <1>4, <1>5, SMT

-----------------------------------------------------------------------------
\* In a step, the cell of a position in reach of the ring's end holds that position:
\* stored there now, if the step ran it, or untouched, if an earlier one did.
LEMMA CellKept ==
    ASSUME RingAssumption, RingTypeOK,
           NEW n \in Nat, NEW k \in Nat, k < n, length + n <= MaxPosition,
           NEW p \in Positions, p < length + n - k, p > length + n - 1 - RingSize
    PROVE  CellAfter(p % RingSize, length, n, k)
             = IF p >= length THEN p ELSE ring[p % RingSize]
<1> DEFINE last == length + n - 1
           stored(q) == HasSlot(q, length, n) /\ StoredIn(p % RingSize, length, q)
<1>1. /\ RingSize \in Nat \ {0} /\ length \in Nat /\ p \in Nat /\ MaxPosition \in Nat
      /\ CompressRatio \in Nat \ {0}
  BY DEF RingAssumption, RingTypeOK, Positions
<1>2. ASSUME NEW q \in Positions, stored(q) PROVE q = p
  <2>1. q \in Nat /\ q \in length .. last /\ q > last - RingSize
    BY <1>1, <1>2 DEF HasSlot, Positions
  <2>2. q % RingSize = p % RingSize
    BY <1>2 DEF StoredIn
  <2>3. p <= last
    BY <1>1
  <2>4. ~(q < p)
    <3>1. ASSUME q < p PROVE FALSE
      <4>1. p < q + RingSize
        BY <1>1, <2>1, <2>3, SMT
      <4> QED
        BY <1>1, <2>1, <2>2, <3>1, <4>1, CellsDiffer
    <3> QED
      BY <3>1
  <2>5. ~(p < q)
    <3>1. ASSUME p < q PROVE FALSE
      <4>1. q < p + RingSize
        BY <1>1, <2>1, SMT
      <4> QED
        BY <1>1, <2>1, <2>2, <3>1, <4>1, CellsDiffer
    <3> QED
      BY <3>1
  <2> QED
    BY <1>1, <2>1, <2>4, <2>5, SMT
<1>3. CASE p >= length
  <2>1. stored(p)
    BY <1>1, <1>3 DEF HasSlot, StoredIn
  <2>2. (CHOOSE q \in Positions : stored(q)) = p
    BY <1>2, <2>1
  <2> QED
    BY <1>1, <1>3, <2>1, <2>2 DEF CellAfter
<1>4. CASE ~(p >= length)
  <2>1. ~ \E q \in Positions : stored(q)
    <3>1. ASSUME NEW q \in Positions, stored(q) PROVE FALSE
      <4>1. q = p
        BY <1>2, <3>1
      <4>2. q >= length
        BY <1>1, <3>1 DEF HasSlot
      <4> QED
        BY <1>1, <1>4, <4>1, <4>2
    <3> QED
      BY <3>1
  <2> QED
    BY <1>4, <2>1 DEF CellAfter
<1> QED
  BY <1>3, <1>4

-----------------------------------------------------------------------------
LEMMA RingInitInv ==
    ASSUME RingAssumption, RingInit
    PROVE  RingInv
<1>1. CompressRatio \in Nat \ {0} /\ MaxPosition \in Nat
  BY DEF RingAssumption
<1>2. 0 % CompressRatio = 0
  BY <1>1, SMT
<1>3. RingTypeOK
  BY <1>1 DEF RingInit, RingTypeOK, Stale
<1> QED
  BY <1>2, <1>3
     DEF RingInit, RingInv, StartsAGroup, RingHoldsGroup, GroupsAreTheirRows

LEMMA AdmitInv ==
    ASSUME RingAssumption, RingInv,
           NEW start \in 0 .. MaxPosition, AdmitRequest(start)
    PROVE  RingInv'
<1>1. MaxPosition \in Nat
  BY DEF RingAssumption
<1>2. RingTypeOK'
  BY <1>1 DEF AdmitRequest, RingTypeOK, Stale
<1> QED
  BY <1>1, <1>2
     DEF AdmitRequest, RingInv, StartsAGroup, RingHoldsGroup, GroupsAreTheirRows

LEMMA StepInv ==
    ASSUME RingAssumption, RingInv,
           NEW n \in 1 .. MaxChunk, NEW k \in 0 .. NumDrafts, k < n, Step(n, k)
    PROVE  RingInv'
<1>1. /\ RingSize \in Nat \ {0} /\ CompressRatio \in Nat \ {0} /\ NumDrafts \in Nat
      /\ MaxPosition \in Nat /\ MaxChunk \in Nat /\ n \in Nat /\ k \in Nat
      /\ RingSize >= CompressRatio + NumDrafts - 1
  BY DEF RingAssumption
<1>2. /\ RingTypeOK /\ first \in Nat /\ length \in Nat /\ first <= length
      /\ length + n <= MaxPosition /\ length' = length + n - k /\ first' = first
  BY <1>1 DEF RingInv, RingTypeOK, Step
<1>3. RingTypeOK'
  <2>1. ring' \in [RingCells -> Positions \cup {Stale}]
    <3>1. ASSUME NEW c \in RingCells
          PROVE  CellAfter(c, length, n, k) \in Positions \cup {Stale}
      BY <1>2 DEF CellAfter, RingTypeOK
    <3> QED
      BY <3>1 DEF Step
  <2>2. pooled' \in [Positions -> [Members -> Positions \cup {Stale}]]
    <3>1. ASSUME NEW e \in Positions, e \in length .. length + n - 1, EndsGroup(e)
          PROVE  Group(e, length) \in [Members -> Positions \cup {Stale}]
      <4>1. ASSUME NEW m \in Members
            PROVE  Group(e, length)[m] \in Positions \cup {Stale}
        <5>1. MemberAt(e, m) \in Int /\ MemberAt(e, m) <= e
          BY <1>1 DEF MemberAt, Members, Positions
        <5>2. CASE UseRaw(MemberAt(e, m), length)
          BY <1>1, <1>2, <5>1, <5>2 DEF Group, UseRaw, Positions
        <5>3. CASE ~UseRaw(MemberAt(e, m), length)
          <6>1. MemberAt(e, m) % RingSize \in RingCells
            BY <1>1, <5>1, SMT DEF RingCells
          <6> QED
            BY <1>2, <5>3, <6>1 DEF Group, RingTypeOK
        <5> QED
          BY <5>2, <5>3
      <4> QED
        BY <4>1 DEF Group
    <3> QED
      BY <1>2, <3>1 DEF Step, RingTypeOK
  <2> QED
    BY <1>1, <1>2, <2>1, <2>2 DEF RingTypeOK
<1>4. StartsAGroup'
  BY <1>2 DEF RingInv, StartsAGroup
<1>5. RingHoldsGroup'
  <2>1. SUFFICES ASSUME NEW p \in Positions, p \in first .. length + n - k - 1,
                        p >= length + n - k - (CompressRatio - 1)
                 PROVE  ring'[p % RingSize] = p
    BY <1>1, <1>2 DEF RingHoldsGroup
  <2>2. p \in Nat /\ p < length + n - k /\ p > length + n - 1 - RingSize
    BY <1>1, <1>2, <2>1 DEF Positions
  <2>3. p % RingSize \in RingCells
    BY <1>1, <2>2, SMT DEF RingCells
  <2>4. ring'[p % RingSize] = IF p >= length THEN p ELSE ring[p % RingSize]
    BY <1>1, <1>2, <2>2, <2>3, CellKept DEF Step
  <2>5. CASE p >= length
    BY <2>4, <2>5
  <2>6. CASE ~(p >= length)
    <3>1. p \in first .. length - 1 /\ p >= length - (CompressRatio - 1)
      BY <1>1, <1>2, <2>1, <2>2, <2>6
    <3> QED
      BY <2>4, <2>6, <3>1 DEF RingInv, RingHoldsGroup
  <2> QED
    BY <2>5, <2>6
<1>6. GroupsAreTheirRows'
  <2>1. SUFFICES ASSUME NEW e \in Positions, e \in first .. length + n - k - 1,
                        EndsGroup(e), NEW m \in Members
                 PROVE  pooled'[e][m] = MemberAt(e, m)
    BY <1>1, <1>2 DEF GroupsAreTheirRows
  <2>2. CASE e < length
    <3>1. pooled'[e] = pooled[e]
      BY <1>1, <1>2, <2>1, <2>2 DEF Step
    <3>2. e \in first .. length - 1
      BY <1>1, <1>2, <2>1, <2>2
    <3> QED
      BY <2>1, <3>1, <3>2 DEF RingInv, GroupsAreTheirRows
  <2>3. CASE ~(e < length)
    <3> DEFINE p == MemberAt(e, m)
    <3>1. pooled'[e][m] = IF UseRaw(p, length) THEN p ELSE ring[p % RingSize]
      BY <1>1, <1>2, <2>1, <2>3 DEF Step, Group
    <3>2. e \in Nat /\ m \in 0 .. CompressRatio - 1 /\ e % CompressRatio = CompressRatio - 1
      BY <1>1, <2>1 DEF Positions, Members, EndsGroup
    <3>3. first <= e - (CompressRatio - 1)
      <4>1. first <= e /\ first % CompressRatio = 0
        BY <2>1, <1>2 DEF RingInv, StartsAGroup
      <4> QED
        BY <1>1, <1>2, <3>2, <4>1, GroupInRequest
    <3>4. p \in first .. e /\ p >= length - (CompressRatio - 1)
      BY <1>1, <1>2, <2>3, <3>2, <3>3 DEF MemberAt
    <3> HIDE DEF p
    <3>5. CASE p >= length
      BY <3>1, <3>5 DEF UseRaw, p
    <3>6. CASE ~(p >= length)
      <4>1. p \in Positions /\ p \in first .. length - 1
        BY <1>1, <1>2, <3>4, <3>6 DEF Positions
      <4>2. ring[p % RingSize] = p
        BY <3>4, <4>1 DEF RingInv, RingHoldsGroup
      <4> QED
        BY <3>1, <3>6, <4>2 DEF UseRaw, p
    <3> QED
      BY <3>5, <3>6 DEF p
  <2> QED
    BY <2>2, <2>3
<1> QED
  BY <1>3, <1>4, <1>5, <1>6 DEF RingInv

LEMMA RingNextInv ==
    ASSUME RingAssumption, RingInv, [RingNext]_ringVars
    PROVE  RingInv'
<1>1. CASE RingNext
  BY <1>1, AdmitInv, StepInv DEF RingNext
<1>2. CASE UNCHANGED ringVars
  BY <1>2 DEF ringVars, RingInv, RingTypeOK, StartsAGroup, RingHoldsGroup, GroupsAreTheirRows
<1> QED
  BY <1>1, <1>2

LEMMA RingInvHolds == RingSpec => []RingInv
<1>1. RingInit => RingInv
  BY RingInitInv, RingAssumption
<1>2. RingInv /\ [RingNext]_ringVars => RingInv'
  BY RingNextInv, RingAssumption
<1> QED
  BY <1>1, <1>2, PTL DEF RingSpec

-----------------------------------------------------------------------------
\* The ring and the pooled groups keep their types (ops_qsa.py:393-575).
THEOREM RingTypeCorrect == RingSpec => []RingTypeOK
<1>1. RingInv => RingTypeOK
  BY DEF RingInv
<1> QED
  BY <1>1, RingInvHolds, PTL

\* In a ring at least CompressRatio + NumDrafts - 1 wide, no draft that was rejected
\* lies in the cell of a row that the group still being collected needs
\* (ops_qsa.py:876-879).
THEOREM RingKeepsItsGroup == RingSpec => []RingHoldsGroup
<1>1. RingInv => RingHoldsGroup
  BY DEF RingInv
<1> QED
  BY <1>1, RingInvHolds, PTL

\* Every group of accepted rows is pooled from exactly those rows (ops_qsa.py:500-526).
THEOREM GroupsArePooledRight == RingSpec => []GroupsAreTheirRows
<1>1. RingInv => GroupsAreTheirRows
  BY DEF RingInv
<1> QED
  BY <1>1, RingInvHolds, PTL
-----------------------------------------------------------------------------
\* Any positive number of tiles has a bit length, and the code's power of it is one.
LEMMA BitLengthIsOne ==
    ASSUME NEW n \in Nat \ {0}
    PROVE  2 ^ (BitLength(n) - 1) \in Nat \ {0}
<1> DEFINE S == {k \in Nat : n < 2 ^ k}
<1>1. \A k \in Nat : 2 ^ k \in Nat /\ k < 2 ^ k
  BY PowersGrow
<1>2. n \in S
  BY <1>1
<1>3. PICK k \in S : \A j \in S : k <= j
  BY <1>2, LeastNat
<1>4. k \in 1 .. n
  <2>1. 2 ^ 0 = 1 /\ n < 2 ^ k
    BY <1>3
  <2>2. k # 0
    <3> SUFFICES ASSUME k = 0 PROVE FALSE
      OBVIOUS
    <3>1. n < 2 ^ 0
      BY <2>1, Zenon
    <3>2. n < 1
      BY <2>1, <3>1, Zenon
    <3> QED
      BY <3>2
  <2>3. k \in Nat /\ k <= n
    BY <1>2, <1>3
  <2> QED
    BY <2>2, <2>3
<1>5. k - 1 \in Nat /\ k - 1 \notin S
  BY <1>3, <1>4
<1>6. 2 ^ (k - 1) <= n /\ n < 2 ^ k
  BY <1>1, <1>3, <1>5
<1>7. BitLength(n) \in 1 .. n
  BY <1>4, <1>6 DEF BitLength
<1>8. BitLength(n) - 1 \in Nat
  BY <1>7
<1> QED
  BY <1>1, <1>8

\* The merge loads enough partial results.
LEMMA PowerAbove ==
    ASSUME NEW n \in 1 .. 64
    PROVE  NextPowerOf2(n) \in Nat /\ n <= NextPowerOf2(n)
<1> DEFINE Powers == {2 ^ k : k \in 0 .. 10}
<1>1. \A k \in 0 .. 10 : 2 ^ k \in Nat
  BY PowersGrow
<1>2. {1, 2, 4, 8, 16, 32, 64} \subseteq Powers
  <2>1. /\ 2 ^ 0 = 1 /\ 2 ^ 1 = 2 /\ 2 ^ 2 = 4 /\ 2 ^ 3 = 8 /\ 2 ^ 4 = 16 /\ 2 ^ 5 = 32
        /\ 2 ^ 6 = 64
    OBVIOUS
  <2>2. \A k \in 0 .. 6 : 2 ^ k \in Powers
    <3>1. \A k \in 0 .. 10 : 2 ^ k \in Powers
      OBVIOUS
    <3>2. \A k \in 0 .. 6 : k \in 0 .. 10
      OBVIOUS
    <3> HIDE DEF Powers
    <3> QED
      BY <3>1, <3>2
  <2> HIDE DEF Powers
  <2> QED
    BY <2>1, <2>2
<1>3. Powers \subseteq Nat
  BY <1>1
<1> HIDE DEF Powers
<1>4. \E m \in Powers : n <= m /\ m < 2 * n
  <2>1. \E m \in {1, 2, 4, 8, 16, 32, 64} : n <= m /\ m < 2 * n
    OBVIOUS
  <2> QED
    BY <1>2, <2>1
<1>5. NextPowerOf2(n) = CHOOSE m \in Powers : n <= m /\ m < 2 * n
  BY DEF NextPowerOf2, Powers
<1> QED
  BY <1>3, <1>4, <1>5

\* Whatever the splits, one of them has the tile.
LEMMA OneSplitPerTile ==
    ASSUME NEW tiles \in Nat \ {0}, NEW splits \in Nat \ {0}, NEW i \in 0 .. tiles - 1
    PROVE  \E s \in 0 .. splits - 1 :
             \A r \in 0 .. splits - 1 : i \in SplitTiles(r, tiles, splits) <=> r = s
<1> DEFINE start(s) == SplitStart(s, tiles, splits)
           S == {s \in Nat : i < start(s)}
<1>1. \A s \in Nat : start(s) \in Int
  <2>1. \A s \in Nat : s * tiles \in Int
    OBVIOUS
  <2> QED
    BY <2>1, Division DEF SplitStart
<1>2. start(0) = 0 /\ start(splits) = tiles
  <2>1. (splits * tiles) \div splits = tiles
    <3>1. splits * tiles = tiles * splits
      OBVIOUS
    <3> QED
      BY <3>1, Multiple
  <2>2. (0 * tiles) \div splits = 0
    OBVIOUS
  <2> QED
    BY <2>1, <2>2 DEF SplitStart
<1>3. \A r, s \in Nat : r <= s => start(r) <= start(s)
  <2> SUFFICES ASSUME NEW r \in Nat, NEW s \in Nat, r <= s PROVE start(r) <= start(s)
    OBVIOUS
  <2>1. r * tiles <= s * tiles /\ r * tiles \in Int /\ s * tiles \in Int
    BY MultiplesInOrder
  <2>2. \A a, b \in Int : a <= b => a \div splits <= b \div splits
    OBVIOUS
  <2> QED
    BY <2>1, <2>2 DEF SplitStart
<1> HIDE DEF start
<1>4. splits \in S
  BY <1>2
<1>5. PICK e \in S : \A s \in S : e <= s
  BY <1>4, LeastNat
<1>6. e \in 1 .. splits /\ e - 1 \in Nat /\ e - 1 \notin S
  BY <1>2, <1>4, <1>5
<1>7. start(e - 1) <= i /\ i < start(e)
  BY <1>1, <1>5, <1>6
<1>8. \A r \in 0 .. splits - 1 : i \in SplitTiles(r, tiles, splits) <=> start(r) <= i /\ i < start(r + 1)
  BY <1>1 DEF SplitTiles, start
<1>9. \A r \in 0 .. splits - 1 : start(r) <= i /\ i < start(r + 1) => r = e - 1
  <2> SUFFICES ASSUME NEW r \in 0 .. splits - 1, start(r) <= i, i < start(r + 1)
               PROVE  r = e - 1
    OBVIOUS
  <2>1. r + 1 \in S
    OBVIOUS
  <2>2. e <= r + 1
    BY <1>5, <2>1
  <2>3. e <= r => start(e) <= start(r)
    BY <1>3, <1>5
  <2> QED
    BY <1>1, <1>5, <1>7, <2>2, <2>3
<1>10. e - 1 \in 0 .. splits - 1 /\ (e - 1) + 1 = e
  BY <1>6
<1> QED
  BY <1>7, <1>8, <1>9, <1>10

\* The tiles reach over all columns.
LEMMA TileOfColumn ==
    ASSUME NEW width \in Nat \ {0}, NEW block \in Nat \ {0}, NEW c \in 0 .. width - 1
    PROVE  NumTiles(width, block) \in Nat \ {0} /\ c \div block \in 0 .. NumTiles(width, block) - 1
<1>1. (c + block) \div block = c \div block + 1
  OBVIOUS
<1>2. c + block <= width + block - 1
  OBVIOUS
<1>3. \A a, b \in Int : a <= b => a \div block <= b \div block
  OBVIOUS
<1>4. c \div block \in Nat
  OBVIOUS
<1> DEFINE i == c \div block
           last == c + block
           reach == width + block - 1
           tiles == reach \div block
<1>5. last \in Int /\ reach \in Int /\ last <= reach /\ NumTiles(width, block) = tiles
  BY <1>2 DEF NumTiles
<1>6. i + 1 <= tiles /\ tiles \in Int /\ i \in Nat
  <2>1. last \div block <= tiles /\ last \div block = i + 1 /\ i \in Nat
    BY <1>1, <1>3, <1>4, <1>5
  <2> HIDE DEF i, last, reach
  <2>2. tiles \in Int
    BY <1>5, Division
  <2> QED
    BY <2>1, <2>2
<1> HIDE DEF tiles, i
<1>7. tiles \in Nat \ {0} /\ i \in 0 .. tiles - 1
  BY <1>6
<1> QED
  BY <1>5, <1>7 DEF i

\* What the kernel is launched with.
SplitsInv ==
    launch = NoLaunch \/
        /\ launch.width \in Nat \ {0} /\ launch.filled \in Nat /\ launch.block \in Nat \ {0}
        /\ launch.tiles = NumTiles(launch.width, launch.block)
        /\ launch.splits \in 1 .. 64

LEMMA SplitsInvHolds == SplitsSpec => []SplitsInv
<1>1. SplitsInit => SplitsInv
  BY DEF SplitsInit, SplitsInv
<1>2. SplitsInv /\ [SplitsNext]_launch => SplitsInv'
  <2> SUFFICES ASSUME SplitsInv, SplitsNext PROVE SplitsInv'
    BY DEF SplitsInv
  <2>1. PICK programs \in Programs, width \in Widths, group \in GroupSizes, cache \in Caches :
          \E filled \in {0, 1, width \div 2, width} : Attend(programs, width, group, cache, filled)
    BY DEF SplitsNext
  <2>2. PICK filled \in {0, 1, width \div 2, width} : Attend(programs, width, group, cache, filled)
    BY <2>1
  <2> DEFINE profile == Profile(programs, group)
             block == BlockN(profile.block, cache)
             tiles == NumTiles(width, block)
             splits == NumSplits(tiles, profile.splits)
  <2>3. width \in Nat \ {0} /\ filled \in Nat
    <3>1. width \in Nat \ {0}
      BY SplitsAssumption
    <3> QED
      BY <3>1
  <2>4. profile.block \in {16, 64} /\ profile.splits \in 1 .. 64
    BY DEF Profile
  <2>5. block \in {16, 32, 64}
    BY <2>4 DEF BlockN
  <2> HIDE DEF profile, block
  <2>6. tiles \in Nat \ {0}
    BY <2>3, <2>5, TileOfColumn
  <2>7. splits \in 1 .. 64
    <3> DEFINE power == 2 ^ (BitLength(tiles) - 1)
               wanted == profile.splits
               both == {power, wanted}
    <3> HIDE DEF tiles
    <3>1. power \in Nat \ {0}
      BY <2>6, BitLengthIsOne
    <3>2. wanted \in 1 .. 64
      BY <2>4
    <3> HIDE DEF power, wanted
    <3>3. both \in SUBSET Nat /\ wanted \in both
      BY <3>1, <3>2
    <3>4. Min(both) \in both /\ Min(both) <= wanted
      BY <3>3, MinOfSome
    <3> QED
      BY <3>1, <3>2, <3>4 DEF NumSplits, power, wanted
  <2> HIDE DEF splits
  <2>8. launch' = [width |-> width, filled |-> filled, block |-> block, tiles |-> tiles,
                   splits |-> splits]
    BY <2>2 DEF Attend, profile, block, splits
  <2> QED
    BY <2>3, <2>5, <2>7, <2>8 DEF SplitsInv
<1> QED
  BY <1>1, <1>2, PTL DEF SplitsSpec

\* Whatever the batch, the width, the group and the cache, each selected column weighs in
\* the output of its row exactly once, and no other does (ops_qsa.py:146-148, 663-698):
\* SelectedOnce.
THEOREM EachSelectedOnce == SplitsSpec => []SelectedOnce
<1>1. SplitsInv => SelectedOnce
  <2> SUFFICES ASSUME SplitsInv, launch # NoLaunch, NEW c \in 0 .. launch.width - 1
               PROVE  Merged(launch, c) = IF c < launch.filled THEN 1 ELSE 0
    BY DEF SelectedOnce
  <2> DEFINE width == launch.width
             tiles == launch.tiles
             splits == launch.splits
             block == launch.block
             i == c \div block
             S == {s \in 0 .. NextPowerOf2(splits) - 1 : s < splits /\ Attends(launch, s, c)}
  <2>1. /\ width \in Nat \ {0} /\ launch.filled \in Nat /\ block \in Nat \ {0}
        /\ tiles = NumTiles(width, block) /\ splits \in 1 .. 64
    BY DEF SplitsInv
  <2>2. tiles \in Nat \ {0} /\ i \in 0 .. tiles - 1 /\ c \in Nat /\ c < width
    <3>1. c \in 0 .. width - 1
      OBVIOUS
    <3> HIDE DEF width, tiles, block
    <3>2. NumTiles(width, block) \in Nat \ {0} /\ c \div block \in 0 .. NumTiles(width, block) - 1
      BY <2>1, <3>1, TileOfColumn
    <3>3. c \in Nat /\ c < width
      BY <2>1, <3>1
    <3> QED
      BY <2>1, <3>2, <3>3
  <2>3. NextPowerOf2(splits) \in Nat /\ splits <= NextPowerOf2(splits)
    BY <2>1, PowerAbove
  <2>4. \A s : Attends(launch, s, c) <=> c < launch.filled /\ i \in SplitTiles(s, tiles, splits)
    BY <2>2 DEF Attends
  <2>5. Merged(launch, c) = Cardinality(S)
    BY DEF Merged
  <2> HIDE DEF width, tiles, splits, block, i
  <2>6. S = IF c < launch.filled
            THEN {s \in 0 .. splits - 1 : i \in SplitTiles(s, tiles, splits)} ELSE {}
    BY <2>1, <2>3, <2>4
  <2>7. PICK s \in 0 .. splits - 1 :
          \A r \in 0 .. splits - 1 : i \in SplitTiles(r, tiles, splits) <=> r = s
    <3>1. splits \in Nat \ {0}
      BY <2>1
    <3> QED
      BY <2>2, <3>1, OneSplitPerTile
  <2>8. {r \in 0 .. splits - 1 : i \in SplitTiles(r, tiles, splits)} = {s}
    BY <2>7
  <2> QED
    BY <2>5, <2>6, <2>8, FS_Singleton, FS_EmptySet
<1> QED
  BY <1>1, SplitsInvHolds, PTL
-----------------------------------------------------------------------------
DraftRows == [request : Requests, position : Int]

\* A batch lists rows of its requests, no more of each than it may have.
LEMMA TargetRowsListed ==
    ASSUME DraftAssumption, confirmed \in [Requests -> Nat], NEW n \in [Requests -> 0 .. MaxRowsOf]
    PROVE  TargetRows(n) \in Seq(DraftRows) /\ Len(TargetRows(n)) <= MaxRowsOf * NumDraftReqs
<1> DEFINE N == NumDraftReqs
           Lists == Seq(DraftRows)
           none == << >>
           listed(q) == [j \in 1 .. n[q] |-> [request |-> q, position |-> confirmed[q] + j]]
           own == [q \in Requests |-> listed(q)]
           step == [q \in 1 .. N |-> [list \in Lists |-> list \o own[q]]]
           IsRows(f) == f = [q \in 0 .. N |->
                               IF q = 0 THEN none ELSE f[q - 1] \o listed(q)]
           rows == CHOOSE f : IsRows(f)
<1>1. N \in Nat /\ MaxRowsOf \in Nat /\ Requests = 1 .. N
  BY DEF DraftAssumption, Requests
<1>2. ASSUME NEW q \in 1 .. N
      PROVE  own[q] \in Lists /\ Len(own[q]) \in Nat /\ Len(own[q]) <= MaxRowsOf
  <2>1. n[q] \in 0 .. MaxRowsOf /\ confirmed[q] \in Nat
    BY <1>1
  <2>2. own[q] = listed(q)
    BY <1>1
  <2>3. \A j \in 1 .. n[q] : [request |-> q, position |-> confirmed[q] + j] \in DraftRows
    BY <1>1, <2>1 DEF DraftRows
  <2>4. own[q] \in [1 .. n[q] -> DraftRows]
    BY <2>2, <2>3
  <2> HIDE DEF own
  <2>5. n[q] \in Nat /\ n[q] <= MaxRowsOf
    BY <1>1, <2>1
  <2> DEFINE m == n[q]
             list == own[q]
  <2>6. m \in Nat /\ m <= MaxRowsOf /\ list \in [1 .. m -> DraftRows]
    BY <2>4, <2>5
  <2> HIDE DEF m, list
  <2>7. list \in Seq(DraftRows) /\ Len(list) = m
    BY <2>6, ListIsSeq
  <2> QED
    BY <2>6, <2>7 DEF list
<1>3. step \in [1 .. N -> [Lists -> Lists]]
  <2>1. \A q \in 1 .. N : \A list \in Lists : list \o own[q] \in Lists
    <3> HIDE DEF own
    <3> QED
      BY <1>2, ConcatProperties
  <2> QED
    BY <2>1
<1>4. none \in Lists
  OBVIOUS
<1>5. PICK f \in [0 .. N -> Lists] : Recurs(f, N, none, step)
  <2> HIDE DEF step, Lists, none, N
  <2> QED
    BY <1>1, <1>3, <1>4, RecursionUpTo
<1>6. \A q \in 1 .. N : f[q] = f[q - 1] \o own[q]
  <2> SUFFICES ASSUME NEW q \in 1 .. N PROVE f[q] = f[q - 1] \o own[q]
    OBVIOUS
  <2>1. f[q - 1] \in Lists
    BY <1>1
  <2> QED
    BY <1>5, <2>1 DEF Recurs
<1>7. \A q \in 1 .. N : own[q] = listed(q)
  BY <1>1
<1> HIDE DEF own, listed, none
<1>8. IsRows(f)
  <2>1. \A q \in 0 .. N : f[q] = IF q = 0 THEN none ELSE f[q - 1] \o listed(q)
    <3> SUFFICES ASSUME NEW q \in 0 .. N
                 PROVE  f[q] = IF q = 0 THEN none ELSE f[q - 1] \o listed(q)
      OBVIOUS
    <3>1. q # 0 => q \in 1 .. N
      BY <1>1
    <3> QED
      BY <1>5, <1>6, <1>7, <3>1 DEF Recurs
  <2> QED
    BY <2>1
<1>9. IsRows(rows)
  <2> HIDE DEF IsRows
  <2> QED
    BY <1>8
<1> HIDE DEF rows
<1>10. rows[0] = none /\ \A q \in 1 .. N : rows[q] = rows[q - 1] \o own[q]
  <2>1. \A q \in 0 .. N : rows[q] = IF q = 0 THEN none ELSE rows[q - 1] \o listed(q)
    BY <1>9
  <2>2. 0 \in 0 .. N /\ \A q \in 1 .. N : q \in 0 .. N /\ q # 0
    BY <1>1
  <2> QED
    BY <1>7, <2>1, <2>2
<1> DEFINE T == {k \in Nat : k <= N => rows[k] \in Lists /\ Len(rows[k]) <= MaxRowsOf * k}
<1> HIDE DEF IsRows, Lists
<1>11. 0 \in T
  <2>1. Len(none) = 0 /\ MaxRowsOf * 0 = 0
    BY <1>1 DEF none
  <2> QED
    BY <1>4, <1>10, <2>1
<1>12. ASSUME NEW k \in Nat, k \in T PROVE k + 1 \in T
  <2> SUFFICES ASSUME k + 1 <= N
               PROVE  rows[k + 1] \in Lists /\ Len(rows[k + 1]) <= MaxRowsOf * (k + 1)
    OBVIOUS
  <2>1. rows[k] \in Lists /\ Len(rows[k]) <= MaxRowsOf * k
    BY <1>1, <1>12
  <2>2. rows[k + 1] = rows[k] \o own[k + 1]
    <3>1. k + 1 \in 1 .. N /\ (k + 1) - 1 = k
      BY <1>1
    <3> QED
      BY <1>10, <3>1
  <2>3. own[k + 1] \in Lists /\ Len(own[k + 1]) \in Nat /\ Len(own[k + 1]) <= MaxRowsOf
    BY <1>1, <1>2
  <2>4. rows[k + 1] \in Lists /\ Len(rows[k + 1]) = Len(rows[k]) + Len(own[k + 1])
        /\ Len(rows[k]) \in Nat
    BY <2>1, <2>2, <2>3, ConcatProperties, LenProperties DEF Lists
  <2>5. MaxRowsOf * (k + 1) = MaxRowsOf * k + MaxRowsOf /\ MaxRowsOf * k \in Nat
    BY <1>1
  <2>6. Len(rows[k + 1]) <= MaxRowsOf * (k + 1)
    <3> DEFINE before == MaxRowsOf * k
               after == MaxRowsOf * (k + 1)
               old == Len(rows[k])
               new == Len(rows[k + 1])
               added == Len(own[k + 1])
    <3>1. /\ after = before + MaxRowsOf /\ before \in Nat /\ old \in Nat /\ old <= before
          /\ new = old + added /\ added \in Nat /\ added <= MaxRowsOf /\ MaxRowsOf \in Nat
      BY <1>1, <2>1, <2>3, <2>4, <2>5
    <3> HIDE DEF before, after, old, new, added
    <3>2. new <= after
      BY <3>1
    <3> QED
      BY <3>2 DEF after, new
  <2> QED
    BY <2>4, <2>6
<1>13. Nat \subseteq T
  <2> HIDE DEF T
  <2> QED
    BY <1>11, <1>12, NatInSet
<1>14. TargetRows(n) = rows[N]
  BY DEF TargetRows, rows, IsRows, listed, none
<1>15. rows[N] \in Lists /\ Len(rows[N]) <= MaxRowsOf * N
  BY <1>1, <1>13
<1> QED
  BY <1>14, <1>15 DEF Lists
\* The selection that a row is to attend.
OwnSelection(row) ==
    [round |-> round, request |-> row.request, position |-> row.position - stepIdx]

\* The inductive invariant of a head of one layer: step 0 selects and the others reuse, and
\* the first rows of the buffer are those of the step, once its rows may be reused.
DraftInv ==
    /\ round \in Nat /\ confirmed \in [Requests -> Nat] /\ stepIdx \in 0 .. LastStep
    /\ ran \in BOOLEAN /\ DOMAIN buffer = MtpLayers
    /\ rowsOf \in Seq(DraftRows) /\ Len(rowsOf) <= MaxRowsOf * NumDraftReqs
    /\ (ran = FALSE \/ stepIdx < LastStep) => skipTopk[0] = (stepIdx > 0)
    /\ (ran = TRUE \/ stepIdx > 0) =>
         \A i \in 1 .. Len(rowsOf) : buffer[0][i] = OwnSelection(rowsOf[i])
    /\ RowsAttendOwnSelection

LEMMA RunQsaInv ==
    ASSUME DraftAssumption, NumMtpLayers = 1, DraftInv, RunQsa
    PROVE  DraftInv'
<1> DEFINE m == stepIdx % NumMtpLayers
           chosen(k) == IF skipTopk[k] THEN buffer[k]
                        ELSE [i \in BufferRows |-> IF i <= Len(rowsOf) THEN Selection(rowsOf[i])
                                                   ELSE buffer[k][i]]
           selected == chosen(0)
           n == Len(rowsOf)
<1>1. m = 0 /\ 0 \in MtpLayers /\ stepIdx \in Nat
  BY DEF DraftInv, DraftAssumption, MtpLayers
<1>2. /\ ~ran /\ ran' = TRUE /\ buffer' = [buffer EXCEPT ![0] = selected]
      /\ attended' = [i \in 1 .. n |-> selected[i]]
      /\ UNCHANGED <<round, confirmed, stepIdx, rowsOf, skipTopk>>
  <2>1. /\ ~ran /\ ran' = TRUE /\ buffer' = [buffer EXCEPT ![m] = chosen(m)]
        /\ attended' = [i \in 1 .. n |-> chosen(m)[i]]
        /\ UNCHANGED <<round, confirmed, stepIdx, rowsOf, skipTopk>>
    BY DEF RunQsa, Attended
  <2> HIDE DEF m, chosen, n
  <2> QED
    BY <1>1, <2>1
<1>3. n \in Nat /\ rowsOf \in [1 .. n -> DraftRows] /\ 1 .. n \subseteq BufferRows
  <2>1. n \in Nat /\ rowsOf \in [1 .. n -> DraftRows]
    BY LenProperties DEF DraftInv
  <2>2. MaxRowsOf * NumDraftReqs \in Nat /\ n <= MaxRowsOf * NumDraftReqs
    BY DEF DraftInv, DraftAssumption
  <2> HIDE DEF n
  <2> QED
    BY <2>1, <2>2 DEF BufferRows
<1>4. \A i \in 1 .. n : selected[i] = OwnSelection(rowsOf[i])
  <2> SUFFICES ASSUME NEW i \in 1 .. n PROVE selected[i] = OwnSelection(rowsOf[i])
    OBVIOUS
  <2>1. skipTopk[0] = (stepIdx > 0)
    BY <1>2 DEF DraftInv
  <2>2. CASE stepIdx > 0
    BY <2>1, <2>2 DEF DraftInv
  <2>3. CASE stepIdx = 0
    <3>1. i \in BufferRows /\ i <= n /\ rowsOf[i] \in DraftRows
      BY <1>3
    <3>2. selected[i] = Selection(rowsOf[i])
      <4>1. ~ skipTopk[0]
        <5>1. (stepIdx > 0) = FALSE
          BY <2>3
        <5> QED
          BY <2>1, <5>1, Zenon
      <4> QED
        BY <3>1, <4>1
    <3>3. rowsOf[i].position - stepIdx = rowsOf[i].position
      BY <2>3, <3>1 DEF DraftRows
    <3> QED
      BY <3>2, <3>3 DEF Selection, OwnSelection
  <2> QED
    BY <1>1, <2>2, <2>3
<1> HIDE DEF selected
<1>5. DOMAIN buffer' = MtpLayers /\ buffer'[0] = selected
  BY <1>1, <1>2 DEF DraftInv
<1>6. \A i \in 1 .. n : buffer'[0][i] = OwnSelection(rowsOf[i])'
  BY <1>2, <1>4, <1>5 DEF OwnSelection
<1>7. RowsAttendOwnSelection'
  <2>1. DOMAIN attended' = 1 .. n /\ \A i \in 1 .. n : attended'[i] = OwnSelection(rowsOf[i])
    BY <1>2, <1>4
  <2> QED
    BY <1>2, <2>1 DEF RowsAttendOwnSelection, OwnSelection
<1> QED
  BY <1>2, <1>5, <1>6, <1>7 DEF DraftInv

LEMMA AcceptTargetInv ==
    ASSUME DraftAssumption, NumMtpLayers = 1, DraftInv,
           NEW accept \in [Requests -> 1 .. MaxRowsOf], AcceptTarget(accept)
    PROVE  DraftInv'
<1> DEFINE requests == Ascending(InRound)
           count == Cardinality(InRound)
           last(q) == [request |-> q, position |-> confirmed[q] + accept[q]]
           RowOf(q) == CHOOSE i \in DOMAIN rowsOf : rowsOf[i].request = q
                                                 /\ rowsOf[i].position = confirmed[q] + accept[q]
           indices == [i \in DOMAIN requests |-> RowOf(requests[i])]
           next == [i \in DOMAIN requests |->
                      [request |-> requests[i], position |-> confirmed'[requests[i]] + 1]]
<1>1. /\ ran /\ stepIdx = 0 /\ LastStep > 0
      /\ \A q \in InRound : \E i \in DOMAIN rowsOf : rowsOf[i] = last(q)
      /\ confirmed' = [q \in Requests |-> confirmed[q] + IF q \in InRound THEN accept[q] ELSE 0]
      /\ buffer' = [m \in MtpLayers |-> Compacted(buffer[m], indices)]
      /\ skipTopk' = SkipOnLater /\ rowsOf' = next /\ stepIdx' = 1 /\ ran' = FALSE
      /\ round' = round /\ attended' = attended
  BY DEF AcceptTarget
<1>2. DOMAIN rowsOf = 1 .. Len(rowsOf) /\ Len(rowsOf) \in Nat
      /\ \A i \in DOMAIN rowsOf : rowsOf[i] \in DraftRows
  BY LenProperties DEF DraftInv
<1>3. InRound \subseteq Requests
  BY <1>2 DEF InRound, DraftRows
<1>4. InRound \in SUBSET Int /\ IsFiniteSet(InRound) /\ count <= NumDraftReqs
  <2>1. IsFiniteSet(Requests) /\ Cardinality(Requests) = NumDraftReqs /\ Requests \subseteq Int
    BY FS_Interval DEF Requests, DraftAssumption
  <2> QED
    BY <1>3, <2>1, FS_Subset
<1>5. /\ count \in Nat /\ requests \in [1 .. count -> InRound]
  BY <1>4, AscendingNames
<1>6. count <= MaxRowsOf * NumDraftReqs
  <2>1. NumDraftReqs \in Nat /\ MaxRowsOf \in Nat \ {0}
    BY DEF DraftAssumption
  <2>2. 1 * NumDraftReqs <= MaxRowsOf * NumDraftReqs /\ MaxRowsOf * NumDraftReqs \in Int
    BY <2>1, MultiplesInOrder
  <2> HIDE DEF count
  <2> QED
    BY <1>4, <1>5, <2>1, <2>2
<1>7. /\ DOMAIN requests = 1 .. count /\ \A i \in 1 .. count : requests[i] \in InRound
  BY <1>5
<1> HIDE DEF requests, count
<1>8. \A q \in Requests : confirmed[q] \in Nat /\ accept[q] \in Nat
  BY DEF DraftInv, DraftAssumption
<1>9. confirmed' \in [Requests -> Nat] /\ \A q \in InRound : confirmed'[q] = confirmed[q] + accept[q]
  BY <1>1, <1>3, <1>8
<1>10. \A i \in 1 .. count :
         /\ next[i] = [request |-> requests[i],
                       position |-> confirmed[requests[i]] + accept[requests[i]] + 1]
         /\ next[i] \in DraftRows
  <2> SUFFICES ASSUME NEW i \in 1 .. count
               PROVE  /\ next[i] = [request |-> requests[i],
                                    position |-> confirmed[requests[i]] + accept[requests[i]] + 1]
                      /\ next[i] \in DraftRows
    OBVIOUS
  <2>1. requests[i] \in InRound /\ requests[i] \in Requests
    BY <1>3, <1>7
  <2>2. confirmed'[requests[i]] = confirmed[requests[i]] + accept[requests[i]]
        /\ confirmed[requests[i]] + accept[requests[i]] + 1 \in Int
    BY <1>8, <1>9, <2>1
  <2>3. next[i] = [request |-> requests[i], position |-> confirmed'[requests[i]] + 1]
    BY <1>7
  <2> QED
    BY <2>1, <2>2, <2>3 DEF DraftRows
<1>11. rowsOf' \in Seq(DraftRows) /\ Len(rowsOf') = count
  <2>1. next \in [1 .. count -> DraftRows]
    <3>1. DOMAIN next = 1 .. count /\ next = [i \in DOMAIN next |-> next[i]]
      BY <1>7
    <3> HIDE DEF next
    <3> QED
      BY <1>10, <3>1
  <2> HIDE DEF next
  <2> QED
    BY <1>1, <1>5, <2>1, ListIsSeq
<1>12. Len(indices) = count
  <2>1. indices \in [1 .. count -> DOMAIN rowsOf]
    <3>1. \A i \in 1 .. count : RowOf(requests[i]) \in DOMAIN rowsOf
      BY <1>1, <1>7
    <3> HIDE DEF RowOf
    <3> QED
      BY <1>7, <3>1
  <2> HIDE DEF indices
  <2> QED
    BY <1>5, <2>1, ListIsSeq
<1>13. \A i \in 1 .. count : buffer'[0][i] = OwnSelection(rowsOf[i])'
  <2> SUFFICES ASSUME NEW i \in 1 .. count PROVE buffer'[0][i] = OwnSelection(rowsOf[i])'
    OBVIOUS
  <2> DEFINE q == requests[i]
  <2>1. q \in InRound /\ q \in Requests
    BY <1>3, <1>7
  <2>2. RowOf(q) \in DOMAIN rowsOf /\ rowsOf[RowOf(q)].request = q
        /\ rowsOf[RowOf(q)].position = confirmed[q] + accept[q]
    <3>1. PICK j \in DOMAIN rowsOf : rowsOf[j] = last(q)
      BY <1>1, <2>1
    <3>2. rowsOf[j].request = q /\ rowsOf[j].position = confirmed[q] + accept[q]
      BY <3>1
    <3> HIDE DEF q
    <3> QED
      BY <3>2
  <2>3. indices[i] = RowOf(q)
    BY <1>7
  <2>4. buffer[0][RowOf(q)] = [round |-> round, request |-> q, position |-> confirmed[q] + accept[q]]
    <3> HIDE DEF RowOf, q
    <3>1. buffer[0][RowOf(q)] = OwnSelection(rowsOf[RowOf(q)])
      BY <1>1, <1>2, <2>2 DEF DraftInv
    <3>2. rowsOf[RowOf(q)].position - stepIdx = confirmed[q] + accept[q]
      BY <1>1, <1>8, <2>1, <2>2
    <3> QED
      BY <2>2, <3>1, <3>2 DEF OwnSelection
  <2>5. buffer'[0][i] = buffer[0][indices[i]]
    <3>1. 0 \in MtpLayers /\ i \in BufferRows
      <4>1. MaxRowsOf * NumDraftReqs \in Nat
        BY DEF DraftAssumption
      <4> QED
        BY <1>5, <1>6, <4>1 DEF MtpLayers, BufferRows
    <3>2. buffer'[0] = Compacted(buffer[0], indices)
      BY <1>1, <3>1
    <3> HIDE DEF indices
    <3>3. i <= Len(indices)
      BY <1>5, <1>12
    <3> QED
      BY <3>1, <3>2, <3>3 DEF Compacted
  <2>6. OwnSelection(rowsOf[i])' =
          [round |-> round, request |-> q, position |-> confirmed[q] + accept[q]]
    <3>1. rowsOf'[i] = [request |-> q, position |-> confirmed[q] + accept[q] + 1]
      BY <1>1, <1>10
    <3>2. rowsOf'[i].position - stepIdx' = confirmed[q] + accept[q]
      BY <1>1, <1>8, <2>1, <3>1
    <3>3. rowsOf'[i].request = q /\ round' = round
      BY <1>1, <3>1
    <3> QED
      BY <3>2, <3>3 DEF OwnSelection
  <2> HIDE DEF RowOf, indices, q
  <2> QED
    BY <2>3, <2>4, <2>5, <2>6
<1>14. skipTopk'[0] = (stepIdx' > 0) /\ DOMAIN buffer' = MtpLayers
  <2>1. skipTopk'[0] = TRUE
    BY <1>1 DEF SkipOnLater, MtpLayers
  <2>2. stepIdx' > 0
    BY <1>1
  <2>3. DOMAIN buffer' = MtpLayers
    BY <1>1
  <2> QED
    BY <2>1, <2>2, <2>3
<1>15. RowsAttendOwnSelection'
  BY <1>1 DEF RowsAttendOwnSelection
<1>16. stepIdx' \in 0 .. LastStep
  BY <1>1 DEF DraftAssumption
<1>17. round' \in Nat
  BY <1>1 DEF DraftInv
<1> QED
  BY <1>1, <1>6, <1>9, <1>11, <1>13, <1>14, <1>15, <1>16, <1>17 DEF DraftInv
LEMMA NextDraftInv ==
    ASSUME DraftAssumption, NumMtpLayers = 1, DraftInv, NextDraft
    PROVE  DraftInv'
<1> DEFINE n == Len(rowsOf)
<1>1. /\ ran /\ stepIdx \in 1 .. LastStep - 1 /\ stepIdx \in Nat /\ stepIdx' = stepIdx + 1
      /\ rowsOf' = [i \in DOMAIN rowsOf |-> [rowsOf[i] EXCEPT !.position = @ + 1]]
      /\ ran' = FALSE /\ UNCHANGED <<round, confirmed, buffer, skipTopk, attended>>
  BY DEF NextDraft, DraftInv
<1>2. n \in Nat /\ DOMAIN rowsOf = 1 .. n /\ \A i \in 1 .. n : rowsOf[i] \in DraftRows
  BY LenProperties DEF DraftInv
<1>3. \A i \in 1 .. n :
        /\ rowsOf'[i] \in DraftRows
        /\ rowsOf'[i].request = rowsOf[i].request /\ rowsOf'[i].position = rowsOf[i].position + 1
  BY <1>1, <1>2 DEF DraftRows
<1>4. rowsOf' \in Seq(DraftRows) /\ Len(rowsOf') = n
  <2>1. rowsOf' \in [1 .. n -> DraftRows]
    BY <1>1, <1>2, <1>3
  <2> HIDE DEF n
  <2> QED
    BY <1>2, <2>1, ListIsSeq
<1>5. \A i \in 1 .. n : buffer'[0][i] = OwnSelection(rowsOf[i])'
  <2> SUFFICES ASSUME NEW i \in 1 .. n PROVE buffer'[0][i] = OwnSelection(rowsOf[i])'
    OBVIOUS
  <2>1. buffer[0][i] = OwnSelection(rowsOf[i])
    BY <1>1 DEF DraftInv
  <2>2. rowsOf'[i].position - stepIdx' = rowsOf[i].position - stepIdx
    BY <1>1, <1>2, <1>3 DEF DraftRows
  <2> QED
    BY <1>1, <1>3, <2>1, <2>2 DEF OwnSelection
<1>6. skipTopk'[0] = (stepIdx' > 0)
  <2>1. skipTopk[0] = (stepIdx > 0)
    BY <1>1 DEF DraftInv, DraftAssumption
  <2>2. stepIdx > 0 /\ stepIdx' > 0
    BY <1>1
  <2> QED
    BY <1>1, <2>1, <2>2
<1>7. stepIdx' \in 0 .. LastStep
  BY <1>1 DEF DraftAssumption
<1>8. RowsAttendOwnSelection'
  BY <1>1 DEF RowsAttendOwnSelection
<1> QED
  BY <1>1, <1>4, <1>5, <1>6, <1>7, <1>8 DEF DraftInv

LEMMA DraftInvHolds ==
    ASSUME NumMtpLayers = 1
    PROVE  DraftSpec => []DraftInv
<1> USE DraftAssumption
<1>1. DraftInit => DraftInv
  <2> SUFFICES ASSUME DraftInit PROVE DraftInv
    OBVIOUS
  <2>1. /\ round = 0 /\ stepIdx = LastStep /\ ran = TRUE /\ rowsOf = << >> /\ attended = << >>
        /\ confirmed = [q \in Requests |-> 0] /\ DOMAIN buffer = MtpLayers
    BY DEF DraftInit
  <2>2. rowsOf \in Seq(DraftRows) /\ Len(rowsOf) = 0
    BY <2>1
  <2>3. 0 <= MaxRowsOf * NumDraftReqs
    BY DEF DraftAssumption
  <2>4. RowsAttendOwnSelection
    BY <2>1 DEF RowsAttendOwnSelection
  <2>5. stepIdx \in 0 .. LastStep /\ ~ (stepIdx < LastStep)
    BY <2>1 DEF DraftAssumption
  <2>6. confirmed \in [Requests -> Nat]
    BY <2>1
  <2> QED
    BY <2>1, <2>2, <2>3, <2>4, <2>5, <2>6 DEF DraftInv
<1>2. DraftInv /\ [DraftNext]_draftVars => DraftInv'
  <2> SUFFICES ASSUME DraftInv, [DraftNext]_draftVars PROVE DraftInv'
    OBVIOUS
  <2>1. ASSUME NEW n \in [Requests -> 0 .. MaxRowsOf], BeginRound(n) PROVE DraftInv'
    <3>1. /\ round' = round + 1 /\ stepIdx' = 0 /\ ran' = FALSE /\ rowsOf' = TargetRows(n)
          /\ skipTopk' = [m \in MtpLayers |-> FALSE]
          /\ UNCHANGED <<confirmed, buffer, attended>>
      BY <2>1 DEF BeginRound
    <3>2. rowsOf' \in Seq(DraftRows) /\ Len(rowsOf') <= MaxRowsOf * NumDraftReqs
      BY <3>1, TargetRowsListed DEF DraftInv
    <3>3. skipTopk'[0] = (stepIdx' > 0)
      <4>1. skipTopk'[0] = FALSE
        BY <3>1 DEF MtpLayers
      <4>2. (stepIdx' > 0) = FALSE
        BY <3>1
      <4> QED
        BY <4>1, <4>2, Zenon
    <3>4. RowsAttendOwnSelection'
      BY <3>1 DEF RowsAttendOwnSelection
    <3>5. stepIdx' \in 0 .. LastStep /\ round' \in Nat
      BY <3>1 DEF DraftAssumption, DraftInv
    <3>6. ~ (ran' = TRUE \/ stepIdx' > 0) /\ ran' \in BOOLEAN
      <4>1. ran' = FALSE
        BY <3>1
      <4>2. ~ (stepIdx' > 0)
        BY <3>1
      <4> QED
        BY <4>1, <4>2, Zenon
    <3> QED
      BY <3>1, <3>2, <3>3, <3>4, <3>5, <3>6 DEF DraftInv
  <2>2. ASSUME NEW accept \in [Requests -> 1 .. MaxRowsOf], AcceptTarget(accept) PROVE DraftInv'
    BY <2>2, AcceptTargetInv
  <2>3. CASE RunQsa
    BY <2>3, RunQsaInv
  <2>4. CASE NextDraft
    BY <2>4, NextDraftInv
  <2>5. CASE ProfileQsa
    <3>1. /\ ran /\ stepIdx = LastStep /\ attended' = << >> /\ rowsOf' = << >>
          /\ UNCHANGED <<round, confirmed, stepIdx, ran, buffer, skipTopk>>
      BY <2>5 DEF ProfileQsa
    <3>2. rowsOf' \in Seq(DraftRows) /\ Len(rowsOf') = 0
      BY <3>1
    <3>3. 0 <= MaxRowsOf * NumDraftReqs
      BY DEF DraftAssumption
    <3>4. RowsAttendOwnSelection'
      BY <3>1 DEF RowsAttendOwnSelection
    <3>5. ran' # FALSE /\ ~ (stepIdx' < LastStep)
      BY <3>1 DEF DraftAssumption
    <3> QED
      BY <3>1, <3>2, <3>3, <3>4, <3>5 DEF DraftInv
  <2>6. CASE UNCHANGED draftVars
    BY <2>6 DEF draftVars, DraftInv, OwnSelection, RowsAttendOwnSelection
  <2> QED
    BY <2>1, <2>2, <2>3, <2>4, <2>5, <2>6 DEF DraftNext
<1> QED
  BY <1>1, <1>2, PTL DEF DraftSpec

\* With a draft head of one layer, as this model has, a row of any step attends what was
\* selected in its own round for its own request at the last accepted position, whatever
\* the numbers of requests, rows and steps (mtp_draft_vocab.py:265-278, qsa.py:618-645):
\* RowsAttendOwnSelection.
THEOREM DraftsAttendTheirOwn ==
    ASSUME NumMtpLayers = 1
    PROVE  DraftSpec => []RowsAttendOwnSelection
<1>1. DraftInv => RowsAttendOwnSelection
  BY DEF DraftInv
<1> QED
  BY <1>1, DraftInvHolds, PTL

-----------------------------------------------------------------------------
\* Rank k and no other owns token v.
OwnedBy(v, vocab, ranks, k) == \A h \in 0 .. ranks - 1 :
    IsOwn(v, ShardStart(vocab, ranks, h), ShardEnd(vocab, ranks, h)) <=> h = k

\* Every token of the vocabulary has one owner, the padding notwithstanding.
LEMMA EachHasAnOwner ==
    ASSUME DraftVocabAssumption, NEW vocab \in Nat \ {0}, NEW ranks \in Nat \ {0},
           NEW v \in 0 .. vocab - 1
    PROVE  /\ \E k \in 0 .. ranks - 1 : OwnedBy(v, vocab, ranks, k)
           /\ \A h \in Nat : ShardStart(vocab, ranks, h) \in Int
<1> DEFINE unit == PadTo * ranks
           q == (vocab + unit - 1) \div unit
           share == (q * unit) \div ranks
<1>1. PadTo \in Nat \ {0} /\ unit \in Nat \ {0}
  BY DEF DraftVocabAssumption
<1>2. q \in Nat /\ q * unit \in Nat /\ vocab <= q * unit
  <2> HIDE DEF unit
  <2> QED
    BY <1>1, RoundedUp
<1>3. share \in Nat \ {0} /\ vocab <= ranks * share
  <2> HIDE DEF q
  <2> DEFINE each == q * PadTo
  <2>1. each \in Nat /\ q * unit = each * ranks
    BY <1>1, <1>2
  <2> HIDE DEF each, unit
  <2>2. share = each
    BY <2>1, Multiple
  <2>3. ranks * share = q * unit
    BY <2>1, <2>2
  <2>4. share # 0
    <3>1. ranks * 0 = 0
      OBVIOUS
    <3> QED
      BY <1>2, <2>3, <3>1
  <2> QED
    BY <1>2, <2>1, <2>2, <2>3, <2>4
<1>4. \A h \in Nat : ShardStart(vocab, ranks, h) = Min({h * share, vocab})
  BY DEF ShardStart
<1> HIDE DEF share
<1>5. ASSUME NEW h \in Nat
      PROVE  /\ ShardStart(vocab, ranks, h) = (IF h * share <= vocab THEN h * share ELSE vocab)
             /\ h * share \in Nat
  <2> DEFINE p == h * share
  <2>1. p \in Nat
    BY <1>3
  <2>2. ShardStart(vocab, ranks, h) = Min({p, vocab})
    BY <1>4
  <2> HIDE DEF p, unit, q
  <2>3. p \in Int /\ vocab \in Int
    BY <2>1
  <2>4. Min({p, vocab}) = (IF p <= vocab THEN p ELSE vocab)
    BY <2>3, MinOfTwo
  <2> QED
    BY <2>1, <2>2, <2>4 DEF p
<1>6. ASSUME NEW h \in 0 .. ranks - 1
      PROVE  IsOwn(v, ShardStart(vocab, ranks, h), ShardEnd(vocab, ranks, h))
             <=> h * share <= v /\ v < h * share + share
  <2>1. h \in Nat /\ h + 1 \in Nat /\ (h + 1) * share = h * share + share
    BY <1>3
  <2>2. ShardStart(vocab, ranks, h) = (IF h * share <= vocab THEN h * share ELSE vocab)
        /\ h * share \in Nat
    BY <1>5, <2>1
  <2>3. ShardEnd(vocab, ranks, h)
        = (IF h * share + share <= vocab THEN h * share + share ELSE vocab)
    BY <1>5, <2>1 DEF ShardEnd
  <2> QED
    BY <1>3, <2>2, <2>3 DEF IsOwn
<1>7. v \in Nat /\ v < ranks * share
  <2>1. ranks * share \in Int
    BY <1>3
  <2> QED
    BY <1>3, <2>1
<1>8. /\ v \div share \in 0 .. ranks - 1
      /\ (v \div share) * share <= v /\ v < (v \div share) * share + share
      /\ \A k \in Int : k * share <= v /\ v < k * share + share => k = v \div share
  BY <1>3, <1>7, InOneSlice
<1>9. OwnedBy(v, vocab, ranks, v \div share)
  <2> SUFFICES ASSUME NEW h \in 0 .. ranks - 1
               PROVE  IsOwn(v, ShardStart(vocab, ranks, h), ShardEnd(vocab, ranks, h))
                      <=> h = v \div share
    BY DEF OwnedBy
  <2>1. h \in Int
    OBVIOUS
  <2> QED
    BY <1>6, <1>8, <2>1
<1>10. \A h \in Nat : ShardStart(vocab, ranks, h) \in Int
  BY <1>5
<1> QED
  BY <1>8, <1>9, <1>10

\* What a rank computes: the logits of its own ids, each at its place, and zeros.
LEMMA SmallLogitIs ==
    ASSUME NEW vocab \in Nat \ {0}, NEW ranks, NEW k,
           ShardStart(vocab, ranks, k) \in Int,
           NEW m \in Nat, NEW ids \in [1 .. m -> 0 .. vocab - 1], NEW j \in 1 .. m
    PROVE  SmallLogits(ids, vocab, ranks, k)[j] =
             IF IsOwn(ids[j], ShardStart(vocab, ranks, k), ShardEnd(vocab, ranks, k))
             THEN Logit(ids[j]) ELSE 0
<1> DEFINE start == ShardStart(vocab, ranks, k)
           end == ShardEnd(vocab, ranks, k)
           own == {i \in 1 .. m : IsOwn(ids[i], start, end)}
           positions == Ascending(own)
           weight == [i \in DOMAIN positions |-> start + (ids[positions[i]] - start)]
           c == Cardinality(own)
           at == CHOOSE p \in DOMAIN positions : positions[p] = j
<1>1. DOMAIN ids = 1 .. m /\ ids[j] \in 0 .. vocab - 1
  OBVIOUS
<1>2. SmallLogits(ids, vocab, ranks, k)[j] =
        IF \E p \in DOMAIN positions : positions[p] = j THEN Logit(weight[at]) ELSE 0
  BY <1>1 DEF SmallLogits
<1>3. own \in SUBSET Int /\ IsFiniteSet(own)
  <2>1. IsFiniteSet(1 .. m) /\ own \subseteq 1 .. m
    BY FS_Interval
  <2>2. own \in SUBSET Int
    OBVIOUS
  <2> HIDE DEF own
  <2>3. IsFiniteSet(own)
    BY <2>1, FS_Subset
  <2> QED
    BY <2>2, <2>3
<1>4. j \in own <=> IsOwn(ids[j], start, end)
  OBVIOUS
<1> HIDE DEF own
<1>5. positions \in [1 .. c -> own] /\ Range(positions) = own
  BY <1>3, AscendingNames
<1> HIDE DEF positions, c
<1>6. CASE j \in own
  <2>1. \E p \in DOMAIN positions : positions[p] = j
    BY <1>5, <1>6 DEF Range
  <2>2. at \in DOMAIN positions /\ positions[at] = j
    BY <2>1
  <2> HIDE DEF at
  <2>3. weight[at] = start + (ids[j] - start)
    BY <2>2
  <2>4. start + (ids[j] - start) = ids[j]
    <3> DEFINE x == ids[j]
    <3>1. x \in Int /\ start \in Int
      BY <1>1
    <3> HIDE DEF x, start
    <3>2. start + (x - start) = x
      BY <3>1
    <3> QED
      BY <3>2 DEF x
  <2> QED
    BY <1>2, <1>4, <1>6, <2>1, <2>3, <2>4
<1>7. CASE j \notin own
  <2>1. ~\E p \in DOMAIN positions : positions[p] = j
    BY <1>5, <1>7
  <2> QED
    BY <1>2, <1>4, <1>7, <2>1
<1> QED
  BY <1>6, <1>7

\* The sum of the ranks' parts, spread over the vocabulary.
LEMMA LogitsAre ==
    ASSUME DraftVocabAssumption, NEW vocab \in Nat \ {0}, NEW ranks \in Nat \ {0},
           NEW m \in Nat \ {0}, NEW ids \in [1 .. m -> 0 .. vocab - 1]
    PROVE  ComputeLogits(ids, vocab, ranks) =
             [v \in 0 .. vocab - 1 |-> IF v \in Range(ids) THEN Logit(v) ELSE NegInf]
<1> DEFINE parts == [k \in 0 .. ranks - 1 |-> SmallLogits(ids, vocab, ranks, k)]
           column(j) == [k \in 0 .. ranks - 1 |-> parts[k][j]]
           small == [j \in DOMAIN ids |-> SumFunction(column(j))]
<1>1. DOMAIN ids = 1 .. m /\ ids # << >>
  OBVIOUS
<1>2. ComputeLogits(ids, vocab, ranks) = Scattered(ids, small, vocab)
  BY <1>1 DEF ComputeLogits, ReducedVocabLogits
<1>3. ASSUME NEW j \in 1 .. m PROVE SumFunction(column(j)) = Logit(ids[j])
  <2> DEFINE f == column(j)
  <2>1. ids[j] \in 0 .. vocab - 1
    OBVIOUS
  <2>2. PICK k \in 0 .. ranks - 1 : OwnedBy(ids[j], vocab, ranks, k)
    BY <2>1, EachHasAnOwner
  <2>3. \A h \in Nat : ShardStart(vocab, ranks, h) \in Int
    BY <2>1, EachHasAnOwner
  <2>4. ASSUME NEW h \in 0 .. ranks - 1 PROVE f[h] = IF h = k THEN Logit(ids[j]) ELSE 0
    <3>1. f[h] = SmallLogits(ids, vocab, ranks, h)[j]
      OBVIOUS
    <3>2. ShardStart(vocab, ranks, h) \in Int
      BY <2>3
    <3>3. SmallLogits(ids, vocab, ranks, h)[j] =
            IF IsOwn(ids[j], ShardStart(vocab, ranks, h), ShardEnd(vocab, ranks, h))
            THEN Logit(ids[j]) ELSE 0
      BY <3>2, SmallLogitIs
    <3> HIDE DEF f
    <3> QED
      BY <2>2, <3>1, <3>3 DEF OwnedBy
  <2>5. Logit(ids[j]) \in Nat
    BY <2>1 DEF Logit
  <2>6. DOMAIN f = 0 .. ranks - 1
    OBVIOUS
  <2> HIDE DEF f
  <2>7. SumFunctionOnSet(f, 0 .. ranks - 1) = f[k]
    <3>1. f[k] \in Nat /\ \A y \in 0 .. ranks - 1 : y # k => f[y] = 0
      BY <2>4, <2>5
    <3>2. ranks \in Nat
      OBVIOUS
    <3> QED
      BY <3>1, <3>2, SumOfOne
  <2>8. SumFunction(f) = Logit(ids[j])
    BY <2>4, <2>6, <2>7 DEF SumFunction
  <2> QED
    BY <2>8 DEF f
<1>4. \A j \in 1 .. m : small[j] = Logit(ids[j])
  BY <1>1, <1>3
<1> HIDE DEF small
<1>5. ASSUME NEW v \in 0 .. vocab - 1, v \in Range(ids)
      PROVE  small[CHOOSE j \in DOMAIN ids : ids[j] = v] = Logit(v)
  <2> DEFINE at == CHOOSE j \in DOMAIN ids : ids[j] = v
  <2>1. \E j \in DOMAIN ids : ids[j] = v
    BY <1>5 DEF Range
  <2>2. at \in 1 .. m /\ ids[at] = v
    BY <1>1, <2>1
  <2> HIDE DEF at
  <2>3. small[at] = Logit(v)
    BY <1>4, <2>2
  <2> QED
    BY <2>3 DEF at
<1> QED
  BY <1>2, <1>5 DEF Scattered

\* The ids of a file, sorted and without repetition, pass if they are in the vocabulary.
LEMMA FileChecked ==
    ASSUME NEW vocab \in Nat \ {0}, NEW n \in Nat, NEW lines \in [1 .. n -> -1 .. vocab]
    PROVE  LET S == Range(lines)
               sorted == Ascending(S)
           IN  /\ ValidIds(sorted, vocab) <=> S # {} /\ S \subseteq 0 .. vocab - 1
               /\ Range(sorted) = S
               /\ \E m \in Nat : sorted \in [1 .. m -> S]
<1> DEFINE S == Range(lines)
           sorted == Ascending(S)
           c == Cardinality(S)
<1>1. S \in SUBSET Int /\ IsFiniteSet(S)
  <2>1. S = {lines[i] : i \in 1 .. n}
    BY DEF Range
  <2>2. IsFiniteSet(1 .. n)
    BY FS_Interval
  <2>3. IsFiniteSet({lines[i] : i \in 1 .. n})
    <3> DEFINE I == 1 .. n
    <3> HIDE DEF I
    <3>1. lines \in [I -> -1 .. vocab] /\ IsFiniteSet(I)
      BY <2>2 DEF I
    <3>2. lines \in Surjection(I, Range(lines))
      BY <3>1 DEF Surjection, Range
    <3>3. IsFiniteSet(Range(lines))
      BY <3>1, <3>2, FS_Surjection
    <3> QED
      BY <2>1, <3>3
  <2>4. \A i \in 1 .. n : lines[i] \in Int
    OBVIOUS
  <2> QED
    BY <2>1, <2>3, <2>4
<1> HIDE DEF S
<1>2. /\ c \in Nat /\ sorted \in [1 .. c -> S] /\ Range(sorted) = S
      /\ \A i, j \in 1 .. c : i < j => sorted[i] < sorted[j]
  BY <1>1, AscendingNames
<1> HIDE DEF sorted, c
<1>3. Len(sorted) = c /\ DOMAIN sorted = 1 .. c
  BY <1>2, ListIsSeq
<1>4. S # {} <=> c # 0
  <2>1. S # {} <=> \E i \in 1 .. c : TRUE
    BY <1>2, <1>3 DEF Range
  <2> QED
    BY <1>2, <2>1
<1>5. c = 0 <=> sorted = << >>
  <2>1. c = 0 => sorted = << >>
    BY <1>2, <1>3
  <2>2. sorted = << >> => c = 0
    BY <1>3
  <2> QED
    BY <2>1, <2>2
<1>6. ASSUME c # 0
      PROVE  S \subseteq 0 .. vocab - 1 <=> sorted[1] >= 0 /\ sorted[c] < vocab
  <2>1. 1 \in 1 .. c /\ c \in 1 .. c
    BY <1>2, <1>6
  <2>2. \A i \in 1 .. c : sorted[i] \in S /\ sorted[i] \in Int
    BY <1>1, <1>2
  <2>3. \A x \in S : \E i \in 1 .. c : sorted[i] = x
    BY <1>2, <1>3 DEF Range
  <2>4. \A i \in 1 .. c : sorted[1] <= sorted[i] /\ sorted[i] <= sorted[c]
    <3> SUFFICES ASSUME NEW i \in 1 .. c PROVE sorted[1] <= sorted[i] /\ sorted[i] <= sorted[c]
      OBVIOUS
    <3>1. (1 < i => sorted[1] < sorted[i]) /\ (i < c => sorted[i] < sorted[c])
      BY <1>2, <2>1
    <3>2. sorted[1] \in Int /\ sorted[i] \in Int /\ sorted[c] \in Int
      BY <2>1, <2>2
    <3>3. (1 < i \/ i = 1) /\ (i < c \/ i = c)
      BY <1>2
    <3> QED
      BY <3>1, <3>2, <3>3
  <2>5. S \subseteq 0 .. vocab - 1 => sorted[1] >= 0 /\ sorted[c] < vocab
    BY <2>1, <2>2
  <2>6. sorted[1] >= 0 /\ sorted[c] < vocab => S \subseteq 0 .. vocab - 1
    <3> SUFFICES ASSUME sorted[1] >= 0, sorted[c] < vocab, NEW x \in S PROVE x \in 0 .. vocab - 1
      OBVIOUS
    <3>1. PICK i \in 1 .. c : sorted[i] = x
      BY <2>3
    <3>2. sorted[1] <= x /\ x <= sorted[c] /\ x \in Int /\ sorted[1] \in Int /\ sorted[c] \in Int
      BY <2>1, <2>2, <2>4, <3>1
    <3> QED
      BY <3>2
  <2> QED
    BY <2>5, <2>6
<1>7. ValidIds(sorted, vocab) <=> S # {} /\ S \subseteq 0 .. vocab - 1
  BY <1>3, <1>4, <1>5, <1>6 DEF ValidIds
<1> QED
  BY <1>2, <1>7 DEF S, sorted

\* The ids and their scores, for each setting.
LEMMA ScoredRight ==
    ASSUME DraftVocabAssumption, NEW vocab \in Nat \ {0}, NEW ranks \in Nat \ {0},
           NEW setting \in Counts(vocab) \cup Files(vocab)
    PROVE  LET d == [vocab |-> vocab, ranks |-> ranks, setting |-> setting]
               got == DraftIds(setting, vocab)
           IN  /\ got.ok <=> Chosen(d) # {} /\ Chosen(d) \subseteq 0 .. vocab - 1
               /\ got.ok => ComputeLogits(got.ids, vocab, ranks)
                            = [v \in 0 .. vocab - 1 |->
                                 IF v \in Chosen(d) THEN Logit(v) ELSE NegInf]
<1> DEFINE d == [vocab |-> vocab, ranks |-> ranks, setting |-> setting]
           got == DraftIds(setting, vocab)
           scored(S) == [v \in 0 .. vocab - 1 |-> IF v \in S THEN Logit(v) ELSE NegInf]
<1>1. d.vocab = vocab /\ d.setting = setting
  OBVIOUS
<1> HIDE DEF d
<1>2. CASE setting \in Counts(vocab)
  <2> DEFINE n == setting.count
  <2>1. setting.kind = "count" /\ n \in 0 .. vocab + 1
    BY <1>2 DEF Counts
  <2> HIDE DEF n
  <2>2. Chosen(d) = IF n = 0 THEN 0 .. vocab - 1 ELSE 0 .. n - 1
    BY <1>1, <2>1 DEF Chosen, n
  <2>3. CASE n = 0
    <3>1. got = [ok |-> TRUE, ids |-> << >>]
      BY <2>1, <2>3 DEF DraftIds, n
    <3>2. 0 \in 0 .. vocab - 1 /\ Chosen(d) = 0 .. vocab - 1
      BY <2>2, <2>3
    <3>3. ComputeLogits(got.ids, vocab, ranks) = [v \in 0 .. vocab - 1 |-> Logit(v)]
      BY <3>1 DEF ComputeLogits
    <3>4. scored(Chosen(d)) = [v \in 0 .. vocab - 1 |-> Logit(v)]
      BY <3>2
    <3> HIDE DEF scored
    <3>5. Chosen(d) # {} /\ Chosen(d) \subseteq 0 .. vocab - 1
      BY <3>2
    <3> QED
      BY <3>1, <3>3, <3>4, <3>5 DEF d, scored, got
  <2>4. CASE n > vocab
    <3>1. got = DraftRaised
      BY <2>1, <2>4 DEF DraftIds, n
    <3>2. vocab \in Chosen(d)
      BY <2>1, <2>2, <2>4
    <3>3. vocab \notin 0 .. vocab - 1
      OBVIOUS
    <3>4. ~got.ok
      BY <3>1 DEF DraftRaised
    <3> QED
      BY <3>2, <3>3, <3>4 DEF d, got
  <2>5. CASE n # 0 /\ ~(n > vocab)
    <3> DEFINE ids == [i \in 1 .. n |-> i - 1]
    <3>1. got = [ok |-> TRUE, ids |-> ids]
      BY <2>1, <2>5 DEF DraftIds, n
    <3>2. n \in Nat \ {0} /\ Chosen(d) = 0 .. n - 1 /\ 0 \in Chosen(d)
          /\ Chosen(d) \subseteq 0 .. vocab - 1
      BY <2>1, <2>2, <2>5
    <3>3. ids \in [1 .. n -> 0 .. vocab - 1]
      BY <2>1, <2>5
    <3>4. Range(ids) = 0 .. n - 1
      <4>1. \A x \in 0 .. n - 1 : x + 1 \in 1 .. n /\ ids[x + 1] = x
        BY <3>2
      <4>2. \A i \in 1 .. n : ids[i] \in 0 .. n - 1
        BY <3>2
      <4> HIDE DEF ids
      <4>3. DOMAIN ids = 1 .. n
        BY <3>3
      <4> QED
        BY <4>1, <4>2, <4>3 DEF Range
    <3> HIDE DEF ids
    <3>5. ComputeLogits(ids, vocab, ranks) = scored(Range(ids))
      BY <3>2, <3>3, LogitsAre
    <3> HIDE DEF scored
    <3>6. got.ok /\ got.ids = ids
      BY <3>1
    <3> QED
      BY <3>2, <3>4, <3>5, <3>6 DEF d, got, scored
  <2> QED
    BY <2>3, <2>4, <2>5
<1>3. CASE setting \in Files(vocab)
  <2> DEFINE lines == setting.lines
             S == Range(lines)
             sorted == Ascending(S)
  <2>1. PICK n \in 0 .. MaxLines :
          setting.kind = "file" /\ lines \in [1 .. n -> -1 .. vocab]
    BY <1>3 DEF Files
  <2>2. n \in Nat
    BY <2>1 DEF DraftVocabAssumption
  <2>3. Chosen(d) = S
    BY <1>1, <2>1 DEF Chosen
  <2>4. got = IF ValidIds(sorted, vocab) THEN [ok |-> TRUE, ids |-> sorted] ELSE DraftRaised
    BY <2>1 DEF DraftIds
  <2> HIDE DEF lines
  <2>5. /\ ValidIds(sorted, vocab) <=> S # {} /\ S \subseteq 0 .. vocab - 1
        /\ Range(sorted) = S
        /\ \E m \in Nat : sorted \in [1 .. m -> S]
    BY <2>1, <2>2, FileChecked
  <2> HIDE DEF sorted, S, got
  <2>6. got.ok <=> ValidIds(sorted, vocab)
    BY <2>4 DEF DraftRaised
  <2>7. ASSUME ValidIds(sorted, vocab)
        PROVE  ComputeLogits(got.ids, vocab, ranks) = scored(S)
    <3>1. PICK m \in Nat : sorted \in [1 .. m -> S]
      BY <2>5
    <3>2. m # 0
      <4>1. m = 0 => Range(sorted) = {}
        BY <3>1 DEF Range
      <4> QED
        BY <2>5, <2>7, <4>1
    <3>3. sorted \in [1 .. m -> 0 .. vocab - 1]
      BY <2>5, <2>7, <3>1
    <3>4. ComputeLogits(sorted, vocab, ranks) = scored(Range(sorted))
      BY <3>1, <3>2, <3>3, LogitsAre
    <3> HIDE DEF scored
    <3> QED
      BY <2>4, <2>5, <2>7, <3>4
  <2> HIDE DEF scored
  <2> QED
    BY <2>3, <2>5, <2>6, <2>7 DEF d, got, scored
<1> QED
  BY <1>2, <1>3

\* Nothing is set up, or a draft head with one of the settings.
VocabInv == drafting = NotDrafting \/
    \E vocab \in VocabSizes, ranks \in DraftRanks :
        \E setting \in Counts(vocab) \cup Files(vocab) :
            drafting = [vocab |-> vocab, ranks |-> ranks, setting |-> setting]

\* For every vocabulary, number of ranks, padding and setting, the draft head scores the
\* chosen tokens as the full head does and no other, and refuses a choice that is empty or
\* reaches outside the vocabulary (mtp_draft_vocab.py:370-388, 473-528): DraftScoresChosen.
THEOREM ChosenStayScored == VocabSpec => []DraftScoresChosen
<1> USE DraftVocabAssumption
<1>1. VocabInit => VocabInv
  BY DEF VocabInit, VocabInv
<1>2. VocabInv /\ [VocabNext]_drafting => VocabInv'
  <2> SUFFICES ASSUME VocabInv, [VocabNext]_drafting PROVE VocabInv'
    OBVIOUS
  <2>1. ASSUME NEW vocab \in VocabSizes, NEW ranks \in DraftRanks,
               NEW setting \in Counts(vocab) \cup Files(vocab), Configure(vocab, ranks, setting)
        PROVE  VocabInv'
    BY <2>1 DEF Configure, VocabInv
  <2>2. CASE UNCHANGED drafting
    BY <2>2 DEF VocabInv
  <2> QED
    BY <2>1, <2>2 DEF VocabNext
<1>3. VocabInv => DraftScoresChosen
  <2> SUFFICES ASSUME VocabInv, drafting # NotDrafting PROVE DraftScoresChosen
    BY DEF DraftScoresChosen
  <2>1. PICK vocab \in VocabSizes, ranks \in DraftRanks :
          \E setting \in Counts(vocab) \cup Files(vocab) :
            drafting = [vocab |-> vocab, ranks |-> ranks, setting |-> setting]
    BY DEF VocabInv
  <2>2. PICK setting \in Counts(vocab) \cup Files(vocab) :
          drafting = [vocab |-> vocab, ranks |-> ranks, setting |-> setting]
    BY <2>1
  <2>3. vocab \in Nat \ {0} /\ ranks \in Nat \ {0}
    BY DEF DraftVocabAssumption
  <2>4. drafting.vocab = vocab /\ drafting.ranks = ranks /\ drafting.setting = setting
    BY <2>2
  <2>5. /\ DraftIds(setting, vocab).ok
           <=> Chosen(drafting) # {} /\ Chosen(drafting) \subseteq 0 .. vocab - 1
        /\ DraftIds(setting, vocab).ok
           => ComputeLogits(DraftIds(setting, vocab).ids, vocab, ranks)
              = [v \in 0 .. vocab - 1 |-> IF v \in Chosen(drafting) THEN Logit(v) ELSE NegInf]
    BY <2>2, <2>3, ScoredRight
  <2> QED
    BY <2>4, <2>5 DEF DraftScoresChosen
<1> QED
  BY <1>1, <1>2, <1>3, PTL DEF VocabSpec
=============================================================================

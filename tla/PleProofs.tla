----------------------------- MODULE PleProofs -----------------------------
(***************************************************************************)
(* The per-layer embeddings.                                               *)
(*                                                                         *)
(* PleStaging for any number of tokens and steps, any chunk and any buffer:*)
(* the pinned buffer is left alone while a copy out of it is pending, and  *)
(* the staging of rows implements StepInputs; some part of it can always   *)
(* go on, and what is left to do runs out.                                 *)
(*                                                                         *)
(* HashLayout for any width, vocabulary, multiplier and number of heads:   *)
(* products stay within the width, and ids within the rows of their head;  *)
(* where the test of primes is right, the sizes are consecutive primes.    *)
(*                                                                         *)
(* NgramIds for any number of requests and any tokens: a batch carries the *)
(* histories of its requests, and every row's ids are those of its text.   *)
(*                                                                         *)
(* PleTable for any table, shards, chunks and ranks: a lookup returns its  *)
(* rows, or raises when the files lack one of them.                        *)
(***************************************************************************)
EXTENDS PleStaging, HashLayout, NgramIds, PleTable, NatLemmas, SequenceTheorems, TLAPS

Ops == [op : {"copy", "zero", "forward"}, step : 0 .. MaxSteps,
        from : Nat, to : 0 .. MaxTokens]

\* The operation e writes row i of the staging buffer; what it leaves there.
Writes(e, i) == (e.op = "copy" /\ i <= e.to) \/ (e.op = "zero" /\ i \in e.from .. e.to)
Left(e) == IF e.op = "copy" THEN e.step ELSE 0

\* Row i of the staging buffer stg is v when operation j of the stream str executes:
\* the last operation before j that writes the row leaves v, or none does and v is there.
Arrives(str, stg, i, j, v) ==
    \/ \E k \in 1 .. j - 1 :
         /\ Writes(str[k], i) /\ Left(str[k]) = v
         /\ \A m \in k + 1 .. j - 1 : ~Writes(str[m], i)
    \/ stg[i] = v /\ \A k \in 1 .. j - 1 : ~Writes(str[k], i)

\* Operation j finds the rows of step s: n of tokens, and zeros up to p.
Finds(str, stg, j, s, n, p) ==
    \A i \in 1 .. p : Arrives(str, stg, i, j, IF i <= n THEN s ELSE 0)

IsForward(j) == stream[j].op = "forward"

\* Between the gather of a step and the launch of its pass the device has nothing else.
GatherAlone ==
    /\ reads # {} => host \in {"gather", "failed"}
    /\ host \in {"gather", "failed"} => stream = << >>

\* A row of the step is in the pinned buffer, or its task still runs.
RowsOnTheWay ==
    host = "gather" /\ path # "placeholder" =>
        \A i \in 1 .. batch.tokens :
            /\ i \in DOMAIN pinned
            /\ pinned[i] = step \/ \E r \in reads : i \in r .. r + ChunkRows - 1

\* The batch in preparation.
BatchFits ==
    host \in {"ids", "gather", "launch"} =>
        /\ batch.padded \in 1 .. MaxTokens /\ batch.tokens <= batch.padded
        /\ step \in 1 .. MaxSteps /\ out.step < step

\* Passes are enqueued in the order of their steps, each after the rows it reads.
PassesInOrder ==
    /\ out.step \in 0 .. step
    /\ \A j \in DOMAIN stream : IsForward(j) =>
         /\ out.step < stream[j].step /\ stream[j].step <= step
         /\ host # "idle" => stream[j].step < step
         /\ \A k \in DOMAIN stream : k < j /\ IsForward(k) => stream[k].step < stream[j].step

PassesFindRows ==
    /\ \A j \in DOMAIN stream : IsForward(j) =>
         /\ stream[j].to \in 1 .. MaxTokens
         /\ \E n \in 0 .. stream[j].to : Finds(stream, staging, j, stream[j].step, n, stream[j].to)
    /\ host = "launch" => Finds(stream, staging, Len(stream) + 1, step, batch.tokens, batch.padded)

StagingInv ==
    /\ StagingTypeOK /\ GatherAlone /\ RowsOnTheWay /\ CopiesOwnRows
    /\ BatchFits /\ PassesInOrder /\ PassesFindRows

-----------------------------------------------------------------------------
\* One of two is the larger.
LEMMA LargerOfTwo ==
    ASSUME NEW a \in Int, NEW b \in Int
    PROVE  Max({a, b}) \in {a, b} /\ Max({a, b}) >= b
<1> DEFINE P(x) == \A y \in {a, b} : x >= y
<1>1. \E x \in {a, b} : P(x)
  <2>1. CASE a >= b
    BY <2>1
  <2>2. CASE b >= a
    BY <2>2
  <2> QED
    BY <2>1, <2>2
<1>2. Max({a, b}) = CHOOSE x \in {a, b} : P(x)
  BY DEF Max
<1>3. Max({a, b}) \in {a, b} /\ P(Max({a, b}))
  BY <1>1, <1>2
<1> QED
  BY <1>3

\* The buffer in use has room for the rows of the step.
LEMMA GrownHasRoom ==
    ASSUME StagingAssumption, StagingTypeOK, NEW n \in Nat
    PROVE  Grown(n) \in Seq(Int) /\ n <= Len(Grown(n))
<1>1. CASE Len(pinned) >= n
  BY <1>1 DEF Grown, StagingTypeOK
<1>2. CASE ~(Len(pinned) >= n)
  <2> DEFINE room == IF path = "placeholder" THEN n + n \div 2 ELSE n
  <2>1. room \in Nat /\ room >= n /\ MinCapacity \in Nat
    BY DEF StagingAssumption
  <2> HIDE DEF room
  <2>2. Max({MinCapacity, room}) \in {MinCapacity, room} /\ Max({MinCapacity, room}) >= room
    BY <2>1, LargerOfTwo
  <2>3. Capacity(n) = Max({MinCapacity, room})
    BY DEF Capacity, room
  <2>4. Capacity(n) \in Nat /\ Capacity(n) >= n
    BY <2>1, <2>2, <2>3
  <2>5. Grown(n) = [i \in 1 .. Capacity(n) |-> Junk]
    BY <1>2 DEF Grown
  <2> QED
    BY <2>4, <2>5 DEF Junk
<1> QED
  BY <1>1, <1>2

\* A multiple leaves no remainder.
LEMMA MultipleDivides ==
    ASSUME NEW C \in Nat \ {0}, NEW q \in Nat
    PROVE  (C * q) % C = 0
<1> DEFINE a == C * q
           p == a \div C
           m == a % C
<1>1. a \in Nat
  BY SMT
<1>2. p \in Nat /\ m \in 0 .. C - 1 /\ a = C * p + m
  BY <1>1, SMT
<1>3. C * q = C * p + m
  BY <1>2
<1> HIDE DEF a, p, m
<1>4. ASSUME NEW d \in Nat, q = p + 1 + d PROVE FALSE
  <2>1. C * q = C * p + C + C * d /\ C * d \in Nat /\ C * p \in Nat
    BY <1>2, <1>4, SMT
  <2> QED
    BY <1>2, <1>3, <2>1, SMT
<1>5. ASSUME NEW d \in Nat, p = q + 1 + d PROVE FALSE
  <2>1. C * p = C * q + C + C * d /\ C * d \in Nat /\ C * q \in Nat
    BY <1>2, <1>5, SMT
  <2> QED
    BY <1>2, <1>3, <2>1, SMT
<1>6. q = p
  <2>1. CASE q > p
    <3>1. q - p - 1 \in Nat /\ q = p + 1 + (q - p - 1)
      BY <1>2, <2>1
    <3> QED
      BY <1>4, <3>1
  <2>2. CASE p > q
    <3>1. p - q - 1 \in Nat /\ p = q + 1 + (p - q - 1)
      BY <1>2, <2>2
    <3> QED
      BY <1>5, <3>1
  <2> QED
    BY <1>2, <2>1, <2>2
<1>7. C * p \in Nat
  BY <1>2, SMT
<1>8. m = 0
  BY <1>2, <1>3, <1>6, <1>7, SMT
<1> QED
  BY <1>8 DEF m, a

\* The tasks of a gather cover its rows.
LEMMA TasksCover ==
    ASSUME StagingAssumption, NEW n \in Nat, NEW i \in 1 .. n
    PROVE  \E r \in Tasks(n) : i \in r .. r + ChunkRows - 1
<1> DEFINE C == ChunkRows
           q == (i - 1) \div C
           m == (i - 1) % C
           r == C * q + 1
<1>1. /\ C \in Nat \ {0} /\ i - 1 \in Nat
  BY DEF StagingAssumption
<1>2. q \in Nat /\ m \in 0 .. C - 1 /\ i - 1 = C * q + m
  BY <1>1, SMT
<1>3. (C * q) % C = 0
  BY <1>1, <1>2, MultipleDivides
<1>4. C * q \in Nat
  BY <1>1, <1>2, SMT
<1> HIDE DEF C, q, m
<1>5. r \in 1 .. n /\ (r - 1) % C = 0 /\ i \in r .. r + C - 1
  BY <1>1, <1>2, <1>3, <1>4, SMT
<1> QED
  BY <1>5 DEF Tasks, C

-----------------------------------------------------------------------------
LEMMA OpsHaveSteps ==
    ASSUME StagingAssumption, StagingTypeOK
    PROVE  /\ stream \in Seq(Ops) /\ Len(stream) \in Nat /\ DOMAIN stream = 1 .. Len(stream)
           /\ \A j \in DOMAIN stream :
                stream[j] \in Ops /\ stream[j].step \in Nat /\ stream[j].step <= MaxSteps
<1>1. stream \in Seq(Ops)
  BY DEF StagingTypeOK, Ops
<1>2. ASSUME NEW j \in DOMAIN stream
      PROVE  stream[j] \in Ops /\ stream[j].step \in Nat /\ stream[j].step <= MaxSteps
  <2>1. stream[j] \in Ops
    BY <1>1
  <2>2. stream[j].step \in 0 .. MaxSteps /\ MaxSteps \in Nat
    BY <2>1 DEF Ops, StagingAssumption
  <2> QED
    BY <2>1, <2>2
<1> QED
  BY <1>1, <1>2

\* What is enqueued comes after what was there.
LEMMA Enqueued ==
    ASSUME NEW str \in Seq(Ops), NEW ops \in Seq(Ops)
    PROVE  /\ str \o ops \in Seq(Ops) /\ Len(str \o ops) = Len(str) + Len(ops)
           /\ \A j \in 1 .. Len(str) : (str \o ops)[j] = str[j]
           /\ \A j \in 1 .. Len(ops) : (str \o ops)[Len(str) + j] = ops[j]
OBVIOUS

\* Operations enqueued later change nothing for those before them.
LEMMA EnqueueKeeps ==
    ASSUME NEW str \in Seq(Ops), NEW ops \in Seq(Ops), NEW stg, NEW i, NEW v,
           NEW j \in 1 .. Len(str) + 1, Arrives(str, stg, i, j, v)
    PROVE  Arrives(str \o ops, stg, i, j, v)
<1>1. \A k \in 1 .. j - 1 : (str \o ops)[k] = str[k]
  BY Enqueued
<1>2. CASE stg[i] = v /\ \A k \in 1 .. j - 1 : ~Writes(str[k], i)
  BY <1>1, <1>2 DEF Arrives
<1>3. CASE \E k \in 1 .. j - 1 :
             /\ Writes(str[k], i) /\ Left(str[k]) = v
             /\ \A m \in k + 1 .. j - 1 : ~Writes(str[m], i)
  <2>1. PICK k \in 1 .. j - 1 :
             /\ Writes(str[k], i) /\ Left(str[k]) = v
             /\ \A m \in k + 1 .. j - 1 : ~Writes(str[m], i)
    BY <1>3
  <2>2. \A m \in k + 1 .. j - 1 : (str \o ops)[m] = str[m]
    BY <1>1
  <2> QED
    BY <1>1, <2>1, <2>2 DEF Arrives
<1> QED
  BY <1>2, <1>3 DEF Arrives

\* The oldest operation takes its effect with it into the staging buffer.
LEMMA ExecuteKeeps ==
    ASSUME NEW str \in Seq(Ops), str # << >>, NEW stg, NEW new, NEW i, NEW v,
           NEW j \in 2 .. Len(str) + 1, Arrives(str, stg, i, j, v),
           new[i] = IF Writes(Head(str), i) THEN Left(Head(str)) ELSE stg[i]
    PROVE  Arrives(Tail(str), new, i, j - 1, v)
<1>1. /\ Head(str) = str[1] /\ Len(str) \in Nat
      /\ \A k \in 1 .. j - 2 : Tail(str)[k] = str[k + 1]
  OBVIOUS
<1>2. CASE stg[i] = v /\ \A k \in 1 .. j - 1 : ~Writes(str[k], i)
  <2>1. new[i] = v
    BY <1>1, <1>2
  <2>2. \A k \in 1 .. j - 2 : ~Writes(Tail(str)[k], i)
    BY <1>1, <1>2
  <2> QED
    BY <2>1, <2>2 DEF Arrives
<1>3. ASSUME NEW k \in 1 .. j - 1, Writes(str[k], i), Left(str[k]) = v,
             \A m \in k + 1 .. j - 1 : ~Writes(str[m], i)
      PROVE  Arrives(Tail(str), new, i, j - 1, v)
  <2>1. \A m \in k .. j - 2 : ~Writes(Tail(str)[m], i)
    BY <1>1, <1>3
  <2>2. CASE k = 1
    <3>1. new[i] = v
      BY <1>1, <1>3, <2>2
    <3> QED
      BY <2>1, <2>2, <3>1 DEF Arrives
  <2>3. CASE k > 1
    <3>1. k - 1 \in 1 .. j - 2 /\ Tail(str)[k - 1] = str[k]
      BY <1>1, <2>3
    <3>2. Writes(Tail(str)[k - 1], i) /\ Left(Tail(str)[k - 1]) = v
      BY <1>3, <3>1
    <3>3. \A m \in (k - 1) + 1 .. (j - 1) - 1 : ~Writes(Tail(str)[m], i)
      <4>1. (k - 1) + 1 = k /\ (j - 1) - 1 = j - 2
        OBVIOUS
      <4> QED
        BY <2>1, <4>1
    <3> QED
      BY <3>1, <3>2, <3>3 DEF Arrives
  <2> QED
    BY <2>2, <2>3
<1> QED
  BY <1>2, <1>3 DEF Arrives

-----------------------------------------------------------------------------
LEMMA InitInv == ASSUME StagingAssumption, StagingInit PROVE StagingInv
<1>1. StagingTypeOK
  BY DEF StagingAssumption, StagingInit, StagingTypeOK, Paths, HostStates
<1>2. stream = << >> /\ DOMAIN stream = {} /\ out.step = 0 /\ step = 0 /\ host = "idle" /\ reads = {}
  BY DEF StagingInit, Steps!NoForward
<1> QED
  BY <1>1, <1>2 DEF StagingInv, GatherAlone, RowsOnTheWay, CopiesOwnRows, BatchFits,
                    PassesInOrder, PassesFindRows

\* A step is prepared while the device still works on earlier ones.
LEMMA PrepareInputsInv ==
    ASSUME StagingAssumption, StagingInv,
           NEW p \in 1 .. MaxTokens, NEW n \in 1 .. p, PrepareInputs(n, p)
    PROVE  StagingInv'
<1> USE DEF StagingInv, PrepareInputs
<1>1. /\ step \in 0 .. MaxSteps /\ step < MaxSteps /\ MaxSteps \in Nat /\ MaxTokens \in Nat
      /\ step' = step + 1 /\ host = "idle" /\ host' = "ids"
      /\ n \in 0 .. MaxTokens /\ p \in 0 .. MaxTokens /\ n <= p
  BY DEF StagingAssumption, StagingTypeOK
<1>2. StagingTypeOK'
  BY <1>1 DEF StagingTypeOK, HostStates
<1>3. GatherAlone' /\ RowsOnTheWay'
  BY <1>1 DEF GatherAlone, RowsOnTheWay
<1>4. CopiesOwnRows'
  BY DEF CopiesOwnRows
<1>5. BatchFits'
  BY <1>1 DEF BatchFits, PassesInOrder
<1>6. PassesInOrder'
  <2>1. \A j \in DOMAIN stream : stream[j].step \in Nat
    BY OpsHaveSteps
  <2>2. stream' = stream /\ out' = out
    OBVIOUS
  <2>3. out'.step \in 0 .. step'
    BY <1>1, <2>2 DEF PassesInOrder
  <2>4. ASSUME NEW j \in DOMAIN stream, IsForward(j)
        PROVE  /\ out.step < stream[j].step /\ stream[j].step < step'
               /\ \A k \in DOMAIN stream : k < j /\ IsForward(k) => stream[k].step < stream[j].step
    BY <1>1, <2>1, <2>4 DEF PassesInOrder
  <2> QED
    BY <1>1, <2>1, <2>2, <2>3, <2>4 DEF PassesInOrder, IsForward
<1>7. PassesFindRows'
  BY <1>1 DEF PassesFindRows, IsForward
<1> QED
  BY <1>2, <1>3, <1>4, <1>5, <1>6, <1>7

\* A batch without tokens stages zeros.
LEMMA PrepareDummyInv ==
    ASSUME StagingAssumption, StagingInv, NEW p \in 1 .. MaxTokens, PrepareDummy(p)
    PROVE  StagingInv'
<1> DEFINE ops == <<Zero(1, p)>>
<1> USE DEF StagingInv, PrepareDummy
<1>1. /\ step \in 0 .. MaxSteps /\ step < MaxSteps /\ MaxSteps \in Nat /\ MaxTokens \in Nat
      /\ step' = step + 1 /\ host = "idle" /\ host' = "launch" /\ p \in 0 .. MaxTokens
      /\ batch' = [tokens |-> 0, padded |-> p] /\ staging' = staging /\ out' = out
      /\ pinned' = pinned
  BY DEF StagingAssumption, StagingTypeOK
<1>2. stream \in Seq(Ops) /\ ops \in Seq(Ops) /\ Len(ops) = 1 /\ ops[1] = Zero(1, p)
  BY <1>1 DEF StagingTypeOK, Ops, Zero
<1>3. stream' = stream \o ops
  BY DEF Enqueue
<1> HIDE DEF ops
<1>4. /\ stream' \in Seq(Ops) /\ Len(stream') = Len(stream) + 1
      /\ \A j \in 1 .. Len(stream) : stream'[j] = stream[j]
      /\ stream'[Len(stream) + 1] = Zero(1, p)
  <2>1. /\ stream \o ops \in Seq(Ops) /\ Len(stream \o ops) = Len(stream) + Len(ops)
        /\ \A j \in 1 .. Len(stream) : (stream \o ops)[j] = stream[j]
        /\ \A j \in 1 .. Len(ops) : (stream \o ops)[Len(stream) + j] = ops[j]
    BY <1>2, Enqueued
  <2>2. (stream \o ops)[Len(stream) + 1] = ops[1]
    BY <1>2, <2>1
  <2> QED
    BY <1>2, <1>3, <2>1, <2>2
<1>5. /\ DOMAIN stream = 1 .. Len(stream) /\ DOMAIN stream' = 1 .. Len(stream) + 1
      /\ Len(stream) \in Nat
  BY <1>2, <1>4
<1>6. Zero(1, p).op = "zero" /\ Zero(1, p).from = 1 /\ Zero(1, p).to = p
  BY DEF Zero
<1>7. StagingTypeOK'
  BY <1>1, <1>4 DEF StagingTypeOK, HostStates, Ops
<1>8. GatherAlone' /\ RowsOnTheWay'
  BY <1>1 DEF GatherAlone, RowsOnTheWay
<1>9. CopiesOwnRows'
  <2>1. ASSUME NEW j \in DOMAIN stream', stream'[j].op = "copy"
        PROVE  j \in DOMAIN stream /\ stream'[j] = stream[j]
    BY <1>4, <1>5, <1>6, <2>1
  <2> QED
    BY <1>1, <2>1 DEF CopiesOwnRows
<1>10. BatchFits'
  BY <1>1 DEF BatchFits, PassesInOrder
<1>11. PassesInOrder'
  <2>1. \A j \in DOMAIN stream : stream[j].step \in Nat
    BY OpsHaveSteps
  <2>2. out'.step \in 0 .. step'
    BY <1>1 DEF PassesInOrder
  <2>3. ASSUME NEW j \in DOMAIN stream', IsForward(j)'
        PROVE  j \in DOMAIN stream /\ stream'[j] = stream[j] /\ IsForward(j)
    BY <1>4, <1>5, <1>6, <2>3 DEF IsForward
  <2>4. ASSUME NEW j \in DOMAIN stream, IsForward(j)
        PROVE  /\ out.step < stream[j].step /\ stream[j].step < step'
               /\ \A k \in DOMAIN stream : k < j /\ IsForward(k) => stream[k].step < stream[j].step
    BY <1>1, <2>1, <2>4 DEF PassesInOrder
  <2>5. \A j \in DOMAIN stream : stream[j].step < step' => stream[j].step <= step'
    BY <1>1, <2>1
  <2> QED
    BY <1>1, <2>2, <2>3, <2>4, <2>5 DEF PassesInOrder
<1>12. PassesFindRows'
  <2>1. ASSUME NEW j \in DOMAIN stream', IsForward(j)'
        PROVE  /\ stream'[j].to \in 1 .. MaxTokens
               /\ \E n \in 0 .. stream'[j].to :
                    Finds(stream', staging', j, stream'[j].step, n, stream'[j].to)
    <3>1. j \in 1 .. Len(stream) /\ stream'[j] = stream[j] /\ IsForward(j)
      BY <1>4, <1>5, <1>6, <2>1 DEF IsForward
    <3>2. /\ stream[j].to \in 1 .. MaxTokens
          /\ \E n \in 0 .. stream[j].to :
               Finds(stream, staging, j, stream[j].step, n, stream[j].to)
      BY <1>5, <3>1 DEF PassesFindRows
    <3>3. PICK n \in 0 .. stream[j].to :
               Finds(stream, staging, j, stream[j].step, n, stream[j].to)
      BY <3>2
    <3>4. Finds(stream \o ops, staging, j, stream[j].step, n, stream[j].to)
      BY <1>2, <3>1, <3>3, EnqueueKeeps DEF Finds
    <3> QED
      BY <1>1, <1>3, <3>1, <3>2, <3>4
  <2>2. Finds(stream', staging', Len(stream') + 1, step', 0, p)
    <3>1. ASSUME NEW i \in 1 .. p
          PROVE  Arrives(stream', staging', i, Len(stream) + 2, 0)
      <4>1. Writes(stream'[Len(stream) + 1], i) /\ Left(stream'[Len(stream) + 1]) = 0
        BY <1>4, <1>6 DEF Writes, Left
      <4>2. Len(stream) + 1 \in 1 .. (Len(stream) + 2) - 1
        BY <1>5
      <4>3. (Len(stream) + 1) + 1 .. (Len(stream) + 2) - 1 = {}
        BY <1>5
      <4> QED
        BY <4>1, <4>2, <4>3 DEF Arrives
    <3> QED
      BY <1>4, <1>5, <3>1 DEF Finds
  <2> QED
    BY <1>1, <2>1, <2>2 DEF PassesFindRows
<1> QED
  BY <1>7, <1>8, <1>9, <1>10, <1>11, <1>12

\* Nothing is enqueued between the wait and the copy.
LEMMA WaitForIdsInv ==
    ASSUME StagingAssumption, StagingInv, WaitForIds PROVE StagingInv'
<1> USE DEF StagingInv, WaitForIds
<1>1. /\ host = "ids" /\ host' = "gather" /\ stream = << >> /\ stream' = << >>
      /\ reads' = Tasks(batch.tokens) /\ batch' = batch /\ step' = step /\ path' = path
      /\ staging' = staging /\ out' = out
      /\ pinned' = IF path = "placeholder" THEN pinned ELSE Grown(batch.tokens)
  OBVIOUS
<1>2. batch.tokens \in Nat /\ batch.tokens \in 0 .. MaxTokens /\ batch.padded \in 0 .. MaxTokens
  BY DEF StagingTypeOK, StagingAssumption
<1>3. Grown(batch.tokens) \in Seq(Int) /\ batch.tokens <= Len(Grown(batch.tokens))
  BY <1>2, GrownHasRoom
<1>4. StagingTypeOK'
  <2>1. reads' \subseteq 1 .. MaxTokens
    BY <1>1, <1>2 DEF Tasks, StagingAssumption
  <2> QED
    BY <1>1, <1>3, <2>1 DEF StagingTypeOK, HostStates
<1>5. GatherAlone'
  BY <1>1 DEF GatherAlone
<1>6. RowsOnTheWay'
  <2>1. ASSUME path # "placeholder", NEW i \in 1 .. batch.tokens
        PROVE  i \in DOMAIN pinned' /\ \E r \in reads' : i \in r .. r + ChunkRows - 1
    <3>1. i \in 1 .. Len(Grown(batch.tokens))
      BY <1>2, <1>3
    <3>2. i \in DOMAIN Grown(batch.tokens)
      BY <1>3, <3>1
    <3>3. \E r \in Tasks(batch.tokens) : i \in r .. r + ChunkRows - 1
      BY <1>2, TasksCover
    <3> QED
      BY <1>1, <2>1, <3>2, <3>3
  <2> QED
    BY <1>1, <2>1 DEF RowsOnTheWay
<1>7. CopiesOwnRows'
  BY <1>1 DEF CopiesOwnRows
<1>8. BatchFits' /\ PassesInOrder'
  BY <1>1 DEF BatchFits, PassesInOrder
<1>9. PassesFindRows'
  BY <1>1 DEF PassesFindRows
<1> QED
  BY <1>4, <1>5, <1>6, <1>7, <1>8, <1>9

\* Tasks write rows of the step only, and no copy is there to see them.
LEMMA ReadRowsInv ==
    ASSUME StagingAssumption, StagingInv, NEW first \in 1 .. MaxTokens, ReadRows(first)
    PROVE  StagingInv'
<1> USE DEF StagingInv, ReadRows
<1>1. /\ host \in {"gather", "failed"} /\ host' = host /\ stream = << >> /\ stream' = << >>
      /\ batch' = batch /\ step' = step /\ path' = path /\ staging' = staging /\ out' = out
      /\ reads' = reads \ {first}
      /\ pinned' = IF path = "placeholder" THEN pinned
                   ELSE [i \in DOMAIN pinned |->
                           IF i \in first .. first + ChunkRows - 1 /\ i <= batch.tokens
                           THEN step ELSE pinned[i]]
  BY DEF GatherAlone
<1>2. StagingTypeOK'
  <2>1. pinned' \in Seq(Int)
    <3>1. pinned \in Seq(Int) /\ step \in Int
      BY DEF StagingTypeOK, StagingAssumption
    <3>2. Len(pinned) \in Nat /\ pinned \in [1 .. Len(pinned) -> Int]
      BY <3>1, LenProperties
    <3> DEFINE n == Len(pinned)
    <3> HIDE DEF n, ReadRows, StagingInv
    <3>3. n \in Nat /\ pinned \in [1 .. n -> Int]
      BY <3>2 DEF n
    <3>4. pinned' \in [1 .. n -> Int]
      BY <1>1, <3>1, <3>3
    <3> QED
      BY <3>3, <3>4, ListIsSeq
  <2>2. reads' \subseteq 1 .. MaxTokens
    BY <1>1 DEF StagingTypeOK
  <2>3. StagingTypeOK
    OBVIOUS
  <2> HIDE DEF StagingInv, ReadRows
  <2> QED
    BY <1>1, <2>1, <2>2, <2>3 DEF StagingTypeOK
<1>3. GatherAlone'
  BY <1>1 DEF GatherAlone
<1>4. RowsOnTheWay'
  BY <1>1 DEF RowsOnTheWay
<1>5. CopiesOwnRows' /\ PassesFindRows'
  BY <1>1 DEF CopiesOwnRows, PassesFindRows
<1>6. BatchFits' /\ PassesInOrder'
  BY <1>1 DEF BatchFits, PassesInOrder
<1> QED
  BY <1>2, <1>3, <1>4, <1>5, <1>6

LEMMA ReadFailsInv ==
    ASSUME StagingAssumption, StagingInv, NEW first \in 1 .. MaxTokens, ReadFails(first)
    PROVE  StagingInv'
<1> USE DEF StagingInv, ReadFails
<1>1. /\ host = "gather" /\ host' = "failed" /\ stream = << >> /\ stream' = << >>
      /\ UNCHANGED <<path, step, batch, pinned, staging, out>> /\ reads' = reads \ {first}
  BY DEF GatherAlone
<1>2. StagingTypeOK'
  BY <1>1 DEF StagingTypeOK, HostStates
<1> QED
  BY <1>1, <1>2 DEF GatherAlone, RowsOnTheWay, CopiesOwnRows, BatchFits, PassesInOrder,
                    PassesFindRows

\* All rows are there when the copy is enqueued, and it takes no others.
LEMMA CopyRowsInv ==
    ASSUME StagingAssumption, StagingInv, CopyRows PROVE StagingInv'
<1> DEFINE n == batch.tokens
           p == batch.padded
<1> USE DEF StagingInv
<1>1. /\ host = "gather" /\ host' = "launch" /\ reads = {} /\ stream = << >>
      /\ UNCHANGED <<path, step, batch, reads, staging, out>>
      /\ pinned' = IF path = "placeholder" THEN Moved(n) ELSE pinned
  BY DEF CopyRows, GatherAlone
<1>2. /\ n \in 0 .. MaxTokens /\ p \in 1 .. MaxTokens /\ n <= p /\ MaxTokens \in Nat
      /\ step \in 1 .. MaxSteps /\ step \in 0 .. MaxSteps /\ MaxSteps \in Nat
      /\ n \in Nat /\ p \in Nat
  BY <1>1 DEF StagingTypeOK, BatchFits, StagingAssumption
<1>3. /\ Copy(step, n) \in Ops /\ Zero(n + 1, p) \in Ops
      /\ Copy(step, n).op = "copy" /\ Copy(step, n).to = n /\ Copy(step, n).step = step
      /\ Zero(n + 1, p).op = "zero" /\ Zero(n + 1, p).from = n + 1 /\ Zero(n + 1, p).to = p
  BY <1>2 DEF Copy, Zero, Ops
<1>4. PICK tail \in Seq(Ops) :
          /\ stream' = << >> \o (<<Copy(step, n)>> \o tail)
          /\ \/ tail = << >> /\ p = n
             \/ tail = <<Zero(n + 1, p)>>
  <2>1. CASE p > n
    <3>1. stream' = << >> \o (<<Copy(step, n)>> \o <<Zero(n + 1, p)>>)
      BY <1>1, <2>1 DEF CopyRows, Enqueue
    <3>2. <<Zero(n + 1, p)>> \in Seq(Ops)
      BY <1>3
    <3> QED
      BY <3>1, <3>2
  <2>2. CASE ~(p > n)
    <3>1. stream' = << >> \o (<<Copy(step, n)>> \o << >>)
      BY <1>1, <2>2 DEF CopyRows, Enqueue
    <3>2. p = n /\ << >> \in Seq(Ops)
      BY <1>2, <2>2
    <3> QED
      BY <3>1, <3>2
  <2> QED
    BY <2>1, <2>2
<1> HIDE DEF n, p
<1>5. /\ stream' \in Seq(Ops) /\ DOMAIN stream' = 1 .. Len(stream')
      /\ stream'[1] = Copy(step, n)
      /\ \/ Len(stream') = 1 /\ p = n
         \/ Len(stream') = 2 /\ stream'[2] = Zero(n + 1, p)
  <2> DEFINE one == <<Copy(step, n)>>
             both == one \o tail
  <2>1. one \in Seq(Ops) /\ Len(one) = 1 /\ one[1] = Copy(step, n)
    BY <1>3
  <2> HIDE DEF one
  <2>2. /\ both \in Seq(Ops) /\ Len(both) = 1 + Len(tail)
        /\ \A j \in 1 .. Len(one) : both[j] = one[j]
        /\ \A j \in 1 .. Len(tail) : both[1 + j] = tail[j]
    BY <1>4, <2>1, Enqueued
  <2>3. both[1] = Copy(step, n)
    BY <2>1, <2>2
  <2>4. \/ Len(both) = 1 /\ p = n
        \/ Len(both) = 2 /\ both[2] = Zero(n + 1, p)
    <3>1. CASE tail = << >> /\ p = n
      BY <2>2, <3>1
    <3>2. CASE tail = <<Zero(n + 1, p)>>
      <4>1. Len(tail) = 1 /\ tail[1] = Zero(n + 1, p)
        BY <3>2
      <4>2. both[1 + 1] = tail[1]
        BY <2>2, <4>1
      <4> QED
        BY <2>2, <4>1, <4>2
    <3> QED
      BY <1>4, <3>1, <3>2
  <2>5. stream' = << >> \o both
    BY <1>4 DEF one
  <2> HIDE DEF both
  <2>6. << >> \o both = both
    BY <2>2, ConcatEmptySeq
  <2> QED
    BY <2>2, <2>3, <2>4, <2>5, <2>6
<1>6. \A j \in DOMAIN stream' : ~IsForward(j)'
  BY <1>3, <1>5 DEF IsForward
<1>7. pinned' \in Seq(Int) /\ \A i \in 1 .. n : i \in DOMAIN pinned' /\ pinned'[i] = step
  <2>1. CASE path = "placeholder"
    <3>1. Grown(n) \in Seq(Int) /\ n <= Len(Grown(n))
      BY <1>2, GrownHasRoom
    <3>2. pinned' = [i \in DOMAIN Grown(n) |-> IF i <= n THEN step ELSE Grown(n)[i]]
      BY <1>1, <2>1 DEF Moved
    <3>3. pinned' \in Seq(Int)
      <4>1. pinned' \in [1 .. Len(Grown(n)) -> Int] /\ Len(Grown(n)) \in Nat
        BY <1>2, <3>1, <3>2
      <4> QED
        BY <4>1
    <3> QED
      BY <1>2, <3>1, <3>2, <3>3
  <2>2. CASE path # "placeholder"
    BY <1>1, <2>2 DEF RowsOnTheWay, StagingTypeOK, n
  <2> QED
    BY <2>1, <2>2
<1>8. StagingTypeOK'
  BY <1>1, <1>5, <1>7 DEF StagingTypeOK, HostStates, Ops
<1>9. GatherAlone' /\ RowsOnTheWay'
  BY <1>1 DEF GatherAlone, RowsOnTheWay
<1>10. CopiesOwnRows'
  BY <1>3, <1>5, <1>7 DEF CopiesOwnRows
<1>11. BatchFits' /\ PassesInOrder'
  BY <1>1, <1>6 DEF BatchFits, PassesInOrder
<1>12. Finds(stream', staging', Len(stream') + 1, step, n, p)
  <2>1. CASE Len(stream') = 1 /\ p = n
    <3>1. \A i \in 1 .. p : Writes(stream'[1], i) /\ Left(stream'[1]) = step /\ i <= n
      BY <1>2, <1>3, <1>5, <2>1 DEF Writes, Left
    <3>2. 1 \in 1 .. 2 - 1 /\ 1 + 1 .. 2 - 1 = {}
      OBVIOUS
    <3>3. ASSUME NEW i \in 1 .. p
          PROVE  Arrives(stream', staging', i, 2, IF i <= n THEN step ELSE 0)
      BY <3>1, <3>2 DEF Arrives
    <3>4. Len(stream') + 1 = 2
      BY <2>1
    <3> QED
      BY <3>3, <3>4 DEF Finds
  <2>2. CASE Len(stream') = 2 /\ stream'[2] = Zero(n + 1, p)
    <3>1. ASSUME NEW i \in 1 .. p
          PROVE  Arrives(stream', staging', i, 3, IF i <= n THEN step ELSE 0)
      <4>1. CASE i <= n
        <5>1. Writes(stream'[1], i) /\ Left(stream'[1]) = step /\ ~Writes(stream'[2], i)
          BY <1>2, <1>3, <1>5, <2>2, <4>1 DEF Writes, Left
        <5>2. 1 \in 1 .. 3 - 1 /\ \A m \in 1 + 1 .. 3 - 1 : m = 2
          OBVIOUS
        <5> QED
          BY <4>1, <5>1, <5>2 DEF Arrives
      <4>2. CASE ~(i <= n)
        <5>1. Writes(stream'[2], i) /\ Left(stream'[2]) = 0
          BY <1>2, <1>3, <2>2, <4>2 DEF Writes, Left
        <5>2. 2 \in 1 .. 3 - 1 /\ 2 + 1 .. 3 - 1 = {}
          OBVIOUS
        <5> QED
          BY <4>2, <5>1, <5>2 DEF Arrives
      <4> QED
        BY <4>1, <4>2
    <3>2. Len(stream') + 1 = 3
      BY <2>2
    <3> QED
      BY <3>1, <3>2 DEF Finds
  <2> QED
    BY <1>5, <2>1, <2>2
<1>13. PassesFindRows'
  BY <1>1, <1>6, <1>12 DEF PassesFindRows, n, p
<1> QED
  BY <1>8, <1>9, <1>10, <1>11, <1>13

\* The pass comes after the copy and the zeros of its step.
LEMMA LaunchInv ==
    ASSUME StagingAssumption, StagingInv, Launch PROVE StagingInv'
<1> DEFINE pass == Forward(step, batch.padded)
           ops == <<pass>>
<1> USE DEF StagingInv, Launch
<1>1. /\ host = "launch" /\ host' = "idle" /\ stream' = stream \o ops
      /\ UNCHANGED <<path, step, batch, reads, pinned, staging, out>>
  BY DEF Enqueue
<1>2. /\ batch.padded \in 1 .. MaxTokens /\ batch.padded \in 0 .. MaxTokens
      /\ batch.tokens \in 0 .. batch.padded
      /\ step \in 0 .. MaxSteps /\ step \in Nat /\ out.step < step
  BY <1>1 DEF StagingTypeOK, BatchFits, StagingAssumption
<1>3. /\ pass \in Ops /\ pass.op = "forward" /\ pass.step = step /\ pass.to = batch.padded
  BY <1>2 DEF Forward, Ops
<1> HIDE DEF pass
<1>4. ops \in Seq(Ops) /\ Len(ops) = 1 /\ ops[1] = pass
  BY <1>3
<1> HIDE DEF ops
<1>5. /\ stream \in Seq(Ops) /\ Len(stream) \in Nat /\ DOMAIN stream = 1 .. Len(stream)
      /\ \A j \in DOMAIN stream : stream[j].step \in Nat
  BY OpsHaveSteps
<1>6. /\ stream' \in Seq(Ops) /\ Len(stream') = Len(stream) + 1
      /\ DOMAIN stream' = 1 .. Len(stream) + 1
      /\ \A j \in 1 .. Len(stream) : stream'[j] = stream[j]
      /\ stream'[Len(stream) + 1] = pass
  <2>1. /\ stream \o ops \in Seq(Ops) /\ Len(stream \o ops) = Len(stream) + Len(ops)
        /\ \A j \in 1 .. Len(stream) : (stream \o ops)[j] = stream[j]
        /\ \A j \in 1 .. Len(ops) : (stream \o ops)[Len(stream) + j] = ops[j]
    BY <1>4, <1>5, Enqueued
  <2>2. (stream \o ops)[Len(stream) + 1] = ops[1]
    BY <1>4, <2>1
  <2> QED
    BY <1>1, <1>4, <1>5, <2>1, <2>2
<1>7. StagingTypeOK'
  BY <1>1, <1>6 DEF StagingTypeOK, HostStates, Ops
<1>8. GatherAlone' /\ RowsOnTheWay' /\ BatchFits'
  BY <1>1 DEF GatherAlone, RowsOnTheWay, BatchFits
<1>9. CopiesOwnRows'
  <2>1. ASSUME NEW j \in DOMAIN stream', stream'[j].op = "copy"
        PROVE  j \in DOMAIN stream /\ stream'[j] = stream[j]
    BY <1>3, <1>5, <1>6, <2>1
  <2> QED
    BY <1>1, <2>1 DEF CopiesOwnRows
<1>10. PassesInOrder'
  <2>1. ASSUME NEW j \in DOMAIN stream, IsForward(j)
        PROVE  /\ out.step < stream[j].step /\ stream[j].step < step /\ stream[j].step <= step
               /\ \A k \in DOMAIN stream : k < j /\ IsForward(k) => stream[k].step < stream[j].step
    BY <1>1, <1>2, <1>5, <2>1 DEF PassesInOrder
  <2>2. ASSUME NEW j \in DOMAIN stream', IsForward(j)'
        PROVE  /\ out.step < stream'[j].step /\ stream'[j].step <= step
               /\ \A k \in DOMAIN stream' :
                    k < j /\ IsForward(k)' => stream'[k].step < stream'[j].step
    <3>1. CASE j \in DOMAIN stream
      <4>1. stream'[j] = stream[j] /\ IsForward(j)
        BY <1>5, <1>6, <2>2, <3>1 DEF IsForward
      <4>2. ASSUME NEW k \in DOMAIN stream', k < j, IsForward(k)'
            PROVE  k \in DOMAIN stream /\ stream'[k] = stream[k] /\ IsForward(k)
        BY <1>5, <1>6, <3>1, <4>2 DEF IsForward
      <4>3. /\ out.step < stream[j].step /\ stream[j].step <= step
            /\ \A k \in DOMAIN stream : k < j /\ IsForward(k) => stream[k].step < stream[j].step
        BY <2>1, <3>1, <4>1
      <4>4. ASSUME NEW k \in DOMAIN stream', k < j, IsForward(k)'
            PROVE  stream'[k].step < stream'[j].step
        BY <4>1, <4>2, <4>3, <4>4
      <4> QED
        BY <4>1, <4>3, <4>4
    <3>2. CASE j \notin DOMAIN stream
      <4>1. j = Len(stream) + 1 /\ stream'[j].step = step
        BY <1>3, <1>5, <1>6, <3>2
      <4>2. ASSUME NEW k \in DOMAIN stream', k < j, IsForward(k)'
            PROVE  stream'[k].step < step
        <5>1. k \in DOMAIN stream /\ stream'[k] = stream[k] /\ IsForward(k)
          BY <1>5, <1>6, <4>1, <4>2 DEF IsForward
        <5> QED
          BY <2>1, <5>1
      <4> QED
        BY <1>2, <4>1, <4>2
    <3> QED
      BY <3>1, <3>2
  <2>3. out.step \in 0 .. step
    BY DEF PassesInOrder
  <2> QED
    BY <1>1, <2>2, <2>3 DEF PassesInOrder
<1>11. PassesFindRows'
  <2>1. ASSUME NEW j \in DOMAIN stream', IsForward(j)'
        PROVE  /\ stream'[j].to \in 1 .. MaxTokens
               /\ \E n \in 0 .. stream'[j].to :
                    Finds(stream', staging', j, stream'[j].step, n, stream'[j].to)
    <3>1. CASE j \in DOMAIN stream
      <4>1. j \in 1 .. Len(stream) + 1 /\ stream'[j] = stream[j] /\ IsForward(j)
        BY <1>5, <1>6, <2>1, <3>1 DEF IsForward
      <4>2. /\ stream[j].to \in 1 .. MaxTokens
            /\ \E n \in 0 .. stream[j].to :
                 Finds(stream, staging, j, stream[j].step, n, stream[j].to)
        BY <3>1, <4>1 DEF PassesFindRows
      <4>3. PICK n \in 0 .. stream[j].to :
                 Finds(stream, staging, j, stream[j].step, n, stream[j].to)
        BY <4>2
      <4>4. Finds(stream \o ops, staging, j, stream[j].step, n, stream[j].to)
        BY <1>4, <1>5, <4>1, <4>3, EnqueueKeeps DEF Finds
      <4> QED
        BY <1>1, <4>1, <4>2, <4>4
    <3>2. CASE j \notin DOMAIN stream
      <4>1. j = Len(stream) + 1 /\ stream'[j] = pass
        BY <1>5, <1>6, <3>2
      <4>2. Finds(stream, staging, j, step, batch.tokens, batch.padded)
        BY <1>1, <4>1 DEF PassesFindRows
      <4>3. j \in 1 .. Len(stream) + 1
        BY <1>5, <4>1
      <4>4. Finds(stream \o ops, staging, j, step, batch.tokens, batch.padded)
        BY <1>4, <1>5, <4>2, <4>3, EnqueueKeeps DEF Finds
      <4> QED
        BY <1>1, <1>2, <1>3, <4>1, <4>4
    <3> QED
      BY <3>1, <3>2
  <2> QED
    BY <1>1, <2>1 DEF PassesFindRows
<1> QED
  BY <1>7, <1>8, <1>9, <1>10, <1>11

\* The device takes each operation's effect into the staging buffer, in order.
LEMMA ExecuteInv ==
    ASSUME StagingAssumption, StagingInv, Execute PROVE StagingInv'
<1> DEFINE e == Head(stream)
<1> USE DEF StagingInv
<1>1. /\ stream # << >> /\ stream' = Tail(stream)
      /\ UNCHANGED <<path, host, step, batch, reads, pinned>>
      /\ staging' = [i \in 1 .. MaxTokens |->
                       CASE e.op = "copy" /\ i <= e.to -> pinned[i]
                         [] e.op = "zero" /\ i \in e.from .. e.to -> 0
                         [] OTHER -> staging[i]]
      /\ out' = IF e.op # "forward" THEN out
                ELSE [step |-> e.step, rows |-> [i \in 1 .. e.to |-> staging[i]]]
      /\ host \notin {"gather", "failed"}
  BY DEF Execute, GatherAlone
<1>2. /\ stream \in Seq(Ops) /\ Len(stream) \in Nat \ {0} /\ DOMAIN stream = 1 .. Len(stream)
      /\ \A j \in DOMAIN stream : stream[j] \in Ops /\ stream[j].step \in Nat
      /\ \A j \in DOMAIN stream : stream[j].step <= MaxSteps
  <2>1. /\ stream \in Seq(Ops) /\ Len(stream) \in Nat /\ DOMAIN stream = 1 .. Len(stream)
        /\ \A j \in DOMAIN stream :
                stream[j] \in Ops /\ stream[j].step \in Nat /\ stream[j].step <= MaxSteps
    BY OpsHaveSteps
  <2>2. Len(stream) # 0
    BY <1>1, <2>1
  <2> QED
    BY <2>1, <2>2
<1>3. /\ stream' \in Seq(Ops) /\ Len(stream') = Len(stream) - 1
      /\ DOMAIN stream' = 1 .. Len(stream) - 1
      /\ \A j \in DOMAIN stream' : stream'[j] = stream[j + 1] /\ j + 1 \in DOMAIN stream
      /\ 1 \in DOMAIN stream /\ e = stream[1]
  BY <1>1, <1>2
<1> HIDE DEF e
<1>4. /\ e \in Ops /\ e.step \in Nat /\ e.to \in 0 .. MaxTokens /\ e.op \in {"copy", "zero", "forward"}
      /\ MaxTokens \in Nat /\ MaxSteps \in Nat
  BY <1>2, <1>3 DEF Ops, StagingAssumption
<1>5. e.op = "copy" => \A i \in 1 .. e.to : i \in DOMAIN pinned /\ pinned[i] = e.step
  BY <1>3 DEF CopiesOwnRows
<1>6. \A i \in 1 .. MaxTokens : staging'[i] = IF Writes(e, i) THEN Left(e) ELSE staging[i]
  <2>1. ASSUME NEW i \in 1 .. MaxTokens
        PROVE  staging'[i] = IF Writes(e, i) THEN Left(e) ELSE staging[i]
    <3>1. CASE e.op = "copy"
      <4>1. e.op # "zero"
        BY <3>1
      <4>2. CASE i <= e.to
        <5>1. i \in 1 .. e.to
          BY <1>4, <4>2
        <5>2. pinned[i] = e.step
          BY <1>5, <3>1, <5>1
        <5> QED
          BY <1>1, <3>1, <4>1, <4>2, <5>2 DEF Writes, Left
      <4>3. CASE ~(i <= e.to)
        BY <1>1, <3>1, <4>1, <4>3 DEF Writes, Left
      <4> QED
        BY <4>2, <4>3
    <3>2. CASE e.op = "zero"
      <4>1. e.op # "copy"
        BY <3>2
      <4> QED
        BY <1>1, <3>2, <4>1 DEF Writes, Left
    <3>3. CASE e.op = "forward"
      <4>1. e.op # "copy" /\ e.op # "zero"
        BY <3>3
      <4> QED
        BY <1>1, <4>1 DEF Writes, Left
    <3> QED
      BY <1>4, <3>1, <3>2, <3>3
  <2> QED
    BY <2>1
<1>7. StagingTypeOK'
  <2>1. staging \in [1 .. MaxTokens -> Int]
    BY DEF StagingTypeOK
  <2>2. Left(e) \in Int
    BY <1>4 DEF Left
  <2>3. \A i \in 1 .. MaxTokens : staging'[i] \in Int
    BY <1>6, <2>1, <2>2
  <2>4. staging' \in [1 .. MaxTokens -> Int]
    BY <1>1, <2>3
  <2> QED
    BY <1>1, <1>3, <2>4 DEF StagingTypeOK, Ops
<1>8. GatherAlone'
  BY <1>1 DEF GatherAlone
<1>9. RowsOnTheWay'
  BY <1>1 DEF RowsOnTheWay
<1>10. CopiesOwnRows'
  BY <1>1, <1>3 DEF CopiesOwnRows
<1>11. /\ out'.step = IF e.op = "forward" THEN e.step ELSE out.step
       /\ e.op = "forward" <=> IsForward(1)
  BY <1>1, <1>3 DEF IsForward
<1>12. /\ out'.step \in 0 .. step
       /\ host # "idle" /\ out.step < step => out'.step < step
  <2>1. CASE e.op = "forward"
    <3>1. IsForward(1) /\ out'.step = stream[1].step /\ stream[1].step \in Nat
      BY <1>2, <1>3, <1>11, <2>1
    <3>2. stream[1].step <= step /\ (host # "idle" => stream[1].step < step)
      BY <1>3, <3>1 DEF PassesInOrder
    <3>3. step \in Nat
      BY DEF StagingTypeOK, StagingAssumption
    <3> QED
      BY <3>1, <3>2, <3>3
  <2>2. CASE e.op # "forward"
    BY <1>11, <2>2 DEF PassesInOrder
  <2> QED
    BY <2>1, <2>2
<1>13. BatchFits'
  BY <1>1, <1>12 DEF BatchFits
<1>14. PassesInOrder'
  <2>1. ASSUME NEW j \in DOMAIN stream', IsForward(j)'
        PROVE  /\ out'.step < stream'[j].step /\ stream'[j].step <= step
               /\ host # "idle" => stream'[j].step < step
               /\ \A k \in DOMAIN stream' :
                    k < j /\ IsForward(k)' => stream'[k].step < stream'[j].step
    <3>1. j + 1 \in DOMAIN stream /\ stream'[j] = stream[j + 1] /\ IsForward(j + 1)
      BY <1>3, <2>1 DEF IsForward
    <3>2. /\ out.step < stream[j + 1].step /\ stream[j + 1].step <= step
          /\ host # "idle" => stream[j + 1].step < step
          /\ \A k \in DOMAIN stream :
               k < j + 1 /\ IsForward(k) => stream[k].step < stream[j + 1].step
      BY <3>1 DEF PassesInOrder
    <3>3. out'.step < stream[j + 1].step
      <4>1. 1 < j + 1
        BY <1>3, <2>1
      <4> QED
        BY <1>3, <1>11, <3>2, <4>1
    <3>4. ASSUME NEW k \in DOMAIN stream', k < j, IsForward(k)'
          PROVE  stream'[k].step < stream'[j].step
      <4>1. k + 1 \in DOMAIN stream /\ stream'[k] = stream[k + 1] /\ IsForward(k + 1)
        BY <1>3, <3>4 DEF IsForward
      <4>2. k + 1 < j + 1
        BY <1>3, <2>1, <3>4
      <4> QED
        BY <3>1, <3>2, <4>1, <4>2
    <3> QED
      BY <3>1, <3>2, <3>3, <3>4
  <2> QED
    BY <1>1, <1>12, <2>1 DEF PassesInOrder
<1>15. ASSUME NEW j \in 2 .. Len(stream) + 1, NEW p \in 1 .. MaxTokens, NEW s, NEW n,
              Finds(stream, staging, j, s, n, p)
       PROVE  Finds(stream', staging', j - 1, s, n, p)
  <2>1. ASSUME NEW i \in 1 .. p
        PROVE  Arrives(stream', staging', i, j - 1, IF i <= n THEN s ELSE 0)
    <3>1. i \in 1 .. MaxTokens
      BY <1>4
    <3>2. Arrives(stream, staging, i, j, IF i <= n THEN s ELSE 0)
      BY <1>15 DEF Finds
    <3>3. staging'[i] = IF Writes(Head(stream), i) THEN Left(Head(stream)) ELSE staging[i]
      BY <1>6, <3>1 DEF e
    <3> QED
      BY <1>1, <1>2, <3>2, <3>3, ExecuteKeeps
  <2> QED
    BY <2>1 DEF Finds
<1>16. PassesFindRows'
  <2>1. ASSUME NEW j \in DOMAIN stream', IsForward(j)'
        PROVE  /\ stream'[j].to \in 1 .. MaxTokens
               /\ \E n \in 0 .. stream'[j].to :
                    Finds(stream', staging', j, stream'[j].step, n, stream'[j].to)
    <3>1. j + 1 \in DOMAIN stream /\ stream'[j] = stream[j + 1] /\ IsForward(j + 1)
      BY <1>3, <2>1 DEF IsForward
    <3>2. /\ stream[j + 1].to \in 1 .. MaxTokens
          /\ \E n \in 0 .. stream[j + 1].to :
               Finds(stream, staging, j + 1, stream[j + 1].step, n, stream[j + 1].to)
      BY <3>1 DEF PassesFindRows
    <3>3. PICK n \in 0 .. stream[j + 1].to :
               Finds(stream, staging, j + 1, stream[j + 1].step, n, stream[j + 1].to)
      BY <3>2
    <3>4. j + 1 \in 2 .. Len(stream) + 1 /\ (j + 1) - 1 = j
      BY <1>2, <1>3, <2>1
    <3>5. Finds(stream', staging', (j + 1) - 1, stream[j + 1].step, n, stream[j + 1].to)
      BY <1>15, <3>2, <3>3, <3>4
    <3> QED
      BY <3>1, <3>2, <3>4, <3>5
  <2>2. host = "launch" =>
          Finds(stream', staging', Len(stream') + 1, step, batch.tokens, batch.padded)
    <3>1. SUFFICES ASSUME host = "launch"
                   PROVE  Finds(stream', staging', Len(stream') + 1, step, batch.tokens,
                                batch.padded)
      OBVIOUS
    <3>2. Finds(stream, staging, Len(stream) + 1, step, batch.tokens, batch.padded)
      BY <3>1 DEF PassesFindRows
    <3>3. batch.padded \in 1 .. MaxTokens
      BY <3>1 DEF BatchFits
    <3>4. Len(stream) + 1 \in 2 .. Len(stream) + 1 /\ (Len(stream) + 1) - 1 = Len(stream') + 1
      BY <1>2, <1>3
    <3>5. Finds(stream', staging', (Len(stream) + 1) - 1, step, batch.tokens, batch.padded)
      BY <1>15, <3>2, <3>3, <3>4
    <3> QED
      BY <3>4, <3>5
  <2> QED
    BY <1>1, <2>1, <2>2 DEF PassesFindRows
<1> QED
  BY <1>7, <1>8, <1>9, <1>10, <1>13, <1>14, <1>16

-----------------------------------------------------------------------------
LEMMA NextInv ==
    ASSUME StagingAssumption, StagingInv, [StagingNext]_stagingVars PROVE StagingInv'
<1>1. ASSUME NEW p \in 1 .. MaxTokens, PrepareDummy(p) PROVE StagingInv'
  BY <1>1, PrepareDummyInv
<1>2. ASSUME NEW p \in 1 .. MaxTokens, NEW n \in 1 .. p, PrepareInputs(n, p) PROVE StagingInv'
  BY <1>2, PrepareInputsInv
<1>3. CASE HostStep
  BY <1>3, WaitForIdsInv, CopyRowsInv, LaunchInv DEF HostStep
<1>4. ASSUME NEW first \in 1 .. MaxTokens, ReadRows(first) \/ ReadFails(first) PROVE StagingInv'
  BY <1>4, ReadRowsInv, ReadFailsInv
<1>5. CASE Execute
  BY <1>5, ExecuteInv
<1>6. CASE UNCHANGED stagingVars
  BY <1>6 DEF stagingVars, StagingInv, StagingTypeOK, GatherAlone, RowsOnTheWay, CopiesOwnRows,
              BatchFits, PassesInOrder, PassesFindRows, IsForward
<1> QED
  BY <1>1, <1>2, <1>3, <1>4, <1>5, <1>6 DEF StagingNext

LEMMA StagingInvariant == StagingSpec => []StagingInv
<1>1. StagingInit => StagingInv
  BY StagingAssumption, InitInv
<1>2. StagingInv /\ [StagingNext]_stagingVars => StagingInv'
  BY StagingAssumption, NextInv
<1> QED
  BY <1>1, <1>2, PTL DEF StagingSpec

\* The pinned buffer is never written, nor replaced, while an asynchronous copy may still
\* read it, whatever the path (ple_layer.py:521-522): PinnedIsStable.
THEOREM PinnedStaysStable == StagingSpec => []PinnedIsStable
<1>1. StagingInv => PinnedIsStable
  BY DEF StagingInv, GatherAlone, PinnedIsStable, CopyPending
<1> QED
  BY <1>1, StagingInvariant, PTL

\* Every copy that has yet to run will take the rows of its own step
\* (ple_mmap.py:150-176): CopiesOwnRows.
THEOREM CopiesTakeOwnRows == StagingSpec => []CopiesOwnRows
<1>1. StagingInv => CopiesOwnRows
  BY DEF StagingInv
<1> QED
  BY <1>1, StagingInvariant, PTL

\* A pass reads what StepInputs lets it read.
LEMMA ExecuteImplements ==
    ASSUME StagingAssumption, StagingInv, Execute
    PROVE  Steps!StepsNext \/ UNCHANGED out
<1> DEFINE e == Head(stream)
<1>1. CASE e.op # "forward"
  BY <1>1 DEF Execute
<1>2. CASE e.op = "forward"
  <2>1. stream # << >> /\ stream \in Seq(Ops) /\ Len(stream) \in Nat /\ DOMAIN stream = 1 .. Len(stream)
    BY OpsHaveSteps DEF Execute, StagingInv
  <2>2. 1 \in DOMAIN stream /\ e = stream[1]
    BY <2>1
  <2>3. out' = [step |-> e.step, rows |-> [i \in 1 .. e.to |-> staging[i]]]
    BY <1>2 DEF Execute
  <2> HIDE DEF e
  <2>4. IsForward(1)
    BY <1>2, <2>2 DEF IsForward
  <2>5. e.step \in Nat /\ e.step <= MaxSteps /\ out.step \in Nat /\ out.step < e.step
    <3>1. stream[1].step \in Nat /\ stream[1].step <= MaxSteps
      BY <2>2, OpsHaveSteps DEF StagingInv
    <3>2. out.step < stream[1].step
      BY <2>2, <2>4 DEF StagingInv, PassesInOrder
    <3>3. out.step \in Nat
      BY DEF StagingInv, PassesInOrder
    <3> QED
      BY <2>2, <3>1, <3>2, <3>3
  <2>6. e.step \in 1 .. MaxSteps
    BY <2>5 DEF StagingAssumption
  <2>7. /\ e.to \in 1 .. MaxTokens
        /\ \E n \in 0 .. e.to : Finds(stream, staging, 1, e.step, n, e.to)
    BY <2>2, <2>4 DEF StagingInv, PassesFindRows
  <2>8. PICK n \in 0 .. e.to : Finds(stream, staging, 1, e.step, n, e.to)
    BY <2>7
  <2>9. \A i \in 1 .. e.to : staging[i] = IF i <= n THEN e.step ELSE 0
    <3>1. 1 .. 1 - 1 = {}
      OBVIOUS
    <3> QED
      BY <2>8, <3>1 DEF Finds, Arrives
  <2>10. Steps!Forward(e.step, n, e.to)
    BY <2>3, <2>5, <2>9 DEF Steps!Forward, Steps!Rows
  <2> QED
    BY <2>6, <2>7, <2>10 DEF Steps!StepsNext
<1> QED
  BY <1>1, <1>2

\* Each pass reads the rows of its step and zeros in its padding (ple_layer.py:516-524):
\* the staging of rows implements StepInputs, which is ForwardReadsItsStep.
THEOREM StagingImplementsSteps == StagingSpec => ForwardReadsItsStep
<1>1. StagingInit => Steps!StepsInit
  BY DEF StagingInit, Steps!StepsInit
<1>2. StagingInv /\ [StagingNext]_stagingVars => [Steps!StepsNext]_out
  <2>1. SUFFICES ASSUME StagingInv, [StagingNext]_stagingVars
                 PROVE  Steps!StepsNext \/ UNCHANGED out
    OBVIOUS
  <2>2. CASE Execute
    BY <2>1, <2>2, StagingAssumption, ExecuteImplements
  <2>3. ASSUME NEW first \in 1 .. MaxTokens, ReadRows(first) \/ ReadFails(first)
        PROVE  UNCHANGED out
    BY <2>3 DEF ReadRows, ReadFails
  <2>4. CASE HostStep
    BY <2>4 DEF HostStep, WaitForIds, CopyRows, Launch
  <2>5. ASSUME NEW p \in 1 .. MaxTokens,
               PrepareDummy(p) \/ \E n \in 1 .. p : PrepareInputs(n, p)
        PROVE  UNCHANGED out
    BY <2>5 DEF PrepareDummy, PrepareInputs
  <2>6. CASE UNCHANGED stagingVars
    BY <2>6 DEF stagingVars
  <2> QED
    BY <2>1, <2>2, <2>3, <2>4, <2>5, <2>6 DEF StagingNext
<1> QED
  BY <1>1, <1>2, StagingInvariant, PTL DEF StagingSpec, ForwardReadsItsStep, Steps!StepsSpec

-----------------------------------------------------------------------------
\* A step that is prepared has its pass in the stream as soon as the host has nothing
\* left to do for it, and is executed when the pass is gone.
PassIsQueued ==
    host = "idle" /\ out.step < step =>
        \E j \in DOMAIN stream : IsForward(j) /\ stream[j].step = step

\* What the guards of the host's actions, of a read task and of the device ask for.
HostMoves ==
    \/ host = "ids" /\ stream = << >>
    \/ host = "gather" /\ reads = {}
    \/ host = "launch"
TaskMoves == reads # {}
DeviceMoves == stream # << >>

\* While a step is neither executed nor failed, one of them can move.
SomeoneMoves == out.step < step /\ host # "failed" => HostMoves \/ TaskMoves \/ DeviceMoves

\* What is left to do for the steps that are prepared: of the host, the tasks and the device.
HostWork ==
    CASE host = "ids" -> MaxTokens + 6
      [] host = "gather" -> 5
      [] host = "launch" -> 2
      [] OTHER -> 0
Work == HostWork + Cardinality(reads) + Len(stream)

IsPrepared ==
    \E p \in 1 .. MaxTokens : PrepareDummy(p) \/ \E n \in 1 .. p : PrepareInputs(n, p)

LEMMA WorkTyped ==
    ASSUME StagingAssumption, StagingTypeOK
    PROVE  /\ Len(stream) \in Nat /\ MaxTokens \in Nat
           /\ IsFiniteSet(reads) /\ Cardinality(reads) \in Nat
           /\ HostWork \in Nat
<1>1. IsFiniteSet(1 .. MaxTokens) /\ MaxTokens \in Nat
  BY FS_Interval DEF StagingAssumption
<1>2. IsFiniteSet(reads)
  BY <1>1, FS_Subset DEF StagingTypeOK
<1>3. HostWork \in Nat
  <2>1. MaxTokens + 6 \in Nat /\ 5 \in Nat /\ 2 \in Nat /\ 0 \in Nat
    BY <1>1
  <2> QED
    BY <2>1 DEF HostWork
<1> QED
  BY <1>1, <1>2, <1>3, OpsHaveSteps, FS_CardinalityType

\* The tasks of a gather are no more than its rows.
LEMMA TasksAreFew ==
    ASSUME NEW n \in Nat
    PROVE  IsFiniteSet(Tasks(n)) /\ Cardinality(Tasks(n)) \in Nat /\ Cardinality(Tasks(n)) <= n
<1>1. Tasks(n) \in SUBSET (1 .. n)
  BY DEF Tasks
<1>2. IsFiniteSet(1 .. n) /\ Cardinality(1 .. n) = n
  BY FS_Interval
<1> QED
  BY <1>1, <1>2, FS_Subset, FS_CardinalityType

LEMMA QueuedInit == ASSUME StagingInit PROVE PassIsQueued
BY DEF StagingInit, PassIsQueued, Steps!NoForward

LEMMA LaunchQueues ==
    ASSUME StagingAssumption, StagingInv, Launch PROVE PassIsQueued'
<1> DEFINE ops == <<Forward(step, batch.padded)>>
<1>1. ops \in Seq(Ops) /\ Len(ops) = 1 /\ ops[1].op = "forward" /\ ops[1].step = step
  <2>1. batch.padded \in 0 .. MaxTokens /\ step \in 0 .. MaxSteps /\ 1 \in Nat
    BY DEF StagingInv, StagingTypeOK
  <2>2. Forward(step, batch.padded) \in Ops
    BY <2>1 DEF Forward, Ops
  <2> QED
    BY <2>2 DEF Forward
<1>2. stream \in Seq(Ops) /\ Len(stream) \in Nat
  BY OpsHaveSteps DEF StagingInv
<1>3. stream' = stream \o ops /\ step' = step
  BY DEF Launch, Enqueue
<1> HIDE DEF ops
<1>4. stream' \in Seq(Ops) /\ Len(stream') = Len(stream) + 1 /\ stream'[Len(stream) + 1] = ops[1]
  BY <1>1, <1>2, <1>3, Enqueued, SMTT(60)
<1>5. Len(stream) + 1 \in DOMAIN stream'
  BY <1>2, <1>4
<1> QED
  BY <1>1, <1>3, <1>4, <1>5 DEF PassIsQueued, IsForward

LEMMA ExecuteQueues ==
    ASSUME StagingAssumption, StagingInv, PassIsQueued, Execute PROVE PassIsQueued'
<1> SUFFICES ASSUME host = "idle", out'.step < step
             PROVE  \E j \in DOMAIN stream' : stream'[j].op = "forward" /\ stream'[j].step = step
  BY DEF Execute, PassIsQueued, IsForward
<1>1. stream # << >> /\ stream \in Seq(Ops) /\ Len(stream) \in Nat /\ DOMAIN stream = 1 .. Len(stream)
  BY OpsHaveSteps DEF Execute, StagingInv
<1>2. /\ stream' = Tail(stream) /\ Head(stream) = stream[1] /\ 1 \in DOMAIN stream
      /\ IF stream[1].op # "forward" THEN out' = out ELSE out'.step = stream[1].step
  <2> DEFINE e == Head(stream)
  <2>1. /\ stream' = Tail(stream)
        /\ out' = IF e.op # "forward" THEN out
                  ELSE [step |-> e.step, rows |-> [i \in 1 .. e.to |-> staging[i]]]
    BY DEF Execute
  <2>2. e = stream[1] /\ 1 \in DOMAIN stream
    BY <1>1
  <2> HIDE DEF e
  <2>3. IF e.op # "forward" THEN out' = out ELSE out'.step = e.step
    BY <2>1
  <2> QED
    BY <2>1, <2>2, <2>3 DEF e
<1>3. out.step < step
  <2>1. CASE stream[1].op # "forward"
    BY <1>2, <2>1
  <2>2. CASE stream[1].op = "forward"
    <3>1. out.step < stream[1].step /\ stream[1].step <= step /\ out.step \in Nat /\ step \in Nat
      BY <1>2, <2>2, SMTT(60) DEF StagingInv, PassesInOrder, IsForward, StagingTypeOK
    <3>2. stream[1].step \in Nat
      BY <1>2, OpsHaveSteps DEF StagingInv
    <3> QED
      BY <3>1, <3>2
  <2> QED
    BY <2>1, <2>2
<1>4. PICK j \in DOMAIN stream : stream[j].op = "forward" /\ stream[j].step = step
  BY <1>3 DEF PassIsQueued, IsForward
<1>5. j # 1
  <2> SUFFICES ASSUME j = 1 PROVE FALSE
    OBVIOUS
  <2>1. out'.step = step /\ step \in Nat
    BY <1>2, <1>4 DEF StagingInv, StagingTypeOK
  <2> QED
    BY <2>1
<1>6. j - 1 \in DOMAIN stream' /\ stream'[j - 1] = stream[j]
  BY <1>1, <1>2, <1>5
<1> QED
  BY <1>4, <1>6

LEMMA QueuedNext ==
    ASSUME StagingAssumption, StagingInv, PassIsQueued, [StagingNext]_stagingVars
    PROVE  PassIsQueued'
<1>1. ASSUME NEW p \in 1 .. MaxTokens,
             PrepareDummy(p) \/ \E n \in 1 .. p : PrepareInputs(n, p)
      PROVE  PassIsQueued'
  BY <1>1 DEF PrepareDummy, PrepareInputs, PassIsQueued
<1>2. CASE WaitForIds \/ CopyRows
  BY <1>2 DEF WaitForIds, CopyRows, PassIsQueued
<1>3. ASSUME NEW first \in 1 .. MaxTokens, ReadRows(first) \/ ReadFails(first) PROVE PassIsQueued'
  BY <1>3 DEF ReadRows, ReadFails, PassIsQueued, IsForward
<1>4. CASE UNCHANGED stagingVars
  BY <1>4 DEF stagingVars, PassIsQueued, IsForward
<1> QED
  BY <1>1, <1>2, <1>3, <1>4, LaunchQueues, ExecuteQueues DEF StagingNext, HostStep

\* The host's wait for the ids, the tasks of the pool and the device never wait on each
\* other in a circle, nor is a prepared step forgotten: the guard of one of them holds as
\* long as a step is neither executed nor failed (ple_layer.py:500-524).
THEOREM NobodyWaitsInACircle == StagingSpec => []SomeoneMoves
<1>1. StagingInit => PassIsQueued
  BY QueuedInit
<1>2. StagingInv /\ PassIsQueued /\ [StagingNext]_stagingVars => PassIsQueued'
  BY StagingAssumption, QueuedNext
<1>3. StagingInv /\ PassIsQueued => SomeoneMoves
  <2> SUFFICES ASSUME StagingInv, PassIsQueued, out.step < step, host # "failed"
               PROVE  HostMoves \/ TaskMoves \/ DeviceMoves
    BY DEF SomeoneMoves
  <2>1. CASE host = "idle"
    <3>1. \E j \in DOMAIN stream : IsForward(j)
      BY <2>1 DEF PassIsQueued
    <3>2. DOMAIN << >> = {}
      OBVIOUS
    <3> QED
      BY <3>1, <3>2 DEF DeviceMoves
  <2>2. CASE host # "idle"
    <3>1. host \in {"ids", "gather", "launch"}
      BY <2>2 DEF StagingInv, StagingTypeOK, HostStates
    <3> QED
      BY <3>1 DEF HostMoves, TaskMoves, DeviceMoves
  <2> QED
    BY <2>1, <2>2
<1> QED
  BY <1>1, <1>2, <1>3, StagingInvariant, PTL DEF StagingSpec

LEMMA HostWorks ==
    ASSUME StagingAssumption, StagingInv, HostStep PROVE Work' < Work
<1>1. /\ Len(stream) \in Nat /\ Cardinality(reads) \in Nat /\ MaxTokens \in Nat
      /\ stream \in Seq(Ops) /\ step \in 0 .. MaxSteps
      /\ batch.tokens \in 0 .. MaxTokens /\ batch.padded \in 0 .. MaxTokens
  BY WorkTyped, OpsHaveSteps DEF StagingInv, StagingTypeOK
<1>2. CASE WaitForIds
  <2>1. Cardinality(reads') \in Nat /\ Cardinality(reads') <= MaxTokens
    <3>1. batch.tokens \in Nat /\ batch.tokens <= MaxTokens /\ reads' = Tasks(batch.tokens)
      BY <1>1, <1>2 DEF WaitForIds
    <3> QED
      BY <1>1, <3>1, TasksAreFew, SMTT(60)
  <2>2. HostWork = MaxTokens + 6 /\ HostWork' = 5 /\ stream' = stream
    BY <1>2 DEF WaitForIds, HostWork
  <2> QED
    BY <1>1, <2>1, <2>2 DEF Work
<1>3. CASE CopyRows
  <2> DEFINE n == batch.tokens
             tail == IF batch.padded > n THEN <<Zero(n + 1, batch.padded)>> ELSE << >>
             ops == <<Copy(step, n)>> \o tail
  <2>1. ops \in Seq(Ops) /\ Len(ops) \in Nat /\ Len(ops) <= 2
    <3>1. Copy(step, n) \in Ops /\ Zero(n + 1, batch.padded) \in Ops
      BY <1>1 DEF Copy, Zero, Ops, StagingAssumption
    <3>2. <<Copy(step, n)>> \in Seq(Ops) /\ tail \in Seq(Ops) /\ Len(tail) <= 1 /\ Len(tail) \in Nat
      BY <3>1
    <3> HIDE DEF tail
    <3> QED
      BY <3>2
  <2>2. stream' = stream \o ops /\ reads' = reads
    BY <1>3 DEF CopyRows, Enqueue
  <2> HIDE DEF ops
  <2>3. Len(stream') = Len(stream) + Len(ops)
    BY <1>1, <2>1, <2>2, Enqueued
  <2>4. HostWork = 5 /\ HostWork' = 2
    BY <1>3 DEF CopyRows, HostWork
  <2> QED
    BY <1>1, <2>1, <2>2, <2>3, <2>4 DEF Work
<1>4. CASE Launch
  <2> DEFINE ops == <<Forward(step, batch.padded)>>
  <2>1. ops \in Seq(Ops) /\ Len(ops) = 1
    <3>1. Forward(step, batch.padded) \in Ops
      BY <1>1 DEF Forward, Ops
    <3> QED
      BY <3>1
  <2>2. stream' = stream \o ops /\ reads' = reads
    BY <1>4 DEF Launch, Enqueue
  <2> HIDE DEF ops
  <2>3. Len(stream') = Len(stream) + Len(ops)
    BY <1>1, <2>1, <2>2, Enqueued
  <2>4. HostWork = 2 /\ HostWork' = 0
    BY <1>4 DEF Launch, HostWork
  <2> QED
    BY <1>1, <2>1, <2>2, <2>3, <2>4 DEF Work
<1> QED
  BY <1>2, <1>3, <1>4 DEF HostStep

LEMMA TaskWorks ==
    ASSUME StagingAssumption, StagingInv, NEW first \in 1 .. MaxTokens,
           ReadRows(first) \/ ReadFails(first)
    PROVE  Work' < Work
<1>1. /\ Len(stream) \in Nat /\ IsFiniteSet(reads) /\ Cardinality(reads) \in Nat
      /\ HostWork \in Nat
  BY WorkTyped DEF StagingInv
<1>2. first \in reads /\ reads' = reads \ {first} /\ stream' = stream
  BY DEF ReadRows, ReadFails
<1>3. Cardinality(reads') = Cardinality(reads) - 1
  BY <1>1, <1>2, FS_RemoveElement
<1>4. HostWork' \in Nat /\ HostWork' <= HostWork
  <2>1. CASE ReadRows(first)
    BY <1>1, <2>1 DEF ReadRows, HostWork
  <2>2. CASE ReadFails(first)
    BY <2>2 DEF ReadFails, HostWork
  <2> QED
    BY <2>1, <2>2
<1> QED
  BY <1>1, <1>2, <1>3, <1>4 DEF Work

LEMMA DeviceWorks ==
    ASSUME StagingAssumption, StagingInv, Execute PROVE Work' < Work
<1>1. /\ stream \in Seq(Ops) /\ Len(stream) \in Nat /\ Cardinality(reads) \in Nat
      /\ HostWork \in Nat
  BY WorkTyped, OpsHaveSteps DEF StagingInv
<1>2. stream # << >> /\ stream' = Tail(stream) /\ reads' = reads
  BY DEF Execute
<1>3. Len(stream') = Len(stream) - 1
  BY <1>1, <1>2
<1>4. HostWork' = HostWork
  BY DEF Execute, HostWork
<1> QED
  BY <1>1, <1>2, <1>3, <1>4 DEF Work

\* What is left to do is a number that every step of the host, of a task and of the device
\* makes smaller: only a new step adds to it, so nothing goes on for ever for one that is
\* prepared.  With NobodyWaitsInACircle this is the argument why prepared steps are
\* executed (ple_layer.py:500-524).
THEOREM WorkRunsOut ==
    StagingSpec => /\ [](Work \in Nat)
                   /\ [][IsPrepared \/ Work' < Work]_stagingVars
<1>1. StagingInv => Work \in Nat
  BY StagingAssumption, WorkTyped DEF StagingInv, Work
<1>2. StagingInv /\ [StagingNext]_stagingVars => [IsPrepared \/ Work' < Work]_stagingVars
  BY StagingAssumption, HostWorks, TaskWorks, DeviceWorks DEF StagingNext, IsPrepared
<1> QED
  BY <1>1, <1>2, StagingInvariant, PTL DEF StagingSpec

-----------------------------------------------------------------------------
\* The multiplier of a layer is small enough for the layer's vocabulary.
LEMMA MultiplierFits ==
    ASSUME HashAssumption, NEW vocab \in 1 .. IntMax, NEW mixed \in Nat
    PROVE  Multiplier(mixed, vocab) \in Nat /\ (vocab - 1) * Multiplier(mixed, vocab) <= IntMax
<1> DEFINE most == IntMax \div vocab
           half == IF most \div 2 > 1 THEN most \div 2 ELSE 1
           m == 2 * (mixed % half) + 1
<1>1. IntMax \in Nat /\ vocab \in Nat \ {0} /\ vocab <= IntMax
  BY DEF HashAssumption
<1>2. most \in Nat /\ most * vocab <= IntMax
  <2>1. most \in Int /\ IntMax % vocab \in 0 .. vocab - 1 /\ IntMax = most * vocab + (IntMax % vocab)
    BY <1>1, Division
  <2>2. most \in Nat
    BY <1>1
  <2> QED
    BY <1>1, <2>1, <2>2
<1>3. Multiplier(mixed, vocab) = m
  BY DEF Multiplier
<1> HIDE DEF most
<1>4. half \in Nat \ {0} /\ (half = 1 \/ 2 * half <= most)
  BY <1>2
<1> HIDE DEF half
<1>5. mixed % half \in 0 .. half - 1
  <2>1. mixed \in Int
    OBVIOUS
  <2> QED
    BY <1>4, <2>1, Division
<1>6. m \in Nat /\ (m = 1 \/ m <= most)
  BY <1>2, <1>4, <1>5
<1> HIDE DEF m
<1>7. (vocab - 1) * m <= IntMax
  <2>1. CASE m = 1
    BY <1>1, <2>1
  <2>2. CASE m <= most
    <3>1. (vocab - 1) * m <= vocab * m /\ vocab - 1 \in Nat
      BY <1>1, <1>6, MultiplesInOrder
    <3>2. m * vocab <= most * vocab
      BY <1>1, <1>2, <1>6, <2>2, MultiplesInOrder
    <3>3. vocab * m = m * vocab /\ m * vocab \in Int /\ most * vocab \in Int /\ (vocab - 1) * m \in Int
      BY <1>1, <1>2, <1>6
    <3> QED
      BY <1>1, <1>2, <3>1, <3>2, <3>3
  <2> QED
    BY <1>6, <2>1, <2>2
<1> QED
  BY <1>3, <1>6, <1>7

\* The heads' rows follow each other.
LEMMA OffsetsFollow ==
    ASSUME NumHeads \in Nat \ {0}, NEW sizes, \A h \in Heads : sizes[h] \in Nat \ {0}
    PROVE  /\ \A h \in 0 .. NumHeads : HeadOffset(sizes, h) \in Nat
           /\ \A h \in 0 .. NumHeads, g \in Heads :
                g < h => HeadOffset(sizes, g) + sizes[g] <= HeadOffset(sizes, h)
<1>1. 0 \in Int /\ NumHeads \in Int /\ 0 <= NumHeads /\ \A x \in 0 .. NumHeads - 1 : sizes[x] \in Nat
  BY DEF Heads
<1> QED
  BY <1>1, PartialSums DEF HeadOffset, Heads

\* The row for a hash, whatever its sign, is that of the remainder.
LEMMA RowIdOf ==
    ASSUME NEW hash \in Int, NEW size \in Nat \ {0}, NEW offset \in Int
    PROVE  /\ RowId(hash, size, offset) - offset \in 0 .. size - 1
           /\ RowId(hash, size, offset) \in Int
           /\ (RowId(hash, size, offset) - offset - hash) % size = 0
<1> DEFINE r == Remainder(hash, size)
           p == IF r < 0 THEN r + size ELSE r
<1>1. r \in Int /\ p \in 0 .. size - 1 /\ \E k \in Int : p - hash = k * size
  <2>1. CASE hash >= 0
    <3> DEFINE q == hash \div size
    <3>1. q \in Int /\ r \in 0 .. size - 1 /\ hash = q * size + r
      BY <2>1, Division DEF Remainder
    <3> HIDE DEF q, r
    <3>2. p = r /\ r - hash = (-q) * size /\ -q \in Int
      BY <3>1
    <3> QED
      BY <3>1, <3>2
  <2>2. CASE hash < 0
    <3> DEFINE a == -hash
               q == a \div size
               s == a % size
    <3>1. a \in Int /\ hash = -a
      OBVIOUS
    <3>2. r = -s
      BY <2>2 DEF Remainder
    <3> HIDE DEF a, r
    <3>3. q \in Int /\ s \in 0 .. size - 1 /\ a = q * size + s
      BY <3>1, Division
    <3> HIDE DEF q, s
    <3>4. CASE s = 0
      <4>1. r = 0 /\ p = 0
        <5>1. s \in Int /\ r \in Int /\ r + s = 0
          BY <3>2, <3>3
        <5> QED
          BY <3>4, <5>1
      <4>2. p - hash = q * size
        BY <3>1, <3>3, <3>4, <4>1
      <4> QED
        BY <3>2, <3>3, <3>4, <4>1, <4>2
    <3>5. CASE s # 0
      <4>1. p = size - s /\ p \in 0 .. size - 1
        BY <3>2, <3>3, <3>5
      <4> HIDE DEF p
      <4>2. q + 1 \in Int /\ q * size + size = (q + 1) * size
        BY <3>3
      <4>3. p - hash = (q + 1) * size
        BY <3>1, <3>3, <4>1, <4>2
      <4>4. r \in Int
        BY <3>2, <3>3
      <4> QED
        BY <4>1, <4>2, <4>3, <4>4
    <3> QED
      BY <3>4, <3>5
  <2> QED
    BY <2>1, <2>2
<1>2. RowId(hash, size, offset) = p + offset
  BY DEF RowId
<1> HIDE DEF p
<1>3. (p - hash) % size = 0
  BY <1>1, Multiple
<1>4. RowId(hash, size, offset) - offset = p
  BY <1>1, <1>2
<1> QED
  BY <1>1, <1>2, <1>3, <1>4

\* What fits the width is not changed by wrapping.
LEMMA WrappedFits ==
    ASSUME HashAssumption, NEW n \in 0 .. IntMax
    PROVE  Wrapped(n) = n
<1> DEFINE w == 2 * (IntMax + 1)
           r == n + IntMax + 1
<1>1. IntMax \in Nat
  BY DEF HashAssumption
<1>2. w \in Nat \ {0} /\ r \in 0 .. w - 1 /\ r - (IntMax + 1) = n
  BY <1>1
<1>3. Wrapped(n) = (r % w) - (IntMax + 1)
  BY DEF Wrapped
<1> HIDE DEF w, r
<1>4. r % w = r
  <2>1. (0 * w + r) % w = r
    BY <1>2, Quotient
  <2>2. 0 * w + r = r
    BY <1>2
  <2> QED
    BY <2>1, <2>2
<1> QED
  BY <1>2, <1>3, <1>4

\* The inductive invariant: how a built layer got what its hash uses.
HashInv ==
    \/ layer = NoLayer
    \/ /\ layer.vocab \in 1 .. IntMax
       /\ \E mixed \in Nat : layer.multiplier = Multiplier(mixed, layer.vocab)
       /\ layer.offsets = [h \in Heads |-> HeadOffset(layer.sizes, h)]
       /\ layer.rows = PaddedRows(TotalRows(layer.sizes))

LEMMA HashInvHolds == HashSpec => []HashInv
<1>1. HashInit => HashInv
  BY DEF HashInit, HashInv
<1>2. HashInv /\ [HashNext]_layer => HashInv'
  <2> SUFFICES ASSUME HashInv, [HashNext]_layer
               PROVE  HashInv'
    OBVIOUS
  <2>1. ASSUME NEW vocab \in UnigramVocabs, NEW mixed \in Mixed, NEW base \in Bases,
               NEW id \in Layers, BuildLayer(vocab, mixed, base, id)
        PROVE  HashInv'
    <3>1. vocab \in 1 .. IntMax /\ mixed \in Nat
      BY HashAssumption DEF HashAssumption
    <3> QED
      BY <2>1, <3>1 DEF BuildLayer, HashInv
  <2>2. CASE UNCHANGED layer
    BY <2>2 DEF HashInv
  <2> QED
    BY <2>1, <2>2 DEF HashNext
<1> QED
  BY <1>1, <1>2, PTL DEF HashSpec

\* Whatever the width, the vocabulary and the number splitmix64 gives, no product of a
\* token with the layer's multiplier leaves the width (ple_layer.py:271-276): ProductsFit.
THEOREM ProductsStayInWidth == HashSpec => []ProductsFit
<1>1. HashInv => ProductsFit
  <2> SUFFICES ASSUME HashInv, layer.built, NEW token \in 0 .. layer.vocab - 1
               PROVE  Wrapped(token * layer.multiplier) = token * layer.multiplier
    BY DEF ProductsFit
  <2> DEFINE vocab == layer.vocab
             m == layer.multiplier
  <2>1. layer # NoLayer
    BY DEF NoLayer
  <2>2. vocab \in 1 .. IntMax /\ \E mixed \in Nat : m = Multiplier(mixed, vocab)
    BY <2>1 DEF HashInv
  <2>3. m \in Nat /\ (vocab - 1) * m <= IntMax
    BY <2>2, HashAssumption, MultiplierFits
  <2>4. IntMax \in Nat
    BY HashAssumption DEF HashAssumption
  <2>5. vocab \in Nat /\ token \in 0 .. vocab - 1
    BY <2>2, <2>4
  <2> HIDE DEF vocab, m
  <2>6. token * m \in 0 .. IntMax
    <3>1. 0 * m <= token * m /\ token * m <= (vocab - 1) * m
      BY <2>3, <2>5, MultiplesInOrder
    <3>2. token * m \in Int /\ (vocab - 1) * m \in Int /\ 0 * m = 0
      BY <2>3, <2>5
    <3> QED
      BY <2>3, <2>4, <3>1, <3>2
  <2>7. Wrapped(token * m) = token * m
    BY <2>6, HashAssumption, WrappedFits
  <2> QED
    BY <2>7 DEF m
<1> QED
  BY <1>1, HashInvHolds, PTL

\* For any number of heads and any hash, negative ones included: while the sizes are primes
\* (of which no more is used than that they are positive), a hash of a head falls among
\* the rows of that head and of no other, and within the padded table
\* (ple_layer.py:288-297, ops_ple.py:88-94): IdsInOwnRows.
THEOREM IdsStayInOwnRows == HashSpec => [](SizesArePrimes => IdsInOwnRows)
<1>1. HashInv /\ SizesArePrimes => IdsInOwnRows
  <2> SUFFICES ASSUME HashInv, SizesArePrimes, layer.built,
                      NEW hash \in -(IntMax + 1) .. IntMax, NEW h \in Heads
               PROVE  LET id == RowId(hash, layer.sizes[h], layer.offsets[h])
                      IN  /\ id \in 0 .. layer.rows - 1
                          /\ (id - layer.offsets[h] - hash) % layer.sizes[h] = 0
                          /\ \A g \in Heads \ {h} :
                               id \notin layer.offsets[g] .. layer.offsets[g] + layer.sizes[g] - 1
    BY DEF IdsInOwnRows
  <2> DEFINE sizes == layer.sizes
             offset(g) == HeadOffset(sizes, g)
             id == RowId(hash, sizes[h], offset(h))
  <2>1. layer # NoLayer
    BY DEF NoLayer
  <2>2. /\ \A g \in Heads : layer.offsets[g] = offset(g)
        /\ layer.rows = PaddedRows(offset(NumHeads))
    BY <2>1 DEF HashInv, TotalRows
  <2>3. \A g \in Heads : sizes[g] \in Nat \ {0}
    <3>1. \A g \in Heads : IsPrime(sizes[g])
      BY DEF SizesArePrimes
    <3> HIDE DEF sizes
    <3>2. \A n : IsPrime(n) => n \in Nat \ {0}
      BY DEF IsPrime
    <3> QED
      BY <3>1, <3>2
  <2>4. NumHeads \in Nat \ {0} /\ Divisor \in Nat \ {0} /\ hash \in Int
    BY HashAssumption DEF HashAssumption
  <2> HIDE DEF sizes
  <2>5. /\ \A g \in 0 .. NumHeads : offset(g) \in Nat
        /\ \A f \in 0 .. NumHeads, g \in Heads : g < f => offset(g) + sizes[g] <= offset(f)
    BY <2>3, <2>4, OffsetsFollow
  <2> HIDE DEF offset
  <2>6. Heads \subseteq 0 .. NumHeads /\ \A g \in Heads : g \in Int /\ g < NumHeads
    BY <2>4 DEF Heads
  <2>7. /\ id \in Int /\ id - offset(h) \in 0 .. sizes[h] - 1
        /\ (id - offset(h) - hash) % sizes[h] = 0
    <3> DEFINE size == sizes[h]
               from == offset(h)
    <3>1. size \in Nat \ {0} /\ from \in Int
      BY <2>3, <2>5, <2>6
    <3> HIDE DEF size, from
    <3>2. /\ RowId(hash, size, from) - from \in 0 .. size - 1 /\ RowId(hash, size, from) \in Int
          /\ (RowId(hash, size, from) - from - hash) % size = 0
      BY <2>4, <3>1, RowIdOf
    <3> QED
      BY <3>2 DEF size, from
  <2> HIDE DEF id
  <2>8. offset(h) + sizes[h] <= layer.rows /\ layer.rows \in Nat
    <3>1. offset(NumHeads) \in Nat /\ offset(h) + sizes[h] <= offset(NumHeads)
      BY <2>4, <2>5, <2>6
    <3>2. layer.rows \in Nat /\ offset(NumHeads) <= layer.rows
      BY <2>2, <2>4, <3>1, RoundedUp DEF PaddedRows
    <3> QED
      BY <2>3, <2>5, <2>6, <3>1, <3>2
  <2>9. id \in 0 .. layer.rows - 1
    BY <2>3, <2>5, <2>6, <2>7, <2>8
  <2>10. ASSUME NEW g \in Heads \ {h}
         PROVE  id \notin offset(g) .. offset(g) + sizes[g] - 1
    <3>1. CASE g < h
      BY <2>3, <2>5, <2>6, <2>7, <3>1
    <3>2. CASE h < g
      BY <2>3, <2>5, <2>6, <2>7, <3>2
    <3> QED
      BY <2>6, <3>1, <3>2
  <2> QED
    BY <2>2, <2>7, <2>9, <2>10 DEF id, sizes
<1> QED
  BY <1>1, HashInvHolds, PTL

-----------------------------------------------------------------------------
\* What the search for the next number that passes satisfies.
Searches(f) == f = [c \in Nat |-> IF IsPrime64(c) THEN c ELSE f[c + 2]]

\* There is a function as the search asks for, although its recursion need not end.
LEMMA SearchExists == \E f : Searches(f)
<1> DEFINE hits(c) == {j \in Nat : IsPrime64(c + 2 * j)}
           IsFirst(c, j) == j \in hits(c) /\ \A i \in hits(c) : j <= i
           first(c) == CHOOSE j : IsFirst(c, j)
           f == [c \in Nat |-> IF hits(c) = {} THEN 0 ELSE c + 2 * first(c)]
<1>1. ASSUME NEW c \in Nat, NEW j, IsFirst(c, j) PROVE first(c) = j
  <2>1. IsFirst(c, first(c))
    <3> HIDE DEF IsFirst
    <3> QED
      BY <1>1
  <2> HIDE DEF first
  <2> QED
    BY <1>1, <2>1
<1>2. ASSUME NEW c \in Nat, hits(c) # {} PROVE IsFirst(c, first(c))
  <2>1. \E j : IsFirst(c, j)
    <3>1. hits(c) \in SUBSET Nat
      OBVIOUS
    <3> HIDE DEF hits
    <3> QED
      BY <1>2, <3>1, LeastNat
  <2> HIDE DEF IsFirst
  <2> QED
    BY <2>1
<1> HIDE DEF first
<1>3. ASSUME NEW c \in Nat PROVE f[c] = IF IsPrime64(c) THEN c ELSE f[c + 2]
  <2>1. f[c] = (IF hits(c) = {} THEN 0 ELSE c + 2 * first(c)) /\ c + 2 \in Nat
        /\ f[c + 2] = (IF hits(c + 2) = {} THEN 0 ELSE c + 2 + 2 * first(c + 2))
    OBVIOUS
  <2> HIDE DEF f
  <2>2. CASE IsPrime64(c)
    <3>1. c + 2 * 0 = c
      OBVIOUS
    <3>2. IsFirst(c, 0)
      BY <2>2, <3>1
    <3>3. first(c) = 0
      BY <1>1, <3>2
    <3> QED
      BY <2>1, <2>2, <3>1, <3>2, <3>3
  <2>3. CASE ~IsPrime64(c)
    <3>1. ASSUME NEW j \in hits(c) PROVE j - 1 \in hits(c + 2) /\ j \in Nat
      <4>1. j # 0
        <5>1. c + 2 * 0 = c
          OBVIOUS
        <5> QED
          BY <2>3, <5>1
      <4>2. j - 1 \in Nat /\ (c + 2) + 2 * (j - 1) = c + 2 * j
        BY <4>1
      <4> QED
        BY <4>2
    <3>2. ASSUME NEW j \in hits(c + 2) PROVE j + 1 \in hits(c) /\ j \in Nat
      <4>1. j + 1 \in Nat /\ (c + 2) + 2 * j = c + 2 * (j + 1)
        OBVIOUS
      <4> QED
        BY <4>1
    <3> HIDE DEF hits
    <3>3. CASE hits(c + 2) = {}
      <4>1. hits(c) = {}
        BY <3>1, <3>3
      <4> QED
        BY <2>1, <2>3, <3>3, <4>1
    <3>4. CASE hits(c + 2) # {}
      <4> DEFINE j == first(c + 2)
      <4>1. IsFirst(c + 2, j)
        BY <1>2, <2>1, <3>4
      <4> HIDE DEF j
      <4>2. IsFirst(c, j + 1)
        <5>1. j + 1 \in hits(c) /\ j \in Nat
          BY <3>2, <4>1
        <5>2. ASSUME NEW i \in hits(c) PROVE j + 1 <= i
          BY <3>1, <4>1, <5>1
        <5> QED
          BY <5>1, <5>2
      <4>3. first(c) = j + 1 /\ j \in Nat /\ hits(c) # {}
        BY <1>1, <3>2, <4>1, <4>2
      <4> QED
        BY <2>1, <2>3, <3>4, <4>3 DEF j
    <3> QED
      BY <3>3, <3>4
  <2> QED
    BY <2>2, <2>3
<1>4. Searches(f)
  <2>1. f = [c \in Nat |-> f[c]]
    OBVIOUS
  <2> HIDE DEF f
  <2> QED
    BY <1>3, <2>1 DEF Searches
<1> QED
  BY <1>4

\* It finds the first number that passes, in steps of two.
LEMMA SearchFinds ==
    ASSUME NEW f, Searches(f), NEW c \in Nat, NEW k \in Nat, IsPrime64(c + 2 * k),
           \A i \in 0 .. k - 1 : ~IsPrime64(c + 2 * i)
    PROVE  f[c] = c + 2 * k
<1> DEFINE T == {j \in Nat : j <= k => f[c + 2 * (k - j)] = c + 2 * k}
<1>0. \A d \in Nat : f[d] = IF IsPrime64(d) THEN d ELSE f[d + 2]
  BY DEF Searches
<1>1. 0 \in T
  <2>1. c + 2 * k \in Nat /\ k - 0 = k
    OBVIOUS
  <2> QED
    BY <1>0, <2>1
<1>2. ASSUME NEW j \in Nat, j \in T PROVE j + 1 \in T
  <2> SUFFICES ASSUME j + 1 <= k PROVE f[c + 2 * (k - (j + 1))] = c + 2 * k
    OBVIOUS
  <2> DEFINE i == k - (j + 1)
             d == c + 2 * i
  <2>1. i \in 0 .. k - 1 /\ d \in Nat /\ d + 2 = c + 2 * (k - j)
    OBVIOUS
  <2>2. f[d + 2] = c + 2 * k
    BY <1>2, <2>1
  <2>3. ~IsPrime64(d)
    BY <2>1
  <2> QED
    BY <1>0, <2>1, <2>2, <2>3
<1>3. k \in T
  <2> HIDE DEF T
  <2> QED
    BY <1>1, <1>2, NatInSet
<1>4. k - k = 0 /\ c + 2 * 0 = c
  OBVIOUS
<1> QED
  BY <1>3, <1>4

LEMMA PrimesAreOdd ==
    ASSUME NEW p, IsPrime(p)
    PROVE  p \in Nat /\ p >= 2 /\ (p # 2 => p % 2 = 1)
BY DEF IsPrime

\* From each number the search goes to the next prime.
LEMMA NextPrimeIs ==
    ASSUME NEW limit \in Nat, TestIsExact(limit), NEW n \in Nat, NEW p \in n + 1 .. limit,
           IsPrime(p), \A m \in n + 1 .. p - 1 : ~IsPrime(m)
    PROVE  NextPrime(n) = p
<1> DEFINE search == CHOOSE f : Searches(f)
           c == IF (n + 1) % 2 = 0 THEN n + 2 ELSE n + 1
<1>1. NextPrime(n) = IF n + 1 <= 2 THEN 2 ELSE search[c]
  BY DEF NextPrime, Searches
<1>2. Searches(search)
  BY SearchExists
<1> HIDE DEF search
<1>3. p \in Nat /\ p >= 2 /\ (p # 2 => p % 2 = 1)
  BY PrimesAreOdd
<1>4. CASE n + 1 <= 2
  <2>1. IsPrime(2)
    BY DEF IsPrime
  <2>2. 2 \in n + 1 .. p - 1 \/ p = 2
    BY <1>3, <1>4
  <2> QED
    BY <1>1, <1>4, <2>1, <2>2
<1>5. CASE n + 1 > 2
  <2>1. c \in Nat /\ c % 2 = 1 /\ n < c /\ c <= p
    BY <1>3, <1>5
  <2> HIDE DEF c
  <2> DEFINE k == (p - c) \div 2
  <2>2. p % 2 = 1
    BY <1>3, <1>5
  <2>3. k \in Nat /\ c + 2 * k = p
    BY <1>3, <2>1, <2>2
  <2> HIDE DEF k
  <2>4. IsPrime64(c + 2 * k)
    BY <2>3 DEF TestIsExact
  <2>5. ASSUME NEW i \in 0 .. k - 1 PROVE ~IsPrime64(c + 2 * i)
    <3>1. c + 2 * i \in n + 1 .. p - 1 /\ c + 2 * i \in 0 .. limit
      BY <2>1, <2>3
    <3> QED
      BY <3>1 DEF TestIsExact
  <2>6. search[c] = c + 2 * k
    BY <1>2, <2>1, <2>3, <2>4, <2>5, SearchFinds
  <2> QED
    BY <1>1, <1>5, <2>3, <2>6
<1> QED
  BY <1>4, <1>5

\* If there is a prime, the next one is the only one up to itself.
LEMMA NextOfSome ==
    ASSUME NEW limit \in Nat, TestIsExact(limit), NEW n \in Nat, NEW q \in n + 1 .. limit, IsPrime(q)
    PROVE  /\ NextPrime(n) \in n + 1 .. limit /\ IsPrime(NextPrime(n))
           /\ \A m \in n + 1 .. NextPrime(n) - 1 : ~IsPrime(m)
<1> DEFINE S == Primes(n + 1, limit)
<1>1. S \in SUBSET Nat /\ q \in S
  BY DEF Primes
<1>2. PICK p \in S : \A m \in S : p <= m
  <2> HIDE DEF S
  <2> QED
    BY <1>1, LeastNat
<1>3. p \in n + 1 .. limit /\ IsPrime(p)
  BY <1>2 DEF Primes
<1>4. \A m \in n + 1 .. p - 1 : ~IsPrime(m)
  BY <1>2, <1>3 DEF Primes
<1> QED
  BY <1>3, <1>4, NextPrimeIs

\* The k-th of the numbers taken is the k-th prime from the base on.
Taken(x, k, base) == x \in Nat /\ base <= x + 1 /\ Cardinality(Primes(base, x)) = k

LEMMA PrimesFinite ==
    ASSUME NEW a \in Int, NEW b \in Int
    PROVE  IsFiniteSet(Primes(a, b)) /\ Cardinality(Primes(a, b)) \in Nat
<1>1. Primes(a, b) \in SUBSET (a .. b)
  BY DEF Primes
<1> QED
  BY <1>1, FS_Interval, FS_Subset, FS_CardinalityType

LEMMA NextTaken ==
    ASSUME NEW limit \in Nat, TestIsExact(limit), NEW base \in Nat \ {0}, NEW k \in Nat,
           Cardinality(Primes(base, limit)) > k, NEW x, Taken(x, k, base)
    PROVE  LET y == NextPrime(x)
           IN  /\ Taken(y, k + 1, base) /\ IsPrime(y) /\ y \in base .. limit
               /\ Cardinality(Primes(base, y - 1)) = k
<1>1. x \in Nat /\ base <= x + 1 /\ Cardinality(Primes(base, x)) = k
  BY DEF Taken
<1>2. \E q \in x + 1 .. limit : IsPrime(q)
  <2> SUFFICES ASSUME \A q \in x + 1 .. limit : ~IsPrime(q) PROVE FALSE
    OBVIOUS
  <2>1. Primes(base, limit) \in SUBSET Primes(base, x)
    BY <1>1 DEF Primes
  <2>2. Cardinality(Primes(base, limit)) <= Cardinality(Primes(base, x))
    BY <1>1, <2>1, PrimesFinite, FS_Subset
  <2>3. Cardinality(Primes(base, limit)) \in Nat
    BY PrimesFinite
  <2> QED
    BY <1>1, <2>2, <2>3
<1> DEFINE y == NextPrime(x)
<1>3. y \in x + 1 .. limit /\ IsPrime(y) /\ \A m \in x + 1 .. y - 1 : ~IsPrime(m)
  BY <1>1, <1>2, NextOfSome
<1> HIDE DEF y
<1>4. y \in Nat /\ base <= y /\ y \in base .. limit
  BY <1>1, <1>3
<1>5. Primes(base, y - 1) = Primes(base, x)
  BY <1>1, <1>3, <1>4 DEF Primes
<1>6. Primes(base, y) = Primes(base, x) \cup {y} /\ y \notin Primes(base, x)
  BY <1>1, <1>3, <1>4 DEF Primes
<1>7. Cardinality(Primes(base, y)) = k + 1
  <2>1. base \in Int /\ x \in Int
    BY <1>1
  <2>2. IsFiniteSet(Primes(base, x))
    BY <2>1, PrimesFinite
  <2>3. Cardinality(Primes(base, x) \cup {y}) = Cardinality(Primes(base, x)) + 1
    BY <1>6, <2>2, FS_AddElement
  <2> QED
    BY <1>1, <1>6, <2>3
<1> QED
  BY <1>1, <1>3, <1>4, <1>5, <1>7 DEF Taken, y

LEMMA NthPrimeIs ==
    ASSUME NEW limit \in Nat, TestIsExact(limit), NEW base \in Nat \ {0}, NEW count \in Nat \ {0},
           Cardinality(Primes(base, limit)) >= count
    PROVE  LET p == NthPrimeAfter(base - 1, count)
           IN  IsPrime(p) /\ p \in base .. limit /\ Cardinality(Primes(base, p - 1)) = count - 1
<1> DEFINE Eq(f) == f = [k \in 0 .. count |-> IF k = 0 THEN base - 1 ELSE NextPrime(f[k - 1])]
           after == CHOOSE f : Eq(f)
           next == [x \in Nat |-> IF NextPrime(x) \in Nat THEN NextPrime(x) ELSE 0]
           steps == [k \in 1 .. count |-> next]
<1>1. NthPrimeAfter(base - 1, count) = after[count]
  BY DEF NthPrimeAfter
<1>2. base - 1 \in Nat /\ Cardinality(Primes(base, limit)) \in Nat
  BY PrimesFinite
<1>3. Taken(base - 1, 0, base)
  <2>1. Primes(base, base - 1) = {}
    BY DEF Primes
  <2> QED
    BY <1>2, <2>1, FS_EmptySet DEF Taken
<1>4. ASSUME NEW k \in 0 .. count - 1, NEW x, Taken(x, k, base)
      PROVE  LET y == NextPrime(x)
             IN  /\ Taken(y, k + 1, base) /\ IsPrime(y) /\ y \in base .. limit
                 /\ Cardinality(Primes(base, y - 1)) = k
  <2>1. k \in Nat /\ Cardinality(Primes(base, limit)) > k
    BY <1>2, <1>4
  <2> QED
    BY <1>4, <2>1, NextTaken
<1>5. PICK f \in [0 .. count -> Nat] : Recurs(f, count, base - 1, steps)
  <2>1. steps \in [1 .. count -> [Nat -> Nat]]
    OBVIOUS
  <2> HIDE DEF steps
  <2> QED
    BY <1>2, <2>1, RecursionUpTo
<1>6. f[0] = base - 1 /\ \A k \in 1 .. count : f[k] = next[f[k - 1]]
  BY <1>5 DEF Recurs
<1>7. \A k \in 0 .. count : Taken(f[k], k, base)
  <2> DEFINE T == {k \in Nat : k <= count => Taken(f[k], k, base)}
  <2>1. 0 \in T
    BY <1>3, <1>6
  <2>2. ASSUME NEW k \in Nat, k \in T PROVE k + 1 \in T
    <3> SUFFICES ASSUME k + 1 <= count PROVE Taken(f[k + 1], k + 1, base)
      OBVIOUS
    <3>1. k + 1 \in 1 .. count /\ (k + 1) - 1 = k /\ k \in 0 .. count - 1 /\ k <= count
      OBVIOUS
    <3>2. f[k] \in Nat /\ Taken(f[k], k, base)
      BY <2>2, <3>1
    <3>3. Taken(NextPrime(f[k]), k + 1, base)
      BY <1>4, <3>1, <3>2
    <3>4. f[k + 1] = next[f[k]]
      BY <1>6, <3>1
    <3>5. f[k + 1] = NextPrime(f[k])
      BY <3>2, <3>3, <3>4 DEF Taken
    <3> QED
      BY <3>3, <3>5
  <2>3. Nat \subseteq T
    <3> HIDE DEF T
    <3> QED
      BY <2>1, <2>2, NatInSet
  <2> QED
    BY <2>3
<1>8. Eq(f)
  <2>1. \A k \in 0 .. count : f[k] = IF k = 0 THEN base - 1 ELSE NextPrime(f[k - 1])
    <3> SUFFICES ASSUME NEW k \in 0 .. count
                 PROVE  f[k] = IF k = 0 THEN base - 1 ELSE NextPrime(f[k - 1])
      OBVIOUS
    <3>1. ASSUME k # 0 PROVE f[k] = NextPrime(f[k - 1])
      <4>1. k \in 1 .. count /\ k - 1 \in 0 .. count - 1 /\ k - 1 \in 0 .. count /\ (k - 1) + 1 = k
        BY <3>1
      <4>2. Taken(f[k - 1], k - 1, base) /\ f[k - 1] \in Nat
        BY <1>7, <4>1
      <4>3. NextPrime(f[k - 1]) \in Nat
        BY <1>4, <4>1, <4>2 DEF Taken
      <4>4. f[k] = next[f[k - 1]]
        BY <1>6, <4>1
      <4> QED
        BY <4>2, <4>3, <4>4
    <3> QED
      BY <1>6, <3>1
  <2> QED
    BY <2>1
<1>9. Eq(after)
  <2> HIDE DEF Eq
  <2> QED
    BY <1>8
<1> HIDE DEF after
<1>10. after[0] = base - 1 /\ \A k \in 1 .. count : after[k] = NextPrime(after[k - 1])
  <2>1. \A k \in 0 .. count : after[k] = IF k = 0 THEN base - 1 ELSE NextPrime(after[k - 1])
    BY <1>9
  <2>2. 0 \in 0 .. count /\ \A k \in 1 .. count : k \in 0 .. count /\ k # 0
    OBVIOUS
  <2> QED
    BY <2>1, <2>2
<1>11. \A k \in 0 .. count : Taken(after[k], k, base)
  <2> DEFINE T == {k \in Nat : k <= count => Taken(after[k], k, base)}
  <2>1. 0 \in T
    BY <1>3, <1>10
  <2>2. ASSUME NEW k \in Nat, k \in T PROVE k + 1 \in T
    <3> SUFFICES ASSUME k + 1 <= count PROVE Taken(after[k + 1], k + 1, base)
      OBVIOUS
    <3>1. k + 1 \in 1 .. count /\ (k + 1) - 1 = k /\ k \in 0 .. count - 1 /\ k <= count
      OBVIOUS
    <3>2. Taken(after[k], k, base)
      BY <2>2, <3>1
    <3>3. after[k + 1] = NextPrime(after[k])
      BY <1>10, <3>1
    <3> QED
      BY <1>4, <3>1, <3>2, <3>3
  <2>3. Nat \subseteq T
    <3> HIDE DEF T
    <3> QED
      BY <2>1, <2>2, NatInSet
  <2> QED
    BY <2>3
<1>12. count \in 1 .. count /\ count - 1 \in 0 .. count - 1 /\ count - 1 \in 0 .. count
  OBVIOUS
<1>13. after[count] = NextPrime(after[count - 1]) /\ Taken(after[count - 1], count - 1, base)
  BY <1>10, <1>11, <1>12
<1> QED
  BY <1>1, <1>4, <1>12, <1>13

\* How a built layer got its sizes.
SizesInv ==
    layer = NoLayer \/ /\ layer.base \in Bases /\ layer.id \in Layers
                       /\ layer.sizes = HeadSizes(layer.base, layer.id)

\* If the primality test is right up to a limit and each base has enough primes below it,
\* the heads of the layers have the consecutive primes from the base on, for any number of
\* layers and heads: none is composite, skipped or given to two (ple_layer.py:217-258):
\* SizesArePrimes.
THEOREM SizesStayPrimes ==
    ASSUME NEW limit \in Nat, TestIsExact(limit), EnoughPrimes(limit)
    PROVE  HashSpec => []SizesArePrimes
<1>1. HashInit => SizesInv
  BY DEF HashInit, SizesInv
<1>2. SizesInv /\ [HashNext]_layer => SizesInv'
  BY DEF SizesInv, HashNext, BuildLayer
<1>3. SizesInv => SizesArePrimes
  <2> SUFFICES ASSUME SizesInv, layer.built, NEW h \in Heads
               PROVE  LET size == layer.sizes[h]
                          smaller == {n \in layer.base .. size - 1 : IsPrime(n)}
                      IN  IsPrime(size) /\ Cardinality(smaller) = layer.id * NumHeads + h
    BY DEF SizesArePrimes
  <2> DEFINE base == layer.base
             id == layer.id
             count == id * NumHeads + h + 1
  <2>1. layer # NoLayer
    BY DEF NoLayer
  <2>2. base \in Bases /\ id \in Layers /\ layer.sizes = HeadSizes(base, id)
    BY <2>1 DEF SizesInv
  <2>3. base \in Nat \ {0} /\ NumHeads \in Nat \ {0} /\ NumLayers \in Nat \ {0}
    BY <2>2, HashAssumption DEF HashAssumption
  <2> HIDE DEF base, id
  <2>4. id \in 0 .. NumLayers - 1 /\ h \in 0 .. NumHeads - 1
    BY <2>2 DEF Layers, Heads
  <2>5. id * NumHeads \in Nat /\ id * NumHeads + NumHeads <= NumLayers * NumHeads
        /\ NumLayers * NumHeads \in Nat
    <3>1. id < NumLayers /\ id \in Int /\ NumLayers \in Int /\ NumHeads \in Nat \ {0} /\ id >= 0
      BY <2>3, <2>4
    <3> QED
      BY <3>1, MultiplesInOrder, Multiple
  <2>6. count \in Nat \ {0} /\ count - 1 = id * NumHeads + h /\ count <= NumLayers * NumHeads
    BY <2>3, <2>4, <2>5
  <2> HIDE DEF count
  <2>7. Cardinality(Primes(base, limit)) >= count
    <3>1. Cardinality(Primes(base, limit)) >= NumLayers * NumHeads
      BY <2>2 DEF EnoughPrimes
    <3>2. base \in Int /\ limit \in Int
      BY <2>3
    <3>3. Cardinality(Primes(base, limit)) \in Nat
      BY <3>2, PrimesFinite
    <3> QED
      BY <2>5, <2>6, <3>1, <3>3
  <2>8. layer.sizes[h] = NthPrimeAfter(base - 1, count)
    BY <2>2 DEF HeadSizes, HeadSize, count
  <2>9. LET p == NthPrimeAfter(base - 1, count)
        IN  IsPrime(p) /\ p \in base .. limit /\ Cardinality(Primes(base, p - 1)) = count - 1
    BY <2>3, <2>6, <2>7, NthPrimeIs
  <2> QED
    BY <2>6, <2>8, <2>9 DEF Primes, base, id
<1> QED
  BY <1>1, <1>2, <1>3, PTL DEF HashSpec

\* Under the same hypotheses, a hash of a head falls among the rows of that head and of no
\* other, whatever else is true of the sizes (ple_layer.py:288-297): IdsInOwnRows.
THEOREM TestedIdsStayInOwnRows ==
    ASSUME NEW limit \in Nat, TestIsExact(limit), EnoughPrimes(limit)
    PROVE  HashSpec => []IdsInOwnRows
<1>1. HashSpec => []SizesArePrimes
  BY SizesStayPrimes
<1> QED
  BY <1>1, IdsStayInOwnRows, PTL

-----------------------------------------------------------------------------
\* Where the chunks of a batch start: qsl never falls.
Rising(qsl) ==
    /\ qsl \in [1 .. NumReqs + 1 -> Nat]
    /\ \A i, j \in 1 .. NumReqs + 1 : i <= j => qsl[i] <= qsl[j]

\* After each step the request of row t is between lo and hi, which are half as far apart.
LEMMA NarrowedRight ==
    ASSUME NumReqs \in Nat \ {0}, NEW qsl, Rising(qsl), NEW r \in Reqs, NEW t \in Nat,
           qsl[r] <= t, t < qsl[r + 1],
           NEW lo \in Nat, NEW hi \in Nat, lo <= r, r <= hi, hi <= NumReqs + 1
    PROVE  LET mid == (lo + hi) \div 2
               loaded == IF mid <= NumReqs THEN qsl[mid + 1] ELSE 0
           IN  /\ mid \in Nat
               /\ loaded <= t => mid + 1 <= r /\ 2 * (hi - (mid + 1)) <= hi - lo
               /\ ~(loaded <= t) => r <= mid /\ mid <= hi /\ 2 * (mid - lo) <= hi - lo
<1> DEFINE mid == (lo + hi) \div 2
           loaded == IF mid <= NumReqs THEN qsl[mid + 1] ELSE 0
<1>1. mid \in Nat /\ 2 * mid <= lo + hi /\ lo + hi <= 2 * mid + 1
  OBVIOUS
<1> HIDE DEF mid
<1>2. r \in Nat \ {0} /\ r <= NumReqs
  BY DEF Reqs
<1>3. mid <= NumReqs
  BY <1>1, <1>2
<1>4. mid + 1 \in 1 .. NumReqs + 1 /\ r \in 1 .. NumReqs + 1 /\ r + 1 \in 1 .. NumReqs + 1
  BY <1>1, <1>2, <1>3
<1>5. qsl[mid + 1] \in Nat /\ qsl[r] \in Nat /\ qsl[r + 1] \in Nat
  BY <1>4 DEF Rising
<1>6. CASE mid < r
  <2>1. qsl[mid + 1] <= qsl[r]
    BY <1>1, <1>2, <1>4, <1>6 DEF Rising
  <2>2. loaded <= t
    BY <1>3, <1>5, <2>1
  <2> HIDE DEF loaded
  <2> QED
    BY <1>1, <1>2, <1>6, <2>2 DEF mid, loaded
<1>7. CASE r <= mid
  <2>1. qsl[r + 1] <= qsl[mid + 1]
    BY <1>1, <1>2, <1>4, <1>7 DEF Rising
  <2>2. ~(loaded <= t)
    BY <1>3, <1>5, <2>1
  <2> HIDE DEF loaded
  <2> QED
    BY <1>1, <1>2, <1>7, <2>2 DEF mid, loaded
<1> QED
  BY <1>1, <1>2, <1>6, <1>7

\* The binary search finds the request that a row belongs to, whatever requests have no row.
LEMMA RequestFound ==
    ASSUME NgramAssumption, NEW qsl, Rising(qsl), NEW r \in Reqs, NEW t \in Nat,
           qsl[r] <= t, t < qsl[r + 1]
    PROVE  FindRequest(qsl, t) = r
<1> DEFINE N == NumReqs
           k == SearchSteps(N)
           Bounds == [lo : Nat, hi : Nat]
           start == [lo |-> 1, hi |-> N + 1]
           mid(b) == (b.lo + b.hi) \div 2
           loaded(b) == IF mid(b) <= N THEN qsl[mid(b) + 1] ELSE 0
           narrow(b) == IF loaded(b) <= t THEN [b EXCEPT !.lo = mid(b) + 1]
                        ELSE [b EXCEPT !.hi = mid(b)]
           Eq(f) == f = [i \in 0 .. k |-> IF i = 0 THEN start ELSE narrow(f[i - 1])]
           search == CHOOSE f : Eq(f)
           Holds(b, i) == /\ b \in Bounds /\ b.lo <= r /\ r <= b.hi /\ b.hi <= N + 1
                          /\ (b.hi - b.lo) * 2 ^ i <= N
<1>1. N \in Nat \ {0} /\ r \in Nat \ {0} /\ r <= N
  BY DEF NgramAssumption, Reqs
<1>2. k \in Nat /\ N < 2 ^ k
  <2>1. BitLength(N) \in 0 .. N /\ N < 2 ^ BitLength(N)
    BY <1>1, BitsOf DEF BitLength
  <2> QED
    BY <1>1, <2>1 DEF SearchSteps
<1> HIDE DEF k
<1>3. FindRequest(qsl, t) = Min({search[k].lo - 1, N - 1}) + 1
  BY DEF FindRequest, k
<1>4. ASSUME NEW b \in Bounds PROVE narrow(b) \in Bounds
  <2>1. b.lo \in Nat /\ b.hi \in Nat
    OBVIOUS
  <2>2. mid(b) \in Nat
    BY <2>1
  <2> HIDE DEF mid, loaded
  <2> QED
    BY <2>2
<1> DEFINE narrowing == [i \in 1 .. k |-> [b \in Bounds |-> narrow(b)]]
<1>5. start \in Bounds /\ narrowing \in [1 .. k -> [Bounds -> Bounds]]
  <2>1. start \in Bounds
    BY <1>1
  <2> HIDE DEF narrow, Bounds, start
  <2> QED
    BY <1>4, <2>1
<1>6. PICK f \in [0 .. k -> Bounds] : Recurs(f, k, start, narrowing)
  <2> HIDE DEF start, narrowing, Bounds
  <2> QED
    BY <1>2, <1>5, RecursionUpTo
<1>7. Eq(f)
  <2>1. \A i \in 0 .. k : f[i] = IF i = 0 THEN start ELSE narrow(f[i - 1])
    <3> SUFFICES ASSUME NEW i \in 0 .. k
                 PROVE  f[i] = IF i = 0 THEN start ELSE narrow(f[i - 1])
      OBVIOUS
    <3>1. f[0] = start
      BY <1>6 DEF Recurs
    <3>2. ASSUME i # 0 PROVE f[i] = narrow(f[i - 1])
      <4>1. i \in 1 .. k /\ i - 1 \in 0 .. k
        BY <1>2, <3>2
      <4>2. f[i - 1] \in Bounds
        BY <4>1
      <4>3. f[i] = narrowing[i][f[i - 1]]
        BY <1>6, <4>1 DEF Recurs
      <4> HIDE DEF narrow, Bounds
      <4> QED
        BY <4>1, <4>2, <4>3
    <3> QED
      BY <3>1, <3>2
  <2> HIDE DEF start, narrow
  <2> QED
    BY <2>1
<1>8. Eq(search)
  <2> HIDE DEF Eq
  <2> QED
    BY <1>7
<1> HIDE DEF search
<1>9. search[0] = start /\ \A i \in 1 .. k : search[i] = narrow(search[i - 1])
  <2> HIDE DEF start, narrow
  <2>1. \A i \in 0 .. k : search[i] = IF i = 0 THEN start ELSE narrow(search[i - 1])
    BY <1>8
  <2>2. 0 \in 0 .. k /\ \A i \in 1 .. k : i \in 0 .. k /\ i # 0
    BY <1>2
  <2> QED
    BY <2>1, <2>2
<1> HIDE DEF Eq
<1>10. ASSUME NEW b, NEW i \in Nat, Holds(b, i) PROVE Holds(narrow(b), i + 1)
  <2> DEFINE lo == b.lo
             hi == b.hi
             m == mid(b)
             p == 2 ^ i
             d == hi - lo
             c == narrow(b)
             e == c.hi - c.lo
  <2>1. lo \in Nat /\ hi \in Nat /\ lo <= r /\ r <= hi /\ hi <= N + 1 /\ d * p <= N /\ b \in Bounds
    BY <1>10
  <2>2. p \in Nat /\ 2 ^ (i + 1) = 2 * p
    BY PowersGrow, PowersDouble
  <2>3. /\ m \in Nat
        /\ loaded(b) <= t => m + 1 <= r /\ 2 * (hi - (m + 1)) <= hi - lo
        /\ ~(loaded(b) <= t) => r <= m /\ m <= hi /\ 2 * (m - lo) <= hi - lo
    BY <1>1, <2>1, NarrowedRight
  <2>4. c \in Bounds
    BY <1>4, <2>1
  <2>5. c.lo <= r /\ r <= c.hi /\ c.hi <= N + 1 /\ 2 * e <= d /\ e \in Int /\ d \in Int
    <3>1. CASE loaded(b) <= t
      <4>1. c.lo = m + 1 /\ c.hi = hi
        BY <2>1, <3>1
      <4> HIDE DEF lo, hi, m, c, loaded, mid
      <4> QED
        BY <1>1, <2>1, <2>3, <3>1, <4>1
    <3>2. CASE ~(loaded(b) <= t)
      <4>1. c.lo = lo /\ c.hi = m
        BY <2>1, <3>2
      <4> HIDE DEF lo, hi, m, c, loaded, mid
      <4> QED
        BY <1>1, <2>1, <2>3, <3>2, <4>1
    <3> QED
      BY <3>1, <3>2
  <2>6. e * 2 ^ (i + 1) <= N
    <3> HIDE DEF d, e, p
    <3>1. (2 * e) * p <= d * p
      BY <2>2, <2>5, MultiplesInOrder
    <3>2. (2 * e) * p = e * (2 * p) /\ (2 * e) * p \in Int /\ d * p \in Int
      BY <2>2, <2>5, SMTT(60)
    <3>3. e * (2 * p) <= N
      BY <1>1, <2>1, <3>1, <3>2
    <3> QED
      BY <2>2, <3>3
  <2> HIDE DEF narrow, Bounds
  <2> QED
    BY <2>4, <2>5, <2>6
<1>11. Holds(start, 0)
  <2>1. 2 ^ 0 = 1
    OBVIOUS
  <2>2. start \in Bounds /\ start.lo = 1 /\ start.hi = N + 1 /\ (start.hi - start.lo) * 1 = N
    BY <1>1
  <2> QED
    BY <1>1, <2>1, <2>2
<1> DEFINE T == {i \in Nat : i <= k => Holds(search[i], i)}
<1> HIDE DEF Holds, narrow, start
<1>12. 0 \in T
  BY <1>9, <1>11
<1>13. ASSUME NEW i \in Nat, i \in T PROVE i + 1 \in T
  <2> SUFFICES ASSUME i + 1 <= k PROVE Holds(search[i + 1], i + 1)
    OBVIOUS
  <2>1. i + 1 \in 1 .. k /\ (i + 1) - 1 = i /\ i <= k
    BY <1>2
  <2>2. search[i + 1] = narrow(search[i])
    BY <1>9, <2>1
  <2> QED
    BY <1>10, <1>13, <2>1, <2>2
<1>14. k \in T
  <2> HIDE DEF T
  <2>1. Nat \subseteq T
    BY <1>12, <1>13, NatInSet
  <2> QED
    BY <1>2, <2>1
<1>15. search[k].lo = r
  <2> DEFINE b == search[k]
             lo == b.lo
             hi == b.hi
             d == hi - lo
             p == 2 ^ k
  <2>1. lo \in Nat /\ hi \in Nat /\ lo <= r /\ r <= hi /\ d * p <= N
    BY <1>2, <1>14 DEF Holds
  <2>2. p \in Nat /\ N < p
    BY <1>2, PowersGrow
  <2> HIDE DEF lo, hi, p
  <2>3. d \in Nat
    BY <1>1, <2>1
  <2> HIDE DEF d
  <2>4. ~(1 <= d)
    <3>1. 1 <= d => 1 * p <= d * p
      BY <2>2, <2>3, MultiplesInOrder
    <3>2. 1 * p = p /\ d * p \in Int
      BY <2>2, <2>3
    <3> QED
      BY <1>1, <2>1, <2>2, <3>1, <3>2
  <2>5. lo = r
    BY <1>1, <2>1, <2>3, <2>4 DEF d
  <2> QED
    BY <2>5 DEF lo
<1>16. r - 1 \in Nat /\ N - 1 \in Nat /\ r - 1 <= N - 1
  BY <1>1
<1>17. Min({r - 1, N - 1}) = r - 1
  BY <1>16, MinOfTwo
<1> QED
  BY <1>1, <1>3, <1>15, <1>17

-----------------------------------------------------------------------------
\* The token of a request at position q; there is none before the first.
At(seq, q) == IF q >= 1 THEN seq[q] ELSE Eos

\* The d-th predecessor of the token at position p.
Pred(seq, p, d) == IF \E e \in 1 .. d : At(seq, p - e) = Eos THEN Eos ELSE At(seq, p - d)

\* The rows of request r in batch b are tokens of seq, and so is their context.
Carries(b, r, seq) ==
    LET n == b.qsl[r + 1] - b.qsl[r]
    IN  /\ b.at[r] \in Nat /\ b.at[r] + n <= Len(seq)
        /\ \A j \in 1 .. n : b.input[b.qsl[r] + j] = seq[b.at[r] + j]
        /\ b.ctx[r] = Context(seq, b.at[r])

Batched(b) ==
    /\ Rising(b.qsl) /\ b.qsl[NumReqs + 1] = Len(b.input) /\ b.input \in Seq(Tokens)
    /\ \A r \in Reqs : Carries(b, r, tokens[r])

NgramInv ==
    /\ tokens \in [Reqs -> Seq(Tokens)] /\ computed \in [Reqs -> Nat]
    /\ \A r \in Reqs : computed[r] <= Len(tokens[r])
    /\ Batched(prepared)

LEMMA ReferenceIs ==
    ASSUME NgramAssumption, NEW seq, NEW p \in Nat
    PROVE  Reference(seq, p) =
             [o \in 2 .. NgramSize |-> [s \in 1 .. o |-> IF s = 1 THEN seq[p] ELSE Pred(seq, p, s - 1)]]
<1> SUFFICES ASSUME NEW o \in 2 .. NgramSize, NEW s \in 1 .. o, s # 1
             PROVE  (IF p - s + 1 < 1 \/ \E q \in p - s + 1 .. p - 1 : seq[q] = Eos THEN Eos
                     ELSE seq[p - s + 1]) = Pred(seq, p, s - 1)
  BY DEF Reference
<1> DEFINE d == s - 1
<1>1. d \in Nat \ {0} /\ p - s + 1 = p - d
  BY DEF NgramAssumption
<1> HIDE DEF d
<1>2. CASE p - d < 1
  <2>1. At(seq, p - d) = Eos /\ d \in 1 .. d
    BY <1>1, <1>2 DEF At
  <2>2. Pred(seq, p, d) = Eos
    BY <2>1 DEF Pred
  <2> QED
    BY <1>1, <1>2, <2>2 DEF d
<1>3. CASE ~(p - d < 1)
  <2>1. At(seq, p - d) = seq[p - d]
    BY <1>1, <1>3 DEF At
  <2>2. (\E q \in p - d .. p - 1 : seq[q] = Eos) <=> \E e \in 1 .. d : At(seq, p - e) = Eos
    <3>1. ASSUME NEW q \in p - d .. p - 1, seq[q] = Eos
          PROVE  \E e \in 1 .. d : At(seq, p - e) = Eos
      <4>1. p - q \in 1 .. d /\ p - (p - q) = q /\ q >= 1
        BY <1>1, <1>3
      <4>2. At(seq, p - (p - q)) = Eos
        BY <3>1, <4>1 DEF At
      <4> QED
        BY <4>1, <4>2
    <3>2. ASSUME NEW e \in 1 .. d, At(seq, p - e) = Eos
          PROVE  \E q \in p - d .. p - 1 : seq[q] = Eos
      <4>1. p - e \in p - d .. p - 1 /\ p - e >= 1
        BY <1>1, <1>3
      <4>2. seq[p - e] = Eos
        BY <3>2, <4>1 DEF At
      <4> QED
        BY <4>1, <4>2
    <3> QED
      BY <3>1, <3>2
  <2> QED
    BY <1>1, <1>3, <2>1, <2>2 DEF Pred, d
<1> QED
  BY <1>2, <1>3 DEF d

\* Both implementations find a predecessor in the chunk, or else in its context.
LEMMA PredecessorFound ==
    ASSUME NgramAssumption, NEW b, NEW r \in Reqs, NEW seq, Rising(b.qsl), Carries(b, r, seq),
           NEW j \in 1 .. b.qsl[r + 1] - b.qsl[r], NEW d \in 1 .. ContextLen
    PROVE  (IF j - 1 >= d THEN b.input[b.qsl[r] + (j - d)] ELSE b.ctx[r][ContextLen - d + j])
           = At(seq, b.at[r] + j - d)
<1>1. /\ b.qsl[r] \in Nat /\ b.qsl[r + 1] \in Nat /\ b.at[r] \in Nat
      /\ ContextLen \in Nat \ {0} /\ j \in Nat \ {0} /\ d \in Nat \ {0} /\ d <= ContextLen
  <2>1. r \in 1 .. NumReqs + 1 /\ r + 1 \in 1 .. NumReqs + 1
    BY DEF Reqs, NgramAssumption
  <2>2. b.qsl[r] \in Nat /\ b.qsl[r + 1] \in Nat /\ b.at[r] \in Nat
    BY <2>1 DEF Rising, Carries
  <2>3. ContextLen \in Nat \ {0}
    BY DEF NgramAssumption, ContextLen
  <2>4. j \in Nat \ {0} /\ d \in Nat \ {0} /\ d <= ContextLen
    BY <2>2, <2>3
  <2> QED
    BY <2>2, <2>3, <2>4
<1>2. CASE j - 1 >= d
  <2>1. j - d \in 1 .. b.qsl[r + 1] - b.qsl[r] /\ b.at[r] + (j - d) = b.at[r] + j - d
        /\ b.at[r] + j - d >= 1
    BY <1>1, <1>2
  <2>2. b.input[b.qsl[r] + (j - d)] = seq[b.at[r] + j - d]
    BY <2>1 DEF Carries
  <2> QED
    BY <1>2, <2>1, <2>2 DEF At
<1>3. CASE ~(j - 1 >= d)
  <2> DEFINE c == ContextLen - d + j
  <2>1. c \in 1 .. ContextLen /\ b.at[r] - ContextLen + c = b.at[r] + j - d
    BY <1>1, <1>3
  <2> HIDE DEF c
  <2>2. b.ctx[r][c] = IF b.at[r] - ContextLen + c >= 1 THEN seq[b.at[r] - ContextLen + c] ELSE Eos
    BY <2>1 DEF Carries, Context
  <2> QED
    BY <1>3, <2>1, <2>2 DEF At, c
<1> QED
  BY <1>2, <1>3

\* A row of the batch, and its token.
LEMMA RowOf ==
    ASSUME NgramAssumption, NEW b, NEW r \in Reqs, NEW seq \in Seq(Tokens), Rising(b.qsl),
           b.qsl[NumReqs + 1] = Len(b.input), b.input \in Seq(Tokens),
           Carries(b, r, seq), NEW j \in 1 .. b.qsl[r + 1] - b.qsl[r]
    PROVE  LET row == b.qsl[r] + j
               p == b.at[r] + j
           IN  /\ row \in 1 .. Len(b.input) /\ p \in 1 .. Len(seq)
               /\ b.qsl[r] \in Nat /\ b.qsl[r + 1] \in Nat /\ b.at[r] \in Nat
               /\ b.input[row] = seq[p] /\ seq[p] \in Tokens
               /\ b.qsl[r] <= row - 1 /\ row - 1 < b.qsl[r + 1] /\ row - 1 \in Nat
<1>1. r \in 1 .. NumReqs + 1 /\ r + 1 \in 1 .. NumReqs + 1 /\ NumReqs + 1 \in 1 .. NumReqs + 1
      /\ r + 1 <= NumReqs + 1
  BY DEF Reqs, NgramAssumption
<1>2. /\ b.qsl[r] \in Nat /\ b.qsl[r + 1] \in Nat /\ b.qsl[NumReqs + 1] \in Nat /\ b.at[r] \in Nat
      /\ b.qsl[r + 1] <= b.qsl[NumReqs + 1]
  BY <1>1 DEF Rising, Carries
<1>3. Len(seq) \in Nat /\ b.at[r] + (b.qsl[r + 1] - b.qsl[r]) <= Len(seq)
      /\ b.input[b.qsl[r] + j] = seq[b.at[r] + j]
  BY LenProperties DEF Carries
<1>4. b.at[r] + j \in 1 .. Len(seq)
  <2> DEFINE a == b.at[r]
             n == b.qsl[r + 1] - b.qsl[r]
             l == Len(seq)
  <2>1. a \in Nat /\ n \in Int /\ l \in Nat /\ a + n <= l /\ j \in 1 .. n
    BY <1>2, <1>3
  <2> HIDE DEF a, n, l
  <2>2. a + j \in 1 .. l
    BY <2>1
  <2> QED
    BY <2>2 DEF a, l
<1>5. seq[b.at[r] + j] \in Tokens
  BY <1>4, ElementOfSeq
<1>6. b.qsl[r] + j \in 1 .. Len(b.input) /\ b.qsl[r] <= b.qsl[r] + j - 1
      /\ b.qsl[r] + j - 1 < b.qsl[r + 1] /\ b.qsl[r] + j - 1 \in Nat
  <2> DEFINE u == b.qsl[r]
             v == b.qsl[r + 1]
             w == Len(b.input)
  <2>1. u \in Nat /\ v \in Nat /\ w \in Nat /\ v <= w /\ j \in 1 .. v - u
    BY <1>2
  <2> HIDE DEF u, v, w
  <2>2. u + j \in 1 .. w /\ u <= u + j - 1 /\ u + j - 1 < v /\ u + j - 1 \in Nat
    BY <2>1
  <2> QED
    BY <2>2 DEF u, v, w
<1> QED
  BY <1>2, <1>3, <1>4, <1>5, <1>6

LEMMA KernelIsRight ==
    ASSUME NgramAssumption, NEW b, NEW r \in Reqs, NEW seq \in Seq(Tokens), Rising(b.qsl),
           b.qsl[NumReqs + 1] = Len(b.input), b.input \in Seq(Tokens),
           Carries(b, r, seq), NEW j \in 1 .. b.qsl[r + 1] - b.qsl[r]
    PROVE  KernelIds(b)[b.qsl[r] + j] = Reference(seq, b.at[r] + j)
<1> DEFINE row == b.qsl[r] + j
           t == row - 1
           p == b.at[r] + j
           raw == [s \in 1 .. ContextLen |->
                     IF t - b.qsl[r] >= s THEN b.input[t - s + 1]
                     ELSE b.ctx[r][ContextLen - s + (t - b.qsl[r]) + 1]]
           older == [s \in 1 .. ContextLen |-> IF Crossed(raw, s) THEN Eos ELSE raw[s]]
           terms == <<b.input[row]>> \o older
<1>1. /\ row \in 1 .. Len(b.input) /\ p \in 1 .. Len(seq) /\ Len(seq) \in Nat
      /\ b.qsl[r] \in Nat /\ b.at[r] \in Nat /\ b.input[row] = seq[p] /\ seq[p] \in Tokens
      /\ b.qsl[r] <= t /\ t < b.qsl[r + 1] /\ t \in Nat
  BY RowOf, LenProperties
<1>2. FindRequest(b.qsl, t) = r
  BY <1>1, RequestFound
<1>3. ContextLen \in Nat \ {0} /\ NgramSize = 1 + ContextLen /\ Eos \in Tokens /\ NgramSize \in Nat
  BY DEF NgramAssumption, ContextLen
<1>4. KernelTerms(b, t) = terms
  <2>1. t + 1 = row
    BY <1>1
  <2> QED
    BY <1>2, <2>1 DEF KernelTerms
<1>5. KernelIds(b)[row] = [o \in 2 .. NgramSize |-> SubSeq(terms, 1, o)]
  BY <1>1, <1>4 DEF KernelIds
<1>6. ASSUME NEW s \in 1 .. ContextLen PROVE raw[s] = At(seq, p - s)
  <2>1. raw[s] = IF t - b.qsl[r] >= s THEN b.input[t - s + 1]
                 ELSE b.ctx[r][ContextLen - s + (t - b.qsl[r]) + 1]
    OBVIOUS
  <2>2. /\ t - b.qsl[r] = j - 1 /\ t - s + 1 = b.qsl[r] + (j - s)
        /\ ContextLen - s + (j - 1) + 1 = ContextLen - s + j /\ p - s = b.at[r] + j - s
    <3> DEFINE u == b.qsl[r]
               a == b.at[r]
               C == ContextLen
    <3>1. u \in Nat /\ a \in Nat /\ C \in Nat /\ s \in Nat /\ j \in Nat
      BY <1>1, <1>3
    <3> HIDE DEF raw, older, terms
    <3>2. t = u + j - 1 /\ p = a + j
      BY <3>1
    <3> HIDE DEF u, a, C, t, p
    <3>3. /\ t - u = j - 1 /\ t - s + 1 = u + (j - s)
          /\ C - s + (j - 1) + 1 = C - s + j /\ p - s = a + j - s
      BY <3>1, <3>2
    <3> QED
      BY <3>3 DEF u, a, C
  <2> HIDE DEF raw, t, p
  <2>3. raw[s] = IF j - 1 >= s THEN b.input[b.qsl[r] + (j - s)] ELSE b.ctx[r][ContextLen - s + j]
    BY <2>1, <2>2
  <2>4. raw[s] = At(seq, b.at[r] + j - s)
    BY <2>3, PredecessorFound
  <2> QED
    BY <2>2, <2>4
<1> HIDE DEF raw
<1>7. ASSUME NEW s \in 1 .. ContextLen
      PROVE  older[s] = Pred(seq, p, s) /\ older[s] \in Tokens
  <2>1. \A e \in 1 .. s : e \in 1 .. ContextLen /\ raw[e] = At(seq, p - e)
    BY <1>3, <1>6
  <2>2. s \in 1 .. s /\ \A e \in 1 .. s : e = s \/ e \in 1 .. s - 1
    BY <1>3
  <2>3. \A e \in 1 .. s - 1 : e \in 1 .. s
    BY <1>3
  <2>4. older[s] = IF \E e \in 1 .. s - 1 : raw[e] = Eos THEN Eos ELSE raw[s]
    BY DEF Crossed
  <2> HIDE DEF older, p
  <2>5. older[s] = Pred(seq, p, s)
    <3>1. CASE \E e \in 1 .. s : At(seq, p - e) = Eos
      <4>1. Pred(seq, p, s) = Eos
        BY <3>1 DEF Pred
      <4>2. older[s] = Eos
        BY <2>1, <2>2, <2>3, <2>4, <3>1
      <4> QED
        BY <4>1, <4>2
    <3>2. CASE ~\E e \in 1 .. s : At(seq, p - e) = Eos
      <4>1. Pred(seq, p, s) = At(seq, p - s)
        BY <3>2 DEF Pred
      <4>2. older[s] = raw[s]
        BY <2>1, <2>3, <2>4, <3>2
      <4> QED
        BY <2>1, <2>2, <4>1, <4>2
    <3> QED
      BY <3>1, <3>2
  <2>6. At(seq, p - s) \in Tokens
    <3>1. CASE p - s >= 1
      <4>1. p - s \in 1 .. Len(seq)
        BY <1>1, <1>3, <3>1
      <4>2. seq[p - s] \in Tokens
        BY <4>1, ElementOfSeq
      <4> QED
        BY <3>1, <4>2 DEF At
    <3>2. CASE ~(p - s >= 1)
      BY <1>3, <3>2 DEF At
    <3> QED
      BY <3>1, <3>2
  <2> QED
    BY <1>3, <2>5, <2>6 DEF Pred
<1> HIDE DEF row, t, p
<1>8. older \in Seq(Tokens) /\ Len(older) = ContextLen
  <2>1. older \in [1 .. ContextLen -> Tokens]
    BY <1>7
  <2>2. ContextLen \in Nat
    BY <1>3
  <2> DEFINE k == ContextLen
  <2> HIDE DEF older, k
  <2>3. older \in [1 .. k -> Tokens] /\ k \in Nat
    BY <2>1, <2>2 DEF k
  <2>4. older \in Seq(Tokens) /\ Len(older) = k
    BY <2>3, ListIsSeq
  <2> QED
    BY <2>4 DEF k
<1> HIDE DEF older
<1>9. /\ terms \in Seq(Tokens) /\ Len(terms) = NgramSize
      /\ \A i \in 1 .. NgramSize : terms[i] = IF i = 1 THEN seq[p] ELSE Pred(seq, p, i - 1)
  <2> DEFINE x == b.input[row]
  <2>1. x \in Tokens /\ x = seq[p]
    BY <1>1
  <2>2. terms = <<x>> \o older
    OBVIOUS
  <2> HIDE DEF x, terms
  <2>3. /\ terms \in Seq(Tokens) /\ Len(terms) = 1 + Len(older)
        /\ \A i \in 1 .. 1 + Len(older) : terms[i] = IF i <= 1 THEN x ELSE older[i - 1]
    BY <1>8, <2>1, <2>2, PutBefore
  <2>4. \A i \in 1 .. NgramSize : (i <= 1 <=> i = 1) /\ (i # 1 => i - 1 \in 1 .. ContextLen)
    BY <1>3
  <2> QED
    BY <1>3, <1>7, <1>8, <2>1, <2>3, <2>4
<1> HIDE DEF terms
<1>10. ASSUME NEW o \in 2 .. NgramSize
       PROVE  SubSeq(terms, 1, o) = [i \in 1 .. o |-> IF i = 1 THEN seq[p] ELSE Pred(seq, p, i - 1)]
  <2> DEFINE part == SubSeq(terms, 1, o)
  <2>1. /\ 1 \in Int /\ o \in Int /\ 1 <= o /\ o - 1 + 1 = o
        /\ \A i \in 1 .. o : i \in 1 .. NgramSize /\ 1 + i - 1 = i
    BY <1>3
  <2>2. \A i \in 1 .. o : terms[i] \in Tokens
    BY <1>9, <2>1, ElementOfSeq
  <2>3. /\ part \in Seq(Tokens) /\ Len(part) = o - 1 + 1
        /\ \A i \in 1 .. o - 1 + 1 : part[i] = terms[1 + i - 1]
    BY <2>1, <2>2, SubSeqProperties
  <2> HIDE DEF part
  <2>4. part \in [1 .. o -> Tokens] /\ \A i \in 1 .. o : part[i] = terms[i]
    <3>1. part \in [1 .. Len(part) -> Tokens]
      BY <2>3, LenProperties
    <3> QED
      BY <2>1, <2>3, <3>1
  <2>5. part = [i \in 1 .. o |-> IF i = 1 THEN seq[p] ELSE Pred(seq, p, i - 1)]
    BY <1>9, <2>1, <2>4
  <2> QED
    BY <2>5 DEF part
<1>11. Reference(seq, p) =
         [o \in 2 .. NgramSize |-> [s \in 1 .. o |-> IF s = 1 THEN seq[p] ELSE Pred(seq, p, s - 1)]]
  <2>1. p \in Nat
    BY <1>1
  <2> QED
    BY <2>1, ReferenceIs
<1> QED
  BY <1>5, <1>10, <1>11 DEF row, p

\* The host code's packed row of a request holds the context and then the tokens.
LEMMA PackedIs ==
    ASSUME NgramAssumption, NEW b, NEW r \in Reqs, NEW seq \in Seq(Tokens), Rising(b.qsl),
           b.qsl[NumReqs + 1] = Len(b.input), b.input \in Seq(Tokens),
           Carries(b, r, seq), NEW j \in 1 .. b.qsl[r + 1] - b.qsl[r],
           NEW q \in 1 .. ContextLen + j
    PROVE  PackedRow(b, r)[q] = At(seq, b.at[r] - ContextLen + q)
<1> DEFINE u == b.qsl[r]
           n == b.qsl[r + 1] - b.qsl[r]
           a == b.at[r]
           C == ContextLen
           L == Len(b.input)
           ctx == b.ctx[r]
           rest == [c \in 1 .. L |-> IF c <= n THEN b.input[u + c] ELSE Eos]
<1>1. /\ u + j \in 1 .. L /\ a + j \in 1 .. Len(seq) /\ Len(seq) \in Nat
      /\ u \in Nat /\ a \in Nat /\ u + j - 1 < b.qsl[r + 1] /\ b.qsl[r + 1] \in Nat
  <2>1. Len(seq) \in Nat
    BY LenProperties
  <2>2. LET row == b.qsl[r] + j
            p == b.at[r] + j
        IN  /\ row \in 1 .. Len(b.input) /\ p \in 1 .. Len(seq)
            /\ b.qsl[r] \in Nat /\ b.qsl[r + 1] \in Nat /\ b.at[r] \in Nat
            /\ row - 1 < b.qsl[r + 1]
    BY RowOf
  <2> HIDE DEF rest, ctx, n, C
  <2> QED
    BY <2>1, <2>2
<1>2. C \in Nat /\ Eos \in Tokens /\ L \in Nat /\ n \in Int /\ j \in 1 .. n /\ q \in 1 .. C + j
  <2>1. C \in Nat /\ Eos \in Tokens
    BY DEF NgramAssumption, ContextLen
  <2>2. L \in Nat
    BY LenProperties
  <2>3. n \in Int
    BY <1>1
  <2> QED
    BY <2>1, <2>2, <2>3
<1>3. ctx = [c \in 1 .. C |-> IF a - C + c >= 1 THEN seq[a - C + c] ELSE Eos]
  BY DEF Carries, Context
<1>4. \A c \in 1 .. n : b.input[u + c] = seq[a + c]
  BY DEF Carries
<1>5. PackedRow(b, r) = ctx \o rest
  BY DEF PackedRow
<1>6. n <= L /\ a + n <= Len(seq)
  <2>1. /\ r + 1 \in 1 .. NumReqs + 1 /\ NumReqs + 1 \in 1 .. NumReqs + 1
        /\ r + 1 <= NumReqs + 1
    BY DEF Reqs, NgramAssumption
  <2>2. b.qsl[r + 1] <= L
    BY <2>1 DEF Rising
  <2>3. a + n <= Len(seq)
    BY DEF Carries
  <2> DEFINE v == b.qsl[r + 1]
  <2>4. n = v - u /\ v \in Nat /\ v <= L
    BY <1>1, <2>2
  <2> HIDE DEF a, L, n, v, u
  <2> QED
    BY <1>1, <1>2, <2>3, <2>4
<1>7. ctx \in [1 .. C -> Tokens]
  <2> SUFFICES ASSUME NEW c \in 1 .. C
               PROVE  (IF a - C + c >= 1 THEN seq[a - C + c] ELSE Eos) \in Tokens
    BY <1>3
  <2>1. a - C + c >= 1 => a - C + c \in 1 .. Len(seq)
    <3> HIDE DEF a, C
    <3> QED
      BY <1>1, <1>2
  <2> QED
    BY <1>2, <2>1, ElementOfSeq
<1>8. rest \in [1 .. L -> Tokens]
  <2> SUFFICES ASSUME NEW c \in 1 .. L, c <= n PROVE b.input[u + c] \in Tokens
    BY <1>2
  <2>1. c \in 1 .. n /\ a + c \in 1 .. Len(seq)
    <3> HIDE DEF a, L, n
    <3> QED
      BY <1>1, <1>2, <1>6
  <2> QED
    BY <1>4, <2>1, ElementOfSeq
<1> HIDE DEF rest
<1>9. ctx \in Seq(Tokens) /\ Len(ctx) = C /\ rest \in Seq(Tokens) /\ Len(rest) = L
  <2> HIDE DEF ctx, C, L
  <2>1. ctx \in Seq(Tokens) /\ Len(ctx) = C
    BY <1>2, <1>7, ListIsSeq
  <2>2. rest \in Seq(Tokens) /\ Len(rest) = L
    BY <1>2, <1>8, ListIsSeq
  <2> QED
    BY <2>1, <2>2
<1> HIDE DEF ctx
<1>10. \A i \in 1 .. C + L : (ctx \o rest)[i] = IF i <= C THEN ctx[i] ELSE rest[i - C]
  <2>1. \A i \in 1 .. Len(ctx) + Len(rest) :
          (ctx \o rest)[i] = IF i <= Len(ctx) THEN ctx[i] ELSE rest[i - Len(ctx)]
    BY <1>9, ConcatProperties
  <2> HIDE DEF C, L
  <2> QED
    BY <1>9, <2>1
<1> HIDE DEF C, L, n, u, a
<1>11. q \in 1 .. C + L
  BY <1>2, <1>6
<1>12. CASE q <= C
  <2>1. q \in 1 .. C
    BY <1>2, <1>12
  <2>2. PackedRow(b, r)[q] = ctx[q]
    BY <1>5, <1>10, <1>11, <1>12
  <2> QED
    BY <1>3, <2>1, <2>2 DEF At, C, a
<1>13. CASE ~(q <= C)
  <2>1. q - C \in 1 .. n /\ q - C \in 1 .. L /\ a + (q - C) = a - C + q /\ a - C + q >= 1
    <3>1. q \in Int /\ C \in Nat /\ n \in Int /\ a \in Nat /\ L \in Nat /\ j \in Int
          /\ q <= C + j /\ C < q /\ j <= n /\ n <= L
      BY <1>1, <1>2, <1>6, <1>13
    <3> QED
      BY <3>1
  <2>2. PackedRow(b, r)[q] = rest[q - C]
    BY <1>5, <1>10, <1>11, <1>13
  <2>3. rest[q - C] = seq[a + (q - C)]
    BY <1>4, <2>1 DEF rest, L, n, u
  <2> QED
    BY <2>1, <2>2, <2>3 DEF At, C, a
<1> QED
  BY <1>12, <1>13

\* A shift by s gives the token s places back, unless an end of sequence lies in between.
LEMMA Shifted ==
    ASSUME NEW row, NEW k \in Nat, NEW s \in Nat \ {0}, s < k
    PROVE  ShiftApply(row, k, s) = IF \E e \in 1 .. s : row[k - e] = Eos THEN Eos ELSE row[k - s]
<1> DEFINE ends == {q \in 1 .. k - 1 : row[q] = Eos} \cup {0}
           m == Max(ends)
<1>1. ends \in SUBSET Nat /\ ends # {} /\ \A x \in ends : x <= k
  OBVIOUS
<1>2. m \in ends /\ \A x \in ends : x <= m
  <2> HIDE DEF ends
  <2> QED
    BY <1>1, MaxOfBounded
<1>3. PositionInSegment(row, k) = k - m - 1
  BY DEF PositionInSegment
<1> HIDE DEF m
<1>4. m \in Nat
  BY <1>1, <1>2
<1>5. CASE \E e \in 1 .. s : row[k - e] = Eos
  <2>1. PICK e \in 1 .. s : row[k - e] = Eos
    BY <1>5
  <2>2. k - e \in 1 .. k - 1 /\ k - e >= k - s
    BY <2>1
  <2>3. k - e \in ends
    BY <2>1, <2>2
  <2>4. k - e <= m
    BY <1>2, <2>3
  <2>5. ~(k - m - 1 >= s)
    BY <1>4, <2>2, <2>4
  <2> QED
    BY <1>3, <1>5, <2>5 DEF ShiftApply
<1>6. CASE ~\E e \in 1 .. s : row[k - e] = Eos
  <2>1. ~(k - m - 1 < s)
    <3> SUFFICES ASSUME k - m - 1 < s PROVE FALSE
      OBVIOUS
    <3>1. m # 0 /\ m <= k - 1
      BY <1>2, <1>4
    <3>2. row[m] = Eos
      BY <1>2, <3>1
    <3>3. k - m \in 1 .. s /\ k - (k - m) = m
      BY <1>4, <3>1
    <3> QED
      BY <1>6, <3>2, <3>3
  <2>2. k - m - 1 >= s /\ k - s >= 1
    BY <1>4, <2>1
  <2> QED
    BY <1>3, <1>6, <2>2 DEF ShiftApply
<1> QED
  BY <1>5, <1>6

LEMMA HostIsRight ==
    ASSUME NgramAssumption, NEW b, NEW r \in Reqs, NEW seq \in Seq(Tokens), Rising(b.qsl),
           b.qsl[NumReqs + 1] = Len(b.input), b.input \in Seq(Tokens),
           Carries(b, r, seq), NEW j \in 1 .. b.qsl[r + 1] - b.qsl[r]
    PROVE  HostIds(b)[b.qsl[r] + j] = Reference(seq, b.at[r] + j)
<1> DEFINE row == b.qsl[r] + j
           p == b.at[r] + j
           starts == {q \in 1 .. NumReqs + 1 : b.qsl[q] <= row - 1}
           packed == PackedRow(b, r)
           k == ContextLen + j
<1>1. /\ row \in 1 .. Len(b.input) /\ p \in 1 .. Len(seq) /\ Len(seq) \in Nat
      /\ b.qsl[r] \in Nat /\ b.at[r] \in Nat /\ b.input[row] = seq[p] /\ seq[p] \in Tokens
      /\ b.qsl[r] <= row - 1 /\ row - 1 < b.qsl[r + 1] /\ row - 1 \in Nat /\ b.qsl[r + 1] \in Nat
  <2>1. Len(seq) \in Nat
    BY LenProperties
  <2> HIDE DEF starts, packed, k
  <2>2. /\ row \in 1 .. Len(b.input) /\ p \in 1 .. Len(seq)
        /\ b.qsl[r] \in Nat /\ b.qsl[r + 1] \in Nat /\ b.at[r] \in Nat
        /\ b.input[row] = seq[p] /\ seq[p] \in Tokens
        /\ b.qsl[r] <= row - 1 /\ row - 1 < b.qsl[r + 1] /\ row - 1 \in Nat
    BY RowOf
  <2> QED
    BY <2>1, <2>2
<1>2. /\ ContextLen \in Nat \ {0} /\ NgramSize = 1 + ContextLen /\ NgramSize \in Nat
      /\ NumReqs \in Nat \ {0} /\ r \in Nat \ {0} /\ r <= NumReqs
      /\ r \in 1 .. NumReqs + 1 /\ r + 1 \in 1 .. NumReqs + 1
  BY DEF NgramAssumption, ContextLen, Reqs
<1> HIDE DEF row
<1>3. Max(starts) = r
  <2>1. starts \in SUBSET Nat /\ r \in starts
    BY <1>1, <1>2
  <2>2. ASSUME NEW q \in starts PROVE q <= r
    <3>1. q \in 1 .. NumReqs + 1 /\ b.qsl[q] <= row - 1 /\ b.qsl[q] \in Nat
      BY DEF Rising
    <3>2. r + 1 <= q => b.qsl[r + 1] <= b.qsl[q]
      BY <1>2, <3>1 DEF Rising
    <3>3. r + 1 <= q => ~(b.qsl[q] <= row - 1)
      <4> DEFINE x == b.qsl[q]
                 y == b.qsl[r + 1]
                 z == row - 1
      <4>1. x \in Nat /\ y \in Nat /\ z \in Nat /\ z < y /\ (r + 1 <= q => y <= x)
        BY <1>1, <3>1, <3>2
      <4> HIDE DEF x, y, z
      <4>2. r + 1 <= q => ~(x <= z)
        BY <4>1
      <4> QED
        BY <4>2 DEF x, z
    <3>4. q \in Nat /\ ~(r + 1 <= q)
      BY <3>1, <3>3
    <3> QED
      BY <1>2, <3>4
  <2> HIDE DEF starts
  <2>3. Max(starts) \in starts /\ r <= Max(starts)
    BY <1>2, <2>1, <2>2, MaxOfBounded
  <2>4. Max(starts) <= r /\ Max(starts) \in Nat
    BY <2>1, <2>2, <2>3
  <2> DEFINE m == Max(starts)
  <2> HIDE DEF m
  <2>5. m = r
    BY <1>2, <2>3, <2>4 DEF m
  <2> QED
    BY <2>5 DEF m
<1>4. Min({r, NumReqs}) = r
  BY <1>2, MinOfTwo
<1>5. row - b.qsl[r] + ContextLen = k
  <2> DEFINE u == b.qsl[r]
  <2>1. u \in Nat /\ row = u + j /\ j \in Int
    BY <1>1 DEF row
  <2> HIDE DEF u
  <2>2. row - u + ContextLen = ContextLen + j
    BY <1>2, <2>1
  <2> QED
    BY <2>2 DEF u
<1>6. HostIds(b)[row] = [o \in 2 .. NgramSize |->
        [s \in 1 .. o |-> IF s = 1 THEN packed[k] ELSE ShiftApply(packed, k, s - 1)]]
  BY <1>1, <1>3, <1>4, <1>5 DEF HostIds
<1> HIDE DEF packed, k, p
<1>7. k \in Nat /\ ContextLen < k
  BY <1>2 DEF k
<1>8. ASSUME NEW e \in 0 .. ContextLen PROVE packed[k - e] = At(seq, p - e)
  <2>1. k - e \in 1 .. ContextLen + j
    BY <1>2, <1>7 DEF k
  <2>2. packed[k - e] = At(seq, b.at[r] - ContextLen + (k - e))
    BY <2>1, PackedIs DEF packed
  <2>3. b.at[r] - ContextLen + (k - e) = p - e
    BY <1>1, <1>2 DEF k, p
  <2> QED
    BY <2>2, <2>3
<1>9. packed[k] = seq[p]
  <2>1. k - 0 = k /\ p - 0 = p /\ p >= 1 /\ 0 \in 0 .. ContextLen
    BY <1>1, <1>2, <1>7
  <2>2. packed[k] = At(seq, p)
    BY <1>8, <2>1
  <2> QED
    BY <2>1, <2>2 DEF At
<1>10. ASSUME NEW s \in 1 .. ContextLen PROVE ShiftApply(packed, k, s) = Pred(seq, p, s)
  <2>1. s \in Nat \ {0} /\ s < k /\ s \in 0 .. ContextLen
        /\ \A e \in 1 .. s : e \in 0 .. ContextLen
    BY <1>2, <1>7
  <2>2. ShiftApply(packed, k, s)
        = IF \E e \in 1 .. s : packed[k - e] = Eos THEN Eos ELSE packed[k - s]
    BY <1>7, <2>1, Shifted, ZenonT(60)
  <2>3. packed[k - s] = At(seq, p - s) /\ \A e \in 1 .. s : packed[k - e] = At(seq, p - e)
    BY <1>8, <2>1
  <2> QED
    BY <2>2, <2>3 DEF Pred
<1>11. p \in Nat
  BY <1>1
<1>12. Reference(seq, p) =
         [o \in 2 .. NgramSize |-> [s \in 1 .. o |-> IF s = 1 THEN seq[p] ELSE Pred(seq, p, s - 1)]]
  BY <1>11, ReferenceIs
<1>13. ASSUME NEW o \in 2 .. NgramSize, NEW s \in 1 .. o, s # 1
       PROVE  ShiftApply(packed, k, s - 1) = Pred(seq, p, s - 1)
  <2>1. s - 1 \in 1 .. ContextLen
    BY <1>2, <1>13
  <2> QED
    BY <1>10, <2>1
<1>14. HostIds(b)[row] = Reference(seq, p)
  <2> DEFINE g(s) == IF s = 1 THEN packed[k] ELSE ShiftApply(packed, k, s - 1)
             h(s) == IF s = 1 THEN seq[p] ELSE Pred(seq, p, s - 1)
             G(o) == [s \in 1 .. o |-> g(s)]
             H(o) == [s \in 1 .. o |-> h(s)]
  <2>1. ASSUME NEW o \in 2 .. NgramSize PROVE G(o) = H(o)
    <3>1. ASSUME NEW s \in 1 .. o PROVE g(s) = h(s)
      BY <1>9, <1>13
    <3> HIDE DEF g, h
    <3> QED
      BY <3>1
  <2>2. HostIds(b)[row] = [o \in 2 .. NgramSize |-> G(o)]
    BY <1>6
  <2>3. Reference(seq, p) = [o \in 2 .. NgramSize |-> H(o)]
    BY <1>12
  <2> HIDE DEF G, H
  <2> QED
    BY <2>1, <2>2, <2>3
<1> QED
  BY <1>14 DEF row, p

-----------------------------------------------------------------------------
LEMMA StartsRise ==
    ASSUME NgramAssumption, NEW chunks \in [Reqs -> Seq(Tokens)]
    PROVE  LET qsl == StartLoc(chunks)
           IN  /\ Rising(qsl) /\ qsl[1] = 0
               /\ \A r \in Reqs : qsl[r + 1] = qsl[r] + Len(chunks[r])
<1> DEFINE N == NumReqs
           e == N + 1
           f == [q \in Reqs |-> Len(chunks[q])]
           qsl == StartLoc(chunks)
           sum(r) == SumFunctionOnSet(f, 1 .. r - 1)
<1>1. N \in Nat \ {0} /\ Reqs = 1 .. N /\ e \in Int /\ 1 <= e /\ e - 1 = N
  BY DEF NgramAssumption, Reqs
<1>2. \A r \in 1 .. e : qsl[r] = sum(r)
  BY DEF StartLoc
<1>3. \A q \in Reqs : f[q] = Len(chunks[q]) /\ f[q] \in Nat
  BY LenProperties
<1> HIDE DEF f, qsl
<1>4. \A x \in 1 .. e - 1 : f[x] \in Nat
  BY <1>1, <1>3
<1> HIDE DEF e
<1>5. /\ sum(1) = 0
      /\ \A r \in 1 .. e : sum(r) \in Nat
      /\ \A r \in 1 .. e - 1 : sum(r + 1) = f[r] + sum(r)
      /\ \A r \in 1 .. e, g \in 1 .. e - 1 : g < r => sum(g) + f[g] <= sum(r)
  <2> DEFINE a == 1
  <2>1. a \in Int /\ e \in Int /\ a <= e /\ \A x \in a .. e - 1 : f[x] \in Nat
    BY <1>1, <1>4
  <2> HIDE DEF a
  <2>2. /\ SumFunctionOnSet(f, a .. a - 1) = 0
        /\ \A r \in a .. e : SumFunctionOnSet(f, a .. r - 1) \in Nat
        /\ \A r \in a .. e - 1 :
             SumFunctionOnSet(f, a .. (r + 1) - 1) = f[r] + SumFunctionOnSet(f, a .. r - 1)
        /\ \A r \in a .. e, g \in a .. e - 1 :
             g < r => SumFunctionOnSet(f, a .. g - 1) + f[g] <= SumFunctionOnSet(f, a .. r - 1)
    BY <2>1, PartialSums
  <2> QED
    BY <2>2 DEF a
<1> HIDE DEF sum
<1>6. qsl \in [1 .. e -> Nat]
  <2>1. qsl = [r \in 1 .. e |-> sum(r)]
    BY DEF qsl, StartLoc, e, sum, f
  <2> QED
    BY <1>5, <2>1
<1>7. ASSUME NEW i \in 1 .. e, NEW j \in 1 .. e, i <= j PROVE qsl[i] <= qsl[j]
  <2>1. CASE i = j
    BY <1>6, <2>1
  <2>2. CASE i # j
    <3>1. i \in 1 .. e - 1 /\ i < j
      BY <1>1, <1>7, <2>2
    <3>2. sum(i) + f[i] <= sum(j) /\ f[i] \in Nat /\ sum(i) \in Nat /\ sum(j) \in Nat
      BY <1>4, <1>5, <3>1
    <3> QED
      BY <1>2, <3>2
  <2> QED
    BY <2>1, <2>2
<1>8. ASSUME NEW r \in Reqs PROVE qsl[r + 1] = qsl[r] + Len(chunks[r])
  <2>1. r \in 1 .. e - 1 /\ r \in 1 .. e /\ r + 1 \in 1 .. e
    BY <1>1
  <2>2. qsl[r + 1] = f[r] + qsl[r] /\ f[r] \in Nat /\ qsl[r] \in Nat
    BY <1>2, <1>4, <1>5, <2>1
  <2> QED
    BY <1>3, <2>2
<1>9. qsl[1] = 0
  <2>1. 1 \in 1 .. e
    BY <1>1
  <2> QED
    BY <1>2, <1>5, <2>1
<1> QED
  BY <1>6, <1>7, <1>8, <1>9 DEF Rising, e, qsl

\* The chunks of a batch lie in it one after the other, each where StartLoc says.
LEMMA JoinedIs ==
    ASSUME NgramAssumption, NEW chunks \in [Reqs -> Seq(Tokens)]
    PROVE  LET all == Joined(chunks)
               qsl == StartLoc(chunks)
           IN  /\ all \in Seq(Tokens) /\ Len(all) = qsl[NumReqs + 1]
               /\ \A r \in Reqs : \A j \in 1 .. Len(chunks[r]) : all[qsl[r] + j] = chunks[r][j]
<1> DEFINE N == NumReqs
           Lists == Seq(Tokens)
           none == << >>
           qsl == StartLoc(chunks)
           append == [q \in 1 .. N |-> [list \in Lists |-> list \o chunks[q]]]
           IsJoined(f) == f = [q \in 0 .. N |-> IF q = 0 THEN none ELSE f[q - 1] \o chunks[q]]
           joined == CHOOSE f : IsJoined(f)
           Listed(all, k) == \A r \in 1 .. k : \A j \in 1 .. Len(chunks[r]) :
                               all[qsl[r] + j] = chunks[r][j]
<1>1. N \in Nat \ {0} /\ Reqs = 1 .. N
  BY DEF NgramAssumption, Reqs
<1>2. \A q \in 1 .. N : chunks[q] \in Lists /\ Len(chunks[q]) \in Nat
  BY <1>1, LenProperties
<1>3. Rising(qsl) /\ qsl[1] = 0 /\ \A r \in Reqs : qsl[r + 1] = qsl[r] + Len(chunks[r])
  BY StartsRise
<1> HIDE DEF qsl
<1>4. append \in [1 .. N -> [Lists -> Lists]]
  <2>1. \A q \in 1 .. N : \A list \in Lists : list \o chunks[q] \in Lists
    BY <1>2, ConcatProperties
  <2> QED
    BY <2>1
<1>5. none \in Lists
  OBVIOUS
<1>6. PICK f \in [0 .. N -> Lists] : Recurs(f, N, none, append)
  <2> HIDE DEF append, Lists, none, N
  <2> QED
    BY <1>1, <1>4, <1>5, RecursionUpTo
<1>7. IsJoined(f)
  <2>1. \A q \in 1 .. N : f[q] = f[q - 1] \o chunks[q]
    <3> SUFFICES ASSUME NEW q \in 1 .. N PROVE f[q] = f[q - 1] \o chunks[q]
      OBVIOUS
    <3>1. f[q - 1] \in Lists
      BY <1>1
    <3> QED
      BY <1>6, <3>1 DEF Recurs
  <2> HIDE DEF none
  <2>2. \A q \in 0 .. N : f[q] = IF q = 0 THEN none ELSE f[q - 1] \o chunks[q]
    <3> SUFFICES ASSUME NEW q \in 0 .. N
                 PROVE  f[q] = IF q = 0 THEN none ELSE f[q - 1] \o chunks[q]
      OBVIOUS
    <3>1. q # 0 => q \in 1 .. N
      BY <1>1
    <3> QED
      BY <1>6, <2>1, <3>1 DEF Recurs
  <2> QED
    BY <2>2
<1> HIDE DEF none
<1>8. IsJoined(joined)
  <2> HIDE DEF IsJoined
  <2> QED
    BY <1>7
<1> HIDE DEF joined
<1>9. joined[0] = none /\ \A q \in 1 .. N : joined[q] = joined[q - 1] \o chunks[q]
  <2>1. \A q \in 0 .. N : joined[q] = IF q = 0 THEN none ELSE joined[q - 1] \o chunks[q]
    BY <1>8
  <2>2. 0 \in 0 .. N /\ \A q \in 1 .. N : q \in 0 .. N /\ q # 0
    BY <1>1
  <2> QED
    BY <2>1, <2>2
<1> HIDE DEF IsJoined, Lists, Listed
<1> DEFINE T == {k \in Nat : k <= N =>
                   joined[k] \in Lists /\ Len(joined[k]) = qsl[k + 1] /\ Listed(joined[k], k)}
<1>10. 0 \in T
  <2>1. Len(none) = 0 /\ 0 + 1 = 1 /\ Listed(none, 0)
    BY DEF none, Listed
  <2> QED
    BY <1>3, <1>5, <1>9, <2>1
<1>11. ASSUME NEW k \in Nat, k \in T PROVE k + 1 \in T
  <2> SUFFICES ASSUME k + 1 <= N
               PROVE  /\ joined[k + 1] \in Lists /\ Len(joined[k + 1]) = qsl[(k + 1) + 1]
                      /\ Listed(joined[k + 1], k + 1)
    OBVIOUS
  <2> DEFINE old == joined[k]
             chunk == chunks[k + 1]
             new == joined[k + 1]
  <2>1. old \in Lists /\ Len(old) = qsl[k + 1] /\ Listed(old, k)
    BY <1>1, <1>11
  <2>2. k + 1 \in 1 .. N /\ (k + 1) - 1 = k /\ k + 1 \in 1 .. N + 1
    BY <1>1
  <2>3. new = old \o chunk /\ chunk \in Lists
    BY <1>2, <1>9, <2>2
  <2> HIDE DEF old, chunk, new
  <2>4. /\ new \in Lists /\ Len(new) = Len(old) + Len(chunk)
        /\ \A i \in 1 .. Len(old) : new[i] = old[i]
        /\ \A j \in 1 .. Len(chunk) : new[Len(old) + j] = chunk[j]
    <3>1. old \in Seq(Tokens) /\ chunk \in Seq(Tokens)
      BY <2>1, <2>3 DEF Lists
    <3> HIDE DEF T, append
    <3>2. /\ old \o chunk \in Seq(Tokens) /\ Len(old \o chunk) = Len(old) + Len(chunk)
          /\ \A i \in 1 .. Len(old) : (old \o chunk)[i] = old[i]
          /\ \A j \in 1 .. Len(chunk) : (old \o chunk)[Len(old) + j] = chunk[j]
      BY <3>1, Appended
    <3> QED
      BY <2>3, <3>2 DEF Lists
  <2>5. Len(new) = qsl[(k + 1) + 1]
    BY <1>1, <1>3, <2>1, <2>2, <2>4 DEF chunk
  <2>6. ASSUME NEW r \in 1 .. k + 1, NEW j \in 1 .. Len(chunks[r])
        PROVE  new[qsl[r] + j] = chunks[r][j]
    <3>1. CASE r = k + 1
      BY <2>1, <2>4, <3>1 DEF chunk
    <3>2. CASE r # k + 1
      <4>1. r \in 1 .. k /\ r \in 1 .. N /\ r + 1 \in 1 .. N + 1 /\ r \in 1 .. N + 1
            /\ r + 1 <= k + 1
        BY <1>1, <3>2
      <4>2. /\ qsl[r + 1] <= qsl[k + 1] /\ qsl[r] \in Nat /\ qsl[k + 1] \in Nat
            /\ qsl[r + 1] = qsl[r] + Len(chunks[r]) /\ Len(chunks[r]) \in Nat
        BY <1>1, <1>2, <1>3, <2>2, <4>1 DEF Rising
      <4>3. qsl[r] + j \in 1 .. qsl[k + 1]
        <5> DEFINE u == qsl[r]
                   v == qsl[r + 1]
                   w == qsl[k + 1]
                   l == Len(chunks[r])
        <5>1. u \in Nat /\ w \in Nat /\ l \in Nat /\ v = u + l /\ v <= w /\ j \in 1 .. l
          BY <4>2
        <5> HIDE DEF u, v, w, l
        <5>2. u + j \in 1 .. w
          BY <5>1
        <5> QED
          BY <5>2 DEF u, w
      <4>4. new[qsl[r] + j] = old[qsl[r] + j]
        BY <2>1, <2>4, <4>3
      <4> QED
        BY <2>1, <4>1, <4>4 DEF Listed
    <3> QED
      BY <3>1, <3>2
  <2> QED
    BY <2>4, <2>5, <2>6 DEF Listed, new
<1>12. N \in T
  <2> HIDE DEF T
  <2>1. Nat \subseteq T
    BY <1>10, <1>11, NatInSet
  <2> QED
    BY <1>1, <2>1
<1>13. Joined(chunks) = joined[N]
  BY DEF Joined, joined, IsJoined, none
<1> QED
  BY <1>1, <1>12, <1>13 DEF Lists, Listed, qsl

\* Chunks are lists of tokens.
LEMMA ChunksAreLists ==
    ASSUME NgramAssumption
    PROVE  Chunks \subseteq Seq(Tokens)
<1> SUFFICES ASSUME NEW k \in 0 .. MaxChunk, NEW chunk \in [1 .. k -> Tokens]
             PROVE  chunk \in Seq(Tokens)
  BY DEF Chunks
<1>1. k \in Nat
  BY DEF NgramAssumption
<1> QED
  BY <1>1, ListIsSeq

\* A chunk is written over whatever follows the computed tokens, which stay.
LEMMA TokensExtended ==
    ASSUME NEW seq \in Seq(Tokens), NEW c \in Nat, c <= Len(seq), NEW chunk \in Seq(Tokens)
    PROVE  LET next == IF chunk = << >> THEN seq ELSE SubSeq(seq, 1, c) \o chunk
           IN  /\ next \in Seq(Tokens) /\ Len(chunk) \in Nat /\ c + Len(chunk) <= Len(next)
               /\ \A i \in 1 .. c : next[i] = seq[i]
               /\ \A j \in 1 .. Len(chunk) : next[c + j] = chunk[j]
<1>1. Len(seq) \in Nat /\ Len(chunk) \in Nat
  BY LenProperties
<1>2. CASE chunk = << >>
  <2>1. Len(chunk) = 0
    BY <1>2
  <2> QED
    BY <1>1, <1>2, <2>1
<1>3. CASE chunk # << >>
  <2> DEFINE kept == SubSeq(seq, 1, c)
  <2>1. \A i \in 1 .. c : seq[i] \in Tokens /\ 1 + i - 1 = i
    <3>1. \A i \in 1 .. c : i \in 1 .. Len(seq)
      BY <1>1
    <3>2. \A i \in 1 .. c : 1 + i - 1 = i
      OBVIOUS
    <3> QED
      BY <3>1, <3>2, ElementOfSeq
  <2>2. 1 \in Int /\ c \in Int /\ c - 1 + 1 = c
    OBVIOUS
  <2>3. /\ kept \in Seq(Tokens) /\ Len(kept) = (IF 1 <= c THEN c - 1 + 1 ELSE 0)
        /\ \A i \in 1 .. c - 1 + 1 : kept[i] = seq[1 + i - 1]
    BY <2>1, <2>2, SubSeqProperties
  <2> HIDE DEF kept
  <2>4. Len(kept) = c /\ \A i \in 1 .. c : kept[i] = seq[i]
    <3>1. Len(kept) = c
      BY <2>3
    <3>2. \A i \in 1 .. c : kept[i] = seq[i]
      BY <2>1, <2>2, <2>3
    <3> QED
      BY <3>1, <3>2
  <2>5. /\ kept \o chunk \in Seq(Tokens) /\ Len(kept \o chunk) = c + Len(chunk)
        /\ \A i \in 1 .. c : (kept \o chunk)[i] = kept[i]
        /\ \A j \in 1 .. Len(chunk) : (kept \o chunk)[c + j] = chunk[j]
    <3>1. /\ kept \o chunk \in Seq(Tokens) /\ Len(kept \o chunk) = Len(kept) + Len(chunk)
          /\ \A i \in 1 .. Len(kept) : (kept \o chunk)[i] = kept[i]
          /\ \A j \in 1 .. Len(chunk) : (kept \o chunk)[Len(kept) + j] = chunk[j]
      <4>1. kept \in Seq(Tokens) /\ chunk \in Seq(Tokens)
        BY <2>3
      <4> QED
        BY <4>1, Appended
    <3> QED
      BY <2>4, <3>1
  <2> QED
    BY <1>1, <1>3, <2>4, <2>5 DEF kept
<1> QED
  BY <1>2, <1>3

LEMMA PrepareInv ==
    ASSUME NgramAssumption, NgramInv, NEW chunks \in [Reqs -> Chunks], Prepare(chunks)
    PROVE  NgramInv'
<1> DEFINE qsl == StartLoc(chunks)
           all == Joined(chunks)
<1>1. chunks \in [Reqs -> Seq(Tokens)]
  <2> HIDE DEF qsl, all
  <2> QED
    BY ChunksAreLists
<1>2. Rising(qsl) /\ \A r \in Reqs : qsl[r + 1] = qsl[r] + Len(chunks[r])
  BY <1>1, StartsRise
<1>3. /\ all \in Seq(Tokens) /\ Len(all) = qsl[NumReqs + 1]
      /\ \A r \in Reqs : \A j \in 1 .. Len(chunks[r]) : all[qsl[r] + j] = chunks[r][j]
  BY <1>1, JoinedIs
<1> HIDE DEF qsl, all
<1>4. /\ prepared'.input = all /\ prepared'.qsl = qsl /\ prepared'.at = computed
      /\ \A r \in Reqs : prepared'.ctx[r] = Context(tokens[r], computed[r])
  BY DEF Prepare, qsl, all
<1>5. ASSUME NEW r \in Reqs
      PROVE  /\ tokens'[r] \in Seq(Tokens) /\ Len(tokens'[r]) \in Nat
             /\ Len(chunks[r]) \in Nat /\ computed[r] \in Nat
             /\ computed'[r] = computed[r] + Len(chunks[r]) /\ computed'[r] <= Len(tokens'[r])
             /\ \A i \in 1 .. computed[r] : tokens'[r][i] = tokens[r][i]
             /\ \A j \in 1 .. Len(chunks[r]) : tokens'[r][computed[r] + j] = chunks[r][j]
  <2> DEFINE seq == tokens[r]
             c == computed[r]
             chunk == chunks[r]
             next == tokens'[r]
  <2>1. seq \in Seq(Tokens) /\ c \in Nat /\ c <= Len(seq) /\ chunk \in Seq(Tokens)
    BY <1>1 DEF NgramInv
  <2>2. next = (IF chunk = << >> THEN seq ELSE SubSeq(seq, 1, c) \o chunk)
        /\ computed'[r] = c + Len(chunk)
    BY DEF Prepare
  <2> HIDE DEF seq, c, chunk, next
  <2>3. /\ next \in Seq(Tokens) /\ Len(chunk) \in Nat /\ c + Len(chunk) <= Len(next)
        /\ \A i \in 1 .. c : next[i] = seq[i]
        /\ \A j \in 1 .. Len(chunk) : next[c + j] = chunk[j]
    BY <2>1, <2>2, TokensExtended
  <2>4. Len(next) \in Nat
    BY <2>3, LenProperties
  <2> QED
    BY <2>1, <2>2, <2>3, <2>4 DEF seq, c, chunk, next
<1>6. tokens' \in [Reqs -> Seq(Tokens)] /\ computed' \in [Reqs -> Nat]
  <2>1. tokens' = [r \in Reqs |-> tokens'[r]] /\ computed' = [r \in Reqs |-> computed'[r]]
    BY DEF Prepare
  <2>2. \A r \in Reqs : computed'[r] \in Nat
    BY <1>5
  <2> QED
    BY <1>5, <2>1, <2>2
<1>7. ASSUME NEW r \in Reqs PROVE Carries(prepared', r, tokens'[r])
  <2> DEFINE n == qsl[r + 1] - qsl[r]
             l == Len(chunks[r])
             c == computed[r]
             seq == tokens[r]
             next == tokens'[r]
  <2>1. r \in 1 .. NumReqs + 1
    BY DEF Reqs, NgramAssumption
  <2>2. n = l
    BY <1>2, <1>5, <2>1 DEF Rising
  <2>3. c \in Nat /\ c + l <= Len(next)
    BY <1>5
  <2>4. \A j \in 1 .. n : all[qsl[r] + j] = next[c + j]
    <3> HIDE DEF n, c
    <3> QED
      BY <1>3, <1>5, <2>2 DEF c
  <2>5. Context(seq, c) = Context(next, c)
    <3>1. ASSUME NEW i \in 1 .. ContextLen, c - ContextLen + i >= 1
          PROVE  seq[c - ContextLen + i] = next[c - ContextLen + i]
      <4>1. ContextLen \in Nat
        BY DEF NgramAssumption, ContextLen
      <4>2. c - ContextLen + i \in 1 .. c
        <5> HIDE DEF c
        <5> QED
          BY <2>3, <3>1, <4>1
      <4> QED
        BY <1>5, <4>2
    <3> HIDE DEF c, seq, next
    <3> QED
      BY <3>1 DEF Context
  <2>6. prepared'.ctx[r] = Context(next, c)
    BY <1>4, <2>5
  <2> HIDE DEF n, l, seq, next
  <2> QED
    BY <1>4, <2>2, <2>3, <2>4, <2>6 DEF Carries, n, next
<1>8. Batched(prepared)'
  BY <1>2, <1>3, <1>4, <1>7 DEF Batched
<1> QED
  BY <1>5, <1>6, <1>8 DEF NgramInv

\* Every row of the last batch is a token of its request, however it was cut and batched,
\* and however many of its rows were rejected since; so is what the context holds.
THEOREM BatchStaysCarried == NgramSpec => []NgramInv
<1> USE NgramAssumption
<1>1. NgramInit => NgramInv
  <2> SUFFICES ASSUME NgramInit PROVE NgramInv
    OBVIOUS
  <2> DEFINE none == << >>
  <2>1. none \in Seq(Tokens) /\ Len(none) = 0
    OBVIOUS
  <2> HIDE DEF none
  <2>2. /\ \A r \in Reqs : tokens[r] = none /\ computed[r] = 0
        /\ tokens \in [Reqs -> Seq(Tokens)] /\ computed \in [Reqs -> Nat]
    <3>1. tokens = [r \in Reqs |-> none] /\ computed = [r \in Reqs |-> 0]
      BY DEF NgramInit, none
    <3> QED
      BY <2>1, <3>1
  <2>3. /\ prepared.input = none /\ prepared.qsl = [r \in 1 .. NumReqs + 1 |-> 0]
        /\ \A r \in Reqs : prepared.ctx[r] = Context(none, 0) /\ prepared.at[r] = 0
    BY DEF NgramInit, NoBatch, none
  <2>4. \A r \in 1 .. NumReqs + 1 : prepared.qsl[r] = 0
    BY <2>3
  <2>5. /\ NumReqs + 1 \in 1 .. NumReqs + 1
        /\ \A r \in Reqs : r \in 1 .. NumReqs + 1 /\ r + 1 \in 1 .. NumReqs + 1
    BY DEF NgramAssumption, Reqs
  <2>6. Rising(prepared.qsl)
    BY <2>3, <2>4 DEF Rising
  <2>7. ASSUME NEW r \in Reqs PROVE Carries(prepared, r, tokens[r])
    <3>1. prepared.qsl[r + 1] - prepared.qsl[r] = 0
      BY <2>4, <2>5
    <3> QED
      BY <2>1, <2>2, <2>3, <3>1 DEF Carries
  <2> QED
    BY <2>1, <2>2, <2>3, <2>4, <2>5, <2>6, <2>7 DEF NgramInv, Batched
<1>2. NgramInv /\ [NgramNext]_ngramVars => NgramInv'
  <2> SUFFICES ASSUME NgramInv, [NgramNext]_ngramVars PROVE NgramInv'
    OBVIOUS
  <2>1. ASSUME NEW chunks \in [Reqs -> Chunks], Prepare(chunks) PROVE NgramInv'
    BY <2>1, PrepareInv
  <2>2. ASSUME NEW r \in Reqs, NEW k \in 1 .. MaxChunk, Reject(r, k) PROVE NgramInv'
    <3>1. Batched(prepared)'
      BY <2>2 DEF Reject, NgramInv, Batched
    <3>2. /\ prepared.at[r] \in Nat /\ computed \in [Reqs -> Nat]
          /\ \A q \in Reqs : computed[q] <= Len(tokens[q])
      BY DEF NgramInv, Batched, Carries
    <3>3. /\ k \in Nat \ {0} /\ k < computed[r] - prepared.at[r]
          /\ computed' = [computed EXCEPT ![r] = computed[r] - k] /\ tokens' = tokens
      BY <2>2 DEF Reject
    <3>4. computed[r] - k \in Nat /\ computed[r] - k <= computed[r]
      BY <3>2, <3>3
    <3>5. computed' \in [Reqs -> Nat] /\ \A q \in Reqs : computed'[q] <= computed[q]
      BY <3>2, <3>3, <3>4
    <3>6. \A q \in Reqs : Len(tokens[q]) \in Nat
      BY LenProperties DEF NgramInv
    <3>7. \A q \in Reqs : computed'[q] <= Len(tokens'[q])
      BY <3>2, <3>3, <3>5, <3>6
    <3> QED
      BY <3>1, <3>3, <3>5, <3>7 DEF NgramInv
  <2>3. CASE UNCHANGED ngramVars
    BY <2>3 DEF ngramVars, NgramInv, Batched
  <2> QED
    BY <2>1, <2>2, <2>3 DEF NgramNext
<1> QED
  BY <1>1, <1>2, PTL DEF NgramSpec

\* However requests are cut into chunks, batched together and rolled back, the kernel's ids
\* and the host code's are those of the requests' own tokens, for every number of requests,
\* length of n-grams and of chunks (ops_ple.py:53-98, ple_layer.py:430-478): IdsAreRight.
THEOREM IdsStayRight == NgramSpec => []IdsAreRight
<1> USE NgramAssumption
<1>1. NgramInv => IdsAreRight
  <2> SUFFICES ASSUME NgramInv, NEW r \in Reqs,
                      NEW j \in 1 .. prepared.qsl[r + 1] - prepared.qsl[r]
               PROVE  /\ KernelIds(prepared)[prepared.qsl[r] + j]
                         = Reference(tokens[r], prepared.at[r] + j)
                      /\ HostIds(prepared)[prepared.qsl[r] + j]
                         = Reference(tokens[r], prepared.at[r] + j)
    BY DEF IdsAreRight, AreReferences
  <2> DEFINE b == prepared
             seq == tokens[r]
  <2>1. /\ seq \in Seq(Tokens) /\ Rising(b.qsl) /\ b.qsl[NumReqs + 1] = Len(b.input)
        /\ b.input \in Seq(Tokens) /\ Carries(b, r, seq) /\ j \in 1 .. b.qsl[r + 1] - b.qsl[r]
    BY DEF NgramInv, Batched
  <2> HIDE DEF b, seq
  <2>2. KernelIds(b)[b.qsl[r] + j] = Reference(seq, b.at[r] + j)
    BY <2>1, KernelIsRight
  <2>3. HostIds(b)[b.qsl[r] + j] = Reference(seq, b.at[r] + j)
    BY <2>1, HostIsRight
  <2> QED
    BY <2>2, <2>3 DEF b, seq
<1> QED
  BY <1>1, BatchStaysCarried, PTL

-----------------------------------------------------------------------------
\* A table of t.vocab rows, cut into so many shards of which the files lack some.
IsTable(t, cut) ==
    /\ t.vocab \in Nat \ {0} /\ cut \in Nat \ {0} /\ t.parts \in Nat \ {0}
    /\ t.lacks \subseteq 0 .. cut - 1 /\ t.cutSize = Ceil(t.vocab, cut)
    /\ t.rows = [s \in (0 .. cut - 1) \ t.lacks |-> ExpectedRows(t.vocab, cut, s)]

\* The size of a shard, and how many of its rows there are.
LEMMA ShardRows ==
    ASSUME NEW vocab \in Nat \ {0}, NEW cut \in Nat \ {0}
    PROVE  LET size == Ceil(vocab, cut)
           IN  /\ size \in Nat \ {0} /\ size <= vocab /\ vocab <= cut * size
               /\ \A s \in Nat :
                    /\ s * size \in Nat
                    /\ ExpectedRows(vocab, cut, s) =
                         IF vocab <= s * size THEN 0
                         ELSE IF vocab - s * size < size THEN vocab - s * size ELSE size
               /\ ExpectedRows(vocab, cut, 0) = size
<1> DEFINE size == Ceil(vocab, cut)
<1>1. size \in Nat /\ size * cut \in Nat /\ vocab <= size * cut /\ size * cut < vocab + cut
  BY RoundedUp DEF Ceil
<1>2. \A s \in Nat : ExpectedRows(vocab, cut, s) = Max({0, Min({size, vocab - s * size})})
  BY DEF ExpectedRows
<1> HIDE DEF size
<1>3. size # 0
  <2>1. 0 * cut = 0
    OBVIOUS
  <2> QED
    BY <1>1, <2>1
<1>4. size <= vocab
  <2>1. vocab < size => vocab * cut + cut <= size * cut
    BY <1>1, MultiplesInOrder
  <2>2. 1 <= cut => 1 * vocab <= cut * vocab
    BY MultiplesInOrder
  <2>3. 1 * vocab = vocab /\ cut * vocab = vocab * cut /\ vocab * cut \in Nat
    OBVIOUS
  <2> QED
    BY <1>1, <2>1, <2>2, <2>3
<1>5. cut * size = size * cut
  BY <1>1
<1>6. ASSUME NEW s \in Nat
      PROVE  /\ s * size \in Nat
             /\ ExpectedRows(vocab, cut, s) =
                  IF vocab <= s * size THEN 0
                  ELSE IF vocab - s * size < size THEN vocab - s * size ELSE size
  <2> DEFINE done == s * size
             left == vocab - done
  <2>1. done \in Nat /\ left \in Int
    BY <1>1
  <2>2. ExpectedRows(vocab, cut, s) = Max({0, Min({size, left})})
    BY <1>2
  <2>3. Min({size, left}) = IF size <= left THEN size ELSE left
    <3> HIDE DEF left
    <3> QED
      BY <1>1, <2>1, MinOfTwo
  <2> DEFINE m == IF size <= left THEN size ELSE left
  <2>4. m \in Int
    BY <1>1, <2>1
  <2>5. Max({0, m}) = IF 0 >= m THEN 0 ELSE m
    <3> HIDE DEF m
    <3> DEFINE z == 0
    <3>1. z \in Int
      OBVIOUS
    <3> HIDE DEF z
    <3>2. Max({z, m}) = IF z >= m THEN z ELSE m
      BY <2>4, <3>1, MaxOfTwo
    <3> QED
      BY <3>2 DEF z
  <2>6. ExpectedRows(vocab, cut, s) = IF 0 >= m THEN 0 ELSE m
    BY <2>2, <2>3, <2>5
  <2> HIDE DEF done
  <2>7. (IF 0 >= m THEN 0 ELSE m)
        = IF vocab <= done THEN 0 ELSE IF vocab - done < size THEN vocab - done ELSE size
    BY <1>1, <1>3, <2>1
  <2> QED
    BY <2>1, <2>6, <2>7 DEF done
<1>7. ExpectedRows(vocab, cut, 0) = size
  <2>1. 0 * size = 0 /\ vocab - 0 = vocab
    BY <1>1
  <2>2. ExpectedRows(vocab, cut, 0) =
          IF vocab <= 0 * size THEN 0
          ELSE IF vocab - 0 * size < size THEN vocab - 0 * size ELSE size
    BY <1>6
  <2>3. ~(vocab <= 0) /\ ~(vocab < size)
    BY <1>1, <1>4
  <2> QED
    BY <2>1, <2>2, <2>3
<1> QED
  BY <1>1, <1>3, <1>4, <1>5, <1>6, <1>7 DEF size

\* Row i is in shard i \div size, which has it.
LEMMA ShardHasRow ==
    ASSUME NEW vocab \in Nat \ {0}, NEW cut \in Nat \ {0}, NEW i \in 0 .. vocab - 1
    PROVE  LET size == Ceil(vocab, cut)
           IN  /\ i \div size \in 0 .. cut - 1 /\ i % size \in Nat
               /\ i = (i \div size) * size + (i % size)
               /\ i % size < ExpectedRows(vocab, cut, i \div size)
<1> DEFINE size == Ceil(vocab, cut)
           s == i \div size
           l == i % size
<1>1. /\ size \in Nat \ {0} /\ vocab <= cut * size
      /\ \A x \in Nat : ExpectedRows(vocab, cut, x) =
           IF vocab <= x * size THEN 0
           ELSE IF vocab - x * size < size THEN vocab - x * size ELSE size
  BY ShardRows
<1> HIDE DEF size
<1>2. s \in Int /\ l \in 0 .. size - 1 /\ i = s * size + l
  BY <1>1, Division
<1>3. s \in 0 .. cut - 1
  <2>1. i \in Nat /\ i < cut * size
    <3>1. cut * size \in Int
      BY <1>1
    <3> QED
      BY <1>1, <3>1
  <2> QED
    BY <1>1, <2>1, InOneSlice
<1> HIDE DEF s, l
<1>4. l < ExpectedRows(vocab, cut, s)
  <2>1. s \in Nat
    BY <1>3
  <2> DEFINE done == s * size
  <2>2. ExpectedRows(vocab, cut, s) =
          IF vocab <= done THEN 0 ELSE IF vocab - done < size THEN vocab - done ELSE size
    BY <1>1, <2>1
  <2>3. done \in Nat /\ i = done + l
    BY <1>1, <1>2, <2>1
  <2> HIDE DEF done
  <2> QED
    BY <1>1, <1>2, <2>2, <2>3
<1> QED
  BY <1>2, <1>3, <1>4 DEF size, s, l

\* The rows of the first shards add up to the table or fill them.
LEMMA RowsAddUp ==
    ASSUME NEW vocab \in Nat \ {0}, NEW cut \in Nat \ {0}, NEW n \in Nat, NEW rows,
           \A s \in 0 .. n - 1 : rows[s] = ExpectedRows(vocab, cut, s)
    PROVE  SumFunctionOnSet(rows, 0 .. n - 1)
           = IF n * Ceil(vocab, cut) <= vocab THEN n * Ceil(vocab, cut) ELSE vocab
<1> DEFINE size == Ceil(vocab, cut)
           sum(r) == SumFunctionOnSet(rows, 0 .. r - 1)
           T == {h \in Nat : h <= n => sum(h) = IF h * size <= vocab THEN h * size ELSE vocab}
           a == 0
<1>1. /\ size \in Nat \ {0}
      /\ \A s \in Nat :
           /\ s * size \in Nat
           /\ ExpectedRows(vocab, cut, s) =
                IF vocab <= s * size THEN 0
                ELSE IF vocab - s * size < size THEN vocab - s * size ELSE size
  BY ShardRows
<1> HIDE DEF size
<1>2. \A s \in 0 .. n - 1 : rows[s] \in Nat
  BY <1>1
<1>3. sum(0) = 0 /\ \A r \in 0 .. n - 1 : sum(r + 1) = rows[r] + sum(r)
  <2>1. a \in Int /\ n \in Int /\ a <= n /\ \A y \in a .. n - 1 : rows[y] \in Nat
    BY <1>2
  <2> HIDE DEF a, T
  <2>2. /\ SumFunctionOnSet(rows, a .. a - 1) = 0
        /\ \A r \in a .. n - 1 :
             SumFunctionOnSet(rows, a .. (r + 1) - 1) = rows[r] + SumFunctionOnSet(rows, a .. r - 1)
    BY <2>1, PartialSums
  <2> QED
    BY <2>2 DEF a
<1> HIDE DEF sum
<1>4. 0 \in T
  <2>1. 0 * size = 0
    BY <1>1
  <2> QED
    BY <1>3, <2>1
<1>5. ASSUME NEW h \in Nat, h \in T PROVE h + 1 \in T
  <2> SUFFICES ASSUME h + 1 <= n
               PROVE  sum(h + 1) = IF (h + 1) * size <= vocab THEN (h + 1) * size ELSE vocab
    OBVIOUS
  <2> DEFINE done == h * size
  <2>1. h \in 0 .. n - 1 /\ (h + 1) * size = done + size /\ done \in Nat
    BY <1>1
  <2>2. sum(h + 1) = rows[h] + sum(h) /\ sum(h) = IF done <= vocab THEN done ELSE vocab
    BY <1>3, <1>5, <2>1
  <2>3. rows[h] = IF vocab <= done THEN 0 ELSE IF vocab - done < size THEN vocab - done ELSE size
    BY <1>1, <2>1
  <2> DEFINE own == rows[h]
             old == sum(h)
  <2>4. /\ size \in Nat /\ done \in Nat /\ old = (IF done <= vocab THEN done ELSE vocab)
        /\ own = (IF vocab <= done THEN 0
                  ELSE IF vocab - done < size THEN vocab - done ELSE size)
    BY <1>1, <2>1, <2>2, <2>3
  <2> HIDE DEF done, T, own, old
  <2>5. own + old = IF done + size <= vocab THEN done + size ELSE vocab
    <3>1. CASE vocab <= done
      BY <1>1, <2>4, <3>1
    <3>2. CASE ~(vocab <= done)
      BY <2>4, <3>2
    <3> QED
      BY <3>1, <3>2
  <2>6. sum(h + 1) = own + old
    BY <2>2 DEF own, old
  <2> QED
    BY <2>1, <2>5, <2>6
<1>6. n \in T
  <2> HIDE DEF T
  <2>1. Nat \subseteq T
    BY <1>4, <1>5, NatInSet
  <2> QED
    BY <2>1
<1> QED
  BY <1>6 DEF sum, size

\* An accepted table holds every row, where the quotient and remainder say.
LEMMA DiskHolds ==
    ASSUME NEW t, NEW cut, IsTable(t, cut), DiskOpens(t), NEW i \in 0 .. t.vocab - 1
    PROVE  /\ t.rows[0] \in Nat \ {0}
           /\ i \div t.rows[0] \in DOMAIN t.rows
           /\ Stored(t, i \div t.rows[0], i % t.rows[0]) = i + 1
<1> DEFINE vocab == t.vocab
           size == Ceil(vocab, cut)
           rows == t.rows
           n == Cardinality(DOMAIN rows)
           s == i \div size
           l == i % size
<1>1. /\ vocab \in Nat \ {0} /\ cut \in Nat \ {0} /\ t.cutSize = size
      /\ rows = [x \in (0 .. cut - 1) \ t.lacks |-> ExpectedRows(vocab, cut, x)]
  BY DEF IsTable
<1>2. n > 0 /\ DOMAIN rows = 0 .. n - 1 /\ SumFunction(rows) = vocab
  BY DEF DiskOpens
<1>3. /\ size \in Nat \ {0} /\ ExpectedRows(vocab, cut, 0) = size
      /\ \A x \in Nat : x * size \in Nat
  <2> HIDE DEF vocab, rows
  <2> QED
    BY <1>1, ShardRows
<1>4. n \in Nat
  <2>1. DOMAIN rows \subseteq 0 .. cut - 1
    BY <1>1
  <2>2. IsFiniteSet(0 .. cut - 1)
    BY <1>1, FS_Interval
  <2> HIDE DEF rows
  <2>3. IsFiniteSet(DOMAIN rows)
    BY <2>1, <2>2, FS_Subset
  <2> QED
    BY <2>3, FS_CardinalityType
<1>5. \A x \in DOMAIN rows : rows[x] = ExpectedRows(vocab, cut, x)
  BY <1>1
<1> HIDE DEF size, n, vocab, rows
<1>6. rows[0] = size
  <2>1. 0 \in DOMAIN rows
    BY <1>2, <1>4
  <2> QED
    BY <1>3, <1>5, <2>1
<1>7. vocab <= n * size
  <2>1. SumFunctionOnSet(rows, 0 .. n - 1) = IF n * size <= vocab THEN n * size ELSE vocab
    BY <1>1, <1>2, <1>4, <1>5, RowsAddUp, ZenonT(60) DEF size
  <2>2. SumFunctionOnSet(rows, 0 .. n - 1) = vocab
    BY <1>2 DEF SumFunction
  <2>3. n * size \in Nat
    BY <1>3, <1>4
  <2> QED
    BY <1>1, <2>1, <2>2, <2>3
<1>8. i \in 0 .. vocab - 1
  BY DEF vocab
<1>9. s \in DOMAIN rows
  <2>1. i \in Nat /\ i < n * size
    <3>1. n * size \in Nat
      BY <1>3, <1>4
    <3> QED
      BY <1>1, <1>7, <1>8, <3>1
  <2>2. s \in 0 .. n - 1
    BY <1>3, <1>4, <2>1, InOneSlice
  <2> QED
    BY <1>2, <2>2
<1>10. l \in Nat /\ i = s * size + l /\ l < ExpectedRows(vocab, cut, s)
  BY <1>1, <1>8, ShardHasRow DEF size
<1> HIDE DEF s, l
<1>11. Stored(t, s, l) = s * size + l + 1
  BY <1>1, <1>5, <1>9, <1>10 DEF Stored, rows
<1>12. s * size + l + 1 = i + 1
  BY <1>10
<1> QED
  BY <1>3, <1>6, <1>9, <1>11, <1>12 DEF s, l, rows

\* Task by task, the gather of a lookup reads the row of each id.
LEMMA DiskIsRight ==
    ASSUME TableAssumption, NEW t, NEW cut, IsTable(t, cut), DiskOpens(t),
           NEW n \in Nat, NEW ids \in [1 .. n -> 0 .. t.vocab - 1]
    PROVE  GatherCpu(t, ids) = RowsOf(ids)
<1> DEFINE C == ReadChunk
           Task(j) == ((j - 1) \div C) * C
           Chunk(a) == SubSeq(ids, a + 1, Min({a + C, n}))
           vocab == t.vocab
<1>1. Len(ids) = n /\ DOMAIN ids = 1 .. n /\ C \in Nat \ {0} /\ vocab \in Nat \ {0}
  <2>1. Len(ids) = n /\ DOMAIN ids = 1 .. n
    BY ListIsSeq
  <2> QED
    BY <2>1 DEF TableAssumption, IsTable
<1>2. GatherCpu(t, ids) = [j \in 1 .. n |-> DiskRow(t, Chunk(Task(j))[j - Task(j)])]
  BY <1>1 DEF GatherCpu
<1> HIDE DEF C
<1>3. ASSUME NEW j \in 1 .. n PROVE Chunk(Task(j))[j - Task(j)] = ids[j]
  <2> DEFINE a == Task(j)
             end == Min({a + C, n})
             at == j - a
  <2>1. a \in Nat /\ a <= j - 1 /\ j - 1 < a + C
    <3> DEFINE x == j - 1
    <3>1. x \in Nat
      OBVIOUS
    <3> HIDE DEF x
    <3> DEFINE y == (x \div C) * C
    <3>2. a = y
      BY DEF x
    <3>3. y \in Nat /\ y <= x /\ x < y + C
      BY <1>1, <3>1, MultipleBelow
    <3> QED
      BY <3>2, <3>3 DEF x
  <2> HIDE DEF Task, a
  <2>2. end = (IF a + C <= n THEN a + C ELSE n) /\ end \in Int
    BY <1>1, <2>1, MinOfTwo
  <2> HIDE DEF end
  <2>3. at \in 1 .. end - (a + 1) + 1 /\ (a + 1) + at - 1 = j
        /\ a + 1 \in Int /\ end <= n
    BY <1>1, <2>1, <2>2
  <2> DEFINE S == 0 .. vocab - 1
  <2>4. \A x \in a + 1 .. end : ids[x] \in S
    <3>1. \A x \in a + 1 .. end : x \in 1 .. n
      BY <2>1, <2>2, <2>3
    <3> QED
      BY <3>1
  <2> HIDE DEF S
  <2> DEFINE first == a + 1
             part == SubSeq(ids, first, end)
  <2>5. /\ first \in Int /\ end \in Int /\ \A x \in first .. end : ids[x] \in S
        /\ at \in 1 .. end - first + 1 /\ first + at - 1 = j
    BY <2>2, <2>3, <2>4
  <2> HIDE DEF first, at, Chunk, vocab
  <2>6. \A x \in 1 .. end - first + 1 : part[x] = ids[first + x - 1]
    BY <2>5, SubSeqProperties
  <2>7. part[at] = ids[j]
    BY <2>5, <2>6
  <2> QED
    BY <2>7 DEF a, end, at, first, Chunk
<1> HIDE DEF Chunk, Task
<1>4. ASSUME NEW j \in 1 .. n PROVE DiskRow(t, ids[j]) = ids[j] + 1
  <2>1. ids[j] \in 0 .. t.vocab - 1
    OBVIOUS
  <2> DEFINE x == ids[j]
  <2> HIDE DEF x
  <2>2. x \in 0 .. t.vocab - 1
    BY <2>1 DEF x
  <2>3. /\ x \div t.rows[0] \in DOMAIN t.rows
        /\ Stored(t, x \div t.rows[0], x % t.rows[0]) = x + 1
    BY <2>2, DiskHolds
  <2>4. DiskRow(t, x) = x + 1
    BY <2>3 DEF DiskRow
  <2> QED
    BY <2>4 DEF x
<1> QED
  BY <1>1, <1>2, <1>3, <1>4 DEF RowsOf

\* The rows from start + 1 on, so many of them.
Rows(start, count) == [c \in 1 .. count |-> start + c]

\* One read of a slice: rows of one shard, and at least one.
LEMMA PieceIsRight ==
    ASSUME TableAssumption, NEW t, NEW cut, IsTable(t, cut), DiskOpens(t),
           NEW row \in Nat, NEW left \in Nat \ {0}, row + left <= t.vocab
    PROVE  LET n == SliceRead(t, row, left)
           IN  /\ n \in 1 .. left
               /\ [k \in 1 .. n |-> Stored(t, row \div t.rows[0], (row % t.rows[0]) + k - 1)]
                  = Rows(row, n)
<1> DEFINE vocab == t.vocab
           size == t.rows[0]
           n == SliceRead(t, row, left)
           l == row % size
           q == row \div size
<1>1. vocab \in Nat \ {0} /\ SliceChunk \in Nat \ {0}
  BY DEF IsTable, TableAssumption
<1>2. row \in 0 .. vocab - 1
  BY <1>1
<1>3. /\ size \in Nat \ {0}
      /\ \A i \in 0 .. vocab - 1 : Stored(t, i \div size, i % size) = i + 1
  BY <1>2, DiskHolds
<1> HIDE DEF size, vocab
<1>4. q \in Int /\ l \in 0 .. size - 1 /\ row = q * size + l
  <2>1. row \in Int /\ size \in Nat \ {0}
    BY <1>3
  <2> HIDE DEF n
  <2> QED
    BY <2>1, Division
<1> HIDE DEF q, l
<1>5. n \in {SliceChunk, left, size - l} /\ \A x \in {SliceChunk, left, size - l} : n <= x
  <2> DEFINE S == {SliceChunk, left, size - l}
  <2>1. S \in SUBSET Nat /\ S # {}
    BY <1>1, <1>3, <1>4
  <2>2. n = Min(S)
    BY DEF SliceRead, l, size
  <2> HIDE DEF S, n
  <2>3. n \in S /\ \A x \in S : n <= x
    BY <2>1, <2>2, MinOfSome
  <2> QED
    BY <2>3 DEF S
<1> HIDE DEF n
<1>6. n \in 1 .. left /\ n <= size - l
  BY <1>1, <1>3, <1>4, <1>5
<1>7. ASSUME NEW k \in 1 .. n PROVE Stored(t, q, l + k - 1) = row + k
  <2> DEFINE i == row + (k - 1)
             r == l + (k - 1)
             base == q * size
  <2>1. k \in Nat /\ 1 <= k /\ k <= n /\ base \in Int /\ row = base + l
    BY <1>3, <1>4, <1>6
  <2>2. r \in 0 .. size - 1 /\ r = l + k - 1 /\ i = base + r /\ i + 1 = row + k
    <3> HIDE DEF base
    <3> QED
      BY <1>3, <1>4, <1>6, <2>1
  <2>3. i \in 0 .. vocab - 1
    BY <1>1, <1>6, <2>1 DEF vocab
  <2> HIDE DEF r, i
  <2>4. i \div size = q /\ i % size = r
    BY <1>3, <1>4, <2>2, Quotient
  <2>5. Stored(t, i \div size, i % size) = i + 1
    BY <1>3, <2>3
  <2> QED
    BY <2>2, <2>4, <2>5
<1> QED
  BY <1>6, <1>7 DEF Rows, n, q, l, size

\* Rows after rows.
LEMMA RowsFollow ==
    ASSUME NEW row \in Nat, NEW m \in Nat, NEW n \in Nat
    PROVE  Rows(row, m) \o Rows(row + m, n) = Rows(row, m + n)
<1> DEFINE s == Rows(row, m)
           u == Rows(row + m, n)
           all == Rows(row, m + n)
           su == s \o u
<1>1. s \in [1 .. m -> Int] /\ u \in [1 .. n -> Int] /\ all \in [1 .. m + n -> Int]
  BY DEF Rows
<1>2. /\ \A c \in 1 .. m : s[c] = row + c
      /\ \A c \in 1 .. n : u[c] = row + m + c
      /\ \A c \in 1 .. m + n : all[c] = row + c
  BY DEF Rows
<1> HIDE DEF s, u, all
<1>3. s \in Seq(Int) /\ Len(s) = m /\ u \in Seq(Int) /\ Len(u) = n
  BY <1>1, ListIsSeq
<1>4. /\ su \in Seq(Int) /\ Len(su) = m + n
      /\ \A c \in 1 .. m : su[c] = s[c]
      /\ \A c \in 1 .. n : su[m + c] = u[c]
  <2>1. s \in Seq(Int) /\ u \in Seq(Int)
    BY <1>3
  <2>2. /\ s \o u \in Seq(Int) /\ Len(s \o u) = Len(s) + Len(u)
        /\ \A c \in 1 .. Len(s) : (s \o u)[c] = s[c]
        /\ \A c \in 1 .. Len(u) : (s \o u)[Len(s) + c] = u[c]
    BY <2>1, Appended
  <2> QED
    BY <1>3, <2>2
<1> HIDE DEF su
<1>5. su \in [1 .. m + n -> Int]
  BY <1>4, LenProperties
<1>6. ASSUME NEW c \in 1 .. m + n PROVE su[c] = all[c]
  <2>1. CASE c <= m
    <3>1. c \in 1 .. m
      BY <2>1
    <3> QED
      BY <1>2, <1>4, <3>1
  <2>2. CASE ~(c <= m)
    <3>1. c - m \in 1 .. n /\ m + (c - m) = c /\ row + m + (c - m) = row + c
      BY <2>2
    <3>2. su[m + (c - m)] = u[c - m] /\ u[c - m] = row + m + (c - m)
      BY <1>2, <1>4, <3>1
    <3> QED
      BY <1>2, <3>1, <3>2
  <2> QED
    BY <2>1, <2>2
<1>7. su = all
  BY <1>1, <1>5, <1>6
<1> QED
  BY <1>7 DEF su, s, u, all

\* Read after read, a slice has its rows, wherever shards end in it.
LEMMA SliceIsRight ==
    ASSUME TableAssumption, NEW t, NEW cut, IsTable(t, cut), DiskOpens(t),
           NEW start \in Nat, NEW count \in Nat, count # 0 => start + count <= t.vocab
    PROVE  ReadRowsContiguous(t, start, count) = Rows(start, count)
<1> DEFINE size == t.rows[0]
           piece(row, n) == [k \in 1 .. n |-> Stored(t, row \div size, (row % size) + k - 1)]
           take(d) == SliceRead(t, start + d, count - d)
           Reads(f) == f = [d \in 0 .. count |->
                              IF d = count THEN << >>
                              ELSE piece(start + d, take(d)) \o f[d + take(d)]]
           read == CHOOSE f : Reads(f)
           rest(d) == Rows(start + d, count - d)
<1>1. ReadRowsContiguous(t, start, count) = read[0]
  BY DEF ReadRowsContiguous
<1>2. ASSUME NEW d \in 0 .. count, d # count
      PROVE  /\ take(d) \in 1 .. count - d
             /\ piece(start + d, take(d)) = Rows(start + d, take(d))
             /\ piece(start + d, take(d)) \o rest(d + take(d)) = rest(d)
  <2> DEFINE row == start + d
             left == count - d
             n == take(d)
  <2>1. row \in Nat /\ left \in Nat \ {0} /\ row + left <= t.vocab
    <3>1. t.vocab \in Nat
      BY DEF IsTable
    <3> QED
      BY <1>2, <3>1
  <2>2. n = SliceRead(t, row, left)
    OBVIOUS
  <2> HIDE DEF row, left, n
  <2>3. n \in 1 .. left /\ piece(row, n) = Rows(row, n)
    BY <2>1, <2>2, PieceIsRight
  <2>4. n \in Nat /\ left - n \in Nat /\ n + (left - n) = left
    BY <2>1, <2>3
  <2> HIDE DEF piece
  <2>5. Rows(row, n) \o Rows(row + n, left - n) = Rows(row, left)
    <3> DEFINE more == left - n
    <3>1. n \in Nat /\ more \in Nat /\ n + more = left
      BY <2>4
    <3> HIDE DEF more, take, Reads, read, rest
    <3>2. Rows(row, n) \o Rows(row + n, more) = Rows(row, n + more)
      BY <2>1, <3>1, RowsFollow, ZenonT(60)
    <3> QED
      BY <3>1, <3>2 DEF more
  <2>6. rest(d + n) = Rows(row + n, left - n) /\ rest(d) = Rows(row, left)
    <3>1. start + (d + n) = row + n /\ count - (d + n) = left - n
      BY <2>4 DEF row, left
    <3> QED
      BY <3>1 DEF row, left
  <2> HIDE DEF rest, take
  <2>7. n \in 1 .. left /\ piece(row, n) = Rows(row, n) /\ piece(row, n) \o rest(d + n) = rest(d)
    BY <2>3, <2>5, <2>6
  <2> QED
    BY <2>7 DEF row, left, n
<1>3. rest(count) = << >>
  <2>1. count - count = 0
    OBVIOUS
  <2> QED
    BY <2>1 DEF Rows
<1> HIDE DEF piece, take, rest
<1>4. Reads([d \in 0 .. count |-> rest(d)])
  <2> DEFINE f == [d \in 0 .. count |-> rest(d)]
  <2>1. ASSUME NEW d \in 0 .. count
        PROVE  rest(d) = IF d = count THEN << >> ELSE piece(start + d, take(d)) \o f[d + take(d)]
    <3>1. CASE d = count
      BY <1>3, <3>1
    <3>2. CASE d # count
      <4>1. d + take(d) \in 0 .. count
        BY <1>2, <3>2
      <4> QED
        BY <1>2, <3>2, <4>1
    <3> QED
      BY <3>1, <3>2
  <2> QED
    BY <2>1
<1>5. Reads(read)
  <2> HIDE DEF Reads
  <2> QED
    BY <1>4
<1> HIDE DEF read
<1>6. \A d \in 0 .. count :
        read[d] = IF d = count THEN << >> ELSE piece(start + d, take(d)) \o read[d + take(d)]
  BY <1>5
<1> HIDE DEF Reads
<1> DEFINE T == {k \in Nat : \A d \in 0 .. count : count - d <= k => read[d] = rest(d)}
<1>7. 0 \in T
  <2>1. ASSUME NEW d \in 0 .. count, count - d <= 0 PROVE read[d] = rest(d)
    <3>1. d = count
      BY <2>1
    <3> QED
      BY <1>3, <1>6, <3>1
  <2> QED
    BY <2>1
<1>8. ASSUME NEW k \in Nat, k \in T PROVE k + 1 \in T
  <2> SUFFICES ASSUME NEW d \in 0 .. count, count - d <= k + 1 PROVE read[d] = rest(d)
    OBVIOUS
  <2>1. CASE d = count
    BY <1>3, <1>6, <2>1
  <2>2. CASE d # count
    <3> DEFINE e == d + take(d)
    <3>1. take(d) \in 1 .. count - d
      BY <1>2, <2>2
    <3>2. e \in 0 .. count /\ count - e <= k
      BY <3>1
    <3>3. read[e] = rest(e)
      BY <1>8, <3>2
    <3> QED
      BY <1>2, <1>6, <2>2, <3>3
  <2> QED
    BY <2>1, <2>2
<1>9. read[0] = rest(0)
  <2> HIDE DEF T
  <2>1. count \in T
    BY <1>7, <1>8, NatInSet
  <2> QED
    BY <2>1 DEF T
<1>10. start + 0 = start /\ count - 0 = count
  OBVIOUS
<1> QED
  BY <1>1, <1>9, <1>10 DEF rest

\* The ranks' slices cut the table up, so that their sum has each row once.
LEMMA ResidentIsRight ==
    ASSUME TableAssumption, NEW t, NEW cut, IsTable(t, cut), DiskOpens(t),
           NEW n \in Nat, NEW ids \in [1 .. n -> 0 .. t.vocab - 1]
    PROVE  ResidentGather(t, ids) = RowsOf(ids)
<1> DEFINE R == NumRanks
           each == RankRows(t)
           vocab == t.vocab
           start(k) == k * each
           count(k) == Max({0, Min({start(k) + each, vocab}) - start(k)})
           slab == [k \in 0 .. R - 1 |-> ReadRowsContiguous(t, start(k), count(k))]
           Masked(k, i) == LET local == i - start(k)
                           IN  IF local >= 0 /\ local < Len(slab[k]) THEN slab[k][local + 1] ELSE 0
           column(i) == [k \in 0 .. R - 1 |-> Masked(k, i)]
<1>1. R \in Nat \ {0} /\ vocab \in Nat \ {0} /\ DOMAIN ids = 1 .. n
  BY DEF TableAssumption, IsTable
<1>2. ResidentGather(t, ids) = [j \in 1 .. n |-> SumFunction(column(ids[j]))]
  BY <1>1 DEF ResidentGather
<1> HIDE DEF R, vocab
<1>3. each \in Nat \ {0} /\ vocab <= R * each
  BY <1>1, ShardRows DEF RankRows, vocab, R
<1> HIDE DEF each
<1>4. ASSUME NEW k \in 0 .. R - 1
      PROVE  /\ start(k) \in Nat /\ count(k) \in Nat
             /\ count(k) = IF vocab <= start(k) THEN 0
                           ELSE IF vocab - start(k) < each THEN vocab - start(k) ELSE each
  <2> DEFINE a == start(k)
             end == Min({a + each, vocab})
             left == end - a
             z == 0
  <2>1. a \in Nat
    <3>1. k \in Nat
      BY <1>1
    <3> QED
      BY <1>3, <3>1
  <2> HIDE DEF a
  <2>2. end = IF a + each <= vocab THEN a + each ELSE vocab
    BY <1>1, <1>3, <2>1, MinOfTwo
  <2> HIDE DEF end
  <2>3. left \in Int /\ z \in Int
    BY <1>1, <1>3, <2>1, <2>2
  <2>4. count(k) = Max({z, left})
    BY DEF a, end
  <2> HIDE DEF left, z
  <2>5. count(k) = IF z >= left THEN z ELSE left
    BY <2>3, <2>4, MaxOfTwo
  <2> HIDE DEF count
  <2>6. count(k) \in Nat
        /\ count(k) = IF vocab <= a THEN 0 ELSE IF vocab - a < each THEN vocab - a ELSE each
    BY <1>1, <1>3, <2>1, <2>2, <2>5 DEF left, z
  <2> QED
    BY <2>1, <2>6 DEF a
<1> HIDE DEF count
<1>5. ASSUME NEW k \in 0 .. R - 1
      PROVE  Len(slab[k]) = count(k) /\ \A c \in 1 .. count(k) : slab[k][c] = start(k) + c
  <2> DEFINE a == start(k)
             m == count(k)
  <2>1. a \in Nat /\ m \in Nat /\ (m # 0 => a + m <= vocab)
    <3>1. a \in Nat /\ m \in Nat
          /\ m = IF vocab <= a THEN 0 ELSE IF vocab - a < each THEN vocab - a ELSE each
      BY <1>4
    <3> HIDE DEF a, m, slab, column
    <3> QED
      BY <1>1, <1>3, <3>1
  <2> HIDE DEF a, m
  <2>2. ReadRowsContiguous(t, a, m) = Rows(a, m)
    BY <2>1, SliceIsRight DEF vocab
  <2>3. Rows(a, m) \in [1 .. m -> Int] /\ \A c \in 1 .. m : Rows(a, m)[c] = a + c
    BY <2>1 DEF Rows
  <2>4. Len(Rows(a, m)) = m
    BY <2>1, <2>3, ListIsSeq
  <2>5. slab[k] = ReadRowsContiguous(t, a, m)
    BY DEF a, m
  <2> HIDE DEF slab
  <2> QED
    BY <2>2, <2>3, <2>4, <2>5 DEF a, m
<1> HIDE DEF slab
<1>6. ASSUME NEW i \in 0 .. vocab - 1 PROVE SumFunction(column(i)) = i + 1
  <2> DEFINE q == i \div each
             f == column(i)
  <2>1. i \in Nat /\ i < R * each
    <3>1. R * each \in Int
      BY <1>1, <1>3
    <3> QED
      BY <1>1, <1>3, <3>1
  <2>2. /\ q \in 0 .. R - 1
        /\ start(q) <= i /\ i < start(q) + each
        /\ \A k \in Int : start(k) <= i /\ i < start(k) + each => k = q
    BY <1>1, <1>3, <2>1, InOneSlice
  <2> HIDE DEF q
  <2>3. ASSUME NEW k \in 0 .. R - 1
        PROVE  f[k] = IF k = q THEN i + 1 ELSE 0
    <3> DEFINE a == start(k)
               m == count(k)
               local == i - a
    <3>1. f[k] = IF local >= 0 /\ local < Len(slab[k]) THEN slab[k][local + 1] ELSE 0
      OBVIOUS
    <3>2. /\ a \in Nat /\ m \in Nat /\ Len(slab[k]) = m
          /\ \A c \in 1 .. m : slab[k][c] = a + c
          /\ m = IF vocab <= a THEN 0 ELSE IF vocab - a < each THEN vocab - a ELSE each
      BY <1>4, <1>5
    <3>3. k = q => a <= i /\ i < a + each
      BY <2>2
    <3>4. a <= i /\ i < a + each => k = q
      BY <2>2
    <3> HIDE DEF f, a, m
    <3>5. local >= 0 /\ local < m <=> k = q
      BY <1>1, <1>3, <2>1, <3>2, <3>3, <3>4
    <3>6. local >= 0 /\ local < m => local + 1 \in 1 .. m /\ a + (local + 1) = i + 1
      BY <2>1, <3>2
    <3> HIDE DEF local
    <3> QED
      BY <3>1, <3>2, <3>5, <3>6
  <2>4. DOMAIN f = 0 .. R - 1
    OBVIOUS
  <2> HIDE DEF f
  <2>5. f[q] = i + 1 /\ f[q] \in Nat /\ \A y \in 0 .. R - 1 : y # q => f[y] = 0
    BY <2>1, <2>2, <2>3
  <2>6. R \in Nat /\ q \in 0 .. R - 1
    BY <1>1, <2>2
  <2>7. SumFunctionOnSet(f, 0 .. R - 1) = f[q]
    BY <2>5, <2>6, SumOfOne
  <2> QED
    BY <2>4, <2>5, <2>7 DEF SumFunction, f
<1> HIDE DEF column
<1>7. \A j \in 1 .. n : SumFunction(column(ids[j])) = ids[j] + 1
  BY <1>6 DEF vocab
<1> QED
  BY <1>1, <1>2, <1>7 DEF RowsOf

-----------------------------------------------------------------------------
\* The placeholder finds a row that is not missing, if the shards are those configured.
LEMMA PlaceholderHolds ==
    ASSUME NEW t, NEW cut, IsTable(t, cut), PlaceholderOpens(t),
           t.lacks = {} \/ t.cutSize = PlaceholderSize(t),
           NEW i \in 0 .. t.vocab - 1, ~Missing(t, i)
    PROVE  PlaceholderRow(t, i) = i + 1
<1> DEFINE vocab == t.vocab
           parts == t.parts
           size == Ceil(vocab, parts)
           rows == t.rows
           s == i \div size
           l == i % size
<1>1. /\ vocab \in Nat \ {0} /\ cut \in Nat \ {0} /\ parts \in Nat \ {0}
      /\ t.cutSize = Ceil(vocab, cut)
      /\ rows = [x \in (0 .. cut - 1) \ t.lacks |-> ExpectedRows(vocab, cut, x)]
  BY DEF IsTable
<1>2. /\ \A x \in DOMAIN rows : rows[x] = ExpectedRows(vocab, parts, x)
      /\ s \in DOMAIN rows /\ PlaceholderSize(t) = size
      /\ PlaceholderRow(t, i) = Stored(t, s, l)
  BY DEF PlaceholderOpens, Missing, PlaceholderSize, PlaceholderRow
<1> HIDE DEF vocab, parts, rows
<1>3. t.cutSize = size
  <2>1. CASE t.lacks = {}
    <3>1. 0 \in DOMAIN rows /\ rows[0] = ExpectedRows(vocab, cut, 0)
      BY <1>1, <2>1
    <3>2. rows[0] = ExpectedRows(vocab, parts, 0)
      BY <1>2, <3>1
    <3>3. ExpectedRows(vocab, cut, 0) = Ceil(vocab, cut)
          /\ ExpectedRows(vocab, parts, 0) = Ceil(vocab, parts)
      BY <1>1, ShardRows
    <3> QED
      BY <1>1, <3>1, <3>2, <3>3
  <2> QED
    BY <1>2, <2>1
<1>4. i \in 0 .. vocab - 1
  BY DEF vocab
<1>5. l \in Nat /\ i = s * size + l /\ l < ExpectedRows(vocab, parts, s)
  BY <1>1, <1>4, ShardHasRow
<1> HIDE DEF s, l
<1>6. Stored(t, s, l) = s * size + l + 1
  BY <1>2, <1>3, <1>5 DEF Stored, rows
<1>7. s * size + l + 1 = i + 1
  BY <1>5
<1> QED
  BY <1>2, <1>6, <1>7

\* The distinct ids, and where each id went among them.
LEMMA UniqueHas ==
    ASSUME NEW V \in SUBSET Int, NEW n \in Nat, NEW ids \in [1 .. n -> V]
    PROVE  /\ \E m \in Nat : Unique(ids) \in [1 .. m -> V]
           /\ \A u \in DOMAIN Unique(ids) : \E j \in 1 .. n : ids[j] = Unique(ids)[u]
           /\ \A j \in 1 .. n : Inverse1(ids, j) \in DOMAIN Unique(ids)
                                /\ Unique(ids)[Inverse1(ids, j)] = ids[j]
<1> DEFINE S == Range(ids)
           c == Cardinality(S)
           uniq == Unique(ids)
<1>1. S \in SUBSET Int /\ S \subseteq V /\ IsFiniteSet(S) /\ DOMAIN ids = 1 .. n
  <2> DEFINE I == 1 .. n
  <2>1. ids \in [I -> V] /\ IsFiniteSet(I)
    BY FS_Interval
  <2> HIDE DEF I
  <2>2. ids \in Surjection(I, Range(ids))
    BY <2>1 DEF Surjection, Range
  <2>3. IsFiniteSet(Range(ids))
    BY <2>1, <2>2, FS_Surjection
  <2>4. S \subseteq V
    BY <2>1 DEF Range
  <2> QED
    BY <2>3, <2>4
<1> HIDE DEF S
<1>2. c \in Nat /\ uniq \in [1 .. c -> S] /\ Range(uniq) = S
  BY <1>1, AscendingNames DEF Unique, S
<1> HIDE DEF uniq, c
<1>3. \A u \in DOMAIN uniq : \E j \in 1 .. n : ids[j] = uniq[u]
  BY <1>1, <1>2 DEF Range, S
<1>4. \A j \in 1 .. n : \E u \in DOMAIN uniq : uniq[u] = ids[j]
  BY <1>1, <1>2 DEF Range, S
<1>5. \A j \in 1 .. n : Inverse1(ids, j) \in DOMAIN uniq /\ uniq[Inverse1(ids, j)] = ids[j]
  BY <1>4 DEF Inverse1, uniq
<1>6. uniq \in [1 .. c -> V]
  BY <1>1, <1>2
<1> QED
  BY <1>2, <1>3, <1>5, <1>6 DEF uniq

\* Each of the sorted ids is in a task.
LEMMA TasksCoverIds ==
    ASSUME TableAssumption, NEW t, NEW m \in Nat, NEW V, NEW uniq \in [1 .. m -> V],
           NEW u \in 1 .. m
    PROVE  \E k \in GatherTasks(t, uniq) : u \in k.a .. k.b - 1
<1> DEFINE shard(j) == uniq[j] \div PlaceholderSize(t)
           starts == {j \in 1 .. m : j = 1 \/ shard(j) # shard(j - 1)}
           EndOf(s) == Min({j \in starts : j > s} \cup {m + 1})
           C == ReadChunk
           before == {j \in starts : j <= u}
           s == Max(before)
           c == s + ((u - s) \div C) * C
           e == EndOf(s)
           task == [a |-> c, b |-> TaskEnd(c, e)]
           tasksFrom(x) == {[a |-> y, b |-> TaskEnd(y, EndOf(x))] :
                              y \in {y \in x .. EndOf(x) - 1 : (y - x) % C = 0}}
<1>1. Len(uniq) = m /\ DOMAIN uniq = 1 .. m /\ C \in Nat \ {0}
  <2>1. Len(uniq) = m /\ DOMAIN uniq = 1 .. m
    BY ListIsSeq
  <2> QED
    BY <2>1 DEF TableAssumption
<1>2. GatherTasks(t, uniq) = UNION {tasksFrom(x) : x \in starts}
  BY <1>1 DEF GatherTasks
<1>3. starts \subseteq 1 .. m /\ 1 \in starts
  OBVIOUS
<1> HIDE DEF starts, C
<1>4. s \in starts /\ s <= u /\ \A j \in starts : j <= u => j <= s
  <2>1. before \in SUBSET Nat /\ before # {} /\ \A x \in before : x <= u
    <3>1. 1 \in before
      BY <1>3
    <3>2. before \subseteq 1 .. m /\ \A x \in before : x <= u
      BY <1>3
    <3> HIDE DEF before
    <3> QED
      BY <3>1, <3>2
  <2>2. s \in before /\ \A x \in before : x <= s
    <3> HIDE DEF before
    <3>1. u \in Nat
      OBVIOUS
    <3> QED
      BY <2>1, <3>1, MaxOfBounded
  <2> HIDE DEF s
  <2> QED
    BY <2>2
<1> HIDE DEF s, before
<1>5. s \in 1 .. m /\ u - s \in Nat
  BY <1>3, <1>4
<1>6. e \in Nat /\ u < e
  <2> DEFINE after == {j \in starts : j > s} \cup {m + 1}
  <2>1. after \in SUBSET Nat /\ after # {} /\ \A x \in after : u < x
    <3>1. ASSUME NEW j \in starts, j > s PROVE u < j
      BY <1>3, <1>4, <1>5, <3>1
    <3>2. after \subseteq Nat
      <4> SUFFICES ASSUME NEW x \in after PROVE x \in Nat
        OBVIOUS
      <4>1. CASE x \in starts
        BY <1>3, <4>1
      <4>2. CASE x = m + 1
        BY <4>2
      <4> QED
        BY <4>1, <4>2
    <3>3. m + 1 \in after /\ u < m + 1
      OBVIOUS
    <3>4. \A x \in after : u < x
      BY <3>1
    <3> HIDE DEF after
    <3> QED
      BY <3>2, <3>3, <3>4
  <2>2. e = Min(after)
    OBVIOUS
  <2> HIDE DEF after, e
  <2>3. e \in after
    BY <2>1, <2>2, MinOfSome
  <2> QED
    BY <2>1, <2>3
<1> HIDE DEF EndOf, e
<1>7. c \in Nat /\ s <= c /\ c <= u /\ u < c + C /\ (c - s) % C = 0
  <2> DEFINE d == u - s
             a == (d \div C) * C
  <2>1. d \in Nat
    BY <1>5
  <2> HIDE DEF d
  <2>2. a \in Nat /\ a % C = 0 /\ a <= d /\ d < a + C
    BY <1>1, <2>1, MultipleBelow
  <2>3. c = s + a
    BY DEF d
  <2> HIDE DEF a, c
  <2>4. c - s = a
    BY <1>5, <2>2, <2>3
  <2> QED
    BY <1>1, <1>5, <2>1, <2>2, <2>3, <2>4 DEF d
<1> HIDE DEF c
<1>8. task \in tasksFrom(s)
  <2>1. c \in s .. e - 1
    BY <1>5, <1>6, <1>7
  <2> QED
    BY <1>7, <2>1 DEF e
<1>9. u \in task.a .. task.b - 1
  <2>1. TaskEnd(c, e) = IF c + C <= e THEN c + C ELSE e
    BY <1>1, <1>6, <1>7, MinOfTwo DEF TaskEnd, C
  <2>2. u \in c .. TaskEnd(c, e) - 1
    BY <1>1, <1>6, <1>7, <2>1
  <2> QED
    BY <2>2
<1>10. task \in GatherTasks(t, uniq)
  <2> HIDE DEF task, tasksFrom
  <2> QED
    BY <1>2, <1>4, <1>8
<1> QED
  BY <1>9, <1>10

\* A lookup raises if a row of it is missing and otherwise has the row of each id, whether
\* it is gathered inline or by tasks.
LEMMA GatherIsRight ==
    ASSUME TableAssumption, NEW t, NEW cut, IsTable(t, cut), PlaceholderOpens(t),
           t.lacks = {} \/ t.cutSize = PlaceholderSize(t),
           NEW n \in Nat, NEW ids \in [1 .. n -> 0 .. t.vocab - 1]
    PROVE  TableGather(t, ids) =
             IF \E j \in 1 .. n : Missing(t, ids[j]) THEN Raised ELSE Returned(RowsOf(ids))
<1> DEFINE V == 0 .. t.vocab - 1
           uniq == Unique(ids)
           tasks == GatherTasks(t, uniq)
           got == [u \in DOMAIN uniq |->
                     IF \E k \in tasks : u \in k.a .. k.b - 1 THEN PlaceholderRow(t, uniq[u]) ELSE -1]
           inline == [j \in DOMAIN ids |-> PlaceholderRow(t, ids[j])]
           byTasks == [j \in DOMAIN ids |-> got[Inverse1(ids, j)]]
<1>1. DOMAIN ids = 1 .. n
  OBVIOUS
<1>2. TableGather(t, ids) = IF \E j \in 1 .. n : Missing(t, ids[j]) THEN Raised
                            ELSE IF Len(ids) <= FastRows THEN Returned(inline)
                            ELSE Returned(byTasks)
  BY <1>1 DEF TableGather
<1>3. ASSUME ~\E j \in 1 .. n : Missing(t, ids[j])
      PROVE  inline = RowsOf(ids) /\ byTasks = RowsOf(ids)
  <2> HIDE DEF uniq
  <2>1. ASSUME NEW j \in 1 .. n PROVE PlaceholderRow(t, ids[j]) = ids[j] + 1
    <3> DEFINE i == ids[j]
    <3>1. i \in 0 .. t.vocab - 1 /\ ~Missing(t, i)
      BY <1>3
    <3> HIDE DEF i
    <3>2. PlaceholderRow(t, i) = i + 1
      BY <3>1, PlaceholderHolds
    <3> QED
      BY <3>2 DEF i
  <2>2. V \in SUBSET Int /\ ids \in [1 .. n -> V]
    OBVIOUS
  <2> HIDE DEF V
  <2>3. \E m \in Nat : uniq \in [1 .. m -> V]
    BY <2>2, UniqueHas DEF uniq
  <2>4. \A j \in 1 .. n : Inverse1(ids, j) \in DOMAIN uniq /\ uniq[Inverse1(ids, j)] = ids[j]
    BY <2>2, UniqueHas, ZenonT(60) DEF uniq
  <2>5. PICK m \in Nat : uniq \in [1 .. m -> V]
    BY <2>3
  <2>6. \A u \in 1 .. m : \E k \in tasks : u \in k.a .. k.b - 1
    BY <2>5, TasksCoverIds
  <2> HIDE DEF tasks
  <2>7. \A u \in DOMAIN uniq : got[u] = PlaceholderRow(t, uniq[u])
    BY <2>5, <2>6
  <2> HIDE DEF got
  <2>8. inline = RowsOf(ids)
    BY <1>1, <2>1 DEF RowsOf
  <2>9. byTasks = RowsOf(ids)
    BY <1>1, <2>1, <2>4, <2>7 DEF RowsOf
  <2> QED
    BY <2>8, <2>9
<1> HIDE DEF inline, byTasks
<1> QED
  BY <1>2, <1>3

LEMMA PlaceholderIsRight ==
    ASSUME TableAssumption, NEW t, NEW cut, IsTable(t, cut), PlaceholderOpens(t),
           t.lacks = {} \/ t.cutSize = PlaceholderSize(t),
           NEW n \in Nat, NEW ids \in [1 .. n -> 0 .. t.vocab - 1]
    PROVE  PlaceholderForward(t, ids) =
             IF \E j \in 1 .. n : Missing(t, ids[j]) THEN Raised ELSE Returned(RowsOf(ids))
<1> DEFINE V == 0 .. t.vocab - 1
           uniq == Unique(ids)
           got == TableGather(t, uniq)
<1>1. DOMAIN ids = 1 .. n /\ V \in SUBSET Int /\ ids \in [1 .. n -> V]
  OBVIOUS
<1> HIDE DEF V, uniq
<1>2. \E m \in Nat : uniq \in [1 .. m -> V]
  BY <1>1, UniqueHas DEF uniq
<1>3. /\ \A u \in DOMAIN uniq : \E j \in 1 .. n : ids[j] = uniq[u]
      /\ \A j \in 1 .. n : Inverse1(ids, j) \in DOMAIN uniq /\ uniq[Inverse1(ids, j)] = ids[j]
  <2>1. /\ \A u \in DOMAIN Unique(ids) : \E j \in 1 .. n : ids[j] = Unique(ids)[u]
        /\ \A j \in 1 .. n : Inverse1(ids, j) \in DOMAIN Unique(ids)
                              /\ Unique(ids)[Inverse1(ids, j)] = ids[j]
    <3> HIDE <1>1
    <3>1. ids \in [1 .. n -> V] /\ V \in SUBSET Int
      BY <1>1
    <3> QED
      BY <3>1, UniqueHas, ZenonT(60)
  <2> QED
    BY <2>1 DEF uniq
<1>4. PICK m \in Nat : uniq \in [1 .. m -> V]
  BY <1>2
<1>5. got = IF \E u \in 1 .. m : Missing(t, uniq[u]) THEN Raised ELSE Returned(RowsOf(uniq))
  BY <1>4, GatherIsRight DEF V
<1>6. DOMAIN uniq = 1 .. m
  BY <1>4
<1>7. (\E u \in 1 .. m : Missing(t, uniq[u])) <=> \E j \in 1 .. n : Missing(t, ids[j])
  BY <1>3, <1>6
<1>8. PlaceholderForward(t, ids) =
        IF got.raised THEN Raised
        ELSE Returned([j \in 1 .. n |-> got.rows[Inverse1(ids, j)]])
  BY <1>1 DEF PlaceholderForward, uniq
<1> HIDE DEF got
<1>9. CASE \E j \in 1 .. n : Missing(t, ids[j])
  <2>1. got.raised = TRUE
    BY <1>5, <1>7, <1>9 DEF Raised
  <2> QED
    BY <1>8, <1>9, <2>1
<1>10. CASE ~\E j \in 1 .. n : Missing(t, ids[j])
  <2>1. got.raised = FALSE /\ got.rows = RowsOf(uniq)
    BY <1>5, <1>7, <1>10 DEF Returned
  <2>2. \A j \in 1 .. n : RowsOf(uniq)[Inverse1(ids, j)] = ids[j] + 1
    BY <1>3 DEF RowsOf
  <2>3. RowsOf(ids) = [j \in 1 .. n |-> ids[j] + 1]
    BY <1>1 DEF RowsOf
  <2>4. [j \in 1 .. n |-> got.rows[Inverse1(ids, j)]] = RowsOf(ids)
    BY <2>1, <2>2, <2>3
  <2> QED
    BY <1>8, <1>10, <2>1, <2>4
<1> QED
  BY <1>9, <1>10

\* Nothing is asked, or rows of a table that was cut into some number of shards.
TableInv == lookup = NoLookup \/
    /\ \E cut \in Nat : IsTable(lookup, cut)
    /\ \E n \in Nat : lookup.ids \in [1 .. n -> 0 .. lookup.vocab - 1]

\* Whatever the size of the table and of its shards, chunks and slices, whatever is missing
\* and whichever rows are asked for, the three readers give the rows of the table or raise
\* (ple_mmap.py:97-186, ple_layer.py:586-623, vllm_ple_mmap.py:155-209): TableReadsTheRows.
THEOREM RowsStayReadable == TableSpec => []TableReadsTheRows
<1> USE TableAssumption
<1>1. TableInit => TableInv
  BY DEF TableInit, TableInv
<1>2. TableInv /\ [TableNext]_lookup => TableInv'
  <2> SUFFICES ASSUME TableInv, [TableNext]_lookup PROVE TableInv'
    OBVIOUS
  <2>1. ASSUME NEW vocab \in Vocabs, NEW cut \in 1 .. MaxParts, NEW parts \in 1 .. MaxParts,
               NEW missing \in {{}} \cup {{s} : s \in 0 .. cut - 1},
               NEW n \in 0 .. MaxIds, NEW ids \in [1 .. n -> 0 .. vocab - 1],
               Ask(vocab, cut, parts, missing, ids)
        PROVE  TableInv'
    <3>1. /\ vocab \in Nat \ {0} /\ cut \in Nat \ {0} /\ parts \in Nat \ {0} /\ n \in Nat
          /\ missing \subseteq 0 .. cut - 1
      BY DEF TableAssumption
    <3>2. /\ lookup'.vocab = vocab /\ lookup'.parts = parts /\ lookup'.lacks = missing
          /\ lookup'.cutSize = Ceil(vocab, cut) /\ lookup'.ids = ids
          /\ lookup'.rows = [s \in (0 .. cut - 1) \ missing |-> ExpectedRows(vocab, cut, s)]
      BY <2>1 DEF Ask
    <3>3. IsTable(lookup', cut)
      BY <3>1, <3>2 DEF IsTable
    <3>4. lookup'.ids \in [1 .. n -> 0 .. lookup'.vocab - 1]
      BY <3>2
    <3> QED
      BY <3>1, <3>3, <3>4 DEF TableInv
  <2>2. CASE UNCHANGED lookup
    BY <2>2 DEF TableInv
  <2> QED
    BY <2>1, <2>2 DEF TableNext
<1>3. TableInv => TableReadsTheRows
  <2> SUFFICES ASSUME TableInv, lookup # NoLookup PROVE TableReadsTheRows
    BY DEF TableReadsTheRows, DiskReadsTheRows, ResidentReadsTheRows, PlaceholderReadsTheRows
  <2> DEFINE t == lookup
             ids == lookup.ids
  <2>1. PICK cut \in Nat : IsTable(t, cut)
    BY DEF TableInv
  <2>2. PICK n \in Nat : ids \in [1 .. n -> 0 .. t.vocab - 1]
    BY DEF TableInv
  <2>3. DOMAIN ids = 1 .. n
    BY <2>2
  <2> HIDE DEF t, ids
  <2>4. DiskOpens(t) => GatherCpu(t, ids) = RowsOf(ids)
    BY <2>1, <2>2, DiskIsRight
  <2>5. DiskOpens(t) => ResidentGather(t, ids) = RowsOf(ids)
    BY <2>1, <2>2, ResidentIsRight
  <2>6. PlaceholderOpens(t) /\ (t.lacks = {} \/ t.cutSize = PlaceholderSize(t))
        => PlaceholderForward(t, ids) =
             IF \E j \in 1 .. n : Missing(t, ids[j]) THEN Raised ELSE Returned(RowsOf(ids))
    BY <2>1, <2>2, PlaceholderIsRight
  <2> QED
    BY <2>3, <2>4, <2>5, <2>6
    DEF t, ids, TableReadsTheRows, DiskReadsTheRows, ResidentReadsTheRows, PlaceholderReadsTheRows
<1> QED
  BY <1>1, <1>2, <1>3, PTL DEF TableSpec

=============================================================================

------------------------------ MODULE PleTable ------------------------------
(***************************************************************************)
(* Reading rows of the PLE table from the shards of a checkpoint.  The     *)
(* table of vocab rows was cut into shards of equal size, the last ones    *)
(* shorter or empty.  Three readers: the staged and the looked-up gather   *)
(* (ple_mmap.py, "disk"), the slice that each tensor-parallel rank keeps   *)
(* in memory ("resident", ple_layer.py), and the placeholder embedding of  *)
(* vllm_ple_mmap.py.  A lookup says how the checkpoint was cut, how the    *)
(* configuration says it was, which shards its files lack, and which rows  *)
(* are asked for.                                                          *)
(*                                                                         *)
(* Rows and shards count from 0, as in the code; row i holds i + 1, so     *)
(* that it is told from the zeros of a rank that does not own it.          *)
(***************************************************************************)
EXTENDS Integers, Sequences, FiniteSets, FiniteSetsExt, Functions, Sorting

CONSTANTS
    Vocabs,         \* sizes of tables
    MaxParts,       \* bound: shards of a checkpoint
    MaxIds,         \* bound: rows of a lookup
    ReadChunk,      \* rows one read task fetches, in both readers
    FastRows,       \* lookups up to this long are gathered inline (512)
    SliceChunk,     \* rows of one read of a resident slice (2^20)
    NumRanks        \* tensor-parallel ranks

ASSUME TableAssumption ==
    /\ Vocabs \subseteq Nat \ {0} /\ MaxParts \in Nat \ {0} /\ MaxIds \in Nat
    /\ ReadChunk \in Nat \ {0} /\ FastRows \in Nat
    /\ SliceChunk \in Nat \ {0} /\ NumRanks \in Nat \ {0}

VARIABLE lookup

NoLookup == [vocab |-> 0]
Raised == [raised |-> TRUE, rows |-> << >>]
Returned(rows) == [raised |-> FALSE, rows |-> rows]

Ceil(a, b) == (a + b - 1) \div b
ExpectedRows(vocab, parts, s) ==
    LET size == Ceil(vocab, parts) IN Max({0, Min({size, vocab - s * size})})

TableInit == lookup = NoLookup

\* A table is loaded and rows of it are read.
Ask(vocab, cut, parts, missing, ids) ==
    /\ lookup = NoLookup
    /\ lookup' = [vocab |-> vocab, parts |-> parts, lacks |-> missing, cutSize |-> Ceil(vocab, cut),
                  ids |-> ids, rows |-> [s \in (0 .. cut - 1) \ missing |-> ExpectedRows(vocab, cut, s)]]

TableNext ==
    \E vocab \in Vocabs, cut \in 1 .. MaxParts, parts \in 1 .. MaxParts :
        \E missing \in {{}} \cup {{s} : s \in 0 .. cut - 1} :
            \E n \in 0 .. MaxIds : \E ids \in [1 .. n -> 0 .. vocab - 1] :
                Ask(vocab, cut, parts, missing, ids)

TableSpec == TableInit /\ [][TableNext]_lookup

\* What the files hold at row l of shard s.
Stored(t, s, l) == IF l < t.rows[s] THEN s * t.cutSize + l + 1 ELSE -1

-----------------------------------------------------------------------------
\* load_weights lets a shard pass only with the rows its configuration expects.
ShardsAsExpected(t) == \A s \in DOMAIN t.rows :
    s < t.parts /\ t.rows[s] = ExpectedRows(t.vocab, t.parts, s)

\* PLEMmapTable accepts shards 0 .. n - 1 that are alike but for the last one, and the
\* layer accepts it when it has the rows of the vocabulary.
DiskOpens(t) ==
    LET n == Cardinality(DOMAIN t.rows)
    IN  /\ ShardsAsExpected(t)
        /\ n > 0 /\ DOMAIN t.rows = 0 .. n - 1
        /\ \A s \in 0 .. n - 2 : t.rows[s] = t.rows[0]
        /\ SumFunction(t.rows) = t.vocab

DiskRow(t, i) ==
    LET s == i \div t.rows[0]
    IN  IF s \in DOMAIN t.rows THEN Stored(t, s, i % t.rows[0]) ELSE -1

\* Tasks of ReadChunk ids each; the k-th id of the task at a fills row a + k.
GatherCpu(t, ids) ==
    LET n == Len(ids)
        Task(j) == ((j - 1) \div ReadChunk) * ReadChunk
        Chunk(a) == SubSeq(ids, a + 1, Min({a + ReadChunk, n}))
    IN  [j \in 1 .. n |-> DiskRow(t, Chunk(Task(j))[j - Task(j)])]

\* Rows that one read of a slice takes: within the chunk, the slice and the shard.
SliceRead(t, row, left) == Min({SliceChunk, left, t.rows[0] - (row % t.rows[0])})

ReadRowsContiguous(t, start, count) ==
    LET read[done \in 0 .. count] ==
            IF done = count THEN << >>
            ELSE LET row == start + done
                     n == SliceRead(t, row, count - done)
                 IN  [k \in 1 .. n |-> Stored(t, row \div t.rows[0], (row % t.rows[0]) + k - 1)]
                     \o read[done + n]
    IN  read[0]

RankRows(t) == Ceil(t.vocab, NumRanks)

\* A rank's slice, and the sum over the ranks of their masked rows.
ResidentGather(t, ids) ==
    LET start(k) == k * RankRows(t)
        count(k) == Max({0, Min({start(k) + RankRows(t), t.vocab}) - start(k)})
        slab == [k \in 0 .. NumRanks - 1 |-> ReadRowsContiguous(t, start(k), count(k))]
        Masked(k, i) == LET local == i - start(k)
                        IN  IF local >= 0 /\ local < Len(slab[k]) THEN slab[k][local + 1] ELSE 0
    IN  [j \in DOMAIN ids |-> SumFunction([k \in 0 .. NumRanks - 1 |-> Masked(k, ids[j])])]

-----------------------------------------------------------------------------
\* _setup_table of the placeholder: the shards that are there have their rows.
PlaceholderOpens(t) == DOMAIN t.rows # {} /\ \A s \in DOMAIN t.rows :
    t.rows[s] = ExpectedRows(t.vocab, t.parts, s)

PlaceholderSize(t) == Ceil(t.vocab, t.parts)
Missing(t, i) == i \div PlaceholderSize(t) \notin DOMAIN t.rows
PlaceholderRow(t, i) == Stored(t, i \div PlaceholderSize(t), i % PlaceholderSize(t))

\* Variant, for a mutation: a task ends a row before its chunk or its shard does.
TaskEnd_Short(c, end) == Min({c + ReadChunk, end}) - 1

TaskEnd(c, end) == Min({c + ReadChunk, end})

\* The sorted distinct ids are cut at shards and chunks into tasks [a, b).
GatherTasks(t, uniq) ==
    LET shard(j) == uniq[j] \div PlaceholderSize(t)
        starts == {j \in DOMAIN uniq : j = 1 \/ shard(j) # shard(j - 1)}
        EndOf(s) == Min({j \in starts : j > s} \cup {Len(uniq) + 1})
    IN  UNION {{[a |-> c, b |-> TaskEnd(c, EndOf(s))] :
                  c \in {c \in s .. EndOf(s) - 1 : (c - s) % ReadChunk = 0}} : s \in starts}

Unique(ids) == Ascending(Range(ids))
Inverse1(ids, j) == CHOOSE u \in DOMAIN Unique(ids) : Unique(ids)[u] = ids[j]

\* _gather: inline for few rows, by tasks otherwise; a missing shard raises in both.
TableGather(t, ids) ==
    LET uniq == Unique(ids)
        tasks == GatherTasks(t, uniq)
        out == [u \in DOMAIN uniq |->
                  IF \E k \in tasks : u \in k.a .. k.b - 1 THEN PlaceholderRow(t, uniq[u]) ELSE -1]
    IN  IF \E j \in DOMAIN ids : Missing(t, ids[j]) THEN Raised
        ELSE IF Len(ids) <= FastRows THEN Returned([j \in DOMAIN ids |-> PlaceholderRow(t, ids[j])])
        ELSE Returned([j \in DOMAIN ids |-> out[Inverse1(ids, j)]])

\* forward: the distinct ids are gathered, then spread over the tokens.
PlaceholderForward(t, ids) ==
    LET got == TableGather(t, Unique(ids))
    IN  IF got.raised THEN Raised
        ELSE Returned([j \in DOMAIN ids |-> got.rows[Inverse1(ids, j)]])

-----------------------------------------------------------------------------
RowsOf(ids) == [j \in DOMAIN ids |-> ids[j] + 1]

\* A table that the disk reader accepts gives every row asked for at its place,
\* wherever shards and chunks end and whatever the files lack (ple_mmap.py:97-186).
DiskReadsTheRows ==
    lookup # NoLookup /\ DiskOpens(lookup)
    => GatherCpu(lookup, lookup.ids) = RowsOf(lookup.ids)

\* So does the sum of the ranks' slices of it (ple_layer.py:586-623).
ResidentReadsTheRows ==
    lookup # NoLookup /\ DiskOpens(lookup)
    => ResidentGather(lookup, lookup.ids) = RowsOf(lookup.ids)

\* The placeholder, which does not notice a missing shard when it starts, gives no wrong
\* row: it raises if, and only if, a row of that shard is asked for, whichever path
\* serves the lookup (vllm_ple_mmap.py:155-209).  This leaves out a checkpoint that both
\* lacks a shard and was cut otherwise than configured: what is left of it may pass.
PlaceholderReadsTheRows ==
    /\ lookup # NoLookup /\ PlaceholderOpens(lookup)
    /\ (lookup.lacks = {} \/ lookup.cutSize = PlaceholderSize(lookup))
    => PlaceholderForward(lookup, lookup.ids)
       = IF \E j \in DOMAIN lookup.ids : Missing(lookup, lookup.ids[j]) THEN Raised
         ELSE Returned(RowsOf(lookup.ids))

\* Whichever serves a lookup, it gives the rows of the table.
TableReadsTheRows == DiskReadsTheRows /\ ResidentReadsTheRows /\ PlaceholderReadsTheRows
=============================================================================

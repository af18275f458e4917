----------------------------- MODULE HashLayout -----------------------------
(***************************************************************************)
(* The arithmetic of the n-gram hash (ple_layer.py, ops_ple.py): the odd   *)
(* multipliers of a layer's tokens, and the rows of the layer's table that *)
(* each head of its n-grams may use.  A head's rows are a prime in number, *)
(* another one for every head of every layer.                              *)
(*                                                                         *)
(* splitmix64 is any number: Mixed is the set TLC takes it from.  So is    *)
(* the exclusive or of a head's products, among those that fit the width.  *)
(***************************************************************************)
EXTENDS Integers, FiniteSets, FiniteSetsExt, Functions

CONSTANTS
    IntMax,         \* the largest signed integer of the width: 2^63 - 1
    UnigramVocabs,  \* sizes of the token vocabulary
    Mixed,          \* results of splitmix64
    Bases,          \* ngram_vocab_size_base
    NumHeads,       \* n-gram heads of a layer
    NumLayers,      \* PLE layers
    Divisor         \* make_ngram_vocab_size_divisible_by

ASSUME HashAssumption ==
    /\ IntMax \in Nat /\ UnigramVocabs \subseteq 1 .. IntMax /\ Mixed \subseteq Nat
    /\ Bases \subseteq Nat \ {0} /\ NumHeads \in Nat \ {0} /\ NumLayers \in Nat \ {0}
    /\ Divisor \in Nat \ {0}

VARIABLE layer      \* a PLE layer and its hash

\* Variant, for a mutation: odd multipliers that reach past the bound.
Multiplier_Double(mixed, vocab) == 2 * (mixed % Max({1, IntMax \div vocab})) + 1

\* _make_layer_multipliers.
Multiplier(mixed, vocab) ==
    LET maxMultiplier == IntMax \div vocab
        halfBound == IF maxMultiplier \div 2 > 1 THEN maxMultiplier \div 2 ELSE 1
    IN  2 * (mixed % halfBound) + 1

\* A product in two's complement.
Wrapped(n) == ((n + IntMax + 1) % (2 * (IntMax + 1))) - (IntMax + 1)

-----------------------------------------------------------------------------
PowMod(base, exponent, m) ==
    LET pow[e \in Nat] ==
            IF e = 0 THEN 1 % m
            ELSE LET half == pow[e \div 2]
                     square == (half * half) % m
                 IN  IF e % 2 = 0 THEN square ELSE (square * (base % m)) % m
    IN  pow[exponent]

SmallPrimes == {2, 3, 5, 7, 11, 13, 17, 19, 23, 29, 31, 37}
WitnessBases == {2, 325, 9375, 28178, 450775, 9780504, 1795265022}

\* Miller-Rabin: the base does not show that value is composite.
Passes(value, base, shifts) ==
    LET witness == PowMod(base, (value - 1) \div 2 ^ shifts, value)
    IN  \/ base % value = 0
        \/ witness = 1
        \/ \E k \in 0 .. shifts - 1 : PowMod(witness, 2 ^ k, value) = value - 1

IsPrime64(value) ==
    LET divisors == {p \in SmallPrimes : value % p = 0}
        shifts == CHOOSE k \in 0 .. value : (value - 1) % 2 ^ k = 0
                                         /\ ((value - 1) \div 2 ^ k) % 2 = 1
    IN  /\ value >= 2
        /\ IF divisors # {} THEN value \in divisors
           ELSE \A base \in WitnessBases : Passes(value, base, shifts)

\* Variant, for a mutation: odd candidates only, as if two were none.
NextPrime_OddOnly(n) ==
    LET search[c \in Nat] == IF IsPrime64(c) THEN c ELSE search[c + 2]
    IN  search[IF (n + 1) % 2 = 0 THEN n + 2 ELSE n + 1]

NextPrime(n) ==
    LET search[c \in Nat] == IF IsPrime64(c) THEN c ELSE search[c + 2]
    IN  IF n + 1 <= 2 THEN 2 ELSE search[IF (n + 1) % 2 = 0 THEN n + 2 ELSE n + 1]

NthPrimeAfter(start, count) ==
    LET after[k \in 0 .. count] == IF k = 0 THEN start ELSE NextPrime(after[k - 1])
    IN  after[count]

-----------------------------------------------------------------------------
Heads == 0 .. NumHeads - 1
Layers == 0 .. NumLayers - 1

HeadSize(base, id, head) == NthPrimeAfter(base - 1, id * NumHeads + head + 1)

HeadSizes(base, id) == [h \in Heads |-> HeadSize(base, id, h)]

\* Variant, for a mutation: as if all heads had the rows of the first.
HeadOffset_Even(sizes, head) == head * sizes[0]

HeadOffset(sizes, head) == SumFunctionOnSet(sizes, 0 .. head - 1)

TotalRows(sizes) == HeadOffset(sizes, NumHeads)
PaddedRows(total) == ((total + Divisor - 1) \div Divisor) * Divisor

NoLayer == [built |-> FALSE]
HashInit == layer = NoLayer

\* __init__ of an n-gram embedding.
BuildLayer(vocab, mixed, base, id) ==
    LET sizes == HeadSizes(base, id)
    IN  /\ layer = NoLayer
        /\ layer' = [built |-> TRUE, vocab |-> vocab, multiplier |-> Multiplier(mixed, vocab),
                     base |-> base, id |-> id, sizes |-> sizes,
                     offsets |-> [h \in Heads |-> HeadOffset(sizes, h)],
                     rows |-> PaddedRows(TotalRows(sizes))]

HashNext ==
    \E vocab \in UnigramVocabs, mixed \in Mixed, base \in Bases, id \in Layers :
        BuildLayer(vocab, mixed, base, id)

HashSpec == HashInit /\ [][HashNext]_layer

\* The remainder of the machine takes the sign of the dividend.
Remainder(a, b) == IF a >= 0 THEN a % b ELSE -((-a) % b)

\* The row of the table for a hash, in the kernel; torch.remainder is the same.
RowId(hash, size, offset) ==
    LET r == Remainder(hash, size) IN (IF r < 0 THEN r + size ELSE r) + offset

-----------------------------------------------------------------------------
\* No product of a token with a multiplier leaves the width, so that the kernel and
\* the host code hash alike and no hash is negative (ple_layer.py:271-276; the kernel
\* allows for products that do, ops_ple.py:91).
ProductsFit ==
    layer.built =>
        \A token \in 0 .. layer.vocab - 1 :
            Wrapped(token * layer.multiplier) = token * layer.multiplier

IsPrime(n) == n \in Nat /\ n >= 2 /\ \A d \in 2 .. n - 1 : n % d # 0

Primes(a, b) == {n \in a .. b : IsPrime(n)}

\* The test is right up to a limit.  For 2^64 this is a fact of number theory.
TestIsExact(limit) == \A n \in 0 .. limit : IsPrime64(n) <=> IsPrime(n)

\* Up to the limit every base has primes for the heads of all layers.
EnoughPrimes(limit) == \A base \in Bases : Cardinality(Primes(base, limit)) >= NumLayers * NumHeads

\* The heads of the layers, taken one after the other, have the consecutive primes
\* from the base on: none is composite, skipped or given to two (ple_layer.py:217-258).
SizesArePrimes ==
    layer.built =>
        \A h \in Heads :
            LET size == layer.sizes[h]
                smaller == {n \in layer.base .. size - 1 : IsPrime(n)}
            IN  IsPrime(size) /\ Cardinality(smaller) = layer.id * NumHeads + h

\* A hash of a head, negative ones included, falls among the rows that the head alone
\* has in the layer's table (ple_layer.py:288-297, ops_ple.py:88-94).
IdsInOwnRows ==
    layer.built =>
        \A hash \in -(IntMax + 1) .. IntMax, h \in Heads :
            LET id == RowId(hash, layer.sizes[h], layer.offsets[h])
            IN  /\ id \in 0 .. layer.rows - 1
                /\ (id - layer.offsets[h] - hash) % layer.sizes[h] = 0
                /\ \A g \in Heads \ {h} :
                     id \notin layer.offsets[g] .. layer.offsets[g] + layer.sizes[g] - 1
=============================================================================

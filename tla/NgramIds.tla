------------------------------ MODULE NgramIds ------------------------------
(***************************************************************************)
(* The n-gram ids of a batch.  The id of an n-gram is a hash of a token    *)
(* and of the tokens before it in its request, none of them from before    *)
(* the last end-of-sequence token.  A batch is the concatenation of one    *)
(* chunk per request; what precedes a chunk comes from a context that the  *)
(* model state reads from the request's tokens.  compute_ngram_ids has two *)
(* implementations, a kernel and host code (ops_ple.py, ple_layer.py).     *)
(*                                                                         *)
(* A hash is the tuple of the tokens it mixes; its arithmetic is the       *)
(* subject of HashLayout.  Row t of a batch is t = 0 .. n - 1, as in the   *)
(* code; sequences count from 1.                                           *)
(***************************************************************************)
EXTENDS Integers, Sequences, FiniteSets, FiniteSetsExt, Functions

CONSTANTS
    NumReqs,        \* requests of a batch, some of them with no token in it
    NgramSize,      \* tokens of the longest n-gram
    Eos, Tokens,    \* the end-of-sequence token; all tokens
    MaxLen,         \* bound: tokens of a request
    MaxChunk        \* bound: tokens a request has in one batch

ASSUME NgramAssumption ==
    /\ NumReqs \in Nat \ {0} /\ NgramSize \in Nat \ {0, 1}
    /\ Eos \in Tokens /\ MaxLen \in Nat /\ MaxChunk \in Nat

VARIABLES
    tokens,         \* all_token_ids: per request, rejected drafts at its end included
    computed,       \* num_computed_tokens: per request
    prepared        \* the last batch and the requests' tokens when it was prepared

ngramVars == <<tokens, computed, prepared>>

Reqs == 1 .. NumReqs
ContextLen == NgramSize - 1
Chunks == UNION {[1 .. k -> Tokens] : k \in 0 .. MaxChunk}

\* Row at which each request's chunk starts, and the end of the last one.
StartLoc(chunks) == [r \in 1 .. NumReqs + 1 |->
    SumFunctionOnSet([q \in Reqs |-> Len(chunks[q])], 1 .. r - 1)]

\* The chunks one after the other.
Joined(chunks) ==
    LET joined[r \in 0 .. NumReqs] == IF r = 0 THEN << >> ELSE joined[r - 1] \o chunks[r]
    IN  joined[NumReqs]

\* The tokens before position p, the oldest first; before the request, Eos.
Context(seq, p) == [c \in 1 .. ContextLen |->
    IF p - ContextLen + c >= 1 THEN seq[p - ContextLen + c] ELSE Eos]

NoBatch == [input |-> << >>, qsl |-> [r \in 1 .. NumReqs + 1 |-> 0],
            ctx |-> [r \in Reqs |-> Context(<< >>, 0)], at |-> [r \in Reqs |-> 0]]

NgramInit ==
    /\ tokens = [r \in Reqs |-> << >>]
    /\ computed = [r \in Reqs |-> 0]
    /\ prepared = NoBatch

\* prepare_inputs: a chunk per request, at its computed tokens; drafts that were
\* rejected there are overwritten.
Prepare(chunks) ==
    /\ \A r \in Reqs : computed[r] + Len(chunks[r]) <= MaxLen
    /\ \E r \in Reqs : chunks[r] # << >>
    /\ tokens' = [r \in Reqs |-> IF chunks[r] = << >> THEN tokens[r]
                                 ELSE SubSeq(tokens[r], 1, computed[r]) \o chunks[r]]
    /\ computed' = [r \in Reqs |-> computed[r] + Len(chunks[r])]
    /\ prepared' = [input |-> Joined(chunks), qsl |-> StartLoc(chunks),
                 ctx |-> [r \in Reqs |-> Context(tokens[r], computed[r])], at |-> computed]

\* The last rows of a request's chunk were drafts, and are rejected.
Reject(r, k) ==
    /\ k < computed[r] - prepared.at[r]
    /\ computed' = [computed EXCEPT ![r] = @ - k]
    /\ UNCHANGED <<tokens, prepared>>

NgramNext ==
    \/ \E chunks \in [Reqs -> Chunks] : Prepare(chunks)
    \/ \E r \in Reqs, k \in 1 .. MaxChunk : Reject(r, k)

NgramSpec == NgramInit /\ [][NgramNext]_ngramVars

-----------------------------------------------------------------------------
\* The kernel: a binary search for the request of row t, then the predecessors from
\* the newest to the oldest.
BitLength(n) == CHOOSE k \in 0 .. n : n < 2 ^ k /\ \A j \in 0 .. k - 1 : n >= 2 ^ j

\* Variant, for a mutation: one step too few for the last request.
SearchSteps_Short(n) == BitLength(n) - 1

SearchSteps(n) == BitLength(n)

FindRequest(qsl, t) ==
    LET Narrow(b) ==
            LET mid == (b.lo + b.hi) \div 2
                loaded == IF mid <= NumReqs THEN qsl[mid + 1] ELSE 0
            IN  IF loaded <= t THEN [b EXCEPT !.lo = mid + 1] ELSE [b EXCEPT !.hi = mid]
        search[i \in 0 .. SearchSteps(NumReqs)] ==
            IF i = 0 THEN [lo |-> 1, hi |-> NumReqs + 1] ELSE Narrow(search[i - 1])
    IN  Min({search[SearchSteps(NumReqs)].lo - 1, NumReqs - 1}) + 1

\* Older positions stay behind the first end of sequence that the walk has met.
Crossed(raw, s) == \E q \in 1 .. s - 1 : raw[q] = Eos

KernelTerms(b, t) ==
    LET r == FindRequest(b.qsl, t)
        pos == t - b.qsl[r]
        raw == [s \in 1 .. ContextLen |->
                  IF pos >= s THEN b.input[t - s + 1] ELSE b.ctx[r][ContextLen - s + pos + 1]]
    IN  <<b.input[t + 1]>> \o [s \in 1 .. ContextLen |-> IF Crossed(raw, s) THEN Eos ELSE raw[s]]

\* The head of an n-gram of order o mixes the token and o - 1 predecessors.
KernelIds(b) == [t \in 1 .. Len(b.input) |->
    [o \in 2 .. NgramSize |-> SubSeq(KernelTerms(b, t - 1), 1, o)]]

-----------------------------------------------------------------------------
\* The host code: a row per request, its context and then its tokens, padded with Eos
\* to the batch's length; predecessors by shifting the rows.
PackedRow(b, r) ==
    b.ctx[r] \o [c \in 1 .. Len(b.input) |->
        IF c <= b.qsl[r + 1] - b.qsl[r] THEN b.input[b.qsl[r] + c] ELSE Eos]

\* How many tokens lie between position p and the end of sequence before it.
PositionInSegment(row, p) == p - Max({q \in 1 .. p - 1 : row[q] = Eos} \cup {0}) - 1

ShiftApply(row, p, s) ==
    IF p - s >= 1 /\ PositionInSegment(row, p) >= s THEN row[p - s] ELSE Eos

HostIds(b) == [t \in 1 .. Len(b.input) |->
    LET r == Min({Max({q \in 1 .. NumReqs + 1 : b.qsl[q] <= t - 1}), NumReqs})
        row == PackedRow(b, r)
        p == t - b.qsl[r] + ContextLen
    IN  [o \in 2 .. NgramSize |->
           [s \in 1 .. o |-> IF s = 1 THEN row[p] ELSE ShiftApply(row, p, s - 1)]]]

-----------------------------------------------------------------------------
\* What an id stands for, from the request alone: the token at position p and those
\* before it back to the last end of sequence, or to the beginning.
Reference(seq, p) == [o \in 2 .. NgramSize |-> [s \in 1 .. o |->
    IF s = 1 THEN seq[p]
    ELSE IF p - s + 1 < 1 \/ \E q \in p - s + 1 .. p - 1 : seq[q] = Eos THEN Eos
    ELSE seq[p - s + 1]]]

\* However a request was cut into chunks, batched with others and rolled back, ids are
\* those of the request's own tokens: each row's is Reference at its position.
AreReferences(ids) ==
    \A r \in Reqs : \A j \in 1 .. prepared.qsl[r + 1] - prepared.qsl[r] :
        ids[prepared.qsl[r] + j] = Reference(tokens[r], prepared.at[r] + j)

\* The kernel's ids are right, no row is taken for another request's, and so are those of
\* the host code it falls back to (ops_ple.py:53-98, ple_layer.py:430-478).
IdsAreRight == AreReferences(KernelIds(prepared)) /\ AreReferences(HostIds(prepared))
=============================================================================

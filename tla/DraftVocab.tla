----------------------------- MODULE DraftVocab -----------------------------
(***************************************************************************)
(* The reduced vocabulary of the draft head (mtp_draft_vocab.py).  The     *)
(* setting is a count or a file of token ids.  Each tensor-parallel rank   *)
(* holds a slice of the head's rows; it computes the logits of the chosen  *)
(* ids that are its own, the ranks add their results, and the sum is       *)
(* spread over the full vocabulary, the rest of which is minus infinity.   *)
(*                                                                         *)
(* The logit of token v is v + 1, so that it is told from zero.            *)
(***************************************************************************)
EXTENDS Integers, Sequences, FiniteSets, FiniteSetsExt, Functions, Sorting

CONSTANTS
    VocabSizes,     \* sizes of the vocabulary
    DraftRanks,     \* numbers of tensor-parallel ranks
    PadTo,          \* the head's rows are padded to a multiple of it times the ranks
    MaxLines        \* bound: lines of a file of ids

ASSUME DraftVocabAssumption ==
    /\ VocabSizes \subseteq Nat \ {0} /\ DraftRanks \subseteq Nat \ {0}
    /\ PadTo \in Nat \ {0} /\ MaxLines \in Nat

VARIABLE drafting   \* a draft head: vocabulary, ranks, setting

NotDrafting == [vocab |-> 0]
NegInf == -1
DraftRaised == [ok |-> FALSE, ids |-> << >>]

\* The settings: none, a count, the lines of a file in any order and repeated.
Counts(vocab) == {[kind |-> "count", count |-> n, lines |-> << >>] : n \in 0 .. vocab + 1}
Files(vocab) == {[kind |-> "file", count |-> 0, lines |-> s] :
                   s \in UNION {[1 .. n -> -1 .. vocab] : n \in 0 .. MaxLines}}

VocabInit == drafting = NotDrafting

\* __init__ of Qwen4ExpMTP.
Configure(vocab, ranks, setting) ==
    /\ drafting = NotDrafting
    /\ drafting' = [vocab |-> vocab, ranks |-> ranks, setting |-> setting]

VocabNext ==
    \E vocab \in VocabSizes, ranks \in DraftRanks :
        \E setting \in Counts(vocab) \cup Files(vocab) : Configure(vocab, ranks, setting)

VocabSpec == VocabInit /\ [][VocabNext]_drafting

-----------------------------------------------------------------------------
ValidIds(ids, vocab) == ids # << >> /\ ids[1] >= 0 /\ ids[Len(ids)] < vocab

\* _draft_vocab_ids; no ids at all stand for the full vocabulary.
DraftIds(setting, vocab) ==
    LET sorted == Ascending(Range(setting.lines))
    IN  IF setting.kind = "count" THEN
            IF setting.count = 0 THEN [ok |-> TRUE, ids |-> << >>]
            ELSE IF setting.count > vocab THEN DraftRaised
            ELSE [ok |-> TRUE, ids |-> [i \in 1 .. setting.count |-> i - 1]]
        ELSE IF ValidIds(sorted, vocab) THEN [ok |-> TRUE, ids |-> sorted] ELSE DraftRaised

\* org_vocab_start_index and org_vocab_end_index of a rank: a share of the padded rows
\* without the padding.
ShardStart(vocab, ranks, k) ==
    LET unit == PadTo * ranks
        share == (((vocab + unit - 1) \div unit) * unit) \div ranks
    IN  Min({k * share, vocab})
ShardEnd(vocab, ranks, k) == ShardStart(vocab, ranks, k + 1)

\* Variant, for a mutation: the first id of the next rank counts as own.
IsOwn_Closed(id, start, end) == start <= id /\ id <= end

IsOwn(id, start, end) == start <= id /\ id < end

Logit(token) == token + 1

\* A rank's part of the logits of the chosen ids.
SmallLogits(ids, vocab, ranks, k) ==
    LET start == ShardStart(vocab, ranks, k)
        end == ShardEnd(vocab, ranks, k)
        positions == Ascending({j \in DOMAIN ids : IsOwn(ids[j], start, end)})
        weight == [j \in DOMAIN positions |-> start + (ids[positions[j]] - start)]
    IN  [j \in DOMAIN ids |->
            IF \E p \in DOMAIN positions : positions[p] = j
            THEN Logit(weight[CHOOSE p \in DOMAIN positions : positions[p] = j]) ELSE 0]

Scattered(ids, small, vocab) ==
    [v \in 0 .. vocab - 1 |->
        IF v \in Range(ids) THEN small[CHOOSE j \in DOMAIN ids : ids[j] = v] ELSE NegInf]

ReducedVocabLogits(ids, vocab, ranks) ==
    LET parts == [k \in 0 .. ranks - 1 |-> SmallLogits(ids, vocab, ranks, k)]
        small == [j \in DOMAIN ids |-> SumFunction([k \in 0 .. ranks - 1 |-> parts[k][j]])]
    IN  Scattered(ids, small, vocab)

ComputeLogits(ids, vocab, ranks) ==
    IF ids = << >> THEN [v \in 0 .. vocab - 1 |-> Logit(v)]
    ELSE ReducedVocabLogits(ids, vocab, ranks)

-----------------------------------------------------------------------------
Chosen(d) ==
    IF d.setting.kind = "file" THEN Range(d.setting.lines)
    ELSE IF d.setting.count = 0 THEN 0 .. d.vocab - 1 ELSE 0 .. d.setting.count - 1

\* A setting with ids outside the vocabulary, or without any, is refused; otherwise the
\* draft scores each chosen token as the full head does, whatever the shards and even
\* if a rank owns none of them, and no other (mtp_draft_vocab.py:370-388, 473-528).
DraftScoresChosen ==
    LET d == drafting
        got == DraftIds(d.setting, d.vocab)
    IN  d # NotDrafting =>
            /\ got.ok <=> Chosen(d) # {} /\ Chosen(d) \subseteq 0 .. d.vocab - 1
            /\ got.ok => ComputeLogits(got.ids, d.vocab, d.ranks)
                         = [v \in 0 .. d.vocab - 1 |-> IF v \in Chosen(d) THEN Logit(v) ELSE NegInf]
=============================================================================

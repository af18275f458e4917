----------------------------- MODULE DraftSteps -----------------------------
(***************************************************************************)
(* The sparse attention of the MTP draft head over the steps of a round    *)
(* (mtp_draft_vocab.py, qsa.py).  Step 0 runs on all rows of the target's  *)
(* batch and selects, for each row, the tokens it will attend.  The later  *)
(* steps run on one row per request and reuse what was selected for the    *)
(* request's last accepted row, from the same buffer, compacted.           *)
(*                                                                         *)
(* A selection is named after the round, the request and the position it   *)
(* was made for.  The draft loop that calls the head is vLLM's.            *)
(***************************************************************************)
EXTENDS Integers, Sequences, FiniteSets, Sorting

CONSTANTS
    NumDraftReqs,   \* requests of the batch
    MaxRowsOf,      \* rows of a request in the target's batch: 1 + drafts verified
    LastStep,       \* draft steps after step 0
    MaxRounds,      \* bound: rounds
    NumMtpLayers    \* layers of the head

ASSUME DraftAssumption ==
    /\ NumDraftReqs \in Nat /\ MaxRowsOf \in Nat \ {0} /\ LastStep \in Nat
    /\ MaxRounds \in Nat /\ NumMtpLayers \in Nat \ {0}

VARIABLES
    round,          \* rounds begun
    confirmed,      \* accepted tokens of each request
    stepIdx,        \* step of the round; its rows have been run or not
    ran,
    rowsOf,         \* the rows of the step: request and position
    buffer,         \* topk_indices_buffer of each layer, by row
    skipTopk,       \* indexer.skip_topk of each layer
    attended        \* what each row of the last step attended; nothing when profiling

draftVars == <<round, confirmed, stepIdx, ran, rowsOf, buffer, skipTopk, attended>>

MtpLayers == 0 .. NumMtpLayers - 1
Requests == 1 .. NumDraftReqs
BufferRows == 1 .. MaxRowsOf * NumDraftReqs
Never == [round |-> 0, request |-> 0, position |-> 0]

DraftInit ==
    /\ round = 0 /\ stepIdx = LastStep /\ ran = TRUE
    /\ confirmed = [q \in Requests |-> 0]
    /\ rowsOf = << >> /\ attended = << >>
    /\ buffer = [m \in MtpLayers |-> [i \in BufferRows |-> Never]]
    /\ skipTopk = [m \in MtpLayers |-> FALSE]

\* Rows of a batch in which request q has n[q] rows: request after request.
TargetRows(n) ==
    LET rowsUpTo[q \in 0 .. NumDraftReqs] ==
            IF q = 0 THEN << >>
            ELSE rowsUpTo[q - 1] \o
                   [j \in 1 .. n[q] |-> [request |-> q, position |-> confirmed[q] + j]]
    IN  rowsUpTo[NumDraftReqs]

\* The target has run on n[q] rows of each request: set_skip_topk(False), step 0.
BeginRound(n) ==
    /\ ran /\ stepIdx = LastStep /\ round < MaxRounds
    /\ \E q \in Requests : n[q] > 0
    /\ round' = round + 1 /\ stepIdx' = 0 /\ ran' = FALSE
    /\ rowsOf' = TargetRows(n)
    /\ skipTopk' = [m \in MtpLayers |-> FALSE]
    /\ UNCHANGED <<confirmed, buffer, attended>>

Selection(row) == [round |-> round, request |-> row.request, position |-> row.position]

\* forward_qsa: the n rows of the step attend what the first n of the buffer name.
Attended(selections, n) == [i \in 1 .. n |-> selections[i]]

\* _run_qsa in the layer of the step: select or reuse, then attend the first rows.
RunQsa ==
    LET m == stepIdx % NumMtpLayers
        selected == IF skipTopk[m] THEN buffer[m]
                    ELSE [i \in BufferRows |-> IF i <= Len(rowsOf) THEN Selection(rowsOf[i])
                                               ELSE buffer[m][i]]
    IN  /\ ~ran
        /\ buffer' = [buffer EXCEPT ![m] = selected]
        /\ attended' = Attended(selected, Len(rowsOf))
        /\ ran' = TRUE
        /\ UNCHANGED <<round, confirmed, stepIdx, rowsOf, skipTopk>>

\* A profiling or warm-up pass has no metadata: the output is zeros.
ProfileQsa ==
    /\ ran /\ stepIdx = LastStep
    /\ attended' = << >> /\ rowsOf' = << >>
    /\ UNCHANGED <<round, confirmed, stepIdx, ran, buffer, skipTopk>>

\* Variant, for a mutation: rows are moved, not the rows that were accepted.
Compacted_First(selections, indices) == selections

\* compact_topk_indices: the rows of indices come first; the others stay.
Compacted(selections, indices) ==
    [i \in BufferRows |-> IF i <= Len(indices) THEN selections[indices[i]] ELSE selections[i]]

SkipOnLater == [m \in MtpLayers |-> TRUE]

InRound == {rowsOf[i].request : i \in DOMAIN rowsOf}

\* The target's sampler accepted the first accept[q] rows of each request: step 1 runs
\* on a row per request.
AcceptTarget(accept) ==
    LET requests == Ascending(InRound)
        RowOf(q) == CHOOSE i \in DOMAIN rowsOf : rowsOf[i].request = q
                                              /\ rowsOf[i].position = confirmed[q] + accept[q]
        indices == [i \in DOMAIN requests |-> RowOf(requests[i])]
    IN  /\ ran /\ stepIdx = 0 /\ LastStep > 0
        /\ \A q \in InRound : \E i \in DOMAIN rowsOf :
             rowsOf[i] = [request |-> q, position |-> confirmed[q] + accept[q]]
        /\ confirmed' = [q \in Requests |-> confirmed[q] + IF q \in InRound THEN accept[q] ELSE 0]
        /\ buffer' = [m \in MtpLayers |-> Compacted(buffer[m], indices)]
        /\ skipTopk' = SkipOnLater
        /\ rowsOf' = [i \in DOMAIN requests |->
                        [request |-> requests[i], position |-> confirmed'[requests[i]] + 1]]
        /\ stepIdx' = 1 /\ ran' = FALSE
        /\ UNCHANGED <<round, attended>>

\* The next draft step, a position further.
NextDraft ==
    /\ ran /\ stepIdx \in 1 .. LastStep - 1
    /\ rowsOf' = [i \in DOMAIN rowsOf |-> [rowsOf[i] EXCEPT !.position = @ + 1]]
    /\ stepIdx' = stepIdx + 1 /\ ran' = FALSE
    /\ UNCHANGED <<round, confirmed, buffer, skipTopk, attended>>

DraftNext ==
    \/ \E n \in [Requests -> 0 .. MaxRowsOf] : BeginRound(n)
    \/ \E accept \in [Requests -> 1 .. MaxRowsOf] : AcceptTarget(accept)
    \/ RunQsa \/ NextDraft \/ ProfileQsa

DraftSpec == DraftInit /\ [][DraftNext]_draftVars

-----------------------------------------------------------------------------
\* Every row attends a selection of its own round and request: its own in step 0, that
\* of the last accepted row afterwards, never one left by an earlier round, another
\* request or a rejected draft (mtp_draft_vocab.py:265-278, qsa.py:618-645).
RowsAttendOwnSelection ==
    ran => \A i \in DOMAIN attended :
        attended[i] = [round |-> round, request |-> rowsOf[i].request,
                       position |-> rowsOf[i].position - stepIdx]
=============================================================================

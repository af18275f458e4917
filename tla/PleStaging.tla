----------------------------- MODULE PleStaging -----------------------------
(***************************************************************************)
(* How the rows of the disk-backed PLE table reach the model: the host     *)
(* waits for the n-gram ids, worker threads read the rows into a pinned    *)
(* host buffer that every step reuses, an asynchronous copy takes them to  *)
(* the device, and the forward pass (or the replay of its CUDA graph)      *)
(* reads them there.  The device executes one stream of operations in the  *)
(* order they were enqueued; the host runs ahead of it.                    *)
(* (model_state.py, ple_layer.py and ple_mmap.py of the full recipe;       *)
(* _MmapNgramEmbedding of vllm_ple_mmap.py.)                               *)
(*                                                                         *)
(* A row is the number of the step it was gathered for; one token stands   *)
(* for its ngram_heads rows.                                               *)
(***************************************************************************)
EXTENDS Integers, Sequences, FiniteSets, FiniteSetsExt

CONSTANTS
    MaxTokens,      \* tokens of the largest batch
    MaxSteps,       \* bound: steps prepared
    ChunkRows,      \* rows that one read task of the pool fetches
    MinCapacity     \* rows of the smallest pinned buffer (4096 in the code)

ASSUME StagingAssumption ==
    /\ MaxTokens \in Nat \ {0} /\ MaxSteps \in Nat
    /\ ChunkRows \in Nat \ {0} /\ MinCapacity \in Nat \ {0}

VARIABLES
    path,       \* which implementation serves the rows in this process
    host,       \* what the host thread of the worker is doing
    step,       \* steps prepared so far
    batch,      \* the step in preparation: its tokens and the padded batch
    reads,      \* first rows of the read tasks that are still running
    pinned,     \* the pinned host buffer
    staging,    \* the device buffer the forward pass reads
    stream,     \* operations the device has yet to execute
    out         \* the last forward pass: its step and the rows it read

stagingVars == <<path, host, step, batch, reads, pinned, staging, stream, out>>

Steps == INSTANCE StepInputs WITH out <- out

\* "staged": before the forward pass, by the model state; "lookup": by an operator
\* inside the pass; "placeholder": the same in vllm_ple_mmap.py.
Paths == {"staged", "lookup", "placeholder"}
HostStates == {"idle", "ids", "gather", "launch", "failed"}
Junk == -1

Copy(s, n) == [op |-> "copy", step |-> s, from |-> 1, to |-> n]
Zero(from, to) == [op |-> "zero", step |-> 0, from |-> from, to |-> to]
Forward(s, p) == [op |-> "forward", step |-> s, from |-> 1, to |-> p]

Enqueue(ops) == stream' = stream \o ops

\* The first rows of the tasks that a gather of n rows submits.
Tasks(n) == {r \in 1 .. n : (r - 1) % ChunkRows = 0}

\* The pinned buffer with room for n rows: the one that is there, or a new one.
Capacity(n) == Max({MinCapacity, IF path = "placeholder" THEN n + n \div 2 ELSE n})
Grown(n) == IF Len(pinned) >= n THEN pinned ELSE [i \in 1 .. Capacity(n) |-> Junk]

\* The placeholder's tasks fill an array of the call, which is then moved into it.
Moved(n) == [i \in DOMAIN Grown(n) |-> IF i <= n THEN step ELSE Grown(n)[i]]

StagingTypeOK ==
    /\ path \in Paths /\ host \in HostStates
    /\ step \in 0 .. MaxSteps
    /\ batch \in [tokens : 0 .. MaxTokens, padded : 0 .. MaxTokens]
    /\ reads \subseteq 1 .. MaxTokens
    /\ pinned \in Seq(Int) /\ staging \in [1 .. MaxTokens -> Int]
    /\ stream \in Seq([op : {"copy", "zero", "forward"}, step : 0 .. MaxSteps,
                       from : Nat, to : 0 .. MaxTokens])

StagingInit ==
    /\ path \in Paths
    /\ host = "idle" /\ step = 0
    /\ batch = [tokens |-> 0, padded |-> 0]
    /\ reads = {} /\ pinned = << >>
    /\ staging = [i \in 1 .. MaxTokens |-> 0]
    /\ stream = << >>
    /\ out = Steps!NoForward

-----------------------------------------------------------------------------
\* prepare_inputs of a batch with prompts, n tokens padded to p, up to the wait for
\* the ids.  In the other paths the operator sees the padded batch only.
PrepareInputs(n, p) ==
    /\ host = "idle" /\ step < MaxSteps /\ n <= p
    /\ path # "staged" => n = p
    /\ step' = step + 1
    /\ batch' = [tokens |-> n, padded |-> p]
    /\ host' = "ids"
    /\ UNCHANGED <<path, reads, pinned, staging, stream, out>>

\* A profiling batch, an empty one, or the capture of a graph: only zeros are staged.
PrepareDummy(p) ==
    /\ host = "idle" /\ step < MaxSteps /\ path = "staged"
    /\ step' = step + 1
    /\ batch' = [tokens |-> 0, padded |-> p]
    /\ Enqueue(<<Zero(1, p)>>)
    /\ host' = "launch"
    /\ UNCHANGED <<path, reads, pinned, staging, out>>

\* Variant, for a mutation: the ids are copied without waiting for the device.
WaitForIds_NoWait ==
    /\ host = "ids"
    /\ host' = "gather" /\ reads' = Tasks(batch.tokens)
    /\ pinned' = IF path = "placeholder" THEN pinned ELSE Grown(batch.tokens)
    /\ UNCHANGED <<path, step, batch, staging, stream, out>>

\* Variant, for a mutation: the event waited for is recorded after the forward pass.
WaitForIds_AfterForward ==
    /\ host = "ids" /\ stream = << >> /\ out.step = step
    /\ host' = "gather" /\ reads' = Tasks(batch.tokens)
    /\ pinned' = IF path = "placeholder" THEN pinned ELSE Grown(batch.tokens)
    /\ UNCHANGED <<path, step, batch, staging, stream, out>>

\* The ids reach the host when all that was enqueued before them is done; then the
\* read tasks are submitted, into the pinned buffer itself but for the placeholder.
WaitForIds ==
    /\ host = "ids" /\ stream = << >>
    /\ host' = "gather" /\ reads' = Tasks(batch.tokens)
    /\ pinned' = IF path = "placeholder" THEN pinned ELSE Grown(batch.tokens)
    /\ UNCHANGED <<path, step, batch, staging, stream, out>>

\* One task has read its rows.
ReadRows(first) ==
    /\ first \in reads
    /\ reads' = reads \ {first}
    /\ pinned' = IF path = "placeholder" THEN pinned
                 ELSE [i \in DOMAIN pinned |->
                         IF i \in first .. first + ChunkRows - 1 /\ i <= batch.tokens
                         THEN step ELSE pinned[i]]
    /\ UNCHANGED <<path, host, step, batch, staging, stream, out>>

\* A read is short or fails: the exception ends the step, not the other tasks.
ReadFails(first) ==
    /\ host = "gather" /\ first \in reads
    /\ reads' = reads \ {first}
    /\ host' = "failed"
    /\ UNCHANGED <<path, step, batch, pinned, staging, stream, out>>

\* Variant, for a mutation: the rows that pad the batch are not cleared.
CopyRows_NoTail ==
    LET n == batch.tokens
    IN  /\ host = "gather" /\ reads = {}
        /\ pinned' = IF path = "placeholder" THEN Moved(n) ELSE pinned
        /\ Enqueue(<<Copy(step, n)>>)
        /\ host' = "launch"
        /\ UNCHANGED <<path, step, batch, reads, staging, out>>

\* Variant, for a mutation: the copy starts without the last tasks.
CopyRows_Early ==
    LET n == batch.tokens
    IN  /\ host = "gather" /\ Cardinality(reads) <= 1
        /\ pinned' = IF path = "placeholder" THEN Moved(n) ELSE pinned
        /\ Enqueue(<<Copy(step, n), Zero(n + 1, batch.padded)>>)
        /\ host' = "launch"
        /\ UNCHANGED <<path, step, batch, reads, staging, out>>

\* All rows are there: the copy to the device and the clearing of the tail are
\* enqueued.
CopyRows ==
    LET n == batch.tokens
        tail == IF batch.padded > n THEN <<Zero(n + 1, batch.padded)>> ELSE << >>
    IN  /\ host = "gather" /\ reads = {}
        /\ pinned' = IF path = "placeholder" THEN Moved(n) ELSE pinned
        /\ Enqueue(<<Copy(step, n)>> \o tail)
        /\ host' = "launch"
        /\ UNCHANGED <<path, step, batch, reads, staging, out>>

\* The forward pass, or the replay of its graph, is enqueued; the host goes on.
Launch ==
    /\ host = "launch"
    /\ Enqueue(<<Forward(step, batch.padded)>>)
    /\ host' = "idle"
    /\ UNCHANGED <<path, step, batch, reads, pinned, staging, out>>

\* The device executes the oldest operation; a copy reads the pinned buffer only now.
Execute ==
    LET e == Head(stream)
    IN  /\ stream # << >>
        /\ stream' = Tail(stream)
        /\ staging' = [i \in 1 .. MaxTokens |->
                         CASE e.op = "copy" /\ i <= e.to -> pinned[i]
                           [] e.op = "zero" /\ i \in e.from .. e.to -> 0
                           [] OTHER -> staging[i]]
        /\ out' = IF e.op # "forward" THEN out
                  ELSE [step |-> e.step, rows |-> [i \in 1 .. e.to |-> staging[i]]]
        /\ UNCHANGED <<path, host, step, batch, reads, pinned>>

HostStep == WaitForIds \/ CopyRows \/ Launch

StagingNext ==
    \/ \E p \in 1 .. MaxTokens : PrepareDummy(p) \/ \E n \in 1 .. p : PrepareInputs(n, p)
    \/ HostStep
    \/ \E first \in 1 .. MaxTokens : ReadRows(first) \/ ReadFails(first)
    \/ Execute

StagingSpec == StagingInit /\ [][StagingNext]_stagingVars

\* The host thread runs, the pool serves its tasks, the device executes its stream.
StagingFairness ==
    /\ WF_stagingVars(HostStep) /\ WF_stagingVars(Execute)
    /\ \A first \in 1 .. MaxTokens : WF_stagingVars(ReadRows(first))

-----------------------------------------------------------------------------
CopyPending == \E j \in DOMAIN stream : stream[j].op = "copy"

\* The pinned buffer is never written, nor replaced, while an asynchronous copy of an
\* earlier step may still read it (ple_layer.py:521-522).
PinnedIsStable == host = "gather" \/ reads # {} => ~CopyPending

\* Every copy that has yet to run will take the rows of its own step
\* (ple_mmap.py:150-176, the reuse of self._staging).
CopiesOwnRows ==
    \A j \in DOMAIN stream : stream[j].op = "copy" =>
        \A i \in 1 .. stream[j].to : i \in DOMAIN pinned /\ pinned[i] = stream[j].step

\* Each pass reads the rows of its step and zeros in its padding, whatever an earlier
\* step, a profiling batch or a captured graph left in the buffer (ple_layer.py:516-524).
ForwardReadsItsStep == Steps!StepsSpec

\* A prepared step is executed unless a read failed: the host's wait for the ids, the
\* pool and the stream never wait on each other in a circle.
StepsComplete ==
    \A s \in 1 .. MaxSteps : step = s ~> (out.step >= s \/ host = "failed")
=============================================================================

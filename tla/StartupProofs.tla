---------------------------- MODULE StartupProofs ----------------------------
(***************************************************************************)
(* What is decided before the server answers, for every size of it: the    *)
(* preparation of the hybrid checkpoint (HybridCheckpoint), the CUDA       *)
(* graphs (CudagraphModes), the pages of the cache (HybridBlocks) and the  *)
(* quantization of the layers (QuantAlgo).                                 *)
(***************************************************************************)
EXTENDS HybridCheckpoint, CudagraphModes, HybridBlocks, QuantAlgo, NatLemmas, TLAPS

Jobs == {"none", "clear", "links", "detach", "load", "convert", "save", "dump", "check",
         "chmod"}

\* What the snapshot's files hold is what was published.
ContentsKept == blobs = Published

\* A shard after its conversion, and the scales of some shards.
Whole(f) == {<<t, Quantized(t, "bf16")>> : t \in Placed(f)}
ScalesOf(fs) == UNION {(Placed(f) \cap TARGETS) \ Undividable : f \in fs}

\* The copy is a function, as it was made of links or files.
CopyTypeOK == job \in Jobs /\ copy = [e \in Entries |-> copy[e]]

\* What a run has done to the copy by the time of its next step.
MadeOfLinks ==
    /\ job = "links" => \A e \in Entries : copy[e] \in {Absent, Link}
    /\ job = "detach" => \A e \in Entries : copy[e] = Link
    /\ job = "load" => copy[Index] = File({}) /\ \A f \in Shards : copy[f] = Link

\* Shards that are done hold what they should and their scales are listed; those to be
\* done are links still, but for the one in hand.
Converting ==
    job \in {"convert", "save"} =>
        LET moved == IF job = "save" THEN {inHand[1]} ELSE {}
        IN  /\ copy[Index] = File({}) /\ pending \subseteq Shards /\ moved \subseteq pending
            /\ \A f \in pending \ moved : copy[f] = Link
            /\ \A f \in Shards \ pending : copy[f] # Absent /\ ReadEntry(f) = Whole(f)
            /\ \A f \in moved : inHand[2] = Whole(f)
            /\ listed = ScalesOf((Shards \ pending) \cup moved)

Listing ==
    job \in {"dump", "check", "chmod"} =>
        /\ \A f \in Shards : ReadEntry(f) = Whole(f)
        /\ listed = TARGETS \ Undividable
        /\ copy[Index] = File(IF job = "dump" THEN {} ELSE listed)

CheckpointInv ==
    /\ CopyTypeOK /\ ContentsKept /\ MadeOfLinks /\ Converting /\ Listing
    /\ prepared => job = "none"
    /\ PreparedIsWhole

-----------------------------------------------------------------------------
\* Absent entries, links and files are told apart.
LEMMA Kinds ==
    /\ Absent # Link
    /\ \A d : /\ File(d) # Link /\ File(d) # Absent /\ File(d).data = d
              /\ File(d).kind = "file"
<1>1. Absent.kind = "absent" /\ Link.kind = "link" /\ \A d : File(d).kind = "file"
  BY DEF Absent, Link, File
<1> QED
  BY <1>1 DEF File

\* A shard that is still a link is as it was published.
LEMMA LinkedShard ==
    ASSUME CheckpointAssumption, ContentsKept, NEW f \in Shards, copy[f] = Link
    PROVE  ReadEntry(f) = Placed(f) \X {"bf16"}
<1>1. f # Index /\ f \in Entries
  BY DEF CheckpointAssumption, Entries
<1>2. blobs[f] = Placed(f) \X {"bf16"}
  BY <1>1 DEF ContentsKept, Published
<1> QED
  BY <1>2 DEF ReadEntry

\* Converting a published shard makes it whole.
LEMMA ConvertedIsWhole ==
    ASSUME CheckpointAssumption, ContentsKept, NEW f \in Shards, copy[f] = Link
    PROVE  Converted(f) = Whole(f)
<1>1. ReadEntry(f) = Placed(f) \X {"bf16"}
  BY LinkedShard
<1>2. Converted(f) = {<<p[1], Quantized(p[1], p[2])>> : p \in Placed(f) \X {"bf16"}}
  BY <1>1 DEF Converted
<1>3. \A p \in Placed(f) \X {"bf16"} : p[1] \in Placed(f) /\ p[2] = "bf16"
  OBVIOUS
<1>4. Converted(f) \subseteq Whole(f)
  BY <1>2, <1>3 DEF Whole
<1>5. ASSUME NEW t \in Placed(f) PROVE <<t, Quantized(t, "bf16")>> \in Converted(f)
  <2>1. <<t, "bf16">> \in Placed(f) \X {"bf16"} /\ <<t, "bf16">>[1] = t /\ <<t, "bf16">>[2] = "bf16"
    OBVIOUS
  <2> QED
    BY <1>2, <2>1
<1> QED
  BY <1>4, <1>5 DEF Whole

\* A published shard without dense layers is whole as it is.
LEMMA NothingToConvert ==
    ASSUME CheckpointAssumption, ContentsKept, NEW f \in Shards, copy[f] = Link,
           Placed(f) \cap TARGETS = {}
    PROVE  ReadEntry(f) = Whole(f)
<1>1. ReadEntry(f) = Placed(f) \X {"bf16"}
  BY LinkedShard
<1>2. \A t \in Placed(f) : Quantized(t, "bf16") = "bf16"
  BY DEF Quantized
<1>3. Whole(f) = {<<t, "bf16">> : t \in Placed(f)}
  BY <1>2 DEF Whole
<1>4. {<<t, "bf16">> : t \in Placed(f)} = Placed(f) \X {"bf16"}
  OBVIOUS
<1> QED
  BY <1>1, <1>3, <1>4

\* The scales of all shards are those of all dense layers that can be divided.
LEMMA AllScales ==
    ScalesOf(Shards) = TARGETS \ Undividable
<1>1. TARGETS \subseteq UNION {Placed(f) : f \in Shards}
  BY DEF TARGETS, Tensors
<1> QED
  BY <1>1 DEF ScalesOf

-----------------------------------------------------------------------------
LEMMA InitInv == ASSUME CheckpointAssumption, CheckpointInit PROVE CheckpointInv
<1>1. copy = [e \in Entries |-> copy[e]]
  BY DEF CheckpointInit
<1> QED
  BY <1>1 DEF CheckpointInit, CheckpointInv, CopyTypeOK, Jobs, ContentsKept, MadeOfLinks,
              Converting, Listing, PreparedIsWhole

LEMMA PrepareInv == ASSUME CheckpointInv, Prepare PROVE CheckpointInv'
BY DEF Prepare, CheckpointInv, CopyTypeOK, Jobs, ContentsKept, MadeOfLinks, Converting,
       Listing, PreparedIsWhole

LEMMA ClearInv == ASSUME CheckpointInv, Clear PROVE CheckpointInv'
<1>1. copy' = [e \in Entries |-> Absent] /\ job' = "links" /\ prepared' = FALSE /\ blobs' = blobs
  BY DEF Clear, Cleared
<1>2. CopyTypeOK'
  BY <1>1 DEF CopyTypeOK, Jobs
<1> QED
  BY <1>1, <1>2 DEF CheckpointInv, ContentsKept, MadeOfLinks, Converting, Listing,
                    PreparedIsWhole

LEMMA CopyLinksInv == ASSUME CheckpointInv, CopyLinks PROVE CheckpointInv'
<1> USE DEF CheckpointInv
<1>1. job = "links" /\ prepared' = prepared /\ blobs' = blobs /\ prepared = FALSE
  BY DEF CopyLinks, Clear
<1>2. CASE job' = job
  <2>1. PICK e \in Entries : copy' = [copy EXCEPT ![e] = Link]
    BY <1>1, <1>2 DEF CopyLinks
  <2>2. CopyTypeOK'
    BY <1>2, <2>1 DEF CopyTypeOK
  <2>3. MadeOfLinks'
    BY <1>1, <1>2, <2>1 DEF MadeOfLinks, CopyTypeOK
  <2> QED
    BY <1>1, <1>2, <2>2, <2>3 DEF ContentsKept, Converting, Listing, PreparedIsWhole
<1>3. CASE job' = "detach" /\ copy' = copy /\ {e \in Entries : copy[e] = Absent} = {}
  <2>1. \A e \in Entries : copy[e] = Link
    BY <1>1, <1>3 DEF MadeOfLinks
  <2>2. CopyTypeOK' /\ MadeOfLinks'
    BY <1>3, <2>1 DEF CopyTypeOK, MadeOfLinks, Jobs
  <2> QED
    BY <1>1, <1>3, <2>2 DEF ContentsKept, Converting, Listing, PreparedIsWhole
<1> QED
  BY <1>2, <1>3 DEF CopyLinks

LEMMA DetachIndexInv ==
    ASSUME CheckpointAssumption, CheckpointInv, DetachIndex PROVE CheckpointInv'
<1> USE DEF CheckpointInv
<1>1. /\ job = "detach" /\ job' = "load" /\ prepared' = prepared /\ ~prepared /\ blobs' = blobs
      /\ copy' = [copy EXCEPT ![Index] = File(ReadEntry(Index))]
  BY DEF DetachIndex, Detached
<1>2. copy[Index] = Link /\ Index \in Entries
  BY <1>1 DEF MadeOfLinks, Entries
<1>3. ReadEntry(Index) = {}
  BY <1>2 DEF ReadEntry, ContentsKept, Published
<1>4. copy' = [copy EXCEPT ![Index] = File({})]
  BY <1>1, <1>3
<1>5. CopyTypeOK'
  BY <1>1, <1>4 DEF CopyTypeOK, Jobs
<1>6. MadeOfLinks'
  BY <1>1, <1>2, <1>4 DEF MadeOfLinks, CopyTypeOK, CheckpointAssumption, Entries
<1> QED
  BY <1>1, <1>5, <1>6 DEF ContentsKept, Converting, Listing, PreparedIsWhole

LEMMA LoadIndexInv ==
    ASSUME CheckpointAssumption, CheckpointInv, LoadIndex PROVE CheckpointInv'
<1> USE DEF CheckpointInv
<1>1. /\ job = "load" /\ job' = "convert" /\ prepared' = prepared /\ ~prepared
      /\ blobs' = blobs /\ copy' = copy
      /\ pending' = {f \in Shards : Placed(f) \cap TARGETS # {}}
      /\ listed' = ReadEntry(Index)
  BY DEF LoadIndex
<1>2. copy[Index] = File({}) /\ \A f \in Shards : copy[f] = Link
  BY <1>1 DEF MadeOfLinks
<1>3. listed' = {}
  BY <1>1, <1>2, Kinds DEF ReadEntry
<1>4. ASSUME NEW f \in Shards \ pending'
      PROVE  copy'[f] # Absent /\ ReadEntry(f)' = Whole(f)
  <2>1. Placed(f) \cap TARGETS = {} /\ copy[f] = Link /\ f \in Shards
    BY <1>1, <1>2
  <2>2. ReadEntry(f) = Whole(f)
    BY <2>1, NothingToConvert
  <2> QED
    BY <1>1, <2>1, <2>2, Kinds DEF ReadEntry
<1>5. ScalesOf((Shards \ pending') \cup {}) = {}
  BY <1>1 DEF ScalesOf
<1>6. Converting'
  BY <1>1, <1>2, <1>3, <1>4, <1>5 DEF Converting
<1> QED
  BY <1>1, <1>6 DEF CopyTypeOK, Jobs, ContentsKept, MadeOfLinks, Listing, PreparedIsWhole

LEMMA MoveShardInv ==
    ASSUME CheckpointAssumption, CheckpointInv, MoveShard PROVE CheckpointInv'
<1> USE DEF CheckpointInv
<1>1. PICK f \in pending :
        /\ job = "convert" /\ job' = "save" /\ inHand' = <<f, Converted(f)>>
        /\ listed' = listed \cup ((Placed(f) \cap TARGETS) \ Undividable)
        /\ copy' = [copy EXCEPT ![f] = Absent]
        /\ blobs' = blobs /\ pending' = pending /\ prepared' = prepared /\ ~prepared
  BY DEF MoveShard
<1>2. /\ copy[Index] = File({}) /\ pending \subseteq Shards
      /\ \A g \in pending : copy[g] = Link
      /\ \A g \in Shards \ pending : copy[g] # Absent /\ ReadEntry(g) = Whole(g)
      /\ listed = ScalesOf((Shards \ pending) \cup {})
  BY <1>1 DEF Converting
<1>3. Converted(f) = Whole(f)
  BY <1>2, ConvertedIsWhole
<1>4. inHand'[1] = f /\ inHand'[2] = Whole(f)
  BY <1>1, <1>3
<1>5. f \in Entries /\ f # Index
  BY <1>1, <1>2 DEF Entries, CheckpointAssumption
<1>6. \A e \in Entries : e # f => copy'[e] = copy[e]
  BY <1>1 DEF CopyTypeOK
<1>7. ASSUME NEW g \in Shards \ pending
      PROVE  copy'[g] # Absent /\ ReadEntry(g)' = Whole(g)
  <2>1. g # f /\ g \in Entries
    BY <1>1 DEF Entries
  <2>2. copy'[g] = copy[g]
    BY <1>6, <2>1
  <2> QED
    BY <1>1, <1>2, <2>2 DEF ReadEntry
<1>8. copy'[Index] = File({}) /\ \A g \in pending \ {f} : copy'[g] = Link
  BY <1>2, <1>5, <1>6 DEF Entries
<1>9. listed' = ScalesOf((Shards \ pending) \cup {f})
  BY <1>1, <1>2 DEF ScalesOf
<1>10. Converting'
  BY <1>1, <1>2, <1>4, <1>7, <1>8, <1>9 DEF Converting
<1>11. CopyTypeOK'
  BY <1>1 DEF CopyTypeOK, Jobs
<1> QED
  BY <1>1, <1>10, <1>11 DEF ContentsKept, MadeOfLinks, Listing, PreparedIsWhole

LEMMA SaveShardInv ==
    ASSUME CheckpointAssumption, CheckpointInv, SaveShard PROVE CheckpointInv'
<1> DEFINE f == inHand[1]
<1> USE DEF CheckpointInv
<1>1. /\ job = "save" /\ job' = "convert" /\ copy' = [copy EXCEPT ![f] = File(inHand[2])]
      /\ pending' = pending \ {f} /\ blobs' = blobs /\ listed' = listed
      /\ prepared' = prepared /\ ~prepared
  BY DEF SaveShard
<1>2. /\ copy[Index] = File({}) /\ pending \subseteq Shards /\ f \in pending
      /\ \A g \in pending \ {f} : copy[g] = Link
      /\ \A g \in Shards \ pending : copy[g] # Absent /\ ReadEntry(g) = Whole(g)
      /\ inHand[2] = Whole(f)
      /\ listed = ScalesOf((Shards \ pending) \cup {f})
  BY <1>1 DEF Converting
<1> HIDE DEF f
<1>3. f \in Entries /\ f # Index
  BY <1>2 DEF Entries, CheckpointAssumption
<1>4. copy'[f] = File(Whole(f)) /\ \A e \in Entries : e # f => copy'[e] = copy[e]
  BY <1>1, <1>2, <1>3 DEF CopyTypeOK
<1>5. ASSUME NEW g \in Shards \ pending'
      PROVE  copy'[g] # Absent /\ ReadEntry(g)' = Whole(g)
  <2>1. CASE g = f
    BY <1>4, <2>1, Kinds DEF ReadEntry
  <2>2. CASE g # f
    <3>1. copy'[g] = copy[g] /\ g \in Shards \ pending
      BY <1>1, <1>4, <2>2 DEF Entries
    <3> QED
      BY <1>1, <1>2, <3>1 DEF ReadEntry
  <2> QED
    BY <2>1, <2>2
<1>6. copy'[Index] = File({}) /\ \A g \in pending' : copy'[g] = Link
  BY <1>1, <1>2, <1>3, <1>4 DEF Entries
<1>7. (Shards \ pending') \cup {} = (Shards \ pending) \cup {f}
  BY <1>1, <1>2
<1>8. listed' = ScalesOf((Shards \ pending') \cup {})
  BY <1>1, <1>2, <1>7
<1>9. Converting'
  BY <1>1, <1>2, <1>5, <1>6, <1>8 DEF Converting
<1>10. CopyTypeOK'
  BY <1>1 DEF CopyTypeOK, Jobs
<1> QED
  BY <1>1, <1>9, <1>10 DEF ContentsKept, MadeOfLinks, Listing, PreparedIsWhole

\* The index is a file of the copy when it is emptied and written.
LEMMA TruncateIndexInv ==
    ASSUME CheckpointAssumption, CheckpointInv, TruncateIndex PROVE CheckpointInv'
<1> USE DEF CheckpointInv
<1>1. /\ job = "convert" /\ pending = {} /\ job' = "dump" /\ listed' = listed
      /\ prepared' = prepared /\ ~prepared /\ WriteIndex({})
  BY DEF TruncateIndex
<1>2. /\ copy[Index] = File({}) /\ \A f \in Shards : ReadEntry(f) = Whole(f)
      /\ listed = ScalesOf((Shards \ {}) \cup {})
  BY <1>1 DEF Converting
<1>3. listed = TARGETS \ Undividable
  <2>1. (Shards \ {}) \cup {} = Shards
    OBVIOUS
  <2> QED
    BY <1>2, <2>1, AllScales
<1>4. copy' = [copy EXCEPT ![Index] = File({})] /\ blobs' = blobs
  BY <1>1, <1>2, Kinds DEF WriteIndex
<1>5. copy'[Index] = File({}) /\ \A f \in Shards : copy'[f] = copy[f]
  BY <1>4 DEF CopyTypeOK, Entries, CheckpointAssumption
<1>6. \A f \in Shards : ReadEntry(f)' = Whole(f)
  BY <1>2, <1>4, <1>5 DEF ReadEntry
<1>7. Listing'
  BY <1>1, <1>3, <1>5, <1>6 DEF Listing
<1>8. CopyTypeOK'
  BY <1>1, <1>4 DEF CopyTypeOK, Jobs
<1> QED
  BY <1>1, <1>4, <1>7, <1>8 DEF ContentsKept, MadeOfLinks, Converting, PreparedIsWhole

LEMMA DumpIndexInv ==
    ASSUME CheckpointAssumption, CheckpointInv, DumpIndex PROVE CheckpointInv'
<1> USE DEF CheckpointInv
<1>1. /\ job = "dump" /\ job' = "check" /\ listed' = listed
      /\ prepared' = prepared /\ ~prepared /\ WriteIndex(listed)
  BY DEF DumpIndex
<1>2. /\ copy[Index] = File({}) /\ \A f \in Shards : ReadEntry(f) = Whole(f)
      /\ listed = TARGETS \ Undividable
  BY <1>1 DEF Listing
<1>3. copy' = [copy EXCEPT ![Index] = File(listed)] /\ blobs' = blobs
  BY <1>1, <1>2, Kinds DEF WriteIndex
<1>4. copy'[Index] = File(listed) /\ \A f \in Shards : copy'[f] = copy[f]
  BY <1>3 DEF CopyTypeOK, Entries, CheckpointAssumption
<1>5. \A f \in Shards : ReadEntry(f)' = Whole(f)
  BY <1>2, <1>3, <1>4 DEF ReadEntry
<1>6. Listing'
  BY <1>1, <1>2, <1>4, <1>5 DEF Listing
<1>7. CopyTypeOK'
  BY <1>1, <1>3 DEF CopyTypeOK, Jobs
<1> QED
  BY <1>1, <1>3, <1>6, <1>7 DEF ContentsKept, MadeOfLinks, Converting, PreparedIsWhole

LEMMA CountScalesInv == ASSUME CheckpointInv, CountScales PROVE CheckpointInv'
<1> USE DEF CheckpointInv
<1>1. /\ job = "check" /\ job' = "chmod" /\ blobs' = blobs /\ copy' = copy /\ listed' = listed
      /\ prepared' = prepared /\ ~prepared
  BY DEF CountScales
<1>2. Listing'
  BY <1>1 DEF Listing, ReadEntry
<1> QED
  BY <1>1, <1>2 DEF CopyTypeOK, Jobs, ContentsKept, MadeOfLinks, Converting, PreparedIsWhole

LEMMA OpenEntryInv == ASSUME CheckpointInv, OpenEntry PROVE CheckpointInv'
<1> USE DEF CheckpointInv
<1>1. /\ job = "chmod" /\ job' = job /\ blobs' = blobs /\ copy' = copy /\ listed' = listed
      /\ prepared' = prepared /\ ~prepared
  BY DEF OpenEntry
<1>2. Listing'
  BY <1>1 DEF Listing, ReadEntry
<1> QED
  BY <1>1, <1>2 DEF CopyTypeOK, Jobs, ContentsKept, MadeOfLinks, Converting, PreparedIsWhole

LEMMA MarkPreparedInv == ASSUME CheckpointInv, MarkPrepared PROVE CheckpointInv'
<1> USE DEF CheckpointInv
<1>1. job = "chmod" /\ job' = "none" /\ blobs' = blobs /\ copy' = copy
  BY DEF MarkPrepared
<1>2. /\ \A f \in Shards : ReadEntry(f)' = Whole(f)
      /\ copy'[Index] = File(TARGETS \ Undividable)
  BY <1>1 DEF Listing, ReadEntry
<1>3. ReadEntry(Index)' = TARGETS \ Undividable
  BY <1>2, Kinds DEF ReadEntry
<1>4. PreparedIsWhole'
  BY <1>2, <1>3 DEF PreparedIsWhole, Whole
<1> QED
  BY <1>1, <1>4 DEF CopyTypeOK, Jobs, ContentsKept, MadeOfLinks, Converting, Listing

LEMMA StopInv == ASSUME CheckpointInv, Stop PROVE CheckpointInv'
BY DEF Stop, CheckpointInv, CopyTypeOK, Jobs, ContentsKept, MadeOfLinks, Converting,
       Listing, PreparedIsWhole

LEMMA NextInv ==
    ASSUME CheckpointAssumption, CheckpointInv, [CheckpointNext]_checkpointVars
    PROVE  CheckpointInv'
<1>1. CASE UNCHANGED checkpointVars
  BY <1>1 DEF checkpointVars, CheckpointInv, CopyTypeOK, ContentsKept, MadeOfLinks,
              Converting, Listing, PreparedIsWhole, ReadEntry
<1> QED
  BY <1>1, PrepareInv, ClearInv, CopyLinksInv, DetachIndexInv, LoadIndexInv, MoveShardInv,
     SaveShardInv, TruncateIndexInv, DumpIndexInv, CountScalesInv, OpenEntryInv, MarkPreparedInv,
     StopInv DEF CheckpointNext

LEMMA CheckpointInvariant == CheckpointSpec => []CheckpointInv
<1>1. CheckpointInit => CheckpointInv
  BY CheckpointAssumption, InitInv
<1>2. CheckpointInv /\ [CheckpointNext]_checkpointVars => CheckpointInv'
  BY CheckpointAssumption, NextInv
<1> QED
  BY <1>1, <1>2, PTL DEF CheckpointSpec

\* A shard that is done and still a link has nothing to convert, and only the modes of such
\* shards were changed.
LinkedInv ==
    /\ job \in {"convert", "save"} =>
         \A f \in Shards \ pending : copy[f] = Link => Placed(f) \cap TARGETS = {}
    /\ job \in {"dump", "check", "chmod"} =>
         \A f \in Shards : copy[f] = Link => Placed(f) \cap TARGETS = {}
    /\ modes = [e \in Entries |-> modes[e]]
    /\ \A e \in Entries : modes[e] # DownloadMode =>
           modes[e] = "644" /\ e # Index /\ Placed(e) \cap TARGETS = {}

\* Whatever is written to the index leaves the shards of the copy as they are.
LEMMA IndexWritten ==
    ASSUME CheckpointAssumption, CopyTypeOK, ContentsKept, NEW d, copy[Index] = File({}), WriteIndex(d)
    PROVE  \A f \in Shards : copy'[f] = copy[f]
<1>1. copy' = [copy EXCEPT ![Index] = File(d)]
  BY Kinds DEF WriteIndex
<1> QED
  BY <1>1 DEF CopyTypeOK, Entries, CheckpointAssumption

LEMMA LinkedNext ==
    ASSUME CheckpointAssumption, CheckpointInv, LinkedInv, [CheckpointNext]_checkpointVars
    PROVE  LinkedInv'
<1> USE DEF LinkedInv
<1>1. CASE UNCHANGED checkpointVars
  BY <1>1 DEF checkpointVars
<1>2. CASE Prepare \/ Clear \/ DetachIndex \/ MarkPrepared \/ Stop
  BY <1>2 DEF Prepare, Clear, DetachIndex, MarkPrepared, Stop
<1>3. CASE CopyLinks
  BY <1>3 DEF CopyLinks
<1>4. CASE LoadIndex
  BY <1>4 DEF LoadIndex
<1>5. CASE MoveShard
  <2>1. PICK f \in pending :
          /\ job = "convert" /\ job' = "save" /\ copy' = [copy EXCEPT ![f] = Absent]
          /\ pending' = pending /\ modes' = modes
    BY <1>5 DEF MoveShard
  <2>2. \A g \in Shards \ pending : copy'[g] = copy[g]
    BY <2>1 DEF CheckpointInv, CopyTypeOK, Entries
  <2> QED
    BY <2>1, <2>2
<1>6. CASE SaveShard
  <2> DEFINE f == inHand[1]
  <2>1. /\ job = "save" /\ job' = "convert" /\ copy' = [copy EXCEPT ![f] = File(inHand[2])]
        /\ pending' = pending \ {f} /\ modes' = modes
    BY <1>6 DEF SaveShard
  <2>2. \A g \in Shards : copy'[g] = IF g = f THEN File(inHand[2]) ELSE copy[g]
    BY <2>1 DEF CheckpointInv, CopyTypeOK, Entries
  <2>3. File(inHand[2]) # Link
    BY Kinds
  <2> HIDE DEF f
  <2> QED
    BY <2>1, <2>2, <2>3
<1>7. CASE TruncateIndex
  <2>1. /\ job = "convert" /\ pending = {} /\ job' = "dump" /\ modes' = modes /\ WriteIndex({})
    BY <1>7 DEF TruncateIndex
  <2>2. \A f \in Shards : copy'[f] = copy[f]
    BY <2>1, IndexWritten DEF CheckpointInv, Converting
  <2> QED
    BY <2>1, <2>2
<1>8. CASE DumpIndex
  <2>1. job = "dump" /\ job' = "check" /\ modes' = modes /\ WriteIndex(listed)
    BY <1>8 DEF DumpIndex
  <2>2. \A f \in Shards : copy'[f] = copy[f]
    BY <2>1, IndexWritten DEF CheckpointInv, Listing
  <2> QED
    BY <2>1, <2>2
<1>9. CASE CountScales
  BY <1>9 DEF CountScales
<1>10. CASE OpenEntry
  <2>1. PICK e \in Entries :
          /\ copy[e] = Link /\ job = "chmod" /\ job' = job /\ copy' = copy
          /\ modes' = [modes EXCEPT ![e] = "644"]
    BY <1>10 DEF OpenEntry, Unopened
  <2>2. e # Index
    BY <2>1, Kinds DEF CheckpointInv, Listing
  <2>3. Placed(e) \cap TARGETS = {}
    BY <2>1, <2>2 DEF Entries
  <2>4. \A g \in Entries : modes'[g] = IF g = e THEN "644" ELSE modes[g]
    BY <2>1
  <2>5. modes' = [g \in Entries |-> modes'[g]]
    BY <2>1
  <2> QED
    BY <2>1, <2>2, <2>3, <2>4, <2>5
<1> QED
  BY <1>1, <1>2, <1>3, <1>4, <1>5, <1>6, <1>7, <1>8, <1>9, <1>10 DEF CheckpointNext

\* The snapshot keeps its contents, though most of the copy is links into it, at whatever
\* step a run of the script stops; its shards that have nothing to convert are made readable
\* to all, and nothing else of it changes (prepare-hybrid.sh:13, 47): SnapshotKeepsContents.
THEOREM SnapshotStaysWhole == CheckpointSpec => []SnapshotKeepsContents
<1>1. CheckpointInit => LinkedInv
  BY DEF CheckpointInit, LinkedInv
<1>2. CheckpointInv /\ LinkedInv /\ [CheckpointNext]_checkpointVars => LinkedInv'
  BY CheckpointAssumption, LinkedNext
<1>3. CheckpointInv /\ LinkedInv => SnapshotKeepsContents
  BY DEF CheckpointInv, LinkedInv, ContentsKept, SnapshotKeepsContents
<1> QED
  BY <1>1, <1>2, <1>3, CheckpointInvariant, PTL DEF CheckpointSpec

\* What is marked as prepared is whole: every shard converted exactly once, and the index
\* lists its scales (prepare-hybrid.sh:31): PreparedIsWhole.
THEOREM PreparedStaysWhole == CheckpointSpec => []PreparedIsWhole
<1>1. CheckpointInv => PreparedIsWhole
  BY DEF CheckpointInv
<1> QED
  BY <1>1, CheckpointInvariant, PTL

-----------------------------------------------------------------------------
\* Tensors that go to the copy as fp8.
Dense8 == TARGETS \ Undividable

\* Of a whole shard the fp8 tensors are those that are to be.
LEMMA Fp8OfWhole ==
    ASSUME NEW f \in Shards, NEW t \in Tensors
    PROVE  <<t, "fp8">> \in Whole(f) <=> t \in Placed(f) /\ t \in Dense8
<1>1. \A u : Quantized(u, "bf16") = "fp8" <=> u \in Dense8
  BY DEF Quantized, Dense8
<1> QED
  BY <1>1 DEF Whole

\* What the scan of a whole copy finds.
LEMMA ScannedOfWhole ==
    ASSUME PreparedIsWhole, prepared
    PROVE  /\ Scanned = Dense8
           /\ \A u \in Tensors : (\E f \in Shards : <<u, "fp8">> \in ReadEntry(f)) <=> u \in Dense8
<1>1. \A f \in Shards : ReadEntry(f) = Whole(f)
  BY DEF PreparedIsWhole, Whole
<1>2. ReadEntry(Index) = Dense8
  BY DEF PreparedIsWhole, Dense8
<1>3. \A u \in Tensors : (\E f \in Shards : <<u, "fp8">> \in ReadEntry(f)) <=> u \in Dense8
  BY <1>1, Fp8OfWhole DEF Tensors
<1>4. \A u \in Dense8 : u \in Tensors
  BY DEF Dense8, TARGETS
<1> QED
  BY <1>2, <1>3, <1>4 DEF Scanned

\* Every unit of a layer is a tensor's of the layer, and the layer has its own.
LEMMA UnitsAreHeld ==
    ASSUME NEW t \in Tensors
    PROVE  /\ t.unit \in UnitsOf(t)
           /\ \A n \in UnitsOf(t) :
                 \E u \in Tensors : u.root = t.root /\ u.layer = t.layer /\ u.unit = n
<1> DEFINE held == {u.unit : u \in {v \in Tensors : v.root = t.root /\ v.layer = t.layer}}
           fused == {g \in FusedUnits : t.unit \in g /\ g \subseteq held}
<1>1. UnitsOf(t) = IF fused = {} THEN {t.unit} ELSE UNION fused
  BY DEF UnitsOf
<1>2. \A n \in held : \E u \in Tensors : u.root = t.root /\ u.layer = t.layer /\ u.unit = n
  OBVIOUS
<1>3. t.unit \in held
  OBVIOUS
<1>4. (UNION fused) \subseteq held /\ (fused # {} => t.unit \in UNION fused)
  OBVIOUS
<1> HIDE DEF held, fused
<1> QED
  BY <1>1, <1>2, <1>3, <1>4

\* The layers the server loads as fp8 are those of the prepared copy whose tensors are
\* all fp8: the names it compares, from "layers." on, mix up no layer of the draft head
\* with one of the model (vllm_fp8_hybrid_modelopt.py:72-124): LoadsWhatIsStored.
LEMMA WholeIsLoaded == ASSUME CheckpointAssumption, PreparedIsWhole PROVE LoadsWhatIsStored
<1> SUFFICES ASSUME prepared, NEW t \in Tensors
             PROVE  IsFp8Layer(RuntimeLayer(t), UnitsOf(t)) <=>
                      \A u \in Tensors :
                         (u.root = t.root /\ u.layer = t.layer /\ u.unit \in UnitsOf(t)) => u \in Dense8
  BY ScannedOfWhole DEF LoadsWhatIsStored
<1>1. IsFp8Layer(RuntimeLayer(t), UnitsOf(t)) <=>
        \A n \in UnitsOf(t) : \E s \in Dense8 : s.layer = RuntimeLayer(t) /\ s.unit = n
  BY ScannedOfWhole DEF IsFp8Layer
<1>2. \A s \in Dense8 : s \in Tensors /\ s.root = "model"
  BY DEF Dense8, TARGETS
<1>3. /\ Tensors \subseteq [root : {"model", "mtp"}, layer : Nat, unit : STRING]
      /\ \A s \in Tensors : s.root = "model" => s.layer < NumHidden
      /\ NumHidden \in Nat
  BY DEF CheckpointAssumption
<1>4. CASE t.root = "model"
  <2>1. RuntimeLayer(t) = t.layer
    BY <1>4 DEF RuntimeLayer
  <2>2. \A s \in Dense8, u \in Tensors :
          u.root = t.root /\ s.layer = t.layer /\ u.layer = t.layer /\ s.unit = u.unit => s = u
    BY <1>2, <1>3, <1>4
  <2> QED
    BY <1>1, <1>2, <1>4, <2>1, <2>2, UnitsAreHeld
<1>5. CASE t.root = "mtp"
  <2>1. RuntimeLayer(t) = NumHidden + t.layer /\ t.layer \in Nat
    BY <1>3, <1>5 DEF RuntimeLayer
  <2>2. \A s \in Dense8 : s.layer # RuntimeLayer(t)
    BY <1>2, <1>3, <2>1
  <2>3. t \notin Dense8
    BY <1>2, <1>5
  <2> QED
    BY <1>1, <2>2, <2>3, UnitsAreHeld
<1> QED
  BY <1>3, <1>4, <1>5

\* After a run of the script that succeeded, a fused layer is loaded as fp8 exactly when the
\* copy stores all its parts so, whichever tensors the checkpoint has: LoadsWhatIsStored.
THEOREM LoadsOnlyWhatIsStored == CheckpointSpec => []LoadsWhatIsStored
<1>1. CheckpointInv => LoadsWhatIsStored
  BY CheckpointAssumption, WholeIsLoaded DEF CheckpointInv
<1> QED
  BY <1>1, CheckpointInvariant, PTL

-----------------------------------------------------------------------------
(***************************************************************************)
(* CUDA graphs.                                                            *)
(***************************************************************************)
RunnerSet == [support : DOMAIN Support, queryLen : Nat \ {0}, v2 : BOOLEAN, tp : Nat \ {0}]

ConfigSet ==
    [mode : Modes, compiled : BOOLEAN,
     splitting : [given : BOOLEAN, ops : SUBSET {"attention", "cache", "other"}],
     partition : BOOLEAN, passes : SUBSET {"sp", "gemm_comms", "attn_quant", "rope_kvcache"},
     sizes : Seq(Nat \ {0}), maxSize : Nat]

\* A mode whose graphs a backend supports.
IsSupported(m, r) ==
    /\ MixedMode(m) = "FULL" => r.support = "ALWAYS"
    /\ HasFull(m) => Support[r.support] >= IF r.queryLen > 1 THEN 2 ELSE 1

\* Whatever was asked for, what the resolution leaves is supported.
LEMMA ResolvedIsSupported ==
    ASSUME NEW m \in Modes, NEW c, NEW r \in RunnerSet
    PROVE  Resolved(m, c, r) \in Modes /\ IsSupported(Resolved(m, c, r), r)
<1> DEFINE m1 == AfterMixedCheck(m, c, r)
           m2 == AfterDecodeCheck(m1, c, r)
           m3 == AfterDraftCheck(m2, c, r)
<1>1. m1 \in Modes /\ (MixedMode(m1) = "FULL" => r.support = "ALWAYS")
  BY DEF AfterMixedCheck, Modes, MixedMode
<1>2. /\ m2 \in Modes /\ (MixedMode(m2) = "FULL" => r.support = "ALWAYS")
      /\ DecodeMode(m2) = "FULL" => r.support # "NEVER"
  <2> HIDE DEF m1
  <2> QED
    BY <1>1 DEF AfterDecodeCheck, Modes, MixedMode, DecodeMode
<1>3. /\ r.support \in {"NEVER", "UNIFORM_SINGLE_TOKEN_DECODE", "UNIFORM_BATCH", "ALWAYS"}
      /\ r.queryLen \in Nat \ {0}
  BY DEF RunnerSet, Support
<1>4. /\ Support["NEVER"] = 0 /\ Support["UNIFORM_SINGLE_TOKEN_DECODE"] = 1
      /\ Support["UNIFORM_BATCH"] = 2 /\ Support["ALWAYS"] = 3
  BY DEF Support
<1>5. m3 \in Modes /\ IsSupported(m3, r)
  <2> HIDE DEF m1, m2
  <2>1. CASE DecodeMode(m2) = "FULL" /\ r.queryLen > 1 /\ Support[r.support] < Support["UNIFORM_BATCH"]
    <3>1. m3 \in {"PIECEWISE", "NONE"}
      BY <2>1 DEF AfterDraftCheck
    <3> QED
      BY <3>1 DEF IsSupported, HasFull, MixedMode, DecodeMode, Modes
  <2>2. CASE ~(DecodeMode(m2) = "FULL" /\ r.queryLen > 1 /\ Support[r.support] < Support["UNIFORM_BATCH"])
    <3>1. m3 = m2
      BY <2>2 DEF AfterDraftCheck
    <3> QED
      BY <1>2, <1>3, <1>4, <2>2, <3>1 DEF IsSupported, HasFull
  <2> QED
    BY <2>1, <2>2
<1> QED
  BY <1>5 DEF Resolved

\* A supported mode is resolved to itself.
LEMMA SupportedStays ==
    ASSUME NEW m \in Modes, NEW c, NEW r \in RunnerSet, IsSupported(m, r)
    PROVE  Resolved(m, c, r) = m
<1>1. /\ r.support \in {"NEVER", "UNIFORM_SINGLE_TOKEN_DECODE", "UNIFORM_BATCH", "ALWAYS"}
      /\ r.queryLen \in Nat \ {0}
  BY DEF RunnerSet, Support
<1>2. /\ Support["NEVER"] = 0 /\ Support["UNIFORM_SINGLE_TOKEN_DECODE"] = 1
      /\ Support["UNIFORM_BATCH"] = 2 /\ Support["ALWAYS"] = 3
  BY DEF Support
<1>3. AfterMixedCheck(m, c, r) = m
  BY DEF AfterMixedCheck, IsSupported
<1>4. AfterDecodeCheck(m, c, r) = m
  BY <1>1, <1>2 DEF AfterDecodeCheck, IsSupported, HasFull
<1>5. AfterDraftCheck(m, c, r) = m
  BY <1>1, <1>2 DEF AfterDraftCheck, IsSupported, HasFull
<1> QED
  BY <1>3, <1>4, <1>5 DEF Resolved

\* Sizes are rounded to multiples that are not larger than the largest.
LEMMA SizeRoundedUp ==
    ASSUME NEW n \in Nat, NEW k \in Nat \ {0}
    PROVE  /\ RoundUp(n, k) \in Nat /\ RoundUp(n, k) % k = 0
           /\ n % k = 0 => RoundUp(n, k) = n
           /\ n # 0 => RoundUp(n, k) # 0
<1> DEFINE q == (n + k - 1) \div k
<1>1. q \in Nat /\ q * k \in Nat /\ n <= q * k
  BY RoundedUp
<1>2. RoundUp(n, k) = q * k
  BY DEF RoundUp
<1>3. ASSUME n % k = 0 PROVE q * k = n
  <2> DEFINE p == n \div k
  <2>1. p \in Int /\ n = p * k
    BY <1>3, Division
  <2> HIDE DEF p
  <2>2. n + k - 1 = p * k + (k - 1) /\ k - 1 \in 0 .. k - 1
    BY <2>1
  <2>3. (n + k - 1) \div k = p
    BY <2>1, <2>2, Quotient
  <2> QED
    BY <2>1, <2>3 DEF q
<1> HIDE DEF q
<1>4. (q * k) % k = 0
  BY <1>1, Multiple
<1> QED
  BY <1>1, <1>2, <1>3, <1>4

LEMMA MultipleOfType ==
    ASSUME NEW c \in ConfigSet, NEW r \in RunnerSet
    PROVE  MultipleOf(c, r) \in Nat \ {0}
BY MaxOfTwo DEF MultipleOf, RunnerSet

LEMMA RoundedSizes ==
    ASSUME NEW c \in ConfigSet, NEW r \in RunnerSet
    PROVE  /\ Rounded(c, r) \in SUBSET Nat /\ IsFiniteSet(Rounded(c, r))
           /\ \A n \in Rounded(c, r) : n # 0 /\ n <= c.maxSize /\ n % MultipleOf(c, r) = 0
<1> DEFINE k == MultipleOf(c, r)
           up == {RoundUp(c.sizes[i], k) : i \in DOMAIN c.sizes}
           fit == {n \in up : n <= c.maxSize}
<1>1. k \in Nat \ {0} /\ c.maxSize \in Nat
  BY MultipleOfType DEF ConfigSet
<1>2. \A i \in DOMAIN c.sizes : c.sizes[i] \in Nat \ {0}
  BY DEF ConfigSet
<1>3. k % k = 0
  BY <1>1
<1> HIDE DEF k
<1>4. \A n \in fit : n \in Nat \ {0} /\ n <= c.maxSize /\ n % k = 0
  BY <1>1, <1>2, SizeRoundedUp
<1>5. Rounded(c, r) = IF fit = {} /\ k <= c.maxSize THEN {k} ELSE fit
  BY DEF Rounded, k
<1> HIDE DEF fit
<1>6. \A n \in Rounded(c, r) : n \in Nat \ {0} /\ n <= c.maxSize /\ n % k = 0
  BY <1>1, <1>3, <1>4, <1>5
<1>7. Rounded(c, r) \subseteq 0 .. c.maxSize
  BY <1>1, <1>6
<1>8. IsFiniteSet(Rounded(c, r))
  <2>1. 0 \in Int /\ c.maxSize \in Int
    BY <1>1
  <2>2. IsFiniteSet(0 .. c.maxSize)
    BY <2>1, FS_Interval
  <2> QED
    BY <1>7, <2>2, FS_Subset
<1> QED
  BY <1>6, <1>8 DEF k

\* The sizes that the old runner captures: the rounded ones, in rising order.
LEMMA AdjustedSizes ==
    ASSUME NEW c \in ConfigSet, NEW r \in RunnerSet, Rounded(c, r) # {}
    PROVE  LET s == Adjusted(c, r).sizes
               n == Cardinality(Rounded(c, r))
           IN  /\ Adjusted(c, r) \in ConfigSet /\ n \in Nat \ {0}
               /\ s \in [1 .. n -> Nat \ {0}] /\ Range(s) = Rounded(c, r)
               /\ \A i, j \in 1 .. n : i < j => s[i] < s[j]
               /\ Adjusted(c, r).maxSize = s[n]
               /\ s[n] <= c.maxSize
<1> DEFINE R == Rounded(c, r)
           n == Cardinality(R)
           s == Ascending(R)
<1>1. R \in SUBSET Nat /\ IsFiniteSet(R) /\ \A x \in R : x # 0 /\ x <= c.maxSize
  BY RoundedSizes
<1>2. n \in Nat \ {0}
  BY <1>1, FS_CardinalityType, FS_EmptySet
<1>3. R \in SUBSET Int /\ R # {}
  BY <1>1
<1> HIDE DEF R
<1>4. /\ s \in [1 .. n -> R] /\ Range(s) = R
      /\ \A i, j \in 1 .. n : i < j => s[i] < s[j]
  BY <1>1, <1>3, AscendingNames
<1> HIDE DEF n, s
<1>5. s \in [1 .. n -> Nat \ {0}]
  BY <1>1, <1>4
<1>6. n \in 1 .. n /\ s[n] \in R
  BY <1>2, <1>4
<1>7. ASSUME NEW x \in R PROVE x <= s[n]
  <2>1. PICK i \in 1 .. n : s[i] = x
    BY <1>4, <1>5 DEF Range
  <2> QED
    BY <1>2, <1>4, <1>5, <1>6, <2>1
<1>8. Max(R) = s[n]
  <2>1. c.maxSize \in Nat
    BY DEF ConfigSet
  <2>2. Max(R) \in R /\ \A x \in R : x <= Max(R)
    BY <1>1, <1>3, <2>1, MaxOfBounded
  <2>3. Max(R) <= s[n] /\ s[n] <= Max(R) /\ Max(R) \in Nat /\ s[n] \in Nat
    BY <1>1, <1>6, <1>7, <2>2
  <2> QED
    BY <2>3
<1>9. Adjusted(c, r) = [c EXCEPT !.sizes = s, !.maxSize = s[n]]
  BY <1>8 DEF Adjusted, R, s
<1>10. s \in Seq(Nat \ {0}) /\ s[n] \in Nat
  <2>1. s[n] \in Nat
    BY <1>1, <1>6
  <2> QED
    BY <1>2, <1>5, <2>1
<1>11. Adjusted(c, r) \in ConfigSet /\ Adjusted(c, r).sizes = s /\ Adjusted(c, r).maxSize = s[n]
  BY <1>9, <1>10 DEF ConfigSet
<1> QED
  BY <1>1, <1>2, <1>4, <1>5, <1>6, <1>11 DEF R, n

\* Adjusting once more changes nothing.
LEMMA AdjustedStays ==
    ASSUME NEW c \in ConfigSet, NEW r \in RunnerSet, NEW m, Rounded(c, r) # {}
    PROVE  LET d == [Adjusted(c, r) EXCEPT !.mode = m]
           IN  MultipleOf(d, r) = MultipleOf(c, r) /\ Rounded(d, r) = Rounded(c, r) /\ Adjusted(d, r) = d
<1> DEFINE d == [Adjusted(c, r) EXCEPT !.mode = m]
           R == Rounded(c, r)
           n == Cardinality(R)
           k == MultipleOf(c, r)
<1>1. /\ d.passes = c.passes /\ d.sizes = Ascending(R) /\ d.maxSize = Max(R)
      /\ d = [d EXCEPT !.sizes = Ascending(R), !.maxSize = Max(R)]
  BY DEF Adjusted, ConfigSet
<1>2. k \in Nat \ {0} /\ MultipleOf(d, r) = k
  BY <1>1, MultipleOfType DEF MultipleOf
<1>3. /\ Adjusted(c, r).sizes = Ascending(R) /\ Adjusted(c, r).maxSize = Max(R)
      /\ Adjusted(c, r).sizes \in [1 .. n -> Nat \ {0}] /\ Range(Adjusted(c, r).sizes) = R
  BY AdjustedSizes DEF Adjusted, ConfigSet
<1>4. R \in SUBSET Nat /\ R # {} /\ \A x \in R : x <= c.maxSize /\ x % k = 0
  BY RoundedSizes
<1>5. c.maxSize \in Nat
  BY DEF ConfigSet
<1> HIDE DEF d, R, k, n
<1>6. \A x \in R : x <= Max(R) /\ RoundUp(x, k) = x
  BY <1>2, <1>4, <1>5, MaxOfBounded, SizeRoundedUp
<1>7. R = {d.sizes[i] : i \in DOMAIN d.sizes}
  BY <1>1, <1>3 DEF Range
<1>8. {RoundUp(d.sizes[i], k) : i \in DOMAIN d.sizes} = R
  <2>1. {RoundUp(d.sizes[i], k) : i \in DOMAIN d.sizes} = {RoundUp(x, k) : x \in R}
    BY <1>7
  <2>2. {RoundUp(x, k) : x \in R} = {x : x \in R}
    BY <1>6
  <2> QED
    BY <2>1, <2>2
<1>9. {x \in R : x <= d.maxSize} = R
  BY <1>1, <1>6
<1>10. Rounded(d, r) = R
  BY <1>2, <1>4, <1>8, <1>9 DEF Rounded
<1>11. Adjusted(d, r) = d
  BY <1>1, <1>10 DEF Adjusted
<1> QED
  BY <1>2, <1>10, <1>11 DEF d, R, k

-----------------------------------------------------------------------------
\* Full graphs were asked for, or a pass that wants the whole graph was.
MayBeFull ==
    asked.mode # "PIECEWISE" \/ asked.passes \cap {"sp", "gemm_comms", "attn_quant"} # {}

CudaTypeOK ==
    /\ asked \in ConfigSet /\ config \in ConfigSet /\ runner \in RunnerSet
    /\ stage \in {"unset", "asked", "split", "sized", "profiled", "resolved", "raised"}

\* What was profiled is what the resolution would leave again.
IsSettled ==
    stage \in {"profiled", "resolved"} =>
        /\ IsSupported(config.mode, runner)
        /\ Adjusts(config.mode, runner) =>
             /\ Adjusted(config, runner) = config
             /\ CanAdjust(config, runner)

CudaInv ==
    /\ CudaTypeOK /\ IsSettled /\ SizesHoldWholeRequests
    /\ stage \in {"asked", "split", "sized"} /\ ~MayBeFull => config.passes \subseteq asked.passes
    /\ ~MayBeFull => config.mode \in {"PIECEWISE", "NONE"}
    /\ stage = "sized" => config.maxSize = asked.maxSize
    /\ stage = "unset" => config.mode = "NONE" /\ asked.mode = "NONE"

\* A divisor of a divisor divides.
LEMMA DivisorOfDivisor ==
    ASSUME NEW x \in Nat, NEW k \in Nat \ {0}, NEW l \in Nat \ {0}, x % k = 0, k % l = 0
    PROVE  x % l = 0
<1> DEFINE p == x \div k
           q == k \div l
<1>1. p \in Int /\ x = p * k
  BY Division
<1>2. q \in Int /\ k = q * l
  BY Division
<1> HIDE DEF p, q
<1>3. x = (p * q) * l /\ p * q \in Int
  BY <1>1, <1>2
<1> QED
  BY <1>3, Multiple

LEMMA CudaInitInv == ASSUME CudagraphInit PROVE CudaInv
<1>1. config \in ConfigSet
  BY DEF CudagraphInit, ConfigSet, Modes
<1>2. runner \in RunnerSet
  BY DEF CudagraphInit, NoRunner, RunnerSet, Support
<1> QED
  BY <1>1, <1>2 DEF CudagraphInit, CudaInv, CudaTypeOK, IsSettled, SizesHoldWholeRequests, MayBeFull

LEMMA AskForInv == ASSUME CudaInv, NEW c \in Configs, AskFor(c) PROVE CudaInv'
<1>1. c \in ConfigSet
  <2>1. /\ Splittings \subseteq [given : BOOLEAN, ops : SUBSET {"attention", "cache", "other"}]
        /\ PassSets \subseteq SUBSET {"sp", "gemm_comms", "attn_quant", "rope_kvcache"}
    <3>1. ASSUME NEW x \in Splittings
          PROVE  x \in [given : BOOLEAN, ops : SUBSET {"attention", "cache", "other"}]
      <4>1. CASE x = [given |-> FALSE, ops |-> {}]
        BY <4>1
      <4>2. CASE x \in [given : {TRUE}, ops : {{}, {"other"}, {"attention"}, {"attention", "cache"}}]
        <5>1. {{}, {"other"}, {"attention"}, {"attention", "cache"}} \subseteq SUBSET {"attention", "cache", "other"}
          OBVIOUS
        <5> QED
          BY <4>2, <5>1
      <4> QED
        BY <4>1, <4>2 DEF Splittings
    <3>2. PassSets \subseteq SUBSET {"sp", "gemm_comms", "attn_quant", "rope_kvcache"}
      BY DEF PassSets
    <3> QED
      BY <3>1, <3>2
  <2>2. << >> \in Seq(Nat \ {0}) /\ 0 \in Nat
    OBVIOUS
  <2> QED
    BY <2>1, <2>2 DEF Configs, ConfigSet
<1>2. asked' = c /\ config' = c /\ stage' = "asked" /\ runner' = runner
  BY DEF AskFor
<1>3. CudaTypeOK'
  BY <1>1, <1>2 DEF CudaInv, CudaTypeOK
<1> QED
  BY <1>2, <1>3 DEF CudaInv, IsSettled, SizesHoldWholeRequests, MayBeFull

\* What the choice of splitting ops may change.
LEMMA ChosenConfig ==
    ASSUME NEW c \in ConfigSet
    PROVE  LET d == ForSequenceParallelism(ChosenSplits(c))
           IN  /\ d \in ConfigSet /\ d.passes \subseteq c.passes
               /\ c.passes \cap {"sp", "gemm_comms", "attn_quant"} = {} /\ c.mode \in {"PIECEWISE", "NONE"}
                    => d.mode \in {"PIECEWISE", "NONE"}
<1> DEFINE Plain(b) == b.passes \cap {"sp", "gemm_comms", "attn_quant"} = {} /\ b.mode \in {"PIECEWISE", "NONE"}
           e == ChosenSplits(c)
           d == ForSequenceParallelism(e)
<1>1. \A b \in ConfigSet, m \in Modes, o \in SUBSET {"attention", "cache", "other"} :
        /\ With(b, m, o) \in ConfigSet /\ With(b, m, o).mode = m
        /\ With(b, m, o).passes = b.passes
  BY DEF With, ConfigSet
<1>2. e \in ConfigSet /\ e.passes \subseteq c.passes /\ (Plain(c) => Plain(e))
  <2>1. CASE "attn_quant" \in c.passes /\ ~c.partition
    <3>1. e = ForAttnFusion(c) /\ ~Plain(c)
      BY <2>1 DEF ChosenSplits
    <3>2. c.mode \in Modes
      BY DEF ConfigSet
    <3> QED
      BY <1>1, <3>1, <3>2 DEF ForAttnFusion, Modes
  <2>2. CASE ~("attn_quant" \in c.passes /\ ~c.partition) /\ ~c.splitting.given
    <3> DEFINE b == [c EXCEPT !.passes = IF c.partition THEN @ ELSE @ \ {"rope_kvcache"}]
    <3>1. b \in ConfigSet /\ b.passes \subseteq c.passes /\ b.mode = c.mode
      BY DEF ConfigSet
    <3>2. e = With(b, c.mode, {"attention"} \cup IF c.partition THEN {} ELSE {"cache"})
      BY <2>2 DEF ChosenSplits, DefaultSplits
    <3>3. c.mode \in Modes
      BY DEF ConfigSet
    <3> HIDE DEF b
    <3> QED
      BY <1>1, <3>1, <3>2, <3>3
  <2>3. CASE ~("attn_quant" \in c.passes /\ ~c.partition) /\ c.splitting.given /\ c.splitting.ops = {}
    <3>1. e = With(c, WithoutSplits(c.mode), {})
      BY <2>3 DEF ChosenSplits
    <3>2. c.mode \in Modes
      BY DEF ConfigSet
    <3>3. WithoutSplits(c.mode) \in Modes
      BY <3>2 DEF WithoutSplits, Modes
    <3>4. c.mode \in {"PIECEWISE", "NONE"} => WithoutSplits(c.mode) \in {"PIECEWISE", "NONE"}
      BY DEF WithoutSplits
    <3> QED
      BY <1>1, <3>1, <3>3, <3>4
  <2>4. CASE ~("attn_quant" \in c.passes /\ ~c.partition) /\ c.splitting.given /\ c.splitting.ops # {}
    BY <2>4 DEF ChosenSplits
  <2> QED
    BY <2>1, <2>2, <2>3, <2>4
<1> HIDE DEF e
<1>3. d \in ConfigSet /\ d.passes \subseteq e.passes /\ (Plain(e) => Plain(d))
  <2>1. CASE d = e
    BY <1>2, <2>1
  <2>2. CASE d # e
    <3>1. e.passes \cap {"sp", "gemm_comms"} # {}
      BY <2>2 DEF ForSequenceParallelism
    <3>2. d = With(e, IF HasPiecewise(e.mode) THEN "FULL" ELSE e.mode, {})
      BY <2>2 DEF ForSequenceParallelism
    <3>3. (IF HasPiecewise(e.mode) THEN "FULL" ELSE e.mode) \in Modes
      BY <1>2 DEF ConfigSet, Modes
    <3>4. ~Plain(e)
      BY <3>1
    <3> HIDE DEF d
    <3> QED
      BY <1>1, <1>2, <3>2, <3>3, <3>4
  <2> QED
    BY <2>1, <2>2
<1> QED
  BY <1>2, <1>3 DEF e

LEMMA RaiseInv == ASSUME CudaInv, Raise PROVE CudaInv'
BY DEF Raise, CudaInv, CudaTypeOK, IsSettled, SizesHoldWholeRequests, MayBeFull

LEMMA SetSplittingOpsInv ==
    ASSUME CudaInv, NEW deepep \in BOOLEAN, SetSplittingOps(deepep) PROVE CudaInv'
<1> DEFINE d == ForSequenceParallelism(ChosenSplits(config))
<1>1. stage = "asked" /\ config \in ConfigSet /\ asked \in ConfigSet
  BY DEF SetSplittingOps, CudaInv, CudaTypeOK
<1>2. CASE Raise
  BY <1>2, RaiseInv
<1>3. CASE ~Raise
  <2>1. /\ asked' = asked /\ runner' = runner /\ stage' = "split"
        /\ config' \in {[config EXCEPT !.splitting.given = TRUE], d, [d EXCEPT !.mode = "NONE"]}
    BY <1>3 DEF SetSplittingOps
  <2>2. /\ d \in ConfigSet /\ d.passes \subseteq config.passes
        /\ config.passes \cap {"sp", "gemm_comms", "attn_quant"} = {} /\ config.mode \in {"PIECEWISE", "NONE"}
              => d.mode \in {"PIECEWISE", "NONE"}
    BY <1>1, ChosenConfig
  <2> HIDE DEF d
  <2>3. config' \in ConfigSet /\ config'.passes \subseteq config.passes
    <3>1. \A c \in ConfigSet : /\ [c EXCEPT !.mode = "NONE"] \in ConfigSet
                               /\ [c EXCEPT !.mode = "NONE"].passes = c.passes
      BY DEF ConfigSet, Modes
    <3>2. \A c \in ConfigSet : /\ [c EXCEPT !.splitting.given = TRUE] \in ConfigSet
                               /\ [c EXCEPT !.splitting.given = TRUE].passes = c.passes
      BY DEF ConfigSet
    <3> QED
      BY <1>1, <2>1, <2>2, <3>1, <3>2
  <2>4. config'.mode \in {config.mode, d.mode, "NONE"}
    BY <1>1, <2>1, <2>2 DEF ConfigSet
  <2>5. ASSUME ~MayBeFull
        PROVE  config'.mode \in {"PIECEWISE", "NONE"} /\ config'.passes \subseteq asked.passes
    <3>1. config.passes \subseteq asked.passes /\ config.mode \in {"PIECEWISE", "NONE"}
      BY <1>1, <2>5 DEF CudaInv
    <3>2. config.passes \cap {"sp", "gemm_comms", "attn_quant"} = {}
      BY <2>5, <3>1 DEF MayBeFull
    <3> QED
      BY <2>2, <2>3, <2>4, <3>1, <3>2
  <2>6. MayBeFull' <=> MayBeFull
    BY <2>1 DEF MayBeFull
  <2>7. CudaTypeOK'
    BY <2>1, <2>3 DEF CudaInv, CudaTypeOK
  <2> QED
    BY <2>1, <2>5, <2>6, <2>7 DEF CudaInv, IsSettled, SizesHoldWholeRequests
<1> QED
  BY <1>2, <1>3

LEMMA PostInitSizesInv ==
    ASSUME CudagraphAssumption, CudaInv, NEW list \in SizeLists, PostInitSizes(list) PROVE CudaInv'
<1> DEFINE n == Len(list)
           top == Max(Range(list))
<1>1. list \in Seq(Nat \ {0}) /\ list # << >>
  BY DEF CudagraphAssumption
<1>2. n \in Nat \ {0} /\ list \in [1 .. n -> Nat \ {0}]
  BY <1>1
<1> HIDE DEF n
<1>3. list \in [1 .. n -> Int] /\ n \in Nat
  BY <1>2
<1>4. Sorted(list) \in Seq(Nat \ {0})
  <2>1. Sorted(list) \in [1 .. n -> Int] /\ Range(Sorted(list)) = Range(list)
    BY <1>3, SortedKeeps
  <2>2. \A i \in 1 .. n : Sorted(list)[i] \in Range(list)
    BY <2>1 DEF Range
  <2>3. Range(list) \subseteq Nat \ {0}
    BY <1>2 DEF Range
  <2>4. Sorted(list) \in [1 .. n -> Nat \ {0}]
    BY <2>1, <2>2, <2>3
  <2> QED
    BY <1>2, <2>4
<1>5. top \in Nat
  <2>1. PICK m \in 1 .. n : \A i \in 1 .. n : list[i] <= list[m]
    BY <1>2, <1>3, LargestListed
  <2>2. list[m] \in Range(list) /\ Range(list) \in SUBSET Nat /\ list[m] \in Nat
    BY <1>2 DEF Range
  <2>3. \A x \in Range(list) : x <= list[m]
    BY <1>2, <2>1 DEF Range
  <2> QED
    BY <2>2, <2>3, MaxOfBounded
<1>6. /\ stage = "split" /\ stage' = "sized" /\ runner' = runner
      /\ config' = [config EXCEPT !.sizes = Sorted(list), !.maxSize = top]
      /\ asked' = [asked EXCEPT !.maxSize = top]
  BY DEF PostInitSizes
<1> HIDE DEF top
<1>7. config \in ConfigSet /\ asked \in ConfigSet
  BY DEF CudaInv, CudaTypeOK
<1>8. /\ config' \in ConfigSet /\ config'.maxSize = top /\ config'.mode = config.mode
      /\ config'.passes = config.passes
  BY <1>4, <1>5, <1>6, <1>7 DEF ConfigSet
<1>9. /\ asked' \in ConfigSet /\ asked'.maxSize = top /\ asked'.mode = asked.mode
      /\ asked'.passes = asked.passes
  BY <1>5, <1>6, <1>7 DEF ConfigSet
<1>10. MayBeFull' <=> MayBeFull
  BY <1>9 DEF MayBeFull
<1>11. CudaTypeOK'
  BY <1>6, <1>8, <1>9 DEF CudaInv, CudaTypeOK
<1> QED
  BY <1>6, <1>8, <1>9, <1>10, <1>11 DEF CudaInv, IsSettled, SizesHoldWholeRequests

\* The first resolution.
LEMMA ProfileInv ==
    ASSUME CudaInv, NEW r \in RunnerSet, NEW enough \in BOOLEAN, Resolve(r, enough),
           stage = "sized", stage' = "profiled"
    PROVE  CudaInv'
<1> DEFINE m == Resolved(config.mode, config, r)
           a == Adjusted(config, r)
<1>1. /\ config \in ConfigSet /\ asked \in ConfigSet /\ config.mode \in Modes
      /\ ~MayBeFull => config.mode \in {"PIECEWISE", "NONE"}
      /\ config.maxSize = asked.maxSize
  BY DEF CudaInv, CudaTypeOK, ConfigSet
<1>2. /\ ~ResolveFails(r, enough) /\ runner' = r /\ asked' = asked
      /\ config' = IF config.mode = "NONE" THEN config
                    ELSE [IF Adjusts(m, r) THEN a ELSE config EXCEPT !.mode = m]
  BY DEF Resolve, Raise
<1>3. MayBeFull' <=> MayBeFull
  BY <1>2 DEF MayBeFull
<1>4. CASE config.mode = "NONE"
  <2>1. config' = config /\ IsSupported("NONE", r) /\ ~Adjusts("NONE", r)
    BY <1>2, <1>4 DEF IsSupported, HasFull, MixedMode, DecodeMode, Adjusts
  <2> QED
    BY <1>1, <1>2, <1>3, <1>4, <2>1
       DEF CudaInv, CudaTypeOK, IsSettled, SizesHoldWholeRequests
<1>5. CASE config.mode # "NONE"
  <2>1. m \in Modes /\ IsSupported(m, r)
    BY <1>1, ResolvedIsSupported
  <2>2. ~MayBeFull => m \in {"PIECEWISE", "NONE"}
    <3>1. Resolved("PIECEWISE", config, r) = "PIECEWISE"
      BY DEF Resolved, AfterMixedCheck, AfterDecodeCheck, AfterDraftCheck, MixedMode, DecodeMode
    <3> QED
      BY <1>1, <1>5, <3>1
  <2>3. CASE ~Adjusts(m, r)
    <3>1. config' = [config EXCEPT !.mode = m]
      BY <1>2, <1>5, <2>3
    <3>2. config' \in ConfigSet /\ config'.mode = m
      BY <1>1, <2>1, <3>1 DEF ConfigSet
    <3> QED
      BY <1>2, <1>3, <2>1, <2>2, <2>3, <3>2
         DEF CudaInv, CudaTypeOK, IsSettled, SizesHoldWholeRequests
  <2>4. CASE Adjusts(m, r)
    <3> DEFINE k == MultipleOf(config, r)
               n == Cardinality(Rounded(config, r))
    <3>1. CanAdjust(config, r)
      BY <1>2, <1>5, <2>4 DEF ResolveFails
    <3>2. Rounded(config, r) # {} /\ k % r.queryLen = 0
      BY <3>1 DEF CanAdjust
    <3>3. config' = [a EXCEPT !.mode = m]
      BY <1>2, <1>5, <2>4
    <3>4. /\ a \in ConfigSet /\ n \in Nat \ {0}
          /\ a.sizes \in [1 .. n -> Nat \ {0}] /\ Range(a.sizes) = Rounded(config, r)
          /\ \A i, j \in 1 .. n : i < j => a.sizes[i] < a.sizes[j]
          /\ a.maxSize = a.sizes[n] /\ a.sizes[n] <= config.maxSize
      BY <1>1, <3>2, AdjustedSizes
    <3>5. MultipleOf([a EXCEPT !.mode = m], r) = k /\ Rounded([a EXCEPT !.mode = m], r) = Rounded(config, r)
          /\ Adjusted([a EXCEPT !.mode = m], r) = [a EXCEPT !.mode = m]
      BY <1>1, <3>2, AdjustedStays
    <3>6. a.passes = config.passes
      BY <1>1 DEF Adjusted, ConfigSet
    <3> HIDE DEF m, a, k, n
    <3>7. /\ config' \in ConfigSet /\ config'.mode = m /\ config'.sizes = a.sizes
          /\ config'.maxSize = a.maxSize /\ config'.passes = config.passes
      BY <2>1, <3>3, <3>4, <3>6 DEF ConfigSet
    <3>8. CanAdjust(config', r) /\ Adjusted(config', r) = config'
      BY <3>1, <3>3, <3>5, <3>7 DEF CanAdjust, k
    <3>9. r.queryLen \in Nat \ {0} /\ k \in Nat \ {0}
      BY <1>1, MultipleOfType DEF RunnerSet, k
    <3>10. \A x \in Rounded(config, r) : x \in Nat /\ x % r.queryLen = 0
      BY <1>1, <3>2, <3>9, RoundedSizes, DivisorOfDivisor DEF k
    <3>11. \A i \in 1 .. n : a.sizes[i] % r.queryLen = 0
      BY <3>4, <3>10 DEF Range
    <3>12. SizesHoldWholeRequests'
      <4>1. DOMAIN a.sizes = 1 .. n /\ Len(a.sizes) = n /\ a.sizes # << >>
        BY <3>4
      <4>2. \A i \in 2 .. n : a.sizes[i - 1] < a.sizes[i]
        BY <3>4
      <4> QED
        BY <1>1, <1>2, <3>4, <3>7, <3>11, <4>1, <4>2 DEF SizesHoldWholeRequests
    <3> QED
      BY <1>2, <1>3, <2>1, <2>2, <3>7, <3>8, <3>12 DEF CudaInv, CudaTypeOK, IsSettled, m
  <2> QED
    BY <2>3, <2>4
<1> QED
  BY <1>4, <1>5

\* The second resolution leaves what the first one left.
LEMMA ResolvedAgain ==
    ASSUME CudaInv, NEW r, NEW enough \in BOOLEAN, Resolve(r, enough), stage = "profiled"
    PROVE  /\ config' = config /\ asked' = asked
           /\ stage' = "raised" \/ (stage' = "resolved" /\ runner' = runner)
<1> DEFINE m == Resolved(config.mode, config, r)
<1>1. /\ config \in ConfigSet /\ config.mode \in Modes /\ runner \in RunnerSet
      /\ IsSupported(config.mode, runner)
      /\ Adjusts(config.mode, runner) => Adjusted(config, runner) = config
  BY DEF CudaInv, CudaTypeOK, IsSettled, ConfigSet
<1>2. r = runner
  BY DEF Resolve
<1>3. m = config.mode
  BY <1>1, <1>2, SupportedStays
<1>4. [config EXCEPT !.mode = config.mode] = config
  BY <1>1 DEF ConfigSet
<1>5. CASE Raise
  BY <1>5 DEF Raise
<1>6. CASE ~Raise
  <2>1. /\ runner' = r /\ stage' = "resolved" /\ asked' = asked
        /\ config' = IF config.mode = "NONE" THEN config
                     ELSE [IF Adjusts(m, r) THEN Adjusted(config, r) ELSE config EXCEPT !.mode = m]
    BY <1>6 DEF Resolve
  <2> HIDE DEF m
  <2>2. config' = config
    BY <1>1, <1>2, <1>3, <1>4, <2>1
  <2> QED
    BY <1>2, <2>1, <2>2
<1> QED
  BY <1>5, <1>6

LEMMA ResolveInv ==
    ASSUME CudagraphAssumption, CudaInv, NEW r \in Runners, NEW enough \in BOOLEAN, Resolve(r, enough)
    PROVE  CudaInv'
<1>1. r \in RunnerSet
  BY DEF Runners, RunnerSet, CudagraphAssumption
<1>2. CASE stage = "sized"
  <2>1. CASE Raise
    BY <2>1, RaiseInv
  <2>2. CASE ~Raise
    <3>1. stage' = "profiled"
      BY <1>2, <2>2 DEF Resolve
    <3> QED
      BY <1>1, <1>2, <3>1, ProfileInv
  <2> QED
    BY <2>1, <2>2
<1>3. CASE stage = "profiled"
  <2>1. CASE Raise
    BY <2>1, RaiseInv
  <2>2. CASE ~Raise
    <3>1. /\ config' = config /\ asked' = asked /\ stage' = "resolved" /\ runner' = runner
      BY <1>3, <2>2, ResolvedAgain DEF Resolve
    <3>2. CudaTypeOK' /\ IsSettled'
      BY <1>3, <3>1 DEF CudaInv, CudaTypeOK, IsSettled
    <3>3. SizesHoldWholeRequests'
      BY <1>3, <3>1 DEF CudaInv, SizesHoldWholeRequests
    <3> QED
      BY <3>1, <3>2, <3>3 DEF CudaInv, MayBeFull
  <2> QED
    BY <2>1, <2>2
<1> QED
  BY <1>2, <1>3 DEF Resolve

LEMMA CudaNextInv ==
    ASSUME CudagraphAssumption, CudaInv, [CudagraphNext]_cudagraphVars PROVE CudaInv'
<1>1. CASE UNCHANGED cudagraphVars
  BY <1>1 DEF cudagraphVars, CudaInv, CudaTypeOK, IsSettled, SizesHoldWholeRequests, MayBeFull
<1> QED
  BY <1>1, AskForInv, SetSplittingOpsInv, PostInitSizesInv, ResolveInv DEF CudagraphNext

LEMMA CudagraphInvariant == CudagraphSpec => []CudaInv
<1>1. CudagraphInit => CudaInv
  BY CudaInitInv
<1>2. CudaInv /\ [CudagraphNext]_cudagraphVars => CudaInv'
  BY CudagraphAssumption, CudaNextInv
<1> QED
  BY <1>1, <1>2, PTL DEF CudagraphSpec

\* The graph of the model is split at its attention.
IsSplit(c) == Contain(c, "attention") \/ (c.compiled /\ c.partition)

\* No step before the resolution brings piecewise graphs in, and the resolution does so only
\* for a graph that is split.
SplitInv ==
    /\ stage \in {"unset", "asked", "split", "sized"} =>
         (HasPiecewise(config.mode) => HasPiecewise(asked.mode))
    /\ stage \in {"profiled", "resolved"} =>
         (HasPiecewise(config.mode) /\ ~HasPiecewise(asked.mode) => IsSplit(config))

LEMMA ChosenNotPiecewise ==
    ASSUME NEW c \in ConfigSet, HasPiecewise(ForSequenceParallelism(ChosenSplits(c)).mode)
    PROVE  HasPiecewise(c.mode)
<1> DEFINE e == ChosenSplits(c)
<1>1. \A b \in ConfigSet, m \in Modes, o \in SUBSET {"attention", "cache", "other"} : With(b, m, o).mode = m
  BY DEF With, ConfigSet
<1>2. e \in ConfigSet /\ (HasPiecewise(e.mode) => HasPiecewise(c.mode))
  <2>1. c.mode \in Modes /\ WithoutSplits(c.mode) \in Modes /\ "FULL" \in Modes
    BY DEF ConfigSet, Modes, WithoutSplits
  <2>2. \A b \in ConfigSet, m \in Modes, o \in SUBSET {"attention", "cache", "other"} :
          With(b, m, o) \in ConfigSet
    BY DEF With, ConfigSet
  <2>3. CASE "attn_quant" \in c.passes /\ ~c.partition
    BY <1>1, <2>1, <2>2, <2>3 DEF ChosenSplits, ForAttnFusion, HasPiecewise
  <2>4. CASE ~("attn_quant" \in c.passes /\ ~c.partition) /\ ~c.splitting.given
    <3> DEFINE b == [c EXCEPT !.passes = IF c.partition THEN @ ELSE @ \ {"rope_kvcache"}]
               o == {"attention"} \cup IF c.partition THEN {} ELSE {"cache"}
    <3>1. b \in ConfigSet
      BY DEF ConfigSet
    <3>2. e = With(b, c.mode, o) /\ o \in SUBSET {"attention", "cache", "other"}
      BY <2>4 DEF ChosenSplits, DefaultSplits
    <3> HIDE DEF b, o
    <3> QED
      BY <1>1, <2>1, <2>2, <3>1, <3>2
  <2>5. CASE ~("attn_quant" \in c.passes /\ ~c.partition) /\ c.splitting.given
    <3>1. HasPiecewise(WithoutSplits(c.mode)) => HasPiecewise(c.mode)
      BY DEF HasPiecewise, WithoutSplits
    <3>2. e = IF c.splitting.ops = {} THEN With(c, WithoutSplits(c.mode), {}) ELSE c
      BY <2>5 DEF ChosenSplits
    <3> QED
      BY <1>1, <2>1, <2>2, <3>1, <3>2
  <2> QED
    BY <2>3, <2>4, <2>5
<1> HIDE DEF e
<1>3. CASE ForSequenceParallelism(e) = e
  BY <1>2, <1>3 DEF e
<1>4. CASE ForSequenceParallelism(e) # e
  <2>1. ForSequenceParallelism(e) = With(e, IF HasPiecewise(e.mode) THEN "FULL" ELSE e.mode, {})
    BY <1>4 DEF ForSequenceParallelism
  <2>2. (IF HasPiecewise(e.mode) THEN "FULL" ELSE e.mode) \in Modes
    BY <1>2 DEF ConfigSet, Modes
  <2>3. ForSequenceParallelism(e).mode = IF HasPiecewise(e.mode) THEN "FULL" ELSE e.mode
    BY <1>1, <1>2, <2>1, <2>2
  <2>4. ~HasPiecewise("FULL")
    BY DEF HasPiecewise
  <2> QED
    BY <1>2, <2>3, <2>4 DEF e
<1> QED
  BY <1>3, <1>4

LEMMA ResolvedIsSplit ==
    ASSUME NEW m, NEW c, NEW r, HasPiecewise(Resolved(m, c, r))
    PROVE  HasPiecewise(m) \/ IsSplit(c)
BY DEF Resolved, AfterMixedCheck, AfterDecodeCheck, AfterDraftCheck, HasPiecewise, IsSplit,
       MixedMode, DecodeMode

LEMMA SplitNext ==
    ASSUME CudaInv, SplitInv, [CudagraphNext]_cudagraphVars PROVE SplitInv'
<1>1. config \in ConfigSet /\ asked \in ConfigSet
  BY DEF CudaInv, CudaTypeOK
<1>2. CASE UNCHANGED cudagraphVars
  BY <1>2 DEF cudagraphVars, SplitInv
<1>3. CASE \E c \in Configs : AskFor(c)
  BY <1>3 DEF AskFor, SplitInv
<1>4. CASE Raise
  BY <1>4 DEF Raise, SplitInv
<1>5. ASSUME NEW deepep \in BOOLEAN, SetSplittingOps(deepep), ~Raise
      PROVE  SplitInv'
  <2> DEFINE d == ForSequenceParallelism(ChosenSplits(config))
  <2>1. /\ stage = "asked" /\ asked' = asked /\ stage' = "split"
        /\ config' \in {[config EXCEPT !.splitting.given = TRUE], d, [d EXCEPT !.mode = "NONE"]}
    BY <1>5 DEF SetSplittingOps
  <2>2. d \in ConfigSet /\ (HasPiecewise(d.mode) => HasPiecewise(config.mode))
    BY <1>1, ChosenConfig, ChosenNotPiecewise
  <2> HIDE DEF d
  <2>3. config'.mode \in {config.mode, d.mode, "NONE"}
    BY <1>1, <2>1, <2>2 DEF ConfigSet
  <2> QED
    BY <2>1, <2>2, <2>3 DEF SplitInv, HasPiecewise
<1>6. ASSUME NEW list \in SizeLists, PostInitSizes(list)
      PROVE  SplitInv'
  <2>1. /\ stage = "split" /\ stage' = "sized" /\ config'.mode = config.mode /\ asked'.mode = asked.mode
    BY <1>1, <1>6 DEF PostInitSizes, ConfigSet
  <2> QED
    BY <2>1 DEF SplitInv
<1>7. ASSUME NEW r \in Runners, NEW enough \in BOOLEAN, Resolve(r, enough), ~Raise
      PROVE  SplitInv'
  <2> DEFINE m == Resolved(config.mode, config, r)
             sized == IF Adjusts(m, r) THEN Adjusted(config, r) ELSE config
  <2>1. CASE stage = "profiled"
    BY <1>7, <2>1, ResolvedAgain DEF SplitInv
  <2>2. CASE stage = "sized"
    <3>1. /\ asked' = asked /\ stage' = "profiled"
          /\ config' = IF config.mode = "NONE" THEN config ELSE [sized EXCEPT !.mode = m]
      BY <1>7, <2>2 DEF Resolve
    <3>2. /\ [sized EXCEPT !.mode = m].mode = m
          /\ [sized EXCEPT !.mode = m].splitting = config.splitting
          /\ [sized EXCEPT !.mode = m].compiled = config.compiled
          /\ [sized EXCEPT !.mode = m].partition = config.partition
      BY <1>1 DEF Adjusted, ConfigSet
    <3>3. HasPiecewise(m) => HasPiecewise(config.mode) \/ IsSplit(config)
      BY ResolvedIsSplit
    <3> HIDE DEF m, sized
    <3>4. CASE config.mode = "NONE"
      BY <3>1, <3>4 DEF SplitInv, HasPiecewise
    <3>5. CASE config.mode # "NONE"
      <4>1. config'.mode = m /\ (IsSplit(config') <=> IsSplit(config))
        BY <3>1, <3>2, <3>5 DEF IsSplit, Contain
      <4> QED
        BY <2>2, <3>1, <3>3, <4>1 DEF SplitInv
    <3> QED
      BY <3>4, <3>5
  <2> QED
    BY <1>7, <2>1, <2>2 DEF Resolve
<1> QED
  BY <1>2, <1>3, <1>4, <1>5, <1>6, <1>7 DEF CudagraphNext

\* Whatever was asked for and whatever backend, rows of a request and ranks there are: no
\* downgrade leaves a graph that the attention backend cannot run, and piecewise graphs that
\* nobody asked for are made only of a model that is split at its attention
\* (compilation.py:1396-1478): GraphsAreSupported.
THEOREM GraphsStaySupported == CudagraphSpec => []GraphsAreSupported
<1>1. CudagraphInit => SplitInv
  BY DEF CudagraphInit, SplitInv
<1>2. CudaInv /\ SplitInv /\ [CudagraphNext]_cudagraphVars => SplitInv'
  BY SplitNext
<1>3. CudaInv /\ SplitInv => GraphsAreSupported
  BY DEF CudaInv, IsSettled, IsSupported, SplitInv, IsSplit, GraphsAreSupported
<1> QED
  BY <1>1, <1>2, <1>3, CudagraphInvariant, PTL DEF CudagraphSpec

\* Full decode graphs of the old runner are captured for whole requests, in rising sizes
\* none of which is larger than asked for, from any list of sizes
\* (compilation.py:1526-1571): SizesHoldWholeRequests.
THEOREM SizesStayWhole == CudagraphSpec => []SizesHoldWholeRequests
<1>1. CudaInv => SizesHoldWholeRequests
  BY DEF CudaInv
<1> QED
  BY <1>1, CudagraphInvariant, PTL

\* Asked for piecewise graphs, and for no pass that wants the whole graph, vLLM captures
\* no full graph (compilation.py:1192-1235; vllm_ple_mmap.py:22-23):
\* PiecewiseStaysPiecewise.
THEOREM StaysPiecewise == CudagraphSpec => []PiecewiseStaysPiecewise
<1>1. CudaInv => PiecewiseStaysPiecewise
  BY DEF CudaInv, MayBeFull, PiecewiseStaysPiecewise, HasFull, DecodeMode
<1> QED
  BY <1>1, CudagraphInvariant, PTL

\* Serving captures the graphs that profiling measured: the second resolution, of the
\* configuration that the first one left, changes nothing (compilation.py:1376-1524):
\* ServesWhatWasProfiled.
THEOREM ServesTheProfiled == CudagraphSpec => ServesWhatWasProfiled
<1>1. ASSUME CudaInv, [CudagraphNext]_cudagraphVars
      PROVE  [stage = "profiled" => config' = config]_cudagraphVars
  <2> SUFFICES ASSUME stage = "profiled", CudagraphNext PROVE config' = config
    BY <1>1 DEF cudagraphVars
  <2>1. PICK r \in Runners, enough \in BOOLEAN : Resolve(r, enough)
    BY DEF CudagraphNext, AskFor, SetSplittingOps, PostInitSizes
  <2> QED
    BY <1>1, <2>1, ResolvedAgain
<1> QED
  BY <1>1, CudagraphInvariant, PTL DEF CudagraphSpec, ServesWhatWasProfiled

-----------------------------------------------------------------------------
(***************************************************************************)
(* Blocks and pages.                                                       *)
(***************************************************************************)
CacheSet ==
    [stage : {"given", "updated"}, head : HeadSizes, quant : {"none", "fp8", "nvfp4"},
     kernel : KernelBlocks, asked : Nat \ {0}, block : Nat \ {0}, mamba : Nat, chunk : Nat \ {0},
     indexer : IndexerAligns, mode : {"none", "align", "all"}, skipLayers : BOOLEAN,
     mambaBlock : Nat, mambaPadded : Nat, skipPadded : Nat]

TokenPage(c) == PageBytes(Customized(Spec1(c.head, c.quant)))

\* A spec that is customized twice is what it is customized once; rows are not empty.
LEMMA CustomizedOnce ==
    ASSUME HybridAssumption, NEW c \in CacheSet
    PROVE  /\ RunnerPage(c) = TokenPage(c)
           /\ TokenPage(c) \in Nat \ {0} /\ SkipPage(c) \in Nat \ {0}
<1>1. PICK n \in 1 .. 64 : c.head = 16 * n
  BY DEF HybridAssumption, CacheSet
<1>2. FullDim(c.head) = 9 * n
  <2>1. (16 * n) \div 2 = 8 * n /\ (16 * n) \div 16 = n
    OBVIOUS
  <2> QED
    BY <1>1, <2>1 DEF FullDim
<1> DEFINE s == Spec1(c.head, c.quant)
<1>3. /\ s.head = 16 * n /\ s.quant = c.quant /\ s.slots = 1 /\ s.content = 0
      /\ s.bytes = IF c.quant = "none" THEN 2 ELSE 1
  BY <1>1 DEF Spec1
<1>4. CASE c.quant = "nvfp4"
  <2>1. Customized(s) = [s EXCEPT !.slots = 2, !.content = FullDim(s.head) * s.bytes]
    BY <1>3, <1>4 DEF Customized
  <2>2. Customized(s).slots = 2 /\ Customized(s).content = 9 * n
    <3>1. FullDim(s.head) * s.bytes = 9 * n
      BY <1>1, <1>2, <1>3, <1>4
    <3>2. \A d : /\ [s EXCEPT !.slots = 2, !.content = d].slots = 2
                /\ [s EXCEPT !.slots = 2, !.content = d].content = d
      BY DEF Spec1
    <3> HIDE DEF s
    <3> QED
      BY <2>1, <3>1, <3>2
  <2> HIDE DEF s
  <2>3. Customized(Customized(s)) = Customized(s)
    BY <2>2 DEF Customized
  <2>4. PageBytes(Customized(s)) = 18 * n
    BY <2>2 DEF PageBytes
  <2>5. SkipPage(c) = 64 * n
    <3>1. Customized(Spec1(c.head, "none")) = Spec1(c.head, "none")
      BY DEF Customized, Spec1
    <3> QED
      BY <1>1, <3>1 DEF SkipPage, PageBytes, Spec1
  <2> QED
    BY <2>3, <2>4, <2>5 DEF RunnerPage, TokenPage, s
<1>5. CASE c.quant # "nvfp4"
  <2>1. Customized(s) = s
    BY <1>3, <1>5 DEF Customized
  <2>2. PageBytes(s) = 32 * n * s.bytes
    BY <1>3 DEF PageBytes
  <2>3. SkipPage(c) = 64 * n
    <3>1. Customized(Spec1(c.head, "none")) = Spec1(c.head, "none")
      BY DEF Customized, Spec1
    <3> QED
      BY <1>1, <3>1 DEF SkipPage, PageBytes, Spec1
  <2> QED
    BY <1>3, <2>1, <2>2, <2>3 DEF RunnerPage, TokenPage
<1> QED
  BY <1>4, <1>5

\* The least number of b's that reach a.
LEMMA CeilDivCovers ==
    ASSUME NEW a \in Nat, NEW b \in Nat \ {0}
    PROVE  CeilDiv(a, b) \in Nat /\ a <= CeilDiv(a, b) * b
BY RoundedUp DEF CeilDiv

LEMMA LcmDivides ==
    ASSUME NEW a \in Nat \ {0}, NEW b \in Nat \ {0}
    PROVE  Lcm(a, b) \in Nat \ {0} /\ Lcm(a, b) % b = 0
<1> DEFINE S == {m \in 1 .. a * b : m % a = 0 /\ m % b = 0}
<1>1. a * b \in Nat \ {0} /\ (a * b) % b = 0
  OBVIOUS
<1>2. (a * b) % a = 0
  <2>1. a * b = b * a /\ (b * a) % a = 0
    OBVIOUS
  <2> QED
    BY <2>1
<1>3. S \in SUBSET Nat /\ a * b \in S
  BY <1>1, <1>2
<1>4. Min(S) \in S
  <2> HIDE DEF S
  <2> QED
    BY <1>3, MinOfSome
<1>5. Lcm(a, b) = Min(S)
  BY DEF Lcm
<1>6. \A m \in S : m \in Nat \ {0} /\ m % b = 0
  BY <1>1
<1> QED
  BY <1>4, <1>5, <1>6

\* A multiple that is not 0 is not less.
LEMMA MultipleReaches ==
    ASSUME NEW x \in Nat \ {0}, NEW d \in Nat \ {0}, x % d = 0
    PROVE  d <= x
OBVIOUS

\* Blocks that reach a page: at least one unit of them, and whole units.
LEMMA BlocksForCovers ==
    ASSUME NEW page \in Nat \ {0}, NEW unit \in Nat \ {0}, NEW token \in Nat \ {0}
    PROVE  /\ BlocksFor(page, unit, token) \in Nat \ {0}
           /\ BlocksFor(page, unit, token) % unit = 0 /\ unit <= BlocksFor(page, unit, token)
           /\ page <= BlocksFor(page, unit, token) * token
<1> DEFINE q == CeilDiv(page, unit * token)
<1>1. unit * token \in Nat \ {0}
  OBVIOUS
<1>2. q \in Nat /\ page <= q * (unit * token)
  BY <1>1, CeilDivCovers
<1> HIDE DEF q
<1>3. unit * q \in Nat /\ unit * q = q * unit
  BY <1>2
<1>4. (unit * q) * token = q * (unit * token)
  BY <1>2
<1>5. (unit * q) % unit = 0
  BY <1>2, <1>3, Multiple
<1>6. unit * q # 0
  <2>1. CASE unit * q = 0
    <3>1. (unit * q) * token = 0
      BY <2>1
    <3> QED
      BY <1>2, <1>4, <3>1
  <2> QED
    BY <2>1
<1>7. unit <= unit * q
  BY <1>3, <1>5, <1>6, MultipleReaches
<1> QED
  BY <1>2, <1>3, <1>4, <1>5, <1>6, <1>7 DEF BlocksFor, q

\* So do blocks rounded up to what the indexer wants, and whole chunks.
LEMMA RoundedBlocksCover ==
    ASSUME NEW n \in Nat, NEW a \in Nat \ {0}, NEW kernel \in Nat \ {0}, a % kernel = 0,
           NEW page \in Nat, NEW token \in Nat \ {0}, page <= n * token
    PROVE  /\ a * CeilDiv(n, a) \in Nat /\ (a * CeilDiv(n, a)) % kernel = 0
           /\ n <= a * CeilDiv(n, a) /\ page <= (a * CeilDiv(n, a)) * token
<1> DEFINE q == CeilDiv(n, a)
<1>1. q \in Nat /\ n <= q * a
  BY CeilDivCovers
<1>2. PICK h \in Int : a = h * kernel
  BY Divided
<1> HIDE DEF q
<1>3. a * q \in Nat /\ n <= a * q /\ a * q = (h * q) * kernel /\ h * q \in Int
  BY <1>1, <1>2
<1>4. (a * q) % kernel = 0
  BY <1>3, Multiple
<1>5. n * token <= (a * q) * token /\ n * token \in Int /\ (a * q) * token \in Int
  BY <1>3, MultiplesInOrder
<1> QED
  BY <1>3, <1>4, <1>5 DEF q

LEMMA ChunksCover ==
    ASSUME NEW chunk \in Nat \ {0}, NEW unit \in Nat \ {0},
           NEW page \in Nat \ {0}, NEW token \in Nat \ {0}
    PROVE  LET w == Lcm(chunk, unit) * CeilDiv(CeilDiv(page, token), Lcm(chunk, unit))
           IN  w \in Nat \ {0} /\ w % unit = 0 /\ unit <= w /\ page <= w * token
<1> DEFINE l == Lcm(chunk, unit)
           rows == CeilDiv(page, token)
           w == l * CeilDiv(rows, l)
<1>1. l \in Nat \ {0} /\ l % unit = 0
  BY LcmDivides
<1>2. rows \in Nat /\ page <= rows * token
  BY CeilDivCovers
<1> HIDE DEF l, rows
<1>3. w \in Nat /\ w % unit = 0 /\ page <= w * token
  BY <1>1, <1>2, RoundedBlocksCover
<1> HIDE DEF w
<1>4. w # 0
  <2>1. CASE w = 0
    <3>1. w * token = 0
      BY <2>1
    <3> QED
      BY <1>3, <3>1
  <2> QED
    BY <2>1
<1>5. unit <= w
  BY <1>3, <1>4, MultipleReaches
<1> QED
  BY <1>3, <1>4, <1>5 DEF w, l, rows

\* What the alignment of the Mamba layers leaves.
Aligned(c) ==
    /\ c \in CacheSet /\ Addressable(c) /\ c.skipPadded = 0
    /\ c.mamba # 0 =>
         /\ c.kernel <= c.block
         /\ c.mamba <= c.block * TokenPage(c)
         /\ c.mambaPadded = (IF c.block * TokenPage(c) = c.mamba THEN 0 ELSE c.block * TokenPage(c))
         /\ c.mode = "align" => c.mambaBlock = c.block
    /\ c.mamba = 0 => c.mambaPadded = 0 /\ c.block = c.asked

\* A given block that is no multiple of the kernel's is the user's.
LEMMA GivenAddressable ==
    ASSUME NEW k \in Nat \ {0}, NEW b \in Nat \ {0} PROVE b % k = 0 \/ (b % k # 0 /\ b % b = 0)
<1>1. b % b = 0
  BY Multiple
<1> QED
  BY <1>1

LEMMA AlignHybridAligns ==
    ASSUME HybridAssumption, NEW c \in CacheSet, c.block = c.asked,
           c.mambaPadded = 0, c.skipPadded = 0
    PROVE  Aligned(AlignHybrid(c)) /\ AlignHybrid(c).skipLayers = c.skipLayers
<1> DEFINE t == TokenPage(c)
           unit == Max({c.kernel, c.block})
           chunk == Lcm(c.chunk, unit)
           wide == CeilDiv(CeilDiv(c.mamba, t), chunk)
           n == BlocksFor(c.mamba, unit, t)
           wanted == IF c.mode = "all" THEN chunk * wide
                     ELSE IF c.indexer = 0 THEN n ELSE c.indexer * CeilDiv(n, c.indexer)
           block == Max({c.block, wanted})
           page == block * t
           state == CASE c.mode = "all" -> wanted [] c.mode = "align" -> block [] OTHER -> c.mambaBlock
           d == [c EXCEPT !.block = block, !.mambaBlock = state,
                          !.mambaPadded = IF page = c.mamba THEN c.mambaPadded ELSE page]
<1>1. /\ c.kernel \in Nat \ {0} /\ c.block \in Nat \ {0} /\ c.mamba \in Nat /\ c.chunk \in Nat \ {0}
      /\ c.indexer \in Nat /\ c.indexer % c.kernel = 0 /\ c.mambaBlock \in Nat
      /\ c.mode \in {"none", "align", "all"} /\ t \in Nat \ {0}
  BY CustomizedOnce DEF CacheSet, HybridAssumption
<1>2. unit \in {c.kernel, c.block} /\ c.kernel <= unit /\ c.block <= unit /\ unit \in Nat \ {0}
  BY <1>1, MaxOfTwo
<1>3. ASSUME c.mamba # 0
      PROVE  /\ wanted \in Nat \ {0} /\ unit <= wanted /\ c.mamba <= wanted * t
             /\ \/ wanted % unit = 0 /\ (c.indexer # 0 => c.mode = "all")
                \/ wanted % c.kernel = 0
  <2> DEFINE kernel == c.kernel
             mamba == c.mamba
             first == c.chunk
             indexer == c.indexer
  <2>1. /\ kernel \in Nat \ {0} /\ mamba \in Nat \ {0} /\ unit \in Nat \ {0}
        /\ first \in Nat \ {0} /\ indexer \in Nat /\ indexer % kernel = 0 /\ t \in Nat \ {0}
    BY <1>1, <1>2, <1>3
  <2>2. /\ chunk = Lcm(first, unit) /\ n = BlocksFor(mamba, unit, t)
        /\ wide = CeilDiv(CeilDiv(mamba, t), chunk)
    OBVIOUS
  <2>3. wanted = IF c.mode = "all" THEN chunk * wide
                 ELSE IF indexer = 0 THEN n ELSE indexer * CeilDiv(n, indexer)
    OBVIOUS
  <2>4. /\ wanted \in Nat \ {0} /\ unit <= wanted /\ mamba <= wanted * t
        /\ \/ wanted % unit = 0 /\ (indexer # 0 => c.mode = "all")
           \/ wanted % kernel = 0
    <3> HIDE DEF kernel, mamba, first, indexer, t, unit, chunk, wide, n, wanted
    <3>1. CASE c.mode = "all"
      <4> DEFINE w == Lcm(first, unit) * CeilDiv(CeilDiv(mamba, t), Lcm(first, unit))
      <4>1. w \in Nat \ {0} /\ w % unit = 0 /\ unit <= w /\ mamba <= w * t
        BY <2>1, ChunksCover
      <4>2. wanted = w
        BY <2>2, <2>3, <3>1
      <4> HIDE DEF w
      <4>3. wanted \in Nat \ {0} /\ wanted % unit = 0 /\ unit <= wanted /\ mamba <= wanted * t
        BY <4>1, <4>2, Zenon
      <4> QED
        BY <3>1, <4>3, Zenon
    <3>2. CASE c.mode # "all"
      <4>1. n \in Nat \ {0} /\ n % unit = 0 /\ unit <= n /\ mamba <= n * t
        BY <2>1, <2>2, BlocksForCovers
      <4>2. CASE indexer = 0
        BY <2>3, <3>2, <4>1, <4>2
      <4>3. CASE indexer # 0
        <5>1. /\ wanted \in Nat /\ wanted % kernel = 0 /\ n <= wanted /\ mamba <= wanted * t
          BY <2>1, <2>3, <3>2, <4>1, <4>3, RoundedBlocksCover
        <5> QED
          BY <2>1, <3>2, <4>1, <4>3, <5>1
      <4> QED
        BY <4>2, <4>3
    <3> QED
      BY <3>1, <3>2
  <2> QED
    BY <2>4
<1>4. CASE c.mamba = 0
  <2>1. AlignHybrid(c) = c
    BY <1>4 DEF AlignHybrid
  <2>2. Addressable(c)
    BY <1>1, <1>4, GivenAddressable DEF Addressable
  <2> QED
    BY <1>4, <2>1, <2>2 DEF Aligned
<1>5. CASE c.mamba # 0
  <2>1. AlignHybrid(c) = d
    BY <1>5 DEF AlignHybrid, TokenPage, Grown, CacheSet
  <2> HIDE DEF wanted, t, unit
  <2>2. block = wanted /\ block \in Nat \ {0} /\ c.kernel <= block
    <3>1. block \in {c.block, wanted} /\ c.block <= block /\ wanted <= block
      BY <1>1, <1>3, <1>5, MaxOfTwo
    <3> HIDE DEF block
    <3> QED
      BY <1>1, <1>2, <1>3, <1>5, <3>1
  <2> HIDE DEF block
  <2>3. \/ block % c.kernel = 0
        \/ /\ c.asked % c.kernel # 0 /\ block % c.asked = 0
           /\ c.kernel < c.asked /\ (c.indexer # 0 => c.mode = "all")
    <3> SUFFICES ASSUME block % c.kernel # 0
                 PROVE  /\ c.asked % c.kernel # 0 /\ block % c.asked = 0
                        /\ c.kernel < c.asked /\ (c.indexer # 0 => c.mode = "all")
      OBVIOUS
    <3>1. block % unit = 0 /\ (c.indexer # 0 => c.mode = "all")
      BY <1>3, <1>5, <2>2
    <3>2. unit = c.asked /\ unit # c.kernel /\ c.kernel < c.asked
      BY <1>1, <1>2, <3>1
    <3>3. c.asked % c.kernel # 0
      BY <1>1, <1>2, <2>2, <3>1, <3>2, DivisorOfDivisor
    <3> QED
      BY <3>1, <3>2, <3>3
  <2>4. page \in Nat \ {0} /\ c.mamba <= page
    <3>1. block * t \in Nat \ {0}
      BY <1>1, <2>2
    <3> QED
      BY <1>3, <1>5, <2>2, <3>1
  <2>5. state \in Nat /\ (c.mode = "align" => state = block)
    BY <1>1, <2>2
  <2> HIDE DEF state
  <2>6. d \in CacheSet
    BY <2>2, <2>4, <2>5 DEF CacheSet
  <2>7. /\ d.block = block /\ d.kernel = c.kernel /\ d.mamba = c.mamba /\ d.mode = c.mode
        /\ d.mambaBlock = state /\ d.head = c.head /\ d.quant = c.quant
        /\ d.mambaPadded = (IF page = c.mamba THEN 0 ELSE page)
        /\ d.skipPadded = 0 /\ d.skipLayers = c.skipLayers
        /\ d.asked = c.asked /\ d.indexer = c.indexer
    BY DEF CacheSet
  <2> HIDE DEF d
  <2>8. TokenPage(d) = t
    BY <2>7 DEF TokenPage, t
  <2>9. Addressable(d)
    BY <2>3, <2>7 DEF Addressable
  <2> QED
    BY <1>5, <2>1, <2>2, <2>4, <2>5, <2>6, <2>7, <2>8, <2>9 DEF Aligned
<1> QED
  BY <1>4, <1>5

\* What the alignment of the skipped layers adds.
Unified(c) ==
    /\ Addressable(c)
    /\ c.mamba <= c.block * TokenPage(c)
    /\ c.mamba # 0 =>
         \/ MambaPage(c) = c.block * TokenPage(c)
         \/ c.mambaPadded = 0 /\ c.skipPadded > c.mamba
    /\ c.skipLayers =>
         /\ SkippedPage(c) = c.block * TokenPage(c)
         /\ \/ SkippedPage(c) >= c.kernel * SkipPage(c)
            \/ c.skipPadded = 0 /\ c.block = c.asked /\ c.asked < c.kernel
    /\ c.mode = "align" /\ c.mamba # 0 =>
         \/ c.mambaBlock = c.block
         \/ c.skipPadded # 0 /\ c.mambaBlock < c.block

LEMMA AlignedUnified ==
    ASSUME HybridAssumption, NEW c, Aligned(c), c.skipLayers = FALSE
    PROVE  c \in CacheSet /\ Unified(c)
<1>1. /\ c.block \in Nat \ {0} /\ c.mamba \in Nat /\ c.mambaPadded \in Nat
      /\ TokenPage(c) \in Nat \ {0}
  BY CustomizedOnce DEF Aligned, CacheSet
<1>2. c.block * TokenPage(c) \in Nat
  BY <1>1
<1>3. c.mamba # 0 => MambaPage(c) = c.block * TokenPage(c)
  BY <1>1, <1>2 DEF MambaPage, Aligned
<1> QED
  BY <1>1, <1>2, <1>3 DEF Unified, Aligned

LEMMA AlignHeterogeneousUnifies ==
    ASSUME HybridAssumption, NEW c, Aligned(c)
    PROVE  AlignHeterogeneous(c) \in CacheSet /\ Unified(AlignHeterogeneous(c))
<1> DEFINE t == TokenPage(c)
           skip == SkipPage(c)
           unit == Max({c.kernel, c.block})
           required == Max({skip * c.kernel, c.mambaPadded})
           wanted == BlocksFor(required, unit, t)
           block == Max({c.block, wanted})
           shared == block * t
           d == [c EXCEPT !.block = block, !.skipPadded = shared,
                          !.mambaPadded = IF @ # 0 THEN shared ELSE 0]
<1>1. /\ c.kernel \in Nat \ {0} /\ c.block \in Nat \ {0} /\ c.mamba \in Nat
      /\ c.mambaPadded \in Nat /\ c.mambaBlock \in Nat /\ c.asked \in Nat \ {0}
      /\ Addressable(c) /\ c.skipPadded = 0 /\ (c.kernel <= c.block \/ c.block = c.asked)
      /\ t \in Nat \ {0} /\ skip \in Nat \ {0} /\ RunnerPage(c) = t
  BY CustomizedOnce DEF Aligned, CacheSet, HybridAssumption
<1>2. unit \in {c.kernel, c.block} /\ c.kernel <= unit /\ c.block <= unit /\ unit \in Nat \ {0}
  BY <1>1, MaxOfTwo
<1>3. CASE skip = t
  <2>1. AlignHeterogeneous(c) = c
    BY <1>3 DEF AlignHeterogeneous, TokenPage
  <2> DEFINE kernel == c.kernel
             old == c.block
  <2>2. kernel <= old => old * t >= kernel * t
    <3>1. kernel \in Nat /\ old \in Nat /\ t \in Nat
      BY <1>1
    <3> HIDE DEF kernel, old, t
    <3> QED
      BY <3>1, MultiplesInOrder
  <2>3. SkippedPage(c) = c.block * t
    BY <1>1, <1>3 DEF SkippedPage
  <2>4. c.mamba # 0 => MambaPage(c) = c.block * t
    BY <1>1 DEF MambaPage, Aligned
  <2>5. c.mamba <= c.block * t
    <3>1. c.block * t \in Nat
      BY <1>1
    <3> QED
      BY <1>1, <3>1 DEF Aligned
  <2>6. SkippedPage(c) >= c.kernel * skip \/ (c.block = c.asked /\ c.asked < c.kernel)
    BY <1>1, <1>3, <2>2, <2>3
  <2> QED
    BY <1>1, <1>3, <2>1, <2>3, <2>4, <2>5, <2>6 DEF Unified, Aligned
<1>4. CASE skip # t
  <2>1. AlignHeterogeneous(c) = d
    BY <1>4 DEF AlignHeterogeneous, TokenPage, Grown, Aligned, CacheSet
  <2> DEFINE kernel == c.kernel
             old == c.block
             padded == c.mambaPadded
  <2>2. /\ wanted \in Nat \ {0} /\ wanted % unit = 0 /\ unit <= wanted
        /\ skip * kernel <= wanted * t /\ padded <= wanted * t
    <3>1. /\ kernel \in Nat \ {0} /\ unit \in Nat \ {0} /\ padded \in Nat
          /\ t \in Nat \ {0} /\ skip \in Nat \ {0}
      BY <1>1, <1>2
    <3>2. required = Max({skip * kernel, padded}) /\ wanted = BlocksFor(required, unit, t)
      OBVIOUS
    <3> HIDE DEF kernel, old, padded, t, skip, unit, required, wanted
    <3>3. skip * kernel \in Nat \ {0}
      BY <3>1
    <3>4. required \in Nat \ {0} /\ skip * kernel <= required /\ padded <= required
      BY <3>1, <3>2, <3>3, MaxOfTwo
    <3>5. /\ wanted \in Nat \ {0} /\ wanted % unit = 0 /\ unit <= wanted /\ required <= wanted * t
      BY <3>1, <3>2, <3>4, BlocksForCovers
    <3>6. wanted * t \in Nat
      BY <3>1, <3>5
    <3> QED
      BY <3>1, <3>3, <3>4, <3>5, <3>6
  <2> HIDE DEF wanted, unit
  <2>3. block = wanted /\ block \in Nat \ {0} /\ old <= block
    <3>1. block \in {old, wanted} /\ old <= block /\ wanted <= block
      BY <1>1, <2>2, MaxOfTwo
    <3> HIDE DEF block
    <3> QED
      BY <1>1, <1>2, <2>2, <3>1
  <2>4. old \in Nat /\ kernel \in Nat \ {0} /\ t \in Nat \ {0} /\ skip \in Nat /\ padded \in Nat
    BY <1>1
  <2>5. shared \in Nat \ {0} /\ wanted * t <= shared /\ old * t <= shared
        /\ wanted * t \in Nat /\ old * t \in Nat /\ skip * kernel \in Nat
        /\ skip * kernel = kernel * skip
    <3> HIDE DEF kernel, old, t, skip, block, d, padded, unit, required
    <3>1. block * t \in Nat \ {0} /\ wanted * t \in Nat /\ old * t \in Nat
      <4>1. block \in Nat \ {0} /\ t \in Nat \ {0} /\ wanted \in Nat /\ old \in Nat
        BY <2>2, <2>3, <2>4
      <4> QED
        BY <4>1
    <3>2. skip * kernel \in Nat /\ skip * kernel = kernel * skip
      <4>1. skip \in Nat /\ kernel \in Nat
        BY <2>4
      <4> QED
        BY <4>1
    <3>3. wanted * t <= block * t /\ old * t <= block * t
      <4>1. block \in Nat /\ t \in Nat /\ wanted \in Nat /\ old \in Nat /\ wanted = block /\ old <= block
        BY <2>2, <2>3, <2>4
      <4> QED
        BY <4>1, MultiplesInOrder
    <3>4. shared = block * t
      OBVIOUS
    <3> HIDE DEF shared
    <3> QED
      BY <3>1, <3>2, <3>3, <3>4
  <2>6. \/ block % kernel = 0
        \/ /\ c.asked % kernel # 0 /\ block % c.asked = 0
           /\ c.mamba # 0 => kernel < c.asked /\ (c.indexer # 0 => c.mode = "all")
    <3> SUFFICES ASSUME block % kernel # 0
                 PROVE  /\ c.asked % kernel # 0 /\ block % c.asked = 0
                        /\ c.mamba # 0 => kernel < c.asked /\ (c.indexer # 0 => c.mode = "all")
      OBVIOUS
    <3>1. unit = old /\ block % old = 0
      BY <1>2, <2>2, <2>3
    <3>2. old % kernel # 0
      BY <1>1, <2>3, <3>1, DivisorOfDivisor
    <3>3. /\ c.asked % kernel # 0 /\ old % c.asked = 0
          /\ c.mamba # 0 => kernel < c.asked /\ (c.indexer # 0 => c.mode = "all")
      BY <1>1, <3>2 DEF Addressable
    <3>4. block % c.asked = 0
      BY <1>1, <2>3, <3>1, <3>3, DivisorOfDivisor
    <3> QED
      BY <3>3, <3>4
  <2>7. c.mamba <= shared
    BY <1>1, <2>5 DEF Aligned
  <2> HIDE DEF block, t, skip
  <2>8. d \in CacheSet
    BY <1>1, <2>3, <2>5, ZenonT(60) DEF CacheSet, Aligned
  <2>9. d.block = block /\ d.kernel = c.kernel /\ d.mamba = c.mamba /\ d.mode = c.mode
        /\ d.mambaBlock = c.mambaBlock /\ d.skipLayers = c.skipLayers /\ d.skipPadded = shared
        /\ d.mambaPadded = (IF padded # 0 THEN shared ELSE 0)
        /\ d.head = c.head /\ d.quant = c.quant /\ d.asked = c.asked /\ d.indexer = c.indexer
    BY DEF Aligned, CacheSet
  <2> HIDE DEF d
  <2>10. TokenPage(d) = t /\ SkipPage(d) = skip
    BY <2>9 DEF TokenPage, SkipPage, t, skip
  <2> HIDE DEF shared
  <2>11. SkippedPage(d) = shared
    BY <2>5, <2>9 DEF SkippedPage
  <2>12. padded # 0 => MambaPage(d) = shared
    BY <2>5, <2>9 DEF MambaPage
  <2>13. d.block * TokenPage(d) = shared
    BY <2>9, <2>10 DEF shared
  <2>14. c.mamba # 0 => (MambaPage(d) = shared \/ (d.mambaPadded = 0 /\ d.skipPadded > d.mamba))
    <3>1. CASE padded # 0
      BY <2>12, <3>1
    <3>2. CASE padded = 0 /\ c.mamba # 0
      <4>1. c.mamba = old * t
        BY <1>1, <2>4, <2>5, <3>2 DEF Aligned, t
      <4>2. d.mambaPadded = 0 /\ d.skipPadded = shared /\ d.mamba = c.mamba
        BY <2>9, <3>2
      <4>3. CASE shared = c.mamba
        <5>1. MambaPage(d) = c.mamba
          BY <4>2 DEF MambaPage
        <5> QED
          BY <4>3, <5>1
      <4>4. CASE shared # c.mamba
        <5>1. shared > c.mamba
          <6>1. shared \in Nat /\ c.mamba \in Nat
            BY <1>1, <2>5
          <6> QED
            BY <2>7, <4>4, <6>1
        <5> QED
          BY <4>2, <5>1
      <4> QED
        BY <4>3, <4>4
    <3> QED
      BY <3>1, <3>2
  <2>15. c.mode = "align" /\ c.mamba # 0 =>
           (d.mambaBlock = d.block \/ (d.skipPadded # 0 /\ d.mambaBlock < d.block))
    BY <1>1, <2>3, <2>5, <2>9 DEF Aligned
  <2>16. SkippedPage(d) >= d.kernel * SkipPage(d)
    BY <2>2, <2>4, <2>5, <2>9, <2>10, <2>11
  <2>17. Addressable(d)
    BY <2>6, <2>9 DEF Addressable
  <2> QED
    BY <2>1, <2>7, <2>9, <2>11, <2>13, <2>14, <2>15, <2>16, <2>17, <2>8 DEF Unified
<1> QED
  BY <1>3, <1>4

\* The inductive invariant: what a given configuration is, and what an updated one keeps.
HybridInv ==
    /\ cache.stage \in {"unset", "given", "updated"}
    /\ cache.stage = "unset" => cache = NoCache
    /\ cache.stage = "given" =>
         /\ cache \in CacheSet /\ cache.block = cache.asked
         /\ cache.mambaPadded = 0 /\ cache.skipPadded = 0
    /\ cache.stage = "updated" => cache \in CacheSet /\ Unified(cache)

LEMMA UpdatedStageUnified ==
    ASSUME NEW c \in CacheSet, Unified(c)
    PROVE  LET d == [c EXCEPT !.stage = "updated"]
           IN  d \in CacheSet /\ d.stage = "updated" /\ Unified(d)
<1> DEFINE d == [c EXCEPT !.stage = "updated"]
<1>1. d \in CacheSet /\ d.stage = "updated"
  BY DEF CacheSet
<1>2. /\ d.block = c.block /\ d.kernel = c.kernel /\ d.mamba = c.mamba /\ d.mode = c.mode
      /\ d.mambaBlock = c.mambaBlock /\ d.skipLayers = c.skipLayers /\ d.skipPadded = c.skipPadded
      /\ d.mambaPadded = c.mambaPadded /\ d.head = c.head /\ d.quant = c.quant
      /\ d.asked = c.asked /\ d.indexer = c.indexer
  BY DEF CacheSet
<1> HIDE DEF d
<1>3. /\ TokenPage(d) = TokenPage(c) /\ SkipPage(d) = SkipPage(c)
      /\ MambaPage(d) = MambaPage(c) /\ SkippedPage(d) = SkippedPage(c)
  BY <1>2 DEF TokenPage, SkipPage, MambaPage, SkippedPage
<1> QED
  BY <1>1, <1>2, <1>3 DEF Unified, Addressable, d

LEMMA HybridInvHolds == HybridSpec => []HybridInv
<1>1. HybridInit => HybridInv
  BY DEF HybridInit, HybridInv, NoCache
<1>2. HybridInv /\ [HybridNext]_cache => HybridInv'
  <2> SUFFICES ASSUME HybridInv, [HybridNext]_cache
               PROVE  HybridInv'
    OBVIOUS
  <2>1. ASSUME NEW c \in Configurations, NEW size \in GivenBlocks(c), Give(c, size)
        PROVE  HybridInv'
    <3> DEFINE d == [c EXCEPT !.asked = size, !.block = size]
    <3>1. size \in Nat \ {0}
      <4>1. CASE size \in UserBlocks
        BY <4>1, HybridAssumption DEF HybridAssumption
      <4>2. CASE size \in {factor * c.kernel : factor \in BlockFactors}
        <5>1. PICK factor \in BlockFactors : size = factor * c.kernel
          BY <4>2
        <5>2. factor \in Nat \ {0} /\ c.kernel \in Nat \ {0}
          BY HybridAssumption DEF Configurations, HybridAssumption
        <5> QED
          BY <5>1, <5>2
      <4> QED
        BY <4>1, <4>2 DEF GivenBlocks
    <3>2. d \in CacheSet
      <4>1. /\ c.mamba \in Nat /\ c.chunk \in Nat \ {0} /\ c.mambaBlock \in Nat
            /\ c.mambaPadded \in Nat /\ c.skipPadded \in Nat
        <5>1. /\ c.mamba \in MambaPages /\ c.chunk \in ChunkSizes /\ c.mambaBlock = 0
              /\ c.mambaPadded = 0 /\ c.skipPadded = 0
          BY DEF Configurations
        <5>2. MambaPages \subseteq Nat /\ ChunkSizes \subseteq Nat \ {0}
          BY HybridAssumption DEF HybridAssumption
        <5>3. c.mamba \in Nat /\ c.chunk \in Nat \ {0}
          BY <5>1, <5>2, Zenon
        <5>4. c.mambaBlock \in Nat /\ c.mambaPadded \in Nat /\ c.skipPadded \in Nat
          BY <5>1, SMT
        <5> QED
          BY <5>3, <5>4, Zenon
      <4>2. c \in [stage : {"given"}, head : HeadSizes, quant : {"none", "fp8", "nvfp4"},
                   kernel : KernelBlocks, asked : {0}, block : {0}, mamba : Nat,
                   chunk : Nat \ {0}, indexer : IndexerAligns, mode : {"none", "align", "all"},
                   skipLayers : BOOLEAN, mambaBlock : Nat, mambaPadded : Nat, skipPadded : Nat]
        BY <4>1 DEF Configurations
      <4> QED
        BY <3>1, <4>2 DEF CacheSet
    <3>3. /\ d.stage = "given" /\ d.block = size /\ d.asked = size
          /\ d.mambaPadded = 0 /\ d.skipPadded = 0
      BY DEF Configurations
    <3>4. cache' = d
      BY <2>1 DEF Give
    <3> QED
      BY <3>2, <3>3, <3>4 DEF HybridInv
  <2>2. CASE UpdateBlockSize
    <3> DEFINE aligned == AlignHybrid(cache)
               e == IF cache.skipLayers THEN AlignHeterogeneous(aligned) ELSE aligned
    <3>1. cache.stage = "given" /\ cache' = [e EXCEPT !.stage = "updated"]
      BY <2>2 DEF UpdateBlockSize
    <3>2. Aligned(aligned) /\ aligned.skipLayers = cache.skipLayers
      BY <3>1, HybridAssumption, AlignHybridAligns DEF HybridInv
    <3>3. e \in CacheSet /\ Unified(e)
      <4>1. CASE cache.skipLayers
        BY <3>2, <4>1, HybridAssumption, AlignHeterogeneousUnifies
      <4>2. CASE ~cache.skipLayers
        <5>1. cache.skipLayers = FALSE
          BY <3>1, <4>2 DEF HybridInv, CacheSet
        <5> QED
          BY <3>2, <4>2, <5>1, HybridAssumption, AlignedUnified
      <4> QED
        BY <4>1, <4>2
    <3> HIDE DEF e
    <3>4. cache' \in CacheSet /\ cache'.stage = "updated" /\ Unified(cache')
      BY <3>1, <3>3, UpdatedStageUnified
    <3> QED
      BY <3>4 DEF HybridInv, Unified, Addressable, TokenPage, SkipPage, MambaPage, SkippedPage
  <2>3. CASE UNCHANGED cache
    BY <2>3 DEF HybridInv, Unified, Addressable, TokenPage, SkipPage, MambaPage, SkippedPage
  <2> QED
    BY <2>1, <2>2, <2>3 DEF HybridNext
<1> QED
  BY <1>1, <1>2, PTL DEF HybridSpec

\* For every head size, kernel block, block size, Mamba page and mode: after the block
\* sizes are updated, all pages of the pool are equal, but for a Mamba page that was the
\* attention page before the skipped layers made that one larger
\* (platforms_interface.py:654-764, 778-982): PagesAgreeUnlessExact.
THEOREM PagesStayEqual == HybridSpec => []PagesAgreeUnlessExact
<1>1. HybridInv => PagesAgreeUnlessExact
  <2> SUFFICES ASSUME HybridInv, Updated
               PROVE  PagesAgreeUnlessExact
    BY DEF PagesAgreeUnlessExact
  <2>1. RunnerPage(cache) = TokenPage(cache)
    BY HybridAssumption, CustomizedOnce DEF HybridInv, Updated
  <2> QED
    BY <2>1 DEF HybridInv, Updated, Unified, PagesAgreeUnlessExact, AttentionPage
<1> QED
  BY <1>1, HybridInvHolds, PTL

\* Whatever the sizes: no state and no row of a skipped layer is cut short by the padding, the
\* prefix cache saves states at the attention block, and the kernel addresses whole blocks,
\* but for multiples of a block that the user asked for and that is no multiple of its own,
\* which phase 1 lets through (platforms_interface.py:629, 930-960): StatesFitTheirPages.
THEOREM StatesStayWhole == HybridSpec => []StatesFitTheirPages
<1>1. HybridInv => StatesFitTheirPages
  <2> SUFFICES ASSUME HybridInv, Updated
               PROVE  StatesFitTheirPages
    BY DEF StatesFitTheirPages
  <2>1. RunnerPage(cache) = TokenPage(cache)
    BY HybridAssumption, CustomizedOnce DEF HybridInv, Updated
  <2> QED
    BY <2>1 DEF HybridInv, Updated, Unified, StatesFitTheirPages, AttentionPage
<1> QED
  BY <1>1, HybridInvHolds, PTL

-----------------------------------------------------------------------------
(* Names.  A component is a word or a layer's number.                      *)

Words == {"language_model", "model", "mtp", "layers", "self_attn", "mlp", "shared_expert", "experts",
          "0", "qkv_proj", "q_proj", "k_proj", "v_proj", "gate_up_proj", "gate_proj", "up_proj", "down_proj"}
Component == Words \cup Nat
Roots == {TargetRoot, HfRoot, DraftRoot}
Name(root, n, path) == root \o <<n>> \o path

\* What a name is made of.
LEMMA NameIs ==
    ASSUME NEW root \in Roots, NEW n \in Nat, NEW path \in Seq(Words)
    PROVE  /\ Name(root, n, path) \in Seq(Component)
           /\ Len(root) \in {2, 3} /\ Len(path) \in Nat
           /\ Len(Name(root, n, path)) = Len(root) + 1 + Len(path)
           /\ \A i \in 1 .. Len(root) : Name(root, n, path)[i] = root[i]
           /\ Name(root, n, path)[Len(root) + 1] = n
           /\ \A i \in 1 .. Len(path) : Name(root, n, path)[Len(root) + 1 + i] = path[i]
<1> DEFINE number == <<n>>
           front == root \o number
           C == Component
<1>1. root \in Seq(C) /\ Len(root) \in {2, 3}
  <2>1. /\ TargetRoot \in Seq(Words) /\ HfRoot \in Seq(Words) /\ DraftRoot \in Seq(Words)
        /\ Len(TargetRoot) = 3 /\ Len(HfRoot) = 3 /\ Len(DraftRoot) = 2
    <3>1. {"language_model", "model", "mtp", "layers"} \subseteq Words
      BY DEF Words
    <3> QED
      BY <3>1 DEF TargetRoot, HfRoot, DraftRoot
  <2>2. root \in Seq(Words) /\ Len(root) \in {2, 3}
    BY <2>1 DEF Roots
  <2>3. Words \subseteq C
    BY DEF Component
  <2> HIDE DEF C
  <2> QED
    BY <2>2, <2>3, SeqMonotonic
<1>2. number \in Seq(C) /\ Len(number) = 1 /\ number[1] = n
  BY DEF Component
<1>3. path \in Seq(C) /\ Len(path) \in Nat
  <2>1. Words \subseteq C
    BY DEF Component
  <2> HIDE DEF C
  <2> QED
    BY <2>1, SeqMonotonic, LenProperties
<1> HIDE DEF number, C
<1>4. /\ front \in Seq(C) /\ Len(front) = Len(root) + 1
      /\ \A i \in 1 .. Len(root) + 1 : front[i] = IF i <= Len(root) THEN root[i] ELSE number[i - Len(root)]
  <2>1. root \in Seq(C) /\ number \in Seq(C)
    BY <1>1, <1>2
  <2>2. /\ root \o number \in Seq(C) /\ Len(root \o number) = Len(root) + Len(number)
        /\ \A i \in 1 .. Len(root) + Len(number) :
             (root \o number)[i] = IF i <= Len(root) THEN root[i] ELSE number[i - Len(root)]
    BY <2>1, ConcatProperties
  <2>3. Len(root) + Len(number) = Len(root) + 1
    BY <1>2
  <2> HIDE DEF front
  <2>4. front = root \o number
    BY DEF front
  <2> QED
    BY <2>2, <2>3, <2>4
<1> HIDE DEF front
<1>5. /\ front \o path \in Seq(C) /\ Len(front \o path) = Len(root) + 1 + Len(path)
      /\ \A i \in 1 .. Len(root) + 1 + Len(path) :
           (front \o path)[i] = IF i <= Len(root) + 1 THEN front[i] ELSE path[i - (Len(root) + 1)]
  <2>1. front \in Seq(C) /\ path \in Seq(C)
    BY <1>3, <1>4
  <2>2. /\ front \o path \in Seq(C) /\ Len(front \o path) = Len(front) + Len(path)
        /\ \A i \in 1 .. Len(front) + Len(path) :
             (front \o path)[i] = IF i <= Len(front) THEN front[i] ELSE path[i - Len(front)]
    BY <2>1, ConcatProperties
  <2> QED
    BY <1>4, <2>2
<1>6. Name(root, n, path) = front \o path
  BY DEF Name, front, number
<1> DEFINE name == Name(root, n, path)
           m == Len(root)
<1> HIDE DEF name, m
<1>7. \A i \in 1 .. m : name[i] = root[i]
  <2> SUFFICES ASSUME NEW i \in 1 .. m PROVE name[i] = root[i]
    OBVIOUS
  <2>1. i \in 1 .. m + 1 /\ i \in 1 .. m + 1 + Len(path) /\ i <= m + 1 /\ i <= m
    BY <1>1, <1>3 DEF m
  <2> QED
    BY <1>4, <1>5, <1>6, <2>1 DEF m, name
<1>8. name[m + 1] = n
  <2>1. m + 1 \in 1 .. m + 1 /\ m + 1 \in 1 .. m + 1 + Len(path) /\ ~(m + 1 <= m) /\ (m + 1) - m = 1
    BY <1>1, <1>3 DEF m
  <2> QED
    BY <1>2, <1>4, <1>5, <1>6, <2>1 DEF m, name
<1>9. \A i \in 1 .. Len(path) : name[m + 1 + i] = path[i]
  <2> SUFFICES ASSUME NEW i \in 1 .. Len(path) PROVE name[m + 1 + i] = path[i]
    OBVIOUS
  <2>1. m + 1 + i \in 1 .. m + 1 + Len(path) /\ ~(m + 1 + i <= m + 1) /\ (m + 1 + i) - (m + 1) = i
    BY <1>1, <1>3 DEF m
  <2> QED
    BY <1>5, <1>6, <2>1 DEF m, name
<1> QED
  BY <1>1, <1>3, <1>5, <1>6, <1>7, <1>8, <1>9 DEF m, name, C

\* A prefix, component by component.
LEMMA PrefixIs ==
    ASSUME NEW S, NEW s \in Seq(S), NEW t \in Seq(S)
    PROVE  IsPrefix(s, t) <=> Len(s) <= Len(t) /\ \A i \in 1 .. Len(s) : s[i] = t[i]
<1> DEFINE n == Len(s)
           one == 1
<1>1. n \in Nat /\ Len(t) \in Nat
  BY LenProperties
<1>2. ASSUME n <= Len(t)
      PROVE  /\ SubSeq(s, one, n) \in Seq(S) /\ Len(SubSeq(s, one, n)) = n
             /\ \A i \in 1 .. n : SubSeq(s, one, n)[i] = s[i]
             /\ SubSeq(t, one, n) \in Seq(S) /\ Len(SubSeq(t, one, n)) = n
             /\ \A i \in 1 .. n : SubSeq(t, one, n)[i] = t[i]
  <2>1. \A i \in one .. n : s[i] \in S /\ t[i] \in S
    <3> SUFFICES ASSUME NEW i \in one .. n PROVE s[i] \in S /\ t[i] \in S
      OBVIOUS
    <3>1. i \in 1 .. Len(s) /\ i \in 1 .. Len(t)
      BY <1>1, <1>2
    <3> QED
      BY <3>1, ElementOfSeq
  <2>2. one \in Int /\ n \in Int
    BY <1>1
  <2>3. (IF one <= n THEN n - one + 1 ELSE 0) = n /\ n - one + 1 = n /\ \A i \in 1 .. n : one + i - 1 = i
    BY <1>1
  <2> HIDE DEF one, n
  <2>4. /\ SubSeq(s, one, n) \in Seq(S) /\ Len(SubSeq(s, one, n)) = IF one <= n THEN n - one + 1 ELSE 0
        /\ \A i \in 1 .. n - one + 1 : SubSeq(s, one, n)[i] = s[one + i - 1]
    BY <2>1, <2>2, SubSeqProperties
  <2>5. /\ SubSeq(t, one, n) \in Seq(S) /\ Len(SubSeq(t, one, n)) = IF one <= n THEN n - one + 1 ELSE 0
        /\ \A i \in 1 .. n - one + 1 : SubSeq(t, one, n)[i] = t[one + i - 1]
    BY <2>1, <2>2, SubSeqProperties
  <2> QED
    BY <2>3, <2>4, <2>5
<1>3. IsPrefix(s, t) <=> n <= Len(t) /\ SubSeq(s, one, n) = SubSeq(t, one, n)
  BY DEF IsPrefix
<1> DEFINE u == SubSeq(s, one, n)
           v == SubSeq(t, one, n)
<1> HIDE DEF u, v, one
<1>4. ASSUME n <= Len(t), \A i \in 1 .. n : s[i] = t[i] PROVE u = v
  <2>1. u \in Seq(S) /\ v \in Seq(S) /\ Len(u) = Len(v) /\ \A i \in 1 .. Len(u) : u[i] = v[i]
    BY <1>2, <1>4 DEF u, v
  <2> QED
    BY <2>1, SeqEqual
<1>5. ASSUME n <= Len(t), u = v PROVE \A i \in 1 .. n : s[i] = t[i]
  BY <1>2, <1>5 DEF u, v
<1> QED
  BY <1>3, <1>4, <1>5 DEF u, v, n

\* The roots differ at their first component.
LEMMA RootsDiffer ==
    ASSUME NEW r \in Roots, NEW q \in Roots, r[1] = q[1]
    PROVE  r = q
BY DEF Roots, TargetRoot, HfRoot, DraftRoot

\* Names are prefixes of each other within one root and number only.
LEMMA NamePrefix ==
    ASSUME NEW r \in Roots, NEW q \in Roots, NEW m \in Nat, NEW n \in Nat,
           NEW s \in Seq(Words), NEW t \in Seq(Words)
    PROVE  /\ IsPrefix(Name(r, m, s), Name(q, n, t)) <=> r = q /\ m = n /\ IsPrefix(s, t)
           /\ Name(r, m, s) = Name(q, n, t) <=> r = q /\ m = n /\ s = t
<1> DEFINE a == Name(r, m, s)
           b == Name(q, n, t)
           k == Len(r)
<1>1. /\ a \in Seq(Component) /\ b \in Seq(Component) /\ k \in {2, 3}
      /\ Len(s) \in Nat /\ Len(t) \in Nat /\ Len(q) \in {2, 3}
      /\ Len(a) = k + 1 + Len(s) /\ Len(b) = Len(q) + 1 + Len(t)
  BY NameIs, SMTT(60)
<1>2. /\ \A i \in 1 .. k : a[i] = r[i]
      /\ a[k + 1] = m
      /\ \A i \in 1 .. Len(s) : a[k + 1 + i] = s[i]
  <2> HIDE DEF a, b, k
  <2>1. \A i \in 1 .. Len(r) : Name(r, m, s)[i] = r[i]
    BY NameIs
  <2>2. Name(r, m, s)[Len(r) + 1] = m
    BY NameIs
  <2>3. \A i \in 1 .. Len(s) : Name(r, m, s)[Len(r) + 1 + i] = s[i]
    BY NameIs
  <2> QED
    BY <2>1, <2>2, <2>3 DEF a, k
<1>3. /\ \A i \in 1 .. Len(q) : b[i] = q[i]
      /\ b[Len(q) + 1] = n
      /\ \A i \in 1 .. Len(t) : b[Len(q) + 1 + i] = t[i]
  BY NameIs, SMTT(60)
<1>4. IsPrefix(s, t) <=> Len(s) <= Len(t) /\ \A i \in 1 .. Len(s) : s[i] = t[i]
  BY PrefixIs
<1> HIDE DEF a, b, k
<1>5. IsPrefix(a, b) <=> Len(a) <= Len(b) /\ \A i \in 1 .. Len(a) : a[i] = b[i]
  <2>1. a \in Seq(Component) /\ b \in Seq(Component)
    BY <1>1
  <2> QED
    BY <2>1, PrefixIs
<1>6. ASSUME IsPrefix(a, b) PROVE r = q /\ m = n /\ IsPrefix(s, t)
  <2>1. r = q
    <3>1. 1 \in 1 .. Len(a) /\ 1 \in 1 .. k /\ 1 \in 1 .. Len(q)
      <4>1. k \in Nat \ {0}
        BY <1>1
      <4>2. Len(q) \in Nat \ {0}
        <5> DEFINE l == Len(q)
        <5>1. l \in {2, 3}
          BY <1>1
        <5> HIDE DEF l
        <5>2. l \in Nat \ {0}
          BY <5>1
        <5> QED
          BY <5>2 DEF l
      <4>3. Len(a) = k + 1 + Len(s) /\ Len(s) \in Nat
        BY <1>1
      <4> QED
        BY <4>1, <4>2, <4>3
    <3>2. r[1] = q[1]
      BY <1>2, <1>3, <1>5, <1>6, <3>1
    <3> QED
      BY <3>2, RootsDiffer
  <2>2. m = n
    <3>1. k + 1 \in 1 .. Len(a) /\ Len(q) = k
      BY <1>1, <2>1 DEF k
    <3> QED
      BY <1>2, <1>3, <1>5, <1>6, <3>1
  <2>3. Len(s) <= Len(t)
    BY <1>1, <1>5, <1>6, <2>1 DEF k
  <2>4. ASSUME NEW i \in 1 .. Len(s) PROVE s[i] = t[i]
    <3>1. k + 1 + i \in 1 .. Len(a) /\ i \in 1 .. Len(t) /\ Len(q) = k
      BY <1>1, <2>1, <2>3 DEF k
    <3> QED
      BY <1>2, <1>3, <1>5, <1>6, <3>1
  <2> QED
    BY <1>4, <2>1, <2>2, <2>3, <2>4
<1>7. ASSUME r = q, m = n, IsPrefix(s, t) PROVE IsPrefix(a, b)
  <2>1. Len(q) = k /\ Len(a) <= Len(b)
    BY <1>1, <1>4, <1>7 DEF k
  <2>2. ASSUME NEW i \in 1 .. Len(a) PROVE a[i] = b[i]
    <3>1. CASE i <= k
      <4>1. i \in 1 .. k
        BY <1>1, <3>1
      <4> QED
        BY <1>2, <1>3, <1>7, <2>1, <4>1
    <3>2. CASE i = k + 1
      BY <1>2, <1>3, <1>7, <2>1, <3>2
    <3>3. CASE i > k + 1
      <4> DEFINE j == i - (k + 1)
      <4>1. j \in 1 .. Len(s) /\ j \in 1 .. Len(t) /\ i = k + 1 + j
        BY <1>1, <1>4, <1>7, <3>3
      <4> HIDE DEF j
      <4> QED
        BY <1>2, <1>3, <1>4, <1>7, <2>1, <4>1
    <3> QED
      BY <1>1, <3>1, <3>2, <3>3
  <2> QED
    BY <1>5, <2>1, <2>2
<1>8. ASSUME a = b PROVE r = q /\ m = n /\ s = t
  <2>1. IsPrefix(a, b)
    BY <1>1, <1>5, <1>8
  <2>2. r = q /\ m = n /\ IsPrefix(s, t)
    BY <1>6, <2>1
  <2>3. Len(s) = Len(t)
    BY <1>1, <1>8, <2>2 DEF k
  <2> QED
    BY <1>4, <2>2, <2>3, SeqEqual
<1>9. r = q /\ m = n /\ s = t => a = b
  BY DEF a, b
<1> QED
  BY <1>6, <1>7, <1>8, <1>9 DEF a, b

-----------------------------------------------------------------------------
(* What the parts of a layer are called.                                   *)

\* The names of a part's weights: experts may be listed as a whole.
Units(part, whole) == IF part.kind = "experts" /\ whole THEN {part.name} ELSE part.units

Qkv == <<"self_attn", "qkv_proj">>
GateUp == <<"mlp", "shared_expert", "gate_up_proj">>
Experts == <<"mlp", "experts">>

\* The last component of a name, replaced.
LEMMA FusedPair ==
    ASSUME NEW a, NEW b, NEW proj
    PROVE  Front(<<a, b>>) \o <<proj>> = <<a, proj>>
<1> DEFINE S == {a, b, proj}
           one == <<proj>>
           old == <<a, b>>
           t == Front(old)
           r == <<a, proj>>
<1>1. one \in Seq(S) /\ Len(one) = 1 /\ one[1] = proj
  OBVIOUS
<1>2. t \in Seq(S) /\ Len(t) = 1 /\ t[1] = a
  BY DEF Front
<1>3. Len(r) = 2 /\ r[1] = a /\ r[2] = proj /\ r \in Seq(S)
  OBVIOUS
<1> HIDE DEF S, one, t, r
<1>4. t \in Seq(S) /\ one \in Seq(S)
  BY <1>1, <1>2
<1>5. /\ t \o one \in Seq(S) /\ Len(t \o one) = Len(t) + Len(one)
      /\ \A i \in 1 .. Len(t) + Len(one) : (t \o one)[i] = IF i <= Len(t) THEN t[i] ELSE one[i - Len(t)]
  BY <1>4, ConcatProperties
<1>6. Len(t \o one) = 2 /\ \A i \in 1 .. 2 : (t \o one)[i] = r[i]
  BY <1>1, <1>2, <1>3, <1>5
<1>7. t \o one = r
  BY <1>3, <1>5, <1>6, SeqEqual
<1> QED
  BY <1>7 DEF t, r, one

\* The same of three components.
LEMMA FusedTriple ==
    ASSUME NEW a, NEW b, NEW c, NEW proj
    PROVE  Front(<<a, b, c>>) \o <<proj>> = <<a, b, proj>>
<1> DEFINE S == {a, b, c, proj}
           one == <<proj>>
           old == <<a, b, c>>
           t == Front(old)
           r == <<a, b, proj>>
<1>1. one \in Seq(S) /\ Len(one) = 1 /\ one[1] = proj
  OBVIOUS
<1>2. t \in Seq(S) /\ Len(t) = 2 /\ t[1] = a /\ t[2] = b
  BY DEF Front
<1>3. Len(r) = 3 /\ r[1] = a /\ r[2] = b /\ r[3] = proj /\ r \in Seq(S)
  OBVIOUS
<1> HIDE DEF S, one, t, r
<1>4. t \in Seq(S) /\ one \in Seq(S)
  BY <1>1, <1>2
<1>5. /\ t \o one \in Seq(S) /\ Len(t \o one) = Len(t) + Len(one)
      /\ \A i \in 1 .. Len(t) + Len(one) : (t \o one)[i] = IF i <= Len(t) THEN t[i] ELSE one[i - Len(t)]
  BY <1>4, ConcatProperties
<1>6. Len(t \o one) = 3 /\ \A i \in 1 .. 3 : (t \o one)[i] = r[i]
  BY <1>1, <1>2, <1>3, <1>5
<1>7. t \o one = r
  BY <1>3, <1>5, <1>6, SeqEqual
<1> QED
  BY <1>7 DEF t, r, one

\* The fused names of the parts.
LEMMA FusedAre ==
    /\ Fused(Qkv) = {<<"self_attn", "q_proj">>, <<"self_attn", "k_proj">>, <<"self_attn", "v_proj">>}
    /\ Fused(GateUp) = {<<"mlp", "shared_expert", "gate_proj">>, <<"mlp", "shared_expert", "up_proj">>}
    /\ Fused(Experts) = {}
<1>1. Last(Qkv) = "qkv_proj" /\ Last(GateUp) = "gate_up_proj" /\ Last(Experts) = "experts"
  BY DEF Last, Qkv, GateUp, Experts
<1>2. ASSUME NEW proj
      PROVE  /\ Front(Qkv) \o <<proj>> = <<"self_attn", proj>>
             /\ Front(GateUp) \o <<proj>> = <<"mlp", "shared_expert", proj>>
  <2> DEFINE a == "self_attn"
             b == "qkv_proj"
             c == "mlp"
             d == "shared_expert"
             e == "gate_up_proj"
  <2>1. Qkv = <<a, b>> /\ GateUp = <<c, d, e>>
    BY DEF Qkv, GateUp
  <2> HIDE DEF a, b, c, d, e
  <2>2. Front(<<a, b>>) \o <<proj>> = <<a, proj>>
    BY FusedPair
  <2>3. Front(<<c, d, e>>) \o <<proj>> = <<c, d, proj>>
    BY FusedTriple
  <2> QED
    BY <2>1, <2>2, <2>3 DEF a, c, d
<1>3. /\ packed_modules_mapping("qkv_proj") = {"q_proj", "k_proj", "v_proj"}
      /\ packed_modules_mapping("gate_up_proj") = {"gate_proj", "up_proj"}
      /\ packed_modules_mapping("experts") = {}
  BY DEF packed_modules_mapping
<1>4. Fused(Qkv) = {<<"self_attn", "q_proj">>, <<"self_attn", "k_proj">>, <<"self_attn", "v_proj">>}
  <2>1. Fused(Qkv) = {Front(Qkv) \o <<proj>> : proj \in {"q_proj", "k_proj", "v_proj"}}
    BY <1>1, <1>3 DEF Fused
  <2>2. Fused(Qkv) = {<<"self_attn", proj>> : proj \in {"q_proj", "k_proj", "v_proj"}}
    BY <1>2, <2>1
  <2> QED
    BY <2>2
<1>5. Fused(GateUp) = {<<"mlp", "shared_expert", "gate_proj">>, <<"mlp", "shared_expert", "up_proj">>}
  <2>1. Fused(GateUp) = {Front(GateUp) \o <<proj>> : proj \in {"gate_proj", "up_proj"}}
    BY <1>1, <1>3 DEF Fused
  <2>2. Fused(GateUp) = {<<"mlp", "shared_expert", proj>> : proj \in {"gate_proj", "up_proj"}}
    BY <1>2, <2>1
  <2> QED
    BY <2>2
<1>6. Fused(Experts) = {}
  BY <1>1, <1>3 DEF Fused
<1> QED
  BY <1>4, <1>5, <1>6

\* The parts, and what their names and their units' begin with.
LEMMA PartIs ==
    ASSUME NEW part \in Parts
    PROVE  /\ part.name \in {Qkv, GateUp, Experts} /\ part.name \in Seq(Words) /\ part.units \subseteq Seq(Words)
           /\ part.kind = IF part.name = Experts THEN "experts" ELSE "linear"
           /\ part.kind = "linear" => part.units = Fused(part.name)
           /\ part.name = Experts =>
                part.units = {<<"mlp", "experts", "0", "up_proj">>, <<"mlp", "experts", "0", "down_proj">>}
           /\ part = [kind |-> part.kind, name |-> part.name, units |-> part.units]
<1>1. Parts = {Linear(Qkv), Linear(GateUp),
               [kind |-> "experts", name |-> Experts,
                units |-> {<<"mlp", "experts", "0", proj>> : proj \in {"up_proj", "down_proj"}}]}
  BY DEF Parts, Qkv, GateUp, Experts
<1>2. {"self_attn", "mlp", "shared_expert", "experts", "0", "qkv_proj", "q_proj", "k_proj", "v_proj",
       "gate_up_proj", "gate_proj", "up_proj", "down_proj"} \subseteq Words
  BY DEF Words
<1>3. /\ Qkv \in Seq(Words) /\ GateUp \in Seq(Words) /\ Experts \in Seq(Words)
      /\ Qkv # Experts /\ GateUp # Experts
  BY <1>2 DEF Qkv, GateUp, Experts
<1>4. Fused(Qkv) \subseteq Seq(Words) /\ Fused(GateUp) \subseteq Seq(Words)
  BY <1>2, FusedAre
<1>5. {<<"mlp", "experts", "0", proj>> : proj \in {"up_proj", "down_proj"}} \subseteq Seq(Words)
  <2>1. \A a, b, c, d \in Words : <<a, b, c, d>> \in Seq(Words)
    OBVIOUS
  <2>2. \A proj \in {"up_proj", "down_proj"} : <<"mlp", "experts", "0", proj>> \in Seq(Words)
    BY <1>2, <2>1
  <2> QED
    BY <2>2
<1>6. CASE part = Linear(Qkv)
  BY <1>3, <1>4, <1>6 DEF Linear
<1>7. CASE part = Linear(GateUp)
  BY <1>3, <1>4, <1>7 DEF Linear
<1>8. CASE part = [kind |-> "experts", name |-> Experts,
                   units |-> {<<"mlp", "experts", "0", proj>> : proj \in {"up_proj", "down_proj"}}]
  BY <1>3, <1>5, <1>8
<1> QED
  BY <1>1, <1>6, <1>7, <1>8

\* What the names of a part's weights begin with.
LEMMA UnitsAre ==
    ASSUME NEW part \in Parts, NEW whole \in BOOLEAN, NEW u \in Units(part, whole)
    PROVE  /\ u \in Seq(Words)
           /\ part.name = Qkv =>
                Len(u) = 2 /\ u[1] = "self_attn" /\ u[2] \in {"q_proj", "k_proj", "v_proj"}
           /\ part.name = GateUp =>
                Len(u) = 3 /\ u[1] = "mlp" /\ u[2] = "shared_expert" /\ u[3] \in {"gate_proj", "up_proj"}
           /\ part.name = Experts =>
                /\ Len(u) = IF whole THEN 2 ELSE 4
                /\ u[1] = "mlp" /\ u[2] = "experts" /\ (u = Experts <=> whole)
<1>1. part.name \in {Qkv, GateUp, Experts} /\ part.name \in Seq(Words) /\ part.units \subseteq Seq(Words)
      /\ part.kind = (IF part.name = Experts THEN "experts" ELSE "linear")
      /\ (part.kind = "linear" => part.units = Fused(part.name))
  BY PartIs
<1>2. u \in Seq(Words)
  BY <1>1 DEF Units
<1>3. CASE part.name = Qkv
  <2>1. Qkv # Experts /\ Qkv # GateUp
    BY DEF Qkv, Experts, GateUp
  <2>2. u \in Fused(Qkv)
    BY <1>1, <1>3, <2>1 DEF Units
  <2>3. u \in {<<"self_attn", "q_proj">>, <<"self_attn", "k_proj">>, <<"self_attn", "v_proj">>}
    BY <2>2, FusedAre
  <2>4. Len(u) = 2 /\ u[1] = "self_attn" /\ u[2] \in {"q_proj", "k_proj", "v_proj"}
    BY <2>3
  <2> QED
    BY <1>2, <1>3, <2>1, <2>4
<1>4. CASE part.name = GateUp
  <2>1. GateUp # Experts /\ Qkv # GateUp
    BY DEF Qkv, Experts, GateUp
  <2>2. u \in Fused(GateUp)
    BY <1>1, <1>4, <2>1 DEF Units
  <2>3. u \in {<<"mlp", "shared_expert", "gate_proj">>, <<"mlp", "shared_expert", "up_proj">>}
    BY <2>2, FusedAre
  <2>4. Len(u) = 3 /\ u[1] = "mlp" /\ u[2] = "shared_expert" /\ u[3] \in {"gate_proj", "up_proj"}
    BY <2>3
  <2> QED
    BY <1>2, <1>4, <2>1, <2>4
<1>5. CASE part.name = Experts
  <2>1. GateUp # Experts /\ Qkv # Experts
    BY DEF Qkv, Experts, GateUp
  <2>2. u \in IF whole THEN {Experts}
              ELSE {<<"mlp", "experts", "0", "up_proj">>, <<"mlp", "experts", "0", "down_proj">>}
    BY <1>1, <1>5, PartIs DEF Units
  <2>3. /\ Len(u) = IF whole THEN 2 ELSE 4
        /\ u[1] = "mlp" /\ u[2] = "experts" /\ (u = Experts <=> whole)
    BY <2>2 DEF Experts
  <2> QED
    BY <1>2, <1>5, <2>1, <2>3
<1> QED
  BY <1>1, <1>3, <1>4, <1>5

\* What a part's own name begins with.
LEMMA NamesAre ==
    ASSUME NEW part \in Parts
    PROVE  /\ part.name \in Seq(Words) /\ Len(part.name) \in {2, 3}
           /\ part.name = Qkv => Len(part.name) = 2 /\ part.name[1] = "self_attn" /\ part.name[2] = "qkv_proj"
           /\ part.name = GateUp =>
                Len(part.name) = 3 /\ part.name[1] = "mlp" /\ part.name[2] = "shared_expert"
                /\ part.name[3] = "gate_up_proj"
           /\ part.name = Experts => Len(part.name) = 2 /\ part.name[1] = "mlp" /\ part.name[2] = "experts"
<1>1. part.name \in {Qkv, GateUp, Experts} /\ part.name \in Seq(Words)
  BY PartIs
<1>2. /\ Len(Qkv) = 2 /\ Qkv[1] = "self_attn" /\ Qkv[2] = "qkv_proj"
      /\ Len(GateUp) = 3 /\ GateUp[1] = "mlp" /\ GateUp[2] = "shared_expert" /\ GateUp[3] = "gate_up_proj"
      /\ Len(Experts) = 2 /\ Experts[1] = "mlp" /\ Experts[2] = "experts"
  BY DEF Qkv, GateUp, Experts
<1> QED
  BY <1>1, <1>2

\* A part is known by its name.
LEMMA PartByName ==
    ASSUME NEW part \in Parts, NEW other \in Parts, part.name = other.name
    PROVE  part = other
<1>1. part.kind = other.kind /\ part.units = other.units
  BY PartIs
<1> QED
  BY <1>1, PartIs

\* The first components that a prefix shares.
LEMMA PrefixStarts ==
    ASSUME NEW s \in Seq(Words), NEW t \in Seq(Words), IsPrefix(s, t)
    PROVE  /\ Len(s) <= Len(t)
           /\ Len(s) >= 2 => s[1] = t[1] /\ s[2] = t[2]
           /\ Len(s) >= 3 => s[3] = t[3]
<1>1. Len(s) <= Len(t) /\ \A i \in 1 .. Len(s) : s[i] = t[i]
  BY PrefixIs
<1>2. Len(s) \in Nat
  BY LenProperties
<1> QED
  BY <1>1, <1>2

\* Names of different parts are no prefixes of each other, except that experts are listed
\* by their part's name or below it.
LEMMA PathsApart ==
    ASSUME NEW part \in Parts, NEW other \in Parts, NEW whole \in BOOLEAN, NEW u \in Units(other, whole)
    PROVE  /\ IsPrefix(u, part.name) => other = part /\ u = part.name
           /\ IsPrefix(part.name, u) => other = part /\ part.name = Experts
           /\ u \in Units(part, whole) => other = part
           /\ part.name = Experts /\ other = part => IsPrefix(part.name, u)
           /\ u = part.name <=> part.name = Experts /\ other = part /\ whole
<1>1. u \in Seq(Words) /\ part.name \in Seq(Words)
      /\ part.name \in {Qkv, GateUp, Experts} /\ other.name \in {Qkv, GateUp, Experts}
  BY UnitsAre, PartIs
<1>2. ASSUME IsPrefix(u, part.name) PROVE other.name = Experts /\ part.name = Experts
  <2>1. Len(u) <= Len(part.name) /\ (Len(u) >= 2 => u[1] = part.name[1] /\ u[2] = part.name[2])
        /\ (Len(u) >= 3 => u[3] = part.name[3])
    BY <1>1, <1>2, PrefixStarts
  <2>2. CASE other.name = Qkv
    BY <1>1, <2>1, <2>2, UnitsAre, NamesAre
  <2>3. CASE other.name = GateUp
    BY <1>1, <2>1, <2>3, UnitsAre, NamesAre
  <2>4. CASE other.name = Experts
    BY <1>1, <2>1, <2>4, UnitsAre, NamesAre
  <2> QED
    BY <1>1, <2>2, <2>3, <2>4
<1>3. ASSUME IsPrefix(part.name, u) PROVE other.name = Experts /\ part.name = Experts
  <2>1. Len(part.name) <= Len(u) /\ (Len(part.name) >= 2 => u[1] = part.name[1] /\ u[2] = part.name[2])
        /\ (Len(part.name) >= 3 => u[3] = part.name[3])
    BY <1>1, <1>3, PrefixStarts
  <2>2. CASE other.name = Qkv
    BY <1>1, <2>1, <2>2, UnitsAre, NamesAre
  <2>3. CASE other.name = GateUp
    BY <1>1, <2>1, <2>3, UnitsAre, NamesAre
  <2>4. CASE other.name = Experts
    BY <1>1, <2>1, <2>4, UnitsAre, NamesAre
  <2> QED
    BY <1>1, <2>2, <2>3, <2>4
<1>4. ASSUME u \in Units(part, whole) PROVE other.name = part.name
  <2>1. CASE other.name = Qkv
    BY <1>1, <1>4, <2>1, UnitsAre
  <2>2. CASE other.name = GateUp
    BY <1>1, <1>4, <2>2, UnitsAre
  <2>3. CASE other.name = Experts
    BY <1>1, <1>4, <2>3, UnitsAre
  <2> QED
    BY <1>1, <2>1, <2>2, <2>3
<1>5. ASSUME part.name = Experts, other = part PROVE IsPrefix(part.name, u)
  <2> DEFINE s == part.name
  <2>1. Len(s) = 2 /\ s[1] = "mlp" /\ s[2] = "experts"
    BY <1>5, NamesAre
  <2>2. Len(u) >= 2 /\ u[1] = "mlp" /\ u[2] = "experts"
    BY <1>5, UnitsAre
  <2>3. s \in Seq(Words)
    BY <1>1
  <2> HIDE DEF s
  <2>4. Len(s) <= Len(u) /\ \A i \in 1 .. Len(s) : s[i] = u[i]
    BY <2>1, <2>2
  <2>5. IsPrefix(s, u)
    BY <1>1, <2>3, <2>4, PrefixIs
  <2> QED
    BY <2>5 DEF s
<1>6. ASSUME u = part.name PROVE IsPrefix(u, part.name)
  BY <1>1, <1>6, PrefixIs
<1>7. other.name = Experts => (u = Experts <=> whole)
  BY UnitsAre
<1>8. ASSUME IsPrefix(u, part.name) PROVE u = part.name
  <2>1. other.name = Experts /\ part.name = Experts
    BY <1>2, <1>8
  <2>2. Len(u) <= 2
    BY <1>1, <1>8, <2>1, PrefixStarts, NamesAre
  <2>3. Len(u) = IF whole THEN 2 ELSE 4
    BY <2>1, UnitsAre
  <2>4. whole
    BY <2>2, <2>3
  <2> QED
    BY <1>7, <2>1, <2>4
<1> QED
  BY <1>2, <1>3, <1>4, <1>5, <1>6, <1>7, <1>8, PartByName

-----------------------------------------------------------------------------
(* What layers are called.                                                 *)

Root(l) == IF l[1] = "mtp" THEN DraftRoot ELSE TargetRoot
Number(l) == IF l[1] = "mtp" THEN NumLayers + l[2] ELSE l[2]

\* A name below a layer, as the mapped lists have it and as vLLM has it.
Listed(l, path) == Name(Root(l), l[2], path)
Loaded(l, path) == Name(Root(l), Number(l), path)

\* A root is a prefix of the names below it only.
LEMMA RootPrefix ==
    ASSUME NEW r \in Roots, NEW q \in Roots, NEW n \in Nat, NEW path \in Seq(Words)
    PROVE  IsPrefix(q, Name(r, n, path)) <=> q = r
<1> DEFINE a == Name(r, n, path)
<1>1. a \in Seq(Component) /\ Len(r) \in {2, 3} /\ Len(path) \in Nat /\ Len(a) = Len(r) + 1 + Len(path)
  BY NameIs
<1>2. \A i \in 1 .. Len(r) : a[i] = r[i]
  BY NameIs
<1>3. q \in Seq(Component) /\ Len(q) \in {2, 3}
  <2>1. Words \subseteq Component
    BY DEF Component
  <2>2. Roots \subseteq Seq(Words) /\ \A x \in Roots : Len(x) \in {2, 3}
    <3>1. {"language_model", "model", "mtp", "layers"} \subseteq Words
      BY DEF Words
    <3> QED
      BY <3>1 DEF Roots, TargetRoot, HfRoot, DraftRoot
  <2>3. q \in Seq(Words)
    BY <2>2
  <2> QED
    BY <2>1, <2>2, <2>3, SeqMonotonic
<1> HIDE DEF a
<1>4. IsPrefix(q, a) <=> Len(q) <= Len(a) /\ \A i \in 1 .. Len(q) : q[i] = a[i]
  <2>1. q \in Seq(Component) /\ a \in Seq(Component)
    BY <1>1, <1>3
  <2> QED
    BY <2>1, PrefixIs
<1>5. ASSUME IsPrefix(q, a) PROVE q = r
  <2> DEFINE k == Len(q)
             m == Len(r)
  <2>1. k \in {2, 3} /\ m \in {2, 3}
    BY <1>1, <1>3
  <2> HIDE DEF k, m
  <2>2. 1 \in 1 .. k /\ 1 \in 1 .. m
    BY <2>1
  <2>3. q[1] = r[1]
    BY <1>2, <1>4, <1>5, <2>2 DEF k, m
  <2> QED
    BY <2>3, RootsDiffer
<1>6. ASSUME q = r PROVE IsPrefix(q, a)
  BY <1>1, <1>2, <1>4, <1>6
<1> QED
  BY <1>5, <1>6 DEF a

\* The first component of a name tells its root.
LEMMA NameStarts ==
    ASSUME NEW r \in Roots, NEW n \in Nat, NEW path \in Seq(Words)
    PROVE  Name(r, n, path)[1] = "mtp" <=> r = DraftRoot
<1>1. Name(r, n, path)[1] = r[1]
  <2>1. Len(r) \in {2, 3} /\ \A i \in 1 .. Len(r) : Name(r, n, path)[i] = r[i]
    BY NameIs
  <2> DEFINE k == Len(r)
  <2>2. k \in {2, 3}
    BY <2>1
  <2> HIDE DEF k
  <2>3. 1 \in 1 .. k
    BY <2>2
  <2> QED
    BY <2>1, <2>3 DEF k
<1>2. r[1] = "mtp" <=> r = DraftRoot
  BY DEF Roots, TargetRoot, HfRoot, DraftRoot
<1> QED
  BY <1>1, <1>2

\* What follows a root of three components.
LEMMA AfterRoot ==
    ASSUME NEW r \in Roots, NEW q \in Roots, Len(r) = 3, NEW n \in Nat, NEW path \in Seq(Words)
    PROVE  q \o SubSeq(Name(r, n, path), 4, Len(Name(r, n, path))) = Name(q, n, path)
<1> DEFINE a == Name(r, n, path)
           number == <<n>>
           rest == number \o path
           C == Component
           four == 4
<1>1. a \in Seq(C) /\ Len(path) \in Nat /\ Len(a) = 3 + 1 + Len(path)
  <2> HIDE DEF a, number, rest, C, four
  <2>1. Name(r, n, path) \in Seq(Component) /\ Len(path) \in Nat
    BY NameIs
  <2>2. Len(Name(r, n, path)) = Len(r) + 1 + Len(path)
    BY NameIs, ZenonT(60)
  <2> QED
    BY <2>1, <2>2 DEF a, C
<1>2. a[3 + 1] = n
  <2> HIDE DEF a, number, rest, C, four
  <2>1. Name(r, n, path)[Len(r) + 1] = n
    BY NameIs, ZenonT(60)
  <2> QED
    BY <2>1 DEF a
<1>3. \A i \in 1 .. Len(path) : a[3 + 1 + i] = path[i]
  <2> HIDE DEF a, number, rest, C, four
  <2>1. \A i \in 1 .. Len(path) : Name(r, n, path)[Len(r) + 1 + i] = path[i]
    BY NameIs, ZenonT(60)
  <2> QED
    BY <2>1 DEF a
<1>4. number \in Seq(C) /\ Len(number) = 1 /\ number[1] = n
  BY DEF Component
<1>5. Words \subseteq C
  BY DEF Component
<1> HIDE DEF a, number, C, rest
<1>6. path \in Seq(C)
  BY <1>5, SeqMonotonic
<1>7. rest \in Seq(C) /\ Len(rest) = 1 + Len(path)
      /\ \A i \in 1 .. 1 + Len(path) : rest[i] = IF i <= 1 THEN number[i] ELSE path[i - 1]
  <2>1. number \in Seq(C) /\ path \in Seq(C)
    BY <1>4, <1>6
  <2>2. /\ number \o path \in Seq(C) /\ Len(number \o path) = Len(number) + Len(path)
        /\ \A i \in 1 .. Len(number) + Len(path) :
             (number \o path)[i] = IF i <= Len(number) THEN number[i] ELSE path[i - Len(number)]
    BY <2>1, ConcatProperties
  <2> QED
    BY <1>4, <2>2 DEF rest
<1>8. SubSeq(a, four, Len(a)) = rest
  <2> DEFINE m == Len(a)
             t == SubSeq(a, four, m)
  <2>1. m \in Int /\ m = 4 + Len(path) /\ four \in Int /\ four = 4
    BY <1>1
  <2> HIDE DEF m, four
  <2>2. \A i \in four .. m : a[i] \in C
    <3> SUFFICES ASSUME NEW i \in four .. m PROVE a[i] \in C
      OBVIOUS
    <3>1. i \in 1 .. Len(a)
      BY <2>1 DEF m
    <3> QED
      BY <1>1, <3>1, ElementOfSeq
  <2>3. /\ t \in Seq(C) /\ Len(t) = (IF four <= m THEN m - four + 1 ELSE 0)
        /\ \A i \in 1 .. m - four + 1 : t[i] = a[four + i - 1]
    BY <2>1, <2>2, SubSeqProperties
  <2> HIDE DEF t
  <2>4. Len(t) = 1 + Len(path) /\ m - four + 1 = 1 + Len(path)
    BY <1>1, <2>1, <2>3
  <2>5. ASSUME NEW i \in 1 .. 1 + Len(path) PROVE t[i] = rest[i]
    <3>1. t[i] = a[3 + i]
      <4>1. four + i - 1 = 3 + i
        BY <2>1
      <4> QED
        BY <2>3, <2>4, <4>1
    <3>2. CASE i = 1
      BY <1>1, <1>2, <1>4, <1>7, <3>1, <3>2
    <3>3. CASE i > 1
      <4> DEFINE j == i - 1
      <4>1. j \in 1 .. Len(path) /\ i = j + 1 /\ 3 + i = 3 + 1 + j /\ ~(i <= 1)
        BY <1>1, <3>3
      <4> HIDE DEF j
      <4>2. a[3 + 1 + j] = path[j]
        BY <1>3, <4>1
      <4>3. i - 1 = j
        BY <4>1
      <4> QED
        BY <1>7, <3>1, <4>1, <4>2, <4>3
    <3> QED
      BY <1>1, <3>2, <3>3
  <2>6. t = rest
    BY <1>7, <2>3, <2>4, <2>5, SeqEqual
  <2> QED
    BY <2>6 DEF t, m
<1>9. q \in Seq(C)
  <2>1. {"language_model", "model", "mtp", "layers"} \subseteq Words
    BY DEF Words
  <2>2. Roots \subseteq Seq(Words)
    BY <2>1 DEF Roots, TargetRoot, HfRoot, DraftRoot
  <2> QED
    BY <1>5, <2>2, SeqMonotonic
<1>10. (q \o number) \o path = q \o rest
  BY <1>4, <1>6, <1>9, ConcatAssociative DEF rest
<1> QED
  BY <1>8, <1>10 DEF Name, a, number, four

\* The layers, and the roots of their names.
LEMMA LayerIs ==
    ASSUME NEW l \in CheckpointLayers
    PROVE  /\ l[1] \in {"model", "mtp"} /\ l[2] \in Nat /\ Number(l) \in Nat
           /\ Root(l) \in Roots /\ Root(l) # HfRoot
           /\ Root(l) = DraftRoot <=> l[1] = "mtp"
           /\ l[1] = "mtp" => l[2] \in 0 .. NumDraftLayers - 1
<1>1. /\ l[1] \in {"model", "mtp"} /\ l[2] \in Nat
      /\ l[1] = "mtp" => l[2] \in 0 .. NumDraftLayers - 1
  BY QuantAssumption DEF CheckpointLayers
<1>2. TargetRoot # HfRoot /\ DraftRoot # HfRoot /\ TargetRoot # DraftRoot
  BY DEF TargetRoot, HfRoot, DraftRoot
<1>3. Number(l) \in Nat
  BY <1>1, QuantAssumption DEF Number
<1> QED
  BY <1>1, <1>2, <1>3 DEF Root, Roots

\* A layer is known by its root and its number, the checkpoint's or vLLM's.
LEMMA SameLayer ==
    ASSUME NEW l \in CheckpointLayers, NEW m \in CheckpointLayers, Root(l) = Root(m)
    PROVE  /\ l[2] = m[2] => l = m
           /\ Number(l) = Number(m) => l = m
<1>1. l[1] = m[1]
  BY LayerIs
<1>2. l[2] = m[2] => l = m
  BY <1>1 DEF CheckpointLayers
<1>3. Number(l) = Number(m) => l[2] = m[2]
  BY <1>1, LayerIs, QuantAssumption DEF Number
<1> QED
  BY <1>2, <1>3

\* A draft layer's name with another number.
LEMMA Renumbered ==
    ASSUME NEW n \in Nat, NEW m \in Nat, NEW path \in Seq(Words)
    PROVE  /\ Name(DraftRoot, n, path)[3] = n
           /\ [Name(DraftRoot, n, path) EXCEPT ![3] = m] = Name(DraftRoot, m, path)
<1> DEFINE a == Name(DraftRoot, n, path)
           b == Name(DraftRoot, m, path)
           r == DraftRoot
           c == [a EXCEPT ![3] = m]
<1>1. r \in Roots /\ Len(r) = 2
  BY DEF Roots, DraftRoot
<1> HIDE DEF r
<1>2. a = Name(r, n, path) /\ b = Name(r, m, path)
  BY DEF r
<1> HIDE DEF a, b, c
<1>3. a \in Seq(Component) /\ b \in Seq(Component) /\ Len(path) \in Nat
  BY <1>1, <1>2, NameIs
<1>4. Len(a) = 2 + 1 + Len(path) /\ Len(b) = 2 + 1 + Len(path)
  <2>1. Len(Name(r, n, path)) = Len(r) + 1 + Len(path)
    BY <1>1, NameIs, ZenonT(60)
  <2>2. Len(Name(r, m, path)) = Len(r) + 1 + Len(path)
    BY <1>1, NameIs, ZenonT(60)
  <2> QED
    BY <1>1, <1>2, <2>1, <2>2
<1>5. ASSUME NEW i \in 1 .. 2 PROVE a[i] = b[i]
  <2>1. \A j \in 1 .. Len(r) : Name(r, n, path)[j] = r[j]
    BY <1>1, NameIs, ZenonT(60)
  <2>2. \A j \in 1 .. Len(r) : Name(r, m, path)[j] = r[j]
    BY <1>1, NameIs, ZenonT(60)
  <2> QED
    BY <1>1, <1>2, <2>1, <2>2
<1>6. a[3] = n /\ b[3] = m
  <2>1. Name(r, n, path)[Len(r) + 1] = n
    BY <1>1, NameIs, ZenonT(60)
  <2>2. Name(r, m, path)[Len(r) + 1] = m
    BY <1>1, NameIs, ZenonT(60)
  <2>3. Len(r) + 1 = 3
    BY <1>1
  <2> QED
    BY <1>2, <2>1, <2>2, <2>3
<1>7. ASSUME NEW i \in 1 .. Len(path) PROVE a[3 + i] = b[3 + i]
  <2>1. \A j \in 1 .. Len(path) : Name(r, n, path)[Len(r) + 1 + j] = path[j]
    BY <1>1, NameIs
  <2>2. \A j \in 1 .. Len(path) : Name(r, m, path)[Len(r) + 1 + j] = path[j]
    BY <1>1, NameIs
  <2>3. Len(r) + 1 = 3
    BY <1>1
  <2> QED
    BY <1>2, <2>1, <2>2, <2>3
<1>8. c \in Seq(Component) /\ Len(c) = Len(a) /\ \A i \in 1 .. Len(c) : c[i] = IF i = 3 THEN m ELSE a[i]
  <2> DEFINE three == 3
  <2>1. three \in 1 .. Len(a) /\ m \in Component
    BY <1>3, <1>4 DEF Component
  <2>2. c = [a EXCEPT ![three] = m]
    BY DEF c
  <2> HIDE DEF three
  <2>3. c \in Seq(Component) /\ Len(c) = Len(a) /\ \A i \in 1 .. Len(c) : c[i] = IF i = three THEN m ELSE a[i]
    BY <1>3, <2>1, <2>2, ExceptSeq
  <2> QED
    BY <2>3 DEF three
<1>9. ASSUME NEW i \in 1 .. Len(c) PROVE c[i] = b[i]
  <2>1. CASE i \in 1 .. 2
    BY <1>5, <1>8, <2>1
  <2>2. CASE i = 3
    BY <1>6, <1>8, <2>2
  <2>3. CASE i > 3
    <3> DEFINE j == i - 3
    <3>1. j \in 1 .. Len(path) /\ i = 3 + j
      BY <1>3, <1>4, <1>8, <2>3
    <3> HIDE DEF j
    <3>2. c[i] = a[i]
      BY <1>8, <2>3
    <3> QED
      BY <1>7, <3>1, <3>2
  <2> QED
    BY <1>3, <1>4, <1>8, <2>1, <2>2, <2>3
<1>10. c = b
  <2>1. Len(c) = Len(b)
    BY <1>4, <1>8
  <2> QED
    BY <1>3, <1>8, <1>9, <2>1, SeqEqual
<1> QED
  BY <1>6, <1>10 DEF a, b, c

\* The mapper, of the names below a layer.
LEMMA MappedIs ==
    ASSUME NEW l \in CheckpointLayers, NEW path \in Seq(Words)
    PROVE  Mapped(HfName(l, path)) = Listed(l, path)
<1> DEFINE r == IF l[1] = "mtp" THEN DraftRoot ELSE HfRoot
           n == l[2]
<1>1. HfName(l, path) = Name(r, n, path)
  BY DEF HfName, Name
<1>2. n \in Nat /\ l[1] \in {"model", "mtp"}
  BY LayerIs
<1>3. /\ HfRoot \in Roots /\ DraftRoot \in Roots /\ TargetRoot \in Roots /\ Len(HfRoot) = 3
      /\ HfRoot # DraftRoot
  BY DEF Roots, HfRoot, DraftRoot, TargetRoot
<1> HIDE DEF n
<1>4. CASE l[1] = "mtp"
  <2>1. ~IsPrefix(HfRoot, Name(DraftRoot, n, path))
    BY <1>2, <1>3, RootPrefix
  <2> QED
    BY <1>1, <1>4, <2>1 DEF Mapped, Listed, Root, n
<1>5. CASE l[1] # "mtp"
  <2>1. IsPrefix(HfRoot, Name(HfRoot, n, path))
    BY <1>2, <1>3, RootPrefix
  <2>2. TargetRoot \o SubSeq(Name(HfRoot, n, path), 4, Len(Name(HfRoot, n, path))) = Name(TargetRoot, n, path)
    BY <1>2, <1>3, AfterRoot
  <2> QED
    BY <1>1, <1>5, <2>1, <2>2 DEF Mapped, Listed, Root, n
<1> QED
  BY <1>4, <1>5

\* The draft head's renumbering, of the mapped names.
LEMMA RemappedIs ==
    ASSUME NEW l \in CheckpointLayers, NEW path \in Seq(Words)
    PROVE  Remapped(Listed(l, path)) = Loaded(l, path)
<1> DEFINE n == l[2]
<1>1. n \in Nat /\ Root(l) \in Roots /\ (Root(l) = DraftRoot <=> l[1] = "mtp")
  BY LayerIs
<1> HIDE DEF n
<1>2. Listed(l, path) = Name(Root(l), n, path)
  BY DEF Listed, n
<1>3. Listed(l, path)[1] = "mtp" <=> l[1] = "mtp"
  BY <1>1, <1>2, NameStarts
<1>4. CASE l[1] # "mtp"
  BY <1>3, <1>4 DEF Remapped, Listed, Loaded, Number
<1>5. CASE l[1] = "mtp"
  <2> DEFINE m == NumLayers + n
             a == Name(DraftRoot, n, path)
  <2>1. m \in Nat
    BY <1>1, QuantAssumption
  <2>2. Loaded(l, path) = Name(DraftRoot, m, path) /\ Listed(l, path) = a
    BY <1>1, <1>2, <1>5 DEF Loaded, Number, n
  <2>3. Remapped(a) = [a EXCEPT ![3] = NumLayers + a[3]]
    BY <1>3, <1>5, <2>2 DEF Remapped
  <2> HIDE DEF a
  <2>4. a[3] = n
    BY <1>1, Renumbered DEF a
  <2>5. Remapped(a) = [a EXCEPT ![3] = m]
    BY <2>3, <2>4
  <2> HIDE DEF m
  <2>6. [a EXCEPT ![3] = m] = Name(DraftRoot, m, path)
    BY <1>1, <2>1, Renumbered DEF a
  <2> QED
    BY <2>2, <2>5, <2>6
<1> QED
  BY <1>4, <1>5

\* A sequence without its last element, and the last element.
LEMMA FrontOfConcat ==
    ASSUME NEW S, NEW t \in Seq(S), NEW e \in S
    PROVE  Front(t \o <<e>>) = t /\ Last(t \o <<e>>) = e
<1> DEFINE one == <<e>>
           a == t \o one
           n == Len(t)
           m == 1
           u == SubSeq(a, m, n)
<1>1. one \in Seq(S) /\ Len(one) = 1 /\ one[1] = e /\ n \in Nat
  OBVIOUS
<1> HIDE DEF one, m, n
<1>2. /\ a \in Seq(S) /\ Len(a) = n + 1
      /\ \A i \in 1 .. n + 1 : a[i] = IF i <= n THEN t[i] ELSE one[i - n]
  <2>1. /\ t \o one \in Seq(S) /\ Len(t \o one) = Len(t) + Len(one)
        /\ \A i \in 1 .. Len(t) + Len(one) : (t \o one)[i] = IF i <= Len(t) THEN t[i] ELSE one[i - Len(t)]
    BY <1>1, ConcatProperties
  <2> QED
    BY <1>1, <2>1 DEF n
<1> HIDE DEF a
<1>3. m \in Int /\ n \in Int /\ m = 1
  BY <1>1 DEF m
<1>4. \A i \in m .. n : a[i] \in S
  <2> SUFFICES ASSUME NEW i \in m .. n PROVE a[i] \in S
    OBVIOUS
  <2>1. i \in 1 .. Len(a)
    BY <1>1, <1>2, <1>3
  <2> QED
    BY <1>2, <2>1, ElementOfSeq
<1>5. /\ u \in Seq(S) /\ Len(u) = (IF m <= n THEN n - m + 1 ELSE 0)
      /\ \A i \in 1 .. n - m + 1 : u[i] = a[m + i - 1]
  BY <1>3, <1>4, SubSeqProperties
<1> HIDE DEF u
<1>6. Len(u) = n /\ \A i \in 1 .. n : u[i] = t[i]
  <2>1. Len(u) = n /\ n - m + 1 = n
    BY <1>1, <1>3, <1>5
  <2>2. ASSUME NEW i \in 1 .. n PROVE u[i] = t[i]
    <3>1. m + i - 1 = i /\ i \in 1 .. n + 1 /\ i <= n
      BY <1>1, <1>3
    <3> QED
      BY <1>2, <1>5, <2>1, <3>1
  <2> QED
    BY <2>1, <2>2
<1>7. u = t
  BY <1>5, <1>6, SeqEqual DEF n
<1>8. a[n + 1] = e
  <2>1. n + 1 \in 1 .. n + 1 /\ ~(n + 1 <= n) /\ (n + 1) - n = 1
    BY <1>1
  <2> QED
    BY <1>1, <1>2, <2>1
<1>9. Front(a) = u
  <2>1. Len(a) - 1 = n
    BY <1>1, <1>2
  <2> QED
    BY <2>1 DEF Front, u, m
<1> QED
  BY <1>2, <1>7, <1>8, <1>9 DEF Last, a, one

\* The last component of a name, and what precedes it.
LEMMA NameEnds ==
    ASSUME NEW r \in Roots, NEW n \in Nat, NEW path \in Seq(Words), path # <<>>
    PROVE  /\ Last(Name(r, n, path)) = Last(path)
           /\ Front(path) \in Seq(Words) /\ Front(Name(r, n, path)) = Name(r, n, Front(path))
           /\ \A proj \in Words : /\ Front(path) \o <<proj>> \in Seq(Words)
                                  /\ Front(Name(r, n, path)) \o <<proj>> = Name(r, n, Front(path) \o <<proj>>)
<1> DEFINE C == Component
           number == <<n>>
           a == r \o number
<1>1. Words \subseteq C /\ n \in C
  BY DEF Component
<1>2. r \in Seq(C)
  <2>1. {"language_model", "model", "mtp", "layers"} \subseteq Words
    BY DEF Words
  <2>2. Roots \subseteq Seq(Words)
    BY <2>1 DEF Roots, TargetRoot, HfRoot, DraftRoot
  <2> HIDE DEF C
  <2> QED
    BY <1>1, <2>2, SeqMonotonic
<1> HIDE DEF C
<1>3. number \in Seq(C)
  BY <1>1
<1> HIDE DEF number
<1>4. a \in Seq(C)
  BY <1>2, <1>3, ConcatProperties
<1>5. \A p : Name(r, n, p) = a \o p
  BY DEF Name, a, number
<1> HIDE DEF a
<1>6. PICK s \in Seq(Words), e \in Words : path = Append(s, e)
  BY SequenceEmptyOrAppend
<1> DEFINE one == <<e>>
<1>7. path = s \o one
  BY <1>6, AppendIsConcat
<1>8. s \in Seq(C) /\ one \in Seq(C) /\ e \in C
  <2>1. e \in C
    BY <1>1
  <2>2. one \in Seq(C)
    BY <2>1
  <2>3. s \in Seq(C)
    BY <1>1, SeqMonotonic
  <2> QED
    BY <2>1, <2>2, <2>3
<1>9. Front(path) = s /\ Last(path) = e
  BY <1>7, FrontOfConcat
<1>10. a \o path = (a \o s) \o one
  <2> HIDE DEF one
  <2>1. a \in Seq(C) /\ s \in Seq(C) /\ one \in Seq(C)
    BY <1>4, <1>8
  <2>2. (a \o s) \o one = a \o (s \o one)
    BY <2>1, ConcatAssociative
  <2> QED
    BY <1>7, <2>2
<1>11. a \o s \in Seq(C)
  BY <1>4, <1>8, ConcatProperties
<1>12. Front(a \o path) = a \o s /\ Last(a \o path) = e
  <2> DEFINE t == a \o s
  <2>1. t \in Seq(C)
    BY <1>11
  <2> HIDE DEF t
  <2>2. Front(t \o <<e>>) = t /\ Last(t \o <<e>>) = e
    BY <1>8, <2>1, FrontOfConcat
  <2> QED
    BY <1>10, <2>2 DEF t
<1>13. ASSUME NEW proj \in Words
       PROVE  s \o <<proj>> \in Seq(Words) /\ (a \o s) \o <<proj>> = a \o (s \o <<proj>>)
  <2> DEFINE two == <<proj>>
  <2>1. two \in Seq(Words)
    OBVIOUS
  <2> HIDE DEF two
  <2>2. two \in Seq(C)
    BY <1>1, <2>1, SeqMonotonic
  <2>3. s \o two \in Seq(Words)
    BY <2>1, ConcatProperties
  <2>4. (a \o s) \o two = a \o (s \o two)
    BY <1>4, <1>8, <2>2, ConcatAssociative
  <2> QED
    BY <2>3, <2>4 DEF two
<1> QED
  BY <1>5, <1>9, <1>12, <1>13

\* The names fused in a name are those of its path, below the same layer.
LEMMA FusedName ==
    ASSUME NEW r \in Roots, NEW n \in Nat, NEW path \in Seq(Words), path # <<>>
    PROVE  Fused(Name(r, n, path)) = {Name(r, n, f) : f \in Fused(path)}
<1> DEFINE mapping == packed_modules_mapping(Last(path))
           a == Name(r, n, path)
<1>1. mapping \subseteq Words
  BY DEF packed_modules_mapping, Words
<1>2. Last(a) = Last(path)
  BY NameEnds
<1>3. Fused(a) = {Front(a) \o <<proj>> : proj \in mapping}
  BY <1>2 DEF Fused
<1>4. Fused(path) = {Front(path) \o <<proj>> : proj \in mapping}
  BY DEF Fused
<1>5. ASSUME NEW proj \in mapping PROVE Front(a) \o <<proj>> = Name(r, n, Front(path) \o <<proj>>)
  BY <1>1, NameEnds
<1> HIDE DEF mapping, a
<1>6. {Front(a) \o <<proj>> : proj \in mapping} = {Name(r, n, Front(path) \o <<proj>>) : proj \in mapping}
  BY <1>5
<1>7. {Name(r, n, f) : f \in Fused(path)} = {Name(r, n, Front(path) \o <<proj>>) : proj \in mapping}
  BY <1>4
<1> QED
  BY <1>3, <1>6, <1>7 DEF a

-----------------------------------------------------------------------------
(* What is looked up.                                                      *)

\* The first that is not empty.
LEMMA FirstIs ==
    ASSUME NEW found, NEW i \in DOMAIN found, DOMAIN found \subseteq Nat, found[i] # {},
           \A j \in DOMAIN found : j < i => found[j] = {}
    PROVE  FirstOf(found) = found[i]
<1> DEFINE hits == {j \in DOMAIN found : found[j] # {}}
           first == CHOOSE j \in hits : \A k \in hits : j <= k
<1>1. i \in hits /\ hits \subseteq Nat
  OBVIOUS
<1>2. \A k \in hits : i <= k
  <2> SUFFICES ASSUME NEW k \in hits, k < i PROVE FALSE
    BY <1>1
  <2> QED
    OBVIOUS
<1>3. FirstOf(found) = found[first]
  BY <1>1 DEF FirstOf
<1> HIDE DEF hits
<1>4. first \in hits /\ \A k \in hits : first <= k
  BY <1>1, <1>2
<1> HIDE DEF first
<1>5. first = i
  BY <1>1, <1>2, <1>4
<1> QED
  BY <1>3, <1>5

\* Nothing, when all are empty.
LEMMA NoneIs ==
    ASSUME NEW found, \A j \in DOMAIN found : found[j] = {}
    PROVE  FirstOf(found) = {}
<1>1. {j \in DOMAIN found : found[j] # {}} = {}
  OBVIOUS
<1> QED
  BY <1>1 DEF FirstOf

\* A root and a number that no layer of the checkpoint has.
Foreign(r, n) == \A m \in CheckpointLayers : Root(m) = r => m[2] # n

\* The candidates of a layer's name are its name in the checkpoint and names of no layer:
\* with a second draft layer, its candidates would name the first.
LEMMA CandidatesAre ==
    ASSUME NumDraftLayers <= 1, NEW l \in CheckpointLayers, NEW path \in Seq(Words)
    PROVE  \E i \in DOMAIN Candidates(Loaded(l, path)) :
              /\ DOMAIN Candidates(Loaded(l, path)) \subseteq Nat
              /\ Candidates(Loaded(l, path))[i] = Listed(l, path)
              /\ \A j \in DOMAIN Candidates(Loaded(l, path)) \ {i} :
                   \E r \in Roots, n \in Nat :
                      Candidates(Loaded(l, path))[j] = Name(r, n, path) /\ Foreign(r, n)
<1> DEFINE p == Loaded(l, path)
           c == Candidates(p)
           k == Number(l)
<1>1. /\ l[1] \in {"model", "mtp"} /\ l[2] \in Nat /\ k \in Nat /\ Root(l) \in Roots
      /\ (Root(l) = DraftRoot <=> l[1] = "mtp")
      /\ (l[1] = "mtp" => l[2] \in 0 .. NumDraftLayers - 1)
  BY LayerIs
<1>2. HfRoot \in Roots /\ TargetRoot \in Roots /\ DraftRoot \in Roots /\ Len(TargetRoot) = 3
  BY DEF Roots, TargetRoot
<1>3. p[1] = "mtp" <=> l[1] = "mtp"
  <2> HIDE DEF k
  <2>1. p = Name(Root(l), k, path)
    BY DEF Loaded, k
  <2> HIDE DEF p
  <2> QED
    BY <1>1, <2>1, NameStarts
<1>4. CASE l[1] # "mtp"
  <2> DEFINE q == Name(HfRoot, k, path)
  <2>1. Root(l) = TargetRoot /\ k = l[2] /\ p = Name(TargetRoot, k, path) /\ p = Listed(l, path)
    BY <1>4 DEF Root, Number, Loaded, Listed
  <2> HIDE DEF k, p
  <2>2. IsPrefix(TargetRoot, p)
    <3>1. IsPrefix(TargetRoot, Name(TargetRoot, k, path))
      BY <1>1, <1>2, RootPrefix
    <3> QED
      BY <2>1, <3>1
  <2>3. HfRoot \o SubSeq(p, 4, Len(p)) = q
    <3>1. HfRoot \o SubSeq(Name(TargetRoot, k, path), 4, Len(Name(TargetRoot, k, path))) = Name(HfRoot, k, path)
      BY <1>1, <1>2, AfterRoot
    <3> QED
      BY <2>1, <3>1
  <2>4. c = <<p, q>>
    BY <1>3, <1>4, <2>2, <2>3 DEF Candidates
  <2>5. Foreign(HfRoot, k)
    BY LayerIs DEF Foreign
  <2> HIDE DEF q
  <2>6. DOMAIN c = {1, 2} /\ c[1] = p /\ c[2] = q
    BY <2>4
  <2> HIDE DEF c
  <2>7. 1 \in DOMAIN c /\ DOMAIN c \subseteq Nat /\ c[1] = Listed(l, path)
    BY <2>1, <2>6
  <2>8. \A j \in DOMAIN c \ {1} : c[j] = Name(HfRoot, k, path)
    BY <2>6 DEF q
  <2>9. \A j \in DOMAIN c \ {1} : \E r \in Roots, n \in Nat : c[j] = Name(r, n, path) /\ Foreign(r, n)
    BY <1>1, <1>2, <2>5, <2>8
  <2>10. \E i \in DOMAIN c :
           /\ DOMAIN c \subseteq Nat /\ c[i] = Listed(l, path)
           /\ \A j \in DOMAIN c \ {i} : \E r \in Roots, n \in Nat : c[j] = Name(r, n, path) /\ Foreign(r, n)
    BY <2>7, <2>9
  <2> QED
    BY <2>10 DEF c, p
<1>5. CASE l[1] = "mtp"
  <2> DEFINE last == IF k < 9 THEN k ELSE 9
             other == [j \in 1 .. last |-> Name(DraftRoot, j - 1, path)]
             one == <<p>>
             S == Seq(Component)
  <2>1. l[2] = 0 /\ NumDraftLayers = 1 /\ k = NumLayers /\ k \in Nat \ {0}
    BY <1>1, <1>5, QuantAssumption DEF Number
  <2>2. p = Name(DraftRoot, k, path) /\ Listed(l, path) = Name(DraftRoot, 0, path)
    BY <1>5, <2>1 DEF Loaded, Listed, Root
  <2> HIDE DEF k, p
  <2>3. p[3] = k
    BY <2>1, <2>2, Renumbered
  <2>4. \A j \in 1 .. last : j - 1 \in Nat
    BY <2>1
  <2>5. \A n \in Nat : [p EXCEPT ![3] = n] = Name(DraftRoot, n, path)
    BY <2>1, <2>2, Renumbered
  <2>6. [j \in 1 .. last |-> [p EXCEPT ![3] = j - 1]] = other
    BY <2>4, <2>5
  <2>7. c = one \o other
    <3> HIDE DEF other, one, S
    <3>1. c = <<p>> \o [j \in 1 .. IF p[3] < 9 THEN p[3] ELSE 9 |-> [p EXCEPT ![3] = j - 1]]
      <4>1. ~IsPrefix(TargetRoot, p)
        <5>1. ~IsPrefix(TargetRoot, Name(DraftRoot, k, path))
          <6>1. TargetRoot # DraftRoot
            BY DEF TargetRoot, DraftRoot
          <6> QED
            BY <1>2, <2>1, <6>1, RootPrefix
        <5> QED
          BY <2>2, <5>1
      <4>2. c = DraftCandidates(p)
        BY <1>3, <1>5, <4>1 DEF Candidates
      <4> HIDE DEF c
      <4> QED
        BY <4>2 DEF DraftCandidates
    <3>2. c = <<p>> \o [j \in 1 .. last |-> [p EXCEPT ![3] = j - 1]]
      BY <2>3, <3>1
    <3>3. c = <<p>> \o other
      BY <2>6, <3>2
    <3> QED
      BY <3>3 DEF one
  <2>8. last \in Nat \ {0}
    BY <2>1
  <2> HIDE DEF last
  <2>9. other \in Seq(S) /\ Len(other) = last
    <3>1. \A j \in 1 .. last : Name(DraftRoot, j - 1, path) \in S
      BY <1>2, <2>4, NameIs
    <3> HIDE DEF S
    <3> QED
      BY <2>8, <3>1
  <2>10. one \in Seq(S) /\ Len(one) = 1 /\ one[1] = p
    <3>1. p \in S
      BY <1>2, <2>1, <2>2, NameIs
    <3> QED
      BY <3>1
  <2>11. \A j \in 1 .. last : other[j] = Name(DraftRoot, j - 1, path)
    OBVIOUS
  <2> HIDE DEF S, other, one, c
  <2>12. /\ DOMAIN c = 1 .. last + 1
         /\ \A i \in 1 .. last + 1 : c[i] = IF i <= 1 THEN one[i] ELSE other[i - 1]
    <3>1. /\ one \o other \in Seq(S) /\ Len(one \o other) = Len(one) + Len(other)
          /\ \A i \in 1 .. Len(one) + Len(other) :
               (one \o other)[i] = IF i <= Len(one) THEN one[i] ELSE other[i - Len(one)]
      BY <2>9, <2>10, ConcatProperties
    <3>2. Len(one) + Len(other) = last + 1
      BY <2>8, <2>9, <2>10
    <3>3. DOMAIN c = 1 .. Len(c)
      BY <2>7, <3>1, LenProperties
    <3>4. Len(c) = last + 1
      BY <2>7, <3>1, <3>2
    <3>5. \A i \in 1 .. last + 1 : c[i] = IF i <= 1 THEN one[i] ELSE other[i - 1]
      BY <2>7, <2>10, <3>1, <3>2
    <3> QED
      BY <3>3, <3>4, <3>5
  <2>13. 2 \in DOMAIN c /\ c[2] = Listed(l, path)
    <3>1. 2 \in 1 .. last + 1 /\ 1 \in 1 .. last
      BY <2>8
    <3>2. c[2] = other[1]
      BY <2>12, <3>1
    <3>3. other[1] = Name(DraftRoot, 0, path)
      BY <2>11, <3>1
    <3> QED
      BY <2>2, <2>12, <3>1, <3>2, <3>3
  <2>14. \A n \in Nat \ {0} : Foreign(DraftRoot, n)
    <3> SUFFICES ASSUME NEW n \in Nat \ {0}, NEW m \in CheckpointLayers, Root(m) = DraftRoot PROVE m[2] # n
      BY DEF Foreign
    <3>1. m[2] \in 0 .. 0
      BY <2>1, LayerIs
    <3> QED
      BY <3>1
  <2>15. ASSUME NEW j \in DOMAIN c \ {2}
         PROVE  \E r \in Roots, n \in Nat : c[j] = Name(r, n, path) /\ Foreign(r, n)
    <3>1. CASE j = 1
      <4>1. c[j] = p
        BY <2>10, <2>12, <3>1
      <4>2. Foreign(DraftRoot, k)
        BY <2>1, <2>14
      <4> QED
        BY <1>2, <2>1, <2>2, <4>1, <4>2
    <3>2. CASE j # 1
      <4> DEFINE n == (j - 1) - 1
      <4>1. j - 1 \in 1 .. last /\ n \in Nat \ {0} /\ j \in 1 .. last + 1 /\ ~(j <= 1)
        BY <2>8, <2>12, <3>2
      <4>2. c[j] = Name(DraftRoot, n, path)
        BY <2>11, <2>12, <4>1
      <4> HIDE DEF n
      <4>3. Foreign(DraftRoot, n)
        BY <2>14, <4>1
      <4> QED
        BY <1>2, <4>1, <4>2, <4>3
    <3> QED
      BY <3>1, <3>2
  <2>16. DOMAIN c \subseteq Nat
    BY <2>8, <2>12
  <2>17. \E i \in DOMAIN c :
           /\ DOMAIN c \subseteq Nat /\ c[i] = Listed(l, path)
           /\ \A j \in DOMAIN c \ {i} : \E r \in Roots, n \in Nat : c[j] = Name(r, n, path) /\ Foreign(r, n)
    BY <2>13, <2>15, <2>16
  <2> QED
    BY <2>17 DEF c, p
<1> QED
  BY <1>4, <1>5

-----------------------------------------------------------------------------
(* What the checkpoint lists.                                              *)

\* The algorithm a weight is listed with, and the draft layers excluded by a wildcard.
Algo(how, l, part, u) ==
    IF how[l, part] # "mixed" THEN how[l, part]
    ELSE IF u = CHOOSE v \in part.units : TRUE THEN "NVFP4" ELSE "FP8"
Bare(how, wild, l) == wild /\ l[1] = "mtp" /\ \A part \in Parts : how[l, part] = "none"

\* The entry of a weight, and all of them.
Entry(how, x, u) == <<Listed(x[1], u), Algo(how, x[1], x[2], u)>>
QuantizedParts(how) == {x \in CheckpointLayers \X Parts : how[x] # "none"}
ListedEntries(how, whole) == UNION {{Entry(how, x, u) : u \in Units(x[2], whole)} : x \in QuantizedParts(how)}

ListedLayer(how, whole, e) ==
    \E m \in CheckpointLayers, other \in Parts : \E u \in Units(other, whole) :
       how[m, other] # "none" /\ e = <<Listed(m, u), Algo(how, m, other, u)>>

\* The entries, one by one.
LEMMA EntriesAre ==
    ASSUME NEW how, NEW whole \in BOOLEAN, NEW e
    PROVE  e \in ListedEntries(how, whole) <=> ListedLayer(how, whole, e)
<1>1. ASSUME e \in ListedEntries(how, whole)
      PROVE  \E m \in CheckpointLayers, other \in Parts : \E u \in Units(other, whole) :
                how[m, other] # "none" /\ e = <<Listed(m, u), Algo(how, m, other, u)>>
  <2>1. PICK x \in QuantizedParts(how) : \E u \in Units(x[2], whole) : e = Entry(how, x, u)
    BY <1>1 DEF ListedEntries
  <2>2. x[1] \in CheckpointLayers /\ x[2] \in Parts /\ how[x[1], x[2]] # "none"
    <3>1. x \in CheckpointLayers \X Parts /\ how[x] # "none"
      BY DEF QuantizedParts
    <3>2. x = <<x[1], x[2]>> /\ x[1] \in CheckpointLayers /\ x[2] \in Parts
      BY <3>1
    <3> QED
      BY <3>1, <3>2
  <2> QED
    BY <2>1, <2>2 DEF Entry
<1>2. ASSUME NEW m \in CheckpointLayers, NEW other \in Parts, NEW u \in Units(other, whole),
             how[m, other] # "none", e = <<Listed(m, u), Algo(how, m, other, u)>>
      PROVE  e \in ListedEntries(how, whole)
  <2> DEFINE x == <<m, other>>
  <2>1. x \in QuantizedParts(how) /\ x[1] = m /\ x[2] = other
    BY <1>2 DEF QuantizedParts
  <2>2. e = Entry(how, x, u)
    BY <1>2, <2>1 DEF Entry
  <2> HIDE DEF x
  <2>3. u \in Units(x[2], whole)
    BY <2>1
  <2>4. e \in {Entry(how, x, v) : v \in Units(x[2], whole)}
    BY <2>2, <2>3
  <2> QED
    BY <2>1, <2>4 DEF ListedEntries
<1> QED
  BY <1>1, <1>2 DEF ListedLayer

\* The algorithms that a name, and the names below it, were listed with.
MadeAt(how, whole, r, n, path, a) ==
    \E m \in CheckpointLayers, other \in Parts :
       /\ how[m, other] # "none" /\ Root(m) = r /\ m[2] = n
       /\ path \in Units(other, whole) /\ a = Algo(how, m, other, path)
MadeBelow(how, whole, r, n, path, a) ==
    \E m \in CheckpointLayers, other \in Parts : \E u \in Units(other, whole) :
       /\ how[m, other] # "none" /\ Root(m) = r /\ m[2] = n
       /\ IsPrefix(path, u) /\ u # path /\ a = Algo(how, m, other, u)

\* What is found at a name and below it.
LEMMA Found ==
    ASSUME NEW how, NEW whole \in BOOLEAN, quant.quantized_layers = ListedEntries(how, whole),
           NEW r \in Roots, NEW n \in Nat, NEW path \in Seq(Words), NEW a
    PROVE  /\ a \in AlgosAt({Name(r, n, path)}) <=> MadeAt(how, whole, r, n, path, a)
           /\ a \in AlgosBelow(Name(r, n, path)) <=> MadeBelow(how, whole, r, n, path, a)
<1> DEFINE name == Name(r, n, path)
<1>1. ASSUME NEW m \in CheckpointLayers, NEW other \in Parts, NEW u \in Units(other, whole)
      PROVE  /\ Listed(m, u) = name <=> Root(m) = r /\ m[2] = n /\ u = path
             /\ IsPrefix(name, Listed(m, u)) <=> Root(m) = r /\ m[2] = n /\ IsPrefix(path, u)
  <2>1. u \in Seq(Words) /\ Root(m) \in Roots /\ m[2] \in Nat
    BY UnitsAre, LayerIs
  <2> DEFINE q == Root(m)
             k == m[2]
  <2> HIDE DEF q, k
  <2>2. q \in Roots /\ k \in Nat
    BY <2>1 DEF q, k
  <2>3. /\ IsPrefix(Name(r, n, path), Name(q, k, u)) <=> r = q /\ n = k /\ IsPrefix(path, u)
        /\ Name(r, n, path) = Name(q, k, u) <=> r = q /\ n = k /\ path = u
    BY <2>1, <2>2, NamePrefix
  <2> QED
    BY <2>3 DEF Listed, q, k
<1> HIDE DEF name
<1> DEFINE Made(e, m, other, u) == how[m, other] # "none" /\ e = <<Listed(m, u), Algo(how, m, other, u)>>
<1>2. \A e : e \in ListedEntries(how, whole) <=>
               \E m \in CheckpointLayers, other \in Parts : \E u \in Units(other, whole) : Made(e, m, other, u)
  BY EntriesAre DEF ListedLayer
<1> HIDE DEF Made
<1>3. a \in AlgosAt({name}) <=>
         \E m \in CheckpointLayers, other \in Parts : \E u \in Units(other, whole) :
            how[m, other] # "none" /\ Listed(m, u) = name /\ a = Algo(how, m, other, u)
  <2>1. a \in AlgosAt({name}) <=> \E e \in ListedEntries(how, whole) : e[1] = name /\ e[2] = a
    BY DEF AlgosAt
  <2>2. ASSUME NEW e \in ListedEntries(how, whole), e[1] = name, e[2] = a
        PROVE  \E m \in CheckpointLayers, other \in Parts : \E u \in Units(other, whole) :
                  how[m, other] # "none" /\ Listed(m, u) = name /\ a = Algo(how, m, other, u)
    <3>1. PICK m \in CheckpointLayers, other \in Parts : \E u \in Units(other, whole) : Made(e, m, other, u)
      BY <1>2
    <3>2. PICK u \in Units(other, whole) : Made(e, m, other, u)
      BY <3>1
    <3>3. how[m, other] # "none" /\ e[1] = Listed(m, u) /\ e[2] = Algo(how, m, other, u)
      BY <3>2 DEF Made
    <3> QED
      BY <2>2, <3>2, <3>3
  <2>3. ASSUME NEW m \in CheckpointLayers, NEW other \in Parts, NEW u \in Units(other, whole),
               how[m, other] # "none", Listed(m, u) = name, a = Algo(how, m, other, u)
        PROVE  \E e \in ListedEntries(how, whole) : e[1] = name /\ e[2] = a
    <3> DEFINE e == <<Listed(m, u), Algo(how, m, other, u)>>
    <3>1. e[1] = name /\ e[2] = a
      BY <2>3
    <3>2. e \in ListedEntries(how, whole)
      BY <1>2, <2>3 DEF Made
    <3> QED
      BY <3>1, <3>2
  <2> QED
    BY <2>1, <2>2, <2>3
<1>4. a \in AlgosBelow(name) <=>
         \E m \in CheckpointLayers, other \in Parts : \E u \in Units(other, whole) :
            /\ how[m, other] # "none" /\ IsPrefix(name, Listed(m, u)) /\ name # Listed(m, u)
            /\ a = Algo(how, m, other, u)
  <2>1. a \in AlgosBelow(name) <=> \E e \in ListedEntries(how, whole) : IsPrefix(name, e[1]) /\ name # e[1] /\ e[2] = a
    BY DEF AlgosBelow, IsStrictPrefix
  <2>2. ASSUME NEW e \in ListedEntries(how, whole), IsPrefix(name, e[1]), name # e[1], e[2] = a
        PROVE  \E m \in CheckpointLayers, other \in Parts : \E u \in Units(other, whole) :
                  /\ how[m, other] # "none" /\ IsPrefix(name, Listed(m, u)) /\ name # Listed(m, u)
                  /\ a = Algo(how, m, other, u)
    <3>1. PICK m \in CheckpointLayers, other \in Parts : \E u \in Units(other, whole) : Made(e, m, other, u)
      BY <1>2
    <3>2. PICK u \in Units(other, whole) : Made(e, m, other, u)
      BY <3>1
    <3>3. how[m, other] # "none" /\ e[1] = Listed(m, u) /\ e[2] = Algo(how, m, other, u)
      BY <3>2 DEF Made
    <3> QED
      BY <2>2, <3>2, <3>3
  <2>3. ASSUME NEW m \in CheckpointLayers, NEW other \in Parts, NEW u \in Units(other, whole),
               how[m, other] # "none", IsPrefix(name, Listed(m, u)), name # Listed(m, u),
               a = Algo(how, m, other, u)
        PROVE  \E e \in ListedEntries(how, whole) : IsPrefix(name, e[1]) /\ name # e[1] /\ e[2] = a
    <3> DEFINE e == <<Listed(m, u), Algo(how, m, other, u)>>
    <3>1. e[1] = Listed(m, u) /\ e[2] = a
      BY <2>3
    <3>2. e \in ListedEntries(how, whole)
      BY <1>2, <2>3 DEF Made
    <3> HIDE DEF e
    <3>3. IsPrefix(name, e[1]) /\ name # e[1]
      BY <2>3, <3>1
    <3> QED
      BY <3>1, <3>2, <3>3
  <2> QED
    BY <2>1, <2>2, <2>3
<1>5. a \in AlgosAt({name}) <=>
         \E m \in CheckpointLayers, other \in Parts :
            /\ how[m, other] # "none" /\ Root(m) = r /\ m[2] = n
            /\ path \in Units(other, whole) /\ a = Algo(how, m, other, path)
  BY <1>1, <1>3
<1>6. a \in AlgosBelow(name) <=>
         \E m \in CheckpointLayers, other \in Parts : \E u \in Units(other, whole) :
            /\ how[m, other] # "none" /\ Root(m) = r /\ m[2] = n
            /\ IsPrefix(path, u) /\ u # path /\ a = Algo(how, m, other, u)
  BY <1>1, <1>4
<1> QED
  BY <1>5, <1>6 DEF name, MadeAt, MadeBelow

\* What the checkpoint may be made with.
LEMMA HowIs ==
    ASSUME NEW how \in HowMade, NEW l \in CheckpointLayers, NEW part \in Parts
    PROVE  /\ part.kind = "linear" => how[l, part] \in LinearAlgos \cup {"none", "mixed"}
           /\ part.kind # "linear" => how[l, part] \in ExpertAlgos \cup {"none"} /\ how[l, part] # "mixed"
<1> DEFINE x == <<l, part>>
<1>1. x \in CheckpointLayers \X Parts /\ x[2] = part
  OBVIOUS
<1>2. how[x] \in {"none"} \cup IF x[2].kind = "linear" THEN LinearAlgos \cup {"mixed"} ELSE ExpertAlgos
  BY <1>1 DEF HowMade
<1> QED
  BY <1>1, <1>2, QuantAssumption

\* What is found at several names.
LEMMA FoundAmong ==
    ASSUME NEW names, NEW a
    PROVE  a \in AlgosAt(names) <=> \E name \in names : a \in AlgosAt({name})
BY DEF AlgosAt

\* No part is called by an empty name.
LEMMA NamesNotEmpty ==
    ASSUME NEW part \in Parts
    PROVE  part.name # <<>>
<1> DEFINE path == part.name
           k == Len(path)
<1>1. k \in {2, 3}
  BY NamesAre
<1>2. path = <<>> => k = 0
  OBVIOUS
<1> HIDE DEF k
<1> QED
  BY <1>1, <1>2

\* Nothing is found under names of no layer.
LEMMA ForeignFindsNone ==
    ASSUME NEW how, NEW whole \in BOOLEAN, quant.quantized_layers = ListedEntries(how, whole),
           NEW r \in Roots, NEW n \in Nat, NEW path \in Seq(Words), Foreign(r, n)
    PROVE  /\ AlgosAt({Name(r, n, path)}) = {}
           /\ AlgosBelow(Name(r, n, path)) = {}
<1>1. \A m \in CheckpointLayers : ~(Root(m) = r /\ m[2] = n)
  BY DEF Foreign
<1>2. \A a : ~MadeAt(how, whole, r, n, path, a) /\ ~MadeBelow(how, whole, r, n, path, a)
  BY <1>1 DEF MadeAt, MadeBelow
<1>3. \A a : a \notin AlgosAt({Name(r, n, path)}) /\ a \notin AlgosBelow(Name(r, n, path))
  BY <1>2, Found
<1> QED
  BY <1>2, <1>3

\* Nor under the names fused in them.
LEMMA ForeignFusesNone ==
    ASSUME NEW how, NEW whole \in BOOLEAN, quant.quantized_layers = ListedEntries(how, whole),
           NEW r \in Roots, NEW n \in Nat, NEW part \in Parts, Foreign(r, n)
    PROVE  AlgosAt(Fused(Name(r, n, part.name))) = {}
<1> DEFINE path == part.name
<1>1. path \in Seq(Words) /\ path # <<>> /\ Fused(path) \subseteq Seq(Words)
  <2>1. part.kind = "linear" => part.units = Fused(path)
    BY PartIs
  <2>2. part.units \subseteq Seq(Words) /\ (path = Experts \/ part.kind = "linear") /\ path \in Seq(Words)
    BY PartIs
  <2> QED
    BY <2>1, <2>2, FusedAre, NamesNotEmpty
<1> HIDE DEF path
<1>2. Fused(Name(r, n, path)) = {Name(r, n, f) : f \in Fused(path)}
  BY <1>1, FusedName
<1>3. \A f \in Fused(path) : AlgosAt({Name(r, n, f)}) = {}
  BY <1>1, ForeignFindsNone
<1>4. \A a : a \notin AlgosAt(Fused(Name(r, n, path)))
  <2> DEFINE names == Fused(Name(r, n, path))
  <2> SUFFICES ASSUME NEW a PROVE a \notin AlgosAt(names)
    OBVIOUS
  <2> HIDE DEF names
  <2>1. a \in AlgosAt(names) <=> \E name \in names : a \in AlgosAt({name})
    BY FoundAmong
  <2> QED
    BY <1>2, <1>3, <2>1 DEF names
<1> QED
  BY <1>4 DEF path

\* What is found under a layer's own name.
LEMMA LayerFinds ==
    ASSUME NEW how \in HowMade, NEW whole \in BOOLEAN, quant.quantized_layers = ListedEntries(how, whole),
           NEW l \in CheckpointLayers, NEW part \in Parts, how[l, part] # "none"
    PROVE  /\ AlgosAt({Listed(l, part.name)}) = IF part.name = Experts /\ whole THEN {how[l, part]} ELSE {}
           /\ AlgosBelow(Listed(l, part.name)) = IF part.name = Experts /\ ~whole THEN {how[l, part]} ELSE {}
           /\ AlgosAt(Fused(Listed(l, part.name))) =
                IF part.name = Experts THEN {} ELSE {Algo(how, l, part, u) : u \in part.units}
<1> DEFINE path == part.name
           r == Root(l)
           n == l[2]
<1>1. /\ path \in Seq(Words) /\ part.units \subseteq Seq(Words)
      /\ (part.kind = IF path = Experts THEN "experts" ELSE "linear")
      /\ (part.kind = "linear" => part.units = Fused(path))
  BY PartIs
<1>2. r \in Roots /\ n \in Nat
  BY LayerIs
<1>3. \A m \in CheckpointLayers : Root(m) = r /\ m[2] = n <=> m = l
  BY SameLayer
<1>4. Listed(l, path) = Name(r, n, path)
  BY DEF Listed
<1>5. path = Experts => \A u : Algo(how, l, part, u) = how[l, part]
  BY <1>1, HowIs DEF Algo
<1>6. ASSUME NEW other \in Parts, NEW u \in Units(other, whole)
      PROVE  /\ IsPrefix(path, u) => other = part /\ path = Experts
             /\ path = Experts /\ other = part => IsPrefix(path, u)
             /\ u = path <=> path = Experts /\ other = part /\ whole
             /\ u \in Units(part, whole) => other = part
  BY PathsApart
<1>7. path = Experts => \E u : u \in Units(part, whole)
  <2> SUFFICES ASSUME path = Experts PROVE \E u : u \in Units(part, whole)
    OBVIOUS
  <2>1. part.units = {<<"mlp", "experts", "0", "up_proj">>, <<"mlp", "experts", "0", "down_proj">>}
    BY PartIs
  <2> QED
    BY <2>1 DEF Units
<1>8. path = Experts /\ whole => path \in Units(part, whole)
  BY <1>1 DEF Units
<1> HIDE DEF path, r, n
<1>9. AlgosAt({Name(r, n, path)}) = IF path = Experts /\ whole THEN {how[l, part]} ELSE {}
  <2>1. ASSUME NEW a PROVE a \in AlgosAt({Name(r, n, path)}) <=> path = Experts /\ whole /\ a = how[l, part]
    <3>1. a \in AlgosAt({Name(r, n, path)}) <=> MadeAt(how, whole, r, n, path, a)
      BY <1>1, <1>2, Found
    <3>2. a \in AlgosAt({Name(r, n, path)}) <=>
            \E other \in Parts :
               how[l, other] # "none" /\ path \in Units(other, whole) /\ a = Algo(how, l, other, path)
      BY <1>3, <3>1 DEF MadeAt
    <3>3. \A other \in Parts : path \in Units(other, whole) => other = part /\ path = Experts /\ whole
      BY <1>6
    <3> QED
      BY <1>5, <1>8, <3>2, <3>3
  <2>2. CASE path = Experts /\ whole
    <3> DEFINE found == AlgosAt({Name(r, n, path)})
               h == how[l, part]
    <3> HIDE DEF found, h
    <3>1. \A a : a \in found <=> a = h
      BY <2>1, <2>2 DEF found, h
    <3>2. found = {h}
      BY <3>1
    <3> QED
      BY <2>2, <3>2 DEF found, h
  <2>3. CASE ~(path = Experts /\ whole)
    BY <2>1, <2>3
  <2> QED
    BY <2>2, <2>3
<1>10. AlgosBelow(Name(r, n, path)) = IF path = Experts /\ ~whole THEN {how[l, part]} ELSE {}
  <2>1. ASSUME NEW a PROVE a \in AlgosBelow(Name(r, n, path)) <=> path = Experts /\ ~whole /\ a = how[l, part]
    <3>1. a \in AlgosBelow(Name(r, n, path)) <=> MadeBelow(how, whole, r, n, path, a)
      BY <1>1, <1>2, Found
    <3>2. a \in AlgosBelow(Name(r, n, path)) <=>
            \E other \in Parts : \E u \in Units(other, whole) :
               how[l, other] # "none" /\ IsPrefix(path, u) /\ u # path /\ a = Algo(how, l, other, u)
      BY <1>3, <3>1 DEF MadeBelow
    <3>3. \A other \in Parts : \A u \in Units(other, whole) :
            IsPrefix(path, u) /\ u # path <=> other = part /\ path = Experts /\ ~whole
      BY <1>6
    <3> QED
      BY <1>5, <1>7, <3>2, <3>3
  <2>2. CASE path = Experts /\ ~whole
    <3> DEFINE found == AlgosBelow(Name(r, n, path))
               h == how[l, part]
    <3> HIDE DEF found, h
    <3>1. \A a : a \in found <=> a = h
      BY <2>1, <2>2 DEF found, h
    <3>2. found = {h}
      BY <3>1
    <3> QED
      BY <2>2, <3>2 DEF found, h
  <2>3. CASE ~(path = Experts /\ ~whole)
    BY <2>1, <2>3
  <2> QED
    BY <2>2, <2>3
<1>11. AlgosAt(Fused(Name(r, n, path))) = IF path = Experts THEN {} ELSE {Algo(how, l, part, u) : u \in part.units}
  <2>1. path # <<>>
    BY NamesNotEmpty DEF path
  <2>2. Fused(Name(r, n, path)) = {Name(r, n, f) : f \in Fused(path)}
    BY <1>1, <1>2, <2>1, FusedName
  <2>3. CASE path = Experts
    <3>1. Fused(Name(r, n, path)) = {}
      BY <2>2, <2>3, FusedAre
    <3> QED
      BY <2>3, <3>1 DEF AlgosAt
  <2>4. CASE path # Experts
    <3>1. Fused(path) = part.units /\ part.units = Units(part, whole)
      BY <1>1, <2>4 DEF Units
    <3>2. ASSUME NEW f \in part.units, NEW a
          PROVE  a \in AlgosAt({Name(r, n, f)}) <=> a = Algo(how, l, part, f)
      <4>1. f \in Seq(Words)
        BY <1>1
      <4>2. a \in AlgosAt({Name(r, n, f)}) <=> MadeAt(how, whole, r, n, f, a)
        BY <1>2, <4>1, Found
      <4>3. \A other \in Parts : f \in Units(other, whole) <=> other = part
        BY <1>6, <3>1
      <4> QED
        BY <1>3, <4>2, <4>3 DEF MadeAt
    <3>3. ASSUME NEW a
          PROVE  a \in AlgosAt(Fused(Name(r, n, path))) <=> \E f \in part.units : a = Algo(how, l, part, f)
      <4> DEFINE names == Fused(Name(r, n, path))
      <4>1. names = {Name(r, n, f) : f \in part.units}
        BY <2>2, <3>1
      <4> HIDE DEF names
      <4>2. a \in AlgosAt(names) <=> \E name \in names : a \in AlgosAt({name})
        BY FoundAmong
      <4>3. a \in AlgosAt(names) <=> \E f \in part.units : a \in AlgosAt({Name(r, n, f)})
        BY <4>1, <4>2
      <4> QED
        BY <3>2, <4>3 DEF names
    <3>4. AlgosAt(Fused(Name(r, n, path))) = {Algo(how, l, part, u) : u \in part.units}
      BY <3>3
    <3> QED
      BY <2>4, <3>4
  <2> QED
    BY <2>3, <2>4
<1> QED
  BY <1>4, <1>9, <1>10, <1>11 DEF path

-----------------------------------------------------------------------------
(* What a layer resolves to.                                               *)

\* The only one that may not be empty.
LEMMA OnlyFound ==
    ASSUME NEW found, NEW i \in DOMAIN found, DOMAIN found \subseteq Nat,
           \A j \in DOMAIN found \ {i} : found[j] = {}
    PROVE  FirstOf(found) = found[i]
<1>1. CASE found[i] = {}
  <2>1. \A j \in DOMAIN found : found[j] = {}
    BY <1>1
  <2> QED
    BY <1>1, <2>1, NoneIs
<1>2. CASE found[i] # {}
  <2>1. \A j \in DOMAIN found : j < i => found[j] = {}
    <3> SUFFICES ASSUME NEW j \in DOMAIN found, j < i PROVE found[j] = {}
      OBVIOUS
    <3>1. j # i
      OBVIOUS
    <3> QED
      BY <3>1
  <2> QED
    BY <1>2, <2>1, FirstIs
<1> QED
  BY <1>1, <1>2

\* The first of five.
LEMMA FirstOfFive ==
    ASSUME NEW a, NEW b, NEW c, NEW d, NEW e
    PROVE  /\ a # {} => FirstOf(<<a, b, c, d, e>>) = a
           /\ a = {} /\ b # {} => FirstOf(<<a, b, c, d, e>>) = b
           /\ a = {} /\ b = {} /\ c # {} => FirstOf(<<a, b, c, d, e>>) = c
<1> DEFINE found == <<a, b, c, d, e>>
<1>1. DOMAIN found = {1, 2, 3, 4, 5} /\ found[1] = a /\ found[2] = b /\ found[3] = c
  OBVIOUS
<1> HIDE DEF found
<1>2. 1 \in DOMAIN found /\ 2 \in DOMAIN found /\ 3 \in DOMAIN found /\ DOMAIN found \subseteq Nat
      /\ (\A j \in DOMAIN found : j < 2 => j = 1) /\ (\A j \in DOMAIN found : j < 3 => j = 1 \/ j = 2)
      /\ (\A j \in DOMAIN found : ~(j < 1))
  BY <1>1
<1>3. ASSUME a # {} PROVE FirstOf(found) = a
  BY <1>1, <1>2, <1>3, FirstIs
<1>4. ASSUME a = {}, b # {} PROVE FirstOf(found) = b
  <2>1. \A j \in DOMAIN found : j < 2 => found[j] = {}
    BY <1>1, <1>2, <1>4
  <2> QED
    BY <1>1, <1>2, <1>4, <2>1, FirstIs
<1>5. ASSUME a = {}, b = {}, c # {} PROVE FirstOf(found) = c
  <2>1. \A j \in DOMAIN found : j < 3 => found[j] = {}
    BY <1>1, <1>2, <1>5
  <2> QED
    BY <1>1, <1>2, <1>5, <2>1, FirstIs
<1> QED
  BY <1>3, <1>4, <1>5 DEF found

\* Several algorithms are an error for fused names.
LEMMA Outcome ==
    ASSUME NEW s, NEW names, NEW r, r = IF names # {} /\ Cardinality(s) > 1 THEN {"error"} ELSE s
    PROVE  /\ Cardinality(s) = 2 /\ names # {} => r = {"error"}
           /\ Cardinality(s) = 1 \/ names = {} => r = s
OBVIOUS

\* The algorithms of a fused layer's weights.
LEMMA UnitsAlgos ==
    ASSUME NEW how \in HowMade, NEW l \in CheckpointLayers, NEW part \in Parts, part.name # Experts
    PROVE  {Algo(how, l, part, u) : u \in part.units} =
             IF how[l, part] = "mixed" THEN {"NVFP4", "FP8"} ELSE {how[l, part]}
<1> DEFINE units == part.units
           v == CHOOSE u \in units : TRUE
           h == how[l, part]
<1>1. \E a, b \in units : a # b
  <2>1. units = Fused(part.name) /\ part.name \in {Qkv, GateUp}
    BY PartIs
  <2>2. CASE part.name = Qkv
    <3>1. <<"self_attn", "q_proj">> # <<"self_attn", "k_proj">>
      OBVIOUS
    <3> QED
      BY <2>1, <2>2, <3>1, FusedAre
  <2>3. CASE part.name = GateUp
    <3>1. <<"mlp", "shared_expert", "gate_proj">> # <<"mlp", "shared_expert", "up_proj">>
      OBVIOUS
    <3> QED
      BY <2>1, <2>3, <3>1, FusedAre
  <2> QED
    BY <2>1, <2>2, <2>3
<1>2. \A u : Algo(how, l, part, u) = IF h # "mixed" THEN h ELSE IF u = v THEN "NVFP4" ELSE "FP8"
  BY DEF Algo
<1> HIDE DEF units, h
<1>3. v \in units
  BY <1>1
<1> HIDE DEF v
<1>4. \E u \in units : u # v
  BY <1>1
<1>5. CASE h = "mixed"
  <2>1. {Algo(how, l, part, u) : u \in units} = {IF u = v THEN "NVFP4" ELSE "FP8" : u \in units}
    BY <1>2, <1>5
  <2>2. {IF u = v THEN "NVFP4" ELSE "FP8" : u \in units} = {"NVFP4", "FP8"}
    BY <1>3, <1>4
  <2> QED
    BY <1>5, <2>1, <2>2 DEF units, h
<1>6. CASE h # "mixed"
  <2>1. {Algo(how, l, part, u) : u \in units} = {h : u \in units}
    BY <1>2, <1>6
  <2>2. {h : u \in units} = {h}
    BY <1>3
  <2> QED
    BY <1>6, <2>1, <2>2 DEF units, h
<1> QED
  BY <1>5, <1>6

\* How many algorithms these are.
LEMMA Cardinalities ==
    ASSUME NEW h
    PROVE  Cardinality({h}) = 1 /\ Cardinality({"NVFP4", "FP8"}) = 2
<1>1. Cardinality({h}) = 1 /\ Cardinality({"NVFP4"}) = 1 /\ IsFiniteSet({"NVFP4"})
  BY FS_Singleton
<1>2. "FP8" \notin {"NVFP4"}
  OBVIOUS
<1>3. Cardinality({"NVFP4"} \cup {"FP8"}) = Cardinality({"NVFP4"}) + 1
  BY <1>1, <1>2, FS_AddElement
<1>4. {"NVFP4"} \cup {"FP8"} = {"NVFP4", "FP8"}
  OBVIOUS
<1> QED
  BY <1>1, <1>3, <1>4

\* What is found directly, under the fused names and below, in this order.
Direct(candidates) == FirstOf([i \in DOMAIN candidates |-> AlgosAt({candidates[i]})])
Together(candidates) == AlgosAt(UNION {Fused(candidates[i]) : i \in DOMAIN candidates})
Below(candidates) == FirstOf([i \in DOMAIN candidates |-> AlgosBelow(candidates[i])])

\* How a name resolves by what is found.
LEMMA ResolvedIs ==
    ASSUME NEW prefix
    PROVE  \E algos :
             /\ Direct(Candidates(prefix)) # {} => algos = Direct(Candidates(prefix))
             /\ Direct(Candidates(prefix)) = {} /\ Together(Candidates(prefix)) # {} =>
                  algos = Together(Candidates(prefix))
             /\ /\ Direct(Candidates(prefix)) = {} /\ Together(Candidates(prefix)) = {}
                /\ Below(Candidates(prefix)) # {}
                => algos = Below(Candidates(prefix))
             /\ Cardinality(algos) = 2 /\ Fused(prefix) # {} => ResolvedAlgos(prefix) = {"error"}
             /\ Cardinality(algos) = 1 \/ Fused(prefix) = {} => ResolvedAlgos(prefix) = algos
<1> DEFINE candidates == Candidates(prefix)
           direct == FirstOf([i \in DOMAIN candidates |-> AlgosAt({candidates[i]})])
           fused == AlgosAt(UNION {Fused(candidates[i]) : i \in DOMAIN candidates})
           below == FirstOf([i \in DOMAIN candidates |-> AlgosBelow(candidates[i])])
           beside == IF Last(prefix) = "experts" THEN AlgosBelow(Front(prefix)) ELSE {}
           fallback == FirstOf([i \in DOMAIN candidates |-> AlgosAt(Fused(candidates[i]))])
           algos == FirstOf(<<direct, fused, below, beside, fallback>>)
<1>1. ResolvedAlgos(prefix) = IF Fused(prefix) # {} /\ Cardinality(algos) > 1 THEN {"error"} ELSE algos
  BY DEF ResolvedAlgos
<1>2. direct = Direct(candidates) /\ fused = Together(candidates) /\ below = Below(candidates)
  BY DEF Direct, Together, Below
<1> HIDE DEF direct, fused, below, beside, fallback, candidates
<1>3. /\ direct # {} => algos = direct
      /\ direct = {} /\ fused # {} => algos = fused
      /\ direct = {} /\ fused = {} /\ below # {} => algos = below
  BY FirstOfFive
<1> HIDE DEF algos
<1>4. /\ Cardinality(algos) = 2 /\ Fused(prefix) # {} => ResolvedAlgos(prefix) = {"error"}
      /\ Cardinality(algos) = 1 \/ Fused(prefix) = {} => ResolvedAlgos(prefix) = algos
  BY <1>1, Outcome
<1> QED
  BY <1>2, <1>3, <1>4 DEF candidates

\* A part of a layer that was quantized resolves to what it was made with.
LEMMA PartResolves ==
    ASSUME NumDraftLayers <= 1, NEW how \in HowMade, NEW whole \in BOOLEAN,
           quant.quantized_layers = ListedEntries(how, whole),
           NEW l \in CheckpointLayers, NEW part \in Parts, how[l, part] # "none"
    PROVE  ResolvedAlgos(Loaded(l, part.name)) = {IF how[l, part] = "mixed" THEN "error" ELSE how[l, part]}
<1> DEFINE prefix == Loaded(l, part.name)
           candidates == Candidates(prefix)
           direct == Direct(candidates)
           fused == Together(candidates)
           below == Below(candidates)
           mine == Listed(l, part.name)
           h == how[l, part]
<1>2. part.name \in Seq(Words) /\ part.name # <<>>
  BY PartIs, NamesNotEmpty
<1>3. PICK i \in DOMAIN candidates :
        /\ DOMAIN candidates \subseteq Nat /\ candidates[i] = mine
        /\ \A j \in DOMAIN candidates \ {i} :
             \E r \in Roots, n \in Nat : candidates[j] = Name(r, n, part.name) /\ Foreign(r, n)
  BY <1>2, CandidatesAre
<1>4. ASSUME NEW j \in DOMAIN candidates \ {i}
      PROVE  AlgosAt({candidates[j]}) = {} /\ AlgosBelow(candidates[j]) = {} /\ AlgosAt(Fused(candidates[j])) = {}
  <2>1. PICK r \in Roots, n \in Nat : candidates[j] = Name(r, n, part.name) /\ Foreign(r, n)
    BY <1>3
  <2>2. AlgosAt({Name(r, n, part.name)}) = {} /\ AlgosBelow(Name(r, n, part.name)) = {}
    BY <1>2, <2>1, ForeignFindsNone
  <2>3. AlgosAt(Fused(Name(r, n, part.name))) = {}
    BY <2>1, ForeignFusesNone
  <2> QED
    BY <2>1, <2>2, <2>3
<1> HIDE DEF candidates, mine
<1>5. direct = AlgosAt({mine})
  <2> DEFINE all == [j \in DOMAIN candidates |-> AlgosAt({candidates[j]})]
  <2>1. DOMAIN all = DOMAIN candidates /\ all[i] = AlgosAt({mine}) /\ \A j \in DOMAIN all \ {i} : all[j] = {}
    BY <1>3, <1>4
  <2> HIDE DEF all
  <2>2. FirstOf(all) = all[i]
    BY <1>3, <2>1, OnlyFound
  <2> QED
    BY <2>1, <2>2 DEF all, Direct
<1>6. below = AlgosBelow(mine)
  <2> DEFINE all == [j \in DOMAIN candidates |-> AlgosBelow(candidates[j])]
  <2>1. DOMAIN all = DOMAIN candidates /\ all[i] = AlgosBelow(mine) /\ \A j \in DOMAIN all \ {i} : all[j] = {}
    BY <1>3, <1>4
  <2> HIDE DEF all
  <2>2. FirstOf(all) = all[i]
    BY <1>3, <2>1, OnlyFound
  <2> QED
    BY <2>1, <2>2 DEF all, Below
<1>7. fused = AlgosAt(Fused(mine))
  <2> DEFINE names == UNION {Fused(candidates[j]) : j \in DOMAIN candidates}
             own == Fused(mine)
  <2>1. own \subseteq names
    BY <1>3
  <2>2. ASSUME NEW name \in names, name \notin own PROVE AlgosAt({name}) = {}
    <3>1. PICK j \in DOMAIN candidates : name \in Fused(candidates[j])
      OBVIOUS
    <3>2. j # i
      BY <1>3, <2>2, <3>1
    <3>3. AlgosAt(Fused(candidates[j])) = {}
      BY <1>4, <3>2
    <3> DEFINE these == Fused(candidates[j])
    <3> HIDE DEF these
    <3>4. \A a : a \in AlgosAt(these) <=> \E x \in these : a \in AlgosAt({x})
      BY FoundAmong
    <3>5. \A a : a \notin AlgosAt({name})
      BY <3>1, <3>3, <3>4 DEF these
    <3> QED
      BY <3>5
  <2> HIDE DEF names, own
  <2>3. \A a : a \in AlgosAt(names) <=> \E x \in names : a \in AlgosAt({x})
    BY FoundAmong
  <2>4. \A a : a \in AlgosAt(own) <=> \E x \in own : a \in AlgosAt({x})
    BY FoundAmong
  <2>5. \A a : a \in AlgosAt(names) <=> a \in AlgosAt(own)
    BY <2>1, <2>2, <2>3, <2>4
  <2>6. AlgosAt(names) = AlgosAt(own)
    <3> DEFINE A == AlgosAt(names)
               B == AlgosAt(own)
    <3> HIDE DEF A, B
    <3>1. \A a : a \in A <=> a \in B
      BY <2>5 DEF A, B
    <3>2. A = B
      BY <3>1
    <3> QED
      BY <3>2 DEF A, B
  <2> QED
    BY <2>6 DEF names, own, Together
<1> HIDE DEF direct, fused, below, h, prefix
<1>8. /\ direct = IF part.name = Experts /\ whole THEN {h} ELSE {}
      /\ below = IF part.name = Experts /\ ~whole THEN {h} ELSE {}
      /\ fused = IF part.name = Experts THEN {} ELSE IF h = "mixed" THEN {"NVFP4", "FP8"} ELSE {h}
  <2>1. part.name # Experts =>
          {Algo(how, l, part, u) : u \in part.units} = IF h = "mixed" THEN {"NVFP4", "FP8"} ELSE {h}
    BY UnitsAlgos DEF h
  <2>2. /\ AlgosAt({mine}) = IF part.name = Experts /\ whole THEN {h} ELSE {}
        /\ AlgosBelow(mine) = IF part.name = Experts /\ ~whole THEN {h} ELSE {}
        /\ AlgosAt(Fused(mine)) = IF part.name = Experts THEN {} ELSE {Algo(how, l, part, u) : u \in part.units}
    BY LayerFinds, ZenonT(60) DEF mine, h
  <2> QED
    BY <1>5, <1>6, <1>7, <2>1, <2>2
<1>9. PICK algos :
        /\ direct # {} => algos = direct
        /\ direct = {} /\ fused # {} => algos = fused
        /\ direct = {} /\ fused = {} /\ below # {} => algos = below
        /\ Cardinality(algos) = 2 /\ Fused(prefix) # {} => ResolvedAlgos(prefix) = {"error"}
        /\ Cardinality(algos) = 1 \/ Fused(prefix) = {} => ResolvedAlgos(prefix) = algos
  BY ResolvedIs DEF direct, fused, below, candidates
<1>11. Fused(prefix) = {} <=> part.name = Experts
  <2>1. Fused(Name(Root(l), Number(l), part.name)) = {Name(Root(l), Number(l), f) : f \in Fused(part.name)}
    <3> DEFINE r == Root(l)
               n == Number(l)
    <3>1. r \in Roots /\ n \in Nat
      BY LayerIs
    <3> HIDE DEF r, n
    <3>2. Fused(Name(r, n, part.name)) = {Name(r, n, f) : f \in Fused(part.name)}
      BY <1>2, <3>1, FusedName
    <3> QED
      BY <3>2 DEF r, n
  <2>2. Fused(part.name) = {} <=> part.name = Experts
    <3>1. part.name \in {Qkv, GateUp, Experts}
      BY PartIs
    <3>2. Fused(Qkv) # {} /\ Fused(GateUp) # {} /\ Fused(Experts) = {}
      BY FusedAre
    <3> QED
      BY <3>1, <3>2
  <2> QED
    BY <2>1, <2>2 DEF prefix, Loaded
<1>12. CASE part.name # Experts
  <2>1. direct = {} /\ fused = IF h = "mixed" THEN {"NVFP4", "FP8"} ELSE {h}
    BY <1>8, <1>12
  <2>2. algos = fused
    BY <1>9, <2>1
  <2>3. CASE h = "mixed"
    <3>1. Cardinality(algos) = 2
      BY <2>1, <2>2, <2>3, Cardinalities
    <3>2. ResolvedAlgos(prefix) = {"error"}
      BY <1>9, <1>11, <1>12, <3>1
    <3> QED
      BY <2>3, <3>2 DEF prefix, h
  <2>4. CASE h # "mixed"
    <3>1. algos = {h}
      BY <2>1, <2>2, <2>4
    <3>2. Cardinality(algos) = 1
      BY <3>1, Cardinalities
    <3>3. ResolvedAlgos(prefix) = {h}
      BY <1>9, <3>1, <3>2
    <3> QED
      BY <2>4, <3>3 DEF prefix, h
  <2> QED
    BY <2>3, <2>4
<1>13. CASE part.name = Experts
  <2>1. h # "mixed"
    <3>1. part.kind # "linear"
      BY <1>13, PartIs
    <3> QED
      BY <3>1, HowIs DEF h
  <2>2. algos = {h}
    <3>1. CASE whole
      BY <1>8, <1>9, <1>13, <3>1
    <3>2. CASE ~whole
      BY <1>8, <1>9, <1>13, <3>2
    <3> QED
      BY <3>1, <3>2
  <2>3. ResolvedAlgos(prefix) = {h}
    BY <1>9, <1>11, <1>13, <2>2
  <2> QED
    BY <2>1, <2>3 DEF prefix, h
<1> QED
  BY <1>12, <1>13

-----------------------------------------------------------------------------
(* What is excluded.                                                       *)

\* vLLM's names are prefixes of each other within a layer only.
LEMMA LoadedPrefix ==
    ASSUME NEW m \in CheckpointLayers, NEW l \in CheckpointLayers, NEW s \in Seq(Words), NEW t \in Seq(Words)
    PROVE  /\ IsPrefix(Loaded(m, s), Loaded(l, t)) <=> m = l /\ IsPrefix(s, t)
           /\ Loaded(m, s) = Loaded(l, t) <=> m = l /\ s = t
<1> DEFINE r == Root(m)
           q == Root(l)
           j == Number(m)
           k == Number(l)
<1>1. r \in Roots /\ q \in Roots /\ j \in Nat /\ k \in Nat
  BY LayerIs
<1>2. r = q /\ j = k <=> m = l
  BY SameLayer
<1> HIDE DEF r, q, j, k
<1>3. /\ IsPrefix(Name(r, j, s), Name(q, k, t)) <=> r = q /\ j = k /\ IsPrefix(s, t)
      /\ Name(r, j, s) = Name(q, k, t) <=> r = q /\ j = k /\ s = t
  BY <1>1, NamePrefix
<1> QED
  BY <1>2, <1>3 DEF Loaded, r, q, j, k

\* A name that is excluded by a wildcard, and at all, once all lists are in vLLM's names.
ReadyStar(how, wild, name) == \E m \in CheckpointLayers : Bare(how, wild, m) /\ name = Loaded(m, <<>>)
ExcludedAs(how, whole, wild, name) ==
    \/ \E m \in CheckpointLayers, other \in Parts : \E u \in Units(other, whole) :
          how[m, other] = "none" /\ ~Bare(how, wild, m) /\ name = Loaded(m, u)
    \/ ReadyStar(how, wild, name)

\* The empty path, and those of a part's weights.
LEMMA EmptyPath ==
    /\ <<>> \in Seq(Words)
    /\ \A part \in Parts : IsPrefix(<<>>, part.name) /\ ~IsPrefix(part.name, <<>>)
    /\ \A part \in Parts, whole \in BOOLEAN : \A u \in Units(part, whole) : u # <<>>
<1> DEFINE e == <<>>
<1>1. e \in Seq(Words) /\ Len(e) = 0
  OBVIOUS
<1> HIDE DEF e
<1>2. ASSUME NEW part \in Parts PROVE IsPrefix(e, part.name) /\ ~IsPrefix(part.name, e)
  <2> DEFINE path == part.name
             k == Len(path)
  <2>1. path \in Seq(Words) /\ k \in {2, 3}
    BY NamesAre
  <2> HIDE DEF path, k
  <2>2. IsPrefix(e, path) <=> Len(e) <= Len(path) /\ \A i \in 1 .. Len(e) : e[i] = path[i]
    <3>1. e \in Seq(Words) /\ path \in Seq(Words)
      BY <1>1, <2>1
    <3> QED
      BY <3>1, PrefixIs
  <2>3. IsPrefix(path, e) => Len(path) <= Len(e)
    BY <1>1, <2>1, PrefixIs
  <2>4. 0 <= k /\ ~(k <= 0)
    BY <2>1
  <2> QED
    BY <1>1, <2>2, <2>3, <2>4 DEF k, path
<1>3. ASSUME NEW part \in Parts, NEW whole \in BOOLEAN, NEW u \in Units(part, whole) PROVE u # e
  <2>1. part.name \in {Qkv, GateUp, Experts}
    BY PartIs
  <2> DEFINE k == Len(u)
  <2>2. k \in {2, 3, 4}
    BY <2>1, UnitsAre
  <2> HIDE DEF k
  <2>3. k # 0
    BY <2>2
  <2> QED
    BY <1>1, <2>3 DEF k
<1> QED
  BY <1>1, <1>2, <1>3 DEF e

\* A part of a layer is excluded exactly when it was not quantized.
LEMMA Excluded ==
    ASSUME NEW how \in HowMade, NEW whole \in BOOLEAN, NEW wild \in BOOLEAN,
           \A name : name \in quant.exclude_modules <=> ExcludedAs(how, whole, wild, name),
           \A name : name \in quant.wildcards <=> ReadyStar(how, wild, name),
           NEW l \in CheckpointLayers, NEW part \in Parts
    PROVE  IsLayerExcluded(Loaded(l, part.name)) <=> how[l, part] = "none"
<1> DEFINE path == part.name
           prefix == Loaded(l, path)
           none == how[l, part] = "none"
           e == <<>>
<1>1. path \in Seq(Words) /\ path \in {Qkv, GateUp, Experts} /\ path # <<>>
  BY PartIs, NamesNotEmpty
<1>2. e \in Seq(Words) /\ IsPrefix(e, path) /\ ~IsPrefix(path, e)
  BY EmptyPath
<1>3. ASSUME NEW m \in CheckpointLayers, NEW other \in Parts, NEW u \in Units(other, whole)
      PROVE  /\ IsPrefix(Loaded(m, u), prefix) => m = l /\ other = part
             /\ IsPrefix(prefix, Loaded(m, u)) => m = l /\ other = part
             /\ \A f \in Units(part, whole) : Loaded(m, u) = Loaded(l, f) => m = l /\ other = part
  <2>1. u \in Seq(Words) /\ \A f \in Units(part, whole) : f \in Seq(Words)
    BY UnitsAre
  <2>2. /\ IsPrefix(Loaded(m, u), prefix) => m = l /\ IsPrefix(u, path)
        /\ IsPrefix(prefix, Loaded(m, u)) => m = l /\ IsPrefix(path, u)
    BY <1>1, <2>1, LoadedPrefix
  <2>3. \A f \in Units(part, whole) : Loaded(m, u) = Loaded(l, f) => m = l /\ u = f
    BY <2>1, LoadedPrefix
  <2>4. /\ IsPrefix(u, path) => other = part
        /\ IsPrefix(path, u) => other = part
        /\ u \in Units(part, whole) => other = part
    BY PathsApart
  <2> QED
    BY <2>2, <2>3, <2>4
<1>4. ASSUME NEW m \in CheckpointLayers
      PROVE  /\ IsPrefix(Loaded(m, e), prefix) <=> m = l
             /\ ~IsPrefix(prefix, Loaded(m, e))
             /\ Loaded(m, e) # prefix
             /\ \A f \in Units(part, whole) : Loaded(m, e) # Loaded(l, f)
  <2>1. \A f \in Units(part, whole) : f \in Seq(Words) /\ f # e
    BY UnitsAre, EmptyPath
  <2>2. /\ IsPrefix(Loaded(m, e), prefix) <=> m = l /\ IsPrefix(e, path)
        /\ IsPrefix(prefix, Loaded(m, e)) <=> l = m /\ IsPrefix(path, e)
        /\ Loaded(m, e) = prefix <=> m = l /\ e = path
    <3> HIDE DEF path, e, prefix
    <3>1. e \in Seq(Words) /\ path \in Seq(Words)
      BY <1>1, <1>2
    <3>2. /\ IsPrefix(Loaded(m, e), Loaded(l, path)) <=> m = l /\ IsPrefix(e, path)
          /\ Loaded(m, e) = Loaded(l, path) <=> m = l /\ e = path
      BY <3>1, LoadedPrefix
    <3>3. IsPrefix(Loaded(l, path), Loaded(m, e)) <=> l = m /\ IsPrefix(path, e)
      BY <3>1, LoadedPrefix
    <3>4. prefix = Loaded(l, path)
      BY DEF prefix
    <3> QED
      BY <3>2, <3>3, <3>4
  <2>3. \A f \in Units(part, whole) : Loaded(m, e) = Loaded(l, f) <=> m = l /\ e = f
    BY <1>2, <2>1, LoadedPrefix
  <2> QED
    BY <1>1, <1>2, <2>1, <2>2, <2>3
<1>5. Fused(prefix) = {Loaded(l, f) : f \in Fused(path)} /\ Last(prefix) = Last(path)
  <2> DEFINE r == Root(l)
             n == Number(l)
  <2>1. r \in Roots /\ n \in Nat
    BY LayerIs
  <2> HIDE DEF r, n, path
  <2>2. Fused(Name(r, n, path)) = {Name(r, n, f) : f \in Fused(path)}
    BY <1>1, <2>1, FusedName
  <2>3. Last(Name(r, n, path)) = Last(path)
    BY <1>1, <2>1, NameEnds
  <2> QED
    BY <2>2, <2>3 DEF Loaded, r, n
<1>6. path # Experts => Fused(path) = Units(part, whole) /\ Fused(path) # {} /\ Last(path) # "experts"
  <2>1. path # Experts => part.kind = "linear" /\ part.units = Fused(path)
    BY PartIs
  <2>2. Fused(Qkv) # {} /\ Fused(GateUp) # {}
    BY FusedAre
  <2>3. Last(Qkv) # "experts" /\ Last(GateUp) # "experts"
    BY DEF Last, Qkv, GateUp
  <2> QED
    BY <1>1, <2>1, <2>2, <2>3 DEF Units
<1>7. path = Experts => Fused(path) = {} /\ Last(path) = "experts"
  <2>1. Last(Experts) = "experts"
    BY DEF Last, Experts
  <2> QED
    BY <2>1, FusedAre
<1>8. \E u : u \in Units(part, whole)
  <2>1. CASE path = Experts
    <3>1. part.units = {<<"mlp", "experts", "0", "up_proj">>, <<"mlp", "experts", "0", "down_proj">>}
      BY <2>1, PartIs
    <3> QED
      BY <3>1 DEF Units
  <2>2. CASE path # Experts
    BY <1>6, <2>2
  <2> QED
    BY <2>1, <2>2
<1>9. IsLayerSkipped(prefix) <=>
        IF path = Experts THEN \E name \in quant.exclude_modules : IsPrefix(prefix, name)
        ELSE \A f \in Units(part, whole) : Loaded(l, f) \in quant.exclude_modules
  <2>1. CASE path = Experts
    <3>1. Fused(prefix) = {} /\ Last(prefix) = "experts"
      BY <1>5, <1>7, <2>1
    <3> HIDE DEF prefix
    <3> QED
      BY <2>1, <3>1 DEF IsLayerSkipped
  <2>2. CASE path # Experts
    <3>1. Fused(prefix) # {} /\ Fused(prefix) = {Loaded(l, f) : f \in Units(part, whole)} /\ Last(prefix) # "experts"
      BY <1>5, <1>6, <2>2
    <3> HIDE DEF prefix
    <3>2. IsLayerSkipped(prefix) <=> Fused(prefix) \subseteq quant.exclude_modules
      BY <3>1 DEF IsLayerSkipped
    <3> QED
      BY <2>2, <3>1, <3>2
  <2> QED
    BY <2>1, <2>2
<1> DEFINE Out(name) == ExcludedAs(how, whole, wild, name)
           Star(name) == \E m \in CheckpointLayers : Bare(how, wild, m) /\ name = Loaded(m, e)
<1>10. IsLayerExcluded(prefix) <=>
         \/ IsLayerSkipped(prefix)
         \/ \E name : Out(name) /\ name # prefix /\ IsPrefix(name, prefix)
         \/ \E name : Star(name) /\ name # prefix /\ IsPrefix(name, prefix)
  <2> HIDE DEF Out, Star, prefix
  <2>1. \A name : name \in quant.exclude_modules <=> Out(name)
    BY DEF Out
  <2>2. \A name : name \in quant.wildcards <=> Star(name)
    BY DEF Star, ReadyStar, e
  <2> QED
    BY <2>1, <2>2 DEF IsLayerExcluded, IsStrictPrefix
<1>11. Bare(how, wild, l) => none
  BY DEF Bare
<1> HIDE DEF path, prefix, none, e
<1>12. \A name : Out(name) =>
         \/ \E m \in CheckpointLayers, other \in Parts : \E u \in Units(other, whole) :
               how[m, other] = "none" /\ name = Loaded(m, u)
         \/ Star(name)
  BY DEF ExcludedAs, ReadyStar, e
<1>13. \A name : Star(name) => Out(name)
  BY DEF ExcludedAs, ReadyStar, e
<1>14. ~Bare(how, wild, l) /\ none => \A u \in Units(part, whole) : Out(Loaded(l, u))
  BY DEF ExcludedAs, none
<1> HIDE DEF Out
<1>15. ASSUME NEW name, Out(name), IsPrefix(prefix, name) \/ IsPrefix(name, prefix) PROVE none
  <2>1. ASSUME NEW m \in CheckpointLayers, NEW other \in Parts, NEW u \in Units(other, whole),
               how[m, other] = "none", name = Loaded(m, u)
        PROVE  none
    <3>1. m = l /\ other = part
      BY <1>3, <1>15, <2>1
    <3> QED
      BY <2>1, <3>1 DEF none
  <2>2. ASSUME Star(name) PROVE none
    <3>1. Bare(how, wild, l)
      BY <1>4, <1>15, <2>2
    <3> QED
      BY <1>11, <3>1
  <2> QED
    BY <1>12, <1>15, <2>1, <2>2
<1>16. ASSUME NEW f \in Units(part, whole), Out(Loaded(l, f)) PROVE none
  <2>1. ASSUME NEW m \in CheckpointLayers, NEW other \in Parts, NEW u \in Units(other, whole),
               how[m, other] = "none", Loaded(l, f) = Loaded(m, u)
        PROVE  none
    <3>1. m = l /\ other = part
      BY <1>3, <2>1
    <3> QED
      BY <2>1, <3>1 DEF none
  <2>2. ~Star(Loaded(l, f))
    BY <1>4
  <2> QED
    BY <1>12, <1>16, <2>1, <2>2
<1>17. \A name : name \in quant.exclude_modules <=> Out(name)
  BY DEF Out
<1>18. ASSUME IsLayerExcluded(prefix) PROVE none
  <2>1. CASE IsLayerSkipped(prefix)
    <3>1. CASE path = Experts
      BY <1>9, <1>15, <1>17, <2>1, <3>1
    <3>2. CASE path # Experts
      BY <1>8, <1>9, <1>16, <1>17, <2>1, <3>2
    <3> QED
      BY <3>1, <3>2
  <2>2. CASE \E name : Out(name) /\ name # prefix /\ IsPrefix(name, prefix)
    BY <1>15, <2>2
  <2>3. CASE \E name : Star(name) /\ name # prefix /\ IsPrefix(name, prefix)
    BY <1>13, <1>15, <2>3
  <2> QED
    BY <1>10, <1>18, <2>1, <2>2, <2>3
<1>19. ASSUME none PROVE IsLayerExcluded(prefix)
  <2>1. CASE Bare(how, wild, l)
    <3>1. Star(Loaded(l, e)) /\ Loaded(l, e) # prefix /\ IsPrefix(Loaded(l, e), prefix)
      BY <1>4, <2>1
    <3> QED
      BY <1>10, <3>1
  <2>2. CASE ~Bare(how, wild, l)
    <3>1. \A u \in Units(part, whole) : Out(Loaded(l, u))
      BY <1>14, <1>19, <2>2
    <3>2. CASE path # Experts
      BY <1>9, <1>10, <1>17, <3>1, <3>2
    <3>3. CASE path = Experts
      <4>1. PICK u \in Units(part, whole) : TRUE
        BY <1>8
      <4>2. IsPrefix(path, u) /\ u \in Seq(Words)
        BY <3>3, PathsApart, UnitsAre DEF path
      <4>3. IsPrefix(prefix, Loaded(l, u))
        BY <1>1, <4>2, LoadedPrefix DEF prefix
      <4> QED
        BY <1>9, <1>10, <1>17, <3>1, <3>3, <4>3
    <3> QED
      BY <3>2, <3>3
  <2> QED
    BY <2>1, <2>2
<1> QED
  BY <1>18, <1>19 DEF path, prefix, none

-----------------------------------------------------------------------------
(* From the checkpoint to the layers.                                      *)

\* The configuration's lists, in vLLM's names.
ListsAre(how, whole, wild) ==
    /\ quant.quantized_layers = ListedEntries(how, whole)
    /\ \A name : name \in quant.exclude_modules <=> ExcludedAs(how, whole, wild, name)
    /\ \A name : name \in quant.wildcards <=> ReadyStar(how, wild, name)

\* A part is loaded with what it was made with.
LEMMA MethodsAre ==
    ASSUME NumDraftLayers <= 1, NEW how \in HowMade, NEW whole \in BOOLEAN, NEW wild \in BOOLEAN,
           ListsAre(how, whole, wild), NEW l \in CheckpointLayers, NEW part \in Parts
    PROVE  Methods(part.kind, Prefix(l, part)) = {IF how[l, part] = "mixed" THEN "error" ELSE how[l, part]}
<1> DEFINE prefix == Loaded(l, part.name)
           h == how[l, part]
           excluded == IsLayerExcluded(prefix)
           resolved == ResolvedAlgos(prefix)
           known == {"error"} \cup IF part.kind = "linear" THEN LinearAlgos ELSE ExpertAlgos
           algos == IF excluded THEN {} ELSE resolved
<1>1. Prefix(l, part) = prefix
  BY DEF Prefix, Loaded, Name, Root, Number
<1>2. excluded <=> h = "none"
  BY Excluded DEF ListsAre
<1>3. h # "none" => resolved = {IF h = "mixed" THEN "error" ELSE h}
  BY PartResolves DEF ListsAre
<1>4. /\ part.kind = "linear" => h \in LinearAlgos \cup {"none", "mixed"}
      /\ part.kind # "linear" => h \in ExpertAlgos \cup {"none"} /\ h # "mixed"
  BY HowIs
<1>5. Methods(part.kind, prefix) = IF algos = {} THEN {"none"} ELSE {IF a \in known THEN a ELSE "none" : a \in algos}
  BY DEF Methods
<1> HIDE DEF prefix, h, excluded, resolved
<1>6. CASE h = "none"
  <2>1. algos = {}
    BY <1>2, <1>6
  <2>2. Methods(part.kind, prefix) = {h}
    BY <1>5, <1>6, <2>1
  <2> QED
    BY <1>1, <1>6, <2>2 DEF h
<1>7. CASE h # "none"
  <2> DEFINE a == IF h = "mixed" THEN "error" ELSE h
  <2>1. algos = {a} /\ a \in known
    BY <1>2, <1>3, <1>4, <1>7
  <2> HIDE DEF a, algos, known
  <2>2. {IF b \in known THEN b ELSE "none" : b \in algos} = {a}
    BY <2>1
  <2>3. Methods(part.kind, prefix) = {a}
    BY <1>5, <2>1, <2>2
  <2> QED
    BY <1>1, <2>3 DEF a, h
<1> QED
  BY <1>6, <1>7

\* The configuration, and what its lists hold at each stage: the checkpoint's names, the
\* mapped ones and those with the draft layers renumbered.
Configuration(phase, how, layers, out, stars) ==
    [stage |-> phase, how |-> how, quantized_layers |-> layers, exclude_modules |-> out, wildcards |-> stars]

GivenLayer(how, whole, e) ==
    \E m \in CheckpointLayers, other \in Parts : \E u \in Units(other, whole) :
       how[m, other] # "none" /\ e = <<HfName(m, u), Algo(how, m, other, u)>>

GivenOut(how, whole, wild, name) ==
    \E m \in CheckpointLayers, other \in Parts : \E u \in Units(other, whole) :
       how[m, other] = "none" /\ ~Bare(how, wild, m) /\ name = HfName(m, u)
GivenStar(how, wild, name) == \E m \in CheckpointLayers : Bare(how, wild, m) /\ name = HfName(m, <<>>)

MappedStar(how, wild, name) == \E m \in CheckpointLayers : Bare(how, wild, m) /\ name = Listed(m, <<>>)
MappedOut(how, whole, wild, name) ==
    \/ \E m \in CheckpointLayers, other \in Parts : \E u \in Units(other, whole) :
          how[m, other] = "none" /\ ~Bare(how, wild, m) /\ name = Listed(m, u)
    \/ MappedStar(how, wild, name)

GivenInv ==
    \E how \in HowMade, whole \in BOOLEAN, wild \in BOOLEAN : \E layers, out, stars :
       /\ quant = Configuration("given", how, layers, out, stars)
       /\ \A e : e \in layers <=> GivenLayer(how, whole, e)
       /\ \A name : name \in out <=> GivenOut(how, whole, wild, name)
       /\ \A name : name \in stars <=> GivenStar(how, wild, name)

MappedInv ==
    \E how \in HowMade, whole \in BOOLEAN, wild \in BOOLEAN : \E out, stars :
       /\ quant = Configuration("mapped", how, ListedEntries(how, whole), out, stars)
       /\ \A name : name \in out <=> MappedOut(how, whole, wild, name)
       /\ \A name : name \in stars <=> MappedStar(how, wild, name)

ReadyInv ==
    \E how \in HowMade, whole \in BOOLEAN, wild \in BOOLEAN : \E out, stars :
       /\ quant = Configuration("ready", how, ListedEntries(how, whole), out, stars)
       /\ \A name : name \in out <=> ExcludedAs(how, whole, wild, name)
       /\ \A name : name \in stars <=> ReadyStar(how, wild, name)

QuantInv == quant = [stage |-> "unset"] \/ GivenInv \/ MappedInv \/ ReadyInv

\* The checkpoint's names, mapped and renumbered.
LEMMA NamesMap ==
    ASSUME NEW m \in CheckpointLayers
    PROVE  /\ Mapped(HfName(m, <<>>)) = Listed(m, <<>>) /\ Remapped(Listed(m, <<>>)) = Loaded(m, <<>>)
           /\ \A other \in Parts, whole \in BOOLEAN : \A u \in Units(other, whole) :
                Mapped(HfName(m, u)) = Listed(m, u) /\ Remapped(Listed(m, u)) = Loaded(m, u)
<1>1. \A path \in Seq(Words) : Mapped(HfName(m, path)) = Listed(m, path) /\ Remapped(Listed(m, path)) = Loaded(m, path)
  BY MappedIs, RemappedIs
<1> DEFINE e == <<>>
<1>2. e \in Seq(Words)
  BY EmptyPath
<1> HIDE DEF e
<1>3. Mapped(HfName(m, e)) = Listed(m, e) /\ Remapped(Listed(m, e)) = Loaded(m, e)
  BY <1>1, <1>2
<1>4. \A other \in Parts, whole \in BOOLEAN : \A u \in Units(other, whole) : u \in Seq(Words)
  BY UnitsAre
<1> QED
  BY <1>1, <1>3, <1>4 DEF e

\* The checkpoint, as it is made.
LEMMA GivenStep ==
    ASSUME NEW how \in HowMade, NEW whole \in BOOLEAN, NEW wild \in BOOLEAN, MakeCheckpoint(how, whole, wild)
    PROVE  GivenInv'
<1> DEFINE rows == {y \in CheckpointLayers \X Parts : how[y] # "none"}
           spared == {y \in CheckpointLayers \X Parts : how[y] = "none" /\ ~Bare(how, wild, y[1])}
           layers == UNION {{<<HfName(x[1], u), Algo(how, x[1], x[2], u)>> : u \in Units(x[2], whole)} : x \in rows}
           out == UNION {{HfName(x[1], u) : u \in Units(x[2], whole)} : x \in spared}
           stars == {HfName(l, <<>>) : l \in {m \in CheckpointLayers : Bare(how, wild, m)}}
<1>1. quant' = Configuration("given", how, layers, out, stars)
  BY DEF MakeCheckpoint, Configuration, Algo, Bare, Units
<1>2. \A x \in CheckpointLayers \X Parts :
        /\ x[1] \in CheckpointLayers /\ x[2] \in Parts /\ how[x] = how[x[1], x[2]]
  <2> SUFFICES ASSUME NEW x \in CheckpointLayers \X Parts
               PROVE  x[1] \in CheckpointLayers /\ x[2] \in Parts /\ how[x] = how[x[1], x[2]]
    OBVIOUS
  <2>1. x = <<x[1], x[2]>> /\ x[1] \in CheckpointLayers /\ x[2] \in Parts
    OBVIOUS
  <2> QED
    BY <2>1
<1>3. ASSUME NEW e PROVE e \in layers <=> GivenLayer(how, whole, e)
  <2>1. ASSUME e \in layers PROVE GivenLayer(how, whole, e)
    <3>1. PICK x \in rows : \E u \in Units(x[2], whole) : e = <<HfName(x[1], u), Algo(how, x[1], x[2], u)>>
      BY <2>1
    <3>2. x[1] \in CheckpointLayers /\ x[2] \in Parts /\ how[x[1], x[2]] # "none"
      BY <1>2
    <3> QED
      BY <3>1, <3>2 DEF GivenLayer
  <2>2. ASSUME NEW m \in CheckpointLayers, NEW other \in Parts, NEW u \in Units(other, whole),
               how[m, other] # "none", e = <<HfName(m, u), Algo(how, m, other, u)>>
        PROVE  e \in layers
    <3> DEFINE x == <<m, other>>
    <3>1. x \in rows /\ x[1] = m /\ x[2] = other
      BY <2>2
    <3> HIDE DEF x, rows
    <3>2. u \in Units(x[2], whole) /\ e = <<HfName(x[1], u), Algo(how, x[1], x[2], u)>>
      BY <2>2, <3>1
    <3>3. e \in {<<HfName(x[1], v), Algo(how, x[1], x[2], v)>> : v \in Units(x[2], whole)}
      BY <3>2
    <3> QED
      BY <3>1, <3>3
  <2> HIDE DEF layers
  <2> QED
    BY <2>1, <2>2 DEF GivenLayer
<1>4. ASSUME NEW name PROVE name \in out <=> GivenOut(how, whole, wild, name)
  <2>1. ASSUME name \in out PROVE GivenOut(how, whole, wild, name)
    <3>1. PICK x \in spared : \E u \in Units(x[2], whole) : name = HfName(x[1], u)
      BY <2>1
    <3>2. x[1] \in CheckpointLayers /\ x[2] \in Parts /\ how[x[1], x[2]] = "none" /\ ~Bare(how, wild, x[1])
      BY <1>2
    <3> QED
      BY <3>1, <3>2 DEF GivenOut
  <2>2. ASSUME NEW m \in CheckpointLayers, NEW other \in Parts, NEW u \in Units(other, whole),
               how[m, other] = "none", ~Bare(how, wild, m), name = HfName(m, u)
        PROVE  name \in out
    <3> DEFINE x == <<m, other>>
    <3>1. x \in spared /\ x[1] = m /\ x[2] = other
      BY <2>2
    <3> HIDE DEF x, spared
    <3>2. name \in {HfName(x[1], v) : v \in Units(x[2], whole)}
      BY <2>2, <3>1
    <3> QED
      BY <3>1, <3>2
  <2> HIDE DEF out
  <2> QED
    BY <2>1, <2>2 DEF GivenOut
<1>5. \A name : name \in stars <=> GivenStar(how, wild, name)
  BY DEF GivenStar
<1> HIDE DEF layers, out, stars
<1> QED
  BY <1>1, <1>3, <1>4, <1>5 DEF GivenInv

\* The lists, as the mapper leaves them.
LEMMA MappedStep ==
    ASSUME GivenInv, ApplyMapper
    PROVE  MappedInv'
<1>0. PICK how \in HowMade, whole \in BOOLEAN, wild \in BOOLEAN :
        \E layers, out, stars :
            /\ quant = Configuration("given", how, layers, out, stars)
            /\ \A e : e \in layers <=> GivenLayer(how, whole, e)
            /\ \A name : name \in out <=> GivenOut(how, whole, wild, name)
            /\ \A name : name \in stars <=> GivenStar(how, wild, name)
  BY DEF GivenInv
<1>1. PICK layers, out, stars :
        /\ quant = Configuration("given", how, layers, out, stars)
        /\ \A e : e \in layers <=> GivenLayer(how, whole, e)
        /\ \A name : name \in out <=> GivenOut(how, whole, wild, name)
        /\ \A name : name \in stars <=> GivenStar(how, wild, name)
  BY <1>0
<1> DEFINE layers2 == {<<Mapped(e[1]), e[2]>> : e \in layers}
           out2 == {Mapped(n) : n \in out \cup stars}
           stars2 == {Mapped(n) : n \in stars}
<1>2. quant' = Configuration("mapped", how, layers2, out2, stars2)
  BY <1>1 DEF ApplyMapper, Configuration
<1>3. layers2 = ListedEntries(how, whole)
  <2>1. ASSUME NEW e \in layers2 PROVE e \in ListedEntries(how, whole)
    <3>1. PICK d \in layers : e = <<Mapped(d[1]), d[2]>>
      OBVIOUS
    <3>2. PICK m \in CheckpointLayers, other \in Parts :
            \E u \in Units(other, whole) : how[m, other] # "none" /\ d = <<HfName(m, u), Algo(how, m, other, u)>>
      BY <1>1 DEF GivenLayer
    <3>3. PICK u \in Units(other, whole) : how[m, other] # "none" /\ d = <<HfName(m, u), Algo(how, m, other, u)>>
      BY <3>2
    <3>4. Mapped(HfName(m, u)) = Listed(m, u)
      BY NamesMap
    <3>5. e = <<Listed(m, u), Algo(how, m, other, u)>>
      BY <3>1, <3>3, <3>4
    <3>6. ListedLayer(how, whole, e)
      BY <3>3, <3>5 DEF ListedLayer
    <3> QED
      BY <3>6, EntriesAre
  <2>2. ASSUME NEW e \in ListedEntries(how, whole) PROVE e \in layers2
    <3>1. ListedLayer(how, whole, e)
      BY EntriesAre
    <3>2. PICK m \in CheckpointLayers, other \in Parts :
            \E u \in Units(other, whole) : how[m, other] # "none" /\ e = <<Listed(m, u), Algo(how, m, other, u)>>
      BY <3>1 DEF ListedLayer
    <3>3. PICK u \in Units(other, whole) : how[m, other] # "none" /\ e = <<Listed(m, u), Algo(how, m, other, u)>>
      BY <3>2
    <3> DEFINE d == <<HfName(m, u), Algo(how, m, other, u)>>
    <3>4. d \in layers
      <4>1. GivenLayer(how, whole, d)
        BY <3>3 DEF GivenLayer
      <4> QED
        BY <1>1, <4>1
    <3>5. d[1] = HfName(m, u) /\ d[2] = Algo(how, m, other, u)
      OBVIOUS
    <3> HIDE DEF d
    <3>6. Mapped(HfName(m, u)) = Listed(m, u)
      BY NamesMap
    <3>7. e = <<Mapped(d[1]), d[2]>>
      BY <3>3, <3>5, <3>6
    <3> QED
      BY <3>4, <3>7
  <2> QED
    BY <2>1, <2>2
<1>4. ASSUME NEW name PROVE name \in stars2 <=> MappedStar(how, wild, name)
  <2>1. name \in stars2 <=> \E m \in CheckpointLayers : Bare(how, wild, m) /\ name = Mapped(HfName(m, <<>>))
    BY <1>1 DEF GivenStar
  <2> QED
    BY <2>1, NamesMap DEF MappedStar
<1>5. ASSUME NEW name PROVE name \in out2 <=> MappedOut(how, whole, wild, name)
  <2>1. name \in out2 <=> (\E n \in out : name = Mapped(n)) \/ name \in stars2
    OBVIOUS
  <2>2. (\E n \in out : name = Mapped(n)) <=>
          \E m \in CheckpointLayers, other \in Parts : \E u \in Units(other, whole) :
             how[m, other] = "none" /\ ~Bare(how, wild, m) /\ name = Mapped(HfName(m, u))
    <3>1. ASSUME NEW n \in out, name = Mapped(n)
          PROVE  \E m \in CheckpointLayers, other \in Parts : \E u \in Units(other, whole) :
                    how[m, other] = "none" /\ ~Bare(how, wild, m) /\ name = Mapped(HfName(m, u))
      <4>1. GivenOut(how, whole, wild, n)
        BY <1>1
      <4> QED
        BY <3>1, <4>1 DEF GivenOut
    <3>2. ASSUME NEW m \in CheckpointLayers, NEW other \in Parts, NEW u \in Units(other, whole),
                 how[m, other] = "none", ~Bare(how, wild, m), name = Mapped(HfName(m, u))
          PROVE  \E n \in out : name = Mapped(n)
      <4>1. GivenOut(how, whole, wild, HfName(m, u))
        BY <3>2 DEF GivenOut
      <4> QED
        BY <1>1, <3>2, <4>1
    <3> QED
      BY <3>1, <3>2
  <2> HIDE DEF out2, stars2
  <2> QED
    BY <1>4, <2>1, <2>2, NamesMap DEF MappedOut
<1> HIDE DEF layers2, out2, stars2
<1> QED
  BY <1>2, <1>3, <1>4, <1>5 DEF MappedInv

\* The lists, as the draft head's configuration has them.
LEMMA ReadyStep ==
    ASSUME MappedInv, MakeDraftConfig
    PROVE  ReadyInv'
<1>0. PICK how \in HowMade, whole \in BOOLEAN, wild \in BOOLEAN :
        \E out, stars :
            /\ quant = Configuration("mapped", how, ListedEntries(how, whole), out, stars)
            /\ \A name : name \in out <=> MappedOut(how, whole, wild, name)
            /\ \A name : name \in stars <=> MappedStar(how, wild, name)
  BY DEF MappedInv
<1>1. PICK out, stars :
        /\ quant = Configuration("mapped", how, ListedEntries(how, whole), out, stars)
        /\ \A name : name \in out <=> MappedOut(how, whole, wild, name)
        /\ \A name : name \in stars <=> MappedStar(how, wild, name)
  BY <1>0
<1> DEFINE out2 == {Remapped(n) : n \in out}
           stars2 == {Remapped(n) : n \in stars}
<1>2. quant' = Configuration("ready", how, ListedEntries(how, whole), out2, stars2)
  BY <1>1 DEF MakeDraftConfig, Configuration
<1>3. ASSUME NEW name PROVE name \in stars2 <=> ReadyStar(how, wild, name)
  <2>1. name \in stars2 <=> \E m \in CheckpointLayers : Bare(how, wild, m) /\ name = Remapped(Listed(m, <<>>))
    BY <1>1 DEF MappedStar
  <2> QED
    BY <2>1, NamesMap DEF ReadyStar
<1>4. ASSUME NEW name PROVE name \in out2 <=> ExcludedAs(how, whole, wild, name)
  <2>1. ASSUME NEW n \in out, name = Remapped(n) PROVE ExcludedAs(how, whole, wild, name)
    <3>1. MappedOut(how, whole, wild, n)
      BY <1>1
    <3>2. CASE MappedStar(how, wild, n)
      BY <2>1, <3>2, NamesMap DEF MappedStar, ReadyStar, ExcludedAs
    <3>3. ASSUME NEW m \in CheckpointLayers, NEW other \in Parts, NEW u \in Units(other, whole),
                 how[m, other] = "none", ~Bare(how, wild, m), n = Listed(m, u)
          PROVE  ExcludedAs(how, whole, wild, name)
      <4>1. name = Loaded(m, u)
        BY <2>1, <3>3, NamesMap
      <4> QED
        BY <3>3, <4>1 DEF ExcludedAs
    <3> QED
      BY <3>1, <3>2, <3>3 DEF MappedOut
  <2>2. ASSUME NEW m \in CheckpointLayers, NEW other \in Parts, NEW u \in Units(other, whole),
               how[m, other] = "none", ~Bare(how, wild, m), name = Loaded(m, u)
        PROVE  name \in out2
    <3>1. MappedOut(how, whole, wild, Listed(m, u))
      BY <2>2 DEF MappedOut
    <3>2. name = Remapped(Listed(m, u))
      BY <2>2, NamesMap
    <3> QED
      BY <1>1, <3>1, <3>2
  <2>3. ASSUME ReadyStar(how, wild, name) PROVE name \in out2
    <3>1. PICK m \in CheckpointLayers : Bare(how, wild, m) /\ name = Loaded(m, <<>>)
      BY <2>3 DEF ReadyStar
    <3>2. MappedOut(how, whole, wild, Listed(m, <<>>))
      BY <3>1 DEF MappedOut, MappedStar
    <3>3. name = Remapped(Listed(m, <<>>))
      BY <3>1, NamesMap
    <3> QED
      BY <1>1, <3>2, <3>3
  <2> HIDE DEF out2
  <2>4. ASSUME name \in out2 PROVE ExcludedAs(how, whole, wild, name)
    BY <2>1, <2>4 DEF out2
  <2> QED
    BY <2>2, <2>3, <2>4 DEF ExcludedAs
<1> HIDE DEF out2, stars2
<1> QED
  BY <1>2, <1>3, <1>4 DEF ReadyInv

\* The lists are the checkpoint's, whichever names they are in.
LEMMA QuantInvHolds == QuantSpec => []QuantInv
<1>1. QuantInit => QuantInv
  BY DEF QuantInit, QuantInv
<1>2. QuantInv /\ [QuantNext]_quant => QuantInv'
  <2> SUFFICES ASSUME QuantInv, [QuantNext]_quant PROVE QuantInv'
    OBVIOUS
  <2>1. ASSUME quant.stage = "unset",
               \E how \in HowMade, whole, wild \in BOOLEAN : MakeCheckpoint(how, whole, wild)
        PROVE  QuantInv'
    BY <2>1, GivenStep DEF QuantInv
  <2>2. CASE ApplyMapper
    <3>1. quant.stage = "given"
      BY <2>2 DEF ApplyMapper
    <3>2. GivenInv
      BY <3>1 DEF QuantInv, MappedInv, ReadyInv, Configuration
    <3> QED
      BY <2>2, <3>2, MappedStep DEF QuantInv
  <2>3. CASE MakeDraftConfig
    <3>1. quant.stage = "mapped"
      BY <2>3 DEF MakeDraftConfig
    <3>2. MappedInv
      BY <3>1 DEF QuantInv, GivenInv, ReadyInv, Configuration
    <3> QED
      BY <2>3, <3>2, ReadyStep DEF QuantInv
  <2>4. CASE UNCHANGED quant
    BY <2>4 DEF QuantInv, GivenInv, MappedInv, ReadyInv
  <2> QED
    BY <2>1, <2>2, <2>3, <2>4 DEF QuantNext
<1> QED
  BY <1>1, <1>2, PTL DEF QuantSpec

\* With a draft head of one layer, each part of each layer is loaded with the algorithm its
\* weights were made with, or with none when they have none, under whichever of its names the
\* checkpoint lists or excludes it, and a fused layer whose weights differ is refused, for
\* any number of layers and any algorithms (modelopt.py:1608-1804, mtp_draft_vocab.py:74-89):
\* LoadedAsQuantized.  With a second draft layer it does not hold.
THEOREM LayersLoadAsQuantized ==
    ASSUME NumDraftLayers <= 1
    PROVE  QuantSpec => []LoadedAsQuantized
<1>1. QuantInv => LoadedAsQuantized
  <2> SUFFICES ASSUME QuantInv, quant.stage = "ready", NEW l \in CheckpointLayers, NEW part \in Parts
               PROVE  Methods(part.kind, Prefix(l, part)) =
                        {IF quant.how[l, part] = "mixed" THEN "error" ELSE quant.how[l, part]}
    BY DEF LoadedAsQuantized
  <2>1. ReadyInv
    BY DEF QuantInv, GivenInv, MappedInv, Configuration
  <2>0. PICK how \in HowMade, whole \in BOOLEAN, wild \in BOOLEAN :
          \E out, stars :
              /\ quant = Configuration("ready", how, ListedEntries(how, whole), out, stars)
              /\ \A name : name \in out <=> ExcludedAs(how, whole, wild, name)
              /\ \A name : name \in stars <=> ReadyStar(how, wild, name)
    BY <2>1 DEF ReadyInv
  <2>2. PICK out, stars :
          /\ quant = Configuration("ready", how, ListedEntries(how, whole), out, stars)
          /\ \A name : name \in out <=> ExcludedAs(how, whole, wild, name)
          /\ \A name : name \in stars <=> ReadyStar(how, wild, name)
    BY <2>0
  <2>3. /\ quant.how = how /\ quant.quantized_layers = ListedEntries(how, whole)
        /\ quant.exclude_modules = out /\ quant.wildcards = stars
    BY <2>2 DEF Configuration
  <2>4. ListsAre(how, whole, wild)
    BY <2>2, <2>3 DEF ListsAre
  <2>5. Methods(part.kind, Prefix(l, part)) = {IF how[l, part] = "mixed" THEN "error" ELSE how[l, part]}
    BY <2>4, MethodsAre
  <2> QED
    BY <2>3, <2>5
<1> QED
  BY <1>1, QuantInvHolds, PTL

=============================================================================

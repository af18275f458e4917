------------------------------ MODULE QsaRing ------------------------------
(***************************************************************************)
(* Compression of QSA keys (ops_qsa.py).  Every group of CompressRatio     *)
(* consecutive rows of a request is pooled into one compressed row, in the *)
(* step that runs the group's last row.  Rows of earlier steps come from a *)
(* ring of RingSize raw rows that the request's cache block holds, indexed *)
(* by position modulo its size; rows of the step itself come from its      *)
(* activations.  Then the step's rows are stored in the ring.  A step ends *)
(* with drafts that may be rejected, and a block is handed from request to *)
(* request without being cleared.                                          *)
(*                                                                         *)
(* A row is its position, or Stale when it was rejected or belongs to an   *)
(* earlier request.                                                        *)
(***************************************************************************)
EXTENDS Integers

CONSTANTS
    CompressRatio,  \* rows of a group
    RingSize,       \* rows of the ring
    NumDrafts,      \* drafts a step may verify
    MaxPosition,    \* bound: rows of a request
    MaxChunk        \* bound: rows of one step

\* The code asks for RingSize >= CompressRatio only (ops_qsa.py:879); the width that
\* keeps drafts off the rows still needed is left to who allocates the ring.
ASSUME RingAssumption ==
    /\ CompressRatio \in Nat \ {0} /\ RingSize \in Nat /\ NumDrafts \in Nat
    /\ MaxPosition \in Nat /\ MaxChunk \in Nat
    /\ RingSize >= CompressRatio
    /\ RingSize >= CompressRatio + NumDrafts - 1

VARIABLES
    first,          \* rows it took from the prefix cache when it was admitted
    length,         \* rows of the request that are accepted
    ring,           \* raw rows: the request's cache block
    pooled          \* compressed rows: for each group, the rows it was pooled from

ringVars == <<first, length, ring, pooled>>

Stale == -1
RingCells == 0 .. RingSize - 1
Positions == 0 .. MaxPosition - 1
Members == 0 .. CompressRatio - 1

RingTypeOK ==
    /\ first \in 0 .. MaxPosition /\ length \in first .. MaxPosition
    /\ ring \in [RingCells -> Positions \cup {Stale}]
    /\ pooled \in [Positions -> [Members -> Positions \cup {Stale}]]

RingInit ==
    /\ first = 0 /\ length = 0
    /\ ring = [c \in RingCells |-> Stale]
    /\ pooled = [p \in Positions |-> [m \in Members |-> Stale]]

\* The block is given to another request, which starts after a cached prefix of whole
\* groups; the rows in the block stay.
AdmitRequest(start) ==
    /\ length > first /\ start % CompressRatio = 0
    /\ first' = start /\ length' = start
    /\ ring' = [c \in RingCells |-> Stale]
    /\ pooled' = [p \in Positions |-> [m \in Members |-> Stale]]

\* Position of the m-th member of the group that ends at position e.
MemberAt(e, m) == e - (CompressRatio - 1 - m)

EndsGroup(e) == e % CompressRatio = CompressRatio - 1

\* Variant, for a mutation: the boundary row of the step is taken from the ring.
UseRaw_Strict(p, start) == p > start

UseRaw(p, start) == p >= start

\* What the group that ends at e is pooled from, in a step that starts at start.
Group(e, start) == [m \in Members |->
    IF UseRaw(MemberAt(e, m), start) THEN MemberAt(e, m)
    ELSE ring[MemberAt(e, m) % RingSize]]

\* Row p of a step that starts at start goes to cell c.
StoredIn(c, start, p) == p % RingSize = c

\* Of a step longer than the ring only the last rows have a slot.
HasSlot(p, start, n) == p \in start .. start + n - 1 /\ p >= start + n - RingSize

\* What a cell holds after the step: the row stored in it last, if it is accepted.
CellAfter(c, start, n, k) ==
    IF \E p \in Positions : HasSlot(p, start, n) /\ StoredIn(c, start, p)
    THEN LET p == CHOOSE p \in Positions : HasSlot(p, start, n) /\ StoredIn(c, start, p)
         IN  IF p < start + n - k THEN p ELSE Stale
    ELSE ring[c]

\* One step of n rows, the last k of them drafts that are rejected: groups that end in
\* it are pooled, then its rows are stored.
Step(n, k) ==
    /\ length + n <= MaxPosition
    /\ length' = length + n - k
    /\ pooled' = [e \in Positions |->
                    IF e \in length .. length + n - 1 /\ EndsGroup(e)
                    THEN Group(e, length) ELSE pooled[e]]
    /\ ring' = [c \in RingCells |-> CellAfter(c, length, n, k)]
    /\ UNCHANGED first

RingNext ==
    \/ \E start \in 0 .. MaxPosition : AdmitRequest(start)
    \/ \E n \in 1 .. MaxChunk : \E k \in 0 .. NumDrafts : k < n /\ Step(n, k)

RingSpec == RingInit /\ [][RingNext]_ringVars

-----------------------------------------------------------------------------
\* The rows that the next group still needs are in their cells, whatever drafts were
\* stored and rejected after them.
RingHoldsGroup ==
    \A p \in Positions :
        p \in first .. length - 1 /\ p >= length - (CompressRatio - 1)
            => ring[p % RingSize] = p

\* Every group of accepted rows was pooled from exactly those rows: no rejected draft,
\* no row of another group or request (ops_qsa.py:500-526, and the comment at 876).
GroupsAreTheirRows ==
    \A e \in Positions : e \in first .. length - 1 /\ EndsGroup(e)
        => \A m \in Members : pooled[e][m] = MemberAt(e, m)
=============================================================================

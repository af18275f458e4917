--------------------------- MODULE GatewayProofs ---------------------------
(***************************************************************************)
(* What holds of Gateway for every set of labels and urls, every flush     *)
(* period and every bound.  Type correctness, the acknowledgements and the *)
(* counters hold under every choice of mishaps.  With some of them ruled   *)
(* out, the gateway always has a key and a token (no file of the wrong     *)
(* shape turns up), knows when it agrees with the file (nobody writes      *)
(* inside a save, and no save fails), reads an edit at the next tick       *)
(* (nobody writes inside a save), and flushes in time (no save fails).     *)
(***************************************************************************)
EXTENDS Gateway, SequenceTheorems, TLAPS

-----------------------------------------------------------------------------
(* The documents that the actions build.                                   *)

LEMMA NewKeyType ==
    ASSUME NEW n \in Nat, NEW label \in Labels
    PROVE  NewKey(n, label) \in Key /\ NewKey(n, label).secret = n
BY DEF NewKey, Key

LEMMA BlankType == Blank \in Config /\ SecretsOf(Blank) = {}
<1>1. << >> \in Seq(Key) /\ DOMAIN << >> = {}
  BY EmptySeq
<1> QED  BY <1>1 DEF Blank, Config, SecretsOf, NoToken, NoUrl

\* Taking a key out adds no secret.
LEMMA RemoveKey ==
    ASSUME NEW ks \in Seq(Key), NEW i \in DOMAIN ks
    PROVE  /\ RemoveAt(ks, i) \in Seq(Key)
           /\ Len(RemoveAt(ks, i)) = Len(ks) - 1
           /\ \A j \in DOMAIN RemoveAt(ks, i) : \E k \in DOMAIN ks : RemoveAt(ks, i)[j] = ks[k]
           /\ \A j \in DOMAIN RemoveAt(ks, i) :
                 /\ j \in Nat /\ (IF j < i THEN j ELSE j + 1) \in DOMAIN ks
                 /\ RemoveAt(ks, i)[j] = ks[IF j < i THEN j ELSE j + 1]
<1> DEFINE a == SubSeq(ks, 1, i - 1)
           b == SubSeq(ks, i + 1, Len(ks))
<1>1. Len(ks) \in Nat /\ DOMAIN ks = 1 .. Len(ks) /\ \A j \in 1 .. Len(ks) : ks[j] \in Key
  BY ElementOfSeq, LenProperties
<1>2. i \in 1 .. Len(ks)
  BY <1>1
<1>3. /\ a \in Seq(Key) /\ Len(a) = i - 1
      /\ \A j \in 1 .. i - 1 : a[j] = ks[j]
  <2>1. \A j \in 1 .. i - 1 : ks[j] \in Key
    BY <1>1, <1>2
  <2>2. /\ a \in Seq(Key)
        /\ Len(a) = IF 1 <= i - 1 THEN i - 1 - 1 + 1 ELSE 0
        /\ \A j \in 1 .. i - 1 - 1 + 1 : a[j] = ks[1 + j - 1]
    BY <2>1, <1>2, SubSeqProperties
  <2> HIDE DEF a
  <2> QED  BY <2>2, <1>1, <1>2
<1>4. /\ b \in Seq(Key) /\ Len(b) = Len(ks) - i
      /\ \A j \in 1 .. Len(ks) - i : b[j] = ks[i + j]
  <2>1. \A j \in i + 1 .. Len(ks) : ks[j] \in Key
    BY <1>1, <1>2
  <2>2. /\ b \in Seq(Key)
        /\ Len(b) = IF i + 1 <= Len(ks) THEN Len(ks) - (i + 1) + 1 ELSE 0
        /\ \A j \in 1 .. Len(ks) - (i + 1) + 1 : b[j] = ks[i + 1 + j - 1]
    BY <2>1, <1>1, <1>2, SubSeqProperties
  <2> HIDE DEF b
  <2>3. /\ Len(ks) - (i + 1) + 1 = Len(ks) - i
        /\ (IF i + 1 <= Len(ks) THEN Len(ks) - (i + 1) + 1 ELSE 0) = Len(ks) - i
    BY <1>1, <1>2
  <2>4. \A j \in 1 .. Len(ks) - i : i + 1 + j - 1 = i + j
    BY <1>1, <1>2
  <2> QED  BY <2>2, <2>3, <2>4
<1>5. RemoveAt(ks, i) = a \o b
  BY DEF RemoveAt
<1> HIDE DEF a, b
<1>6. /\ a \o b \in Seq(Key) /\ Len(a \o b) = Len(ks) - 1
      /\ \A j \in 1 .. Len(ks) - 1 : (a \o b)[j] = IF j <= i - 1 THEN a[j] ELSE b[j - (i - 1)]
  <2>1. /\ a \o b \in Seq(Key) /\ Len(a \o b) = Len(a) + Len(b)
        /\ \A j \in 1 .. Len(a) + Len(b) :
              (a \o b)[j] = IF j <= Len(a) THEN a[j] ELSE b[j - Len(a)]
    BY <1>3, <1>4, ConcatProperties
  <2>2. Len(a) + Len(b) = Len(ks) - 1 /\ Len(a) = i - 1
    BY <1>1, <1>2, <1>3, <1>4
  <2> QED  BY <2>1, <2>2
<1>7. DOMAIN (a \o b) = 1 .. Len(ks) - 1
  BY <1>6, LenProperties
<1>8. ASSUME NEW j \in 1 .. Len(ks) - 1
      PROVE  /\ (IF j < i THEN j ELSE j + 1) \in DOMAIN ks
             /\ (a \o b)[j] = ks[IF j < i THEN j ELSE j + 1]
  <2>1. CASE j <= i - 1
    BY <2>1, <1>1, <1>2, <1>3, <1>6
  <2>2. CASE ~(j <= i - 1)
    <3>1. (a \o b)[j] = b[j - (i - 1)] /\ j - (i - 1) \in 1 .. Len(ks) - i
      BY <2>2, <1>1, <1>2, <1>6
    <3>2. b[j - (i - 1)] = ks[i + (j - (i - 1))]
      BY <3>1, <1>4
    <3>3. i + (j - (i - 1)) \in 1 .. Len(ks)
      BY <1>1, <1>2
    <3> QED  BY <3>1, <3>2, <3>3, <1>1
  <2> QED  BY <2>1, <2>2
<1>9. ASSUME NEW j \in DOMAIN (a \o b)
      PROVE  /\ \E k \in DOMAIN ks : (a \o b)[j] = ks[k]
             /\ j \in Nat /\ (IF j < i THEN j ELSE j + 1) \in DOMAIN ks
             /\ (a \o b)[j] = ks[IF j < i THEN j ELSE j + 1]
  <2>1. j \in 1 .. Len(ks) - 1
    BY <1>7
  <2>2. j \in Nat
    BY <1>1, <2>1
  <2> QED  BY <1>8, <2>1, <2>2
<1> QED  BY <1>5, <1>6, <1>9

\* Appending a key adds its secret and no other.
LEMMA AppendKey ==
    ASSUME NEW ks \in Seq(Key), NEW k \in Key
    PROVE  /\ Append(ks, k) \in Seq(Key)
           /\ \A j \in DOMAIN Append(ks, k) : \/ Append(ks, k)[j] = k
                                              \/ j \in DOMAIN ks /\ Append(ks, k)[j] = ks[j]
           /\ \A j \in DOMAIN ks : j \in DOMAIN Append(ks, k) /\ Append(ks, k)[j] = ks[j]
<1>1. Len(ks) \in Nat /\ DOMAIN ks = 1 .. Len(ks)
  BY LenProperties
<1>2. /\ Append(ks, k) \in Seq(Key) /\ Len(Append(ks, k)) = Len(ks) + 1
      /\ \A j \in 1 .. Len(ks) : Append(ks, k)[j] = ks[j]
      /\ Append(ks, k)[Len(ks) + 1] = k
  BY AppendProperties
<1>3. DOMAIN Append(ks, k) = 1 .. Len(ks) + 1
  BY <1>2, LenProperties
<1> QED  BY <1>1, <1>2, <1>3

\* Changing one key in place.
LEMMA ExceptKey ==
    ASSUME NEW ks \in Seq(Key), NEW i \in DOMAIN ks, NEW k \in Key
    PROVE  /\ [ks EXCEPT ![i] = k] \in Seq(Key)
           /\ DOMAIN [ks EXCEPT ![i] = k] = DOMAIN ks
           /\ Len([ks EXCEPT ![i] = k]) = Len(ks)
           /\ \A j \in DOMAIN ks : [ks EXCEPT ![i] = k][j] = IF j = i THEN k ELSE ks[j]
<1>1. DOMAIN ks = 1 .. Len(ks) /\ Len(ks) \in Nat
  BY LenProperties
<1>2. [ks EXCEPT ![i] = k] \in Seq(Key)
  BY <1>1, ExceptSeq
<1> QED  BY <1>1, <1>2, ExceptSeq

\* A reload keeps the secrets of the document on disk, whatever the counters.
LEMMA AdoptType ==
    ASSUME NEW disk \in Config, NEW mine \in Config
    PROVE  Adopt(disk, mine) \in Config /\ SecretsOf(Adopt(disk, mine)) = SecretsOf(disk)
<1> DEFINE ks == [i \in DOMAIN disk.keys |->
                    [disk.keys[i] EXCEPT !.requests = MergeCount(disk.keys[i], mine.keys)]]
<1>1. /\ disk.keys \in Seq(Key) /\ DOMAIN disk.keys = 1 .. Len(disk.keys)
      /\ Len(disk.keys) \in Nat /\ \A i \in DOMAIN disk.keys : disk.keys[i] \in Key
  BY ElementOfSeq, LenProperties DEF Config
<1>2. mine.keys \in Seq(Key) /\ \A i \in DOMAIN mine.keys : mine.keys[i] \in Key
  BY ElementOfSeq, LenProperties DEF Config
<1>3. ASSUME NEW i \in DOMAIN disk.keys
      PROVE  ks[i] \in Key /\ ks[i].secret = disk.keys[i].secret
  <2>1. MergeCount(disk.keys[i], mine.keys) \in Nat
    BY <1>1, <1>2 DEF MergeCount, Key
  <2> QED  BY <2>1, <1>1 DEF Key
<1>4. ks \in Seq(Key) /\ DOMAIN ks = DOMAIN disk.keys
  <2>1. ks \in [1 .. Len(disk.keys) -> Key]
    BY <1>1, <1>3
  <2> HIDE DEF ks
  <2> QED  BY <2>1, <1>1, SeqDef
<1>5. Adopt(disk, mine) = [disk EXCEPT !.keys = ks]
  BY DEF Adopt
<1> HIDE DEF ks
<1>6. Adopt(disk, mine) \in Config /\ Adopt(disk, mine).keys = ks
  BY <1>4, <1>5 DEF Config
<1> QED  BY <1>3, <1>4, <1>6 DEF SecretsOf

\* _normalize leaves a token and a key, and adds at most the secret it draws.
LEMMA NormalizeType ==
    ASSUME NEW c \in Config, NEW n \in Nat \ {0}
    PROVE  /\ Normalize(c, n) \in Config
           /\ Normalize(c, n).keys # << >> /\ Normalize(c, n).token # NoToken
           /\ SecretsOf(c) \subseteq SecretsOf(Normalize(c, n))
           /\ SecretsOf(Normalize(c, n)) \subseteq SecretsOf(c) \union {n}
           /\ ~NeedsNormalizing(c) => SecretsOf(Normalize(c, n)) = SecretsOf(c)
<1> DEFINE k == NewKey(n, DefaultLabel)
           ks == IF c.keys = << >> THEN <<k>> ELSE c.keys
           tok == IF c.token = NoToken THEN n ELSE c.token
<1>1. k \in Key /\ k.secret = n
  BY NewKeyType, LabelAssumption
<1>2. c.keys \in Seq(Key) /\ c.token \in Nat
  BY DEF Config
<1> HIDE DEF k
<1>3. /\ <<k>> \in Seq(Key) /\ <<k>> # << >>
      /\ DOMAIN <<k>> = {1} /\ <<k>>[1] = k
  BY <1>1
<1>4. ks \in Seq(Key) /\ ks # << >> /\ tok \in Nat /\ tok # NoToken
  BY <1>2, <1>3 DEF NoToken
<1>5. Normalize(c, n) = [c EXCEPT !.token = tok, !.keys = ks]
  BY DEF Normalize, k
<1>6. /\ Normalize(c, n) \in Config
      /\ Normalize(c, n).keys = ks /\ Normalize(c, n).token = tok
  <2> HIDE DEF ks, tok
  <2> QED  BY <1>4, <1>5 DEF Config
<1>7. c.keys = << >> => SecretsOf(c) = {}
  BY EmptySeq DEF SecretsOf
<1>8. c.keys = << >> => SecretsOf(Normalize(c, n)) = {n}
  BY <1>1, <1>3, <1>6 DEF SecretsOf
<1>9. c.keys # << >> => SecretsOf(Normalize(c, n)) = SecretsOf(c)
  BY <1>6 DEF SecretsOf
<1> QED  BY <1>4, <1>6, <1>7, <1>8, <1>9 DEF NeedsNormalizing

LEMMA SecretsType == ASSUME NEW c \in Config PROVE SecretsOf(c) \subseteq Nat
<1>1. c.keys \in Seq(Key) /\ \A i \in DOMAIN c.keys : c.keys[i] \in Key
  BY ElementOfSeq, LenProperties DEF Config
<1> QED  BY <1>1 DEF SecretsOf, Key

\* The secrets of a document one of whose keys is changed, removed or added.
LEMMA SecretsOfKeys ==
    ASSUME NEW c \in Config, NEW ks \in Seq(Key), NEW X,
           \A j \in DOMAIN ks : ks[j].secret \in X
    PROVE  [c EXCEPT !.keys = ks] \in Config /\ SecretsOf([c EXCEPT !.keys = ks]) \subseteq X
BY DEF Config, SecretsOf

-----------------------------------------------------------------------------
(* Type correctness.                                                       *)

\* What someone makes of a document is a document, with at most one new secret.
LEMMA EditsType ==
    ASSUME TypeOK, NEW c \in Config, NEW d \in EditsOf(c)
    PROVE  d \in Config /\ SecretsOf(d) \subseteq SecretsOf(c) \union {fresh}
<1>1. c.keys \in Seq(Key) /\ \A i \in DOMAIN c.keys : /\ c.keys[i] \in Key
                                                      /\ c.keys[i].secret \in SecretsOf(c)
  BY ElementOfSeq, LenProperties DEF Config, SecretsOf
<1>2. fresh \in Nat
  BY DEF TypeOK
<1>3. CASE d \in {c, [c EXCEPT !.token = NoToken], [c EXCEPT !.url = NoUrl]}
  BY <1>3 DEF Config, SecretsOf, NoToken
<1>4. CASE d = [c EXCEPT !.keys = << >>]
  <2>1. << >> \in Seq(Key) /\ DOMAIN << >> = {}
    BY EmptySeq
  <2>2. \A j \in DOMAIN << >> : << >>[j].secret \in SecretsOf(c)
    BY <2>1
  <2> QED  BY <1>4, <2>1, <2>2, SecretsOfKeys
<1>5. CASE \E i \in DOMAIN c.keys : d = [c EXCEPT !.keys = RemoveAt(c.keys, i)]
  <2>1. PICK i \in DOMAIN c.keys : d = [c EXCEPT !.keys = RemoveAt(c.keys, i)]
    BY <1>5
  <2>2. /\ RemoveAt(c.keys, i) \in Seq(Key)
        /\ \A j \in DOMAIN RemoveAt(c.keys, i) : RemoveAt(c.keys, i)[j].secret \in SecretsOf(c)
    BY <1>1, RemoveKey
  <2> QED  BY <2>1, <2>2, SecretsOfKeys
<1>6. CASE \E i \in DOMAIN c.keys : d = [c EXCEPT !.keys[i].secret = fresh]
  <2>1. PICK i \in DOMAIN c.keys : d = [c EXCEPT !.keys[i].secret = fresh]
    BY <1>6
  <2> DEFINE k == [c.keys[i] EXCEPT !.secret = fresh]
             ks == [c.keys EXCEPT ![i] = k]
  <2>2. k \in Key /\ k.secret = fresh
    BY <1>1, <1>2 DEF Key
  <2>3. d = [c EXCEPT !.keys = ks]
    BY <2>1
  <2> HIDE DEF k
  <2>4. ks \in Seq(Key) /\ \A j \in DOMAIN ks : ks[j].secret \in SecretsOf(c) \union {fresh}
    BY <1>1, <2>2, ExceptKey
  <2> HIDE DEF ks
  <2> QED  BY <2>3, <2>4, SecretsOfKeys
<1>7. CASE d = [c EXCEPT !.keys = Append(c.keys, NewKey(fresh, DefaultLabel))]
  <2> DEFINE k == NewKey(fresh, DefaultLabel)
  <2>1. k \in Key /\ k.secret = fresh
    BY <1>2, NewKeyType, LabelAssumption
  <2> HIDE DEF k
  <2>2. /\ Append(c.keys, k) \in Seq(Key)
        /\ \A j \in DOMAIN Append(c.keys, k) :
              Append(c.keys, k)[j].secret \in SecretsOf(c) \union {fresh}
    BY <1>1, <2>1, AppendKey
  <2>3. d = [c EXCEPT !.keys = Append(c.keys, k)]
    BY <1>7 DEF k
  <2> QED  BY <2>2, <2>3, SecretsOfKeys
<1> QED  BY <1>3, <1>4, <1>5, <1>6, <1>7 DEF EditsOf

\* What the admin handlers that reach save() have in common.
AdminStep(doc) ==
    /\ AdminSave(doc)
    /\ pc = "serving" /\ doc \in Config
    /\ doc.token = mem.token /\ (mem.keys # << >> => doc.keys # << >>)
    /\ \/ fresh' = fresh /\ SecretsOf(doc) \subseteq SecretsOf(mem)
       \/ fresh' = fresh + 1 /\ SecretsOf(doc) \subseteq SecretsOf(mem) \union {fresh}
    /\ labelling' \in {labelling, NoLabelling}

LEMMA ApiConfigStep ==
    ASSUME TypeOK, NEW url \in Urls \union {NoUrl}, ApiConfig(url)
    PROVE  \E doc : AdminStep(doc)
<1> DEFINE doc == [mem EXCEPT !.url = url]
<1>1. mem \in Config
  BY DEF TypeOK
<1>2. /\ doc \in Config /\ doc.token = mem.token /\ doc.keys = mem.keys
      /\ SecretsOf(doc) = SecretsOf(mem)
  BY <1>1 DEF Config, SecretsOf
<1>3. AdminSave(doc) /\ pc = "serving" /\ fresh' = fresh /\ labelling' = labelling
  BY DEF ApiConfig
<1> HIDE DEF doc
<1> QED  BY <1>2, <1>3 DEF AdminStep

LEMMA ApiKeysStep ==
    ASSUME TypeOK, NEW label \in Labels, ApiKeys(label)
    PROVE  \E doc : AdminStep(doc)
<1> DEFINE k == NewKey(fresh, label)
           ks == Append(mem.keys, k)
           doc == [mem EXCEPT !.keys = ks]
<1>1. mem \in Config /\ fresh \in Nat /\ mem.keys \in Seq(Key)
  BY DEF TypeOK, Config
<1>2. k \in Key /\ k.secret = fresh
  BY <1>1, NewKeyType
<1>3. AdminSave(doc) /\ pc = "serving" /\ fresh' = fresh + 1 /\ labelling' = labelling
  BY DEF ApiKeys
<1> HIDE DEF k
<1>4. ks \in Seq(Key) /\ ks # << >>
  BY <1>1, <1>2, AppendProperties
<1>5. \A j \in DOMAIN ks : ks[j].secret \in SecretsOf(mem) \union {fresh}
  BY <1>1, <1>2, AppendKey DEF SecretsOf
<1> HIDE DEF ks
<1>6. doc \in Config /\ SecretsOf(doc) \subseteq SecretsOf(mem) \union {fresh}
  BY <1>1, <1>4, <1>5, SecretsOfKeys
<1>7. doc.token = mem.token /\ doc.keys = ks
  BY <1>1 DEF Config
<1> HIDE DEF doc
<1> QED  BY <1>3, <1>4, <1>6, <1>7 DEF AdminStep

LEMMA RevokeStep ==
    ASSUME TypeOK, NEW i \in DOMAIN mem.keys, Revoke(i)
    PROVE  \E doc : AdminStep(doc)
<1> DEFINE ks == RemoveAt(mem.keys, i)
           doc == [mem EXCEPT !.keys = ks]
<1>1. mem \in Config /\ mem.keys \in Seq(Key)
  BY DEF TypeOK, Config
<1>2. /\ AdminSave(doc) /\ pc = "serving" /\ fresh' = fresh /\ labelling' = labelling
      /\ Len(mem.keys) # 1
  BY DEF Revoke, AdminAdmitted
<1>3. /\ ks \in Seq(Key) /\ Len(ks) = Len(mem.keys) - 1
      /\ \A j \in DOMAIN ks : ks[j].secret \in SecretsOf(mem)
  <2>1. /\ ks \in Seq(Key) /\ Len(ks) = Len(mem.keys) - 1
        /\ \A j \in DOMAIN ks : \E m \in DOMAIN mem.keys : ks[j] = mem.keys[m]
    BY <1>1, RemoveKey
  <2> HIDE DEF ks
  <2> QED  BY <2>1 DEF SecretsOf
<1>4. ks # << >>
  <2>1. Len(mem.keys) \in Nat /\ Len(<< >>) = 0
    BY <1>1, LenProperties
  <2> HIDE DEF ks
  <2>2. Len(ks) # 0
    BY <1>2, <1>3, <2>1
  <2> QED  BY <2>1, <2>2
<1> HIDE DEF ks
<1>5. doc \in Config /\ SecretsOf(doc) \subseteq SecretsOf(mem)
  BY <1>1, <1>3, SecretsOfKeys
<1>6. doc.token = mem.token /\ doc.keys = ks
  BY <1>1 DEF Config
<1> HIDE DEF doc
<1> QED  BY <1>2, <1>4, <1>5, <1>6 DEF AdminStep

LEMMA RotateStep ==
    ASSUME TypeOK, NEW i \in DOMAIN mem.keys, Rotate(i)
    PROVE  \E doc : AdminStep(doc)
<1> DEFINE k == [mem.keys[i] EXCEPT !.secret = fresh, !.requests = 0]
           ks == [mem.keys EXCEPT ![i] = k]
           doc == [mem EXCEPT !.keys = ks]
<1>1. mem \in Config /\ mem.keys \in Seq(Key) /\ fresh \in Nat /\ mem.keys[i] \in Key
  BY ElementOfSeq, LenProperties DEF TypeOK, Config
<1>2. k \in Key /\ k.secret = fresh
  BY <1>1 DEF Key
<1>3. AdminSave(doc) /\ pc = "serving" /\ fresh' = fresh + 1 /\ labelling' = labelling
  BY DEF Rotate, AdminAdmitted
<1> HIDE DEF k
<1>4. /\ ks \in Seq(Key) /\ ks # << >>
      /\ \A j \in DOMAIN ks : ks[j].secret \in SecretsOf(mem) \union {fresh}
  BY <1>1, <1>2, ExceptKey, EmptySeq DEF SecretsOf
<1> HIDE DEF ks
<1>5. doc \in Config /\ SecretsOf(doc) \subseteq SecretsOf(mem) \union {fresh}
  BY <1>1, <1>4, SecretsOfKeys
<1>6. doc.token = mem.token /\ doc.keys = ks
  BY <1>1 DEF Config
<1> HIDE DEF doc
<1> QED  BY <1>3, <1>4, <1>5, <1>6 DEF AdminStep

\* The label request saves what is in memory, with or without its label in it, or fails.
LEMMA LabelEndStep ==
    ASSUME TypeOK, NEW label \in Labels, LabelEnd(label)
    PROVE  \/ \E doc : AdminStep(doc)
           \/ labelling' = NoLabelling /\ UNCHANGED <<file, pc, saving, mem, seen, warned,
                  dirty, tick, watching, editVars, fresh, faults, pending, callVars, ackVars>>
<1>1. mem \in Config /\ mem.keys \in Seq(Key)
  BY DEF TypeOK, Config
<1>2. pc = "serving" /\ fresh' = fresh /\ labelling' = NoLabelling
  BY DEF LabelEnd
<1>3. CASE /\ labelling.idx \in DOMAIN mem.keys
           /\ AdminSave([mem EXCEPT !.keys[labelling.idx].label = label])
  <2> DEFINE i == labelling.idx
             k == [mem.keys[i] EXCEPT !.label = label]
             ks == [mem.keys EXCEPT ![i] = k]
             doc == [mem EXCEPT !.keys = ks]
  <2>1. i \in DOMAIN mem.keys /\ mem.keys[i] \in Key
    BY <1>1, <1>3, ElementOfSeq, LenProperties
  <2>2. k \in Key /\ k.secret = mem.keys[i].secret
    BY <2>1 DEF Key
  <2>3. AdminSave(doc)
    BY <1>3
  <2> HIDE DEF i, k
  <2>4. /\ ks \in Seq(Key) /\ ks # << >>
        /\ \A j \in DOMAIN ks : ks[j].secret \in SecretsOf(mem)
    BY <1>1, <2>1, <2>2, ExceptKey, EmptySeq DEF SecretsOf
  <2> HIDE DEF ks
  <2>5. doc \in Config /\ SecretsOf(doc) \subseteq SecretsOf(mem)
    BY <1>1, <2>4, SecretsOfKeys
  <2>6. doc.token = mem.token /\ doc.keys = ks
    BY <1>1 DEF Config
  <2> HIDE DEF doc
  <2> QED  BY <1>2, <2>3, <2>4, <2>5, <2>6 DEF AdminStep
<1>4. CASE AdminSave(mem)
  BY <1>1, <1>2, <1>4 DEF AdminStep
<1> QED  BY <1>2, <1>3, <1>4 DEF LabelEnd

LEMMA GoDownType ==
    ASSUME TypeOK, GoDown,
           UNCHANGED <<file, editVars, fresh, faults, pending, ackVars>>
    PROVE  TypeOK'
<1>1. NoLabelling \in [busy: BOOLEAN, id: Nat, idx: Nat \ {0}, live: BOOLEAN]
  BY DEF NoLabelling
<1>2. 0 \in 0 .. FlushEvery - 1
  BY FlushAssumption
<1> HIDE DEF NoLabelling
<1> QED  BY <1>1, <1>2, BlankType DEF TypeOK, GoDown, editVars, ackVars

LEMMA AdminStepType ==
    ASSUME TypeOK, NEW doc, AdminStep(doc)
    PROVE  TypeOK'
<1>1. NoLabelling \in [busy: BOOLEAN, id: Nat, idx: Nat \ {0}, live: BOOLEAN]
  BY DEF NoLabelling
<1>2. /\ mem' = doc /\ pc' = "replace" /\ saving' = "admin"
      /\ retiring' = SecretsOf(mem) \ SecretsOf(doc)
      /\ granting' = SecretsOf(doc) \ SecretsOf(mem)
      /\ granted' = granted \ (SecretsOf(mem) \ SecretsOf(doc))
      /\ UNCHANGED <<file, seen, warned, dirty, tick, watching,
                     editVars, faults, pending, retired>>
  BY DEF AdminStep, AdminSave, StartSave
<1>3. doc \in Config /\ mem \in Config /\ fresh' \in {fresh, fresh + 1}
      /\ labelling' \in {labelling, NoLabelling}
  BY DEF AdminStep, TypeOK
<1>4. SecretsOf(doc) \subseteq Nat /\ SecretsOf(mem) \subseteq Nat
  BY <1>3, SecretsType
<1> HIDE DEF NoLabelling
<1>5. retiring' \subseteq Nat /\ granting' \subseteq Nat /\ granted' \subseteq Nat
  BY <1>2, <1>4 DEF TypeOK
<1>6. fresh' \in Nat \ {0}
  BY <1>3 DEF TypeOK
<1> QED  BY <1>1, <1>2, <1>3, <1>5, <1>6 DEF TypeOK, editVars

LEMMA FlushOrSleepType ==
    ASSUME TypeOK, NEW t, FlushOrSleep(t), pc = "serving"  \/ pc = "replace"
    PROVE  /\ pc' \in {"serving", "replace"}
           /\ saving' \in {saving, "flush"}
           /\ pc' = "replace" => saving' = "flush"
BY DEF FlushOrSleep, StartSave

LEMMA TypeStep == TypeOK /\ [Next]_vars => TypeOK'
<1> SUFFICES ASSUME TypeOK, [Next]_vars PROVE TypeOK'
  OBVIOUS
<1> USE DEF callVars, ackVars, editVars, serverVars
<1>1. CASE Replace
  BY <1>1 DEF Replace, TypeOK, File, Json
<1>2. CASE InitReturns
  <2>1. CASE mem.url = NoUrl
    <3>1. [mem EXCEPT !.url = DefaultUrl] \in Config
      BY UrlAssumption DEF TypeOK, Config
    <3> QED  BY <1>2, <2>1, <3>1 DEF InitReturns, SaveReturns, StartSave, TypeOK
  <2>2. CASE mem.url # NoUrl
    BY <1>2, <2>2 DEF InitReturns, SaveReturns, TypeOK
  <2> QED  BY <2>1, <2>2
<1>3. CASE MainReturns
  BY <1>3 DEF MainReturns, SaveReturns, TypeOK
<1>4. CASE AdminReturns
  BY <1>4 DEF AdminReturns, SaveReturns, TypeOK
<1>5. ASSUME NEW caller, WatcherReturns(caller) PROVE TypeOK'
  BY <1>5 DEF WatcherReturns, SaveReturns, TypeOK
<1>6. CASE StopReturns
  BY <1>6, GoDownType DEF StopReturns
<1>7. CASE SaveFails
  <2>1. CASE GoDown
    <3>1. /\ UNCHANGED <<file, editVars, fresh, pending, ackVars>>
          /\ faults' = faults + 1
      BY <1>7 DEF SaveFails
    <3>2. NoLabelling \in [busy: BOOLEAN, id: Nat, idx: Nat \ {0}, live: BOOLEAN]
      BY DEF NoLabelling
    <3>3. 0 \in 0 .. FlushEvery - 1
      BY FlushAssumption
    <3> HIDE DEF NoLabelling
    <3>4. faults' \in Nat
      BY <3>1 DEF TypeOK
    <3> QED  BY <2>1, <3>1, <3>2, <3>3, <3>4, BlankType DEF GoDown, TypeOK
  <2>2. CASE ~GoDown
    <3>1. /\ UNCHANGED <<file, editVars, fresh, pending, ackVars>>
          /\ faults' \in Nat
      BY <1>7 DEF SaveFails, TypeOK
    <3>2. CASE saving = "admin"
      BY <1>7, <2>2, <3>1, <3>2 DEF SaveFails, TypeOK
    <3>3. CASE saving = "reload"
      <4>1. UNCHANGED <<serverVars, callVars>> /\ FlushOrSleep(tick) /\ pc = "replace"
        BY <1>7, <2>2, <3>3 DEF SaveFails
      <4>2. pc' \in {"serving", "replace"} /\ saving' \in {saving, "flush"}
        BY <4>1, FlushOrSleepType
      <4> QED  BY <3>1, <4>1, <4>2 DEF TypeOK
    <3>4. CASE saving = "flush"
      BY <1>7, <2>2, <3>1, <3>4 DEF SaveFails, TypeOK
    <3> QED  BY <1>7, <2>2, <3>2, <3>3, <3>4 DEF SaveFails
  <2> QED  BY <2>1, <2>2
<1>8. CASE Boot
  <2> DEFINE disk == IF file.shape = "json" THEN file.cfg ELSE Blank
  <2>1. disk \in Config
    BY BlankType DEF TypeOK, File
  <2>2. Normalize(disk, fresh) \in Config
    BY <2>1, NormalizeType DEF TypeOK
  <2>3. mem' = Normalize(disk, fresh) /\ fresh' \in {fresh, fresh + 1}
    BY <1>8 DEF Boot
  <2> HIDE DEF disk
  <2>4. mem' \in Config /\ fresh' \in Nat \ {0}
    BY <2>2, <2>3 DEF TypeOK
  <2> QED  BY <1>8, <2>4 DEF Boot, StartSave, TypeOK
<1>9. CASE Stop
  <2>1. CASE GoDown
    BY <1>9, <2>1, GoDownType DEF Stop
  <2>2. CASE ~GoDown
    BY <1>9, <2>2 DEF Stop, StartSave, TypeOK
  <2> QED  BY <2>1, <2>2
<1>10. CASE Crash
  BY <1>10, GoDownType DEF Crash
<1>11. ASSUME NEW i \in DOMAIN mem.keys, Proxy(i) PROVE TypeOK'
  <2> DEFINE k == [mem.keys[i] EXCEPT !.requests = @ + 1]
             ks == [mem.keys EXCEPT ![i] = k]
  <2>1. mem \in Config /\ mem.keys \in Seq(Key) /\ mem.keys[i] \in Key
    BY ElementOfSeq, LenProperties DEF TypeOK, Config
  <2>2. k \in Key
    <3>1. mem.keys[i].requests + 1 \in Nat
      BY <2>1 DEF Key
    <3> QED  BY <2>1, <3>1 DEF Key
  <2>3. mem' = [mem EXCEPT !.keys = ks]
    BY <1>11 DEF Proxy
  <2> HIDE DEF k
  <2>4. ks \in Seq(Key)
    BY <2>1, <2>2, ExceptKey
  <2> HIDE DEF ks
  <2>5. mem' \in Config
    BY <2>1, <2>3, <2>4 DEF Config
  <2> QED  BY <1>11, <2>5 DEF Proxy, TypeOK
<1>12. ASSUME NEW doc, AdminStep(doc) PROVE TypeOK'
  BY <1>12, AdminStepType
<1>13. ASSUME NEW i \in DOMAIN mem.keys, LabelBegin(i) PROVE TypeOK'
  <2>1. mem.keys[i] \in Key /\ i \in Nat \ {0}
    BY ElementOfSeq, LenProperties DEF TypeOK, Config
  <2>2. mem.keys[i].id \in Nat
    BY <2>1 DEF Key
  <2>3. labelling' \in [busy: BOOLEAN, id: Nat, idx: Nat \ {0}, live: BOOLEAN]
    BY <1>13, <2>1, <2>2 DEF LabelBegin
  <2> QED  BY <1>13, <2>3 DEF LabelBegin, TypeOK
<1>14. ASSUME NEW label \in Labels, LabelEnd(label) PROVE TypeOK'
  <2>1. CASE \E doc : AdminStep(doc)
    BY <2>1, AdminStepType
  <2>2. CASE ~ \E doc : AdminStep(doc)
    <3>1. labelling' = NoLabelling /\ UNCHANGED <<file, pc, saving, mem, seen, warned,
             dirty, tick, watching, editVars, fresh, faults, pending, callVars, ackVars>>
      BY <1>14, <2>2, LabelEndStep
    <3>2. NoLabelling \in [busy: BOOLEAN, id: Nat, idx: Nat \ {0}, live: BOOLEAN]
      BY DEF NoLabelling
    <3> HIDE DEF NoLabelling
    <3> QED  BY <3>1, <3>2 DEF TypeOK
  <2> QED  BY <2>1, <2>2
<1>15. CASE WatcherTick
  <2>1. PICK t \in 0 .. FlushEvery - 1 :
          TickNothingNew(t) \/ TickUnparseable(t) \/ TickMalformed(t) \/ TickReload(t)
    BY <1>15 DEF WatcherTick
  <2>2. Tick(t)
    BY <2>1 DEF TickNothingNew, TickUnparseable, TickMalformed, TickReload
  <2>3. [labelling EXCEPT !.live = FALSE]
          \in [busy: BOOLEAN, id: Nat, idx: Nat \ {0}, live: BOOLEAN]
    BY DEF TypeOK
  <2>4. CASE FlushOrSleep(t)
    <3>1. pc' \in {"serving", "replace"} /\ saving' \in {saving, "flush"}
      BY <2>2, <2>4, FlushOrSleepType DEF Tick
    <3>2. mem' \in Config
      BY <2>1, <2>4, BlankType, <2>2 DEF TickNothingNew, TickUnparseable, TickMalformed,
         TickReload, TypeOK, FlushOrSleep, StartSave
    <3>3. /\ warned' \in BOOLEAN /\ labelling' \in {labelling, [labelling EXCEPT !.live = FALSE]}
          /\ UNCHANGED <<seen, dirty, fresh, pending>>
      BY <2>1, <2>4 DEF TickNothingNew, TickUnparseable, TickMalformed, TickReload, TypeOK,
         FlushOrSleep, StartSave
    <3> QED  BY <2>2, <2>3, <3>1, <3>2, <3>3 DEF Tick, TypeOK
  <2>5. CASE TickReload(t)
    <3> DEFINE doc == Adopt(file.cfg, mem)
    <3>1. doc \in Config
      BY AdoptType DEF TypeOK, File
    <3>2. mem' = Normalize(doc, fresh) /\ fresh' \in {fresh, fresh + 1}
      BY <2>5 DEF TickReload
    <3> HIDE DEF doc
    <3>3. mem' \in Config
      BY <3>1, <3>2, NormalizeType DEF TypeOK
    <3>4. fresh' \in Nat \ {0}
      BY <3>2 DEF TypeOK
    <3>5. tick' \in 0 .. FlushEvery - 1
      BY <2>2 DEF Tick
    <3> QED  BY <2>2, <2>3, <2>5, <3>3, <3>4, <3>5 DEF TickReload, Tick, StartSave, TypeOK
  <2> QED  BY <2>1, <2>4, <2>5 DEF TickNothingNew, TickUnparseable, TickMalformed
<1>16. CASE EditorOpen
  BY <1>16 DEF EditorOpen, TypeOK, File
<1>17. ASSUME NEW f \in File, f.shape # "json" => f.cfg = Blank, Overwrite(f),
              fresh' \in {fresh, fresh + 1}
       PROVE  TypeOK'
  <2>1. fresh' \in Nat \ {0} /\ edits' \in Nat
    BY <1>17 DEF Overwrite, TypeOK
  <2>2. pending' \in BOOLEAN
    BY <1>17 DEF Overwrite
  <2> QED  BY <1>17, <2>1, <2>2, ZenonT(60) DEF Overwrite, TypeOK
<1>18. ASSUME NEW c \in EditsOf(editor.cfg), EditorSave(c) PROVE TypeOK'
  <2>1. c \in Config
    BY EditsType DEF TypeOK
  <2>2. Json(c) \in File /\ Json(c).shape = "json"
    BY <2>1 DEF Json, File
  <2> QED  BY <1>17, <1>18, <2>2 DEF EditorSave
<1>19. ASSUME NEW shape \in {"garbage", "malformed", "absent"}, Overwrite(Other(shape)),
              fresh' = fresh
       PROVE  TypeOK'
  <2>1. Other(shape) \in File /\ Other(shape).cfg = Blank
    BY BlankType DEF Other, File
  <2> QED  BY <1>17, <1>19, <2>1
<1>20. CASE UNCHANGED vars
  BY <1>20 DEF vars, TypeOK
<1>21. CASE Handler
  BY <1>11, <1>12, <1>13, <1>14, <1>21, ApiConfigStep, ApiKeysStep, RevokeStep, RotateStep
     DEF Handler
<1>22. CASE Editor
  BY <1>16, <1>18, <1>19, <1>22 DEF Editor, EditorSlips, EditorRemoves
<1>23. CASE Save
  BY <1>1, <1>2, <1>3, <1>4, <1>5, <1>6, <1>23 DEF Save
<1> QED  BY <1>7, <1>8, <1>9, <1>10, <1>15, <1>20, <1>21, <1>22, <1>23 DEF Next

\* Type correctness: whatever mishaps the surroundings are allowed, the document in
\* memory and the one the gateway writes are well-formed (Config, all handlers).
THEOREM TypeCorrect == Spec => []TypeOK
<1>1. Init => TypeOK
  <2> SUFFICES ASSUME Init PROVE TypeOK
    OBVIOUS
  <2>1. NoLabelling \in [busy: BOOLEAN, id: Nat, idx: Nat \ {0}, live: BOOLEAN]
    BY DEF NoLabelling
  <2>2. 0 \in 0 .. FlushEvery - 1
    BY FlushAssumption
  <2> HIDE DEF NoLabelling
  <2>3. Other("absent") \in File /\ Other("absent").cfg = Blank
    BY BlankType DEF Other, File
  <2>4. [open |-> FALSE, cfg |-> Blank] \in [open: BOOLEAN, cfg: Config]
    BY BlankType
  <2>5. fresh \in Nat \ {0} /\ edits \in Nat /\ faults \in Nat
    BY DEF Init
  <2>6. file \in File /\ file.cfg = Blank
    BY <2>3 DEF Init
  <2> QED  BY <2>1, <2>2, <2>4, <2>5, <2>6, BlankType DEF Init, TypeOK
<1> QED  BY <1>1, TypeStep, PTL DEF Spec

-----------------------------------------------------------------------------
(* Acknowledged key operations.                                            *)

LEMMA SecretsExtensional ==
    ASSUME NEW c, NEW d, c.keys = d.keys
    PROVE  SecretsOf(c) = SecretsOf(d)
BY DEF SecretsOf

\* Counting a request changes no secret.
LEMMA ProxySecrets ==
    ASSUME TypeOK, NEW i \in DOMAIN mem.keys, Proxy(i)
    PROVE  SecretsOf(mem') = SecretsOf(mem)
<1> DEFINE k == [mem.keys[i] EXCEPT !.requests = @ + 1]
           ks == [mem.keys EXCEPT ![i] = k]
<1>1. mem \in Config /\ mem.keys \in Seq(Key) /\ mem.keys[i] \in Key
  BY ElementOfSeq, LenProperties DEF TypeOK, Config
<1>2. k.secret = mem.keys[i].secret
  BY <1>1 DEF Key
<1>3. mem' = [mem EXCEPT !.keys = ks]
  BY DEF Proxy
<1> HIDE DEF k
<1>4. /\ DOMAIN ks = DOMAIN mem.keys
      /\ \A j \in DOMAIN mem.keys : ks[j].secret = mem.keys[j].secret
  BY <1>1, <1>2
<1> HIDE DEF ks
<1>5. mem'.keys = ks
  BY <1>1, <1>3 DEF Config
<1> QED  BY <1>4, <1>5 DEF SecretsOf

\* A process that goes down takes the unacknowledged call with it.
LEMMA GoDownAck ==
    ASSUME AckInv, GoDown, UNCHANGED <<file, editor, fresh, retired, granted>>
    PROVE  AckInv'
<1>1. SecretsOf(mem') = {}
  BY BlankType DEF GoDown
<1>2. pc' = "down" /\ retiring' = {} /\ granting' = {}
  BY DEF GoDown
<1> QED  BY <1>1, <1>2 DEF AckInv, RetiredStaysDead, IssuedIsDurable

\* An admin handler moves secrets between memory and this call's two sets; the file
\* still holds what was acknowledged.
LEMMA AdminStepAck ==
    ASSUME TypeOK, AckInv, NEW doc, AdminStep(doc)
    PROVE  AckInv'
<1> DEFINE M == SecretsOf(mem)
           D == SecretsOf(doc)
<1>1. /\ mem' = doc /\ pc' = "replace" /\ saving' = "admin"
      /\ retiring' = M \ D /\ granting' = D \ M /\ granted' = granted \ (M \ D)
      /\ UNCHANGED <<file, editor, retired>>
  BY DEF AdminStep, AdminSave, StartSave, editVars
<1>2. /\ pc = "serving"
      /\ \/ fresh' = fresh /\ D \subseteq M
         \/ fresh' = fresh + 1 /\ D \subseteq M \union {fresh}
  BY DEF AdminStep
<1>3. SecretsOf(mem') = D /\ UNCHANGED <<SecretsOf(file.cfg), SecretsOf(editor.cfg)>>
  BY <1>1
<1>4. /\ fresh \in Nat /\ M \subseteq Nat /\ retired \subseteq Nat
      /\ SecretsOf(file.cfg) \subseteq Nat /\ SecretsOf(editor.cfg) \subseteq Nat
  BY SecretsType DEF TypeOK, File
<1> HIDE DEF M, D
<1>5. /\ \A s \in M \union SecretsOf(file.cfg) \union SecretsOf(editor.cfg) \union retired :
            s < fresh
      /\ retired \intersect (M \union SecretsOf(file.cfg)) = {}
      /\ granted \subseteq M /\ granted \subseteq SecretsOf(file.cfg)
  BY <1>2 DEF AckInv, RetiredStaysDead, IssuedIsDurable, M
<1>6. \A s \in D \union SecretsOf(file.cfg) \union SecretsOf(editor.cfg) \union retired
              \union (M \ D) : s < fresh'
  <2> SUFFICES ASSUME NEW s \in D \union SecretsOf(file.cfg) \union SecretsOf(editor.cfg)
                               \union retired \union (M \ D)
               PROVE  s < fresh'
    OBVIOUS
  <2>1. s \in M \union SecretsOf(file.cfg) \union SecretsOf(editor.cfg) \union retired
        \/ (s = fresh /\ fresh' = fresh + 1)
    <3>1. s \in D => s \in M \/ (s = fresh /\ fresh' = fresh + 1)
      BY <1>2
    <3> QED  BY <3>1
  <2>2. s \in Nat
    BY <1>4, <2>1
  <2>3. s < fresh \/ (s = fresh /\ fresh' = fresh + 1)
    BY <1>5, <2>1
  <2> QED  BY <1>2, <1>4, <2>2, <2>3
<1>7. retired \intersect D = {}
  BY <1>2, <1>4, <1>5
<1>8. AckInv' <=> /\ \A s \in D \union SecretsOf(file.cfg) \union SecretsOf(editor.cfg)
                              \union retired \union (M \ D) : s < fresh'
                  /\ retired \intersect (D \union SecretsOf(file.cfg)) = {}
                  /\ (M \ D) \intersect D = {}
                  /\ granted \ (M \ D) \subseteq SecretsOf(file.cfg)
                  /\ granted \ (M \ D) \subseteq D
                  /\ D \ M \subseteq D
  BY <1>1, <1>3 DEF AckInv, RetiredStaysDead, IssuedIsDurable
<1> QED  BY <1>5, <1>6, <1>7, <1>8

\* Someone else's document decides which of the acknowledged secrets it still concerns.
LEMMA OverwriteAck ==
    ASSUME TypeOK, AckInv, NEW f, Overwrite(f), fresh' \in {fresh, fresh + 1},
           SecretsOf(f.cfg) \subseteq Nat,
           \A s \in SecretsOf(f.cfg) : s < fresh'
    PROVE  AckInv'
<1> DEFINE F == SecretsOf(f.cfg)
<1>1. /\ file' = f /\ UNCHANGED <<mem, pc, saving, editor>>
      /\ retired' = retired \ F /\ retiring' = retiring \ F
      /\ granted' = granted \intersect F /\ granting' = granting \intersect F
  BY DEF Overwrite
<1>2. /\ SecretsOf(file'.cfg) = F
      /\ UNCHANGED <<SecretsOf(mem), SecretsOf(editor.cfg)>>
  BY <1>1
<1>3. /\ fresh \in Nat /\ retired \subseteq Nat /\ retiring \subseteq Nat
      /\ SecretsOf(mem) \subseteq Nat /\ SecretsOf(editor.cfg) \subseteq Nat
  BY SecretsType DEF TypeOK
<1> HIDE DEF F
<1>4. \A s \in SecretsOf(mem) \union F \union SecretsOf(editor.cfg) \union (retired \ F)
              \union (retiring \ F) : s < fresh'
  <2>1. \A s \in SecretsOf(mem) \union SecretsOf(editor.cfg) \union retired \union retiring :
          s < fresh
    BY DEF AckInv
  <2>2. \A s \in Nat : s < fresh => s < fresh'
    BY <1>3
  <2>3. \A s \in F : s < fresh'
    BY DEF F
  <2> QED  BY <1>3, <2>1, <2>2, <2>3
<1> QED  BY <1>1, <1>2, <1>4 DEF AckInv, RetiredStaysDead, IssuedIsDurable

LEMMA AckStep == TypeOK /\ TypeOK' /\ AckInv /\ [Next]_vars => AckInv'
<1> SUFFICES ASSUME TypeOK, TypeOK', AckInv, [Next]_vars PROVE AckInv'
  OBVIOUS
<1> USE DEF callVars, ackVars, editVars, serverVars
\* Steps that touch no document, and no set of secrets but to drop what the call held.
<1>1. ASSUME SecretsOf(mem') = SecretsOf(mem),
             UNCHANGED <<file, editor, fresh, retired, granted>>,
             \/ UNCHANGED <<retiring, granting>> /\ pc' = pc /\ saving' = saving
             \/ UNCHANGED <<retiring, granting>> /\ saving # "admin" /\ pc # "down" /\ pc' # "down"
             \/ UNCHANGED <<retiring, granting>> /\ pc = "serving" /\ pc' = "replace"
             \/ retiring' = {} /\ granting' = {} /\ pc # "down"
      PROVE  AckInv'
  <2>1. UNCHANGED <<SecretsOf(file.cfg), SecretsOf(editor.cfg)>>
    BY <1>1
  <2> QED  BY <1>1, <2>1 DEF AckInv, RetiredStaysDead, IssuedIsDurable
<1>2. CASE Replace
  <2>1. file'.cfg = mem /\ pc = "replace" /\ pc' = "stamp"
        /\ UNCHANGED <<mem, saving, editor, fresh, retired, retiring, granted, granting>>
    BY <1>2 DEF Replace, Json
  <2>2. SecretsOf(file'.cfg) = SecretsOf(mem)
        /\ UNCHANGED <<SecretsOf(mem), SecretsOf(editor.cfg)>>
    BY <2>1
  <2> QED  BY <2>1, <2>2 DEF AckInv, RetiredStaysDead, IssuedIsDurable
<1>3. CASE InitReturns
  <2>1. mem'.keys = mem.keys
    BY <1>3 DEF InitReturns, TypeOK, Config
  <2> QED  BY <1>1, <1>3, <2>1, SecretsExtensional
           DEF InitReturns, SaveReturns, StartSave
<1>4. CASE MainReturns
  BY <1>1, <1>4 DEF MainReturns, SaveReturns
<1>5. CASE AdminReturns
  <2>1. /\ pc = "stamp" /\ pc' = "serving"
        /\ retired' = retired \union retiring /\ granted' = granted \union granting
        /\ retiring' = {} /\ granting' = {}
        /\ UNCHANGED <<mem, file, editor, fresh>>
    BY <1>5 DEF AdminReturns, SaveReturns
  <2>2. UNCHANGED <<SecretsOf(mem), SecretsOf(file.cfg), SecretsOf(editor.cfg)>>
    BY <2>1
  <2> QED  BY <2>1, <2>2 DEF AckInv, RetiredStaysDead, IssuedIsDurable
<1>6. ASSUME NEW caller \in {"reload", "flush"}, WatcherReturns(caller) PROVE AckInv'
  BY <1>1, <1>6 DEF WatcherReturns, SaveReturns
<1>7. CASE StopReturns
  BY <1>7, GoDownAck DEF StopReturns
<1>8. CASE SaveFails
  <2>1. CASE GoDown
    BY <1>8, <2>1, GoDownAck DEF SaveFails
  <2>2. CASE ~GoDown
    BY <1>1, <1>8, <2>2 DEF SaveFails, FlushOrSleep, StartSave
  <2> QED  BY <2>1, <2>2
<1>9. CASE Boot
  <2> DEFINE disk == IF file.shape = "json" THEN file.cfg ELSE Blank
  <2>1. disk \in Config /\ SecretsOf(disk) = SecretsOf(file.cfg)
    BY BlankType DEF TypeOK, File
  <2>2. /\ pc = "down" /\ pc' = "replace" /\ mem' = Normalize(disk, fresh)
        /\ fresh' = IF NeedsNormalizing(disk) THEN fresh + 1 ELSE fresh
        /\ UNCHANGED <<file, editor, retired, retiring, granted, granting>>
    BY <1>9 DEF Boot, StartSave
  <2> HIDE DEF disk
  <2> DEFINE N == SecretsOf(mem')
             F == SecretsOf(file.cfg)
  <2>3. /\ F \subseteq N
        /\ \/ N = F /\ fresh' = fresh
           \/ N \subseteq F \union {fresh} /\ fresh' = fresh + 1
    BY <2>1, <2>2, NormalizeType DEF TypeOK
  <2>4. UNCHANGED <<SecretsOf(file.cfg), SecretsOf(editor.cfg)>> /\ retiring = {} /\ granting = {}
    BY <2>2 DEF AckInv
  <2>5. fresh \in Nat /\ F \subseteq Nat /\ retired \subseteq Nat
        /\ SecretsOf(editor.cfg) \subseteq Nat
    BY SecretsType DEF TypeOK, File
  <2>6. /\ \A s \in F \union SecretsOf(editor.cfg) \union retired : s < fresh
        /\ retired \intersect F = {} /\ granted \subseteq F
    BY DEF AckInv, RetiredStaysDead, IssuedIsDurable
  <2> HIDE DEF N, F
  <2>7. retired \intersect N = {}
    BY <2>3, <2>5, <2>6
  <2>8. \A s \in Nat : (s < fresh => s < fresh')
    BY <2>3, <2>5
  <2>9. \A s \in N : s < fresh'
    BY <2>3, <2>5, <2>6
  <2>10. \A s \in N \union F \union SecretsOf(editor.cfg) \union retired : s < fresh'
    BY <2>5, <2>6, <2>8, <2>9
  <2> QED  BY <2>2, <2>3, <2>4, <2>6, <2>7, <2>10
           DEF AckInv, RetiredStaysDead, IssuedIsDurable, N, F
<1>10. CASE Stop
  <2>1. CASE GoDown
    BY <1>10, <2>1, GoDownAck DEF Stop
  <2>2. CASE ~GoDown
    BY <1>1, <1>10, <2>2 DEF Stop, StartSave
  <2> QED  BY <2>1, <2>2
<1>11. CASE Crash
  BY <1>11, GoDownAck DEF Crash
<1>12. ASSUME NEW i \in DOMAIN mem.keys, Proxy(i) PROVE AckInv'
  BY <1>1, <1>12, ProxySecrets DEF Proxy
<1>13. ASSUME NEW doc, AdminStep(doc) PROVE AckInv'
  BY <1>13, AdminStepAck
<1>14. ASSUME NEW i \in DOMAIN mem.keys, LabelBegin(i) PROVE AckInv'
  BY <1>1, <1>14 DEF LabelBegin
<1>15. ASSUME NEW label \in Labels, LabelEnd(label) PROVE AckInv'
  BY <1>1, <1>13, <1>15, LabelEndStep
<1>16. CASE Handler
  BY <1>12, <1>13, <1>14, <1>15, <1>16, ApiConfigStep, ApiKeysStep, RevokeStep, RotateStep
     DEF Handler
<1>17. CASE WatcherTick
  <2>1. PICK t \in 0 .. FlushEvery - 1 :
          TickNothingNew(t) \/ TickUnparseable(t) \/ TickMalformed(t) \/ TickReload(t)
    BY <1>17 DEF WatcherTick
  <2>2. pc = "serving" /\ UNCHANGED <<file, editor, retired, retiring, granted, granting>>
    BY <2>1 DEF TickNothingNew, TickUnparseable, TickMalformed, TickReload, Tick
  <2>3. CASE TickNothingNew(t) \/ TickUnparseable(t)
    BY <1>1, <2>2, <2>3 DEF TickNothingNew, TickUnparseable, FlushOrSleep, StartSave
  <2>4. CASE TickMalformed(t)
    <3>1. SecretsOf(file.cfg) = {} /\ SecretsOf(mem') = {} /\ fresh' = fresh
      BY <2>4, BlankType DEF TickMalformed, TypeOK
    <3>2. UNCHANGED <<SecretsOf(file.cfg), SecretsOf(editor.cfg)>>
          /\ retiring = {} /\ granting = {} /\ granted = {}
      BY <2>2, <3>1 DEF AckInv, IssuedIsDurable
    <3> QED  BY <2>2, <3>1, <3>2 DEF AckInv, RetiredStaysDead, IssuedIsDurable
  <2>5. CASE TickReload(t)
    <3> DEFINE doc == Adopt(file.cfg, mem)
               N == SecretsOf(mem')
               F == SecretsOf(file.cfg)
    <3>1. doc \in Config /\ SecretsOf(doc) = F
      BY AdoptType DEF TypeOK, File
    <3>2. /\ mem' = Normalize(doc, fresh)
          /\ fresh' = IF NeedsNormalizing(doc) THEN fresh + 1 ELSE fresh
          /\ pc' = "replace"
      BY <2>5 DEF TickReload, StartSave
    <3> HIDE DEF doc
    <3>3. /\ F \subseteq N
          /\ \/ N = F /\ fresh' = fresh
             \/ N \subseteq F \union {fresh} /\ fresh' = fresh + 1
      BY <3>1, <3>2, NormalizeType DEF TypeOK
    <3>4. UNCHANGED <<SecretsOf(file.cfg), SecretsOf(editor.cfg)>>
          /\ retiring = {} /\ granting = {}
      BY <2>2 DEF AckInv
    <3>5. fresh \in Nat /\ F \subseteq Nat /\ retired \subseteq Nat
          /\ SecretsOf(editor.cfg) \subseteq Nat
      BY SecretsType DEF TypeOK, File
    <3>6. /\ \A s \in F \union SecretsOf(editor.cfg) \union retired : s < fresh
          /\ retired \intersect F = {} /\ granted \subseteq F
      BY DEF AckInv, RetiredStaysDead, IssuedIsDurable
    <3> HIDE DEF N, F
    <3>7. retired \intersect N = {}
      BY <3>3, <3>5, <3>6
    <3>8. \A s \in Nat : (s < fresh => s < fresh')
      BY <3>3, <3>5
    <3>9. \A s \in N : s < fresh'
      BY <3>3, <3>5, <3>6
    <3>10. \A s \in N \union F \union SecretsOf(editor.cfg) \union retired : s < fresh'
      BY <3>5, <3>6, <3>8, <3>9
    <3> QED  BY <2>2, <3>2, <3>3, <3>4, <3>6, <3>7, <3>10
             DEF AckInv, RetiredStaysDead, IssuedIsDurable, N, F
  <2> QED  BY <2>1, <2>3, <2>4, <2>5
<1>18. CASE EditorOpen
  <2>1. editor'.cfg = file.cfg
        /\ UNCHANGED <<file, mem, pc, saving, fresh, retired, retiring, granted, granting>>
    BY <1>18 DEF EditorOpen
  <2>2. SecretsOf(editor'.cfg) = SecretsOf(file.cfg)
        /\ UNCHANGED <<SecretsOf(mem), SecretsOf(file.cfg)>>
    BY <2>1
  <2> QED  BY <2>1, <2>2 DEF AckInv, RetiredStaysDead, IssuedIsDurable
<1>19. ASSUME NEW c \in EditsOf(editor.cfg), EditorSave(c) PROVE AckInv'
  <2> DEFINE S == SecretsOf(c)
             E == SecretsOf(editor.cfg)
  <2>1. c \in Config /\ S \subseteq E \union {fresh}
    BY EditsType DEF TypeOK
  <2>2. S \subseteq Nat /\ fresh \in Nat /\ \A s \in E : s < fresh
    BY <2>1, SecretsType DEF TypeOK, AckInv
  <2>3. Overwrite(Json(c)) /\ fresh' = IF S \subseteq E THEN fresh ELSE fresh + 1
    BY <1>19 DEF EditorSave
  <2>4. Json(c).cfg = c
    BY DEF Json
  <2> HIDE DEF S, E
  <2>5. \A s \in S : s < fresh'
    BY <2>1, <2>2, <2>3
  <2> QED  BY <2>2, <2>3, <2>4, <2>5, OverwriteAck DEF S
<1>20. ASSUME NEW shape, Overwrite(Other(shape)), fresh' = fresh PROVE AckInv'
  <2>1. SecretsOf(Other(shape).cfg) = {}
    BY BlankType DEF Other
  <2> QED  BY <1>20, <2>1, OverwriteAck
<1>21. CASE Editor
  BY <1>18, <1>19, <1>20, <1>21 DEF Editor, EditorSlips, EditorRemoves
<1>22. CASE Save
  BY <1>2, <1>3, <1>4, <1>5, <1>6, <1>7, <1>22 DEF Save
<1>23. CASE UNCHANGED vars
  BY <1>1, <1>23 DEF vars
<1> QED  BY <1>8, <1>9, <1>10, <1>11, <1>16, <1>17, <1>21, <1>22, <1>23 DEF Next

\* The invariant behind the two theorems below holds under every choice of mishaps.
THEOREM AckInvariant == Spec => []AckInv
<1>1. Init => AckInv
  <2>1. ASSUME Init PROVE AckInv
    <3>1. SecretsOf(mem) = {} /\ SecretsOf(file.cfg) = {} /\ SecretsOf(editor.cfg) = {}
      BY <2>1, BlankType DEF Init, Other
    <3> QED  BY <2>1, <3>1 DEF Init, AckInv, RetiredStaysDead, IssuedIsDurable
  <2> QED  BY <2>1
<1> QED  BY <1>1, AckStep, TypeCorrect, PTL DEF Spec

\* A secret acknowledged as revoked or rotated away is neither accepted nor on disk
\* again, through crashes, failed writes, races and reloads, unless someone writes it
\* back from an old copy (api_key_op, save, reload_if_changed, Config.__init__).
THEOREM RevocationIsPermanent == Spec => []RetiredStaysDead
BY AckInvariant, PTL DEF AckInv

\* A secret acknowledged as issued is on disk and accepted until it is taken back
\* (api_keys, api_key_op, save).
THEOREM IssueIsDurable == Spec => []IssuedIsDurable
BY AckInvariant, PTL DEF AckInv

-----------------------------------------------------------------------------
(* Counters.                                                               *)

\* The ids of these keys are pairwise different and below n.
IdsFit(ks, n) ==
    /\ \A i, j \in DOMAIN ks : ks[i].id = ks[j].id => i = j
    /\ \A i \in DOMAIN ks : ks[i].id < n

\* The invariant behind the counters: wherever a document is, its keys have ids of
\* their own, none of them still to be drawn; a gateway that is down has no keys.
IdsInv ==
    /\ IdsFit(mem.keys, fresh) /\ IdsFit(file.cfg.keys, fresh) /\ IdsFit(editor.cfg.keys, fresh)
    /\ pc = "down" => mem = Blank

\* From the keys ks to the keys ls, no key that keeps its secret loses a request.
NoneRegress(ks, ls) ==
    \A i \in DOMAIN ks, j \in DOMAIN ls :
        ks[i].id = ls[j].id /\ ks[i].secret = ls[j].secret => ks[i].requests <= ls[j].requests

LEMMA KeysOf ==
    ASSUME NEW c \in Config
    PROVE  /\ c.keys \in Seq(Key) /\ DOMAIN c.keys \subseteq Nat
           /\ \A i \in DOMAIN c.keys :
                 /\ c.keys[i] \in Key /\ c.keys[i].id \in Nat
                 /\ c.keys[i].secret \in Nat /\ c.keys[i].secret \in SecretsOf(c)
                 /\ c.keys[i].requests \in Nat
<1>1. c.keys \in Seq(Key) /\ DOMAIN c.keys \subseteq Nat
      /\ \A i \in DOMAIN c.keys : c.keys[i] \in Key
  BY ElementOfSeq, LenProperties DEF Config
<1> QED  BY <1>1 DEF Key, SecretsOf

LEMMA BlankIds == \A n \in Nat : IdsFit(Blank.keys, n)
<1>1. DOMAIN << >> = {}
  BY EmptySeq
<1> QED  BY <1>1 DEF Blank, IdsFit

\* The same keys, in a document that differs in something else.
LEMMA SameIds ==
    ASSUME NEW c \in Config, NEW n \in Nat, NEW m \in Nat, n <= m, IdsFit(c.keys, n)
    PROVE  IdsFit(c.keys, m) /\ NoneRegress(c.keys, c.keys)
<1>1. \A i \in DOMAIN c.keys : c.keys[i].id \in Nat /\ c.keys[i].requests \in Nat
  BY KeysOf
<1>2. \A x \in Nat : x < n => x < m
  OBVIOUS
<1>3. \A x \in Nat : x <= x
  OBVIOUS
<1>4. ASSUME NEW i \in DOMAIN c.keys, NEW j \in DOMAIN c.keys, c.keys[i].id = c.keys[j].id
      PROVE  c.keys[i].requests <= c.keys[j].requests
  <2>1. i = j
    BY <1>4 DEF IdsFit
  <2> QED  BY <1>1, <1>3, <2>1
<1> QED  BY <1>1, <1>2, <1>4 DEF IdsFit, NoneRegress

LEMMA ExceptIds ==
    ASSUME NEW c \in Config, NEW n \in Nat, NEW m \in Nat, n <= m, IdsFit(c.keys, n),
           NEW i \in DOMAIN c.keys, NEW k \in Key, k.id = c.keys[i].id,
           k.secret = c.keys[i].secret => c.keys[i].requests <= k.requests
    PROVE  /\ IdsFit([c.keys EXCEPT ![i] = k], m)
           /\ NoneRegress(c.keys, [c.keys EXCEPT ![i] = k])
<1> DEFINE ks == [c.keys EXCEPT ![i] = k]
<1>1. /\ c.keys \in Seq(Key)
      /\ \A j \in DOMAIN c.keys : c.keys[j].id \in Nat /\ c.keys[j].requests \in Nat
  BY KeysOf
<1>2. DOMAIN ks = DOMAIN c.keys /\ \A j \in DOMAIN c.keys : ks[j] = IF j = i THEN k ELSE c.keys[j]
  BY <1>1, ExceptKey
<1> HIDE DEF ks
<1>3. \A j \in DOMAIN c.keys : ks[j].id = c.keys[j].id
  BY <1>2
<1>4. IdsFit(ks, m)
  <2>1. \A x \in Nat : x < n => x < m
    OBVIOUS
  <2> QED  BY <1>1, <1>2, <1>3, <2>1 DEF IdsFit
<1>5. ASSUME NEW g \in DOMAIN c.keys, NEW h \in DOMAIN ks,
             c.keys[g].id = ks[h].id, c.keys[g].secret = ks[h].secret
      PROVE  c.keys[g].requests <= ks[h].requests
  <2>1. g = h
    BY <1>2, <1>3, <1>5 DEF IdsFit
  <2>2. \A x \in Nat : x <= x
    OBVIOUS
  <2> QED  BY <1>1, <1>2, <1>5, <2>1, <2>2
<1> QED  BY <1>4, <1>5 DEF NoneRegress, ks

LEMMA AppendIds ==
    ASSUME NEW c \in Config, NEW n \in Nat, IdsFit(c.keys, n), NEW label \in Labels
    PROVE  /\ IdsFit(Append(c.keys, NewKey(n, label)), n + 1)
           /\ NoneRegress(c.keys, Append(c.keys, NewKey(n, label)))
<1> DEFINE k == NewKey(n, label)
           ks == Append(c.keys, k)
           N == Len(c.keys)
<1>1. /\ c.keys \in Seq(Key)
      /\ \A j \in DOMAIN c.keys : c.keys[j].id \in Nat /\ c.keys[j].requests \in Nat
  BY KeysOf
<1>2. k \in Key /\ k.id = n
  BY NewKeyType DEF NewKey
<1> HIDE DEF k
<1>3. /\ N \in Nat /\ DOMAIN c.keys = 1 .. N /\ DOMAIN ks = 1 .. N + 1
      /\ \A j \in 1 .. N : ks[j] = c.keys[j]
      /\ ks[N + 1] = k
  <2>1. N \in Nat /\ DOMAIN c.keys = 1 .. N
    BY <1>1, LenProperties
  <2>2. /\ ks \in Seq(Key) /\ Len(ks) = N + 1
        /\ \A j \in 1 .. N : ks[j] = c.keys[j]
        /\ ks[N + 1] = k
    BY <1>1, <1>2, AppendProperties
  <2> HIDE DEF ks
  <2>3. DOMAIN ks = 1 .. N + 1
    BY <2>2, LenProperties
  <2> QED  BY <2>1, <2>2, <2>3
<1> HIDE DEF ks, N
<1>4. \A j \in 1 .. N : ks[j].id < n /\ ks[j].id \in Nat
  BY <1>1, <1>3 DEF IdsFit
<1>5. \A g, h \in 1 .. N : ks[g].id = ks[h].id => g = h
  BY <1>3 DEF IdsFit
<1>6. \A x \in Nat : x < n => x # n /\ x < n + 1
  OBVIOUS
<1>7. ASSUME NEW j \in 1 .. N + 1 PROVE j \in 1 .. N \/ j = N + 1
  BY <1>3
<1>8. IdsFit(ks, n + 1)
  <2>1. ASSUME NEW g \in DOMAIN ks, NEW h \in DOMAIN ks, ks[g].id = ks[h].id
        PROVE  g = h
    BY <1>2, <1>3, <1>4, <1>5, <1>6, <1>7, <2>1
  <2>2. n < n + 1
    OBVIOUS
  <2>3. ASSUME NEW g \in DOMAIN ks PROVE ks[g].id < n + 1
    BY <1>2, <1>3, <1>4, <1>6, <1>7, <2>2
  <2> QED  BY <2>1, <2>3 DEF IdsFit
<1>9. ASSUME NEW g \in DOMAIN c.keys, NEW h \in DOMAIN ks, c.keys[g].id = ks[h].id
      PROVE  c.keys[g].requests <= ks[h].requests
  <2>1. ks[g].id = ks[h].id /\ g \in 1 .. N
    BY <1>3, <1>9
  <2>2. h \in 1 .. N
    BY <1>2, <1>3, <1>4, <1>6, <1>7, <2>1
  <2>3. g = h
    BY <1>5, <2>1, <2>2
  <2>4. \A x \in Nat : x <= x
    OBVIOUS
  <2> QED  BY <1>1, <1>3, <2>2, <2>3, <2>4
<1> QED  BY <1>8, <1>9 DEF NoneRegress, ks, k

LEMMA RemoveIds ==
    ASSUME NEW c \in Config, NEW n \in Nat, IdsFit(c.keys, n), NEW i \in DOMAIN c.keys
    PROVE  /\ IdsFit(RemoveAt(c.keys, i), n)
           /\ NoneRegress(c.keys, RemoveAt(c.keys, i))
<1> DEFINE ks == RemoveAt(c.keys, i)
           old(j) == IF j < i THEN j ELSE j + 1
<1>1. /\ c.keys \in Seq(Key) /\ i \in Nat
      /\ \A j \in DOMAIN c.keys : c.keys[j].id \in Nat /\ c.keys[j].requests \in Nat
  BY KeysOf
<1>2. \A j \in DOMAIN ks : j \in Nat /\ old(j) \in DOMAIN c.keys /\ ks[j] = c.keys[old(j)]
  BY <1>1, RemoveKey
<1> HIDE DEF ks
<1>3. ASSUME NEW g \in DOMAIN ks, NEW h \in DOMAIN ks, ks[g].id = ks[h].id
      PROVE  g = h
  <2>1. old(g) = old(h) /\ g \in Nat /\ h \in Nat
    BY <1>2, <1>3 DEF IdsFit
  <2> QED  BY <1>1, <2>1
<1>4. \A g \in DOMAIN ks : ks[g].id < n
  BY <1>2 DEF IdsFit
<1>5. ASSUME NEW g \in DOMAIN c.keys, NEW h \in DOMAIN ks, c.keys[g].id = ks[h].id
      PROVE  c.keys[g].requests <= ks[h].requests
  <2>1. c.keys[g] = ks[h]
    BY <1>2, <1>5 DEF IdsFit
  <2>2. \A x \in Nat : x <= x
    OBVIOUS
  <2> QED  BY <1>1, <2>1, <2>2
<1> QED  BY <1>3, <1>4, <1>5 DEF IdsFit, NoneRegress, ks

\* A reload takes the ids from disk, and no counter behind the one in memory.
LEMMA AdoptIds ==
    ASSUME NEW disk \in Config, NEW mine \in Config, NEW n \in Nat,
           IdsFit(disk.keys, n), IdsFit(mine.keys, n)
    PROVE  /\ IdsFit(Adopt(disk, mine).keys, n)
           /\ NoneRegress(mine.keys, Adopt(disk, mine).keys)
<1> DEFINE ks == [i \in DOMAIN disk.keys |->
                    [disk.keys[i] EXCEPT !.requests = MergeCount(disk.keys[i], mine.keys)]]
<1>1. \A i \in DOMAIN disk.keys : /\ disk.keys[i] \in Key /\ disk.keys[i].id \in Nat
                                  /\ disk.keys[i].requests \in Nat
  BY KeysOf
<1>2. \A i \in DOMAIN mine.keys : mine.keys[i].requests \in Nat
  BY KeysOf
<1>3. Adopt(disk, mine).keys = ks
  BY DEF Adopt, Config
<1>4. /\ DOMAIN ks = DOMAIN disk.keys
      /\ \A i \in DOMAIN disk.keys : /\ ks[i].id = disk.keys[i].id
                                     /\ ks[i].requests = MergeCount(disk.keys[i], mine.keys)
  BY <1>1 DEF Key
<1> HIDE DEF ks
<1>5. IdsFit(ks, n)
  BY <1>4 DEF IdsFit
<1>6. ASSUME NEW g \in DOMAIN mine.keys, NEW h \in DOMAIN ks, mine.keys[g].id = ks[h].id
      PROVE  mine.keys[g].requests <= ks[h].requests
  <2> DEFINE k == disk.keys[h]
             ahead == {j \in DOMAIN mine.keys : /\ IsMine(mine.keys, j, k.id)
                                                /\ mine.keys[j].requests > k.requests}
  <2>1. k.id = mine.keys[g].id /\ k.requests \in Nat
    BY <1>1, <1>4, <1>6
  <2>2. MergeCount(k, mine.keys) = IF ahead = {} THEN k.requests
                                   ELSE mine.keys[CHOOSE j \in ahead : TRUE].requests
    BY DEF MergeCount
  <2>3. IsMine(mine.keys, g, k.id)
    <3>1. ASSUME NEW l \in DOMAIN mine.keys, l > g PROVE mine.keys[l].id # k.id
      <4>1. l # g
        BY <3>1, KeysOf
      <4> QED  BY <2>1, <4>1 DEF IdsFit
    <3> QED  BY <2>1, <3>1 DEF IsMine
  <2>4. \A j \in ahead : j \in DOMAIN mine.keys /\ mine.keys[j].id = k.id
    BY DEF IsMine
  <2>5. \A j \in ahead : j = g
    BY <2>1, <2>4 DEF IdsFit
  <2>6. mine.keys[g].requests > k.requests => g \in ahead
    BY <2>3
  <2> HIDE DEF ahead, k
  <2>7. CASE ahead = {}
    <3>1. ~(mine.keys[g].requests > k.requests)
      BY <2>6, <2>7
    <3>2. mine.keys[g].requests <= k.requests
      BY <1>2, <2>1, <3>1
    <3> QED  BY <1>4, <2>2, <2>7, <3>2 DEF k
  <2>8. CASE ahead # {}
    <3>1. (CHOOSE j \in ahead : TRUE) = g
      BY <2>5, <2>8
    <3>2. ks[h].requests = mine.keys[g].requests
      BY <1>4, <2>2, <2>8, <3>1 DEF k
    <3> QED  BY <1>2, <3>2
  <2> QED  BY <2>7, <2>8
<1> QED  BY <1>3, <1>5, <1>6 DEF NoneRegress

\* _normalize adds at most the key it draws.
LEMMA NormalizeIds ==
    ASSUME NEW c \in Config, NEW n \in Nat, IdsFit(c.keys, n)
    PROVE  /\ ~NeedsNormalizing(c) => IdsFit(Normalize(c, n).keys, n)
           /\ IdsFit(Normalize(c, n).keys, n + 1)
           /\ \A d \in Config : /\ IdsFit(d.keys, n) 
                                 /\ NoneRegress(d.keys, c.keys)
                                 => NoneRegress(d.keys, Normalize(c, n).keys)
<1> DEFINE k == NewKey(n, DefaultLabel)
<1>1. Normalize(c, n).keys = IF c.keys = << >> THEN <<k>> ELSE c.keys
  BY DEF Normalize, Config
<1>2. k.id = n
  BY DEF NewKey
<1>3. DOMAIN <<k>> = {1} /\ <<k>>[1] = k
  OBVIOUS
<1> HIDE DEF k
<1>4. CASE c.keys # << >>
  BY <1>1, <1>4, SameIds
<1>5. CASE c.keys = << >>
  <2>1. Normalize(c, n).keys = <<k>> /\ NeedsNormalizing(c)
    BY <1>1, <1>5 DEF NeedsNormalizing
  <2>2. IdsFit(<<k>>, n + 1)
    BY <1>2, <1>3 DEF IdsFit
  <2>3. ASSUME NEW d \in Config, IdsFit(d.keys, n) PROVE NoneRegress(d.keys, <<k>>)
    <3>1. \A i \in DOMAIN d.keys : d.keys[i].id \in Nat /\ d.keys[i].id < n
      BY <2>3, KeysOf DEF IdsFit
    <3>2. \A x \in Nat : x < n => x # n
      OBVIOUS
    <3> QED  BY <1>2, <1>3, <3>1, <3>2 DEF NoneRegress
  <2> QED  BY <2>1, <2>2, <2>3
<1> QED  BY <1>4, <1>5

\* What someone makes of a document has one new id at most.
LEMMA EditsIds ==
    ASSUME TypeOK, NEW c \in Config, NEW d \in EditsOf(c), IdsFit(c.keys, fresh),
           \A s \in SecretsOf(c) : s < fresh
    PROVE  /\ IdsFit(d.keys, fresh + 1)
           /\ SecretsOf(d) \subseteq SecretsOf(c) => IdsFit(d.keys, fresh)
<1>1. /\ c.keys \in Seq(Key) /\ fresh \in Nat
      /\ \A i \in DOMAIN c.keys : c.keys[i] \in Key
  BY KeysOf DEF TypeOK
<1>2. \A n \in Nat : IdsFit(<< >>, n)
  BY BlankIds DEF Blank
<1>3. CASE d \in {c, [c EXCEPT !.token = NoToken], [c EXCEPT !.url = NoUrl]}
  <2>1. d.keys = c.keys
    BY <1>3 DEF Config
  <2> QED  BY <1>1, <2>1, SameIds
<1>4. CASE d = [c EXCEPT !.keys = << >>]
  <2>1. d.keys = << >>
    BY <1>4 DEF Config
  <2> QED  BY <1>1, <1>2, <2>1
<1>5. CASE \E i \in DOMAIN c.keys : d = [c EXCEPT !.keys = RemoveAt(c.keys, i)]
  <2>1. PICK i \in DOMAIN c.keys : d = [c EXCEPT !.keys = RemoveAt(c.keys, i)]
    BY <1>5
  <2>2. d.keys = RemoveAt(c.keys, i)
    BY <2>1 DEF Config
  <2>3. IdsFit(d.keys, fresh)
    BY <1>1, <2>2, RemoveIds
  <2>4. d \in Config
    BY EditsType
  <2>5. IdsFit(d.keys, fresh + 1)
    BY <1>1, <2>3, <2>4, SameIds
  <2> QED  BY <2>3, <2>5
<1>6. CASE \E i \in DOMAIN c.keys : d = [c EXCEPT !.keys[i].secret = fresh]
  <2>1. PICK i \in DOMAIN c.keys : d = [c EXCEPT !.keys[i].secret = fresh]
    BY <1>6
  <2> DEFINE k == [c.keys[i] EXCEPT !.secret = fresh]
  <2>2. /\ k \in Key /\ k.id = c.keys[i].id /\ k.requests = c.keys[i].requests
        /\ c.keys[i].requests \in Nat
    BY <1>1 DEF Key
  <2>3. d.keys = [c.keys EXCEPT ![i] = k]
    BY <2>1 DEF Config
  <2> HIDE DEF k
  <2>4. c.keys[i].requests <= k.requests
    BY <2>2
  <2>5. IdsFit(d.keys, fresh) /\ IdsFit(d.keys, fresh + 1)
    BY <1>1, <2>2, <2>3, <2>4, ExceptIds
  <2> QED  BY <2>5
<1>7. CASE d = [c EXCEPT !.keys = Append(c.keys, NewKey(fresh, DefaultLabel))]
  <2> DEFINE k == NewKey(fresh, DefaultLabel)
  <2>1. d.keys = Append(c.keys, k)
    BY <1>7 DEF Config
  <2>2. IdsFit(d.keys, fresh + 1)
    BY <1>1, <2>1, AppendIds, LabelAssumption
  <2>3. ~(SecretsOf(d) \subseteq SecretsOf(c))
    <3>1. k \in Key /\ k.secret = fresh
      BY <1>1, NewKeyType, LabelAssumption
    <3> HIDE DEF k
    <3>2. Len(c.keys) + 1 \in DOMAIN d.keys /\ d.keys[Len(c.keys) + 1] = k
      BY <1>1, <2>1, <3>1, AppendProperties, LenProperties
    <3>3. fresh \in SecretsOf(d)
      BY <3>1, <3>2 DEF SecretsOf
    <3>4. ~(fresh < fresh)
      BY <1>1
    <3> QED  BY <3>3, <3>4
  <2> QED  BY <2>2, <2>3
<1> QED  BY <1>3, <1>4, <1>5, <1>6, <1>7 DEF EditsOf

\* What a step of the gateway has to do with its own document for the other two to stay.
LEMMA OwnDocument ==
    ASSUME TypeOK, IdsInv, UNCHANGED <<file, editor>>, fresh' \in {fresh, fresh + 1},
           IdsFit(mem'.keys, fresh'), pc' = "down" => mem' = Blank
    PROVE  IdsInv'
<1>1. file.cfg \in Config /\ editor.cfg \in Config /\ fresh \in Nat
  BY DEF TypeOK, File
<1>2. fresh' \in Nat /\ fresh <= fresh'
  BY <1>1
<1>3. IdsFit(file.cfg.keys, fresh') /\ IdsFit(editor.cfg.keys, fresh')
  BY <1>1, <1>2, SameIds DEF IdsInv
<1> QED  BY <1>3 DEF IdsInv

\* The admin handlers that reach save().
LEMMA AdminIds ==
    ASSUME TypeOK, AckInv, IdsInv,
           \/ \E url \in Urls \union {NoUrl} : ApiConfig(url)
           \/ \E label \in Labels : ApiKeys(label) \/ LabelEnd(label)
           \/ \E i \in DOMAIN mem.keys : Revoke(i) \/ Rotate(i)
    PROVE  IdsInv' /\ NoneRegress(mem.keys, mem'.keys)
<1>1. /\ mem \in Config /\ fresh \in Nat /\ IdsFit(mem.keys, fresh)
      /\ fresh <= fresh + 1 /\ fresh <= fresh
  BY DEF TypeOK, IdsInv
<1>2. ASSUME NEW doc, AdminSave(doc), fresh' \in {fresh, fresh + 1}, IdsFit(doc.keys, fresh'),
             NoneRegress(mem.keys, doc.keys)
      PROVE  IdsInv' /\ NoneRegress(mem.keys, mem'.keys)
  <2>1. mem' = doc /\ pc' # "down" /\ UNCHANGED <<file, editor>>
    BY <1>2 DEF AdminSave, StartSave, editVars
  <2> QED  BY <1>2, <2>1, OwnDocument
<1>3. ASSUME NEW url \in Urls \union {NoUrl}, ApiConfig(url)
      PROVE  IdsInv' /\ NoneRegress(mem.keys, mem'.keys)
  <2> DEFINE doc == [mem EXCEPT !.url = url]
  <2>1. AdminSave(doc) /\ fresh' = fresh
    BY <1>3 DEF ApiConfig
  <2>2. doc.keys = mem.keys
    BY <1>1 DEF Config
  <2>3. IdsFit(doc.keys, fresh) /\ NoneRegress(mem.keys, doc.keys)
    BY <1>1, <2>2, SameIds
  <2> HIDE DEF doc
  <2> QED  BY <1>2, <2>1, <2>3
<1>4. ASSUME NEW label \in Labels, ApiKeys(label)
      PROVE  IdsInv' /\ NoneRegress(mem.keys, mem'.keys)
  <2> DEFINE doc == [mem EXCEPT !.keys = Append(@, NewKey(fresh, label))]
  <2>1. AdminSave(doc) /\ fresh' = fresh + 1
    BY <1>4 DEF ApiKeys
  <2>2. doc.keys = Append(mem.keys, NewKey(fresh, label))
    BY <1>1 DEF Config
  <2>3. IdsFit(doc.keys, fresh + 1) /\ NoneRegress(mem.keys, doc.keys)
    BY <1>1, <2>2, AppendIds
  <2> HIDE DEF doc
  <2> QED  BY <1>2, <2>1, <2>3
<1>5. ASSUME NEW i \in DOMAIN mem.keys, Revoke(i)
      PROVE  IdsInv' /\ NoneRegress(mem.keys, mem'.keys)
  <2> DEFINE doc == [mem EXCEPT !.keys = RemoveAt(@, i)]
  <2>1. AdminSave(doc) /\ fresh' = fresh
    BY <1>5 DEF Revoke
  <2>2. doc.keys = RemoveAt(mem.keys, i)
    BY <1>1 DEF Config
  <2>3. IdsFit(doc.keys, fresh) /\ NoneRegress(mem.keys, doc.keys)
    BY <1>1, <2>2, RemoveIds
  <2> HIDE DEF doc
  <2> QED  BY <1>2, <2>1, <2>3
\* A rotated key starts again from nothing, under a secret that no key has had.
<1>6. ASSUME NEW i \in DOMAIN mem.keys, Rotate(i)
      PROVE  IdsInv' /\ NoneRegress(mem.keys, mem'.keys)
  <2> DEFINE k == [mem.keys[i] EXCEPT !.secret = fresh, !.requests = 0]
             doc == [mem EXCEPT !.keys[i] = k]
  <2>1. AdminSave(doc) /\ fresh' = fresh + 1
    BY <1>6 DEF Rotate
  <2>2. doc.keys = [mem.keys EXCEPT ![i] = k]
    BY <1>1 DEF Config
  <2>3. k \in Key /\ k.id = mem.keys[i].id /\ k.secret = fresh
    BY <1>1, KeysOf DEF Key
  <2>4. k.secret # mem.keys[i].secret
    <3>1. mem.keys[i].secret < fresh /\ mem.keys[i].secret \in Nat
      BY <1>1, KeysOf DEF AckInv
    <3>2. \A x \in Nat : x < fresh => x # fresh
      BY <1>1
    <3> QED  BY <2>3, <3>1, <3>2
  <2> HIDE DEF k
  <2>5. IdsFit(doc.keys, fresh + 1) /\ NoneRegress(mem.keys, doc.keys)
    BY <1>1, <2>2, <2>3, <2>4, ExceptIds
  <2> HIDE DEF doc
  <2> QED  BY <1>2, <2>1, <2>5
<1>7. ASSUME NEW label \in Labels, LabelEnd(label)
      PROVE  IdsInv' /\ NoneRegress(mem.keys, mem'.keys)
  <2>1. fresh' = fresh /\ pc = "serving"
    BY <1>7 DEF LabelEnd
  <2>2. CASE /\ labelling.idx \in DOMAIN mem.keys
             /\ AdminSave([mem EXCEPT !.keys[labelling.idx].label = label])
    <3> DEFINE i == labelling.idx
               k == [mem.keys[i] EXCEPT !.label = label]
               doc == [mem EXCEPT !.keys[i] = k]
    <3>1. AdminSave(doc) /\ i \in DOMAIN mem.keys
      BY <2>2
    <3>2. doc.keys = [mem.keys EXCEPT ![i] = k]
      BY <1>1 DEF Config
    <3>3. /\ k \in Key /\ k.id = mem.keys[i].id /\ k.requests = mem.keys[i].requests
          /\ mem.keys[i].requests \in Nat
      BY <1>1, <2>2, KeysOf DEF Key
    <3> HIDE DEF k, i
    <3>4. mem.keys[i].requests <= k.requests
      BY <3>3
    <3>5. IdsFit(doc.keys, fresh) /\ NoneRegress(mem.keys, doc.keys)
      BY <1>1, <3>1, <3>2, <3>3, <3>4, ExceptIds
    <3> HIDE DEF doc
    <3> QED  BY <1>2, <2>1, <3>1, <3>5
  <2>3. CASE AdminSave(mem)
    BY <1>1, <1>2, <2>1, <2>3, SameIds
  <2>4. CASE UNCHANGED <<file, mem, pc, editVars>>
    <3>1. pc' # "down" /\ UNCHANGED <<file, editor, mem>>
      BY <2>1, <2>4 DEF editVars
    <3> QED  BY <1>1, <2>1, <3>1, SameIds, OwnDocument
  <2> QED  BY <1>7, <2>2, <2>3, <2>4 DEF LabelEnd
<1> QED  BY <1>3, <1>4, <1>5, <1>6, <1>7

LEMMA IdsStep ==
    ASSUME TypeOK, TypeOK', AckInv, IdsInv, [Next]_vars
    PROVE  IdsInv' /\ NoneRegress(mem.keys, mem'.keys)
<1> USE DEF callVars, ackVars, editVars, serverVars
<1>1. /\ mem \in Config /\ fresh \in Nat /\ IdsFit(mem.keys, fresh) /\ fresh <= fresh
      /\ fresh <= fresh + 1 /\ file.cfg \in Config /\ IdsFit(file.cfg.keys, fresh)
  BY DEF TypeOK, IdsInv, File
<1>2. ASSUME UNCHANGED <<file, editor, fresh>>, mem'.keys = mem.keys, pc' # "down"
      PROVE  IdsInv' /\ NoneRegress(mem.keys, mem'.keys)
  BY <1>1, <1>2, SameIds, OwnDocument
<1>3. ASSUME UNCHANGED <<file, editor, fresh>>, mem' = Blank
      PROVE  IdsInv' /\ NoneRegress(mem.keys, mem'.keys)
  <2>1. IdsFit(mem'.keys, fresh)
    BY <1>1, <1>3, BlankIds
  <2>2. NoneRegress(mem.keys, mem'.keys)
    BY <1>3, EmptySeq DEF Blank, NoneRegress
  <2> QED  BY <1>3, <2>1, <2>2, OwnDocument
<1>4. ASSUME UNCHANGED vars PROVE IdsInv' /\ NoneRegress(mem.keys, mem'.keys)
  BY <1>1, <1>4, SameIds DEF vars, IdsInv
<1>5. CASE Replace
  <2>1. file'.cfg = mem /\ pc' # "down" /\ UNCHANGED <<mem, editor, fresh>>
    BY <1>5 DEF Replace, Json
  <2> QED  BY <1>1, <2>1, SameIds DEF IdsInv
<1>6. CASE InitReturns
  <2>1. mem'.keys = mem.keys /\ pc' # "down"
    BY <1>6 DEF InitReturns, StartSave, TypeOK, Config
  <2> QED  BY <1>2, <1>6, <2>1 DEF InitReturns, SaveReturns
<1>7. CASE MainReturns \/ AdminReturns \/ WatcherReturns("reload") \/ WatcherReturns("flush")
  BY <1>2, <1>7 DEF MainReturns, AdminReturns, WatcherReturns, SaveReturns
<1>8. CASE StopReturns \/ Crash
  BY <1>3, <1>8 DEF StopReturns, Crash, GoDown
<1>9. CASE SaveFails
  <2>1. CASE GoDown
    BY <1>3, <1>9, <2>1 DEF SaveFails, GoDown
  <2>2. CASE ~GoDown
    BY <1>2, <1>9, <2>2 DEF SaveFails, FlushOrSleep, StartSave
  <2> QED  BY <2>1, <2>2
<1>10. CASE Stop
  <2>1. CASE GoDown
    BY <1>3, <1>10, <2>1 DEF Stop, GoDown
  <2>2. CASE ~GoDown
    BY <1>2, <1>10, <2>2 DEF Stop, StartSave
  <2> QED  BY <2>1, <2>2
\* There is no key in memory before a start, so none that could lose a request.
<1>11. CASE Boot
  <2> DEFINE disk == IF file.shape = "json" THEN file.cfg ELSE Blank
  <2>1. disk \in Config /\ IdsFit(disk.keys, fresh)
    BY <1>1, BlankType, BlankIds
  <2>2. /\ mem' = Normalize(disk, fresh) /\ pc' # "down" /\ mem = Blank
        /\ fresh' = IF NeedsNormalizing(disk) THEN fresh + 1 ELSE fresh
        /\ UNCHANGED <<file, editor>>
    BY <1>11 DEF Boot, StartSave, IdsInv
  <2> HIDE DEF disk
  <2>3. IdsFit(mem'.keys, fresh')
    BY <1>1, <2>1, <2>2, NormalizeIds
  <2>4. NoneRegress(mem.keys, mem'.keys)
    BY <2>2, EmptySeq DEF Blank, NoneRegress
  <2>5. fresh' \in {fresh, fresh + 1}
    BY <2>2
  <2> QED  BY <2>2, <2>3, <2>4, <2>5, OwnDocument
<1>12. ASSUME NEW i \in DOMAIN mem.keys, Proxy(i)
       PROVE  IdsInv' /\ NoneRegress(mem.keys, mem'.keys)
  <2> DEFINE k == [mem.keys[i] EXCEPT !.requests = @ + 1]
  <2>1. mem.keys[i] \in Key /\ mem.keys[i].requests \in Nat
    BY <1>1, KeysOf
  <2>2. mem.keys[i].requests + 1 \in Nat /\ mem.keys[i].requests <= mem.keys[i].requests + 1
    BY <2>1
  <2>3. k \in Key /\ k.id = mem.keys[i].id /\ mem.keys[i].requests <= k.requests
    BY <2>1, <2>2 DEF Key
  <2>4. mem'.keys = [mem.keys EXCEPT ![i] = k]
    BY <1>1, <1>12 DEF Proxy, Config
  <2> HIDE DEF k
  <2>5. IdsFit(mem'.keys, fresh) /\ NoneRegress(mem.keys, mem'.keys)
    BY <1>1, <2>3, <2>4, ExceptIds
  <2>6. pc' # "down" /\ UNCHANGED <<file, editor, fresh>>
    BY <1>12 DEF Proxy
  <2> QED  BY <2>5, <2>6, OwnDocument
<1>13. ASSUME NEW i \in DOMAIN mem.keys, LabelBegin(i)
       PROVE  IdsInv' /\ NoneRegress(mem.keys, mem'.keys)
  BY <1>2, <1>13 DEF LabelBegin, AdminAdmitted
<1>14. CASE Handler
  BY <1>12, <1>13, <1>14, AdminIds DEF Handler
<1>15. CASE WatcherTick
  <2>1. PICK t \in 0 .. FlushEvery - 1 :
          TickNothingNew(t) \/ TickUnparseable(t) \/ TickMalformed(t) \/ TickReload(t)
    BY <1>15 DEF WatcherTick
  <2>2. pc = "serving" /\ UNCHANGED <<file, editor>>
    BY <2>1 DEF TickNothingNew, TickUnparseable, TickMalformed, TickReload, Tick
  <2>3. CASE TickNothingNew(t) \/ TickUnparseable(t)
    BY <1>2, <2>2, <2>3 DEF TickNothingNew, TickUnparseable, FlushOrSleep, StartSave
  <2>4. CASE TickMalformed(t)
    BY <1>3, <2>2, <2>4 DEF TickMalformed
  <2>5. CASE TickReload(t)
    <3> DEFINE doc == Adopt(file.cfg, mem)
    <3>1. /\ doc \in Config /\ IdsFit(doc.keys, fresh)
          /\ NoneRegress(mem.keys, doc.keys)
      BY <1>1, AdoptType, AdoptIds
    <3>2. /\ mem' = Normalize(doc, fresh) /\ pc' # "down"
          /\ fresh' = IF NeedsNormalizing(doc) THEN fresh + 1 ELSE fresh
      BY <2>5 DEF TickReload, StartSave
    <3> HIDE DEF doc
    <3>3. IdsFit(mem'.keys, fresh') /\ NoneRegress(mem.keys, mem'.keys)
      BY <1>1, <3>1, <3>2, NormalizeIds
    <3>4. fresh' \in {fresh, fresh + 1}
      BY <3>2
    <3> QED  BY <2>2, <3>2, <3>3, <3>4, OwnDocument
  <2> QED  BY <2>1, <2>3, <2>4, <2>5
\* Someone else's document replaces the file, and nothing else.
<1>16. ASSUME NEW f, Overwrite(f), fresh' \in {fresh, fresh + 1}, IdsFit(f.cfg.keys, fresh')
       PROVE  IdsInv' /\ NoneRegress(mem.keys, mem'.keys)
  <2>1. file' = f /\ UNCHANGED <<mem, pc, editor>>
    BY <1>16 DEF Overwrite
  <2>2. editor.cfg \in Config /\ IdsFit(editor.cfg.keys, fresh)
        /\ fresh' \in Nat /\ fresh <= fresh'
    BY <1>1, <1>16 DEF TypeOK, IdsInv
  <2>3. /\ IdsFit(mem.keys, fresh') /\ IdsFit(editor.cfg.keys, fresh')
        /\ NoneRegress(mem.keys, mem.keys)
    BY <1>1, <2>2, SameIds
  <2> QED  BY <1>16, <2>1, <2>3 DEF IdsInv
<1>17. CASE EditorOpen
  <2>1. editor'.cfg = file.cfg /\ UNCHANGED <<file, mem, pc, fresh>>
    BY <1>17 DEF EditorOpen
  <2> QED  BY <1>1, <2>1, SameIds DEF IdsInv
<1>18. ASSUME NEW c \in EditsOf(editor.cfg), EditorSave(c)
       PROVE  IdsInv' /\ NoneRegress(mem.keys, mem'.keys)
  <2>1. /\ editor.cfg \in Config /\ IdsFit(editor.cfg.keys, fresh)
        /\ \A s \in SecretsOf(editor.cfg) : s < fresh
    BY DEF TypeOK, IdsInv, AckInv
  <2>2. /\ Overwrite(Json(c))
        /\ fresh' = IF SecretsOf(c) \subseteq SecretsOf(editor.cfg) THEN fresh ELSE fresh + 1
    BY <1>18 DEF EditorSave
  <2>3. IdsFit(c.keys, fresh')
    BY <2>1, <2>2, EditsIds
  <2>4. Json(c).cfg = c /\ fresh' \in {fresh, fresh + 1}
    BY <2>2 DEF Json
  <2> QED  BY <1>16, <2>2, <2>3, <2>4
<1>19. ASSUME NEW shape, Overwrite(Other(shape)), fresh' = fresh
       PROVE  IdsInv' /\ NoneRegress(mem.keys, mem'.keys)
  <2>1. IdsFit(Other(shape).cfg.keys, fresh)
    BY <1>1, BlankIds DEF Other
  <2> QED  BY <1>16, <1>19, <2>1
<1>20. CASE Editor
  BY <1>17, <1>18, <1>19, <1>20 DEF Editor, EditorSlips, EditorRemoves
<1>21. CASE Save
  BY <1>5, <1>6, <1>7, <1>8, <1>21 DEF Save
<1> QED  BY <1>4, <1>8, <1>9, <1>10, <1>11, <1>14, <1>15, <1>20, <1>21 DEF Next

\* As long as a key keeps its secret, its request counter never goes down in memory,
\* whatever is rotated, revoked, reloaded from an old copy, restarted or edited by hand,
\* provided nobody gives two keys of a document one id (proxy, api_key_op,
\* reload_if_changed).
THEOREM CountersOnlyGrow == Spec => CountersNeverRegress
<1>1. Init => IdsInv
  <2> SUFFICES ASSUME Init PROVE IdsInv
    OBVIOUS
  <2>1. /\ mem = Blank /\ file.cfg = Blank /\ editor.cfg = Blank /\ fresh \in Nat
    BY DEF Init, Other
  <2> QED  BY <2>1, BlankIds DEF IdsInv
<1>2. TypeOK /\ TypeOK' /\ AckInv /\ IdsInv /\ [Next]_vars => IdsInv'
  BY IdsStep
<1>3. TypeOK /\ TypeOK' /\ AckInv /\ IdsInv /\ [Next]_vars
        => [\A i \in DOMAIN mem.keys, j \in DOMAIN mem'.keys :
              /\ mem.keys[i].id = mem'.keys[j].id
              /\ mem.keys[i].secret = mem'.keys[j].secret
              => mem.keys[i].requests <= mem'.keys[j].requests]_mem
  BY IdsStep DEF NoneRegress
<1> QED  BY <1>1, <1>2, <1>3, TypeCorrect, AckInvariant, PTL DEF Spec, CountersNeverRegress

-----------------------------------------------------------------------------
(* Someone can always get in.                                              *)

\* The invariant: from the moment _normalize has run there is a key and a token,
\* while the document is being saved too.
KeysInv ==
    /\ file.shape # "malformed"
    /\ pc # "down" => mem.keys # << >> /\ mem.token # NoToken

LEMMA KeysStep ==
    ASSUME "malformed" \notin Mishaps, TypeOK, KeysInv, [Next]_vars
    PROVE  KeysInv'
<1> USE DEF callVars, ackVars, editVars, serverVars
<1>1. ASSUME pc' = "down", file' = file PROVE KeysInv'
  BY <1>1 DEF KeysInv
<1>2. ASSUME pc # "down", mem' = mem, file'.shape # "malformed" PROVE KeysInv'
  BY <1>2 DEF KeysInv
<1>3. ASSUME pc = "down", mem' = mem, pc' = pc, file'.shape # "malformed" PROVE KeysInv'
  BY <1>3 DEF KeysInv
<1>4. CASE Save
  <2>1. CASE Replace
    BY <1>2, <2>1 DEF Replace, Json
  <2>2. CASE InitReturns
    <3>1. mem'.keys = mem.keys /\ mem'.token = mem.token
      BY <2>2 DEF InitReturns, TypeOK, Config
    <3> QED  BY <2>2, <3>1 DEF InitReturns, SaveReturns, KeysInv
  <2>3. CASE MainReturns \/ AdminReturns \/ WatcherReturns("reload") \/ WatcherReturns("flush")
    BY <1>2, <2>3 DEF MainReturns, AdminReturns, WatcherReturns, SaveReturns, KeysInv
  <2>4. CASE StopReturns
    BY <1>1, <2>4 DEF StopReturns, GoDown
  <2> QED  BY <1>4, <2>1, <2>2, <2>3, <2>4 DEF Save
<1>5. CASE SaveFails
  BY <1>1, <1>2, <1>5 DEF SaveFails, GoDown, KeysInv
<1>6. CASE Boot
  <2> DEFINE disk == IF file.shape = "json" THEN file.cfg ELSE Blank
  <2>1. disk \in Config /\ fresh \in Nat \ {0}
    BY BlankType DEF TypeOK, File
  <2>2. mem' = Normalize(disk, fresh) /\ file' = file
    BY <1>6 DEF Boot
  <2> HIDE DEF disk
  <2> QED  BY <2>1, <2>2, NormalizeType DEF KeysInv
<1>7. CASE Stop
  BY <1>1, <1>2, <1>7 DEF Stop, GoDown, KeysInv
<1>8. CASE Crash
  BY <1>1, <1>8 DEF Crash, GoDown
<1>9. ASSUME NEW i \in DOMAIN mem.keys, Proxy(i) PROVE KeysInv'
  <2> DEFINE k == [mem.keys[i] EXCEPT !.requests = @ + 1]
             ks == [mem.keys EXCEPT ![i] = k]
  <2>1. mem \in Config /\ mem.keys \in Seq(Key) /\ mem.keys[i] \in Key
    BY ElementOfSeq, LenProperties DEF TypeOK, Config
  <2>2. mem' = [mem EXCEPT !.keys = ks] /\ file' = file
    BY <1>9 DEF Proxy
  <2>3. i \in DOMAIN ks
    BY <2>1
  <2> HIDE DEF ks
  <2>4. ks # << >>
    BY <2>3, EmptySeq
  <2>5. mem'.keys = ks /\ mem'.token = mem.token
    BY <2>1, <2>2 DEF Config
  <2>6. pc # "down"
    BY <1>9 DEF Proxy
  <2> QED  BY <2>2, <2>4, <2>5, <2>6 DEF KeysInv
<1>10. ASSUME NEW doc, AdminStep(doc) PROVE KeysInv'
  <2>1. mem' = doc /\ file' = file
    BY <1>10 DEF AdminStep, AdminSave
  <2> QED  BY <1>10, <2>1 DEF AdminStep, KeysInv
<1>11. ASSUME NEW i \in DOMAIN mem.keys, LabelBegin(i) PROVE KeysInv'
  BY <1>2, <1>11 DEF LabelBegin, AdminAdmitted, KeysInv
<1>12. ASSUME NEW label \in Labels, LabelEnd(label) PROVE KeysInv'
  <2>1. file' = file /\ pc # "down"
    BY <1>12 DEF LabelEnd, AdminSave
  <2> QED  BY <1>2, <1>10, <1>12, <2>1, LabelEndStep DEF KeysInv
<1>13. CASE Handler
  BY <1>9, <1>10, <1>11, <1>12, <1>13, ApiConfigStep, ApiKeysStep, RevokeStep, RotateStep
     DEF Handler
<1>14. CASE WatcherTick
  <2>1. PICK t \in 0 .. FlushEvery - 1 :
          TickNothingNew(t) \/ TickUnparseable(t) \/ TickMalformed(t) \/ TickReload(t)
    BY <1>14 DEF WatcherTick
  <2>2. pc = "serving" /\ file' = file
    BY <2>1 DEF TickNothingNew, TickUnparseable, TickMalformed, TickReload, Tick
  <2>3. CASE TickNothingNew(t) \/ TickUnparseable(t)
    BY <1>2, <2>2, <2>3 DEF TickNothingNew, TickUnparseable, KeysInv
  <2>4. ~TickMalformed(t)
    BY DEF TickMalformed, KeysInv
  <2>5. CASE TickReload(t)
    <3> DEFINE doc == Adopt(file.cfg, mem)
    <3>1. doc \in Config /\ fresh \in Nat \ {0}
      BY AdoptType DEF TypeOK, File
    <3>2. mem' = Normalize(doc, fresh)
      BY <2>5 DEF TickReload
    <3> HIDE DEF doc
    <3> QED  BY <2>2, <3>1, <3>2, NormalizeType DEF KeysInv
  <2> QED  BY <2>1, <2>3, <2>4, <2>5
<1>15. CASE Editor
  <2>1. mem' = mem /\ pc' = pc
    BY <1>15 DEF Editor, EditorOpen, EditorSave, EditorSlips, EditorRemoves, Overwrite
  <2>2. file'.shape # "malformed"
    BY <1>15 DEF Editor, EditorOpen, EditorSave, EditorSlips, EditorRemoves, Overwrite,
                 Json, Other, KeysInv
  <2> QED  BY <1>2, <1>3, <2>1, <2>2
<1>16. CASE UNCHANGED vars
  BY <1>16 DEF vars, KeysInv
<1> QED  BY <1>4, <1>5, <1>6, <1>7, <1>8, <1>13, <1>14, <1>15, <1>16 DEF Next

\* As long as nobody leaves JSON of the wrong shape in gateway.json, a gateway that
\* serves has a key to accept and a token to let the operator in, whatever is revoked,
\* emptied, deleted, lost or reloaded (_normalize, the 409 of api_key_op).
THEOREM ServesSomeone ==
    ASSUME "malformed" \notin Mishaps
    PROVE  Spec => []NeverLockedOut
<1>1. Init => KeysInv
  BY DEF Init, KeysInv, Other
<1>2. TypeOK /\ KeysInv /\ [Next]_vars => KeysInv'
  BY KeysStep
<1>3. KeysInv => NeverLockedOut
  BY DEF KeysInv, NeverLockedOut
<1> QED  BY <1>1, <1>2, <1>3, TypeCorrect, PTL DEF Spec

-----------------------------------------------------------------------------
(* The gateway knows when it agrees with the file.                         *)

\* The invariant: between the rename and the stat of a save the file is what memory
\* holds, so the identity that save() remembers is the identity of that document.
PersistInv ==
    /\ CleanMeansPersisted
    /\ pc = "stamp" => file = Json(mem)

LEMMA PersistStep ==
    ASSUME "race" \notin Mishaps, "fault" \notin Mishaps, PersistInv, [Next]_vars
    PROVE  PersistInv'
<1> USE DEF callVars, ackVars, editVars, serverVars
<1>1. ASSUME pc' \in {"down", "replace"} PROVE PersistInv'
  BY <1>1 DEF PersistInv, CleanMeansPersisted
<1>2. ASSUME pc' = "serving", dirty' \/ ~seen' PROVE PersistInv'
  BY <1>2 DEF PersistInv, CleanMeansPersisted
<1>3. ASSUME UNCHANGED <<file, mem, pc, seen, dirty>> PROVE PersistInv'
  BY <1>3 DEF PersistInv, CleanMeansPersisted
<1>4. CASE Save
  <2>1. CASE Replace
    BY <2>1 DEF Replace, PersistInv, CleanMeansPersisted
  <2>2. CASE InitReturns /\ mem.url = NoUrl
    BY <1>1, <2>2 DEF InitReturns, StartSave
  <2>3. CASE \/ InitReturns /\ mem.url # NoUrl
             \/ MainReturns \/ AdminReturns
             \/ WatcherReturns("reload") \/ WatcherReturns("flush")
    <3>1. pc = "stamp" /\ pc' = "serving" /\ UNCHANGED <<file, mem>>
      BY <2>3 DEF InitReturns, MainReturns, AdminReturns, WatcherReturns, SaveReturns
    <3> QED  BY <3>1 DEF PersistInv, CleanMeansPersisted
  <2>4. CASE StopReturns
    BY <1>1, <2>4 DEF StopReturns, GoDown
  <2> QED  BY <1>4, <2>1, <2>2, <2>3, <2>4 DEF Save
<1>5. ~SaveFails
  BY DEF SaveFails
<1>6. CASE Boot \/ Stop \/ Crash
  BY <1>1, <1>6 DEF Boot, Stop, Crash, GoDown, StartSave
<1>7. CASE Handler
  <2>1. CASE \E i \in DOMAIN mem.keys : Proxy(i)
    BY <1>2, <2>1 DEF Proxy
  <2>2. CASE \E i \in DOMAIN mem.keys : LabelBegin(i)
    BY <1>3, <2>2 DEF LabelBegin
  <2>3. CASE \E i \in DOMAIN mem.keys : Revoke(i) \/ Rotate(i)
    BY <1>1, <2>3 DEF Revoke, Rotate, AdminSave, StartSave
  <2>4. CASE \/ \E url \in Urls \union {NoUrl} : ApiConfig(url)
             \/ \E label \in Labels : ApiKeys(label)
    BY <1>1, <2>4 DEF ApiConfig, ApiKeys, AdminSave, StartSave
  <2>5. CASE \E label \in Labels : LabelEnd(label)
    BY <1>1, <1>3, <2>5 DEF LabelEnd, AdminSave, StartSave
  <2> QED  BY <1>7, <2>1, <2>2, <2>3, <2>4, <2>5 DEF Handler
<1>8. CASE WatcherTick
  <2>1. PICK t \in 0 .. FlushEvery - 1 :
          TickNothingNew(t) \/ TickUnparseable(t) \/ TickMalformed(t) \/ TickReload(t)
    BY <1>8 DEF WatcherTick
  <2>2. pc = "serving"
    BY <2>1 DEF TickNothingNew, TickUnparseable, TickMalformed, TickReload, Tick
  <2>3. CASE TickReload(t)
    BY <1>1, <2>3 DEF TickReload, StartSave
  <2>4. CASE TickNothingNew(t)
    BY <1>1, <1>3, <2>2, <2>4 DEF TickNothingNew, Tick, FlushOrSleep, StartSave
  <2>5. CASE TickUnparseable(t) \/ TickMalformed(t)
    <3>1. ~seen /\ seen' = seen
      BY <2>5 DEF TickUnparseable, TickMalformed, Unchanged
    <3> QED  BY <1>1, <1>2, <2>5, <3>1
             DEF TickUnparseable, TickMalformed, FlushOrSleep, StartSave
  <2> QED  BY <2>1, <2>3, <2>4, <2>5
<1>9. CASE Editor
  <2>1. CASE EditorOpen
    BY <1>3, <2>1 DEF EditorOpen
  <2>2. ASSUME NEW f, Overwrite(f) PROVE PersistInv'
    BY <1>1, <1>2, <2>2 DEF Overwrite
  <2> QED  BY <1>9, <2>1, <2>2 DEF Editor, EditorSave, EditorSlips, EditorRemoves
<1>10. CASE UNCHANGED vars
  BY <1>3, <1>10 DEF vars
<1> QED  BY <1>4, <1>5, <1>6, <1>7, <1>8, <1>9, <1>10 DEF Next

\* If nobody writes the file inside a save and no write fails, then a gateway that has
\* nothing to flush and has seen the file holds exactly what a restart would load
\* (dirty of proxy and watcher, stamp of save and reload_if_changed).
THEOREM CleanIsPersisted ==
    ASSUME "race" \notin Mishaps, "fault" \notin Mishaps
    PROVE  Spec => []CleanMeansPersisted
<1>1. Init => PersistInv
  BY DEF Init, PersistInv, CleanMeansPersisted
<1>2. PersistInv /\ [Next]_vars => PersistInv'
  BY PersistStep
<1>3. PersistInv => CleanMeansPersisted
  BY DEF PersistInv
<1> QED  BY <1>1, <1>2, <1>3, PTL DEF Spec

-----------------------------------------------------------------------------
(* The gateway reads what others write.                                    *)

\* The invariant: the stat of a save looks at what the save itself wrote.
UnreadInv ==
    /\ UnreadStandsOut
    /\ pc = "stamp" => ~pending
    /\ pc = "down" => ~seen

LEMMA UnreadStep ==
    ASSUME "race" \notin Mishaps, UnreadInv, [Next]_vars
    PROVE  UnreadInv'
<1> USE DEF callVars, ackVars, editVars, serverVars
<1>1. ASSUME ~pending', pc' # "down" PROVE UnreadInv'
  BY <1>1 DEF UnreadInv, UnreadStandsOut
<1>2. ASSUME pc' = "down", ~seen', UNCHANGED <<file, pending>> PROVE UnreadInv'
  BY <1>2 DEF UnreadInv, UnreadStandsOut
<1>3. ASSUME pc # "down", pc' \in {"serving", "replace"}, UNCHANGED <<file, pending, seen>>
      PROVE  UnreadInv'
  BY <1>3 DEF UnreadInv, UnreadStandsOut
<1>4. CASE Save
  <2>1. CASE Replace
    BY <1>1, <2>1 DEF Replace
  <2>2. CASE \/ InitReturns \/ MainReturns \/ AdminReturns
             \/ WatcherReturns("reload") \/ WatcherReturns("flush")
    <3>1. pc = "stamp" /\ pc' \in {"serving", "replace"} /\ pending' = pending
      BY <2>2 DEF InitReturns, MainReturns, AdminReturns, WatcherReturns, SaveReturns, StartSave
    <3>2. ~pending' /\ pc' # "down"
      BY <3>1 DEF UnreadInv
    <3> QED  BY <1>1, <3>2
  <2>3. CASE StopReturns
    BY <1>2, <2>3 DEF StopReturns, GoDown
  <2> QED  BY <1>4, <2>1, <2>2, <2>3 DEF Save
<1>5. CASE SaveFails
  BY <1>2, <1>3, <1>5 DEF SaveFails, GoDown, FlushOrSleep, StartSave
<1>6. CASE Boot
  BY <1>1, <1>6 DEF Boot, StartSave
<1>7. CASE Stop \/ Crash
  BY <1>2, <1>3, <1>7 DEF Stop, Crash, GoDown, StartSave
<1>8. CASE Handler
  <2>1. CASE \E i \in DOMAIN mem.keys : Proxy(i) \/ LabelBegin(i)
    BY <1>3, <2>1 DEF Proxy, LabelBegin, AdminAdmitted
  <2>2. CASE \E i \in DOMAIN mem.keys : Revoke(i) \/ Rotate(i)
    BY <1>3, <2>2 DEF Revoke, Rotate, AdminAdmitted, AdminSave, StartSave
  <2>3. CASE \/ \E url \in Urls \union {NoUrl} : ApiConfig(url)
             \/ \E label \in Labels : ApiKeys(label) \/ LabelEnd(label)
    BY <1>3, <2>3 DEF ApiConfig, ApiKeys, LabelEnd, AdminSave, StartSave
  <2> QED  BY <1>8, <2>1, <2>2, <2>3 DEF Handler
<1>9. CASE WatcherTick
  <2>1. PICK t \in 0 .. FlushEvery - 1 :
          TickNothingNew(t) \/ TickUnparseable(t) \/ TickMalformed(t) \/ TickReload(t)
    BY <1>9 DEF WatcherTick
  <2>2. CASE TickReload(t)
    BY <1>1, <2>2 DEF TickReload, StartSave
  <2>3. CASE TickNothingNew(t) \/ TickUnparseable(t) \/ TickMalformed(t)
    BY <1>3, <2>3 DEF TickNothingNew, TickUnparseable, TickMalformed, Tick, FlushOrSleep, StartSave
  <2> QED  BY <2>1, <2>2, <2>3
<1>10. CASE Editor
  <2>1. CASE EditorOpen
    BY <2>1 DEF EditorOpen, UnreadInv, UnreadStandsOut
  <2>2. ASSUME NEW f, Overwrite(f) PROVE UnreadInv'
    BY <2>2 DEF Overwrite, UnreadInv, UnreadStandsOut
  <2> QED  BY <1>10, <2>1, <2>2 DEF Editor, EditorSave, EditorSlips, EditorRemoves
<1>11. CASE UNCHANGED vars
  BY <1>11 DEF vars, UnreadInv, UnreadStandsOut
<1> QED  BY <1>4, <1>5, <1>6, <1>7, <1>8, <1>9, <1>10, <1>11 DEF Next

LEMMA UnreadInvariant == ASSUME "race" \notin Mishaps PROVE Spec => []UnreadInv
<1>1. Init => UnreadInv
  BY DEF Init, UnreadInv, UnreadStandsOut
<1>2. UnreadInv /\ [Next]_vars => UnreadInv'
  BY UnreadStep
<1> QED  BY <1>1, <1>2, PTL DEF Spec

\* As long as nobody writes the file inside a save, an edit that the gateway has not read
\* never carries the gateway's stamp, whatever saves, failed writes, crashes and bad files
\* come between (the stamp of save and reload_if_changed).
THEOREM EditsStandOut ==
    ASSUME "race" \notin Mishaps
    PROVE  Spec => []UnreadStandsOut
<1>1. UnreadInv => UnreadStandsOut
  BY DEF UnreadInv
<1> QED  BY <1>1, UnreadInvariant, PTL

\* The first tick of the watcher after an edit reads it ("an external edit is picked up
\* within a second", Config), unless someone writes the file inside a save.
THEOREM NextTickReads ==
    ASSUME "race" \notin Mishaps
    PROVE  Spec => [][WatcherTick => ~pending']_vars
<1>1. UnreadInv /\ [Next]_vars => [WatcherTick => ~pending']_vars
  <2> SUFFICES ASSUME UnreadInv, WatcherTick PROVE ~pending'
    OBVIOUS
  <2>1. PICK t \in 0 .. FlushEvery - 1 :
          TickNothingNew(t) \/ TickUnparseable(t) \/ TickMalformed(t) \/ TickReload(t)
    BY DEF WatcherTick
  <2>2. CASE TickReload(t)
    BY <2>2 DEF TickReload
  <2>3. CASE TickNothingNew(t) \/ TickUnparseable(t) \/ TickMalformed(t)
    <3>1. pending' = pending
      BY <2>3 DEF TickNothingNew, TickUnparseable, TickMalformed
    <3>2. ~(file.shape = "json" /\ ~seen)
      BY <2>3 DEF TickNothingNew, TickUnparseable, TickMalformed, Unchanged
    <3> QED  BY <3>1, <3>2 DEF UnreadInv, UnreadStandsOut
  <2> QED  BY <2>1, <2>2, <2>3
<1> QED  BY <1>1, UnreadInvariant, PTL DEF Spec

-----------------------------------------------------------------------------
(* The watcher lives, and flushes.                                         *)

\* A gateway that serves has its watcher, and so does one inside a save that it serves on
\* after; the saves of a start come before the watcher is created.
WatcherLives ==
    /\ pc = "serving" => watching
    /\ pc \in {"replace", "stamp"} /\ saving \notin {"init", "main"} => watching

LEMMA WatcherStep ==
    ASSUME "fault" \notin Mishaps, WatcherLives, [Next]_vars
    PROVE  WatcherLives'
<1> USE DEF callVars, ackVars, editVars, serverVars
<1>1. ASSUME pc' = "down" PROVE WatcherLives'
  BY <1>1 DEF WatcherLives
<1>2. ASSUME watching' PROVE WatcherLives'
  BY <1>2 DEF WatcherLives
<1>3. ASSUME pc' \in {"replace", "stamp"}, saving' \in {"init", "main"} PROVE WatcherLives'
  BY <1>3 DEF WatcherLives
<1>4. ASSUME pc = "serving", watching' = watching PROVE WatcherLives'
  BY <1>2, <1>4 DEF WatcherLives
<1>5. ASSUME UNCHANGED <<pc, saving, watching>> PROVE WatcherLives'
  BY <1>5 DEF WatcherLives
<1>6. CASE Save
  <2>1. CASE Replace
    BY <2>1 DEF Replace, WatcherLives
  <2>2. CASE InitReturns
    BY <1>2, <1>3, <2>2 DEF InitReturns, StartSave
  <2>3. CASE MainReturns
    BY <1>2, <2>3 DEF MainReturns
  <2>4. CASE AdminReturns \/ WatcherReturns("reload") \/ WatcherReturns("flush")
    <3>1. pc = "stamp" /\ saving \notin {"init", "main"} /\ watching' = watching
      BY <2>4 DEF AdminReturns, WatcherReturns, SaveReturns
    <3>2. watching'
      BY <3>1 DEF WatcherLives
    <3> QED  BY <1>2, <3>2
  <2>5. CASE StopReturns
    BY <1>1, <2>5 DEF StopReturns, GoDown
  <2> QED  BY <1>6, <2>1, <2>2, <2>3, <2>4, <2>5 DEF Save
<1>7. ~SaveFails
  BY DEF SaveFails
<1>8. CASE Boot
  BY <1>3, <1>8 DEF Boot, StartSave
<1>9. CASE Stop \/ Crash
  BY <1>1, <1>4, <1>9 DEF Stop, Crash, GoDown
<1>10. CASE Handler
  <2>1. CASE \E i \in DOMAIN mem.keys : Proxy(i) \/ LabelBegin(i)
    BY <1>4, <2>1 DEF Proxy, LabelBegin, AdminAdmitted
  <2>2. CASE \E i \in DOMAIN mem.keys : Revoke(i) \/ Rotate(i)
    BY <1>4, <2>2 DEF Revoke, Rotate, AdminAdmitted, AdminSave
  <2>3. CASE \/ \E url \in Urls \union {NoUrl} : ApiConfig(url)
             \/ \E label \in Labels : ApiKeys(label) \/ LabelEnd(label)
    BY <1>4, <2>3 DEF ApiConfig, ApiKeys, LabelEnd, AdminSave
  <2> QED  BY <1>10, <2>1, <2>2, <2>3 DEF Handler
<1>11. CASE WatcherTick
  BY <1>2, <1>11 DEF WatcherTick, TickNothingNew, TickUnparseable, TickMalformed, TickReload, Tick
<1>12. CASE Editor
  BY <1>5, <1>12 DEF Editor, EditorOpen, EditorSave, EditorSlips, EditorRemoves, Overwrite
<1>13. CASE UNCHANGED vars
  BY <1>5, <1>13 DEF vars
<1> QED  BY <1>6, <1>7, <1>8, <1>9, <1>10, <1>11, <1>12, <1>13 DEF Next

\* If no write fails, the watcher is there whenever the gateway serves, and each of its
\* ticks on a gateway with counters to flush either saves or brings the tick that does one
\* nearer: no file, edit or request sends it back (watcher: "persist counters
\* periodically").
THEOREM WatcherFlushes ==
    ASSUME "fault" \notin Mishaps
    PROVE  Spec => /\ [](pc = "serving" => watching)
                   /\ [][WatcherTick /\ dirty =>
                           \/ pc' = "replace" /\ saving' \in {"reload", "flush"}
                           \/ tick' = tick + 1 /\ tick' < FlushEvery]_vars
                   /\ [][tick' # tick => WatcherTick \/ pc' = "down"]_vars
<1>1. Init => WatcherLives
  BY DEF Init, WatcherLives
<1>2. WatcherLives /\ [Next]_vars => WatcherLives'
  BY WatcherStep
<1>3. WatcherLives => (pc = "serving" => watching)
  BY DEF WatcherLives
<1>4. TypeOK /\ [Next]_vars => [WatcherTick /\ dirty =>
                           \/ pc' = "replace" /\ saving' \in {"reload", "flush"}
                           \/ tick' = tick + 1 /\ tick' < FlushEvery]_vars
  <2> SUFFICES ASSUME TypeOK, WatcherTick, dirty
               PROVE  \/ pc' = "replace" /\ saving' \in {"reload", "flush"}
                      \/ tick' = tick + 1 /\ tick' < FlushEvery
    OBVIOUS
  <2>1. PICK t \in 0 .. FlushEvery - 1 :
          TickNothingNew(t) \/ TickUnparseable(t) \/ TickMalformed(t) \/ TickReload(t)
    BY DEF WatcherTick
  <2>2. t = (tick + 1) % FlushEvery /\ tick' = t
    BY <2>1 DEF TickNothingNew, TickUnparseable, TickMalformed, TickReload, Tick
  <2>3. CASE TickReload(t) \/ t = 0
    BY <2>1, <2>3 DEF TickNothingNew, TickUnparseable, TickMalformed, TickReload,
                      FlushOrSleep, StartSave
  <2>4. CASE t # 0
    <3>1. tick \in Nat /\ tick < FlushEvery /\ FlushEvery \in Nat \ {0}
      BY FlushAssumption DEF TypeOK
    <3>2. tick + 1 < FlushEvery \/ tick + 1 = FlushEvery
      BY <3>1
    <3>3. FlushEvery % FlushEvery = 0
      BY <3>1
    <3>4. tick + 1 < FlushEvery => (tick + 1) % FlushEvery = tick + 1
      BY <3>1
    <3> QED  BY <2>2, <2>4, <3>2, <3>3, <3>4
  <2> QED  BY <2>3, <2>4
<1>5. [Next]_vars => [tick' # tick => WatcherTick \/ pc' = "down"]_vars
  <2> USE DEF callVars, ackVars, editVars, serverVars
  <2>1. Save => tick' = tick \/ pc' = "down"
    BY DEF Save, Replace, InitReturns, MainReturns, AdminReturns, WatcherReturns, StopReturns, GoDown
  <2>2. SaveFails \/ Stop \/ Crash \/ Boot => tick' = tick \/ pc' = "down"
    BY DEF SaveFails, Stop, Crash, Boot, GoDown
  <2>3. Handler => tick' = tick
    <3>1. ASSUME NEW i \in DOMAIN mem.keys, Proxy(i) \/ Revoke(i) \/ Rotate(i) \/ LabelBegin(i)
          PROVE  tick' = tick
      BY <3>1 DEF Proxy, Revoke, Rotate, LabelBegin, AdminSave
    <3>2. ASSUME NEW url, ApiConfig(url) PROVE tick' = tick
      BY <3>2 DEF ApiConfig, AdminSave
    <3>3. ASSUME NEW label, ApiKeys(label) \/ LabelEnd(label) PROVE tick' = tick
      BY <3>3 DEF ApiKeys, LabelEnd, AdminSave
    <3> QED  BY <3>1, <3>2, <3>3 DEF Handler
  <2>4. Editor => tick' = tick
    BY DEF Editor, EditorOpen, EditorSave, EditorSlips, EditorRemoves, Overwrite
  <2> QED  BY <2>1, <2>2, <2>3, <2>4 DEF Next
<1> QED  BY <1>1, <1>2, <1>3, <1>4, <1>5, TypeCorrect, PTL DEF Spec
=============================================================================

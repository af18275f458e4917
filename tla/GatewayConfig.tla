--------------------------- MODULE GatewayConfig ---------------------------
(***************************************************************************)
(* The data of scripts/gateway.py and the pure part of its Config class:   *)
(* what gateway.json holds, what _normalize fills in, and how a reload     *)
(* merges the counters in memory into the document found on disk.          *)
(*                                                                         *)
(* Key ids, secrets and admin tokens come from `secrets`: each is a fresh  *)
(* number here, and the three namespaces never meet.  Key fields that only *)
(* the dashboard shows (created, last_used) are left out.                  *)
(***************************************************************************)
EXTENDS Integers, SequencesExt

CONSTANTS
    Labels,         \* what a key may be called
    DefaultLabel,   \* the label of the key _normalize makes
    Urls,           \* the non-empty values of public_url
    DefaultUrl      \* what main() fills in when public_url is empty

ASSUME LabelAssumption == DefaultLabel \in Labels
ASSUME UrlAssumption == DefaultUrl \in Urls

NoUrl == ""
NoToken == 0        \* an empty admin_token

Key == [id: Nat, secret: Nat, label: Labels, requests: Nat]

Config == [url: Urls \union {NoUrl}, keys: Seq(Key), token: Nat]

\* The document every Config starts from, and that a reload starts over from.
Blank == [url |-> NoUrl, keys |-> << >>, token |-> NoToken]

\* Variant, for a mutation: counting from -1.
NewKey_MinusOne(n, label) == [id |-> n, secret |-> n, label |-> label, requests |-> -1]

\* new_key, with the n-th random id and secret.
NewKey(n, label) == [id |-> n, secret |-> n, label |-> label, requests |-> 0]

SecretsOf(c) == {c.keys[i].secret : i \in DOMAIN c.keys}

\* i is where a scan of keys for the id of its i-th entry stops.
IsFirstWithId(keys, i) ==
    \A j \in DOMAIN keys : j < i => keys[j].id # keys[i].id

\* i is where a scan of keys for the secret of its i-th entry stops.
IsFirstWithSecret(keys, i) ==
    \A j \in DOMAIN keys : j < i => keys[j].secret # keys[i].secret

\* `mine[id]` of a reload: a dict keeps the last of the entries with one id.
IsMine(keys, j, id) ==
    /\ keys[j].id = id
    /\ \A l \in DOMAIN keys : l > j => keys[l].id # id

\* Variant, for a mutation: the counter on disk wins.
MergeCount_DiskOnly(k, mine) == k.requests

\* The counter of the key k just read from disk: ours when it is ahead.
MergeCount(k, mine) ==
    LET ahead == {j \in DOMAIN mine : /\ IsMine(mine, j, k.id)
                                      /\ mine[j].requests > k.requests}
    IN  IF ahead = {} THEN k.requests ELSE mine[CHOOSE j \in ahead : TRUE].requests

\* The identity fields are those of the disk, the counters never fall behind ours.
Adopt(disk, mine) ==
    [disk EXCEPT !.keys =
        [i \in DOMAIN disk.keys |->
            [disk.keys[i] EXCEPT !.requests = MergeCount(disk.keys[i], mine.keys)]]]

NeedsNormalizing(c) == c.token = NoToken \/ c.keys = << >>

\* _normalize, drawing the n-th random values for whatever is missing.
Normalize(c, n) ==
    [c EXCEPT !.token = IF c.token = NoToken THEN n ELSE c.token,
              !.keys  = IF c.keys = << >> THEN <<NewKey(n, DefaultLabel)>> ELSE c.keys]
=============================================================================

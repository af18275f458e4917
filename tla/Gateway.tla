------------------------------ MODULE Gateway ------------------------------
(***************************************************************************)
(* scripts/gateway.py: the Config object, the handlers that change it, the *)
(* watcher task, startup, shutdown and crashes, with whoever else writes   *)
(* gateway.json.                                                           *)
(*                                                                         *)
(* The process is one asyncio loop, so a handler runs alone up to its      *)
(* awaits; only other processes act inside Config.save(), which is two     *)
(* steps here: "replace" (the temporary file is written and renamed over   *)
(* gateway.json) and "stamp" (the file's identity is read back).  `saving` *)
(* says which code called save() and what follows its return.              *)
(***************************************************************************)
EXTENDS GatewayConfig

CONSTANTS
    FlushEvery,     \* the watcher flushes counters every FlushEvery ticks (10)
    Mishaps,        \* what the surroundings may do beyond well-formed edits
    MaxFresh,       \* bound: random values drawn by handlers and the editor
    MaxRequests,    \* bound: counted requests per key
    MaxEdits,       \* bound: writes to gateway.json by someone else
    MaxFaults       \* bound: saves that raise OSError

Mishap == {"garbage",     \* a file that does not parse, or is caught mid-write
           "malformed",   \* JSON that dict.update refuses: a number, a string, true
           "removed",     \* the file is deleted
           "race",        \* someone writes the file while save() runs
           "fault"}       \* the temporary file cannot be written

ASSUME FlushAssumption == FlushEvery \in Nat \ {0}
ASSUME MishapAssumption == Mishaps \subseteq Mishap
ASSUME BoundAssumption == {MaxFresh, MaxRequests, MaxEdits, MaxFaults} \subseteq Nat

VARIABLES
    file,       \* gateway.json
    mem,        \* Config.data
    pc,         \* where the process is: down, serving, or inside save()
    saving,     \* the caller of save()
    seen,       \* Config.stamp is the identity of the file as it stands
    warned,     \* Config.warned is the identity of the file as it stands
    dirty,      \* app["state"]["dirty"]
    tick,       \* the watcher's tick, modulo FlushEvery
    watching,   \* the watcher task is running
    labelling,  \* the label request waiting for its body
    editor,     \* the copy of the document someone has open
    fresh,      \* the next random value
    edits, faults,                  \* spent of the bounds
    pending,    \* someone's well-formed edit is on disk and the gateway has not read it
    retired, retiring,  \* secrets taken out of service, acknowledged / in this call
    granted, granting   \* secrets issued, acknowledged / in this call

serverVars == <<mem, seen, warned, dirty, tick, watching, labelling>>
callVars == <<retiring, granting>>
ackVars == <<retired, granted>>
editVars == <<editor, edits>>
vars == <<file, pc, saving, serverVars, editVars, fresh, faults, pending, callVars, ackVars>>

File == [shape: {"json", "garbage", "malformed", "absent"}, cfg: Config]
Json(c) == [shape |-> "json", cfg |-> c]
Other(shape) == [shape |-> shape, cfg |-> Blank]

NoLabelling == [busy |-> FALSE, id |-> 0, idx |-> 1, live |-> FALSE]

TypeOK ==
    /\ file \in File
    /\ file.shape # "json" => file.cfg = Blank
    /\ mem \in Config
    /\ pc \in {"down", "serving", "replace", "stamp"}
    /\ saving \in {"init", "main", "admin", "reload", "flush", "stop"}
    /\ seen \in BOOLEAN /\ warned \in BOOLEAN /\ dirty \in BOOLEAN
    /\ watching \in BOOLEAN /\ pending \in BOOLEAN
    /\ tick \in 0 .. FlushEvery - 1
    /\ labelling \in [busy: BOOLEAN, id: Nat, idx: Nat \ {0}, live: BOOLEAN]
    /\ editor \in [open: BOOLEAN, cfg: Config]
    /\ fresh \in Nat \ {0} /\ edits \in Nat /\ faults \in Nat
    /\ retired \subseteq Nat /\ retiring \subseteq Nat
    /\ granted \subseteq Nat /\ granting \subseteq Nat

Init ==
    /\ file = Other("absent")
    /\ mem = Blank
    /\ pc = "down" /\ saving = "init"
    /\ seen = FALSE /\ warned = FALSE /\ dirty = FALSE
    /\ tick = 0 /\ watching = FALSE
    /\ labelling = NoLabelling
    /\ editor = [open |-> FALSE, cfg |-> Blank]
    /\ fresh = 1 /\ edits = 0 /\ faults = 0
    /\ pending = FALSE
    /\ retired = {} /\ retiring = {} /\ granted = {} /\ granting = {}

-----------------------------------------------------------------------------
(* Saving.                                                                 *)

StartSave(caller) == pc' = "replace" /\ saving' = caller

\* Everything that lives in the process is gone.
GoDown ==
    /\ mem' = Blank /\ pc' = "down" /\ saving' = "init"
    /\ seen' = FALSE /\ warned' = FALSE /\ dirty' = FALSE
    /\ tick' = 0 /\ watching' = FALSE /\ labelling' = NoLabelling
    /\ retiring' = {} /\ granting' = {}

\* os.replace: the document in memory becomes the file, whatever was there.
Replace ==
    /\ pc = "replace"
    /\ file' = Json(mem)
    /\ pc' = "stamp"
    /\ seen' = FALSE /\ warned' = FALSE
    /\ pending' = FALSE
    /\ UNCHANGED <<mem, saving, dirty, tick, watching, labelling,
                   editVars, fresh, faults, callVars, ackVars>>

\* The end of save(): stamp = _stat(), which is None for a file that is gone.
SaveReturns(caller) ==
    /\ pc = "stamp" /\ saving = caller
    /\ seen' = (file.shape # "absent")
    /\ UNCHANGED <<file, warned, editVars, fresh, faults, pending>>

\* Config.__init__ is done; main() saves again after filling in public_url.
InitReturns ==
    /\ SaveReturns("init")
    /\ IF mem.url = NoUrl
       THEN /\ StartSave("main")
            /\ mem' = [mem EXCEPT !.url = DefaultUrl]
            /\ UNCHANGED watching
       ELSE pc' = "serving" /\ watching' = TRUE /\ UNCHANGED <<mem, saving>>
    /\ UNCHANGED <<dirty, tick, labelling, callVars, ackVars>>

\* on_start: the watcher is created before the first request is accepted.
MainReturns ==
    /\ SaveReturns("main")
    /\ pc' = "serving" /\ watching' = TRUE
    /\ UNCHANGED <<mem, saving, dirty, tick, labelling, callVars, ackVars>>

\* The handler answers {"ok": true}: what it did to the keys is acknowledged.
AdminReturns ==
    /\ SaveReturns("admin")
    /\ pc' = "serving"
    /\ retired' = retired \union retiring /\ granted' = granted \union granting
    /\ retiring' = {} /\ granting' = {}
    /\ UNCHANGED <<mem, saving, dirty, tick, watching, labelling>>

\* The watcher's own saves clear the dirty flag.
WatcherReturns(caller) ==
    /\ SaveReturns(caller)
    /\ dirty' = FALSE
    /\ pc' = "serving"
    /\ UNCHANGED <<mem, saving, tick, watching, labelling, callVars, ackVars>>

StopReturns ==
    /\ pc = "stamp" /\ saving = "stop"
    /\ GoDown
    /\ UNCHANGED <<file, editVars, fresh, faults, pending, ackVars>>

\* Variant, for a mutation: the remainder is compared with FlushEvery itself.
FlushOrSleep_OffByOne(t) ==
    IF t = FlushEvery /\ dirty THEN StartSave("flush") ELSE pc' = "serving" /\ UNCHANGED saving

\* The second half of a tick: flush the counters on every FlushEvery-th.
FlushOrSleep(t) ==
    IF t = 0 /\ dirty THEN StartSave("flush") ELSE pc' = "serving" /\ UNCHANGED saving

\* write_text raises OSError: memory keeps what the caller did to it, the file
\* does not change, and the caller sees the exception.
SaveFails ==
    /\ pc = "replace" /\ "fault" \in Mishaps /\ faults < MaxFaults
    /\ faults' = faults + 1
    /\ \/ /\ saving \in {"init", "main", "stop"}
          /\ GoDown
       \/ /\ saving = "admin"
          /\ pc' = "serving" /\ retiring' = {} /\ granting' = {}
          /\ UNCHANGED <<serverVars, saving>>
       \/ /\ saving = "reload"          \* swallowed by the watcher
          /\ FlushOrSleep(tick)
          /\ UNCHANGED <<serverVars, callVars>>
       \/ /\ saving = "flush"           \* not swallowed: the task ends
          /\ watching' = FALSE
          /\ pc' = "serving"
          /\ UNCHANGED <<mem, saving, seen, warned, dirty, tick, labelling, callVars>>
    /\ UNCHANGED <<file, editVars, fresh, pending, ackVars>>

-----------------------------------------------------------------------------
(* The process starts and ends.                                            *)

\* Config.__init__.  A document of the wrong shape raises, and nothing starts.
Boot ==
    LET disk == IF file.shape = "json" THEN file.cfg ELSE Blank
    IN  /\ pc = "down" /\ file.shape # "malformed"
        /\ mem' = Normalize(disk, fresh)
        /\ fresh' = IF NeedsNormalizing(disk) THEN fresh + 1 ELSE fresh
        /\ StartSave("init")
        /\ pending' = FALSE
        /\ UNCHANGED <<file, seen, warned, dirty, tick, watching, labelling,
                       editVars, faults, callVars, ackVars>>

\* SIGINT or SIGTERM: on_stop cancels the watcher, which flushes on its way out
\* (a watcher that already ended re-raises its exception instead).
Stop ==
    /\ pc = "serving"
    /\ \/ /\ watching /\ dirty
          /\ StartSave("stop")
          /\ UNCHANGED <<serverVars, callVars>>
       \/ /\ ~(watching /\ dirty)
          /\ GoDown
    /\ UNCHANGED <<file, editVars, fresh, faults, pending, ackVars>>

\* Dying before the first replace of a start leaves nothing behind but random values
\* nobody saw: that is not told apart from not having started.
Crash ==
    /\ pc # "down" /\ ~(pc = "replace" /\ saving = "init")
    /\ GoDown
    /\ UNCHANGED <<file, editVars, fresh, faults, pending, ackVars>>

-----------------------------------------------------------------------------
(* Requests.                                                               *)

\* Variant, for a mutation: the request is counted and the flag is not raised.
Proxy_NotDirty(i) ==
    /\ pc = "serving"
    /\ IsFirstWithSecret(mem.keys, i)
    /\ mem.keys[i].requests < MaxRequests
    /\ mem' = [mem EXCEPT !.keys[i].requests = @ + 1]
    /\ UNCHANGED <<file, pc, saving, seen, warned, dirty, tick, watching, labelling,
                   editVars, fresh, faults, pending, callVars, ackVars>>

\* proxy: a bearer secret that matches a key is counted before the first await;
\* one that matches none is answered 401 and changes nothing.
Proxy(i) ==
    /\ pc = "serving"
    /\ IsFirstWithSecret(mem.keys, i)
    /\ mem.keys[i].requests < MaxRequests
    /\ mem' = [mem EXCEPT !.keys[i].requests = @ + 1]
    /\ dirty' = TRUE
    /\ UNCHANGED <<file, pc, saving, seen, warned, tick, watching, labelling,
                   editVars, fresh, faults, pending, callVars, ackVars>>

\* admin_guard lets a request through: admin_ok never accepts an empty token.  A
\* request whose body is awaited was let through earlier, when the gateway had one.
AdminAdmitted == pc = "serving" /\ mem.token # NoToken

\* Variant, for a mutation: save() reads the stamp without replacing the file.
AdminSave_NoReplace(doc) ==
    LET out == SecretsOf(mem) \ SecretsOf(doc)
    IN  /\ mem' = doc
        /\ pc' = "stamp" /\ saving' = "admin"
        /\ retiring' = out
        /\ granting' = SecretsOf(doc) \ SecretsOf(mem)
        /\ granted' = granted \ out
        /\ UNCHANGED <<file, seen, warned, dirty, tick, watching,
                       editVars, faults, pending, retired>>

\* An admin handler left this document in memory and calls save().
AdminSave(doc) ==
    LET out == SecretsOf(mem) \ SecretsOf(doc)
    IN  /\ mem' = doc
        /\ StartSave("admin")
        /\ retiring' = out
        /\ granting' = SecretsOf(doc) \ SecretsOf(mem)
        /\ granted' = granted \ out
        /\ UNCHANGED <<file, seen, warned, dirty, tick, watching,
                       editVars, faults, pending, retired>>

\* api_config, its body read.
ApiConfig(url) ==
    /\ pc = "serving"
    /\ AdminSave([mem EXCEPT !.url = url])
    /\ UNCHANGED <<fresh, labelling>>

\* Variant, for a mutation: the new key waits for the watcher's next flush.
ApiKeys_Deferred(label) ==
    /\ pc = "serving" /\ fresh <= MaxFresh
    /\ mem' = [mem EXCEPT !.keys = Append(@, NewKey(fresh, label))]
    /\ dirty' = TRUE
    /\ granted' = granted \union {fresh}
    /\ fresh' = fresh + 1
    /\ UNCHANGED <<file, pc, saving, seen, warned, tick, watching, labelling,
                   editVars, faults, pending, callVars, retired>>

\* api_keys, its body read.
ApiKeys(label) ==
    /\ pc = "serving" /\ fresh <= MaxFresh
    /\ AdminSave([mem EXCEPT !.keys = Append(@, NewKey(fresh, label))])
    /\ fresh' = fresh + 1
    /\ UNCHANGED labelling

\* Variant, for a mutation: the last key may be revoked.
Revoke_LastToo(i) ==
    /\ AdminAdmitted
    /\ IsFirstWithId(mem.keys, i)
    /\ AdminSave([mem EXCEPT !.keys = RemoveAt(@, i)])
    /\ UNCHANGED <<fresh, labelling>>

\* api_key_op "revoke" of the i-th key: 409 for the last one.
Revoke(i) ==
    /\ AdminAdmitted
    /\ IsFirstWithId(mem.keys, i)
    /\ Len(mem.keys) # 1
    /\ AdminSave([mem EXCEPT !.keys = RemoveAt(@, i)])
    /\ UNCHANGED <<fresh, labelling>>

\* api_key_op "rotate" of the i-th key: the id and the label stay.
Rotate(i) ==
    /\ AdminAdmitted /\ fresh <= MaxFresh
    /\ IsFirstWithId(mem.keys, i)
    /\ AdminSave([mem EXCEPT !.keys[i] = [@ EXCEPT !.secret = fresh, !.requests = 0]])
    /\ fresh' = fresh + 1
    /\ UNCHANGED labelling

\* api_key_op "label" up to `await request.json()`: the handler holds the key list
\* and the key's index in it (one such request at a time).
LabelBegin(i) ==
    /\ AdminAdmitted /\ ~labelling.busy
    /\ IsFirstWithId(mem.keys, i)
    /\ labelling' = [busy |-> TRUE, id |-> mem.keys[i].id, idx |-> i, live |-> TRUE]
    /\ UNCHANGED <<file, mem, pc, saving, seen, warned, dirty, tick, watching,
                   editVars, fresh, faults, pending, callVars, ackVars>>

\* After the await: the list held is the one in use, or (not live) one that a
\* reload replaced; then the label goes nowhere and save() writes what is there.  A body
\* that is no JSON, and an index the list no longer has, raise before the save.
LabelEnd(label) ==
    /\ pc = "serving" /\ labelling.busy
    /\ labelling' = NoLabelling
    /\ \/ /\ labelling.live /\ labelling.idx \in DOMAIN mem.keys
          /\ AdminSave([mem EXCEPT !.keys[labelling.idx].label = label])
       \/ /\ ~labelling.live
          /\ AdminSave(mem)
       \/ /\ UNCHANGED <<file, mem, pc, saving, seen, warned, dirty, tick, watching,
                         editVars, faults, pending, callVars, ackVars>>
    /\ UNCHANGED fresh

-----------------------------------------------------------------------------
(* The watcher: one tick is reload_if_changed and then the flush.          *)

\* Variant, for a mutation: an edit that keeps the number of keys is not told apart.
Unchanged_BySize ==
    file.shape = "absent" \/ seen \/ Len(file.cfg.keys) = Len(mem.keys)

Unchanged == file.shape = "absent" \/ seen

Tick(t) ==
    /\ pc = "serving" /\ watching
    /\ t = (tick + 1) % FlushEvery
    /\ tick' = t
    /\ UNCHANGED <<file, watching, editVars, faults, callVars, ackVars>>

TickNothingNew(t) ==
    /\ Tick(t) /\ Unchanged
    /\ FlushOrSleep(t)
    /\ UNCHANGED <<mem, seen, warned, dirty, labelling, fresh, pending>>

\* _read() is None: complain once and keep what is in memory.
TickUnparseable(t) ==
    /\ Tick(t) /\ ~Unchanged /\ file.shape = "garbage"
    /\ warned' = TRUE
    /\ FlushOrSleep(t)
    /\ UNCHANGED <<mem, seen, dirty, labelling, fresh, pending>>

\* self.data is blank by the time update() raises, and the watcher goes on.
TickMalformed(t) ==
    /\ Tick(t) /\ ~Unchanged /\ file.shape = "malformed"
    /\ mem' = Blank
    /\ labelling' = [labelling EXCEPT !.live = FALSE]
    /\ FlushOrSleep(t)
    /\ UNCHANGED <<seen, warned, dirty, fresh, pending>>

\* Adopt the document on disk and write the merged result back.
TickReload(t) ==
    LET doc == Adopt(file.cfg, mem)
    IN  /\ Tick(t) /\ ~Unchanged /\ file.shape = "json"
        /\ mem' = Normalize(doc, fresh)
        /\ fresh' = IF NeedsNormalizing(doc) THEN fresh + 1 ELSE fresh
        /\ labelling' = [labelling EXCEPT !.live = FALSE]
        /\ pending' = FALSE
        /\ StartSave("reload")
        /\ UNCHANGED <<seen, warned, dirty>>

WatcherTick ==
    \E t \in 0 .. FlushEvery - 1 :
        TickNothingNew(t) \/ TickUnparseable(t) \/ TickMalformed(t) \/ TickReload(t)

-----------------------------------------------------------------------------
(* Someone else's writes to gateway.json.                                  *)

\* A text editor keeps the document as it was when it was opened.
EditorOpen ==
    /\ file.shape = "json" /\ editor # [open |-> TRUE, cfg |-> file.cfg]
    /\ editor' = [open |-> TRUE, cfg |-> file.cfg]
    /\ UNCHANGED <<file, pc, saving, serverVars, edits, fresh, faults, pending,
                   callVars, ackVars>>

\* What someone may make of the document: save it as it was, take keys out, choose a
\* secret, write a key by hand, or clear a field for the gateway to fill in.
EditsOf(c) ==
    {c, [c EXCEPT !.keys = << >>], [c EXCEPT !.token = NoToken], [c EXCEPT !.url = NoUrl]}
    \union {[c EXCEPT !.keys = RemoveAt(c.keys, i)] : i \in DOMAIN c.keys}
    \union {[c EXCEPT !.keys[i].secret = fresh] : i \in DOMAIN c.keys}
    \union {[c EXCEPT !.keys = Append(c.keys, NewKey(fresh, DefaultLabel))]}

\* The file is someone else's now, and so is what it says about every secret.
Overwrite(f) ==
    /\ pc \in {"down", "serving"} \/ "race" \in Mishaps
    /\ edits < MaxEdits
    /\ edits' = edits + 1
    /\ file' = f
    /\ seen' = FALSE /\ warned' = FALSE
    /\ pending' = (f.shape = "json")
    /\ retired' = retired \ SecretsOf(f.cfg) /\ retiring' = retiring \ SecretsOf(f.cfg)
    /\ granted' = granted \intersect SecretsOf(f.cfg)
    /\ granting' = granting \intersect SecretsOf(f.cfg)
    /\ UNCHANGED <<mem, pc, saving, dirty, tick, watching, labelling, editor, faults>>

EditorSave(c) ==
    /\ editor.open /\ fresh <= MaxFresh
    /\ Overwrite(Json(c))
    /\ fresh' = IF SecretsOf(c) \subseteq SecretsOf(editor.cfg) THEN fresh ELSE fresh + 1

EditorSlips(shape) ==
    /\ shape \in Mishaps
    /\ Overwrite(Other(shape))
    /\ UNCHANGED fresh

EditorRemoves ==
    /\ "removed" \in Mishaps /\ file.shape # "absent"
    /\ Overwrite(Other("absent"))
    /\ UNCHANGED fresh

-----------------------------------------------------------------------------
Save ==
    \/ Replace \/ InitReturns \/ MainReturns \/ AdminReturns
    \/ WatcherReturns("reload") \/ WatcherReturns("flush") \/ StopReturns

Handler ==
    \/ \E i \in DOMAIN mem.keys : Proxy(i) \/ Revoke(i) \/ Rotate(i) \/ LabelBegin(i)
    \/ \E url \in Urls \union {NoUrl} : ApiConfig(url)
    \/ \E label \in Labels : ApiKeys(label) \/ LabelEnd(label)

Editor ==
    \/ EditorOpen
    \/ \E c \in EditsOf(editor.cfg) : EditorSave(c)
    \/ \E shape \in {"garbage", "malformed"} : EditorSlips(shape)
    \/ EditorRemoves

Next == Save \/ SaveFails \/ Boot \/ Stop \/ Crash \/ Handler \/ WatcherTick \/ Editor

Spec == Init /\ [][Next]_vars

\* save() is synchronous, so it returns unless the process dies; the loop serves its
\* timers, so the watcher's sleep ends however many requests come in.  Nobody is
\* obliged to start the gateway, to send a request or to edit the file.
FairSpec == Spec /\ WF_vars(Save) /\ SF_vars(WatcherTick)

-----------------------------------------------------------------------------
(* Properties.                                                             *)

\* A secret that the admin API acknowledged as revoked or rotated away is in no
\* key the gateway accepts, nor in the file a restart would load, whatever saves,
\* crashes, failed writes and reloads come after: only a later write of the file by
\* someone else, who had it in an old copy, can bring it back (revoke and rotate of
\* api_key_op, save, reload_if_changed, Config.__init__).
RetiredStaysDead == retired \intersect (SecretsOf(mem) \union SecretsOf(file.cfg)) = {}

\* A secret that the admin API acknowledged as issued is in the file, so a crash at any
\* point does not lose it, and is accepted whenever the gateway serves, until the API
\* takes it back or someone writes a file without it (api_keys and rotate, with the
\* atomic replace of save: "a crash mid-write can't lose the keys").
IssuedIsDurable ==
    /\ granted \subseteq SecretsOf(file.cfg)
    /\ pc # "down" => granted \subseteq SecretsOf(mem)

\* The invariant the two above follow from.  A secret is handed over to `retired` and
\* `granted` when save() returns, so at "stamp" the file must already say what memory
\* says of it; and no secret in use, remembered or copied is one still to be drawn.
AckInv ==
    /\ \/ retiring = {} /\ granting = {}
       \/ pc \in {"replace", "stamp"} /\ saving = "admin"
    /\ \A s \in SecretsOf(mem) \union SecretsOf(file.cfg) \union SecretsOf(editor.cfg)
             \union retired \union retiring : s < fresh
    /\ RetiredStaysDead
    /\ retiring \intersect SecretsOf(mem) = {}
    /\ pc = "stamp" => retiring \intersect SecretsOf(file.cfg) = {}
    /\ IssuedIsDurable
    /\ granting \subseteq SecretsOf(mem)
    /\ pc = "stamp" => granting \subseteq SecretsOf(file.cfg)

\* As long as a key keeps its secret, its request counter never goes down in memory:
\* not by adopting a document someone opened before the traffic (reload_if_changed).
CountersNeverRegress ==
    [][\A i \in DOMAIN mem.keys, j \in DOMAIN mem'.keys :
          /\ mem.keys[i].id = mem'.keys[j].id
          /\ mem.keys[i].secret = mem'.keys[j].secret
          => mem.keys[i].requests <= mem'.keys[j].requests]_mem

\* A gateway that serves has a key to accept and an admin token to let the operator
\* in ("an emptied key list would lock everyone out", _normalize; the 409 of revoke).
NeverLockedOut == pc = "serving" => mem.keys # << >> /\ mem.token # NoToken

\* Between saves, a gateway with nothing to flush and no unread edit agrees with the
\* file on every key, secret and counter: a crash now loses nothing (the dirty flag of
\* proxy and watcher, the stamp of save and reload_if_changed).
CleanMeansPersisted == pc = "serving" /\ ~dirty /\ seen => file = Json(mem)

\* An edit that the gateway has not read is never taken for the gateway's own write, in
\* whatever order saves, reloads, restarts and edits come: the next look at the file finds
\* a document to adopt (the stamp of save and reload_if_changed).
UnreadStandsOut == pending => file.shape = "json" /\ ~seen

\* Counted requests are flushed by the watcher sooner or later, or the process ends
\* ("persist counters periodically", watcher).
DirtyIsFlushed == dirty ~> ~dirty

\* An edit that reaches a gateway that is up does not stay on disk unread for ever: it
\* is adopted, or overwritten, or the gateway goes down (the stamp of save and of
\* reload_if_changed; the watcher outlives every reload that raises).
EditIsNoticed == (pending /\ pc # "down") ~> (~pending \/ pc = "down")

\* The gateway never writes over an edit it has not read: "The file is the source of
\* truth in both directions ... an external edit is picked up within a second" (Config).
NoEditOverwritten == [][pc = "replace" /\ pc' = "stamp" => ~pending]_vars

\* A label request changes the label of the key it names and of no other (api_key_op).
LabelReachesItsKey ==
    [][labelling.busy /\ ~labelling'.busy /\ pc' # "down" =>
          \A i \in DOMAIN mem.keys :
              mem.keys[i].id # labelling.id => mem'.keys[i].label = mem.keys[i].label]_vars

=============================================================================

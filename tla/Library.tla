------------------------------- MODULE Library -------------------------------
(***************************************************************************)
(* The merchant's library: references to uploaded assets, pools of them    *)
(* with a frozen ledger of draws (assetlib, store_asset_lib.go), and the   *)
(* video templates whose slots name them, with the versions that shops are *)
(* given (videotpl, store_video_templates.go).                             *)
(*                                                                         *)
(* One tenant.  The database has one connection, so a statement or a       *)
(* transaction is one step; between the statements of a request others     *)
(* run.  An id is used once: what was deleted does not come back.          *)
(***************************************************************************)
EXTENDS Integers, Sequences, FiniteSets, SequencesExt

CONSTANTS
    Assets,     \* ids of rows of lib_assets
    Uploads,    \* asset and version held by the upload service
    Media,
    Pools, Draws,
    Templates, Shops,
    Contents,   \* a version's slots: sets of [media, asset]
    Requests, Unbound, None,
    MaxVersion, MaxItems, MaxHash

\* What the instances assume of the constants.
LimitsAssumption == /\ {MaxVersion, MaxItems, MaxHash} \subseteq Nat
                           /\ MaxVersion > 0

VARIABLES
    desk,        \* whether this behaviour works on "pools" or on "templates"
    ready,       \* the uploads that may be referenced now
    assets,      \* [Assets -> row or None]
    pools,       \* [Pools -> "new", "open" or "gone"]
    items,       \* [Pools -> assets in the order of their membership]
    hash,        \* what the day's seed hashes to, per pool
    selections,  \* [Pools \X Draws -> the frozen row or None]
    answers,     \* draws that were answered, with their answer
    templates,   \* [Templates -> "new", "kept" or "gone"]
    versions,    \* [Templates -> its version rows, the first one first]
    assignments, \* [Shops \X Templates -> [version, first] or None]
    job          \* [Requests -> what a request has read, or None]

assetVars    == <<ready, assets>>
poolVars     == <<pools, items, hash, selections, answers>>
templateVars == <<templates, versions, assignments>>
libVars      == <<desk, assetVars, poolVars, templateVars, job>>

Goes(r, what) == job' = [job EXCEPT ![r] = what]
Ends(r)       == Goes(r, None)

-----------------------------------------------------------------------------
(* Assets *)

\* The upload service readies, quarantines and deletes as it pleases.
Upload(u) ==
    /\ ready' = IF u \in ready THEN ready \ {u} ELSE ready \cup {u}
    /\ UNCHANGED <<desk, assets, poolVars, templateVars, job>>

\* GetAsset and ValidateRef: anything but a ready asset of that version is refused,
\* a service that cannot be reached as well.
ValidateRef(u) == u \in ready

\* UNIQUE (tenant_id, asset_ref, sha256, candidate), which the store also asks for first.
registered(u, candidate, but) ==
    \E a \in Assets \ {but} : assets[a] # None /\ assets[a].upload = u /\ assets[a].candidate = candidate

\* What a request declares; its form is not modelled.
registration(u, media, candidate) == [upload |-> u, media |-> media, candidate |-> candidate]

\* The handler validates with the upload service, then the row is inserted.
handleLibAssetUpsert(r, a, u, media, candidate) ==
    /\ job[r] = None /\ assets[a] = None
    /\ ValidateRef(u)
    /\ Goes(r, [op |-> "register", asset |-> a, row |-> registration(u, media, candidate)])
    /\ UNCHANGED <<desk, assetVars, poolVars, templateVars>>

CreateLibAsset(r) ==
    /\ job[r] # None /\ job[r].op = "register"
    /\ IF assets[job[r].asset] # None \/ registered(job[r].row.upload, job[r].row.candidate, None)
       THEN UNCHANGED assets
       ELSE assets' = [assets EXCEPT ![job[r].asset] = job[r].row]
    /\ Ends(r)
    /\ UNCHANGED <<desk, ready, poolVars, templateVars>>

\* Only the mark changes, and never onto another row of that key.
SetLibAssetCandidate(a) ==
    /\ assets[a] # None /\ ~registered(assets[a].upload, ~assets[a].candidate, a)
    /\ assets' = [assets EXCEPT ![a].candidate = ~@]
    /\ UNCHANGED <<desk, ready, poolVars, templateVars, job>>

-----------------------------------------------------------------------------
(* Pools and draws *)

CreateLibPool(p) ==
    /\ pools[p] = "new"
    /\ pools' = [pools EXCEPT ![p] = "open"]
    /\ UNCHANGED <<desk, assetVars, items, hash, selections, answers, templateVars, job>>

\* The pool goes with its memberships, the ledger stays.
DeleteLibPool(p) ==
    /\ pools[p] = "open"
    /\ pools' = [pools EXCEPT ![p] = "gone"]
    /\ items' = [items EXCEPT ![p] = <<>>]
    /\ UNCHANGED <<desk, assetVars, hash, selections, answers, templateVars, job>>

AddLibPoolItem(p, a) ==
    /\ pools[p] = "open" /\ assets[a] # None
    /\ ~Contains(items[p], a) /\ Len(items[p]) < MaxItems
    /\ items' = [items EXCEPT ![p] = Append(@, a)]
    /\ UNCHANGED <<desk, assetVars, pools, hash, selections, answers, templateVars, job>>

RemoveLibPoolItem(p, a) ==
    /\ Contains(items[p], a)
    /\ items' = [items EXCEPT ![p] = Remove(@, a)]
    /\ UNCHANGED <<desk, assetVars, pools, hash, selections, answers, templateVars, job>>

\* Select: the day's seed picks a place in the ordered membership.
PickIndex(p, n) == (hash[p] % n) + 1
Select(p)       == items[p][PickIndex(p, Len(items[p]))]

\* What a draw freezes: the asset and its version, whatever becomes of the pool.
Frozen(a) == [asset |-> a, upload |-> assets[a].upload]

Answer(p, d, row) == answers' = answers \cup {[pool |-> p, draw |-> d, row |-> row]}

\* DrawLibPool reads: a draw's key (select key, day, candidate) that was drawn is
\* replayed before the pool is looked at; an empty pool is refused.
DrawLibPool(r, p, d) ==
    /\ job[r] = None /\ pools[p] = "open"
    /\ \/ /\ selections[<<p, d>>] # None
          /\ Answer(p, d, selections[<<p, d>>])
          /\ UNCHANGED job
       \/ /\ selections[<<p, d>>] = None /\ items[p] # <<>>
          /\ Goes(r, [op |-> "draw", pool |-> p, draw |-> d, row |-> Frozen(Select(p))])
          /\ UNCHANGED answers
    /\ UNCHANGED <<desk, assetVars, pools, items, hash, selections, templateVars>>

\* Mutant: whoever draws second overwrites.
drawnNever(p, d) == FALSE

\* UNIQUE (pool_id, select_key, day_utc, candidate).
drawn(p, d) == selections[<<p, d>>] # None

\* The insertion; the loser of a race is answered with a failure.
InsertSelection(r) ==
    /\ job[r] # None /\ job[r].op = "draw"
    /\ IF drawn(job[r].pool, job[r].draw) THEN UNCHANGED <<selections, answers>>
       ELSE /\ selections' = [selections EXCEPT ![<<job[r].pool, job[r].draw>>] = job[r].row]
            /\ Answer(job[r].pool, job[r].draw, job[r].row)
    /\ Ends(r)
    /\ UNCHANGED <<desk, assetVars, pools, items, hash, templateVars>>

-----------------------------------------------------------------------------
(* Templates *)

Draft(slots)        == [status |-> "draft", slots |-> slots]
latest(t)           == Len(versions[t])
published(t)        == {v \in DOMAIN versions[t] : versions[t][v].status = "published"}
latestPublished(t)  == CHOOSE v \in published(t) : \A w \in published(t) : w <= v

\* The template and its first draft in one transaction.
CreateVideoTemplate(t, slots) ==
    /\ templates[t] = "new"
    /\ templates' = [templates EXCEPT ![t] = "kept"]
    /\ versions' = [versions EXCEPT ![t] = <<Draft(slots)>>]
    /\ UNCHANGED <<desk, assetVars, poolVars, assignments, job>>

\* What a request reads and checks before its last statement: all of them look at
\* the template first.
Reads(r, t, what) ==
    /\ job[r] = None /\ templates[t] = "kept"
    /\ Goes(r, what)
    /\ UNCHANGED <<desk, assetVars, poolVars, templateVars>>

handleVideoTemplateVersionCreate(r, t, slots) ==
    /\ templates[t] = "kept" /\ latest(t) < MaxVersion
    /\ Last(versions[t]).status = "published"
    /\ Reads(r, t, [op |-> "mint", template |-> t, version |-> latest(t) + 1, slots |-> slots])

\* UNIQUE (template_id, version) and the foreign key refuse whoever comes late.
CreateVideoTemplateVersion(r) ==
    /\ job[r] # None /\ job[r].op = "mint"
    /\ LET t == job[r].template
       IN  IF templates[t] = "kept" /\ latest(t) + 1 = job[r].version
           THEN versions' = [versions EXCEPT ![t] = Append(@, Draft(job[r].slots))]
           ELSE UNCHANGED versions
    /\ Ends(r)
    /\ UNCHANGED <<desk, assetVars, poolVars, templates, assignments>>

handleVideoTemplateVersionPut(r, t, slots) ==
    /\ templates[t] = "kept"
    /\ Last(versions[t]).status = "draft"
    /\ Reads(r, t, [op |-> "put", template |-> t, version |-> latest(t), slots |-> slots])

\* The row of the job's version, while it is still a draft.
stillDraft(t, v)   == v <= latest(t) /\ versions[t][v].status = "draft"

UpdateVideoTemplateVersionContent(r) ==
    /\ job[r] # None /\ job[r].op = "put"
    /\ LET t == job[r].template
           v == job[r].version
       IN  versions' = IF stillDraft(t, v) THEN [versions EXCEPT ![t][v].slots = job[r].slots]
                       ELSE versions
    /\ Ends(r)
    /\ UNCHANGED <<desk, assetVars, poolVars, templates, assignments>>

\* validateSlotBindings: a bound slot's asset exists and is of the slot's kind.
validateSlotBindings(slots) ==
    \A s \in slots : s.asset # Unbound => assets[s.asset] # None /\ assets[s.asset].media = s.media

handleVideoTemplatePublish(r, t) ==
    /\ templates[t] = "kept"
    /\ Last(versions[t]).status = "draft" /\ validateSlotBindings(Last(versions[t]).slots)
    /\ Reads(r, t, [op |-> "publish", template |-> t, version |-> latest(t)])

\* The version that is then there goes out, with the slots it then has.
PublishVideoTemplate(r) ==
    /\ job[r] # None /\ job[r].op = "publish"
    /\ LET t == job[r].template
           v == job[r].version
       IN  versions' = IF v <= latest(t) THEN [versions EXCEPT ![t][v].status = "published"]
                       ELSE versions
    /\ Ends(r)
    /\ UNCHANGED <<desk, assetVars, poolVars, templates, assignments>>

handleVideoTemplateDelete(r, t) ==
    /\ published(t) = {}
    /\ Reads(r, t, [op |-> "delete", template |-> t])

\* One transaction: versions, assignments, template.
DeleteVideoTemplate(r) ==
    /\ job[r] # None /\ job[r].op = "delete"
    /\ LET t == job[r].template
       IN  /\ templates' = [templates EXCEPT ![t] = "gone"]
           /\ versions' = [versions EXCEPT ![t] = <<>>]
           /\ assignments' = [at \in DOMAIN assignments |-> IF at[2] = t THEN None ELSE assignments[at]]
    /\ Ends(r)
    /\ UNCHANGED <<desk, assetVars, poolVars>>

-----------------------------------------------------------------------------
(* Assignments *)

\* Mutant: any version may be assigned.
assignableAny(t) == DOMAIN versions[t]

\* Version 0 stands for the latest published one; any other must be published.
assignable(t) == published(t)

handleVideoTemplateAssign(r, shop, t, v) ==
    /\ v = 0 => published(t) # {}
    /\ v # 0 => v \in assignable(t)
    /\ Reads(r, t, [op |-> "assign", template |-> t, shop |-> shop,
                    version |-> IF v = 0 THEN latestPublished(t) ELSE v])

\* The same version again changes nothing, another re-points and keeps the trace of
\* the first; a template that is gone by now is refused by the foreign key.
AssignVideoTemplate(r) ==
    /\ job[r] # None /\ job[r].op = "assign"
    /\ LET at  == <<job[r].shop, job[r].template>>
           old == assignments[at]
       IN  assignments' = IF templates[job[r].template] # "kept" THEN assignments
                          ELSE IF old = None
                               THEN [assignments EXCEPT ![at] = [version |-> job[r].version, first |-> job[r].version]]
                               ELSE [assignments EXCEPT ![at].version = job[r].version]
    /\ Ends(r)
    /\ UNCHANGED <<desk, assetVars, poolVars, templates, versions>>

UnassignVideoTemplate(shop, t) ==
    /\ templates[t] = "kept"
    /\ assignments' = [assignments EXCEPT ![<<shop, t>>] = None]
    /\ UNCHANGED <<desk, assetVars, poolVars, templates, versions, job>>

-----------------------------------------------------------------------------

LibraryInit ==
    /\ desk \in {"pools", "templates"}
    /\ ready = {} /\ assets = [a \in Assets |-> None]
    /\ pools = [p \in Pools |-> "new"] /\ items = [p \in Pools |-> <<>>]
    /\ hash \in [Pools -> 0..MaxHash]
    /\ desk = "templates" => hash = [p \in Pools |-> 0]
    /\ selections = [pd \in Pools \X Draws |-> None] /\ answers = {}
    /\ templates = [t \in Templates |-> "new"] /\ versions = [t \in Templates |-> <<>>]
    /\ assignments = [st \in Shops \X Templates |-> None]
    /\ job = [r \in Requests |-> None]

handleLibAssetCandidate == \E a \in Assets : SetLibAssetCandidate(a)

AssetStep ==
    \/ \E u \in Uploads : Upload(u)
    \/ handleLibAssetCandidate
    \/ \E r \in Requests :
           \/ CreateLibAsset(r)
           \/ \E a \in Assets, u \in Uploads, media \in Media, candidate \in BOOLEAN :
                  handleLibAssetUpsert(r, a, u, media, candidate)

handleLibPoolCreate      == \E p \in Pools : CreateLibPool(p)
handleLibPoolDelete      == \E p \in Pools : DeleteLibPool(p)
handleLibPoolItemAdd     == \E p \in Pools, a \in Assets : AddLibPoolItem(p, a)
handleLibPoolItemRemove  == \E p \in Pools, a \in Assets : RemoveLibPoolItem(p, a)
handleLibPoolDraw        == \E r \in Requests : \/ InsertSelection(r)
                                                 \/ \E p \in Pools, d \in Draws : DrawLibPool(r, p, d)

PoolStep ==
    /\ desk = "pools"
    /\ \/ handleLibPoolCreate \/ handleLibPoolDelete
       \/ handleLibPoolItemAdd \/ handleLibPoolItemRemove
       \/ handleLibPoolDraw

handleVideoTemplateCreate   == \E t \in Templates, slots \in Contents : CreateVideoTemplate(t, slots)
handleVideoTemplateUnassign == \E t \in Templates, shop \in Shops : UnassignVideoTemplate(shop, t)

TemplateStep ==
    /\ desk = "templates"
    /\ \/ handleVideoTemplateCreate \/ handleVideoTemplateUnassign
       \/ \E t \in Templates, slots \in Contents :
              \E r \in Requests : \/ handleVideoTemplateVersionCreate(r, t, slots)
                                     \/ handleVideoTemplateVersionPut(r, t, slots)
       \/ \E t \in Templates, shop \in Shops :
              \E r \in Requests, v \in 0..MaxVersion : handleVideoTemplateAssign(r, shop, t, v)
       \/ \E r \in Requests :
              \/ CreateVideoTemplateVersion(r) \/ UpdateVideoTemplateVersionContent(r)
              \/ PublishVideoTemplate(r) \/ DeleteVideoTemplate(r) \/ AssignVideoTemplate(r)
              \/ \E t \in Templates : handleVideoTemplatePublish(r, t) \/ handleVideoTemplateDelete(r, t)

LibraryNext == AssetStep \/ PoolStep \/ TemplateStep

LibrarySpec == LibraryInit /\ [][LibraryNext]_libVars

-----------------------------------------------------------------------------
(* Properties *)

\* A draw's key has one answer: whoever asked for it, in whatever order, while the
\* pool was changed or deleted, was given the same asset in the same version
\* (store_asset_lib.go, DrawLibPool).
OneAnswerPerDraw ==
    \A a, b \in answers : a.pool = b.pool /\ a.draw = b.draw => a.row = b.row

\* What a shop was given can be looked up, and is published, although templates are
\* deleted between the check of an assignment and its row; otherwise the shop's list
\* fails as a whole (hydrateVideoTemplateAssignment).
PinsResolve ==
    \A at \in DOMAIN assignments :
        assignments[at] # None =>
            /\ templates[at[2]] = "kept"
            /\ {assignments[at].version, assignments[at].first} \subseteq published(at[2])

\* A published version stays as it is while its template exists, also for an edit
\* that was checked before it went out (UpdateVideoTemplateVersionContent).
PublishedIsFrozen ==
    [][\A t \in Templates : \A v \in published(t) :
           v \in DOMAIN versions'[t] => versions'[t][v] = versions[t][v]]_libVars

\* What store_video_templates.go:10 says: nothing goes out whose bindings do not
\* fit.  An edit between the check and the statement goes out unchecked.
PublishedFits ==
    \A t \in Templates : \A v \in published(t) : validateSlotBindings(versions[t][v].slots)

\* What migration 0007 says: version rows are never deleted.  A template that is
\* published after its deletion was checked loses its version.
PublishedIsKept ==
    [][\A t \in Templates : published(t) \subseteq DOMAIN versions'[t]]_libVars
=============================================================================

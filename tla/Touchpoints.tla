------------------------------ MODULE Touchpoints ------------------------------
(***************************************************************************)
(* How a guest reaches a campaign: the campaign's lifecycle, its short     *)
(* codes (campaign_links), NFC tags bound to a code, stable touchpoints    *)
(* (touchpoint_aliases) bound to a campaign, and the two public lookups    *)
(* with their cached rows (store.go, store_tags.go, store_touchpoints.go,  *)
(* store_readcache.go).                                                    *)
(*                                                                         *)
(* A console request is a task of at most three steps: what it reads and   *)
(* checks, its statement or transaction, and the bump of the cache's       *)
(* epoch.  A lookup is a task of one step for each row it reads and one to *)
(* keep them.  One tenant; texts, titles, labels and audit rows are left   *)
(* out.                                                                    *)
(***************************************************************************)
EXTENDS Integers, Sequences, FiniteSets, FiniteSetsExt

CONSTANTS
    Campaigns, Shops, Tags, Groups, Aliases,
    None,
    Requests, Idle,
    Windows,     \* [from, until], each a time or None
    Desks,       \* what the console is busy with: campaigns, tags or touchpoints
    MaxLinks, MaxTags, MaxTime, MaxStage, MaxCached

\* What the instances assume of the constants.
BoundsAssumption == {MaxLinks, MaxTags, MaxTime, MaxStage, MaxCached} \subseteq Nat

VARIABLES
    desk,        \* the requests of this behaviour come from one desk
    time,
    shops,       \* shops[s]: "active" or "disabled"
    campaigns,   \* campaigns[c]: a row, or None
    links,       \* sequence of short codes, oldest first
    groups,      \* tag groups that exist
    tags,        \* tags[t]: a row, or None
    aliases,     \* aliases[a]: a row, or None
    cached,      \* what lookups keep under the current epoch: rows, and if no edit's
                 \* bump came while they were loaded
    job          \* job[r]: what request r is about to do

touchVars == <<desk, time, shops, campaigns, links, groups, tags, aliases, cached, job>>
Rows      == <<desk, shops, campaigns, links, groups, tags, aliases>>

CampaignStatuses == {"draft", "active", "paused", "ended"}
Codes  == DOMAIN links
Made(f) == {x \in DOMAIN f : f[x] # None}

-----------------------------------------------------------------------------
(* Requests *)

Begin(r, j)   == job[r] = Idle /\ job' = [job EXCEPT ![r] = j]
Doing(r, do)  == job[r] # Idle /\ job[r].do = do
Bumping       == [do |-> "bump"]
Answered(r)   == job' = [job EXCEPT ![r] = Idle]

\* Mutant: an edit that forgets its bump.
unannounced(r) == Answered(r)

Written(r)    == job' = [job EXCEPT ![r] = Bumping]

\* A statement of a request that has read nothing it could be stale about.
Statement(r)  == job[r] = Idle /\ Written(r)

\* A lookup under way goes on, and will be kept under the new epoch.
BumpEpoch(r) ==
    /\ Doing(r, "bump")
    /\ cached' = [code \in {} |-> None]
    /\ job' = [q \in Requests |-> IF q = r THEN Idle
                                  ELSE IF Doing(q, "lookup") THEN [job[q] EXCEPT !.clean = FALSE]
                                  ELSE job[q]]
    /\ UNCHANGED <<time, Rows>>

-----------------------------------------------------------------------------
(* Campaigns *)

allowedTransitions == [draft  |-> {"active", "ended"}, active |-> {"paused", "ended"},
                       paused |-> {"active", "ended"}, ended  |-> {}]

\* validateStoreBinding: a store that is closed takes no new campaign.
mayBind(s) == s # None => shops[s] = "active"

CreateCampaign(r, c, window, s) ==
    /\ Made(campaigns) = {} /\ mayBind(s)
    /\ campaigns' = [campaigns EXCEPT ![c] = [status |-> "draft", window |-> window, shop |-> s]]
    /\ Statement(r)
    /\ UNCHANGED <<desk, time, shops, links, groups, tags, aliases, cached>>

\* Reads the row; the whole row but the status is written back.
ReadForUpdate(r, c, window, s) ==
    /\ campaigns[c] # None
    /\ window = campaigns[c].window \/ s = campaigns[c].shop
    /\ s # campaigns[c].shop => mayBind(s)
    /\ Begin(r, [do |-> "update", campaign |-> c, window |-> window, shop |-> s])
    /\ UNCHANGED <<time, Rows, cached>>

UpdateCampaign(r) ==
    /\ Doing(r, "update")
    /\ campaigns' = [campaigns EXCEPT ![job[r].campaign].window = job[r].window,
                                      ![job[r].campaign].shop = job[r].shop]
    /\ Written(r)
    /\ UNCHANGED <<desk, time, shops, links, groups, tags, aliases, cached>>

\* The lifecycle is checked on the row that was read, the UPDATE is by id.
ReadForTransition(r, c, to) ==
    /\ campaigns[c] # None
    /\ to \in allowedTransitions[campaigns[c].status]
    /\ Begin(r, [do |-> "transition", campaign |-> c, to |-> to])
    /\ UNCHANGED <<time, Rows, cached>>

TransitionCampaign(r) ==
    /\ Doing(r, "transition")
    /\ campaigns' = [campaigns EXCEPT ![job[r].campaign].status = job[r].to]
    /\ Written(r)
    /\ UNCHANGED <<desk, time, shops, links, groups, tags, aliases, cached>>

\* Never cascades to the store's campaigns.
SetStoreStatus(r, s, to) ==
    /\ shops[s] # to
    /\ shops' = [shops EXCEPT ![s] = to]
    /\ Statement(r)
    /\ UNCHANGED <<desk, time, campaigns, links, groups, tags, aliases, cached>>

-----------------------------------------------------------------------------
(* Short codes *)

CreateLink(r, c) ==
    /\ campaigns[c] # None /\ Len(links) < MaxLinks
    /\ links' = Append(links, [campaign |-> c, enabled |-> TRUE])
    /\ Statement(r)
    /\ UNCHANGED <<desk, time, shops, campaigns, groups, tags, aliases, cached>>

SetLinkEnabled(r, l, enabled) ==
    /\ links[l].enabled # enabled
    /\ links' = [links EXCEPT ![l].enabled = enabled]
    /\ Statement(r)
    /\ UNCHANGED <<desk, time, shops, campaigns, groups, tags, aliases, cached>>

-----------------------------------------------------------------------------
(* NFC tags: cards of the first kind, bound to one short code *)

\* Touchpoints whose tag was deleted.
Orphans == {a \in Made(aliases) : aliases[a].tag = None}

\* A batch takes codes of one campaign in turn, all its tags or none.
CreateTagsBatch(r, bind, g) ==
    /\ DOMAIN bind # {}
    /\ Cardinality(Made(tags) \cup DOMAIN bind) + Cardinality(Orphans) <= MaxTags
    /\ \A t \in DOMAIN bind : tags[t] = None
    /\ \A t, u \in DOMAIN bind : links[bind[t]].campaign = links[bind[u]].campaign
    /\ g \in groups \cup {None}
    /\ tags' = [t \in Tags |-> IF t \in DOMAIN bind
                               THEN [link |-> bind[t], group |-> g, status |-> "active"]
                               ELSE tags[t]]
    /\ Statement(r)
    /\ UNCHANGED <<desk, time, shops, campaigns, links, groups, aliases, cached>>

ReadTagForStatus(r, t, to) ==
    /\ tags[t] # None
    /\ Begin(r, [do |-> "tag status", tag |-> t, link |-> tags[t].link, to |-> to])
    /\ UNCHANGED <<time, Rows, cached>>

\* The tag and the code it was bound to when it was read, in one transaction; a
\* tag deleted meanwhile leaves only the code to be switched.
SetTagStatus(r) ==
    /\ Doing(r, "tag status")
    /\ LET j == job[r] IN
       /\ tags' = IF tags[j.tag] = None THEN tags ELSE [tags EXCEPT ![j.tag].status = j.to]
       /\ links' = [links EXCEPT ![j.link].enabled = (j.to = "active")]
    /\ Written(r)
    /\ UNCHANGED <<desk, time, shops, campaigns, groups, aliases, cached>>

ReadTagForPatch(r, t, l, g) ==
    /\ tags[t] # None
    /\ g \in groups \cup {None, tags[t].group}
    /\ l = tags[t].link \/ g = tags[t].group
    /\ Begin(r, [do |-> "tag patch", tag |-> t, link |-> l, group |-> g])
    /\ UNCHANGED <<time, Rows, cached>>

\* Binding and group are written back together; the foreign key refuses a group
\* that is gone, and a tag that is gone updates nothing.
PatchTag(r) ==
    /\ Doing(r, "tag patch")
    /\ LET j == job[r] IN
       IF tags[j.tag] # None /\ j.group \in groups \cup {None}
       THEN /\ tags' = [tags EXCEPT ![j.tag].link = j.link, ![j.tag].group = j.group]
            /\ Written(r)
       ELSE Answered(r) /\ UNCHANGED tags
    /\ UNCHANGED <<desk, time, shops, campaigns, links, groups, aliases, cached>>

\* The short code stays; a touchpoint of the tag stays, without it.
DeleteTag(r, t) ==
    /\ tags[t] # None
    /\ tags' = [tags EXCEPT ![t] = None]
    /\ aliases' = [a \in Aliases |-> IF aliases[a] # None /\ aliases[a].tag = t
                                     THEN [aliases[a] EXCEPT !.tag = None] ELSE aliases[a]]
    /\ Statement(r)
    /\ UNCHANGED <<desk, time, shops, campaigns, links, groups, cached>>

CreateTagGroup(r, g) ==
    /\ g \notin groups /\ job[r] = Idle
    /\ groups' = groups \cup {g}
    /\ UNCHANGED <<desk, time, shops, campaigns, links, tags, aliases, cached, job>>

\* Tags of a deleted group go on without one.
DeleteTagGroup(r, g) ==
    /\ g \in groups
    /\ groups' = groups \ {g}
    /\ tags' = [t \in Tags |-> IF tags[t] # None /\ tags[t].group = g
                               THEN [tags[t] EXCEPT !.group = None] ELSE tags[t]]
    /\ Statement(r)
    /\ UNCHANGED <<desk, time, shops, campaigns, links, aliases, cached>>

-----------------------------------------------------------------------------
(* Touchpoints: cards of the second kind, a code of their own for a campaign *)

\* Mutant: the oldest code, enabled or not.
canonicalOldest(c) == LET own == {l \in Codes : links[l].campaign = c}
                      IN  IF own = {} THEN None ELSE Min(own)

\* pickCanonicalLink: the oldest enabled code of the campaign, else the oldest.
canonical(c) ==
    LET own  == {l \in Codes : links[l].campaign = c}
        live == {l \in own : links[l].enabled}
    IN  IF own = {} THEN None ELSE IF live = {} THEN Min(own) ELSE Min(live)

ReadForProvision(r, t, a) ==
    /\ tags[t] # None /\ aliases[a] = None
    /\ \A q \in Requests : Doing(q, "provision") => job[q].alias # a
    /\ Begin(r, [do |-> "provision", tag |-> t, alias |-> a,
                 campaign |-> links[tags[t].link].campaign])
    /\ UNCHANGED <<time, Rows, cached>>

\* One touchpoint per tag (the unique index); the foreign key refuses a tag that
\* is gone.
ProvisionTouchpoint(r) ==
    /\ Doing(r, "provision")
    /\ LET j == job[r] IN
       IF tags[j.tag] # None /\ \A a \in Made(aliases) : aliases[a].tag # j.tag
       THEN /\ aliases' = [aliases EXCEPT ![j.alias] =
                              [tag |-> j.tag, campaign |-> j.campaign, status |-> "active",
                               stage |-> 0]]
            /\ Written(r)
       ELSE Answered(r) /\ UNCHANGED aliases
    /\ UNCHANGED <<desk, time, shops, campaigns, links, groups, tags, cached>>

SetTouchpointStatus(r, a, to) ==
    /\ aliases[a] # None /\ aliases[a].status # to
    /\ aliases' = [aliases EXCEPT ![a].status = to]
    /\ Statement(r)
    /\ UNCHANGED <<desk, time, shops, campaigns, links, groups, tags, cached>>

lands(c) == canonical(c) # None

ReadForRebind(r, a, to, expected) ==
    /\ aliases[a] # None /\ to # expected
    /\ campaigns[to] # None /\ lands(to)
    /\ Begin(r, [do |-> "rebind", alias |-> a, to |-> to, expected |-> expected])
    /\ UNCHANGED <<time, Rows, cached>>

\* The caller has seen the campaign the touchpoint is at.
asPreviewed(j) == aliases[j.alias].campaign = j.expected

RebindTouchpoint(r) ==
    /\ Doing(r, "rebind")
    /\ IF asPreviewed(job[r])
       THEN /\ aliases' = [aliases EXCEPT ![job[r].alias].campaign = job[r].to]
            /\ Written(r)
       ELSE Answered(r) /\ UNCHANGED aliases
    /\ UNCHANGED <<desk, time, shops, campaigns, links, groups, tags, cached>>

\* One step forward of the stage that was read; the UPDATE is by id.
ReadForStage(r, a) ==
    /\ aliases[a] # None /\ aliases[a].stage < MaxStage
    /\ Begin(r, [do |-> "stage", alias |-> a, stage |-> aliases[a].stage + 1])
    /\ UNCHANGED <<time, Rows, cached>>

AdvanceTouchpointStage(r) ==
    /\ Doing(r, "stage")
    /\ aliases' = [aliases EXCEPT ![job[r].alias].stage = job[r].stage]
    /\ Written(r)
    /\ UNCHANGED <<desk, time, shops, campaigns, links, groups, tags, cached>>

-----------------------------------------------------------------------------
(* The public lookups *)

ResolveTime(window, at) ==
    CASE window.from # None /\ at < window.from   -> "not_started"
      [] window.until # None /\ at > window.until -> "expired"
      [] OTHER                                    -> "available"

storeDisabled(s) == s # None /\ shops[s] = "disabled"

verdict(outcome, notice) == [outcome |-> outcome, storeUnavailable |-> notice]

\* ResolveLink: straight from the tables.
ResolveLink(l, at) ==
    LET c       == campaigns[links[l].campaign]
        outcome == IF c.status = "active" THEN ResolveTime(c.window, at) ELSE c.status
    IN  IF ~links[l].enabled THEN verdict("link_disabled", FALSE)
        ELSE verdict(outcome, outcome = "available" /\ storeDisabled(c.shop))

\* The rows a lookup of short code l has read, of its campaign and store what is given.
linkRows(l, status, window, shop) ==
    [card |-> "active", link |-> l, enabled |-> links[l].enabled,
     campaign |-> links[l].campaign, status |-> status, window |-> window, shop |-> shop]

\* The store's row only when the outcome may need it.
needsStore(c) == c.shop # None /\ c.status = "active"

DecideLink(rows, at) ==
    LET outcome == IF rows.status = "active" THEN ResolveTime(rows.window, at) ELSE rows.status
    IN  IF ~rows.enabled THEN verdict("link_disabled", FALSE)
        ELSE verdict(outcome, outcome = "available" /\ rows.shop = "disabled")

\* The same of touchpoint a; the code it leads to may be missing, its store is not read.
switchedOn(l) == IF l = None THEN FALSE ELSE links[l].enabled

cardRows(a, status, window, l) ==
    [card |-> aliases[a].status, link |-> l, enabled |-> switchedOn(l),
     campaign |-> aliases[a].campaign, status |-> status, window |-> window, shop |-> None]

\* ResolveTouchpoint's rows: those of one moment, straight from the tables.
LoadTouchpointRows(a) ==
    LET c == campaigns[aliases[a].campaign]
    IN  cardRows(a, c.status, c.window, canonical(aliases[a].campaign))

NotFound == [outcome |-> "not_found"]

\* A lookup without a landing page is not found, before the card's own switch.
DecideTouchpoint(rows, at) ==
    IF rows.link = None THEN NotFound
    ELSE IF rows.card # "active" THEN [outcome |-> "touchpoint_disabled"]
    ELSE [outcome |-> "redirect", link |-> rows.link, state |-> DecideLink(rows, at).outcome]

\* A miss that joins no load under way; the first row is read.  MaxCached bounds what
\* is kept and loaded.
Lookup(r, key, rows) ==
    /\ key \notin DOMAIN cached
    /\ Cardinality(DOMAIN cached) + Cardinality({q \in Requests : Doing(q, "lookup")}) < MaxCached
    /\ Begin(r, [do |-> "lookup", key |-> key, next |-> "campaign", rows |-> rows, clean |-> TRUE])
    /\ UNCHANGED <<time, Rows, cached>>

handlePublicLink(r, l) == Lookup(r, <<"link", l>>, linkRows(l, None, None, None))

handlePublicTouchpoint(r, a) ==
    aliases[a] # None /\ Lookup(r, <<"touchpoint", a>>, cardRows(a, None, None, None))

Loading(r, next) == Doing(r, "lookup") /\ job[r].next = next

Loaded(r, rows, next) ==
    /\ job' = [job EXCEPT ![r] = [@ EXCEPT !.rows = rows, !.next = next]]
    /\ UNCHANGED <<time, Rows, cached>>

LoadCampaign(r) ==
    /\ Loading(r, "campaign")
    /\ LET c    == campaigns[job[r].rows.campaign]
           read == [job[r].rows EXCEPT !.status = c.status, !.window = c.window]
       IN  \/ job[r].key[1] = "touchpoint" /\ Loaded(r, read, "entry")
           \/ /\ job[r].key[1] = "link" /\ needsStore(c)
              /\ Loaded(r, [read EXCEPT !.shop = c.shop], "store")
           \/ job[r].key[1] = "link" /\ ~needsStore(c) /\ Loaded(r, read, "keep")

LoadStore(r) ==
    /\ Loading(r, "store")
    /\ Loaded(r, [job[r].rows EXCEPT !.shop = shops[@]], "keep")

LoadEntry(r) ==
    /\ Loading(r, "entry")
    /\ LET l == canonical(job[r].rows.campaign)
       IN  Loaded(r, [job[r].rows EXCEPT !.link = l, !.enabled = switchedOn(l)], "keep")

\* Set: under the epoch of now, whenever the rows were read.
Keep(r) ==
    /\ Loading(r, "keep")
    /\ LET entry == [rows |-> job[r].rows, clean |-> job[r].clean]
       IN  cached' = [k \in DOMAIN cached \cup {job[r].key} |->
                         IF k = job[r].key THEN entry ELSE cached[k]]
    /\ Answered(r)
    /\ UNCHANGED <<time, Rows>>

Pass ==
    /\ desk = "campaigns" /\ time < MaxTime
    /\ time' = time + 1
    /\ UNCHANGED <<Rows, cached, job>>

-----------------------------------------------------------------------------

\* The campaigns' desk starts with nothing and has one campaign; the others find
\* campaigns with their codes, and the touchpoints' desk its cards' tags.
Running == [status |-> "active", window |-> [from |-> None, until |-> None], shop |-> None]

TouchInit ==
    /\ desk \in Desks
    /\ time = 0
    /\ shops = [s \in Shops |-> "active"]
    /\ groups = {}
    /\ IF desk = "campaigns"
       THEN campaigns = [c \in Campaigns |-> None] /\ links = <<>>
       ELSE /\ campaigns = [c \in Campaigns |-> Running]
            /\ links \in [1..MaxLinks -> [campaign : Campaigns, enabled : {TRUE}]]
    /\ IF desk = "touchpoints"
       THEN tags \in [Tags -> [link : Codes, group : {None}, status : {"active"}]]
       ELSE tags = [t \in Tags |-> None]
    /\ aliases = [a \in Aliases |-> None]
    /\ cached = [code \in {} |-> None]
    /\ job = [r \in Requests |-> Idle]

CampaignStep(r) ==
    \/ UpdateCampaign(r) \/ TransitionCampaign(r)
    \/ \E c \in Campaigns :
           \/ CreateLink(r, c)
           \/ \E to \in CampaignStatuses : ReadForTransition(r, c, to)
           \/ \E window \in Windows, s \in Shops \cup {None} :
                  CreateCampaign(r, c, window, s) \/ ReadForUpdate(r, c, window, s)
    \/ \E s \in Shops, to \in {"active", "disabled"} : SetStoreStatus(r, s, to)

TagStep(r) ==
    \/ SetTagStatus(r) \/ PatchTag(r)
    \/ \E g \in Groups : CreateTagGroup(r, g) \/ DeleteTagGroup(r, g)
    \/ \E g \in Groups \cup {None} :
           \/ \E batch \in SUBSET Tags : \E bind \in [batch -> Codes] : CreateTagsBatch(r, bind, g)
           \/ \E l \in Codes, t \in Tags : ReadTagForPatch(r, t, l, g)
    \/ \E t \in Tags :
           DeleteTag(r, t) \/ \E to \in {"active", "disabled"} : ReadTagForStatus(r, t, to)

ProvisionStep(r) ==
    ProvisionTouchpoint(r) \/ \E a \in Aliases, t \in Tags : ReadForProvision(r, t, a)

TouchpointStep(r) ==
    \/ RebindTouchpoint(r) \/ AdvanceTouchpointStage(r)
    \/ \E a \in Aliases :
           \/ ReadForStage(r, a)
           \/ \E to \in {"active", "disabled"} : SetTouchpointStatus(r, a, to)
           \/ \E to, expected \in Campaigns : ReadForRebind(r, a, to, expected)

LookupStep(r) ==
    \/ \E l \in Codes : handlePublicLink(r, l)
    \/ \E a \in Aliases : handlePublicTouchpoint(r, a)
    \/ LoadCampaign(r) \/ LoadStore(r) \/ LoadEntry(r) \/ Keep(r)

TouchNext ==
    \/ \E r \in Requests :
           \/ BumpEpoch(r) \/ LookupStep(r)
           \/ desk = "campaigns" /\ CampaignStep(r)
           \/ desk = "tags" /\ TagStep(r)
           \/ desk = "touchpoints" /\ TouchpointStep(r)
           \/ desk # "campaigns" /\ ProvisionStep(r)
           \/ /\ desk # "tags"
              /\ \E l \in Codes, enabled \in BOOLEAN : SetLinkEnabled(r, l, enabled)
    \/ Pass

TouchSpec == TouchInit /\ [][TouchNext]_touchVars

-----------------------------------------------------------------------------
(* Properties *)

Times == 0..MaxTime

\* What was loaded from its first row to its keeping without a new epoch.
keptClean(key) == key \in DOMAIN cached /\ cached[key].clean

\* Every write is followed by a new epoch, so once no request is between its commit
\* and its bump, rows that were loaded under one epoch, although statement by
\* statement, decide at any time what the tables would decide then: windows are not
\* frozen, no edit is missed or half seen, and the two ways to a verdict are one
\* (readcache, DecideLink, DecideTouchpoint).  Rows that a bump overtook while they
\* were loaded are excepted: Set stamps them as new.
CachedRowsDecideAlike ==
    (\A r \in Requests : ~Doing(r, "bump")) =>
        \A at \in Times :
            /\ \A l \in Codes : keptClean(<<"link", l>>) =>
                   DecideLink(cached[<<"link", l>>].rows, at) = ResolveLink(l, at)
            /\ \A a \in Made(aliases) : keptClean(<<"touchpoint", a>>) =>
                   DecideTouchpoint(cached[<<"touchpoint", a>>].rows, at)
                       = DecideTouchpoint(LoadTouchpointRows(a), at)

\* A printed card never leads nowhere: whatever was rebound, deleted or switched in
\* parallel, a touchpoint has a landing code of its own campaign, and that code is a
\* stopped one only if all of the campaign's are (pickCanonicalLink, Rebind).
CardsLand ==
    \A a \in Made(aliases) :
        LET l == canonical(aliases[a].campaign)
        IN  /\ l # None /\ links[l].campaign = aliases[a].campaign
            /\ ~links[l].enabled =>
                   \A k \in Codes : links[k].campaign = aliases[a].campaign => ~links[k].enabled

\* Stopping one card stops no other: the lookups of the other cards and of every
\* short code stay as they are (SetTouchpointStatus).
StopsNoOther ==
    \A a \in Made(aliases) :
        aliases'[a].status # aliases[a].status =>
            /\ links' = links
            /\ \A b \in Made(aliases) \ {a} : LoadTouchpointRows(b)' = LoadTouchpointRows(b)

SwitchesAreSeparate == [][StopsNoOther]_touchVars

\* What campaign.go:42 draws: nothing leads out of ended.  A transition checked
\* before another request ended the campaign writes over it.
EndedIsFinal ==
    [][\A c \in Made(campaigns) :
           campaigns[c].status = "ended" => campaigns'[c].status = "ended"]_touchVars

\* What store_touchpoints.go:39 says of the stages: forward only.  An advance
\* checked before two others takes the card back.
StagesGoForward ==
    [][\A a \in Made(aliases) : aliases'[a].stage >= aliases[a].stage]_touchVars
=============================================================================

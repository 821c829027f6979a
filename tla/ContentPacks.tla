---------------------------- MODULE ContentPacks ----------------------------
(***************************************************************************)
(* Content packs (internal/contentpack, store_content_packs.go): immutable *)
(* versions of a campaign's content, the version each platform currently   *)
(* adopts, blocking, ecosystem returns and signed media links.             *)
(*                                                                         *)
(* A handler reads and decides once and then runs its statements one by    *)
(* one without a transaction, so a request is a task with the statements   *)
(* it still has to run.  One tenant and one campaign.  The texts of a      *)
(* version are left out: a specification is its media, the end of its      *)
(* grant and whether its mandatory fields are filled in; the version events, *)
(* which nothing but a listing reads, are left out.                        *)
(***************************************************************************)
EXTENDS Integers, Sequences, FiniteSets, FiniteSetsExt

CONSTANTS
    Packs, Platforms,
    Assets, Missing,     \* lib assets; what is stored for one that is gone
    Keys, NoKey,         \* idempotency keys
    None,
    Requests, Idle,
    Grants, Forever,     \* ends of grants; a grant that declares none
    DefaultTTL, MaxTTL,  \* of a signed media link
    MaxVersions, MaxTime, MaxPrint, MaxTokens

\* What the instances assume of the constants.
LimitsAssumption ==
    /\ {DefaultTTL, MaxTTL, MaxVersions, MaxTime, MaxPrint, MaxTokens} \subseteq Nat
    /\ DefaultTTL <= MaxTTL
    /\ Grants \ {Forever} \subseteq Nat

VARIABLES
    packMode,   \* how the requests of this behaviour come, and what they are about
    now,
    library,    \* library[a]: the fingerprint of asset a, or Missing
    packs,      \* packs created so far
    versions,   \* sequence of rows, the position is the id
    adoptions,  \* adoptions[platform]: id of the current version, or None
    wasCurrent, \* versions a pointer has ever named
    tokens,     \* media links handed out
    handoffs,   \* production briefs by key
    packTask

packVars == <<packMode, now, library, packs, versions, adoptions, wasCurrent, tokens,
              handoffs, packTask>>

\* Adoptions in parallel, one at a time, or one at a time with a process that may
\* die; or, apart from them to keep the instances small, links and the library.
Modes    == {"parallel", "serial", "crashing", "links"}
Adopting == packMode # "links"

Statuses == {"draft", "candidate", "adopted", "retired", "blocked"}
Versions == DOMAIN versions

\* A frozen reference: the asset and its fingerprint at the time.
Snapshot == [asset : Assets, print : 0..MaxPrint]

-----------------------------------------------------------------------------
(* What may become a version *)

\* Refused ones included; a return is told by its source.
Specs == [media : SUBSET Assets, complete : BOOLEAN, until : Grants, returned : BOOLEAN,
          key : Keys \cup {NoKey}]

\* Video needs a film and a cover (which may be the same asset), image and text at
\* least one picture; the mandatory texts are filled in.
ValidateVersionSpec(spec) == spec.complete /\ spec.media # {}

\* freezeAsset for every asset the specification names.
resolvable(spec)  == \A a \in spec.media : library[a] # Missing
resolveSpec(spec) == {[asset |-> a, print |-> library[a]] : a \in spec.media}

GrantExpired(until) == until # Forever /\ now >= until

Distributable(v) == versions[v].status # "blocked" /\ ~GrantExpired(versions[v].until)

versionByKey(key) == {v \in Versions : versions[v].key = key}
inPack(p)         == {v \in Versions : versions[v].pack = p}
nextVersionNo(p)  == Max({versions[v].no : v \in inPack(p)} \cup {0}) + 1

-----------------------------------------------------------------------------
(* Requests and their statements *)

Run(r, todo) == packTask' = [packTask EXCEPT ![r] = IF todo = <<>> THEN Idle ELSE todo]
Due(r, do)   == packTask[r] # Idle /\ Head(packTask[r]).do = do
Now(r)       == Head(packTask[r])
Done(r)      == Run(r, Tail(packTask[r]))
Free(r)      == /\ packTask[r] = Idle
                /\ packMode # "parallel" => \A q \in Requests : packTask[q] = Idle

status(v, to)   == [do |-> "status", version |-> v, to |-> to]

\* An UPDATE of the status by id, whatever the status is by now.
SetStatus(r) ==
    /\ Due(r, "status")
    /\ versions' = [versions EXCEPT ![Now(r).version].status = Now(r).to]
    /\ Done(r)
    /\ UNCHANGED <<packMode, now, library, packs, adoptions, wasCurrent, tokens, handoffs>>

CreateContentPack(p) ==
    /\ packs' = packs \cup {p}
    /\ UNCHANGED <<packMode, now, library, versions, adoptions, wasCurrent, tokens,
                   handoffs, packTask>>

\* What insertVersion is going to insert, numbered from what it reads now.
row(p, spec, to) ==
    [pack |-> p, no |-> nextVersionNo(p), status |-> to, media |-> resolveSpec(spec),
     until |-> spec.until, key |-> spec.key]

insertion(p, spec, to) == <<[do |-> "insert", row |-> row(p, spec, to)]>>

Pending == {r \in Requests : Due(r, "insert")}
Room    == Len(versions) + Cardinality(Pending) < MaxVersions

CreateContentPackVersion(r, p, spec, to) ==
    /\ Free(r) /\ p \in packs /\ Room
    /\ to \in {"draft", "candidate"}
    /\ resolvable(spec) /\ ValidateVersionSpec(spec)
    /\ spec.key # NoKey => versionByKey(spec.key) = {}
    /\ Run(r, insertion(p, spec, to))
    /\ UNCHANGED <<packMode, now, library, packs, versions, adoptions, wasCurrent, tokens,
                   handoffs>>

\* A return is a candidate; the same key is answered with the row it has made.
AddReturnCandidate(r, p, spec) ==
    /\ Free(r) /\ p \in packs /\ Room
    /\ spec.returned /\ spec.key # NoKey
    /\ versionByKey(spec.key) = {}
    /\ resolvable(spec) /\ ValidateVersionSpec(spec)
    /\ Run(r, insertion(p, spec, "candidate"))
    /\ UNCHANGED <<packMode, now, library, packs, versions, adoptions, wasCurrent, tokens,
                   handoffs>>

\* The indexes on (pack, number) and on the key.
unique(v) ==
    \A w \in Versions : /\ versions[w].pack = v.pack => versions[w].no # v.no
                        /\ v.key # NoKey => versions[w].key # v.key

InsertVersion(r) ==
    /\ Due(r, "insert")
    /\ versions' = IF unique(Now(r).row) THEN Append(versions, Now(r).row) ELSE versions
    /\ Done(r)
    /\ UNCHANGED <<packMode, now, library, packs, adoptions, wasCurrent, tokens, handoffs>>

-----------------------------------------------------------------------------
(* Adopting and blocking *)

\* Mutant: the new version is stamped before the pointer names it.
AdoptionStampedFirst(v, platform) ==
    (IF versions[v].status # "adopted" THEN <<status(v, "adopted")>> ELSE <<>>)
        \o <<[do |-> "point", platform |-> platform, version |-> v,
              fresh |-> adoptions[platform] = None]>>

\* The statements of an adoption, decided on what is read now: the previous version
\* is retired, the pointer moved (or inserted), the new version stamped.
Adoption(v, platform) ==
    LET prev == adoptions[platform]
    IN  (IF prev \notin {None, v} THEN <<status(prev, "retired")>> ELSE <<>>)
        \o <<[do |-> "point", platform |-> platform, version |-> v, fresh |-> prev = None]>>
        \o (IF versions[v].status # "adopted" THEN <<status(v, "adopted")>> ELSE <<>>)

AdoptContentPackVersion(r, v, platform) ==
    /\ Adopting /\ Free(r)
    /\ Distributable(v)
    /\ Run(r, Adoption(v, platform))
    /\ UNCHANGED <<packMode, now, library, packs, versions, adoptions, wasCurrent, tokens,
                   handoffs>>

\* The pointer is unique per platform: a second INSERT fails and ends the request.
Point(r) ==
    /\ Due(r, "point")
    /\ IF Now(r).fresh /\ adoptions[Now(r).platform] # None
       THEN Run(r, <<>>) /\ UNCHANGED <<adoptions, wasCurrent>>
       ELSE /\ adoptions' = [adoptions EXCEPT ![Now(r).platform] = Now(r).version]
            /\ wasCurrent' = wasCurrent \cup {Now(r).version}
            /\ Done(r)
    /\ UNCHANGED <<packMode, now, library, packs, versions, tokens, handoffs>>

BlockContentPackVersion(r, v) ==
    /\ Adopting /\ Free(r)
    /\ versions[v].status # "blocked"
    /\ Run(r, <<status(v, "blocked")>>)
    /\ UNCHANGED <<packMode, now, library, packs, versions, adoptions, wasCurrent, tokens,
                   handoffs>>

-----------------------------------------------------------------------------
(* Signed media links, production briefs, the library and the clock *)

\* NewHandoffClaim: no time to live asks for the default, more than the cap is refused.
lifetime(ttl) == IF ttl = 0 THEN DefaultTTL ELSE ttl

lifetimeOK(ttl) == ttl <= MaxTTL

handleMediaHandoffMint(v, snap, ttl) ==
    /\ ~Adopting /\ Cardinality(tokens) < MaxTokens
    /\ snap \in versions[v].media /\ lifetimeOK(ttl)
    /\ tokens' = tokens \cup {[version |-> v, media |-> snap, minted |-> now,
                               expires |-> now + lifetime(ttl), redeemed |-> None]}
    /\ UNCHANGED <<packMode, now, library, packs, versions, adoptions, wasCurrent, handoffs,
                   packTask>>

\* VerifyHandoff, then: still the version's snapshot, and the asset still there.
handleMediaHandoffRedeem(t) ==
    /\ now < t.expires
    /\ t.media \in versions[t.version].media
    /\ library[t.media.asset] # Missing
    /\ tokens' = (tokens \ {t}) \cup {[t EXCEPT !.redeemed = now]}
    /\ UNCHANGED <<packMode, now, library, packs, versions, adoptions, wasCurrent, handoffs,
                   packTask>>

\* The brief is kept once per key; no engine is called.
CreateContentHandoff(key, brief) ==
    /\ ~Adopting /\ handoffs[key] = None
    /\ handoffs' = [handoffs EXCEPT ![key] = brief]
    /\ UNCHANGED <<packMode, now, library, packs, versions, adoptions, wasCurrent, tokens,
                   packTask>>

\* The library moves on: a new file under an asset, or the asset is gone.
UpdateLibrary(a, print) ==
    /\ ~Adopting /\ library[a] # Missing /\ print # library[a]
    /\ library' = [library EXCEPT ![a] = print]
    /\ UNCHANGED <<packMode, now, packs, versions, adoptions, wasCurrent, tokens, handoffs,
                   packTask>>

Tick ==
    /\ now < MaxTime /\ now' = now + 1
    /\ UNCHANGED <<packMode, library, packs, versions, adoptions, wasCurrent, tokens,
                   handoffs, packTask>>

\* A statement fails or the process stops: the rest of the request is not run.
Crash(r) ==
    /\ packMode = "crashing" /\ packTask[r] # Idle
    /\ Run(r, <<>>)
    /\ UNCHANGED <<packMode, now, library, packs, versions, adoptions, wasCurrent, tokens,
                   handoffs>>

-----------------------------------------------------------------------------

PackInit ==
    /\ packMode \in Modes
    /\ now = 0
    /\ library = [a \in Assets |-> 0]
    /\ packs = {}
    /\ versions = <<>>
    /\ adoptions = [platform \in Platforms |-> None]
    /\ wasCurrent = {} /\ tokens = {}
    /\ handoffs = [key \in Keys |-> None]
    /\ packTask = [r \in Requests |-> Idle]

PackNext ==
    \/ \E p \in Packs \ packs : CreateContentPack(p)
    \/ \E r \in {q \in Requests : Free(q) /\ Room}, p \in packs : \E spec \in Specs :
           \/ \E to \in Statuses : CreateContentPackVersion(r, p, spec, to)
           \/ AddReturnCandidate(r, p, spec)
    \/ \E r \in Requests, v \in Versions :
           \/ \E platform \in Platforms : AdoptContentPackVersion(r, v, platform)
           \/ BlockContentPackVersion(r, v)
    \/ \E r \in Requests :
           SetStatus(r) \/ InsertVersion(r) \/ Point(r) \/ Crash(r)
    \/ \E v \in Versions, snap \in Snapshot, ttl \in 0..MaxTime :
           handleMediaHandoffMint(v, snap, ttl)
    \/ \E t \in tokens : handleMediaHandoffRedeem(t)
    \/ \E key \in Keys, p \in Packs : CreateContentHandoff(key, p)
    \/ \E a \in Assets, print \in (0..MaxPrint) \cup {Missing} : UpdateLibrary(a, print)
    \/ Tick

PackSpec == PackInit /\ [][PackNext]_packVars

-----------------------------------------------------------------------------
(* Properties *)

PackTypeOK ==
    /\ library \in [Assets -> (0..MaxPrint) \cup {Missing}]
    /\ versions \in Seq([pack : Packs, no : 1..MaxVersions, status : Statuses,
                         media : SUBSET Snapshot, until : Grants, key : Keys \cup {NoKey}])
    /\ adoptions \in [Platforms -> Versions \cup {None}]

\* One return, retried or repeated in parallel with an upload of the same key,
\* makes one version, and a pack's versions are numbered without gaps
\* (AddReturnCandidate, nextVersionNo).
OneVersionPerReturn ==
    /\ \A v, w \in Versions :
           versions[v].key = versions[w].key /\ versions[v].key # NoKey => v = w
    /\ \A p \in Packs : {versions[v].no : v \in inPack(p)} = 1..Cardinality(inPack(p))

\* A version calls itself adopted or retired only after a platform's pointer has
\* named it, whatever failed or raced (contentpack.go: "was the current version").
AdoptedWasCurrent ==
    \A v \in Versions : versions[v].status \in {"adopted", "retired"} => v \in wasCurrent

\* When requests come one at a time and none dies: between requests, a version calls
\* itself adopted only while a platform names it, and one that all platforms have
\* left is retired or blocked; a version is never left behind as adopted
\* (AdoptContentPackVersion).
SupersededIsRetired ==
    packMode = "serial" /\ (\A r \in Requests : packTask[r] = Idle) =>
        \A v \in wasCurrent :
            (\A platform \in Platforms : adoptions[platform] # v)
                => versions[v].status \in {"retired", "blocked"}

\* A link is good for the frozen media only, and never longer than the cap after
\* it was made, also when the library has moved on (NewHandoffClaim, VerifyHandoff).
LinksAreShortLived ==
    \A t \in tokens :
        /\ t.media \in versions[t.version].media
        /\ t.redeemed # None => t.redeemed < t.minted + MaxTTL

-----------------------------------------------------------------------------
(* What the comments say and the code does not do *)

\* "Blocked refuses always" (contentpack.go:386): a version that was blocked is not
\* distributed again.  Adopting another one retires it, and a retired one may be.
BlockedRefusesAlways ==
    [][\A v \in Versions :
           versions[v].status = "blocked" => ~ Distributable(v)']_packVars

=============================================================================

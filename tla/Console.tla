------------------------------- MODULE Console -------------------------------
(***************************************************************************)
(* What merchants work with: content packs, the campaign's configuration,  *)
(* the asset and template library, the matrix, members and agents.  The    *)
(* components share no state, so a behaviour works on one of them, its     *)
(* `focus`; the variables of the others are parked.  Two that name a       *)
(* variable alike share it.                                                *)
(***************************************************************************)
EXTENDS Integers, Sequences

CONSTANTS
    None, Idle, Requests, MaxTime, MaxVersion,
    Packs, PackAssets, Platforms, Missing, ReturnKeys, NoKey, Grants, Forever, DefaultTTL,
    MaxTTL, MaxVersions, MaxPrint, MaxTokens,                              \* packs
    Routes, Records, Seeds, Tenant, Anyone, Editors, MaxTrail, MaxDay,     \* campaign
    Assets, Uploads, Media, Pools, Draws, Templates, Shops, Contents, Unbound,
    MaxItems, MaxHash,                                                     \* library
    Drafts, activityOf, expiryOf, wireOf, videos, MaxPosts,                \* matrix
    Agents, Principals, Patches, MaxRelations                              \* members

VARIABLES
    focus,
    packMode, now, library, packs, versions, adoptions, wasCurrent, tokens, handoffs, packTask,
    topic, day, seed, admissions, admissionTrail, config, configTrail, approved,
    rules, ruleTrail, ruleAnswer, editor,
    desk, ready, assets, pools, items, hash, selections, answers, templates, assignments, job,
    use, clock, docs, posted, click, stamp, recordMu, told,
    alone, members, relations, trail, hand

content  == <<packMode, now, library, packs, adoptions, wasCurrent, tokens, handoffs, packTask>>
campaign == <<topic, day, seed, admissions, admissionTrail, config, configTrail, approved,
                rules, ruleTrail, ruleAnswer, editor>>
shelf    == <<desk, ready, assets, pools, items, hash, selections, answers, templates,
                assignments, job>>
matrix   == <<use, clock, docs, posted, click, stamp, recordMu, told>>
staff    == <<alone, members, relations, trail, hand>>

allVars == <<focus, content, versions, campaign, shelf, matrix, staff>>

-----------------------------------------------------------------------------
(* The components *)

P == INSTANCE ContentPacks WITH Assets <- PackAssets, Keys <- ReturnKeys

C == INSTANCE CampaignConfig

B == INSTANCE Library

M == INSTANCE MatrixHandoff WITH Clicks <- Requests

S == INSTANCE Memberships

ASSUME ConsoleAssumption ==
    /\ P!LimitsAssumption /\ C!BoundsAssumption /\ B!LimitsAssumption
    /\ M!MatrixAssumption /\ S!RelationsAssumption

-----------------------------------------------------------------------------
(* One of them at a time *)

Parked == <<>>

parkedContent ==
    /\ packMode = Parked /\ now = Parked /\ library = Parked /\ packs = Parked
    /\ adoptions = Parked /\ wasCurrent = Parked /\ tokens = Parked /\ handoffs = Parked
    /\ packTask = Parked

parkedCampaign ==
    /\ topic = Parked /\ day = Parked /\ seed = Parked /\ admissions = Parked
    /\ admissionTrail = Parked /\ config = Parked /\ configTrail = Parked /\ approved = Parked
    /\ rules = Parked /\ ruleTrail = Parked /\ ruleAnswer = Parked /\ editor = Parked

parkedShelf ==
    /\ desk = Parked /\ ready = Parked /\ assets = Parked /\ pools = Parked
    /\ items = Parked /\ hash = Parked /\ selections = Parked /\ answers = Parked
    /\ templates = Parked /\ assignments = Parked /\ job = Parked

parkedMatrix ==
    /\ use = Parked /\ clock = Parked /\ docs = Parked /\ posted = Parked
    /\ click = Parked /\ stamp = Parked /\ recordMu = Parked /\ told = Parked

parkedStaff ==
    /\ alone = Parked /\ members = Parked /\ relations = Parked /\ trail = Parked
    /\ hand = Parked

Init ==
    \/ /\ focus = "packs" /\ P!PackInit
       /\ parkedCampaign /\ parkedShelf /\ parkedMatrix /\ parkedStaff
    \/ /\ focus = "campaign" /\ C!ConfigInit /\ versions = Parked
       /\ parkedContent /\ parkedShelf /\ parkedMatrix /\ parkedStaff
    \/ /\ focus = "library" /\ B!LibraryInit
       /\ parkedContent /\ parkedCampaign /\ parkedMatrix /\ parkedStaff
    \/ /\ focus = "matrix" /\ M!MatrixInit /\ versions = Parked
       /\ parkedContent /\ parkedCampaign /\ parkedShelf /\ parkedStaff
    \/ /\ focus = "members" /\ S!MembersInit /\ versions = Parked
       /\ parkedContent /\ parkedCampaign /\ parkedShelf /\ parkedMatrix

PackStep ==
    focus = "packs" /\ P!PackNext
    /\ UNCHANGED <<focus, campaign, shelf, matrix, staff>>

ConfigStep ==
    focus = "campaign" /\ C!ConfigNext
    /\ UNCHANGED <<focus, versions, content, shelf, matrix, staff>>

LibraryStep ==
    focus = "library" /\ B!LibraryNext
    /\ UNCHANGED <<focus, content, campaign, matrix, staff>>

MatrixStep ==
    focus = "matrix" /\ M!MatrixNext
    /\ UNCHANGED <<focus, versions, content, campaign, shelf, staff>>

MemberStep ==
    focus = "members" /\ S!MembersNext
    /\ UNCHANGED <<focus, versions, content, campaign, shelf, matrix>>

Next == PackStep \/ ConfigStep \/ LibraryStep \/ MatrixStep \/ MemberStep

Spec == Init /\ [][Next]_allVars

-----------------------------------------------------------------------------
(* Properties: each in its component's module *)

\* A version calls itself adopted or retired only after a platform's pointer has
\* named it, whatever failed or raced (contentpack.go: "was the current version").
AdoptedWasCurrent == focus = "packs" => P!AdoptedWasCurrent

\* When requests come one at a time and none dies: between requests, a version calls
\* itself adopted only while a platform names it, and one that all platforms have
\* left is retired or blocked; a version is never left behind as adopted
\* (AdoptContentPackVersion).
SupersededIsRetired == focus = "packs" => P!SupersededIsRetired

\* A promise that guests were shown is one that passed the check, whole: the pinned
\* version and the disclosure belong together, whoever saved, paused, resumed or
\* enabled in parallel, and a later draft does not take it back
\* (EnablePublishConfig, UpsertPublishConfigDraft).
PinnedWasChecked == focus = "campaign" => C!PinnedWasChecked

\* Nothing is rewritten silently: the last revision of each trail is the row as it
\* is, whatever failed or raced, and no two revisions of one state follow each other
\* unless somebody saved (migration 0031, store_channel_admission.go, 0005).
TrailsReplay == focus = "campaign" => C!TrailsReplay

\* A draw's key has one answer: whoever asked for it, in whatever order, while the
\* pool was changed or deleted, was given the same asset in the same version
\* (store_asset_lib.go, DrawLibPool).
OneAnswerPerDraw == focus = "library" => B!OneAnswerPerDraw

\* What a shop was given can be looked up, and is published, although templates are
\* deleted between the check of an assignment and its row; otherwise the shop's list
\* fails as a whole (hydrateVideoTemplateAssignment).
PinsResolve == focus = "library" => B!PinsResolve

\* A plan that a merchant is told of was made for the very activity, version and video
\* of his draft, also when several requests stamp their plans at once, and whether it is
\* new, replayed or remembered (Consumer.remember, Existing).
ToldIsPosted == focus = "matrix" => M!ToldIsPosted

\* A sub-account an agent opened is on record with a relation of that agent that was
\* not yet revoked when his request came in, however rows were revoked, renewed and
\* rewritten meanwhile; what an owner opened names none (handleAgencySubAccountCreate).
IssuedUnderActive == focus = "members" => S!IssuedUnderActive

=============================================================================

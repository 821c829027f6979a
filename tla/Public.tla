------------------------------- MODULE Public -------------------------------
(***************************************************************************)
(* What customers reach: touchpoints, jumps, the lead form, and publishing *)
(* with its reward.  The components share no state, so a behaviour works   *)
(* on one of them, its `focus`; the variables of the others are parked.    *)
(* Two components that name a variable alike share it.                     *)
(***************************************************************************)
EXTENDS Integers, Sequences

CONSTANTS
    None, Idle, Requests, MaxTime,
    Campaigns, Windows, Shops, Tags, Groups, Aliases, Desks, MaxLinks, MaxTags, MaxStage,
    MaxCached,                                                         \* touchpoints
    Kinds, Hosts, Base, Guests, Editors, JumpRows, ReturnRows, Registries, Stamps,
    MaxChanges,                                                        \* jumps
    Contacts, Addresses, Notices, CurrentNotice, Assets, Caps, Burst, Window, DayLength,
    MaxLeads, MaxHandled,                                              \* leads
    Facts, Copies, Accounts, Proofs, MaxRule                           \* reward

VARIABLES
    focus,
    desk, clock,                                              \* of the one in focus
    time, shops, campaigns, links, groups, tags, aliases, cached, job,    \* touchpoints
    worlds,                                                               \* jumps
    form, asset, cap, hits, leads, changes,                               \* leads
    counter, attempts, rules, subjects, postings, proofs, request

touch  == <<time, shops, campaigns, links, groups, tags, aliases, cached, job>>
jumps  == <<worlds>>
intake == <<form, asset, cap, hits, leads, changes>>
reward == <<counter, attempts, rules, subjects, postings, proofs, request>>

allVars == <<focus, desk, clock, touch, jumps, intake, reward>>

-----------------------------------------------------------------------------
(* The components *)

T == INSTANCE Touchpoints

J == INSTANCE ExtraJumps

L == INSTANCE LeadIntake

R == INSTANCE PublishReward

ASSUME PublicAssumption ==
    /\ T!BoundsAssumption /\ J!JumpsAssumption /\ L!IntakeAssumption
    /\ R!RewardRuleAssumption

-----------------------------------------------------------------------------
(* One of them at a time *)

Parked == <<>>

parkedTouch  == /\ time = Parked /\ shops = Parked /\ campaigns = Parked /\ links = Parked
                /\ groups = Parked /\ tags = Parked /\ aliases = Parked /\ cached = Parked
                /\ job = Parked
parkedJumps  == worlds = Parked
parkedIntake == /\ form = Parked /\ asset = Parked /\ cap = Parked /\ hits = Parked
                /\ leads = Parked /\ changes = Parked
parkedReward == /\ counter = Parked /\ attempts = Parked /\ rules = Parked /\ subjects = Parked
                /\ postings = Parked /\ proofs = Parked /\ request = Parked

Init ==
    \/ /\ focus = "touchpoints" /\ T!TouchInit
       /\ clock = Parked /\ parkedJumps /\ parkedIntake /\ parkedReward
    \/ /\ focus = "jumps" /\ J!JumpsInit
       /\ parkedTouch /\ parkedIntake /\ parkedReward
    \/ /\ focus = "leads" /\ L!IntakeInit
       /\ parkedTouch /\ parkedJumps /\ parkedReward
    \/ /\ focus = "reward" /\ R!RewardInit
       /\ desk = Parked /\ clock = Parked /\ parkedTouch /\ parkedJumps /\ parkedIntake

TouchpointStep ==
    focus = "touchpoints" /\ T!TouchNext /\ UNCHANGED <<focus, clock, jumps, intake, reward>>

JumpStep == focus = "jumps" /\ J!JumpsNext /\ UNCHANGED <<focus, touch, intake, reward>>

LeadStep == focus = "leads" /\ L!IntakeNext /\ UNCHANGED <<focus, touch, jumps, reward>>

RewardStep ==
    focus = "reward" /\ R!RewardNext
    /\ UNCHANGED <<focus, desk, clock, touch, jumps, intake>>

Next == TouchpointStep \/ JumpStep \/ LeadStep \/ RewardStep

Spec == Init /\ [][Next]_allVars

-----------------------------------------------------------------------------
(* Properties: each in its component's module *)

\* Every write is followed by a new epoch, so once no request is between its commit
\* and its bump, rows that were loaded under one epoch, although statement by
\* statement, decide at any time what the tables would decide then: windows are not
\* frozen, no edit is missed or half seen, and the two ways to a verdict are one
\* (readcache, DecideLink, DecideTouchpoint).  Rows that a bump overtook while they
\* were loaded are excepted: Set stamps them as new.
CachedRowsDecideAlike == focus = "touchpoints" => T!CachedRowsDecideAlike

\* A printed card never leads nowhere: whatever was rebound, deleted or switched in
\* parallel, a touchpoint has a landing code of its own campaign, and that code is a
\* stopped one only if all of the campaign's are (pickCanonicalLink, Rebind).
CardsLand == focus = "touchpoints" => T!CardsLand

\* Whatever the merchant, the registry and the clock do between the reads of a request,
\* an address a guest is given was, while the request was under way, stored as it is
\* given, enabled, not revoked and not due; the page was open to guests of that host,
\* brand, registry and tenant each at some time of the request; and a return leads to
\* our own pages or to a registered host.
OfferedWasOpen == focus = "jumps" => J!OfferedWasOpen

\* The cap is read, then the day's rows are counted and then the row is stored, which
\* may be on the next day; rules are edited and other campaigns' forms are sent meanwhile.
\* Still, of the rows that a cap of at most n let in there are no more than n and the
\* requests under way but one (handlePublicLeadSubmit).
CapOverrunIsBounded == focus = "leads" => L!CapOverrunIsBounded

\* A consent is for the copy and the account the row shows, whatever revisions and
\* confirmations overlapped: "the customer must confirm the new copy".
ConsentIsForWhatIsShown == focus = "reward" => R!ConsentIsForWhatIsShown

\* A posting's version says which rule refused it, although the rule is read before the
\* posting is made, merchants revise it meanwhile, two of them at once, and the first
\* version is a default that may never be stored.
VersionIsOneRule == focus = "reward" => R!VersionIsOneRule

=============================================================================

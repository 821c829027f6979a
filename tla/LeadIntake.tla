----------------------------- MODULE LeadIntake -----------------------------
(***************************************************************************)
(* What happens to a lead before the outbox has it: the campaign's form,   *)
(* the visitor's submission with its notice, its dedup key and the daily   *)
(* cap, and the revocation (handlers_public_leads.go, store_leads.go).     *)
(*                                                                         *)
(* A submission reads the form, the row of its key, the campaign's rules,  *)
(* the count of the day and the campaign's asset in statements of their    *)
(* own before the transaction that stores it.  The merchant edits the      *)
(* rules meanwhile.  `clock \div DayLength` is the UTC day.                *)
(* One tenant.  Forwarding is LeadsOutbox's; here it is one step.          *)
(***************************************************************************)
EXTENDS Integers, Sequences, FiniteSets

CONSTANTS
    Campaigns,
    Contacts,      \* normalised phone numbers
    Addresses,     \* client addresses the limiter counts
    Notices,       \* notice versions
    CurrentNotice, \* the version this build requires
    Assets, None,
    Requests,
    Caps,          \* what merchants set as per_contact_daily_submission_cap
    Burst, Window, \* the limiter
    DayLength, MaxTime, MaxLeads,
    MaxChanges,    \* how often merchants change rules and assets
    MaxHandled     \* how many of the leads, the first ones, are forwarded and revoked

\* What the instances assume of the constants.
IntakeAssumption ==
    /\ CurrentNotice \in Notices /\ Caps \subseteq Nat
    /\ {Burst, Window, DayLength, MaxTime, MaxLeads, MaxChanges, MaxHandled} \subseteq Nat
    /\ DayLength > 0
    /\ IsFiniteSet(Requests) /\ Requests # {}

VARIABLES
    clock,
    form,   \* [Campaigns -> the notice version its form pins, or None]
    asset,  \* [Campaigns -> its last asset, or None]
    cap,    \* [Campaigns -> the daily cap of its rules, or None]
    hits,   \* [Addresses -> instants of admitted requests]
    leads,  \* sequence of rows
    changes, \* how often rules and assets were changed
    desk    \* [Requests -> where a request stands, or None]

intakeVars == <<clock, form, asset, cap, hits, leads, changes, desk>>

Leads  == DOMAIN leads
Day(t) == t \div DayLength

\* A row with its facts: `key` is the day of the dedup key, `created` of created_at,
\* `submit` the outbox column, `trace` what the submit fact says of its source, and
\* `stop` the trace of the revocation fact once it is queued.  `cap` is not stored: the
\* cap that let it in, or None.
LeadSubmission ==
    [campaign : Campaigns, contact : Contacts, key : Nat, created : Nat, notice : Notices,
     trace : Assets \cup {None}, cap : Caps \cup {None}, revoked : BOOLEAN,
     submit : {"pending", "sent", "withheld"}, stop : {"none"} \cup Assets \cup {None}]

Free(r)     == desk[r] = None
At(r, step) == desk[r] # None /\ desk[r].at = step
Goto(r, t)  == desk' = [desk EXCEPT ![r] = t]
Return(r)   == Goto(r, None)

-----------------------------------------------------------------------------
(* The form *)

\* Any notice version is accepted; the form is open from then on.
handleLeadFormUpsert(r, c, notice) ==
    /\ Free(r)
    /\ Goto(r, [at |-> "form", campaign |-> c, found |-> form[c] # None,
                notice |-> notice])
    /\ UNCHANGED <<clock, form, asset, cap, hits, leads, changes>>

\* The one row of a campaign is updated if it was found, and inserted if not; then
\* the unique index refuses the second of two.
UpsertLeadForm(r) ==
    /\ At(r, "form")
    /\ form' = IF desk[r].found \/ form[desk[r].campaign] = None
               THEN [form EXCEPT ![desk[r].campaign] = desk[r].notice] ELSE form
    /\ Return(r)
    /\ UNCHANGED <<clock, asset, cap, hits, leads, changes>>

-----------------------------------------------------------------------------
(* The submission *)

\* Consent is given to the version in the body, which must be the build's own.  What
\* is kept from here on is the form that was read; key and trace are still to come.
handlePublicLeadSubmit(r, c, contact, consented) ==
    /\ Free(r)
    /\ consented = CurrentNotice
    /\ form[c] # None
    /\ Len(leads) + Cardinality({q \in Requests : At(q, "admit") \/ At(q, "probe")
                                     \/ At(q, "rules") \/ At(q, "count")
                                     \/ At(q, "trace") \/ At(q, "insert")})
          < MaxLeads
    /\ Goto(r, [at |-> "admit", campaign |-> c, contact |-> contact, notice |-> form[c],
                key |-> None, trace |-> None, cap |-> None])
    /\ UNCHANGED <<clock, form, asset, cap, hits, leads, changes>>

\* The hits inside the sliding window.
kept(address) == LET Recent(h) == h > clock - Window IN SelectSeq(hits[address], Recent)

Allow(address) ==
    /\ Len(kept(address)) < Burst
    /\ hits' = [hits EXCEPT ![address] = Append(kept(address), clock)]

\* The limiter lets the request through, and `now` is taken: it fixes the key's day.
Admit(r) ==
    /\ At(r, "admit")
    /\ \E address \in Addresses : Allow(address)
    /\ Goto(r, [desk[r] EXCEPT !.at = "probe", !.key = Day(clock)])
    /\ UNCHANGED <<clock, form, asset, cap, leads, changes>>

DedupKey(c, contact, day) ==
    {l \in Leads : leads[l].campaign = c /\ leads[l].contact = contact /\ leads[l].key = day}

Same(r) == DedupKey(desk[r].campaign, desk[r].contact, desk[r].key)

\* A replay is neither counted nor refused.
Probe(r) ==
    /\ At(r, "probe")
    /\ Goto(r, [desk[r] EXCEPT !.at = IF Same(r) # {} THEN "trace" ELSE "rules"])
    /\ UNCHANGED <<clock, form, asset, cap, hits, leads, changes>>

\* Without a cap nothing is counted.
GetCampaignRulesByCampaign(r) ==
    /\ At(r, "rules")
    /\ LET limit == cap[desk[r].campaign] IN
       Goto(r, [desk[r] EXCEPT !.at = IF limit = None THEN "trace" ELSE "count", !.cap = limit])
    /\ UNCHANGED <<clock, form, asset, cap, hits, leads, changes>>

\* The contact's rows of the day, over all campaigns of the tenant.
CountContactSubmissionsOnDay(contact, day) ==
    Cardinality({l \in Leads : leads[l].contact = contact /\ leads[l].created = day})

\* Mutant: one submission more than the cap.
underCapOrAt(n, limit) == n <= limit

underCap(n, limit) == n < limit

EvaluateCap(r) ==
    /\ At(r, "count")
    /\ IF underCap(CountContactSubmissionsOnDay(desk[r].contact, desk[r].key), desk[r].cap)
       THEN Goto(r, [desk[r] EXCEPT !.at = "trace"]) ELSE Return(r)
    /\ UNCHANGED <<clock, form, asset, cap, hits, leads, changes>>

campaignLeadTrace(r) ==
    /\ At(r, "trace")
    /\ Goto(r, [desk[r] EXCEPT !.at = "insert", !.trace = asset[desk[r].campaign]])
    /\ UNCHANGED <<clock, form, asset, cap, hits, leads, changes>>

newLead(t) ==
    [campaign |-> t.campaign, contact |-> t.contact, key |-> t.key, created |-> Day(clock),
     notice |-> t.notice, trace |-> t.trace, cap |-> t.cap, revoked |-> FALSE,
     submit |-> "pending", stop |-> "none"]

\* Row and outbox fact in one transaction; a key that is taken is answered with its row.
SubmitLead(r) ==
    /\ At(r, "insert")
    /\ leads' = IF Same(r) = {} THEN Append(leads, newLead(desk[r])) ELSE leads
    /\ Return(r)
    /\ UNCHANGED <<clock, form, asset, cap, hits, changes>>

-----------------------------------------------------------------------------
(* The revocation *)

\* Copied from the stored submit fact.
traceFromSubmitFact(l) == leads[l].trace

\* The visitor knows the reference and the phone.
handlePublicLeadRevoke(r, l) ==
    /\ Free(r)
    /\ l <= MaxHandled
    /\ \E address \in Addresses : Allow(address)
    /\ Goto(r, [at |-> "revoke", lead |-> l, trace |-> traceFromSubmitFact(l)])
    /\ UNCHANGED <<clock, form, asset, cap, leads, changes>>

RevokeLeadSubmission(r) ==
    LET lead == leads[desk[r].lead] IN
    /\ At(r, "revoke")
    /\ leads' = IF lead.revoked THEN leads ELSE
           [leads EXCEPT ![desk[r].lead] =
               [lead EXCEPT !.revoked = TRUE,
                            !.stop = IF lead.submit = "sent" THEN desk[r].trace ELSE @,
                            !.submit = IF @ = "pending" THEN "withheld" ELSE @]]
    /\ Return(r)
    /\ UNCHANGED <<clock, form, asset, cap, hits, changes>>

-----------------------------------------------------------------------------
(* What happens around *)

\* The forwarder hands the submit fact over (LeadsOutbox).
MarkOutboxForwarded(l) ==
    /\ leads[l].submit = "pending" /\ l <= MaxHandled
    /\ leads' = [leads EXCEPT ![l].submit = "sent"]
    /\ UNCHANGED <<clock, form, asset, cap, hits, changes, desk>>

Changed == changes < MaxChanges /\ changes' = changes + 1

\* An asset is added to the campaign, or its last one removed.
CampaignAssets(c, a) ==
    /\ asset[c] # a
    /\ asset' = [asset EXCEPT ![c] = a]
    /\ Changed
    /\ UNCHANGED <<clock, form, cap, hits, leads, desk>>

\* The merchant saves a campaign's rules, or deletes them.
SaveCampaignRules(c, limit) ==
    /\ cap[c] # limit
    /\ cap' = [cap EXCEPT ![c] = limit]
    /\ Changed
    /\ UNCHANGED <<clock, form, asset, hits, leads, desk>>

Tick ==
    /\ clock < MaxTime
    /\ clock' = clock + 1
    /\ UNCHANGED <<form, asset, cap, hits, leads, changes, desk>>

IntakeInit ==
    /\ clock = 0
    /\ form = [c \in Campaigns |-> None]
    /\ asset = [c \in Campaigns |-> None]
    /\ cap = [c \in Campaigns |-> None]
    /\ hits = [a \in Addresses |-> <<>>]
    /\ leads = <<>>
    /\ changes = 0
    /\ desk = [r \in Requests |-> None]

IntakeStep(r) ==
    \/ UpsertLeadForm(r)
    \/ Admit(r) \/ Probe(r) \/ GetCampaignRulesByCampaign(r) \/ EvaluateCap(r)
    \/ campaignLeadTrace(r) \/ SubmitLead(r)
    \/ RevokeLeadSubmission(r)

IntakeNext ==
    \/ \E r \in Requests :
          \/ \E c \in Campaigns, notice \in Notices :
                handleLeadFormUpsert(r, c, notice)
          \/ \E c \in Campaigns, contact \in Contacts, consented \in Notices :
                handlePublicLeadSubmit(r, c, contact, consented)
          \/ \E l \in Leads : handlePublicLeadRevoke(r, l)
          \/ IntakeStep(r)
    \/ \E l \in Leads : MarkOutboxForwarded(l)
    \/ \E c \in Campaigns, a \in Assets \cup {None} : CampaignAssets(c, a)
    \/ \E c \in Campaigns, limit \in Caps \cup {None} : SaveCampaignRules(c, limit)
    \/ Tick

IntakeSpec == IntakeInit /\ [][IntakeNext]_intakeVars

-----------------------------------------------------------------------------
(* Properties *)

\* However often, and at whatever moment of the day, a contact submits a campaign's
\* form, there is one lead of the key.
OneLeadPerKey ==
    \A l, k \in Leads : k \in DedupKey(leads[l].campaign, leads[l].contact, leads[l].key) => k = l

\* The contact's rows of a day that a cap of at most n let in.
Limited(contact, day, n) ==
    {l \in Leads : /\ leads[l].contact = contact /\ leads[l].created = day
                   /\ leads[l].cap # None /\ leads[l].cap <= n}

\* The cap is read, then the day's rows are counted and then the row is stored, which
\* may be on the next day; rules are edited and other campaigns' forms are sent meanwhile.
\* Still, of the rows that a cap of at most n let in there are no more than n and the
\* requests under way but one.  Rows of campaigns without a cap, or with a higher one,
\* are not limited by it.
CapOverrunIsBounded ==
    \A n \in Caps, contact \in Contacts, day \in 0..Day(MaxTime) :
        Cardinality(Limited(contact, day, n)) <= n + Cardinality(Requests) - 1

\* A stop names the source its submission named, whatever the campaign shows by then.
StopRepeatsSource ==
    \A l \in Leads : leads[l].stop # "none" =>
        leads[l].revoked /\ leads[l].submit = "sent" /\ leads[l].stop = leads[l].trace

-----------------------------------------------------------------------------
(* What the comments say and the code does not do *)

\* "Old submissions keep the version they consented to."
ConsentIsRecorded == \A l \in Leads : leads[l].notice = CurrentNotice

\* The cap is a limit, also for two campaigns' forms sent at once.
CapIsKept ==
    \A n \in Caps, contact \in Contacts, day \in 0..Day(MaxTime) :
        Cardinality(Limited(contact, day, n)) <= n

=============================================================================

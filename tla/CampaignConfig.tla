---------------------------- MODULE CampaignConfig ----------------------------
(***************************************************************************)
(* What a campaign promises and when it may: the publish configuration     *)
(* with its enabling check (campaignenable, store_campaign_publish_config),*)
(* the channel admissions it consults (channeladmission) and the campaign's*)
(* rule set (store_campaign_rules.go), each with its audit trail.          *)
(*                                                                         *)
(* One tenant, one campaign.  A specification is what the check looks at;  *)
(* the facts of other components (content, inventory, stores, the          *)
(* campaign's window) are whatever they are when a handler reads them.     *)
(* Three desks: what is promised, under a table that is loaded; the table  *)
(* of channels over starts and releases; the rule set.                     *)
(***************************************************************************)
EXTENDS Integers, Sequences, FiniteSets, SequencesExt

CONSTANTS
    Routes,       \* platform, entry and scenario
    Records,      \* admission records a seed may hold
    Seeds,        \* releases' seeds: [Keys of the table -> record or None]
    Tenant, Anyone, None,
    Editors, Idle,
    MaxVersion, MaxTrail, MaxDay

\* What the instances assume of the constants.
BoundsAssumption ==
    /\ {MaxVersion, MaxTrail, MaxDay} \subseteq Nat
    /\ IsFiniteSet(Routes)
    /\ Seeds \subseteq [Routes \X {Tenant, Anyone} -> Records \cup {None}]

VARIABLES
    topic,       \* the desk: "promises", "channels" or "rules"
    day,
    seed,        \* the seed the running release carries
    admissions,  \* [Keys -> record or None], the table
    admissionTrail,
    config,      \* the campaign's row, or None
    configTrail, \* its revisions
    approved,    \* [version, spec] that have passed Check
    rules,       \* the rule set's row, or None
    ruleTrail,   \* its revisions
    ruleAnswer,  \* what the last save of rules was answered
    editor       \* editor[e]: the configuration e is about to enable, or Idle

configVars == <<topic, day, seed, admissions, admissionTrail, config, configTrail, approved,
                rules, ruleTrail, ruleAnswer, editor>>
ruleVars   == <<rules, ruleTrail, ruleAnswer>>
tableVars  == <<seed, admissions, admissionTrail>>
rowVars    == <<config, configTrail, approved>>

-----------------------------------------------------------------------------
(* Channel admissions *)

\* A row of the table: a route, for one tenant or for all.
Keys == Routes \X {Tenant, Anyone}

\* LoadAdmissionSeed at a start, one record after the other, each in a transaction
\* with its revision; an unchanged record writes nothing, one that the seed no
\* longer has stays.
upsertAdmission(key) ==
    /\ seed[key] # None /\ admissions[key] # seed[key]
    /\ Len(admissionTrail) < MaxTrail
    /\ admissions' = [admissions EXCEPT ![key] = seed[key]]
    /\ admissionTrail' = Append(admissionTrail, [key |-> key, record |-> seed[key]])
    /\ UNCHANGED <<topic, day, seed, rowVars, ruleVars, editor>>

\* A new release starts, also while the last one was still loading.
Release(next) ==
    /\ next # seed
    /\ seed' = next
    /\ editor' = [e \in Editors |-> Idle]
    /\ UNCHANGED <<topic, day, admissions, admissionTrail, rowVars, ruleVars>>

\* Gate for a reward play without a merchant's app: each refusal in its turn.
Gate(record) ==
    CASE record.closed                    -> "channel_closed"
      [] record.status = "not_admitted"   -> "not_admitted"
      [] record.status = "unknown"        -> "admission_unknown"
      [] record.until = None              -> "admission_unknown"
      [] day > record.until               -> "admission_expired"
      [] record.binding = "merchant_authorized" -> "wrong_binding"
      [] ~record.reward                   -> "reward_play_not_authorized"
      [] OTHER                            -> "allowed"

\* GetChannelAdmission: the tenant's own row before everybody's.
bestMatch(route) ==
    IF admissions[<<route, Tenant>>] # None THEN admissions[<<route, Tenant>>]
    ELSE admissions[<<route, Anyone>>]

publicVerdict(route) ==
    IF bestMatch(route) = None THEN "admission_unknown" ELSE Gate(bestMatch(route))

\* assembleEnableFacts keeps one listed row per route, whichever is listed last: the
\* list is not ordered by the tenant.
listed(route) == {admissions[<<route, whose>>] : whose \in {Tenant, Anyone}} \ {None}

verdictsOn(route) == IF listed(route) = {} THEN {"admission_unknown"}
                     ELSE {Gate(record) : record \in listed(route)}

\* assembleEnableFacts: the verdict of each route, from the row that was kept.
verdicts == {verdictOf \in [Routes -> UNION {verdictsOn(route) : route \in Routes}] :
                \A route \in Routes : verdictOf[route] \in verdictsOn(route)}

-----------------------------------------------------------------------------
(* Enabling *)

Facts == [content : {"missing", "ready", "blocked", "expired"}, ended : BOOLEAN,
          stock : [version : 0..MaxVersion, left : BOOLEAN]]

\* The refusals of Check up to what the specification itself lacks, in their order;
\* `told` are the verdicts of its routes.
Check(spec, version, told, facts) ==
    CASE spec.copy = FALSE                 -> "customer_copy_missing"
      [] facts.content = "missing"         -> "content_not_ready"
      [] facts.content = "blocked"         -> "content_blocked"
      [] facts.content = "expired"         -> "content_grant_expired"
      [] told = {}                         -> "no_runnable_channel"
      [] "allowed" \notin told             -> IF "channel_closed" \in told THEN "channel_closed"
                                              ELSE "channel_not_admitted"
      [] facts.stock.version = 0           -> "benefit_ref_missing"
      [] facts.stock.version # version     -> "benefit_version_mismatch"
      [] ~facts.stock.left                 -> "benefit_stock_missing"
      [] facts.ended                       -> "campaign_ended"
      [] ~spec.window                      -> "window_conflict"
      [] OTHER                             -> "allowed"

\* ValidateSpec asks for shapes only; what Check refuses may be saved.
Specs == [copy : BOOLEAN, window : BOOLEAN, routes : SUBSET Routes]

Revision(action, row) == [action |-> action, version |-> row.version, status |-> row.status,
                          pinned |-> row.pinned]
Audit(action, row)    == /\ Len(configTrail) < MaxTrail
                         /\ configTrail' = Append(configTrail, Revision(action, row))

\* Mutant: the pin of the last enabling is cleared with the draft.
draftUnpinned(spec) ==
    IF config = None THEN [version |-> 1, status |-> "draft", spec |-> spec, pinned |-> 0, promised |-> None]
    ELSE [config EXCEPT !.version = @ + 1, !.status = "draft", !.spec = spec, !.pinned = 0]

draft(spec) ==
    IF config = None THEN [version |-> 1, status |-> "draft", spec |-> spec, pinned |-> 0, promised |-> None]
    ELSE [config EXCEPT !.version = @ + 1, !.status = "draft", !.spec = spec]

\* Saving over an enabled configuration makes it a draft; the pin stays.
UpsertPublishConfigDraft(spec) ==
    /\ config # None => config.version < MaxVersion
    /\ config' = draft(spec)
    /\ Audit(IF config = None THEN "create" ELSE "update", config')
    /\ UNCHANGED <<topic, day, tableVars, approved, ruleVars, editor>>

\* What guests are promised, and the version it was checked as.
BuildDisclosure(spec, version) == [version |-> version, spec |-> spec]

\* The handler reads the row and the facts, checks, and builds the disclosure.
handlePublishConfigEnable(e, verdictOf, facts) ==
    /\ editor[e] = Idle /\ config # None
    /\ Check(config.spec, config.version, {verdictOf[route] : route \in config.spec.routes}, facts)
           = "allowed"
    /\ LET passed == BuildDisclosure(config.spec, config.version)
       IN  /\ editor' = [editor EXCEPT ![e] = passed]
           /\ approved' = approved \cup {passed}
    /\ UNCHANGED <<topic, day, tableVars, config, configTrail, ruleVars>>

pin(e) == [config EXCEPT !.status = "enabled", !.pinned = editor[e].version,
                         !.promised = editor[e].spec]

\* EnablePublishConfig: whoever comes second changes nothing.  The row's version is
\* not compared with the one that was checked.
EnablePublishConfig(e) ==
    /\ editor[e] # Idle
    /\ editor' = [editor EXCEPT ![e] = Idle]
    /\ IF config.status = "enabled" THEN UNCHANGED <<config, configTrail>>
       ELSE /\ config' = pin(e)
            /\ Audit(IF config.status = "paused" THEN "resume" ELSE "enable", config')
    /\ UNCHANGED <<topic, day, tableVars, approved, ruleVars>>

\* Mutant: the pause is not audited.
auditPause0(row) == UNCHANGED configTrail

AuditPause(row) == Audit("pause", row)

PausePublishConfig ==
    /\ config # None /\ config.status = "enabled"
    /\ config' = [config EXCEPT !.status = "paused"]
    /\ AuditPause(config')
    /\ UNCHANGED <<topic, day, tableVars, approved, ruleVars, editor>>

\* What a guest is promised: only while enabled, from the pin; the mode and the slot
\* come from the row.
snapshot == IF config # None /\ config.status = "enabled"
            THEN [version |-> config.pinned, promised |-> config.promised, served |-> config.spec]
            ELSE None

-----------------------------------------------------------------------------
(* The rule set *)

\* A save and its revision in one transaction, refused by the unique index on the
\* revision's number; a new row starts from one.
UpsertCampaignRules ==
    LET number == IF rules = None THEN 1 ELSE rules + 1
        taken  == \E i \in DOMAIN ruleTrail : ruleTrail[i].revision = number
    IN  /\ number <= MaxVersion
        /\ IF taken
           THEN ruleAnswer' = "failed" /\ UNCHANGED <<rules, ruleTrail>>
           ELSE /\ rules' = number
                /\ ruleTrail' = Append(ruleTrail, [revision |-> number, set |-> TRUE])
                /\ ruleAnswer' = "saved"
        /\ UNCHANGED <<topic, day, tableVars, rowVars, editor>>

DeleteCampaignRules ==
    /\ rules # None
    /\ rules' = None
    /\ ruleTrail' = Append(ruleTrail, [revision |-> rules + 1, set |-> FALSE])
    /\ UNCHANGED <<topic, day, tableVars, rowVars, ruleAnswer, editor>>

-----------------------------------------------------------------------------

NextDay ==
    /\ day < MaxDay /\ day' = day + 1
    /\ UNCHANGED <<topic, tableVars, rowVars, ruleVars, editor>>

ConfigInit ==
    /\ topic \in {"promises", "channels", "rules"}
    /\ day = 0
    /\ seed \in Seeds
    /\ IF topic = "promises"
       THEN /\ admissions = seed
            /\ admissionTrail = SetToSeq({[key |-> key, record |-> seed[key]] :
                                             key \in {k \in Keys : seed[k] # None}})
       ELSE admissions = [key \in Keys |-> None] /\ admissionTrail = <<>>
    /\ config = None /\ configTrail = <<>> /\ approved = {}
    /\ rules = None /\ ruleTrail = <<>> /\ ruleAnswer = None
    /\ editor = [e \in Editors |-> Idle]

handlePublishConfigPut == \E spec \in Specs : UpsertPublishConfigDraft(spec)

\* The handlers' requests, and a day that ends between two of them.
Promise ==
    \/ handlePublishConfigPut
    \/ \E e \in Editors :
           \/ EnablePublishConfig(e)
           \/ \E facts \in Facts, verdictOf \in verdicts : handlePublishConfigEnable(e, verdictOf, facts)
    \/ PausePublishConfig
    \/ NextDay

LoadAdmissionSeed == \E key \in Keys : upsertAdmission(key)

ConfigNext ==
    \/ topic = "channels" /\ (LoadAdmissionSeed \/ \E next \in Seeds : Release(next))
    \/ topic = "promises" /\ Promise
    \/ topic = "rules" /\ (UpsertCampaignRules \/ DeleteCampaignRules)

ConfigSpec == ConfigInit /\ [][ConfigNext]_configVars

-----------------------------------------------------------------------------
(* Properties *)

\* A promise that guests were shown is one that passed the check, whole: the pinned
\* version and the disclosure belong together, whoever saved, paused, resumed or
\* enabled in parallel, and a later draft does not take it back
\* (EnablePublishConfig, UpsertPublishConfigDraft).
PinnedWasChecked ==
    config # None =>
        /\ config.pinned > 0 =>
               [version |-> config.pinned, spec |-> config.promised] \in approved
        /\ config.status \in {"enabled", "paused"} => config.pinned > 0
        /\ (\E i \in DOMAIN configTrail : configTrail[i].status = "enabled") => config.pinned > 0

\* The last revision of the configuration is its row, and two revisions of one state
\* follow each other only where somebody saved.
ConfigReplays ==
    config # None =>
        /\ configTrail # <<>>
        /\ LET last == Last(configTrail)
           IN  <<last.version, last.status, last.pinned>>
                   = <<config.version, config.status, config.pinned>>
        /\ \A i \in 2..Len(configTrail) :
               configTrail[i].status = "draft" \/ configTrail[i].status # configTrail[i-1].status

\* No later revision is of the same row of the table.
Latest(i) == \A j \in DOMAIN admissionTrail : j > i => admissionTrail[j].key # admissionTrail[i].key

\* Every row has a revision, the latest is the row, and the next one of a row says
\* something else.
AdmissionsReplay ==
    /\ \A key \in Keys : admissions[key] # None =>
           \E i \in DOMAIN admissionTrail : admissionTrail[i].key = key
    /\ \A i \in DOMAIN admissionTrail :
           Latest(i) => admissionTrail[i].record = admissions[admissionTrail[i].key]
    /\ \A i, j \in DOMAIN admissionTrail :
           /\ i < j /\ admissionTrail[i].key = admissionTrail[j].key
           /\ \A k \in i+1..j-1 : admissionTrail[k].key # admissionTrail[i].key
           => admissionTrail[i].record # admissionTrail[j].record

\* The rule set is what its last revision says.
RulesReplay ==
    rules = IF ruleTrail # <<>> /\ Last(ruleTrail).set THEN Last(ruleTrail).revision ELSE None

\* Nothing is rewritten silently: the last revision of each trail is the row as it
\* is, whatever failed or raced, and no two revisions of one state follow each other
\* unless somebody saved (migration 0031, store_channel_admission.go, 0005).
TrailsReplay == ConfigReplays /\ AdmissionsReplay /\ RulesReplay

\* What handlers_campaign_config.go:63 says: over an enabled configuration the new
\* version must pass the check before it is live.  A save between the check and the
\* statement is enabled unchecked.
LiveWasChecked ==
    snapshot # None => [version |-> config.version, spec |-> snapshot.served] \in approved

\* What store_channel_admission.go:8 says: a tenant's own row goes before everybody's.
\* The enabling check may have used the other.
TenantRowFirst ==
    [][\A e \in Editors :
           editor[e] = Idle /\ editor'[e] # Idle =>
               \E route \in config.spec.routes : publicVerdict(route) = "allowed"]_configVars

\* What store_campaign_rules.go:82 says: a save creates version one or replaces.
\* After a deletion the first revision's number is taken and every save fails.
RulesCanBeSaved == ruleAnswer # "failed"
=============================================================================

---------------------------- MODULE PublishReward ----------------------------
(***************************************************************************)
(* The customer's own publishing and its reward (desk "customer"): a       *)
(* preparation that is previewed, revised, confirmed and exported          *)
(* (custpublish), the reward rule of the campaign by version, claims on a  *)
(* preparation (publishreward).  Desk "proofs": proofs of it for review.   *)
(*                                                                         *)
(* Handlers read a row and write it in statements of their own, so         *)
(* requests interleave between the two.                                    *)
(***************************************************************************)
EXTENDS Integers, FiniteSets

CONSTANTS
    Facts,        \* preparations; their ids are the facts of claims
    Copies, Accounts,
    Proofs,
    Requests,
    None,
    MaxRule       \* bound on rule versions

\* What the instances assume of the constants.
RewardRuleAssumption == MaxRule \in Nat \ {0}

VARIABLES
    counter,   \* the desk: "customer" or "proofs"
    attempts,  \* [Facts -> customer_publish_attempts row or None]
    rules,     \* publish_reward_rules: [version -> trigger or None]
    subjects,  \* publish_reward_subjects: [Facts -> account or None]
    postings,  \* publish_reward_ledger
    proofs,    \* [Proofs -> publish_reward_proofs row or None]
    request    \* [Requests -> what a handler has read, or None]

rewardVars == <<counter, attempts, rules, subjects, postings, proofs, request>>

-----------------------------------------------------------------------------
(* Preparations *)

Texts == [copy : Copies, account : Accounts]

\* Preview: the publisher is the customer, copy and account are given; nothing is agreed.
prepared(text) == [text |-> text, status |-> "previewed", agreed |-> None, reported |-> FALSE]

Preview(f, text) ==
    /\ attempts[f] = None
    /\ attempts' = [attempts EXCEPT ![f] = prepared(text)]
    /\ UNCHANGED <<counter, rules, subjects, postings, proofs, request>>

\* availablePublishLink and publishAttempt: the link is open and the row its campaign's.
Hold(r, f, task) ==
    /\ request[r] = None /\ attempts[f] # None
    /\ request' = [request EXCEPT ![r] = task]

Answer(r) == request' = [request EXCEPT ![r] = None]

row(r)        == attempts[request[r].fact]
Doing(r, work) == request[r] # None /\ request[r].work = work

\* Any order of export and confirmation; both read the row before they write it.
ReadExport(r, f)  == Hold(r, f, [fact |-> f, work |-> "export"])
ReadReport(r, f)  == Hold(r, f, [fact |-> f, work |-> "report"])
\* Confirm: the text the customer saw is the row's, and the material is agreed to.
ReadConfirm(r, f) ==
    /\ attempts[f] # None
    /\ Hold(r, f, [fact |-> f, work |-> "confirm", text |-> attempts[f].text])

\* ChangeCopy, ChangeAccount: what is not sent stays as it was read.
revised(text, copy, account) ==
    [copy    |-> IF copy = None THEN text.copy ELSE copy,
     account |-> IF account = None THEN text.account ELSE account]

ReadRevise(r, f, copy, account) ==
    /\ attempts[f] # None /\ {copy, account} # {None}
    /\ Hold(r, f, [fact |-> f, work |-> "revise",
                   text |-> revised(attempts[f].text, copy, account)])

Read(r, f) ==
    /\ \/ ReadExport(r, f)
       \/ ReadReport(r, f)
       \/ ReadConfirm(r, f)
       \/ \E copy \in Copies \cup {None}, account \in Accounts \cup {None} :
              ReadRevise(r, f, copy, account)
    /\ UNCHANGED <<counter, attempts, rules, subjects, postings, proofs>>

\* Mutant: the consent is stored by id alone.
agreeById(current, text) == [current EXCEPT !.agreed = text]

\* The consent is stored only where the row still says what was read.
agree(current, text) ==
    IF current.text = text THEN [current EXCEPT !.agreed = text] ELSE current

\* A revision is stored by id, puts the row back to a preview and ends the consent.
rewrite(current, text) ==
    [current EXCEPT !.text = text, !.status = "previewed", !.agreed = None]

exported(current) == [current EXCEPT !.status = "exported"]

\* A customer's own word changes no status.
selfReported(current) == [current EXCEPT !.reported = TRUE]

written(r) ==
    CASE request[r].work = "export"  -> exported(row(r))
      [] request[r].work = "report"  -> selfReported(row(r))
      [] request[r].work = "confirm" -> agree(row(r), request[r].text)
      [] request[r].work = "revise"  -> rewrite(row(r), request[r].text)

Store(r) ==
    /\ request[r] # None /\ request[r].work \in {"export", "report", "confirm", "revise"}
    /\ attempts' = [attempts EXCEPT ![request[r].fact] = written(r)]
    /\ Answer(r)
    /\ UNCHANGED <<counter, rules, subjects, postings, proofs>>

-----------------------------------------------------------------------------
(* The rule of the campaign *)

Triggers == {"official", "participation"}
stored   == {v \in 1..MaxRule : rules[v] # None}
latest   == CHOOSE v \in stored : \A w \in stored : w <= v

\* currentRewardRule: without a stored version, the first one with the default trigger.
currentRule == IF stored = {} THEN [version |-> 1, trigger |-> "official"]
               ELSE [version |-> latest, trigger |-> rules[latest]]

\* ReviseTrigger: another trigger is another version, told to the customers.
ReviseTrigger(rule, trigger) == [version |-> rule.version + 1, trigger |-> trigger]

\* Mutant: the default is not a version, and what is stored first is the first one.
firstIsFirst(trigger) == IF stored = {} THEN [version |-> 1, trigger |-> trigger]
                         ELSE ReviseTrigger(currentRule, trigger)

\* What handlePublishRewardPut is to save; asking for the stored trigger saves nothing.
toSave(trigger) == IF stored = {} /\ trigger = currentRule.trigger THEN currentRule
                   ELSE ReviseTrigger(currentRule, trigger)

ReadRule(r, trigger) ==
    /\ request[r] = None
    /\ stored # {} => trigger # currentRule.trigger
    /\ toSave(trigger).version <= MaxRule
    /\ request' = [request EXCEPT ![r] = [work |-> "put", version |-> toSave(trigger).version,
                                          trigger |-> toSave(trigger).trigger]]
    /\ UNCHANGED <<counter, attempts, rules, subjects, postings, proofs>>

\* SavePublishRewardRule: a version that is taken refuses the row.
SaveRule(r) ==
    /\ Doing(r, "put")
    /\ rules' = [rules EXCEPT ![request[r].version] = IF @ = None THEN request[r].trigger ELSE @]
    /\ Answer(r)
    /\ UNCHANGED <<counter, attempts, subjects, postings, proofs>>

-----------------------------------------------------------------------------
(* Claims and proofs *)

\* FactFromPreparation.
kind(a) == IF a.reported THEN "self_report"
           ELSE IF a.status = "exported" THEN "export" ELSE "preview"

\* Consume: no preparation is an official publish or a participation, so each is refused
\* with the reason of its rule; Issue sends nothing whatever was decided.
Consume(rule, fact) == IF rule.trigger = "participation" THEN "participation_missing" ELSE fact

\* The account must be marketing_reward and deduct from nothing.
ReadClaim(r, f) ==
    /\ attempts[f] # None
    /\ Hold(r, f, [fact |-> f, work |-> "claim", subject |-> attempts[f].text.account,
                   kind |-> kind(attempts[f])])
    /\ UNCHANGED <<counter, attempts, rules, subjects, postings, proofs>>

\* The claim goes by the rule as it is now, and keeps its version.
ReadRuleOfClaim(r) ==
    /\ Doing(r, "claim")
    /\ request' = [request EXCEPT ![r] =
          [work |-> "freeze", fact |-> request[r].fact, subject |-> request[r].subject,
           kind |-> request[r].kind, version |-> currentRule.version,
           trigger |-> currentRule.trigger]]
    /\ UNCHANGED <<counter, attempts, rules, subjects, postings, proofs>>

\* FreezeRewardSubject: the first subject of a fact stays its subject.
frozen(f, subject) == IF subjects[f] = None THEN subject ELSE subjects[f]

Freeze(r) ==
    /\ Doing(r, "freeze")
    /\ LET c == request[r]
       IN  /\ subjects' = [subjects EXCEPT ![c.fact] = frozen(c.fact, c.subject)]
           /\ request' = [request EXCEPT ![r] =
                 [work |-> "post", fact |-> c.fact, subject |-> frozen(c.fact, c.subject),
                  version |-> c.version, reason |-> Consume(c, c.kind)]]
    /\ UNCHANGED <<counter, attempts, rules, postings, proofs>>

keyOf(p) == <<p.fact, p.subject, p.version>>

\* RecordRewardPosting: once per key; a replay gives the first reason and adds nothing.
Post(r) ==
    /\ Doing(r, "post")
    /\ LET p == [fact |-> request[r].fact, subject |-> request[r].subject,
                 version |-> request[r].version, reason |-> request[r].reason]
       IN  postings' = IF \E q \in postings : keyOf(q) = keyOf(p)
                       THEN postings ELSE postings \cup {p}
    /\ Answer(r)
    /\ UNCHANGED <<counter, attempts, rules, subjects, proofs>>

SubmitProof(p, f) ==
    /\ proofs[p] = None /\ attempts[f] # None
    /\ proofs' = [proofs EXCEPT ![p] = [fact |-> f, reviewer |-> None]]
    /\ UNCHANGED <<counter, attempts, rules, subjects, postings, request>>

\* The reviewer may review, and gives a basis.
ReadProof(r, p) ==
    /\ request[r] = None /\ proofs[p] # None
    /\ request' = [request EXCEPT ![r] = [work |-> "review", proof |-> p]]
    /\ UNCHANGED <<counter, attempts, rules, subjects, postings, proofs>>

\* Only a pending proof takes a review, whatever was read; it confirms no publish.
reviewed(p, r) == IF p.reviewer = None THEN [p EXCEPT !.reviewer = r] ELSE p

Review(r) ==
    /\ Doing(r, "review")
    /\ proofs' = [proofs EXCEPT ![request[r].proof] = reviewed(@, r)]
    /\ Answer(r)
    /\ UNCHANGED <<counter, attempts, rules, subjects, postings>>

-----------------------------------------------------------------------------

RewardInit ==
    /\ counter \in {"customer", "proofs"}
    /\ attempts = [f \in Facts |-> None]
    /\ rules = [v \in 1..MaxRule |-> None]
    /\ subjects = [f \in Facts |-> None]
    /\ postings = {}
    /\ proofs = [p \in Proofs |-> None]
    /\ request = [r \in Requests |-> None]

handlePublicPublishPreview == \E f \in Facts, text \in Texts : Preview(f, text)
handlePublicRewardProof    == \E p \in Proofs, f \in Facts : SubmitProof(p, f)

CustomerStep ==
    \/ handlePublicPublishPreview
    \/ \E r \in Requests, f \in Facts : Read(r, f) \/ ReadClaim(r, f)
    \/ \E r \in Requests : Store(r) \/ SaveRule(r) \/ ReadRuleOfClaim(r) \/ Freeze(r) \/ Post(r)
    \/ \E r \in Requests, t \in Triggers : ReadRule(r, t)

ProofStep ==
    \/ handlePublicPublishPreview \/ handlePublicRewardProof
    \/ \E r \in Requests : Review(r) \/ \E p \in Proofs : ReadProof(r, p)

RewardNext == \/ counter = "customer" /\ CustomerStep
              \/ counter = "proofs" /\ ProofStep

RewardSpec == RewardInit /\ [][RewardNext]_rewardVars

-----------------------------------------------------------------------------
(* Properties *)

Preparation == [text : Texts, status : {"previewed", "exported"},
                agreed : Texts \cup {None}, reported : BOOLEAN]
Posting == [fact : Facts, subject : Accounts, version : 1..MaxRule,
            reason : {"participation_missing", "self_report", "export", "preview"}]

\* Every row is well formed.
RewardTypeOK ==
    /\ attempts \in [Facts -> Preparation \cup {None}]
    /\ rules \in [1..MaxRule -> Triggers \cup {None}]
    /\ subjects \in [Facts -> Accounts \cup {None}]
    /\ postings \subseteq Posting

\* A consent is for the copy and the account the row shows, whatever revisions and
\* confirmations overlapped: "the customer must confirm the new copy".
ConsentIsForWhatIsShown ==
    \A f \in Facts : attempts[f] # None /\ attempts[f].agreed # None
                        => attempts[f].agreed = attempts[f].text

\* However often a preparation is claimed, under whichever account label and rule
\* version, its postings name one subject.
OneSubjectPerFact == \A p, q \in postings : p.fact = q.fact => p.subject = q.subject

\* A posting's version says which rule refused it, although the rule is read before the
\* posting is made, merchants revise it meanwhile, two of them at once, and the first
\* version is a default that may never be stored.
VersionIsOneRule ==
    \A p \in postings :
        (p.reason = "participation_missing") <=> (rules[p.version] = "participation")

\* The first review of a proof stands.
FirstReviewStands ==
    [][\A p \in Proofs : proofs[p] # None /\ proofs[p].reviewer # None
                            => proofs'[p] = proofs[p]]_proofs

=============================================================================

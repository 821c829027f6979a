----------------------------- MODULE PublicProofs -----------------------------
(***************************************************************************)
(* What customers reach, proved for every value of the constants: the      *)
(* touchpoints, jumps, the lead form, and publishing with its reward.  The *)
(* components share no state, so the invariant of one is over its own      *)
(* variables, and a behaviour takes the steps of one alone (StepsOf).      *)
(*                                                                         *)
(* A handler reads a row and writes it later: what the proofs need beside  *)
(* the properties is what a request still knows of the tables when it      *)
(* writes (Knows), and it knows it because the tables it relies on only    *)
(* grow (RewardGrows): a preparation stays, the first subject of a fact    *)
(* stays its subject, a stored rule version stays the rule it is.          *)
(***************************************************************************)
EXTENDS Public, TLAPS, WellFoundedInduction, SequenceTheorems, FiniteSetTheorems

-----------------------------------------------------------------------------
(* A behaviour keeps to its component *)

\* A step is one of the component in focus, or it changes none of its variables.
LEMMA StepsOf ==
    ASSUME [Next]_allVars
    PROVE  /\ focus' = focus
           /\ focus = "touchpoints" => [T!TouchNext]_T!touchVars
           /\ focus = "jumps" => [J!JumpsNext]_J!jumpVars
           /\ focus = "leads" => [L!IntakeNext]_L!intakeVars
           /\ focus = "reward" => [R!RewardNext]_R!rewardVars
<1>1. CASE UNCHANGED allVars
  BY <1>1 DEF allVars, touch, jumps, intake, reward, T!touchVars, J!jumpVars, L!intakeVars,
     R!rewardVars
<1>2. CASE Next
  BY <1>2 DEF Next, TouchpointStep, JumpStep, LeadStep, RewardStep
<1> QED  BY <1>1, <1>2

-----------------------------------------------------------------------------
(* Publishing and its reward: what a request holds *)

Refusals == {"self_report", "export", "preview"}

Exporting == [work : {"export", "report"}, fact : Facts]
Wording   == [work : {"confirm", "revise"}, fact : Facts, text : R!Texts]
Putting   == [work : {"put"}, version : 1..MaxRule, trigger : R!Triggers]
Claiming  == [work : {"claim"}, fact : Facts, subject : Accounts, kind : Refusals]
Freezing  == [work : {"freeze"}, fact : Facts, subject : Accounts, kind : Refusals,
              version : 1..MaxRule, trigger : R!Triggers]
Posts     == [work : {"post"}, fact : Facts, subject : Accounts, version : 1..MaxRule,
              reason : Refusals \cup {"participation_missing"}]
Reviewing == [work : {"review"}, proof : Proofs]
RewardTask == Exporting \cup Wording \cup Putting \cup Claiming \cup Freezing \cup Posts
                  \cup Reviewing

Proof == [fact : Facts, reviewer : Requests \cup {None}]

\* What the theorems assume of the marker for no row.
NoneIsNoRow ==
    /\ None \notin R!Preparation /\ None \notin Proof
    /\ None \notin Accounts /\ None \notin R!Triggers

-----------------------------------------------------------------------------

RewardTyped ==
    /\ R!RewardTypeOK
    /\ proofs \in [Proofs -> Proof \cup {None}]
    /\ request \in [Requests -> RewardTask \cup {None}]

\* The default rule is the official one: no stored first version says otherwise.
FirstIsOfficial == rules[1] # "participation"

\* A refusal is that of the rule its version names; the first version may be meant
\* before it is stored.
OfItsRule(version, reason) ==
    /\ rules[version] # None \/ version = 1
    /\ (reason = "participation_missing") <=> (rules[version] = "participation")

\* What a request knows between the row it read and the row it writes.
Knows(task) ==
    /\ task \in Exporting \cup Wording \cup Claiming => attempts[task.fact] # None
    /\ task \in Putting => (task.version = 1 => task.trigger = "official")
    /\ task \in Freezing => OfItsRule(task.version, R!Consume(task, task.kind))
    /\ task \in Posts => /\ subjects[task.fact] = task.subject
                         /\ OfItsRule(task.version, task.reason)
    /\ task \in Reviewing => proofs[task.proof] # None

AllKnow == \A r \in Requests : request[r] # None => Knows(request[r])

Booked(p) == subjects[p.fact] = p.subject /\ OfItsRule(p.version, p.reason)

RewardInv ==
    /\ RewardTyped
    /\ FirstIsOfficial
    /\ AllKnow
    /\ \A p \in postings : Booked(p)
    /\ R!ConsentIsForWhatIsShown

\* Preparations, proofs, subjects and rule versions are never taken back.
RewardGrows ==
    /\ \A f \in Facts : attempts[f] # None => attempts'[f] # None
    /\ \A p \in Proofs : proofs[p] # None => proofs'[p] # None
    /\ \A f \in Facts : subjects[f] # None => subjects'[f] = subjects[f]
    /\ \A v \in 1..MaxRule : rules[v] # None => rules'[v] = rules[v]
    /\ FirstIsOfficial'

-----------------------------------------------------------------------------

\* A request's work tells which kind of task it holds.
LEMMA KindOf ==
    ASSUME NEW h \in RewardTask
    PROVE  /\ h.work \in {"export", "report"} => h \in Exporting
           /\ h.work \in {"confirm", "revise"} => h \in Wording
           /\ h.work = "put" => h \in Putting
           /\ h.work = "claim" => h \in Claiming
           /\ h.work = "freeze" => h \in Freezing
           /\ h.work = "post" => h \in Posts
           /\ h.work = "review" => h \in Reviewing
           /\ h \in Exporting => h.work \in {"export", "report"}
           /\ h \in Wording => h.work \in {"confirm", "revise"}
           /\ h \in Putting => h.work = "put"
           /\ h \in Claiming => h.work = "claim"
           /\ h \in Freezing => h.work = "freeze"
           /\ h \in Posts => h.work = "post"
           /\ h \in Reviewing => h.work = "review"
BY DEF RewardTask, Exporting, Wording, Putting, Claiming, Freezing, Posts, Reviewing

\* A refusal stays that of its rule.
LEMMA OfItsRuleStays ==
    ASSUME NoneIsNoRow, FirstIsOfficial, RewardGrows, NEW v \in 1..MaxRule, NEW reason,
           OfItsRule(v, reason)
    PROVE  OfItsRule(v, reason)'
BY DEF OfItsRule, RewardGrows, FirstIsOfficial, NoneIsNoRow, R!Triggers

\* What a request knows stays true while others write.
LEMMA SoundStays ==
    ASSUME NoneIsNoRow, FirstIsOfficial, RewardGrows, NEW h \in RewardTask, Knows(h)
    PROVE  Knows(h)'
<1>1. h \in Exporting \cup Wording \cup Claiming => attempts'[h.fact] # None
  BY DEF Knows, RewardGrows, Exporting, Wording, Claiming
<1>2. h \in Putting => (h.version = 1 => h.trigger = "official")
  BY DEF Knows
<1>3. h \in Posts => subjects'[h.fact] = h.subject /\ OfItsRule(h.version, h.reason)'
  <2> SUFFICES ASSUME h \in Posts
               PROVE  subjects'[h.fact] = h.subject /\ OfItsRule(h.version, h.reason)'
    OBVIOUS
  <2>1. h.fact \in Facts /\ h.subject \in Accounts /\ h.version \in 1..MaxRule
    BY DEF Posts
  <2>2. subjects[h.fact] = h.subject /\ OfItsRule(h.version, h.reason)
    BY DEF Knows
  <2>3. subjects'[h.fact] = h.subject
    BY <2>1, <2>2 DEF RewardGrows, NoneIsNoRow
  <2>4. PICK v : v = h.version
    OBVIOUS
  <2>5. PICK reason : reason = h.reason
    OBVIOUS
  <2>6. OfItsRule(v, reason)'
    BY <2>1, <2>2, <2>4, <2>5, OfItsRuleStays
  <2> QED  BY <2>3, <2>4, <2>5, <2>6
<1>4. h \in Reviewing => proofs'[h.proof] # None
  BY DEF Knows, RewardGrows, Reviewing
<1>5. h \in Freezing => OfItsRule(h.version, R!Consume(h, h.kind))'
  <2> SUFFICES ASSUME h \in Freezing
               PROVE  OfItsRule(h.version, R!Consume(h, h.kind))'
    OBVIOUS
  <2>1. PICK v : v = h.version
    OBVIOUS
  <2>2. PICK reason : reason = R!Consume(h, h.kind)
    OBVIOUS
  <2>3. v \in 1..MaxRule /\ OfItsRule(v, reason)
    BY <2>1, <2>2 DEF Knows, Freezing
  <2>4. OfItsRule(v, reason)'
    BY <2>3, OfItsRuleStays
  <2> QED  BY <2>1, <2>2, <2>4 DEF R!Consume
<1> QED
  BY <1>1, <1>2, <1>3, <1>4, <1>5 DEF R!Consume, Knows, Exporting, Wording, Putting,
     Claiming, Freezing, Posts, Reviewing

\* So do postings.
LEMMA BookedStays ==
    ASSUME NoneIsNoRow, FirstIsOfficial, RewardGrows, NEW p \in R!Posting, Booked(p)
    PROVE  Booked(p)'
<1>1. p.fact \in Facts /\ p.subject \in Accounts /\ p.version \in 1..MaxRule
  BY DEF R!Posting
<1>2. subjects[p.fact] = p.subject /\ OfItsRule(p.version, p.reason)
  BY DEF Booked
<1>3. subjects'[p.fact] = p.subject
  BY <1>1, <1>2 DEF RewardGrows, NoneIsNoRow
<1>4. OfItsRule(p.version, p.reason)'
  BY <1>1, <1>2, OfItsRuleStays
<1> QED  BY <1>3, <1>4 DEF Booked

\* A non-empty set of versions has a latest one.
LEMMA Latest ==
    ASSUME R!RewardRuleAssumption, R!stored # {}
    PROVE  R!latest \in R!stored /\ R!latest \in 1..MaxRule
<1>1. R!stored \subseteq 1..MaxRule /\ MaxRule \in Nat
  BY DEF R!stored, R!RewardRuleAssumption
<1>2. PICK Ds : Ds = {MaxRule - v : v \in R!stored}
  OBVIOUS
<1>3. Ds \subseteq Nat /\ Ds # {}
  <2>1. ASSUME NEW v \in R!stored PROVE MaxRule - v \in Nat
    BY <1>1
  <2> QED  BY <1>2, <2>1
<1>4. PICK m \in Ds : \A d \in Ds : ~ (<<d, m>> \in OpToRel(<, Nat))
  BY <1>3, NatLessThanWellFounded, WFMin
<1>5. PICK v \in R!stored : m = MaxRule - v
  BY <1>2, <1>4
<1>6. \A d \in Ds : ~ (d < m)
  BY <1>3, <1>4 DEF OpToRel
<1>7. \A w \in R!stored : w <= v
  <2> SUFFICES ASSUME NEW w \in R!stored PROVE w <= v
    OBVIOUS
  <2>1. MaxRule - w \in Ds
    BY <1>2
  <2>2. ~ (MaxRule - w < MaxRule - v)
    BY <1>5, <1>6, <2>1
  <2> QED  BY <1>1, <2>2
<1>8. R!latest \in R!stored
  BY <1>7 DEF R!latest
<1> QED  BY <1>1, <1>8

\* The rule in force names a version there may be, and is that version's rule.
LEMMA InForce ==
    ASSUME R!RewardRuleAssumption, NoneIsNoRow, RewardTyped, FirstIsOfficial
    PROVE  /\ R!currentRule.version \in 1..MaxRule /\ R!currentRule.trigger \in R!Triggers
           /\ rules[R!currentRule.version] # None \/ R!currentRule.version = 1
           /\ (R!currentRule.trigger = "participation") <=>
                 (rules[R!currentRule.version] = "participation")
<1>1. CASE R!stored = {}
  <2>1. R!currentRule = [version |-> 1, trigger |-> "official"]
    BY <1>1 DEF R!currentRule
  <2> QED  BY <2>1 DEF FirstIsOfficial, R!RewardRuleAssumption, R!Triggers
<1>2. CASE R!stored # {}
  <2>1. R!currentRule = [version |-> R!latest, trigger |-> rules[R!latest]]
    BY <1>2 DEF R!currentRule
  <2>2. R!latest \in 1..MaxRule /\ rules[R!latest] # None
    BY <1>2, Latest DEF R!stored
  <2> QED  BY <2>1, <2>2 DEF RewardTyped, R!RewardTypeOK
<1> QED  BY <1>1, <1>2

\* Only one request moves, and it knows what it holds: then all requests do.
LEMMA OneMoves ==
    ASSUME NoneIsNoRow, RewardInv, RewardGrows, NEW r \in Requests, NEW h \in RewardTask \cup {None},
           request' = [request EXCEPT ![r] = h], h # None => Knows(h)'
    PROVE  request' \in [Requests -> RewardTask \cup {None}] /\ AllKnow'
<1>1. request \in [Requests -> RewardTask \cup {None}]
  BY DEF RewardInv, RewardTyped
<1>2. request' \in [Requests -> RewardTask \cup {None}]
  BY <1>1
<1>3. ASSUME NEW q \in Requests, NEW g, g = request'[q], g # None PROVE Knows(g)'
  <2>1. CASE q = r
    BY <1>1, <1>3, <2>1
  <2>2. CASE q # r
    <3>1. g = request[q] /\ g \in RewardTask
      BY <1>1, <1>3, <2>2
    <3>2. Knows(g) /\ FirstIsOfficial
      BY <1>3, <3>1 DEF RewardInv, AllKnow
    <3> QED  BY <3>1, <3>2, SoundStays
  <2> QED  BY <2>1, <2>2
<1>4. AllKnow'
  <2> SUFFICES ASSUME NEW q \in Requests', (request[q] # None)' PROVE (Knows(request[q]))'
    BY DEF AllKnow
  <2>1. PICK g : g = request'[q]
    OBVIOUS
  <2>2. Knows(g)'
    BY <1>3, <2>1
  <2> QED
    BY <2>1, <2>2 DEF Knows, OfItsRule, Exporting, Wording, Putting, Claiming, Freezing,
       Posts, Reviewing
<1> QED  BY <1>2, <1>4

\* No request moves: what they know stays true.
LEMMA NoneMoves ==
    ASSUME NoneIsNoRow, RewardInv, RewardGrows, request' = request
    PROVE  request' \in [Requests -> RewardTask \cup {None}] /\ AllKnow'
<1>1. request' \in [Requests -> RewardTask \cup {None}]
  BY DEF RewardInv, RewardTyped
<1>2. CASE Requests = {}
  BY <1>1, <1>2 DEF AllKnow
<1>3. CASE Requests # {}
  <2>1. PICK r \in Requests : TRUE
    BY <1>3
  <2>2. PICK h : h = request[r]
    OBVIOUS
  <2>3. h \in RewardTask \cup {None} /\ request' = [request EXCEPT ![r] = h]
    BY <2>1, <2>2 DEF RewardInv, RewardTyped
  <2>4. h # None => Knows(h)'
    <3> SUFFICES ASSUME h # None PROVE Knows(h)'
      OBVIOUS
    <3>1. Knows(h) /\ FirstIsOfficial /\ h \in RewardTask
      BY <2>1, <2>2, <2>3 DEF RewardInv, AllKnow
    <3> QED  BY <3>1, SoundStays
  <2> QED  BY <2>1, <2>3, <2>4, OneMoves
<1> QED  BY <1>2, <1>3

\* Where nothing is posted, the postings stay as justified as they were.
LEMMA BooksStay ==
    ASSUME NoneIsNoRow, RewardInv, RewardGrows, NEW p \in postings
    PROVE  Booked(p)'
BY BookedStays DEF RewardInv, RewardTyped, R!RewardTypeOK

\* Where no row of preparations, subjects and rules is written, nothing is lost.
LEMMA NothingLost ==
    ASSUME FirstIsOfficial, UNCHANGED <<attempts, subjects, rules>>,
           \A p \in Proofs : proofs[p] # None => proofs'[p] # None
    PROVE  RewardGrows
BY DEF RewardGrows, FirstIsOfficial

\* A request that only reads: it learns something and writes nothing.
LEMMA ReadingStep ==
    ASSUME NoneIsNoRow, RewardInv, NEW r \in Requests, NEW h \in RewardTask, Knows(h),
           request' = [request EXCEPT ![r] = h],
           UNCHANGED <<counter, attempts, rules, subjects, postings, proofs>>
    PROVE  RewardInv'
<1>1. RewardGrows /\ FirstIsOfficial'
  BY NothingLost DEF RewardInv, FirstIsOfficial
<1>2. Knows(h)'
  BY <1>1, SoundStays DEF RewardInv
<1>3. request' \in [Requests -> RewardTask \cup {None}] /\ AllKnow'
  BY <1>1, <1>2, OneMoves
<1>4. \A p \in postings' : Booked(p)'
  BY <1>1, BooksStay
<1>5. RewardTyped'
  BY <1>3 DEF RewardInv, RewardTyped, R!RewardTypeOK, RewardTask, Exporting,
     Wording, Putting,
     Claiming, Freezing, Posts, Reviewing, Proof
<1> QED  BY <1>1, <1>3, <1>4, <1>5 DEF RewardInv, R!ConsentIsForWhatIsShown

\* A preparation's row is written, well formed and agreed to as it is shown, by
\* nobody or by a request that is then done.
LEMMA PreparationStep ==
    ASSUME NoneIsNoRow, RewardInv, NEW f \in Facts, NEW new \in R!Preparation,
           new.agreed # None => new.agreed = new.text,
           attempts' = [attempts EXCEPT ![f] = new],
           \/ request' = request
           \/ \E r \in Requests : request' = [request EXCEPT ![r] = None],
           UNCHANGED <<counter, rules, subjects, postings, proofs>>
    PROVE  RewardInv'
<1>1. attempts \in [Facts -> R!Preparation \cup {None}]
  BY DEF RewardInv, RewardTyped, R!RewardTypeOK
<1>2. RewardGrows /\ FirstIsOfficial'
  BY <1>1 DEF RewardGrows, RewardInv, FirstIsOfficial, NoneIsNoRow
<1>3. request' \in [Requests -> RewardTask \cup {None}] /\ AllKnow'
  BY <1>2, NoneMoves, OneMoves
<1>4. \A p \in postings' : Booked(p)'
  BY <1>2, BooksStay
<1>5. RewardTyped'
  BY <1>1, <1>3 DEF RewardInv, RewardTyped, R!RewardTypeOK, RewardTask,
     Exporting, Wording, Putting,
     Claiming, Freezing, Posts, Reviewing, Proof
<1>6. R!ConsentIsForWhatIsShown'
  BY <1>1 DEF RewardInv, R!ConsentIsForWhatIsShown
<1> QED  BY <1>2, <1>3, <1>4, <1>5, <1>6 DEF RewardInv

\* Initially there is nothing.
LEMMA RewardInitInv ==
    ASSUME R!RewardRuleAssumption, R!RewardInit, NoneIsNoRow
    PROVE  RewardInv
<1>1. /\ rules = [v \in 1..MaxRule |-> None] /\ 1 \in 1..MaxRule
      /\ "participation" \in R!Triggers
  BY DEF R!RewardInit, R!RewardRuleAssumption, R!Triggers
<1>2. FirstIsOfficial
  BY <1>1 DEF FirstIsOfficial, NoneIsNoRow
<1>3. RewardTyped
  BY <1>1 DEF R!RewardInit, RewardTyped, R!RewardTypeOK
<1>4. AllKnow /\ postings = {} /\ \A f \in Facts : attempts[f] = None
  BY DEF R!RewardInit, AllKnow
<1> QED  BY <1>2, <1>3, <1>4 DEF RewardInv, R!ConsentIsForWhatIsShown

-----------------------------------------------------------------------------

\* The customer's desk: previews, revisions and confirmations in any order.
LEMMA PublishingStep ==
    ASSUME NoneIsNoRow, RewardInv,
           \/ R!handlePublicPublishPreview
           \/ \E r \in Requests, f \in Facts : R!Read(r, f)
           \/ \E r \in Requests : R!Store(r)
    PROVE  RewardInv'
<1>0. /\ attempts \in [Facts -> R!Preparation \cup {None}]
      /\ request \in [Requests -> RewardTask \cup {None}]
  BY DEF RewardInv, RewardTyped, R!RewardTypeOK
<1>1. ASSUME NEW f \in Facts, NEW text \in R!Texts, R!Preview(f, text) PROVE RewardInv'
  <2>1. PICK new : new = R!prepared(text)
    OBVIOUS
  <2>2. new \in R!Preparation /\ new.agreed = None
    BY <2>1 DEF R!prepared, R!Preparation
  <2> QED  BY <1>1, <2>1, <2>2, PreparationStep DEF R!Preview
<1>2. ASSUME NEW r \in Requests, NEW f \in Facts, NEW h \in Exporting \cup Wording,
             h.fact = f, attempts[f] # None, request' = [request EXCEPT ![r] = h],
             UNCHANGED <<counter, attempts, rules, subjects, postings, proofs>>
      PROVE  RewardInv'
  <2>1. h \in RewardTask /\ h \notin Putting /\ h \notin Freezing /\ h \notin Posts /\ h \notin Reviewing
    BY <1>2 DEF RewardTask, Exporting, Wording, Putting, Freezing, Posts, Reviewing
  <2>2. Knows(h)
    BY <1>2, <2>1 DEF Knows
  <2> QED  BY <1>2, <2>1, <2>2, ReadingStep
<1>3. ASSUME NEW r \in Requests, NEW f \in Facts, R!Read(r, f) PROVE RewardInv'
  <2>0. UNCHANGED <<counter, attempts, rules, subjects, postings, proofs>>
    BY <1>3 DEF R!Read
  <2>1. CASE R!ReadExport(r, f)
    <3>1. PICK h : h = [fact |-> f, work |-> "export"]
      OBVIOUS
    <3>2. h \in Exporting \cup Wording /\ h.fact = f
      BY <3>1 DEF Exporting
    <3> QED  BY <1>2, <2>0, <2>1, <3>1, <3>2 DEF R!ReadExport, R!Hold
  <2>2. CASE R!ReadReport(r, f)
    <3>1. PICK h : h = [fact |-> f, work |-> "report"]
      OBVIOUS
    <3>2. h \in Exporting \cup Wording /\ h.fact = f
      BY <3>1 DEF Exporting
    <3> QED  BY <1>2, <2>0, <2>2, <3>1, <3>2 DEF R!ReadReport, R!Hold
  <2>3. CASE R!ReadConfirm(r, f)
    <3>1. PICK h : h = [fact |-> f, work |-> "confirm", text |-> attempts[f].text]
      OBVIOUS
    <3>2. attempts[f] \in R!Preparation
      BY <1>0, <2>3 DEF R!ReadConfirm
    <3>3. h \in Exporting \cup Wording /\ h.fact = f
      BY <3>1, <3>2 DEF Wording, R!Preparation
    <3> QED  BY <1>2, <2>0, <2>3, <3>1, <3>3 DEF R!ReadConfirm, R!Hold
  <2>4. ASSUME NEW copy \in Copies \cup {None}, NEW account \in Accounts \cup {None},
               R!ReadRevise(r, f, copy, account)
        PROVE  RewardInv'
    <3>1. PICK text : text = R!revised(attempts[f].text, copy, account)
      OBVIOUS
    <3>2. PICK h : h = [fact |-> f, work |-> "revise", text |-> text]
      OBVIOUS
    <3>3. attempts[f] \in R!Preparation
      BY <1>0, <2>4 DEF R!ReadRevise
    <3>4. text \in R!Texts
      BY <3>1, <3>3 DEF R!revised, R!Texts, R!Preparation
    <3>5. h \in Exporting \cup Wording /\ h.fact = f
      BY <3>2, <3>4 DEF Wording
    <3> QED  BY <1>2, <2>0, <2>4, <3>1, <3>2, <3>5 DEF R!ReadRevise, R!Hold
  <2> QED  BY <1>3, <2>1, <2>2, <2>3, <2>4 DEF R!Read
<1>4. ASSUME NEW r \in Requests, R!Store(r) PROVE RewardInv'
  <2>1. PICK k : k = request[r]
    OBVIOUS
  <2>2. k # None /\ k.work \in {"export", "report", "confirm", "revise"}
    BY <1>4, <2>1 DEF R!Store
  <2>3. k \in RewardTask /\ Knows(k)
    BY <1>0, <2>1, <2>2 DEF RewardInv, AllKnow
  <2>4. k \in Exporting \cup Wording
    BY <2>2, <2>3, KindOf
  <2>5. PICK old : old = attempts[k.fact]
    OBVIOUS
  <2>6. k.fact \in Facts /\ old \in R!Preparation
    BY <1>0, <2>3, <2>4, <2>5 DEF Knows, Exporting, Wording
  <2>7. old.agreed # None => old.agreed = old.text
    BY <2>3, <2>4, <2>5, <2>6 DEF RewardInv, R!ConsentIsForWhatIsShown, Knows
  <2>8. PICK new : new = R!written(r)
    OBVIOUS
  <2>9. new \in R!Preparation /\ (new.agreed # None => new.agreed = new.text)
    <3>1. CASE k.work = "export"
      <4>1. new = [old EXCEPT !.status = "exported"]
        BY <2>1, <2>5, <2>8, <3>1 DEF R!written, R!exported, R!row
      <4> QED  BY <2>6, <2>7, <4>1 DEF R!Preparation
    <3>2. CASE k.work = "report"
      <4>1. new = [old EXCEPT !.reported = TRUE]
        BY <2>1, <2>5, <2>8, <3>2 DEF R!written, R!selfReported, R!row
      <4> QED  BY <2>6, <2>7, <4>1 DEF R!Preparation
    <3>3. CASE k.work \in {"confirm", "revise"}
      <4>1. k.text \in R!Texts
        BY <2>3, <3>3, KindOf DEF Wording
      <4>2. CASE k.work = "confirm"
        <5>1. new = IF old.text = k.text THEN [old EXCEPT !.agreed = k.text] ELSE old
          BY <2>1, <2>5, <2>8, <4>2 DEF R!written, R!agree, R!row
        <5> QED  BY <2>6, <2>7, <4>1, <5>1 DEF R!Preparation
      <4>3. CASE k.work = "revise"
        <5>1. new = [old EXCEPT !.text = k.text, !.status = "previewed", !.agreed = None]
          BY <2>1, <2>5, <2>8, <4>3 DEF R!written, R!rewrite, R!row
        <5> QED  BY <2>6, <4>1, <5>1 DEF R!Preparation
      <4> QED  BY <3>3, <4>2, <4>3
    <3> QED  BY <2>2, <3>1, <3>2, <3>3
  <2> QED  BY <1>4, <2>1, <2>6, <2>8, <2>9, PreparationStep DEF R!Store, R!Answer
<1> QED  BY <1>1, <1>3, <1>4 DEF R!handlePublicPublishPreview

\* What a merchant is to save is a version there may be; the first one is official.
LEMMA SavingTyped ==
    ASSUME R!RewardRuleAssumption, NoneIsNoRow, RewardTyped, FirstIsOfficial,
           NEW trigger \in R!Triggers, R!toSave(trigger).version <= MaxRule
    PROVE  /\ R!toSave(trigger).version \in 1..MaxRule /\ R!toSave(trigger).trigger \in R!Triggers
           /\ R!toSave(trigger).version = 1 => R!toSave(trigger).trigger = "official"
<1>1. R!currentRule.version \in 1..MaxRule /\ R!currentRule.trigger \in R!Triggers
  BY InForce
<1>2. CASE R!stored = {} /\ trigger = R!currentRule.trigger
  <2>1. R!toSave(trigger) = [version |-> 1, trigger |-> "official"]
    BY <1>2 DEF R!toSave, R!currentRule
  <2> QED  BY <2>1 DEF R!RewardRuleAssumption, R!Triggers
<1>3. CASE ~ (R!stored = {} /\ trigger = R!currentRule.trigger)
  <2>1. R!toSave(trigger) = [version |-> R!currentRule.version + 1, trigger |-> trigger]
    BY <1>3 DEF R!toSave, R!ReviseTrigger
  <2> QED  BY <1>1, <2>1 DEF R!RewardRuleAssumption
<1> QED  BY <1>2, <1>3

\* The rule of the campaign: a version is saved once, whoever else saves it.
LEMMA RuleStep ==
    ASSUME R!RewardRuleAssumption, NoneIsNoRow, RewardInv,
           \/ \E r \in Requests, t \in R!Triggers : R!ReadRule(r, t)
           \/ \E r \in Requests : R!SaveRule(r)
    PROVE  RewardInv'
<1>0. /\ rules \in [1..MaxRule -> R!Triggers \cup {None}]
      /\ request \in [Requests -> RewardTask \cup {None}]
  BY DEF RewardInv, RewardTyped, R!RewardTypeOK
<1>1. ASSUME NEW r \in Requests, NEW t \in R!Triggers, R!ReadRule(r, t) PROVE RewardInv'
  <2>1. PICK saved : saved = R!toSave(t)
    OBVIOUS
  <2>2. PICK h : h = [work |-> "put", version |-> saved.version, trigger |-> saved.trigger]
    OBVIOUS
  <2>3. /\ request' = [request EXCEPT ![r] = h]
        /\ UNCHANGED <<counter, attempts, rules, subjects, postings, proofs>>
    BY <1>1, <2>1, <2>2 DEF R!ReadRule
  <2>4. /\ saved.version \in 1..MaxRule /\ saved.trigger \in R!Triggers
        /\ saved.version = 1 => saved.trigger = "official"
    BY <1>1, <2>1, SavingTyped DEF R!ReadRule, RewardInv
  <2>5. h \in Putting /\ (h.version = 1 => h.trigger = "official")
    BY <2>2, <2>4 DEF Putting
  <2>6. /\ h \in RewardTask /\ h \notin Exporting /\ h \notin Wording
        /\ h \notin Claiming /\ h \notin Freezing /\ h \notin Posts /\ h \notin Reviewing
    BY <2>5 DEF RewardTask, Putting, Exporting, Wording, Claiming, Freezing, Posts, Reviewing
  <2>7. Knows(h)
    BY <2>5, <2>6 DEF Knows
  <2> QED  BY <2>3, <2>6, <2>7, ReadingStep
<1>2. ASSUME NEW r \in Requests, R!SaveRule(r) PROVE RewardInv'
  <2>1. PICK k : k = request[r]
    OBVIOUS
  <2>2. k # None /\ k.work = "put"
    BY <1>2, <2>1 DEF R!SaveRule, R!Doing
  <2>3. k \in RewardTask /\ Knows(k)
    BY <1>0, <2>1, <2>2 DEF RewardInv, AllKnow
  <2>4. k \in Putting /\ k.version \in 1..MaxRule /\ k.trigger \in R!Triggers
    BY <2>2, <2>3, KindOf DEF Putting
  <2>5. /\ rules' = [rules EXCEPT ![k.version] = IF rules[k.version] = None THEN k.trigger
                                                 ELSE rules[k.version]]
        /\ request' = [request EXCEPT ![r] = None]
        /\ UNCHANGED <<counter, attempts, subjects, postings, proofs>>
    BY <1>0, <1>2, <2>1, <2>4 DEF R!SaveRule, R!Answer
  <2>6. rules' \in [1..MaxRule -> R!Triggers \cup {None}]
    BY <1>0, <2>4, <2>5
  <2>7. FirstIsOfficial'
    BY <1>0, <2>3, <2>4, <2>5 DEF FirstIsOfficial, RewardInv, Knows
  <2>8. RewardGrows
    BY <1>0, <2>4, <2>5, <2>7 DEF RewardGrows
  <2>9. request' \in [Requests -> RewardTask \cup {None}] /\ AllKnow'
    BY <2>5, <2>8, OneMoves
  <2>10. \A p \in postings' : Booked(p)'
    BY <2>5, <2>8, BooksStay
  <2>11. RewardTyped'
    BY <2>5, <2>6, <2>9 DEF RewardInv, RewardTyped, R!RewardTypeOK, RewardTask,
       Exporting, Wording,
       Putting, Claiming, Freezing, Posts, Reviewing, Proof
  <2> QED
    BY <2>5, <2>7, <2>9, <2>10, <2>11 DEF RewardInv, R!ConsentIsForWhatIsShown
<1> QED  BY <1>1, <1>2

\* Claims: the rule is read, then the subject frozen, then the posting made.
LEMMA ClaimStep ==
    ASSUME R!RewardRuleAssumption, NoneIsNoRow, RewardInv,
           \/ \E r \in Requests, f \in Facts : R!ReadClaim(r, f)
           \/ \E r \in Requests : R!ReadRuleOfClaim(r) \/ R!Freeze(r) \/ R!Post(r)
    PROVE  RewardInv'
<1>0. /\ attempts \in [Facts -> R!Preparation \cup {None}] /\ postings \subseteq R!Posting
      /\ subjects \in [Facts -> Accounts \cup {None}]
      /\ request \in [Requests -> RewardTask \cup {None}]
  BY DEF RewardInv, RewardTyped, R!RewardTypeOK
<1>1. ASSUME NEW r \in Requests, NEW f \in Facts, R!ReadClaim(r, f) PROVE RewardInv'
  <2>1. attempts[f] # None /\ attempts[f] \in R!Preparation
    BY <1>0, <1>1 DEF R!ReadClaim
  <2>2. PICK h : h = [fact |-> f, work |-> "claim", subject |-> attempts[f].text.account,
                      kind |-> R!kind(attempts[f])]
    OBVIOUS
  <2>3. R!kind(attempts[f]) \in Refusals
    BY DEF R!kind, Refusals
  <2>4. h \in Claiming /\ h.fact = f
    BY <2>1, <2>2, <2>3 DEF Claiming, R!Preparation, R!Texts
  <2>5. h \in RewardTask /\ h \notin Putting /\ h \notin Freezing /\ h \notin Posts /\ h \notin Reviewing
    BY <2>4 DEF RewardTask, Claiming, Freezing, Putting, Posts, Reviewing
  <2>6. Knows(h)
    BY <2>1, <2>4, <2>5 DEF Knows
  <2> QED  BY <1>1, <2>2, <2>5, <2>6, ReadingStep DEF R!ReadClaim, R!Hold
<1>a. ASSUME NEW r \in Requests, R!ReadRuleOfClaim(r) PROVE RewardInv'
  <2>1. PICK c : c = request[r]
    OBVIOUS
  <2>2. c # None /\ c.work = "claim"
    BY <1>a, <2>1 DEF R!ReadRuleOfClaim, R!Doing
  <2>3. c \in RewardTask /\ c \in Claiming
    BY <1>0, <2>1, <2>2, KindOf
  <2>4. PICK v, t : v = R!currentRule.version /\ t = R!currentRule.trigger
    OBVIOUS
  <2>5. /\ v \in 1..MaxRule /\ t \in R!Triggers
        /\ rules[v] # None \/ v = 1
        /\ (t = "participation") <=> (rules[v] = "participation")
    BY <2>4, InForce DEF RewardInv
  <2>6. PICK h : h = [work |-> "freeze", fact |-> c.fact, subject |-> c.subject,
                      kind |-> c.kind, version |-> v, trigger |-> t]
    OBVIOUS
  <2>7. /\ request' = [request EXCEPT ![r] = h]
        /\ UNCHANGED <<counter, attempts, rules, subjects, postings, proofs>>
    BY <1>a, <2>1, <2>4, <2>6 DEF R!ReadRuleOfClaim
  <2>8. h \in Freezing
    BY <2>3, <2>5, <2>6 DEF Freezing, Claiming
  <2>9. /\ h \in RewardTask /\ h \notin Exporting /\ h \notin Wording
        /\ h \notin Claiming /\ h \notin Putting /\ h \notin Posts /\ h \notin Reviewing
    BY <2>8 DEF RewardTask, Freezing, Posts, Exporting, Wording, Claiming, Putting, Reviewing
  <2>10. OfItsRule(h.version, R!Consume(h, h.kind))
    BY <2>3, <2>5, <2>6 DEF R!Consume, OfItsRule, Claiming, Refusals
  <2>11. Knows(h)
    BY <2>9, <2>10 DEF Knows
  <2> QED  BY <2>7, <2>9, <2>11, ReadingStep
<1>2. ASSUME NEW r \in Requests, R!Freeze(r) PROVE RewardInv'
  <2>1. PICK c : c = request[r]
    OBVIOUS
  <2>2. c # None /\ c.work = "freeze"
    BY <1>2, <2>1 DEF R!Freeze, R!Doing
  <2>3. c \in RewardTask /\ c \in Freezing /\ Knows(c)
    <3>1. c \in RewardTask /\ Knows(c)
      BY <1>0, <2>1, <2>2 DEF RewardInv, AllKnow
    <3> QED  BY <2>2, <3>1, KindOf
  <2>4. PICK s : s = R!frozen(c.fact, c.subject)
    OBVIOUS
  <2>5. /\ c.fact \in Facts /\ s \in Accounts /\ c.kind \in Refusals
        /\ subjects[c.fact] # None => s = subjects[c.fact]
    BY <1>0, <2>3, <2>4 DEF Freezing, R!frozen
  <2>6. PICK v : v = c.version
    OBVIOUS
  <2>7. PICK reason : reason = R!Consume(c, c.kind)
    OBVIOUS
  <2>8. /\ v \in 1..MaxRule /\ reason \in Refusals \cup {"participation_missing"}
        /\ OfItsRule(v, reason)
    BY <2>3, <2>5, <2>6, <2>7 DEF R!Consume, Knows, Freezing
  <2>9. PICK h : h = [work |-> "post", fact |-> c.fact, subject |-> s, version |-> v,
                      reason |-> reason]
    OBVIOUS
  <2>10. /\ subjects' = [subjects EXCEPT ![c.fact] = s]
         /\ request' = [request EXCEPT ![r] = h]
         /\ UNCHANGED <<counter, attempts, rules, postings, proofs>>
    BY <1>2, <2>1, <2>4, <2>6, <2>7, <2>9 DEF R!Freeze
  <2>11. h \in Posts /\ subjects'[h.fact] = h.subject
    BY <1>0, <2>5, <2>8, <2>9, <2>10 DEF Posts
  <2>12. /\ h \in RewardTask /\ h \notin Exporting /\ h \notin Wording
         /\ h \notin Claiming /\ h \notin Freezing /\ h \notin Putting /\ h \notin Reviewing
    BY <2>11 DEF RewardTask, Posts, Exporting, Wording, Claiming, Freezing, Putting, Reviewing
  <2>13. RewardGrows /\ FirstIsOfficial'
    BY <1>0, <2>5, <2>10 DEF RewardGrows, RewardInv, FirstIsOfficial
  <2>14. Knows(h)'
    <3>1. OfItsRule(h.version, h.reason)'
      BY <2>8, <2>9, <2>10 DEF OfItsRule
    <3> QED
      BY <2>11, <2>12, <3>1 DEF Knows, RewardTask, Posts, Exporting, Wording, Claiming,
         Freezing, Putting
  <2>15. request' \in [Requests -> RewardTask \cup {None}] /\ AllKnow'
    BY <2>10, <2>12, <2>13, <2>14, OneMoves
  <2>16. \A p \in postings' : Booked(p)'
    BY <2>10, <2>13, BooksStay
  <2>17. subjects' \in [Facts -> Accounts \cup {None}]
    BY <1>0, <2>5, <2>10
  <2>18. RewardTyped'
    BY <2>10, <2>15, <2>17 DEF RewardInv, RewardTyped, R!RewardTypeOK,
       RewardTask, Exporting, Wording,
       Putting, Claiming, Freezing, Posts, Reviewing, Proof
  <2> QED
    BY <2>10, <2>13, <2>15, <2>16, <2>18
       DEF RewardInv, R!ConsentIsForWhatIsShown
<1>3. ASSUME NEW r \in Requests, R!Post(r) PROVE RewardInv'
  <2>1. PICK k : k = request[r]
    OBVIOUS
  <2>2. k # None /\ k.work = "post"
    BY <1>3, <2>1 DEF R!Post, R!Doing
  <2>3. k \in RewardTask /\ Knows(k)
    BY <1>0, <2>1, <2>2 DEF RewardInv, AllKnow
  <2>4. k \in Posts
    BY <2>2, <2>3, KindOf
  <2>5. PICK p : p = [fact |-> k.fact, subject |-> k.subject, version |-> k.version,
                      reason |-> k.reason]
    OBVIOUS
  <2>6. p \in R!Posting /\ Booked(p)
    BY <2>3, <2>4, <2>5 DEF R!Posting, Posts, Booked, Knows, Refusals
  <2>7. /\ postings' = postings \/ postings' = postings \cup {p}
        /\ request' = [request EXCEPT ![r] = None]
        /\ UNCHANGED <<counter, attempts, rules, subjects, proofs>>
    BY <1>3, <2>1, <2>5 DEF R!Post, R!Answer
  <2>8. RewardGrows /\ FirstIsOfficial'
    BY <2>7, NothingLost DEF RewardInv, FirstIsOfficial
  <2>9. request' \in [Requests -> RewardTask \cup {None}] /\ AllKnow'
    BY <2>7, <2>8, OneMoves
  <2>10. Booked(p)' /\ \A q \in postings : Booked(q)'
    BY <2>6, <2>7, <2>8, BooksStay DEF Booked, OfItsRule
  <2>11. \A q \in postings' : Booked(q)'
    BY <2>7, <2>10
  <2>12. postings' \subseteq R!Posting
    BY <1>0, <2>6, <2>7
  <2>13. RewardTyped'
    BY <2>7, <2>9, <2>12 DEF RewardInv, RewardTyped, R!RewardTypeOK,
       RewardTask, Exporting, Wording,
       Putting, Claiming, Freezing, Posts, Reviewing, Proof
  <2> QED
    BY <2>7, <2>8, <2>9, <2>11, <2>13
       DEF RewardInv, R!ConsentIsForWhatIsShown
<1> QED  BY <1>1, <1>a, <1>2, <1>3

\* Proofs for review touch nothing else.
LEMMA ReviewStep ==
    ASSUME NoneIsNoRow, RewardInv,
           \/ R!handlePublicRewardProof
           \/ \E r \in Requests : R!Review(r) \/ \E p \in Proofs : R!ReadProof(r, p)
    PROVE  RewardInv'
<1>0. /\ proofs \in [Proofs -> Proof \cup {None}]
      /\ request \in [Requests -> RewardTask \cup {None}]
  BY DEF RewardInv, RewardTyped
<1>1. ASSUME proofs' \in [Proofs -> Proof \cup {None}],
             \A p \in Proofs : proofs[p] # None => proofs'[p] # None,
             \/ request' = request
             \/ \E r \in Requests : request' = [request EXCEPT ![r] = None],
             UNCHANGED <<counter, attempts, rules, subjects, postings>>
      PROVE  RewardInv'
  <2>1. RewardGrows /\ FirstIsOfficial'
    BY <1>1, NothingLost DEF RewardInv, FirstIsOfficial
  <2>2. request' \in [Requests -> RewardTask \cup {None}] /\ AllKnow'
    BY <1>1, <2>1, NoneMoves, OneMoves
  <2>3. \A p \in postings' : Booked(p)'
    BY <1>1, <2>1, BooksStay
  <2>4. RewardTyped'
    BY <1>1, <2>2 DEF RewardInv, RewardTyped, R!RewardTypeOK, RewardTask,
       Exporting, Wording,
       Putting, Claiming, Freezing, Posts, Reviewing, Proof
  <2> QED
    BY <1>1, <2>1, <2>2, <2>3, <2>4 DEF RewardInv, R!ConsentIsForWhatIsShown
<1>2. ASSUME NEW p \in Proofs, NEW f \in Facts, R!SubmitProof(p, f) PROVE RewardInv'
  <2>1. PICK new : new = [fact |-> f, reviewer |-> None]
    OBVIOUS
  <2>2. new \in Proof /\ new # None
    BY <2>1 DEF Proof, NoneIsNoRow
  <2>3. proofs' = [proofs EXCEPT ![p] = new] /\ request' = request
    BY <1>2, <2>1 DEF R!SubmitProof
  <2>4. /\ proofs' \in [Proofs -> Proof \cup {None}]
        /\ \A q \in Proofs : proofs[q] # None => proofs'[q] # None
    BY <1>0, <2>2, <2>3
  <2> QED  BY <1>1, <1>2, <2>3, <2>4 DEF R!SubmitProof
<1>3. ASSUME NEW r \in Requests, R!Review(r) PROVE RewardInv'
  <2>1. PICK k : k = request[r]
    OBVIOUS
  <2>2. k # None /\ k.work = "review"
    BY <1>3, <2>1 DEF R!Review, R!Doing
  <2>3. k \in RewardTask /\ Knows(k)
    BY <1>0, <2>1, <2>2 DEF RewardInv, AllKnow
  <2>4. k \in Reviewing /\ k.proof \in Proofs
    BY <2>2, <2>3, KindOf DEF Reviewing
  <2>5. PICK p : p = proofs[k.proof]
    OBVIOUS
  <2>6. p \in Proof
    BY <1>0, <2>3, <2>4, <2>5 DEF Knows
  <2>7. PICK new : new = R!reviewed(p, r)
    OBVIOUS
  <2>8. new \in Proof /\ new # None
    BY <2>6, <2>7 DEF R!reviewed, Proof, NoneIsNoRow
  <2>9. proofs' = [proofs EXCEPT ![k.proof] = new]
    BY <1>0, <1>3, <2>1, <2>4, <2>5, <2>7 DEF R!Review
  <2>10. /\ proofs' \in [Proofs -> Proof \cup {None}]
         /\ \A q \in Proofs : proofs[q] # None => proofs'[q] # None
    BY <1>0, <2>4, <2>8, <2>9
  <2> QED  BY <1>1, <1>3, <2>10 DEF R!Review, R!Answer
<1>4. ASSUME NEW r \in Requests, NEW p \in Proofs, R!ReadProof(r, p) PROVE RewardInv'
  <2>1. PICK h : h = [work |-> "review", proof |-> p]
    OBVIOUS
  <2>2. h \in Reviewing /\ h.proof = p
    BY <2>1 DEF Reviewing
  <2>3. /\ h \in RewardTask /\ h \notin Exporting /\ h \notin Wording
        /\ h \notin Claiming /\ h \notin Freezing /\ h \notin Putting /\ h \notin Posts
    BY <2>2 DEF RewardTask, Reviewing, Posts, Exporting, Wording, Claiming, Freezing, Putting
  <2>4. Knows(h)
    BY <1>4, <2>2, <2>3 DEF Knows, R!ReadProof
  <2> QED  BY <1>4, <2>1, <2>3, <2>4, ReadingStep DEF R!ReadProof
<1> QED  BY <1>2, <1>3, <1>4 DEF R!handlePublicRewardProof

\* Every step of every desk keeps the invariant.
LEMMA RewardNextInv ==
    ASSUME R!RewardRuleAssumption, NoneIsNoRow, RewardInv, R!RewardNext
    PROVE  RewardInv'
<1>1. ASSUME R!CustomerStep PROVE RewardInv'
  BY <1>1, PublishingStep, RuleStep, ClaimStep DEF R!CustomerStep
<1>2. ASSUME R!ProofStep PROVE RewardInv'
  BY <1>2, PublishingStep, ReviewStep DEF R!ProofStep
<1> QED  BY <1>1, <1>2 DEF R!RewardNext

\* A step that changes nothing keeps it.
LEMMA RewardStutter ==
    ASSUME NoneIsNoRow, RewardInv, UNCHANGED R!rewardVars
    PROVE  RewardInv'
<1>0. UNCHANGED <<counter, attempts, rules, subjects, postings, proofs, request>>
  BY DEF R!rewardVars
<1>1. RewardGrows /\ FirstIsOfficial'
  BY <1>0, NothingLost DEF RewardInv, FirstIsOfficial
<1>2. request' \in [Requests -> RewardTask \cup {None}] /\ AllKnow'
  BY <1>0, <1>1, NoneMoves
<1>3. \A p \in postings' : Booked(p)'
  BY <1>0, <1>1, BooksStay
<1>4. RewardTyped'
  BY <1>0, <1>2 DEF RewardInv, RewardTyped, R!RewardTypeOK, RewardTask,
     Exporting, Wording, Putting,
     Claiming, Freezing, Posts, Reviewing, Proof
<1> QED
  BY <1>0, <1>1, <1>2, <1>3, <1>4
     DEF RewardInv, R!ConsentIsForWhatIsShown

\* The invariant holds in every reachable state.
LEMMA RewardAlways ==
    ASSUME R!RewardRuleAssumption, NoneIsNoRow
    PROVE  R!RewardSpec => []RewardInv
<1>1. R!RewardInit => RewardInv
  BY RewardInitInv
<1>2. RewardInv /\ [R!RewardNext]_R!rewardVars => RewardInv'
  BY RewardNextInv, RewardStutter
<1> QED  BY <1>1, <1>2, PTL DEF R!RewardSpec

-----------------------------------------------------------------------------

\* Every row is well formed: no handler stores a rule version, a subject or a refusal
\* outside its column.
THEOREM RewardTypeCorrect ==
    ASSUME R!RewardRuleAssumption, NoneIsNoRow
    PROVE  R!RewardSpec => []R!RewardTypeOK
<1>1. RewardInv => R!RewardTypeOK
  BY DEF RewardInv, RewardTyped
<1> QED  BY <1>1, RewardAlways, PTL

RewardHeld == focus = "reward" => RewardInv

\* Behaviours of the customers' side keep the invariant.
LEMMA RewardHeldAlways ==
    ASSUME NoneIsNoRow
    PROVE  Spec => []RewardHeld
<1>1. R!RewardRuleAssumption
  BY PublicAssumption
<1>2. Init => RewardHeld
  BY <1>1, RewardInitInv DEF Init, RewardHeld
<1>3. RewardHeld /\ [Next]_allVars => RewardHeld'
  <2> SUFFICES ASSUME RewardHeld, [Next]_allVars, focus' = "reward"
               PROVE  RewardInv'
    BY DEF RewardHeld
  <2>1. focus = "reward" /\ [R!RewardNext]_R!rewardVars
    BY StepsOf
  <2> QED  BY <1>1, <2>1, RewardNextInv, RewardStutter DEF RewardHeld
<1> QED  BY <1>2, <1>3, PTL DEF Spec

\* A consent is for the copy and the account the row shows, although the handlers read
\* the row and write it in statements of their own (Confirm, ChangeCopy, ChangeAccount).
THEOREM ConsentFollowsTheText ==
    ASSUME NoneIsNoRow
    PROVE  Spec => []ConsentIsForWhatIsShown
<1>1. RewardHeld => ConsentIsForWhatIsShown
  BY DEF RewardHeld, RewardInv, ConsentIsForWhatIsShown
<1> QED  BY <1>1, RewardHeldAlways, PTL

\* All postings of a preparation name one subject, under whichever label it is claimed
\* and however claims overlap (FreezeRewardSubject).
THEOREM OneSubjectForAFact ==
    ASSUME R!RewardRuleAssumption, NoneIsNoRow
    PROVE  R!RewardSpec => []R!OneSubjectPerFact
<1>1. RewardInv => R!OneSubjectPerFact
  BY DEF RewardInv, R!OneSubjectPerFact, Booked
<1> QED  BY <1>1, RewardAlways, PTL

\* A posting's version is the rule that refused it, although the rule is read before
\* the posting is made, may be revised by then, and its first version may not be stored
\* (SavePublishRewardRule, currentRewardRule).
THEOREM VersionsAreTheirRules ==
    ASSUME NoneIsNoRow
    PROVE  Spec => []VersionIsOneRule
<1>1. RewardHeld => VersionIsOneRule
  BY DEF RewardHeld, RewardInv, VersionIsOneRule, R!VersionIsOneRule, Booked, OfItsRule
<1> QED  BY <1>1, RewardHeldAlways, PTL

\* What a step of the next-state relation does to a reviewed proof: nothing.
LEMMA ReviewsStay ==
    ASSUME NoneIsNoRow, RewardInv, R!RewardNext, NEW p \in Proofs,
           proofs[p] # None, proofs[p].reviewer # None
    PROVE  proofs'[p] = proofs[p]
<1>0. proofs \in [Proofs -> Proof \cup {None}]
  BY DEF RewardInv, RewardTyped
<1>1. ASSUME NEW q \in Proofs, NEW f \in Facts, R!SubmitProof(q, f) PROVE proofs'[p] = proofs[p]
  BY <1>0, <1>1 DEF R!SubmitProof
<1>2. ASSUME NEW r \in Requests, R!Review(r) PROVE proofs'[p] = proofs[p]
  BY <1>0, <1>2 DEF R!Review, R!reviewed
<1>3. ASSUME NEW r \in Requests, NEW q \in Proofs, R!ReadProof(r, q) PROVE proofs' = proofs
  BY <1>3 DEF R!ReadProof
<1>4. ASSUME R!handlePublicPublishPreview PROVE proofs' = proofs
  BY <1>4 DEF R!handlePublicPublishPreview, R!Preview
<1>5. ASSUME R!CustomerStep PROVE proofs' = proofs
  <2>1. ASSUME NEW r \in Requests, NEW f \in Facts, R!Read(r, f) \/ R!ReadClaim(r, f)
        PROVE  proofs' = proofs
    BY <2>1 DEF R!Read, R!ReadClaim
  <2>2. ASSUME NEW r \in Requests, R!Store(r) \/ R!SaveRule(r)
                                   \/ R!ReadRuleOfClaim(r) \/ R!Freeze(r) \/ R!Post(r)
        PROVE  proofs' = proofs
    BY <2>2 DEF R!Store, R!SaveRule, R!ReadRuleOfClaim, R!Freeze, R!Post
  <2>3. ASSUME NEW r \in Requests, NEW t \in R!Triggers, R!ReadRule(r, t) PROVE proofs' = proofs
    BY <2>3 DEF R!ReadRule
  <2> QED  BY <1>4, <1>5, <2>1, <2>2, <2>3 DEF R!CustomerStep
<1>6. ASSUME R!ProofStep PROVE proofs'[p] = proofs[p]
  BY <1>1, <1>2, <1>3, <1>4, <1>6 DEF R!ProofStep, R!handlePublicRewardProof
<1> QED  BY <1>5, <1>6 DEF R!RewardNext

\* The first review of a proof stands, whoever read the proof while it was pending
\* (ReviewRewardProof).
THEOREM FirstReviewIsFinal ==
    ASSUME R!RewardRuleAssumption, NoneIsNoRow
    PROVE  R!RewardSpec => R!FirstReviewStands
<1>1. RewardInv /\ [R!RewardNext]_R!rewardVars
        => [\A p \in Proofs : proofs[p] # None /\ proofs[p].reviewer # None
                                 => proofs'[p] = proofs[p]]_proofs
  BY ReviewsStay DEF R!rewardVars
<1> QED  BY <1>1, RewardAlways, PTL DEF R!RewardSpec, R!FirstReviewStands

-----------------------------------------------------------------------------
(* Jumps: what a guest is given was open while he asked *)

\* What is stored, and what the registry says.
World == [jumps : J!Matrices, ret : ReturnRows \cup {None}, link : Stamps,
          hosts : SUBSET Hosts, lifecycle : {"active", "suspended"}, registry : Registries]

\* When a guest's request arrived.
Came(t) == t.since \in DOMAIN worlds /\ t.from \in Nat /\ t.from <= clock

\* What it holds was stored then or later.
HoldsLink(t)   == \E w \in J!Seen(t) : t.link = w.link
HoldsJumps(t)  == \E w \in J!Seen(t) : t.jumps = w.jumps
HoldsReturn(t) == \E w \in J!Seen(t) : t.ret = w.ret

\* What the registry said, of the guest's host and of a host that is ready.
HostFits(t) == \E w \in J!Seen(t) : w.registry[t.host].brand \in {"", t.link.brand}
Admitted(t) == \E w \in J!Seen(t), h \in {t.host, t.link.host} : J!admits(w.registry[h])

LetIn(t) == Came(t) /\ J!brandOpen(J!Seen(t), t.host)

\* What OfferedWasOpen says of one address of a request.
WasOpen(t, o) ==
    /\ \E w \in J!Seen(t) :
          LET stored == J!row(w, o.kind) IN
          /\ stored # None
          /\ stored.enabled /\ ~ stored.revoked /\ stored.href = o.href
          /\ \A due \in stored.expires : due > t.from
    /\ o.kind = "return" =>
          o.href.form = "site" \/ \E w \in J!Seen(t) : o.href.host \in w.hosts \cup {Base}
    /\ o.href.form = "https" => o.href.host \notin J!privateHosts

AskSound(t) ==
    \/ t.at = "save" /\ t.jumps \in J!Matrices \cup {None} /\ t.ret \in ReturnRows \cup {None}
    \/ t.at = "link" /\ Came(t)
    \/ t.at = "host" /\ Came(t) /\ HoldsLink(t)
    \/ t.at = "shell" /\ Came(t) /\ HoldsLink(t) /\ HostFits(t)
    \/ t.at = "tenant" /\ Came(t) /\ HoldsLink(t) /\ HostFits(t) /\ Admitted(t)
    \/ t.at = "jumps" /\ LetIn(t)
    \/ t.at = "return" /\ LetIn(t) /\ HoldsJumps(t)
    \/ t.at = "hosts" /\ LetIn(t) /\ HoldsJumps(t) /\ HoldsReturn(t)
    \/ t.at = "answer" /\ LetIn(t) /\ \A o \in t.offer : WasOpen(t, o)

\* The requests under way.
Asked == {desk[r] : r \in Guests \cup Editors} \ {None}

JumpsInv ==
    /\ clock \in Nat
    /\ worlds \in Seq(World) /\ worlds # <<>>
    /\ desk = [r \in Guests \cup Editors |-> desk[r]]
    /\ \A t \in Asked : AskSound(t)

\* What was stored stays on record, and the clock does not go back.
JumpsGrow ==
    /\ clock' \in Nat /\ clock <= clock'
    /\ worlds' \in Seq(World) /\ Len(worlds) <= Len(worlds')
    /\ \A i \in DOMAIN worlds : worlds'[i] = worlds[i]

\* What was seen stays seen.
LEMMA SeenGrows ==
    ASSUME JumpsInv, JumpsGrow, NEW t, Came(t)
    PROVE  Came(t)' /\ \A w \in J!Seen(t) : w \in J!Seen(t)'
<1>1. /\ Len(worlds) \in Nat /\ Len(worlds') \in Nat /\ Len(worlds) <= Len(worlds')
      /\ DOMAIN worlds = 1..Len(worlds) /\ DOMAIN worlds' = 1..Len(worlds')
      /\ t.since \in 1..Len(worlds)
  BY DEF Came, JumpsInv, JumpsGrow
<1>2. \A i \in t.since .. Len(worlds) :
         i \in t.since .. Len(worlds') /\ i \in DOMAIN worlds /\ worlds'[i] = worlds[i]
  BY <1>1 DEF JumpsGrow
<1>3. t.from \in Nat /\ t.from <= clock'
  BY DEF Came, JumpsInv, JumpsGrow
<1> QED  BY <1>1, <1>2, <1>3 DEF Came, J!Seen

\* A page that was open to a guest stays one that was.
LEMMA OpenStays ==
    ASSUME NEW seen, NEW more, \A w \in seen : w \in more, NEW host, J!brandOpen(seen, host)
    PROVE  J!brandOpen(more, host)
BY DEF J!brandOpen

\* What a request knows stays so.
LEMMA AskStays ==
    ASSUME JumpsInv, JumpsGrow, NEW t, AskSound(t)
    PROVE  AskSound(t)'
<1>1. CASE t.at = "save"
  BY <1>1 DEF AskSound
<1>2. CASE t.at # "save"
  <2>1. Came(t)
    BY <1>2 DEF AskSound, LetIn
  <2>2. Came(t)' /\ \A w \in J!Seen(t) : w \in J!Seen(t)'
    BY <2>1, SeenGrows
  <2>3. LetIn(t) => LetIn(t)'
    BY <2>2, OpenStays DEF LetIn
  <2>4. HoldsLink(t) => HoldsLink(t)'
    BY <2>2 DEF HoldsLink
  <2>5. HoldsJumps(t) => HoldsJumps(t)'
    BY <2>2 DEF HoldsJumps
  <2>6. HoldsReturn(t) => HoldsReturn(t)'
    BY <2>2 DEF HoldsReturn
  <2>7. HostFits(t) => HostFits(t)'
    BY <2>2 DEF HostFits
  <2>8. Admitted(t) => Admitted(t)'
    BY <2>2 DEF Admitted
  <2>9. ASSUME NEW o, WasOpen(t, o) PROVE WasOpen(t, o)'
    <3>1. PICK w \in J!Seen(t) :
             LET stored == J!row(w, o.kind) IN
             /\ stored # None
             /\ stored.enabled /\ ~ stored.revoked /\ stored.href = o.href
             /\ \A due \in stored.expires : due > t.from
      BY <2>9 DEF WasOpen
    <3>2. w \in J!Seen(t)'
      BY <2>2
    <3> QED  BY <2>2, <2>9, <3>1, <3>2 DEF WasOpen
  <2> QED  BY <1>2, <2>1, <2>2, <2>3, <2>4, <2>5, <2>6, <2>7, <2>8, <2>9 DEF AskSound
<1> QED  BY <1>1, <1>2

\* A request begins or goes on, the others keep what they know.
LEMMA AskGoes ==
    ASSUME JumpsInv, JumpsGrow, NEW r \in Guests \cup Editors, NEW t, J!Goto(r, t),
           t # None => AskSound(t)'
    PROVE  JumpsInv'
<1>1. desk = [q \in Guests \cup Editors |-> desk[q]] /\ desk' = [desk EXCEPT ![r] = t]
  BY DEF JumpsInv, J!Goto
<1>2. desk' = [q \in Guests \cup Editors |-> desk'[q]]
  BY <1>1
<1>3. ASSUME NEW u \in Asked' PROVE AskSound(u)'
  <2>1. PICK q \in Guests \cup Editors : u = desk'[q] /\ u # None
    BY <1>3 DEF Asked
  <2>2. CASE q = r
    BY <1>1, <2>1, <2>2
  <2>3. CASE q # r
    <3>1. u \in Asked
      BY <1>1, <2>1, <2>3 DEF Asked
    <3> QED  BY <3>1, AskStays DEF JumpsInv
  <2> QED  BY <2>2, <2>3
<1>4. worlds' # <<>>
  <2>1. Len(worlds) > 0 /\ Len(worlds) \in Nat /\ Len(worlds') \in Nat
    BY DEF JumpsInv, JumpsGrow
  <2>2. Len(worlds') # 0 /\ Len(<<>>) = 0
    BY <2>1 DEF JumpsGrow
  <2> QED  BY <2>2
<1> QED  BY <1>2, <1>3, <1>4 DEF JumpsInv, JumpsGrow

\* A step that only reads.
LEMMA ReadGrows ==
    ASSUME JumpsInv, UNCHANGED <<clock, worlds>>
    PROVE  JumpsGrow
BY DEF JumpsInv, JumpsGrow

\* A request that has only read.
LEMMA AskReads ==
    ASSUME JumpsInv, NEW r \in Guests \cup Editors, NEW t, J!Goto(r, t),
           UNCHANGED <<clock, worlds>>, t # None => AskSound(t)
    PROVE  JumpsInv'
BY ReadGrows, AskStays, AskGoes

\* The world that holds is the last one.
LEMMA WorldIsLast ==
    ASSUME JumpsInv
    PROVE  /\ Len(worlds) \in DOMAIN worlds /\ J!world = worlds[Len(worlds)]
           /\ J!world \in World /\ DOMAIN worlds = 1..Len(worlds) /\ Len(worlds) \in Nat
<1>1. worlds \in Seq(World) /\ Len(worlds) \in Nat /\ Len(worlds) > 0
  BY DEF JumpsInv
<1> QED  BY <1>1 DEF J!world, J!Last

\* What changes the world appends to the record.
LEMMA WorldBecomes ==
    ASSUME JumpsInv, NEW w \in World, J!Becomes(w), UNCHANGED clock
    PROVE  JumpsGrow
<1>1. worlds' = worlds \/ worlds' = Append(worlds, w)
  BY DEF J!Becomes
<1>2. worlds \in Seq(World) /\ Len(worlds) \in Nat
  BY DEF JumpsInv
<1>3. CASE worlds' = worlds
  BY <1>3, ReadGrows
<1>4. CASE worlds' = Append(worlds, w)
  <2>1. /\ worlds' \in Seq(World) /\ Len(worlds') = Len(worlds) + 1
        /\ \A i \in DOMAIN worlds : worlds'[i] = worlds[i]
    BY <1>2, <1>4
  <2> QED  BY <1>2, <2>1 DEF JumpsGrow, JumpsInv
<1> QED  BY <1>1, <1>3, <1>4

\* And a request sees it.
LEMMA SeesWorld ==
    ASSUME JumpsInv, NEW t, Came(t)
    PROVE  J!world \in J!Seen(t) /\ J!Seen(t) \subseteq World
<1>1. /\ Len(worlds) \in DOMAIN worlds /\ J!world = worlds[Len(worlds)]
      /\ DOMAIN worlds = 1..Len(worlds) /\ Len(worlds) \in Nat
  BY WorldIsLast
<1>2. Len(worlds) \in t.since .. Len(worlds)
  BY <1>1 DEF Came
<1>3. \A i \in t.since .. Len(worlds) : i \in DOMAIN worlds
  BY <1>1 DEF Came
<1>4. \A i \in DOMAIN worlds : worlds[i] \in World
  BY DEF JumpsInv
<1> QED  BY <1>1, <1>2, <1>3, <1>4 DEF J!Seen

\* A jump that is shown was stored, and may be.
LEMMA ShownWasOpen ==
    ASSUME JumpsInv, NEW t, LetIn(t), HoldsJumps(t), NEW o \in J!PresentAt(t.jumps)
    PROVE  WasOpen(t, o)
<1>1. PICK k \in Kinds : /\ o = [kind |-> k, href |-> t.jumps[k].href]
                         /\ J!Usable(t.jumps[k]) /\ J!OfficialAddress(t.jumps[k].href)
  BY DEF J!PresentAt
<1>2. PICK w \in J!Seen(t) : t.jumps = w.jumps
  BY DEF HoldsJumps
<1>3. J!JumpsAssumption
  BY PublicAssumption
<1>4. k # "return" /\ o.kind = k /\ o.href = t.jumps[k].href
  BY <1>1, <1>3 DEF J!JumpsAssumption
<1> PICK stored : stored = t.jumps[k]
  OBVIOUS
<1>5. J!row(w, o.kind) = stored
  BY <1>2, <1>4 DEF J!row
<1>6. stored \in JumpRows
  <2>2. w \in World
    BY SeesWorld DEF LetIn
  <2>3. t.jumps \in [Kinds -> JumpRows \cup {None}]
    BY <1>2, <2>2 DEF World, J!Matrices
  <2> QED  BY <1>1, <2>3 DEF J!Usable
<1>7. stored # None /\ stored.enabled /\ ~ stored.revoked
  BY <1>1 DEF J!Usable
<1>8. \A due \in stored.expires : due > t.from
  <2>1. stored.expires \subseteq Nat /\ clock \in Nat /\ t.from \in Nat /\ t.from <= clock
    BY <1>3, <1>6 DEF J!JumpsAssumption, JumpsInv, LetIn, Came
  <2>2. \A due \in stored.expires : ~ (due <= clock)
    BY <1>1 DEF J!Usable, J!expired
  <2> QED  BY <2>1, <2>2
<1>9. o.href.form = "https" => o.href.host \notin J!privateHosts
  BY <1>1, <1>4 DEF J!OfficialAddress
<1> QED  BY <1>4, <1>5, <1>7, <1>8, <1>9 DEF WasOpen

\* A return that is offered was stored, and leads to a host that is registered now.
LEMMA ReturnWasOpen ==
    ASSUME JumpsInv, NEW t, LetIn(t), HoldsReturn(t),
           NEW o \in J!DecideReturn(t.ret, J!returnHosts(J!world.hosts))
    PROVE  WasOpen(t, o)
<1>1. /\ o = [kind |-> "return", href |-> t.ret.href]
      /\ J!Usable(t.ret) /\ J!AllowReturn(t.ret.href, J!returnHosts(J!world.hosts))
  BY DEF J!DecideReturn
<1>2. PICK w \in J!Seen(t) : t.ret = w.ret
  BY DEF HoldsReturn
<1>3. J!JumpsAssumption
  BY PublicAssumption
<1>4. o.kind = "return" /\ o.href = t.ret.href
  BY <1>1
<1> PICK stored : stored = t.ret
  OBVIOUS
<1>5. J!row(w, o.kind) = stored
  BY <1>2, <1>4 DEF J!row
<1>6. stored \in ReturnRows
  <2>2. w \in World
    BY SeesWorld DEF LetIn
  <2> QED  BY <1>1, <1>2, <2>2 DEF World, J!Usable
<1>7. stored # None /\ stored.enabled /\ ~ stored.revoked
  BY <1>1 DEF J!Usable
<1>8. \A due \in stored.expires : due > t.from
  <2>1. stored.expires \subseteq Nat /\ clock \in Nat /\ t.from \in Nat /\ t.from <= clock
    BY <1>3, <1>6 DEF J!JumpsAssumption, JumpsInv, LetIn, Came
  <2>2. \A due \in stored.expires : ~ (due <= clock)
    BY <1>1 DEF J!Usable, J!expired
  <2> QED  BY <2>1, <2>2
<1>9. o.href.form = "https" => o.href.host \notin J!privateHosts
  BY <1>1, <1>4 DEF J!AllowReturn, J!OfficialAddress
<1>10. o.href.form = "site" \/ \E v \in J!Seen(t) : o.href.host \in v.hosts \cup {Base}
  <2>1. J!world \in J!Seen(t)
    BY SeesWorld DEF LetIn
  <2>2. o.href.form = "site" \/ o.href.host \in J!world.hosts \cup {Base}
    BY <1>1, <1>4 DEF J!AllowReturn, J!returnHosts
  <2> QED  BY <2>1, <2>2
<1> QED  BY <1>4, <1>5, <1>7, <1>8, <1>9, <1>10 DEF WasOpen

\* A request arrives.
LEMMA ArriveStep ==
    ASSUME JumpsInv, NEW r \in Guests, NEW want, NEW host \in Hosts, J!arrives(r, want, host)
    PROVE  JumpsInv'
<1> PICK t : t = [at |-> "link", want |-> want, host |-> host, since |-> Len(worlds),
                  from |-> clock]
  OBVIOUS
<1>1. J!Goto(r, t) /\ UNCHANGED <<clock, worlds>>
  BY DEF J!arrives, J!Read
<1>2. t.at = "link" /\ t.since = Len(worlds) /\ t.from = clock
  OBVIOUS
<1>3. AskSound(t)
  BY <1>2, WorldIsLast DEF AskSound, Came, JumpsInv
<1> QED  BY <1>1, <1>3, AskReads

\* What a request under way knows.
LEMMA AskedSound ==
    ASSUME JumpsInv, NEW r \in Guests \cup Editors, NEW step, J!At(r, step)
    PROVE  desk[r] # None /\ desk[r].at = step /\ AskSound(desk[r])
BY DEF J!At, JumpsInv, Asked

\* What is known of a request holds of its next stage.
LEMMA GoesWith ==
    ASSUME NEW t, Came(t), NEW u, u.since = t.since, u.from = t.from, u.host = t.host
    PROVE  /\ Came(u) /\ J!Seen(u) = J!Seen(t)
           /\ LetIn(t) => LetIn(u)
           /\ HoldsJumps(t) /\ u.jumps = t.jumps => HoldsJumps(u)
           /\ HoldsReturn(t) /\ u.ret = t.ret => HoldsReturn(u)
           /\ \A o : WasOpen(t, o) => WasOpen(u, o)
<1>1. J!Seen(u) = J!Seen(t)
  BY DEF J!Seen
<1> QED  BY <1>1 DEF Came, LetIn, HoldsJumps, HoldsReturn, WasOpen

\* Who is asked on: what is known of the link and the hosts goes with the request.
LEMMA DecidesWith ==
    ASSUME JumpsInv, NEW r \in Guests \cup Editors, NEW t, t = desk[r], Came(t), NEW link,
           NEW step, J!decides(r, link, step), J!Read(r),
           \A u : /\ u.link = link /\ u.since = t.since /\ u.from = t.from
                  /\ u.host = t.host /\ u.at = step
                  => AskSound(u)
    PROVE  JumpsInv'
<1> PICK u : u = [at |-> step, link |-> link, want |-> t.want, host |-> t.host,
                  since |-> t.since, from |-> t.from]
  OBVIOUS
<1>1. J!Goto(r, u) /\ UNCHANGED <<clock, worlds>>
  BY DEF J!decides, J!Read
<1>2. /\ u.link = link /\ u.since = t.since /\ u.from = t.from /\ u.host = t.host
      /\ u.at = step
  OBVIOUS
<1>3. AskSound(u)
  BY <1>2
<1> QED  BY <1>1, <1>3, AskReads

\* Who is let in found the page open.
LEMMA LetInWith ==
    ASSUME JumpsInv, NEW r \in Guests \cup Editors, J!letIn(r), J!Read(r), LetIn(desk[r])
    PROVE  JumpsInv'
<1> PICK t : t = desk[r]
  OBVIOUS
<1> PICK u : u = [at |-> "jumps", want |-> t.want, host |-> t.host, since |-> t.since,
                  from |-> t.from]
  OBVIOUS
<1>1. J!Goto(r, u) /\ UNCHANGED <<clock, worlds>>
  BY DEF J!letIn, J!Read
<1>2. u.at = "jumps" /\ LetIn(u)
  BY GoesWith DEF LetIn
<1> QED  BY <1>1, <1>2, AskReads DEF AskSound

\* And who is not goes.
LEMMA TurnedAway ==
    ASSUME JumpsInv, NEW r \in Guests \cup Editors, J!Return(r), J!Read(r)
    PROVE  JumpsInv'
BY AskReads DEF J!Return, J!Read

\* The link's brand is read.
LEMMA LinkStep ==
    ASSUME JumpsInv, NEW r \in Guests \cup Editors, J!LinkPublication(r)
    PROVE  JumpsInv'
<1> PICK t : t = desk[r]
  OBVIOUS
<1>1. t # None /\ Came(t) /\ J!Read(r)
  <2>1. J!At(r, "link") /\ J!Read(r)
    BY DEF J!LinkPublication
  <2>2. t # None /\ t.at = "link" /\ AskSound(t)
    BY <2>1, AskedSound
  <2> QED  BY <2>1, <2>2 DEF AskSound
<1>2. J!world \in J!Seen(t)
  BY <1>1, SeesWorld
<1>3. CASE J!world.link.brand = "" /\ J!letIn(r)
  <2>1. J!brandOpen(J!Seen(t), t.host)
    BY <1>2, <1>3 DEF J!brandOpen
  <2> QED  BY <1>1, <1>3, <2>1, LetInWith DEF LetIn
<1>4. CASE J!decides(r, J!world.link, "host")
  <2>1. ASSUME NEW u, u.link = J!world.link, u.since = t.since, u.from = t.from,
               u.host = t.host, u.at = "host"
        PROVE  AskSound(u)
    <3>1. Came(u) /\ J!Seen(u) = J!Seen(t)
      BY <1>1, <2>1, GoesWith
    <3> QED  BY <1>2, <2>1, <3>1 DEF AskSound, HoldsLink
  <2> QED  BY <1>1, <1>4, <2>1, DecidesWith
<1> QED  BY <1>3, <1>4 DEF J!LinkPublication

\* The registry is asked for the guest's host.
LEMMA HostStep ==
    ASSUME JumpsInv, NEW r \in Guests \cup Editors, J!ReadHost(r)
    PROVE  JumpsInv'
<1> PICK t : t = desk[r]
  OBVIOUS
<1>1. t # None /\ Came(t) /\ HoldsLink(t) /\ J!Read(r)
  <2>1. J!At(r, "host") /\ J!Read(r)
    BY DEF J!ReadHost
  <2>2. t # None /\ t.at = "host" /\ AskSound(t)
    BY <2>1, AskedSound
  <2> QED  BY <2>1, <2>2 DEF AskSound
<1>2. J!world \in J!Seen(t)
  BY <1>1, SeesWorld
<1> PICK context : context = J!world.registry[t.host]
  OBVIOUS
<1>3. \/ J!Return(r)
      \/ J!serves(t.host, context, t.link) /\ J!decides(r, t.link, "shell")
      \/ /\ J!serves(t.host, context, t.link) /\ J!admits(context)
         /\ J!decides(r, t.link, "tenant")
  BY DEF J!ReadHost
<1>4. CASE J!Return(r)
  BY <1>1, <1>4, TurnedAway
<1>5. CASE J!serves(t.host, context, t.link)
  <2>1. ASSUME NEW u, u.link = t.link, u.since = t.since, u.from = t.from, u.host = t.host
        PROVE  /\ Came(u) /\ HoldsLink(u) /\ HostFits(u)
               /\ J!admits(context) => Admitted(u)
    <3>1. Came(u) /\ J!Seen(u) = J!Seen(t)
      BY <1>1, <2>1, GoesWith
    <3>2. HoldsLink(u)
      BY <1>1, <2>1, <3>1 DEF HoldsLink
    <3>3. HostFits(u)
      BY <1>2, <1>5, <2>1, <3>1 DEF HostFits, J!serves
    <3>4. J!admits(context) => Admitted(u)
      BY <1>2, <2>1, <3>1 DEF Admitted
    <3> QED  BY <3>1, <3>2, <3>3, <3>4
  <2>2. CASE J!decides(r, t.link, "shell")
    <3>1. ASSUME NEW u, u.link = t.link, u.since = t.since, u.from = t.from, u.host = t.host,
                 u.at = "shell"
          PROVE  AskSound(u)
      BY <2>1, <3>1 DEF AskSound
    <3> QED  BY <1>1, <2>2, <3>1, DecidesWith
  <2>3. CASE J!admits(context) /\ J!decides(r, t.link, "tenant")
    <3>1. ASSUME NEW u, u.link = t.link, u.since = t.since, u.from = t.from, u.host = t.host,
                 u.at = "tenant"
          PROVE  AskSound(u)
      BY <2>1, <2>3, <3>1 DEF AskSound
    <3> QED  BY <1>1, <2>3, <3>1, DecidesWith
  <2> QED  BY <1>1, <1>3, <2>2, <2>3, TurnedAway
<1> QED  BY <1>3, <1>4, <1>5

\* And for the page's.
LEMMA ShellStep ==
    ASSUME JumpsInv, NEW r \in Guests \cup Editors, J!ReadShell(r)
    PROVE  JumpsInv'
<1> PICK t : t = desk[r]
  OBVIOUS
<1>1. t # None /\ Came(t) /\ HoldsLink(t) /\ HostFits(t) /\ J!Read(r)
  BY AskedSound DEF J!ReadShell, AskSound
<1>2. J!world \in J!Seen(t)
  BY <1>1, SeesWorld
<1>3. CASE J!Return(r)
  BY <1>1, <1>3, TurnedAway
<1>4. CASE J!admits(J!world.registry[t.link.host]) /\ J!decides(r, t.link, "tenant")
  <2>1. ASSUME NEW u, u.link = t.link, u.since = t.since, u.from = t.from, u.host = t.host,
               u.at = "tenant"
        PROVE  AskSound(u)
    <3>1. Came(u) /\ J!Seen(u) = J!Seen(t)
      BY <1>1, <2>1, GoesWith
    <3>2. HoldsLink(u) /\ HostFits(u)
      BY <1>1, <2>1, <3>1 DEF HoldsLink, HostFits
    <3>3. Admitted(u)
      BY <1>2, <1>4, <2>1, <3>1 DEF Admitted
    <3> QED  BY <2>1, <3>1, <3>2, <3>3 DEF AskSound
  <2> QED  BY <1>1, <1>4, <2>1, DecidesWith
<1> QED  BY <1>3, <1>4 DEF J!ReadShell

\* The tenant is read last, and the guest let in.
LEMMA TenantStep ==
    ASSUME JumpsInv, NEW r \in Guests \cup Editors, J!GetTenant(r)
    PROVE  JumpsInv'
<1> PICK t : t = desk[r]
  OBVIOUS
<1>1. /\ t # None /\ Came(t) /\ HoldsLink(t) /\ HostFits(t) /\ Admitted(t) /\ J!Read(r)
  BY AskedSound DEF J!GetTenant, AskSound
<1>2. J!world \in J!Seen(t)
  BY <1>1, SeesWorld
<1>3. CASE J!Return(r)
  BY <1>1, <1>3, TurnedAway
<1>4. CASE J!world.lifecycle = "active" /\ J!letIn(r)
  <2>1. t.link \in {w.link : w \in J!Seen(t)}
    BY <1>1 DEF HoldsLink
  <2>2. \E w \in J!Seen(t) : w.lifecycle = "active"
    BY <1>2, <1>4
  <2>3. J!brandOpen(J!Seen(t), t.host)
    BY <1>1, <2>1, <2>2 DEF J!brandOpen, HostFits, Admitted, J!admits
  <2> QED  BY <1>1, <1>4, <2>3, LetInWith DEF LetIn
<1> QED  BY <1>3, <1>4 DEF J!GetTenant

\* An offer: nothing to a click that finds nothing.
LEMMA OfferStep ==
    ASSUME JumpsInv, NEW r \in Guests \cup Editors, NEW offer, J!offers(r, offer), J!Read(r),
           LetIn(desk[r]), \A o \in offer : WasOpen(desk[r], o)
    PROVE  JumpsInv'
<1> PICK t : t = desk[r]
  OBVIOUS
<1> PICK u : u = [at |-> "answer", offer |-> offer, host |-> t.host, since |-> t.since,
                  from |-> t.from, want |-> t.want]
  OBVIOUS
<1>1. UNCHANGED <<clock, worlds>> /\ (J!Goto(r, None) \/ J!Goto(r, u))
  BY DEF J!offers, J!Read, J!Return
<1>2. /\ u.at = "answer" /\ u.offer = offer /\ u.since = t.since /\ u.from = t.from
      /\ u.host = t.host
  OBVIOUS
<1>3. AskSound(u)
  BY <1>2, GoesWith DEF AskSound, LetIn
<1> QED  BY <1>1, <1>3, AskReads

\* The jumps are read: a click is offered its own, other requests read on.
LEMMA ListStep ==
    ASSUME JumpsInv, NEW r \in Guests \cup Editors, J!ListExtraJumps(r)
    PROVE  JumpsInv'
<1> PICK t : t = desk[r]
  OBVIOUS
<1>1. t # None /\ LetIn(t) /\ UNCHANGED <<clock, worlds>>
  BY AskedSound DEF J!ListExtraJumps, AskSound, J!Read
<1>2. J!world \in J!Seen(t)
  BY <1>1, SeesWorld DEF LetIn
<1>3. CASE J!offers(r, J!CanonicalHref(J!PresentAt(J!world.jumps), t.want))
  <2> PICK u : u = [since |-> t.since, from |-> t.from, host |-> t.host, jumps |-> J!world.jumps]
    OBVIOUS
  <2>1. LetIn(u) /\ HoldsJumps(u) /\ u.jumps = J!world.jumps
    <3>1. LetIn(u) /\ J!Seen(u) = J!Seen(t)
      BY <1>1, GoesWith DEF LetIn
    <3> QED  BY <1>2, <3>1 DEF HoldsJumps
  <2>2. ASSUME NEW o \in J!CanonicalHref(J!PresentAt(J!world.jumps), t.want)
        PROVE  WasOpen(t, o)
    <3>1. o \in J!PresentAt(u.jumps)
      BY <2>1, <2>2 DEF J!CanonicalHref
    <3>2. WasOpen(u, o)
      BY <2>1, <3>1, ShownWasOpen
    <3> QED  BY <2>1, <3>2, GoesWith DEF LetIn
  <2>3. J!Read(r)
    BY DEF J!ListExtraJumps
  <2> QED  BY <1>1, <1>3, <2>2, <2>3, OfferStep
<1>4. CASE J!Goto(r, [at |-> "return", jumps |-> J!world.jumps, want |-> t.want,
                      host |-> t.host, since |-> t.since, from |-> t.from])
  <2> PICK u : u = [at |-> "return", jumps |-> J!world.jumps, want |-> t.want,
                    host |-> t.host, since |-> t.since, from |-> t.from]
    OBVIOUS
  <2>1. LetIn(u) /\ J!Seen(u) = J!Seen(t) /\ u.jumps = J!world.jumps /\ u.at = "return"
    BY <1>1, GoesWith DEF LetIn
  <2>2. AskSound(u)
    BY <1>2, <2>1 DEF AskSound, HoldsJumps
  <2> QED  BY <1>1, <1>4, <2>2, AskReads
<1> QED  BY <1>3, <1>4 DEF J!ListExtraJumps

\* The return is read.
LEMMA ReturnStep ==
    ASSUME JumpsInv, NEW r \in Guests \cup Editors, J!GetAuthorizedReturn(r)
    PROVE  JumpsInv'
<1> PICK t : t = desk[r]
  OBVIOUS
<1>1. t # None /\ LetIn(t) /\ HoldsJumps(t) /\ UNCHANGED <<clock, worlds>>
  BY AskedSound DEF J!GetAuthorizedReturn, AskSound, J!Read
<1>2. J!world \in J!Seen(t)
  BY <1>1, SeesWorld DEF LetIn
<1> PICK u : u = [at |-> "hosts", ret |-> J!world.ret, jumps |-> t.jumps, want |-> t.want,
                  host |-> t.host, since |-> t.since, from |-> t.from]
  OBVIOUS
<1>3. /\ LetIn(u) /\ J!Seen(u) = J!Seen(t) /\ u.ret = J!world.ret /\ u.at = "hosts"
      /\ HoldsJumps(u)
  BY <1>1, GoesWith DEF LetIn
<1>4. AskSound(u)
  BY <1>2, <1>3 DEF AskSound, HoldsReturn
<1>5. J!Goto(r, u)
  BY DEF J!GetAuthorizedReturn
<1> QED  BY <1>1, <1>4, <1>5, AskReads

\* The hosts are read, and the clock.
LEMMA DocumentStep ==
    ASSUME JumpsInv, NEW r \in Guests \cup Editors, J!jumpDocument(r)
    PROVE  JumpsInv'
<1> PICK t : t = desk[r]
  OBVIOUS
<1>1. t # None /\ LetIn(t) /\ HoldsJumps(t) /\ HoldsReturn(t) /\ J!Read(r)
  BY AskedSound DEF J!jumpDocument, AskSound
<1> PICK back : back = J!DecideReturn(t.ret, J!returnHosts(J!world.hosts))
  OBVIOUS
<1> PICK shown : shown = IF t.want = "page" THEN J!PresentAt(t.jumps) ELSE {}
  OBVIOUS
<1>2. \A o \in back \cup shown : WasOpen(t, o)
  BY <1>1, ShownWasOpen, ReturnWasOpen
<1>3. J!offers(r, back \cup shown)
  BY DEF J!jumpDocument
<1> QED  BY <1>1, <1>2, <1>3, OfferStep

\* What a merchant sends is saved in one transaction.
LEMMA SaveMatrixStep ==
    ASSUME JumpsInv, NEW r \in Guests \cup Editors, J!SaveJumpMatrix(r)
    PROVE  JumpsInv'
<1> PICK t : t = desk[r]
  OBVIOUS
<1> PICK w : w = J!world
  OBVIOUS
<1>1. t # None /\ t.jumps \in J!Matrices \cup {None} /\ t.ret \in ReturnRows \cup {None}
  BY AskedSound DEF J!SaveJumpMatrix, AskSound
<1> PICK v : v = [w EXCEPT !.jumps = IF t.jumps = None THEN w.jumps ELSE t.jumps,
                           !.ret = IF t.ret = None THEN w.ret ELSE t.ret]
  OBVIOUS
<1>2. w \in World
  BY WorldIsLast
<1>3. v \in World
  BY <1>1, <1>2 DEF World
<1>4. J!Becomes(v) /\ J!Goto(r, None) /\ UNCHANGED clock
  BY DEF J!SaveJumpMatrix, J!Return
<1> QED  BY <1>3, <1>4, WorldBecomes, AskGoes

\* A step of nobody under way.
LEMMA AroundStep ==
    ASSUME JumpsInv, JumpsGrow, desk' = desk
    PROVE  JumpsInv'
<1>1. Asked' = Asked /\ \A t \in Asked : AskSound(t)'
  BY AskStays DEF Asked, JumpsInv
<1>2. worlds' # <<>>
  <2>1. Len(worlds) > 0 /\ Len(worlds) \in Nat /\ Len(worlds') \in Nat
    BY DEF JumpsInv, JumpsGrow
  <2>2. Len(worlds') # 0 /\ Len(<<>>) = 0
    BY <2>1 DEF JumpsGrow
  <2> QED  BY <2>2
<1> QED  BY <1>1, <1>2 DEF JumpsInv, JumpsGrow

\* What others do: another link's host, the tenant's state, the registry, the clock.
LEMMA WorldStep ==
    ASSUME JumpsInv,
           \/ \E s \in Stamps : J!StampLinkBrand(s)
           \/ \E lifecycle \in {"active", "suspended"} : J!SetTenantLifecycle(lifecycle)
           \/ \E registry \in Registries : J!Registry(registry)
           \/ J!Tick
    PROVE  JumpsInv'
<1> PICK w : w = J!world
  OBVIOUS
<1>1. w \in World
  BY WorldIsLast
<1>2. CASE J!Tick
  <2>1. JumpsGrow /\ desk' = desk
    BY <1>2 DEF J!Tick, JumpsGrow, JumpsInv
  <2> QED  BY <2>1, AroundStep
<1>3. ASSUME NEW v \in World, J!Becomes(v), UNCHANGED <<clock, desk>>
      PROVE  JumpsInv'
  BY <1>3, WorldBecomes, AroundStep
<1>4. ASSUME NEW s \in Stamps, J!StampLinkBrand(s) PROVE JumpsInv'
  <2>0. PICK link \in Stamps :
           J!Becomes([w EXCEPT !.link = link, !.hosts = w.hosts \cup ({s.host} \ {""})])
    BY <1>1, <1>4 DEF J!StampLinkBrand, World
  <2> PICK v : v = [w EXCEPT !.link = link, !.hosts = w.hosts \cup ({s.host} \ {""})]
    OBVIOUS
  <2>1. v \in World
    <3>1. s.host \in Hosts \cup {""}
      BY PublicAssumption DEF J!JumpsAssumption
    <3> QED  BY <1>1, <3>1 DEF World
  <2>2. J!Becomes(v) /\ UNCHANGED <<clock, desk>>
    BY <1>4, <2>0 DEF J!StampLinkBrand
  <2> QED  BY <1>3, <2>1, <2>2
<1>5. ASSUME NEW lifecycle \in {"active", "suspended"}, J!SetTenantLifecycle(lifecycle)
      PROVE  JumpsInv'
  <2> PICK v : v = [w EXCEPT !.lifecycle = lifecycle]
    OBVIOUS
  <2>1. v \in World
    BY <1>1 DEF World
  <2>2. J!Becomes(v) /\ UNCHANGED <<clock, desk>>
    BY <1>5 DEF J!SetTenantLifecycle
  <2> QED  BY <1>3, <2>1, <2>2
<1>6. ASSUME NEW registry \in Registries, J!Registry(registry) PROVE JumpsInv'
  <2> PICK v : v = [w EXCEPT !.registry = registry]
    OBVIOUS
  <2>1. v \in World
    BY <1>1 DEF World
  <2>2. J!Becomes(v) /\ UNCHANGED <<clock, desk>>
    BY <1>6 DEF J!Registry
  <2> QED  BY <1>3, <2>1, <2>2
<1> QED  BY <1>2, <1>4, <1>5, <1>6

\* A merchant's request keeps what it was sent until it is saved.
LEMMA PutStep ==
    ASSUME JumpsInv, NEW r \in Editors, NEW items \in J!Matrices \cup {None},
           NEW ret \in ReturnRows \cup {None}, J!handleExtraJumpsPut(r, items, ret)
    PROVE  JumpsInv'
<1> PICK t : t = [at |-> "save", jumps |-> items, ret |-> ret]
  OBVIOUS
<1>1. AskSound(t)
  BY DEF AskSound
<1>2. J!Goto(r, t) /\ UNCHANGED <<clock, worlds>>
  BY DEF J!handleExtraJumpsPut, J!Read
<1> QED  BY <1>1, <1>2, AskReads

\* One member makes a sequence.
LEMMA SingleSequence == \A members, x : x \in members => <<x>> \in Seq(members)
OBVIOUS

\* Initially nobody asks.
LEMMA JumpsInitInv == J!JumpsInit => JumpsInv
<1> SUFFICES ASSUME J!JumpsInit PROVE JumpsInv
  OBVIOUS
<1>1. PICK registry \in Registries, s \in Stamps :
         worlds = <<[jumps |-> [k \in Kinds |-> None], ret |-> None, link |-> s,
                     hosts |-> {s.host} \ {""}, lifecycle |-> "active",
                     registry |-> registry]>>
  BY DEF J!JumpsInit
<1> PICK w : w = [jumps |-> [k \in Kinds |-> None], ret |-> None, link |-> s,
                  hosts |-> {s.host} \ {""}, lifecycle |-> "active", registry |-> registry]
  OBVIOUS
<1>2. s.host \in Hosts \cup {""}
  BY PublicAssumption DEF J!JumpsAssumption
<1>3. w \in World
  <2>1. [k \in Kinds |-> None] \in J!Matrices
    BY DEF J!Matrices
  <2> QED  BY <1>2, <2>1 DEF World
<1>4. worlds = <<w>>
  BY <1>1
<1>5. worlds \in Seq(World) /\ worlds # <<>>
  <2>1. <<w>> \in Seq(World)
    BY <1>3, SingleSequence
  <2>2. <<w>> # <<>>
    OBVIOUS
  <2> QED  BY <1>3, <1>4, <2>1, <2>2
<1>6. Asked = {} /\ desk = [r \in Guests \cup Editors |-> desk[r]] /\ clock \in Nat
  BY DEF J!JumpsInit, Asked
<1> QED  BY <1>5, <1>6 DEF JumpsInv

\* Every step keeps it.
LEMMA JumpsNextInv ==
    ASSUME JumpsInv, [J!JumpsNext]_J!jumpVars
    PROVE  JumpsInv'
<1>1. CASE UNCHANGED J!jumpVars
  <2>1. JumpsGrow /\ desk' = desk
    BY <1>1, ReadGrows DEF J!jumpVars
  <2> QED  BY <2>1, AroundStep
<1>2. CASE J!JumpsNext
  <2>1. ASSUME NEW r \in Guests \cup Editors, J!JumpsStep(r)
        PROVE  JumpsInv'
    <3>1. CASE J!RecordClick(r)
      BY <3>1, TurnedAway DEF J!RecordClick
    <3> QED  BY <2>1, <3>1, LinkStep, HostStep, ShellStep, TenantStep, ListStep, ReturnStep,
                DocumentStep, SaveMatrixStep DEF J!JumpsStep
  <2>2. ASSUME NEW r \in Guests, NEW host \in Hosts,
               \/ J!handlePublicExtraJumps(r, host) \/ J!handlePublicReturnClick(r, host)
               \/ \E kind \in Kinds : J!handlePublicExtraJumpClick(r, host, kind)
        PROVE  JumpsInv'
    BY <2>2, ArriveStep DEF J!handlePublicExtraJumps, J!handlePublicReturnClick,
       J!handlePublicExtraJumpClick
  <2> QED  BY <1>2, <2>1, <2>2, PutStep, WorldStep DEF J!JumpsNext
<1> QED  BY <1>1, <1>2

JumpsHeld == focus = "jumps" => JumpsInv

\* Whatever merchants save and revoke, hosts join, registry and tenant change and time
\* passes between the reads of a request, what a guest is given was open to him while he
\* asked (jumpDocument, handlePublicExtraJumpClick).
THEOREM GuestsAreLedWhereAllowed == Spec => []OfferedWasOpen
<1>1. JumpsHeld => OfferedWasOpen
  <2> SUFFICES ASSUME JumpsHeld, focus = "jumps", NEW r \in Guests, J!At(r, "answer")
               PROVE  LetIn(desk[r]) /\ \A o \in desk[r].offer : WasOpen(desk[r], o)
    BY DEF OfferedWasOpen, J!OfferedWasOpen, WasOpen, LetIn
  <2> QED  BY AskedSound DEF JumpsHeld, AskSound
<1>2. Init => JumpsHeld
  BY JumpsInitInv DEF Init, JumpsHeld
<1>3. JumpsHeld /\ [Next]_allVars => JumpsHeld'
  <2> SUFFICES ASSUME JumpsHeld, [Next]_allVars, focus' = "jumps"
               PROVE  JumpsInv'
    BY DEF JumpsHeld
  <2>1. focus = "jumps" /\ [J!JumpsNext]_J!jumpVars
    BY StepsOf
  <2> QED  BY <2>1, JumpsNextInv DEF JumpsHeld
<1> QED  BY <1>1, <1>2, <1>3, PTL DEF Spec

-----------------------------------------------------------------------------
(* Leads: by how much the cap of a day is overrun *)

today == L!Day(clock)

\* What a request is, at each step of its own.
FormTask == [at : {"form"}, campaign : Campaigns, found : BOOLEAN, notice : Notices]
LeadTask == [at : {"admit", "probe", "rules", "count", "trace", "insert"},
             campaign : Campaigns, contact : Contacts, notice : Notices,
             key : Nat \cup {None}, trace : Assets \cup {None}, cap : Caps \cup {None}]
StopTask == [at : {"revoke"}, lead : Nat, trace : Assets \cup {None}]

LeadTaskSound(t) ==
    \/ t \in FormTask
    \/ /\ t \in LeadTask /\ (t.at # "admit" => t.key \in Nat /\ t.key <= today)
       /\ t.at \in {"admit", "probe", "rules"} => t.cap = None
       /\ t.at = "count" => t.cap # None
    \/ t \in StopTask /\ t.lead \in DOMAIN leads

IntakeTyped ==
    /\ clock \in Nat
    /\ form \in [Campaigns -> Notices \cup {None}]
    /\ asset \in [Campaigns -> Assets \cup {None}]
    /\ cap \in [Campaigns -> Caps \cup {None}]
    /\ leads \in Seq(L!LeadSubmission)
    /\ \A l \in DOMAIN leads : leads[l].created <= today
    /\ desk = [r \in Requests |-> desk[r]]
    /\ \A r \in Requests : desk[r] # None => LeadTaskSound(desk[r])

\* The request may yet add a row of this contact today under a cap of at most n without
\* counting today's rows: it has been let through and its key is not taken, or it is of
\* an earlier day.
LooseTask(t, contact, n) ==
    /\ t # None /\ t.at \in {"probe", "rules", "count", "trace", "insert"}
    /\ t.contact = contact
    /\ \/ /\ t.at \in {"trace", "insert"} /\ L!DedupKey(t.campaign, t.contact, t.key) = {}
          /\ t.cap # None /\ t.cap <= n
       \/ t.at \in {"probe", "rules", "count"} /\ t.key < today

Loose(contact, n) == {r \in Requests : LooseTask(desk[r], contact, n)}

Count(contact, day, n) == Cardinality(L!Limited(contact, day, n))

\* A cap of nothing lets nothing through.
Lets(limit) == limit # None => limit # 0

ClosedInv ==
    /\ \A l \in DOMAIN leads : Lets(leads[l].cap)
    /\ \A r \in Requests :
          desk[r] # None /\ desk[r].at \in {"trace", "insert"} => Lets(desk[r].cap)

\* The rows of the day and those that may yet come uncounted stay below the bound.
OverrunInv ==
    \A n \in Nat \ {0}, contact \in Contacts :
        /\ \A day \in Nat : Count(contact, day, n) <= n + Cardinality(Requests) - 1
        /\ Count(contact, today, n) + Cardinality(Loose(contact, n))
               <= n + Cardinality(Requests) - 1

IntakeInv == IntakeTyped /\ ClosedInv /\ OverrunInv

-----------------------------------------------------------------------------

\* An instance counts like everybody.
LEMMA CountsAlike ==
    \A any : L!Cardinality(any) = Cardinality(any) /\ L!IsFiniteSet(any) = IsFiniteSet(any)
<1>1. \A any : L!Cardinality(any) = Cardinality(any)
  BY DEF L!Cardinality, Cardinality
<1>2. \A any : L!IsFiniteSet(any) = IsFiniteSet(any)
  BY DEF L!IsFiniteSet, IsFiniteSet
<1> QED  BY <1>1, <1>2

\* What is assumed of the constants.
LEMMA IntakeFacts ==
    /\ CurrentNotice \in Notices /\ Caps \subseteq Nat
    /\ DayLength \in Nat /\ DayLength > 0 /\ IsFiniteSet(Requests) /\ Requests # {}
    /\ Cardinality(Requests) \in Nat /\ Cardinality(Requests) >= 1
<1>1. /\ CurrentNotice \in Notices /\ Caps \subseteq Nat
      /\ DayLength \in Nat /\ DayLength > 0 /\ IsFiniteSet(Requests) /\ Requests # {}
  BY PublicAssumption, CountsAlike DEF L!IntakeAssumption
<1> QED  BY <1>1, FS_CardinalityType, FS_EmptySet

\* Days come one after the other.
LEMMA Days ==
    ASSUME NEW t \in Nat
    PROVE  L!Day(t) \in Nat /\ L!Day(t) <= L!Day(t + 1)
BY IntakeFacts DEF L!Day

\* Rows and requests are finitely many.
LEMMA CountIsNat ==
    ASSUME leads \in Seq(L!LeadSubmission), NEW contact, NEW day, NEW n
    PROVE  /\ IsFiniteSet(L!Limited(contact, day, n)) /\ Count(contact, day, n) \in Nat
           /\ L!Limited(contact, day, n) \subseteq 1..Len(leads) /\ Len(leads) \in Nat
<1>1. L!Limited(contact, day, n) \in SUBSET (1..Len(leads)) /\ Len(leads) \in Nat
  BY DEF L!Limited, L!Leads
<1>2. IsFiniteSet(1..Len(leads))
  BY <1>1, FS_Interval
<1>3. IsFiniteSet(L!Limited(contact, day, n))
  BY <1>1, <1>2, FS_Subset
<1> QED  BY <1>1, <1>3, FS_CardinalityType DEF Count

\* So are the loose requests.
LEMMA LooseIsNat ==
    ASSUME NEW contact, NEW n
    PROVE  /\ IsFiniteSet(Loose(contact, n)) /\ Cardinality(Loose(contact, n)) \in Nat
           /\ Cardinality(Loose(contact, n)) <= Cardinality(Requests)
<1>1. Loose(contact, n) \in SUBSET Requests
  BY DEF Loose
<1> QED  BY <1>1, IntakeFacts, FS_Subset, FS_CardinalityType

\* Whose number does not grow with fewer of them.
LEMMA FewerLoose ==
    ASSUME NEW contact, NEW n, NEW fewer \in SUBSET Loose(contact, n)
    PROVE  Cardinality(fewer) \in Nat /\ Cardinality(fewer) <= Cardinality(Loose(contact, n))
BY LooseIsNat, FS_Subset, FS_CardinalityType

\* The day's rows that a cap let in are among those that are counted.
LEMMA LimitedAreCounted ==
    ASSUME leads \in Seq(L!LeadSubmission), NEW contact, NEW day, NEW n
    PROVE  /\ Count(contact, day, n) <= L!CountContactSubmissionsOnDay(contact, day)
           /\ L!CountContactSubmissionsOnDay(contact, day) \in Nat
<1> PICK all : all = {l \in L!Leads : leads[l].contact = contact /\ leads[l].created = day}
  OBVIOUS
<1>1. all \in SUBSET (1..Len(leads)) /\ Len(leads) \in Nat
  BY DEF L!Leads
<1>2. IsFiniteSet(1..Len(leads))
  BY <1>1, FS_Interval
<1>3. IsFiniteSet(all) /\ Cardinality(all) \in Nat
  BY <1>1, <1>2, FS_Subset, FS_CardinalityType
<1>4. L!Limited(contact, day, n) \in SUBSET all
  BY DEF L!Limited
<1>5. Cardinality(L!Limited(contact, day, n)) <= Cardinality(all)
  BY <1>3, <1>4, FS_Subset
<1>6. L!CountContactSubmissionsOnDay(contact, day) = Cardinality(all)
  BY CountsAlike DEF L!CountContactSubmissionsOnDay
<1> QED  BY <1>3, <1>5, <1>6 DEF Count

\* A step that leaves of every row what is counted.
RowsKept ==
    /\ DOMAIN leads' = DOMAIN leads
    /\ \A l \in DOMAIN leads :
          /\ leads'[l].campaign = leads[l].campaign /\ leads'[l].contact = leads[l].contact
          /\ leads'[l].key = leads[l].key /\ leads'[l].created = leads[l].created
          /\ leads'[l].cap = leads[l].cap

\* Such a step keeps every count and every key.
LEMMA KeptRowsCount ==
    ASSUME RowsKept
    PROVE  /\ \A contact, day, n : Count(contact, day, n)' = Count(contact, day, n)
           /\ \A c, contact, day : L!DedupKey(c, contact, day)' = L!DedupKey(c, contact, day)
<1>1. \A contact, day, n : L!Limited(contact, day, n)' = L!Limited(contact, day, n)
  BY DEF RowsKept, L!Limited, L!Leads
<1> QED  BY <1>1 DEF RowsKept, Count, L!DedupKey, L!Leads

\* A step that changes what one request is about, and of the rows only what is not counted.
LEMMA DeskStep ==
    ASSUME IntakeInv, clock' = clock, RowsKept, leads' \in Seq(L!LeadSubmission),
           form' \in [Campaigns -> Notices \cup {None}],
           asset' \in [Campaigns -> Assets \cup {None}],
           cap' \in [Campaigns -> Caps \cup {None}],
           NEW r \in Requests, NEW t, L!Goto(r, t),
           t # None => LeadTaskSound(t)',
           t # None /\ t.at \in {"trace", "insert"} => Lets(t.cap),
           \A n \in Nat \ {0}, contact \in Contacts :
               LooseTask(t, contact, n)' => LooseTask(desk[r], contact, n)
    PROVE  IntakeInv'
<1>1. today' = today
  BY DEF today
<1>2. desk' = [q \in Requests |-> desk'[q]] /\ desk'[r] = t
      /\ \A q \in Requests : q # r => desk'[q] = desk[q]
  BY DEF L!Goto, IntakeInv, IntakeTyped
<1>3. IntakeTyped'
  <2>1. ASSUME NEW q \in Requests, desk'[q] # None
        PROVE  LeadTaskSound(desk[q])'
    <3>1. CASE q = r
      BY <1>2, <2>1, <3>1
    <3>2. CASE q # r
      <4>1. desk'[q] = desk[q] /\ LeadTaskSound(desk[q])
        BY <1>2, <2>1, <3>2 DEF IntakeInv, IntakeTyped
      <4> QED  BY <1>1, <4>1 DEF LeadTaskSound, RowsKept
    <3> QED  BY <3>1, <3>2
  <2>2. \A l \in DOMAIN leads' : leads'[l].created <= today'
    BY <1>1 DEF IntakeInv, IntakeTyped, RowsKept
  <2> QED  BY <1>2, <2>1, <2>2 DEF IntakeInv, IntakeTyped
<1>4. ClosedInv'
  <2>1. \A l \in DOMAIN leads' : Lets(leads'[l].cap)
    BY DEF ClosedInv, IntakeInv, RowsKept
  <2>2. \A q \in Requests :
           desk'[q] # None /\ desk'[q].at \in {"trace", "insert"} => Lets(desk'[q].cap)
    BY <1>2 DEF ClosedInv, IntakeInv
  <2> QED  BY <2>1, <2>2 DEF ClosedInv
<1>5. OverrunInv'
  <2>1. ASSUME NEW n \in Nat \ {0}, NEW contact \in Contacts
        PROVE  Loose(contact, n)' \in SUBSET Loose(contact, n)
    <3> SUFFICES ASSUME NEW q \in Requests, LooseTask(desk[q], contact, n)'
                 PROVE  LooseTask(desk[q], contact, n)
      BY DEF Loose
    <3>1. CASE q = r
      BY <1>2, <3>1
    <3>2. CASE q # r
      BY <1>1, <1>2, <3>2, KeptRowsCount DEF LooseTask
    <3> QED  BY <3>1, <3>2
  <2>2. ASSUME NEW n \in Nat \ {0}, NEW contact \in Contacts
        PROVE  Count(contact, today, n)' + Cardinality(Loose(contact, n)')
                   <= n + Cardinality(Requests) - 1
    <3>1. Count(contact, today, n)' = Count(contact, today, n)
      <4>1. L!Limited(contact, today, n)' = L!Limited(contact, today, n)
        BY <1>1 DEF RowsKept, L!Limited, L!Leads
      <4> QED  BY <4>1 DEF Count
    <3>2. Count(contact, today, n) \in Nat
      BY CountIsNat DEF IntakeInv, IntakeTyped
    <3>3. Count(contact, today, n) + Cardinality(Loose(contact, n))
              <= n + Cardinality(Requests) - 1
      BY DEF IntakeInv, OverrunInv
    <3>4. /\ Cardinality(Loose(contact, n)') \in Nat
          /\ Cardinality(Loose(contact, n)') <= Cardinality(Loose(contact, n))
      BY <2>1, FewerLoose
    <3> QED  BY <3>1, <3>2, <3>3, <3>4, LooseIsNat, IntakeFacts
  <2>3. \A contact, day, n : Count(contact, day, n)' = Count(contact, day, n)
    BY KeptRowsCount
  <2> QED  BY <2>2, <2>3 DEF IntakeInv, OverrunInv
<1> QED  BY <1>3, <1>4, <1>5 DEF IntakeInv

\* A step of a request that leaves rows and clock alone.
LEMMA RequestStep ==
    ASSUME IntakeInv, UNCHANGED <<clock, asset, cap, leads>>,
           form' \in [Campaigns -> Notices \cup {None}],
           NEW r \in Requests, NEW t, L!Goto(r, t), t # None => LeadTaskSound(t),
           t # None /\ t.at \in {"trace", "insert"} => Lets(t.cap),
           \A n \in Nat \ {0}, contact \in Contacts :
               LooseTask(t, contact, n) => LooseTask(desk[r], contact, n)
    PROVE  IntakeInv'
<1>1. RowsKept /\ leads' \in Seq(L!LeadSubmission)
      /\ asset' \in [Campaigns -> Assets \cup {None}] /\ cap' \in [Campaigns -> Caps \cup {None}]
  BY DEF RowsKept, IntakeInv, IntakeTyped
<1>2. LeadTaskSound(t)' = LeadTaskSound(t)
  BY DEF LeadTaskSound, today
<1>3. \A contact, n : LooseTask(t, contact, n)' = LooseTask(t, contact, n)
  BY DEF LooseTask, today, L!DedupKey, L!Leads
<1> QED  BY <1>1, <1>2, <1>3, DeskStep

\* What is stored of the form, and the two requests of the merchant.
LEMMA FormStep ==
    ASSUME IntakeInv, NEW r \in Requests,
           \/ \E c \in Campaigns, notice \in Notices : L!handleLeadFormUpsert(r, c, notice)
           \/ L!UpsertLeadForm(r)
    PROVE  IntakeInv'
<1>0. form \in [Campaigns -> Notices \cup {None}]
  BY DEF IntakeInv, IntakeTyped
<1>1. ASSUME NEW c \in Campaigns, NEW notice \in Notices, L!handleLeadFormUpsert(r, c, notice)
      PROVE  IntakeInv'
  <2> PICK t : t = [at |-> "form", campaign |-> c, found |-> form[c] # None, notice |-> notice]
    OBVIOUS
  <2>1. L!Goto(r, t) /\ UNCHANGED <<clock, form, asset, cap, leads>>
    BY <1>1 DEF L!handleLeadFormUpsert
  <2>2. t \in FormTask /\ t.at = "form"
    BY DEF FormTask
  <2>3. LeadTaskSound(t) /\ \A contact, n : ~ LooseTask(t, contact, n)
    BY <2>2 DEF LeadTaskSound, LooseTask
  <2> QED  BY <1>0, <2>1, <2>2, <2>3, RequestStep
<1>2. CASE L!UpsertLeadForm(r)
  <2>1. desk[r] \in FormTask
    <3>1. desk[r] # None /\ desk[r].at = "form" /\ LeadTaskSound(desk[r])
      BY <1>2 DEF L!UpsertLeadForm, L!At, IntakeInv, IntakeTyped
    <3> QED  BY <3>1 DEF LeadTaskSound, LeadTask, StopTask
  <2>2. form' \in [Campaigns -> Notices \cup {None}]
    BY <1>0, <1>2, <2>1 DEF L!UpsertLeadForm, FormTask
  <2>3. L!Goto(r, None) /\ UNCHANGED <<clock, asset, cap, leads>>
    BY <1>2 DEF L!UpsertLeadForm, L!Return
  <2>4. \A contact, n : ~ LooseTask(None, contact, n)
    BY DEF LooseTask
  <2> QED  BY <2>2, <2>3, <2>4, RequestStep
<1> QED  BY <1>1, <1>2

\* A request at a step of a submission is a submission.
LEMMA SubmissionAt ==
    ASSUME IntakeInv, NEW r \in Requests,
           \/ L!At(r, "admit") \/ L!At(r, "probe") \/ L!At(r, "rules") \/ L!At(r, "count")
           \/ L!At(r, "trace") \/ L!At(r, "insert")
    PROVE  /\ desk[r] # None /\ desk[r] \in LeadTask
           /\ desk[r].at # "admit" => desk[r].key \in Nat /\ desk[r].key <= today
           /\ desk[r].at \in {"admit", "probe", "rules"} => desk[r].cap = None
           /\ desk[r].at = "count" => desk[r].cap # None
<1>1. /\ desk[r] # None /\ LeadTaskSound(desk[r])
      /\ desk[r].at \in {"admit", "probe", "rules", "count", "trace", "insert"}
  BY DEF L!At, IntakeInv, IntakeTyped
<1> QED  BY <1>1 DEF LeadTaskSound, FormTask, StopTask

\* A submission is begun, admitted and probed, and its trace is read.
LEMMA SubmissionStep ==
    ASSUME IntakeInv, NEW r \in Requests,
           \/ \E c \in Campaigns, contact \in Contacts, consented \in Notices :
                 L!handlePublicLeadSubmit(r, c, contact, consented)
           \/ L!Admit(r) \/ L!Probe(r) \/ L!GetCampaignRulesByCampaign(r)
           \/ L!campaignLeadTrace(r)
    PROVE  IntakeInv'
<1>0. /\ form \in [Campaigns -> Notices \cup {None}] /\ asset \in [Campaigns -> Assets \cup {None}]
      /\ today \in Nat /\ cap \in [Campaigns -> Caps \cup {None}]
  BY Days DEF IntakeInv, IntakeTyped, today
<1>1. ASSUME NEW c \in Campaigns, NEW contact \in Contacts, NEW consented \in Notices,
             L!handlePublicLeadSubmit(r, c, contact, consented)
      PROVE  IntakeInv'
  <2> PICK t : t = [at |-> "admit", campaign |-> c, contact |-> contact, notice |-> form[c],
                    key |-> None, trace |-> None, cap |-> None]
    OBVIOUS
  <2>1. L!Goto(r, t) /\ UNCHANGED <<clock, form, asset, cap, leads>> /\ form[c] # None
    BY <1>1 DEF L!handlePublicLeadSubmit
  <2>2. t \in LeadTask /\ t.at = "admit" /\ t.cap = None
    BY <1>0, <2>1 DEF LeadTask
  <2>3. LeadTaskSound(t) /\ \A any, n : ~ LooseTask(t, any, n)
    BY <2>2 DEF LeadTaskSound, LooseTask
  <2> QED  BY <1>0, <2>1, <2>2, <2>3, RequestStep
<1>2. CASE L!Admit(r)
  <2> PICK t : t = [desk[r] EXCEPT !.at = "probe", !.key = today]
    OBVIOUS
  <2>1. L!Goto(r, t) /\ UNCHANGED <<clock, form, asset, cap, leads>>
    BY <1>2 DEF L!Admit, today
  <2>2. desk[r] \in LeadTask /\ desk[r].cap = None
    BY <1>2, SubmissionAt DEF L!Admit, L!At
  <2>3. t \in LeadTask /\ t.at = "probe" /\ t.key = today /\ t.cap = None
    BY <1>0, <2>2 DEF LeadTask
  <2>4. LeadTaskSound(t) /\ \A any, n : ~ LooseTask(t, any, n)
    BY <1>0, <2>3 DEF LeadTaskSound, LooseTask
  <2> QED  BY <1>0, <2>1, <2>3, <2>4, RequestStep
<1>3. CASE L!Probe(r)
  <2> PICK t : t = [desk[r] EXCEPT !.at = IF L!Same(r) # {} THEN "trace" ELSE "rules"]
    OBVIOUS
  <2>1. L!Goto(r, t) /\ UNCHANGED <<clock, form, asset, cap, leads>>
    BY <1>3 DEF L!Probe
  <2>2. /\ desk[r] \in LeadTask /\ desk[r].key \in Nat /\ desk[r].key <= today
        /\ desk[r].at = "probe" /\ desk[r] # None /\ desk[r].cap = None
    BY <1>3, SubmissionAt DEF L!Probe, L!At
  <2>3. /\ t \in LeadTask /\ t.key = desk[r].key /\ t.campaign = desk[r].campaign
        /\ t.contact = desk[r].contact /\ t.cap = desk[r].cap
        /\ t.at = IF L!Same(r) # {} THEN "trace" ELSE "rules"
    BY <2>2 DEF LeadTask
  <2>4. LeadTaskSound(t)
    BY <2>2, <2>3 DEF LeadTaskSound
  <2>5. \A any, n : LooseTask(t, any, n) => LooseTask(desk[r], any, n)
    BY <2>2, <2>3 DEF LooseTask, L!Same
  <2>6. Lets(t.cap)
    BY <2>2, <2>3 DEF Lets
  <2> QED  BY <1>0, <2>1, <2>4, <2>5, <2>6, RequestStep
<1>5. CASE L!GetCampaignRulesByCampaign(r)
  <2> PICK limit : limit = cap[desk[r].campaign]
    OBVIOUS
  <2> PICK t : t = [desk[r] EXCEPT !.at = IF limit = None THEN "trace" ELSE "count",
                                   !.cap = limit]
    OBVIOUS
  <2>1. L!Goto(r, t) /\ UNCHANGED <<clock, form, asset, cap, leads>>
    BY <1>5 DEF L!GetCampaignRulesByCampaign
  <2>2. /\ desk[r] \in LeadTask /\ desk[r].key \in Nat /\ desk[r].key <= today
        /\ desk[r].at = "rules" /\ desk[r] # None
    BY <1>5, SubmissionAt DEF L!GetCampaignRulesByCampaign, L!At
  <2>3. /\ t \in LeadTask /\ t.key = desk[r].key /\ t.campaign = desk[r].campaign
        /\ t.contact = desk[r].contact /\ t.cap = limit
        /\ t.at = IF limit = None THEN "trace" ELSE "count"
    BY <1>0, <2>2 DEF LeadTask
  <2>4. LeadTaskSound(t)
    BY <2>2, <2>3 DEF LeadTaskSound
  <2>5. \A any, n : LooseTask(t, any, n) => LooseTask(desk[r], any, n)
    BY <2>2, <2>3 DEF LooseTask
  <2>6. t.at \in {"trace", "insert"} => Lets(t.cap)
    BY <2>3 DEF Lets
  <2> QED  BY <1>0, <2>1, <2>3, <2>4, <2>5, <2>6, RequestStep
<1>4. CASE L!campaignLeadTrace(r)
  <2> PICK t : t = [desk[r] EXCEPT !.at = "insert", !.trace = asset[desk[r].campaign]]
    OBVIOUS
  <2>1. L!Goto(r, t) /\ UNCHANGED <<clock, form, asset, cap, leads>>
    BY <1>4 DEF L!campaignLeadTrace
  <2>2. /\ desk[r] \in LeadTask /\ desk[r].key \in Nat /\ desk[r].key <= today
        /\ desk[r].at = "trace" /\ desk[r] # None
    BY <1>4, SubmissionAt DEF L!campaignLeadTrace, L!At
  <2>3. /\ t \in LeadTask /\ t.key = desk[r].key /\ t.campaign = desk[r].campaign
        /\ t.contact = desk[r].contact /\ t.at = "insert" /\ t.cap = desk[r].cap
    BY <1>0, <2>2 DEF LeadTask
  <2>4. LeadTaskSound(t)
    BY <2>2, <2>3 DEF LeadTaskSound
  <2>5. \A any, n : LooseTask(t, any, n) => LooseTask(desk[r], any, n)
    BY <2>2, <2>3 DEF LooseTask
  <2>6. Lets(t.cap)
    BY <2>2, <2>3 DEF IntakeInv, ClosedInv
  <2> QED  BY <1>0, <2>1, <2>4, <2>5, <2>6, RequestStep
<1> QED  BY <1>1, <1>2, <1>3, <1>4, <1>5

\* The count lets a request through or ends it.
LEMMA CapStep ==
    ASSUME IntakeInv, NEW r \in Requests, L!EvaluateCap(r)
    PROVE  IntakeInv'
<1>0. form \in [Campaigns -> Notices \cup {None}] /\ leads \in Seq(L!LeadSubmission)
      /\ today \in Nat
  BY Days DEF IntakeInv, IntakeTyped, today
<1>1. /\ desk[r] \in LeadTask /\ desk[r].key \in Nat /\ desk[r].key <= today
      /\ desk[r].at = "count" /\ desk[r] # None /\ desk[r].cap # None
  BY SubmissionAt DEF L!EvaluateCap, L!At
<1>2. UNCHANGED <<clock, form, asset, cap, leads>>
  BY DEF L!EvaluateCap
<1>3. CASE L!Goto(r, None)
  <2>1. \A contact, n : ~ LooseTask(None, contact, n)
    BY DEF LooseTask
  <2> QED  BY <1>0, <1>2, <1>3, <2>1, RequestStep
<1>4. CASE ~ L!Goto(r, None)
  <2> PICK t : t = [desk[r] EXCEPT !.at = "trace"]
    OBVIOUS
  <2> PICK seen : seen = L!CountContactSubmissionsOnDay(desk[r].contact, desk[r].key)
    OBVIOUS
  <2>1. L!Goto(r, t) /\ seen < desk[r].cap
    BY <1>4 DEF L!EvaluateCap, L!underCap, L!Return
  <2>2. /\ t \in LeadTask /\ t.key = desk[r].key /\ t.campaign = desk[r].campaign
        /\ t.contact = desk[r].contact /\ t.at = "trace" /\ t.cap = desk[r].cap
    BY <1>1 DEF LeadTask
  <2>3. LeadTaskSound(t)
    BY <1>1, <2>2 DEF LeadTaskSound
  <2>4. /\ \A n : Count(t.contact, t.key, n) \in Nat /\ Count(t.contact, t.key, n) <= seen
        /\ seen \in Nat /\ t.cap \in Nat /\ seen < t.cap
    <3>1. \A n : Count(t.contact, t.key, n) <= seen /\ seen \in Nat
      BY <1>0, <2>2, LimitedAreCounted
    <3>2. \A n : Count(t.contact, t.key, n) \in Nat
      BY <1>0, CountIsNat
    <3>3. t.cap \in Nat
      BY <1>1, <2>2, IntakeFacts DEF LeadTask
    <3> QED  BY <2>1, <2>2, <3>1, <3>2, <3>3
  <2>5. Lets(t.cap)
    BY <2>4 DEF Lets
  <2>6. CASE t.key < today
    <3>1. \A any, n : LooseTask(t, any, n) => LooseTask(desk[r], any, n)
      BY <1>1, <2>2, <2>6 DEF LooseTask
    <3> QED  BY <1>0, <1>2, <2>1, <2>3, <2>5, <3>1, RequestStep
  <2>7. CASE t.key = today
    <3>0. desk' = [q \in Requests |-> desk'[q]] /\ desk'[r] = t
          /\ \A q \in Requests : q # r => desk'[q] = desk[q]
      BY <2>1 DEF L!Goto, IntakeInv, IntakeTyped
    <3>1. IntakeTyped'
      <4>1. \A q \in Requests : desk'[q] # None => LeadTaskSound(desk'[q])
        BY <2>3, <3>0 DEF IntakeInv, IntakeTyped
      <4>2. \A q \in Requests : desk'[q] # None => LeadTaskSound(desk[q])'
        BY <1>2, <4>1 DEF LeadTaskSound, today
      <4> QED  BY <1>2, <3>0, <4>2 DEF IntakeInv, IntakeTyped, today
    <3>2. ClosedInv'
      BY <1>2, <2>5, <3>0 DEF IntakeInv, ClosedInv
    <3>3. \A contact, day, n : Count(contact, day, n)' = Count(contact, day, n)
      BY <1>2 DEF Count, L!Limited, L!Leads
    <3>4. ASSUME NEW n \in Nat \ {0}, NEW contact \in Contacts
          PROVE  Count(contact, today, n)' + Cardinality(Loose(contact, n)')
                     <= n + Cardinality(Requests) - 1
      <4>1. Count(contact, today, n)' = Count(contact, today, n)
        BY <1>2 DEF today, Count, L!Limited, L!Leads
      <4>2. Loose(contact, n)' \in SUBSET Requests
        BY DEF Loose
      <4>3. /\ Cardinality(Loose(contact, n)') \in Nat
            /\ Cardinality(Loose(contact, n)') <= Cardinality(Requests)
        BY <4>2, IntakeFacts, FS_Subset, FS_CardinalityType
      <4>4. Count(contact, today, n) \in Nat
        BY <1>0, CountIsNat
      <4>5. CASE contact = t.contact /\ t.cap <= n
        <5>1. Count(contact, today, n) < n
          BY <2>4, <2>7, <4>5
        <5> QED  BY <4>1, <4>3, <4>4, <5>1, IntakeFacts
      <4>6. CASE ~ (contact = t.contact /\ t.cap <= n)
        <5>1. Loose(contact, n)' \in SUBSET Loose(contact, n)
          <6> SUFFICES ASSUME NEW q \in Requests, LooseTask(desk[q], contact, n)'
                       PROVE  LooseTask(desk[q], contact, n)
            BY DEF Loose
          <6>1. LooseTask(desk[q], contact, n)' = LooseTask(desk'[q], contact, n)
            BY <1>2 DEF LooseTask, today, L!DedupKey, L!Leads
          <6>2. CASE q = r
            BY <2>2, <3>0, <4>6, <6>1, <6>2 DEF LooseTask
          <6>3. CASE q # r
            BY <3>0, <6>1, <6>3
          <6> QED  BY <6>2, <6>3
        <5>2. Cardinality(Loose(contact, n)') <= Cardinality(Loose(contact, n))
          BY <5>1, FewerLoose
        <5>3. Count(contact, today, n) + Cardinality(Loose(contact, n))
                  <= n + Cardinality(Requests) - 1
          BY DEF IntakeInv, OverrunInv
        <5> QED  BY <4>1, <4>3, <4>4, <5>2, <5>3, LooseIsNat, IntakeFacts
      <4> QED  BY <4>5, <4>6
    <3>5. OverrunInv'
      BY <3>3, <3>4 DEF IntakeInv, OverrunInv
    <3> QED  BY <3>1, <3>2, <3>5 DEF IntakeInv
  <2> QED  BY <1>0, <1>1, <2>2, <2>6, <2>7
<1> QED  BY <1>3, <1>4

\* A row is stored, and the request that stores it was loose.
LEMMA SubmitStep ==
    ASSUME IntakeInv, NEW r \in Requests, L!SubmitLead(r)
    PROVE  IntakeInv'
<1>0. /\ form \in [Campaigns -> Notices \cup {None}] /\ leads \in Seq(L!LeadSubmission)
      /\ clock \in Nat /\ today \in Nat /\ today = L!Day(clock)
  BY Days DEF IntakeInv, IntakeTyped, today
<1>1. /\ desk[r] \in LeadTask /\ desk[r].key \in Nat /\ desk[r].key <= today
      /\ desk[r].at = "insert" /\ desk[r] # None
  BY SubmissionAt DEF L!SubmitLead, L!At
<1>2. L!Goto(r, None) /\ UNCHANGED <<clock, form, asset, cap>>
  BY DEF L!SubmitLead, L!Return
<1>3. \A contact, n : ~ LooseTask(None, contact, n)
  BY DEF LooseTask
<1>4. CASE L!Same(r) # {}
  <2>1. leads' = leads
    BY <1>4 DEF L!SubmitLead
  <2> QED  BY <1>0, <1>2, <1>3, <2>1, RequestStep
<1>5. CASE L!Same(r) = {}
  <2> PICK new : new = L!newLead(desk[r])
    OBVIOUS
  <2>1. leads' = Append(leads, new)
    BY <1>5 DEF L!SubmitLead
  <2>2. /\ new \in L!LeadSubmission /\ new.contact = desk[r].contact
        /\ new.created = today /\ new.cap = desk[r].cap
    BY <1>0, <1>1 DEF L!newLead, L!LeadSubmission, LeadTask
  <2>3. /\ leads' \in Seq(L!LeadSubmission) /\ Len(leads) \in Nat
        /\ DOMAIN leads = 1..Len(leads) /\ DOMAIN leads' = 1..(Len(leads) + 1)
        /\ leads'[Len(leads) + 1] = new
        /\ \A l \in DOMAIN leads : leads'[l] = leads[l]
    BY <1>0, <2>1, <2>2, AppendProperties
  <2>4. today' = today
    BY <1>2 DEF today
  <2>5. desk' = [q \in Requests |-> desk'[q]] /\ desk'[r] = None
        /\ \A q \in Requests : q # r => desk'[q] = desk[q]
    BY <1>2 DEF L!Goto, IntakeInv, IntakeTyped
  <2>6. IntakeTyped'
    <3>1. ASSUME NEW q \in Requests, desk'[q] # None PROVE LeadTaskSound(desk[q])'
      <4>1. desk'[q] = desk[q] /\ LeadTaskSound(desk[q])
        BY <2>5, <3>1 DEF IntakeInv, IntakeTyped
      <4> QED  BY <2>3, <2>4, <4>1 DEF LeadTaskSound
    <3>2. \A l \in DOMAIN leads' : leads'[l].created <= today'
      <4>1. \A l \in DOMAIN leads : leads[l].created <= today
        BY DEF IntakeInv, IntakeTyped
      <4>2. today <= today
        BY <1>0
      <4>3. \A l \in DOMAIN leads' : l \in DOMAIN leads \/ l = Len(leads) + 1
        BY <2>3
      <4> QED  BY <2>2, <2>3, <2>4, <4>1, <4>2, <4>3
    <3> QED  BY <1>2, <2>3, <2>5, <3>1, <3>2 DEF IntakeInv, IntakeTyped
  <2>7. ClosedInv'
    <3>1. Lets(new.cap)
      BY <1>1, <2>2 DEF IntakeInv, ClosedInv
    <3>2. \A l \in DOMAIN leads' : l \in DOMAIN leads \/ l = Len(leads) + 1
      BY <2>3
    <3> QED  BY <2>3, <2>5, <3>1, <3>2 DEF IntakeInv, ClosedInv
  <2>8. OverrunInv'
    <3> SUFFICES ASSUME NEW n \in Nat \ {0}, NEW contact \in Contacts
                 PROVE  /\ \A day \in Nat :
                              Count(contact, day, n)' <= n + Cardinality(Requests) - 1
                        /\ Count(contact, today, n)' + Cardinality(Loose(contact, n)')
                               <= n + Cardinality(Requests) - 1
      BY DEF OverrunInv
    <3> DEFINE own == contact = desk[r].contact /\ new.cap # None /\ new.cap <= n
    <3> HIDE DEF own
    \* One more of the contact's rows of today that count, or none.
    <3>1. ASSUME NEW day \in Nat
          PROVE  Count(contact, day, n)' = IF own /\ day = today THEN Count(contact, day, n) + 1
                                           ELSE Count(contact, day, n)
      <4> PICK old : old = L!Limited(contact, day, n)
        OBVIOUS
      <4> PICK grown : grown = L!Limited(contact, day, n)'
        OBVIOUS
      <4>1. IsFiniteSet(old) /\ old \subseteq 1..Len(leads) /\ Cardinality(old) \in Nat
        BY <1>0, CountIsNat DEF Count
      <4>2. Len(leads) + 1 \notin old
        BY <2>3, <4>1
      <4>3. \A l \in DOMAIN leads : l \in grown <=> l \in old
        BY <2>3 DEF L!Limited, L!Leads
      <4>4. Len(leads) + 1 \in grown <=> own /\ day = today
        BY <2>2, <2>3 DEF L!Limited, L!Leads, own
      <4>5. grown \subseteq DOMAIN leads' /\ old \subseteq DOMAIN leads
        BY DEF L!Limited, L!Leads
      <4>6. \A l \in DOMAIN leads' : l \in DOMAIN leads \/ l = Len(leads) + 1
        BY <2>3
      <4>7. CASE own /\ day = today
        <5>1. grown = old \cup {Len(leads) + 1}
          BY <2>3, <4>3, <4>4, <4>5, <4>6, <4>7
        <5>2. Cardinality(grown) = Cardinality(old) + 1
          BY <4>1, <4>2, <5>1, FS_AddElement
        <5> QED  BY <4>7, <5>2 DEF Count
      <4>8. CASE ~ (own /\ day = today)
        <5>1. grown = old
          BY <2>3, <4>3, <4>4, <4>5, <4>6, <4>8
        <5> QED  BY <4>8, <5>1 DEF Count
      <4> QED  BY <4>7, <4>8
    <3>2. Loose(contact, n)' \subseteq Loose(contact, n) /\ r \notin Loose(contact, n)'
      <4>1. ASSUME NEW q \in Requests, LooseTask(desk[q], contact, n)'
            PROVE  q # r /\ LooseTask(desk[q], contact, n)
        <5>1. q # r /\ desk'[q] = desk[q]
          BY <2>5, <4>1 DEF LooseTask
        <5>2. \A c, any, day : L!DedupKey(c, any, day)' = {} => L!DedupKey(c, any, day) = {}
          BY <2>3 DEF L!DedupKey, L!Leads
        <5> QED  BY <2>4, <4>1, <5>1, <5>2 DEF LooseTask
      <4> QED  BY <4>1 DEF Loose
    <3>3. own => r \in Loose(contact, n)
      BY <1>1, <1>5, <2>2 DEF own, Loose, LooseTask, L!Same, LeadTask
    <3>4. Count(contact, today, n)' = IF own THEN Count(contact, today, n) + 1
                                      ELSE Count(contact, today, n)
      <4> PICK d \in Nat : d = today
        BY <1>0
      <4>1. Count(contact, today, n)' = Count(contact, d, n)'
        BY <2>4 DEF Count, L!Limited
      <4> QED  BY <3>1, <4>1
    <3>5. Count(contact, today, n) \in Nat
      BY <1>0, CountIsNat
    <3>6. Count(contact, today, n) + Cardinality(Loose(contact, n))
              <= n + Cardinality(Requests) - 1
      BY DEF IntakeInv, OverrunInv
    <3>7. /\ IsFiniteSet(Loose(contact, n)) /\ Cardinality(Loose(contact, n)) \in Nat
          /\ Loose(contact, n)' \in SUBSET Loose(contact, n)
          /\ Cardinality(Loose(contact, n)') \in Nat
          /\ Cardinality(Loose(contact, n)') <= Cardinality(Loose(contact, n))
      BY <3>2, LooseIsNat, FewerLoose
    <3>8. Count(contact, today, n)' + Cardinality(Loose(contact, n)')
              <= n + Cardinality(Requests) - 1
      <4>1. CASE own
        <5>1. Loose(contact, n)' \in SUBSET (Loose(contact, n) \ {r})
          BY <3>2
        <5>2. /\ IsFiniteSet(Loose(contact, n) \ {r})
              /\ Cardinality(Loose(contact, n) \ {r}) = Cardinality(Loose(contact, n)) - 1
          BY <3>3, <3>7, <4>1, FS_RemoveElement
        <5>3. Cardinality(Loose(contact, n)') <= Cardinality(Loose(contact, n)) - 1
          BY <5>1, <5>2, FS_Subset
        <5> QED  BY <3>4, <3>5, <3>6, <3>7, <4>1, <5>3, IntakeFacts
      <4>2. CASE ~ own
        BY <3>4, <3>5, <3>6, <3>7, <4>2, IntakeFacts
      <4> QED  BY <4>1, <4>2
    \* What was counted and what was loose bound the count: the loose one has its row now.
    <3>9. ASSUME NEW day \in Nat
          PROVE  Count(contact, day, n)' <= n + Cardinality(Requests) - 1
      <4>1. CASE own /\ day = today
        <5>1. Count(contact, day, n)' = Count(contact, today, n)'
          BY <3>1, <3>4, <4>1
        <5>2. Count(contact, day, n)' \in Nat
          BY <3>1, <3>5, <4>1
        <5> QED  BY <3>7, <3>8, <5>1, <5>2, IntakeFacts
      <4>2. CASE ~ (own /\ day = today)
        BY <3>1, <4>2 DEF IntakeInv, OverrunInv
      <4> QED  BY <4>1, <4>2
    <3> QED  BY <3>8, <3>9
  <2> QED  BY <2>6, <2>7, <2>8 DEF IntakeInv
<1> QED  BY <1>4, <1>5

\* A revocation changes of its row nothing that is counted.
LEMMA LeadRevokeStep ==
    ASSUME IntakeInv, NEW r \in Requests,
           (\E l \in L!Leads : L!handlePublicLeadRevoke(r, l)) \/ L!RevokeLeadSubmission(r)
    PROVE  IntakeInv'
<1>0. /\ form \in [Campaigns -> Notices \cup {None}] /\ leads \in Seq(L!LeadSubmission)
      /\ asset \in [Campaigns -> Assets \cup {None}] /\ cap \in [Campaigns -> Caps \cup {None}]
  BY DEF IntakeInv, IntakeTyped
<1>1. \A contact, n : ~ LooseTask(None, contact, n)
  BY DEF LooseTask
<1>2. ASSUME NEW l \in L!Leads, L!handlePublicLeadRevoke(r, l)
      PROVE  IntakeInv'
  <2> PICK t : t = [at |-> "revoke", lead |-> l, trace |-> leads[l].trace]
    OBVIOUS
  <2>1. L!Goto(r, t) /\ UNCHANGED <<clock, form, asset, cap, leads>>
    BY <1>2 DEF L!handlePublicLeadRevoke, L!traceFromSubmitFact
  <2>2. l \in DOMAIN leads /\ l \in Nat /\ leads[l] \in L!LeadSubmission
    BY <1>0 DEF L!Leads
  <2>3. t \in StopTask /\ t.at = "revoke" /\ t.lead \in DOMAIN leads
    BY <2>2 DEF StopTask, L!LeadSubmission
  <2>4. LeadTaskSound(t) /\ \A any, n : ~ LooseTask(t, any, n)
    BY <2>3 DEF LeadTaskSound, LooseTask
  <2> QED  BY <1>0, <2>1, <2>3, <2>4, RequestStep
<1>3. CASE L!RevokeLeadSubmission(r)
  <2>1. desk[r] \in StopTask /\ desk[r].lead \in DOMAIN leads
    <3>1. desk[r] # None /\ desk[r].at = "revoke" /\ LeadTaskSound(desk[r])
      BY <1>3 DEF L!RevokeLeadSubmission, L!At, IntakeInv, IntakeTyped
    <3> QED  BY <3>1 DEF LeadTaskSound, LeadTask, FormTask
  <2> PICK n : n = desk[r].lead
    OBVIOUS
  <2> PICK row : row = IF leads[n].revoked THEN leads[n] ELSE
                       [leads[n] EXCEPT !.revoked = TRUE,
                            !.stop = IF leads[n].submit = "sent" THEN desk[r].trace ELSE @,
                            !.submit = IF @ = "pending" THEN "withheld" ELSE @]
    OBVIOUS
  <2>2. n \in DOMAIN leads /\ leads[n] \in L!LeadSubmission
    BY <1>0, <2>1
  <2>3. leads' = [leads EXCEPT ![n] = row]
    <3>1. CASE leads[n].revoked
      BY <1>0, <1>3, <2>2, <3>1 DEF L!RevokeLeadSubmission
    <3>2. CASE ~ leads[n].revoked
      BY <1>3, <2>2, <3>2 DEF L!RevokeLeadSubmission
    <3> QED  BY <3>1, <3>2
  <2>4. /\ row \in L!LeadSubmission /\ row.campaign = leads[n].campaign
        /\ row.contact = leads[n].contact /\ row.key = leads[n].key
        /\ row.created = leads[n].created /\ row.cap = leads[n].cap
    <3>1. CASE leads[n].revoked
      BY <2>2, <3>1
    <3>2. CASE ~ leads[n].revoked
      <4> PICK old : old = leads[n]
        OBVIOUS
      <4> PICK stop : stop = IF old.submit = "sent" THEN desk[r].trace ELSE old.stop
        OBVIOUS
      <4> PICK submit : submit = IF old.submit = "pending" THEN "withheld" ELSE old.submit
        OBVIOUS
      <4>1. /\ old \in L!LeadSubmission
            /\ stop \in {"none"} \cup Assets \cup {None}
            /\ submit \in {"pending", "sent", "withheld"}
        BY <2>1, <2>2 DEF L!LeadSubmission, StopTask
      <4>2. row = [old EXCEPT !.revoked = TRUE, !.stop = stop, !.submit = submit]
        BY <3>2
      <4>3. /\ row \in L!LeadSubmission /\ row.campaign = old.campaign
            /\ row.contact = old.contact /\ row.key = old.key
            /\ row.created = old.created /\ row.cap = old.cap
        BY ONLY <4>1, <4>2 DEF L!LeadSubmission
      <4> QED  BY <4>3
    <3> QED  BY <3>1, <3>2
  <2>5. RowsKept /\ leads' \in Seq(L!LeadSubmission)
    BY <1>0, <2>2, <2>3, <2>4 DEF RowsKept
  <2>6. L!Goto(r, None) /\ UNCHANGED <<clock, form, asset, cap>>
    BY <1>3 DEF L!RevokeLeadSubmission, L!Return
  <2>7. \A contact, any : ~ LooseTask(None, contact, any)'
    BY DEF LooseTask
  <2> QED  BY <1>0, <2>5, <2>6, <2>7, DeskStep
<1> QED  BY <1>2, <1>3

\* What happens around a day's requests, and nothing at all.
LEMMA IntakeAroundStep ==
    ASSUME IntakeInv,
           \/ UNCHANGED L!intakeVars
           \/ \E l \in L!Leads : L!MarkOutboxForwarded(l)
           \/ \E c \in Campaigns, a \in Assets \cup {None} : L!CampaignAssets(c, a)
           \/ \E c \in Campaigns, limit \in Caps \cup {None} : L!SaveCampaignRules(c, limit)
    PROVE  IntakeInv'
<1>0. /\ form \in [Campaigns -> Notices \cup {None}] /\ leads \in Seq(L!LeadSubmission)
      /\ asset \in [Campaigns -> Assets \cup {None}] /\ cap \in [Campaigns -> Caps \cup {None}]
      /\ desk = [r \in Requests |-> desk[r]]
  BY DEF IntakeInv, IntakeTyped
<1> PICK r \in Requests : TRUE
  BY IntakeFacts
<1>1. UNCHANGED <<clock, form, desk>>
  BY DEF L!intakeVars, L!MarkOutboxForwarded, L!CampaignAssets, L!SaveCampaignRules
<1>2. L!Goto(r, desk[r])
  BY <1>0, <1>1 DEF L!Goto
<1>3. /\ asset' \in [Campaigns -> Assets \cup {None}]
      /\ cap' \in [Campaigns -> Caps \cup {None}]
  BY <1>0 DEF L!intakeVars, L!MarkOutboxForwarded, L!CampaignAssets, L!SaveCampaignRules
<1>4. RowsKept /\ leads' \in Seq(L!LeadSubmission)
  <2>1. CASE leads' = leads
    BY <1>0, <2>1 DEF RowsKept
  <2>2. ASSUME NEW l \in L!Leads, L!MarkOutboxForwarded(l)
        PROVE  RowsKept /\ leads' \in Seq(L!LeadSubmission)
    <3> PICK row : row = [leads[l] EXCEPT !.submit = "sent"]
      OBVIOUS
    <3>1. l \in DOMAIN leads /\ leads[l] \in L!LeadSubmission
      BY <1>0 DEF L!Leads
    <3>2. leads' = [leads EXCEPT ![l] = row]
      BY <2>2 DEF L!MarkOutboxForwarded
    <3>3. /\ row \in L!LeadSubmission /\ row.campaign = leads[l].campaign
          /\ row.contact = leads[l].contact /\ row.key = leads[l].key
          /\ row.created = leads[l].created /\ row.cap = leads[l].cap
      BY <3>1 DEF L!LeadSubmission
    <3> QED  BY <1>0, <3>1, <3>2, <3>3 DEF RowsKept
  <2> QED  BY <2>1, <2>2 DEF L!intakeVars, L!CampaignAssets, L!SaveCampaignRules
<1>5. desk[r] # None => LeadTaskSound(desk[r])
  BY DEF IntakeInv, IntakeTyped
<1> PICK t : t = desk[r]
  OBVIOUS
<1>6. t # None => LeadTaskSound(t)'
  BY <1>1, <1>4, <1>5 DEF LeadTaskSound, RowsKept, today
<1>7. \A contact, n : LooseTask(t, contact, n)' => LooseTask(t, contact, n)
  BY <1>1, <1>4, KeptRowsCount DEF LooseTask, today
<1>8. t # None /\ t.at \in {"trace", "insert"} => Lets(t.cap)
  BY DEF IntakeInv, ClosedInv
<1> QED  BY <1>0, <1>1, <1>2, <1>3, <1>4, <1>6, <1>7, <1>8, DeskStep

\* A new day has no rows yet, and at most every request is loose.
LEMMA DayStep ==
    ASSUME IntakeInv, L!Tick
    PROVE  IntakeInv'
<1>0. /\ clock \in Nat /\ clock' = clock + 1 /\ UNCHANGED <<form, asset, cap, leads, desk>>
      /\ leads \in Seq(L!LeadSubmission)
  BY DEF L!Tick, IntakeInv, IntakeTyped
<1>1. today \in Nat /\ today' \in Nat /\ today <= today'
  <2>1. today' = L!Day(clock + 1) /\ clock + 1 \in Nat
    BY <1>0 DEF today, L!Day
  <2> QED  BY <1>0, <2>1, Days DEF today
<1>2. \A l \in DOMAIN leads : leads[l].created \in Nat /\ leads[l].created <= today
  <2>1. \A l \in DOMAIN leads : leads[l] \in L!LeadSubmission
    BY <1>0
  <2> QED  BY <2>1 DEF L!LeadSubmission, IntakeInv, IntakeTyped
<1>3. IntakeTyped'
  <2>1. ASSUME NEW q \in Requests, desk[q] # None PROVE LeadTaskSound(desk[q])'
    <3>1. LeadTaskSound(desk[q])
      BY <2>1 DEF IntakeInv, IntakeTyped
    <3> QED  BY <1>0, <1>1, <3>1 DEF LeadTaskSound
  <2> QED  BY <1>0, <1>1, <1>2, <2>1 DEF IntakeInv, IntakeTyped
<1>4. ClosedInv'
  BY <1>0 DEF IntakeInv, ClosedInv
<1>5. OverrunInv'
  <2>1. \A contact, day, n : Count(contact, day, n)' = Count(contact, day, n)
    BY <1>0 DEF Count, L!Limited, L!Leads
  <2>2. ASSUME NEW n \in Nat \ {0}, NEW contact \in Contacts
        PROVE  Count(contact, today, n)' + Cardinality(Loose(contact, n)')
                   <= n + Cardinality(Requests) - 1
    <3>1. CASE today' = today
      <4>1. Loose(contact, n)' = Loose(contact, n)
        BY <1>0, <3>1 DEF Loose, LooseTask, L!DedupKey, L!Leads
      <4>2. Count(contact, today, n)' = Count(contact, today, n)
        BY <1>0, <3>1 DEF Count, L!Limited, L!Leads
      <4> QED  BY <4>1, <4>2 DEF IntakeInv, OverrunInv
    <3>2. CASE today' # today
      <4>1. L!Limited(contact, today, n)' = {}
        BY <1>0, <1>1, <1>2, <3>2 DEF L!Limited, L!Leads
      <4>2. Count(contact, today, n)' = 0
        BY <4>1, FS_EmptySet DEF Count
      <4>3. Loose(contact, n)' \in SUBSET Requests
        BY DEF Loose
      <4>4. /\ Cardinality(Loose(contact, n)') \in Nat
            /\ Cardinality(Loose(contact, n)') <= Cardinality(Requests)
        BY <4>3, IntakeFacts, FS_Subset, FS_CardinalityType
      <4> QED  BY <4>2, <4>4, IntakeFacts
    <3> QED  BY <3>1, <3>2
  <2> QED  BY <2>1, <2>2 DEF IntakeInv, OverrunInv
<1> QED  BY <1>3, <1>4, <1>5 DEF IntakeInv

\* Every step keeps it.
LEMMA IntakeNextInv ==
    ASSUME IntakeInv, [L!IntakeNext]_L!intakeVars
    PROVE  IntakeInv'
<1>1. CASE UNCHANGED L!intakeVars
  BY <1>1, IntakeAroundStep
<1>2. CASE L!IntakeNext
  <2>1. ASSUME NEW r \in Requests, L!IntakeStep(r) PROVE IntakeInv'
    BY <2>1, FormStep, SubmissionStep, CapStep, SubmitStep, LeadRevokeStep DEF L!IntakeStep
  <2>2. ASSUME NEW r \in Requests,
               \/ \E c \in Campaigns, notice \in Notices : L!handleLeadFormUpsert(r, c, notice)
               \/ \E c \in Campaigns, contact \in Contacts, consented \in Notices :
                     L!handlePublicLeadSubmit(r, c, contact, consented)
               \/ \E l \in L!Leads : L!handlePublicLeadRevoke(r, l)
        PROVE  IntakeInv'
    BY <2>2, FormStep, SubmissionStep, LeadRevokeStep
  <2> QED  BY <1>2, <2>1, <2>2, IntakeAroundStep, DayStep DEF L!IntakeNext
<1> QED  BY <1>1, <1>2

\* Initially there are no leads.
LEMMA IntakeInitInv == L!IntakeInit => IntakeInv
<1> SUFFICES ASSUME L!IntakeInit PROVE IntakeInv
  OBVIOUS
<1>1. /\ clock = 0 /\ form = [c \in Campaigns |-> None] /\ asset = [c \in Campaigns |-> None]
      /\ cap = [c \in Campaigns |-> None] /\ leads = <<>> /\ desk = [r \in Requests |-> None]
  BY DEF L!IntakeInit
<1>2. leads \in Seq(L!LeadSubmission)
  <2>1. <<>> \in Seq(L!LeadSubmission)
    OBVIOUS
  <2> QED  BY <1>1, <2>1
<1>3. IntakeTyped
  BY <1>1, <1>2 DEF IntakeTyped
<1>4. ASSUME NEW contact, NEW day, NEW n PROVE Count(contact, day, n) = 0
  <2>1. L!Limited(contact, day, n) = {}
    BY <1>1 DEF L!Limited, L!Leads
  <2> QED  BY <2>1, FS_EmptySet DEF Count
<1>5. ASSUME NEW contact, NEW n PROVE Cardinality(Loose(contact, n)) = 0
  <2>1. Loose(contact, n) = {}
    BY <1>1 DEF Loose, LooseTask
  <2> QED  BY <2>1, FS_EmptySet
<1>6. ClosedInv
  BY <1>1 DEF ClosedInv
<1>7. OverrunInv
  BY <1>4, <1>5, IntakeFacts DEF OverrunInv
<1> QED  BY <1>3, <1>6, <1>7 DEF IntakeInv

IntakeHeld == focus = "leads" => IntakeInv

\* However the requests of a contact's forms overlap, whatever the merchants set as caps
\* meanwhile and whichever requests are under way at midnight, of the rows that a cap of at
\* most n let in a day has no more than n and the requests but one (EvaluateCap,
\* CountContactSubmissionsOnDay).
THEOREM CapIsNearlyKept == Spec => []CapOverrunIsBounded
<1>1. IntakeHeld => CapOverrunIsBounded
  <2> SUFFICES ASSUME IntakeInv, NEW n \in Caps, NEW contact \in Contacts,
                      NEW day \in 0..L!Day(MaxTime)
               PROVE  L!Cardinality(L!Limited(contact, day, n))
                          <= n + L!Cardinality(Requests) - 1
    BY DEF IntakeHeld, CapOverrunIsBounded, L!CapOverrunIsBounded
  <2>1. day \in Nat /\ n \in Nat
    BY IntakeFacts
  <2>2. /\ L!Cardinality(L!Limited(contact, day, n)) = Count(contact, day, n)
        /\ L!Cardinality(Requests) = Cardinality(Requests)
    BY CountsAlike DEF Count
  <2>3. CASE n = 0
    <3>1. ASSUME NEW l \in L!Limited(contact, day, n) PROVE FALSE
      <4>1. /\ l \in DOMAIN leads /\ leads[l].cap # None /\ leads[l].cap <= 0
            /\ leads[l] \in L!LeadSubmission
        BY <2>3, <3>1 DEF L!Limited, L!Leads, IntakeInv, IntakeTyped
      <4>2. leads[l].cap \in Nat
        BY <4>1, IntakeFacts DEF L!LeadSubmission
      <4>3. leads[l].cap = 0
        BY <4>1, <4>2
      <4> QED  BY <4>1, <4>3 DEF IntakeInv, ClosedInv, Lets
    <3>2. Count(contact, day, n) = 0
      BY <3>1, FS_EmptySet DEF Count
    <3> QED  BY <2>2, <2>3, <3>2, IntakeFacts
  <2>4. CASE n # 0
    BY <2>1, <2>2, <2>4 DEF IntakeInv, OverrunInv
  <2> QED  BY <2>3, <2>4
<1>2. Init => IntakeHeld
  BY IntakeInitInv DEF Init, IntakeHeld
<1>3. IntakeHeld /\ [Next]_allVars => IntakeHeld'
  BY StepsOf, IntakeNextInv DEF IntakeHeld
<1> QED  BY <1>1, <1>2, <1>3, PTL DEF Spec

\* There is one row of a key, what a stop says is what its submission said, and so is
\* what a request that revokes has read.
LeadsSound ==
    /\ L!OneLeadPerKey /\ L!StopRepeatsSource
    /\ \A r \in Requests :
          L!At(r, "revoke") => /\ desk[r].lead \in DOMAIN leads
                               /\ desk[r].trace = leads[desk[r].lead].trace

\* Initially nothing is stored.
LEMMA LeadsSoundInit == L!IntakeInit => LeadsSound
BY DEF L!IntakeInit, LeadsSound, L!OneLeadPerKey, L!StopRepeatsSource, L!Leads, L!At, L!DedupKey

\* A request goes on, and no row changes.
LEMMA GoesOn ==
    ASSUME IntakeInv, LeadsSound, leads' = leads, NEW r \in Requests, NEW t, L!Goto(r, t),
           t # None /\ t.at = "revoke" =>
               t.lead \in DOMAIN leads /\ t.trace = leads[t.lead].trace
    PROVE  LeadsSound'
<1>1. desk'[r] = t /\ \A q \in Requests : q # r => desk'[q] = desk[q]
  BY DEF L!Goto, IntakeInv, IntakeTyped
<1>2. (L!OneLeadPerKey /\ L!StopRepeatsSource)'
  BY DEF LeadsSound, L!OneLeadPerKey, L!StopRepeatsSource, L!Leads, L!DedupKey
<1> QED  BY <1>1, <1>2 DEF LeadsSound, L!At

\* One row changes, in none of what the key and the source are.
LEMMA RowChanges ==
    ASSUME IntakeInv, LeadsSound, NEW n \in DOMAIN leads, NEW row \in L!LeadSubmission,
           leads' = [leads EXCEPT ![n] = row], row.campaign = leads[n].campaign,
           row.contact = leads[n].contact, row.key = leads[n].key,
           row.trace = leads[n].trace,
           row.stop # "none" => row.revoked /\ row.submit = "sent" /\ row.stop = row.trace,
           \A q \in Requests : desk'[q] # None => desk'[q] = desk[q]
    PROVE  LeadsSound'
<1>1. DOMAIN leads' = DOMAIN leads /\ leads'[n] = row
      /\ \A l \in DOMAIN leads : l # n => leads'[l] = leads[l]
  BY DEF IntakeInv, IntakeTyped
<1>2. \A l \in DOMAIN leads : leads'[l].campaign = leads[l].campaign
         /\ leads'[l].contact = leads[l].contact /\ leads'[l].key = leads[l].key
         /\ leads'[l].trace = leads[l].trace
  BY <1>1
<1>3. L!OneLeadPerKey'
  BY <1>1, <1>2 DEF LeadsSound, L!OneLeadPerKey, L!Leads, L!DedupKey
<1>4. L!StopRepeatsSource'
  BY <1>1 DEF LeadsSound, L!StopRepeatsSource, L!Leads
<1>5. ASSUME NEW q \in Requests, L!At(q, "revoke")'
      PROVE  desk'[q].lead \in DOMAIN leads' /\ desk'[q].trace = leads'[desk'[q].lead].trace
  <2>1. desk'[q] = desk[q] /\ L!At(q, "revoke")
    BY <1>5 DEF L!At
  <2> QED  BY <1>1, <1>2, <2>1 DEF LeadsSound
<1> QED  BY <1>3, <1>4, <1>5 DEF LeadsSound

\* Every step keeps it.
LEMMA LeadsStaySound ==
    ASSUME IntakeInv, LeadsSound, [L!IntakeNext]_L!intakeVars
    PROVE  LeadsSound'
<1>0. leads \in Seq(L!LeadSubmission) /\ desk = [r \in Requests |-> desk[r]]
  BY DEF IntakeInv, IntakeTyped
<1>1. CASE UNCHANGED <<leads, desk>>
  BY <1>1 DEF LeadsSound, L!OneLeadPerKey, L!StopRepeatsSource, L!Leads, L!DedupKey, L!At
<1>2. ASSUME NEW r \in Requests, NEW c \in Campaigns, NEW notice \in Notices,
             L!handleLeadFormUpsert(r, c, notice)
      PROVE  LeadsSound'
  <2> PICK t : t = [at |-> "form", campaign |-> c, found |-> form[c] # None, notice |-> notice]
    OBVIOUS
  <2>1. L!Goto(r, t) /\ leads' = leads /\ t.at = "form"
    BY <1>2 DEF L!handleLeadFormUpsert
  <2> QED  BY <2>1, GoesOn
<1>3. ASSUME NEW r \in Requests, NEW c \in Campaigns, NEW contact \in Contacts,
             NEW consented \in Notices, L!handlePublicLeadSubmit(r, c, contact, consented)
      PROVE  LeadsSound'
  <2> PICK t : t = [at |-> "admit", campaign |-> c, contact |-> contact, notice |-> form[c],
                    key |-> None, trace |-> None, cap |-> None]
    OBVIOUS
  <2>1. L!Goto(r, t) /\ leads' = leads /\ t.at = "admit"
    BY <1>3 DEF L!handlePublicLeadSubmit
  <2> QED  BY <2>1, GoesOn
<1>4. ASSUME NEW r \in Requests, NEW l \in L!Leads, L!handlePublicLeadRevoke(r, l)
      PROVE  LeadsSound'
  <2> PICK t : t = [at |-> "revoke", lead |-> l, trace |-> leads[l].trace]
    OBVIOUS
  <2>1. /\ L!Goto(r, t) /\ leads' = leads /\ t.lead \in DOMAIN leads
        /\ t.trace = leads[t.lead].trace
    BY <1>4 DEF L!handlePublicLeadRevoke, L!traceFromSubmitFact, L!Leads
  <2> QED  BY <2>1, GoesOn
<1>5. ASSUME NEW r \in Requests,
             \/ L!Admit(r) \/ L!Probe(r) \/ L!GetCampaignRulesByCampaign(r)
             \/ L!EvaluateCap(r) \/ L!campaignLeadTrace(r)
      PROVE  LeadsSound'
  <2>1. desk[r] \in LeadTask
    BY <1>5, SubmissionAt DEF L!Admit, L!Probe, L!GetCampaignRulesByCampaign, L!EvaluateCap,
       L!campaignLeadTrace
  <2>2. \E t : L!Goto(r, t) /\ (t # None => t.at # "revoke")
    <3>1. CASE L!Admit(r)
      <4> PICK t : t = [desk[r] EXCEPT !.at = "probe", !.key = today]
        OBVIOUS
      <4>1. L!Goto(r, t) /\ t.at = "probe"
        BY <2>1, <3>1 DEF L!Admit, today, LeadTask
      <4> QED  BY <4>1
    <3>2. CASE L!Probe(r)
      <4> PICK t : t = [desk[r] EXCEPT !.at = IF L!Same(r) # {} THEN "trace" ELSE "rules"]
        OBVIOUS
      <4>1. L!Goto(r, t) /\ t.at \in {"trace", "rules"}
        BY <2>1, <3>2 DEF L!Probe, LeadTask
      <4> QED  BY <4>1
    <3>3. CASE L!EvaluateCap(r) /\ ~ L!Goto(r, None)
      <4> PICK t : t = [desk[r] EXCEPT !.at = "trace"]
        OBVIOUS
      <4>1. L!Goto(r, t) /\ t.at = "trace"
        BY <2>1, <3>3 DEF L!EvaluateCap, L!Return, LeadTask
      <4> QED  BY <4>1
    <3>4. CASE L!campaignLeadTrace(r)
      <4> PICK t : t = [desk[r] EXCEPT !.at = "insert", !.trace = asset[desk[r].campaign]]
        OBVIOUS
      <4>1. L!Goto(r, t) /\ t.at = "insert"
        BY <2>1, <3>4 DEF L!campaignLeadTrace, LeadTask
      <4> QED  BY <4>1
    <3>5. CASE L!GetCampaignRulesByCampaign(r)
      <4> PICK limit : limit = cap[desk[r].campaign]
        OBVIOUS
      <4> PICK t : t = [desk[r] EXCEPT !.at = IF limit = None THEN "trace" ELSE "count",
                                       !.cap = limit]
        OBVIOUS
      <4>1. L!Goto(r, t) /\ t.at \in {"trace", "count"}
        BY <2>1, <3>5 DEF L!GetCampaignRulesByCampaign, LeadTask
      <4> QED  BY <4>1
    <3> QED  BY <1>5, <3>1, <3>2, <3>3, <3>4, <3>5
  <2>3. leads' = leads
    BY <1>5 DEF L!Admit, L!Probe, L!GetCampaignRulesByCampaign, L!EvaluateCap,
       L!campaignLeadTrace
  <2> QED  BY <2>2, <2>3, GoesOn
<1>6. ASSUME NEW r \in Requests, L!UpsertLeadForm(r) PROVE LeadsSound'
  <2>1. L!Goto(r, None) /\ leads' = leads
    BY <1>6 DEF L!UpsertLeadForm, L!Return
  <2> QED  BY <2>1, GoesOn
<1>7. ASSUME NEW r \in Requests, L!SubmitLead(r) PROVE LeadsSound'
  <2>1. L!Goto(r, None)
    BY <1>7 DEF L!SubmitLead, L!Return
  <2>2. CASE leads' = leads
    BY <2>1, <2>2, GoesOn
  <2>3. CASE L!Same(r) = {} /\ leads' = Append(leads, L!newLead(desk[r]))
    <3> PICK new : new = L!newLead(desk[r])
      OBVIOUS
    <3>1. /\ Len(leads) \in Nat /\ DOMAIN leads = 1..Len(leads)
          /\ DOMAIN leads' = 1..(Len(leads) + 1) /\ leads'[Len(leads) + 1] = new
          /\ \A l \in DOMAIN leads : leads'[l] = leads[l]
      <4>1. /\ desk[r] \in LeadTask /\ desk[r].at = "insert" /\ desk[r].key \in Nat
        BY <1>7, SubmissionAt DEF L!SubmitLead, L!At
      <4>2. new \in L!LeadSubmission
        <5>1. clock \in Nat /\ L!Day(clock) \in Nat
          BY Days DEF IntakeInv, IntakeTyped
        <5> QED  BY <4>1, <5>1 DEF L!newLead, L!LeadSubmission, LeadTask
      <4> QED  BY <1>0, <2>3, <4>2, AppendProperties
    <3>2. /\ new.campaign = desk[r].campaign /\ new.contact = desk[r].contact
          /\ new.key = desk[r].key /\ new.stop = "none"
      BY DEF L!newLead
    <3>3. \A l \in DOMAIN leads : ~ /\ leads[l].campaign = desk[r].campaign
                                    /\ leads[l].contact = desk[r].contact
                                    /\ leads[l].key = desk[r].key
      BY <2>3 DEF L!Same, L!DedupKey, L!Leads
    <3>4. \A l \in DOMAIN leads' : l \in DOMAIN leads \/ l = Len(leads) + 1
      BY <3>1
    <3>5. L!OneLeadPerKey'
      <4>1. \A l, k \in DOMAIN leads :
                /\ leads[k].campaign = leads[l].campaign /\ leads[k].contact = leads[l].contact
                /\ leads[k].key = leads[l].key
                => k = l
        BY DEF LeadsSound, L!OneLeadPerKey, L!DedupKey, L!Leads
      <4>2. \A l, k \in DOMAIN leads' :
                /\ leads'[k].campaign = leads'[l].campaign
                /\ leads'[k].contact = leads'[l].contact /\ leads'[k].key = leads'[l].key
                => k = l
        BY <3>1, <3>2, <3>3, <3>4, <4>1
      <4> QED  BY <4>2 DEF L!OneLeadPerKey, L!DedupKey, L!Leads
    <3>6. L!StopRepeatsSource'
      BY <3>1, <3>2, <3>4 DEF LeadsSound, L!StopRepeatsSource, L!Leads
    <3>7. ASSUME NEW q \in Requests, L!At(q, "revoke")'
          PROVE  desk'[q].lead \in DOMAIN leads' /\ desk'[q].trace = leads'[desk'[q].lead].trace
      <4>1. desk'[q] = desk[q] /\ L!At(q, "revoke")
        BY <1>0, <2>1, <3>7 DEF L!Goto, L!At
      <4>2. desk[q].lead \in DOMAIN leads /\ desk[q].trace = leads[desk[q].lead].trace
        BY <4>1 DEF LeadsSound
      <4> QED  BY <3>1, <4>1, <4>2
    <3> QED  BY <3>5, <3>6, <3>7 DEF LeadsSound
  <2> QED  BY <1>7, <2>2, <2>3 DEF L!SubmitLead
<1>8. ASSUME NEW r \in Requests, L!RevokeLeadSubmission(r) PROVE LeadsSound'
  <2>1. L!At(r, "revoke") /\ L!Goto(r, None) /\ desk[r].lead \in DOMAIN leads
        /\ desk[r].trace = leads[desk[r].lead].trace
    BY <1>8 DEF L!RevokeLeadSubmission, LeadsSound, L!Return
  <2> PICK n : n = desk[r].lead
    OBVIOUS
  <2>2. n \in DOMAIN leads /\ leads[n] \in L!LeadSubmission /\ desk[r].trace = leads[n].trace
    BY <1>0, <2>1
  <2>3. CASE leads[n].revoked
    <3>1. leads' = leads
      BY <1>8, <2>3 DEF L!RevokeLeadSubmission
    <3> QED  BY <2>1, <3>1, GoesOn
  <2>4. CASE ~ leads[n].revoked
    <3>1. leads[n].stop = "none"
      BY <2>2, <2>4 DEF LeadsSound, L!StopRepeatsSource, L!Leads
    <3>2. PICK row \in L!LeadSubmission :
             /\ leads' = [leads EXCEPT ![n] = row]
             /\ row.campaign = leads[n].campaign /\ row.contact = leads[n].contact
             /\ row.key = leads[n].key /\ row.trace = leads[n].trace
             /\ row.stop # "none" =>
                    row.revoked /\ row.submit = "sent" /\ row.stop = row.trace
      <4> PICK new : new = [leads[n] EXCEPT !.revoked = TRUE,
                                !.stop = IF leads[n].submit = "sent" THEN desk[r].trace ELSE @,
                                !.submit = IF @ = "pending" THEN "withheld" ELSE @]
        OBVIOUS
      <4>1. leads' = [leads EXCEPT ![n] = new]
        BY <1>8, <2>2, <2>4 DEF L!RevokeLeadSubmission
      <4>2. /\ new \in L!LeadSubmission /\ new.campaign = leads[n].campaign
            /\ new.contact = leads[n].contact /\ new.key = leads[n].key
            /\ new.trace = leads[n].trace /\ new.revoked
            /\ new.stop = IF leads[n].submit = "sent" THEN desk[r].trace ELSE leads[n].stop
            /\ new.submit = IF leads[n].submit = "pending" THEN "withheld" ELSE leads[n].submit
        BY <2>2 DEF L!LeadSubmission
      <4>3. new.stop # "none" => new.revoked /\ new.submit = "sent" /\ new.stop = new.trace
        BY <2>2, <3>1, <4>2
      <4> QED  BY <4>1, <4>2, <4>3
    <3>3. \A q \in Requests : desk'[q] # None => desk'[q] = desk[q]
      BY <1>0, <2>1 DEF L!Goto
    <3> QED  BY <2>2, <3>2, <3>3, RowChanges
  <2> QED  BY <2>3, <2>4
<1>9. ASSUME NEW l \in L!Leads, L!MarkOutboxForwarded(l) PROVE LeadsSound'
  <2> PICK row : row = [leads[l] EXCEPT !.submit = "sent"]
    OBVIOUS
  <2>1. l \in DOMAIN leads /\ leads[l] \in L!LeadSubmission /\ leads[l].submit = "pending"
    BY <1>0, <1>9 DEF L!Leads, L!MarkOutboxForwarded
  <2>2. leads' = [leads EXCEPT ![l] = row] /\ desk' = desk
    BY <1>9 DEF L!MarkOutboxForwarded
  <2>3. leads[l].stop = "none"
    BY <2>1 DEF LeadsSound, L!StopRepeatsSource, L!Leads
  <2>4. /\ row \in L!LeadSubmission /\ row.campaign = leads[l].campaign
        /\ row.contact = leads[l].contact /\ row.key = leads[l].key
        /\ row.trace = leads[l].trace /\ row.stop = leads[l].stop
    BY <2>1 DEF L!LeadSubmission
  <2> QED  BY <2>1, <2>2, <2>3, <2>4, RowChanges
<1>10. CASE \/ L!Tick \/ \E c \in Campaigns, a \in Assets \cup {None} : L!CampaignAssets(c, a)
            \/ \E c \in Campaigns, limit \in Caps \cup {None} : L!SaveCampaignRules(c, limit)
  <2>1. UNCHANGED <<leads, desk>>
    BY <1>10 DEF L!Tick, L!CampaignAssets, L!SaveCampaignRules
  <2> QED  BY <1>1, <2>1
<1>11. CASE UNCHANGED L!intakeVars
  BY <1>1, <1>11 DEF L!intakeVars
<1> QED  BY <1>2, <1>3, <1>4, <1>5, <1>6, <1>7, <1>8, <1>9, <1>10, <1>11
         DEF L!IntakeNext, L!IntakeStep

LeadsHeld == focus = "leads" => IntakeInv /\ LeadsSound

\* However often, and at whatever moments, a contact submits a campaign's form and the
\* requests overlap, there is one lead of a key; and what is sent after a revocation
\* names the source the submission named, whatever the campaign shows by then (SubmitLead,
\* traceFromSubmitFact).
THEOREM OneLeadAndItsSource ==
    Spec => [](focus = "leads" => L!OneLeadPerKey /\ L!StopRepeatsSource)
<1>1. LeadsHeld => (focus = "leads" => L!OneLeadPerKey /\ L!StopRepeatsSource)
  BY DEF LeadsHeld, LeadsSound
<1>2. Init => LeadsHeld
  BY IntakeInitInv, LeadsSoundInit DEF Init, LeadsHeld
<1>3. LeadsHeld /\ [Next]_allVars => LeadsHeld'
  BY StepsOf, IntakeNextInv, LeadsStaySound DEF LeadsHeld
<1> QED  BY <1>1, <1>2, <1>3, PTL DEF Spec

-----------------------------------------------------------------------------
(* Touchpoints: cards land somewhere, and what is cached decides like the tables *)

LinkRow     == [campaign : Campaigns, enabled : BOOLEAN]
AnyWindow   == Windows \cup {T!Running.window}
CampaignRow == [status : T!CampaignStatuses, window : AnyWindow, shop : Shops \cup {None}]
TagRow      == [link : Nat, group : Groups \cup {None}, status : {"active", "disabled"}]
AliasRow    == [tag : Tags \cup {None}, campaign : Campaigns, status : {"active", "disabled"},
                stage : Nat]

\* What the theorems assume of the markers for no row and for no request.
NoneIsNoRecord ==
    /\ None \notin CampaignRow \cup AliasRow /\ None \notin Nat /\ None # "disabled"
    /\ Idle # T!Bumping

\* The campaign has a short code to land on.
Landed(c) == \E l \in DOMAIN links : links[l].campaign = c

Tables ==
    /\ shops \in [Shops -> {"active", "disabled"}]
    /\ groups \subseteq Groups
    /\ campaigns = [c \in Campaigns |-> campaigns[c]]
    /\ \A c \in Campaigns : campaigns[c] # None => campaigns[c] \in CampaignRow
    /\ links \in Seq(LinkRow)
    /\ \A l \in DOMAIN links : campaigns[links[l].campaign] # None
    /\ tags = [tag \in Tags |-> tags[tag]]
    /\ \A tag \in Tags :
          tags[tag] # None => tags[tag] \in TagRow /\ tags[tag].link \in DOMAIN links
    /\ aliases = [a \in Aliases |-> aliases[a]]
    /\ \A a \in Aliases :
          aliases[a] # None => aliases[a] \in AliasRow /\ Landed(aliases[a].campaign)

\* What a request relies on when it writes: the rows it read are still there, and the
\* campaign it leads to has a code.
UpdateSound(j) ==
    /\ j \in [do : {"update"}, campaign : Campaigns, window : Windows, shop : Shops \cup {None}]
    /\ campaigns[j.campaign] # None
TransitionSound(j) ==
    /\ j \in [do : {"transition"}, campaign : Campaigns, to : T!CampaignStatuses]
    /\ campaigns[j.campaign] # None
TagStatusSound(j) ==
    /\ j \in [do : {"tag status"}, tag : Tags, link : Nat, to : {"active", "disabled"}]
    /\ j.link \in DOMAIN links
TagPatchSound(j) ==
    /\ j \in [do : {"tag patch"}, tag : Tags, link : Nat, group : Groups \cup {None}]
    /\ j.link \in DOMAIN links
ProvisionSound(j) ==
    /\ j \in [do : {"provision"}, tag : Tags, alias : Aliases, campaign : Campaigns]
    /\ Landed(j.campaign)
RebindSound(j) ==
    /\ j \in [do : {"rebind"}, alias : Aliases, to : Campaigns, expected : Campaigns]
    /\ aliases[j.alias] # None /\ Landed(j.to)
StageSound(j) ==
    /\ j \in [do : {"stage"}, alias : Aliases, stage : Nat]
    /\ aliases[j.alias] # None
LookupSound(j) == DOMAIN j = {"do", "key", "next", "rows", "clean"} /\ j.do = "lookup"

JobSound(j) ==
    \/ j = T!Bumping \/ UpdateSound(j) \/ TransitionSound(j) \/ TagStatusSound(j)
    \/ TagPatchSound(j) \/ ProvisionSound(j) \/ RebindSound(j) \/ StageSound(j)
    \/ LookupSound(j)

JobsSound ==
    /\ job = [r \in Requests |-> job[r]]
    /\ \A r \in Requests : job[r] # Idle => JobSound(job[r])

\* Rows of a lookup of short code l, or of touchpoint a, that hold what is given.
RowFields == {"card", "link", "enabled", "campaign", "status", "window", "shop"}
LinkRead(rows, l, status, window, shop) ==
    /\ DOMAIN rows = RowFields
    /\ rows.enabled = links[l].enabled /\ rows.campaign = links[l].campaign
    /\ rows.status = status /\ rows.window = window /\ rows.shop = shop
CardRead(rows, a, status, window, l) ==
    /\ DOMAIN rows = RowFields
    /\ rows.card = aliases[a].status /\ rows.campaign = aliases[a].campaign
    /\ rows.status = status /\ rows.window = window /\ rows.shop = None
    /\ rows.link = l /\ rows.enabled = T!switchedOn(l)

\* The store's row that a lookup of a campaign's short code ends with.
storeRow(c) == IF T!needsStore(c) THEN shops[c.shop] ELSE None

LinkLoaded(rows, l) ==
    LET c == campaigns[links[l].campaign]
    IN  LinkRead(rows, l, c.status, c.window, storeRow(c))
CardLoaded(rows, a) ==
    LET c == campaigns[aliases[a].campaign]
    IN  CardRead(rows, a, c.status, c.window, T!canonical(aliases[a].campaign))

\* What a lookup no bump has overtaken has read so far is what the tables say.
LinkSoFar(j, l) ==
    LET c == campaigns[links[l].campaign]
    IN  \/ j.next = "campaign" /\ LinkRead(j.rows, l, None, None, None)
        \/ /\ j.next = "store" /\ T!needsStore(c)
           /\ LinkRead(j.rows, l, c.status, c.window, c.shop)
        \/ j.next = "keep" /\ LinkLoaded(j.rows, l)
CardSoFar(j, a) ==
    LET c == campaigns[aliases[a].campaign]
    IN  \/ j.next = "campaign" /\ CardRead(j.rows, a, None, None, None)
        \/ j.next = "entry" /\ CardRead(j.rows, a, c.status, c.window, None)
        \/ j.next = "keep" /\ CardLoaded(j.rows, a)
LookupFresh(j) ==
    \/ \E l \in DOMAIN links : j.key = <<"link", l>> /\ LinkSoFar(j, l)
    \/ \E a \in Aliases : j.key = <<"touchpoint", a>> /\ CardSoFar(j, a)

\* Every write is followed by its bump before anything is kept for good.
NoBump == \A r \in Requests : ~ T!Doing(r, "bump")
KeptFresh ==
    /\ \A l \in DOMAIN links :
          T!keptClean(<<"link", l>>) => LinkLoaded(cached[<<"link", l>>].rows, l)
    /\ \A a \in Aliases :
          T!keptClean(<<"touchpoint", a>>) => CardLoaded(cached[<<"touchpoint", a>>].rows, a)
LookupsFresh ==
    \A r \in Requests : T!Doing(r, "lookup") /\ job[r].clean => LookupFresh(job[r])
Fresh == NoBump => KeptFresh /\ LookupsFresh

TouchInv == Tables /\ JobsSound /\ Fresh

\* Codes, campaigns and cards stay.
TouchGrows ==
    /\ \A l \in DOMAIN links : l \in DOMAIN links' /\ links'[l].campaign = links[l].campaign
    /\ \A c \in Campaigns : campaigns[c] # None => campaigns'[c] # None
    /\ \A a \in Aliases : aliases[a] # None => aliases'[a] # None

-----------------------------------------------------------------------------

\* The rows of a lookup, with one more read.
LEMMA LinkRowsRead ==
    ASSUME NEW l, NEW rows, LinkRead(rows, l, None, None, None), NEW status, NEW window,
           NEW more, more = [rows EXCEPT !.status = status, !.window = window],
           NEW shop, NEW last, last = [more EXCEPT !.shop = shop]
    PROVE  LinkRead(more, l, status, window, None) /\ LinkRead(last, l, status, window, shop)
BY DEF LinkRead, RowFields

\* The same of a touchpoint.
LEMMA CardRowsRead ==
    ASSUME NEW a, NEW rows, CardRead(rows, a, None, None, None), NEW status, NEW window,
           NEW more, more = [rows EXCEPT !.status = status, !.window = window]
    PROVE  CardRead(more, a, status, window, None)
BY DEF CardRead, RowFields

\* A non-empty set of naturals has a least element.
LEMMA LeastOf ==
    ASSUME NEW some \in SUBSET Nat, some # {}
    PROVE  T!Min(some) \in some
<1>1. PICK m \in some : \A d \in some : ~ (<<d, m>> \in OpToRel(<, Nat))
  BY NatLessThanWellFounded, WFMin
<1>2. \A d \in some : m <= d
  <2>1. \A d \in some : ~ (d < m)
    BY <1>1 DEF OpToRel
  <2> QED  BY <2>1
<1> QED  BY <1>2 DEF T!Min

\* The code a campaign is reached by is its own, and a stopped one only if all of them are.
LEMMA CanonicalLands ==
    ASSUME links \in Seq(LinkRow), NEW c, Landed(c)
    PROVE  /\ T!canonical(c) \in DOMAIN links /\ links[T!canonical(c)].campaign = c
           /\ ~ links[T!canonical(c)].enabled =>
                  \A k \in DOMAIN links : links[k].campaign = c => ~ links[k].enabled
<1> PICK own : own = {l \in T!Codes : links[l].campaign = c}
  OBVIOUS
<1> PICK live : live = {l \in own : links[l].enabled}
  OBVIOUS
<1>1. own \in SUBSET Nat /\ own # {} /\ live \in SUBSET Nat
  BY DEF T!Codes, Landed
<1>2. T!canonical(c) = IF live = {} THEN T!Min(own) ELSE T!Min(live)
  BY <1>1 DEF T!canonical
<1>3. CASE live = {}
  <2>1. T!canonical(c) \in own
    BY <1>1, <1>2, <1>3, LeastOf
  <2> QED  BY <1>3, <2>1 DEF T!Codes
<1>4. CASE live # {}
  <2>1. T!canonical(c) \in live
    BY <1>1, <1>2, <1>4, LeastOf
  <2> QED  BY <2>1 DEF T!Codes
<1> QED  BY <1>3, <1>4

\* A campaign that lands has a code.
LEMMA LandsIsLanded == ASSUME NEW c, T!lands(c) PROVE Landed(c)
BY DEF T!lands, T!canonical, Landed, T!Codes

\* What a request relies on goes by what it is about to do.
LEMMA SoundByWork ==
    ASSUME NEW j, JobSound(j)
    PROVE  /\ j.do = "update" => UpdateSound(j)
           /\ j.do = "transition" => TransitionSound(j)
           /\ j.do = "tag status" => TagStatusSound(j)
           /\ j.do = "tag patch" => TagPatchSound(j)
           /\ j.do = "provision" => ProvisionSound(j)
           /\ j.do = "rebind" => RebindSound(j)
           /\ j.do = "stage" => StageSound(j)
           /\ j.do = "lookup" => LookupSound(j)
<1>1. /\ UpdateSound(j) => j.do = "update"
      /\ TransitionSound(j) => j.do = "transition"
      /\ TagStatusSound(j) => j.do = "tag status"
      /\ TagPatchSound(j) => j.do = "tag patch"
      /\ ProvisionSound(j) => j.do = "provision"
      /\ RebindSound(j) => j.do = "rebind"
      /\ StageSound(j) => j.do = "stage"
      /\ LookupSound(j) => j.do = "lookup"
  BY DEF UpdateSound, TransitionSound, TagStatusSound, TagPatchSound, ProvisionSound,
     RebindSound, StageSound, LookupSound
<1>2. j = T!Bumping => j.do = "bump"
  BY DEF T!Bumping
<1> QED  BY <1>1, <1>2 DEF JobSound

\* What a request relies on outlives what the others do.
LEMMA JobsStay ==
    ASSUME TouchGrows, NEW j, JobSound(j)
    PROVE  JobSound(j)'
<1>1. \A c : Landed(c) => Landed(c)'
  BY DEF TouchGrows, Landed
<1>2. CASE j = T!Bumping
  BY <1>2 DEF JobSound
<1>3. CASE UpdateSound(j)
  BY <1>3 DEF JobSound, UpdateSound, TouchGrows
<1>4. CASE TransitionSound(j)
  BY <1>4 DEF JobSound, TransitionSound, TouchGrows
<1>5. CASE TagStatusSound(j)
  BY <1>5 DEF JobSound, TagStatusSound, TouchGrows
<1>6. CASE TagPatchSound(j)
  BY <1>6 DEF JobSound, TagPatchSound, TouchGrows
<1>7. CASE ProvisionSound(j)
  BY <1>1, <1>7 DEF JobSound, ProvisionSound
<1>8. CASE RebindSound(j)
  BY <1>1, <1>8 DEF JobSound, RebindSound, TouchGrows
<1>9. CASE StageSound(j)
  BY <1>9 DEF JobSound, StageSound, TouchGrows
<1>10. CASE LookupSound(j)
  BY <1>10 DEF JobSound, LookupSound
<1> QED  BY <1>2, <1>3, <1>4, <1>5, <1>6, <1>7, <1>8, <1>9, <1>10 DEF JobSound

\* So a request that takes a step leaves the others as sound as they were.
LEMMA JobStep ==
    ASSUME JobsSound, TouchGrows, NEW r \in Requests, NEW j, job' = [job EXCEPT ![r] = j],
           j # Idle => JobSound(j)'
    PROVE  JobsSound' /\ job'[r] = j /\ \A q \in Requests : q # r => job'[q] = job[q]
<1>1. job'[r] = j /\ \A q \in Requests : q # r => job'[q] = job[q]
  BY DEF JobsSound
<1>2. job' = [q \in Requests |-> job'[q]]
  BY DEF JobsSound
<1>3. ASSUME NEW q \in Requests, job'[q] # Idle PROVE JobSound(job[q])'
  <2>1. CASE q = r
    BY <1>1, <1>3, <2>1
  <2>2. CASE q # r
    <3>1. job'[q] = job[q] /\ JobSound(job[q])
      BY <1>1, <1>3, <2>2 DEF JobsSound
    <3>2. PICK i : i = job[q]
      OBVIOUS
    <3>3. JobSound(i)'
      BY <3>1, <3>2, JobsStay
    <3> QED  BY <3>1, <3>2, <3>3
  <2> QED  BY <2>1, <2>2
<1> QED  BY <1>1, <1>2, <1>3 DEF JobsSound

\* Tables that stay as they are.
LEMMA TablesStay ==
    ASSUME Tables, UNCHANGED <<shops, campaigns, links, groups, tags, aliases>>
    PROVE  Tables' /\ TouchGrows
BY DEF Tables, TouchGrows, Landed

\* What a lookup reads depends on its rows only.
LEMMA LoadsStay ==
    ASSUME UNCHANGED <<shops, campaigns, links, aliases>>
    PROVE  /\ \A c : T!canonical(c)' = T!canonical(c)
           /\ \A rows, l, status, window, shop :
                 LinkRead(rows, l, status, window, shop)
                     => LinkRead(rows, l, status, window, shop)'
           /\ \A rows, a, status, window, l :
                 CardRead(rows, a, status, window, l) => CardRead(rows, a, status, window, l)'
           /\ \A rows, l : LinkLoaded(rows, l) => LinkLoaded(rows, l)'
           /\ \A rows, a : CardLoaded(rows, a) => CardLoaded(rows, a)'
<1>1. \A c : T!canonical(c)' = T!canonical(c)
  BY DEF T!canonical, T!Codes
<1>2. \A l : T!switchedOn(l)' = T!switchedOn(l)
  BY DEF T!switchedOn
<1>3. \A c : storeRow(c)' = storeRow(c)
  BY DEF storeRow, T!needsStore
<1>4. \A rows, l, status, window, shop :
          LinkRead(rows, l, status, window, shop) => LinkRead(rows, l, status, window, shop)'
  BY DEF LinkRead
<1>5. \A rows, a, status, window, l :
          CardRead(rows, a, status, window, l) => CardRead(rows, a, status, window, l)'
  BY <1>2 DEF CardRead
<1>6. ASSUME NEW rows, NEW l, LinkLoaded(rows, l) PROVE LinkLoaded(rows, l)'
  <2> PICK c : c = campaigns[links[l].campaign] /\ c = campaigns'[links'[l].campaign]
    OBVIOUS
  <2> PICK shop : shop = storeRow(c) /\ shop = storeRow(c)'
    BY <1>3
  <2>1. LinkRead(rows, l, c.status, c.window, shop)'
    BY <1>4, <1>6 DEF LinkLoaded
  <2> QED  BY <2>1 DEF LinkLoaded
<1>7. ASSUME NEW rows, NEW a, CardLoaded(rows, a) PROVE CardLoaded(rows, a)'
  <2> PICK k : k = aliases[a].campaign /\ k = aliases'[a].campaign
    OBVIOUS
  <2> PICK c : c = campaigns[k] /\ c = campaigns'[k]
    OBVIOUS
  <2> PICK l : l = T!canonical(k) /\ l = T!canonical(k)'
    BY <1>1
  <2>1. CardRead(rows, a, c.status, c.window, l)'
    BY <1>5, <1>7 DEF CardLoaded
  <2> QED  BY <2>1 DEF CardLoaded
<1> QED  BY <1>1, <1>4, <1>5, <1>6, <1>7

\* So does what it has read.
LEMMA LookupStays ==
    ASSUME UNCHANGED <<shops, campaigns, links, aliases>>, NEW j, LookupFresh(j)
    PROVE  LookupFresh(j)'
<1>1. ASSUME NEW l \in DOMAIN links, LinkSoFar(j, l) PROVE LinkSoFar(j, l)'
  <2> PICK c : c = campaigns[links[l].campaign] /\ c = campaigns'[links'[l].campaign]
    OBVIOUS
  <2>1. \/ j.next = "campaign" /\ LinkRead(j.rows, l, None, None, None)'
        \/ /\ j.next = "store" /\ T!needsStore(c)
           /\ LinkRead(j.rows, l, c.status, c.window, c.shop)'
        \/ j.next = "keep" /\ LinkLoaded(j.rows, l)'
    BY <1>1, LoadsStay DEF LinkSoFar
  <2> QED  BY <2>1 DEF LinkSoFar, T!needsStore
<1>2. ASSUME NEW a \in Aliases, CardSoFar(j, a) PROVE CardSoFar(j, a)'
  <2> PICK c : c = campaigns[aliases[a].campaign] /\ c = campaigns'[aliases'[a].campaign]
    OBVIOUS
  <2>1. \/ j.next = "campaign" /\ CardRead(j.rows, a, None, None, None)'
        \/ j.next = "entry" /\ CardRead(j.rows, a, c.status, c.window, None)'
        \/ j.next = "keep" /\ CardLoaded(j.rows, a)'
    BY <1>2, LoadsStay DEF CardSoFar
  <2> QED  BY <2>1 DEF CardSoFar
<1> QED  BY <1>1, <1>2 DEF LookupFresh

\* What is kept stays fresh while the rows and the cache stay.
LEMMA KeptStays ==
    ASSUME KeptFresh, UNCHANGED <<shops, campaigns, links, aliases, cached>>
    PROVE  KeptFresh'
<1>1. ASSUME NEW l \in DOMAIN links', T!keptClean(<<"link", l>>)'
      PROVE  LinkLoaded(cached[<<"link", l>>].rows, l)'
  <2> PICK rows : rows = cached[<<"link", l>>].rows /\ rows = cached'[<<"link", l>>].rows
    OBVIOUS
  <2>1. LinkLoaded(rows, l)
    BY <1>1 DEF KeptFresh, T!keptClean
  <2>2. LinkLoaded(rows, l)'
    BY <2>1, LoadsStay
  <2> QED  BY <2>2
<1>2. ASSUME NEW a \in Aliases, T!keptClean(<<"touchpoint", a>>)'
      PROVE  CardLoaded(cached[<<"touchpoint", a>>].rows, a)'
  <2> PICK rows : rows = cached[<<"touchpoint", a>>].rows /\ rows = cached'[<<"touchpoint", a>>].rows
    OBVIOUS
  <2>1. CardLoaded(rows, a)
    BY <1>2 DEF KeptFresh, T!keptClean
  <2>2. CardLoaded(rows, a)'
    BY <2>1, LoadsStay
  <2> QED  BY <2>2
<1> QED  BY <1>1, <1>2 DEF KeptFresh

\* What is kept and loaded stays fresh while the rows stay, no bump is taken back and
\* the lookups stay where they are.
LEMMA FreshStays ==
    ASSUME Fresh, UNCHANGED <<shops, campaigns, links, aliases, cached>>, NoBump' => NoBump,
           \A q \in Requests : T!Doing(q, "lookup")' => job'[q] = job[q]
    PROVE  Fresh'
<1> SUFFICES ASSUME NoBump' PROVE KeptFresh' /\ LookupsFresh'
  BY DEF Fresh
<1>1. KeptFresh'
  BY KeptStays DEF Fresh
<1>2. ASSUME NEW q \in Requests, T!Doing(q, "lookup")', job'[q].clean
      PROVE  LookupFresh(job[q])'
  <2>1. job'[q] = job[q] /\ T!Doing(q, "lookup") /\ job[q].clean
    BY <1>2 DEF T!Doing
  <2> PICK j : j = job[q]
    OBVIOUS
  <2>2. LookupFresh(j)
    BY <2>1 DEF Fresh, LookupsFresh
  <2>3. LookupFresh(j)'
    BY <2>2, LookupStays
  <2> QED  BY <2>1, <2>3
<1> QED  BY <1>1, <1>2 DEF LookupsFresh

\* A request reads and checks.
LEMMA ReadStep ==
    ASSUME TouchInv, NEW r \in Requests, NEW j, T!Begin(r, j), UNCHANGED <<T!Rows, cached>>,
           JobSound(j), j.do # "bump", NoBump /\ j.do = "lookup" => LookupFresh(j)
    PROVE  TouchInv'
<1>1. UNCHANGED <<shops, campaigns, links, groups, tags, aliases, cached>> /\ job[r] = Idle
      /\ job' = [job EXCEPT ![r] = j]
  BY DEF T!Rows, T!Begin
<1>2. Tables' /\ TouchGrows
  BY <1>1, TablesStay DEF TouchInv
<1>3. JobsSound' /\ job'[r] = j /\ \A q \in Requests : q # r => job'[q] = job[q]
  <2>1. JobSound(j)'
    BY <1>2, JobsStay
  <2> QED  BY <1>1, <1>2, <2>1, JobStep DEF TouchInv
<1>4. NoBump' => NoBump
  BY <1>1, <1>3 DEF NoBump, T!Doing
<1>5. Fresh'
  <2> SUFFICES ASSUME NoBump' PROVE KeptFresh' /\ LookupsFresh'
    BY DEF Fresh
  <2>1. KeptFresh'
    BY <1>1, <1>4, KeptStays DEF TouchInv, Fresh
  <2>2. ASSUME NEW q \in Requests, T!Doing(q, "lookup")', job'[q].clean
        PROVE  LookupFresh(job[q])'
    <3> PICK i : i = job'[q]
      OBVIOUS
    <3>1. LookupFresh(i)
      <4>1. CASE q = r
        BY <1>3, <1>4, <2>2, <4>1 DEF T!Doing
      <4>2. CASE q # r
        BY <1>3, <1>4, <2>2, <4>2 DEF TouchInv, Fresh, LookupsFresh, T!Doing
      <4> QED  BY <4>1, <4>2
    <3>2. LookupFresh(i)'
      BY <1>1, <3>1, LookupStays
    <3> QED  BY <3>2
  <2> QED  BY <2>1, <2>2 DEF LookupsFresh
<1> QED  BY <1>2, <1>3, <1>5 DEF TouchInv

\* A request has written, and owes a bump.
LEMMA WriteStep ==
    ASSUME NoneIsNoRecord, TouchInv, NEW r \in Requests, T!Written(r), Tables', TouchGrows
    PROVE  TouchInv'
<1>1. JobsSound' /\ job'[r] = T!Bumping
  <2>1. job' = [job EXCEPT ![r] = T!Bumping]
    BY DEF T!Written
  <2>2. JobSound(T!Bumping)'
    BY DEF JobSound
  <2> QED  BY <2>1, <2>2, JobStep DEF TouchInv
<1>2. ~ NoBump'
  BY <1>1 DEF NoBump, T!Doing, T!Bumping, NoneIsNoRecord
<1> QED  BY <1>1, <1>2 DEF TouchInv, Fresh

\* A request is refused.
LEMMA RefusedStep ==
    ASSUME TouchInv, NEW r \in Requests, ~ T!Doing(r, "bump"), T!Answered(r),
           UNCHANGED <<shops, campaigns, links, groups, tags, aliases, cached>>
    PROVE  TouchInv'
<1>1. Tables' /\ TouchGrows
  BY TablesStay DEF TouchInv
<1>2. JobsSound' /\ \A q \in Requests : q # r => job'[q] = job[q]
  <2>1. job' = [job EXCEPT ![r] = Idle]
    BY DEF T!Answered
  <2> QED  BY <1>1, <2>1, JobStep DEF TouchInv
<1>3. NoBump' => NoBump
  BY <1>2 DEF NoBump, T!Doing
<1>4. \A q \in Requests : T!Doing(q, "lookup")' => job'[q] = job[q]
  <2>1. job'[r] = Idle
    BY DEF T!Answered, TouchInv, JobsSound
  <2> QED  BY <1>2, <2>1 DEF T!Doing
<1> QED  BY <1>1, <1>2, <1>3, <1>4, FreshStays DEF TouchInv

-----------------------------------------------------------------------------

\* One campaign's row is written.
LEMMA CampaignWrite ==
    ASSUME NoneIsNoRecord, Tables, NEW c \in Campaigns, NEW row \in CampaignRow,
           campaigns' = [campaigns EXCEPT ![c] = row],
           UNCHANGED <<shops, links, groups, tags, aliases>>
    PROVE  Tables' /\ TouchGrows
<1>1. campaigns' = [k \in Campaigns |-> campaigns'[k]] /\ campaigns'[c] = row
      /\ \A k \in Campaigns : k # c => campaigns'[k] = campaigns[k]
  BY DEF Tables
<1>2. row # None
  BY DEF NoneIsNoRecord
<1>3. TouchGrows
  BY <1>1, <1>2 DEF TouchGrows
<1>4. \A l \in DOMAIN links : links[l].campaign \in Campaigns
  <2>1. \A l \in DOMAIN links : links[l] \in LinkRow
    BY DEF Tables
  <2> QED  BY <2>1 DEF LinkRow
<1>5. \A k : Landed(k)' = Landed(k)
  BY DEF Landed
<1>6. \A k \in Campaigns : campaigns'[k] # None => campaigns'[k] \in CampaignRow
  BY <1>1 DEF Tables
<1>7. \A l \in DOMAIN links : campaigns'[links[l].campaign] # None
  BY <1>1, <1>2, <1>4 DEF Tables
<1> QED  BY <1>1, <1>3, <1>5, <1>6, <1>7 DEF Tables

\* One card's row is written, and its campaign has a code.
LEMMA AliasWrite ==
    ASSUME NoneIsNoRecord, Tables, NEW a \in Aliases, NEW row \in AliasRow,
           Landed(row.campaign), aliases' = [aliases EXCEPT ![a] = row],
           UNCHANGED <<shops, campaigns, links, groups, tags>>
    PROVE  Tables' /\ TouchGrows
<1>1. aliases' = [k \in Aliases |-> aliases'[k]] /\ aliases'[a] = row
      /\ \A k \in Aliases : k # a => aliases'[k] = aliases[k]
  BY DEF Tables
<1>2. row # None
  BY DEF NoneIsNoRecord
<1>3. TouchGrows
  BY <1>1, <1>2 DEF TouchGrows
<1>4. \A k : Landed(k)' = Landed(k)
  BY DEF Landed
<1>5. \A k \in Aliases :
          aliases'[k] # None => aliases'[k] \in AliasRow /\ Landed(aliases'[k].campaign)
  BY <1>1 DEF Tables
<1> QED  BY <1>1, <1>3, <1>4, <1>5 DEF Tables, Landed

\* Tags, groups and the codes' switches are written.
LEMMA TagsWrite ==
    ASSUME Tables, UNCHANGED <<shops, campaigns, aliases>>, groups' \subseteq Groups,
           tags' = [tag \in Tags |-> tags'[tag]],
           \A tag \in Tags :
              tags'[tag] # None => tags'[tag] \in TagRow /\ tags'[tag].link \in DOMAIN links,
           links' \in Seq(LinkRow), DOMAIN links' = DOMAIN links,
           \A l \in DOMAIN links : links'[l].campaign = links[l].campaign
    PROVE  Tables' /\ TouchGrows
<1>1. TouchGrows
  BY DEF TouchGrows
<1>2. \A k : Landed(k)' = Landed(k)
  BY DEF Landed
<1>3. \A l \in DOMAIN links' : campaigns'[links'[l].campaign] # None
  BY DEF Tables
<1>4. \A a \in Aliases :
          aliases'[a] # None => aliases'[a] \in AliasRow /\ Landed(aliases[a].campaign)'
  BY <1>2 DEF Tables
<1> QED  BY <1>1, <1>3, <1>4 DEF Tables

\* One code is switched.
LEMMA Switched ==
    ASSUME Tables, NEW l \in DOMAIN links, NEW enabled \in BOOLEAN,
           links' = [links EXCEPT ![l].enabled = enabled]
    PROVE  /\ links' \in Seq(LinkRow) /\ DOMAIN links' = DOMAIN links
           /\ \A k \in DOMAIN links : links'[k].campaign = links[k].campaign
<1> PICK row : row = [links[l] EXCEPT !.enabled = enabled]
  OBVIOUS
<1>1. links \in Seq(LinkRow) /\ links[l] \in LinkRow
  BY DEF Tables
<1>2. row \in LinkRow /\ row.campaign = links[l].campaign
  BY <1>1 DEF LinkRow
<1>3. links' = [links EXCEPT ![l] = row]
  OBVIOUS
<1> QED  BY <1>1, <1>2, <1>3

-----------------------------------------------------------------------------

\* The campaigns' desk.
LEMMA CampaignDesk ==
    ASSUME NoneIsNoRecord, TouchInv, NEW r \in Requests, T!CampaignStep(r)
    PROVE  TouchInv'
<1>0. Tables
  BY DEF TouchInv
<1>1. CASE T!UpdateCampaign(r)
  <2>1. job[r] # Idle /\ job[r].do = "update" /\ JobSound(job[r]) /\ T!Written(r)
        /\ UNCHANGED <<shops, links, groups, tags, aliases>>
    BY <1>1 DEF T!UpdateCampaign, T!Doing, TouchInv, JobsSound
  <2>2. UpdateSound(job[r])
    BY <2>1, SoundByWork
  <2> PICK c : c = job[r].campaign
    OBVIOUS
  <2> PICK row : row = [[campaigns[c] EXCEPT !.window = job[r].window] EXCEPT !.shop = job[r].shop]
    OBVIOUS
  <2>3. c \in Campaigns /\ campaigns[c] \in CampaignRow
    BY <1>0, <2>2 DEF UpdateSound, Tables
  <2>4. row \in CampaignRow
    <3>1. job[r].window \in AnyWindow /\ job[r].shop \in Shops \cup {None}
      BY <2>2 DEF UpdateSound, AnyWindow
    <3> QED  BY <2>3, <3>1 DEF CampaignRow
  <2>5. campaigns' = [campaigns EXCEPT ![c] = row]
    <3>1. campaigns' = [campaigns EXCEPT ![c].window = job[r].window, ![c].shop = job[r].shop]
      BY <1>1 DEF T!UpdateCampaign
    <3>2. campaigns = [k \in Campaigns |-> campaigns[k]]
      BY <1>0 DEF Tables
    <3> QED  BY <2>3, <3>1, <3>2
  <2> QED  BY <1>0, <2>1, <2>3, <2>4, <2>5, CampaignWrite, WriteStep
<1>2. CASE T!TransitionCampaign(r)
  <2>1. job[r] # Idle /\ job[r].do = "transition" /\ JobSound(job[r]) /\ T!Written(r)
        /\ UNCHANGED <<shops, links, groups, tags, aliases>>
    BY <1>2 DEF T!TransitionCampaign, T!Doing, TouchInv, JobsSound
  <2>2. TransitionSound(job[r])
    BY <2>1, SoundByWork
  <2> PICK c : c = job[r].campaign
    OBVIOUS
  <2> PICK row : row = [campaigns[c] EXCEPT !.status = job[r].to]
    OBVIOUS
  <2>3. c \in Campaigns /\ campaigns[c] \in CampaignRow
    BY <1>0, <2>2 DEF TransitionSound, Tables
  <2>4. row \in CampaignRow
    <3>1. job[r].to \in T!CampaignStatuses
      BY <2>2 DEF TransitionSound
    <3> QED  BY <2>3, <3>1 DEF CampaignRow
  <2>5. campaigns' = [campaigns EXCEPT ![c] = row]
    BY <1>2 DEF T!TransitionCampaign
  <2> QED  BY <1>0, <2>1, <2>3, <2>4, <2>5, CampaignWrite, WriteStep
<1>3. ASSUME NEW c \in Campaigns, T!CreateLink(r, c) PROVE TouchInv'
  <2> PICK new : new = [campaign |-> c, enabled |-> TRUE]
    OBVIOUS
  <2>1. /\ campaigns[c] # None /\ links' = Append(links, new) /\ T!Written(r)
        /\ UNCHANGED <<shops, campaigns, groups, tags, aliases>>
    BY <1>3 DEF T!CreateLink, T!Statement
  <2>2. new \in LinkRow /\ new.campaign = c
    BY DEF LinkRow
  <2>3. /\ links' \in Seq(LinkRow) /\ DOMAIN links = 1..Len(links) /\ Len(links) \in Nat
        /\ DOMAIN links' = 1..(Len(links) + 1) /\ links'[Len(links) + 1] = new
        /\ \A l \in DOMAIN links : links'[l] = links[l]
    BY <1>0, <2>1, <2>2, AppendProperties DEF Tables
  <2>4. TouchGrows
    BY <2>1, <2>3 DEF TouchGrows
  <2>5. \A k : Landed(k) => Landed(k)'
    BY <2>4 DEF Landed, TouchGrows
  <2>6. \A l \in DOMAIN links' : campaigns'[links'[l].campaign] # None
    <3>1. \A l \in DOMAIN links' : l \in DOMAIN links \/ l = Len(links) + 1
      BY <2>3
    <3> QED  BY <1>0, <2>1, <2>2, <2>3, <3>1 DEF Tables
  <2>7. \A tag \in Tags : tags'[tag] # None =>
            tags'[tag] \in TagRow /\ tags'[tag].link \in DOMAIN links'
    BY <1>0, <2>1, <2>3 DEF Tables
  <2>8. \A a \in Aliases : aliases'[a] # None =>
            aliases'[a] \in AliasRow /\ Landed(aliases[a].campaign)'
    BY <1>0, <2>1, <2>5 DEF Tables
  <2>9. Tables'
    BY <1>0, <2>1, <2>3, <2>6, <2>7, <2>8 DEF Tables
  <2> QED  BY <2>1, <2>4, <2>9, WriteStep
<1>4. ASSUME NEW c \in Campaigns, NEW to \in T!CampaignStatuses, T!ReadForTransition(r, c, to)
      PROVE  TouchInv'
  <2> PICK j : j = [do |-> "transition", campaign |-> c, to |-> to]
    OBVIOUS
  <2>1. campaigns[c] # None /\ T!Begin(r, j) /\ UNCHANGED <<T!Rows, cached>>
    BY <1>4 DEF T!ReadForTransition
  <2>2. TransitionSound(j) /\ j.do # "bump"
    BY <2>1 DEF TransitionSound
  <2> QED  BY <2>1, <2>2, ReadStep DEF JobSound
<1>5. ASSUME NEW c \in Campaigns, NEW window \in Windows, NEW s \in Shops \cup {None},
             T!CreateCampaign(r, c, window, s)
      PROVE  TouchInv'
  <2> PICK row : row = [status |-> "draft", window |-> window, shop |-> s]
    OBVIOUS
  <2>1. campaigns' = [campaigns EXCEPT ![c] = row] /\ T!Written(r)
        /\ UNCHANGED <<shops, links, groups, tags, aliases>>
    BY <1>5 DEF T!CreateCampaign, T!Statement
  <2>2. row \in CampaignRow
    BY DEF CampaignRow, T!CampaignStatuses, AnyWindow
  <2> QED  BY <1>0, <2>1, <2>2, CampaignWrite, WriteStep
<1>6. ASSUME NEW c \in Campaigns, NEW window \in Windows, NEW s \in Shops \cup {None},
             T!ReadForUpdate(r, c, window, s)
      PROVE  TouchInv'
  <2> PICK j : j = [do |-> "update", campaign |-> c, window |-> window, shop |-> s]
    OBVIOUS
  <2>1. campaigns[c] # None /\ T!Begin(r, j) /\ UNCHANGED <<T!Rows, cached>>
    BY <1>6 DEF T!ReadForUpdate
  <2>2. UpdateSound(j) /\ j.do # "bump"
    BY <2>1 DEF UpdateSound
  <2> QED  BY <2>1, <2>2, ReadStep DEF JobSound
<1>7. ASSUME NEW s \in Shops, NEW to \in {"active", "disabled"}, T!SetStoreStatus(r, s, to)
      PROVE  TouchInv'
  <2>1. shops' = [shops EXCEPT ![s] = to] /\ T!Written(r)
        /\ UNCHANGED <<campaigns, links, groups, tags, aliases>>
    BY <1>7 DEF T!SetStoreStatus, T!Statement
  <2>2. Tables' /\ TouchGrows
    BY <1>0, <2>1 DEF Tables, TouchGrows, Landed
  <2> QED  BY <2>1, <2>2, WriteStep
<1> QED  BY <1>1, <1>2, <1>3, <1>4, <1>5, <1>6, <1>7 DEF T!CampaignStep

\* A code is switched.
LEMMA SwitchStep ==
    ASSUME NoneIsNoRecord, TouchInv, NEW r \in Requests, NEW l \in T!Codes,
           NEW enabled \in BOOLEAN, T!SetLinkEnabled(r, l, enabled)
    PROVE  TouchInv'
<1>1. /\ links' = [links EXCEPT ![l].enabled = enabled] /\ T!Written(r)
      /\ UNCHANGED <<shops, campaigns, groups, tags, aliases>> /\ Tables
  BY DEF T!SetLinkEnabled, T!Statement, TouchInv
<1>2. Tables' /\ TouchGrows
  <2>1. l \in DOMAIN links
    BY DEF T!Codes
  <2>2. /\ groups' \subseteq Groups /\ tags' = [tag \in Tags |-> tags'[tag]]
        /\ \A tag \in Tags :
              tags'[tag] # None => tags'[tag] \in TagRow /\ tags'[tag].link \in DOMAIN links
    BY <1>1 DEF Tables
  <2> QED  BY <1>1, <2>1, <2>2, Switched, TagsWrite
<1> QED  BY <1>1, <1>2, WriteStep

\* The tags' desk.
LEMMA TagDesk ==
    ASSUME NoneIsNoRecord, TouchInv, NEW r \in Requests, T!TagStep(r)
    PROVE  TouchInv'
<1>0. /\ Tables /\ links \in Seq(LinkRow) /\ groups \subseteq Groups
      /\ tags = [tag \in Tags |-> tags[tag]]
      /\ \A tag \in Tags :
            tags[tag] # None => tags[tag] \in TagRow /\ tags[tag].link \in DOMAIN links
      /\ \A l \in DOMAIN links : l \in Nat
  BY DEF TouchInv, Tables
<1>1. CASE T!SetTagStatus(r)
  <2>1. TagStatusSound(job[r]) /\ T!Written(r) /\ UNCHANGED <<shops, campaigns, groups, aliases>>
    <3>1. job[r] # Idle /\ job[r].do = "tag status" /\ JobSound(job[r])
      BY <1>1 DEF T!SetTagStatus, T!Doing, TouchInv, JobsSound
    <3> QED  BY <1>1, <3>1, SoundByWork DEF T!SetTagStatus
  <2> PICK j : j = job[r]
    OBVIOUS
  <2>2. /\ j.tag \in Tags /\ j.link \in DOMAIN links /\ j.to \in {"active", "disabled"}
    BY <2>1 DEF TagStatusSound
  <2>3. /\ tags' = IF tags[j.tag] = None THEN tags ELSE [tags EXCEPT ![j.tag].status = j.to]
        /\ links' = [links EXCEPT ![j.link].enabled = (j.to = "active")]
    BY <1>1 DEF T!SetTagStatus
  <2>4. /\ tags' = [tag \in Tags |-> tags'[tag]]
        /\ \A tag \in Tags :
              tags'[tag] # None => tags'[tag] \in TagRow /\ tags'[tag].link \in DOMAIN links
    <3>1. CASE tags[j.tag] = None
      BY <1>0, <2>3, <3>1
    <3>2. CASE tags[j.tag] # None
      <4> PICK row : row = [tags[j.tag] EXCEPT !.status = j.to]
        OBVIOUS
      <4>1. tags' = [tags EXCEPT ![j.tag] = row]
        BY <2>3, <3>2
      <4>2. tags[j.tag] \in TagRow /\ tags[j.tag].link \in DOMAIN links
        BY <1>0, <2>2, <3>2
      <4>3. row \in TagRow /\ row.link \in DOMAIN links
        BY <2>2, <4>2 DEF TagRow
      <4> QED  BY <1>0, <2>2, <4>1, <4>3
    <3> QED  BY <3>1, <3>2
  <2>5. /\ links' \in Seq(LinkRow) /\ DOMAIN links' = DOMAIN links
        /\ \A k \in DOMAIN links : links'[k].campaign = links[k].campaign
    BY <1>0, <2>2, <2>3, Switched
  <2>6. groups' \subseteq Groups
    BY <1>0, <2>1
  <2>7. Tables' /\ TouchGrows
    BY <1>0, <2>1, <2>4, <2>5, <2>6, TagsWrite
  <2> QED  BY <2>1, <2>7, WriteStep
<1>2. CASE T!PatchTag(r)
  <2>1. /\ TagPatchSound(job[r]) /\ ~ T!Doing(r, "bump")
        /\ UNCHANGED <<shops, campaigns, links, groups, aliases, cached>>
    <3>1. job[r] # Idle /\ job[r].do = "tag patch" /\ JobSound(job[r])
      BY <1>2 DEF T!PatchTag, T!Doing, TouchInv, JobsSound
    <3> QED  BY <1>2, <3>1, SoundByWork DEF T!PatchTag, T!Doing
  <2> PICK j : j = job[r]
    OBVIOUS
  <2>2. j.tag \in Tags /\ j.link \in DOMAIN links /\ j.group \in Groups \cup {None}
    BY <2>1 DEF TagPatchSound
  <2>3. CASE tags[j.tag] # None /\ j.group \in groups \cup {None}
    <3>1. /\ tags' = [tags EXCEPT ![j.tag].link = j.link, ![j.tag].group = j.group]
          /\ T!Written(r)
      BY <1>2, <2>3 DEF T!PatchTag
    <3> PICK row : row = [[tags[j.tag] EXCEPT !.link = j.link] EXCEPT !.group = j.group]
      OBVIOUS
    <3>2. tags' = [tags EXCEPT ![j.tag] = row]
      BY <1>0, <2>2, <3>1
    <3>3. tags[j.tag] \in TagRow
      BY <1>0, <2>2, <2>3
    <3>4. row \in TagRow /\ row.link \in DOMAIN links
      BY <1>0, <2>2, <3>3 DEF TagRow
    <3>5. /\ tags' = [tag \in Tags |-> tags'[tag]]
          /\ \A tag \in Tags :
                tags'[tag] # None => tags'[tag] \in TagRow /\ tags'[tag].link \in DOMAIN links
      BY <1>0, <2>2, <3>2, <3>4
    <3>6. Tables' /\ TouchGrows
      BY <1>0, <2>1, <3>5, TagsWrite
    <3> QED  BY <3>1, <3>6, WriteStep
  <2>4. CASE ~ (tags[j.tag] # None /\ j.group \in groups \cup {None})
    <3>1. T!Answered(r) /\ tags' = tags
      BY <1>2, <2>4 DEF T!PatchTag
    <3> QED  BY <2>1, <3>1, RefusedStep
  <2> QED  BY <2>3, <2>4
<1>3. ASSUME NEW g \in Groups, T!CreateTagGroup(r, g) PROVE TouchInv'
  <2>1. /\ groups' = groups \cup {g}
        /\ UNCHANGED <<shops, campaigns, links, tags, aliases, cached, job>>
    BY <1>3 DEF T!CreateTagGroup
  <2>2. groups' \subseteq Groups
    BY <1>0, <2>1
  <2>3. Tables' /\ TouchGrows
    BY <1>0, <2>1, <2>2, TagsWrite
  <2>4. JobsSound'
    <3>1. ASSUME NEW q \in Requests, job[q] # Idle PROVE JobSound(job[q])'
      <4> PICK i : i = job[q]
        OBVIOUS
      <4>1. JobSound(i)'
        BY <2>3, <3>1, JobsStay DEF TouchInv, JobsSound
      <4> QED  BY <2>1, <4>1
    <3> QED  BY <2>1, <3>1 DEF TouchInv, JobsSound
  <2>5. NoBump' => NoBump
    BY <2>1 DEF NoBump, T!Doing
  <2> QED  BY <2>1, <2>3, <2>4, <2>5, FreshStays DEF TouchInv
<1>4. ASSUME NEW g \in Groups, T!DeleteTagGroup(r, g) PROVE TouchInv'
  <2>1. /\ groups' = groups \ {g} /\ T!Written(r)
        /\ tags' = [tag \in Tags |-> IF tags[tag] # None /\ tags[tag].group = g
                                     THEN [tags[tag] EXCEPT !.group = None] ELSE tags[tag]]
        /\ UNCHANGED <<shops, campaigns, links, aliases>>
    BY <1>4 DEF T!DeleteTagGroup, T!Statement
  <2>2. ASSUME NEW tag \in Tags, tags'[tag] # None
        PROVE  tags'[tag] \in TagRow /\ tags'[tag].link \in DOMAIN links
    <3>1. CASE tags[tag] = None
      BY <2>1, <2>2, <3>1
    <3>2. CASE tags[tag] # None
      <4>1. tags[tag] \in TagRow /\ tags[tag].link \in DOMAIN links
        BY <1>0, <3>2
      <4>2. tags'[tag] = [tags[tag] EXCEPT !.group = None] \/ tags'[tag] = tags[tag]
        BY <2>1
      <4> QED  BY <4>1, <4>2 DEF TagRow
    <3> QED  BY <3>1, <3>2
  <2>3. groups' \subseteq Groups /\ tags' = [tag \in Tags |-> tags'[tag]]
    BY <1>0, <2>1
  <2>4. Tables' /\ TouchGrows
    BY <1>0, <2>1, <2>2, <2>3, TagsWrite
  <2> QED  BY <2>1, <2>4, WriteStep
<1>5. ASSUME NEW g \in Groups \cup {None}, NEW batch \in SUBSET Tags,
             NEW bind \in [batch -> T!Codes], T!CreateTagsBatch(r, bind, g)
      PROVE  TouchInv'
  <2>1. /\ T!Written(r) /\ UNCHANGED <<shops, campaigns, links, groups, aliases>>
        /\ tags' = [tag \in Tags |-> IF tag \in batch
                                     THEN [link |-> bind[tag], group |-> g, status |-> "active"]
                                     ELSE tags[tag]]
    BY <1>5 DEF T!CreateTagsBatch, T!Statement
  <2>2. ASSUME NEW tag \in Tags, tags'[tag] # None
        PROVE  tags'[tag] \in TagRow /\ tags'[tag].link \in DOMAIN links
    <3>1. CASE tag \in batch
      <4>1. tags'[tag] = [link |-> bind[tag], group |-> g, status |-> "active"]
            /\ bind[tag] \in DOMAIN links
        BY <2>1, <3>1 DEF T!Codes
      <4> QED  BY <1>0, <4>1 DEF TagRow
    <3>2. CASE tag \notin batch
      BY <1>0, <2>1, <2>2, <3>2
    <3> QED  BY <3>1, <3>2
  <2>3. groups' \subseteq Groups /\ tags' = [tag \in Tags |-> tags'[tag]]
    BY <1>0, <2>1
  <2>4. Tables' /\ TouchGrows
    BY <1>0, <2>1, <2>2, <2>3, TagsWrite
  <2> QED  BY <2>1, <2>4, WriteStep
<1>6. ASSUME NEW l \in T!Codes, NEW tag \in Tags, NEW g \in Groups \cup {None},
             T!ReadTagForPatch(r, tag, l, g)
      PROVE  TouchInv'
  <2> PICK j : j = [do |-> "tag patch", tag |-> tag, link |-> l, group |-> g]
    OBVIOUS
  <2>1. T!Begin(r, j) /\ UNCHANGED <<T!Rows, cached>>
    BY <1>6 DEF T!ReadTagForPatch
  <2>2. TagPatchSound(j) /\ j.do # "bump"
    BY <1>0 DEF TagPatchSound, T!Codes
  <2> QED  BY <2>1, <2>2, ReadStep DEF JobSound
<1>7. ASSUME NEW tag \in Tags, T!DeleteTag(r, tag) PROVE TouchInv'
  <2>1. /\ T!Written(r) /\ UNCHANGED <<shops, campaigns, links, groups>>
        /\ tags' = [tags EXCEPT ![tag] = None]
        /\ aliases' = [a \in Aliases |-> IF aliases[a] # None /\ aliases[a].tag = tag
                                         THEN [aliases[a] EXCEPT !.tag = None] ELSE aliases[a]]
    BY <1>7 DEF T!DeleteTag, T!Statement
  <2>2. ASSUME NEW a \in Aliases
        PROVE  /\ aliases[a] # None => aliases'[a] # None
               /\ aliases'[a] # None =>
                      aliases'[a] \in AliasRow /\ Landed(aliases'[a].campaign)
    <3>1. CASE aliases[a] = None
      BY <2>1, <3>1
    <3>2. CASE aliases[a] # None
      <4>1. aliases[a] \in AliasRow /\ Landed(aliases[a].campaign)
        BY <1>0, <3>2 DEF Tables
      <4>2. aliases'[a] = [aliases[a] EXCEPT !.tag = None] \/ aliases'[a] = aliases[a]
        BY <2>1
      <4>3. aliases'[a] \in AliasRow /\ aliases'[a].campaign = aliases[a].campaign
        BY <4>1, <4>2 DEF AliasRow
      <4> QED  BY <4>1, <4>3 DEF NoneIsNoRecord
    <3> QED  BY <3>1, <3>2
  <2>3. TouchGrows
    BY <2>1, <2>2 DEF TouchGrows
  <2>4. Tables'
    <3>1. \A k : Landed(k)' = Landed(k)
      BY <2>1 DEF Landed
    <3>2. aliases' = [a \in Aliases |-> aliases'[a]]
      BY <2>1
    <3>3. /\ tags' = [k \in Tags |-> tags'[k]]
          /\ \A k \in Tags :
                tags'[k] # None => tags'[k] \in TagRow /\ tags'[k].link \in DOMAIN links
      BY <1>0, <2>1
    <3>4. \A a \in Aliases : aliases'[a] # None =>
              aliases'[a] \in AliasRow /\ Landed(aliases[a].campaign)'
      BY <2>2, <3>1
    <3> QED  BY <1>0, <2>1, <3>2, <3>3, <3>4 DEF Tables
  <2> QED  BY <2>1, <2>3, <2>4, WriteStep
<1>8. ASSUME NEW tag \in Tags, NEW to \in {"active", "disabled"}, T!ReadTagForStatus(r, tag, to)
      PROVE  TouchInv'
  <2> PICK j : j = [do |-> "tag status", tag |-> tag, link |-> tags[tag].link, to |-> to]
    OBVIOUS
  <2>1. tags[tag] # None /\ T!Begin(r, j) /\ UNCHANGED <<T!Rows, cached>>
    BY <1>8 DEF T!ReadTagForStatus
  <2>2. TagStatusSound(j) /\ j.do # "bump"
    BY <1>0, <2>1 DEF TagStatusSound
  <2> QED  BY <2>1, <2>2, ReadStep DEF JobSound
<1> QED  BY <1>1, <1>2, <1>3, <1>4, <1>5, <1>6, <1>7, <1>8 DEF T!TagStep

\* Cards are provisioned.
LEMMA ProvisionDesk ==
    ASSUME NoneIsNoRecord, TouchInv, NEW r \in Requests, T!ProvisionStep(r)
    PROVE  TouchInv'
<1>0. Tables
  BY DEF TouchInv
<1>1. CASE T!ProvisionTouchpoint(r)
  <2>1. ProvisionSound(job[r]) /\ ~ T!Doing(r, "bump")
    <3>1. job[r] # Idle /\ job[r].do = "provision" /\ JobSound(job[r])
      BY <1>1 DEF T!ProvisionTouchpoint, T!Doing, TouchInv, JobsSound
    <3> QED  BY <3>1, SoundByWork DEF T!Doing
  <2>2. UNCHANGED <<shops, campaigns, links, groups, tags, cached>>
    BY <1>1 DEF T!ProvisionTouchpoint
  <2> PICK j : j = job[r]
    OBVIOUS
  <2>3. CASE T!Answered(r) /\ aliases' = aliases
    BY <2>1, <2>2, <2>3, RefusedStep
  <2>4. CASE ~ (T!Answered(r) /\ aliases' = aliases)
    <3> PICK row : row = [tag |-> j.tag, campaign |-> j.campaign, status |-> "active", stage |-> 0]
      OBVIOUS
    <3>1. aliases' = [aliases EXCEPT ![j.alias] = row] /\ T!Written(r)
      BY <1>1, <2>4 DEF T!ProvisionTouchpoint
    <3>2. row \in AliasRow /\ j.alias \in Aliases /\ Landed(row.campaign)
      BY <2>1 DEF ProvisionSound, AliasRow
    <3>3. Tables' /\ TouchGrows
      BY <1>0, <2>2, <3>1, <3>2, AliasWrite
    <3> QED  BY <3>1, <3>3, WriteStep
  <2> QED  BY <2>3, <2>4
<1>2. ASSUME NEW a \in Aliases, NEW tag \in Tags, T!ReadForProvision(r, tag, a)
      PROVE  TouchInv'
  <2> PICK j : j = [do |-> "provision", tag |-> tag, alias |-> a,
                    campaign |-> links[tags[tag].link].campaign]
    OBVIOUS
  <2>1. tags[tag] # None /\ T!Begin(r, j) /\ UNCHANGED <<T!Rows, cached>>
    BY <1>2 DEF T!ReadForProvision
  <2> PICK l : l = tags[tag].link
    OBVIOUS
  <2>2. l \in DOMAIN links /\ links[l] \in LinkRow
    BY <1>0, <2>1 DEF Tables
  <2>3. ProvisionSound(j) /\ j.do # "bump"
    BY <2>2 DEF ProvisionSound, LinkRow, Landed
  <2> QED  BY <2>1, <2>3, ReadStep DEF JobSound
<1> QED  BY <1>1, <1>2 DEF T!ProvisionStep

\* The cards' desk.
LEMMA CardDesk ==
    ASSUME NoneIsNoRecord, TouchInv, NEW r \in Requests, MaxStage \in Nat, T!TouchpointStep(r)
    PROVE  TouchInv'
<1>0. /\ Tables
      /\ \A a \in Aliases :
            aliases[a] # None => aliases[a] \in AliasRow /\ Landed(aliases[a].campaign)
  BY DEF TouchInv, Tables
<1>1. CASE T!RebindTouchpoint(r)
  <2>1. RebindSound(job[r]) /\ ~ T!Doing(r, "bump")
    <3>1. job[r] # Idle /\ job[r].do = "rebind" /\ JobSound(job[r])
      BY <1>1 DEF T!RebindTouchpoint, T!Doing, TouchInv, JobsSound
    <3> QED  BY <3>1, SoundByWork DEF T!Doing
  <2>2. UNCHANGED <<shops, campaigns, links, groups, tags, cached>>
    BY <1>1 DEF T!RebindTouchpoint
  <2> PICK j : j = job[r]
    OBVIOUS
  <2>3. CASE ~ T!asPreviewed(j)
    <3>1. T!Answered(r) /\ aliases' = aliases
      BY <1>1, <2>3 DEF T!RebindTouchpoint
    <3> QED  BY <2>1, <2>2, <3>1, RefusedStep
  <2>4. CASE T!asPreviewed(j)
    <3> PICK row : row = [aliases[j.alias] EXCEPT !.campaign = j.to]
      OBVIOUS
    <3>1. aliases' = [aliases EXCEPT ![j.alias] = row] /\ T!Written(r)
      BY <1>1, <2>4 DEF T!RebindTouchpoint
    <3>2. j.alias \in Aliases /\ aliases[j.alias] \in AliasRow /\ j.to \in Campaigns /\ Landed(j.to)
      BY <1>0, <2>1 DEF RebindSound
    <3>3. row \in AliasRow /\ row.campaign = j.to
      BY <3>2 DEF AliasRow
    <3>4. Tables' /\ TouchGrows
      BY <1>0, <2>2, <3>1, <3>2, <3>3, AliasWrite
    <3> QED  BY <3>1, <3>4, WriteStep
  <2> QED  BY <2>3, <2>4
<1>2. CASE T!AdvanceTouchpointStage(r)
  <2>1. StageSound(job[r])
    <3>1. job[r] # Idle /\ job[r].do = "stage" /\ JobSound(job[r])
      BY <1>2 DEF T!AdvanceTouchpointStage, T!Doing, TouchInv, JobsSound
    <3> QED  BY <3>1, SoundByWork
  <2> PICK j : j = job[r]
    OBVIOUS
  <2> PICK row : row = [aliases[j.alias] EXCEPT !.stage = j.stage]
    OBVIOUS
  <2>2. /\ aliases' = [aliases EXCEPT ![j.alias] = row] /\ T!Written(r)
        /\ UNCHANGED <<shops, campaigns, links, groups, tags>>
    BY <1>2 DEF T!AdvanceTouchpointStage
  <2>3. j.alias \in Aliases /\ aliases[j.alias] \in AliasRow /\ j.stage \in Nat
        /\ Landed(aliases[j.alias].campaign)
    BY <1>0, <2>1 DEF StageSound
  <2>4. row \in AliasRow /\ row.campaign = aliases[j.alias].campaign
    BY <2>3 DEF AliasRow
  <2>5. Tables' /\ TouchGrows
    BY <1>0, <2>2, <2>3, <2>4, AliasWrite
  <2> QED  BY <2>2, <2>5, WriteStep
<1>3. ASSUME NEW a \in Aliases, T!ReadForStage(r, a) PROVE TouchInv'
  <2> PICK j : j = [do |-> "stage", alias |-> a, stage |-> aliases[a].stage + 1]
    OBVIOUS
  <2>1. aliases[a] # None /\ T!Begin(r, j) /\ UNCHANGED <<T!Rows, cached>>
    BY <1>3 DEF T!ReadForStage
  <2>2. aliases[a].stage \in Nat
    BY <1>0, <2>1 DEF AliasRow
  <2>3. StageSound(j) /\ j.do # "bump"
    BY <2>1, <2>2 DEF StageSound
  <2> QED  BY <2>1, <2>3, ReadStep DEF JobSound
<1>4. ASSUME NEW a \in Aliases, NEW to \in {"active", "disabled"}, T!SetTouchpointStatus(r, a, to)
      PROVE  TouchInv'
  <2> PICK row : row = [aliases[a] EXCEPT !.status = to]
    OBVIOUS
  <2>1. /\ aliases[a] # None /\ aliases' = [aliases EXCEPT ![a] = row] /\ T!Written(r)
        /\ UNCHANGED <<shops, campaigns, links, groups, tags>>
    BY <1>4 DEF T!SetTouchpointStatus, T!Statement
  <2>2. aliases[a] \in AliasRow /\ Landed(aliases[a].campaign)
    BY <1>0, <2>1
  <2>3. row \in AliasRow /\ row.campaign = aliases[a].campaign
    BY <2>2 DEF AliasRow
  <2>4. Tables' /\ TouchGrows
    BY <1>0, <2>1, <2>2, <2>3, AliasWrite
  <2> QED  BY <2>1, <2>4, WriteStep
<1>5. ASSUME NEW a \in Aliases, NEW to \in Campaigns, NEW expected \in Campaigns,
             T!ReadForRebind(r, a, to, expected)
      PROVE  TouchInv'
  <2> PICK j : j = [do |-> "rebind", alias |-> a, to |-> to, expected |-> expected]
    OBVIOUS
  <2>1. aliases[a] # None /\ T!lands(to) /\ T!Begin(r, j) /\ UNCHANGED <<T!Rows, cached>>
    BY <1>5 DEF T!ReadForRebind
  <2>2. RebindSound(j) /\ j.do # "bump"
    BY <2>1, LandsIsLanded DEF RebindSound
  <2> QED  BY <2>1, <2>2, ReadStep DEF JobSound
<1> QED  BY <1>1, <1>2, <1>3, <1>4, <1>5 DEF T!TouchpointStep

\* A bump empties the cache, and no lookup under way may be taken for a fresh one.
LEMMA BumpStep ==
    ASSUME TouchInv, NEW r \in Requests, T!BumpEpoch(r)
    PROVE  TouchInv'
<1>1. /\ UNCHANGED <<shops, campaigns, links, groups, tags, aliases>>
      /\ cached' = [code \in {} |-> None]
      /\ job' = [q \in Requests |-> IF q = r THEN Idle
                                    ELSE IF T!Doing(q, "lookup")
                                    THEN [job[q] EXCEPT !.clean = FALSE] ELSE job[q]]
  BY DEF T!BumpEpoch, T!Rows
<1>2. Tables' /\ TouchGrows
  BY <1>1, TablesStay DEF TouchInv
<1>3. ASSUME NEW q \in Requests, job'[q] # Idle
      PROVE  JobSound(job'[q]) /\ (job'[q].do = "lookup" => ~ job'[q].clean)
  <2>1. CASE T!Doing(q, "lookup")
    <3> PICK j : j = job[q]
      OBVIOUS
    <3>1. LookupSound(j) /\ q # r
      BY <1>1, <1>3, <2>1, SoundByWork DEF T!Doing, TouchInv, JobsSound
    <3> PICK i : i = job'[q]
      OBVIOUS
    <3>2. i = [j EXCEPT !.clean = FALSE]
      BY <1>1, <2>1, <3>1
    <3>3. LookupSound(i) /\ ~ i.clean
      BY <3>1, <3>2 DEF LookupSound
    <3> QED  BY <3>3 DEF JobSound
  <2>2. CASE ~ T!Doing(q, "lookup")
    BY <1>1, <1>3, <2>2 DEF T!Doing, TouchInv, JobsSound
  <2> QED  BY <2>1, <2>2
<1>4. JobsSound'
  <2>1. ASSUME NEW q \in Requests, job'[q] # Idle PROVE JobSound(job[q])'
    <3> PICK i : i = job'[q]
      OBVIOUS
    <3>1. JobSound(i)'
      BY <1>2, <1>3, <2>1, JobsStay
    <3> QED  BY <3>1
  <2> QED  BY <1>1, <2>1 DEF JobsSound
<1>5. KeptFresh'
  BY <1>1 DEF KeptFresh, T!keptClean
<1>6. LookupsFresh'
  BY <1>3 DEF LookupsFresh, T!Doing
<1> QED  BY <1>2, <1>4, <1>5, <1>6 DEF TouchInv, Fresh

\* A lookup reads one more of its rows.
LEMMA LoadStep ==
    ASSUME TouchInv, NEW r \in Requests, T!Doing(r, "lookup"), NEW rows, NEW next,
           T!Loaded(r, rows, next), NEW j, j = job[r],
           NEW i, i = [j EXCEPT !.rows = rows, !.next = next],
           NoBump /\ j.clean => LookupFresh(i)
    PROVE  TouchInv'
<1>1. LookupSound(j)
  BY SoundByWork DEF T!Doing, TouchInv, JobsSound
<1>2. UNCHANGED <<shops, campaigns, links, groups, tags, aliases, cached>>
      /\ job' = [job EXCEPT ![r] = i] /\ LookupSound(i) /\ i.clean = j.clean
  <2>1. job' = [job EXCEPT ![r] = [j EXCEPT !.rows = rows, !.next = next]]
        /\ UNCHANGED <<shops, campaigns, links, groups, tags, aliases, cached>>
    BY DEF T!Loaded, T!Rows
  <2>2. LookupSound(i) /\ i.clean = j.clean
    BY <1>1 DEF LookupSound
  <2> QED  BY <2>1, <2>2
<1>3. Tables' /\ TouchGrows
  BY <1>2, TablesStay DEF TouchInv
<1>4. JobsSound' /\ job'[r] = i /\ \A q \in Requests : q # r => job'[q] = job[q]
  <2>1. JobSound(i)'
    BY <1>2 DEF JobSound, LookupSound
  <2> QED  BY <1>2, <1>3, <2>1, JobStep DEF TouchInv
<1>5. NoBump' => NoBump
  BY <1>1, <1>4 DEF NoBump, T!Doing, LookupSound
<1>6. Fresh'
  <2> SUFFICES ASSUME NoBump' PROVE KeptFresh' /\ LookupsFresh'
    BY DEF Fresh
  <2>1. KeptFresh'
    BY <1>2, <1>5, KeptStays DEF TouchInv, Fresh
  <2>2. ASSUME NEW q \in Requests, T!Doing(q, "lookup")', job'[q].clean
        PROVE  LookupFresh(job[q])'
    <3> PICK k : k = job'[q]
      OBVIOUS
    <3>1. LookupFresh(k)
      <4>1. CASE q = r
        BY <1>2, <1>4, <1>5, <2>2, <4>1
      <4>2. CASE q # r
        BY <1>4, <1>5, <2>2, <4>2 DEF TouchInv, Fresh, LookupsFresh, T!Doing
      <4> QED  BY <4>1, <4>2
    <3>2. LookupFresh(k)'
      BY <1>2, <3>1, LookupStays
    <3> QED  BY <3>2
  <2> QED  BY <2>1, <2>2 DEF LookupsFresh
<1> QED  BY <1>3, <1>4, <1>6 DEF TouchInv

\* A lookup that has read all its rows keeps them.
LEMMA KeepStep ==
    ASSUME TouchInv, NEW r \in Requests, T!Keep(r)
    PROVE  TouchInv'
<1> PICK j : j = job[r]
  OBVIOUS
<1> PICK entry : entry = [rows |-> j.rows, clean |-> j.clean]
  OBVIOUS
<1>1. /\ T!Doing(r, "lookup") /\ j.next = "keep" /\ T!Answered(r)
      /\ cached' = [k \in DOMAIN cached \cup {j.key} |->
                       IF k = j.key THEN entry ELSE cached[k]]
      /\ UNCHANGED <<shops, campaigns, links, groups, tags, aliases>>
  BY DEF T!Keep, T!Loading, T!Rows
<1>2. Tables' /\ TouchGrows
  BY <1>1, TablesStay DEF TouchInv
<1>3. JobsSound' /\ job'[r] = Idle /\ \A q \in Requests : q # r => job'[q] = job[q]
  <2>1. job' = [job EXCEPT ![r] = Idle]
    BY <1>1 DEF T!Answered
  <2> QED  BY <1>2, <2>1, JobStep DEF TouchInv
<1>4. NoBump' => NoBump
  <2>1. ~ T!Doing(r, "bump")
    BY <1>1 DEF T!Doing
  <2> QED  BY <1>3, <2>1 DEF NoBump, T!Doing
<1>5. Fresh'
  <2> SUFFICES ASSUME NoBump' PROVE KeptFresh' /\ LookupsFresh'
    BY DEF Fresh
  <2>1. NoBump /\ KeptFresh /\ LookupsFresh /\ (j.clean => LookupFresh(j))
    BY <1>1, <1>4 DEF TouchInv, Fresh, LookupsFresh
  <2>2. ASSUME NEW l \in DOMAIN links, T!keptClean(<<"link", l>>)'
        PROVE  LinkLoaded(cached'[<<"link", l>>].rows, l)
    <3>1. CASE <<"link", l>> = j.key
      <4>1. cached'[<<"link", l>>] = entry /\ j.clean
        BY <1>1, <2>2, <3>1 DEF T!keptClean
      <4>2. LookupFresh(j)
        BY <2>1, <4>1
      <4>3. LinkSoFar(j, l)
        <5>1. \A a \in Aliases : j.key # <<"touchpoint", a>>
          BY <3>1
        <5>2. \A n \in DOMAIN links : j.key = <<"link", n>> => n = l
          BY <3>1
        <5> QED  BY <4>2, <5>1, <5>2 DEF LookupFresh
      <4>4. LinkLoaded(j.rows, l)
        BY <1>1, <4>3 DEF LinkSoFar
      <4> QED  BY <4>1, <4>4
    <3>2. CASE <<"link", l>> # j.key
      <4>1. T!keptClean(<<"link", l>>) /\ cached'[<<"link", l>>] = cached[<<"link", l>>]
        BY <1>1, <2>2, <3>2 DEF T!keptClean
      <4> QED  BY <2>1, <4>1 DEF KeptFresh
    <3> QED  BY <3>1, <3>2
  <2>3. ASSUME NEW a \in Aliases, T!keptClean(<<"touchpoint", a>>)'
        PROVE  CardLoaded(cached'[<<"touchpoint", a>>].rows, a)
    <3>1. CASE <<"touchpoint", a>> = j.key
      <4>1. cached'[<<"touchpoint", a>>] = entry /\ j.clean
        BY <1>1, <2>3, <3>1 DEF T!keptClean
      <4>2. LookupFresh(j)
        BY <2>1, <4>1
      <4>3. CardSoFar(j, a)
        <5>1. \A l \in DOMAIN links : j.key # <<"link", l>>
          BY <3>1
        <5>2. \A b \in Aliases : j.key = <<"touchpoint", b>> => b = a
          BY <3>1
        <5> QED  BY <4>2, <5>1, <5>2 DEF LookupFresh
      <4>4. CardLoaded(j.rows, a)
        BY <1>1, <4>3 DEF CardSoFar
      <4> QED  BY <4>1, <4>4
    <3>2. CASE <<"touchpoint", a>> # j.key
      <4>1. /\ T!keptClean(<<"touchpoint", a>>)
            /\ cached'[<<"touchpoint", a>>] = cached[<<"touchpoint", a>>]
        BY <1>1, <2>3, <3>2 DEF T!keptClean
      <4> QED  BY <2>1, <4>1 DEF KeptFresh
    <3> QED  BY <3>1, <3>2
  <2>4. KeptFresh'
    <3>1. ASSUME NEW l \in DOMAIN links', T!keptClean(<<"link", l>>)'
          PROVE  LinkLoaded(cached[<<"link", l>>].rows, l)'
      <4> PICK rows : rows = cached'[<<"link", l>>].rows
        OBVIOUS
      <4>1. LinkLoaded(rows, l)'
        BY <1>1, <2>2, <3>1, LoadsStay
      <4> QED  BY <4>1
    <3>2. ASSUME NEW a \in Aliases, T!keptClean(<<"touchpoint", a>>)'
          PROVE  CardLoaded(cached[<<"touchpoint", a>>].rows, a)'
      <4> PICK rows : rows = cached'[<<"touchpoint", a>>].rows
        OBVIOUS
      <4>1. CardLoaded(rows, a)'
        BY <1>1, <2>3, <3>2, LoadsStay
      <4> QED  BY <4>1
    <3> QED  BY <3>1, <3>2 DEF KeptFresh
  <2>5. ASSUME NEW q \in Requests, T!Doing(q, "lookup")', job'[q].clean
        PROVE  LookupFresh(job[q])'
    <3> PICK k : k = job'[q]
      OBVIOUS
    <3>1. LookupFresh(k)
      BY <1>3, <2>1, <2>5 DEF LookupsFresh, T!Doing
    <3>2. LookupFresh(k)'
      BY <1>1, <3>1, LookupStays
    <3> QED  BY <3>2
  <2> QED  BY <2>4, <2>5 DEF LookupsFresh
<1> QED  BY <1>2, <1>3, <1>5 DEF TouchInv

\* A lookup writes no row.
LEMMA LookupReads ==
    ASSUME NEW r \in Requests, T!LookupStep(r)
    PROVE  UNCHANGED <<desk, shops, campaigns, links, groups, tags, aliases>>
<1>1. ASSUME NEW rows, NEW next, T!Loaded(r, rows, next)
      PROVE  UNCHANGED <<desk, shops, campaigns, links, groups, tags, aliases>>
  BY <1>1 DEF T!Loaded, T!Rows
<1>2. ASSUME NEW key, NEW rows, T!Lookup(r, key, rows)
      PROVE  UNCHANGED <<desk, shops, campaigns, links, groups, tags, aliases>>
  BY <1>2 DEF T!Lookup, T!Rows
<1>3. CASE T!LoadCampaign(r)
  BY <1>1, <1>3 DEF T!LoadCampaign
<1>4. CASE T!LoadStore(r) \/ T!LoadEntry(r)
  BY <1>1, <1>4 DEF T!LoadStore, T!LoadEntry
<1>5. CASE T!Keep(r)
  BY <1>5 DEF T!Keep, T!Rows
<1> QED  BY <1>2, <1>3, <1>4, <1>5 DEF T!LookupStep, T!handlePublicLink,
         T!handlePublicTouchpoint

\* Lookups, row by row.
LEMMA LookupSteps ==
    ASSUME TouchInv, NEW r \in Requests, T!LookupStep(r)
    PROVE  TouchInv'
<1>1. ASSUME NEW l \in T!Codes, T!handlePublicLink(r, l) PROVE TouchInv'
  <2> PICK rows : rows = T!linkRows(l, None, None, None)
    OBVIOUS
  <2> PICK j : j = [do |-> "lookup", key |-> <<"link", l>>, next |-> "campaign",
                    rows |-> rows, clean |-> TRUE]
    OBVIOUS
  <2>1. T!Begin(r, j) /\ UNCHANGED <<T!Rows, cached>> /\ l \in DOMAIN links
    BY <1>1 DEF T!handlePublicLink, T!Lookup, T!Codes
  <2>2. LinkRead(rows, l, None, None, None)
    BY DEF LinkRead, RowFields, T!linkRows
  <2>3. LinkSoFar(j, l) /\ j.key = <<"link", l>>
    BY <2>2 DEF LinkSoFar
  <2>4. LookupFresh(j)
    BY <2>1, <2>3 DEF LookupFresh
  <2>5. JobSound(j) /\ j.do # "bump"
    BY DEF JobSound, LookupSound
  <2> QED  BY <2>1, <2>4, <2>5, ReadStep
<1>2. ASSUME NEW a \in Aliases, T!handlePublicTouchpoint(r, a) PROVE TouchInv'
  <2> PICK rows : rows = T!cardRows(a, None, None, None)
    OBVIOUS
  <2> PICK j : j = [do |-> "lookup", key |-> <<"touchpoint", a>>, next |-> "campaign",
                    rows |-> rows, clean |-> TRUE]
    OBVIOUS
  <2>1. T!Begin(r, j) /\ UNCHANGED <<T!Rows, cached>>
    BY <1>2 DEF T!handlePublicTouchpoint, T!Lookup
  <2>2. CardRead(rows, a, None, None, None)
    BY DEF CardRead, RowFields, T!cardRows
  <2>3. CardSoFar(j, a) /\ j.key = <<"touchpoint", a>>
    BY <2>2 DEF CardSoFar
  <2>4. LookupFresh(j)
    BY <2>3 DEF LookupFresh
  <2>5. JobSound(j) /\ j.do # "bump"
    BY DEF JobSound, LookupSound
  <2> QED  BY <2>1, <2>4, <2>5, ReadStep
<1> PICK j : j = job[r]
  OBVIOUS
<1>3. T!Doing(r, "lookup") => (NoBump /\ j.clean => LookupFresh(j)) /\ LookupSound(j)
  BY SoundByWork DEF TouchInv, JobsSound, Fresh, LookupsFresh, T!Doing
<1>4. CASE T!LoadCampaign(r)
  <2> PICK c : c = campaigns[j.rows.campaign]
    OBVIOUS
  <2> PICK read : read = [j.rows EXCEPT !.status = c.status, !.window = c.window]
    OBVIOUS
  <2> PICK withShop : withShop = [read EXCEPT !.shop = c.shop]
    OBVIOUS
  <2>1. T!Doing(r, "lookup") /\ j.next = "campaign" /\ LookupSound(j)
    BY <1>3, <1>4 DEF T!LoadCampaign, T!Loading
  <2>2. \/ j.key[1] = "touchpoint" /\ T!Loaded(r, read, "entry")
        \/ j.key[1] = "link" /\ T!needsStore(c) /\ T!Loaded(r, withShop, "store")
        \/ j.key[1] = "link" /\ ~ T!needsStore(c) /\ T!Loaded(r, read, "keep")
    BY <1>4 DEF T!LoadCampaign
  <2>3. ASSUME NEW l \in DOMAIN links, LinkSoFar(j, l)
        PROVE  /\ c = campaigns[links[l].campaign]
               /\ LinkRead(read, l, c.status, c.window, None)
               /\ LinkRead(withShop, l, c.status, c.window, c.shop)
    <3>1. LinkRead(j.rows, l, None, None, None)
      BY <2>1, <2>3 DEF LinkSoFar
    <3>2. c = campaigns[links[l].campaign]
      BY <3>1 DEF LinkRead
    <3> QED  BY <3>1, <3>2, LinkRowsRead
  <2>4. ASSUME NEW a \in Aliases, CardSoFar(j, a)
        PROVE  /\ c = campaigns[aliases[a].campaign]
               /\ CardRead(read, a, c.status, c.window, None)
    <3>1. CardRead(j.rows, a, None, None, None)
      BY <2>1, <2>4 DEF CardSoFar
    <3>2. c = campaigns[aliases[a].campaign]
      BY <3>1 DEF CardRead
    <3> QED  BY <3>1, <3>2, CardRowsRead
  <2>5. CASE j.key[1] = "touchpoint" /\ T!Loaded(r, read, "entry")
    <3> PICK i : i = [j EXCEPT !.rows = read, !.next = "entry"]
      OBVIOUS
    <3>1. i.key = j.key /\ i.rows = read /\ i.next = "entry"
      BY <2>1 DEF LookupSound
    <3>2. ASSUME NoBump, j.clean PROVE LookupFresh(i)
      <4>1. PICK a \in Aliases : j.key = <<"touchpoint", a>> /\ CardSoFar(j, a)
        BY <1>3, <2>1, <2>5, <3>2 DEF LookupFresh
      <4>2. CardSoFar(i, a)
        BY <2>4, <3>1, <4>1 DEF CardSoFar
      <4> QED  BY <3>1, <4>1, <4>2 DEF LookupFresh
    <3> QED  BY <2>1, <2>5, <3>2, LoadStep
  <2>6. CASE j.key[1] = "link" /\ T!needsStore(c) /\ T!Loaded(r, withShop, "store")
    <3> PICK i : i = [j EXCEPT !.rows = withShop, !.next = "store"]
      OBVIOUS
    <3>1. i.key = j.key /\ i.rows = withShop /\ i.next = "store"
      BY <2>1 DEF LookupSound
    <3>2. ASSUME NoBump, j.clean PROVE LookupFresh(i)
      <4>1. PICK l \in DOMAIN links : j.key = <<"link", l>> /\ LinkSoFar(j, l)
        BY <1>3, <2>1, <2>6, <3>2 DEF LookupFresh
      <4>2. LinkSoFar(i, l)
        BY <2>3, <2>6, <3>1, <4>1 DEF LinkSoFar
      <4> QED  BY <3>1, <4>1, <4>2 DEF LookupFresh
    <3> QED  BY <2>1, <2>6, <3>2, LoadStep
  <2>7. CASE j.key[1] = "link" /\ ~ T!needsStore(c) /\ T!Loaded(r, read, "keep")
    <3> PICK i : i = [j EXCEPT !.rows = read, !.next = "keep"]
      OBVIOUS
    <3>1. i.key = j.key /\ i.rows = read /\ i.next = "keep"
      BY <2>1 DEF LookupSound
    <3>2. ASSUME NoBump, j.clean PROVE LookupFresh(i)
      <4>1. PICK l \in DOMAIN links : j.key = <<"link", l>> /\ LinkSoFar(j, l)
        BY <1>3, <2>1, <2>7, <3>2 DEF LookupFresh
      <4>2. storeRow(c) = None
        BY <2>7 DEF storeRow
      <4>3. LinkSoFar(i, l)
        BY <2>3, <3>1, <4>1, <4>2 DEF LinkSoFar, LinkLoaded
      <4> QED  BY <3>1, <4>1, <4>3 DEF LookupFresh
    <3> QED  BY <2>1, <2>7, <3>2, LoadStep
  <2> QED  BY <2>2, <2>5, <2>6, <2>7
<1>5. CASE T!LoadStore(r)
  <2> PICK shop : shop = shops[j.rows.shop]
    OBVIOUS
  <2> PICK read : read = [j.rows EXCEPT !.shop = shop]
    OBVIOUS
  <2> PICK i : i = [j EXCEPT !.rows = read, !.next = "keep"]
    OBVIOUS
  <2>1. T!Doing(r, "lookup") /\ j.next = "store" /\ T!Loaded(r, read, "keep") /\ LookupSound(j)
    BY <1>3, <1>5 DEF T!LoadStore, T!Loading
  <2>2. i.key = j.key /\ i.rows = read /\ i.next = "keep"
    BY <2>1 DEF LookupSound
  <2>3. ASSUME NoBump, j.clean PROVE LookupFresh(i)
    <3>1. PICK l \in DOMAIN links : j.key = <<"link", l>> /\ LinkSoFar(j, l)
      BY <1>3, <2>1, <2>3 DEF LookupFresh, CardSoFar
    <3> PICK c : c = campaigns[links[l].campaign]
      OBVIOUS
    <3>2. T!needsStore(c) /\ LinkRead(j.rows, l, c.status, c.window, c.shop)
      BY <2>1, <3>1 DEF LinkSoFar
    <3>3. shop = storeRow(c)
      BY <3>2 DEF LinkRead, storeRow
    <3>4. LinkRead(read, l, c.status, c.window, shop)
      BY <3>2 DEF LinkRead, RowFields
    <3>5. LinkSoFar(i, l)
      BY <2>2, <3>3, <3>4 DEF LinkSoFar, LinkLoaded
    <3> QED  BY <2>2, <3>1, <3>5 DEF LookupFresh
  <2> QED  BY <2>1, <2>3, LoadStep
<1>6. CASE T!LoadEntry(r)
  <2> PICK l : l = T!canonical(j.rows.campaign)
    OBVIOUS
  <2> PICK enabled : enabled = T!switchedOn(l)
    OBVIOUS
  <2> PICK read : read = [j.rows EXCEPT !.link = l, !.enabled = enabled]
    OBVIOUS
  <2> PICK i : i = [j EXCEPT !.rows = read, !.next = "keep"]
    OBVIOUS
  <2>1. T!Doing(r, "lookup") /\ j.next = "entry" /\ T!Loaded(r, read, "keep") /\ LookupSound(j)
    BY <1>3, <1>6 DEF T!LoadEntry, T!Loading
  <2>2. i.key = j.key /\ i.rows = read /\ i.next = "keep"
    BY <2>1 DEF LookupSound
  <2>3. ASSUME NoBump, j.clean PROVE LookupFresh(i)
    <3>1. PICK a \in Aliases : j.key = <<"touchpoint", a>> /\ CardSoFar(j, a)
      BY <1>3, <2>1, <2>3 DEF LookupFresh, LinkSoFar
    <3> PICK c : c = campaigns[aliases[a].campaign]
      OBVIOUS
    <3>2. CardRead(j.rows, a, c.status, c.window, None)
      BY <2>1, <3>1 DEF CardSoFar
    <3>3. l = T!canonical(aliases[a].campaign)
      BY <3>2 DEF CardRead
    <3>4. CardRead(read, a, c.status, c.window, l)
      BY <3>2 DEF CardRead, RowFields
    <3>5. CardSoFar(i, a)
      BY <2>2, <3>3, <3>4 DEF CardSoFar, CardLoaded
    <3> QED  BY <2>2, <3>1, <3>5 DEF LookupFresh
  <2> QED  BY <2>1, <2>3, LoadStep
<1> QED  BY <1>1, <1>2, <1>4, <1>5, <1>6, KeepStep DEF T!LookupStep

\* Time passes, or nothing happens.
LEMMA PassStep ==
    ASSUME TouchInv, T!Pass \/ UNCHANGED T!touchVars
    PROVE  TouchInv'
<1>1. UNCHANGED <<shops, campaigns, links, groups, tags, aliases, job, cached>>
  BY DEF T!Pass, T!touchVars, T!Rows
<1>2. Tables' /\ TouchGrows
  BY <1>1, TablesStay DEF TouchInv
<1>3. JobsSound'
  <2>1. ASSUME NEW q \in Requests, job[q] # Idle PROVE JobSound(job[q])'
    <3> PICK i : i = job[q]
      OBVIOUS
    <3>1. JobSound(i)'
      BY <1>2, <2>1, JobsStay DEF TouchInv, JobsSound
    <3> QED  BY <1>1, <3>1
  <2> QED  BY <1>1, <2>1 DEF TouchInv, JobsSound
<1>4. NoBump' => NoBump
  BY <1>1 DEF NoBump, T!Doing
<1> QED  BY <1>1, <1>2, <1>3, <1>4, FreshStays DEF TouchInv

\* Every step keeps it.
LEMMA TouchNextInv ==
    ASSUME NoneIsNoRecord, TouchInv, [T!TouchNext]_T!touchVars
    PROVE  TouchInv'
<1>1. MaxStage \in Nat
  BY PublicAssumption DEF T!BoundsAssumption
<1>2. CASE UNCHANGED T!touchVars
  BY <1>2, PassStep
<1>3. CASE T!TouchNext
  <2>1. ASSUME NEW r \in Requests,
               \/ T!BumpEpoch(r) \/ T!LookupStep(r) \/ T!CampaignStep(r) \/ T!TagStep(r) \/ T!TouchpointStep(r)
               \/ T!ProvisionStep(r)
               \/ \E l \in T!Codes, enabled \in BOOLEAN : T!SetLinkEnabled(r, l, enabled)
        PROVE  TouchInv'
    BY <1>1, <2>1, BumpStep, LookupSteps, CampaignDesk, TagDesk, CardDesk, ProvisionDesk,
       SwitchStep
  <2> QED  BY <1>3, <2>1, PassStep DEF T!TouchNext
<1> QED  BY <1>2, <1>3

\* Initially cards are bound to nothing, and campaigns that run have codes or there are none.
LEMMA TouchInitInv == NoneIsNoRecord /\ T!TouchInit => TouchInv
<1> SUFFICES ASSUME NoneIsNoRecord, T!TouchInit PROVE TouchInv
  OBVIOUS
<1>0. MaxLinks \in Nat
  BY PublicAssumption DEF T!BoundsAssumption
<1>1. /\ shops = [s \in Shops |-> "active"] /\ groups = {} /\ aliases = [a \in Aliases |-> None]
      /\ cached = [code \in {} |-> None] /\ job = [r \in Requests |-> Idle]
  BY DEF T!TouchInit
<1>2. JobsSound
  BY <1>1 DEF JobsSound
<1>3. Fresh
  BY <1>1 DEF Fresh, KeptFresh, LookupsFresh, T!keptClean, T!Doing
<1>4. T!Running \in CampaignRow /\ T!Running # None
  <2>1. T!Running \in CampaignRow
    BY DEF T!Running, CampaignRow, T!CampaignStatuses, AnyWindow
  <2> QED  BY <2>1 DEF NoneIsNoRecord
<1>5. /\ campaigns = [c \in Campaigns |-> campaigns[c]]
      /\ \A c \in Campaigns : campaigns[c] # None => campaigns[c] \in CampaignRow
      /\ links \in Seq(LinkRow)
      /\ \A l \in DOMAIN links : l \in Nat /\ campaigns[links[l].campaign] # None
  <2>1. CASE desk = "campaigns"
    <3>1. campaigns = [c \in Campaigns |-> None] /\ links = <<>>
      BY <2>1 DEF T!TouchInit
    <3>2. <<>> \in Seq(LinkRow)
      OBVIOUS
    <3> QED  BY <3>1, <3>2
  <2>2. CASE desk # "campaigns"
    <3>1. /\ campaigns = [c \in Campaigns |-> T!Running]
          /\ links \in [1..MaxLinks -> [campaign : Campaigns, enabled : {TRUE}]]
      BY <2>2 DEF T!TouchInit
    <3>2. links \in [1..MaxLinks -> LinkRow]
      BY <3>1 DEF LinkRow
    <3>3. links \in Seq(LinkRow)
      BY <1>0, <3>2
    <3>4. \A l \in DOMAIN links : l \in Nat /\ links[l].campaign \in Campaigns
      <4>1. \A l \in DOMAIN links : l \in Nat /\ links[l] \in LinkRow
        BY <1>0, <3>2
      <4> QED  BY <4>1 DEF LinkRow
    <3> QED  BY <1>4, <3>1, <3>3, <3>4
  <2> QED  BY <2>1, <2>2
<1>6. /\ tags = [tag \in Tags |-> tags[tag]]
      /\ \A tag \in Tags :
            tags[tag] # None => tags[tag] \in TagRow /\ tags[tag].link \in DOMAIN links
  <2>1. CASE desk = "touchpoints"
    <3>1. tags \in [Tags -> [link : DOMAIN links, group : {None}, status : {"active"}]]
      BY <2>1 DEF T!TouchInit, T!Codes
    <3> QED  BY <1>5, <3>1 DEF TagRow
  <2>2. CASE desk # "touchpoints"
    <3>1. tags = [tag \in Tags |-> None]
      BY <2>2 DEF T!TouchInit
    <3> QED  BY <3>1
  <2> QED  BY <2>1, <2>2
<1>7. Tables
  BY <1>1, <1>5, <1>6 DEF Tables
<1> QED  BY <1>2, <1>3, <1>7 DEF TouchInv

TouchHeld == focus = "touchpoints" => TouchInv

\* So it holds throughout.
LEMMA TouchStays == NoneIsNoRecord => (Spec => []TouchHeld)
<1> SUFFICES ASSUME NoneIsNoRecord PROVE Spec => []TouchHeld
  OBVIOUS
<1>1. Init => TouchHeld
  BY TouchInitInv DEF Init, TouchHeld
<1>2. TouchHeld /\ [Next]_allVars => TouchHeld'
  BY StepsOf, TouchNextInv DEF TouchHeld
<1> QED  BY <1>1, <1>2, PTL DEF Spec

\* However cards are provisioned, rebound, switched and deleted in parallel, every card
\* has a code of its campaign to land on, and not a stopped one while another is on
\* (pickCanonicalLink, ProvisionTouchpoint, RebindTouchpoint).
THEOREM CardsAlwaysLand == NoneIsNoRecord => (Spec => []CardsLand)
<1> SUFFICES ASSUME NoneIsNoRecord PROVE Spec => []CardsLand
  OBVIOUS
<1>1. TouchHeld => CardsLand
  <2> SUFFICES ASSUME TouchInv, NEW a \in T!Made(aliases)
               PROVE  LET l == T!canonical(aliases[a].campaign)
                      IN  /\ l # None /\ links[l].campaign = aliases[a].campaign
                          /\ ~links[l].enabled =>
                                 \A k \in T!Codes : links[k].campaign = aliases[a].campaign
                                                    => ~links[k].enabled
    BY DEF TouchHeld, CardsLand, T!CardsLand
  <2>1. /\ a \in Aliases /\ aliases[a] # None /\ links \in Seq(LinkRow)
        /\ Landed(aliases[a].campaign)
    <3>1. a \in Aliases /\ aliases[a] # None
      BY DEF T!Made, TouchInv, Tables
    <3> QED  BY <3>1 DEF TouchInv, Tables
  <2> PICK c : c = aliases[a].campaign
    OBVIOUS
  <2>2. T!canonical(c) \in DOMAIN links /\ links[T!canonical(c)].campaign = c
        /\ (~ links[T!canonical(c)].enabled =>
                \A k \in DOMAIN links : links[k].campaign = c => ~ links[k].enabled)
    BY <2>1, CanonicalLands
  <2>3. T!canonical(c) # None
    BY <2>1, <2>2 DEF NoneIsNoRecord
  <2> QED  BY <2>2, <2>3 DEF T!Codes
<1> QED  BY <1>1, TouchStays, PTL

\* The verdict on the rows a code loads is the verdict the tables give.
LEMMA DecidesAlike ==
    ASSUME NoneIsNoRecord, Tables, NEW l \in DOMAIN links, NEW at,
           NEW rows, LinkLoaded(rows, l)
    PROVE  T!DecideLink(rows, at) = T!ResolveLink(l, at)
<1> PICK c : c = campaigns[links[l].campaign]
  OBVIOUS
<1> PICK window : window = c.window
  OBVIOUS
<1>1. c \in CampaignRow
  <2>1. links[l] \in LinkRow /\ campaigns[links[l].campaign] # None
    BY DEF Tables
  <2> QED  BY <2>1 DEF Tables, LinkRow
<1>2. c.status # "available" /\ c.shop \in Shops \cup {None}
  BY <1>1 DEF CampaignRow, T!CampaignStatuses
<1>3. /\ rows.enabled = links[l].enabled /\ rows.status = c.status /\ rows.window = window
      /\ rows.shop = IF c.shop # None /\ c.status = "active" THEN shops[c.shop] ELSE None
  BY DEF LinkLoaded, LinkRead, storeRow, T!needsStore
<1> PICK outcome : outcome = IF c.status = "active" THEN T!ResolveTime(window, at) ELSE c.status
  OBVIOUS
<1>4. T!DecideLink(rows, at) =
          IF ~ links[l].enabled THEN T!verdict("link_disabled", FALSE)
          ELSE T!verdict(outcome, outcome = "available" /\ rows.shop = "disabled")
  BY <1>3 DEF T!DecideLink
<1>5. T!ResolveLink(l, at) =
          IF ~ links[l].enabled THEN T!verdict("link_disabled", FALSE)
          ELSE T!verdict(outcome, outcome = "available" /\ T!storeDisabled(c.shop))
  BY DEF T!ResolveLink
<1>6. (outcome = "available" /\ rows.shop = "disabled")
          <=> (outcome = "available" /\ T!storeDisabled(c.shop))
  BY <1>2, <1>3 DEF T!storeDisabled, NoneIsNoRecord
<1>7. (outcome = "available" /\ rows.shop = "disabled")
          = (outcome = "available" /\ T!storeDisabled(c.shop))
  BY <1>6
<1> QED  BY <1>4, <1>5, <1>7

\* And so is the verdict on the rows a touchpoint loads.
LEMMA CardDecidesAlike ==
    ASSUME NEW a, NEW at, NEW rows, CardLoaded(rows, a)
    PROVE  T!DecideTouchpoint(rows, at) = T!DecideTouchpoint(T!LoadTouchpointRows(a), at)
<1> PICK now : now = T!LoadTouchpointRows(a)
  OBVIOUS
<1>1. CardLoaded(now, a)
  BY DEF CardLoaded, CardRead, RowFields, T!LoadTouchpointRows, T!cardRows
<1>2. /\ rows.card = now.card /\ rows.link = now.link /\ rows.enabled = now.enabled
      /\ rows.status = now.status /\ rows.window = now.window /\ rows.shop = now.shop
  BY <1>1 DEF CardLoaded, CardRead
<1>3. T!DecideLink(rows, at) = T!DecideLink(now, at)
  BY <1>2 DEF T!DecideLink
<1> QED  BY <1>2, <1>3 DEF T!DecideTouchpoint

\* Whatever is written, read row by row and kept in which order, rows that were loaded
\* under one epoch decide as the tables do once every write has bumped it (readcache,
\* LoadResolvedRows, LoadTouchpointRows, DecideLink, DecideTouchpoint).
THEOREM CacheDecidesAlike == NoneIsNoRecord => (Spec => []CachedRowsDecideAlike)
<1> SUFFICES ASSUME NoneIsNoRecord PROVE Spec => []CachedRowsDecideAlike
  OBVIOUS
<1>1. TouchHeld => CachedRowsDecideAlike
  <2> SUFFICES ASSUME TouchInv, NoBump, NEW at \in T!Times
               PROVE  /\ \A l \in T!Codes : T!keptClean(<<"link", l>>) =>
                             T!DecideLink(cached[<<"link", l>>].rows, at) = T!ResolveLink(l, at)
                      /\ \A a \in T!Made(aliases) : T!keptClean(<<"touchpoint", a>>) =>
                             T!DecideTouchpoint(cached[<<"touchpoint", a>>].rows, at)
                                 = T!DecideTouchpoint(T!LoadTouchpointRows(a), at)
    BY DEF TouchHeld, CachedRowsDecideAlike, T!CachedRowsDecideAlike, NoBump
  <2>1. ASSUME NEW l \in T!Codes, T!keptClean(<<"link", l>>)
        PROVE  T!DecideLink(cached[<<"link", l>>].rows, at) = T!ResolveLink(l, at)
    <3>1. l \in DOMAIN links /\ LinkLoaded(cached[<<"link", l>>].rows, l)
      BY <2>1 DEF TouchInv, Fresh, KeptFresh, T!Codes
    <3> QED  BY <3>1, DecidesAlike DEF TouchInv
  <2>2. ASSUME NEW a \in T!Made(aliases), T!keptClean(<<"touchpoint", a>>)
        PROVE  T!DecideTouchpoint(cached[<<"touchpoint", a>>].rows, at)
                   = T!DecideTouchpoint(T!LoadTouchpointRows(a), at)
    <3>1. a \in Aliases
      BY DEF T!Made, TouchInv, Tables
    <3>2. CardLoaded(cached[<<"touchpoint", a>>].rows, a)
      BY <2>2, <3>1 DEF TouchInv, Fresh, KeptFresh
    <3> QED  BY <3>2, CardDecidesAlike
  <2> QED  BY <2>1, <2>2
<1> QED  BY <1>1, TouchStays, PTL

\* Rows are stopped and started one at a time.
LEMMA StopsOne ==
    ASSUME TouchInv, [T!TouchNext]_T!touchVars
    PROVE  T!StopsNoOther
<1> SUFFICES ASSUME NEW a \in T!Made(aliases), aliases'[a].status # aliases[a].status
             PROVE  /\ links' = links
                    /\ \A b \in T!Made(aliases) \ {a} :
                          T!LoadTouchpointRows(b)' = T!LoadTouchpointRows(b)
  BY DEF T!StopsNoOther
<1>1. /\ a \in Aliases /\ aliases[a] # None /\ aliases[a] \in AliasRow
      /\ aliases = [k \in Aliases |-> aliases[k]]
      /\ \A b \in T!Made(aliases) : b \in Aliases
  BY DEF T!Made, TouchInv, Tables
<1>2. ASSUME UNCHANGED <<shops, campaigns, links>>,
             \A b \in Aliases \ {a} : aliases'[b] = aliases[b]
      PROVE  /\ links' = links
             /\ \A b \in T!Made(aliases) \ {a} :
                   T!LoadTouchpointRows(b)' = T!LoadTouchpointRows(b)
  <2>1. \A c : T!canonical(c)' = T!canonical(c)
    BY <1>2 DEF T!canonical, T!Codes
  <2>2. ASSUME NEW b \in T!Made(aliases) \ {a}
        PROVE  T!LoadTouchpointRows(b)' = T!LoadTouchpointRows(b)
    <3>1. PICK alias : alias = aliases[b] /\ alias = aliases'[b]
      BY <1>1, <1>2
    <3>2. PICK l : l = T!canonical(alias.campaign) /\ l = T!canonical(alias.campaign)'
      BY <2>1
    <3>3. PICK c : c = campaigns[alias.campaign] /\ c = campaigns'[alias.campaign]
      BY <1>2
    <3>4. T!LoadTouchpointRows(b) = T!cardRows(b, c.status, c.window, l)
      BY <3>1, <3>2, <3>3 DEF T!LoadTouchpointRows
    <3>5. T!LoadTouchpointRows(b)' = T!cardRows(b, c.status, c.window, l)'
      BY <3>1, <3>2, <3>3 DEF T!LoadTouchpointRows
    <3>6. T!cardRows(b, c.status, c.window, l)' = T!cardRows(b, c.status, c.window, l)
      BY <1>2, <3>1 DEF T!cardRows, T!switchedOn
    <3> QED  BY <3>4, <3>5, <3>6
  <2> QED  BY <1>2, <2>2
<1>3. ASSUME NEW r \in Requests, NEW k \in Aliases, NEW to, T!SetTouchpointStatus(r, k, to)
      PROVE  UNCHANGED <<shops, campaigns, links>> /\ \A b \in Aliases \ {a} : aliases'[b] = aliases[b]
  <2>1. aliases' = [aliases EXCEPT ![k].status = to] /\ UNCHANGED <<shops, campaigns, links>>
    BY <1>3 DEF T!SetTouchpointStatus
  <2>2. k = a
    BY <1>1, <2>1
  <2> QED  BY <1>1, <2>1, <2>2
<1>4. ASSUME NEW r \in Requests, T!ProvisionTouchpoint(r)
      PROVE  UNCHANGED <<shops, campaigns, links>> /\ \A b \in Aliases \ {a} : aliases'[b] = aliases[b]
  <2> PICK j : j = job[r]
    OBVIOUS
  <2> PICK row : row = [tag |-> j.tag, campaign |-> j.campaign, status |-> "active", stage |-> 0]
    OBVIOUS
  <2>1. UNCHANGED <<shops, campaigns, links>>
        /\ (aliases' = aliases \/ aliases' = [aliases EXCEPT ![j.alias] = row])
    BY <1>4 DEF T!ProvisionTouchpoint
  <2>2. j.alias = a /\ aliases' = [aliases EXCEPT ![a] = row]
    BY <1>1, <2>1
  <2> QED  BY <1>1, <2>1, <2>2
<1>5. ASSUME NEW r \in Requests, T!RebindTouchpoint(r) PROVE FALSE
  <2> PICK j : j = job[r]
    OBVIOUS
  <2>1. aliases' = aliases \/ aliases' = [aliases EXCEPT ![j.alias].campaign = j.to]
    BY <1>5 DEF T!RebindTouchpoint
  <2> QED  BY <1>1, <2>1 DEF AliasRow
<1>6. ASSUME NEW r \in Requests, T!AdvanceTouchpointStage(r) PROVE FALSE
  <2> PICK j : j = job[r]
    OBVIOUS
  <2>1. aliases' = [aliases EXCEPT ![j.alias].stage = j.stage]
    BY <1>6 DEF T!AdvanceTouchpointStage
  <2> QED  BY <1>1, <2>1 DEF AliasRow
<1>7. ASSUME NEW r \in Requests, NEW tag, T!DeleteTag(r, tag) PROVE FALSE
  <2>1. aliases' = [k \in Aliases |-> IF aliases[k] # None /\ aliases[k].tag = tag
                                      THEN [aliases[k] EXCEPT !.tag = None] ELSE aliases[k]]
    BY <1>7 DEF T!DeleteTag
  <2>2. aliases'[a] = [aliases[a] EXCEPT !.tag = None] \/ aliases'[a] = aliases[a]
    BY <1>1, <2>1
  <2> QED  BY <1>1, <2>2 DEF AliasRow
<1>8. aliases' # aliases
  OBVIOUS
<1>9. CASE UNCHANGED T!touchVars
  BY <1>8, <1>9 DEF T!touchVars
<1>10. CASE T!TouchNext
  <2>1. ASSUME NEW r \in Requests, T!CampaignStep(r) \/ T!BumpEpoch(r) \/ T!LookupStep(r)
        PROVE  FALSE
    BY <1>8, <2>1, LookupReads DEF T!CampaignStep, T!UpdateCampaign, T!TransitionCampaign,
       T!CreateLink,
       T!ReadForTransition, T!CreateCampaign, T!ReadForUpdate, T!SetStoreStatus, T!BumpEpoch,
       T!Rows
  <2>2. ASSUME NEW r \in Requests, T!TagStep(r) PROVE FALSE
    BY <1>7, <1>8, <2>2 DEF T!TagStep, T!SetTagStatus, T!PatchTag, T!CreateTagGroup,
       T!DeleteTagGroup, T!CreateTagsBatch, T!ReadTagForPatch, T!ReadTagForStatus, T!Rows
  <2>3. ASSUME NEW r \in Requests, T!ProvisionStep(r)
        PROVE  UNCHANGED <<shops, campaigns, links>>
               /\ \A b \in Aliases \ {a} : aliases'[b] = aliases[b]
    BY <1>4, <1>8, <2>3 DEF T!ProvisionStep, T!ReadForProvision, T!Rows
  <2>4. ASSUME NEW r \in Requests, T!TouchpointStep(r)
        PROVE  UNCHANGED <<shops, campaigns, links>>
               /\ \A b \in Aliases \ {a} : aliases'[b] = aliases[b]
    BY <1>3, <1>5, <1>6, <1>8, <2>4 DEF T!TouchpointStep, T!ReadForStage, T!ReadForRebind,
       T!Rows
  <2>5. ASSUME \/ \E r \in Requests, l \in T!Codes, enabled \in BOOLEAN :
                     T!SetLinkEnabled(r, l, enabled)
               \/ T!Pass
        PROVE  FALSE
    BY <1>8, <2>5 DEF T!SetLinkEnabled, T!Pass, T!Rows
  <2> QED  BY <1>2, <1>10, <2>1, <2>2, <2>3, <2>4, <2>5 DEF T!TouchNext
<1> QED  BY <1>9, <1>10

\* Stopping or starting one card leaves every other card's lookup, and every short code,
\* as they are (SetTouchpointStatus).
THEOREM StopsAreSeparate ==
    NoneIsNoRecord => (Spec => [][focus = "touchpoints" => T!StopsNoOther]_allVars)
<1> SUFFICES ASSUME NoneIsNoRecord
             PROVE  Spec => [][focus = "touchpoints" => T!StopsNoOther]_allVars
  OBVIOUS
<1>1. TouchHeld /\ [Next]_allVars => [focus = "touchpoints" => T!StopsNoOther]_allVars
  BY StepsOf, StopsOne DEF TouchHeld
<1> QED  BY <1>1, TouchStays, PTL DEF Spec

=============================================================================

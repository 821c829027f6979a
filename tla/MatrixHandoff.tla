---------------------------- MODULE MatrixHandoff ----------------------------
(***************************************************************************)
(* Drafts for the matrix: the console's request that posts a campaign's    *)
(* video to the matrix and remembers the plan it was given                 *)
(* (matrixconsume, handlers_matrix_draft.go), and the record of drafts it  *)
(* is remembered in, with approvals (matrixhandoff).                       *)
(*                                                                         *)
(* The record lives in one process and is reached in two ways: by the      *)
(* console, whose client only stamps plans, or directly (`use`).  No route *)
(* calls Confirm and RecordMerchantPublish yet.                            *)
(***************************************************************************)
EXTENDS Integers, Sequences, FiniteSets, SequencesExt

CONSTANTS
    Drafts,     \* what identifies a draft: activity, content, expiry
    activityOf, \* [Drafts -> activity]
    expiryOf,   \* [Drafts -> instant]
    wireOf,     \* [Drafts -> what of it goes over the wire: all but the expiry]
    videos,     \* the drafts with a video
    Clicks,     \* requests in flight
    None,
    MaxTime, MaxPosts

\* What the instances assume of the constants.
MatrixAssumption == {MaxTime, MaxPosts} \subseteq Nat /\ videos \subseteq Drafts

VARIABLES
    use,      \* "console" or "service"
    clock,
    docs,     \* [Drafts -> document or None]
    posted,   \* what the matrix was given: plan p is for posted[p]
    click,    \* [Clicks -> where a request stands, or None]
    stamp,    \* planClient's plan
    recordMu, \* the request that holds the consumer's lock, or None
    told      \* drafts the merchant was told are recorded, with their plan

matrixVars == <<use, clock, docs, posted, click, stamp, recordMu, told>>

-----------------------------------------------------------------------------
(* The record *)

Plans == 1..MaxPosts

siblings(d)    == {o \in Drafts : docs[o] # None /\ activityOf[o] = activityOf[d]}
nextVersion(d) == LET versions == {docs[o].version : o \in siblings(d)} \cup {0}
                  IN  (CHOOSE v \in versions : \A w \in versions : w <= v) + 1

build(d, status, plan) == [version |-> nextVersion(d), status |-> status, plan |-> plan,
                           approved |-> FALSE, superseded |-> FALSE, noted |-> FALSE]

live(d)    == expiryOf[d] > clock
hasPlan(d) == docs[d] # None /\ docs[d].status # "needs_video" /\ docs[d].plan # None

\* The client is asked for a plan.
asksClient(d) ==
    /\ d \in videos
    /\ docs[d] # None => docs[d].status = "draft" /\ docs[d].plan = None

\* save: a draft is kept once; one that has no plan yet asks the client again.  The
\* client's error leaves it without.
save(d, plan) ==
    IF docs[d] = None THEN build(d, "draft", plan)
    ELSE IF docs[d].status = "draft" /\ docs[d].plan = None THEN [docs[d] EXCEPT !.plan = plan]
         ELSE docs[d]

\* CreateDraft for a publisher, or a delegate who has not been revoked; anybody else
\* and a draft that has expired are refused.
CreateDraft(d, plan) ==
    docs' = [docs EXCEPT ![d] =
                IF d \in videos THEN save(d, plan)
                ELSE IF docs[d] # None THEN docs[d] ELSE build(d, "needs_video", None)]

\* Of one activity's documents the others end their approval; what they say stays.
supersedeOthers(d, all) ==
    [o \in Drafts |->
        IF all[o] # None /\ o # d /\ activityOf[o] = activityOf[d] /\ all[o].approved
        THEN [all[o] EXCEPT !.approved = FALSE, !.superseded = TRUE, !.status = "superseded"]
        ELSE all[o]]

confirmed(doc) == [doc EXCEPT !.approved = TRUE, !.superseded = FALSE,
                              !.status = IF @ = "merchant_noted" THEN @ ELSE "approved"]

Confirm(d) ==
    /\ hasPlan(d) /\ live(d)
    /\ docs' = supersedeOthers(d, [docs EXCEPT ![d] = confirmed(@)])
    /\ UNCHANGED <<use, clock, posted, click, stamp, recordMu, told>>

\* The client's note may fail, which changes nothing.
RecordMerchantPublish(d) ==
    /\ hasPlan(d) /\ live(d)
    /\ docs[d].approved /\ ~docs[d].superseded
    /\ docs' = [docs EXCEPT ![d].noted = TRUE, ![d].status = "merchant_noted"]
    /\ UNCHANGED <<use, clock, posted, click, stamp, recordMu, told>>

\* The matrix makes a plan, or replays the one it made for the same wire request.
Answer(d, plan) ==
    LET known == {p \in DOMAIN posted : wireOf[posted[p]] = wireOf[d]}
    IN  \/ plan \in known /\ UNCHANGED posted
        \/ known = {} /\ plan = Len(posted) + 1 /\ posted' = Append(posted, d)

\* A caller of the service; its client answers with a plan or an error.
ServiceCreate(d) ==
    /\ live(d)
    /\ \/ CreateDraft(d, None) /\ UNCHANGED posted
       \/ asksClient(d) /\ \E plan \in Plans : Answer(d, plan) /\ CreateDraft(d, plan)
    /\ UNCHANGED <<use, clock, click, stamp, recordMu, told>>

-----------------------------------------------------------------------------
(* The console's request *)

\* Existing: recorded, still a draft, with a plan.
Existing(d) == docs[d] # None /\ docs[d].status = "draft" /\ docs[d].plan # None

Tell(d, doc) == told' = told \cup {[draft |-> d, plan |-> doc.plan]}

\* What may be posted at all: the campaign has a store, a brand, an end to come and an
\* authorised video.
offered(d) == live(d) /\ d \in videos

\* The handler up to Schedule.
handleMatrixDraft(c, d) ==
    /\ click[c] = None /\ offered(d)
    /\ click' = [click EXCEPT ![c] = [at |-> "asking", draft |-> d, late |-> FALSE, plan |-> None]]
    /\ UNCHANGED <<use, clock, docs, posted, stamp, recordMu, told>>

\* Schedule up to the post, with a clock of its own: by it the end may have passed, which
\* nobody looks at before the record does.  The caller is the owner or a publisher of
\* that brand, the permission service allows and names payer and license; anything less
\* disables the button and changes nothing.
Schedule(c) ==
    /\ click[c] # None /\ click[c].at = "asking"
    /\ LET d == click[c].draft IN
       IF Existing(d)
       THEN Tell(d, docs[d]) /\ click' = [click EXCEPT ![c] = None]
       ELSE /\ click' = [click EXCEPT ![c].at = "posting", ![c].late = ~live(d)]
            /\ UNCHANGED told
    /\ UNCHANGED <<use, clock, docs, posted, stamp, recordMu>>

\* The sink's post arrives.  The answer may be lost, and an answer that is not a draft
\* is refused.
PutDraft(c) ==
    /\ click[c] # None /\ click[c].at = "posting"
    /\ \E plan \in Plans :
           /\ Answer(click[c].draft, plan)
           /\ click' \in {[click EXCEPT ![c] = None],
                          [click EXCEPT ![c].at = "acked", ![c].plan = plan]}
    /\ UNCHANGED <<use, clock, docs, stamp, recordMu, told>>

\* Nothing arrived, or the matrix refused.
PutDraftFails(c) ==
    /\ click[c] # None /\ click[c].at = "posting"
    /\ click' = [click EXCEPT ![c] = None]
    /\ UNCHANGED <<use, clock, docs, posted, stamp, recordMu, told>>

\* Mutant: without the lock.
freeAlways == TRUE

\* remember: under the consumer's lock the plan is put where the client finds it.
free == recordMu = None

StampPlan(c) ==
    /\ click[c] # None /\ click[c].at = "acked" /\ free
    /\ recordMu' = c
    /\ stamp' = click[c].plan
    /\ click' = [click EXCEPT ![c].at = "stamped"]
    /\ UNCHANGED <<use, clock, docs, posted, told>>

\* The record refuses what was late by the clock of Schedule: the plan stays posted and
\* nothing is recorded.  Otherwise the merchant is told the plan the document has.
Remember(c) ==
    /\ click[c] # None /\ click[c].at = "stamped"
    /\ IF click[c].late
       THEN UNCHANGED <<docs, told>>
       ELSE /\ CreateDraft(click[c].draft, stamp)
            /\ Tell(click[c].draft, docs'[click[c].draft])
    /\ recordMu' = None
    /\ click' = [click EXCEPT ![c] = None]
    /\ UNCHANGED <<use, clock, posted, stamp>>

\* The record does not survive the process.
Restart ==
    /\ docs' = [d \in Drafts |-> None]
    /\ click' = [c \in Clicks |-> None]
    /\ stamp' = None /\ recordMu' = None
    /\ UNCHANGED <<use, clock, posted, told>>

Tick ==
    /\ clock < MaxTime /\ clock' = clock + 1
    /\ UNCHANGED <<use, docs, posted, click, stamp, recordMu, told>>

-----------------------------------------------------------------------------

MatrixInit ==
    /\ use \in {"console", "service"}
    /\ clock = 0
    /\ docs = [d \in Drafts |-> None] /\ posted = <<>>
    /\ click = [c \in Clicks |-> None] /\ stamp = None /\ recordMu = None
    /\ told = {}

ConsoleStep ==
    /\ use = "console"
    /\ \/ \E c \in Clicks, d \in Drafts : handleMatrixDraft(c, d)
       \/ \E c \in Clicks :
              Schedule(c) \/ PutDraft(c) \/ PutDraftFails(c) \/ StampPlan(c) \/ Remember(c)

ServiceStep ==
    /\ use = "service"
    /\ \E d \in Drafts : ServiceCreate(d) \/ Confirm(d) \/ RecordMerchantPublish(d)

MatrixNext == ConsoleStep \/ ServiceStep \/ Restart \/ Tick

MatrixSpec == MatrixInit /\ [][MatrixNext]_matrixVars

-----------------------------------------------------------------------------
(* Properties *)

\* A plan that a merchant is told of was made for the very activity, version and video
\* of his draft, also when several requests stamp their plans at once, and whether it is
\* new, replayed or remembered (Consumer.remember, Existing).  It may have been made for
\* another end of the offer: the wire request names none.
ToldIsPosted ==
    \A t \in told : t.plan \in DOMAIN posted /\ wireOf[posted[t.plan]] = wireOf[t.draft]

\* Of an activity's documents one is approved at a time, whatever is confirmed,
\* noted and confirmed again, and each has a version of its own (supersedeOthers,
\* nextVersion).
OneApprovalPerActivity ==
    \A d \in Drafts : \A o \in siblings(d) \ {d} :
        docs[d] # None => /\ ~(docs[d].approved /\ docs[o].approved)
                          /\ docs[d].version # docs[o].version

-----------------------------------------------------------------------------
(* What the code leaves open *)

\* The record tells drafts apart by their end as well; still two of them are told the
\* same plan once the end has been moved.
PlanIsOfOneDraft == \A t, u \in told : t.plan = u.plan => t.draft = u.draft

\* Nothing is posted that the record is going to refuse.
LateIsNotPosted == \A c \in Clicks : click[c] # None /\ click[c].at = "acked" => ~click[c].late
=============================================================================

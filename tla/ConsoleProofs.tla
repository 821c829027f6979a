---------------------------- MODULE ConsoleProofs ----------------------------
(***************************************************************************)
(* What merchants work with, proved for every value of the constants.  The *)
(* components share no state, so each has an invariant of its own, over    *)
(* its own variables: it holds initially, and every step of the component  *)
(* keeps it.  A behaviour that works on a component takes its steps alone  *)
(* (StepsOf), which carries the invariant to the console's Spec.           *)
(***************************************************************************)
EXTENDS Console, TLAPS, FiniteSetTheorems, WellFoundedInduction, SequenceTheorems

-----------------------------------------------------------------------------
(* A behaviour keeps to its component *)

\* A step is one of the component in focus, or it changes none of its variables.
LEMMA StepsOf ==
    ASSUME [Next]_allVars
    PROVE  /\ focus' = focus
           /\ focus = "packs" => [P!PackNext]_P!packVars
           /\ focus = "campaign" => [C!ConfigNext]_C!configVars
           /\ focus = "library" => [B!LibraryNext]_B!libVars
           /\ focus = "matrix" => [M!MatrixNext]_M!matrixVars
           /\ focus = "members" => [S!MembersNext]_S!memberVars
<1>1. CASE UNCHANGED allVars
  BY <1>1 DEF allVars, content, campaign, shelf, matrix, staff, P!packVars, C!configVars,
     C!ruleVars, B!libVars, B!assetVars, B!poolVars, B!templateVars, M!matrixVars,
     S!memberVars
<1>2. CASE Next
  BY <1>2 DEF Next, PackStep, ConfigStep, LibraryStep, MatrixStep, MemberStep
<1> QED  BY <1>1, <1>2

-----------------------------------------------------------------------------
(* Drafts for the matrix: a console's request remembers the plan it posted *)

\* The plan is one the matrix made for what of that draft goes over the wire.
PostedFor(plan, d) == plan \in DOMAIN posted /\ wireOf[posted[plan]] = wireOf[d]

Click == [at : {"asking", "posting", "acked", "stamped"}, draft : Drafts \cap videos,
          late : BOOLEAN, plan : Nat \cup {None}]

\* A request's plan is for its draft, and who has stamped holds the lock.
Posting(c) ==
    /\ use = "console"
    /\ click[c].at \in {"acked", "stamped"} => PostedFor(click[c].plan, click[c].draft)
    /\ click[c].at = "stamped" => recordMu = c /\ stamp = click[c].plan

\* The console's documents are drafts with a plan of theirs.
Recorded(d) == docs[d].status = "draft" /\ PostedFor(docs[d].plan, d)

MatrixInv ==
    /\ use \in {"console", "service"}
    /\ use = "service" => told = {}
    /\ posted \in Seq(Drafts)
    /\ docs = [d \in Drafts |-> docs[d]]
    /\ click \in [Requests -> Click \cup {None}]
    /\ \A c \in Requests : click[c] # None => Posting(c)
    /\ use = "console" => \A d \in Drafts : docs[d] # None => Recorded(d)
    /\ M!ToldIsPosted

\* None is no request, and no plan.
NoneIsNoPlan == None \notin Requests /\ None \notin Nat

\* The matrix forgets no plan.
LEMMA PlansStay ==
    ASSUME posted \in Seq(Drafts), NEW d \in Drafts, posted' = Append(posted, d)
    PROVE  /\ posted' \in Seq(Drafts)
           /\ Len(posted) + 1 \in DOMAIN posted' /\ posted'[Len(posted) + 1] = d
           /\ \A p \in DOMAIN posted : p \in DOMAIN posted' /\ posted'[p] = posted[p]
OBVIOUS

\* Initially nothing is posted, recorded or told.
LEMMA MatrixInitInv == M!MatrixInit => MatrixInv
<1> SUFFICES ASSUME M!MatrixInit PROVE MatrixInv
  OBVIOUS
<1>1. /\ posted = <<>> /\ docs = [d \in Drafts |-> None] /\ click = [c \in Requests |-> None]
      /\ told = {} /\ use \in {"console", "service"}
  BY DEF M!MatrixInit
<1>2. docs = [d \in Drafts |-> docs[d]]
  BY <1>1
<1> QED  BY <1>1, <1>2 DEF MatrixInv, M!ToldIsPosted

\* A request begins.
LEMMA DraftAsked ==
    ASSUME MatrixInv, use = "console", NEW c \in Requests, NEW d \in Drafts,
           M!handleMatrixDraft(c, d)
    PROVE  MatrixInv'
<1>0. UNCHANGED <<use, docs, posted, stamp, recordMu, told>> /\ d \in videos
  BY DEF M!handleMatrixDraft, M!offered
<1>1. PICK k : k = [at |-> "asking", draft |-> d, late |-> FALSE, plan |-> None]
  OBVIOUS
<1>2. click' = [click EXCEPT ![c] = k]
  BY <1>1 DEF M!handleMatrixDraft
<1>3. k \in Click /\ k.at = "asking"
  BY <1>0, <1>1 DEF Click
<1>4. click' \in [Requests -> Click \cup {None}]
  BY <1>2, <1>3 DEF MatrixInv
<1>5. \A q \in Requests : click'[q] # None => Posting(q)'
  BY <1>0, <1>2, <1>3 DEF MatrixInv, Posting, PostedFor
<1> QED  BY <1>0, <1>4, <1>5 DEF MatrixInv, Recorded, PostedFor, M!ToldIsPosted

\* Before the post: what the record knows already is told, anything else is posted.
LEMMA ScheduleStep ==
    ASSUME MatrixInv, use = "console", NEW c \in Requests, M!Schedule(c)
    PROVE  MatrixInv'
<1>0. /\ UNCHANGED <<use, docs, posted, stamp, recordMu>>
      /\ click \in [Requests -> Click \cup {None}] /\ click[c] \in Click
  BY DEF M!Schedule, MatrixInv
<1> PICK d : d = click[c].draft
  OBVIOUS
<1>1. CASE M!Existing(d)
  <2>1. PICK t : t = [draft |-> d, plan |-> docs[d].plan]
    OBVIOUS
  <2>2. told' = told \cup {t} /\ click' = [click EXCEPT ![c] = None]
    BY <1>1, <2>1 DEF M!Schedule, M!Tell
  <2>3. PostedFor(t.plan, t.draft)
    <3>1. d \in Drafts /\ docs[d] # None
      BY <1>0, <1>1 DEF Click, M!Existing
    <3> QED  BY <2>1, <3>1 DEF MatrixInv, Recorded
  <2>4. M!ToldIsPosted'
    BY <1>0, <2>2, <2>3 DEF MatrixInv, M!ToldIsPosted, PostedFor
  <2>5. /\ click' \in [Requests -> Click \cup {None}]
        /\ \A q \in Requests : click'[q] # None => click'[q] = click[q]
    BY <1>0, <2>2
  <2> QED  BY <1>0, <2>2, <2>4, <2>5 DEF MatrixInv, Posting, Recorded, PostedFor
<1>2. CASE ~M!Existing(d)
  <2>1. PICK late \in BOOLEAN : late = ~M!live(d)
    OBVIOUS
  <2>2. PICK k : k = [click[c] EXCEPT !.at = "posting", !.late = late]
    OBVIOUS
  <2>3. k \in Click /\ k.at = "posting"
    BY <1>0, <2>2 DEF Click
  <2>4. click' = [click EXCEPT ![c] = k] /\ told' = told
    BY <1>0, <1>2, <2>1, <2>2 DEF M!Schedule
  <2>5. click' \in [Requests -> Click \cup {None}]
    BY <1>0, <2>3, <2>4
  <2>6. \A q \in Requests : click'[q] # None => Posting(q)'
    BY <1>0, <2>3, <2>4 DEF MatrixInv, Posting, PostedFor
  <2> QED  BY <1>0, <2>4, <2>5, <2>6 DEF MatrixInv, Recorded, PostedFor, M!ToldIsPosted
<1> QED  BY <1>1, <1>2

\* The post arrives: the matrix makes a plan or replays one it made for the same request.
LEMMA PutDraftStep ==
    ASSUME MatrixInv, use = "console", NEW c \in Requests, M!PutDraft(c)
    PROVE  MatrixInv'
<1>1. click \in [Requests -> Click \cup {None}] /\ posted \in Seq(Drafts)
  BY DEF MatrixInv
<1>2. click[c] \in Click /\ click[c].at = "posting"
  BY <1>1 DEF M!PutDraft
<1>3. PICK d : d = click[c].draft
  OBVIOUS
<1>4. d \in Drafts
  BY <1>2, <1>3 DEF Click
<1>5. PICK plan \in M!Plans :
         /\ \/ plan = Len(posted) + 1 /\ posted' = Append(posted, d)
            \/ PostedFor(plan, d) /\ posted' = posted
         /\ click' \in {[click EXCEPT ![c] = None],
                        [click EXCEPT ![c].at = "acked", ![c].plan = plan]}
  BY <1>3 DEF M!PutDraft, M!Answer, PostedFor
<1>6. /\ posted' \in Seq(Drafts) /\ PostedFor(plan, d)'
      /\ \A p \in DOMAIN posted : p \in DOMAIN posted' /\ posted'[p] = posted[p]
  <2>1. CASE plan = Len(posted) + 1 /\ posted' = Append(posted, d)
    BY <1>1, <1>4, <2>1, PlansStay DEF PostedFor
  <2>2. CASE PostedFor(plan, d) /\ posted' = posted
    BY <1>1, <2>2 DEF PostedFor
  <2> QED  BY <1>5, <2>1, <2>2
<1>7. UNCHANGED <<use, docs, stamp, recordMu, told>>
  BY DEF M!PutDraft
<1>8. PICK k : k = [click[c] EXCEPT !.at = "acked", !.plan = plan]
  OBVIOUS
<1>9. plan \in Nat
  BY <1>1, <1>5 DEF PostedFor
<1>10. k \in Click /\ k.at = "acked" /\ k.plan = plan /\ k.draft = d
  BY <1>2, <1>3, <1>8, <1>9 DEF Click
<1>11. click' = [click EXCEPT ![c] = None] \/ click' = [click EXCEPT ![c] = k]
  BY <1>1, <1>5, <1>8
<1>12. click' \in [Requests -> Click \cup {None}]
  BY <1>1, <1>10, <1>11
<1>13. ASSUME NEW q \in Requests, click'[q] # None PROVE Posting(q)'
  <2>1. CASE q = c
    BY <1>1, <1>6, <1>7, <1>10, <1>11, <1>13, <2>1 DEF Posting, PostedFor
  <2>2. CASE q # c
    <3>1. click'[q] = click[q] /\ Posting(q)
      BY <1>1, <1>11, <1>13, <2>2 DEF MatrixInv
    <3> QED  BY <1>6, <1>7, <3>1 DEF Posting, PostedFor
  <2> QED  BY <2>1, <2>2
<1>14. \A o \in Drafts : docs'[o] # None => Recorded(o)'
  BY <1>6, <1>7 DEF MatrixInv, Recorded, PostedFor
<1>15. M!ToldIsPosted'
  BY <1>6, <1>7 DEF MatrixInv, M!ToldIsPosted, PostedFor
<1> QED  BY <1>6, <1>7, <1>12, <1>13, <1>14, <1>15 DEF MatrixInv

\* Under the lock the plan is put where the record's client finds it.
LEMMA StampStep ==
    ASSUME NoneIsNoPlan, MatrixInv, use = "console", NEW c \in Requests, M!StampPlan(c)
    PROVE  MatrixInv'
<1>1. click \in [Requests -> Click \cup {None}] /\ Posting(c)
  BY DEF MatrixInv, M!StampPlan
<1>2. click[c] \in Click /\ click[c].at = "acked" /\ recordMu = None
  BY <1>1 DEF M!StampPlan, M!free
<1>3. PICK k : k = [click[c] EXCEPT !.at = "stamped"]
  OBVIOUS
<1>4. /\ k \in Click /\ k.at = "stamped" /\ k.plan = click[c].plan
      /\ k.draft = click[c].draft
  BY <1>2, <1>3 DEF Click
<1>5. /\ click' = [click EXCEPT ![c] = k] /\ recordMu' = c /\ stamp' = k.plan
      /\ UNCHANGED <<use, docs, posted, told>>
  BY <1>1, <1>3, <1>4 DEF M!StampPlan
<1>6. click' \in [Requests -> Click \cup {None}]
  BY <1>1, <1>4, <1>5
<1>7. ASSUME NEW q \in Requests, click'[q] # None PROVE Posting(q)'
  <2>1. CASE q = c
    BY <1>1, <1>2, <1>4, <1>5, <2>1 DEF Posting, PostedFor
  <2>2. CASE q # c
    <3>1. click'[q] = click[q] /\ Posting(q)
      BY <1>1, <1>5, <1>7, <2>2 DEF MatrixInv
    <3>2. click[q].at # "stamped"
      BY <1>2, <3>1 DEF Posting, NoneIsNoPlan
    <3> QED  BY <1>5, <3>1, <3>2 DEF Posting, PostedFor
  <2> QED  BY <2>1, <2>2
<1> QED
  BY <1>5, <1>6, <1>7 DEF MatrixInv, Recorded, PostedFor, M!ToldIsPosted

\* The record takes the stamped plan, or keeps the one it has; the merchant is told
\* the one it has.
LEMMA RememberStep ==
    ASSUME NoneIsNoPlan, MatrixInv, use = "console", NEW c \in Requests, M!Remember(c)
    PROVE  MatrixInv'
<1>1. /\ click \in [Requests -> Click \cup {None}] /\ Posting(c)
      /\ docs = [o \in Drafts |-> docs[o]] /\ posted \in Seq(Drafts)
  BY DEF MatrixInv, M!Remember
<1>2. click[c] \in Click /\ click[c].at = "stamped"
  BY <1>1 DEF M!Remember
<1>3. PICK d : d = click[c].draft
  OBVIOUS
<1>4. d \in Drafts /\ d \in videos /\ PostedFor(stamp, d) /\ recordMu = c
  BY <1>1, <1>2, <1>3 DEF Click, Posting
<1>20. /\ click' = [click EXCEPT ![c] = None] /\ recordMu' = None
       /\ UNCHANGED <<use, posted, stamp>>
  BY DEF M!Remember
<1>11. click' \in [Requests -> Click \cup {None}]
  BY <1>1, <1>20
<1>12. ASSUME NEW q \in Requests, click'[q] # None PROVE Posting(q)'
  <2>1. q # c /\ click'[q] = click[q] /\ Posting(q)
    BY <1>1, <1>12, <1>20 DEF MatrixInv
  <2>2. click[q].at # "stamped"
    BY <1>4, <2>1 DEF Posting
  <2> QED  BY <1>20, <2>1, <2>2 DEF Posting, PostedFor
<1>21. CASE click[c].late
  <2>1. docs' = docs /\ told' = told
    BY <1>21 DEF M!Remember
  <2> QED  BY <1>11, <1>12, <1>20, <2>1 DEF MatrixInv, Recorded, PostedFor, M!ToldIsPosted
<1>22. CASE ~click[c].late
  <2>5. PICK new : new = M!save(d, stamp)
    OBVIOUS
  <2>6. docs' = [docs EXCEPT ![d] = new]
    BY <1>3, <1>4, <1>22, <2>5 DEF M!Remember, M!CreateDraft
  <2>7. new.status = "draft" /\ PostedFor(new.plan, d)
    <3>1. CASE docs[d] = None
      <4>1. new = [version |-> M!nextVersion(d), status |-> "draft", plan |-> stamp,
                   approved |-> FALSE, superseded |-> FALSE, noted |-> FALSE]
        BY <2>5, <3>1 DEF M!save, M!build
      <4> QED  BY <1>4, <4>1
    <3>2. CASE docs[d] # None
      <4>1. Recorded(d)
        BY <1>4, <1>20, <3>2 DEF MatrixInv
      <4>2. docs[d].plan \in Nat
        BY <1>1, <4>1 DEF Recorded, PostedFor
      <4>3. new = docs[d]
        BY <2>5, <3>2, <4>2 DEF M!save, NoneIsNoPlan
      <4> QED  BY <4>1, <4>3 DEF Recorded
    <3> QED  BY <3>1, <3>2
  <2>8. docs'[d] = new /\ docs' = [o \in Drafts |-> docs'[o]]
    BY <1>1, <1>4, <2>6
  <2>9. PICK t : t = [draft |-> d, plan |-> new.plan]
    OBVIOUS
  <2>10. told' = told \cup {t}
    BY <1>3, <1>22, <2>8, <2>9 DEF M!Remember, M!Tell
  <2>13. ASSUME NEW o \in Drafts, docs'[o] # None PROVE Recorded(o)'
    <3>1. CASE o = d
      BY <1>20, <2>7, <2>8, <3>1 DEF Recorded, PostedFor
    <3>2. CASE o # d
      BY <1>1, <1>20, <2>6, <2>13, <3>2 DEF MatrixInv, Recorded, PostedFor
    <3> QED  BY <3>1, <3>2
  <2>14. M!ToldIsPosted'
    BY <1>20, <2>7, <2>9, <2>10 DEF MatrixInv, M!ToldIsPosted, PostedFor
  <2> QED  BY <1>11, <1>12, <1>20, <2>8, <2>13, <2>14 DEF MatrixInv
<1> QED  BY <1>21, <1>22

\* The record's own callers: nobody is told anything by it.
LEMMA ServiceKeeps ==
    ASSUME MatrixInv, use = "service", M!ServiceStep
    PROVE  MatrixInv'
<1>0. docs = [o \in Drafts |-> docs[o]] /\ posted \in Seq(Drafts) /\ told = {}
  BY DEF MatrixInv
<1>1. UNCHANGED <<use, click, stamp, recordMu, told>>
  BY DEF M!ServiceStep, M!ServiceCreate, M!Confirm, M!RecordMerchantPublish
<1>2. docs' = [o \in Drafts |-> docs'[o]] /\ posted' \in Seq(Drafts)
  <2>1. ASSUME NEW d \in Drafts, M!ServiceCreate(d)
        PROVE  docs' = [o \in Drafts |-> docs'[o]] /\ posted' \in Seq(Drafts)
    BY <1>0, <2>1 DEF M!ServiceCreate, M!CreateDraft, M!Answer
  <2>2. ASSUME NEW d \in Drafts, M!Confirm(d)
        PROVE  docs' = [o \in Drafts |-> docs'[o]] /\ posted' \in Seq(Drafts)
    BY <1>0, <2>2 DEF M!Confirm, M!supersedeOthers
  <2>3. ASSUME NEW d \in Drafts, M!RecordMerchantPublish(d)
        PROVE  docs' = [o \in Drafts |-> docs'[o]] /\ posted' \in Seq(Drafts)
    BY <1>0, <2>3 DEF M!RecordMerchantPublish
  <2> QED  BY <2>1, <2>2, <2>3 DEF M!ServiceStep
<1>3. \A c \in Requests : click[c] = None
  BY DEF MatrixInv, Posting
<1> QED  BY <1>0, <1>1, <1>2, <1>3 DEF MatrixInv, M!ToldIsPosted

\* Every step keeps the invariant, a restart of the process as well.
LEMMA MatrixNextInv ==
    ASSUME NoneIsNoPlan, MatrixInv, [M!MatrixNext]_M!matrixVars
    PROVE  MatrixInv'
<1>1. ASSUME M!ConsoleStep PROVE MatrixInv'
  <2>0. use = "console"
    BY <1>1 DEF M!ConsoleStep
  <2>1. ASSUME NEW c \in Requests, M!PutDraftFails(c) PROVE MatrixInv'
    <3>1. /\ click' = [click EXCEPT ![c] = None]
          /\ UNCHANGED <<use, docs, posted, stamp, recordMu, told>>
      BY <2>1 DEF M!PutDraftFails
    <3>2. /\ click' \in [Requests -> Click \cup {None}]
          /\ \A q \in Requests : click'[q] # None => click'[q] = click[q] /\ click[q] # None
      BY <3>1 DEF MatrixInv
    <3> QED  BY <3>1, <3>2 DEF MatrixInv, Posting, Recorded, PostedFor, M!ToldIsPosted
  <2> QED
    BY <1>1, <2>0, <2>1, DraftAsked, ScheduleStep, PutDraftStep, StampStep, RememberStep
       DEF M!ConsoleStep
<1>2. ASSUME M!ServiceStep PROVE MatrixInv'
  BY <1>2, ServiceKeeps DEF M!ServiceStep
<1>3. ASSUME M!Restart PROVE MatrixInv'
  <2>1. /\ docs' = [d \in Drafts |-> None] /\ click' = [c \in Requests |-> None]
        /\ UNCHANGED <<use, posted, told>>
    BY <1>3 DEF M!Restart
  <2>2. docs' = [d \in Drafts |-> docs'[d]] /\ click' \in [Requests -> Click \cup {None}]
    BY <2>1
  <2> QED  BY <2>1, <2>2 DEF MatrixInv, M!ToldIsPosted
<1>4. ASSUME M!Tick \/ UNCHANGED M!matrixVars PROVE MatrixInv'
  <2>1. UNCHANGED <<use, docs, posted, click, stamp, recordMu, told>>
    BY <1>4 DEF M!Tick, M!matrixVars
  <2> QED  BY <2>1 DEF MatrixInv, Posting, Recorded, PostedFor, M!ToldIsPosted
<1> QED  BY <1>1, <1>2, <1>3, <1>4 DEF M!MatrixNext

MatrixHeld == focus = "matrix" => MatrixInv

\* A plan a merchant is told of was made for the activity, version and video of his draft,
\* whether it is new, replayed or remembered: the lock around stamp and record keeps two
\* requests from taking each other's plan (Consumer.remember), and a restart takes
\* nothing back.
THEOREM ToldPlansAreReal ==
    ASSUME NoneIsNoPlan
    PROVE  Spec => []ToldIsPosted
<1>1. MatrixHeld => ToldIsPosted
  BY DEF MatrixHeld, ToldIsPosted, MatrixInv
<1>2. Init => MatrixHeld
  BY MatrixInitInv DEF Init, MatrixHeld
<1>3. MatrixHeld /\ [Next]_allVars => MatrixHeld'
  <2> SUFFICES ASSUME MatrixHeld, [Next]_allVars, focus' = "matrix"
               PROVE  MatrixInv'
    BY DEF MatrixHeld
  <2>1. focus = "matrix" /\ [M!MatrixNext]_M!matrixVars
    BY StepsOf
  <2> QED  BY <2>1, MatrixNextInv DEF MatrixHeld
<1> QED  BY <1>1, <1>2, <1>3, PTL DEF Spec

-----------------------------------------------------------------------------
(* The library: the frozen ledger of draws *)

\* What is drawn is a row.
NoneIsNoDraw == \A asset, upload : None # [asset |-> asset, upload |-> upload]

\* A request that draws holds the row it is going to freeze.
Drawing(j) == j.op = "draw" => j.pool \in Pools /\ j.draw \in Draws /\ j.row # None

\* What was answered is what the ledger keeps.
Kept(a) ==
    /\ a.pool \in Pools /\ a.draw \in Draws
    /\ selections[<<a.pool, a.draw>>] # None
    /\ a.row = selections[<<a.pool, a.draw>>]

DrawInv ==
    /\ job = [r \in Requests |-> job[r]]
    /\ selections = [pd \in Pools \X Draws |-> selections[pd]]
    /\ \A r \in Requests : job[r] # None => Drawing(job[r])
    /\ \A a \in answers : Kept(a)

\* Initially nothing is drawn.
LEMMA DrawInitInv == B!LibraryInit => DrawInv
<1> SUFFICES ASSUME B!LibraryInit PROVE DrawInv
  OBVIOUS
<1>1. /\ job = [r \in Requests |-> None] /\ answers = {}
      /\ selections = [pd \in Pools \X Draws |-> None]
  BY DEF B!LibraryInit
<1>2. job = [r \in Requests |-> job[r]] /\ selections = [pd \in Pools \X Draws |-> selections[pd]]
  BY <1>1
<1> QED  BY <1>1, <1>2 DEF DrawInv

\* A request that draws nothing, or no request.
LEMMA DrawKept ==
    ASSUME DrawInv, UNCHANGED <<selections, answers>>,
           \/ job' = job
           \/ \E r \in Requests : \E what :
                  job' = [job EXCEPT ![r] = what] /\ (what = None \/ what.op # "draw")
    PROVE  DrawInv'
<1>1. CASE job' = job
  BY <1>1 DEF DrawInv, Drawing, Kept
<1>2. ASSUME NEW r \in Requests, NEW what, job' = [job EXCEPT ![r] = what],
             what = None \/ what.op # "draw"
      PROVE  DrawInv'
  <2>1. job = [q \in Requests |-> job[q]]
    BY DEF DrawInv
  <2>2. job' = [q \in Requests |-> job'[q]]
    BY <1>2, <2>1
  <2>3. ASSUME NEW q \in Requests, job'[q] # None PROVE Drawing(job'[q])
    <3>1. CASE q = r
      BY <1>2, <2>1, <2>3, <3>1 DEF Drawing
    <3>2. CASE q # r
      BY <1>2, <2>1, <2>3, <3>2 DEF DrawInv
    <3> QED  BY <3>1, <3>2
  <2> QED  BY <2>2, <2>3 DEF DrawInv, Drawing, Kept
<1> QED  BY <1>1, <1>2

\* Assets and templates have nothing to do with draws.
LEMMA AssetsDrawNothing ==
    ASSUME B!AssetStep
    PROVE  /\ UNCHANGED <<selections, answers, templates, versions, assignments>>
           /\ \/ job' = job
              \/ \E r \in Requests : \E what :
                     job' = [job EXCEPT ![r] = what] /\ (what = None \/ what.op = "register")
<1>1. ASSUME NEW u \in Uploads, B!Upload(u)
      PROVE  UNCHANGED <<selections, answers, templates, versions, assignments, job>>
  BY <1>1 DEF B!Upload, B!poolVars, B!templateVars
<1>2. ASSUME NEW a \in Assets, B!SetLibAssetCandidate(a)
      PROVE  UNCHANGED <<selections, answers, templates, versions, assignments, job>>
  BY <1>2 DEF B!SetLibAssetCandidate, B!poolVars, B!templateVars
<1>3. ASSUME NEW r \in Requests, B!CreateLibAsset(r)
      PROVE  /\ UNCHANGED <<selections, answers, templates, versions, assignments>>
             /\ job' = [job EXCEPT ![r] = None]
  BY <1>3 DEF B!CreateLibAsset, B!poolVars, B!templateVars, B!Ends, B!Goes
<1>4. ASSUME NEW r \in Requests, NEW a \in Assets, NEW u \in Uploads, NEW media \in Media,
             NEW candidate \in BOOLEAN, B!handleLibAssetUpsert(r, a, u, media, candidate)
      PROVE  /\ UNCHANGED <<selections, answers, templates, versions, assignments>>
             /\ \E what : job' = [job EXCEPT ![r] = what] /\ what.op = "register"
  <2>1. PICK what : what = [op |-> "register", asset |-> a,
                            row |-> B!registration(u, media, candidate)]
    OBVIOUS
  <2>2. what.op = "register"
    BY <2>1
  <2> QED
    BY <1>4, <2>1, <2>2 DEF B!handleLibAssetUpsert, B!assetVars, B!poolVars, B!templateVars,
       B!Goes
<1> QED
  BY <1>1, <1>2, <1>3, <1>4 DEF B!AssetStep, B!handleLibAssetCandidate

\* A template's request says what it is for, and draws nothing.
LEMMA TemplatesDrawNothing ==
    ASSUME B!TemplateStep
    PROVE  /\ UNCHANGED <<selections, answers>>
           /\ \/ job' = job
              \/ \E r \in Requests : \E what :
                     job' = [job EXCEPT ![r] = what] /\ (what = None \/ what.op # "draw")
<1> DEFINE Done == /\ UNCHANGED <<selections, answers>>
                   /\ \/ job' = job
                      \/ \E r \in Requests : \E what :
                             job' = [job EXCEPT ![r] = what] /\ (what = None \/ what.op # "draw")
<1>1. ASSUME NEW t \in Templates, NEW slots \in Contents, B!CreateVideoTemplate(t, slots)
      PROVE  Done
  BY <1>1 DEF B!CreateVideoTemplate, B!poolVars
<1>2. ASSUME NEW t \in Templates, NEW shop \in Shops, B!UnassignVideoTemplate(shop, t)
      PROVE  Done
  BY <1>2 DEF B!UnassignVideoTemplate, B!poolVars
<1>3. ASSUME NEW r \in Requests, NEW t \in Templates, NEW what, what.op # "draw", B!Reads(r, t, what)
      PROVE  Done
  BY <1>3 DEF B!Reads, B!Goes, B!poolVars
<1>4. ASSUME NEW r \in Requests, NEW t \in Templates, NEW slots \in Contents,
             B!handleVideoTemplateVersionCreate(r, t, slots)
      PROVE  Done
  <2>1. PICK what : what = [op |-> "mint", template |-> t, version |-> B!latest(t) + 1,
                            slots |-> slots]
    OBVIOUS
  <2> QED  BY <1>3, <1>4, <2>1 DEF B!handleVideoTemplateVersionCreate
<1>5. ASSUME NEW r \in Requests, NEW t \in Templates, NEW slots \in Contents,
             B!handleVideoTemplateVersionPut(r, t, slots)
      PROVE  Done
  <2>1. PICK what : what = [op |-> "put", template |-> t, version |-> B!latest(t),
                            slots |-> slots]
    OBVIOUS
  <2> QED  BY <1>3, <1>5, <2>1 DEF B!handleVideoTemplateVersionPut
<1>6. ASSUME NEW r \in Requests, NEW t \in Templates, B!handleVideoTemplatePublish(r, t)
      PROVE  Done
  <2>1. PICK what : what = [op |-> "publish", template |-> t, version |-> B!latest(t)]
    OBVIOUS
  <2> QED  BY <1>3, <1>6, <2>1 DEF B!handleVideoTemplatePublish
<1>7. ASSUME NEW r \in Requests, NEW t \in Templates, B!handleVideoTemplateDelete(r, t)
      PROVE  Done
  <2>1. PICK what : what = [op |-> "delete", template |-> t]
    OBVIOUS
  <2> QED  BY <1>3, <1>7, <2>1 DEF B!handleVideoTemplateDelete
<1>8. ASSUME NEW r \in Requests, NEW t \in Templates, NEW shop \in Shops, NEW v \in 0..MaxVersion,
             B!handleVideoTemplateAssign(r, shop, t, v)
      PROVE  Done
  <2>1. PICK what : what = [op |-> "assign", template |-> t, shop |-> shop,
                            version |-> IF v = 0 THEN B!latestPublished(t) ELSE v]
    OBVIOUS
  <2> QED  BY <1>3, <1>8, <2>1 DEF B!handleVideoTemplateAssign
<1>9. ASSUME NEW r \in Requests,
             \/ B!CreateVideoTemplateVersion(r) \/ B!UpdateVideoTemplateVersionContent(r)
             \/ B!PublishVideoTemplate(r) \/ B!DeleteVideoTemplate(r) \/ B!AssignVideoTemplate(r)
      PROVE  Done
  <2>1. UNCHANGED <<selections, answers>> /\ job' = [job EXCEPT ![r] = None]
    BY <1>9 DEF B!CreateVideoTemplateVersion, B!UpdateVideoTemplateVersionContent,
       B!PublishVideoTemplate, B!DeleteVideoTemplate, B!AssignVideoTemplate, B!poolVars,
       B!Ends, B!Goes
  <2> QED  BY <2>1
<1> HIDE DEF Done
<1>10. Done
  BY <1>1, <1>2, <1>4, <1>5, <1>6, <1>7, <1>8, <1>9
     DEF B!TemplateStep, B!handleVideoTemplateCreate, B!handleVideoTemplateUnassign
<1> QED  BY <1>10 DEF Done

\* A draw: replayed from the ledger, or frozen there by the first who inserts it.
LEMMA PoolsKeep ==
    ASSUME NoneIsNoDraw, DrawInv, B!PoolStep
    PROVE  DrawInv'
<1>0. /\ job = [r \in Requests |-> job[r]]
      /\ selections = [pd \in Pools \X Draws |-> selections[pd]]
  BY DEF DrawInv
<1>1. ASSUME NEW p \in Pools, \/ B!CreateLibPool(p) \/ B!DeleteLibPool(p)
                              \/ \E a \in Assets : B!AddLibPoolItem(p, a) \/ B!RemoveLibPoolItem(p, a)
      PROVE  DrawInv'
  <2>1. UNCHANGED <<selections, answers, job>>
    BY <1>1 DEF B!CreateLibPool, B!DeleteLibPool, B!AddLibPoolItem, B!RemoveLibPoolItem
  <2> QED  BY <2>1, DrawKept
<1>2. ASSUME NEW r \in Requests, NEW p \in Pools, NEW d \in Draws, B!DrawLibPool(r, p, d)
      PROVE  DrawInv'
  <2>0. selections' = selections
    BY <1>2 DEF B!DrawLibPool
  <2>1. CASE selections[<<p, d>>] # None /\ B!Answer(p, d, selections[<<p, d>>]) /\ job' = job
    <3>1. PICK a : a = [pool |-> p, draw |-> d, row |-> selections[<<p, d>>]]
      OBVIOUS
    <3>2. answers' = answers \cup {a}
      BY <2>1, <3>1 DEF B!Answer
    <3>3. Kept(a)
      BY <2>1, <3>1 DEF Kept
    <3> QED  BY <2>0, <2>1, <3>2, <3>3 DEF DrawInv, Drawing, Kept
  <2>2. CASE /\ B!Goes(r, [op |-> "draw", pool |-> p, draw |-> d, row |-> B!Frozen(B!Select(p))])
             /\ answers' = answers
    <3>1. PICK what : what = [op |-> "draw", pool |-> p, draw |-> d, row |-> B!Frozen(B!Select(p))]
      OBVIOUS
    <3>2. Drawing(what)
      BY <3>1 DEF Drawing, B!Frozen, NoneIsNoDraw
    <3>3. job' = [job EXCEPT ![r] = what]
      BY <2>2, <3>1 DEF B!Goes
    <3>4. job' = [q \in Requests |-> job'[q]]
      BY <1>0, <3>3
    <3>5. \A q \in Requests : job'[q] # None => Drawing(job'[q])
      BY <1>0, <3>2, <3>3 DEF DrawInv
    <3> QED  BY <2>0, <2>2, <3>4, <3>5 DEF DrawInv, Drawing, Kept
  <2> QED  BY <1>2, <2>1, <2>2 DEF B!DrawLibPool
<1>3. ASSUME NEW r \in Requests, B!InsertSelection(r) PROVE DrawInv'
  <2>1. PICK j : j = job[r]
    OBVIOUS
  <2>2. j.op = "draw" /\ j.pool \in Pools /\ j.draw \in Draws /\ j.row # None
    BY <1>3, <2>1 DEF B!InsertSelection, DrawInv, Drawing
  <2>3. job' = [job EXCEPT ![r] = None]
    BY <1>3 DEF B!InsertSelection, B!Ends, B!Goes
  <2>4. CASE selections[<<j.pool, j.draw>>] # None
    <3>1. UNCHANGED <<selections, answers>>
      BY <1>3, <2>1, <2>4 DEF B!InsertSelection, B!drawn
    <3> QED  BY <2>3, <3>1, DrawKept
  <2>5. CASE selections[<<j.pool, j.draw>>] = None
    <3>1. PICK a : a = [pool |-> j.pool, draw |-> j.draw, row |-> j.row]
      OBVIOUS
    <3>2. /\ selections' = [selections EXCEPT ![<<j.pool, j.draw>>] = j.row]
          /\ answers' = answers \cup {a}
      BY <1>3, <2>1, <2>5, <3>1 DEF B!InsertSelection, B!drawn, B!Answer
    <3>3. /\ selections' = [pd \in Pools \X Draws |-> selections'[pd]]
          /\ selections'[<<j.pool, j.draw>>] = j.row
          /\ \A p \in Pools, d \in Draws :
                 selections[<<p, d>>] # None => selections'[<<p, d>>] = selections[<<p, d>>]
      BY <1>0, <2>2, <2>5, <3>2
    <3>4. Kept(a)'
      BY <2>2, <3>1, <3>3 DEF Kept
    <3>5. \A b \in answers : Kept(b)'
      BY <3>3 DEF DrawInv, Kept
    <3>6. \A b \in answers' : Kept(b)'
      BY <3>2, <3>4, <3>5
    <3>7. job' = [q \in Requests |-> job'[q]]
      BY <1>0, <2>3
    <3>8. \A q \in Requests : job'[q] # None => Drawing(job'[q])
      BY <1>0, <2>3 DEF DrawInv
    <3> QED  BY <3>3, <3>6, <3>7, <3>8 DEF DrawInv, Drawing
  <2> QED  BY <2>4, <2>5
<1> QED
  BY <1>1, <1>2, <1>3 DEF B!PoolStep, B!handleLibPoolCreate, B!handleLibPoolDelete,
     B!handleLibPoolItemAdd, B!handleLibPoolItemRemove, B!handleLibPoolDraw

\* Every step keeps the ledger of draws.
LEMMA DrawNextInv ==
    ASSUME NoneIsNoDraw, DrawInv, [B!LibraryNext]_B!libVars
    PROVE  DrawInv'
<1>1. ASSUME B!AssetStep PROVE DrawInv'
  <2>1. UNCHANGED <<selections, answers>>
    BY <1>1, AssetsDrawNothing
  <2>2. CASE job' = job
    BY <2>1, <2>2, DrawKept
  <2>3. ASSUME NEW r \in Requests, NEW what, job' = [job EXCEPT ![r] = what],
               what = None \/ what.op = "register"
        PROVE  DrawInv'
    <3>1. what = None \/ what.op # "draw"
      BY <2>3
    <3> QED  BY <2>1, <2>3, <3>1, DrawKept
  <2> QED  BY <1>1, <2>2, <2>3, AssetsDrawNothing
<1>2. ASSUME B!TemplateStep PROVE DrawInv'
  BY <1>2, TemplatesDrawNothing, DrawKept
<1>3. ASSUME UNCHANGED B!libVars PROVE DrawInv'
  <2>1. UNCHANGED <<selections, answers, job>>
    BY <1>3 DEF B!libVars, B!poolVars
  <2> QED  BY <2>1, DrawKept
<1> QED  BY <1>1, <1>2, <1>3, PoolsKeep DEF B!LibraryNext

DrawHeld == focus = "library" => DrawInv

\* A draw's key has one answer: a pool that is changed or deleted between two draws, and
\* two requests that draw at once, change nothing of it (DrawLibPool).
THEOREM DrawsAreFrozen ==
    ASSUME NoneIsNoDraw
    PROVE  Spec => []OneAnswerPerDraw
<1>1. DrawHeld => OneAnswerPerDraw
  BY DEF DrawHeld, OneAnswerPerDraw, DrawInv, Kept, B!OneAnswerPerDraw
<1>2. Init => DrawHeld
  BY DrawInitInv DEF Init, DrawHeld
<1>3. DrawHeld /\ [Next]_allVars => DrawHeld'
  <2> SUFFICES ASSUME DrawHeld, [Next]_allVars, focus' = "library"
               PROVE  DrawInv'
    BY DEF DrawHeld
  <2>1. focus = "library" /\ [B!LibraryNext]_B!libVars
    BY StepsOf
  <2> QED  BY <2>1, DrawNextInv DEF DrawHeld
<1> QED  BY <1>1, <1>2, <1>3, PTL DEF Spec

-----------------------------------------------------------------------------
(* The library: the versions shops are given *)

VersionRow == [status : {"draft", "published"}, slots : Contents]
Pin        == [version : Nat, first : Nat]

\* What a request for a template still knows of it when it writes.  A version that is to
\* be assigned stays published for as long as its template is kept.
Minding(j) ==
    /\ j.op \in {"mint", "put", "publish", "delete", "assign"} => j.template \in Templates
    /\ j.op \in {"mint", "put"} => j.slots \in Contents
    /\ j.op \in {"put", "publish"} => j.version \in Nat \ {0}
    /\ j.op = "assign" =>
           /\ j.shop \in Shops /\ templates[j.template] # "new"
           /\ templates[j.template] = "kept" => j.version \in B!published(j.template)

PinTyped ==
    /\ templates \in [Templates -> {"new", "kept", "gone"}]
    /\ versions \in [Templates -> Seq(VersionRow)]
    /\ assignments \in [Shops \X Templates -> Pin \cup {None}]

\* What the requests under way hold.
Held == {job[r] : r \in Requests} \ {None}

PinInv ==
    /\ PinTyped
    /\ job = [r \in Requests |-> job[r]]
    /\ \A t \in Templates : templates[t] = "kept" => versions[t] # <<>>
    /\ \A j \in Held : Minding(j)
    /\ B!PinsResolve

\* A template that was made is never made again, and what it published stays published
\* for as long as it is kept.
PublishedStays ==
    \A t \in Templates : templates[t] # "new" =>
        /\ templates'[t] # "new"
        /\ templates'[t] = "kept" =>
               /\ templates[t] = "kept"
               /\ \A v \in B!published(t) : v \in B!published(t)'

\* What a request knows stays true while others write.
LEMMA MindingStays ==
    ASSUME PublishedStays, NEW j, Minding(j)
    PROVE  Minding(j)'
<1>1. CASE j.op # "assign"
  BY <1>1 DEF Minding
<1>2. CASE j.op = "assign"
  <2>1. PICK t : t = j.template
    OBVIOUS
  <2>2. t \in Templates /\ templates[t] # "new" /\ j.shop \in Shops
    BY <1>2, <2>1 DEF Minding
  <2>3. templates'[t] # "new" /\ (templates'[t] = "kept" => j.version \in B!published(t)')
    BY <1>2, <2>1, <2>2 DEF Minding, PublishedStays
  <2> QED  BY <1>2, <2>1, <2>2, <2>3 DEF Minding, B!published
<1> QED  BY <1>1, <1>2

\* One request moves at most, and it knows what it needs: then all requests do.
LEMMA JobsMind ==
    ASSUME PinInv, PublishedStays,
           \/ job' = job
           \/ \E r \in Requests : \E what :
                  job' = [job EXCEPT ![r] = what] /\ (what = None \/ Minding(what)')
    PROVE  job' = [r \in Requests |-> job'[r]] /\ \A j \in Held' : Minding(j)'
<1>0. job = [r \in Requests |-> job[r]]
  BY DEF PinInv
<1>1. \A j \in Held : Minding(j)'
  BY MindingStays DEF PinInv
<1>2. CASE job' = job
  BY <1>0, <1>1, <1>2 DEF Held
<1>3. ASSUME NEW r \in Requests, NEW what, job' = [job EXCEPT ![r] = what],
             what = None \/ Minding(what)'
      PROVE  job' = [q \in Requests |-> job'[q]] /\ \A j \in Held' : Minding(j)'
  <2>1. job' = [q \in Requests |-> job'[q]] /\ Held' \subseteq Held \cup ({what} \ {None})
    BY <1>0, <1>3 DEF Held
  <2> QED  BY <1>1, <1>3, <2>1
<1> QED  BY <1>2, <1>3

\* A non-empty set of versions up to some number has a greatest one.
LEMMA GreatestOf ==
    ASSUME NEW n \in Nat, NEW Vs \in SUBSET (1..n), Vs # {}
    PROVE  \E v \in Vs : \A w \in Vs : w <= v
<1>1. PICK T : T = {n - v : v \in Vs}
  OBVIOUS
<1>2. T \subseteq Nat /\ T # {}
  <2>1. \A v \in Vs : n - v \in Nat
    OBVIOUS
  <2> QED  BY <1>1, <2>1
<1>3. PICK m \in T : \A d \in T : ~ (<<d, m>> \in OpToRel(<, Nat))
  BY <1>2, NatLessThanWellFounded, WFMin
<1>4. PICK v \in Vs : m = n - v
  BY <1>1, <1>3
<1>5. \A d \in T : ~ (d < m)
  BY <1>2, <1>3 DEF OpToRel
<1>6. ASSUME NEW w \in Vs PROVE w <= v
  <2>1. n - w \in T
    BY <1>1
  <2>2. ~ (n - w < n - v)
    BY <1>4, <1>5, <2>1
  <2> QED  BY <2>2
<1> QED  BY <1>6

\* The latest published version is one, where there is any.
LEMMA LatestIsPublished ==
    ASSUME PinTyped, NEW t \in Templates, B!published(t) # {}
    PROVE  B!latestPublished(t) \in B!published(t)
<1>1. versions[t] \in Seq(VersionRow) /\ B!published(t) \subseteq 1..Len(versions[t])
  BY DEF PinTyped, B!published
<1>2. Len(versions[t]) \in Nat
  BY <1>1
<1>3. PICK Vs : Vs = B!published(t)
  OBVIOUS
<1>4. Vs \in SUBSET (1..Len(versions[t])) /\ Vs # {}
  BY <1>1, <1>3
<1>5. \E v \in Vs : \A w \in Vs : w <= v
  BY <1>2, <1>4, GreatestOf
<1> QED  BY <1>3, <1>5 DEF B!latestPublished

\* A step of one request that changes none of the three tables.
LEMMA TablesStay ==
    ASSUME PinInv, UNCHANGED <<templates, versions, assignments>>,
           \/ job' = job
           \/ \E r \in Requests : \E what :
                  job' = [job EXCEPT ![r] = what] /\ (what = None \/ Minding(what))
    PROVE  PinInv'
<1>1. PublishedStays
  BY DEF PublishedStays, B!published
<1>2. ASSUME NEW what, Minding(what) PROVE Minding(what)'
  BY <1>1, <1>2, MindingStays
<1>3. job' = [r \in Requests |-> job'[r]] /\ \A j \in Held' : Minding(j)'
  BY <1>1, <1>2, JobsMind
<1> QED  BY <1>3 DEF PinInv, PinTyped, B!PinsResolve, B!published

\* A request that finds the template kept and remembers what it read of it.
LEMMA ReadingOfTemplates ==
    ASSUME PinInv, NEW r \in Requests, NEW t, NEW what, Minding(what), B!Reads(r, t, what)
    PROVE  PinInv'
BY TablesStay DEF B!Reads, B!Goes, B!templateVars

\* What a template's requests check before their last statement.
LEMMA ReadStep ==
    ASSUME PinInv, NEW r \in Requests, NEW t \in Templates,
           \/ \E slots \in Contents : \/ B!handleVideoTemplateVersionCreate(r, t, slots)
                                      \/ B!handleVideoTemplateVersionPut(r, t, slots)
           \/ B!handleVideoTemplatePublish(r, t) \/ B!handleVideoTemplateDelete(r, t)
           \/ \E shop \in Shops, v \in 0..MaxVersion : B!handleVideoTemplateAssign(r, shop, t, v)
    PROVE  PinInv'
<1>0. /\ templates[t] = "kept" => versions[t] # <<>>
      /\ versions[t] \in Seq(VersionRow)
  BY DEF PinInv, PinTyped
<1>1. templates[t] = "kept" => B!latest(t) \in Nat \ {0}
  BY <1>0 DEF B!latest
<1>2. ASSUME NEW slots \in Contents, B!handleVideoTemplateVersionCreate(r, t, slots)
      PROVE  PinInv'
  <2>1. PICK what : what = [op |-> "mint", template |-> t, version |-> B!latest(t) + 1,
                            slots |-> slots]
    OBVIOUS
  <2>2. Minding(what)
    BY <2>1 DEF Minding
  <2> QED  BY <1>2, <2>1, <2>2, ReadingOfTemplates DEF B!handleVideoTemplateVersionCreate
<1>3. ASSUME NEW slots \in Contents, B!handleVideoTemplateVersionPut(r, t, slots)
      PROVE  PinInv'
  <2>1. PICK what : what = [op |-> "put", template |-> t, version |-> B!latest(t),
                            slots |-> slots]
    OBVIOUS
  <2>2. Minding(what)
    BY <1>1, <1>3, <2>1 DEF Minding, B!handleVideoTemplateVersionPut
  <2> QED  BY <1>3, <2>1, <2>2, ReadingOfTemplates DEF B!handleVideoTemplateVersionPut
<1>4. ASSUME B!handleVideoTemplatePublish(r, t) PROVE PinInv'
  <2>1. PICK what : what = [op |-> "publish", template |-> t, version |-> B!latest(t)]
    OBVIOUS
  <2>2. Minding(what)
    BY <1>1, <1>4, <2>1 DEF Minding, B!handleVideoTemplatePublish
  <2> QED  BY <1>4, <2>1, <2>2, ReadingOfTemplates DEF B!handleVideoTemplatePublish
<1>5. ASSUME B!handleVideoTemplateDelete(r, t) PROVE PinInv'
  <2>1. PICK what : what = [op |-> "delete", template |-> t]
    OBVIOUS
  <2>2. Minding(what)
    BY <2>1 DEF Minding
  <2> QED  BY <1>5, <2>1, <2>2, ReadingOfTemplates DEF B!handleVideoTemplateDelete
<1>6. ASSUME NEW shop \in Shops, NEW v \in 0..MaxVersion, B!handleVideoTemplateAssign(r, shop, t, v)
      PROVE  PinInv'
  <2>1. PICK w : w = IF v = 0 THEN B!latestPublished(t) ELSE v
    OBVIOUS
  <2>2. w \in B!published(t)
    <3>1. CASE v = 0
      BY <1>6, <2>1, <3>1, LatestIsPublished DEF B!handleVideoTemplateAssign, PinInv
    <3>2. CASE v # 0
      BY <1>6, <2>1, <3>2 DEF B!handleVideoTemplateAssign, B!assignable
    <3> QED  BY <3>1, <3>2
  <2>3. PICK what : what = [op |-> "assign", template |-> t, shop |-> shop, version |-> w]
    OBVIOUS
  <2>4. templates[t] = "kept"
    BY <1>6 DEF B!handleVideoTemplateAssign, B!Reads
  <2>5. Minding(what)
    BY <2>2, <2>3, <2>4 DEF Minding
  <2> QED  BY <1>6, <2>1, <2>3, <2>5, ReadingOfTemplates DEF B!handleVideoTemplateAssign
<1> QED  BY <1>2, <1>3, <1>4, <1>5, <1>6

\* One template's versions are written and none that was published is lost; whoever is
\* assigned stays assigned.
LEMMA VersionsWritten ==
    ASSUME PinInv, NEW t \in Templates, NEW rows \in Seq(VersionRow),
           versions' = [versions EXCEPT ![t] = rows],
           UNCHANGED <<templates, assignments>>,
           \A v \in DOMAIN versions[t] :
               /\ v \in DOMAIN rows
               /\ versions[t][v].status = "published" => rows[v].status = "published",
           \/ job' = job
           \/ \E r \in Requests : job' = [job EXCEPT ![r] = None]
    PROVE  PinInv'
<1>0. versions \in [Templates -> Seq(VersionRow)]
  BY DEF PinInv, PinTyped
<1>1. \A u \in Templates : \A v \in B!published(u) : v \in B!published(u)'
  BY <1>0 DEF B!published
<1>2. PublishedStays
  BY <1>1 DEF PublishedStays
<1>3. job' = [r \in Requests |-> job'[r]] /\ \A j \in Held' : Minding(j)'
  BY <1>2, JobsMind
<1>4. PinTyped'
  BY <1>0 DEF PinInv, PinTyped
<1>5. \A u \in Templates : templates'[u] = "kept" => versions'[u] # <<>>
  <2>1. ASSUME NEW u \in Templates, templates[u] = "kept" PROVE versions'[u] # <<>>
    <3>1. versions[u] # <<>> /\ versions[u] \in Seq(VersionRow)
      BY <1>0, <2>1 DEF PinInv
    <3>2. 1 \in DOMAIN versions[u]
      BY <3>1
    <3>3. 1 \in DOMAIN versions'[u]
      BY <1>0, <3>2
    <3> QED  BY <3>3
  <2> QED  BY <2>1
<1>6. B!PinsResolve'
  <2> SUFFICES ASSUME NEW at \in DOMAIN assignments, assignments[at] # None
               PROVE  /\ templates'[at[2]] = "kept"
                      /\ {assignments[at].version, assignments[at].first} \subseteq B!published(at[2])'
    BY DEF B!PinsResolve
  <2>1. at[2] \in Templates
    BY DEF PinInv, PinTyped
  <2>2. /\ templates[at[2]] = "kept"
        /\ {assignments[at].version, assignments[at].first} \subseteq B!published(at[2])
    BY DEF PinInv, B!PinsResolve
  <2> QED  BY <1>1, <2>1, <2>2
<1> QED  BY <1>3, <1>4, <1>5, <1>6 DEF PinInv

\* The writes to versions: a draft is added or edited, or goes out.
LEMMA VersionStep ==
    ASSUME PinInv, NEW r \in Requests,
           \/ B!CreateVideoTemplateVersion(r) \/ B!UpdateVideoTemplateVersionContent(r)
           \/ B!PublishVideoTemplate(r)
    PROVE  PinInv'
<1>0. /\ versions \in [Templates -> Seq(VersionRow)]
      /\ job' = [job EXCEPT ![r] = None] /\ UNCHANGED <<templates, assignments>>
  BY DEF PinInv, PinTyped, B!CreateVideoTemplateVersion, B!UpdateVideoTemplateVersionContent,
     B!PublishVideoTemplate, B!Ends, B!Goes
<1>1. CASE versions' = versions
  BY <1>0, <1>1, TablesStay
<1>2. PICK j : j = job[r]
  OBVIOUS
<1>3. PICK t : t = j.template
  OBVIOUS
<1>4. PICK v : v = j.version
  OBVIOUS
<1>5. j # None /\ j.op \in {"mint", "put", "publish"}
  BY <1>2 DEF B!CreateVideoTemplateVersion, B!UpdateVideoTemplateVersionContent,
     B!PublishVideoTemplate
<1>6. /\ t \in Templates
      /\ j.op \in {"mint", "put"} => j.slots \in Contents
      /\ j.op \in {"put", "publish"} => v \in Nat \ {0}
  <2>1. Minding(j)
    BY <1>2, <1>5 DEF PinInv, Held
  <2> QED  BY <1>3, <1>4, <1>5, <2>1 DEF Minding
<1>7. PICK old : old = versions[t]
  OBVIOUS
<1>8. old \in Seq(VersionRow)
  BY <1>0, <1>6, <1>7
<1>9. CASE B!CreateVideoTemplateVersion(r) /\ versions' # versions
  <2>1. PICK new : new = [status |-> "draft", slots |-> j.slots]
    OBVIOUS
  <2>2. new \in VersionRow
    BY <1>2, <1>6, <1>9, <2>1 DEF VersionRow, B!CreateVideoTemplateVersion
  <2>3. PICK rows : rows = Append(old, new)
    OBVIOUS
  <2>4. versions' = [versions EXCEPT ![t] = rows]
    BY <1>0, <1>2, <1>3, <1>6, <1>7, <1>9, <2>1, <2>3 DEF B!CreateVideoTemplateVersion, B!Draft
  <2>5. /\ rows \in Seq(VersionRow)
        /\ \A w \in DOMAIN old : w \in DOMAIN rows /\ rows[w] = old[w]
    BY <1>8, <2>2, <2>3
  <2> QED  BY <1>0, <1>6, <1>7, <2>4, <2>5, VersionsWritten
<1>10. CASE B!UpdateVideoTemplateVersionContent(r) /\ versions' # versions
  <2>1. j.op = "put" /\ v \in DOMAIN old /\ old[v].status = "draft"
    BY <1>2, <1>3, <1>4, <1>6, <1>7, <1>8, <1>10
       DEF B!UpdateVideoTemplateVersionContent, B!stillDraft, B!latest
  <2>2. PICK new : new = [old[v] EXCEPT !.slots = j.slots]
    OBVIOUS
  <2>3. new \in VersionRow
    <3>1. old[v] \in VersionRow
      BY <1>8, <2>1
    <3> QED  BY <1>6, <2>1, <2>2, <3>1 DEF VersionRow
  <2>4. PICK rows : rows = [old EXCEPT ![v] = new]
    OBVIOUS
  <2>5. versions' = [versions EXCEPT ![t] = [versions[t] EXCEPT ![v] =
                                                [versions[t][v] EXCEPT !.slots = j.slots]]]
    BY <1>0, <1>2, <1>3, <1>4, <1>6, <1>10 DEF B!UpdateVideoTemplateVersionContent
  <2>6. versions' = [versions EXCEPT ![t] = rows]
    BY <1>7, <2>2, <2>4, <2>5
  <2>7. /\ rows \in Seq(VersionRow)
        /\ \A w \in DOMAIN old : /\ w \in DOMAIN rows
                                 /\ old[w].status = "published" => rows[w].status = "published"
    BY <1>8, <2>1, <2>3, <2>4
  <2> QED  BY <1>0, <1>6, <1>7, <2>6, <2>7, VersionsWritten
<1>11. CASE B!PublishVideoTemplate(r) /\ versions' # versions
  <2>1. j.op = "publish" /\ v \in DOMAIN old
    BY <1>2, <1>3, <1>4, <1>6, <1>7, <1>8, <1>11 DEF B!PublishVideoTemplate, B!latest
  <2>2. PICK new : new = [old[v] EXCEPT !.status = "published"]
    OBVIOUS
  <2>3. new \in VersionRow /\ new.status = "published"
    <3>1. old[v] \in VersionRow
      BY <1>8, <2>1
    <3> QED  BY <2>2, <3>1 DEF VersionRow
  <2>4. PICK rows : rows = [old EXCEPT ![v] = new]
    OBVIOUS
  <2>5. versions' = [versions EXCEPT ![t] = [versions[t] EXCEPT ![v] =
                                                [versions[t][v] EXCEPT !.status = "published"]]]
    BY <1>0, <1>2, <1>3, <1>4, <1>6, <1>11 DEF B!PublishVideoTemplate
  <2>6. versions' = [versions EXCEPT ![t] = rows]
    BY <1>7, <2>2, <2>4, <2>5
  <2>7. /\ rows \in Seq(VersionRow)
        /\ \A w \in DOMAIN old : /\ w \in DOMAIN rows
                                 /\ old[w].status = "published" => rows[w].status = "published"
    BY <1>8, <2>1, <2>3, <2>4
  <2> QED  BY <1>0, <1>6, <1>7, <2>6, <2>7, VersionsWritten
<1> QED  BY <1>1, <1>9, <1>10, <1>11

\* A template is made; no shop and no request knew of it.
LEMMA TemplateMade ==
    ASSUME PinInv, NEW t \in Templates, NEW slots \in Contents, B!CreateVideoTemplate(t, slots)
    PROVE  PinInv'
<1>0. PinTyped /\ templates[t] = "new"
  BY DEF PinInv, B!CreateVideoTemplate
<1>1. PICK new : new = [status |-> "draft", slots |-> slots]
  OBVIOUS
<1>2. /\ templates' = [templates EXCEPT ![t] = "kept"]
      /\ versions' = [versions EXCEPT ![t] = <<new>>]
      /\ UNCHANGED <<assignments, job>>
  BY <1>1 DEF B!CreateVideoTemplate, B!Draft
<1>3. <<new>> \in Seq(VersionRow) /\ <<new>> # <<>>
  BY <1>1 DEF VersionRow
<1>4. PinTyped'
  BY <1>0, <1>2, <1>3 DEF PinTyped
<1>5. \A u \in Templates \ {t} : B!published(u)' = B!published(u) /\ templates'[u] = templates[u]
  BY <1>0, <1>2 DEF PinTyped, B!published
<1>6. PublishedStays
  BY <1>0, <1>5 DEF PublishedStays
<1>7. job' = [r \in Requests |-> job'[r]] /\ \A j \in Held' : Minding(j)'
  BY <1>2, <1>6, JobsMind
<1>8. \A u \in Templates : templates'[u] = "kept" => versions'[u] # <<>>
  BY <1>0, <1>2, <1>3 DEF PinInv, PinTyped
<1>9. B!PinsResolve'
  <2> SUFFICES ASSUME NEW at \in DOMAIN assignments, assignments[at] # None
               PROVE  /\ templates'[at[2]] = "kept"
                      /\ {assignments[at].version, assignments[at].first} \subseteq B!published(at[2])'
    BY <1>2 DEF B!PinsResolve
  <2>1. /\ at[2] \in Templates /\ templates[at[2]] = "kept"
        /\ {assignments[at].version, assignments[at].first} \subseteq B!published(at[2])
    BY <1>0 DEF PinInv, B!PinsResolve, PinTyped
  <2> QED  BY <1>0, <1>5, <2>1
<1> QED  BY <1>4, <1>7, <1>8, <1>9 DEF PinInv

\* A template goes with its assignments, also if it was published since the check.
LEMMA TemplateDeleted ==
    ASSUME PinInv, NEW r \in Requests, B!DeleteVideoTemplate(r)
    PROVE  PinInv'
<1>0. PinTyped
  BY DEF PinInv
<1>1. PICK t : t = job[r].template
  OBVIOUS
<1>2. t \in Templates
  BY <1>1 DEF B!DeleteVideoTemplate, PinInv, Held, Minding
<1>3. /\ templates' = [templates EXCEPT ![t] = "gone"]
      /\ versions' = [versions EXCEPT ![t] = <<>>]
      /\ assignments' = [at \in DOMAIN assignments |-> IF at[2] = t THEN None ELSE assignments[at]]
      /\ job' = [job EXCEPT ![r] = None]
  BY <1>1 DEF B!DeleteVideoTemplate, B!Ends, B!Goes
<1>4. PinTyped'
  <2>1. templates' \in [Templates -> {"new", "kept", "gone"}]
    BY <1>0, <1>3 DEF PinTyped
  <2>2. versions' \in [Templates -> Seq(VersionRow)]
    <3>1. <<>> \in Seq(VersionRow)
      OBVIOUS
    <3> QED  BY <1>0, <1>3, <3>1 DEF PinTyped
  <2>3. assignments' \in [Shops \X Templates -> Pin \cup {None}]
    BY <1>0, <1>3 DEF PinTyped
  <2> QED  BY <2>1, <2>2, <2>3 DEF PinTyped
<1>5. /\ templates'[t] = "gone"
      /\ \A u \in Templates \ {t} : B!published(u)' = B!published(u) /\ templates'[u] = templates[u]
  BY <1>0, <1>2, <1>3 DEF PinTyped, B!published
<1>6. PublishedStays
  BY <1>5 DEF PublishedStays
<1>7. job' = [q \in Requests |-> job'[q]] /\ \A j \in Held' : Minding(j)'
  BY <1>3, <1>6, JobsMind
<1>8. \A u \in Templates : templates'[u] = "kept" => versions'[u] # <<>>
  BY <1>0, <1>2, <1>3, <1>5 DEF PinInv, PinTyped
<1>9. B!PinsResolve'
  <2> SUFFICES ASSUME NEW at \in DOMAIN assignments', assignments'[at] # None
               PROVE  /\ templates'[at[2]] = "kept"
                      /\ {assignments'[at].version, assignments'[at].first}
                             \subseteq B!published(at[2])'
    BY DEF B!PinsResolve
  <2>1. at \in DOMAIN assignments /\ at[2] # t /\ assignments'[at] = assignments[at]
    BY <1>3
  <2>2. /\ at[2] \in Templates /\ templates[at[2]] = "kept"
        /\ {assignments[at].version, assignments[at].first} \subseteq B!published(at[2])
    BY <1>0, <2>1 DEF PinInv, B!PinsResolve, PinTyped
  <2> QED  BY <1>5, <2>1, <2>2
<1> QED  BY <1>4, <1>7, <1>8, <1>9 DEF PinInv

\* A shop is given a version, or has one taken.
LEMMA AssignStep ==
    ASSUME PinInv,
           \/ \E r \in Requests : B!AssignVideoTemplate(r)
           \/ \E t \in Templates, shop \in Shops : B!UnassignVideoTemplate(shop, t)
    PROVE  PinInv'
<1>0. PinTyped
  BY DEF PinInv
<1>1. UNCHANGED <<templates, versions>>
  BY DEF B!AssignVideoTemplate, B!UnassignVideoTemplate
<1>2. PublishedStays
  BY <1>1 DEF PublishedStays, B!published
<1>3. ASSUME NEW s \in Shops, NEW t \in Templates, NEW new \in Pin \cup {None},
             assignments' = [assignments EXCEPT ![<<s, t>>] = new],
             new # None => /\ templates[t] = "kept"
                           /\ {new.version, new.first} \subseteq B!published(t),
             job' = job \/ \E r \in Requests : job' = [job EXCEPT ![r] = None]
      PROVE  PinInv'
  <2>1. job' = [q \in Requests |-> job'[q]] /\ \A j \in Held' : Minding(j)'
    BY <1>2, <1>3, JobsMind
  <2>2. assignments' \in [Shops \X Templates -> Pin \cup {None}]
    BY <1>0, <1>3 DEF PinTyped
  <2>3. B!PinsResolve'
    <3> SUFFICES ASSUME NEW at \in DOMAIN assignments', assignments'[at] # None
                 PROVE  /\ templates[at[2]] = "kept"
                        /\ {assignments'[at].version, assignments'[at].first}
                               \subseteq B!published(at[2])
      BY <1>1 DEF B!PinsResolve, B!published
    <3>1. at \in DOMAIN assignments /\ at \in Shops \X Templates
      BY <1>0, <2>2 DEF PinTyped
    <3>2. CASE at = <<s, t>>
      BY <1>0, <1>3, <3>2 DEF PinTyped
    <3>3. CASE at # <<s, t>>
      BY <1>0, <1>3, <3>1, <3>3 DEF PinTyped, PinInv, B!PinsResolve
    <3> QED  BY <3>2, <3>3
  <2> QED  BY <1>0, <1>1, <2>1, <2>2, <2>3 DEF PinInv, PinTyped
<1>4. ASSUME NEW r \in Requests, B!AssignVideoTemplate(r) PROVE PinInv'
  <2>1. PICK j : j = job[r]
    OBVIOUS
  <2>2. j # None /\ j.op = "assign" /\ job' = [job EXCEPT ![r] = None]
    BY <1>4, <2>1 DEF B!AssignVideoTemplate, B!Ends, B!Goes
  <2>3. /\ j.shop \in Shops /\ j.template \in Templates
        /\ templates[j.template] = "kept" => j.version \in B!published(j.template)
    <3>1. Minding(j)
      BY <2>1, <2>2 DEF PinInv, Held
    <3> QED  BY <2>2, <3>1 DEF Minding
  <2>4. CASE templates[j.template] # "kept"
    <3>1. assignments' = assignments
      BY <1>4, <2>1, <2>4 DEF B!AssignVideoTemplate
    <3> QED  BY <1>1, <2>2, <3>1, TablesStay
  <2>5. CASE templates[j.template] = "kept"
    <3>1. PICK at : at = <<j.shop, j.template>>
      OBVIOUS
    <3>2. PICK old : old = assignments[at]
      OBVIOUS
    <3>3. PICK new : new = IF old = None THEN [version |-> j.version, first |-> j.version]
                           ELSE [old EXCEPT !.version = j.version]
      OBVIOUS
    <3>4. assignments' = [assignments EXCEPT ![at] = new]
      <4>1. CASE old = None
        BY <1>4, <2>1, <2>5, <3>1, <3>2, <3>3, <4>1 DEF B!AssignVideoTemplate
      <4>2. CASE old # None
        BY <1>4, <2>1, <2>5, <3>1, <3>2, <3>3, <4>2 DEF B!AssignVideoTemplate
      <4> QED  BY <4>1, <4>2
    <3>5. j.version \in B!published(j.template) /\ j.version \in Nat
      <4>1. versions[j.template] \in Seq(VersionRow)
        BY <1>0, <2>3 DEF PinTyped
      <4> QED  BY <2>3, <2>5, <4>1 DEF B!published
    <3>6. new \in Pin /\ {new.version, new.first} \subseteq B!published(j.template)
      <4>1. CASE old = None
        BY <3>3, <3>5, <4>1 DEF Pin
      <4>2. CASE old # None
        <5>1. old \in Pin
          BY <1>0, <2>3, <3>1, <3>2, <4>2 DEF PinTyped
        <5>2. at \in DOMAIN assignments /\ at[2] = j.template
          BY <1>0, <2>3, <3>1 DEF PinTyped
        <5>3. old.first \in B!published(j.template)
          BY <3>2, <4>2, <5>2 DEF PinInv, B!PinsResolve
        <5> QED  BY <3>3, <3>5, <4>2, <5>1, <5>3 DEF Pin
      <4> QED  BY <4>1, <4>2
    <3> QED  BY <1>3, <2>2, <2>3, <2>5, <3>1, <3>4, <3>6
  <2> QED  BY <2>4, <2>5
<1>5. ASSUME NEW t \in Templates, NEW shop \in Shops, B!UnassignVideoTemplate(shop, t)
      PROVE  PinInv'
  BY <1>3, <1>5 DEF B!UnassignVideoTemplate
<1> QED  BY <1>4, <1>5

\* Initially there is no template.
LEMMA PinInitInv == B!LibraryInit => PinInv
<1> SUFFICES ASSUME B!LibraryInit PROVE PinInv
  OBVIOUS
<1>1. /\ job = [r \in Requests |-> None] /\ templates = [t \in Templates |-> "new"]
      /\ versions = [t \in Templates |-> <<>>]
      /\ assignments = [st \in Shops \X Templates |-> None]
  BY DEF B!LibraryInit
<1>2. job = [r \in Requests |-> job[r]] /\ Held = {}
  BY <1>1 DEF Held
<1>3. PinTyped
  BY <1>1 DEF PinTyped
<1> QED  BY <1>1, <1>2, <1>3 DEF PinInv, B!PinsResolve

\* Every step keeps what shops were given resolvable.
LEMMA PinNextInv ==
    ASSUME PinInv, [B!LibraryNext]_B!libVars
    PROVE  PinInv'
<1>0. \A what : what.op \in {"register", "draw"} => Minding(what)
  BY DEF Minding
<1>1. ASSUME B!AssetStep PROVE PinInv'
  <2>1. UNCHANGED <<templates, versions, assignments>>
    BY <1>1, AssetsDrawNothing
  <2>2. ASSUME NEW r \in Requests, NEW what, job' = [job EXCEPT ![r] = what],
               what = None \/ what.op = "register"
        PROVE  PinInv'
    <3>1. what = None \/ Minding(what)
      BY <1>0, <2>2
    <3> QED  BY <2>1, <2>2, <3>1, TablesStay
  <2>3. CASE job' = job
    BY <2>1, <2>3, TablesStay
  <2> QED  BY <1>1, <2>2, <2>3, AssetsDrawNothing
<1>2. ASSUME B!PoolStep PROVE PinInv'
  <2>1. ASSUME NEW p \in Pools, \/ B!CreateLibPool(p) \/ B!DeleteLibPool(p)
                                \/ \E a \in Assets : B!AddLibPoolItem(p, a) \/ B!RemoveLibPoolItem(p, a)
        PROVE  PinInv'
    <3>1. UNCHANGED <<templates, versions, assignments, job>>
      BY <2>1 DEF B!CreateLibPool, B!DeleteLibPool, B!AddLibPoolItem, B!RemoveLibPoolItem,
         B!templateVars
    <3> QED  BY <3>1, TablesStay
  <2>2. ASSUME NEW r \in Requests, NEW p \in Pools, NEW d \in Draws, B!DrawLibPool(r, p, d)
        PROVE  PinInv'
    <3>1. PICK what : what = [op |-> "draw", pool |-> p, draw |-> d, row |-> B!Frozen(B!Select(p))]
      OBVIOUS
    <3>2. /\ UNCHANGED <<templates, versions, assignments>>
          /\ job' = job \/ job' = [job EXCEPT ![r] = what]
      BY <2>2, <3>1 DEF B!DrawLibPool, B!templateVars, B!Goes
    <3>3. Minding(what)
      BY <1>0, <3>1
    <3> QED  BY <3>2, <3>3, TablesStay
  <2>3. ASSUME NEW r \in Requests, B!InsertSelection(r) PROVE PinInv'
    <3>1. UNCHANGED <<templates, versions, assignments>> /\ job' = [job EXCEPT ![r] = None]
      BY <2>3 DEF B!InsertSelection, B!templateVars, B!Ends, B!Goes
    <3> QED  BY <3>1, TablesStay
  <2> QED
    BY <1>2, <2>1, <2>2, <2>3 DEF B!PoolStep, B!handleLibPoolCreate, B!handleLibPoolDelete,
       B!handleLibPoolItemAdd, B!handleLibPoolItemRemove, B!handleLibPoolDraw
<1>3. ASSUME B!TemplateStep PROVE PinInv'
  BY <1>3, ReadStep, VersionStep, TemplateMade, TemplateDeleted, AssignStep
     DEF B!TemplateStep, B!handleVideoTemplateCreate, B!handleVideoTemplateUnassign
<1>4. ASSUME UNCHANGED B!libVars PROVE PinInv'
  <2>1. UNCHANGED <<templates, versions, assignments, job>>
    BY <1>4 DEF B!libVars, B!templateVars
  <2> QED  BY <2>1, TablesStay
<1> QED  BY <1>1, <1>2, <1>3, <1>4 DEF B!LibraryNext

PinHeld == focus = "library" => PinInv

\* What a shop was given can be looked up and is published, although the check of an
\* assignment, its row, the publishing and the deletion of its template are statements
\* of requests that overlap (AssignVideoTemplate, DeleteVideoTemplate).
THEOREM PinsAlwaysResolve == Spec => []PinsResolve
<1>1. PinHeld => PinsResolve
  BY DEF PinHeld, PinsResolve, PinInv
<1>2. Init => PinHeld
  BY PinInitInv DEF Init, PinHeld
<1>3. PinHeld /\ [Next]_allVars => PinHeld'
  <2> SUFFICES ASSUME PinHeld, [Next]_allVars, focus' = "library"
               PROVE  PinInv'
    BY DEF PinHeld
  <2>1. focus = "library" /\ [B!LibraryNext]_B!libVars
    BY StepsOf
  <2> QED  BY <2>1, PinNextInv DEF PinHeld
<1> QED  BY <1>1, <1>2, <1>3, PTL DEF Spec

-----------------------------------------------------------------------------
(* The campaign's configuration: what guests are promised *)

ConfigRow == [version : Nat \ {0}, status : {"draft", "enabled", "paused"}, spec : C!Specs,
              pinned : Nat, promised : C!Specs \cup {None}]
Passed    == [version : Nat \ {0}, spec : C!Specs]

\* A row is not the marker for none.
NoneIsNoConfig == None \notin ConfigRow

\* What an editor is about to enable has passed the check, of a row that is still there.
ConfigInv ==
    /\ config \in ConfigRow \cup {None}
    /\ editor \in [Editors -> Passed \cup {Idle}]
    /\ configTrail \in Seq({configTrail[i] : i \in DOMAIN configTrail})
    /\ config = None => configTrail = <<>>
    /\ \A e \in Editors : editor[e] # Idle => config # None /\ editor[e] \in approved
    /\ C!PinnedWasChecked

\* Initially there is no configuration.
LEMMA ConfigInitInv == C!ConfigInit => ConfigInv
<1> SUFFICES ASSUME C!ConfigInit PROVE ConfigInv
  OBVIOUS
<1>1. /\ config = None /\ configTrail = <<>> /\ approved = {}
      /\ editor = [e \in Editors |-> Idle]
  BY DEF C!ConfigInit
<1>2. configTrail \in Seq({configTrail[i] : i \in DOMAIN configTrail})
  BY <1>1
<1> QED  BY <1>1, <1>2 DEF ConfigInv, C!PinnedWasChecked

\* A row is written with the revision that tells of it.
LEMMA RowWritten ==
    ASSUME NoneIsNoConfig, ConfigInv, NEW new \in ConfigRow, NEW revision,
           config' = new, configTrail' = Append(configTrail, revision),
           revision.status = new.status, approved' = approved,
           editor' \in [Editors -> Passed \cup {Idle}],
           \A e \in Editors : editor'[e] # Idle => editor'[e] = editor[e],
           new.pinned > 0 => [version |-> new.pinned, spec |-> new.promised] \in approved,
           new.status \in {"enabled", "paused"} => new.pinned > 0,
           config # None /\ config.pinned > 0 => new.pinned > 0
    PROVE  ConfigInv'
<1>1. PICK E : E = {configTrail[i] : i \in DOMAIN configTrail}
  OBVIOUS
<1>2. configTrail \in Seq(E)
  BY <1>1 DEF ConfigInv
<1>3. configTrail' \in Seq(E \cup {revision})
  BY <1>2
<1>4. /\ DOMAIN configTrail' = 1..Len(configTrail) + 1 /\ DOMAIN configTrail = 1..Len(configTrail)
      /\ configTrail'[Len(configTrail) + 1] = revision
      /\ \A i \in DOMAIN configTrail : configTrail'[i] = configTrail[i]
  BY <1>2
<1>5. configTrail' \in Seq({configTrail'[i] : i \in DOMAIN configTrail'})
  <2>1. PICK F : F = {configTrail'[i] : i \in DOMAIN configTrail'}
    OBVIOUS
  <2>2. \A i \in DOMAIN configTrail' : configTrail'[i] \in F
    BY <2>1
  <2>3. configTrail' \in Seq(F)
    BY <1>3, <2>2
  <2> QED  BY <2>1, <2>3
<1>6. config' # None
  BY DEF NoneIsNoConfig
<1>7. (\E i \in DOMAIN configTrail' : configTrail'[i].status = "enabled") => config'.pinned > 0
  <2> SUFFICES ASSUME NEW i \in DOMAIN configTrail', configTrail'[i].status = "enabled"
               PROVE  new.pinned > 0
    OBVIOUS
  <2>1. CASE i \in DOMAIN configTrail
    <3>1. config # None
      BY <1>4, <2>1 DEF ConfigInv
    <3>2. config.pinned > 0
      BY <1>4, <2>1, <3>1 DEF ConfigInv, C!PinnedWasChecked
    <3> QED  BY <3>1, <3>2
  <2>2. CASE i \notin DOMAIN configTrail
    <3>1. i = Len(configTrail) + 1
      BY <1>2, <1>4, <2>2
    <3> QED  BY <1>4, <3>1
  <2> QED  BY <2>1, <2>2
<1>8. C!PinnedWasChecked'
  BY <1>6, <1>7 DEF C!PinnedWasChecked
<1> QED  BY <1>5, <1>6, <1>8 DEF ConfigInv

\* Steps that leave the configuration and what passed alone.
LEMMA ConfigStays ==
    ASSUME ConfigInv, UNCHANGED <<config, configTrail, approved>>,
           editor' = editor \/ editor' = [e \in Editors |-> Idle]
    PROVE  ConfigInv'
<1>1. editor' \in [Editors -> Passed \cup {Idle}]
  BY DEF ConfigInv
<1> QED  BY <1>1 DEF ConfigInv, C!PinnedWasChecked

\* Save, check, enable and pause, each in statements of its own.
LEMMA PromiseKeeps ==
    ASSUME NoneIsNoConfig, ConfigInv, C!Promise
    PROVE  ConfigInv'
<1>0. /\ config \in ConfigRow \cup {None}
      /\ editor \in [Editors -> Passed \cup {Idle}]
  BY DEF ConfigInv
<1>1. ASSUME NEW spec \in C!Specs, C!UpsertPublishConfigDraft(spec) PROVE ConfigInv'
  <2>1. PICK new : new = C!draft(spec)
    OBVIOUS
  <2>2. PICK action : action = IF config = None THEN "create" ELSE "update"
    OBVIOUS
  <2>3. PICK revision : revision = [action |-> action, version |-> new.version,
                                    status |-> new.status, pinned |-> new.pinned]
    OBVIOUS
  <2>4. /\ config' = new /\ configTrail' = Append(configTrail, revision)
        /\ UNCHANGED <<approved, editor>>
    BY <1>1, <2>1, <2>2, <2>3 DEF C!UpsertPublishConfigDraft, C!Audit, C!Revision
  <2>5. /\ new \in ConfigRow /\ new.status = "draft"
        /\ config = None => new.pinned = 0
        /\ config # None => new.pinned = config.pinned /\ new.promised = config.promised
    <3>1. CASE config = None
      BY <2>1, <3>1 DEF C!draft, ConfigRow
    <3>2. CASE config # None
      <4>1. PICK n : n = config.version + 1
        OBVIOUS
      <4>2. new = [config EXCEPT !.version = n, !.status = "draft", !.spec = spec]
        BY <2>1, <3>2, <4>1 DEF C!draft
      <4>3. config \in ConfigRow
        BY <1>0, <3>2
      <4>4. config.version \in Nat
        BY <4>3 DEF ConfigRow
      <4>5. n \in Nat \ {0}
        BY <4>1, <4>4
      <4>6. new \in ConfigRow
        BY <4>2, <4>3, <4>5 DEF ConfigRow
      <4>7. new.status = "draft" /\ new.pinned = config.pinned /\ new.promised = config.promised
        BY <4>2, <4>3 DEF ConfigRow
      <4> QED  BY <3>2, <4>6, <4>7
    <3> QED  BY <3>1, <3>2
  <2>6. new.pinned > 0 => [version |-> new.pinned, spec |-> new.promised] \in approved
    BY <2>5 DEF ConfigInv, C!PinnedWasChecked
  <2>7. revision.status = new.status
    BY <2>3
  <2> QED  BY <1>0, <2>4, <2>5, <2>6, <2>7, RowWritten
<1>2. ASSUME NEW e \in Editors, NEW facts \in C!Facts, NEW verdictOf \in C!verdicts,
             C!handlePublishConfigEnable(e, verdictOf, facts)
      PROVE  ConfigInv'
  <2>1. PICK p : p = [version |-> config.version, spec |-> config.spec]
    OBVIOUS
  <2>2. /\ editor' = [editor EXCEPT ![e] = p] /\ approved' = approved \cup {p}
        /\ UNCHANGED <<config, configTrail>> /\ config # None
    BY <1>2, <2>1 DEF C!handlePublishConfigEnable, C!BuildDisclosure
  <2>3. p \in Passed
    BY <1>0, <2>1, <2>2 DEF ConfigRow, Passed
  <2>4. editor' \in [Editors -> Passed \cup {Idle}]
    BY <1>0, <2>2, <2>3
  <2>5. \A d \in Editors : editor'[d] # Idle => config # None /\ editor'[d] \in approved'
    BY <1>0, <2>2 DEF ConfigInv
  <2>6. C!PinnedWasChecked'
    BY <2>2 DEF ConfigInv, C!PinnedWasChecked
  <2> QED  BY <2>2, <2>4, <2>5, <2>6 DEF ConfigInv
<1>3. ASSUME NEW e \in Editors, C!EnablePublishConfig(e) PROVE ConfigInv'
  <2>0. /\ editor[e] \in Passed /\ editor[e] \in approved /\ config \in ConfigRow
        /\ editor' = [editor EXCEPT ![e] = Idle] /\ approved' = approved
    BY <1>0, <1>3 DEF C!EnablePublishConfig, ConfigInv
  <2>1. /\ editor' \in [Editors -> Passed \cup {Idle}]
        /\ \A d \in Editors : editor'[d] # Idle => editor'[d] = editor[d]
    BY <1>0, <2>0
  <2>2. CASE config.status = "enabled"
    <3>1. UNCHANGED <<config, configTrail>>
      BY <1>3, <2>2 DEF C!EnablePublishConfig
    <3> QED  BY <2>0, <2>1, <3>1 DEF ConfigInv, C!PinnedWasChecked
  <2>3. CASE config.status # "enabled"
    <3>1. PICK new : new = C!pin(e)
      OBVIOUS
    <3>2. PICK action : action = IF config.status = "paused" THEN "resume" ELSE "enable"
      OBVIOUS
    <3>3. PICK revision : revision = [action |-> action, version |-> new.version,
                                      status |-> new.status, pinned |-> new.pinned]
      OBVIOUS
    <3>4. config' = new /\ configTrail' = Append(configTrail, revision)
      BY <1>3, <2>3, <3>1, <3>2, <3>3 DEF C!EnablePublishConfig, C!Audit, C!Revision
    <3>5. new = [config EXCEPT !.status = "enabled", !.pinned = editor[e].version,
                               !.promised = editor[e].spec]
      BY <3>1 DEF C!pin
    <3>6. /\ new \in ConfigRow /\ new.status = "enabled" /\ new.pinned > 0
          /\ new.pinned = editor[e].version /\ new.promised = editor[e].spec
      <4>1. PICK n : n = editor[e].version
        OBVIOUS
      <4>2. PICK promised : promised = editor[e].spec
        OBVIOUS
      <4>3. n \in Nat \ {0} /\ promised \in C!Specs
        BY <2>0, <4>1, <4>2 DEF Passed
      <4>4. new = [config EXCEPT !.status = "enabled", !.pinned = n, !.promised = promised]
        BY <3>5, <4>1, <4>2
      <4>5. new \in ConfigRow
        BY <2>0, <4>3, <4>4 DEF ConfigRow
      <4>6. new.status = "enabled" /\ new.pinned = n /\ new.promised = promised
        BY <2>0, <4>4 DEF ConfigRow
      <4> QED  BY <4>1, <4>2, <4>3, <4>5, <4>6
    <3>7. [version |-> new.pinned, spec |-> new.promised] = editor[e]
      BY <2>0, <3>6 DEF Passed
    <3>8. revision.status = new.status
      BY <3>3
    <3> QED  BY <2>0, <2>1, <3>4, <3>6, <3>7, <3>8, RowWritten
  <2> QED  BY <2>2, <2>3
<1>4. ASSUME C!PausePublishConfig PROVE ConfigInv'
  <2>1. config \in ConfigRow /\ config # None /\ config.status = "enabled"
    BY <1>0, <1>4 DEF C!PausePublishConfig
  <2>2. PICK new : new = [config EXCEPT !.status = "paused"]
    OBVIOUS
  <2>3. PICK revision : revision = [action |-> "pause", version |-> new.version,
                                    status |-> new.status, pinned |-> new.pinned]
    OBVIOUS
  <2>4. /\ config' = new /\ configTrail' = Append(configTrail, revision)
        /\ UNCHANGED <<approved, editor>>
    BY <1>4, <2>2, <2>3 DEF C!PausePublishConfig, C!AuditPause, C!Audit, C!Revision
  <2>5. /\ new \in ConfigRow /\ new.status = "paused"
        /\ new.pinned = config.pinned /\ new.promised = config.promised
    BY <2>1, <2>2 DEF ConfigRow
  <2>6. /\ new.pinned > 0
        /\ [version |-> new.pinned, spec |-> new.promised] \in approved
    BY <2>1, <2>5 DEF ConfigInv, C!PinnedWasChecked
  <2>7. revision.status = new.status
    BY <2>3
  <2> QED  BY <1>0, <2>4, <2>5, <2>6, <2>7, RowWritten
<1>5. ASSUME C!NextDay PROVE ConfigInv'
  <2>1. UNCHANGED <<config, configTrail, approved, editor>>
    BY <1>5 DEF C!NextDay, C!rowVars
  <2> QED  BY <2>1, ConfigStays
<1> QED  BY <1>1, <1>2, <1>3, <1>4, <1>5 DEF C!Promise, C!handlePublishConfigPut

\* Every step keeps the promise checked.
LEMMA ConfigNextInv ==
    ASSUME NoneIsNoConfig, ConfigInv, [C!ConfigNext]_C!configVars
    PROVE  ConfigInv'
<1>1. ASSUME C!LoadAdmissionSeed \/ C!UpsertCampaignRules \/ C!DeleteCampaignRules
              \/ UNCHANGED C!configVars
      PROVE  ConfigInv'
  <2>1. UNCHANGED <<config, configTrail, approved, editor>>
    BY <1>1 DEF C!LoadAdmissionSeed, C!upsertAdmission, C!UpsertCampaignRules,
       C!DeleteCampaignRules, C!rowVars, C!configVars
  <2> QED  BY <2>1, ConfigStays
<1>2. ASSUME NEW next \in Seeds, C!Release(next) PROVE ConfigInv'
  <2>1. UNCHANGED <<config, configTrail, approved>> /\ editor' = [e \in Editors |-> Idle]
    BY <1>2 DEF C!Release, C!rowVars
  <2> QED  BY <2>1, ConfigStays
<1> QED  BY <1>1, <1>2, PromiseKeeps DEF C!ConfigNext

ConfigHeld == focus = "campaign" => ConfigInv

\* A promise guests were shown passed the check as a whole: whoever saved, paused,
\* resumed or enabled in parallel, the pinned version and the disclosure belong
\* together, and a later draft leaves the pin (EnablePublishConfig,
\* UpsertPublishConfigDraft).
THEOREM PromisesWereChecked ==
    ASSUME NoneIsNoConfig
    PROVE  Spec => []PinnedWasChecked
<1>1. ConfigHeld => PinnedWasChecked
  BY DEF ConfigHeld, PinnedWasChecked, ConfigInv
<1>2. Init => ConfigHeld
  BY ConfigInitInv DEF Init, ConfigHeld
<1>3. ConfigHeld /\ [Next]_allVars => ConfigHeld'
  <2> SUFFICES ASSUME ConfigHeld, [Next]_allVars, focus' = "campaign"
               PROVE  ConfigInv'
    BY DEF ConfigHeld
  <2>1. focus = "campaign" /\ [C!ConfigNext]_C!configVars
    BY StepsOf
  <2> QED  BY <2>1, ConfigNextInv DEF ConfigHeld
<1> QED  BY <1>1, <1>2, <1>3, PTL DEF Spec

-----------------------------------------------------------------------------
(* The trails of the campaign: configuration, channel table and rules *)

\* The list has every element of the set, once.
Lists(list, n, all) ==
    /\ list \in [1..n -> all]
    /\ \A i, j \in 1..n : list[i] = list[j] => i = j
    /\ \A x \in all : \E i \in 1..n : list[i] = x

\* A finite set that is listed comes out whole, each element once (SetToSeq).
LEMMA Listed ==
    ASSUME NEW all, IsFiniteSet(all)
    PROVE  \E n \in Nat : Lists(C!SetToSeq(all), n, all)
<1>1. PICK n : n = Cardinality(all)
  OBVIOUS
<1>2. n \in Nat /\ ExistsBijection(1..n, all)
  BY <1>1, FS_CardinalityType
<1>3. PICK f : f \in Bijection(1..n, all)
  BY <1>2 DEF ExistsBijection
<1>4. f \in [1..n -> all] /\ \A i, j \in 1..n : f[i] = f[j] => i = j
  BY <1>3 DEF Bijection, Injection, IsInjective
<1>5. f \in [1..n -> all] /\ C!IsInjective(f)
  BY <1>4 DEF C!IsInjective
<1>6. C!Cardinality(all) = n
  BY <1>1, Zenon DEF C!Cardinality, Cardinality, IsFiniteSet, C!IsFiniteSet
<1>7. C!SetToSeq(all) = CHOOSE g \in [1..n -> all] : C!IsInjective(g)
  BY <1>6, Zenon DEF C!SetToSeq
<1>8. PICK s : s = C!SetToSeq(all)
  OBVIOUS
<1>9. s \in [1..n -> all] /\ C!IsInjective(s)
  BY <1>5, <1>7, <1>8, Zenon
<1>10. \A i, j \in 1..n : s[i] = s[j] => i = j
  BY <1>9 DEF C!IsInjective
<1>11. s \in Injection(1..n, all)
  BY <1>9, <1>10 DEF Injection, IsInjective
<1>12. IsFiniteSet(1..n) /\ Cardinality(1..n) = n
  BY <1>2, FS_Interval
<1>13. s \in Surjection(1..n, all)
  BY <1>1, <1>11, <1>12, FS_Injection
<1>14. \A x \in all : \E i \in 1..n : s[i] = x
  BY <1>13 DEF Surjection
<1>15. Lists(s, n, all)
  BY <1>9, <1>10, <1>14 DEF Lists
<1> QED  BY <1>2, <1>8, <1>15

Told == [key : C!Keys, record : Records \cup {None}]
Ruled == [revision : Nat, set : BOOLEAN]

\* The trails are lists of revisions, and each tells its table.
TrailInv ==
    /\ seed \in Seeds
    /\ admissions \in [C!Keys -> Records \cup {None}]
    /\ admissionTrail \in Seq(Told)
    /\ ruleTrail \in Seq(Ruled)
    /\ C!TrailsReplay

\* The entries tell each row of the table, once.
Telling(all) ==
    /\ \A x \in all : /\ x \in Told /\ admissions[x.key] = x.record
                     /\ \A y \in all : x.key = y.key => x = y
    /\ \A key \in C!Keys : admissions[key] # None => \E x \in all : x.key = key

\* A list with one entry for each row of the table tells it.
LEMMA OnceEach ==
    ASSUME NEW all, NEW n \in Nat,
           Telling(all), Lists(admissionTrail, n, all)
    PROVE  admissionTrail \in Seq(Told) /\ C!AdmissionsReplay
<1>1. DOMAIN admissionTrail = 1..n /\ \A i \in 1..n : admissionTrail[i] \in all
  BY DEF Lists
<1>2. admissionTrail \in Seq(Told)
  BY DEF Telling, Lists
<1>3. \A i, j \in 1..n : admissionTrail[i].key = admissionTrail[j].key => i = j
  BY <1>1 DEF Telling, Lists
<1>4. \A i \in 1..n : admissionTrail[i].record = admissions[admissionTrail[i].key]
  BY <1>1 DEF Telling
<1>5. \A key \in C!Keys : admissions[key] # None => \E i \in 1..n : admissionTrail[i].key = key
  BY <1>1 DEF Telling, Lists
<1>6. \A i, j \in 1..n : i < j => i # j
  OBVIOUS
<1> QED  BY <1>1, <1>2, <1>3, <1>4, <1>5, <1>6 DEF C!AdmissionsReplay

\* One entry for each row of the table.
Entries == {[key |-> key, record |-> admissions[key]] :
               key \in {k \in C!Keys : admissions[k] # None}}

\* The table that is loaded at the start is told row by row.
LEMMA LoadedReplays ==
    ASSUME admissions \in [C!Keys -> Records \cup {None}],
           admissionTrail = C!SetToSeq(Entries)
    PROVE  admissionTrail \in Seq(Told) /\ C!AdmissionsReplay
<1>1. PICK loaded : loaded = {k \in C!Keys : admissions[k] # None}
  OBVIOUS
<1>2. PICK all : all = {[key |-> key, record |-> admissions[key]] : key \in loaded}
  OBVIOUS
<1>3. IsFiniteSet(all)
  <2>1. PICK g : g = [key \in loaded |-> [key |-> key, record |-> admissions[key]]]
    OBVIOUS
  <2>2. g \in Surjection(loaded, all)
    BY <1>2, <2>1 DEF Surjection
  <2>3. IsFiniteSet(Routes)
    BY ConsoleAssumption, Zenon DEF C!BoundsAssumption, C!IsFiniteSet, IsFiniteSet
  <2>4. IsFiniteSet({Tenant, Anyone})
    <3>1. IsFiniteSet({Tenant}) /\ {Tenant, Anyone} = {Tenant} \cup {Anyone}
      BY FS_Singleton
    <3> QED  BY <3>1, FS_AddElement
  <2>5. IsFiniteSet(C!Keys)
    BY <2>3, <2>4, FS_Product DEF C!Keys
  <2>6. IsFiniteSet(loaded)
    BY <1>1, <2>5, FS_Subset
  <2> QED  BY <2>2, <2>6, FS_Surjection
<1>4. admissionTrail = C!SetToSeq(all)
  BY <1>1, <1>2 DEF Entries
<1>5. \A x \in all : \E key \in loaded : x = [key |-> key, record |-> admissions[key]]
  BY <1>2
<1>6. \A key \in loaded : key \in C!Keys /\ admissions[key] \in Records \cup {None}
  BY <1>1
<1>7. \A x \in all : /\ x \in Told /\ admissions[x.key] = x.record
                     /\ \A y \in all : x.key = y.key => x = y
  BY <1>5, <1>6 DEF Told
<1>8. \A key \in C!Keys : admissions[key] # None => \E x \in all : x.key = key
  <2> SUFFICES ASSUME NEW key \in C!Keys, admissions[key] # None
               PROVE  \E x \in all : x.key = key
    OBVIOUS
  <2>1. [key |-> key, record |-> admissions[key]] \in all
    BY <1>1, <1>2
  <2> QED  BY <2>1
<1>9. Telling(all)
  BY <1>7, <1>8 DEF Telling
<1>10. PICK n \in Nat : Lists(admissionTrail, n, all)
  BY <1>3, <1>4, Listed
<1> QED  BY <1>9, <1>10, OnceEach

\* A row of the table is written with its revision, and only where it changes.
LEMMA UpsertReplays ==
    ASSUME TrailInv, NEW key \in C!Keys, C!upsertAdmission(key)
    PROVE  TrailInv'
<1>1. PICK record : record = seed[key]
  OBVIOUS
<1>2. PICK entry : entry = [key |-> key, record |-> record]
  OBVIOUS
<1>3. /\ admissions[key] # record
      /\ admissions' = [admissions EXCEPT ![key] = record]
      /\ admissionTrail' = Append(admissionTrail, entry)
      /\ UNCHANGED <<seed, config, configTrail, rules, ruleTrail>>
  BY <1>1, <1>2 DEF C!upsertAdmission, C!rowVars, C!ruleVars
<1>4. record \in Records \cup {None}
  BY <1>1, ConsoleAssumption DEF TrailInv, C!BoundsAssumption, C!Keys
<1>5. entry \in Told /\ entry.key = key /\ entry.record = record
  BY <1>2, <1>4 DEF Told
<1>6. /\ admissions' \in [C!Keys -> Records \cup {None}]
      /\ admissionTrail' \in Seq(Told)
  BY <1>3, <1>4, <1>5 DEF TrailInv
<1>7. PICK n : n = Len(admissionTrail) + 1
  OBVIOUS
<1>8. /\ n \in Nat \ {0} /\ DOMAIN admissionTrail = 1..n-1 /\ DOMAIN admissionTrail' = 1..n
      /\ admissionTrail'[n] = entry
      /\ \A i \in 1..n-1 : admissionTrail'[i] = admissionTrail[i] /\ admissionTrail[i] \in Told
  BY <1>3, <1>5, <1>7 DEF TrailInv
<1>9. /\ admissions'[key] = record
      /\ \A k \in C!Keys : k # key => admissions'[k] = admissions[k]
  BY <1>3 DEF TrailInv
<1>10. C!AdmissionsReplay
  BY DEF TrailInv, C!TrailsReplay
<1>11. \A i \in 1..n-1 :
           C!Latest(i) => admissionTrail[i].record = admissions[admissionTrail[i].key]
  BY <1>8, <1>10 DEF C!AdmissionsReplay
<1>12. C!AdmissionsReplay'
  <2>1. \A k \in C!Keys : admissions'[k] # None =>
            \E i \in DOMAIN admissionTrail' : admissionTrail'[i].key = k
    <3> SUFFICES ASSUME NEW k \in C!Keys, admissions'[k] # None
                 PROVE  \E i \in DOMAIN admissionTrail' : admissionTrail'[i].key = k
      OBVIOUS
    <3>1. CASE k = key
      <4>1. n \in DOMAIN admissionTrail' /\ admissionTrail'[n].key = k
        BY <1>5, <1>8, <3>1
      <4> QED  BY <4>1
    <3>2. CASE k # key
      <4>1. PICK i \in 1..n-1 : admissionTrail[i].key = k
        BY <1>8, <1>9, <1>10, <3>2 DEF C!AdmissionsReplay
      <4> QED  BY <1>8, <4>1
    <3> QED  BY <3>1, <3>2
  <2>2. ASSUME NEW i \in DOMAIN admissionTrail',
               \A j \in DOMAIN admissionTrail' :
                   j > i => admissionTrail'[j].key # admissionTrail'[i].key
        PROVE  admissionTrail'[i].record = admissions'[admissionTrail'[i].key]
    <3>1. CASE i = n
      BY <1>5, <1>8, <1>9, <3>1
    <3>2. CASE i \in 1..n-1
      <4>1. C!Latest(i)
        BY <1>8, <2>2, <3>2 DEF C!Latest
      <4>2. admissionTrail[i].key # key /\ admissionTrail[i].key \in C!Keys
        BY <1>5, <1>8, <2>2, <3>2 DEF Told
      <4> QED  BY <1>8, <1>9, <1>11, <3>2, <4>1, <4>2
    <3> QED  BY <1>8, <3>1, <3>2
  <2>3. ASSUME NEW i \in DOMAIN admissionTrail', NEW j \in DOMAIN admissionTrail',
               i < j, admissionTrail'[i].key = admissionTrail'[j].key,
               \A k \in i+1..j-1 : admissionTrail'[k].key # admissionTrail'[i].key
        PROVE  admissionTrail'[i].record # admissionTrail'[j].record
    <3>0. i \in 1..n-1 /\ j \in 1..n
      BY <1>8, <2>3
    <3>1. CASE j = n
      <4>1. C!Latest(i)
        BY <1>8, <2>3, <3>0, <3>1 DEF C!Latest
      <4>2. admissionTrail[i].key = key
        BY <1>5, <1>8, <2>3, <3>0, <3>1
      <4>3. admissionTrail[i].record # record
        BY <1>3, <1>11, <3>0, <4>1, <4>2
      <4> QED  BY <1>5, <1>8, <3>0, <3>1, <4>3
    <3>2. CASE j \in 1..n-1
      <4>1. \A k \in i+1..j-1 : k \in 1..n-1
        BY <1>8, <3>0, <3>2
      <4>2. \A k \in i+1..j-1 : admissionTrail[k].key # admissionTrail[i].key
        BY <1>8, <2>3, <3>0, <4>1
      <4>3. admissionTrail[i].key = admissionTrail[j].key
        BY <1>8, <2>3, <3>0, <3>2
      <4> QED  BY <1>8, <1>10, <2>3, <3>0, <3>2, <4>2, <4>3 DEF C!AdmissionsReplay
    <3> QED  BY <1>8, <3>0, <3>1, <3>2
  <2> QED  BY <2>1, <2>2, <2>3 DEF C!AdmissionsReplay, C!Latest
<1>13. C!ConfigReplays' /\ C!RulesReplay'
  BY <1>3 DEF TrailInv, C!TrailsReplay, C!ConfigReplays, C!RulesReplay
<1> QED  BY <1>3, <1>6, <1>12, <1>13 DEF TrailInv, C!TrailsReplay

\* The configuration is written with a revision that says the same, and says something
\* new unless somebody saved.
LEMMA WrittenReplays ==
    ASSUME ConfigInv, TrailInv, NEW new, NEW revision,
           config' = new, configTrail' = Append(configTrail, revision),
           <<revision.version, revision.status, revision.pinned>>
               = <<new.version, new.status, new.pinned>>,
           new.status = "draft" \/ (config # None /\ new.status # config.status),
           UNCHANGED <<seed, admissions, admissionTrail, rules, ruleTrail>>
    PROVE  TrailInv'
<1>1. PICK n : n = Len(configTrail)
  OBVIOUS
<1>2. PICK E : E = {configTrail[i] : i \in DOMAIN configTrail}
  OBVIOUS
<1>3. configTrail \in Seq(E)
  BY <1>2 DEF ConfigInv
<1>4. /\ n \in Nat /\ Len(configTrail') = n + 1 /\ configTrail' # <<>>
      /\ configTrail'[n + 1] = revision
      /\ \A i \in 1..n : configTrail'[i] = configTrail[i]
      /\ configTrail # <<>> => n > 0
  BY <1>1, <1>3
<1>5. C!ConfigReplays
  BY DEF TrailInv, C!TrailsReplay
<1>6. C!Last(configTrail') = revision
  BY <1>4 DEF C!Last
<1>7. ASSUME NEW i \in 2..n + 1
      PROVE  \/ configTrail'[i].status = "draft"
             \/ configTrail'[i].status # configTrail'[i-1].status
  <2>1. n > 0 /\ config # None
    BY <1>1, <1>3, <1>4, <1>7 DEF ConfigInv
  <2>2. CASE i = n + 1
    <3>1. configTrail'[i-1] = configTrail[n]
      BY <1>4, <2>1, <2>2
    <3>2. configTrail[n].status = config.status
      BY <1>1, <1>5, <2>1 DEF C!ConfigReplays, C!Last
    <3> QED  BY <1>4, <2>2, <3>1, <3>2
  <2>3. CASE i \in 2..n
    <3>1. i \in 1..n /\ i-1 \in 1..n
      BY <1>4, <2>3
    <3> QED  BY <1>1, <1>4, <1>5, <2>1, <2>3, <3>1 DEF C!ConfigReplays
  <2> QED  BY <1>4, <2>2, <2>3
<1>8. C!ConfigReplays'
  BY <1>4, <1>6, <1>7 DEF C!ConfigReplays
<1>9. C!AdmissionsReplay' /\ C!RulesReplay'
  BY DEF TrailInv, C!TrailsReplay, C!AdmissionsReplay, C!Latest, C!RulesReplay
<1> QED  BY <1>8, <1>9 DEF TrailInv, C!TrailsReplay

\* Steps that leave the configuration, the table and the rules alone.
LEMMA TrailsStay ==
    ASSUME TrailInv, seed' \in Seeds,
           UNCHANGED <<admissions, admissionTrail, config, configTrail, rules, ruleTrail>>
    PROVE  TrailInv'
BY DEF TrailInv, C!TrailsReplay, C!ConfigReplays, C!AdmissionsReplay, C!Latest, C!RulesReplay

\* Save, enable, resume and pause write their revisions.
LEMMA PromiseReplays ==
    ASSUME ConfigInv, TrailInv, C!Promise
    PROVE  TrailInv'
<1>0. /\ config \in ConfigRow \cup {None}
      /\ editor \in [Editors -> Passed \cup {Idle}]
  BY DEF ConfigInv
<1>1. ASSUME NEW spec \in C!Specs, C!UpsertPublishConfigDraft(spec) PROVE TrailInv'
  <2>1. PICK new : new = C!draft(spec)
    OBVIOUS
  <2>2. PICK revision : revision = C!Revision(IF config = None THEN "create" ELSE "update", new)
    OBVIOUS
  <2>3. /\ config' = new /\ configTrail' = Append(configTrail, revision)
        /\ UNCHANGED <<seed, admissions, admissionTrail, rules, ruleTrail>>
    BY <1>1, <2>1, <2>2
       DEF C!UpsertPublishConfigDraft, C!Audit, C!tableVars, C!ruleVars
  <2>4. <<revision.version, revision.status, revision.pinned>>
            = <<new.version, new.status, new.pinned>>
    BY <2>2 DEF C!Revision
  <2>5. new.status = "draft"
    BY <1>0, <2>1 DEF C!draft, ConfigRow
  <2> QED  BY <2>3, <2>4, <2>5, WrittenReplays
<1>2. ASSUME NEW e \in Editors, C!EnablePublishConfig(e) PROVE TrailInv'
  <2>0. config # None /\ config \in ConfigRow
    BY <1>0, <1>2 DEF ConfigInv, C!EnablePublishConfig
  <2>1. UNCHANGED <<seed, admissions, admissionTrail, rules, ruleTrail>>
    BY <1>2 DEF C!EnablePublishConfig, C!tableVars, C!ruleVars
  <2>2. CASE config.status = "enabled"
    <3>1. UNCHANGED <<config, configTrail>>
      BY <1>2, <2>2 DEF C!EnablePublishConfig
    <3>2. seed' \in Seeds
      BY <2>1 DEF TrailInv
    <3> QED  BY <2>1, <3>1, <3>2, TrailsStay
  <2>3. CASE config.status # "enabled"
    <3>1. PICK new : new = C!pin(e)
      OBVIOUS
    <3>2. PICK revision :
             revision = C!Revision(IF config.status = "paused" THEN "resume" ELSE "enable", new)
      OBVIOUS
    <3>3. config' = new /\ configTrail' = Append(configTrail, revision)
      BY <1>2, <2>3, <3>1, <3>2 DEF C!EnablePublishConfig, C!Audit
    <3>4. <<revision.version, revision.status, revision.pinned>>
              = <<new.version, new.status, new.pinned>>
      BY <3>2 DEF C!Revision
    <3>5. new.status = "enabled"
      BY <2>0, <3>1 DEF C!pin, ConfigRow
    <3>6. new.status # config.status
      BY <2>3, <3>5
    <3> QED  BY <2>0, <2>1, <3>3, <3>4, <3>6, WrittenReplays
  <2> QED  BY <2>2, <2>3
<1>3. ASSUME C!PausePublishConfig PROVE TrailInv'
  <2>1. PICK new : new = [config EXCEPT !.status = "paused"]
    OBVIOUS
  <2>2. PICK revision : revision = C!Revision("pause", new)
    OBVIOUS
  <2>3. /\ config' = new /\ configTrail' = Append(configTrail, revision)
        /\ UNCHANGED <<seed, admissions, admissionTrail, rules, ruleTrail>>
        /\ config # None /\ config.status = "enabled"
    BY <1>3, <2>1, <2>2
       DEF C!PausePublishConfig, C!AuditPause, C!Audit, C!tableVars, C!ruleVars
  <2>4. <<revision.version, revision.status, revision.pinned>>
            = <<new.version, new.status, new.pinned>>
    BY <2>2 DEF C!Revision
  <2>5. new.status = "paused"
    BY <1>0, <2>1, <2>3 DEF ConfigRow
  <2>6. new.status # config.status
    BY <2>3, <2>5
  <2> QED  BY <2>3, <2>4, <2>6, WrittenReplays
<1>4. ASSUME NEW e \in Editors, NEW facts \in C!Facts, NEW verdictOf \in C!verdicts,
             C!handlePublishConfigEnable(e, verdictOf, facts)
      PROVE  TrailInv'
  <2>1. UNCHANGED <<seed, admissions, admissionTrail, config, configTrail, rules, ruleTrail>>
    BY <1>4 DEF C!handlePublishConfigEnable, C!tableVars, C!ruleVars
  <2>2. seed' \in Seeds
    BY <2>1 DEF TrailInv
  <2> QED  BY <2>1, <2>2, TrailsStay
<1>5. ASSUME C!NextDay PROVE TrailInv'
  <2>1. UNCHANGED <<seed, admissions, admissionTrail, config, configTrail, rules, ruleTrail>>
    BY <1>5 DEF C!NextDay, C!rowVars, C!tableVars, C!ruleVars
  <2>2. seed' \in Seeds
    BY <2>1 DEF TrailInv
  <2> QED  BY <2>1, <2>2, TrailsStay
<1> QED  BY <1>1, <1>2, <1>3, <1>4, <1>5 DEF C!Promise, C!handlePublishConfigPut

\* The rules are written with the revision that tells of it.
LEMMA RulesWritten ==
    ASSUME TrailInv, NEW revision \in Ruled, ruleTrail' = Append(ruleTrail, revision),
           rules' = IF revision.set THEN revision.revision ELSE None,
           UNCHANGED <<seed, admissions, admissionTrail, config, configTrail>>
    PROVE  TrailInv'
<1>1. ruleTrail' \in Seq(Ruled) /\ ruleTrail' # <<>> /\ C!Last(ruleTrail') = revision
  BY DEF TrailInv, C!Last
<1>2. C!RulesReplay'
  BY <1>1 DEF C!RulesReplay
<1>3. C!ConfigReplays' /\ C!AdmissionsReplay'
  BY DEF TrailInv, C!TrailsReplay, C!AdmissionsReplay, C!Latest, C!ConfigReplays
<1> QED  BY <1>1, <1>2, <1>3 DEF TrailInv, C!TrailsReplay

\* The two handlers of the rules, a refused save included.
LEMMA RulesKeep ==
    ASSUME TrailInv, C!UpsertCampaignRules \/ C!DeleteCampaignRules
    PROVE  TrailInv'
<1>0. rules \in Nat \cup {None}
  <2>1. ruleTrail \in Seq(Ruled)
        /\ rules = IF ruleTrail # <<>> /\ C!Last(ruleTrail).set THEN C!Last(ruleTrail).revision
                   ELSE None
    BY DEF TrailInv, C!TrailsReplay, C!RulesReplay
  <2>2. ruleTrail # <<>> => C!Last(ruleTrail) \in Ruled
    BY <2>1 DEF C!Last
  <2> QED  BY <2>1, <2>2 DEF Ruled
<1>1. UNCHANGED <<seed, admissions, admissionTrail, config, configTrail>>
  BY DEF C!UpsertCampaignRules, C!DeleteCampaignRules, C!tableVars, C!rowVars
<1>2. CASE UNCHANGED <<rules, ruleTrail>>
  <2>1. seed' \in Seeds
    BY <1>1 DEF TrailInv
  <2> QED  BY <1>1, <1>2, <2>1, TrailsStay
<1>3. ASSUME NEW number \in Nat, rules' = number,
             ruleTrail' = Append(ruleTrail, [revision |-> number, set |-> TRUE])
      PROVE  TrailInv'
  BY <1>1, <1>3, RulesWritten DEF Ruled
<1>4. ASSUME NEW number \in Nat, rules' = None,
             ruleTrail' = Append(ruleTrail, [revision |-> number, set |-> FALSE])
      PROVE  TrailInv'
  BY <1>1, <1>4, RulesWritten DEF Ruled
<1>5. CASE C!UpsertCampaignRules
  <2>1. PICK number : number = IF rules = None THEN 1 ELSE rules + 1
    OBVIOUS
  <2>2. number \in Nat
    BY <1>0, <2>1
  <2>3. \/ UNCHANGED <<rules, ruleTrail>>
        \/ /\ rules' = number
           /\ ruleTrail' = Append(ruleTrail, [revision |-> number, set |-> TRUE])
    BY <1>5, <2>1 DEF C!UpsertCampaignRules
  <2> QED  BY <1>2, <1>3, <2>2, <2>3
<1>6. CASE C!DeleteCampaignRules
  <2>1. PICK number : number = rules + 1
    OBVIOUS
  <2>2. /\ number \in Nat /\ rules' = None
        /\ ruleTrail' = Append(ruleTrail, [revision |-> number, set |-> FALSE])
    BY <1>0, <1>6, <2>1 DEF C!DeleteCampaignRules
  <2> QED  BY <1>4, <2>2
<1> QED  BY <1>5, <1>6

\* Initially nothing is told, or the table as it was loaded.
LEMMA TrailInitInv == C!ConfigInit => TrailInv
<1> SUFFICES ASSUME C!ConfigInit PROVE TrailInv
  OBVIOUS
<1>1. seed \in Seeds /\ seed \in [C!Keys -> Records \cup {None}]
  BY ConsoleAssumption DEF C!ConfigInit, C!BoundsAssumption, C!Keys
<1>2. /\ config = None /\ rules = None /\ ruleTrail = <<>>
  BY DEF C!ConfigInit
<1>3. C!ConfigReplays /\ C!RulesReplay /\ ruleTrail \in Seq(Ruled)
  BY <1>2 DEF C!ConfigReplays, C!RulesReplay
<1>4. /\ admissions \in [C!Keys -> Records \cup {None}]
      /\ admissionTrail \in Seq(Told) /\ C!AdmissionsReplay
  <2>1. CASE topic = "promises"
    <3>1. admissions = seed
          /\ admissionTrail = C!SetToSeq({[key |-> key, record |-> seed[key]] :
                                             key \in {k \in C!Keys : seed[k] # None}})
      BY <2>1 DEF C!ConfigInit
    <3>2. admissionTrail = C!SetToSeq(Entries)
      BY <3>1 DEF Entries
    <3>3. admissions \in [C!Keys -> Records \cup {None}]
      BY <1>1, <3>1
    <3> QED  BY <3>2, <3>3, LoadedReplays
  <2>2. CASE topic # "promises"
    <3>1. admissions = [key \in C!Keys |-> None] /\ admissionTrail = <<>>
      BY <2>2 DEF C!ConfigInit
    <3>2. admissionTrail \in Seq(Told) /\ DOMAIN admissionTrail = {}
      BY <3>1
    <3> QED  BY <3>1, <3>2 DEF C!AdmissionsReplay
  <2> QED  BY <2>1, <2>2
<1> QED  BY <1>1, <1>3, <1>4 DEF TrailInv, C!TrailsReplay

\* Every step keeps the trails telling.
LEMMA TrailNextInv ==
    ASSUME ConfigInv, TrailInv, [C!ConfigNext]_C!configVars
    PROVE  TrailInv'
<1>1. ASSUME NEW next \in Seeds, C!Release(next) PROVE TrailInv'
  BY <1>1, TrailsStay DEF C!Release, C!rowVars, C!ruleVars
<1>2. CASE C!LoadAdmissionSeed
  BY <1>2, UpsertReplays DEF C!LoadAdmissionSeed
<1>3. CASE UNCHANGED C!configVars
  BY <1>3, TrailsStay DEF C!configVars, C!ruleVars, TrailInv
<1> QED  BY <1>1, <1>2, <1>3, PromiseReplays, RulesKeep DEF C!ConfigNext

TrailHeld == focus = "campaign" => ConfigInv /\ TrailInv

\* Nothing is rewritten silently: the last revision of the configuration, of each row of
\* the channel table and of the rules is the row as it is, whatever failed or raced, and
\* no revision repeats the state of the one before unless somebody saved (migration 0031,
\* store_channel_admission.go, 0005).
THEOREM NothingIsRewrittenSilently ==
    ASSUME NoneIsNoConfig
    PROVE  Spec => []TrailsReplay
<1>1. TrailHeld => TrailsReplay
  BY DEF TrailHeld, TrailInv, TrailsReplay
<1>2. Init => TrailHeld
  BY ConfigInitInv, TrailInitInv DEF Init, TrailHeld
<1>3. TrailHeld /\ [Next]_allVars => TrailHeld'
  <2> SUFFICES ASSUME TrailHeld, [Next]_allVars, focus' = "campaign"
               PROVE  ConfigInv' /\ TrailInv'
    BY DEF TrailHeld
  <2>1. ConfigInv /\ TrailInv /\ [C!ConfigNext]_C!configVars
    BY StepsOf DEF TrailHeld
  <2> QED  BY <2>1, ConfigNextInv, TrailNextInv
<1> QED  BY <1>1, <1>2, <1>3, PTL DEF Spec

-----------------------------------------------------------------------------
(* Members and agents: the relation a sub-account is opened under *)

Roles == S!IssuedRoles \cup {"agent"}

MemberRow == [role : Roles, scope : Shops \cup {None}, enabled : BOOLEAN]
Relation  == [agent : Principals, revoked : BOOLEAN]
Entry    == [member : Principals, by : Principals, role : {"org_owner", "agent"},
              relation : Nat \cup {None}, gone : SUBSET Nat]

\* What a request may hold, by the step it is about to take.
Change  == [at : {"reread"}, who : Principals, role : Roles \cup {None},
            enabled : BOOLEAN \cup {None}, scope : [set : Shops \cup {None}] \cup {None},
            goes : {"done", "relate"}]
Write   == [at : {"write"}, who : Principals, row : MemberRow, goes : {"done", "relate"}]
Take    == [at : {"ensure", "join", "relate"}, who : Principals]
Revoke  == [at : {"tombstone", "disable"}, relation : Nat]
Opening == [at : {"authorise", "name", "issue"}, by : Principals,
            role : {"org_owner", "agent"}, relation : Nat \cup {None}, gone : SUBSET Nat]
HandTask    == Change \cup Write \cup Take \cup Revoke \cup Opening

\* What the theorems assume of the constants: patches ask for roles and shops there
\* are, and None is neither a row nor a position.
PatchesAreRequests ==
    Patches \subseteq [role : S!IssuedRoles \cup {None}, enabled : BOOLEAN \cup {None},
                       scope : Shops \cup {None}]
NoneIsNoMember == None \notin MemberRow /\ None \notin Nat

-----------------------------------------------------------------------------

StaffTyped ==
    /\ members \in [Principals -> MemberRow \cup {None}]
    /\ relations \in Seq(Relation)
    /\ trail \subseteq Entry
    /\ hand \in [Requests -> HandTask \cup {Idle}]

\* What holds of a request between two of its statements, whatever others do.
Holding(task) ==
    /\ task \in Change => members[task.who] # None
    /\ task \in Revoke => task.relation \in S!Relations
    /\ task \in Opening =>
         /\ \A i \in task.gone : i \in S!Relations /\ relations[i].revoked
         /\ task.at \in {"authorise", "name"} => task.relation = None
         /\ task.at = "name" => task.role = "agent"
         /\ task.at = "issue" =>
               IF task.role = "agent"
               THEN /\ task.relation \in S!Relations /\ task.relation \notin task.gone
                    /\ relations[task.relation].agent = task.by
               ELSE task.relation = None

\* What holds of an entry of the trail.
OnRecord(t) ==
    /\ members[t.member] # None
    /\ IF t.role = "agent"
       THEN /\ t.relation \in S!Relations /\ t.relation \notin t.gone
            /\ relations[t.relation].agent = t.by
       ELSE t.relation = None

AllHolding == \A r \in Requests : hand[r] # Idle => Holding(hand[r])

MembersInv ==
    /\ StaffTyped
    /\ AllHolding
    /\ \A t \in trail : OnRecord(t)
    /\ S!OneRecordPerAccount

\* Nobody ceases to be a member; a relation keeps its agent, and a revoked one
\* stays revoked.
StaffKept ==
    /\ \A p \in Principals : members[p] # None => members'[p] # None
    /\ \A i \in S!Relations : /\ i \in S!Relations' /\ relations'[i].agent = relations[i].agent
                              /\ relations[i].revoked => relations'[i].revoked

-----------------------------------------------------------------------------

\* A request's next step tells which kind of task it holds.
LEMMA KindOf ==
    ASSUME NEW h \in HandTask
    PROVE  /\ h.at = "reread" => h \in Change
           /\ h.at = "write" => h \in Write
           /\ h.at \in {"ensure", "join", "relate"} => h \in Take
           /\ h.at \in {"tombstone", "disable"} => h \in Revoke
           /\ h.at \in {"authorise", "name", "issue"} => h \in Opening
           /\ h \in Change => h.at = "reread"
           /\ h \in Write => h.at = "write"
           /\ h \in Take => h.at \in {"ensure", "join", "relate"}
           /\ h \in Revoke => h.at \in {"tombstone", "disable"}
           /\ h \in Opening => h.at \in {"authorise", "name", "issue"}
BY DEF HandTask, Change, Write, Take, Revoke, Opening

\* What a request carries stays sound while others write.
LEMMA SoundStays ==
    ASSUME StaffKept, NEW h \in HandTask, Holding(h)
    PROVE  Holding(h)'
<1>1. h \in Change => h.who \in Principals
  BY DEF Change
<1>2. h \in Change => members'[h.who] # None
  BY <1>1 DEF Holding, StaffKept
<1>3. h \in Revoke => h.relation \in S!Relations'
  BY DEF Holding, StaffKept
<1>4. h \in Opening => \A i \in h.gone : i \in S!Relations' /\ relations'[i].revoked
  BY DEF Holding, StaffKept
<1>5. h \in Opening /\ h.at = "issue" =>
         IF h.role = "agent"
         THEN /\ h.relation \in S!Relations' /\ h.relation \notin h.gone
              /\ relations'[h.relation].agent = h.by
         ELSE h.relation = None
  BY DEF Holding, StaffKept
<1>6. h \in Opening =>
         /\ h.at \in {"authorise", "name"} => h.relation = None
         /\ h.at = "name" => h.role = "agent"
  BY DEF Holding
<1> QED  BY <1>2, <1>3, <1>4, <1>5, <1>6 DEF Holding, Change, Revoke, Opening

\* So does what the trail has on record.
LEMMA RecordedStays ==
    ASSUME StaffKept, NEW t \in Entry, OnRecord(t)
    PROVE  OnRecord(t)'
<1>1. t.member \in Principals
  BY DEF Entry
<1> QED  BY <1>1 DEF OnRecord, StaffKept

\* A step of one request leaves the tasks of the others sound.
LEMMA OneMoves ==
    ASSUME MembersInv, StaffKept, NEW r \in Requests, NEW h \in HandTask \cup {Idle},
           hand' = [hand EXCEPT ![r] = h], h # Idle => Holding(h)'
    PROVE  hand' \in [Requests -> HandTask \cup {Idle}] /\ AllHolding'
<1>1. hand \in [Requests -> HandTask \cup {Idle}]
  BY DEF MembersInv, StaffTyped
<1>2. hand' \in [Requests -> HandTask \cup {Idle}]
  BY <1>1
<1>3. ASSUME NEW q \in Requests, NEW g, g = hand'[q], g # Idle PROVE Holding(g)'
  <2>1. CASE q = r
    BY <1>1, <1>3, <2>1
  <2>2. CASE q # r
    <3>1. g = hand[q] /\ g \in HandTask
      BY <1>1, <1>3, <2>2
    <3>2. Holding(g)
      BY <1>3, <3>1 DEF MembersInv, AllHolding
    <3> QED  BY <3>1, <3>2, SoundStays
  <2> QED  BY <2>1, <2>2
<1>4. AllHolding'
  <2> SUFFICES ASSUME NEW q \in Requests', (hand[q] # Idle)' PROVE (Holding(hand[q]))'
    BY DEF AllHolding
  <2>1. PICK g : g = hand'[q]
    OBVIOUS
  <2>2. Holding(g)'
    BY <1>3, <2>1
  <2> QED  BY <2>1, <2>2 DEF Holding
<1> QED  BY <1>2, <1>4

\* What is left to show of a step that opens no sub-account.
LEMMA StepOfOne ==
    ASSUME MembersInv, StaffKept, NEW r \in Requests, NEW h \in HandTask \cup {Idle},
           hand' = [hand EXCEPT ![r] = h], h # Idle => Holding(h)',
           members' \in [Principals -> MemberRow \cup {None}],
           relations' \in Seq(Relation), trail' = trail
    PROVE  MembersInv'
<1>1. StaffTyped' /\ AllHolding'
  BY OneMoves DEF MembersInv, StaffTyped, HandTask, Change, Write, Take, Revoke, Opening,
     MemberRow,
     Relation, Entry, Roles
<1>2. ASSUME NEW t \in trail' PROVE OnRecord(t)'
  BY RecordedStays DEF MembersInv, StaffTyped
<1>3. S!OneRecordPerAccount'
  BY DEF MembersInv, S!OneRecordPerAccount
<1> QED  BY <1>1, <1>2, <1>3 DEF MembersInv

\* A step that leaves rows and relations alone loses nobody.
LEMMA NothingLost ==
    ASSUME UNCHANGED <<members, relations>>
    PROVE  StaffKept
BY DEF StaffKept, S!Relations

\* Initially nobody has done anything.
LEMMA MembersInitInv == S!MembersInit => MembersInv
<1> SUFFICES ASSUME S!MembersInit PROVE MembersInv
  OBVIOUS
<1>1. /\ relations \in Seq(Relation) /\ trail = {}
      /\ members \in [Principals -> MemberRow \cup {None}]
      /\ hand = [r \in Requests |-> Idle]
  BY DEF S!MembersInit
<1> QED  BY <1>1 DEF MembersInv, StaffTyped, AllHolding, S!OneRecordPerAccount

\* The next step of a task is a task of the same kind.
LEMMA Advances ==
    ASSUME NEW h \in Opening, NEW step \in {"authorise", "name", "issue"}, NEW g,
           g = [h EXCEPT !.at = step]
    PROVE  /\ g \in Opening /\ g.at = step /\ g.by = h.by /\ g.role = h.role
           /\ g.relation = h.relation /\ g.gone = h.gone
BY DEF Opening

\* A member who comes in new.
LEMMA MemberTyped ==
    ASSUME NEW role \in Roles, NEW scope \in Shops \cup {None}
    PROVE  S!member(role, scope) \in MemberRow
BY DEF S!member, MemberRow

\* The relations there are are naturals, each with its agent.
LEMMA RelationAt ==
    ASSUME StaffTyped, NEW i \in S!Relations
    PROVE  i \in Nat /\ relations[i] \in Relation /\ i \in 1..Len(relations)
BY DEF StaffTyped, S!Relations

-----------------------------------------------------------------------------

\* One step per action: whatever order requests take their reads and writes in,
\* what they carry stays sound and the trail stays justified.
LEMMA MembersStepInv ==
    ASSUME PatchesAreRequests, NoneIsNoMember, S!RelationsAssumption, MembersInv, S!MembersNext
    PROVE  MembersInv'
<1>0. /\ members \in [Principals -> MemberRow \cup {None}] /\ relations \in Seq(Relation)
      /\ hand \in [Requests -> HandTask \cup {Idle}] /\ trail \subseteq Entry
      /\ Agents \subseteq Principals /\ None \notin MemberRow
  BY DEF MembersInv, StaffTyped, S!RelationsAssumption, NoneIsNoMember
<1>1. ASSUME NEW r \in Requests, NEW step, S!At(r, step), NEW h, h = hand[r]
      PROVE  h \in HandTask /\ h.at = step /\ Holding(h)
  BY <1>0, <1>1 DEF S!At, MembersInv, AllHolding
<1>2. ASSUME NEW p \in Principals, NEW row \in MemberRow,
             members' = [members EXCEPT ![p] = row], relations' = relations
      PROVE  StaffKept /\ members' \in [Principals -> MemberRow \cup {None}]
  BY <1>0, <1>2 DEF StaffKept, S!Relations
<1>3. ASSUME NEW p \in Principals, NEW role \in S!IssuedRoles, NEW scope \in Shops \cup {None},
             S!handleMemberCreate(p, role, scope)
      PROVE  MembersInv'
  <2>1. PICK row : row = S!member(role, scope)
    OBVIOUS
  <2>2. row \in MemberRow
    BY <2>1, MemberTyped DEF Roles
  <2>3. members' = [members EXCEPT ![p] = row] /\ UNCHANGED <<relations, trail, hand>>
    BY <1>3, <2>1 DEF S!handleMemberCreate
  <2>4. StaffKept /\ members' \in [Principals -> MemberRow \cup {None}]
    BY <1>2, <2>2, <2>3
  <2>5. AllHolding'
    <3> SUFFICES ASSUME NEW q \in Requests, hand[q] # Idle PROVE (Holding(hand[q]))'
      BY <2>3 DEF AllHolding
    <3>1. PICK g : g = hand[q]
      OBVIOUS
    <3>2. g \in HandTask /\ Holding(g)
      BY <1>0, <3>1 DEF MembersInv, AllHolding
    <3>3. Holding(g)'
      BY <2>4, <3>2, SoundStays
    <3> QED  BY <2>3, <3>1, <3>3 DEF Holding
  <2>6. \A t \in trail' : OnRecord(t)'
    BY <1>0, <2>3, <2>4, RecordedStays DEF MembersInv
  <2>7. StaffTyped' /\ S!OneRecordPerAccount'
    BY <1>0, <2>3, <2>4 DEF MembersInv, StaffTyped, S!OneRecordPerAccount, HandTask, Change,
       Write, Take,
       Revoke, Opening, MemberRow, Relation, Entry, Roles
  <2> QED  BY <2>5, <2>6, <2>7 DEF MembersInv
<1>4. ASSUME NEW r \in Requests, NEW p \in Principals, NEW patch \in Patches,
             S!handleMemberPatch(r, p, patch)
      PROVE  MembersInv'
  <2>1. PICK target : target = IF patch.role = None THEN members[p].role ELSE patch.role
    OBVIOUS
  <2>2. PICK shop : shop = S!keptScope(members[p], target, patch.scope)
    OBVIOUS
  <2>3. PICK h : h = S!changing(p, patch.role, patch.enabled, [set |-> shop], "done")
    OBVIOUS
  <2>4. /\ members[p] # None /\ hand' = [hand EXCEPT ![r] = h]
        /\ UNCHANGED <<members, relations, trail>>
    BY <1>4, <2>1, <2>2, <2>3 DEF S!handleMemberPatch, S!Hold
  <2>5. /\ patch.role \in Roles \cup {None} /\ patch.enabled \in BOOLEAN \cup {None}
        /\ patch.scope \in Shops \cup {None}
    BY DEF PatchesAreRequests, Roles
  <2>6. shop \in Shops \cup {None}
    BY <1>0, <2>2, <2>4, <2>5 DEF S!keptScope, MemberRow
  <2>7. h \in Change /\ h.who = p
    BY <2>3, <2>5, <2>6 DEF S!changing, Change
  <2>8. h \in HandTask /\ StaffKept /\ Holding(h)'
    <3>1. h.at = "reread" /\ h \in HandTask
      BY <2>7 DEF Change, HandTask
    <3>2. h \notin Revoke /\ h \notin Opening
      BY <3>1 DEF Revoke, Opening
    <3>3. Holding(h)
      BY <2>4, <2>7, <3>2 DEF Holding
    <3> QED  BY <2>4, <3>1, <3>3, NothingLost, SoundStays
  <2> QED  BY <1>0, <2>4, <2>8, StepOfOne
<1>5. ASSUME NEW r \in Requests, S!ReadMember(r) PROVE MembersInv'
  <2>1. PICK k : k = hand[r]
    OBVIOUS
  <2>2. S!At(r, "reread")
    BY <1>5 DEF S!ReadMember
  <2>3. k \in Change /\ Holding(k)
    BY <1>1, <2>1, <2>2, KindOf
  <2>4. PICK row : row = members[k.who]
    OBVIOUS
  <2>5. row \in MemberRow /\ k.who \in Principals
    BY <1>0, <2>3, <2>4 DEF Holding, Change
  <2>6. PICK new : new = [role    |-> IF k.role = None THEN row.role ELSE k.role,
                          enabled |-> IF k.enabled = None THEN row.enabled ELSE k.enabled,
                          scope   |-> IF k.scope = None THEN row.scope ELSE k.scope.set]
    OBVIOUS
  <2>7. new \in MemberRow
    <3>1. IF k.role = None THEN row.role \in Roles ELSE k.role \in Roles
      BY <2>3, <2>5 DEF Change, MemberRow
    <3>2. IF k.enabled = None THEN row.enabled \in BOOLEAN ELSE k.enabled \in BOOLEAN
      BY <2>3, <2>5 DEF Change, MemberRow
    <3>3. IF k.scope = None THEN row.scope \in Shops \cup {None}
                            ELSE k.scope.set \in Shops \cup {None}
      BY <2>3, <2>5 DEF Change, MemberRow
    <3> QED  BY <2>6, <3>1, <3>2, <3>3 DEF MemberRow
  <2>8. PICK h : h = [at |-> "write", who |-> k.who, row |-> new, goes |-> k.goes]
    OBVIOUS
  <2>9. hand' = [hand EXCEPT ![r] = h] /\ UNCHANGED <<members, relations, trail>>
    BY <1>5, <2>1, <2>4, <2>6, <2>8 DEF S!ReadMember, S!Hold
  <2>10. h \in Write
    BY <2>3, <2>5, <2>7, <2>8 DEF Write, Change
  <2>11. h \in HandTask /\ h \notin Change /\ h \notin Revoke /\ h \notin Opening
    BY <2>10 DEF HandTask, Write, Change, Revoke, Opening
  <2>12. Holding(h) /\ StaffKept
    BY <2>9, <2>11, NothingLost DEF Holding
  <2> QED  BY <1>0, <2>9, <2>11, <2>12, SoundStays, StepOfOne
<1>6. ASSUME NEW r \in Requests, NEW p \in Principals, NEW h,
             h = [at |-> "relate", who |-> p] \/ h = [at |-> "ensure", who |-> p]
                 \/ h = [at |-> "join", who |-> p]
      PROVE  h \in HandTask /\ Holding(h)'
  <2>1. h \in Take
    BY <1>6 DEF Take
  <2>2. h \in HandTask /\ h \notin Change /\ h \notin Revoke /\ h \notin Opening
    BY <2>1 DEF HandTask, Take, Change, Revoke, Opening
  <2> QED  BY <2>2 DEF Holding, Change, Revoke, Opening
<1>7. ASSUME NEW r \in Requests, S!WriteMember(r) PROVE MembersInv'
  <2>1. PICK k : k = hand[r]
    OBVIOUS
  <2>2. S!At(r, "write")
    BY <1>7 DEF S!WriteMember
  <2>3. k \in Write
    BY <1>1, <2>1, <2>2, KindOf
  <2>4. k.who \in Principals /\ k.row \in MemberRow
    BY <2>3 DEF Write
  <2>5. members' = [members EXCEPT ![k.who] = k.row] /\ UNCHANGED <<relations, trail>>
    BY <1>7, <2>1 DEF S!WriteMember
  <2>6. StaffKept /\ members' \in [Principals -> MemberRow \cup {None}]
    BY <1>2, <2>4, <2>5
  <2>7. PICK h : h = IF k.goes = "done" THEN Idle ELSE [at |-> "relate", who |-> k.who]
    OBVIOUS
  <2>8. hand' = [hand EXCEPT ![r] = h]
    BY <1>7, <2>1, <2>7 DEF S!WriteMember, S!Hold, S!Done
  <2>9. h \in HandTask \cup {Idle} /\ (h # Idle => Holding(h)')
    BY <1>6, <2>4, <2>7
  <2> QED  BY <1>0, <2>5, <2>6, <2>8, <2>9, StepOfOne
<1>8. ASSUME NEW r \in Requests, NEW p \in Agents, S!handleAgencyRelationCreate(r, p)
      PROVE  MembersInv'
  <2>1. PICK h : h = [at |-> "ensure", who |-> p]
    OBVIOUS
  <2>2. hand' = [hand EXCEPT ![r] = h] /\ UNCHANGED <<members, relations, trail>>
    BY <1>8, <2>1 DEF S!handleAgencyRelationCreate, S!Hold
  <2>3. h \in HandTask /\ Holding(h)' /\ StaffKept
    BY <1>0, <1>6, <2>1, <2>2, NothingLost
  <2> QED  BY <1>0, <2>2, <2>3, StepOfOne
<1>9. ASSUME NEW r \in Requests, S!EnsureAgentMember(r) PROVE MembersInv'
  <2>1. PICK k : k = hand[r]
    OBVIOUS
  <2>2. S!At(r, "ensure")
    BY <1>9 DEF S!EnsureAgentMember
  <2>3. k \in Take /\ k.at = "ensure"
    BY <1>1, <2>1, <2>2, KindOf
  <2>4. PICK p : p = k.who
    OBVIOUS
  <2>5. p \in Principals /\ UNCHANGED <<members, relations, trail>>
    BY <1>9, <2>3, <2>4 DEF Take, S!EnsureAgentMember
  <2>6. PICK join : join = [k EXCEPT !.at = "join"]
    OBVIOUS
  <2>7. PICK relate : relate = [k EXCEPT !.at = "relate"]
    OBVIOUS
  <2>8. join = [at |-> "join", who |-> p] /\ relate = [at |-> "relate", who |-> p]
    BY <2>3, <2>4, <2>6, <2>7 DEF Take
  <2>9. PICK enable : enable = S!changing(p, None, TRUE, None, "relate")
    OBVIOUS
  <2>10. PICK h : h = IF members[p] = None THEN join
                      ELSE IF members[p].role # "agent" THEN Idle
                      ELSE IF members[p].enabled THEN relate ELSE enable
    OBVIOUS
  <2>11. hand' = [hand EXCEPT ![r] = h]
    BY <1>9, <2>1, <2>4, <2>6, <2>7, <2>9, <2>10 DEF S!EnsureAgentMember, S!Hold, S!Go, S!Done
  <2>12. enable \in Change /\ enable.who = p
    BY <2>5, <2>9 DEF S!changing, Change
  <2>13. StaffKept
    BY <2>5, NothingLost
  <2>14. ASSUME members[p] # None PROVE enable \in HandTask /\ Holding(enable)'
    <3>1. enable \in HandTask /\ enable \notin Revoke /\ enable \notin Opening
      BY <2>12 DEF HandTask, Change, Revoke, Opening
    <3>2. Holding(enable)
      BY <2>12, <2>14, <3>1 DEF Holding
    <3> QED  BY <2>13, <3>1, <3>2, SoundStays
  <2>15. h \in HandTask \cup {Idle} /\ (h # Idle => Holding(h)')
    BY <1>6, <2>5, <2>8, <2>10, <2>14
  <2> QED  BY <1>0, <2>5, <2>11, <2>13, <2>15, StepOfOne
<1>10. ASSUME NEW r \in Requests, S!InsertAgentMember(r) PROVE MembersInv'
  <2>1. PICK k : k = hand[r]
    OBVIOUS
  <2>2. S!At(r, "join")
    BY <1>10 DEF S!InsertAgentMember
  <2>3. k \in Take /\ k.at = "join"
    BY <1>1, <2>1, <2>2, KindOf
  <2>4. PICK p : p = k.who
    OBVIOUS
  <2>5. p \in Principals
    BY <2>3, <2>4 DEF Take
  <2>6. PICK relate : relate = [k EXCEPT !.at = "relate"]
    OBVIOUS
  <2>7. relate = [at |-> "relate", who |-> p]
    BY <2>3, <2>4, <2>6 DEF Take
  <2>8. PICK row : row = S!member("agent", None)
    OBVIOUS
  <2>9. row \in MemberRow
    BY <2>8, MemberTyped DEF Roles
  <2>10. CASE members[p] = None
    <3>1. /\ members' = [members EXCEPT ![p] = row] /\ UNCHANGED <<relations, trail>>
          /\ hand' = [hand EXCEPT ![r] = relate]
      BY <1>10, <2>1, <2>4, <2>6, <2>8, <2>10 DEF S!InsertAgentMember, S!Go
    <3>2. StaffKept /\ members' \in [Principals -> MemberRow \cup {None}]
      BY <1>2, <2>5, <2>9, <3>1
    <3>3. relate \in HandTask /\ Holding(relate)'
      BY <1>6, <2>5, <2>7
    <3> QED  BY <1>0, <3>1, <3>2, <3>3, StepOfOne
  <2>11. CASE members[p] # None
    <3>1. hand' = [hand EXCEPT ![r] = Idle] /\ UNCHANGED <<members, relations, trail>>
      BY <1>10, <2>1, <2>4, <2>11 DEF S!InsertAgentMember, S!Done
    <3> QED  BY <1>0, <3>1, NothingLost, StepOfOne
  <2> QED  BY <2>10, <2>11
<1>11. ASSUME NEW r \in Requests, S!CreateAgencyRelation(r) PROVE MembersInv'
  <2>1. PICK k : k = hand[r]
    OBVIOUS
  <2>2. S!At(r, "relate")
    BY <1>11 DEF S!CreateAgencyRelation
  <2>3. k \in Take
    BY <1>1, <2>1, <2>2, KindOf
  <2>4. PICK row : row = [agent |-> k.who, revoked |-> FALSE]
    OBVIOUS
  <2>5. row \in Relation
    BY <2>3, <2>4 DEF Take, Relation
  <2>6. /\ relations' = relations \/ relations' = Append(relations, row)
        /\ hand' = [hand EXCEPT ![r] = Idle] /\ UNCHANGED <<members, trail>>
    BY <1>11, <2>1, <2>4 DEF S!CreateAgencyRelation, S!Done
  <2>7. relations' \in Seq(Relation) /\ StaffKept
    <3>1. CASE relations' = relations
      BY <1>0, <2>6, <3>1, NothingLost
    <3>2. CASE relations' = Append(relations, row)
      <4>1. /\ relations' \in Seq(Relation)
            /\ \A i \in 1..Len(relations) : i \in 1..Len(relations') /\ relations'[i] = relations[i]
        BY <1>0, <2>5, <3>2
      <4> QED  BY <1>0, <2>6, <4>1 DEF StaffKept, S!Relations
    <3> QED  BY <2>6, <3>1, <3>2
  <2> QED  BY <1>0, <2>6, <2>7, StepOfOne
<1>12. ASSUME NEW r \in Requests, NEW i \in S!Relations, S!handleAgencyRelationRevoke(r, i)
       PROVE  MembersInv'
  <2>1. PICK h : h = [at |-> "tombstone", relation |-> i]
    OBVIOUS
  <2>2. hand' = [hand EXCEPT ![r] = h] /\ UNCHANGED <<members, relations, trail>>
    BY <1>12, <2>1 DEF S!handleAgencyRelationRevoke, S!Hold
  <2>3. i \in Nat
    BY RelationAt DEF MembersInv
  <2>4. h \in Revoke
    BY <2>1, <2>3 DEF Revoke
  <2>5. h \in HandTask /\ h \notin Change /\ h \notin Opening
    BY <2>4 DEF HandTask, Revoke, Change, Opening
  <2>6. Holding(h)
    BY <2>1, <2>5 DEF Holding
  <2> QED  BY <1>0, <2>2, <2>5, <2>6, NothingLost, SoundStays, StepOfOne
<1>13. ASSUME NEW r \in Requests, S!RevokeAgencyRelation(r) PROVE MembersInv'
  <2>1. PICK k : k = hand[r]
    OBVIOUS
  <2>2. S!At(r, "tombstone")
    BY <1>13 DEF S!RevokeAgencyRelation
  <2>3. k \in Revoke /\ Holding(k)
    BY <1>1, <2>1, <2>2, KindOf
  <2>4. PICK i : i = k.relation
    OBVIOUS
  <2>5. i \in S!Relations /\ relations[i] \in Relation /\ i \in 1..Len(relations)
    <3>1. i \in S!Relations
      BY <2>3, <2>4 DEF Holding
    <3> QED  BY <3>1, RelationAt DEF MembersInv
  <2>6. PICK h : h = [k EXCEPT !.at = "disable"]
    OBVIOUS
  <2>7. h \in Revoke /\ h.relation = i
    BY <2>3, <2>4, <2>6 DEF Revoke
  <2>8. PICK row : row = [relations[i] EXCEPT !.revoked = TRUE]
    OBVIOUS
  <2>9. row \in Relation /\ row.agent = relations[i].agent /\ row.revoked
    BY <2>5, <2>8 DEF Relation
  <2>10. /\ relations' = [relations EXCEPT ![i] = row] /\ hand' = [hand EXCEPT ![r] = h]
         /\ UNCHANGED <<members, trail>>
    BY <1>13, <2>1, <2>4, <2>6, <2>8 DEF S!RevokeAgencyRelation, S!Go
  <2>11. relations' \in Seq(Relation)
    BY <1>0, <2>5, <2>9, <2>10
  <2>12. StaffKept
    BY <1>0, <2>5, <2>9, <2>10 DEF StaffKept, S!Relations
  <2>13. h \in HandTask /\ h \notin Change /\ h \notin Opening
    BY <2>7 DEF HandTask, Revoke, Change, Opening
  <2>14. Holding(h)
    BY <2>5, <2>7, <2>13 DEF Holding
  <2> QED  BY <1>0, <2>10, <2>11, <2>12, <2>13, <2>14, SoundStays, StepOfOne
<1>14. ASSUME NEW r \in Requests, S!DisableAgentMember(r) PROVE MembersInv'
  <2>1. PICK k : k = hand[r]
    OBVIOUS
  <2>2. S!At(r, "disable")
    BY <1>14 DEF S!DisableAgentMember
  <2>3. k \in Revoke /\ Holding(k)
    BY <1>1, <2>1, <2>2, KindOf
  <2>4. PICK p : p = relations[k.relation].agent
    OBVIOUS
  <2>5. p \in Principals
    <3>1. k.relation \in S!Relations
      BY <2>3 DEF Holding
    <3> QED  BY <2>4, <3>1, RelationAt DEF MembersInv, Relation
  <2>6. PICK row : row = [members[p] EXCEPT !.enabled = FALSE]
    OBVIOUS
  <2>7. hand' = [hand EXCEPT ![r] = Idle] /\ UNCHANGED <<relations, trail>>
    BY <1>14 DEF S!DisableAgentMember, S!Done
  <2>8. CASE members[p] # None /\ members[p].role = "agent"
    <3>1. members' = [members EXCEPT ![p] = row]
      BY <1>14, <2>1, <2>4, <2>6, <2>8 DEF S!DisableAgentMember
    <3>2. row \in MemberRow
      BY <1>0, <2>5, <2>6, <2>8 DEF MemberRow
    <3>3. StaffKept /\ members' \in [Principals -> MemberRow \cup {None}]
      BY <1>2, <2>5, <2>7, <3>1, <3>2
    <3> QED  BY <1>0, <2>7, <3>3, StepOfOne
  <2>9. CASE ~ (members[p] # None /\ members[p].role = "agent")
    <3>1. members' = members
      BY <1>14, <2>1, <2>4, <2>9 DEF S!DisableAgentMember
    <3> QED  BY <1>0, <2>7, <3>1, NothingLost, StepOfOne
  <2> QED  BY <2>8, <2>9
<1>15. ASSUME NEW r \in Requests, NEW p \in Principals, S!SignIn(r, p) PROVE MembersInv'
  <2>1. PICK gone : gone = {i \in S!Relations : relations[i].revoked}
    OBVIOUS
  <2>2. PICK h : h = [at |-> "authorise", by |-> p, role |-> members[p].role,
                      relation |-> None, gone |-> gone]
    OBVIOUS
  <2>3. /\ hand' = [hand EXCEPT ![r] = h] /\ UNCHANGED <<members, relations, trail>>
        /\ members[p].role \in {"org_owner", "agent"}
    BY <1>15, <2>1, <2>2 DEF S!SignIn, S!Hold
  <2>4. gone \subseteq Nat
    BY <2>1, RelationAt DEF MembersInv
  <2>5. h \in Opening
    BY <2>2, <2>3, <2>4 DEF Opening
  <2>6. h \in HandTask /\ h \notin Change /\ h \notin Revoke
    BY <2>5 DEF HandTask, Revoke, Change, Opening
  <2>7. Holding(h)
    BY <2>1, <2>2, <2>6 DEF Holding
  <2> QED  BY <1>0, <2>3, <2>6, <2>7, NothingLost, SoundStays, StepOfOne
<1>16. ASSUME NEW r \in Requests, NEW h \in Opening, Holding(h),
              hand' = [hand EXCEPT ![r] = h], UNCHANGED <<members, relations, trail>>
       PROVE  MembersInv'
  <2>1. h \in HandTask
    BY <1>16 DEF HandTask
  <2> QED  BY <1>0, <1>16, <2>1, NothingLost, SoundStays, StepOfOne
<1>17. ASSUME NEW r \in Requests, hand' = [hand EXCEPT ![r] = Idle],
              UNCHANGED <<members, relations, trail>>
       PROVE  MembersInv'
  BY <1>0, <1>17, NothingLost, StepOfOne
<1>18. ASSUME NEW r \in Requests, S!Authorize(r) PROVE MembersInv'
  <2>1. PICK k : k = hand[r]
    OBVIOUS
  <2>2. S!At(r, "authorise") /\ UNCHANGED <<members, relations, trail>>
    BY <1>18 DEF S!Authorize
  <2>3. k \in Opening /\ Holding(k) /\ k.at = "authorise"
    BY <1>1, <2>1, <2>2, KindOf
  <2>4. PICK issue : issue = [k EXCEPT !.at = "issue"]
    OBVIOUS
  <2>5. PICK naming : naming = [k EXCEPT !.at = "name"]
    OBVIOUS
  <2>6. hand' = [hand EXCEPT ![r] = IF k.role = "org_owner" THEN issue
                                    ELSE IF S!active(k.by) # {} THEN naming ELSE Idle]
    BY <1>18, <2>1, <2>4, <2>5 DEF S!Authorize, S!Go, S!Done
  <2>7. /\ issue \in Opening /\ issue.at = "issue" /\ issue.role = k.role
        /\ issue.relation = k.relation /\ issue.gone = k.gone /\ issue.by = k.by
        /\ naming \in Opening /\ naming.at = "name" /\ naming.role = k.role
        /\ naming.relation = k.relation /\ naming.gone = k.gone /\ naming.by = k.by
    BY <2>3, <2>4, <2>5, Advances
  <2>8. issue \notin Change /\ issue \notin Revoke /\ naming \notin Change /\ naming \notin Revoke
    BY <2>7 DEF Opening, Change, Revoke
  <2>9. k.role = "org_owner" => Holding(issue)
    BY <2>3, <2>7, <2>8 DEF Holding
  <2>10. k.role # "org_owner" => Holding(naming)
    BY <2>3, <2>7, <2>8 DEF Holding, Opening
  <2> QED  BY <1>16, <1>17, <2>2, <2>6, <2>7, <2>9, <2>10
<1>19. ASSUME NEW r \in Requests, S!NameRelation(r) PROVE MembersInv'
  <2>1. PICK k : k = hand[r]
    OBVIOUS
  <2>2. S!At(r, "name") /\ UNCHANGED <<members, relations, trail>>
    BY <1>19 DEF S!NameRelation
  <2>3. k \in Opening /\ Holding(k) /\ k.at = "name"
    BY <1>1, <2>1, <2>2, KindOf
  <2>4. ASSUME NEW i \in S!name(k.by), hand' = [hand EXCEPT ![r].at = "issue", ![r].relation = i]
        PROVE  MembersInv'
    <3>1. PICK h : h = [k EXCEPT !.at = "issue", !.relation = i]
      OBVIOUS
    <3>2. i \in S!Relations /\ relations[i].agent = k.by /\ ~relations[i].revoked /\ i \in Nat
      <4>1. i \in S!Relations /\ relations[i].agent = k.by /\ ~relations[i].revoked
        BY <2>4 DEF S!name, S!active
      <4> QED  BY <4>1, RelationAt DEF MembersInv
    <3>3. /\ h \in Opening /\ h.at = "issue" /\ h.role = k.role
          /\ h.relation = i /\ h.gone = k.gone /\ h.by = k.by
      BY <2>3, <3>1, <3>2 DEF Opening
    <3>4. h \notin Change /\ h \notin Revoke /\ k.role = "agent" /\ i \notin k.gone
      BY <2>3, <3>2, <3>3 DEF Opening, Change, Revoke, Holding
    <3>5. Holding(h)
      BY <2>3, <3>2, <3>3, <3>4 DEF Holding
    <3>6. hand' = [hand EXCEPT ![r] = h]
      BY <1>0, <2>1, <2>4, <3>1
    <3> QED  BY <1>16, <2>2, <3>3, <3>5, <3>6
  <2> QED  BY <1>17, <1>19, <2>1, <2>2, <2>4 DEF S!NameRelation, S!Done
<1>20. ASSUME NEW r \in Requests, NEW new \in Principals, NEW scope \in Shops \cup {None},
              S!IssueSubAccount(r, new, scope)
       PROVE  MembersInv'
  <2>1. PICK k : k = hand[r]
    OBVIOUS
  <2>2. S!At(r, "issue") /\ UNCHANGED <<relations>> /\ hand' = [hand EXCEPT ![r] = Idle]
    BY <1>20 DEF S!IssueSubAccount, S!Done
  <2>3. k \in Opening /\ Holding(k) /\ k.at = "issue"
    BY <1>1, <2>1, <2>2, KindOf
  <2>4. CASE members[new] # None
    BY <1>17, <1>20, <2>2, <2>4 DEF S!IssueSubAccount
  <2>5. CASE members[new] = None
    <3>1. PICK row : row = S!member(IF scope = None THEN "staff" ELSE "store_manager", scope)
      OBVIOUS
    <3>2. row \in MemberRow
      BY <3>1, MemberTyped DEF Roles, S!IssuedRoles
    <3>3. PICK u : u = [member |-> new, by |-> k.by, role |-> k.role,
                        relation |-> k.relation, gone |-> k.gone]
      OBVIOUS
    <3>4. members' = [members EXCEPT ![new] = row] /\ trail' = trail \cup {u}
      BY <1>20, <2>1, <2>5, <3>1, <3>3 DEF S!IssueSubAccount
    <3>5. StaffKept /\ members' \in [Principals -> MemberRow \cup {None}]
      BY <1>2, <2>2, <3>2, <3>4
    <3>6. u \in Entry
      BY <2>3, <3>3 DEF Opening, Entry
    <3>7. OnRecord(u)'
      <4>1. members'[new] # None
        BY <1>0, <3>2, <3>4
      <4>2. IF u.role = "agent"
            THEN /\ u.relation \in S!Relations /\ u.relation \notin u.gone
                 /\ relations[u.relation].agent = u.by
            ELSE u.relation = None
        BY <2>3, <3>3 DEF Holding
      <4> QED  BY <2>2, <3>3, <4>1, <4>2 DEF OnRecord, S!Relations
    <3>8. ASSUME NEW t \in trail PROVE OnRecord(t)' /\ t.member # new
      BY <1>0, <2>5, <3>5, RecordedStays DEF MembersInv, OnRecord
    <3>9. S!OneRecordPerAccount'
      BY <3>3, <3>4, <3>8 DEF MembersInv, S!OneRecordPerAccount
    <3>10. hand' \in [Requests -> HandTask \cup {Idle}] /\ AllHolding'
      BY <2>2, <3>5, OneMoves
    <3>11. StaffTyped'
      BY <1>0, <2>2, <3>4, <3>5, <3>6, <3>10 DEF StaffTyped, HandTask, Change, Write, Take,
         Revoke,
         Opening, MemberRow, Relation, Entry, Roles
    <3>12. \A t \in trail' : OnRecord(t)'
      BY <3>4, <3>7, <3>8
    <3> QED  BY <3>9, <3>10, <3>11, <3>12 DEF MembersInv
  <2> QED  BY <2>4, <2>5
<1>21. ASSUME NEW r \in Requests, S!Crash(r) PROVE MembersInv'
  BY <1>17, <1>21 DEF S!Crash, S!Done
<1> QED
  BY <1>3, <1>4, <1>5, <1>7, <1>8, <1>9, <1>10, <1>11, <1>12, <1>13, <1>14, <1>15, <1>18,
     <1>19, <1>20, <1>21 DEF S!MembersNext

\* Every step, also none, keeps the members' invariant.
LEMMA MembersNextInv ==
    ASSUME PatchesAreRequests, NoneIsNoMember, S!RelationsAssumption,
           MembersInv, [S!MembersNext]_S!memberVars
    PROVE  MembersInv'
<1>1. CASE UNCHANGED S!memberVars
  BY <1>1 DEF S!memberVars, MembersInv, StaffTyped, AllHolding, Holding, OnRecord,
     S!OneRecordPerAccount, S!Relations, HandTask, Change, Write, Take, Revoke, Opening,
     MemberRow, Relation, Entry, Roles
<1> QED  BY <1>1, MembersStepInv

\* What is on record of an agent's sub-account names his relation.
LEMMA RecordsJustified ==
    ASSUME NoneIsNoMember, MembersInv
    PROVE  S!IssuedUnderActive
<1> SUFFICES ASSUME NEW t \in trail
             PROVE  IF t.role = "agent"
                    THEN /\ t.relation # None /\ relations[t.relation].agent = t.by
                         /\ t.relation \notin t.gone
                    ELSE t.relation = None
  BY DEF S!IssuedUnderActive
<1>1. OnRecord(t)
  BY DEF MembersInv
<1>2. t.role = "agent" => t.relation \in Nat
  BY <1>1, RelationAt DEF MembersInv, OnRecord
<1> QED  BY <1>1, <1>2 DEF OnRecord, NoneIsNoMember

MembersHeld == focus = "members" => MembersInv

\* Behaviours of the console keep the members' invariant.
LEMMA MembersAlways ==
    ASSUME PatchesAreRequests, NoneIsNoMember
    PROVE  Spec => []MembersHeld
<1>1. S!RelationsAssumption
  BY ConsoleAssumption
<1>2. Init => MembersHeld
  BY MembersInitInv DEF Init, MembersHeld
<1>3. MembersHeld /\ [Next]_allVars => MembersHeld'
  <2> SUFFICES ASSUME MembersHeld, [Next]_allVars, focus' = "members"
               PROVE  MembersInv'
    BY DEF MembersHeld
  <2>1. focus = "members" /\ [S!MembersNext]_S!memberVars
    BY StepsOf
  <2> QED  BY <1>1, <2>1, MembersNextInv DEF MembersHeld
<1> QED  BY <1>2, <1>3, PTL DEF Spec

\* Whatever rows were revoked, renewed and rewritten between the reads of a request,
\* a sub-account an agent opened is on record with a relation of his that was not yet
\* revoked when his request came in (handleAgencySubAccountCreate).
THEOREM SubAccountsAreJustified ==
    ASSUME PatchesAreRequests, NoneIsNoMember
    PROVE  Spec => []IssuedUnderActive
<1>1. MembersHeld => IssuedUnderActive
  BY RecordsJustified DEF MembersHeld, IssuedUnderActive
<1> QED  BY <1>1, MembersAlways, PTL

\* A membership is opened once: two requests that open the same account at the same
\* time leave one record of it.
THEOREM OneRecordEach ==
    ASSUME PatchesAreRequests, NoneIsNoMember
    PROVE  Spec => [](focus = "members" => S!OneRecordPerAccount)
<1>1. MembersHeld => (focus = "members" => S!OneRecordPerAccount)
  BY DEF MembersHeld, MembersInv
<1> QED  BY <1>1, MembersAlways, PTL

-----------------------------------------------------------------------------
(* Content packs: what calls itself adopted *)

Elements(s) == {s[i] : i \in DOMAIN s}

\* The columns of a version's row.
IsRow(v) == v = [pack |-> v.pack, no |-> v.no, status |-> v.status, media |-> v.media,
                 until |-> v.until, key |-> v.key]

\* A statement in `todo` that stamps a version adopted or retired comes after a pointer
\* named it: before the request read, or by an earlier statement of the request.
Earned(todo, i) ==
    \/ todo[i].version \in wasCurrent
    \/ \E j \in DOMAIN todo : /\ j < i /\ todo[j].do = "point"
                              /\ todo[j].version = todo[i].version

Orderly(todo) ==
    /\ todo \in Seq(Elements(todo))
    /\ \A i \in DOMAIN todo :
          /\ todo[i].do = "insert" =>
                IsRow(todo[i].row) /\ todo[i].row.status \in {"draft", "candidate"}
          /\ todo[i].do = "status" /\ todo[i].to \in {"adopted", "retired"} => Earned(todo, i)

\* What the requests under way still have to run.
Pending == {packTask[r] : r \in Requests} \ {Idle}

PacksInv ==
    /\ packTask = [r \in Requests |-> packTask[r]]
    /\ <<>> \notin Pending /\ \A todo \in Pending : Orderly(todo)
    /\ versions \in Seq(Elements(versions))
    /\ \A v \in DOMAIN versions : IsRow(versions[v])
    /\ adoptions \in [Platforms -> wasCurrent \cup {None}]
    /\ P!AdoptedWasCurrent

\* A sequence is one of its elements.
LEMMA OfElements ==
    ASSUME NEW X, NEW s \in Seq(X)
    PROVE  s \in Seq(Elements(s))
BY DEF Elements

\* Initially nobody is under way and there are no versions.
LEMMA PacksInitInv == P!PackInit => PacksInv
<1> SUFFICES ASSUME P!PackInit PROVE PacksInv
  OBVIOUS
<1>1. /\ packTask = [r \in Requests |-> Idle] /\ versions = <<>>
      /\ adoptions = [platform \in Platforms |-> None]
  BY DEF P!PackInit
<1>2. versions \in Seq(Elements(versions))
  <2>1. <<>> \in Seq({})
    OBVIOUS
  <2> QED  BY <1>1, <2>1, OfElements
<1>3. packTask = [r \in Requests |-> packTask[r]] /\ Pending = {}
  BY <1>1 DEF Pending
<1>4. adoptions \in [Platforms -> wasCurrent \cup {None}] /\ DOMAIN versions = {}
  BY <1>1
<1> QED  BY <1>2, <1>3, <1>4 DEF PacksInv, P!AdoptedWasCurrent, P!Versions

\* What was earned stays so.
LEMMA OrderStays ==
    ASSUME wasCurrent \subseteq wasCurrent', NEW todo, Orderly(todo)
    PROVE  Orderly(todo)'
<1>1. \A i \in DOMAIN todo : Earned(todo, i) => Earned(todo, i)'
  BY DEF Earned
<1> QED  BY <1>1 DEF Orderly

\* The rest of a request's statements, once the first was run.
LEMMA RestInOrder ==
    ASSUME NEW todo, todo # <<>>, Orderly(todo), wasCurrent \subseteq wasCurrent',
           todo[1].do = "point" => todo[1].version \in wasCurrent'
    PROVE  Orderly(Tail(todo))'
<1> DEFINE rest == Tail(todo)
<1>0. /\ todo \in Seq(Elements(todo)) /\ Len(todo) \in Nat /\ Len(todo) > 0
      /\ DOMAIN todo = 1..Len(todo)
  BY DEF Orderly
<1>1. /\ rest \in Seq(Elements(todo)) /\ Len(rest) = Len(todo) - 1
      /\ DOMAIN rest = 1..(Len(todo) - 1)
      /\ \A i \in DOMAIN rest : rest[i] = todo[i + 1] /\ i + 1 \in DOMAIN todo
  BY <1>0
<1>2. rest \in Seq(Elements(rest))
  BY <1>1, OfElements
<1> HIDE DEF rest
<1>3. ASSUME NEW i \in DOMAIN rest, rest[i].do = "status", rest[i].to \in {"adopted", "retired"}
      PROVE  Earned(rest, i)'
  <2>1. Earned(todo, i + 1)
    BY <1>1, <1>3 DEF Orderly
  <2>2. CASE todo[i + 1].version \in wasCurrent
    BY <1>1, <2>2 DEF Earned
  <2>3. ASSUME NEW j \in DOMAIN todo, j < i + 1, todo[j].do = "point",
               todo[j].version = todo[i + 1].version
        PROVE  Earned(rest, i)'
    <3>1. CASE j = 1
      BY <1>1, <2>3, <3>1 DEF Earned
    <3>2. CASE j # 1
      <4>1. /\ j - 1 \in DOMAIN rest /\ j - 1 < i /\ rest[j - 1] = todo[j]
            /\ rest[i] = todo[i + 1]
        BY <1>0, <1>1, <2>3, <3>2
      <4> QED  BY <2>3, <4>1 DEF Earned
    <3> QED  BY <3>1, <3>2
  <2> QED  BY <2>1, <2>2, <2>3 DEF Earned
<1>4. \A i \in DOMAIN rest : rest[i].do = "insert" =>
          IsRow(rest[i].row) /\ rest[i].row.status \in {"draft", "candidate"}
  BY <1>1 DEF Orderly
<1>5. Orderly(rest)'
  BY <1>2, <1>3, <1>4 DEF Orderly, Elements, IsRow
<1> QED  BY <1>5 DEF rest

TasksInOrder ==
    /\ packTask = [q \in Requests |-> packTask[q]]
    /\ <<>> \notin Pending /\ \A t \in Pending : Orderly(t)

\* A request moves on, with statements in order; the others keep theirs.
LEMMA OneRuns ==
    ASSUME PacksInv, wasCurrent \subseteq wasCurrent', NEW r \in Requests, NEW todo,
           P!Run(r, todo), todo # <<>> => Orderly(todo)'
    PROVE  TasksInOrder'
<1>1. packTask = [q \in Requests |-> packTask[q]]
  BY DEF PacksInv
<1>2. packTask' = [packTask EXCEPT ![r] = IF todo = <<>> THEN Idle ELSE todo]
  BY DEF P!Run
<1>3. packTask' = [q \in Requests |-> packTask'[q]]
  BY <1>1, <1>2
<1>4. ASSUME NEW t \in Pending' PROVE t # <<>> /\ Orderly(t)'
  <2>1. PICK q \in Requests : t = packTask'[q]
    BY <1>4 DEF Pending
  <2>2. t # Idle
    BY <1>4 DEF Pending
  <2>3. CASE q = r
    BY <1>1, <1>2, <2>1, <2>2, <2>3
  <2>4. CASE q # r
    <3>1. t \in Pending
      BY <1>1, <1>2, <2>1, <2>2, <2>4 DEF Pending
    <3>2. t # <<>> /\ Orderly(t)
      BY <3>1 DEF PacksInv
    <3> QED  BY <3>2, OrderStays
  <2> QED  BY <2>3, <2>4
<1> QED  BY <1>3, <1>4 DEF TasksInOrder

\* A step of one request that changes no table.
LEMMA TablesAsTheyWere ==
    ASSUME PacksInv, UNCHANGED <<versions, adoptions, wasCurrent>>,
           TasksInOrder'
    PROVE  PacksInv'
BY DEF TasksInOrder, PacksInv, P!AdoptedWasCurrent, P!Versions, Elements, IsRow

\* What a request takes from its statements when it runs the first.
LEMMA FirstStatement ==
    ASSUME PacksInv, NEW r \in Requests, NEW do, P!Due(r, do)
    PROVE  /\ packTask[r] # <<>> /\ Orderly(packTask[r])
           /\ P!Now(r) = packTask[r][1] /\ P!Now(r).do = do
BY DEF P!Due, P!Now, Pending, PacksInv

\* An UPDATE of the status by id stamps what a pointer has named.
LEMMA StatusStep ==
    ASSUME PacksInv, NEW r \in Requests, P!SetStatus(r)
    PROVE  PacksInv'
<1> PICK todo : todo = packTask[r]
  OBVIOUS
<1> PICK s : s = todo[1]
  OBVIOUS
<1>1. todo # <<>> /\ Orderly(todo) /\ P!Now(r) = s /\ s.do = "status"
  BY FirstStatement DEF P!SetStatus
<1>2. /\ versions' = [versions EXCEPT ![s.version].status = s.to]
      /\ P!Run(r, Tail(todo)) /\ UNCHANGED <<adoptions, wasCurrent>>
  BY <1>1 DEF P!SetStatus, P!Done
<1>3. 1 \in DOMAIN todo /\ \A j \in DOMAIN todo : ~ (j < 1)
  BY <1>1 DEF Orderly
<1>4. s.to \in {"adopted", "retired"} => s.version \in wasCurrent
  BY <1>1, <1>3 DEF Orderly, Earned
<1>5. Orderly(Tail(todo))'
  BY <1>1, <1>2, RestInOrder
<1>6. TasksInOrder'
  BY <1>2, <1>5, OneRuns
<1>7. /\ versions \in Seq(Elements(versions)) /\ DOMAIN versions' = DOMAIN versions
      /\ \A v \in DOMAIN versions : IsRow(versions[v])
  BY <1>2 DEF PacksInv
<1>8. ASSUME NEW v \in DOMAIN versions
      PROVE  /\ IsRow(versions'[v])
             /\ v # s.version => versions'[v] = versions[v]
             /\ v = s.version => versions'[v].status = s.to
  <2>1. IsRow(versions[v])
    BY <1>7
  <2>2. CASE v # s.version
    BY <1>2, <2>1, <2>2
  <2>3. CASE v = s.version
    <3>1. versions'[v] = [versions[v] EXCEPT !.status = s.to]
      BY <1>2, <2>3
    <3> QED  BY <2>1, <2>3, <3>1 DEF IsRow
  <2> QED  BY <2>2, <2>3
<1>9. versions' \in Seq(Elements(versions'))
  <2>1. Len(versions) \in Nat /\ DOMAIN versions = 1..Len(versions)
    BY <1>7
  <2>2. versions' = [v \in 1..Len(versions) |-> versions'[v]]
    BY <1>2, <1>7, <2>1
  <2>3. versions' \in Seq({versions'[v] : v \in 1..Len(versions)})
    BY <2>1, <2>2
  <2> QED  BY <2>3, OfElements
<1>10. P!AdoptedWasCurrent'
  BY <1>2, <1>4, <1>7, <1>8 DEF PacksInv, P!AdoptedWasCurrent, P!Versions
<1>11. adoptions' \in [Platforms -> wasCurrent' \cup {None}]
  BY <1>2 DEF PacksInv
<1>12. \A v \in DOMAIN versions' : IsRow(versions'[v])
  BY <1>7, <1>8
<1> QED  BY <1>6, <1>9, <1>10, <1>11, <1>12 DEF PacksInv, IsRow, TasksInOrder

\* A version is inserted as a draft or a candidate.
LEMMA InsertionStep ==
    ASSUME PacksInv, NEW r \in Requests, P!InsertVersion(r)
    PROVE  PacksInv'
<1> PICK todo : todo = packTask[r]
  OBVIOUS
<1> PICK s : s = todo[1]
  OBVIOUS
<1>1. todo # <<>> /\ Orderly(todo) /\ P!Now(r) = s /\ s.do = "insert"
  BY FirstStatement DEF P!InsertVersion
<1>2. /\ versions' = Append(versions, s.row) \/ versions' = versions
      /\ P!Run(r, Tail(todo)) /\ UNCHANGED <<adoptions, wasCurrent>>
  BY <1>1 DEF P!InsertVersion, P!Done
<1>3. IsRow(s.row) /\ s.row.status \in {"draft", "candidate"}
  BY <1>1 DEF Orderly
<1>4. Orderly(Tail(todo))'
  BY <1>1, <1>2, RestInOrder
<1>5. TasksInOrder'
  BY <1>2, <1>4, OneRuns
<1>6. CASE versions' = versions
  BY <1>2, <1>5, <1>6, TablesAsTheyWere
<1>7. CASE versions' = Append(versions, s.row)
  <2>1. versions \in Seq(Elements(versions)) /\ \A v \in DOMAIN versions : IsRow(versions[v])
    BY DEF PacksInv
  <2>2. versions' \in Seq(Elements(versions) \cup {s.row})
    BY <1>7, <2>1
  <2>3. versions' \in Seq(Elements(versions'))
    BY <2>2, OfElements
  <2>4. \A v \in DOMAIN versions' : \/ v \in DOMAIN versions /\ versions'[v] = versions[v]
                                    \/ versions'[v] = s.row
    BY <1>7, <2>1
  <2>5. \A v \in DOMAIN versions' : IsRow(versions'[v])
    BY <1>3, <2>1, <2>4
  <2>6. P!AdoptedWasCurrent'
    BY <1>2, <1>3, <2>4 DEF PacksInv, P!AdoptedWasCurrent, P!Versions
  <2>7. adoptions' \in [Platforms -> wasCurrent' \cup {None}]
    BY <1>2 DEF PacksInv
  <2> QED  BY <1>5, <2>3, <2>5, <2>6, <2>7 DEF PacksInv, IsRow, TasksInOrder
<1> QED  BY <1>2, <1>6, <1>7

\* The pointer moves: the version it names was current from now on.
LEMMA PointStep ==
    ASSUME PacksInv, NEW r \in Requests, P!Point(r)
    PROVE  PacksInv'
<1> PICK todo : todo = packTask[r]
  OBVIOUS
<1> PICK s : s = todo[1]
  OBVIOUS
<1>1. todo # <<>> /\ Orderly(todo) /\ P!Now(r) = s /\ s.do = "point"
  BY FirstStatement DEF P!Point
<1>2. CASE P!Run(r, <<>>) /\ UNCHANGED <<versions, adoptions, wasCurrent>>
  <2>1. TasksInOrder'
    BY <1>2, OneRuns
  <2> QED  BY <1>2, <2>1, TablesAsTheyWere
<1>3. CASE /\ adoptions' = [adoptions EXCEPT ![s.platform] = s.version]
           /\ wasCurrent' = wasCurrent \cup {s.version}
           /\ P!Run(r, Tail(todo)) /\ versions' = versions
  <2>1. Orderly(Tail(todo))'
    BY <1>1, <1>3, RestInOrder
  <2>2. TasksInOrder'
    BY <1>3, <2>1, OneRuns
  <2>3. adoptions' \in [Platforms -> wasCurrent' \cup {None}]
    BY <1>3 DEF PacksInv
  <2> QED  BY <1>3, <2>2, <2>3 DEF PacksInv, TasksInOrder, P!AdoptedWasCurrent, P!Versions,
     Elements,
     IsRow
<1> QED  BY <1>1, <1>2, <1>3 DEF P!Point, P!Done

\* The statements of a request in order: one, two or three of them.
LEMMA InOrder ==
    ASSUME NEW todo, todo \in Seq(Elements(todo)),
           \A i \in DOMAIN todo :
              /\ todo[i].do = "insert" =>
                    IsRow(todo[i].row) /\ todo[i].row.status \in {"draft", "candidate"}
              /\ todo[i].do = "status" /\ todo[i].to \in {"adopted", "retired"}
                    => Earned(todo, i)
    PROVE  Orderly(todo)
BY DEF Orderly

\* The statements of an adoption: a version that is left was current, the one that is
\* adopted is pointed at first.
LEMMA AdoptionInOrder ==
    ASSUME PacksInv, NEW platform \in Platforms, NEW v
    PROVE  P!Adoption(v, platform) # <<>> /\ Orderly(P!Adoption(v, platform))
<1> PICK prev : prev = adoptions[platform]
  OBVIOUS
<1> PICK left : left = P!status(prev, "retired")
  OBVIOUS
<1> PICK point : point = [do |-> "point", platform |-> platform, version |-> v,
                          fresh |-> prev = None]
  OBVIOUS
<1> PICK stamp_ : stamp_ = P!status(v, "adopted")
  OBVIOUS
<1>1. /\ left.do = "status" /\ left.version = prev
      /\ point.do = "point" /\ point.version = v
      /\ stamp_.do = "status" /\ stamp_.version = v
  BY DEF P!status
<1>2. prev # None => prev \in wasCurrent
  BY DEF PacksInv
<1>3. PICK before : before = IF prev \notin {None, v} THEN <<left>> ELSE <<>>
  OBVIOUS
<1>4. PICK after : after = IF versions[v].status # "adopted" THEN <<stamp_>> ELSE <<>>
  OBVIOUS
<1>5. P!Adoption(v, platform) = before \o <<point>> \o after
  BY <1>3, <1>4 DEF P!Adoption
<1> PICK X : X = {left, point, stamp_}
  OBVIOUS
<1>6. before \in Seq(X) /\ after \in Seq(X) /\ <<point>> \in Seq(X)
  <2>1. <<>> \in Seq(X)
    OBVIOUS
  <2>2. <<left>> \in Seq(X) /\ <<point>> \in Seq(X) /\ <<stamp_>> \in Seq(X)
    OBVIOUS
  <2>3. before = <<left>> \/ before = <<>>
    BY <1>3
  <2>4. after = <<stamp_>> \/ after = <<>>
    BY <1>4
  <2> QED  BY <2>1, <2>2, <2>3, <2>4
<1> PICK todo : todo = before \o <<point>> \o after
  OBVIOUS
<1>8. /\ todo \in Seq(X) /\ Len(before) \in Nat /\ Len(after) \in Nat
      /\ DOMAIN todo = 1..Len(todo)
      /\ Len(todo) = Len(before) + 1 + Len(after)
      /\ \A i \in 1..Len(before) : todo[i] = before[i]
      /\ todo[Len(before) + 1] = point
      /\ \A i \in 1..Len(after) : todo[Len(before) + 1 + i] = after[i]
  <2>1. PICK head : head = before \o <<point>>
    OBVIOUS
  <2>2. /\ head \in Seq(X) /\ Len(head) = Len(before) + 1
        /\ \A i \in 1..Len(before) : head[i] = before[i]
        /\ head[Len(before) + 1] = point
    BY <1>6, <2>1
  <2>3. todo = head \o after
    BY <2>1
  <2>4. /\ todo \in Seq(X) /\ Len(todo) = Len(head) + Len(after)
        /\ \A i \in 1..Len(head) : todo[i] = head[i]
        /\ \A i \in 1..Len(after) : todo[Len(head) + i] = after[i]
    BY <1>6, <2>2, <2>3
  <2> QED  BY <1>6, <2>2, <2>4
<1>9. todo \in Seq(Elements(todo)) /\ todo # <<>>
  <2>1. todo \in Seq(X) /\ Len(todo) # 0
    BY <1>8
  <2>2. todo \in Seq(Elements(todo))
    BY <2>1, OfElements
  <2>3. Len(<<>>) = 0
    OBVIOUS
  <2> QED  BY <2>1, <2>2, <2>3
<1>10. ASSUME NEW i \in DOMAIN todo
       PROVE  /\ todo[i].do # "insert"
              /\ todo[i].do = "status" => Earned(todo, i)
  <2>1. CASE i <= Len(before)
    <3>1. before = <<left>> /\ prev # None
      BY <1>3, <2>1, <1>8
    <3>2. i = 1 /\ todo[i] = left
      BY <1>8, <2>1, <3>1
    <3> QED  BY <1>1, <1>2, <3>1, <3>2 DEF Earned
  <2>2. CASE i = Len(before) + 1
    BY <1>1, <1>8, <2>2
  <2>3. CASE i > Len(before) + 1
    <3>1. after = <<stamp_>> /\ i = Len(before) + 2
      BY <1>4, <1>8, <2>3
    <3>2. todo[i] = stamp_
      BY <1>8, <3>1
    <3> PICK j : j = Len(before) + 1
      OBVIOUS
    <3>3. j \in DOMAIN todo /\ j < i /\ todo[j] = point
      BY <1>8, <2>3
    <3>4. /\ todo[i].version = v /\ todo[i].do = "status"
          /\ todo[j].do = "point" /\ todo[j].version = v
      BY <1>1, <3>2, <3>3
    <3>5. Earned(todo, i)
      BY <3>3, <3>4 DEF Earned
    <3> QED  BY <3>4, <3>5
  <2> QED  BY <1>8, <2>1, <2>2, <2>3
<1>11. Orderly(todo)
  BY <1>9, <1>10, InOrder
<1> QED  BY <1>5, <1>9, <1>11

\* A request that is started with its statements in order.
LEMMA StartStep ==
    ASSUME PacksInv, NEW r \in Requests, NEW todo, P!Run(r, todo),
           todo # <<>> => Orderly(todo),
           UNCHANGED <<versions, adoptions, wasCurrent>>
    PROVE  PacksInv'
<1>1. todo # <<>> => Orderly(todo)'
  BY OrderStays
<1>2. TasksInOrder'
  BY <1>1, OneRuns
<1> QED  BY <1>2, TablesAsTheyWere

\* A request of a single statement.
LEMMA OneStatement ==
    ASSUME NEW s, s.do = "insert" => IsRow(s.row) /\ s.row.status \in {"draft", "candidate"},
           s.do = "status" => s.to \notin {"adopted", "retired"}
    PROVE  <<s>> # <<>> /\ Orderly(<<s>>)
<1> PICK todo : todo = <<s>>
  OBVIOUS
<1>1. todo \in Seq({s}) /\ DOMAIN todo = {1} /\ todo[1] = s /\ todo # <<>>
  OBVIOUS
<1>2. todo \in Seq(Elements(todo))
  BY <1>1, OfElements
<1>3. Orderly(todo)
  BY <1>1, <1>2, InOrder
<1> QED  BY <1>1, <1>3

\* A version that is to be inserted.
LEMMA NewVersionStep ==
    ASSUME PacksInv, NEW r \in Requests, NEW p, NEW spec, NEW to \in {"draft", "candidate"},
           P!Run(r, P!insertion(p, spec, to)),
           UNCHANGED <<versions, adoptions, wasCurrent>>
    PROVE  PacksInv'
<1> PICK v : v = P!row(p, spec, to)
  OBVIOUS
<1>1. IsRow(v) /\ v.status \in {"draft", "candidate"}
  BY DEF P!row, IsRow
<1> PICK s : s = [do |-> "insert", row |-> v]
  OBVIOUS
<1>2. <<s>> # <<>> /\ Orderly(<<s>>)
  BY <1>1, OneStatement
<1>3. P!Run(r, <<s>>)
  BY DEF P!insertion
<1> QED  BY <1>2, <1>3, StartStep

\* Every step keeps it.
LEMMA PacksNextInv == PacksInv /\ [P!PackNext]_P!packVars => PacksInv'
<1> SUFFICES ASSUME PacksInv, [P!PackNext]_P!packVars PROVE PacksInv'
  OBVIOUS
<1>1. ASSUME UNCHANGED <<versions, adoptions, wasCurrent, packTask>>
      PROVE  PacksInv'
  <2>1. Pending' = Pending /\ \A t \in Pending : Orderly(t)'
    BY <1>1, OrderStays DEF PacksInv, Pending
  <2> QED  BY <1>1, <2>1, TablesAsTheyWere DEF PacksInv, TasksInOrder
<1>2. CASE UNCHANGED P!packVars
  BY <1>1, <1>2 DEF P!packVars
<1>3. CASE \E p \in Packs \ packs : P!CreateContentPack(p)
  BY <1>1, <1>3 DEF P!CreateContentPack
<1>4. ASSUME NEW r \in Requests, NEW p \in packs, NEW spec \in P!Specs, NEW to \in P!Statuses,
             P!CreateContentPackVersion(r, p, spec, to)
      PROVE  PacksInv'
  BY <1>4, NewVersionStep DEF P!CreateContentPackVersion
<1>5. ASSUME NEW r \in Requests, NEW p \in packs, NEW spec \in P!Specs,
             P!AddReturnCandidate(r, p, spec)
      PROVE  PacksInv'
  BY <1>5, NewVersionStep DEF P!AddReturnCandidate
<1>6. ASSUME NEW r \in Requests, NEW v \in P!Versions, NEW platform \in Platforms,
             P!AdoptContentPackVersion(r, v, platform)
      PROVE  PacksInv'
  <2>1. /\ P!Run(r, P!Adoption(v, platform))
        /\ UNCHANGED <<versions, adoptions, wasCurrent>>
    BY <1>6 DEF P!AdoptContentPackVersion
  <2> QED  BY <2>1, AdoptionInOrder, StartStep
<1>7. ASSUME NEW r \in Requests, NEW v \in P!Versions, P!BlockContentPackVersion(r, v)
      PROVE  PacksInv'
  <2> PICK s : s = P!status(v, "blocked")
    OBVIOUS
  <2>1. P!Run(r, <<s>>) /\ UNCHANGED <<versions, adoptions, wasCurrent>>
    BY <1>7 DEF P!BlockContentPackVersion
  <2>2. <<s>> # <<>> /\ Orderly(<<s>>)
    BY OneStatement DEF P!status
  <2> QED  BY <2>1, <2>2, StartStep
<1>8. ASSUME NEW r \in Requests, P!Crash(r) PROVE PacksInv'
  <2>1. P!Run(r, <<>>) /\ UNCHANGED <<versions, adoptions, wasCurrent>>
    BY <1>8 DEF P!Crash
  <2> PICK todo : todo = <<>>
    OBVIOUS
  <2> QED  BY <2>1, StartStep
<1>9. CASE \E v \in P!Versions, snap \in P!Snapshot, ttl \in 0..MaxTime :
               P!handleMediaHandoffMint(v, snap, ttl)
  BY <1>1, <1>9 DEF P!handleMediaHandoffMint
<1>10. CASE \E t \in tokens : P!handleMediaHandoffRedeem(t)
  BY <1>1, <1>10 DEF P!handleMediaHandoffRedeem
<1>11. CASE \E key \in ReturnKeys, p \in Packs : P!CreateContentHandoff(key, p)
  BY <1>1, <1>11 DEF P!CreateContentHandoff
<1>12. CASE \E a \in PackAssets, print \in (0..MaxPrint) \cup {Missing} : P!UpdateLibrary(a, print)
  BY <1>1, <1>12 DEF P!UpdateLibrary
<1>13. CASE P!Tick
  BY <1>1, <1>13 DEF P!Tick
<1> QED
  BY <1>2, <1>3, <1>4, <1>5, <1>6, <1>7, <1>8, <1>9, <1>10, <1>11, <1>12, <1>13, StatusStep,
     InsertionStep, PointStep DEF P!PackNext

PacksHeld == focus = "packs" => PacksInv

\* What calls itself adopted or retired was current once, whatever failed or raced in
\* between: the request has moved a pointer before it stamps (AdoptContentPackVersion).
THEOREM AdoptionsWereCurrent == Spec => []AdoptedWasCurrent
<1>1. PacksHeld => AdoptedWasCurrent
  BY DEF PacksHeld, AdoptedWasCurrent, PacksInv
<1>2. Init => PacksHeld
  BY PacksInitInv DEF Init, PacksHeld
<1>3. PacksHeld /\ [Next]_allVars => PacksHeld'
  <2> SUFFICES ASSUME PacksHeld, [Next]_allVars, focus' = "packs"
               PROVE  PacksInv'
    BY DEF PacksHeld
  <2>1. focus = "packs" /\ [P!PackNext]_P!packVars
    BY StepsOf
  <2> QED  BY <2>1, PacksNextInv DEF PacksHeld
<1> QED  BY <1>1, <1>2, <1>3, PTL DEF Spec

-----------------------------------------------------------------------------
(* Content packs: what is left behind, when requests come one at a time *)

\* None is no version.
NoneIsNoVersion == None \notin Nat

Left(v) == versions[v].status \in {"retired", "blocked"}

PointedAt(v) == \E platform \in Platforms : adoptions[platform] = v

\* The pointer of the platform may move to v without leaving a version as adopted.
Replaceable(platform, v) == adoptions[platform] \in {None, v} \/ Left(adoptions[platform])

Pointing(platform, v, fresh) ==
    [do |-> "point", platform |-> platform, version |-> v, fresh |-> fresh]
Stamping(v) == P!status(v, "adopted")
Leaving(v)  == P!status(v, "retired")

\* What the only request under way still has to run: an insertion, a block, a stamp of a
\* version that is pointed at, or an adoption that retires what its pointer leaves.
Single(todo) ==
    \E s : /\ todo = <<s>>
           /\ \/ s.do = "insert"
              \/ s.do = "status" /\ (s.to = "blocked" \/ PointedAt(s.version))
Moving(todo, platform, v, point) ==
    /\ Replaceable(platform, v)
    /\ todo = <<point>> \/ todo = <<point, Stamping(v)>>
Retiring(todo, platform, v, point) ==
    /\ adoptions[platform] \in DOMAIN versions
    /\ \/ todo = <<Leaving(adoptions[platform]), point>>
       \/ todo = <<Leaving(adoptions[platform]), point, Stamping(v)>>
Adopts(todo, platform, v, fresh) ==
    \/ Moving(todo, platform, v, Pointing(platform, v, fresh))
    \/ Retiring(todo, platform, v, Pointing(platform, v, fresh))
InTurn(todo) ==
    \/ Single(todo)
    \/ \E platform \in Platforms, v \in DOMAIN versions, fresh \in BOOLEAN :
           Adopts(todo, platform, v, fresh)

Settled(v) == v \in DOMAIN versions /\ (PointedAt(v) \/ Left(v))

OneRequest == \A q, r \in Requests : packTask[q] # Idle /\ packTask[r] # Idle => q = r

TurnInv ==
    packMode = "serial" =>
        /\ OneRequest
        /\ \A r \in Requests : packTask[r] # Idle => InTurn(packTask[r])
        /\ \A v \in wasCurrent : Settled(v)

\* A request goes on alone: nobody else is under way.
LEMMA GoesAlone ==
    ASSUME PacksInv, OneRequest, NEW r \in Requests, NEW todo, P!Run(r, todo),
           packTask[r] # Idle \/ \A q \in Requests : packTask[q] = Idle,
           todo # <<>> => InTurn(todo)',
           \A v \in wasCurrent' : Settled(v)'
    PROVE  TurnInv'
<1>1. packTask' = [packTask EXCEPT ![r] = IF todo = <<>> THEN Idle ELSE todo]
  BY DEF P!Run
<1>2. \A q \in Requests : q # r => packTask'[q] = Idle
  BY <1>1 DEF OneRequest, PacksInv
<1>3. packTask'[r] # Idle => packTask'[r] = todo /\ todo # <<>>
  BY <1>1 DEF PacksInv
<1>4. OneRequest'
  BY <1>2 DEF OneRequest
<1>5. ASSUME NEW q \in Requests, packTask'[q] # Idle PROVE InTurn(packTask[q])'
  <2>1. packTask'[q] = todo /\ todo # <<>>
    BY <1>2, <1>3, <1>5
  <2>2. InTurn(todo)'
    BY <2>1
  <2> PICK rest : rest = packTask'[q]
    OBVIOUS
  <2>3. InTurn(rest)'
    BY <2>1, <2>2
  <2> QED  BY <2>3
<1> QED  BY <1>4, <1>5 DEF TurnInv

\* The rests of what a request has to run.
LEMMA Rests ==
    ASSUME NEW s1, NEW s2, NEW s3
    PROVE  /\ Tail(<<s1>>) = <<>> /\ Tail(<<s1, s2>>) = <<s2>>
           /\ Tail(<<s1, s2, s3>>) = <<s2, s3>>
           /\ <<s1>>[1] = s1 /\ <<s1, s2>>[1] = s1 /\ <<s1, s2, s3>>[1] = s1
           /\ <<s1>> # <<>> /\ <<s1, s2>> # <<>> /\ <<s1, s2, s3>> # <<>>
OBVIOUS

\* Two statements put together.
LEMMA Paired == \A s1, s2 : <<s1>> \o <<s2>> = <<s1, s2>>
<1> SUFFICES ASSUME NEW s1, NEW s2 PROVE <<s1>> \o <<s2>> = <<s1, s2>>
  OBVIOUS
<1> PICK X : X = {s1, s2}
  OBVIOUS
<1> PICK t : t = <<s1>> \o <<s2>>
  OBVIOUS
<1>1. <<s1>> \in Seq(X) /\ <<s2>> \in Seq(X) /\ <<s1, s2>> \in Seq(X)
  OBVIOUS
<1>2. t \in Seq(X) /\ Len(t) = 2 /\ t[1] = s1 /\ t[2] = s2
  BY <1>1
<1> PICK u : u = <<s1, s2>>
  OBVIOUS
<1>3. \A i \in 1..2 : t[i] = u[i]
  <2>1. u[1] = s1 /\ u[2] = s2
    OBVIOUS
  <2>2. \A i \in 1..2 : i = 1 \/ i = 2
    OBVIOUS
  <2> QED  BY <1>2, <2>1, <2>2
<1>4. t = u
  <2>1. u \in Seq(X) /\ Len(u) = 2
    OBVIOUS
  <2> QED  BY <1>2, <1>3, <2>1, SeqEqual
<1> QED  BY <1>4

\* Statements put together.
LEMMA Joined ==
    ASSUME NEW s1, NEW s2, NEW s3
    PROVE  /\ <<>> \o <<s2>> \o <<>> = <<s2>>
           /\ <<>> \o <<s2>> \o <<s3>> = <<s2, s3>>
           /\ <<s1>> \o <<s2>> \o <<>> = <<s1, s2>>
           /\ <<s1>> \o <<s2>> \o <<s3>> = <<s1, s2, s3>>
<1> PICK X : X = {s1, s2, s3}
  OBVIOUS
<1>1. /\ <<>> \in Seq(X) /\ <<s1>> \in Seq(X) /\ <<s2>> \in Seq(X) /\ <<s3>> \in Seq(X)
      /\ <<s1, s2>> \in Seq(X)
  OBVIOUS
<1>2. \A t \in Seq(X) : <<>> \o t = t /\ t \o <<>> = t
  BY ConcatEmptySeq
<1>3. <<s1>> \o <<s2>> = <<s1, s2>> /\ <<s2>> \o <<s3>> = <<s2, s3>>
  BY Paired
<1>4. <<s1, s2>> \o <<s3>> = <<s1, s2, s3>>
  <2> PICK t : t = <<s1, s2>> \o <<s3>>
    OBVIOUS
  <2>1. <<s1, s2, s3>> \in Seq(X)
    OBVIOUS
  <2>2. t \in Seq(X) /\ Len(t) = 3 /\ t[1] = s1 /\ t[2] = s2 /\ t[3] = s3
    OBVIOUS
  <2>3. \A i \in 1..3 : t[i] = <<s1, s2, s3>>[i]
    BY <2>2
  <2>4. t = <<s1, s2, s3>>
    BY <2>1, <2>2, <2>3, SeqEqual
  <2> QED  BY <2>4
<1>5. <<>> \o <<s2>> = <<s2>> /\ <<s2>> \o <<>> = <<s2>> /\ <<s1, s2>> \o <<>> = <<s1, s2>>
  BY <1>1, <1>2
<1> QED  BY <1>3, <1>4, <1>5

\* The statements of an adoption are of the form.
LEMMA AdoptionInTurn ==
    ASSUME NoneIsNoVersion, PacksInv, \A w \in wasCurrent : Settled(w),
           NEW platform \in Platforms, NEW v \in DOMAIN versions
    PROVE  InTurn(P!Adoption(v, platform))
<1> PICK prev : prev = adoptions[platform]
  OBVIOUS
<1> PICK fresh \in BOOLEAN : fresh = (prev = None)
  OBVIOUS
<1> PICK point : point = Pointing(platform, v, fresh)
  OBVIOUS
<1> PICK leave : leave = Leaving(prev)
  OBVIOUS
<1> PICK stamp_ : stamp_ = Stamping(v)
  OBVIOUS
<1>5. /\ <<>> \o <<point>> \o <<>> = <<point>>
      /\ <<>> \o <<point>> \o <<stamp_>> = <<point, stamp_>>
      /\ <<leave>> \o <<point>> \o <<>> = <<leave, point>>
      /\ <<leave>> \o <<point>> \o <<stamp_>> = <<leave, point, stamp_>>
  BY Joined
<1> PICK before : before = IF prev \notin {None, v} THEN <<leave>> ELSE <<>>
  OBVIOUS
<1> PICK after : after = IF versions[v].status # "adopted" THEN <<stamp_>> ELSE <<>>
  OBVIOUS
<1> PICK todo : todo = before \o <<point>> \o after
  OBVIOUS
<1>1. P!Adoption(v, platform) = todo
  BY DEF P!Adoption, Pointing, Leaving, Stamping
<1>2. after = <<stamp_>> \/ after = <<>>
  OBVIOUS
<1>3. CASE prev \in {None, v}
  <2>1. Replaceable(platform, v)
    BY <1>3 DEF Replaceable
  <2>2. before = <<>>
    BY <1>3
  <2>3. todo = <<point>> \/ todo = <<point, stamp_>>
    <3>1. CASE after = <<>>
      BY <1>5, <2>2, <3>1
    <3>2. CASE after = <<stamp_>>
      BY <1>5, <2>2, <3>2
    <3> QED  BY <1>2, <3>1, <3>2
  <2>4. Moving(todo, platform, v, point)
    BY <2>1, <2>3 DEF Moving
  <2> QED  BY <1>1, <2>4 DEF InTurn, Adopts
<1>4. CASE prev \notin {None, v}
  <2>1. adoptions[platform] \in DOMAIN versions
    BY <1>4 DEF PacksInv, Settled
  <2>2. before = <<leave>>
    BY <1>4
  <2>3. todo = <<leave, point>> \/ todo = <<leave, point, stamp_>>
    <3>1. CASE after = <<>>
      BY <1>5, <2>2, <3>1
    <3>2. CASE after = <<stamp_>>
      BY <1>5, <2>2, <3>2
    <3> QED  BY <1>2, <3>1, <3>2
  <2>4. Retiring(todo, platform, v, point)
    BY <2>1, <2>3 DEF Retiring
  <2> QED  BY <1>1, <2>4 DEF InTurn, Adopts
<1> QED  BY <1>3, <1>4

\* What the request under way is about to run, by its first statement.
LEMMA FirstInTurn ==
    ASSUME TurnInv, packMode = "serial", NEW r \in Requests, NEW do, P!Due(r, do)
    PROVE  OneRequest /\ packTask[r] # Idle /\ InTurn(packTask[r])
           /\ \A v \in wasCurrent : Settled(v)
BY DEF TurnInv, P!Due

\* A stamp or a block, or the retirement of a version that is about to be left.
LEMMA StatusInTurn ==
    ASSUME NoneIsNoVersion, PacksInv, TurnInv, packMode = "serial",
           NEW r \in Requests, P!SetStatus(r)
    PROVE  TurnInv'
<1> PICK todo : todo = packTask[r]
  OBVIOUS
<1> PICK s : s = todo[1]
  OBVIOUS
<1>1. /\ todo # <<>> /\ P!Now(r) = s /\ s.do = "status"
      /\ OneRequest /\ packTask[r] # Idle /\ InTurn(todo)
      /\ \A w \in wasCurrent : Settled(w)
  BY FirstStatement, FirstInTurn DEF P!SetStatus
<1>2. /\ versions' = [versions EXCEPT ![s.version].status = s.to]
      /\ P!Run(r, Tail(todo)) /\ UNCHANGED <<packMode, adoptions, wasCurrent>>
  BY <1>1 DEF P!SetStatus, P!Done
<1>3. /\ DOMAIN versions' = DOMAIN versions
      /\ \A w \in DOMAIN versions : /\ w # s.version => versions'[w] = versions[w]
                                    /\ w = s.version => versions'[w].status = s.to
  <2>1. DOMAIN versions' = DOMAIN versions
    BY <1>2
  <2>2. ASSUME NEW w \in DOMAIN versions
        PROVE  /\ w # s.version => versions'[w] = versions[w]
               /\ w = s.version => versions'[w].status = s.to
    <3>1. IsRow(versions[w])
      BY DEF PacksInv
    <3>2. w = s.version => versions'[w] = [versions[w] EXCEPT !.status = s.to]
      BY <1>2
    <3>3. w # s.version => versions'[w] = versions[w]
      BY <1>2
    <3> QED  BY <3>1, <3>2, <3>3 DEF IsRow
  <2> QED  BY <2>1, <2>2
<1>4. ASSUME NEW w \in wasCurrent,
             s.version = w => s.to \in {"retired", "blocked"} \/ PointedAt(w)
      PROVE  Settled(w)'
  <2>1. w \in DOMAIN versions /\ (PointedAt(w) \/ Left(w))
    BY <1>1 DEF Settled
  <2>2. CASE PointedAt(w)
    BY <1>2, <1>3, <2>1, <2>2 DEF Settled, PointedAt
  <2>3. CASE ~ PointedAt(w)
    BY <1>3, <1>4, <2>1, <2>3 DEF Settled, Left
  <2> QED  BY <2>2, <2>3
<1>5. CASE Single(todo)
  <2>1. todo = <<s>> /\ (s.to = "blocked" \/ PointedAt(s.version))
    BY <1>1, <1>5, Rests DEF Single
  <2>2. Tail(todo) = <<>>
    BY <2>1, Rests
  <2>3. \A w \in wasCurrent' : Settled(w)'
    BY <1>2, <1>4, <2>1
  <2> QED  BY <1>1, <1>2, <2>2, <2>3, GoesAlone
<1>6. ASSUME NEW platform \in Platforms, NEW v \in DOMAIN versions, NEW fresh \in BOOLEAN,
             Adopts(todo, platform, v, fresh)
      PROVE  TurnInv'
  <2> PICK point : point = Pointing(platform, v, fresh)
    OBVIOUS
  <2> PICK prev : prev = adoptions[platform]
    OBVIOUS
  <2> PICK rest : rest = Tail(todo)
    OBVIOUS
  <2>1. ~ Moving(todo, platform, v, point)
    <3>1. point.do = "point"
      BY DEF Pointing
    <3> QED  BY <1>1, <3>1, Rests DEF Moving
  <2>2. /\ prev \in DOMAIN versions
        /\ \/ todo = <<Leaving(prev), point>>
           \/ todo = <<Leaving(prev), point, Stamping(v)>>
    BY <1>6, <2>1 DEF Adopts, Retiring
  <2> PICK leave : leave = Leaving(prev)
    OBVIOUS
  <2> PICK stamp_ : stamp_ = Stamping(v)
    OBVIOUS
  <2>3. s = leave /\ (rest = <<point>> \/ rest = <<point, stamp_>>)
    <3>1. CASE todo = <<leave, point>>
      BY <3>1, Rests
    <3>2. CASE todo = <<leave, point, stamp_>>
      BY <3>2, Rests
    <3> QED  BY <2>2, <3>1, <3>2
  <2>4. s.version = prev /\ s.to = "retired"
    BY <2>3 DEF Leaving, P!status
  <2>5. \A w \in wasCurrent' : Settled(w)'
    BY <1>2, <1>4, <2>4
  <2>6. Replaceable(platform, v)'
    BY <1>2, <1>3, <2>2, <2>4 DEF Replaceable, Left
  <2>7. Moving(rest, platform, v, point)'
    BY <2>3, <2>6 DEF Moving, Stamping, P!status
  <2>8. InTurn(rest)'
    BY <1>3, <2>7 DEF InTurn, Adopts, Pointing
  <2>9. P!Run(r, rest)
    BY <1>2
  <2> QED  BY <1>1, <2>5, <2>8, <2>9, GoesAlone
<1> QED  BY <1>1, <1>5, <1>6 DEF InTurn

\* An insertion leaves the versions there are as they are.
LEMMA InsertionInTurn ==
    ASSUME PacksInv, TurnInv, packMode = "serial", NEW r \in Requests, P!InsertVersion(r)
    PROVE  TurnInv'
<1> PICK todo : todo = packTask[r]
  OBVIOUS
<1> PICK s : s = todo[1]
  OBVIOUS
<1>1. /\ todo # <<>> /\ P!Now(r) = s /\ s.do = "insert"
      /\ OneRequest /\ packTask[r] # Idle /\ InTurn(todo)
      /\ \A w \in wasCurrent : Settled(w)
  BY FirstStatement, FirstInTurn DEF P!InsertVersion
<1>2. /\ versions' = Append(versions, s.row) \/ versions' = versions
      /\ P!Run(r, Tail(todo)) /\ UNCHANGED <<adoptions, wasCurrent>>
  BY <1>1 DEF P!InsertVersion, P!Done
<1>3. \A w \in DOMAIN versions : w \in DOMAIN versions' /\ versions'[w] = versions[w]
  BY <1>2 DEF PacksInv
<1>4. \A w \in wasCurrent' : Settled(w)'
  BY <1>1, <1>2, <1>3 DEF Settled, PointedAt, Left
<1>5. Single(todo)
  <2>1. ASSUME NEW platform \in Platforms, NEW v \in DOMAIN versions, NEW fresh \in BOOLEAN,
               Adopts(todo, platform, v, fresh)
        PROVE  s.do # "insert"
    <3> PICK point : point = Pointing(platform, v, fresh)
      OBVIOUS
    <3> PICK leave : leave = Leaving(adoptions[platform])
      OBVIOUS
    <3>1. s = point \/ s = leave
      BY <2>1, Rests DEF Adopts, Moving, Retiring
    <3>2. point.do = "point" /\ leave.do = "status"
      BY DEF Pointing, Leaving, P!status
    <3> QED  BY <3>1, <3>2
  <2> QED  BY <1>1, <2>1 DEF InTurn
<1>6. Tail(todo) = <<>>
  BY <1>5, Rests DEF Single
<1> QED  BY <1>1, <1>2, <1>4, <1>6, GoesAlone

\* The pointer moves: what it leaves is retired already.
LEMMA PointInTurn ==
    ASSUME NoneIsNoVersion, PacksInv, TurnInv, packMode = "serial",
           NEW r \in Requests, P!Point(r)
    PROVE  TurnInv'
<1> PICK todo : todo = packTask[r]
  OBVIOUS
<1> PICK s : s = todo[1]
  OBVIOUS
<1>1. /\ todo # <<>> /\ P!Now(r) = s /\ s.do = "point"
      /\ OneRequest /\ packTask[r] # Idle /\ InTurn(todo)
      /\ \A w \in wasCurrent : Settled(w)
  BY FirstStatement, FirstInTurn DEF P!Point
<1>2. versions' = versions
  BY DEF P!Point
<1>3. CASE P!Run(r, <<>>) /\ UNCHANGED <<adoptions, wasCurrent>>
  <2>1. \A w \in wasCurrent' : Settled(w)'
    BY <1>1, <1>2, <1>3 DEF Settled, PointedAt, Left
  <2> PICK rest : rest = <<>>
    OBVIOUS
  <2> QED  BY <1>1, <1>3, <2>1, GoesAlone
<1>4. CASE /\ adoptions' = [adoptions EXCEPT ![s.platform] = s.version]
           /\ wasCurrent' = wasCurrent \cup {s.version} /\ P!Run(r, Tail(todo))
  <2>1. ~ Single(todo)
    BY <1>1, Rests DEF Single
  <2>2. PICK platform \in Platforms, v \in DOMAIN versions, fresh \in BOOLEAN :
            Adopts(todo, platform, v, fresh)
    BY <1>1, <2>1 DEF InTurn
  <2> PICK point : point = Pointing(platform, v, fresh)
    OBVIOUS
  <2> PICK leave : leave = Leaving(adoptions[platform])
    OBVIOUS
  <2> PICK stamp_ : stamp_ = Stamping(v)
    OBVIOUS
  <2> PICK rest : rest = Tail(todo)
    OBVIOUS
  <2>3. leave.do = "status" /\ point.platform = platform /\ point.version = v
    BY DEF Leaving, P!status, Pointing
  <2>4. Replaceable(platform, v) /\ (todo = <<point>> \/ todo = <<point, stamp_>>)
    <3>1. ~ Retiring(todo, platform, v, point)
      BY <1>1, <2>3, Rests DEF Retiring
    <3> QED  BY <2>2, <3>1 DEF Adopts, Moving
  <2>5. s = point /\ (rest = <<>> \/ rest = <<stamp_>>)
    <3>1. CASE todo = <<point>>
      BY <3>1, Rests
    <3>2. CASE todo = <<point, stamp_>>
      BY <3>2, Rests
    <3> QED  BY <2>4, <3>1, <3>2
  <2>6. /\ adoptions' = [adoptions EXCEPT ![platform] = v]
        /\ wasCurrent' = wasCurrent \cup {v}
    BY <1>4, <2>3, <2>5
  <2>7. PointedAt(v)'
    BY <2>6 DEF PointedAt, PacksInv
  <2>8. ASSUME NEW w \in wasCurrent' PROVE Settled(w)'
    <3>1. CASE w = v
      BY <1>2, <2>7, <3>1 DEF Settled
    <3>2. CASE w # v
      <4>1. w \in DOMAIN versions /\ (PointedAt(w) \/ Left(w))
        BY <1>1, <2>6, <3>2 DEF Settled
      <4>2. CASE Left(w)
        BY <1>2, <4>1, <4>2 DEF Settled, Left
      <4>3. CASE ~ Left(w)
        <5>1. w # None
          BY <4>1 DEF NoneIsNoVersion, PacksInv
        <5>2. adoptions[platform] # w
          BY <2>4, <3>2, <4>3, <5>1 DEF Replaceable
        <5>3. PICK other \in Platforms : adoptions[other] = w
          BY <4>1, <4>3 DEF PointedAt
        <5>4. adoptions'[other] = w
          BY <2>6, <5>2, <5>3 DEF PacksInv
        <5> QED  BY <1>2, <4>1, <5>4 DEF Settled, PointedAt
      <4> QED  BY <4>2, <4>3
    <3> QED  BY <3>1, <3>2
  <2>9. rest # <<>> => InTurn(rest)'
    <3>1. stamp_.do = "status" /\ stamp_.version = v
      BY DEF Stamping, P!status
    <3>2. rest # <<>> => Single(rest)'
      BY <2>5, <2>7, <3>1 DEF Single
    <3> QED  BY <3>2 DEF InTurn
  <2>10. P!Run(r, rest)
    BY <1>4
  <2> QED  BY <1>1, <2>8, <2>9, <2>10, GoesAlone
<1> QED  BY <1>1, <1>3, <1>4 DEF P!Point, P!Done

\* What a request has to run is in turn while no table changes.
LEMMA TurnStays ==
    ASSUME NEW todo, InTurn(todo), UNCHANGED <<versions, adoptions>>
    PROVE  InTurn(todo)'
BY DEF InTurn, Single, Adopts, Moving, Retiring, Replaceable, PointedAt, Left, Leaving,
   Stamping, Pointing, P!status

\* A request that starts while nobody is under way.
LEMMA StartInTurn ==
    ASSUME PacksInv, TurnInv, packMode = "serial", NEW r \in Requests, P!Free(r),
           NEW todo, P!Run(r, todo), InTurn(todo), UNCHANGED <<versions, adoptions, wasCurrent>>
    PROVE  TurnInv'
<1>1. OneRequest /\ \A q \in Requests : packTask[q] = Idle
  BY DEF TurnInv, P!Free
<1>2. \A w \in wasCurrent' : Settled(w)'
  BY DEF TurnInv, Settled, PointedAt, Left
<1>3. InTurn(todo)'
  BY TurnStays
<1> QED  BY <1>1, <1>2, <1>3, GoesAlone

\* A request of a single statement, an insertion or a block, starts.
LEMMA SingleStarts ==
    ASSUME PacksInv, TurnInv, packMode = "serial", NEW r \in Requests, P!Free(r),
           NEW s, s.do = "insert" \/ (s.do = "status" /\ s.to = "blocked"),
           P!Run(r, <<s>>), UNCHANGED <<versions, adoptions, wasCurrent>>
    PROVE  TurnInv'
<1> PICK todo : todo = <<s>>
  OBVIOUS
<1>1. InTurn(todo)
  BY DEF InTurn, Single
<1> QED  BY <1>1, StartInTurn

\* Every step keeps it.
LEMMA TurnNextInv ==
    ASSUME NoneIsNoVersion, PacksInv, TurnInv, [P!PackNext]_P!packVars
    PROVE  TurnInv'
<1>1. ASSUME UNCHANGED <<packMode, versions, adoptions, wasCurrent, packTask>>
      PROVE  TurnInv'
  <2>1. ASSUME NEW q \in Requests, packTask[q] # Idle, packMode = "serial"
        PROVE  InTurn(packTask[q])'
    <3> PICK todo : todo = packTask[q]
      OBVIOUS
    <3>1. InTurn(todo)
      BY <2>1 DEF TurnInv
    <3>2. InTurn(todo)' /\ packTask'[q] = todo
      BY <1>1, <3>1, TurnStays
    <3> PICK same : same = packTask'[q]
      OBVIOUS
    <3>3. InTurn(same)'
      BY <3>2
    <3> QED  BY <3>3
  <2> QED  BY <1>1, <2>1 DEF TurnInv, OneRequest, Settled, PointedAt, Left
<1>2. CASE UNCHANGED P!packVars
  BY <1>1, <1>2 DEF P!packVars
<1>3. packMode' = packMode
  BY DEF P!PackNext, P!packVars, P!CreateContentPack, P!CreateContentPackVersion,
     P!AddReturnCandidate, P!AdoptContentPackVersion, P!BlockContentPackVersion, P!SetStatus,
     P!InsertVersion, P!Point, P!Crash, P!handleMediaHandoffMint, P!handleMediaHandoffRedeem,
     P!CreateContentHandoff, P!UpdateLibrary, P!Tick
<1>4. CASE packMode # "serial"
  BY <1>3, <1>4 DEF TurnInv
<1>5. CASE P!PackNext /\ packMode = "serial"
  <2>1. CASE \E p \in Packs \ packs : P!CreateContentPack(p)
    BY <1>1, <2>1 DEF P!CreateContentPack
  <2>2. ASSUME NEW r \in Requests, NEW p, NEW spec, NEW to, P!Free(r),
               P!Run(r, P!insertion(p, spec, to)), UNCHANGED <<versions, adoptions, wasCurrent>>
        PROVE  TurnInv'
    <3>1. PICK s : P!Run(r, <<s>>) /\ s.do = "insert"
      <4> PICK s : s = [do |-> "insert", row |-> P!row(p, spec, to)]
        OBVIOUS
      <4> QED  BY <2>2 DEF P!insertion
    <3>2. P!Free(r) /\ UNCHANGED <<versions, adoptions, wasCurrent>>
      BY <2>2
    <3> QED  BY <1>5, <3>1, <3>2, SingleStarts
  <2>3. ASSUME NEW r \in Requests, NEW p \in packs, NEW spec \in P!Specs, NEW to \in P!Statuses,
               P!CreateContentPackVersion(r, p, spec, to)
        PROVE  TurnInv'
    BY <2>2, <2>3 DEF P!CreateContentPackVersion
  <2>4. ASSUME NEW r \in Requests, NEW p \in packs, NEW spec \in P!Specs,
               P!AddReturnCandidate(r, p, spec)
        PROVE  TurnInv'
    BY <2>2, <2>4 DEF P!AddReturnCandidate
  <2>5. ASSUME NEW r \in Requests, NEW v \in P!Versions, NEW platform \in Platforms,
               P!AdoptContentPackVersion(r, v, platform)
        PROVE  TurnInv'
    <3> PICK todo : todo = P!Adoption(v, platform)
      OBVIOUS
    <3>1. InTurn(todo)
      BY <1>5, AdoptionInTurn DEF TurnInv, P!Versions
    <3>2. P!Free(r) /\ P!Run(r, todo) /\ UNCHANGED <<versions, adoptions, wasCurrent>>
      BY <2>5 DEF P!AdoptContentPackVersion
    <3> QED  BY <1>5, <3>1, <3>2, StartInTurn
  <2>6. ASSUME NEW r \in Requests, NEW v \in P!Versions, P!BlockContentPackVersion(r, v)
        PROVE  TurnInv'
    <3> PICK s : s = P!status(v, "blocked")
      OBVIOUS
    <3>1. /\ P!Free(r) /\ P!Run(r, <<s>>) /\ UNCHANGED <<versions, adoptions, wasCurrent>>
          /\ s.do = "status" /\ s.to = "blocked"
      BY <2>6 DEF P!BlockContentPackVersion, P!status
    <3> QED  BY <1>5, <3>1, SingleStarts
  <2>7. ASSUME NEW r \in Requests PROVE ~ P!Crash(r)
    BY <1>5 DEF P!Crash
  <2>8. CASE \E v \in P!Versions, snap \in P!Snapshot, ttl \in 0..MaxTime :
                 P!handleMediaHandoffMint(v, snap, ttl)
    BY <1>1, <2>8 DEF P!handleMediaHandoffMint
  <2>9. CASE \E t \in tokens : P!handleMediaHandoffRedeem(t)
    BY <1>1, <2>9 DEF P!handleMediaHandoffRedeem
  <2>10. CASE \E key \in ReturnKeys, p \in Packs : P!CreateContentHandoff(key, p)
    BY <1>1, <2>10 DEF P!CreateContentHandoff
  <2>11. CASE \E a \in PackAssets, print \in (0..MaxPrint) \cup {Missing} :
                  P!UpdateLibrary(a, print)
    BY <1>1, <2>11 DEF P!UpdateLibrary
  <2>12. CASE P!Tick
    BY <1>1, <2>12 DEF P!Tick
  <2> QED
    BY <1>5, <2>1, <2>3, <2>4, <2>5, <2>6, <2>7, <2>8, <2>9, <2>10, <2>11, <2>12,
       StatusInTurn, InsertionInTurn, PointInTurn DEF P!PackNext
<1> QED  BY <1>2, <1>4, <1>5

TurnHeld == focus = "packs" => PacksInv /\ TurnInv

\* When requests come one at a time and none dies, no version is left behind as adopted:
\* the one a pointer leaves was retired before the pointer moved, and no stamp comes for a
\* version that no pointer names (AdoptContentPackVersion).
THEOREM NoneIsLeftAdopted ==
    ASSUME NoneIsNoVersion
    PROVE  Spec => []SupersededIsRetired
<1>1. TurnHeld => SupersededIsRetired
  BY DEF TurnHeld, TurnInv, SupersededIsRetired, P!SupersededIsRetired, Settled, PointedAt, Left
<1>2. Init => TurnHeld
  <2> SUFFICES ASSUME Init, focus = "packs" PROVE PacksInv /\ TurnInv
    BY DEF TurnHeld
  <2>1. P!PackInit
    BY DEF Init
  <2>2. TurnInv
    BY <2>1 DEF P!PackInit, TurnInv, OneRequest
  <2> QED  BY <2>1, <2>2, PacksInitInv
<1>3. TurnHeld /\ [Next]_allVars => TurnHeld'
  <2> SUFFICES ASSUME TurnHeld, [Next]_allVars, focus' = "packs"
               PROVE  PacksInv' /\ TurnInv'
    BY DEF TurnHeld
  <2>1. PacksInv /\ TurnInv /\ [P!PackNext]_P!packVars
    BY StepsOf DEF TurnHeld
  <2> QED  BY <2>1, PacksNextInv, TurnNextInv
<1> QED  BY <1>1, <1>2, <1>3, PTL DEF Spec

=============================================================================

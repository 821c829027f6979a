---------------------------- MODULE CopyJobsProofs ----------------------------
(***************************************************************************)
(* Theorems about copy jobs for every value of the constants: any number   *)
(* of jobs, drafts and requests, whatever the model answers and whatever   *)
(* the texts mention, with requests that interleave between their          *)
(* statements, and in the crashing mode die at any of them.                *)
(***************************************************************************)
EXTENDS CopyJobs, TLAPS, SequenceTheorems

\* No row at all is not a row.
NoneIsNoJob == None \notin Job

-----------------------------------------------------------------------------
(* What the decisions of copyjob do to a row *)

\* The row has left the states from which a task is submitted.
Moved(row) == row.state \notin {"quoted", "confirmed"}

Chosen(row) == row.state \in {"selected", "saved"}

\* A text says nothing that was withheld, unless it was published before.
Clear(snapshot, text) ==
    Mentions[text] \cap withheldTexts(snapshot) \subseteq confirmedCorpus(snapshot)

ClearDraft(snapshot, draft) ==
    /\ draft.title # Blank => Clear(snapshot, draft.title)
    /\ draft.intro # Blank => Clear(snapshot, draft.intro)
    /\ \A topic \in draft.topics : Clear(snapshot, topic)

Covered(row) == ClearDraft(row.snapshot, row.draft)

\* A row decided on another: of the same quote, no charge counted, no step back to
\* before the call, not chosen unless it was.
Follows(row, job) ==
    /\ row \in Job /\ row.snapshot = job.snapshot
    /\ row.chargeCount = job.chargeCount
    /\ Covered(job) => Covered(row)
    /\ Moved(job) => Moved(row)
    /\ Chosen(row) => Chosen(job)

\* A new state for a row.
LEMMA NewState ==
    ASSUME NEW job \in Job, NEW to \in States
    PROVE  LET row == [job EXCEPT !.state = to]
           IN  /\ row \in Job /\ row.state = to /\ row.snapshot = job.snapshot
               /\ row.chargeCount = job.chargeCount /\ row.draft = job.draft
BY DEF Job

\* A new state for a row that failed.
LEMMA Failed ==
    ASSUME NEW job \in Job, NEW to \in States
    PROVE  LET row == [job EXCEPT !.state = to, !.success = FALSE]
           IN  /\ row \in Job /\ row.state = to /\ row.snapshot = job.snapshot
               /\ row.chargeCount = job.chargeCount /\ row.draft = job.draft
BY DEF Job

\* The charge is counted once.
LEMMA Charged ==
    ASSUME NEW job \in Job
    PROVE  LET row == noteSubmit(job)
           IN  /\ row \in Job /\ row.state = job.state /\ row.snapshot = job.snapshot
               /\ row.chargeCount = 1 /\ row.draft = job.draft
BY DEF Job, noteSubmit

\* The empty draft.
LEMMA ComposeIsDraft ==
    Compose \in Draft /\ \A snapshot : ClearDraft(snapshot, Compose)
BY DEF Compose, Draft, Texts, ClearDraft

\* A quote is a row that nothing was charged for.
LEMMA QuoteIsRow ==
    ASSUME NEW facts \in FactSheets, campaign \in [title : Texts, intro : Texts],
           store \in Addresses
    PROVE  /\ Quote(facts) \in Job /\ Quote(facts).chargeCount = 0 /\ Covered(Quote(facts))
           /\ ~ Chosen(Quote(facts)) /\ Quote(facts).snapshot.facts = facts
<1>1. copySnapshot(facts) \in Snapshot /\ copySnapshot(facts).facts = facts
  BY DEF copySnapshot, Snapshot
<1> HIDE DEF copySnapshot
<1> QED  BY <1>1, ComposeIsDraft DEF Quote, Job, States, Covered, Chosen

\* What may be decided on a row before or after the call.
LEMMA DecisionsFollow ==
    ASSUME NEW job \in Job, NEW snapshot
    PROVE  /\ Follows(job, job) /\ Follows(Confirm(job, snapshot), job)
           /\ Follows(MarkInputChanged(job), job) /\ Follows(MarkQuota(job), job)
           /\ Follows(Revoke(job), job) /\ Follows(FinishIncomplete(job), job)
<1> DEFINE To(s) == [job EXCEPT !.state = s]
<1>1. ASSUME NEW s \in States, ~ (s \in {"selected", "saved"}), s # "quoted",
             s = "confirmed" => job.state = "quoted"
      PROVE  Follows(To(s), job)
  BY <1>1, NewState DEF Follows, Covered, Moved, Chosen
<1>2. Follows(job, job)
  BY DEF Follows
<1> HIDE DEF To
<1>3. Follows(MarkInputChanged(job), job)
  <2>1. Follows(To("input_changed"), job)
    BY <1>1 DEF States
  <2> QED  BY <1>2, <2>1 DEF MarkInputChanged, To
<1>4. Follows(Confirm(job, snapshot), job)
  <2>1. job.state = "quoted" => Follows(To("confirmed"), job)
    BY <1>1 DEF States
  <2> QED  BY <1>2, <1>3, <2>1 DEF Confirm, To
<1>5. Follows(MarkQuota(job), job)
  <2>1. Follows(To("quota_exceeded"), job)
    BY <1>1 DEF States
  <2> QED  BY <1>2, <2>1 DEF MarkQuota, To
<1>6. Follows(Revoke(job), job)
  <2>1. Follows(To("revoked"), job)
    BY <1>1 DEF States
  <2> QED  BY <1>2, <2>1 DEF Revoke, To
<1>7. Follows(FinishIncomplete(job), job)
  <2>1. PICK row : row = FinishIncomplete(job)
    OBVIOUS
  <2>2. /\ row \in Job /\ row.snapshot = job.snapshot /\ row.chargeCount = job.chargeCount
        /\ row.draft = Compose /\ row.state = "generation_incomplete"
    BY <2>1, ComposeIsDraft DEF FinishIncomplete, Job, States
  <2>3. Follows(row, job)
    BY <2>2, ComposeIsDraft DEF Follows, Covered, Moved, Chosen
  <2> QED  BY <2>1, <2>3
<1> QED  BY <1>2, <1>3, <1>4, <1>5, <1>6, <1>7

\* What a model said is kept only if it leaks nothing.
LEMMA ModelIsCovered ==
    ASSUME NEW snapshot \in Snapshot, NEW out \in ModelOutputs
    PROVE  /\ ApplyModel(snapshot, out) \in Draft
           /\ ClearDraft(snapshot, ApplyModel(snapshot, out))
<1>1. ASSUME NEW text \in Texts
      PROVE  /\ keep(snapshot, text) \in Texts
             /\ keep(snapshot, text) # Blank => Clear(snapshot, keep(snapshot, text))
  <2>1. CASE leaks(snapshot, text)
    BY <2>1 DEF keep, Texts
  <2>2. CASE ~ leaks(snapshot, text)
    BY <2>2 DEF keep, leaks, Clear
  <2> QED  BY <2>1, <2>2
<1>2. out.title \in Texts /\ out.intro \in Texts /\ \A topic \in out.topics : topic \in Texts
  BY DEF Texts
<1> HIDE DEF keep
<1>3. PICK title : title = keep(snapshot, out.title)
  OBVIOUS
<1>4. PICK intro : intro = keep(snapshot, out.intro)
  OBVIOUS
<1>5. PICK topics : topics = {keep(snapshot, topic) : topic \in out.topics} \ {Blank}
  OBVIOUS
<1>6. topics \in SUBSET Texts /\ \A topic \in topics : Clear(snapshot, topic)
  BY <1>1, <1>2, <1>5
<1>7. PICK usable \in BOOLEAN : usable = (title # Blank)
  OBVIOUS
<1>8. PICK draft : draft = [title |-> title, intro |-> intro, topics |-> topics,
                            usable |-> usable]
  OBVIOUS
<1>9. /\ draft.title = title /\ draft.intro = intro /\ draft.topics = topics
      /\ draft \in Draft
  BY <1>1, <1>2, <1>3, <1>4, <1>6, <1>8 DEF Draft
<1>10. ClearDraft(snapshot, draft)
  BY <1>1, <1>2, <1>3, <1>4, <1>6, <1>9 DEF ClearDraft
<1>11. ApplyModel(snapshot, out) = draft
  BY <1>3, <1>4, <1>5, <1>7, <1>8 DEF ApplyModel
<1> QED  BY <1>9, <1>10, <1>11

\* How a call ends: the row is the quote's, has left the states before the call, and
\* counts a charge only for a task that was accepted.
LEMMA CallEnds ==
    ASSUME NEW job \in Job, job.state = "generating", Covered(job),
           NEW ending \in Endings, NEW accepted \in BOOLEAN, NEW out,
           out \in ModelOutputs \/ ending # "answer",
           ending # "answer" \/ accepted
    PROVE  LET row == finishModelCall(job, ending, accepted, out)
           IN  /\ row \in Job /\ Moved(row) /\ ~ Chosen(row) /\ Covered(row)
               /\ row.chargeCount = job.chargeCount \/ (accepted /\ row.chargeCount = 1)
<1> DEFINE Ended(row) == /\ row \in Job /\ Moved(row) /\ ~ Chosen(row) /\ Covered(row)
                         /\ row.chargeCount = job.chargeCount \/ (accepted /\ row.chargeCount = 1)
           base == IF accepted THEN noteSubmit(job) ELSE job
<1>1. /\ base \in Job /\ base.snapshot = job.snapshot /\ base.draft = job.draft
      /\ base.chargeCount = job.chargeCount \/ (accepted /\ base.chargeCount = 1)
  BY Charged
<1>2. job.snapshot \in Snapshot
  BY DEF Job
<1> HIDE DEF base
<1>3. PICK b : b = base
  OBVIOUS
<1>4. ASSUME NEW to \in States, to \notin {"quoted", "confirmed", "selected", "saved"}
      PROVE  Ended([b EXCEPT !.state = to]) /\ Ended([b EXCEPT !.state = to, !.success = FALSE])
  <2>1. PICK row : row = [b EXCEPT !.state = to]
    OBVIOUS
  <2>2. PICK other : other = [b EXCEPT !.state = to, !.success = FALSE]
    OBVIOUS
  <2>0. b \in Job
    BY <1>1, <1>3
  <2>3. /\ row \in Job /\ row.state = to /\ row.snapshot = b.snapshot
        /\ row.chargeCount = b.chargeCount /\ row.draft = b.draft
    BY <2>0, <2>1, <1>4, NewState
  <2>5. /\ other \in Job /\ other.state = to /\ other.snapshot = b.snapshot
        /\ other.chargeCount = b.chargeCount /\ other.draft = b.draft
    BY <2>0, <2>2, <1>4, Failed
  <2>4. Ended(row) /\ Ended(other)
    BY <1>1, <1>3, <1>4, <2>3, <2>5 DEF Covered, Moved, Chosen
  <2> QED  BY <2>1, <2>2, <2>4
<1>5. Timeout(job, accepted) = [b EXCEPT !.state = "timed_out", !.success = FALSE]
  BY <1>3 DEF Timeout, base
<1>6. ASSUME NEW draft \in Draft,
             ClearDraft(job.snapshot, draft)
      PROVE  Ended(FinishModel(job, draft, accepted))
  <2>1. PICK state : state = IF draft.usable THEN "generated" ELSE "generation_incomplete"
    OBVIOUS
  <2>2. PICK row : row = [b EXCEPT !.draft = draft, !.success = draft.usable, !.state = state]
    OBVIOUS
  <2>3. state \in {"generated", "generation_incomplete"} /\ state \in States
    BY <2>1 DEF States
  <2>4. /\ row \in Job /\ row.state = state /\ row.snapshot = b.snapshot
        /\ row.chargeCount = b.chargeCount /\ row.draft = draft
    BY <1>1, <1>3, <2>2, <2>3 DEF Job, Draft
  <2>5. PICK sealed : sealed = seal(row)
    OBVIOUS
  <2>6. /\ sealed \in Job /\ sealed.state = state /\ sealed.snapshot = b.snapshot
        /\ sealed.chargeCount = b.chargeCount /\ sealed.draft = draft
    BY <2>4, <2>5 DEF seal, Job, Draft
  <2>7. FinishModel(job, draft, accepted) = sealed
    BY <1>3, <2>1, <2>2, <2>5 DEF FinishModel, base
  <2> QED  BY <1>1, <1>3, <1>6, <2>3, <2>6, <2>7 DEF Covered,
     Moved, Chosen
<1>7. Ended(FinishIncomplete(job))
  BY DecisionsFollow DEF Follows, Moved, Chosen
<1>8. ending = "timeout" => Ended(Timeout(job, accepted))
  BY <1>4, <1>5 DEF States
<1>9. ending = "quota" => Ended(finishModelCall(job, ending, accepted, out))
  <2>1. CASE accepted
    <3>1. PICK row : row = [b EXCEPT !.state = "timed_out", !.success = FALSE]
      OBVIOUS
    <3>2. PICK over : over = [row EXCEPT !.state = "quota_exceeded"]
      OBVIOUS
    <3>3. Ended(row)
      BY <1>4, <3>1 DEF States
    <3>4. /\ over \in Job /\ over.state = "quota_exceeded" /\ over.snapshot = row.snapshot
          /\ over.chargeCount = row.chargeCount /\ over.draft = row.draft
      <4>1. row \in Job /\ "quota_exceeded" \in States
        BY <3>3 DEF States
      <4> QED  BY <3>2, <4>1, NewState
    <3>5. Ended(over)
      BY <3>3, <3>4 DEF Covered, Moved, Chosen
    <3>6. ending = "quota" => finishModelCall(job, ending, accepted, out) = over
      BY <1>5, <2>1, <3>1, <3>2 DEF finishModelCall
    <3> QED  BY <3>5, <3>6
  <2>2. CASE ~ accepted
    <3>1. MarkQuota(job) = [b EXCEPT !.state = "quota_exceeded"]
      BY <1>3, <2>2 DEF MarkQuota, frozen, base
    <3>2. Ended(MarkQuota(job))
      BY <1>4, <3>1 DEF States
    <3> QED  BY <2>2, <3>2 DEF finishModelCall
  <2> QED  BY <2>1, <2>2
<1>10. ending = "error" => Ended(finishModelCall(job, ending, accepted, out))
  <2>1. accepted => Ended(FinishModel(job, Compose, TRUE))
    BY <1>6, ComposeIsDraft
  <2> QED  BY <1>7, <2>1 DEF finishModelCall
<1>11. ending = "answer" => Ended(finishModelCall(job, ending, accepted, out))
  <2>1. ending = "answer" => Ended(FinishModel(job, ApplyModel(job.snapshot, out), TRUE))
    BY <1>2, <1>6, ModelIsCovered
  <2> QED  BY <2>1 DEF finishModelCall
<1>12. Ended(finishModelCall(job, ending, accepted, out))
  BY <1>7, <1>8, <1>9, <1>10, <1>11 DEF finishModelCall, Endings
<1> QED  BY <1>12

-----------------------------------------------------------------------------
(* The inductive invariant: what a request under way may rely on *)

\* The requests of each kind, by what they are going to do next.
JobTask   == [do : {"write", "swap", "call", "poll", "attach", "accept", "upsert"},
              job : Jobs, row : Job]
SaveTask  == [do : {"campaign"}, job : Jobs, row : Job, title : BOOLEAN, intro : BOOLEAN]
DraftTask == [do : {"insert"}, job : DraftKeys, row : {Compose}]

Accepted(k) == k \in ToSet(versions)

\* A row, stored or held: a charge it counts was a task accepted; with one request at
\* a time, a job with a task has left the states that submit one; its texts are covered.
RowSound(k, row) ==
    /\ row \in Job
    /\ row.chargeCount <= submitted[k]
    /\ serial /\ submitted[k] > 0 => Moved(row)
    /\ Covered(row)

JobSound(k) ==
    /\ jobs[k] # None => RowSound(k, jobs[k]) /\ (Chosen(jobs[k]) => Accepted(k))
    /\ serial => submitted[k] <= 1 /\ (submitted[k] > 0 => jobs[k] # None)

\* With one request at a time, the job of a call that runs says that it is generating.
Generating(k, row) ==
    /\ row.state = "generating"
    /\ serial => jobs[k] # None /\ jobs[k].state = "generating"

\* A field that is going to be written has a text; with one request at a time, it
\* still says what was quoted.
Writable(t) ==
    /\ t.title => t.row.draft.title # Blank
                  /\ (serial => campaign.title = t.row.snapshot.title)
    /\ t.intro => t.row.draft.intro # Blank
                  /\ (serial => campaign.intro = t.row.snapshot.intro)

TaskSound(t) ==
    \/ t \in DraftTask
    \/ /\ t \in JobTask \cup SaveTask
       /\ RowSound(t.job, t.row)
       /\ t.do # "accept" /\ Chosen(t.row) => Accepted(t.job)
       /\ t.do \in {"swap", "call"} /\ serial => submitted[t.job] = 0
       /\ t.do = "swap" => t.row.state \in {"generating", "generation_incomplete"}
       /\ t.do \in {"call", "poll"} => Generating(t.job, t.row)
       /\ t.do = "poll" => submitted[t.job] > 0
       /\ t.do \in {"campaign", "upsert"} => t.row.state = "selected"
       /\ t.do = "campaign" => Writable(t)

\* The requests under way.
Held == {task[r] : r \in Requests} \ {Idle}

TasksSound ==
    /\ task = [r \in Requests |-> task[r]]
    /\ \A t \in Held : TaskSound(t)
    /\ serial => \A q, r \in Requests : task[q] # Idle /\ task[r] # Idle => q = r

\* The tables' types; what the properties' own text does not fix.
Columns ==
    /\ TypeOK
    /\ versions \in Seq(Jobs \cup DraftKeys)

IInv == Columns /\ TasksSound /\ \A k \in Jobs : JobSound(k)

-----------------------------------------------------------------------------
(* What a step leaves to the others *)

\* What only grows: the tasks submitted and the versions.
Grows ==
    /\ mode' = mode
    /\ \A k \in Jobs : submitted[k] <= submitted'[k]
    /\ ToSet(versions) \subseteq ToSet(versions')
    /\ submitted' \in [Jobs -> Nat]

\* Requests in parallel rely on nothing that another may take back.
LEMMA OthersStay ==
    ASSUME IInv, Grows, ~ serial, NEW t, TaskSound(t)
    PROVE  TaskSound(t)'
<1>1. CASE t \in DraftTask
  BY <1>1 DEF TaskSound
<1>2. CASE t \notin DraftTask
  <2>1. t \in JobTask \cup SaveTask /\ t.job \in Jobs /\ t.row \in Job
    BY <1>2 DEF TaskSound, JobTask, SaveTask
  <2>2. t.row.chargeCount \in Nat /\ submitted[t.job] \in Nat /\ submitted'[t.job] \in Nat
    BY <2>1 DEF Job, IInv, Columns, TypeOK, Grows
  <2>3. RowSound(t.job, t.row)'
    <3>1. t.row.chargeCount <= submitted'[t.job]
      BY <1>2, <2>1, <2>2 DEF TaskSound, RowSound, Grows
    <3> QED  BY <1>2, <3>1 DEF TaskSound, RowSound, Grows, serial
  <2>4. Accepted(t.job) => Accepted(t.job)'
    BY DEF Accepted, Grows
  <2>5. submitted[t.job] > 0 => submitted'[t.job] > 0
    BY <2>1, <2>2 DEF Grows
  <2>6. Generating(t.job, t.row) => Generating(t.job, t.row)'
    BY DEF Generating, Grows, serial
  <2>7. Writable(t) => Writable(t)'
    BY DEF Writable, Grows, serial
  <2> QED  BY <1>2, <2>1, <2>3, <2>4, <2>5, <2>6, <2>7 DEF TaskSound, Grows, serial
<1> QED  BY <1>1, <1>2

\* What a request relies on, when nothing it relies on was touched.
LEMMA NothingTouched ==
    ASSUME UNCHANGED <<mode, campaign, jobs, versions, submitted>>, NEW t, TaskSound(t)
    PROVE  TaskSound(t)'
BY DEF TaskSound, RowSound, Accepted, Generating, Writable, serial

\* A request begins or goes on; one at a time, nobody else is under way.
LEMMA Goes ==
    ASSUME IInv, Grows, NEW r \in Requests, NEW t, Begin(r, t),
           task[r] # Idle \/ Free(r), t # Idle => TaskSound(t)'
    PROVE  TasksSound'
<1>1. task = [q \in Requests |-> task[q]] /\ task' = [task EXCEPT ![r] = t]
  BY DEF Begin, IInv, TasksSound
<1>2. task' = [q \in Requests |-> task'[q]] /\ task'[r] = t
  BY <1>1
<1>3. \A q \in Requests \ {r} : task'[q] = task[q]
  BY <1>1
<1>4. serial => \A q \in Requests \ {r} : task[q] = Idle
  BY DEF IInv, TasksSound, Free
<1>5. ASSUME NEW u \in Held' PROVE TaskSound(u)'
  <2>1. PICK q \in Requests : u = task'[q]
    BY <1>5 DEF Held
  <2>2. u # Idle
    BY <1>5 DEF Held
  <2>3. CASE q = r
    BY <1>2, <2>1, <2>2, <2>3
  <2>4. CASE q # r
    <3>1. u = task[q] /\ u \in Held
      BY <1>3, <2>1, <2>2, <2>4 DEF Held
    <3>2. ~ serial /\ TaskSound(u)
      BY <1>4, <2>2, <2>4, <3>1 DEF IInv, TasksSound
    <3> QED  BY <3>2, OthersStay
  <2> QED  BY <2>3, <2>4
<1>6. serial' = serial
  BY DEF Grows, serial
<1>7. serial' => \A q, s \in Requests : task'[q] # Idle /\ task'[s] # Idle => q = s
  BY <1>3, <1>4, <1>6
<1> QED  BY <1>2, <1>5, <1>7 DEF TasksSound

\* Initially there are no jobs.
LEMMA InitInv == Init => IInv
<1> SUFFICES ASSUME Init PROVE IInv
  OBVIOUS
<1>1. Columns
  <2>1. versions = <<>> /\ <<>> \in Seq(Jobs \cup DraftKeys)
    BY DEF Init
  <2>2. TypeOK
    BY TextsAssumption DEF Init, TypeOK, Texts
  <2> QED  BY <2>1, <2>2 DEF Columns
<1>2. Held = {} /\ TasksSound
  BY DEF Init, Held, TasksSound
<1>3. \A k \in Jobs : JobSound(k)
  BY DEF Init, JobSound
<1> QED  BY <1>1, <1>2, <1>3 DEF IInv

-----------------------------------------------------------------------------
(* Requests that read and decide *)

\* What a request is going to do with a row it may keep.
LEMMA SoundTask ==
    ASSUME NEW k \in Jobs, NEW row, RowSound(k, row), Chosen(row) => Accepted(k),
           NEW do \in {"write", "attach"}
    PROVE  TaskSound([do |-> do, job |-> k, row |-> row])
BY DEF TaskSound, JobTask, RowSound

\* A row decided on a sound one is sound.
LEMMA SoundDecision ==
    ASSUME IInv, NEW k \in Jobs, NEW job, RowSound(k, job), NEW row, Follows(row, job)
    PROVE  /\ RowSound(k, row)
           /\ (Chosen(job) => Accepted(k)) => (Chosen(row) => Accepted(k))
BY DEF RowSound, Follows

\* A request that has only read and decided.
LEMMA Decides ==
    ASSUME IInv, NEW r \in Requests, NEW t, Begin(r, t), task[r] # Idle \/ Free(r),
           t # Idle => TaskSound(t),
           UNCHANGED <<mode, campaign, store, jobs, drafts, versions, savedCopy, submitted, edits>>
    PROVE  IInv'
<1>1. Grows
  BY DEF Grows, IInv, Columns, TypeOK
<1>2. TasksSound'
  BY <1>1, Goes, NothingTouched
<1>3. \A k \in Jobs : JobSound(k)'
  BY DEF IInv, JobSound, RowSound, Accepted, serial
<1>4. Columns'
  BY DEF IInv, Columns, TypeOK
<1> QED  BY <1>2, <1>3, <1>4 DEF IInv

\* A stored row.
LEMMA StoredRow ==
    ASSUME IInv, NEW k \in Jobs, jobs[k] # None
    PROVE  jobs[k] \in Job /\ RowSound(k, jobs[k]) /\ (Chosen(jobs[k]) => Accepted(k))
BY DEF IInv, JobSound, RowSound

\* Confirming, revoking: a decision on the stored row is going to be written.
LEMMA DecisionStep ==
    ASSUME IInv, NEW r \in Requests, NEW k \in Jobs,
           handleCopyJobConfirm(r, k) \/ handleCopyJobRevoke(r, k)
    PROVE  IInv'
<1> PICK job : job = jobs[k]
  OBVIOUS
<1>1. job \in Job /\ RowSound(k, job) /\ (Chosen(job) => Accepted(k)) /\ Free(r)
  BY StoredRow DEF handleCopyJobConfirm, handleCopyJobRevoke
<1>2. PICK row : /\ Follows(row, job) /\ Begin(r, write(k, row))
                 /\ UNCHANGED <<mode, campaign, store, jobs, drafts, versions, savedCopy,
                                submitted, edits>>
  BY <1>1, DecisionsFollow DEF handleCopyJobConfirm, handleCopyJobRevoke
<1>3. TaskSound(write(k, row))
  BY <1>1, <1>2, SoundDecision, SoundTask DEF write
<1> QED  BY <1>1, <1>2, <1>3, Decides

\* What handleCopyJobGenerate decides.
LEMMA GenerateStep ==
    ASSUME IInv, NEW r \in Requests, NEW k \in Jobs, NEW ready \in BOOLEAN,
           handleCopyJobGenerate(r, k, ready)
    PROVE  IInv'
<1> PICK job : job = jobs[k]
  OBVIOUS
<1>1. job \in Job /\ RowSound(k, job) /\ (Chosen(job) => Accepted(k)) /\ Free(r)
  BY StoredRow DEF handleCopyJobGenerate
<1> PICK to : to = IF ready THEN "generating" ELSE "generation_incomplete"
  OBVIOUS
<1> PICK row : row = [job EXCEPT !.state = to]
  OBVIOUS
<1>2. PICK t : t = PlanGenerate(k, ready)
  OBVIOUS
<1>3. \/ t = Idle
      \/ t = write(k, MarkInputChanged(job))
      \/ t = write(k, MarkQuota(job))
      \/ job.state = "confirmed" /\ t = perform("swap", k, row)
      \/ t = perform("attach", k, job)
  BY <1>2 DEF PlanGenerate
<1>4. to \in {"generating", "generation_incomplete"} /\ to \in States
  BY DEF States
<1>5. /\ row \in Job /\ row.state = to /\ row.snapshot = job.snapshot
      /\ row.chargeCount = job.chargeCount /\ row.draft = job.draft
  BY <1>1, <1>4, NewState
<1>6. TaskSound(write(k, MarkInputChanged(job))) /\ TaskSound(write(k, MarkQuota(job)))
  BY <1>1, DecisionsFollow, SoundDecision, SoundTask DEF write
<1>7. TaskSound(perform("attach", k, job))
  BY <1>1, SoundTask DEF perform
<1>8. job.state = "confirmed" => TaskSound(perform("swap", k, row))
  <2> SUFFICES ASSUME job.state = "confirmed" PROVE TaskSound(perform("swap", k, row))
    OBVIOUS
  <2>1. submitted[k] \in Nat /\ (serial => submitted[k] = 0)
    BY <1>1 DEF RowSound, Moved, IInv, Columns, TypeOK
  <2>2. RowSound(k, row) /\ ~ Chosen(row)
    BY <1>1, <1>4, <1>5 DEF RowSound, Moved, Chosen, Covered
  <2>3. PICK s : s = perform("swap", k, row)
    OBVIOUS
  <2>4. s \in JobTask /\ s.do = "swap" /\ s.job = k /\ s.row = row
    BY <1>5, <2>3 DEF perform, JobTask
  <2>5. TaskSound(s)
    BY <1>4, <1>5, <2>1, <2>2, <2>4 DEF TaskSound
  <2> QED  BY <2>3, <2>5
<1>9. t # Idle => TaskSound(t)
  BY <1>3, <1>6, <1>7, <1>8
<1>10. /\ Begin(r, t)
       /\ UNCHANGED <<mode, campaign, store, jobs, drafts, versions, savedCopy, submitted, edits>>
  BY <1>2 DEF handleCopyJobGenerate
<1> QED  BY <1>1, <1>9, <1>10, Decides

\* A draft is chosen: it is accepted before the row says so.
LEMMA SelectStep ==
    ASSUME IInv, NEW r \in Requests, NEW k \in Jobs, handleCopyJobSelect(r, k)
    PROVE  IInv'
<1> PICK job : job = jobs[k]
  OBVIOUS
<1> PICK row : row = [job EXCEPT !.state = "selected"]
  OBVIOUS
<1>1. job \in Job /\ RowSound(k, job) /\ Free(r) /\ Selectable(job)
  BY StoredRow DEF handleCopyJobSelect
<1>2. /\ row \in Job /\ row.state = "selected" /\ row.snapshot = job.snapshot
      /\ row.chargeCount = job.chargeCount /\ row.draft = job.draft
  <2>1. "selected" \in States
    BY DEF States
  <2> QED  BY <1>1, <2>1, NewState
<1>3. RowSound(k, row)
  BY <1>1, <1>2 DEF RowSound, Moved, Covered
<1> PICK t : t = perform("accept", k, row)
  OBVIOUS
<1>4. t \in JobTask /\ t.do = "accept" /\ t.job = k /\ t.row = row
  BY <1>2 DEF perform, JobTask
<1>5. TaskSound(t)
  BY <1>3, <1>4 DEF TaskSound
<1>6. /\ Begin(r, t)
      /\ UNCHANGED <<mode, campaign, store, jobs, drafts, versions, savedCopy, submitted, edits>>
  BY DEF handleCopyJobSelect
<1> QED  BY <1>1, <1>5, <1>6, Decides

\* A save decides on the campaign as it is, for each field.
LEMMA SaveStep ==
    ASSUME IInv, NEW r \in Requests, NEW k \in Jobs, handleCopyJobSave(r, k)
    PROVE  IInv'
<1> PICK job : job = jobs[k]
  OBVIOUS
<1>1. job \in Job /\ RowSound(k, job) /\ (Chosen(job) => Accepted(k)) /\ Free(r)
  BY StoredRow DEF handleCopyJobSave
<1> PICK title : title = WriteTitle(job, campaign)
  OBVIOUS
<1> PICK intro : intro = WriteIntro(job, campaign)
  OBVIOUS
<1> PICK s : s = [do |-> "campaign", job |-> k, row |-> job, title |-> title, intro |-> intro]
  OBVIOUS
<1>2. PICK t : /\ (t = s /\ PlanSaveAllows(job, campaign)) \/ t = write(k, job)
               /\ Begin(r, t)
               /\ UNCHANGED <<mode, campaign, store, jobs, drafts, versions, savedCopy,
                              submitted, edits>>
  BY DEF handleCopyJobSave
<1>3. TaskSound(write(k, job))
  BY <1>1, SoundTask DEF write
<1>4. title \in BOOLEAN /\ intro \in BOOLEAN
  BY DEF WriteTitle, WriteIntro
<1>5. /\ s \in SaveTask /\ s.do = "campaign" /\ s.job = k /\ s.row = job
      /\ s.title = title /\ s.intro = intro
  BY <1>1, <1>4 DEF SaveTask
<1>6. Writable(s)
  BY <1>5 DEF Writable, WriteTitle, WriteIntro
<1>7. PlanSaveAllows(job, campaign) => TaskSound(s)
  BY <1>1, <1>5, <1>6 DEF TaskSound, PlanSaveAllows
<1> QED  BY <1>1, <1>2, <1>3, <1>7, Decides

-----------------------------------------------------------------------------
(* Statements that write *)

\* What a request under way may rely on.
LEMMA HeldTask ==
    ASSUME IInv, NEW r \in Requests, NEW do, Due(r, do)
    PROVE  /\ task[r] # Idle /\ task[r].do = do /\ TaskSound(task[r])
           /\ do # "insert" => /\ task[r] \in JobTask \cup SaveTask
                               /\ task[r].job \in Jobs /\ task[r].row \in Job
                               /\ RowSound(task[r].job, task[r].row)
<1>1. task[r] # Idle /\ task[r].do = do
  BY DEF Due
<1>2. TaskSound(task[r])
  BY <1>1 DEF IInv, TasksSound, Held
<1>3. task[r] \in DraftTask => task[r].do = "insert"
  BY DEF DraftTask
<1> QED  BY <1>1, <1>2, <1>3 DEF TaskSound, JobTask, SaveTask

\* A row is stored.
LEMMA Stores ==
    ASSUME NoneIsNoJob, IInv, NEW k \in Jobs, NEW row, RowSound(k, row),
           Chosen(row) => Accepted(k),
           jobs' = [jobs EXCEPT ![k] = row], UNCHANGED <<mode, submitted, versions>>
    PROVE  /\ \A j \in Jobs : JobSound(j)'
           /\ jobs' \in [Jobs -> Job \cup {None}] /\ jobs'[k] = row
<1>1. jobs \in [Jobs -> Job \cup {None}] /\ row \in Job
  BY DEF IInv, Columns, TypeOK, RowSound
<1>2. jobs' \in [Jobs -> Job \cup {None}] /\ jobs'[k] = row
      /\ \A j \in Jobs \ {k} : jobs'[j] = jobs[j]
  BY <1>1
<1>3. ASSUME NEW j \in Jobs PROVE JobSound(j)'
  <2>1. JobSound(j)
    BY DEF IInv
  <2>2. CASE j = k
    <3>1. row # None
      BY <1>1 DEF NoneIsNoJob
    <3>2. RowSound(k, row)' /\ (Chosen(row) => Accepted(k)')
      BY DEF RowSound, serial, Accepted
    <3> QED  BY <1>2, <2>1, <2>2, <3>1, <3>2 DEF JobSound, serial
  <2>3. CASE j # k
    <3>1. jobs'[j] = jobs[j]
      BY <1>2, <2>3
    <3> QED  BY <2>1, <3>1 DEF JobSound, RowSound, serial, Accepted
  <2> QED  BY <2>2, <2>3
<1> QED  BY <1>2, <1>3

\* A quote: nothing was submitted for its key while the requests come one at a time.
LEMMA QuoteStep ==
    ASSUME NoneIsNoJob, IInv, NEW r \in Requests, NEW k \in Jobs, NEW facts \in FactSheets,
           handleCopyJobQuote(r, k, facts)
    PROVE  IInv'
<1> PICK row : row = Quote(facts)
  OBVIOUS
<1>1. /\ Free(r) /\ Begin(r, write(k, row))
      /\ UNCHANGED <<mode, campaign, store, drafts, versions, savedCopy, submitted, edits>>
      /\ \/ jobs[k] = None /\ jobs' = [jobs EXCEPT ![k] = row]
         \/ jobs[k] = row /\ jobs' = jobs
  BY DEF handleCopyJobQuote
<1>2. row \in Job /\ row.chargeCount = 0 /\ Covered(row) /\ ~ Chosen(row)
  BY QuoteIsRow DEF IInv, Columns, TypeOK
<1>3. submitted[k] \in Nat /\ JobSound(k)
  BY DEF IInv, Columns, TypeOK
<1>4. ~ Moved(row)
  BY DEF Moved, Quote
<1>5. row # None
  BY <1>2 DEF NoneIsNoJob
<1>6. serial => ~ (submitted[k] > 0)
  BY <1>1, <1>3, <1>4, <1>5 DEF JobSound, RowSound
<1>7. RowSound(k, row)
  BY <1>2, <1>3, <1>6 DEF RowSound
<1>8. CASE jobs' = jobs
  <2>1. TaskSound(write(k, row))
    BY <1>2, <1>7, SoundTask DEF write
  <2> QED  BY <1>1, <1>8, <2>1, Decides
<1>9. CASE jobs' = [jobs EXCEPT ![k] = row]
  <2>1. (\A j \in Jobs : JobSound(j)') /\ jobs' \in [Jobs -> Job \cup {None}]
    BY <1>1, <1>2, <1>7, <1>9, Stores
  <2>2. Grows
    BY <1>1 DEF Grows, IInv, Columns, TypeOK
  <2>3. RowSound(k, row)'
    BY <1>1, <1>7 DEF RowSound, serial
  <2>4. PICK t : t = write(k, row)
    OBVIOUS
  <2>5. t \in JobTask /\ t.do = "write" /\ t.job = k /\ t.row = row
    BY <1>2, <2>4 DEF write, JobTask
  <2>6. TaskSound(t)'
    BY <1>2, <2>3, <2>5 DEF TaskSound, Chosen
  <2>7. TasksSound'
    BY <1>1, <2>2, <2>4, <2>6, Goes
  <2>8. Columns'
    BY <1>1, <2>1 DEF IInv, Columns, TypeOK
  <2> QED  BY <2>1, <2>7, <2>8 DEF IInv
<1> QED  BY <1>1, <1>8, <1>9

\* The whole row is written, whatever it has become meanwhile.
LEMMA SaveJobStep ==
    ASSUME NoneIsNoJob, IInv, NEW r \in Requests, saveJob(r)
    PROVE  IInv'
<1> PICK k : k = task[r].job
  OBVIOUS
<1> PICK held : held = task[r].row
  OBVIOUS
<1> PICK row : row = [held EXCEPT !.hasID = TRUE]
  OBVIOUS
<1>1. Due(r, "write") /\ Begin(r, Idle) /\ jobs' = [jobs EXCEPT ![k] = row]
      /\ UNCHANGED <<mode, campaign, store, drafts, versions, savedCopy, submitted, edits>>
  BY DEF saveJob, Finish, Row
<1>2. /\ task[r] # Idle /\ k \in Jobs /\ held \in Job /\ RowSound(k, held)
      /\ Chosen(held) => Accepted(k)
  BY <1>1, HeldTask DEF TaskSound, DraftTask
<1>3. /\ row \in Job /\ row.snapshot = held.snapshot /\ row.chargeCount = held.chargeCount
      /\ row.draft = held.draft /\ row.state = held.state
  BY <1>2 DEF Job
<1>4. RowSound(k, row) /\ (Chosen(row) => Accepted(k))
  BY <1>2, <1>3 DEF RowSound, Moved, Chosen, Covered
<1>5. (\A j \in Jobs : JobSound(j)') /\ jobs' \in [Jobs -> Job \cup {None}]
  BY <1>1, <1>2, <1>4, Stores
<1>6. Grows
  BY <1>1 DEF Grows, IInv, Columns, TypeOK
<1>7. TasksSound'
  BY <1>1, <1>2, <1>6, Goes
<1>8. Columns'
  BY <1>1, <1>5 DEF IInv, Columns, TypeOK
<1> QED  BY <1>5, <1>7, <1>8 DEF IInv

\* The swap, once per confirmed row: from now on the job says that it is generating.
LEMMA SwapStep ==
    ASSUME NoneIsNoJob, IInv, NEW r \in Requests, SwapCopyJob(r)
    PROVE  IInv'
<1> PICK k : k = task[r].job
  OBVIOUS
<1> PICK row : row = task[r].row
  OBVIOUS
<1>1. Due(r, "swap")
      /\ UNCHANGED <<mode, campaign, store, drafts, versions, savedCopy, submitted, edits>>
  BY DEF SwapCopyJob
<1>2. /\ task[r] # Idle /\ k \in Jobs /\ row \in Job /\ RowSound(k, row)
      /\ row.state \in {"generating", "generation_incomplete"}
      /\ serial => submitted[k] = 0
  BY <1>1, HeldTask DEF TaskSound, DraftTask
<1>3. CASE Begin(r, Idle) /\ jobs' = jobs
  BY <1>1, <1>2, <1>3, Decides
<1>4. CASE /\ jobs' = [jobs EXCEPT ![k] = row]
           /\ Begin(r, IF row.state = "generating" THEN perform("call", k, row)
                       ELSE perform("attach", k, FinishIncomplete(row)))
  <2>1. ~ Chosen(row)
    BY <1>2 DEF Chosen
  <2>2. (\A j \in Jobs : JobSound(j)') /\ jobs' \in [Jobs -> Job \cup {None}] /\ jobs'[k] = row
    BY <1>1, <1>2, <1>4, <2>1, Stores
  <2>3. Grows
    BY <1>1 DEF Grows, IInv, Columns, TypeOK
  <2>4. RowSound(k, row)'
    BY <1>1, <1>2 DEF RowSound, serial
  <2>5. row.state = "generating" => TaskSound(perform("call", k, row))'
    <3> SUFFICES ASSUME row.state = "generating" PROVE TaskSound(perform("call", k, row))'
      OBVIOUS
    <3> PICK t : t = perform("call", k, row)
      OBVIOUS
    <3>1. t \in JobTask /\ t.do = "call" /\ t.job = k /\ t.row = row
      BY <1>2 DEF perform, JobTask
    <3>2. Generating(k, row)'
      BY <1>2, <2>2 DEF Generating, NoneIsNoJob
    <3>3. serial' => submitted'[k] = 0
      BY <1>1, <1>2 DEF serial
    <3>4. TaskSound(t)'
      BY <2>1, <2>4, <3>1, <3>2, <3>3 DEF TaskSound
    <3> QED  BY <3>4
  <2>6. TaskSound(perform("attach", k, FinishIncomplete(row)))'
    <3> PICK next : next = FinishIncomplete(row)
      OBVIOUS
    <3>1. RowSound(k, next) /\ next \in Job /\ ~ Chosen(next)
      <4>1. Follows(next, row)
        BY <1>2, DecisionsFollow
      <4> QED  BY <1>2, <2>1, <4>1, SoundDecision DEF Follows
    <3>2. RowSound(k, next)'
      BY <1>1, <3>1 DEF RowSound, serial
    <3> PICK t : t = perform("attach", k, next)
      OBVIOUS
    <3>3. t \in JobTask /\ t.do = "attach" /\ t.job = k /\ t.row = next
      BY <1>2, <3>1 DEF perform, JobTask
    <3>4. TaskSound(t)'
      BY <3>1, <3>2, <3>3 DEF TaskSound
    <3> QED  BY <3>4
  <2>7. TasksSound'
    BY <1>2, <1>4, <2>3, <2>5, <2>6, Goes
  <2>8. Columns'
    BY <1>1, <2>2 DEF IInv, Columns, TypeOK
  <2> QED  BY <2>2, <2>7, <2>8 DEF IInv
<1> QED  BY <1>1, <1>3, <1>4 DEF SwapCopyJob, Row, Finish

-----------------------------------------------------------------------------
(* The call and what comes of it *)

\* The row a call ended with is written, or its draft is attached first.
LEMMA AfterCall ==
    ASSUME NEW k \in Jobs, NEW row, RowSound(k, row), ~ Chosen(row)
    PROVE  Next1(k, row) # Idle => TaskSound(Next1(k, row))
BY SoundTask DEF Next1, write, perform

\* A call that ended.
LEMMA EndedRow ==
    ASSUME IInv, NEW k \in Jobs, NEW job, RowSound(k, job), job.state = "generating",
           NEW ending \in Endings, NEW accepted \in BOOLEAN, NEW out,
           out \in ModelOutputs \/ ending # "answer", ending # "answer" \/ accepted,
           accepted => submitted[k] > 0
    PROVE  LET row == finishModelCall(job, ending, accepted, out)
           IN  RowSound(k, row) /\ ~ Chosen(row)
<1>1. job \in Job /\ Covered(job)
  BY DEF RowSound
<1> PICK row : row = finishModelCall(job, ending, accepted, out)
  OBVIOUS
<1>2. /\ row \in Job /\ Moved(row) /\ ~ Chosen(row) /\ Covered(row)
      /\ row.chargeCount = job.chargeCount \/ (accepted /\ row.chargeCount = 1)
  BY <1>1, CallEnds
<1>3. submitted[k] \in Nat
  BY DEF IInv, Columns, TypeOK
<1>4. row.chargeCount <= submitted[k]
  BY <1>2, <1>3 DEF RowSound
<1> QED  BY <1>2, <1>4 DEF RowSound

\* A call that was refused, or has ended.
LEMMA EndStep ==
    ASSUME IInv, NEW r \in Requests, NEW ending \in Endings,
           \/ GenerateRefused(r, ending)
           \/ \E out \in ModelOutputs : GenerateEnds(r, ending, out)
    PROVE  IInv'
<1> PICK k : k = task[r].job
  OBVIOUS
<1> PICK job : job = task[r].row
  OBVIOUS
<1>1. ASSUME NEW accepted \in BOOLEAN, NEW out,
             Due(r, IF accepted THEN "poll" ELSE "call"),
             ending # "answer" \/ accepted, out \in ModelOutputs \/ ending # "answer",
             Begin(r, Next1(k, finishModelCall(job, ending, accepted, out))),
             UNCHANGED <<mode, campaign, store, jobs, drafts, versions, savedCopy, submitted,
                         edits>>
      PROVE  IInv'
  <2>1. /\ task[r] # Idle /\ k \in Jobs /\ RowSound(k, job) /\ job.state = "generating"
        /\ accepted => submitted[k] > 0
    BY <1>1, HeldTask DEF TaskSound, DraftTask, Generating
  <2> PICK row : row = finishModelCall(job, ending, accepted, out)
    OBVIOUS
  <2>2. RowSound(k, row) /\ ~ Chosen(row)
    BY <1>1, <2>1, EndedRow
  <2>3. Next1(k, row) # Idle => TaskSound(Next1(k, row))
    BY <2>1, <2>2, AfterCall
  <2> QED  BY <1>1, <2>1, <2>3, Decides
<1>2. CASE GenerateRefused(r, ending)
  <2>1. FALSE \in BOOLEAN /\ ending # "answer"
    BY <1>2 DEF GenerateRefused
  <2> QED  BY <1>1, <1>2, <2>1 DEF GenerateRefused, Row
<1>3. ASSUME NEW out \in ModelOutputs, GenerateEnds(r, ending, out)
      PROVE  IInv'
  <2>1. TRUE \in BOOLEAN
    OBVIOUS
  <2> QED  BY <1>1, <1>3, <2>1 DEF GenerateEnds, Row
<1> QED  BY <1>2, <1>3

\* A task is submitted: with one request at a time, the first one of its job.
LEMMA SubmitStep ==
    ASSUME IInv, NEW r \in Requests, submit(r)
    PROVE  IInv'
<1> PICK k : k = task[r].job
  OBVIOUS
<1> PICK t : t = [task[r] EXCEPT !.do = "poll"]
  OBVIOUS
<1>1. /\ Due(r, "call") /\ submitted[k] < MaxSubmissions
      /\ submitted' = [submitted EXCEPT ![k] = submitted[k] + 1] /\ Begin(r, t)
      /\ UNCHANGED <<mode, campaign, store, jobs, drafts, versions, savedCopy, edits>>
  BY DEF submit
<1>2. /\ task[r] # Idle /\ task[r] \in JobTask /\ k \in Jobs /\ RowSound(k, task[r].row)
      /\ Generating(k, task[r].row) /\ (serial => submitted[k] = 0)
  BY <1>1, HeldTask DEF TaskSound, DraftTask, SaveTask
<1>3. /\ submitted \in [Jobs -> 0..MaxSubmissions] /\ MaxSubmissions \in Nat
      /\ submitted[k] \in Nat
  BY <1>2, TextsAssumption DEF IInv, Columns, TypeOK
<1>4. /\ submitted'[k] = submitted[k] + 1 /\ submitted' \in [Jobs -> 0..MaxSubmissions]
      /\ \A j \in Jobs \ {k} : submitted'[j] = submitted[j]
  BY <1>1, <1>2, <1>3
<1>5. Grows
  BY <1>1, <1>3, <1>4 DEF Grows
<1>6. t \in JobTask /\ t.do = "poll" /\ t.job = k /\ t.row = task[r].row
  BY <1>2 DEF JobTask
<1>7. RowSound(k, t.row)'
  <2>1. Moved(t.row) /\ t.row.chargeCount \in Nat
    BY <1>2, <1>6 DEF Generating, Moved, RowSound, Job
  <2> QED  BY <1>2, <1>3, <1>4, <1>6, <2>1 DEF RowSound
<1>8. Generating(k, t.row)' /\ ~ Chosen(t.row)
  BY <1>1, <1>2, <1>6 DEF Generating, serial, Chosen
<1>9. TaskSound(t)'
  BY <1>3, <1>4, <1>6, <1>7, <1>8 DEF TaskSound
<1>10. TasksSound'
  BY <1>1, <1>2, <1>5, <1>9, Goes
<1>11. ASSUME NEW j \in Jobs PROVE JobSound(j)'
  <2>1. JobSound(j)
    BY DEF IInv
  <2>2. CASE j # k
    BY <1>1, <1>4, <2>1, <2>2 DEF JobSound, RowSound, serial, Accepted
  <2>3. CASE j = k
    <3>1. jobs[k] # None => jobs[k] \in Job /\ jobs[k].chargeCount \in Nat
      BY <2>1, <2>3 DEF JobSound, RowSound, Job
    <3>2. serial => jobs[k] # None /\ jobs[k].state = "generating" /\ submitted'[k] = 1
      BY <1>2, <1>4 DEF Generating
    <3>3. jobs[k] # None => RowSound(k, jobs[k])'
      BY <1>1, <1>3, <1>4, <2>1, <2>3, <3>1, <3>2 DEF JobSound, RowSound, serial, Moved
    <3> QED  BY <1>1, <2>1, <2>3, <3>2, <3>3 DEF JobSound, serial, Accepted
  <2> QED  BY <2>2, <2>3
<1>12. Columns'
  BY <1>1, <1>4 DEF IInv, Columns, TypeOK
<1> QED  BY <1>10, <1>11, <1>12 DEF IInv

-----------------------------------------------------------------------------
(* Drafts, versions and the campaign *)

\* A request goes on while the jobs, the tasks submitted and the campaign stay.
LEMMA GoesOn ==
    ASSUME IInv, NEW r \in Requests, NEW t, Begin(r, t), task[r] # Idle \/ Free(r),
           t # Idle => TaskSound(t)', UNCHANGED <<mode, jobs, submitted>>,
           ToSet(versions) \subseteq ToSet(versions')
    PROVE  TasksSound' /\ \A k \in Jobs : JobSound(k)'
<1>1. Grows
  BY DEF Grows, IInv, Columns, TypeOK
<1>2. TasksSound'
  BY <1>1, Goes
<1>3. \A k \in Jobs : JobSound(k)'
  BY DEF IInv, JobSound, RowSound, Accepted, serial
<1> QED  BY <1>2, <1>3

\* The draft is attached once.
LEMMA AttachStep ==
    ASSUME IInv, NEW r \in Requests, attachCopyDraft(r)
    PROVE  IInv'
<1> PICK k : k = task[r].job
  OBVIOUS
<1> PICK held : held = task[r].row
  OBVIOUS
<1> PICK row : row = [held EXCEPT !.hasDraftID = TRUE]
  OBVIOUS
<1>1. /\ Due(r, "attach") /\ Begin(r, write(k, row))
      /\ UNCHANGED <<mode, campaign, store, jobs, versions, savedCopy, submitted, edits>>
      /\ drafts' = drafts \/ drafts' = [drafts EXCEPT ![k] = held.draft]
  BY DEF attachCopyDraft, Row
<1>2. /\ task[r] # Idle /\ k \in Jobs /\ held \in Job /\ RowSound(k, held)
      /\ Chosen(held) => Accepted(k)
  BY <1>1, HeldTask DEF TaskSound, DraftTask
<1>3. /\ row \in Job /\ row.snapshot = held.snapshot /\ row.chargeCount = held.chargeCount
      /\ row.draft = held.draft /\ row.state = held.state
  BY <1>2 DEF Job
<1>4. RowSound(k, row) /\ (Chosen(row) => Accepted(k))
  BY <1>2, <1>3 DEF RowSound, Moved, Chosen, Covered
<1>5. TaskSound(write(k, row))
  BY <1>2, <1>4, SoundTask DEF write
<1>6. TaskSound(write(k, row))'
  BY <1>1, <1>5, NothingTouched
<1>7. TasksSound' /\ \A j \in Jobs : JobSound(j)'
  BY <1>1, <1>2, <1>6, GoesOn
<1>8. Columns'
  BY <1>1, <1>2 DEF IInv, Columns, TypeOK, Job
<1> QED  BY <1>7, <1>8 DEF IInv

\* A draft is accepted: the versions go on with it.
LEMMA Accepts ==
    ASSUME IInv, NEW d \in Jobs \cup DraftKeys, AcceptCopyVersion(d)
    PROVE  /\ versions' \in Seq(Jobs \cup DraftKeys)
           /\ ToSet(versions) \subseteq ToSet(versions') /\ d \in ToSet(versions')
<1>1. versions \in Seq(Jobs \cup DraftKeys)
  BY DEF IInv, Columns
<1>2. CASE d \in ToSet(versions) /\ versions' = versions
  BY <1>1, <1>2
<1>3. CASE versions' = Append(versions, d)
  <2>1. /\ versions' \in Seq(Jobs \cup DraftKeys) /\ Len(versions') = Len(versions) + 1
        /\ versions'[Len(versions) + 1] = d
        /\ \A i \in DOMAIN versions : i \in DOMAIN versions' /\ versions'[i] = versions[i]
        /\ Len(versions) + 1 \in DOMAIN versions'
    BY <1>1, <1>3
  <2> QED  BY <2>1 DEF ToSet
<1> QED  BY <1>2, <1>3 DEF AcceptCopyVersion

\* From now on the row may say that its draft was chosen.
LEMMA AcceptStep ==
    ASSUME IInv, NEW r \in Requests, Accept(r)
    PROVE  IInv'
<1> PICK k : k = task[r].job
  OBVIOUS
<1> PICK row : row = task[r].row
  OBVIOUS
<1>1. Due(r, "accept") /\ Begin(r, write(k, row)) /\ AcceptCopyVersion(k)
      /\ UNCHANGED <<mode, campaign, store, jobs, drafts, savedCopy, submitted, edits>>
  BY DEF Accept, Row
<1>2. task[r] # Idle /\ k \in Jobs /\ row \in Job /\ RowSound(k, row)
  BY <1>1, HeldTask
<1>3. /\ versions' \in Seq(Jobs \cup DraftKeys)
      /\ ToSet(versions) \subseteq ToSet(versions') /\ k \in ToSet(versions')
  BY <1>1, <1>2, Accepts
<1>4. RowSound(k, row)' /\ Accepted(k)'
  BY <1>1, <1>2, <1>3 DEF RowSound, serial, Accepted
<1> PICK t : t = write(k, row)
  OBVIOUS
<1>5. t \in JobTask /\ t.do = "write" /\ t.job = k /\ t.row = row
  BY <1>2 DEF write, JobTask
<1>6. TaskSound(t)'
  BY <1>4, <1>5 DEF TaskSound
<1>7. TasksSound' /\ \A j \in Jobs : JobSound(j)'
  BY <1>1, <1>2, <1>3, <1>6, GoesOn
<1>8. Columns'
  BY <1>1, <1>3 DEF IInv, Columns, TypeOK
<1> QED  BY <1>7, <1>8 DEF IInv

\* The campaign takes the fields that the save has decided on.
LEMMA UpdateStep ==
    ASSUME IInv, NEW r \in Requests, UpdateCampaign(r)
    PROVE  IInv'
<1> PICK k : k = task[r].job
  OBVIOUS
<1> PICK row : row = task[r].row
  OBVIOUS
<1>1. /\ Due(r, "campaign") /\ Begin(r, perform("upsert", k, row))
      /\ campaign' = [title |-> IF task[r].title THEN row.draft.title ELSE campaign.title,
                      intro |-> IF task[r].intro THEN row.draft.intro ELSE campaign.intro]
      /\ UNCHANGED <<mode, store, jobs, drafts, versions, savedCopy, submitted, edits>>
  BY DEF UpdateCampaign, Row
<1>2. /\ task[r] # Idle /\ k \in Jobs /\ row \in Job /\ RowSound(k, row)
      /\ row.state = "selected" /\ (Chosen(row) => Accepted(k))
  BY <1>1, HeldTask DEF TaskSound, DraftTask
<1>3. RowSound(k, row)' /\ Accepted(k)'
  BY <1>1, <1>2 DEF RowSound, serial, Accepted, Chosen
<1> PICK t : t = perform("upsert", k, row)
  OBVIOUS
<1>4. t \in JobTask /\ t.do = "upsert" /\ t.job = k /\ t.row = row
  BY <1>2 DEF perform, JobTask
<1>5. TaskSound(t)'
  BY <1>2, <1>3, <1>4 DEF TaskSound
<1>6. TasksSound' /\ \A j \in Jobs : JobSound(j)'
  BY <1>1, <1>2, <1>5, GoesOn
<1>7. campaign' \in [title : Texts, intro : Texts]
  BY <1>1, <1>2 DEF IInv, Columns, TypeOK, Job, Draft
<1>8. Columns'
  BY <1>1, <1>7 DEF IInv, Columns, TypeOK
<1> QED  BY <1>6, <1>8 DEF IInv

\* The campaign names the job it took its copy from.
LEMMA UpsertStep ==
    ASSUME IInv, NEW r \in Requests, UpsertSavedCopy(r)
    PROVE  IInv'
<1> PICK k : k = task[r].job
  OBVIOUS
<1> PICK held : held = task[r].row
  OBVIOUS
<1> PICK row : row = [held EXCEPT !.state = "saved"]
  OBVIOUS
<1>1. Due(r, "upsert") /\ Begin(r, write(k, row)) /\ savedCopy' = k
      /\ UNCHANGED <<mode, campaign, store, jobs, drafts, versions, submitted, edits>>
  BY DEF UpsertSavedCopy, Row
<1>2. /\ task[r] # Idle /\ k \in Jobs /\ held \in Job /\ RowSound(k, held)
      /\ held.state = "selected" /\ Accepted(k)
  BY <1>1, HeldTask DEF TaskSound, DraftTask, Chosen
<1>3. /\ row \in Job /\ row.snapshot = held.snapshot /\ row.chargeCount = held.chargeCount
      /\ row.draft = held.draft /\ row.state = "saved"
  <2>1. "saved" \in States
    BY DEF States
  <2> QED  BY <1>2, <2>1, NewState
<1>4. RowSound(k, row)
  BY <1>2, <1>3 DEF RowSound, Moved, Covered
<1>5. TaskSound(write(k, row))
  BY <1>2, <1>4, SoundTask DEF write
<1>6. TaskSound(write(k, row))'
  BY <1>1, <1>5, NothingTouched
<1>7. TasksSound' /\ \A j \in Jobs : JobSound(j)'
  BY <1>1, <1>2, <1>6, GoesOn
<1>8. Columns'
  BY <1>1, <1>2 DEF IInv, Columns, TypeOK
<1> QED  BY <1>7, <1>8 DEF IInv

\* A draft without a job begins.
LEMMA DraftStep ==
    ASSUME IInv, NEW r \in Requests, NEW d \in DraftKeys, handleCopyDraftCreate(r, d)
    PROVE  IInv'
<1> PICK t : t = perform("insert", d, Compose)
  OBVIOUS
<1>1. t \in DraftTask
  BY DEF perform, DraftTask
<1>2. TaskSound(t)
  BY <1>1 DEF TaskSound
<1> QED  BY <1>2, Decides DEF handleCopyDraftCreate

\* And is inserted.
LEMMA InsertStep ==
    ASSUME IInv, NEW r \in Requests, InsertCopyDraft(r)
    PROVE  IInv'
<1> PICK d : d = task[r].job
  OBVIOUS
<1>1. Due(r, "insert") /\ Begin(r, Idle)
      /\ drafts' = [drafts EXCEPT ![d] = IF drafts[d] = None THEN Compose ELSE drafts[d]]
      /\ UNCHANGED <<mode, campaign, store, jobs, versions, savedCopy, submitted, edits>>
  BY DEF InsertCopyDraft, Finish
<1>2. task[r] # Idle
  BY <1>1 DEF Due
<1>3. TasksSound' /\ \A j \in Jobs : JobSound(j)'
  BY <1>1, <1>2, GoesOn
<1>4. drafts' \in [Jobs \cup DraftKeys -> Draft \cup {None}]
  <2>1. drafts \in [Jobs \cup DraftKeys -> Draft \cup {None}]
    BY DEF IInv, Columns, TypeOK
  <2> QED  BY <1>1, <2>1, ComposeIsDraft
<1>5. Columns'
  BY <1>1, <1>4 DEF IInv, Columns, TypeOK
<1> QED  BY <1>3, <1>5 DEF IInv

\* Steps of nobody under way: a draft is accepted, the merchant types, the store moves.
LEMMA OtherStep ==
    ASSUME IInv, Edit \/ \E d \in DraftKeys : handleCopyVersionAccept(d)
    PROVE  IInv'
<1>1. /\ ToSet(versions) \subseteq ToSet(versions') /\ versions' \in Seq(Jobs \cup DraftKeys)
      /\ UNCHANGED <<mode, jobs, submitted, task>>
  BY Accepts DEF Edit, handleCopyVersionAccept, IInv, Columns
<1>2. Grows
  BY <1>1 DEF Grows, IInv, Columns, TypeOK
<1>3. serial => campaign' = campaign \/ Texting = {}
  BY DEF Edit, handleCopyVersionAccept
<1>4. ASSUME NEW t \in Held PROVE TaskSound(t)'
  <2>1. TaskSound(t)
    BY <1>4 DEF IInv, TasksSound
  <2>2. CASE ~ serial
    BY <1>2, <2>1, <2>2, OthersStay
  <2>3. CASE serial
    <3>1. t \in SaveTask => (Writable(t) => Writable(t)')
      <4> SUFFICES ASSUME t \in SaveTask PROVE Writable(t) => Writable(t)'
        OBVIOUS
      <4>1. PICK r \in Requests : t = task[r] /\ t # Idle
        BY <1>4 DEF Held
      <4>2. r \in Texting
        BY <4>1 DEF Texting, Due, SaveTask
      <4>3. campaign' = campaign
        BY <1>3, <2>3, <4>2
      <4> QED  BY <1>1, <4>3 DEF Writable, serial
    <3>2. t \in JobTask => t.do # "campaign"
      BY DEF JobTask
    <3>3. Generating(t.job, t.row) => Generating(t.job, t.row)'
      BY <1>1 DEF Generating, serial
    <3>4. RowSound(t.job, t.row) => RowSound(t.job, t.row)'
      BY <1>1 DEF RowSound, serial
    <3>5. Accepted(t.job) => Accepted(t.job)'
      BY <1>1 DEF Accepted
    <3> QED  BY <1>1, <2>1, <3>1, <3>2, <3>3, <3>4, <3>5 DEF TaskSound, serial
  <2> QED  BY <2>2, <2>3
<1>5. TasksSound'
  BY <1>1, <1>4 DEF IInv, TasksSound, Held, serial
<1>6. \A k \in Jobs : JobSound(k)'
  BY <1>1 DEF IInv, JobSound, RowSound, Accepted, serial
<1>7. campaign' \in [title : Texts, intro : Texts] /\ store' \in Addresses
      /\ edits' \in 0..MaxEdits
  <2>1. /\ campaign \in [title : Texts, intro : Texts] /\ store \in Addresses
        /\ edits \in 0..MaxEdits /\ TypedText \in Texts /\ MaxEdits \in Nat
    BY TextsAssumption DEF IInv, Columns, TypeOK, Texts
  <2> QED  BY <2>1 DEF Edit, handleCopyVersionAccept
<1>8. UNCHANGED <<drafts, savedCopy>>
  BY DEF Edit, handleCopyVersionAccept
<1>9. Columns'
  BY <1>1, <1>7, <1>8 DEF IInv, Columns, TypeOK
<1> QED  BY <1>5, <1>6, <1>9 DEF IInv

-----------------------------------------------------------------------------
(* The theorems *)

\* Every step keeps the invariant.
LEMMA StepInv ==
    ASSUME NoneIsNoJob, IInv, [Next]_vars
    PROVE  IInv'
<1>1. CASE UNCHANGED vars
  <2>1. \A t : TaskSound(t) => TaskSound(t)'
    BY <1>1, NothingTouched DEF vars
  <2>2. TasksSound'
    BY <1>1, <2>1 DEF vars, IInv, TasksSound, Held, serial
  <2>3. \A k \in Jobs : JobSound(k)'
    BY <1>1 DEF vars, IInv, JobSound, RowSound, Accepted, serial
  <2>4. Columns'
    BY <1>1 DEF vars, IInv, Columns, TypeOK
  <2> QED  BY <2>2, <2>3, <2>4 DEF IInv
<1>2. ASSUME NEW r \in Requests, NEW k \in Jobs,
             \/ \E facts \in FactSheets : handleCopyJobQuote(r, k, facts)
             \/ handleCopyJobConfirm(r, k)
             \/ \E ready \in BOOLEAN : handleCopyJobGenerate(r, k, ready)
             \/ handleCopyJobSelect(r, k)
             \/ handleCopyJobRevoke(r, k)
             \/ handleCopyJobSave(r, k)
      PROVE  IInv'
  BY <1>2, QuoteStep, DecisionStep, GenerateStep, SelectStep, SaveStep
<1>3. ASSUME NEW r \in Requests, Crash(r) PROVE IInv'
  BY <1>3, Decides DEF Crash, Finish
<1>4. ASSUME NEW r \in Requests, Continue(r) PROVE IInv'
  BY <1>4, SaveJobStep, SwapStep, SubmitStep, AttachStep, AcceptStep, UpdateStep, UpsertStep,
     InsertStep, EndStep DEF Continue
<1> QED  BY <1>1, <1>2, <1>3, <1>4, DraftStep, OtherStep DEF Next

\* The invariant holds in every behaviour.
LEMMA InvHolds ==
    ASSUME NoneIsNoJob
    PROVE  Spec => []IInv
<1>1. IInv /\ [Next]_vars => IInv'
  BY StepInv
<1> QED  BY InitInv, <1>1, PTL DEF Spec

\* The rows keep their types, whoever writes back which copy of them.
THEOREM CopyTypeCorrect ==
    ASSUME NoneIsNoJob
    PROVE  Spec => []TypeOK
<1>1. IInv => TypeOK
  BY DEF IInv, Columns
<1> QED  BY <1>1, InvHolds, PTL

\* Whatever the order of the requests, a job that is selected or saved has a draft
\* that was accepted as a version (handleCopyJobSelect).
THEOREM ChosenDraftsAreVersions ==
    ASSUME NoneIsNoJob
    PROVE  Spec => []SelectedIsAccepted
<1>1. IInv => SelectedIsAccepted
  BY DEF IInv, JobSound, SelectedIsAccepted, Chosen, Accepted
<1> QED  BY <1>1, InvHolds, PTL

\* A charge counts a task that was accepted, and with one request at a time a job
\* submits no second one, also after a timeout, a lost reply or a crash.
THEOREM ChargesAreForTasks ==
    ASSUME NoneIsNoJob
    PROVE  Spec => []ChargedOnce
<1>1. IInv => ChargedOnce
  BY DEF IInv, JobSound, RowSound, ChargedOnce
<1> QED  BY <1>1, InvHolds, PTL

\* With one request at a time, a save replaces a field only while it says what was
\* quoted: what the merchant typed meanwhile stays (PlanSave).
THEOREM TypedTextsStay ==
    ASSUME NoneIsNoJob
    PROVE  Spec => HandwrittenKept
<1>1. ASSUME IInv, NEW r \in Requests, serial, UpdateCampaign(r)
      PROVE  /\ campaign'.title # campaign.title => campaign.title = Row(r).snapshot.title
             /\ campaign'.intro # campaign.intro => campaign.intro = Row(r).snapshot.intro
  <2>1. Due(r, "campaign")
    BY <1>1 DEF UpdateCampaign
  <2>2. Writable(task[r])
    BY <1>1, <2>1, HeldTask DEF TaskSound, DraftTask
  <2> QED  BY <1>1, <2>2 DEF UpdateCampaign, Writable, Row
<1>2. IInv /\ [Next]_vars =>
        [\A r \in Requests :
           serial /\ UpdateCampaign(r) =>
               /\ campaign'.title # campaign.title => campaign.title = Row(r).snapshot.title
               /\ campaign'.intro # campaign.intro => campaign.intro = Row(r).snapshot.intro]_vars
  BY <1>1
<1> QED  BY <1>2, InvHolds, PTL DEF Spec, HandwrittenKept

\* Whatever the model answers and whoever saves it when, neither a field of the campaign
\* nor a topic takes what the merchant had filled in unconfirmed and not published when
\* the quote was asked for.
THEOREM WithheldFactsStayOut ==
    ASSUME NoneIsNoJob
    PROVE  Spec => WithheldStaysOut
<1>1. ASSUME IInv, NEW r \in Requests, UpdateCampaign(r)
      PROVE  /\ AddsNothingWithheld(r, campaign'.title, Mentions[campaign.title])
             /\ AddsNothingWithheld(r, campaign'.intro, Mentions[campaign.intro])
  <2>1. Due(r, "campaign")
    BY <1>1 DEF UpdateCampaign
  <2>2. Writable(task[r]) /\ Covered(task[r].row)
    BY <1>1, <2>1, HeldTask DEF TaskSound, DraftTask, RowSound
  <2>3. /\ campaign'.title = IF task[r].title THEN task[r].row.draft.title ELSE campaign.title
        /\ campaign'.intro = IF task[r].intro THEN task[r].row.draft.intro ELSE campaign.intro
    BY <1>1 DEF UpdateCampaign, Row
  <2>4. /\ campaign'.title = campaign.title \/ Clear(task[r].row.snapshot, campaign'.title)
        /\ campaign'.intro = campaign.intro \/ Clear(task[r].row.snapshot, campaign'.intro)
    BY <2>2, <2>3 DEF Writable, Covered, ClearDraft
  <2> QED  BY <2>4 DEF AddsNothingWithheld, Clear, Row
<1>2. ASSUME IInv, NEW r \in Requests, UpsertSavedCopy(r), NEW topic \in Row(r).draft.topics
      PROVE  AddsNothingWithheld(r, topic, {})
  <2>1. Due(r, "upsert")
    BY <1>2 DEF UpsertSavedCopy
  <2>2. Covered(task[r].row)
    BY <1>2, <2>1, HeldTask DEF TaskSound, DraftTask, RowSound
  <2>3. Clear(task[r].row.snapshot, topic)
    BY <1>2, <2>2 DEF Covered, ClearDraft, Row
  <2> QED  BY <2>3 DEF AddsNothingWithheld, Clear, Row
<1>3. IInv /\ [Next]_vars =>
        [\A r \in Requests :
           /\ UpdateCampaign(r) =>
                  /\ AddsNothingWithheld(r, campaign'.title, Mentions[campaign.title])
                  /\ AddsNothingWithheld(r, campaign'.intro, Mentions[campaign.intro])
           /\ UpsertSavedCopy(r) =>
                  \A topic \in Row(r).draft.topics : AddsNothingWithheld(r, topic, {})]_vars
  BY <1>1, <1>2
<1> QED  BY <1>3, InvHolds, PTL DEF Spec, WithheldStaysOut

=============================================================================

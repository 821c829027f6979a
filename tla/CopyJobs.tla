------------------------------ MODULE CopyJobs ------------------------------
(***************************************************************************)
(* Copy jobs and copy drafts: a merchant asks a text model for campaign    *)
(* copy (internal/copyjob, internal/copydraft and their handlers).         *)
(*                                                                         *)
(* A job is quoted, confirmed, generated once, selected and saved into the *)
(* campaign.  A handler reads the campaign and the job, decides on the copy*)
(* it holds in memory and writes the whole row back with an UPDATE by id;  *)
(* only the step that calls the model is a compare-and-swap on the state.  *)
(* So a request is a task that holds the row it is going to write, and     *)
(* requests interleave between their statements.                           *)
(*                                                                         *)
(* One tenant, one campaign, one day.  A text is its identity and what it  *)
(* mentions; a hash is the snapshot itself.  Notices, gaps and the price   *)
(* are left out, the fields of a trace are what `seal` derives from them.  *)
(***************************************************************************)
EXTENDS Integers, Sequences, FiniteSets, SequencesExt

CONSTANTS
    Jobs,            \* idempotency keys of quotes
    DraftKeys,       \* idempotency keys of drafts made without a job
    Requests, Idle, None,
    FirstText, TypedText, Blank,
    ModelOutputs,    \* what the model may answer: records [title, intro, topics]
    Mentions,        \* Mentions[text]: the prices and addresses a text contains
    Prices,
    Addresses,       \* where the store may be
    FactSheets,      \* what a merchant fills in, and which of it he states as confirmed
    DailyQuota,      \* copyDraftDailyQuota
    MaxSubmissions, MaxEdits

Texts == {FirstText, TypedText, Blank} \cup {o.title : o \in ModelOutputs}
                                       \cup {o.intro : o \in ModelOutputs}
                                       \cup UNION {o.topics : o \in ModelOutputs}

Fields == {"price", "address"}

ASSUME TextsAssumption ==
    /\ Mentions \in [Texts -> SUBSET (Prices \cup Addresses)]
    /\ FactSheets \subseteq [price : Prices \cup {None}, address : Addresses \cup {None},
                            sure : SUBSET Fields]
    /\ {DailyQuota, MaxSubmissions, MaxEdits} \subseteq Nat

VARIABLES
    mode,       \* how the requests of this behaviour come
    campaign,   \* the campaign's title and intro
    store,      \* the address of the store
    jobs,       \* the copy_jobs rows by key
    drafts,     \* the copy_drafts rows by key; a job's draft has the job's key
    versions,   \* keys of accepted drafts; the position is the version
    savedCopy,  \* the job of the campaign_saved_copy row
    submitted,  \* tasks the platform has accepted for the job
    edits,
    task

vars == <<mode, campaign, store, jobs, drafts, versions, savedCopy, submitted, edits, task>>

\* In parallel, one at a time, or one at a time with a process that may die.
Modes == {"parallel", "serial", "crashing"}
serial == mode # "parallel"

States == {"quoted", "confirmed", "generating", "generation_incomplete", "generated", "selected",
           "saved", "revoked", "timed_out", "quota_exceeded", "input_changed", "late_discarded"}

Draft    == [title : Texts, intro : Texts, topics : SUBSET Texts, usable : BOOLEAN]
Snapshot == [title : Texts, intro : Texts, store : Addresses, facts : FactSheets]
Job      == [state : States, snapshot : Snapshot, chargeCount : 0..1, success : BOOLEAN,
             draft : Draft, hasDraftID : BOOLEAN, hasID : BOOLEAN]

-----------------------------------------------------------------------------
(* copydraft: what a model may say *)

\* The live campaign and store with the facts of the job.
copySnapshot(facts) ==
    [title |-> campaign.title, intro |-> campaign.intro, store |-> store, facts |-> facts]

\* What is filled in as confirmed; an address only while it is the store's own.
confirmed(snapshot) ==
    {snapshot.facts[field] : field \in
        {f \in snapshot.facts.sure :
            f = "address" => snapshot.facts.address = snapshot.store}} \ {None}

\* What is filled in and not confirmed.  A field that is left empty withholds nothing.
withheldTexts(snapshot) ==
    {snapshot.facts[field] : field \in Fields} \ (confirmed(snapshot) \cup {None})

\* The merchant's own published words cover what they repeat.
confirmedCorpus(snapshot) ==
    confirmed(snapshot) \cup Mentions[snapshot.title] \cup Mentions[snapshot.intro]

\* Mutant: the withheld facts are not looked for.
leaksNothing(snapshot, text) == FALSE

leaks(snapshot, text) ==
    \E fact \in Mentions[text] \cap withheldTexts(snapshot) : fact \notin confirmedCorpus(snapshot)

keep(snapshot, text) == IF leaks(snapshot, text) THEN Blank ELSE text

Compose == [title |-> Blank, intro |-> Blank, topics |-> {}, usable |-> FALSE]

\* Usable is what kept a title.
ApplyModel(snapshot, out) ==
    LET title == keep(snapshot, out.title)
    IN  [title |-> title, intro |-> keep(snapshot, out.intro),
         topics |-> {keep(snapshot, topic) : topic \in out.topics} \ {Blank},
         usable |-> title # Blank]

-----------------------------------------------------------------------------
(* copyjob: decisions on the row held in memory *)

frozen(state) ==
    state \in {"saved", "revoked", "timed_out", "quota_exceeded", "input_changed",
               "late_discarded"}

\* seal: success is what the draft proves, whatever was assigned before.
seal(job) == [job EXCEPT !.success = @ /\ job.draft.usable]

Quote(facts) ==
    [state |-> "quoted", snapshot |-> copySnapshot(facts), chargeCount |-> 0, success |-> FALSE,
     draft |-> Compose, hasDraftID |-> FALSE, hasID |-> FALSE]

MarkInputChanged(job) ==
    IF job.state \in {"saved", "revoked", "timed_out"} THEN job
    ELSE [job EXCEPT !.state = "input_changed"]

Confirm(job, snapshot) ==
    IF frozen(job.state) THEN job
    ELSE IF snapshot # job.snapshot THEN MarkInputChanged(job)
    ELSE IF job.state = "quoted" THEN [job EXCEPT !.state = "confirmed"]
    ELSE job

MarkQuota(job) == IF frozen(job.state) THEN job ELSE [job EXCEPT !.state = "quota_exceeded"]

Revoke(job) ==
    IF job.state \in {"saved", "revoked"} THEN job ELSE [job EXCEPT !.state = "revoked"]

noteSubmit(job) == [job EXCEPT !.chargeCount = 1]

Timeout(job, accepted) ==
    IF job.state # "generating" THEN job
    ELSE [(IF accepted THEN noteSubmit(job) ELSE job) EXCEPT !.state = "timed_out",
                                                             !.success = FALSE]

FinishIncomplete(job) ==
    [job EXCEPT !.state = "generation_incomplete", !.success = FALSE, !.draft = Compose]

RejectLate(job) ==
    IF job.state \in {"saved", "selected", "revoked", "timed_out", "input_changed",
                      "quota_exceeded"}
    THEN job ELSE [job EXCEPT !.state = "late_discarded"]

FinishModel(job, draft, accepted) ==
    IF job.state # "generating" THEN RejectLate(job)
    ELSE seal([(IF accepted THEN noteSubmit(job) ELSE job) EXCEPT
                   !.draft = draft,
                   !.success = draft.usable,
                   !.state = IF draft.usable THEN "generated" ELSE "generation_incomplete"])

\* How the call to the model may end.  The platform accepts the task or not, and
\* the client learns of it or not: a reply lost on the way reads as a transport
\* error of a task that was never submitted.
Endings == {"timeout", "quota", "error", "lost", "answer"}

\* Mutant: a timeout is not turned into a state.
finishWithoutTimeout(job, ending, accepted, out) ==
    CASE ending = "timeout" -> job
      [] ending = "quota"   -> MarkQuota(job)
      [] ending = "lost"    -> FinishIncomplete(job)
      [] ending = "error"   -> IF accepted THEN FinishModel(job, Compose, TRUE)
                               ELSE FinishIncomplete(job)
      [] ending = "answer"  -> FinishModel(job, ApplyModel(job.snapshot, out), TRUE)

finishModelCall(job, ending, accepted, out) ==
    CASE ending = "timeout" -> Timeout(job, accepted)
      [] ending = "quota"   -> IF accepted
                               THEN [Timeout(job, TRUE) EXCEPT !.state = "quota_exceeded"]
                               ELSE MarkQuota(job)
      [] ending = "lost"    -> FinishIncomplete(job)
      [] ending = "error"   -> IF accepted THEN FinishModel(job, Compose, TRUE)
                               ELSE FinishIncomplete(job)
      [] ending = "answer"  -> FinishModel(job, ApplyModel(job.snapshot, out), TRUE)

\* Select's guard: a draft exists to choose.
Selectable(job) ==
    job.state \in {"generated", "generation_incomplete", "selected"} /\ job.hasDraftID

\* Mutant: the draft replaces whatever the field says by now.
WriteTitleAnyway(job, current) == job.draft.title # Blank

\* PlanSave: a field is written only while it still says what was quoted.
WriteTitle(job, current) == current.title = job.snapshot.title /\ job.draft.title # Blank
WriteIntro(job, current) == current.intro = job.snapshot.intro /\ job.draft.intro # Blank

PlanSaveAllows(job, current) ==
    /\ job.state = "selected" /\ job.success /\ job.draft.usable
    /\ WriteTitle(job, current) \/ WriteIntro(job, current) \/ job.draft.topics # {}

-----------------------------------------------------------------------------
(* Requests *)

Begin(r, t)  == task' = [task EXCEPT ![r] = t]
Finish(r)    == Begin(r, Idle)
Due(r, do)   == task[r] # Idle /\ task[r].do = do
Row(r)       == task[r].row

Free(r)      == task[r] = Idle /\ (serial => \A q \in Requests : task[q] = Idle)

\* Requests that are going to write the campaign's text.
Texting == {r \in Requests : Due(r, "campaign")}

write(k, row)       == [do |-> "write", job |-> k, row |-> row]
perform(do, k, row) == [do |-> do, job |-> k, row |-> row]

\* saveJob: the whole row, whatever it has become meanwhile.
saveJob(r) ==
    /\ Due(r, "write")
    /\ jobs' = [jobs EXCEPT ![task[r].job] = [Row(r) EXCEPT !.hasID = TRUE]]
    /\ Finish(r)
    /\ UNCHANGED <<mode, campaign, store, drafts, versions, savedCopy, submitted, edits>>

\* handleCopyJobQuote up to InsertCopyJob.  A key that is taken is replayed or refused,
\* and a replay is told from the new row by its payload: until the first request
\* has written the row with its id, the second takes it for its own.
handleCopyJobQuote(r, k, facts) ==
    /\ Free(r)
    /\ \/ /\ jobs[k] = None
          /\ jobs' = [jobs EXCEPT ![k] = Quote(facts)]
       \/ jobs[k] = Quote(facts) /\ UNCHANGED jobs
    /\ Begin(r, write(k, Quote(facts)))
    /\ UNCHANGED <<mode, campaign, store, drafts, versions, savedCopy, submitted, edits>>

handleCopyJobConfirm(r, k) ==
    /\ Free(r) /\ jobs[k] # None
    /\ Begin(r, write(k, Confirm(jobs[k], copySnapshot(jobs[k].snapshot.facts))))
    /\ UNCHANGED <<mode, campaign, store, jobs, drafts, versions, savedCopy, submitted, edits>>

handleCopyJobRevoke(r, k) ==
    /\ Free(r) /\ jobs[k] # None
    /\ Begin(r, write(k, Revoke(jobs[k])))
    /\ UNCHANGED <<mode, campaign, store, jobs, drafts, versions, savedCopy, submitted, edits>>

\* CountCopyDraftsSince, against the day's allowance.
quotaOK == Cardinality({d \in DOMAIN drafts : drafts[d] # None}) < DailyQuota

\* Mutant: a job that is generating is generated again.
PlanGenerateAgain(k, ready) ==
    IF jobs[k].state \in {"confirmed", "generating"}
    THEN perform("call", k, [jobs[k] EXCEPT !.state = "generating"])
    ELSE Idle

\* PlanGenerate, as the next thing the request does; Nothing when the job is busy,
\* not confirmed or over.  `ready`: a model is configured and the caller may pay.
PlanGenerate(k, ready) ==
    LET job == jobs[k]
    IN  CASE job.state = "confirmed" /\ copySnapshot(job.snapshot.facts) # job.snapshot ->
                 write(k, MarkInputChanged(job))
          [] job.state = "confirmed" /\ copySnapshot(job.snapshot.facts) = job.snapshot
                 /\ ~quotaOK -> write(k, MarkQuota(job))
          [] job.state = "confirmed" /\ copySnapshot(job.snapshot.facts) = job.snapshot
                 /\ quotaOK ->
                 perform("swap", k, [job EXCEPT !.state =
                     IF ready THEN "generating" ELSE "generation_incomplete"])
          [] job.state \in {"generation_incomplete", "generated"} /\ ~job.hasDraftID ->
                 perform("attach", k, job)
          [] OTHER -> Idle

handleCopyJobGenerate(r, k, ready) ==
    /\ Free(r) /\ jobs[k] # None
    /\ Begin(r, PlanGenerate(k, ready))
    /\ UNCHANGED <<mode, campaign, store, jobs, drafts, versions, savedCopy, submitted, edits>>

\* SwapCopyJob: only while the stored state is still confirmed.
SwapCopyJob(r) ==
    /\ Due(r, "swap")
    /\ IF jobs[task[r].job].state = "confirmed"
       THEN /\ jobs' = [jobs EXCEPT ![task[r].job] = Row(r)]
            /\ Begin(r, IF Row(r).state = "generating"
                        THEN perform("call", task[r].job, Row(r))
                        ELSE perform("attach", task[r].job, FinishIncomplete(Row(r))))
       ELSE Finish(r) /\ UNCHANGED jobs
    /\ UNCHANGED <<mode, campaign, store, drafts, versions, savedCopy, submitted, edits>>

Next1(k, job) == IF job.state = "quota_exceeded" THEN write(k, job) ELSE perform("attach", k, job)

\* PlatformClient.Generate: the usage or the quote is refused, or the task is not accepted.
GenerateRefused(r, ending) ==
    /\ Due(r, "call") /\ ending \in {"quota", "error"}
    /\ Begin(r, Next1(task[r].job, finishModelCall(Row(r), ending, FALSE, Compose)))
    /\ UNCHANGED <<mode, campaign, store, jobs, drafts, versions, savedCopy, submitted, edits>>

\* submit: the platform has the task; nothing is known of the answer yet.
submit(r) ==
    /\ Due(r, "call")
    /\ submitted[task[r].job] < MaxSubmissions
    /\ submitted' = [submitted EXCEPT ![task[r].job] = @ + 1]
    /\ Begin(r, [task[r] EXCEPT !.do = "poll"])
    /\ UNCHANGED <<mode, campaign, store, jobs, drafts, versions, savedCopy, edits>>

\* The poll ends: the answer, a failure, a refusal, the deadline, or a lost reply.
GenerateEnds(r, ending, out) ==
    /\ Due(r, "poll")
    /\ Begin(r, Next1(task[r].job, finishModelCall(Row(r), ending, TRUE, out)))
    /\ UNCHANGED <<mode, campaign, store, jobs, drafts, versions, savedCopy, submitted, edits>>

\* InsertCopyDraft for the key: an existing row of the same snapshot is kept.
attachCopyDraft(r) ==
    /\ Due(r, "attach")
    /\ drafts' = IF Row(r).hasDraftID \/ drafts[task[r].job] # None THEN drafts
                 ELSE [drafts EXCEPT ![task[r].job] = Row(r).draft]
    /\ Begin(r, write(task[r].job, [Row(r) EXCEPT !.hasDraftID = TRUE]))
    /\ UNCHANGED <<mode, campaign, store, jobs, versions, savedCopy, submitted, edits>>

handleCopyJobSelect(r, k) ==
    /\ Free(r) /\ jobs[k] # None /\ Selectable(jobs[k])
    /\ Begin(r, perform("accept", k, [jobs[k] EXCEPT !.state = "selected"]))
    /\ UNCHANGED <<mode, campaign, store, jobs, drafts, versions, savedCopy, submitted, edits>>

\* AcceptCopyVersion is one transaction.
AcceptCopyVersion(d) ==
    /\ drafts[d] # None
    /\ versions' = IF d \in ToSet(versions) THEN versions ELSE Append(versions, d)

Accept(r) ==
    /\ Due(r, "accept")
    /\ AcceptCopyVersion(task[r].job)
    /\ Begin(r, write(task[r].job, Row(r)))
    /\ UNCHANGED <<mode, campaign, store, jobs, drafts, savedCopy, submitted, edits>>

\* A save that is refused still writes the row it has read.
handleCopyJobSave(r, k) ==
    /\ Free(r) /\ jobs[k] # None
    /\ Begin(r, IF PlanSaveAllows(jobs[k], campaign)
                THEN [do |-> "campaign", job |-> k, row |-> jobs[k],
                      title |-> WriteTitle(jobs[k], campaign),
                      intro |-> WriteIntro(jobs[k], campaign)]
                ELSE write(k, jobs[k]))
    /\ UNCHANGED <<mode, campaign, store, jobs, drafts, versions, savedCopy, submitted, edits>>

UpdateCampaign(r) ==
    /\ Due(r, "campaign")
    /\ campaign' = [title |-> IF task[r].title THEN Row(r).draft.title ELSE campaign.title,
                    intro |-> IF task[r].intro THEN Row(r).draft.intro ELSE campaign.intro]
    /\ Begin(r, perform("upsert", task[r].job, Row(r)))
    /\ UNCHANGED <<mode, store, jobs, drafts, versions, savedCopy, submitted, edits>>

UpsertSavedCopy(r) ==
    /\ Due(r, "upsert")
    /\ savedCopy' = task[r].job
    /\ Begin(r, write(task[r].job, [Row(r) EXCEPT !.state = "saved"]))
    /\ UNCHANGED <<mode, campaign, store, jobs, drafts, versions, submitted, edits>>

\* A draft without a job: the key, then the quota, then the insert.
handleCopyDraftCreate(r, d) ==
    /\ Free(r) /\ drafts[d] = None /\ quotaOK
    /\ Begin(r, perform("insert", d, Compose))
    /\ UNCHANGED <<mode, campaign, store, jobs, drafts, versions, savedCopy, submitted, edits>>

InsertCopyDraft(r) ==
    /\ Due(r, "insert")
    /\ drafts' = [drafts EXCEPT ![task[r].job] = IF @ = None THEN Compose ELSE @]
    /\ Finish(r)
    /\ UNCHANGED <<mode, campaign, store, jobs, versions, savedCopy, submitted, edits>>

handleCopyVersionAccept(d) ==
    /\ d \notin ToSet(versions)
    /\ AcceptCopyVersion(d)
    /\ UNCHANGED <<mode, campaign, store, jobs, drafts, savedCopy, submitted, edits, task>>

\* The merchant types over a field, or the store moves.
Edit ==
    /\ edits < MaxEdits /\ edits' = edits + 1
    /\ serial => Texting = {}
    /\ \/ campaign' = [campaign EXCEPT !.title = TypedText] /\ UNCHANGED store
       \/ campaign' = [campaign EXCEPT !.intro = TypedText] /\ UNCHANGED store
       \/ store' \in Addresses \ {store} /\ UNCHANGED campaign
    /\ UNCHANGED <<mode, jobs, drafts, versions, savedCopy, submitted, task>>

\* The process stops, or a statement fails: the request is gone, what it did stays.
Crash(r) ==
    /\ mode = "crashing" /\ task[r] # Idle
    /\ Finish(r)
    /\ UNCHANGED <<mode, campaign, store, jobs, drafts, versions, savedCopy, submitted, edits>>

-----------------------------------------------------------------------------

Init ==
    /\ mode \in Modes
    /\ campaign = [title |-> FirstText, intro |-> FirstText]
    /\ store \in Addresses
    /\ jobs = [k \in Jobs |-> None]
    /\ drafts = [d \in Jobs \cup DraftKeys |-> None]
    /\ versions = <<>>
    /\ savedCopy = None
    /\ submitted = [k \in Jobs |-> 0]
    /\ edits = 0
    /\ task = [r \in Requests |-> Idle]

\* What request r does next on its own.
Continue(r) ==
    \/ saveJob(r) \/ SwapCopyJob(r) \/ submit(r) \/ attachCopyDraft(r) \/ Accept(r)
    \/ UpdateCampaign(r) \/ UpsertSavedCopy(r) \/ InsertCopyDraft(r)
    \/ \E ending \in Endings : GenerateRefused(r, ending)
    \/ \E ending \in Endings : \E out \in ModelOutputs : GenerateEnds(r, ending, out)

Next ==
    \/ \E r \in Requests, k \in Jobs :
           \/ \E facts \in FactSheets : handleCopyJobQuote(r, k, facts)
           \/ handleCopyJobConfirm(r, k)
           \/ \E ready \in BOOLEAN : handleCopyJobGenerate(r, k, ready)
           \/ handleCopyJobSelect(r, k)
           \/ handleCopyJobRevoke(r, k)
           \/ handleCopyJobSave(r, k)
    \/ \E r \in Requests, d \in DraftKeys : handleCopyDraftCreate(r, d)
    \/ \E d \in DraftKeys : handleCopyVersionAccept(d)
    \/ \E r \in Requests : Continue(r) \/ Crash(r)
    \/ Edit

Spec == Init /\ [][Next]_vars

\* A request that has begun goes on: the handler runs to its end, and the model
\* call has a deadline.
FairSpec == Spec /\ \A r \in Requests : WF_vars(Continue(r))

-----------------------------------------------------------------------------
(* Properties *)

TypeOK ==
    /\ mode \in Modes
    /\ campaign \in [title : Texts, intro : Texts] /\ store \in Addresses
    /\ jobs \in [Jobs -> Job \cup {None}]
    /\ drafts \in [Jobs \cup DraftKeys -> Draft \cup {None}]
    /\ savedCopy \in Jobs \cup {None}
    /\ submitted \in [Jobs -> 0..MaxSubmissions]
    /\ edits \in 0..MaxEdits

\* Whatever the order of requests, a job that is selected or saved has a draft
\* that was accepted as a version of the campaign's copy (handleCopyJobSelect).
SelectedIsAccepted ==
    \A k \in Jobs :
        jobs[k] # None /\ jobs[k].state \in {"selected", "saved"} => k \in ToSet(versions)

\* The day's drafts stay within the allowance; requests in parallel may each have
\* counted before the others inserted, the count and the insert being two
\* statements (copyDraftDailyQuota).
QuotaOverrunIsBounded ==
    LET made == Cardinality({d \in DOMAIN drafts : drafts[d] # None})
    IN  /\ mode = "serial" => made <= DailyQuota
        /\ mode = "parallel" => made < DailyQuota + Cardinality(Requests)

\* A charge is only ever counted for a task the platform has accepted, and when
\* requests come one at a time no job submits a second task, whatever timed out,
\* was lost or crashed on the way (PlanGenerate, noteSubmit).
ChargedOnce ==
    \A k \in Jobs : /\ jobs[k] # None => jobs[k].chargeCount <= submitted[k]
                    /\ serial => submitted[k] <= 1

\* When requests come one at a time, a save replaces a field only
\* while it says what it said when the job was quoted: what the merchant
\* typed in the meantime stays (PlanSave).
HandwrittenKept ==
    [][\A r \in Requests :
           serial /\ UpdateCampaign(r) =>
               /\ campaign'.title # campaign.title => campaign.title = Row(r).snapshot.title
               /\ campaign'.intro # campaign.intro => campaign.intro = Row(r).snapshot.intro]_vars

\* A text adds nothing to `before` that was withheld in r's snapshot.
AddsNothingWithheld(r, text, before) ==
    Mentions[text] \cap withheldTexts(Row(r).snapshot)
        \subseteq before \cup confirmedCorpus(Row(r).snapshot)

\* What the merchant filled in without confirming it reaches neither a field of the
\* campaign nor the topics saved with it, however long after the quote the job is saved,
\* unless he had published it himself (ApplyModel, leaks).
WithheldStaysOut ==
    [][\A r \in Requests :
           /\ UpdateCampaign(r) =>
                  /\ AddsNothingWithheld(r, campaign'.title, Mentions[campaign.title])
                  /\ AddsNothingWithheld(r, campaign'.intro, Mentions[campaign.intro])
           /\ UpsertSavedCopy(r) =>
                  \A topic \in Row(r).draft.topics : AddsNothingWithheld(r, topic, {})]_vars

generating(k) == jobs[k] # None /\ jobs[k].state = "generating"

\* With one request at a time, a job never stays in generating: the
\* result, a failure or the deadline ends it (finishModelCall).
GenerationEnds ==
    \A k \in Jobs : generating(k) /\ mode = "serial" ~> ~generating(k)

\* What copydraft.go:209 says, "the system will not make up a price": a text that is saved
\* says only what was confirmed or published.  Only what was filled in is looked for.
NothingInvented ==
    [][\A r \in Requests :
           UpsertSavedCopy(r) =>
               LET draft == Row(r).draft IN
               \A text \in {draft.title, draft.intro} \cup draft.topics :
                   Mentions[text] \subseteq confirmedCorpus(Row(r).snapshot)]_vars

\* What copyjob.go:369 says: a late result for a revoked job is discarded.
RevokedIsFinal ==
    [][\A k \in Jobs :
           jobs[k] # None /\ jobs[k].state = "revoked" => jobs'[k].state = "revoked"]_vars
=============================================================================

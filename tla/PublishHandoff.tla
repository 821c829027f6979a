--------------------------- MODULE PublishHandoff ---------------------------
(***************************************************************************)
(* The publish handoff (internal/publishhandoff): from the content a       *)
(* customer confirmed to the platform's signed receipt.                    *)
(*                                                                         *)
(* Every handler reads the handoff once, checks the transition table       *)
(* against what it read and then runs its statements one by one, without   *)
(* a transaction and without looking again: the UPDATE of setState names   *)
(* the id only.  So a request is a task that holds the statements it still *)
(* has to run (`todo`); requests interleave between statements.            *)
(*                                                                         *)
(* One tenant and one platform.  A customer is a participation with the    *)
(* visitor it belongs to.  Left out is what only writes text or events     *)
(* that nothing reads again: the cancel reason and its event, the          *)
(* customer's "done", rejected receipts, refused routes and Resend.        *)
(***************************************************************************)
EXTENDS Integers, Sequences, FiniteSets

CONSTANTS
    Customers, Nobody,
    Attempts,          \* publish attempts the customers may create
    Contents,          \* fingerprints of content snapshots
    ExplicitKeys,      \* idempotency keys sent by clients
    Receipts,          \* what arrives at the callback
    Requests,
    HasReceiptSecret,  \* whether the platform's secret is configured
    MaxHandoffs,       \* by mode
    MaxQueries

ASSUME ReceiptsAssumption ==
    Receipts \subseteq [id : STRING, attempt : Attempts, content : Contents,
                        genuine : BOOLEAN, published : BOOLEAN]

ASSUME SettingsAssumption ==
    /\ HasReceiptSecret \in BOOLEAN
    /\ MaxHandoffs \in [{"parallel", "serial"} -> Nat]
    /\ MaxQueries \in Nat
    /\ Nobody \notin Customers

VARIABLES
    mode,       \* how the requests of this behaviour come
    frozenBy,   \* frozenBy[a]: the customer whose frozen attempt a is, or Nobody
    handoffs,   \* sequence of rows, the position is the id
    events,     \* what has been recorded, without when and how often
    task

vars == <<mode, frozenBy, handoffs, events, task>>

\* In parallel, as the server is wired and each to its end; or one at a time, where
\* a request may die half-way, also the operations that no route calls yet, with a
\* source of editor-opened proofs, which no deployment has yet.
Modes == {"parallel", "serial"}
serial == mode = "serial"

States == {"previewed", "handoff_preparing", "handoff_ready", "editor_opened", "submitting",
           "awaiting_review", "platform_confirmed", "canceled", "failed", "unknown"}
Evidence == {"customer_action", "staff_observation", "official_receipt", "verifier_proof",
             "system_timeout", "system_recovery", "system_adapter"}
Terminal == {"platform_confirmed", "canceled", "failed"}

\* The default key of a start is derived from the participation (and platform).
DerivedKey(c) == c
Keys == ExplicitKeys \cup {DerivedKey(c) : c \in Customers}

Handoffs == DOMAIN handoffs

Row == [key : Keys, customer : Customers, attempt : Attempts, content : Contents,
        status : States, evidence : Evidence, queries : Nat, timedOut : BOOLEAN]

-----------------------------------------------------------------------------
(* The state machine *)

transitions(from) ==
    CASE from = "previewed"         -> {"handoff_preparing", "canceled"}
      [] from = "handoff_preparing" -> {"handoff_ready", "failed", "canceled"}
      [] from = "handoff_ready"     -> {"editor_opened", "submitting", "awaiting_review",
                                        "canceled"}
      [] from = "editor_opened"     -> {"submitting", "awaiting_review", "canceled"}
      [] from = "submitting"        -> {"platform_confirmed", "awaiting_review", "unknown",
                                        "canceled"}
      [] from = "awaiting_review"   -> {"platform_confirmed", "canceled"}
      [] from = "unknown"           -> {"platform_confirmed", "awaiting_review", "canceled"}
      [] from \in Terminal          -> {}

requiredEvidence(to) ==
    CASE to = "handoff_preparing"  -> {"customer_action"}
      [] to = "handoff_ready"      -> {"system_adapter", "system_recovery"}
      [] to = "editor_opened"      -> {"verifier_proof"}
      [] to = "submitting"         -> {"system_adapter"}
      [] to = "awaiting_review"    -> {"staff_observation"}
      [] to = "platform_confirmed" -> {"official_receipt"}
      [] to = "unknown"            -> {"system_timeout"}
      [] to = "canceled"           -> {"customer_action", "staff_observation"}
      [] to = "failed"             -> {"system_adapter"}
      [] to = "previewed"          -> {}

\* Mutant: terminal states may still be canceled.
CheckWithoutTerminal(from, to, ev) ==
    /\ to \in transitions(from) \/ to = "canceled"
    /\ ev \in requiredEvidence(to)

CheckTransition(from, to, ev) == to \in transitions(from) /\ ev \in requiredEvidence(to)

-----------------------------------------------------------------------------
(* Requests and their statements *)

state(to, ev) == [do |-> "state", to |-> to, evidence |-> ev]
log(kind)     == [do |-> "log", kind |-> kind]

\* setState: the UPDATE, then the event.
setState(to, ev) ==
    <<state(to, ev), log([kind |-> "state_changed", to |-> to])>>

\* No request is under way here.
Idle == [h |-> 0, todo |-> <<>>]

Run(r, h, todo) == task' = [task EXCEPT ![r] = [h |-> h, todo |-> todo]]
Return(r)       == task' = [task EXCEPT ![r] = Idle]

\* Request r is about to run a statement of this kind.
Due(r, do)  == /\ task[r] # Idle
               /\ task[r].todo # <<>>
               /\ Head(task[r].todo).do = do
Now(r)      == Head(task[r].todo)
Done(r)     == IF Len(task[r].todo) = 1 THEN Return(r) ELSE Run(r, task[r].h, Tail(task[r].todo))

Update(r, row) == handoffs' = [handoffs EXCEPT ![task[r].h] = row]

Own(c, h) == handoffs[h].customer = c

-----------------------------------------------------------------------------
(* Start *)

\* The handler reuses the customer's frozen attempt, or creates or takes a
\* prepared one and freezes it (Participation's CreateAttempt and BeginHandoff).
prepareAttempt(c, a) ==
    /\ frozenBy[a] \in {c, Nobody}
    /\ frozenBy' = [frozenBy EXCEPT ![a] = c]

byKey(key) == {h \in Handoffs : handoffs[h].key = key}

\* A replay of the key answers the original row, whatever was confirmed now.
StartReplay(r, c, a, content, key) ==
    \E h \in byKey(key) :
        /\ prepareAttempt(c, a)
        /\ Run(r, h, <<[do |-> "answer", confirmed |-> content]>>)
        /\ UNCHANGED <<handoffs, events>>

Starting == {r \in Requests : Due(r, "insert")}

StartRead(r, c, a, content, key) ==
    /\ byKey(key) = {}
    /\ Len(handoffs) + Cardinality(Starting) < MaxHandoffs[mode]
    /\ prepareAttempt(c, a)
    /\ Run(r, 0, <<[do |-> "insert", key |-> key, customer |-> c, attempt |-> a,
                    content |-> content]>>)
    /\ UNCHANGED <<handoffs, events>>

NewRow(s) ==
    [key |-> s.key, customer |-> s.customer, attempt |-> s.attempt, content |-> s.content,
     status |-> "previewed", evidence |-> "customer_action", queries |-> 0,
     timedOut |-> FALSE]

\* The unique index refuses the second of two concurrent starts with an error.
Insert(r) ==
    /\ Due(r, "insert")
    /\ IF byKey(Now(r).key) = {}
       THEN /\ handoffs' = Append(handoffs, NewRow(Now(r)))
            /\ Run(r, Len(handoffs) + 1,
                   setState("handoff_preparing", "customer_action")
                       \o <<[do |-> "mint", from |-> "start", confirmed |-> Now(r).content]>>)
       ELSE Return(r) /\ UNCHANGED handoffs
    /\ UNCHANGED <<frozenBy, events>>

\* Mutant: a media failure just ends the request.
mintMediaOrGiveUp(r) ==
    /\ Due(r, "mint")
    /\ \/ Run(r, task[r].h, setState("handoff_ready",
              IF Now(r).from = "start" THEN "system_adapter" ELSE "system_recovery"))
       \/ Return(r)
    /\ UNCHANGED <<frozenBy, handoffs, events>>

\* Signing the media URLs works or not, by configuration and snapshot.
mintMedia(r) ==
    /\ Due(r, "mint")
    /\ \/ Run(r, task[r].h, setState("handoff_ready",
              IF Now(r).from = "start" THEN "system_adapter" ELSE "system_recovery"))
       \/ Run(r, task[r].h, setState("failed", "system_adapter"))
    /\ UNCHANGED <<frozenBy, handoffs, events>>

Answer(r) ==
    /\ Due(r, "answer")
    /\ Return(r)
    /\ UNCHANGED <<frozenBy, handoffs, events>>

-----------------------------------------------------------------------------
(* The statements the handlers share *)

SetStatus(r) ==
    /\ Due(r, "state")
    /\ Update(r, [handoffs[task[r].h] EXCEPT !.status = Now(r).to,
                                             !.evidence = Now(r).evidence])
    /\ Done(r)
    /\ UNCHANGED <<frozenBy, events>>

confirmation(id) == [kind |-> "official_confirmed", receipt |-> id]

\* The partial unique index: one confirmation per receipt.
Insertable(e) ==
    e.kind = "official_confirmed" =>
        ~ \E old \in events : old.what = e

\* Mutant: nothing more is recorded of a handoff that has ended.
appendNewsOnly(r) ==
    /\ Due(r, "log")
    /\ IF Insertable(Now(r).kind) /\ handoffs[task[r].h].status \notin Terminal
       THEN events' = events \cup {[of |-> task[r].h, what |-> Now(r).kind]} /\ Done(r)
       ELSE UNCHANGED events /\ Return(r)
    /\ UNCHANGED <<frozenBy, handoffs>>

appendEvent(r) ==
    /\ Due(r, "log")
    /\ IF Insertable(Now(r).kind)
       THEN events' = events \cup {[of |-> task[r].h, what |-> Now(r).kind]} /\ Done(r)
       ELSE UNCHANGED events /\ Return(r)
    /\ UNCHANGED <<frozenBy, handoffs>>

SetTimedOut(r) ==
    /\ Due(r, "timed_out")
    /\ Update(r, [handoffs[task[r].h] EXCEPT !.timedOut = TRUE])
    /\ Done(r)
    /\ UNCHANGED <<frozenBy, events>>

CountQuery(r) ==
    /\ Due(r, "count")
    /\ Update(r, [handoffs[task[r].h] EXCEPT !.queries = @ + 1])
    /\ Done(r)
    /\ UNCHANGED <<frozenBy, events>>

-----------------------------------------------------------------------------
(* What the handlers read and decide *)

Begin(r, h, todo) == Run(r, h, todo) /\ UNCHANGED <<frozenBy, handoffs, events>>

Cancel(r, c, h) ==
    /\ Own(c, h)
    /\ CheckTransition(handoffs[h].status, "canceled", "customer_action")
    /\ Begin(r, h, setState("canceled", "customer_action"))

MarkEditorOpened(r, c, h, proven) ==
    /\ Own(c, h)
    /\ serial /\ proven
    /\ CheckTransition(handoffs[h].status, "editor_opened", "verifier_proof")
    /\ Begin(r, h, setState("editor_opened", "verifier_proof"))

MarkSubmitting(r, c, h) ==
    /\ Own(c, h)
    /\ CheckTransition(handoffs[h].status, "submitting", "system_adapter")
    /\ Begin(r, h, setState("submitting", "system_adapter"))

MarkTimedOut(r, h) ==
    /\ CheckTransition(handoffs[h].status, "unknown", "system_timeout")
    /\ Begin(r, h, setState("unknown", "system_timeout")
                       \o <<[do |-> "timed_out"]>>)

Counting(h) == {r \in Requests : Due(r, "count") /\ task[r].h = h}

Query(r, c, h) ==
    /\ Own(c, h)
    /\ handoffs[h].status \in {"submitting", "unknown"}
    /\ handoffs[h].queries + Cardinality(Counting(h)) < MaxQueries
    /\ Begin(r, h, <<[do |-> "count"]>>)

fact == [kind |-> "staff_fact"]

\* Either of the two human facts, of which none is official.
RecordStaffEvent(r, h) ==
    /\ handoffs[h].status \notin Terminal \cup {"previewed", "handoff_preparing"}
    /\ IF handoffs[h].status = "awaiting_review"
       THEN Begin(r, h, <<log(fact)>>)
       ELSE /\ CheckTransition(handoffs[h].status, "awaiting_review", "staff_observation")
            /\ Begin(r, h, setState("awaiting_review", "staff_observation")
                               \o <<log(fact)>>)

Verify(receipt) == HasReceiptSecret /\ receipt.genuine

\* Mutant: the content version is not among the bindings.
BindAttemptOnly(receipt, h) == receipt.attempt = handoffs[h].attempt

\* App, tenant and participation are those of the attempt.
BindReceipt(receipt, h) ==
    receipt.attempt = handoffs[h].attempt /\ receipt.content = handoffs[h].content

\* Applied to one handoff; a replay of the receipt that confirmed it changes nothing.
ApplyReceipt(r, h, receipt) ==
    /\ Verify(receipt)
    /\ BindReceipt(receipt, h)
    /\ [of |-> h, what |-> confirmation(receipt.id)] \notin events
    /\ receipt.published
    /\ CheckTransition(handoffs[h].status, "platform_confirmed", "official_receipt")
    /\ Begin(r, h, setState("platform_confirmed", "official_receipt")
                       \o <<log(confirmation(receipt.id))>>)

\* After a restart: a preparing row only.
Resume(r, h) ==
    /\ handoffs[h].status = "handoff_preparing"
    /\ Begin(r, h, <<[do |-> "mint", from |-> "resume"]>>)

\* A request dies between two statements and nothing is rolled back.
Abort(r) ==
    /\ serial
    /\ task[r] # Idle
    /\ Return(r)
    /\ UNCHANGED <<mode, frozenBy, handoffs, events>>

-----------------------------------------------------------------------------
Init ==
    /\ mode \in Modes
    /\ frozenBy = [a \in Attempts |-> Nobody]
    /\ handoffs = <<>>
    /\ events = {}
    /\ task = [r \in Requests |-> Idle]

(* The handlers.  One whose body, link, session or scope is refused, or whose *)
(* handoff is not the caller's, changes nothing.                             *)

handlePublicPublishHandoffStart(r) ==
    \E c \in Customers, a \in Attempts, content \in Contents :
        \E key \in ExplicitKeys \cup {DerivedKey(c)} :
            StartReplay(r, c, a, content, key) \/ StartRead(r, c, a, content, key)

handlePublicPublishHandoffCancel(r) == \E c \in Customers, h \in Handoffs : Cancel(r, c, h)

handlePublicPublishHandoffEditorOpened(r) ==
    \E c \in Customers, h \in Handoffs, proven \in BOOLEAN : MarkEditorOpened(r, c, h, proven)

handlePublishHandoffStaffEvent(r) == \E h \in Handoffs : RecordStaffEvent(r, h)

\* A genuine receipt that is refused is answered as received, so that the
\* platform stops sending it.
handlePublicPublishReceipt(r) ==
    \E h \in Handoffs, receipt \in Receipts : ApplyReceipt(r, h, receipt)

\* Operations of the service that no route calls yet.
Unrouted(r) ==
    /\ serial
    /\ \E h \in Handoffs :
          \/ MarkTimedOut(r, h) \/ Resume(r, h)
          \/ \E c \in Customers : MarkSubmitting(r, c, h) \/ Query(r, c, h)

Arrive(r) ==
    /\ task[r] = Idle
    /\ serial => \A q \in Requests : task[q] = Idle
    /\ UNCHANGED mode
    /\ \/ handlePublicPublishHandoffStart(r) \/ handlePublicPublishHandoffCancel(r)
       \/ handlePublicPublishHandoffEditorOpened(r) \/ handlePublishHandoffStaffEvent(r)
       \/ handlePublicPublishReceipt(r) \/ Unrouted(r)

Step(r) ==
    /\ UNCHANGED mode
    /\ \/ Insert(r) \/ mintMedia(r) \/ Answer(r)
       \/ SetStatus(r) \/ appendEvent(r) \/ SetTimedOut(r) \/ CountQuery(r)

Next == \E r \in Requests : Arrive(r) \/ Step(r) \/ Abort(r)

Spec == Init /\ [][Next]_vars

\* A request that has arrived goes on to its end.
FairSpec == Spec /\ \A r \in Requests : WF_vars(Step(r))
-----------------------------------------------------------------------------
(* Properties *)

EventKinds == {"staff_fact", "state_changed", "official_confirmed"}

\* Rows and events stay in their CHECK constraints; events and running requests
\* refer to handoffs that exist.
TypeOK ==
    /\ mode \in Modes
    /\ frozenBy \in [Attempts -> Customers \cup {Nobody}]
    /\ handoffs \in Seq(Row)
    /\ \A e \in events : e.of \in Handoffs /\ e.what.kind \in EventKinds
    /\ \A r \in Requests : task[r] # Idle =>
          /\ task[r].todo # <<>>
          /\ task[r].h \in Handoffs \/ Due(r, "insert")

\* Concurrent starts under one idempotency key open one handoff.
OneHandoffPerKey ==
    \A h, i \in Handoffs : handoffs[h].key = handoffs[i].key => h = i

\* "platform_confirmed" and the official fact rest on a genuine receipt for this
\* very attempt and content, however clicks, staff and timeouts interleave.
ConfirmedIsOfficial ==
    \A h \in Handoffs :
        \/ handoffs[h].status = "platform_confirmed"
        \/ \E e \in events : e.of = h /\ e.what.kind = "official_confirmed"
        => \E receipt \in Receipts :
              /\ receipt.genuine /\ receipt.published
              /\ receipt.attempt = handoffs[h].attempt
              /\ receipt.content = handoffs[h].content

\* A running request is still to record this receipt as a confirmation.
ToRecord(receipt) ==
    \E r \in Requests :
        task[r] # Idle /\ \E i \in DOMAIN task[r].todo :
                             task[r].todo[i] = log(confirmation(receipt.id))

\* The status is written before the event, and the event may be refused: but where no
\* request dies, the receipt behind a confirmed handoff is on record as a confirmation,
\* of this handoff or of another, or a running request is still to put it there.
ConfirmingReceiptIsRecorded ==
    \A h \in Handoffs : ~serial /\ handoffs[h].status = "platform_confirmed" =>
        \E receipt \in Receipts :
            /\ Verify(receipt) /\ BindReceipt(receipt, h)
            /\ ToRecord(receipt) \/ \E e \in events : e.what = confirmation(receipt.id)

\* "No resurrection": taken one request at a time, a terminal state is final.
TerminalIsFinal ==
    [][\A h \in Handoffs :
          serial /\ handoffs[h].status \in Terminal =>
              handoffs'[h].status = handoffs[h].status]_vars

\* "After a timeout the handoff is queried, never resent".  In parallel it is not
\* so, once a route calls MarkSubmitting.
NeverResubmitted ==
    [][\A h \in Handoffs :
          handoffs[h].status = "unknown" => handoffs'[h].status # "submitting"]_vars

\* "Official results that arrive late do not rewrite what was canceled or failed".
LateReceiptsRewriteNothing ==
    [][\A h \in Handoffs : handoffs[h].status \in {"canceled", "failed"} =>
          handoffs'[h].status # "platform_confirmed"]_vars

\* A customer is answered with a handoff of the content confirmed in that call.
AnswerIsConfirmed ==
    \A r \in Requests :
        Due(r, "answer") => handoffs[task[r].h].content = Now(r).confirmed

\* Whenever no request is running, a confirmed handoff has its receipt on record.
ConfirmationIsRecorded ==
    (\A r \in Requests : task[r] = Idle) =>
        \A h \in Handoffs : handoffs[h].status = "platform_confirmed" =>
            \E e \in events : e.of = h /\ e.what.kind = "official_confirmed"

\* In parallel, where no request dies, a handoff does not stay in preparation: it gets ready, fails
\* or is canceled.
PreparationEnds ==
    \A h \in 1..MaxHandoffs["parallel"] :
        ~serial /\ h \in Handoffs
            ~> (h \in Handoffs /\ handoffs[h].status
                                               \notin {"previewed", "handoff_preparing"})

=============================================================================
